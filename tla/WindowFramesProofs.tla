--------------------------- MODULE WindowFramesProofs ---------------------------
(***************************************************************************)
(* What WindowFrames keeps, for any windows, any trees of views, cached or *)
(* not, and any amount of user code: its tables agree, and a view that has *)
(* changed since it was rendered is marked for the next draw, which is due *)
(* if the change was made outside of a draw.                               *)
(***************************************************************************)
EXTENDS WindowFrames, SequenceTheorems, FiniteSetTheorems, TLAPS

------------------------------------------------------------------------------
(***************************************************************************)
(* Trees of views.                                                         *)
(***************************************************************************)
\* The path of a view begins with its window and ends with the view.
LEMMA PathOf ==
  ASSUME NEW v \in Views
  PROVE  /\ Len(Path[v]) \in Nat /\ Len(Path[v]) > 1
         /\ Home(v) = Path[v][1] /\ Home(v) \in Windows
         /\ Path[v][Len(Path[v])] = v
         /\ \A i \in 2 .. Len(Path[v]) : Path[v][i] \in Views
         /\ v \in Around(v) /\ Around(v) \subseteq Views /\ v \in Inside(v)
         /\ v \notin Windows
<1>1. /\ Path[v] \in Seq(Windows \cup Views) /\ Len(Path[v]) > 1
      /\ Head(Path[v]) \in Windows /\ Path[v][Len(Path[v])] = v
      /\ \A i \in 2 .. Len(Path[v]) : Path[v][i] \in Views
      /\ Windows \cap Views = {}
  BY PathAssumption
<1>2. Len(Path[v]) \in Nat
  BY <1>1, LenProperties
<1>3. Path[v] # <<>>
  BY <1>1, EmptySeq
<1>4. Head(Path[v]) = Path[v][1]
  BY <1>1, <1>3, HeadTailProperties
<1>5. Len(Path[v]) \in 2 .. Len(Path[v])
  BY <1>1, <1>2
<1>6. v \in Around(v)
  BY <1>1, <1>5 DEF Around
<1>7. Around(v) \subseteq Views
  BY <1>1 DEF Around
<1>8. v \in Inside(v)
  BY <1>6 DEF Inside
<1> QED
  BY <1>1, <1>2, <1>4, <1>6, <1>7, <1>8 DEF Home

\* The path of a view around another is where the other's begins.
LEMMA PathAround ==
  ASSUME NEW v \in Views, NEW i \in 2 .. Len(Path[v])
  PROVE  /\ Path[v][i] \in Views
         /\ Len(Path[Path[v][i]]) = i
         /\ \A j \in 1 .. i : Path[Path[v][i]][j] = Path[v][j]
<1>1. /\ Path[v] \in Seq(Windows \cup Views) /\ Path[v][i] \in Views
      /\ Path[Path[v][i]] = SubSeq(Path[v], 1, i)
  BY PathAssumption
<1>2. Len(Path[v]) \in Nat
  BY PathOf
<1>3. 1 \in 1 .. Len(Path[v]) + 1 /\ i \in 1 - 1 .. Len(Path[v])
  BY <1>2
<1>4. Len(SubSeq(Path[v], 1, i)) = i
  BY <1>1, <1>2, SubSeqProperties
<1>5. ASSUME NEW j \in 1 .. i
      PROVE  SubSeq(Path[v], 1, i)[j] = Path[v][j]
  BY <1>1, <1>2, SubSeqProperties
<1> QED
  BY <1>1, <1>4, <1>5

\* What is around a view around another is around the other.
LEMMA AroundAround ==
  ASSUME NEW v \in Views, NEW u \in Around(v)
  PROVE  u \in Views /\ Home(u) = Home(v) /\ Around(u) \subseteq Around(v)
<1>1. PICK i \in 2 .. Len(Path[v]) : u = Path[v][i]
  BY DEF Around
<1>2. /\ u \in Views /\ Len(Path[u]) = i /\ i > 1
      /\ \A j \in 1 .. i : Path[u][j] = Path[v][j]
  BY <1>1, PathAround
<1>3. Home(u) = Path[u][1] /\ Home(v) = Path[v][1] /\ Len(Path[v]) \in Nat
  BY <1>2, PathOf
<1>4. Around(u) \subseteq Around(v)
  BY <1>2, <1>3 DEF Around
<1> QED
  BY <1>2, <1>3, <1>4

\* Two views around each other are one.
LEMMA AroundEach ==
  ASSUME NEW v \in Views, NEW u \in Around(v), v \in Around(u)
  PROVE  u = v
<1>1. PICK i \in 2 .. Len(Path[v]) : u = Path[v][i]
  BY DEF Around
<1>2. u \in Views /\ Len(Path[u]) = i
  BY <1>1, PathAround
<1>3. PICK k \in 2 .. Len(Path[u]) : v = Path[u][k]
  BY DEF Around
<1>4. Len(Path[v]) = k
  BY <1>2, <1>3, PathAround
<1>5. Len(Path[v]) \in Nat
  BY PathOf
<1>6. i = Len(Path[v])
  BY <1>2, <1>3, <1>4, <1>5
<1> QED
  BY <1>1, <1>6, PathOf

\* Of two views around a third, one is around the other.
LEMMA AroundLine ==
  ASSUME NEW x \in Views, NEW u \in Around(x), NEW v \in Around(x)
  PROVE  u \in Around(v) \/ v \in Around(u)
<1>1. PICK i \in 2 .. Len(Path[x]) : u = Path[x][i]
  BY DEF Around
<1>2. PICK k \in 2 .. Len(Path[x]) : v = Path[x][k]
  BY DEF Around
<1>3. /\ Len(Path[u]) = i /\ \A j \in 1 .. i : Path[u][j] = Path[x][j]
      /\ Len(Path[v]) = k /\ \A j \in 1 .. k : Path[v][j] = Path[x][j]
  BY <1>1, <1>2, PathAround
<1>4. CASE i <= k
  <2>1. i \in 2 .. k /\ i \in 1 .. k
    BY <1>4
  <2> QED
    BY <1>1, <1>3, <2>1 DEF Around
<1>5. CASE k <= i
  <2>1. k \in 2 .. i /\ k \in 1 .. i
    BY <1>5
  <2> QED
    BY <1>2, <1>3, <2>1 DEF Around
<1> QED
  BY <1>4, <1>5

LEMMA InsideOf ==
  ASSUME NEW u \in Views, NEW x \in Inside(u)
  PROVE  /\ x \in Views /\ Home(x) = Home(u) /\ u \in Around(x)
         /\ Around(u) \subseteq Around(x)
BY AroundAround DEF Inside

\* The root of a window, and a view that another shows.
LEMMA RootOf ==
  ASSUME NEW w \in Windows, NEW v \in Children(w)
  PROVE  v \in Views /\ Home(v) = w /\ Around(v) = {v}
<1>1. v \in Views /\ Path[v][Len(Path[v]) - 1] = w
  BY DEF Children
<1>2. /\ Len(Path[v]) \in Nat /\ Len(Path[v]) > 1 /\ Home(v) = Path[v][1]
      /\ \A i \in 2 .. Len(Path[v]) : Path[v][i] \in Views
      /\ Path[v][Len(Path[v])] = v
  BY <1>1, PathOf
<1>3. Len(Path[v]) \in Nat /\ Len(Path[v]) > 1
  BY <1>1, PathOf
<1>4. w \notin Views
  BY PathAssumption
<1>5. Len(Path[v]) = 2
  <2> SUFFICES ASSUME Len(Path[v]) # 2 PROVE FALSE
    OBVIOUS
  <2>1. \A n \in Nat : n > 1 /\ n # 2 => n - 1 \in 2 .. n
    OBVIOUS
  <2>2. Len(Path[v]) - 1 \in 2 .. Len(Path[v])
    BY <1>3, <2>1
  <2> QED
    BY <1>1, <1>2, <1>4, <2>2
<1> QED
  BY <1>1, <1>2, <1>5 DEF Around

LEMMA ChildOf ==
  ASSUME NEW u \in Views, NEW v \in Children(u)
  PROVE  /\ v \in Views /\ Home(v) = Home(u)
         /\ Around(v) = Around(u) \cup {v} /\ v \notin Around(u)
         /\ v # u /\ u \in Around(v)
<1>1. v \in Views /\ Path[v][Len(Path[v]) - 1] = u
  BY DEF Children
<1>2. /\ Len(Path[v]) \in Nat /\ Len(Path[v]) > 1
      /\ Path[v][1] \in Windows /\ Path[v][Len(Path[v])] = v
      /\ Home(v) = Path[v][1]
  BY <1>1, PathOf
<1>3. u \notin Windows
  BY PathAssumption
<1>4. Len(Path[v]) - 1 \in 2 .. Len(Path[v])
  BY <1>1, <1>2, <1>3
<1>5. /\ Len(Path[u]) = Len(Path[v]) - 1
      /\ \A j \in 1 .. Len(Path[v]) - 1 : Path[u][j] = Path[v][j]
  BY <1>1, <1>4, PathAround
<1>6. u \in Around(v)
  BY <1>1, <1>4 DEF Around
<1>7. Home(v) = Home(u)
  BY <1>1, <1>6, AroundAround
<1>8. \A i \in 2 .. Len(Path[v]) : i = Len(Path[v]) \/ i \in 2 .. Len(Path[u])
  BY <1>2, <1>5
<1>9. Around(v) \subseteq Around(u) \cup {v}
  BY <1>2, <1>4, <1>5, <1>8 DEF Around
<1>10. Around(u) \cup {v} \subseteq Around(v)
  BY <1>1, <1>6, AroundAround, PathOf
<1>11. v # u
  BY <1>2, <1>5
<1>12. v \notin Around(u)
  BY <1>1, <1>6, <1>11, AroundEach
<1> QED
  BY <1>1, <1>6, <1>7, <1>9, <1>10, <1>11, <1>12

LEMMA OneParent ==
  ASSUME NEW x, NEW y, NEW v \in Children(x), v \in Children(y)
  PROVE  x = y
BY DEF Children

------------------------------------------------------------------------------
(***************************************************************************)
(* The stack of calls.                                                     *)
(***************************************************************************)
Requests   == {i \in DOMAIN stack : stack[i].op = "request"}
Draws      == {i \in DOMAIN stack : stack[i].op = "draw"}
Renderings == {i \in DOMAIN stack : stack[i].op = "view"}

\* The views being rendered.
InRendering == {stack[i].on : i \in Renderings}

\* Only the first call is a frame request, of an open window.
RequestsFirst == \A i \in Requests : i = 1 /\ stack[i].on \in open

\* A view is rendered by what shows it, in the draw of its window.
RendersChild == \A i \in Renderings : /\ i > 1 /\ i - 1 \in Draws \cup Renderings
                                      /\ stack[i].on \in Children(stack[i - 1].on)

RendersInDraw ==
  \A i \in Renderings : \E k \in Draws :
    /\ k < i /\ stack[k].on = Home(stack[i].on)
    /\ \A j \in k + 1 .. i : j \in Renderings

\* A window draws once at a time.
DrawsOnce == /\ drawing = {stack[i].on : i \in Draws}
             /\ \A i, j \in Draws : stack[i].on = stack[j].on => i = j

\* Windows are numbered as they are opened.
Numbered == \E n \in 0 .. MaxWindow : open \cup drawing = 1 .. n

ShowsChildren == \A i \in Draws \cup Renderings : stack[i].left \subseteq Children(stack[i].on)

Shape == /\ RequestsFirst /\ RendersChild /\ RendersInDraw /\ DrawsOnce
         /\ Numbered /\ ShowsChildren

\* The views of a frame are of its window, and those around them are in it.
Closed(frame) == \A w \in Windows : \A v \in frame[w] : Home(v) = w /\ Around(v) \subseteq frame[w]

\* A view enters the next frame as its rendering begins, and once.
RendersNew == /\ \A i \in Draws \cup Renderings :
                   \A v \in stack[i].left : v \notin nextFrame[Home(v)]
              /\ \A i \in Renderings : stack[i].on \in nextFrame[Home(stack[i].on)]
              /\ \A i, j \in Renderings : stack[i].on = stack[j].on => i = j

FramesOK == Closed(shown) /\ Closed(nextFrame) /\ RendersNew

Sound == TypeOK /\ Shape /\ FramesOK

LEMMA StackOf ==
  ASSUME stack \in Seq(Frames)
  PROVE  /\ Len(stack) \in Nat /\ DOMAIN stack = 1 .. Len(stack)
         /\ \A i \in DOMAIN stack : stack[i] \in Frames
         /\ stack = <<>> <=> Len(stack) = 0
<1>1. Len(stack) \in Nat /\ DOMAIN stack = 1 .. Len(stack)
  BY LenProperties
<1>2. \A i \in DOMAIN stack : stack[i] \in Frames
  BY <1>1, ElementOfSeq
<1>3. stack = <<>> <=> Len(stack) = 0
  BY EmptySeq
<1> QED
  BY <1>1, <1>2, <1>3

LEMMA FrameFields ==
  ASSUME NEW f \in Frames
  PROVE  /\ f.op \in {"request", "draw", "view"}
         /\ f.op = "request" => f.on \in Windows
         /\ f.op = "draw" => /\ f.on \in Windows /\ f.step \in {"prepaint", "paint"}
                             /\ f.marked \subseteq Views /\ f.left \subseteq Views
         /\ f.op = "view" => /\ f.on \in Views /\ f.left \subseteq Views
                             /\ f.before \subseteq Views /\ f.seen \subseteq Views
                             /\ f.was \in BOOLEAN
BY DEF Frames

\* What is at a place of the stack.
LEMMA FrameAt ==
  ASSUME stack \in Seq(Frames), NEW i \in DOMAIN stack
  PROVE  /\ i \in Requests \cup Draws \cup Renderings
         /\ i \in Requests => stack[i].on \in Windows
         /\ i \in Draws => /\ stack[i].on \in Windows
                           /\ stack[i].step \in {"prepaint", "paint"}
                           /\ stack[i].marked \subseteq Views /\ stack[i].left \subseteq Views
         /\ i \in Renderings => /\ stack[i].on \in Views /\ stack[i].left \subseteq Views
                                /\ stack[i].before \subseteq Views
                                /\ stack[i].seen \subseteq Views /\ stack[i].was \in BOOLEAN
<1>1. stack[i] \in Frames
  BY StackOf
<1>2. /\ stack[i].op \in {"request", "draw", "view"}
      /\ stack[i].op = "request" => stack[i].on \in Windows
      /\ stack[i].op = "draw" => /\ stack[i].on \in Windows
                                 /\ stack[i].step \in {"prepaint", "paint"}
                                 /\ stack[i].marked \subseteq Views
                                 /\ stack[i].left \subseteq Views
      /\ stack[i].op = "view" => /\ stack[i].on \in Views /\ stack[i].left \subseteq Views
                                 /\ stack[i].before \subseteq Views
                                 /\ stack[i].seen \subseteq Views /\ stack[i].was \in BOOLEAN
  BY <1>1, FrameFields
<1> QED
  BY <1>2 DEF Requests, Draws, Renderings

\* The last of the stack, and the others.
LEMMA TopAndUnder ==
  ASSUME stack \in Seq(Frames), stack # <<>>
  PROVE  /\ Len(stack) \in DOMAIN stack /\ Top \in Frames /\ Top = stack[Len(stack)]
         /\ Under \in Seq(Frames) /\ Len(Under) = Len(stack) - 1
         /\ \A i \in 1 .. Len(stack) - 1 : Under[i] = stack[i]
<1>1. /\ Len(stack) \in Nat /\ DOMAIN stack = 1 .. Len(stack) /\ Len(stack) # 0
      /\ \A i \in DOMAIN stack : stack[i] \in Frames
  BY StackOf
<1>2. \A i \in 1 .. Len(stack) - 1 : stack[i] \in Frames
  BY <1>1
<1>3. /\ Len(stack) - 1 \in Int /\ 1 \in Int
      /\ (Len(stack) - 1) - 1 + 1 = Len(stack) - 1
      /\ (IF 1 <= Len(stack) - 1 THEN (Len(stack) - 1) - 1 + 1 ELSE 0) = Len(stack) - 1
  BY <1>1
<1>4. /\ Under \in Seq(Frames) /\ Len(Under) = Len(stack) - 1
      /\ \A i \in 1 .. Len(stack) - 1 : Under[i] = stack[1 + i - 1]
  BY <1>2, <1>3, SubSeqProperties DEF Under
<1>5. ASSUME NEW i \in 1 .. Len(stack) - 1
      PROVE  Under[i] = stack[i]
  <2>1. 1 + i - 1 = i
    BY <1>1
  <2> QED
    BY <1>4, <2>1
<1>6. Len(stack) \in DOMAIN stack
  BY <1>1
<1> QED
  BY <1>1, <1>4, <1>5, <1>6 DEF Top

\* A call begins.
LEMMA Pushed ==
  ASSUME stack \in Seq(Frames), NEW f \in Frames, stack' = Append(stack, f)
  PROVE  /\ stack' \in Seq(Frames) /\ Len(stack') = Len(stack) + 1
         /\ DOMAIN stack' = 1 .. Len(stack) + 1 /\ stack'[Len(stack) + 1] = f
         /\ \A i \in DOMAIN stack : stack'[i] = stack[i]
<1>1. /\ Append(stack, f) \in Seq(Frames) /\ Len(Append(stack, f)) = Len(stack) + 1
      /\ \A i \in 1 .. Len(stack) : Append(stack, f)[i] = stack[i]
      /\ Append(stack, f)[Len(stack) + 1] = f
  BY AppendProperties
<1>2. DOMAIN Append(stack, f) = 1 .. Len(Append(stack, f))
  BY <1>1, LenProperties
<1>3. DOMAIN stack = 1 .. Len(stack)
  BY StackOf
<1> QED
  BY <1>1, <1>2, <1>3

\* The innermost call goes on.
LEMMA Replaced ==
  ASSUME stack \in Seq(Frames), stack # <<>>, NEW f \in Frames, Replace(f)
  PROVE  /\ stack' \in Seq(Frames) /\ Len(stack') = Len(stack)
         /\ DOMAIN stack' = DOMAIN stack /\ stack'[Len(stack)] = f
         /\ \A i \in 1 .. Len(stack) - 1 : stack'[i] = stack[i]
<1>1. /\ Under \in Seq(Frames) /\ Len(Under) = Len(stack) - 1
      /\ \A i \in 1 .. Len(stack) - 1 : Under[i] = stack[i]
      /\ Len(stack) \in DOMAIN stack
  BY TopAndUnder
<1>2. Len(stack) \in Nat /\ DOMAIN stack = 1 .. Len(stack)
  BY StackOf
<1>3. /\ Append(Under, f) \in Seq(Frames) /\ Len(Append(Under, f)) = Len(Under) + 1
      /\ \A i \in 1 .. Len(Under) : Append(Under, f)[i] = Under[i]
      /\ Append(Under, f)[Len(Under) + 1] = f
  BY <1>1, AppendProperties
<1>4. DOMAIN Append(Under, f) = 1 .. Len(Append(Under, f))
  BY <1>3, LenProperties
<1> QED
  BY <1>1, <1>2, <1>3, <1>4 DEF Replace

\* The innermost call returns.
LEMMA Popped ==
  ASSUME stack \in Seq(Frames), stack # <<>>, stack' = Under
  PROVE  /\ stack' \in Seq(Frames) /\ Len(stack') = Len(stack) - 1
         /\ DOMAIN stack' = 1 .. Len(stack) - 1
         /\ \A i \in 1 .. Len(stack) - 1 : stack'[i] = stack[i]
<1>1. /\ Under \in Seq(Frames) /\ Len(Under) = Len(stack) - 1
      /\ \A i \in 1 .. Len(stack) - 1 : Under[i] = stack[i]
  BY TopAndUnder
<1>2. DOMAIN Under = 1 .. Len(Under)
  BY <1>1, LenProperties
<1> QED
  BY <1>1, <1>2

------------------------------------------------------------------------------
(***************************************************************************)
(* What a step finds and leaves on the stack.                              *)
(***************************************************************************)
\* A window draws while one of its views is rendered.
LEMMA RenderedInDraw ==
  ASSUME Sound, NEW i \in Renderings
  PROVE  /\ stack[i].on \in Views /\ Home(stack[i].on) \in drawing
         /\ Home(stack[i].on) \in Windows
<1>1. PICK k \in Draws : stack[k].on = Home(stack[i].on)
  BY DEF Sound, Shape, RendersInDraw
<1>2. Home(stack[i].on) \in drawing
  BY <1>1 DEF Sound, Shape, DrawsOnce
<1>3. stack[i].on \in Views
  BY FrameAt DEF Sound, TypeOK, Renderings
<1> QED
  BY <1>2, <1>3, PathOf

\* The view whose turn it is to be shown.
LEMMA Showing ==
  ASSUME Sound, NEW v \in Views, Shows(v)
  PROVE  /\ stack # <<>> /\ Len(stack) \in Draws \cup Renderings
         /\ v \in stack[Len(stack)].left /\ v \in Children(stack[Len(stack)].on)
         /\ Home(v) \in drawing /\ Home(v) \in Windows
         /\ Len(stack) \in Draws =>
              /\ stack[Len(stack)].on = Home(v) /\ stack[Len(stack)].step = "prepaint"
              /\ Around(v) = {v}
         /\ Len(stack) \in Renderings =>
              /\ stack[Len(stack)].on \in Views /\ Home(stack[Len(stack)].on) = Home(v)
              /\ Around(v) = Around(stack[Len(stack)].on) \cup {v}
              /\ v \notin Around(stack[Len(stack)].on)
              /\ Around(stack[Len(stack)].on) \subseteq nextFrame[Home(v)]
         /\ Inside(v) \cap nextFrame[Home(v)] = {}
<1> DEFINE n == Len(stack)
<1>1. /\ stack \in Seq(Frames) /\ stack # <<>> /\ Top = stack[n] /\ n \in DOMAIN stack
  <2>1. stack \in Seq(Frames) /\ stack # <<>>
    BY DEF Sound, TypeOK, Shows, Running
  <2> QED
    BY <2>1, TopAndUnder
<1>2. /\ n \in Draws \cup Renderings /\ v \in stack[n].left
      /\ n \in Draws => stack[n].step = "prepaint"
  BY <1>1 DEF Shows, Running, Draws, Renderings
<1>3. v \in Children(stack[n].on)
  BY <1>2 DEF Sound, Shape, ShowsChildren
<1>4. n \in Draws => /\ stack[n].on = Home(v) /\ Around(v) = {v} /\ Home(v) \in drawing
  <2> SUFFICES ASSUME n \in Draws
               PROVE  stack[n].on = Home(v) /\ Around(v) = {v} /\ Home(v) \in drawing
    OBVIOUS
  <2>1. stack[n].on \in Windows
    BY <1>1, FrameAt
  <2>2. stack[n].on \in drawing
    BY DEF Sound, Shape, DrawsOnce
  <2> QED
    BY <1>3, <2>1, <2>2, RootOf
<1>5. n \in Renderings => /\ stack[n].on \in Views /\ Home(stack[n].on) = Home(v)
                          /\ Around(v) = Around(stack[n].on) \cup {v}
                          /\ v \notin Around(stack[n].on)
                          /\ Home(v) \in drawing
                          /\ Around(stack[n].on) \subseteq nextFrame[Home(v)]
  <2> SUFFICES ASSUME n \in Renderings
               PROVE  /\ stack[n].on \in Views /\ Home(stack[n].on) = Home(v)
                      /\ Around(v) = Around(stack[n].on) \cup {v}
                      /\ v \notin Around(stack[n].on)
                      /\ Home(v) \in drawing
                      /\ Around(stack[n].on) \subseteq nextFrame[Home(v)]
    OBVIOUS
  <2>1. /\ stack[n].on \in Views /\ Home(stack[n].on) \in drawing
        /\ Home(stack[n].on) \in Windows
    BY RenderedInDraw
  <2>2. /\ Home(v) = Home(stack[n].on) /\ Around(v) = Around(stack[n].on) \cup {v}
        /\ v \notin Around(stack[n].on)
    BY <1>3, <2>1, ChildOf
  <2>3. stack[n].on \in nextFrame[Home(stack[n].on)]
    BY DEF Sound, FramesOK, RendersNew
  <2>4. Around(stack[n].on) \subseteq nextFrame[Home(stack[n].on)]
    BY <2>1, <2>3 DEF Sound, FramesOK, Closed
  <2> QED
    BY <2>1, <2>2, <2>4
<1>6. v \notin nextFrame[Home(v)]
  BY <1>2 DEF Sound, FramesOK, RendersNew
<1>7. Home(v) \in Windows
  BY PathOf
<1>8. ASSUME NEW x \in Inside(v), x \in nextFrame[Home(v)]
      PROVE  FALSE
  <2>1. v \in Around(x)
    BY <1>8, InsideOf
  <2>2. Around(x) \subseteq nextFrame[Home(v)]
    BY <1>7, <1>8 DEF Sound, FramesOK, Closed
  <2> QED
    BY <1>6, <2>1, <2>2
<1> QED
  BY <1>1, <1>2, <1>3, <1>4, <1>5, <1>7, <1>8

\* What shows a view has that one left no more.
LEMMA ShownFields ==
  ASSUME Sound, NEW v \in Views, Shows(v)
  PROVE  /\ Shown(v) \in Frames
         /\ Shown(v).op = Top.op /\ Shown(v).on = Top.on
         /\ Shown(v).left \subseteq Top.left \ {v}
         /\ Top.op = "draw" => Shown(v).step = Top.step /\ Shown(v).marked = Top.marked
         /\ Top.op = "view" => /\ Shown(v).before = Top.before /\ Shown(v).seen = Top.seen
                               /\ Shown(v).was = Top.was
<1> DEFINE left == (IF v \in Cached THEN Top.left \cap Cached ELSE Top.left) \ {v}
<1>1. Top \in Frames /\ Top.op \in {"draw", "view"}
  <2>1. stack # <<>> /\ Top.op \in {"draw", "view"}
    BY DEF Shows, Running
  <2> QED
    BY <2>1, TopAndUnder DEF Sound, TypeOK
<1>2. Shown(v) = [Top EXCEPT !.left = left]
  BY DEF Shown
<1>3. left \subseteq Top.left \ {v}
  OBVIOUS
<1> HIDE DEF left
<1>4. CASE Top.op = "draw"
  <2>1. /\ Top \in [op : {"draw"}, on : Windows, step : {"prepaint", "paint"},
                    marked : SUBSET Views, left : SUBSET Views]
    BY <1>1, <1>4 DEF Frames
  <2>2. left \subseteq Views
    BY <1>3, <2>1
  <2>3. Shown(v) \in [op : {"draw"}, on : Windows, step : {"prepaint", "paint"},
                      marked : SUBSET Views, left : SUBSET Views]
    BY <1>2, <2>1, <2>2
  <2> QED
    BY <1>2, <1>3, <1>4, <2>1, <2>3 DEF Frames
<1>5. CASE Top.op = "view"
  <2>1. /\ Top \in [op : {"view"}, on : Views, left : SUBSET Views, before : SUBSET Views,
                    seen : SUBSET Views, was : BOOLEAN]
    BY <1>1, <1>5 DEF Frames
  <2>2. left \subseteq Views
    BY <1>3, <2>1
  <2>3. Shown(v) \in [op : {"view"}, on : Views, left : SUBSET Views, before : SUBSET Views,
                      seen : SUBSET Views, was : BOOLEAN]
    BY <1>2, <2>1, <2>2
  <2> QED
    BY <1>2, <1>3, <1>5, <2>1, <2>3 DEF Frames
<1> QED
  BY <1>1, <1>4, <1>5

\* A call that goes on: at most it shows a view.
GoesOn(f, g) == /\ g.op = f.op /\ g.on = f.on
                /\ f.op = "draw" => /\ g.step = f.step /\ g.marked = f.marked
                                    /\ g.left \subseteq f.left
                /\ f.op = "view" => /\ g.before = f.before /\ g.seen = f.seen
                                    /\ g.was = f.was /\ g.left \subseteq f.left

\* What a rendering leaves on the stack.
LEMMA RenderStack ==
  ASSUME Sound, NEW v \in Views, Render(v)
  PROVE  /\ stack' \in Seq(Frames) /\ DOMAIN stack' = 1 .. Len(stack) + 1
         /\ Len(stack') = Len(stack) + 1 /\ Len(stack) \in Nat
         /\ \A i \in DOMAIN stack : GoesOn(stack[i], stack'[i])
         /\ v \notin stack'[Len(stack)].left
         /\ Draws' = Draws /\ Requests' = Requests
         /\ Renderings' = Renderings \cup {Len(stack) + 1}
         /\ LET f == stack'[Len(stack) + 1]
            IN  /\ f.on = v /\ f.left = Children(v) /\ f.before = accessed
                /\ f.was = (Home(v) \in refreshing)
                /\ f.seen = IF (Around(v) \cap Cached) \ {v} # {} THEN Top.seen
                            ELSE IF v \in Cached THEN accessed ELSE {}
<1> DEFINE n == Len(stack)
           seen == IF (Around(v) \cap Cached) \ {v} # {} THEN Top.seen
                   ELSE IF v \in Cached THEN accessed ELSE {}
           f == [op |-> "view", on |-> v, left |-> Children(v), before |-> accessed,
                 seen |-> seen, was |-> Home(v) \in refreshing]
           g == Shown(v)
<1>1. Shows(v) /\ stack' = Append(Append(Under, g), f)
  BY DEF Render
<1>2. /\ stack \in Seq(Frames) /\ stack # <<>> /\ n \in Draws \cup Renderings
      /\ n \in Draws => Around(v) = {v}
  BY <1>1, Showing DEF Sound, TypeOK
<1>3. /\ n \in Nat \ {0} /\ DOMAIN stack = 1 .. n /\ Top = stack[n]
      /\ Top \in Frames
  BY <1>2, StackOf, TopAndUnder
<1>4. /\ g \in Frames /\ GoesOn(Top, g) /\ g.left \subseteq Top.left \ {v}
  BY <1>1, ShownFields DEF GoesOn
<1>5. seen \subseteq Views
  <2>1. accessed \subseteq Views
    BY DEF Sound, TypeOK
  <2>2. CASE (Around(v) \cap Cached) \ {v} # {}
    <3>1. n \in Renderings
      BY <1>2, <2>2
    <3>2. stack[n].seen \subseteq Views
      BY <1>2, <1>3, <3>1, FrameAt
    <3> QED
      BY <1>3, <2>2, <3>2
  <2>3. CASE (Around(v) \cap Cached) \ {v} = {}
    BY <2>1, <2>3
  <2> QED
    BY <2>2, <2>3
<1>6. f \in Frames
  <2>1. Children(v) \subseteq Views /\ accessed \subseteq Views
    BY DEF Children, Sound, TypeOK
  <2>2. f \in [op : {"view"}, on : Views, left : SUBSET Views, before : SUBSET Views,
               seen : SUBSET Views, was : BOOLEAN]
    BY <1>5, <2>1
  <2> QED
    BY <2>2 DEF Frames
<1>7. /\ Under \in Seq(Frames) /\ Len(Under) = n - 1
      /\ \A i \in 1 .. n - 1 : Under[i] = stack[i]
  BY <1>2, TopAndUnder
<1> DEFINE s == Append(Under, g)
<1>8. /\ s \in Seq(Frames) /\ Len(s) = n /\ s[n] = g
      /\ \A i \in 1 .. n - 1 : s[i] = stack[i]
  <2>1. /\ s \in Seq(Frames) /\ Len(s) = Len(Under) + 1
        /\ \A i \in 1 .. Len(Under) : s[i] = Under[i]
        /\ s[Len(Under) + 1] = g
    BY <1>4, <1>7, AppendProperties
  <2> QED
    BY <1>3, <1>7, <2>1
<1> HIDE DEF s, f, g
<1>9. /\ stack' \in Seq(Frames) /\ Len(stack') = n + 1 /\ stack'[n + 1] = f
      /\ \A i \in 1 .. n : stack'[i] = s[i]
  <2>1. stack' = Append(s, f)
    BY <1>1 DEF s
  <2>2. /\ Append(s, f) \in Seq(Frames) /\ Len(Append(s, f)) = Len(s) + 1
        /\ \A i \in 1 .. Len(s) : Append(s, f)[i] = s[i]
        /\ Append(s, f)[Len(s) + 1] = f
    BY <1>6, <1>8, AppendProperties
  <2> QED
    BY <1>8, <2>1, <2>2
<1>10. DOMAIN stack' = 1 .. n + 1
  BY <1>9, LenProperties
<1>11. \A i \in 1 .. n - 1 : stack'[i] = stack[i]
  BY <1>3, <1>8, <1>9
<1>12. stack'[n] = g
  BY <1>3, <1>8, <1>9
<1>13. \A i \in 1 .. n : GoesOn(stack[i], stack'[i])
  <2>1. \A i \in 1 .. n - 1 : GoesOn(stack[i], stack'[i])
    BY <1>11 DEF GoesOn
  <2>2. GoesOn(stack[n], stack'[n])
    BY <1>3, <1>4, <1>12
  <2>3. 1 .. n = (1 .. n - 1) \cup {n}
    BY <1>3
  <2> QED
    BY <2>1, <2>2, <2>3
<1>14. \A i \in 1 .. n : stack'[i].op = stack[i].op
  BY <1>13 DEF GoesOn
<1>15. stack'[n + 1].op = "view" /\ 1 .. n + 1 = (1 .. n) \cup {n + 1}
  BY <1>3, <1>9 DEF f
<1>16. /\ Draws' = Draws /\ Requests' = Requests
       /\ Renderings' = Renderings \cup {n + 1}
  BY <1>3, <1>10, <1>14, <1>15 DEF Draws, Requests, Renderings
<1>17. v \notin stack'[n].left
  BY <1>4, <1>12
<1>18. /\ stack'[n + 1].on = v /\ stack'[n + 1].left = Children(v)
       /\ stack'[n + 1].before = accessed
       /\ stack'[n + 1].was = (Home(v) \in refreshing)
       /\ stack'[n + 1].seen = seen
  BY <1>9 DEF f
<1> QED
  BY <1>3, <1>9, <1>10, <1>13, <1>16, <1>17, <1>18

\* Recycling a view leaves the calls as they are.
LEMMA ReuseStack ==
  ASSUME Sound, NEW v \in Views, Reuse(v)
  PROVE  /\ stack' \in Seq(Frames) /\ DOMAIN stack' = DOMAIN stack
         /\ Len(stack') = Len(stack) /\ Len(stack) \in DOMAIN stack
         /\ \A i \in DOMAIN stack : GoesOn(stack[i], stack'[i])
         /\ v \notin stack'[Len(stack)].left
         /\ Draws' = Draws /\ Requests' = Requests /\ Renderings' = Renderings
<1> DEFINE n == Len(stack)
<1>1. Shows(v) /\ Replace(Shown(v))
  BY DEF Reuse, Recycle
<1>2. stack \in Seq(Frames) /\ stack # <<>>
  BY <1>1, Showing DEF Sound, TypeOK
<1>3. n \in Nat \ {0} /\ DOMAIN stack = 1 .. n /\ Top = stack[n]
  BY <1>2, StackOf, TopAndUnder
<1>4. /\ Shown(v) \in Frames /\ GoesOn(Top, Shown(v)) /\ v \notin Shown(v).left
  BY <1>1, ShownFields DEF GoesOn
<1>5. /\ stack' \in Seq(Frames) /\ Len(stack') = n /\ DOMAIN stack' = DOMAIN stack
      /\ stack'[n] = Shown(v) /\ \A i \in 1 .. n - 1 : stack'[i] = stack[i]
  BY <1>1, <1>2, <1>4, Replaced
<1>6. \A i \in 1 .. n : GoesOn(stack[i], stack'[i])
  <2>1. \A i \in 1 .. n - 1 : GoesOn(stack[i], stack'[i])
    BY <1>5 DEF GoesOn
  <2>2. GoesOn(stack[n], stack'[n])
    BY <1>3, <1>4, <1>5
  <2>3. 1 .. n = (1 .. n - 1) \cup {n}
    BY <1>3
  <2> QED
    BY <2>1, <2>2, <2>3
<1>7. \A i \in 1 .. n : stack'[i].op = stack[i].op
  BY <1>6 DEF GoesOn
<1>8. Draws' = Draws /\ Requests' = Requests /\ Renderings' = Renderings
  BY <1>3, <1>5, <1>7 DEF Draws, Requests, Renderings
<1> QED
  BY <1>3, <1>4, <1>5, <1>6, <1>8

\* The rendering that ends is the innermost call.
LEMMA ViewDoneStack ==
  ASSUME Sound, ViewDone
  PROVE  /\ stack' \in Seq(Frames) /\ DOMAIN stack' = 1 .. Len(stack) - 1
         /\ Len(stack) \in Nat \ {0} /\ DOMAIN stack = 1 .. Len(stack)
         /\ Len(stack) \in Renderings /\ Top = stack[Len(stack)]
         /\ \A i \in DOMAIN stack' : stack'[i] = stack[i]
         /\ Draws' = Draws /\ Requests' = Requests
         /\ Renderings' = Renderings \ {Len(stack)}
<1> DEFINE n == Len(stack)
<1>1. Running("view") /\ stack' = Under
  BY DEF ViewDone, EndView
<1>2. stack \in Seq(Frames) /\ stack # <<>>
  BY <1>1 DEF Running, Sound, TypeOK
<1>3. n \in Nat \ {0} /\ DOMAIN stack = 1 .. n /\ Top = stack[n]
  BY <1>2, StackOf, TopAndUnder
<1>4. n \in Renderings /\ stack[n].op = "view"
  BY <1>1, <1>3 DEF Running, Renderings
<1>5. /\ stack' \in Seq(Frames) /\ DOMAIN stack' = 1 .. n - 1
      /\ \A i \in 1 .. n - 1 : stack'[i] = stack[i]
  BY <1>1, <1>2, Popped
<1>6. 1 .. n = (1 .. n - 1) \cup {n} /\ n \notin 1 .. n - 1
  BY <1>3
<1>7. /\ Draws' = Draws /\ Requests' = Requests /\ Renderings' = Renderings \ {n}
  BY <1>3, <1>4, <1>5, <1>6 DEF Draws, Requests, Renderings
<1> QED
  BY <1>3, <1>4, <1>5, <1>7

\* The draw whose views are all rendered paints.
LEMMA PaintStack ==
  ASSUME Sound, Paint
  PROVE  /\ stack' \in Seq(Frames) /\ DOMAIN stack' = DOMAIN stack
         /\ Len(stack) \in Draws /\ Top = stack[Len(stack)]
         /\ \A i \in DOMAIN stack : i # Len(stack) => stack'[i] = stack[i]
         /\ \A i \in DOMAIN stack : stack'[i].on = stack[i].on
         /\ stack'[Len(stack)].left = {} /\ stack'[Len(stack)].step = "paint"
         /\ Draws' = Draws /\ Requests' = Requests /\ Renderings' = Renderings
<1> DEFINE n == Len(stack)
           f == [Top EXCEPT !.step = "paint", !.marked = {}]
<1>1. Running("draw") /\ Top.left = {} /\ Replace(f)
  BY DEF Paint
<1>2. stack \in Seq(Frames) /\ stack # <<>>
  BY <1>1 DEF Running, Sound, TypeOK
<1>3. n \in Nat \ {0} /\ DOMAIN stack = 1 .. n /\ Top = stack[n] /\ Top \in Frames
  BY <1>2, StackOf, TopAndUnder
<1>4. Top \in [op : {"draw"}, on : Windows, step : {"prepaint", "paint"},
               marked : SUBSET Views, left : SUBSET Views]
  BY <1>1, <1>3 DEF Frames, Running
<1>5. f \in [op : {"draw"}, on : Windows, step : {"prepaint", "paint"},
             marked : SUBSET Views, left : SUBSET Views]
  BY <1>4
<1>6. /\ f \in Frames /\ f.op = "draw" /\ f.on = Top.on /\ f.left = {} /\ f.step = "paint"
  BY <1>1, <1>4, <1>5 DEF Frames
<1> HIDE DEF f
<1>7. /\ stack' \in Seq(Frames) /\ DOMAIN stack' = DOMAIN stack
      /\ stack'[n] = f /\ \A i \in 1 .. n - 1 : stack'[i] = stack[i]
  BY <1>1, <1>2, <1>6, Replaced
<1>8. stack[n].op = "draw"
  BY <1>1, <1>3 DEF Running
<1>9. \A i \in 1 .. n : i # n => stack'[i] = stack[i]
  <2>1. 1 .. n = (1 .. n - 1) \cup {n}
    BY <1>3
  <2> QED
    BY <1>7, <2>1
<1>10. \A i \in 1 .. n : stack'[i].op = stack[i].op /\ stack'[i].on = stack[i].on
  BY <1>3, <1>6, <1>7, <1>8, <1>9
<1>11. Draws' = Draws /\ Requests' = Requests /\ Renderings' = Renderings
  BY <1>3, <1>7, <1>10 DEF Draws, Requests, Renderings
<1>12. n \in Draws
  BY <1>3, <1>8 DEF Draws
<1> QED
  BY <1>3, <1>6, <1>7, <1>9, <1>10, <1>11, <1>12

\* The draw that ends is the innermost call, and so is then the frame
\* request that made it, which ends with it.
LEMMA DrawDoneStack ==
  ASSUME Sound, DrawDone
  PROVE  /\ stack' \in Seq(Frames)
         /\ Len(stack) \in Draws /\ Top = stack[Len(stack)]
         /\ Len(stack) \in Nat \ {0} /\ DOMAIN stack = 1 .. Len(stack)
         /\ DOMAIN stack' \subseteq 1 .. Len(stack) - 1
         /\ \A i \in DOMAIN stack' : stack'[i] = stack[i]
         /\ Draws' = Draws \ {Len(stack)} /\ Requests' \subseteq Requests
         /\ Renderings' = Renderings
<1> DEFINE n == Len(stack)
           requested == Under # <<>> /\ Under[Len(Under)] = [op |-> "request", on |-> Top.on]
<1>1. /\ Running("draw")
      /\ stack' = IF requested THEN SubSeq(Under, 1, Len(Under) - 1) ELSE Under
  BY DEF DrawDone
<1>2. stack \in Seq(Frames) /\ stack # <<>>
  BY <1>1 DEF Running, Sound, TypeOK
<1>3. n \in Nat \ {0} /\ DOMAIN stack = 1 .. n /\ Top = stack[n]
  BY <1>2, StackOf, TopAndUnder
<1>4. n \in Draws /\ stack[n].op = "draw"
  BY <1>1, <1>3 DEF Running, Draws
<1>5. /\ Under \in Seq(Frames) /\ Len(Under) = n - 1
      /\ \A i \in 1 .. n - 1 : Under[i] = stack[i]
  BY <1>2, TopAndUnder
<1>6. CASE ~requested
  <2>1. stack' = Under
    BY <1>1, <1>6
  <2>2. DOMAIN stack' = 1 .. n - 1
    BY <1>5, <2>1, LenProperties
  <2>3. \A i \in 1 .. n - 1 : stack'[i] = stack[i]
    BY <1>5, <2>1
  <2>4. 1 .. n = (1 .. n - 1) \cup {n} /\ n \notin 1 .. n - 1
    BY <1>3
  <2>5. /\ Draws' = Draws \ {n} /\ Requests' \subseteq Requests /\ Renderings' = Renderings
    BY <1>3, <1>4, <2>2, <2>3, <2>4 DEF Draws, Requests, Renderings
  <2> QED
    BY <1>3, <1>4, <1>5, <2>1, <2>2, <2>3, <2>5
<1>7. CASE requested
  <2> DEFINE s == SubSeq(Under, 1, Len(Under) - 1)
  <2>1. stack' = s
    BY <1>1, <1>7
  <2>2. n - 1 # 0
    BY <1>5, <1>7, EmptySeq
  <2>3. /\ (n - 1) - 1 \in Int /\ 1 \in Int /\ n - 1 \in Nat /\ n - 1 \in 1 .. n - 1
        /\ ((n - 1) - 1) - 1 + 1 = n - 2
        /\ (IF 1 <= (n - 1) - 1 THEN ((n - 1) - 1) - 1 + 1 ELSE 0) = n - 2
    BY <1>3, <2>2
  <2>4. \A i \in 1 .. (n - 1) - 1 : Under[i] \in Frames
    BY <1>3, <1>5, ElementOfSeq
  <2>5. /\ s \in Seq(Frames) /\ Len(s) = n - 2
        /\ \A i \in 1 .. n - 2 : s[i] = Under[1 + i - 1]
    BY <1>5, <2>3, <2>4, SubSeqProperties
  <2> HIDE DEF s
  <2>6. DOMAIN stack' = 1 .. n - 2
    BY <2>1, <2>5, LenProperties
  <2>7. ASSUME NEW i \in 1 .. n - 2
        PROVE  stack'[i] = stack[i]
    <3>1. 1 + i - 1 = i /\ i \in 1 .. n - 1
      BY <1>3
    <3> QED
      BY <1>5, <2>1, <2>5, <3>1
  <2>8. stack[n - 1].op = "request"
    BY <1>5, <1>7, <2>3
  <2>9. 1 .. n = (1 .. n - 2) \cup {n - 1, n} /\ n \notin 1 .. n - 2 /\ n - 1 \notin 1 .. n - 2
    BY <1>3, <2>3
  <2>10. /\ Draws' = Draws \ {n} /\ Requests' \subseteq Requests /\ Renderings' = Renderings
    BY <1>3, <1>4, <2>6, <2>7, <2>8, <2>9 DEF Draws, Requests, Renderings
  <2>11. 1 .. n - 2 \subseteq 1 .. n - 1
    BY <1>3
  <2> QED
    BY <1>3, <1>4, <2>1, <2>5, <2>6, <2>7, <2>10, <2>11
<1> QED
  BY <1>6, <1>7

\* A draw is begun on top of what asks for it.
LEMMA DrawStack ==
  ASSUME Sound, NEW w \in Windows, BeginDraw(w, stack)
  PROVE  /\ stack' \in Seq(Frames) /\ DOMAIN stack' = 1 .. Len(stack) + 1
         /\ Len(stack) \in Nat /\ DOMAIN stack = 1 .. Len(stack)
         /\ \A i \in DOMAIN stack : stack'[i] = stack[i]
         /\ Draws' = Draws \cup {Len(stack) + 1} /\ Requests' = Requests
         /\ Renderings' = Renderings
         /\ LET f == stack'[Len(stack) + 1]
            IN  /\ f.on = w /\ f.left = Children(w) /\ f.step = "prepaint"
                /\ f.marked = UNION {Around(v) : v \in dirtyViews[w] \cap shown[w]}
<1> DEFINE n == Len(stack)
           marked == UNION {Around(v) : v \in dirtyViews[w] \cap shown[w]}
           f == [op |-> "draw", on |-> w, step |-> "prepaint", left |-> Children(w),
                 marked |-> marked]
<1>1. stack' = Append(stack, f) /\ stack \in Seq(Frames)
  BY DEF BeginDraw, Sound, TypeOK
<1>2. n \in Nat /\ DOMAIN stack = 1 .. n
  BY <1>1, StackOf
<1>3. f \in Frames
  <2>1. dirtyViews[w] \cap shown[w] \subseteq Views
    BY DEF Sound, TypeOK
  <2>2. marked \subseteq Views
    BY <2>1, PathOf
  <2>3. Children(w) \subseteq Views
    BY DEF Children
  <2> HIDE DEF marked
  <2>4. f \in [op : {"draw"}, on : Windows, step : {"prepaint", "paint"},
               marked : SUBSET Views, left : SUBSET Views]
    BY <2>2, <2>3
  <2> QED
    BY <2>4 DEF Frames
<1>4. /\ f.op = "draw" /\ f.on = w /\ f.left = Children(w) /\ f.step = "prepaint"
      /\ f.marked = marked
  OBVIOUS
<1> HIDE DEF f
<1>5. /\ stack' \in Seq(Frames) /\ DOMAIN stack' = 1 .. n + 1 /\ stack'[n + 1] = f
      /\ \A i \in DOMAIN stack : stack'[i] = stack[i]
  BY <1>1, <1>3, Pushed
<1>6. 1 .. n + 1 = (1 .. n) \cup {n + 1} /\ n + 1 \notin 1 .. n
  BY <1>2
<1>7. /\ Draws' = Draws \cup {n + 1} /\ Requests' = Requests /\ Renderings' = Renderings
  BY <1>2, <1>4, <1>5, <1>6 DEF Draws, Requests, Renderings
<1> QED
  BY <1>2, <1>4, <1>5, <1>7

------------------------------------------------------------------------------
(***************************************************************************)
(* Types, and the calls and frames they rest on.                           *)
(***************************************************************************)
LEMMA InitSound == Init => Sound
<1> SUFFICES ASSUME Init PROVE Sound
  OBVIOUS
<1>1. stack = <<>> /\ <<>> \in Seq(Frames) /\ DOMAIN stack = {}
  BY EmptySeq DEF Init
<1>2. Draws = {} /\ Renderings = {} /\ Requests = {}
  BY <1>1 DEF Draws, Renderings, Requests
<1>3. 1 .. 0 = {} /\ 0 \in 0 .. MaxWindow /\ MaxFuel \in 0 .. MaxFuel
  BY CachedAssumption
<1>4. TypeOK
  BY <1>1, <1>3, CachedAssumption DEF Init, TypeOK
<1>5. Shape
  BY <1>2, <1>3 DEF Init, Shape, RequestsFirst, RendersChild, RendersInDraw, DrawsOnce, Numbered,
       ShowsChildren
<1>6. FramesOK
  BY <1>2 DEF Init, FramesOK, Closed, RendersNew
<1> QED
  BY <1>4, <1>5, <1>6 DEF Sound

\* The calls stay, but for the views they have shown.
LEMMA SameCalls ==
  ASSUME Sound, Draws' = Draws, Renderings' = Renderings, RequestsFirst',
         \A i \in Draws \cup Renderings : /\ stack'[i].on = stack[i].on
                                          /\ stack'[i].left \subseteq stack[i].left,
         UNCHANGED <<open, drawing>>
  PROVE  Shape'
<1>1. RendersChild'
  <2> SUFFICES ASSUME NEW i \in Renderings
               PROVE  /\ i > 1 /\ i - 1 \in Draws \cup Renderings
                      /\ stack'[i].on \in Children(stack'[i - 1].on)
    BY DEF RendersChild
  <2>1. /\ i > 1 /\ i - 1 \in Draws \cup Renderings
        /\ stack[i].on \in Children(stack[i - 1].on)
    BY DEF Sound, Shape, RendersChild
  <2> QED
    BY <2>1
<1>2. RendersInDraw'
  BY DEF Sound, Shape, RendersInDraw
<1>3. DrawsOnce'
  BY DEF Sound, Shape, DrawsOnce
<1>4. Numbered'
  BY DEF Sound, Shape, Numbered
<1>5. ShowsChildren'
  BY DEF Sound, Shape, ShowsChildren
<1> QED
  BY <1>1, <1>2, <1>3, <1>4, <1>5 DEF Shape

LEMMA SameFrames ==
  ASSUME Sound, Draws' = Draws, Renderings' = Renderings,
         \A i \in Draws \cup Renderings : /\ stack'[i].on = stack[i].on
                                          /\ stack'[i].left \subseteq stack[i].left,
         UNCHANGED <<shown, nextFrame>>
  PROVE  FramesOK'
<1>1. Closed(shown)' /\ Closed(nextFrame)'
  BY DEF Sound, FramesOK, Closed
<1>2. RendersNew'
  BY DEF Sound, FramesOK, RendersNew
<1> QED
  BY <1>1, <1>2 DEF FramesOK

\* A step that makes no call and shows nothing.
LEMMA QuietStep ==
  ASSUME Sound, UNCHANGED <<open, drawing, shown, nextFrame, stack>>
  PROVE  Shape' /\ FramesOK'
<1>1. Draws' = Draws /\ Renderings' = Renderings /\ RequestsFirst'
  BY DEF Draws, Renderings, Requests, RequestsFirst, Sound, Shape
<1>2. \A i \in Draws \cup Renderings : /\ stack'[i].on = stack[i].on
                                       /\ stack'[i].left \subseteq stack[i].left
  OBVIOUS
<1> QED
  BY <1>1, <1>2, SameCalls, SameFrames

\* One that begins or ends a frame request.
LEMMA IdleStep ==
  ASSUME Sound, NEW w \in open,
         \/ stack = <<>> /\ stack' = <<[op |-> "request", on |-> w]>>
         \/ stack = <<[op |-> "request", on |-> w]>> /\ stack' = <<>>,
         UNCHANGED <<open, drawing, shown, nextFrame>>
  PROVE  /\ Shape' /\ FramesOK' /\ stack' \in Seq(Frames) /\ drawing = {}
         /\ Draws = {} /\ Renderings = {} /\ Draws' = {} /\ Renderings' = {}
<1> DEFINE f == [op |-> "request", on |-> w]
<1>1. w \in Windows
  BY DEF Sound, TypeOK
<1>2. f \in Frames /\ f.op = "request" /\ f.on = w
  BY <1>1 DEF Frames
<1> HIDE DEF f
<1>3. <<>> \in Seq(Frames) /\ <<f>> \in Seq(Frames) /\ DOMAIN <<f>> = {1} /\ <<f>>[1] = f
  <2>1. <<f>> \in [1 .. 1 -> Frames] /\ <<f>>[1] = f
    BY <1>2
  <2>2. DOMAIN <<f>> = {1}
    OBVIOUS
  <2> QED
    BY <1>2, <2>1, <2>2, EmptySeq
<1>4. DOMAIN <<>> = {}
  OBVIOUS
<1>5. \/ stack = <<>> /\ stack' = <<f>>
      \/ stack = <<f>> /\ stack' = <<>>
  BY DEF f
<1>6. Draws = {} /\ Renderings = {} /\ Draws' = {} /\ Renderings' = {}
  BY <1>2, <1>3, <1>4, <1>5 DEF Draws, Renderings
<1>7. RequestsFirst'
  BY <1>2, <1>3, <1>4, <1>5 DEF RequestsFirst, Requests
<1>8. stack' \in Seq(Frames)
  BY <1>3, <1>5
<1>9. drawing = {}
  BY <1>6 DEF Sound, Shape, DrawsOnce
<1> QED
  BY <1>6, <1>7, <1>8, <1>9, SameCalls, SameFrames

LEMMA FewerRequests ==
  ASSUME Sound, Requests' \subseteq Requests, \A i \in Requests' : stack'[i].on = stack[i].on,
         open \subseteq open'
  PROVE  RequestsFirst'
BY DEF Sound, Shape, RequestsFirst

\* A window begins to draw.
LEMMA DrawBegins ==
  ASSUME Sound, NEW w \in Windows \ drawing, BeginDraw(w, stack),
         UNCHANGED <<open, shown>>, \E n \in 0 .. MaxWindow : open \cup drawing \cup {w} = 1 .. n
  PROVE  Shape' /\ FramesOK'
<1> DEFINE n == Len(stack)
<1>1. /\ n \in Nat /\ DOMAIN stack = 1 .. n
      /\ \A i \in DOMAIN stack : stack'[i] = stack[i]
      /\ Draws' = Draws \cup {n + 1} /\ Requests' = Requests
      /\ Renderings' = Renderings
      /\ stack'[n + 1].on = w /\ stack'[n + 1].left = Children(w)
  BY DrawStack
<1>2. /\ drawing' = drawing \cup {w} /\ nextFrame' = [nextFrame EXCEPT ![w] = {}]
      /\ nextFrame \in [Windows -> SUBSET Views]
  BY DEF BeginDraw, Sound, TypeOK
<1>3. Draws \subseteq 1 .. n /\ Renderings \subseteq 1 .. n /\ Requests \subseteq 1 .. n
  BY <1>1 DEF Draws, Renderings, Requests
<1>4. \A i \in Draws \cup Renderings \cup Requests : stack'[i] = stack[i]
  BY <1>1, <1>3
<1>5. RequestsFirst'
  BY <1>1, <1>4, FewerRequests
<1>6. RendersChild'
  <2> SUFFICES ASSUME NEW i \in Renderings
               PROVE  /\ i > 1 /\ i - 1 \in Draws' \cup Renderings
                      /\ stack'[i].on \in Children(stack'[i - 1].on)
    BY <1>1 DEF RendersChild
  <2>1. /\ i > 1 /\ i - 1 \in Draws \cup Renderings
        /\ stack[i].on \in Children(stack[i - 1].on)
    BY DEF Sound, Shape, RendersChild
  <2> QED
    BY <1>1, <1>4, <2>1
<1>7. RendersInDraw'
  <2> SUFFICES ASSUME NEW i \in Renderings
               PROVE  \E k \in Draws' : /\ k < i /\ stack'[k].on = Home(stack'[i].on)
                                        /\ \A j \in k + 1 .. i : j \in Renderings
    BY <1>1 DEF RendersInDraw
  <2>1. PICK k \in Draws : /\ k < i /\ stack[k].on = Home(stack[i].on)
                           /\ \A j \in k + 1 .. i : j \in Renderings
    BY DEF Sound, Shape, RendersInDraw
  <2> QED
    BY <1>1, <1>4, <2>1
<1>8. DrawsOnce'
  <2>1. drawing' = {stack'[i].on : i \in Draws'}
    BY <1>1, <1>2, <1>4 DEF Sound, Shape, DrawsOnce
  <2>2. \A i \in Draws : stack'[i].on \in drawing
    BY <1>4 DEF Sound, Shape, DrawsOnce
  <2>3. ASSUME NEW i \in Draws', NEW j \in Draws', stack'[i].on = stack'[j].on
        PROVE  i = j
    <3>1. CASE i = n + 1 /\ j = n + 1
      BY <3>1
    <3>2. CASE i \in Draws /\ j \in Draws
      BY <1>4, <2>3, <3>2 DEF Sound, Shape, DrawsOnce
    <3> QED
      BY <1>1, <2>2, <2>3, <3>1, <3>2
  <2> QED
    BY <2>1, <2>3 DEF DrawsOnce
<1>9. Numbered'
  BY <1>2 DEF Numbered
<1>10. ShowsChildren'
  <2>1. \A i \in Draws \cup Renderings : stack'[i].left \subseteq Children(stack'[i].on)
    BY <1>4 DEF Sound, Shape, ShowsChildren
  <2> QED
    BY <1>1, <2>1 DEF ShowsChildren
<1>11. Closed(shown)'
  BY DEF Sound, FramesOK, Closed
<1>12. Closed(nextFrame)'
  BY <1>2 DEF Sound, FramesOK, Closed
<1>13. \A u \in Windows : nextFrame'[u] = IF u = w THEN {} ELSE nextFrame[u]
  BY <1>2
<1>14. RendersNew'
  <2>1. ASSUME NEW i \in Renderings
        PROVE  stack'[i].on \in nextFrame'[Home(stack'[i].on)]
    <3>1. Home(stack[i].on) \in drawing /\ Home(stack[i].on) \in Windows
      BY RenderedInDraw
    <3>2. stack[i].on \in nextFrame[Home(stack[i].on)]
      BY DEF Sound, FramesOK, RendersNew
    <3> QED
      BY <1>4, <1>13, <3>1, <3>2
  <2>2. \A i, j \in Renderings' : stack'[i].on = stack'[j].on => i = j
    BY <1>1, <1>4 DEF Sound, FramesOK, RendersNew
  <2>3. ASSUME NEW i \in Draws \cup Renderings, NEW v \in stack[i].left
        PROVE  v \notin nextFrame'[Home(v)]
    <3>1. v \notin nextFrame[Home(v)]
      BY DEF Sound, FramesOK, RendersNew
    <3>2. v \in Views
      BY DEF Sound, Shape, ShowsChildren, Children
    <3>3. Home(v) \in Windows
      BY <3>2, PathOf
    <3> QED
      BY <1>13, <3>1, <3>3
  <2>4. ASSUME NEW v \in Children(w)
        PROVE  v \notin nextFrame'[Home(v)]
    BY <1>13, RootOf
  <2> QED
    BY <1>1, <1>4, <2>1, <2>2, <2>3, <2>4 DEF RendersNew
<1> QED
  BY <1>5, <1>6, <1>7, <1>8, <1>9, <1>10, <1>11, <1>12, <1>14 DEF Shape, FramesOK

\* No two calls are for the same view or window, nor show the same view.
LEMMA CallOnce ==
  ASSUME Sound, NEW i \in Draws \cup Renderings, NEW j \in Draws \cup Renderings,
         stack[i].on = stack[j].on
  PROVE  i = j
<1>1. \A k \in Draws : stack[k].on \in Windows
  BY FrameAt DEF Sound, TypeOK, Draws
<1>2. \A k \in Renderings : stack[k].on \notin Windows
  BY RenderedInDraw, PathOf
<1>3. CASE i \in Draws /\ j \in Draws
  BY <1>3 DEF Sound, Shape, DrawsOnce
<1>4. CASE i \in Renderings /\ j \in Renderings
  BY <1>4 DEF Sound, FramesOK, RendersNew
<1> QED
  BY <1>1, <1>2, <1>3, <1>4

LEMMA ShowsOnce ==
  ASSUME Sound, NEW i \in Draws \cup Renderings, NEW j \in Draws \cup Renderings,
         NEW v \in stack[i].left, v \in stack[j].left
  PROVE  i = j
<1>1. v \in Children(stack[i].on) /\ v \in Children(stack[j].on)
  BY DEF Sound, Shape, ShowsChildren
<1> QED
  BY <1>1, OneParent, CallOnce

LEMMA RenderShape ==
  ASSUME Sound, NEW v \in Views, Render(v)
  PROVE  Shape' /\ FramesOK'
<1> DEFINE n == Len(stack)
           w == Home(v)
<1>1. /\ n \in Nat
      /\ \A i \in DOMAIN stack : GoesOn(stack[i], stack'[i])
      /\ v \notin stack'[n].left
      /\ Draws' = Draws /\ Requests' = Requests
      /\ Renderings' = Renderings \cup {n + 1}
      /\ stack'[n + 1].on = v /\ stack'[n + 1].left = Children(v)
  BY RenderStack
<1>2. /\ n \in Draws \cup Renderings
      /\ v \in stack[n].left /\ v \in Children(stack[n].on)
      /\ Home(v) \in drawing /\ w \in Windows
      /\ n \in Draws => stack[n].on = w /\ Around(v) = {v}
      /\ n \in Renderings =>
           /\ stack[n].on \in Views /\ Home(stack[n].on) = w
           /\ Around(v) = Around(stack[n].on) \cup {v}
           /\ Around(stack[n].on) \subseteq nextFrame[w]
      /\ Inside(v) \cap nextFrame[w] = {}
  <2>1. Shows(v)
    BY DEF Render
  <2> QED
    BY <2>1, Showing
<1>3. /\ nextFrame' = [nextFrame EXCEPT ![w] = @ \cup {v}]
      /\ nextFrame \in [Windows -> SUBSET Views]
      /\ UNCHANGED <<open, drawing, shown>>
  BY DEF Render, Sound, TypeOK, auxVars, drawVars
<1>4. \A u \in Windows : nextFrame'[u] = IF u = w THEN nextFrame[u] \cup {v} ELSE nextFrame[u]
  BY <1>2, <1>3
<1>5. DOMAIN stack = 1 .. n
  BY StackOf DEF Sound, TypeOK
<1>6. Draws \subseteq 1 .. n /\ Renderings \subseteq 1 .. n /\ Requests \subseteq 1 .. n
  BY <1>5 DEF Draws, Renderings, Requests
<1>7. \A i \in 1 .. n : stack'[i].on = stack[i].on
  BY <1>1, <1>5 DEF GoesOn
<1>8. \A i \in Draws \cup Renderings : stack'[i].left \subseteq stack[i].left
  BY <1>1, <1>5, <1>6 DEF GoesOn, Draws, Renderings
<1>9. RequestsFirst'
  BY <1>1, <1>3, <1>6, <1>7, FewerRequests
<1>10. RendersChild'
  <2>1. ASSUME NEW i \in Renderings
        PROVE  /\ i > 1 /\ i - 1 \in Draws \cup Renderings
               /\ stack'[i].on \in Children(stack'[i - 1].on)
    <3>1. /\ i > 1 /\ i - 1 \in Draws \cup Renderings
          /\ stack[i].on \in Children(stack[i - 1].on)
      BY DEF Sound, Shape, RendersChild
    <3>2. i \in 1 .. n /\ i - 1 \in 1 .. n
      BY <1>6, <3>1
    <3> QED
      BY <1>7, <3>1, <3>2
  <2>2. n \in 1 .. n
    BY <1>2, <1>6
  <2>3. /\ n + 1 > 1 /\ (n + 1) - 1 \in Draws \cup Renderings
        /\ stack'[n + 1].on \in Children(stack'[(n + 1) - 1].on)
    <3>1. (n + 1) - 1 = n /\ n + 1 > 1
      BY <1>1, <2>2
    <3> QED
      BY <1>1, <1>2, <1>7, <2>2, <3>1
  <2> QED
    BY <1>1, <2>1, <2>3 DEF RendersChild
<1>11. RendersInDraw'
  <2>1. \A i \in Renderings : \E k \in Draws :
          /\ k < i /\ stack'[k].on = Home(stack'[i].on)
          /\ \A j \in k + 1 .. i : j \in Renderings
    BY <1>6, <1>7 DEF Sound, Shape, RendersInDraw
  <2>2. \E k \in Draws : /\ k < n + 1 /\ stack'[k].on = Home(stack'[n + 1].on)
                         /\ \A j \in k + 1 .. n + 1 : j \in Renderings \cup {n + 1}
    <3>1. CASE n \in Draws
      <4>1. n < n + 1 /\ \A j \in n + 1 .. n + 1 : j \in Renderings \cup {n + 1}
        BY <1>1
      <4> QED
        BY <1>1, <1>2, <1>6, <1>7, <3>1, <4>1
    <3>2. CASE n \in Renderings
      <4>1. PICK k \in Draws : /\ k < n /\ stack'[k].on = Home(stack'[n].on)
                               /\ \A j \in k + 1 .. n : j \in Renderings
        BY <2>1, <3>2
      <4>2. k \in 1 .. n
        BY <1>6
      <4>3. k < n + 1 /\ k + 1 .. n + 1 = (k + 1 .. n) \cup {n + 1}
        BY <1>1, <4>1, <4>2
      <4>4. Home(stack'[n].on) = w
        BY <1>2, <1>6, <1>7, <3>2
      <4> QED
        BY <1>1, <4>1, <4>3, <4>4
    <3> QED
      BY <1>2, <3>1, <3>2
  <2> QED
    BY <1>1, <2>1, <2>2 DEF RendersInDraw
<1>12. DrawsOnce'
  <2>1. /\ drawing' = drawing /\ Draws' = Draws
        /\ \A i \in Draws : stack'[i].on = stack[i].on
    BY <1>1, <1>3, <1>6, <1>7
  <2>2. DrawsOnce
    BY DEF Sound, Shape
  <2> QED
    BY <2>1, <2>2 DEF DrawsOnce
<1>13. Numbered'
  BY <1>3 DEF Sound, Shape, Numbered
<1>14. ShowsChildren'
  <2>1. \A i \in Draws \cup Renderings : stack'[i].left \subseteq Children(stack'[i].on)
    BY <1>6, <1>7, <1>8 DEF Sound, Shape, ShowsChildren
  <2> QED
    BY <1>1, <2>1 DEF ShowsChildren
<1>15. Closed(shown)'
  BY <1>3 DEF Sound, FramesOK, Closed
<1>16. Closed(nextFrame)'
  <2>1. Around(v) \subseteq nextFrame[w] \cup {v}
    BY <1>2
  <2>2. ASSUME NEW u \in Windows, NEW x \in nextFrame'[u]
        PROVE  Home(x) = u /\ Around(x) \subseteq nextFrame'[u]
    <3>1. CASE x \in nextFrame[u]
      <4>1. Home(x) = u /\ Around(x) \subseteq nextFrame[u]
        BY <3>1 DEF Sound, FramesOK, Closed
      <4> QED
        BY <1>4, <4>1
    <3>2. CASE x \notin nextFrame[u]
      <4>1. u = w /\ x = v
        BY <1>4, <2>2, <3>2
      <4> QED
        BY <1>4, <2>1, <4>1
    <3> QED
      BY <3>1, <3>2
  <2> QED
    BY <2>2 DEF Closed
<1>17. ASSUME NEW x \in Views, x \notin nextFrame[Home(x)], x # v
       PROVE  x \notin nextFrame'[Home(x)]
  <2>1. Home(x) \in Windows
    BY PathOf
  <2> QED
    BY <1>4, <1>17, <2>1
<1>18. RendersNew'
  <2>1. ASSUME NEW i \in Draws \cup Renderings, NEW x \in stack'[i].left
        PROVE  x \notin nextFrame'[Home(x)]
    <3>1. x \in stack[i].left
      BY <1>8
    <3>2. x \notin nextFrame[Home(x)]
      BY <3>1 DEF Sound, FramesOK, RendersNew
    <3>3. x \in Views
      BY <3>1 DEF Sound, Shape, ShowsChildren, Children
    <3>4. x # v
      BY <1>1, <1>2, <2>1, <3>1, ShowsOnce
    <3> QED
      BY <1>17, <3>2, <3>3, <3>4
  <2>2. ASSUME NEW x \in Children(v)
        PROVE  x \notin nextFrame'[Home(x)]
    <3>1. x \in Views /\ Home(x) = w /\ v \in Around(x) /\ x # v
      BY ChildOf
    <3>2. x \in Inside(v)
      BY <3>1 DEF Inside
    <3> QED
      BY <1>2, <1>17, <3>1, <3>2
  <2>3. ASSUME NEW i \in Renderings
        PROVE  stack'[i].on \in nextFrame'[Home(stack'[i].on)] /\ stack'[i].on # v
    <3>1. stack[i].on \in nextFrame[Home(stack[i].on)]
      BY DEF Sound, FramesOK, RendersNew
    <3>2. Home(stack[i].on) \in Windows
      BY RenderedInDraw
    <3>3. v \notin nextFrame[w]
      BY <1>2, PathOf
    <3> QED
      BY <1>4, <1>6, <1>7, <3>1, <3>2, <3>3
  <2>4. v \in nextFrame'[Home(v)]
    BY <1>2, <1>4
  <2>5. \A i, j \in Renderings' : stack'[i].on = stack'[j].on => i = j
    <3>1. \A i, j \in Renderings : stack'[i].on = stack'[j].on => i = j
      BY <1>6, <1>7 DEF Sound, FramesOK, RendersNew
    <3> QED
      BY <1>1, <2>3, <3>1
  <2>6. \A i \in (Draws \cup Renderings)' : \A x \in stack'[i].left : x \notin nextFrame'[Home(x)]
    BY <1>1, <2>1, <2>2
  <2>7. \A i \in Renderings' : stack'[i].on \in nextFrame'[Home(stack'[i].on)]
    BY <1>1, <2>3, <2>4
  <2> QED
    BY <2>5, <2>6, <2>7 DEF RendersNew
<1> QED
  BY <1>9, <1>10, <1>11, <1>12, <1>13, <1>14, <1>15, <1>16, <1>18 DEF Shape, FramesOK

LEMMA ReuseShape ==
  ASSUME Sound, NEW v \in Views, Reuse(v)
  PROVE  Shape' /\ FramesOK'
<1> DEFINE n == Len(stack)
           w == Home(v)
<1>1. /\ n \in DOMAIN stack
      /\ \A i \in DOMAIN stack : GoesOn(stack[i], stack'[i])
      /\ v \notin stack'[n].left
      /\ Draws' = Draws /\ Requests' = Requests /\ Renderings' = Renderings
  BY ReuseStack
<1>2. /\ n \in Draws \cup Renderings /\ v \in stack[n].left /\ w \in Windows
      /\ Around(v) \ {v} \subseteq nextFrame[w]
      /\ Inside(v) \cap nextFrame[w] = {}
  <2>1. Shows(v)
    BY DEF Reuse, Recycle
  <2> QED
    BY <2>1, Showing
<1>3. /\ nextFrame' = [nextFrame EXCEPT ![w] = @ \cup (Inside(v) \cap shown[w])]
      /\ nextFrame \in [Windows -> SUBSET Views]
      /\ v \in shown[w]
      /\ UNCHANGED <<open, drawing, shown>>
  BY DEF Reuse, Recycle, Sound, TypeOK, auxVars
<1>4. \A u \in Windows : nextFrame'[u] = IF u = w THEN nextFrame[u] \cup (Inside(v) \cap shown[w])
                                         ELSE nextFrame[u]
  BY <1>2, <1>3
<1>5. Draws \subseteq DOMAIN stack /\ Renderings \subseteq DOMAIN stack /\ Requests \subseteq DOMAIN stack
  BY DEF Draws, Renderings, Requests
<1>6. \A i \in Draws \cup Renderings : stack'[i].on = stack[i].on
  BY <1>1, <1>5 DEF GoesOn
<1>7. \A i \in Draws \cup Renderings : stack'[i].left \subseteq stack[i].left
  BY <1>1, <1>5 DEF GoesOn, Draws, Renderings
<1>8. Shape'
  <2>1. \A i \in Requests : stack'[i].on = stack[i].on
    BY <1>1, <1>5 DEF GoesOn
  <2>2. RequestsFirst'
    BY <1>1, <1>3, <2>1, FewerRequests
  <2> QED
    BY <1>1, <1>3, <1>6, <1>7, <2>2, SameCalls
<1>9. Closed(shown)'
  BY <1>3 DEF Sound, FramesOK, Closed
<1>10. ASSUME NEW x \in Inside(v) \cap shown[w]
       PROVE  Home(x) = w /\ Around(x) \subseteq nextFrame[w] \cup (Inside(v) \cap shown[w])
  <2>1. x \in Views /\ Home(x) = w /\ v \in Around(x)
    BY InsideOf
  <2>2. Around(x) \subseteq shown[w]
    BY <1>2 DEF Sound, FramesOK, Closed
  <2>3. ASSUME NEW u \in Around(x), u \notin Inside(v)
        PROVE  u \in nextFrame[w]
    <3>1. u \in Views
      BY <2>1, AroundAround
    <3>2. u \in Around(v)
      BY <2>1, <2>3, <3>1, AroundLine DEF Inside
    <3>3. u # v
      BY <2>3, PathOf
    <3> QED
      BY <1>2, <3>2, <3>3
  <2> QED
    BY <2>1, <2>2, <2>3
<1>11. Closed(nextFrame)'
  <2>1. ASSUME NEW u \in Windows, NEW x \in nextFrame'[u]
        PROVE  Home(x) = u /\ Around(x) \subseteq nextFrame'[u]
    <3>1. CASE x \in nextFrame[u]
      <4>1. Home(x) = u /\ Around(x) \subseteq nextFrame[u]
        BY <3>1 DEF Sound, FramesOK, Closed
      <4> QED
        BY <1>4, <4>1
    <3>2. CASE x \notin nextFrame[u]
      <4>1. u = w /\ x \in Inside(v) \cap shown[w]
        BY <1>4, <2>1, <3>2
      <4> QED
        BY <1>4, <1>10, <4>1
    <3> QED
      BY <3>1, <3>2
  <2> QED
    BY <2>1 DEF Closed
<1>12. RendersNew'
  <2>1. ASSUME NEW i \in Draws \cup Renderings, NEW x \in stack'[i].left
        PROVE  x \notin nextFrame'[Home(x)]
    <3>1. x \in stack[i].left
      BY <1>7
    <3>2. x \notin nextFrame[Home(x)]
      BY <3>1 DEF Sound, FramesOK, RendersNew
    <3>3. x \in Children(stack[i].on)
      BY <3>1 DEF Sound, Shape, ShowsChildren
    <3>4. x # v
      BY <1>1, <1>2, <2>1, <3>1, ShowsOnce
    <3>5. x \in Views
      BY <3>3 DEF Children
    <3>6. ASSUME x \in Inside(v)
          PROVE  FALSE
      <4>1. v \in Around(x) /\ Home(x) = w
        BY <3>6, InsideOf
      <4>2. CASE i \in Draws
        <5>1. stack[i].on \in Windows
          BY <4>2, FrameAt DEF Sound, TypeOK, Draws
        <5>2. Around(x) = {x}
          BY <3>3, <5>1, RootOf
        <5> QED
          BY <3>4, <4>1, <5>2
      <4>3. CASE i \in Renderings
        <5>1. /\ stack[i].on \in Views /\ Home(stack[i].on) \in Windows
              /\ stack[i].on \in nextFrame[Home(stack[i].on)]
          BY <4>3, RenderedInDraw DEF Sound, FramesOK, RendersNew
        <5>2. Around(x) = Around(stack[i].on) \cup {x} /\ Home(x) = Home(stack[i].on)
          BY <3>3, <5>1, ChildOf
        <5>3. Around(stack[i].on) \subseteq nextFrame[w]
          BY <4>1, <5>1, <5>2 DEF Sound, FramesOK, Closed
        <5>4. v \in nextFrame[w]
          BY <3>4, <4>1, <5>2, <5>3
        <5> QED
          BY <1>2, <5>4, PathOf
      <4> QED
        BY <4>2, <4>3
    <3>7. Home(x) \in Windows
      BY <3>5, PathOf
    <3> QED
      BY <1>4, <3>2, <3>6, <3>7
  <2>2. ASSUME NEW i \in Renderings
        PROVE  stack'[i].on \in nextFrame'[Home(stack'[i].on)]
    <3>1. stack[i].on \in nextFrame[Home(stack[i].on)] /\ Home(stack[i].on) \in Windows
      BY RenderedInDraw DEF Sound, FramesOK, RendersNew
    <3> QED
      BY <1>4, <1>6, <3>1
  <2>3. \A i, j \in Renderings : stack'[i].on = stack'[j].on => i = j
    BY <1>6 DEF Sound, FramesOK, RendersNew
  <2> QED
    BY <1>1, <2>1, <2>2, <2>3 DEF RendersNew
<1> QED
  BY <1>8, <1>9, <1>11, <1>12 DEF FramesOK

LEMMA ViewDoneShape ==
  ASSUME Sound, ViewDone
  PROVE  Shape' /\ FramesOK'
<1> DEFINE n == Len(stack)
<1>1. /\ DOMAIN stack' = 1 .. n - 1
      /\ n \in Nat \ {0} /\ DOMAIN stack = 1 .. n
      /\ n \in Renderings
      /\ \A i \in DOMAIN stack' : stack'[i] = stack[i]
      /\ Draws' = Draws /\ Requests' = Requests
      /\ Renderings' = Renderings \ {n}
  BY ViewDoneStack
<1>2. UNCHANGED <<open, drawing, shown, nextFrame>>
  BY DEF ViewDone, EndView, auxVars
<1>3. Draws' \subseteq 1 .. n - 1 /\ Renderings' \subseteq 1 .. n - 1 /\ Requests' \subseteq 1 .. n - 1
  BY <1>1 DEF Draws, Renderings, Requests
<1>4. \A i \in Draws \cup Renderings' \cup Requests : stack'[i] = stack[i]
  BY <1>1, <1>3
<1>5. RequestsFirst'
  BY <1>1, <1>2, <1>4, FewerRequests
<1>6. RendersChild'
  <2> SUFFICES ASSUME NEW i \in Renderings'
               PROVE  /\ i > 1 /\ i - 1 \in Draws \cup Renderings'
                      /\ stack'[i].on \in Children(stack'[i - 1].on)
    BY <1>1 DEF RendersChild
  <2>1. /\ i > 1 /\ i - 1 \in Draws \cup Renderings
        /\ stack[i].on \in Children(stack[i - 1].on)
    BY <1>1 DEF Sound, Shape, RendersChild
  <2>2. i - 1 # n
    <3>1. i \in 1 .. n - 1 /\ n \in Nat
      BY <1>1, <1>3
    <3> QED
      BY <3>1
  <2> QED
    BY <1>1, <1>4, <2>1, <2>2
<1>7. RendersInDraw'
  <2> SUFFICES ASSUME NEW i \in Renderings'
               PROVE  \E k \in Draws : /\ k < i /\ stack'[k].on = Home(stack'[i].on)
                                       /\ \A j \in k + 1 .. i : j \in Renderings'
    BY <1>1 DEF RendersInDraw
  <2>1. PICK k \in Draws : /\ k < i /\ stack[k].on = Home(stack[i].on)
                           /\ \A j \in k + 1 .. i : j \in Renderings
    BY <1>1 DEF Sound, Shape, RendersInDraw
  <2>2. i \in 1 .. n - 1 /\ k \in 1 .. n - 1
    BY <1>1, <1>3
  <2>3. \A j \in k + 1 .. i : j # n
    <3>1. n \in Nat
      BY <1>1
    <3> QED
      BY <2>2, <3>1
  <2> QED
    BY <1>1, <1>4, <2>1, <2>3
<1>8. DrawsOnce'
  BY <1>1, <1>2, <1>4 DEF Sound, Shape, DrawsOnce
<1>9. Numbered'
  BY <1>2 DEF Sound, Shape, Numbered
<1>10. ShowsChildren'
  BY <1>1, <1>4 DEF Sound, Shape, ShowsChildren
<1>11. Closed(shown)' /\ Closed(nextFrame)'
  BY <1>2 DEF Sound, FramesOK, Closed
<1>12. RendersNew'
  BY <1>1, <1>2, <1>4 DEF Sound, FramesOK, RendersNew
<1> QED
  BY <1>5, <1>6, <1>7, <1>8, <1>9, <1>10, <1>11, <1>12 DEF Shape, FramesOK

LEMMA PaintShape ==
  ASSUME Sound, Paint
  PROVE  Shape' /\ FramesOK'
<1>1. /\ Len(stack) \in Draws
      /\ \A i \in DOMAIN stack : i # Len(stack) => stack'[i] = stack[i]
      /\ \A i \in DOMAIN stack : stack'[i].on = stack[i].on
      /\ stack'[Len(stack)].left = {}
      /\ Draws' = Draws /\ Requests' = Requests /\ Renderings' = Renderings
  BY PaintStack
<1>2. UNCHANGED <<open, drawing, shown, nextFrame>>
  BY DEF Paint, drawVars, auxVars
<1>3. Draws \cup Renderings \cup Requests \subseteq DOMAIN stack
  BY DEF Draws, Renderings, Requests
<1>4. \A i \in Draws \cup Renderings : /\ stack'[i].on = stack[i].on
                                       /\ stack'[i].left \subseteq stack[i].left
  BY <1>1, <1>3
<1>5. RequestsFirst'
  BY <1>1, <1>2, <1>3, FewerRequests
<1> QED
  BY <1>1, <1>2, <1>4, <1>5, SameCalls, SameFrames

LEMMA DrawDoneShape ==
  ASSUME Sound, DrawDone
  PROVE  Shape' /\ FramesOK'
<1> DEFINE n == Len(stack)
           w == Top.on
<1>1. /\ n \in Draws /\ Top = stack[n]
      /\ n \in Nat \ {0} /\ DOMAIN stack = 1 .. n
      /\ DOMAIN stack' \subseteq 1 .. n - 1
      /\ \A i \in DOMAIN stack' : stack'[i] = stack[i]
      /\ Draws' = Draws \ {n} /\ Requests' \subseteq Requests
      /\ Renderings' = Renderings
  BY DrawDoneStack
<1>2. w \in drawing /\ w \in Windows
  BY <1>1, FrameAt DEF Sound, TypeOK, Shape, DrawsOnce, Draws
<1>3. /\ drawing' = drawing \ {w} /\ open' = open \cup {w}
      /\ shown' = [shown EXCEPT ![w] = nextFrame[w]]
      /\ nextFrame' = [nextFrame EXCEPT ![w] = {}]
      /\ shown \in [Windows -> SUBSET Views] /\ nextFrame \in [Windows -> SUBSET Views]
  BY DEF DrawDone, SwapFrames, Sound, TypeOK
<1>4. /\ Draws' \subseteq DOMAIN stack' /\ Renderings' \subseteq DOMAIN stack'
      /\ Requests' \subseteq DOMAIN stack'
  BY DEF Draws, Renderings, Requests
<1>5. \A i \in Draws' \cup Renderings \cup Requests' : stack'[i] = stack[i]
  BY <1>1, <1>4
<1>6. Renderings \subseteq 1 .. n - 1
  BY <1>1, <1>4
<1>7. RequestsFirst'
  BY <1>1, <1>3, <1>5, FewerRequests
<1>8. RendersChild'
  <2> SUFFICES ASSUME NEW i \in Renderings
               PROVE  /\ i > 1 /\ i - 1 \in Draws' \cup Renderings
                      /\ stack'[i].on \in Children(stack'[i - 1].on)
    BY <1>1 DEF RendersChild
  <2>1. /\ i > 1 /\ i - 1 \in Draws \cup Renderings
        /\ stack[i].on \in Children(stack[i - 1].on)
    BY DEF Sound, Shape, RendersChild
  <2>2. i - 1 # n
    BY <1>1, <1>6
  <2> QED
    BY <1>1, <1>5, <2>1, <2>2
<1>9. RendersInDraw'
  <2> SUFFICES ASSUME NEW i \in Renderings
               PROVE  \E k \in Draws' : /\ k < i /\ stack'[k].on = Home(stack'[i].on)
                                        /\ \A j \in k + 1 .. i : j \in Renderings
    BY <1>1 DEF RendersInDraw
  <2>1. PICK k \in Draws : /\ k < i /\ stack[k].on = Home(stack[i].on)
                           /\ \A j \in k + 1 .. i : j \in Renderings
    BY DEF Sound, Shape, RendersInDraw
  <2>2. k # n
    <3>1. k \in 1 .. n /\ i \in 1 .. n - 1 /\ n \in Nat
      BY <1>1, <1>6 DEF Draws
    <3> QED
      BY <2>1, <3>1
  <2> QED
    BY <1>1, <1>5, <2>1, <2>2
<1>10. DrawsOnce'
  <2>1. \A i \in Draws : stack[i].on = w => i = n
    BY <1>1 DEF Sound, Shape, DrawsOnce
  <2>2. drawing = {stack[i].on : i \in Draws}
    BY DEF Sound, Shape, DrawsOnce
  <2>3. drawing' = {stack'[i].on : i \in Draws'}
    BY <1>1, <1>3, <1>5, <2>1, <2>2
  <2>4. \A i, j \in Draws' : stack'[i].on = stack'[j].on => i = j
    BY <1>1, <1>5 DEF Sound, Shape, DrawsOnce
  <2> QED
    BY <2>3, <2>4 DEF DrawsOnce
<1>11. Numbered'
  <2>1. open' \cup drawing' = open \cup drawing
    BY <1>2, <1>3
  <2> QED
    BY <2>1 DEF Sound, Shape, Numbered
<1>12. ShowsChildren'
  BY <1>1, <1>5 DEF Sound, Shape, ShowsChildren
<1>13. /\ \A u \in Windows : shown'[u] = IF u = w THEN nextFrame[u] ELSE shown[u]
       /\ \A u \in Windows : nextFrame'[u] = IF u = w THEN {} ELSE nextFrame[u]
  BY <1>2, <1>3
<1>14. Closed(shown)'
  BY <1>13 DEF Sound, FramesOK, Closed
<1>15. Closed(nextFrame)'
  BY <1>13 DEF Sound, FramesOK, Closed
<1>16. RendersNew'
  <2>1. ASSUME NEW i \in Renderings
        PROVE  stack'[i].on \in nextFrame'[Home(stack'[i].on)]
    <3>1. stack[i].on \in nextFrame[Home(stack[i].on)] /\ Home(stack[i].on) \in Windows
      BY RenderedInDraw DEF Sound, FramesOK, RendersNew
    <3>2. PICK k \in Draws : k < i /\ stack[k].on = Home(stack[i].on)
      BY DEF Sound, Shape, RendersInDraw
    <3>3. k # n
      <4>1. k \in 1 .. n /\ i \in 1 .. n - 1 /\ n \in Nat
        BY <1>1, <1>6 DEF Draws
      <4> QED
        BY <3>2, <4>1
    <3>4. Home(stack[i].on) # w
      BY <1>1, <3>2, <3>3 DEF Sound, Shape, DrawsOnce
    <3> QED
      BY <1>5, <1>13, <3>1, <3>4
  <2>2. \A i, j \in Renderings : stack'[i].on = stack'[j].on => i = j
    BY <1>5 DEF Sound, FramesOK, RendersNew
  <2>3. ASSUME NEW i \in Draws' \cup Renderings, NEW x \in stack'[i].left
        PROVE  x \notin nextFrame'[Home(x)]
    <3>1. x \in stack[i].left /\ i \in Draws \cup Renderings
      BY <1>1, <1>5
    <3>2. x \notin nextFrame[Home(x)]
      BY <3>1 DEF Sound, FramesOK, RendersNew
    <3>3. x \in Views
      BY <3>1 DEF Sound, Shape, ShowsChildren, Children
    <3>4. Home(x) \in Windows
      BY <3>3, PathOf
    <3> QED
      BY <1>13, <3>2, <3>4
  <2> QED
    BY <1>1, <2>1, <2>2, <2>3 DEF RendersNew
<1> QED
  BY <1>7, <1>8, <1>9, <1>10, <1>11, <1>12, <1>14, <1>15, <1>16 DEF Shape, FramesOK

\* Notifying and refreshing keep the types of what they mark.
LEMMA InvalidateTypes ==
  ASSUME TypeOK, NEW vs \in SUBSET Views, Invalidate(vs)
  PROVE  /\ dirtyViews' \in [Windows -> SUBSET Views] /\ dirty' \subseteq Windows
         /\ mark' \in [Views -> {"fresh", "unseen", "delayed", "due"}]
<1>1. mark' \in [Views -> {"fresh", "unseen", "delayed", "due"}]
  BY DEF TypeOK, Invalidate, MarkNotified
<1>2. dirtyViews' \in [Windows -> SUBSET Views] /\ dirty' \subseteq Windows
  BY DEF TypeOK, Invalidate
<1> QED
  BY <1>1, <1>2

LEMMA MarkRefreshedTypes ==
  ASSUME TypeOK, NEW ws, MarkRefreshed(ws)
  PROVE  mark' \in [Views -> {"fresh", "unseen", "delayed", "due"}]
BY DEF TypeOK, MarkRefreshed

LEMMA DoRefreshTypes ==
  ASSUME TypeOK, NEW w \in Windows, DoRefresh(w)
  PROVE  /\ refreshing' \subseteq Windows /\ dirty' \subseteq Windows
         /\ mark' \in [Views -> {"fresh", "unseen", "delayed", "due"}]
<1>1. CASE w \in drawing
  BY <1>1 DEF DoRefresh, TypeOK
<1>2. CASE w \notin drawing
  BY <1>2, MarkRefreshedTypes DEF DoRefresh, TypeOK
<1> QED
  BY <1>1, <1>2

LEMMA FuelSpent ==
  ASSUME TypeOK, UserCode
  PROVE  fuel' \in 0 .. MaxFuel
BY CachedAssumption DEF TypeOK, UserCode

LEMMA NotifySound ==
  ASSUME Sound, NEW v \in Views, Notify(v)
  PROVE  Sound'
<1>1. Invalidate({v}) /\ UserCode
  BY DEF Notify
<1>2. /\ dirtyViews' \in [Windows -> SUBSET Views] /\ dirty' \subseteq Windows
      /\ mark' \in [Views -> {"fresh", "unseen", "delayed", "due"}]
      /\ fuel' \in 0 .. MaxFuel
  BY <1>1, InvalidateTypes, FuelSpent DEF Sound
<1>3. TypeOK'
  BY <1>2 DEF Notify, Sound, TypeOK, focusVars, drawVars, trackVars
<1>4. Shape' /\ FramesOK'
  BY QuietStep DEF Notify, drawVars
<1> QED
  BY <1>3, <1>4 DEF Sound

LEMMA AccessSound ==
  ASSUME Sound, NEW v \in Views, Access(v)
  PROVE  Sound'
<1>1. fuel' \in 0 .. MaxFuel
  BY FuelSpent DEF Access, Sound
<1>2. TypeOK'
  BY <1>1 DEF Access, Sound, TypeOK, focusVars, drawVars, dirtVars, auxVars
<1>3. Shape' /\ FramesOK'
  BY QuietStep DEF Access, drawVars, auxVars
<1> QED
  BY <1>2, <1>3 DEF Sound

LEMMA RequestAnimationFrameSound ==
  ASSUME Sound, RequestAnimationFrame
  PROVE  Sound'
<1>1. fuel' \in 0 .. MaxFuel
  BY FuelSpent DEF RequestAnimationFrame, Sound
<1>2. Top.on \in Views
  BY TopAndUnder, FrameFields DEF RequestAnimationFrame, Running, Sound, TypeOK
<1>3. TypeOK'
  BY <1>1, <1>2
     DEF RequestAnimationFrame, Sound, TypeOK, focusVars, drawVars, dirtVars, auxVars, trackVars
<1>4. Shape' /\ FramesOK'
  BY QuietStep DEF RequestAnimationFrame, drawVars, auxVars
<1> QED
  BY <1>3, <1>4 DEF Sound

LEMMA RefreshSound ==
  ASSUME Sound, NEW w \in Windows, Refresh(w)
  PROVE  Sound'
<1>1. DoRefresh(w) /\ UserCode
  BY DEF Refresh
<1>2. /\ refreshing' \subseteq Windows /\ dirty' \subseteq Windows
      /\ mark' \in [Views -> {"fresh", "unseen", "delayed", "due"}]
      /\ fuel' \in 0 .. MaxFuel
  BY <1>1, DoRefreshTypes, FuelSpent DEF Sound
<1>3. TypeOK'
  BY <1>2 DEF Refresh, Sound, TypeOK, focusVars, trackVars
<1>4. Shape' /\ FramesOK'
  BY QuietStep DEF Refresh
<1> QED
  BY <1>3, <1>4 DEF Sound

LEMMA MoveFocusSound ==
  ASSUME Sound, NEW w \in Windows, NEW vs \in SUBSET Focusable, MoveFocus(w, vs)
  PROVE  Sound'
<1>1. DoRefresh(w) /\ SetFocus(w, vs)
  BY DEF MoveFocus
<1>2. /\ refreshing' \subseteq Windows /\ dirty' \subseteq Windows
      /\ mark' \in [Views -> {"fresh", "unseen", "delayed", "due"}]
      /\ fuel' \in 0 .. MaxFuel
  BY <1>1, DoRefreshTypes, FuelSpent DEF SetFocus, Sound
<1>3. focus' \subseteq Focusable /\ astray' \subseteq Windows
  BY <1>1 DEF SetFocus, Sound, TypeOK
<1>4. TypeOK'
  BY <1>1, <1>2, <1>3 DEF SetFocus, Sound, TypeOK, trackVars
<1>5. Shape' /\ FramesOK'
  BY <1>1, QuietStep DEF SetFocus
<1> QED
  BY <1>4, <1>5 DEF Sound

LEMMA RefreshWindowsSound ==
  ASSUME Sound, RefreshWindows
  PROVE  Sound'
<1>1. fuel' \in 0 .. MaxFuel
  BY FuelSpent DEF RefreshWindows, Sound
<1>2. TypeOK'
  BY <1>1 DEF RefreshWindows, Sound, TypeOK, focusVars, drawVars, dirtVars, auxVars, trackVars
<1>3. Shape' /\ FramesOK'
  BY QuietStep DEF RefreshWindows, drawVars, auxVars
<1> QED
  BY <1>2, <1>3 DEF Sound

LEMMA ApplyRefreshSound ==
  ASSUME Sound, ApplyRefresh
  PROVE  Sound'
<1>1. mark' \in [Views -> {"fresh", "unseen", "delayed", "due"}]
  BY MarkRefreshedTypes DEF ApplyRefresh, Sound
<1>2. TypeOK'
  BY <1>1 DEF ApplyRefresh, Sound, TypeOK, focusVars, trackVars
<1>3. Shape' /\ FramesOK'
  BY QuietStep DEF ApplyRefresh
<1> QED
  BY <1>2, <1>3 DEF Sound

\* What a beginning draw leaves, and what it does not touch.
LEMMA BeginDrawTypes ==
  ASSUME Sound, NEW w \in Windows, BeginDraw(w, stack)
  PROVE  /\ dirtyViews' \in [Windows -> SUBSET Views] /\ dirty' \subseteq Windows
         /\ drawing' \subseteq Windows /\ nextFrame' \in [Windows -> SUBSET Views]
         /\ \A u \in Windows \ drawing' : nextFrame'[u] = {}
         /\ nextFocus' \subseteq Focusable /\ astray' \subseteq Windows /\ accessed' \subseteq Views
         /\ stack' \in Seq(Frames)
<1>1. stack' \in Seq(Frames)
  BY DrawStack
<1>2. /\ dirtyViews' \in [Windows -> SUBSET Views] /\ dirty' \subseteq Windows
      /\ drawing' \subseteq Windows /\ nextFrame' \in [Windows -> SUBSET Views]
      /\ nextFocus' \subseteq Focusable /\ astray' \subseteq Windows /\ accessed' \subseteq Views
  BY DEF BeginDraw, Sound, TypeOK
<1>3. \A u \in Windows \ drawing' : nextFrame'[u] = {}
  BY DEF BeginDraw, Sound, TypeOK
<1> QED
  BY <1>1, <1>2, <1>3

\* A new window has the next number.
LEMMA NewWindow ==
  ASSUME Sound, NEW w \in Windows, w = Cardinality(open \cup drawing) + 1
  PROVE  /\ w \notin open \cup drawing
         /\ \E n \in 0 .. MaxWindow : open \cup drawing \cup {w} = 1 .. n
<1>1. PICK n \in 0 .. MaxWindow : open \cup drawing = 1 .. n
  BY DEF Sound, Shape, Numbered
<1>2. n \in Nat /\ MaxWindow \in Nat
  BY CachedAssumption
<1>3. 1 \in Int /\ n \in Int /\ (IF 1 > n THEN 0 ELSE n - 1 + 1) = n
  BY <1>2
<1>4. Cardinality(1 .. n) = n
  BY <1>3, FS_Interval
<1>5. w = n + 1
  BY <1>1, <1>4
<1>6. n + 1 \in 0 .. MaxWindow
  BY <1>2, <1>5 DEF Windows
<1>7. (1 .. n) \cup {n + 1} = 1 .. n + 1 /\ n + 1 \notin 1 .. n
  BY <1>2
<1> QED
  BY <1>1, <1>5, <1>6, <1>7

LEMMA OpenWindowSound ==
  ASSUME Sound, NEW w \in Windows, OpenWindow(w)
  PROVE  Sound'
<1>1. /\ w = Cardinality(open \cup drawing) + 1 /\ BeginDraw(w, stack)
      /\ UNCHANGED <<open, focus, shownFocus, refreshing, needsPresent, shown, cache, callbacks,
                     tracked, trackers, refreshAll, mark>>
      /\ lost' = lost \cup UNION {nextFrame[u] : u \in drawing}
  BY DEF OpenWindow
<1>2. fuel' \in 0 .. MaxFuel
  BY FuelSpent DEF OpenWindow, Sound, TypeOK
<1>3. /\ w \notin drawing
      /\ \E n \in 0 .. MaxWindow : open \cup drawing \cup {w} = 1 .. n
  BY <1>1, NewWindow
<1>4. /\ dirtyViews' \in [Windows -> SUBSET Views] /\ dirty' \subseteq Windows
      /\ drawing' \subseteq Windows /\ nextFrame' \in [Windows -> SUBSET Views]
      /\ \A u \in Windows \ drawing' : nextFrame'[u] = {}
      /\ nextFocus' \subseteq Focusable /\ astray' \subseteq Windows /\ accessed' \subseteq Views
      /\ stack' \in Seq(Frames)
  BY <1>1, BeginDrawTypes
<1>5. lost' \subseteq Views
  BY <1>1 DEF Sound, TypeOK
<1>6. TypeOK'
  BY <1>1, <1>2, <1>4, <1>5 DEF Sound, TypeOK
<1>7. Shape' /\ FramesOK'
  BY <1>1, <1>3, DrawBegins
<1> QED
  BY <1>6, <1>7 DEF Sound

\* What a frame request finds: itself alone, on a window that is open.
LEMMA Requested ==
  ASSUME Sound, Running("request")
  PROVE  /\ Top.on \in open /\ drawing = {} /\ stack = <<[op |-> "request", on |-> Top.on]>>
         /\ Draws = {} /\ Renderings = {}
<1>1. stack \in Seq(Frames) /\ stack # <<>> /\ Top.op = "request"
  BY DEF Running, Sound, TypeOK
<1>2. /\ Len(stack) \in DOMAIN stack /\ Top = stack[Len(stack)] /\ Top \in Frames
  BY <1>1, TopAndUnder
<1>3. Len(stack) \in Requests
  BY <1>1, <1>2 DEF Requests
<1>4. Len(stack) = 1 /\ Top.on \in open
  BY <1>2, <1>3 DEF Sound, Shape, RequestsFirst
<1>5. DOMAIN stack = 1 .. 1 /\ Top = stack[1]
  BY <1>1, <1>2, <1>4, StackOf
<1>6. DOMAIN stack = {1}
  BY <1>5
<1>7. Draws = {} /\ Renderings = {}
  BY <1>1, <1>5, <1>6 DEF Draws, Renderings
<1>8. drawing = {}
  BY <1>7 DEF Sound, Shape, DrawsOnce
<1>9. Top = [op |-> "request", on |-> Top.on]
  BY <1>1, <1>2 DEF Frames
<1>10. stack = <<Top>>
  <2>1. stack \in [1 .. 1 -> Frames]
    BY <1>1, <1>4, LenProperties
  <2> QED
    BY <1>5, <2>1
<1> QED
  BY <1>4, <1>7, <1>8, <1>9, <1>10

\* An open window draws, for a frame request or a key event, alone.
DrawOpen(w) == /\ w \in open /\ drawing = {} /\ Draws = {} /\ Renderings = {}
               /\ Redraw(w)

LEMMA DrawFrameOpen ==
  ASSUME Sound, DrawFrame
  PROVE  \E w \in Windows : DrawOpen(w)
<1>1. Running("request") /\ Redraw(Top.on)
  BY DEF DrawFrame
<1>2. DrawOpen(Top.on) /\ Top.on \in open
  BY <1>1, Requested DEF DrawOpen
<1> QED
  BY <1>2 DEF Sound, TypeOK

LEMMA DrawForKeyOpen ==
  ASSUME Sound, NEW w \in Windows, DrawForKey(w)
  PROVE  DrawOpen(w)
<1>1. stack = <<>> /\ w \in open /\ Redraw(w)
  BY DEF DrawForKey
<1>2. Draws = {} /\ Renderings = {}
  BY <1>1 DEF Draws, Renderings
<1>3. drawing = {}
  BY <1>2 DEF Sound, Shape, DrawsOnce
<1> QED
  BY <1>1, <1>2, <1>3 DEF DrawOpen

LEMMA DrawOpenSound ==
  ASSUME Sound, NEW w \in Windows, DrawOpen(w)
  PROVE  Sound'
<1>1. /\ w \in open /\ drawing = {} /\ BeginDraw(w, stack)
      /\ UNCHANGED <<open, focus, shownFocus, refreshing, needsPresent, shown, cache, callbacks,
                     tracked, trackers, refreshAll, fuel, mark, lost>>
  BY DEF DrawOpen, Redraw, auxVars
<1>2. /\ dirtyViews' \in [Windows -> SUBSET Views] /\ dirty' \subseteq Windows
      /\ drawing' \subseteq Windows /\ nextFrame' \in [Windows -> SUBSET Views]
      /\ \A u \in Windows \ drawing' : nextFrame'[u] = {}
      /\ nextFocus' \subseteq Focusable /\ astray' \subseteq Windows /\ accessed' \subseteq Views
      /\ stack' \in Seq(Frames)
  BY <1>1, BeginDrawTypes
<1>3. TypeOK'
  BY <1>1, <1>2 DEF Sound, TypeOK
<1>4. \E n \in 0 .. MaxWindow : open \cup drawing \cup {w} = 1 .. n
  BY <1>1 DEF Sound, Shape, Numbered
<1>5. w \in Windows \ drawing
  BY <1>1
<1>6. Shape' /\ FramesOK'
  BY <1>1, <1>4, <1>5, DrawBegins
<1> QED
  BY <1>3, <1>6 DEF Sound

LEMMA PresentFrameSound ==
  ASSUME Sound, PresentFrame
  PROVE  Sound'
<1>1. EndRequest /\ Running("request")
  BY DEF PresentFrame, EndRequest
<1>2. Top.on \in open /\ stack = <<[op |-> "request", on |-> Top.on]>>
  BY <1>1, Requested
<1>3. stack' = <<>> /\ UNCHANGED <<open, drawing, shown, nextFrame>>
  BY <1>1 DEF EndRequest, auxVars
<1>4. Shape' /\ FramesOK' /\ stack' \in Seq(Frames)
  BY <1>2, <1>3, IdleStep
<1>5. TypeOK'
  BY <1>1, <1>4 DEF EndRequest, Sound, TypeOK, focusVars, dirtVars, trackVars, auxVars
<1> QED
  BY <1>4, <1>5 DEF Sound

LEMMA RequestFrameSound ==
  ASSUME Sound, NEW w \in Windows, RequestFrame(w)
  PROVE  Sound'
<1> DEFINE vs == {v \in callbacks : Home(v) = w}
<1>1. Request(w, vs)
  BY DEF RequestFrame
<1>2. vs \in SUBSET Views
  BY DEF Sound, TypeOK
<1> HIDE DEF vs
<1>3. /\ stack = <<>> /\ w \in open /\ stack' = <<[op |-> "request", on |-> w]>> /\ Invalidate(vs)
      /\ UNCHANGED <<open, drawing, shown, nextFrame>>
  BY <1>1 DEF Request, drawVars
<1>4. /\ dirtyViews' \in [Windows -> SUBSET Views] /\ dirty' \subseteq Windows
      /\ mark' \in [Views -> {"fresh", "unseen", "delayed", "due"}]
  BY <1>2, <1>3, InvalidateTypes DEF Sound
<1>5. Shape' /\ FramesOK' /\ stack' \in Seq(Frames)
  BY <1>3, IdleStep
<1>6. TypeOK'
  BY <1>1, <1>4, <1>5 DEF Request, Sound, TypeOK, focusVars, drawVars, trackVars
<1> QED
  BY <1>5, <1>6 DEF Sound

\* Finding the focus of the next frame.
LEMMA FindFocusTypes ==
  ASSUME TypeOK, NEW vs, FindFocus(vs)
  PROVE  nextFocus' \subseteq Focusable
BY DEF TypeOK, FindFocus

LEMMA RenderSound ==
  ASSUME Sound, NEW v \in Views, Render(v)
  PROVE  Sound'
<1>1. Shows(v) /\ stack' \in Seq(Frames)
  BY RenderStack DEF Render
<1>2. Home(v) \in drawing /\ Home(v) \in Windows
  BY <1>1, Showing
<1>3. /\ nextFrame' = [nextFrame EXCEPT ![Home(v)] = @ \cup {v}]
      /\ refreshing' = IF v \in Cached THEN refreshing \cup {Home(v)} ELSE refreshing
      /\ accessed' = accessed \cup {v}
      /\ mark' = [mark EXCEPT ![v] = "fresh"]
      /\ lost' \subseteq lost \cup {v}
      /\ UNCHANGED <<open, focus, nextFocus, shownFocus, astray, dirty, dirtyViews, drawing,
                     needsPresent, shown, cache, callbacks, tracked, trackers, refreshAll, fuel>>
  BY DEF Render, focusVars, dirtVars
<1>4. nextFrame' \in [Windows -> SUBSET Views] /\ \A w \in Windows \ drawing' : nextFrame'[w] = {}
  BY <1>2, <1>3 DEF Sound, TypeOK
<1>5. TypeOK'
  BY <1>1, <1>2, <1>3, <1>4 DEF Sound, TypeOK
<1> QED
  BY <1>5, RenderShape DEF Sound

LEMMA ReuseSound ==
  ASSUME Sound, NEW v \in Views, Reuse(v)
  PROVE  Sound'
<1>1. Recycle(v) /\ Shows(v) /\ stack' \in Seq(Frames)
  BY ReuseStack DEF Reuse, Recycle
<1>2. Home(v) \in drawing /\ Home(v) \in Windows
  BY <1>1, Showing
<1>3. Inside(v) \subseteq Views /\ v \in Cached
  BY <1>1 DEF Inside, Recycle
<1>4. /\ nextFrame' = [nextFrame EXCEPT ![Home(v)] = @ \cup (Inside(v) \cap shown[Home(v)])]
      /\ accessed' = accessed \cup cache[v]
      /\ FindFocus(Inside(v) \cap shown[Home(v)])
      /\ UNCHANGED <<open, focus, shownFocus, astray, dirty, dirtyViews, drawing, refreshing,
                     needsPresent, shown, cache, callbacks, tracked, trackers, refreshAll, fuel,
                     mark, lost>>
  BY <1>1 DEF Recycle, dirtVars, auxVars
<1>5. nextFrame' \in [Windows -> SUBSET Views] /\ \A w \in Windows \ drawing' : nextFrame'[w] = {}
  BY <1>2, <1>3, <1>4 DEF Sound, TypeOK
<1>6. nextFocus' \subseteq Focusable
  BY <1>4, FindFocusTypes DEF Sound
<1>7. TypeOK'
  BY <1>1, <1>3, <1>4, <1>5, <1>6 DEF Sound, TypeOK
<1> QED
  BY <1>7, ReuseShape DEF Sound

LEMMA ViewDoneSound ==
  ASSUME Sound, ViewDone
  PROVE  Sound'
<1>1. stack' \in Seq(Frames) /\ Len(stack) \in Renderings /\ Top = stack[Len(stack)]
  BY ViewDoneStack
<1>2. Top.on \in Views
  BY <1>1, RenderedInDraw
<1>3. /\ FindFocus({Top.on})
      /\ cache' = IF Top.on \in Cached THEN [cache EXCEPT ![Top.on] = accessed \ Top.before]
                  ELSE cache
      /\ refreshing' \subseteq refreshing
      /\ UNCHANGED <<open, focus, shownFocus, astray, dirty, dirtyViews, drawing, needsPresent,
                     shown, nextFrame, callbacks, accessed, tracked, trackers, refreshAll, fuel,
                     mark, lost>>
  BY DEF ViewDone, EndView, dirtVars, trackVars, auxVars
<1>4. nextFocus' \subseteq Focusable
  BY <1>3, FindFocusTypes DEF Sound
<1>5. cache' \in [Cached -> SUBSET Views]
  BY <1>3 DEF Sound, TypeOK
<1>6. TypeOK'
  BY <1>1, <1>3, <1>4, <1>5 DEF Sound, TypeOK
<1> QED
  BY <1>6, ViewDoneShape DEF Sound

LEMMA PaintSound ==
  ASSUME Sound, Paint
  PROVE  Sound'
<1>1. stack' \in Seq(Frames)
  BY PaintStack
<1>2. TypeOK'
  BY <1>1 DEF Paint, Sound, TypeOK, focusVars, dirtVars, drawVars, trackVars, auxVars
<1> QED
  BY <1>2, PaintShape DEF Sound

LEMMA DrawDoneSound ==
  ASSUME Sound, DrawDone
  PROVE  Sound'
<1> DEFINE w == Top.on
           gone == {v \in Views : Home(v) = w} \ nextFrame[w]
<1>1. /\ stack' \in Seq(Frames) /\ Len(stack) \in Draws /\ Top = stack[Len(stack)]
  BY DrawDoneStack
<1>2. w \in Windows
  BY <1>1, FrameAt DEF Sound, TypeOK, Draws
<1>3. /\ shown' = [shown EXCEPT ![w] = nextFrame[w]]
      /\ nextFrame' = [nextFrame EXCEPT ![w] = {}]
      /\ shownFocus' \subseteq shownFocus \cup nextFocus
      /\ nextFocus' \subseteq nextFocus
  BY DEF DrawDone, SwapFrames
<1>4. /\ cache' = [v \in Cached |-> IF v \in gone THEN {} ELSE cache[v]]
      /\ mark' = [v \in Views |-> IF v \in gone THEN "fresh" ELSE mark[v]]
      /\ lost' = lost \ gone
      /\ Track(w)
      /\ refreshing' = refreshing \ {w}
      /\ drawing' = drawing \ {w}
      /\ needsPresent' \subseteq needsPresent \cup {w}
      /\ open' = open \cup {w}
      /\ accessed' \subseteq accessed
      /\ UNCHANGED <<focus, astray, dirty, dirtyViews, callbacks, refreshAll, fuel>>
  BY DEF DrawDone, dirtVars
<1> HIDE DEF gone
<1>5. trackers' \in [Views -> SUBSET Windows]
  BY <1>2, <1>4 DEF Track, Sound, TypeOK
<1>6. cache' \in [Cached -> SUBSET Views]
  BY <1>4 DEF Sound, TypeOK
<1>7. mark' \in [Views -> {"fresh", "unseen", "delayed", "due"}]
  BY <1>4 DEF Sound, TypeOK
<1>8. /\ shown' \in [Windows -> SUBSET Views] /\ nextFrame' \in [Windows -> SUBSET Views]
      /\ tracked' \in [Windows -> SUBSET Views]
      /\ \A u \in Windows \ drawing' : nextFrame'[u] = {}
  BY <1>2, <1>3, <1>4 DEF Track, Sound, TypeOK
<1>9. TypeOK'
  BY <1>1, <1>2, <1>3, <1>4, <1>5, <1>6, <1>7, <1>8 DEF Sound, TypeOK
<1> QED
  BY <1>9, DrawDoneShape DEF Sound

\* Every step, by its action; a window is given the focus of one of its
\* views, or none.
FocusesOf(w) == {{}} \cup {{v} : v \in {u \in Focusable : Home(u) = w}}

LEMMA Steps ==
  ASSUME Sound, Next
  PROVE  \/ RequestAnimationFrame \/ RefreshWindows
         \/ \E v \in Views : Notify(v) \/ Access(v) \/ Render(v) \/ Reuse(v)
         \/ \E w \in Windows : \E vs \in FocusesOf(w) : MoveFocus(w, vs)
         \/ \E w \in Windows : Refresh(w) \/ OpenWindow(w) \/ RequestFrame(w) \/ DrawOpen(w)
         \/ PresentFrame \/ ApplyRefresh \/ ViewDone \/ Paint \/ DrawDone
<1>1. ASSUME NEW v \in Focusable, Focus(v)
      PROVE  \E w \in Windows : \E vs \in FocusesOf(w) : MoveFocus(w, vs)
  <2>1. MoveFocus(Home(v), {v})
    BY <1>1 DEF Focus
  <2>2. Home(v) \in Windows
    BY FocusAssumption, PathOf
  <2> QED
    BY <2>1, <2>2 DEF FocusesOf
<1>2. ASSUME NEW w \in Windows, Blur(w)
      PROVE  \E x \in Windows : \E vs \in FocusesOf(x) : MoveFocus(x, vs)
  BY <1>2 DEF Blur, FocusesOf
<1> QED
  BY <1>1, <1>2, DrawFrameOpen, DrawForKeyOpen DEF Next, UserStep, FrameStep

LEMMA SoundStep == Sound /\ [Next]_vars => Sound'
<1> SUFFICES ASSUME Sound, [Next]_vars PROVE Sound'
  OBVIOUS
<1>1. CASE UNCHANGED vars
  <2>1. UNCHANGED <<open, drawing, shown, nextFrame, stack>>
    BY <1>1 DEF vars, drawVars, auxVars
  <2>2. TypeOK'
    BY <1>1 DEF vars, dirtVars, drawVars, trackVars, focusVars, auxVars, Sound, TypeOK
  <2> QED
    BY <2>1, <2>2, QuietStep DEF Sound
<1>2. CASE Next
  <2>1. \/ RequestAnimationFrame \/ RefreshWindows
        \/ \E v \in Views : Notify(v) \/ Access(v) \/ Render(v) \/ Reuse(v)
        \/ \E w \in Windows : \E vs \in FocusesOf(w) : MoveFocus(w, vs)
        \/ \E w \in Windows : Refresh(w) \/ OpenWindow(w) \/ RequestFrame(w) \/ DrawOpen(w)
        \/ PresentFrame \/ ApplyRefresh \/ ViewDone \/ Paint \/ DrawDone
    BY <1>2, Steps
  <2>2. \A w : FocusesOf(w) \subseteq SUBSET Focusable
    BY DEF FocusesOf
  <2> QED
    BY <2>1, <2>2, RequestAnimationFrameSound, RefreshWindowsSound, NotifySound, AccessSound,
       RenderSound, ReuseSound, MoveFocusSound, RefreshSound, OpenWindowSound, RequestFrameSound,
       DrawOpenSound, PresentFrameSound, ApplyRefreshSound, ViewDoneSound, PaintSound,
       DrawDoneSound
<1> QED
  BY <1>1, <1>2

LEMMA AlwaysSound == Spec => []Sound
BY InitSound, SoundStep, PTL DEF Spec

\* Only the end of a draw changes what its window tracks, in both tables.
LEMMA TrackersStep == Sound /\ TrackersAgree /\ [Next]_vars => TrackersAgree'
<1> SUFFICES ASSUME Sound, TrackersAgree, [Next]_vars PROVE TrackersAgree'
  OBVIOUS
<1>1. CASE UNCHANGED <<tracked, trackers>>
  BY <1>1 DEF TrackersAgree
<1>2. CASE DrawDone
  <2>1. /\ Len(stack) \in Draws /\ Top = stack[Len(stack)]
    BY <1>2, DrawDoneStack
  <2>2. Top.on \in Windows
    BY <2>1, FrameAt DEF Sound, TypeOK, Draws
  <2>3. /\ trackers' = [v \in Views |->
              IF v \in accessed THEN trackers[v] \cup {Top.on}
              ELSE IF v \in tracked[Top.on] THEN trackers[v] \ {Top.on} ELSE trackers[v]]
        /\ tracked' = [tracked EXCEPT ![Top.on] = accessed]
        /\ tracked \in [Windows -> SUBSET Views]
    BY <1>2 DEF DrawDone, Track, Sound, TypeOK
  <2>4. \A w \in Windows : tracked'[w] = IF w = Top.on THEN accessed ELSE tracked[w]
    BY <2>2, <2>3
  <2>5. \A v \in Views : trackers'[v] = IF v \in accessed THEN trackers[v] \cup {Top.on}
                                        ELSE trackers[v] \ {Top.on}
    BY <2>2, <2>3 DEF TrackersAgree
  <2>6. ASSUME NEW v \in Views, NEW w \in Windows
        PROVE  w \in trackers'[v] <=> v \in tracked'[w]
    <3>1. w \in trackers[v] <=> v \in tracked[w]
      BY DEF TrackersAgree
    <3>2. CASE w = Top.on
      BY <2>4, <2>5, <3>2
    <3>3. CASE w # Top.on
      BY <2>4, <2>5, <3>1, <3>3
    <3> QED
      BY <3>2, <3>3
  <2> QED
    BY <2>6 DEF TrackersAgree
<1>3. CASE UNCHANGED vars
  BY <1>1, <1>3 DEF vars, trackVars
<1>4. CASE Next
  <2>1. \/ RequestAnimationFrame \/ RefreshWindows
        \/ \E v \in Views : Notify(v) \/ Access(v) \/ Render(v) \/ Reuse(v)
        \/ \E w \in Windows : \E vs \in FocusesOf(w) : MoveFocus(w, vs)
        \/ \E w \in Windows : Refresh(w) \/ OpenWindow(w) \/ RequestFrame(w) \/ DrawOpen(w)
        \/ PresentFrame \/ ApplyRefresh \/ ViewDone \/ Paint \/ DrawDone
    BY <1>4, Steps
  <2> SUFFICES ASSUME ~DrawDone PROVE UNCHANGED <<tracked, trackers>>
    BY <1>1, <1>2
  <2>2. (RequestAnimationFrame \/ RefreshWindows) => UNCHANGED <<tracked, trackers>>
    BY DEF RequestAnimationFrame, RefreshWindows, trackVars
  <2>3. \A v \in Views : Notify(v) \/ Access(v) => UNCHANGED <<tracked, trackers>>
    BY DEF Notify, Access, trackVars
  <2>4. \A v \in Views : Render(v) \/ Reuse(v) => UNCHANGED <<tracked, trackers>>
    BY DEF Render, Reuse, Recycle
  <2>5. \A w, vs : MoveFocus(w, vs) => UNCHANGED <<tracked, trackers>>
    BY DEF MoveFocus, SetFocus, trackVars
  <2>6. \A w \in Windows : Refresh(w) \/ OpenWindow(w) \/ RequestFrame(w) \/ DrawOpen(w)
                             => UNCHANGED <<tracked, trackers>>
    BY DEF Refresh, OpenWindow, RequestFrame, Request, DrawOpen, Redraw, trackVars
  <2>7. (PresentFrame \/ ApplyRefresh) => UNCHANGED <<tracked, trackers>>
    BY DEF PresentFrame, EndRequest, ApplyRefresh, trackVars
  <2>8. (ViewDone \/ Paint) => UNCHANGED <<tracked, trackers>>
    BY DEF ViewDone, EndView, Paint, trackVars
  <2> QED
    BY <2>1, <2>2, <2>3, <2>4, <2>5, <2>6, <2>7, <2>8
<1> QED
  BY <1>3, <1>4

\* Every variable has its type, whatever is drawn inside what; and the two
\* tables of record_entities_accessed are each other's inverse: a notify
\* reaches exactly the windows whose last draw accessed the entity.
THEOREM AlwaysConsistent == Spec => []Consistent
<1>1. Init => TrackersAgree
  BY DEF Init, TrackersAgree
<1>2. Sound => TypeOK
  BY DEF Sound
<1>3. TypeOK /\ TrackersAgree => Consistent
  BY DEF Consistent
<1> QED
  BY <1>1, <1>2, <1>3, AlwaysSound, TrackersStep, PTL DEF Spec

------------------------------------------------------------------------------
(***************************************************************************)
(* What is being rendered.                                                 *)
(***************************************************************************)
\* A view is rendered inside the renderings of the views around it.
RendersWithin == \A i \in Renderings : \A u \in Around(stack[i].on) :
                   \E j \in Renderings : j <= i /\ stack[j].on = u

\* The elements of a window paint once all its views are rendered.
RendersInPrepaint == \A i \in Renderings : \E k \in Draws :
                       stack[k].on = Home(stack[i].on) /\ stack[k].step = "prepaint"

\* A cached view that is rendered makes its window refresh until it is done.
RefreshHeld ==
  /\ \A i \in Renderings : stack[i].was \/ stack[i].on \in Cached
                             => Home(stack[i].on) \in refreshing
  /\ \A i, j \in Renderings :
       /\ i < j /\ Home(stack[i].on) = Home(stack[j].on)
       /\ stack[i].was \/ stack[i].on \in Cached
       => stack[j].was

RenderingsOK == RendersWithin /\ RendersInPrepaint /\ RefreshHeld

\* A draw with no call above it has no view left to finish.
LEMMA NoneAbove ==
  ASSUME Sound, Len(stack) \in Draws, NEW i \in Renderings
  PROVE  Home(stack[i].on) # stack[Len(stack)].on
<1>1. PICK k \in Draws : k < i /\ stack[k].on = Home(stack[i].on)
  BY DEF Sound, Shape, RendersInDraw
<1>2. i \in 1 .. Len(stack) /\ k \in 1 .. Len(stack) /\ Len(stack) \in Nat
  BY StackOf DEF Sound, TypeOK, Renderings, Draws
<1>3. k # Len(stack)
  BY <1>1, <1>2
<1> QED
  BY <1>1, <1>3 DEF Sound, Shape, DrawsOnce

\* A step that renders nothing: the renderings stay, in their draws.
Carries ==
  /\ Renderings' = Renderings
  /\ \A i \in Renderings : /\ stack'[i].on = stack[i].on /\ stack'[i].was = stack[i].was
                           /\ stack'[i].before = stack[i].before
                           /\ stack'[i].seen = stack[i].seen
  /\ \A k \in Draws : (\E i \in Renderings : stack[k].on = Home(stack[i].on))
                        => /\ k \in Draws' /\ stack'[k].on = stack[k].on
                           /\ stack'[k].step = stack[k].step

LEMMA QuietCarries == ASSUME UNCHANGED stack PROVE Carries
BY DEF Carries, Renderings, Draws

LEMMA RequestCarries ==
  ASSUME Sound, NEW w \in Windows, RequestFrame(w)
  PROVE  Carries /\ Draws = {} /\ Draws' = {} /\ Renderings = {} /\ drawing = {}
<1>1. Request(w, {v \in callbacks : Home(v) = w})
  BY DEF RequestFrame
<1>2. /\ stack = <<>> /\ w \in open /\ stack' = <<[op |-> "request", on |-> w]>>
      /\ UNCHANGED <<open, drawing, shown, nextFrame>>
  BY <1>1 DEF Request, drawVars
<1>3. Draws = {} /\ Renderings = {} /\ Draws' = {} /\ Renderings' = {} /\ drawing = {}
  BY <1>2, IdleStep
<1> QED
  BY <1>3 DEF Carries

LEMMA PresentCarries ==
  ASSUME Sound, PresentFrame
  PROVE  Carries /\ Draws = {} /\ Draws' = {} /\ Renderings = {}
<1>1. EndRequest /\ Running("request")
  BY DEF PresentFrame, EndRequest
<1>2. Top.on \in open /\ stack = <<[op |-> "request", on |-> Top.on]>>
  BY <1>1, Requested
<1>3. stack' = <<>> /\ UNCHANGED <<open, drawing, shown, nextFrame>>
  BY <1>1 DEF EndRequest
<1>4. Draws = {} /\ Renderings = {} /\ Draws' = {} /\ Renderings' = {}
  BY <1>2, <1>3, IdleStep
<1> QED
  BY <1>4 DEF Carries

LEMMA DrawCarries ==
  ASSUME Sound, NEW w \in Windows, BeginDraw(w, stack)
  PROVE  Carries
<1>1. /\ \A i \in DOMAIN stack : stack'[i] = stack[i]
      /\ Draws' = Draws \cup {Len(stack) + 1} /\ Renderings' = Renderings
  BY DrawStack
<1>2. Draws \subseteq DOMAIN stack /\ Renderings \subseteq DOMAIN stack
  BY DEF Draws, Renderings
<1> QED
  BY <1>1, <1>2 DEF Carries

LEMMA ReuseCarries ==
  ASSUME Sound, NEW v \in Views, Reuse(v)
  PROVE  Carries
<1>1. /\ \A i \in DOMAIN stack : GoesOn(stack[i], stack'[i])
      /\ Draws' = Draws /\ Renderings' = Renderings
  BY ReuseStack
<1>2. Draws \subseteq DOMAIN stack /\ Renderings \subseteq DOMAIN stack
  BY DEF Draws, Renderings
<1> QED
  BY <1>1, <1>2 DEF Carries, GoesOn, Draws, Renderings

LEMMA PaintCarries ==
  ASSUME Sound, Paint
  PROVE  Carries
<1>1. /\ Len(stack) \in Draws
      /\ \A i \in DOMAIN stack : i # Len(stack) => stack'[i] = stack[i]
      /\ Draws' = Draws /\ Renderings' = Renderings
  BY PaintStack
<1>2. Draws \subseteq DOMAIN stack /\ Renderings \subseteq DOMAIN stack
  BY DEF Draws, Renderings
<1>3. \A i \in Renderings : i # Len(stack)
  BY <1>1 DEF Draws, Renderings
<1> QED
  BY <1>1, <1>2, <1>3, NoneAbove DEF Carries

LEMMA DrawDoneCarries ==
  ASSUME Sound, DrawDone
  PROVE  Carries
<1>1. /\ Len(stack) \in Draws
      /\ \A i \in DOMAIN stack' : stack'[i] = stack[i]
      /\ Draws' = Draws \ {Len(stack)} /\ Renderings' = Renderings
  BY DrawDoneStack
<1>2. Draws' \subseteq DOMAIN stack' /\ Renderings' \subseteq DOMAIN stack'
  BY DEF Draws, Renderings
<1> QED
  BY <1>1, <1>2, NoneAbove DEF Carries

LEMMA CarriedRenderings ==
  ASSUME Sound, RenderingsOK, Carries,
         \A i \in Renderings : Home(stack[i].on) \in refreshing => Home(stack[i].on) \in refreshing'
  PROVE  RenderingsOK'
<1>1. /\ Renderings' = Renderings
      /\ \A i \in Renderings : stack'[i].on = stack[i].on /\ stack'[i].was = stack[i].was
      /\ \A k \in Draws : (\E i \in Renderings : stack[k].on = Home(stack[i].on))
                            => /\ k \in Draws' /\ stack'[k].on = stack[k].on
                               /\ stack'[k].step = stack[k].step
  BY DEF Carries
<1>2. RendersWithin'
  BY <1>1 DEF RenderingsOK, RendersWithin
<1>3. RendersInPrepaint'
  BY <1>1 DEF RenderingsOK, RendersInPrepaint
<1>4. RefreshHeld'
  BY <1>1 DEF RenderingsOK, RefreshHeld
<1> QED
  BY <1>2, <1>3, <1>4 DEF RenderingsOK

LEMMA RenderRenderings ==
  ASSUME Sound, RenderingsOK, NEW v \in Views, Render(v)
  PROVE  RenderingsOK'
<1> DEFINE n == Len(stack)
           w == Home(v)
<1>1. /\ n \in Nat
      /\ \A i \in DOMAIN stack : GoesOn(stack[i], stack'[i])
      /\ Draws' = Draws /\ Renderings' = Renderings \cup {n + 1}
      /\ stack'[n + 1].on = v /\ stack'[n + 1].was = (w \in refreshing)
  BY RenderStack
<1>2. /\ n \in Draws \cup Renderings
      /\ n \in Draws => /\ stack[n].on = w /\ stack[n].step = "prepaint" /\ Around(v) = {v}
      /\ n \in Renderings => /\ Home(stack[n].on) = w
                             /\ Around(v) = Around(stack[n].on) \cup {v}
  <2>1. Shows(v)
    BY DEF Render
  <2> QED
    BY <2>1, Showing
<1>3. refreshing' = IF v \in Cached THEN refreshing \cup {w} ELSE refreshing
  BY DEF Render
<1>4. /\ Draws \subseteq DOMAIN stack /\ Renderings \subseteq DOMAIN stack
      /\ DOMAIN stack = 1 .. n
  BY StackOf DEF Draws, Renderings, Sound, TypeOK
<1>5. /\ \A i \in Renderings : stack'[i].on = stack[i].on /\ stack'[i].was = stack[i].was
      /\ \A k \in Draws : stack'[k].on = stack[k].on /\ stack'[k].step = stack[k].step
  BY <1>1, <1>4 DEF GoesOn, Draws, Renderings
<1>6. RendersWithin'
  <2>1. \A i \in Renderings : \A u \in Around(stack'[i].on) :
          \E j \in Renderings : j <= i /\ stack'[j].on = u
    BY <1>5 DEF RenderingsOK, RendersWithin
  <2>2. ASSUME NEW u \in Around(v)
        PROVE  \E j \in Renderings \cup {n + 1} : j <= n + 1 /\ stack'[j].on = u
    <3>1. CASE u = v
      BY <1>1, <3>1
    <3>2. CASE u # v
      <4>1. n \in Renderings /\ u \in Around(stack'[n].on)
        BY <1>2, <1>5, <3>2
      <4>2. PICK j \in Renderings : j <= n /\ stack'[j].on = u
        BY <2>1, <4>1
      <4>3. j <= n + 1
        BY <1>4, <4>2
      <4> QED
        BY <4>2, <4>3
    <3> QED
      BY <3>1, <3>2
  <2> QED
    BY <1>1, <2>1, <2>2 DEF RendersWithin
<1>7. RendersInPrepaint'
  <2>1. \A i \in Renderings : \E k \in Draws :
          stack'[k].on = Home(stack'[i].on) /\ stack'[k].step = "prepaint"
    BY <1>5 DEF RenderingsOK, RendersInPrepaint
  <2>2. \E k \in Draws : stack'[k].on = w /\ stack'[k].step = "prepaint"
    <3>1. CASE n \in Draws
      BY <1>2, <1>5, <3>1
    <3>2. CASE n \in Renderings
      BY <1>2, <1>5, <2>1, <3>2
    <3> QED
      BY <1>2, <3>1, <3>2
  <2> QED
    BY <1>1, <2>1, <2>2 DEF RendersInPrepaint
<1>8. RefreshHeld'
  <2>1. \A i \in Renderings' : stack'[i].was \/ stack'[i].on \in Cached
                                 => Home(stack'[i].on) \in refreshing'
    <3>1. \A i \in Renderings : stack'[i].was \/ stack'[i].on \in Cached
                                  => Home(stack'[i].on) \in refreshing'
      BY <1>3, <1>5 DEF RenderingsOK, RefreshHeld
    <3> QED
      BY <1>1, <1>3, <3>1
  <2>2. ASSUME NEW i \in Renderings', NEW j \in Renderings', i < j,
               Home(stack'[i].on) = Home(stack'[j].on),
               stack'[i].was \/ stack'[i].on \in Cached
        PROVE  stack'[j].was
    <3>1. i \in Renderings
      <4>1. j \in 1 .. n + 1 /\ n \in Nat
        BY <1>1, <1>4
      <4>2. i # n + 1
        BY <2>2, <4>1
      <4> QED
        BY <1>1, <4>2
    <3>2. CASE j \in Renderings
      BY <1>5, <2>2, <3>1, <3>2 DEF RenderingsOK, RefreshHeld
    <3>3. CASE j = n + 1
      BY <1>1, <1>5, <2>2, <3>1, <3>3 DEF RenderingsOK, RefreshHeld
    <3> QED
      BY <1>1, <3>2, <3>3
  <2> QED
    BY <2>1, <2>2 DEF RefreshHeld
<1> QED
  BY <1>6, <1>7, <1>8 DEF RenderingsOK

LEMMA ViewDoneRenderings ==
  ASSUME Sound, RenderingsOK, ViewDone
  PROVE  RenderingsOK'
<1> DEFINE n == Len(stack)
<1>1. /\ n \in Nat \ {0} /\ DOMAIN stack = 1 .. n
      /\ n \in Renderings /\ Top = stack[n]
      /\ Draws' = Draws /\ Renderings' = Renderings \ {n}
      /\ \A i \in DOMAIN stack' : stack'[i] = stack[i]
  BY ViewDoneStack
<1>2. refreshing' = IF Top.was THEN refreshing ELSE refreshing \ {Home(Top.on)}
  BY DEF ViewDone, EndView
<1>3. Draws' \subseteq DOMAIN stack' /\ Renderings' \subseteq DOMAIN stack'
  BY DEF Draws, Renderings
<1>4. \A i \in Draws' \cup Renderings' : stack'[i] = stack[i]
  BY <1>1, <1>3
<1>5. ASSUME NEW i \in Renderings'
      PROVE  i \in Renderings /\ i < n
  <2>1. i \in Renderings /\ i # n
    BY <1>1
  <2>2. i \in 1 .. n /\ n \in Nat
    BY <1>1, <2>1 DEF Renderings
  <2>3. i < n
    BY <2>1, <2>2
  <2> QED
    BY <2>1, <2>3
<1>6. RendersWithin'
  <2> SUFFICES ASSUME NEW i \in Renderings', NEW u \in Around(stack[i].on)
               PROVE  \E j \in Renderings' : j <= i /\ stack[j].on = u
    BY <1>4 DEF RendersWithin
  <2>1. PICK j \in Renderings : j <= i /\ stack[j].on = u
    BY <1>5 DEF RenderingsOK, RendersWithin
  <2>2. j # n
    <3>1. i \in 1 .. n /\ j \in 1 .. n /\ n \in Nat
      BY <1>1, <1>5 DEF Renderings
    <3> QED
      BY <1>5, <2>1, <3>1
  <2> QED
    BY <1>1, <2>1, <2>2
<1>7. RendersInPrepaint'
  BY <1>1, <1>4, <1>5 DEF RenderingsOK, RendersInPrepaint
<1>8. RefreshHeld'
  <2>1. ASSUME NEW i \in Renderings', stack'[i].was \/ stack'[i].on \in Cached
        PROVE  Home(stack'[i].on) \in refreshing'
    <3>1. Home(stack[i].on) \in refreshing
      BY <1>4, <1>5, <2>1 DEF RenderingsOK, RefreshHeld
    <3>2. Home(stack[i].on) = Home(stack[n].on) => stack[n].was
      BY <1>1, <1>4, <1>5, <2>1 DEF RenderingsOK, RefreshHeld
    <3> QED
      BY <1>1, <1>2, <1>4, <3>1, <3>2
  <2>2. ASSUME NEW i \in Renderings', NEW j \in Renderings', i < j,
               Home(stack'[i].on) = Home(stack'[j].on),
               stack'[i].was \/ stack'[i].on \in Cached
        PROVE  stack'[j].was
    BY <1>4, <1>5, <2>2 DEF RenderingsOK, RefreshHeld
  <2> QED
    BY <2>1, <2>2 DEF RefreshHeld
<1> QED
  BY <1>6, <1>7, <1>8 DEF RenderingsOK

------------------------------------------------------------------------------
(***************************************************************************)
(* What a window has accessed, and what its cached views say they did.     *)
(***************************************************************************)
\* A cached view that no cached view is around: only such a one is recycled.
Outer(u) == u \in Cached /\ Around(u) \cap Cached = {u}

\* What a cached view has recorded holds the views inside it that the frame
\* shows, but for those it has lost.
CacheFilled ==
  \A u \in Views : Outer(u) =>
    \A x \in Inside(u) \ lost :
      \/ x \in cache[u]
      \/ IF u \in nextFrame[Home(u)] THEN u \in InRendering \/ x \notin nextFrame[Home(u)]
         ELSE x \notin shown[Home(u)]

\* So it will when its rendering is done.
AccessedInside ==
  \A i \in Renderings : Outer(stack[i].on) =>
    \A x \in (Inside(stack[i].on) \cap nextFrame[Home(stack[i].on)]) \ lost :
      x \notin stack[i].before

SeenBefore ==
  \A i, j \in Renderings : Outer(stack[i].on) /\ stack[i].on \in Around(stack[j].on)
                             => stack[j].seen = stack[i].before

\* What a window shows it tracks, or is about to.
KeepsTrack ==
  \A w \in Windows : IF w \in drawing THEN nextFrame[w] \ lost \subseteq accessed
                           ELSE shown[w] \ lost \subseteq tracked[w]

Accounted == CacheFilled /\ AccessedInside /\ SeenBefore /\ KeepsTrack

LEMMA CarriesRendering ==
  ASSUME Carries
  PROVE  InRendering' = InRendering
BY DEF Carries, InRendering

LEMMA CarriedAccounts ==
  ASSUME Accounted, Carries,
         UNCHANGED <<shown, nextFrame, cache, lost, drawing, tracked>>,
         accessed \subseteq accessed'
  PROVE  Accounted'
<1>1. /\ Renderings' = Renderings /\ InRendering' = InRendering
      /\ \A i \in Renderings : /\ stack'[i].on = stack[i].on
                               /\ stack'[i].before = stack[i].before
                               /\ stack'[i].seen = stack[i].seen
  BY CarriesRendering DEF Carries
<1>2. CacheFilled'
  BY <1>1 DEF Accounted, CacheFilled
<1>3. AccessedInside'
  BY <1>1 DEF Accounted, AccessedInside
<1>4. SeenBefore'
  BY <1>1 DEF Accounted, SeenBefore
<1>5. KeepsTrack'
  BY DEF Accounted, KeepsTrack
<1> QED
  BY <1>2, <1>3, <1>4, <1>5 DEF Accounted

LEMMA DrawAccounts ==
  ASSUME Sound, Accounted, NEW w \in Windows \ drawing, BeginDraw(w, stack),
         UNCHANGED <<shown, cache, tracked>>,
         lost' = lost \cup UNION {nextFrame[u] : u \in drawing}
  PROVE  Accounted'
<1>1. Carries
  BY DrawCarries
<1>2. /\ Renderings' = Renderings /\ InRendering' = InRendering
      /\ \A i \in Renderings : /\ stack'[i].on = stack[i].on
                               /\ stack'[i].before = stack[i].before
                               /\ stack'[i].seen = stack[i].seen
  BY <1>1, CarriesRendering DEF Carries
<1>3. nextFrame' = nextFrame /\ drawing' = drawing \cup {w} /\ nextFrame[w] = {}
  BY DEF BeginDraw, Sound, TypeOK
<1>4. lost \subseteq lost' /\ \A u \in drawing : nextFrame[u] \subseteq lost'
  OBVIOUS
<1>5. CacheFilled'
  BY <1>2, <1>3, <1>4 DEF Accounted, CacheFilled
<1>6. AccessedInside'
  BY <1>2, <1>3, <1>4 DEF Accounted, AccessedInside
<1>7. SeenBefore'
  BY <1>2 DEF Accounted, SeenBefore
<1>8. KeepsTrack'
  BY <1>3, <1>4 DEF Accounted, KeepsTrack
<1> QED
  BY <1>5, <1>6, <1>7, <1>8 DEF Accounted

\* The views of a rendering, and those around them, are in the next frame.
LEMMA RenderedIn ==
  ASSUME Sound, NEW i \in Renderings
  PROVE  /\ stack[i].on \in nextFrame[Home(stack[i].on)]
         /\ Around(stack[i].on) \subseteq nextFrame[Home(stack[i].on)]
         /\ stack[i].on \in InRendering
<1>1. Home(stack[i].on) \in Windows
  BY RenderedInDraw
<1>2. stack[i].on \in nextFrame[Home(stack[i].on)]
  BY DEF Sound, FramesOK, RendersNew
<1> QED
  BY <1>1, <1>2 DEF Sound, FramesOK, Closed, InRendering

LEMMA RenderAccounts ==
  ASSUME Sound, RenderingsOK, Accounted, NEW v \in Views, Render(v)
  PROVE  Accounted'
<1> DEFINE n == Len(stack)
           w == Home(v)
           f == stack'[n + 1]
<1>1. /\ n \in Nat
      /\ \A i \in DOMAIN stack : GoesOn(stack[i], stack'[i])
      /\ Renderings' = Renderings \cup {n + 1}
      /\ f.on = v /\ f.before = accessed
      /\ f.seen = IF (Around(v) \cap Cached) \ {v} # {} THEN Top.seen
                  ELSE IF v \in Cached THEN accessed ELSE {}
  BY RenderStack
<1>2. /\ n \in Draws \cup Renderings /\ stack # <<>>
      /\ Home(v) \in drawing /\ w \in Windows
      /\ n \in Draws => Around(v) = {v}
      /\ n \in Renderings => /\ stack[n].on \in Views /\ Home(stack[n].on) = w
                             /\ Around(v) = Around(stack[n].on) \cup {v}
      /\ Inside(v) \cap nextFrame[w] = {}
  <2>1. Shows(v)
    BY DEF Render
  <2> QED
    BY <2>1, Showing
<1>3. /\ nextFrame' = [nextFrame EXCEPT ![w] = @ \cup {v}]
      /\ nextFrame \in [Windows -> SUBSET Views]
      /\ accessed' = accessed \cup {v}
      /\ lost' = IF v \in stack'[Len(stack')].seen THEN lost \cup {v} ELSE lost \ {v}
      /\ UNCHANGED <<drawing, shown, cache, tracked>>
  BY DEF Render, Sound, TypeOK
<1>4. Len(stack') = n + 1 /\ stack'[Len(stack')] = f
  BY RenderStack
<1>5. \A u \in Windows : nextFrame'[u] = IF u = w THEN nextFrame[u] \cup {v} ELSE nextFrame[u]
  BY <1>2, <1>3
<1>6. \A x : x # v => (x \in lost' <=> x \in lost)
  BY <1>3
<1>7. v \notin lost' => v \notin f.seen
  BY <1>3, <1>4
<1>8. v \notin nextFrame[w] /\ v \in Inside(v)
  BY <1>2, PathOf
<1>9. /\ Renderings \subseteq DOMAIN stack /\ n \in DOMAIN stack /\ Top = stack[n]
      /\ n + 1 \notin Renderings
  <2>1. Renderings \subseteq DOMAIN stack /\ DOMAIN stack = 1 .. n /\ n \in Nat
    BY StackOf DEF Renderings, Sound, TypeOK
  <2>2. n + 1 \notin 1 .. n
    BY <2>1
  <2> QED
    BY <1>2, <2>1, <2>2, TopAndUnder DEF Sound, TypeOK
<1>10. \A i \in Renderings : /\ stack'[i].on = stack[i].on /\ stack'[i].before = stack[i].before
                             /\ stack'[i].seen = stack[i].seen
  BY <1>1, <1>9 DEF GoesOn, Renderings
<1>11. InRendering' = InRendering \cup {v}
  BY <1>1, <1>10 DEF InRendering
<1>12. \A i \in Renderings : v \notin Around(stack[i].on)
  BY <1>2, <1>8, RenderedIn, RenderedInDraw, AroundAround
<1>13. CacheFilled'
  <2> SUFFICES ASSUME NEW u \in Views, Outer(u),
                      NEW x \in Inside(u), x \notin lost'
               PROVE  \/ x \in cache[u]
                      \/ IF u \in nextFrame'[Home(u)]
                         THEN u \in InRendering \cup {v} \/ x \notin nextFrame'[Home(u)]
                         ELSE x \notin shown[Home(u)]
    BY <1>3, <1>11 DEF CacheFilled
  <2>1. CASE u = v
    BY <1>2, <1>5, <2>1
  <2>2. CASE u # v /\ x = v
    <3>1. u \in Around(v) /\ u \in Around(stack[n].on) /\ n \in Renderings
      BY <1>2, <2>2, InsideOf
    <3>2. u \in InRendering
      BY <3>1 DEF RenderingsOK, RendersWithin, InRendering
    <3>3. Home(u) = w /\ u \in nextFrame[w]
      BY <1>2, <3>1, AroundAround, RenderedIn
    <3> QED
      BY <1>2, <1>5, <3>2, <3>3
  <2>3. CASE u # v /\ x # v
    <3>1. Home(u) \in Windows
      BY PathOf
    <3>2. /\ u \in nextFrame'[Home(u)] <=> u \in nextFrame[Home(u)]
          /\ x \in nextFrame'[Home(u)] <=> x \in nextFrame[Home(u)]
      BY <1>5, <2>3, <3>1
    <3>3. x \notin lost
      BY <1>6, <2>3
    <3> QED
      BY <3>2, <3>3 DEF Accounted, CacheFilled
  <2> QED
    BY <2>1, <2>2, <2>3
<1>14. SeenBefore'
  <2>1. ASSUME Outer(v)
        PROVE  f.seen = f.before
    BY <1>1, <2>1 DEF Outer
  <2>2. ASSUME NEW i \in Renderings, Outer(stack[i].on), stack[i].on \in Around(v)
        PROVE  f.seen = stack[i].before
    <3>1. stack[i].on # v
      BY <1>12, RenderedInDraw, PathOf
    <3>2. n \in Renderings /\ stack[i].on \in Around(stack[n].on)
      BY <1>2, <2>2, <3>1
    <3>3. stack[n].seen = stack[i].before
      BY <2>2, <3>2 DEF Accounted, SeenBefore
    <3>4. (Around(v) \cap Cached) \ {v} # {}
      BY <2>2, <3>1 DEF Outer
    <3> QED
      BY <1>1, <1>9, <3>3, <3>4
  <2>3. ASSUME NEW i \in Renderings', NEW j \in Renderings', Outer(stack'[i].on),
               stack'[i].on \in Around(stack'[j].on)
        PROVE  stack'[j].seen = stack'[i].before
    <3>1. CASE i \in Renderings /\ j \in Renderings
      BY <1>10, <2>3, <3>1 DEF Accounted, SeenBefore
    <3>2. CASE i \in Renderings /\ j = n + 1
      BY <1>1, <1>10, <2>2, <2>3, <3>2
    <3>3. CASE i = n + 1 /\ j \in Renderings
      BY <1>1, <1>10, <1>12, <2>3, <3>3
    <3>4. CASE i = n + 1 /\ j = n + 1
      BY <1>1, <2>1, <2>3, <3>4
    <3> QED
      BY <1>1, <3>1, <3>2, <3>3, <3>4
  <2> QED
    BY <2>3 DEF SeenBefore
<1>15. AccessedInside'
  <2>1. ASSUME NEW i \in Renderings, Outer(stack[i].on),
               NEW x \in Inside(stack[i].on) \cap nextFrame'[Home(stack[i].on)], x \notin lost'
        PROVE  x \notin stack[i].before
    <3>1. stack[i].on \in Views /\ Home(stack[i].on) \in Windows
      BY RenderedInDraw
    <3>2. CASE x = v
      <4>1. stack[i].on \in Around(v)
        BY <3>1, <3>2, InsideOf
      <4>2. f.seen = stack[i].before
        BY <1>1, <1>10, <1>14, <2>1, <4>1 DEF SeenBefore
      <4> QED
        BY <1>7, <2>1, <3>2, <4>2
    <3>3. CASE x # v
      <4>1. x \notin lost /\ x \in nextFrame[Home(stack[i].on)]
        BY <1>5, <1>6, <2>1, <3>1, <3>3
      <4> QED
        BY <2>1, <4>1 DEF Accounted, AccessedInside
    <3> QED
      BY <3>2, <3>3
  <2>2. ASSUME Outer(v), NEW x \in Inside(v) \cap nextFrame'[w], x \notin lost'
        PROVE  x \notin f.before
    <3>1. x = v
      <4>1. x \in nextFrame[w] \cup {v} /\ x \in Inside(v)
        BY <1>2, <1>5, <2>2
      <4> QED
        BY <1>2, <4>1
    <3>2. f.seen = f.before
      BY <1>1, <2>2 DEF Outer
    <3> QED
      BY <1>7, <2>2, <3>1, <3>2
  <2>3. ASSUME NEW i \in Renderings', Outer(stack'[i].on),
               NEW x \in (Inside(stack'[i].on) \cap nextFrame'[Home(stack'[i].on)]) \ lost'
        PROVE  x \notin stack'[i].before
    <3>1. CASE i \in Renderings
      BY <1>3, <1>10, <2>1, <2>3, <3>1
    <3>2. CASE i = n + 1
      BY <1>1, <1>3, <2>2, <2>3, <3>2
    <3> QED
      BY <1>1, <3>1, <3>2
  <2> QED
    BY <2>3 DEF AccessedInside
<1>16. KeepsTrack'
  <2> SUFFICES ASSUME NEW u \in Windows
               PROVE  IF u \in drawing THEN nextFrame'[u] \ lost' \subseteq accessed \cup {v}
                      ELSE shown[u] \ lost' \subseteq tracked[u]
    BY <1>3 DEF KeepsTrack
  <2>1. CASE u \in drawing
    BY <1>5, <1>6, <2>1 DEF Accounted, KeepsTrack
  <2>2. CASE u \notin drawing
    <3>1. v \notin shown[u]
      BY <1>2, <2>2 DEF Sound, FramesOK, Closed
    <3> QED
      BY <1>6, <2>2, <3>1 DEF Accounted, KeepsTrack
  <2> QED
    BY <2>1, <2>2
<1> QED
  BY <1>13, <1>14, <1>15, <1>16 DEF Accounted


\* A cached view that is recycled has no cached view around it: inside the
\* rendering of one its window refreshes.
LEMMA ReusedIsOuter ==
  ASSUME Sound, RenderingsOK, NEW v \in Views, Reuse(v)
  PROVE  /\ Outer(v)
         /\ \A i \in Renderings : Home(stack[i].on) = Home(v) =>
              stack[i].on \notin Cached /\ ~stack[i].was
<1> DEFINE n == Len(stack)
           w == Home(v)
<1>1. Shows(v) /\ v \in Cached /\ w \notin refreshing
  BY DEF Reuse, Recycle
<1>2. /\ n \in Draws \cup Renderings
      /\ n \in Draws => Around(v) = {v}
      /\ n \in Renderings => /\ stack[n].on \in Views /\ Home(stack[n].on) = w
                             /\ Around(v) = Around(stack[n].on) \cup {v}
  BY <1>1, Showing
<1>3. \A i \in Renderings : Home(stack[i].on) = w => stack[i].on \notin Cached /\ ~stack[i].was
  <2>1. \A i \in Renderings : stack[i].was \in BOOLEAN
    BY FrameAt DEF Sound, TypeOK, Renderings
  <2> QED
    BY <1>1, <2>1 DEF RenderingsOK, RefreshHeld
<1>4. ASSUME NEW u \in Around(v) \cap Cached, u # v
      PROVE  FALSE
  <2>1. n \in Renderings /\ u \in Around(stack[n].on)
    BY <1>2, <1>4
  <2>2. PICK j \in Renderings : stack[j].on = u
    BY <2>1 DEF RenderingsOK, RendersWithin
  <2>3. Home(u) = w
    BY <1>4, AroundAround
  <2> QED
    BY <1>3, <1>4, <2>2, <2>3
<1>5. v \in Around(v)
  BY PathOf
<1> QED
  BY <1>1, <1>3, <1>4, <1>5 DEF Outer

LEMMA ReuseAccounts ==
  ASSUME Sound, RenderingsOK, Accounted, NEW v \in Views, Reuse(v)
  PROVE  Accounted'
<1> DEFINE w == Home(v)
<1>1. /\ Outer(v)
      /\ \A i \in Renderings : Home(stack[i].on) = w => stack[i].on \notin Cached /\ ~stack[i].was
  BY ReusedIsOuter
<1>2. /\ w \in drawing /\ w \in Windows
      /\ Inside(v) \cap nextFrame[w] = {}
  <2>1. Shows(v)
    BY DEF Reuse, Recycle
  <2> QED
    BY <2>1, Showing
<1>3. /\ nextFrame' = [nextFrame EXCEPT ![w] = @ \cup (Inside(v) \cap shown[w])]
      /\ nextFrame \in [Windows -> SUBSET Views]
      /\ accessed' = accessed \cup cache[v]
      /\ UNCHANGED <<drawing, shown, cache, lost, tracked>>
  BY DEF Reuse, Recycle, auxVars, Sound, TypeOK
<1>4. \A u \in Windows : nextFrame'[u] = IF u = w THEN nextFrame[u] \cup (Inside(v) \cap shown[w])
                                         ELSE nextFrame[u]
  BY <1>2, <1>3
<1>5. /\ Renderings' = Renderings /\ InRendering' = InRendering
      /\ \A i \in Renderings : /\ stack'[i].on = stack[i].on
                               /\ stack'[i].before = stack[i].before
                               /\ stack'[i].seen = stack[i].seen
  BY ReuseCarries, CarriesRendering DEF Carries
<1>6. v \in Inside(v) /\ v \notin nextFrame[w]
  BY <1>2, PathOf
<1>7. (Inside(v) \cap shown[w]) \ lost \subseteq cache[v]
  BY <1>1, <1>2, <1>6 DEF Accounted, CacheFilled
\* Of two such views, neither is around the other.
<1>8. ASSUME NEW u \in Views, Outer(u), u # v, NEW x \in Inside(u)
      PROVE  x \notin Inside(v)
  <2> SUFFICES ASSUME x \in Inside(v) PROVE FALSE
    OBVIOUS
  <2>1. x \in Views /\ u \in Around(x) /\ v \in Around(x)
    BY <1>8, InsideOf
  <2>2. u \in Around(v) \/ v \in Around(u)
    BY <2>1, AroundLine
  <2> QED
    BY <1>1, <1>8, <2>2 DEF Outer
<1>9. CacheFilled'
  <2> SUFFICES ASSUME NEW u \in Views, Outer(u),
                      NEW x \in Inside(u), x \notin lost, x \notin cache[u]
               PROVE  IF u \in nextFrame'[Home(u)]
                      THEN u \in InRendering \/ x \notin nextFrame'[Home(u)]
                      ELSE x \notin shown[Home(u)]
    BY <1>3, <1>5 DEF CacheFilled
  <2>1. IF u \in nextFrame[Home(u)]
        THEN u \in InRendering \/ x \notin nextFrame[Home(u)]
        ELSE x \notin shown[Home(u)]
    BY DEF Accounted, CacheFilled
  <2>2. Home(u) \in Windows /\ u \in Inside(u)
    BY PathOf
  <2>3. CASE u = v
    BY <1>2, <1>4, <1>6, <2>1, <2>2, <2>3
  <2>4. CASE u # v
    <3>1. u \notin Inside(v) /\ x \notin Inside(v)
      BY <1>8, <2>2, <2>4
    <3> QED
      BY <1>4, <2>1, <2>2, <3>1
  <2> QED
    BY <2>3, <2>4
<1>10. AccessedInside'
  <2> SUFFICES ASSUME NEW i \in Renderings, Outer(stack[i].on),
                      NEW x \in Inside(stack[i].on) \cap nextFrame'[Home(stack[i].on)],
                      x \notin lost
               PROVE  x \notin stack[i].before
    BY <1>3, <1>5 DEF AccessedInside
  <2>1. Home(stack[i].on) # w
    BY <1>1 DEF Outer
  <2>2. Home(stack[i].on) \in Windows
    BY RenderedInDraw
  <2>3. x \in nextFrame[Home(stack[i].on)]
    BY <1>4, <2>1, <2>2
  <2> QED
    BY <2>3 DEF Accounted, AccessedInside
<1>11. SeenBefore'
  BY <1>5 DEF Accounted, SeenBefore
<1>12. KeepsTrack'
  <2> SUFFICES ASSUME NEW u \in Windows
               PROVE  IF u \in drawing THEN nextFrame'[u] \ lost \subseteq accessed \cup cache[v]
                      ELSE shown[u] \ lost \subseteq tracked[u]
    BY <1>3 DEF KeepsTrack
  <2>1. IF u \in drawing THEN nextFrame[u] \ lost \subseteq accessed
        ELSE shown[u] \ lost \subseteq tracked[u]
    BY DEF Accounted, KeepsTrack
  <2> QED
    BY <1>4, <1>7, <2>1
<1> QED
  BY <1>9, <1>10, <1>11, <1>12 DEF Accounted

LEMMA ViewDoneAccounts ==
  ASSUME Sound, Accounted, ViewDone
  PROVE  Accounted'
<1> DEFINE n == Len(stack)
           v == stack[n].on
           w == Home(v)
<1>1. /\ n \in Renderings /\ Top = stack[n]
      /\ Renderings' = Renderings \ {n} /\ \A i \in DOMAIN stack' : stack'[i] = stack[i]
  BY ViewDoneStack
<1>2. v \in Views /\ w \in drawing /\ w \in Windows /\ v \in nextFrame[w]
  BY <1>1, RenderedInDraw, RenderedIn
<1>3. /\ cache' = IF v \in Cached THEN [cache EXCEPT ![v] = accessed \ stack[n].before] ELSE cache
      /\ cache \in [Cached -> SUBSET Views]
      /\ UNCHANGED <<drawing, shown, nextFrame, lost, accessed, tracked>>
  BY <1>1 DEF ViewDone, EndView, trackVars, auxVars, Sound, TypeOK
<1>4. \A i \in Renderings' : i \in Renderings /\ stack'[i] = stack[i]
  BY <1>1 DEF Renderings
<1>5. InRendering' = InRendering \ {v}
  <2>1. \A i \in Renderings : stack[i].on = v => i = n
    BY <1>1 DEF Sound, FramesOK, RendersNew
  <2> QED
    BY <1>1, <1>4, <2>1 DEF InRendering
<1>6. CacheFilled'
  <2> SUFFICES ASSUME NEW u \in Views, Outer(u),
                      NEW x \in Inside(u), x \notin lost, x \notin cache'[u]
               PROVE  IF u \in nextFrame[Home(u)]
                      THEN u \in InRendering \ {v} \/ x \notin nextFrame[Home(u)]
                      ELSE x \notin shown[Home(u)]
    BY <1>3, <1>5 DEF CacheFilled
  <2>1. u \in Cached
    BY DEF Outer
  <2>2. CASE u # v
    <3>1. x \notin cache[u]
      BY <1>3, <2>1, <2>2
    <3> QED
      BY <2>2, <3>1 DEF Accounted, CacheFilled
  <2>3. CASE u = v
    <3>1. x \notin accessed \/ x \in stack[n].before
      BY <1>3, <2>1, <2>3
    <3>2. x \in nextFrame[w] => x \notin stack[n].before
      BY <1>1, <2>3 DEF Accounted, AccessedInside
    <3>3. x \in nextFrame[w] => x \in accessed
      BY <1>2, <2>3 DEF Accounted, KeepsTrack
    <3> QED
      BY <1>2, <2>3, <3>1, <3>2, <3>3
  <2> QED
    BY <2>2, <2>3
<1>7. AccessedInside'
  BY <1>3, <1>4 DEF Accounted, AccessedInside
<1>8. SeenBefore'
  BY <1>4 DEF Accounted, SeenBefore
<1>9. KeepsTrack'
  BY <1>3 DEF Accounted, KeepsTrack
<1> QED
  BY <1>6, <1>7, <1>8, <1>9 DEF Accounted

LEMMA DrawDoneAccounts ==
  ASSUME Sound, Accounted, DrawDone
  PROVE  Accounted'
<1> DEFINE n == Len(stack)
           w == stack[n].on
           gone == {v \in Views : Home(v) = w} \ nextFrame[w]
<1>1. n \in Draws /\ Top = stack[n]
  BY DrawDoneStack
<1>2. w \in drawing /\ w \in Windows
  BY <1>1, FrameAt DEF Sound, TypeOK, Shape, DrawsOnce, Draws
<1>3. /\ drawing' = drawing \ {w}
      /\ shown' = [shown EXCEPT ![w] = nextFrame[w]]
      /\ nextFrame' = [nextFrame EXCEPT ![w] = {}]
      /\ tracked' = [tracked EXCEPT ![w] = accessed]
      /\ accessed' = IF drawing = {w} THEN {} ELSE accessed
      /\ cache' = [v \in Cached |-> IF v \in gone THEN {} ELSE cache[v]]
      /\ lost' = lost \ gone
      /\ shown \in [Windows -> SUBSET Views] /\ nextFrame \in [Windows -> SUBSET Views]
      /\ tracked \in [Windows -> SUBSET Views]
  BY <1>1 DEF DrawDone, SwapFrames, Track, Sound, TypeOK
<1> HIDE DEF gone
<1>4. \A v \in Views : v \in gone <=> Home(v) = w /\ v \notin nextFrame[w]
  BY DEF gone
<1>5. /\ \A u \in Windows : /\ shown'[u] = IF u = w THEN nextFrame[u] ELSE shown[u]
                            /\ nextFrame'[u] = IF u = w THEN {} ELSE nextFrame[u]
                            /\ tracked'[u] = IF u = w THEN accessed ELSE tracked[u]
  BY <1>2, <1>3
<1>6. /\ Renderings' = Renderings /\ InRendering' = InRendering
      /\ \A i \in Renderings : /\ stack'[i].on = stack[i].on
                               /\ stack'[i].before = stack[i].before
                               /\ stack'[i].seen = stack[i].seen
  BY DrawDoneCarries, CarriesRendering DEF Carries
<1>7. \A i \in Renderings : Home(stack[i].on) # w
  BY <1>1, NoneAbove
<1>8. CacheFilled'
  <2> SUFFICES ASSUME NEW u \in Views, Outer(u),
                      NEW x \in Inside(u), x \notin lost', x \notin cache'[u]
               PROVE  IF u \in nextFrame'[Home(u)]
                      THEN u \in InRendering \/ x \notin nextFrame'[Home(u)]
                      ELSE x \notin shown'[Home(u)]
    BY <1>3, <1>6 DEF CacheFilled
  <2>1. /\ u \in Cached /\ Home(u) \in Windows
        /\ x \in Views /\ Home(x) = Home(u) /\ u \in Around(x)
    BY InsideOf, PathOf DEF Outer
  <2>2. CASE Home(u) # w
    <3>1. u \notin gone /\ x \notin gone
      BY <1>4, <2>1, <2>2
    <3>2. x \notin lost /\ x \notin cache[u]
      BY <1>3, <2>1, <3>1
    <3>3. IF u \in nextFrame[Home(u)]
          THEN u \in InRendering \/ x \notin nextFrame[Home(u)]
          ELSE x \notin shown[Home(u)]
      BY <3>2 DEF Accounted, CacheFilled
    <3> QED
      BY <1>5, <2>1, <2>2, <3>3
  <2>3. CASE Home(u) = w
    <3>1. ASSUME x \in nextFrame[w]
          PROVE  FALSE
      <4>1. u \in nextFrame[w]
        BY <1>2, <2>1, <3>1 DEF Sound, FramesOK, Closed
      <4>2. x \notin lost /\ x \notin cache[u]
        BY <1>3, <1>4, <2>1, <3>1, <4>1
      <4>3. u \notin InRendering
        BY <1>7, <2>3 DEF InRendering
      <4> QED
        BY <2>3, <3>1, <4>1, <4>2, <4>3 DEF Accounted, CacheFilled
    <3> QED
      BY <1>2, <1>5, <2>3, <3>1
  <2> QED
    BY <2>2, <2>3
<1>9. AccessedInside'
  <2> SUFFICES ASSUME NEW i \in Renderings, Outer(stack[i].on),
                      NEW x \in Inside(stack[i].on) \cap nextFrame'[Home(stack[i].on)],
                      x \notin lost'
               PROVE  x \notin stack[i].before
    BY <1>3, <1>6 DEF AccessedInside
  <2>1. stack[i].on \in Views /\ Home(stack[i].on) \in Windows /\ Home(stack[i].on) # w
    BY <1>7, RenderedInDraw
  <2>2. x \in Views /\ Home(x) = Home(stack[i].on)
    BY <2>1, InsideOf
  <2>3. x \notin lost /\ x \in nextFrame[Home(stack[i].on)]
    BY <1>3, <1>4, <1>5, <2>1, <2>2
  <2> QED
    BY <2>3 DEF Accounted, AccessedInside
<1>10. SeenBefore'
  BY <1>6 DEF Accounted, SeenBefore
<1>11. KeepsTrack'
  <2> SUFFICES ASSUME NEW u \in Windows
               PROVE  IF u \in drawing' THEN nextFrame'[u] \ lost' \subseteq accessed'
                      ELSE shown'[u] \ lost' \subseteq tracked'[u]
    BY <1>3 DEF KeepsTrack
  <2>1. IF u \in drawing THEN nextFrame[u] \ lost \subseteq accessed
        ELSE shown[u] \ lost \subseteq tracked[u]
    BY DEF Accounted, KeepsTrack
  <2>2. CASE u = w
    <3>1. nextFrame[w] \cap gone = {}
      BY DEF gone
    <3> QED
      BY <1>2, <1>3, <1>5, <2>1, <2>2, <3>1
  <2>3. CASE u # w
    <3>1. \A x \in shown[u] \cup nextFrame[u] : x \notin gone
      BY <2>3 DEF gone, Sound, FramesOK, Closed
    <3>2. u \in drawing => accessed' = accessed
      BY <1>3, <2>3
    <3> QED
      BY <1>3, <1>5, <2>1, <2>3, <3>1, <3>2
  <2> QED
    BY <2>2, <2>3
<1> QED
  BY <1>8, <1>9, <1>10, <1>11 DEF Accounted

LEMMA RenderingsStep == Sound /\ RenderingsOK /\ [Next]_vars => RenderingsOK'
<1> SUFFICES ASSUME Sound, RenderingsOK, [Next]_vars PROVE RenderingsOK'
  OBVIOUS
<1>1. ASSUME UNCHANGED stack, refreshing \subseteq refreshing'
      PROVE  RenderingsOK'
  BY <1>1, QuietCarries, CarriedRenderings
<1>2. CASE UNCHANGED vars
  BY <1>1, <1>2 DEF vars, drawVars
<1>3. CASE Next
  <2>1. \/ RequestAnimationFrame \/ RefreshWindows
        \/ \E v \in Views : Notify(v) \/ Access(v) \/ Render(v) \/ Reuse(v)
        \/ \E w \in Windows : \E vs \in FocusesOf(w) : MoveFocus(w, vs)
        \/ \E w \in Windows : Refresh(w) \/ OpenWindow(w) \/ RequestFrame(w) \/ DrawOpen(w)
        \/ PresentFrame \/ ApplyRefresh \/ ViewDone \/ Paint \/ DrawDone
    BY <1>3, Steps
  <2>2. CASE RequestAnimationFrame \/ RefreshWindows
    BY <1>1, <2>2 DEF RequestAnimationFrame, RefreshWindows, drawVars
  <2>3. ASSUME NEW v \in Views, Notify(v) \/ Access(v)
        PROVE  RenderingsOK'
    BY <1>1, <2>3 DEF Notify, Access, drawVars
  <2>4. ASSUME NEW v \in Views, Render(v)
        PROVE  RenderingsOK'
    BY <2>4, RenderRenderings
  <2>5. ASSUME NEW v \in Views, Reuse(v)
        PROVE  RenderingsOK'
    <3>1. refreshing' = refreshing
      BY <2>5 DEF Reuse, Recycle
    <3> QED
      BY <2>5, <3>1, ReuseCarries, CarriedRenderings
  <2>6. ASSUME NEW w \in Windows, NEW vs, MoveFocus(w, vs)
        PROVE  RenderingsOK'
    <3>1. refreshing \subseteq refreshing' /\ UNCHANGED stack
      BY <2>6 DEF MoveFocus, SetFocus, DoRefresh
    <3> QED
      BY <1>1, <3>1
  <2>7. ASSUME NEW w \in Windows, Refresh(w)
        PROVE  RenderingsOK'
    <3>1. refreshing \subseteq refreshing' /\ UNCHANGED stack
      BY <2>7 DEF Refresh, DoRefresh
    <3> QED
      BY <1>1, <3>1
  <2>8. ASSUME NEW w \in Windows, OpenWindow(w)
        PROVE  RenderingsOK'
    BY <2>8, DrawCarries, CarriedRenderings DEF OpenWindow
  <2>9. ASSUME NEW w \in Windows, RequestFrame(w)
        PROVE  RenderingsOK'
    BY <2>9, RequestCarries, CarriedRenderings
  <2>10. ASSUME NEW w \in Windows, DrawOpen(w)
         PROVE  RenderingsOK'
    BY <2>10, DrawCarries, CarriedRenderings DEF DrawOpen, Redraw
  <2>11. CASE PresentFrame
    BY <2>11, PresentCarries, CarriedRenderings
  <2>12. CASE ApplyRefresh
    <3>1. refreshing \subseteq refreshing' /\ UNCHANGED stack
      BY <2>12 DEF ApplyRefresh
    <3> QED
      BY <1>1, <3>1
  <2>13. CASE ViewDone
    BY <2>13, ViewDoneRenderings
  <2>14. CASE Paint
    BY <2>14, PaintCarries, CarriedRenderings DEF Paint, drawVars
  <2>15. CASE DrawDone
    <3>1. Len(stack) \in Draws /\ Top = stack[Len(stack)]
      BY <2>15, DrawDoneStack
    <3>2. refreshing' = refreshing \ {Top.on}
      BY <2>15 DEF DrawDone
    <3> QED
      BY <2>15, <3>1, <3>2, NoneAbove, DrawDoneCarries, CarriedRenderings
  <2> QED
    BY <2>1, <2>2, <2>3, <2>4, <2>5, <2>6, <2>7, <2>8, <2>9, <2>10, <2>11, <2>12, <2>13, <2>14,
       <2>15
<1> QED
  BY <1>2, <1>3

LEMMA AccountsStep == Sound /\ RenderingsOK /\ Accounted /\ [Next]_vars => Accounted'
<1> SUFFICES ASSUME Sound, RenderingsOK, Accounted, [Next]_vars PROVE Accounted'
  OBVIOUS
<1>1. ASSUME UNCHANGED <<stack, shown, nextFrame, cache, lost, drawing, tracked>>,
             accessed \subseteq accessed'
      PROVE  Accounted'
  BY <1>1, QuietCarries, CarriedAccounts
<1>2. CASE UNCHANGED vars
  BY <1>1, <1>2 DEF vars, drawVars, trackVars, auxVars
<1>3. CASE Next
  <2>1. \/ RequestAnimationFrame \/ RefreshWindows
        \/ \E v \in Views : Notify(v) \/ Access(v) \/ Render(v) \/ Reuse(v)
        \/ \E w \in Windows : \E vs \in FocusesOf(w) : MoveFocus(w, vs)
        \/ \E w \in Windows : Refresh(w) \/ OpenWindow(w) \/ RequestFrame(w) \/ DrawOpen(w)
        \/ PresentFrame \/ ApplyRefresh \/ ViewDone \/ Paint \/ DrawDone
    BY <1>3, Steps
  <2>2. CASE RequestAnimationFrame \/ RefreshWindows
    BY <1>1, <2>2 DEF RequestAnimationFrame, RefreshWindows, drawVars, trackVars, auxVars
  <2>3. ASSUME NEW v \in Views, Notify(v) \/ Access(v)
        PROVE  Accounted'
    BY <1>1, <2>3 DEF Notify, Access, drawVars, trackVars, auxVars
  <2>4. ASSUME NEW v \in Views, Render(v)
        PROVE  Accounted'
    BY <2>4, RenderAccounts
  <2>5. ASSUME NEW v \in Views, Reuse(v)
        PROVE  Accounted'
    BY <2>5, ReuseAccounts
  <2>6. ASSUME NEW w \in Windows, NEW vs, MoveFocus(w, vs)
        PROVE  Accounted'
    BY <1>1, <2>6 DEF MoveFocus, SetFocus, trackVars
  <2>7. ASSUME NEW w \in Windows, Refresh(w)
        PROVE  Accounted'
    BY <1>1, <2>7 DEF Refresh, trackVars
  <2>8. ASSUME NEW w \in Windows, OpenWindow(w)
        PROVE  Accounted'
    <3>1. /\ w = Cardinality(open \cup drawing) + 1 /\ BeginDraw(w, stack)
          /\ lost' = lost \cup UNION {nextFrame[u] : u \in drawing}
          /\ UNCHANGED <<shown, cache, tracked>>
      BY <2>8 DEF OpenWindow
    <3>2. w \notin drawing
      BY <3>1, NewWindow
    <3> QED
      BY <3>1, <3>2, DrawAccounts
  <2>9. ASSUME NEW w \in Windows, RequestFrame(w)
        PROVE  Accounted'
    <3>1. Request(w, {v \in callbacks : Home(v) = w})
      BY <2>9 DEF RequestFrame
    <3>2. UNCHANGED <<shown, nextFrame, cache, lost, drawing, tracked, accessed>>
      BY <3>1 DEF Request, drawVars, trackVars
    <3> QED
      BY <2>9, <3>2, RequestCarries, CarriedAccounts
  <2>10. ASSUME NEW w \in Windows, DrawOpen(w)
         PROVE  Accounted'
    <3>1. /\ BeginDraw(w, stack) /\ drawing = {}
          /\ UNCHANGED <<shown, cache, lost, tracked>>
      BY <2>10 DEF DrawOpen, Redraw, auxVars
    <3>2. lost' = lost \cup UNION {nextFrame[u] : u \in drawing}
      BY <3>1
    <3> QED
      BY <3>1, <3>2, DrawAccounts
  <2>11. CASE PresentFrame
    <3>1. UNCHANGED <<shown, nextFrame, cache, lost, drawing, tracked, accessed>>
      BY <2>11 DEF PresentFrame, EndRequest, trackVars, auxVars
    <3> QED
      BY <2>11, <3>1, PresentCarries, CarriedAccounts
  <2>12. CASE ApplyRefresh
    BY <1>1, <2>12 DEF ApplyRefresh, trackVars
  <2>13. CASE ViewDone
    BY <2>13, ViewDoneAccounts
  <2>14. CASE Paint
    <3>1. UNCHANGED <<shown, nextFrame, cache, lost, drawing, tracked, accessed>>
      BY <2>14 DEF Paint, drawVars, trackVars, auxVars
    <3> QED
      BY <2>14, <3>1, PaintCarries, CarriedAccounts
  <2>15. CASE DrawDone
    BY <2>15, DrawDoneAccounts
  <2> QED
    BY <2>1, <2>2, <2>3, <2>4, <2>5, <2>6, <2>7, <2>8, <2>9, <2>10, <2>11, <2>12, <2>13, <2>14,
       <2>15
<1> QED
  BY <1>2, <1>3

------------------------------------------------------------------------------
(***************************************************************************)
(* What has changed since it was rendered.                                 *)
(***************************************************************************)
\* A window refreshes, and not only for the cached view being rendered.
WholeRefresh(w) ==
  w \in refreshing /\ \A i \in Renderings : Home(stack[i].on) = w => stack[i].was

DueIsDirty == \A v \in Views : Waits(v, {"due"}) => Home(v) \in dirty

\* What a draw has put in the next frame has changed only since the draw
\* began, and is then marked for the next.
FreshInDraw ==
  \A w \in drawing : \A v \in nextFrame[w] \ lost :
    mark[v] # "due" /\ (mark[v] = "delayed" => v \in dirtyViews[w])

\* What it has yet to put there and changed before is rendered again: it is
\* marked, with the views around it, or the window refreshes.
StaleInDraw ==
  \A k \in Draws :
    stack[k].step = "prepaint" =>
      \A v \in shown[stack[k].on] \ (nextFrame[stack[k].on] \cup lost) :
        mark[v] \in {"due", "delayed"} =>
          \/ mark[v] = "delayed" /\ v \in dirtyViews[stack[k].on]
          \/ Around(v) \subseteq stack[k].marked
          \/ WholeRefresh(stack[k].on)

MarksOK == StaleIsMarked /\ DueIsDirty /\ FreshInDraw /\ StaleInDraw

\* The draws and the renderings go on.
SameDraws ==
  /\ Draws' = Draws /\ Renderings' = Renderings
  /\ \A i \in Draws : /\ stack'[i].on = stack[i].on /\ stack'[i].step = stack[i].step
                      /\ stack'[i].marked = stack[i].marked
  /\ \A i \in Renderings : stack'[i].on = stack[i].on /\ stack'[i].was = stack[i].was

LEMMA QuietDraws == ASSUME UNCHANGED stack PROVE SameDraws
BY DEF SameDraws, Renderings, Draws

LEMMA NoDraws ==
  ASSUME Draws = {}, Draws' = {}, Renderings = {}, Renderings' = {}
  PROVE  SameDraws
BY DEF SameDraws

LEMMA SameRefresh ==
  ASSUME SameDraws, NEW w, w \in refreshing => w \in refreshing', WholeRefresh(w)
  PROVE  WholeRefresh(w)'
BY DEF SameDraws, WholeRefresh

\* The window of a draw, and the views of its frames.
LEMMA DrawOn ==
  ASSUME Sound, NEW k \in Draws
  PROVE  /\ stack[k].on \in drawing /\ stack[k].on \in Windows
         /\ \A v \in shown[stack[k].on] \cup nextFrame[stack[k].on] :
              v \in Views /\ Home(v) = stack[k].on
<1>1. stack[k].on \in drawing /\ stack[k].on \in Windows
  BY DEF Sound, Shape, DrawsOnce, TypeOK
<1> QED
  BY <1>1 DEF Sound, FramesOK, Closed, TypeOK

LEMMA CarriedMarks ==
  ASSUME Sound, MarksOK, SameDraws,
         UNCHANGED <<mark, shown, nextFrame, lost, drawing, dirtyViews, refreshing, dirty>>
  PROVE  MarksOK'
<1>1. StaleIsMarked' /\ DueIsDirty'
  BY DEF MarksOK, StaleIsMarked, DueIsDirty, Waits
<1>2. FreshInDraw'
  BY DEF MarksOK, FreshInDraw
<1>3. StaleInDraw'
  BY SameRefresh DEF MarksOK, StaleInDraw, SameDraws
<1> QED
  BY <1>1, <1>2, <1>3 DEF MarksOK

\* A notify.
LEMMA InvalidateMarks ==
  ASSUME Sound, TrackersAgree, KeepsTrack, MarksOK, SameDraws, NEW vs, Invalidate(vs),
         UNCHANGED <<shown, nextFrame, lost, drawing, refreshing>>
  PROVE  MarksOK'
<1>1. /\ \A w \in Windows : dirtyViews'[w] = dirtyViews[w] \cup {v \in vs : w \in trackers[v]}
      /\ dirty' = dirty \cup {w \in Windows \ drawing : \E v \in vs : w \in trackers[v]}
  BY DEF Invalidate
<1>2. ASSUME NEW v \in Views
      PROVE  \/ mark'[v] = mark[v]
             \/ v \in vs /\ Home(v) \notin drawing
             \/ v \in vs /\ Home(v) \in drawing /\ Home(v) \in trackers[v] /\ mark'[v] = "delayed"
             \/ mark'[v] = "unseen"
  BY DEF Invalidate, MarkNotified
\* What a window shows, and does not draw, it tracks.
<1>3. ASSUME NEW v \in Views, Home(v) \notin drawing, v \in shown[Home(v)], v \notin lost
      PROVE  Home(v) \in trackers[v]
  <2>1. Home(v) \in Windows
    BY PathOf
  <2>2. v \in tracked[Home(v)]
    BY <1>3, <2>1 DEF KeepsTrack
  <2> QED
    BY <2>1, <2>2 DEF TrackersAgree
<1>4. ASSUME NEW v \in Views, Waits(v, {"due", "delayed"})'
      PROVE  \/ Waits(v, {mark'[v]})
             \/ v \in dirtyViews'[Home(v)] /\ Home(v) \in dirty'
  <2>1. /\ Home(v) \notin drawing /\ v \in shown[Home(v)] /\ v \notin lost /\ Home(v) \in Windows
        /\ mark'[v] \in {"due", "delayed"}
    BY <1>4, PathOf DEF Waits
  <2>2. CASE mark'[v] = mark[v]
    BY <2>1, <2>2 DEF Waits
  <2>3. CASE v \in vs
    BY <1>1, <1>3, <2>1, <2>3
  <2> QED
    BY <1>2, <2>1, <2>2, <2>3
<1>5. StaleIsMarked'
  <2> SUFFICES ASSUME NEW v \in Views, Waits(v, {"due", "delayed"})'
               PROVE  v \in dirtyViews'[Home(v)] \/ Home(v) \in refreshing
    BY DEF StaleIsMarked
  <2>1. mark'[v] \in {"due", "delayed"} /\ Home(v) \in Windows
    BY PathOf DEF Waits
  <2>2. CASE Waits(v, {mark'[v]})
    <3>1. Waits(v, {"due", "delayed"})
      BY <2>1, <2>2 DEF Waits
    <3> QED
      BY <1>1, <2>1, <3>1 DEF MarksOK, StaleIsMarked
  <2> QED
    BY <1>4, <2>2
<1>6. DueIsDirty'
  <2> SUFFICES ASSUME NEW v \in Views, Waits(v, {"due"})'
               PROVE  Home(v) \in dirty'
    BY DEF DueIsDirty
  <2>1. mark'[v] = "due" /\ Waits(v, {"due", "delayed"})'
    BY DEF Waits
  <2> QED
    BY <1>1, <1>4, <2>1 DEF MarksOK, DueIsDirty
<1>7. FreshInDraw'
  <2> SUFFICES ASSUME NEW w \in drawing, NEW v \in nextFrame[w], v \notin lost
               PROVE  mark'[v] # "due" /\ (mark'[v] = "delayed" => v \in dirtyViews'[w])
    BY DEF FreshInDraw
  <2>1. w \in Windows /\ v \in Views /\ Home(v) = w
    BY DEF Sound, TypeOK, FramesOK, Closed
  <2>2. mark[v] # "due" /\ (mark[v] = "delayed" => v \in dirtyViews[w])
    BY DEF MarksOK, FreshInDraw
  <2> QED
    BY <1>1, <1>2, <2>1, <2>2
<1>8. StaleInDraw'
  <2> SUFFICES ASSUME NEW k \in Draws, NEW w, w = stack[k].on,
                      stack[k].step = "prepaint",
                      NEW v \in shown[w] \ (nextFrame[w] \cup lost),
                      mark'[v] \in {"due", "delayed"}
               PROVE  \/ mark'[v] = "delayed" /\ v \in dirtyViews'[w]
                      \/ Around(v) \subseteq stack[k].marked
                      \/ WholeRefresh(w)'
    BY DEF StaleInDraw, SameDraws, WholeRefresh
  <2>1. w \in Windows /\ w \in drawing /\ v \in Views /\ Home(v) = w
    BY DrawOn
  <2>2. mark[v] \in {"due", "delayed"} =>
          \/ mark[v] = "delayed" /\ v \in dirtyViews[w]
          \/ Around(v) \subseteq stack[k].marked
          \/ WholeRefresh(w)
    BY DEF MarksOK, StaleInDraw, WholeRefresh
  <2>3. WholeRefresh(w) => WholeRefresh(w)'
    BY SameRefresh
  <2> QED
    BY <1>1, <1>2, <2>1, <2>2, <2>3
<1> QED
  BY <1>5, <1>6, <1>7, <1>8 DEF MarksOK

\* A refresh of windows that do not draw.
LEMMA RefreshMarks ==
  ASSUME Sound, MarksOK, SameDraws, NEW ws \in SUBSET Windows, ws \cap drawing = {},
         MarkRefreshed(ws), refreshing' = refreshing \cup ws, dirty' = dirty \cup ws,
         UNCHANGED <<shown, nextFrame, lost, drawing, dirtyViews>>
  PROVE  MarksOK'
<1>1. ASSUME NEW v \in Views
      PROVE  mark'[v] = mark[v] \/ Home(v) \in ws
  BY DEF MarkRefreshed, Sound, FramesOK, Closed
<1>2. StaleIsMarked'
  BY <1>1 DEF MarksOK, StaleIsMarked, Waits
<1>3. DueIsDirty'
  BY <1>1 DEF MarksOK, DueIsDirty, Waits
<1>4. ASSUME NEW w \in drawing, NEW v \in shown[w] \cup nextFrame[w]
      PROVE  mark'[v] = mark[v]
  <2>1. w \in Windows /\ v \in Views /\ Home(v) = w
    BY <1>4 DEF Sound, TypeOK, FramesOK, Closed
  <2> QED
    BY <1>1, <2>1
<1>5. FreshInDraw'
  BY <1>4 DEF MarksOK, FreshInDraw
<1>6. StaleInDraw'
  <2> SUFFICES ASSUME NEW k \in Draws, NEW w, w = stack[k].on,
                      stack[k].step = "prepaint",
                      NEW v \in shown[w] \ (nextFrame[w] \cup lost),
                      mark'[v] \in {"due", "delayed"}
               PROVE  \/ mark'[v] = "delayed" /\ v \in dirtyViews[w]
                      \/ Around(v) \subseteq stack[k].marked
                      \/ WholeRefresh(w)'
    BY DEF StaleInDraw, SameDraws, WholeRefresh
  <2>1. mark'[v] = mark[v]
    BY <1>4, DrawOn
  <2>2. \/ mark[v] = "delayed" /\ v \in dirtyViews[w]
        \/ Around(v) \subseteq stack[k].marked
        \/ WholeRefresh(w)
    BY <2>1 DEF MarksOK, StaleInDraw, WholeRefresh
  <2>3. WholeRefresh(w) => WholeRefresh(w)'
    BY SameRefresh
  <2> QED
    BY <2>1, <2>2, <2>3
<1> QED
  BY <1>2, <1>3, <1>5, <1>6 DEF MarksOK

\* What is marked or refreshed is rendered again by the draw that begins.
LEMMA DrawMarks ==
  ASSUME Sound, MarksOK, NEW w \in Windows \ drawing, BeginDraw(w, stack),
         UNCHANGED <<mark, shown, refreshing>>,
         lost' = lost \cup UNION {nextFrame[u] : u \in drawing}
  PROVE  MarksOK'
<1> DEFINE n == Len(stack)
<1>1. /\ \A i \in DOMAIN stack : stack'[i] = stack[i]
      /\ Draws' = Draws \cup {n + 1} /\ Renderings' = Renderings
      /\ stack'[n + 1].on = w
      /\ stack'[n + 1].marked = UNION {Around(v) : v \in dirtyViews[w] \cap shown[w]}
  BY DrawStack
<1>2. /\ drawing' = drawing \cup {w} /\ nextFrame' = nextFrame /\ nextFrame[w] = {}
      /\ dirty' = dirty \ {w}
      /\ \A u \in Windows : u # w => dirtyViews'[u] = dirtyViews[u]
      /\ lost \subseteq lost' /\ \A u \in drawing : nextFrame[u] \subseteq lost'
  BY DEF BeginDraw, Sound, TypeOK
<1>3. StaleIsMarked'
  <2> SUFFICES ASSUME NEW v \in Views, Waits(v, {"due", "delayed"})'
               PROVE  v \in dirtyViews'[Home(v)] \/ Home(v) \in refreshing
    BY DEF StaleIsMarked
  <2>1. Waits(v, {"due", "delayed"}) /\ Home(v) # w
    BY <1>2 DEF Waits
  <2> QED
    BY <1>2, <2>1, PathOf DEF MarksOK, StaleIsMarked
<1>4. DueIsDirty'
  BY <1>2 DEF MarksOK, DueIsDirty, Waits
<1>5. FreshInDraw'
  BY <1>2 DEF FreshInDraw
<1>6. \A i \in Renderings : i \in DOMAIN stack /\ stack'[i] = stack[i]
  BY <1>1 DEF Renderings
<1>7. StaleInDraw'
  <2>1. ASSUME NEW v \in shown[w] \ lost, mark[v] \in {"due", "delayed"}
        PROVE  Around(v) \subseteq stack'[n + 1].marked \/ WholeRefresh(w)'
    <3>1. v \in Views /\ Home(v) = w
      BY <2>1 DEF Sound, TypeOK, FramesOK, Closed
    <3>2. v \in dirtyViews[w] \/ w \in refreshing
      BY <2>1, <3>1 DEF MarksOK, StaleIsMarked, Waits
    <3>3. CASE v \in dirtyViews[w]
      BY <1>1, <2>1, <3>3
    <3>4. CASE w \in refreshing
      <4>1. \A i \in Renderings : Home(stack[i].on) # w
        BY RenderedInDraw
      <4> QED
        BY <1>1, <1>6, <3>4, <4>1 DEF WholeRefresh
    <3> QED
      BY <3>2, <3>3, <3>4
  <2>2. ASSUME NEW k \in Draws, stack[k].step = "prepaint", NEW u, u = stack[k].on,
               NEW v \in shown[u] \ (nextFrame[u] \cup lost), mark[v] \in {"due", "delayed"}
        PROVE  \/ mark[v] = "delayed" /\ v \in dirtyViews'[u]
               \/ Around(v) \subseteq stack[k].marked
               \/ WholeRefresh(u)'
    <3>1. u \in drawing /\ u \in Windows /\ u # w
      BY <2>2, DrawOn
    <3>2. \/ mark[v] = "delayed" /\ v \in dirtyViews[u]
          \/ Around(v) \subseteq stack[k].marked
          \/ WholeRefresh(u)
      BY <2>2 DEF MarksOK, StaleInDraw
    <3>3. WholeRefresh(u) => WholeRefresh(u)'
      BY <1>1, <1>6 DEF WholeRefresh
    <3> QED
      BY <1>2, <3>1, <3>2, <3>3
  <2> SUFFICES ASSUME NEW k \in Draws', stack'[k].step = "prepaint", NEW u, u = stack'[k].on,
                      NEW v \in shown[u] \ (nextFrame[u] \cup lost'), mark[v] \in {"due", "delayed"}
               PROVE  \/ mark[v] = "delayed" /\ v \in dirtyViews'[u]
                      \/ Around(v) \subseteq stack'[k].marked
                      \/ WholeRefresh(u)'
    BY <1>2 DEF StaleInDraw, WholeRefresh
  <2>3. v \notin lost
    BY <1>2
  <2>4. CASE k = n + 1
    <3>1. u = w
      BY <1>1, <2>4
    <3>2. Around(v) \subseteq stack'[n + 1].marked \/ WholeRefresh(w)'
      BY <2>1, <2>3, <3>1
    <3> QED
      BY <2>4, <3>1, <3>2 DEF WholeRefresh
  <2>5. CASE k \in Draws
    <3>1. stack'[k] = stack[k]
      BY <1>1, <2>5 DEF Draws
    <3> QED
      BY <2>2, <2>3, <2>5, <3>1
  <2> QED
    BY <1>1, <2>4, <2>5
<1> QED
  BY <1>3, <1>4, <1>5, <1>7 DEF MarksOK

\* A rendering makes its view fresh.
LEMMA RenderMarks ==
  ASSUME Sound, MarksOK, NEW v \in Views, Render(v)
  PROVE  MarksOK'
<1> DEFINE n == Len(stack)
           w == Home(v)
<1>1. /\ \A i \in DOMAIN stack : GoesOn(stack[i], stack'[i])
      /\ Draws' = Draws /\ Renderings' = Renderings \cup {n + 1}
      /\ stack'[n + 1].on = v /\ stack'[n + 1].was = (w \in refreshing)
  BY RenderStack
<1>2. w \in drawing /\ w \in Windows
  <2>1. Shows(v)
    BY DEF Render
  <2> QED
    BY <2>1, Showing
<1>3. /\ refreshing' = IF v \in Cached THEN refreshing \cup {w} ELSE refreshing
      /\ nextFrame' = [nextFrame EXCEPT ![w] = @ \cup {v}]
      /\ nextFrame \in [Windows -> SUBSET Views]
      /\ mark' = [mark EXCEPT ![v] = "fresh"]
      /\ mark \in [Views -> {"fresh", "unseen", "delayed", "due"}]
      /\ lost' \ {v} = lost \ {v}
      /\ UNCHANGED <<dirty, dirtyViews, drawing, shown>>
  BY DEF Render, dirtVars, Sound, TypeOK
<1>4. \A u \in Windows : nextFrame'[u] = IF u = w THEN nextFrame[u] \cup {v} ELSE nextFrame[u]
  BY <1>2, <1>3
<1>5. /\ mark'[v] = "fresh" /\ \A x \in Views : x # v => mark'[x] = mark[x]
      /\ \A x : x # v => (x \in lost' <=> x \in lost)
  BY <1>3
<1>6. Draws \subseteq DOMAIN stack /\ Renderings \subseteq DOMAIN stack
  BY DEF Draws, Renderings
<1>7. ASSUME NEW x \in Views, NEW marks, Waits(x, marks)'
      PROVE  Waits(x, marks)
  <2>1. Home(x) # w
    BY <1>2, <1>3, <1>7 DEF Waits
  <2> QED
    BY <1>3, <1>5, <1>7, <2>1 DEF Waits
<1>8. StaleIsMarked'
  BY <1>3, <1>7 DEF MarksOK, StaleIsMarked
<1>9. DueIsDirty'
  BY <1>3, <1>7 DEF MarksOK, DueIsDirty
<1>10. FreshInDraw'
  <2> SUFFICES ASSUME NEW u \in drawing, NEW x \in nextFrame'[u], x \notin lost'
               PROVE  mark'[x] # "due" /\ (mark'[x] = "delayed" => x \in dirtyViews[u])
    BY <1>3 DEF FreshInDraw
  <2>1. CASE x = v
    BY <1>5, <2>1
  <2>2. CASE x # v
    <3>1. u \in Windows /\ x \in nextFrame[u] /\ x \notin lost
      BY <1>4, <1>5, <2>2 DEF Sound, TypeOK
    <3>2. x \in Views
      BY <3>1 DEF Sound, TypeOK
    <3> QED
      BY <1>5, <2>2, <3>1, <3>2 DEF MarksOK, FreshInDraw
  <2> QED
    BY <2>1, <2>2
<1>11. ASSUME NEW u, WholeRefresh(u)
       PROVE  WholeRefresh(u)'
  <2>1. \A i \in Renderings : stack'[i].on = stack[i].on /\ stack'[i].was = stack[i].was
    BY <1>1, <1>6 DEF GoesOn, Renderings
  <2> QED
    BY <1>1, <1>3, <1>11, <2>1 DEF WholeRefresh
<1>12. StaleInDraw'
  <2>1. \A k \in Draws : /\ stack'[k].on = stack[k].on /\ stack'[k].step = stack[k].step
                         /\ stack'[k].marked = stack[k].marked
    BY <1>1, <1>6 DEF GoesOn, Draws
  <2> SUFFICES ASSUME NEW k \in Draws, NEW u, u = stack[k].on,
                      stack[k].step = "prepaint",
                      NEW x \in shown[u], x \notin nextFrame'[u], x \notin lost',
                      mark'[x] \in {"due", "delayed"}
               PROVE  \/ mark'[x] = "delayed" /\ x \in dirtyViews[u]
                      \/ Around(x) \subseteq stack[k].marked
                      \/ WholeRefresh(u)'
    BY <1>1, <1>3, <2>1 DEF StaleInDraw, WholeRefresh
  <2>2. x # v /\ x \in Views /\ u \in Windows
    BY <1>5, DrawOn
  <2>3. mark'[x] = mark[x] /\ x \notin lost /\ x \notin nextFrame[u]
    BY <1>4, <1>5, <2>2
  <2>4. \/ mark[x] = "delayed" /\ x \in dirtyViews[u]
        \/ Around(x) \subseteq stack[k].marked
        \/ WholeRefresh(u)
    BY <2>3 DEF MarksOK, StaleInDraw, WholeRefresh
  <2> QED
    BY <1>11, <2>3, <2>4
<1> QED
  BY <1>8, <1>9, <1>10, <1>12 DEF MarksOK

\* The draw that shows a view is the innermost one.
LEMMA DrawBelow ==
  ASSUME Sound, RenderingsOK, NEW v \in Views, Shows(v)
  PROVE  \E k \in Draws : /\ stack[k].on = Home(v) /\ stack[k].step = "prepaint"
                          /\ Draw = stack[k]
<1> DEFINE n == Len(stack)
<1>1. /\ n \in Draws \cup Renderings
      /\ n \in Draws => stack[n].on = Home(v) /\ stack[n].step = "prepaint"
      /\ n \in Renderings => Home(stack[n].on) = Home(v)
  BY Showing
<1>2. n \in Nat /\ DOMAIN stack = 1 .. n /\ Draws \subseteq 1 .. n
  BY StackOf DEF Sound, TypeOK, Draws
<1>3. \E k \in Draws : /\ stack[k].on = Home(v) /\ stack[k].step = "prepaint"
                       /\ \A j \in Draws : j <= k
  <2>1. CASE n \in Draws
    <3>1. \A j \in Draws : j <= n
      BY <1>2
    <3> QED
      BY <1>1, <2>1, <3>1
  <2>2. CASE n \in Renderings
    <3>1. PICK k \in Draws : /\ k < n /\ stack[k].on = Home(stack[n].on)
                             /\ \A j \in k + 1 .. n : j \in Renderings
      BY <2>2 DEF Sound, Shape, RendersInDraw
    <3>2. PICK l \in Draws : stack[l].on = Home(stack[n].on) /\ stack[l].step = "prepaint"
      BY <2>2 DEF RenderingsOK, RendersInPrepaint
    <3>3. l = k
      BY <3>1, <3>2 DEF Sound, Shape, DrawsOnce
    <3>4. ASSUME NEW j \in Draws
          PROVE  j <= k
      <4>1. j \in 1 .. n /\ k \in 1 .. n /\ n \in Nat
        BY <1>2
      <4>2. j \notin Renderings
        BY DEF Draws, Renderings
      <4>3. j \notin k + 1 .. n
        BY <3>1, <4>2
      <4> QED
        BY <4>1, <4>3
    <3> QED
      BY <1>1, <2>2, <3>1, <3>2, <3>3, <3>4
  <2> QED
    BY <1>1, <2>1, <2>2
<1>4. PICK k \in Draws : /\ stack[k].on = Home(v) /\ stack[k].step = "prepaint"
                         /\ \A j \in Draws : j <= k
  BY <1>3
<1>5. \A i \in Draws : (\A j \in Draws : j <= i) => i = k
  <2> SUFFICES ASSUME NEW i \in Draws, \A j \in Draws : j <= i PROVE i = k
    OBVIOUS
  <2>1. i <= k /\ k <= i
    BY <1>4
  <2>2. i \in 1 .. n /\ k \in 1 .. n /\ n \in Nat
    BY <1>2
  <2> QED
    BY <2>1, <2>2
<1>6. (CHOOSE i \in Draws : \A j \in Draws : j <= i) = k
  BY <1>4, <1>5
<1>7. Draw = stack[CHOOSE i \in Draws : \A j \in Draws : j <= i]
  BY DEF Draw, Draws
<1> QED
  BY <1>4, <1>6, <1>7

\* What is recycled has not changed, but perhaps since the draw began.
LEMMA ReuseMarks ==
  ASSUME Sound, RenderingsOK, MarksOK, NEW v \in Views, Reuse(v)
  PROVE  MarksOK'
<1> DEFINE w == Home(v)
<1>1. /\ Shows(v) /\ v \notin Draw.marked /\ w \notin refreshing
      /\ nextFrame' = [nextFrame EXCEPT ![w] = @ \cup (Inside(v) \cap shown[w])]
      /\ nextFrame \in [Windows -> SUBSET Views]
      /\ UNCHANGED <<drawing, refreshing, dirty, dirtyViews, shown, lost, mark>>
  BY DEF Reuse, Recycle, dirtVars, auxVars, Sound, TypeOK
<1>2. w \in drawing /\ w \in Windows /\ Inside(v) \cap nextFrame[w] = {}
  BY <1>1, Showing
<1>3. \A u \in Windows : nextFrame'[u] = IF u = w THEN nextFrame[u] \cup (Inside(v) \cap shown[w])
                                         ELSE nextFrame[u]
  BY <1>1, <1>2
<1>4. /\ \A i \in DOMAIN stack : GoesOn(stack[i], stack'[i])
      /\ Draws' = Draws /\ Renderings' = Renderings
  BY ReuseStack
<1>5. SameDraws
  <2>1. Draws \subseteq DOMAIN stack /\ Renderings \subseteq DOMAIN stack
    BY DEF Draws, Renderings
  <2> QED
    BY <1>4, <2>1 DEF SameDraws, GoesOn, Draws, Renderings
<1>6. StaleIsMarked' /\ DueIsDirty'
  BY <1>1 DEF MarksOK, StaleIsMarked, DueIsDirty, Waits
<1>7. PICK k \in Draws : /\ stack[k].on = w /\ stack[k].step = "prepaint"
                         /\ Draw = stack[k]
  BY <1>1, DrawBelow
<1>8. ASSUME NEW x \in Inside(v) \cap shown[w], x \notin lost
      PROVE  mark[x] # "due" /\ (mark[x] = "delayed" => x \in dirtyViews[w])
  <2>1. x \notin nextFrame[w] /\ v \in Around(x)
    BY <1>2, InsideOf
  <2>2. ~(Around(x) \subseteq stack[k].marked) /\ ~WholeRefresh(w)
    BY <1>1, <1>7, <2>1 DEF WholeRefresh
  <2>3. mark[x] \in {"due", "delayed"} =>
          \/ mark[x] = "delayed" /\ x \in dirtyViews[w]
          \/ Around(x) \subseteq stack[k].marked
          \/ WholeRefresh(w)
    BY <1>7, <1>8, <2>1 DEF MarksOK, StaleInDraw, WholeRefresh
  <2> QED
    BY <2>2, <2>3
<1>9. FreshInDraw'
  <2> SUFFICES ASSUME NEW u \in drawing, NEW x \in nextFrame'[u], x \notin lost
               PROVE  mark[x] # "due" /\ (mark[x] = "delayed" => x \in dirtyViews[u])
    BY <1>1 DEF FreshInDraw
  <2>1. u \in Windows
    BY DEF Sound, TypeOK
  <2>2. CASE x \in nextFrame[u]
    BY <2>2 DEF MarksOK, FreshInDraw
  <2>3. CASE x \notin nextFrame[u]
    BY <1>3, <1>8, <2>1, <2>3
  <2> QED
    BY <2>2, <2>3
<1>10. StaleInDraw'
  <2> SUFFICES ASSUME NEW i \in Draws, NEW u, u = stack[i].on,
                      stack[i].step = "prepaint",
                      NEW x \in shown[u], x \notin nextFrame'[u], x \notin lost,
                      mark[x] \in {"due", "delayed"}
               PROVE  \/ mark[x] = "delayed" /\ x \in dirtyViews[u]
                      \/ Around(x) \subseteq stack[i].marked
                      \/ WholeRefresh(u)'
    BY <1>1, <1>5 DEF StaleInDraw, SameDraws, WholeRefresh
  <2>1. u \in Windows
    BY DrawOn
  <2>2. x \notin nextFrame[u]
    BY <1>3, <2>1
  <2>3. \/ mark[x] = "delayed" /\ x \in dirtyViews[u]
        \/ Around(x) \subseteq stack[i].marked
        \/ WholeRefresh(u)
    BY <2>2 DEF MarksOK, StaleInDraw, WholeRefresh
  <2> QED
    BY <1>1, <1>5, <2>3, SameRefresh
<1> QED
  BY <1>6, <1>9, <1>10 DEF MarksOK

LEMMA ViewDoneMarks ==
  ASSUME Sound, MarksOK, ViewDone
  PROVE  MarksOK'
<1> DEFINE n == Len(stack)
           w == Home(stack[n].on)
<1>1. /\ n \in Renderings /\ Top = stack[n]
      /\ \A i \in DOMAIN stack' : stack'[i] = stack[i]
      /\ Draws' = Draws /\ Renderings' = Renderings \ {n}
  BY ViewDoneStack
<1>2. /\ refreshing' = IF stack[n].was THEN refreshing ELSE refreshing \ {w}
      /\ UNCHANGED <<drawing, dirty, dirtyViews, shown, nextFrame, lost, mark>>
  BY <1>1 DEF ViewDone, EndView, dirtVars, auxVars
<1>3. w \in drawing
  BY <1>1, RenderedInDraw
<1>4. \A i \in Draws \cup Renderings' : stack'[i] = stack[i]
  BY <1>1 DEF Draws, Renderings
<1>5. StaleIsMarked' /\ DueIsDirty'
  BY <1>2, <1>3 DEF MarksOK, StaleIsMarked, DueIsDirty, Waits
<1>6. FreshInDraw'
  BY <1>2 DEF MarksOK, FreshInDraw
<1>7. ASSUME NEW u, WholeRefresh(u)
      PROVE  WholeRefresh(u)'
  <2>1. u = w => stack[n].was
    BY <1>1, <1>7 DEF WholeRefresh
  <2>2. u \in refreshing'
    BY <1>2, <1>7, <2>1 DEF WholeRefresh
  <2> QED
    BY <1>1, <1>4, <1>7, <2>2 DEF WholeRefresh
<1>8. StaleInDraw'
  <2> SUFFICES ASSUME NEW k \in Draws, NEW u, u = stack[k].on,
                      stack[k].step = "prepaint",
                      NEW x \in shown[u] \ (nextFrame[u] \cup lost),
                      mark[x] \in {"due", "delayed"}
               PROVE  \/ mark[x] = "delayed" /\ x \in dirtyViews[u]
                      \/ Around(x) \subseteq stack[k].marked
                      \/ WholeRefresh(u)'
    BY <1>1, <1>2, <1>4 DEF StaleInDraw, WholeRefresh
  <2>1. \/ mark[x] = "delayed" /\ x \in dirtyViews[u]
        \/ Around(x) \subseteq stack[k].marked
        \/ WholeRefresh(u)
    BY DEF MarksOK, StaleInDraw, WholeRefresh
  <2> QED
    BY <1>7, <2>1
<1> QED
  BY <1>5, <1>6, <1>8 DEF MarksOK

LEMMA PaintMarks ==
  ASSUME Sound, MarksOK, Paint
  PROVE  MarksOK'
<1> DEFINE n == Len(stack)
<1>1. /\ n \in Draws
      /\ \A i \in DOMAIN stack : i # n => stack'[i] = stack[i]
      /\ \A i \in DOMAIN stack : stack'[i].on = stack[i].on
      /\ stack'[n].step = "paint" /\ Draws' = Draws /\ Renderings' = Renderings
  BY PaintStack
<1>2. UNCHANGED <<drawing, refreshing, dirty, dirtyViews, shown, nextFrame, lost, mark>>
  BY DEF Paint, dirtVars, drawVars, auxVars
<1>3. Draws \subseteq DOMAIN stack /\ Renderings \subseteq DOMAIN stack /\ n \notin Renderings
  BY <1>1 DEF Draws, Renderings
<1>4. StaleIsMarked' /\ DueIsDirty'
  BY <1>2 DEF MarksOK, StaleIsMarked, DueIsDirty, Waits
<1>5. FreshInDraw'
  BY <1>2 DEF MarksOK, FreshInDraw
<1>6. ASSUME NEW u, WholeRefresh(u)
      PROVE  WholeRefresh(u)'
  BY <1>1, <1>2, <1>3, <1>6 DEF WholeRefresh
<1>7. StaleInDraw'
  <2> SUFFICES ASSUME NEW k \in Draws, k # n, NEW u, u = stack[k].on,
                      stack[k].step = "prepaint",
                      NEW x \in shown[u] \ (nextFrame[u] \cup lost),
                      mark[x] \in {"due", "delayed"}
               PROVE  \/ mark[x] = "delayed" /\ x \in dirtyViews[u]
                      \/ Around(x) \subseteq stack[k].marked
                      \/ WholeRefresh(u)'
    BY <1>1, <1>2, <1>3 DEF StaleInDraw, WholeRefresh
  <2>1. \/ mark[x] = "delayed" /\ x \in dirtyViews[u]
        \/ Around(x) \subseteq stack[k].marked
        \/ WholeRefresh(u)
    BY DEF MarksOK, StaleInDraw, WholeRefresh
  <2> QED
    BY <1>6, <2>1
<1> QED
  BY <1>4, <1>5, <1>7 DEF MarksOK

\* The frame that was drawn is shown: what it has that changed is marked.
LEMMA DrawDoneMarks ==
  ASSUME Sound, MarksOK, DrawDone
  PROVE  MarksOK'
<1> DEFINE n == Len(stack)
           w == stack[n].on
           gone == {v \in Views : Home(v) = w} \ nextFrame[w]
<1>1. /\ n \in Draws /\ Top = stack[n]
      /\ Draws' = Draws \ {n} /\ Renderings' = Renderings
      /\ \A i \in DOMAIN stack' : stack'[i] = stack[i]
  BY DrawDoneStack
<1>2. w \in drawing /\ w \in Windows
  BY <1>1, DrawOn
<1>3. /\ drawing' = drawing \ {w} /\ refreshing' = refreshing \ {w}
      /\ shown' = [shown EXCEPT ![w] = nextFrame[w]]
      /\ nextFrame' = [nextFrame EXCEPT ![w] = {}]
      /\ mark' = [v \in Views |-> IF v \in gone THEN "fresh" ELSE mark[v]]
      /\ lost' = lost \ gone
      /\ UNCHANGED <<dirty, dirtyViews>>
      /\ shown \in [Windows -> SUBSET Views] /\ nextFrame \in [Windows -> SUBSET Views]
  BY <1>1 DEF DrawDone, SwapFrames, dirtVars, Sound, TypeOK
<1>4. \A v \in Views : v \in gone <=> Home(v) = w /\ v \notin nextFrame[w]
  OBVIOUS
<1> HIDE DEF gone
<1>5. \A u \in Windows : /\ shown'[u] = IF u = w THEN nextFrame[u] ELSE shown[u]
                         /\ nextFrame'[u] = IF u = w THEN {} ELSE nextFrame[u]
  BY <1>2, <1>3
<1>6. ASSUME NEW v \in Views, v \notin gone
      PROVE  mark'[v] = mark[v] /\ (v \in lost' <=> v \in lost)
  BY <1>3, <1>6
<1>7. ASSUME NEW v \in Views, NEW marks, Waits(v, marks)', Home(v) # w
      PROVE  Waits(v, marks) /\ (Home(v) \in refreshing' <=> Home(v) \in refreshing)
  <2>1. v \notin gone /\ Home(v) \in Windows
    BY <1>4, <1>7, PathOf
  <2> QED
    BY <1>3, <1>5, <1>6, <1>7, <2>1 DEF Waits
<1>8. ASSUME NEW v \in Views, NEW marks, Waits(v, marks)', Home(v) = w
      PROVE  mark'[v] # "due" /\ (mark'[v] = "delayed" => v \in dirtyViews[w])
  <2>1. v \in nextFrame[w] /\ v \notin lost'
    BY <1>2, <1>3, <1>5, <1>8 DEF Waits
  <2>2. v \notin gone
    BY <1>4, <2>1
  <2>3. v \notin lost /\ mark'[v] = mark[v]
    BY <1>6, <2>1, <2>2
  <2> QED
    BY <1>2, <2>1, <2>3 DEF MarksOK, FreshInDraw
<1>9. StaleIsMarked'
  <2> SUFFICES ASSUME NEW v \in Views, Waits(v, {"due", "delayed"})'
               PROVE  v \in dirtyViews[Home(v)] \/ Home(v) \in refreshing'
    BY <1>3 DEF StaleIsMarked
  <2>1. CASE Home(v) = w
    BY <1>8, <2>1 DEF Waits
  <2>2. CASE Home(v) # w
    BY <1>7, <2>2 DEF MarksOK, StaleIsMarked
  <2> QED
    BY <2>1, <2>2
<1>10. DueIsDirty'
  <2> SUFFICES ASSUME NEW v \in Views, Waits(v, {"due"})'
               PROVE  Home(v) \in dirty
    BY <1>3 DEF DueIsDirty
  <2>1. CASE Home(v) = w
    BY <1>8, <2>1 DEF Waits
  <2>2. CASE Home(v) # w
    BY <1>7, <2>2 DEF MarksOK, DueIsDirty
  <2> QED
    BY <2>1, <2>2
<1>11. FreshInDraw'
  <2> SUFFICES ASSUME NEW u \in drawing, u # w,
                      NEW v \in nextFrame'[u], v \notin lost'
               PROVE  mark'[v] # "due" /\ (mark'[v] = "delayed" => v \in dirtyViews[u])
    BY <1>3 DEF FreshInDraw
  <2>1. u \in Windows /\ v \in nextFrame[u]
    BY <1>5 DEF Sound, TypeOK
  <2>2. v \in Views /\ v \notin gone
    BY <1>4, <2>1 DEF Sound, TypeOK, FramesOK, Closed
  <2> QED
    BY <1>6, <2>1, <2>2 DEF MarksOK, FreshInDraw
<1>12. StaleInDraw'
  <2>1. ASSUME NEW k \in Draws'
        PROVE  k \in Draws /\ stack'[k] = stack[k] /\ stack[k].on # w
    <3>1. k \in Draws /\ k # n /\ k \in DOMAIN stack'
      BY <1>1 DEF Draws
    <3> QED
      BY <1>1, <3>1 DEF Sound, Shape, DrawsOnce
  <2>2. \A i \in Renderings : stack'[i] = stack[i]
    BY <1>1 DEF Renderings
  <2> SUFFICES ASSUME NEW k \in Draws', NEW u, u = stack[k].on,
                      stack[k].step = "prepaint",
                      NEW x \in shown'[u], x \notin nextFrame'[u], x \notin lost',
                      mark'[x] \in {"due", "delayed"}
               PROVE  \/ mark'[x] = "delayed" /\ x \in dirtyViews[u]
                      \/ Around(x) \subseteq stack[k].marked
                      \/ WholeRefresh(u)'
    BY <1>3, <2>1 DEF StaleInDraw, WholeRefresh
  <2>3. k \in Draws /\ u # w /\ u \in Windows
    BY <2>1, DrawOn
  <2>4. x \in shown[u] /\ x \notin nextFrame[u]
    BY <1>5, <2>3
  <2>5. x \in Views /\ x \notin gone
    BY <1>4, <2>3, <2>4 DEF Sound, TypeOK, FramesOK, Closed
  <2>6. mark'[x] = mark[x] /\ x \notin lost
    BY <1>6, <2>5
  <2>7. \/ mark[x] = "delayed" /\ x \in dirtyViews[u]
        \/ Around(x) \subseteq stack[k].marked
        \/ WholeRefresh(u)
    BY <2>3, <2>4, <2>6 DEF MarksOK, StaleInDraw, WholeRefresh
  <2>8. WholeRefresh(u) => WholeRefresh(u)'
    BY <1>1, <1>3, <2>2, <2>3 DEF WholeRefresh
  <2> QED
    BY <2>6, <2>7, <2>8
<1> QED
  BY <1>9, <1>10, <1>11, <1>12 DEF MarksOK

LEMMA MarksStep ==
  Sound /\ RenderingsOK /\ KeepsTrack /\ TrackersAgree /\ MarksOK /\ [Next]_vars => MarksOK'
<1> SUFFICES ASSUME Sound, RenderingsOK, KeepsTrack, TrackersAgree, MarksOK, [Next]_vars
             PROVE  MarksOK'
  OBVIOUS
<1>1. ASSUME UNCHANGED <<stack, mark, shown, nextFrame, lost, drawing, dirtyViews,
                         refreshing, dirty>>
      PROVE  MarksOK'
  BY <1>1, QuietDraws, CarriedMarks
<1>2. ASSUME NEW w \in Windows, DoRefresh(w),
             UNCHANGED <<stack, shown, nextFrame, lost, drawing, dirtyViews>>
      PROVE  MarksOK'
  <2>1. CASE w \in drawing
    BY <1>1, <1>2, <2>1 DEF DoRefresh
  <2>2. CASE w \notin drawing
    <3>1. /\ refreshing' = refreshing \cup {w} /\ dirty' = dirty \cup {w} /\ MarkRefreshed({w})
          /\ {w} \in SUBSET Windows /\ {w} \cap drawing = {} /\ SameDraws
      BY <1>2, <2>2, QuietDraws DEF DoRefresh
    <3> QED
      BY <1>2, <3>1, RefreshMarks
  <2> QED
    BY <2>1, <2>2
<1>3. CASE UNCHANGED vars
  BY <1>1, <1>3 DEF vars, drawVars, dirtVars, auxVars
<1>4. CASE Next
  <2>1. \/ RequestAnimationFrame \/ RefreshWindows
        \/ \E v \in Views : Notify(v) \/ Access(v) \/ Render(v) \/ Reuse(v)
        \/ \E w \in Windows : \E vs \in FocusesOf(w) : MoveFocus(w, vs)
        \/ \E w \in Windows : Refresh(w) \/ OpenWindow(w) \/ RequestFrame(w) \/ DrawOpen(w)
        \/ PresentFrame \/ ApplyRefresh \/ ViewDone \/ Paint \/ DrawDone
    BY <1>4, Steps
  <2>2. CASE RequestAnimationFrame \/ RefreshWindows
    BY <1>1, <2>2 DEF RequestAnimationFrame, RefreshWindows, drawVars, dirtVars, auxVars
  <2>3. ASSUME NEW v \in Views, Access(v)
        PROVE  MarksOK'
    BY <1>1, <2>3 DEF Access, drawVars, dirtVars, auxVars
  <2>4. ASSUME NEW v \in Views, Notify(v)
        PROVE  MarksOK'
    BY <2>4, QuietDraws, InvalidateMarks DEF Notify, drawVars
  <2>5. ASSUME NEW v \in Views, Render(v) \/ Reuse(v)
        PROVE  MarksOK'
    BY <2>5, RenderMarks, ReuseMarks
  <2>6. ASSUME NEW w \in Windows, NEW vs, MoveFocus(w, vs)
        PROVE  MarksOK'
    BY <1>2, <2>6 DEF MoveFocus, SetFocus
  <2>7. ASSUME NEW w \in Windows, Refresh(w)
        PROVE  MarksOK'
    BY <1>2, <2>7 DEF Refresh
  <2>8. ASSUME NEW w \in Windows, OpenWindow(w)
        PROVE  MarksOK'
    <3>1. /\ w = Cardinality(open \cup drawing) + 1 /\ BeginDraw(w, stack)
          /\ lost' = lost \cup UNION {nextFrame[u] : u \in drawing}
          /\ UNCHANGED <<mark, shown, refreshing>>
      BY <2>8 DEF OpenWindow
    <3>2. w \notin drawing
      BY <3>1, NewWindow
    <3> QED
      BY <3>1, <3>2, DrawMarks
  <2>9. ASSUME NEW w \in Windows, RequestFrame(w)
        PROVE  MarksOK'
    <3>1. Request(w, {v \in callbacks : Home(v) = w})
      BY <2>9 DEF RequestFrame
    <3>2. /\ Invalidate({v \in callbacks : Home(v) = w})
          /\ UNCHANGED <<shown, nextFrame, lost, drawing, refreshing>>
      BY <3>1 DEF Request, drawVars
    <3>3. SameDraws
      BY <2>9, RequestCarries, NoDraws DEF Carries
    <3> QED
      BY <3>2, <3>3, InvalidateMarks
  <2>10. ASSUME NEW w \in Windows, DrawOpen(w)
         PROVE  MarksOK'
    <3>1. /\ BeginDraw(w, stack) /\ drawing = {}
          /\ UNCHANGED <<mark, shown, lost, refreshing>>
      BY <2>10 DEF DrawOpen, Redraw, auxVars
    <3>2. lost' = lost \cup UNION {nextFrame[u] : u \in drawing}
      BY <3>1
    <3> QED
      BY <3>1, <3>2, DrawMarks
  <2>11. CASE PresentFrame
    <3>1. UNCHANGED <<mark, shown, nextFrame, lost, drawing, dirtyViews, refreshing, dirty>>
      BY <2>11 DEF PresentFrame, EndRequest, dirtVars, auxVars
    <3>2. SameDraws
      BY <2>11, PresentCarries, NoDraws DEF Carries
    <3> QED
      BY <3>1, <3>2, CarriedMarks
  <2>12. CASE ApplyRefresh
    <3>1. /\ stack = <<>> /\ refreshing' = refreshing \cup open /\ dirty' = dirty \cup open
          /\ MarkRefreshed(open)
          /\ UNCHANGED <<stack, shown, nextFrame, lost, drawing, dirtyViews>>
      BY <2>12 DEF ApplyRefresh
    <3>2. open \in SUBSET Windows /\ open \cap drawing = {}
      <4>1. Draws = {}
        BY <3>1 DEF Draws
      <4> QED
        BY <4>1 DEF Sound, TypeOK, Shape, DrawsOnce
    <3> QED
      BY <3>1, <3>2, QuietDraws, RefreshMarks
  <2>13. CASE ViewDone
    BY <2>13, ViewDoneMarks
  <2>14. CASE Paint
    BY <2>14, PaintMarks
  <2>15. CASE DrawDone
    BY <2>15, DrawDoneMarks
  <2> QED
    BY <2>1, <2>2, <2>3, <2>4, <2>5, <2>6, <2>7, <2>8, <2>9, <2>10, <2>11, <2>12, <2>13, <2>14,
       <2>15
<1> QED
  BY <1>3, <1>4

\* The inductive invariant of the marks.
MInv == Sound /\ TrackersAgree /\ RenderingsOK /\ Accounted /\ MarksOK

LEMMA InitMarks == Init => RenderingsOK /\ Accounted /\ MarksOK
<1> SUFFICES ASSUME Init PROVE RenderingsOK /\ Accounted /\ MarksOK
  OBVIOUS
<1>1. Draws = {} /\ Renderings = {}
  BY DEF Init, Draws, Renderings
<1>2. /\ shown = [w \in Windows |-> {}] /\ nextFrame = [w \in Windows |-> {}]
      /\ drawing = {} /\ mark = [v \in Views |-> "fresh"]
  BY DEF Init
<1>3. RenderingsOK
  BY <1>1 DEF RenderingsOK, RendersWithin, RendersInPrepaint, RefreshHeld
<1>4. CacheFilled
  BY <1>2, PathOf DEF CacheFilled
<1>5. AccessedInside /\ SeenBefore
  BY <1>1 DEF AccessedInside, SeenBefore
<1>6. KeepsTrack
  BY <1>2 DEF KeepsTrack
<1>7. StaleIsMarked /\ DueIsDirty
  BY <1>2 DEF StaleIsMarked, DueIsDirty, Waits
<1>8. FreshInDraw /\ StaleInDraw
  BY <1>1, <1>2 DEF FreshInDraw, StaleInDraw
<1> QED
  BY <1>3, <1>4, <1>5, <1>6, <1>7, <1>8 DEF Accounted, MarksOK

LEMMA AlwaysMInv == Spec => []MInv
<1>1. Init => MInv
  BY InitSound, InitMarks DEF Init, TrackersAgree, MInv
<1>2. Accounted => KeepsTrack
  BY DEF Accounted
<1>3. MInv /\ [Next]_vars => MInv'
  BY <1>2, SoundStep, TrackersStep, RenderingsStep, AccountsStep, MarksStep DEF MInv
<1> QED
  BY <1>1, <1>3, PTL DEF Spec

\* The next draw of a window renders again what changed after it was
\* rendered, also if it changed while the window was drawing, unless it was
\* recycled with a view around it that had not accessed it, or another window
\* was opened inside the draw: App::notify finds it in the trackers, since
\* what AnyView recycles is accessed again with it.
THEOREM AlwaysStaleIsMarked == Spec => []StaleIsMarked
<1>1. MInv => StaleIsMarked
  BY DEF MInv, MarksOK
<1> QED
  BY <1>1, AlwaysMInv, PTL

------------------------------------------------------------------------------
(***************************************************************************)
(* The focus of the frames.                                                *)
(***************************************************************************)
\* A window has one focus.
OneFocus == \A u, v \in focus : Home(u) = Home(v) => u = v

\* A draw finds the focus among the views it has prepainted.
FocusFound ==
  \A w \in drawing \ astray : \A v \in Views : Home(v) = w =>
    (v \in nextFocus <=> v \in focus /\ v \in nextFrame[w] /\ v \notin InRendering)

FocusDue == \A w \in Windows : FocusWaits(w) => w \in dirty \cup astray

FocusOK == OneFocus /\ FocusFound /\ FocusDue

LEMMA CarriedFocus ==
  ASSUME FocusOK, InRendering' = InRendering, dirty \subseteq dirty',
         UNCHANGED <<open, drawing, shown, nextFrame, focus, nextFocus, shownFocus, astray>>
  PROVE  FocusOK'
<1>1. OneFocus'
  BY DEF FocusOK, OneFocus
<1>2. FocusFound'
  BY DEF FocusOK, FocusFound
<1>3. FocusDue'
  BY DEF FocusOK, FocusDue, FocusWaits
<1> QED
  BY <1>1, <1>2, <1>3 DEF FocusOK

LEMMA MoveFocusOK ==
  ASSUME Sound, FocusOK, NEW w \in Windows, NEW vs \in FocusesOf(w), MoveFocus(w, vs)
  PROVE  FocusOK'
<1>1. /\ focus' = {v \in focus : Home(v) # w} \cup vs
      /\ astray' = IF w \in drawing THEN astray \cup {w} ELSE astray
      /\ UNCHANGED <<open, nextFocus, shownFocus, drawing, shown, nextFrame, stack>>
      /\ dirty \subseteq dirty' /\ (w \notin drawing => w \in dirty')
  BY DEF MoveFocus, SetFocus, DoRefresh
<1>2. /\ \A v \in vs : Home(v) = w
      /\ \A u, v \in vs : u = v
  BY DEF FocusesOf
<1>3. \A v : v \in focus' <=> (v \in focus /\ Home(v) # w) \/ v \in vs
  BY <1>1
<1>4. OneFocus'
  BY <1>2, <1>3 DEF FocusOK, OneFocus
<1>5. InRendering' = InRendering
  BY <1>1 DEF InRendering, Renderings
<1>6. FocusFound'
  <2> SUFFICES ASSUME NEW u \in drawing, u \notin astray', NEW v \in Views, Home(v) = u
               PROVE  v \in nextFocus <=> v \in focus' /\ v \in nextFrame[u] /\ v \notin InRendering
    BY <1>1, <1>5 DEF FocusFound
  <2>1. u # w /\ u \notin astray
    BY <1>1
  <2>2. v \in focus' <=> v \in focus
    BY <1>2, <1>3, <2>1
  <2> QED
    BY <2>1, <2>2 DEF FocusOK, FocusFound
<1>7. FocusDue'
  <2> SUFFICES ASSUME NEW u \in Windows, FocusWaits(u)'
               PROVE  u \in dirty' \cup astray'
    BY DEF FocusDue
  <2>1. CASE u = w
    BY <1>1, <2>1 DEF FocusWaits
  <2>2. CASE u # w
    <3>1. focus' \cap shown[u] = focus \cap shown[u]
      <4>1. \A v \in shown[u] : Home(v) = u
        BY DEF Sound, FramesOK, Closed
      <4> QED
        BY <1>2, <1>3, <2>2, <4>1
    <3>2. FocusWaits(u)
      BY <1>1, <3>1 DEF FocusWaits
    <3> QED
      BY <1>1, <3>2 DEF FocusOK, FocusDue
  <2> QED
    BY <2>1, <2>2
<1> QED
  BY <1>4, <1>6, <1>7 DEF FocusOK

LEMMA DrawFocus ==
  ASSUME Sound, FocusOK, NEW w \in Windows \ drawing, BeginDraw(w, stack),
         UNCHANGED <<open, shown, focus, shownFocus>>
  PROVE  FocusOK'
<1>1. /\ drawing' = drawing \cup {w} /\ nextFrame' = nextFrame /\ nextFrame[w] = {}
      /\ nextFocus' = {v \in nextFocus : Home(v) # w}
      /\ astray' = astray \ {w} /\ dirty' = dirty \ {w}
  BY DEF BeginDraw, Sound, TypeOK
<1>2. InRendering' = InRendering
  BY DrawCarries, CarriesRendering
<1>3. OneFocus'
  BY DEF FocusOK, OneFocus
<1>4. FocusFound'
  <2> SUFFICES ASSUME NEW u \in drawing \cup {w}, u \notin astray \ {w},
                      NEW v \in Views, Home(v) = u
               PROVE  v \in nextFocus' <=> v \in focus /\ v \in nextFrame[u] /\ v \notin InRendering
    BY <1>1, <1>2 DEF FocusFound
  <2>1. CASE u = w
    BY <1>1, <2>1
  <2>2. CASE u # w
    BY <1>1, <2>2 DEF FocusOK, FocusFound
  <2> QED
    BY <2>1, <2>2
<1>5. FocusDue'
  BY <1>1 DEF FocusOK, FocusDue, FocusWaits
<1> QED
  BY <1>3, <1>4, <1>5 DEF FocusOK

LEMMA RenderFocus ==
  ASSUME Sound, FocusOK, NEW v \in Views, Render(v)
  PROVE  FocusOK'
<1> DEFINE n == Len(stack)
           w == Home(v)
<1>1. /\ \A i \in DOMAIN stack : GoesOn(stack[i], stack'[i])
      /\ Renderings' = Renderings \cup {n + 1} /\ stack'[n + 1].on = v
  BY RenderStack
<1>2. w \in drawing /\ w \in Windows /\ Inside(v) \cap nextFrame[w] = {} /\ v \in Inside(v)
  <2>1. Shows(v)
    BY DEF Render
  <2> QED
    BY <2>1, Showing, PathOf
<1>3. /\ nextFrame' = [nextFrame EXCEPT ![w] = @ \cup {v}]
      /\ nextFrame \in [Windows -> SUBSET Views]
      /\ UNCHANGED <<open, drawing, shown, focus, nextFocus, shownFocus, astray, dirty>>
  BY DEF Render, focusVars, dirtVars, Sound, TypeOK
<1>4. InRendering' = InRendering \cup {v}
  BY <1>1 DEF InRendering, GoesOn, Renderings
<1>5. OneFocus'
  BY <1>3 DEF FocusOK, OneFocus
<1>6. FocusFound'
  <2> SUFFICES ASSUME NEW u \in drawing, u \notin astray, NEW x \in Views, Home(x) = u
               PROVE  x \in nextFocus <=>
                        x \in focus /\ x \in nextFrame'[u] /\ x \notin InRendering \cup {v}
    BY <1>3, <1>4 DEF FocusFound
  <2>1. x \in nextFocus <=> x \in focus /\ x \in nextFrame[u] /\ x \notin InRendering
    BY DEF FocusOK, FocusFound
  <2>2. x # v => (x \in nextFrame'[u] <=> x \in nextFrame[u])
    BY <1>2, <1>3, PathOf
  <2>3. x = v => x \notin nextFrame[u]
    BY <1>2
  <2> QED
    BY <2>1, <2>2, <2>3
<1>7. FocusDue'
  BY <1>3 DEF FocusOK, FocusDue, FocusWaits
<1> QED
  BY <1>5, <1>6, <1>7 DEF FocusOK

LEMMA ReuseFocus ==
  ASSUME Sound, FocusOK, NEW v \in Views, Reuse(v)
  PROVE  FocusOK'
<1> DEFINE w == Home(v)
           vs == Inside(v) \cap shown[w]
<1>1. /\ Shows(v) /\ FindFocus(vs)
      /\ nextFrame' = [nextFrame EXCEPT ![w] = @ \cup vs]
      /\ nextFrame \in [Windows -> SUBSET Views]
      /\ UNCHANGED <<open, drawing, shown, focus, shownFocus, astray, dirty>>
  BY DEF Reuse, Recycle, dirtVars, Sound, TypeOK
<1>2. w \in drawing /\ w \in Windows /\ vs \cap nextFrame[w] = {}
  BY <1>1, Showing
<1>3. \A x \in vs : x \in Views /\ Home(x) = w
  BY InsideOf
<1> HIDE DEF vs
<1>4. \A u \in Windows : nextFrame'[u] = IF u = w THEN nextFrame[u] \cup vs ELSE nextFrame[u]
  BY <1>1, <1>2
<1>5. InRendering' = InRendering
  BY ReuseCarries, CarriesRendering
<1>6. \A x \in vs : x \notin InRendering
  BY <1>2, <1>3, RenderedIn DEF InRendering
<1>7. OneFocus'
  BY <1>1 DEF FocusOK, OneFocus
<1>8. FocusFound'
  <2> SUFFICES ASSUME NEW u \in drawing, u \notin astray, NEW x \in Views, Home(x) = u
               PROVE  x \in nextFocus' <=> x \in focus /\ x \in nextFrame'[u] /\ x \notin InRendering
    BY <1>1, <1>5 DEF FocusFound
  <2>1. x \in nextFocus <=> x \in focus /\ x \in nextFrame[u] /\ x \notin InRendering
    BY DEF FocusOK, FocusFound
  <2>2. u \in Windows
    BY DEF Sound, TypeOK
  <2>3. CASE vs \cap focus = {}
    <3>1. nextFocus' = nextFocus
      BY <1>1, <2>3 DEF FindFocus
    <3> QED
      BY <1>4, <2>1, <2>2, <2>3, <3>1
  <2>4. CASE vs \cap focus # {}
    <3>1. PICK y \in vs : y \in focus
      BY <2>4
    <3>2. x \in nextFocus' <=>
            (x \in nextFocus /\ \A z \in vs : Home(x) # Home(z)) \/ x \in vs \cap focus
      BY <1>1, <2>4 DEF FindFocus
    <3>3. CASE u = w
      <4>1. x \in nextFocus' <=> x \in vs \cap focus
        BY <1>3, <3>1, <3>2, <3>3
      <4>2. x \in focus => x = y
        BY <1>3, <3>1, <3>3 DEF FocusOK, OneFocus
      <4> QED
        BY <1>4, <1>6, <2>2, <3>1, <3>3, <4>1, <4>2
    <3>4. CASE u # w
      BY <1>3, <1>4, <2>1, <2>2, <3>2, <3>4
    <3> QED
      BY <3>3, <3>4
  <2> QED
    BY <2>3, <2>4
<1>9. FocusDue'
  BY <1>1 DEF FocusOK, FocusDue, FocusWaits
<1> QED
  BY <1>7, <1>8, <1>9 DEF FocusOK

LEMMA ViewDoneFocus ==
  ASSUME Sound, FocusOK, ViewDone
  PROVE  FocusOK'
<1> DEFINE n == Len(stack)
           v == stack[n].on
           w == Home(v)
<1>1. /\ n \in Renderings /\ Top = stack[n]
      /\ Renderings' = Renderings \ {n} /\ \A i \in DOMAIN stack' : stack'[i] = stack[i]
  BY ViewDoneStack
<1>2. v \in Views /\ w \in drawing /\ v \in nextFrame[w]
  BY <1>1, RenderedInDraw, RenderedIn
<1>3. /\ FindFocus({v})
      /\ UNCHANGED <<open, drawing, shown, nextFrame, focus, shownFocus, astray, dirty>>
  BY <1>1 DEF ViewDone, EndView, dirtVars
<1>4. InRendering' = InRendering \ {v}
  <2>1. \A i \in Renderings : stack[i].on = v => i = n
    BY <1>1 DEF Sound, FramesOK, RendersNew
  <2> QED
    BY <1>1, <2>1 DEF InRendering, Renderings
<1> HIDE DEF v
<1>5. OneFocus'
  BY <1>3 DEF FocusOK, OneFocus
<1>6. FocusFound'
  <2> SUFFICES ASSUME NEW u \in drawing, u \notin astray, NEW x \in Views, Home(x) = u
               PROVE  x \in nextFocus' <=>
                        x \in focus /\ x \in nextFrame[u] /\ x \notin InRendering \ {v}
    BY <1>3, <1>4 DEF FocusFound
  <2>1. x \in nextFocus <=> x \in focus /\ x \in nextFrame[u] /\ x \notin InRendering
    BY DEF FocusOK, FocusFound
  <2>2. CASE v \notin focus
    <3>1. nextFocus' = nextFocus
      BY <1>3, <2>2 DEF FindFocus
    <3> QED
      BY <2>1, <2>2, <3>1
  <2>3. CASE v \in focus
    <3>1. x \in nextFocus' <=> (x \in nextFocus /\ Home(x) # w) \/ x = v
      BY <1>3, <2>3 DEF FindFocus
    <3>2. x \in focus /\ Home(x) = w => x = v
      BY <2>3 DEF FocusOK, OneFocus
    <3> QED
      BY <1>2, <2>1, <2>3, <3>1, <3>2
  <2> QED
    BY <2>2, <2>3
<1>7. FocusDue'
  BY <1>3 DEF FocusOK, FocusDue, FocusWaits
<1> QED
  BY <1>5, <1>6, <1>7 DEF FocusOK

\* The frame that was drawn has the focus, unless it moved meanwhile.
LEMMA DrawDoneFocus ==
  ASSUME Sound, FocusOK, DrawDone
  PROVE  FocusOK'
<1> DEFINE n == Len(stack)
           w == stack[n].on
<1>1. n \in Draws /\ Top = stack[n]
  BY DrawDoneStack
<1>2. w \in drawing /\ w \in Windows
  BY <1>1, DrawOn
<1>3. /\ drawing' = drawing \ {w} /\ open' = open \cup {w}
      /\ shown' = [shown EXCEPT ![w] = nextFrame[w]]
      /\ nextFrame' = [nextFrame EXCEPT ![w] = {}]
      /\ shownFocus' = {v \in shownFocus : Home(v) # w} \cup {v \in nextFocus : Home(v) = w}
      /\ nextFocus' = {v \in nextFocus : Home(v) # w}
      /\ UNCHANGED <<focus, astray, dirty>>
      /\ shown \in [Windows -> SUBSET Views] /\ nextFrame \in [Windows -> SUBSET Views]
      /\ nextFocus \subseteq Views /\ focus \subseteq Views
  BY <1>1, FocusAssumption DEF DrawDone, SwapFrames, dirtVars, Sound, TypeOK
<1>4. \A u \in Windows : /\ shown'[u] = IF u = w THEN nextFrame[u] ELSE shown[u]
                         /\ nextFrame'[u] = IF u = w THEN {} ELSE nextFrame[u]
  BY <1>2, <1>3
<1>5. InRendering' = InRendering
  BY DrawDoneCarries, CarriesRendering
<1>6. \A v \in InRendering : Home(v) # w
  BY <1>1, NoneAbove DEF InRendering
<1>7. OneFocus'
  BY <1>3 DEF FocusOK, OneFocus
<1>8. FocusFound'
  <2> SUFFICES ASSUME NEW u \in drawing, u # w, u \notin astray, NEW v \in Views, Home(v) = u
               PROVE  v \in nextFocus' <=> v \in focus /\ v \in nextFrame'[u] /\ v \notin InRendering
    BY <1>3, <1>5 DEF FocusFound
  <2>1. v \in nextFocus <=> v \in focus /\ v \in nextFrame[u] /\ v \notin InRendering
    BY DEF FocusOK, FocusFound
  <2>2. u \in Windows
    BY DEF Sound, TypeOK
  <2> QED
    BY <1>3, <1>4, <2>1, <2>2
<1>9. FocusDue'
  <2> SUFFICES ASSUME NEW u \in Windows, FocusWaits(u)'
               PROVE  u \in dirty \cup astray
    BY <1>3 DEF FocusDue
  <2>1. CASE u = w
    <3> SUFFICES ASSUME w \notin astray PROVE FALSE
      BY <2>1
    <3>1. {v \in shownFocus' : Home(v) = w} = {v \in nextFocus : Home(v) = w}
      BY <1>3
    <3>2. \A v \in nextFrame[w] : v \in Views /\ Home(v) = w
      BY <1>1, DrawOn
    <3>3. \A v \in Views : Home(v) = w => (v \in nextFocus <=> v \in focus /\ v \in nextFrame[w])
      BY <1>2, <1>6 DEF FocusOK, FocusFound
    <3>4. {v \in nextFocus : Home(v) = w} = focus \cap nextFrame[w]
      BY <1>3, <3>2, <3>3
    <3> QED
      BY <1>2, <1>3, <1>4, <2>1, <3>1, <3>4 DEF FocusWaits
  <2>2. CASE u # w
    <3>1. {v \in shownFocus' : Home(v) = u} = {v \in shownFocus : Home(v) = u}
      BY <1>3, <2>2
    <3>2. FocusWaits(u)
      BY <1>3, <1>4, <2>2, <3>1 DEF FocusWaits
    <3> QED
      BY <3>2 DEF FocusOK, FocusDue
  <2> QED
    BY <2>1, <2>2
<1> QED
  BY <1>7, <1>8, <1>9 DEF FocusOK

LEMMA FocusStep == Sound /\ FocusOK /\ [Next]_vars => FocusOK'
<1> SUFFICES ASSUME Sound, FocusOK, [Next]_vars PROVE FocusOK'
  OBVIOUS
<1>1. ASSUME UNCHANGED <<stack, open, drawing, shown, nextFrame, focusVars>>,
             dirty \subseteq dirty'
      PROVE  FocusOK'
  BY <1>1, QuietCarries, CarriesRendering, CarriedFocus DEF focusVars
<1>2. CASE UNCHANGED vars
  BY <1>1, <1>2 DEF vars, drawVars, dirtVars
<1>3. CASE Next
  <2>1. \/ RequestAnimationFrame \/ RefreshWindows
        \/ \E v \in Views : Notify(v) \/ Access(v) \/ Render(v) \/ Reuse(v)
        \/ \E w \in Windows : \E vs \in FocusesOf(w) : MoveFocus(w, vs)
        \/ \E w \in Windows : Refresh(w) \/ OpenWindow(w) \/ RequestFrame(w) \/ DrawOpen(w)
        \/ PresentFrame \/ ApplyRefresh \/ ViewDone \/ Paint \/ DrawDone
    BY <1>3, Steps
  <2>2. CASE RequestAnimationFrame \/ RefreshWindows
    BY <1>1, <2>2 DEF RequestAnimationFrame, RefreshWindows, drawVars, dirtVars
  <2>3. ASSUME NEW v \in Views, Notify(v) \/ Access(v)
        PROVE  FocusOK'
    BY <1>1, <2>3 DEF Notify, Access, Invalidate, drawVars, dirtVars
  <2>4. ASSUME NEW v \in Views, Render(v) \/ Reuse(v)
        PROVE  FocusOK'
    BY <2>4, RenderFocus, ReuseFocus
  <2>5. ASSUME NEW w \in Windows, NEW vs \in FocusesOf(w), MoveFocus(w, vs)
        PROVE  FocusOK'
    BY <2>5, MoveFocusOK
  <2>6. ASSUME NEW w \in Windows, Refresh(w)
        PROVE  FocusOK'
    BY <1>1, <2>6 DEF Refresh, DoRefresh
  <2>7. ASSUME NEW w \in Windows, OpenWindow(w)
        PROVE  FocusOK'
    <3>1. /\ w = Cardinality(open \cup drawing) + 1 /\ BeginDraw(w, stack)
          /\ UNCHANGED <<open, shown, focus, shownFocus>>
      BY <2>7 DEF OpenWindow
    <3>2. w \notin drawing
      BY <3>1, NewWindow
    <3> QED
      BY <3>1, <3>2, DrawFocus
  <2>8. ASSUME NEW w \in Windows, RequestFrame(w)
        PROVE  FocusOK'
    <3>1. Request(w, {v \in callbacks : Home(v) = w})
      BY <2>8 DEF RequestFrame
    <3>2. /\ dirty \subseteq dirty'
          /\ UNCHANGED <<open, drawing, shown, nextFrame, focus, nextFocus, shownFocus, astray>>
      BY <3>1 DEF Request, Invalidate, drawVars, focusVars
    <3> QED
      BY <2>8, <3>2, RequestCarries, CarriesRendering, CarriedFocus
  <2>9. ASSUME NEW w \in Windows, DrawOpen(w)
        PROVE  FocusOK'
    <3>1. /\ BeginDraw(w, stack) /\ w \notin drawing
          /\ UNCHANGED <<open, shown, focus, shownFocus>>
      BY <2>9 DEF DrawOpen, Redraw
    <3> QED
      BY <3>1, DrawFocus
  <2>10. CASE PresentFrame
    <3>1. UNCHANGED <<open, drawing, shown, nextFrame, focus, nextFocus, shownFocus, astray, dirty>>
      BY <2>10 DEF PresentFrame, EndRequest, focusVars, dirtVars
    <3> QED
      BY <2>10, <3>1, PresentCarries, CarriesRendering, CarriedFocus
  <2>11. CASE ApplyRefresh
    BY <1>1, <2>11 DEF ApplyRefresh
  <2>12. CASE ViewDone
    BY <2>12, ViewDoneFocus
  <2>13. CASE Paint
    <3>1. UNCHANGED <<open, drawing, shown, nextFrame, focus, nextFocus, shownFocus, astray, dirty>>
      BY <2>13 DEF Paint, focusVars, dirtVars, drawVars
    <3> QED
      BY <2>13, <3>1, PaintCarries, CarriesRendering, CarriedFocus
  <2>14. CASE DrawDone
    BY <2>14, DrawDoneFocus
  <2> QED
    BY <2>1, <2>2, <2>3, <2>4, <2>5, <2>6, <2>7, <2>8, <2>9, <2>10, <2>11, <2>12, <2>13, <2>14
<1> QED
  BY <1>2, <1>3

\* A window whose view changed outside of its draws is dirty, so that the
\* next frame request draws it, and so is one whose frame does not have its
\* focus, unless the focus moved while the window drew: Window::refresh does
\* nothing then.
THEOREM AlwaysStaleIsDue == Spec => []StaleIsDue
<1>1. Init => FocusOK
  BY DEF Init, FocusOK, OneFocus, FocusFound, FocusDue, FocusWaits
<1>2. MInv => Sound
  BY DEF MInv
<1>3. MInv /\ FocusOK => StaleIsDue
  BY DEF MInv, MarksOK, DueIsDirty, FocusOK, FocusDue, StaleIsDue
<1> QED
  BY <1>1, <1>2, <1>3, AlwaysMInv, FocusStep, PTL DEF Spec
=============================================================================
