--------------------------- MODULE Dialogs_proofs ---------------------------
(* Theorems about Dialogs for every number of dialogs, every depth of nested  *)
(* event loops and every limit, with their proofs.                            *)
EXTENDS Dialogs, SequenceTheorems, TLAPS

-----------------------------------------------------------------------------
(* The inductive invariant *)

Loops == 1..Len(stack)
Boxed(i) == stack[i].kind = "box"
Waits(i) == stack[i].kind = "wait"

\* Who waits for what, and whose boxes do what when they are closed.
FrameOK(f) ==
  \/ f.kind = "wait" /\ f.win \in Ops /\ f.then = "operation"
  \/ f.kind = "wait" /\ f.win = "exit" /\ f.then = "exit"
  \/ f.kind = "wait" /\ f.win \in Keys /\ f.then \in {"setUp", "recovered"}
  \/ f.kind = "box" /\ f.win \in Asking /\ f.then = "schedule"
  \/ f.kind = "box" /\ f.win = "reset" /\ f.then = "destroy"
  \/ f.kind = "box" /\ f.win \in Windows \union {"dashboard"} /\ f.then = "nothing"
FramesOK == \A i \in Loops : FrameOK(stack[i])

\* An open window has the grab or was robbed of it; the exit dialog has somebody waiting.
Held ==
  /\ grab # "none" => win[grab].open
  /\ \A w \in Windows : win[w].open => grab = w \/ win[w].robbed
  /\ win["exit"].open => \E i \in Loops : Waits(i) /\ stack[i].win = "exit"
  /\ win["setup"].open => booted

\* A window is waited for once and has one box, which came later.
Once ==
  \A i, j \in Loops :
    stack[i].win = stack[j].win /\ stack[i].win # "dashboard" =>
      /\ stack[i].kind = stack[j].kind => i = j
      /\ Boxed(i) /\ Waits(j) => j < i

\* Over the box of the window that has the grab there are only boxes; a dialog that is
\* waited for under another loop was robbed, or has that loop's box, and is then open.
Nested ==
  \A i, j \in Loops : i < j =>
    /\ Boxed(i) /\ stack[i].win = grab => Boxed(j)
    /\ Waits(i) =>
         /\ win[stack[i].win].robbed \/ (Boxed(j) /\ stack[j].win = stack[i].win)
         /\ win[stack[i].win].open \/ win[stack[i].win].robbed

Inv == FramesOK /\ Held /\ Once /\ Nested /\ StaleOnlyIfRobbed
IInv == TypeOK /\ Inv

-----------------------------------------------------------------------------
(* Windows *)

Fields == [open : BOOLEAN, enabled : BOOLEAN, timer : BOOLEAN,
           result : BOOLEAN, stale : BOOLEAN, robbed : BOOLEAN]
Fixed == {"prompt", "exit", "setup", "recovery", "reset"}

LEMMA Names ==
  /\ Windows = Ops \union Keys \union Fixed /\ Asking = Ops \union {"exit", "prompt"}
  /\ Ops \cap Keys = {} /\ Ops \cap Fixed = {} /\ Keys \cap Fixed = {}
  /\ "none" \notin Windows /\ "dashboard" \notin Windows /\ Asking \subseteq Windows
BY SlotsAssumption DEF Windows, Asking, Masters, Fixed

\* What matters of a window: whether it is open, robbed and stale.
Alike(r, s) == r.open = s.open /\ r.robbed = s.robbed /\ r.stale = s.stale
\* A timer runs only for a window that is open.
Timed(r) == r.timer => r.open

LEMMA ClosedFields ==
  Closed \in Fields /\ ~Closed.open /\ ~Closed.timer /\ ~Closed.robbed /\ ~Closed.stale
BY DEF Closed, Fields

LEMMA RecordFields ==
  ASSUME NEW r \in Fields, NEW locked \in BOOLEAN
  PROVE  /\ \A s \in {Cancelled(r), Disabled(r), Enabled(r), Enabled(Cancelled(r)),
                      Disabled(Cancelled(r)), Refreshed(r, locked), Refreshed(Cancelled(r), locked),
                      Scheduled(r)} :
              s \in Fields /\ Alike(s, r)
         /\ ~Cancelled(r).timer /\ ~Enabled(Cancelled(r)).timer /\ ~Disabled(Cancelled(r)).timer
         /\ Disabled(r).timer = r.timer
<1>1. ASSUME NEW s \in Fields
      PROVE  /\ Cancelled(s) \in Fields /\ Alike(Cancelled(s), s) /\ ~Cancelled(s).timer
             /\ Scheduled(s) \in Fields /\ Alike(Scheduled(s), s)
             /\ Disabled(s) \in Fields /\ Alike(Disabled(s), s) /\ Disabled(s).timer = s.timer
             /\ Enabled(s) \in Fields /\ Alike(Enabled(s), s) /\ Enabled(s).timer = s.timer
  BY DEF Fields, Alike, Cancelled, Scheduled, Disabled, Enabled
<1>2. ASSUME NEW s \in Fields
      PROVE  Refreshed(s, locked) \in Fields /\ Alike(Refreshed(s, locked), s)
  BY <1>1 DEF Refreshed, Alike
<1> QED BY <1>1, <1>2 DEF Alike

LEMMA DestroyedFields ==
  ASSUME NEW r \in Fields, NEW answer \in BOOLEAN
  PROVE  LET s == Destroyed(r, answer)
         IN  /\ s \in Fields /\ ~s.open /\ ~s.timer
             /\ s.robbed = r.robbed /\ s.stale = r.stale
BY DEF Destroyed, Closed, Fields

-----------------------------------------------------------------------------
(* Event loops *)

LEMMA Stack ==
  ASSUME TypeOK
  PROVE  /\ Len(stack) \in Nat /\ DOMAIN stack = Loops
         /\ \A i \in Loops : stack[i] \in Frame
         /\ stack # <<>> => Len(stack) \in Loops /\ Len(stack) # 0
         /\ stack = <<>> => Loops = {}
         /\ Top = stack[Len(stack)]
<1>1. stack \in Seq(Frame)
  BY DEF TypeOK
<1>2. Len(stack) \in Nat /\ DOMAIN stack = 1..Len(stack) /\ \A i \in 1..Len(stack) : stack[i] \in Frame
  BY <1>1, LenProperties, ElementOfSeq
<1>3. stack # <<>> => Len(stack) # 0
  BY <1>1, EmptySeq
<1>4. stack = <<>> => Len(stack) = 0
  BY EmptySeq
<1> QED BY <1>2, <1>3, <1>4 DEF Loops, Top, Last

LEMMA Pushed ==
  ASSUME TypeOK, NEW f \in Frame, Push(f)
  PROVE  /\ stack' \in Seq(Frame) /\ Len(stack') <= MaxDepth
         /\ Len(stack') = Len(stack) + 1
         /\ \A i \in Loops : stack'[i] = stack[i]
         /\ stack'[Len(stack) + 1] = f
<1>1. stack \in Seq(Frame) /\ Len(stack) \in Nat /\ stack' = Append(stack, f) /\ Len(stack) < MaxDepth
  BY Stack DEF TypeOK, Push
<1>2. stack' \in Seq(Frame) /\ Len(stack') = Len(stack) + 1
      /\ (\A i \in 1..Len(stack) : stack'[i] = stack[i]) /\ stack'[Len(stack) + 1] = f
  BY <1>1, AppendProperties
<1>3. Len(stack') <= MaxDepth
  BY <1>1, <1>2, NumbersAssumption
<1> QED BY <1>2, <1>3 DEF Loops

LEMMA Popped ==
  ASSUME TypeOK, stack # <<>>
  PROVE  /\ Front(stack) \in Seq(Frame) /\ Len(Front(stack)) = Len(stack) - 1
         /\ \A i \in 1..Len(stack) - 1 : Front(stack)[i] = stack[i]
<1>1. stack \in Seq(Frame) /\ Len(stack) \in Nat /\ Len(stack) # 0
  BY Stack DEF TypeOK
<1>2. \A i \in 1..Len(stack) - 1 : stack[i] \in Frame
  BY <1>1, Stack DEF Loops
<1> DEFINE n == Len(stack) - 1
<1>3. n \in Nat /\ 1 \in Int /\ n \in Int
  BY <1>1
<1>4. /\ Front(stack) \in Seq(Frame)
      /\ Len(Front(stack)) = IF 1 <= n THEN n - 1 + 1 ELSE 0
      /\ \A i \in 1..n - 1 + 1 : Front(stack)[i] = stack[1 + i - 1]
  <2> HIDE DEF n
  <2>1. Front(stack) = SubSeq(stack, 1, n)
    BY DEF Front, n
  <2>2. \A i \in 1..n : stack[i] \in Frame
    BY <1>2 DEF n
  <2> QED BY <1>3, <2>1, <2>2, SubSeqProperties
<1> HIDE DEF n
<1>5. ASSUME NEW i \in 1..n PROVE i \in 1..n - 1 + 1 /\ 1 + i - 1 = i
  BY <1>3
<1>6. Len(Front(stack)) = n
  BY <1>3, <1>4
<1>7. \A i \in 1..n : Front(stack)[i] = stack[i]
  BY <1>4, <1>5
<1> QED BY <1>4, <1>6, <1>7 DEF n

LEMMA BoxFrame ==
  ASSUME NEW w \in Windows \union {"dashboard"}, NEW then \in Thens
  PROVE  /\ Box(w, then) \in Frame
         /\ Box(w, then).kind = "box" /\ Box(w, then).win = w /\ Box(w, then).then = then
BY DEF Box, Frame

LEMMA WaitFrame ==
  ASSUME NEW w \in Windows, NEW then \in Thens
  PROVE  /\ Wait(w, then) \in Frame
         /\ Wait(w, then).kind = "wait" /\ Wait(w, then).win = w /\ Wait(w, then).then = then
BY DEF Wait, Frame

LEMMA FrameFields ==
  ASSUME TypeOK, NEW i \in Loops
  PROVE  /\ Boxed(i) \/ Waits(i)
         /\ ~(Boxed(i) /\ Waits(i))
         /\ stack[i].win \in Windows \union {"dashboard"}
         /\ FramesOK /\ Waits(i) =>
              stack[i].win \in Ops \union Keys \union {"exit"} /\ stack[i].win \in Windows
BY Stack, Names DEF Frame, Boxed, Waits, FramesOK, FrameOK, Fixed

LEMMA Owners ==
  ASSUME TypeOK, NEW w
  PROVE  /\ HasBox(w) <=> \E i \in Loops : Boxed(i) /\ stack[i].win = w
         /\ Awaited(w) <=> \E i \in Loops : Waits(i) /\ stack[i].win = w
         /\ w \in Windows /\ HasBox(w) => win[w].open
BY Stack, Names DEF HasBox, Awaited, Boxed, Waits, TypeOK

-----------------------------------------------------------------------------
(* What most steps have in common *)

Scalars ==
  /\ booted \in BOOLEAN /\ passwordSet \in BOOLEAN /\ running \in BOOLEAN
  /\ attempts \in 0..(MaxAttempts - 1) /\ lockout \in 0..LockTicks
Wins == win \in [Windows -> Fields] /\ \A w \in Asking : Timed(win[w])
Owned == \A i \in Loops : Boxed(i) => stack[i].win = "dashboard" \/ win[stack[i].win].open

LEMMA TypeParts == TypeOK => Scalars /\ Wins /\ Owned
<1>1. TypeOK => Scalars /\ Wins
  BY DEF TypeOK, Scalars, Wins, Fields, Timed
<1>2. TypeOK => Owned
  BY Stack DEF TypeOK, Owned, Boxed
<1> QED BY <1>1, <1>2

LEMMA TypeOfParts ==
  Scalars /\ Wins /\ Owned /\ grab \in Windows \union {"none"}
    /\ stack \in Seq(Frame) /\ Len(stack) <= MaxDepth
  => TypeOK
<1>1. stack \in Seq(Frame) => DOMAIN stack = Loops
  BY LenProperties DEF Loops
<1> QED BY <1>1 DEF TypeOK, Scalars, Wins, Owned, Fields, Timed, Boxed

\* The same after a step.
LEMMA TypeOfPartsNext ==
  ASSUME Scalars', Wins', Owned', grab' \in Windows \union {"none"},
         stack' \in Seq(Frame), Len(stack') <= MaxDepth
  PROVE  TypeOK'
<1>1. (Scalars /\ Wins /\ Owned /\ grab \in Windows \union {"none"}
         /\ stack \in Seq(Frame) /\ Len(stack) <= MaxDepth
       => TypeOK)'
  BY TypeOfParts, PTL
<1> QED BY <1>1

\* The event loops after a frame is added.
LEMMA LoopsPushed ==
  ASSUME TypeOK, NEW f \in Frame, Push(f)
  PROVE  /\ Loops' = Loops \union {Len(stack) + 1} /\ Len(stack) + 1 \notin Loops
         /\ Len(stack) + 1 \in Nat
         /\ \A i \in Loops : /\ i \in Nat /\ i < Len(stack) + 1
                             /\ (Boxed(i)' <=> Boxed(i)) /\ (Waits(i)' <=> Waits(i))
         /\ \A j : j = Len(stack) + 1 =>
              (Boxed(j)' <=> f.kind = "box") /\ (Waits(j)' <=> f.kind = "wait")
<1> DEFINE n == Len(stack)
<1>1. /\ n \in Nat /\ Len(stack') = n + 1
      /\ \A i \in 1..n : stack'[i] = stack[i]
      /\ stack'[n + 1] = f
  BY Pushed, Stack DEF Loops
<1>2. Loops = 1..n /\ Loops' = 1..n + 1
  BY <1>1 DEF Loops
<1>3. \A i \in Loops : (Boxed(i)' <=> Boxed(i)) /\ (Waits(i)' <=> Waits(i))
  BY <1>1, <1>2 DEF Boxed, Waits
<1>4. \A j : j = n + 1 => (Boxed(j)' <=> f.kind = "box") /\ (Waits(j)' <=> f.kind = "wait")
  BY <1>1 DEF Boxed, Waits
<1> HIDE DEF n
<1>5. 1..n + 1 = 1..n \union {n + 1} /\ n + 1 \notin 1..n /\ n + 1 \in Nat
      /\ \A i \in 1..n : i \in Nat /\ i < n + 1
  BY <1>1
<1> QED BY <1>2, <1>3, <1>4, <1>5 DEF n

\* While an event loop serves, a dialog that is waited for has the grab or was robbed.
LEMMA Served ==
  ASSUME IInv, Serving, NEW i \in Loops, Waits(i)
  PROVE  win[stack[i].win].robbed \/ (win[stack[i].win].open /\ grab = stack[i].win)
<1>1. TypeOK /\ FramesOK /\ Held /\ Nested
  BY DEF IInv, Inv
<1>2. stack[i].win \in Windows
  BY <1>1, FrameFields
<1>3. Len(stack) \in Nat /\ Len(stack) \in Loops /\ stack # <<>> /\ Top = stack[Len(stack)]
  BY <1>1, Stack
<1>4. win[stack[i].win].open \/ win[stack[i].win].robbed
  <2>1. CASE i = Len(stack)
    BY <1>3, <2>1 DEF Serving, Returning, Waits
  <2>2. CASE i # Len(stack)
    <3>1. i < Len(stack)
      BY <1>3, <2>2 DEF Loops
    <3> QED BY <1>1, <1>3, <3>1 DEF Nested
  <2> QED BY <2>1, <2>2
<1> QED BY <1>1, <1>2, <1>4 DEF Held

\* Controls change, and perhaps a box opens over a window that can be clicked.
LEMMA Touches ==
  ASSUME IInv, Scalars', Wins', booted => booted', grab' = grab,
         \A v \in Windows : Alike(win'[v], win[v]),
         \/ stack' = stack
         \/ \E w \in Windows, then \in Thens :
              Clickable(w) /\ FrameOK(Box(w, then)) /\ Push(Box(w, then))
  PROVE  IInv'
<1>1. TypeOK /\ FramesOK /\ Held /\ Once /\ Nested /\ StaleOnlyIfRobbed /\ Owned
  BY TypeParts DEF IInv, Inv
<1>2. StaleOnlyIfRobbed'
  BY <1>1, Names DEF StaleOnlyIfRobbed, Alike
<1>3. grab' \in Windows \union {"none"} /\ "exit" \in Windows /\ "setup" \in Windows
  BY <1>1, Names DEF TypeOK, Fixed
<1>4. \A i \in Loops : stack[i].win \in Windows \union {"dashboard"}
  BY <1>1, FrameFields
<1>5. \A i \in Loops : Waits(i) => stack[i].win \in Windows
  BY <1>1, FrameFields
<1>6. CASE stack' = stack
  <2>1. TypeOK'
    <3>1. Owned'
      BY <1>1, <1>4, <1>6 DEF Owned, Loops, Boxed, Alike
    <3>2. stack' \in Seq(Frame) /\ Len(stack') <= MaxDepth
      BY <1>1, <1>6 DEF TypeOK
    <3> QED BY <1>3, <3>1, <3>2, TypeOfPartsNext
  <2>2. FramesOK' /\ Once'
    BY <1>1, <1>6 DEF FramesOK, Once, Loops, Boxed, Waits
  <2>3. Held'
    BY <1>1, <1>3, <1>6 DEF Held, Alike, Loops, Waits, TypeOK
  <2>4. Nested'
    BY <1>1, <1>5, <1>6 DEF Nested, Loops, Boxed, Waits, Alike
  <2> QED BY <1>2, <2>1, <2>2, <2>3, <2>4 DEF IInv, Inv
<1>7. CASE \E w \in Windows, then \in Thens :
             Clickable(w) /\ FrameOK(Box(w, then)) /\ Push(Box(w, then))
  <2> PICK w \in Windows, then \in Thens :
             Clickable(w) /\ FrameOK(Box(w, then)) /\ Push(Box(w, then))
    BY <1>7
  <2> DEFINE n == Len(stack)
             f == Box(w, then)
  <2>1. f \in Frame /\ f.kind = "box" /\ f.win = w
    BY BoxFrame
  <2>2. /\ Serving /\ win[w].open /\ grab \in {w, "none"} /\ w # "dashboard"
        /\ \A i \in Loops : Boxed(i) => stack[i].win # w
    BY <1>1, Owners, Names DEF Clickable
  <2>3. /\ stack' \in Seq(Frame) /\ Len(stack') <= MaxDepth /\ Len(stack') = n + 1
        /\ \A i \in Loops : stack'[i] = stack[i]
        /\ stack'[n + 1] = f /\ n \in Nat
    BY <1>1, <2>1, Pushed, Stack
  <2> HIDE DEF f
  <2>4. /\ Loops' = Loops \union {n + 1} /\ n + 1 \notin Loops /\ n + 1 \in Nat
        /\ \A i \in Loops : /\ i \in Nat /\ i < n + 1
                            /\ (Boxed(i)' <=> Boxed(i)) /\ (Waits(i)' <=> Waits(i))
        /\ \A j : j = n + 1 => Boxed(j)' /\ ~Waits(j)'
    BY <1>1, <2>1, LoopsPushed DEF f
  <2> HIDE DEF n
  <2>5. TypeOK'
    <3>1. Owned'
      BY <1>1, <1>4, <2>1, <2>2, <2>3, <2>4 DEF Owned, Alike
    <3> QED BY <1>3, <2>3, <3>1, TypeOfPartsNext
  <2>6. FramesOK'
    BY <1>1, <2>3, <2>4 DEF FramesOK, f
  <2>7. Once'
    <3> SUFFICES ASSUME NEW i \in Loops', NEW j \in Loops',
                        stack'[i].win = stack'[j].win, stack'[i].win # "dashboard"
                 PROVE  /\ stack'[i].kind = stack'[j].kind => i = j
                        /\ Boxed(i)' /\ Waits(j)' => j < i
      BY DEF Once
    <3>1. CASE i \in Loops /\ j \in Loops
      BY <1>1, <2>3, <2>4, <3>1 DEF Once
    <3>2. CASE i = n + 1 /\ j \in Loops
      BY <2>1, <2>2, <2>3, <2>4, <3>2 DEF Boxed
    <3>3. CASE i \in Loops /\ j = n + 1
      BY <2>1, <2>2, <2>3, <2>4, <3>3 DEF Boxed
    <3>4. CASE i = n + 1 /\ j = n + 1
      BY <2>4, <3>4
    <3> QED BY <2>4, <3>1, <3>2, <3>3, <3>4
  <2>8. Held'
    <3>1. win'["exit"].open => \E i \in Loops' : Waits(i)' /\ stack'[i].win = "exit"
      BY <1>1, <1>3, <2>3, <2>4 DEF Held, Alike
    <3> QED BY <1>1, <1>3, <3>1 DEF Held, Alike, TypeOK
  <2>9. Nested'
    <3>1. \A i \in Loops : Waits(i) => win[stack[i].win].robbed \/ (win[stack[i].win].open /\ stack[i].win = w)
      BY <2>2, Served, Names, <1>5
    <3> SUFFICES ASSUME NEW i \in Loops', NEW j \in Loops', i < j
                 PROVE  /\ Boxed(i)' /\ stack'[i].win = grab' => Boxed(j)'
                        /\ Waits(i)' =>
                             /\ \/ win'[stack'[i].win].robbed
                                \/ Boxed(j)' /\ stack'[j].win = stack'[i].win
                             /\ win'[stack'[i].win].open \/ win'[stack'[i].win].robbed
      BY DEF Nested
    <3>2. i \in Loops
      BY <2>4
    <3>3. Waits(i) => Alike(win'[stack[i].win], win[stack[i].win])
      BY <1>5, <3>2
    <3>4. CASE j \in Loops
      BY <1>1, <2>3, <2>4, <3>2, <3>3, <3>4 DEF Nested, Alike
    <3>5. CASE j = n + 1
      BY <2>1, <2>3, <2>4, <3>1, <3>2, <3>3, <3>5 DEF Alike
    <3> QED BY <2>4, <3>4, <3>5
  <2> QED BY <1>2, <2>5, <2>6, <2>7, <2>8, <2>9 DEF IInv, Inv
<1> QED BY <1>6, <1>7

\* A window opens and takes the grab, perhaps in place of a form that nobody waits for, and
\* perhaps somebody waits for it.
LEMMA Opens ==
  ASSUME IInv, Serving, Scalars', Wins', booted => booted',
         NEW w \in Windows, ~win[w].open, ~Awaited(w), grab' = w,
         w = "setup" => booted',
         win'[w].open, ~win'[w].stale,
         NEW gone \in SUBSET {"setup", "recovery"}, w \notin gone,
         \A v \in gone : ~HasBox(v) /\ ~win'[v].open,
         \A v \in Windows \ {w} :
           /\ v \notin gone => win'[v].open = win[v].open
           /\ win[v].robbed => win'[v].robbed
           /\ v = grab /\ v \notin gone => win'[v].robbed
           /\ win'[v].stale => win[v].stale \/ (v \in Keys /\ win[v].open),
         \/ stack' = stack /\ w # "exit"
         \/ \E then \in Thens : FrameOK(Wait(w, then)) /\ Push(Wait(w, then))
  PROVE  IInv'
<1>1. TypeOK /\ FramesOK /\ Held /\ Once /\ Nested /\ StaleOnlyIfRobbed /\ Owned
  BY TypeParts DEF IInv, Inv
<1>2. /\ "exit" \in Windows /\ "setup" \in Windows /\ "exit" \notin gone /\ w # "dashboard"
      /\ w # "none" /\ gone \subseteq Windows /\ gone \cap (Ops \union Keys) = {}
  BY Names DEF Fixed
<1>3. /\ \A i \in Loops : stack[i].win # w
      /\ \A i \in Loops : Boxed(i) => stack[i].win \notin gone
      /\ \A i \in Loops : stack[i].win \in Windows \union {"dashboard"}
      /\ \A i \in Loops : Waits(i) => stack[i].win \in Windows /\ stack[i].win \notin gone
  BY <1>1, <1>2, Owners, FrameFields, Names DEF Fixed
<1>4. \A i \in Loops : Waits(i) => win'[stack[i].win].robbed
  <2> SUFFICES ASSUME NEW i \in Loops, Waits(i) PROVE win'[stack[i].win].robbed
    OBVIOUS
  <2>1. win[stack[i].win].robbed \/ grab = stack[i].win
    BY Served
  <2> QED BY <1>3, <2>1
<1>5. StaleOnlyIfRobbed'
  <2> SUFFICES ASSUME NEW v \in Ops \union Keys, win'[v].stale PROVE win'[v].robbed
    BY DEF StaleOnlyIfRobbed
  <2>1. v \in Windows \ {w} /\ v \notin gone
    BY <1>2, Names
  <2>2. win[v].stale \/ win[v].open
    BY <2>1
  <2>3. win[v].robbed \/ grab = v
    BY <1>1, <2>1, <2>2 DEF StaleOnlyIfRobbed, Held
  <2> QED BY <2>1, <2>3
<1>6. /\ win'[w].open
      /\ \A v \in Windows : win'[v].open => grab' = v \/ win'[v].robbed
      /\ win'["setup"].open => booted'
  BY <1>1, <1>2 DEF Held
<1>7. \A i \in Loops : Boxed(i) => stack[i].win = "dashboard" \/ win'[stack[i].win].open
  BY <1>1, <1>3 DEF Owned
<1>8. CASE stack' = stack /\ w # "exit"
  <2>1. Loops' = Loops /\ \A i \in Loops : (Boxed(i)' <=> Boxed(i)) /\ (Waits(i)' <=> Waits(i))
    BY <1>8 DEF Loops, Boxed, Waits
  <2>2. TypeOK'
    <3>1. Owned'
      BY <1>7, <1>8, <2>1 DEF Owned
    <3>2. stack' \in Seq(Frame) /\ Len(stack') <= MaxDepth
      BY <1>1, <1>8 DEF TypeOK
    <3> QED BY <3>1, <3>2, TypeOfPartsNext
  <2>3. FramesOK' /\ Once'
    BY <1>1, <1>8 DEF FramesOK, Once, Loops, Boxed, Waits
  <2>4. Held'
    <3>1. win'["exit"].open => \E i \in Loops' : Waits(i)' /\ stack'[i].win = "exit"
      BY <1>1, <1>2, <1>8, <2>1 DEF Held
    <3> QED BY <1>6, <3>1 DEF Held
  <2>5. Nested'
    BY <1>3, <1>4, <1>8, <2>1 DEF Nested
  <2> QED BY <1>5, <2>2, <2>3, <2>4, <2>5 DEF IInv, Inv
<1>9. CASE \E then \in Thens : FrameOK(Wait(w, then)) /\ Push(Wait(w, then))
  <2> PICK then \in Thens : FrameOK(Wait(w, then)) /\ Push(Wait(w, then))
    BY <1>9
  <2> DEFINE n == Len(stack)
             f == Wait(w, then)
  <2>1. f \in Frame /\ f.kind = "wait" /\ f.win = w
    BY WaitFrame
  <2>2. /\ stack' \in Seq(Frame) /\ Len(stack') <= MaxDepth
        /\ \A i \in Loops : stack'[i] = stack[i]
        /\ stack'[n + 1] = f
    BY <1>1, <2>1, Pushed, Stack
  <2> HIDE DEF f
  <2>3. /\ Loops' = Loops \union {n + 1} /\ n + 1 \notin Loops /\ n + 1 \in Nat
        /\ \A i \in Loops : /\ i \in Nat /\ i < n + 1
                            /\ (Boxed(i)' <=> Boxed(i)) /\ (Waits(i)' <=> Waits(i))
        /\ \A j : j = n + 1 => ~Boxed(j)' /\ Waits(j)'
    BY <1>1, <2>1, LoopsPushed DEF f
  <2> HIDE DEF n
  <2>4. TypeOK'
    <3>1. Owned'
      BY <1>7, <2>2, <2>3 DEF Owned
    <3> QED BY <2>2, <3>1, TypeOfPartsNext
  <2>5. FramesOK'
    BY <1>1, <2>2, <2>3 DEF FramesOK, f
  <2>6. Once'
    <3> SUFFICES ASSUME NEW i \in Loops', NEW j \in Loops',
                        stack'[i].win = stack'[j].win, stack'[i].win # "dashboard"
                 PROVE  /\ stack'[i].kind = stack'[j].kind => i = j
                        /\ Boxed(i)' /\ Waits(j)' => j < i
      BY DEF Once
    <3>1. CASE i \in Loops /\ j \in Loops
      BY <1>1, <2>2, <2>3, <3>1 DEF Once
    <3>2. CASE i = n + 1 /\ j = n + 1
      BY <2>3, <3>2
    <3> QED BY <1>3, <2>1, <2>2, <2>3, <3>1, <3>2
  <2>7. Held'
    <3>1. win'["exit"].open => \E i \in Loops' : Waits(i)' /\ stack'[i].win = "exit"
      <4>1. CASE w = "exit"
        BY <2>1, <2>2, <2>3, <4>1
      <4>2. CASE w # "exit"
        BY <1>1, <1>2, <2>2, <2>3, <4>2 DEF Held
      <4> QED BY <4>1, <4>2
    <3> QED BY <1>6, <3>1 DEF Held
  <2>8. Nested'
    <3> SUFFICES ASSUME NEW i \in Loops', NEW j \in Loops', i < j
                 PROVE  /\ Boxed(i)' /\ stack'[i].win = grab' => Boxed(j)'
                        /\ Waits(i)' =>
                             /\ \/ win'[stack'[i].win].robbed
                                \/ Boxed(j)' /\ stack'[j].win = stack'[i].win
                             /\ win'[stack'[i].win].open \/ win'[stack'[i].win].robbed
      BY DEF Nested
    <3>1. i \in Loops
      BY <2>3
    <3> QED BY <1>3, <1>4, <2>2, <2>3, <3>1
  <2> QED BY <1>5, <2>4, <2>5, <2>6, <2>7, <2>8 DEF IInv, Inv
<1> QED BY <1>8, <1>9

\* The innermost event loop ends, or none does.
Ended(n) ==
  /\ n \in Nat /\ n <= Len(stack) /\ Len(stack') = n
  /\ \A i \in 1..n : stack'[i] = stack[i]
  /\ stack' \in Seq(Frame) /\ Len(stack') <= MaxDepth

LEMMA LoopsEnded ==
  ASSUME TypeOK, NEW n, Ended(n)
  PROVE  /\ Loops' = 1..n /\ 1..n \subseteq Loops
         /\ \A i \in Loops' : /\ i \in Loops /\ stack'[i] = stack[i]
                              /\ (Boxed(i)' <=> Boxed(i)) /\ (Waits(i)' <=> Waits(i))
BY Stack DEF Loops, Ended, Boxed, Waits

LEMMA FrontEnded ==
  ASSUME TypeOK, stack # <<>>, stack' = Front(stack)
  PROVE  Ended(Len(stack) - 1) /\ Len(stack) \notin 1..Len(stack) - 1
<1>1. Len(stack) \in Nat /\ Len(stack) # 0 /\ Len(stack) <= MaxDepth
  BY Stack DEF TypeOK
<1> QED BY <1>1, Popped, NumbersAssumption DEF Ended

\* A window that can be clicked, or whose last box was closed, is destroyed.
LEMMA Destroys ==
  ASSUME IInv, Scalars', booted' = booted,
         NEW n, Ended(n), NEW w \in Windows, NEW answer \in BOOLEAN, Destroying(w, answer),
         \A i \in 1..n : Boxed(i) => stack[i].win # w,
         \A i \in 1..n : Waits(i) /\ stack[i].win = w => i = n \/ win[w].robbed,
         \A i \in Loops : Waits(i) => i \in 1..n
  PROVE  IInv'
<1>1. TypeOK /\ FramesOK /\ Held /\ Once /\ Nested /\ StaleOnlyIfRobbed /\ Owned /\ Wins
  BY TypeParts DEF IInv, Inv
<1>2. /\ Loops' = 1..n /\ 1..n \subseteq Loops
      /\ \A i \in Loops' : /\ i \in Loops /\ stack'[i] = stack[i]
                           /\ (Boxed(i)' <=> Boxed(i)) /\ (Waits(i)' <=> Waits(i))
  BY <1>1, LoopsEnded
<1>3. /\ win' \in [Windows -> Fields]
      /\ ~win'[w].open /\ ~win'[w].timer
      /\ win'[w].robbed = win[w].robbed /\ win'[w].stale = win[w].stale
      /\ \A v \in Windows \ {w} : win'[v] = win[v]
  <2> DEFINE r == Destroyed(win[w], answer /\ Awaited(w))
  <2>1. win[w] \in Fields /\ win \in [Windows -> Fields]
    BY <1>1 DEF Wins
  <2>2. /\ r \in Fields /\ ~r.open /\ ~r.timer
        /\ r.robbed = win[w].robbed /\ r.stale = win[w].stale
    BY <2>1, DestroyedFields
  <2>3. win' = [win EXCEPT ![w] = r]
    BY DEF Destroying
  <2> HIDE DEF r
  <2> QED BY <2>1, <2>2, <2>3
<1>4. grab' = (IF grab = w THEN "none" ELSE grab)
  BY DEF Destroying, Freed
<1>5. grab' \in Windows \union {"none"} /\ "exit" \in Windows /\ "setup" \in Windows
  BY <1>1, <1>4, Names DEF TypeOK, Fixed
<1>6. Wins'
  <2>1. \A v \in Asking : v \in Windows /\ (v # w => Timed(win[v]))
    BY <1>1, Names DEF Wins
  <2>2. \A v \in Asking : Timed(win'[v])
    BY <1>3, <2>1 DEF Timed
  <2> QED BY <1>3, <2>2 DEF Wins
<1>7. /\ \A i \in Loops : stack[i].win \in Windows \union {"dashboard"}
      /\ \A i \in Loops : Waits(i) => stack[i].win \in Windows
  BY <1>1, FrameFields
<1>8. TypeOK'
  <2>1. Owned'
    <3> SUFFICES ASSUME NEW i \in Loops', Boxed(i)', stack'[i].win # "dashboard"
                 PROVE  win'[stack'[i].win].open
      BY DEF Owned
    <3>1. i \in Loops /\ i \in 1..n /\ stack'[i] = stack[i] /\ Boxed(i)
      BY <1>2
    <3>2. stack[i].win \in Windows \ {w} /\ win[stack[i].win].open
      BY <1>1, <1>7, <3>1 DEF Owned
    <3> QED BY <1>3, <3>1, <3>2
  <2> QED BY <1>5, <1>6, <2>1, TypeOfPartsNext DEF Ended
<1>9. FramesOK' /\ Once'
  BY <1>1, <1>2 DEF FramesOK, Once
<1>10. Held'
  <2>1. win'["exit"].open => \E i \in Loops' : Waits(i)' /\ stack'[i].win = "exit"
    BY <1>1, <1>2, <1>3, <1>5 DEF Held
  <2>2. grab' # "none" => win'[grab'].open
    BY <1>1, <1>3, <1>4, <1>5 DEF Held
  <2>3. \A v \in Windows : win'[v].open => grab' = v \/ win'[v].robbed
    BY <1>1, <1>3, <1>4 DEF Held
  <2>4. win'["setup"].open => booted'
    BY <1>1, <1>3, <1>5 DEF Held
  <2> QED BY <2>1, <2>2, <2>3, <2>4 DEF Held
<1>11. Nested'
  <2> SUFFICES ASSUME NEW i \in Loops', NEW j \in Loops', i < j
               PROVE  /\ Boxed(i)' /\ stack'[i].win = grab' => Boxed(j)'
                      /\ Waits(i)' =>
                           /\ \/ win'[stack'[i].win].robbed
                              \/ Boxed(j)' /\ stack'[j].win = stack'[i].win
                           /\ win'[stack'[i].win].open \/ win'[stack'[i].win].robbed
    BY DEF Nested
  <2>1. i \in Loops /\ j \in Loops /\ i # n
    BY <1>2 DEF Ended
  <2>2. stack[i].win # "none"
    <3>1. stack[i].win \in Windows \union {"dashboard"} /\ "none" \notin Windows
      BY <1>7, <2>1, Names
    <3> QED BY <3>1
  <2>3. Boxed(i)' /\ stack'[i].win = grab' => Boxed(j)'
    BY <1>1, <1>2, <1>4, <2>1, <2>2 DEF Nested
  <2>4. CASE Waits(i)
    <3> DEFINE v == stack[i].win
    <3>1. v \in Windows /\ stack'[i].win = v /\ stack'[j].win = stack[j].win
          /\ (Boxed(j)' <=> Boxed(j))
      BY <1>2, <1>7, <2>1, <2>4
    <3>2. /\ win[v].robbed \/ (Boxed(j) /\ stack[j].win = v)
          /\ win[v].open \/ win[v].robbed
      BY <1>1, <2>1, <2>4 DEF Nested
    <3>3. v = w => win[v].robbed
      BY <1>2, <2>1, <2>4
    <3> HIDE DEF v
    <3>4. /\ win'[v].robbed \/ (Boxed(j)' /\ stack'[j].win = v)
          /\ win'[v].open \/ win'[v].robbed
      BY <1>3, <3>1, <3>2, <3>3
    <3> QED BY <2>3, <3>1, <3>4
  <2> QED BY <1>2, <2>3, <2>4
<1>12. StaleOnlyIfRobbed'
  BY <1>1, <1>3, Names DEF StaleOnlyIfRobbed
<1> QED BY <1>8, <1>9, <1>10, <1>11, <1>12 DEF IInv, Inv

\* A box is closed that leaves its window open.
LEMMA BoxEnds ==
  ASSUME IInv, Scalars', Wins', booted' = booted, grab' = grab,
         \A v \in Windows : Alike(win'[v], win[v]),
         stack # <<>>, Top.kind = "box", stack' = Front(stack)
  PROVE  IInv'
<1> DEFINE n == Len(stack) - 1
<1>1. TypeOK /\ FramesOK /\ Held /\ Once /\ Nested /\ StaleOnlyIfRobbed /\ Owned
  BY TypeParts DEF IInv, Inv
<1>2. Ended(n) /\ Loops = 1..n \union {Len(stack)} /\ Len(stack) \in Loops
  BY <1>1, FrontEnded, Stack DEF Loops
<1>3. /\ Loops' = 1..n /\ 1..n \subseteq Loops
      /\ \A i \in Loops' : /\ i \in Loops /\ stack'[i] = stack[i]
                           /\ (Boxed(i)' <=> Boxed(i)) /\ (Waits(i)' <=> Waits(i))
  BY <1>1, <1>2, LoopsEnded
<1>4. \A i \in Loops : Waits(i) => i \in Loops'
  BY <1>1, <1>2, <1>3, Stack DEF Waits
<1> HIDE DEF n
<1>5. /\ \A i \in Loops : stack[i].win \in Windows \union {"dashboard"}
      /\ \A i \in Loops : Waits(i) => stack[i].win \in Windows
  BY <1>1, FrameFields
<1>6. TypeOK'
  <2>1. Owned'
    BY <1>1, <1>3, <1>5 DEF Owned, Alike
  <2>2. grab' \in Windows \union {"none"}
    BY <1>1 DEF TypeOK
  <2> QED BY <1>2, <2>1, <2>2, TypeOfPartsNext DEF Ended
<1>7. FramesOK' /\ Once'
  BY <1>1, <1>3 DEF FramesOK, Once
<1>8. Held'
  <2>1. "exit" \in Windows /\ "setup" \in Windows /\ grab \in Windows \union {"none"}
    BY <1>1, Names DEF Fixed, TypeOK
  <2>2. win'["exit"].open => \E i \in Loops' : Waits(i)' /\ stack'[i].win = "exit"
    BY <1>1, <1>3, <1>4, <2>1 DEF Held, Alike
  <2> QED BY <1>1, <2>1, <2>2 DEF Held, Alike
<1>9. Nested'
  <2> SUFFICES ASSUME NEW i \in Loops', NEW j \in Loops', i < j
               PROVE  /\ Boxed(i)' /\ stack'[i].win = grab' => Boxed(j)'
                      /\ Waits(i)' =>
                           /\ \/ win'[stack'[i].win].robbed
                              \/ Boxed(j)' /\ stack'[j].win = stack'[i].win
                           /\ win'[stack'[i].win].open \/ win'[stack'[i].win].robbed
    BY DEF Nested
  <2>1. i \in Loops /\ j \in Loops
    BY <1>3
  <2>2. Waits(i) => Alike(win'[stack[i].win], win[stack[i].win])
    BY <1>5, <2>1
  <2> QED BY <1>1, <1>3, <2>1, <2>2 DEF Nested, Alike
<1>10. StaleOnlyIfRobbed'
  BY <1>1, Names DEF StaleOnlyIfRobbed, Alike
<1> QED BY <1>6, <1>7, <1>8, <1>9, <1>10 DEF IInv, Inv

\* wait_window returns: the window is forgotten, other operations that wait have their rows
\* changed under them, and a box of the dashboard may follow.
LEMMA WaitEnds ==
  ASSUME IInv, Scalars', booted' = booted, grab' = grab, Returning,
         win' \in [Windows -> Fields], \A v \in Asking : Timed(win'[v]),
         ~win'[Top.win].open, ~win'[Top.win].stale,
         \A v \in Windows \ {Top.win} :
           /\ win'[v].open = win[v].open /\ win'[v].robbed = win[v].robbed
           /\ win'[v].stale => win[v].stale \/ (v \in Ops /\ Awaited(v)),
         \/ stack' = Front(stack)
         \/ stack' = Append(Front(stack), Box("dashboard", "nothing"))
  PROVE  IInv'
<1> DEFINE n == Len(stack) - 1
           t == Top.win
           f == Box("dashboard", "nothing")
<1>1. TypeOK /\ FramesOK /\ Held /\ Once /\ Nested /\ StaleOnlyIfRobbed /\ Owned
  BY TypeParts DEF IInv, Inv
<1>2. stack # <<>> /\ Top.kind = "wait" /\ ~win[t].open
  BY DEF Returning
<1>3. /\ Loops = 1..n \union {Len(stack)} /\ Len(stack) \in Loops /\ Len(stack) \notin 1..n
      /\ n \in Nat /\ Len(stack) = n + 1 /\ n + 1 <= MaxDepth
      /\ Waits(Len(stack)) /\ ~Boxed(Len(stack)) /\ stack[Len(stack)].win = t
      /\ \A i \in 1..n : i \in Loops /\ i < Len(stack)
  BY <1>1, <1>2, Stack DEF Loops, Waits, Boxed, TypeOK
<1>4. /\ Front(stack) \in Seq(Frame) /\ Len(Front(stack)) = n
      /\ \A i \in 1..n : Front(stack)[i] = stack[i]
  BY <1>1, <1>2, Popped
<1>5. /\ f \in Frame /\ f.kind = "box" /\ f.win = "dashboard" /\ f.then = "nothing"
  BY BoxFrame DEF Thens
<1>6. /\ stack' \in Seq(Frame) /\ Len(stack') <= MaxDepth
      /\ \A i \in 1..n : stack'[i] = stack[i]
      /\ \/ Len(stack') = n
         \/ Len(stack') = n + 1 /\ stack'[n + 1] = f
  <2>1. CASE stack' = Front(stack)
    <3> HIDE DEF n
    <3>1. n <= MaxDepth
      BY <1>3, NumbersAssumption
    <3> QED BY <1>4, <2>1, <3>1
  <2>2. CASE stack' = Append(Front(stack), f)
    <3> HIDE DEF f
    <3>1. /\ stack' \in Seq(Frame) /\ Len(stack') = Len(Front(stack)) + 1
          /\ (\A i \in 1..Len(Front(stack)) : stack'[i] = Front(stack)[i])
          /\ stack'[Len(Front(stack)) + 1] = f
      BY <1>4, <1>5, <2>2, AppendProperties
    <3> HIDE DEF n
    <3> QED BY <1>3, <1>4, <3>1
  <2>3. stack' = Front(stack) \/ stack' = Append(Front(stack), f)
    OBVIOUS
  <2> QED BY <2>1, <2>2, <2>3
<1> HIDE DEF f
<1>7. /\ 1..n \subseteq Loops'
      /\ \A i \in 1..n : (Boxed(i)' <=> Boxed(i)) /\ (Waits(i)' <=> Waits(i))
      /\ \A i \in Loops' : \/ i \in 1..n
                           \/ i = n + 1 /\ stack'[i] = f /\ Boxed(i)' /\ ~Waits(i)'
  BY <1>3, <1>5, <1>6 DEF Loops, Boxed, Waits
<1>8. /\ \A i \in Loops : stack[i].win \in Windows \union {"dashboard"}
      /\ \A i \in Loops : Waits(i) => stack[i].win \in Windows
      /\ t \in Windows /\ t # "dashboard"
  <2>1. /\ \A i \in Loops : stack[i].win \in Windows \union {"dashboard"}
        /\ \A i \in Loops : Waits(i) => stack[i].win \in Windows
    BY <1>1, FrameFields
  <2>2. t \in Windows
    <3> HIDE DEF t, n
    <3> QED BY <1>3, <2>1
  <2>3. t # "dashboard"
    BY <2>2, Names
  <2> QED BY <2>1, <2>2, <2>3
<1> HIDE DEF n, t
<1>9. \A i \in 1..n : Waits(i) => stack[i].win # t /\ win[stack[i].win].robbed
  <2> SUFFICES ASSUME NEW i \in 1..n, Waits(i) PROVE stack[i].win # t /\ win[stack[i].win].robbed
    OBVIOUS
  <2>1. i \in Loops /\ i < Len(stack) /\ i # Len(stack)
    BY <1>3
  <2>2. stack[i].win # t
    BY <1>1, <1>3, <1>8, <2>1 DEF Once, Waits
  <2> QED BY <1>1, <1>3, <2>1, <2>2 DEF Nested
<1>10. grab # t /\ grab \in Windows \union {"none"} /\ "exit" \in Windows /\ "setup" \in Windows
  <2>1. "none" \notin Windows /\ "exit" \in Windows /\ "setup" \in Windows
    BY Names DEF Fixed
  <2>2. t # "none"
    BY <1>8, <2>1
  <2>3. grab # t
    BY <1>1, <1>2, <2>2 DEF Held
  <2> QED BY <1>1, <2>1, <2>3 DEF TypeOK
<1>11. \A v \in Windows : /\ win'[v].open <=> win[v].open
                          /\ v # t => win'[v].robbed = win[v].robbed
  BY <1>2 DEF t
<1>12. TypeOK'
  <2>1. Owned'
    BY <1>1, <1>3, <1>5, <1>6, <1>7, <1>8, <1>11 DEF Owned
  <2>2. Wins'
    BY DEF Wins
  <2> QED BY <1>6, <1>10, <2>1, <2>2, TypeOfPartsNext
<1>13. FramesOK'
  <2>1. FrameOK(f)
    BY <1>5 DEF FrameOK
  <2> QED BY <1>1, <1>3, <1>6, <1>7, <2>1 DEF FramesOK
<1>14. Once'
  <2> SUFFICES ASSUME NEW i \in Loops', NEW j \in Loops',
                      stack'[i].win = stack'[j].win, stack'[i].win # "dashboard"
               PROVE  /\ stack'[i].kind = stack'[j].kind => i = j
                      /\ Boxed(i)' /\ Waits(j)' => j < i
    BY DEF Once
  <2>1. i \in 1..n /\ j \in 1..n
    BY <1>5, <1>7
  <2> QED BY <1>1, <1>3, <1>6, <1>7, <2>1 DEF Once
<1>15. Held'
  <2>1. win'["exit"].open => \E i \in Loops' : Waits(i)' /\ stack'[i].win = "exit"
    <3> SUFFICES ASSUME win'["exit"].open PROVE \E i \in Loops' : Waits(i)' /\ stack'[i].win = "exit"
      OBVIOUS
    <3>1. win["exit"].open /\ t # "exit"
      BY <1>2, <1>10, <1>11
    <3>2. PICK i \in Loops : Waits(i) /\ stack[i].win = "exit"
      BY <1>1, <3>1 DEF Held
    <3>3. i \in 1..n
      BY <1>3, <3>1, <3>2
    <3> QED BY <1>6, <1>7, <3>2, <3>3
  <2> QED BY <1>1, <1>2, <1>10, <1>11, <2>1 DEF Held
<1>16. Nested'
  <2> SUFFICES ASSUME NEW i \in Loops', NEW j \in Loops', i < j
               PROVE  /\ Boxed(i)' /\ stack'[i].win = grab' => Boxed(j)'
                      /\ Waits(i)' =>
                           /\ \/ win'[stack'[i].win].robbed
                              \/ Boxed(j)' /\ stack'[j].win = stack'[i].win
                           /\ win'[stack'[i].win].open \/ win'[stack'[i].win].robbed
    BY DEF Nested
  <2>1. i \in 1..n
    BY <1>3, <1>7
  <2>2. Boxed(i)' /\ stack'[i].win = grab' => Boxed(j)'
    BY <1>1, <1>3, <1>6, <1>7, <2>1 DEF Nested
  <2>3. Waits(i)' => win'[stack'[i].win].robbed
    BY <1>3, <1>6, <1>7, <1>8, <1>9, <1>11, <2>1
  <2> QED BY <2>2, <2>3
<1>17. StaleOnlyIfRobbed'
  <2> SUFFICES ASSUME NEW v \in Ops \union Keys, win'[v].stale PROVE win'[v].robbed
    BY DEF StaleOnlyIfRobbed
  <2>1. v \in Windows \ {t}
    BY Names DEF t
  <2>2. CASE win[v].stale
    BY <1>1, <1>11, <2>1, <2>2 DEF StaleOnlyIfRobbed
  <2>3. CASE Awaited(v)
    <3>1. PICK i \in Loops : Waits(i) /\ stack[i].win = v
      BY <1>1, <2>3, Owners
    <3>2. i \in 1..n
      BY <1>3, <2>1, <3>1
    <3> QED BY <1>9, <1>11, <2>1, <3>1, <3>2
  <2> QED BY <2>1, <2>2, <2>3 DEF t
<1> QED BY <1>12, <1>13, <1>14, <1>15, <1>16, <1>17 DEF IInv, Inv

-----------------------------------------------------------------------------
(* The actions, each by what it does *)

\* One window changes and stays as open, robbed and stale as it was.
LEMMA Changed ==
  ASSUME TypeOK, NEW w \in Windows, NEW r \in Fields, Alike(r, win[w]), w \in Asking => Timed(r),
         win' = [win EXCEPT ![w] = r]
  PROVE  Wins' /\ \A v \in Windows : Alike(win'[v], win[v])
<1>1. Wins
  BY TypeParts
<1>2. \A v \in Windows : win'[v] = IF v = w THEN r ELSE win[v]
  BY <1>1 DEF Wins
<1>3. win' \in [Windows -> Fields]
  BY <1>1 DEF Wins
<1>4. \A v \in Windows : Alike(win'[v], win[v])
  BY <1>2 DEF Alike
<1>5. \A v \in Asking : Timed(win'[v])
  BY <1>1, <1>2, Names DEF Wins
<1> QED BY <1>3, <1>4, <1>5 DEF Wins

\* None does.
LEMMA Unchanged ==
  ASSUME TypeOK, win' = win
  PROVE  Wins' /\ \A v \in Windows : Alike(win'[v], win[v])
BY TypeParts DEF Wins, Alike

LEMMA Clicked ==
  ASSUME IInv, Scalars', booted' = booted, stack' = stack, NEW w \in Windows, Clickable(w),
         NEW answer \in BOOLEAN, Destroying(w, answer)
  PROVE  IInv'
<1> DEFINE n == Len(stack)
<1>1. TypeOK /\ Nested
  BY DEF IInv, Inv
<1>2. n \in Nat /\ Loops = 1..n /\ Ended(n)
  BY <1>1, Stack DEF Ended, Loops, TypeOK
<1>3. \A i \in Loops : Boxed(i) => stack[i].win # w
  BY <1>1, Owners DEF Clickable
<1> HIDE DEF n
<1>4. \A i \in 1..n : Waits(i) /\ stack[i].win = w => i = n \/ win[w].robbed
  <2> SUFFICES ASSUME NEW i \in 1..n, Waits(i), stack[i].win = w, i # n PROVE win[w].robbed
    OBVIOUS
  <2>1. i \in Loops /\ n \in Loops /\ i < n
    BY <1>2
  <2> QED BY <1>1, <1>3, <2>1 DEF Nested
<1> QED BY <1>2, <1>3, <1>4, Destroys

\* How a window opens, is robbed, or ages.
Shown(r) == [r EXCEPT !.open = TRUE]
Robbed(r) == [r EXCEPT !.robbed = TRUE]
Aged(r, b, c) == [r EXCEPT !.stale = @ \/ b, !.robbed = @ \/ c]

LEMMA ShownFields ==
  ASSUME NEW r \in Fields, NEW b \in BOOLEAN, NEW c \in BOOLEAN
  PROVE  /\ Shown(r) \in Fields /\ Shown(r).open /\ Shown(r).stale = r.stale
         /\ Robbed(r) \in Fields /\ Robbed(r).robbed /\ Robbed(r).open = r.open
         /\ Robbed(r).stale = r.stale /\ Robbed(r).timer = r.timer
         /\ Aged(r, b, c) \in Fields /\ Aged(r, b, c).open = r.open
         /\ Aged(r, b, c).timer = r.timer
         /\ Aged(r, b, c).stale <=> r.stale \/ b
         /\ Aged(r, b, c).robbed <=> r.robbed \/ c
BY DEF Fields, Shown, Robbed, Aged

LEMMA Opened ==
  ASSUME IInv, Serving, Scalars', booted => booted', NEW w \in Windows, ~win[w].open, ~Awaited(w),
         w = "setup" => booted', NEW r \in Fields, ~r.stale, Opening(w, r),
         \/ stack' = stack /\ w # "exit"
         \/ \E then \in Thens : FrameOK(Wait(w, then)) /\ Push(Wait(w, then))
  PROVE  IInv'
<1>1. TypeOK /\ Held
  BY DEF IInv, Inv
<1>2. Wins /\ grab # w /\ w # "none"
  BY <1>1, TypeParts, Names DEF Held
<1>3. ASSUME NEW s \in Fields
      PROVE  /\ Shown(s) \in Fields /\ Shown(s).open /\ Shown(s).stale = s.stale
             /\ Robbed(s) \in Fields /\ Robbed(s).robbed /\ Robbed(s).open = s.open
             /\ Robbed(s).stale = s.stale /\ Robbed(s).timer = s.timer
  BY ShownFields
<1>4. \A v \in Windows : win'[v] = IF v = w THEN Shown(r) ELSE IF v = grab THEN Robbed(win[v]) ELSE win[v]
  BY <1>2 DEF Opening, Robbing, Wins, Shown, Robbed
<1>5. win' = [v \in Windows |-> win'[v]]
  BY DEF Opening, Robbing
<1>6. \A v \in Windows : win[v] \in Fields
  BY <1>2 DEF Wins
<1>7. \A v \in Windows : win'[v] \in Fields
  BY <1>3, <1>4, <1>6
<1>8. \A v \in Asking : Timed(win'[v])
  BY <1>2, <1>3, <1>4, <1>6, Names DEF Timed, Wins
<1>9. Wins'
  BY <1>5, <1>7, <1>8 DEF Wins
<1>10. /\ win'[w].open /\ ~win'[w].stale
       /\ \A v \in Windows \ {w} :
            /\ win'[v].open = win[v].open
            /\ win[v].robbed => win'[v].robbed
            /\ v = grab => win'[v].robbed
            /\ win'[v].stale => win[v].stale
  BY <1>3, <1>4, <1>6
<1>11. grab' = w
  BY DEF Opening
<1> DEFINE gone == {}
<1>12. gone \in SUBSET {"setup", "recovery"} /\ w \notin gone /\ \A v : v \notin gone
  OBVIOUS
<1> HIDE DEF gone
<1> QED BY <1>9, <1>10, <1>11, <1>12, Opens

\* Only operations, recovery keys and the exit are waited for.
LEMMA Unawaited ==
  ASSUME IInv, NEW w \in {"prompt", "setup", "recovery", "reset"}
  PROVE  w \in Windows /\ ~Awaited(w)
<1>1. TypeOK /\ FramesOK
  BY DEF IInv, Inv
<1>2. w \in Windows /\ w \notin Ops \union Keys \union {"exit"}
  BY Names DEF Fixed
<1> QED BY <1>1, <1>2, Owners, FrameFields

LEMMA Fresh ==
  ASSUME NEW locked \in BOOLEAN
  PROVE  Refreshed(Closed, locked) \in Fields /\ ~Refreshed(Closed, locked).stale
BY ClosedFields, RecordFields DEF Alike

\* The new recovery key is shown in place of the form that was filled in.
LEMMA KeyShown ==
  ASSUME IInv, Scalars', booted' = booted, NEW form \in {"setup", "recovery"}, Clickable(form),
         NEW then \in {"setUp", "recovered"}, ShowKey(form, then)
  PROVE  IInv'
<1> DEFINE k == CHOOSE v \in Keys : FreeKey(v)
           aged == [w \in Windows |->
                      IF w = form THEN Destroyed(win[w], TRUE)
                      ELSE [win[w] EXCEPT !.stale = @ \/ (w \in Keys /\ win[w].open),
                                          !.robbed = @ \/ (w = grab)]]
<1>1. TypeOK /\ Wins
  BY TypeParts DEF IInv, Inv
<1>2. k \in Keys /\ ~win[k].open /\ ~Awaited(k)
  <2>1. \E v \in Keys : FreeKey(v)
    BY DEF ShowKey
  <2>2. k \in Keys /\ FreeKey(k)
    BY <2>1
  <2> QED BY <2>2 DEF FreeKey
<1>3. /\ Push(Wait(k, then)) /\ grab' = k
      /\ win' = [aged EXCEPT ![k] = [Closed EXCEPT !.open = TRUE]]
  BY DEF ShowKey
<1> HIDE DEF k
<1>4. /\ k \in Windows /\ k # form /\ k # "setup" /\ k # "exit" /\ form \in Windows
      /\ form # "exit" /\ form \notin Keys
  BY <1>2, Names DEF Fixed
<1>5. ASSUME NEW s \in Fields, NEW b \in BOOLEAN, NEW c \in BOOLEAN
      PROVE  /\ Aged(s, b, c) \in Fields /\ Aged(s, b, c).open = s.open
             /\ Aged(s, b, c).timer = s.timer
             /\ Aged(s, b, c).stale <=> s.stale \/ b
             /\ Aged(s, b, c).robbed <=> s.robbed \/ c
  BY ShownFields
<1>6. /\ [Closed EXCEPT !.open = TRUE] \in Fields /\ [Closed EXCEPT !.open = TRUE].open
      /\ ~[Closed EXCEPT !.open = TRUE].stale
  BY DEF Closed, Fields
<1>7. \A v \in Windows : win[v] \in Fields /\ win[v].open \in BOOLEAN
  BY <1>1 DEF Wins, Fields
<1>8. LET s == Destroyed(win[form], TRUE)
      IN  /\ s \in Fields /\ ~s.open /\ ~s.timer
          /\ s.robbed = win[form].robbed /\ s.stale = win[form].stale
  BY <1>4, <1>7, DestroyedFields
<1>9. \A v \in Windows :
        /\ aged[v] \in Fields
        /\ v = form => aged[v] = Destroyed(win[v], TRUE)
        /\ v # form => /\ aged[v].open = win[v].open /\ aged[v].timer = win[v].timer
                       /\ aged[v].stale <=> win[v].stale \/ (v \in Keys /\ win[v].open)
                       /\ aged[v].robbed <=> win[v].robbed \/ v = grab
  <2> SUFFICES ASSUME NEW v \in Windows
               PROVE  /\ aged[v] \in Fields
                      /\ v = form => aged[v] = Destroyed(win[v], TRUE)
                      /\ v # form => /\ aged[v].open = win[v].open /\ aged[v].timer = win[v].timer
                                     /\ aged[v].stale <=> win[v].stale \/ (v \in Keys /\ win[v].open)
                                     /\ aged[v].robbed <=> win[v].robbed \/ v = grab
    OBVIOUS
  <2>1. CASE v = form
    BY <1>8, <2>1
  <2>2. CASE v # form
    <3> DEFINE b == v \in Keys /\ win[v].open
               c == v = grab
    <3>1. aged[v] = Aged(win[v], b, c)
      BY <2>2 DEF Aged
    <3>2. win[v] \in Fields /\ b \in BOOLEAN /\ c \in BOOLEAN
      BY <1>7
    <3>3. /\ Aged(win[v], b, c) \in Fields /\ Aged(win[v], b, c).open = win[v].open
          /\ Aged(win[v], b, c).timer = win[v].timer
          /\ Aged(win[v], b, c).stale <=> win[v].stale \/ b
          /\ Aged(win[v], b, c).robbed <=> win[v].robbed \/ c
      <4> HIDE DEF b, c
      <4> QED BY <1>5, <3>2
    <3> HIDE DEF aged
    <3> QED BY <2>2, <3>1, <3>3
  <2> QED BY <2>1, <2>2
<1>10. aged = [v \in Windows |-> aged[v]]
  OBVIOUS
<1> HIDE DEF aged
<1>11. /\ \A v \in Windows \ {k} : win'[v] = aged[v]
       /\ win'[k] = [Closed EXCEPT !.open = TRUE]
       /\ win' \in [Windows -> Fields]
  BY <1>3, <1>4, <1>6, <1>9, <1>10
<1>12. Wins'
  <2>1. \A v \in Asking : v \in Windows \ {k} /\ Timed(win[v])
    BY <1>1, <1>2, Names DEF Wins, Fixed
  <2>2. ASSUME NEW v \in Asking PROVE Timed(win'[v])
    <3> v \in Windows \ {k} /\ Timed(win[v])
      BY <2>1
    <3>1. CASE v = form
      <4>1. win'[v] = Destroyed(win[form], TRUE)
        BY <1>9, <1>11, <3>1
      <4> QED BY <1>8, <4>1 DEF Timed
    <3>2. CASE v # form
      <4>1. win'[v].timer = win[v].timer /\ win'[v].open = win[v].open
        BY <1>9, <1>11, <3>2
      <4> QED BY <4>1 DEF Timed
    <3> QED BY <3>1, <3>2
  <2> QED BY <1>11, <2>2 DEF Wins
<1>13. FrameOK(Wait(k, then)) /\ then \in Thens
  BY <1>2 DEF FrameOK, Wait, Thens
<1> DEFINE gone == {form}
<1>14. /\ gone \in SUBSET {"setup", "recovery"} /\ k \notin gone
       /\ \A v \in gone : ~HasBox(v) /\ ~win'[v].open
  <2>1. ~HasBox(form)
    BY DEF Clickable
  <2>2. win'[form] = Destroyed(win[form], TRUE)
    BY <1>4, <1>9, <1>11
  <2> QED BY <1>4, <1>8, <2>1, <2>2
<1>15. \A v \in Windows \ {k} :
         /\ v \notin gone => win'[v].open = win[v].open
         /\ win[v].robbed => win'[v].robbed
         /\ v = grab /\ v \notin gone => win'[v].robbed
         /\ win'[v].stale => win[v].stale \/ (v \in Keys /\ win[v].open)
  BY <1>8, <1>9, <1>11
<1>16. Serving /\ win'[k].open /\ ~win'[k].stale
  BY <1>6, <1>11 DEF Clickable
<1> HIDE DEF gone
<1> QED BY <1>2, <1>3, <1>4, <1>12, <1>13, <1>14, <1>15, <1>16, Opens

LEMMA ScalarsOf == TypeOK => Scalars /\ Wins /\ Locked \in BOOLEAN
BY TypeParts DEF Locked

LEMMA Guesses ==
  ASSUME Scalars, booted' = booted, running' = running, GuessedRight \/ GuessedWrong
  PROVE  Scalars'
<1>1. attempts' \in 0..(MaxAttempts - 1) /\ lockout' \in 0..LockTicks
  BY NumbersAssumption DEF Scalars, GuessedRight, GuessedWrong, LocksOut
<1> QED BY <1>1 DEF Scalars, GuessedRight, GuessedWrong

LEMMA Same ==
  ASSUME Scalars, UNCHANGED authVars, booted' = booted, running' = running
  PROVE  Scalars'
BY DEF Scalars, authVars

LEMMA Timing ==
  ASSUME IInv, Tick \/ ExitUnasked \/ \E w \in Asking : TimerFires(w)
  PROVE  IInv'
<1>1. TypeOK /\ Scalars /\ Wins /\ Locked \in BOOLEAN
  BY ScalarsOf DEF IInv
<1>2. CASE Tick
  <2>1. Scalars'
    BY <1>1, <1>2, NumbersAssumption DEF Scalars, Tick, Locked
  <2> QED BY <1>1, <1>2, <2>1, Unchanged, Touches DEF Tick
<1>3. CASE ExitUnasked
  <2>1. Scalars'
    BY <1>1, <1>3 DEF Scalars, ExitUnasked, authVars
  <2> QED BY <1>1, <1>3, <2>1, Unchanged, Touches DEF ExitUnasked
<1>4. ASSUME NEW w \in Asking, TimerFires(w) PROVE IInv'
  <2> DEFINE r == IF win[w].open THEN Refreshed(Cancelled(win[w]), Locked) ELSE Cancelled(win[w])
  <2>1. w \in Windows /\ win[w] \in Fields
    BY <1>1, Names DEF Wins
  <2>2. r \in Fields /\ Alike(r, win[w])
    BY <1>1, <2>1, RecordFields
  <2>3. Timed(r)
    BY <1>1, <2>1, <2>2, RecordFields DEF Timed, Alike
  <2>4. win' = [win EXCEPT ![w] = r]
    BY <1>4 DEF TimerFires
  <2>5. Scalars'
    BY <1>1, <1>4, Same DEF TimerFires
  <2> HIDE DEF r
  <2>6. Wins' /\ \A v \in Windows : Alike(win'[v], win[v])
    BY <1>1, <2>1, <2>2, <2>3, <2>4, Changed
  <2> QED BY <1>4, <2>5, <2>6, Touches DEF TimerFires
<1> QED BY <1>2, <1>3, <1>4

LEMMA OpensUnawaited ==
  ASSUME IInv, ShowPrompt \/ Bootstrap \/ OpenRecovery \/ OpenReset
  PROVE  IInv'
<1>1. TypeOK /\ Scalars /\ Wins /\ Locked \in BOOLEAN /\ Held
  BY ScalarsOf DEF IInv, Inv
<1>2. "prompt" # "exit" /\ "setup" # "exit" /\ "recovery" # "exit" /\ "reset" # "exit"
  OBVIOUS
<1>3. CASE ShowPrompt
  <2> DEFINE r == Refreshed(Closed, Locked)
  <2>1. r \in Fields /\ ~r.stale
    BY <1>1, Fresh
  <2>2. Scalars'
    BY <1>1, <1>3, Same DEF ShowPrompt
  <2>3. Serving /\ ~win["prompt"].open /\ Opening("prompt", r) /\ stack' = stack /\ booted' = booted
    BY <1>3 DEF ShowPrompt
  <2> HIDE DEF r
  <2> QED BY <1>2, <2>1, <2>2, <2>3, Unawaited, Opened
<1>4. CASE Bootstrap
  <2>1. Scalars'
    BY <1>1, <1>4 DEF Scalars, Bootstrap, authVars
  <2>2. CASE passwordSet
    BY <1>1, <1>4, <2>1, <2>2, Unchanged, Touches DEF Bootstrap
  <2>3. CASE ~passwordSet
    <3>1. ~win["setup"].open
      BY <1>1, <1>4 DEF Held, Bootstrap
    <3>2. Serving /\ Opening("setup", Closed) /\ stack' = stack /\ booted'
      BY <1>4, <2>3 DEF Bootstrap
    <3> QED BY <1>2, <2>1, <3>1, <3>2, Unawaited, ClosedFields, Opened
  <2> QED BY <2>2, <2>3
<1>5. CASE OpenRecovery
  <2>1. Scalars'
    BY <1>1, <1>5, Same DEF OpenRecovery
  <2>2. Serving /\ ~win["recovery"].open /\ Opening("recovery", Closed) /\ stack' = stack
        /\ booted' = booted
    BY <1>5 DEF OpenRecovery, DashClickable
  <2> QED BY <1>2, <2>1, <2>2, Unawaited, ClosedFields, Opened
<1>6. CASE OpenReset
  <2>1. Scalars'
    BY <1>1, <1>6, Same DEF OpenReset
  <2>2. Serving /\ ~win["reset"].open /\ Opening("reset", Closed) /\ stack' = stack
        /\ booted' = booted
    BY <1>6 DEF OpenReset, DashClickable
  <2> QED BY <1>2, <2>1, <2>2, Unawaited, ClosedFields, Opened
<1> QED BY <1>3, <1>4, <1>5, <1>6

LEMMA OpensAwaited ==
  ASSUME IInv, ConfirmExit \/ StartOp
  PROVE  IInv'
<1>1. TypeOK /\ Scalars /\ Wins /\ Locked \in BOOLEAN /\ Held
  BY ScalarsOf DEF IInv, Inv
<1> DEFINE r == Refreshed(Closed, Locked)
<1>2. r \in Fields /\ ~r.stale
  BY <1>1, Fresh
<1>3. CASE ConfirmExit
  <2>1. /\ Serving /\ ~Awaited("exit") /\ Opening("exit", r) /\ booted' = booted
        /\ Push(Wait("exit", "exit"))
    BY <1>3 DEF ConfirmExit, OpeningMaster, PollWaits
  <2>2. "exit" \in Windows /\ ~win["exit"].open /\ "exit" # "setup"
    BY <1>1, <2>1, Owners, Names DEF Held, Fixed
  <2>3. FrameOK(Wait("exit", "exit")) /\ "exit" \in Thens
    BY DEF FrameOK, Wait, Thens
  <2>4. Scalars'
    BY <1>1, <1>3, Same DEF ConfirmExit
  <2> HIDE DEF r
  <2> QED BY <1>2, <2>1, <2>2, <2>3, <2>4, Opened
<1>4. CASE StartOp
  <2> DEFINE w == CHOOSE v \in Ops : FreeOp(v)
  <2>1. w \in Ops /\ FreeOp(w)
    <3>1. \E v \in Ops : FreeOp(v)
      BY <1>4 DEF StartOp
    <3> QED BY <3>1
  <2>2. Serving /\ Opening(w, r) /\ booted' = booted /\ Push(Wait(w, "operation"))
    BY <1>4 DEF StartOp, OpeningMaster, DashClickable
  <2>3. Scalars'
    BY <1>1, <1>4, Same DEF StartOp
  <2> HIDE DEF r, w
  <2>4. w \in Windows /\ w # "setup"
    BY <2>1, Names DEF Fixed
  <2>5. FrameOK(Wait(w, "operation")) /\ "operation" \in Thens
    BY <2>1 DEF FrameOK, Wait, Thens
  <2> QED BY <1>2, <2>1, <2>2, <2>3, <2>4, <2>5, Opened DEF FreeOp
<1> QED BY <1>3, <1>4

\* A box over a window that can be clicked.
LEMMA Boxes ==
  ASSUME IInv, Scalars', Wins', booted' = booted, grab' = grab,
         \A v \in Windows : Alike(win'[v], win[v]),
         NEW w \in Windows, NEW then \in Thens, Clickable(w), FrameOK(Box(w, then)),
         Push(Box(w, then))
  PROVE  IInv'
BY Touches

\* Any window may say something.
LEMMA Says ==
  ASSUME NEW w \in Windows
  PROVE  FrameOK(Box(w, "nothing")) /\ "nothing" \in Thens
BY DEF FrameOK, Box, Thens

\* A dialog is noticed to be locked.
LEMMA Notices ==
  ASSUME IInv, Scalars', booted' = booted, NEW w \in Asking, Clickable(w),
         NEW r \in Fields, Alike(r, win[w]), NoticeLocked(w, r)
  PROVE  IInv'
<1>1. TypeOK
  BY DEF IInv
<1>2. w \in Windows /\ win[w].open
  BY Names DEF Clickable
<1>3. Disabled(r) \in Fields /\ Alike(Disabled(r), r)
  BY RecordFields
<1>4. Alike(Disabled(r), win[w]) /\ Timed(Disabled(r))
  BY <1>2, <1>3 DEF Alike, Timed
<1>5. win' = [win EXCEPT ![w] = Disabled(r)] /\ grab' = grab /\ Push(Box(w, "schedule"))
  BY DEF NoticeLocked
<1>6. Wins' /\ \A v \in Windows : Alike(win'[v], win[v])
  BY <1>1, <1>2, <1>3, <1>4, <1>5, Changed
<1>7. FrameOK(Box(w, "schedule")) /\ "schedule" \in Thens
  BY DEF FrameOK, Box, Thens
<1> QED BY <1>2, <1>5, <1>6, <1>7, Boxes

LEMMA Guessing ==
  ASSUME IInv, NEW w \in Asking, SubmitLocked(w) \/ SubmitRight(w) \/ SubmitWrong(w) \/ Cancel(w)
  PROVE  IInv'
<1>1. TypeOK /\ Scalars /\ Wins /\ Locked \in BOOLEAN
  BY ScalarsOf DEF IInv
<1>2. w \in Windows /\ win[w] \in Fields
  BY <1>1, Names DEF Wins
<1>3. /\ Cancelled(win[w]) \in Fields /\ Alike(Cancelled(win[w]), win[w])
      /\ Alike(win[w], win[w])
      /\ Enabled(Cancelled(win[w])) \in Fields /\ Alike(Enabled(Cancelled(win[w])), win[w])
      /\ ~Enabled(Cancelled(win[w])).timer
  BY <1>1, <1>2, RecordFields DEF Alike
<1>4. CASE SubmitLocked(w)
  <2>1. Scalars' /\ booted' = booted
    BY <1>1, <1>4, Same DEF SubmitLocked
  <2> QED BY <1>2, <1>3, <1>4, <2>1, Notices DEF SubmitLocked, CanSubmit
<1>5. CASE SubmitRight(w)
  <2>1. Scalars' /\ booted' = booted /\ stack' = stack
    BY <1>1, <1>5, Guesses DEF SubmitRight
  <2> QED BY <1>2, <1>5, <2>1, Clicked DEF SubmitRight, CanSubmit
<1>6. CASE SubmitWrong(w)
  <2>1. Scalars' /\ booted' = booted /\ Clickable(w)
    BY <1>1, <1>6, Guesses DEF SubmitWrong, CanSubmit
  <2>2. CASE LocksOut
    BY <1>3, <1>6, <2>1, <2>2, Notices DEF SubmitWrong
  <2>3. CASE ~LocksOut
    <3> DEFINE r == Enabled(Cancelled(win[w]))
    <3>1. win' = [win EXCEPT ![w] = r] /\ grab' = grab /\ Push(Box(w, "nothing"))
      BY <1>6, <2>3 DEF SubmitWrong
    <3>2. r \in Fields /\ Alike(r, win[w]) /\ Timed(r)
      BY <1>3 DEF Timed
    <3> HIDE DEF r
    <3>3. Wins' /\ \A v \in Windows : Alike(win'[v], win[v])
      BY <1>1, <1>2, <3>1, <3>2, Changed
    <3> QED BY <1>2, <2>1, <3>1, <3>3, Says, Boxes
  <2> QED BY <2>2, <2>3
<1>7. CASE Cancel(w)
  <2>1. Scalars' /\ booted' = booted /\ stack' = stack
    BY <1>1, <1>7, Same DEF Cancel
  <2> QED BY <1>2, <1>7, <2>1, Clicked DEF Cancel
<1> QED BY <1>4, <1>5, <1>6, <1>7

LEMMA Forms ==
  ASSUME IInv,
         \/ \E w \in {"recovery", "reset"} : CancelForm(w)
         \/ \E w \in {"setup", "recovery", "reset"} : RefuseForm(w)
         \/ ChangePassword \/ ChangeRefused
         \/ \E k \in Keys : CopyKey(k) \/ Acknowledge(k)
  PROVE  IInv'
<1>1. TypeOK /\ Scalars /\ Wins
  BY ScalarsOf DEF IInv
<1>2. /\ \A w \in {"setup", "recovery", "reset"} : w \in Windows
      /\ Keys \subseteq Windows /\ TRUE \in BOOLEAN /\ FALSE \in BOOLEAN
  BY Names DEF Fixed
<1>3. ASSUME NEW w \in {"recovery", "reset"}, CancelForm(w) PROVE IInv'
  <2>1. Scalars' /\ booted' = booted /\ stack' = stack
    BY <1>1, <1>3, Same DEF CancelForm
  <2> QED BY <1>2, <1>3, <2>1, Clicked DEF CancelForm
<1>4. ASSUME NEW w \in {"setup", "recovery", "reset"}, RefuseForm(w) PROVE IInv'
  <2>1. Scalars' /\ booted' = booted /\ win' = win /\ grab' = grab
    BY <1>1, <1>4, Same DEF RefuseForm
  <2>2. Wins' /\ \A v \in Windows : Alike(win'[v], win[v])
    BY <1>1, <2>1, Unchanged
  <2> QED BY <1>2, <1>4, <2>1, <2>2, Says, Boxes DEF RefuseForm
<1>5. CASE ChangePassword
  <2>1. Scalars' /\ booted' = booted /\ win' = win /\ grab' = grab
    BY <1>1, <1>5, Guesses DEF ChangePassword
  <2>2. Wins' /\ \A v \in Windows : Alike(win'[v], win[v])
    BY <1>1, <2>1, Unchanged
  <2>3. FrameOK(Box("reset", "destroy")) /\ "destroy" \in Thens
    BY DEF FrameOK, Box, Thens
  <2> QED BY <1>2, <1>5, <2>1, <2>2, <2>3, Boxes DEF ChangePassword
<1>6. CASE ChangeRefused
  <2>1. Scalars' /\ booted' = booted /\ win' = win /\ grab' = grab
    BY <1>1, <1>6, Guesses DEF ChangeRefused
  <2>2. Wins' /\ \A v \in Windows : Alike(win'[v], win[v])
    BY <1>1, <2>1, Unchanged
  <2> QED BY <1>2, <1>6, <2>1, <2>2, Says, Boxes DEF ChangeRefused
<1>7. ASSUME NEW k \in Keys, CopyKey(k) PROVE IInv'
  <2>1. Scalars' /\ booted' = booted /\ win' = win /\ grab' = grab
    BY <1>1, <1>7, Same DEF CopyKey
  <2>2. Wins' /\ \A v \in Windows : Alike(win'[v], win[v])
    BY <1>1, <2>1, Unchanged
  <2> QED BY <1>2, <1>7, <2>1, <2>2, Says, Boxes DEF CopyKey
<1>8. ASSUME NEW k \in Keys, Acknowledge(k) PROVE IInv'
  <2>1. Scalars' /\ booted' = booted /\ stack' = stack
    BY <1>1, <1>8, Same DEF Acknowledge
  <2> QED BY <1>2, <1>8, <2>1, Clicked DEF Acknowledge
<1> QED BY <1>3, <1>4, <1>5, <1>6, <1>7, <1>8

LEMMA NewKeys ==
  ASSUME IInv, SetUp \/ Recover
  PROVE  IInv'
<1>1. Scalars
  BY ScalarsOf DEF IInv
<1>2. CASE SetUp
  <2>1. Scalars' /\ booted' = booted
    BY <1>1, <1>2 DEF Scalars, SetUp
  <2> QED BY <1>2, <2>1, KeyShown DEF SetUp
<1>3. CASE Recover
  <2>1. Scalars' /\ booted' = booted
    BY <1>1, <1>3, NumbersAssumption DEF Scalars, Recover
  <2> QED BY <1>3, <2>1, KeyShown DEF Recover
<1> QED BY <1>2, <1>3

LEMMA BoxReturns ==
  ASSUME IInv, BoxClosed
  PROVE  IInv'
<1> DEFINE n == Len(stack) - 1
           w == Top.win
<1>1. TypeOK /\ FramesOK /\ Once /\ Scalars /\ Wins /\ Owned
  BY ScalarsOf, TypeParts DEF IInv, Inv
<1>2. stack # <<>> /\ Top.kind = "box" /\ stack' = Front(stack) /\ booted' = booted
  BY DEF BoxClosed
<1>3. Scalars'
  BY <1>1, Same DEF BoxClosed
<1>4. /\ Len(stack) \in Loops /\ Boxed(Len(stack)) /\ stack[Len(stack)] = Top /\ FrameOK(Top)
      /\ ~Waits(Len(stack))
  BY <1>1, <1>2, Stack DEF Boxed, Waits, FramesOK
<1>5. CASE Top.then = "schedule"
  <2>1. win' = [win EXCEPT ![w] = Scheduled(win[w])] /\ grab' = grab
    BY <1>5 DEF BoxClosed
  <2>2. w \in Asking /\ w \in Windows /\ w # "dashboard"
    BY <1>2, <1>4, <1>5, Names DEF FrameOK
  <2>3. win[w].open /\ win[w] \in Fields
    BY <1>1, <1>4, <2>2 DEF Owned, Wins
  <2> HIDE DEF w
  <2>4. Scheduled(win[w]) \in Fields /\ Alike(Scheduled(win[w]), win[w])
    BY <2>3, RecordFields
  <2>5. Wins' /\ \A v \in Windows : Alike(win'[v], win[v])
    BY <1>1, <2>1, <2>2, <2>3, <2>4, Changed DEF Timed, Alike
  <2> QED BY <1>2, <1>3, <2>1, <2>5, BoxEnds
<1>6. CASE Top.then = "destroy"
  <2>1. Destroying(w, FALSE)
    BY <1>6 DEF BoxClosed
  <2>2. w = "reset" /\ w \in Windows /\ w # "dashboard"
    BY <1>2, <1>4, <1>6, Names DEF FrameOK, Fixed
  <2>3. /\ Ended(n) /\ 1..n \subseteq Loops /\ Len(stack) \notin 1..n
        /\ Loops = 1..n \union {Len(stack)}
    BY <1>1, <1>2, FrontEnded, Stack DEF Loops
  <2> HIDE DEF n
  <2>4. \A i \in 1..n : Boxed(i) => stack[i].win # w
    BY <1>1, <1>4, <2>2, <2>3 DEF Once, Boxed
  <2>5. \A i \in Loops : Waits(i) => i \in 1..n /\ stack[i].win # w
    <3> SUFFICES ASSUME NEW i \in Loops, Waits(i) PROVE i \in 1..n /\ stack[i].win # w
      OBVIOUS
    <3>1. i \in 1..n
      BY <1>4, <2>3
    <3>2. stack[i].win \in Ops \union Keys \union {"exit"}
      BY <1>1, FrameFields
    <3>3. "reset" \notin Ops \union Keys \union {"exit"}
      BY Names DEF Fixed
    <3> QED BY <2>2, <3>1, <3>2, <3>3
  <2> HIDE DEF w
  <2> QED BY <1>2, <1>3, <2>1, <2>2, <2>3, <2>4, <2>5, Destroys
<1>7. CASE Top.then # "schedule" /\ Top.then # "destroy"
  <2>1. win' = win /\ grab' = grab
    BY <1>7 DEF BoxClosed
  <2>2. Wins' /\ \A v \in Windows : Alike(win'[v], win[v])
    BY <1>1, <2>1, Unchanged
  <2> QED BY <1>2, <1>3, <2>1, <2>2, BoxEnds
<1> QED BY <1>5, <1>6, <1>7

LEMMA WaitReturns ==
  ASSUME IInv, Returns
  PROVE  IInv'
<1> DEFINE t == Top.win
<1>1. TypeOK /\ FramesOK /\ Scalars /\ Wins
  BY ScalarsOf DEF IInv, Inv
<1>2. Returning /\ booted' = booted /\ grab' = grab
  BY DEF Returns, OpReturns, ExitReturns, KeyReturns
<1>3. Len(stack) \in Loops /\ stack[Len(stack)] = Top /\ Waits(Len(stack)) /\ Top.kind = "wait"
  BY <1>1, <1>2, Stack DEF Returning, Waits
<1>4. t \in Windows
  BY <1>1, <1>3, FrameFields
<1>5. FrameOK(Top)
  BY <1>1, <1>3 DEF FramesOK
<1>6. /\ Forgotten \in [Windows -> Fields] /\ Forgotten[t] = Closed
      /\ \A v \in Windows \ {t} : Forgotten[v] = win[v]
  BY <1>1, <1>4, ClosedFields DEF Wins, Forgotten
<1>7. Scalars'
  <2>1. CASE OpReturns \/ KeyReturns
    BY <1>1, <2>1, Same DEF OpReturns, KeyReturns
  <2>2. CASE ExitReturns
    <3>1. win["exit"].result \in BOOLEAN
      BY <1>1, Names DEF Wins, Fields, Fixed
    <3> QED BY <1>1, <2>2, <3>1 DEF ExitReturns, Scalars, authVars
  <2> QED BY <2>1, <2>2 DEF Returns
<1> DEFINE Gone(v) == v \in Ops /\ v # t /\ Awaited(v)
<1>8. /\ win' = Forgotten \/ win' = [v \in Windows |-> [Forgotten[v] EXCEPT !.stale = @ \/ Gone(v)]]
      /\ stack' = Front(stack) \/ stack' = Append(Front(stack), Box("dashboard", "nothing"))
  <2>1. CASE OpReturns
    BY <2>1 DEF OpReturns
  <2>2. CASE ExitReturns
    BY <2>2 DEF ExitReturns
  <2>3. CASE KeyReturns
    BY <2>3 DEF KeyReturns
  <2> QED BY <2>1, <2>2, <2>3 DEF Returns
<1>9. ~Gone(t)
  OBVIOUS
<1>10. ASSUME NEW v \in Windows
       PROVE  /\ win'[v] \in Fields
              /\ win'[v].open = Forgotten[v].open /\ win'[v].robbed = Forgotten[v].robbed
              /\ win'[v].timer = Forgotten[v].timer
              /\ win'[v].stale => Forgotten[v].stale \/ Gone(v)
  <2> DEFINE b == Gone(v)
  <2>1. Forgotten[v] \in Fields /\ b \in BOOLEAN
    BY <1>6
  <2>2. win'[v] = Forgotten[v] \/ win'[v] = [Forgotten[v] EXCEPT !.stale = @ \/ b]
    BY <1>8
  <2>3. ASSUME NEW s \in Fields, NEW c \in BOOLEAN
        PROVE  LET x == [s EXCEPT !.stale = @ \/ c]
               IN  /\ x \in Fields /\ x.open = s.open /\ x.robbed = s.robbed /\ x.timer = s.timer
                   /\ x.stale <=> s.stale \/ c
    BY DEF Fields
  <2>4. LET x == [Forgotten[v] EXCEPT !.stale = @ \/ b]
        IN  /\ x \in Fields /\ x.open = Forgotten[v].open /\ x.robbed = Forgotten[v].robbed
            /\ x.timer = Forgotten[v].timer /\ (x.stale <=> Forgotten[v].stale \/ b)
    <3> HIDE DEF b
    <3> QED BY <2>1, <2>3
  <2> HIDE DEF b
  <2>5. /\ win'[v] \in Fields
        /\ win'[v].open = Forgotten[v].open /\ win'[v].robbed = Forgotten[v].robbed
        /\ win'[v].timer = Forgotten[v].timer
        /\ win'[v].stale => Forgotten[v].stale \/ b
    BY <2>1, <2>2, <2>4
  <2> QED BY <2>5 DEF b
<1>11. win' \in [Windows -> Fields]
  <2>1. CASE win' = Forgotten
    BY <1>6, <2>1
  <2>2. CASE win' = [v \in Windows |-> [Forgotten[v] EXCEPT !.stale = @ \/ Gone(v)]]
    <3>1. win' = [v \in Windows |-> win'[v]]
      BY <2>2
    <3> QED BY <1>10, <3>1
  <2> QED BY <1>8, <2>1, <2>2
<1>12. ~win'[t].open /\ ~win'[t].stale
  BY <1>4, <1>6, <1>9, <1>10, ClosedFields
<1>13. \A v \in Windows \ {t} :
         /\ win'[v].open = win[v].open /\ win'[v].robbed = win[v].robbed
         /\ win'[v].stale => win[v].stale \/ (v \in Ops /\ Awaited(v))
  BY <1>6, <1>10
<1>14. \A v \in Asking : Timed(win'[v])
  <2> SUFFICES ASSUME NEW v \in Asking PROVE Timed(win'[v])
    OBVIOUS
  <2>1. v \in Windows /\ Timed(win[v])
    BY <1>1, Names DEF Wins
  <2>2. Timed(Forgotten[v])
    BY <1>6, <2>1, ClosedFields DEF Timed
  <2> QED BY <1>10, <2>1, <2>2 DEF Timed
<1> QED BY <1>2, <1>7, <1>8, <1>11, <1>12, <1>13, <1>14, WaitEnds

LEMMA Initially == Init => IInv
<1> SUFFICES ASSUME Init PROVE IInv
  OBVIOUS
<1>1. /\ win = [w \in Windows |-> Closed] /\ grab = "none" /\ stack = <<>> /\ Len(stack) = 0
      /\ Loops = {}
  BY EmptySeq DEF Init, Loops
<1>2. /\ \A w \in Windows : win[w] = Closed
      /\ \A w \in Windows : win[w] \in Fields /\ ~win[w].open /\ ~win[w].timer /\ ~win[w].stale
  BY <1>1, ClosedFields
<1>3. Wins /\ Owned
  BY <1>1, <1>2, ClosedFields, Names DEF Wins, Owned, Timed
<1>4. Scalars
  <2>1. 0 \in 0..(MaxAttempts - 1) /\ 0 \in 0..LockTicks
    BY NumbersAssumption
  <2>2. attempts = 0 /\ lockout = 0 /\ booted \in BOOLEAN /\ passwordSet \in BOOLEAN /\ running \in BOOLEAN
    BY DEF Init
  <2> QED BY <2>1, <2>2 DEF Scalars
<1>5. stack \in Seq(Frame) /\ Len(stack) <= MaxDepth
  BY <1>1, NumbersAssumption
<1>6. TypeOK
  BY <1>1, <1>3, <1>4, <1>5, TypeOfParts
<1>7. FramesOK /\ Once /\ Nested
  BY <1>1 DEF FramesOK, Once, Nested
<1>8. Held /\ StaleOnlyIfRobbed
  BY <1>1, <1>2, Names DEF Held, StaleOnlyIfRobbed, Fixed
<1> QED BY <1>6, <1>7, <1>8 DEF IInv, Inv

LEMMA Inductive == IInv /\ [Next]_vars => IInv'
<1> SUFFICES ASSUME IInv, [Next]_vars PROVE IInv'
  OBVIOUS
<1>1. CASE Next
  <2>1. CASE Tick \/ ExitUnasked \/ \E w \in Asking : TimerFires(w)
    BY <2>1, Timing
  <2>2. CASE ShowPrompt \/ Bootstrap \/ OpenRecovery \/ OpenReset
    BY <2>2, OpensUnawaited
  <2>3. CASE ConfirmExit \/ StartOp
    BY <2>3, OpensAwaited
  <2>4. CASE Answer
    BY <2>4, Guessing, Forms, NewKeys DEF Answer
  <2>5. CASE BoxClosed
    BY <2>5, BoxReturns
  <2>6. CASE Returns
    BY <2>6, WaitReturns
  <2> QED BY <1>1, <2>1, <2>2, <2>3, <2>4, <2>5, <2>6 DEF Next, Open
<1>2. CASE UNCHANGED vars
  <2>1. /\ win' = win /\ grab' = grab /\ stack' = stack /\ booted' = booted
        /\ running' = running /\ UNCHANGED authVars
    BY <1>2 DEF vars
  <2>2. TypeOK /\ Scalars
    BY ScalarsOf DEF IInv
  <2>3. Scalars'
    BY <2>1, <2>2, Same
  <2>4. Wins' /\ \A v \in Windows : Alike(win'[v], win[v])
    BY <2>1, <2>2, Unchanged
  <2> QED BY <2>1, <2>3, <2>4, Touches
<1> QED BY <1>1, <1>2

LEMMA Invariance == Spec => []IInv
<1> QED BY Initially, Inductive, PTL DEF Spec

-----------------------------------------------------------------------------
(* Theorems *)

(* Besides the types: no timer fires for a dialog that is gone, and the code    *)
(* after a message box finds the window it belongs to.                         *)
THEOREM DialogsTypeCorrect == Spec => []TypeOK
<1>1. IInv => TypeOK
  BY DEF IInv
<1> QED BY <1>1, Invariance, PTL

\* With the input goes, for whoever has it, a window to answer in.
LEMMA SomethingToAnswer == IInv => NeverStuck
<1> SUFFICES ASSUME IInv, running, ~(stack # <<>> /\ Top.kind = "box"), ~Returning
             PROVE  DashClickable \/ \E w \in Windows : Clickable(w)
  BY DEF NeverStuck
<1>1. TypeOK /\ FramesOK /\ Held /\ Once /\ Nested /\ Serving
  BY DEF IInv, Inv, Serving
<1>2. CASE grab = "none" /\ stack = <<>>
  <2>1. ~HasBox("dashboard")
    BY <1>1, <1>2, Owners, Stack
  <2> QED BY <1>1, <1>2, <2>1 DEF DashClickable
<1>3. ASSUME stack # <<>>
      PROVE  /\ Len(stack) \in Loops /\ Waits(Len(stack)) /\ ~Boxed(Len(stack))
             /\ stack[Len(stack)] = Top /\ Top.win \in Windows /\ Top.win # "dashboard"
             /\ win[Top.win].open
  <2>1. Len(stack) \in Loops /\ stack[Len(stack)] = Top
    BY <1>1, <1>3, Stack
  <2>2. Waits(Len(stack)) /\ ~Boxed(Len(stack)) /\ Top.kind = "wait"
    BY <1>1, <1>3, <2>1, Stack DEF Frame, Waits, Boxed
  <2>3. Top.win \in Windows
    BY <1>1, <2>1, <2>2, FrameFields
  <2>4. win[Top.win].open
    BY <1>3, <2>2 DEF Returning
  <2> QED BY <2>1, <2>2, <2>3, <2>4, Names
<1>4. CASE grab = "none" /\ stack # <<>>
  <2>1. ~HasBox(Top.win)
    <3> SUFFICES ASSUME HasBox(Top.win) PROVE FALSE
      OBVIOUS
    <3>1. PICK i \in Loops : Boxed(i) /\ stack[i].win = Top.win
      BY <1>1, Owners
    <3>2. Len(stack) < i
      BY <1>1, <1>3, <1>4, <3>1 DEF Once
    <3> QED BY <1>1, <3>1, <3>2, Stack DEF Loops
  <2> QED BY <1>1, <1>3, <1>4, <2>1 DEF Clickable
<1>5. CASE grab # "none"
  <2>1. grab \in Windows /\ win[grab].open
    BY <1>1, <1>5 DEF TypeOK, Held
  <2>2. ~HasBox(grab)
    <3> SUFFICES ASSUME HasBox(grab) PROVE FALSE
      OBVIOUS
    <3>1. PICK i \in Loops : Boxed(i) /\ stack[i].win = grab
      BY <1>1, Owners
    <3>2. stack # <<>>
      BY <1>1, <3>1, Stack
    <3>3. i # Len(stack)
      BY <1>3, <3>1, <3>2
    <3>4. i < Len(stack)
      <4>1. Len(stack) \in Nat
        BY <1>1, Stack
      <4> QED BY <3>3, <4>1 DEF Loops
    <3> QED BY <1>1, <1>3, <3>1, <3>2, <3>4 DEF Nested
  <2> QED BY <1>1, <2>1, <2>2 DEF Clickable
<1> QED BY <1>2, <1>4, <1>5

(* However dialogs, notices and forms nest, with a prompt or an exit request    *)
(* that takes the grab at any moment, there is always something the user can    *)
(* answer: the grab never stays with a window that is gone or that a box holds. *)
THEOREM NeverStuckAlways == Spec => []NeverStuck
<1> QED BY SomethingToAnswer, Invariance, PTL

(* Rows that were chosen and a key that is shown are out of date only if the    *)
(* grab was taken from their dialog.                                           *)
THEOREM StaleMeansRobbed == Spec => []StaleOnlyIfRobbed
<1>1. IInv => StaleOnlyIfRobbed
  BY DEF IInv, Inv
<1> QED BY <1>1, Invariance, PTL

(* A dialog that kept its grab and is closed is the innermost one, so that its  *)
(* answer is acted upon before anything else is.                               *)
THEOREM AnswersActedUpon == Spec => []AnswerActedUpon
<1>1. IInv => AnswerActedUpon
  <2> SUFFICES ASSUME IInv, NEW i \in DOMAIN stack, stack[i].kind = "wait",
                      ~win[stack[i].win].open, ~win[stack[i].win].robbed
               PROVE  i = Len(stack)
    BY DEF AnswerActedUpon
  <2>1. TypeOK /\ Nested
    BY DEF IInv, Inv
  <2>2. i \in Loops /\ Waits(i) /\ Len(stack) \in Nat
    BY <2>1, Stack DEF Waits
  <2>3. ASSUME i # Len(stack) PROVE FALSE
    <3>1. Len(stack) \in Loops /\ i < Len(stack)
      BY <2>2, <2>3 DEF Loops
    <3> QED BY <2>1, <2>2, <3>1 DEF Nested
  <2> QED BY <2>3
<1> QED BY <1>1, Invariance, PTL
=============================================================================
