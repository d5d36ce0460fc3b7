--------------------------- MODULE AuthState_proofs ---------------------------
(* Theorems about AuthState for every set of passwords, every limit, and      *)
(* whatever fails, with their proofs.                                         *)
EXTENDS AuthState, FiniteSetTheorems, FunctionTheorems, TLAPS

-----------------------------------------------------------------------------
(* The inductive invariant *)

\* What the anchors say is never more than what is in the state file.
AnchorsBehind ==
  /\ disk.state = NoState => disk.guard = "absent" /\ disk.registry = "absent"
  /\ "configured" \in {disk.guard, disk.registry} => disk.state.hash # NoPassword

\* The same of what the monitor thread has read of them.
ReaderBehind ==
  /\ reader.pc # "idle" => disk.state # NoState
  /\ "configured" \in {reader.guard, reader.registry} => disk.state.hash # NoPassword

\* How the parts of the UI thread's frame fit together.
Frame ==
  /\ ui.then = "none" <=> ui.pc \in {"down", "prepare", "idle"}
  /\ ui.todo = <<>> <=> ui.pc # "saving"
  /\ ui.pc = "clear" => ui.then \in {"migrate", "setup", "change"}
  /\ ui.then = "reset" => ui.right

\* What is being saved never takes a password away; once it is written it is on disk.
Copy ==
  /\ ui.then # "none" => ui.copy # NoState
  /\ ui.then \in {"migrate", "reset", "setup", "change", "recover"} => ui.copy.hash # NoPassword
  /\ ui.then \in {"record", "recount"} => ui.copy.hash = disk.state.hash
  /\ ui.then \in {"boot", "create"} /\ ui.todo = SaveOrder => disk.state = NoState
  /\ ui.then # "none" /\ ui.pc # "os_error" /\ ui.todo # SaveOrder => disk.state = ui.copy

\* Once prepared, the program has a state, which has the password if there was one.
Ready ==
  /\ ui.pc \notin {"down", "prepare"} /\ ui.then \notin {"boot", "create"} => disk.state # NoState
  /\ Running /\ legacy # NoPassword => disk.state.hash # NoPassword

\* No guess that was answered is missing from the count, on disk or about to be there.
Counted ==
  /\ wrong <= disk.state.attempts
  /\ legacy # NoPassword /\ disk.state.hash = NoPassword => wrong = 0
  /\ ui.then \in {"record", "recount"} /\ ui.copy.attempts # 0 => wrong < ui.copy.attempts
  /\ ui.then = "record" /\ ui.copy.attempts # 0 => ui.copy.until = 0 /\ disk.state.until = 0
  /\ ui.then \in {"reset", "setup", "change", "recover"} => ui.copy.attempts = 0
  /\ ui.then = "migrate" => wrong = 0

Inv == AnchorsBehind /\ ReaderBehind /\ Frame /\ Copy /\ Ready /\ Counted
IInv == TypeOK /\ Inv

-----------------------------------------------------------------------------
(* States *)

\* Powers of two are natural numbers: they are the sizes of finite power sets.
LEMMA PowerType ==
  ASSUME NEW n \in Nat
  PROVE  2^n \in Nat /\ 2^n > 0
<1>1. IsFiniteSet(1..n) /\ Cardinality(1..n) = n
  BY FS_Interval
<1>2. IsFiniteSet(SUBSET (1..n)) /\ Cardinality(SUBSET (1..n)) = 2^n
  BY <1>1, FS_SUBSET
<1>3. Cardinality(SUBSET (1..n)) \in Nat
  BY <1>2, FS_CardinalityType
<1>4. Cardinality(SUBSET (1..n)) # 0
  BY <1>2, FS_EmptySet
<1> QED BY <1>2, <1>3, <1>4

\* The subsets of 1..n + 1 are those without n + 1 and as many with it.
LEMMA PowerDoubles ==
  ASSUME NEW n \in Nat
  PROVE  2^(n + 1) = 2 * 2^n
<1> DEFINE without == SUBSET (1..n)
           with == {s \union {n + 1} : s \in without}
           f == [s \in without |-> s \union {n + 1}]
<1>1. /\ IsFiniteSet(1..n) /\ Cardinality(1..n) = n
      /\ IsFiniteSet(1..n + 1) /\ Cardinality(1..n + 1) = n + 1
  BY FS_Interval
<1>2. /\ IsFiniteSet(without) /\ Cardinality(without) = 2^n
      /\ Cardinality(SUBSET (1..n + 1)) = 2^(n + 1)
  BY <1>1, FS_SUBSET
<1>3. \A s \in without : n + 1 \notin s
  OBVIOUS
<1>4. f \in Bijection(without, with)
  <2> HIDE DEF without
  <2>1. f \in [without -> with]
    OBVIOUS
  <2>2. \A s, t \in without : f[s] = f[t] => s = t
    <3> SUFFICES ASSUME NEW s \in without, NEW t \in without, f[s] = f[t]
                 PROVE  s = t
      OBVIOUS
    <3>1. s \union {n + 1} = t \union {n + 1}
      OBVIOUS
    <3> HIDE DEF f
    <3>2. n + 1 \notin s /\ n + 1 \notin t
      BY <1>3
    <3>3. \A i : i \in s <=> i \in t
      BY <3>1, <3>2
    <3> QED BY <3>3
  <2>3. \A w \in with : \E s \in without : f[s] = w
    OBVIOUS
  <2> HIDE DEF f, with
  <2> QED BY <2>1, <2>2, <2>3, Fun_IsBij
<1>5. IsFiniteSet(with) /\ Cardinality(with) = 2^n
  BY <1>2, <1>4, FS_Bijection DEF ExistsBijection
<1>6. SUBSET (1..n + 1) = without \union with
  <2>1. ASSUME NEW s \in SUBSET (1..n + 1), n + 1 \in s PROVE s \in with
    <3>1. s \ {n + 1} \in without
      BY <2>1
    <3>2. s = (s \ {n + 1}) \union {n + 1}
      BY <2>1
    <3> QED BY <3>1, <3>2
  <2>2. ASSUME NEW s \in SUBSET (1..n + 1), n + 1 \notin s PROVE s \in without
    BY <2>2
  <2>3. \A s \in without : s \subseteq 1..n + 1 /\ s \union {n + 1} \subseteq 1..n + 1
    OBVIOUS
  <2>4. \A s \in with : s \subseteq 1..n + 1
    BY <2>3
  <2> HIDE DEF without, with
  <2>5. \A s : s \in SUBSET (1..n + 1) <=> s \in without \union with
    BY <2>1, <2>2, <2>3, <2>4
  <2> QED BY <2>5, Zenon
<1>7. without \intersect with = {}
  BY <1>3
<1> HIDE DEF without, with
<1> DEFINE half == 2^n
           all == 2^(n + 1)
<1>8. Cardinality(without \union with)
        = Cardinality(without) + Cardinality(with) - Cardinality(without \intersect with)
  BY <1>2, <1>5, FS_Union
<1>9. Cardinality(without \intersect with) = 0
  BY <1>7, FS_EmptySet
<1>10. half \in Nat
  BY PowerType
<1>11. /\ Cardinality(without) = half /\ Cardinality(with) = half
       /\ Cardinality(without \union with) = all
  BY <1>2, <1>5, <1>6
<1> HIDE DEF half, all
<1>12. all = 2 * half
  BY <1>8, <1>9, <1>10, <1>11
<1> QED BY <1>12 DEF half, all

\* A lockout lasts at most MAX_LOCKOUT_DURATION.
LEMMA LockoutType ==
  ASSUME NEW n \in Nat
  PROVE  Lockout(n) \in 0..MaxLockout
<1> DEFINE power == 2^n
<1>1. power \in Nat
  BY PowerType
<1> HIDE DEF power
<1>2. BaseLockout * power \in Nat
  BY <1>1, LockoutAssumption
<1>3. Lockout(n) = IF BaseLockout * power < MaxLockout THEN BaseLockout * power ELSE MaxLockout
  BY DEF Lockout, power
<1> QED BY <1>2, <1>3, LockoutAssumption

\* A lockout is at least a tick, and the next one is twice as long or the longest.
LEMMA LockoutDoubles ==
  ASSUME NEW n \in Nat
  PROVE  /\ Lockout(n + 1) > 0
         /\ Lockout(n + 1) = MaxLockout \/ Lockout(n + 1) >= 2 * Lockout(n)
<1> DEFINE power == 2^n
           next == 2^(n + 1)
<1>1. power \in Nat /\ power > 0 /\ next = 2 * power
  BY PowerType, PowerDoubles
<1>2. /\ Lockout(n) = IF BaseLockout * power < MaxLockout THEN BaseLockout * power ELSE MaxLockout
      /\ Lockout(n + 1) = IF BaseLockout * next < MaxLockout THEN BaseLockout * next ELSE MaxLockout
  BY DEF Lockout
<1> HIDE DEF power, next
<1> DEFINE base == BaseLockout * power
<1>3. base \in Nat /\ base > 0
  BY <1>1, LockoutAssumption
<1>4. BaseLockout * next = 2 * base
  BY <1>1, LockoutAssumption
<1>5. MaxLockout \in Nat /\ MaxLockout > 0
  BY LockoutAssumption
<1> HIDE DEF base
<1> QED BY <1>2, <1>3, <1>4, <1>5 DEF base

LEMMA StateExists == NoState \notin State
BY DEF NoState, State

LEMMA DefaultStateType == DefaultState \in State
BY LockoutAssumption DEF DefaultState, State, Hash

\* A record with fields replaced, whatever the sets the fields are in.
LEMMA Replaced ==
  ASSUME NEW H, NEW R, NEW A, NEW U, NEW C,
         NEW s \in [hash : H, recovery : R, attempts : A, until : U, count : C],
         NEW h \in H, NEW r \in R, NEW a \in A, NEW u \in U, NEW c \in C
  PROVE  LET set == [hash : H, recovery : R, attempts : A, until : U, count : C]
         IN  /\ [s EXCEPT !.hash = h, !.attempts = a, !.until = u] \in set
             /\ [s EXCEPT !.attempts = a, !.until = u, !.count = c] \in set
             /\ [s EXCEPT !.attempts = a, !.count = c, !.until = u] \in set
             /\ [s EXCEPT !.attempts = a] \in set
             /\ [s EXCEPT !.until = u] \in set
             /\ [[s EXCEPT !.attempts = a, !.until = u, !.count = c]
                  EXCEPT !.hash = h, !.recovery = r] \in set
OBVIOUS

LEMMA Zeros == 0 \in 0..MaxFailed - 1 /\ 0 \in 0..MaxLockout /\ 0 \in 0..MaxLockouts
BY LockoutAssumption

LEMMA StateFields ==
  ASSUME NEW s \in State
  PROVE  /\ s.hash \in Hash /\ s.recovery \in 0..MaxKeys
         /\ s.attempts \in 0..MaxFailed - 1 /\ s.attempts \in Nat
         /\ s.until \in 0..MaxLockout /\ s.until \in Nat
         /\ s.count \in 0..MaxLockouts /\ s.count \in Nat
         /\ DOMAIN s = {"hash", "recovery", "attempts", "until", "count"}
BY DEF State

LEMMA ClearedType ==
  ASSUME NEW s \in State
  PROVE  /\ Cleared(s) \in State
         /\ Cleared(s).hash = s.hash
         /\ Cleared(s).attempts = 0
<1>1. Cleared(s) \in State
  BY Replaced, Zeros, StateFields, Zenon DEF Cleared, State
<1>2. Cleared(s).hash = s.hash /\ Cleared(s).attempts = 0
  BY StateFields DEF Cleared
<1> QED BY <1>1, <1>2

LEMMA FailedAttemptType ==
  ASSUME NEW s \in State, s.count < MaxLockouts
  PROVE  /\ FailedAttempt(s) \in State
         /\ FailedAttempt(s).hash = s.hash
         /\ FailedAttempt(s).attempts # 0 =>
              /\ FailedAttempt(s).attempts = s.attempts + 1
              /\ FailedAttempt(s).until = s.until
<1>1. Lockout(s.count + 1) \in 0..MaxLockout /\ s.count + 1 \in 0..MaxLockouts
  BY LockoutType, StateFields, LockoutAssumption
<1>2. CASE s.attempts + 1 < MaxFailed
  <2>1. s.attempts + 1 \in 0..MaxFailed - 1
    BY <1>2, StateFields, LockoutAssumption
  <2>2. FailedAttempt(s) = [s EXCEPT !.attempts = s.attempts + 1]
    BY <1>2 DEF FailedAttempt
  <2>3. [s EXCEPT !.attempts = s.attempts + 1] \in State
    BY <2>1, <1>1, Replaced, Zeros, StateFields, Zenon DEF State
  <2> QED BY <2>2, <2>3, StateFields
<1>3. CASE ~(s.attempts + 1 < MaxFailed)
  <2> DEFINE new == [s EXCEPT !.attempts = 0, !.count = s.count + 1, !.until = Lockout(s.count + 1)]
  <2>1. FailedAttempt(s) = new
    BY <1>3 DEF FailedAttempt
  <2>2. new \in State
    BY <1>1, Replaced, Zeros, StateFields, Zenon DEF State
  <2> QED BY <2>1, <2>2, StateFields
<1> QED BY <1>2, <1>3

LEMMA NewHashType ==
  ASSUME NEW s \in State, NEW p \in Hash
  PROVE  LET new == [s EXCEPT !.hash = p, !.attempts = 0, !.until = 0]
         IN  new \in State /\ new.hash = p /\ new.attempts = 0
<1> DEFINE new == [s EXCEPT !.hash = p, !.attempts = 0, !.until = 0]
<1>1. new \in State
  BY Replaced, Zeros, StateFields, Zenon DEF State
<1>2. new.hash = p /\ new.attempts = 0
  BY StateFields
<1> QED BY <1>1, <1>2

LEMMA NewKeyType ==
  ASSUME NEW s \in State, NEW p \in Hash, keys \in 0..MaxKeys, keys < MaxKeys
  PROVE  NewKey(s, p) \in State /\ NewKey(s, p).hash = p /\ NewKey(s, p).attempts = 0
<1>1. keys + 1 \in 0..MaxKeys
  BY LockoutAssumption
<1>2. NewKey(s, p) \in State
  BY <1>1, Replaced, Zeros, StateFields, Zenon DEF NewKey, Cleared, State
<1>3. NewKey(s, p).hash = p /\ NewKey(s, p).attempts = 0
  BY StateFields DEF NewKey, Cleared
<1> QED BY <1>2, <1>3

-----------------------------------------------------------------------------
(* Frames *)

AnyState == State \union {NoState}
Order == {SaveOrder, <<"guard", "registry">>, <<"registry">>, <<>>}
UiFrame == [pc : Pcs, then : Thens, todo : Order, copy : AnyState, new : Hash, right : BOOLEAN]
Places == [state : AnyState, guard : AnchorValue, registry : AnchorValue]
Readings == [pc : {"idle", "registry", "state"}, guard : AnchorValue, registry : AnchorValue]

\* The writes of a save that are left, one after the other.
LEMMA Orders ==
  /\ Head(SaveOrder) = "state" /\ Tail(SaveOrder) = <<"guard", "registry">> /\ Len(SaveOrder) = 3
  /\ Head(<<"guard", "registry">>) = "guard" /\ Tail(<<"guard", "registry">>) = <<"registry">>
  /\ Len(<<"guard", "registry">>) = 2
  /\ Head(<<"registry">>) = "registry" /\ Tail(<<"registry">>) = <<>> /\ Len(<<"registry">>) = 1
  /\ <<"registry">> # <<>> /\ <<"guard", "registry">> # <<>> /\ SaveOrder # <<>>
  /\ <<"registry">> # SaveOrder /\ <<"guard", "registry">> # SaveOrder
BY DEF SaveOrder

\* TypeOK, but for the bound on wrong, which follows from Counted.
Types ==
  /\ disk \in Places /\ legacy \in Hash /\ ui \in UiFrame /\ reader \in Readings
  /\ keys \in 0..MaxKeys /\ shown \in 0..MaxKeys
  /\ wrong \in Nat
  /\ last \in 0..MaxLockout
  /\ faulty \in BOOLEAN

LEMMA TypesOfTypeOK == TypeOK => Types
BY DEF TypeOK, Types, Places, UiFrame, Readings, AnyState, Order

LEMMA TypeOKOfTypes == Types /\ Counted => TypeOK
<1> SUFFICES ASSUME Types, Counted PROVE TypeOK
  OBVIOUS
<1>1. disk.state.attempts \in 0..MaxFailed - 1
  <2>1. CASE disk.state = NoState
    BY <2>1, Zeros DEF NoState
  <2>2. CASE disk.state # NoState
    BY <2>2, StateFields DEF Types, Places, AnyState
  <2> QED BY <2>1, <2>2
<1>2. wrong \in 0..MaxFailed - 1
  BY <1>1, LockoutAssumption DEF Types, Counted
<1> QED BY <1>2 DEF TypeOK, Types, Places, UiFrame, Readings, AnyState, Order

LEMMA IdleFrames ==
  /\ Idle \in UiFrame /\ Idle.pc = "idle" /\ Idle.then = "none" /\ Idle.todo = <<>>
  /\ Down \in UiFrame /\ Down.pc = "down" /\ Down.then = "none" /\ Down.todo = <<>>
  /\ LET prepare == [Down EXCEPT !.pc = "prepare"]
     IN  prepare \in UiFrame /\ prepare.pc = "prepare" /\ prepare.then = "none" /\ prepare.todo = <<>>
<1>1. Idle \in UiFrame /\ Idle.pc = "idle" /\ Idle.then = "none" /\ Idle.todo = <<>>
  BY DEF Idle, UiFrame, Pcs, Thens, Order, AnyState, Hash
<1>2. \A f \in UiFrame : \A pc \in Pcs :
        LET g == [f EXCEPT !.pc = pc]
        IN  g \in UiFrame /\ g.pc = pc /\ g.then = f.then /\ g.todo = f.todo
  BY DEF UiFrame
<1>3. "down" \in Pcs /\ "prepare" \in Pcs
  BY DEF Pcs
<1>4. Down \in UiFrame /\ Down.pc = "down" /\ Down.then = "none" /\ Down.todo = <<>>
  BY <1>1, <1>2, <1>3, Zenon DEF Down
<1>5. LET prepare == [Down EXCEPT !.pc = "prepare"]
      IN  prepare \in UiFrame /\ prepare.pc = "prepare" /\ prepare.then = "none" /\ prepare.todo = <<>>
  BY <1>4, <1>2, <1>3, Zenon
<1> QED BY <1>1, <1>4, <1>5

LEMMA SaveFrame ==
  ASSUME ui \in UiFrame, NEW copy \in State, NEW then \in Thens
  PROVE  LET f == Save(copy, then)
         IN  /\ f \in UiFrame
             /\ f.pc = "saving" /\ f.then = then /\ f.todo = SaveOrder /\ f.copy = copy
             /\ f.new = ui.new /\ f.right = ui.right
<1> "saving" \in Pcs /\ SaveOrder \in Order /\ copy \in AnyState
  BY DEF Pcs, Order, AnyState
<1> QED BY DEF Save, UiFrame

-----------------------------------------------------------------------------
(* What most steps have in common *)

\* An operation ends, or the program does.
LEMMA Ends ==
  ASSUME IInv, UNCHANGED <<disk, keys>>,
         ui' \in {Idle, Down, [Down EXCEPT !.pc = "prepare"]},
         legacy' \in {legacy, NoPassword}, reader' \in {reader, NotReading},
         shown' \in 0..MaxKeys, last' = last, faulty' \in BOOLEAN,
         wrong' \in Nat, wrong' <= disk.state.attempts,
         ui'.pc = "idle" => /\ disk.state # NoState
                            /\ legacy' # NoPassword => disk.state.hash # NoPassword,
         ui'.pc # "idle" => wrong' = wrong
  PROVE  IInv'
<1> USE DEF IInv, Inv
<1>1. Types
  BY TypesOfTypeOK
<1>2. /\ ui' \in UiFrame /\ ui'.pc \in {"idle", "down", "prepare"}
      /\ ui'.then = "none" /\ ui'.todo = <<>>
  BY IdleFrames
<1>3. NotReading \in Readings /\ NotReading.pc = "idle"
      /\ NotReading.guard = "absent" /\ NotReading.registry = "absent"
  BY DEF NotReading, Readings, AnchorValue
<1>4. Types'
  BY <1>1, <1>2, <1>3 DEF Types, Hash
<1>5. AnchorsBehind' /\ ReaderBehind'
  BY <1>3 DEF AnchorsBehind, ReaderBehind
<1>6. Frame' /\ Copy'
  BY <1>2 DEF Frame, Copy
<1>7. Ready'
  BY <1>2 DEF Ready, Running
<1>8. Counted'
  BY <1>2, <1>4, <1>7 DEF Counted, Types
<1>9. (Types /\ Counted => TypeOK)'
  BY TypeOKOfTypes, PTL
<1> QED BY <1>4, <1>5, <1>6, <1>7, <1>8, <1>9

\* A save begins.
LEMMA Begins ==
  ASSUME IInv, UNCHANGED <<disk, legacy, reader, history>>, keys' \in 0..MaxKeys,
         ui' \in UiFrame, ui'.pc = "saving", ui'.then # "none", ui'.todo = SaveOrder,
         ui'.copy \in State,
         ui'.then = "reset" => ui'.right,
         ui'.then \in {"migrate", "reset", "setup", "change", "recover"} => ui'.copy.hash # NoPassword,
         ui'.then \in {"record", "recount"} => ui'.copy.hash = disk.state.hash,
         ui'.then \in {"boot", "create"} <=> disk.state = NoState,
         ui'.then \notin {"boot", "create", "migrate"} /\ legacy # NoPassword
           => disk.state.hash # NoPassword,
         ui'.then \in {"record", "recount"} /\ ui'.copy.attempts # 0
           => ui'.copy.attempts = disk.state.attempts + 1,
         ui'.then = "record" /\ ui'.copy.attempts # 0 => ui'.copy.until = 0 /\ disk.state.until = 0,
         ui'.then \in {"reset", "setup", "change", "recover"} => ui'.copy.attempts = 0,
         ui'.then = "migrate" => wrong = 0
  PROVE  IInv'
<1> USE DEF IInv, Inv, history
<1>1. Types
  BY TypesOfTypeOK
<1>2. Types'
  BY <1>1 DEF Types
<1>3. AnchorsBehind' /\ ReaderBehind'
  BY DEF AnchorsBehind, ReaderBehind
<1>4. Frame' /\ Copy'
  BY StateExists DEF Frame, Copy, SaveOrder
<1>5. Ready'
  BY DEF Ready, Running
<1>6. disk.state.attempts \in Nat
  BY <1>1, StateFields DEF Types, Places, AnyState, NoState
<1>7. Counted'
  BY <1>1, <1>6 DEF Counted, Types
<1>8. (Types /\ Counted => TypeOK)'
  BY TypeOKOfTypes, PTL
<1> QED BY <1>2, <1>3, <1>4, <1>5, <1>7, <1>8

\* A password is saved; the rows of the old database come next.
LEMMA ClearBegins ==
  ASSUME IInv, UNCHANGED <<disk, legacy, reader, keys, history>>,
         ui.pc = "saved", ui.then \in {"migrate", "setup", "change"},
         ui' = [ui EXCEPT !.pc = "clear"]
  PROVE  IInv'
<1> USE DEF IInv, Inv, history
<1>1. Types
  BY TypesOfTypeOK
<1>2. /\ ui' \in UiFrame
      /\ ui'.pc = "clear" /\ ui'.then = ui.then /\ ui'.todo = ui.todo
      /\ ui'.copy = ui.copy /\ ui'.right = ui.right
  BY <1>1 DEF Types, UiFrame, Pcs
<1>3. Types'
  BY <1>1, <1>2 DEF Types
<1>4. AnchorsBehind' /\ ReaderBehind' /\ Counted'
  BY <1>2 DEF AnchorsBehind, ReaderBehind, Counted
<1>5. Frame' /\ Copy'
  BY <1>2 DEF Frame, Copy
<1>6. Ready'
  BY <1>2 DEF Ready, Running
<1>7. (Types /\ Counted => TypeOK)'
  BY TypeOKOfTypes, PTL
<1> QED BY <1>3, <1>4, <1>5, <1>6, <1>7

-----------------------------------------------------------------------------
(* The steps *)

THEOREM Initially == Init => IInv
<1> SUFFICES ASSUME Init PROVE IInv
  OBVIOUS
<1>1. /\ Down \in UiFrame /\ Down.pc = "down" /\ Down.then = "none" /\ Down.todo = <<>>
  BY IdleFrames
<1>2. disk \in Places /\ reader \in Readings
  BY DEF Init, Places, Readings, AnyState, AnchorValue, NotReading
<1>3. Types
  <2>1. /\ legacy \in Hash /\ ui = Down
        /\ keys = 0 /\ shown = 0 /\ wrong = 0 /\ last = 0 /\ faulty = FALSE
    BY DEF Init
  <2>2. 0 \in 0..MaxKeys /\ 0 \in 0..MaxLockout
    BY LockoutAssumption
  <2> QED BY <1>1, <1>2, <2>1, <2>2 DEF Types
<1>4. Inv
  BY <1>1, PasswordAssumption
     DEF Inv, Init, AnchorsBehind, ReaderBehind, Frame, Copy, Ready, Running, Counted,
         NotReading, NoState
<1> QED BY <1>3, <1>4, TypeOKOfTypes DEF IInv, Inv

\* The steps of the start.
LEMMA StartStep == IInv /\ Start => IInv'
<1> SUFFICES ASSUME IInv, Start PROVE IInv'
  OBVIOUS
<1>1. Types /\ disk.state \in AnyState /\ wrong \in Nat /\ wrong <= disk.state.attempts
      /\ shown \in 0..MaxKeys /\ keys \in 0..MaxKeys /\ faulty \in BOOLEAN
      /\ legacy \in Hash /\ ui \in UiFrame
  BY TypesOfTypeOK DEF IInv, Inv, Types, Places, Counted
<1>2. DefaultState \in State /\ NoState \notin State
  BY DefaultStateType, StateExists
<1>3. \A then \in {"boot", "create"} : 
        disk.state = NoState /\ ui' = Save(DefaultState, then)
          /\ UNCHANGED <<disk, legacy, reader, keys, history>> => IInv'
  <2> SUFFICES ASSUME NEW then \in {"boot", "create"},
                      disk.state = NoState, ui' = Save(DefaultState, then),
                      UNCHANGED <<disk, legacy, reader, keys, history>>
               PROVE  IInv'
    OBVIOUS
  <2>1. /\ ui' \in UiFrame
        /\ ui'.pc = "saving" /\ ui'.then = then /\ ui'.todo = SaveOrder
        /\ ui'.copy = DefaultState
    BY <1>1, <1>2, SaveFrame DEF Thens
  <2> QED BY <1>1, <1>2, <2>1, Begins
<1>4. ASSUME Boot PROVE IInv'
  <2>1. CASE disk.state = NoState /\ Loaded
    BY <1>3, <1>4, <2>1 DEF Boot
  <2>2. CASE ~(disk.state = NoState /\ Loaded)
    <3>1. ui' = [Down EXCEPT !.pc = "prepare"]
      BY <1>4, <2>2 DEF Boot
    <3>2. ui'.pc = "prepare"
      BY <3>1, IdleFrames
    <3> QED BY <1>1, <1>4, <3>1, <3>2, Ends DEF Boot, history
  <2> QED BY <2>1, <2>2
<1>5. ASSUME Booted PROVE IInv'
  <2>1. ui' = [Down EXCEPT !.pc = "prepare"]
    BY <1>5 DEF Booted
  <2>2. ui'.pc = "prepare"
    BY <2>1, IdleFrames
  <2> QED BY <1>1, <1>5, <2>1, <2>2, Ends DEF Booted, history
<1>6. ASSUME Prepare PROVE IInv'
  <2>1. CASE ~Loaded
    BY <1>1, <1>6, <2>1, Ends, IdleFrames DEF Prepare, history
  <2>2. CASE Loaded /\ disk.state = NoState
    BY <1>3, <1>6, <2>2 DEF Prepare
  <2>3. CASE /\ Loaded /\ disk.state # NoState
             /\ disk.state.hash = NoPassword /\ legacy # NoPassword
    <3> DEFINE copy == [disk.state EXCEPT !.hash = legacy, !.attempts = 0, !.until = 0]
    <3>1. copy \in State /\ copy.hash = legacy
      BY <1>1, <2>3, NewHashType DEF AnyState
    <3>2. ui' = Save(copy, "migrate")
      BY <1>6, <2>3 DEF Prepare
    <3> HIDE DEF copy
    <3>3. /\ ui' \in UiFrame
          /\ ui'.pc = "saving" /\ ui'.then = "migrate" /\ ui'.todo = SaveOrder /\ ui'.copy = copy
      BY <1>1, <3>1, <3>2, SaveFrame DEF Thens
    <3>4. wrong = 0
      BY <2>3 DEF IInv, Inv, Counted
    <3> QED BY <1>1, <1>6, <2>3, <3>1, <3>3, <3>4, Begins DEF Prepare
  <2>4. CASE /\ Loaded /\ disk.state # NoState
             /\ ~(disk.state.hash = NoPassword /\ legacy # NoPassword)
    BY <1>1, <1>6, <2>4, Ends DEF Prepare, history
  <2> QED BY <2>1, <2>2, <2>3, <2>4
<1>7. ASSUME Created PROVE IInv'
  BY <1>1, <1>7, Ends, IdleFrames DEF Created, history
<1>8. ASSUME Migrated PROVE IInv'
  <2>1. CASE Saved
    <3>1. ui' = [ui EXCEPT !.pc = "clear"]
      BY <1>8, <2>1 DEF Migrated
    <3> QED BY <1>8, <2>1, <3>1, ClearBegins DEF Migrated, Saved
  <2>2. CASE ~Saved
    BY <1>1, <1>8, <2>2, Ends, IdleFrames DEF Migrated, history
  <2> QED BY <2>1, <2>2
<1> QED BY <1>4, <1>5, <1>6, <1>7, <1>8 DEF Start

\* A guess is checked.
LEMMA VerifyStep ==
  ASSUME IInv, NEW p \in Passwords, NEW new \in Hash, Verify(p, new)
  PROVE  IInv'
<1>1. Types /\ ui \in UiFrame /\ ui.pc = "idle" /\ keys \in 0..MaxKeys
  BY TypesOfTypeOK DEF IInv, Types, Verify
<1>2. disk.state \in State /\ disk.state # NoState
      /\ (legacy # NoPassword => disk.state.hash # NoPassword)
  BY <1>1, StateExists DEF IInv, Inv, Frame, Ready, Running, Types, Places, AnyState
<1>3. p # NoPassword /\ disk.state.until = 0
  BY PasswordAssumption DEF Verify
<1> DEFINE Marked(f) == [f EXCEPT !.new = new, !.right = (p = disk.state.hash)]
<1>4. ASSUME NEW f \in UiFrame
      PROVE  /\ Marked(f) \in UiFrame
             /\ Marked(f).pc = f.pc /\ Marked(f).then = f.then /\ Marked(f).todo = f.todo
             /\ Marked(f).copy = f.copy /\ Marked(f).right = (p = disk.state.hash)
  BY DEF UiFrame
<1>5. UNCHANGED <<disk, legacy, reader, keys, history>>
  BY DEF Verify
<1>6. CASE p = disk.state.hash
  <2> DEFINE copy == Cleared(disk.state)
  <2>1. copy \in State /\ copy.hash = disk.state.hash /\ copy.attempts = 0
    BY <1>2, ClearedType
  <2>2. ui' = Marked(Save(copy, "reset"))
    BY <1>6 DEF Verify
  <2> HIDE DEF copy, Marked
  <2>3. /\ Save(copy, "reset") \in UiFrame
        /\ Save(copy, "reset").pc = "saving" /\ Save(copy, "reset").then = "reset"
        /\ Save(copy, "reset").todo = SaveOrder /\ Save(copy, "reset").copy = copy
    BY <1>1, <2>1, SaveFrame DEF Thens
  <2>4. /\ ui' \in UiFrame
        /\ ui'.pc = "saving" /\ ui'.then = "reset" /\ ui'.todo = SaveOrder /\ ui'.copy = copy
        /\ ui'.right = (p = disk.state.hash)
    BY <1>4, <2>2, <2>3
  <2> QED BY <1>1, <1>2, <1>3, <1>5, <1>6, <2>1, <2>4, Begins
<1>7. CASE p # disk.state.hash
  <2> DEFINE copy == FailedAttempt(disk.state)
  <2>1. disk.state.count < MaxLockouts
    BY <1>7 DEF Verify, MoreLockouts
  <2>2. /\ copy \in State /\ copy.hash = disk.state.hash
        /\ copy.attempts # 0 =>
             copy.attempts = disk.state.attempts + 1 /\ copy.until = disk.state.until
    BY <1>2, <2>1, FailedAttemptType
  <2>3. ui' = Marked(Save(copy, "record"))
    BY <1>7 DEF Verify
  <2> HIDE DEF copy, Marked
  <2>4. /\ Save(copy, "record") \in UiFrame
        /\ Save(copy, "record").pc = "saving" /\ Save(copy, "record").then = "record"
        /\ Save(copy, "record").todo = SaveOrder /\ Save(copy, "record").copy = copy
    BY <1>1, <2>2, SaveFrame DEF Thens
  <2>5. /\ ui' \in UiFrame
        /\ ui'.pc = "saving" /\ ui'.then = "record" /\ ui'.todo = SaveOrder /\ ui'.copy = copy
    BY <1>4, <2>3, <2>4
  <2> QED BY <1>1, <1>2, <1>3, <1>5, <2>2, <2>5, Begins
<1> QED BY <1>6, <1>7

\* What is known whenever the UI thread is in an operation.
LEMMA InOperation ==
  ASSUME IInv, ui.pc \notin {"down", "prepare"}, ui.then \notin {"boot", "create", "migrate"}
  PROVE  /\ Types /\ ui \in UiFrame /\ keys \in 0..MaxKeys /\ shown \in 0..MaxKeys
         /\ wrong \in Nat /\ wrong <= disk.state.attempts
         /\ faulty \in BOOLEAN /\ TRUE \in BOOLEAN
         /\ disk.state \in State /\ disk.state # NoState
         /\ legacy \in Hash
         /\ legacy # NoPassword => disk.state.hash # NoPassword
         /\ Idle.pc = "idle"
BY TypesOfTypeOK, IdleFrames, StateExists
   DEF IInv, Inv, Types, Places, AnyState, Ready, Running, Counted

\* The answer to a wrong guess counts it for the user, who has it counted on disk.
LEMMA AnswerStep ==
  ASSUME IInv, Answer, UNCHANGED <<disk, legacy, reader, keys, shown, last, faulty>>,
         ui.then \in {"record", "recount", "reset"},
         ui.then = "record" => ui.pc # "os_error" \/ disk.state.until > 0,
         ui.then = "recount" => ui.pc # "os_error",
         ui.pc # "saving"
  PROVE  IInv'
<1>1. /\ Types /\ wrong \in Nat /\ wrong <= disk.state.attempts /\ disk.state \in State
      /\ disk.state # NoState /\ (legacy # NoPassword => disk.state.hash # NoPassword)
      /\ Idle.pc = "idle" /\ shown \in 0..MaxKeys /\ faulty \in BOOLEAN
  BY InOperation DEF IInv, Inv, Frame
<1>2. disk.state.attempts \in Nat /\ disk.state.until \in Nat
  BY <1>1, StateFields
<1>3. wrong' \in Nat /\ wrong' <= disk.state.attempts
  <2>1. CASE ui.right
    BY <1>1, <2>1 DEF Answer
  <2>2. CASE ~ui.right /\ ui.then = "reset"
    BY <2>2 DEF IInv, Inv, Frame
  <2>3. CASE ~ui.right /\ ui.then \in {"record", "recount"} /\ ui.copy.attempts = 0
    BY <1>2, <2>3 DEF Answer, LocksOut
  <2>4. CASE ~ui.right /\ ui.then \in {"record", "recount"} /\ ui.copy.attempts # 0
    <3>1. wrong < ui.copy.attempts
      BY <2>4 DEF IInv, Inv, Counted
    <3>2. ui.pc # "os_error"
      BY <1>2, <2>4 DEF IInv, Inv, Counted
    <3>3. disk.state = ui.copy
      BY <2>4, <3>2, Orders DEF IInv, Inv, Copy, Frame
    <3>4. wrong' = wrong + 1
      BY <2>4 DEF Answer, LocksOut
    <3> QED BY <1>1, <1>2, <3>1, <3>3, <3>4
  <2> QED BY <2>1, <2>2, <2>3, <2>4
<1> QED BY <1>1, <1>3, Ends DEF Answer

\* The other steps of the operations.
LEMMA OperationStep == IInv /\ Operations => IInv'
<1> SUFFICES ASSUME IInv, Operations PROVE IInv'
  OBVIOUS
<1> USE DEF Saved, Failed
<1>0. Frame /\ Copy
  BY DEF IInv, Inv
<1>1. ASSUME NEW p \in Passwords, NEW new \in Hash, Verify(p, new) PROVE IInv'
  BY <1>1, VerifyStep
<1>2. ASSUME Accept PROVE IInv'
  <2>1. ui.pc = "saved" /\ ui.then = "reset"
    BY <1>2 DEF Accept
  <2>2. /\ ui \in UiFrame /\ disk.state \in State /\ disk.state # NoState
        /\ keys \in 0..MaxKeys /\ wrong \in Nat /\ wrong <= disk.state.attempts
        /\ shown \in 0..MaxKeys /\ faulty \in BOOLEAN
        /\ legacy # NoPassword => disk.state.hash # NoPassword
    BY <2>1, InOperation
  <2>3. UNCHANGED <<disk, legacy, reader, keys, history>>
    BY <1>2 DEF Accept
  <2>4. CASE ui.new \in Strong
    <3> DEFINE copy == [disk.state EXCEPT !.hash = ui.new, !.attempts = 0, !.until = 0]
    <3>1. ui.new \in Hash /\ ui.new # NoPassword
      BY <2>4, PasswordAssumption DEF Hash
    <3>2. copy \in State /\ copy.hash = ui.new /\ copy.attempts = 0
      BY <2>2, <3>1, NewHashType
    <3>3. ui' = Save(copy, "change")
      BY <1>2, <2>4 DEF Accept
    <3> HIDE DEF copy
    <3>4. /\ ui' \in UiFrame
          /\ ui'.pc = "saving" /\ ui'.then = "change" /\ ui'.todo = SaveOrder /\ ui'.copy = copy
      BY <2>2, <3>2, <3>3, SaveFrame DEF Thens
    <3> QED BY <2>2, <2>3, <3>1, <3>2, <3>4, Begins
  <2>5. CASE ui.new \notin Strong
    BY <1>2, <2>2, <2>3, <2>5, Ends DEF Accept, history
  <2> QED BY <2>4, <2>5
<1>3. ASSUME Reject PROVE IInv'
  BY <1>3, AnswerStep DEF Reject
<1>4. ASSUME Recount PROVE IInv'
  <2>1. ui.pc = "os_error" /\ ui.then \in {"record", "reset"}
    BY <1>4 DEF Recount
  <2>2. CASE disk.state.until > 0
    BY <1>4, <2>1, <2>2, AnswerStep DEF Recount
  <2>3. CASE ~(disk.state.until > 0)
    <3> DEFINE copy == FailedAttempt(disk.state)
    <3>1. /\ ui \in UiFrame /\ disk.state \in State /\ disk.state # NoState
          /\ keys \in 0..MaxKeys
          /\ legacy # NoPassword => disk.state.hash # NoPassword
      BY <2>1, InOperation
    <3>2. disk.state.count < MaxLockouts
      BY <1>4, <2>3 DEF Recount, MoreLockouts
    <3>3. /\ copy \in State /\ copy.hash = disk.state.hash
          /\ copy.attempts # 0 => copy.attempts = disk.state.attempts + 1
      BY <3>1, <3>2, FailedAttemptType
    <3>4. ui' = Save(copy, "recount") /\ UNCHANGED <<disk, legacy, reader, keys, history>>
      BY <1>4, <2>3 DEF Recount, history
    <3> HIDE DEF copy
    <3>5. /\ ui' \in UiFrame
          /\ ui'.pc = "saving" /\ ui'.then = "recount" /\ ui'.todo = SaveOrder /\ ui'.copy = copy
      BY <3>1, <3>3, <3>4, SaveFrame DEF Thens
    <3> QED BY <3>1, <3>3, <3>4, <3>5, Begins
  <2> QED BY <2>2, <2>3
<1>5. ASSUME ui.pc \in {"idle", "saved", "os_error", "state_error", "clear"},
             ui.then \notin {"boot", "create", "migrate"},
             ui' = Idle, UNCHANGED <<disk, reader, keys, wrong, last>>,
             legacy' \in {legacy, NoPassword}, shown' \in 0..MaxKeys, faulty' \in BOOLEAN
      PROVE  IInv'
  <2>1. /\ disk.state # NoState /\ wrong \in Nat /\ wrong <= disk.state.attempts
        /\ legacy # NoPassword => disk.state.hash # NoPassword
        /\ Idle.pc = "idle"
    BY <1>5, InOperation
  <2> QED BY <1>5, <2>1, Ends
<1>6. ASSUME Raise \/ NotSaved PROVE IInv'
  <2>1. ui.pc \in {"os_error", "state_error"} /\ ui.then \in {"recount", "setup", "change", "recover"}
        /\ ui' = Idle /\ UNCHANGED <<disk, legacy, reader, keys, history>>
    BY <1>6 DEF Raise, NotSaved
  <2>2. shown \in 0..MaxKeys /\ faulty \in BOOLEAN
    BY <2>1, InOperation
  <2> QED BY <1>5, <2>1, <2>2 DEF history
<1>7. ASSUME NEW p \in Passwords, Setup(p) \/ Recover(p) PROVE IInv'
  <2>1. ui.pc = "idle" /\ p \in Strong /\ keys < MaxKeys /\ keys' = keys + 1
        /\ UNCHANGED <<disk, legacy, reader, history>>
    BY <1>7 DEF Setup, Recover
  <2>2. /\ ui \in UiFrame /\ disk.state \in State /\ disk.state # NoState
        /\ keys \in 0..MaxKeys
        /\ legacy # NoPassword => disk.state.hash # NoPassword
    BY <1>0, <2>1, InOperation DEF Frame
  <2>3. p \in Hash /\ p # NoPassword /\ keys' \in 0..MaxKeys
    BY <2>1, <2>2, PasswordAssumption, LockoutAssumption DEF Hash
  <2> DEFINE copy == NewKey(disk.state, p)
  <2>4. copy \in State /\ copy.hash = p /\ copy.attempts = 0
    BY <2>1, <2>2, <2>3, NewKeyType
  <2>5. PICK then \in {"setup", "recover"} : ui' = Save(copy, then)
    BY <1>7 DEF Setup, Recover
  <2> HIDE DEF copy
  <2>6. /\ ui' \in UiFrame
        /\ ui'.pc = "saving" /\ ui'.then = then /\ ui'.todo = SaveOrder /\ ui'.copy = copy
    BY <2>2, <2>4, <2>5, SaveFrame DEF Thens
  <2> QED BY <2>1, <2>2, <2>3, <2>4, <2>6, Begins
<1>8. ASSUME Recovered PROVE IInv'
  <2>1. ui.pc = "saved" /\ ui.then = "recover" /\ ui' = Idle /\ shown' = ui.copy.recovery
        /\ UNCHANGED <<disk, legacy, reader, keys, wrong, last, faulty>>
    BY <1>8 DEF Recovered
  <2>2. faulty \in BOOLEAN /\ ui \in UiFrame
    BY <2>1, InOperation
  <2>3. ui.copy \in State
    BY <1>0, <2>1, <2>2 DEF Copy, UiFrame, AnyState
  <2>4. shown' \in 0..MaxKeys
    BY <2>1, <2>3, StateFields
  <2> QED BY <1>5, <2>1, <2>2, <2>4
<1>9. ASSUME SetOrChanged PROVE IInv'
  BY <1>9, ClearBegins DEF SetOrChanged
<1>10. ASSUME ClearLegacy \/ ClearFails PROVE IInv'
  <2>1. /\ ui.pc = "clear" /\ ui.then \in {"migrate", "setup", "change"}
        /\ ui' \in {Idle, Down} /\ UNCHANGED <<disk, reader, keys, wrong, last>>
        /\ legacy' \in {legacy, NoPassword} /\ faulty' \in {faulty, TRUE}
        /\ shown' \in {shown, ui.copy.recovery}
    BY <1>0, <1>10 DEF Frame, ClearLegacy, ClearFails
  <2>2. Types /\ ui \in UiFrame /\ shown \in 0..MaxKeys /\ faulty \in BOOLEAN /\ wrong \in Nat
        /\ wrong <= disk.state.attempts
    BY TypesOfTypeOK DEF IInv, Inv, Types, Counted
  <2>3. ui.todo # SaveOrder
    BY <1>0, <2>1, Orders DEF Frame
  <2>4. disk.state = ui.copy /\ ui.copy # NoState
    BY <1>0, <2>1, <2>3 DEF Copy
  <2>5. ui.copy \in State
    BY <2>2, <2>4 DEF UiFrame, AnyState
  <2>6. disk.state.hash # NoPassword
    BY <1>0, <2>1, <2>4 DEF Copy
  <2>7. shown' \in 0..MaxKeys
    BY <2>1, <2>2, <2>5, StateFields
  <2>8. faulty' \in BOOLEAN
    BY <2>1, <2>2
  <2> QED BY <2>1, <2>2, <2>4, <2>6, <2>7, <2>8, Ends
<1> QED BY <1>1, <1>2, <1>3, <1>4, <1>6, <1>7, <1>8, <1>9, <1>10 DEF Operations

\* One of the three places is written.
LEMMA WriteStep == IInv /\ Write => IInv'
<1> SUFFICES ASSUME IInv, Write PROVE IInv'
  OBVIOUS
<1> DEFINE file == Head(ui.todo)
<1>0. Types /\ AnchorsBehind /\ ReaderBehind /\ Frame /\ Copy /\ Ready /\ Counted
  BY TypesOfTypeOK DEF IInv, Inv
<1>1. /\ ui.pc = "saving" /\ ui.todo # <<>> /\ ui.then # "none"
      /\ UNCHANGED <<legacy, reader, keys, shown, faulty>>
  BY <1>0 DEF Write, Frame
<1>2. disk \in Places /\ ui \in UiFrame /\ ui.copy \in State /\ ui.copy # NoState
  BY <1>0, <1>1 DEF Types, Copy, UiFrame, AnyState
<1>3. /\ ui' \in UiFrame
      /\ ui'.pc = (IF Len(ui.todo) = 1 THEN "saved" ELSE "saving")
      /\ ui'.todo = Tail(ui.todo)
      /\ ui'.then = ui.then /\ ui'.copy = ui.copy /\ ui'.right = ui.right
  <2>1. Tail(ui.todo) \in Order
    BY <1>1, <1>2, Orders DEF UiFrame, Order
  <2>2. ui' = [ui EXCEPT !.todo = Tail(ui.todo), !.pc = IF Len(ui.todo) = 1 THEN "saved" ELSE "saving"]
    BY DEF Write
  <2> QED BY <1>2, <2>1, <2>2 DEF UiFrame, Pcs
<1>4. disk' = [disk EXCEPT ![file] = Content(file)]
  BY DEF Write
<1>5. ui.copy.attempts \in Nat
  BY <1>2, StateFields
<1>6. /\ (Types /\ Counted => TypeOK)'
      /\ Types' /\ AnchorsBehind' /\ ReaderBehind' /\ Frame' /\ Copy' /\ Ready' /\ Counted' => IInv'
  BY TypeOKOfTypes, PTL DEF IInv, Inv
<1>7. CASE ui.todo = SaveOrder
  <2>1. file = "state" /\ Tail(ui.todo) = <<"guard", "registry">> /\ Len(ui.todo) = 3
    BY <1>7, Orders
  <2>2. /\ disk' \in Places
        /\ disk'.state = ui.copy /\ disk'.guard = disk.guard /\ disk'.registry = disk.registry
    BY <1>2, <1>4, <2>1 DEF Content, Places, AnyState
  <2>3. wrong' \in {0, wrong} /\ (Proven \/ LocksOut => wrong' = 0)
    BY <2>1 DEF Write
  <2>4. last' \in 0..MaxLockout
    <3>1. Lockout(ui.copy.count) \in 0..MaxLockout
      BY <1>2, LockoutType, StateFields
    <3>2. last' \in {last, 0, Lockout(ui.copy.count)}
      BY DEF Write
    <3> QED BY <1>0, <3>1, <3>2, Zeros DEF Types
  <2>5. ui'.pc = "saving" /\ ui'.todo # <<>> /\ ui'.todo # SaveOrder
    <3>1. ui'.pc = "saving"
      BY <1>3, <2>1
    <3>2. ui'.todo = <<"guard", "registry">>
      BY <1>3, <2>1, Zenon
    <3> QED BY <3>1, <3>2, Orders, Zenon
  <2>6. Types'
    BY <1>0, <1>1, <1>3, <2>2, <2>3, <2>4 DEF Types
  <2>7. ui.then \in {"boot", "create"} => 
          /\ disk.state = NoState /\ disk.state.hash = NoPassword /\ wrong = 0
    BY <1>0, <1>7 DEF Copy, NoState, Counted, Types
  <2>8. ui.then \in {"boot", "create", "migrate", "reset", "setup", "change", "recover", "record", "recount"}
    BY <1>1, <1>2 DEF UiFrame, Thens
  <2>9. disk.state.hash # NoPassword => ui.copy.hash # NoPassword
    BY <1>0, <2>7, <2>8 DEF Copy
  <2>10. AnchorsBehind' /\ ReaderBehind'
    BY <1>0, <1>1, <1>2, <2>2, <2>9 DEF AnchorsBehind, ReaderBehind
  <2>11. Frame' /\ Copy'
    BY <1>0, <1>1, <1>2, <1>3, <2>2, <2>5 DEF Frame, Copy
  <2>12. Ready'
    BY <1>0, <1>1, <1>2, <1>3, <2>2, <2>5, <2>8, <2>9 DEF Ready, Running
  <2>13. Counted'
    <3>1. (wrong <= disk.state.attempts)'
      BY <1>0, <1>1, <1>5, <2>2, <2>3, <2>7, <2>8 DEF Counted, Types, Proven, LocksOut
    <3>2. (legacy # NoPassword /\ disk.state.hash = NoPassword => wrong = 0)'
      BY <1>0, <1>1, <2>2, <2>3, <2>7, <2>8, <2>9 DEF Counted
    <3> QED BY <1>0, <1>1, <1>3, <1>5, <2>2, <2>3, <3>1, <3>2 DEF Counted, Types
  <2> QED BY <1>6, <2>6, <2>10, <2>11, <2>12, <2>13
<1>8. CASE ui.todo # SaveOrder
  <2>1. /\ file \in {"guard", "registry"} /\ Tail(ui.todo) # SaveOrder
        /\ Tail(ui.todo) = <<>> <=> Len(ui.todo) = 1
    <3>1. ui.todo \in {<<"guard", "registry">>, <<"registry">>}
      <4>1. ui.todo \in Order
        BY <1>2 DEF UiFrame
      <4> QED BY <1>1, <1>8, <4>1, Zenon DEF Order
    <3>2. CASE ui.todo = <<"guard", "registry">>
      BY <3>2, Orders
    <3>3. CASE ui.todo = <<"registry">>
      BY <3>3, Orders, Zenon
    <3> QED BY <3>1, <3>2, <3>3, Zenon
  <2>2. disk.state = ui.copy
    BY <1>0, <1>1, <1>8 DEF Copy
  <2>3. /\ disk' \in Places /\ disk'.state = disk.state
        /\ disk'.guard \in {disk.guard, Anchor(ui.copy)}
        /\ disk'.registry \in {disk.registry, Anchor(ui.copy)}
    BY <1>2, <1>4, <2>1 DEF Content, Places, Anchor, AnchorValue
  <2>4. UNCHANGED <<wrong, last>>
    BY <2>1 DEF Write
  <2>5. Anchor(ui.copy) = "configured" => disk.state.hash # NoPassword
    BY <2>2 DEF Anchor
  <2>6. Types'
    BY <1>0, <1>1, <1>3, <2>3, <2>4 DEF Types
  <2>7. AnchorsBehind' /\ ReaderBehind'
    BY <1>0, <1>1, <1>2, <2>2, <2>3, <2>5 DEF AnchorsBehind, ReaderBehind
  <2>8. Frame' /\ Copy'
    BY <1>0, <1>1, <1>2, <1>3, <2>1, <2>2, <2>3 DEF Frame, Copy
  <2>9. Ready' /\ Counted'
    BY <1>0, <1>1, <1>3, <2>3, <2>4 DEF Ready, Running, Counted
  <2> QED BY <1>6, <2>6, <2>7, <2>8, <2>9
<1> QED BY <1>7, <1>8

\* A write fails.
LEMMA WriteFailsStep == IInv /\ WriteFails => IInv'
<1> SUFFICES ASSUME IInv, WriteFails PROVE IInv'
  OBVIOUS
<1>0. Types /\ AnchorsBehind /\ ReaderBehind /\ Frame /\ Copy /\ Ready /\ Counted
  BY TypesOfTypeOK DEF IInv, Inv
<1>1. /\ ui.pc = "saving" /\ ui.todo # <<>> /\ ui.then # "none"
      /\ UNCHANGED <<disk, legacy, reader, keys, shown, wrong, last>> /\ faulty' = TRUE
  BY <1>0 DEF WriteFails, Frame
<1>2. ui \in UiFrame
  BY <1>0 DEF Types
<1>3. /\ ui' \in UiFrame
      /\ ui'.pc = (IF Head(ui.todo) = "registry" THEN "state_error" ELSE "os_error")
      /\ ui'.todo = <<>>
      /\ ui'.then = ui.then /\ ui'.copy = ui.copy /\ ui'.right = ui.right
  <2>1. ui' = [ui EXCEPT !.todo = <<>>,
                         !.pc = IF Head(ui.todo) = "registry" THEN "state_error" ELSE "os_error"]
    BY DEF WriteFails
  <2>2. <<>> \in Order
    BY DEF Order
  <2> QED BY <1>2, <2>1, <2>2 DEF UiFrame, Pcs
<1>4. ui'.pc = "state_error" => disk.state = ui.copy
  <2>1. ui'.pc = "state_error" => Head(ui.todo) = "registry"
    BY <1>3
  <2>2. Head(ui.todo) = "registry" => ui.todo # SaveOrder
    BY Orders
  <2> QED BY <1>0, <1>1, <2>1, <2>2 DEF Copy
<1>5. ui'.todo # SaveOrder
  BY <1>3, Orders
<1>6. Types'
  BY <1>0, <1>1, <1>3 DEF Types
<1>7. AnchorsBehind' /\ ReaderBehind' /\ Counted'
  BY <1>0, <1>1, <1>3 DEF AnchorsBehind, ReaderBehind, Counted
<1>8. Frame'
  BY <1>0, <1>1, <1>3 DEF Frame
<1>9. Copy'
  BY <1>0, <1>1, <1>3, <1>4, <1>5 DEF Copy
<1>10. Ready'
  BY <1>0, <1>1, <1>3 DEF Ready, Running
<1>11. (Types /\ Counted => TypeOK)'
  BY TypeOKOfTypes, PTL
<1> QED BY <1>6, <1>7, <1>8, <1>9, <1>10, <1>11 DEF IInv, Inv

\* The monitor thread reads one of the three places.
LEMMA ReadingStep == IInv /\ Reading => IInv'
<1> SUFFICES ASSUME IInv, Reading PROVE IInv'
  OBVIOUS
<1>0. Types /\ AnchorsBehind /\ ReaderBehind /\ Frame /\ Copy /\ Ready /\ Counted
  BY TypesOfTypeOK DEF IInv, Inv
<1>1. UNCHANGED <<disk, legacy, ui, keys, history>>
  BY DEF Reading, ReadGuard, ReadRegistry, ReadState
<1>2. disk \in Places /\ reader \in Readings
  BY <1>0 DEF Types
<1>3. /\ reader' \in Readings
      /\ reader'.pc # "idle" => disk.state # NoState
      /\ reader'.guard \in {reader.guard, disk.guard, "absent"}
      /\ reader'.registry \in {reader.registry, disk.registry, "absent"}
  <2>1. CASE ReadGuard
    <3>1. disk.state # NoState
      BY <1>0, <2>1 DEF ReadGuard, Ready, Running
    <3> QED BY <1>2, <2>1, <3>1 DEF ReadGuard, Readings, Places
  <2>2. CASE ReadRegistry
    BY <1>0, <1>2, <2>2 DEF ReadRegistry, ReaderBehind, Readings, Places
  <2>3. CASE ReadState
    BY <2>3 DEF ReadState, NotReading, Readings, AnchorValue
  <2> QED BY <2>1, <2>2, <2>3 DEF Reading
<1>4. Types' /\ AnchorsBehind' /\ Frame' /\ Copy' /\ Ready' /\ Counted'
  BY <1>0, <1>1, <1>3
     DEF Types, AnchorsBehind, Frame, Copy, Ready, Running, Counted, history
<1>5. ReaderBehind'
  BY <1>0, <1>1, <1>3 DEF AnchorsBehind, ReaderBehind
<1>6. (Types /\ Counted => TypeOK)'
  BY TypeOKOfTypes, PTL
<1> QED BY <1>4, <1>5, <1>6 DEF IInv, Inv

\* What a second does to a state.
LEMMA SecondPasses ==
  ASSUME NEW s \in AnyState
  PROVE  LET passed == IF s.until > 0 THEN [s EXCEPT !.until = @ - 1] ELSE s
         IN  /\ passed \in AnyState
             /\ passed = NoState <=> s = NoState
             /\ passed.hash = s.hash /\ passed.attempts = s.attempts
             /\ passed.recovery = s.recovery /\ passed.count = s.count
             /\ s.until = 0 => passed.until = 0
             /\ s.until \in Nat /\ passed.until <= s.until
<1>1. CASE s = NoState
  BY <1>1 DEF NoState, AnyState
<1>2. CASE s \in State /\ s.until > 0
  <2>1. s.until - 1 \in 0..MaxLockout
    BY <1>2, StateFields, LockoutAssumption
  <2>2. [s EXCEPT !.until = s.until - 1] \in State
    BY <1>2, <2>1, Replaced, Zeros, StateFields, Zenon DEF State
  <2>3. [s EXCEPT !.until = s.until - 1].hash = s.hash
        /\ [s EXCEPT !.until = s.until - 1].attempts = s.attempts
        /\ [s EXCEPT !.until = s.until - 1].recovery = s.recovery
        /\ [s EXCEPT !.until = s.until - 1].count = s.count
        /\ [s EXCEPT !.until = s.until - 1].until = s.until - 1
    BY <1>2, StateFields
  <2>4. s.until \in Nat /\ s.until - 1 <= s.until /\ s.until # 0
    BY <1>2, StateFields
  <2> QED BY <1>2, <2>2, <2>3, <2>4, StateExists DEF AnyState
<1>3. CASE s \in State /\ ~(s.until > 0)
  BY <1>3, StateFields DEF AnyState
<1> QED BY <1>1, <1>2, <1>3 DEF AnyState

\* A second passes.
LEMMA TickStep == IInv /\ Tick => IInv'
<1> SUFFICES ASSUME IInv, Tick PROVE IInv'
  OBVIOUS
<1> DEFINE pass(s) == IF s.until > 0 THEN [s EXCEPT !.until = @ - 1] ELSE s
<1>0. Types /\ AnchorsBehind /\ ReaderBehind /\ Frame /\ Copy /\ Ready /\ Counted
  BY TypesOfTypeOK DEF IInv, Inv
<1>1. disk \in Places /\ ui \in UiFrame /\ disk.state \in AnyState /\ ui.copy \in AnyState
  BY <1>0 DEF Types, Places, UiFrame
<1>2. /\ disk' = [disk EXCEPT !.state = pass(disk.state)]
      /\ ui' = [ui EXCEPT !.copy = pass(ui.copy)]
      /\ UNCHANGED <<legacy, reader, keys, history>>
  BY DEF Tick
<1>3. \A s \in AnyState :
        /\ pass(s) \in AnyState
        /\ pass(s) = NoState <=> s = NoState
        /\ pass(s).hash = s.hash /\ pass(s).attempts = s.attempts
        /\ s.until = 0 => pass(s).until = 0
  BY SecondPasses
<1> HIDE DEF pass
<1>4. /\ disk' \in Places /\ disk'.state = pass(disk.state)
      /\ disk'.guard = disk.guard /\ disk'.registry = disk.registry
  BY <1>1, <1>2, <1>3 DEF Places
<1>5. /\ ui' \in UiFrame /\ ui'.copy = pass(ui.copy)
      /\ ui'.pc = ui.pc /\ ui'.then = ui.then /\ ui'.todo = ui.todo /\ ui'.right = ui.right
  BY <1>1, <1>2, <1>3 DEF UiFrame
<1>6. Types'
  BY <1>0, <1>2, <1>4, <1>5 DEF Types, history
<1>7. AnchorsBehind' /\ ReaderBehind'
  BY <1>0, <1>1, <1>2, <1>3, <1>4 DEF AnchorsBehind, ReaderBehind
<1>8. Frame'
  BY <1>0, <1>5 DEF Frame
<1>9. Copy'
  BY <1>0, <1>1, <1>3, <1>4, <1>5 DEF Copy
<1>10. Ready' /\ Counted'
  BY <1>0, <1>1, <1>2, <1>3, <1>4, <1>5 DEF Ready, Running, Counted, history
<1>11. (Types /\ Counted => TypeOK)'
  BY TypeOKOfTypes, PTL
<1> QED BY <1>6, <1>7, <1>8, <1>9, <1>10, <1>11 DEF IInv, Inv

\* The program dies.
LEMMA CrashStep == IInv /\ Crash => IInv'
<1> SUFFICES ASSUME IInv, Crash PROVE IInv'
  OBVIOUS
<1>1. Types /\ wrong <= disk.state.attempts
  BY TypesOfTypeOK DEF IInv, Inv, Counted
<1>2. shown \in 0..MaxKeys /\ wrong \in Nat
  BY <1>1 DEF Types
<1> QED BY <1>1, <1>2, Ends, IdleFrames DEF Crash

\* No step leaves the inductive invariant.
THEOREM Inductive == IInv /\ [Next]_vars => IInv'
<1> SUFFICES ASSUME IInv, [Next]_vars PROVE IInv'
  OBVIOUS
<1>1. CASE UNCHANGED vars
  BY <1>1 DEF vars, history, IInv, Inv, TypeOK, AnchorsBehind, ReaderBehind, Frame, Copy,
              Ready, Running, Counted
<1> QED BY <1>1, StartStep, OperationStep, WriteStep, WriteFailsStep, ReadingStep, TickStep,
           CrashStep DEF Next

-----------------------------------------------------------------------------
(* What follows *)

\* Every variable always has its type: in particular at most MaxFailed - 1 guesses are
\* answered as wrong between two lockouts, whatever fails.
THEOREM AuthTypeCorrect == Spec => []TypeOK
<1>1. IInv => TypeOK
  BY DEF IInv
<1> QED BY <1>1, Initially, Inductive, PTL DEF Spec

\* Whatever write fails and wherever the program dies, load_state accepts what is on disk.
THEOREM AlwaysLoadable == Spec => []Loadable
<1>1. IInv => Loadable
  BY DEF IInv, Inv, AnchorsBehind, Loadable, Loaded, Accepts
<1> QED BY <1>1, Initially, Inductive, PTL DEF Spec

\* load_state on the monitor thread accepts what it reads while the UI thread writes.
THEOREM ReaderNeverRefused == Spec => []ReaderAccepted
<1>1. IInv => ReaderAccepted
  BY DEF IInv, Inv, ReaderBehind, ReaderAccepted, Accepts
<1> QED BY <1>1, Initially, Inductive, PTL DEF Spec

\* Every guess the user was told is wrong is counted on disk.
THEOREM NoGuessForgotten == Spec => []AttemptsCounted
<1>1. IInv => AttemptsCounted
  BY DEF IInv, Inv, Counted, AttemptsCounted
<1> QED BY <1>1, Initially, Inductive, PTL DEF Spec

\* A password in the state file is only ever replaced by another one.
LEMMA HashKept ==
  ASSUME IInv, [Next]_vars, disk.state.hash # NoPassword
  PROVE  disk'.state.hash # NoPassword
<1>0. Types /\ Frame /\ Copy /\ disk \in Places /\ disk.state \in AnyState
  BY TypesOfTypeOK DEF IInv, Inv, Types, Places
<1>1. CASE Write /\ ui.todo = SaveOrder
  <2>1. disk' = [disk EXCEPT !["state"] = ui.copy]
    BY <1>1, Orders DEF Write, Content
  <2>2. ui.then # "none" /\ ui.then \in Thens
    BY <1>0, <1>1 DEF Write, Frame, Types, UiFrame
  <2>3. ui.then \notin {"boot", "create"}
    BY <1>0, <1>1 DEF Copy, NoState
  <2>4. ui.copy.hash # NoPassword
    BY <1>0, <2>2, <2>3 DEF Copy, Thens
  <2> QED BY <1>0, <2>1, <2>4 DEF Places
<1>2. CASE Write /\ ui.todo # SaveOrder
  <2>1. Head(ui.todo) # "state"
    <3>1. ui.todo \in {<<"guard", "registry">>, <<"registry">>}
      <4>1. ui.todo \in Order /\ ui.todo # <<>>
        BY <1>0, <1>2 DEF Types, UiFrame, Write
      <4> QED BY <1>2, <4>1, Zenon DEF Order
    <3> QED BY <3>1, Orders
  <2> QED BY <1>0, <1>2, <2>1 DEF Write, Places
<1>3. CASE Tick
  <2> DEFINE passed == IF disk.state.until > 0
                       THEN [disk.state EXCEPT !.until = @ - 1] ELSE disk.state
  <2>1. disk' = [disk EXCEPT !.state = passed]
    BY <1>3 DEF Tick
  <2>2. passed.hash = disk.state.hash
    BY <1>0, SecondPasses
  <2> HIDE DEF passed
  <2> QED BY <1>0, <2>1, <2>2 DEF Places
<1>4. CASE Start \/ Reading \/ Crash \/ WriteFails \/ UNCHANGED vars
  BY <1>4 DEF Start, Boot, Booted, Prepare, Created, Migrated, Reading, ReadGuard, ReadRegistry,
              ReadState, Crash, WriteFails, vars
<1>5. CASE Operations
  BY <1>5 DEF Operations, Verify, Accept, Reject, Recount, Raise, Setup, Recover, Recovered,
              SetOrChanged, NotSaved, ClearLegacy, ClearFails
<1> QED BY <1>1, <1>2, <1>3, <1>4, <1>5 DEF Next

\* The old password is deleted from the database when there is one in the state file.
LEMMA LegacyCleared ==
  ASSUME IInv, [Next]_vars, legacy' # legacy
  PROVE  disk.state.hash # NoPassword
<1>1. ~(Start \/ Reading \/ Crash \/ Write \/ WriteFails \/ Tick \/ UNCHANGED vars)
  BY DEF Start, Boot, Booted, Prepare, Created, Migrated, Reading, ReadGuard, ReadRegistry,
         ReadState, Crash, Write, WriteFails, Tick, vars
<1>2. Operations
  BY <1>1 DEF Next
<1>3. ClearLegacy
  BY <1>2 DEF Operations, Verify, Accept, Reject, Recount, Raise, Setup, Recover, Recovered,
              SetOrChanged, NotSaved, ClearFails
<1>4. ui.pc = "clear" /\ ui.todo # SaveOrder /\ ui.then \in {"migrate", "setup", "change"}
  BY <1>3, Orders DEF ClearLegacy, IInv, Inv, Frame
<1> QED BY <1>4 DEF IInv, Inv, Copy

\* Once there is a password there is one for ever, where the program looks for it.
THEOREM PasswordForever == Spec => PasswordKept
<1>1. IInv /\ IInv' /\ [Next]_vars =>
        [Configured => Configured' /\ (ui'.pc = "idle" => disk'.state.hash # NoPassword)]_vars
  <2> SUFFICES ASSUME IInv, IInv', [Next]_vars, Configured
               PROVE  Configured' /\ (ui'.pc = "idle" => disk'.state.hash # NoPassword)
    OBVIOUS
  <2>1. CASE disk.state.hash # NoPassword
    BY <2>1, HashKept DEF Configured
  <2>2. CASE disk.state.hash = NoPassword
    <3>1. legacy # NoPassword /\ legacy' = legacy
      BY <2>2, LegacyCleared DEF Configured
    <3>2. ui'.pc = "idle" => disk'.state.hash # NoPassword
      BY <3>1 DEF IInv, Inv, Frame, Ready, Running
    <3> QED BY <3>1, <3>2 DEF Configured
  <2> QED BY <2>1, <2>2
<1> QED BY <1>1, Initially, Inductive, PTL DEF Spec, PasswordKept
-----------------------------------------------------------------------------
(* Lockouts, and what the user has seen *)

\* What is about to be written, before the first write, and what it is made from.
Due ==
  ui.todo = SaveOrder =>
    /\ ui.then \in {"boot", "create"} =>
         ui.copy.until = 0 /\ ui.copy.attempts = 0 /\ ui.copy.recovery = 0
    /\ ui.then = "migrate" =>
         /\ ui.copy.until = 0 /\ ui.copy.attempts = 0
         /\ ui.copy.count = disk.state.count /\ ui.copy.recovery = disk.state.recovery
    /\ ui.then \in {"reset", "change"} =>
         ui.copy.until = 0 /\ ui.copy.recovery = disk.state.recovery
    /\ ui.then \in {"setup", "recover"} => ui.copy.until = 0
    /\ ui.then \in {"record", "recount"} =>
         /\ ui.copy.recovery = disk.state.recovery
         /\ ui.copy.attempts = 0 => ui.copy.count = disk.state.count + 1
         /\ ui.copy.attempts # 0 =>
              /\ ui.copy.until = 0 /\ ui.copy.count = disk.state.count
              /\ ui.copy.attempts = disk.state.attempts + 1

\* The latest lockout since a right guess is the one that the count on disk stands for.
Escalating ==
  /\ disk.state = NoState => last = 0
  /\ last \in {0, Lockout(disk.state.count)}

\* Nothing that the operation saves is on disk yet.
Pending == ui.then = "none" \/ ui.todo = SaveOrder

\* As long as nothing has failed, the user has seen what is on disk; during an operation,
\* what is on disk but for what the operation is about to tell.
Seen ==
  ~faulty =>
    /\ ui.pc \notin {"os_error", "state_error"} /\ ui.then # "recount"
    /\ ui.then = "record" => ~ui.right
    /\ Pending =>
         /\ wrong = disk.state.attempts
         /\ shown = IF disk.state = NoState THEN 0 ELSE disk.state.recovery
    /\ ~Pending =>
         /\ wrong = IF ui.then = "record" /\ ui.copy.attempts # 0 THEN ui.copy.attempts - 1
                    ELSE ui.copy.attempts
         /\ ui.then \notin {"setup", "recover"} => shown = ui.copy.recovery

\* How the states that are saved differ from the one on disk.
LEMMA NewCopies ==
  ASSUME NEW s \in State, NEW p
  PROVE  /\ DefaultState.until = 0 /\ DefaultState.attempts = 0 /\ DefaultState.recovery = 0
         /\ Cleared(s).until = 0 /\ Cleared(s).recovery = s.recovery
         /\ LET new == [s EXCEPT !.hash = p, !.attempts = 0, !.until = 0]
            IN  /\ new.until = 0 /\ new.attempts = 0
                /\ new.count = s.count /\ new.recovery = s.recovery
         /\ NewKey(s, p).until = 0
         /\ FailedAttempt(s).recovery = s.recovery
         /\ FailedAttempt(s).attempts = 0 => FailedAttempt(s).count = s.count + 1
         /\ FailedAttempt(s).attempts # 0 =>
              /\ FailedAttempt(s).until = s.until /\ FailedAttempt(s).count = s.count
              /\ FailedAttempt(s).attempts = s.attempts + 1
<1>1. DefaultState.until = 0 /\ DefaultState.attempts = 0 /\ DefaultState.recovery = 0
  BY DEF DefaultState
<1>2. Cleared(s).until = 0 /\ Cleared(s).recovery = s.recovery
  BY StateFields DEF Cleared
<1>3. LET new == [s EXCEPT !.hash = p, !.attempts = 0, !.until = 0]
      IN  /\ new.until = 0 /\ new.attempts = 0
          /\ new.count = s.count /\ new.recovery = s.recovery
  BY StateFields
<1>4. NewKey(s, p).until = 0
  BY StateFields DEF NewKey, Cleared
<1>5. CASE s.attempts + 1 < MaxFailed
  <2>1. FailedAttempt(s) = [s EXCEPT !.attempts = s.attempts + 1]
    BY <1>5 DEF FailedAttempt
  <2>2. s.attempts + 1 # 0
    BY StateFields
  <2> QED BY <1>1, <1>2, <1>3, <1>4, <2>1, <2>2, StateFields
<1>6. CASE ~(s.attempts + 1 < MaxFailed)
  <2>1. FailedAttempt(s)
          = [s EXCEPT !.attempts = 0, !.count = s.count + 1, !.until = Lockout(s.count + 1)]
    BY <1>6 DEF FailedAttempt
  <2> QED BY <1>1, <1>2, <1>3, <1>4, <2>1, StateFields
<1> QED BY <1>5, <1>6

\* What a check of a guess is about to save.
LEMMA VerifySaves ==
  ASSUME IInv, NEW p \in Passwords, NEW new \in Hash, Verify(p, new)
  PROVE  /\ disk.state \in State /\ disk.state.until = 0
         /\ ui.then = "none" /\ ui'.todo = SaveOrder /\ ui'.pc = "saving"
         /\ ui'.right = (p = disk.state.hash)
         /\ p = disk.state.hash => ui'.then = "reset" /\ ui'.copy = Cleared(disk.state)
         /\ p # disk.state.hash => ui'.then = "record" /\ ui'.copy = FailedAttempt(disk.state)
<1> DEFINE copy == IF p = disk.state.hash THEN Cleared(disk.state) ELSE FailedAttempt(disk.state)
           then == IF p = disk.state.hash THEN "reset" ELSE "record"
<1>1. ui \in UiFrame /\ ui.pc = "idle" /\ ui.then = "none"
  BY TypesOfTypeOK DEF IInv, Inv, Frame, Types, Verify
<1>2. disk.state \in State /\ disk.state.until = 0
  BY <1>1, InOperation DEF Verify
<1>3. copy \in State /\ then \in Thens
  BY <1>2, ClearedType, FailedAttemptType DEF Verify, MoreLockouts, Thens
<1>4. ui' = [Save(copy, then) EXCEPT !.new = new, !.right = (p = disk.state.hash)]
  BY DEF Verify
<1>5. /\ Save(copy, then) \in UiFrame
      /\ Save(copy, then).pc = "saving" /\ Save(copy, then).then = then
      /\ Save(copy, then).todo = SaveOrder /\ Save(copy, then).copy = copy
  BY <1>1, <1>3, SaveFrame
<1>6. /\ ui'.todo = SaveOrder /\ ui'.pc = "saving" /\ ui'.then = then /\ ui'.copy = copy
      /\ ui'.right = (p = disk.state.hash)
  <2> HIDE DEF copy, then
  <2> QED BY <1>4, <1>5 DEF UiFrame
<1> QED BY <1>1, <1>2, <1>6

\* The saves that a step may begin.
SaveBegins ==
  \/ /\ ui'.then \in {"boot", "create"} /\ ui'.copy = DefaultState
     /\ disk.state = NoState /\ ui.then = "none"
  \/ /\ ui'.then = "migrate" /\ disk.state \in State /\ ui.then = "none"
     /\ ui'.copy = [disk.state EXCEPT !.hash = legacy, !.attempts = 0, !.until = 0]
  \/ /\ ui'.then = "reset" /\ ui.then = "none"
     /\ disk.state \in State /\ ui'.copy = Cleared(disk.state)
  \/ /\ ui'.then = "change" /\ ui.then = "reset" /\ ui.pc = "saved" /\ disk.state \in State
     /\ ui'.copy = [disk.state EXCEPT !.hash = ui.new, !.attempts = 0, !.until = 0]
  \/ /\ ui'.then \in {"setup", "recover"} /\ ui.then = "none" /\ disk.state \in State
     /\ \E p : ui'.copy = NewKey(disk.state, p)
  \/ /\ \/ ui'.then = "record" /\ ui.then = "none" /\ ~ui'.right
        \/ ui'.then = "recount" /\ ui.pc = "os_error"
     /\ disk.state \in State /\ disk.state.until = 0
     /\ ui'.copy = FailedAttempt(disk.state)

\* Whenever a save is due, it begins, or waits while a second passes or nothing happens.
LEMMA ToSave ==
  ASSUME IInv, [Next]_vars, ui'.todo = SaveOrder
  PROVE  /\ UNCHANGED history
         /\ \/ Tick
            \/ UNCHANGED <<disk, ui>>
            \/ disk' = disk /\ ui'.pc = "saving" /\ SaveBegins
<1>1. /\ Frame /\ ui \in UiFrame /\ disk.state \in AnyState /\ legacy \in Hash
      /\ keys \in 0..MaxKeys
  BY TypesOfTypeOK DEF IInv, Inv, Types, Places
<1>2. ui' \notin {Idle, Down, [Down EXCEPT !.pc = "prepare"]}
  BY IdleFrames, Orders
<1>3. ui.pc # "saving" => ui.todo # SaveOrder
  BY <1>1, Orders DEF Frame
<1>4. \A pc \in Pcs : ui.pc # "saving" => ui' # [ui EXCEPT !.pc = pc]
  BY <1>1, <1>3 DEF UiFrame
<1>5. ASSUME NEW copy \in State, NEW then \in Thens, ui' = Save(copy, then)
      PROVE  ui'.then = then /\ ui'.copy = copy /\ ui'.pc = "saving"
  BY <1>1, <1>5, SaveFrame
<1>6. ASSUME Start PROVE UNCHANGED <<disk, history>> /\ ui'.pc = "saving" /\ SaveBegins
  <2>1. Boot \/ Prepare
    BY <1>2, <1>4, <1>6 DEF Start, Booted, Created, Migrated, Saved, Failed, Pcs
  <2>2. ui.then = "none" /\ UNCHANGED <<disk, history>>
    BY <1>1, <2>1 DEF Boot, Prepare, Frame
  <2>3. CASE disk.state = NoState
    <3>1. PICK then \in {"boot", "create"} : ui' = Save(DefaultState, then)
      BY <1>2, <2>1, <2>3 DEF Boot, Prepare
    <3> QED BY <1>5, <2>2, <2>3, <3>1, DefaultStateType DEF SaveBegins, Thens
  <2>4. CASE disk.state # NoState
    <3> DEFINE copy == [disk.state EXCEPT !.hash = legacy, !.attempts = 0, !.until = 0]
    <3>1. disk.state \in State
      BY <1>1, <2>4 DEF AnyState
    <3>2. ui' = Save(copy, "migrate")
      BY <1>2, <2>1, <2>4 DEF Boot, Prepare
    <3>3. copy \in State
      BY <1>1, <3>1, NewHashType
    <3>4. ui'.then = "migrate" /\ ui'.copy = copy /\ ui'.pc = "saving"
      BY <1>5, <3>2, <3>3 DEF Thens
    <3> QED BY <2>2, <3>1, <3>4 DEF SaveBegins
  <2> QED BY <2>3, <2>4
<1>7. ASSUME Operations PROVE UNCHANGED <<disk, history>> /\ ui'.pc = "saving" /\ SaveBegins
  <2>1. CASE \E p \in Passwords, new \in Hash : Verify(p, new)
    <3> PICK p \in Passwords, new \in Hash : Verify(p, new)
      BY <2>1
    <3>1. UNCHANGED <<disk, history>>
      BY DEF Verify
    <3>2. ui'.pc = "saving" /\ SaveBegins
      BY VerifySaves DEF SaveBegins
    <3> QED BY <3>1, <3>2
  <2>2. CASE Accept
    <3> DEFINE copy == [disk.state EXCEPT !.hash = ui.new, !.attempts = 0, !.until = 0]
    <3>1. ui.then = "reset" /\ ui.pc = "saved" /\ ui.new \in Hash /\ disk.state \in State
      BY <1>1, <2>2, InOperation DEF Accept, Saved, UiFrame
    <3>2. ui' = Save(copy, "change") /\ UNCHANGED <<disk, history>>
      BY <1>2, <2>2 DEF Accept
    <3>3. copy \in State
      BY <3>1, NewHashType
    <3>4. ui'.then = "change" /\ ui'.copy = copy /\ ui'.pc = "saving"
      BY <1>5, <3>2, <3>3 DEF Thens
    <3> QED BY <3>1, <3>2, <3>4 DEF SaveBegins
  <2>3. CASE Recount
    <3>1. /\ ui.then \in {"record", "reset"} /\ ui.pc = "os_error"
          /\ disk.state \in State /\ disk.state.until \in Nat
      BY <2>3, InOperation, StateFields DEF Recount
    <3>2. /\ disk.state.until = 0 /\ MoreLockouts
          /\ ui' = Save(FailedAttempt(disk.state), "recount") /\ UNCHANGED <<disk, history>>
      BY <1>2, <2>3, <3>1 DEF Recount, Answer, history
    <3>3. FailedAttempt(disk.state) \in State
      BY <3>1, <3>2, FailedAttemptType DEF MoreLockouts
    <3>4. ui'.then = "recount" /\ ui'.copy = FailedAttempt(disk.state) /\ ui'.pc = "saving"
      BY <1>5, <3>2, <3>3 DEF Thens
    <3> QED BY <3>1, <3>2, <3>4 DEF SaveBegins
  <2>4. CASE \E p \in Passwords : Setup(p) \/ Recover(p)
    <3>1. PICK p \in Passwords : Setup(p) \/ Recover(p)
      BY <2>4
    <3>2. /\ ui.pc = "idle" /\ ui.then = "none" /\ disk.state \in State /\ p \in Hash
          /\ keys < MaxKeys /\ UNCHANGED <<disk, history>>
      BY <1>1, <3>1, InOperation DEF Setup, Recover, Frame, Hash
    <3>3. PICK then \in {"setup", "recover"} : ui' = Save(NewKey(disk.state, p), then)
      BY <3>1 DEF Setup, Recover
    <3>4. NewKey(disk.state, p) \in State
      BY <1>1, <3>2, NewKeyType
    <3>5. ui'.then = then /\ ui'.copy = NewKey(disk.state, p) /\ ui'.pc = "saving"
      BY <1>5, <3>3, <3>4 DEF Thens
    <3> QED BY <3>2, <3>5 DEF SaveBegins
  <2>5. ~(Reject \/ Raise \/ Recovered \/ SetOrChanged \/ NotSaved \/ ClearLegacy \/ ClearFails)
    BY <1>2, <1>4 DEF Reject, Answer, Raise, Recovered, SetOrChanged, NotSaved, ClearLegacy,
                      ClearFails, Saved, Failed, Pcs
  <2> QED BY <1>7, <2>1, <2>2, <2>3, <2>4, <2>5 DEF Operations
<1>8. ~Write /\ ~WriteFails
  <2>1. ASSUME Write PROVE FALSE
    <3>1. ui.todo \in Order \ {<<>>} /\ ui'.todo = Tail(ui.todo)
      BY <1>1, <2>1 DEF UiFrame, Write
    <3> QED BY <3>1, Orders DEF Order
  <2>2. ASSUME WriteFails PROVE FALSE
    <3>1. ui'.todo = <<>>
      BY <1>1, <2>2 DEF UiFrame, WriteFails
    <3> QED BY <3>1, Orders
  <2> QED BY <2>1, <2>2
<1>9. CASE Reading \/ UNCHANGED vars
  BY <1>9 DEF Reading, ReadGuard, ReadRegistry, ReadState, vars, history
<1>10. CASE Tick
  BY <1>10 DEF Tick, history
<1> QED BY <1>2, <1>6, <1>7, <1>8, <1>9, <1>10 DEF Next, Crash

\* The frame after the first write: the state is on disk.
LEMMA WroteState ==
  ASSUME IInv, Write, ui.todo = SaveOrder
  PROVE  /\ disk'.state = ui.copy /\ ui.copy \in State /\ ui.copy # NoState
         /\ ui.then \in Thens \ {"none"}
         /\ ui'.pc = "saving" /\ ui'.todo # SaveOrder
         /\ ui'.then = ui.then /\ ui'.copy = ui.copy /\ ui'.right = ui.right
         /\ wrong' = IF Proven \/ LocksOut THEN 0 ELSE wrong
         /\ last' = IF Proven THEN 0 ELSE IF LocksOut THEN Lockout(ui.copy.count) ELSE last
         /\ shown' = shown /\ faulty' = faulty
<1>1. Types /\ Frame /\ Copy
  BY TypesOfTypeOK DEF IInv, Inv
<1>2. /\ ui \in UiFrame /\ disk \in Places /\ ui.pc = "saving" /\ ui.then \in Thens \ {"none"}
      /\ ui.copy \in State /\ ui.copy # NoState
  BY <1>1 DEF Types, Frame, Copy, Write, UiFrame, AnyState
<1>3. Head(ui.todo) = "state" /\ Tail(ui.todo) = <<"guard", "registry">> /\ Len(ui.todo) = 3
  BY Orders
<1>4. disk' = [disk EXCEPT !["state"] = ui.copy]
  BY <1>3 DEF Write, Content
<1>5. ui' = [ui EXCEPT !.todo = Tail(ui.todo), !.pc = "saving"]
  BY <1>3 DEF Write
<1>6. ui'.todo = <<"guard", "registry">>
  BY <1>2, <1>3, <1>5 DEF UiFrame
<1>7. ui'.pc = "saving" /\ ui'.then = ui.then /\ ui'.copy = ui.copy /\ ui'.right = ui.right
  BY <1>2, <1>5 DEF UiFrame
<1>8. disk'.state = ui.copy
  BY <1>2, <1>4 DEF Places
<1>9. /\ wrong' = IF Proven \/ LocksOut THEN 0 ELSE wrong
      /\ last' = IF Proven THEN 0 ELSE IF LocksOut THEN Lockout(ui.copy.count) ELSE last
      /\ shown' = shown /\ faulty' = faulty
  BY <1>3 DEF Write
<1> QED BY <1>2, <1>6, <1>7, <1>8, <1>9, Orders

\* The later writes leave the state alone.
LEMMA WroteAnchor ==
  ASSUME IInv, Write, ui.todo # SaveOrder
  PROVE  /\ disk'.state = disk.state
         /\ ui.then # "none" /\ ui'.pc \in {"saving", "saved"} /\ ui'.todo # SaveOrder
         /\ ui'.then = ui.then /\ ui'.copy = ui.copy /\ ui'.right = ui.right
         /\ UNCHANGED <<shown, wrong, last, faulty>>
<1>1. ui \in UiFrame /\ disk \in Places /\ ui.pc = "saving" /\ ui.then # "none" /\ ui.todo # <<>>
  BY TypesOfTypeOK DEF IInv, Inv, Types, Frame, Write
<1>2. ui.todo \in {<<"guard", "registry">>, <<"registry">>}
  <2>1. ui.todo \in Order
    BY <1>1 DEF UiFrame
  <2> QED BY <1>1, <2>1, Zenon DEF Order
<1>3. Head(ui.todo) # "state"
  BY <1>2, Orders
<1>4. disk'.state = disk.state /\ UNCHANGED <<shown, wrong, last, faulty>>
  BY <1>1, <1>3 DEF Write, Places
<1>5. ui' = [ui EXCEPT !.todo = Tail(ui.todo), !.pc = IF Len(ui.todo) = 1 THEN "saved" ELSE "saving"]
  BY DEF Write
<1>6. /\ ui'.pc \in {"saving", "saved"} /\ ui'.todo = Tail(ui.todo)
      /\ ui'.then = ui.then /\ ui'.copy = ui.copy /\ ui'.right = ui.right
  BY <1>1, <1>5 DEF UiFrame
<1>7. Tail(ui.todo) # SaveOrder
  BY <1>2, Orders
<1> QED BY <1>1, <1>4, <1>6, <1>7

\* A second takes nothing but time from a state.
LEMMA Ticked ==
  ASSUME IInv, Tick
  PROVE  /\ ui'.pc = ui.pc /\ ui'.then = ui.then /\ ui'.todo = ui.todo /\ ui'.right = ui.right
         /\ disk'.state = NoState <=> disk.state = NoState
         /\ disk'.state.attempts = disk.state.attempts /\ disk'.state.count = disk.state.count
         /\ disk'.state.recovery = disk.state.recovery /\ disk'.state.until <= disk.state.until
         /\ disk.state.until \in Nat /\ disk'.state.until \in Nat
         /\ ui'.copy.attempts = ui.copy.attempts /\ ui'.copy.count = ui.copy.count
         /\ ui'.copy.recovery = ui.copy.recovery
         /\ ui.copy.until = 0 => ui'.copy.until = 0
         /\ UNCHANGED history
<1> DEFINE pass(s) == IF s.until > 0 THEN [s EXCEPT !.until = @ - 1] ELSE s
<1>1. disk \in Places /\ ui \in UiFrame /\ disk.state \in AnyState /\ ui.copy \in AnyState
  BY TypesOfTypeOK DEF IInv, Types, Places, UiFrame
<1>2. /\ disk' = [disk EXCEPT !.state = pass(disk.state)]
      /\ ui' = [ui EXCEPT !.copy = pass(ui.copy)]
      /\ UNCHANGED history
  BY DEF Tick
<1>3. \A s \in AnyState :
        /\ pass(s) \in AnyState
        /\ pass(s) = NoState <=> s = NoState
        /\ pass(s).attempts = s.attempts /\ pass(s).recovery = s.recovery
        /\ pass(s).count = s.count
        /\ s.until = 0 => pass(s).until = 0
        /\ s.until \in Nat /\ pass(s).until <= s.until
  BY SecondPasses
<1> HIDE DEF pass
<1>4. disk'.state = pass(disk.state)
  BY <1>1, <1>2 DEF Places
<1>5. /\ ui'.pc = ui.pc /\ ui'.then = ui.then /\ ui'.todo = ui.todo /\ ui'.right = ui.right
      /\ ui'.copy = pass(ui.copy)
  BY <1>1, <1>2 DEF UiFrame
<1> QED BY <1>1, <1>2, <1>3, <1>4, <1>5

LEMMA DueKept == IInv /\ Due /\ [Next]_vars => Due'
<1> SUFFICES ASSUME IInv, Due, [Next]_vars, ui'.todo = SaveOrder PROVE Due'
  BY DEF Due
<1>1. CASE Tick
  BY <1>1, Ticked DEF Due
<1>2. CASE UNCHANGED <<disk, ui>>
  BY <1>2 DEF Due
<1>3. CASE disk' = disk /\ SaveBegins
  <2>1. CASE disk.state = NoState /\ ui'.then \in {"boot", "create"} /\ ui'.copy = DefaultState
    BY <2>1 DEF Due, DefaultState
  <2>2. CASE /\ disk.state \in State /\ ui'.then \in {"migrate", "change"}
             /\ \E p : ui'.copy = [disk.state EXCEPT !.hash = p, !.attempts = 0, !.until = 0]
    <3>1. /\ ui'.copy.until = 0 /\ ui'.copy.attempts = 0
          /\ ui'.copy.count = disk.state.count /\ ui'.copy.recovery = disk.state.recovery
      BY <2>2, NewCopies
    <3> QED BY <1>3, <2>2, <3>1 DEF Due
  <2>3. CASE disk.state \in State /\ ui'.then = "reset" /\ ui'.copy = Cleared(disk.state)
    <3>1. ui'.copy.until = 0 /\ ui'.copy.recovery = disk.state.recovery
      BY <2>3, NewCopies
    <3> QED BY <1>3, <2>3, <3>1 DEF Due
  <2>4. CASE /\ disk.state \in State /\ ui'.then \in {"setup", "recover"}
             /\ \E p : ui'.copy = NewKey(disk.state, p)
    <3>1. ui'.copy.until = 0
      BY <2>4, NewCopies
    <3> QED BY <1>3, <2>4, <3>1 DEF Due
  <2>5. CASE /\ disk.state \in State /\ disk.state.until = 0
             /\ ui'.then \in {"record", "recount"} /\ ui'.copy = FailedAttempt(disk.state)
    <3>1. /\ ui'.copy.recovery = disk.state.recovery
          /\ ui'.copy.attempts = 0 => ui'.copy.count = disk.state.count + 1
          /\ ui'.copy.attempts # 0 =>
               /\ ui'.copy.until = 0 /\ ui'.copy.count = disk.state.count
               /\ ui'.copy.attempts = disk.state.attempts + 1
      BY <2>5, NewCopies
    <3> QED BY <1>3, <2>5, <3>1 DEF Due
  <2> QED BY <1>3, <2>1, <2>2, <2>3, <2>4, <2>5, Zenon DEF SaveBegins
<1> QED BY <1>1, <1>2, <1>3, ToSave

\* The steps that change the state on disk, or the lockout that was the latest.
LEMMA StateWritten ==
  ASSUME [Next]_vars, ~Write, ~Tick
  PROVE  UNCHANGED <<disk, last>>
BY DEF Next, Start, Boot, Booted, Prepare, Created, Migrated, WriteFails, Operations, Verify, Accept,
       Reject, Recount, Answer, Raise, Setup, Recover, Recovered, SetOrChanged, NotSaved,
       ClearLegacy, ClearFails, Reading, ReadGuard, ReadRegistry, ReadState, Crash, history, vars

LEMMA EscalatingKept == IInv /\ Due /\ Escalating /\ [Next]_vars => Escalating'
<1> SUFFICES ASSUME IInv, Due, Escalating, [Next]_vars PROVE Escalating'
  OBVIOUS
<1>1. CASE Write /\ ui.todo = SaveOrder
  <2>1. /\ disk'.state = ui.copy /\ ui.copy # NoState /\ ui.then \in Thens \ {"none"}
        /\ last' = IF Proven THEN 0 ELSE IF LocksOut THEN Lockout(ui.copy.count) ELSE last
    BY <1>1, WroteState
  <2>2. ~Proven /\ ~LocksOut => last = 0 \/ ui.copy.count = disk.state.count
    <3>1. ui.then \in {"boot", "create"} => disk.state = NoState
      BY <1>1 DEF IInv, Inv, Copy
    <3> QED BY <1>1, <2>1, <3>1 DEF Due, Escalating, Proven, LocksOut, Thens
  <2>3. last' \in {0, Lockout(ui.copy.count)}
    BY <2>1, <2>2 DEF Escalating
  <2> QED BY <2>1, <2>3 DEF Escalating
<1>2. CASE Write /\ ui.todo # SaveOrder
  BY <1>2, WroteAnchor DEF Escalating
<1>3. CASE Tick
  BY <1>3, Ticked DEF Escalating, history
<1>4. CASE ~Write /\ ~Tick
  BY <1>4, StateWritten DEF Escalating
<1> QED BY <1>1, <1>2, <1>3, <1>4

\* Between operations, and once a save is done, the user has seen what is on disk.
OnDisk ==
  /\ wrong = disk.state.attempts
  /\ shown = IF disk.state = NoState THEN 0 ELSE disk.state.recovery

LEMMA SeenOnDisk ==
  ASSUME IInv, Seen, ~faulty,
         \/ Pending
         \/ ui.pc \in {"saved", "clear"} /\ ui.then \notin {"record", "setup", "recover"}
  PROVE  OnDisk
<1>1. CASE Pending
  BY <1>1 DEF Seen, OnDisk
<1>2. CASE ~Pending
  <2>1. disk.state = ui.copy /\ ui.copy # NoState
    BY <1>2 DEF Pending, IInv, Inv, Frame, Copy
  <2> QED BY <1>2, <2>1 DEF Seen, OnDisk
<1> QED BY <1>1, <1>2

\* An operation ends with the user knowing what is on disk.
LEMMA SeenAtEnd ==
  ASSUME ui' \in {Idle, Down, [Down EXCEPT !.pc = "prepare"]}, OnDisk'
  PROVE  Seen'
<1>1. ui'.then = "none" /\ ui'.pc \in {"idle", "down", "prepare"}
  BY IdleFrames
<1> QED BY <1>1 DEF Seen, Pending, OnDisk

\* A save begins from what the user has seen.
LEMMA SeenSaveBegins ==
  ASSUME IInv, Seen, ~faulty, SaveBegins, ui'.todo = SaveOrder, ui'.pc = "saving",
         disk' = disk, UNCHANGED history
  PROVE  Seen'
<1>1. ui.pc # "os_error"
  BY DEF Seen
<1>2. /\ ui'.then # "recount" /\ (ui'.then = "record" => ~ui'.right)
      /\ ui.then = "none" \/ (ui.then = "reset" /\ ui.pc = "saved")
  BY <1>1, Zenon DEF SaveBegins
<1>3. OnDisk
  BY <1>2, SeenOnDisk DEF Pending
<1> QED BY <1>2, <1>3 DEF Seen, Pending, OnDisk, history

\* The state is written, and the history says what the user is about to be told.
LEMMA SeenWrite ==
  ASSUME IInv, Due, Seen, ~faulty, Write
  PROVE  Seen'
<1>1. CASE ui.todo = SaveOrder
  <2>1. /\ disk'.state = ui.copy /\ ui.then \in Thens \ {"none"}
        /\ ui'.pc = "saving" /\ ui'.todo # SaveOrder
        /\ ui'.then = ui.then /\ ui'.copy = ui.copy /\ ui'.right = ui.right
        /\ wrong' = IF Proven \/ LocksOut THEN 0 ELSE wrong
        /\ shown' = shown /\ faulty' = faulty
    BY <1>1, WroteState
  <2>2. OnDisk /\ ui.then # "recount" /\ (ui.then = "record" => ~ui.right)
    BY <1>1, SeenOnDisk DEF Pending, Seen
  <2>3. disk.state.attempts \in Nat /\ wrong \in Nat
    BY TypesOfTypeOK, StateFields DEF IInv, Types, Places, AnyState, NoState
  <2>4. wrong' = IF ui'.then = "record" /\ ui'.copy.attempts # 0 THEN ui'.copy.attempts - 1
                 ELSE ui'.copy.attempts
    <3>1. CASE ui.then \in {"reset", "setup", "change", "recover"}
      <4>1. ui.copy.attempts = 0
        BY <3>1 DEF IInv, Inv, Counted
      <4> QED BY <2>1, <3>1, <4>1 DEF Proven
    <3>2. CASE ui.then = "record" /\ ui.copy.attempts = 0
      BY <2>1, <3>2 DEF LocksOut
    <3>3. CASE ui.then = "record" /\ ui.copy.attempts # 0
      <4>1. ui.copy.attempts = disk.state.attempts + 1
        BY <1>1, <3>3 DEF Due
      <4> QED BY <2>1, <2>2, <2>3, <3>3, <4>1 DEF LocksOut, Proven, OnDisk
    <3>4. CASE ui.then \in {"boot", "create", "migrate"}
      <4>1. ui.copy.attempts = 0
        BY <1>1, <3>4 DEF Due
      <4>2. wrong = 0
        <5>1. CASE ui.then = "migrate"
          BY <5>1 DEF IInv, Inv, Counted
        <5>2. CASE ui.then # "migrate"
          <6>1. disk.state = NoState
            BY <1>1, <3>4, <5>2 DEF IInv, Inv, Copy
          <6> QED BY <2>2, <6>1 DEF OnDisk, NoState
        <5> QED BY <5>1, <5>2
      <4> QED BY <2>1, <3>4, <4>1, <4>2 DEF LocksOut, Proven
    <3> QED BY <2>1, <2>2, <3>1, <3>2, <3>3, <3>4 DEF Thens
  <2>5. ui'.then \notin {"setup", "recover"} => shown' = ui'.copy.recovery
    <3>1. CASE ui.then \in {"boot", "create"}
      <4>1. ui.copy.recovery = 0 /\ disk.state = NoState
        BY <1>1, <3>1 DEF Due, IInv, Inv, Copy
      <4> QED BY <2>1, <2>2, <4>1 DEF OnDisk
    <3>2. CASE ui.then \in {"migrate", "reset", "change", "record"}
      <4>1. ui.copy.recovery = disk.state.recovery
        BY <1>1, <3>2 DEF Due
      <4>2. disk.state # NoState
        <5>1. ui.pc = "saving"
          BY DEF Write
        <5> QED BY <3>2, <5>1 DEF IInv, Inv, Ready
      <4> QED BY <2>1, <2>2, <4>1, <4>2 DEF OnDisk
    <3> QED BY <2>1, <2>2, <3>1, <3>2 DEF Thens
  <2>6. ~Pending'
    BY <2>1 DEF Pending
  <2> QED BY <2>1, <2>2, <2>4, <2>5, <2>6 DEF Seen
<1>2. CASE ui.todo # SaveOrder
  BY <1>2, WroteAnchor DEF Seen, Pending
<1> QED BY <1>1, <1>2

\* The steps that end an operation, or go on to the rows of the old database.
LEMMA SeenEnds ==
  ASSUME IInv, Seen, ~faulty, ~faulty', Start \/ Operations, ui'.todo # SaveOrder
  PROVE  Seen'
<1> USE DEF Saved, Failed
<1>1. /\ ui \in UiFrame /\ disk.state \in AnyState /\ ui.pc \notin {"os_error", "state_error"}
      /\ ui.then = "none" <=> ui.pc \in {"down", "prepare", "idle"}
      /\ ui.then # "recount" /\ (ui.then = "record" => ~ui.right)
  BY TypesOfTypeOK DEF IInv, Inv, Types, Places, Frame, Seen
<1>2. \A copy, then : Save(copy, then).todo = SaveOrder
  BY <1>1 DEF Save, UiFrame
<1>3. ASSUME ui.pc = "saved", ui.then \in {"migrate", "setup", "change"},
             ui' = [ui EXCEPT !.pc = "clear"], UNCHANGED <<disk, history>>
      PROVE  Seen'
  <2>1. /\ ui'.pc = "clear" /\ ui'.then = ui.then /\ ui'.todo = ui.todo
        /\ ui'.copy = ui.copy /\ ui'.right = ui.right
    BY <1>1, <1>3 DEF UiFrame
  <2> QED BY <1>3, <2>1 DEF Seen, Pending, history
<1>4. ASSUME ui' \in {Idle, Down, [Down EXCEPT !.pc = "prepare"]}, UNCHANGED <<disk, history>>,
             \/ ui.then = "none"
             \/ ui.pc = "saved" /\ ui.then \notin {"record", "setup", "recover"}
      PROVE  Seen'
  <2>1. OnDisk
    BY <1>4, SeenOnDisk DEF Pending
  <2> QED BY <1>4, <2>1, SeenAtEnd DEF OnDisk, history
<1>5. CASE Start
  <2>1. CASE Boot
    BY <1>1, <1>2, <1>4, <2>1 DEF Boot
  <2>2. CASE Booted
    BY <1>1, <1>4, <2>2 DEF Booted
  <2>3. CASE Prepare
    BY <1>1, <1>2, <1>4, <2>3 DEF Prepare
  <2>4. CASE Created
    BY <1>1, <1>4, <2>4 DEF Created
  <2>5. CASE Migrated
    BY <1>1, <1>3, <2>5 DEF Migrated
  <2> QED BY <1>5, <2>1, <2>2, <2>3, <2>4, <2>5 DEF Start
<1>6. CASE Accept
  BY <1>2, <1>4, <1>6 DEF Accept
<1>7. CASE Reject
  <2>1. /\ ui.then = "record" /\ ui.pc = "saved" /\ ~ui.right /\ ui' = Idle
        /\ wrong' = IF LocksOut THEN 0 ELSE wrong + 1
        /\ UNCHANGED <<disk, shown>>
    BY <1>1, <1>7 DEF Reject, Answer
  <2>2. ui.todo # SaveOrder
    BY <2>1, Orders DEF IInv, Inv, Frame
  <2>3. disk.state = ui.copy /\ ui.copy # NoState
    BY <2>1, <2>2 DEF IInv, Inv, Copy
  <2>4. ui.copy.attempts \in Nat
    BY <1>1, <2>3, StateFields DEF AnyState
  <2>5. /\ wrong = IF ui.copy.attempts # 0 THEN ui.copy.attempts - 1 ELSE ui.copy.attempts
        /\ shown = ui.copy.recovery
    BY <2>1, <2>2 DEF Seen, Pending
  <2>6. LocksOut <=> ui.copy.attempts = 0
    BY <2>1 DEF LocksOut
  <2>7. OnDisk'
    BY <2>1, <2>3, <2>4, <2>5, <2>6 DEF OnDisk
  <2> QED BY <2>1, <2>7, SeenAtEnd
<1>8. CASE Recovered \/ ClearLegacy
  <2>1. /\ ui.pc \in {"saved", "clear"} /\ ui.then \in {"recover", "migrate", "setup", "change"}
        /\ ui' = Idle /\ UNCHANGED <<disk, wrong>>
        /\ shown' = IF ui.then \in {"setup", "recover"} THEN ui.copy.recovery ELSE shown
    BY <1>8 DEF Recovered, ClearLegacy, IInv, Inv, Frame
  <2>2. ui.todo # SaveOrder
    BY <2>1, Orders DEF IInv, Inv, Frame
  <2>3. disk.state = ui.copy /\ ui.copy # NoState
    BY <2>1, <2>2 DEF IInv, Inv, Copy
  <2>4. /\ wrong = ui.copy.attempts
        /\ ui.then \notin {"setup", "recover"} => shown = ui.copy.recovery
    BY <2>1, <2>2 DEF Seen, Pending
  <2>5. OnDisk'
    BY <2>1, <2>3, <2>4 DEF OnDisk
  <2> QED BY <2>1, <2>5, SeenAtEnd
<1>9. CASE SetOrChanged
  BY <1>3, <1>9 DEF SetOrChanged
<1>10. ~Recount /\ ~Raise /\ ~NotSaved /\ ~ClearFails
  BY <1>1 DEF Recount, Raise, NotSaved, ClearFails
<1>11. ASSUME NEW p \in Passwords PROVE ~Setup(p) /\ ~Recover(p)
  BY <1>2 DEF Setup, Recover
<1>12. ASSUME NEW p \in Passwords, NEW new \in Hash PROVE ~Verify(p, new)
  BY VerifySaves
<1> QED BY <1>5, <1>6, <1>7, <1>8, <1>9, <1>10, <1>11, <1>12 DEF Operations

LEMMA SeenKept == IInv /\ Due /\ Seen /\ [Next]_vars => Seen'
<1> SUFFICES ASSUME IInv, Due, Seen, [Next]_vars, ~faulty' PROVE Seen'
  BY DEF Seen
<1>1. ~faulty /\ ~WriteFails /\ ~Crash
  <2>1. faulty' \in {faulty, TRUE}
    BY DEF Next, Start, Boot, Booted, Prepare, Created, Migrated, Write, WriteFails, Operations,
           Verify, Accept, Reject, Recount, Raise, Setup, Recover, Recovered, SetOrChanged, NotSaved,
           ClearLegacy, ClearFails, Reading, ReadGuard, ReadRegistry, ReadState, Tick, Crash,
           history, vars
  <2>2. ~WriteFails
    BY DEF WriteFails
  <2>3. ~Crash
    BY DEF Crash
  <2>4. ~faulty
    <3>1. faulty' = faulty \/ faulty' = TRUE
      BY <2>1
    <3> QED BY <3>1, Zenon
  <2> QED BY <2>2, <2>3, <2>4
<1>2. CASE Tick
  BY <1>2, Ticked DEF Seen, Pending, history
<1>3. CASE Reading \/ UNCHANGED vars
  <2>1. UNCHANGED <<disk, ui, history>>
    BY <1>3 DEF Reading, ReadGuard, ReadRegistry, ReadState, vars
  <2> QED BY <2>1 DEF Seen, Pending, history
<1>4. CASE Write
  BY <1>1, <1>4, SeenWrite
<1>5. CASE (Start \/ Operations) /\ ui'.todo # SaveOrder
  BY <1>1, <1>5, SeenEnds
<1>6. CASE (Start \/ Operations) /\ ui'.todo = SaveOrder
  <2>1. UNCHANGED history
    BY <1>6, ToSave
  <2>2. CASE UNCHANGED <<disk, ui>>
    BY <2>1, <2>2 DEF Seen, Pending, history
  <2>3. CASE disk' = disk /\ ui'.pc = "saving" /\ SaveBegins
    BY <1>1, <1>6, <2>1, <2>3, SeenSaveBegins
  <2> QED BY <1>2, <1>6, <2>2, <2>3, ToSave
<1> QED BY <1>1, <1>2, <1>3, <1>4, <1>5, <1>6 DEF Next

-----------------------------------------------------------------------------
(* What follows from it *)

Known == IInv /\ Due /\ Escalating /\ Seen

LEMMA KnownAlways == Spec => []Known
<1>1. Init => Known
  <2> SUFFICES ASSUME Init PROVE Known
    OBVIOUS
  <2>1. ui.then = "none" /\ ui.todo # SaveOrder /\ ui.pc = "down"
    BY IdleFrames, Orders DEF Init
  <2>2. /\ disk.state = NoState /\ wrong = 0 /\ shown = 0 /\ last = 0
    BY DEF Init
  <2> QED BY <2>1, <2>2, Initially DEF Known, Due, Escalating, Seen, Pending, NoState
<1>2. Known /\ [Next]_vars => Known'
  BY Inductive, DueKept, EscalatingKept, SeenKept DEF Known
<1> QED BY <1>1, <1>2, PTL DEF Spec

\* As long as no write fails and the program does not die, the count and the recovery key
\* on disk are those the user has seen.
THEOREM StoredAlwaysSeen == Spec => []StoredIsSeen
<1>1. Known => StoredIsSeen
  <2> SUFFICES ASSUME Known, ~faulty, ui.pc = "idle"
               PROVE  wrong = disk.state.attempts /\ shown = disk.state.recovery
    BY DEF StoredIsSeen
  <2>1. Pending /\ disk.state # NoState
    BY DEF Known, IInv, Inv, Frame, Ready, Pending
  <2> QED BY <2>1 DEF Known, Seen
<1> QED BY <1>1, KnownAlways, PTL

\* Without a right guess between them each lockout is at least twice as long as the one
\* before, or the longest, whatever fails and however often the program restarts.
THEOREM LockoutsAlwaysEscalate == Spec => LockoutsEscalate
<1>1. Known /\ [Next]_vars =>
        [LockoutBegins => last' = MaxLockout \/ (last' >= 2 * last /\ last' > 0)]_vars
  <2> SUFFICES ASSUME Known, [Next]_vars, LockoutBegins
               PROVE  last' = MaxLockout \/ (last' >= 2 * last /\ last' > 0)
    OBVIOUS
  <2>1. IInv /\ Due /\ Escalating /\ disk.state.until \in Nat
    BY TypesOfTypeOK, StateFields DEF Known, IInv, Types, Places, AnyState, NoState
  <2>2. ~Tick /\ Write /\ ui.todo = SaveOrder
    BY <2>1, StateWritten, Ticked, WroteAnchor DEF LockoutBegins
  <2>3. /\ disk'.state = ui.copy /\ ui.copy \in State /\ ui.then \in Thens \ {"none"}
        /\ last' = IF Proven THEN 0 ELSE IF LocksOut THEN Lockout(ui.copy.count) ELSE last
    BY <2>1, <2>2, WroteState
  <2>4. ui.copy.until # 0
    BY <2>1, <2>3 DEF LockoutBegins
  <2>5. /\ ui.then \in {"record", "recount"} /\ ui.copy.attempts = 0
        /\ ui.copy.count = disk.state.count + 1
    BY <2>1, <2>2, <2>3, <2>4 DEF Due, Thens
  <2>6. last' = Lockout(disk.state.count + 1)
    BY <2>3, <2>5 DEF LocksOut, Proven
  <2>7. disk.state.count \in Nat
    BY TypesOfTypeOK, StateFields DEF Known, IInv, Types, Places, AnyState, NoState
  <2>8. last = 0 \/ last = Lockout(disk.state.count)
    BY <2>1 DEF Escalating
  <2>9. /\ last' > 0 /\ last' \in Nat
        /\ last' = MaxLockout \/ last' >= 2 * Lockout(disk.state.count)
    BY <2>6, <2>7, LockoutDoubles, LockoutType
  <2> QED BY <2>8, <2>9
<1> QED BY <1>1, KnownAlways, PTL DEF Spec, LockoutsEscalate
=============================================================================
