-------------------------- MODULE Lifecycle_proofs --------------------------
(* Theorems about Lifecycle, for any number of starts, handovers and faults:  *)
(* who may be in charge at the same time, and when a watchdog starts the      *)
(* program again.                                                             *)
EXTENDS Lifecycle, FiniteSetTheorems, TLAPS

-----------------------------------------------------------------------------
(* The inductive invariant                                                     *)

Types ==
  /\ proc \in [Procs -> Settings]
  /\ watchdog \in [Procs -> {"none", "polling", "survivor", "relaunch", "gone",
                             "failed", "killed"}]
  /\ mutex \in [handles : SUBSET Procs, owner : Procs \union {Nobody}, abandoned : BOOLEAN]
  /\ marker \in BOOLEAN /\ request \in BOOLEAN
  /\ starts \in 0..MaxStarts /\ handovers \in 0..MaxHandovers /\ faults \in 0..MaxFaults

\* The processes are started in the order of their numbers.
Numbered == \E n \in Nat : Born = 1..n

\* A handle belongs to an instance or to a start that waits.
HandlesHeld == \A p \in mutex.handles : p \in InCharge \/ At(p, "wait")

\* The owner has a handle, or has closed it and is about to end or to try again.
OwnerKnown ==
  mutex.owner # Nobody =>
    /\ mutex.handles # {}
    /\ mutex.owner \in mutex.handles \/ At(mutex.owner, "notify") \/ At(mutex.owner, "recreate")

\* An instance that has created the mutex owns it.
CreatorsOwn ==
  \A p \in InCharge :
    /\ proc[p].took \notin {"nothing", "returned"}
    /\ proc[p].took = "created" => mutex.owner = p /\ p \in mutex.handles

\* A watchdog polls until its parent has stopped it, or was killed.
Watched ==
  \A p \in Procs :
    watchdog[p] = "polling" => proc[p].pc \in {"run", "stop", "stopUnmarked", "killed"}

IInv == Types /\ Numbered /\ HandlesHeld /\ OwnerKnown /\ CreatorsOwn /\ Watched

-----------------------------------------------------------------------------
LEMMA NobodyIsNone == Nobody \notin Procs
BY BoundsAssumption DEF Nobody

\* The invariant says what the runs check.
LEMMA InvImplies == IInv => TypeOK /\ OwnersExclude
<1> SUFFICES ASSUME IInv PROVE TypeOK /\ OwnersExclude
  OBVIOUS
<1>1. mutex.handles \subseteq InCharge \union {p \in Procs : At(p, "wait")}
  BY DEF IInv, Types, HandlesHeld
<1>2. ASSUME mutex.owner # Nobody PROVE mutex.handles # {} /\ mutex.owner \in Alive
  <2>1. mutex.owner \in Procs
    BY <1>2 DEF IInv, Types
  <2>2. mutex.owner \in InCharge \/ proc[mutex.owner].pc \in {"wait", "notify", "recreate"}
    BY <1>2 DEF IInv, OwnerKnown, HandlesHeld, At
  <2>3. mutex.owner \in Alive
    BY <2>1, <2>2 DEF InCharge, Alive, Born, Ended
  <2> QED BY <1>2, <2>3 DEF IInv, OwnerKnown
<1>3. TypeOK
  BY <1>1, <1>2 DEF IInv, Types, TypeOK
<1>4. ASSUME NEW p \in InCharge, NEW q \in InCharge, p # q
      PROVE  \E x \in {p, q} : mutex.owner # x /\ proc[x].took \in {"abandoned", "unguarded"}
  <2>1. PICK x \in {p, q} : mutex.owner # x
    BY <1>4
  <2>2. x \in InCharge /\ proc[x] \in Settings
    BY <1>4 DEF InCharge, IInv, Types
  <2>3. proc[x].took \notin {"nothing", "created", "returned"}
    BY <2>1, <2>2 DEF IInv, CreatorsOwn
  <2> QED BY <2>1, <2>2, <2>3 DEF Settings
<1> QED BY <1>3, <1>4 DEF OwnersExclude

LEMMA InitInv == Init => IInv
<1> SUFFICES ASSUME Init PROVE IInv
  OBVIOUS
<1>1. Types
  <2>1. Unborn \in Settings
    BY DEF Unborn, Settings, Nobody
  <2>2. proc \in [Procs -> Settings]
    BY <2>1 DEF Init
  <2>3. NoMutex \in [handles : SUBSET Procs, owner : Procs \union {Nobody}, abandoned : BOOLEAN]
    BY DEF NoMutex
  <2>4. starts \in 0..MaxStarts /\ handovers \in 0..MaxHandovers /\ faults \in 0..MaxFaults
    BY BoundsAssumption DEF Init
  <2> QED BY <2>2, <2>3, <2>4 DEF Init, Types
<1>2. \A p \in Procs : proc[p].pc = "unborn"
  BY DEF Init, Unborn
<1>3. Numbered
  <2>1. Born = 1..0
    BY <1>2 DEF Born
  <2> QED BY <2>1 DEF Numbered
<1>4. InCharge = {}
  BY <1>2 DEF InCharge
<1>5. mutex.handles = {} /\ mutex.owner = Nobody
  BY DEF Init, NoMutex
<1> QED BY <1>1, <1>2, <1>3, <1>4, <1>5 DEF IInv, HandlesHeld, OwnerKnown, CreatorsOwn, Watched, Init

\* The number that a new process gets is free.
LEMMA NextNumber ==
  ASSUME Numbered
  PROVE  /\ Cardinality(Born) \in Nat
         /\ Born = 1..Cardinality(Born)
         /\ Cardinality(Born) + 1 \notin Born
<1>1. PICK n \in Nat : Born = 1..n
  BY DEF Numbered
<1>2. Cardinality(1..n) = n
  BY <1>1, FS_Interval
<1> QED BY <1>1, <1>2

\* A process goes on to pc2; nothing is started.
LEMMA NumberedGoes ==
  ASSUME Types, Numbered, NEW p \in Procs, proc[p].pc # "unborn",
         proc' \in [Procs -> Settings], proc'[p].pc # "unborn",
         \A q \in Procs \ {p} : proc'[q] = proc[q]
  PROVE  Numbered'
<1>1. Born' = Born
  BY DEF Born
<1> QED BY <1>1 DEF Numbered

Child == Cardinality(Born) + 1
Started(s) == [s EXCEPT !.pc = "create", !.took = "nothing"]

\* A process is started, and p goes on to pc2 unless it is nobody.
LEMMA StartingStep ==
  ASSUME Types, Numbered, NEW s \in Settings, NEW p \in Procs \union {Nobody},
         p \in Procs => proc[p].pc # "unborn",
         NEW pc2, pc2 # "unborn", [Unborn EXCEPT !.pc = pc2] \in Settings,
         proc' = Starting(s, p, pc2)
  PROVE  /\ Numbered'
         /\ proc' \in [Procs -> Settings]
         /\ Child # p
         /\ Child \in Procs => /\ proc[Child].pc = "unborn"
                               /\ proc'[Child] = Started(s)
         /\ p \in Procs => proc'[p] = [proc[p] EXCEPT !.pc = pc2]
         /\ \A q \in Procs \ {Child, p} : proc'[q] = proc[q]
<1> DEFINE child == Child
           new == Started(s)
<1>1. /\ Cardinality(Born) \in Nat /\ Born = 1..Cardinality(Born)
      /\ child \notin Born /\ child \in Nat \ {0}
  BY NextNumber DEF Child
<1>2. p \in Procs => p \in Born
  BY DEF Born
<1>3. child # p
  BY <1>1, <1>2, NobodyIsNone DEF Nobody
<1>4. new \in Settings /\ new.pc = "create"
  BY DEF Settings, Started
<1>5. p \in Procs => [proc[p] EXCEPT !.pc = pc2] \in Settings /\ [proc[p] EXCEPT !.pc = pc2].pc = pc2
  <2> SUFFICES ASSUME p \in Procs
               PROVE [proc[p] EXCEPT !.pc = pc2] \in Settings /\ [proc[p] EXCEPT !.pc = pc2].pc = pc2
    OBVIOUS
  <2>1. proc[p] \in Settings
    BY DEF Types
  <2> QED BY <2>1 DEF Settings, Unborn
<1>6. proc' = [q \in Procs |-> IF q = child THEN new
                               ELSE IF q = p THEN [proc[p] EXCEPT !.pc = pc2] ELSE proc[q]]
  BY DEF Starting, Child, Started
<1> HIDE DEF child, new
<1>7. /\ proc' \in [Procs -> Settings]
      /\ child \in Procs => proc'[child] = new
      /\ p \in Procs => proc'[p] = [proc[p] EXCEPT !.pc = pc2]
      /\ \A q \in Procs \ {child, p} : proc'[q] = proc[q]
  BY <1>3, <1>4, <1>5, <1>6 DEF Types
<1>8. child \in Procs => proc[child].pc = "unborn"
  BY <1>1 DEF Born
<1>9. Born' = Born \union ({child} \intersect Procs)
  <2>1. ASSUME NEW q \in Procs PROVE proc'[q].pc # "unborn" <=> (q \in Born \/ q = child)
    BY <1>2, <1>3, <1>4, <1>5, <1>7 DEF Born
  <2> QED BY <2>1 DEF Born
<1>10. Numbered'
  <2>1. CASE child \in Procs
    <3>1. Born' = 1..child
      BY <1>1, <1>9, <2>1 DEF child, Child
    <3> QED BY <1>1, <3>1 DEF Numbered
  <2>2. CASE child \notin Procs
    <3>1. Born' = Born
      BY <1>9, <2>2
    <3> QED BY <3>1 DEF Numbered
  <2> QED BY <2>1, <2>2
<1> QED BY <1>3, <1>7, <1>8, <1>10 DEF child, new

-----------------------------------------------------------------------------
(* What steps have in common                                                   *)

Mutexes == [handles : SUBSET Procs, owner : Procs \union {Nobody}, abandoned : BOOLEAN]

\* n is the mutex m after p has closed its handle and given up what it owned.
Left(n, m, p) ==
  /\ n \in Mutexes
  /\ n.handles = m.handles \ {p}
  /\ n.owner = IF m.owner = p \/ m.handles \ {p} = {} THEN Nobody ELSE m.owner

LEMMA ClosedMutex ==
  ASSUME NEW m \in Mutexes, NEW p \in Procs
  PROVE  /\ Closed(m, p) \in Mutexes
         /\ Closed(m, p).handles = m.handles \ {p}
         /\ Closed(m, p).owner = IF m.handles \ {p} = {} THEN Nobody ELSE m.owner
BY DEF Mutexes, Closed, NoMutex

LEMMA OrphanedMutex ==
  ASSUME NEW m \in Mutexes, NEW p \in Procs
  PROVE  Left(Orphaned(m, p), m, p)
<1> DEFINE c == Closed(m, p)
<1>1. /\ c \in Mutexes /\ c.handles = m.handles \ {p}
      /\ c.owner = IF m.handles \ {p} = {} THEN Nobody ELSE m.owner
  BY ClosedMutex
<1>2. Orphaned(m, p) = IF c.owner = p THEN [c EXCEPT !.owner = Nobody, !.abandoned = TRUE] ELSE c
  BY DEF Orphaned
<1> HIDE DEF c
<1> QED BY <1>1, <1>2, NobodyIsNone DEF Left, Mutexes

LEMMA ReleasedMutex ==
  ASSUME NEW m \in Mutexes, NEW p \in Procs
  PROVE  Left(Released(m, p), m, p)
<1> DEFINE c == IF m.owner = p THEN [m EXCEPT !.owner = Nobody] ELSE m
<1>1. /\ c \in Mutexes /\ c.handles = m.handles
      /\ c.owner = IF m.owner = p THEN Nobody ELSE m.owner
  BY DEF Mutexes
<1>2. Released(m, p) = Closed(c, p)
  BY DEF Released
<1> HIDE DEF c
<1> QED BY <1>1, <1>2, ClosedMutex DEF Left

LEMMA ReleasedAndOrphaned ==
  ASSUME NEW m \in Mutexes, NEW p \in Procs
  PROVE  Left(Orphaned(Released(m, p), p), m, p)
<1> DEFINE r == Released(m, p)
<1>1. Left(r, m, p) /\ r \in Mutexes
  BY ReleasedMutex DEF Left
<1>2. Left(Orphaned(r, p), r, p)
  BY <1>1, OrphanedMutex
<1>3. ASSUME NEW n PROVE Left(r, m, p) /\ Left(n, r, p) => Left(n, m, p)
  <2> HIDE DEF r
  <2> QED BY NobodyIsNone DEF Left
<1> QED BY <1>1, <1>2, <1>3

\* Nobody but p changes, and processes that are started.
Only(p) ==
  /\ proc' \in [Procs -> Settings]
  /\ \A q \in Procs \ {p} :
       proc'[q] = proc[q] \/ (proc[q].pc = "unborn" /\ proc'[q].pc = "create")

Holds == HandlesHeld /\ OwnerKnown /\ CreatorsOwn

\* p leaves, and with it its handle.
LEMMA LeavingStep ==
  ASSUME IInv, NEW p \in Procs, Only(p), p \notin InCharge', Left(mutex', mutex, p)
  PROVE  Holds'
<1>1. ASSUME NEW q \in Procs, q # p
      PROVE  /\ q \in InCharge' <=> q \in InCharge
             /\ q \in InCharge => proc'[q] = proc[q]
             /\ At(q, "wait") => At(q, "wait")'
             /\ At(q, "notify") => At(q, "notify")'
             /\ At(q, "recreate") => At(q, "recreate")'
  BY <1>1 DEF Only, InCharge, At
<1>2. mutex'.handles \subseteq Procs /\ mutex'.owner \in Procs \union {Nobody}
  BY DEF Left, Mutexes
<1>3. HandlesHeld'
  BY <1>1, <1>2 DEF Left, IInv, HandlesHeld
<1>4. OwnerKnown'
  BY <1>1, <1>2 DEF Left, IInv, OwnerKnown
<1>5. ASSUME NEW q \in InCharge' PROVE q \in InCharge /\ q # p /\ proc'[q] = proc[q]
  BY <1>1, <1>5 DEF InCharge
<1>6. CreatorsOwn'
  BY <1>5 DEF Left, IInv, CreatorsOwn
<1> QED BY <1>3, <1>4, <1>6 DEF Holds

\* p goes on and stays in charge, or stays out.
LEMMA StayingStep ==
  ASSUME IInv, NEW p \in Procs, Only(p), mutex' = mutex,
         \/ p \in InCharge /\ p \in InCharge' /\ proc'[p].took = proc[p].took
         \/ p \notin InCharge' /\ p \notin mutex.handles /\ p # mutex.owner
  PROVE  Holds'
<1>1. ASSUME NEW q \in Procs, q # p
      PROVE  /\ q \in InCharge' <=> q \in InCharge
             /\ q \in InCharge => proc'[q] = proc[q]
             /\ At(q, "wait") => At(q, "wait")'
             /\ At(q, "notify") => At(q, "notify")'
             /\ At(q, "recreate") => At(q, "recreate")'
  BY <1>1 DEF Only, InCharge, At
<1>2. mutex.handles \subseteq Procs /\ mutex.owner \in Procs \union {Nobody}
  BY DEF IInv, Types
<1>3. HandlesHeld'
  BY <1>1, <1>2 DEF IInv, HandlesHeld
<1>4. OwnerKnown'
  <2>1. p \in InCharge => ~At(p, "notify") /\ ~At(p, "recreate")
    BY DEF InCharge, At
  <2> QED BY <1>1, <1>2, <2>1 DEF IInv, OwnerKnown
<1>5. ASSUME NEW q \in InCharge'
      PROVE  q \in InCharge /\ proc'[q].took = proc[q].took
  BY <1>1, <1>5 DEF InCharge
<1>6. CreatorsOwn'
  BY <1>5 DEF IInv, CreatorsOwn
<1> QED BY <1>3, <1>4, <1>6 DEF Holds

\* p opens the mutex, and has it if no handle to it was open.
LEMMA OpeningStep ==
  ASSUME IInv, NEW p \in Procs, Only(p), p \notin InCharge,
         proc[p].pc \in {"create", "recreate"},
         mutex'.handles = mutex.handles \union {p},
         mutex'.owner = IF mutex.handles = {} THEN p ELSE mutex.owner,
         \/ proc'[p].pc = "wait" /\ proc[p].pc = "create" /\ mutex.handles # {}
         \/ /\ proc'[p].pc = "elevate"
            /\ \/ mutex.handles = {} /\ proc'[p].took = "created"
               \/ mutex.handles # {} /\ proc'[p].took = "abandoned"
  PROVE  Holds'
<1>1. ASSUME NEW q \in Procs, q # p
      PROVE  /\ q \in InCharge' <=> q \in InCharge
             /\ q \in InCharge => proc'[q] = proc[q]
             /\ At(q, "wait") => At(q, "wait")'
             /\ At(q, "notify") => At(q, "notify")'
             /\ At(q, "recreate") => At(q, "recreate")'
  BY <1>1 DEF Only, InCharge, At
<1>2. mutex.handles \subseteq Procs /\ mutex.owner \in Procs \union {Nobody}
  BY DEF IInv, Types
<1>3. p \in InCharge' \/ At(p, "wait")'
  BY DEF InCharge, At
<1>4. HandlesHeld'
  BY <1>1, <1>2, <1>3 DEF IInv, HandlesHeld
<1>5. OwnerKnown'
  BY <1>1, <1>2 DEF IInv, OwnerKnown
<1>6. ASSUME NEW q \in InCharge', q # p PROVE q \in InCharge /\ proc'[q] = proc[q]
  BY <1>1, <1>6 DEF InCharge
<1>7. p \in InCharge' => proc'[p].pc = "elevate"
  BY DEF InCharge
<1>8. CreatorsOwn'
  BY <1>6, <1>7 DEF IInv, CreatorsOwn
<1> QED BY <1>4, <1>5, <1>8 DEF Holds

\* The watchdogs are left alone.
LEMMA UnwatchedStep ==
  ASSUME IInv, NEW p \in Procs, Only(p), watchdog' = watchdog,
         proc[p].pc \in {"run", "stop", "stopUnmarked"} =>
           proc'[p].pc \in {"run", "stop", "stopUnmarked", "killed"},
         proc[p].pc # "killed"
  PROVE  Watched'
BY DEF IInv, Watched, Only

\* p gets settings of its own and nothing is started.
LEMMA GoingStep ==
  ASSUME IInv, NEW p \in Procs, proc[p].pc # "unborn",
         NEW r \in Settings, r.pc # "unborn", proc' = [proc EXCEPT ![p] = r]
  PROVE  Only(p) /\ Numbered' /\ proc'[p] = r /\ proc' \in [Procs -> Settings]
<1>1. proc' \in [Procs -> Settings] /\ proc'[p] = r /\ \A q \in Procs \ {p} : proc'[q] = proc[q]
  BY DEF IInv, Types
<1>2. Numbered'
  BY <1>1, NumberedGoes DEF IInv
<1> QED BY <1>1, <1>2 DEF Only

LEMMA GotoStep ==
  ASSUME IInv, NEW p \in Procs, proc[p].pc # "unborn",
         NEW pc2, pc2 # "unborn", [Unborn EXCEPT !.pc = pc2] \in Settings, Goto(p, pc2)
  PROVE  /\ Only(p) /\ Numbered' /\ proc' \in [Procs -> Settings]
         /\ proc'[p] = [proc[p] EXCEPT !.pc = pc2] /\ proc'[p].pc = pc2
         /\ proc'[p].took = proc[p].took
<1>1. proc[p] \in Settings
  BY DEF IInv, Types
<1>2. [proc[p] EXCEPT !.pc = pc2] \in Settings /\ [proc[p] EXCEPT !.pc = pc2].pc = pc2
      /\ [proc[p] EXCEPT !.pc = pc2].took = proc[p].took
  BY <1>1 DEF Settings, Unborn
<1>3. proc' = [proc EXCEPT ![p] = [proc[p] EXCEPT !.pc = pc2]]
  BY DEF Goto
<1> QED BY <1>2, <1>3, GoingStep

\* p goes on to pc2 and a process is started.
LEMMA HandingStep ==
  ASSUME IInv, NEW p \in Procs, proc[p].pc # "unborn", NEW s \in Settings,
         NEW pc2, pc2 # "unborn", [Unborn EXCEPT !.pc = pc2] \in Settings,
         proc' = Starting(s, p, pc2)
  PROVE  /\ Only(p) /\ Numbered' /\ proc' \in [Procs -> Settings]
         /\ proc'[p].pc = pc2 /\ proc'[p].took = proc[p].took
<1>1. /\ Numbered' /\ proc' \in [Procs -> Settings]
      /\ Child \in Procs => /\ proc[Child].pc = "unborn"
                            /\ proc'[Child] = Started(s)
      /\ proc'[p] = [proc[p] EXCEPT !.pc = pc2]
      /\ \A q \in Procs \ {Child, p} : proc'[q] = proc[q]
  BY StartingStep DEF IInv
<1>2. proc[p] \in Settings
  BY DEF IInv, Types
<1>3. proc'[p].pc = pc2 /\ proc'[p].took = proc[p].took
  BY <1>1, <1>2 DEF Settings
<1>4. Child \in Procs => proc'[Child].pc = "create"
  BY <1>1 DEF Settings, Started
<1> QED BY <1>1, <1>3, <1>4 DEF Only

\* Nobody changes, but for processes that are started.
Calm ==
  /\ proc' \in [Procs -> Settings]
  /\ \A q \in Procs : proc'[q] = proc[q] \/ (proc[q].pc = "unborn" /\ proc'[q].pc = "create")

LEMMA BirthStep ==
  ASSUME IInv, NEW s \in Settings, proc' = Starting(s, Nobody, "none")
  PROVE  Calm /\ Numbered'
<1>1. Starting(s, Nobody, "none") = Starting(s, Nobody, "run")
  BY NobodyIsNone DEF Starting
<1>2. /\ Numbered' /\ proc' \in [Procs -> Settings]
      /\ Child \in Procs => /\ proc[Child].pc = "unborn"
                            /\ proc'[Child] = Started(s)
      /\ \A q \in Procs \ {Child, Nobody} : proc'[q] = proc[q]
  <2>1. [Unborn EXCEPT !.pc = "run"] \in Settings
    BY DEF Settings, Unborn, Nobody
  <2>2. proc' = Starting(s, Nobody, "run")
    BY <1>1
  <2>3. Types /\ Numbered
    BY DEF IInv
  <2>4. ASSUME NEW p \in Procs \union {Nobody}, p = Nobody
        PROVE  /\ Numbered' /\ proc' \in [Procs -> Settings]
               /\ Child \in Procs => proc[Child].pc = "unborn" /\ proc'[Child] = Started(s)
               /\ \A q \in Procs \ {Child, p} : proc'[q] = proc[q]
    <3>1. proc' = Starting(s, p, "run") /\ p \notin Procs
      BY <2>2, <2>4, NobodyIsNone
    <3> HIDE DEF Nobody
    <3> QED BY <3>1, <2>1, <2>3, StartingStep
  <2> QED BY <2>4
<1>3. Child \in Procs => proc'[Child].pc = "create"
  BY <1>2 DEF Settings, Started
<1> QED BY <1>2, <1>3, NobodyIsNone DEF Calm

LEMMA CalmStep ==
  ASSUME IInv, Calm, mutex' = mutex
  PROVE  Holds'
<1>1. ASSUME NEW q \in Procs
      PROVE  /\ q \in InCharge' <=> q \in InCharge
             /\ q \in InCharge => proc'[q] = proc[q]
             /\ At(q, "wait") => At(q, "wait")'
             /\ At(q, "notify") => At(q, "notify")'
             /\ At(q, "recreate") => At(q, "recreate")'
  BY DEF Calm, InCharge, At
<1>2. mutex.handles \subseteq Procs /\ mutex.owner \in Procs \union {Nobody}
  BY DEF IInv, Types
<1>3. InCharge' \subseteq InCharge /\ InCharge \subseteq Procs
  BY <1>1 DEF InCharge
<1>4. HandlesHeld'
  BY <1>1, <1>2 DEF IInv, HandlesHeld
<1>5. OwnerKnown'
  BY <1>1, <1>2 DEF IInv, OwnerKnown
<1>6. CreatorsOwn'
  BY <1>1, <1>3 DEF IInv, CreatorsOwn
<1> QED BY <1>4, <1>5, <1>6 DEF Holds

-----------------------------------------------------------------------------
(* The steps, each of which keeps the invariant                                *)

\* What every step changes outside proc and mutex keeps its type.
Others ==
  /\ watchdog' \in [Procs -> {"none", "polling", "survivor", "relaunch", "gone",
                              "failed", "killed"}]
  /\ marker' \in BOOLEAN /\ request' \in BOOLEAN
  /\ starts' \in 0..MaxStarts /\ handovers' \in 0..MaxHandovers /\ faults' \in 0..MaxFaults

Counted == starts' \in 0..MaxStarts /\ handovers' \in 0..MaxHandovers /\ faults' \in 0..MaxFaults

LEMMA FaultCounts == IInv /\ (Fault \/ UNCHANGED used) => Counted
BY BoundsAssumption DEF IInv, Types, Fault, used, Counted

LEMMA Together ==
  ASSUME proc' \in [Procs -> Settings], mutex' \in Mutexes, Others, Numbered', Holds', Watched'
  PROVE  IInv'
BY DEF Mutexes, Others, Holds, IInv, Types

\* A refused start ends; if its wait has made it the owner, the mutex is abandoned.
LEMMA StepNotify ==
  ASSUME IInv, NEW p \in Procs, Notify(p)
  PROVE  IInv'
<1>1. proc[p].pc \in {"notify"}
  BY DEF Notify, At
<1>2. /\ Only(p) /\ Numbered' /\ proc' \in [Procs -> Settings]
      /\ proc'[p].pc = "lost"
  <2>1. Goto(p, "lost") /\ [Unborn EXCEPT !.pc = "lost"] \in Settings
    BY DEF Notify, Settings, Ended, Unborn, Nobody
  <2> QED BY <1>1, <2>1, GotoStep
<1>3. Left(mutex', mutex, p) /\ mutex' \in Mutexes
  <2>1. mutex \in Mutexes
    BY DEF IInv, Types, Mutexes
  <2> QED BY <2>1, OrphanedMutex DEF Notify, Left
<1>4. Holds'
  <2>1. p \notin InCharge'
    BY <1>2 DEF InCharge
  <2> QED BY <1>2, <1>3, <2>1, LeavingStep
<1>5. Watched'
  BY <1>1, <1>2, UnwatchedStep DEF Notify
<1>6. Others
  BY FaultCounts DEF Notify, Others, IInv, Types, used, Counted
<1> QED BY <1>2, <1>3, <1>4, <1>5, <1>6, Together

LEMMA StepElevationDeclined ==
  ASSUME IInv, NEW p \in Procs, ElevationDeclined(p)
  PROVE  IInv'
<1>1. proc[p].pc \in {"elevate"}
  BY DEF ElevationDeclined, At
<1>2. /\ Only(p) /\ Numbered' /\ proc' \in [Procs -> Settings]
      /\ proc'[p].pc = "declined"
  <2>1. Goto(p, "declined") /\ [Unborn EXCEPT !.pc = "declined"] \in Settings
    BY DEF ElevationDeclined, Settings, Ended, Unborn, Nobody
  <2> QED BY <1>1, <2>1, GotoStep
<1>3. Left(mutex', mutex, p) /\ mutex' \in Mutexes
  <2>1. mutex \in Mutexes
    BY DEF IInv, Types, Mutexes
  <2> QED BY <2>1, OrphanedMutex DEF ElevationDeclined, Left
<1>4. Holds'
  <2>1. p \notin InCharge'
    BY <1>2 DEF InCharge
  <2> QED BY <1>2, <1>3, <2>1, LeavingStep
<1>5. Watched'
  BY <1>1, <1>2, UnwatchedStep DEF ElevationDeclined
<1>6. Others
  BY FaultCounts DEF ElevationDeclined, Others, IInv, Types, used, Counted
<1> QED BY <1>2, <1>3, <1>4, <1>5, <1>6, Together

LEMMA StepHandedOver ==
  ASSUME IInv, NEW p \in Procs, HandedOver(p)
  PROVE  IInv'
<1>1. proc[p].pc \in {"handover"}
  BY DEF HandedOver, At
<1>2. /\ Only(p) /\ Numbered' /\ proc' \in [Procs -> Settings]
      /\ proc'[p].pc = "handed"
  <2>1. Goto(p, "handed") /\ [Unborn EXCEPT !.pc = "handed"] \in Settings
    BY DEF HandedOver, Settings, Ended, Unborn, Nobody
  <2> QED BY <1>1, <2>1, GotoStep
<1>3. Left(mutex', mutex, p) /\ mutex' \in Mutexes
  <2>1. mutex \in Mutexes
    BY DEF IInv, Types, Mutexes
  <2> QED BY <2>1, OrphanedMutex DEF HandedOver, Left
<1>4. Holds'
  <2>1. p \notin InCharge'
    BY <1>2 DEF InCharge
  <2> QED BY <1>2, <1>3, <2>1, LeavingStep
<1>5. Watched'
  BY <1>1, <1>2, UnwatchedStep DEF HandedOver
<1>6. Others
  BY FaultCounts DEF HandedOver, Others, IInv, Types, used, Counted
<1> QED BY <1>2, <1>3, <1>4, <1>5, <1>6, Together

LEMMA StepConstructFails ==
  ASSUME IInv, NEW p \in Procs, ConstructFails(p)
  PROVE  IInv'
<1>1. proc[p].pc \in {"init"}
  BY DEF ConstructFails, At
<1>2. /\ Only(p) /\ Numbered' /\ proc' \in [Procs -> Settings]
      /\ proc'[p].pc = "failed"
  <2>1. Goto(p, "failed") /\ [Unborn EXCEPT !.pc = "failed"] \in Settings
    BY DEF ConstructFails, Settings, Ended, Unborn, Nobody
  <2> QED BY <1>1, <2>1, GotoStep
<1>3. Left(mutex', mutex, p) /\ mutex' \in Mutexes
  <2>1. mutex \in Mutexes
    BY DEF IInv, Types, Mutexes
  <2> QED BY <2>1, OrphanedMutex, ReleasedAndOrphaned DEF ConstructFails, Left
<1>4. Holds'
  <2>1. p \notin InCharge'
    BY <1>2 DEF InCharge
  <2> QED BY <1>2, <1>3, <2>1, LeavingStep
<1>5. Watched'
  BY <1>1, <1>2, UnwatchedStep DEF ConstructFails
<1>6. Others
  BY FaultCounts DEF ConstructFails, Others, IInv, Types, used, Counted
<1> QED BY <1>2, <1>3, <1>4, <1>5, <1>6, Together

LEMMA StepLeaveRun ==
  ASSUME IInv, NEW p \in Procs, LeaveRun(p)
  PROVE  IInv'
<1>1. proc[p].pc \in {"login", "errorBox"}
  BY DEF LeaveRun, At
<1>2. /\ Only(p) /\ Numbered' /\ proc' \in [Procs -> Settings]
      /\ proc'[p].pc = "cancelled"
  <2>1. Goto(p, "cancelled") /\ [Unborn EXCEPT !.pc = "cancelled"] \in Settings
    BY DEF LeaveRun, Settings, Ended, Unborn, Nobody
  <2> QED BY <1>1, <2>1, GotoStep
<1>3. Left(mutex', mutex, p) /\ mutex' \in Mutexes
  <2>1. mutex \in Mutexes
    BY DEF IInv, Types, Mutexes
  <2> QED BY <2>1, ReleasedAndOrphaned DEF LeaveRun, Left
<1>4. Holds'
  <2>1. p \notin InCharge'
    BY <1>2 DEF InCharge
  <2> QED BY <1>2, <1>3, <2>1, LeavingStep
<1>5. Watched'
  BY <1>1, <1>2, UnwatchedStep DEF LeaveRun
<1>6. Others
  BY FaultCounts DEF LeaveRun, Others, IInv, Types, used, Counted
<1> QED BY <1>2, <1>3, <1>4, <1>5, <1>6, Together

LEMMA StepReleaseLock ==
  ASSUME IInv, NEW p \in Procs, ReleaseLock(p)
  PROVE  IInv'
<1>1. proc[p].pc \in {"release"}
  BY DEF ReleaseLock, At
<1>2. /\ Only(p) /\ Numbered' /\ proc' \in [Procs -> Settings]
      /\ proc'[p].pc = "quit"
  <2>1. Goto(p, "quit") /\ [Unborn EXCEPT !.pc = "quit"] \in Settings
    BY DEF ReleaseLock, Settings, Ended, Unborn, Nobody
  <2> QED BY <1>1, <2>1, GotoStep
<1>3. Left(mutex', mutex, p) /\ mutex' \in Mutexes
  <2>1. mutex \in Mutexes
    BY DEF IInv, Types, Mutexes
  <2> QED BY <2>1, ReleasedMutex DEF ReleaseLock, Left
<1>4. Holds'
  <2>1. p \notin InCharge'
    BY <1>2 DEF InCharge
  <2> QED BY <1>2, <1>3, <2>1, LeavingStep
<1>5. Watched'
  BY <1>1, <1>2, UnwatchedStep DEF ReleaseLock
<1>6. Others
  BY FaultCounts DEF ReleaseLock, Others, IInv, Types, used, Counted
<1> QED BY <1>2, <1>3, <1>4, <1>5, <1>6, Together

LEMMA StepQuit ==
  ASSUME IInv, NEW p \in Procs, Quit(p)
  PROVE  IInv'
<1>1. proc[p].pc \in {"quit"}
  BY DEF Quit, At
<1>2. /\ Only(p) /\ Numbered' /\ proc' \in [Procs -> Settings]
      /\ proc'[p].pc = "exited"
  <2>1. Goto(p, "exited") /\ [Unborn EXCEPT !.pc = "exited"] \in Settings
    BY DEF Quit, Settings, Ended, Unborn, Nobody
  <2> QED BY <1>1, <2>1, GotoStep
<1>3. Left(mutex', mutex, p) /\ mutex' \in Mutexes
  <2>1. mutex \in Mutexes
    BY DEF IInv, Types, Mutexes
  <2> QED BY <2>1, OrphanedMutex DEF Quit, Left
<1>4. Holds'
  <2>1. p \notin InCharge'
    BY <1>2 DEF InCharge
  <2> QED BY <1>2, <1>3, <2>1, LeavingStep
<1>5. Watched'
  BY <1>1, <1>2, UnwatchedStep DEF Quit
<1>6. Others
  BY FaultCounts DEF Quit, Others, IInv, Types, used, Counted
<1> QED BY <1>2, <1>3, <1>4, <1>5, <1>6, Together

LEMMA StepTclFails ==
  ASSUME IInv, NEW p \in Procs, TclFails(p)
  PROVE  IInv'
<1>1. proc[p].pc \in {"init"}
  BY DEF TclFails, At
<1>2. /\ Only(p) /\ Numbered' /\ proc' \in [Procs -> Settings]
      /\ proc'[p].pc = "relaunch"
  <2>1. Goto(p, "relaunch") /\ [Unborn EXCEPT !.pc = "relaunch"] \in Settings
    BY DEF TclFails, Settings, Ended, Unborn, Nobody
  <2> QED BY <1>1, <2>1, GotoStep
<1>3. Left(mutex', mutex, p) /\ mutex' \in Mutexes
  <2>1. mutex \in Mutexes
    BY DEF IInv, Types, Mutexes
  <2> QED BY <2>1, ReleasedMutex DEF TclFails, Left
<1>4. Holds'
  <2>1. p \notin InCharge'
    BY <1>2 DEF InCharge
  <2> QED BY <1>2, <1>3, <2>1, LeavingStep
<1>5. Watched'
  BY <1>1, <1>2, UnwatchedStep DEF TclFails
<1>6. Others
  BY BoundsAssumption DEF TclFails, Others, IInv, Types, used, Counted
<1> QED BY <1>2, <1>3, <1>4, <1>5, <1>6, Together

LEMMA StepRelaunchCompatible ==
  ASSUME IInv, NEW p \in Procs, RelaunchCompatible(p)
  PROVE  IInv'
<1>1. proc[p].pc \in {"relaunch"}
  BY DEF RelaunchCompatible, At
<1>2. /\ Only(p) /\ Numbered' /\ proc' \in [Procs -> Settings]
      /\ proc'[p].pc = "handed"
  <2> DEFINE s == [proc[p] EXCEPT !.compat = TRUE, !.parent = Nobody]
  <2>1. s \in Settings
    <3>1. proc[p] \in Settings
      BY DEF IInv, Types
    <3> QED BY <3>1 DEF Settings
  <2>2. proc' = Starting(s, p, "handed")
    BY DEF RelaunchCompatible
  <2>3. [Unborn EXCEPT !.pc = "handed"] \in Settings
    BY DEF Settings, Ended, Unborn, Nobody
  <2> HIDE DEF s
  <2> QED BY <1>1, <2>1, <2>2, <2>3, HandingStep
<1>3. Left(mutex', mutex, p) /\ mutex' \in Mutexes
  <2>1. mutex \in Mutexes
    BY DEF IInv, Types, Mutexes
  <2> QED BY <2>1, OrphanedMutex DEF RelaunchCompatible, Left
<1>4. Holds'
  <2>1. p \notin InCharge'
    BY <1>2 DEF InCharge
  <2> QED BY <1>2, <1>3, <2>1, LeavingStep
<1>5. Watched'
  BY <1>1, <1>2, UnwatchedStep DEF RelaunchCompatible
<1>6. Others
  BY FaultCounts DEF RelaunchCompatible, Others, IInv, Types, used, Counted
<1> QED BY <1>2, <1>3, <1>4, <1>5, <1>6, Together

\* A process may be killed wherever it is; its watchdog may go on polling.
LEMMA StepKill ==
  ASSUME IInv, NEW p \in Procs, Kill(p)
  PROVE  IInv'
<1>1. proc[p].pc # "unborn" /\ proc[p].pc \notin Ended
  BY DEF Kill, Alive, Born
<1>2. /\ Only(p) /\ Numbered' /\ proc' \in [Procs -> Settings]
      /\ proc'[p].pc = "killed"
  <2>1. Goto(p, "killed") /\ [Unborn EXCEPT !.pc = "killed"] \in Settings
    BY DEF Kill, Settings, Ended, Unborn, Nobody
  <2> QED BY <1>1, <2>1, GotoStep DEF Ended
<1>3. Left(mutex', mutex, p) /\ mutex' \in Mutexes
  <2>1. mutex \in Mutexes
    BY DEF IInv, Types, Mutexes
  <2> QED BY <2>1, OrphanedMutex DEF Kill, Left
<1>4. Holds'
  <2>1. p \notin InCharge'
    BY <1>2 DEF InCharge
  <2> QED BY <1>2, <1>3, <2>1, LeavingStep
<1>5. Watched'
  BY <1>2 DEF Kill, IInv, Watched, Only
<1>6. Others
  BY FaultCounts DEF Kill, Others, IInv, Types, used, Counted
<1> QED BY <1>2, <1>3, <1>4, <1>5, <1>6, Together

LEMMA StepAlreadyElevated ==
  ASSUME IInv, NEW p \in Procs, AlreadyElevated(p)
  PROVE  IInv'
<1>1. proc[p].pc \in {"elevate"} /\ mutex' = mutex
  BY DEF AlreadyElevated, At
<1>2. /\ Only(p) /\ Numbered' /\ proc' \in [Procs -> Settings]
      /\ proc'[p].pc \in {"clear"} /\ proc'[p].took = proc[p].took
  <2>1. \E pc2 \in {"clear"} : Goto(p, pc2)
    BY DEF AlreadyElevated
  <2>2. PICK pc2 \in {"clear"} : Goto(p, pc2)
    BY <2>1
  <2>3. pc2 # "unborn" /\ [Unborn EXCEPT !.pc = pc2] \in Settings
    BY DEF Settings, Ended, Unborn, Nobody
  <2> QED BY <1>1, <2>2, <2>3, GotoStep
<1>3. Holds'
  <2>1. p \in InCharge /\ p \in InCharge'
    BY <1>1, <1>2 DEF InCharge
  <2> QED BY <1>1, <1>2, <2>1, StayingStep
<1>4. Watched'
  BY <1>1, <1>2, UnwatchedStep DEF AlreadyElevated
<1>5. Others
  BY FaultCounts DEF AlreadyElevated, Others, IInv, Types, used, Counted
<1>6. mutex' \in Mutexes
  BY <1>1 DEF IInv, Types, Mutexes
<1> QED BY <1>2, <1>3, <1>4, <1>5, <1>6, Together

LEMMA StepElevate ==
  ASSUME IInv, NEW p \in Procs, Elevate(p)
  PROVE  IInv'
<1>1. proc[p].pc \in {"elevate"} /\ mutex' = mutex
  BY DEF Elevate, At
<1>2. /\ Only(p) /\ Numbered' /\ proc' \in [Procs -> Settings]
      /\ proc'[p].pc \in {"handover"} /\ proc'[p].took = proc[p].took
  <2> DEFINE s == [proc[p] EXCEPT !.admin = TRUE, !.parent = p]
  <2>1. s \in Settings
    <3>1. proc[p] \in Settings
      BY DEF IInv, Types
    <3> QED BY <3>1 DEF Settings
  <2>2. proc' = Starting(s, p, "handover")
    BY DEF Elevate
  <2>3. [Unborn EXCEPT !.pc = "handover"] \in Settings
    BY DEF Settings, Unborn, Nobody
  <2> HIDE DEF s
  <2> QED BY <1>1, <2>1, <2>2, <2>3, HandingStep
<1>3. Holds'
  <2>1. p \in InCharge /\ p \in InCharge'
    BY <1>1, <1>2 DEF InCharge
  <2> QED BY <1>1, <1>2, <2>1, StayingStep
<1>4. Watched'
  BY <1>1, <1>2, UnwatchedStep DEF Elevate
<1>5. Others
  BY BoundsAssumption DEF Elevate, Others, IInv, Types, used, Counted
<1>6. mutex' \in Mutexes
  BY <1>1 DEF IInv, Types, Mutexes
<1> QED BY <1>2, <1>3, <1>4, <1>5, <1>6, Together

LEMMA StepClearMarker ==
  ASSUME IInv, NEW p \in Procs, ClearMarker(p)
  PROVE  IInv'
<1>1. proc[p].pc \in {"clear"} /\ mutex' = mutex
  BY DEF ClearMarker, At
<1>2. /\ Only(p) /\ Numbered' /\ proc' \in [Procs -> Settings]
      /\ proc'[p].pc \in {"init"} /\ proc'[p].took = proc[p].took
  <2>1. \E pc2 \in {"init"} : Goto(p, pc2)
    BY DEF ClearMarker
  <2>2. PICK pc2 \in {"init"} : Goto(p, pc2)
    BY <2>1
  <2>3. pc2 # "unborn" /\ [Unborn EXCEPT !.pc = pc2] \in Settings
    BY DEF Settings, Ended, Unborn, Nobody
  <2> QED BY <1>1, <2>2, <2>3, GotoStep
<1>3. Holds'
  <2>1. p \in InCharge /\ p \in InCharge'
    BY <1>1, <1>2 DEF InCharge
  <2> QED BY <1>1, <1>2, <2>1, StayingStep
<1>4. Watched'
  BY <1>1, <1>2, UnwatchedStep DEF ClearMarker
<1>5. Others
  BY FaultCounts DEF ClearMarker, Others, IInv, Types, used, Counted
<1>6. mutex' \in Mutexes
  BY <1>1 DEF IInv, Types, Mutexes
<1> QED BY <1>2, <1>3, <1>4, <1>5, <1>6, Together

LEMMA StepConstruct ==
  ASSUME IInv, NEW p \in Procs, Construct(p)
  PROVE  IInv'
<1>1. proc[p].pc \in {"init"} /\ mutex' = mutex
  BY DEF Construct, At
<1>2. /\ Only(p) /\ Numbered' /\ proc' \in [Procs -> Settings]
      /\ proc'[p].pc \in {"earlyDashboard", "checked"} /\ proc'[p].took = proc[p].took
  <2>1. \E pc2 \in {"earlyDashboard", "checked"} : Goto(p, pc2)
    BY DEF Construct
  <2>2. PICK pc2 \in {"earlyDashboard", "checked"} : Goto(p, pc2)
    BY <2>1
  <2>3. pc2 # "unborn" /\ [Unborn EXCEPT !.pc = pc2] \in Settings
    BY DEF Settings, Ended, Unborn, Nobody
  <2> QED BY <1>1, <2>2, <2>3, GotoStep
<1>3. Holds'
  <2>1. p \in InCharge /\ p \in InCharge'
    BY <1>1, <1>2 DEF InCharge
  <2> QED BY <1>1, <1>2, <2>1, StayingStep
<1>4. Watched'
  BY <1>1, <1>2, UnwatchedStep DEF Construct
<1>5. Others
  BY FaultCounts DEF Construct, Others, IInv, Types, used, Counted
<1>6. mutex' \in Mutexes
  BY <1>1 DEF IInv, Types, Mutexes
<1> QED BY <1>2, <1>3, <1>4, <1>5, <1>6, Together

LEMMA StepLeaveEarlyDashboard ==
  ASSUME IInv, NEW p \in Procs, LeaveEarlyDashboard(p)
  PROVE  IInv'
<1>1. proc[p].pc \in {"earlyDashboard"} /\ mutex' = mutex
  BY DEF LeaveEarlyDashboard, At
<1>2. /\ Only(p) /\ Numbered' /\ proc' \in [Procs -> Settings]
      /\ proc'[p].pc \in {"checked"} /\ proc'[p].took = proc[p].took
  <2>1. \E pc2 \in {"checked"} : Goto(p, pc2)
    BY DEF LeaveEarlyDashboard
  <2>2. PICK pc2 \in {"checked"} : Goto(p, pc2)
    BY <2>1
  <2>3. pc2 # "unborn" /\ [Unborn EXCEPT !.pc = pc2] \in Settings
    BY DEF Settings, Ended, Unborn, Nobody
  <2> QED BY <1>1, <2>2, <2>3, GotoStep
<1>3. Holds'
  <2>1. p \in InCharge /\ p \in InCharge'
    BY <1>1, <1>2 DEF InCharge
  <2> QED BY <1>1, <1>2, <2>1, StayingStep
<1>4. Watched'
  BY <1>1, <1>2, UnwatchedStep DEF LeaveEarlyDashboard
<1>5. Others
  BY FaultCounts DEF LeaveEarlyDashboard, Others, IInv, Types, used, Counted
<1>6. mutex' \in Mutexes
  BY <1>1 DEF IInv, Types, Mutexes
<1> QED BY <1>2, <1>3, <1>4, <1>5, <1>6, Together

LEMMA StepRun ==
  ASSUME IInv, NEW p \in Procs, Run(p)
  PROVE  IInv'
<1>1. proc[p].pc \in {"checked"} /\ mutex' = mutex
  BY DEF Run, At
<1>2. /\ Only(p) /\ Numbered' /\ proc' \in [Procs -> Settings]
      /\ proc'[p].pc \in {"spawn", "login", "errorBox"} /\ proc'[p].took = proc[p].took
  <2>1. \E pc2 \in {"spawn", "login", "errorBox"} : Goto(p, pc2)
    BY DEF Run
  <2>2. PICK pc2 \in {"spawn", "login", "errorBox"} : Goto(p, pc2)
    BY <2>1
  <2>3. pc2 # "unborn" /\ [Unborn EXCEPT !.pc = pc2] \in Settings
    BY DEF Settings, Ended, Unborn, Nobody
  <2> QED BY <1>1, <2>2, <2>3, GotoStep
<1>3. Holds'
  <2>1. p \in InCharge /\ p \in InCharge'
    BY <1>1, <1>2 DEF InCharge
  <2> QED BY <1>1, <1>2, <2>1, StayingStep
<1>4. Watched'
  BY <1>1, <1>2, UnwatchedStep DEF Run
<1>5. Others
  BY FaultCounts DEF Run, Others, IInv, Types, used, Counted
<1>6. mutex' \in Mutexes
  BY <1>1 DEF IInv, Types, Mutexes
<1> QED BY <1>2, <1>3, <1>4, <1>5, <1>6, Together

LEMMA StepLogin ==
  ASSUME IInv, NEW p \in Procs, Login(p)
  PROVE  IInv'
<1>1. proc[p].pc \in {"login"} /\ mutex' = mutex
  BY DEF Login, At
<1>2. /\ Only(p) /\ Numbered' /\ proc' \in [Procs -> Settings]
      /\ proc'[p].pc \in {"spawn"} /\ proc'[p].took = proc[p].took
  <2>1. \E pc2 \in {"spawn"} : Goto(p, pc2)
    BY DEF Login
  <2>2. PICK pc2 \in {"spawn"} : Goto(p, pc2)
    BY <2>1
  <2>3. pc2 # "unborn" /\ [Unborn EXCEPT !.pc = pc2] \in Settings
    BY DEF Settings, Ended, Unborn, Nobody
  <2> QED BY <1>1, <2>2, <2>3, GotoStep
<1>3. Holds'
  <2>1. p \in InCharge /\ p \in InCharge'
    BY <1>1, <1>2 DEF InCharge
  <2> QED BY <1>1, <1>2, <2>1, StayingStep
<1>4. Watched'
  BY <1>1, <1>2, UnwatchedStep DEF Login
<1>5. Others
  BY FaultCounts DEF Login, Others, IInv, Types, used, Counted
<1>6. mutex' \in Mutexes
  BY <1>1 DEF IInv, Types, Mutexes
<1> QED BY <1>2, <1>3, <1>4, <1>5, <1>6, Together

LEMMA StepSpawnWatchdog ==
  ASSUME IInv, NEW p \in Procs, SpawnWatchdog(p)
  PROVE  IInv'
<1>1. proc[p].pc \in {"spawn"} /\ mutex' = mutex
  BY DEF SpawnWatchdog, At
<1>2. /\ Only(p) /\ Numbered' /\ proc' \in [Procs -> Settings]
      /\ proc'[p].pc \in {"run"} /\ proc'[p].took = proc[p].took
  <2>1. \E pc2 \in {"run"} : Goto(p, pc2)
    BY DEF SpawnWatchdog
  <2>2. PICK pc2 \in {"run"} : Goto(p, pc2)
    BY <2>1
  <2>3. pc2 # "unborn" /\ [Unborn EXCEPT !.pc = pc2] \in Settings
    BY DEF Settings, Ended, Unborn, Nobody
  <2> QED BY <1>1, <2>2, <2>3, GotoStep
<1>3. Holds'
  <2>1. p \in InCharge /\ p \in InCharge'
    BY <1>1, <1>2 DEF InCharge
  <2> QED BY <1>1, <1>2, <2>1, StayingStep
<1>4. Watched'
  BY <1>1, <1>2 DEF SpawnWatchdog, IInv, Types, Watched, Only
<1>5. Others
  BY FaultCounts DEF SpawnWatchdog, Others, IInv, Types, used, Counted
<1>6. mutex' \in Mutexes
  BY <1>1 DEF IInv, Types, Mutexes
<1> QED BY <1>2, <1>3, <1>4, <1>5, <1>6, Together

LEMMA StepMarkExit ==
  ASSUME IInv, NEW p \in Procs, MarkExit(p)
  PROVE  IInv'
<1>1. proc[p].pc \in {"run"} /\ mutex' = mutex
  BY DEF MarkExit, At
<1>2. /\ Only(p) /\ Numbered' /\ proc' \in [Procs -> Settings]
      /\ proc'[p].pc \in {"stop", "stopUnmarked"} /\ proc'[p].took = proc[p].took
  <2>1. \E pc2 \in {"stop", "stopUnmarked"} : Goto(p, pc2)
    BY DEF MarkExit
  <2>2. PICK pc2 \in {"stop", "stopUnmarked"} : Goto(p, pc2)
    BY <2>1
  <2>3. pc2 # "unborn" /\ [Unborn EXCEPT !.pc = pc2] \in Settings
    BY DEF Settings, Ended, Unborn, Nobody
  <2> QED BY <1>1, <2>2, <2>3, GotoStep
<1>3. Holds'
  <2>1. p \in InCharge /\ p \in InCharge'
    BY <1>1, <1>2 DEF InCharge
  <2> QED BY <1>1, <1>2, <2>1, StayingStep
<1>4. Watched'
  BY <1>1, <1>2, UnwatchedStep DEF MarkExit
<1>5. Others
  BY FaultCounts DEF MarkExit, Others, IInv, Types, used, Counted
<1>6. mutex' \in Mutexes
  BY <1>1 DEF IInv, Types, Mutexes
<1> QED BY <1>2, <1>3, <1>4, <1>5, <1>6, Together

\* After this step the watchdog no longer polls, whether it has been stopped or not.
LEMMA StepStopWatchdog ==
  ASSUME IInv, NEW p \in Procs, StopWatchdog(p)
  PROVE  IInv'
<1>1. proc[p].pc \in {"stop", "stopUnmarked"} /\ mutex' = mutex
  BY DEF StopWatchdog, At, Stopping
<1>2. /\ Only(p) /\ Numbered' /\ proc' \in [Procs -> Settings]
      /\ proc'[p].pc \in {"release"} /\ proc'[p].took = proc[p].took
  <2>1. \E pc2 \in {"release"} : Goto(p, pc2)
    BY DEF StopWatchdog
  <2>2. PICK pc2 \in {"release"} : Goto(p, pc2)
    BY <2>1
  <2>3. pc2 # "unborn" /\ [Unborn EXCEPT !.pc = pc2] \in Settings
    BY DEF Settings, Ended, Unborn, Nobody
  <2> QED BY <1>1, <2>2, <2>3, GotoStep
<1>3. Holds'
  <2>1. p \in InCharge /\ p \in InCharge'
    BY <1>1, <1>2 DEF InCharge
  <2> QED BY <1>1, <1>2, <2>1, StayingStep
<1>4. Watched'
  BY <1>1, <1>2 DEF StopWatchdog, IInv, Types, Watched, Only
<1>5. Others
  BY FaultCounts DEF StopWatchdog, Others, IInv, Types, used, Counted
<1>6. mutex' \in Mutexes
  BY <1>1 DEF IInv, Types, Mutexes
<1> QED BY <1>2, <1>3, <1>4, <1>5, <1>6, Together

\* Nor does it when the exit is given up because the watchdog outlasts both waits.
LEMMA StepStopWatchdogRaises ==
  ASSUME IInv, NEW p \in Procs, StopWatchdogRaises(p)
  PROVE  IInv'
<1>1. proc[p].pc \in {"stop", "stopUnmarked"} /\ mutex' = mutex
  BY DEF StopWatchdogRaises, At, Stopping
<1>2. /\ Only(p) /\ Numbered' /\ proc' \in [Procs -> Settings]
      /\ proc'[p].pc \in {"deaf"} /\ proc'[p].took = proc[p].took
  <2>1. \E pc2 \in {"deaf"} : Goto(p, pc2)
    BY DEF StopWatchdogRaises
  <2>2. PICK pc2 \in {"deaf"} : Goto(p, pc2)
    BY <2>1
  <2>3. pc2 # "unborn" /\ [Unborn EXCEPT !.pc = pc2] \in Settings
    BY DEF Settings, Ended, Unborn, Nobody
  <2> QED BY <1>1, <2>2, <2>3, GotoStep
<1>3. Holds'
  <2>1. p \in InCharge /\ p \in InCharge'
    BY <1>1, <1>2 DEF InCharge
  <2> QED BY <1>1, <1>2, <2>1, StayingStep
<1>4. Watched'
  BY <1>1, <1>2 DEF StopWatchdogRaises, IInv, Types, Watched, Only
<1>5. Others
  BY FaultCounts DEF StopWatchdogRaises, Others, IInv, Types, used, Counted
<1>6. mutex' \in Mutexes
  BY <1>1 DEF IInv, Types, Mutexes
<1> QED BY <1>2, <1>3, <1>4, <1>5, <1>6, Together

\* A start that creates the mutex owns it; it could because no instance had a handle.
LEMMA StepCreateMutex ==
  ASSUME IInv, NEW p \in Procs, CreateMutex(p)
  PROVE  IInv'
<1> DEFINE r == [proc[p] EXCEPT
                   !.pc = IF mutex.handles = {} THEN "elevate" ELSE "wait",
                   !.took = IF mutex.handles = {} THEN "created" ELSE @]
<1>1. proc[p].pc = "create" /\ proc[p] \in Settings
  BY DEF CreateMutex, At, IInv, Types
<1>2. /\ r \in Settings /\ r.pc = IF mutex.handles = {} THEN "elevate" ELSE "wait"
      /\ r.took = IF mutex.handles = {} THEN "created" ELSE proc[p].took
  BY <1>1 DEF Settings
<1>3. proc' = [proc EXCEPT ![p] = r] /\ watchdog' = watchdog /\ mutex' = Opened(mutex, p)
  BY DEF CreateMutex
<1> HIDE DEF r
<1>4. Only(p) /\ Numbered' /\ proc'[p] = r /\ proc' \in [Procs -> Settings]
  BY <1>1, <1>2, <1>3, GoingStep
<1>5. /\ mutex' \in Mutexes /\ mutex'.handles = mutex.handles \union {p}
      /\ mutex'.owner = IF mutex.handles = {} THEN p ELSE mutex.owner
  BY <1>3 DEF Opened, Mutexes, IInv, Types
<1>6. Holds'
  <2>1. p \notin InCharge
    BY <1>1 DEF InCharge
  <2>2. CASE mutex.handles = {}
    BY <1>1, <1>2, <1>4, <1>5, <2>1, <2>2, OpeningStep
  <2>3. CASE mutex.handles # {}
    BY <1>1, <1>2, <1>4, <1>5, <2>1, <2>3, OpeningStep
  <2> QED BY <2>2, <2>3
<1>7. Watched'
  BY <1>1, <1>3, <1>4, UnwatchedStep
<1>8. Others
  BY FaultCounts DEF CreateMutex, Others, IInv, Types, used, Counted
<1> QED BY <1>4, <1>5, <1>6, <1>7, <1>8, Together

LEMMA StepCreateMutexFails ==
  ASSUME IInv, NEW p \in Procs, CreateMutexFails(p)
  PROVE  IInv'
<1> DEFINE r == [proc[p] EXCEPT !.pc = "elevate", !.took = "unguarded"]
<1>1. proc[p].pc = "create" /\ proc[p] \in Settings
  BY DEF CreateMutexFails, At, IInv, Types
<1>2. r \in Settings /\ r.pc = "elevate" /\ r.took = "unguarded"
  BY <1>1 DEF Settings
<1>3. proc' = [proc EXCEPT ![p] = r] /\ watchdog' = watchdog /\ mutex' = mutex
  BY DEF CreateMutexFails
<1> HIDE DEF r
<1>4. Only(p) /\ Numbered' /\ proc'[p] = r /\ proc' \in [Procs -> Settings]
  BY <1>1, <1>2, <1>3, GoingStep
<1>5. mutex' \in Mutexes
  BY <1>3 DEF Mutexes, IInv, Types
<1>6. Holds'
  <2>1. InCharge' = InCharge \union {p} /\ p \notin InCharge
    BY <1>1, <1>2, <1>4 DEF Only, InCharge
  <2>2. ASSUME NEW q \in InCharge, q # p PROVE proc'[q] = proc[q]
    BY <2>2, <1>4 DEF Only, InCharge
  <2>3. \A q \in Procs : At(q, "wait") \/ At(q, "notify") \/ At(q, "recreate") =>
          q # p /\ proc'[q] = proc[q]
    BY <1>1, <1>4 DEF Only, At
  <2>4. mutex.handles \subseteq Procs /\ mutex.owner \in Procs \union {Nobody}
    BY DEF IInv, Types
  <2>5. HandlesHeld'
    BY <1>3, <2>1, <2>3, <2>4 DEF IInv, HandlesHeld, At
  <2>6. OwnerKnown'
    BY <1>3, <2>3, <2>4 DEF IInv, OwnerKnown, At
  <2>7. CreatorsOwn'
    BY <1>2, <1>3, <1>4, <2>1, <2>2 DEF IInv, CreatorsOwn
  <2> QED BY <2>5, <2>6, <2>7 DEF Holds
<1>7. Watched'
  BY <1>1, <1>3, <1>4, UnwatchedStep
<1>8. Others
  BY FaultCounts DEF CreateMutexFails, Others, IInv, Types, used, Counted
<1> QED BY <1>4, <1>5, <1>6, <1>7, <1>8, Together

\* The second attempt: if the mutex exists, a third start has created it, and owns it.
LEMMA StepRecreateMutex ==
  ASSUME IInv, NEW p \in Procs, RecreateMutex(p)
  PROVE  IInv'
<1> DEFINE r == [proc[p] EXCEPT
                   !.pc = "elevate",
                   !.took = IF mutex.handles = {} THEN "created" ELSE "abandoned"]
<1>1. proc[p].pc = "recreate" /\ proc[p] \in Settings
  BY DEF RecreateMutex, At, IInv, Types
<1>2. /\ r \in Settings /\ r.pc = "elevate"
      /\ r.took = IF mutex.handles = {} THEN "created" ELSE "abandoned"
  BY <1>1 DEF Settings
<1>3. proc' = [proc EXCEPT ![p] = r] /\ watchdog' = watchdog /\ mutex' = Opened(mutex, p)
  BY DEF RecreateMutex
<1> HIDE DEF r
<1>4. Only(p) /\ Numbered' /\ proc'[p] = r /\ proc' \in [Procs -> Settings]
  BY <1>1, <1>2, <1>3, GoingStep
<1>5. /\ mutex' \in Mutexes /\ mutex'.handles = mutex.handles \union {p}
      /\ mutex'.owner = IF mutex.handles = {} THEN p ELSE mutex.owner
  BY <1>3 DEF Opened, Mutexes, IInv, Types
<1>6. Holds'
  <2>1. p \notin InCharge
    BY <1>1 DEF InCharge
  <2>2. CASE mutex.handles = {}
    BY <1>1, <1>2, <1>4, <1>5, <2>1, <2>2, OpeningStep
  <2>3. CASE mutex.handles # {}
    BY <1>1, <1>2, <1>4, <1>5, <2>1, <2>3, OpeningStep
  <2> QED BY <2>2, <2>3
<1>7. Watched'
  BY <1>1, <1>3, <1>4, UnwatchedStep
<1>8. Others
  BY FaultCounts DEF RecreateMutex, Others, IInv, Types, used, Counted
<1> QED BY <1>4, <1>5, <1>6, <1>7, <1>8, Together

\* The wait on the mutex of another: its handle is closed, though it may own the mutex now.
LEMMA StepWaitMutex ==
  ASSUME IInv, NEW p \in Procs, WaitMutex(p)
  PROVE  IInv'
<1> DEFINE r == [proc[p] EXCEPT
             !.pc = IF mutex.owner = Nobody /\ mutex.abandoned THEN "recreate" ELSE "notify",
             !.took = IF mutex.owner = Nobody /\ ~mutex.abandoned THEN "returned" ELSE @]
           owned == IF mutex.owner = Nobody
                    THEN [mutex EXCEPT !.owner = p, !.abandoned = FALSE] ELSE mutex
<1>1. proc[p].pc = "wait" /\ mutex \in Mutexes /\ proc[p] \in Settings
  BY DEF WaitMutex, At, IInv, Types, Mutexes
<1>2. proc' = [proc EXCEPT ![p] = r] /\ mutex' = Closed(owned, p) /\ watchdog' = watchdog
  BY DEF WaitMutex
<1>3. r \in Settings /\ r.pc \in {"notify", "recreate"}
  BY <1>1 DEF Settings
<1>4. /\ owned \in Mutexes /\ owned.handles = mutex.handles
      /\ owned.owner = IF mutex.owner = Nobody THEN p ELSE mutex.owner
  BY <1>1 DEF Mutexes
<1> HIDE DEF r, owned
<1>5. Only(p) /\ Numbered' /\ proc' \in [Procs -> Settings] /\ proc'[p].pc \in {"notify", "recreate"}
  BY <1>1, <1>2, <1>3, GoingStep
<1>6. /\ mutex' \in Mutexes /\ mutex'.handles = mutex.handles \ {p}
      /\ mutex'.owner = IF mutex.handles \ {p} = {} THEN Nobody ELSE owned.owner
  BY <1>2, <1>4, ClosedMutex
<1>7. Holds'
  <2>1. InCharge' = InCharge /\ p \notin InCharge
    BY <1>1, <1>5 DEF Only, InCharge
  <2>2. ASSUME NEW q \in InCharge PROVE proc'[q] = proc[q]
    BY <2>1, <1>5 DEF Only, InCharge
  <2>3. \A q \in Procs \ {p} : At(q, "wait") \/ At(q, "notify") \/ At(q, "recreate") =>
          proc'[q] = proc[q]
    BY <1>5 DEF Only, At
  <2>4. mutex.handles \subseteq Procs /\ mutex.owner \in Procs \union {Nobody}
    BY DEF IInv, Types
  <2>5. HandlesHeld'
    BY <1>6, <2>1, <2>3, <2>4 DEF IInv, HandlesHeld, At
  <2>6. OwnerKnown'
    BY <1>1, <1>4, <1>5, <1>6, <2>3, <2>4, NobodyIsNone DEF IInv, OwnerKnown, At
  <2>7. CreatorsOwn'
    BY <1>4, <1>6, <2>1, <2>2, NobodyIsNone DEF IInv, CreatorsOwn, InCharge
  <2> QED BY <2>5, <2>6, <2>7 DEF Holds
<1>8. Watched'
  BY <1>1, <1>2, <1>5, UnwatchedStep
<1>9. Others
  BY FaultCounts DEF WaitMutex, Others, IInv, Types, used, Counted
<1> QED BY <1>5, <1>6, <1>7, <1>8, <1>9, Together

\* Requests, the watchdogs and new starts do not touch the mutex.
LEMMA StepServeRequest ==
  ASSUME IInv, NEW p \in Procs, ServeRequest(p)
  PROVE  IInv'
<1>1. Calm /\ mutex' = mutex /\ watchdog' = watchdog
  BY DEF ServeRequest, Calm, IInv, Types
<1>2. Numbered' /\ Watched' /\ mutex' \in Mutexes
  BY <1>1 DEF ServeRequest, IInv, Types, Numbered, Born, Watched, Mutexes
<1>3. Others
  BY FaultCounts DEF ServeRequest, Others, IInv, Types, used, Counted
<1> QED BY <1>1, <1>2, <1>3, CalmStep, Together DEF Calm

LEMMA StepKillWatchdog ==
  ASSUME IInv, NEW p \in Procs, KillWatchdog(p)
  PROVE  IInv'
<1>1. Calm /\ mutex' = mutex
  BY DEF KillWatchdog, Calm, IInv, Types
<1>2. Numbered' /\ Watched' /\ mutex' \in Mutexes
  BY <1>1 DEF KillWatchdog, IInv, Types, Numbered, Born, Watched, Mutexes
<1>3. Others
  BY FaultCounts DEF KillWatchdog, Others, IInv, Types, used, Counted
<1> QED BY <1>1, <1>2, <1>3, CalmStep, Together DEF Calm

LEMMA StepWatchdogFindsEnd ==
  ASSUME IInv, NEW p \in Procs, WatchdogFindsEnd(p)
  PROVE  IInv'
<1>1. Calm /\ mutex' = mutex
  BY DEF WatchdogFindsEnd, Calm, IInv, Types
<1>2. Numbered' /\ Watched' /\ mutex' \in Mutexes
  BY <1>1 DEF WatchdogFindsEnd, IInv, Types, Numbered, Born, Watched, Mutexes
<1>3. Others
  BY FaultCounts DEF WatchdogFindsEnd, Others, IInv, Types, used, Counted
<1> QED BY <1>1, <1>2, <1>3, CalmStep, Together DEF Calm

LEMMA StepWatchdogRelaunches ==
  ASSUME IInv, NEW p \in Procs, WatchdogRelaunches(p)
  PROVE  IInv'
<1> DEFINE s == [proc[p] EXCEPT !.parent = Nobody]
<1>1. s \in Settings
  <2>1. proc[p] \in Settings
    BY DEF IInv, Types
  <2> QED BY <2>1 DEF Settings
<1>2. proc' = Starting(s, Nobody, "none") \/ proc' = proc
  BY DEF WatchdogRelaunches
<1>3. mutex' = mutex /\ mutex' \in Mutexes /\ watchdog' \in {[watchdog EXCEPT ![p] = w] : w \in {"gone", "failed"}}
  BY DEF WatchdogRelaunches, IInv, Types, Mutexes
<1> HIDE DEF s
<1>4. Calm /\ Numbered'
  <2>1. CASE proc' = proc
    BY <2>1 DEF Calm, IInv, Types, Numbered, Born
  <2> QED BY <1>1, <1>2, <2>1, BirthStep
<1>5. Watched'
  BY <1>3, <1>4 DEF Calm, IInv, Types, Watched
<1>6. Others
  BY <1>3, FaultCounts DEF WatchdogRelaunches, Others, IInv, Types, used, Counted
<1> QED BY <1>3, <1>4, <1>5, <1>6, CalmStep, Together DEF Calm

LEMMA StepStart ==
  ASSUME IInv, Start
  PROVE  IInv'
<1>1. PICK admin, background \in BOOLEAN :
        proc' = Starting([Unborn EXCEPT !.admin = admin, !.background = background], Nobody, "none")
  BY DEF Start
<1> DEFINE s == [Unborn EXCEPT !.admin = admin, !.background = background]
<1>2. s \in Settings
  BY DEF Settings, Unborn, Nobody
<1> HIDE DEF s
<1>3. Calm /\ Numbered'
  <2>1. proc' = Starting(s, Nobody, "none")
    BY <1>1 DEF s
  <2> QED BY <1>2, <2>1, BirthStep
<1>4. mutex' = mutex /\ mutex' \in Mutexes /\ watchdog' = watchdog
  BY DEF Start, IInv, Types, Mutexes
<1>5. Watched'
  BY <1>3, <1>4 DEF Calm, IInv, Types, Watched
<1>6. Others
  BY BoundsAssumption DEF Start, Others, IInv, Types
<1> QED BY <1>3, <1>4, <1>5, <1>6, CalmStep, Together DEF Calm

LEMMA Inductive == IInv /\ [Next]_vars => IInv'
<1> SUFFICES ASSUME IInv, [Next]_vars PROVE IInv'
  OBVIOUS
<1>1. CASE UNCHANGED vars
  <2>1. Calm /\ mutex' = mutex
    BY <1>1 DEF vars, Calm, IInv, Types
  <2>2. Numbered' /\ Watched' /\ mutex' \in Mutexes
    BY <1>1 DEF vars, IInv, Types, Numbered, Born, Watched, Mutexes
  <2>3. Others
    BY <1>1 DEF vars, used, Others, IInv, Types
  <2> QED BY <2>1, <2>2, <2>3, CalmStep, Together DEF Calm
<1>2. CASE Start
  BY <1>2, StepStart
<1>3. ASSUME NEW p \in Procs, Step(p) PROVE IInv'
  BY <1>3, StepCreateMutex, StepCreateMutexFails, StepWaitMutex, StepRecreateMutex, StepNotify,
     StepAlreadyElevated, StepHandedOver, StepClearMarker, StepConstruct, StepTclFails,
     StepRelaunchCompatible, StepConstructFails, StepRun, StepSpawnWatchdog, StepServeRequest,
     StepStopWatchdog, StepStopWatchdogRaises, StepReleaseLock, StepQuit DEF Step, Acquire
<1>4. ASSUME NEW p \in Procs, User(p) PROVE IInv'
  BY <1>4, StepElevate, StepElevationDeclined, StepLeaveEarlyDashboard, StepLogin, StepLeaveRun,
     StepMarkExit DEF User
<1>5. ASSUME NEW p \in Procs, WatchdogStep(p) \/ Kill(p) \/ KillWatchdog(p) PROVE IInv'
  BY <1>5, StepWatchdogFindsEnd, StepWatchdogRelaunches, StepKill, StepKillWatchdog DEF WatchdogStep
<1> QED BY <1>1, <1>2, <1>3, <1>4, <1>5 DEF Next

-----------------------------------------------------------------------------
(* The theorems                                                                *)

LEMMA AlwaysIInv == Spec => []IInv
BY InitInv, Inductive, PTL DEF Spec

\* Every start, hand-over, exit, crash and restart of main.py keeps the types, and no
\* handle to the mutex outlives the instance or the waiting start that opened it.
THEOREM LifecycleTypeCorrect == Spec => []TypeOK
BY AlwaysIInv, InvImplies, PTL

\* acquire_single_instance_lock and release_single_instance_lock: of any two processes in
\* charge at the same time one went on without owning the mutex.
THEOREM AlwaysOwnersExclude == Spec => []OwnersExclude
BY AlwaysIInv, InvImplies, PTL

\* run_watchdog starts the program again only for a parent that was killed, unless
\* perform_exit had tried in vain to stop the watchdog.
THEOREM RelaunchOnlyAfterKill == Spec => RelaunchOnlyKilled
<1> DEFINE Relaunch ==
      \A p \in Procs : watchdog[p] = "polling" /\ watchdog'[p] = "relaunch" => At(p, "killed")
<1>1. IInv /\ [Next]_vars => [Relaunch]_vars
  <2> SUFFICES ASSUME IInv, [Next]_vars, NEW p \in Procs,
                      watchdog[p] = "polling", watchdog'[p] = "relaunch"
               PROVE  At(p, "killed")
    OBVIOUS
  <2>1. watchdog \in [Procs -> {"none", "polling", "survivor", "relaunch", "gone",
                                "failed", "killed"}]
    BY DEF IInv, Types
  <2>2. ~UNCHANGED watchdog
    BY <2>1
  <2>3. PICK q \in Procs : SpawnWatchdog(q) \/ StopWatchdog(q) \/ StopWatchdogRaises(q)
                           \/ KillWatchdog(q) \/ WatchdogFindsEnd(q) \/ WatchdogRelaunches(q)
    <3>1. ASSUME NEW q \in Procs, Step(q) PROVE SpawnWatchdog(q) \/ StopWatchdog(q) \/ StopWatchdogRaises(q)
      BY <3>1, <2>2 DEF Step, Acquire, CreateMutex, CreateMutexFails, WaitMutex, RecreateMutex, Notify,
         AlreadyElevated, HandedOver, ClearMarker, Construct, TclFails, RelaunchCompatible,
         ConstructFails, Run, ServeRequest, ReleaseLock, Quit
    <3>2. ASSUME NEW q \in Procs, User(q) PROVE FALSE
      BY <3>2, <2>2 DEF User, Elevate, ElevationDeclined, LeaveEarlyDashboard, Login, LeaveRun, MarkExit
    <3>3. ~Start /\ ~UNCHANGED vars /\ \A q \in Procs : ~Kill(q)
      BY <2>2 DEF Start, vars, Kill
    <3> QED BY <3>1, <3>2, <3>3 DEF Next, WatchdogStep
  <2>4. WatchdogFindsEnd(q) /\ q = p
    BY <2>1, <2>3 DEF SpawnWatchdog, StopWatchdog, StopWatchdogRaises, KillWatchdog,
       WatchdogFindsEnd, WatchdogRelaunches
  <2>5. proc[p].pc \in {"run", "stop", "stopUnmarked", "killed"} /\ p \notin Alive
    BY <2>4 DEF IInv, Watched, WatchdogFindsEnd
  <2> QED BY <2>5 DEF Alive, Born, Ended, At
<1> QED BY <1>1, AlwaysIInv, PTL DEF Spec, RelaunchOnlyKilled
=============================================================================
