------------------------ MODULE PromptSessions_proofs ------------------------
(* Theorems about the process monitor, by itself (ProcessMonitor) and together  *)
(* with the controller (PromptSessions), for any number of applications, pids   *)
(* and processes and all durations, with their proofs.                          *)
EXTENDS PromptSessions, TLAPS

-----------------------------------------------------------------------------
(* The inductive invariant of the monitor.  It does not say who is asked about, *)
(* which is what the two specifications differ in.                              *)

Types ==
  /\ proc \in [Pids -> Process \union {NoProc}]
  /\ starts \in 0..MaxStarts
  /\ db_locks \subseteq Apps /\ locked \subseteq Apps
  /\ allowed_pids \in [Pids -> 0..MaxStarts]
  /\ sessions \in [Apps -> Session \union {NoSession}]
  /\ suppressed \in [Apps -> 0..SuppressTime]
  /\ known_pids \subseteq Pids
  /\ start_time \in -1..MaxStarts
  /\ scan \in [pc : {"idle", "clear", "prune", "snapshot", "examine"},
               todo : SUBSET Pids, caught : SUBSET Handle]

\* A creation time that was seen somewhere is not that of a process still to come.
StampsPast ==
  \A pid \in Pids :
    /\ proc[pid].started <= starts
    /\ allowed_pids[pid] <= starts
    /\ \A a \in Apps : sessions[a].observed[pid] <= starts

\* Pids are examined, and instances caught, in the last phase of a scan only, and none that
\* the snapshot has not seen.
Phases ==
  /\ scan.pc # "examine" => scan.todo = {} /\ scan.caught = {}
  /\ scan.todo \subseteq known_pids
  /\ \A h \in scan.caught : h.pid \in known_pids

MInv == Types /\ StampsPast /\ Phases /\ AllowedIsObserved

\* Where creation times can be read: the process that a pid was allowed or observed with is
\* gone when the scans have seen the pid gone.  When the snapshot is taken, and for the pids
\* it finds, nothing is left of such a process.
Readable == "read" \notin Protections

Remembered(pid) == {allowed_pids[pid]} \union {sessions[a].observed[pid] : a \in Apps}

Forgotten ==
  /\ \A pid \in Pids \ known_pids :
       /\ pid \in Live => proc[pid].started \notin Remembered(pid)
       /\ scan.pc = "snapshot" => Remembered(pid) \subseteq {0}
  /\ scan.pc = "prune" => \A pid \in Pids \ known_pids : allowed_pids[pid] = 0
  /\ \A pid \in scan.todo : Remembered(pid) \subseteq {0}

-----------------------------------------------------------------------------
(* Lemmas about processes and sessions *)

LEMMA SessionFields ==
  ASSUME Types, NEW a \in Apps
  PROVE  /\ sessions[a].deadline \in -2..GraceCap /\ sessions[a].idle \in 0..IdleCap
         /\ sessions[a].observed \in [Pids -> 0..MaxStarts]
         /\ HasSession(a) <=> sessions[a] \in Session
         /\ HasSession(a) => sessions[a].deadline \in -1..GraceCap
         /\ ~HasSession(a) => /\ sessions[a].deadline = -2 /\ sessions[a].idle = IdleCap
                              /\ \A pid \in Pids : sessions[a].observed[pid] = 0
<1> USE MonitorAssumption DEF NoSession, NoPids, GraceCap, IdleCap, MaxOf
<1>1. -2 \notin -1..GraceCap
  OBVIOUS
<1>2. NoSession \notin Session
  BY <1>1 DEF Session
<1>3. /\ NoSession.deadline \in -2..GraceCap /\ NoSession.idle \in 0..IdleCap
      /\ NoSession.observed \in [Pids -> 0..MaxStarts]
  OBVIOUS
<1>4. sessions[a] \in Session \union {NoSession}
  BY DEF Types
<1>5. ASSUME sessions[a] \in Session
      PROVE  /\ sessions[a].deadline \in -1..GraceCap /\ sessions[a].idle \in 0..IdleCap
             /\ sessions[a].observed \in [Pids -> 0..MaxStarts]
  BY <1>5 DEF Session
<1>6. CASE sessions[a] \in Session
  BY <1>1, <1>2, <1>5, <1>6 DEF HasSession
<1>7. CASE sessions[a] = NoSession
  BY <1>2, <1>3, <1>7 DEF HasSession
<1> QED BY <1>4, <1>6, <1>7

LEMMA ProcessFields ==
  ASSUME Types, NEW pid \in Pids
  PROVE  /\ proc[pid].started \in 0..MaxStarts
         /\ pid \in Live <=> proc[pid].started # 0
         /\ pid \in Live => proc[pid] \in Process /\ proc[pid].app \in Apps
         /\ pid \notin Live => proc[pid] = NoProc
<1> USE MonitorAssumption
<1>1. NoProc.started = 0 /\ NoProc \notin Process
  BY DEF NoProc, Process, Stamp
<1>2. proc[pid] \in Process => proc[pid].started \in 1..MaxStarts /\ proc[pid].app \in Apps
  BY DEF Process, Stamp
<1> QED BY <1>1, <1>2 DEF Types, Live

\* Two sessions are equal when their fields are: what an EXCEPT of one is.
LEMMA SessionMade ==
  ASSUME NEW d \in -1..GraceCap, NEW i \in 0..IdleCap, NEW o \in [Pids -> 0..MaxStarts],
         NEW w \in BOOLEAN
  PROVE  [deadline |-> d, idle |-> i, observed |-> o, windowless |-> w] \in Session
BY DEF Session

-----------------------------------------------------------------------------
(* The steps of the monitor keep its invariant *)

\* Processes end, or not, and nothing happens to the sessions.
Calm ==
  /\ proc' \in [Pids -> Process \union {NoProc}]
  /\ \A pid \in Pids : proc'[pid] \in {proc[pid], NoProc}
  /\ UNCHANGED <<starts, allowed_pids, sessions>>

LEMMA CalmStep ==
  ASSUME MInv, Calm
  PROVE  /\ StampsPast' /\ AllowedIsObserved'
         /\ \A pid : Remembered(pid)' = Remembered(pid)
         /\ Live' \subseteq Live /\ \A pid \in Live' : proc'[pid] = proc[pid]
<1> USE MonitorAssumption
<1>1. Types /\ StampsPast /\ AllowedIsObserved
  BY DEF MInv
<1>2. NoProc.started = 0
  BY DEF NoProc
<1>3. StampsPast'
  BY <1>1, <1>2 DEF StampsPast, Calm, Types
<1>4. Live' \subseteq Live /\ \A pid \in Live' : proc'[pid] = proc[pid]
  BY DEF Live, Calm
<1>5. AllowedIsObserved'
  BY <1>1, <1>4 DEF AllowedIsObserved, Calm, HasSession
<1>6. \A pid : Remembered(pid)' = Remembered(pid)
  BY DEF Remembered, Calm
<1> QED BY <1>3, <1>4, <1>5, <1>6

\* A calm step in which the scan goes no further than to what it knows.
LEMMA CalmKeeps ==
  ASSUME MInv, Calm, Types', Phases', UNCHANGED known_pids,
         scan'.todo \subseteq scan.todo, scan'.pc \in {"snapshot", "prune"} => scan'.pc = scan.pc
  PROVE  MInv' /\ (Forgotten => Forgotten')
<1>1. StampsPast' /\ AllowedIsObserved'
  BY CalmStep
<1>2. ASSUME Forgotten PROVE Forgotten'
  <2>1. \A pid \in Pids \ known_pids :
          pid \in Live' => proc'[pid].started \notin Remembered(pid)'
    BY <1>2, CalmStep DEF Forgotten
  <2>2. scan'.pc = "snapshot" => \A pid \in Pids \ known_pids : Remembered(pid)' \subseteq {0}
    BY <1>2, CalmStep DEF Forgotten
  <2>3. scan'.pc = "prune" => \A pid \in Pids \ known_pids : allowed_pids'[pid] = 0
    BY <1>2 DEF Forgotten, Calm
  <2>4. \A pid \in scan'.todo : Remembered(pid)' \subseteq {0}
    BY <1>2, CalmStep DEF Forgotten
  <2> QED BY <2>1, <2>2, <2>3, <2>4 DEF Forgotten
<1> QED BY <1>1, <1>2 DEF MInv

LEMMA MonitorInitially == Init => MInv /\ Forgotten
<1> SUFFICES ASSUME Init PROVE MInv /\ Forgotten
  OBVIOUS
<1> USE MonitorAssumption
<1>1. Types
  BY DEF Init, Types, NoPids, IdleScan
<1>2. \A a \in Apps : sessions[a] = NoSession
  BY DEF Init
<1>3. StampsPast
  BY <1>2 DEF Init, StampsPast, NoProc, NoPids, NoSession
<1>4. Phases
  BY DEF Init, Phases, IdleScan
<1>5. AllowedIsObserved
  BY DEF Init, AllowedIsObserved, Live
<1>6. Forgotten
  <2>1. \A pid \in Pids : Remembered(pid) \subseteq {0}
    BY <1>2 DEF Init, NoPids, Remembered, NoSession
  <2> QED BY <2>1 DEF Forgotten, Init, Live, IdleScan, NoPids
<1> QED BY <1>1, <1>3, <1>4, <1>5, <1>6 DEF MInv

LEMMA StartKeeps ==
  ASSUME MInv, NEW pid \in Pids, NEW a \in Apps, NEW d \in Protections, Start(pid, a, d)
  PROVE  MInv' /\ (Forgotten => Forgotten')
<1> USE MonitorAssumption
<1> DEFINE new == [app |-> a, started |-> starts + 1, protection |-> d]
<1>1. Types /\ StampsPast /\ Phases /\ AllowedIsObserved
  BY DEF MInv
<1>2. /\ proc' = [proc EXCEPT ![pid] = new]
      /\ starts' = starts + 1 /\ starts \in Nat /\ starts' \in 0..MaxStarts
      /\ UNCHANGED <<db_locks, locked, allowed_pids, sessions, suppressed, known_pids, start_time, scan>>
      /\ pid \notin Live
  BY <1>1 DEF Start, Types, sessionVars
<1>3. new \in Process /\ new.started = starts + 1
  BY <1>2 DEF Process, Stamp
<1>4. /\ proc'[pid] = new /\ \A p \in Pids \ {pid} : proc'[p] = proc[p]
      /\ proc' \in [Pids -> Process \union {NoProc}]
  BY <1>1, <1>2, <1>3 DEF Types
<1>5. Types'
  BY <1>1, <1>2, <1>4 DEF Types
<1>6. \A p \in Pids : allowed_pids[p] \in 0..MaxStarts
                      /\ \A b \in Apps : sessions[b].observed[p] \in 0..MaxStarts
  BY <1>1, SessionFields DEF Types
<1>7. StampsPast'
  <2>1. \A p \in Pids : proc[p].started \in 0..MaxStarts
    BY <1>1, ProcessFields
  <2> QED BY <1>1, <1>2, <1>3, <1>4, <1>6, <2>1 DEF StampsPast
<1>8. Phases'
  BY <1>1, <1>2 DEF Phases
<1>9. \A p \in Pids \ {pid} : p \in Live' <=> p \in Live
  BY <1>4 DEF Live
<1>10. /\ allowed_pids[pid] # new.started
       /\ \A b \in Apps : sessions[b].observed[pid] # new.started
  BY <1>1, <1>2, <1>3, <1>6 DEF StampsPast
<1>11. AllowedIsObserved'
  BY <1>1, <1>2, <1>4, <1>9, <1>10 DEF AllowedIsObserved, HasSession
<1>12. ASSUME Forgotten PROVE Forgotten'
  <2>1. \A p : Remembered(p)' = Remembered(p)
    BY <1>2 DEF Remembered
  <2>2. proc'[pid].started \notin Remembered(pid)
    BY <1>4, <1>10 DEF Remembered
  <2>3. UNCHANGED <<known_pids, scan, allowed_pids>>
    BY <1>2
  <2> HIDE DEF new
  <2>4. ASSUME NEW p \in Pids \ known_pids, p \in Live' PROVE proc'[p].started \notin Remembered(p)
    <3>1. CASE p = pid
      BY <2>2, <3>1
    <3>2. CASE p # pid
      BY <1>4, <1>9, <1>12, <2>4, <3>2 DEF Forgotten
    <3> QED BY <3>1, <3>2
  <2> QED BY <1>12, <2>1, <2>3, <2>4 DEF Forgotten
<1> QED BY <1>5, <1>7, <1>8, <1>11, <1>12 DEF MInv

LEMMA ExitKeeps ==
  ASSUME MInv, NEW pid \in Pids, Exit(pid)
  PROVE  MInv' /\ (Forgotten => Forgotten')
<1>1. Types /\ Phases
  BY DEF MInv
<1>2. /\ proc' = [proc EXCEPT ![pid] = NoProc]
      /\ UNCHANGED <<starts, db_locks, locked, allowed_pids, sessions, suppressed, known_pids, start_time, scan>>
  BY DEF Exit, sessionVars
<1>3. Calm
  BY <1>1, <1>2 DEF Calm, Types
<1>4. Types' /\ Phases'
  BY <1>1, <1>2, <1>3 DEF Types, Phases, Calm
<1> QED BY <1>2, <1>3, <1>4, CalmKeeps

LEMMA TerminateKeeps ==
  ASSUME MInv, NEW a \in Apps, Terminate(a),
         scan' \in {IdleScan, [scan EXCEPT !.caught = @ \ Caught(a)]}
  PROVE  MInv' /\ (Forgotten => Forgotten')
<1>1. Types /\ Phases
  BY DEF MInv
<1>2. /\ proc' = [pid \in Pids |->
           IF \E h \in Current(a) \ Denied(a) : h.pid = pid THEN NoProc ELSE proc[pid]]
      /\ suppressed' = [suppressed EXCEPT ![a] = SuppressTime] \/ UNCHANGED suppressed
      /\ UNCHANGED <<starts, db_locks, locked, allowed_pids, sessions, known_pids, start_time>>
  BY DEF Terminate, sessionVars
<1>3. Calm
  BY <1>1, <1>2 DEF Calm, Types
<1>4. suppressed' \in [Apps -> 0..SuppressTime]
  BY <1>1, <1>2, MonitorAssumption DEF Types
<1>5. /\ scan'.pc \in {scan.pc, "idle"} /\ scan'.todo \in {scan.todo, {}}
      /\ scan'.caught \in {scan.caught \ Caught(a), {}}
      /\ scan.pc # "examine" => scan'.todo = {} /\ scan'.caught = {}
      /\ scan'.pc = "idle" => scan'.todo = {} /\ scan'.caught = {}
      /\ scan' \in [pc : {"idle", "clear", "prune", "snapshot", "examine"},
                    todo : SUBSET Pids, caught : SUBSET Handle]
  BY <1>1 DEF Types, Phases, IdleScan
<1>6. Types' /\ Phases'
  BY <1>1, <1>2, <1>3, <1>4, <1>5 DEF Types, Phases, Calm
<1> QED BY <1>2, <1>3, <1>5, <1>6, CalmKeeps

LEMMA EnforceKeeps ==
  ASSUME MInv, NEW a \in Apps, Enforce(a) \/ EnforceRaises(a)
  PROVE  MInv' /\ (Forgotten => Forgotten')
BY TerminateKeeps DEF Enforce, EnforceRaises

\* The steps of a scan that only look.
Looks ==
  \/ MarkStarted \/ ScanBegin \/ SnapshotFails \/ ScanEnd \/ ChangeLocks
  \/ \E pid \in Pids : ExamineIrrelevant(pid) \/ ExamineRaises(pid) \/ ExamineReject(pid)

LEMMA LooksKeep ==
  ASSUME MInv, Looks
  PROVE  MInv' /\ (Forgotten => Forgotten')
<1> USE MonitorAssumption
<1> DEFINE Scans == [pc : {"idle", "clear", "prune", "snapshot", "examine"},
                     todo : SUBSET Pids, caught : SUBSET Handle]
<1>1. Types /\ Phases
  BY DEF MInv
<1>2. /\ UNCHANGED <<proc, starts, allowed_pids, sessions, suppressed, known_pids>>
      /\ db_locks' \subseteq Apps /\ locked' \subseteq Apps
      /\ start_time' \in -1..MaxStarts
  <2>1. start_time \in -1..MaxStarts /\ starts \in -1..MaxStarts /\ db_locks \subseteq Apps /\ locked \subseteq Apps
    BY <1>1 DEF Types
  <2>2. CASE MarkStarted
    BY <2>1, <2>2 DEF MarkStarted, osVars, sessionVars
  <2>3. CASE ScanBegin
    BY <2>1, <2>3 DEF ScanBegin, osVars, sessionVars
  <2>4. CASE SnapshotFails \/ ScanEnd
    BY <2>1, <2>4 DEF SnapshotFails, ScanEnd, osVars, sessionVars
  <2>5. CASE ChangeLocks
    BY <2>1, <2>5 DEF ChangeLocks, osVars, sessionVars
  <2>6. CASE \E pid \in Pids : ExamineIrrelevant(pid) \/ ExamineRaises(pid) \/ ExamineReject(pid)
    BY <2>1, <2>6 DEF ExamineIrrelevant, ExamineRaises, ExamineReject, osVars, sessionVars
  <2> QED BY <2>2, <2>3, <2>4, <2>5, <2>6 DEF Looks
<1>3. scan \in Scans /\ IdleScan \in Scans
  BY <1>1 DEF Types, IdleScan
<1> DEFINE Proper ==
      /\ scan' \in Scans /\ Phases'
      /\ scan'.todo \subseteq scan.todo
      /\ scan'.pc \in {"snapshot", "prune"} => scan'.pc = scan.pc
<1>4. Proper
  <2>1. CASE scan' = scan
    BY <1>1, <1>2, <1>3, <2>1 DEF Phases
  <2>2. CASE scan' = IdleScan
    BY <1>1, <1>2, <1>3, <2>2 DEF Phases, IdleScan
  <2>3. CASE ScanBegin
    <3>1. scan' = [scan EXCEPT !.pc = "clear"] /\ scan.pc = "idle"
      BY <2>3 DEF ScanBegin
    <3> QED BY <1>1, <1>2, <1>3, <3>1 DEF Phases
  <2>4. CASE \E pid \in Pids : scan.pc = "examine" /\ scan' = Examined(pid)
    BY <1>1, <1>2, <1>3, <2>4 DEF Phases, Examined
  <2>5. ASSUME NEW pid \in Pids, scan.pc = "examine", pid \in scan.todo, Relevant(pid),
               scan' = [Examined(pid) EXCEPT !.caught = @ \union
                    {[pid |-> pid, started |-> proc[pid].started, app |-> proc[pid].app]}]
        PROVE  Proper
    <3>1. [pid |-> pid, started |-> proc[pid].started, app |-> proc[pid].app] \in Handle
      BY <1>1, <2>5, ProcessFields DEF Relevant, Handle, Stamp
    <3>2. /\ scan'.pc = "examine" /\ scan'.todo = scan.todo \ {pid}
          /\ scan'.caught = scan.caught \union
               {[pid |-> pid, started |-> proc[pid].started, app |-> proc[pid].app]}
          /\ scan' \in Scans
      BY <1>3, <2>5, <3>1 DEF Examined
    <3> QED BY <1>1, <1>2, <2>5, <3>2 DEF Phases
  <2>6. CASE \E pid \in Pids : ExamineReject(pid)
    <3>1. PICK pid \in Pids : ExamineReject(pid)
      BY <2>6
    <3>2. scan.pc = "examine" /\ pid \in scan.todo /\ Relevant(pid)
      BY <3>1 DEF ExamineReject
    <3>3. CASE scan' = Examined(pid)
      BY <2>4, <3>2, <3>3
    <3>4. CASE scan' # Examined(pid)
      BY <2>5, <3>1, <3>2, <3>4 DEF ExamineReject
    <3> QED BY <3>3, <3>4
  <2>7. CASE \E pid \in Pids : ExamineIrrelevant(pid) \/ ExamineRaises(pid)
    BY <2>2, <2>4, <2>7 DEF ExamineIrrelevant, ExamineRaises
  <2>8. CASE MarkStarted \/ SnapshotFails \/ ScanEnd \/ ChangeLocks
    BY <2>1, <2>2, <2>8 DEF MarkStarted, SnapshotFails, ScanEnd, ChangeLocks
  <2> QED BY <2>3, <2>6, <2>7, <2>8 DEF Looks
<1>5. Types'
  BY <1>1, <1>2, <1>4 DEF Types
<1>6. Calm
  BY <1>1, <1>2 DEF Calm, Types
<1> QED BY <1>2, <1>4, <1>5, <1>6, CalmKeeps

\* Sessions are opened, prolonged or grow old, and observe what they did.
LEMMA ObservedSameKeep ==
  ASSUME MInv, sessions' \in [Apps -> Session \union {NoSession}],
         \A a \in Apps : /\ sessions'[a].observed = sessions[a].observed
                         /\ HasSession(a) => HasSession(a)',
         suppressed' \in [Apps -> 0..SuppressTime],
         UNCHANGED <<proc, starts, db_locks, locked, allowed_pids, known_pids, start_time, scan>>
  PROVE  MInv' /\ (Forgotten => Forgotten')
<1>1. Types /\ StampsPast /\ Phases /\ AllowedIsObserved
  BY DEF MInv
<1>2. Types' /\ StampsPast' /\ Phases'
  BY <1>1 DEF Types, StampsPast, Phases
<1>3. AllowedIsObserved'
  BY <1>1 DEF AllowedIsObserved, Live
<1>4. \A pid : Remembered(pid)' = Remembered(pid)
  BY DEF Remembered
<1>5. Live' = Live
  BY DEF Live
<1>6. ASSUME Forgotten PROVE Forgotten'
  BY <1>4, <1>5, <1>6 DEF Forgotten
<1> QED BY <1>2, <1>3, <1>6 DEF MInv

LEMMA AgedKeeps ==
  ASSUME MInv, Aged,
         UNCHANGED <<proc, starts, db_locks, locked, allowed_pids, known_pids, start_time, scan>>
  PROVE  MInv' /\ (Forgotten => Forgotten')
<1> USE MonitorAssumption
<1>1. Types
  BY DEF MInv
<1>2. ASSUME NEW a \in Apps
      PROVE  /\ sessions'[a] \in Session \union {NoSession}
             /\ sessions'[a].observed = sessions[a].observed
             /\ HasSession(a) => HasSession(a)'
  <2>1. CASE ~HasSession(a)
    BY <2>1 DEF Aged, HasSession
  <2>2. CASE HasSession(a)
    <3>1. sessions'[a] = [sessions[a] EXCEPT
              !.deadline = IF @ >= 0 THEN @ - 1 ELSE -1,
              !.idle = IF @ < IdleCap THEN @ + 1 ELSE @]
      BY <2>2 DEF Aged
    <3>2. sessions[a] \in Session /\ sessions[a].deadline \in -1..GraceCap /\ sessions[a].idle \in 0..IdleCap
      BY <1>1, <2>2, SessionFields
    <3>3. GraceCap \in Nat /\ IdleCap \in Nat
      BY DEF GraceCap, IdleCap
    <3>4. sessions'[a].deadline \in -1..GraceCap /\ sessions'[a].idle \in 0..IdleCap
      BY <3>1, <3>2, <3>3 DEF Session
    <3>5. sessions'[a] \in Session /\ sessions'[a].observed = sessions[a].observed
      BY <3>1, <3>2, <3>4 DEF Session
    <3>6. sessions'[a] # NoSession
      BY <3>4 DEF NoSession
    <3> QED BY <3>5, <3>6 DEF HasSession
  <2> QED BY <2>1, <2>2
<1>3. sessions' \in [Apps -> Session \union {NoSession}]
  BY <1>2 DEF Aged
<1>4. suppressed' \in [Apps -> 0..SuppressTime]
  <2>1. ASSUME NEW a \in Apps PROVE Left(suppressed[a]) \in 0..SuppressTime
    <3>1. suppressed[a] \in 0..SuppressTime
      BY <1>1 DEF Types
    <3> QED BY <3>1 DEF Left
  <2> QED BY <2>1 DEF Aged
<1> QED BY <1>2, <1>3, <1>4, ObservedSameKeep

LEMMA AuthorizedSession ==
  ASSUME Types, NEW a \in Apps
  PROVE  /\ Authorized(a) \in Session /\ Authorized(a).deadline >= 0
         /\ Authorized(a).observed = sessions[a].observed
<1> USE MonitorAssumption
<1>1. StartupGrace \in 0..GraceCap /\ GraceCap \in Nat /\ 0 \in 0..IdleCap
  BY DEF GraceCap, IdleCap
<1>2. CASE HasSession(a)
  <2>1. sessions[a] \in Session /\ sessions[a].deadline \in -1..GraceCap
    BY <1>2, SessionFields
  <2> DEFINE d == MaxOf(sessions[a].deadline, StartupGrace)
  <2>2. d \in 0..GraceCap
    BY <1>1, <2>1 DEF MaxOf
  <2> HIDE DEF d
  <2>3. Authorized(a) = [sessions[a] EXCEPT !.deadline = d, !.idle = 0]
    BY <1>2 DEF Authorized, d
  <2>4. d \in -1..GraceCap /\ d >= 0
    BY <2>2
  <2> QED BY <1>1, <2>1, <2>3, <2>4 DEF Session
<1>3. CASE ~HasSession(a)
  BY <1>1, <1>3 DEF Authorized, HasSession, NoSession, Session, NoPids
<1> QED BY <1>2, <1>3

LEMMA AuthorizeKeeps ==
  ASSUME MInv, NEW a \in Apps, Authorize(a)
  PROVE  MInv' /\ (Forgotten => Forgotten')
<1>1. Types
  BY DEF MInv
<1>2. /\ sessions' = [sessions EXCEPT ![a] = Authorized(a)]
      /\ UNCHANGED <<proc, starts, db_locks, locked, allowed_pids, suppressed, known_pids, start_time, scan>>
  BY DEF Authorize, osVars
<1>3. /\ sessions'[a] = Authorized(a)
      /\ \A b \in Apps \ {a} : sessions'[b] = sessions[b]
      /\ sessions' \in [Apps -> Session \union {NoSession}]
  BY <1>1, <1>2, AuthorizedSession DEF Types
<1>4. Authorized(a) # NoSession
  BY <1>1, AuthorizedSession DEF NoSession
<1>5. \A b \in Apps : sessions'[b].observed = sessions[b].observed /\ (HasSession(b) => HasSession(b)')
  BY <1>1, <1>3, <1>4, AuthorizedSession DEF HasSession
<1>6. suppressed' \in [Apps -> 0..SuppressTime]
  BY <1>1, <1>2 DEF Types
<1> QED BY <1>2, <1>3, <1>5, <1>6, ObservedSameKeep

\* Who is asked about is all that changes.
LEMMA AskedKeeps ==
  ASSUME MInv, UNCHANGED <<osVars, db_locks, locked, sessionVars, suppressed, known_pids, start_time, scan>>
  PROVE  MInv' /\ (Forgotten => Forgotten')
<1>1. /\ Types /\ suppressed' = suppressed /\ sessions' = sessions
      /\ UNCHANGED <<proc, starts, db_locks, locked, allowed_pids, known_pids, start_time, scan>>
  BY DEF MInv, osVars, sessionVars
<1>2. sessions' \in [Apps -> Session \union {NoSession}] /\ suppressed' \in [Apps -> 0..SuppressTime]
  BY <1>1 DEF Types
<1>3. \A a \in Apps : /\ sessions'[a].observed = sessions[a].observed
                      /\ HasSession(a) => HasSession(a)'
  BY <1>1 DEF HasSession
<1> QED BY <1>1, <1>2, <1>3, ObservedSameKeep

\* Processes end and what was allowed or observed is forgotten, or not.
Fading ==
  /\ proc' \in [Pids -> Process \union {NoProc}]
  /\ \A pid \in Pids : proc'[pid] \in {proc[pid], NoProc}
  /\ \A pid \in Pids : allowed_pids'[pid] \in {allowed_pids[pid], 0}
  /\ \A a \in Apps, pid \in Pids : sessions'[a].observed[pid] \in {sessions[a].observed[pid], 0}
  /\ UNCHANGED <<starts, known_pids>>

LEMMA FadingStep ==
  ASSUME MInv, Fading
  PROVE  /\ StampsPast'
         /\ \A pid \in Pids : Remembered(pid)' \subseteq Remembered(pid) \union {0}
         /\ Live' \subseteq Live /\ \A pid \in Live' : proc'[pid] = proc[pid]
         /\ Forgotten => \A pid \in Pids \ known_pids :
              pid \in Live' => proc'[pid].started \notin Remembered(pid)'
<1> USE MonitorAssumption
<1>1. Types /\ StampsPast
  BY DEF MInv
<1>2. NoProc.started = 0
  BY DEF NoProc
<1>3. StampsPast'
  BY <1>1, <1>2 DEF StampsPast, Fading, Types
<1>4. Live' \subseteq Live /\ \A pid \in Live' : proc'[pid] = proc[pid]
  BY DEF Live, Fading
<1>5. \A pid \in Pids : Remembered(pid)' \subseteq Remembered(pid) \union {0}
  BY DEF Remembered, Fading
<1>6. \A pid \in Live : pid \in Pids /\ proc[pid].started # 0
  BY <1>1, ProcessFields DEF Live
<1>7. Forgotten => \A pid \in Pids \ known_pids :
              pid \in Live' => proc'[pid].started \notin Remembered(pid)'
  BY <1>4, <1>5, <1>6 DEF Forgotten
<1> QED BY <1>3, <1>4, <1>5, <1>7

LEMMA ReadableMatches ==
  ASSUME Types, NEW pid \in Pids, NEW n
  PROVE  /\ PidMatches(pid, n) => pid \in Live
         /\ Readable /\ PidMatches(pid, n) => proc[pid].started = n
         /\ pid \in Live /\ proc[pid].started = n => PidMatches(pid, n)
<1>1. pid \in Live => proc[pid].protection \in Protections
  BY ProcessFields DEF Process
<1> QED BY <1>1 DEF PidMatches, Readable

LEMMA ClearDeadKeeps ==
  ASSUME MInv, ClearDead
  PROVE  MInv' /\ (Readable /\ Forgotten => Forgotten')
<1> USE MonitorAssumption
<1>1. Types /\ StampsPast /\ Phases /\ AllowedIsObserved
  BY DEF MInv
<1>2. /\ allowed_pids' = [pid \in Pids |->
            IF PidMatches(pid, allowed_pids[pid]) THEN allowed_pids[pid] ELSE 0]
      /\ scan.pc = "clear" /\ scan' = [scan EXCEPT !.pc = "prune"]
      /\ UNCHANGED <<proc, starts, db_locks, locked, sessions, suppressed, known_pids, start_time>>
  BY DEF ClearDead, osVars
<1>3. Fading
  BY <1>1, <1>2 DEF Fading, Types
<1>4. /\ scan'.pc = "prune" /\ scan'.todo = {} /\ scan'.caught = {}
      /\ scan' \in [pc : {"idle", "clear", "prune", "snapshot", "examine"},
                    todo : SUBSET Pids, caught : SUBSET Handle]
  BY <1>1, <1>2 DEF Types, Phases
<1>5. Types'
  BY <1>1, <1>2, <1>4 DEF Types
<1>6. Phases' /\ StampsPast'
  BY <1>4, <1>3, FadingStep DEF Phases
<1>7. AllowedIsObserved'
  <2>1. Live' = Live
    BY <1>2 DEF Live
  <2>2. \A pid \in Live : allowed_pids'[pid] = proc[pid].started => allowed_pids[pid] = proc[pid].started
    BY <1>1, <1>2, ProcessFields DEF Live
  <2> QED BY <1>1, <1>2, <2>1, <2>2 DEF AllowedIsObserved, HasSession, Live
<1>8. ASSUME Readable, Forgotten PROVE Forgotten'
  <2>1. ASSUME NEW pid \in Pids \ known_pids PROVE allowed_pids'[pid] = 0
    <3>1. allowed_pids[pid] \in Remembered(pid)
      BY DEF Remembered
    <3>2. ~PidMatches(pid, allowed_pids[pid]) \/ allowed_pids[pid] = 0
      BY <1>1, <1>8, <2>1, <3>1, ReadableMatches DEF Forgotten
    <3> QED BY <1>2, <3>2
  <2> QED BY <1>2, <1>3, <1>4, <1>8, <2>1, FadingStep DEF Forgotten
<1> QED BY <1>5, <1>6, <1>7, <1>8 DEF MInv

LEMMA SnapshotKeeps ==
  ASSUME MInv, Snapshot
  PROVE  MInv' /\ (Forgotten => Forgotten')
<1>1. Types /\ Phases
  BY DEF MInv
<1>2. /\ scan.pc = "snapshot" /\ scan.todo = {} /\ scan.caught = {}
      /\ known_pids' = Live
      /\ UNCHANGED <<proc, starts, db_locks, locked, allowed_pids, sessions, suppressed, start_time>>
  BY <1>1 DEF Snapshot, Phases, osVars, sessionVars
<1>3. Live \subseteq Pids
  BY DEF Live
<1>4. /\ scan'.pc \in {"idle", "examine"} /\ scan'.caught = {}
      /\ scan'.todo \subseteq Live \ known_pids
      /\ scan'.pc = "idle" => scan'.todo = {}
      /\ scan' \in [pc : {"idle", "clear", "prune", "snapshot", "examine"},
                    todo : SUBSET Pids, caught : SUBSET Handle]
  BY <1>1, <1>2, <1>3 DEF Snapshot, Types, IdleScan
<1>5. Types' /\ Phases'
  BY <1>1, <1>2, <1>3, <1>4 DEF Types, Phases
<1>6. Calm
  BY <1>1, <1>2 DEF Calm, Types
<1>7. ASSUME Forgotten PROVE Forgotten'
  <2>1. Live' = Live
    BY <1>2 DEF Live
  <2>2. \A pid \in Pids \ known_pids : Remembered(pid)' \subseteq {0}
    BY <1>2, <1>6, <1>7, CalmStep DEF Forgotten
  <2>3. \A pid \in scan'.todo : Remembered(pid)' \subseteq {0}
    BY <1>3, <1>4, <2>2
  <2> QED BY <1>2, <1>4, <2>1, <2>3 DEF Forgotten
<1> QED BY <1>5, <1>6, <1>7, CalmStep DEF MInv

LEMMA KeptSession ==
  ASSUME Types, NEW a \in Apps, NEW visible
  PROVE  /\ Kept(a, visible) \in Session \union {NoSession}
         /\ Kept(a, visible).deadline = sessions[a].deadline
         /\ Kept(a, visible).idle = sessions[a].idle
         /\ \A pid \in Pids : Kept(a, visible).observed[pid] =
              IF pid \in LiveObserved(sessions[a].observed) THEN sessions[a].observed[pid] ELSE 0
         /\ HasSession(a) <=> Kept(a, visible) # NoSession
<1> DEFINE o == [pid \in Pids |->
                   IF pid \in LiveObserved(sessions[a].observed) THEN sessions[a].observed[pid] ELSE 0]
           w == IF LiveObserved(sessions[a].observed) = {} THEN sessions[a].windowless
                ELSE Windowless(a, visible)
<1>1. Kept(a, visible) = [sessions[a] EXCEPT !.observed = o, !.windowless = w]
  BY DEF Kept
<1>2. CASE HasSession(a)
  <2>1. /\ sessions[a] \in Session /\ sessions[a].deadline >= -1
        /\ sessions[a].observed \in [Pids -> 0..MaxStarts]
    BY <1>2, SessionFields, MonitorAssumption DEF GraceCap
  <2>2. o \in [Pids -> 0..MaxStarts] /\ w \in BOOLEAN
    <3>1. o \in [Pids -> 0..MaxStarts]
      BY <2>1, MonitorAssumption
    <3>2. sessions[a].windowless \in BOOLEAN
      BY <2>1 DEF Session
    <3>3. Windowless(a, visible) \in BOOLEAN
      BY DEF Windowless
    <3> QED BY <3>1, <3>2, <3>3
  <2> HIDE DEF o, w
  <2>3. /\ Kept(a, visible) \in Session /\ Kept(a, visible).observed = o
        /\ Kept(a, visible).deadline = sessions[a].deadline
        /\ Kept(a, visible).idle = sessions[a].idle
    BY <1>1, <2>1, <2>2 DEF Session
  <2>4. Kept(a, visible) # NoSession
    BY <2>1, <2>3 DEF NoSession
  <2> QED BY <1>2, <2>3, <2>4 DEF o
<1>3. CASE ~HasSession(a)
  <2>1. sessions[a] = NoSession
    BY <1>3 DEF HasSession
  <2>2. LiveObserved(sessions[a].observed) = {}
    BY <2>1 DEF NoSession, NoPids, LiveObserved
  <2>3. o = NoPids /\ w = FALSE
    BY <2>1, <2>2 DEF NoPids, NoSession
  <2> HIDE DEF o, w
  <2>4. Kept(a, visible) = NoSession
    <3>1. Kept(a, visible) = [NoSession EXCEPT !.observed = NoPids, !.windowless = FALSE]
      BY <1>1, <2>1, <2>3
    <3> QED BY <3>1 DEF NoSession
  <2> QED BY <1>3, <2>1, <2>2, <2>4 DEF NoSession, NoPids
<1> QED BY <1>2, <1>3

\* A prune, also one that ends with an error, only ends processes and forgets; what it has
\* stopped to observe is no longer allowed.
LEMMA PrunedKeeps ==
  ASSUME MInv, Fading,
         scan.pc = "prune", scan'.pc \in {"idle", "snapshot"}, scan'.todo = {}, scan'.caught = {},
         sessions' \in [Apps -> Session \union {NoSession}],
         allowed_pids' \in [Pids -> 0..MaxStarts],
         scan' \in [pc : {"idle", "snapshot"}, todo : SUBSET Pids, caught : SUBSET Handle],
         UNCHANGED <<starts, db_locks, locked, suppressed, known_pids, start_time>>,
         \A a \in Apps, pid \in Pids :
           /\ HasSession(a) /\ sessions[a].observed[pid] # 0 /\ pid \in LiveObserved(sessions[a].observed)
           /\ allowed_pids'[pid] # 0
           => HasSession(a)' /\ sessions'[a].observed[pid] = sessions[a].observed[pid],
         scan'.pc = "snapshot" =>
           \A a \in Apps, pid \in Pids :
             sessions'[a].observed[pid] # 0 => pid \in LiveObserved(sessions[a].observed)
  PROVE  MInv' /\ (Readable /\ Forgotten => Forgotten')
<1> USE MonitorAssumption
<1>1. Types /\ StampsPast /\ Phases /\ AllowedIsObserved
  BY DEF MInv
<1>2. Types'
  BY <1>1 DEF Types, Fading
<1>3. Phases' /\ StampsPast'
  BY <1>1, FadingStep DEF Phases
<1>4. AllowedIsObserved'
  <2> SUFFICES ASSUME NEW pid \in Pids, pid \in Live', allowed_pids'[pid] = proc'[pid].started
               PROVE  \E a \in Apps : HasSession(a)' /\ sessions'[a].observed[pid] = allowed_pids'[pid]
    BY DEF AllowedIsObserved
  <2>1. pid \in Live /\ proc'[pid] = proc[pid] /\ proc[pid].started # 0
    BY <1>1, FadingStep, ProcessFields
  <2>2. allowed_pids'[pid] = allowed_pids[pid] /\ allowed_pids'[pid] # 0
    BY <2>1 DEF Fading
  <2>3. PICK a \in Apps : HasSession(a) /\ sessions[a].observed[pid] = allowed_pids[pid]
    BY <1>1, <2>1, <2>2 DEF AllowedIsObserved
  <2>4. pid \in LiveObserved(sessions[a].observed)
    BY <1>1, <2>1, <2>2, <2>3, ReadableMatches DEF LiveObserved
  <2> QED BY <2>2, <2>3, <2>4
<1>5. ASSUME Readable, Forgotten PROVE Forgotten'
  <2>1. ASSUME NEW pid \in Pids \ known_pids, scan'.pc = "snapshot" PROVE Remembered(pid)' \subseteq {0}
    <3>1. allowed_pids'[pid] = 0
      BY <1>5, <2>1 DEF Forgotten, Fading
    <3>2. ASSUME NEW a \in Apps PROVE sessions'[a].observed[pid] = 0
      <4>1. sessions[a].observed[pid] \in Remembered(pid)
        BY DEF Remembered
      <4>2. pid \notin Live \/ proc[pid].started # sessions[a].observed[pid]
        BY <1>5, <2>1, <4>1 DEF Forgotten
      <4>3. pid \notin LiveObserved(sessions[a].observed)
        BY <1>1, <1>5, <4>2, ReadableMatches DEF LiveObserved
      <4> QED BY <2>1, <4>3
    <3> QED BY <3>1, <3>2 DEF Remembered
  <2> QED BY <1>5, <2>1, FadingStep DEF Forgotten
<1> QED BY <1>2, <1>3, <1>4, <1>5 DEF MInv

LEMMA PruneKeeps ==
  ASSUME MInv, Prune
  PROVE  MInv' /\ (Readable /\ Forgotten => Forgotten')
<1> USE MonitorAssumption
<1>1. Types /\ Phases
  BY DEF MInv
<1>2. PICK visible \in SUBSET Apps :
       /\ sessions' = [a \in Apps |->
            IF ~HasSession(a) \/ a \in Lingering(visible) \/ Deserted(a) THEN NoSession
            ELSE Kept(a, visible)]
       /\ allowed_pids' = [pid \in Pids |->
            IF pid \in LingeringPids(visible) THEN 0 ELSE allowed_pids[pid]]
       /\ proc' = [pid \in Pids |->
            IF pid \in LingeringPids(visible) /\ proc[pid].protection = "none"
            THEN NoProc ELSE proc[pid]]
  BY DEF Prune
<1>3. /\ scan.pc = "prune"
      /\ scan' = IF locked = {} THEN IdleScan ELSE [scan EXCEPT !.pc = "snapshot"]
      /\ UNCHANGED <<starts, db_locks, locked, suppressed, known_pids, start_time>>
  BY DEF Prune
<1>4. NoSession.observed = [pid \in Pids |-> 0]
  BY DEF NoSession, NoPids
<1>5. \A a \in Apps, pid \in Pids :
        /\ sessions'[a].observed[pid] \in {sessions[a].observed[pid], 0}
        /\ sessions'[a].observed[pid] # 0 => pid \in LiveObserved(sessions[a].observed)
  BY <1>1, <1>2, <1>4, KeptSession
<1>6. sessions' \in [Apps -> Session \union {NoSession}]
  BY <1>1, <1>2, KeptSession
<1>7. Fading /\ allowed_pids' \in [Pids -> 0..MaxStarts]
  BY <1>1, <1>2, <1>3, <1>5 DEF Fading, Types
<1>8. /\ scan'.pc \in {"idle", "snapshot"} /\ scan'.todo = {} /\ scan'.caught = {}
      /\ scan' \in [pc : {"idle", "snapshot"}, todo : SUBSET Pids, caught : SUBSET Handle]
  BY <1>1, <1>3 DEF Types, Phases, IdleScan
<1>9. ASSUME NEW a \in Apps, NEW pid \in Pids, HasSession(a),
             pid \in LiveObserved(sessions[a].observed), allowed_pids'[pid] # 0
      PROVE  HasSession(a)' /\ sessions'[a].observed[pid] = sessions[a].observed[pid]
  <2>1. a \notin Lingering(visible) /\ ~Deserted(a)
    BY <1>2, <1>9 DEF LingeringPids, Deserted
  <2>2. sessions'[a] = Kept(a, visible)
    BY <1>2, <1>9, <2>1
  <2> QED BY <1>1, <1>9, <2>2, KeptSession DEF HasSession
<1> QED BY <1>3, <1>5, <1>6, <1>7, <1>8, <1>9, PrunedKeeps

\* What a prune that ends with an error has done by then.
LEMMA PruneRaisesDoes ==
  ASSUME MInv, NEW failing \in Pids, PruneRaises(failing)
  PROVE  /\ Fading /\ sessions' \in [Apps -> Session \union {NoSession}]
         /\ allowed_pids' \in [Pids -> 0..MaxStarts]
         /\ \A a \in Apps : /\ HasSession(a)' <=> HasSession(a)
                            /\ sessions'[a].deadline = sessions[a].deadline
                            /\ sessions'[a].idle = sessions[a].idle
         /\ \A a \in Apps, pid \in Pids : pid \in LiveObserved(sessions[a].observed) =>
              \/ sessions'[a].observed[pid] = sessions[a].observed[pid]
              \/ allowed_pids'[pid] = 0
                 /\ (pid = failing \/ proc[pid].protection # "none" \/ proc'[pid] = NoProc)
         /\ \E a \in Apps : /\ failing \in LiveObserved(sessions[a].observed)
                            /\ sessions'[a].observed[failing] = sessions[a].observed[failing]
<1> USE MonitorAssumption
<1>1. Types
  BY DEF MInv
<1> DEFINE Cleared(visible, before) == Lingering(visible) \intersect before
           Tried(visible, before, ended) ==
             ended \union UNION {LiveObserved(sessions[b].observed) : b \in Cleared(visible, before)}
           Effect(visible, before, a, ended) ==
             /\ sessions' = [b \in Apps |->
                  IF b \in Cleared(visible, before) THEN [sessions[b] EXCEPT !.observed = NoPids]
                  ELSE IF b \in before \union {a} THEN Kept(b, visible)
                  ELSE sessions[b]]
             /\ allowed_pids' = [p \in Pids |->
                  IF p \in Tried(visible, before, ended) \union {failing} THEN 0 ELSE allowed_pids[p]]
             /\ proc' = [p \in Pids |->
                  IF p \in Tried(visible, before, ended) \ {failing} /\ proc[p].protection = "none"
                  THEN NoProc ELSE proc[p]]
<1>2a. PICK visible \in SUBSET Apps, before \in SUBSET Apps :
         \E a \in Lingering(visible) \ before :
           /\ failing \in LiveObserved(sessions[a].observed)
           /\ \E ended \in SUBSET (LiveObserved(sessions[a].observed) \ {failing}) :
                Effect(visible, before, a, ended)
  BY DEF PruneRaises
<1>2b. PICK a \in Lingering(visible) \ before :
         /\ failing \in LiveObserved(sessions[a].observed)
         /\ \E ended \in SUBSET (LiveObserved(sessions[a].observed) \ {failing}) :
              Effect(visible, before, a, ended)
  BY <1>2a
<1>2. PICK ended \in SUBSET (LiveObserved(sessions[a].observed) \ {failing}) :
        /\ failing \in LiveObserved(sessions[a].observed)
        /\ Effect(visible, before, a, ended)
  BY <1>2b
<1>3. UNCHANGED <<starts, known_pids>>
  BY DEF PruneRaises
<1>4. a \in Apps
  BY <1>2 DEF Lingering
<1>5. ASSUME NEW b \in Cleared(visible, before)
      PROVE  /\ b \in Apps /\ HasSession(b)
             /\ sessions'[b] \in Session \union {NoSession} /\ sessions'[b] # NoSession
             /\ sessions'[b].deadline = sessions[b].deadline
             /\ sessions'[b].idle = sessions[b].idle
             /\ \A pid \in Pids : sessions'[b].observed[pid] = 0
  <2>1. b \in Apps /\ HasSession(b)
    BY DEF Lingering, Windowless
  <2>2. sessions[b] \in Session /\ sessions[b].deadline >= -1
    BY <1>1, <2>1, SessionFields DEF GraceCap
  <2>3. sessions'[b] = [sessions[b] EXCEPT !.observed = NoPids]
    BY <1>2, <2>1
  <2>4. NoPids \in [Pids -> 0..MaxStarts]
    BY DEF NoPids
  <2>5. /\ sessions'[b] \in Session /\ sessions'[b].deadline = sessions[b].deadline
        /\ sessions'[b].idle = sessions[b].idle /\ sessions'[b].observed = NoPids
    BY <2>2, <2>3, <2>4 DEF Session
  <2>6. sessions'[b] # NoSession
    BY <2>2, <2>5 DEF NoSession
  <2> QED BY <2>1, <2>5, <2>6 DEF NoPids
<1>6. ASSUME NEW b \in Apps, b \notin Cleared(visible, before)
      PROVE  /\ sessions'[b] \in Session \union {NoSession}
             /\ HasSession(b)' <=> HasSession(b)
             /\ sessions'[b].deadline = sessions[b].deadline
             /\ sessions'[b].idle = sessions[b].idle
             /\ \A pid \in Pids :
                  /\ sessions'[b].observed[pid] \in {sessions[b].observed[pid], 0}
                  /\ pid \in LiveObserved(sessions[b].observed) =>
                       sessions'[b].observed[pid] = sessions[b].observed[pid]
  <2>1. sessions'[b] = Kept(b, visible) \/ sessions'[b] = sessions[b]
    BY <1>2, <1>6
  <2> QED BY <1>1, <2>1, KeptSession DEF HasSession, Types
<1> HIDE DEF Cleared
<1>7. sessions' \in [Apps -> Session \union {NoSession}]
  <2>1. \A b \in Apps : sessions'[b] \in Session \union {NoSession}
    BY <1>5, <1>6
  <2> QED BY <1>2, <2>1
<1>8. allowed_pids' \in [Pids -> 0..MaxStarts]
  BY <1>1, <1>2 DEF Types
<1>9. \A b \in Apps, pid \in Pids : sessions'[b].observed[pid] \in {sessions[b].observed[pid], 0}
  BY <1>5, <1>6
<1>10. Fading
  BY <1>1, <1>2, <1>3, <1>9 DEF Fading, Types
<1>11. \A b \in Apps : /\ HasSession(b)' <=> HasSession(b)
                       /\ sessions'[b].deadline = sessions[b].deadline
                       /\ sessions'[b].idle = sessions[b].idle
  BY <1>5, <1>6 DEF HasSession
<1>12. ASSUME NEW b \in Apps, NEW pid \in Pids, pid \in LiveObserved(sessions[b].observed)
       PROVE  \/ sessions'[b].observed[pid] = sessions[b].observed[pid]
              \/ allowed_pids'[pid] = 0
                 /\ (pid = failing \/ proc[pid].protection # "none" \/ proc'[pid] = NoProc)
  <2>1. CASE b \notin Cleared(visible, before)
    BY <1>6, <1>12, <2>1
  <2>2. CASE b \in Cleared(visible, before)
    <3>1. pid \in Tried(visible, before, ended)
      BY <1>12, <2>2
    <3> QED BY <1>2, <3>1
  <2> QED BY <2>1, <2>2
<1>13. sessions'[a].observed[failing] = sessions[a].observed[failing]
  BY <1>2, <1>4, <1>6 DEF Cleared
<1> QED BY <1>2, <1>4, <1>7, <1>8, <1>10, <1>11, <1>12, <1>13

LEMMA PruneRaisesKeeps ==
  ASSUME MInv, NEW pid \in Pids, PruneRaises(pid)
  PROVE  MInv' /\ (Readable /\ Forgotten => Forgotten')
<1>1. /\ scan.pc = "prune" /\ scan' = IdleScan
      /\ UNCHANGED <<starts, db_locks, locked, suppressed, known_pids, start_time>>
  BY DEF PruneRaises
<1>2. /\ scan'.pc = "idle" /\ scan'.todo = {} /\ scan'.caught = {}
      /\ scan' \in [pc : {"idle", "snapshot"}, todo : SUBSET Pids, caught : SUBSET Handle]
  BY <1>1 DEF IdleScan
<1>3. /\ Fading /\ sessions' \in [Apps -> Session \union {NoSession}]
      /\ allowed_pids' \in [Pids -> 0..MaxStarts]
      /\ \A a \in Apps : HasSession(a)' <=> HasSession(a)
      /\ \A a \in Apps, p \in Pids : p \in LiveObserved(sessions[a].observed) =>
           sessions'[a].observed[p] = sessions[a].observed[p] \/ allowed_pids'[p] = 0
  BY PruneRaisesDoes
<1> QED BY <1>1, <1>2, <1>3, PrunedKeeps

LEMMA AdmitKeeps ==
  ASSUME MInv, NEW pid \in Pids, ExamineAdmit(pid)
  PROVE  /\ MInv' /\ (Forgotten => Forgotten')
         /\ allowed_pids'[pid] = proc[pid].started
         /\ \A p \in Pids \ {pid} : allowed_pids'[p] = allowed_pids[p]
         /\ scan' = Examined(pid)
<1> USE MonitorAssumption
<1> DEFINE a == proc[pid].app
           d == IF SameInstance(a, pid) \/ InGrace(a) THEN sessions[a].deadline
                ELSE MaxOf(sessions[a].deadline, ChildGrace)
<1>1. Types /\ StampsPast /\ Phases /\ AllowedIsObserved
  BY DEF MInv
<1>2. /\ scan.pc = "examine" /\ pid \in scan.todo /\ Relevant(pid) /\ Admits(a, pid)
      /\ allowed_pids' = [allowed_pids EXCEPT ![pid] = proc[pid].started]
      /\ scan' = Examined(pid)
      /\ UNCHANGED <<proc, starts, db_locks, locked, suppressed, known_pids, start_time>>
  BY DEF ExamineAdmit, TakeIn, osVars
<1>3. sessions' = [sessions EXCEPT
        ![a].observed[pid] = proc[pid].started, ![a].idle = 0, ![a].deadline = d]
  BY DEF ExamineAdmit, TakeIn
<1>4. /\ pid \in Live /\ a \in Apps /\ proc[pid].started \in 1..MaxStarts
      /\ pid \in known_pids /\ HasSession(a) /\ sessions[a] \in Session
      /\ sessions[a].deadline \in -1..GraceCap /\ sessions[a].observed \in [Pids -> 0..MaxStarts]
  BY <1>1, <1>2, ProcessFields, SessionFields DEF Relevant, Admits, Phases
<1>5. d \in -1..GraceCap /\ d >= -1
  BY <1>4 DEF MaxOf, GraceCap
<1> DEFINE taken == [sessions[a] EXCEPT !.observed[pid] = proc[pid].started, !.idle = 0, !.deadline = d]
<1>6. sessions' = [sessions EXCEPT ![a] = taken]
  BY <1>1, <1>3 DEF Types
<1>7. taken \in Session /\ taken.deadline = d
      /\ taken.observed = [sessions[a].observed EXCEPT ![pid] = proc[pid].started]
  <2> DEFINE o == [sessions[a].observed EXCEPT ![pid] = proc[pid].started]
  <2>1. o \in [Pids -> 0..MaxStarts] /\ 0 \in 0..IdleCap
    BY <1>4 DEF IdleCap
  <2>2. taken = [sessions[a] EXCEPT !.observed = o, !.idle = 0, !.deadline = d]
    BY <1>4 DEF Session
  <2> HIDE DEF o, d, taken
  <2>3. taken \in Session /\ taken.deadline = d /\ taken.observed = o
    BY <1>4, <1>5, <2>1, <2>2 DEF Session
  <2> QED BY <2>3 DEF o
<1> HIDE DEF taken, d
<1>8. /\ sessions' \in [Apps -> Session \union {NoSession}]
      /\ sessions'[a] = taken /\ \A b \in Apps \ {a} : sessions'[b] = sessions[b]
  BY <1>1, <1>4, <1>6, <1>7 DEF Types
<1>9. /\ allowed_pids' \in [Pids -> 0..MaxStarts] /\ allowed_pids'[pid] = proc[pid].started
      /\ \A p \in Pids \ {pid} : allowed_pids'[p] = allowed_pids[p]
  BY <1>1, <1>2, <1>4 DEF Types
<1>10. \A p \in Pids \ {pid}, b \in Apps : sessions'[b].observed[p] = sessions[b].observed[p]
  BY <1>4, <1>7, <1>8
<1>11. /\ sessions'[a].observed[pid] = proc[pid].started
       /\ \A b \in Apps \ {a} : sessions'[b].observed[pid] = sessions[b].observed[pid]
  BY <1>4, <1>7, <1>8
<1>12. /\ scan'.pc = "examine" /\ scan'.todo = scan.todo \ {pid} /\ scan'.caught = scan.caught
       /\ scan' \in [pc : {"idle", "clear", "prune", "snapshot", "examine"},
                     todo : SUBSET Pids, caught : SUBSET Handle]
  BY <1>1, <1>2 DEF Types, Examined
<1>13. Types' /\ Phases'
  BY <1>1, <1>2, <1>8, <1>9, <1>12 DEF Types, Phases
<1>14. StampsPast'
  BY <1>1, <1>2, <1>9, <1>10, <1>11 DEF StampsPast
<1>15. Live' = Live
  BY <1>2 DEF Live
<1>16. \A b \in Apps : HasSession(b) => HasSession(b)'
  <2>1. taken # NoSession
    BY <1>5, <1>7 DEF NoSession
  <2> QED BY <1>8, <2>1 DEF HasSession
<1>17. AllowedIsObserved'
  <2> SUFFICES ASSUME NEW p \in Pids, p \in Live, allowed_pids'[p] = proc[p].started
               PROVE  \E b \in Apps : HasSession(b)' /\ sessions'[b].observed[p] = allowed_pids'[p]
    BY <1>2, <1>15 DEF AllowedIsObserved
  <2>1. CASE p = pid
    BY <1>4, <1>9, <1>11, <1>16, <2>1
  <2>2. CASE p # pid
    BY <1>1, <1>9, <1>10, <1>16, <2>2 DEF AllowedIsObserved
  <2> QED BY <2>1, <2>2
<1>18. ASSUME Forgotten PROVE Forgotten'
  <2>1. \A p \in Pids \ {pid} : Remembered(p)' = Remembered(p)
    BY <1>9, <1>10 DEF Remembered
  <2>2. scan.todo \subseteq Pids
    BY <1>1 DEF Types
  <2> QED BY <1>2, <1>4, <1>12, <1>15, <1>18, <2>1, <2>2 DEF Forgotten
<1> QED BY <1>2, <1>9, <1>13, <1>14, <1>17, <1>18 DEF MInv

-----------------------------------------------------------------------------
(* The monitor by itself                                                       *)

\* The steps that do not ask, answer or let time pass.
MonitorAlone ==
  \/ \E pid \in Pids, a \in Apps, d \in Protections : Start(pid, a, d)
  \/ \E pid \in Pids :
       \/ Exit(pid) \/ PruneRaises(pid)
       \/ ExamineIrrelevant(pid) \/ ExamineRaises(pid)
       \/ ExamineAdmit(pid) \/ ExamineReject(pid)
  \/ ChangeLocks \/ MarkStarted
  \/ ScanBegin \/ ClearDead \/ Prune \/ Snapshot \/ SnapshotFails \/ ScanEnd

LEMMA AloneKeepsMonitor ==
  ASSUME MInv, MonitorAlone
  PROVE  MInv' /\ (Readable /\ Forgotten => Forgotten') /\ asked' = asked
<1>1. CASE \E pid \in Pids, a \in Apps, d \in Protections : Start(pid, a, d)
  BY <1>1, StartKeeps DEF Start
<1>2. CASE \E pid \in Pids : Exit(pid)
  BY <1>2, ExitKeeps DEF Exit
<1>3. CASE \E pid \in Pids : ExamineAdmit(pid)
  BY <1>3, AdmitKeeps DEF ExamineAdmit
<1>4. CASE Looks
  <2>1. asked' = asked
    BY <1>4 DEF Looks, MarkStarted, ScanBegin, SnapshotFails, ScanEnd, ChangeLocks, ExamineIrrelevant,
                ExamineRaises, ExamineReject
  <2> QED BY <1>4, <2>1, LooksKeep
<1>5. CASE ClearDead
  BY <1>5, ClearDeadKeeps DEF ClearDead
<1>6. CASE Prune
  BY <1>6, PruneKeeps DEF Prune
<1>7. CASE Snapshot
  BY <1>7, SnapshotKeeps DEF Snapshot
<1>8. CASE \E pid \in Pids : PruneRaises(pid)
  BY <1>8, PruneRaisesKeeps DEF PruneRaises
<1> QED BY <1>1, <1>2, <1>3, <1>4, <1>5, <1>6, <1>7, <1>8 DEF MonitorAlone, Looks

LEMMA MonitorStep ==
  ASSUME MInv, asked \subseteq Apps, [Next]_vars
  PROVE  MInv' /\ asked' \subseteq Apps /\ (Readable /\ Forgotten => Forgotten')
<1>1. CASE MonitorAlone
  BY <1>1, AloneKeepsMonitor
<1>2. CASE Tick
  BY <1>2, AgedKeeps DEF Tick, osVars
<1>3. CASE \E a \in Apps : Authorize(a)
  BY <1>3, AuthorizeKeeps DEF Authorize
<1>4. CASE \E a \in Apps : Cancel(a)
  BY <1>4, AskedKeeps DEF Cancel
<1>5. CASE \E a \in Apps : Enforce(a) \/ EnforceRaises(a)
  BY <1>5, EnforceKeeps DEF Enforce, EnforceRaises
<1>6. CASE UNCHANGED vars
  BY <1>6, AskedKeeps DEF vars
<1> QED BY <1>1, <1>2, <1>3, <1>4, <1>5, <1>6 DEF Next, Environment, ScanStep, MonitorAlone

\* TypeOK is an invariant of the monitor, whatever the system denies, however pids are
\* reused, and whether its handles have the attribute info or not.
THEOREM MonitorTypeCorrect == Spec => []TypeOK
<1>1. Init => MInv /\ asked \subseteq Apps
  BY MonitorInitially DEF Init
<1>2. MInv /\ asked \subseteq Apps /\ [Next]_vars => (MInv /\ asked \subseteq Apps)'
  BY MonitorStep
<1>3. MInv /\ asked \subseteq Apps => TypeOK
  BY DEF MInv, Types, TypeOK
<1> QED BY <1>1, <1>2, <1>3, PTL DEF Spec

\* What still runs and is allowed is observed by a session, so that nothing stays allowed
\* when its session ends (_prune_authorized_sessions): for all that the system may do.
THEOREM AllowedAlwaysObserved == Spec => []AllowedIsObserved
<1>1. Init => MInv /\ asked \subseteq Apps
  BY MonitorInitially DEF Init
<1>2. MInv /\ asked \subseteq Apps /\ [Next]_vars => (MInv /\ asked \subseteq Apps)'
  BY MonitorStep
<1>3. MInv => AllowedIsObserved
  BY DEF MInv
<1> QED BY <1>1, <1>2, <1>3, PTL DEF Spec

LEMMA ForgottenGivesCurrent ==
  ASSUME Types, Forgotten
  PROVE  AllowedIsCurrent
BY DEF Forgotten, Remembered, AllowedIsCurrent, Types

\* The pid that line 466 finds in allowed_pids is that of the process it is looking at,
\* where creation times may be read: then clear_dead_pids leaves no other.
THEOREM AllowedAlwaysCurrent ==
  ASSUME Readable
  PROVE  Spec => []AllowedIsCurrent
<1>1. Init => MInv /\ asked \subseteq Apps /\ Forgotten
  BY MonitorInitially DEF Init
<1>2. MInv /\ asked \subseteq Apps /\ Forgotten /\ [Next]_vars => (MInv /\ asked \subseteq Apps /\ Forgotten)'
  BY Readable, MonitorStep
<1>3. MInv /\ Forgotten => AllowedIsCurrent
  BY ForgottenGivesCurrent DEF MInv
<1> QED BY <1>1, <1>2, <1>3, PTL DEF Spec

-----------------------------------------------------------------------------
(* With the controller                                                         *)

\* The types of the controller's variables; a prompt that has been answered rightly is
\* still the one in the slot until it is released.
CInv ==
  /\ slot \subseteq Controller!Prompt /\ waiting \subseteq Controller!Prompt
  /\ busy = (slot # {})
  /\ hold \in [Apps -> 0..MaxOf(StartupGrace, CancelHold)]
  /\ answer \in {"none", "opened", "refused", "released"}
  /\ scanning \in 0..ScanTicks
  /\ failed \subseteq Apps /\ spared \subseteq Apps /\ overlooked \subseteq Stamp
  /\ asked = IF answer \in {"opened", "refused"} THEN {} ELSE Asked(slot)
  /\ answer \in {"opened", "refused"} => \E a \in Apps : slot = {About(a, FALSE)}

\* What the prompt of a step is about decides whose password is asked for.
LEMMA AskedOfOne ==
  /\ Asked({}) = {}
  /\ \A a, issue : issue \in BOOLEAN => Asked({About(a, issue)}) = IF issue THEN {} ELSE {a}
<1>1. Asked({}) = {}
  BY DEF Asked
<1>2. ASSUME NEW a, NEW issue \in BOOLEAN
      PROVE  Asked({About(a, issue)}) = IF issue THEN {} ELSE {a}
  <2>1. About(a, issue).app = a /\ About(a, issue).issue = issue
    BY DEF About
  <2>2. {q \in {About(a, issue)} : ~q.issue} = IF issue THEN {} ELSE {About(a, issue)}
    BY <2>1
  <2> QED BY <2>1, <2>2 DEF Asked
<1> QED BY <1>1, <1>2

LEMMA AskedTyped ==
  ASSUME CInv
  PROVE  asked \subseteq Apps
<1>1. \A p \in slot : p.app \in Apps
  BY DEF CInv, Controller!Prompt
<1> QED BY <1>1 DEF CInv, Asked

LEMMA PrecedesTypeOK == MInv /\ CInv => SessionsTypeOK
<1> SUFFICES ASSUME MInv, CInv PROVE SessionsTypeOK
  OBVIOUS
<1>1. TypeOK
  BY AskedTyped DEF MInv, Types, TypeOK
<1> QED BY <1>1 DEF CInv, SessionsTypeOK

LEMMA SessionsInitially == SessionsInit => MInv /\ CInv /\ Forgotten
<1> SUFFICES ASSUME SessionsInit PROVE MInv /\ CInv /\ Forgotten
  OBVIOUS
<1>1. MInv /\ Forgotten
  BY MonitorInitially DEF SessionsInit
<1>2. 0 \in 0..MaxOf(StartupGrace, CancelHold) /\ 0 \in 0..ScanTicks
  BY MonitorAssumption, HoldAssumption DEF MaxOf
<1>3. CInv
  BY <1>2, AskedOfOne DEF SessionsInit, Init, CInv
<1> QED BY <1>1, <1>3

LEMMA OverlookedTyped ==
  ASSUME Types', Overlooking
  PROVE  overlooked' \subseteq Stamp
<1>1. \A pid \in Live' : pid \in Pids /\ proc'[pid] \in Process \union {NoProc} /\ proc'[pid] # NoProc
  BY DEF Types, Live
<1>2. \A pid \in Live' : proc'[pid].started \in Stamp
  BY <1>1 DEF Process
<1> QED BY <1>2 DEF Overlooking

LEMMA AloneKeeps ==
  ASSUME MInv, CInv, Alone
  PROVE  MInv' /\ CInv' /\ (Readable /\ Forgotten => Forgotten')
<1>1. MonitorAlone
  BY DEF Alone, MonitorAlone
<1>2. scanning' \in 0..ScanTicks
  BY HoldAssumption DEF Alone, CInv
<1>3. asked' = asked
  BY <1>1, AloneKeepsMonitor
<1>4. overlooked' \subseteq Stamp
  BY <1>1, AloneKeepsMonitor, OverlookedTyped DEF Alone, MInv
<1>5. CInv'
  BY <1>2, <1>3, <1>4 DEF CInv, Alone, controllerVars, resultVars
<1> QED BY <1>1, <1>5, AloneKeepsMonitor

LEMMA PassKeeps ==
  ASSUME MInv, CInv, Pass
  PROVE  MInv' /\ CInv' /\ (Readable /\ Forgotten => Forgotten')
<1> USE MonitorAssumption, HoldAssumption
<1>1. MInv' /\ (Forgotten => Forgotten')
  BY AgedKeeps DEF Pass, osVars
<1>2. scanning' \in 0..ScanTicks
  BY DEF Pass, CInv
<1>3. hold' \in [Apps -> 0..MaxOf(StartupGrace, CancelHold)]
  <2>1. ASSUME NEW a \in Apps PROVE Left(hold[a]) \in 0..MaxOf(StartupGrace, CancelHold)
    <3>1. hold[a] \in 0..MaxOf(StartupGrace, CancelHold) /\ MaxOf(StartupGrace, CancelHold) \in Nat
      BY DEF CInv, MaxOf
    <3> QED BY <3>1 DEF Left
  <2> QED BY <2>1 DEF Pass
<1>4. CInv'
  BY <1>2, <1>3 DEF CInv, Pass, resultVars, survivorVars
<1> QED BY <1>1, <1>4

LEMMA InterceptKeeps ==
  ASSUME MInv, CInv, NEW a \in Apps, Intercept(a)
  PROVE  MInv' /\ CInv' /\ (Readable /\ Forgotten => Forgotten')
<1>1. MInv' /\ (Forgotten => Forgotten')
  BY EnforceKeeps DEF Intercept
<1> DEFINE issue == Denied(a) = Caught(a)
           p == About(a, issue)
<1>2. /\ OnIntercept(p) /\ asked' = asked \union Asked(slot' \ slot)
      /\ spared' = IF issue THEN spared \union {a} ELSE spared
      /\ scanning' \in {0, scanning}
      /\ UNCHANGED <<answer, failed, overlooked>>
  BY DEF Intercept, Spare, resultVars
<1>3. p \in Controller!Prompt
  BY DEF Controller!Prompt, About
<1> HIDE DEF issue, p
<1>4. spared' \subseteq Apps /\ scanning' \in 0..ScanTicks
  BY <1>2, HoldAssumption DEF CInv
<1>5. CASE Controller!Accept(p)
  <2>1. slot = {} /\ slot' = {p} /\ busy' = TRUE /\ waiting' = waiting /\ answer \notin {"opened", "refused"}
    BY <1>5 DEF CInv, Controller!Accept
  <2>2. asked' = Asked(slot')
    BY <1>2, <2>1, AskedOfOne DEF CInv
  <2> QED BY <1>1, <1>2, <1>3, <1>4, <2>1, <2>2 DEF CInv, OnIntercept
<1>6. CASE slot' = slot /\ busy' = busy /\ waiting' \in {waiting, waiting \union {p}}
  <2>1. asked' = asked
    BY <1>2, <1>6, AskedOfOne
  <2> QED BY <1>1, <1>2, <1>3, <1>4, <1>6, <2>1 DEF CInv, OnIntercept
<1> QED BY <1>2, <1>5, <1>6 DEF OnIntercept, Controller!Defer

LEMMA InterceptRaisesKeeps ==
  ASSUME MInv, CInv, NEW a \in Apps, InterceptRaises(a)
  PROVE  MInv' /\ CInv' /\ (Readable /\ Forgotten => Forgotten')
<1>1. MInv' /\ (Forgotten => Forgotten')
  BY EnforceKeeps DEF InterceptRaises
<1>2. overlooked' \subseteq Stamp
  BY <1>1, OverlookedTyped DEF InterceptRaises, MInv
<1>3. asked' = asked /\ spared' \subseteq Apps /\ scanning' \in 0..ScanTicks
  BY HoldAssumption DEF InterceptRaises, EnforceRaises, Spare, CInv
<1>4. CInv'
  BY <1>2, <1>3 DEF CInv, InterceptRaises, controllerVars, resultVars
<1> QED BY <1>1, <1>4

LEMMA OpenKeeps ==
  ASSUME MInv, CInv, NEW a \in Apps, Open(a)
  PROVE  MInv' /\ CInv' /\ (Readable /\ Forgotten => Forgotten')
<1>1. MInv' /\ (Forgotten => Forgotten')
  BY AuthorizeKeeps DEF Open
<1>2. asked' = {}
  BY AskedOfOne DEF Open, Answerable, Authorize, CInv
<1> QED BY <1>1, <1>2 DEF Open, Answerable, CInv, controllerVars, survivorVars

LEMMA RefuseKeeps ==
  ASSUME MInv, CInv, NEW a \in Apps, Refuse(a)
  PROVE  MInv' /\ CInv' /\ (Readable /\ Forgotten => Forgotten')
<1>1. MInv' /\ (Forgotten => Forgotten')
  BY AskedKeeps DEF Refuse, Cancel
<1>2. asked' = {}
  BY AskedOfOne DEF Refuse, Answerable, Cancel, CInv
<1> QED BY <1>1, <1>2 DEF Refuse, Answerable, CInv, controllerVars, survivorVars

LEMMA HeldTyped ==
  ASSUME CInv, NEW a \in Apps, NEW ticks \in {StartupGrace, CancelHold}, Held(a, ticks)
  PROVE  hold' \in [Apps -> 0..MaxOf(StartupGrace, CancelHold)]
<1> USE MonitorAssumption, HoldAssumption
<1>1. ticks \in 0..MaxOf(StartupGrace, CancelHold)
  BY DEF MaxOf
<1> QED BY <1>1 DEF Held, CInv

LEMMA ReleaseKeeps ==
  ASSUME MInv, CInv, NEW a \in Apps, Release(a)
  PROVE  MInv' /\ CInv' /\ (Readable /\ Forgotten => Forgotten')
<1>1. MInv' /\ (Forgotten => Forgotten') /\ asked' = asked
  BY AskedKeeps DEF Release, vars
<1>2. hold' \in [Apps -> 0..MaxOf(StartupGrace, CancelHold)]
  BY HeldTyped DEF Release, CInv
<1>3. slot' = {} /\ busy' = FALSE /\ waiting' \subseteq waiting
  BY DEF Release, Controller!Resolve
<1>4. /\ answer' = "released" /\ asked = {}
      /\ failed' \subseteq Apps /\ UNCHANGED <<scanning, spared, overlooked>>
  BY DEF Release, CInv, survivorVars
<1> QED BY <1>1, <1>2, <1>3, <1>4, AskedOfOne DEF CInv

LEMMA DismissKeeps ==
  ASSUME MInv, CInv, NEW a \in Apps, Dismiss(a)
  PROVE  MInv' /\ CInv' /\ (Readable /\ Forgotten => Forgotten')
<1>1. PICK issue \in BOOLEAN :
       /\ Answerable(a, issue)
       /\ IF issue THEN UNCHANGED vars ELSE Cancel(a)
       /\ Controller!Resolve(About(a, issue))
  BY DEF Dismiss
<1>2. MInv' /\ (Forgotten => Forgotten')
  BY <1>1, AskedKeeps DEF vars, Cancel
<1>3. hold' \in [Apps -> 0..MaxOf(StartupGrace, CancelHold)]
  BY HeldTyped DEF Dismiss
<1>4. slot' = {} /\ busy' = FALSE /\ waiting' \subseteq waiting
  BY <1>1 DEF Controller!Resolve
<1>5. asked' = {}
  <2>1. asked = IF issue THEN {} ELSE {a}
    BY <1>1, AskedOfOne DEF Answerable, CInv
  <2> QED BY <1>1, <2>1 DEF vars, Cancel
<1>6. answer' = "released" /\ UNCHANGED <<failed, scanning, spared, overlooked>>
  BY DEF Dismiss, survivorVars
<1> QED BY <1>2, <1>3, <1>4, <1>5, <1>6, AskedOfOne DEF CInv

LEMMA ProcessPendingKeeps ==
  ASSUME MInv, CInv, ProcessPending
  PROVE  MInv' /\ CInv' /\ (Readable /\ Forgotten => Forgotten')
<1>1. MInv' /\ (Forgotten => Forgotten')
  BY AskedKeeps DEF ProcessPending
<1>2. /\ answer = "released" /\ answer' = "none"
      /\ UNCHANGED <<hold, failed, scanning, spared, overlooked>>
  BY DEF ProcessPending, survivorVars
<1>3. CASE \E p \in waiting : Controller!Promote(p) /\ asked' = asked \union Asked({p})
  <2>1. PICK p \in waiting : Controller!Promote(p) /\ asked' = asked \union Asked({p})
    BY <1>3
  <2>2. slot = {} /\ slot' = {p} /\ busy' = TRUE /\ waiting' \subseteq waiting
    BY <2>1 DEF Controller!Promote, CInv
  <2>3. asked' = Asked(slot')
    BY <1>2, <2>1, <2>2, AskedOfOne DEF CInv
  <2> QED BY <1>1, <1>2, <2>2, <2>3 DEF CInv
<1>4. CASE UNCHANGED <<slot, busy, waiting, asked>>
  BY <1>1, <1>2, <1>4 DEF CInv
<1> QED BY <1>3, <1>4 DEF ProcessPending

LEMMA SessionsStep ==
  ASSUME MInv, CInv, [SessionsNext]_allVars
  PROVE  MInv' /\ CInv' /\ (Readable /\ Forgotten => Forgotten')
<1>1. CASE UNCHANGED allVars
  <2>1. MInv' /\ (Forgotten => Forgotten')
    BY <1>1, AskedKeeps DEF allVars, vars
  <2>2. CInv'
    BY <1>1 DEF allVars, vars, controllerVars, resultVars, survivorVars, CInv
  <2> QED BY <2>1, <2>2
<1> QED BY <1>1, AloneKeeps, PassKeeps, InterceptKeeps, InterceptRaisesKeeps, OpenKeeps, RefuseKeeps, ReleaseKeeps,
           DismissKeeps, ProcessPendingKeeps DEF SessionsNext

\* SessionsTypeOK is an invariant of the two together: a password is asked for exactly while
\* its prompt is in the slot and unanswered, whichever thread put it there.
THEOREM SessionsTypeCorrect == SessionsSpec => []SessionsTypeOK
<1>1. SessionsInit => MInv /\ CInv
  BY SessionsInitially
<1>2. MInv /\ CInv /\ [SessionsNext]_allVars => (MInv /\ CInv)'
  BY SessionsStep
<1>3. MInv /\ CInv => SessionsTypeOK
  BY PrecedesTypeOK
<1> QED BY <1>1, <1>2, <1>3, PTL DEF SessionsSpec

\* With the controller as without it.
THEOREM SessionsAllowedCurrent ==
  ASSUME Readable
  PROVE  SessionsSpec => []AllowedIsCurrent
<1>1. SessionsInit => MInv /\ CInv /\ Forgotten
  BY SessionsInitially
<1>2. MInv /\ CInv /\ Forgotten /\ [SessionsNext]_allVars => (MInv /\ CInv /\ Forgotten)'
  BY Readable, SessionsStep
<1>3. MInv /\ Forgotten => AllowedIsCurrent
  BY ForgottenGivesCurrent DEF MInv
<1> QED BY <1>1, <1>2, <1>3, PTL DEF SessionsSpec

-----------------------------------------------------------------------------
(* Who survives a scan                                                         *)

\* The scans have passed the pid, whatever the rules say of its process.
Passed(pid) ==
  /\ pid \in Live /\ pid \in known_pids
  /\ pid \notin scan.todo
  /\ \A h \in scan.caught : h.pid # pid
  /\ proc[pid].started > start_time

Accounted(pid) ==
  \/ Observed(pid)
  \/ proc[pid].protection # "none"
  \/ proc[pid].app \in spared
  \/ proc[pid].started \in overlooked

NotYet == start_time = -1 => known_pids = {} /\ scan.pc = "idle"

\* The pid of a caught instance has that instance, or none, or one that no scan will judge.
CaughtStay ==
  \A h \in scan.caught :
    /\ h.pid \notin scan.todo
    /\ h.pid \in Live => proc[h.pid].started \in {h.started} \union overlooked

SuppressedSpared == \A a \in Apps : suppressed[a] > 0 => a \in spared

LInv ==
  /\ NotYet /\ CaughtStay /\ SuppressedSpared
  /\ \A pid \in Pids : Passed(pid) => Accounted(pid)

LEMMA SettledPassed == LInv => SurvivorsAccounted
BY DEF LInv, SurvivorsAccounted, Settled, Passed, Accounted

\* What remains overlooked, and what a session observes.
LEMMA StaysOverlooked ==
  ASSUME Overlooking, NEW pid \in Live', proc'[pid].started \in overlooked
  PROVE  proc'[pid].started \in overlooked'
BY DEF Overlooking

LEMMA ObservedHere ==
  ASSUME Types, NEW pid \in Live, Observed(pid)
  PROVE  \E a \in Apps : /\ HasSession(a) /\ pid \in LiveObserved(sessions[a].observed)
                         /\ sessions[a].observed[pid] = proc[pid].started
<1>1. pid \in Pids /\ proc[pid].started # 0
  BY ProcessFields DEF Live
<1>2. PICK a \in Apps : sessions[a].observed[pid] = proc[pid].started
  BY DEF Observed
<1>3. HasSession(a)
  BY <1>1, <1>2, SessionFields
<1>4. pid \in LiveObserved(sessions[a].observed)
  BY <1>1, <1>2, ReadableMatches DEF LiveObserved
<1> QED BY <1>2, <1>3, <1>4

LEMMA LStart ==
  ASSUME MInv, LInv, NEW pid \in Pids, NEW a \in Apps, NEW d \in Protections,
         Start(pid, a, d), UNCHANGED spared, Overlooking
  PROVE  LInv'
<1>1. /\ pid \notin Live /\ \A p \in Pids \ {pid} : proc'[p] = proc[p]
      /\ UNCHANGED <<sessions, suppressed, known_pids, start_time, scan>>
  BY DEF Start, MInv, Types, sessionVars
<1>2. NotYet' /\ SuppressedSpared'
  BY <1>1 DEF LInv, NotYet, SuppressedSpared
<1>3. pid \in Live' /\ pid \in known_pids \ scan.todo => proc'[pid].started \in overlooked'
  BY <1>1 DEF Overlooking, Disguised
<1>4. \A p \in Live' \ {pid} : p \in Pids /\ p \in Live /\ proc'[p] = proc[p]
  BY <1>1 DEF Live
<1>5. CaughtStay'
  <2> SUFFICES ASSUME NEW h \in scan.caught, h.pid \in Live'
               PROVE  proc'[h.pid].started \in {h.started} \union overlooked'
    BY <1>1 DEF LInv, CaughtStay
  <2>1. CASE h.pid = pid
    BY <1>3, <2>1 DEF MInv, Phases, LInv, CaughtStay
  <2>2. CASE h.pid # pid
    BY <1>4, <2>2, StaysOverlooked DEF LInv, CaughtStay
  <2> QED BY <2>1, <2>2
<1>6. ASSUME NEW p \in Pids, Passed(p)' PROVE Accounted(p)'
  <2>1. CASE p = pid
    BY <1>1, <1>3, <1>6, <2>1 DEF Passed, Accounted
  <2>2. CASE p # pid
    <3>1. p \in Live' /\ p \in Live /\ proc'[p] = proc[p]
      BY <1>4, <1>6, <2>2 DEF Passed
    <3>2. Accounted(p)
      BY <1>1, <1>6, <3>1 DEF LInv, Passed
    <3> QED BY <1>1, <3>1, <3>2, StaysOverlooked DEF Accounted, Observed
  <2> QED BY <2>1, <2>2
<1> QED BY <1>2, <1>5, <1>6 DEF LInv

\* Processes end, sessions go on observing who is not ended, and the scan gets no further
\* with the pids, or has nothing left to look at.
LEMMA LCalm ==
  ASSUME MInv, LInv, UNCHANGED <<known_pids, start_time>>, NotYet',
         \A a \in Apps : suppressed'[a] > 0 => suppressed[a] > 0,
         spared \subseteq spared', Overlooking \/ UNCHANGED <<proc, overlooked>>,
         scan'.todo = scan.todo, scan'.caught = scan.caught,
         \A pid \in Pids : proc'[pid] \in {proc[pid], NoProc},
         \A pid \in Live' : Observed(pid) => Observed(pid)' \/ proc[pid].protection # "none"
  PROVE  LInv'
<1>1. \A p \in Live' : p \in Pids /\ p \in Live /\ proc'[p] = proc[p]
  BY DEF Live
<1>2. \A p \in Live' : proc[p].started \in overlooked => proc[p].started \in overlooked'
  BY <1>1, StaysOverlooked
<1>3. SuppressedSpared'
  BY DEF LInv, SuppressedSpared
<1>4. CaughtStay'
  BY <1>1, <1>2 DEF LInv, CaughtStay
<1>5. ASSUME NEW p \in Pids, Passed(p)' PROVE Accounted(p)'
  <2>1. p \in Live' /\ p \in Live /\ proc'[p] = proc[p]
    BY <1>1, <1>5 DEF Passed
  <2>2. Accounted(p)
    BY <1>5, <2>1 DEF LInv, Passed
  <2> QED BY <1>2, <2>1, <2>2 DEF Accounted
<1> QED BY <1>3, <1>4, <1>5 DEF LInv

LEMMA LExit ==
  ASSUME MInv, LInv, NEW pid \in Pids, Exit(pid), UNCHANGED spared, Overlooking
  PROVE  LInv'
<1>1. /\ \A p \in Pids : proc'[p] \in {proc[p], NoProc}
      /\ UNCHANGED <<sessions, suppressed, known_pids, start_time, scan>>
  BY DEF Exit, MInv, Types, sessionVars
<1>2. \A p \in Live' : Observed(p) => Observed(p)'
  BY <1>1 DEF Live, Observed
<1>3. NotYet'
  BY <1>1 DEF LInv, NotYet
<1> QED BY <1>1, <1>2, <1>3, LCalm

\* The steps between scans, and those of a scan before it looks at processes.
LEMMA LLooks ==
  ASSUME MInv, LInv, UNCHANGED spared, Overlooking,
         ChangeLocks \/ ScanBegin \/ ClearDead \/ SnapshotFails \/ ScanEnd
  PROVE  LInv'
<1>1. UNCHANGED <<proc, sessions, suppressed, known_pids, start_time>>
  BY DEF ChangeLocks, ScanBegin, ClearDead, SnapshotFails, ScanEnd, osVars, sessionVars
<1>2. scan'.todo = scan.todo /\ scan'.caught = scan.caught
  <2>1. CASE ChangeLocks
    BY <2>1 DEF ChangeLocks
  <2>2. CASE ScanBegin \/ ClearDead
    BY <2>2 DEF ScanBegin, ClearDead, MInv, Types
  <2>3. CASE SnapshotFails \/ ScanEnd
    <3>1. scan.todo = {} /\ scan.caught = {} /\ scan' = IdleScan
      BY <2>3 DEF SnapshotFails, ScanEnd, MInv, Phases
    <3> QED BY <3>1 DEF IdleScan
  <2> QED BY <2>1, <2>2, <2>3
<1>3. NotYet'
  BY <1>1 DEF LInv, NotYet, ChangeLocks, ScanBegin, ClearDead, SnapshotFails, ScanEnd
<1>4. \A p \in Live' : Observed(p) => Observed(p)'
  BY <1>1 DEF Observed
<1> QED BY <1>1, <1>2, <1>3, <1>4, LCalm

LEMMA LMarkStarted ==
  ASSUME MInv, LInv, MarkStarted, UNCHANGED spared, Overlooking
  PROVE  LInv'
<1>1. /\ UNCHANGED <<proc, suppressed, scan>> /\ known_pids' = {} /\ start_time' # -1
      /\ scan.caught = {}
  BY DEF MarkStarted, LInv, NotYet, osVars, MInv, Phases, Types
<1> QED BY <1>1 DEF LInv, NotYet, CaughtStay, SuppressedSpared, Passed

LEMMA LPrune ==
  ASSUME MInv, LInv, Prune, UNCHANGED spared, Overlooking
  PROVE  LInv'
<1>1. PICK visible \in SUBSET Apps :
       /\ sessions' = [a \in Apps |->
            IF ~HasSession(a) \/ a \in Lingering(visible) \/ Deserted(a) THEN NoSession
            ELSE Kept(a, visible)]
       /\ proc' = [pid \in Pids |->
            IF pid \in LingeringPids(visible) /\ proc[pid].protection = "none"
            THEN NoProc ELSE proc[pid]]
  BY DEF Prune
<1>2. /\ scan.pc = "prune" /\ scan'.todo = scan.todo /\ scan'.caught = scan.caught
      /\ UNCHANGED <<suppressed, known_pids, start_time>>
  BY DEF Prune, MInv, Types, Phases, IdleScan
<1>3. NotYet'
  BY <1>2 DEF LInv, NotYet
<1>4. \A p \in Pids : proc'[p] \in {proc[p], NoProc}
  BY <1>1
<1>5. ASSUME NEW p \in Live', Observed(p), proc[p].protection = "none" PROVE Observed(p)'
  <2>1. p \in Pids /\ p \in Live /\ proc'[p] = proc[p] /\ p \notin LingeringPids(visible)
    BY <1>1, <1>5 DEF Live
  <2>2. PICK a \in Apps : /\ HasSession(a) /\ p \in LiveObserved(sessions[a].observed)
                          /\ sessions[a].observed[p] = proc[p].started
    BY <1>5, <2>1, ObservedHere DEF MInv
  <2>3. sessions'[a] = Kept(a, visible)
    BY <1>1, <2>1, <2>2 DEF LingeringPids, Deserted
  <2>4. sessions'[a].observed[p] = proc'[p].started
    BY <2>1, <2>2, <2>3, KeptSession DEF MInv
  <2> QED BY <2>4 DEF Observed
<1> QED BY <1>2, <1>3, <1>4, <1>5, LCalm

LEMMA LPruneRaises ==
  ASSUME MInv, LInv, NEW failing \in Pids, PruneRaises(failing), UNCHANGED spared, Overlooking
  PROVE  LInv'
<1>1. /\ scan.pc = "prune" /\ scan'.todo = scan.todo /\ scan'.caught = scan.caught
      /\ scan'.pc = "idle" /\ UNCHANGED <<suppressed, known_pids, start_time>>
  BY DEF PruneRaises, MInv, Types, Phases, IdleScan
<1>2. NotYet'
  BY <1>1 DEF LInv, NotYet
<1>3. \A p \in Pids : proc'[p] \in {proc[p], NoProc}
  BY PruneRaisesDoes DEF Fading
<1>4. ASSUME NEW p \in Live', Observed(p), proc[p].protection = "none" PROVE Observed(p)'
  <2>1. p \in Pids /\ p \in Live /\ proc'[p] = proc[p] /\ proc'[p] # NoProc
    BY <1>3, <1>4 DEF Live
  <2>2. PICK a \in Apps : /\ p \in LiveObserved(sessions[a].observed)
                          /\ sessions[a].observed[p] = proc[p].started
    BY <1>4, <2>1, ObservedHere DEF MInv
  <2>3. CASE p # failing
    BY <1>4, <2>1, <2>2, <2>3, PruneRaisesDoes DEF Observed
  <2>4. CASE p = failing
    <3>1. PICK b \in Apps : /\ failing \in LiveObserved(sessions[b].observed)
                            /\ sessions'[b].observed[failing] = sessions[b].observed[failing]
      BY PruneRaisesDoes
    <3>2. sessions[b].observed[p] = proc[p].started
      BY <1>4, <2>4, <3>1 DEF LiveObserved, PidMatches
    <3> QED BY <2>1, <2>4, <3>1, <3>2 DEF Observed
  <2> QED BY <2>3, <2>4
<1> QED BY <1>1, <1>2, <1>3, <1>4, LCalm

LEMMA LSnapshot ==
  ASSUME MInv, LInv, Snapshot, UNCHANGED spared, Overlooking
  PROVE  LInv'
<1>1. /\ UNCHANGED <<proc, sessions, suppressed, start_time>>
      /\ known_pids' = Live /\ scan.pc = "snapshot" /\ scan.todo = {} /\ scan.caught = {}
      /\ scan'.caught = {} /\ Live \ known_pids \subseteq scan'.todo
  BY DEF Snapshot, osVars, sessionVars, MInv, Types, Phases, IdleScan
<1>2. NotYet' /\ SuppressedSpared' /\ CaughtStay'
  BY <1>1 DEF LInv, NotYet, SuppressedSpared, CaughtStay
<1>3. ASSUME NEW p \in Pids, Passed(p)' PROVE Accounted(p)'
  <2>1. p \in Live' /\ p \in Live /\ Passed(p)
    BY <1>1, <1>3 DEF Passed, Live
  <2> QED BY <1>1, <2>1, StaysOverlooked DEF LInv, Accounted, Observed
<1> QED BY <1>2, <1>3 DEF LInv

\* A pid has been examined: it is the only one this may settle.
LEMMA LExamined ==
  ASSUME MInv, LInv, NEW pid \in Pids, pid \in scan.todo, UNCHANGED spared, Overlooking,
         UNCHANGED <<proc, suppressed, known_pids, start_time>>,
         scan'.pc = scan.pc, scan'.todo = scan.todo \ {pid}, scan.caught \subseteq scan'.caught,
         \A p \in Live \ {pid} : Observed(p) => Observed(p)',
         \A h \in scan'.caught \ scan.caught : h.pid = pid /\ h.started = proc[pid].started,
         Passed(pid)' => Accounted(pid)'
  PROVE  LInv'
<1>1. NotYet' /\ SuppressedSpared'
  BY DEF LInv, NotYet, SuppressedSpared
<1>2. Live' = Live
  BY DEF Live
<1>3. CaughtStay'
  <2> SUFFICES ASSUME NEW h \in scan'.caught
               PROVE  /\ h.pid \notin scan'.todo
                      /\ h.pid \in Live => proc[h.pid].started \in {h.started} \union overlooked'
    BY <1>2 DEF CaughtStay
  <2>1. CASE h \in scan.caught
    BY <1>2, <2>1, StaysOverlooked DEF LInv, CaughtStay
  <2>2. CASE h \notin scan.caught
    BY <2>2
  <2> QED BY <2>1, <2>2
<1>4. ASSUME NEW p \in Pids, Passed(p)', p # pid PROVE Accounted(p)'
  <2>1. p \in Live' /\ p \in Live /\ Passed(p)
    BY <1>2, <1>4 DEF Passed
  <2> QED BY <1>4, <2>1, StaysOverlooked DEF LInv, Accounted
<1> QED BY <1>1, <1>3, <1>4 DEF LInv

LEMMA LIrrelevant ==
  ASSUME MInv, LInv, NEW pid \in Pids, ExamineIrrelevant(pid), UNCHANGED spared, Overlooking
  PROVE  LInv'
<1>1. /\ UNCHANGED <<proc, sessions, suppressed, known_pids, start_time>>
      /\ pid \in scan.todo /\ ~Relevant(pid)
      /\ scan'.pc = scan.pc /\ scan'.todo = scan.todo \ {pid} /\ scan'.caught = scan.caught
  BY DEF ExamineIrrelevant, osVars, sessionVars, MInv, Types, Examined
<1>2. ASSUME Passed(pid)' PROVE Accounted(pid)'
  <2>1. pid \in Live' /\ pid \in Live /\ proc[pid].started > start_time
    BY <1>1, <1>2 DEF Passed, Live
  <2>2. CASE proc[pid].protection = "read"
    BY <1>1, <2>2 DEF Accounted
  <2>3. CASE proc[pid].app \notin locked
    <3>1. proc[pid].started \in Unruled
      BY <1>1, <2>3 DEF Unruled
    <3> QED BY <1>1, <2>1, <3>1 DEF Overlooking, Accounted
  <2> QED BY <1>1, <2>1, <2>2, <2>3 DEF Relevant
<1>3. \A p : Observed(p) => Observed(p)'
  BY <1>1 DEF Observed
<1> QED BY <1>1, <1>2, <1>3, LExamined

LEMMA LAdmit ==
  ASSUME MInv, LInv, NEW pid \in Pids, ExamineAdmit(pid), UNCHANGED spared, Overlooking
  PROVE  LInv'
<1>1. /\ UNCHANGED <<proc, suppressed, known_pids, start_time>>
      /\ pid \in scan.todo /\ pid \in Live /\ proc[pid].app \in Apps
      /\ scan' = Examined(pid) /\ HasSession(proc[pid].app)
  BY ProcessFields DEF ExamineAdmit, osVars, Relevant, MInv, Admits
<1>2. scan'.pc = scan.pc /\ scan'.todo = scan.todo \ {pid} /\ scan'.caught = scan.caught
  BY <1>1 DEF MInv, Types, Examined
<1> DEFINE a == proc[pid].app
           d == IF SameInstance(a, pid) \/ InGrace(a) THEN sessions[a].deadline
                ELSE MaxOf(sessions[a].deadline, ChildGrace)
<1>3. sessions' = [sessions EXCEPT
        ![a].observed[pid] = proc[pid].started, ![a].idle = 0, ![a].deadline = d]
  BY DEF ExamineAdmit, TakeIn
<1>4. sessions[a] \in Session /\ sessions[a].observed \in [Pids -> 0..MaxStarts]
  BY <1>1, SessionFields DEF MInv
<1> HIDE DEF d
<1>5. /\ sessions'[a].observed = [sessions[a].observed EXCEPT ![pid] = proc[pid].started]
      /\ \A b \in Apps \ {a} : sessions'[b] = sessions[b]
  <2>1. sessions'[a] = [sessions[a] EXCEPT !.observed[pid] = proc[pid].started, !.idle = 0, !.deadline = d]
    BY <1>1, <1>3 DEF MInv, Types
  <2>2. sessions'[a].observed = [sessions[a].observed EXCEPT ![pid] = proc[pid].started]
    BY <1>4, <2>1 DEF Session
  <2> QED BY <1>1, <1>3, <2>2 DEF MInv, Types
<1>6. Observed(pid)'
  BY <1>1, <1>4, <1>5 DEF Observed
<1>7. \A p \in Live \ {pid} : Observed(p) => Observed(p)'
  BY <1>1, <1>4, <1>5 DEF Observed, Live
<1> QED BY <1>1, <1>2, <1>6, <1>7, LExamined DEF Accounted

\* Who is not admitted is caught, unless his app is suppressed: nothing is left of what the
\* pid may have been allowed before.
LEMMA LReject ==
  ASSUME MInv, Forgotten, LInv, NEW pid \in Pids, ExamineReject(pid), UNCHANGED spared, Overlooking
  PROVE  LInv'
<1> DEFINE h == [pid |-> pid, started |-> proc[pid].started, app |-> proc[pid].app]
<1>1. /\ UNCHANGED <<proc, sessions, suppressed, known_pids, start_time>>
      /\ pid \in scan.todo /\ Relevant(pid)
      /\ scan' = IF allowed_pids[pid] # 0 \/ suppressed[proc[pid].app] > 0
                 THEN Examined(pid)
                 ELSE [Examined(pid) EXCEPT !.caught = @ \union {h}]
  BY DEF ExamineReject, osVars, sessionVars
<1>2. allowed_pids[pid] = 0
  BY <1>1 DEF Forgotten, Remembered
<1>3. proc[pid].app \in Apps
  BY <1>1, ProcessFields DEF MInv, Relevant
<1>4. \A p : Observed(p) => Observed(p)'
  BY <1>1 DEF Observed
<1>5. CASE suppressed[proc[pid].app] > 0
  <2>1. scan'.pc = scan.pc /\ scan'.todo = scan.todo \ {pid} /\ scan'.caught = scan.caught
    BY <1>1, <1>5 DEF MInv, Types, Examined
  <2>2. Accounted(pid)'
    BY <1>1, <1>3, <1>5 DEF LInv, SuppressedSpared, Accounted
  <2> QED BY <1>1, <1>4, <2>1, <2>2, LExamined
<1>6. CASE ~(suppressed[proc[pid].app] > 0)
  <2>1. scan'.pc = scan.pc /\ scan'.todo = scan.todo \ {pid} /\ scan'.caught = scan.caught \union {h}
    BY <1>1, <1>2, <1>6 DEF MInv, Types, Examined
  <2>2. h.pid = pid /\ h.started = proc[pid].started
    OBVIOUS
  <2>3. ~Passed(pid)'
    BY <2>1, <2>2 DEF Passed
  <2> HIDE DEF h
  <2> QED BY <1>1, <1>4, <2>1, <2>2, <2>3, LExamined
<1> QED BY <1>5, <1>6

\* The caught instances of an app are ended, unless the system denies it; one that has been
\* replaced meanwhile is overlooked.
LEMMA LTerminated ==
  ASSUME MInv, LInv, NEW a \in Apps, Terminate(a), Spare(a)
  PROVE  /\ SuppressedSpared' /\ spared \subseteq spared'
         /\ \A p \in Live' : p \in Pids /\ p \in Live /\ proc'[p] = proc[p]
         /\ \A h \in Caught(a) : h.pid \in Live' =>
              proc[h.pid].protection # "none" \/ proc[h.pid].started \in overlooked
<1>1. proc' = [pid \in Pids |->
           IF \E h \in Current(a) \ Denied(a) : h.pid = pid THEN NoProc ELSE proc[pid]]
  BY DEF Terminate
<1>2. SuppressedSpared' /\ spared \subseteq spared'
  BY DEF Terminate, Spare, LInv, SuppressedSpared, MInv, Types
<1>3. \A p \in Live' : p \in Pids /\ p \in Live /\ proc'[p] = proc[p]
  BY <1>1 DEF Live
<1>4. ASSUME NEW h \in Caught(a), h.pid \in Live', proc[h.pid].started \notin overlooked
      PROVE  proc[h.pid].protection # "none"
  <2>1. h.pid \in Live /\ proc'[h.pid] # NoProc /\ h.pid \in Pids
    BY <1>3, <1>4 DEF Live
  <2>2. h \in Current(a)
    BY <1>4, <2>1 DEF Caught, Current, LInv, CaughtStay
  <2>3. h \in Denied(a)
    BY <1>1, <2>1, <2>2
  <2> QED BY <2>3 DEF Denied
<1> QED BY <1>2, <1>3, <1>4

LEMMA LIntercept ==
  ASSUME MInv, LInv, NEW a \in Apps, Intercept(a)
  PROVE  LInv'
<1>1. /\ Terminate(a) /\ Spare(a)
      /\ scan'.pc = scan.pc /\ scan'.todo = scan.todo /\ scan'.caught = scan.caught \ Caught(a)
      /\ UNCHANGED <<sessions, known_pids, start_time, overlooked>>
  BY DEF Intercept, Enforce, Terminate, sessionVars, MInv, Types
<1>2. /\ SuppressedSpared' /\ spared \subseteq spared'
      /\ \A p \in Live' : p \in Pids /\ p \in Live /\ proc'[p] = proc[p]
      /\ \A h \in Caught(a) : h.pid \in Live' =>
           proc[h.pid].protection # "none" \/ proc[h.pid].started \in overlooked
  BY <1>1, LTerminated
<1>3. NotYet' /\ CaughtStay'
  BY <1>1, <1>2 DEF LInv, NotYet, CaughtStay
<1>4. ASSUME NEW p \in Pids, Passed(p)' PROVE Accounted(p)'
  <2>1. p \in Live' /\ p \in Live /\ proc'[p] = proc[p]
    BY <1>2, <1>4 DEF Passed
  <2>2. CASE Passed(p)
    BY <1>1, <1>2, <2>1, <2>2 DEF LInv, Accounted, Observed
  <2>3. CASE ~Passed(p)
    <3>1. PICK h \in Caught(a) : h.pid = p
      BY <1>1, <1>4, <2>1, <2>3 DEF Passed
    <3> QED BY <1>1, <1>2, <2>1, <3>1 DEF Accounted
  <2> QED BY <2>2, <2>3
<1> QED BY <1>2, <1>3, <1>4 DEF LInv

\* The scan is broken off: what it had found and not got to is overlooked.
LEMMA LBroken ==
  ASSUME MInv, LInv, scan.pc = "examine", scan' = IdleScan, Overlooking,
         SuppressedSpared', spared \subseteq spared',
         \A p \in Live' : p \in Pids /\ p \in Live /\ proc'[p] = proc[p],
         UNCHANGED <<sessions, known_pids, start_time>>
  PROVE  LInv'
<1>1. scan'.pc = "idle" /\ scan'.todo = {} /\ scan'.caught = {}
  BY DEF IdleScan
<1>2. NotYet' /\ CaughtStay'
  BY <1>1 DEF LInv, NotYet, CaughtStay
<1>3. ASSUME NEW p \in Pids, Passed(p)' PROVE Accounted(p)'
  <2>1. p \in Live' /\ p \in Live /\ proc'[p] = proc[p]
    BY <1>3 DEF Passed
  <2>2. CASE Passed(p)
    BY <2>1, <2>2, StaysOverlooked DEF LInv, Accounted, Observed
  <2>3. CASE ~Passed(p)
    <3>1. p \in scan.todo \/ \E h \in scan.caught : h.pid = p
      BY <1>3, <2>1, <2>3 DEF Passed
    <3>2. proc[p].started \in Abandoned \union overlooked
      BY <1>1, <2>1, <3>1 DEF Abandoned, LInv, CaughtStay
    <3> QED BY <2>1, <3>2 DEF Overlooking, Accounted
  <2> QED BY <2>2, <2>3
<1> QED BY <1>2, <1>3 DEF LInv

LEMMA LRaises ==
  ASSUME MInv, LInv, NEW pid \in Pids, ExamineRaises(pid), UNCHANGED spared, Overlooking
  PROVE  LInv'
<1>1. /\ UNCHANGED <<proc, sessions, suppressed, known_pids, start_time>>
      /\ scan.pc = "examine" /\ scan' = IdleScan
  BY DEF ExamineRaises, osVars, sessionVars
<1> QED BY <1>1, LBroken DEF LInv, SuppressedSpared, Live

LEMMA LInterceptRaises ==
  ASSUME MInv, LInv, NEW a \in Apps, InterceptRaises(a)
  PROVE  LInv'
<1>1. /\ Terminate(a) /\ Spare(a) /\ Overlooking
      /\ scan.pc = "examine" /\ scan' = IdleScan
      /\ UNCHANGED <<sessions, known_pids, start_time>>
  BY DEF InterceptRaises, EnforceRaises, Terminate, sessionVars
<1> QED BY <1>1, LTerminated, LBroken

\* The controller and the clock leave the processes and the scan alone.
LEMMA LOthers ==
  ASSUME MInv, LInv,
         \A pid \in Pids : Observed(pid) => Observed(pid)',
         UNCHANGED <<proc, known_pids, start_time, scan, spared, overlooked>>,
         \A a \in Apps : suppressed'[a] > 0 => suppressed[a] > 0
  PROVE  LInv'
<1>1. NotYet' /\ \A pid \in Live' : pid \in Pids
  BY DEF LInv, NotYet, Live
<1> QED BY <1>1, LCalm

LEMMA LAlone ==
  ASSUME MInv, Forgotten, LInv, Alone
  PROVE  LInv'
<1>1. UNCHANGED spared /\ Overlooking
  BY DEF Alone
<1>2. CASE \E pid \in Pids, a \in Apps, d \in Protections : Start(pid, a, d)
  BY <1>1, <1>2, LStart
<1>3. CASE \E pid \in Pids : Exit(pid) \/ ExamineIrrelevant(pid) \/ ExamineAdmit(pid) \/ ExamineReject(pid)
  BY <1>1, <1>3, LExit, LIrrelevant, LAdmit, LReject
<1>4. CASE \E pid \in Pids : PruneRaises(pid) \/ ExamineRaises(pid)
  BY <1>1, <1>4, LPruneRaises, LRaises
<1>5. CASE MarkStarted \/ Prune \/ Snapshot
  BY <1>1, <1>5, LMarkStarted, LPrune, LSnapshot
<1>6. CASE ChangeLocks \/ ScanBegin \/ ClearDead \/ SnapshotFails \/ ScanEnd
  BY <1>1, <1>6, LLooks
<1> QED BY <1>2, <1>3, <1>4, <1>5, <1>6 DEF Alone

LEMMA LStep ==
  ASSUME MInv, Forgotten, LInv, [SessionsNext]_allVars
  PROVE  LInv'
<1>1. CASE Alone
  BY <1>1, LAlone
<1>2. CASE Pass
  <2>1. \A a \in Apps : suppressed'[a] > 0 => suppressed[a] > 0
    <3> SUFFICES ASSUME NEW a \in Apps, ~(suppressed[a] > 0) PROVE ~(suppressed'[a] > 0)
      OBVIOUS
    <3>1. suppressed'[a] = Left(suppressed[a])
      BY <1>2 DEF Pass, Aged
    <3> QED BY <3>1 DEF Left
  <2>2. UNCHANGED <<proc, known_pids, start_time, scan, spared, overlooked>>
    BY <1>2 DEF Pass, osVars, survivorVars
  <2>3. ASSUME NEW a \in Apps PROVE sessions'[a].observed = sessions[a].observed
    <3>1. CASE ~HasSession(a)
      BY <1>2, <3>1 DEF Pass, Aged, HasSession
    <3>2. CASE HasSession(a)
      <4>1. sessions[a] \in Session
        BY <3>2, SessionFields DEF MInv
      <4> QED BY <1>2, <3>2, <4>1 DEF Pass, Aged, Session
    <3> QED BY <3>1, <3>2
  <2> QED BY <2>1, <2>2, <2>3, LOthers DEF Observed
<1>3. CASE \E a \in Apps : Intercept(a) \/ InterceptRaises(a)
  BY <1>3, LIntercept, LInterceptRaises
<1>4. CASE \E a \in Apps : Open(a)
  <2>1. PICK a \in Apps : Open(a)
    BY <1>4
  <2>2. UNCHANGED <<proc, known_pids, start_time, scan, spared, overlooked, suppressed>>
    BY <2>1 DEF Open, Authorize, osVars, survivorVars
  <2>3. \A b \in Apps : sessions'[b].observed = sessions[b].observed
    BY <2>1, AuthorizedSession DEF Open, Authorize, MInv, Types
  <2> QED BY <2>2, <2>3, LOthers DEF Observed
<1>5. CASE \/ \E a \in Apps : Refuse(a) \/ Release(a) \/ Dismiss(a)
           \/ ProcessPending \/ UNCHANGED allVars
  <2>1. UNCHANGED <<proc, sessions, known_pids, start_time, scan, spared, overlooked, suppressed>>
    BY <1>5 DEF Refuse, Release, Dismiss, Cancel, ProcessPending, allVars, vars, osVars, sessionVars,
                survivorVars
  <2> QED BY <2>1, LOthers DEF Observed
<1> QED BY <1>1, <1>2, <1>3, <1>4, <1>5 DEF SessionsNext

\* A scan never lets an instance of a locked app pass by accident: who runs on is observed
\* by a session, or the system has denied to end him or his like, or he is one of those that
\* known_pids hides from the scans.  Handles may have the attribute info or not, the callback
\* and the prune may raise, pids may be reused and the rules may change.
THEOREM SurvivorsAlwaysAccounted ==
  ASSUME Readable
  PROVE  SessionsSpec => []SurvivorsAccounted
<1>1. SessionsInit => MInv /\ CInv /\ Forgotten /\ LInv
  <2> SUFFICES ASSUME SessionsInit PROVE LInv
    BY SessionsInitially
  <2> QED BY MonitorAssumption
          DEF SessionsInit, Init, LInv, NotYet, CaughtStay, SuppressedSpared, Passed, IdleScan
<1>2. MInv /\ CInv /\ Forgotten /\ LInv /\ [SessionsNext]_allVars
        => (MInv /\ CInv /\ Forgotten /\ LInv)'
  BY Readable, SessionsStep, LStep
<1>3. LInv => SurvivorsAccounted
  BY SettledPassed
<1> QED BY <1>1, <1>2, <1>3, PTL DEF SessionsSpec

-----------------------------------------------------------------------------
(* Nobody is asked about an app that has just been unlocked                    *)

\* No instance that is started now would be let run: either there is no session, or its
\* grace is over and what it has observed is gone.
Quiet(a) ==
  HasSession(a) =>
    /\ sessions[a].deadline < 0 /\ sessions[a].idle > ChildGrace
    /\ \A pid \in Live : sessions[a].observed[pid] # proc[pid].started

InHand(a) == answer = "opened" /\ slot = {About(a, FALSE)}

\* If the scan has caught instances of an app that has been unlocked meanwhile, the hold of
\* the controller lasts longer than the scan can still take, unless on_prompt_result is
\* yet to set it or the launch has failed.
HoldOutlasts ==
  \A a \in Apps : Caught(a) # {} /\ a \notin failed /\ ~Quiet(a) =>
    InHand(a) \/ hold[a] + scanning >= StartupGrace

\* A prompt that is being asked is not on hold, so that closing it shortens no hold.
SlotFree == \A p \in slot : hold[p.app] = 0

HInv == HoldOutlasts /\ SlotFree

LEMMA QuietIsLocked ==
  ASSUME Types, Readable, NEW a \in Apps, Quiet(a)
  PROVE  ~Unlocked(a) /\ (HasSession(a) => ~InGrace(a) /\ ~ByFamily(a))
<1>1. CASE ~HasSession(a)
  BY <1>1 DEF Unlocked
<1>2. CASE HasSession(a)
  <2>1. LiveObserved(sessions[a].observed) = {}
    BY <1>2, ReadableMatches DEF Quiet, LiveObserved
  <2>2. sessions[a].deadline \in -1..GraceCap /\ sessions[a].idle \in 0..IdleCap
    BY <1>2, SessionFields
  <2>3. IdleCap \in Int /\ ChildGrace \in Int /\ GraceCap \in Int
    BY MonitorAssumption DEF IdleCap, GraceCap
  <2>4. ~(sessions[a].deadline >= 0) /\ ~(sessions[a].idle <= ChildGrace)
    BY <1>2, <2>2, <2>3 DEF Quiet
  <2> QED BY <2>1, <2>4 DEF Unlocked, InGrace, ByFamily
<1> QED BY <1>1, <1>2

\* A session that does not change, or loses what it has observed, stays quiet.
LEMMA QuietStays ==
  ASSUME NEW a \in Apps, Quiet(a), Types,
         HasSession(a)' =>
           /\ HasSession(a)
           /\ sessions'[a].deadline = sessions[a].deadline /\ sessions'[a].idle = sessions[a].idle
           /\ \A pid \in Pids : sessions'[a].observed[pid] \in {sessions[a].observed[pid], 0},
         \A pid \in Pids : proc'[pid] \in {proc[pid], NoProc}
  PROVE  Quiet(a)'
<1> SUFFICES ASSUME HasSession(a)' PROVE Quiet(a)'
  BY DEF Quiet
<1>1. \A pid \in Live' : pid \in Pids /\ pid \in Live /\ proc'[pid] = proc[pid]
  BY DEF Live
<1>2. \A pid \in Live' : proc[pid].started # 0
  BY <1>1, ProcessFields
<1> QED BY <1>1, <1>2 DEF Quiet

LEMMA QuietStart ==
  ASSUME MInv, NEW a \in Apps, Quiet(a),
         NEW pid \in Pids, NEW b \in Apps, NEW d \in Protections, Start(pid, b, d)
  PROVE  Quiet(a)'
<1>1. Types /\ StampsPast
  BY DEF MInv
<1>2. /\ proc' = [proc EXCEPT ![pid] = [app |-> b, started |-> starts + 1, protection |-> d]]
      /\ sessions' = sessions
  BY DEF Start, sessionVars
<1>3. /\ proc'[pid].started = starts + 1
      /\ \A p \in Pids \ {pid} : proc'[p] = proc[p]
  BY <1>1, <1>2 DEF Types
<1>4. sessions[a].observed[pid] # starts + 1
  <2>1. sessions[a].observed[pid] \in 0..MaxStarts /\ sessions[a].observed[pid] <= starts
        /\ starts \in 0..MaxStarts
    BY <1>1, SessionFields DEF StampsPast, Types
  <2> QED BY <2>1, MonitorAssumption
<1>5. \A p \in Live' : p \in Pids /\ (p # pid => p \in Live)
  BY <1>3 DEF Live
<1> QED BY <1>2, <1>3, <1>4, <1>5 DEF Quiet, HasSession

LEMMA QuietAdmit ==
  ASSUME MInv, Forgotten, Readable, NEW a \in Apps, Quiet(a), NEW pid \in Pids, ExamineAdmit(pid)
  PROVE  Quiet(a)'
<1>1. Types /\ pid \in Live /\ proc[pid].started # 0
  BY ProcessFields DEF MInv, ExamineAdmit, Relevant
<1>2. proc[pid].app # a
  <2> SUFFICES ASSUME proc[pid].app = a PROVE FALSE
    OBVIOUS
  <2>1. HasSession(a) /\ (SameInstance(a, pid) \/ InGrace(a) \/ ByFamily(a))
    BY DEF ExamineAdmit, Admits
  <2>2. ~SameInstance(a, pid)
    BY <1>1 DEF ExamineAdmit, Forgotten, Remembered, SameInstance
  <2> QED BY <1>1, <2>1, <2>2, QuietIsLocked
<1>3. sessions'[a] = sessions[a] /\ proc' = proc
  BY <1>1, <1>2 DEF ExamineAdmit, TakeIn, Types, osVars
<1> QED BY <1>1, <1>3, QuietStays DEF HasSession

LEMMA QuietPrune ==
  ASSUME MInv, NEW a \in Apps, Quiet(a), Prune
  PROVE  Quiet(a)'
<1>1. Types
  BY DEF MInv
<1>2. PICK visible \in SUBSET Apps :
       /\ sessions' = [b \in Apps |->
            IF ~HasSession(b) \/ b \in Lingering(visible) \/ Deserted(b) THEN NoSession
            ELSE Kept(b, visible)]
       /\ proc' = [pid \in Pids |->
            IF pid \in LingeringPids(visible) /\ proc[pid].protection = "none"
            THEN NoProc ELSE proc[pid]]
  BY DEF Prune
<1>3. CASE sessions'[a] = NoSession
  BY <1>3 DEF Quiet, HasSession
<1>4. CASE sessions'[a] # NoSession
  <2>1. HasSession(a) /\ sessions'[a] = Kept(a, visible)
    BY <1>2, <1>4
  <2>2. /\ sessions'[a].deadline = sessions[a].deadline /\ sessions'[a].idle = sessions[a].idle
        /\ \A pid \in Pids : sessions'[a].observed[pid] \in {sessions[a].observed[pid], 0}
    BY <1>1, <2>1, KeptSession
  <2> QED BY <1>1, <1>2, <2>1, <2>2, QuietStays
<1> QED BY <1>3, <1>4

LEMMA QuietPruneRaises ==
  ASSUME MInv, NEW a \in Apps, Quiet(a), NEW pid \in Pids, PruneRaises(pid)
  PROVE  Quiet(a)'
BY PruneRaisesDoes, QuietStays DEF Fading, MInv

LEMMA QuietAlone ==
  ASSUME MInv, Forgotten, Readable, NEW a \in Apps, Quiet(a), MonitorAlone
  PROVE  Quiet(a)'
<1>1. CASE \E pid \in Pids, b \in Apps, d \in Protections : Start(pid, b, d)
  BY <1>1, QuietStart
<1>2. CASE \E pid \in Pids : ExamineAdmit(pid)
  BY <1>2, QuietAdmit
<1>3. CASE Prune
  BY <1>3, QuietPrune
<1>4. CASE \E pid \in Pids : Exit(pid)
  <2>1. sessions' = sessions /\ \A p \in Pids : proc'[p] \in {proc[p], NoProc}
    BY <1>4 DEF Exit, sessionVars, MInv, Types
  <2> QED BY <2>1, QuietStays DEF HasSession, MInv
<1>5. CASE Looks \/ ClearDead \/ Snapshot
  <2>1. sessions' = sessions /\ proc' = proc
    BY <1>5 DEF Looks, ClearDead, Snapshot, sessionVars, osVars, MarkStarted, ScanBegin, SnapshotFails,
                ScanEnd, ChangeLocks, ExamineIrrelevant, ExamineRaises, ExamineReject
  <2> QED BY <2>1, QuietStays DEF HasSession, MInv
<1>6. CASE \E pid \in Pids : PruneRaises(pid)
  BY <1>6, QuietPruneRaises
<1> QED BY <1>1, <1>2, <1>3, <1>4, <1>5, <1>6 DEF MonitorAlone, Looks

LEMMA QuietPass ==
  ASSUME MInv, NEW a \in Apps, Quiet(a), Pass
  PROVE  Quiet(a)'
<1> USE MonitorAssumption
<1> SUFFICES ASSUME HasSession(a)' PROVE Quiet(a)'
  BY DEF Quiet
<1>1. HasSession(a)
  BY DEF Pass, Aged, HasSession
<1>2. /\ sessions[a] \in Session /\ sessions[a].deadline \in -1..GraceCap
      /\ sessions[a].idle \in 0..IdleCap /\ IdleCap \in Int /\ GraceCap \in Int
  BY <1>1, SessionFields DEF MInv, IdleCap, GraceCap
<1>3. sessions'[a] = [sessions[a] EXCEPT
              !.deadline = IF @ >= 0 THEN @ - 1 ELSE -1,
              !.idle = IF @ < IdleCap THEN @ + 1 ELSE @]
  BY <1>1 DEF Pass, Aged
<1>4. /\ sessions'[a].deadline = IF sessions[a].deadline >= 0 THEN sessions[a].deadline - 1 ELSE -1
      /\ sessions'[a].idle = IF sessions[a].idle < IdleCap THEN sessions[a].idle + 1 ELSE sessions[a].idle
      /\ sessions'[a].observed = sessions[a].observed
  BY <1>2, <1>3 DEF Session
<1>5. sessions'[a].deadline < 0 /\ sessions'[a].idle > ChildGrace
  BY <1>1, <1>2, <1>4 DEF Quiet
<1>6. proc' = proc /\ Live' = Live
  BY DEF Pass, osVars, Live
<1> QED BY <1>1, <1>4, <1>5, <1>6 DEF Quiet

\* Who is caught anew is found by an examination that no session stops.
LEMMA CaughtAlone ==
  ASSUME MInv, Forgotten, Readable, NEW a \in Apps, MonitorAlone, Caught(a)' # {}
  PROVE  Caught(a) # {} \/ Quiet(a)'
<1>1. CASE \E pid \in Pids : ExamineReject(pid)
  <2>1. PICK pid \in Pids : ExamineReject(pid)
    BY <1>1
  <2>2. CASE proc[pid].app # a \/ scan'.caught = scan.caught
    <3>1. scan'.caught \subseteq scan.caught \union
            {[pid |-> pid, started |-> proc[pid].started, app |-> proc[pid].app]}
      BY <2>1 DEF ExamineReject, Examined, MInv, Types
    <3>2. Caught(a)' \subseteq Caught(a)
      BY <2>2, <3>1 DEF Caught
    <3> QED BY <3>2
  <2>3. CASE proc[pid].app = a /\ scan'.caught # scan.caught
    <3>1. ~HasSession(a) \/ ~Admits(a, pid)
      BY <2>1, <2>3 DEF ExamineReject
    <3>2. Remembered(pid) \subseteq {0}
      BY <2>1 DEF ExamineReject, Forgotten
    <3>3. HasSession(a) => ~PidTaken(a, pid) /\ ~InGrace(a) /\ ~ByFamily(a)
      BY <3>1, <3>2 DEF Admits, PidTaken, Remembered
    <3>4. Quiet(a)
      <4> SUFFICES ASSUME HasSession(a) PROVE Quiet(a)
        BY DEF Quiet
      <4>1. /\ sessions[a].deadline \in -1..GraceCap /\ sessions[a].idle \in 0..IdleCap
            /\ IdleCap \in Int /\ GraceCap \in Int
        BY SessionFields, MonitorAssumption DEF MInv, IdleCap, GraceCap
      <4>2. sessions[a].deadline < 0 /\ sessions[a].idle > ChildGrace
        BY <3>3, <4>1, MonitorAssumption DEF InGrace, ByFamily
      <4>3. \A p \in Live : sessions[a].observed[p] # proc[p].started
        BY <3>3, ReadableMatches, ProcessFields DEF ByFamily, LiveObserved, MInv, Live
      <4> QED BY <4>2, <4>3 DEF Quiet
    <3> QED BY <3>4, QuietAlone
  <2> QED BY <2>2, <2>3
<1>2. CASE ~\E pid \in Pids : ExamineReject(pid)
  <2>1. scan'.caught \subseteq scan.caught
    <3>1. CASE scan' = scan \/ scan' = IdleScan \/ \E pid \in Pids : scan' = Examined(pid)
      BY <3>1 DEF IdleScan, Examined, MInv, Types
    <3>2. CASE \E pc \in {"clear", "prune", "snapshot"} : scan' = [scan EXCEPT !.pc = pc]
      BY <3>2 DEF MInv, Types
    <3>3. CASE Snapshot
      BY <3>3 DEF Snapshot, IdleScan, MInv, Types
    <3> QED BY <1>2, <3>1, <3>2, <3>3
            DEF MonitorAlone, Start, Exit, ExamineIrrelevant, ExamineRaises, ExamineAdmit, ChangeLocks,
                MarkStarted, SnapshotFails, ScanEnd, ScanBegin, ClearDead, Prune, PruneRaises
  <2> QED BY <2>1 DEF Caught
<1> QED BY <1>1, <1>2

LEMMA HAlone ==
  ASSUME MInv, Forgotten, Readable, HInv, Alone
  PROVE  HInv'
<1>1. MonitorAlone /\ UNCHANGED <<slot, hold, answer, failed>>
  BY DEF Alone, MonitorAlone, controllerVars, resultVars
<1>2. \A a \in Apps : Caught(a)' # {} => scanning' = scanning
  BY DEF Alone, Caught
<1>3. ASSUME NEW a \in Apps, Caught(a)' # {}, ~Quiet(a)' PROVE Caught(a) # {} /\ ~Quiet(a)
  BY <1>1, <1>3, CaughtAlone, QuietAlone
<1> QED BY <1>1, <1>2, <1>3 DEF HInv, HoldOutlasts, SlotFree, InHand

LEMMA HPass ==
  ASSUME MInv, CInv, HInv, Pass
  PROVE  HInv'
<1> USE HoldAssumption, MonitorAssumption
<1>1. UNCHANGED <<slot, answer, failed, scan>> /\ \A a \in Apps : hold'[a] = Left(hold[a])
  BY DEF Pass, resultVars
<1>2. \A a \in Apps : Caught(a)' = Caught(a)
  BY <1>1 DEF Caught
<1>3. \A a \in Apps : hold[a] \in Nat
  BY DEF CInv, MaxOf
<1>4. SlotFree'
  BY <1>1, <1>3 DEF HInv, SlotFree, Left, CInv, Controller!Prompt
<1>5. ASSUME NEW a \in Apps, Caught(a) # {}, hold[a] + scanning >= StartupGrace
      PROVE  hold'[a] + scanning' >= StartupGrace
  <2>1. scanning < ScanTicks /\ scanning' = scanning + 1 /\ scanning \in Nat
    BY <1>5 DEF Caught, Pass, CInv
  <2>2. hold'[a] = Left(hold[a]) /\ hold[a] \in Nat
    BY <1>1, <1>3
  <2> QED BY <1>5, <2>1, <2>2 DEF Left
<1> QED BY <1>1, <1>2, <1>4, <1>5, QuietPass DEF HInv, HoldOutlasts, InHand

LEMMA NotHeldOff ==
  ASSUME CInv, NEW p \in Controller!Prompt, ~Controller!HeldOff(p)
  PROVE  hold[p.app] = 0
<1>1. p.app \in Apps
  BY DEF Controller!Prompt
<1>2. ~(hold[p.app] > 0) /\ hold[p.app] \in Nat
  BY <1>1, MonitorAssumption, HoldAssumption DEF Controller!HeldOff, CInv, MaxOf
<1> QED BY <1>2

\* What on_intercept makes of a report: a prompt in an empty slot that is not on hold, or
\* nothing that changes the slot.
LEMMA InterceptSlot ==
  ASSUME CInv, NEW p \in Controller!Prompt, OnIntercept(p)
  PROVE  \/ slot' = slot
         \/ slot = {} /\ slot' = {p} /\ hold[p.app] = 0
BY NotHeldOff DEF OnIntercept, Controller!Accept, Controller!Defer, CInv

LEMMA HIntercept ==
  ASSUME MInv, CInv, HInv, NEW b \in Apps, Intercept(b)
  PROVE  /\ HInv'
         /\ slot' # slot =>
              slot = {} /\ hold[b] = 0 /\ \E issue \in BOOLEAN : slot' = {About(b, issue)}
<1> DEFINE p == About(b, Denied(b) = Caught(b))
<1>1. /\ Enforce(b) /\ OnIntercept(p) /\ UNCHANGED <<answer, failed, hold>>
      /\ scan'.caught = scan.caught \ Caught(b)
  BY DEF Intercept, resultVars, OnIntercept, Enforce, Terminate, MInv, Types
<1>2. p \in Controller!Prompt /\ p.app = b
  BY DEF Controller!Prompt, About
<1>3. \/ slot' = slot
      \/ slot = {} /\ slot' = {p} /\ hold[b] = 0
  <2> HIDE DEF p
  <2> QED BY <1>1, <1>2, InterceptSlot
<1>4. SlotFree'
  BY <1>1, <1>2, <1>3 DEF HInv, SlotFree
<1>5. \A a \in Apps : Caught(a)' # {} => a # b /\ Caught(a) # {} /\ scanning' = scanning
  BY <1>1 DEF Caught, Intercept
<1>6. \A a \in Apps : Quiet(a) => Quiet(a)'
  <2>1. sessions' = sessions /\ \A pid \in Pids : proc'[pid] \in {proc[pid], NoProc}
    BY <1>1 DEF Enforce, Terminate, sessionVars
  <2> QED BY <2>1, QuietStays DEF HasSession, MInv
<1>7. \A a : InHand(a) => InHand(a)'
  BY <1>1, <1>3 DEF InHand
<1>8. HoldOutlasts'
  BY <1>1, <1>5, <1>6, <1>7 DEF HInv, HoldOutlasts
<1> QED BY <1>3, <1>4, <1>8 DEF HInv

LEMMA HInterceptRaises ==
  ASSUME HInv, NEW b \in Apps, InterceptRaises(b)
  PROVE  HInv'
<1>1. scan'.caught = {} /\ UNCHANGED <<slot, hold>>
  BY DEF InterceptRaises, EnforceRaises, IdleScan, controllerVars
<1> QED BY <1>1 DEF HInv, HoldOutlasts, SlotFree, Caught

LEMMA HOpen ==
  ASSUME MInv, HInv, NEW b \in Apps, Open(b)
  PROVE  HInv'
<1>1. /\ answer = "none" /\ answer' = "opened" /\ slot = {About(b, FALSE)}
      /\ \A a \in Apps \ {b} : sessions'[a] = sessions[a]
      /\ UNCHANGED <<slot, hold, failed, scanning, scan, proc>>
  BY DEF Open, Answerable, Authorize, controllerVars, osVars, MInv, Types
<1>2. \A a \in Apps : a = b \/ Quiet(a)' = Quiet(a)
  BY <1>1 DEF Quiet, HasSession, Live
<1>3. InHand(b)'
  BY <1>1 DEF InHand
<1>4. ASSUME NEW a \in Apps, a # b, Caught(a)' # {}, a \notin failed', ~Quiet(a)'
      PROVE  hold'[a] + scanning' >= StartupGrace
  BY <1>1, <1>2, <1>4 DEF HInv, HoldOutlasts, InHand, Caught
<1> QED BY <1>1, <1>3, <1>4 DEF HInv, HoldOutlasts, SlotFree

LEMMA HRelease ==
  ASSUME MInv, CInv, HInv, NEW b \in Apps, Release(b)
  PROVE  HInv'
<1>1. PICK p \in slot : p.app = b /\ Controller!Resolve(p)
  BY DEF Release
<1>2. /\ slot = {p} /\ slot' = {} /\ UNCHANGED <<scanning, scan, sessions, proc>>
  BY <1>1 DEF Release, Controller!Resolve, vars, sessionVars, osVars
<1>3. \A a \in Apps : Quiet(a)' = Quiet(a) /\ Caught(a)' = Caught(a)
  BY <1>2 DEF Quiet, HasSession, Live, Caught
<1>4. \A a \in Apps \ {b} : hold'[a] = hold[a] /\ ~InHand(a) /\ (a \notin failed' => a \notin failed)
  BY <1>1, <1>2 DEF Release, Held, InHand, About, CInv
<1>5. ASSUME b \notin failed', ~Quiet(b), Caught(b) # {}
      PROVE  hold'[b] + scanning >= StartupGrace
  <2>1. CASE answer = "opened"
    <3>1. Held(b, StartupGrace)
      BY <1>5, <2>1 DEF Release
    <3>2. hold'[b] = StartupGrace /\ StartupGrace \in Nat /\ scanning \in Nat
      BY <3>1, HoldAssumption, MonitorAssumption DEF Held, CInv
    <3> QED BY <3>2
  <2>2. CASE answer # "opened"
    BY <1>5, <2>2 DEF Release, HInv, HoldOutlasts, InHand
  <2> QED BY <2>1, <2>2
<1> QED BY <1>2, <1>3, <1>4, <1>5 DEF HInv, HoldOutlasts, SlotFree

LEMMA HDismiss ==
  ASSUME MInv, CInv, HInv, NEW b \in Apps, Dismiss(b)
  PROVE  HInv'
<1>1. PICK issue \in BOOLEAN :
       /\ Answerable(b, issue)
       /\ IF issue THEN UNCHANGED vars ELSE Cancel(b)
       /\ Controller!Resolve(About(b, issue))
  BY DEF Dismiss
<1>2. /\ slot = {About(b, issue)} /\ slot' = {} /\ answer = "none"
      /\ UNCHANGED <<scanning, scan, sessions, proc, failed>>
  BY <1>1 DEF Dismiss, Answerable, Cancel, Controller!Resolve, vars, sessionVars, osVars
<1>3. \A a \in Apps : Quiet(a)' = Quiet(a) /\ Caught(a)' = Caught(a)
  BY <1>2 DEF Quiet, HasSession, Live, Caught
<1>4. \A a \in Apps \ {b} : hold'[a] = hold[a]
  BY DEF Dismiss, Held, CInv
<1>5. ~(hold[b] + scanning >= StartupGrace)
  <2>1. hold[b] = 0
    BY <1>2 DEF HInv, SlotFree, About
  <2> QED BY <2>1, HoldAssumption, MonitorAssumption DEF CInv
<1> QED BY <1>2, <1>3, <1>4, <1>5 DEF HInv, HoldOutlasts, SlotFree, InHand

\* Nothing happens to the sessions, the processes, the scan and the holds.
LEMMA HOthers ==
  ASSUME HInv, UNCHANGED <<scanning, scan, sessions, proc, failed, hold>>,
         \A p \in slot' : p \in slot \/ hold[p.app] = 0,
         \A a \in Apps : InHand(a) => InHand(a)'
  PROVE  HInv'
<1>1. \A a \in Apps : Quiet(a)' = Quiet(a) /\ Caught(a)' = Caught(a)
  BY DEF Quiet, HasSession, Live, Caught
<1> QED BY <1>1 DEF HInv, HoldOutlasts, SlotFree

LEMMA HStep ==
  ASSUME MInv, CInv, Forgotten, HInv, Readable, [SessionsNext]_allVars
  PROVE  HInv'
<1>1. CASE Alone
  BY <1>1, HAlone
<1>2. CASE Pass
  BY <1>2, HPass
<1>3. CASE \E a \in Apps : Intercept(a) \/ InterceptRaises(a)
  BY <1>3, HIntercept, HInterceptRaises
<1>4. CASE \E a \in Apps : Open(a)
  BY <1>4, HOpen
<1>5. CASE \E a \in Apps : Release(a)
  BY <1>5, HRelease
<1>6. CASE \E a \in Apps : Dismiss(a)
  BY <1>6, HDismiss
<1>7. CASE \E a \in Apps : Refuse(a)
  BY <1>7, HOthers DEF Refuse, Answerable, Cancel, controllerVars, sessionVars, osVars, InHand
<1>8. CASE ProcessPending
  <2>1. /\ UNCHANGED <<scanning, scan, sessions, proc, failed, hold>> /\ answer = "released"
    BY <1>8 DEF ProcessPending, sessionVars, osVars
  <2>2. \A p \in slot' : p \in slot \/ hold[p.app] = 0
    BY <1>8, NotHeldOff DEF ProcessPending, Controller!Promote, CInv
  <2> QED BY <2>1, <2>2, HOthers DEF InHand
<1>9. CASE UNCHANGED allVars
  BY <1>9, HOthers DEF allVars, vars, controllerVars, resultVars, sessionVars, osVars, InHand
<1> QED BY <1>1, <1>2, <1>3, <1>4, <1>5, <1>6, <1>7, <1>8, <1>9 DEF SessionsNext

\* A step that reports an app and puts its prompt into the slot is the scan's callback.
LEMMA ReportedNotUnlocked ==
  ASSUME MInv, CInv, HInv, Readable, [SessionsNext]_allVars
  PROVE  \A p \in slot' \ slot : p.app \in Reported \ failed => ~Unlocked(p.app)
<1>1. CASE \E a \in Apps : Intercept(a)
  <2>1. PICK b \in Apps : Intercept(b)
    BY <1>1
  <2> SUFFICES ASSUME NEW p \in slot' \ slot, p.app \in Reported \ failed
               PROVE  ~Unlocked(p.app)
    OBVIOUS
  <2>2. slot = {} /\ hold[b] = 0 /\ p.app = b
    BY <2>1, HIntercept DEF About
  <2>3. Caught(b) # {} /\ ~InHand(b)
    BY <2>1, <2>2 DEF Intercept, Enforce, Terminate, InHand
  <2>4. ~(hold[b] + scanning >= StartupGrace)
    BY <2>2, HoldAssumption, MonitorAssumption DEF CInv
  <2>5. Quiet(b)
    BY <2>2, <2>3, <2>4 DEF HInv, HoldOutlasts
  <2> QED BY <2>2, <2>5, QuietIsLocked DEF MInv
<1>2. CASE Alone \/ \E a \in Apps : InterceptRaises(a) \/ Open(a) \/ Refuse(a)
  <2>1. slot' = slot
    BY <1>2 DEF Alone, InterceptRaises, Open, Refuse, controllerVars
  <2> QED BY <2>1
<1>3. CASE Pass \/ ProcessPending \/ UNCHANGED allVars \/ \E a \in Apps : Release(a) \/ Dismiss(a)
  <2>1. scan' = scan
    BY <1>3 DEF Pass, ProcessPending, allVars, vars, Release, Dismiss, Cancel
  <2>2. Reported = {}
    BY <2>1 DEF Reported
  <2> QED BY <2>2
<1> QED BY <1>1, <1>2, <1>3 DEF SessionsNext

\* An app that has been unlocked and launched is not asked about because of what a scan
\* reports, however the two threads interleave: where creation times can be read, whatever
\* else the system denies, and although pids are reused and the rules change.
THEOREM NeverAskedWhileUnlocked ==
  ASSUME Readable
  PROVE  SessionsSpec => NotAskedWhileUnlocked
<1>1. SessionsInit => MInv /\ CInv /\ Forgotten /\ HInv
  <2>1. SessionsInit => HInv
    BY DEF SessionsInit, Init, IdleScan, HInv, HoldOutlasts, SlotFree, Caught
  <2> QED BY <2>1, SessionsInitially
<1>2. MInv /\ CInv /\ Forgotten /\ HInv /\ [SessionsNext]_allVars
        => (MInv /\ CInv /\ Forgotten /\ HInv)'
  BY Readable, SessionsStep, HStep
<1>3. MInv /\ CInv /\ HInv /\ [SessionsNext]_allVars =>
        [\A p \in slot' \ slot : p.app \in Reported \ failed => ~Unlocked(p.app)]_allVars
  BY Readable, ReportedNotUnlocked
<1> QED BY <1>1, <1>2, <1>3, PTL DEF SessionsSpec, NotAskedWhileUnlocked

=============================================================================
