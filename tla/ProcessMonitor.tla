--------------------------- MODULE ProcessMonitor ---------------------------
(* The process monitor: which instances of locked applications it lets run.   *)
(* A scan (scan_processes) looks once at every pid that was not there in the  *)
(* scan before.  An instance of a locked app is let run if the app has an     *)
(* authorized session that admits it, and is killed otherwise.  Sessions are  *)
(* opened by the UI thread after a right password and pruned by the scan.     *)
(* Actions are split where _state_lock is released or where the operating     *)
(* system can start, end or replace a process under the monitor's eyes.       *)
EXTENDS Integers, FiniteSets

CONSTANTS
  Apps,          \* applications with a lock rule or without, by identity
  Pids,          \* process ids
  MaxStarts,     \* bound on the number of processes started
  StartupGrace,  \* startup_grace given by the controller, in ticks
  IdleTimeout,   \* _session_idle_timeout
  ChildGrace,    \* _child_spawn_grace
  SuppressTime,  \* timeout of suppress_app
  Protections,   \* what the OS may deny: subset of {"none", "kill", "read"}
  ReusePids,     \* may a pid be reused before a scan has seen it gone?
  Relock,        \* may the set of lock rules change?
  HandleInfo     \* has a process handle the attribute "info"?  {FALSE} for psutil.Process(pid)

ASSUME MonitorAssumption ==
  /\ MaxStarts \in Nat
  /\ StartupGrace \in Nat /\ IdleTimeout \in Nat /\ ChildGrace \in Nat /\ SuppressTime \in Nat
  /\ Protections \subseteq {"none", "kill", "read"}
  /\ ReusePids \in BOOLEAN /\ Relock \in BOOLEAN /\ HandleInfo \subseteq BOOLEAN

VARIABLES
  proc,          \* operating system: pid -> its process, or NoProc
  starts,        \* number of processes started; gives creation times
  db_locks,      \* the lock rules in the database
  locked,        \* the monitor's copy: locked_by_path and locked_by_name
  allowed_pids,  \* pid -> creation time it was allowed with; 0 when absent
  sessions,      \* _authorized_sessions
  suppressed,    \* _suppressed_apps: ticks left; 0 when absent
  known_pids,    \* _known_pids
  start_time,    \* _monitor_start_time; -1 before monitoring starts
  scan,          \* where the scan is, the pids left to examine, the handles caught
  asked          \* apps the user is being asked about

osVars == <<proc, starts>>
sessionVars == <<allowed_pids, sessions>>
vars == <<osVars, db_locks, locked, sessionVars, suppressed, known_pids, start_time, scan, asked>>

-----------------------------------------------------------------------------
Stamp == 1..MaxStarts
Process == [app : Apps, started : Stamp, protection : Protections]
NoProc == [app |-> "none", started |-> 0, protection |-> "none"]
Live == {pid \in Pids : proc[pid] # NoProc}

\* A session: ticks to its startup deadline (-1 when past), ticks since last_seen_at
\* (no further than anything compares it with), observed_pids, and whether
\* windowless_since is set.
IdleCap == (IF IdleTimeout > ChildGrace THEN IdleTimeout ELSE ChildGrace) + 1
GraceCap == IF StartupGrace > ChildGrace THEN StartupGrace ELSE ChildGrace
NoPids == [pid \in Pids |-> 0]
Session == [deadline : -1..GraceCap, idle : 0..IdleCap,
            observed : [Pids -> 0..MaxStarts], windowless : BOOLEAN]
NoSession == [deadline |-> -2, idle |-> IdleCap, observed |-> NoPids, windowless |-> FALSE]
HasSession(a) == sessions[a] # NoSession

MaxOf(m, n) == IF m > n THEN m ELSE n

Handle == [pid : Pids, started : Stamp, app : Apps]
IdleScan == [pc |-> "idle", todo |-> {}, caught |-> {}]

\* _pid_matches_current_process: a creation time that may not be read is taken as equal.
PidMatches(pid, started) ==
  /\ pid \in Live
  /\ proc[pid].protection = "read" \/ proc[pid].started = started

LiveObserved(observed) == {pid \in Pids : observed[pid] # 0 /\ PidMatches(pid, observed[pid])}

Init ==
  /\ proc = [pid \in Pids |-> NoProc]
  /\ starts = 0
  /\ db_locks \in IF Relock THEN SUBSET Apps ELSE {Apps}
  /\ locked = {}
  /\ allowed_pids = NoPids
  /\ sessions = [a \in Apps |-> NoSession]
  /\ suppressed = [a \in Apps |-> 0]
  /\ known_pids = {}
  /\ start_time = -1
  /\ scan = IdleScan
  /\ asked = {}

-----------------------------------------------------------------------------
(* The operating system, the clock and the user *)

Start(pid, a, protection) ==
  /\ pid \notin Live
  /\ starts < MaxStarts
  /\ ReusePids \/ pid \notin known_pids
  /\ starts' = starts + 1
  /\ proc' = [proc EXCEPT ![pid] = [app |-> a, started |-> starts + 1, protection |-> protection]]
  /\ UNCHANGED <<db_locks, locked, sessionVars, suppressed, known_pids, start_time, scan, asked>>

Exit(pid) ==
  /\ pid \in Live
  /\ proc' = [proc EXCEPT ![pid] = NoProc]
  /\ UNCHANGED <<starts, db_locks, locked, sessionVars, suppressed, known_pids, start_time, scan, asked>>

\* What is left of a number of ticks, one tick later.
Left(ticks) == IF ticks > 0 THEN ticks - 1 ELSE 0

Aged ==
  /\ sessions' = [a \in Apps |->
       IF ~HasSession(a) THEN NoSession
       ELSE [sessions[a] EXCEPT
              !.deadline = IF @ >= 0 THEN @ - 1 ELSE -1,
              !.idle = IF @ < IdleCap THEN @ + 1 ELSE @]]
  /\ suppressed' = [a \in Apps |-> Left(suppressed[a])]

Tick ==
  /\ Aged
  /\ sessions' # sessions \/ suppressed' # suppressed
  /\ UNCHANGED <<osVars, db_locks, locked, allowed_pids, known_pids, start_time, scan, asked>>

ChangeLocks ==
  /\ Relock
  /\ \E a \in Apps : db_locks' \in {db_locks \union {a}, db_locks \ {a}} \ {db_locks}
  /\ UNCHANGED <<osVars, locked, sessionVars, suppressed, known_pids, start_time, scan, asked>>

\* The right password: authorize_app_session, called before the app is launched.
Authorized(a) ==
  IF HasSession(a)
  THEN [sessions[a] EXCEPT !.deadline = MaxOf(@, StartupGrace), !.idle = 0]
  ELSE [deadline |-> StartupGrace, idle |-> 0, observed |-> NoPids, windowless |-> FALSE]

Authorize(a) ==
  /\ a \in asked
  /\ asked' = asked \ {a}
  /\ sessions' = [sessions EXCEPT ![a] = Authorized(a)]
  /\ UNCHANGED <<osVars, db_locks, locked, allowed_pids, suppressed, known_pids, start_time, scan>>

Cancel(a) ==
  /\ a \in asked
  /\ asked' = asked \ {a}
  /\ UNCHANGED <<osVars, db_locks, locked, sessionVars, suppressed, known_pids, start_time, scan>>

-----------------------------------------------------------------------------
(* The scan *)

\* mark_monitoring_started: processes created earlier are exempt.
MarkStarted ==
  /\ start_time = -1
  /\ start_time' = starts
  /\ UNCHANGED <<osVars, db_locks, locked, sessionVars, suppressed, known_pids, scan, asked>>

\* refresh_locked_apps keeps the old rules when it is throttled or fails.
ScanBegin ==
  /\ start_time # -1
  /\ scan.pc = "idle"
  /\ locked' \in {locked, db_locks}
  /\ scan' = [scan EXCEPT !.pc = "clear"]
  /\ UNCHANGED <<osVars, db_locks, sessionVars, suppressed, known_pids, start_time, asked>>

\* Mutant: an allowed pid is kept as long as any process has it.
ClearDeadByPid ==
  /\ scan.pc = "clear"
  /\ allowed_pids' = [pid \in Pids |-> IF pid \in Live THEN allowed_pids[pid] ELSE 0]
  /\ scan' = [scan EXCEPT !.pc = "prune"]
  /\ UNCHANGED <<osVars, db_locks, locked, sessions, suppressed, known_pids, start_time, asked>>

\* clear_dead_pids
ClearDead ==
  /\ scan.pc = "clear"
  /\ allowed_pids' = [pid \in Pids |->
       IF PidMatches(pid, allowed_pids[pid]) THEN allowed_pids[pid] ELSE 0]
  /\ scan' = [scan EXCEPT !.pc = "prune"]
  /\ UNCHANGED <<osVars, db_locks, locked, sessions, suppressed, known_pids, start_time, asked>>

\* _prune_authorized_sessions.  visible: the apps with a visible window.  A session with
\* live processes but no visible window is ended by the second prune that sees it so.
Windowless(a, visible) ==
  /\ HasSession(a)
  /\ LiveObserved(sessions[a].observed) # {}
  /\ sessions[a].deadline < 0
  /\ a \notin visible
Lingering(visible) == {a \in Apps : Windowless(a, visible) /\ sessions[a].windowless}
\* Mutant: a session without processes is kept.
DesertedNever(a) == HasSession(a) /\ sessions[a].idle > IdleCap

Deserted(a) ==
  /\ HasSession(a)
  /\ LiveObserved(sessions[a].observed) = {}
  /\ sessions[a].deadline < 0
  /\ sessions[a].idle > IdleTimeout
\* Mutant: the processes of an ended session are left alone.
LingeringPidsNone(visible) == {}

LingeringPids(visible) == UNION {LiveObserved(sessions[a].observed) : a \in Lingering(visible)}

\* What is left of a session that is looked at and does not end.
Kept(a, visible) ==
  [sessions[a] EXCEPT
    !.observed = [pid \in Pids |->
       IF pid \in LiveObserved(sessions[a].observed) THEN @[pid] ELSE 0],
    !.windowless = IF LiveObserved(sessions[a].observed) = {} THEN @
                   ELSE Windowless(a, visible)]

Prune ==
  /\ scan.pc = "prune"
  /\ \E visible \in SUBSET Apps :
       /\ sessions' = [a \in Apps |->
            IF ~HasSession(a) \/ a \in Lingering(visible) \/ Deserted(a) THEN NoSession
            ELSE Kept(a, visible)]
       /\ allowed_pids' = [pid \in Pids |->
            IF pid \in LingeringPids(visible) THEN 0 ELSE allowed_pids[pid]]
       /\ proc' = [pid \in Pids |->
            IF pid \in LingeringPids(visible) /\ proc[pid].protection = "none"
            THEN NoProc ELSE proc[pid]]
  /\ scan' = IF locked = {} THEN IdleScan ELSE [scan EXCEPT !.pc = "snapshot"]
  /\ UNCHANGED <<starts, db_locks, locked, suppressed, known_pids, start_time, asked>>

\* A process that was killed is still there when the second wait for it is over, which is an
\* error: the scan ends, and no session is deleted.  "before" are the sessions looked at
\* earlier, "ended" the processes of the same session.
PruneRaises(pid) ==
  /\ scan.pc = "prune"
  /\ proc[pid].protection = "none"
  /\ \E visible, before \in SUBSET Apps : \E a \in Lingering(visible) \ before :
       /\ pid \in LiveObserved(sessions[a].observed)
       /\ \E ended \in SUBSET (LiveObserved(sessions[a].observed) \ {pid}) :
            LET cleared == Lingering(visible) \intersect before
                tried == ended \union UNION {LiveObserved(sessions[b].observed) : b \in cleared}
            IN  /\ sessions' = [b \in Apps |->
                     IF b \in cleared THEN [sessions[b] EXCEPT !.observed = NoPids]
                     ELSE IF b \in before \union {a} THEN Kept(b, visible)
                     ELSE sessions[b]]
                /\ allowed_pids' = [p \in Pids |->
                     IF p \in tried \union {pid} THEN 0 ELSE allowed_pids[p]]
                /\ proc' = [p \in Pids |->
                     IF p \in tried \ {pid} /\ proc[p].protection = "none"
                     THEN NoProc ELSE proc[p]]
  /\ scan' = IdleScan
  /\ UNCHANGED <<starts, db_locks, locked, suppressed, known_pids, start_time, asked>>

\* Mutant: known_pids is replaced before the difference is taken.
SnapshotLate ==
  /\ scan.pc = "snapshot"
  /\ known_pids' = Live
  /\ scan' = IdleScan
  /\ UNCHANGED <<osVars, db_locks, locked, sessionVars, suppressed, start_time, asked>>

Snapshot ==
  /\ scan.pc = "snapshot"
  /\ known_pids' = Live
  /\ scan' = IF Live \subseteq known_pids THEN IdleScan
             ELSE [scan EXCEPT !.pc = "examine", !.todo = Live \ known_pids]
  /\ UNCHANGED <<osVars, db_locks, locked, sessionVars, suppressed, start_time, asked>>

\* The process list cannot be read: the scan ends.
SnapshotFails ==
  /\ scan.pc = "snapshot"
  /\ scan' = IdleScan
  /\ UNCHANGED <<osVars, db_locks, locked, sessionVars, suppressed, known_pids, start_time, asked>>

\* _authorize_running_instance: does the session of its app admit the process with this pid?
SameInstance(a, pid) ==
  proc[pid].started \in {allowed_pids[pid], sessions[a].observed[pid]}
PidTaken(a, pid) == allowed_pids[pid] # 0 \/ sessions[a].observed[pid] # 0
InGrace(a) == sessions[a].deadline >= 0
ByFamily(a) ==
  LiveObserved(sessions[a].observed) # {} \/ sessions[a].idle <= ChildGrace

Admits(a, pid) ==
  /\ HasSession(a)
  /\ \/ SameInstance(a, pid)
     \/ ~PidTaken(a, pid) /\ (InGrace(a) \/ ByFamily(a))

\* The session takes the process in; one admitted by a live relative renews the grace.
TakeIn(a, pid) ==
  /\ allowed_pids' = [allowed_pids EXCEPT ![pid] = proc[pid].started]
  /\ sessions' = [sessions EXCEPT
       ![a].observed[pid] = proc[pid].started,
       ![a].idle = 0,
       ![a].deadline = IF SameInstance(a, pid) \/ InGrace(a) THEN @ ELSE MaxOf(@, ChildGrace)]

\* A process of a locked app created since monitoring started, that may be looked at.
Relevant(pid) ==
  /\ pid \in Live
  /\ proc[pid].protection # "read"
  /\ proc[pid].started > start_time
  /\ proc[pid].app \in locked

Examined(pid) == [scan EXCEPT !.todo = @ \ {pid}]

ExamineIrrelevant(pid) ==
  /\ scan.pc = "examine" /\ pid \in scan.todo
  /\ ~Relevant(pid)
  /\ scan' = Examined(pid)
  /\ UNCHANGED <<osVars, db_locks, locked, sessionVars, suppressed, known_pids, start_time, asked>>

\* proc.info raises on a handle made by psutil.Process(pid): the whole scan ends.
ExamineRaises(pid) ==
  /\ scan.pc = "examine" /\ pid \in scan.todo
  /\ Relevant(pid)
  /\ HasSession(proc[pid].app)
  /\ FALSE \in HandleInfo
  /\ scan' = IdleScan
  /\ UNCHANGED <<osVars, db_locks, locked, sessionVars, suppressed, known_pids, start_time, asked>>

ExamineAdmit(pid) ==
  /\ scan.pc = "examine" /\ pid \in scan.todo
  /\ Relevant(pid)
  /\ TRUE \in HandleInfo
  /\ Admits(proc[pid].app, pid)
  /\ TakeIn(proc[pid].app, pid)
  /\ scan' = Examined(pid)
  /\ UNCHANGED <<osVars, db_locks, locked, suppressed, known_pids, start_time, asked>>

\* Not admitted by a session: passed if the pid is allowed or the app suppressed.
ExamineReject(pid) ==
  /\ scan.pc = "examine" /\ pid \in scan.todo
  /\ Relevant(pid)
  /\ HasSession(proc[pid].app) => TRUE \in HandleInfo /\ ~Admits(proc[pid].app, pid)
  /\ scan' = IF allowed_pids[pid] # 0 \/ suppressed[proc[pid].app] > 0
             THEN Examined(pid)
             ELSE [Examined(pid) EXCEPT !.caught = @ \union
                    {[pid |-> pid, started |-> proc[pid].started, app |-> proc[pid].app]}]
  /\ UNCHANGED <<osVars, db_locks, locked, sessionVars, suppressed, known_pids, start_time, asked>>

\* All the caught instances of one app are terminated and the controller is called back;
\* it may or may not start a prompt.  A handle whose process is gone, or whose pid has
\* another process by now, is skipped; if every one is denied the app is suppressed.
Caught(a) == {h \in scan.caught : h.app = a}
Current(a) == {h \in Caught(a) : proc[h.pid].started = h.started}
Denied(a) == {h \in Current(a) : proc[h.pid].protection # "none"}

Terminate(a) ==
  /\ scan.pc = "examine" /\ scan.todo = {}
  /\ Caught(a) # {}
  /\ proc' = [pid \in Pids |->
       IF \E h \in Current(a) \ Denied(a) : h.pid = pid THEN NoProc ELSE proc[pid]]
  /\ suppressed' = IF Denied(a) = Caught(a) THEN [suppressed EXCEPT ![a] = SuppressTime]
                   ELSE suppressed
  /\ UNCHANGED <<starts, db_locks, locked, sessionVars, known_pids, start_time>>

Enforce(a) ==
  /\ Terminate(a)
  /\ asked' \in IF Denied(a) = Caught(a) THEN {asked} ELSE {asked, asked \union {a}}
  /\ scan' = [scan EXCEPT !.caught = @ \ Caught(a)]

\* The controller cannot find out who is meant (_on_intercept asks the database for the
\* aliases) and raises: the scan ends with the instances of the other apps alive.
EnforceRaises(a) ==
  /\ Terminate(a)
  /\ scan' = IdleScan
  /\ UNCHANGED asked

ScanEnd ==
  /\ scan.pc = "examine" /\ scan.todo = {} /\ scan.caught = {}
  /\ scan' = IdleScan
  /\ UNCHANGED <<osVars, db_locks, locked, sessionVars, suppressed, known_pids, start_time, asked>>

-----------------------------------------------------------------------------
Environment ==
  \/ \E pid \in Pids, a \in Apps, d \in Protections : Start(pid, a, d)
  \/ \E pid \in Pids : Exit(pid)
  \/ Tick
  \/ ChangeLocks
  \/ \E a \in Apps : Authorize(a) \/ Cancel(a)

ScanStep ==
  \/ ScanBegin \/ ClearDead \/ Prune \/ Snapshot \/ SnapshotFails \/ ScanEnd
  \/ \E pid \in Pids :
       \/ PruneRaises(pid)
       \/ ExamineIrrelevant(pid) \/ ExamineRaises(pid) \/ ExamineAdmit(pid) \/ ExamineReject(pid)
  \/ \E a \in Apps : Enforce(a) \/ EnforceRaises(a)

Next == Environment \/ MarkStarted \/ ScanStep

Spec == Init /\ [][Next]_vars

\* The monitor thread keeps scanning and time passes.  The process list is readable again
\* and again, and again and again no killed process outlasts the wait for it.
Fairness ==
  /\ WF_vars(Tick) /\ WF_vars(MarkStarted) /\ WF_vars(ScanStep)
  /\ SF_vars(Prune) /\ SF_vars(Snapshot)

FairSpec == Spec /\ Fairness
-----------------------------------------------------------------------------
(* Properties *)

TypeOK ==
  /\ proc \in [Pids -> Process \union {NoProc}]
  /\ starts \in 0..MaxStarts
  /\ db_locks \subseteq Apps /\ locked \subseteq Apps /\ asked \subseteq Apps
  /\ allowed_pids \in [Pids -> 0..MaxStarts]
  /\ sessions \in [Apps -> Session \union {NoSession}]
  /\ suppressed \in [Apps -> 0..SuppressTime]
  /\ known_pids \subseteq Pids
  /\ start_time \in -1..MaxStarts
  /\ scan \in [pc : {"idle", "clear", "prune", "snapshot", "examine"},
               todo : SUBSET Pids, caught : SUBSET Handle]

\* An instance that is live, locked, created since monitoring started and that scans have
\* passed (it is in known_pids and no scan is looking at it).
Settled(pid) ==
  /\ pid \in Live /\ pid \in known_pids
  /\ pid \notin scan.todo
  /\ \A h \in scan.caught : h.pid # pid
  /\ proc[pid].app \in locked /\ proc[pid].started > start_time

\* The pid in allowed_pids is never that of another, later instance while a scan examines
\* it, though line 466 compares the pid alone.
AllowedIsCurrent ==
  \A pid \in scan.todo :
    pid \in Live /\ allowed_pids[pid] # 0 => allowed_pids[pid] = proc[pid].started

\* An allowed instance that still runs is observed by the session that admitted it: when
\* a session ends nothing it admitted stays allowed.
AllowedIsObserved ==
  \A pid \in Pids :
    pid \in Live /\ allowed_pids[pid] = proc[pid].started
      => \E a \in Apps : HasSession(a) /\ sessions[a].observed[pid] = allowed_pids[pid]

\* While a settled instance of an app runs, a further process of that app is not caught:
\* the follow-up processes of an approved run are authorized with it (controller.py 112).
FollowUpAuthorized ==
  [][\A h \in scan'.caught \ scan.caught : \A other \in Pids \ {h.pid} :
       Settled(other) => proc[other].app # h.app]_vars

\* A session does not outlive its processes for ever: an app left without any is asked
\* about again.
SessionsEnd ==
  \A a \in Apps :
    HasSession(a) ~> (~HasSession(a) \/ \E pid \in Live : proc[pid].app = a)
=============================================================================
