--------------------------- MODULE PromptSessions ---------------------------
(* The monitor and the controller together: ProcessMonitor, whose scan calls *)
(* back, and the controller as PromptSlot promises it, which PromptFlow      *)
(* implements.  A right password opens a session in the monitor, then starts *)
(* the app, then ends the prompt and holds further ones back for a while;    *)
(* the monitor thread may meanwhile be anywhere in a scan.  Apps have no     *)
(* alias in common.                                                          *)
EXTENDS ProcessMonitor

CONSTANTS
  CancelHold,   \* CANCEL_COOLDOWN, in ticks
  ScanTicks     \* bound: how long a scan works on what it has caught

\* A scan does not take longer than a launched app is given to start.
ASSUME HoldAssumption == CancelHold \in Nat /\ ScanTicks \in Nat /\ ScanTicks < StartupGrace

VARIABLES
  slot, busy, waiting,   \* the controller, see PromptSlot
  hold,      \* prompt_cooldowns: ticks left
  answer,    \* how far on_prompt_result is
  scanning,  \* ticks since the scan caught something
  failed,    \* history: apps whose last launch failed
  spared,    \* history: apps that were suppressed once, as none of their instances could be ended
  overlooked \* history: creation times of live processes that no scan has judged, see Overlooking

controllerVars == <<slot, busy, waiting, hold>>
resultVars == <<answer, failed>>
survivorVars == <<spared, overlooked>>
allVars == <<vars, controllerVars, resultVars, scanning, survivorVars>>

Controller == INSTANCE PromptSlot WITH
  Aliases <- Apps, AliasesOf <- [a \in Apps |-> {a}], CanLose <- FALSE,
  held <- {a \in Apps : hold[a] > 0}

About(a, issue) == [app |-> a, issue |-> issue]
\* The apps whose password a prompt asks for.
Asked(prompts) == {p.app : p \in {q \in prompts : ~q.issue}}

SessionsInit ==
  /\ Init
  /\ slot = {} /\ busy = FALSE /\ waiting = {}
  /\ hold = [a \in Apps |-> 0]
  /\ answer = "none"
  /\ scanning = 0
  /\ failed = {} /\ spared = {} /\ overlooked = {}

-----------------------------------------------------------------------------
\* _on_intercept: asked at once, put off, or neither.
OnIntercept(p) ==
  /\ UNCHANGED hold
  /\ \/ Controller!Accept(p)
     \/ Controller!Defer(p)
     \/ /\ \/ busy /\ \E q \in slot \union waiting : Controller!Shares(p, q)
           \/ ~busy /\ Controller!HeldOff(p)
        /\ UNCHANGED <<slot, busy, waiting>>

\* The processes that known_pids hides from the scans though none has judged them: those a
\* scan that is broken off has found and not got to, those whose app had no rule when it
\* looked, and those that took over a pid before a scan saw its process gone.
Abandoned ==
  IF scan.pc = "examine" /\ scan'.pc = "idle"
  THEN {proc[pid].started : pid \in scan.todo} \union {h.started : h \in scan.caught}
  ELSE {}
Unruled == {proc[pid].started : pid \in {p \in scan.todo \ scan'.todo : proc[p].app \notin locked}}
Disguised == {proc'[pid].started : pid \in (known_pids \ scan.todo) \intersect (Live' \ Live)}
Overlooking ==
  overlooked' = {proc'[pid].started : pid \in Live'}
                  \intersect (overlooked \union Abandoned \union Unruled \union Disguised)

\* The scan ends the instances of an app and calls back; if it could end none, the user
\* is told so.
Spare(a) == spared' = IF Denied(a) = Caught(a) THEN spared \union {a} ELSE spared

Intercept(a) ==
  /\ Enforce(a)
  /\ OnIntercept(About(a, Denied(a) = Caught(a)))
  /\ asked' = asked \union Asked(slot' \ slot)
  /\ Spare(a)
  /\ scanning' = IF scan'.caught = {} THEN 0 ELSE scanning
  /\ UNCHANGED <<resultVars, overlooked>>

\* _tracked_aliases raises before anything is decided.
InterceptRaises(a) ==
  /\ EnforceRaises(a)
  /\ Spare(a) /\ Overlooking
  /\ scanning' = 0
  /\ UNCHANGED <<controllerVars, resultVars>>

-----------------------------------------------------------------------------
(* on_prompt_result, on the UI thread *)

Answerable(a, issue) == answer = "none" /\ slot = {About(a, issue)}

\* _launch_allowed_app: the session is opened before the app is started.
Open(a) ==
  /\ Answerable(a, FALSE)
  /\ Authorize(a)
  /\ answer' = "opened"
  /\ UNCHANGED <<controllerVars, failed, scanning, survivorVars>>

\* There is no such executable, or it has changed: an error box, and no session.
Refuse(a) ==
  /\ Answerable(a, FALSE)
  /\ Cancel(a)
  /\ answer' = "refused"
  /\ UNCHANGED <<controllerVars, failed, scanning, survivorVars>>

Held(a, ticks) == hold' = [hold EXCEPT ![a] = IF ticks > 0 THEN ticks ELSE @]

\* Mutant: the prompt is not held back after a launch.
ReleaseUnheld(a) ==
  /\ answer \in {"opened", "refused"}
  /\ UNCHANGED hold
  /\ \E p \in slot : p.app = a /\ Controller!Resolve(p)
  /\ failed' \in IF answer = "opened" THEN {failed \ {a}, failed \union {a}} ELSE {failed}
  /\ answer' = "released"
  /\ UNCHANGED <<vars, scanning, survivorVars>>

\* The finally block: the prompt ends; an app that was launched is on hold for as long as
\* its session waits for the first process.
Release(a) ==
  /\ answer \in {"opened", "refused"}
  /\ \/ answer = "opened" /\ Held(a, StartupGrace) /\ failed' = failed \ {a}
     \/ answer = "opened" /\ UNCHANGED hold /\ failed' = failed \union {a}
     \/ answer = "refused" /\ UNCHANGED <<hold, failed>>
  /\ \E p \in slot : p.app = a /\ Controller!Resolve(p)
  /\ answer' = "released"
  /\ UNCHANGED <<vars, scanning, survivorVars>>

\* A prompt is cancelled, or the error box of an issue closed.
Dismiss(a) ==
  /\ Held(a, CancelHold)
  /\ \E issue \in BOOLEAN :
       /\ Answerable(a, issue)
       /\ IF issue THEN UNCHANGED vars ELSE Cancel(a)
       /\ Controller!Resolve(About(a, issue))
  /\ answer' = "released"
  /\ UNCHANGED <<failed, scanning, survivorVars>>

\* Mutant: prompt_in_progress is not looked at again under the lock.
ProcessPendingForced ==
  /\ answer = "released"
  /\ \/ \E p \in waiting :
          /\ ~Controller!HeldOff(p)
          /\ slot' = {p} /\ busy' = TRUE /\ waiting' = waiting \ {p}
          /\ asked' = asked \union Asked({p})
     \/ /\ \A p \in waiting : Controller!HeldOff(p)
        /\ UNCHANGED <<slot, busy, waiting, asked>>
  /\ answer' = "none"
  /\ UNCHANGED <<osVars, db_locks, locked, sessionVars, suppressed, known_pids, start_time, scan,
                 hold, failed, scanning, survivorVars>>

\* _process_pending_prompts: between the release and this the monitor may have asked about
\* another app.
ProcessPending ==
  /\ answer = "released"
  /\ UNCHANGED hold
  /\ \/ \E p \in waiting : Controller!Promote(p) /\ asked' = asked \union Asked({p})
     \/ /\ busy \/ \A p \in waiting : Controller!HeldOff(p)
        /\ UNCHANGED <<slot, busy, waiting, asked>>
  /\ answer' = "none"
  /\ UNCHANGED <<osVars, db_locks, locked, sessionVars, suppressed, known_pids, start_time, scan,
                 failed, scanning, survivorVars>>

-----------------------------------------------------------------------------
\* Time passes for sessions, suppressions and holds alike.
Pass ==
  /\ scan.caught # {} => scanning < ScanTicks
  /\ scanning' = IF scan.caught # {} THEN scanning + 1 ELSE 0
  /\ Aged
  /\ hold' = [a \in Apps |-> Left(hold[a])]
  /\ sessions' # sessions \/ suppressed' # suppressed \/ hold' # hold
  /\ UNCHANGED <<osVars, db_locks, locked, allowed_pids, known_pids, start_time, scan, asked,
                 slot, busy, waiting, resultVars, survivorVars>>

\* What the monitor and the operating system do without the controller.
Alone ==
  /\ \/ \E pid \in Pids, a \in Apps, d \in Protections : Start(pid, a, d)
     \/ \E pid \in Pids :
          \/ Exit(pid) \/ PruneRaises(pid)
          \/ ExamineIrrelevant(pid) \/ ExamineRaises(pid)
          \/ ExamineAdmit(pid) \/ ExamineReject(pid)
     \/ ChangeLocks \/ MarkStarted
     \/ ScanBegin \/ ClearDead \/ Prune \/ Snapshot \/ SnapshotFails \/ ScanEnd
  /\ Overlooking
  /\ scanning' = IF scan'.caught = {} THEN 0 ELSE scanning
  /\ UNCHANGED <<controllerVars, resultVars, spared>>

SessionsNext ==
  \/ Alone
  \/ Pass
  \/ \E a \in Apps :
       \/ Intercept(a) \/ InterceptRaises(a)
       \/ Open(a) \/ Refuse(a) \/ Release(a) \/ Dismiss(a)
  \/ ProcessPending

SessionsSpec == SessionsInit /\ [][SessionsNext]_allVars

-----------------------------------------------------------------------------
(* Properties *)

\* Besides the types: the slot is taken while a prompt is in it, and a password is asked for
\* exactly while its prompt is there and unanswered.
SessionsTypeOK ==
  /\ TypeOK
  /\ slot \subseteq Controller!Prompt /\ waiting \subseteq Controller!Prompt
  /\ busy = (slot # {})
  /\ hold \in [Apps -> 0..MaxOf(StartupGrace, CancelHold)]
  /\ answer \in {"none", "opened", "refused", "released"}
  /\ scanning \in 0..ScanTicks
  /\ failed \subseteq Apps /\ spared \subseteq Apps /\ overlooked \subseteq Stamp
  /\ asked = IF answer \in {"opened", "refused"} THEN {} ELSE Asked(slot)

\* Every instance of a locked app that the scans have passed and that still runs is
\* accounted for: a session observes that very instance; or the system
\* denied that it, or once all caught instances of its app, be ended; or it is one that no
\* scan has judged, for one of the three reasons above.  (scan_processes: "If a restricted
\* app is found and not in allowed_pids, it terminates it".)
Observed(pid) == \E a \in Apps : sessions[a].observed[pid] = proc[pid].started
SurvivorsAccounted ==
  \A pid \in Pids : Settled(pid) =>
    \/ Observed(pid)
    \/ proc[pid].protection # "none"
    \/ proc[pid].app \in spared
    \/ proc[pid].started \in overlooked

\* Would the monitor let run an instance of a that is started now?
Unlocked(a) ==
  HasSession(a) /\ (InGrace(a) \/ LiveObserved(sessions[a].observed) # {})
Reported == {h.app : h \in scan.caught \ scan'.caught}

\* An app that has been unlocked and launched is not asked about because of what a scan
\* reports, although the scan may have caught instances before the password was given: the
\* hold of the controller outlasts such a scan, and later ones find nothing to report.
\* (One that is put off meanwhile may come up: Defer does not look at the holds.)
NotAskedWhileUnlocked ==
  [][\A p \in slot' \ slot :
       p.app \in Reported \ failed => ~Unlocked(p.app)]_allVars
=============================================================================
