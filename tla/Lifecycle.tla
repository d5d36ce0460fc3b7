----------------------------- MODULE Lifecycle -----------------------------
(* The processes of the program (main.py): a start takes the single-instance *)
(* mutex or signals the instance that has it, hands over to an elevated or a *)
(* differently configured child, asks for the password, spawns a watchdog    *)
(* and runs.  An exit leaves a marker, stops the watchdog and releases the   *)
(* mutex; a process that ends without the marker is started again by its     *)
(* watchdog.  Every call that another process can observe is a step.         *)
EXTENDS Naturals, FiniteSets

CONSTANTS
  Procs,          \* the processes, numbered in the order they are started
  MaxStarts,      \* bound: starts by the user or by the logon task
  MaxHandovers,   \* bound: children started by a process that then ends
  MaxFaults,      \* bound: kills and failing system calls
  ChildIsSlow     \* does an elevated child reach the mutex after its parent's end?

ASSUME BoundsAssumption ==
  /\ MaxStarts \in Nat /\ MaxHandovers \in Nat /\ MaxFaults \in Nat
  /\ Procs = 1..(MaxStarts + MaxHandovers + MaxFaults)
ASSUME ChildAssumption == ChildIsSlow \in BOOLEAN

VARIABLES
  proc,       \* the processes
  watchdog,   \* p -> the watchdog that p spawned
  mutex,      \* the named mutex of Windows
  marker,     \* does the intentional-exit marker exist?
  request,    \* does .open_dashboard exist?
  starts, handovers, faults   \* how much of each bound is used

used == <<starts, handovers, faults>>
vars == <<proc, watchdog, mutex, marker, request, used>>

-----------------------------------------------------------------------------
(* The mutex.  It exists while a handle to it is open; one whose owner ends    *)
(* without releasing it is abandoned.                                          *)

Nobody == 0
NoMutex == [handles |-> {}, owner |-> Nobody, abandoned |-> FALSE]

Closed(m, p) ==
  IF m.handles \ {p} = {} THEN NoMutex ELSE [m EXCEPT !.handles = @ \ {p}]

\* CreateMutexW with initial ownership: only a new mutex is owned.
Opened(m, p) ==
  IF m.handles = {}
  THEN [handles |-> {p}, owner |-> p, abandoned |-> FALSE]
  ELSE [m EXCEPT !.handles = @ \union {p}]

Released(m, p) ==
  Closed(IF m.owner = p THEN [m EXCEPT !.owner = Nobody] ELSE m, p)

\* The process p ends: its handle is closed, what it still owns is abandoned.
Orphaned(m, p) ==
  LET c == Closed(m, p)
  IN  IF c.owner = p THEN [c EXCEPT !.owner = Nobody, !.abandoned = TRUE] ELSE c

-----------------------------------------------------------------------------
Unborn == [pc |-> "unborn", admin |-> FALSE, background |-> FALSE, compat |-> FALSE,
           took |-> "nothing", parent |-> Nobody]

Ended == {"exited", "killed", "cancelled", "declined", "failed", "lost", "handed"}
Born == {p \in Procs : proc[p].pc # "unborn"}
Alive == {p \in Born : proc[p].pc \notin Ended}

Init ==
  /\ proc = [p \in Procs |-> Unborn]
  /\ watchdog = [p \in Procs |-> "none"]
  /\ mutex = NoMutex
  /\ marker \in BOOLEAN
  /\ request = FALSE
  /\ starts = 0 /\ handovers = 0 /\ faults = 0

At(p, pc) == proc[p].pc = pc
Goto(p, pc) == proc' = [proc EXCEPT ![p].pc = pc]

\* A fault happens, if the bound allows one more.
Fault == faults < MaxFaults /\ faults' = faults + 1 /\ UNCHANGED <<starts, handovers>>

\* The processes after the next one has been started with the settings of s, and p
\* has gone on to pc.
Starting(s, p, pc) ==
  LET child == Cardinality(Born) + 1
  IN  [q \in Procs |-> IF q = child THEN [s EXCEPT !.pc = "create", !.took = "nothing"]
                       ELSE IF q = p THEN [proc[p] EXCEPT !.pc = pc]
                       ELSE proc[q]]

-----------------------------------------------------------------------------
(* Starting *)

\* The user starts the program, or the logon task starts it in the background.
Start ==
  /\ starts < MaxStarts
  /\ starts' = starts + 1
  /\ \E admin, background \in BOOLEAN :
       /\ background => admin
       /\ proc' = Starting([Unborn EXCEPT !.admin = admin, !.background = background],
                           Nobody, "none")
  /\ UNCHANGED <<watchdog, mutex, marker, request, handovers, faults>>

\* acquire_single_instance_lock: open or create the mutex.
CreateMutex(p) ==
  /\ At(p, "create")
  /\ ChildIsSlow /\ proc[p].parent # Nobody => proc[proc[p].parent].pc \in Ended
  /\ mutex' = Opened(mutex, p)
  /\ proc' = [proc EXCEPT
       ![p].pc = IF mutex.handles = {} THEN "elevate" ELSE "wait",
       ![p].took = IF mutex.handles = {} THEN "created" ELSE @]
  /\ UNCHANGED <<watchdog, marker, request, used>>

\* The call fails, or raises: the start goes on without a mutex.
CreateMutexFails(p) ==
  /\ At(p, "create")
  /\ Fault
  /\ proc' = [proc EXCEPT ![p].pc = "elevate", ![p].took = "unguarded"]
  /\ UNCHANGED <<watchdog, mutex, marker, request>>

\* Mutant: the mutex of an exiting instance is not tested.
WaitMutexTaking(p) ==
  /\ At(p, "wait")
  /\ mutex' = [mutex EXCEPT !.owner = p, !.abandoned = FALSE]
  /\ proc' = [proc EXCEPT ![p].pc = "elevate", ![p].took = "created"]
  /\ UNCHANGED <<watchdog, marker, request, used>>

\* Mutant: an abandoned mutex is taken for that of a running instance.
WaitMutexAbandoned(p) ==
  /\ At(p, "wait")
  /\ mutex' = Closed(mutex, p)
  /\ Goto(p, "notify")
  /\ UNCHANGED <<watchdog, marker, request, used>>

\* Mutant: the handle of a refused start stays open.
WaitMutexLeaking(p) ==
  /\ At(p, "wait")
  /\ mutex.owner # Nobody
  /\ Goto(p, "notify")
  /\ UNCHANGED <<watchdog, mutex, marker, request, used>>

\* WaitForSingleObject(handle, 0) on the mutex of another instance: an abandoned one
\* is closed and created again; otherwise the handle is closed, also when the wait
\* has just made p the owner of a mutex that its owner had released ("returned").
WaitMutex(p) ==
  /\ At(p, "wait")
  /\ LET owned == IF mutex.owner = Nobody
                  THEN [mutex EXCEPT !.owner = p, !.abandoned = FALSE] ELSE mutex
     IN  mutex' = Closed(owned, p)
  /\ proc' = [proc EXCEPT
       ![p].pc = IF mutex.owner = Nobody /\ mutex.abandoned THEN "recreate" ELSE "notify",
       ![p].took = IF mutex.owner = Nobody /\ ~mutex.abandoned THEN "returned" ELSE @]
  /\ UNCHANGED <<watchdog, marker, request, used>>

\* The second CreateMutexW: nobody asks whether the mutex existed already.
RecreateMutex(p) ==
  /\ At(p, "recreate")
  /\ mutex' = Opened(mutex, p)
  /\ proc' = [proc EXCEPT ![p].pc = "elevate",
       ![p].took = IF mutex.handles = {} THEN "created" ELSE "abandoned"]
  /\ UNCHANGED <<watchdog, marker, request, used>>

\* notify_existing_instance, and the end of this process.
Notify(p) ==
  /\ At(p, "notify")
  /\ request' = TRUE
  /\ Goto(p, "lost")
  /\ mutex' = Orphaned(mutex, p)
  /\ UNCHANGED <<watchdog, marker, used>>

\* ensure_administrator_session, when there is nothing to do.
AlreadyElevated(p) ==
  /\ At(p, "elevate")
  /\ proc[p].admin
  /\ Goto(p, "clear")
  /\ UNCHANGED <<watchdog, mutex, marker, request, used>>

\* The user allows the elevated child; this process still holds the mutex.
Elevate(p) ==
  /\ At(p, "elevate")
  /\ ~proc[p].admin
  /\ handovers < MaxHandovers
  /\ handovers' = handovers + 1
  /\ proc' = Starting([proc[p] EXCEPT !.admin = TRUE, !.parent = p], p, "handover")
  /\ UNCHANGED <<watchdog, mutex, marker, request, starts, faults>>

ElevationDeclined(p) ==
  /\ At(p, "elevate")
  /\ ~proc[p].admin
  /\ Goto(p, "declined")
  /\ mutex' = Orphaned(mutex, p)
  /\ UNCHANGED <<watchdog, marker, request, used>>

\* The process that has handed over ends, without releasing the mutex.
HandedOver(p) ==
  /\ At(p, "handover")
  /\ Goto(p, "handed")
  /\ mutex' = Orphaned(mutex, p)
  /\ UNCHANGED <<watchdog, marker, request, used>>

ClearMarker(p) ==
  /\ At(p, "clear")
  /\ \/ marker' = FALSE /\ UNCHANGED used
     \/ Fault /\ UNCHANGED marker
  /\ Goto(p, "init")
  /\ UNCHANGED <<watchdog, mutex, request>>

-----------------------------------------------------------------------------
(* SecureAppLocker.__init__ and run *)

\* A dashboard request left by another process is served at once, before run() looks
\* at the start-up error or asks for the password.
Construct(p) ==
  /\ At(p, "init")
  /\ request' = FALSE
  /\ Goto(p, IF request THEN "earlyDashboard" ELSE "checked")
  /\ UNCHANGED <<watchdog, mutex, marker, used>>

\* Tk has no usable runtime: the mutex is released, then another interpreter started.
TclFails(p) ==
  /\ At(p, "init")
  /\ ~proc[p].compat
  /\ handovers < MaxHandovers
  /\ handovers' = handovers + 1
  /\ mutex' = Released(mutex, p)
  /\ Goto(p, "relaunch")
  /\ UNCHANGED <<watchdog, marker, request, starts, faults>>

RelaunchCompatible(p) ==
  /\ At(p, "relaunch")
  /\ proc' = Starting([proc[p] EXCEPT !.compat = TRUE, !.parent = Nobody], p, "handed")
  /\ mutex' = Orphaned(mutex, p)
  /\ UNCHANGED <<watchdog, marker, request, used>>

\* The constructor raises (the database, the controller): the process ends.  If it was Tk,
\* for which no other interpreter could be started, the mutex is released first.
ConstructFails(p) ==
  /\ At(p, "init")
  /\ Fault
  /\ Goto(p, "failed")
  /\ \E m \in {mutex, Released(mutex, p)} : mutex' = Orphaned(m, p)
  /\ UNCHANGED <<watchdog, marker, request>>

\* The user answers, or closes, the password dialog of the early dashboard.
LeaveEarlyDashboard(p) ==
  /\ At(p, "earlyDashboard")
  /\ Goto(p, "checked")
  /\ UNCHANGED <<watchdog, mutex, marker, request, used>>

\* run(): an error box if the start-up check failed; a foreground start asks for the
\* master password, one in the background does not.
Run(p) ==
  /\ At(p, "checked")
  /\ \/ Goto(p, IF proc[p].background THEN "spawn" ELSE "login") /\ UNCHANGED used
     \/ Goto(p, "errorBox") /\ Fault
  /\ UNCHANGED <<watchdog, mutex, marker, request>>

Login(p) ==
  /\ At(p, "login")
  /\ Goto(p, "spawn")
  /\ UNCHANGED <<watchdog, mutex, marker, request, used>>

\* The login is cancelled or the error box closed: run() returns, the lock is released
\* in the finally block, no watchdog has been started.
LeaveRun(p) ==
  /\ At(p, "login") \/ At(p, "errorBox")
  /\ Goto(p, "cancelled")
  /\ mutex' = Orphaned(Released(mutex, p), p)
  /\ UNCHANGED <<watchdog, marker, request, used>>

SpawnWatchdog(p) ==
  /\ At(p, "spawn")
  /\ \/ watchdog' = [watchdog EXCEPT ![p] = "polling"] /\ UNCHANGED used
     \/ Fault /\ UNCHANGED watchdog
  /\ Goto(p, "run")
  /\ UNCHANGED <<mutex, marker, request>>

\* poll_queue, in the main loop or in that of the login dialog or the error box, finds the
\* request of another start.
ServeRequest(p) ==
  /\ proc[p].pc \in {"login", "errorBox", "run"}
  /\ request
  /\ request' = FALSE
  /\ UNCHANGED <<proc, watchdog, mutex, marker, used>>

-----------------------------------------------------------------------------
(* perform_exit *)

MarkExit(p) ==
  /\ At(p, "run")
  /\ \/ marker' = TRUE /\ Goto(p, "stop") /\ UNCHANGED used
     \/ Fault /\ Goto(p, "stopUnmarked") /\ UNCHANGED marker
  /\ UNCHANGED <<watchdog, mutex, request>>

Stopping(p) == At(p, "stop") \/ At(p, "stopUnmarked")

\* Mutant: the watchdog is left to find the marker by itself.
StopWatchdogNot(p) ==
  /\ Stopping(p)
  /\ Goto(p, "release")
  /\ UNCHANGED <<watchdog, mutex, marker, request, used>>

\* The watchdog is terminated; if that is refused it survives.
StopWatchdog(p) ==
  /\ Stopping(p)
  /\ \/ /\ watchdog' = [watchdog EXCEPT ![p] = IF @ = "polling" THEN "gone" ELSE @]
        /\ UNCHANGED used
     \/ /\ watchdog[p] = "polling"
        /\ watchdog' = [watchdog EXCEPT ![p] = "survivor"]
        /\ Fault
  /\ Goto(p, "release")
  /\ UNCHANGED <<mutex, marker, request>>

\* Told to end and then killed, the watchdog outlasts both waits: the exception leaves
\* perform_exit and poll_queue, which is not rescheduled.  The program goes on to protect
\* with its lock and its marker, but serves no request and no second exit.
StopWatchdogRaises(p) ==
  /\ Stopping(p)
  /\ watchdog[p] = "polling"
  /\ Fault
  /\ \E w \in {"gone", "survivor"} : watchdog' = [watchdog EXCEPT ![p] = w]
  /\ Goto(p, "deaf")
  /\ UNCHANGED <<mutex, marker, request>>

\* The monitor is told to stop, the database checkpointed, the lock released.
ReleaseLock(p) ==
  /\ At(p, "release")
  /\ mutex' = Released(mutex, p)
  /\ Goto(p, "quit")
  /\ UNCHANGED <<watchdog, marker, request, used>>

Quit(p) ==
  /\ At(p, "quit")
  /\ Goto(p, "exited")
  /\ mutex' = Orphaned(mutex, p)
  /\ UNCHANGED <<watchdog, marker, request, used>>

-----------------------------------------------------------------------------
(* Crashes, and the watchdogs *)

Kill(p) ==
  /\ p \in Alive
  /\ Fault
  /\ Goto(p, "killed")
  /\ mutex' = Orphaned(mutex, p)
  /\ UNCHANGED <<watchdog, marker, request>>

Watching(p) == watchdog[p] \in {"polling", "survivor"}

KillWatchdog(p) ==
  /\ Watching(p)
  /\ Fault
  /\ watchdog' = [watchdog EXCEPT ![p] = "killed"]
  /\ UNCHANGED <<proc, mutex, marker, request>>

\* run_watchdog: p has ended, and the marker decides.
WatchdogFindsEnd(p) ==
  /\ Watching(p)
  /\ p \notin Alive
  /\ watchdog' = [watchdog EXCEPT ![p] = IF marker THEN "gone" ELSE "relaunch"]
  /\ UNCHANGED <<proc, mutex, marker, request, used>>

WatchdogRelaunches(p) ==
  /\ watchdog[p] = "relaunch"
  /\ \/ /\ proc' = Starting([proc[p] EXCEPT !.parent = Nobody],
                            Nobody, "none")
        /\ watchdog' = [watchdog EXCEPT ![p] = "gone"]
        /\ UNCHANGED used
     \/ Fault /\ watchdog' = [watchdog EXCEPT ![p] = "failed"] /\ UNCHANGED proc
  /\ UNCHANGED <<mutex, marker, request>>

-----------------------------------------------------------------------------
Acquire(p) == CreateMutex(p) \/ CreateMutexFails(p) \/ WaitMutex(p) \/ RecreateMutex(p)

\* What a process does without waiting for the user.
Step(p) ==
  \/ Acquire(p) \/ Notify(p) \/ AlreadyElevated(p) \/ HandedOver(p) \/ ClearMarker(p)
  \/ Construct(p) \/ TclFails(p) \/ RelaunchCompatible(p) \/ ConstructFails(p)
  \/ Run(p) \/ SpawnWatchdog(p) \/ ServeRequest(p)
  \/ StopWatchdog(p) \/ StopWatchdogRaises(p) \/ ReleaseLock(p) \/ Quit(p)

User(p) ==
  \/ Elevate(p) \/ ElevationDeclined(p) \/ LeaveEarlyDashboard(p) \/ Login(p)
  \/ LeaveRun(p) \/ MarkExit(p)

WatchdogStep(p) == WatchdogFindsEnd(p) \/ WatchdogRelaunches(p)

Next ==
  \/ Start
  \/ \E p \in Procs : Step(p) \/ User(p) \/ WatchdogStep(p) \/ Kill(p) \/ KillWatchdog(p)

Spec == Init /\ [][Next]_vars

\* Every process and every watchdog is scheduled; the user need not answer.
FairSpec == Spec /\ \A p \in Procs : WF_vars(Step(p)) /\ WF_vars(WatchdogStep(p))

-----------------------------------------------------------------------------
(* Properties *)

Settings ==
  [pc : {"unborn", "create", "wait", "recreate", "notify", "elevate", "handover", "clear",
         "init", "relaunch", "earlyDashboard", "checked", "errorBox", "login", "spawn",
         "run", "stop", "stopUnmarked", "deaf", "release", "quit"} \union Ended,
   admin : BOOLEAN, background : BOOLEAN, compat : BOOLEAN,
   took : {"nothing", "created", "abandoned", "unguarded", "returned"},
   parent : Procs \union {Nobody}]

\* Past the lock and not yet past its release: the instances of the program.
InCharge ==
  {p \in Procs : proc[p].pc \in {"elevate", "handover", "clear", "init", "earlyDashboard",
     "checked", "errorBox", "login", "spawn", "run", "stop", "stopUnmarked", "deaf",
     "release"}}

\* Besides the types: an open handle belongs to an instance or to a start that is still
\* asking, so that a refused or released one never keeps the mutex alive.
TypeOK ==
  /\ proc \in [Procs -> Settings]
  /\ watchdog \in [Procs -> {"none", "polling", "survivor", "relaunch", "gone",
                             "failed", "killed"}]
  /\ mutex \in [handles : SUBSET Procs, owner : Procs \union {Nobody}, abandoned : BOOLEAN]
  /\ marker \in BOOLEAN /\ request \in BOOLEAN
  /\ starts \in 0..MaxStarts /\ handovers \in 0..MaxHandovers /\ faults \in 0..MaxFaults
  /\ mutex.handles \subseteq InCharge \union {p \in Procs : At(p, "wait")}
  /\ mutex.owner # Nobody => mutex.handles # {} /\ mutex.owner \in Alive

\* The single-instance lock of main.py admits a second instance only where one of the
\* two went on without owning the mutex: CreateMutexW had failed, or an abandoned
\* mutex was taken over that a third start had created anew.
OwnersExclude ==
  \A p, q \in InCharge :
    p # q => \E x \in {p, q} : mutex.owner # x /\ proc[x].took \in {"abandoned", "unguarded"}

\* A watchdog starts the program again only if its parent was killed, never after an exit
\* that went to its end, although the next start removes the marker: perform_exit stops the
\* watchdog before it gives the lock away.  (A watchdog that could not be stopped may.)
RelaunchOnlyKilled ==
  [][\A p \in Procs :
       watchdog[p] = "polling" /\ watchdog'[p] = "relaunch" => At(p, "killed")]_vars

\* An instance that monitors, and one that waits for an answer: of the elevation prompt,
\* which only a start without administrator rights shows, or of a window.
Protecting == \E q \in Procs : proc[q].pc \in {"run", "deaf"}
WaitingForUser ==
  \E q \in Procs : \/ At(q, "elevate") /\ ~proc[q].admin
                  \/ proc[q].pc \in {"earlyDashboard", "login", "errorBox"}

\* The processes that ended otherwise than by handing over or for an instance that owns
\* the mutex: "returned" marks a start that took the success of its wait for a sign of
\* a running instance.
Over ==
  {q \in Procs : \/ proc[q].pc \in {"exited", "cancelled", "declined", "failed", "killed"}
                 \/ At(q, "lost") /\ proc[q].took = "returned"}

\* A program that is killed while its watchdog polls comes back, whatever else is being
\* started, refused or taken over at the time: an instance protects again, or waits for
\* the user, unless after the kill the watchdog is ended too or one more process is over.
KilledComesBack ==
  \A p \in Procs, n \in 1..Cardinality(Procs) :
    (At(p, "killed") /\ watchdog[p] = "polling" /\ ~marker /\ Cardinality(Over) = n)
      ~> \/ Protecting \/ WaitingForUser
         \/ watchdog[p] \in {"failed", "killed"}
         \/ Cardinality(Over) > n
=============================================================================
