# A verification project for SecureApp Locker (Zenvor Lock)

SecureApp Locker is a Windows desktop program that ends a locked application when it is
started, asks for the master password and starts the application again when the password
is right. These TLA+ modules model its concurrent and failure-prone parts. TLC checks
them on small instances; TLAPS proves their safety properties for every instance that
meets the assumptions named in section 4.

## 1. Inventory

| Component | State | Operations | Hard because | Correct when | Modelled in |
|---|---|---|---|---|---|
| `controller.py` | `prompt_in_progress`, `prompting_apps`, `prompt_cooldowns`, `_pending_prompts` | `_on_intercept`, `on_prompt_result`, `_process_pending_prompts`, `_launch_allowed_app` | monitor and UI thread, work outside the lock, exceptions | one prompt at a time, none lost, none on hold, state always released | `PromptFlow`, `PromptSlot` |
| `app_utils/secure_queue.py` | FIFO | `put`, `get_nowait` | three producers | order kept, nothing lost | `PromptFlow` |
| `main.py` (UI) | `_active_prompt_dialog`, poll timer | `poll_queue`, `show_prompt`, `confirm_exit` | nested event loops | every prompt reaches the screen | `PromptFlow`, `Dialogs` |
| `ui/password_prompt.py` | dialogs, their timers and grabs | answer, cancel, lockout refresh | modal loops that nest | one result per prompt, no deadlock, controls come back | `PromptFlow`, `Dialogs` |
| `monitoring/process_monitor.py` | `allowed_pids`, `_authorized_sessions`, `_suppressed_apps`, `_known_pids`, rules | `scan_processes`, `authorize_app_session`, `suppress_app` | processes change under the scan, pids are reused, access denied | who survives a scan is accounted for; sessions end | `ProcessMonitor` |
| `security/auth_manager.py` | hash, attempts, lockout in the protected state | setup, verify, change, recover, migrate | failing saves, counting, escalation | no guess lost, password kept | `AuthState` |
| `security/protected_state.py` | state file, guard file, registry anchor | `load_state`, `save_state`, `ensure_state` | three writes, crash, concurrent reader | never taken for tampered after a crash | `AuthState` |
| `app_utils/locked_apps_repository.py`, `security/policy_integrity.py` | `locked_apps`, HMAC | list, lock, unlock | reader between statements | covered, one rule each, whole batches | `PolicyStore` |
| `config/config_manager.py` | schema, write lock | `init_db`, migrations, `write_connection` | order of migration steps | legacy data survives | `PolicyStore`, `AuditChain` |
| `security/audit.py` | hash chain and head | append, verify, refresh | two stores in one transaction, cutting of details | chain and head agree; nothing leaves the log | `AuditChain` |
| `main.py` (life cycle) | mutex, exit marker, dashboard request, watchdog | start, hand over, watch, restart, exit | several processes | one instance, no restart after an exit, restart after a kill | `Lifecycle` |
| `app_utils/file_identity.py` | hash cache | `file_sha256` | two threads, files that change under them | an issue means a change; errors wear off | `FileIdentity` |
| `ui/dashboard.py` | refresh token, dialogs | inventory refresh, lock and unlock, set-up, recovery, password change | worker threads, nested dialogs | newest result wins, choices not stale | `PolicyStore`, `Dialogs` |
| `software_inventory.py` | none of interest | reading and ranking what is installed | - | - | `_merge_locked_apps` in `PolicyStore` |
| `startup.py`, `paths.py`, `logger.py`, `tk_runtime.py`, `authenticode.py` | none of interest | one-shot I/O | - | - | the relaunch of `tk_runtime.py` in `Lifecycle` |

`original_dashboard.py` is an older copy and the scripts at the root (`test_*.py`,
`fix_*.py`, `lock_*.py`) are experiments; the program imports neither.

How the parts interact: a start takes the single-instance mutex, hands over to an elevated
child if need be, and builds the locker; `init_db` and the constructor verify protected
state, rules and log. `Controller._run_loop`, on the monitor thread, calls
`scan_processes` every 20 ms; that asks `file_sha256` whether an executable is still the
locked one and calls back `_on_intercept`, which puts a `PROMPT` message on the UI queue.
The Tk thread polls the queue every 100 ms, shows the prompt, and calls `on_prompt_result`
with the answer, which launches the app, having authorized a session with the monitor, and
releases the prompt. Passwords are verified on the Tk thread against the protected state;
the monitor thread loads the same state for the integrity key whenever it verifies the
rules. All of them log events through `log_security_event`.

## 2. Modules

| Module | Models |
|---|---|
| `PromptFlow` | controller, UI queue, poll loop and prompt dialogs |
| `PromptSlot` | what the controller promises, abstractly; `PromptFlow` implements it |
| `ProcessMonitor` | the scan and the sessions, with the operating system as environment |
| `AuthState` | `auth_manager` on top of `protected_state`, with a reader |
| `PolicyStore` | the rules in the database and their HMAC, the dashboard that changes them, the monitor and the refresh worker that read them, `init_db` |
| `AuditChain` | the security log: threads that append in transactions, verification, take-over of an old log |
| `Lifecycle` | the processes of the program: mutex, elevation, marker, watchdog, exit |
| `Dialogs` | the windows: nested event loops, grabs, message boxes, lockout timers |
| `FileIdentity` | the cache of digests, files that change, the two threads that ask |
| `PromptSessions` | `ProcessMonitor` and the controller, as `PromptSlot` has it, together |
| `PromptFlow_proofs` (with the refinement), `PromptSessions_proofs` (with `ProcessMonitor`), `AuthState_proofs`, `PolicyStore_proofs`, `AuditChain_proofs`, `FileIdentity_proofs`, `Lifecycle_proofs`, `Dialogs_proofs` | theorems |
| `MC...` | instances for TLC |

An operator named after a bug with the comment "Mutant:" stands before the definition it
varies. No specification uses it: it is there to show that a property notices the bug.

### PromptFlow

An action is what one thread does between two points where the other thread, or a nested
event loop, can run. `_on_intercept` is two steps (the locked part, then the `put`);
`on_prompt_result` is up to four (begin, launch, release under the lock, pending). Modal
dialogs run a nested Tk event loop, in which the poll timer can fire, so the UI thread is
a call stack of at most one frame of `poll_queue` and one of `on_prompt_result`: the
variables `poll`, `result` and `top`. `prompt_cooldowns` holds ticks left in place of an
absolute expiry, so that an expired entry and a pruned one are the same; `Tick` stands
for the clock and the pruning. Aliases are a set per app, and apps may share them, as two
rules for the same executable name do. A rule without a path resolves its aliases by
reading the database, which may raise: the actions `...Raises` are the places where that,
or the construction of a dialog, throws. `PollExitRaises` is `confirm_exit` raising before
its dialog is there, `ExitRaises` after that, in the dialog or half-way through the exit; both
end the polling.

`PromptSlot` is the same seen from outside: a slot for the prompt that has to be answered,
a set of deferred ones, and the aliases that are on hold. The refinement mapping puts into
the slot whatever prompt is outstanding between the two threads (in the monitor's hand, in
the queue, in the dialog, in the error box, being decided), so that moving it from one to
the other is a stutter; `waiting` is `_pending_prompts` without its order. With
`CanLose`, which stands for the two kinds of exception, the prompt in the slot may vanish
and leave the flag behind.

### ProcessMonitor

A scan is split where the operating system can change what it looks at: rules and
expired pids (`ScanBegin`, `ClearDead`), `Prune`, `Snapshot`, one `Examine...` per new pid
and one `Enforce` per caught app. Creation times are numbered by start order; a process
has an app (the outcome of `_match_locked_app`) and may deny access to kill it or to read
its creation time. Sessions keep ticks to the deadline and since `last_seen_at`, cut off
where no comparison can tell any more. `HandleInfo` says whether a process handle has the
attribute `info`: `{FALSE}` is what `psutil.Process(pid)` returns, `{TRUE}` the doubles
the tests use. The passing runs allow both, each time a handle is asked; with `{FALSE}` alone
nothing is ever admitted, which is what `ProcessMonitorFollowUp` shows. Three things break a
scan off: a handle without `info` (`ExamineRaises`), a callback that raises after the
instances of its app were ended (`EnforceRaises`), and a process of a lingering session that
outlasts the second wait for its end (`PruneRaises`).

### AuthState

The state file, the guard and the registry anchor are a record `disk`; `save_state`
writes them one by one, and each write may fail (an `OSError`; for the registry a
`ProtectedStateError`, which the callers treat differently) or be the last before a crash.
What follows a save (`then`) is written as the callers' exception handling has it. The
lockout is kept as ticks left; time passes for the disk and for the copy being saved. The
install id is made with the state and never changes, so an anchor only says whether there
is a state and whether it has a password. The monitor thread's `load_state` reads the
three places in three steps. `shown`, `wrong`, `last` and `faulty` are history
variables: what the user was told and whether anything has failed so far.

### PolicyStore

A committed database is its rules (`db.rows`) and the rules its HMAC was made from
(`db.mac.of`), which is an HMAC without collisions. Writers hold `_WRITE_LOCK` and commit
or roll back as a whole, and all of them run on the Tk thread, so a transaction is one
step; `lock_apps` on a batch is the set of rules it leaves, whatever the order of the
apps. Readers hold no lock: `list_locked_apps` is three autocommitted statements, and the
monitor thread (`monitor`) and the refresh worker (`worker`) run them one by one. The
dashboard (`dash`) shows the rules its last refresh read, under the applications that
`_merge_locked_apps` matches them with; the user chooses from that, is asked for the
password in a modal dialog, and only then does the transaction run. A reader may fail with any
exception (`Fail`) between two statements or after them. The error is shown, and the buttons
come back over the rows of an earlier refresh: `dash.failed` says so. Files are installed,
replaced and removed at any moment. `Init` has what an earlier version may have left:
rules by name, rules with an old digest, a database without an HMAC, duplicates. `Boot`
is `init_db` and the check of the policy after it; logging in and starting the monitor
thread are part of it.

### PromptSessions

The two halves of an interception meet here. `ProcessMonitor` by itself lets the controller
ask or not as it likes (`Enforce`); here the answer is that of `_on_intercept`, by the actions
of `PromptSlot`, with holds that last for a number of ticks. `on_prompt_result` has the steps
`Open` (the session), `Release` (the finally block) and `ProcessPending`; between any two of
them the scan may go on. What it has caught before the password was given it may report after
the launch, and only the hold keeps the user from being asked again. `ScanTicks` bounds how
long a scan works on what it has caught, and is less than the grace: of a scan that hashes
files for longer than those two seconds nothing is claimed. The safety properties of the scan
(`SurvivorsAccounted`, `AllowedIsCurrent`) are checked here, with the sessions the controller
really opens.

`SurvivorsAccounted` says of every live instance of a locked app that the scans have passed
why it lives: a session observes it, or the system denied its end, or nobody has judged it.
Two history variables say which. `spared` names the apps of which once no caught instance could
be ended, and which were suppressed for that. `overlooked` has the instances that `known_pids`
hides from the scans though none has judged them, for one of three reasons: the scan that found
it was broken off (`Abandoned`), its app was not locked when it was looked at (`Unruled`), or it
took over a pid before a scan saw the earlier process gone (`Disguised`). The controller's
callback may raise before it decides anything (`InterceptRaises`).

### AuditChain

`log_security_event` is a transaction of `write_connection`: begin (with the lock of the
process), verify, insert, write the head, commit, any of which may fail. Details are
sequences of two kinds of characters, so that joining the words and cutting at 240
characters (`Width`) are what the code does to them. An HMAC is the list of everything it
covers. `Boot` is the verification by `init_db`, whose transaction may be rolled back by
another failing step, and the one by the constructor without a transaction.

### Lifecycle

Processes are numbered as they are started. A step is one call that another process can
observe: the two `CreateMutexW`, the wait, the marker file, the request file, the child,
the watchdog. `perform_exit` is a step for each of them, and may be given up: if the watchdog
outlasts the second wait for its end (`StopWatchdogRaises`), the monitor goes on, with the
lock held and the marker written, but the queue is no longer polled (`deaf`). The mutex is
modelled as Windows has it: it lives while there is a handle, belongs to a process, and is
abandoned if that ends. A wait
that succeeds on a mutex just released counts as "another instance runs" in
`acquire_single_instance_lock`, and so it does here: such a start gives the mutex back and
ends (`took` is `"returned"`), and nobody may be left running. `poll_queue`, called by the
constructor, serves a dashboard request that an earlier process left, before `run` looks
at the start-up error or asks for the password (`earlyDashboard`).

`ChildIsSlow` is an assumption: an elevated child, which has the user's consent and an
interpreter to wait for, reaches the mutex after its parent has ended. Without it the child
finds the mutex taken by its own parent, and nothing is left running; nothing in the code
prevents that.

### Dialogs

One thread, a stack of event loops (`wait_window` and message boxes) and one grab. A
callback that waits pushes a frame; it goes on when its window is closed and every loop
above it has ended. What a dialog was opened on is `stale` once another operation has
changed it. `robbed` says that another window has taken the grab: a prompt for an
intercepted app, or the exit dialog, opens on its own, grabs, and when it closes nobody
gives the grab back, so that the dashboard is usable under an open dialog. A second
operation can then nest and change the rows the first was chosen on. `PolicyStore` has one
operation at a time; this is what limits it. While the exit dialog is open `poll_queue` is
on the stack and no further prompt is shown.

### FileIdentity

A call of `file_sha256` is split between its looks at the world: stat, clock and cache,
open, last block read. A file has a stamp (size, modification and creation time; each
write makes a new one) and contents; who reads a file that changes under it may get
either contents. A file that is moved away may come back with its stamp: the history
variable `returned` says where that has happened. Each look may
raise an `OSError` (`OSError`), because there is no file or because it cannot be read; the
answer is then `""`, which differs from every digest. The field `failed` of a call says that
this happened though the file was there.

## 3. Runs

| Run | Shows | Bounds |
|---|---|---|
| `PromptFlow` | `SinglePrompt`, `Deduplication`, `ImplementsSlot`, `PromptReachesUser` | 3 apps, two sharing an alias, one without a path; holds of 2 and 1 ticks; one exit request queued |
| `PromptFlowRaises` | `ImplementsSlot` when the policy store and the dialogs raise, those of an exit too | the same |
| `ProcessMonitorHostile` | `AllowedIsObserved`, `SessionsEnd` with access denied, pid reuse, changing rules, broken handles, raising callbacks and processes that outlast their end | 1 app, 2 pids, 3 processes |
| `ProcessMonitorFollowUp` | with real handles no second process is admitted (a violation) | 1 app, 2 pids |
| `PromptSessions` | `SurvivorsAccounted`, `AllowedIsCurrent`, `NotAskedWhileUnlocked`, with processes that may not be ended, pid reuse, both kinds of handle and raising callbacks | 2 apps, 2 pids, 3 processes, 2 ticks of grace, 3 of hold, scans of 1 tick; symmetric |
| `AuthState` | `Loadable`, `ReaderAccepted`, `AttemptsCounted`, `StoredIsSeen`, `PasswordKept`, `LockoutsEscalate` with failing writes and crashes | 2 strong passwords, 1 weak, 3 attempts, 2 lockouts, 2 keys |
| `PolicyStore` | `HmacCovers`, `OneRuleEach`, `WholeBatch`, `DashboardCurrent`, `MonitorCatchesUp` with failing transactions and readers, crashes and changing files | 2 apps of one name, 2 digests, 2 kinds of old database, 2 transactions, 1 change of a file |
| `Lifecycle` | `OwnersExclude`, `RelaunchOnlyKilled`, `KilledComesBack` | 2 starts, 1 handover, 1 fault (and what a watchdog starts) |
| `AuditChain` | `ChainHolds`, `AppendOnly` | 2 threads, details of one and two words, uncut and cut inside a word, 3 old logs, 4 rows |
| `AuditChainCut` | details cut at a blank make the program refuse its own log (a violation) | the same with such details |
| `Dialogs` | `NeverStuck`, `StaleOnlyIfRobbed`, `AnswerActedUpon`, `ControlsComeBack` | 2 operations and 2 keys at a time, 2 nested loops, 2 attempts, a lockout of 1 tick |
| `FileIdentity` | `IssueMeansChanged`, `ErrorsWearOff`, with calls that cannot read the file | 1 path, 2 contents, 2 versions, a cache of 1 tick, 2 ticks |

`TypeOK` of each module is checked with it, that of `ProcessMonitor` in `SessionsTypeOK`;
those of `AuditChain`, `PromptSessions`, `Lifecycle` and `Dialogs` say more than types (who
may be in a transaction, whose handles are open, which timers and boxes may be left).

Why the bounds suffice: three apps give a prompt in progress, a deferred one and a third
that overlaps with either; two pids give a parent and a follow-up process or a
stranger; three starts let either pid be used again. `PromptSessions` leaves the rules as they
are, to have fewer states: that they change meanwhile is in `ProcessMonitorHostile` and in
the theorems. Two lockouts reach the cap
(`MaxLockout = 3`, `BaseLockout = 1`), three attempts tell the first, a middle and the
last apart. Two transactions let one fall between the statements of a reader that began
before or after the other; a rule matters to another only if they share a path or a name,
which two apps of one name and a rule by name cover. Two starts and a handover give an
instance, one that ends and one that comes between; a fault is a kill of either, of a
watchdog, or a failing call. Two threads are all the program has; a fourth row is appended
to a log in which every kind of row stands first, in the middle and last. Two nested loops
give an operation with a box or with another operation over it; the safety properties are
proved for every depth. Two versions and two ticks let an entry be made
from one file, outlive it, be used for the other and expire; digests of different paths
do not interact. Times are small but keep the order of the code's constants (the cancel
hold longer than the launch hold, the child grace longer than the idle timeout).

Deadlock is not checked where the system may really stop: `PromptFlowRaises` (an exception
has ended the polling), `Lifecycle` (everything has exited and the bounds are used up),
`Dialogs` (the program has exited), `FileIdentity` and `AuditChainCut` (the bounds are used
up, or the program is refused). The symmetric runs check no liveness.

Fairness: `PromptFlow` assumes that the clock ticks, that a `put` that was begun is
finished, and that the Tk thread runs its own steps (`WF`); the user need not do anything,
which is why the liveness properties allow for a box or dialog that waits. It is weak
fairness of the whole poll and of the whole of `on_prompt_result`, since the Tk loop
gives every due timer its turn. `ProcessMonitor` assumes that time passes, that monitoring
is started, that the monitor thread goes on scanning, that again and again a prune comes to
its end, no process it ends outlasting the wait (`SF` of `Prune`), and that the process list
is readable again and again (`SF` of `Snapshot`). `PolicyStore` assumes that the monitor
thread goes on scanning; `MonitorCatchesUp` says itself that its reading fails no more.
`Lifecycle` assumes that the operating system runs every process and every watchdog (`WF`),
not that the user answers: `KilledComesBack` promises an instance
that protects or one that waits for the user (at the consent prompt only a process that is not
elevated waits), unless the watchdog itself is ended or, after the kill, one more process is
over for good. `Dialogs` assumes that a
`wait_window` whose window is gone returns (`WF`) and that Tk fires a timer that is due,
in whichever loop runs (`SF`: the instants in which `wait_window` returns, when nothing
fires, may recur for ever).

## 4. Proofs

Every invariant and every action property of section 3 is proved here for all values of the
constants; the runs show them on instances, and that the assumptions can be met. What is
only model-checked is liveness: `PromptReachesUser`, `SessionsEnd`, `MonitorCatchesUp`,
`KilledComesBack` and `ControlsComeBack` rest on fairness, which the prover does not treat.

`PromptFlow_proofs` proves, for every set of apps, aliases and times and whatever raises,
- `TypeCorrect`: `Spec => []TypeOK`. It needs that the deferred list only ever loses
  entries when filtered (`WithoutOverlapType`, by the least-number principle, as the
  filter is a recursive function over the naturals) and that frames and messages keep
  their shape.
- `AtMostOnePrompt`: `Spec => []SinglePrompt`. `SinglePrompt` is inductive together with
  `TypeOK`: it names every place an outstanding prompt can be (hand, queue, dialog, error
  box, decision), says they exclude each other, and that the flag is set whenever one is
  taken. The lemmas about queues (`AppendPrompt`, `TailPrompts`, ...) say how the set of
  queued prompts changes when a message is appended, removed or put back at the end.

Building on this it proves
- `AlwaysPromptingExact`, `AlwaysHoldRespected`, `AlwaysPendingDistinct`, and with them
  `AlwaysDeduplicated`: `Spec => []Deduplication`. `HoldRespected` follows from
  `PromptingExact` for the direct path and for the deferred one alike; `PendingDistinct`
  needs that filtering keeps the order of what is left (`WithoutOverlapEntries`,
  `AppendEntries`, `TailEntries`).
- `FlagAlwaysMeansPrompt`, under `~StoreMayRaise` and `~DialogMayRaise`.
- `FlowImplementsSlot`: `Spec => ImplementsSlot`, the refinement, by `InitImplements` and
  `StepImplements`.

The steps are sorted by what they do to the outstanding prompt: `Moves` take it from one
place to another, `Loses` are the exceptions, the others start, defer or release one.
`Genuine` says that what is shown or decided is a prompt and that deferred prompts are
started by the innermost frame only; with `TypeOK` and `SinglePrompt` it is the invariant
(`Basic`) that makes the slot hold at most one prompt.

`AuthState_proofs` proves, for every set of passwords, every number of attempts and keys
and every duration, with any write failing and a crash at any point,
- `AuthTypeCorrect`: `Spec => []TypeOK`.
- `AlwaysLoadable`, `ReaderNeverRefused`: `Spec => []Loadable`, `Spec => []ReaderAccepted`.
- `NoGuessForgotten`: `Spec => []AttemptsCounted`.
- `PasswordForever`: `Spec => PasswordKept`, an action property.

None of these is inductive. `IInv` adds what they rest on: `AnchorsBehind` (guard and
registry say nothing the state file does not say, which is why the state must be written
first), `ReaderBehind` (the same of what the reader has read of them so far), `Frame`
(which parts of the UI thread's frame go together), `Copy` (what is being saved never
lacks a password that is to be kept, and is on the disk once its first write is done),
`Ready` (a prepared program has a state, with the password if there was one) and
`Counted` (no answered guess is missing from the count on the disk, or from the copy that
is about to replace it). `Inductive` shows that each step preserves them, by action.
`PasswordForever` is the action property that follows from `IInv` before the step.

`PolicyStore_proofs` proves, for every set of executables, names and digests and every old
database, `StoreTypeCorrect`, `AlwaysCovered` (`HmacCovers`), `AlwaysOneRuleEach`
(`OneRuleEach`), `StaleOnlyAfterFailure` (`DashboardCurrent`) and `NeverHalfABatch`
(`WholeBatch`, an action property). Its `IInv` adds `CoveredIsSingle` (rules that an HMAC
covers have no duplicates, which carries over a restart) and `Fresh` (the refresh worker
runs only while the UI thread is idle, so what it has read is what there is, if it could be
read: this is why the buttons are disabled during a refresh). `LockSingle` and
`NewRowsSingle` say what the transactions do to the rules.

`Lifecycle_proofs` proves, for any number of starts, hand-overs and faults,
- `LifecycleTypeCorrect`: `Spec => []TypeOK`, `AlwaysOwnersExclude`: `Spec => []OwnersExclude`
  and `RelaunchOnlyAfterKill`: `Spec => RelaunchOnlyKilled`.

Its `IInv` says whose the handles are (`HandlesHeld`), that the owner has a handle or is about
to end or to try again (`OwnerKnown`), that whoever created the mutex owns it as long as it is
in charge (`CreatorsOwn`, from which `OwnersExclude` follows) and where a parent can be while
its watchdog polls (`Watched`, which gives the third theorem). `LeavingStep`, `StayingStep`,
`OpeningStep` and `CalmStep` say how a step may treat the mutex; each action is one of them.

`PromptSessions_proofs` proves of the monitor alone, for any number of apps, pids and
processes, `MonitorTypeCorrect`, `AllowedAlwaysObserved` (`AllowedIsObserved`) and
`AllowedAlwaysCurrent` (`AllowedIsCurrent`), and of monitor and controller together
`SessionsTypeCorrect` (`SessionsTypeOK`), `SessionsAllowedCurrent`, `SurvivorsAlwaysAccounted`
(`SurvivorsAccounted`) and `NeverAskedWhileUnlocked` (`NotAskedWhileUnlocked`, an action
property). The lemmas about the monitor's steps are used for both specifications: a step of
the two together is one of the monitor, of the controller, or both.
- `MInv` adds to the types that no remembered creation time lies in the future (`StampsPast`)
  and what the phases of a scan may have in hand (`Phases`).
- `Forgotten` says what a pid that the scans have seen gone is still remembered with: nothing
  once the snapshot is taken. It needs `Readable`: no process denies its creation time. With
  one that does, a pid stays allowed when its process has gone, and `AllowedIsCurrent` fails.
- `LInv` says of every instance the scans have passed, whether its app has a rule or not
  (`Passed`), that it is `Accounted` for, which implies
  `SurvivorsAccounted`, together with `NotYet` (before monitoring starts nothing is known),
  `CaughtStay` (the pid of a caught instance has that instance, none, or an overlooked one) and
  `SuppressedSpared` (what is suppressed was spared). It needs only `Readable`: pids may be
  reused, rules change, handles lack `info` and callbacks raise.
- `HInv` relates the two clocks: while a scan may still report an app that was unlocked
  meanwhile, the hold on it outlasts what is left of the scan (`HoldOutlasts`), and an app
  that is being asked about is not on hold (`SlotFree`). This is where `ScanTicks <
  StartupGrace` is used. Only `Readable` is needed besides.

`AuthState_proofs` also proves `StoredAlwaysSeen` (`StoredIsSeen`) and `LockoutsAlwaysEscalate`
(`LockoutsEscalate`, an action property), for every base and limit. `Due` says how the state
about to be saved differs from the one on disk, for each operation; `Escalating` that the
latest lockout is the one its counter stands for, so that a lost save cannot make the next one
shorter; `Seen` which of the two, disk or copy, the user knows. That a lockout doubles is
`LockoutDoubles`; it rests on `2^(n + 1) = 2 * 2^n` (`PowerDoubles`), which is proved without
induction, by counting the subsets of `1..n + 1`.

`AuditChain_proofs` proves, for texts of any length, any width and any number of threads,
`TypeCorrect`, `AlwaysAppendOnly` (`AppendOnly`, an action property) and `ChainAlwaysHolds`
(`ChainHolds`), the last under `NeverCutAtBlank`: no text that is logged is cut at a blank.
`SanitizeStable` shows that then sanitizing twice is sanitizing once (`JoinedIsTidy`: the
words of a joined text are separated by one blank each, so that splitting and joining leave
it), and `AuditChainCut` that without it the property fails; so the cut at a blank is the only
thing that breaks the chain. `RefreshedOrder`, `VerifiedOrder` and `AppendedOrder` say what
the operations do to a log; `Carried` and `Prepared` what an open transaction holds: the
committed log, then one row more, in order but for the head.

`FileIdentity_proofs` proves, for any number of paths, contents and versions, `TypeCorrect`,
`IssueAlwaysMeansChanged` (`IssueMeansChanged`: whoever is told of an issue by a call that could
read the file has a file that was written) and, for a `Ttl` that is not zero,
`ErrorsAlwaysWearOff` (`ErrorsWearOff`, an action property, of calls
that can read the file; the code's is 300 s). `PathSound` says
that what rule and cache hold of a version that is still there is true of it, by stamp and, for
the cache, by time; `CallSound` says the same of what a call has found out so far.

`Dialogs_proofs` proves, for every depth of nesting, `DialogsTypeCorrect`, `NeverStuckAlways`
(`NeverStuck`), `StaleMeansRobbed` (`StaleOnlyIfRobbed`) and `AnswersActedUpon`
(`AnswerActedUpon`). The invariant says who waits for what (`FramesOK`), that an open window has
the grab or was robbed of it and that the grab is with an open window (`Held`), that a window
is waited for once and has one box, which came later (`Once`), and what may be above a loop
(`Nested`): only boxes above the box of the window with the grab, and above a wait whose dialog
was not robbed only that dialog's box. An action touches controls, opens a window, destroys
one, closes a box or returns from a wait: `Touches`, `Opens`, `Destroys`, `BoxEnds` and
`WaitEnds` say what each of these does to the invariant, whatever action it is part of.

The assumptions are those of the modules' `ASSUME`s only, and those named above:
`~StoreMayRaise` and `~DialogMayRaise` for `FlagAlwaysMeansPrompt`, `Readable` for
those about `AllowedIsCurrent`, `SurvivorsAccounted` and `NotAskedWhileUnlocked`,
`NeverCutAtBlank` for `ChainAlwaysHolds` and `Ttl # 0` for `ErrorsAlwaysWearOff`.

## 5. Where code and documents disagree

Shown by a run:

- `proc.info` does not exist on the handles the scan makes (`process_monitor.py:367`,
  against `controller.py:112-113`): `ProcessMonitorFollowUp`.
- Details that are cut at a blank make the log look modified
  (`security/audit.py:20`, against `security/audit.py:15`): `AuditChainCut`.

Met while modelling; the models have the code's behaviour and no run repeats them:

- A deferred prompt may never be shown: nothing retries it when the hold that kept it back
  ends (`controller.py:308`, against `tests/test_unlock_sessions.py:413`). `ImplementsSlot`
  says no more than that it is not lost.
- A report of the scan that comes while another prompt is in progress is put off without a
  look at the holds (`controller.py:62-66`), so that an app which has just been unlocked and is
  running may be asked about again once the other prompt is answered.
  `NotAskedWhileUnlocked` leaves deferred prompts out (`tests/test_unlock_sessions.py:379` has
  the direct way).
- `on_prompt_result` may raise at `controller.py:85` before it releases anything, and the
  flag stays set (against `docs/secureapp-locker-dashboard-upgrade.md:264`): this is
  `Lose` of `PromptSlot`.
- Suppression has no end for an instance already met (`process_monitor.py:470`, against
  `process_monitor.py:225`).
- The first lockout lasts 120 s, not 60 s (`auth_manager.py:184`, against
  `tests/test_settings_actions.py:141`).
- A commit between two statements of a reader is reported as a modification from outside
  (`policy_integrity.py:110`, against `policy_integrity.py:15`).
- A row whose rule has no path, whose file is gone, or which is shown under a namesake
  cannot be unlocked (`locked_apps_repository.py:184`, against
  `docs/secureapp-locker-dashboard-upgrade.md:452`); unlocking all still works.
- `init_db` creates the unique indexes before it removes duplicates and wants an HMAC of
  every database with rules, so that an old one with duplicates or without an HMAC stops
  the start (`config_manager.py:301`).
- Two instances run after an abandoned mutex was created again while a third start had
  just created it: the second `CreateMutexW` is not asked whether the mutex existed
  (`main.py:107-111`; `tests/test_main_runtime.py:108` has a second start refused).
  `OwnersExclude` names this case and allows it.
- A file that cannot be read for a moment, because another program has it open for itself,
  counts as a changed one: the launch is refused and an issue is reported
  (`file_identity.py:25`, `47` and `82`, `process_monitor.py:539`). `IssueMeansChanged` and
  `ErrorsWearOff` say nothing of such a call.
- A refresh that fails gives the buttons back over the old rows, although the change was
  committed (`dashboard.py:1402-1407` and `1424-1432`). The user has seen the error;
  `DashboardCurrent` allows for that.
- An exception from the callback (`process_monitor.py:513` and `524`) or from a second wait
  that is too short (`741`) ends the scan. `known_pids` has been replaced by then, so that
  instances which the scan has caught or not yet looked at run on and are not looked at again:
  `overlooked` in `PromptSessions`.
- An exit that cannot end the watchdog in time (`main.py:579`) is broken off with the marker
  written, the lock held and the monitor running, and nothing polls the queue any more; nor
  does anything when `confirm_exit` raises (`main.py:476` and `549`).

## 6. Not modelled, and the plan

Left out for good: layout, logging, inventory ranking, manifest parsing, DPAPI and bcrypt
themselves, signature checks, shortcuts and paths. They are data or one-shot I/O.

Left out of the modules there are: hiding and unhiding of windows; the functions of the
monitor that only tests call (`allow_pid_for_session`, `add_allowed_pid`,
`authorize_all_running_apps`, `is_app_authorized`); grouping of two caught apps with the
same executable name under one callback; changes of the wall clock; the relaunch without a
console window; the dashboard opened by the tray
icon on its own thread; `update()` in the constructor of the prompt; the error boxes of a
failed launch (`PromptFlow` has them, `Dialogs` does not); `invalidate_cache`, which
nothing calls.

Planned, most important first:

1. `PolicyStore` against an abstract store of rules whose operations are atomic.
2. The refinement of that abstract store, proved; `ProcessMonitor` against an abstract
   guard that admits or ends an instance in one step.
