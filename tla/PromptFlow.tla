----------------------------- MODULE PromptFlow -----------------------------
(* How an intercepted application becomes a password prompt and how the       *)
(* prompt is resolved.  Two threads take part.  The monitor thread calls      *)
(* Controller._on_intercept; the UI thread runs the Tk main loop, whose       *)
(* callbacks are the 100 ms queue poll (main.py poll_queue) and the dialogs.  *)
(* They share the controller's state (under Controller.lock) and the FIFO     *)
(* ui_queue.  An action is what a thread does between two points where the    *)
(* other thread, or a nested Tk event loop, can run.                          *)
(*                                                                            *)
(* A modal dialog opened inside a callback runs a nested event loop, so the   *)
(* UI thread is a small call stack: at most one frame of poll_queue (it is    *)
(* rescheduled only when it returns) and at most one of on_prompt_result.     *)
(* "top" names the frame that runs; the other one, if any, waits below it.    *)
EXTENDS Integers, Sequences, FiniteSets

CONSTANTS
  Apps,            \* the locked-app records the monitor can match
  NameOnly,        \* those without a path: resolving one reads the database
  Aliases,         \* the alias strings of _app_aliases
  AliasesOf,       \* app -> its aliases; two apps may share an alias
  NoApp,           \* stands for None
  CancelCooldown,  \* CANCEL_COOLDOWN, in clock ticks
  LaunchGrace,     \* AUTHORIZED_LAUNCH_GRACE, in clock ticks
  MaxExitRequests, \* bound on the EXIT_REQUEST messages queued at a time
  StoreMayRaise,   \* may list_locked_apps raise?
  DialogMayRaise   \* may poll_queue raise where it opens a dialog, or after one?

ASSUME AppsAssumption ==
  /\ NameOnly \subseteq Apps
  /\ NoApp \notin Apps
  /\ AliasesOf \in [Apps -> (SUBSET Aliases) \ {{}}]
ASSUME TimingAssumption == LaunchGrace \in Nat /\ CancelCooldown \in Nat
ASSUME BoundAssumption == MaxExitRequests \in Nat
ASSUME FailureAssumption == StoreMayRaise \in BOOLEAN /\ DialogMayRaise \in BOOLEAN

VARIABLES
  prompt_in_progress, \* the controller's state, guarded by its lock
  prompting_apps,
  prompt_cooldowns,   \* alias -> ticks left of its hold; 0 when it has none
  pending_prompts,
  hand,               \* prompt the monitor has accepted and not yet queued
  ui_queue,
  dialog,             \* app of _active_prompt_dialog; NoPrompt when None
  dialog_exists,      \* its winfo_exists()
  poll,               \* the frame of poll_queue, with the prompt of its error box
  polling,            \* is poll_queue running or scheduled to run again?
  result,             \* the frame of on_prompt_result
  top,                \* who runs on the UI thread
  running             \* FALSE once perform_exit has run

controllerVars == <<prompt_in_progress, prompting_apps, prompt_cooldowns, pending_prompts>>
uiVars == <<dialog, dialog_exists, poll, polling, result, top, running>>
vars == <<controllerVars, hand, ui_queue, uiVars>>

-----------------------------------------------------------------------------
(* Prompts and messages *)

Prompt == [app : Apps, issue : BOOLEAN]     \* issue: integrity_issue is not empty
NoPrompt == [app |-> NoApp, issue |-> FALSE]
PromptMsg(p) == [type |-> "PROMPT", payload |-> p]
ExitMsg == [type |-> "EXIT_REQUEST", payload |-> NoPrompt]
Message == {PromptMsg(p) : p \in Prompt} \union {ExitMsg}

IdlePoll == [pc |-> "idle", prompt |-> NoPrompt]
NoResult == [pc |-> "none", prompt |-> NoPrompt, success |-> FALSE,
             launched |-> FALSE, raised |-> FALSE]

TrackedAliases(p) == AliasesOf[p.app]

\* Does computing the aliases of p raise?  (It may: list_locked_apps is called.)
ResolveMayRaise(p) == StoreMayRaise /\ p.app \in NameOnly

Overlap(p, q) == TrackedAliases(p) \cap TrackedAliases(q) # {}
OnHold(p) == \E a \in TrackedAliases(p) : prompt_cooldowns[a] > 0
AlreadyPrompting(p) == TrackedAliases(p) \cap prompting_apps # {}
\* Mutant: only the very same record counts as already deferred.
HasPendingRecord(p) == \E i \in DOMAIN pending_prompts : pending_prompts[i] = p

HasPendingPrompt(p) ==
  \E i \in DOMAIN pending_prompts : Overlap(pending_prompts[i], p)

-----------------------------------------------------------------------------
Init ==
  /\ prompt_in_progress = FALSE
  /\ prompting_apps = {}
  /\ prompt_cooldowns = [a \in Aliases |-> 0]
  /\ pending_prompts = <<>>
  /\ hand = NoPrompt
  /\ ui_queue = <<>>
  /\ dialog = NoPrompt
  /\ dialog_exists = FALSE
  /\ poll = IdlePoll
  /\ polling = TRUE
  /\ result = NoResult
  /\ top = "mainloop"
  /\ running = TRUE

-----------------------------------------------------------------------------
(* The monitor thread, and the clock *)

\* Mutant: an expired hold goes on counting.
TickUnpruned ==
  /\ running
  /\ \E a \in Aliases : prompt_cooldowns[a] > 0
  /\ prompt_cooldowns' = [a \in Aliases |-> prompt_cooldowns[a] - 1]
  /\ UNCHANGED <<prompt_in_progress, prompting_apps, pending_prompts, hand, ui_queue, uiVars>>

\* One clock tick.  An entry whose time has passed is the same as no entry, so
\* the pruning of expired entries needs no action of its own.
Tick ==
  /\ running
  /\ \E a \in Aliases : prompt_cooldowns[a] > 0
  /\ prompt_cooldowns' =
       [a \in Aliases |-> IF prompt_cooldowns[a] > 0 THEN prompt_cooldowns[a] - 1 ELSE 0]
  /\ UNCHANGED <<prompt_in_progress, prompting_apps, pending_prompts, hand, ui_queue, uiVars>>

\* Mutant: the aliases are not recorded.
StartPromptUntracked(p) == prompt_in_progress' = TRUE /\ UNCHANGED prompting_apps

StartPrompt(p) ==
  /\ prompt_in_progress' = TRUE
  /\ prompting_apps' = prompting_apps \union TrackedAliases(p)

\* Mutant: one slot for the deferred prompt in place of a list.
InterceptDeferSlot(p) ==
  /\ running
  /\ hand = NoPrompt
  /\ prompt_in_progress
  /\ ~AlreadyPrompting(p)
  /\ pending_prompts' = <<p>>
  /\ UNCHANGED <<prompt_in_progress, prompting_apps, prompt_cooldowns, hand, ui_queue, uiVars>>

\* The locked part of _on_intercept while another prompt is in progress.  An
\* intercept that returns early, or whose alias lookup raises, changes nothing.
InterceptDefer(p) ==
  /\ running
  /\ hand = NoPrompt
  /\ prompt_in_progress
  /\ ~AlreadyPrompting(p)
  /\ ~HasPendingPrompt(p)
  /\ pending_prompts' = Append(pending_prompts, p)
  /\ UNCHANGED <<prompt_in_progress, prompting_apps, prompt_cooldowns, hand, ui_queue, uiVars>>

\* Mutant: de-duplication by alias only, the flag is not tested.
InterceptStartUnguarded(p) ==
  /\ running
  /\ hand = NoPrompt
  /\ ~AlreadyPrompting(p)
  /\ ~OnHold(p)
  /\ StartPrompt(p)
  /\ hand' = p
  /\ UNCHANGED <<prompt_cooldowns, pending_prompts, ui_queue, uiVars>>

\* The locked part of _on_intercept when no prompt is in progress.  The message
\* is put only after the lock is released.
InterceptStart(p) ==
  /\ running
  /\ hand = NoPrompt
  /\ ~prompt_in_progress
  /\ ~AlreadyPrompting(p)
  /\ ~OnHold(p)
  /\ StartPrompt(p)
  /\ hand' = p
  /\ UNCHANGED <<prompt_cooldowns, pending_prompts, ui_queue, uiVars>>

MonitorPut ==
  /\ running
  /\ hand # NoPrompt
  /\ ui_queue' = Append(ui_queue, PromptMsg(hand))
  /\ hand' = NoPrompt
  /\ UNCHANGED <<controllerVars, uiVars>>

\* The tray icon's thread asks to exit.
RequestExit ==
  /\ running
  /\ Cardinality({i \in DOMAIN ui_queue : ui_queue[i] = ExitMsg}) < MaxExitRequests
  /\ ui_queue' = Append(ui_queue, ExitMsg)
  /\ UNCHANGED <<controllerVars, hand, uiVars>>

-----------------------------------------------------------------------------
(* _process_pending_prompts: only the head can start, for once it stays or    *)
(* starts every later entry stays.  q is the queue its message is put on.     *)

ProcessPending(q) ==
  IF pending_prompts = <<>> \/ prompt_in_progress
       \/ OnHold(Head(pending_prompts)) \/ AlreadyPrompting(Head(pending_prompts))
  THEN ui_queue' = q /\ UNCHANGED controllerVars
  ELSE /\ StartPrompt(Head(pending_prompts))
       /\ pending_prompts' = Tail(pending_prompts)
       /\ ui_queue' = Append(q, PromptMsg(Head(pending_prompts)))
       /\ UNCHANGED prompt_cooldowns

-----------------------------------------------------------------------------
(* The UI thread: poll_queue *)

\* Returning from a frame resumes the one below it, or the main loop.
BelowPoll == IF result.pc = "none" THEN "mainloop" ELSE "result"
BelowResult == IF poll.pc = "idle" THEN "mainloop" ELSE "poll"

ReturnFromPoll ==
  /\ poll' = IdlePoll
  /\ top' = BelowPoll

InPollLoop == running /\ top = "poll" /\ poll.pc = "loop"
NextIs(type) == ui_queue # <<>> /\ Head(ui_queue).type = type

\* The timer fires, in the main loop or in the loop nested under the error box of
\* a launch.  If another process has asked for the dashboard, the master-password
\* dialog of require_startup_access comes first and poll_queue waits for it.
PollStart ==
  /\ running
  /\ polling
  /\ poll.pc = "idle"
  /\ top = "mainloop" \/ (top = "result" /\ result.pc = "launchBox")
  /\ \E pc \in {"loop", "dashboardAuth"} : poll' = [IdlePoll EXCEPT !.pc = pc]
  /\ top' = "poll"
  /\ UNCHANGED <<controllerVars, hand, ui_queue, dialog, dialog_exists, polling, result, running>>

\* Mutant: an empty queue ends the poll without rescheduling it.
PollEmptyUnscheduled ==
  /\ InPollLoop
  /\ ui_queue = <<>>
  /\ ReturnFromPoll
  /\ polling' = FALSE
  /\ UNCHANGED <<controllerVars, hand, ui_queue, dialog, dialog_exists, result, running>>

PollEmpty ==
  /\ InPollLoop
  /\ ui_queue = <<>>
  /\ ReturnFromPoll
  /\ UNCHANGED <<controllerVars, hand, ui_queue, dialog, dialog_exists, polling, result, running>>

ShowIssue(p) ==
  /\ poll' = [pc |-> "issueBox", prompt |-> p]
  /\ UNCHANGED <<dialog, dialog_exists, top>>

OpenDialog(p) ==
  /\ dialog' = p
  /\ dialog_exists' = TRUE
  /\ ReturnFromPoll

\* A PROMPT message: put back while a dialog exists, dropped if the controller has
\* no prompt in progress, shown otherwise.
PollPrompt ==
  /\ InPollLoop
  /\ NextIs("PROMPT")
  /\ LET p == Head(ui_queue).payload IN
     IF dialog # NoPrompt /\ dialog_exists
     THEN /\ ui_queue' = Append(Tail(ui_queue), Head(ui_queue))
          /\ ReturnFromPoll
          /\ UNCHANGED <<controllerVars, dialog, dialog_exists>>
     ELSE IF ~prompt_in_progress
     THEN /\ IF dialog = NoPrompt
             THEN ProcessPending(Tail(ui_queue))
             ELSE ui_queue' = Tail(ui_queue) /\ UNCHANGED controllerVars
          /\ UNCHANGED <<poll, dialog, dialog_exists, top>>
     ELSE /\ ui_queue' = Tail(ui_queue)
          /\ IF p.issue THEN ShowIssue(p) ELSE OpenDialog(p)
          /\ UNCHANGED controllerVars
  /\ UNCHANGED <<hand, polling, result, running>>

\* Building the dialog raises: the exception leaves poll_queue before it
\* reschedules itself, and nobody will report a result for the prompt.
PollPromptRaises ==
  /\ DialogMayRaise
  /\ InPollLoop
  /\ NextIs("PROMPT")
  /\ prompt_in_progress
  /\ ~(dialog # NoPrompt /\ dialog_exists)
  /\ ~Head(ui_queue).payload.issue
  /\ ui_queue' = Tail(ui_queue)
  /\ polling' = FALSE
  /\ ReturnFromPoll
  /\ UNCHANGED <<controllerVars, hand, dialog, dialog_exists, result, running>>

\* An EXIT_REQUEST message: confirm_exit waits for the master password.
PollExit ==
  /\ InPollLoop
  /\ NextIs("EXIT_REQUEST")
  /\ ui_queue' = Tail(ui_queue)
  /\ poll' = [IdlePoll EXCEPT !.pc = "exitAuth"]
  /\ UNCHANGED <<controllerVars, hand, dialog, dialog_exists, polling, result, top, running>>

\* confirm_exit raises before there is a dialog, for it asks the protected state and the
\* database whether one is needed: poll_queue is not rescheduled.
PollExitRaises ==
  /\ StoreMayRaise \/ DialogMayRaise
  /\ InPollLoop
  /\ NextIs("EXIT_REQUEST")
  /\ ui_queue' = Tail(ui_queue)
  /\ polling' = FALSE
  /\ ReturnFromPoll
  /\ UNCHANGED <<controllerVars, hand, dialog, dialog_exists, result, running>>

AuthDialogOpen == top = "poll" /\ poll.pc \in {"dashboardAuth", "exitAuth"}

\* The nested master-password dialog closes without an exit: the dashboard is shown
\* or was refused, or the exit was refused.  poll_queue goes on with its loop.
AuthDialogCloses ==
  /\ running
  /\ AuthDialogOpen
  /\ poll' = [IdlePoll EXCEPT !.pc = "loop"]
  /\ UNCHANGED <<controllerVars, hand, ui_queue, dialog, dialog_exists, polling, result, top, running>>

ExitConfirmed ==
  /\ running
  /\ AuthDialogOpen
  /\ poll.pc = "exitAuth"
  /\ running' = FALSE
  /\ UNCHANGED <<controllerVars, hand, ui_queue, dialog, dialog_exists, poll, polling, result, top>>

\* The dialog cannot be shown, or the exit it was for raises (perform_exit waits for the
\* watchdog to end): again poll_queue is not rescheduled.  What show_dashboard raises is
\* caught, and no different from a dialog that closes.
ExitRaises ==
  /\ DialogMayRaise
  /\ running
  /\ AuthDialogOpen
  /\ poll.pc = "exitAuth"
  /\ polling' = FALSE
  /\ ReturnFromPoll
  /\ UNCHANGED <<controllerVars, hand, ui_queue, dialog, dialog_exists, result, running>>

-----------------------------------------------------------------------------
(* The UI thread: the user's answers *)

CallResult(p, success) ==
  /\ result' = [pc |-> "begin", prompt |-> p, success |-> success,
                launched |-> FALSE, raised |-> FALSE]
  /\ top' = "result"

\* The integrity error box is closed: show_prompt reports a failure.
DismissIssue ==
  /\ running
  /\ top = "poll"
  /\ poll.pc = "issueBox"
  /\ CallResult(poll.prompt, FALSE)
  /\ poll' = [poll EXCEPT !.pc = "issueResult"]
  /\ UNCHANGED <<controllerVars, hand, ui_queue, dialog, dialog_exists, polling, running>>

\* The password prompt is answered, by the right password or by cancelling.  Both
\* handlers destroy the window before they call back.
AnswerDialog ==
  /\ running
  /\ dialog_exists
  /\ top = "mainloop" \/ AuthDialogOpen
  /\ result.pc = "none"
  /\ \E success \in BOOLEAN : CallResult(dialog, success)
  /\ dialog_exists' = FALSE
  /\ UNCHANGED <<controllerVars, hand, ui_queue, dialog, poll, polling, running>>

-----------------------------------------------------------------------------
(* The UI thread: on_prompt_result *)

InResult(pc) == running /\ top = "result" /\ result.pc = pc
AtResult(pc) == result' = [result EXCEPT !.pc = pc]

\* Normal return: show_prompt's callback forgets the dialog, or poll_queue returns.
ReturnFromResult ==
  /\ result' = NoResult
  /\ IF poll.pc = "issueResult"
     THEN /\ poll' = IdlePoll
          /\ top' = "mainloop"
          /\ UNCHANGED <<dialog, dialog_exists>>
     ELSE /\ dialog' = NoPrompt
          /\ dialog_exists' = FALSE
          /\ top' = BelowResult
          /\ UNCHANGED poll
  /\ UNCHANGED polling

\* An exception leaves on_prompt_result: Tk reports it and goes on, but if the frame
\* below is poll_queue in show_prompt, that one ends too and is not rescheduled.
RaiseFromResult ==
  /\ result' = NoResult
  /\ IF poll.pc = "issueResult"
     THEN poll' = IdlePoll /\ polling' = FALSE /\ top' = "mainloop"
     ELSE top' = BelowResult /\ UNCHANGED <<poll, polling>>
  /\ UNCHANGED <<dialog, dialog_exists>>

ResultBegin ==
  /\ InResult("begin")
  /\ AtResult(IF result.success THEN "launch" ELSE "release")
  /\ UNCHANGED <<controllerVars, hand, ui_queue, dialog, dialog_exists, poll, polling, top, running>>

\* _tracked_aliases raises before anything is released.
ResultBeginRaises ==
  /\ InResult("begin")
  /\ ResolveMayRaise(result.prompt)
  /\ RaiseFromResult
  /\ UNCHANGED <<controllerVars, hand, ui_queue, running>>

\* _launch_allowed_app: it starts the app, or explains in a box why not, or
\* _resolve_launch_target raises (the finally block still releases).
Launch ==
  /\ InResult("launch")
  /\ \/ result' = [result EXCEPT !.pc = "release", !.launched = TRUE]
     \/ AtResult("launchBox")
     \/ /\ ResolveMayRaise(result.prompt)
        /\ result' = [result EXCEPT !.pc = "release", !.raised = TRUE]
  /\ UNCHANGED <<controllerVars, hand, ui_queue, dialog, dialog_exists, poll, polling, top, running>>

DismissLaunchBox ==
  /\ InResult("launchBox")
  /\ AtResult("release")
  /\ UNCHANGED <<controllerVars, hand, ui_queue, dialog, dialog_exists, poll, polling, top, running>>

\* How long the aliases are held after this result; 0 leaves the holds alone.
HoldTime ==
  IF ~result.success THEN CancelCooldown
  ELSE IF result.launched THEN LaunchGrace ELSE 0

\* What _remove_pending_prompts_for_aliases leaves of s: the entries sharing no alias
\* with p, in their order (a recursive function, so that proofs can unfold it).
WithoutOverlap(s, p) ==
  LET kept[n \in 0..Len(s)] ==
        IF n = 0 THEN <<>>
        ELSE IF Overlap(s[n], p) THEN kept[n-1] ELSE Append(kept[n-1], s[n])
  IN  kept[Len(s)]

\* The locked part of on_prompt_result.
ResultRelease ==
  /\ InResult("release")
  /\ pending_prompts' = WithoutOverlap(pending_prompts, result.prompt)
  /\ prompting_apps' = prompting_apps \ TrackedAliases(result.prompt)
  /\ prompt_in_progress' = FALSE
  /\ prompt_cooldowns' = [a \in Aliases |->
        IF HoldTime > 0 /\ a \in TrackedAliases(result.prompt)
        THEN HoldTime ELSE prompt_cooldowns[a]]
  /\ IF result.raised
     THEN RaiseFromResult
     ELSE /\ AtResult("pending")
          /\ UNCHANGED <<dialog, dialog_exists, poll, polling, top>>
  /\ UNCHANGED <<hand, ui_queue, running>>

\* Computing the aliases of a deferred prompt raises before anything is released.
ResultReleaseRaises ==
  /\ InResult("release")
  /\ \E i \in DOMAIN pending_prompts : ResolveMayRaise(pending_prompts[i])
  /\ RaiseFromResult
  /\ UNCHANGED <<controllerVars, hand, ui_queue, running>>

ResultPending ==
  /\ InResult("pending")
  /\ ProcessPending(ui_queue)
  /\ ReturnFromResult
  /\ UNCHANGED <<hand, running>>

ResultPendingRaises ==
  /\ InResult("pending")
  /\ pending_prompts # <<>>
  /\ ~prompt_in_progress
  /\ ResolveMayRaise(Head(pending_prompts))
  /\ RaiseFromResult
  /\ UNCHANGED <<controllerVars, hand, ui_queue, running>>

-----------------------------------------------------------------------------
Monitor == (\E p \in Prompt : InterceptDefer(p) \/ InterceptStart(p)) \/ MonitorPut

\* Steps of poll_queue that wait for nobody.
PollStep ==
  PollStart \/ PollEmpty \/ PollPrompt \/ PollPromptRaises \/ PollExit \/ PollExitRaises

ResultStep ==
  \/ ResultBegin \/ ResultBeginRaises \/ Launch \/ ResultRelease
  \/ ResultReleaseRaises \/ ResultPending \/ ResultPendingRaises

User ==
  \/ RequestExit \/ AuthDialogCloses \/ ExitConfirmed \/ ExitRaises
  \/ DismissIssue \/ AnswerDialog \/ DismissLaunchBox

Exited == ~running /\ UNCHANGED vars

Next == Tick \/ Monitor \/ PollStep \/ ResultStep \/ User \/ Exited

Spec == Init /\ [][Next]_vars

\* The program's own steps are scheduled; the user need never answer anything and
\* no application need ever be started.
Fairness ==
  /\ WF_vars(Tick)
  /\ WF_vars(MonitorPut)
  /\ WF_vars(PollStep)
  /\ WF_vars(ResultStep)

FairSpec == Spec /\ Fairness
-----------------------------------------------------------------------------
(* Properties *)

PollFrame ==
  [pc : {"idle", "loop", "dashboardAuth", "exitAuth", "issueBox", "issueResult"},
   prompt : Prompt \union {NoPrompt}]
ResultFrame ==
  [pc : {"none", "begin", "launch", "launchBox", "release", "pending"},
   prompt : Prompt \union {NoPrompt},
   success : BOOLEAN, launched : BOOLEAN, raised : BOOLEAN]

TypeOK ==
  /\ prompt_in_progress \in BOOLEAN
  /\ prompting_apps \in SUBSET Aliases
  /\ prompt_cooldowns \in [Aliases -> Nat]
  /\ pending_prompts \in Seq(Prompt)
  /\ hand \in Prompt \union {NoPrompt}
  /\ ui_queue \in Seq(Message)
  /\ dialog \in Prompt \union {NoPrompt}
  /\ dialog_exists \in BOOLEAN
  /\ poll \in PollFrame
  /\ polling \in BOOLEAN
  /\ result \in ResultFrame
  /\ top \in {"mainloop", "poll", "result"}
  /\ running \in BOOLEAN

\* Where a prompt that has been started and not yet released can be.
InHand == hand # NoPrompt
QueuedPrompts == {i \in DOMAIN ui_queue : ui_queue[i].type = "PROMPT"}
IssueOnScreen == poll.pc = "issueBox"
Deciding == result.pc \in {"begin", "launch", "launchBox", "release"}

Outstanding ==
  {p \in Prompt : \/ hand = p
                  \/ \E i \in QueuedPrompts : ui_queue[i].payload = p
                  \/ dialog_exists /\ dialog = p
                  \/ IssueOnScreen /\ poll.prompt = p
                  \/ Deciding /\ result.prompt = p}

\* At most one prompt is outstanding, wherever it is between the monitor's hand and
\* the release in on_prompt_result, and prompt_in_progress is set as long as it is.
\* (controller.py sets and clears the flag under the lock but puts, shows and decides
\* outside it; main.py relies on this when it reads the flag without the lock.)
SinglePrompt ==
  /\ \A i, j \in QueuedPrompts : i = j
  /\ InHand => QueuedPrompts = {} /\ ~dialog_exists /\ ~IssueOnScreen /\ ~Deciding
  /\ QueuedPrompts # {} => ~dialog_exists /\ ~IssueOnScreen /\ ~Deciding
  /\ dialog_exists => ~IssueOnScreen /\ ~Deciding
  /\ IssueOnScreen => ~Deciding
  /\ (InHand \/ QueuedPrompts # {} \/ dialog_exists \/ IssueOnScreen \/ Deciding)
       => prompt_in_progress

\* prompting_apps holds the aliases of the outstanding prompt, no more and no less, so
\* de-duplication never drops an intercept of an app nobody is being asked about.
PromptingExact ==
  /\ ~prompt_in_progress => prompting_apps = {}
  /\ \A p \in Outstanding : prompting_apps = TrackedAliases(p)

\* A prompt is never outstanding for an app that is on hold: neither the direct path of
\* _on_intercept nor the deferred one of _process_pending_prompts asks again within the
\* hold that a cancelled prompt or a launch has set, aliases shared with other apps included.
HoldRespected == \A a \in prompting_apps : prompt_cooldowns[a] = 0

\* Two deferred prompts never share an alias, so the deferred list cannot grow past
\* the number of aliases and nobody is asked twice about one app.
PendingDistinct ==
  \A i, j \in DOMAIN pending_prompts :
    i # j => ~Overlap(pending_prompts[i], pending_prompts[j])

\* What de-duplication rests on, whatever raises.
Deduplication == PromptingExact /\ HoldRespected /\ PendingDistinct

\* When nothing raises, the flag is set only while there is a prompt to answer: the
\* de-duplication state is always released.
FlagMeansPrompt == prompt_in_progress => Outstanding # {}

\* A prompt the monitor has accepted reaches the screen, unless poll_queue is held up by
\* a master-password dialog that it opened itself and that nobody answers.
PromptReachesUser ==
  (InHand \/ QueuedPrompts # {})
    ~> (dialog_exists \/ IssueOnScreen \/ AuthDialogOpen \/ ~running)

-----------------------------------------------------------------------------
(* The refinement.  Wherever the outstanding prompt is between the two threads, *)
(* it is the one in the slot.                                                  *)

Deferred == {pending_prompts[i] : i \in DOMAIN pending_prompts}
Held == {a \in Aliases : prompt_cooldowns[a] > 0}

Slot == INSTANCE PromptSlot WITH
  CanLose <- StoreMayRaise \/ DialogMayRaise,
  slot <- Outstanding, busy <- prompt_in_progress, waiting <- Deferred, held <- Held

\* The threads, the queue and the dialogs implement the slot: no message is lost,
\* doubled or overtaken into a second prompt, and no deferred prompt disappears unless
\* a result for one of its aliases has come; when something raises, the prompt being
\* asked can be lost and nothing else.
ImplementsSlot == Slot!Spec

=============================================================================
