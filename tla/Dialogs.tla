------------------------------ MODULE Dialogs ------------------------------
(* The windows of the user interface: the prompt of an intercepted app and    *)
(* the master-password dialogs (ui/password_prompt.py), and the dialogs of     *)
(* the dashboard that set, change and recover the password (ui/dashboard.py). *)
(* All of it runs on one thread.  wait_window and messagebox run the event     *)
(* loop inside the callback that calls them, so callbacks nest and return in   *)
(* the reverse order; grab_set takes the input away from every other window    *)
(* and nobody gives it back to the window that had it.                         *)
EXTENDS Naturals, Sequences, FiniteSets, SequencesExt

CONSTANTS
  Ops,           \* slots for the dialogs of the dashboard's operations
  Keys,          \* slots for the dialogs that show a recovery key
  MaxDepth,      \* bound: nested event loops
  MaxAttempts,   \* MAX_FAILED_ATTEMPTS
  LockTicks      \* the length of a lockout, in timer periods

ASSUME SlotsAssumption ==
  /\ IsFiniteSet(Ops) /\ Ops # {} /\ IsFiniteSet(Keys) /\ Keys # {}
  /\ Ops \cap Keys = {}
  /\ (Ops \union Keys) \cap {"prompt", "exit", "setup", "recovery", "reset",
                             "dashboard", "none"} = {}
ASSUME NumbersAssumption ==
  /\ MaxDepth \in Nat /\ MaxAttempts \in Nat \ {0} /\ LockTicks \in Nat \ {0}

Masters == Ops \union {"exit"}               \* MasterPasswordDialog
Asking == Masters \union {"prompt"}          \* the dialogs with a lockout timer
Windows == Asking \union Keys \union {"setup", "recovery", "reset"}

VARIABLES
  win,        \* the windows
  grab,       \* the window that has the input to itself
  stack,      \* the nested event loops, the innermost one last
  booted,     \* has bootstrap_dashboard run?
  passwordSet,
  attempts,   \* failed attempts
  lockout,    \* ticks until the lockout ends
  running

authVars == <<passwordSet, attempts, lockout>>
vars == <<win, grab, stack, booted, authVars, running>>

-----------------------------------------------------------------------------
(* A window.  timer: will the timer of _lockout_job fire?  result: the answer   *)
(* it was closed with.  stale: what it was opened on (the rows chosen, the key *)
(* shown) has changed.  robbed: another window has taken the grab from it.     *)

Closed == [open |-> FALSE, enabled |-> FALSE, timer |-> FALSE,
           result |-> FALSE, stale |-> FALSE, robbed |-> FALSE]

Cancelled(r) == [r EXCEPT !.timer = FALSE]
Scheduled(r) == [r EXCEPT !.timer = TRUE]

Disabled(r) == [r EXCEPT !.enabled = FALSE]
Enabled(r) == [r EXCEPT !.enabled = TRUE]

\* Mutant: a dialog whose lockout goes on is not looked at again.
RefreshedOnce(r, locked) == IF locked THEN Disabled(r) ELSE Enabled(Cancelled(r))

\* _refresh_lockout_state without a notice.
Refreshed(r, locked) ==
  IF locked THEN Scheduled(Disabled(r)) ELSE Enabled(Cancelled(r))

\* Mutant: the timer is left to fire.
DestroyedKeepsTimer(r, answer) ==
  [Closed EXCEPT !.result = answer, !.stale = r.stale, !.robbed = r.robbed,
                 !.timer = r.timer]

\* A window that is destroyed keeps the answer for the one who waits for it.
Destroyed(r, answer) ==
  [Closed EXCEPT !.result = answer, !.stale = r.stale, !.robbed = r.robbed]

Locked == lockout > 0

-----------------------------------------------------------------------------
(* Event loops and the grab                                                    *)

Wait(w, then) == [kind |-> "wait", win |-> w, then |-> then]
Box(w, then) == [kind |-> "box", win |-> w, then |-> then]
Thens == {"operation", "exit", "recovered", "setUp", "schedule", "destroy", "nothing"}
Frame == [kind : {"wait", "box"}, win : Windows \union {"dashboard"}, then : Thens]

Top == Last(stack)
HasBox(w) == \E i \in DOMAIN stack : stack[i].kind = "box" /\ stack[i].win = w
Awaited(w) == \E i \in DOMAIN stack : stack[i].kind = "wait" /\ stack[i].win = w

Push(f) == Len(stack) < MaxDepth /\ stack' = Append(stack, f)

\* wait_window returns as soon as the callback that destroys its window ends, if no
\* other loop runs inside it: nothing is served in between.
Returning == running /\ stack # <<>> /\ Top.kind = "wait" /\ ~win[Top.win].open
Serving == running /\ ~Returning

\* A message box disables its owner, a grab everything but its window.
Clickable(w) == Serving /\ win[w].open /\ grab \in {w, "none"} /\ ~HasBox(w)
DashClickable == Serving /\ grab = "none" /\ ~HasBox("dashboard")

\* A window opens and grabs; the one it takes the grab from is robbed of it.
Robbing(ws) == [w \in Windows |-> IF w = grab THEN [ws[w] EXCEPT !.robbed = TRUE] ELSE ws[w]]

Opening(w, r) ==
  /\ win' = Robbing([win EXCEPT ![w] = [r EXCEPT !.open = TRUE]])
  /\ grab' = w

\* Mutant: the dialog does not grab.
OpeningMasterNoGrab(w) ==
  /\ win' = [win EXCEPT ![w] = [Refreshed(Closed, Locked) EXCEPT !.open = TRUE]]
  /\ UNCHANGED grab

\* The constructor of MasterPasswordDialog.
OpeningMaster(w) == Opening(w, Refreshed(Closed, Locked))

\* Mutant: the window is hidden and keeps the grab.
FreedHidden(w) == grab

\* Tk ends the grab of a window that is destroyed.
Freed(w) == IF grab = w THEN "none" ELSE grab

Destroying(w, answer) ==
  /\ win' = [win EXCEPT ![w] = Destroyed(@, answer /\ Awaited(w))]
  /\ grab' = Freed(w)

-----------------------------------------------------------------------------
Init ==
  /\ win = [w \in Windows |-> Closed]
  /\ grab = "none"
  /\ stack = <<>>
  /\ booted = FALSE
  /\ passwordSet \in BOOLEAN
  /\ attempts = 0
  /\ lockout = 0
  /\ running = TRUE

\* The lockout is a time on the clock.
Tick ==
  /\ running
  /\ Locked
  /\ lockout' = lockout - 1
  /\ UNCHANGED <<win, grab, stack, booted, passwordSet, attempts, running>>

\* _refresh_lockout_state, called by the timer.
TimerFires(w) ==
  /\ Serving
  /\ win[w].timer
  /\ win' = [win EXCEPT ![w] =
               IF @.open THEN Refreshed(Cancelled(@), Locked) ELSE Cancelled(@)]
  /\ UNCHANGED <<grab, stack, booted, authVars, running>>

-----------------------------------------------------------------------------
(* The main loop opens windows                                                 *)

\* poll_queue is on the stack, under confirm_exit, and not scheduled.
PollWaits == Awaited("exit")

\* show_prompt; apps can only have been locked with a password.
ShowPrompt ==
  /\ Serving
  /\ passwordSet
  /\ ~PollWaits
  /\ ~win["prompt"].open
  /\ Opening("prompt", Refreshed(Closed, Locked))
  /\ UNCHANGED <<stack, booted, authVars, running>>

ConfirmExit ==
  /\ Serving
  /\ passwordSet
  /\ ~PollWaits
  /\ Push(Wait("exit", "exit"))
  /\ OpeningMaster("exit")
  /\ UNCHANGED <<booted, authVars, running>>

\* Without a password, and so without locked apps, exit asks nobody.
ExitUnasked ==
  /\ Serving
  /\ ~passwordSet
  /\ running' = FALSE
  /\ UNCHANGED <<win, grab, stack, booted, authVars>>

\* bootstrap_dashboard, 100 ms after the dashboard has been built.
Bootstrap ==
  /\ Serving
  /\ ~booted
  /\ booted' = TRUE
  /\ IF passwordSet THEN UNCHANGED <<win, grab>> ELSE Opening("setup", Closed)
  /\ UNCHANGED <<stack, authVars, running>>

\* lock, unlock, unlock all, custom path: the rows are chosen, then a dialog asks.
FreeOp(w) == ~win[w].open /\ ~Awaited(w)
StartOp ==
  /\ DashClickable
  /\ \E w \in Ops : FreeOp(w)
  /\ LET w == CHOOSE v \in Ops : FreeOp(v) IN
     /\ Push(Wait(w, "operation"))
     /\ OpeningMaster(w)
  /\ UNCHANGED <<booted, authVars, running>>

OpenRecovery ==
  /\ DashClickable
  /\ ~win["recovery"].open
  /\ Opening("recovery", Closed)
  /\ UNCHANGED <<stack, booted, authVars, running>>

OpenReset ==
  /\ DashClickable
  /\ ~win["reset"].open
  /\ Opening("reset", Closed)
  /\ UNCHANGED <<stack, booted, authVars, running>>

-----------------------------------------------------------------------------
(* Guesses                                                                     *)

GuessedRight == passwordSet /\ attempts' = 0 /\ lockout' = 0 /\ UNCHANGED passwordSet

\* record_failed_attempt: at the limit it locks out and counts from zero again.  How the
\* lockouts grow is in AuthState.
LocksOut == attempts + 1 >= MaxAttempts
GuessedWrong ==
  /\ attempts' = IF LocksOut THEN 0 ELSE attempts + 1
  /\ lockout' = IF LocksOut THEN LockTicks ELSE 0
  /\ UNCHANGED passwordSet

\* A notice that the dialog is locked: the next look is scheduled when it is closed.
NoticeLocked(w, r) ==
  /\ Push(Box(w, "schedule"))
  /\ win' = [win EXCEPT ![w] = Disabled(r)]
  /\ UNCHANGED grab

CanSubmit(w) == Clickable(w) /\ win[w].enabled

\* on_submit and submit, while locked out.
SubmitLocked(w) ==
  /\ CanSubmit(w)
  /\ Locked
  /\ NoticeLocked(w, win[w])
  /\ UNCHANGED <<booted, authVars, running>>

SubmitRight(w) ==
  /\ CanSubmit(w)
  /\ ~Locked
  /\ GuessedRight
  /\ Destroying(w, TRUE)
  /\ UNCHANGED <<stack, booted, running>>

SubmitWrong(w) ==
  /\ CanSubmit(w)
  /\ ~Locked
  /\ GuessedWrong
  /\ IF LocksOut
     THEN NoticeLocked(w, Cancelled(win[w]))
     ELSE /\ Push(Box(w, "nothing"))
          /\ win' = [win EXCEPT ![w] = Enabled(Cancelled(@))]
          /\ UNCHANGED grab
  /\ UNCHANGED <<booted, running>>

\* on_cancel and close.
Cancel(w) ==
  /\ Clickable(w)
  /\ Destroying(w, FALSE)
  /\ UNCHANGED <<stack, booted, authVars, running>>

-----------------------------------------------------------------------------
(* The dialogs of the dashboard                                                *)

CancelForm(w) ==
  /\ Clickable(w)
  /\ Destroying(w, FALSE)
  /\ UNCHANGED <<stack, booted, authVars, running>>

\* A weak password, two that differ, a wrong recovery key, a failing save.
RefuseForm(w) ==
  /\ Clickable(w)
  /\ Push(Box(w, "nothing"))
  /\ UNCHANGED <<win, grab, booted, authVars, running>>

\* The form is destroyed, and with it its grab; the new recovery key is shown and
\* waited for.  A key that is still shown is none any more.
FreeKey(k) == ~win[k].open /\ ~Awaited(k)
ShowKey(form, then) ==
  /\ \E k \in Keys : FreeKey(k)
  /\ LET k == CHOOSE v \in Keys : FreeKey(v)
         aged == [w \in Windows |->
                    IF w = form THEN Destroyed(win[w], TRUE)
                    ELSE [win[w] EXCEPT !.stale = @ \/ (w \in Keys /\ win[w].open),
                                        !.robbed = @ \/ (w = grab)]]
     IN /\ Push(Wait(k, then))
        /\ win' = [aged EXCEPT ![k] = [Closed EXCEPT !.open = TRUE]]
        /\ grab' = k

\* save_password, accepted.
SetUp ==
  /\ Clickable("setup")
  /\ ~passwordSet
  /\ passwordSet' = TRUE
  /\ ShowKey("setup", "setUp")
  /\ UNCHANGED <<booted, attempts, lockout, running>>

\* submit_recovery with the recovery key, which no lockout stops.
Recover ==
  /\ Clickable("recovery")
  /\ passwordSet
  /\ attempts' = 0
  /\ lockout' = 0
  /\ ShowKey("recovery", "recovered")
  /\ UNCHANGED <<passwordSet, booted, running>>

\* submit_password_change with the right password.
ChangePassword ==
  /\ Clickable("reset")
  /\ ~Locked
  /\ GuessedRight
  /\ Push(Box("reset", "destroy"))
  /\ UNCHANGED <<win, grab, booted, running>>

\* With a wrong one, which counts as a guess.
ChangeRefused ==
  /\ Clickable("reset")
  /\ ~Locked
  /\ GuessedWrong
  /\ Push(Box("reset", "nothing"))
  /\ UNCHANGED <<win, grab, booted, running>>

CopyKey(k) ==
  /\ Clickable(k)
  /\ Push(Box(k, "nothing"))
  /\ UNCHANGED <<win, grab, booted, authVars, running>>

\* confirm_acknowledge, by the button or by closing the window.
Acknowledge(k) ==
  /\ Clickable(k)
  /\ Destroying(k, TRUE)
  /\ UNCHANGED <<stack, booted, authVars, running>>

-----------------------------------------------------------------------------
(* The innermost event loop ends                                               *)

BoxClosed ==
  /\ Serving
  /\ stack # <<>>
  /\ Top.kind = "box"
  /\ stack' = Front(stack)
  /\ LET w == Top.win IN
     CASE Top.then = "schedule" ->
            win' = [win EXCEPT ![w] = Scheduled(@)] /\ UNCHANGED grab
       [] Top.then = "destroy" -> Destroying(w, FALSE)
       [] OTHER -> UNCHANGED <<win, grab>>
  /\ UNCHANGED <<booted, authVars, running>>

Forgotten == [win EXCEPT ![Top.win] = Closed]

\* The operation runs, or was refused; one that fails says so.
OpReturns ==
  /\ Returning
  /\ Top.then = "operation"
  /\ LET w == Top.win
         aged == [v \in Windows |-> [Forgotten[v] EXCEPT !.stale = @ \/ (v \in Ops /\ v # w /\ Awaited(v))]]
     IN \/ /\ win[w].result
           /\ win' = aged
           /\ stack' = Front(stack)
        \/ /\ win[w].result
           /\ win' = Forgotten
           /\ stack' = Append(Front(stack), Box("dashboard", "nothing"))
        \/ /\ ~win[w].result
           /\ win' = Forgotten
           /\ stack' = Front(stack)
  /\ UNCHANGED <<grab, booted, authVars, running>>

ExitReturns ==
  /\ Returning
  /\ Top.then = "exit"
  /\ running' = ~win["exit"].result
  /\ win' = Forgotten
  /\ stack' = Front(stack)
  /\ UNCHANGED <<grab, booted, authVars>>

KeyReturns ==
  /\ Returning
  /\ Top.then \in {"setUp", "recovered"}
  /\ stack' = IF Top.then = "setUp" THEN Front(stack)
              ELSE Append(Front(stack), Box("dashboard", "nothing"))
  /\ win' = Forgotten
  /\ UNCHANGED <<grab, booted, authVars, running>>

-----------------------------------------------------------------------------
Open ==
  \/ ShowPrompt \/ ConfirmExit \/ ExitUnasked \/ Bootstrap
  \/ StartOp \/ OpenRecovery \/ OpenReset

Answer ==
  \/ \E w \in Asking : SubmitLocked(w) \/ SubmitRight(w) \/ SubmitWrong(w) \/ Cancel(w)
  \/ \E w \in {"recovery", "reset"} : CancelForm(w)
  \/ \E w \in {"setup", "recovery", "reset"} : RefuseForm(w)
  \/ SetUp \/ Recover \/ ChangePassword \/ ChangeRefused
  \/ \E k \in Keys : CopyKey(k) \/ Acknowledge(k)

Returns == OpReturns \/ ExitReturns \/ KeyReturns

Next ==
  \/ Tick
  \/ \E w \in Asking : TimerFires(w)
  \/ Open
  \/ Answer
  \/ BoxClosed
  \/ Returns

Spec == Init /\ [][Next]_vars

\* A callback that waits for nothing returns, and Tk fires a timer that is due in
\* whichever loop runs.  No timer fires in the instants in which wait_window returns,
\* and the user may bring them about for ever: hence SF.
FairSpec ==
  /\ Spec
  /\ \A w \in Asking : SF_vars(TimerFires(w))
  /\ WF_vars(Returns)

-----------------------------------------------------------------------------
(* Properties *)

(* Besides the types: no timer of a dialog outlives it, and no box outlives the *)
(* window it belongs to, whose controls the code after the box touches.         *)
TypeOK ==
  /\ win \in [Windows -> [open : BOOLEAN, enabled : BOOLEAN, timer : BOOLEAN,
                          result : BOOLEAN, stale : BOOLEAN, robbed : BOOLEAN]]
  /\ grab \in Windows \union {"none"}
  /\ stack \in Seq(Frame) /\ Len(stack) <= MaxDepth
  /\ booted \in BOOLEAN /\ passwordSet \in BOOLEAN /\ running \in BOOLEAN
  /\ attempts \in 0..(MaxAttempts - 1) /\ lockout \in 0..LockTicks
  /\ \A w \in Asking : win[w].timer => win[w].open
  /\ \A i \in DOMAIN stack :
       stack[i].kind = "box" => stack[i].win = "dashboard" \/ win[stack[i].win].open

(* However the dialogs nest, the user can always answer something: the         *)
(* innermost box, some window that has the input, or the dashboard.            *)
NeverStuck ==
  running => \/ stack # <<>> /\ Top.kind = "box"
             \/ Returning
             \/ DashClickable
             \/ \E w \in Windows : Clickable(w)

(* An operation acts on rows as they were chosen, and a recovery key on the    *)
(* screen is the one that works, unless an intercepted app or an exit request  *)
(* took the grab from the dialog in between.                                   *)
StaleOnlyIfRobbed == \A w \in Ops \union Keys : win[w].stale => win[w].robbed

(* An answer is acted upon at once: a wait whose dialog is closed is the       *)
(* innermost one, unless the dialog was robbed of its grab and another one was *)
(* opened over it.                                                             *)
AnswerActedUpon ==
  \A i \in DOMAIN stack :
    stack[i].kind = "wait" /\ ~win[stack[i].win].open /\ ~win[stack[i].win].robbed
      => i = Len(stack)

(* Once the lockout has ended for good, the controls of every dialog come back  *)
(* without the user: only a notice that is still open holds them.              *)
ControlsComeBack ==
  <>[](~Locked) =>
    \A w \in Asking :
      (win[w].open /\ ~win[w].enabled)
        ~> (~win[w].open \/ win[w].enabled \/ HasBox(w) \/ ~running)

=============================================================================
