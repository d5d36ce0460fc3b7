------------------------------ MODULE AuthState ------------------------------
(* The master password: what is kept of it in three places that cannot be     *)
(* written together (the encrypted state file, the install guard file and the *)
(* registry anchor), the lockout after wrong guesses, and the old password of *)
(* the database that the first start takes over.  The UI thread runs the      *)
(* operations of auth_manager; the monitor thread loads the state whenever it *)
(* needs the integrity key.  A write can fail, and the program can die        *)
(* between any two writes.                                                    *)
EXTENDS Integers, Sequences

CONSTANTS
  Passwords,      \* what a user may type
  Strong,         \* those validate_master_password_strength accepts
  NoPassword,     \* the empty password_hash
  MaxFailed,      \* MAX_FAILED_ATTEMPTS
  BaseLockout,    \* BASE_LOCKOUT_DURATION, in ticks
  MaxLockout,     \* MAX_LOCKOUT_DURATION, in ticks
  MaxLockouts,    \* bound on the lockouts without a right password between them
  MaxKeys,        \* bound on the recovery keys made
  WritesMayFail,  \* may the system refuse a write?
  MayCrash        \* may the program die?

ASSUME PasswordAssumption == Strong \subseteq Passwords /\ NoPassword \notin Passwords
ASSUME LockoutAssumption ==
  /\ MaxFailed \in Nat \ {0}
  /\ BaseLockout \in Nat \ {0} /\ MaxLockout \in Nat /\ BaseLockout <= MaxLockout
  /\ MaxLockouts \in Nat /\ MaxKeys \in Nat
ASSUME FaultAssumption == WritesMayFail \in BOOLEAN /\ MayCrash \in BOOLEAN

VARIABLES
  disk,    \* the state file, the guard file and the registry anchor
  legacy,  \* password_hash of 'admin' in the users table
  ui,      \* the operation the UI thread is in
  reader,  \* load_state as the monitor thread runs it
  keys,    \* number of recovery keys made
  shown,   \* history: the recovery key the user was shown last
  wrong,   \* history: wrong guesses answered since a right one or a lockout
  last,    \* history: length of the latest lockout since a right guess
  faulty   \* history: has a write failed or the program died?

history == <<shown, wrong, last, faulty>>
vars == <<disk, legacy, ui, reader, keys, history>>

-----------------------------------------------------------------------------
Hash == Passwords \union {NoPassword}
State == [hash : Hash, recovery : 0..MaxKeys, attempts : 0..MaxFailed - 1,
          until : 0..MaxLockout, count : 0..MaxLockouts]
NoState == [hash |-> NoPassword, recovery |-> -1, attempts |-> 0, until |-> 0, count |-> 0]

\* _build_default_state
DefaultState == [hash |-> NoPassword, recovery |-> 0, attempts |-> 0, until |-> 0, count |-> 0]

\* install_id is made with the state and never changes, so an anchor says two things:
\* that there is a state, and whether it has a password.
AnchorValue == {"absent", "unconfigured", "configured"}

\* Mutant: an anchor always asks for a password.
AnchorAlways(state) == "configured"
\* _save_guard and _save_registry_anchor write this.
Anchor(state) == IF state.hash = NoPassword THEN "unconfigured" ELSE "configured"

\* load_state does not raise ProtectedStateError on these.
Accepts(state, guard, registry) ==
  IF state = NoState THEN {guard, registry} = {"absent"}
  ELSE "configured" \in {guard, registry} => state.hash # NoPassword

\* Mutant: the guard is written before the state.
SaveOrderGuardFirst == <<"guard", "state", "registry">>
\* save_state
SaveOrder == <<"state", "guard", "registry">>

Idle == [pc |-> "idle", then |-> "none", todo |-> <<>>, copy |-> NoState,
         new |-> NoPassword, right |-> FALSE]
Down == [Idle EXCEPT !.pc = "down"]
NotReading == [pc |-> "idle", guard |-> "absent", registry |-> "absent"]

\* The UI thread saves copy; `then' says where.
Save(copy, then) == [ui EXCEPT !.pc = "saving", !.then = then, !.todo = SaveOrder, !.copy = copy]

\* Mutant: MAX_LOCKOUT_DURATION is not applied.
LockoutUncapped(count) == BaseLockout * 2^count
\* _calculate_exponential_lockout
Lockout(count) ==
  LET duration == BaseLockout * 2^count
  IN  IF duration < MaxLockout THEN duration ELSE MaxLockout

\* Mutant: the lockouts are not counted.
FailedAttemptFlat(state) ==
  IF state.attempts + 1 < MaxFailed
  THEN [state EXCEPT !.attempts = @ + 1]
  ELSE [state EXCEPT !.attempts = 0, !.until = Lockout(state.count)]

\* record_failed_attempt, before it saves.
FailedAttempt(state) ==
  IF state.attempts + 1 < MaxFailed
  THEN [state EXCEPT !.attempts = @ + 1]
  ELSE [state EXCEPT !.attempts = 0, !.count = @ + 1, !.until = Lockout(state.count + 1)]

MoreLockouts == disk.state.count < MaxLockouts

\* What a proof of the password, or of the recovery key, resets.
Cleared(state) == [state EXCEPT !.attempts = 0, !.until = 0, !.count = 0]

Init ==
  /\ legacy \in Hash
  /\ disk = [state |-> NoState, guard |-> "absent", registry |-> "absent"]
  /\ ui = Down
  /\ reader = NotReading
  /\ keys = 0 /\ shown = 0 /\ wrong = 0 /\ last = 0 /\ faulty = FALSE

-----------------------------------------------------------------------------
(* save_state *)

\* One of the three places is written.
Content(file) == IF file = "state" THEN ui.copy ELSE Anchor(ui.copy)

\* What the history keeps of a state that is written.
Proven == ui.then \in {"reset", "setup", "change", "recover"}
LocksOut == ui.then \in {"record", "recount"} /\ ui.copy.attempts = 0

Write ==
  /\ ui.pc = "saving"
  /\ ui.todo # <<>>
  /\ LET file == Head(ui.todo)
     IN  /\ disk' = [disk EXCEPT ![file] = Content(file)]
         /\ wrong' = IF file = "state" /\ (Proven \/ LocksOut) THEN 0 ELSE wrong
         /\ last' = IF file # "state" THEN last
                    ELSE IF Proven THEN 0
                    ELSE IF LocksOut THEN Lockout(ui.copy.count) ELSE last
  /\ ui' = [ui EXCEPT !.todo = Tail(@), !.pc = IF Len(ui.todo) = 1 THEN "saved" ELSE "saving"]
  /\ UNCHANGED <<legacy, reader, keys, shown, faulty>>

\* _save_registry_anchor turns an OSError into a ProtectedStateError; the files do not.
WriteFails ==
  /\ WritesMayFail
  /\ ui.pc = "saving"
  /\ ui.todo # <<>>
  /\ ui' = [ui EXCEPT !.todo = <<>>,
                      !.pc = IF Head(ui.todo) = "registry" THEN "state_error" ELSE "os_error"]
  /\ faulty' = TRUE
  /\ UNCHANGED <<disk, legacy, reader, keys, shown, wrong, last>>

Saved == ui.pc = "saved"
Failed == ui.pc \in {"os_error", "state_error"}

-----------------------------------------------------------------------------
(* Start: init_db, then prepare_auth_runtime *)

Loaded == Accepts(disk.state, disk.guard, disk.registry)

\* init_db makes the default state if there is none, and goes on if that fails.
Boot ==
  /\ ui.pc = "down"
  /\ ui' = IF disk.state = NoState /\ Loaded THEN Save(DefaultState, "boot")
           ELSE [Down EXCEPT !.pc = "prepare"]
  /\ UNCHANGED <<disk, legacy, reader, keys, history>>

Booted ==
  /\ ui.then = "boot"
  /\ Saved \/ Failed
  /\ ui' = [Down EXCEPT !.pc = "prepare"]
  /\ UNCHANGED <<disk, legacy, reader, keys, history>>

\* Mutant: the rows of the database are deleted before the state is saved.
PrepareClearsFirst ==
  /\ ui.pc = "prepare"
  /\ ui' = IF ~Loaded THEN Down
           ELSE IF disk.state = NoState THEN Save(DefaultState, "create")
           ELSE IF disk.state.hash = NoPassword /\ legacy # NoPassword
           THEN Save([disk.state EXCEPT !.hash = legacy, !.attempts = 0, !.until = 0], "migrate")
           ELSE Idle
  /\ legacy' = IF Loaded /\ disk.state # NoState THEN NoPassword ELSE legacy
  /\ UNCHANGED <<disk, reader, keys, history>>

\* prepare_auth_runtime loads or makes the state and takes over a legacy password.
Prepare ==
  /\ ui.pc = "prepare"
  /\ ui' = IF ~Loaded THEN Down
           ELSE IF disk.state = NoState THEN Save(DefaultState, "create")
           ELSE IF disk.state.hash = NoPassword /\ legacy # NoPassword
           THEN Save([disk.state EXCEPT !.hash = legacy, !.attempts = 0, !.until = 0], "migrate")
           ELSE Idle
  /\ UNCHANGED <<disk, legacy, reader, keys, history>>

Created ==
  /\ ui.then = "create"
  /\ Saved \/ Failed
  /\ ui' = IF Saved THEN [Down EXCEPT !.pc = "prepare"] ELSE Down
  /\ UNCHANGED <<disk, legacy, reader, keys, history>>

Migrated ==
  /\ ui.then = "migrate"
  /\ Saved \/ Failed
  /\ ui' = IF Saved THEN [ui EXCEPT !.pc = "clear"] ELSE Down
  /\ UNCHANGED <<disk, legacy, reader, keys, history>>

-----------------------------------------------------------------------------
(* verify_master_password, alone or as the first part of change_master_password *)

\* new is the password to change to, or NoPassword.  During a lockout nothing is checked.
Verify(p, new) ==
  /\ ui.pc = "idle"
  /\ disk.state.until = 0
  /\ p = disk.state.hash \/ MoreLockouts
  /\ ui' = [(IF p = disk.state.hash THEN Save(Cleared(disk.state), "reset")
                                    ELSE Save(FailedAttempt(disk.state), "record"))
            EXCEPT !.new = new, !.right = (p = disk.state.hash)]
  /\ UNCHANGED <<disk, legacy, reader, keys, history>>

\* Mutant: a change starts from the default state.
AcceptFromDefault ==
  /\ ui.then = "reset" /\ Saved
  /\ ui' = IF ui.new \in Strong
           THEN Save([DefaultState EXCEPT !.hash = ui.new], "change")
           ELSE Idle
  /\ UNCHANGED <<disk, legacy, reader, keys, history>>

\* reset_failed_attempts is done: the guess is accepted; a change then saves the new
\* password, if it is a strong one, in a state loaded again.
Accept ==
  /\ ui.then = "reset" /\ Saved
  /\ ui' = IF ui.new \in Strong
           THEN Save([disk.state EXCEPT !.hash = ui.new, !.attempts = 0, !.until = 0], "change")
           ELSE Idle
  /\ UNCHANGED <<disk, legacy, reader, keys, history>>

\* The user is told that the password is wrong.
Answer ==
  /\ ui' = Idle
  /\ wrong' = IF ui.right THEN wrong ELSE IF LocksOut THEN 0 ELSE wrong + 1

\* A failure to write the registry anchor ends in the answer that the password is wrong,
\* whatever it was.
Reject ==
  /\ \/ ui.then = "record" /\ (Saved \/ ui.pc = "state_error")
     \/ ui.then = "reset" /\ ui.pc = "state_error"
     \/ ui.then = "recount" /\ Saved
  /\ Answer
  /\ UNCHANGED <<disk, legacy, reader, keys, shown, last, faulty>>

\* Mutant: a failure to save is only answered.
RecountSilently ==
  /\ ui.then \in {"record", "reset"} /\ ui.pc = "os_error"
  /\ Answer
  /\ UNCHANGED <<disk, legacy, reader, keys, shown, last, faulty>>

\* Any other failure is taken for a failed attempt: record_failed_attempt runs (again),
\* and returns at once if it finds a lockout.
Recount ==
  /\ ui.then \in {"record", "reset"} /\ ui.pc = "os_error"
  /\ IF disk.state.until > 0 THEN Answer
     ELSE /\ MoreLockouts
          /\ ui' = Save(FailedAttempt(disk.state), "recount")
          /\ UNCHANGED wrong
  /\ UNCHANGED <<disk, legacy, reader, keys, shown, last, faulty>>

\* The second record_failed_attempt fails too: the exception leaves verify_master_password.
Raise ==
  /\ ui.then = "recount" /\ Failed
  /\ ui' = Idle
  /\ UNCHANGED <<disk, legacy, reader, keys, history>>

-----------------------------------------------------------------------------
(* setup_master_password, change_master_password, reset_password_with_recovery_key *)

NewKey(state, p) == [Cleared(state) EXCEPT !.hash = p, !.recovery = keys + 1]

Setup(p) ==
  /\ ui.pc = "idle"
  /\ disk.state.hash = NoPassword
  /\ p \in Strong
  /\ keys < MaxKeys
  /\ keys' = keys + 1
  /\ ui' = Save(NewKey(disk.state, p), "setup")
  /\ UNCHANGED <<disk, legacy, reader, history>>

\* A wrong recovery key changes nothing; the right one is the one shown last.
Recover(p) ==
  /\ ui.pc = "idle"
  /\ disk.state.recovery # 0 /\ shown = disk.state.recovery
  /\ p \in Strong
  /\ keys < MaxKeys
  /\ keys' = keys + 1
  /\ ui' = Save(NewKey(disk.state, p), "recover")
  /\ UNCHANGED <<disk, legacy, reader, history>>

Recovered ==
  /\ ui.then = "recover" /\ Saved
  /\ shown' = ui.copy.recovery
  /\ ui' = Idle
  /\ UNCHANGED <<disk, legacy, reader, keys, wrong, last, faulty>>

SetOrChanged ==
  /\ ui.then \in {"setup", "change"} /\ Saved
  /\ ui' = [ui EXCEPT !.pc = "clear"]
  /\ UNCHANGED <<disk, legacy, reader, keys, history>>

\* The user is told that nothing was changed.
NotSaved ==
  /\ ui.then \in {"setup", "change", "recover"} /\ Failed
  /\ ui' = Idle
  /\ UNCHANGED <<disk, legacy, reader, keys, history>>

ClearLegacy ==
  /\ ui.pc = "clear"
  /\ legacy' = NoPassword
  /\ shown' = IF ui.then = "setup" THEN ui.copy.recovery ELSE shown
  /\ ui' = Idle
  /\ UNCHANGED <<disk, reader, keys, wrong, last, faulty>>

ClearFails ==
  /\ WritesMayFail
  /\ ui.pc = "clear"
  /\ ui' = IF ui.then = "migrate" THEN Down ELSE Idle
  /\ faulty' = TRUE
  /\ UNCHANGED <<disk, legacy, reader, keys, shown, wrong, last>>

-----------------------------------------------------------------------------
(* load_state on the monitor thread, which runs once the runtime is prepared *)

Running == ui.pc \notin {"down", "prepare"} /\ ui.then \notin {"boot", "create", "migrate"}

ReadGuard ==
  /\ Running
  /\ reader.pc = "idle"
  /\ reader' = [reader EXCEPT !.pc = "registry", !.guard = disk.guard]
  /\ UNCHANGED <<disk, legacy, ui, keys, history>>

ReadRegistry ==
  /\ reader.pc = "registry"
  /\ reader' = [reader EXCEPT !.pc = "state", !.registry = disk.registry]
  /\ UNCHANGED <<disk, legacy, ui, keys, history>>

ReadState ==
  /\ reader.pc = "state"
  /\ reader' = NotReading
  /\ UNCHANGED <<disk, legacy, ui, keys, history>>

-----------------------------------------------------------------------------
\* A second passes, for what is on disk and for what is about to be saved.
Tick ==
  /\ LET pass(state) == IF state.until > 0 THEN [state EXCEPT !.until = @ - 1] ELSE state
     IN  /\ disk' = [disk EXCEPT !.state = pass(@)]
         /\ ui' = [ui EXCEPT !.copy = pass(@)]
  /\ <<disk, ui>>' # <<disk, ui>>
  /\ UNCHANGED <<legacy, reader, keys, history>>

\* The program dies, or is closed.
Crash ==
  /\ MayCrash
  /\ ui.pc # "down"
  /\ ui' = Down
  /\ reader' = NotReading
  /\ faulty' = TRUE
  /\ UNCHANGED <<disk, legacy, keys, shown, wrong, last>>

Start == Boot \/ Booted \/ Prepare \/ Created \/ Migrated
Operations ==
  \/ \E p \in Passwords, new \in Hash : Verify(p, new)
  \/ Accept \/ Reject \/ Recount \/ Raise
  \/ \E p \in Passwords : Setup(p) \/ Recover(p)
  \/ Recovered \/ SetOrChanged \/ NotSaved \/ ClearLegacy \/ ClearFails
Reading == ReadGuard \/ ReadRegistry \/ ReadState

Next == Start \/ Write \/ WriteFails \/ Operations \/ Reading \/ Tick \/ Crash

Spec == Init /\ [][Next]_vars
-----------------------------------------------------------------------------
(* Properties *)

Pcs == {"down", "prepare", "idle", "saving", "saved", "os_error", "state_error", "clear"}
Thens == {"none", "boot", "create", "migrate", "reset", "record", "recount",
          "setup", "change", "recover"}
Files == {"state", "guard", "registry"}

TypeOK ==
  /\ disk \in [state : State \union {NoState}, guard : AnchorValue, registry : AnchorValue]
  /\ legacy \in Hash
  /\ ui \in [pc : Pcs, then : Thens, todo : {SaveOrder, <<"guard", "registry">>, <<"registry">>, <<>>},
             copy : State \union {NoState}, new : Hash, right : BOOLEAN]
  /\ reader \in [pc : {"idle", "registry", "state"}, guard : AnchorValue, registry : AnchorValue]
  /\ keys \in 0..MaxKeys /\ shown \in 0..MaxKeys
  /\ wrong \in 0..MaxFailed - 1
  /\ last \in 0..MaxLockout
  /\ faulty \in BOOLEAN

\* Whatever write failed and wherever the program died, the next load_state accepts what
\* is on disk: an interrupted save never makes the installation look tampered with.
Loadable == Loaded

\* load_state on the monitor thread reads the three places one after the other while
\* the UI thread writes them; it never raises, and never finds nothing.
ReaderAccepted ==
  reader.pc = "state" =>
    disk.state # NoState /\ Accepts(disk.state, reader.guard, reader.registry)

\* Every guess the user was told is wrong has been counted on disk, so that the
\* MAX_FAILED_ATTEMPTS-th locks out, whatever fails and however often it restarts.
AttemptsCounted == ui.pc = "idle" => wrong <= disk.state.attempts

\* Once there is a password, in the database or the state, there is one for ever, and
\* while the program runs it is in the state, where is_master_password_set looks.
Configured == legacy # NoPassword \/ disk.state.hash # NoPassword
PasswordKept ==
  [][Configured => Configured' /\ (ui'.pc = "idle" => disk'.state.hash # NoPassword)]_vars

\* Without a right guess between them, each lockout is twice as long as the one before
\* or as long as MAX_LOCKOUT_DURATION.
LockoutBegins == disk'.state.until > disk.state.until
LockoutsEscalate ==
  [][LockoutBegins => last' = MaxLockout \/ (last' >= 2 * last /\ last' > 0)]_vars

\* As long as no write has failed and the program has not died, what is stored is exactly
\* what the user has seen: the number of wrong guesses is the one counted, a right one is
\* never taken for a failed attempt, and the recovery key shown last is the one that counts.
StoredIsSeen ==
  ~faulty /\ ui.pc = "idle" => wrong = disk.state.attempts /\ shown = disk.state.recovery
=============================================================================
