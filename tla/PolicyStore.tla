----------------------------- MODULE PolicyStore -----------------------------
(* The rules that say which applications are locked: a table of the database  *)
(* with an HMAC over it, written in transactions by the UI thread and read by *)
(* the monitor thread and the dashboard's refresh worker in statements of     *)
(* their own; the dashboard, which shows an older state of the rules while    *)
(* the user works on it; and what an earlier version left in the database.    *)
EXTENDS FiniteSets, Integers

CONSTANTS
  Apps,            \* executables, by normalized path
  Names,           \* their file names
  NameOf,          \* extract_executable_name
  Listed,          \* those the registry and the start menu lead to
  Digests,         \* SHA-256 of the contents a file may have
  NoApp,           \* the app_path of a rule by name
  NoDigest,        \* of a file that cannot be read, or of a rule by name
  OldRules,        \* what an earlier version may have left in the table
  MaxChanges,      \* bound on the transactions that change the rules
  MaxFileChanges,  \* bound on the changes of files
  WritesMayFail,   \* may a transaction be rolled back?
  MayCrash         \* may the program die?

ASSUME NamesAssumption == NameOf \in [Apps -> Names] /\ Listed \subseteq Apps /\ NoApp \notin Apps
ASSUME OldRulesAssumption ==
  OldRules \subseteq SUBSET [app : Apps \union {NoApp}, name : Names, digest : Digests \union {NoDigest}]
ASSUME BoundsAssumption ==
  /\ MaxChanges \in Nat /\ MaxFileChanges \in Nat
  /\ WritesMayFail \in BOOLEAN /\ MayCrash \in BOOLEAN

VARIABLES
  files,      \* the digest of each executable, if there is one
  db,         \* what is committed: the rows of locked_apps and locked_apps_hmac
  ui,         \* the operation the UI thread is in
  dash,       \* what the dashboard shows: the rules and the files it was made from
  worker,     \* the refresh worker
  monitor,    \* list_locked_apps as the monitor thread runs it
  rules,      \* the rules the monitor enforces
  changes,    \* number of transactions that changed the rules
  fileChanges \* number of changes of files

vars == <<files, db, ui, dash, worker, monitor, rules, changes, fileChanges>>

-----------------------------------------------------------------------------
(* Rules and the HMAC over them *)

Rule == [app : Apps \union {NoApp}, name : Names, digest : Digests \union {NoDigest}]

\* Different rules have different HMACs.
Mac(rows) == [made |-> TRUE, of |-> rows]
NoMac == [made |-> FALSE, of |-> {}]

Installed == {a \in Apps : files[a] # NoDigest}
PathRule(a) == [app |-> a, name |-> NameOf[a], digest |-> files[a]]

\* The unique indexes of _create_indexes.
Duplicates(rows) ==
  \E r, s \in rows : r # s /\ r.app = s.app /\ (r.app = NoApp => r.name = s.name)

NewNames(rows, batch) == {NameOf[a] : a \in {b \in batch : \A r \in rows : r.app # b}}

\* Mutant: a new rule is inserted next to the one there is.
LockInserting(rows, batch) == rows \union {PathRule(a) : a \in batch}
\* lock_apps: the rule of an app is brought up to date; without one, a rule by its name
\* becomes its rule, or it gets a new one.
Lock(rows, batch) ==
  {r \in rows : IF r.app = NoApp THEN r.name \notin NewNames(rows, batch) ELSE r.app \notin batch}
    \union {PathRule(a) : a \in batch}

\* unlock_apps, with rows of the dashboard
Unlock(rows, batch) == {r \in rows : r.app \notin batch}

-----------------------------------------------------------------------------
(* What the dashboard shows: _merge_locked_apps *)

Found == Listed \intersect Installed

\* A rule without an application that was found is shown with the one that was found last
\* under its name, and only failing that as a row of its own.
ShownAs(rule, found) ==
  LET namesakes == {a \in found : NameOf[a] = rule.name}
  IN  IF rule.app \in found THEN rule.app
      ELSE IF namesakes # {} THEN CHOOSE a \in namesakes : TRUE
      ELSE rule.app
LockedRows(rows, found) == {[app |-> ShownAs(r, found), name |-> r.name] : r \in rows}
UnlockedApps(rows, found) == found \ {ShownAs(r, found) : r \in rows}

-----------------------------------------------------------------------------
(* list_locked_apps: the HMAC, the rows it is compared with and the rows that are *)
(* returned are read by three statements of their own.                            *)

NotListing == [pc |-> "idle", mac |-> NoMac, rows |-> {}]
ReadMac(r) == [r EXCEPT !.pc = "verify", !.mac = db.mac]
ReadToVerify(r) == [r EXCEPT !.pc = IF r.mac = Mac(db.rows) THEN "list" ELSE "refused"]
ReadRows(r) == [r EXCEPT !.pc = "listed", !.rows = db.rows]
\* The database, the key of the HMAC or what is made of the rows fails: any exception.
Fail == [NotListing EXCEPT !.pc = "failed"]

Idle == [pc |-> "idle", op |-> "none", apps |-> {}]
Down == [Idle EXCEPT !.pc = "down"]
EmptyDash == [rows |-> {}, found |-> {}, refreshing |-> FALSE, failed |-> FALSE]

Init ==
  /\ files \in [Apps -> Digests \union {NoDigest}]
  /\ \/ db = [rows |-> {}, mac |-> NoMac]
     \/ \E rows \in OldRules : db = [rows |-> rows, mac |-> NoMac]
     \/ \E rows \in OldRules : ~Duplicates(rows) /\ db = [rows |-> rows, mac |-> Mac(rows)]
  /\ ui = Down
  /\ dash = EmptyDash
  /\ worker = NotListing
  /\ monitor = NotListing
  /\ rules = {}
  /\ changes = 0 /\ fileChanges = 0

-----------------------------------------------------------------------------
(* Start *)

\* _create_indexes fails on duplicates; initialize_or_verify_policy_integrity wants rows to
\* have an HMAC.  The normalization that follows counts every row as changed, so that the
\* HMAC is made again and _deduplicate_locked_apps does not run.
InitDb ==
  IF ~Duplicates(db.rows) /\ db.mac \in {Mac(db.rows)} \union (IF db.rows = {} THEN {NoMac} ELSE {})
  THEN [db EXCEPT !.mac = Mac(db.rows)]
  ELSE db

\* init_db, whose failure is only logged; then list_locked_apps, whose failure ends the start.
Boot ==
  /\ ui.pc = "down"
  /\ db' = InitDb
  /\ IF db'.mac = Mac(db'.rows)
     THEN /\ ui' = Idle
          /\ dash' = [EmptyDash EXCEPT !.refreshing = TRUE]
          /\ worker' = [NotListing EXCEPT !.pc = "begin"]
     ELSE ui' = [Down EXCEPT !.pc = "refused"] /\ UNCHANGED <<dash, worker>>
  /\ UNCHANGED <<files, monitor, rules, changes, fileChanges>>

Running == ui.pc \notin {"down", "refused"}

Stop ==
  /\ ui' = Down
  /\ dash' = EmptyDash /\ worker' = NotListing /\ monitor' = NotListing /\ rules' = {}
  /\ UNCHANGED <<files, db, changes, fileChanges>>
Exit == ui.pc = "refused" /\ Stop
Crash == MayCrash /\ Running /\ Stop

-----------------------------------------------------------------------------
(* The operations of the dashboard.  The password is asked for between the choice *)
(* and the transaction.                                                           *)

Ask(op, apps) ==
  /\ ui' = [pc |-> "password", op |-> op, apps |-> apps]
  /\ UNCHANGED <<files, db, dash, worker, monitor, rules, changes, fileChanges>>

\* Mutant: the buttons stay enabled during a refresh.
ReadyAlways == ui.pc = "idle"
\* _set_buttons_enabled
Ready == ui.pc = "idle" /\ ~dash.refreshing

LockSelected(apps) ==
  /\ Ready
  /\ apps # {} /\ apps \subseteq UnlockedApps(dash.rows, dash.found)
  /\ Ask("lock", apps)

\* A row without a path stands for NoApp.
UnlockSelected(apps) ==
  /\ Ready
  /\ apps # {} /\ apps \subseteq {row.app : row \in LockedRows(dash.rows, dash.found)}
  /\ Ask("unlock", apps)

LockCustomPath(a) ==
  /\ Ready
  /\ a \in Installed
  /\ Ask("lock", {a})

UnlockAllApplications ==
  /\ Ready
  /\ db.rows # {}
  /\ Ask("unlock_all", {})

\* Mutant: the choice outlives a wrong password.
AnswerKept(right) ==
  /\ ui.pc = "password"
  /\ ui' = [ui EXCEPT !.pc = IF right THEN "allowed" ELSE "idle"]
  /\ UNCHANGED <<files, db, dash, worker, monitor, rules, changes, fileChanges>>
Answer(right) ==
  /\ ui.pc = "password"
  /\ ui' = IF right THEN [ui EXCEPT !.pc = "allowed"] ELSE Idle
  /\ UNCHANGED <<files, db, dash, worker, monitor, rules, changes, fileChanges>>

\* refresh_inventory, which returns at once during a refresh
RefreshInventory ==
  IF dash.refreshing THEN UNCHANGED <<dash, worker>>
  ELSE /\ dash' = [dash EXCEPT !.refreshing = TRUE]
       /\ worker' = [NotListing EXCEPT !.pc = "begin"]

\* Mutant: the apps whose files can be read are locked or unlocked.
ConcretePart == ui.op # "unlock_all" => ui.apps \intersect Installed # {}
\* Each app of lock_apps and unlock_apps needs a path and the digest of its file: failing
\* that, a ValueError rolls the transaction back.
Concrete == ui.op # "unlock_all" => ui.apps \subseteq Installed
Verified == db.mac = Mac(db.rows)

NewRows ==
  CASE ui.op = "lock" -> Lock(db.rows, ui.apps)
    [] ui.op = "unlock" -> Unlock(db.rows, ui.apps)
    [] ui.op = "unlock_all" -> {}

\* Mutant: what is removed last leaves the HMAC as it was.
ChangeRulesNoMac ==
  /\ ui.pc = "allowed" /\ Verified /\ Concrete
  /\ changes < MaxChanges
  /\ changes' = changes + 1
  /\ db' = [rows |-> NewRows, mac |-> IF NewRows = {} THEN db.mac ELSE Mac(NewRows)]
  /\ ui' = Idle
  /\ RefreshInventory
  /\ UNCHANGED <<files, monitor, rules, fileChanges>>
\* The transaction: rows and HMAC are committed together.
ChangeRules ==
  /\ ui.pc = "allowed" /\ Verified /\ Concrete
  /\ changes < MaxChanges
  /\ changes' = changes + 1
  /\ db' = [rows |-> NewRows, mac |-> Mac(NewRows)]
  /\ ui' = Idle
  /\ RefreshInventory
  /\ UNCHANGED <<files, monitor, rules, fileChanges>>

\* It is rolled back, and the user is told.
ChangeFails ==
  /\ ui.pc = "allowed"
  /\ WritesMayFail \/ ~Verified \/ ~Concrete
  /\ ui' = Idle
  /\ UNCHANGED <<files, db, dash, worker, monitor, rules, changes, fileChanges>>

PressRefresh ==
  /\ Ready
  /\ RefreshInventory
  /\ UNCHANGED <<files, db, ui, monitor, rules, changes, fileChanges>>

-----------------------------------------------------------------------------
(* The refresh worker, and the UI thread when it polls its results *)

WorkerSteps ==
  /\ \/ worker.pc = "begin" /\ worker' = ReadMac(worker)
     \/ worker.pc = "verify" /\ worker' = ReadToVerify(worker)
     \/ worker.pc = "list" /\ worker' = ReadRows(worker)
     \/ worker.pc \in {"begin", "verify", "list", "listed"} /\ worker' = Fail
  /\ UNCHANGED <<files, db, ui, dash, monitor, rules, changes, fileChanges>>

\* The result is applied, the inventory having been made in between; or the error, which
\* the user is told, and the buttons are enabled over the rows that were shown before.
ApplyResults ==
  /\ worker.pc \in {"listed", "refused", "failed"}
  /\ dash' = IF worker.pc # "listed" THEN [dash EXCEPT !.refreshing = FALSE, !.failed = TRUE]
             ELSE [rows |-> worker.rows, found |-> Found, refreshing |-> FALSE, failed |-> FALSE]
  /\ worker' = NotListing
  /\ UNCHANGED <<files, db, ui, monitor, rules, changes, fileChanges>>

-----------------------------------------------------------------------------
(* refresh_locked_apps on the monitor thread *)

MonitorBegins ==
  /\ Running
  /\ monitor.pc = "idle"
  /\ monitor' = ReadMac(monitor)
  /\ UNCHANGED <<files, db, ui, dash, worker, rules, changes, fileChanges>>

MonitorReads ==
  /\ \/ monitor.pc = "verify" /\ monitor' = ReadToVerify(monitor)
     \/ monitor.pc = "list" /\ monitor' = ReadRows(monitor)
     \/ monitor.pc \in {"verify", "list"} /\ monitor' = Fail
  /\ UNCHANGED <<files, db, ui, dash, worker, rules, changes, fileChanges>>

\* Mutant: an empty table is taken for a failure.
MonitorEndsNonempty ==
  /\ monitor.pc \in {"listed", "refused", "failed"}
  /\ rules' = IF monitor.pc = "listed" /\ monitor.rows # {} THEN monitor.rows ELSE rules
  /\ monitor' = NotListing
  /\ UNCHANGED <<files, db, ui, dash, worker, changes, fileChanges>>
\* The rules are replaced, or stay as they are if the list was refused or failed.
MonitorEnds ==
  /\ monitor.pc \in {"listed", "refused", "failed"}
  /\ rules' = IF monitor.pc = "listed" THEN monitor.rows ELSE rules
  /\ monitor' = NotListing
  /\ UNCHANGED <<files, db, ui, dash, worker, changes, fileChanges>>

-----------------------------------------------------------------------------
\* An application is installed, updated or removed.
FileChanges(a) ==
  /\ fileChanges < MaxFileChanges
  /\ fileChanges' = fileChanges + 1
  /\ \E d \in (Digests \union {NoDigest}) \ {files[a]} : files' = [files EXCEPT ![a] = d]
  /\ UNCHANGED <<db, ui, dash, worker, monitor, rules, changes>>

Choose ==
  \/ \E apps \in SUBSET (Apps \union {NoApp}) : LockSelected(apps) \/ UnlockSelected(apps)
  \/ \E a \in Apps : LockCustomPath(a)
  \/ UnlockAllApplications
Operations == Choose \/ (\E right \in BOOLEAN : Answer(right)) \/ ChangeRules \/ ChangeFails
Refresh == PressRefresh \/ WorkerSteps \/ ApplyResults
Monitoring == MonitorBegins \/ MonitorReads \/ MonitorEnds

Next == \/ Boot \/ Exit \/ Crash \/ Operations \/ Refresh \/ Monitoring
        \/ \E a \in Apps : FileChanges(a)

Spec == Init /\ [][Next]_vars

\* The monitor thread goes on scanning.
FairSpec == Spec /\ WF_vars(Monitoring)
-----------------------------------------------------------------------------
(* Properties *)

TypeOK ==
  /\ files \in [Apps -> Digests \union {NoDigest}]
  /\ \A m \in {db, worker, monitor} : m.rows \subseteq Rule /\ m.mac.made \in BOOLEAN /\ m.mac.of \subseteq Rule
  /\ \/ ui.pc \in {"down", "refused", "idle"} /\ ui = [Idle EXCEPT !.pc = ui.pc]
     \/ /\ ui.pc \in {"password", "allowed"} /\ ui.op \in {"lock", "unlock", "unlock_all"}
        /\ ui.apps \subseteq Apps \union {NoApp}
  /\ dash.rows \subseteq Rule /\ dash.found \subseteq Listed /\ {dash.refreshing, dash.failed} \subseteq BOOLEAN
  /\ {worker.pc, monitor.pc} \subseteq {"idle", "begin", "verify", "list", "listed", "refused", "failed"}
  /\ rules \subseteq Rule
  /\ changes \in 0..MaxChanges /\ fileChanges \in 0..MaxFileChanges

\* Whatever is rolled back and wherever the program dies, the rules of a program that has
\* started are covered by the HMAC: the next start is not refused.
HmacCovers == Running => db.mac = Mac(db.rows)

\* An executable has one rule, so that unlocking it leaves none; the same for a name.
OneRuleEach == Running => ~Duplicates(db.rows)

\* Locking or unlocking a selection is done for all of it or for nothing: after a lock each
\* app of it has a rule with the digest its file has then, after an unlock none has a rule.
WholeBatch ==
  [][changes' # changes =>
       \A a \in ui.apps :
         IF ui.op = "lock"
         THEN files[a] # NoDigest /\ \E r \in db'.rows : r.app = a /\ r.digest = files[a]
         ELSE \A r \in db'.rows : r.app # a]_vars

\* From the choice to the transaction, the rules the dashboard shows are the ones there are,
\* unless the user has been told that the last refresh failed: then the buttons are enabled
\* over the rows of an earlier one, which a committed change has left behind.  No
\* transaction falls between the statements of the worker, whose list is never refused.
\* (One operation is on its way at a time: Dialogs shows that this is so unless something
\* takes the grab away.)
DashboardCurrent ==
  /\ ui.pc \in {"password", "allowed"} /\ ~dash.failed => dash.rows = db.rows
  /\ worker.pc # "refused"

\* Once the user leaves the rules alone and reading them does not fail any more, the monitor
\* enforces the rules there are, whatever it was refused before.
MonitorCatchesUp ==
  <>[](Running /\ ui.pc = "idle" /\ monitor.pc # "failed") => <>[](rules = db.rows)
=============================================================================
