-------------------------- MODULE PolicyStore_proofs --------------------------
(* Theorems about PolicyStore for every set of executables, names and digests, *)
(* every old database, and whatever fails, with their proofs.                  *)
EXTENDS PolicyStore, TLAPS

-----------------------------------------------------------------------------
(* The inductive invariant *)

Keyed == [made : BOOLEAN, of : SUBSET Rule]
Reading == [pc : {"idle", "begin", "verify", "list", "listed", "refused", "failed"}, mac : Keyed, rows : SUBSET Rule]
Shown == [rows : SUBSET Rule, found : SUBSET Listed, refreshing : BOOLEAN, failed : BOOLEAN]
AnyFrame ==
  [pc : {"down", "refused", "idle", "password", "allowed"},
   op : {"none", "lock", "unlock", "unlock_all"}, apps : SUBSET (Apps \union {NoApp})]

\* The shapes of the records of TypeOK.
Types ==
  /\ files \in [Apps -> Digests \union {NoDigest}]
  /\ db \in [rows : SUBSET Rule, mac : Keyed]
  /\ ui \in AnyFrame
  /\ ui.pc \in {"password", "allowed"} <=> ui.op # "none"
  /\ ui.op = "none" => ui.apps = {}
  /\ ui.op = "lock" => ui.apps \subseteq Apps
  /\ dash \in Shown
  /\ worker \in Reading /\ monitor \in Reading
  /\ rules \subseteq Rule
  /\ changes \in 0..MaxChanges /\ fileChanges \in 0..MaxFileChanges

\* An HMAC only ever covers rules without duplicates.
CoveredIsSingle == db.mac = Mac(db.rows) => ~Duplicates(db.rows)

\* The refresh worker runs only while the UI thread leaves the rules alone, and what it has
\* read, or has been applied, is what there is.  After a failure the dashboard may be behind.
Fresh ==
  /\ dash.refreshing <=> worker.pc # "idle"
  /\ dash.refreshing => ui.pc = "idle"
  /\ Running /\ ~dash.refreshing /\ ~dash.failed => dash.rows = db.rows
  /\ worker.pc = "verify" => worker.mac = db.mac
  /\ worker.pc = "listed" => worker.rows = db.rows
  /\ worker.pc # "refused"

IInv == Types /\ HmacCovers /\ CoveredIsSingle /\ Fresh

-----------------------------------------------------------------------------
(* Lemmas *)

\* The two transactions leave rules of the right kind without duplicates.
LEMMA LockSingle ==
  ASSUME NEW rows \in SUBSET Rule, ~Duplicates(rows), NEW batch \in SUBSET Apps,
         files \in [Apps -> Digests \union {NoDigest}]
  PROVE  Lock(rows, batch) \in SUBSET Rule /\ ~Duplicates(Lock(rows, batch))
<1> USE NamesAssumption
<1>1. \A a \in batch : PathRule(a) \in Rule /\ PathRule(a).app = a
  BY DEF PathRule, Rule
<1>2. Lock(rows, batch) \in SUBSET Rule
  BY <1>1 DEF Lock
<1>3. ASSUME NEW r \in Lock(rows, batch), NEW s \in Lock(rows, batch), r # s, r.app = s.app,
             r.app = NoApp => r.name = s.name
      PROVE  FALSE
  <2>1. \A t \in Lock(rows, batch) : (t \in rows /\ t.app \notin batch) \/ \E a \in batch : t = PathRule(a)
    BY NamesAssumption DEF Lock
  <2>2. CASE r \in rows /\ r.app \notin batch
    BY <2>1, <2>2, <1>1, <1>3 DEF Duplicates
  <2>3. CASE \E a \in batch : r = PathRule(a)
    BY <2>1, <2>3, <1>1, <1>3
  <2> QED BY <2>1, <2>2, <2>3
<1> QED BY <1>2, <1>3 DEF Duplicates

LEMMA NewRowsSingle ==
  ASSUME Types, ~Duplicates(db.rows), ui.pc = "allowed"
  PROVE  NewRows \in SUBSET Rule /\ ~Duplicates(NewRows)
<1>1. CASE ui.op = "lock"
  <2>1. NewRows = Lock(db.rows, ui.apps)
    BY <1>1 DEF NewRows
  <2> QED BY <1>1, <2>1, LockSingle DEF Types
<1>2. CASE ui.op = "unlock"
  <2>1. NewRows = Unlock(db.rows, ui.apps)
    BY <1>2 DEF NewRows
  <2> QED BY <2>1 DEF Unlock, Duplicates, Types
<1>3. CASE ui.op = "unlock_all"
  <2>1. NewRows = {}
    BY <1>3 DEF NewRows
  <2> QED BY <2>1 DEF Duplicates
<1> QED BY <1>1, <1>2, <1>3 DEF Types, AnyFrame

LEMMA Constants ==
  /\ NoMac \in Keyed /\ \A rows \in SUBSET Rule : Mac(rows) \in Keyed
  /\ NotListing \in Reading /\ NotListing.pc = "idle" /\ Fail \in Reading /\ Fail.pc = "failed"
  /\ Idle \in AnyFrame /\ Idle.pc = "idle" /\ Idle.op = "none" /\ Idle.apps = {}
  /\ Down \in AnyFrame /\ Down.pc = "down" /\ Down.op = "none" /\ Down.apps = {}
  /\ EmptyDash \in Shown
  /\ ~EmptyDash.refreshing
BY DEF NoMac, Mac, Keyed, NotListing, Fail, Reading, Idle, Down, AnyFrame, EmptyDash, Shown

LEMMA ReadingTypes ==
  ASSUME Types, NEW r \in Reading
  PROVE  /\ ReadMac(r) \in Reading /\ ReadMac(r).pc = "verify" /\ ReadMac(r).mac = db.mac
         /\ ReadToVerify(r) \in Reading
         /\ ReadToVerify(r).pc = IF r.mac = Mac(db.rows) THEN "list" ELSE "refused"
         /\ ReadRows(r) \in Reading /\ ReadRows(r).pc = "listed" /\ ReadRows(r).rows = db.rows
BY DEF Types, Reading, ReadMac, ReadToVerify, ReadRows, Keyed

-----------------------------------------------------------------------------
(* Its proof *)

LEMMA TypesGiveTypeOK == Types => TypeOK
<1> SUFFICES ASSUME Types PROVE TypeOK
  OBVIOUS
<1>1. ui.pc \in {"down", "refused", "idle"} => ui = [Idle EXCEPT !.pc = ui.pc]
  <2>1. ui \in AnyFrame /\ (ui.pc \in {"down", "refused", "idle"} => ui.op = "none" /\ ui.apps = {})
    BY DEF Types, AnyFrame
  <2>2. \A frame \in AnyFrame : frame.op = "none" /\ frame.apps = {} => frame = [Idle EXCEPT !.pc = frame.pc]
    BY DEF AnyFrame, Idle
  <2> QED BY <2>1, <2>2
<1>2. /\ ui.pc \in {"down", "refused", "idle", "password", "allowed"}
      /\ ui.op \in {"none", "lock", "unlock", "unlock_all"} /\ ui.apps \subseteq Apps \union {NoApp}
      /\ ui.pc \in {"password", "allowed"} => ui.op # "none"
  BY DEF Types, AnyFrame
<1>3. \A m \in {db, worker, monitor} : m.rows \subseteq Rule /\ m.mac.made \in BOOLEAN /\ m.mac.of \subseteq Rule
  BY DEF Types, Reading, Keyed
<1>4. {worker.pc, monitor.pc} \subseteq {"idle", "begin", "verify", "list", "listed", "refused", "failed"}
  BY DEF Types, Reading
<1>5. dash.rows \subseteq Rule /\ dash.found \subseteq Listed /\ {dash.refreshing, dash.failed} \subseteq BOOLEAN
  BY DEF Types, Shown
<1> QED BY <1>1, <1>2, <1>3, <1>4, <1>5 DEF Types, TypeOK

LEMMA Initially == Init => IInv
<1> SUFFICES ASSUME Init PROVE IInv
  OBVIOUS
<1>1. \A rows \in OldRules \union {{}} : rows \in SUBSET Rule
  BY OldRulesAssumption DEF Rule
<1>2. db \in [rows : SUBSET Rule, mac : Keyed] /\ CoveredIsSingle
  <2>1. CASE db = [rows |-> {}, mac |-> NoMac]
    BY <2>1, Constants DEF NoMac, Mac, CoveredIsSingle
  <2>2. CASE \E rows \in OldRules : db = [rows |-> rows, mac |-> NoMac]
    BY <2>2, <1>1, Constants DEF NoMac, Mac, CoveredIsSingle
  <2>3. CASE \E rows \in OldRules : ~Duplicates(rows) /\ db = [rows |-> rows, mac |-> Mac(rows)]
    BY <2>3, <1>1, Constants DEF CoveredIsSingle
  <2> QED BY <2>1, <2>2, <2>3 DEF Init
<1>3. Types
  BY <1>2, Constants, BoundsAssumption DEF Init, Types
<1>4. HmacCovers /\ Fresh
  BY Constants DEF Init, HmacCovers, Fresh, Running
<1> QED BY <1>2, <1>3, <1>4 DEF IInv

LEMMA BootKeeps == IInv /\ Boot => IInv'
<1> SUFFICES ASSUME IInv, Boot PROVE IInv'
  OBVIOUS
<1>1. /\ InitDb \in [rows : SUBSET Rule, mac : Keyed] /\ InitDb.rows = db.rows
      /\ InitDb.mac = Mac(InitDb.rows) => ~Duplicates(InitDb.rows)
  <2>1. CASE InitDb = [db EXCEPT !.mac = Mac(db.rows)] /\ ~Duplicates(db.rows)
    BY <2>1, Constants DEF IInv, Types
  <2>2. CASE InitDb = db
    BY <2>2 DEF IInv, Types, CoveredIsSingle
  <2> QED BY <2>1, <2>2 DEF InitDb
<1>2. ui.op = "none" /\ ui.apps = {} /\ worker.pc = "idle" /\ dash.refreshing = FALSE /\ ui.pc = "down"
  BY DEF IInv, Types, AnyFrame, Boot, Fresh
<1>3. CASE db'.mac = Mac(db'.rows)
  <2>1. /\ ui' = Idle
        /\ dash' = [EmptyDash EXCEPT !.refreshing = TRUE]
        /\ worker' = [NotListing EXCEPT !.pc = "begin"]
    BY <1>3 DEF Boot
  <2>2. /\ worker' \in Reading /\ worker'.pc = "begin"
        /\ dash' \in Shown
        /\ dash'.refreshing
    BY <2>1, Constants DEF Reading, NotListing, EmptyDash, Shown
  <2>3. Types'
    BY <2>1, <2>2, <1>1, Constants DEF IInv, Types, Boot
  <2> QED BY <2>1, <2>2, <2>3, <1>1, <1>3, Constants DEF IInv, HmacCovers, CoveredIsSingle, Fresh, Boot
<1>4. CASE db'.mac # Mac(db'.rows)
  <2>1. ui' = [Down EXCEPT !.pc = "refused"] /\ UNCHANGED <<dash, worker>>
    BY <1>4 DEF Boot
  <2>2. ui' \in AnyFrame /\ ui'.pc = "refused" /\ ui'.op = "none" /\ ui'.apps = {}
    BY <2>1, Constants DEF AnyFrame, Down, Idle
  <2>3. Types'
    BY <2>1, <2>2, <1>1 DEF IInv, Types, Boot
  <2> QED BY <2>1, <2>2, <2>3, <1>1, <1>2, <1>4
          DEF IInv, HmacCovers, CoveredIsSingle, Fresh, Boot, Running
<1> QED BY <1>3, <1>4

LEMMA StopKeeps == IInv /\ Stop => IInv'
BY Constants DEF IInv, Types, HmacCovers, CoveredIsSingle, Fresh, Running, Stop

LEMMA AskKeeps ==
  ASSUME IInv, NEW op \in {"lock", "unlock", "unlock_all"}, NEW apps \in SUBSET (Apps \union {NoApp}),
         op = "lock" => apps \subseteq Apps, Ready, Ask(op, apps)
  PROVE  IInv'
<1>1. ui' \in AnyFrame /\ ui'.pc = "password" /\ ui'.op = op /\ ui'.apps = apps
  BY DEF Ask, AnyFrame
<1>2. Types'
  BY <1>1 DEF IInv, Types, Ask
<1>3. (HmacCovers /\ CoveredIsSingle /\ Fresh)'
  BY <1>1 DEF IInv, HmacCovers, CoveredIsSingle, Fresh, Running, Ready, Ask
<1> QED BY <1>2, <1>3 DEF IInv

LEMMA ChooseKeeps == IInv /\ Choose => IInv'
<1> SUFFICES ASSUME IInv, Choose PROVE IInv'
  OBVIOUS
<1>1. ASSUME NEW apps \in SUBSET (Apps \union {NoApp}), LockSelected(apps) PROVE IInv'
  <2>1. apps \subseteq Apps
    BY <1>1, NamesAssumption DEF LockSelected, UnlockedApps, IInv, Types, Shown
  <2> QED BY <1>1, <2>1, AskKeeps DEF LockSelected
<1>2. ASSUME NEW apps \in SUBSET (Apps \union {NoApp}), UnlockSelected(apps) PROVE IInv'
  BY <1>2, AskKeeps DEF UnlockSelected
<1>3. ASSUME NEW a \in Apps, LockCustomPath(a) PROVE IInv'
  <2>1. {a} \in SUBSET (Apps \union {NoApp}) /\ {a} \subseteq Apps
    OBVIOUS
  <2> QED BY <1>3, <2>1, AskKeeps DEF LockCustomPath
<1>4. CASE UnlockAllApplications
  <2>1. {} \in SUBSET (Apps \union {NoApp})
    OBVIOUS
  <2> QED BY <1>4, <2>1, AskKeeps DEF UnlockAllApplications
<1> QED BY <1>1, <1>2, <1>3, <1>4 DEF Choose

LEMMA AnswerKeeps ==
  ASSUME IInv, NEW right \in BOOLEAN, Answer(right)
  PROVE  IInv'
<1>1. /\ ui' \in AnyFrame /\ ui'.pc \in {"allowed", "idle"}
      /\ ui'.pc = "allowed" => ui'.op = ui.op /\ ui'.apps = ui.apps /\ ui.op # "none"
      /\ ui'.pc = "idle" => ui'.op = "none" /\ ui'.apps = {}
  <2>1. CASE right
    BY <2>1 DEF Answer, IInv, Types, AnyFrame
  <2>2. CASE ~right
    BY <2>2, Constants DEF Answer
  <2> QED BY <2>1, <2>2
<1>2. Types'
  BY <1>1 DEF IInv, Types, Answer
<1>3. (HmacCovers /\ CoveredIsSingle /\ Fresh)'
  BY <1>1 DEF IInv, HmacCovers, CoveredIsSingle, Fresh, Running, Answer
<1> QED BY <1>2, <1>3 DEF IInv

\* Starting a refresh, whatever the dashboard shows.
LEMMA RefreshStarts ==
  ASSUME Types, Fresh, ~dash.refreshing, RefreshInventory
  PROVE  /\ dash' \in Shown
         /\ dash'.refreshing /\ worker' \in Reading /\ worker'.pc = "begin"
<1>1. /\ dash' = [dash EXCEPT !.refreshing = TRUE]
      /\ worker' = [NotListing EXCEPT !.pc = "begin"]
  BY DEF RefreshInventory
<1>2. /\ dash' \in Shown
      /\ dash'.refreshing
  BY <1>1 DEF Types, Shown
<1>3. worker' \in Reading /\ worker'.pc = "begin"
  BY <1>1, Constants DEF NotListing, Reading
<1> QED BY <1>2, <1>3

LEMMA ChangeKeeps == IInv /\ ChangeRules => IInv'
<1> SUFFICES ASSUME IInv, ChangeRules PROVE IInv'
  OBVIOUS
<1>1. NewRows \in SUBSET Rule /\ ~Duplicates(NewRows)
  BY NewRowsSingle DEF IInv, CoveredIsSingle, ChangeRules, Verified
<1>2. /\ db' \in [rows : SUBSET Rule, mac : Keyed] /\ db'.rows = NewRows /\ db'.mac = Mac(NewRows)
  BY <1>1, Constants DEF ChangeRules
<1>3. ~dash.refreshing
  BY DEF IInv, Fresh, ChangeRules
<1>4. /\ dash' \in Shown
      /\ dash'.refreshing /\ worker' \in Reading /\ worker'.pc = "begin"
  BY <1>3, RefreshStarts DEF IInv, ChangeRules
<1>5. changes' \in 0..MaxChanges
  BY BoundsAssumption DEF IInv, Types, ChangeRules
<1>6. Types'
  BY <1>2, <1>4, <1>5, Constants DEF IInv, Types, ChangeRules
<1>7. (HmacCovers /\ CoveredIsSingle /\ Fresh)'
  BY <1>1, <1>2, <1>4, Constants DEF HmacCovers, CoveredIsSingle, Fresh, ChangeRules
<1> QED BY <1>6, <1>7 DEF IInv

LEMMA ChangeFailsKeeps == IInv /\ ChangeFails => IInv'
BY Constants DEF IInv, Types, HmacCovers, CoveredIsSingle, Fresh, Running, ChangeFails

LEMMA RefreshKeeps == IInv /\ Refresh => IInv'
<1> SUFFICES ASSUME IInv, Refresh PROVE IInv'
  OBVIOUS
<1>1. CASE PressRefresh
  <2>1. /\ dash' \in Shown
        /\ dash'.refreshing /\ worker' \in Reading /\ worker'.pc = "begin"
    BY <1>1, RefreshStarts DEF IInv, PressRefresh, Ready
  <2> QED BY <1>1, <2>1
          DEF IInv, Types, HmacCovers, CoveredIsSingle, Fresh, Running, PressRefresh, Ready
<1>2. CASE WorkerSteps
  <2>1. ui.pc = "idle" /\ db.mac = Mac(db.rows) /\ worker \in Reading
    BY <1>2 DEF IInv, Types, HmacCovers, Fresh, Running, WorkerSteps
  <2>2. /\ worker' \in Reading /\ worker'.pc \in {"verify", "list", "listed", "failed"}
        /\ worker'.pc = "verify" => worker'.mac = db.mac
        /\ worker'.pc = "listed" => worker'.rows = db.rows
    BY <1>2, <2>1, ReadingTypes, Constants DEF IInv, Fresh, WorkerSteps
  <2> QED BY <1>2, <2>1, <2>2
          DEF IInv, Types, HmacCovers, CoveredIsSingle, Fresh, Running, WorkerSteps
<1>3. CASE ApplyResults
  <2>1. worker.pc \in {"listed", "failed"} /\ (worker.pc = "listed" => worker.rows = db.rows)
    BY <1>3 DEF IInv, Fresh, ApplyResults
  <2>2. /\ dash' \in Shown /\ ~dash'.refreshing
        /\ dash'.failed \/ dash'.rows = db.rows
    <3>1. CASE worker.pc = "listed"
      <4>1. dash' = [rows |-> worker.rows, found |-> Found, refreshing |-> FALSE, failed |-> FALSE]
        BY <1>3, <3>1 DEF ApplyResults
      <4>2. /\ dash' \in Shown /\ ~dash'.refreshing
            /\ dash'.failed \/ dash'.rows = db.rows
        BY <2>1, <3>1, <4>1 DEF IInv, Types, Found, Shown
      <4> QED BY <4>2
    <3>2. CASE worker.pc = "failed"
      <4>1. dash' = [dash EXCEPT !.refreshing = FALSE, !.failed = TRUE]
        BY <1>3, <3>2 DEF ApplyResults
      <4>2. dash' \in Shown /\ ~dash'.refreshing /\ dash'.failed
        BY <4>1 DEF IInv, Types, Shown
      <4> QED BY <4>2
    <3> QED BY <2>1, <3>1, <3>2
  <2> QED BY <1>3, <2>2, Constants
          DEF IInv, Types, HmacCovers, CoveredIsSingle, Fresh, Running, ApplyResults
<1> QED BY <1>1, <1>2, <1>3 DEF Refresh

LEMMA MonitoringKeeps == IInv /\ Monitoring => IInv'
<1> SUFFICES ASSUME IInv, Monitoring PROVE IInv'
  OBVIOUS
<1>1. monitor' \in Reading /\ rules' \subseteq Rule
  <2>1. CASE MonitorBegins
    BY <2>1, ReadingTypes DEF IInv, Types, MonitorBegins
  <2>2. CASE MonitorReads
    BY <2>2, ReadingTypes, Constants DEF IInv, Types, MonitorReads
  <2>3. CASE MonitorEnds
    BY <2>3, Constants DEF IInv, Types, MonitorEnds, Reading
  <2> QED BY <2>1, <2>2, <2>3 DEF Monitoring
<1>2. UNCHANGED <<files, db, ui, dash, worker, changes, fileChanges>>
  BY DEF Monitoring, MonitorBegins, MonitorReads, MonitorEnds
<1> QED BY <1>1, <1>2 DEF IInv, Types, HmacCovers, CoveredIsSingle, Fresh, Running

LEMMA FilesKeep ==
  ASSUME IInv, NEW a \in Apps, FileChanges(a)
  PROVE  IInv'
<1>1. files' \in [Apps -> Digests \union {NoDigest}] /\ fileChanges' \in 0..MaxFileChanges
  BY BoundsAssumption DEF IInv, Types, FileChanges
<1> QED BY <1>1 DEF IInv, Types, HmacCovers, CoveredIsSingle, Fresh, Running, FileChanges

LEMMA Inductive == IInv /\ [Next]_vars => IInv'
<1> SUFFICES ASSUME IInv, [Next]_vars PROVE IInv'
  OBVIOUS
<1>1. CASE Boot
  BY <1>1, BootKeeps
<1>2. CASE Exit \/ Crash
  BY <1>2, StopKeeps DEF Exit, Crash
<1>3. CASE Operations
  BY <1>3, ChooseKeeps, AnswerKeeps, ChangeKeeps, ChangeFailsKeeps DEF Operations
<1>4. CASE Refresh
  BY <1>4, RefreshKeeps
<1>5. CASE Monitoring
  BY <1>5, MonitoringKeeps
<1>6. CASE \E a \in Apps : FileChanges(a)
  BY <1>6, FilesKeep
<1>7. CASE UNCHANGED vars
  BY <1>7 DEF vars, IInv, Types, HmacCovers, CoveredIsSingle, Fresh, Running
<1> QED BY <1>1, <1>2, <1>3, <1>4, <1>5, <1>6, <1>7 DEF Next

-----------------------------------------------------------------------------
(* Theorems *)

\* The type invariant, for every old database and every bound.
THEOREM StoreTypeCorrect == Spec => []TypeOK
<1>1. IInv => TypeOK
  BY TypesGiveTypeOK DEF IInv
<1> QED BY <1>1, Initially, Inductive, PTL DEF Spec

\* Whatever transaction is rolled back and wherever the program dies, the rules of a program
\* that has started (init_db) are covered by the HMAC that write_connection committed with them.
THEOREM AlwaysCovered == Spec => []HmacCovers
<1>1. IInv => HmacCovers
  BY DEF IInv
<1> QED BY <1>1, Initially, Inductive, PTL DEF Spec

\* However it is locked (from the list, by custom path, over a rule by its name, again after
\* an update), an executable has one rule, and so has a name without a path.
THEOREM AlwaysOneRuleEach == Spec => []OneRuleEach
<1>1. IInv => OneRuleEach
  BY DEF IInv, HmacCovers, CoveredIsSingle, OneRuleEach
<1> QED BY <1>1, Initially, Inductive, PTL DEF Spec

\* The user of the dashboard chooses from rules that are out of date only after having been
\* told that the refresh failed (the branch for an error of _apply_inventory_results), whatever
\* statement of the worker failed; and the worker, which runs only while the buttons are
\* disabled, never meets a transaction.
THEOREM StaleOnlyAfterFailure == Spec => []DashboardCurrent
<1>1. IInv => DashboardCurrent
  BY DEF IInv, Fresh, Running, DashboardCurrent
<1> QED BY <1>1, Initially, Inductive, PTL DEF Spec

\* Locking and unlocking of a selection is done for all of it or for nothing: the
\* transaction of lock_apps and unlock_apps handles each app or is rolled back.
THEOREM NeverHalfABatch == Spec => WholeBatch
<1> DEFINE Whole ==
      changes' # changes =>
        \A a \in ui.apps :
          IF ui.op = "lock"
          THEN files[a] # NoDigest /\ \E r \in db'.rows : r.app = a /\ r.digest = files[a]
          ELSE \A r \in db'.rows : r.app # a
<1>1. IInv /\ [Next]_vars => [Whole]_vars
  <2> SUFFICES ASSUME IInv, Next, changes' # changes, NEW a \in ui.apps
               PROVE  IF ui.op = "lock"
                      THEN files[a] # NoDigest /\ \E r \in db'.rows : r.app = a /\ r.digest = files[a]
                      ELSE \A r \in db'.rows : r.app # a
    OBVIOUS
  <2>1. ChangeRules
    BY DEF Next, Boot, Exit, Crash, Stop, Operations, Choose, LockSelected, UnlockSelected,
           LockCustomPath, UnlockAllApplications, Ask, Answer, ChangeFails, Refresh, PressRefresh,
           WorkerSteps, ApplyResults, Monitoring, MonitorBegins, MonitorReads, MonitorEnds, FileChanges
  <2>2. ui.pc = "allowed" /\ Concrete /\ db'.rows = NewRows
    BY <2>1 DEF ChangeRules
  <2>3. CASE ui.op = "lock"
    <3>1. db'.rows = Lock(db.rows, ui.apps)
      BY <2>2, <2>3 DEF NewRows
    <3>2. PathRule(a) \in db'.rows /\ PathRule(a).app = a /\ PathRule(a).digest = files[a]
      BY <3>1 DEF Lock, PathRule
    <3> QED BY <2>2, <2>3, <3>2 DEF Concrete, Installed
  <2>4. CASE ui.op = "unlock"
    <3>1. db'.rows = Unlock(db.rows, ui.apps)
      BY <2>2, <2>4 DEF NewRows
    <3> QED BY <2>4, <3>1 DEF Unlock
  <2>5. CASE ui.op = "unlock_all"
    <3>1. db'.rows = {}
      BY <2>2, <2>5 DEF NewRows
    <3> QED BY <2>5, <3>1
  <2> QED BY <2>2, <2>3, <2>4, <2>5 DEF IInv, Types, AnyFrame
<1> QED BY <1>1, Initially, Inductive, PTL DEF Spec, WholeBatch
=============================================================================
