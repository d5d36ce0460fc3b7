----------------------------- MODULE AuditChain -----------------------------
(* The security log (security/audit.py): each row carries an HMAC over its    *)
(* contents and the HMAC of the row before it, the last one is kept in the    *)
(* settings as the head.  The threads of the program append to it in          *)
(* transactions of the database; it is verified before every append and at    *)
(* every start.  A log that an earlier version left has no HMACs.             *)
EXTENDS Naturals, Sequences, FiniteSets

CONSTANTS
  Threads,     \* those that log events
  Raw,         \* the details that callers pass, as sequences of characters
  Characters,
  Blank,       \* the one that separates words
  Width,       \* the length that details are cut to
  OldLogs,     \* what an earlier version may have left: sequences of details
  MaxRows,     \* bound on the length of the log
  MayFail      \* may a statement or the key fail?

ASSUME DetailsAssumption ==
  /\ Width \in Nat
  /\ Raw \subseteq Seq(Characters)
  /\ OldLogs \subseteq Seq(Seq(Characters))
ASSUME BoundsAssumption == MaxRows \in Nat /\ MayFail \in BOOLEAN

VARIABLES
  db,      \* what is committed
  tx,      \* t -> the transaction of log_security_event that t is in
  phase    \* of the program

vars == <<db, tx, phase>>

-----------------------------------------------------------------------------
(* _sanitize_details: words are separated by one blank, then the text is cut  *)

\* The positions of s that are kept: words, and the first blank after one if another
\* word follows.
Kept(s) ==
  {i \in DOMAIN s : s[i] # Blank
     \/ (i > 1 /\ s[i-1] # Blank /\ \E k \in DOMAIN s : k > i /\ s[k] # Blank)}
Joined(s) ==
  [n \in 1..Cardinality(Kept(s)) |->
     s[CHOOSE i \in Kept(s) : Cardinality({j \in Kept(s) : j <= i}) = n]]
Sanitize(s) ==
  LET cleaned == Joined(s)
  IN  IF Len(cleaned) <= Width THEN cleaned ELSE SubSeq(cleaned, 1, Width)

-----------------------------------------------------------------------------
(* HMACs.  Different contents have different ones: that of a row is the list   *)
(* of what it and the rows before it contain; no list is the empty string.     *)

Empty == <<>>
Mac(previous, details) == Append(previous, details)
HeadIs(mac) == [there |-> TRUE, mac |-> mac]
NoHead == [there |-> FALSE, mac |-> Empty]

Last(rows) == IF rows = <<>> THEN Empty ELSE rows[Len(rows)].mac
Previous(rows, n) == IF n = 1 THEN Empty ELSE rows[n-1].mac

\* The entries follow from one another, as verify_audit_integrity reads them.
Chained(rows) ==
  \A n \in DOMAIN rows : rows[n].mac = Mac(Previous(rows, n), Sanitize(rows[n].details))

Legacy(d) == ~d.head.there /\ \A n \in DOMAIN d.rows : d.rows[n].mac = Empty

\* refresh_audit_integrity
Refreshed(d) ==
  LET mac == [n \in DOMAIN d.rows |-> [i \in 1..n |-> Sanitize(d.rows[i].details)]]
      rows == [n \in DOMAIN d.rows |-> [d.rows[n] EXCEPT !.mac = mac[n]]]
  IN  [rows |-> rows, head |-> HeadIs(Last(rows))]

\* Does verify_audit_integrity accept the log, and what does it leave?
Accepts(d) ==
  \/ Legacy(d)
  \/ d.head.there /\ Chained(d.rows) /\ d.head.mac = Last(d.rows)
Verified(d) == IF Legacy(d) THEN Refreshed(d) ELSE d

-----------------------------------------------------------------------------
OldRows(log) == [n \in DOMAIN log |-> [details |-> log[n], mac |-> Empty]]

\* No transaction; else step is the statement that comes next, work the database as the
\* transaction sees it and event what it appends.
NoTx == [step |-> "none", work |-> [rows |-> <<>>, head |-> NoHead], event |-> Empty]

Init ==
  /\ \E log \in OldLogs : db = [rows |-> OldRows(log), head |-> NoHead]
  /\ tx = [t \in Threads |-> NoTx]
  /\ phase = "down"

-----------------------------------------------------------------------------
(* Start: init_db verifies, and commits what verifying wrote unless something   *)
(* else of it fails; then __init__ verifies again, without a transaction.       *)

Boot ==
  /\ phase = "down"
  /\ \/ Accepts(db) /\ db' = Verified(db)
     \/ (MayFail \/ ~Accepts(db)) /\ UNCHANGED db
  /\ phase' = IF Accepts(db') THEN "up" ELSE "refused"
  /\ UNCHANGED tx

\* The program exits or dies: open transactions never happened.
Ends ==
  /\ phase # "down"
  /\ phase' = "down"
  /\ tx' = [t \in Threads |-> NoTx]
  /\ UNCHANGED db

-----------------------------------------------------------------------------
(* log_security_event *)

At(t, step) == tx[t].step = step
Goto(t, step, work) == tx' = [tx EXCEPT ![t].step = step, ![t].work = work]
Leave(t) == tx' = [tx EXCEPT ![t] = NoTx]

\* Mutant: BEGIN without IMMEDIATE, and no _WRITE_LOCK.
BeginDeferred(t, raw) ==
  /\ phase = "up"
  /\ Len(db.rows) < MaxRows
  /\ At(t, "none")
  /\ tx' = [tx EXCEPT ![t] = [step |-> "verify", work |-> db, event |-> Sanitize(raw)]]
  /\ UNCHANGED <<db, phase>>

\* write_connection: the lock of the process, then BEGIN IMMEDIATE.
Begin(t, raw) ==
  /\ phase = "up"
  /\ Len(db.rows) < MaxRows
  /\ \A u \in Threads : At(u, "none")
  /\ tx' = [tx EXCEPT ![t] = [step |-> "verify", work |-> db, event |-> Sanitize(raw)]]
  /\ UNCHANGED <<db, phase>>

Verify(t) ==
  /\ At(t, "verify")
  /\ Accepts(tx[t].work)
  /\ Goto(t, "insert", Verified(tx[t].work))
  /\ UNCHANGED <<db, phase>>

NewRow(t) == [details |-> tx[t].event, mac |-> Mac(tx[t].work.head.mac, tx[t].event)]
Inserted(t) == [tx[t].work EXCEPT !.rows = Append(@, NewRow(t))]

\* Mutant: the row is committed by itself.
InsertAutocommit(t) ==
  /\ At(t, "insert")
  /\ Goto(t, "head", Inserted(t))
  /\ db' = Inserted(t)
  /\ UNCHANGED phase

Insert(t) ==
  /\ At(t, "insert")
  /\ Goto(t, "head", Inserted(t))
  /\ UNCHANGED <<db, phase>>

WriteHead(t) ==
  /\ At(t, "head")
  /\ Goto(t, "commit", [tx[t].work EXCEPT !.head = HeadIs(Last(tx[t].work.rows))])
  /\ UNCHANGED <<db, phase>>

Commit(t) ==
  /\ At(t, "commit")
  /\ db' = tx[t].work
  /\ Leave(t)
  /\ UNCHANGED phase

\* An exception: the transaction is rolled back and the event lost; the caller, which
\* does not learn of it, goes on.
Fail(t) ==
  /\ ~At(t, "none")
  /\ MayFail \/ (At(t, "verify") /\ ~Accepts(tx[t].work))
  /\ Leave(t)
  /\ UNCHANGED <<db, phase>>

-----------------------------------------------------------------------------
Log(t) ==
  \/ \E raw \in Raw : Begin(t, raw)
  \/ Verify(t) \/ Insert(t) \/ WriteHead(t) \/ Commit(t) \/ Fail(t)

Next == Boot \/ Ends \/ \E t \in Threads : Log(t)

Spec == Init /\ [][Next]_vars
-----------------------------------------------------------------------------
(* Properties *)

Details == {Sanitize(raw) : raw \in Raw} \union UNION {{log[n] : n \in DOMAIN log} : log \in OldLogs}
Macs == Seq(Details \union {Sanitize(d) : d \in Details})
Logs == [rows : Seq([details : Details, mac : Macs]), head : [there : BOOLEAN, mac : Macs]]
Steps == {"none", "verify", "insert", "head", "commit"}

\* Besides the types: only a running program is in a transaction, and one thread at a time.
TypeOK ==
  /\ db \in Logs
  /\ tx \in [Threads -> [step : Steps, work : Logs, event : Details \union {Empty}]]
  /\ phase \in {"down", "up", "refused"}
  /\ \A t \in Threads : ~At(t, "none") => phase = "up" /\ \A u \in Threads \ {t} : At(u, "none")

\* The log is in order in every committed state, whoever appended to it,
\* whatever failed and wherever the program died, also while an old log is taken over.
ChainHolds == Accepts(db)

Contents(rows) == [n \in DOMAIN rows |-> rows[n].details]

\* Nothing that is in the log ever leaves it or changes, and a transaction adds one row.
AppendOnly ==
  [][LET old == Contents(db.rows) new == Contents(db'.rows)
     IN  /\ Len(new) \in {Len(old), Len(old) + 1}
         /\ SubSeq(new, 1, Len(old)) = old]_vars

\* AuditIntegrityError is "raised when the audit trail has been modified outside the app"
\* (security/audit.py 15), which nothing does here.
RefusedOnlyIfModified == phase # "refused"
=============================================================================
