---------------------------- MODULE FileIdentity ----------------------------
(* Which executable is it?  file_sha256 (app_utils/file_identity.py) hashes a *)
(* file and keeps the digest under its path, with the stamp the file had:      *)
(* size, modification and creation time.  The UI thread hashes a file to lock  *)
(* it and before it launches it, the monitor thread when a process starts from *)
(* it, while installers and updaters write, move and remove files.  An action  *)
(* is what happens between two looks at the file, the clock or the cache.      *)
EXTENDS Integers, FiniteSets

CONSTANTS
  Paths,       \* where executables are
  Contents,    \* what a file can contain
  NoDigest,    \* the answer "" for a file that is not there or cannot be read
  Ttl,         \* _CACHE_TTL_SECONDS
  MaxTime,     \* bound on the clock
  MaxStamps,   \* bound on the number of file versions
  MayReturn    \* may a file that was moved away come back, with its stamp?

ASSUME FilesAssumption ==
  /\ NoDigest \notin Contents
  /\ Ttl \in Nat /\ MaxTime \in Nat /\ MaxStamps \in Nat
  /\ MayReturn \in BOOLEAN

VARIABLES
  file,        \* path -> the version of the file there
  away,        \* path -> one that was moved away from there
  stamps,      \* the number of versions made
  clock,       \* time.time()
  cache,       \* _HASH_CACHE
  call,        \* thread -> its call of file_sha256
  rule,        \* path -> the rule for it: its digest, and (history) the stamp at locking
  since,       \* history: path -> when the file there changed last
  returned     \* history: the paths where a stamp has come back

disk == <<file, away, stamps, since, returned>>
vars == <<disk, clock, cache, call, rule>>

-----------------------------------------------------------------------------
Threads == {"ui", "monitor"}

\* SHA-256 tells contents apart: a digest is the contents that were read.
Version == [stamp : 1..MaxStamps, contents : Contents]
NoFile == [stamp |-> 0, contents |-> NoDigest]

Entry == [stamp : 1..MaxStamps, digest : Contents, at : 0..MaxTime]
NoEntry == [stamp |-> 0, digest |-> NoDigest, at |-> 0]

Rule == [digest : Contents, stamp : 1..MaxStamps]
NoRule == [digest |-> NoDigest, stamp |-> 0]

\* A call on behalf of an operation, which compares the answer with what it expects.
Idle == [pc |-> "idle"]
Call == [pc : {"stat", "lookup", "open", "read", "answered"},
         operation : {"lock", "match", "launch"}, path : Paths,
         expected : Rule \union {NoRule},
         stamp : 0..MaxStamps, now : 0..MaxTime,
         opened : 0..MaxStamps, digest : Contents \union {NoDigest},
         failed : BOOLEAN]   \* history: an OSError although the file is there

Calling(operation, p, expected) ==
  [pc |-> "stat", operation |-> operation, path |-> p, expected |-> expected,
   stamp |-> 0, now |-> 0, opened |-> 0, digest |-> NoDigest, failed |-> FALSE]

Init ==
  /\ file = [p \in Paths |-> NoFile]
  /\ away = file
  /\ stamps = 0
  /\ clock = 0
  /\ cache = [p \in Paths |-> NoEntry]
  /\ call = [t \in Threads |-> Idle]
  /\ rule = [p \in Paths |-> NoRule]
  /\ since = [p \in Paths |-> 0]
  /\ returned = {}

-----------------------------------------------------------------------------
(* Files and time *)

\* A file is installed, or updated over the old one or in it.
Write(p, contents) ==
  /\ stamps < MaxStamps
  /\ stamps' = stamps + 1
  /\ file' = [file EXCEPT ![p] = [stamp |-> stamps', contents |-> contents]]
  /\ since' = [since EXCEPT ![p] = clock]
  /\ UNCHANGED <<away, returned, clock, cache, call, rule>>

MoveAway(p) ==
  /\ file[p] # NoFile
  /\ file' = [file EXCEPT ![p] = NoFile]
  /\ away' = [away EXCEPT ![p] = file[p]]
  /\ since' = [since EXCEPT ![p] = clock]
  /\ UNCHANGED <<stamps, returned, clock, cache, call, rule>>

MoveBack(p) ==
  /\ MayReturn
  /\ away[p] # NoFile
  /\ file' = [file EXCEPT ![p] = away[p]]
  /\ away' = [away EXCEPT ![p] = NoFile]
  /\ since' = [since EXCEPT ![p] = clock]
  /\ returned' = returned \union {p}
  /\ UNCHANGED <<stamps, clock, cache, call, rule>>

Tick ==
  /\ clock < MaxTime
  /\ clock' = clock + 1
  /\ UNCHANGED <<disk, cache, call, rule>>

-----------------------------------------------------------------------------
(* file_sha256 *)

In(t, pc) == call[t].pc = pc
Answer(t, digest) ==
  call' = [call EXCEPT ![t].pc = "answered", ![t].now = 0, ![t].opened = 0, ![t].digest = digest]
Here(t) == file[call[t].path]

\* stat, open or read raises an OSError: there is no file, or another program has it open
\* for itself, or access is denied.  The answer is "", and nothing is cached.
OSError(t) ==
  call' = [call EXCEPT ![t].pc = "answered", ![t].now = 0, ![t].opened = 0,
                       ![t].digest = NoDigest, ![t].failed = Here(t) # NoFile]

Stat(t) ==
  /\ In(t, "stat")
  /\ \/ /\ Here(t) # NoFile
        /\ call' = [call EXCEPT ![t].pc = "lookup", ![t].stamp = Here(t).stamp]
     \/ OSError(t)
  /\ UNCHANGED <<disk, clock, cache, rule>>

\* Mutant: the cache is asked by path and age alone.
FreshUnstamped(entry, stamp) == clock - entry.at < Ttl

Fresh(entry, stamp) == entry.stamp = stamp /\ clock - entry.at < Ttl

\* time.time() and the look into the cache; the lock is never held for long.
LookUp(t) ==
  /\ In(t, "lookup")
  /\ LET entry == cache[call[t].path]
     IN  IF entry # NoEntry /\ Fresh(entry, call[t].stamp)
         THEN Answer(t, entry.digest)
         ELSE call' = [call EXCEPT ![t].pc = "open", ![t].now = clock]
  /\ UNCHANGED <<disk, clock, cache, rule>>

Open(t) ==
  /\ In(t, "open")
  /\ \/ /\ Here(t) # NoFile
        /\ call' = [call EXCEPT ![t].pc = "read", ![t].opened = Here(t).stamp]
     \/ OSError(t)
  /\ UNCHANGED <<disk, clock, cache, rule>>

\* Who reads a file that is written or replaced meanwhile may have read some of the one
\* and some of the other.
MayHaveRead(t) == IF Here(t).stamp = call[t].opened THEN {Here(t).contents} ELSE Contents

\* Mutant: the age of an entry counts from the end of the hashing.
CachedLate(c, digest) == [stamp |-> c.stamp, digest |-> digest, at |-> clock]

Cached(c, digest) == [stamp |-> c.stamp, digest |-> digest, at |-> c.now]

\* The last block is read, and the digest goes into the cache; or some block cannot be read.
Read(t) ==
  /\ In(t, "read")
  /\ \/ \E digest \in MayHaveRead(t) :
          /\ cache' = [cache EXCEPT ![call[t].path] = Cached(call[t], digest)]
          /\ Answer(t, digest)
     \/ OSError(t) /\ UNCHANGED cache
  /\ UNCHANGED <<disk, clock, rule>>

-----------------------------------------------------------------------------
(* What it is asked for.  A call on behalf of a rule compares the answer with    *)
(* the digest the rule had when the call began (matches_expected_sha256).        *)

Begin(t, operation, p, expected) ==
  /\ In(t, "idle")
  /\ call' = [call EXCEPT ![t] = Calling(operation, p, expected)]
  /\ UNCHANGED <<disk, clock, cache, rule>>

Answered(t, operation) == In(t, "answered") /\ call[t].operation = operation
Differs(c) == c.digest # c.expected.digest
Return(t) == call' = [call EXCEPT ![t] = Idle]

LockApp(p) == Begin("ui", "lock", p, NoRule)

\* Mutant: an application whose file cannot be read is locked all the same.
AppLockedAnyway ==
  /\ Answered("ui", "lock")
  /\ LET c == call["ui"]
     IN  rule' = [rule EXCEPT ![c.path] = [digest |-> c.digest, stamp |-> c.stamp]]
  /\ Return("ui")
  /\ UNCHANGED <<disk, clock, cache>>

\* lock_apps inserts or updates the rule, or raises when there is no digest.
AppLocked ==
  /\ Answered("ui", "lock")
  /\ LET c == call["ui"]
     IN  rule' = IF c.digest = NoDigest THEN rule
                 ELSE [rule EXCEPT ![c.path] = [digest |-> c.digest, stamp |-> c.stamp]]
  /\ Return("ui")
  /\ UNCHANGED <<disk, clock, cache>>

UnlockApp(p) ==
  /\ In("ui", "idle")
  /\ rule' = [rule EXCEPT ![p] = NoRule]
  /\ UNCHANGED <<disk, clock, cache, call>>

\* A process has started from p: one to ask about, or with an integrity issue.
MatchLockedApp(p) == rule[p] # NoRule /\ Begin("monitor", "match", p, rule[p])

\* The password was right: the application is launched, or blocked because the
\* executable has changed.
LaunchAllowedApp(p) ==
  /\ rule[p] # NoRule
  /\ file[p] # NoFile
  /\ Begin("ui", "launch", p, rule[p])

Decided(t) ==
  /\ Answered(t, "match") \/ Answered(t, "launch")
  /\ Return(t)
  /\ UNCHANGED <<disk, clock, cache, rule>>

-----------------------------------------------------------------------------
Environment ==
  \/ \E p \in Paths, contents \in Contents : Write(p, contents)
  \/ \E p \in Paths : MoveAway(p) \/ MoveBack(p)
  \/ Tick

FileSha256(t) == Stat(t) \/ LookUp(t) \/ Open(t) \/ Read(t)

Operations ==
  \/ \E p \in Paths : LockApp(p) \/ UnlockApp(p) \/ MatchLockedApp(p) \/ LaunchAllowedApp(p)
  \/ AppLocked
  \/ \E t \in Threads : Decided(t)

Next == Environment \/ (\E t \in Threads : FileSha256(t)) \/ Operations

Spec == Init /\ [][Next]_vars
-----------------------------------------------------------------------------
(* Properties *)

TypeOK ==
  /\ {file, away} \subseteq [Paths -> Version \union {NoFile}]
  /\ stamps \in 0..MaxStamps /\ clock \in 0..MaxTime
  /\ cache \in [Paths -> Entry \union {NoEntry}]
  /\ call \in [Threads -> Call \union {Idle}]
  /\ rule \in [Paths -> Rule \union {NoRule}]
  /\ since \in [Paths -> 0..MaxTime]
  /\ returned \subseteq Paths

\* When the file could be read, a protected executable is reported as one that "no longer
\* matches the file that was originally locked" (process_monitor.py 539), and its launch is
\* blocked, only when it is another file than the one that was found when it was locked,
\* however updates, the two threads, their cache entries and earlier failures to read it
\* interleave: unless a file has come back with the stamp it had before.  A call that could
\* not read the file that is there reports it as changed: that is the code (line 82).
IssueMeansChanged ==
  \A t \in Threads :
    LET c == call[t]
    IN  /\ Answered(t, "match") \/ Answered(t, "launch")
        /\ Differs(c) /\ ~c.failed
        /\ c.path \notin returned
        => file[c.path].stamp # c.expected.stamp

\* Also where files are swapped and swapped back, a wrong digest is forgotten, and so is a
\* failure: a file that has not changed for _CACHE_TTL_SECONDS when it is asked for is
\* answered with its own digest by every call that does not itself fail to read it.
ErrorsWearOff ==
  [][\A t \in Threads :
       LET asked == IF In(t, "lookup") THEN clock ELSE call[t].now
       IN  /\ call'[t].pc = "answered" /\ ~In(t, "answered") /\ ~call'[t].failed
           /\ since[call[t].path] + Ttl <= asked
           => call'[t].digest = Here(t).contents]_vars
=============================================================================
