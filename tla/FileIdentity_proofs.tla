------------------------- MODULE FileIdentity_proofs -------------------------
(* Theorems about the identity of executables, for any number of paths,       *)
(* contents, versions and ticks, with their proofs.                           *)
EXTENDS FileIdentity, TLAPS

-----------------------------------------------------------------------------
(* The inductive invariant                                                    *)

\* The version with this stamp has been at p since it was seen there.
Still(p, stamp) == p \notin returned /\ stamp # 0 /\ file[p].stamp = stamp

\* What is kept about a path.  A stamp that was seen is not that of a version still to come;
\* what the cache and the rule say of the version that is still there is true; so is what
\* the cache says when the file has not changed since the entry's time, whatever the stamps.
PathSound(p) ==
  /\ {file[p].stamp, away[p].stamp, cache[p].stamp, rule[p].stamp} \subseteq 0..stamps
  /\ Still(p, cache[p].stamp) => cache[p].digest = file[p].contents
  /\ Still(p, rule[p].stamp) => rule[p].digest = file[p].contents
  /\ since[p] <= clock /\ cache[p].at <= clock
  /\ since[p] < cache[p].at => cache[p].digest = file[p].contents

\* What a call of file_sha256 has found out.  If the version that was locked is still there,
\* it is the one the call has found; if that one is still there, it is the one that was
\* opened, and the answer is right; and so without stamps if the file has not changed since
\* the call looked into the cache.  A call that has failed is answered with no digest.
CallSound(c) ==
  /\ c.stamp <= stamps /\ c.expected.stamp <= stamps
  /\ c.pc \in {"lookup", "open", "read"} => c.stamp # 0
  /\ c.pc = "read" => c.opened # 0
  /\ c.pc = "answered" /\ c.digest # NoDigest => c.stamp # 0
  /\ c.failed => c.pc = "answered" /\ c.digest = NoDigest
  /\ c.operation # "lock" => c.expected # NoRule
  /\ Still(c.path, c.expected.stamp) =>
       /\ c.expected.digest = file[c.path].contents
       /\ c.pc # "stat" /\ ~c.failed => c.stamp = c.expected.stamp
  /\ Still(c.path, c.stamp) =>
       /\ c.pc = "read" => c.opened = c.stamp
       /\ c.pc = "answered" /\ ~c.failed => c.digest = file[c.path].contents
  /\ c.pc \in {"open", "read"} => c.now <= clock
  /\ c.pc = "read" /\ since[c.path] < c.now => c.opened = file[c.path].stamp

IInv ==
  /\ TypeOK
  /\ \A p \in Paths : PathSound(p)
  /\ \A t \in Threads : ~In(t, "idle") => CallSound(call[t])

-----------------------------------------------------------------------------
(* The fields of what is kept                                                 *)

LEMMA PathFields ==
  ASSUME TypeOK, NEW p \in Paths
  PROVE  /\ file[p] \in Version \union {NoFile} /\ away[p] \in Version \union {NoFile}
         /\ file[p].stamp \in 0..MaxStamps /\ away[p].stamp \in 0..MaxStamps
         /\ file[p] = NoFile <=> file[p].stamp = 0
         /\ file[p] # NoFile => file[p].contents \in Contents
         /\ file[p] = NoFile => file[p].contents = NoDigest
         /\ cache[p].stamp \in 0..MaxStamps /\ cache[p].at \in 0..MaxTime
         /\ cache[p] # NoEntry => cache[p].digest \in Contents
         /\ rule[p].stamp \in 0..MaxStamps /\ rule[p] # NoRule => rule[p].stamp # 0
         /\ since[p] \in 0..MaxTime
<1> USE FilesAssumption DEF NoFile, NoEntry, NoRule
<1>1. /\ file[p] \in Version \union {NoFile} /\ away[p] \in Version \union {NoFile}
      /\ cache[p] \in Entry \union {NoEntry} /\ rule[p] \in Rule \union {NoRule}
      /\ since[p] \in 0..MaxTime
  BY DEF TypeOK
<1>2. \A v \in Version : v.stamp \in 1..MaxStamps /\ v.contents \in Contents
  BY DEF Version
<1>3. \A e \in Entry : e.stamp \in 1..MaxStamps /\ e.digest \in Contents /\ e.at \in 0..MaxTime
  BY DEF Entry
<1>4. \A r \in Rule : r.stamp \in 1..MaxStamps /\ r.digest \in Contents
  BY DEF Rule
<1> QED BY <1>1, <1>2, <1>3, <1>4

LEMMA CallFields ==
  ASSUME NEW c \in Call
  PROVE  /\ c.pc \in {"stat", "lookup", "open", "read", "answered"} /\ c.pc # "idle"
         /\ c.operation \in {"lock", "match", "launch"} /\ c.path \in Paths
         /\ c.expected \in Rule \union {NoRule}
         /\ c.expected.stamp \in 0..MaxStamps /\ (c.expected # NoRule => c.expected.stamp # 0)
         /\ c.stamp \in 0..MaxStamps /\ c.now \in 0..MaxTime /\ c.opened \in 0..MaxStamps
         /\ c.digest \in Contents \union {NoDigest} /\ c.failed \in BOOLEAN
<1>1. \A r \in Rule \union {NoRule} : r.stamp \in 0..MaxStamps /\ (r # NoRule => r.stamp # 0)
  BY FilesAssumption DEF Rule, NoRule
<1> QED BY <1>1 DEF Call

LEMMA CallOrIdle ==
  ASSUME TypeOK, NEW t \in Threads
  PROVE  /\ In(t, "idle") => call[t] = Idle
         /\ ~In(t, "idle") => call[t] \in Call
<1>1. call[t] \in Call \union {Idle} /\ Idle.pc = "idle"
  BY DEF TypeOK, Idle
<1> QED BY <1>1, CallFields DEF In

-----------------------------------------------------------------------------
(* The steps keep it                                                          *)

\* The file at p becomes v.
ChangesTo(p, v) ==
  /\ v \in Version \union {NoFile}
  /\ file' = [file EXCEPT ![p] = v]
  /\ since' = [since EXCEPT ![p] = clock]
  /\ stamps' \in stamps..MaxStamps
  /\ v.stamp <= stamps'
  /\ v.stamp = 0 \/ v.stamp > stamps \/ p \in returned'
  /\ returned \subseteq returned' /\ returned' \subseteq Paths
  /\ away' \in [Paths -> Version \union {NoFile}]
  /\ \A q \in Paths : away'[q].stamp <= stamps
  /\ UNCHANGED <<clock, cache, call, rule>>

LEMMA ChangeKeeps ==
  ASSUME IInv, NEW p \in Paths, NEW v, ChangesTo(p, v)
  PROVE  IInv'
<1> USE FilesAssumption
<1>1. /\ TypeOK /\ stamps \in 0..MaxStamps /\ clock \in 0..MaxTime
      /\ stamps' \in 0..MaxStamps /\ stamps <= stamps'
      /\ UNCHANGED <<clock, cache, call, rule>>
  BY DEF IInv, TypeOK, ChangesTo
<1>2. /\ file' \in [Paths -> Version \union {NoFile}] /\ since' \in [Paths -> 0..MaxTime]
      /\ file'[p] = v /\ since'[p] = clock
      /\ \A q \in Paths \ {p} : file'[q] = file[q] /\ since'[q] = since[q]
  BY <1>1 DEF ChangesTo, TypeOK
<1>3. TypeOK'
  BY <1>1, <1>2 DEF TypeOK, ChangesTo
<1>4. ASSUME NEW q \in Paths, NEW n \in 0..stamps
      PROVE  /\ Still(q, n)' => Still(q, n) /\ q # p /\ file'[q] = file[q]
  BY <1>1, <1>2 DEF Still, ChangesTo
<1>5. ASSUME NEW q \in Paths, NEW n \in 0..MaxTime, n <= clock
      PROVE  since'[q] < n => since[q] < n /\ file'[q] = file[q]
  <2>1. CASE q = p
    <3>1. ~(since'[p] < n)
      BY <1>1, <1>2, <1>5
    <3> QED BY <2>1, <3>1
  <2>2. CASE q # p
    BY <1>2, <2>2
  <2> QED BY <2>1, <2>2
<1>6. ASSUME NEW q \in Paths PROVE PathSound(q)'
  <2>1. PathSound(q)
    BY DEF IInv
  <2>2. /\ cache[q].stamp \in 0..stamps /\ rule[q].stamp \in 0..stamps
        /\ cache[q].at \in 0..MaxTime /\ cache[q].at <= clock
        /\ file[q].stamp \in 0..MaxStamps /\ file[q].stamp <= stamps
    BY <1>1, <2>1, PathFields DEF PathSound
  <2>3. file'[q].stamp \in 0..stamps'
    <3>1. v.stamp \in 0..MaxStamps
      BY DEF ChangesTo, Version, NoFile
    <3> QED BY <1>1, <1>2, <2>2, <3>1 DEF ChangesTo
  <2>4. away'[q].stamp \in 0..stamps'
    <3>1. away'[q].stamp \in 0..MaxStamps
      BY <1>3, <1>2 DEF TypeOK, Version, NoFile
    <3> QED BY <1>1, <3>1 DEF ChangesTo
  <2>5. since'[q] <= clock
    BY <1>1, <1>2, <2>1 DEF PathSound
  <2>6. {file'[q].stamp, away'[q].stamp, cache[q].stamp, rule[q].stamp} \subseteq 0..stamps'
    BY <1>1, <2>2, <2>3, <2>4
  <2> QED BY <1>1, <1>4, <1>5, <2>1, <2>2, <2>5, <2>6 DEF PathSound
<1>7. ASSUME NEW t \in Threads, ~In(t, "idle") PROVE CallSound(call[t])'
  <2>1. CallSound(call[t]) /\ call[t] \in Call
    BY <1>1, <1>7, CallOrIdle DEF IInv
  <2> DEFINE c == call[t]
  <2>2. /\ c.path \in Paths /\ c.stamp \in 0..stamps /\ c.expected.stamp \in 0..stamps
        /\ c.now \in 0..MaxTime
    BY <1>1, <2>1, CallFields DEF CallSound
  <2> HIDE DEF c
  <2>3. CallSound(c)
    BY <2>1 DEF c
  <2>4. c' = c
    BY <1>1 DEF c
  <2>5. CallSound(c)'
    BY <1>1, <1>4, <1>5, <2>2, <2>3, <2>4 DEF CallSound
  <2> QED BY <2>5 DEF c
<1> QED BY <1>1, <1>3, <1>6, <1>7 DEF IInv, In

LEMMA EnvironmentKeeps ==
  ASSUME IInv, Environment
  PROVE  IInv'
<1> USE FilesAssumption
<1>1. TypeOK /\ stamps \in 0..MaxStamps /\ clock \in 0..MaxTime /\ returned \subseteq Paths
  BY DEF IInv, TypeOK
<1>2. away \in [Paths -> Version \union {NoFile}] /\ \A q \in Paths : away[q].stamp <= stamps
  BY <1>1 DEF IInv, TypeOK, PathSound
<1>3. ASSUME NEW p \in Paths, NEW contents \in Contents, Write(p, contents) PROVE IInv'
  <2> DEFINE v == [stamp |-> stamps + 1, contents |-> contents]
  <2>1. v \in Version /\ v.stamp = stamps + 1 /\ stamps' = stamps + 1 /\ stamps' \in stamps..MaxStamps
    BY <1>1, <1>3 DEF Write, Version
  <2>2. file' = [file EXCEPT ![p] = v]
    BY <1>3 DEF Write
  <2> HIDE DEF v
  <2>3. ChangesTo(p, v)
    <3>1. v.stamp <= stamps' /\ v.stamp > stamps
      BY <1>1, <2>1
    <3>2. /\ since' = [since EXCEPT ![p] = clock]
          /\ UNCHANGED <<away, returned, clock, cache, call, rule>>
      BY <1>3 DEF Write
    <3> QED BY <1>1, <1>2, <2>1, <2>2, <3>1, <3>2 DEF ChangesTo
  <2> QED BY <2>3, ChangeKeeps
<1>4. ASSUME NEW p \in Paths, MoveAway(p) PROVE IInv'
  <2>1. away' \in [Paths -> Version \union {NoFile}] /\ \A q \in Paths : away'[q].stamp <= stamps
    <3>1. file[p] \in Version \union {NoFile} /\ file[p].stamp <= stamps
      BY <1>1, PathFields DEF IInv, PathSound
    <3> QED BY <1>2, <1>4, <3>1 DEF MoveAway
  <2>2. NoFile.stamp = 0 /\ NoFile \in Version \union {NoFile}
    BY DEF NoFile
  <2>3. ChangesTo(p, NoFile)
    BY <1>1, <1>4, <2>1, <2>2 DEF ChangesTo, MoveAway
  <2> QED BY <2>3, ChangeKeeps
<1>5. ASSUME NEW p \in Paths, MoveBack(p) PROVE IInv'
  <2>1. NoFile.stamp = 0
    BY DEF NoFile
  <2>2. away' \in [Paths -> Version \union {NoFile}] /\ \A q \in Paths : away'[q].stamp <= stamps
    BY <1>1, <1>2, <1>5, <2>1 DEF MoveBack
  <2>3. ChangesTo(p, away[p])
    BY <1>1, <1>2, <1>5, <2>2 DEF ChangesTo, MoveBack
  <2> QED BY <2>3, ChangeKeeps
<1>6. ASSUME Tick PROVE IInv'
  <2>1. /\ clock' = clock + 1 /\ clock' \in 0..MaxTime
        /\ UNCHANGED <<file, away, stamps, since, returned, cache, call, rule>>
    BY <1>1, <1>6 DEF Tick, disk
  <2>2. TypeOK'
    BY <1>1, <2>1 DEF TypeOK
  <2>3. ASSUME NEW q \in Paths PROVE PathSound(q)'
    BY <1>1, <2>1, PathFields DEF IInv, PathSound, Still
  <2>4. ASSUME NEW t \in Threads, ~In(t, "idle") PROVE CallSound(call[t])'
    <3>1. CallSound(call[t]) /\ call[t].now \in 0..MaxTime
      BY <1>1, <2>4, CallOrIdle, CallFields DEF IInv
    <3> QED BY <1>1, <2>1, <3>1 DEF CallSound, Still
  <2> QED BY <2>1, <2>2, <2>3, <2>4 DEF IInv, In
<1> QED BY <1>3, <1>4, <1>5, <1>6 DEF Environment

\* The call of t becomes c, which is sound.
LEMMA CallBecomes ==
  ASSUME IInv, NEW t \in Threads, NEW c, c = Idle \/ (c \in Call /\ CallSound(c)),
         call' = [call EXCEPT ![t] = c], UNCHANGED <<disk, clock>>
  PROVE  /\ call' \in [Threads -> Call \union {Idle}]
         /\ \A u \in Threads : ~In(u, "idle")' => CallSound(call[u])'
<1>1. TypeOK
  BY DEF IInv
<1>2. /\ call' \in [Threads -> Call \union {Idle}] /\ call'[t] = c
      /\ \A u \in Threads \ {t} : call'[u] = call[u]
  BY <1>1 DEF TypeOK
<1>3. UNCHANGED <<file, away, stamps, since, returned, clock>>
  BY DEF disk
<1>4. ASSUME NEW u \in Threads, ~In(u, "idle")' PROVE CallSound(call'[u])
  BY <1>2, <1>4 DEF IInv, In, Idle
<1>5. ASSUME NEW u \in Threads, CallSound(call'[u]) PROVE CallSound(call[u])'
  BY <1>3, <1>5 DEF CallSound, Still
<1> QED BY <1>2, <1>4, <1>5

LEMMA OnlyCall ==
  ASSUME IInv, NEW t \in Threads, NEW c, c = Idle \/ (c \in Call /\ CallSound(c)),
         call' = [call EXCEPT ![t] = c], UNCHANGED <<disk, clock, cache, rule>>
  PROVE  IInv'
<1>1. /\ call' \in [Threads -> Call \union {Idle}]
      /\ \A u \in Threads : ~In(u, "idle")' => CallSound(call[u])'
  BY CallBecomes
<1>2. UNCHANGED <<file, away, stamps, since, returned, clock, cache, rule>>
  BY DEF disk
<1>3. TypeOK'
  BY <1>1, <1>2 DEF IInv, TypeOK
<1>4. \A p \in Paths : PathSound(p)'
  BY <1>2 DEF IInv, PathSound, Still
<1> QED BY <1>1, <1>3, <1>4 DEF IInv

\* What is known of the call of t and of the file it is about.
LEMMA OfCall ==
  ASSUME IInv, NEW t \in Threads, ~In(t, "idle")
  PROVE  /\ call[t] \in Call /\ CallSound(call[t]) /\ call[t].path \in Paths
         /\ PathSound(call[t].path)
         /\ call[t].stamp \in 0..stamps /\ call[t].expected.stamp \in 0..stamps
         /\ Here(t).stamp \in 0..stamps /\ Here(t).stamp \in 0..MaxStamps
         /\ stamps \in 0..MaxStamps /\ clock \in 0..MaxTime
         /\ Here(t) # NoFile => Here(t).stamp # 0 /\ Here(t).contents \in Contents
         /\ Here(t) = NoFile => Here(t).stamp = 0 /\ Here(t).contents = NoDigest
<1>1. TypeOK /\ call[t] \in Call /\ CallSound(call[t])
  BY CallOrIdle DEF IInv
<1>2. call[t].path \in Paths
  BY <1>1, CallFields
<1>3. PathSound(call[t].path)
  BY <1>2 DEF IInv
<1> QED BY <1>1, <1>2, <1>3, CallFields, PathFields, FilesAssumption DEF CallSound, PathSound, Here, TypeOK

\* The call is answered: rightly, if the version it has found is still there.
LEMMA AnswerSound ==
  ASSUME IInv, NEW t \in Threads, call[t].pc \notin {"idle", "answered"}, NEW digest \in Contents \union {NoDigest},
         digest # NoDigest => call[t].stamp # 0,
         Still(call[t].path, call[t].stamp) => digest = Here(t).contents,
         Still(call[t].path, call[t].expected.stamp) => call[t].stamp = call[t].expected.stamp,
         Answer(t, digest)
  PROVE  \E c \in Call : CallSound(c) /\ call' = [call EXCEPT ![t] = c]
<1> DEFINE c == [call[t] EXCEPT !.pc = "answered", !.now = 0, !.opened = 0, !.digest = digest]
<1>1. call[t] \in Call /\ CallSound(call[t])
  BY OfCall DEF In
<1>2. call' = [call EXCEPT ![t] = c]
  BY DEF Answer, IInv, TypeOK
<1>3. 0 \in 0..MaxTime /\ 0 \in 0..MaxStamps
  BY FilesAssumption
<1>4. /\ c.pc = "answered" /\ c.operation = call[t].operation /\ c.path = call[t].path
      /\ c.expected = call[t].expected /\ c.stamp = call[t].stamp /\ c.digest = digest
      /\ c.failed = call[t].failed
      /\ c \in Call
  BY <1>1, <1>3 DEF Call
<1> HIDE DEF c
<1>5. CallSound(c)
  BY <1>1, <1>4 DEF CallSound, Here
<1> QED BY <1>2, <1>4, <1>5

\* The call fails: the version that was locked is not there, or it has failed over a file.
LEMMA OSErrorKeeps ==
  ASSUME IInv, NEW t \in Threads, call[t].pc \in {"stat", "open", "read"},
         OSError(t), UNCHANGED <<disk, clock, cache, rule>>
  PROVE  IInv'
<1> DEFINE c == [call[t] EXCEPT !.pc = "answered", !.now = 0, !.opened = 0,
                                !.digest = NoDigest, !.failed = Here(t) # NoFile]
<1>1. ~In(t, "idle")
  BY DEF In
<1>2. call[t] \in Call /\ CallSound(call[t])
  BY <1>1, OfCall
<1>3. call' = [call EXCEPT ![t] = c]
  BY DEF OSError, IInv, TypeOK
<1>4. 0 \in 0..MaxTime /\ 0 \in 0..MaxStamps
  BY FilesAssumption
<1>5. /\ c.pc = "answered" /\ c.operation = call[t].operation /\ c.path = call[t].path
      /\ c.expected = call[t].expected /\ c.stamp = call[t].stamp /\ c.digest = NoDigest
      /\ c.failed <=> Here(t) # NoFile
      /\ c \in Call
  BY <1>2, <1>4 DEF Call
<1> HIDE DEF c
<1>6. Here(t) = NoFile => ~Still(call[t].path, call[t].expected.stamp)
  BY <1>1, OfCall DEF Still, Here
<1>7. Here(t) = NoFile => ~Still(call[t].path, call[t].stamp)
  BY <1>1, OfCall DEF Still, Here
<1>8. CallSound(c)
  BY <1>2, <1>5, <1>6, <1>7 DEF CallSound
<1> QED BY <1>1, <1>3, <1>5, <1>8, OnlyCall

LEMMA StatKeeps ==
  ASSUME IInv, NEW t \in Threads, Stat(t)
  PROVE  IInv'
<1>1. /\ call[t].pc = "stat" /\ ~In(t, "idle")
      /\ UNCHANGED <<disk, clock, cache, rule>>
  BY DEF Stat, In
<1>2. CASE OSError(t)
  BY <1>1, <1>2, OSErrorKeeps
<1>3. CASE /\ Here(t) # NoFile
           /\ call' = [call EXCEPT ![t].pc = "lookup", ![t].stamp = Here(t).stamp]
  <2> DEFINE c == [call[t] EXCEPT !.pc = "lookup", !.stamp = Here(t).stamp]
  <2>1. call' = [call EXCEPT ![t] = c]
    BY <1>3 DEF IInv, TypeOK
  <2>2. call[t] \in Call /\ CallSound(call[t]) /\ Here(t).stamp \in 0..MaxStamps
    BY <1>1, OfCall
  <2>3. /\ c.pc = "lookup" /\ c.operation = call[t].operation /\ c.path = call[t].path
        /\ c.expected = call[t].expected /\ c.stamp = Here(t).stamp /\ c.failed = call[t].failed
        /\ c \in Call
    BY <2>2 DEF Call
  <2> HIDE DEF c
  <2>4. CallSound(c)
    BY <1>1, <1>3, <2>2, <2>3, OfCall DEF CallSound, Still, Here
  <2> QED BY <1>1, <2>1, <2>3, <2>4, OnlyCall
<1> QED BY <1>2, <1>3 DEF Stat

LEMMA LookUpKeeps ==
  ASSUME IInv, NEW t \in Threads, LookUp(t)
  PROVE  IInv'
<1> DEFINE entry == cache[call[t].path]
<1>1. /\ call[t].pc = "lookup" /\ ~In(t, "idle")
      /\ UNCHANGED <<disk, clock, cache, rule>>
  BY DEF LookUp, In
<1>2. /\ call[t] \in Call /\ CallSound(call[t]) /\ call[t].path \in Paths /\ PathSound(call[t].path)
      /\ TypeOK /\ clock \in 0..MaxTime
  BY <1>1, OfCall DEF IInv
<1>3. CASE entry # NoEntry /\ Fresh(entry, call[t].stamp)
  <2>1. Answer(t, entry.digest) /\ entry.stamp = call[t].stamp /\ entry.digest \in Contents
    BY <1>2, <1>3, PathFields DEF LookUp, Fresh
  <2>2. Still(call[t].path, call[t].stamp) => entry.digest = Here(t).contents
    BY <1>2, <2>1 DEF PathSound, Here
  <2>3. /\ call[t].stamp # 0
        /\ Still(call[t].path, call[t].expected.stamp) => call[t].stamp = call[t].expected.stamp
    BY <1>1, <1>2 DEF CallSound
  <2>4. PICK c \in Call : CallSound(c) /\ call' = [call EXCEPT ![t] = c]
    BY <1>1, <2>1, <2>2, <2>3, AnswerSound
  <2> QED BY <1>1, <2>4, OnlyCall
<1>4. CASE ~(entry # NoEntry /\ Fresh(entry, call[t].stamp))
  <2> DEFINE c == [call[t] EXCEPT !.pc = "open", !.now = clock]
  <2>1. call' = [call EXCEPT ![t] = c]
    BY <1>2, <1>4 DEF LookUp, TypeOK
  <2>2. /\ c.pc = "open" /\ c.operation = call[t].operation /\ c.path = call[t].path
        /\ c.expected = call[t].expected /\ c.stamp = call[t].stamp /\ c.now = clock
        /\ c.failed = call[t].failed /\ c \in Call
    BY <1>2 DEF Call
  <2> HIDE DEF c
  <2>3. CallSound(c)
    BY <1>1, <1>2, <2>2 DEF CallSound
  <2> QED BY <1>1, <2>1, <2>2, <2>3, OnlyCall
<1> QED BY <1>3, <1>4

LEMMA OpenKeeps ==
  ASSUME IInv, NEW t \in Threads, Open(t)
  PROVE  IInv'
<1>1. /\ call[t].pc = "open" /\ ~In(t, "idle")
      /\ UNCHANGED <<disk, clock, cache, rule>>
  BY DEF Open, In
<1>2. call[t] \in Call /\ CallSound(call[t]) /\ Here(t).stamp \in 0..MaxStamps
  BY <1>1, OfCall
<1>3. CASE OSError(t)
  BY <1>1, <1>3, OSErrorKeeps
<1>4. CASE Here(t) # NoFile /\ call' = [call EXCEPT ![t].pc = "read", ![t].opened = Here(t).stamp]
  <2> DEFINE c == [call[t] EXCEPT !.pc = "read", !.opened = Here(t).stamp]
  <2>1. call' = [call EXCEPT ![t] = c]
    BY <1>4 DEF IInv, TypeOK
  <2>2. /\ c.pc = "read" /\ c.operation = call[t].operation /\ c.path = call[t].path
        /\ c.expected = call[t].expected /\ c.stamp = call[t].stamp /\ c.now = call[t].now
        /\ c.opened = Here(t).stamp /\ c.failed = call[t].failed /\ c \in Call
    BY <1>2 DEF Call
  <2> HIDE DEF c
  <2>3. Here(t).stamp # 0
    BY <1>1, <1>4, OfCall
  <2>4. CallSound(c)
    BY <1>1, <1>2, <2>2, <2>3 DEF CallSound, Still, Here
  <2> QED BY <1>1, <2>1, <2>2, <2>4, OnlyCall
<1> QED BY <1>3, <1>4 DEF Open

\* Who reads a file that has not changed since it was opened reads its contents.
LEMMA ReadsContents ==
  ASSUME IInv, NEW t \in Threads, In(t, "read"), NEW digest \in MayHaveRead(t)
  PROVE  /\ digest \in Contents
         /\ Here(t).stamp = call[t].opened => digest = Here(t).contents
<1>1. call[t].opened # 0 /\ ~In(t, "idle")
  BY OfCall DEF CallSound, In
<1> QED BY <1>1, OfCall DEF MayHaveRead

\* The whole file was read.
LEMMA DigestKeeps ==
  ASSUME IInv, NEW t \in Threads, In(t, "read"), NEW digest \in MayHaveRead(t),
         cache' = [cache EXCEPT ![call[t].path] = Cached(call[t], digest)], Answer(t, digest),
         UNCHANGED <<disk, clock, rule>>
  PROVE  IInv'
<1> DEFINE p == call[t].path
<1>1. ~In(t, "idle") /\ call[t].pc = "read"
  BY DEF In
<1>3. /\ digest \in Contents
      /\ Here(t).stamp = call[t].opened => digest = Here(t).contents
  BY ReadsContents
<1>4. /\ call[t] \in Call /\ CallSound(call[t]) /\ p \in Paths /\ TypeOK
      /\ call[t].stamp \in 1..MaxStamps /\ call[t].stamp \in 0..stamps
      /\ call[t].now \in 0..MaxTime /\ call[t].now <= clock
  <2>1. call[t] \in Call /\ CallSound(call[t]) /\ p \in Paths /\ call[t].stamp \in 0..stamps
    BY <1>1, OfCall
  <2> QED BY <1>1, <2>1, CallFields DEF CallSound, IInv
<1>5. Still(p, call[t].stamp) => digest = Here(t).contents
  BY <1>1, <1>3, <1>4 DEF CallSound, Still, Here
<1>6. Still(p, call[t].expected.stamp) => call[t].stamp = call[t].expected.stamp
  BY <1>1, <1>4 DEF CallSound
<1>7. PICK c \in Call : CallSound(c) /\ call' = [call EXCEPT ![t] = c]
  <2>1. call[t].stamp # 0
    BY <1>4
  <2> QED BY <1>1, <1>3, <1>5, <1>6, <2>1, AnswerSound
<1>8. /\ call' \in [Threads -> Call \union {Idle}]
      /\ \A u \in Threads : ~In(u, "idle")' => CallSound(call[u])'
  BY <1>1, <1>7, CallBecomes
<1>9. /\ Cached(call[t], digest) \in Entry
      /\ Cached(call[t], digest).stamp = call[t].stamp
      /\ Cached(call[t], digest).digest = digest
      /\ Cached(call[t], digest).at = call[t].now
  BY <1>3, <1>4 DEF Cached, Entry
<1>10. /\ cache' \in [Paths -> Entry \union {NoEntry}]
       /\ cache'[p] = Cached(call[t], digest)
       /\ \A q \in Paths \ {p} : cache'[q] = cache[q]
  BY <1>4, <1>9 DEF TypeOK
<1>11. UNCHANGED <<file, away, stamps, since, returned, clock, rule>>
  BY DEF disk
<1>12. TypeOK'
  BY <1>4, <1>8, <1>10, <1>11 DEF TypeOK
<1>13. ASSUME NEW q \in Paths PROVE PathSound(q)'
  <2>1. PathSound(q)
    BY DEF IInv
  <2>2. CASE q # p
    BY <1>10, <1>11, <2>1, <2>2 DEF PathSound, Still
  <2>3. CASE q = p
    <3>1. since[p] < call[t].now => digest = file[p].contents
      BY <1>1, <1>3, <1>4 DEF CallSound, Here
    <3>2. Still(p, call[t].stamp) => digest = file[p].contents
      BY <1>5 DEF Here
    <3> HIDE DEF p
    <3> QED BY <1>4, <1>9, <1>10, <1>11, <2>1, <2>3, <3>1, <3>2 DEF PathSound, Still
  <2> QED BY <2>2, <2>3
<1> QED BY <1>8, <1>12, <1>13 DEF IInv

LEMMA ReadKeeps ==
  ASSUME IInv, NEW t \in Threads, Read(t)
  PROVE  IInv'
<1>1. In(t, "read") /\ call[t].pc = "read" /\ UNCHANGED <<disk, clock, rule>>
  BY DEF Read, In
<1>2. CASE OSError(t) /\ UNCHANGED cache
  BY <1>1, <1>2, OSErrorKeeps
<1>3. CASE \E digest \in MayHaveRead(t) :
             /\ cache' = [cache EXCEPT ![call[t].path] = Cached(call[t], digest)]
             /\ Answer(t, digest)
  BY <1>1, <1>3, DigestKeeps
<1> QED BY <1>2, <1>3 DEF Read

\* An operation begins a call with a rule as it is, or none.
LEMMA BeginKeeps ==
  ASSUME IInv, NEW t \in Threads, NEW operation \in {"lock", "match", "launch"}, NEW p \in Paths,
         NEW expected \in {NoRule, rule[p]}, operation # "lock" => expected # NoRule,
         Begin(t, operation, p, expected)
  PROVE  IInv'
<1> DEFINE c == Calling(operation, p, expected)
<1>1. call' = [call EXCEPT ![t] = c] /\ UNCHANGED <<disk, clock, cache, rule>>
  BY DEF Begin
<1>2. rule[p] \in Rule \union {NoRule} /\ PathSound(p) /\ stamps \in 0..MaxStamps
  BY DEF IInv, TypeOK
<1>3. /\ c.pc = "stat" /\ c.operation = operation /\ c.path = p /\ c.expected = expected /\ c.stamp = 0
      /\ ~c.failed
      /\ c \in Call
  BY <1>2, FilesAssumption DEF Calling, Call
<1> HIDE DEF c
<1>4. CallSound(c)
  BY <1>2, <1>3 DEF CallSound, PathSound, Still, NoRule
<1> QED BY <1>1, <1>3, <1>4, OnlyCall

\* A rule is made of an answer, or removed.
LEMMA AppLockedKeeps ==
  ASSUME IInv, AppLocked
  PROVE  IInv'
<1> DEFINE c == call["ui"]
           made == [digest |-> c.digest, stamp |-> c.stamp]
<1>1. /\ "ui" \in Threads /\ In("ui", "answered") /\ ~In("ui", "idle")
      /\ call' = [call EXCEPT !["ui"] = Idle] /\ UNCHANGED <<disk, clock, cache>>
  BY DEF AppLocked, Answered, In, Threads, Return
<1>2. /\ c \in Call /\ CallSound(c) /\ c.path \in Paths /\ c.stamp \in 0..stamps
      /\ stamps \in 0..MaxStamps /\ TypeOK /\ c.pc = "answered"
  BY <1>1, OfCall DEF IInv, In
<1>3. /\ call' \in [Threads -> Call \union {Idle}]
      /\ \A u \in Threads : ~In(u, "idle")' => CallSound(call[u])'
  BY <1>1, CallBecomes
<1>4. UNCHANGED <<file, away, stamps, since, returned, clock, cache>>
  BY <1>1 DEF disk
<1>5. CASE c.digest = NoDigest
  <2>1. rule' = rule
    BY <1>5 DEF AppLocked
  <2> QED BY <1>1, <2>1, OnlyCall
<1>6. CASE c.digest # NoDigest
  <2>1. rule' = [rule EXCEPT ![c.path] = made]
    BY <1>6 DEF AppLocked
  <2>2. made \in Rule /\ made.stamp = c.stamp /\ made.digest = c.digest
    BY <1>2, <1>6, CallFields DEF CallSound, Rule
  <2>3. /\ rule' \in [Paths -> Rule \union {NoRule}] /\ rule'[c.path] = made
        /\ \A q \in Paths \ {c.path} : rule'[q] = rule[q]
    BY <1>2, <2>1, <2>2 DEF TypeOK
  <2>4. TypeOK'
    BY <1>2, <1>3, <1>4, <2>3 DEF TypeOK
  <2>5. ASSUME NEW q \in Paths PROVE PathSound(q)'
    <3>1. PathSound(q)
      BY DEF IInv
    <3>2. CASE q # c.path
      BY <1>4, <2>3, <3>1, <3>2 DEF PathSound, Still
    <3>3. CASE q = c.path
      <4>1. Still(q, c.stamp) => c.digest = file[q].contents
        BY <1>2, <1>6, <3>3 DEF CallSound
      <4> HIDE DEF c
      <4> QED BY <1>2, <1>4, <2>2, <2>3, <3>1, <3>3, <4>1 DEF PathSound, Still
    <3> QED BY <3>2, <3>3
  <2> QED BY <1>3, <2>4, <2>5 DEF IInv
<1> QED BY <1>5, <1>6

LEMMA UnlockAppKeeps ==
  ASSUME IInv, NEW p \in Paths, UnlockApp(p)
  PROVE  IInv'
<1>1. /\ rule' = [rule EXCEPT ![p] = NoRule]
      /\ UNCHANGED <<file, away, stamps, since, returned, clock, cache, call>>
  BY DEF UnlockApp, disk
<1>2. /\ rule' \in [Paths -> Rule \union {NoRule}] /\ rule'[p] = NoRule
      /\ \A q \in Paths \ {p} : rule'[q] = rule[q]
  BY <1>1 DEF IInv, TypeOK
<1>3. NoRule.stamp = 0 /\ 0 \in 0..stamps
  BY FilesAssumption DEF NoRule, IInv, TypeOK
<1>4. TypeOK'
  BY <1>1, <1>2 DEF IInv, TypeOK
<1>5. \A q \in Paths : PathSound(q)'
  BY <1>1, <1>2, <1>3 DEF IInv, PathSound, Still
<1>6. \A u \in Threads : ~In(u, "idle")' => CallSound(call[u])'
  BY <1>1 DEF IInv, In, CallSound, Still
<1> QED BY <1>4, <1>5, <1>6 DEF IInv

LEMMA Initially == Init => IInv
<1> SUFFICES ASSUME Init PROVE IInv
  OBVIOUS
<1> USE FilesAssumption DEF NoFile, NoEntry, NoRule
<1>1. TypeOK
  BY DEF Init, TypeOK
<1>2. \A p \in Paths : PathSound(p)
  BY DEF Init, PathSound, Still
<1>3. \A t \in Threads : In(t, "idle")
  BY DEF Init, In, Idle
<1> QED BY <1>1, <1>2, <1>3 DEF IInv

LEMMA Step ==
  ASSUME IInv, [Next]_vars
  PROVE  IInv'
<1>1. CASE Environment
  BY <1>1, EnvironmentKeeps
<1>2. CASE \E t \in Threads : FileSha256(t)
  BY <1>2, StatKeeps, LookUpKeeps, OpenKeeps, ReadKeeps DEF FileSha256
<1>3. ASSUME NEW p \in Paths, LockApp(p) \/ UnlockApp(p) \/ MatchLockedApp(p) \/ LaunchAllowedApp(p)
      PROVE  IInv'
  BY <1>3, BeginKeeps, UnlockAppKeeps DEF LockApp, MatchLockedApp, LaunchAllowedApp, Threads
<1>4. CASE AppLocked
  BY <1>4, AppLockedKeeps
<1>5. CASE \E t \in Threads : Decided(t)
  BY <1>5, OnlyCall DEF Decided, Return
<1>6. CASE UNCHANGED vars
  <2>1. UNCHANGED <<file, away, stamps, since, returned, clock, cache, call, rule>>
    BY <1>6 DEF vars, disk
  <2> QED BY <2>1 DEF IInv, TypeOK, In, PathSound, CallSound, Still
<1> QED BY <1>1, <1>2, <1>3, <1>4, <1>5, <1>6 DEF Next, Operations

-----------------------------------------------------------------------------
(* The theorems                                                               *)

LEMMA AlwaysIInv == Spec => []IInv
BY Initially, Step, PTL DEF Spec

\* A rule never holds the empty digest, nor does the cache, whatever happens to a file while
\* it is hashed.
THEOREM TypeCorrect == Spec => []TypeOK
<1>1. IInv => TypeOK
  BY DEF IInv
<1> QED BY <1>1, AlwaysIInv, PTL

\* A call that could read the file reports an integrity issue, and blocks a launch, only for
\* another file than the one that was locked, unless a stamp has come back: whatever calls
\* failed to read it before.
THEOREM IssueAlwaysMeansChanged == Spec => []IssueMeansChanged
<1>1. IInv => IssueMeansChanged
  <2> SUFFICES ASSUME IInv, NEW t \in Threads,
                      Answered(t, "match") \/ Answered(t, "launch"),
                      Differs(call[t]), ~call[t].failed, call[t].path \notin returned,
                      file[call[t].path].stamp = call[t].expected.stamp
               PROVE  FALSE
    BY DEF IssueMeansChanged
  <2>1. ~In(t, "idle") /\ call[t].pc = "answered" /\ call[t].operation # "lock"
    BY DEF Answered, In
  <2>2. call[t] \in Call /\ CallSound(call[t])
    BY <2>1, OfCall
  <2>3. call[t].expected.stamp # 0
    BY <2>1, <2>2, CallFields DEF CallSound
  <2>4. Still(call[t].path, call[t].expected.stamp)
    BY <2>3 DEF Still
  <2> QED BY <2>1, <2>2, <2>4 DEF CallSound, Differs
<1> QED BY <1>1, AlwaysIInv, PTL

\* A step that answers a call of t.
LEMMA AnsweringStep ==
  ASSUME IInv, [Next]_vars, NEW t \in Threads, call'[t].pc = "answered", ~In(t, "answered")
  PROVE  FileSha256(t)
<1>1. TypeOK
  BY DEF IInv
<1>2. ASSUME NEW u \in Threads, FileSha256(u) PROVE FileSha256(t)
  <2>1. \E c : call' = [call EXCEPT ![u] = c]
    BY <1>1, <1>2 DEF FileSha256, Stat, LookUp, Open, Read, Answer, OSError, TypeOK
  <2>2. u = t
    BY <1>1, <2>1 DEF TypeOK, In
  <2> QED BY <1>2, <2>2
<1>3. CASE Environment \/ UNCHANGED vars \/ \E p \in Paths : UnlockApp(p)
  <2>1. call' = call
    BY <1>3 DEF Environment, Write, MoveAway, MoveBack, Tick, UnlockApp, vars
  <2> QED BY <2>1 DEF In
<1>4. CASE AppLocked \/ \E u \in Threads : Decided(u)
  <2>1. \E u \in Threads : call' = [call EXCEPT ![u] = Idle]
    BY <1>4 DEF AppLocked, Decided, Return, Threads
  <2> QED BY <1>1, <2>1 DEF TypeOK, In, Idle
<1>5. CASE \E p \in Paths : LockApp(p) \/ MatchLockedApp(p) \/ LaunchAllowedApp(p)
  <2>1. \E u \in Threads : \E operation, p, expected :
         call' = [call EXCEPT ![u] = Calling(operation, p, expected)]
    BY <1>5 DEF LockApp, MatchLockedApp, LaunchAllowedApp, Begin, Threads
  <2> QED BY <1>1, <2>1 DEF TypeOK, In, Calling
<1> QED BY <1>2, <1>3, <1>4, <1>5 DEF Next, Operations

\* A file that has not changed for the lifetime of an entry when it is asked for is answered
\* with its own digest, also where stamps come back and where earlier calls failed, unless
\* this very call fails to read it.  An entry has to have a lifetime.
THEOREM ErrorsAlwaysWearOff ==
  ASSUME Ttl # 0
  PROVE  Spec => ErrorsWearOff
<1> DEFINE asked(t) == IF In(t, "lookup") THEN clock ELSE call[t].now
           Right(t) == /\ call'[t].pc = "answered" /\ ~In(t, "answered") /\ ~call'[t].failed
                       /\ since[call[t].path] + Ttl <= asked(t)
                       => call'[t].digest = Here(t).contents
<1>1. ASSUME IInv, [Next]_vars, NEW t \in Threads PROVE Right(t)
  <2> SUFFICES ASSUME call'[t].pc = "answered", ~In(t, "answered"), ~call'[t].failed,
                      since[call[t].path] + Ttl <= asked(t)
               PROVE  call'[t].digest = Here(t).contents
    OBVIOUS
  <2>1. FileSha256(t)
    BY <1>1, AnsweringStep
  <2>2. ~In(t, "idle") /\ TypeOK
    BY <1>1, <2>1 DEF FileSha256, Stat, LookUp, Open, Read, In, IInv
  <2>3. /\ call[t] \in Call /\ CallSound(call[t]) /\ call[t].path \in Paths /\ PathSound(call[t].path)
        /\ Here(t) = NoFile => Here(t).contents = NoDigest
        /\ clock \in 0..MaxTime
    BY <1>1, <2>2, OfCall
  <2>4. \A digest : Answer(t, digest) => call'[t].digest = digest
    BY <2>2, <2>3 DEF Answer, TypeOK, Call
  <2>5. CASE OSError(t)
    <3>1. call'[t].failed = (Here(t) # NoFile) /\ call'[t].digest = NoDigest
      BY <2>2, <2>3, <2>5 DEF OSError, TypeOK, Call
    <3> QED BY <2>3, <3>1
  <2>6. CASE LookUp(t)
    <3> DEFINE entry == cache[call[t].path]
    <3>1. In(t, "lookup")
      BY <2>6 DEF LookUp
    <3>2. entry # NoEntry /\ Fresh(entry, call[t].stamp) /\ Answer(t, entry.digest)
      BY <2>2, <2>3, <2>6 DEF LookUp, TypeOK, Call
    <3>3. since[call[t].path] < entry.at
      <4>1. since[call[t].path] \in 0..MaxTime /\ entry.at \in 0..MaxTime
        BY <2>2, <2>3, PathFields
      <4>2. since[call[t].path] + Ttl <= clock /\ clock - entry.at < Ttl
        BY <3>1, <3>2 DEF Fresh
      <4> HIDE DEF entry
      <4> QED BY <2>3, <4>1, <4>2, FilesAssumption
    <3> QED BY <2>3, <2>4, <3>2, <3>3 DEF PathSound, Here
  <2>7. CASE /\ In(t, "read")
             /\ \E digest \in MayHaveRead(t) : Answer(t, digest)
    <3>1. In(t, "read") /\ call[t].pc = "read" /\ ~In(t, "lookup")
      BY <2>7 DEF In
    <3>2. since[call[t].path] < call[t].now
      <4>1. since[call[t].path] \in 0..MaxTime /\ call[t].now \in 0..MaxTime
        BY <2>2, <2>3, PathFields, CallFields
      <4> QED BY <3>1, <4>1, FilesAssumption, Ttl # 0
    <3>3. Here(t).stamp = call[t].opened
      BY <2>3, <3>1, <3>2 DEF CallSound, Here
    <3> QED BY <1>1, <2>4, <2>7, <3>1, <3>3, ReadsContents
  <2>8. CASE Stat(t) \/ Open(t)
    <3>1. OSError(t)
      BY <2>2, <2>3, <2>8 DEF Stat, Open, TypeOK, Call
    <3> QED BY <2>5, <3>1
  <2> QED BY <2>1, <2>5, <2>6, <2>7, <2>8 DEF FileSha256, Read
<1>2. IInv /\ [Next]_vars => [\A t \in Threads : Right(t)]_vars
  BY <1>1
<1>3. [][\A t \in Threads : Right(t)]_vars => ErrorsWearOff
  BY DEF ErrorsWearOff
<1> HIDE DEF Right
<1> QED BY <1>2, <1>3, AlwaysIInv, PTL DEF Spec
=============================================================================
