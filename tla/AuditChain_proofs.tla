-------------------------- MODULE AuditChain_proofs --------------------------
(* Theorems about the security log, for any number of threads, any details and *)
(* any width, with their proofs.                                               *)
EXTENDS AuditChain, SequenceTheorems, FiniteSetTheorems, TLAPS

-----------------------------------------------------------------------------
(* What sanitizing does to a text                                             *)

\* Words separated by one blank each.
Tidy(s) == Kept(s) = DOMAIN s

\* Sanitizing leaves such a text as it is.
LEMMA JoinedTidy ==
  ASSUME NEW S, NEW s \in Seq(S), Tidy(s)
  PROVE  Joined(s) = s
<1>1. Len(s) \in Nat /\ DOMAIN s = 1..Len(s) /\ s = [n \in 1..Len(s) |-> s[n]]
  BY LenProperties
<1>2. \A i \in Nat : IsFiniteSet(1..i) /\ Cardinality(1..i) = i
  BY FS_Interval
<1>3. ASSUME NEW i \in Kept(s) PROVE Cardinality({j \in Kept(s) : j <= i}) = i
  <2>1. {j \in Kept(s) : j <= i} = 1..i /\ i \in Nat
    BY <1>1 DEF Tidy
  <2> QED BY <1>2, <2>1
<1>4. Cardinality(Kept(s)) = Len(s)
  BY <1>1, <1>2 DEF Tidy
<1>5. ASSUME NEW n \in 1..Len(s)
      PROVE  (CHOOSE i \in Kept(s) : Cardinality({j \in Kept(s) : j <= i}) = n) = n
  BY <1>1, <1>3 DEF Tidy
<1> QED BY <1>1, <1>4, <1>5 DEF Joined

\* The elements of a finite set of numbers can be counted from below.
Rank(K, i) == Cardinality({j \in K : j <= i})

LEMMA Ranks ==
  ASSUME NEW K \in SUBSET Nat, IsFiniteSet(K)
  PROVE  /\ Cardinality(K) \in Nat
         /\ \A i \in K : Rank(K, i) \in 1..Cardinality(K)
         /\ \A i, k \in K : i < k => Rank(K, i) < Rank(K, k)
         /\ \A n \in 1..Cardinality(K) : \E i \in K : Rank(K, i) = n
<1> DEFINE Below(i) == {j \in K : j <= i}
<1>1. Cardinality(K) \in Nat
  BY FS_CardinalityType
<1>2. ASSUME NEW i \in K PROVE Rank(K, i) \in 1..Cardinality(K)
  <2>1. Below(i) \subseteq K /\ i \in Below(i)
    OBVIOUS
  <2>2. IsFiniteSet(Below(i)) /\ Cardinality(Below(i)) <= Cardinality(K)
    BY <2>1, FS_Subset
  <2>3. Cardinality(Below(i)) \in Nat /\ Cardinality(Below(i)) # 0
    BY <2>1, <2>2, FS_CardinalityType, FS_EmptySet
  <2> QED BY <1>1, <2>2, <2>3 DEF Rank
<1>3. ASSUME NEW i \in K, NEW k \in K, i < k PROVE Rank(K, i) < Rank(K, k)
  <2>1. Below(i) \subseteq Below(k) /\ k \in Below(k) /\ k \notin Below(i)
    <3>1. i \in Nat /\ k \in Nat /\ \A j \in K : j \in Nat
      OBVIOUS
    <3>2. \A j \in K : j <= i => j <= k
      BY <1>3, <3>1
    <3>3. k <= k /\ ~(k <= i)
      BY <1>3, <3>1
    <3> QED BY <3>2, <3>3
  <2>2. IsFiniteSet(Below(k)) /\ IsFiniteSet(Below(i))
    BY FS_Subset
  <2>3. Cardinality(Below(i)) < Cardinality(Below(k))
    BY <2>1, <2>2, FS_Subset, FS_CardinalityType
  <2> QED BY <2>3 DEF Rank
<1>4. ASSUME NEW n \in 1..Cardinality(K) PROVE \E i \in K : Rank(K, i) = n
  <2> DEFINE f == [i \in K |-> Rank(K, i)]
             C == 1..Cardinality(K)
  <2>1. f \in [K -> C]
    BY <1>2
  <2>2. IsFiniteSet(C) /\ Cardinality(C) = Cardinality(K)
    BY <1>1, FS_Interval
  <2>3. \A i, k \in K : i # k => f[i] # f[k]
    <3> SUFFICES ASSUME NEW i \in K, NEW k \in K, i # k PROVE Rank(K, i) # Rank(K, k)
      OBVIOUS
    <3>1. i < k \/ k < i
      OBVIOUS
    <3>2. Rank(K, i) \in Nat /\ Rank(K, k) \in Nat
      BY <1>1, <1>2
    <3> QED BY <1>3, <3>1, <3>2
  <2>4. f \in Injection(K, C)
    BY <2>1, <2>3 DEF Injection, IsInjective
  <2>5. f \in Surjection(K, C)
    BY <1>1, <2>2, <2>4, FS_Injection
  <2> QED BY <2>5 DEF Surjection
<1> QED BY <1>1, <1>2, <1>3, <1>4

LEMMA FunctionIsSeq ==
  ASSUME NEW S, NEW n \in Nat, NEW f, f = [i \in 1..n |-> f[i]], \A i \in 1..n : f[i] \in S
  PROVE  f \in Seq(S) /\ Len(f) = n
OBVIOUS

\* A joined text consists of words separated by one blank each: the characters that are
\* kept keep their order, and so their neighbours.
LEMMA JoinedIsTidy ==
  ASSUME NEW S, NEW s \in Seq(S)
  PROVE  Joined(s) \in Seq(S) /\ Tidy(Joined(s))
<1> DEFINE K == Kept(s)
           t == Joined(s)
           at(n) == CHOOSE i \in K : Rank(K, i) = n
<1>1. Len(s) \in Nat /\ DOMAIN s = 1..Len(s) /\ \A i \in 1..Len(s) : s[i] \in S
  BY LenProperties, ElementOfSeq
<1>2. K \subseteq 1..Len(s) /\ K \subseteq Nat /\ IsFiniteSet(K)
  <2>1. K \subseteq 1..Len(s)
    BY <1>1 DEF Kept
  <2>2. IsFiniteSet(1..Len(s))
    BY <1>1, FS_Interval
  <2> HIDE DEF K
  <2>3. IsFiniteSet(K)
    BY <2>1, <2>2, FS_Subset
  <2> QED BY <1>1, <2>1, <2>3
<1>3. /\ Cardinality(K) \in Nat
      /\ \A i \in K : Rank(K, i) \in 1..Cardinality(K)
      /\ \A i, k \in K : i < k => Rank(K, i) < Rank(K, k)
      /\ \A n \in 1..Cardinality(K) : \E i \in K : Rank(K, i) = n
  <2> HIDE DEF K
  <2> QED BY <1>2, Ranks
<1>4. t = [n \in 1..Cardinality(K) |-> s[at(n)]]
  BY DEF Joined, Rank
<1>5. \A n \in 1..Cardinality(K) : at(n) \in K /\ Rank(K, at(n)) = n
  BY <1>3
<1>6. \A i \in K : at(Rank(K, i)) = i
  <2> SUFFICES ASSUME NEW i \in K PROVE at(Rank(K, i)) = i
    OBVIOUS
  <2>1. Rank(K, i) \in 1..Cardinality(K)
    BY <1>3
  <2>2. at(Rank(K, i)) \in K /\ Rank(K, at(Rank(K, i))) = Rank(K, i)
    BY <1>5, <2>1
  <2> DEFINE k == at(Rank(K, i))
  <2> HIDE DEF k, K
  <2>3. i \in K /\ k \in K /\ Rank(K, k) = Rank(K, i) /\ i \in Nat /\ k \in Nat
    BY <1>2, <2>2 DEF k
  <2>4. ~(i < k) /\ ~(k < i)
    BY <1>3, <2>1, <2>3
  <2> QED BY <2>3, <2>4 DEF k
<1>7. DOMAIN t = 1..Cardinality(K) /\ \A n \in 1..Cardinality(K) : t[n] = s[at(n)]
  BY <1>4
<1>8. \A i \in K : Rank(K, i) \in DOMAIN t /\ t[Rank(K, i)] = s[i]
  <2> SUFFICES ASSUME NEW i \in K PROVE Rank(K, i) \in DOMAIN t /\ t[Rank(K, i)] = s[i]
    OBVIOUS
  <2>1. Rank(K, i) \in 1..Cardinality(K)
    BY <1>3
  <2>2. at(Rank(K, i)) = i
    BY <1>6
  <2> HIDE DEF at, t, K
  <2> QED BY <1>7, <2>1, <2>2
<1>9. ASSUME NEW n \in DOMAIN t, t[n] = Blank
      PROVE  n > 1 /\ t[n-1] # Blank /\ \E k \in DOMAIN t : k > n /\ t[k] # Blank
  <2> DEFINE i == at(n)
  <2>1. i \in K /\ Rank(K, i) = n /\ s[i] = Blank /\ n \in 1..Cardinality(K)
    BY <1>5, <1>7, <1>9
  <2>2. i > 1 /\ s[i-1] # Blank /\ \E k \in DOMAIN s : k > i /\ s[k] # Blank
    BY <2>1 DEF Kept
  <2>3. i \in Nat /\ i \in 1..Len(s)
    BY <1>2, <2>1
  <2> HIDE DEF i
  <2>4. i - 1 \in K
    BY <1>1, <2>2, <2>3 DEF Kept
  <2>5. PICK k \in K : k > i /\ s[k] # Blank
    BY <2>2 DEF Kept
  <2> HIDE DEF K, t
  <2>6. Rank(K, i) = Rank(K, i - 1) + 1
    <3>1. {j \in K : j <= i} = {j \in K : j <= i - 1} \union {i} /\ i \notin {j \in K : j <= i - 1}
      <4>1. \A j \in K : j \in Nat
        BY <1>2
      <4>2. \A j \in K : j <= i <=> j <= i - 1 \/ j = i
        BY <2>3, <4>1
      <4>3. ~(i <= i - 1) /\ i \in K
        BY <2>1, <2>3
      <4>4. \A j : j \in {l \in K : l <= i} <=> j \in {l \in K : l <= i - 1} \union {i}
        BY <4>2, <4>3
      <4> QED BY <4>3, <4>4
    <3>2. IsFiniteSet({j \in K : j <= i - 1})
      BY <1>2, FS_Subset
    <3> QED BY <3>1, <3>2, FS_AddElement DEF Rank
  <2>7. Rank(K, i - 1) \in 1..Cardinality(K) /\ Rank(K, k) \in 1..Cardinality(K) /\ Rank(K, i) < Rank(K, k)
    BY <1>2, <1>3, <2>1, <2>3, <2>4, <2>5
  <2>8. n > 1 /\ n - 1 = Rank(K, i - 1)
    BY <1>3, <2>1, <2>6, <2>7
  <2>9. t[n - 1] # Blank
    BY <1>8, <2>2, <2>4, <2>8
  <2>10. Rank(K, k) > n /\ Rank(K, k) \in DOMAIN t /\ t[Rank(K, k)] # Blank
    BY <1>3, <1>8, <2>1, <2>5, <2>7
  <2> QED BY <2>8, <2>9, <2>10
<1>10. Tidy(t)
  BY <1>9 DEF Tidy, Kept
<1>11. t \in Seq(S)
  <2>1. \A n \in 1..Cardinality(K) : t[n] \in S
    BY <1>1, <1>2, <1>5, <1>7
  <2>2. t = [n \in 1..Cardinality(K) |-> t[n]]
    BY <1>4
  <2> HIDE DEF t, K
  <2> QED BY <1>3, <2>1, <2>2, FunctionIsSeq
<1> QED BY <1>10, <1>11

\* The text is not cut at a blank.
CutInWord(s) == Len(Joined(s)) > Width => Joined(s)[Width] # Blank

\* Sanitizing twice is sanitizing once, unless the text is cut at a blank.
LEMMA SanitizeStable ==
  ASSUME NEW S, NEW s \in Seq(S), CutInWord(s)
  PROVE  Sanitize(Sanitize(s)) = Sanitize(s)
<1> DEFINE c == Joined(s)
           t == Sanitize(s)
<1>1. c \in Seq(S) /\ Tidy(c) /\ Len(c) \in Nat /\ DOMAIN c = 1..Len(c) /\ Width \in Nat
  BY JoinedIsTidy, LenProperties, DetailsAssumption
<1>2. t = IF Len(c) <= Width THEN c ELSE SubSeq(c, 1, Width)
  BY DEF Sanitize
<1> HIDE DEF c, t
<1>3. t \in Seq(S) /\ Tidy(t) /\ Len(t) <= Width
  <2>1. CASE Len(c) <= Width
    BY <1>1, <1>2, <2>1
  <2>2. CASE ~(Len(c) <= Width)
    <3>1. t = SubSeq(c, 1, Width) /\ Len(c) > Width /\ \A i \in 1..Width : i \in 1..Len(c) /\ c[i] \in S
      BY <1>1, <1>2, <2>2, ElementOfSeq
    <3>2. t \in Seq(S) /\ Len(t) = Width /\ \A i \in 1..Width : t[i] = c[i]
      BY <1>1, <3>1, SubSeqProperties
    <3>3. DOMAIN t = 1..Width
      BY <3>2, LenProperties
    <3>4. ASSUME NEW i \in 1..Width, t[i] = Blank
          PROVE  i > 1 /\ t[i-1] # Blank /\ \E k \in DOMAIN t : k > i /\ t[k] # Blank
      <4>1. i \in DOMAIN c /\ c[i] = Blank
        BY <1>1, <3>1, <3>2, <3>4
      <4>2. i > 1 /\ c[i-1] # Blank
        BY <1>1, <4>1 DEF Tidy, Kept
      <4>3. i - 1 \in 1..Width /\ Width \in 1..Width
        BY <1>1, <4>2
      <4>4. c[Width] # Blank
        BY <3>1 DEF CutInWord, c
      <4>5. Width > i
        BY <1>1, <4>1, <4>4
      <4> QED BY <3>2, <3>3, <4>2, <4>3, <4>4, <4>5
    <3>5. Tidy(t)
      BY <3>3, <3>4 DEF Tidy, Kept
    <3> QED BY <1>1, <3>2, <3>5
  <2> QED BY <2>1, <2>2
<1>4. Joined(t) = t
  BY <1>3, JoinedTidy
<1>5. Sanitize(t) = t
  BY <1>3, <1>4 DEF Sanitize
<1> QED BY <1>5 DEF t

-----------------------------------------------------------------------------
(* Logs and what verifying and appending make of them                         *)

Row == [details : Details, mac : Macs]
Events == {Sanitize(raw) : raw \in Raw}

\* In order, as a log is that has been verified and not appended to since.
InOrder(d) == d.head.there /\ Chained(d.rows) /\ d.head.mac = Last(d.rows)

LEMMA MacTypes ==
  /\ Empty \in Macs
  /\ \A m \in Macs, d \in Details : Mac(m, d) \in Macs /\ Mac(m, Sanitize(d)) \in Macs
<1> DEFINE S == Details \union {Sanitize(d) : d \in Details}
<1>1. \A m \in Seq(S), x \in S : Append(m, x) \in Seq(S)
  <2> HIDE DEF S
  <2> QED BY AppendProperties
<1>2. \A d \in Details : d \in S /\ Sanitize(d) \in S
  OBVIOUS
<1>3. Macs = Seq(S) /\ <<>> \in Seq(S)
  BY EmptySeq DEF Macs
<1> QED BY <1>1, <1>2, <1>3 DEF Empty, Mac

LEMMA LogFields ==
  ASSUME NEW d \in Logs
  PROVE  /\ d.rows \in Seq(Row) /\ d.head \in [there : BOOLEAN, mac : Macs]
         /\ d = [rows |-> d.rows, head |-> d.head]
         /\ Len(d.rows) \in Nat /\ DOMAIN d.rows = 1..Len(d.rows)
         /\ d.rows = [n \in 1..Len(d.rows) |-> d.rows[n]]
         /\ \A n \in 1..Len(d.rows) :
              /\ d.rows[n] = [details |-> d.rows[n].details, mac |-> d.rows[n].mac]
              /\ d.rows[n].details \in Details /\ d.rows[n].mac \in Macs
         /\ d.rows = <<>> <=> Len(d.rows) = 0
         /\ Last(d.rows) \in Macs
<1>1. /\ d.rows \in Seq(Row) /\ d.head \in [there : BOOLEAN, mac : Macs]
      /\ d = [rows |-> d.rows, head |-> d.head]
  BY DEF Logs, Row
<1>2. /\ Len(d.rows) \in Nat /\ DOMAIN d.rows = 1..Len(d.rows)
      /\ d.rows \in [1..Len(d.rows) -> Row]
      /\ d.rows = <<>> <=> Len(d.rows) = 0
  BY <1>1, LenProperties, EmptySeq
<1>3. \A n \in 1..Len(d.rows) :
              /\ d.rows[n] = [details |-> d.rows[n].details, mac |-> d.rows[n].mac]
              /\ d.rows[n].details \in Details /\ d.rows[n].mac \in Macs
  BY <1>2 DEF Row
<1>4. Last(d.rows) \in Macs
  <2>1. Len(d.rows) # 0 => Len(d.rows) \in 1..Len(d.rows)
    BY <1>2
  <2> QED BY <1>2, <1>3, <2>1, MacTypes DEF Last
<1> QED BY <1>1, <1>2, <1>3, <1>4

LEMMA SameContents ==
  ASSUME NEW r, NEW s, DOMAIN r = DOMAIN s, \A n \in DOMAIN r : r[n].details = s[n].details
  PROVE  Contents(r) = Contents(s)
BY DEF Contents

\* A log that is taken over keeps its contents and is in order afterwards.
LEMMA RefreshedOrder ==
  ASSUME NEW d \in Logs
  PROVE  /\ Refreshed(d) \in Logs /\ InOrder(Refreshed(d))
         /\ Contents(Refreshed(d).rows) = Contents(d.rows)
<1> DEFINE N == Len(d.rows)
           upto(n) == [i \in 1..n |-> Sanitize(d.rows[i].details)]
           rows == [n \in 1..N |-> [details |-> d.rows[n].details, mac |-> upto(n)]]
<1>1. /\ N \in Nat /\ DOMAIN d.rows = 1..N
      /\ \A n \in 1..N :
           /\ d.rows[n] = [details |-> d.rows[n].details, mac |-> d.rows[n].mac]
           /\ d.rows[n].details \in Details
  BY LogFields
<1>2. Refreshed(d) = [rows |-> rows, head |-> HeadIs(Last(rows))]
  <2>0. \A r, x : r = [details |-> r.details, mac |-> r.mac]
                    => [r EXCEPT !.mac = x] = [details |-> r.details, mac |-> x]
    OBVIOUS
  <2>1. \A n \in 1..N : [d.rows[n] EXCEPT !.mac = upto(n)] = [details |-> d.rows[n].details, mac |-> upto(n)]
    <3> HIDE DEF upto
    <3> QED BY <1>1, <2>0
  <2>2. rows = [n \in DOMAIN d.rows |-> [d.rows[n] EXCEPT !.mac = upto(n)]]
    BY <1>1, <2>1
  <2>3. \A n \in DOMAIN d.rows :
          [k \in DOMAIN d.rows |-> [i \in 1..k |-> Sanitize(d.rows[i].details)]][n] = upto(n)
    OBVIOUS
  <2> QED BY <2>2, <2>3 DEF Refreshed
<1>3. ASSUME NEW n \in 0..N PROVE upto(n) \in Macs /\ Len(upto(n)) = n
  <2> DEFINE S == Details \union {Sanitize(e) : e \in Details}
  <2>0. n \in Nat /\ \A i \in 1..n : i \in 1..N
    BY <1>1
  <2>1. \A i \in 1..n : upto(n)[i] \in S
    BY <1>1, <2>0
  <2>2. upto(n) = [i \in 1..n |-> upto(n)[i]]
    OBVIOUS
  <2> HIDE DEF upto, S
  <2>3. upto(n) \in Seq(S) /\ Len(upto(n)) = n
    BY <2>0, <2>1, <2>2, FunctionIsSeq
  <2> QED BY <2>3 DEF Macs, S
<1>4. rows \in Seq(Row) /\ Len(rows) = N
  <2>1. \A n \in 1..N : rows[n] \in Row
    <3>1. \A n \in 1..N : n \in 0..N
      BY <1>1
    <3>2. \A n \in 1..N : d.rows[n].details \in Details /\ upto(n) \in Macs
      BY <1>1, <1>3, <3>1
    <3> HIDE DEF upto
    <3> QED BY <3>2 DEF Row
  <2>2. rows = [n \in 1..N |-> rows[n]]
    OBVIOUS
  <2> HIDE DEF rows
  <2> QED BY <1>1, <2>1, <2>2, FunctionIsSeq
<1>5. ASSUME NEW n \in 1..N PROVE upto(n) = Mac(upto(n - 1), Sanitize(rows[n].details))
  <2>1. n \in Nat /\ n - 1 \in Nat /\ n - 1 \in 0..N /\ n \in 0..N
    BY <1>1
  <2> DEFINE S == Details \union {Sanitize(e) : e \in Details}
             x == Sanitize(rows[n].details)
             t == Append(upto(n - 1), x)
  <2>2. x = Sanitize(d.rows[n].details) /\ x \in S
    BY <1>1
  <2>3. upto(n - 1) \in Seq(S) /\ Len(upto(n - 1)) = n - 1 /\ upto(n) \in Seq(S) /\ Len(upto(n)) = n
    BY <1>3, <2>1 DEF Macs
  <2>4. /\ \A i \in 1..(n - 1) : upto(n)[i] = upto(n - 1)[i]
        /\ upto(n)[n] = x
    BY <2>1, <2>2
  <2> HIDE DEF upto, S, x
  <2>5. /\ t \in Seq(S) /\ Len(t) = n
        /\ \A i \in 1..(n - 1) : t[i] = upto(n - 1)[i]
        /\ t[n] = x
    BY <2>1, <2>2, <2>3, AppendProperties
  <2>6. \A i \in 1..n : t[i] = upto(n)[i]
    BY <2>1, <2>4, <2>5
  <2> HIDE DEF t
  <2>7. t = upto(n)
    BY <2>3, <2>5, <2>6, SeqEqual
  <2> QED BY <2>7 DEF t, x, Mac
<1>6. Chained(rows)
  <2> SUFFICES ASSUME NEW n \in 1..N
               PROVE  rows[n].mac = Mac(Previous(rows, n), Sanitize(rows[n].details))
    BY <1>1 DEF Chained
  <2>1. rows[n].mac = upto(n)
    OBVIOUS
  <2>2. CASE n = 1
    <3>1. upto(0) = <<>>
      OBVIOUS
    <3> HIDE DEF rows, upto
    <3> QED BY <1>5, <2>1, <2>2, <3>1 DEF Previous, Empty
  <2>3. CASE n # 1
    <3>1. n - 1 \in 1..N
      BY <1>1, <2>3
    <3>2. rows[n-1].mac = upto(n - 1)
      BY <3>1
    <3> HIDE DEF rows, upto
    <3> QED BY <1>5, <2>1, <2>3, <3>2 DEF Previous
  <2> QED BY <2>2, <2>3
<1>7. Contents(rows) = Contents(d.rows)
  BY <1>1, SameContents
<1> HIDE DEF rows
<1>8. Last(rows) \in Macs
  <2>1. [rows |-> rows, head |-> HeadIs(Empty)] \in Logs
    BY <1>4, MacTypes DEF Logs, Row, HeadIs
  <2> QED BY <2>1, LogFields
<1> QED BY <1>2, <1>4, <1>6, <1>7, <1>8 DEF Logs, Row, HeadIs, InOrder

LEMMA VerifiedOrder ==
  ASSUME NEW d \in Logs
  PROVE  /\ Verified(d) \in Logs /\ Contents(Verified(d).rows) = Contents(d.rows)
         /\ Accepts(d) => InOrder(Verified(d))
         /\ InOrder(d) => Accepts(d)
BY RefreshedOrder DEF Verified, Accepts, InOrder

\* An entry follows from the head; it is in order if verifying reads the event as it is.
LEMMA AppendedOrder ==
  ASSUME NEW d \in Logs, NEW event \in Details
  PROVE  LET rows == Append(d.rows, [details |-> event, mac |-> Mac(d.head.mac, event)])
         IN  /\ [d EXCEPT !.rows = rows] \in Logs
             /\ Contents(rows) = Append(Contents(d.rows), event)
             /\ InOrder(d) /\ Sanitize(event) = event => Chained(rows)
<1> DEFINE row == [details |-> event, mac |-> Mac(d.head.mac, event)]
           rows == Append(d.rows, row)
           N == Len(d.rows)
<1>1. /\ d.rows \in Seq(Row) /\ N \in Nat /\ DOMAIN d.rows = 1..N /\ d.head.mac \in Macs
      /\ d.head \in [there : BOOLEAN, mac : Macs]
      /\ d = [rows |-> d.rows, head |-> d.head] /\ (d.rows = <<>> <=> N = 0)
  BY LogFields
<1>2. row \in Row /\ row.details = event /\ row.mac = Mac(d.head.mac, event)
  BY <1>1, MacTypes DEF Row
<1> HIDE DEF row
<1>3. /\ rows \in Seq(Row) /\ Len(rows) = N + 1 /\ DOMAIN rows = 1..(N + 1)
      /\ \A n \in 1..N : rows[n] = d.rows[n]
      /\ rows[N + 1] = row
  BY <1>1, <1>2, AppendProperties, LenProperties
<1> HIDE DEF rows
<1>4. [d EXCEPT !.rows = rows] \in Logs
  <2>1. [d EXCEPT !.rows = rows] = [rows |-> rows, head |-> d.head]
    BY <1>1
  <2> QED BY <1>1, <1>3, <2>1 DEF Logs, Row
<1>5. Contents(rows) = Append(Contents(d.rows), event)
  <2> DEFINE c == Contents(d.rows)
             e == Contents(rows)
  <2>1. c = [n \in 1..N |-> d.rows[n].details] /\ e = [n \in 1..(N + 1) |-> rows[n].details]
    BY <1>1, <1>3 DEF Contents
  <2>2. /\ \A n \in 1..N : c[n] \in Details /\ c[n] = d.rows[n].details
        /\ \A n \in 1..(N + 1) : e[n] \in Details /\ e[n] = rows[n].details
    <3>1. \A n \in 1..N : d.rows[n].details \in Details
      BY LogFields
    <3>2. \A n \in 1..(N + 1) : rows[n] \in Row
      BY <1>3, ElementOfSeq
    <3>3. \A n \in 1..(N + 1) : rows[n].details \in Details
      BY <3>2 DEF Row
    <3> HIDE DEF N
    <3> QED BY <2>1, <3>1, <3>3
  <2>3. c = [n \in 1..N |-> c[n]] /\ e = [n \in 1..(N + 1) |-> e[n]]
    BY <2>1
  <2> HIDE DEF c, e
  <2>4. c \in Seq(Details) /\ Len(c) = N
    BY <1>1, <2>2, <2>3, FunctionIsSeq
  <2>5. e \in Seq(Details) /\ Len(e) = N + 1
    <3>1. N + 1 \in Nat
      BY <1>1
    <3> QED BY <2>2, <2>3, <3>1, FunctionIsSeq
  <2> DEFINE a == Append(c, event)
  <2>6. /\ a \in Seq(Details) /\ Len(a) = N + 1
        /\ \A n \in 1..N : a[n] = c[n]
        /\ a[N + 1] = event
    BY <2>4, AppendProperties
  <2> HIDE DEF a
  <2>7. \A n \in 1..(N + 1) : a[n] = e[n]
    BY <1>1, <1>2, <1>3, <2>2, <2>6
  <2>8. a = e
    BY <2>5, <2>6, <2>7, SeqEqual
  <2> QED BY <2>8 DEF a, c, e
<1>6. ASSUME InOrder(d), Sanitize(event) = event PROVE Chained(rows)
  <2> SUFFICES ASSUME NEW n \in 1..(N + 1)
               PROVE  rows[n].mac = Mac(Previous(rows, n), Sanitize(rows[n].details))
    BY <1>3 DEF Chained
  <2>1. CASE n \in 1..N
    <3>1. rows[n] = d.rows[n] /\ (n # 1 => rows[n-1] = d.rows[n-1])
      BY <1>1, <1>3, <2>1
    <3> QED BY <1>1, <1>6, <2>1, <3>1 DEF InOrder, Chained, Previous
  <2>2. CASE n = N + 1
    <3>1. Previous(rows, n) = Last(d.rows)
      <4>1. CASE N = 0
        BY <1>1, <2>2, <4>1 DEF Previous, Last
      <4>2. CASE N # 0
        <5>1. n # 1 /\ n - 1 = N /\ N \in 1..N
          BY <1>1, <2>2, <4>2
        <5> QED BY <1>1, <1>3, <4>2, <5>1 DEF Previous, Last
      <4> QED BY <4>1, <4>2
    <3> QED BY <1>2, <1>3, <1>6, <2>2, <3>1 DEF InOrder
  <2> QED BY <1>1, <2>1, <2>2
<1> QED BY <1>4, <1>5, <1>6 DEF rows, row

-----------------------------------------------------------------------------
(* The inductive invariants                                                   *)

\* What a transaction has of the log: all of it, then one entry more.
Carried(t) ==
  /\ ~At(t, "none") => tx[t].event \in Events
  /\ At(t, "verify") => tx[t].work = db
  /\ At(t, "insert") => Contents(tx[t].work.rows) = Contents(db.rows)
  /\ At(t, "head") \/ At(t, "commit") =>
       Contents(tx[t].work.rows) = Append(Contents(db.rows), tx[t].event)

IInv == TypeOK /\ \A t \in Threads : Carried(t)

\* What a transaction has is in order but for the head that is yet to be written.
Prepared(t) ==
  /\ At(t, "insert") \/ At(t, "commit") => InOrder(tx[t].work)
  /\ At(t, "head") => Chained(tx[t].work.rows)

OrderInv == ChainHolds /\ \A t \in Threads : Prepared(t)

LEMMA TxFields ==
  ASSUME TypeOK, NEW t \in Threads
  PROVE  /\ tx[t].step \in Steps /\ tx[t].work \in Logs /\ tx[t].event \in Details \union {Empty}
         /\ tx[t] = [step |-> tx[t].step, work |-> tx[t].work, event |-> tx[t].event]
         /\ db \in Logs
         /\ ~At(t, "none") => phase = "up" /\ \A u \in Threads \ {t} : At(u, "none")
BY DEF TypeOK

LEMMA NoTxTyped == NoTx \in [step : Steps, work : Logs, event : Details \union {Empty}] /\ NoTx.step = "none"
<1>1. NoTx.work \in Logs
  BY MacTypes, EmptySeq DEF NoTx, Logs, NoHead
<1> QED BY <1>1 DEF NoTx, Steps

LEMMA EventsAreDetails == Events \subseteq Details
BY DEF Events, Details

\* All transactions are gone, and the log is one or the other.
LEMMA NoneOpen ==
  ASSUME TypeOK, db' \in Logs, phase' \in {"down", "up", "refused"},
         \A t \in Threads : tx'[t] = tx[t] \/ tx'[t] = NoTx,
         tx' \in [Threads -> [step : Steps, work : Logs, event : Details \union {Empty}]],
         phase' # "up" => \A t \in Threads : At(t, "none")',
         phase = "up" => phase' = "up" \/ \A t \in Threads : At(t, "none")'
  PROVE  TypeOK'
<1>1. \A t \in Threads : ~At(t, "none")' => ~At(t, "none")
  BY NoTxTyped DEF At
<1>2. \A t \in Threads : At(t, "none") => At(t, "none")'
  BY <1>1
<1> QED BY <1>1, <1>2 DEF TypeOK

LEMMA BootKeeps ==
  ASSUME IInv, Boot
  PROVE  /\ IInv' /\ Contents(db'.rows) = Contents(db.rows)
         /\ OrderInv => OrderInv'
<1>1. TypeOK /\ phase = "down" /\ tx' = tx /\ db \in Logs
  BY DEF IInv, Boot, TypeOK
<1>2. \A t \in Threads : At(t, "none") /\ At(t, "none")'
  BY <1>1, TxFields DEF At
<1>3. db' \in Logs /\ Contents(db'.rows) = Contents(db.rows)
  BY <1>1, VerifiedOrder DEF Boot
<1>4. phase' \in {"up", "refused"}
  BY DEF Boot
<1>5. TypeOK'
  BY <1>1, <1>2, <1>3, <1>4 DEF TypeOK
<1>6. \A t \in Threads : Carried(t)' /\ Prepared(t)'
  BY <1>2 DEF At, Carried, Prepared
<1>7. ChainHolds => ChainHolds'
  BY <1>1, <1>3, VerifiedOrder DEF Boot, ChainHolds, Accepts, InOrder
<1> QED BY <1>3, <1>5, <1>6, <1>7 DEF IInv, OrderInv

LEMMA EndsKeeps ==
  ASSUME IInv, Ends
  PROVE  IInv' /\ db' = db /\ (OrderInv => OrderInv')
<1>1. TypeOK /\ db' = db /\ phase' = "down" /\ tx' = [t \in Threads |-> NoTx]
  BY DEF IInv, Ends
<1>2. \A t \in Threads : At(t, "none")'
  BY <1>1, NoTxTyped DEF At
<1>3. TypeOK'
  BY <1>1, <1>2, NoTxTyped DEF TypeOK
<1>4. \A t \in Threads : Carried(t)' /\ Prepared(t)'
  BY <1>2 DEF At, Carried, Prepared
<1>5. ChainHolds => ChainHolds'
  BY <1>1 DEF ChainHolds, Accepts, Legacy, Chained
<1> QED BY <1>1, <1>3, <1>4, <1>5 DEF IInv, OrderInv

\* A step of t: the others have no transaction.
LEMMA TxBecomes ==
  ASSUME IInv, NEW t \in Threads,
         NEW x \in [step : Steps, work : Logs, event : Details \union {Empty}],
         tx' = [tx EXCEPT ![t] = x],
         phase' = phase, phase = "up", \A u \in Threads \ {t} : At(u, "none"), db' \in Logs
  PROVE  /\ TypeOK' /\ tx'[t] = x
         /\ \A u \in Threads \ {t} : At(u, "none")' /\ Carried(u)' /\ Prepared(u)'
<1>1. TypeOK
  BY DEF IInv
<1>2. /\ tx' \in [Threads -> [step : Steps, work : Logs, event : Details \union {Empty}]]
      /\ tx'[t] = x /\ \A u \in Threads \ {t} : tx'[u] = tx[u]
  BY <1>1 DEF TypeOK
<1>3. \A u \in Threads \ {t} : At(u, "none")'
  BY <1>2 DEF At
<1>4. TypeOK'
  BY <1>1, <1>2, <1>3 DEF TypeOK
<1>5. \A u \in Threads \ {t} : Carried(u)' /\ Prepared(u)'
  BY <1>3 DEF Carried, Prepared, At
<1> QED BY <1>2, <1>3, <1>4, <1>5

LEMMA BeginKeeps ==
  ASSUME IInv, NEW t \in Threads, NEW raw \in Raw, Begin(t, raw)
  PROVE  IInv' /\ db' = db /\ (OrderInv => OrderInv')
<1> DEFINE x == [step |-> "verify", work |-> db, event |-> Sanitize(raw)]
<1>1. /\ TypeOK /\ db' = db /\ phase' = phase /\ phase = "up"
      /\ tx' = [tx EXCEPT ![t] = x] /\ \A u \in Threads \ {t} : At(u, "none")
      /\ db \in Logs
  BY DEF IInv, Begin, TypeOK
<1>2. /\ Sanitize(raw) \in Events /\ x.step = "verify" /\ x.work = db /\ x.event = Sanitize(raw)
      /\ x \in [step : Steps, work : Logs, event : Details \union {Empty}]
  BY <1>1, EventsAreDetails DEF Events, Steps
<1> HIDE DEF x
<1>3. /\ TypeOK' /\ tx'[t] = x
      /\ \A u \in Threads \ {t} : Carried(u)' /\ Prepared(u)'
  BY <1>1, <1>2, TxBecomes
<1>4. Carried(t)' /\ Prepared(t)'
  BY <1>1, <1>2, <1>3 DEF Carried, Prepared, At
<1>5. ChainHolds => ChainHolds'
  BY <1>1 DEF ChainHolds, Accepts, Legacy, Chained
<1> QED BY <1>1, <1>3, <1>4, <1>5 DEF IInv, OrderInv

\* A record with two fields replaced, whatever the sets the fields are in.
LEMMA TxMoved ==
  ASSUME NEW S, NEW L, NEW E, NEW r \in [step : S, work : L, event : E], NEW step \in S, NEW work \in L
  PROVE  LET x == [r EXCEPT !.step = step, !.work = work]
         IN  /\ x.step = step /\ x.work = work /\ x.event = r.event
             /\ x \in [step : S, work : L, event : E]
OBVIOUS

\* The next statement of a transaction leaves work, which is a log.
LEMMA GotoNext ==
  ASSUME IInv, NEW t \in Threads, ~At(t, "none"), NEW step \in Steps, NEW work \in Logs,
         Goto(t, step, work), UNCHANGED <<db, phase>>
  PROVE  /\ TypeOK' /\ tx'[t].step = step /\ tx'[t].work = work /\ tx'[t].event = tx[t].event
         /\ \A u \in Threads \ {t} : Carried(u)' /\ Prepared(u)'
         /\ ChainHolds => ChainHolds'
<1> DEFINE x == [tx[t] EXCEPT !.step = step, !.work = work]
<1>1. TypeOK
  BY DEF IInv
<1>2. tx' = [tx EXCEPT ![t] = x]
  BY <1>1 DEF Goto, TypeOK
<1>3. /\ x.step = step /\ x.work = work /\ x.event = tx[t].event
      /\ x \in [step : Steps, work : Logs, event : Details \union {Empty}]
  <2>1. tx[t] \in [step : Steps, work : Logs, event : Details \union {Empty}]
    BY <1>1 DEF TypeOK
  <2> QED BY <2>1, TxMoved
<1>4. phase = "up" /\ (\A u \in Threads \ {t} : At(u, "none")) /\ db' \in Logs
  BY <1>1, TxFields
<1> HIDE DEF x
<1>5. /\ TypeOK' /\ tx'[t] = x
      /\ \A u \in Threads \ {t} : Carried(u)' /\ Prepared(u)'
  BY <1>2, <1>3, <1>4, TxBecomes
<1>6. ChainHolds => ChainHolds'
  BY DEF ChainHolds, Accepts, Legacy, Chained
<1> QED BY <1>3, <1>5, <1>6

LEMMA VerifyKeeps ==
  ASSUME IInv, NEW t \in Threads, Verify(t)
  PROVE  IInv' /\ db' = db /\ (OrderInv => OrderInv')
<1> DEFINE work == Verified(tx[t].work)
<1>1. /\ TypeOK /\ At(t, "verify") /\ ~At(t, "none") /\ Accepts(tx[t].work)
      /\ Goto(t, "insert", work) /\ UNCHANGED <<db, phase>>
      /\ tx[t].work = db /\ tx[t].work \in Logs /\ tx[t].event \in Events
  BY TxFields DEF IInv, Verify, Carried, At
<1>2. /\ work \in Logs /\ Contents(work.rows) = Contents(db.rows) /\ InOrder(work)
  BY <1>1, VerifiedOrder
<1> HIDE DEF work
<1>3. /\ TypeOK' /\ tx'[t].step = "insert" /\ tx'[t].work = work /\ tx'[t].event = tx[t].event
      /\ \A u \in Threads \ {t} : Carried(u)' /\ Prepared(u)'
      /\ ChainHolds => ChainHolds'
  BY <1>1, <1>2, GotoNext DEF Steps
<1>4. Carried(t)' /\ Prepared(t)'
  <2>1. InOrder(tx'[t].work) /\ Contents(tx'[t].work.rows) = Contents(db'.rows) /\ tx'[t].event \in Events
    BY <1>1, <1>2, <1>3
  <2> QED BY <1>3, <2>1 DEF Carried, Prepared, At, InOrder, Chained
<1> QED BY <1>1, <1>3, <1>4 DEF IInv, OrderInv

\* What is logged is not cut at a blank, so that verifying reads it as it was written.
NeverCutAtBlank == \A raw \in Raw : CutInWord(raw)

LEMMA EventsStable ==
  ASSUME NeverCutAtBlank, NEW event \in Events
  PROVE  Sanitize(event) = event
BY SanitizeStable, DetailsAssumption DEF Events, NeverCutAtBlank

LEMMA InsertKeeps ==
  ASSUME IInv, NEW t \in Threads, Insert(t)
  PROVE  IInv' /\ db' = db /\ (NeverCutAtBlank /\ OrderInv => OrderInv')
<1> DEFINE work == Inserted(t)
<1>1. /\ TypeOK /\ At(t, "insert") /\ ~At(t, "none")
      /\ Goto(t, "head", work) /\ UNCHANGED <<db, phase>>
      /\ Contents(tx[t].work.rows) = Contents(db.rows) /\ tx[t].work \in Logs /\ tx[t].event \in Events
  BY TxFields DEF IInv, Insert, Carried, At
<1>2. work.rows = Append(tx[t].work.rows, NewRow(t)) /\ work = [tx[t].work EXCEPT !.rows = Append(@, NewRow(t))]
  BY <1>1, LogFields DEF Inserted
<1>3. /\ work \in Logs /\ Contents(work.rows) = Append(Contents(db.rows), tx[t].event)
      /\ InOrder(tx[t].work) /\ Sanitize(tx[t].event) = tx[t].event => Chained(work.rows)
  BY <1>1, <1>2, AppendedOrder, EventsAreDetails DEF NewRow
<1> HIDE DEF work
<1>4. /\ TypeOK' /\ tx'[t].step = "head" /\ tx'[t].work = work /\ tx'[t].event = tx[t].event
      /\ \A u \in Threads \ {t} : Carried(u)' /\ Prepared(u)'
      /\ ChainHolds => ChainHolds'
  BY <1>1, <1>3, GotoNext DEF Steps
<1>5. Carried(t)'
  <2>1. Contents(tx'[t].work.rows) = Append(Contents(db'.rows), tx'[t].event) /\ tx'[t].event \in Events
    BY <1>1, <1>3, <1>4
  <2> QED BY <1>4, <2>1 DEF Carried, At, Contents
<1>6. ASSUME NeverCutAtBlank, OrderInv PROVE Prepared(t)'
  <2>1. Chained(tx'[t].work.rows)
    BY <1>1, <1>3, <1>4, <1>6, EventsStable DEF OrderInv, Prepared
  <2> QED BY <1>4, <2>1 DEF Prepared, At, Chained
<1> QED BY <1>1, <1>4, <1>5, <1>6 DEF IInv, OrderInv

LEMMA WriteHeadKeeps ==
  ASSUME IInv, NEW t \in Threads, WriteHead(t)
  PROVE  IInv' /\ db' = db /\ (OrderInv => OrderInv')
<1> DEFINE old == tx[t].work
           work == [old EXCEPT !.head = HeadIs(Last(old.rows))]
<1>1. /\ TypeOK /\ At(t, "head") /\ ~At(t, "none")
      /\ Goto(t, "commit", work) /\ UNCHANGED <<db, phase>>
      /\ Contents(old.rows) = Append(Contents(db.rows), tx[t].event) /\ old \in Logs
      /\ tx[t].event \in Events
  BY TxFields DEF IInv, WriteHead, Carried, At
<1>2. /\ work = [rows |-> old.rows, head |-> HeadIs(Last(old.rows))] /\ work \in Logs
  <2>1. /\ old.rows \in Seq(Row) /\ old = [rows |-> old.rows, head |-> old.head] /\ Last(old.rows) \in Macs
    BY <1>1, LogFields
  <2>2. work = [rows |-> old.rows, head |-> HeadIs(Last(old.rows))]
    BY <2>1
  <2> QED BY <2>1, <2>2 DEF Logs, Row, HeadIs
<1>3. Chained(old.rows) => InOrder(work)
  BY <1>2 DEF InOrder, HeadIs
<1>4. work.rows = old.rows
  BY <1>2
<1> HIDE DEF work
<1>5. /\ TypeOK' /\ tx'[t].step = "commit" /\ tx'[t].work = work /\ tx'[t].event = tx[t].event
      /\ \A u \in Threads \ {t} : Carried(u)' /\ Prepared(u)'
      /\ ChainHolds => ChainHolds'
  BY <1>1, <1>2, GotoNext DEF Steps
<1>6. Carried(t)'
  <2>1. Contents(tx'[t].work.rows) = Append(Contents(db'.rows), tx'[t].event) /\ tx'[t].event \in Events
    BY <1>1, <1>4, <1>5
  <2> QED BY <1>5, <2>1 DEF Carried, At, Contents
<1>7. ASSUME OrderInv PROVE Prepared(t)'
  <2>1. InOrder(tx'[t].work)
    BY <1>1, <1>3, <1>5, <1>7 DEF OrderInv, Prepared
  <2> QED BY <1>5, <2>1 DEF Prepared, At, InOrder, Chained
<1> QED BY <1>1, <1>5, <1>6, <1>7 DEF IInv, OrderInv

LEMMA CommitKeeps ==
  ASSUME IInv, NEW t \in Threads, Commit(t)
  PROVE  /\ IInv' /\ (OrderInv => OrderInv')
         /\ \E event \in Details : Contents(db'.rows) = Append(Contents(db.rows), event)
<1>1. /\ TypeOK /\ At(t, "commit") /\ ~At(t, "none") /\ db' = tx[t].work
      /\ tx' = [tx EXCEPT ![t] = NoTx] /\ phase' = phase
      /\ tx[t].work \in Logs /\ tx[t].event \in Details
      /\ Contents(tx[t].work.rows) = Append(Contents(db.rows), tx[t].event)
  BY TxFields, EventsAreDetails DEF IInv, Commit, Leave, Carried, At
<1>2. phase = "up" /\ \A u \in Threads \ {t} : At(u, "none")
  BY <1>1, TxFields
<1>3. /\ TypeOK' /\ tx'[t] = NoTx
      /\ \A u \in Threads \ {t} : Carried(u)' /\ Prepared(u)'
  BY <1>1, <1>2, NoTxTyped, TxBecomes
<1>4. Carried(t)' /\ Prepared(t)'
  BY <1>3, NoTxTyped DEF Carried, Prepared, At
<1>5. ASSUME OrderInv PROVE ChainHolds'
  <2>1. InOrder(tx[t].work)
    BY <1>1, <1>5 DEF OrderInv, Prepared
  <2> QED BY <1>1, <2>1 DEF ChainHolds, Accepts, InOrder, Chained
<1> QED BY <1>1, <1>3, <1>4, <1>5 DEF IInv, OrderInv

LEMMA FailKeeps ==
  ASSUME IInv, NEW t \in Threads, Fail(t)
  PROVE  IInv' /\ db' = db /\ (OrderInv => OrderInv')
<1>1. /\ TypeOK /\ ~At(t, "none") /\ db' = db /\ phase' = phase /\ tx' = [tx EXCEPT ![t] = NoTx]
      /\ db \in Logs
  BY TxFields DEF IInv, Fail, Leave
<1>2. phase = "up" /\ \A u \in Threads \ {t} : At(u, "none")
  BY <1>1, TxFields
<1>3. /\ TypeOK' /\ tx'[t] = NoTx
      /\ \A u \in Threads \ {t} : Carried(u)' /\ Prepared(u)'
  BY <1>1, <1>2, NoTxTyped, TxBecomes
<1>4. Carried(t)' /\ Prepared(t)'
  BY <1>3, NoTxTyped DEF Carried, Prepared, At
<1>5. ChainHolds => ChainHolds'
  BY <1>1 DEF ChainHolds, Accepts, Legacy, Chained
<1> QED BY <1>1, <1>3, <1>4, <1>5 DEF IInv, OrderInv

LEMMA Step ==
  ASSUME IInv, [Next]_vars
  PROVE  /\ IInv'
         /\ NeverCutAtBlank /\ OrderInv => OrderInv'
         /\ \/ Contents(db'.rows) = Contents(db.rows)
            \/ \E event \in Details : Contents(db'.rows) = Append(Contents(db.rows), event)
<1>1. CASE Boot
  BY <1>1, BootKeeps
<1>2. CASE Ends
  BY <1>2, EndsKeeps
<1>3. ASSUME NEW t \in Threads, NEW raw \in Raw, Begin(t, raw)
      PROVE  IInv' /\ db' = db /\ (OrderInv => OrderInv')
  BY <1>3, BeginKeeps
<1>4. ASSUME NEW t \in Threads, Verify(t) \/ Insert(t) \/ WriteHead(t) \/ Fail(t)
      PROVE  IInv' /\ db' = db /\ (NeverCutAtBlank /\ OrderInv => OrderInv')
  BY <1>4, VerifyKeeps, InsertKeeps, WriteHeadKeeps, FailKeeps
<1>5. CASE \E t \in Threads : Commit(t)
  BY <1>5, CommitKeeps
<1>6. CASE UNCHANGED vars
  <2>1. UNCHANGED <<db, tx, phase>>
    BY <1>6 DEF vars
  <2>2. IInv'
    <3>1. TypeOK'
      BY <2>1 DEF IInv, TypeOK, At
    <3>2. \A t \in Threads : Carried(t)'
      BY <2>1 DEF IInv, Carried, At, Contents
    <3> QED BY <3>1, <3>2 DEF IInv
  <2>3. OrderInv => OrderInv'
    BY <2>1 DEF OrderInv, ChainHolds, Prepared, At, InOrder, Chained, Accepts, Legacy
  <2> QED BY <2>1, <2>2, <2>3
<1>7. CASE \E t \in Threads : Log(t)
  BY <1>3, <1>4, <1>5, <1>7 DEF Log
<1> QED BY <1>1, <1>2, <1>6, <1>7 DEF Next

LEMMA Initially == Init => IInv /\ OrderInv
<1> SUFFICES ASSUME Init PROVE IInv /\ OrderInv
  OBVIOUS
<1>1. PICK log \in OldLogs : db = [rows |-> OldRows(log), head |-> NoHead]
  BY DEF Init
<1>2. log \in Seq(Seq(Characters)) /\ Len(log) \in Nat /\ DOMAIN log = 1..Len(log)
  BY DetailsAssumption, LenProperties
<1>3. \A n \in 1..Len(log) : log[n] \in Details
  BY <1>2 DEF Details
<1>4. OldRows(log) \in Seq(Row)
  <2> DEFINE r == OldRows(log)
  <2>1. r = [n \in 1..Len(log) |-> [details |-> log[n], mac |-> Empty]]
    BY <1>2 DEF OldRows
  <2>2. r = [n \in 1..Len(log) |-> r[n]] /\ \A n \in 1..Len(log) : r[n] \in Row
    BY <1>3, <2>1, MacTypes DEF Row
  <2> HIDE DEF r
  <2> QED BY <1>2, <2>2, FunctionIsSeq DEF r
<1>5. db \in Logs
  BY <1>1, <1>4, MacTypes DEF Logs, Row, NoHead
<1>6. \A t \in Threads : tx[t] = NoTx /\ At(t, "none")
  BY NoTxTyped DEF Init, At
<1>7. TypeOK
  BY <1>5, <1>6, NoTxTyped DEF Init, TypeOK
<1>8. Legacy(db)
  <2>1. DOMAIN OldRows(log) = DOMAIN log /\ \A n \in DOMAIN log : OldRows(log)[n].mac = Empty
    BY DEF OldRows
  <2> QED BY <1>1, <2>1 DEF Legacy, NoHead
<1> QED BY <1>6, <1>7, <1>8 DEF IInv, OrderInv, Carried, Prepared, At, ChainHolds, Accepts

-----------------------------------------------------------------------------
(* The theorems                                                               *)

LEMMA AlwaysIInv == Spec => []IInv
<1>1. Init => IInv
  BY Initially
<1>2. IInv /\ [Next]_vars => IInv'
  BY Step
<1> QED BY <1>1, <1>2, PTL DEF Spec

\* TypeOK is an invariant: of any number of threads at most one is in a transaction, and
\* none while the program starts.
THEOREM TypeCorrect == Spec => []TypeOK
<1>1. IInv => TypeOK
  BY DEF IInv
<1> QED BY <1>1, AlwaysIInv, PTL

\* Whatever the details are, an entry that is in the log stays there as it is, and a step
\* appends at most one, also when a statement fails or the program dies.
THEOREM AlwaysAppendOnly == Spec => AppendOnly
<1> DEFINE Only == LET old == Contents(db.rows) new == Contents(db'.rows)
                   IN  /\ Len(new) \in {Len(old), Len(old) + 1}
                       /\ SubSeq(new, 1, Len(old)) = old
<1>1. ASSUME IInv, [Next]_vars PROVE Only
  <2> DEFINE old == Contents(db.rows)
             new == Contents(db'.rows)
  <2>1. old \in Seq(Details) /\ Len(old) \in Nat
    <3>1. /\ Len(db.rows) \in Nat /\ DOMAIN db.rows = 1..Len(db.rows)
          /\ \A n \in 1..Len(db.rows) : db.rows[n].details \in Details
      BY <1>1, LogFields DEF IInv, TypeOK
    <3>2. old = [n \in 1..Len(db.rows) |-> db.rows[n].details]
      BY <3>1 DEF Contents
    <3>3. old = [n \in 1..Len(db.rows) |-> old[n]] /\ \A n \in 1..Len(db.rows) : old[n] \in Details
      BY <3>1, <3>2
    <3> HIDE DEF old
    <3> QED BY <3>1, <3>3, FunctionIsSeq
  <2>2. new = old \/ \E event \in Details : new = Append(old, event)
    BY <1>1, Step
  <2> HIDE DEF old, new
  <2>3. /\ Len(new) \in {Len(old), Len(old) + 1}
        /\ \A n \in 1..Len(old) : new[n] = old[n]
    BY <2>1, <2>2, AppendProperties
  <2>4. \A n \in 1..Len(old) : new[n] \in Details
    BY <2>1, <2>3, ElementOfSeq
  <2>5. /\ SubSeq(new, 1, Len(old)) \in Seq(Details)
        /\ Len(SubSeq(new, 1, Len(old))) = Len(old)
        /\ \A n \in 1..Len(old) : SubSeq(new, 1, Len(old))[n] = old[n]
    <3>1. /\ SubSeq(new, 1, Len(old)) \in Seq(Details)
          /\ Len(SubSeq(new, 1, Len(old))) = IF 1 <= Len(old) THEN Len(old) - 1 + 1 ELSE 0
          /\ \A n \in 1..(Len(old) - 1 + 1) : SubSeq(new, 1, Len(old))[n] = new[1 + n - 1]
      BY <2>1, <2>4, SubSeqProperties
    <3> QED BY <2>1, <2>3, <3>1
  <2>6. SubSeq(new, 1, Len(old)) = old
    BY <2>1, <2>5, SeqEqual
  <2> QED BY <2>3, <2>6 DEF old, new
<1>2. IInv /\ [Next]_vars => [Only]_vars
  BY <1>1
<1>3. [][Only]_vars => AppendOnly
  BY DEF AppendOnly
<1> HIDE DEF Only
<1> QED BY <1>2, <1>3, AlwaysIInv, PTL DEF Spec

\* The committed log is in order whatever fails and wherever the program dies, if no text is
\* cut at a blank: that is the only way it can come to be refused.
THEOREM ChainAlwaysHolds ==
  ASSUME NeverCutAtBlank
  PROVE  Spec => []ChainHolds
<1>1. Init => IInv /\ OrderInv
  BY Initially
<1>2. IInv /\ OrderInv /\ [Next]_vars => (IInv /\ OrderInv)'
  BY NeverCutAtBlank, Step
<1>3. OrderInv => ChainHolds
  BY DEF OrderInv
<1> QED BY <1>1, <1>2, <1>3, PTL DEF Spec
=============================================================================
