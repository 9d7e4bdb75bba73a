----------------------------- MODULE CloudProofs -----------------------------
(***************************************************************************)
(* Theorems about what the cloud sends: product schemas (SchemaCache), events   *)
(* that are delivered again (EventRouting), and lists that change while their   *)
(* pages are read (Paging).                                                *)
(***************************************************************************)
EXTENDS SchemaCache, EventRouting, Paging, FiniteSetTheorems, SequenceTheorems, TLAPS

-----------------------------------------------------------------------------
(* Putting into sequences, and taking out. *)

(* Which element lies where when one is put in or taken out.                  *)
LEMMA Inserted ==
    ASSUME NEW S, NEW s \in Seq(S), NEW i \in 1 .. Len(s) + 1, NEW e \in S
    PROVE  /\ InsertAt(s, i, e) \in Seq(S) /\ Len(InsertAt(s, i, e)) = Len(s) + 1
           /\ \A j \in 1 .. Len(s) + 1 :
                InsertAt(s, i, e)[j] = IF j < i THEN s[j] ELSE IF j = i THEN e ELSE s[j - 1]
<1> DEFINE a == SubSeq(s, 1, i - 1)
           c == SubSeq(s, i, Len(s))
<1>1. a \in Seq(S) /\ Len(a) = i - 1 /\ \A j \in 1 .. i - 1 : a[j] = s[j]
  OBVIOUS
<1>2. /\ c \in Seq(S) /\ Len(c) = Len(s) - i + 1
      /\ \A j \in 1 .. Len(s) - i + 1 : c[j] = s[i + j - 1]
  OBVIOUS
<1>3. InsertAt(s, i, e) = a \o <<e>> \o c
  BY DEF InsertAt
<1> HIDE DEF a, c
<1> DEFINE b == a \o <<e>>
<1>4. /\ b \in Seq(S) /\ Len(b) = i
      /\ \A j \in 1 .. i : b[j] = IF j < i THEN a[j] ELSE e
  BY <1>1
<1> HIDE DEF b
<1>5. /\ b \o c \in Seq(S) /\ Len(b \o c) = Len(s) + 1
      /\ \A j \in 1 .. Len(s) + 1 : (b \o c)[j] = IF j <= i THEN b[j] ELSE c[j - i]
  BY <1>2, <1>4, ConcatProperties
<1>6. InsertAt(s, i, e) = b \o c
  BY <1>3 DEF b
<1>7. ASSUME NEW j \in 1 .. Len(s) + 1
      PROVE  (b \o c)[j] = IF j < i THEN s[j] ELSE IF j = i THEN e ELSE s[j - 1]
  <2>0. i \in Int /\ j \in Int
    OBVIOUS
  <2>1. CASE j <= i
    BY <1>1, <1>4, <1>5, <2>1
  <2>2. CASE j > i
    <3>1. (b \o c)[j] = c[j - i] /\ j - i \in 1 .. Len(s) - i + 1 /\ i + (j - i) - 1 = j - 1
      BY <1>5, <2>2
    <3> QED
      BY <1>2, <2>2, <3>1
  <2>3. j <= i \/ j > i
    BY <2>0
  <2> QED
    BY <2>1, <2>2, <2>3
<1> QED
  BY <1>5, <1>6, <1>7

LEMMA Removed ==
    ASSUME NEW S, NEW s \in Seq(S), NEW i \in 1 .. Len(s)
    PROVE  /\ RemoveAt(s, i) \in Seq(S) /\ Len(RemoveAt(s, i)) = Len(s) - 1
           /\ \A j \in 1 .. Len(s) - 1 :
                RemoveAt(s, i)[j] = IF j < i THEN s[j] ELSE s[j + 1]
<1> DEFINE a == SubSeq(s, 1, i - 1)
           c == SubSeq(s, i + 1, Len(s))
<1>1. a \in Seq(S) /\ Len(a) = i - 1 /\ \A j \in 1 .. i - 1 : a[j] = s[j]
  OBVIOUS
<1>2. /\ c \in Seq(S) /\ Len(c) = Len(s) - i
      /\ \A j \in 1 .. Len(s) - i : c[j] = s[i + j]
  OBVIOUS
<1>3. RemoveAt(s, i) = a \o c
  BY DEF RemoveAt
<1> HIDE DEF a, c
<1>4. /\ a \o c \in Seq(S) /\ Len(a \o c) = Len(s) - 1
      /\ \A j \in 1 .. Len(s) - 1 : (a \o c)[j] = IF j <= i - 1 THEN a[j] ELSE c[j - (i - 1)]
  <2>1. /\ a \o c \in Seq(S) /\ Len(a \o c) = Len(a) + Len(c)
        /\ \A j \in 1 .. Len(a) + Len(c) :
             (a \o c)[j] = IF j <= Len(a) THEN a[j] ELSE c[j - Len(a)]
    BY <1>1, <1>2, ConcatProperties
  <2>2. Len(a) + Len(c) = Len(s) - 1
    BY <1>1, <1>2
  <2> QED
    BY <1>1, <2>1, <2>2
<1>5. ASSUME NEW j \in 1 .. Len(s) - 1 PROVE RemoveAt(s, i)[j] = IF j < i THEN s[j] ELSE s[j + 1]
  BY <1>1, <1>2, <1>3, <1>4
<1> QED
  BY <1>3, <1>4, <1>5

(* What is taken out by its value, when no value is there twice.               *)
LEMMA RemovedFirst ==
    ASSUME NEW S, NEW s \in Seq(S), IsInjective(s), NEW i \in 1 .. Len(s)
    PROVE  RemoveFirst(s, s[i]) = RemoveAt(s, i)
<1> DEFINE I == {j \in 1 .. Len(s) : s[j] = s[i]}
<1>1. I = {i}
  BY DEF IsInjective
<1>2. Min(I) = i
  BY <1>1 DEF Min
<1>3. SelectInSeq(s, LAMBDA v : v = s[i]) = i
  BY <1>1, <1>2 DEF SelectInSeq
<1> QED
  BY <1>3 DEF RemoveFirst

LEMMA RemovedNone ==
    ASSUME NEW S, NEW s \in Seq(S), NEW k, k \notin Range(s)
    PROVE  RemoveFirst(s, k) = s
BY DEF RemoveFirst, Range

-----------------------------------------------------------------------------
(* SchemaCache *)

LEMMA CacheInit == InitCache => CacheInv
<1> SUFFICES ASSUME InitCache PROVE CacheInv
  OBVIOUS
<1> USE VersionsAssumption DEF InitCache, Versions, Steps
<1>1. CacheTypeOK
  <2>1. /\ step \in [Refreshes -> Steps] /\ answer \in [Refreshes -> Versions]
        /\ base \in [Refreshes -> Versions]
    OBVIOUS
  <2>2. version \in Versions /\ stored \in Versions /\ cached \in Versions
    OBVIOUS
  <2> QED
    BY <2>1, <2>2 DEF CacheTypeOK
<1>2. AloneInv
  BY DEF AloneInv
<1>3. PromiseInv
  BY DEF PromiseInv
<1> QED
  BY <1>1, <1>2, <1>3 DEF CacheInv

LEMMA CacheTypeStep == CacheTypeOK /\ [NextCache]_cacheVars => CacheTypeOK'
<1> SUFFICES ASSUME CacheTypeOK, [NextCache]_cacheVars PROVE CacheTypeOK'
  OBVIOUS
<1> USE VersionsAssumption DEF CacheTypeOK, Versions, Goto, refreshes
<1>1. CASE ServerChanges
  BY <1>1 DEF ServerChanges
<1>2. ASSUME NEW t \in Refreshes, NEW byHand \in BOOLEAN, Begin(t, byHand) PROVE CacheTypeOK'
  BY <1>2 DEF Begin, Steps
<1>3. ASSUME NEW t \in Refreshes, Listed(t) PROVE CacheTypeOK'
  BY <1>3 DEF Listed, Wanted, Steps
<1>4. ASSUME NEW t \in Refreshes, Load(t) PROVE CacheTypeOK'
  BY <1>4 DEF Load, Wanted, Steps
<1>5. ASSUME NEW t \in Refreshes, ServerAnswers(t) \/ Fetched(t) \/ FetchFails(t) PROVE CacheTypeOK'
  BY <1>5 DEF ServerAnswers, Fetched, FetchFails, Steps
<1>6. ASSUME NEW t \in Refreshes, End(t) PROVE CacheTypeOK'
  BY <1>6 DEF End, Steps
<1>7. CASE Save
  <2>1. stored' \in 0 .. MaxVersion
    BY <1>7 DEF Save
  <2> QED
    BY <1>7, <2>1 DEF Save
<1>8. CASE NewCache
  <2>1. cached' \in 0 .. MaxVersion /\ promised' \in 0 .. MaxVersion
    BY <1>8 DEF NewCache
  <2> QED
    BY <1>8, <2>1 DEF NewCache
<1>9. CASE UNCHANGED cacheVars
  BY <1>9 DEF cacheVars
<1> QED
  BY <1>1, <1>2, <1>3, <1>4, <1>5, <1>6, <1>7, <1>8, <1>9 DEF NextCache

LEMMA AloneStep == CacheInv /\ [NextCache]_cacheVars => AloneInv'
<1> SUFFICES ASSUME CacheInv, [NextCache]_cacheVars PROVE AloneInv'
  OBVIOUS
<1> USE VersionsAssumption
        DEF CacheInv, CacheTypeOK, AloneInv, PromiseInv, Versions, Goto, refreshes, Idle
<1>1. CASE ServerChanges
  BY <1>1 DEF ServerChanges
<1>2. ASSUME NEW t \in Refreshes, NEW byHand \in BOOLEAN, Begin(t, byHand) PROVE AloneInv'
  <2>1. /\ step[t] = "idle" /\ t \notin manual
        /\ step' = [step EXCEPT ![t] = "listing"] /\ storeRead' = storeRead
    BY <1>2 DEF Begin
  <2>2. ASSUME NEW u \in alone' PROVE u = t /\ \A v \in Refreshes \ {t} : step[v] = "idle"
    BY <1>2, <2>2 DEF Begin
  <2>3. t \in manual' => forceFlag'
    BY <1>2, <2>1 DEF Begin
  <2>4. \A u \in Refreshes : step'[u] = "idle" => u \notin manual'
    BY <1>2, <2>1 DEF Begin
  <2>5. step'[t] = "listing" /\ \A v \in Refreshes \ {t} : step'[v] = step[v]
    BY <2>1
  <2> QED
    BY <2>1, <2>2, <2>3, <2>4, <2>5
<1>3. ASSUME NEW t \in Refreshes, Listed(t) PROVE AloneInv'
  BY <1>3 DEF Listed, Wanted
<1>4. ASSUME NEW t \in Refreshes, Load(t) PROVE AloneInv'
  <2>1. /\ step[t] = "loading" /\ step' = [step EXCEPT ![t] = Wanted(t \in forcing, cached')]
        /\ UNCHANGED <<storeRead, forceFlag, manual, forcing, answer, base, alone>>
    BY <1>4 DEF Load
  <2>2. t \in alone /\ t \in manual => step'[t] = "asking"
    BY <2>1 DEF Wanted
  <2>3. step'[t] \in {"asking", "building"} /\ \A v \in Refreshes \ {t} : step'[v] = step[v]
    BY <2>1 DEF Wanted
  <2>4. \A u \in alone : u = t \/ step[t] = "idle"
    OBVIOUS
  <2> QED
    BY <2>1, <2>2, <2>3, <2>4
<1>5. ASSUME NEW t \in Refreshes, ServerAnswers(t) PROVE AloneInv'
  BY <1>5 DEF ServerAnswers
<1>6. ASSUME NEW t \in Refreshes, Fetched(t) PROVE AloneInv'
  BY <1>6 DEF Fetched
<1>7. ASSUME NEW t \in Refreshes, FetchFails(t) PROVE AloneInv'
  BY <1>7 DEF FetchFails
<1>8. ASSUME NEW t \in Refreshes, End(t) PROVE AloneInv'
  BY <1>8 DEF End
<1>9. CASE Save \/ NewCache
  BY <1>9 DEF Save, NewCache
<1>10. CASE UNCHANGED cacheVars
  BY <1>10 DEF cacheVars
<1> QED
  BY <1>1, <1>2, <1>3, <1>4, <1>5, <1>6, <1>7, <1>8, <1>9, <1>10 DEF NextCache

LEMMA PromiseStep == CacheInv /\ [NextCache]_cacheVars => PromiseInv'
<1> SUFFICES ASSUME CacheInv, [NextCache]_cacheVars PROVE PromiseInv'
  OBVIOUS
<1> USE VersionsAssumption
        DEF CacheInv, CacheTypeOK, AloneInv, PromiseInv, Versions, Goto, refreshes, Idle
<1>1. CASE ServerChanges
  BY <1>1 DEF ServerChanges
<1>2. ASSUME NEW t \in Refreshes, NEW byHand \in BOOLEAN, Begin(t, byHand) PROVE PromiseInv'
  BY <1>2 DEF Begin
<1>3. ASSUME NEW t \in Refreshes, Listed(t) PROVE PromiseInv'
  BY <1>3 DEF Listed, Wanted
<1>4. ASSUME NEW t \in Refreshes, Load(t) PROVE PromiseInv'
  BY <1>4 DEF Load, Wanted
<1>5. ASSUME NEW t \in Refreshes, ServerAnswers(t) PROVE PromiseInv'
  BY <1>5 DEF ServerAnswers
<1>6. ASSUME NEW t \in Refreshes, Fetched(t) PROVE PromiseInv'
  BY <1>6 DEF Fetched
<1>7. ASSUME NEW t \in Refreshes, FetchFails(t) PROVE PromiseInv'
  BY <1>7 DEF FetchFails
<1>8. ASSUME NEW t \in Refreshes, End(t) PROVE PromiseInv'
  BY <1>8 DEF End
<1>9. CASE Save \/ NewCache
  BY <1>9 DEF Save, NewCache
<1>10. CASE UNCHANGED cacheVars
  BY <1>10 DEF cacheVars
<1> QED
  BY <1>1, <1>2, <1>3, <1>4, <1>5, <1>6, <1>7, <1>8, <1>9, <1>10 DEF NextCache

(* A manual refresh that nothing overlapped is not undone: what is cached never      *)
(* becomes older than what the server had when it began, however late the store  *)
(* is read or an answer comes.                                               *)
THEOREM SchemaFreshAlways == SpecCache => []SchemaFresh
<1>1. CacheInv /\ [NextCache]_cacheVars => CacheInv'
  BY CacheTypeStep, AloneStep, PromiseStep DEF CacheInv
<1>2. CacheInv => SchemaFresh
  BY DEF CacheInv, PromiseInv, SchemaFresh
<1> QED
  BY CacheInit, <1>1, <1>2, PTL DEF SpecCache

-----------------------------------------------------------------------------
(* EventRouting *)

LEMMA Moved ==
    ASSUME NEW S, NEW s \in Seq(S), IsInjective(s), NEW i \in 1 .. Len(s)
    PROVE  /\ MoveToEnd(s, s[i]) \in Seq(S) /\ Len(MoveToEnd(s, s[i])) = Len(s)
           /\ \A j \in 1 .. Len(s) : MoveToEnd(s, s[i])[j] =
                IF j = Len(s) THEN s[i] ELSE IF j < i THEN s[j] ELSE s[j + 1]
<1> DEFINE r == RemoveAt(s, i)
<1>1. MoveToEnd(s, s[i]) = Append(r, s[i])
  BY RemovedFirst DEF MoveToEnd
<1>2. /\ r \in Seq(S) /\ Len(r) = Len(s) - 1
      /\ \A j \in 1 .. Len(s) - 1 : r[j] = IF j < i THEN s[j] ELSE s[j + 1]
  BY Removed
<1> HIDE DEF r
<1>3. s[i] \in S
  OBVIOUS
<1>4. /\ Append(r, s[i]) \in Seq(S) /\ Len(Append(r, s[i])) = Len(r) + 1
      /\ \A j \in 1 .. Len(r) : Append(r, s[i])[j] = r[j]
      /\ Append(r, s[i])[Len(r) + 1] = s[i]
  BY <1>2, <1>3, AppendProperties
<1>5. ASSUME NEW j \in 1 .. Len(s)
      PROVE  Append(r, s[i])[j] = IF j = Len(s) THEN s[i] ELSE IF j < i THEN s[j] ELSE s[j + 1]
  BY <1>2, <1>4
<1> QED
  BY <1>1, <1>2, <1>4, <1>5

LEMMA MovedNew ==
    ASSUME NEW S, NEW s \in Seq(S), NEW k, k \notin Range(s)
    PROVE  MoveToEnd(s, k) = Append(s, k)
BY RemovedNone DEF MoveToEnd

(* A window at the end of a sequence that is as long as may be is its newest part.  *)
LEMMA NewestWindow ==
    ASSUME NEW S, NEW t \in Seq(S), NEW u \in Seq(S), NEW n \in Nat, NEW off \in Nat,
           Len(t) = off + Len(u), \A j \in 1 .. Len(u) : t[off + j] = u[j],
           Len(u) = n \/ (off = 0 /\ Len(u) <= n)
    PROVE  Newest(t, n) = u
<1> DEFINE w == SubSeq(t, off + 1, Len(t))
<1>1. Newest(t, n) = w
  BY DEF Newest
<1>2. w \in Seq(S) /\ Len(w) = Len(u) /\ \A j \in 1 .. Len(u) : w[j] = t[off + 1 + j - 1]
  <2>1. \A j \in off + 1 .. Len(t) : t[j] \in S
    OBVIOUS
  <2>2. off + 1 \in Int /\ Len(t) \in Int /\ Len(u) \in Nat
    OBVIOUS
  <2>3. /\ w \in Seq(S) /\ Len(w) = IF off + 1 <= Len(t) THEN Len(t) - (off + 1) + 1 ELSE 0
        /\ \A j \in 1 .. Len(t) - (off + 1) + 1 : w[j] = t[off + 1 + j - 1]
    BY <2>1, <2>2, SubSeqProperties
  <2> HIDE DEF w
  <2>4. Len(t) - (off + 1) + 1 = Len(u)
    BY <2>2
  <2>5. Len(w) = Len(u)
    BY <2>2, <2>3
  <2> QED
    BY <2>3, <2>4, <2>5
<1> HIDE DEF w
<1>3. ASSUME NEW j \in 1 .. Len(u) PROVE w[j] = u[j]
  <2>1. off + 1 + j - 1 = off + j
    OBVIOUS
  <2> QED
    BY <1>2, <2>1
<1>4. w = u
  BY <1>2, <1>3, SeqEqual
<1> QED
  BY <1>1, <1>4

(* How many are not among the newest, and what is.                            *)
Older(s, n) == IF Len(s) > n THEN Len(s) - n ELSE 0

LEMMA NewestElements ==
    ASSUME NEW S, NEW s \in Seq(S), NEW n \in Nat
    PROVE  /\ Newest(s, n) \in Seq(S) /\ Len(Newest(s, n)) = Len(s) - Older(s, n)
           /\ \A j \in 1 .. Len(s) - Older(s, n) : Newest(s, n)[j] = s[Older(s, n) + j]
<1>1. Older(s, n) \in 0 .. Len(s) /\ Len(s) \in Nat
  BY DEF Older
<1>2. Newest(s, n) = SubSeq(s, Older(s, n) + 1, Len(s))
  BY DEF Newest, Older
<1> QED
  BY <1>1, <1>2

(* Remembering a key after the newest of all keys is remembering the newest after    *)
(* the key.                                                                  *)
LEMMA RecentKept ==
    ASSUME NEW S, NEW d \in Seq(S), IsInjective(d), NEW k \in S
    PROVE  SeenAfter(Newest(d, MaxKeys), k) = Newest(MoveToEnd(d, k), MaxKeys)
<1> DEFINE s == Newest(d, MaxKeys)
<1>0. MaxKeys \in Nat /\ MaxKeys >= 1
  BY KeysBoundAssumption
<1> DEFINE off == Older(d, MaxKeys)
           n   == Len(d) - off
<1>1. /\ n \in Nat /\ off \in Nat
      /\ Len(d) = off + n /\ (n = MaxKeys \/ (off = 0 /\ n <= MaxKeys))
      /\ s \in Seq(S) /\ Len(s) = n
      /\ \A j \in 1 .. n : s[j] = d[off + j]
  <2>1. n \in Nat /\ off \in Nat /\ Len(d) = off + n /\ (n = MaxKeys \/ (off = 0 /\ n <= MaxKeys))
    BY <1>0 DEF Older
  <2>2. s \in Seq(S) /\ Len(s) = n /\ \A j \in 1 .. n : s[j] = d[off + j]
    BY <1>0, NewestElements
  <2> QED
    BY <2>1, <2>2
<1> HIDE DEF s, n, off
<1>2. IsInjective(s)
  <2> SUFFICES ASSUME NEW a \in 1 .. n, NEW b \in 1 .. n, s[a] = s[b] PROVE a = b
    BY <1>1 DEF IsInjective
  <2>1. off + a \in 1 .. Len(d) /\ off + b \in 1 .. Len(d) /\ d[off + a] = d[off + b]
    BY <1>1
  <2> QED
    BY <1>1, <2>1 DEF IsInjective
<1>3. ASSUME NEW i \in 1 .. n, s[i] = k PROVE SeenAfter(s, k) = Newest(MoveToEnd(d, k), MaxKeys)
  <2>1. off + i \in 1 .. Len(d) /\ d[off + i] = k
    BY <1>1, <1>3
  <2> DEFINE t == MoveToEnd(d, k)
             u == MoveToEnd(s, k)
  <2>2. /\ t \in Seq(S) /\ Len(t) = off + n
        /\ \A j \in 1 .. off + n : t[j] =
             IF j = off + n THEN k ELSE IF j < off + i THEN d[j] ELSE d[j + 1]
    <3>1. /\ MoveToEnd(d, d[off + i]) \in Seq(S) /\ Len(MoveToEnd(d, d[off + i])) = Len(d)
          /\ \A j \in 1 .. Len(d) : MoveToEnd(d, d[off + i])[j] =
               IF j = Len(d) THEN d[off + i] ELSE IF j < off + i THEN d[j] ELSE d[j + 1]
      BY <2>1, Moved, Zenon
    <3> QED
      BY <1>1, <2>1, <3>1
  <2>3. i \in 1 .. Len(s)
    BY <1>1
  <2>4. /\ u \in Seq(S) /\ Len(u) = n
        /\ \A j \in 1 .. n : u[j] = IF j = n THEN k ELSE IF j < i THEN s[j] ELSE s[j + 1]
    BY <1>1, <1>2, <1>3, <2>3, Moved
  <2> HIDE DEF t, u
  <2>5. ASSUME NEW j \in 1 .. n PROVE t[off + j] = u[j]
    <3>1. CASE j = n
      BY <1>1, <2>2, <2>4, <3>1
    <3>2. CASE j # n /\ j < i
      BY <1>1, <2>2, <2>4, <3>2
    <3>3. CASE j # n /\ j >= i
      <4>1. t[off + j] = d[off + j + 1] /\ u[j] = s[j + 1] /\ j + 1 \in 1 .. n
        BY <1>1, <2>2, <2>4, <3>3
      <4>2. off + (j + 1) = off + j + 1
        BY <1>1
      <4> QED
        BY <1>1, <4>1, <4>2
    <3> QED
      BY <3>1, <3>2, <3>3
  <2>6. Newest(t, MaxKeys) = u
    <3>1. /\ off \in Nat /\ t \in Seq(S) /\ u \in Seq(S)
          /\ Len(t) = off + Len(u) /\ \A j \in 1 .. Len(u) : t[off + j] = u[j]
          /\ Len(u) = MaxKeys \/ (off = 0 /\ Len(u) <= MaxKeys)
      BY <1>1, <2>2, <2>4, <2>5
    <3> QED
      BY <1>0, <3>1, NewestWindow, Zenon
  <2>7. k \in Range(s)
    BY <1>1, <1>3 DEF Range
  <2> QED
    BY <2>6, <2>7 DEF SeenAfter, t, u
<1>4. ASSUME k \notin Range(s) PROVE SeenAfter(s, k) = Newest(MoveToEnd(d, k), MaxKeys)
  <2> DEFINE a == Append(s, k)
             t == MoveToEnd(d, k)
             u == Newest(a, MaxKeys)
  <2>1. a \in Seq(S) /\ Len(a) = n + 1 /\ (\A j \in 1 .. n : a[j] = s[j]) /\ a[n + 1] = k
    BY <1>1, AppendProperties
  <2>2. SeenAfter(s, k) = u
    BY <1>4 DEF SeenAfter
  <2> HIDE DEF a
  <2> DEFINE o == Older(a, MaxKeys)
             m == Len(a) - o
  <2>3. /\ m \in Nat /\ o \in Nat
        /\ n + 1 = o + m /\ (m = MaxKeys \/ (o = 0 /\ m <= MaxKeys))
        /\ u \in Seq(S) /\ Len(u) = m /\ \A j \in 1 .. m : u[j] = a[o + j]
    <3>1. m \in Nat /\ o \in Nat /\ n + 1 = o + m /\ (m = MaxKeys \/ (o = 0 /\ m <= MaxKeys))
      BY <1>0, <1>1, <2>1 DEF Older
    <3>2. u \in Seq(S) /\ Len(u) = m /\ \A j \in 1 .. m : u[j] = a[o + j]
      <4>1. a \in Seq(S)
        BY <2>1
      <4> QED
        BY <1>0, <4>1, NewestElements, Zenon
    <3> QED
      BY <3>1, <3>2
  <2> HIDE DEF u, o, m
  <2>4. CASE k \notin Range(d)
    <3>1. /\ t \in Seq(S) /\ Len(t) = off + n + 1
          /\ (\A j \in 1 .. off + n : t[j] = d[j]) /\ t[off + n + 1] = k
      <4>1. t = Append(d, k)
        BY <2>4, MovedNew
      <4>2. /\ Append(d, k) \in Seq(S) /\ Len(Append(d, k)) = Len(d) + 1
            /\ \A j \in 1 .. Len(d) : Append(d, k)[j] = d[j]
            /\ Append(d, k)[Len(d) + 1] = k
        BY AppendProperties
      <4> QED
        BY <1>1, <4>1, <4>2
    <3> HIDE DEF t
    <3>2. ASSUME NEW j \in 1 .. n + 1 PROVE t[off + j] = a[j]
      <4>1. CASE j = n + 1
        BY <1>1, <2>1, <3>1, <4>1
      <4>2. CASE j \in 1 .. n
        BY <1>1, <2>1, <3>1, <4>2
      <4>3. j = n + 1 \/ j \in 1 .. n
        BY <1>1
      <4> QED
        BY <4>1, <4>2, <4>3
    <3>3. ASSUME NEW j \in 1 .. m PROVE t[off + o + j] = u[j]
      <4>1. o + j \in 1 .. n + 1 /\ off + (o + j) = off + o + j
        BY <1>1, <2>3
      <4> QED
        BY <2>3, <3>2, <4>1
    <3>4. off + o \in Nat /\ Len(t) = off + o + m /\ (m = MaxKeys \/ (off + o = 0 /\ m <= MaxKeys))
      BY <1>0, <1>1, <2>3, <3>1
    <3>5. Newest(t, MaxKeys) = u
      <4>1. /\ Len(t) = off + o + Len(u) /\ \A j \in 1 .. Len(u) : t[off + o + j] = u[j]
            /\ Len(u) = MaxKeys \/ (off + o = 0 /\ Len(u) <= MaxKeys)
        BY <2>3, <3>3, <3>4
      <4> DEFINE b == off + o
      <4>2. /\ b \in Nat /\ Len(t) = b + Len(u) /\ \A j \in 1 .. Len(u) : t[b + j] = u[j]
            /\ Len(u) = MaxKeys \/ (b = 0 /\ Len(u) <= MaxKeys)
        BY <3>4, <4>1
      <4> HIDE DEF b
      <4> QED
        BY <1>0, <2>3, <3>1, <4>2, NewestWindow, Zenon
    <3> QED
      BY <2>2, <3>5 DEF t
  <2>5. CASE k \in Range(d)
    <3>1. PICK i \in 1 .. off + n : d[i] = k
      BY <1>1, <2>5 DEF Range
    <3>2. i <= off
      <4> SUFFICES ASSUME i > off PROVE FALSE
        BY <1>1
      <4>1. i - off \in 1 .. n /\ off + (i - off) = i
        BY <1>1
      <4>2. s[i - off] = k
        BY <1>1, <3>1, <4>1
      <4> QED
        BY <1>1, <1>4, <4>1, <4>2 DEF Range
    <3>3. n = MaxKeys /\ m = n /\ o = 1
      BY <1>0, <1>1, <2>3, <3>2
    <3>4. i \in 1 .. Len(d)
      BY <1>1
    <3>5. /\ t \in Seq(S) /\ Len(t) = off + n
          /\ \A j \in 1 .. off + n : t[j] =
               IF j = off + n THEN k ELSE IF j < i THEN d[j] ELSE d[j + 1]
      <4>1. /\ MoveToEnd(d, d[i]) \in Seq(S) /\ Len(MoveToEnd(d, d[i])) = Len(d)
            /\ \A j \in 1 .. Len(d) : MoveToEnd(d, d[i])[j] =
                 IF j = Len(d) THEN d[i] ELSE IF j < i THEN d[j] ELSE d[j + 1]
        BY <3>4, Moved, Zenon
      <4> QED
        BY <1>1, <3>1, <4>1
    <3> HIDE DEF t
    <3>6. ASSUME NEW j \in 1 .. n PROVE t[off + j] = u[j]
      <4>1. u[j] = a[j + 1]
        <5>1. u[j] = a[1 + j] /\ 1 + j = j + 1
          BY <2>3, <3>3
        <5> QED
          BY <5>1
      <4>2. CASE j = n
        BY <2>1, <3>5, <4>1, <4>2
      <4>3. CASE j # n
        <5>1. t[off + j] = d[off + j + 1] /\ j + 1 \in 1 .. n
          BY <1>1, <3>2, <3>5, <4>3
        <5>2. a[j + 1] = d[off + (j + 1)] /\ off + (j + 1) = off + j + 1
          BY <1>1, <2>1, <5>1
        <5> QED
          BY <4>1, <5>1, <5>2
      <4> QED
        BY <4>2, <4>3
    <3>7. Newest(t, MaxKeys) = u
      <4>1. /\ off \in Nat /\ t \in Seq(S) /\ u \in Seq(S)
            /\ Len(t) = off + Len(u) /\ \A j \in 1 .. Len(u) : t[off + j] = u[j]
            /\ Len(u) = MaxKeys
        BY <1>1, <2>3, <3>3, <3>5, <3>6
      <4> QED
        BY <1>0, <4>1, NewestWindow, Zenon
    <3> QED
      BY <2>2, <3>7 DEF t
  <2> QED
    BY <2>4, <2>5
<1>5. k \in Range(s) => \E i \in 1 .. n : s[i] = k
  BY <1>1 DEF Range
<1>6. SeenAfter(s, k) = Newest(MoveToEnd(d, k), MaxKeys)
  BY <1>3, <1>4, <1>5
<1> QED
  BY <1>6 DEF s

LEMMA MovedTyped ==
    ASSUME NEW S, NEW s \in Seq(S), IsInjective(s), NEW k \in S
    PROVE  /\ MoveToEnd(s, k) \in Seq(S) /\ IsInjective(MoveToEnd(s, k))
           /\ Range(MoveToEnd(s, k)) = Range(s) \cup {k}
<1>1. CASE k \notin Range(s)
  <2> DEFINE t == Append(s, k)
  <2>1. t \in Seq(S) /\ Len(t) = Len(s) + 1 /\ t[Len(s) + 1] = k
        /\ \A j \in 1 .. Len(s) : t[j] = s[j]
    BY AppendProperties
  <2>2. MoveToEnd(s, k) = t
    BY <1>1, MovedNew
  <2> HIDE DEF t
  <2>3. IsInjective(t)
    BY <1>1, <2>1 DEF IsInjective, Range
  <2>4. Range(t) = Range(s) \cup {k}
    BY <2>1 DEF Range
  <2> QED
    BY <2>1, <2>2, <2>3, <2>4
<1>2. CASE k \in Range(s)
  <2>1. PICK i \in 1 .. Len(s) : s[i] = k
    BY <1>2 DEF Range
  <2> DEFINE t == MoveToEnd(s, k)
  <2>2. /\ t \in Seq(S) /\ Len(t) = Len(s)
        /\ \A j \in 1 .. Len(s) : t[j] =
             IF j = Len(s) THEN k ELSE IF j < i THEN s[j] ELSE s[j + 1]
    BY <2>1, Moved
  <2> HIDE DEF t
  <2> DEFINE from(j) == IF j = Len(s) THEN i ELSE IF j < i THEN j ELSE j + 1
             to(j)   == IF j = i THEN Len(s) ELSE IF j < i THEN j ELSE j - 1
  <2>3. \A j \in 1 .. Len(s) : from(j) \in 1 .. Len(s) /\ to(from(j)) = j
    OBVIOUS
  <2>4. \A j \in 1 .. Len(s) : to(j) \in 1 .. Len(s) /\ from(to(j)) = j
    OBVIOUS
  <2>5. \A j \in 1 .. Len(s) : t[j] = s[from(j)]
    BY <2>1, <2>2
  <2> HIDE DEF from, to
  <2>6. IsInjective(t)
    <3> SUFFICES ASSUME NEW a \in 1 .. Len(s), NEW b \in 1 .. Len(s), t[a] = t[b] PROVE a = b
      BY <2>2 DEF IsInjective
    <3>1. s[from(a)] = s[from(b)] /\ from(a) \in 1 .. Len(s) /\ from(b) \in 1 .. Len(s)
      BY <2>3, <2>5
    <3>2. from(a) = from(b)
      BY <3>1 DEF IsInjective
    <3> QED
      BY <2>3, <3>2
  <2>7. Range(t) = Range(s)
    <3>1. \A j \in 1 .. Len(s) : t[j] \in Range(s)
      BY <2>3, <2>5 DEF Range
    <3>2. \A j \in 1 .. Len(s) : s[j] = t[to(j)]
      BY <2>4, <2>5
    <3> QED
      <4>1. Range(t) \subseteq Range(s)
        BY <2>2, <3>1 DEF Range
      <4>2. Range(s) \subseteq Range(t)
        BY <2>2, <2>4, <3>2 DEF Range
      <4> QED
        BY <4>1, <4>2
  <2> QED
    BY <1>2, <2>2, <2>6, <2>7 DEF t
<1> QED
  BY <1>1, <1>2

(* What SeenAfter adds to what is remembered is the key.                      *)
LEMMA SeenTyped ==
    ASSUME NEW S, NEW s \in Seq(S), NEW k \in S, IsInjective(s)
    PROVE  Range(SeenAfter(s, k)) \subseteq Range(s) \cup {k}
<1>1. CASE k \in Range(s)
  BY <1>1, MovedTyped DEF SeenAfter
<1>2. CASE k \notin Range(s)
  <2> DEFINE a == Append(s, k)
  <2>1. a \in Seq(S) /\ Range(a) \subseteq Range(s) \cup {k}
    <3>1. /\ a \in Seq(S) /\ Len(a) = Len(s) + 1
          /\ (\A j \in 1 .. Len(s) : a[j] = s[j]) /\ a[Len(s) + 1] = k
      BY AppendProperties
    <3> HIDE DEF a
    <3> QED
      BY <3>1 DEF Range
  <2> HIDE DEF a
  <2>2. Range(Newest(a, MaxKeys)) \subseteq Range(a)
    <3> DEFINE b == Newest(a, MaxKeys)
               o == Older(a, MaxKeys)
    <3>1. /\ b \in Seq(S) /\ Len(b) = Len(a) - o
          /\ \A j \in 1 .. Len(a) - o : b[j] = a[o + j]
      BY <2>1, KeysBoundAssumption, NewestElements
    <3>2. \A j \in 1 .. Len(a) - o : o + j \in 1 .. Len(a)
      BY <2>1, KeysBoundAssumption DEF Older
    <3> HIDE DEF b, o
    <3>3. \A j \in DOMAIN b : b[j] \in Range(a)
      BY <2>1, <3>1, <3>2 DEF Range
    <3> QED
      BY <3>3 DEF Range, b
  <2> QED
    BY <1>2, <2>1, <2>2 DEF SeenAfter, a
<1> QED
  BY <1>1, <1>2

LEMMA KeysTyped ==
    ASSUME RouteTypeOK, NEW m \in Messages
    PROVE  DedupeKey(m) \in RouteKeys
BY DEF DedupeKey, RouteKeys

(* What is remembered holds no key twice.                                     *)
LEMMA SeenInjective ==
    ASSUME RouteTypeOK, RemembersRecent
    PROVE  IsInjective(seenKeys)
<1> DEFINE o == Older(deliveries, MaxKeys)
<1>1. /\ Len(seenKeys) = Len(deliveries) - o
      /\ \A j \in 1 .. Len(deliveries) - o : seenKeys[j] = deliveries[o + j]
  BY KeysBoundAssumption, NewestElements DEF RouteTypeOK, RemembersRecent
<1>2. o \in 0 .. Len(deliveries) /\ Len(deliveries) \in Nat
  BY KeysBoundAssumption DEF Older, RouteTypeOK
<1> HIDE DEF o
<1> SUFFICES ASSUME NEW a \in DOMAIN seenKeys, NEW b \in DOMAIN seenKeys,
                    seenKeys[a] = seenKeys[b]
             PROVE  a = b
  BY DEF IsInjective
<1>3. a \in 1 .. Len(deliveries) - o /\ b \in 1 .. Len(deliveries) - o
  BY <1>1 DEF RouteTypeOK
<1>4. o + a \in DOMAIN deliveries /\ o + b \in DOMAIN deliveries
  BY <1>2, <1>3 DEF RouteTypeOK
<1>5. o + a = o + b
  BY <1>1, <1>3, <1>4 DEF RouteTypeOK, IsInjective
<1> QED
  BY <1>2, <1>3, <1>5

RouteInv == RouteTypeOK /\ RemembersRecent /\ NoEventLost

LEMMA RouteInit == InitRoute => RouteInv
<1> SUFFICES ASSUME InitRoute PROVE RouteInv
  OBVIOUS
<1> USE KeysBoundAssumption
<1>1. RouteTypeOK
  <2>1. IsInjective(deliveries)
    BY DEF InitRoute, IsInjective
  <2>2. /\ arrived \in Seq(Messages) /\ fresh \in Seq(Messages)
        /\ seenKeys \in Seq(RouteKeys) /\ deliveries \in Seq(RouteKeys)
    BY DEF InitRoute
  <2>3. Len(seenKeys) <= MaxKeys
    BY DEF InitRoute
  <2>4. loadedTopology \in BOOLEAN /\ fired \subseteq RouteKeys /\ swept \subseteq RouteKeys
    BY DEF InitRoute
  <2> QED
    BY <2>1, <2>2, <2>3, <2>4 DEF RouteTypeOK
<1>2. RemembersRecent
  BY DEF InitRoute, RemembersRecent, Newest
<1>3. NoEventLost
  BY DEF InitRoute, NoEventLost, Range
<1> QED
  BY <1>1, <1>2, <1>3 DEF RouteInv

LEMMA FilterStep == RouteInv /\ Filter => RouteInv'
<1> SUFFICES ASSUME RouteInv, Filter PROVE RouteInv'
  OBVIOUS
<1> USE DEF RouteInv
<1> DEFINE m == Head(arrived)
           k == DedupeKey(m)
<1>1. m \in Messages /\ arrived' \in Seq(Messages)
  BY DEF Filter, RouteTypeOK
<1>2. k \in RouteKeys
  BY <1>1, KeysTyped
<1>3. /\ seenKeys' = SeenAfter(seenKeys, k)
      /\ fresh' = (IF k \in Range(seenKeys) THEN fresh ELSE Append(fresh, m))
      /\ deliveries' = MoveToEnd(deliveries, k)
      /\ UNCHANGED <<loadedTopology, fired, swept>>
  BY DEF Filter
<1>4. fresh \in Seq(Messages) /\ deliveries \in Seq(RouteKeys) /\ IsInjective(deliveries)
      /\ seenKeys \in Seq(RouteKeys) /\ IsInjective(seenKeys)
  BY SeenInjective DEF RouteTypeOK
<1>5. \A x : DedupeKey(x)' = DedupeKey(x)
  BY <1>3 DEF DedupeKey
<1> HIDE DEF m, k
<1>6. deliveries' \in Seq(RouteKeys) /\ IsInjective(deliveries')
  BY <1>2, <1>3, <1>4, MovedTyped
<1>7. RemembersRecent'
  BY <1>2, <1>3, <1>4, RecentKept DEF RemembersRecent
<1>8. seenKeys' \in Seq(RouteKeys) /\ Len(seenKeys') <= MaxKeys
  <2>1. MaxKeys \in Nat
    BY KeysBoundAssumption
  <2>2. /\ Newest(deliveries', MaxKeys) \in Seq(RouteKeys)
        /\ Len(Newest(deliveries', MaxKeys)) = Len(deliveries') - Older(deliveries', MaxKeys)
    BY <1>6, <2>1, NewestElements
  <2>3. Len(deliveries') - Older(deliveries', MaxKeys) <= MaxKeys
    BY <1>6, <2>1 DEF Older
  <2> QED
    BY <1>7, <2>2, <2>3 DEF RemembersRecent
<1>9. fresh' \in Seq(Messages)
  BY <1>1, <1>3, <1>4
<1>10. RouteTypeOK'
  BY <1>1, <1>3, <1>6, <1>8, <1>9 DEF RouteTypeOK
<1>11. Range(seenKeys') \subseteq Range(seenKeys) \cup {k}
  BY <1>2, <1>3, <1>4, SeenTyped
<1>12. \A i \in DOMAIN fresh : i \in DOMAIN fresh' /\ fresh'[i] = fresh[i]
  BY <1>1, <1>3, <1>4
<1>13. k \in Range(seenKeys) \/ \E i \in DOMAIN fresh' : fresh'[i] = m
  <2>1. CASE k \notin Range(seenKeys)
    <3>1. fresh' = Append(fresh, m)
      BY <1>3, <2>1
    <3>2. Len(fresh) + 1 \in DOMAIN Append(fresh, m) /\ Append(fresh, m)[Len(fresh) + 1] = m
      BY <1>1, <1>4
    <3> QED
      BY <3>1, <3>2
  <2> QED
    BY <2>1
<1>14. NoEventLost'
  <2> SUFFICES ASSUME NEW x \in Range(seenKeys')
               PROVE  x \in fired \cup swept \cup {DedupeKey(fresh'[i]) : i \in DOMAIN fresh'}
    BY <1>3, <1>5 DEF NoEventLost
  <2>1. CASE x \in Range(seenKeys)
    BY <1>12, <2>1 DEF NoEventLost
  <2>2. CASE x \notin Range(seenKeys)
    <3>1. x = k /\ \E i \in DOMAIN fresh' : fresh'[i] = m
      BY <1>11, <1>13, <2>2
    <3> QED
      BY <3>1 DEF k
  <2> QED
    BY <2>1, <2>2
<1> QED
  BY <1>7, <1>10, <1>14

LEMMA FireStep == RouteInv /\ Fire => RouteInv'
<1> SUFFICES ASSUME RouteInv, Fire PROVE RouteInv'
  OBVIOUS
<1> USE DEF RouteInv
<1> DEFINE waiting == {DedupeKey(fresh[i]) : i \in DOMAIN fresh}
<1>1. UNCHANGED <<loadedTopology, arrived, seenKeys, deliveries>> /\ fresh # <<>>
  BY DEF Fire
<1>2. \A x : DedupeKey(x)' = DedupeKey(x)
  BY <1>1 DEF DedupeKey
<1>3. waiting \subseteq RouteKeys /\ DedupeKey(Head(fresh)) \in RouteKeys
  BY <1>1, KeysTyped DEF RouteTypeOK
<1>4. RemembersRecent'
  BY <1>1 DEF RemembersRecent
<1>5. CASE Head(fresh) \in Invalid
  <2>1. swept' = (swept \cup waiting) \ fired /\ fresh' = <<>> /\ fired' = fired
    BY <1>5 DEF Fire
  <2>2. RouteTypeOK'
    BY <1>1, <1>3, <2>1 DEF RouteTypeOK, IsInjective
  <2>3. NoEventLost'
    BY <1>1, <2>1 DEF NoEventLost
  <2> QED
    BY <1>4, <2>2, <2>3
<1>6. CASE Head(fresh) \notin Invalid
  <2>1. /\ fired' = fired \cup {DedupeKey(Head(fresh))}
        /\ swept' = swept \ fired' /\ fresh' = Tail(fresh)
    BY <1>6 DEF Fire
  <2>2. RouteTypeOK'
    BY <1>1, <1>3, <2>1 DEF RouteTypeOK, IsInjective
  <2>3. ASSUME NEW i \in DOMAIN fresh
        PROVE  fresh[i] = Head(fresh) \/ \E j \in DOMAIN fresh' : fresh'[j] = fresh[i]
    <3>1. CASE i = 1
      BY <1>1, <3>1
    <3>2. CASE i # 1
      <4>1. i - 1 \in DOMAIN fresh' /\ fresh'[i - 1] = fresh[i]
        BY <1>1, <2>1, <3>2 DEF RouteTypeOK
      <4> QED
        BY <4>1
    <3> QED
      BY <3>1, <3>2
  <2>4. NoEventLost'
    <3> SUFFICES ASSUME NEW x \in Range(seenKeys)
                 PROVE  x \in fired' \cup swept' \cup {DedupeKey(fresh'[i]) : i \in DOMAIN fresh'}
      BY <1>1, <1>2 DEF NoEventLost
    <3>1. CASE x \in waiting
      <4>1. PICK i \in DOMAIN fresh : x = DedupeKey(fresh[i])
        BY <3>1
      <4> QED
        BY <2>1, <2>3, <4>1
    <3>2. CASE x \in fired \cup swept
      BY <2>1, <3>2
    <3> QED
      BY <3>1, <3>2 DEF NoEventLost
  <2> QED
    BY <1>4, <2>2, <2>4
<1> QED
  BY <1>5, <1>6

LEMMA RouteStep == RouteInv /\ [NextRoute]_eventVars => RouteInv'
<1> SUFFICES ASSUME RouteInv, [NextRoute]_eventVars PROVE RouteInv'
  OBVIOUS
<1>1. ASSUME NEW frame \in Frames, FrameArrives(frame) PROVE RouteInv'
  <2>1. frame \in Seq(Messages)
    BY DEF Frames
  <2>2. UNCHANGED <<loadedTopology, fresh, seenKeys, fired, swept, deliveries>> /\ arrived' = frame
    BY <1>1 DEF FrameArrives
  <2> QED
    BY <2>1, <2>2 DEF RouteInv, RouteTypeOK, RemembersRecent, NoEventLost, DedupeKey, IsInjective
<1>2. CASE TopologyChanges
  <2>1. fresh = <<>> /\ UNCHANGED <<arrived, fresh, seenKeys, fired, swept, deliveries>>
        /\ loadedTopology' = ~loadedTopology
    BY <1>2 DEF TopologyChanges
  <2>2. RouteTypeOK'
    BY <2>1 DEF RouteInv, RouteTypeOK, IsInjective
  <2>3. NoEventLost'
    BY <2>1 DEF RouteInv, NoEventLost
  <2> QED
    BY <2>1, <2>2, <2>3 DEF RouteInv, RemembersRecent
<1>3. CASE UNCHANGED eventVars
  BY <1>3 DEF eventVars, RouteInv, RouteTypeOK, RemembersRecent, NoEventLost, DedupeKey, IsInjective
<1> QED
  BY <1>1, <1>2, <1>3, FilterStep, FireStep DEF NextRoute

(* Whatever is delivered again, in whatever frames: the MaxKeys events delivered     *)
(* last are remembered, and what is suppressed has been fired, but for the rest  *)
(* of a frame in which an event raised.                                       *)
THEOREM EventsSoundAlways == SpecRoute => []EventsSound
<1>1. RouteInv => EventsSound
  BY DEF RouteInv, EventsSound
<1> QED
  BY RouteInit, RouteStep, <1>1, PTL DEF SpecRoute

-----------------------------------------------------------------------------
(* Paging *)

USE PageSizeAssumption, PagesAssumption

(* A page holds at most PageSize rows, and none only if the list ends before it.    *)
LEMMA PageLength ==
    ASSUME PageTypeOK, pageNo > 0
    PROVE  /\ Cardinality(PageAt) \in 0 .. PageSize
           /\ Cardinality(PageAt) = 0 => PageAt = {}
<1> DEFINE N == PagesRead
<1>1. N \in Int /\ PageAt \subseteq N + 1 .. N + PageSize
  BY DEF PageTypeOK, PagesRead, PageAt
<1>2. IsFiniteSet(N + 1 .. N + PageSize) /\ Cardinality(N + 1 .. N + PageSize) = PageSize
  BY <1>1, FS_Interval
<1> HIDE DEF N
<1>3. IsFiniteSet(PageAt) /\ Cardinality(PageAt) <= PageSize /\ Cardinality(PageAt) \in Nat
  BY <1>1, <1>2, FS_Subset, FS_CardinalityType
<1>4. Cardinality(PageAt) = 0 => PageAt = {}
  BY <1>3, FS_EmptySet
<1> QED
  BY <1>3, <1>4

LEMMA PageInit == InitPage => PageInv
<1> SUFFICES ASSUME InitPage PROVE PageInv
  OBVIOUS
<1>1. list \in Seq(Rows) /\ IsInjective(list)
  BY DEF InitPage, IsInjective
<1>2. PageTypeOK
  <2>1. pageNo \in 0 .. MaxPages + 1 /\ count \in Nat
    BY DEF InitPage
  <2>2. got \subseteq Rows /\ steady \subseteq Rows
    BY DEF InitPage
  <2>3. reportsTotal \in BOOLEAN /\ shifted \in BOOLEAN
    BY DEF InitPage
  <2> QED
    BY <1>1, <2>1, <2>2, <2>3 DEF PageTypeOK
<1> QED
  BY <1>2 DEF InitPage, PageInv, ReadSoFar, EverySteadyRowRead

LEMMA PageStep == PageInv /\ [NextPage]_pageVars => PageInv'
<1> SUFFICES ASSUME PageInv, [NextPage]_pageVars PROVE PageInv'
  OBVIOUS
<1> USE DEF PageInv
<1>0. PagesRead \in Int /\ (pageNo > 0 => PagesRead \in Nat)
  BY DEF PageTypeOK, PagesRead
<1>1. ASSUME NEW r \in Rows, RowAppears(r) PROVE PageInv'
  <2>1. PICK i \in 1 .. Len(list) + 1 : list' = InsertAt(list, i, r)
    BY <1>1 DEF RowAppears
  <2>2. /\ list' \in Seq(Rows) /\ Len(list') = Len(list) + 1
        /\ \A j \in 1 .. Len(list) + 1 :
             list'[j] = IF j < i THEN list[j] ELSE IF j = i THEN r ELSE list[j - 1]
    BY <2>1, Inserted DEF PageTypeOK
  <2>3. IsInjective(list')
    <3> DEFINE old(j) == IF j < i THEN j ELSE j - 1
    <3>1. \A j \in DOMAIN list' : j # i => old(j) \in DOMAIN list /\ list'[j] = list[old(j)]
      BY <2>2 DEF PageTypeOK
    <3>2. \A j \in DOMAIN list' : j = i <=> list'[j] = r
      BY <1>1, <2>2, <3>1 DEF RowAppears, PageTypeOK, Range
    <3>3. \A j, k \in DOMAIN list' : j # i /\ k # i /\ old(j) = old(k) => j = k
      BY <2>2 DEF PageTypeOK
    <3> HIDE DEF old
    <3> QED
      BY <3>1, <3>2, <3>3 DEF PageTypeOK, IsInjective
  <2>4. r \notin steady /\ PagesRead' = PagesRead
        /\ UNCHANGED <<reportsTotal, pageNo, count, got, steady, shifted>>
    BY <1>1 DEF RowAppears, PagesRead
  <2>5. ASSUME NEW j \in DOMAIN list, NEW k, k = IF j < i THEN j ELSE j + 1
        PROVE  k \in DOMAIN list' /\ list'[k] = list[j]
    BY <2>2, <2>5 DEF PageTypeOK
  <2>6. Range(list) \subseteq Range(list')
    BY <2>5 DEF Range
  <2>7. ASSUME NEW j \in DOMAIN list', list'[j] \in steady, j <= PagesRead
        PROVE  \E k \in DOMAIN list : k <= j /\ list[k] = list'[j]
    BY <2>2, <2>4, <2>7 DEF PageTypeOK
  <2>8. PageTypeOK'
    BY <2>2, <2>3, <2>4 DEF PageTypeOK
  <2>9. ReadSoFar'
    BY <1>0, <2>2, <2>4, <2>6, <2>7 DEF ReadSoFar, PageTypeOK
  <2> QED
    BY <2>4, <2>8, <2>9 DEF EverySteadyRowRead
<1>2. ASSUME NEW i \in 1 .. Len(list), RowGoes(i) PROVE PageInv'
  <2>2. /\ list' \in Seq(Rows) /\ Len(list') = Len(list) - 1
        /\ \A j \in 1 .. Len(list) - 1 :
             list'[j] = IF j < i THEN list[j] ELSE list[j + 1]
    BY <1>2, Removed DEF PageTypeOK, RowGoes
  <2>3. IsInjective(list')
    BY <2>2 DEF PageTypeOK, IsInjective
  <2>4. /\ steady' = steady \ {list[i]} /\ shifted' = (shifted \/ (pageNo > 0 /\ i <= PagesRead))
        /\ PagesRead' = PagesRead /\ UNCHANGED <<reportsTotal, pageNo, count, got>>
    BY <1>2 DEF RowGoes, PagesRead
  <2>5. ASSUME NEW j \in DOMAIN list, j # i PROVE list[j] \in Range(list')
    <3>1. /\ j < i => j \in DOMAIN list' /\ list'[j] = list[j]
          /\ j > i => j - 1 \in DOMAIN list' /\ list'[j - 1] = list[j]
      BY <2>2 DEF PageTypeOK
    <3> QED
      BY <2>5, <3>1 DEF Range, PageTypeOK
  <2>6. steady \subseteq Range(list) => steady' \subseteq Range(list')
    BY <2>4, <2>5 DEF Range
  <2>7. PageTypeOK'
    BY <2>2, <2>3, <2>4 DEF PageTypeOK
  <2>8. ASSUME pageNo > 0, ~shifted', NEW j \in DOMAIN list', list'[j] \in steady', j <= PagesRead
        PROVE  list'[j] \in got
    <3>1. i > PagesRead /\ ~shifted
      <4>1. ~shifted /\ ~(i <= PagesRead)
        BY <2>4, <2>8
      <4>2. i \in Int
        BY DEF PageTypeOK
      <4> QED
        BY <1>0, <4>1, <4>2
    <3>2. list'[j] = list[j] /\ j \in DOMAIN list
      BY <1>0, <2>2, <2>8, <3>1 DEF PageTypeOK
    <3> QED
      BY <2>4, <2>8, <3>1, <3>2 DEF ReadSoFar
  <2>9. ReadSoFar'
    BY <2>4, <2>6, <2>8 DEF ReadSoFar
  <2> QED
    BY <2>4, <2>7, <2>9 DEF EverySteadyRowRead, PageTypeOK
<1>3. CASE StartReading
  <2>1. PagesRead' = 0
    BY <1>3 DEF StartReading, PagesRead
  <2>2. PageTypeOK'
    <3>1. Range(list) \subseteq Rows
      BY DEF Range, PageTypeOK
    <3> QED
      <4>1. pageNo' \in 0 .. MaxPages + 1 /\ count' \in Nat
        BY <1>3 DEF StartReading
      <4>2. got' \subseteq Rows /\ steady' \subseteq Rows
        BY <1>3, <3>1 DEF StartReading
      <4>3. list' \in Seq(Rows) /\ IsInjective(list')
        BY <1>3 DEF StartReading, PageTypeOK
      <4>4. reportsTotal' \in BOOLEAN /\ shifted' \in BOOLEAN
        BY <1>3 DEF StartReading, PageTypeOK
      <4> QED
        BY <4>1, <4>2, <4>3, <4>4 DEF PageTypeOK
  <2>3. ReadSoFar' /\ EverySteadyRowRead'
    BY <1>3, <2>1 DEF StartReading, ReadSoFar, EverySteadyRowRead, PageTypeOK
  <2> QED
    BY <2>2, <2>3
<1>4. CASE ReadPage
  <2>1. /\ got' = got \cup PageRows /\ count' = count + Cardinality(PageAt)
        /\ pageNo' = (IF LastPage(Cardinality(PageAt)) THEN 0 ELSE pageNo + 1)
        /\ UNCHANGED <<list, reportsTotal, steady, shifted>> /\ pageNo > 0
        /\ pageNo \in 1 .. MaxPages
    BY <1>4 DEF ReadPage
  <2>2. /\ Cardinality(PageAt) \in 0 .. PageSize /\ (Cardinality(PageAt) = 0 => PageAt = {})
    BY <2>1, PageLength
  <2>3. PageRows \subseteq Rows
    BY DEF PageRows, PageAt, PageTypeOK
  <2>4. PageTypeOK'
    BY <2>1, <2>2, <2>3 DEF PageTypeOK
  <2>5. ASSUME ~shifted, NEW j \in DOMAIN list, list[j] \in steady, j <= PagesRead + PageSize
        PROVE  list[j] \in got'
    <3>1. j \in PageAt \/ j <= PagesRead
      BY <1>0, <2>5 DEF PageAt, PageTypeOK
    <3> QED
      BY <2>1, <2>5, <3>1 DEF ReadSoFar, PageRows
  <2>6. count' <= PagesRead + PageSize
    BY <1>0, <2>1, <2>2 DEF ReadSoFar, PageTypeOK
  <2>7. CASE LastPage(Cardinality(PageAt))
    <3>1. \A j \in DOMAIN list : j <= PagesRead + PageSize
      <4>1. CASE Cardinality(PageAt) = 0
        <5> SUFFICES ASSUME NEW j \in DOMAIN list, j > PagesRead + PageSize PROVE FALSE
          BY <1>0 DEF PageTypeOK
        <5>1. PagesRead + 1 \in DOMAIN list
          BY <1>0, <2>1 DEF PageTypeOK
        <5> QED
          BY <1>0, <2>2, <4>1, <5>1 DEF PageAt
      <4>2. CASE Cardinality(PageAt) # 0
        BY <1>0, <2>1, <2>2, <2>6, <2>7, <4>2 DEF LastPage, PageTypeOK
      <4> QED
        BY <4>1, <4>2
    <3>2. ~shifted => steady \subseteq got'
      BY <2>1, <2>5, <3>1 DEF ReadSoFar, Range
    <3> QED
      BY <2>1, <2>4, <2>7, <3>2 DEF ReadSoFar, EverySteadyRowRead
  <2>8. CASE ~LastPage(Cardinality(PageAt))
    <3>1. pageNo' = pageNo + 1 /\ PagesRead' = PagesRead + PageSize /\ pageNo' # 0
      BY <2>1, <2>8 DEF PagesRead, PageTypeOK
    <3>2. ReadSoFar'
      BY <2>1, <2>5, <2>6, <3>1 DEF ReadSoFar
    <3> QED
      BY <2>4, <3>1, <3>2 DEF EverySteadyRowRead
  <2> QED
    BY <2>7, <2>8
<1>5. CASE ReadingFails
  <2>1. PageTypeOK'
    BY <1>5 DEF ReadingFails, PageTypeOK
  <2> QED
    BY <1>5, <2>1 DEF ReadingFails, ReadSoFar, EverySteadyRowRead
<1>6. CASE UNCHANGED pageVars
  BY <1>6 DEF pageVars, PageTypeOK, ReadSoFar, EverySteadyRowRead, PagesRead
<1> QED
  BY <1>1, <1>2, <1>3, <1>4, <1>5, <1>6 DEF NextPage

THEOREM EverySteadyRowReadAlways == SpecPage => []EverySteadyRowRead
<1>1. PageInv => EverySteadyRowRead
  BY DEF PageInv
<1> QED
  BY PageInit, PageStep, <1>1, PTL DEF SpecPage
=============================================================================
