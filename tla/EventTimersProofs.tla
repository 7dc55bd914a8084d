------------------------- MODULE EventTimersProofs -------------------------
(***************************************************************************)
(* Proofs about EventTimers, for any number of timers, any delays and any  *)
(* time handlers may take: the index and the multiset agree, a callback    *)
(* begins only for the timer it was set for, and none is late by more than *)
(* the loop's two stays outside epoll_wait.                                *)
(***************************************************************************)
EXTENDS EventTimers, FiniteSetTheorems, SequenceTheorems, WellFoundedInduction, TLAPS

-----------------------------------------------------------------------------
(* Sequences: one element more, and one less.                              *)
LEMMA InsertAtDoes ==
    ASSUME NEW S, NEW s \in Seq(S), NEW e \in S, NEW i \in 1 .. Len(s) + 1
    PROVE  /\ InsertAt(s, i, e) \in Seq(S) /\ Len(InsertAt(s, i, e)) = Len(s) + 1
           /\ \A j \in 1 .. Len(s) + 1 :
                InsertAt(s, i, e)[j] = IF j < i THEN s[j] ELSE IF j = i THEN e ELSE s[j - 1]
<1> DEFINE a == SubSeq(s, 1, i - 1)
           b == SubSeq(s, i, Len(s))
           r == a \o <<e>> \o b
<1>0. Len(s) \in Nat /\ i \in Int /\ i - 1 \in Int /\ \A j \in 1 .. Len(s) : s[j] \in S
  BY LenProperties, ElementOfSeq
<1>1. a \in Seq(S) /\ Len(a) = i - 1 /\ \A j \in 1 .. i - 1 : a[j] = s[j]
  <2>1. \A j \in 1 .. i - 1 : s[j] \in S
    BY <1>0
  <2> HIDE DEF a
  <2>2. a \in Seq(S) /\ Len(a) = (IF 1 <= i - 1 THEN i - 1 - 1 + 1 ELSE 0)
        /\ \A j \in 1 .. i - 1 - 1 + 1 : a[j] = s[1 + j - 1]
    BY <1>0, <2>1, SubSeqProperties DEF a
  <2> QED BY <1>0, <2>2
<1>2. b \in Seq(S) /\ Len(b) = Len(s) - i + 1 /\ \A j \in 1 .. Len(s) - i + 1 : b[j] = s[i + j - 1]
  <2>1. \A j \in i .. Len(s) : s[j] \in S
    BY <1>0
  <2> HIDE DEF b
  <2>2. b \in Seq(S) /\ Len(b) = (IF i <= Len(s) THEN Len(s) - i + 1 ELSE 0)
        /\ \A j \in 1 .. Len(s) - i + 1 : b[j] = s[i + j - 1]
    BY <1>0, <2>1, SubSeqProperties DEF b
  <2> QED BY <1>0, <2>2
<1> HIDE DEF a, b
<1>3. <<e>> \in Seq(S) /\ Len(<<e>>) = 1 /\ <<e>>[1] = e
  OBVIOUS
<1> DEFINE c == a \o <<e>>
<1>4. c \in Seq(S) /\ Len(c) = i /\ \A j \in 1 .. i : c[j] = IF j < i THEN s[j] ELSE e
  <2>1. c \in Seq(S) /\ Len(c) = Len(a) + Len(<<e>>)
        /\ \A j \in 1 .. Len(a) + Len(<<e>>) : c[j] = IF j <= Len(a) THEN a[j] ELSE <<e>>[j - Len(a)]
    BY <1>1, <1>3, ConcatProperties
  <2> HIDE DEF c
  <2> QED BY <1>0, <1>1, <1>3, <2>1
<1> HIDE DEF c
<1>5. r \in Seq(S) /\ Len(r) = Len(s) + 1
      /\ \A j \in 1 .. Len(s) + 1 : r[j] = IF j <= i THEN c[j] ELSE b[j - i]
  <2>1. r = c \o b
    BY DEF c
  <2> HIDE DEF r
  <2>2. r \in Seq(S) /\ Len(r) = Len(c) + Len(b)
        /\ \A j \in 1 .. Len(c) + Len(b) : r[j] = IF j <= Len(c) THEN c[j] ELSE b[j - Len(c)]
    BY <1>2, <1>4, <2>1, ConcatProperties
  <2> QED BY <1>0, <1>2, <1>4, <2>2
<1>6. InsertAt(s, i, e) = r
  BY DEF InsertAt, a, b
<1> HIDE DEF r
<1>7. ASSUME NEW j \in 1 .. Len(s) + 1
      PROVE  r[j] = IF j < i THEN s[j] ELSE IF j = i THEN e ELSE s[j - 1]
  <2>1. CASE j <= i
    BY <1>0, <1>4, <1>5, <2>1
  <2>2. CASE j > i
    <3>1. j - i \in 1 .. Len(s) - i + 1 /\ i + (j - i) - 1 = j - 1
      BY <1>0, <2>2
    <3>2. b[j - i] = s[i + (j - i) - 1]
      BY <1>2, <3>1
    <3> QED BY <1>0, <1>5, <2>2, <3>1, <3>2
  <2> QED BY <1>0, <2>1, <2>2
<1> QED BY <1>5, <1>6, <1>7

LEMMA RemoveAtDoes ==
    ASSUME NEW S, NEW s \in Seq(S), NEW i \in 1 .. Len(s)
    PROVE  /\ RemoveAt(s, i) \in Seq(S) /\ Len(RemoveAt(s, i)) = Len(s) - 1
           /\ \A j \in 1 .. Len(s) - 1 : RemoveAt(s, i)[j] = IF j < i THEN s[j] ELSE s[j + 1]
<1> DEFINE a == SubSeq(s, 1, i - 1)
           b == SubSeq(s, i + 1, Len(s))
           r == a \o b
<1>0. Len(s) \in Nat /\ i \in Int /\ i - 1 \in Int /\ i + 1 \in Int /\ \A j \in 1 .. Len(s) : s[j] \in S
  BY LenProperties, ElementOfSeq
<1>1. a \in Seq(S) /\ Len(a) = i - 1 /\ \A j \in 1 .. i - 1 : a[j] = s[j]
  <2>1. \A j \in 1 .. i - 1 : s[j] \in S
    BY <1>0
  <2> HIDE DEF a
  <2>2. a \in Seq(S) /\ Len(a) = (IF 1 <= i - 1 THEN i - 1 - 1 + 1 ELSE 0)
        /\ \A j \in 1 .. i - 1 - 1 + 1 : a[j] = s[1 + j - 1]
    BY <1>0, <2>1, SubSeqProperties DEF a
  <2> QED BY <1>0, <2>2
<1>2. b \in Seq(S) /\ Len(b) = Len(s) - i /\ \A j \in 1 .. Len(s) - i : b[j] = s[i + j]
  <2>1. \A j \in i + 1 .. Len(s) : s[j] \in S
    BY <1>0
  <2> HIDE DEF b
  <2>2. b \in Seq(S) /\ Len(b) = (IF i + 1 <= Len(s) THEN Len(s) - (i + 1) + 1 ELSE 0)
        /\ \A j \in 1 .. Len(s) - (i + 1) + 1 : b[j] = s[i + 1 + j - 1]
    BY <1>0, <2>1, SubSeqProperties DEF b
  <2>3. Len(b) = Len(s) - i
    BY <1>0, <2>2
  <2>4. ASSUME NEW j \in 1 .. Len(s) - i PROVE b[j] = s[i + j]
    <3>1. i + 1 + j - 1 = i + j /\ j \in 1 .. Len(s) - (i + 1) + 1
      BY <1>0
    <3>2. b[j] = s[i + 1 + j - 1]
      BY <2>2, <3>1
    <3> QED BY <3>1, <3>2
  <2> QED BY <2>2, <2>3, <2>4
<1> HIDE DEF a, b
<1>3. r \in Seq(S) /\ Len(r) = Len(s) - 1
      /\ \A j \in 1 .. Len(s) - 1 : r[j] = IF j <= i - 1 THEN a[j] ELSE b[j - (i - 1)]
  <2>1. r \in Seq(S) /\ Len(r) = Len(a) + Len(b)
        /\ \A j \in 1 .. Len(a) + Len(b) : r[j] = IF j <= Len(a) THEN a[j] ELSE b[j - Len(a)]
    BY <1>1, <1>2, ConcatProperties
  <2> HIDE DEF r
  <2> QED BY <1>0, <1>1, <1>2, <2>1
<1>4. RemoveAt(s, i) = r
  BY DEF RemoveAt, a, b
<1> HIDE DEF r
<1>5. ASSUME NEW j \in 1 .. Len(s) - 1 PROVE r[j] = IF j < i THEN s[j] ELSE s[j + 1]
  <2>1. CASE j < i
    BY <1>0, <1>1, <1>3, <2>1
  <2>2. CASE j >= i
    <3>1. j - (i - 1) \in 1 .. Len(s) - i /\ i + (j - (i - 1)) = j + 1
      BY <1>0, <2>2
    <3>2. b[j - (i - 1)] = s[i + (j - (i - 1))]
      BY <1>2, <3>1
    <3>3. ~(j <= i - 1) /\ ~(j < i)
      BY <1>0, <2>2
    <3>4. r[j] = b[j - (i - 1)]
      BY <1>3, <3>3
    <3> QED BY <3>1, <3>2, <3>3, <3>4
  <2> QED BY <1>0, <2>1, <2>2
<1> QED BY <1>3, <1>4, <1>5

LEMMA Least == ASSUME NEW S \in SUBSET Nat, S # {} PROVE \E x \in S : \A y \in S : x <= y
<1> DEFINE R == OpToRel(<, Nat)
<1>1. IsWellFoundedOn(R, Nat)
  BY NatLessThanWellFounded
<1>2. PICK x \in S : \A y \in S : ~(<<y, x>> \in R)
  <2> HIDE DEF R
  <2> QED BY <1>1, WFMin
<1>3. \A y \in S : x <= y
  <2> SUFFICES ASSUME NEW y \in S, y < x PROVE FALSE
    OBVIOUS
  <2>1. <<y, x>> \in R
    BY DEF OpToRel
  <2> QED BY <1>2, <2>1
<1> QED BY <1>3

-----------------------------------------------------------------------------
(* The multiset and the index, as values: what addTimer, delTimer and the  *)
(* loop make of an ordered multiset that agrees with its index.            *)
Index == [TimerIds -> Nat \cup {NoTime}]
InOrder(s) == \A i, j \in 1 .. Len(s) : i < j => Due(s[i]) <= Due(s[j])
Indexed(s, m) == \A i \in 1 .. Len(s) : m[Id(s[i])] = Due(s[i])
Single(s) == \A i, j \in 1 .. Len(s) : Id(s[i]) = Id(s[j]) => i = j
Listed(s, m) == \A id \in TimerIds : m[id] # NoTime => \E i \in 1 .. Len(s) : s[i] = <<m[id], id>>
Agree(s, m) ==
    /\ s \in Seq(Entry) /\ m \in Index
    /\ InOrder(s) /\ Indexed(s, m) /\ Single(s) /\ Listed(s, m)

LEMMA EntryParts ==
    ASSUME NEW e \in Entry
    PROVE  Due(e) \in Nat /\ Id(e) \in TimerIds /\ Due(e) # NoTime /\ e = <<Due(e), Id(e)>>
BY EventTimersAssumption DEF Entry, Due, Id

\* What is left of the multiset without entry i, of the index without its id.
LEMMA OneLess ==
    ASSUME NEW s, NEW m, Agree(s, m), NEW i \in 1 .. Len(s), NEW t, t \in Seq(Entry), Len(t) = Len(s) - 1,
           \A j \in 1 .. Len(s) - 1 : t[j] = IF j < i THEN s[j] ELSE s[j + 1]
    PROVE  Agree(t, [m EXCEPT ![Id(s[i])] = NoTime])
<1> DEFINE Old(j) == IF j < i THEN j ELSE j + 1
           n == [m EXCEPT ![Id(s[i])] = NoTime]
<1>0. Len(s) \in Nat /\ i \in Nat /\ s \in Seq(Entry) /\ m \in Index /\ s[i] \in Entry
  BY LenProperties, ElementOfSeq DEF Agree
<1>1. \A j \in 1 .. Len(t) : Old(j) \in 1 .. Len(s) /\ Old(j) # i /\ t[j] = s[Old(j)] /\ s[Old(j)] \in Entry
  <2> SUFFICES ASSUME NEW j \in 1 .. Len(t)
               PROVE  Old(j) \in 1 .. Len(s) /\ Old(j) # i /\ t[j] = s[Old(j)] /\ s[Old(j)] \in Entry
    OBVIOUS
  <2>1. Old(j) \in 1 .. Len(s) /\ Old(j) # i /\ t[j] = s[Old(j)]
    BY <1>0
  <2> HIDE DEF Old
  <2> QED BY <1>0, <2>1, ElementOfSeq
<1>2. \A j, k \in 1 .. Len(t) : (j < k => Old(j) < Old(k)) /\ (Old(j) = Old(k) => j = k)
  BY <1>0
<1>3. \A j \in 1 .. Len(s) : j # i => \E k \in 1 .. Len(t) : Old(k) = j
  <2> SUFFICES ASSUME NEW j \in 1 .. Len(s), j # i PROVE \E k \in 1 .. Len(t) : Old(k) = j
    OBVIOUS
  <2>1. CASE j < i
    BY <1>0, <2>1
  <2>2. CASE j > i
    <3>1. j - 1 \in 1 .. Len(t) /\ Old(j - 1) = j
      BY <1>0, <2>2
    <3> QED BY <3>1
  <2> QED BY <1>0, <2>1, <2>2
<1>4. Id(s[i]) \in TimerIds /\ Due(s[i]) # NoTime
  BY <1>0, EntryParts
<1>5. n \in Index /\ n[Id(s[i])] = NoTime /\ \A id \in TimerIds \ {Id(s[i])} : n[id] = m[id]
  BY <1>0, <1>4 DEF Index
<1> HIDE DEF Old, n
<1>6. InOrder(t)
  BY <1>1, <1>2 DEF InOrder, Agree
<1>7. \A j \in 1 .. Len(t) : Id(t[j]) \in TimerIds \ {Id(s[i])}
  BY <1>0, <1>1, EntryParts DEF Single, Agree
<1>8. Indexed(t, n)
  BY <1>1, <1>5, <1>7 DEF Indexed, Agree
<1>9. Single(t)
  BY <1>1, <1>2 DEF Single, Agree
<1>10. Listed(t, n)
  <2> SUFFICES ASSUME NEW id \in TimerIds, n[id] # NoTime PROVE \E k \in 1 .. Len(t) : t[k] = <<n[id], id>>
    BY DEF Listed
  <2>1. id # Id(s[i]) /\ n[id] = m[id]
    BY <1>5
  <2>2. PICK j \in 1 .. Len(s) : s[j] = <<m[id], id>>
    BY <2>1 DEF Listed, Agree
  <2>3. j # i
    BY <2>1, <2>2 DEF Id
  <2>4. PICK k \in 1 .. Len(t) : Old(k) = j
    BY <1>3, <2>3
  <2> QED BY <1>1, <2>1, <2>2, <2>4
<1>11. Agree(t, n)
  BY <1>5, <1>6, <1>8, <1>9, <1>10 DEF Agree
<1> QED BY <1>11 DEF n

\* delTimer: the entry that the index names goes, and nothing else.
LEMMA ErasedAgrees ==
    ASSUME NEW s, NEW m, Agree(s, m), NEW id \in TimerIds, m[id] # NoTime
    PROVE  Agree(Erased(s, m[id], id), [m EXCEPT ![id] = NoTime])
<1> DEFINE from == {i \in DOMAIN s : Due(s[i]) >= m[id] /\ Id(s[i]) = id}
<1>0. s \in Seq(Entry) /\ Len(s) \in Nat /\ DOMAIN s = 1 .. Len(s)
  BY LenProperties DEF Agree
<1>1. PICK i \in 1 .. Len(s) : s[i] = <<m[id], id>>
  BY DEF Agree, Listed
<1>2. s[i] \in Entry /\ Id(s[i]) = id /\ Due(s[i]) = m[id] /\ m[id] \in Nat
  <2>1. s[i] \in Entry
    BY <1>0, ElementOfSeq
  <2> QED BY <1>1, <2>1, EntryParts DEF Id, Due
<1>3. from = {i}
  <2>1. i \in from
    BY <1>0, <1>2
  <2>2. \A j \in from : j = i
    BY <1>0, <1>2 DEF Agree, Single
  <2> QED BY <2>1, <2>2
<1>4. (CHOOSE k \in from : \A j \in from : k <= j) = i
  <2>1. i <= i
    BY <1>0
  <2> HIDE DEF from
  <2>2. \E k \in from : \A j \in from : k <= j
    BY <1>3, <2>1
  <2>3. (CHOOSE k \in from : \A j \in from : k <= j) \in from
    BY <2>2
  <2> QED BY <1>3, <2>3
<1>5. Erased(s, m[id], id) = RemoveAt(s, i)
  BY <1>3, <1>4 DEF Erased
<1> HIDE DEF from
<1>6. /\ RemoveAt(s, i) \in Seq(Entry) /\ Len(RemoveAt(s, i)) = Len(s) - 1
      /\ \A j \in 1 .. Len(s) - 1 : RemoveAt(s, i)[j] = IF j < i THEN s[j] ELSE s[j + 1]
  BY <1>0, RemoveAtDoes
<1>7. Agree(RemoveAt(s, i), [m EXCEPT ![Id(s[i])] = NoTime])
  BY <1>6, OneLess
<1> QED BY <1>2, <1>5, <1>7

\* The loop takes the first entry.
LEMMA TailAgrees ==
    ASSUME NEW s, NEW m, Agree(s, m), s # <<>>
    PROVE  /\ Head(s) \in Entry /\ m[Id(Head(s))] = Due(Head(s))
           /\ \A id \in TimerIds : m[id] # NoTime => Due(Head(s)) <= m[id]
           /\ Agree(Tail(s), [m EXCEPT ![Id(Head(s))] = NoTime])
<1>0. s \in Seq(Entry) /\ Len(s) \in Nat /\ Len(s) > 0 /\ Head(s) = s[1] /\ s[1] \in Entry
  BY LenProperties, EmptySeq, ElementOfSeq, HeadTailProperties DEF Agree
<1>1. Tail(s) \in Seq(Entry) /\ Len(Tail(s)) = Len(s) - 1 /\ \A j \in 1 .. Len(s) - 1 : Tail(s)[j] = s[j + 1]
  BY <1>0, HeadTailProperties
<1>2. Agree(Tail(s), [m EXCEPT ![Id(s[1])] = NoTime])
  <2>1. 1 \in 1 .. Len(s) /\ \A j \in 1 .. Len(s) - 1 : Tail(s)[j] = IF j < 1 THEN s[j] ELSE s[j + 1]
    BY <1>0, <1>1
  <2> QED BY <1>1, <2>1, OneLess
<1>3. m[Id(s[1])] = Due(s[1])
  BY <1>0 DEF Agree, Indexed
<1>4. ASSUME NEW id \in TimerIds, m[id] # NoTime PROVE Due(s[1]) <= m[id]
  <2>1. PICK i \in 1 .. Len(s) : s[i] = <<m[id], id>>
    BY <1>4 DEF Agree, Listed
  <2>2. Due(s[i]) = m[id]
    BY <2>1 DEF Due
  <2>3. CASE i = 1
    BY <1>0, <2>2, <2>3, EntryParts
  <2>4. CASE i > 1
    BY <1>0, <2>2, <2>4 DEF Agree, InOrder
  <2> QED BY <2>3, <2>4
<1> QED BY <1>0, <1>2, <1>3, <1>4

\* The entries due no later than e are the first ones.
LEMMA EarlierIsFront ==
    ASSUME NEW s \in Seq(Entry), InOrder(s), NEW due \in Nat
    PROVE  \E k \in 0 .. Len(s) : {i \in DOMAIN s : Due(s[i]) <= due} = 1 .. k
<1> DEFINE later == {i \in 1 .. Len(s) : Due(s[i]) > due}
<1>0. Len(s) \in Nat /\ DOMAIN s = 1 .. Len(s) /\ \A i \in 1 .. Len(s) : Due(s[i]) \in Nat
  BY LenProperties, ElementOfSeq, EntryParts
<1>1. CASE later = {}
  <2>1. {i \in DOMAIN s : Due(s[i]) <= due} = 1 .. Len(s)
    BY <1>0, <1>1
  <2> QED BY <1>0, <2>1
<1>2. CASE later # {}
  <2>1. PICK x \in later : \A y \in later : x <= y
    <3>1. later \in SUBSET Nat
      BY <1>0
    <3> HIDE DEF later
    <3> QED BY <1>2, <3>1, Least
  <2>2. \A i \in 1 .. Len(s) : Due(s[i]) <= due <=> i < x
    <3> SUFFICES ASSUME NEW i \in 1 .. Len(s) PROVE Due(s[i]) <= due <=> i < x
      OBVIOUS
    <3>1. i < x => i \notin later
      BY <1>0, <2>1
    <3>2. x < i => Due(s[x]) <= Due(s[i])
      BY <2>1 DEF InOrder
    <3> QED BY <1>0, <2>1, <3>1, <3>2
  <2>3. {i \in DOMAIN s : Due(s[i]) <= due} = 1 .. x - 1
    BY <1>0, <2>1, <2>2
  <2>4. x \in 1 .. Len(s)
    BY <2>1
  <2>5. x - 1 \in 0 .. Len(s)
    BY <1>0, <2>4
  <2> QED BY <2>3, <2>5
<1> QED BY <1>1, <1>2

\* addTimer, once the id has no timer any more.
LEMMA InsertedAgrees ==
    ASSUME NEW s, NEW m, Agree(s, m), NEW id \in TimerIds, m[id] = NoTime, NEW due \in Nat
    PROVE  Agree(Inserted(s, <<due, id>>), [m EXCEPT ![id] = due])
<1> DEFINE e == <<due, id>>
           n == [m EXCEPT ![id] = due]
<1>0. s \in Seq(Entry) /\ m \in Index /\ Len(s) \in Nat /\ e \in Entry /\ Due(e) = due /\ Id(e) = id
      /\ due # NoTime
  BY LenProperties, EventTimersAssumption DEF Agree, Entry, Due, Id
<1>1. PICK k \in 0 .. Len(s) : {i \in DOMAIN s : Due(s[i]) <= due} = 1 .. k
  BY <1>0, EarlierIsFront DEF Agree
<1>2. Cardinality(1 .. k) = k
  BY FS_Interval
<1> DEFINE t == Inserted(s, e)
<1>3. t = InsertAt(s, k + 1, e)
  BY <1>0, <1>1, <1>2 DEF Inserted
<1> HIDE DEF e, t
<1>4. /\ t \in Seq(Entry) /\ Len(t) = Len(s) + 1
      /\ \A j \in 1 .. Len(s) + 1 : t[j] = IF j < k + 1 THEN s[j] ELSE IF j = k + 1 THEN e ELSE s[j - 1]
  <2>1. PICK i \in 1 .. Len(s) + 1 : i = k + 1
    BY <1>0
  <2>2. /\ InsertAt(s, i, e) \in Seq(Entry) /\ Len(InsertAt(s, i, e)) = Len(s) + 1
        /\ \A j \in 1 .. Len(s) + 1 :
             InsertAt(s, i, e)[j] = IF j < i THEN s[j] ELSE IF j = i THEN e ELSE s[j - 1]
    <3>1. s \in Seq(Entry) /\ e \in Entry
      BY <1>0
    <3> QED BY <3>1, InsertAtDoes
  <2> QED BY <1>3, <2>1, <2>2
<1>5. \A i \in 1 .. Len(s) : s[i] \in Entry /\ Due(s[i]) \in Nat /\ Id(s[i]) \in TimerIds /\ Due(s[i]) # NoTime
      /\ Id(s[i]) # id /\ (Due(s[i]) <= due <=> i <= k)
  <2> SUFFICES ASSUME NEW i \in 1 .. Len(s)
               PROVE  s[i] \in Entry /\ Due(s[i]) \in Nat /\ Id(s[i]) \in TimerIds /\ Due(s[i]) # NoTime
                      /\ Id(s[i]) # id /\ (Due(s[i]) <= due <=> i <= k)
    OBVIOUS
  <2>1. s[i] \in Entry
    BY <1>0, ElementOfSeq
  <2>2. Due(s[i]) \in Nat /\ Id(s[i]) \in TimerIds /\ Due(s[i]) # NoTime
    BY <2>1, EntryParts
  <2>3. Id(s[i]) # id
    BY <2>2 DEF Agree, Indexed
  <2>4. i \in {j \in DOMAIN s : Due(s[j]) <= due} <=> Due(s[i]) <= due
    BY <1>0
  <2>5. i \in 1 .. k <=> i <= k
    BY <1>0
  <2> QED BY <1>1, <2>1, <2>2, <2>3, <2>4, <2>5
<1> DEFINE Old(j) == IF j < k + 1 THEN j ELSE j - 1
<1>6. \A j \in 1 .. Len(t) : j # k + 1 => Old(j) \in 1 .. Len(s) /\ t[j] = s[Old(j)]
  BY <1>0, <1>4
<1>7. k + 1 \in 1 .. Len(t) /\ t[k + 1] = e
  BY <1>0, <1>4
<1>8. \A i \in 1 .. Len(s) : \E j \in 1 .. Len(t) : j # k + 1 /\ Old(j) = i
  <2> SUFFICES ASSUME NEW i \in 1 .. Len(s) PROVE \E j \in 1 .. Len(t) : j # k + 1 /\ Old(j) = i
    OBVIOUS
  <2>1. CASE i <= k
    BY <1>0, <1>4, <2>1
  <2>2. CASE i > k
    <3>1. i + 1 \in 1 .. Len(t) /\ i + 1 # k + 1 /\ Old(i + 1) = i
      BY <1>0, <1>4, <2>2
    <3> QED BY <3>1
  <2> QED BY <2>1, <2>2
<1>9. n \in Index /\ n[id] = due /\ \A d \in TimerIds \ {id} : n[d] = m[d]
  BY <1>0 DEF Index
<1>10. InOrder(t)
  <2> SUFFICES ASSUME NEW i \in 1 .. Len(t), NEW j \in 1 .. Len(t), i < j PROVE Due(t[i]) <= Due(t[j])
    BY DEF InOrder
  <2>1. CASE i # k + 1 /\ j # k + 1
    <3>1. Old(i) < Old(j)
      BY <2>1
    <3> HIDE DEF Old
    <3> QED BY <1>6, <2>1, <3>1 DEF Agree, InOrder
  <2>2. CASE i = k + 1
    <3>1. Old(j) \in 1 .. Len(s) /\ Old(j) > k /\ t[j] = s[Old(j)]
      BY <1>6, <2>2
    <3> HIDE DEF Old
    <3> QED BY <1>0, <1>5, <1>7, <2>2, <3>1
  <2>3. CASE j = k + 1
    <3>1. Old(i) \in 1 .. Len(s) /\ Old(i) <= k /\ t[i] = s[Old(i)]
      BY <1>6, <2>3
    <3> HIDE DEF Old
    <3> QED BY <1>0, <1>5, <1>7, <2>3, <3>1
  <2> QED BY <2>1, <2>2, <2>3
<1>11. \A i, j \in 1 .. Len(t) : i # k + 1 /\ j # k + 1 /\ Old(i) = Old(j) => i = j
  OBVIOUS
<1> HIDE DEF Old, n
<1>12. Single(t)
  <2> SUFFICES ASSUME NEW i \in 1 .. Len(t), NEW j \in 1 .. Len(t), Id(t[i]) = Id(t[j]) PROVE i = j
    BY DEF Single
  <2>1. CASE i # k + 1 /\ j # k + 1
    BY <1>6, <1>11, <2>1 DEF Agree, Single
  <2>2. CASE i = k + 1 /\ j # k + 1
    BY <1>0, <1>5, <1>6, <1>7, <2>2
  <2>3. CASE i # k + 1 /\ j = k + 1
    BY <1>0, <1>5, <1>6, <1>7, <2>3
  <2> QED BY <2>1, <2>2, <2>3
<1>13. Indexed(t, n)
  <2> SUFFICES ASSUME NEW j \in 1 .. Len(t) PROVE n[Id(t[j])] = Due(t[j])
    BY DEF Indexed
  <2>1. CASE j # k + 1
    BY <1>5, <1>6, <1>9, <2>1 DEF Agree, Indexed
  <2>2. CASE j = k + 1
    BY <1>0, <1>7, <1>9, <2>2
  <2> QED BY <2>1, <2>2
<1>14. Listed(t, n)
  <2> SUFFICES ASSUME NEW d \in TimerIds, n[d] # NoTime PROVE \E j \in 1 .. Len(t) : t[j] = <<n[d], d>>
    BY DEF Listed
  <2>1. CASE d = id
    BY <1>7, <1>9, <2>1 DEF e
  <2>2. CASE d # id
    <3>1. PICK i \in 1 .. Len(s) : s[i] = <<m[d], d>>
      BY <1>9, <2>2 DEF Agree, Listed
    <3>2. PICK j \in 1 .. Len(t) : j # k + 1 /\ Old(j) = i
      BY <1>8
    <3>3. t[j] = s[i]
      BY <1>6, <3>2
    <3>4. n[d] = m[d]
      BY <1>9, <2>2
    <3> QED BY <3>1, <3>3, <3>4
  <2> QED BY <2>1, <2>2
<1>15. Agree(t, n)
  BY <1>4, <1>9, <1>10, <1>12, <1>13, <1>14 DEF Agree
<1> QED BY <1>15 DEF e, t, n

\* No more entries than timers.
LEMMA AtMostOneEach == ASSUME NEW s, NEW m, Agree(s, m) PROVE Len(s) <= Cardinality(TimerIds)
<1> DEFINE f == [i \in 1 .. Len(s) |-> Id(s[i])]
<1>0. s \in Seq(Entry) /\ Len(s) \in Nat /\ \A i \in 1 .. Len(s) : Id(s[i]) \in TimerIds
  BY LenProperties, ElementOfSeq, EntryParts DEF Agree
<1>1. f \in Injection(1 .. Len(s), TimerIds)
  BY <1>0 DEF Agree, Single, Injection, IsInjective
<1> HIDE DEF f
<1>2. Cardinality(1 .. Len(s)) <= Cardinality(TimerIds)
  BY <1>1, FS_Injection, EventTimersAssumption
<1>3. Cardinality(1 .. Len(s)) = Len(s)
  BY <1>0, FS_Interval
<1> QED BY <1>2, <1>3

-----------------------------------------------------------------------------
(* The inductive invariant.  The bound on lateness alone is not: it holds  *)
(* because epoll_wait was told to give up in time, and that because the    *)
(* loop's clock is behind by no more than its callbacks took.              *)
Registered(id) == m_mapTimeEventIndexs[id] # NoTime
OnTime ==
    /\ pc \in {"fire", "callback"} => now <= ddwTimeNow + busy
    /\ pc = "wait" => now <= wakeAt
    /\ \A id \in TimerIds : Registered(id) =>
           IF pc = "wait" THEN wakeAt <= m_mapTimeEventIndexs[id] + MaxBusy
                          ELSE now <= m_mapTimeEventIndexs[id] + MaxBusy + busy
Types ==
    /\ now \in 0 .. MaxTime /\ ddwTimeNow \in 0 .. now
    /\ pc \in {"round", "fire", "callback", "wait", "handler"}
    /\ wakeAt \in Nat /\ busy \in 0 .. MaxBusy
    /\ fired \in Entry \cup {Nothing} /\ adds \in 0 .. MaxAdds
IInv == Types /\ OnTime /\ Agree(m_setStTimeEvents, m_mapTimeEventIndexs)

LEMMA IInvSays == IInv => Punctual
<1> SUFFICES ASSUME IInv PROVE Punctual
  OBVIOUS
<1>1. DOMAIN m_setStTimeEvents = 1 .. Len(m_setStTimeEvents) /\ Len(m_setStTimeEvents) \in Nat
  BY LenProperties DEF IInv, Agree
<1>2. TypeOK
  <2>1. Len(m_setStTimeEvents) <= Cardinality(TimerIds)
    BY AtMostOneEach DEF IInv
  <2> QED BY <1>1, <2>1 DEF TypeOK, Ordered, IInv, Types, Agree, InOrder, Index
<1>3. IndexMatchesSet
  BY <1>1 DEF IndexMatchesSet, IInv, Agree, Indexed, Single, Listed
<1>4. ASSUME NEW id \in TimerIds, Registered(id) PROVE now <= m_mapTimeEventIndexs[id] + 2 * MaxBusy
  <2>1. m_mapTimeEventIndexs[id] \in Nat /\ MaxBusy \in Nat /\ busy <= MaxBusy /\ busy \in Nat /\ now \in Nat
        /\ wakeAt \in Nat
    BY <1>4, EventTimersAssumption DEF IInv, Agree, Index, Types, Registered
  <2> QED BY <1>4, <2>1 DEF IInv, OnTime
<1> QED BY <1>2, <1>3, <1>4 DEF Punctual, Registered

LEMMA InitIInv == Init => IInv
<1> SUFFICES ASSUME Init PROVE IInv
  OBVIOUS
<1>1. Types
  BY EventTimersAssumption DEF Init, Types
<1>2. OnTime
  BY EventTimersAssumption DEF Init, OnTime, Registered
<1>3. Agree(<<>>, [id \in TimerIds |-> NoTime])
  <2>1. <<>> \in Seq(Entry) /\ Len(<<>>) = 0 /\ 1 .. 0 = {}
    OBVIOUS
  <2> QED BY <2>1 DEF Agree, Index, InOrder, Indexed, Single, Listed
<1> QED BY <1>1, <1>2, <1>3 DEF Init, IInv

LEMMA AddTimerStep ==
    ASSUME IInv, NEW id \in TimerIds, NEW dwExpire \in Expires, AddTimer(id, dwExpire) PROVE IInv'
<1> DEFINE s == m_setStTimeEvents
           m == m_mapTimeEventIndexs
           due == now + dwExpire
           n == [m EXCEPT ![id] = NoTime]
<1>0. /\ now \in Nat /\ MaxBusy \in Nat /\ busy \in Nat /\ dwExpire \in Nat /\ due \in Nat /\ due >= now
      /\ due # NoTime /\ m \in Index /\ adds + 1 \in 0 .. MaxAdds /\ pc \in {"callback", "handler"}
  BY EventTimersAssumption DEF IInv, Types, Agree, AddTimer, InHandler
<1>1. Agree(Without(id), n) /\ n[id] = NoTime
  <2>1. CASE m[id] = NoTime
    BY <1>0, <2>1 DEF Without, IInv, Index
  <2>2. CASE m[id] # NoTime
    BY <1>0, <2>2, ErasedAgrees DEF Without, IInv, Index
  <2> QED BY <2>1, <2>2
<1>2. Agree(Inserted(Without(id), <<due, id>>), [n EXCEPT ![id] = due])
  <2> HIDE DEF n, due
  <2> QED BY <1>0, <1>1, InsertedAgrees
<1>3. [n EXCEPT ![id] = due] = m_mapTimeEventIndexs'
  BY <1>0 DEF AddTimer, Index
<1>4. m_setStTimeEvents' = Inserted(Without(id), <<due, id>>)
  BY DEF AddTimer
<1>5. Agree(m_setStTimeEvents, m_mapTimeEventIndexs)'
  BY <1>2, <1>3, <1>4
<1>6. Types'
  BY <1>0 DEF IInv, Types, AddTimer
<1>7. OnTime'
  <2>1. m_mapTimeEventIndexs'[id] = due /\ \A d \in TimerIds \ {id} : m_mapTimeEventIndexs'[d] = m[d]
    BY <1>0 DEF AddTimer, Index
  <2>2. UNCHANGED <<now, ddwTimeNow, pc, wakeAt, busy>>
    BY DEF AddTimer
  <2>3. ASSUME NEW d \in TimerIds, m_mapTimeEventIndexs'[d] # NoTime
        PROVE  now <= m_mapTimeEventIndexs'[d] + MaxBusy + busy
    <3>1. CASE d = id
      BY <1>0, <2>1, <3>1
    <3>2. CASE d # id
      BY <1>0, <2>1, <2>3, <3>2 DEF IInv, OnTime, Registered
    <3> QED BY <3>1, <3>2
  <2> QED BY <1>0, <2>2, <2>3 DEF IInv, OnTime, Registered
<1> QED BY <1>5, <1>6, <1>7 DEF IInv

LEMMA DelTimerStep == ASSUME IInv, NEW id \in TimerIds, DelTimer(id) PROVE IInv'
<1> DEFINE m == m_mapTimeEventIndexs
<1>0. m \in Index /\ m[id] # NoTime
  BY DEF IInv, Agree, DelTimer
<1>1. Agree(m_setStTimeEvents, m_mapTimeEventIndexs)'
  BY <1>0, ErasedAgrees DEF Without, IInv, DelTimer
<1>2. \A d \in TimerIds : m_mapTimeEventIndexs'[d] # NoTime => m_mapTimeEventIndexs'[d] = m[d]
  BY <1>0 DEF DelTimer, Index
<1>3. OnTime'
  BY <1>2 DEF IInv, OnTime, DelTimer, Registered
<1> QED BY <1>1, <1>3 DEF IInv, Types, DelTimer

\* What Fire takes is due, and is what the index has; nothing is due before it.
LEMMA FireDoes ==
    ASSUME IInv, Fire
    PROVE  /\ fired' \in Entry /\ Due(fired') <= ddwTimeNow
           /\ m_mapTimeEventIndexs[Id(fired')] = Due(fired')
           /\ \A id \in TimerIds : Registered(id) => Due(fired') <= m_mapTimeEventIndexs[id]
           /\ \A id \in TimerIds : m_mapTimeEventIndexs'[id] \in {m_mapTimeEventIndexs[id], NoTime}
           /\ Agree(m_setStTimeEvents, m_mapTimeEventIndexs)'
<1> DEFINE s == m_setStTimeEvents
           m == m_mapTimeEventIndexs
<1>1. s # <<>> /\ Due(Head(s)) <= ddwTimeNow /\ fired' = Head(s)
      /\ m_mapTimeEventIndexs' = [m EXCEPT ![Id(Head(s))] = NoTime] /\ m_setStTimeEvents' = Tail(s)
  BY DEF Fire, DueNow
<1>2. Agree(s, m) /\ m \in Index
  BY DEF IInv, Agree
<1>3. /\ Head(s) \in Entry /\ m[Id(Head(s))] = Due(Head(s))
      /\ \A id \in TimerIds : m[id] # NoTime => Due(Head(s)) <= m[id]
      /\ Agree(Tail(s), [m EXCEPT ![Id(Head(s))] = NoTime])
  BY <1>1, <1>2, TailAgrees
<1>4. \A id \in TimerIds : m_mapTimeEventIndexs'[id] \in {m[id], NoTime}
  BY <1>1, <1>2 DEF Index
<1> QED BY <1>1, <1>3, <1>4 DEF Registered

LEMMA EpollWaitStep == ASSUME IInv, EpollWait PROVE IInv'
<1> DEFINE s == m_setStTimeEvents
           m == m_mapTimeEventIndexs
<1>0. /\ now \in Nat /\ ddwTimeNow \in Nat /\ busy \in Nat /\ MaxBusy \in Nat /\ busy <= MaxBusy
      /\ ddwTimeNow <= now /\ now <= ddwTimeNow + busy
      /\ pc = "fire" /\ ~DueNow /\ wakeAt' = now + Timeout /\ pc' = "wait"
      /\ UNCHANGED <<tables, now, ddwTimeNow, busy, fired, adds>> /\ DefaultTimeout \in Nat
  BY EventTimersAssumption DEF IInv, Types, OnTime, EpollWait
<1>1. CASE s = <<>>
  <2>1. \A id \in TimerIds : m[id] = NoTime
    <3> SUFFICES ASSUME NEW id \in TimerIds, m[id] # NoTime PROVE FALSE
      OBVIOUS
    <3>1. \E i \in 1 .. Len(s) : s[i] = <<m[id], id>>
      BY DEF IInv, Agree, Listed
    <3> QED BY <1>1, <3>1
  <2>2. Timeout \in Nat
    BY <1>0, <1>1 DEF Timeout
  <2>3. OnTime'
    BY <1>0, <2>1, <2>2 DEF OnTime, Registered, tables
  <2>4. wakeAt' \in Nat
    BY <1>0, <2>2
  <2> QED BY <1>0, <2>3, <2>4 DEF IInv, Types, tables
<1>2. CASE s # <<>>
  <2>1. Head(s) \in Entry /\ \A id \in TimerIds : m[id] # NoTime => Due(Head(s)) <= m[id]
    BY <1>2, TailAgrees DEF IInv
  <2>2. Due(Head(s)) \in Nat /\ Due(Head(s)) > ddwTimeNow /\ Timeout = Due(Head(s)) - ddwTimeNow
    BY <1>0, <1>2, <2>1, EntryParts DEF DueNow, Timeout
  <2>3. wakeAt' \in Nat /\ now <= wakeAt' /\ wakeAt' <= Due(Head(s)) + MaxBusy
    BY <1>0, <2>2
  <2>4. \A id \in TimerIds : m[id] # NoTime => m[id] \in Nat
    BY DEF IInv, Agree, Index
  <2>5. \A id \in TimerIds : m[id] # NoTime => wakeAt' <= m[id] + MaxBusy
    BY <1>0, <2>1, <2>2, <2>3, <2>4
  <2>6. OnTime'
    BY <1>0, <2>3, <2>5 DEF OnTime, Registered, tables
  <2> QED BY <1>0, <2>3, <2>6 DEF IInv, Types, tables
<1> QED BY <1>1, <1>2

LEMMA IInvNext == IInv /\ [Next]_vars => IInv'
<1> SUFFICES ASSUME IInv, [Next]_vars PROVE IInv'
  OBVIOUS
<1>0. /\ now \in Nat /\ ddwTimeNow \in Nat /\ busy \in Nat /\ MaxBusy \in Nat /\ busy <= MaxBusy /\ wakeAt \in Nat
      /\ ddwTimeNow <= now /\ \A id \in TimerIds : Registered(id) => m_mapTimeEventIndexs[id] \in Nat
  BY EventTimersAssumption DEF IInv, Types, Agree, Index, Registered
<1>1. CASE Round
  BY <1>0, <1>1 DEF Round, IInv, Types, OnTime, Registered, tables
<1>2. CASE Fire
  <2>1. fired' \in Entry /\ Agree(m_setStTimeEvents, m_mapTimeEventIndexs)'
        /\ \A id \in TimerIds : m_mapTimeEventIndexs'[id] \in {m_mapTimeEventIndexs[id], NoTime}
    BY <1>2, FireDoes
  <2>2. Types'
    BY <1>2, <2>1 DEF Fire, IInv, Types
  <2>3. OnTime'
    BY <1>2, <2>1 DEF Fire, IInv, OnTime, Registered
  <2> QED BY <2>1, <2>2, <2>3 DEF IInv
<1>3. CASE FireReturns
  BY <1>3 DEF FireReturns, IInv, Types, OnTime, Registered, tables
<1>4. CASE EpollWait
  BY <1>4, EpollWaitStep
<1>5. CASE EventReady
  BY <1>0, <1>5 DEF EventReady, IInv, Types, OnTime, Registered, tables
<1>6. CASE HandlersReturn
  BY <1>6 DEF HandlersReturn, IInv, Types, OnTime, Registered, tables
<1>7. CASE TimedOut
  BY <1>0, <1>7 DEF TimedOut, IInv, Types, OnTime, Registered, tables
<1>8. CASE Tick
  <2>1. Types' /\ Agree(m_setStTimeEvents, m_mapTimeEventIndexs)'
    BY <1>0, <1>8, EventTimersAssumption DEF Tick, IInv, Types, tables
  <2>2. OnTime'
    BY <1>0, <1>8 DEF Tick, IInv, Types, OnTime, Registered, tables
  <2> QED BY <2>1, <2>2 DEF IInv
<1>9. ASSUME NEW id \in TimerIds, DelTimer(id) PROVE IInv'
  BY <1>9, DelTimerStep
<1>10. ASSUME NEW id \in TimerIds, NEW dwExpire \in Expires, AddTimer(id, dwExpire) PROVE IInv'
  BY <1>10, AddTimerStep
<1>11. CASE UNCHANGED vars
  BY <1>11 DEF vars, tables, IInv, Types, OnTime, Registered
<1> QED BY <1>1, <1>2, <1>3, <1>4, <1>5, <1>6, <1>7, <1>8, <1>9, <1>10, <1>11 DEF Next, LoopStep

LEMMA IInvAlways == Spec => []IInv
BY InitIInv, IInvNext, PTL DEF Spec

(* The index and the multiset agree - what addTimer and delTimer rely on - *)
(* and no timer is later than twice the time that handlers may keep the    *)
(* loop, however many timers there are and whatever handlers do to them.   *)
THEOREM NoneIsLate == Spec => []Punctual
BY IInvAlways, IInvSays, PTL

(* The loop begins a callback only for a timer as it was set last, never   *)
(* early, and in the order of the due times.                               *)
THEOREM FiresAsSet == Spec => FiresRight
<1> DEFINE Right ==
        pc = "fire" /\ pc' = "callback" =>
            /\ Due(fired') <= now
            /\ m_mapTimeEventIndexs[Id(fired')] = Due(fired')
            /\ \A id \in TimerIds : m_mapTimeEventIndexs[id] # NoTime =>
                   m_mapTimeEventIndexs[id] >= Due(fired')
<1>1. IInv /\ [Next]_vars => [Right]_vars
  <2> SUFFICES ASSUME IInv, Next, pc = "fire", pc' = "callback" PROVE Right
    OBVIOUS
  <2>1. Fire
    BY DEF Next, LoopStep, Round, FireReturns, EpollWait, HandlersReturn, TimedOut, EventReady, Tick,
           DelTimer, AddTimer, InHandler
  <2>2. /\ fired' \in Entry /\ Due(fired') <= ddwTimeNow
        /\ m_mapTimeEventIndexs[Id(fired')] = Due(fired')
        /\ \A id \in TimerIds : Registered(id) => Due(fired') <= m_mapTimeEventIndexs[id]
    BY <2>1, FireDoes
  <2>3. now \in Nat /\ ddwTimeNow \in 0 .. now /\ Due(fired') \in Nat
        /\ \A id \in TimerIds : Registered(id) => m_mapTimeEventIndexs[id] \in Nat
    BY <2>2, EntryParts DEF IInv, Types, Agree, Index, Registered
  <2>4. Due(fired') <= now
    BY <2>2, <2>3
  <2>5. \A id \in TimerIds : m_mapTimeEventIndexs[id] # NoTime => m_mapTimeEventIndexs[id] >= Due(fired')
    BY <2>2, <2>3 DEF Registered
  <2> QED BY <2>2, <2>4, <2>5
<1> QED BY <1>1, IInvAlways, PTL DEF Spec, FiresRight
=============================================================================
