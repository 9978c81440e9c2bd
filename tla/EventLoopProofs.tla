--------------------------- MODULE EventLoopProofs ---------------------------
(***************************************************************************)
(* Proofs about the event list and the main loop, for every frame length,  *)
(* sentinel and width of the clock that LoopAssumption admits, and any     *)
(* number of devices: the order of the list, who ends frames, where the    *)
(* clock can be, and that the list implements the schedule of              *)
(* EventSchedule.                                                          *)
(***************************************************************************)
EXTENDS EventLoop, FiniteSetTheorems, SequenceTheorems,
        WellFoundedInduction, TLAPS

Queue == [list : Seq(Event), next : Time]

\* The list without its order, and where the entries of a set E stand.
Entries(q) == {q.list[i] : i \in DOMAIN q.list}
Places(list, E) == {i \in DOMAIN list : list[i] \in E}
NumOf(q, type) == Cardinality(Pending(q, type))

\* TimeOrder's part about the list.
Ordered(q) ==
  /\ q.next = NextOf(q.list)
  /\ \A i, j \in DOMAIN q.list : i < j => q.list[i].t <= q.list[j].t

-----------------------------------------------------------------------------
(***************************************************************************)
(* The operations of event.c, by what they do to the entries and how many  *)
(* there are of each.                                                      *)
(***************************************************************************)

\* r is s with e put in at k.
Insertion(s, r, k, e) ==
  /\ r \in Seq(Event) /\ k \in 1 .. Len(s) + 1 /\ Len(r) = Len(s) + 1
  /\ \A j \in 1 .. Len(r) : r[j] = IF j < k THEN s[j] ELSE IF j = k THEN e ELSE s[j - 1]

LEMMA WordTyped ==
  /\ Word \in Nat \ {0} /\ NoEvents \in Time /\ Time \subseteq Nat
  /\ Frame \in Time \ {0} /\ Sentinel \in Time \ {0} /\ SentinelReduce \in Time
  BY LoopAssumption DEF Time, NoEvents

LEMMA EntryTyped ==
  ASSUME NEW s \in Seq(Event), NEW i \in DOMAIN s
  PROVE  s[i] \in Event /\ s[i].t \in Nat /\ s[i].t \in Time /\ s[i].type \in Type \cup {"null"}
<1>1. s[i] \in Event
  OBVIOUS
<1> QED
  BY <1>1, WordTyped DEF Event

LEMMA PlacesFinite ==
  ASSUME NEW s \in Seq(Event), NEW E
  PROVE  IsFiniteSet(Places(s, E)) /\ Cardinality(Places(s, E)) \in Nat
<1>1. IsFiniteSet(1 .. Len(s)) /\ Places(s, E) \subseteq 1 .. Len(s)
  BY FS_Interval DEF Places
<1> QED
  BY <1>1, FS_Subset, FS_CardinalityType

LEMMA InsertionCounts ==
  ASSUME NEW s \in Seq(Event), NEW r, NEW k, NEW e \in Event, Insertion(s, r, k, e), NEW E
  PROVE  Cardinality(Places(r, E)) = Cardinality(Places(s, E)) + (IF e \in E THEN 1 ELSE 0)
<1> DEFINE shift == [i \in Places(s, E) |-> IF i < k THEN i ELSE i + 1]
<1>1. /\ DOMAIN s = 1 .. Len(s) /\ DOMAIN r = 1 .. Len(s) + 1 /\ Len(s) \in Nat
      /\ k \in 1 .. Len(s) + 1
  BY DEF Insertion
<1>2. \A i \in Places(s, E) : shift[i] \in Places(r, E) \ {k}
  BY <1>1 DEF Insertion, Places
<1>3. \A i, j \in Places(s, E) : shift[i] = shift[j] => i = j
  BY <1>1 DEF Places
<1>4. ASSUME NEW j \in Places(r, E) \ {k} PROVE \E i \in Places(s, E) : shift[i] = j
  <2>1. CASE j < k
    BY <1>1, <2>1 DEF Insertion, Places
  <2>2. CASE j > k
    <3>1. j - 1 \in Places(s, E)
      BY <1>1, <2>2 DEF Insertion, Places
    <3> QED
      BY <1>1, <2>2, <3>1 DEF Places
  <2> QED
    BY <1>1, <2>1, <2>2 DEF Places
<1>5. shift \in Bijection(Places(s, E), Places(r, E) \ {k})
  <2>1. shift \in [Places(s, E) -> Places(r, E) \ {k}]
    BY <1>2
  <2> HIDE DEF shift
  <2>2. shift \in Injection(Places(s, E), Places(r, E) \ {k})
    BY <2>1, <1>3 DEF Injection, IsInjective
  <2>3. shift \in Surjection(Places(s, E), Places(r, E) \ {k})
    BY <2>1, <1>4 DEF Surjection
  <2> QED
    BY <2>2, <2>3 DEF Bijection
<1>6. Cardinality(Places(r, E) \ {k}) = Cardinality(Places(s, E))
  BY <1>5, PlacesFinite, FS_Bijection DEF ExistsBijection
<1>7. r \in Seq(Event) /\ (k \in Places(r, E) <=> e \in E)
  BY <1>1 DEF Insertion, Places
<1>8. IsFiniteSet(Places(r, E)) /\ Cardinality(Places(r, E)) \in Nat
  BY <1>7, PlacesFinite
<1>9. Cardinality(Places(r, E) \ {k}) =
        IF k \in Places(r, E) THEN Cardinality(Places(r, E)) - 1 ELSE Cardinality(Places(r, E))
  BY <1>8, FS_RemoveElement
<1> QED
  BY <1>6, <1>7, <1>8, <1>9

LEMMA InsertionEntries ==
  ASSUME NEW s \in Seq(Event), NEW r, NEW k, NEW e \in Event, Insertion(s, r, k, e)
  PROVE  {r[i] : i \in DOMAIN r} = {s[i] : i \in DOMAIN s} \cup {e}
<1>1. /\ DOMAIN s = 1 .. Len(s) /\ DOMAIN r = 1 .. Len(s) + 1 /\ Len(s) \in Nat
      /\ k \in 1 .. Len(s) + 1
  BY DEF Insertion
<1>2. ASSUME NEW i \in DOMAIN s PROVE \E j \in DOMAIN r : r[j] = s[i]
  <2>1. CASE i < k
    BY <1>1, <2>1 DEF Insertion
  <2>2. CASE i >= k
    <3>1. i + 1 \in DOMAIN r /\ r[i + 1] = s[i]
      BY <1>1, <2>2 DEF Insertion
    <3> QED
      BY <3>1
  <2> QED
    BY <1>1, <2>1, <2>2
<1>3. r[k] = e /\ k \in DOMAIN r
  BY <1>1 DEF Insertion
<1>4. ASSUME NEW j \in DOMAIN r PROVE r[j] = e \/ \E i \in DOMAIN s : s[i] = r[j]
  <2>1. CASE j < k
    BY <1>1, <2>1 DEF Insertion
  <2>2. CASE j > k
    <3>1. j - 1 \in DOMAIN s /\ r[j] = s[j - 1]
      BY <1>1, <2>2 DEF Insertion
    <3> QED
      BY <3>1
  <2> QED
    BY <1>1, <1>3, <2>1, <2>2
<1> QED
  BY <1>2, <1>3, <1>4

LEMMA SmallestOf ==
  ASSUME NEW S \in SUBSET Nat, S # {}
  PROVE  Min(S) \in S /\ \A x \in S : Min(S) <= x
<1>1. \E x \in S : \A y \in S : ~(<<y, x>> \in OpToRel(<, Nat))
  BY NatLessThanWellFounded, WFMin
<1>2. \A x, y \in Nat : ~(<<y, x>> \in OpToRel(<, Nat)) => x <= y
  BY DEF OpToRel
<1> QED
  BY <1>1, <1>2 DEF Min

LEMMA InsertAtInserts ==
  ASSUME NEW s \in Seq(Event), NEW k \in 1 .. Len(s) + 1, NEW e \in Event
  PROVE  Insertion(s, InsertAt(s, k, e), k, e)
<1> DEFINE front == SubSeq(s, 1, k - 1)
           back == SubSeq(s, k, Len(s))
<1>1. Len(s) \in Nat /\ k \in Nat
  OBVIOUS
<1>2. /\ front \in Seq(Event) /\ Len(front) = k - 1
      /\ \A j \in 1 .. k - 1 : front[j] = s[j]
  BY <1>1
<1>3. /\ back \in Seq(Event) /\ Len(back) = Len(s) - k + 1
      /\ \A j \in 1 .. Len(s) - k + 1 : back[j] = s[k + j - 1]
  BY <1>1
<1> HIDE DEF front, back
<1> DEFINE begun == front \o <<e>>
<1>4. /\ begun \in Seq(Event) /\ Len(begun) = k /\ begun[k] = e
      /\ \A j \in 1 .. k - 1 : begun[j] = s[j]
  BY <1>1, <1>2
<1> HIDE DEF begun
<1>5. /\ begun \o back \in Seq(Event) /\ Len(begun \o back) = Len(s) + 1
      /\ \A j \in 1 .. Len(s) + 1 :
           (begun \o back)[j] = IF j <= k THEN begun[j] ELSE back[j - k]
  BY <1>1, <1>3, <1>4, ConcatProperties
<1>6. \A j \in 1 .. Len(s) + 1 : j > k => back[j - k] = s[j - 1]
  <2> SUFFICES ASSUME NEW j \in 1 .. Len(s) + 1, j > k PROVE back[j - k] = s[j - 1]
    OBVIOUS
  <2>1. j - k \in 1 .. Len(s) - k + 1 /\ k + (j - k) - 1 = j - 1
    BY <1>1
  <2> QED
    BY <1>3, <2>1
<1>7. InsertAt(s, k, e) = begun \o back
  BY DEF InsertAt, begun, front, back
<1> QED
  BY <1>1, <1>4, <1>5, <1>6, <1>7 DEF Insertion

\* An event goes where the order wants it, and the cached time of the head follows.
LEMMA Added ==
  ASSUME NEW q \in Queue, Ordered(q), NEW t \in Time, NEW type \in Type \cup {"null"}
  PROVE  LET e == [t |-> t, type |-> type]
             r == event_add(q, t, type)
         IN /\ e \in Event /\ r \in Queue /\ Ordered(r)
            /\ \E k : Insertion(q.list, r.list, k, e)
            /\ r.next = IF t < q.next THEN t ELSE q.next
<1> DEFINE e == [t |-> t, type |-> type]
           s == q.list
           r == event_add(q, t, type)
           later == {i \in DOMAIN s : NotAfter(e, s[i])}
           k == Min(later \cup {Len(s) + 1})
<1>1. e \in Event /\ s \in Seq(Event) /\ q.next \in Time /\ Len(s) \in Nat
  BY DEF Event, Queue
<1>2. \A i \in DOMAIN s : s[i] \in Event /\ s[i].t \in Nat
  BY <1>1, EntryTyped
<1>3. t \in Nat /\ q.next \in Nat /\ NoEvents \in Nat /\ t <= NoEvents
  BY <1>1, WordTyped DEF Time, NoEvents
<1>4. CASE t < q.next
  <2>1. r = [list |-> <<e>> \o s, next |-> t]
    BY <1>4 DEF event_add
  <2>2. Insertion(s, <<e>> \o s, 1, e)
    BY <1>1 DEF Insertion
  <2>3. \A i \in DOMAIN s : t <= s[i].t
    <3> SUFFICES ASSUME NEW i \in DOMAIN s PROVE t <= s[i].t
      OBVIOUS
    <3>1. q.next = s[1].t /\ 1 \in DOMAIN s
      BY <1>1 DEF Ordered, NextOf
    <3>2. s[1].t <= s[i].t
      BY <1>1, <1>2, <3>1 DEF Ordered
    <3> QED
      BY <1>2, <1>3, <1>4, <3>1, <3>2
  <2>4. \A i, j \in DOMAIN (<<e>> \o s) : i < j => (<<e>> \o s)[i].t <= (<<e>> \o s)[j].t
    <3> SUFFICES ASSUME NEW i \in 1 .. Len(s) + 1, NEW j \in 1 .. Len(s) + 1, i < j
                 PROVE  (<<e>> \o s)[i].t <= (<<e>> \o s)[j].t
      BY <1>1
    <3>1. j - 1 \in DOMAIN s /\ (<<e>> \o s)[j] = s[j - 1]
      BY <1>1
    <3>2. CASE i = 1
      BY <1>1, <2>3, <3>1, <3>2
    <3>3. CASE i # 1
      <4>1. i - 1 \in DOMAIN s /\ (<<e>> \o s)[i] = s[i - 1] /\ i - 1 < j - 1
        BY <1>1, <3>3
      <4> QED
        BY <3>1, <4>1 DEF Ordered
    <3> QED
      BY <3>2, <3>3
  <2>5. NextOf(<<e>> \o s) = t
    BY <1>1 DEF NextOf
  <2>6. r \in Queue
    BY <1>1, <2>1, <2>2 DEF Insertion, Queue
  <2> QED
    BY <1>1, <1>4, <2>1, <2>2, <2>4, <2>5, <2>6 DEF Ordered
<1>5. CASE ~(t < q.next)
  <2>1. r = [q EXCEPT !.list = InsertAt(s, k, e)]
    BY <1>5 DEF event_add
  <2>2. k \in later \cup {Len(s) + 1} /\ \A i \in later \cup {Len(s) + 1} : k <= i
    <3>1. later \cup {Len(s) + 1} \in SUBSET Nat
      BY <1>1
    <3> QED
      BY <3>1, SmallestOf
  <2>3. k \in 1 .. Len(s) + 1
    BY <1>1, <2>2
  <2>a. \A i \in DOMAIN s : i \in later <=> NotAfter(e, s[i])
    OBVIOUS
  <2>b. \A i \in DOMAIN s : s[i].t <= t \/ NotAfter(e, s[i])
    BY <1>2, <1>3 DEF NotAfter
  <2>c. \A i \in DOMAIN s : NotAfter(e, s[i]) => t <= s[i].t
    <3> SUFFICES ASSUME NEW i \in DOMAIN s, NotAfter(e, s[i]) PROVE t <= s[i].t
      OBVIOUS
    <3>1. t < s[i].t \/ t = s[i].t
      BY DEF NotAfter
    <3> QED
      BY <1>2, <1>3, <3>1
  <2>d. k \in DOMAIN s => k \in later
    BY <1>1, <2>2
  <2> HIDE DEF k, later, e, r
  <2>4. \A i \in DOMAIN s : (i < k => s[i].t <= t) /\ (i >= k => t <= s[i].t)
    <3> SUFFICES ASSUME NEW i \in DOMAIN s
                 PROVE  (i < k => s[i].t <= t) /\ (i >= k => t <= s[i].t)
      OBVIOUS
    <3>1. ASSUME i < k PROVE s[i].t <= t
      <4>1. i \notin later
        BY <1>1, <2>2, <2>3, <3>1
      <4> QED
        BY <2>a, <2>b, <4>1
    <3>2. ASSUME i >= k PROVE t <= s[i].t
      <4>1. k \in DOMAIN s /\ k \in Nat /\ i \in Nat
        BY <1>1, <2>3, <3>2
      <4>2. t <= s[k].t
        BY <2>a, <2>c, <2>d, <4>1
      <4>3. k = i \/ s[k].t <= s[i].t
        BY <3>2, <4>1 DEF Ordered
      <4>4. s[k].t \in Nat /\ s[i].t \in Nat
        BY <1>2, <4>1
      <4> QED
        BY <1>3, <4>2, <4>3, <4>4
    <3> QED
      BY <3>1, <3>2
  <2>5. Insertion(s, InsertAt(s, k, e), k, e)
    BY <1>1, <2>3, InsertAtInserts
  <2> DEFINE l == InsertAt(s, k, e)
  <2>6. /\ l \in Seq(Event) /\ Len(l) = Len(s) + 1 /\ e.t = t
        /\ \A j \in 1 .. Len(s) + 1 : l[j] = IF j < k THEN s[j] ELSE IF j = k THEN e ELSE s[j - 1]
    BY <1>1, <2>5 DEF Insertion, e
  <2>7. r = [q EXCEPT !.list = l]
    BY <2>1
  <2> HIDE DEF l
  <2>8. \A i, j \in DOMAIN l : i < j => l[i].t <= l[j].t
    <3> SUFFICES ASSUME NEW i \in 1 .. Len(s) + 1, NEW j \in 1 .. Len(s) + 1, i < j
                 PROVE  l[i].t <= l[j].t
      BY <2>6
    <3>1. CASE j < k
      <4>1. j \in DOMAIN s /\ i \in DOMAIN s /\ l[j] = s[j] /\ l[i] = s[i]
        BY <1>1, <2>3, <2>6, <3>1
      <4> QED
        BY <4>1 DEF Ordered
    <3>2. CASE j = k
      BY <1>1, <2>3, <2>4, <2>6, <3>2
    <3>3. CASE i < k /\ j > k
      <4>1. j - 1 \in DOMAIN s /\ i \in DOMAIN s /\ l[j] = s[j - 1] /\ l[i] = s[i]
        BY <1>1, <2>3, <2>6, <3>3
      <4>2. s[i].t <= t /\ t <= s[j - 1].t
        BY <2>3, <2>4, <3>3, <4>1
      <4> QED
        BY <1>2, <1>3, <4>1, <4>2
    <3>4. CASE i = k
      <4>1. j - 1 \in DOMAIN s /\ l[j] = s[j - 1] /\ l[i] = e
        BY <1>1, <2>3, <2>6, <3>4
      <4> QED
        BY <2>3, <2>4, <2>6, <3>4, <4>1
    <3>5. CASE i > k
      <4>1. j - 1 \in DOMAIN s /\ i - 1 \in DOMAIN s /\ i - 1 < j - 1
        BY <1>1, <2>3, <3>5
      <4>2. l[j] = s[j - 1] /\ l[i] = s[i - 1]
        BY <1>1, <2>3, <2>6, <3>5
      <4> QED
        BY <4>1, <4>2 DEF Ordered
    <3> QED
      BY <2>3, <3>1, <3>2, <3>3, <3>4, <3>5
  <2>9. NextOf(l) = q.next
    <3>0. l # <<>> /\ Head(l) = l[1]
      BY <1>1, <2>6
    <3>1. CASE s = <<>>
      <4>1. q.next = NoEvents
        BY <3>1 DEF Ordered, NextOf
      <4>2. l[1] = e
        BY <2>3, <2>6, <3>1
      <4> QED
        BY <1>3, <1>5, <2>6, <3>0, <4>1, <4>2 DEF NextOf
    <3>2. CASE s # <<>>
      <4>1. q.next = s[1].t /\ 1 \in DOMAIN s
        BY <1>1, <3>2 DEF Ordered, NextOf
      <4>2. CASE k = 1
        <5>1. l[1] = e /\ t <= s[1].t
          BY <1>1, <2>4, <2>6, <4>1, <4>2
        <5> QED
          BY <1>2, <1>3, <1>5, <2>6, <3>0, <4>1, <5>1 DEF NextOf
      <4>3. CASE k # 1
        <5>1. l[1] = s[1]
          BY <1>1, <2>3, <2>6, <4>3
        <5> QED
          BY <3>0, <4>1, <5>1 DEF NextOf
      <4> QED
        BY <4>2, <4>3
    <3> QED
      BY <3>1, <3>2
  <2>10. r \in Queue /\ r.list = l /\ r.next = q.next
    BY <2>6, <2>7 DEF Queue
  <2>11. Ordered(r)
    BY <2>8, <2>9, <2>10 DEF Ordered
  <2>12. \E kk : Insertion(q.list, r.list, kk, e)
    BY <2>5, <2>10 DEF l
  <2> QED
    BY <1>1, <1>5, <2>10, <2>11, <2>12 DEF r, e
<1> QED
  BY <1>4, <1>5

OfType(type) == {e \in Event : e.type = type}

LEMMA CountsArePlaces ==
  ASSUME NEW q \in Queue
  PROVE  /\ \A type : Pending(q, type) = Places(q.list, OfType(type))
         /\ \A e : Copies(q, e) = Cardinality(Places(q.list, {e}))
         /\ \A type : NumOf(q, type) \in Nat
         /\ \A e : Copies(q, e) \in Nat
<1>1. q.list \in Seq(Event)
  BY DEF Queue
<1>2. \A i \in DOMAIN q.list : q.list[i] \in Event
  BY <1>1, EntryTyped
<1>3. \A type : Pending(q, type) = Places(q.list, OfType(type))
  BY <1>2 DEF Pending, Places, OfType
<1>4. \A e : {i \in DOMAIN q.list : q.list[i] = e} = Places(q.list, {e})
  BY DEF Places
<1> QED
  BY <1>1, <1>3, <1>4, PlacesFinite DEF NumOf, Copies

LEMMA NoneOfType ==
  ASSUME NEW q \in Queue, NEW type
  PROVE  NumOf(q, type) = 0 <=> \A e \in Entries(q) : e.type # type
<1>1. q.list \in Seq(Event)
  BY DEF Queue
<1>2. IsFiniteSet(Pending(q, type))
  BY <1>1, CountsArePlaces, PlacesFinite
<1> QED
  BY <1>2, FS_EmptySet DEF NumOf, Pending, Entries

LEMMA NoCopies ==
  ASSUME NEW q \in Queue, NEW e
  PROVE  Copies(q, e) = 0 <=> e \notin Entries(q)
<1>1. q.list \in Seq(Event)
  BY DEF Queue
<1>2. IsFiniteSet({i \in DOMAIN q.list : q.list[i] = e})
  <2>1. {i \in DOMAIN q.list : q.list[i] = e} = Places(q.list, {e})
    BY DEF Places
  <2> QED
    BY <1>1, <2>1, PlacesFinite
<1> QED
  BY <1>2, FS_EmptySet DEF Copies, Entries

LEMMA EntriesTyped ==
  ASSUME NEW q \in Queue, NEW e \in Entries(q)
  PROVE  /\ e \in Event /\ e.t \in Nat /\ e.t \in Time /\ e.type \in Type \cup {"null"}
<1>1. q.list \in Seq(Event)
  BY DEF Queue
<1> QED
  BY <1>1, EntryTyped DEF Entries

LEMMA HeadFirst ==
  ASSUME NEW q \in Queue, Ordered(q)
  PROVE  /\ \A e \in Entries(q) : q.next <= e.t
         /\ q.list # <<>> => Head(q.list) \in Entries(q) /\ Head(q.list).t = q.next
         /\ q.list = <<>> => q.next = NoEvents
<1>1. q.list \in Seq(Event) /\ q.next \in Time
  BY DEF Queue
<1>2. q.list # <<>> => 1 \in DOMAIN q.list /\ Head(q.list) = q.list[1]
  BY <1>1
<1>3. ASSUME NEW i \in DOMAIN q.list PROVE q.next <= q.list[i].t
  <2>1. q.next = q.list[1].t /\ 1 \in DOMAIN q.list
    BY <1>1, <1>2 DEF Ordered, NextOf
  <2>2. i = 1 \/ q.list[1].t <= q.list[i].t
    <3>1. i = 1 \/ 1 < i
      BY <1>1
    <3> QED
      BY <2>1, <3>1 DEF Ordered
  <2>3. q.list[i].t \in Nat /\ q.list[1].t \in Nat
    BY <1>1, <2>1, EntryTyped
  <2> QED
    BY <2>1, <2>2, <2>3
<1> QED
  BY <1>2, <1>3 DEF Ordered, NextOf, Entries

LEMMA InsertionEffect ==
  ASSUME NEW q \in Queue, NEW r \in Queue, NEW k, NEW e \in Event, Insertion(q.list, r.list, k, e)
  PROVE  /\ Entries(r) = Entries(q) \cup {e}
         /\ NumOf(r, e.type) = NumOf(q, e.type) + 1
         /\ \A type : type # e.type => NumOf(r, type) = NumOf(q, type)
         /\ Copies(r, e) = Copies(q, e) + 1
         /\ \A f : f # e => Copies(r, f) = Copies(q, f)
<1>1. q.list \in Seq(Event)
  BY DEF Queue
<1>2. Entries(r) = Entries(q) \cup {e}
  BY <1>1, InsertionEntries DEF Entries
<1>3. ASSUME NEW type PROVE NumOf(r, type) = NumOf(q, type) + (IF e.type = type THEN 1 ELSE 0)
  <2>1. Cardinality(Places(r.list, OfType(type)))
          = Cardinality(Places(q.list, OfType(type))) + (IF e \in OfType(type) THEN 1 ELSE 0)
    BY <1>1, InsertionCounts
  <2>2. e \in OfType(type) <=> e.type = type
    BY DEF OfType
  <2> QED
    BY <2>1, <2>2, CountsArePlaces DEF NumOf
<1>4. ASSUME NEW f PROVE Copies(r, f) = Copies(q, f) + (IF f = e THEN 1 ELSE 0)
  <2>1. Cardinality(Places(r.list, {f})) = Cardinality(Places(q.list, {f})) + (IF e \in {f} THEN 1 ELSE 0)
    BY <1>1, InsertionCounts
  <2> QED
    BY <2>1, CountsArePlaces
<1>5. NumOf(r, e.type) = NumOf(q, e.type) + 1
  BY <1>3
<1>6. \A type : type # e.type => NumOf(r, type) = NumOf(q, type)
  BY <1>3, CountsArePlaces
<1>7. Copies(r, e) = Copies(q, e) + 1
  BY <1>4
<1>8. \A f : f # e => Copies(r, f) = Copies(q, f)
  BY <1>4, CountsArePlaces
<1> QED
  BY <1>2, <1>5, <1>6, <1>7, <1>8

\* event_add_with_data
LEMMA AddEffect ==
  ASSUME NEW q \in Queue, Ordered(q), NEW t \in Time, NEW type \in Type \cup {"null"}
  PROVE  LET e == [t |-> t, type |-> type]
             r == event_add(q, t, type)
         IN /\ e \in Event /\ r \in Queue /\ Ordered(r)
            /\ r.next = IF t < q.next THEN t ELSE q.next
            /\ Entries(r) = Entries(q) \cup {e}
            /\ NumOf(r, type) = NumOf(q, type) + 1
            /\ \A ty : ty # type => NumOf(r, ty) = NumOf(q, ty)
            /\ Copies(r, e) = Copies(q, e) + 1
            /\ \A f : f # e => Copies(r, f) = Copies(q, f)
<1> DEFINE e == [t |-> t, type |-> type]
           r == event_add(q, t, type)
<1>1. /\ e \in Event /\ r \in Queue /\ Ordered(r)
      /\ \E k : Insertion(q.list, r.list, k, e)
      /\ r.next = IF t < q.next THEN t ELSE q.next
  BY Added
<1>2. e.type = type
  OBVIOUS
<1> HIDE DEF e, r
<1>3. PICK k : Insertion(q.list, r.list, k, e)
  BY <1>1
<1>4. /\ Entries(r) = Entries(q) \cup {e}
      /\ NumOf(r, type) = NumOf(q, type) + 1
      /\ \A ty : ty # type => NumOf(r, ty) = NumOf(q, ty)
      /\ Copies(r, e) = Copies(q, e) + 1
      /\ \A f : f # e => Copies(r, f) = Copies(q, f)
  BY <1>1, <1>2, <1>3, InsertionEffect
<1> QED
  BY <1>1, <1>4 DEF e, r

\* The same, about a named queue and a named entry.
LEMMA Adds ==
  ASSUME NEW q \in Queue, Ordered(q), NEW t \in Time, NEW type \in Type \cup {"null"},
         NEW e, e = [t |-> t, type |-> type], NEW r, r = event_add(q, t, type)
  PROVE  /\ e \in Event /\ e.t = t /\ e.type = type
         /\ r \in Queue /\ Ordered(r)
         /\ r.next = IF t < q.next THEN t ELSE q.next
         /\ Entries(r) = Entries(q) \cup {e}
         /\ NumOf(r, type) = NumOf(q, type) + 1
         /\ \A ty : ty # type => NumOf(r, ty) = NumOf(q, ty)
         /\ Copies(r, e) = Copies(q, e) + 1
         /\ \A f : f # e => Copies(r, f) = Copies(q, f)
<1>1. e.t = t /\ e.type = type
  OBVIOUS
<1> QED
  BY <1>1, AddEffect

\* event_do_events takes the head.
LEMMA PopEffect ==
  ASSUME NEW q \in Queue, Ordered(q), q.list # <<>>
  PROVE  LET h == Head(q.list)
             r == PopHead(q)
         IN /\ h \in Entries(q) /\ h.t = q.next
            /\ r \in Queue /\ Ordered(r)
            /\ Entries(q) = Entries(r) \cup {h}
            /\ NumOf(q, h.type) = NumOf(r, h.type) + 1
            /\ \A ty : ty # h.type => NumOf(q, ty) = NumOf(r, ty)
            /\ Copies(q, h) = Copies(r, h) + 1
            /\ \A f : f # h => Copies(q, f) = Copies(r, f)
<1> DEFINE h == Head(q.list)
           l == Tail(q.list)
           r == PopHead(q)
<1>1. /\ q.list \in Seq(Event) /\ h \in Event /\ l \in Seq(Event)
      /\ h = q.list[1] /\ Len(l) = Len(q.list) - 1 /\ Len(q.list) \in Nat \ {0}
      /\ \A i \in 1 .. Len(q.list) - 1 : l[i] = q.list[i + 1]
  BY DEF Queue
<1>2. r.list = l /\ r.next = NextOf(l) /\ r \in [list : {l}, next : {NextOf(l)}]
  BY DEF PopHead
<1>3. NextOf(l) \in Time
  <2>1. l # <<>> => Head(l) \in Event
    BY <1>1
  <2> QED
    BY <2>1, WordTyped DEF NextOf, Event
<1>4. r \in Queue
  BY <1>1, <1>2, <1>3 DEF Queue
<1>5. Ordered(r)
  <2> SUFFICES ASSUME NEW i \in 1 .. Len(q.list) - 1, NEW j \in 1 .. Len(q.list) - 1, i < j
               PROVE  l[i].t <= l[j].t
    <3>1. DOMAIN l = 1 .. Len(q.list) - 1
      BY <1>1
    <3> HIDE DEF l, r
    <3> QED
      BY <1>2, <3>1 DEF Ordered
  <2>1. /\ i + 1 \in DOMAIN q.list /\ j + 1 \in DOMAIN q.list /\ i + 1 < j + 1
        /\ l[i] = q.list[i + 1] /\ l[j] = q.list[j + 1]
    BY <1>1
  <2> QED
    BY <2>1 DEF Ordered
<1>6. Insertion(r.list, q.list, 1, h)
  BY <1>1, <1>2 DEF Insertion
<1>7. h \in Entries(q) /\ h.t = q.next
  BY HeadFirst
<1>9. h \in Event
  BY <1>1
<1> HIDE DEF h, l, r
<1>a. PICK k : Insertion(r.list, q.list, k, h)
  BY <1>6
<1>b. /\ Entries(q) = Entries(r) \cup {h}
      /\ NumOf(q, h.type) = NumOf(r, h.type) + 1
      /\ \A ty : ty # h.type => NumOf(q, ty) = NumOf(r, ty)
      /\ Copies(q, h) = Copies(r, h) + 1
      /\ \A f : f # h => Copies(q, f) = Copies(r, f)
  BY <1>4, <1>9, <1>a, InsertionEffect
<1> QED
  BY <1>4, <1>5, <1>7, <1>b DEF h, r

\* event_remove_type
LEMMA RemoveEffect ==
  ASSUME NEW q \in Queue, Ordered(q), NEW type \in Type
  PROVE  LET r == event_remove_type(q, type)
         IN /\ r \in Queue /\ Ordered(r) /\ r.next = q.next
            /\ Entries(r) = {e \in Entries(q) : e.type # type}
                 \cup {[e EXCEPT !.type = "null"] : e \in {f \in Entries(q) : f.type = type}}
            /\ NumOf(r, type) = 0
            /\ \A ty : ty \notin {type, "null"} => NumOf(r, ty) = NumOf(q, ty)
            /\ \A f \in Event : f.type \notin {type, "null"} => Copies(r, f) = Copies(q, f)
<1> DEFINE r == event_remove_type(q, type)
           l == [i \in DOMAIN q.list |->
                   IF q.list[i].type = type THEN [q.list[i] EXCEPT !.type = "null"] ELSE q.list[i]]
<1>1. q.list \in Seq(Event) /\ \A i \in DOMAIN q.list : q.list[i] \in Event
  BY EntryTyped DEF Queue
<1>2. r = [q EXCEPT !.list = l]
  BY DEF event_remove_type
<1>3. type # "null"
  BY DEF Type
<1>4. ASSUME NEW i \in DOMAIN q.list
      PROVE  /\ l[i] \in Event /\ l[i].t = q.list[i].t
             /\ q.list[i].type = type => l[i] = [q.list[i] EXCEPT !.type = "null"] /\ l[i].type = "null"
             /\ q.list[i].type # type => l[i] = q.list[i]
  BY <1>1 DEF Event
<1>5. l \in Seq(Event) /\ Len(l) = Len(q.list) /\ DOMAIN l = DOMAIN q.list
  <2>1. DOMAIN l = 1 .. Len(q.list) /\ Len(q.list) \in Nat /\ DOMAIN q.list = 1 .. Len(q.list)
    BY <1>1
  <2>2. l \in [1 .. Len(q.list) -> Event]
    BY <1>4, <2>1
  <2> HIDE DEF l
  <2> QED
    BY <2>1, <2>2
<1> HIDE DEF l
<1>6. r \in Queue /\ r.list = l /\ r.next = q.next
  BY <1>2, <1>5 DEF Queue
<1> HIDE DEF r
<1>7. NextOf(l) = NextOf(q.list)
  <2>1. l = <<>> <=> q.list = <<>>
    BY <1>1, <1>5
  <2>2. CASE q.list # <<>>
    <3>1. 1 \in DOMAIN q.list /\ Head(q.list) = q.list[1] /\ Head(l) = l[1]
      BY <1>1, <1>5, <2>2
    <3> QED
      BY <1>4, <2>1, <2>2, <3>1 DEF NextOf
  <2> QED
    BY <2>1, <2>2 DEF NextOf
<1>8. Ordered(r)
  BY <1>4, <1>5, <1>6, <1>7 DEF Ordered
<1>9. Entries(r) = {e \in Entries(q) : e.type # type}
        \cup {[e EXCEPT !.type = "null"] : e \in {f \in Entries(q) : f.type = type}}
  <2>1. Entries(r) = {l[i] : i \in DOMAIN q.list}
    BY <1>5, <1>6 DEF Entries
  <2>2. ASSUME NEW i \in DOMAIN q.list
        PROVE  l[i] \in {e \in Entries(q) : e.type # type}
                 \cup {[e EXCEPT !.type = "null"] : e \in {f \in Entries(q) : f.type = type}}
    <3>1. q.list[i] \in Entries(q)
      BY DEF Entries
    <3> QED
      BY <1>4, <3>1
  <2>3. ASSUME NEW e \in Entries(q), e.type # type PROVE \E i \in DOMAIN q.list : l[i] = e
    <3>1. PICK i \in DOMAIN q.list : q.list[i] = e
      BY DEF Entries
    <3> QED
      BY <1>4, <2>3, <3>1
  <2>4. ASSUME NEW e \in Entries(q), e.type = type
        PROVE  \E i \in DOMAIN q.list : l[i] = [e EXCEPT !.type = "null"]
    BY <1>4, <2>4 DEF Entries
  <2> QED
    BY <2>1, <2>2, <2>3, <2>4
<1>10. NumOf(r, type) = 0
  <2>1. \A i \in DOMAIN q.list : l[i].type # type
    BY <1>3, <1>4
  <2>2. \A e \in Entries(r) : e.type # type
    BY <1>5, <1>6, <2>1 DEF Entries
  <2> QED
    BY <1>6, <2>2, NoneOfType
<1>11. ASSUME NEW ty, ty \notin {type, "null"} PROVE NumOf(r, ty) = NumOf(q, ty)
  <2>1. Pending(r, ty) = Pending(q, ty)
    BY <1>4, <1>5, <1>6, <1>11 DEF Pending
  <2> QED
    BY <2>1 DEF NumOf
<1>12. ASSUME NEW f \in Event, f.type \notin {type, "null"} PROVE Copies(r, f) = Copies(q, f)
  <2>1. \A i \in DOMAIN q.list : l[i] = f <=> q.list[i] = f
    BY <1>4, <1>12
  <2>2. {i \in DOMAIN r.list : r.list[i] = f} = {i \in DOMAIN q.list : q.list[i] = f}
    BY <1>5, <1>6, <2>1
  <2> QED
    BY <2>2 DEF Copies
<1> QED
  BY <1>6, <1>8, <1>9, <1>10, <1>11, <1>12 DEF r

LEMMA Reducing ==
  ASSUME NEW t \in Time, NEW n \in Nat, n <= t
  PROVE  (t + Word - n) % Word = t - n /\ t - n \in Time
<1>1. t + Word - n = (t - n) + Word /\ t - n \in 0 .. Word - 1 /\ Word \in Nat \ {0}
  BY WordTyped DEF Time
<1>2. \A x \in Nat, w \in Nat \ {0} : x < w => (x + w) % w = x
  OBVIOUS
<1> QED
  BY <1>1, <1>2 DEF Time

Earlier(e, n) == [e EXCEPT !.t = @ - n]

\* event_frame, when nothing wraps.
LEMMA FrameEffect ==
  ASSUME NEW q \in Queue, Ordered(q), NEW n \in Nat, \A e \in Entries(q) : n <= e.t
  PROVE  LET r == event_frame(q, n)
         IN /\ r \in Queue /\ Ordered(r)
            /\ Entries(r) = {Earlier(e, n) : e \in Entries(q)}
            /\ \A ty : NumOf(r, ty) = NumOf(q, ty)
            /\ \A f \in Event : n <= f.t => Copies(r, Earlier(f, n)) = Copies(q, f)
<1> DEFINE r == event_frame(q, n)
           l == [i \in DOMAIN q.list |-> [q.list[i] EXCEPT !.t = (@ + Word - n) % Word]]
<1>1. q.list \in Seq(Event) /\ \A i \in DOMAIN q.list : q.list[i] \in Event /\ q.list[i].t \in Time
  BY EntryTyped DEF Queue
<1>2. r = [list |-> l, next |-> NextOf(l)]
  BY DEF event_frame
<1>3. ASSUME NEW i \in DOMAIN q.list
      PROVE  /\ l[i] \in Event /\ l[i].t = q.list[i].t - n /\ l[i].type = q.list[i].type
             /\ l[i] = Earlier(q.list[i], n) /\ n <= q.list[i].t
  <2>1. n <= q.list[i].t
    BY DEF Entries
  <2>2. (q.list[i].t + Word - n) % Word = q.list[i].t - n /\ q.list[i].t - n \in Time
    BY <1>1, <2>1, Reducing
  <2> QED
    BY <1>1, <2>1, <2>2 DEF Event, Earlier
<1>4. l \in Seq(Event) /\ Len(l) = Len(q.list) /\ DOMAIN l = DOMAIN q.list
  <2>1. DOMAIN l = 1 .. Len(q.list) /\ Len(q.list) \in Nat /\ DOMAIN q.list = 1 .. Len(q.list)
    BY <1>1
  <2>2. l \in [1 .. Len(q.list) -> Event]
    BY <1>3, <2>1
  <2> HIDE DEF l
  <2> QED
    BY <2>1, <2>2
<1> HIDE DEF l
<1>5. NextOf(l) \in Time
  <2>1. l # <<>> => Head(l) \in Event
    BY <1>4
  <2> QED
    BY <2>1, WordTyped DEF NextOf, Event
<1>6. r \in Queue /\ r.list = l /\ r.next = NextOf(l)
  BY <1>2, <1>4, <1>5 DEF Queue
<1> HIDE DEF r
<1>7. Ordered(r)
  <2> SUFFICES ASSUME NEW i \in DOMAIN q.list, NEW j \in DOMAIN q.list, i < j
               PROVE  l[i].t <= l[j].t
    BY <1>4, <1>6 DEF Ordered
  <2>1. q.list[i].t <= q.list[j].t /\ q.list[i].t \in Nat /\ q.list[j].t \in Nat
    BY <1>1, WordTyped DEF Ordered
  <2> QED
    BY <1>3, <2>1
<1>8. Entries(r) = {Earlier(e, n) : e \in Entries(q)}
  BY <1>3, <1>4, <1>6 DEF Entries
<1>9. ASSUME NEW ty PROVE NumOf(r, ty) = NumOf(q, ty)
  <2>1. Pending(r, ty) = Pending(q, ty)
    BY <1>3, <1>4, <1>6 DEF Pending
  <2> QED
    BY <2>1 DEF NumOf
<1>10. ASSUME NEW f \in Event, n <= f.t PROVE Copies(r, Earlier(f, n)) = Copies(q, f)
  <2>1. ASSUME NEW i \in DOMAIN q.list PROVE l[i] = Earlier(f, n) <=> q.list[i] = f
    <3>1. /\ Earlier(f, n) = [t |-> f.t - n, type |-> f.type]
          /\ Earlier(q.list[i], n) = [t |-> q.list[i].t - n, type |-> q.list[i].type]
          /\ l[i] = Earlier(q.list[i], n)
      <4>1. \A e \in Event : Earlier(e, n) = [t |-> e.t - n, type |-> e.type]
        BY DEF Earlier, Event
      <4> QED
        BY <1>1, <1>3, <4>1
    <3>2. /\ f = [t |-> f.t, type |-> f.type] /\ f.t \in Nat
          /\ q.list[i] = [t |-> q.list[i].t, type |-> q.list[i].type] /\ q.list[i].t \in Nat
      BY <1>1, WordTyped DEF Event
    <3> QED
      BY <3>1, <3>2
  <2>2. {i \in DOMAIN r.list : r.list[i] = Earlier(f, n)} = {i \in DOMAIN q.list : q.list[i] = f}
    BY <1>4, <1>6, <2>1
  <2> QED
    BY <2>2 DEF Copies
<1> QED
  BY <1>6, <1>7, <1>8, <1>9, <1>10 DEF r

-----------------------------------------------------------------------------
(***************************************************************************)
(* The inductive invariant.                                                *)
(***************************************************************************)
Fires(type) == firing # <<>> /\ firing[1].type = type

\* The clock is ahead of the sentinel by an instruction at most, and each
\* device that is to come may take an interrupt before the loop looks again.
Reserve(n) == n * MaxStep
Limit == Sentinel + MaxStep + Reserve(MaxDevice)
Devices == NumOf(queue, "device") + IF Fires("device") THEN 1 ELSE 0

ClockBounded ==
  /\ Devices <= MaxDevice
  /\ tstates + Reserve(Devices) + (IF pc = "ui" THEN Frame ELSE 0) < Limit

\* An end of frame is to come, its handler runs, or it has been told.
FrameEvents ==
  NumOf(queue, "frame") + (IF Fires("frame") THEN 1 ELSE 0) + IF frame_end THEN 1 ELSE 0

FramesCounted ==
  /\ pc = "z80" => ~frame_end /\ NumOf(queue, "frame") = IF playback THEN 0 ELSE 1
  /\ pc \in {"events", "handler"} =>
       /\ FrameEvents <= 1
       /\ ~playback => FrameEvents = 1
  /\ pc \in {"force", "rzx", "frame"} => frame_end /\ NumOf(queue, "frame") = 0
  /\ pc = "ui" => NumOf(queue, "frame") = IF playback THEN 0 ELSE 1

\* The machine ends a frame when the clock is at its length, or beyond; a
\* recording ends it at once.
FramesTimed ==
  /\ ~playback =>
       /\ \A e \in Entries(queue) : e.type = "frame" => e.t = Frame
       /\ Fires("frame") \/ (frame_end /\ pc # "ui") => tstates >= Frame
  /\ playback /\ pc = "events" /\ NumOf(queue, "frame") # 0 =>
       /\ queue.next <= tstates
       /\ \A e \in Entries(queue) : e.t <= tstates => e.type = "frame"
  /\ playback /\ pc = "handler" => NumOf(queue, "frame") = 0

\* One sentinel during playback, at its place; none otherwise.
SentinelSet ==
  /\ \A e \in Entries(queue) : e.type = "sentinel" =>
       e.t = Sentinel + IF pc = "frame" THEN tstates ELSE 0
  /\ Fires("sentinel") => tstates >= Sentinel
  /\ NumOf(queue, "sentinel") + (IF Fires("sentinel") THEN 1 ELSE 0) = IF playback THEN 1 ELSE 0

\* What each stage has left behind it.
Stages ==
  /\ caller = "force" /\ pc \in {"events", "handler"} => playback /\ frame_end
  /\ pc = "force" => playback
  /\ firing # <<>> => firing[1].type # "null"
  /\ pc \in {"force", "rzx"} => tstates < queue.next
  /\ pc = "rzx" /\ playback => queue.next >= Frame
  /\ pc = "frame" =>
       /\ FrameLength <= tstates
       /\ \A e \in Entries(queue) : FrameLength <= e.t

LoopIInv ==
  /\ LoopTypeOK
  /\ Ordered(queue)
  /\ ClockBounded
  /\ FramesCounted
  /\ FramesTimed
  /\ SentinelSet
  /\ Stages

LEMMA Reserves ==
  /\ \A n \in Nat : Reserve(n) \in Nat /\ Reserve(n + 1) = Reserve(n) + MaxStep
  /\ Reserve(0) = 0
  /\ \A n \in 0 .. MaxDevice : Reserve(n) <= Reserve(MaxDevice)
<1>1. MaxStep \in Nat /\ MaxDevice \in Nat
  BY LoopAssumption
<1>2. \A n \in Nat : Reserve(n) \in Nat /\ Reserve(n + 1) = Reserve(n) + MaxStep
  BY <1>1 DEF Reserve
<1>3. ASSUME NEW n \in 0 .. MaxDevice PROVE Reserve(n) <= Reserve(MaxDevice)
  <2>1. MaxDevice * MaxStep = n * MaxStep + (MaxDevice - n) * MaxStep
    BY <1>1
  <2>2. (MaxDevice - n) * MaxStep \in Nat /\ n * MaxStep \in Nat
    <3>1. MaxDevice - n \in Nat /\ n \in Nat
      BY <1>1
    <3>2. \A a, b \in Nat : a * b \in Nat
      OBVIOUS
    <3> QED
      BY <1>1, <3>1, <3>2
  <2> QED
    BY <2>1, <2>2 DEF Reserve
<1> QED
  BY <1>1, <1>2, <1>3 DEF Reserve

LEMMA Limits ==
  /\ Limit \in Nat /\ Limit <= ContentionSize /\ Sentinel + Limit < Word
  /\ MaxStep \in Nat \ {0} /\ MaxStep <= Frame /\ Frame < Sentinel /\ SentinelReduce < Sentinel
  /\ MaxDevice \in Nat
  /\ \A n \in 0 .. MaxDevice : Reserve(n) \in Nat /\ Sentinel + MaxStep + Reserve(n) <= Limit
<1>1. Reserve(MaxDevice) \in Nat /\ Reserve(MaxDevice) + MaxStep = (MaxDevice + 1) * MaxStep
  BY LoopAssumption, Reserves DEF Reserve
<1> QED
  BY <1>1, LoopAssumption, Reserves DEF Limit

LEMMA Types ==
  {"frame", "timer", "sentinel", "device"} \subseteq Type /\ Type \subseteq Type \cup {"null"}
  /\ "null" \in Type \cup {"null"} /\ "null" \notin Type
  BY DEF Type

LEMMA Here ==
  ASSUME LoopIInv
  PROVE  /\ queue \in Queue /\ Ordered(queue) /\ queue.next \in Nat /\ queue.next \in Time
         /\ tstates \in Nat /\ tstates \in Time /\ tstates < Limit
         /\ \A type : NumOf(queue, type) \in Nat
         /\ \A e \in Entries(queue) :
              /\ e \in Event /\ e.t \in Nat /\ e.t \in Time /\ queue.next <= e.t
              /\ NumOf(queue, e.type) # 0
         /\ Devices \in 0 .. MaxDevice /\ Reserve(Devices) \in Nat
<1>1. queue \in Queue /\ Ordered(queue) /\ tstates \in Time /\ queue.next \in Time
  BY DEF LoopIInv, LoopTypeOK, Queue
<1>2. \A type : NumOf(queue, type) \in Nat
  BY <1>1, CountsArePlaces
<1>3. Devices \in 0 .. MaxDevice
  BY <1>2, Limits DEF LoopIInv, ClockBounded, Devices
<1>4. Reserve(Devices) \in Nat
  BY <1>3, Reserves
<1>5. tstates < Limit
  BY <1>1, <1>4, WordTyped, Limits DEF LoopIInv, ClockBounded
<1>6. \A e \in Entries(queue) : NumOf(queue, e.type) # 0
  BY <1>1, NoneOfType
<1> QED
  BY <1>1, <1>2, <1>3, <1>4, <1>5, <1>6, EntriesTyped, HeadFirst, WordTyped

LEMMA Clock ==
  /\ \A x \in Nat : x % Word \in Time
  /\ \A x \in Nat : x < Word => x % Word = x /\ x \in Time
  /\ \A x, n \in Nat : n <= x /\ x < Word => (x + Word - n) % Word = x - n /\ x - n \in Time
<1>1. \A x \in Nat : x < Word => x % Word = x /\ x \in Time
  BY WordTyped DEF Time
<1>2. \A x, n \in Nat : n <= x /\ x < Word => (x + Word - n) % Word = x - n /\ x - n \in Time
  BY Reducing, WordTyped DEF Time
<1>3. \A x \in Nat : x % Word \in Time
  <2>1. \A x \in Nat, w \in Nat \ {0} : x % w \in 0 .. w - 1
    OBVIOUS
  <2> QED
    BY <2>1, WordTyped DEF Time
<1> QED
  BY <1>1, <1>2, <1>3

\* While instructions run the next event is no further than the sentinel.
LEMMA NextInReach ==
  ASSUME LoopIInv, pc = "z80"
  PROVE  queue.next <= Sentinel /\ (~playback => queue.next <= Frame)
<1>1. CASE playback
  <2>1. NumOf(queue, "sentinel") # 0
    BY <1>1 DEF LoopIInv, LoopTypeOK, SentinelSet, Fires
  <2>2. PICK e \in Entries(queue) : e.type = "sentinel"
    BY <2>1, Here, NoneOfType
  <2>3. e.t = Sentinel
    BY <2>2, WordTyped DEF LoopIInv, SentinelSet
  <2> QED
    BY <1>1, <2>2, <2>3, Here
<1>2. CASE ~playback
  <2>1. NumOf(queue, "frame") # 0
    BY <1>2 DEF LoopIInv, FramesCounted
  <2>2. PICK e \in Entries(queue) : e.type = "frame"
    BY <2>1, Here, NoneOfType
  <2>3. e.t = Frame
    BY <1>2, <2>2 DEF LoopIInv, FramesTimed
  <2> QED
    BY <2>2, <2>3, Here, Limits, WordTyped
<1> QED
  BY <1>1, <1>2

-----------------------------------------------------------------------------
(***************************************************************************)
(* z80_do_opcodes.                                                         *)
(***************************************************************************)

\* An instruction: the clock stays within its bound whatever is in the list.
LEMMA Runs ==
  ASSUME LoopIInv, InZ80, NEW d \in Steps
  PROVE  /\ tstates + d \in Nat /\ (tstates + d) % Word = tstates + d /\ tstates + d \in Time
         /\ \A n \in 0 .. MaxDevice : tstates + d + Reserve(n) < Limit
<1>1. /\ tstates \in Nat /\ tstates < Sentinel /\ d \in Nat /\ d <= MaxStep
      /\ Sentinel \in Nat /\ Word \in Nat
  BY Here, NextInReach, WordTyped, Limits DEF InZ80, Steps
<1>2. tstates + d < Word
  BY <1>1, Limits
<1>3. tstates + d \in Nat /\ (tstates + d) % Word = tstates + d /\ tstates + d \in Time
  <2>1. tstates + d \in Nat
    BY <1>1
  <2> QED
    BY <1>2, <2>1, Clock
<1>4. ASSUME NEW n \in 0 .. MaxDevice PROVE tstates + d + Reserve(n) < Limit
  <2>1. Reserve(n) \in Nat /\ Sentinel + MaxStep + Reserve(n) <= Limit /\ Limit \in Nat /\ MaxStep \in Nat
    BY Limits
  <2> QED
    BY <1>1, <2>1
<1> QED
  BY <1>3, <1>4

LEMMA InstructionKeeps ==
  ASSUME LoopIInv, Instruction
  PROVE  LoopIInv'
<1>1. PICK d \in Steps : tstates' = (tstates + d) % Word
  BY DEF Instruction
<1>2. /\ InZ80 /\ pc = "z80" /\ firing = <<>>
      /\ UNCHANGED <<queue, frame_end, playback, pc, caller, firing>>
  BY DEF Instruction, InZ80, LoopIInv, LoopTypeOK
<1>3. tstates' = tstates + d /\ tstates' \in Time /\ Devices' = Devices
      /\ tstates' + Reserve(Devices) < Limit
  BY <1>1, <1>2, Runs, Here DEF Devices, Fires
<1>4. LoopTypeOK' /\ Ordered(queue)'
  BY <1>2, <1>3 DEF LoopIInv, LoopTypeOK, Ordered
<1>5. ClockBounded' /\ FramesCounted' /\ FramesTimed' /\ SentinelSet' /\ Stages'
  BY <1>2, <1>3, Here DEF LoopIInv, ClockBounded, FramesCounted, FramesTimed, SentinelSet, Stages, Fires
<1> QED
  BY <1>4, <1>5 DEF LoopIInv

LEMMA DeviceStartKeeps ==
  ASSUME LoopIInv, DeviceStart
  PROVE  LoopIInv'
<1>1. PICK d \in Steps, delay \in Delays :
        /\ tstates' = (tstates + d) % Word
        /\ queue' = event_add(queue, (tstates + d + delay) % Word, "device")
  BY DEF DeviceStart
<1>2. /\ InZ80 /\ pc = "z80" /\ firing = <<>> /\ NumOf(queue, "device") < MaxDevice
      /\ UNCHANGED <<frame_end, playback, pc, caller, firing>>
  BY DEF DeviceStart, InZ80, LoopIInv, LoopTypeOK, NumOf
<1>3. /\ tstates' = tstates + d /\ tstates' \in Time
      /\ \A n \in 0 .. MaxDevice : tstates' + Reserve(n) < Limit
  BY <1>1, <1>2, Runs
<1>4. (tstates + d + delay) % Word \in Time
  <2>1. delay \in Nat /\ tstates + d \in Nat
    BY <1>2, Runs, LoopAssumption
  <2>2. tstates + d + delay \in Nat
    BY <2>1
  <2> QED
    BY <2>2, Clock
<1> DEFINE e == [t |-> (tstates + d + delay) % Word, type |-> "device"]
<1>5. /\ queue' \in Queue /\ Ordered(queue')
      /\ Entries(queue') = Entries(queue) \cup {e}
      /\ NumOf(queue', "device") = NumOf(queue, "device") + 1
      /\ \A ty : ty # "device" => NumOf(queue', ty) = NumOf(queue, ty)
  <2> DEFINE t == (tstates + d + delay) % Word
  <2>1. queue \in Queue /\ Ordered(queue) /\ t \in Time /\ "device" \in Type \cup {"null"}
    BY <1>4, Here, Types
  <2>2. queue' = event_add(queue, t, "device")
    BY <1>1
  <2>3. e = [t |-> t, type |-> "device"]
    OBVIOUS
  <2> HIDE DEF t, e
  <2> QED
    BY <2>1, <2>2, <2>3, AddEffect
<1>6. e.type = "device"
  OBVIOUS
<1> HIDE DEF e
<1>7. LoopTypeOK' /\ Ordered(queue)'
  BY <1>2, <1>3, <1>5 DEF LoopIInv, LoopTypeOK, Queue
<1>8. ClockBounded'
  <2>1. Devices' = Devices + 1 /\ Devices + 1 \in 0 .. MaxDevice
    BY <1>2, <1>5, Here, Limits DEF Devices, Fires
  <2>2. tstates' + Reserve(Devices') < Limit /\ Devices' \in 0 .. MaxDevice
    BY <1>3, <2>1
  <2>3. Reserve(Devices') \in Nat /\ tstates' \in Nat /\ MaxDevice \in Nat /\ Limit \in Nat
    BY <1>3, <2>2, WordTyped, Limits
  <2> QED
    BY <1>2, <2>2, <2>3 DEF ClockBounded
<1>9. FramesCounted' /\ FramesTimed' /\ SentinelSet' /\ Stages'
  BY <1>2, <1>3, <1>5, <1>6, Here
     DEF LoopIInv, FramesCounted, FramesTimed, SentinelSet, Stages, Fires
<1> QED
  BY <1>7, <1>8, <1>9 DEF LoopIInv

LEMMA DeviceStopKeeps ==
  ASSUME LoopIInv, DeviceStop
  PROVE  LoopIInv'
<1>1. PICK d \in Steps : tstates' = (tstates + d) % Word
  BY DEF DeviceStop
<1>2. /\ InZ80 /\ pc = "z80" /\ firing = <<>>
      /\ queue' = event_remove_type(queue, "device")
      /\ UNCHANGED <<frame_end, playback, pc, caller, firing>>
  BY DEF DeviceStop, InZ80, LoopIInv, LoopTypeOK
<1>3. /\ tstates' = tstates + d /\ tstates' \in Time
      /\ \A n \in 0 .. MaxDevice : tstates' + Reserve(n) < Limit
  BY <1>1, <1>2, Runs
<1>4. /\ queue' \in Queue /\ Ordered(queue') /\ NumOf(queue', "device") = 0
      /\ Entries(queue') = {e \in Entries(queue) : e.type # "device"}
           \cup {[e EXCEPT !.type = "null"] : e \in {f \in Entries(queue) : f.type = "device"}}
      /\ \A ty : ty \notin {"device", "null"} => NumOf(queue', ty) = NumOf(queue, ty)
  BY <1>2, Here, RemoveEffect DEF Type
<1>5. \A e \in Entries(queue') : e \in Entries(queue) \/ e.type = "null"
  <2>1. \A e \in Entries(queue) : [e EXCEPT !.type = "null"].type = "null"
    BY Here DEF Event
  <2> QED
    BY <1>4, <2>1
<1>6. LoopTypeOK' /\ Ordered(queue)'
  BY <1>2, <1>3, <1>4 DEF LoopIInv, LoopTypeOK, Queue
<1>7. ClockBounded'
  <2>1. Devices' = 0 /\ 0 \in 0 .. MaxDevice
    BY <1>2, <1>4, Limits DEF Devices, Fires
  <2> QED
    BY <1>2, <1>3, <2>1, WordTyped, Reserves DEF ClockBounded
<1>8. FramesCounted' /\ FramesTimed' /\ SentinelSet' /\ Stages'
  BY <1>2, <1>3, <1>4, <1>5, Here
     DEF LoopIInv, FramesCounted, FramesTimed, SentinelSet, Stages, Fires
<1> QED
  BY <1>6, <1>7, <1>8 DEF LoopIInv

LEMMA PlaybackFrameEndKeeps ==
  ASSUME LoopIInv, PlaybackFrameEnd
  PROVE  LoopIInv'
<1>1. /\ pc = "z80" /\ firing = <<>> /\ playback /\ tstates < queue.next
      /\ queue' = event_add(queue, tstates, "frame")
      /\ pc' = "events" /\ caller' = "loop"
      /\ UNCHANGED <<tstates, frame_end, playback, firing>>
  BY DEF PlaybackFrameEnd, InZ80, LoopIInv, LoopTypeOK
<1> DEFINE e == [t |-> tstates, type |-> "frame"]
<1>2. /\ queue' \in Queue /\ Ordered(queue') /\ queue'.next = tstates
      /\ Entries(queue') = Entries(queue) \cup {e}
      /\ NumOf(queue', "frame") = NumOf(queue, "frame") + 1
      /\ \A ty : ty # "frame" => NumOf(queue', ty) = NumOf(queue, ty)
  <2>1. queue \in Queue /\ Ordered(queue) /\ tstates \in Time /\ "frame" \in Type \cup {"null"}
    BY Here, Types
  <2>2. queue' = event_add(queue, tstates, "frame") /\ tstates < queue.next
    BY <1>1
  <2> QED
    BY <2>1, <2>2, AddEffect
<1>3. e.type = "frame" /\ e.t = tstates
  OBVIOUS
<1> HIDE DEF e
<1>4. LoopTypeOK' /\ Ordered(queue)'
  BY <1>1, <1>2 DEF LoopIInv, LoopTypeOK, Queue
<1>5. ClockBounded'
  <2>1. Devices' = Devices
    BY <1>1, <1>2 DEF Devices, Fires
  <2> QED
    BY <1>1, <2>1 DEF LoopIInv, ClockBounded
<1>6. FramesCounted'
  BY <1>1, <1>2 DEF LoopIInv, FramesCounted, FrameEvents, Fires
<1>7. FramesTimed' /\ SentinelSet' /\ Stages'
  BY <1>1, <1>2, <1>3, Here
     DEF LoopIInv, FramesTimed, SentinelSet, Stages, Fires
<1> QED
  BY <1>4, <1>5, <1>6, <1>7 DEF LoopIInv

\* rzx_stop_playback
LEMMA StopEffect ==
  ASSUME NEW q \in Queue, Ordered(q), NEW now, NEW add \in BOOLEAN
  PROVE  LET r == rzx_stop_playback(q, now, add).queue
         IN /\ r \in Queue /\ Ordered(r)
            /\ \A e \in Entries(r) : \/ e \in Entries(q) /\ e.type # "sentinel"
                                     \/ e.type = "null" /\ \E f \in Entries(q) : e.t = f.t
                                     \/ add /\ e.type = "frame" /\ e.t = Frame
            /\ NumOf(r, "sentinel") = 0 /\ NumOf(r, "device") = NumOf(q, "device")
            /\ NumOf(r, "frame") = NumOf(q, "frame") + IF add THEN 1 ELSE 0
            /\ \A f \in Event : f.type \notin {"sentinel", "null"} => Copies(q, f) <= Copies(r, f)
<1> DEFINE stopped == event_remove_type(q, "sentinel")
           r == rzx_stop_playback(q, now, add).queue
           e1 == [t |-> Frame, type |-> "frame"]
<1>1. /\ stopped \in Queue /\ Ordered(stopped) /\ NumOf(stopped, "sentinel") = 0
      /\ Entries(stopped) = {e \in Entries(q) : e.type # "sentinel"}
           \cup {[e EXCEPT !.type = "null"] : e \in {f \in Entries(q) : f.type = "sentinel"}}
      /\ \A ty : ty \notin {"sentinel", "null"} => NumOf(stopped, ty) = NumOf(q, ty)
      /\ \A f \in Event : f.type \notin {"sentinel", "null"} => Copies(stopped, f) = Copies(q, f)
  BY RemoveEffect DEF Type
<1> HIDE DEF stopped
<1>2. \A e \in Entries(stopped) : \/ e \in Entries(q) /\ e.type # "sentinel"
                                  \/ e.type = "null" /\ \E f \in Entries(q) : e.t = f.t
  <2>1. \A f \in Entries(q) : /\ [f EXCEPT !.type = "null"].type = "null"
                              /\ [f EXCEPT !.type = "null"].t = f.t
    BY EntriesTyped DEF Event
  <2> QED
    BY <1>1, <2>1
<1>3. CASE ~add
  <2>1. r = stopped
    BY <1>3 DEF rzx_stop_playback, stopped
  <2> HIDE DEF r
  <2>2. \A f \in Event : f.type \notin {"sentinel", "null"} => Copies(q, f) <= Copies(r, f)
    BY <1>1, <2>1, CountsArePlaces
  <2>3. NumOf(r, "frame") = NumOf(q, "frame") + 0
    BY <1>1, <2>1, CountsArePlaces
  <2> QED
    BY <1>1, <1>2, <1>3, <2>1, <2>2, <2>3 DEF r
<1>4. CASE add
  <2>1. r = event_add(stopped, Frame, "frame")
    BY <1>4 DEF rzx_stop_playback, stopped
  <2> HIDE DEF r
  <2>2. /\ r \in Queue /\ Ordered(r) /\ Entries(r) = Entries(stopped) \cup {e1}
        /\ NumOf(r, "frame") = NumOf(stopped, "frame") + 1
        /\ \A ty : ty # "frame" => NumOf(r, ty) = NumOf(stopped, ty)
        /\ Copies(r, e1) = Copies(stopped, e1) + 1
        /\ \A f : f # e1 => Copies(r, f) = Copies(stopped, f)
    BY <1>1, <2>1, WordTyped, Types, AddEffect
  <2>3. e1.t = Frame /\ e1.type = "frame"
    OBVIOUS
  <2> HIDE DEF e1
  <2>4. \A f \in Event : f.type \notin {"sentinel", "null"} => Copies(q, f) <= Copies(r, f)
    <3> SUFFICES ASSUME NEW f \in Event, f.type \notin {"sentinel", "null"}
                 PROVE  Copies(q, f) <= Copies(r, f)
      OBVIOUS
    <3>1. Copies(stopped, f) = Copies(q, f) /\ Copies(q, f) \in Nat
      BY <1>1, CountsArePlaces
    <3>2. Copies(r, f) \in {Copies(stopped, f), Copies(stopped, f) + 1}
      BY <2>2
    <3> QED
      BY <3>1, <3>2
  <2>5. \A e \in Entries(r) : \/ e \in Entries(q) /\ e.type # "sentinel"
                              \/ e.type = "null" /\ \E f \in Entries(q) : e.t = f.t
                              \/ e.type = "frame" /\ e.t = Frame
    BY <1>2, <2>2, <2>3
  <2>6. /\ NumOf(r, "sentinel") = 0 /\ NumOf(r, "device") = NumOf(q, "device")
        /\ NumOf(r, "frame") = NumOf(q, "frame") + 1
    BY <1>1, <2>2
  <2> QED
    BY <1>4, <2>2, <2>4, <2>5, <2>6 DEF r
<1> QED
  BY <1>3, <1>4

LEMMA PortReadErrorKeeps ==
  ASSUME LoopIInv, PortReadError
  PROVE  LoopIInv'
<1> DEFINE now == IF tstates' > Frame THEN Frame ELSE tstates'
<1>1. PICK d \in Steps :
        /\ queue' = event_add(rzx_stop_playback(queue, tstates + d, TRUE).queue,
                              rzx_stop_playback(queue, tstates + d, TRUE).tstates, "null")
        /\ tstates' = rzx_stop_playback(queue, tstates + d, TRUE).tstates
  BY DEF PortReadError
<1>2. /\ InZ80 /\ pc = "z80" /\ firing = <<>> /\ playback
      /\ playback' = FALSE /\ UNCHANGED <<frame_end, pc, caller, firing>>
  BY DEF PortReadError, InZ80, LoopIInv, LoopTypeOK
<1> DEFINE q == rzx_stop_playback(queue, tstates + d, TRUE).queue
           e == [t |-> tstates', type |-> "null"]
<1>3. tstates' = (IF tstates + d > Frame THEN Frame ELSE tstates + d)
      /\ queue' = event_add(q, tstates', "null")
  BY <1>1 DEF rzx_stop_playback
<1>4. /\ tstates + d \in Time /\ tstates + d \in Nat /\ Frame \in Time /\ Frame \in Nat
      /\ \A n \in 0 .. MaxDevice : tstates + d + Reserve(n) < Limit
  BY <1>2, Runs, WordTyped
<1>5. tstates' \in Time /\ tstates' \in Nat /\ tstates' <= tstates + d
  BY <1>3, <1>4
<1>6. /\ q \in Queue /\ Ordered(q)
      /\ \A f \in Entries(q) : \/ f \in Entries(queue) /\ f.type # "sentinel"
                               \/ f.type = "null"
                               \/ f.type = "frame" /\ f.t = Frame
      /\ NumOf(q, "sentinel") = 0 /\ NumOf(q, "device") = NumOf(queue, "device")
      /\ NumOf(q, "frame") = NumOf(queue, "frame") + 1
  BY Here, StopEffect
<1> HIDE DEF q
<1>7. /\ queue' \in Queue /\ Ordered(queue')
      /\ Entries(queue') = Entries(q) \cup {e}
      /\ \A ty : ty # "null" => NumOf(queue', ty) = NumOf(q, ty)
      /\ e.type = "null"
  <2> DEFINE t == tstates'
  <2>1. t \in Time /\ "null" \in Type \cup {"null"} /\ e = [t |-> t, type |-> "null"]
    BY <1>5, Types
  <2>2. queue' = event_add(q, t, "null")
    BY <1>3
  <2> HIDE DEF t, e
  <2> QED
    BY <1>6, <2>1, <2>2, Adds
<1> HIDE DEF e
<1>8. LoopTypeOK' /\ Ordered(queue)'
  BY <1>2, <1>5, <1>7 DEF LoopIInv, LoopTypeOK, Queue
<1>9. ClockBounded'
  <2>1. Devices' = Devices /\ Devices \in 0 .. MaxDevice
    BY <1>2, <1>6, <1>7, Here DEF Devices, Fires
  <2>2. Reserve(Devices) \in Nat /\ tstates + d + Reserve(Devices) < Limit /\ Limit \in Nat /\ MaxDevice \in Nat
    BY <1>4, <2>1, Limits
  <2> QED
    BY <1>2, <1>4, <1>5, <2>1, <2>2 DEF ClockBounded
<1>10. FramesCounted' /\ FramesTimed' /\ SentinelSet' /\ Stages'
  <2>1. \A f \in Entries(queue) : f.type # "frame"
    BY <1>2, Here, NoneOfType DEF LoopIInv, FramesCounted
  <2> QED
    BY <1>2, <1>5, <1>6, <1>7, <2>1
       DEF LoopIInv, FramesCounted, FramesTimed, SentinelSet, Stages, Fires
<1> QED
  BY <1>8, <1>9, <1>10 DEF LoopIInv

LEMMA LeaveZ80Keeps ==
  ASSUME LoopIInv, LeaveZ80
  PROVE  LoopIInv'
<1>1. /\ pc = "z80" /\ firing = <<>> /\ pc' = "events" /\ caller' = "loop"
      /\ UNCHANGED <<queue, tstates, frame_end, playback, firing>>
  BY DEF LeaveZ80, LoopIInv, LoopTypeOK
<1>2. LoopTypeOK' /\ Ordered(queue)' /\ ClockBounded'
  BY <1>1 DEF LoopIInv, LoopTypeOK, Ordered, ClockBounded, Devices, Fires
<1>3. FramesCounted' /\ FramesTimed' /\ SentinelSet' /\ Stages'
  BY <1>1, Here DEF LoopIInv, FramesCounted, FrameEvents, FramesTimed, SentinelSet, Stages, Fires
<1> QED
  BY <1>2, <1>3 DEF LoopIInv

-----------------------------------------------------------------------------
(***************************************************************************)
(* event_do_events.                                                        *)
(***************************************************************************)
LEMMA PopEventKeeps ==
  ASSUME LoopIInv, PopEvent
  PROVE  LoopIInv'
<1> DEFINE h == Head(queue.list)
<1>1. /\ pc = "events" /\ firing = <<>> /\ queue.next <= tstates
      /\ queue' = PopHead(queue)
      /\ UNCHANGED <<tstates, frame_end, playback, caller>>
  BY DEF PopEvent, LoopIInv, LoopTypeOK
<1>2. queue.list # <<>>
  <2>1. queue.next # NoEvents
    BY <1>1, Here, Limits, WordTyped DEF NoEvents
  <2> QED
    BY <2>1, Here, HeadFirst
<1>3. /\ h \in Entries(queue) /\ h.t = queue.next
      /\ queue' \in Queue /\ Ordered(queue')
      /\ Entries(queue) = Entries(queue') \cup {h}
      /\ NumOf(queue, h.type) = NumOf(queue', h.type) + 1
      /\ \A ty : ty # h.type => NumOf(queue, ty) = NumOf(queue', ty)
  BY <1>1, <1>2, Here, PopEffect
<1>4. h \in Event /\ h.t <= tstates /\ h.type \in Type \cup {"null"}
  BY <1>1, <1>3, Here, EntriesTyped
<1>5. \A ty : NumOf(queue', ty) \in Nat
  BY <1>3, CountsArePlaces
<1>6. CASE h.type = "null"
  <2>1. UNCHANGED <<pc, firing>>
    BY <1>6 DEF PopEvent
  <2> HIDE DEF h
  <2>2. \A ty \in Type : NumOf(queue', ty) = NumOf(queue, ty)
    BY <1>3, <1>6, Types
  <2>3. LoopTypeOK' /\ Ordered(queue)'
    BY <1>1, <1>3, <2>1 DEF LoopIInv, LoopTypeOK, Queue
  <2>4. ClockBounded' /\ FramesCounted'
    <3>1. Devices' = Devices /\ FrameEvents' = FrameEvents
      BY <1>1, <2>1, <2>2, Types DEF Devices, FrameEvents, Fires
    <3> QED
      BY <1>1, <2>1, <3>1 DEF LoopIInv, ClockBounded, FramesCounted
  <2>5. FramesTimed'
    <3>1. playback => NumOf(queue, "frame") = 0
      BY <1>1, <1>3, <1>4, <1>6 DEF LoopIInv, FramesTimed
    <3> QED
      BY <1>1, <1>3, <2>1, <2>2, <3>1, Types DEF LoopIInv, FramesTimed, Fires
  <2>6. SentinelSet' /\ Stages'
    BY <1>1, <1>3, <2>1, <2>2, Types DEF LoopIInv, SentinelSet, Stages, Fires
  <2> QED
    BY <2>3, <2>4, <2>5, <2>6 DEF LoopIInv
<1>7. CASE h.type # "null"
  <2>1. pc' = "handler" /\ firing' = <<h>>
    BY <1>7 DEF PopEvent
  <2> HIDE DEF h
  <2>2. firing' # <<>> /\ firing'[1] = h
    BY <2>1
  <2>3. LoopTypeOK' /\ Ordered(queue)'
    BY <1>1, <1>3, <1>4, <2>1 DEF LoopIInv, LoopTypeOK, Queue
  <2>4. ClockBounded'
    <3>1. Devices' = Devices
      BY <1>1, <1>3, <1>5, <2>2, Here DEF Devices, Fires
    <3> QED
      BY <1>1, <2>1, <3>1 DEF LoopIInv, ClockBounded
  <2>5. FramesCounted'
    <3>1. FrameEvents' = FrameEvents
      BY <1>1, <1>3, <1>5, <2>2, Here DEF FrameEvents, Fires
    <3> QED
      BY <1>1, <2>1, <3>1 DEF LoopIInv, FramesCounted
  <2>6. FramesTimed'
    <3>1. playback /\ NumOf(queue, "frame") # 0 => h.type = "frame"
      BY <1>1, <1>3, <1>4 DEF LoopIInv, FramesTimed
    <3>2. NumOf(queue, "frame") <= 1
      BY <1>1, Here DEF LoopIInv, FramesCounted, FrameEvents, Fires
    <3>3. playback => NumOf(queue', "frame") = 0
      BY <1>3, <1>5, <3>1, <3>2, Here
    <3> QED
      BY <1>1, <1>3, <1>4, <2>1, <2>2, <3>3 DEF LoopIInv, FramesTimed, Fires
  <2>7. SentinelSet'
    <3>1. h.type = "sentinel" => tstates >= Sentinel
      BY <1>1, <1>3, <1>4, WordTyped, Here DEF LoopIInv, SentinelSet
    <3> QED
      BY <1>1, <1>3, <1>5, <2>1, <2>2, <3>1, Here DEF LoopIInv, SentinelSet, Fires
  <2>8. Stages'
    BY <1>1, <1>7, <2>1, <2>2 DEF LoopIInv, Stages
  <2> QED
    BY <2>3, <2>4, <2>5, <2>6, <2>7, <2>8 DEF LoopIInv
<1> QED
  BY <1>6, <1>7

\* A handler runs for the event taken off the list.
LEMMA InHandler ==
  ASSUME LoopIInv, NEW type, Handler(type)
  PROVE  /\ pc = "handler" /\ firing # <<>> /\ Fires(type) /\ firing[1] \in Event
         /\ \A ty : Fires(ty) => ty = type
         /\ pc' = "events" /\ firing' = <<>> /\ \A ty : ~Fires(ty)'
         /\ UNCHANGED <<playback, caller>>
         /\ \A delay \in Delays : (firing[1].t + delay) % Word \in Time
<1>1. pc = "handler" /\ firing # <<>> /\ firing[1].type = type
  BY DEF Handler, LoopIInv, LoopTypeOK
<1>2. \A e : <<e>>[1] = e
  OBVIOUS
<1>3. firing[1] \in Event
  BY <1>1, <1>2 DEF LoopIInv, LoopTypeOK
<1>4. ASSUME NEW delay \in Delays PROVE (firing[1].t + delay) % Word \in Time
  <2>1. firing[1].t \in Nat /\ delay \in Nat
    BY <1>3, WordTyped, LoopAssumption DEF Event
  <2>2. firing[1].t + delay \in Nat
    BY <2>1
  <2> QED
    BY <2>2, Clock
<1> QED
  BY <1>1, <1>3, <1>4 DEF Handler, Fires

LEMMA FrameHandlerKeeps ==
  ASSUME LoopIInv, FrameHandler
  PROVE  LoopIInv'
<1>1. /\ pc = "handler" /\ Fires("frame") /\ pc' = "events" /\ firing' = <<>>
      /\ \A ty : Fires(ty) => ty = "frame"
      /\ frame_end' = TRUE /\ UNCHANGED <<queue, tstates, playback, caller>>
  BY InHandler DEF FrameHandler
<1>2. \A ty : ~Fires(ty)'
  BY <1>1 DEF Fires
<1>3. ~frame_end /\ NumOf(queue, "frame") = 0
  BY <1>1, Here DEF LoopIInv, LoopTypeOK, FramesCounted, FrameEvents
<1>4. LoopTypeOK' /\ Ordered(queue)'
  BY <1>1 DEF LoopIInv, LoopTypeOK, Ordered
<1>5. ClockBounded' /\ FramesCounted'
  BY <1>1, <1>2, <1>3 DEF LoopIInv, ClockBounded, Devices, FramesCounted, FrameEvents
<1>6. FramesTimed' /\ SentinelSet' /\ Stages'
  BY <1>1, <1>2, <1>3 DEF LoopIInv, FramesTimed, SentinelSet, Stages
<1> QED
  BY <1>4, <1>5, <1>6 DEF LoopIInv

LEMMA TimerHandlerKeeps ==
  ASSUME LoopIInv, TimerHandler
  PROVE  LoopIInv'
<1>1. PICK delay \in Delays : queue' = event_add(queue, (firing[1].t + delay) % Word, "timer")
  BY DEF TimerHandler
<1>2. /\ pc = "handler" /\ Fires("timer") /\ pc' = "events" /\ firing' = <<>> /\ firing[1] \in Event
      /\ \A ty : Fires(ty) => ty = "timer"
      /\ UNCHANGED <<tstates, frame_end, playback, caller>>
  BY InHandler DEF TimerHandler
<1>3. \A ty : ~Fires(ty)'
  BY <1>2 DEF Fires
<1> DEFINE t == (firing[1].t + delay) % Word
           e == [t |-> t, type |-> "timer"]
<1>4. t \in Time
  BY InHandler DEF TimerHandler
<1>5. /\ queue' \in Queue /\ Ordered(queue') /\ e.type = "timer"
      /\ Entries(queue') = Entries(queue) \cup {e}
      /\ \A ty : ty # "timer" => NumOf(queue', ty) = NumOf(queue, ty)
  <2>1. queue \in Queue /\ Ordered(queue) /\ "timer" \in Type \cup {"null"}
    BY Here, Types
  <2>2. queue' = event_add(queue, t, "timer") /\ e = [t |-> t, type |-> "timer"]
    BY <1>1
  <2> HIDE DEF t, e
  <2> QED
    BY <1>4, <2>1, <2>2, Adds
<1> HIDE DEF t, e
<1>6. LoopTypeOK' /\ Ordered(queue)'
  BY <1>2, <1>5 DEF LoopIInv, LoopTypeOK, Queue
<1>7. ClockBounded' /\ FramesCounted'
  BY <1>2, <1>3, <1>5 DEF LoopIInv, ClockBounded, Devices, FramesCounted, FrameEvents
<1>8. FramesTimed' /\ SentinelSet' /\ Stages'
  BY <1>2, <1>3, <1>5 DEF LoopIInv, FramesTimed, SentinelSet, Stages
<1> QED
  BY <1>6, <1>7, <1>8 DEF LoopIInv

LEMMA SentinelHandlerKeeps ==
  ASSUME LoopIInv, SentinelHandler
  PROVE  LoopIInv'
<1>1. /\ pc = "handler" /\ Fires("sentinel") /\ pc' = "events" /\ firing' = <<>>
      /\ \A ty : Fires(ty) => ty = "sentinel"
      /\ tstates' = (tstates + Word - SentinelReduce) % Word
      /\ queue' = event_add(queue, Sentinel, "sentinel")
      /\ UNCHANGED <<frame_end, playback, caller>>
  BY InHandler DEF SentinelHandler
<1>2. \A ty : ~Fires(ty)'
  BY <1>1 DEF Fires
<1>3. playback /\ tstates >= Sentinel /\ NumOf(queue, "sentinel") = 0 /\ NumOf(queue, "frame") = 0
  BY <1>1, Here DEF LoopIInv, LoopTypeOK, SentinelSet, FramesTimed
<1>4. tstates' = tstates - SentinelReduce /\ tstates' \in Time /\ tstates' \in Nat
  <2>1. SentinelReduce \in Nat /\ SentinelReduce <= tstates /\ tstates < Word /\ tstates \in Nat
    BY <1>3, Here, Limits, WordTyped DEF Time
  <2> QED
    BY <1>1, <2>1, Clock, WordTyped
<1> DEFINE e == [t |-> Sentinel, type |-> "sentinel"]
<1>5. /\ queue' \in Queue /\ Ordered(queue') /\ e.type = "sentinel" /\ e.t = Sentinel
      /\ Entries(queue') = Entries(queue) \cup {e}
      /\ NumOf(queue', "sentinel") = NumOf(queue, "sentinel") + 1
      /\ \A ty : ty # "sentinel" => NumOf(queue', ty) = NumOf(queue, ty)
  <2>1. queue \in Queue /\ Ordered(queue) /\ "sentinel" \in Type \cup {"null"} /\ Sentinel \in Time
    BY Here, Types, WordTyped
  <2>2. queue' = event_add(queue, Sentinel, "sentinel") /\ e = [t |-> Sentinel, type |-> "sentinel"]
    BY <1>1
  <2> HIDE DEF e
  <2> QED
    BY <2>1, <2>2, Adds
<1> HIDE DEF e
<1>6. LoopTypeOK' /\ Ordered(queue)'
  BY <1>1, <1>4, <1>5 DEF LoopIInv, LoopTypeOK, Queue
<1>7. ClockBounded'
  <2>1. Devices' = Devices
    BY <1>1, <1>2, <1>5 DEF Devices
  <2>2. tstates + Reserve(Devices) < Limit /\ Devices <= MaxDevice
    BY <1>1, Here DEF LoopIInv, ClockBounded
  <2>3. tstates' + Reserve(Devices) < Limit
    BY <1>4, <2>2, Here, Limits, WordTyped
  <2> QED
    BY <1>1, <1>4, <2>1, <2>2, <2>3, Here DEF ClockBounded
<1>8. FramesCounted'
  BY <1>1, <1>2, <1>3, <1>5 DEF LoopIInv, FramesCounted, FrameEvents
<1>9. FramesTimed' /\ SentinelSet' /\ Stages'
  BY <1>1, <1>2, <1>3, <1>5, WordTyped DEF LoopIInv, FramesTimed, SentinelSet, Stages
<1> QED
  BY <1>6, <1>7, <1>8, <1>9 DEF LoopIInv

LEMMA DeviceHandlerKeeps ==
  ASSUME LoopIInv, DeviceHandler
  PROVE  LoopIInv'
<1>1. /\ pc = "handler" /\ Fires("device") /\ pc' = "events" /\ firing' = <<>> /\ firing[1] \in Event
      /\ \A ty : Fires(ty) => ty = "device"
      /\ UNCHANGED <<frame_end, playback, caller>>
  BY InHandler DEF DeviceHandler
<1>2. \A ty : ~Fires(ty)'
  BY <1>1 DEF Fires
<1>3. CASE tstates' \in {tstates} \cup {tstates + d : d \in Steps} /\ UNCHANGED queue
  <2>1. /\ tstates' \in Nat /\ tstates <= tstates' /\ tstates' <= tstates + MaxStep
        /\ MaxStep \in Nat /\ tstates \in Nat
    BY <1>3, Here, Limits DEF Steps
  <2>2. Devices = Devices' + 1 /\ Devices' \in 0 .. MaxDevice
    BY <1>1, <1>2, <1>3, Here, Limits DEF Devices
  <2>3. Reserve(Devices) = Reserve(Devices') + MaxStep /\ Reserve(Devices') \in Nat
    <3> DEFINE n == Devices'
    <3>1. n \in Nat /\ Devices = n + 1
      BY <2>2
    <3> HIDE DEF n
    <3>2. Reserve(n + 1) = Reserve(n) + MaxStep /\ Reserve(n) \in Nat
      BY <3>1, Reserves
    <3>3. Reserve(Devices) = Reserve(n) + MaxStep
      BY <3>1, <3>2
    <3> QED
      BY <3>2, <3>3 DEF n
  <2>4. tstates + Reserve(Devices) < Limit
    BY <1>1, Here DEF LoopIInv, ClockBounded
  <2>5. tstates' + Reserve(Devices') < Limit
    BY <2>1, <2>3, <2>4, Limits
  <2>6. ClockBounded'
    BY <1>1, <2>1, <2>2, <2>3, <2>5, Limits DEF ClockBounded
  <2>7. tstates' \in Time
    <3>1. tstates' < Word
      BY <2>1, <2>3, <2>5, Limits, WordTyped
    <3> QED
      BY <2>1, <3>1, Clock
  <2>8. LoopTypeOK' /\ Ordered(queue)'
    BY <1>1, <1>3, <2>7 DEF LoopIInv, LoopTypeOK, Ordered
  <2>9. FramesCounted'
    BY <1>1, <1>2, <1>3 DEF LoopIInv, FramesCounted, FrameEvents
  <2>10. FramesTimed'
    BY <1>1, <1>2, <1>3, <2>1, WordTyped DEF LoopIInv, FramesTimed
  <2>11. SentinelSet' /\ Stages'
    BY <1>1, <1>2, <1>3 DEF LoopIInv, SentinelSet, Stages
  <2> QED
    BY <2>6, <2>8, <2>9, <2>10, <2>11 DEF LoopIInv
<1>4. ASSUME NEW delay \in Delays,
             queue' = event_add(queue, (firing[1].t + delay) % Word, "device"), UNCHANGED tstates
      PROVE  LoopIInv'
  <2> DEFINE t == (firing[1].t + delay) % Word
             e == [t |-> t, type |-> "device"]
  <2>1. t \in Time
    BY InHandler DEF DeviceHandler
  <2>2. /\ queue' \in Queue /\ Ordered(queue') /\ e.type = "device"
        /\ Entries(queue') = Entries(queue) \cup {e}
        /\ NumOf(queue', "device") = NumOf(queue, "device") + 1
        /\ \A ty : ty # "device" => NumOf(queue', ty) = NumOf(queue, ty)
    <3>1. queue \in Queue /\ Ordered(queue) /\ "device" \in Type \cup {"null"}
      BY Here, Types
    <3>2. queue' = event_add(queue, t, "device") /\ e = [t |-> t, type |-> "device"]
      BY <1>4
    <3> HIDE DEF t, e
    <3> QED
      BY <2>1, <3>1, <3>2, Adds
  <2> HIDE DEF t, e
  <2>3. LoopTypeOK' /\ Ordered(queue)'
    BY <1>1, <1>4, <2>2 DEF LoopIInv, LoopTypeOK, Queue
  <2>4. ClockBounded'
    <3>1. Devices' = Devices
      BY <1>1, <1>2, <2>2, Here DEF Devices
    <3> QED
      BY <1>1, <1>4, <3>1 DEF LoopIInv, ClockBounded
  <2>5. FramesCounted'
    BY <1>1, <1>2, <1>4, <2>2 DEF LoopIInv, FramesCounted, FrameEvents
  <2>6. FramesTimed' /\ SentinelSet' /\ Stages'
    BY <1>1, <1>2, <1>4, <2>2 DEF LoopIInv, FramesTimed, SentinelSet, Stages
  <2> QED
    BY <2>3, <2>4, <2>5, <2>6 DEF LoopIInv
<1> QED
  BY <1>3, <1>4 DEF DeviceHandler

LEMMA EventsDoneKeeps ==
  ASSUME LoopIInv, EventsDone
  PROVE  LoopIInv'
<1>1. /\ pc = "events" /\ firing = <<>> /\ tstates < queue.next
      /\ pc' = IF caller = "force" THEN "force" ELSE IF ~frame_end THEN "z80"
               ELSE IF playback THEN "force" ELSE "rzx"
      /\ UNCHANGED <<queue, tstates, frame_end, playback, caller, firing>>
  BY Here DEF EventsDone, LoopIInv, LoopTypeOK
<1>2. LoopTypeOK' /\ Ordered(queue)'
  BY <1>1 DEF LoopIInv, LoopTypeOK, Ordered
<1>3. ClockBounded'
  BY <1>1 DEF LoopIInv, ClockBounded, Devices, Fires
<1>4. FramesCounted'
  <2>1. playback => NumOf(queue, "frame") = 0
    BY <1>1, Here DEF LoopIInv, FramesTimed
  <2>2. /\ NumOf(queue, "frame") + (IF frame_end THEN 1 ELSE 0) <= 1
        /\ ~playback => NumOf(queue, "frame") + (IF frame_end THEN 1 ELSE 0) = 1
    BY <1>1, Here DEF LoopIInv, FramesCounted, FrameEvents, Fires
  <2>3. caller = "force" => playback /\ frame_end
    BY <1>1 DEF LoopIInv, Stages
  <2> QED
    BY <1>1, <2>1, <2>2, <2>3, Here DEF LoopIInv, LoopTypeOK, FramesCounted
<1>5. FramesTimed' /\ SentinelSet' /\ Stages'
  BY <1>1 DEF LoopIInv, FramesTimed, SentinelSet, Stages, Fires
<1> QED
  BY <1>2, <1>3, <1>4, <1>5 DEF LoopIInv

-----------------------------------------------------------------------------
(***************************************************************************)
(* spectrum_do_frame_end.                                                  *)
(***************************************************************************)

\* A clock that leaves room for every device is within its bound.
LEMMA Bounded ==
  ASSUME LoopIInv, Devices' \in 0 .. MaxDevice, tstates' \in Nat,
         tstates' + (IF pc' = "ui" THEN Frame ELSE 0) < Sentinel + MaxStep
  PROVE  ClockBounded'
<1> DEFINE n == Devices'
<1>1. n \in 0 .. MaxDevice
  OBVIOUS
<1> HIDE DEF n
<1>2. Reserve(n) \in Nat /\ Sentinel + MaxStep + Reserve(n) <= Limit /\ Limit \in Nat
      /\ MaxDevice \in Nat
  BY <1>1, Limits
<1>3. n <= MaxDevice /\ tstates' + Reserve(n) + (IF pc' = "ui" THEN Frame ELSE 0) < Limit
  <2> DEFINE x == IF pc' = "ui" THEN Frame ELSE 0
  <2>1. x \in Nat /\ Sentinel \in Nat /\ MaxStep \in Nat
    BY WordTyped, Limits
  <2>2. tstates' + x < Sentinel + MaxStep
    OBVIOUS
  <2> HIDE DEF x
  <2>3. \A a, b, c, m, l, w \in Nat : a + b < w + m /\ w + m + c <= l => a + c + b < l
    OBVIOUS
  <2>4. tstates' + Reserve(n) + x < Limit
    BY <1>2, <2>1, <2>2, <2>3
  <2>5. n <= MaxDevice
    BY <1>1, <1>2
  <2> QED
    BY <2>4, <2>5 DEF x
<1> QED
  BY <1>3 DEF n, ClockBounded

LEMMA ForceEventKeeps ==
  ASSUME LoopIInv, ForceEvent
  PROVE  LoopIInv'
<1>1. /\ pc = "force" /\ firing = <<>> /\ playback /\ frame_end
      /\ NumOf(queue, "frame") = 0
      /\ queue.next < Frame /\ tstates' = queue.next /\ pc' = "events" /\ caller' = "force"
      /\ UNCHANGED <<queue, frame_end, playback, firing>>
  BY DEF ForceEvent, LoopIInv, LoopTypeOK, FramesCounted, Stages
<1>2. LoopTypeOK' /\ Ordered(queue)'
  BY <1>1, Here DEF LoopIInv, LoopTypeOK, Ordered
<1>3. ClockBounded'
  <2>1. Devices' = Devices
    BY <1>1 DEF Devices, Fires
  <2>2. tstates' \in Nat /\ tstates' < Sentinel + MaxStep /\ tstates' + 0 = tstates'
    BY <1>1, Here, Limits, WordTyped
  <2> QED
    BY <1>1, <2>1, <2>2, Here, Bounded
<1>4. FramesCounted' /\ FramesTimed' /\ SentinelSet' /\ Stages'
  BY <1>1 DEF LoopIInv, FramesCounted, FrameEvents, FramesTimed, SentinelSet, Stages, Fires
<1> QED
  BY <1>2, <1>3, <1>4 DEF LoopIInv

LEMMA ForceDoneKeeps ==
  ASSUME LoopIInv, ForceDone
  PROVE  LoopIInv'
<1>1. /\ pc = "force" /\ firing = <<>> /\ playback
      /\ queue.next >= Frame /\ pc' = "rzx"
      /\ UNCHANGED <<queue, tstates, frame_end, playback, caller, firing>>
  BY DEF ForceDone, LoopIInv, LoopTypeOK, Stages
<1>2. LoopTypeOK' /\ Ordered(queue)' /\ ClockBounded'
  BY <1>1 DEF LoopIInv, LoopTypeOK, Ordered, ClockBounded, Devices, Fires
<1>3. FramesCounted' /\ FramesTimed' /\ SentinelSet' /\ Stages'
  BY <1>1 DEF LoopIInv, FramesCounted, FramesTimed, SentinelSet, Stages, Fires
<1> QED
  BY <1>2, <1>3 DEF LoopIInv

LEMMA NoPlaybackKeeps ==
  ASSUME LoopIInv, NoPlayback
  PROVE  LoopIInv'
<1>1. /\ pc = "rzx" /\ firing = <<>> /\ ~playback /\ frame_end /\ pc' = "frame"
      /\ tstates < queue.next /\ tstates >= Frame
      /\ UNCHANGED <<queue, tstates, frame_end, playback, caller, firing>>
  BY DEF NoPlayback, LoopIInv, LoopTypeOK, FramesCounted, FramesTimed, Stages
<1>2. LoopTypeOK' /\ Ordered(queue)' /\ ClockBounded' /\ FramesCounted' /\ FramesTimed'
  BY <1>1 DEF LoopIInv, LoopTypeOK, Ordered, ClockBounded, Devices, FramesCounted, FramesTimed, Fires
<1>3. SentinelSet'
  <2>1. NumOf(queue, "sentinel") = 0
    BY <1>1, Here DEF LoopIInv, SentinelSet, Fires
  <2>2. \A e \in Entries(queue) : e.type # "sentinel"
    BY <2>1, Here, NoneOfType
  <2> QED
    BY <1>1, <2>1, <2>2 DEF SentinelSet, Fires
<1>4. Stages'
  <2>1. \A e \in Entries(queue) : Frame <= e.t
    BY <1>1, Here, WordTyped
  <2> QED
    BY <1>1, <2>1 DEF Stages, FrameLength
<1> QED
  BY <1>2, <1>3, <1>4 DEF LoopIInv

LEMMA PlaybackFinishedKeeps ==
  ASSUME LoopIInv, PlaybackFinished
  PROVE  LoopIInv'
<1> DEFINE r == rzx_stop_playback(queue, tstates, FALSE).queue
<1>1. /\ pc = "rzx" /\ firing = <<>> /\ playback /\ frame_end /\ pc' = "frame"
      /\ NumOf(queue, "frame") = 0 /\ queue.next >= Frame
      /\ queue' = r /\ tstates' = Frame /\ playback' = FALSE
      /\ UNCHANGED <<frame_end, caller, firing>>
  BY DEF PlaybackFinished, rzx_stop_playback, LoopIInv, LoopTypeOK, FramesCounted, Stages
<1>2. /\ r \in Queue /\ Ordered(r) /\ NumOf(r, "sentinel") = 0
      /\ NumOf(r, "device") = NumOf(queue, "device")
      /\ NumOf(r, "frame") = NumOf(queue, "frame") + 0
      /\ \A e \in Entries(r) : \E f \in Entries(queue) : e.t = f.t
  <2>1. FALSE \in BOOLEAN
    OBVIOUS
  <2> QED
    BY <2>1, Here, StopEffect
<1> HIDE DEF r
<1>3. NumOf(r, "frame") = 0
  BY <1>1, <1>2
<1>4. \A e \in Entries(r) : e.type # "frame" /\ e.type # "sentinel" /\ Frame <= e.t
  <2>1. \A e \in Entries(r) : e.type # "frame" /\ e.type # "sentinel"
    BY <1>2, <1>3, NoneOfType
  <2>2. ASSUME NEW e \in Entries(r) PROVE Frame <= e.t
    <3>1. PICK f \in Entries(queue) : e.t = f.t
      BY <1>2
    <3>2. queue.next <= f.t /\ f.t \in Nat /\ queue.next \in Nat /\ Frame \in Nat
      BY Here, WordTyped
    <3> QED
      BY <1>1, <3>1, <3>2
  <2> QED
    BY <2>1, <2>2
<1>5. LoopTypeOK' /\ Ordered(queue)'
  BY <1>1, <1>2, WordTyped DEF LoopIInv, LoopTypeOK, Queue
<1>6. ClockBounded'
  <2>1. Devices' = Devices
    BY <1>1, <1>2 DEF Devices, Fires
  <2>2. tstates' \in Nat /\ tstates' + 0 < Sentinel + MaxStep
    BY <1>1, Limits, WordTyped
  <2> QED
    BY <1>1, <2>1, <2>2, Here, Bounded
<1>7. FramesCounted' /\ FramesTimed' /\ SentinelSet'
  BY <1>1, <1>2, <1>3, <1>4, WordTyped DEF FramesCounted, FramesTimed, SentinelSet, Fires
<1>8. Stages'
  BY <1>1, <1>4, WordTyped DEF Stages, FrameLength
<1> QED
  BY <1>5, <1>6, <1>7, <1>8 DEF LoopIInv

LEMMA PlaybackContinuesKeeps ==
  ASSUME LoopIInv, SnapInside = FALSE, PlaybackContinues
  PROVE  LoopIInv'
<1> DEFINE q == event_remove_type(queue, "sentinel")
           t == Sentinel + tstates
           e == [t |-> t, type |-> "sentinel"]
<1>1. /\ pc = "rzx" /\ firing = <<>> /\ playback /\ frame_end /\ pc' = "frame"
      /\ NumOf(queue, "frame") = 0 /\ queue.next >= Frame /\ tstates < queue.next
      /\ queue' = event_add(q, t % Word, "sentinel") /\ tstates' = tstates
      /\ UNCHANGED <<frame_end, playback, caller, firing>>
  BY DEF PlaybackContinues, LoopIInv, LoopTypeOK, FramesCounted, Stages
<1>2. /\ q \in Queue /\ Ordered(q) /\ NumOf(q, "sentinel") = 0
      /\ Entries(q) = {f \in Entries(queue) : f.type # "sentinel"}
           \cup {[f EXCEPT !.type = "null"] : f \in {g \in Entries(queue) : g.type = "sentinel"}}
      /\ \A ty : ty \notin {"sentinel", "null"} => NumOf(q, ty) = NumOf(queue, ty)
  BY Here, Types, RemoveEffect
<1> HIDE DEF q
<1>3. \A f \in Entries(q) : f.type # "sentinel" /\ tstates <= f.t
  <2>1. \A f \in Entries(q) : f.type # "sentinel"
    BY <1>2, NoneOfType
  <2>2. \A f \in Entries(q) : \E g \in Entries(queue) : f.t = g.t
    <3>1. \A g \in Entries(queue) : [g EXCEPT !.type = "null"].t = g.t
      BY Here DEF Event
    <3> QED
      BY <1>2, <3>1
  <2>3. \A g \in Entries(queue) : tstates <= g.t
    BY <1>1, Here
  <2> QED
    BY <2>1, <2>2, <2>3
<1>4. t % Word = t /\ t \in Time /\ t \in Nat /\ tstates <= t
  <2>1. t \in Nat /\ t < Word /\ tstates <= t
    BY Here, Limits, WordTyped
  <2> HIDE DEF t
  <2> QED
    BY <2>1, Clock
<1>5. /\ queue' \in Queue /\ Ordered(queue') /\ e.type = "sentinel" /\ e.t = t
      /\ Entries(queue') = Entries(q) \cup {e}
      /\ NumOf(queue', "sentinel") = 0 + 1
      /\ \A ty : ty # "sentinel" => NumOf(queue', ty) = NumOf(q, ty)
  <2>1. "sentinel" \in Type \cup {"null"} /\ queue' = event_add(q, t, "sentinel")
    BY <1>1, <1>4, Types
  <2>2. e = [t |-> t, type |-> "sentinel"]
    OBVIOUS
  <2> HIDE DEF t, e
  <2> QED
    BY <1>2, <1>4, <2>1, <2>2, Adds
<1>6. LoopTypeOK' /\ Ordered(queue)'
  BY <1>1, <1>5 DEF LoopIInv, LoopTypeOK, Queue
<1>7. ClockBounded' /\ FramesCounted' /\ FramesTimed'
  BY <1>1, <1>2, <1>5 DEF LoopIInv, ClockBounded, Devices, FramesCounted, FramesTimed, Fires
<1>8. SentinelSet'
  <2>1. \A f \in Entries(queue') : f.type = "sentinel" => f.t = Sentinel + tstates
    BY <1>3, <1>5
  <2> QED
    BY <1>1, <1>5, <2>1 DEF SentinelSet, Fires
<1>9. Stages'
  <2>1. \A f \in Entries(queue') : tstates <= f.t
    BY <1>3, <1>4, <1>5
  <2> QED
    BY <1>1, <2>1, Here DEF Stages, FrameLength
<1> QED
  BY <1>6, <1>7, <1>8, <1>9 DEF LoopIInv

LEMMA SpectrumFrameKeeps ==
  ASSUME LoopIInv, SpectrumFrame
  PROVE  LoopIInv'
<1> DEFINE n == FrameLength
           q == event_frame(queue, n)
<1>1. /\ pc = "frame" /\ firing = <<>> /\ frame_end /\ pc' = "ui"
      /\ NumOf(queue, "frame") = 0
      /\ queue' = (IF playback THEN q ELSE event_add(q, Frame, "frame"))
      /\ tstates' = (tstates + Word - n) % Word
      /\ UNCHANGED <<frame_end, playback, caller, firing>>
  BY DEF SpectrumFrame, LoopIInv, LoopTypeOK, FramesCounted
<1>2. n \in Nat /\ n <= tstates /\ \A e \in Entries(queue) : n <= e.t
  BY <1>1, Here, WordTyped DEF LoopIInv, Stages, FrameLength
<1>3. n = IF playback THEN tstates ELSE Frame
  BY DEF FrameLength
<1> HIDE DEF n
<1>4. tstates' = tstates - n /\ tstates' \in Time /\ tstates' \in Nat
  <2>1. tstates < Word
    BY Here, WordTyped DEF Time
  <2> QED
    BY <1>1, <1>2, <2>1, Here, Clock, WordTyped
<1>5. /\ q \in Queue /\ Ordered(q)
      /\ Entries(q) = {Earlier(e, n) : e \in Entries(queue)}
      /\ \A ty : NumOf(q, ty) = NumOf(queue, ty)
  BY <1>2, Here, FrameEffect
<1> HIDE DEF q
<1>6. /\ queue' \in Queue /\ Ordered(queue')
      /\ \A e \in Entries(queue') : \/ e \in Entries(q)
                                    \/ ~playback /\ e.type = "frame" /\ e.t = Frame
      /\ NumOf(queue', "frame") = IF playback THEN 0 ELSE 1
      /\ \A ty : ty # "frame" => NumOf(queue', ty) = NumOf(q, ty)
  <2>1. CASE playback
    BY <1>1, <1>5, <2>1
  <2>2. CASE ~playback
    <3> DEFINE e == [t |-> Frame, type |-> "frame"]
    <3>1. queue' = event_add(q, Frame, "frame") /\ e = [t |-> Frame, type |-> "frame"]
      BY <1>1, <2>2
    <3>2. Frame \in Time /\ "frame" \in Type \cup {"null"}
      BY WordTyped, Types
    <3> HIDE DEF e
    <3>3. /\ queue' \in Queue /\ Ordered(queue') /\ e.t = Frame /\ e.type = "frame"
          /\ Entries(queue') = Entries(q) \cup {e}
          /\ NumOf(queue', "frame") = NumOf(q, "frame") + 1
          /\ \A ty : ty # "frame" => NumOf(queue', ty) = NumOf(q, ty)
      BY <1>5, <3>1, <3>2, Adds
    <3>4. NumOf(queue', "frame") = 1
      BY <1>1, <1>5, <3>3
    <3> QED
      BY <2>2, <3>3, <3>4
  <2> QED
    BY <2>1, <2>2
<1>7. \A f \in Entries(q) : \E g \in Entries(queue) : f.type = g.type /\ f.t = g.t - n
  <2>1. \A g \in Entries(queue) : Earlier(g, n).type = g.type /\ Earlier(g, n).t = g.t - n
    BY Here DEF Event, Earlier
  <2> QED
    BY <1>5, <2>1
<1>8. \A f \in Entries(q) : f.type # "frame"
  BY <1>1, <1>5, NoneOfType
<1>9. LoopTypeOK' /\ Ordered(queue)'
  BY <1>1, <1>4, <1>6 DEF LoopIInv, LoopTypeOK, Queue
<1>10. ClockBounded'
  <2>1. Devices' = Devices /\ Devices \in 0 .. MaxDevice /\ Devices <= MaxDevice
    BY <1>1, <1>5, <1>6, Here, Limits DEF Devices, Fires
  <2>2. CASE playback
    <3>1. tstates' = 0
      BY <1>3, <1>4, <2>2, Here
    <3>2. tstates' + Frame < Sentinel + MaxStep
      BY <3>1, Limits, WordTyped
    <3> QED
      BY <1>1, <1>4, <2>1, <3>2, Bounded
  <2>3. CASE ~playback
    <3>1. tstates' + Frame = tstates
      BY <1>3, <1>4, <2>3, Here, WordTyped
    <3>2. tstates + Reserve(Devices) < Limit
      BY <1>1, Here DEF LoopIInv, ClockBounded
    <3>3. tstates' + Reserve(Devices) + Frame < Limit
      BY <1>4, <3>1, <3>2, Here, WordTyped
    <3> QED
      BY <1>1, <2>1, <3>3 DEF ClockBounded
  <2> QED
    BY <2>2, <2>3
<1>11. FramesCounted'
  BY <1>1, <1>6 DEF FramesCounted
<1>12. FramesTimed'
  BY <1>1, <1>6, <1>8 DEF FramesTimed, Fires
<1>13. SentinelSet'
  <2>1. \A g \in Entries(queue) : g.type = "sentinel" => playback /\ g.t = Sentinel + tstates
    <3>1. \A g \in Entries(queue) : g.type = "sentinel" => NumOf(queue, "sentinel") # 0
      BY Here
    <3> QED
      BY <1>1, <3>1, Here DEF LoopIInv, SentinelSet, Fires
  <2>2. \A f \in Entries(queue') : f.type = "sentinel" => f.t = Sentinel
    BY <1>3, <1>6, <1>7, <2>1, Here, WordTyped
  <2>3. NumOf(queue', "sentinel") = NumOf(queue, "sentinel")
    BY <1>5, <1>6
  <2>4. \A f \in Entries(queue') : f.type = "sentinel" => f.t = Sentinel + 0
    BY <2>2, WordTyped
  <2> QED
    BY <1>1, <2>3, <2>4 DEF LoopIInv, SentinelSet, Fires
<1>14. Stages'
  BY <1>1 DEF LoopIInv, Stages
<1> QED
  BY <1>9, <1>10, <1>11, <1>12, <1>13, <1>14 DEF LoopIInv

\* machine_select_machine: the two events of a machine that starts.
TimerUp == [t |-> 0, type |-> "timer"]
FrameUp == [t |-> Frame, type |-> "frame"]
SentinelUp == [t |-> Sentinel, type |-> "sentinel"]

LEMMA Selected ==
  /\ SelectedQueue \in Queue /\ Ordered(SelectedQueue)
  /\ Entries(SelectedQueue) = {TimerUp, FrameUp}
  /\ NumOf(SelectedQueue, "frame") = 1
  /\ \A ty : ty \notin {"timer", "frame"} => NumOf(SelectedQueue, ty) = 0
  /\ \A f : Copies(SelectedQueue, f) = IF f \in {TimerUp, FrameUp} THEN 1 ELSE 0
<1> DEFINE q0 == EmptyQueue
           q1 == event_add(q0, 0, "timer")
           q2 == event_add(q1, Frame, "frame")
<1>1. q0 \in Queue /\ Ordered(q0) /\ Entries(q0) = {}
  BY WordTyped DEF EmptyQueue, Queue, Ordered, NextOf, Entries
<1>2. \A ty : NumOf(q0, ty) = 0
  BY <1>1, NoneOfType
<1>3. \A f : Copies(q0, f) = 0
  BY <1>1, NoCopies
<1> HIDE DEF q0
<1>4. /\ TimerUp = [t |-> 0, type |-> "timer"] /\ FrameUp = [t |-> Frame, type |-> "frame"]
      /\ 0 \in Time /\ Frame \in Time /\ Frame # 0
      /\ "timer" \in Type \cup {"null"} /\ "frame" \in Type \cup {"null"}
  BY WordTyped, Types DEF TimerUp, FrameUp, Time
<1>5. /\ q1 \in Queue /\ Ordered(q1) /\ TimerUp.t = 0
      /\ Entries(q1) = Entries(q0) \cup {TimerUp}
      /\ NumOf(q1, "timer") = NumOf(q0, "timer") + 1
      /\ \A ty : ty # "timer" => NumOf(q1, ty) = NumOf(q0, ty)
      /\ Copies(q1, TimerUp) = Copies(q0, TimerUp) + 1
      /\ \A f : f # TimerUp => Copies(q1, f) = Copies(q0, f)
  <2> DEFINE zero == 0
  <2>1. zero \in Time /\ TimerUp = [t |-> zero, type |-> "timer"] /\ q1 = event_add(q0, zero, "timer")
    BY <1>4
  <2> HIDE DEF zero, q1
  <2>2. TimerUp.t = zero
    BY <2>1
  <2>3. zero = 0
    BY DEF zero
  <2> QED
    BY <1>1, <1>4, <2>1, <2>2, <2>3, Adds
<1> HIDE DEF q1
<1>6. /\ q2 \in Queue /\ Ordered(q2) /\ FrameUp.t = Frame
      /\ Entries(q2) = Entries(q1) \cup {FrameUp}
      /\ NumOf(q2, "frame") = NumOf(q1, "frame") + 1
      /\ \A ty : ty # "frame" => NumOf(q2, ty) = NumOf(q1, ty)
      /\ Copies(q2, FrameUp) = Copies(q1, FrameUp) + 1
      /\ \A f : f # FrameUp => Copies(q2, f) = Copies(q1, f)
  <2>1. q2 = event_add(q1, Frame, "frame")
    OBVIOUS
  <2> HIDE DEF q2
  <2> QED
    BY <1>4, <1>5, <2>1, Adds
<1>7. SelectedQueue = q2
  BY DEF SelectedQueue, q2, q1, q0
<1> HIDE DEF q2
<1>8. TimerUp # FrameUp
  BY <1>4, <1>5, <1>6
<1> QED
  BY <1>1, <1>2, <1>3, <1>5, <1>6, <1>7, <1>8

\* What the user does begins a frame: nothing is left of the one that ended.
LEMMA UiTurn ==
  ASSUME LoopIInv, FrameStarts
  PROVE  /\ pc = "ui" /\ firing = <<>> /\ pc' = "z80" /\ firing' = <<>> /\ ~frame_end'
         /\ UNCHANGED caller /\ caller \in {"loop", "force"}
         /\ NumOf(queue, "frame") = (IF playback THEN 0 ELSE 1)
         /\ NumOf(queue, "sentinel") = (IF playback THEN 1 ELSE 0)
         /\ NumOf(queue, "device") \in 0 .. MaxDevice
         /\ Devices = NumOf(queue, "device")
         /\ Devices' = NumOf(queue', "device") + 0
         /\ \A now \in AfterInterrupt :
              /\ now \in Nat /\ now \in Time
              /\ now + Reserve(Devices) < Limit
<1>1. /\ pc = "ui" /\ firing = <<>> /\ pc' = "z80" /\ firing' = <<>> /\ frame_end' = FALSE
      /\ UNCHANGED caller /\ caller \in {"loop", "force"}
  BY DEF FrameStarts, LoopIInv, LoopTypeOK
<1>2. Devices = NumOf(queue, "device") /\ Devices' = NumOf(queue', "device") + 0
  BY <1>1, Here DEF Devices, Fires
<1>3. ASSUME NEW now \in AfterInterrupt
      PROVE  now \in Nat /\ now \in Time /\ now + Reserve(Devices) < Limit
  <2>1. PICK d \in 0 .. MaxStep : now = tstates + d
    <3>1. tstates = tstates + 0 /\ 0 \in 0 .. MaxStep /\ Steps \subseteq 0 .. MaxStep
      BY Here, Limits DEF Steps
    <3> QED
      BY <3>1 DEF AfterInterrupt
  <2>2. tstates + Reserve(Devices) + Frame < Limit
    BY <1>1 DEF LoopIInv, ClockBounded
  <2>3. /\ now \in Nat /\ now + Reserve(Devices) < Limit /\ now < Word
    BY <2>1, <2>2, Here, Limits, WordTyped
  <2> QED
    BY <2>3, Clock
<1> QED
  BY <1>1, <1>2, <1>3, Here DEF LoopIInv, FramesCounted, SentinelSet, Fires

LEMMA UiNothingKeeps ==
  ASSUME LoopIInv, UiNothing
  PROVE  LoopIInv'
<1>1. tstates' \in AfterInterrupt /\ FrameStarts /\ UNCHANGED <<queue, playback>>
  BY DEF UiNothing
<1>2. /\ pc = "ui" /\ firing = <<>> /\ pc' = "z80" /\ firing' = <<>> /\ ~frame_end'
      /\ NumOf(queue, "frame") = (IF playback THEN 0 ELSE 1)
      /\ Devices' = Devices /\ tstates' \in Time /\ tstates' \in Nat
      /\ tstates' + Reserve(Devices) < Limit
  BY <1>1, UiTurn, Here DEF Devices, Fires
<1>3. LoopTypeOK' /\ Ordered(queue)'
  BY <1>1, <1>2, UiTurn DEF LoopIInv, LoopTypeOK, Ordered, FrameStarts
<1>4. ClockBounded'
  BY <1>2, Here DEF ClockBounded
<1>5. FramesCounted' /\ FramesTimed' /\ SentinelSet' /\ Stages'
  BY <1>1, <1>2 DEF LoopIInv, FramesCounted, FramesTimed, SentinelSet, Stages, Fires
<1> QED
  BY <1>3, <1>4, <1>5 DEF LoopIInv

LEMMA UiStartPlaybackKeeps ==
  ASSUME LoopIInv, UiStartPlayback
  PROVE  LoopIInv'
<1>1. PICK q \in {queue, SelectedQueue} :
        queue' = event_add(event_remove_type(q, "frame"), Sentinel, "sentinel")
  BY DEF UiStartPlayback
<1>2. /\ FrameStarts /\ ~playback /\ tstates' \in SnapTimes /\ playback' = TRUE
      /\ pc' = "z80" /\ firing' = <<>> /\ ~frame_end' /\ UNCHANGED caller
      /\ frame_end' = FALSE /\ caller \in {"loop", "force"}
  BY UiTurn DEF UiStartPlayback, FrameStarts
<1> DEFINE r == event_remove_type(q, "frame")
<1>3. /\ q \in Queue /\ Ordered(q) /\ NumOf(q, "sentinel") = 0
      /\ NumOf(q, "device") \in 0 .. MaxDevice
  <2>1. NumOf(queue, "sentinel") = 0 /\ NumOf(queue, "device") \in 0 .. MaxDevice
    BY <1>2, UiTurn, Here
  <2>2. NumOf(SelectedQueue, "sentinel") = 0 /\ NumOf(SelectedQueue, "device") \in 0 .. MaxDevice
    BY Selected, Limits
  <2> QED
    BY <2>1, <2>2, Here, Selected
<1>4. /\ r \in Queue /\ Ordered(r) /\ NumOf(r, "frame") = 0
      /\ \A ty : ty \notin {"frame", "null"} => NumOf(r, ty) = NumOf(q, ty)
  BY <1>3, Types, RemoveEffect
<1> HIDE DEF r
<1>5. \A f \in Entries(r) : f.type # "sentinel" /\ f.type # "frame"
  BY <1>3, <1>4, NoneOfType
<1>6. /\ queue' \in Queue /\ Ordered(queue') /\ SentinelUp.t = Sentinel /\ SentinelUp.type = "sentinel"
      /\ Entries(queue') = Entries(r) \cup {SentinelUp}
      /\ NumOf(queue', "sentinel") = NumOf(r, "sentinel") + 1
      /\ \A ty : ty # "sentinel" => NumOf(queue', ty) = NumOf(r, ty)
  <2>1. queue' = event_add(r, Sentinel, "sentinel")
    BY <1>1 DEF r
  <2>2. Sentinel \in Time /\ "sentinel" \in Type \cup {"null"}
    BY WordTyped, Types
  <2>3. SentinelUp = [t |-> Sentinel, type |-> "sentinel"]
    BY DEF SentinelUp
  <2> QED
    BY <1>4, <2>1, <2>2, <2>3, Adds
<1>7. tstates' \in Time /\ tstates' \in Nat /\ tstates' < Frame
  <2>1. SnapTimes \subseteq 0 .. Frame - 1
    BY LoopAssumption
  <2> QED
    BY <1>2, <2>1, WordTyped DEF Time
<1>8. NumOf(queue', "sentinel") = 1 /\ NumOf(queue', "frame") = 0
      /\ NumOf(queue', "device") \in 0 .. MaxDevice
  BY <1>3, <1>4, <1>6
<1>9. LoopTypeOK' /\ Ordered(queue)'
  BY <1>2, <1>6, <1>7 DEF LoopTypeOK, Queue
<1>10. ClockBounded'
  <2>1. Devices' \in 0 .. MaxDevice
    BY <1>2, <1>8, UiTurn
  <2>2. tstates' + 0 < Sentinel + MaxStep
    <3>1. Frame < Sentinel /\ Frame \in Nat /\ Sentinel \in Nat /\ MaxStep \in Nat
      BY Limits, WordTyped
    <3>2. \A a, b, c, d \in Nat : a <= b /\ b < c => a + 0 < c + d
      OBVIOUS
    <3>3. tstates' \in Nat /\ tstates' <= Frame
      BY <1>7, <3>1
    <3> QED
      BY <3>1, <3>2, <3>3
  <2> QED
    BY <1>2, <1>7, <2>1, <2>2, Bounded
<1>11. FramesCounted' /\ FramesTimed' /\ Stages'
  BY <1>2, <1>8 DEF FramesCounted, FramesTimed, Stages, Fires
<1>12. SentinelSet'
  <2>1. \A f \in Entries(queue') : f.type = "sentinel" => f.t = Sentinel + 0
    BY <1>5, <1>6, WordTyped
  <2> QED
    BY <1>2, <1>8, <2>1 DEF SentinelSet, Fires
<1> QED
  BY <1>9, <1>10, <1>11, <1>12 DEF LoopIInv

LEMMA UiStopPlaybackKeeps ==
  ASSUME LoopIInv, UiStopPlayback
  PROVE  LoopIInv'
<1>1. PICK now \in AfterInterrupt :
        /\ queue' = rzx_stop_playback(queue, now, TRUE).queue
        /\ tstates' = rzx_stop_playback(queue, now, TRUE).tstates
  BY DEF UiStopPlayback
<1>2. /\ FrameStarts /\ playback /\ playback' = FALSE
      /\ pc' = "z80" /\ firing' = <<>> /\ ~frame_end' /\ frame_end' = FALSE
      /\ UNCHANGED caller /\ caller \in {"loop", "force"}
      /\ NumOf(queue, "frame") = 0 /\ NumOf(queue, "device") \in 0 .. MaxDevice
      /\ now \in Nat /\ now \in Time
  BY UiTurn DEF UiStopPlayback, FrameStarts
<1> DEFINE r == rzx_stop_playback(queue, now, TRUE).queue
<1>3. /\ r \in Queue /\ Ordered(r)
      /\ \A e \in Entries(r) : \/ e \in Entries(queue) /\ e.type # "sentinel"
                               \/ e.type = "null"
                               \/ e.type = "frame" /\ e.t = Frame
      /\ NumOf(r, "sentinel") = 0 /\ NumOf(r, "device") = NumOf(queue, "device")
      /\ NumOf(r, "frame") = NumOf(queue, "frame") + 1
  BY Here, StopEffect
<1> HIDE DEF r
<1>4. queue' = r /\ NumOf(r, "frame") = 1
  <2>1. queue' = r
    BY <1>1 DEF r
  <2> QED
    BY <1>2, <1>3, <2>1
<1>5. \A e \in Entries(r) : e.type # "sentinel" /\ (e.type = "frame" => e.t = Frame)
  <2>1. \A e \in Entries(queue) : e.type # "frame"
    BY <1>2, Here
  <2> QED
    BY <1>3, <2>1, NoneOfType
<1>6. tstates' \in Time /\ tstates' \in Nat /\ tstates' <= Frame
  BY <1>1, <1>2, WordTyped DEF rzx_stop_playback
<1>7. LoopTypeOK' /\ Ordered(queue)'
  BY <1>2, <1>3, <1>4, <1>6 DEF LoopTypeOK, Queue
<1>8. ClockBounded'
  <2>1. Devices' \in 0 .. MaxDevice
    BY <1>2, <1>3, <1>4, UiTurn
  <2>2. tstates' + 0 < Sentinel + MaxStep
    <3>1. Frame < Sentinel /\ Frame \in Nat /\ Sentinel \in Nat /\ MaxStep \in Nat
      BY Limits, WordTyped
    <3>2. \A a, b, c, d \in Nat : a <= b /\ b < c => a + 0 < c + d
      OBVIOUS
    <3>3. tstates' \in Nat /\ tstates' <= Frame
      BY <1>6, <3>1
    <3> QED
      BY <3>1, <3>2, <3>3
  <2> QED
    BY <1>2, <1>6, <2>1, <2>2, Bounded
<1>9. FramesCounted' /\ FramesTimed' /\ SentinelSet' /\ Stages'
  BY <1>2, <1>3, <1>4, <1>5 DEF FramesCounted, FramesTimed, SentinelSet, Stages, Fires
<1> QED
  BY <1>7, <1>8, <1>9 DEF LoopIInv

\* A machine that starts, with the two events of SelectedQueue.
StartState ==
  /\ queue = SelectedQueue /\ tstates = 0 /\ frame_end = FALSE /\ playback = FALSE
  /\ pc = "z80" /\ caller \in {"loop", "force"} /\ firing = <<>>

LEMMA Starts == StartState => LoopIInv
<1> SUFFICES ASSUME StartState PROVE LoopIInv
  OBVIOUS
<1> USE DEF StartState
<1>1. LoopTypeOK /\ Ordered(queue)
  <2>1. 0 \in Time
    BY WordTyped DEF Time
  <2>2. SelectedQueue \in [list : Seq(Event), next : Time] /\ Ordered(SelectedQueue)
    BY Selected DEF Queue
  <2> QED
    BY <2>1, <2>2 DEF LoopTypeOK
<1>2. ClockBounded
  <2>1. Devices = 0
    BY Selected DEF Devices, Fires
  <2>2. 0 + 0 + 0 < Limit /\ 0 <= MaxDevice
    <3>1. /\ Reserve(MaxDevice) \in Nat /\ MaxDevice \in Nat /\ MaxStep \in Nat
          /\ Sentinel \in Nat \ {0}
      BY Limits, WordTyped, Reserves
    <3> QED
      BY <3>1 DEF Limit
  <2> QED
    BY <2>1, <2>2, Reserves DEF ClockBounded
<1>3. FramesCounted /\ SentinelSet /\ FramesTimed /\ Stages
  BY Selected DEF FramesCounted, SentinelSet, FramesTimed, Stages, Fires, TimerUp, FrameUp
<1> QED
  BY <1>1, <1>2, <1>3 DEF LoopIInv

LEMMA StartsAgain == StartState' => LoopIInv'
  BY Starts, PTL

LEMMA UiMachineSelectKeeps ==
  ASSUME LoopIInv, UiMachineSelect
  PROVE  LoopIInv'
<1>1. /\ queue' = SelectedQueue /\ tstates' = 0 /\ frame_end' = FALSE /\ playback' = FALSE
      /\ pc' = "z80" /\ caller' \in {"loop", "force"} /\ firing' = <<>>
  BY UiTurn DEF UiMachineSelect, FrameStarts
<1> QED
  BY <1>1, StartsAgain DEF StartState

-----------------------------------------------------------------------------
LEMMA InitHolds ==
  ASSUME Init
  PROVE  LoopIInv
  BY Starts DEF Init, StartState

LEMMA NextKeeps ==
  ASSUME SnapInside = FALSE, LoopIInv, [Next]_loopVars
  PROVE  LoopIInv'
<1>1. CASE Z80
  BY <1>1, InstructionKeeps, DeviceStartKeeps, DeviceStopKeeps, PlaybackFrameEndKeeps,
     PortReadErrorKeeps, LeaveZ80Keeps DEF Z80
<1>2. CASE Events
  BY <1>2, PopEventKeeps, FrameHandlerKeeps, TimerHandlerKeeps, SentinelHandlerKeeps,
     DeviceHandlerKeeps, EventsDoneKeeps DEF Events
<1>3. CASE FrameEnd
  BY <1>3, ForceEventKeeps, ForceDoneKeeps, NoPlaybackKeeps, PlaybackFinishedKeeps,
     PlaybackContinuesKeeps, SpectrumFrameKeeps, UiNothingKeeps, UiStartPlaybackKeeps,
     UiStopPlaybackKeeps, UiMachineSelectKeeps DEF FrameEnd
<1>4. CASE UNCHANGED loopVars
  <2>1. UNCHANGED <<queue, tstates, frame_end, playback, pc, caller, firing>>
    BY <1>4 DEF loopVars
  <2> QED
    BY <2>1 DEF LoopIInv, LoopTypeOK, Ordered, ClockBounded, Devices, FramesCounted, FrameEvents,
                FramesTimed, SentinelSet, Stages, FrameLength, Fires
<1> QED
  BY <1>1, <1>2, <1>3, <1>4 DEF Next

\* The inductive invariant holds.
LEMMA LoopInvariant ==
  ASSUME SnapInside = FALSE
  PROVE  Spec => []LoopIInv
<1>1. Init => LoopIInv
  BY InitHolds
<1>2. LoopIInv /\ [Next]_loopVars => LoopIInv'
  BY NextKeeps
<1> QED
  BY <1>1, <1>2, PTL DEF Spec

-----------------------------------------------------------------------------
(***************************************************************************)
(* The list implements the schedule of EventSchedule.                      *)
(***************************************************************************)
LEMMA LiveBag ==
  ASSUME NEW q \in Queue
  PROVE  /\ DOMAIN BagOf(q) = Live(q)
         /\ \A e \in Live(q) : /\ e \in Event /\ e \in Entries(q) /\ e.type # "null"
                               /\ BagOf(q)[e] = Copies(q, e)
                               /\ Copies(q, e) \in Nat \ {0}
         /\ \A e : e.type # "null" /\ Copies(q, e) # 0 => e \in Live(q)
<1>1. Live(q) = {e \in Entries(q) : e.type # "null"}
  BY DEF Live, Entries
<1>2. DOMAIN BagOf(q) = Live(q) /\ \A e \in Live(q) : BagOf(q)[e] = Copies(q, e)
  BY DEF BagOf
<1>3. \A e \in Live(q) : e \in Event /\ Copies(q, e) \in Nat \ {0}
  BY <1>1, EntriesTyped, NoCopies, CountsArePlaces
<1>4. \A e : e.type # "null" /\ Copies(q, e) # 0 => e \in Live(q)
  BY <1>1, NoCopies
<1> QED
  BY <1>1, <1>2, <1>3, <1>4

LEMMA Later ==
  ASSUME NEW f \in Event, NEW n \in Nat, n <= f.t
  PROVE  /\ [f EXCEPT !.t = @ - n].type = f.type
         /\ [[f EXCEPT !.t = @ - n] EXCEPT !.t = @ + n] = f
<1>1. f = [t |-> f.t, type |-> f.type] /\ f.t \in Nat
  BY WordTyped DEF Event
<1>2. [f EXCEPT !.t = @ - n] = [t |-> f.t - n, type |-> f.type]
  BY <1>1
<1>3. [[f EXCEPT !.t = @ - n] EXCEPT !.t = @ + n] = [t |-> (f.t - n) + n, type |-> f.type]
  <2> DEFINE g == [f EXCEPT !.t = @ - n]
  <2>1. g = [t |-> f.t - n, type |-> f.type]
    BY <1>2
  <2> HIDE DEF g
  <2>2. [g EXCEPT !.t = @ + n] = [t |-> (f.t - n) + n, type |-> f.type]
    BY <2>1
  <2> QED
    BY <2>2 DEF g
<1>4. (f.t - n) + n = f.t
  BY <1>1
<1> QED
  BY <1>1, <1>2, <1>3, <1>4

\* What is kept of the events is in the list afterwards, each as often.
LEMMA KeptIn ==
  ASSUME queue \in Queue, queue' \in Queue, NEW T, NEW n \in Nat,
         \A e \in Entries(queue) : n <= e.t,
         \A f \in Event : f.type \notin T \cup {"null"} /\ n <= f.t =>
           Copies(queue, f) <= Copies(queue', Earlier(f, n))
  PROVE  Schedule!\sqsubseteq(Schedule!Kept(T, n), BagOf(queue'))
<1> DEFINE K == Schedule!Kept(T, n)
           G == {g \in Live(queue) : g.type \notin T}
<1>1. DOMAIN K = {[f EXCEPT !.t = @ - n] : f \in G}
  BY LiveBag DEF Schedule!Kept, Schedule!BagToSet
<1>2. ASSUME NEW f \in G
      PROVE  LET e == Earlier(f, n)
             IN e \in DOMAIN K /\ K[e] = Copies(queue, f) /\ e \in Live(queue') /\ K[e] <= Copies(queue', e)
  <2> DEFINE e == [f EXCEPT !.t = @ - n]
  <2>1. f \in Event /\ f \in Live(queue) /\ n <= f.t /\ f.type \notin T \cup {"null"}
        /\ Copies(queue, f) \in Nat \ {0} /\ BagOf(queue)[f] = Copies(queue, f)
    BY LiveBag
  <2>2. e.type = f.type /\ [e EXCEPT !.t = @ + n] = f
    BY <2>1, Later
  <2>3. e \in DOMAIN K
    BY <1>1
  <2>4. K[e] = Copies(queue, f)
    BY <1>1, <2>1, <2>2, <2>3, LiveBag DEF Schedule!Kept, Schedule!BagToSet
  <2>5. e = Earlier(f, n)
    BY DEF Earlier
  <2>6. Copies(queue, f) <= Copies(queue', e) /\ Copies(queue', e) \in Nat
    BY <2>1, <2>5, CountsArePlaces
  <2>7. e \in Live(queue')
    <3>1. e.type # "null" /\ Copies(queue', e) # 0
      BY <2>1, <2>2, <2>6
    <3> HIDE DEF e
    <3> QED
      BY <3>1, LiveBag
  <2> QED
    BY <2>3, <2>4, <2>5, <2>6, <2>7
<1>3. ASSUME NEW e \in DOMAIN K PROVE e \in Live(queue') /\ K[e] <= Copies(queue', e)
  <2>1. PICK f \in G : e = Earlier(f, n)
    BY <1>1 DEF Earlier
  <2> QED
    BY <1>2, <2>1
<1>4. /\ DOMAIN BagOf(queue') = Live(queue')
      /\ \A e \in Live(queue') : BagOf(queue')[e] = Copies(queue', e)
  BY LiveBag
<1> HIDE DEF K
<1>5. Schedule!\sqsubseteq(K, BagOf(queue'))
  BY <1>3, <1>4 DEF Schedule!\sqsubseteq
<1> QED
  BY <1>5 DEF K

LEMMA NothingEarlier ==
  ASSUME NEW f \in Event
  PROVE  Earlier(f, 0) = f
<1>1. f = [t |-> f.t, type |-> f.type] /\ f.t \in Nat
  BY WordTyped DEF Event
<1>2. Earlier(f, 0) = [t |-> f.t - 0, type |-> f.type]
  BY <1>1 DEF Earlier
<1> QED
  BY <1>1, <1>2

LEMMA Reschedules ==
  ASSUME queue \in Queue, queue' \in Queue, NEW T \in {{}} \cup {{t} : t \in Type},
         \A f \in Event : f.type \notin T \cup {"null"} => Copies(queue, f) <= Copies(queue', f),
         tstates' \in Nat, firing' = <<>>
  PROVE  Schedule!Next
<1> DEFINE zero == 0
<1>1. zero \in Nat /\ zero = 0
  OBVIOUS
<1> HIDE DEF zero
<1>2. \A e \in Entries(queue) : zero <= e.t
  BY <1>1, EntriesTyped
<1>3. \A f \in Event : f.type \notin T \cup {"null"} /\ zero <= f.t =>
           Copies(queue, f) <= Copies(queue', Earlier(f, zero))
  BY <1>1, NothingEarlier
<1>4. Schedule!\sqsubseteq(Schedule!Kept(T, zero), BagOf(queue'))
  BY <1>1, <1>2, <1>3, KeptIn
<1>5. {firing'[i] : i \in DOMAIN firing'} = {}
  OBVIOUS
<1>6. Schedule!Reschedule(T)
  BY <1>1, <1>4, <1>5 DEF Schedule!Reschedule
<1> QED
  BY <1>6 DEF Schedule!Next

LEMMA AddsCopies ==
  ASSUME NEW q \in Queue, Ordered(q), NEW t \in Time, NEW type \in Type \cup {"null"}
  PROVE  \A f : Copies(q, f) \in Nat /\ Copies(q, f) <= Copies(event_add(q, t, type), f)
<1> DEFINE e == [t |-> t, type |-> type]
           r == event_add(q, t, type)
<1>1. e = [t |-> t, type |-> type] /\ r = event_add(q, t, type)
  OBVIOUS
<1> HIDE DEF e, r
<1>2. Copies(r, e) = Copies(q, e) + 1 /\ \A f : f # e => Copies(r, f) = Copies(q, f)
  BY <1>1, Adds
<1> QED
  BY <1>1, <1>2, CountsArePlaces

LEMMA SameBag ==
  ASSUME NEW q \in Queue, NEW r \in Queue, \A f : f.type # "null" => Copies(q, f) = Copies(r, f)
  PROVE  BagOf(q) = BagOf(r)
<1>1. Live(q) = Live(r)
  BY LiveBag
<1>2. \A e \in Live(q) : Copies(q, e) = Copies(r, e)
  BY LiveBag
<1> QED
  BY <1>1, <1>2 DEF BagOf

LEMMA Before ==
  ASSUME LoopIInv, LoopIInv'
  PROVE  /\ queue \in Queue /\ Ordered(queue) /\ tstates \in Nat
         /\ queue' \in Queue /\ tstates' \in Nat
         /\ \A f : Copies(queue, f) \in Nat
<1>1. queue \in Queue /\ queue' \in Queue /\ tstates' \in Nat
  BY WordTyped DEF LoopIInv, LoopTypeOK, Queue
<1> QED
  BY <1>1, Here, CountsArePlaces

\* The clock goes on.
LEMMA Ticks ==
  ASSUME LoopIInv, LoopIInv', UNCHANGED queue, firing' = <<>>
  PROVE  Schedule!Next
<1> DEFINE T == {}
<1>1. T \in {{}} \cup {{t} : t \in Type}
  OBVIOUS
<1>2. \A f \in Event : Copies(queue, f) <= Copies(queue', f)
  BY Before
<1> HIDE DEF T
<1> QED
  BY <1>1, <1>2, Before, Reschedules

\* Something is added.
LEMMA Schedules ==
  ASSUME LoopIInv, LoopIInv', NEW t \in Time, NEW type \in Type \cup {"null"},
         queue' = event_add(queue, t, type), firing' = <<>>
  PROVE  Schedule!Next
<1> DEFINE T == {}
<1>1. T \in {{}} \cup {{x} : x \in Type}
  OBVIOUS
<1>2. \A f \in Event : Copies(queue, f) <= Copies(queue', f)
  BY Before, AddsCopies
<1> HIDE DEF T
<1> QED
  BY <1>1, <1>2, Before, Reschedules

\* A type is removed, and something may be added.
LEMMA Removes ==
  ASSUME LoopIInv, LoopIInv', NEW type \in Type, firing' = <<>>,
         \A f \in Event : f.type \notin {type, "null"} =>
           Copies(event_remove_type(queue, type), f) <= Copies(queue', f)
  PROVE  Schedule!Next
<1> DEFINE T == {type}
<1>1. T \in {{}} \cup {{x} : x \in Type}
  OBVIOUS
<1>2. \A f \in Event : f.type \notin T \cup {"null"} => Copies(queue, f) <= Copies(queue', f)
  BY Before, RemoveEffect
<1> HIDE DEF T
<1> QED
  BY <1>1, <1>2, Before, Reschedules

LEMMA Z80Implements ==
  ASSUME LoopIInv, LoopIInv', Z80
  PROVE  Schedule!Next \/ UNCHANGED Schedule!scheduleVars
<1>1. pc = "z80" /\ firing = <<>>
  BY DEF LoopIInv, LoopTypeOK, Z80, Instruction, DeviceStart, DeviceStop, PlaybackFrameEnd,
         PortReadError, LeaveZ80, InZ80
<1>2. CASE Instruction
  BY <1>1, <1>2, Ticks DEF Instruction
<1>3. CASE DeviceStart
  <2>1. PICK d \in Steps, delay \in Delays :
          queue' = event_add(queue, (tstates + d + delay) % Word, "device")
    BY <1>3 DEF DeviceStart
  <2> DEFINE t == (tstates + d + delay) % Word
  <2>2. t \in Time
    <3>1. d \in Nat /\ delay \in Nat /\ tstates \in Nat
      BY Before, LoopAssumption DEF Steps
    <3>2. tstates + d + delay \in Nat
      BY <3>1
    <3> QED
      BY <3>2, Clock
  <2>3. queue' = event_add(queue, t, "device") /\ firing' = <<>> /\ "device" \in Type \cup {"null"}
    BY <1>1, <1>3, <2>1, Types DEF DeviceStart
  <2> HIDE DEF t
  <2> QED
    BY <2>2, <2>3, Schedules
<1>4. CASE DeviceStop
  <2>1. queue' = event_remove_type(queue, "device") /\ firing' = <<>> /\ "device" \in Type
    BY <1>1, <1>4, Types DEF DeviceStop
  <2>2. \A f \in Event : f.type \notin {"device", "null"} =>
          Copies(event_remove_type(queue, "device"), f) <= Copies(queue', f)
    BY <2>1, Before, CountsArePlaces
  <2> QED
    BY <2>1, <2>2, Removes
<1>5. CASE PlaybackFrameEnd
  <2>1. queue' = event_add(queue, tstates, "frame") /\ firing' = <<>> /\ "frame" \in Type \cup {"null"}
    BY <1>1, <1>5, Types DEF PlaybackFrameEnd
  <2> QED
    BY <2>1, Here, Schedules
<1>6. CASE PortReadError
  <2>1. PICK d \in Steps :
        /\ queue' = event_add(rzx_stop_playback(queue, tstates + d, TRUE).queue, tstates', "null")
        /\ firing' = <<>>
    BY <1>1, <1>6 DEF PortReadError
  <2> DEFINE q == event_remove_type(queue, "sentinel")
             r == rzx_stop_playback(queue, tstates + d, TRUE).queue
  <2>2. r = event_add(q, Frame, "frame") /\ "sentinel" \in Type /\ Frame \in Time
        /\ "frame" \in Type \cup {"null"} /\ "null" \in Type \cup {"null"} /\ tstates' \in Time
    BY Types, WordTyped DEF rzx_stop_playback, LoopIInv, LoopTypeOK
  <2>3. q \in Queue /\ Ordered(q) /\ r \in Queue /\ Ordered(r)
    <3>1. TRUE \in BOOLEAN
      OBVIOUS
    <3> QED
      BY <2>2, <3>1, Before, RemoveEffect, StopEffect
  <2>4. \A f : Copies(q, f) <= Copies(queue', f)
    <3>1. queue' = event_add(r, tstates', "null")
      BY <2>1
    <3> HIDE DEF q, r
    <3>2. \A f : Copies(q, f) \in Nat /\ Copies(q, f) <= Copies(r, f)
      BY <2>2, <2>3, AddsCopies
    <3>3. \A f : Copies(r, f) \in Nat /\ Copies(r, f) <= Copies(queue', f)
      BY <2>2, <2>3, <3>1, AddsCopies
    <3>4. \A f : Copies(queue', f) \in Nat
      BY Before, CountsArePlaces
    <3> QED
      BY <3>2, <3>3, <3>4
  <2> QED
    BY <2>1, <2>2, <2>4, Removes
<1>7. CASE LeaveZ80
  BY <1>7 DEF LeaveZ80, Schedule!scheduleVars
<1> QED
  BY <1>2, <1>3, <1>4, <1>5, <1>6, <1>7 DEF Z80

LEMMA PopEventImplements ==
  ASSUME LoopIInv, LoopIInv', PopEvent
  PROVE  Schedule!Next \/ UNCHANGED Schedule!scheduleVars
<1> DEFINE h == Head(queue.list)
<1>1. /\ pc = "events" /\ firing = <<>> /\ queue.next <= tstates /\ UNCHANGED tstates
      /\ queue' = PopHead(queue)
  BY DEF PopEvent, LoopIInv, LoopTypeOK
<1>2. queue.list # <<>>
  <2>1. queue.next # NoEvents
    BY <1>1, Here, Limits, WordTyped DEF NoEvents
  <2> QED
    BY <2>1, Here, HeadFirst
<1>3. /\ h \in Entries(queue) /\ h.t = queue.next
      /\ Copies(queue, h) = Copies(queue', h) + 1
      /\ \A f : f # h => Copies(queue, f) = Copies(queue', f)
  BY <1>1, <1>2, Here, PopEffect
<1>4. CASE h.type = "null"
  <2>1. UNCHANGED firing
    BY <1>4 DEF PopEvent
  <2>2. \A f : f.type # "null" => Copies(queue, f) = Copies(queue', f)
    BY <1>3, <1>4
  <2>3. UNCHANGED BagOf(queue)
    BY <2>2, Before, SameBag
  <2> QED
    BY <1>1, <2>1, <2>3 DEF Schedule!scheduleVars
<1>5. CASE h.type # "null"
  <2>1. firing' = <<h>>
    BY <1>5 DEF PopEvent
  <2> HIDE DEF h
  <2>2. {firing[i] : i \in DOMAIN firing} = {} /\ {firing'[i] : i \in DOMAIN firing'} = {h}
    BY <1>1, <2>1
  <2>3. h \in Live(queue)
    BY <1>3, <1>5, Before, LiveBag, NoCopies
  <2>4. \A f \in Live(queue) : h.t <= f.t
    BY <1>3, Before, Here, LiveBag
  <2> DEFINE B == [e \in Live(queue) |-> IF e \in {h} THEN Copies(queue, e) - 1 ELSE Copies(queue, e)]
  <2>5. \A e \in Live(queue) : B[e] = Copies(queue', e) /\ Copies(queue', e) \in Nat
    BY <1>3, Before, LiveBag, CountsArePlaces
  <2>6. {e \in Live(queue) : B[e] > 0} = Live(queue')
    <3>1. \A e \in Live(queue') : Copies(queue', e) # 0 /\ e.type # "null" /\ e \in Live(queue)
      <4>1. \A e \in Live(queue') : Copies(queue', e) \in Nat \ {0} /\ e.type # "null"
        BY Before, LiveBag
      <4>2. \A e \in Live(queue') : Copies(queue, e) # 0
        BY <1>3, <4>1
      <4> QED
        BY <4>1, <4>2, Before, LiveBag
    <3>2. \A e \in Live(queue) : Copies(queue', e) # 0 => e \in Live(queue')
      BY Before, LiveBag
    <3>3. \A e \in Live(queue) : B[e] > 0 <=> Copies(queue', e) # 0
      BY <2>5
    <3> QED
      BY <3>1, <3>2, <3>3
  <2>7. BagOf(queue') = [e \in {f \in Live(queue) : B[f] > 0} |-> B[e]]
    BY <2>5, <2>6 DEF BagOf
  <2>8. Schedule!BagToSet(BagOf(queue)) = Live(queue)
    BY Before, LiveBag DEF Schedule!BagToSet
  <2>9. Schedule!\ominus(BagOf(queue), Schedule!SetToBag({h})) = [e \in {f \in Live(queue) : B[f] > 0} |-> B[e]]
    <3> DEFINE D == [e \in DOMAIN BagOf(queue) |-> IF e \in DOMAIN Schedule!SetToBag({h})
                        THEN BagOf(queue)[e] - Schedule!SetToBag({h})[e] ELSE BagOf(queue)[e]]
    <3>1. DOMAIN Schedule!SetToBag({h}) = {h} /\ Schedule!SetToBag({h})[h] = 1
      BY DEF Schedule!SetToBag
    <3>2. DOMAIN BagOf(queue) = Live(queue) /\ \A e \in Live(queue) : BagOf(queue)[e] = Copies(queue, e)
      BY Before, LiveBag
    <3>3. D = B
      BY <3>1, <3>2
    <3>4. DOMAIN D = Live(queue)
      BY <3>2
    <3> QED
      BY <3>3, <3>4 DEF Schedule!\ominus
  <2>10. Schedule!Fire(h)
    BY <1>1, <1>3, <2>2, <2>4, <2>7, <2>8, <2>9 DEF Schedule!Fire
  <2>11. \E e \in Schedule!BagToSet(BagOf(queue)) : Schedule!Fire(e)
    <3>1. h \in Schedule!BagToSet(BagOf(queue))
      BY <2>3, <2>8
    <3> QED
      BY <2>10, <3>1 DEF Schedule!Fire
  <2>12. Schedule!Next
    BY <2>11, Zenon DEF Schedule!Next
  <2> QED
    BY <2>12
<1> QED
  BY <1>4, <1>5

LEMMA EventsImplements ==
  ASSUME LoopIInv, LoopIInv', Events
  PROVE  Schedule!Next \/ UNCHANGED Schedule!scheduleVars
<1>1. CASE PopEvent
  BY <1>1, PopEventImplements
<1>2. CASE FrameHandler
  BY <1>2, Ticks DEF FrameHandler, Handler
<1>3. CASE TimerHandler
  <2>1. PICK delay \in Delays : queue' = event_add(queue, (firing[1].t + delay) % Word, "timer")
    BY <1>3 DEF TimerHandler
  <2> DEFINE t == (firing[1].t + delay) % Word
  <2>2. t \in Time /\ firing' = <<>> /\ "timer" \in Type \cup {"null"}
    BY <1>3, InHandler, Types DEF TimerHandler
  <2>3. queue' = event_add(queue, t, "timer")
    BY <2>1
  <2> HIDE DEF t
  <2> QED
    BY <2>2, <2>3, Schedules
<1>4. CASE SentinelHandler
  <2>1. /\ queue' = event_add(queue, Sentinel, "sentinel") /\ firing' = <<>>
        /\ Sentinel \in Time /\ "sentinel" \in Type \cup {"null"}
    BY <1>4, WordTyped, Types DEF SentinelHandler, Handler
  <2> QED
    BY <2>1, Schedules
<1>5. CASE DeviceHandler
  <2>1. CASE UNCHANGED queue
    BY <1>5, <2>1, Ticks DEF DeviceHandler, Handler
  <2>2. ASSUME NEW delay \in Delays, queue' = event_add(queue, (firing[1].t + delay) % Word, "device")
        PROVE  Schedule!Next
    <3> DEFINE t == (firing[1].t + delay) % Word
    <3>1. t \in Time /\ firing' = <<>> /\ "device" \in Type \cup {"null"}
      BY <1>5, InHandler, Types DEF DeviceHandler
    <3>2. queue' = event_add(queue, t, "device")
      BY <2>2
    <3> HIDE DEF t
    <3> QED
      BY <3>1, <3>2, Schedules
  <2> QED
    BY <1>5, <2>1, <2>2 DEF DeviceHandler
<1>6. CASE EventsDone
  BY <1>6 DEF EventsDone, Schedule!scheduleVars
<1> QED
  BY <1>1, <1>2, <1>3, <1>4, <1>5, <1>6 DEF Events

\* spectrum_frame ends a frame of FrameLength T-states.
LEMMA SpectrumFrameImplements ==
  ASSUME LoopIInv, LoopIInv', SpectrumFrame
  PROVE  Schedule!Next
<1> DEFINE n == FrameLength
           q == event_frame(queue, n)
           T == {}
<1>1. /\ pc = "frame" /\ firing = <<>> /\ firing' = <<>>
      /\ queue' = (IF playback THEN q ELSE event_add(q, Frame, "frame"))
      /\ tstates' = (tstates + Word - n) % Word
  BY DEF SpectrumFrame, LoopIInv, LoopTypeOK
<1>2. n \in Nat /\ n <= tstates /\ \A e \in Entries(queue) : n <= e.t
  BY <1>1, Here, WordTyped DEF LoopIInv, Stages, FrameLength
<1> HIDE DEF n
<1>3. tstates' = tstates - n
  <2>1. tstates < Word
    BY Here, WordTyped DEF Time
  <2> QED
    BY <1>1, <1>2, <2>1, Here, Clock, WordTyped
<1>4. /\ q \in Queue /\ Ordered(q)
      /\ \A f \in Event : n <= f.t => Copies(q, Earlier(f, n)) = Copies(queue, f)
  BY <1>2, Here, FrameEffect
<1> HIDE DEF q
<1>5. \A f : Copies(q, f) <= Copies(queue', f)
  <2>1. CASE playback
    <3>1. queue' = q /\ \A f : Copies(q, f) \in Nat
      BY <1>1, <1>4, <2>1, CountsArePlaces
    <3> QED
      BY <3>1
  <2>2. CASE ~playback
    BY <1>1, <1>4, <2>2, AddsCopies, WordTyped, Types
  <2> QED
    BY <2>1, <2>2
<1>6. \A f \in Event : n <= f.t => Copies(queue, f) <= Copies(queue', Earlier(f, n))
  BY <1>4, <1>5
<1>7. T \in {{}} \cup {{x} : x \in Type} /\ T = {}
  OBVIOUS
<1> HIDE DEF T
<1>8. CASE n = 0
  <2>1. \A f \in Event : Copies(queue, f) <= Copies(queue', f)
    <3> SUFFICES ASSUME NEW f \in Event
                 PROVE  Copies(queue, f) <= Copies(queue', f)
      OBVIOUS
    <3>1. n <= f.t
      <4>1. f.t \in Nat
        BY WordTyped DEF Event
      <4> QED
        BY <1>8, <4>1
    <3>2. Earlier(f, n) = f
      BY <1>8, NothingEarlier
    <3> QED
      BY <1>6, <3>1, <3>2
  <2> QED
    BY <1>1, <1>7, <2>1, Before, Reschedules
<1>9. CASE n # 0
  <2>1. Schedule!\sqsubseteq(Schedule!Kept(T, n), BagOf(queue'))
    BY <1>2, <1>6, Before, KeptIn
  <2>2. \A e \in Schedule!BagToSet(BagOf(queue)) : n <= e.t
    BY <1>2, Before, LiveBag DEF Schedule!BagToSet
  <2>3. {firing[i] : i \in DOMAIN firing} = {} /\ {firing'[i] : i \in DOMAIN firing'} = {}
    BY <1>1
  <2>4. Schedule!EndFrame(n)
    BY <1>2, <1>3, <1>7, <2>1, <2>2, <2>3 DEF Schedule!EndFrame
  <2>5. n \in 1 .. tstates
    BY <1>2, <1>9, Before
  <2>6. \E m \in 1 .. tstates : Schedule!EndFrame(m)
    BY <2>4, <2>5 DEF Schedule!EndFrame
  <2> QED
    BY <2>6, Zenon DEF Schedule!Next
<1> QED
  BY <1>8, <1>9

StartUp == {TimerUp, FrameUp, SentinelUp}

\* A machine starts with events of StartUp, each at most once.
LEMMA StartsUp ==
  ASSUME NEW q \in Queue, \A f : f.type # "null" => Copies(q, f) = 0 \/ (f \in StartUp /\ Copies(q, f) = 1)
  PROVE  Schedule!\sqsubseteq(BagOf(q), Schedule!SetToBag({[t |-> 0, type |-> "timer"],
           [t |-> Frame, type |-> "frame"], [t |-> Sentinel, type |-> "sentinel"]}))
<1> DEFINE B == Schedule!SetToBag(StartUp)
<1>1. DOMAIN B = StartUp /\ \A e \in StartUp : B[e] = 1
  BY DEF Schedule!SetToBag
<1>2. DOMAIN BagOf(q) = Live(q) /\ \A e \in Live(q) : BagOf(q)[e] = 1 /\ e \in StartUp
  BY LiveBag
<1> HIDE DEF B
<1>3. Schedule!\sqsubseteq(BagOf(q), B)
  BY <1>1, <1>2 DEF Schedule!\sqsubseteq
<1>4. StartUp = {[t |-> 0, type |-> "timer"], [t |-> Frame, type |-> "frame"],
                 [t |-> Sentinel, type |-> "sentinel"]}
  BY DEF StartUp, TimerUp, FrameUp, SentinelUp
<1> QED
  BY <1>3, <1>4 DEF B

LEMMA UiImplements ==
  ASSUME LoopIInv, LoopIInv', UiNothing \/ UiStartPlayback \/ UiStopPlayback \/ UiMachineSelect
  PROVE  Schedule!Next
<1>1. /\ pc = "ui" /\ firing = <<>> /\ firing' = <<>>
      /\ {firing[i] : i \in DOMAIN firing} = {} /\ {firing'[i] : i \in DOMAIN firing'} = {}
  <2>1. FrameStarts
    BY DEF UiNothing, UiStartPlayback, UiStopPlayback, UiMachineSelect
  <2> QED
    BY <2>1, UiTurn
<1>2. CASE UiNothing
  BY <1>1, <1>2, Ticks DEF UiNothing
<1>3. ASSUME UiStartPlayback,
             queue' = event_add(event_remove_type(queue, "frame"), Sentinel, "sentinel")
      PROVE  Schedule!Next
  <2> DEFINE q == event_remove_type(queue, "frame")
  <2>1. /\ "frame" \in Type /\ "sentinel" \in Type \cup {"null"} /\ Sentinel \in Time
        /\ queue' = event_add(q, Sentinel, "sentinel")
    BY <1>3, Types, WordTyped
  <2>2. q \in Queue /\ Ordered(q)
    BY <2>1, Before, RemoveEffect
  <2>3. \A f : Copies(q, f) <= Copies(queue', f)
    <3> HIDE DEF q
    <3> QED
      BY <2>1, <2>2, AddsCopies
  <2> QED
    BY <1>1, <2>1, <2>3, Removes
<1>4. ASSUME UiStartPlayback,
             queue' = event_add(event_remove_type(SelectedQueue, "frame"), Sentinel, "sentinel")
      PROVE  Schedule!Next
  <2> DEFINE q == event_remove_type(SelectedQueue, "frame")
  <2>1. /\ "frame" \in Type /\ "sentinel" \in Type \cup {"null"} /\ Sentinel \in Time
        /\ SentinelUp = [t |-> Sentinel, type |-> "sentinel"]
        /\ SentinelUp.type = "sentinel" /\ SentinelUp \in Event
        /\ queue' = event_add(q, Sentinel, "sentinel")
    BY <1>4, Types, WordTyped DEF SentinelUp, Event
  <2>2. /\ q \in Queue /\ Ordered(q) /\ NumOf(q, "frame") = 0
        /\ \A f \in Event : f.type \notin {"frame", "null"} => Copies(q, f) = Copies(SelectedQueue, f)
    BY <2>1, Selected, RemoveEffect
  <2> HIDE DEF q
  <2>3. /\ Copies(queue', SentinelUp) = Copies(q, SentinelUp) + 1
        /\ \A f : f # SentinelUp => Copies(queue', f) = Copies(q, f)
    BY <2>1, <2>2, Adds
  <2>4. ASSUME NEW f, f.type # "null"
        PROVE  Copies(q, f) = 0 \/ (f \in {TimerUp, FrameUp} /\ Copies(q, f) = 1)
    <3>1. CASE f \notin Entries(q)
      BY <2>2, <3>1, NoCopies
    <3>2. CASE f \in Entries(q)
      <4>1. f \in Event /\ f.type \notin {"frame", "null"}
        BY <2>2, <2>4, <3>2, EntriesTyped, NoneOfType
      <4> QED
        BY <2>2, <4>1, Selected
    <3> QED
      BY <3>1, <3>2
  <2>5. Copies(q, SentinelUp) = 0
    <3>1. SentinelUp \notin {TimerUp, FrameUp}
      BY DEF SentinelUp, TimerUp, FrameUp
    <3> QED
      BY <2>1, <2>4, <3>1
  <2>6. \A f : f.type # "null" => Copies(queue', f) = 0 \/ (f \in StartUp /\ Copies(queue', f) = 1)
    BY <2>3, <2>4, <2>5 DEF StartUp
  <2>7. Schedule!Restart
    BY <1>1, <2>6, Before, StartsUp DEF Schedule!Restart
  <2> QED
    BY <2>7 DEF Schedule!Next
<1>5. CASE UiStopPlayback
  <2>1. PICK now \in AfterInterrupt : queue' = rzx_stop_playback(queue, now, TRUE).queue
    BY <1>5 DEF UiStopPlayback
  <2> DEFINE q == event_remove_type(queue, "sentinel")
  <2>2. /\ "sentinel" \in Type /\ "frame" \in Type \cup {"null"} /\ Frame \in Time
        /\ queue' = event_add(q, Frame, "frame")
    BY <2>1, Types, WordTyped DEF rzx_stop_playback
  <2>3. q \in Queue /\ Ordered(q)
    BY <2>2, Before, RemoveEffect
  <2>4. \A f : Copies(q, f) <= Copies(queue', f)
    <3> HIDE DEF q
    <3> QED
      BY <2>2, <2>3, AddsCopies
  <2> QED
    BY <1>1, <2>2, <2>4, Removes
<1>6. CASE UiMachineSelect
  <2>1. queue' = SelectedQueue
    BY <1>6 DEF UiMachineSelect
  <2>2. \A f : Copies(queue', f) = 0 \/ (f \in StartUp /\ Copies(queue', f) = 1)
    BY <2>1, Selected DEF StartUp
  <2>3. Schedule!Restart
    BY <1>1, <2>2, Before, StartsUp DEF Schedule!Restart
  <2> QED
    BY <2>3 DEF Schedule!Next
<1> QED
  BY <1>2, <1>3, <1>4, <1>5, <1>6 DEF UiStartPlayback

LEMMA FrameEndImplements ==
  ASSUME LoopIInv, LoopIInv', FrameEnd
  PROVE  Schedule!Next \/ UNCHANGED Schedule!scheduleVars
<1>1. CASE ForceEvent
  BY <1>1, Ticks DEF ForceEvent, LoopIInv, LoopTypeOK
<1>2. CASE ForceDone \/ NoPlayback
  BY <1>2 DEF ForceDone, NoPlayback, Schedule!scheduleVars
<1>3. CASE PlaybackFinished
  <2>1. /\ "sentinel" \in Type /\ firing' = <<>>
        /\ queue' = event_remove_type(queue, "sentinel")
    BY <1>3, Types DEF PlaybackFinished, rzx_stop_playback, LoopIInv, LoopTypeOK
  <2>2. \A f : Copies(event_remove_type(queue, "sentinel"), f) <= Copies(queue', f)
    BY <2>1, Before, CountsArePlaces
  <2> QED
    BY <2>1, <2>2, Removes
<1>4. CASE PlaybackContinues
  <2> DEFINE q == event_remove_type(queue, "sentinel")
             t == (Sentinel + tstates) % Word
  <2>1. /\ "sentinel" \in Type /\ "sentinel" \in Type \cup {"null"} /\ firing' = <<>>
        /\ queue' = event_add(q, t, "sentinel")
    BY <1>4, Types DEF PlaybackContinues, LoopIInv, LoopTypeOK
  <2>2. t \in Time
    BY Before, Clock, WordTyped
  <2>3. q \in Queue /\ Ordered(q)
    BY <2>1, Before, RemoveEffect
  <2>4. \A f : Copies(q, f) <= Copies(queue', f)
    <3> HIDE DEF q, t
    <3> QED
      BY <2>1, <2>2, <2>3, AddsCopies
  <2> QED
    BY <2>1, <2>4, Removes
<1>5. CASE SpectrumFrame
  BY <1>5, SpectrumFrameImplements
<1>6. CASE UiNothing \/ UiStartPlayback \/ UiStopPlayback \/ UiMachineSelect
  BY <1>6, UiImplements
<1> QED
  BY <1>1, <1>2, <1>3, <1>4, <1>5, <1>6 DEF FrameEnd

-----------------------------------------------------------------------------
(***************************************************************************)
(* The theorems.  Without a snapshot inside a recording (SnapInside), which *)
(* moves the clock away from a sentinel that was set against it.           *)
(***************************************************************************)

\* The list stays in the order of time with event_next_event at its head, and
\* nothing wraps round when spectrum_frame subtracts a frame.
THEOREM LoopTimeOrder ==
  ASSUME SnapInside = FALSE
  PROVE  Spec => []TimeOrder
<1>1. LoopIInv => TimeOrder
  <2> SUFFICES ASSUME LoopIInv PROVE TimeOrder
    OBVIOUS
  <2>1. pc = "frame" => /\ FrameLength <= tstates
                        /\ \A i \in DOMAIN queue.list : FrameLength <= queue.list[i].t
    BY DEF LoopIInv, Stages, Entries
  <2> QED
    BY <2>1 DEF LoopIInv, TimeOrder, Ordered
<1> QED
  BY <1>1, LoopInvariant, PTL

\* There is exactly one end of frame to come while instructions run, and none
\* when a recording makes the ends of frames (start_playback, rzx_stop_playback,
\* spectrum_frame, readport).
THEOREM LoopOneFrameComing ==
  ASSUME SnapInside = FALSE
  PROVE  Spec => []OneFrameComing
<1>1. LoopIInv => OneFrameComing
  BY DEF LoopIInv, FramesCounted, OneFrameComing, NumOf
<1> QED
  BY <1>1, LoopInvariant, PTL

\* The clock indexes the contention tables inside their bounds (rzx_sentinel).
THEOREM LoopClockInTables ==
  ASSUME SnapInside = FALSE
  PROVE  Spec => []ClockInTables
<1>1. LoopIInv => ClockInTables
  <2> SUFFICES ASSUME LoopIInv PROVE tstates < ContentionSize
    BY DEF ClockInTables
  <2>1. tstates < Limit /\ tstates \in Nat
    BY Here
  <2>2. Limit \in Nat /\ Limit <= ContentionSize /\ ContentionSize \in Nat
    BY Limits, LoopAssumption
  <2> QED
    BY <2>1, <2>2
<1> QED
  BY <1>1, LoopInvariant, PTL

\* A recording has its sentinel at its place, no later than RZX_SENTINEL_TIME
\* (start_playback, playback_frame, rzx_sentinel).
THEOREM LoopSentinelInReach ==
  ASSUME SnapInside = FALSE
  PROVE  Spec => []SentinelInReach
<1>1. LoopIInv => SentinelInReach
  <2> SUFFICES ASSUME LoopIInv, playback, pc = "z80"
               PROVE  \E i \in Pending(queue, "sentinel") : queue.list[i].t <= Sentinel
    BY DEF SentinelInReach
  <2>1. NumOf(queue, "sentinel") # 0
    BY DEF LoopIInv, LoopTypeOK, SentinelSet, Fires
  <2>2. PICK e \in Entries(queue) : e.type = "sentinel"
    BY <2>1, Here, NoneOfType
  <2>3. e.t = Sentinel /\ Sentinel <= Sentinel
    BY <2>2, WordTyped DEF LoopIInv, SentinelSet
  <2> QED
    BY <2>2, <2>3 DEF Entries, Pending
<1> QED
  BY <1>1, LoopInvariant, PTL

\* The sorted list with its lazy removal, its cached head and its sentinels is
\* an implementation of the bag of events of EventSchedule: a step of the loop
\* fires the earliest event, adds or removes some, ends a frame or starts a
\* machine, and does none of these otherwise.
THEOREM LoopImplementsSchedule ==
  ASSUME SnapInside = FALSE
  PROVE  Spec => ImplementsSchedule
<1>1. Init => Schedule!Init
  <2> SUFFICES ASSUME Init PROVE Schedule!Init
    OBVIOUS
  <2>1. queue = SelectedQueue /\ tstates = 0 /\ {firing[i] : i \in DOMAIN firing} = {}
    BY DEF Init
  <2>2. \A f : Copies(queue, f) = 0 \/ (f \in StartUp /\ Copies(queue, f) = 1)
    BY <2>1, Selected DEF StartUp
  <2>3. queue \in Queue
    BY <2>1, Selected
  <2> QED
    BY <2>1, <2>2, <2>3, StartsUp DEF Schedule!Init
<1>2. LoopIInv /\ LoopIInv' /\ [Next]_loopVars => [Schedule!Next]_Schedule!scheduleVars
  <2> SUFFICES ASSUME LoopIInv, LoopIInv', [Next]_loopVars
               PROVE  Schedule!Next \/ UNCHANGED Schedule!scheduleVars
    OBVIOUS
  <2>1. CASE UNCHANGED loopVars
    BY <2>1 DEF loopVars, Schedule!scheduleVars
  <2>2. CASE Next
    BY <2>2, Z80Implements, EventsImplements, FrameEndImplements DEF Next
  <2> QED
    BY <2>1, <2>2
<1>3. Spec => []LoopIInv
  BY LoopInvariant
<1> QED
  BY <1>1, <1>2, <1>3, PTL DEF Spec, ImplementsSchedule, Schedule!Spec
=============================================================================
