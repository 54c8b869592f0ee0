-------------------------- MODULE K8sEventsProofs --------------------------
(***************************************************************************)
(* Proofs about K8sEvents, for every list of events and every size of an   *)
(* answer.                                                                 *)
(***************************************************************************)
EXTENDS K8sEvents, FiniteSetTheorems, FunctionTheorems, TLAPS

Stamps == Stamp \cup {None}

LEMMA StampParts ==
  ASSUME NEW s \in Stamps, s # None
  PROVE  s.second \in Nat /\ (s.fraction # None => s.fraction \in Nat)
BY DEF Stamps, Stamp

\* The order of the texts puts every two stamps in one of three relations.
LEMMA TextOrder ==
  ASSUME NEW s \in Stamps, NEW t \in Stamps, NEW u \in Stamps
  PROVE  /\ ~TextBefore(s, s)
         /\ TextBefore(s, t) => ~TextBefore(t, s)
         /\ TextBefore(s, t) => TextBefore(s, u) \/ TextBefore(u, t)
<1>1. /\ s # None => s.second \in Nat /\ (s.fraction # None => s.fraction \in Nat)
      /\ t # None => t.second \in Nat /\ (t.fraction # None => t.fraction \in Nat)
      /\ u # None => u.second \in Nat /\ (u.fraction # None => u.fraction \in Nat)
  BY StampParts
<1> QED
  BY <1>1 DEF TextBefore

LEMMA TimesAreStamps ==
  ASSUME NEW i, items \in Seq(Events), i \in 1..Len(items)
  PROVE  Time(i) \in Stamps
<1>1. items[i] \in Event
  BY EventsAssumption
<1> QED
  BY <1>1 DEF Time, event_ts, Event, Stamps

\* The order of the positions after the stable sort.
SortedBefore(j, i) == TextBefore(Time(j), Time(i)) \/ (~TextBefore(Time(i), Time(j)) /\ j < i)
Before(i) == {j \in 1..Len(items) : SortedBefore(j, i)}

LEMMA SortIsTotal ==
  ASSUME items \in Seq(Events), NEW i \in 1..Len(items), NEW j \in 1..Len(items),
         NEW k \in 1..Len(items)
  PROVE  /\ ~SortedBefore(i, i)
         /\ i # j => SortedBefore(i, j) \/ SortedBefore(j, i)
         /\ SortedBefore(i, j) /\ SortedBefore(j, k) => SortedBefore(i, k)
<1>1. Time(i) \in Stamps /\ Time(j) \in Stamps /\ Time(k) \in Stamps
  BY TimesAreStamps
<1>2. Len(items) \in Nat /\ i \in Nat /\ j \in Nat /\ k \in Nat
  OBVIOUS
<1> DEFINE a == Time(i)
           b == Time(j)
           c == Time(k)
<1>3. a \in Stamps /\ b \in Stamps /\ c \in Stamps
  BY <1>1
<1> HIDE DEF a, b, c
<1>4. ~TextBefore(a, a) /\ (TextBefore(a, b) => ~TextBefore(b, a))
  BY <1>3, TextOrder
<1>5. /\ TextBefore(a, b) => TextBefore(a, c) \/ TextBefore(c, b)
      /\ TextBefore(b, c) => TextBefore(b, a) \/ TextBefore(a, c)
      /\ TextBefore(c, a) => TextBefore(c, b) \/ TextBefore(b, a)
      /\ TextBefore(b, c) => ~TextBefore(c, b)
      /\ TextBefore(a, c) => ~TextBefore(c, a)
  BY <1>3, TextOrder
<1>6. i < j /\ j < k => i < k
  BY <1>2
<1>7. ~(i < i) /\ (i # j => i < j \/ j < i)
  BY <1>2
<1>8. SortedBefore(i, i) <=> TextBefore(a, a) \/ (~TextBefore(a, a) /\ i < i)
  BY DEF SortedBefore, a
<1>9. /\ SortedBefore(i, j) <=> TextBefore(a, b) \/ (~TextBefore(b, a) /\ i < j)
      /\ SortedBefore(j, i) <=> TextBefore(b, a) \/ (~TextBefore(a, b) /\ j < i)
      /\ SortedBefore(j, k) <=> TextBefore(b, c) \/ (~TextBefore(c, b) /\ j < k)
      /\ SortedBefore(i, k) <=> TextBefore(a, c) \/ (~TextBefore(c, a) /\ i < k)
  BY DEF SortedBefore, a, b, c
<1> QED
  BY <1>4, <1>5, <1>6, <1>7, <1>8, <1>9

LEMMA PlaceCounts ==
  ASSUME items \in Seq(Events), NEW i \in 1..Len(items)
  PROVE  /\ Place(i) = 1 + Cardinality(Before(i)) /\ IsFiniteSet(Before(i))
         /\ Place(i) \in 1..Len(items)
<1>1. Len(items) \in Nat /\ DOMAIN items = 1..Len(items)
  OBVIOUS
<1>2. Place(i) = 1 + Cardinality(Before(i))
  BY <1>1 DEF Place, Before, SortedBefore, Time
<1>3. IsFiniteSet(1..Len(items)) /\ Cardinality(1..Len(items)) = Len(items)
  <2>1. /\ IsFiniteSet(1..Len(items))
        /\ Cardinality(1..Len(items)) = IF 1 > Len(items) THEN 0 ELSE Len(items) - 1 + 1
    BY <1>1, FS_Interval
  <2> QED
    BY <1>1, <2>1
<1> DEFINE D == 1..Len(items)
<1>4. Before(i) \subseteq D /\ i \in D /\ i \notin Before(i)
  BY SortIsTotal DEF Before
<1> HIDE DEF D
<1>5. IsFiniteSet(D) /\ Cardinality(D) = Len(items)
  BY <1>3 DEF D
<1>6. /\ IsFiniteSet(Before(i)) /\ Cardinality(Before(i)) <= Cardinality(D)
      /\ Cardinality(D) = Cardinality(Before(i)) => D = Before(i)
  BY <1>4, <1>5, FS_Subset
<1>7. Cardinality(Before(i)) \in Nat
  BY <1>6, FS_CardinalityType
<1>8. Cardinality(Before(i)) # Len(items)
  BY <1>4, <1>5, <1>6
<1>9. 1 + Cardinality(Before(i)) \in 1..Len(items)
  BY <1>1, <1>5, <1>6, <1>7, <1>8
<1> QED
  BY <1>2, <1>6, <1>9

LEMMA PlaceFollowsTheSort ==
  ASSUME items \in Seq(Events), NEW i \in 1..Len(items), NEW j \in 1..Len(items)
  PROVE  /\ SortedBefore(i, j) <=> Place(i) < Place(j)
         /\ Place(i) = Place(j) => i = j
<1>1. ASSUME NEW a \in 1..Len(items), NEW b \in 1..Len(items), SortedBefore(a, b)
      PROVE  Place(a) < Place(b)
  <2>1. /\ Place(a) = 1 + Cardinality(Before(a)) /\ IsFiniteSet(Before(a))
        /\ Place(b) = 1 + Cardinality(Before(b)) /\ IsFiniteSet(Before(b))
    BY PlaceCounts
  <2>2. Before(a) \subseteq Before(b) /\ a \in Before(b) /\ a \notin Before(a)
    BY <1>1, SortIsTotal DEF Before
  <2>3. /\ Cardinality(Before(a)) <= Cardinality(Before(b))
        /\ Cardinality(Before(b)) = Cardinality(Before(a)) => Before(b) = Before(a)
    BY <2>1, <2>2, FS_Subset
  <2>4. Cardinality(Before(a)) \in Nat /\ Cardinality(Before(b)) \in Nat
    BY <2>1, FS_CardinalityType
  <2>5. Cardinality(Before(a)) # Cardinality(Before(b))
    BY <2>2, <2>3
  <2> QED
    BY <2>1, <2>3, <2>4, <2>5
<1>2. Place(i) \in Int /\ Place(j) \in Int
  BY PlaceCounts
<1>3. SortedBefore(i, j) => Place(i) < Place(j)
  BY <1>1
<1>4. SortedBefore(j, i) => Place(j) < Place(i)
  BY <1>1
<1>5. i # j => SortedBefore(i, j) \/ SortedBefore(j, i)
  BY SortIsTotal
<1>6. ~SortedBefore(i, i)
  BY SortIsTotal
<1> QED
  BY <1>2, <1>3, <1>4, <1>5, <1>6

\* Every place is taken: the sort loses no event and repeats none.
LEMMA EveryPlaceIsTaken ==
  ASSUME items \in Seq(Events), NEW k \in 1..Len(items)
  PROVE  \E i \in DOMAIN items : Place(i) = k
<1> DEFINE D == 1..Len(items)
           f == [i \in D |-> Place(i)]
<1>1. DOMAIN items = D /\ Len(items) \in Nat /\ k \in D
  OBVIOUS
<1>2. IsFiniteSet(D)
  BY <1>1, FS_Interval
<1>3. f \in [D -> D]
  BY PlaceCounts
<1>4. ASSUME NEW a \in D, NEW b \in D, f[a] = f[b] PROVE a = b
  BY <1>4, PlaceFollowsTheSort
<1>5. \A i \in D : f[i] = Place(i)
  OBVIOUS
<1> HIDE DEF D, f
<1>6. f \in Injection(D, D)
  BY <1>3, <1>4, Fun_IsInj
<1>7. f \in Surjection(D, D)
  BY <1>2, <1>6, FS_Injection
<1>8. \E i \in D : f[i] = k
  BY <1>1, <1>7 DEF Surjection
<1> QED
  BY <1>1, <1>5, <1>8

----------------------------------------------------------------------------
\* The answer in the order of the texts: what the code does, whatever the stamps.
InTextOrder(r) ==
  /\ \A k, m \in DOMAIN r : k < m => ~TextBefore(Time(r[k]), Time(r[m]))
  /\ \A i \in DOMAIN items \ Range(r) :
       \A k \in DOMAIN r : ~TextBefore(Time(r[k]), Time(i))

LEMMA SelectedIsTheEnd ==
  ASSUME items \in Seq(Events), NEW n \in 0..Len(items)
  PROVE  /\ Selected(n) \in Seq(DOMAIN items) /\ Len(Selected(n)) = n
         /\ IsInjective(Selected(n)) /\ InTextOrder(Selected(n))
<1> DEFINE r == Selected(n)
           L == Len(items)
<1>1. L \in Nat /\ n \in Nat /\ n <= L /\ DOMAIN items = 1..L
  OBVIOUS
<1>2. r = [k \in 1..n |-> CHOOSE i \in DOMAIN items : Place(i) = L + 1 - k]
  BY DEF Selected
<1> HIDE DEF r, L
<1>3. ASSUME NEW k \in 1..n PROVE r[k] \in 1..L /\ Place(r[k]) = L + 1 - k
  <2>1. L + 1 - k \in 1..L
    BY <1>1
  <2>2. \E i \in DOMAIN items : Place(i) = L + 1 - k
    BY <2>1, EveryPlaceIsTaken DEF L
  <2>3. r[k] = CHOOSE i \in DOMAIN items : Place(i) = L + 1 - k
    BY <1>2
  <2> QED
    BY <1>1, <2>2, <2>3
<1>4. r \in [1..n -> 1..L] /\ DOMAIN r = 1..n /\ r \in Seq(DOMAIN items) /\ Len(r) = n
  <2>1. r \in [1..n -> 1..L]
    BY <1>2, <1>3
  <2> QED
    BY <1>1, <2>1
<1>5. IsInjective(r)
  <2> SUFFICES ASSUME NEW a \in 1..n, NEW b \in 1..n, r[a] = r[b] PROVE a = b
    BY <1>4 DEF IsInjective
  <2>1. L + 1 - a = L + 1 - b
    BY <1>3
  <2> QED
    BY <1>1, <2>1
<1>6. ASSUME NEW i \in 1..L, NEW j \in 1..L, ~(Place(j) < Place(i)), i # j
      PROVE  ~TextBefore(Time(j), Time(i))
  <2>1. ~SortedBefore(j, i)
    BY <1>6, PlaceFollowsTheSort DEF L
  <2> QED
    BY <2>1 DEF SortedBefore
<1>7. ASSUME NEW k \in 1..n, NEW m \in 1..n, k < m PROVE ~TextBefore(Time(r[k]), Time(r[m]))
  <2>1. Place(r[k]) = L + 1 - k /\ Place(r[m]) = L + 1 - m /\ r[k] \in 1..L /\ r[m] \in 1..L
    BY <1>3
  <2>2. ~(L + 1 - k < L + 1 - m) /\ L + 1 - k # L + 1 - m
    BY <1>1, <1>7
  <2> QED
    BY <1>6, <2>1, <2>2
<1>8. ASSUME NEW i \in 1..L, i \notin Range(r), NEW k \in 1..n
      PROVE  ~TextBefore(Time(r[k]), Time(i))
  <2>1. Place(i) \in 1..L
    BY PlaceCounts DEF L
  <2>2. \A m \in 1..n : r[m] # i
    BY <1>4, <1>8 DEF Range
  <2>3. ~(L + 1 - Place(i) \in 1..n)
    <3>1. ASSUME L + 1 - Place(i) \in 1..n PROVE FALSE
      <4> DEFINE m == L + 1 - Place(i)
      <4>1. m \in 1..n /\ L + 1 - m = Place(i)
        BY <1>1, <2>1, <3>1
      <4> HIDE DEF m
      <4>2. r[m] \in 1..L /\ Place(r[m]) = Place(i)
        BY <1>3, <4>1
      <4>3. r[m] = i
        BY <4>2, PlaceFollowsTheSort DEF L
      <4> QED
        BY <2>2, <4>1, <4>3
    <3> QED
      BY <3>1
  <2>4. Place(r[k]) = L + 1 - k /\ r[k] \in 1..L
    BY <1>3
  <2>5. ~(L + 1 - k < Place(i))
    BY <1>1, <2>1, <2>3
  <2> QED
    BY <1>6, <2>2, <2>4, <2>5
<1>9. InTextOrder(r)
  BY <1>1, <1>4, <1>7, <1>8 DEF InTextOrder
<1> QED
  BY <1>4, <1>5, <1>9 DEF r

----------------------------------------------------------------------------
(***************************************************************************)
(* The inductive invariant: an answer is what the call makes of the list.  *)
(***************************************************************************)
Wanted == IF last = 0 THEN DefaultLast ELSE last
Reported == IF Wanted < Len(items) THEN Wanted ELSE Len(items)

AnswerInv ==
  /\ items \in Seq(Events) /\ last \in Nat
  /\ recent # None =>
       /\ recent = Selected(Reported)
       /\ sent = cap_output(recent)

LEMMA AnswerInvariant == Spec => []AnswerInv
<1>1. Init => AnswerInv
  <2> SUFFICES ASSUME Init PROVE AnswerInv
    OBVIOUS
  <2>1. PICK n \in 0..MaxEvents : items \in [1..n -> Events]
    BY DEF Init
  <2>2. items \in Seq(Events)
    <3>1. n \in Nat
      BY EventsAssumption
    <3> QED
      BY <2>1, <3>1
  <2> QED
    BY <2>2, EventsAssumption DEF Init, AnswerInv
<1>2. AnswerInv /\ [Next]_vars => AnswerInv'
  <2> SUFFICES ASSUME AnswerInv, [Next]_vars PROVE AnswerInv'
    OBVIOUS
  <2>1. CASE events
    <3>1. /\ UNCHANGED <<items, last>> /\ recent' = Selected(Reported)
          /\ sent' = cap_output(recent')
      BY <2>1 DEF events, Reported, Wanted
    <3>2. Selected(Reported)' = Selected(Reported)
      BY <3>1 DEF Selected, Place, Reported, Wanted
    <3>3. cap_output(recent') = cap_output(recent)'
      BY <3>1 DEF cap_output, Bytes
    <3> QED
      BY <3>1, <3>2, <3>3 DEF AnswerInv
  <2>2. CASE UNCHANGED vars
    <3>1. Selected(Reported)' = Selected(Reported)
      BY <2>2 DEF Selected, Place, Reported, Wanted, vars
    <3>2. cap_output(recent)' = cap_output(recent)
      BY <2>2 DEF cap_output, Bytes, vars
    <3> QED
      BY <2>2, <3>1, <3>2 DEF AnswerInv, vars
  <2> QED
    BY <2>1, <2>2 DEF Next, Returned
<1> QED
  BY <1>1, <1>2, PTL DEF Spec

LEMMA ReportedIsInRange ==
  ASSUME AnswerInv
  PROVE  /\ Reported \in 0..Len(items) /\ Wanted \in Nat /\ Len(items) \in Nat
         /\ Reported = IF last = 0 THEN Min({DefaultLast, Len(items)}) ELSE Min({last, Len(items)})
<1>1. Wanted \in Nat /\ Len(items) \in Nat /\ DefaultLast \in Nat /\ last \in Nat
  BY EventsAssumption DEF AnswerInv, Wanted
<1>2. ASSUME NEW a \in Nat, NEW b \in Nat PROVE Min({a, b}) = IF a < b THEN a ELSE b
  BY DEF Min
<1>3. Reported \in 0..Len(items)
  BY <1>1 DEF Reported
<1>4. Reported = Min({Wanted, Len(items)})
  BY <1>1, <1>2 DEF Reported
<1> QED
  BY <1>1, <1>3, <1>4 DEF Wanted

\* Whatever the stamps are: the answer holds as many events as were asked for, or
\* all of them, each once; it follows the order of the texts from the end; and no
\* event left out has a text greater than a reported one.
AnsweredInTextOrder ==
  recent # None =>
    /\ recent \in Seq(DOMAIN items) /\ IsInjective(recent) /\ Len(recent) = Reported
    /\ InTextOrder(recent)

THEOREM TheEndOfTheTexts == Spec => []AnsweredInTextOrder
<1>1. AnswerInv => AnsweredInTextOrder
  <2> SUFFICES ASSUME AnswerInv, recent # None
               PROVE  /\ recent \in Seq(DOMAIN items) /\ IsInjective(recent)
                      /\ Len(recent) = Reported /\ InTextOrder(recent)
    BY DEF AnsweredInTextOrder
  <2>1. recent = Selected(Reported) /\ items \in Seq(Events) /\ Reported \in 0..Len(items)
    BY ReportedIsInRange DEF AnswerInv
  <2> QED
    BY <2>1, SelectedIsTheEnd
<1> QED
  BY <1>1, AnswerInvariant, PTL

\* No two events of one second have stamps of different forms.
UniformSeconds ==
  \A e, f \in Events :
    LET s == event_ts(e)
        t == event_ts(f)
    IN  s # None /\ t # None /\ s.second = t.second => (s.fraction = None <=> t.fraction = None)

\* The comment on the sort is right where it can be ("RFC3339 timestamps sort
\* lexicographically == chronologically"): unless one second has stamps of both
\* forms, the answer is the most recent events, newest first.
THEOREM MostRecentIfUniform ==
  ASSUME UniformSeconds
  PROVE  Spec => []MostRecentFirst
<1>1. AnswerInv /\ AnsweredInTextOrder => MostRecentFirst
  <2> SUFFICES ASSUME AnswerInv, AnsweredInTextOrder, recent # None
               PROVE  MostRecentFirst
    BY DEF MostRecentFirst
  <2>1. /\ recent \in Seq(DOMAIN items) /\ IsInjective(recent) /\ Len(recent) = Reported
        /\ InTextOrder(recent) /\ items \in Seq(Events) /\ DOMAIN items = 1..Len(items)
    BY DEF AnsweredInTextOrder, AnswerInv
  <2>2. ASSUME NEW i \in DOMAIN items, NEW j \in DOMAIN items, ~TextBefore(Time(i), Time(j))
        PROVE  ~OlderThan(Time(i), Time(j))
    <3> DEFINE s == Time(i)
               t == Time(j)
    <3>1. s \in Stamps /\ t \in Stamps
      BY <2>1, TimesAreStamps
    <3>2. s # None /\ t # None /\ s.second = t.second => (s.fraction = None <=> t.fraction = None)
      <4>1. items[i] \in Events /\ items[j] \in Events
        BY <2>1
      <4> QED
        BY <4>1 DEF UniformSeconds, Time
    <3> HIDE DEF s, t
    <3>3. /\ s # None => s.second \in Nat /\ (s.fraction # None => s.fraction \in Nat)
          /\ t # None => t.second \in Nat /\ (t.fraction # None => t.fraction \in Nat)
      BY <3>1, StampParts
    <3>4. ~TextBefore(s, t)
      BY <2>2 DEF s, t
    <3>5. ~OlderThan(s, t)
      BY <3>2, <3>3, <3>4 DEF TextBefore, OlderThan
    <3> QED
      BY <3>5 DEF s, t
  <2>3. DOMAIN recent = 1..Len(recent) /\ \A k \in DOMAIN recent : recent[k] \in DOMAIN items
    BY <2>1
  <2>4. Range(recent) \subseteq DOMAIN items
    BY <2>3 DEF Range
  <2>5. \A k, m \in DOMAIN recent : k < m => ~OlderThan(Time(recent[k]), Time(recent[m]))
    BY <2>1, <2>2, <2>3 DEF InTextOrder
  <2>6. \A i \in DOMAIN items \ Range(recent) :
          \A k \in DOMAIN recent : ~OlderThan(Time(recent[k]), Time(i))
    BY <2>1, <2>2, <2>3 DEF InTextOrder
  <2>7. Len(recent) = IF last = 0 THEN Min({DefaultLast, Len(items)})
                      ELSE Min({last, Len(items)})
    BY <2>1, ReportedIsInRange
  <2> QED
    BY <2>1, <2>4, <2>5, <2>6, <2>7 DEF MostRecentFirst
<1> QED
  BY <1>1, AnswerInvariant, TheEndOfTheTexts, PTL

----------------------------------------------------------------------------
\* A text has between one and four bytes for each of its characters.
LEMMA Weight ==
  ASSUME items \in Seq(Events), NEW text \in Seq(DOMAIN items)
  PROVE  /\ Bytes(text) \in Nat
         /\ Len(text) <= Bytes(text) /\ Bytes(text) <= 4 * Len(text)
<1> DEFINE n == Len(text)
           B == {p \in (DOMAIN text) \X (1..4) : p[2] <= items[text[p[1]]].width}
           F == (1..n) \X {1}
           A == (1..n) \X (1..4)
<1>1. n \in Nat /\ DOMAIN text = 1..n
  OBVIOUS
<1>2. ASSUME NEW k \in 1..n PROVE items[text[k]].width \in 1..4
  <2>1. items[text[k]] \in Event
    BY <1>1, EventsAssumption
  <2> QED
    BY <2>1 DEF Event
<1>3. F \subseteq B /\ B \subseteq A
  <2>1. B \subseteq A
    BY <1>1
  <2>2. ASSUME NEW p \in F PROVE p \in B
    <3>1. p[1] \in 1..n /\ p[2] = 1 /\ p \in (1..n) \X (1..4)
      OBVIOUS
    <3>2. items[text[p[1]]].width \in 1..4
      BY <1>2, <3>1
    <3>3. p[2] <= items[text[p[1]]].width
      BY <3>1, <3>2
    <3> QED
      BY <1>1, <3>1, <3>3
  <2> QED
    BY <2>1, <2>2
<1> HIDE DEF n
<1>4. IsFiniteSet(1..n) /\ Cardinality(1..n) = n
  <2>1. IsFiniteSet(1..n) /\ Cardinality(1..n) = IF 1 > n THEN 0 ELSE n - 1 + 1
    BY <1>1, FS_Interval
  <2> QED
    BY <1>1, <2>1
<1>5. IsFiniteSet(1..4) /\ Cardinality(1..4) = 4
  <2>1. 1 \in Int /\ 4 \in Int
    OBVIOUS
  <2>2. IsFiniteSet(1..4) /\ Cardinality(1..4) = IF 1 > 4 THEN 0 ELSE 4 - 1 + 1
    BY <2>1, FS_Interval, ZenonT(30)
  <2> QED
    BY <2>2
<1>6. IsFiniteSet({1}) /\ Cardinality({1}) = 1
  BY FS_Singleton
<1>7. IsFiniteSet(A) /\ Cardinality(A) = Cardinality(1..n) * Cardinality(1..4)
  BY <1>4, <1>5, FS_Product
<1>8. Cardinality(F) = Cardinality(1..n) * Cardinality({1})
  BY <1>4, <1>6, FS_Product
<1>9. n * 4 = 4 * n /\ n * 1 = n
  BY <1>1
<1> HIDE DEF A, B, F
<1>10. IsFiniteSet(B) /\ Cardinality(B) <= Cardinality(A)
  BY <1>3, <1>7, FS_Subset
<1>11. Cardinality(F) <= Cardinality(B)
  BY <1>3, <1>10, FS_Subset
<1>12. Cardinality(B) \in Nat
  BY <1>10, FS_CardinalityType
<1>13. Cardinality(A) = 4 * n /\ Cardinality(F) = n
  BY <1>4, <1>5, <1>6, <1>7, <1>8, <1>9
<1>14. Bytes(text) = Cardinality(B)
  BY DEF Bytes, B
<1> QED
  BY <1>10, <1>11, <1>12, <1>13, <1>14 DEF n

\* The size is taken in bytes and the preview cut in characters: it begins as the
\* whole answer does, and weighs at least the limit and at most four times the limit.
\* It takes the place of a larger answer only; any other answer is whole and fits.
CutToSize ==
  recent # None =>
    /\ sent.shown \in Seq(DOMAIN items) /\ Len(sent.shown) <= Len(recent)
    /\ \A k \in 1..Len(sent.shown) : sent.shown[k] = recent[k]
    /\ ~sent.truncated => sent.shown = recent /\ Bytes(sent.shown) <= MAX_OUTPUT
    /\ sent.truncated =>
         /\ Bytes(recent) > MAX_OUTPUT /\ Len(sent.shown) <= MAX_OUTPUT
         /\ MAX_OUTPUT <= Bytes(sent.shown) /\ Bytes(sent.shown) <= 4 * MAX_OUTPUT

THEOREM AnswersAreCutToSize == Spec => []CutToSize
<1>1. AnswerInv /\ AnsweredInTextOrder => CutToSize
  <2> SUFFICES ASSUME AnswerInv, AnsweredInTextOrder, recent # None
               PROVE  CutToSize
    BY DEF CutToSize
  <2> DEFINE n == IF Len(recent) < MAX_OUTPUT THEN Len(recent) ELSE MAX_OUTPUT
             cut == SubSeq(recent, 1, n)
  <2>1. recent \in Seq(DOMAIN items) /\ sent = cap_output(recent) /\ items \in Seq(Events)
    BY DEF AnswerInv, AnsweredInTextOrder
  <2>2. MAX_OUTPUT \in Nat /\ Len(recent) \in Nat
    BY <2>1, EventsAssumption
  <2>3. Bytes(recent) \in Nat
    BY <2>1, Weight
  <2>4. CASE Bytes(recent) > MAX_OUTPUT
    <3>1. sent = [truncated |-> TRUE, shown |-> cut]
      BY <2>1, <2>4 DEF cap_output
    <3>2. n \in Nat /\ n <= MAX_OUTPUT /\ n <= Len(recent)
          /\ (n # MAX_OUTPUT => n = Len(recent))
      BY <2>2
    <3> HIDE DEF n
    <3>3. /\ cut \in Seq(DOMAIN items) /\ Len(cut) = n
          /\ \A k \in 1..n : cut[k] = recent[k]
      BY <2>1, <2>2, <3>2
    <3>4. n = Len(recent) => cut = recent
      BY <2>1, <2>2
    <3> HIDE DEF cut
    <3>5. Bytes(cut) \in Nat /\ n <= Bytes(cut) /\ Bytes(cut) <= 4 * n
      BY <2>1, <3>3, Weight
    <3>6. MAX_OUTPUT <= Bytes(cut)
      <4>1. CASE n = MAX_OUTPUT
        BY <3>5, <4>1
      <4>2. CASE n # MAX_OUTPUT
        <5>1. cut = recent
          BY <3>2, <3>4, <4>2
        <5> QED
          BY <2>2, <2>3, <2>4, <5>1
      <4> QED
        BY <4>1, <4>2
    <3>7. Bytes(cut) <= 4 * MAX_OUTPUT
      BY <2>2, <3>2, <3>5
    <3>8. sent.truncated = TRUE /\ sent.shown = cut
      BY <3>1
    <3> QED
      BY <2>4, <3>2, <3>3, <3>6, <3>7, <3>8 DEF CutToSize
  <2>5. CASE ~(Bytes(recent) > MAX_OUTPUT)
    <3>1. sent.truncated = FALSE /\ sent.shown = recent
      BY <2>1, <2>5 DEF cap_output
    <3>2. Bytes(recent) <= MAX_OUTPUT
      BY <2>2, <2>3, <2>5
    <3> QED
      BY <2>1, <2>2, <3>1, <3>2 DEF CutToSize
  <2> QED
    BY <2>4, <2>5
<1> QED
  BY <1>1, AnswerInvariant, TheEndOfTheTexts, PTL

\* Unless one second has stamps of both forms, the two cuts together lose the
\* oldest events: the one to `last` drops what is no newer than the selection, and
\* the one to the size drops the end of the selection, which is newest first.
THEOREM CutsLoseTheOldestIfUniform ==
  ASSUME UniformSeconds
  PROVE  Spec => []CutsLoseTheOldest
<1>1. AnsweredInTextOrder /\ MostRecentFirst /\ CutToSize => CutsLoseTheOldest
  <2> SUFFICES ASSUME AnsweredInTextOrder, MostRecentFirst, CutToSize, recent # None
               PROVE  CutsLoseTheOldest
    BY DEF CutsLoseTheOldest
  <2> DEFINE shown == sent.shown
  <2>1. /\ recent \in Seq(DOMAIN items) /\ shown \in Seq(DOMAIN items)
        /\ Len(shown) <= Len(recent) /\ \A k \in 1..Len(shown) : shown[k] = recent[k]
    BY DEF AnsweredInTextOrder, CutToSize
  <2> HIDE DEF shown
  <2>2. /\ DOMAIN recent = 1..Len(recent) /\ DOMAIN shown = 1..Len(shown)
        /\ Len(recent) \in Nat /\ Len(shown) \in Nat
    BY <2>1
  <2>3. ASSUME NEW i \in DOMAIN items \ Range(shown), NEW k \in DOMAIN shown
        PROVE  ~OlderThan(Time(shown[k]), Time(i))
    <3>1. k \in DOMAIN recent /\ shown[k] = recent[k]
      BY <2>1, <2>2
    <3>2. CASE i \in Range(recent)
      <4>1. PICK m \in DOMAIN recent : i = recent[m]
        BY <3>2 DEF Range
      <4>2. ~(m \in 1..Len(shown))
        BY <2>1, <2>2, <2>3, <4>1 DEF Range
      <4>3. k < m
        BY <2>2, <4>2
      <4> QED
        BY <3>1, <4>1, <4>3 DEF MostRecentFirst
    <3>3. CASE i \notin Range(recent)
      BY <2>3, <3>1, <3>3 DEF MostRecentFirst
    <3> QED
      BY <3>2, <3>3
  <2>4. ~sent.truncated =>
          /\ Len(shown) = IF last = 0 THEN Min({DefaultLast, Len(items)})
                          ELSE Min({last, Len(items)})
          /\ Bytes(shown) <= MAX_OUTPUT
    BY DEF CutToSize, MostRecentFirst, shown
  <2>5. sent.truncated => MAX_OUTPUT <= Bytes(shown) /\ Bytes(shown) <= 4 * MAX_OUTPUT
    BY DEF CutToSize, shown
  <2> QED
    BY <2>3, <2>4, <2>5 DEF CutsLoseTheOldest, shown
<1> QED
  BY <1>1, AnswersAreCutToSize, TheEndOfTheTexts, MostRecentIfUniform, PTL
=============================================================================
