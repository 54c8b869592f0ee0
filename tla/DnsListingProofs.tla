-------------------------- MODULE DnsListingProofs --------------------------
(***************************************************************************)
(* Proofs about DnsListing, for every zone, every size of a page and any   *)
(* number of changes between any two requests.                             *)
(***************************************************************************)
EXTENDS DnsListing, FiniteSetTheorems, SequenceTheorems, TLAPS

(***************************************************************************)
(* How a list divides into pages.                                          *)
(***************************************************************************)
LEMMA Division ==
  ASSUME NEW a \in Nat, NEW p \in Nat \ {0}
  PROVE  /\ a \div p \in Nat
         /\ (a \div p) * p <= a
         /\ a < (a \div p) * p + p
OBVIOUS

LEMMA Multiples ==
  ASSUME NEW m \in Nat, NEW q \in Nat, NEW p \in Nat
  PROVE  /\ m * p \in Nat
         /\ (m + 1) * p = m * p + p
         /\ m <= q => m * p <= q * p
OBVIOUS

\* The last page is the first one that reaches the end of the list.
LEMMA PagesReachTheEnd ==
  ASSUME NEW S, NEW s \in Seq(S), NEW p \in Nat \ {0}, NEW n \in Nat
  PROVE  /\ PagesOf(s, p) \in Nat
         /\ PagesOf(s, p) <= n <=> Len(s) <= n * p
<1> DEFINE q == PagesOf(s, p)
           a == Len(s) + p - 1
<1>1. Len(s) \in Nat /\ a \in Nat
  OBVIOUS
<1>2. q = a \div p
  BY DEF PagesOf
<1>3. q \in Nat /\ q * p <= a /\ a < q * p + p
  <2> HIDE DEF a, q
  <2> QED
    BY <1>1, <1>2, Division
<1>4. n * p \in Nat /\ q * p \in Nat
  <2> HIDE DEF a, q
  <2> QED
    BY <1>3, Multiples
<1>5. q <= n => q * p <= n * p
  <2> HIDE DEF a, q
  <2> QED
    BY <1>3, Multiples
<1>6. ~(q <= n) => n * p + p <= q * p
  <2> HIDE DEF a, q
  <2>1. ~(q <= n) => n + 1 <= q
    BY <1>3
  <2>2. (n + 1) * p = n * p + p /\ (n + 1 <= q => (n + 1) * p <= q * p)
    BY <1>3, Multiples
  <2> QED
    BY <2>1, <2>2
<1>7. a = Len(s) + p - 1
  OBVIOUS
<1> HIDE DEF a, q
<1>8. q <= n <=> Len(s) <= n * p
  <2> DEFINE qp == q * p
             np == n * p
  <2>1. qp \in Nat /\ np \in Nat /\ qp <= a /\ a < qp + p
    BY <1>3, <1>4
  <2>2. (q <= n => qp <= np) /\ (~(q <= n) => np + p <= qp)
    BY <1>5, <1>6
  <2> HIDE DEF qp, np
  <2>3. q <= n <=> Len(s) <= np
    BY <1>1, <1>7, <2>1, <2>2
  <2> QED
    BY <2>3 DEF np
<1> QED
  BY <1>3, <1>8 DEF q

\* r is what lies in s beyond position lo and up to position hi, in order.
Page(r, s, lo, hi, size, S) ==
  /\ lo \in Nat /\ hi = lo + size /\ r \in Seq(S)
  /\ \A k \in 1..Len(r) : lo + k \in 1..Len(s) /\ lo + k <= hi /\ r[k] = s[lo + k]
  /\ \A k \in 1..Len(s) : lo < k /\ k <= hi => k - lo \in 1..Len(r) /\ r[k - lo] = s[k]
  /\ IF Len(s) <= lo THEN r = <<>>
     ELSE r = SubSeq(s, lo + 1, IF hi <= Len(s) THEN hi ELSE Len(s))

\* Page n of a list is what lies beyond the pages before it.
LEMMA PageContents ==
  ASSUME NEW S, NEW s \in Seq(S), NEW p \in Nat \ {0}, NEW n \in Nat \ {0},
         NEW F0, F0 = (n - 1) * p, NEW F1, F1 = n * p, NEW r, r = PageOf(s, n, p)
  PROVE  Page(r, s, F0, F1, p, S)
<1> USE DEF Page
<1> DEFINE hi == IF F1 <= Len(s) THEN F1 ELSE Len(s)
<1>1. F0 \in Nat /\ F1 = F0 + p
  <2>1. n - 1 \in Nat /\ n = (n - 1) + 1
    OBVIOUS
  <2> QED
    BY <2>1, Multiples
<1>2. Len(s) \in Nat /\ hi \in Int /\ hi <= Len(s) /\ hi <= F1 /\ (hi = F1 \/ hi = Len(s))
  BY <1>1
<1>3. r = SubSeq(s, F0 + 1, hi)
  BY DEF PageOf
<1> HIDE DEF hi
<1>4. CASE hi <= F0
  <2>1. r = <<>>
    BY <1>1, <1>2, <1>3, <1>4, SubSeqEmpty
  <2>2. Len(s) <= F0
    BY <1>1, <1>2, <1>4
  <2>3. r \in Seq(S) /\ Len(r) = 0
    BY <2>1
  <2> QED
    BY <1>1, <1>2, <2>1, <2>2, <2>3
<1>5. CASE F0 < hi
  <2>1. F0 + 1 \in 1..(Len(s) + 1) /\ hi \in F0..Len(s)
    BY <1>1, <1>2, <1>5
  <2>2. /\ r \in Seq(S) /\ Len(r) = hi - F0
        /\ \A k \in 1..(hi - F0) : r[k] = s[F0 + k]
    <3>1. /\ SubSeq(s, F0 + 1, hi) \in Seq(S)
          /\ Len(SubSeq(s, F0 + 1, hi)) = IF F0 + 1 <= hi THEN hi - (F0 + 1) + 1 ELSE 0
          /\ \A k \in 1..(hi - (F0 + 1) + 1) : SubSeq(s, F0 + 1, hi)[k] = s[F0 + 1 + k - 1]
      BY <1>1, <1>2, <1>5, <2>1, SubSeqProperties
    <3>2. hi - (F0 + 1) + 1 = hi - F0 /\ F0 + 1 <= hi
      BY <1>1, <1>2, <1>5
    <3>3. \A k \in Int : F0 + 1 + k - 1 = F0 + k
      BY <1>1
    <3>4. r \in Seq(S) /\ Len(r) = hi - F0
      BY <1>3, <3>1, <3>2
    <3>5. ASSUME NEW k \in 1..(hi - F0) PROVE r[k] = s[F0 + k]
      <4>1. k \in 1..(hi - (F0 + 1) + 1) /\ F0 + 1 + k - 1 = F0 + k
        BY <3>2, <3>3
      <4>2. SubSeq(s, F0 + 1, hi)[k] = s[F0 + 1 + k - 1]
        BY <3>1, <4>1
      <4> QED
        BY <1>3, <4>1, <4>2
    <3> QED
      BY <3>4, <3>5
  <2>3. \A k \in 1..Len(r) : F0 + k \in 1..Len(s) /\ F0 + k <= F1 /\ r[k] = s[F0 + k]
    <3> SUFFICES ASSUME NEW k \in 1..(hi - F0)
                 PROVE  F0 + k \in 1..Len(s) /\ F0 + k <= F1 /\ r[k] = s[F0 + k]
      BY <2>2
    <3>1. F0 + k \in 1..Len(s) /\ F0 + k <= F1
      BY <1>1, <1>2, <1>5
    <3> QED
      BY <2>2, <3>1
  <2>4. \A k \in 1..Len(s) : F0 < k /\ k <= F1 => k - F0 \in 1..Len(r) /\ r[k - F0] = s[k]
    <3> SUFFICES ASSUME NEW k \in 1..Len(s), F0 < k, k <= F1
                 PROVE  k - F0 \in 1..(hi - F0) /\ r[k - F0] = s[k]
      BY <2>2
    <3>1. k - F0 \in 1..(hi - F0) /\ F0 + (k - F0) = k
      BY <1>1, <1>2
    <3> QED
      BY <2>2, <3>1
  <2>5. ~(Len(s) <= F0)
    BY <1>1, <1>2, <1>5
  <2> QED
    BY <1>1, <1>3, <2>2, <2>3, <2>4, <2>5 DEF hi
<1>6. hi <= F0 \/ F0 < hi
  BY <1>1, <1>2
<1> QED
  BY <1>4, <1>5, <1>6

(***************************************************************************)
(* What a change does to the positions of the others.                      *)
(***************************************************************************)
LEMMA Joined ==
  ASSUME NEW S, NEW a \in Seq(S), NEW b \in Seq(S), NEW t, t = a \o b
  PROVE  /\ t \in Seq(S) /\ Len(t) = Len(a) + Len(b)
         /\ \A k \in 1..(Len(a) + Len(b)) : t[k] = IF k <= Len(a) THEN a[k] ELSE b[k - Len(a)]
<1>1. /\ a \o b \in Seq(S) /\ Len(a \o b) = Len(a) + Len(b)
      /\ \A k \in 1..(Len(a) + Len(b)) : (a \o b)[k] = IF k <= Len(a) THEN a[k] ELSE b[k - Len(a)]
  BY ConcatProperties
<1> QED
  BY <1>1

LEMMA InsertAtProperties ==
  ASSUME NEW S, NEW s \in Seq(S), NEW i \in 1..(Len(s) + 1), NEW x, x \in S,
         NEW t, t = InsertAt(s, i, x)
  PROVE  /\ t \in Seq(S) /\ Len(t) = Len(s) + 1
         /\ \A k \in 1..(i - 1) : t[k] = s[k]
         /\ t[i] = x
         /\ \A k \in (i + 1)..(Len(s) + 1) : t[k] = s[k - 1]
<1> DEFINE a == SubSeq(s, 1, i - 1)
           b == SubSeq(s, i, Len(s))
<1>1. Len(s) \in Nat /\ i \in Nat /\ i >= 1 /\ i <= Len(s) + 1
  OBVIOUS
<1>2. a \in Seq(S) /\ Len(a) = i - 1 /\ \A k \in 1..(i - 1) : a[k] = s[k]
  BY <1>1
<1>3. b \in Seq(S) /\ Len(b) = Len(s) - i + 1
      /\ \A k \in 1..(Len(s) - i + 1) : b[k] = s[i + k - 1]
  BY <1>1
<1>4. t = (a \o <<x>>) \o b
  BY DEF InsertAt
<1> HIDE DEF a, b
<1>5. <<x>> \in Seq(S) /\ Len(<<x>>) = 1 /\ <<x>>[1] = x
  OBVIOUS
<1>6. /\ a \o <<x>> \in Seq(S) /\ Len(a \o <<x>>) = i
      /\ \A k \in 1..(i - 1) : (a \o <<x>>)[k] = s[k]
      /\ (a \o <<x>>)[i] = x
  <2> DEFINE ax == a \o <<x>>
  <2>1. ax \in Seq(S) /\ Len(ax) = Len(a) + Len(<<x>>)
        /\ \A k \in 1..Len(ax) : ax[k] = IF k <= Len(a) THEN a[k] ELSE <<x>>[k - Len(a)]
    BY <1>2, <1>5, ConcatProperties
  <2> HIDE DEF ax
  <2>2. Len(ax) = i
    BY <1>1, <1>2, <1>5, <2>1
  <2>3. \A k \in 1..(i - 1) : ax[k] = s[k]
    BY <1>1, <1>2, <2>1, <2>2
  <2>4. ax[i] = x
    BY <1>1, <1>2, <1>5, <2>1, <2>2
  <2> QED
    BY <2>1, <2>2, <2>3, <2>4 DEF ax
<1> DEFINE ax == a \o <<x>>
<1>7. ax \in Seq(S) /\ Len(ax) = i /\ ax[i] = x /\ t = ax \o b
      /\ \A k \in 1..(i - 1) : ax[k] = s[k]
  BY <1>4, <1>6
<1> HIDE DEF ax
<1>8. /\ t \in Seq(S) /\ Len(t) = Len(ax) + Len(b)
      /\ \A k \in 1..(Len(ax) + Len(b)) : t[k] = IF k <= Len(ax) THEN ax[k] ELSE b[k - Len(ax)]
  <2>1. ax \in Seq(S) /\ b \in Seq(S) /\ t = ax \o b
    BY <1>3, <1>7
  <2> QED
    BY <2>1, Joined
<1>9. Len(t) = Len(s) + 1
  BY <1>1, <1>3, <1>7, <1>8
<1>10. \A k \in 1..(i - 1) : t[k] = s[k]
  BY <1>1, <1>7, <1>8, <1>9
<1>11. t[i] = x
  BY <1>1, <1>7, <1>8, <1>9
<1>12. ASSUME NEW k \in (i + 1)..(Len(s) + 1) PROVE t[k] = s[k - 1]
  <2>1. k \in 1..Len(t) /\ ~(k <= i) /\ k - i \in 1..(Len(s) - i + 1) /\ i + (k - i) - 1 = k - 1
    BY <1>1, <1>9
  <2>2. t[k] = b[k - i]
    BY <1>7, <1>8, <2>1
  <2> QED
    BY <1>3, <2>1, <2>2
<1> QED
  BY <1>8, <1>9, <1>10, <1>11, <1>12

LEMMA RemoveAtProperties ==
  ASSUME NEW S, NEW s \in Seq(S), NEW i \in 1..Len(s), NEW t, t = RemoveAt(s, i)
  PROVE  /\ t \in Seq(S) /\ Len(t) = Len(s) - 1
         /\ \A k \in 1..(i - 1) : t[k] = s[k]
         /\ \A k \in i..(Len(s) - 1) : t[k] = s[k + 1]
<1> DEFINE a == SubSeq(s, 1, i - 1)
           b == SubSeq(s, i + 1, Len(s))
<1>1. Len(s) \in Nat /\ i \in Nat /\ i >= 1 /\ i <= Len(s)
  OBVIOUS
<1>2. a \in Seq(S) /\ Len(a) = i - 1 /\ \A k \in 1..(i - 1) : a[k] = s[k]
  BY <1>1
<1>3. b \in Seq(S) /\ Len(b) = Len(s) - i
      /\ \A k \in 1..(Len(s) - i) : b[k] = s[i + k]
  BY <1>1
<1>4. t = a \o b
  BY DEF RemoveAt
<1> HIDE DEF a, b
<1>5. /\ t \in Seq(S) /\ Len(t) = Len(a) + Len(b)
      /\ \A k \in 1..(Len(a) + Len(b)) : t[k] = IF k <= Len(a) THEN a[k] ELSE b[k - Len(a)]
  <2>1. a \in Seq(S) /\ b \in Seq(S) /\ t = a \o b
    BY <1>2, <1>3, <1>4
  <2> QED
    BY <2>1, Joined
<1>6. Len(t) = Len(s) - 1
  BY <1>1, <1>2, <1>3, <1>5
<1>7. \A k \in 1..(i - 1) : t[k] = s[k]
  BY <1>1, <1>2, <1>5, <1>6
<1>8. ASSUME NEW k \in i..(Len(s) - 1) PROVE t[k] = s[k + 1]
  <2>1. k \in 1..Len(t) /\ ~(k <= i - 1) /\ k - (i - 1) \in 1..(Len(s) - i)
        /\ i + (k - (i - 1)) = k + 1
    BY <1>1, <1>6
  <2>2. t[k] = b[k - (i - 1)]
    BY <1>2, <1>5, <2>1
  <2> QED
    BY <1>3, <2>1, <2>2
<1> QED
  BY <1>5, <1>6, <1>7, <1>8

\* How many different items a list has.
LEMMA RangeOfAList ==
  ASSUME NEW S, NEW s \in Seq(S)
  PROVE  /\ Range(s) = {s[k] : k \in 1..Len(s)} /\ Range(s) \subseteq S
         /\ IsFiniteSet(Range(s)) /\ Cardinality(Range(s)) <= Len(s)
         /\ IsInjective(s) => Cardinality(Range(s)) = Len(s)
<1>1. Len(s) \in Nat /\ DOMAIN s = 1..Len(s) /\ \A k \in 1..Len(s) : s[k] \in S
      /\ s \in [1..Len(s) -> S]
  OBVIOUS
<1>2. Range(s) = {s[k] : k \in 1..Len(s)} /\ Range(s) \subseteq S
  BY <1>1 DEF Range
<1> DEFINE D == 1..Len(s)
           R == Range(s)
<1>3. s \in Surjection(D, R)
  BY <1>1, <1>2 DEF Surjection
<1>4. IsInjective(s) => s \in Injection(D, R)
  BY <1>1, <1>2 DEF Injection
<1>5. IsFiniteSet(D) /\ Cardinality(D) = Len(s)
  <2>1. IsFiniteSet(D) /\ Cardinality(D) = IF 1 > Len(s) THEN 0 ELSE Len(s) - 1 + 1
    BY <1>1, FS_Interval
  <2> QED
    BY <1>1, <2>1
<1> HIDE DEF D, R
<1>6. IsFiniteSet(R) /\ Cardinality(R) <= Cardinality(D)
      /\ (Cardinality(R) = Cardinality(D) <=> s \in Injection(D, R))
  BY <1>3, <1>5, FS_Surjection
<1> QED
  BY <1>2, <1>4, <1>5, <1>6 DEF R

----------------------------------------------------------------------------
(***************************************************************************)
(* Counting.  srv is what the API has handed out of a list that is now s,  *)
(* in pages that cover its first p positions; stb are the items that were  *)
(* there all the time.                                                     *)
(***************************************************************************)
\* Items never handed out that a removal has moved to a position passed already.
Hidden(stb, srv, p, s) ==
  {x \in stb \ Range(srv) : \E k \in 1..Len(s) : k <= p /\ s[k] = x}

\* Items handed out that an insertion has moved to a position not passed yet.
Ahead(srv, p, s) == {x \in Range(srv) : \E k \in 1..Len(s) : k > p /\ s[k] = x}

\* Every hidden item has a removal of its own; every item repeated, or still to
\* be repeated, an insertion.
Balance(stb, srv, p, s, add, rem) ==
  /\ stb \subseteq Range(s)
  /\ Cardinality(Hidden(stb, srv, p, s)) <= rem
  /\ Len(srv) - Cardinality(Range(srv)) + Cardinality(Ahead(srv, p, s)) <= add

LEMMA FiniteCounts ==
  ASSUME NEW S, NEW s \in Seq(S), NEW T, NEW srv \in Seq(T), NEW p, NEW stb, stb \subseteq Range(s)
  PROVE  /\ IsFiniteSet(stb) /\ IsFiniteSet(Hidden(stb, srv, p, s))
         /\ IsFiniteSet(Ahead(srv, p, s)) /\ IsFiniteSet(stb \ Range(srv))
         /\ Cardinality(Hidden(stb, srv, p, s)) \in Nat
         /\ Cardinality(Ahead(srv, p, s)) \in Nat
         /\ Cardinality(stb \ Range(srv)) \in Nat
         /\ Cardinality(Range(srv)) \in Nat /\ Len(srv) \in Nat
<1>1. IsFiniteSet(Range(s)) /\ IsFiniteSet(Range(srv))
  BY RangeOfAList
<1>2. IsFiniteSet(stb)
  BY <1>1, FS_Subset
<1>3. /\ Hidden(stb, srv, p, s) \subseteq stb /\ stb \ Range(srv) \subseteq stb
      /\ Ahead(srv, p, s) \subseteq Range(srv)
  BY DEF Hidden, Ahead
<1>4. IsFiniteSet(Hidden(stb, srv, p, s)) /\ IsFiniteSet(stb \ Range(srv))
  BY <1>2, <1>3, FS_Subset
<1>5. IsFiniteSet(Ahead(srv, p, s))
  BY <1>1, <1>3, FS_Subset
<1> QED
  BY <1>1, <1>2, <1>4, <1>5, FS_CardinalityType

\* A larger set by one item at most counts one more at most.
LEMMA OneMore ==
  ASSUME NEW A, IsFiniteSet(A), NEW B, NEW z, B \subseteq A \cup {z}
  PROVE  Cardinality(B) <= Cardinality(A) + 1
<1>1. IsFiniteSet(A \cup {z}) /\ (\/ Cardinality(A \cup {z}) = Cardinality(A)
                                 \/ Cardinality(A \cup {z}) = Cardinality(A) + 1)
  BY FS_AddElement
<1>2. IsFiniteSet(B) /\ Cardinality(B) <= Cardinality(A \cup {z})
  BY <1>1, FS_Subset
<1>3. Cardinality(A) \in Nat /\ Cardinality(B) \in Nat
  BY <1>2, FS_CardinalityType
<1> QED
  BY <1>1, <1>2, <1>3

LEMMA NoMore ==
  ASSUME NEW A, IsFiniteSet(A), NEW B, B \subseteq A
  PROVE  Cardinality(B) <= Cardinality(A) /\ Cardinality(B) \in Nat /\ IsFiniteSet(B)
BY FS_Subset, FS_CardinalityType

LEMMA NothingServed ==
  ASSUME NEW S, NEW s \in Seq(S)
  PROVE  Balance({}, <<>>, 0, s, 0, 0)
<1>1. Range(<<>>) = {} /\ Len(<<>>) = 0
  BY DEF Range
<1>2. Hidden({}, <<>>, 0, s) = {} /\ Ahead(<<>>, 0, s) = {}
  BY <1>1 DEF Hidden, Ahead
<1>3. Cardinality({}) = 0
  BY FS_EmptySet
<1>4. 0 <= 0 /\ 0 - 0 + 0 <= 0
  OBVIOUS
<1> QED
  BY <1>1, <1>2, <1>3, <1>4 DEF Balance

\* An insertion before the front repeats the item it pushes over it; an
\* insertion beyond the front may bring back an item that was handed out.
LEMMA InsertionRepeatsOne ==
  ASSUME NEW S, NEW s \in Seq(S), NEW T, NEW srv \in Seq(T), NEW p \in Nat, NEW stb,
         NEW add \in Nat, NEW rem \in Nat, Balance(stb, srv, p, s, add, rem),
         NEW i \in 1..(Len(s) + 1), NEW x \in S \ Range(s), NEW t, t = InsertAt(s, i, x)
  PROVE  Balance(stb, srv, p, t, add + 1, rem)
<1>1. /\ t \in Seq(S) /\ Len(t) = Len(s) + 1 /\ Len(s) \in Nat
      /\ \A k \in 1..(i - 1) : t[k] = s[k]
      /\ t[i] = x
      /\ \A k \in (i + 1)..(Len(s) + 1) : t[k] = s[k - 1]
  <2>1. x \in S
    OBVIOUS
  <2>2. Len(s) \in Nat
    OBVIOUS
  <2>3. /\ t \in Seq(S) /\ Len(t) = Len(s) + 1
        /\ \A k \in 1..(i - 1) : t[k] = s[k]
        /\ t[i] = x
        /\ \A k \in (i + 1)..(Len(s) + 1) : t[k] = s[k - 1]
    BY <2>1, InsertAtProperties, SMTT(60)
  <2> QED
    BY <2>2, <2>3
<1>2. /\ Range(s) = {s[k] : k \in 1..Len(s)} /\ Range(t) = {t[k] : k \in 1..Len(t)}
      /\ stb \subseteq Range(s)
  BY <1>1, RangeOfAList DEF Balance
<1>3. stb \subseteq Range(t)
  <2> SUFFICES ASSUME NEW k \in 1..Len(s) PROVE \E m \in 1..Len(t) : t[m] = s[k]
    BY <1>2
  <2>1. CASE k < i
    <3>1. k \in 1..(i - 1) /\ k \in 1..Len(t)
      BY <1>1, <2>1
    <3> QED
      BY <1>1, <3>1
  <2>2. CASE k >= i
    <3>1. k + 1 \in (i + 1)..(Len(s) + 1) /\ k + 1 \in 1..Len(t) /\ (k + 1) - 1 = k
      BY <1>1, <2>2
    <3>2. t[k + 1] = s[(k + 1) - 1]
      BY <1>1, <3>1
    <3> QED
      BY <3>1, <3>2
  <2> QED
    BY <2>1, <2>2
<1>4. \A k \in 1..Len(t) :
        /\ k = i => t[k] = x
        /\ k < i => k \in 1..Len(s) /\ t[k] = s[k]
        /\ k > i => k - 1 \in 1..Len(s) /\ t[k] = s[k - 1]
  <2> TAKE k \in 1..Len(t)
  <2>1. CASE k < i
    <3>1. k \in 1..(i - 1) /\ k \in 1..Len(s)
      BY <1>1, <2>1
    <3> QED
      BY <1>1, <2>1, <3>1
  <2>2. CASE k > i
    <3>1. k \in (i + 1)..(Len(s) + 1) /\ k - 1 \in 1..Len(s)
      BY <1>1, <2>2
    <3> QED
      BY <1>1, <2>2, <3>1
  <2>3. k < i \/ k = i \/ k > i
    BY <1>1
  <2> QED
    BY <1>1, <2>1, <2>2, <2>3
<1>5. Hidden(stb, srv, p, t) \subseteq Hidden(stb, srv, p, s)
  <2> SUFFICES ASSUME NEW y \in stb \ Range(srv), NEW k \in 1..Len(t), k <= p, t[k] = y
               PROVE  \E m \in 1..Len(s) : m <= p /\ s[m] = y
    BY DEF Hidden
  <2>1. y # x
    BY <1>2
  <2>2. k # i
    BY <1>4, <2>1
  <2>3. CASE k < i
    BY <1>4, <2>3
  <2>4. CASE k > i
    <3>1. k - 1 \in 1..Len(s) /\ y = s[k - 1]
      BY <1>4, <2>4
    <3>2. k - 1 <= p
      BY <1>1
    <3> QED
      BY <3>1, <3>2
  <2>5. k < i \/ k > i
    BY <1>1, <2>2
  <2> QED
    BY <2>3, <2>4, <2>5
<1> DEFINE z == IF i <= p THEN s[p] ELSE x
<1>6. Ahead(srv, p, t) \subseteq Ahead(srv, p, s) \cup {z}
  <2> SUFFICES ASSUME NEW y \in Range(srv), NEW k \in 1..Len(t), k > p, t[k] = y, y # z
               PROVE  \E m \in 1..Len(s) : m > p /\ s[m] = y
    BY DEF Ahead
  <2>1. k # i
    BY <1>1
  <2>2. CASE k < i
    BY <1>1, <1>4, <2>2
  <2>3. CASE k > i
    <3>1. k - 1 \in 1..Len(s) /\ y = s[k - 1]
      BY <1>1, <1>4, <2>3
    <3>2. k - 1 # p
      BY <1>1, <2>3, <3>1
    <3>3. k - 1 > p
      BY <1>1, <3>2
    <3> QED
      BY <3>1, <3>3
  <2>4. k < i \/ k > i
    BY <1>1, <2>1
  <2> QED
    BY <2>2, <2>3, <2>4
<1> HIDE DEF z
<1>7. /\ IsFiniteSet(Hidden(stb, srv, p, s)) /\ IsFiniteSet(Ahead(srv, p, s))
      /\ Cardinality(Hidden(stb, srv, p, s)) \in Nat /\ Cardinality(Ahead(srv, p, s)) \in Nat
      /\ Cardinality(Range(srv)) \in Nat /\ Len(srv) \in Nat
  BY <1>2, FiniteCounts
<1>8. Cardinality(Hidden(stb, srv, p, t)) <= rem
  <2>1. /\ Cardinality(Hidden(stb, srv, p, t)) <= Cardinality(Hidden(stb, srv, p, s))
        /\ Cardinality(Hidden(stb, srv, p, t)) \in Nat
    BY <1>5, <1>7, NoMore
  <2> QED
    BY <1>7, <2>1 DEF Balance
<1>9. Cardinality(Ahead(srv, p, t)) <= Cardinality(Ahead(srv, p, s)) + 1
  BY <1>6, <1>7, OneMore
<1>10. Cardinality(Ahead(srv, p, t)) \in Nat
  BY <1>1, <1>3, FiniteCounts
<1>11. Len(srv) - Cardinality(Range(srv)) + Cardinality(Ahead(srv, p, t)) <= add + 1
  BY <1>7, <1>9, <1>10 DEF Balance
<1> QED
  BY <1>3, <1>8, <1>11 DEF Balance

\* A removal before the front hides the item it pulls over it.
LEMMA RemovalHidesOne ==
  ASSUME NEW S, NEW s \in Seq(S), IsInjective(s), NEW T, NEW srv \in Seq(T), NEW p \in Nat,
         NEW stb, NEW add \in Nat, NEW rem \in Nat, Balance(stb, srv, p, s, add, rem),
         NEW i \in 1..Len(s), NEW t, t = RemoveAt(s, i)
  PROVE  Balance(stb \ {s[i]}, srv, p, t, add, rem + 1)
<1>1. /\ t \in Seq(S) /\ Len(t) = Len(s) - 1 /\ Len(s) \in Nat
      /\ \A k \in 1..(i - 1) : t[k] = s[k]
      /\ \A k \in i..(Len(s) - 1) : t[k] = s[k + 1]
  <2>1. /\ t \in Seq(S) /\ Len(t) = Len(s) - 1
        /\ \A k \in 1..(i - 1) : t[k] = s[k]
        /\ \A k \in i..(Len(s) - 1) : t[k] = s[k + 1]
    BY RemoveAtProperties, SMTT(60)
  <2>2. Len(s) \in Nat
    OBVIOUS
  <2> QED
    BY <2>1, <2>2
<1> DEFINE left == stb \ {s[i]}
<1>2. /\ Range(s) = {s[k] : k \in 1..Len(s)} /\ Range(t) = {t[k] : k \in 1..Len(t)}
      /\ stb \subseteq Range(s)
  BY <1>1, RangeOfAList DEF Balance
<1>3. left \subseteq Range(t)
  <2> SUFFICES ASSUME NEW y \in stb, y # s[i] PROVE \E m \in 1..Len(t) : t[m] = y
    BY <1>2
  <2>0. PICK k \in 1..Len(s) : s[k] = y /\ k # i
    BY <1>2
  <2>1. CASE k < i
    <3>1. k \in 1..(i - 1) /\ k \in 1..Len(t)
      BY <1>1, <2>1
    <3> QED
      BY <1>1, <2>0, <3>1
  <2>2. CASE k > i
    <3>1. k - 1 \in i..(Len(s) - 1) /\ k - 1 \in 1..Len(t) /\ (k - 1) + 1 = k
      BY <1>1, <2>2
    <3>2. t[k - 1] = s[(k - 1) + 1]
      BY <1>1, <3>1
    <3> QED
      BY <2>0, <3>1, <3>2
  <2>3. k < i \/ k > i
    BY <1>1, <2>0
  <2> QED
    BY <2>1, <2>2, <2>3
<1>4. \A k \in 1..Len(t) :
        /\ k < i => k \in 1..Len(s) /\ t[k] = s[k]
        /\ ~(k < i) => k + 1 \in 1..Len(s) /\ t[k] = s[k + 1]
  <2> TAKE k \in 1..Len(t)
  <2>1. CASE k < i
    <3>1. k \in 1..(i - 1) /\ k \in 1..Len(s)
      BY <1>1, <2>1
    <3> QED
      BY <1>1, <2>1, <3>1
  <2>2. CASE ~(k < i)
    <3>1. k \in i..(Len(s) - 1) /\ k + 1 \in 1..Len(s)
      BY <1>1, <2>2
    <3> QED
      BY <1>1, <2>2, <3>1
  <2> QED
    BY <2>1, <2>2
<1>5. Hidden(left, srv, p, t) \subseteq Hidden(stb, srv, p, s) \cup {s[p + 1]}
  <2> SUFFICES ASSUME NEW y \in stb \ Range(srv), NEW k \in 1..Len(t), k <= p, t[k] = y,
                      y # s[p + 1]
               PROVE  \E m \in 1..Len(s) : m <= p /\ s[m] = y
    BY DEF Hidden
  <2>1. CASE k < i
    BY <1>4, <2>1
  <2>2. CASE ~(k < i)
    <3>1. k + 1 \in 1..Len(s) /\ y = s[k + 1]
      BY <1>4, <2>2
    <3>2. k # p
      BY <3>1
    <3>3. k + 1 <= p
      BY <1>1, <3>2
    <3> QED
      BY <3>1, <3>3
  <2> QED
    BY <2>1, <2>2
<1>6. Ahead(srv, p, t) \subseteq Ahead(srv, p, s)
  <2> SUFFICES ASSUME NEW y \in Range(srv), NEW k \in 1..Len(t), k > p, t[k] = y
               PROVE  \E m \in 1..Len(s) : m > p /\ s[m] = y
    BY DEF Ahead
  <2>1. CASE k < i
    BY <1>4, <2>1
  <2>2. CASE ~(k < i)
    <3>1. k + 1 \in 1..Len(s) /\ y = s[k + 1]
      BY <1>4, <2>2
    <3>2. k + 1 > p
      BY <1>1
    <3> QED
      BY <3>1, <3>2
  <2> QED
    BY <2>1, <2>2
<1>7. /\ IsFiniteSet(Hidden(stb, srv, p, s)) /\ IsFiniteSet(Ahead(srv, p, s))
      /\ Cardinality(Hidden(stb, srv, p, s)) \in Nat /\ Cardinality(Ahead(srv, p, s)) \in Nat
      /\ Cardinality(Range(srv)) \in Nat /\ Len(srv) \in Nat
  BY <1>2, FiniteCounts
<1>8. Cardinality(Hidden(left, srv, p, t)) \in Nat
  BY <1>1, <1>3, FiniteCounts
<1> HIDE DEF left
<1>9. Cardinality(Hidden(left, srv, p, t)) <= rem + 1
  <2>1. Cardinality(Hidden(left, srv, p, t)) <= Cardinality(Hidden(stb, srv, p, s)) + 1
    BY <1>5, <1>7, OneMore
  <2> QED
    BY <1>7, <1>8, <2>1 DEF Balance
<1>10. Len(srv) - Cardinality(Range(srv)) + Cardinality(Ahead(srv, p, t)) <= add
  <2>1. /\ Cardinality(Ahead(srv, p, t)) <= Cardinality(Ahead(srv, p, s))
        /\ Cardinality(Ahead(srv, p, t)) \in Nat
    BY <1>6, <1>7, NoMore
  <2> QED
    BY <1>7, <2>1 DEF Balance
<1>11. Balance(left, srv, p, t, add, rem + 1)
  BY <1>3, <1>9, <1>10 DEF Balance
<1> QED
  BY <1>11 DEF left

\* A page moves the front on, and hands out what lies between.  The first page
\* settles which items are there from then on.
LEMMA PageKeepsBalance ==
  ASSUME NEW S, NEW s \in Seq(S), IsInjective(s), NEW srv \in Seq(S),
         NEW size \in Nat, NEW F0, NEW F1, NEW r, Page(r, s, F0, F1, size, S),
         NEW stb, NEW stb2, stb2 = stb \/ (F0 = 0 /\ stb2 = Range(s)),
         NEW add \in Nat, NEW rem \in Nat, Balance(stb, srv, F0, s, add, rem)
  PROVE  /\ Balance(stb2, srv \o r, F1, s, add, rem)
         /\ Len(s) <= F1 => Cardinality(stb2 \ Range(srv \o r)) <= rem
<1>1. /\ F0 \in Nat /\ F1 = F0 + size /\ r \in Seq(S)
      /\ \A k \in 1..Len(r) : F0 + k \in 1..Len(s) /\ F0 + k <= F1 /\ r[k] = s[F0 + k]
      /\ \A k \in 1..Len(s) : F0 < k /\ k <= F1 => k - F0 \in 1..Len(r) /\ r[k - F0] = s[k]
  BY DEF Page
<1> DEFINE all == srv \o r
<1>2. /\ all \in Seq(S) /\ Len(all) = Len(srv) + Len(r) /\ Range(all) = Range(srv) \cup Range(r)
  <2>1. all \in Seq(S) /\ Len(all) = Len(srv) + Len(r)
    BY <1>1, Joined
  <2>2. Range(all) = Range(srv) \cup Range(r)
    BY <1>1, RangeConcatenation
  <2> QED
    BY <2>1, <2>2
<1>3. /\ Range(s) = {s[k] : k \in 1..Len(s)} /\ Range(r) = {r[k] : k \in 1..Len(r)}
      /\ DOMAIN s = 1..Len(s) /\ DOMAIN r = 1..Len(r) /\ Len(s) \in Nat
  BY <1>1, RangeOfAList
<1>4. stb \subseteq Range(s) /\ stb2 \subseteq Range(s)
  BY DEF Balance
<1>5. IsInjective(r)
  <2> SUFFICES ASSUME NEW a \in 1..Len(r), NEW b \in 1..Len(r), r[a] = r[b] PROVE a = b
    BY <1>3 DEF IsInjective
  <2>1. s[F0 + a] = s[F0 + b] /\ F0 + a \in DOMAIN s /\ F0 + b \in DOMAIN s
    BY <1>1, <1>3
  <2>2. F0 + a = F0 + b
    BY <2>1 DEF IsInjective
  <2>3. a \in Nat /\ b \in Nat
    OBVIOUS
  <2> QED
    BY <1>1, <2>2, <2>3
<1>6. F0 = 0 \/ stb2 = stb
  OBVIOUS
<1> HIDE DEF all
<1>7. Hidden(stb2, all, F1, s) \subseteq Hidden(stb, srv, F0, s)
  <2> SUFFICES ASSUME NEW y \in stb2 \ Range(all), NEW k \in 1..Len(s), k <= F1, s[k] = y
               PROVE  y \in stb \ Range(srv) /\ k <= F0
    BY DEF Hidden
  <2>1. ~(F0 < k)
    BY <1>1, <1>2, <1>3
  <2>2. k <= F0 /\ F0 # 0
    BY <1>1, <2>1
  <2> QED
    BY <1>2, <1>6, <2>2
<1>8. Ahead(all, F1, s) \subseteq Ahead(srv, F0, s) \ Range(r)
  <2> SUFFICES ASSUME NEW y \in Range(all), NEW k \in 1..Len(s), k > F1, s[k] = y
               PROVE  y \notin Range(r) /\ y \in Range(srv) /\ k > F0
    BY DEF Ahead
  <2>1. ASSUME NEW m \in 1..Len(r), r[m] = y PROVE FALSE
    <3>1. s[F0 + m] = s[k] /\ F0 + m \in DOMAIN s /\ k \in DOMAIN s /\ F0 + m <= F1
      BY <1>1, <1>3, <2>1
    <3>2. F0 + m = k
      BY <3>1 DEF IsInjective
    <3> QED
      BY <1>1, <3>1, <3>2
  <2>2. y \notin Range(r)
    BY <1>3, <2>1
  <2>3. k > F0
    BY <1>1
  <2> QED
    BY <1>2, <2>2, <2>3
<1>9. Range(srv) \cap Range(r) \subseteq Ahead(srv, F0, s)
  <2> SUFFICES ASSUME NEW m \in 1..Len(r), r[m] \in Range(srv)
               PROVE  \E k \in 1..Len(s) : k > F0 /\ s[k] = r[m]
    BY <1>3 DEF Ahead
  <2>1. F0 + m \in 1..Len(s) /\ F0 + m > F0 /\ s[F0 + m] = r[m]
    BY <1>1
  <2> QED
    BY <2>1
<1> DEFINE H0 == Hidden(stb, srv, F0, s)
           H1 == Hidden(stb2, all, F1, s)
           A0 == Ahead(srv, F0, s)
           A1 == Ahead(all, F1, s)
           B == Range(r)
           C == Range(srv)
<1>10. /\ IsFiniteSet(H0) /\ IsFiniteSet(A0) /\ IsFiniteSet(A1)
       /\ Cardinality(H0) \in Nat /\ Cardinality(A0) \in Nat
       /\ Cardinality(C) \in Nat /\ Len(srv) \in Nat
  BY <1>2, <1>4, FiniteCounts
<1>11. IsFiniteSet(B) /\ IsFiniteSet(C) /\ Cardinality(B) = Len(r) /\ Len(r) \in Nat
  BY <1>1, <1>5, RangeOfAList
<1>12. /\ Cardinality(H0) <= rem
       /\ Len(srv) - Cardinality(C) + Cardinality(A0) <= add
  BY DEF Balance
<1>13. H1 \subseteq H0 /\ A1 \subseteq A0 \ B /\ C \cap B \subseteq A0
       /\ Range(all) = C \cup B
  BY <1>2, <1>7, <1>8, <1>9
<1> HIDE DEF H0, H1, A0, A1, B, C
<1>14. Cardinality(H1) <= rem /\ IsFiniteSet(H1) /\ Cardinality(H1) \in Nat
  <2>1. Cardinality(H1) <= Cardinality(H0) /\ Cardinality(H1) \in Nat /\ IsFiniteSet(H1)
    BY <1>10, <1>13, NoMore
  <2> QED
    BY <1>10, <1>12, <2>1
<1>15. Len(all) - Cardinality(Range(all)) + Cardinality(A1) <= add
  <2>1. /\ IsFiniteSet(A0 \ B) /\ Cardinality(A0 \ B) = Cardinality(A0) - Cardinality(A0 \cap B)
    BY <1>10, FS_Difference
  <2>2. Cardinality(A1) <= Cardinality(A0 \ B) /\ Cardinality(A1) \in Nat
    BY <1>13, <2>1, NoMore
  <2>3. IsFiniteSet(A0 \cap B)
    BY <1>10, FS_Intersection
  <2>4. /\ Cardinality(C \cap B) <= Cardinality(A0 \cap B) /\ Cardinality(C \cap B) \in Nat
    <3>1. C \cap B \subseteq A0 \cap B
      BY <1>13
    <3> QED
      BY <2>3, <3>1, NoMore
  <2>5. Cardinality(C \cup B) = Cardinality(C) + Cardinality(B) - Cardinality(C \cap B)
    BY <1>11, FS_Union
  <2>6. Cardinality(A0 \cap B) \in Nat
    BY <2>3, FS_CardinalityType
  <2>7. Cardinality(Range(all)) = Cardinality(C) + Len(r) - Cardinality(C \cap B)
    BY <1>11, <1>13, <2>5
  <2>8. /\ Len(all) = Len(srv) + Len(r)
        /\ Cardinality(A1) <= Cardinality(A0) - Cardinality(A0 \cap B)
    BY <1>2, <2>1, <2>2
  <2>9. \A l, m, c, x, a0, ab, a1 \in Nat :
          l - c + a0 <= add /\ x <= ab /\ a1 <= a0 - ab => (l + m) - (c + m - x) + a1 <= add
    OBVIOUS
  <2>10. (Len(srv) + Len(r)) - (Cardinality(C) + Len(r) - Cardinality(C \cap B)) + Cardinality(A1)
           <= add
    BY <1>10, <1>11, <1>12, <2>2, <2>4, <2>6, <2>8, <2>9
  <2> QED
    BY <2>7, <2>8, <2>10
<1>16. Balance(stb2, all, F1, s, add, rem)
  BY <1>4, <1>14, <1>15 DEF Balance, H1, A1
<1>17. ASSUME Len(s) <= F1 PROVE Cardinality(stb2 \ Range(all)) <= rem
  <2>1. stb2 \ Range(all) \subseteq H1
    <3> SUFFICES ASSUME NEW y \in stb2 \ Range(all)
                 PROVE  \E k \in 1..Len(s) : k <= F1 /\ s[k] = y
      BY DEF H1, Hidden
    <3>1. PICK k \in 1..Len(s) : s[k] = y
      BY <1>3, <1>4
    <3>2. k <= F1
      BY <1>1, <1>3, <1>17
    <3> QED
      BY <3>1, <3>2
  <2>2. /\ Cardinality(stb2 \ Range(all)) <= Cardinality(H1)
        /\ Cardinality(stb2 \ Range(all)) \in Nat
    BY <1>14, <2>1, NoMore
  <2> QED
    BY <1>14, <2>2
<1> QED
  BY <1>16, <1>17 DEF all

\* The first n items of a list, or all of them when there are fewer.
Upto(s, n) == SubSeq(s, 1, IF n <= Len(s) THEN n ELSE Len(s))

LEMMA PagesAddUp ==
  ASSUME NEW S, NEW s \in Seq(S), NEW size \in Nat, NEW lo, NEW hi, NEW r,
         Page(r, s, lo, hi, size, S)
  PROVE  Upto(s, lo) \o r = Upto(s, hi)
<1>1. Len(s) \in Nat /\ lo \in Nat /\ hi \in Nat /\ lo <= hi
  BY DEF Page
<1>2. CASE Len(s) <= lo
  <2>1. r = <<>>
    BY <1>2 DEF Page
  <2>2. Upto(s, lo) = SubSeq(s, 1, Len(s)) /\ Upto(s, hi) = SubSeq(s, 1, Len(s))
    <3>1. /\ (IF lo <= Len(s) THEN lo ELSE Len(s)) = Len(s)
          /\ (IF hi <= Len(s) THEN hi ELSE Len(s)) = Len(s)
      BY <1>1, <1>2
    <3> QED
      BY <3>1 DEF Upto
  <2>3. SubSeq(s, 1, Len(s)) = s
    BY SubSeqFull
  <2>4. s \o <<>> = s
    BY ConcatEmptySeq
  <2> QED
    BY <2>1, <2>2, <2>3, <2>4
<1>3. CASE ~(Len(s) <= lo)
  <2> DEFINE n == IF hi <= Len(s) THEN hi ELSE Len(s)
  <2>1. r = SubSeq(s, lo + 1, n)
    BY <1>3 DEF Page
  <2>2. 1 \in 1..(Len(s) + 1) /\ lo \in (1 - 1)..Len(s) /\ n \in lo..Len(s)
    BY <1>1, <1>3
  <2>3. Upto(s, lo) = SubSeq(s, 1, lo) /\ Upto(s, hi) = SubSeq(s, 1, n)
    <3>1. (IF lo <= Len(s) THEN lo ELSE Len(s)) = lo
      BY <1>1, <1>3
    <3> QED
      BY <3>1 DEF Upto
  <2> HIDE DEF n
  <2>4. SubSeq(s, 1, lo) \o SubSeq(s, lo + 1, n) = SubSeq(s, 1, n)
    BY <2>2, ConcatAdjacentSubSeq
  <2> QED
    BY <2>1, <2>3, <2>4
<1> QED
  BY <1>2, <1>3

LEMMA UptoTheEnds ==
  ASSUME NEW S, NEW s \in Seq(S)
  PROVE  /\ Upto(s, 0) = <<>>
         /\ \A n \in Nat : Len(s) <= n => Upto(s, n) = s
<1>1. Len(s) \in Nat
  OBVIOUS
<1>2. Upto(s, 0) = <<>>
  <2>1. (IF 0 <= Len(s) THEN 0 ELSE Len(s)) = 0
    BY <1>1
  <2>2. SubSeq(s, 1, 0) = <<>>
    BY SubSeqEmpty
  <2> QED
    BY <2>1, <2>2 DEF Upto
<1>3. ASSUME NEW n \in Nat, Len(s) <= n PROVE Upto(s, n) = s
  <2>1. (IF n <= Len(s) THEN n ELSE Len(s)) = Len(s)
    BY <1>1, <1>3
  <2>2. SubSeq(s, 1, Len(s)) = s
    BY SubSeqFull
  <2> QED
    BY <2>1, <2>2 DEF Upto
<1> QED
  BY <1>2, <1>3

\* A change keeps every item at one position only.
LEMMA InsertAtInjective ==
  ASSUME NEW S, NEW s \in Seq(S), IsInjective(s), NEW i \in 1..(Len(s) + 1),
         NEW x \in S \ Range(s), NEW t, t = InsertAt(s, i, x)
  PROVE  IsInjective(t)
<1>1. /\ t \in Seq(S) /\ Len(t) = Len(s) + 1 /\ t[i] = x
      /\ \A k \in 1..(i - 1) : t[k] = s[k]
      /\ \A k \in (i + 1)..(Len(s) + 1) : t[k] = s[k - 1]
  <2>1. x \in S
    OBVIOUS
  <2> QED
    BY <2>1, InsertAtProperties, SMTT(60)
<1>2. Len(s) \in Nat /\ DOMAIN s = 1..Len(s) /\ DOMAIN t = 1..Len(t)
  BY <1>1
<1> DEFINE Old(k) == IF k < i THEN k ELSE k - 1
<1>3. ASSUME NEW k \in 1..Len(t), k # i
      PROVE  Old(k) \in 1..Len(s) /\ t[k] = s[Old(k)] /\ t[k] # x
  <2>1. Old(k) \in 1..Len(s) /\ t[k] = s[Old(k)]
    <3>1. CASE k < i
      <4>1. k \in 1..(i - 1) /\ k \in 1..Len(s)
        BY <1>1, <1>2, <3>1
      <4> QED
        BY <1>1, <3>1, <4>1
    <3>2. CASE ~(k < i)
      <4>1. k \in (i + 1)..(Len(s) + 1) /\ k - 1 \in 1..Len(s)
        BY <1>1, <1>2, <1>3, <3>2
      <4> QED
        BY <1>1, <3>2, <4>1
    <3> QED
      BY <3>1, <3>2
  <2>2. s[Old(k)] \in Range(s)
    BY <1>2, <2>1 DEF Range
  <2> QED
    BY <2>1, <2>2
<1>4. SUFFICES ASSUME NEW a \in 1..Len(t), NEW b \in 1..Len(t), t[a] = t[b] PROVE a = b
  BY <1>2 DEF IsInjective
<1>5. CASE a = i \/ b = i
  BY <1>1, <1>3, <1>4, <1>5
<1>6. CASE a # i /\ b # i
  <2>1. Old(a) \in DOMAIN s /\ Old(b) \in DOMAIN s /\ s[Old(a)] = s[Old(b)]
    BY <1>2, <1>3, <1>4, <1>6
  <2>2. Old(a) = Old(b)
    BY <2>1 DEF IsInjective
  <2> QED
    BY <1>1, <1>2, <1>6, <2>2
<1> QED
  BY <1>5, <1>6

LEMMA RemoveAtInjective ==
  ASSUME NEW S, NEW s \in Seq(S), IsInjective(s), NEW i \in 1..Len(s), NEW t, t = RemoveAt(s, i)
  PROVE  IsInjective(t)
<1>1. /\ t \in Seq(S) /\ Len(t) = Len(s) - 1
      /\ \A k \in 1..(i - 1) : t[k] = s[k]
      /\ \A k \in i..(Len(s) - 1) : t[k] = s[k + 1]
  BY RemoveAtProperties, SMTT(60)
<1>2. Len(s) \in Nat /\ DOMAIN s = 1..Len(s) /\ DOMAIN t = 1..Len(t)
  BY <1>1
<1> DEFINE Old(k) == IF k < i THEN k ELSE k + 1
<1>3. ASSUME NEW k \in 1..Len(t) PROVE Old(k) \in 1..Len(s) /\ t[k] = s[Old(k)]
  <2>1. CASE k < i
    <3>1. k \in 1..(i - 1) /\ k \in 1..Len(s)
      BY <1>1, <1>2, <2>1
    <3> QED
      BY <1>1, <2>1, <3>1
  <2>2. CASE ~(k < i)
    <3>1. k \in i..(Len(s) - 1) /\ k + 1 \in 1..Len(s)
      BY <1>1, <1>2, <2>2
    <3> QED
      BY <1>1, <2>2, <3>1
  <2> QED
    BY <2>1, <2>2
<1>4. SUFFICES ASSUME NEW a \in 1..Len(t), NEW b \in 1..Len(t), t[a] = t[b] PROVE a = b
  BY <1>2 DEF IsInjective
<1>5. Old(a) \in DOMAIN s /\ Old(b) \in DOMAIN s /\ s[Old(a)] = s[Old(b)]
  BY <1>2, <1>3, <1>4
<1>6. Old(a) = Old(b)
  BY <1>5 DEF IsInjective
<1> QED
  BY <1>1, <1>2, <1>6

----------------------------------------------------------------------------
(***************************************************************************)
(* The inductive invariant.                                                *)
(***************************************************************************)
\* What the API has handed out, and how many positions of the list it covers.
Served == IF reply = None THEN listed ELSE listed \o reply.result
Passed == IF reply = None THEN (page - 1) * Size ELSE page * Size

Fresh ==
  /\ page = 1 /\ listed = <<>> /\ reply = None
  /\ stable = {} /\ added = 0 /\ removed = 0

NotBegun == status \in {"idle", "zone"} \/ (status = "page" /\ ~Listing) => Fresh

\* Nothing lies behind the last page.
Counted ==
  /\ Balance(stable, Served, Passed, stored, added, removed)
  /\ reply # None /\ page >= reply.total_pages =>
       Cardinality(stable \ Range(Served)) <= removed

\* Without a change, what was served is the list so far.
Quiet ==
  added + removed = 0 =>
    /\ Served = Upto(stored, Passed)
    /\ reply # None => reply.total_pages = PagesOf(stored, Size)

\* total_pages does not wrap.
Fits ==
  /\ Len(stored) + MaxChanges <= (U32 - 1) * PerPage + changes
  /\ tool = "dns_records" /\ reply # None => reply.total_pages < U32

ListInv ==
  /\ TypeOK /\ NotBegun /\ Fits
  /\ status = "page" => Counted /\ Quiet
  /\ HidesAtMostRemoved /\ RepeatsAtMostAdded

\* What every step below needs of the sizes.
LEMMA Sizes ==
  /\ Size \in Nat \ {0} /\ PerPage \in Nat \ {0} /\ U32 \in Nat \ {0} /\ MaxChanges \in Nat
  /\ (U32 - 1) * PerPage \in Nat
<1>1. /\ Size \in Nat \ {0} /\ PerPage \in Nat \ {0} /\ U32 \in Nat \ {0} /\ MaxChanges \in Nat
  BY PagesAssumption DEF Size
<1>2. U32 - 1 \in Nat /\ PerPage \in Nat
  BY <1>1
<1> QED
  BY <1>1, <1>2, Multiples

\* Before the first page nothing is counted yet.
LEMMA FreshIsCounted ==
  ASSUME TypeOK, Fresh
  PROVE  Counted /\ Quiet
<1>1. stored \in Seq(Items) /\ Size \in Nat
  BY Sizes DEF TypeOK
<1>2. (1 - 1) * Size = 0
  BY <1>1
<1>3. Served = <<>> /\ Passed = 0
  BY <1>2 DEF Fresh, Served, Passed
<1>4. Balance({}, <<>>, 0, stored, 0, 0)
  BY <1>1, NothingServed
<1>5. Upto(stored, 0) = <<>>
  BY <1>1, UptoTheEnds
<1> QED
  BY <1>3, <1>4, <1>5 DEF Counted, Quiet, Fresh

LEMMA ListingStarts ==
  ASSUME Init
  PROVE  ListInv
<1>1. stored \in Seq(Items) /\ IsInjective(stored) /\ Len(stored) \in Nat
  BY ItemsAssumption DEF Init
<1>2. TypeOK
  <2>1. <<>> \in Seq(Items) /\ 0 \in 0..MaxChanges /\ 1 \in Nat \ {0}
    BY Sizes
  <2> QED
    BY <1>1, <2>1 DEF Init, TypeOK
<1>3. NotBegun /\ HidesAtMostRemoved /\ RepeatsAtMostAdded
  BY DEF Init, NotBegun, Fresh, HidesAtMostRemoved, RepeatsAtMostAdded, Done
<1>4. Fits
  <2>1. Len(stored) + MaxChanges <= (U32 - 1) * PerPage
    BY FitsAssumption DEF Init
  <2>2. (U32 - 1) * PerPage + 0 = (U32 - 1) * PerPage
    BY Sizes
  <2> QED
    BY <2>1, <2>2 DEF Init, Fits
<1> QED
  BY <1>2, <1>3, <1>4 DEF Init, ListInv

\* A call arrives, or its zone is found: nothing has been asked for yet.
LEMMA CallBegins ==
  ASSUME ListInv,
         \/ zones \/ dns_records \/ ZoneResolved
  PROVE  ListInv'
<1>1. /\ status \in {"idle", "zone"} /\ UNCHANGED <<token, page, listed, reply, stored, changes, history>>
      /\ status' \in {"zone", "page", "failed"}
      /\ tool' \in {"none", "zones", "dns_records"}
  BY DEF ListInv, TypeOK, zones, dns_records, Begin, ZoneResolved
<1>2. Fresh
  BY <1>1 DEF ListInv, NotBegun
<1>3. TypeOK' /\ Fresh'
  BY <1>1, <1>2 DEF ListInv, TypeOK, Fresh, history
<1>4. Counted' /\ Quiet'
  <2>1. TypeOK' /\ Fresh' => Counted' /\ Quiet'
    BY FreshIsCounted, PTL
  <2> QED
    BY <1>3, <2>1
<1>5. Fits'
  BY <1>1, <1>2 DEF ListInv, Fits, Fresh, history
<1>6. HidesAtMostRemoved' /\ RepeatsAtMostAdded'
  BY <1>1 DEF HidesAtMostRemoved, RepeatsAtMostAdded, Done
<1> QED
  BY <1>3, <1>4, <1>5, <1>6 DEF ListInv, NotBegun

LEMMA FailureDropsThePages ==
  ASSUME ListInv, RequestFailed
  PROVE  ListInv'
<1>1. TypeOK'
  <2>1. <<>> \in Seq(Items)
    OBVIOUS
  <2> QED
    BY <2>1 DEF ListInv, TypeOK, RequestFailed, history
<1>2. Fits'
  BY DEF ListInv, Fits, RequestFailed, history
<1> QED
  BY <1>1, <1>2 DEF ListInv, RequestFailed, NotBegun, HidesAtMostRemoved, RepeatsAtMostAdded, Done

LEMMA PageServed ==
  ASSUME ListInv, ServePage
  PROVE  ListInv'
<1> DEFINE r == PageOf(stored, page, Size)
           n == PagesOf(stored, Size)
           F0 == (page - 1) * Size
           F1 == page * Size
<1>1. /\ status = "page" /\ reply = None /\ UNCHANGED <<local, stored, changes, added, removed>>
      /\ reply' = [result |-> r, total_pages |-> n]
      /\ stable' = IF page = 1 THEN Range(stored) ELSE stable
  BY DEF ServePage
<1>2. UNCHANGED <<tool, token, status, page, listed, stored, changes, added, removed>>
  BY <1>1 DEF local
<1>3. /\ stored \in Seq(Items) /\ IsInjective(stored) /\ listed \in Seq(Items)
      /\ page \in Nat \ {0} /\ page \in Nat /\ Size \in Nat \ {0} /\ Size \in Nat
      /\ added \in Nat /\ removed \in Nat /\ Len(stored) \in Nat
  BY Sizes DEF ListInv, TypeOK
<1>4. Page(r, stored, F0, F1, Size, Items)
  BY <1>3, PageContents, ZenonT(60)
<1>5. n \in Nat /\ (n <= page <=> Len(stored) <= F1)
  BY <1>3, PagesReachTheEnd
<1>6. F0 \in Nat /\ F1 \in Nat /\ r \in Seq(Items)
  BY <1>3, <1>4 DEF Page
<1>7. Served = listed /\ Passed = F0 /\ Counted /\ Quiet
  BY <1>1 DEF Served, Passed, ListInv
<1>8. [result |-> r, total_pages |-> n] # None
  BY <1>5, <1>6, ItemsAssumption
<1>9. /\ Served' = listed \o r /\ Passed' = F1 /\ Size' = Size
      /\ reply' # None /\ reply'.result = r /\ reply'.total_pages = n
  BY <1>1, <1>2, <1>8 DEF Served, Passed, Size
<1>10. Balance(stable, listed, F0, stored, added, removed)
  BY <1>7 DEF Counted
<1> HIDE DEF r, n, F0, F1
<1>11. /\ Balance(stable', listed \o r, F1, stored, added, removed)
       /\ Len(stored) <= F1 => Cardinality(stable' \ Range(listed \o r)) <= removed
  <2>1. stable' = stable \/ (F0 = 0 /\ stable' = Range(stored))
    <3>1. (1 - 1) * Size = 0
      BY <1>3
    <3> QED
      BY <1>1, <3>1 DEF F0
  <2>2. /\ stored \in Seq(Items) /\ IsInjective(stored) /\ listed \in Seq(Items)
        /\ Size \in Nat /\ added \in Nat /\ removed \in Nat
    BY <1>3
  <2> QED
    BY <1>4, <1>10, <2>1, <2>2, PageKeepsBalance, ZenonT(60)
<1>12. Counted'
  BY <1>2, <1>5, <1>9, <1>11 DEF Counted
<1>13. Quiet'
  <2>1. Upto(stored, F0) \o r = Upto(stored, F1)
    BY <1>3, <1>4, PagesAddUp
  <2>2. added + removed = 0 => listed = Upto(stored, F0)
    BY <1>7 DEF Quiet
  <2>3. n = PagesOf(stored, Size)
    BY DEF n
  <2> QED
    BY <1>2, <1>9, <2>1, <2>2, <2>3 DEF Quiet
<1>14. TypeOK'
  <2>1. Range(stored) \subseteq Items
    BY <1>3, RangeOfAList
  <2>2. stable' \subseteq Items
    BY <1>1, <2>1 DEF ListInv, TypeOK
  <2>3. reply' \in [result: Seq(Items), total_pages: Nat]
    BY <1>1, <1>5, <1>6
  <2> QED
    BY <1>2, <2>2, <2>3 DEF ListInv, TypeOK
<1>15. Fits'
  <2>1. Len(stored) + MaxChanges <= (U32 - 1) * PerPage + changes
    BY DEF ListInv, Fits
  <2>2. tool = "dns_records" => n < U32
    <3> SUFFICES ASSUME tool = "dns_records" PROVE n < U32
      OBVIOUS
    <3>1. Size = PerPage
      BY DEF Size
    <3>2. changes \in Nat /\ changes <= MaxChanges
      BY Sizes DEF ListInv, TypeOK
    <3> DEFINE room == (U32 - 1) * PerPage
    <3>3. room \in Nat /\ MaxChanges \in Nat /\ U32 - 1 \in Nat /\ U32 \in Nat
      BY Sizes
    <3>4. Len(stored) + MaxChanges <= room + changes
      BY <2>1
    <3> HIDE DEF room
    <3>5. Len(stored) <= room
      BY <1>3, <3>2, <3>3, <3>4
    <3>6. PagesOf(stored, PerPage) <= U32 - 1
      <4>1. PerPage \in Nat \ {0} /\ Len(stored) <= (U32 - 1) * PerPage
        BY <3>5, Sizes DEF room
      <4> QED
        BY <1>3, <3>3, <4>1, PagesReachTheEnd
    <3> QED
      BY <1>5, <3>1, <3>3, <3>6 DEF n
  <2> QED
    BY <1>2, <1>9, <2>1, <2>2 DEF Fits
<1>16. NotBegun' /\ HidesAtMostRemoved' /\ RepeatsAtMostAdded'
  BY <1>1, <1>2, <1>9 DEF NotBegun, Listing, HidesAtMostRemoved, RepeatsAtMostAdded, Done
<1> QED
  BY <1>12, <1>13, <1>14, <1>15, <1>16 DEF ListInv

\* The page that ends the listing, and what the listing is worth then.
LEMMA LastPage ==
  ASSUME ListInv, PageReceived, status' = "done", tool = "dns_records"
  PROVE  /\ reply # None /\ page >= reply.total_pages
         /\ listed' = Served /\ Counted /\ Quiet
<1>1. /\ status = "page" /\ reply # None /\ page >= reply.total_pages % U32
      /\ listed' = listed \o reply.result
  BY DEF PageReceived, TakePage, total_pages
<1>2. reply.total_pages \in Nat /\ reply.total_pages < U32 /\ U32 \in Nat \ {0}
  BY <1>1, Sizes DEF ListInv, TypeOK, Fits
<1>3. reply.total_pages % U32 = reply.total_pages
  BY <1>2
<1> QED
  BY <1>1, <1>3 DEF Served, ListInv

LEMMA PageTaken ==
  ASSUME ListInv, PageReceived
  PROVE  ListInv'
<1>1. /\ status = "page" /\ reply # None /\ reply' = None
      /\ listed' = listed \o reply.result
      /\ UNCHANGED <<tool, token, stored, changes, history>>
      /\ \/ status' = "done" /\ page' = page
         \/ status' = "page" /\ page' = page + 1
  BY DEF PageReceived, TakePage
<1>2. /\ reply \in [result: Seq(Items), total_pages: Nat] /\ listed \in Seq(Items)
      /\ page \in Nat \ {0} /\ Counted /\ Quiet /\ Size' = Size
      /\ added \in Nat /\ removed \in Nat /\ stored \in Seq(Items) /\ Size \in Nat
  BY <1>1, Sizes DEF ListInv, TypeOK, Size
<1>3. TypeOK'
  <2>1. listed' \in Seq(Items) /\ page' \in Nat \ {0}
    BY <1>1, <1>2
  <2> QED
    BY <1>1, <2>1 DEF ListInv, TypeOK, history
<1>4. Fits'
  BY <1>1 DEF ListInv, Fits
<1>5. Served' = Served
  BY <1>1 DEF Served
<1>6. CASE status' = "page"
  <2>1. page' = page + 1 /\ (page + 1) - 1 = page /\ page + 1 > 1
    BY <1>1, <1>2, <1>6
  <2>2. Passed' = Passed
    BY <1>1, <1>2, <2>1 DEF Passed
  <2>3. Counted' /\ Quiet'
    BY <1>1, <1>2, <1>5, <2>2 DEF Counted, Quiet, history
  <2> QED
    BY <1>3, <1>4, <1>6, <2>1, <2>3
    DEF ListInv, NotBegun, Listing, HidesAtMostRemoved, RepeatsAtMostAdded, Done
<1>7. CASE status' = "done"
  <2>1. tool = "dns_records" => HidesAtMostRemoved'
    BY <1>1, <1>7, LastPage DEF Counted, HidesAtMostRemoved, history
  <2>2. tool = "dns_records" => RepeatsAtMostAdded'
    <3> SUFFICES ASSUME tool = "dns_records" PROVE RepeatsAtMostAdded'
      OBVIOUS
    <3>1. listed' = Served /\ Served \in Seq(Items)
      BY <1>1, <1>2 DEF Served
    <3>2. /\ Len(Served) - Cardinality(Range(Served))
               + Cardinality(Ahead(Served, Passed, stored)) <= added
          /\ stable \subseteq Range(stored)
      BY <1>2 DEF Counted, Balance
    <3>3. /\ Cardinality(Ahead(Served, Passed, stored)) \in Nat
          /\ Cardinality(Range(Served)) \in Nat /\ Len(Served) \in Nat
      BY <1>2, <3>1, <3>2, FiniteCounts
    <3>4. Len(Served) - Cardinality(Range(Served)) <= added
      BY <1>2, <3>2, <3>3
    <3> QED
      BY <1>1, <3>1, <3>4 DEF RepeatsAtMostAdded, history
  <2>3. HidesAtMostRemoved' /\ RepeatsAtMostAdded'
    BY <1>1, <2>1, <2>2 DEF HidesAtMostRemoved, RepeatsAtMostAdded, Done
  <2> QED
    BY <1>3, <1>4, <1>7, <2>3 DEF ListInv, NotBegun
<1> QED
  BY <1>1, <1>6, <1>7

\* A change that no listing is under way to see leaves every count alone.
LEMMA ChangeOutsideAListing ==
  ASSUME ListInv, Change, ~Listing, stored' \in Seq(Items), IsInjective(stored'), Fits'
  PROVE  ListInv'
<1>1. /\ UNCHANGED <<tool, token, status, page, listed, reply>>
      /\ changes' \in 0..MaxChanges
  BY Sizes DEF Change, local, ListInv, TypeOK
<1>2. UNCHANGED <<added, removed, stable>>
  BY DEF Change
<1>3. TypeOK'
  BY <1>1, <1>2 DEF ListInv, TypeOK
<1>4. NotBegun' /\ HidesAtMostRemoved' /\ RepeatsAtMostAdded'
  BY <1>1, <1>2
  DEF ListInv, NotBegun, Listing, Fresh, HidesAtMostRemoved, RepeatsAtMostAdded, Done
<1>5. ASSUME status' = "page" PROVE Counted' /\ Quiet'
  <2>1. Fresh'
    BY <1>1, <1>2, <1>5 DEF ListInv, NotBegun, Fresh
  <2>2. TypeOK' /\ Fresh' => Counted' /\ Quiet'
    BY FreshIsCounted, PTL
  <2> QED
    BY <1>3, <2>1, <2>2
<1> QED
  BY <1>3, <1>4, <1>5 DEF ListInv

LEMMA ServedSoFar ==
  ASSUME ListInv
  PROVE  Served \in Seq(Items) /\ Passed \in Nat
<1>1. /\ page \in Nat \ {0} /\ Size \in Nat /\ listed \in Seq(Items)
      /\ reply = None \/ reply \in [result: Seq(Items), total_pages: Nat]
  BY Sizes DEF ListInv, TypeOK
<1>2. Served \in Seq(Items)
  BY <1>1 DEF Served
<1>3. page - 1 \in Nat /\ page \in Nat
  BY <1>1
<1>4. (page - 1) * Size \in Nat /\ page * Size \in Nat
  BY <1>1, <1>3, Multiples
<1> QED
  BY <1>2, <1>4 DEF Passed

LEMMA ItemInserted ==
  ASSUME ListInv, Change, NEW i \in 1..(Len(stored) + 1), NEW x \in Items \ Range(stored),
         stored' = InsertAt(stored, i, x), added' = IF Listing THEN added + 1 ELSE added,
         UNCHANGED <<removed, stable>>
  PROVE  ListInv'
<1>1. /\ stored \in Seq(Items) /\ IsInjective(stored) /\ Len(stored) \in Nat
      /\ added \in Nat /\ removed \in Nat /\ changes \in 0..MaxChanges
      /\ Served \in Seq(Items) /\ Passed \in Nat
  BY ServedSoFar DEF ListInv, TypeOK
<1>2. /\ UNCHANGED <<tool, token, status, page, listed, reply>>
      /\ changes' = changes + 1 /\ changes < MaxChanges
  BY DEF Change, local
<1>3. IsInjective(stored')
  BY <1>1, InsertAtInjective, ZenonT(60)
<1>4. stored' \in Seq(Items) /\ Len(stored') = Len(stored) + 1
  <2>1. x \in Items
    OBVIOUS
  <2> QED
    BY <1>1, <2>1, InsertAtProperties, SMTT(60)
<1>5. Fits'
  <2> DEFINE room == (U32 - 1) * PerPage
  <2>1. room \in Nat /\ MaxChanges \in Nat
    BY Sizes
  <2>2. Len(stored) + MaxChanges <= room + changes
    BY DEF ListInv, Fits
  <2> HIDE DEF room
  <2>3. Len(stored') + MaxChanges <= room + changes'
    BY <1>1, <1>2, <1>4, <2>1, <2>2
  <2> QED
    BY <1>2, <2>3 DEF room, ListInv, Fits
<1>6. CASE ~Listing
  BY <1>3, <1>4, <1>5, <1>6, ChangeOutsideAListing
<1>7. CASE Listing
  <2>1. Served' = Served /\ Passed' = Passed /\ Size' = Size /\ Counted /\ added' = added + 1
    BY <1>2, <1>7 DEF Served, Passed, Size, ListInv, Listing
  <2>2. Balance(stable, Served, Passed, stored', added + 1, removed)
    <3>1. Balance(stable, Served, Passed, stored, added, removed)
      BY <2>1 DEF Counted
    <3> QED
      BY <1>1, <3>1, InsertionRepeatsOne, ZenonT(60)
  <2>3. Counted'
    BY <1>2, <2>1, <2>2 DEF Counted
  <2>4. Quiet'
    BY <1>1, <2>1 DEF Quiet
  <2>5. TypeOK'
    <3>1. changes' \in 0..MaxChanges /\ added' \in Nat
      BY <1>1, <1>2, <2>1, Sizes
    <3> QED
      BY <1>2, <1>3, <1>4, <3>1 DEF ListInv, TypeOK
  <2>6. NotBegun' /\ HidesAtMostRemoved' /\ RepeatsAtMostAdded'
    BY <1>2, <1>7 DEF NotBegun, Listing, HidesAtMostRemoved, RepeatsAtMostAdded, Done
  <2> QED
    BY <1>5, <2>3, <2>4, <2>5, <2>6 DEF ListInv
<1> QED
  BY <1>6, <1>7

LEMMA ItemRemoved ==
  ASSUME ListInv, Change, NEW i \in 1..Len(stored),
         stored' = RemoveAt(stored, i), removed' = IF Listing THEN removed + 1 ELSE removed,
         stable' = IF Listing THEN stable \ {stored[i]} ELSE stable, UNCHANGED added
  PROVE  ListInv'
<1>1. /\ stored \in Seq(Items) /\ IsInjective(stored) /\ Len(stored) \in Nat
      /\ added \in Nat /\ removed \in Nat /\ changes \in 0..MaxChanges
      /\ Served \in Seq(Items) /\ Passed \in Nat
  BY ServedSoFar DEF ListInv, TypeOK
<1>2. /\ UNCHANGED <<tool, token, status, page, listed, reply>>
      /\ changes' = changes + 1 /\ changes < MaxChanges
  BY DEF Change, local
<1>3. IsInjective(stored')
  BY <1>1, RemoveAtInjective, ZenonT(60)
<1>4. stored' \in Seq(Items) /\ Len(stored') = Len(stored) - 1
  BY <1>1, RemoveAtProperties, ZenonT(60)
<1>5. Fits'
  <2> DEFINE room == (U32 - 1) * PerPage
  <2>1. room \in Nat /\ MaxChanges \in Nat
    BY Sizes
  <2>2. Len(stored) + MaxChanges <= room + changes
    BY DEF ListInv, Fits
  <2> HIDE DEF room
  <2>3. Len(stored') + MaxChanges <= room + changes'
    BY <1>1, <1>2, <1>4, <2>1, <2>2
  <2> QED
    BY <1>2, <2>3 DEF room, ListInv, Fits
<1>6. CASE ~Listing
  BY <1>3, <1>4, <1>5, <1>6, ChangeOutsideAListing
<1>7. CASE Listing
  <2>1. /\ Served' = Served /\ Passed' = Passed /\ Size' = Size /\ Counted
        /\ removed' = removed + 1 /\ stable' = stable \ {stored[i]}
    BY <1>2, <1>7 DEF Served, Passed, Size, ListInv, Listing
  <2>2. Balance(stable, Served, Passed, stored, added, removed)
    BY <2>1 DEF Counted
  <2>3. Balance(stable \ {stored[i]}, Served, Passed, stored', added, removed + 1)
    BY <1>1, <2>2, RemovalHidesOne, ZenonT(60)
  <2>4. ASSUME reply # None, page >= reply.total_pages
        PROVE  Cardinality(stable' \ Range(Served)) <= removed + 1
    <3>1. IsFiniteSet(stable \ Range(Served)) /\ Cardinality(stable \ Range(Served)) \in Nat
      <4>1. stable \subseteq Range(stored)
        BY <2>2 DEF Balance
      <4> QED
        BY <1>1, <4>1, FiniteCounts
    <3>2. stable' \ Range(Served) \subseteq stable \ Range(Served)
      BY <2>1
    <3>3. /\ Cardinality(stable' \ Range(Served)) <= Cardinality(stable \ Range(Served))
          /\ Cardinality(stable' \ Range(Served)) \in Nat
      BY <3>1, <3>2, NoMore
    <3>4. Cardinality(stable \ Range(Served)) <= removed
      BY <2>1, <2>4 DEF Counted
    <3> QED
      BY <1>1, <3>1, <3>3, <3>4
  <2>5. Counted'
    BY <1>2, <2>1, <2>3, <2>4 DEF Counted
  <2>6. Quiet'
    BY <1>1, <2>1 DEF Quiet
  <2>7. TypeOK'
    <3>1. changes' \in 0..MaxChanges /\ removed' \in Nat /\ stable' \subseteq Items
      BY <1>1, <1>2, <2>1, Sizes DEF ListInv, TypeOK
    <3> QED
      BY <1>2, <1>3, <1>4, <3>1 DEF ListInv, TypeOK
  <2>8. NotBegun' /\ HidesAtMostRemoved' /\ RepeatsAtMostAdded'
    BY <1>2, <1>7 DEF NotBegun, Listing, HidesAtMostRemoved, RepeatsAtMostAdded, Done
  <2> QED
    BY <1>5, <2>5, <2>7, <2>8, <2>6 DEF ListInv
<1> QED
  BY <1>6, <1>7

LEMMA ListingStutters ==
  ASSUME ListInv, UNCHANGED vars
  PROVE  ListInv'
BY DEF ListInv, TypeOK, NotBegun, Fresh, Fits, Counted, Quiet, Served, Passed, Size, Listing,
       HidesAtMostRemoved, RepeatsAtMostAdded, Done, vars, local, history

LEMMA ListingSteps ==
  ASSUME ListInv, [Next]_vars
  PROVE  ListInv'
<1>1. CASE zones \/ dns_records \/ ZoneResolved
  BY <1>1, CallBegins
<1>2. CASE PageReceived
  BY <1>2, PageTaken
<1>3. CASE RequestFailed
  BY <1>3, FailureDropsThePages
<1>4. CASE ServePage
  BY <1>4, PageServed
<1>5. CASE Change
  <2>1. \/ \E i \in 1..(Len(stored) + 1), x \in Items \ Range(stored) :
             /\ stored' = InsertAt(stored, i, x)
             /\ added' = IF Listing THEN added + 1 ELSE added
             /\ UNCHANGED <<removed, stable>>
        \/ \E i \in 1..Len(stored) :
             /\ stored' = RemoveAt(stored, i)
             /\ removed' = IF Listing THEN removed + 1 ELSE removed
             /\ stable' = IF Listing THEN stable \ {stored[i]} ELSE stable
             /\ UNCHANGED added
    BY <1>5 DEF Change
  <2> QED
    BY <1>5, <2>1, ItemInserted, ItemRemoved
<1>6. CASE UNCHANGED vars
  BY <1>6, ListingStutters
<1> QED
  BY <1>1, <1>2, <1>3, <1>4, <1>5, <1>6 DEF Next, Resume, Finished

(***************************************************************************)
(* In every state of every listing the items handed out and the changes    *)
(* made so far are in balance; what the code concludes from the last page  *)
(* rests on this.                                                          *)
(***************************************************************************)
THEOREM ListingInvariant == Spec => []ListInv
<1>1. Init => ListInv
  BY ListingStarts
<1>2. ListInv /\ [Next]_vars => ListInv'
  BY ListingSteps
<1> QED
  BY <1>1, <1>2, PTL DEF Spec

\* Every variable keeps its type: the page is never 0, the list the API holds
\* never repeats a record, and the history counts are counts.
THEOREM ListingTypeCorrect == Spec => []TypeOK
<1>1. ListInv => TypeOK
  BY DEF ListInv
<1> QED
  BY <1>1, ListingInvariant, PTL

\* For zones and pages of any size: a record removed while dns_records reads the
\* pages hides at most one other record that was there all the time.
THEOREM RemovalsHideNoMore == Spec => []HidesAtMostRemoved
<1>1. ListInv => HidesAtMostRemoved
  BY DEF ListInv
<1> QED
  BY <1>1, ListingInvariant, PTL

\* A record added while dns_records reads the pages repeats at most one.
THEOREM AdditionsRepeatNoMore == Spec => []RepeatsAtMostAdded
<1>1. ListInv => RepeatsAtMostAdded
  BY DEF ListInv
<1> QED
  BY <1>1, ListingInvariant, PTL

LEMMA OnlyTheLastPageEnds ==
  ASSUME ListInv, [Next]_vars, Done', ~Done
  PROVE  PageReceived /\ tool = "dns_records" /\ status' = "done"
<1>1. CASE zones \/ dns_records \/ ZoneResolved
  BY <1>1 DEF zones, dns_records, Begin, ZoneResolved, Done
<1>2. CASE PageReceived
  BY <1>2 DEF PageReceived, TakePage, Done
<1>3. CASE RequestFailed
  BY <1>3 DEF RequestFailed, Done
<1>4. CASE ServePage
  BY <1>4 DEF ServePage, local, Done
<1>5. CASE Change
  BY <1>5 DEF Change, local, Done
<1>6. CASE UNCHANGED vars
  BY <1>6 DEF vars, local, Done
<1> QED
  BY <1>1, <1>2, <1>3, <1>4, <1>5, <1>6 DEF Next, Resume, Finished

\* When nothing changes while dns_records reads the pages, it returns exactly
\* the records of the zone, in order, whatever their number and the page size.
THEOREM AQuietListingIsExact == Spec => QuietListingIsExact
<1>1. ASSUME ListInv, [Next]_vars, Done', ~Done, added + removed = 0
      PROVE  listed' = stored
  <2>1. PageReceived /\ tool = "dns_records" /\ status' = "done"
    BY <1>1, OnlyTheLastPageEnds
  <2>2. reply # None /\ page >= reply.total_pages /\ listed' = Served /\ Quiet
    BY <1>1, <2>1, LastPage
  <2>3. /\ Passed = page * Size /\ Served = Upto(stored, Passed)
        /\ reply.total_pages = PagesOf(stored, Size)
    BY <1>1, <2>2 DEF Quiet, Passed
  <2>4. /\ stored \in Seq(Items) /\ Size \in Nat \ {0} /\ page \in Nat
        /\ PagesOf(stored, Size) \in Nat /\ Passed \in Nat
    <3>1. stored \in Seq(Items) /\ Size \in Nat \ {0} /\ page \in Nat /\ Passed \in Nat
      BY <1>1, Sizes, ServedSoFar DEF ListInv, TypeOK
    <3>2. PagesOf(stored, Size) \in Nat
      BY <3>1, PagesReachTheEnd
    <3> QED
      BY <3>1, <3>2
  <2>5. PagesOf(stored, Size) <= page
    BY <2>2, <2>3, <2>4
  <2>6. Len(stored) <= Passed
    BY <2>3, <2>4, <2>5, PagesReachTheEnd
  <2>7. Upto(stored, Passed) = stored
    BY <2>4, <2>6, UptoTheEnds
  <2> QED
    BY <2>2, <2>3, <2>7
<1>2. ListInv /\ [Next]_vars => [Done' /\ ~Done /\ added + removed = 0 => listed' = stored]_vars
  BY <1>1
<1> QED
  BY <1>2, ListingInvariant, PTL DEF Spec, QuietListingIsExact
=============================================================================
