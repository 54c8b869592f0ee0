-------------------------- MODULE RdapLookupProofs --------------------------
(***************************************************************************)
(* Proofs about BoundedBody, for every cap, every width of usize and every *)
(* way a peer may declare and cut a body, and, on top of them, about       *)
(* RdapLookup, for every domain, every chain of redirects and every body.  *)
(***************************************************************************)
EXTENDS RdapLookup, SequenceTheorems, WellFoundedInduction, TLAPS

\* While a body is read the buffer holds all of it, and the declared length
\* has passed the check; before that nothing has arrived.
Reading ==
  /\ phase = "head" => arrived = 0 /\ length = 0
  /\ phase = "reading" => length = arrived /\ (declared # None => declared <= Cap)

IInv == TypeOK /\ HeldWithinCap /\ ReturnedWhole /\ RefusedOnlyIfTooLarge /\ Reading

(***************************************************************************)
(* Saturation does not hide an overflow: the sum is compared with a cap    *)
(* below SizeMax, so the saturated sum exceeds it when the true one does.  *)
(***************************************************************************)
LEMMA SaturatingAddIsExactAtTheCap ==
  \A m, n \in Nat : saturating_add(m, n) <= Cap <=> m + n <= Cap
BY CapAssumption DEF saturating_add

LEMMA ChunkPreserves ==
  ASSUME NEW n \in 1..SizeMax, IInv, Chunk(n)
  PROVE  IInv'
<1> USE CapAssumption, DeclaredAssumption
<1> n \in Nat /\ n > 0
  OBVIOUS
<1>1. /\ phase = "reading" /\ declared' = declared /\ arrived' = arrived + n
      /\ length = arrived /\ length \in Nat /\ arrived \in Nat
      /\ declared # None => declared \in Nat /\ declared <= Cap /\ arrived' <= declared
      /\ declared \in {None} \cup 0..MaxDeclared
  BY DEF Chunk, IInv, TypeOK, Reading
<1>2. CASE length + n > Cap
  <2>1. phase' = "exceeded" /\ length' = length
    BY <1>1, <1>2, SaturatingAddIsExactAtTheCap DEF Chunk, saturating_add
  <2> QED
    BY <1>1, <1>2, <2>1
    DEF IInv, TypeOK, HeldWithinCap, ReturnedWhole, RefusedOnlyIfTooLarge, Reading, Outcomes, Cap
<1>3. CASE length + n <= Cap
  <2>1. phase' = phase /\ length' = length + n
    BY <1>1, <1>3, SaturatingAddIsExactAtTheCap DEF Chunk, saturating_add
  <2> QED
    BY <1>1, <1>3, <2>1
    DEF IInv, TypeOK, HeldWithinCap, ReturnedWhole, RefusedOnlyIfTooLarge, Reading, Outcomes, Cap
<1> QED
  BY <1>1, <1>2, <1>3 DEF Cap

(***************************************************************************)
(* Every reachable state holds no more than the cap, and returns only      *)
(* whole bodies.                                                           *)
(***************************************************************************)
THEOREM SpecIInv == Spec => []IInv
<1> USE CapAssumption, DeclaredAssumption
<1>1. Init => IInv
  BY DEF Init, IInv, TypeOK, HeldWithinCap, ReturnedWhole, RefusedOnlyIfTooLarge, Reading,
         Outcomes, Cap
<1>2. IInv /\ [Next]_vars => IInv'
  <2> SUFFICES ASSUME IInv, [Next]_vars PROVE IInv'
    OBVIOUS
  <2>1. CASE CheckLength
    BY <2>1 DEF CheckLength, IInv, TypeOK, HeldWithinCap, ReturnedWhole,
                RefusedOnlyIfTooLarge, Reading, Outcomes, Cap
  <2>2. CASE \E n \in 1..SizeMax : Chunk(n)
    BY <2>2, ChunkPreserves
  <2>3. CASE End
    BY <2>3 DEF End, IInv, TypeOK, HeldWithinCap, ReturnedWhole, RefusedOnlyIfTooLarge,
                Reading, Outcomes
  <2>4. CASE Break
    BY <2>4 DEF Break, IInv, TypeOK, HeldWithinCap, ReturnedWhole, RefusedOnlyIfTooLarge,
                Reading, Outcomes
  <2>5. CASE UNCHANGED vars
    BY <2>5 DEF vars, IInv, TypeOK, HeldWithinCap, ReturnedWhole, RefusedOnlyIfTooLarge,
                Reading
  <2> QED
    BY <2>1, <2>2, <2>3, <2>4, <2>5 DEF Next, Finished
<1> QED
  BY <1>1, <1>2, PTL DEF Spec

(***************************************************************************)
(* Type correctness.                                                       *)
(***************************************************************************)
THEOREM TypeCorrect == Spec => []TypeOK
BY SpecIInv, PTL DEF IInv

(***************************************************************************)
(* The buffer never holds more than the cap (read_bounded_body refuses     *)
(* "anything past MAX_UPSTREAM_RESPONSE_BYTES").                           *)
(***************************************************************************)
THEOREM NeverPastTheCap == Spec => []HeldWithinCap
BY SpecIInv, PTL DEF IInv

(***************************************************************************)
(* What is returned is whole: nothing is cut off, at the cap or below.     *)
(***************************************************************************)
THEOREM ExactAtTheCap == Spec => []ReturnedWhole
BY SpecIInv, PTL DEF IInv

(***************************************************************************)
(* Only a body that is over the cap is refused for its size.               *)
(***************************************************************************)
THEOREM RefusedForItsSize == Spec => []RefusedOnlyIfTooLarge
BY SpecIInv, PTL DEF IInv

----------------------------------------------------------------------------

(***************************************************************************)
(* A lookup uses the reader as BoundedBody describes it: everything proved *)
(* of that module holds of the body of the last hop.                       *)
(***************************************************************************)
THEOREM LookupReadsBounded == RdapSpec => Spec
<1>1. RdapInit => Init
  BY DEF RdapInit
<1>2. [RdapNext]_rdapVars => [Next]_vars
  BY DEF RdapNext, rdapVars, Next, registrar_status, SendFails, Redirected, LastHop, ReadBody,
         Answered
<1> QED
  BY <1>1, <1>2, PTL DEF RdapSpec, Spec

----------------------------------------------------------------------------
(***************************************************************************)
(* What parse_rdap finds.                                                  *)
(***************************************************************************)
\* A set of positions that is not empty has a first one.
LEMMA FirstPosition ==
  ASSUME NEW S, S \subseteq Nat, S # {}
  PROVE  Min(S) \in S /\ \A k \in S : Min(S) <= k
<1> DEFINE R == OpToRel(<, Nat)
<1>1. \A m, n \in Nat : m < n => <<m, n>> \in R
  BY DEF OpToRel
<1>2. IsWellFoundedOn(R, Nat)
  BY NatLessThanWellFounded
<1> HIDE DEF R
<1>3. PICK x \in S : \A y \in S : ~ (<<y, x>> \in R)
  BY <1>2, WFMin
<1>4. \A y \in S : x <= y
  <2> SUFFICES ASSUME NEW y \in S, y < x PROVE FALSE
    OBVIOUS
  <2> QED
    BY <1>1, <1>3
<1> QED
  BY <1>4 DEF Min

FactsOf(j, r) ==
  /\ IF r.registrar = None
     THEN \A i \in DOMAIN j.entities :
            LET e == j.entities[i] IN e.registrar => e.fn = None /\ e.handle = None
     ELSE \E i \in DOMAIN j.entities :
            LET e == j.entities[i] IN e.registrar /\ r.registrar \in {e.fn, e.handle}
  /\ r.expiry # None => \E i \in DOMAIN j.events :
       j.events[i] = [expiration |-> TRUE, date |-> r.expiry]

LEMMA ParsedFactsAreTheDocuments ==
  ASSUME NEW j \in Documents, NEW d
  PROVE  FactsOf(j, parse_rdap(d, j))
<1>1. /\ j \in Document /\ j.entities \in Seq(Entity) /\ j.events \in Seq(RdapEvent)
      /\ DOMAIN j.entities \subseteq Nat /\ DOMAIN j.events \subseteq Nat
  BY RdapAssumption DEF Document
<1> DEFINE named == {i \in DOMAIN j.entities :
                       /\ j.entities[i].registrar
                       /\ j.entities[i].fn # None \/ j.entities[i].handle # None}
           ends == {i \in DOMAIN j.events : j.events[i].expiration}
<1>2. named # {} => Min(named) \in named
  <2>1. named \subseteq Nat
    BY <1>1
  <2> HIDE DEF named
  <2> QED
    BY <2>1, FirstPosition
<1>3. ends # {} => Min(ends) \in ends
  <2>1. ends \subseteq Nat
    BY <1>1
  <2> HIDE DEF ends
  <2> QED
    BY <2>1, FirstPosition
<1>4. rdap_registrar(j) = IF named = {} THEN None
        ELSE IF j.entities[Min(named)].fn # None THEN j.entities[Min(named)].fn
        ELSE j.entities[Min(named)].handle
  BY DEF rdap_registrar
<1>5. Expiry(j) = IF ends = {} THEN None ELSE j.events[Min(ends)].date
  BY DEF Expiry
<1>6. /\ parse_rdap(d, j).registrar = rdap_registrar(j)
      /\ parse_rdap(d, j).expiry = Expiry(j)
  BY DEF parse_rdap
<1>7. rdap_registrar(j) = None => named = {}
  BY <1>2, <1>4
<1>8. rdap_registrar(j) # None => \E i \in DOMAIN j.entities :
        j.entities[i].registrar /\ rdap_registrar(j) \in {j.entities[i].fn, j.entities[i].handle}
  BY <1>2, <1>4
<1>9. Expiry(j) # None => \E i \in DOMAIN j.events :
        j.events[i] = [expiration |-> TRUE, date |-> Expiry(j)]
  <2> SUFFICES ASSUME Expiry(j) # None
               PROVE  \E i \in DOMAIN j.events :
                        j.events[i] = [expiration |-> TRUE, date |-> Expiry(j)]
    OBVIOUS
  <2>1. PICK i \in DOMAIN j.events : j.events[i].expiration /\ Expiry(j) = j.events[i].date
    BY <1>3, <1>5
  <2>2. j.events[i] \in RdapEvent
    BY <1>1
  <2> QED
    BY <2>1, <2>2 DEF RdapEvent
<1> QED
  BY <1>6, <1>7, <1>8, <1>9 DEF FactsOf
----------------------------------------------------------------------------
(***************************************************************************)
(* The inductive invariant: how far the chain has come can be told from    *)
(* what was asked and what was heard.                                      *)
(***************************************************************************)
Url == {resolve_location(l) : l \in Locations}
         \cup {[host |-> RDAP_BASE, path |-> validate_domain(d)] : d \in Domains}
HeadOf == [status: {"success", "redirect", "other"}, location: Locations \cup {None}]

Hops ==
  /\ domain \in Domains
  /\ asked \in Seq(Url) /\ heads \in Seq(HeadOf)
  /\ Len(asked) <= 2
  /\ stage = "start" => Len(asked) = 0 /\ Len(heads) = 0
  /\ stage = "awaiting" => Len(asked) \in {1, 2} /\ Len(heads) = Len(asked) - 1
  /\ stage = "body" => Len(asked) \in {1, 2} /\ Len(heads) = Len(asked)
  /\ stage \in {"start", "awaiting", "body", "done"}
  /\ stage # "done" => result.kind = "none"

RInv == Hops /\ RequestsAreDue /\ FactsAreTheLastHops

Errors == {"none", "invalid domain", "request failed", "no location", "returned a status",
           "not JSON"} \cup Outcomes

LEMMA ErrorsAreNoFacts == \A w : Error(w).kind = w
BY DEF Error

LEMMA RdapInitInv == RdapInit => RInv
BY ErrorsAreNoFacts
DEF RdapInit, RInv, Hops, RequestsAreDue, FactsAreTheLastHops

LEMMA FirstRequest == RInv /\ registrar_status => RInv'
<1> SUFFICES ASSUME RInv, registrar_status PROVE RInv'
  OBVIOUS
<1>1. /\ stage = "start" /\ asked = <<>> /\ heads = <<>> /\ domain \in Domains
      /\ heads' = heads /\ domain' = domain /\ content' = content
      /\ <<>> \in Seq(Url) /\ <<>> \in Seq(HeadOf)
  <2>1. stage = "start" /\ asked \in Seq(Url) /\ heads \in Seq(HeadOf)
        /\ Len(asked) = 0 /\ Len(heads) = 0 /\ domain \in Domains
    BY DEF RInv, Hops, registrar_status
  <2>2. asked = <<>> /\ heads = <<>>
    BY <2>1, EmptySeq
  <2> QED
    BY <2>1, <2>2 DEF registrar_status
<1>2. CASE ~ValidDomain(domain) /\ Answer(Error("invalid domain")) /\ UNCHANGED asked
  BY <1>1, <1>2, ErrorsAreNoFacts
  DEF Answer, RInv, Hops, RequestsAreDue, FactsAreTheLastHops
<1>3. CASE /\ ValidDomain(domain)
           /\ asked' = <<[host |-> RDAP_BASE, path |-> validate_domain(domain)]>>
           /\ stage' = "awaiting" /\ UNCHANGED result
  <2> DEFINE u == [host |-> RDAP_BASE, path |-> validate_domain(domain)]
  <2>1. u \in Url
    BY <1>1 DEF Url
  <2>2. asked' = <<u>>
    BY <1>3
  <2>3. ValidDomain(domain)' /\ u' = u /\ result.kind = "none"
    BY <1>1, <1>3 DEF RInv, Hops
  <2> HIDE DEF u
  <2>4. asked' \in Seq(Url) /\ Len(asked') = 1 /\ asked'[1] = u
    BY <2>1, <2>2
  <2>5. Hops'
    BY <1>1, <1>3, <2>3, <2>4 DEF Hops
  <2>6. RequestsAreDue' /\ FactsAreTheLastHops'
    BY <1>1, <1>3, <2>3, <2>4 DEF RequestsAreDue, FactsAreTheLastHops, u
  <2> QED
    BY <2>5, <2>6 DEF RInv
<1> QED
  BY <1>2, <1>3 DEF registrar_status
LEMMA RequestFails == RInv /\ SendFails => RInv'
<1> SUFFICES ASSUME RInv, SendFails PROVE RInv'
  OBVIOUS
<1>1. /\ stage' = "done" /\ result' = Error("request failed")
      /\ domain' = domain /\ asked' = asked /\ heads' = heads
  BY DEF SendFails, Answer
<1>2. result'.kind = "request failed"
  BY <1>1, ErrorsAreNoFacts
<1> QED
  BY <1>1, <1>2 DEF RInv, Hops, RequestsAreDue, FactsAreTheLastHops

\* A head is appended; the earlier ones keep their places.
LEMMA HeadAppended ==
  ASSUME RInv, NEW st \in {"success", "redirect", "other"}, NEW l \in Locations \cup {None},
         HeadArrives(st, l)
  PROVE  /\ stage = "awaiting" /\ domain' = domain /\ content' = content
         /\ Len(asked) \in {1, 2} /\ result.kind = "none"
         /\ heads' \in Seq(HeadOf) /\ Len(heads') = Len(asked)
         /\ heads'[Len(asked)] = [status |-> st, location |-> l]
         /\ Len(asked) = 2 => heads'[1] = heads[1]
<1>1. /\ stage = "awaiting" /\ heads \in Seq(HeadOf) /\ Len(asked) \in {1, 2}
      /\ Len(heads) = Len(asked) - 1 /\ result.kind = "none"
      /\ heads' = Append(heads, [status |-> st, location |-> l])
      /\ domain' = domain /\ content' = content
  BY DEF HeadArrives, RInv, Hops
<1>2. [status |-> st, location |-> l] \in HeadOf
  BY DEF HeadOf
<1> QED
  BY <1>1, <1>2, AppendProperties

LEMMA RedirectFollowed == RInv /\ Redirected => RInv'
<1> SUFFICES ASSUME RInv, Redirected PROVE RInv'
  OBVIOUS
<1>0. asked \in Seq(Url) /\ domain \in Domains
  BY DEF RInv, Hops
<1>1. Len(asked) = 1
  BY DEF Redirected
<1>2. PICK l \in Locations \cup {None} :
        /\ HeadArrives("redirect", l)
        /\ \/ l = None /\ Answer(Error("no location")) /\ UNCHANGED asked
           \/ /\ l # None
              /\ asked' = Append(asked, resolve_location(l)) /\ UNCHANGED <<stage, result>>
  BY DEF Redirected
<1>3. /\ stage = "awaiting" /\ domain' = domain /\ content' = content /\ result.kind = "none"
      /\ heads' \in Seq(HeadOf) /\ Len(heads') = 1
      /\ heads'[1] = [status |-> "redirect", location |-> l]
  BY <1>1, <1>2, HeadAppended
<1>4. asked[1] = [host |-> RDAP_BASE, path |-> validate_domain(domain)] /\ ValidDomain(domain)
  BY <1>1 DEF RInv, RequestsAreDue
<1>5. CASE l = None /\ Answer(Error("no location")) /\ UNCHANGED asked
  <2>1. stage' = "done" /\ result' = Error("no location") /\ asked' = asked
    BY <1>5 DEF Answer
  <2>2. result'.kind = "no location"
    BY <2>1, ErrorsAreNoFacts
  <2>3. Len(asked') = 1
    BY <1>1, <2>1
  <2>4. asked' \in Seq(Url) /\ domain' \in Domains
    BY <1>0, <1>3, <2>1
  <2>5. Hops'
    <3>1. heads' \in Seq(HeadOf) /\ stage' = "done"
      BY <1>3, <2>1
    <3> QED
      BY <2>3, <2>4, <3>1 DEF Hops
  <2>6. RequestsAreDue'
    <3>1. asked'[1] = asked[1] /\ domain' = domain
      BY <1>3, <2>1
    <3> QED
      BY <1>4, <2>3, <3>1 DEF RequestsAreDue
  <2> QED
    BY <2>2, <2>5, <2>6 DEF RInv, FactsAreTheLastHops
<1>6. CASE /\ l # None
           /\ asked' = Append(asked, resolve_location(l)) /\ UNCHANGED <<stage, result>>
  <2> DEFINE u == resolve_location(l)
  <2>1. u \in Url /\ l \in Locations
    BY <1>6 DEF Url
  <2>2. asked' = Append(asked, u)
    BY <1>6
  <2>3. u = resolve_location(heads'[1].location)
    BY <1>3
  <2> HIDE DEF u
  <2>4. asked' \in Seq(Url) /\ Len(asked') = 2 /\ asked'[1] = asked[1] /\ asked'[2] = u
    <3>1. /\ asked' \in Seq(Url) /\ Len(asked') = Len(asked) + 1
          /\ \A i \in 1..Len(asked) : asked'[i] = asked[i]
          /\ asked'[Len(asked) + 1] = u
      BY <1>0, <2>1, <2>2, AppendProperties
    <3> QED
      BY <1>1, <3>1
  <2>5. Hops'
    BY <1>0, <1>3, <1>6, <2>4 DEF Hops
  <2>6. RequestsAreDue'
    BY <1>3, <1>4, <1>6, <2>3, <2>4 DEF RequestsAreDue
  <2>7. FactsAreTheLastHops'
    BY <1>3, <1>6 DEF FactsAreTheLastHops
  <2> QED
    BY <2>5, <2>6, <2>7 DEF RInv
<1> QED
  BY <1>2, <1>5, <1>6

LEMMA LastHopReached == RInv /\ LastHop => RInv'
<1> SUFFICES ASSUME RInv, LastHop PROVE RInv'
  OBVIOUS
<1>1. PICK st \in {"success", "redirect", "other"} : HeadArrives(st, None)
  BY DEF LastHop
<1>2. stage' = "body" /\ asked' = asked /\ result' = result
  BY DEF LastHop
<1>3. /\ stage = "awaiting" /\ domain' = domain /\ content' = content
      /\ Len(asked) \in {1, 2} /\ result.kind = "none"
      /\ heads' \in Seq(HeadOf) /\ Len(heads') = Len(asked)
      /\ Len(asked) = 2 => heads'[1] = heads[1]
  BY <1>1, HeadAppended
<1>4. Hops'
  BY <1>2, <1>3 DEF RInv, Hops
<1>5. RequestsAreDue'
  BY <1>2, <1>3 DEF RInv, RequestsAreDue
<1>6. FactsAreTheLastHops'
  BY <1>2, <1>3 DEF FactsAreTheLastHops
<1> QED
  BY <1>4, <1>5, <1>6 DEF RInv

\* The verdict is one of the errors, or the facts of a document that came
\* whole and with success.
LEMMA VerdictIsSound ==
  ASSUME NEW p \in Outcomes, NEW st, NEW j \in Documents \cup {None}, Verdict(p, st, j).kind = "facts"
  PROVE  /\ p = "whole" /\ st = "success" /\ j \in Documents
         /\ FactsOf(j, Verdict(p, st, j))
<1>1. p = "whole" /\ st = "success" /\ j # None
  <2>1. p = "whole"
    <3> SUFFICES ASSUME p # "whole" PROVE FALSE
      OBVIOUS
    <3>1. Verdict(p, st, j) = Error(p)
      BY DEF Verdict
    <3> QED
      BY <3>1, ErrorsAreNoFacts DEF Outcomes
  <2>2. st # "success" => Verdict(p, st, j) = Error("returned a status")
    BY <2>1 DEF Verdict
  <2>3. st = "success" /\ j = None => Verdict(p, st, j) = Error("not JSON")
    BY <2>1 DEF Verdict
  <2>4. /\ Error("returned a status").kind = "returned a status"
        /\ Error("not JSON").kind = "not JSON"
    BY ErrorsAreNoFacts
  <2> QED
    BY <2>1, <2>2, <2>3, <2>4
<1>2. Verdict(p, st, j) = parse_rdap(validate_domain(domain), j)
  BY <1>1 DEF Verdict
<1> QED
  BY <1>1, <1>2, ParsedFactsAreTheDocuments

LEMMA BodyRead == RInv /\ HeldWithinCap' /\ ReadBody => RInv'
<1> SUFFICES ASSUME RInv, HeldWithinCap', ReadBody PROVE RInv'
  OBVIOUS
<1>1. /\ stage = "body" /\ domain' = domain /\ asked' = asked /\ heads' = heads
      /\ Len(heads) = Len(asked) /\ result.kind = "none"
  BY DEF ReadBody, RInv, Hops
<1>2. CASE phase' \notin Outcomes /\ UNCHANGED <<stage, content, result>>
  BY <1>1, <1>2 DEF RInv, Hops, RequestsAreDue, FactsAreTheLastHops
<1>3. CASE phase' \in Outcomes
  <2>1. /\ content' \in Documents \cup {None} /\ stage' = "done"
        /\ result' = Verdict(phase', heads[Len(heads)].status, content')
    BY <1>3 DEF ReadBody, Answer
  <2>2. Hops' /\ RequestsAreDue'
    BY <1>1, <2>1 DEF RInv, Hops, RequestsAreDue
  <2>3. FactsAreTheLastHops'
    <3> SUFFICES ASSUME result'.kind = "facts"
                 PROVE  /\ phase' = "whole" /\ length' <= Cap
                        /\ heads[Len(heads)].status = "success"
                        /\ content' \in Documents /\ FactsOf(content', result')
      BY <1>1 DEF FactsAreTheLastHops, FactsOf, Cap
    <3>1. length' <= Cap
      BY DEF HeldWithinCap, Cap
    <3>2. Verdict(phase', heads[Len(heads)].status, content').kind = "facts"
      BY <2>1
    <3> QED
      BY <1>3, <2>1, <3>1, <3>2, VerdictIsSound
  <2> QED
    BY <2>2, <2>3 DEF RInv
<1> QED
  BY <1>2, <1>3 DEF ReadBody

(***************************************************************************)
(* The invariant holds of every lookup.                                    *)
(***************************************************************************)
THEOREM LookupInv == RdapSpec => []RInv
<1>1. RInv /\ HeldWithinCap' /\ [RdapNext]_rdapVars => RInv'
  <2> SUFFICES ASSUME RInv, HeldWithinCap', [RdapNext]_rdapVars PROVE RInv'
    OBVIOUS
  <2>1. CASE UNCHANGED rdapVars
    BY <2>1 DEF rdapVars, vars, lookupVars, RInv, Hops, RequestsAreDue, FactsAreTheLastHops
  <2> QED
    BY <2>1, FirstRequest, RequestFails, RedirectFollowed, LastHopReached, BodyRead
    DEF RdapNext, Answered
<1>2. RdapSpec => []HeldWithinCap
  BY LookupReadsBounded, NeverPastTheCap, PTL
<1> QED
  BY <1>1, <1>2, RdapInitInv, PTL DEF RdapSpec

(***************************************************************************)
(* At most one redirect is followed, and only to where it points.          *)
(***************************************************************************)
THEOREM OneRedirectAtMost == RdapSpec => []RequestsAreDue
BY LookupInv, PTL DEF RInv

(***************************************************************************)
(* What is reported was said by the last server, in a whole body.          *)
(***************************************************************************)
THEOREM FactsAreFromTheLastHop == RdapSpec => []FactsAreTheLastHops
BY LookupInv, PTL DEF RInv
----------------------------------------------------------------------------
(***************************************************************************)
(* Type correctness.  Hops says nothing of the reader: that it has not     *)
(* begun before the head of the last hop is there is an invariant of its   *)
(* own, inductive with the reader's.                                       *)
(***************************************************************************)
BodyInv ==
  /\ content \in Documents \cup {None}
  /\ stage \in {"start", "awaiting"} => phase = "head"

LEMMA BodyNotBegun ==
  ASSUME RInv, BodyInv, [RdapNext]_rdapVars
  PROVE  BodyInv'
<1>1. CASE registrar_status
  BY <1>1 DEF registrar_status, Answer, BodyInv, vars
<1>2. CASE SendFails
  BY <1>2 DEF SendFails, Answer, BodyInv, vars
<1>3. CASE Redirected
  BY <1>3 DEF Redirected, HeadArrives, Answer, BodyInv, vars
<1>4. CASE LastHop
  BY <1>4 DEF LastHop, HeadArrives, BodyInv, vars
<1>5. CASE ReadBody
  BY <1>5 DEF ReadBody, Answer, BodyInv
<1>6. CASE UNCHANGED rdapVars
  BY <1>6 DEF rdapVars, vars, lookupVars, BodyInv
<1> QED
  BY <1>1, <1>2, <1>3, <1>4, <1>5, <1>6 DEF RdapNext, Answered

LEMMA LookupWellTyped ==
  ASSUME RInv, BodyInv, IInv
  PROVE  RdapTypeOK
<1>1. TypeOK /\ Reading
  BY DEF IInv
<1>2. domain \in Domains /\ heads \in Seq(HeadOf) /\ asked \in Seq(Url)
  BY DEF RInv, Hops
<1>3. stage \in {"start", "awaiting"} => phase = "head" /\ length = 0 /\ arrived = 0
  BY <1>1 DEF BodyInv, Reading
<1>4. /\ stage \in {"start", "awaiting", "body", "done"}
      /\ stage = "awaiting" => Len(asked) \in {1, 2} /\ Len(heads) = Len(asked) - 1
      /\ stage = "body" => Len(heads) = Len(asked)
  BY DEF RInv, Hops
<1>5. stage = "body" <=> Len(heads) = Len(asked) /\ stage # "done" /\ stage # "start"
  BY <1>4
<1> QED
  BY <1>1, <1>2, <1>3, <1>4, <1>5 DEF RdapTypeOK, HeadOf, BodyInv

(***************************************************************************)
(* The chain of requests and the reader of the last body stay in step.     *)
(***************************************************************************)
THEOREM LookupTypeCorrect == RdapSpec => []RdapTypeOK
<1>1. RdapInit => BodyInv
  BY DEF RdapInit, Init, BodyInv
<1>2. RdapSpec => []IInv
  BY LookupReadsBounded, SpecIInv, PTL
<1>3. RdapSpec => []BodyInv
  BY <1>1, BodyNotBegun, LookupInv, PTL DEF RdapSpec
<1> QED
  BY <1>2, <1>3, LookupInv, LookupWellTyped, PTL
=============================================================================
