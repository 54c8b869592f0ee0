----------------------------- MODULE RdapLookup -----------------------------
(***************************************************************************)
(* domain_registrar_status (registrar_status of src/src/domains.rs): a GET *)
(* at the bootstrap server, at most one redirect that the tool follows     *)
(* itself, since its client follows none, and the body of the last hop,    *)
(* read by the actions of BoundedBody.  The second server is named by the  *)
(* first one and both answer what they like.                               *)
(***************************************************************************)
EXTENDS BoundedBody, Sequences, FiniteSetsExt, SequencesExt

CONSTANTS
  Text,       \* every string that occurs
  Domains,    \* arguments, see Domain below
  Locations,  \* values of a Location header, see Location below
  Documents   \* JSON documents a server may send, see Document below

RDAP_BASE == "rdap.org"

\* A domain is what lies between its dots; a label may be of no size.
Label == [size: Nat, ldh: BOOLEAN, upper: BOOLEAN]
Domain == Seq(Label)

\* A URL that begins with a scheme names a host; another has none, and lies
\* below the bootstrap server, with a leading slash or without.
Location == [host: Text \cup {None}, path: Text]

\* What parse_rdap looks at: names of entities and dates of events may be missing.
Entity == [registrar: BOOLEAN, fn: Text \cup {None}, handle: Text \cup {None}]
RdapEvent == [expiration: BOOLEAN, date: Text \cup {None}]
Document == [entities: Seq(Entity), events: Seq(RdapEvent)]

ASSUME RdapAssumption ==
  /\ \A d \in Domains : d \in Domain
  /\ \A l \in Locations : l \in Location
  /\ \A j \in Documents : j \in Document
  /\ None \notin Text /\ None \notin Locations /\ None \notin Documents

VARIABLES
  domain,  \* the argument
  stage,   \* "start", "awaiting" the head of a response, "body", or "done"
  asked,   \* the URLs requested, in order
  heads,   \* history: the heads received: a kind of status and a Location
  content, \* history: the document of the body, None if it was not one
  result   \* what the tool returned

lookupVars == <<domain, stage, asked, heads, content, result>>
rdapVars == <<vars, lookupVars>>

----------------------------------------------------------------------------
\* trim_end_matches('.'): the labels up to the last one that is not empty.
Trimmed(d) ==
  LET full == {i \in DOMAIN d : d[i].size > 0}
  IN  IF full = {} THEN <<>> ELSE SubSeq(d, 1, Max(full))

DomainLength(d) == FoldSeq(LAMBDA label, n : n + label.size, Len(d) - 1, d)

ValidDomain(d) ==
  /\ Trimmed(d) # <<>>
  /\ DomainLength(Trimmed(d)) <= 253
  /\ \A i \in DOMAIN Trimmed(d) : Trimmed(d)[i].size > 0 /\ Trimmed(d)[i].ldh

\* What validate_domain returns: no trailing dot, and in lower case.
validate_domain(d) == [i \in DOMAIN Trimmed(d) |-> [Trimmed(d)[i] EXCEPT !.upper = FALSE]]

resolve_location(l) ==
  [host |-> IF l.host = None THEN RDAP_BASE ELSE l.host, path |-> l.path]

\* Variant: the entities are taken in any role.
rdap_registrar_AnyRole(j) ==
  LET named == {i \in DOMAIN j.entities : j.entities[i].fn # None}
  IN  IF named = {} THEN None
      ELSE j.entities[Min(named)].fn

\* The first registrar that has a name or a handle; its name if it has one.
rdap_registrar(j) ==
  LET named == {i \in DOMAIN j.entities : /\ j.entities[i].registrar
                                          /\ j.entities[i].fn # None \/ j.entities[i].handle # None}
      first == j.entities[Min(named)]
  IN  IF named = {} THEN None ELSE IF first.fn # None THEN first.fn ELSE first.handle

\* The date of the first expiration, also when only a later one has a date.
Expiry(j) ==
  LET ends == {i \in DOMAIN j.events : j.events[i].expiration}
  IN  IF ends = {} THEN None ELSE j.events[Min(ends)].date

parse_rdap(d, j) ==
  [kind |-> "facts", domain |-> d, registrar |-> rdap_registrar(j), expiry |-> Expiry(j)]

Error(why) == [kind |-> why]

----------------------------------------------------------------------------
\* `declared` is what the server of the last hop is going to declare.
RdapInit ==
  /\ Init
  /\ domain \in Domains /\ stage = "start" /\ asked = <<>> /\ heads = <<>>
  /\ content = None /\ result = Error("none")

Answer(r) == result' = r /\ stage' = "done"

registrar_status ==
  /\ stage = "start"
  /\ \/ ~ValidDomain(domain) /\ Answer(Error("invalid domain")) /\ UNCHANGED asked
     \/ /\ ValidDomain(domain)
        /\ asked' = <<[host |-> RDAP_BASE, path |-> validate_domain(domain)]>>
        /\ stage' = "awaiting" /\ UNCHANGED result
  /\ UNCHANGED <<vars, domain, heads, content>>

\* send() fails: no connection, or the client's 15 s are over.
SendFails ==
  /\ stage = "awaiting"
  /\ Answer(Error("request failed"))
  /\ UNCHANGED <<vars, domain, asked, heads, content>>

HeadArrives(status, location) ==
  /\ stage = "awaiting"
  /\ heads' = Append(heads, [status |-> status, location |-> location])
  /\ UNCHANGED <<domain, content>>

\* Variant: every redirect is followed.
Redirected_Always ==
  \E l \in Locations \cup {None} :
    /\ HeadArrives("redirect", l)
    /\ \/ l = None /\ Answer(Error("no location")) /\ UNCHANGED asked
       \/ /\ l # None /\ Len(asked) < 3
          /\ asked' = Append(asked, resolve_location(l)) /\ UNCHANGED <<stage, result>>
    /\ UNCHANGED vars

\* The first server redirects; its body is not read.
Redirected ==
  /\ Len(asked) = 1
  /\ \E l \in Locations \cup {None} :
       /\ HeadArrives("redirect", l)
       /\ \/ l = None /\ Answer(Error("no location")) /\ UNCHANGED asked
          \/ /\ l # None
             /\ asked' = Append(asked, resolve_location(l)) /\ UNCHANGED <<stage, result>>
  /\ UNCHANGED vars

\* The head of the last hop, which may be another redirect: it is an error
\* like any other status, once its body has been read.
LastHop ==
  /\ \E status \in {"success", "redirect", "other"} :
       /\ status = "redirect" => Len(asked) = 2
       /\ HeadArrives(status, None)
  /\ stage' = "body"
  /\ UNCHANGED <<vars, asked, result>>

\* Variant: the status of the last hop is not looked at.
Verdict_AnyStatus(p, status, j) ==
  IF p # "whole" THEN Error(p)
  ELSE IF j = None THEN Error("not JSON") ELSE parse_rdap(validate_domain(domain), j)

\* What follows from the end of the body, from the status, and from the body.
Verdict(p, status, j) ==
  IF p # "whole" THEN Error(p)
  ELSE IF status # "success" THEN Error("returned a status")
  ELSE IF j = None THEN Error("not JSON") ELSE parse_rdap(validate_domain(domain), j)

\* read_bounded_body, and the rest of the function when it returns.
ReadBody ==
  /\ stage = "body"
  /\ CheckLength \/ (\E n \in 1..SizeMax : Chunk(n)) \/ End \/ Break
  /\ \/ phase' \notin Outcomes /\ UNCHANGED <<stage, content, result>>
     \/ /\ phase' \in Outcomes
        /\ content' \in IF phase' = "whole" THEN Documents \cup {None} ELSE {None}
        /\ Answer(Verdict(phase', heads[Len(heads)].status, content'))
  /\ UNCHANGED <<domain, asked, heads>>

Answered == stage = "done" /\ UNCHANGED rdapVars

RdapNext ==
  registrar_status \/ SendFails \/ Redirected \/ LastHop \/ ReadBody \/ Answered

RdapSpec == RdapInit /\ [][RdapNext]_rdapVars

\* The task is polled; the client's timer ends a wait for a head or a body.
FairRdapSpec ==
  /\ RdapSpec
  /\ WF_rdapVars(registrar_status) /\ WF_rdapVars(SendFails)
  /\ WF_rdapVars(ReadBody /\ CheckLength) /\ WF_rdapVars(ReadBody /\ Break)

----------------------------------------------------------------------------
RdapTypeOK ==
  /\ TypeOK
  /\ domain \in Domains /\ stage \in {"start", "awaiting", "body", "done"}
  /\ heads \in Seq([status: {"success", "redirect", "other"}, location: Locations \cup {None}])
  /\ content \in Documents \cup {None}
  /\ stage \in {"start", "awaiting"} => phase = "head" /\ length = 0 /\ arrived = 0
  /\ stage = "body" <=> Len(heads) = Len(asked) /\ stage # "done" /\ stage # "start"

(***************************************************************************)
(* "Follows exactly ONE redirect from the bootstrap server": a first       *)
(* request only for a valid domain and only to the bootstrap server, a     *)
(* second one only to the place that the first server's redirect names,    *)
(* never a third one, whatever the second server says.                     *)
(***************************************************************************)
RequestsAreDue ==
  /\ Len(asked) <= 2
  /\ asked # <<>> => /\ ValidDomain(domain)
                     /\ asked[1] = [host |-> RDAP_BASE, path |-> validate_domain(domain)]
  /\ Len(asked) = 2 => /\ heads[1].status = "redirect" /\ heads[1].location # None
                       /\ asked[2] = resolve_location(heads[1].location)

(***************************************************************************)
(* Facts are returned only from a whole body, within the cap, that the     *)
(* last server asked sent with success, and they are that document's: the  *)
(* registrar is an entity in that role, and is missing only if no such     *)
(* entity has a name.                                                      *)
(***************************************************************************)
FactsAreTheLastHops ==
  result.kind = "facts" =>
    /\ phase = "whole" /\ length <= Cap
    /\ Len(heads) = Len(asked) /\ heads[Len(heads)].status = "success"
    /\ content \in Documents
    /\ IF result.registrar = None
       THEN \A i \in DOMAIN content.entities :
              LET e == content.entities[i] IN e.registrar => e.fn = None /\ e.handle = None
       ELSE \E i \in DOMAIN content.entities :
              LET e == content.entities[i]
              IN  e.registrar /\ result.registrar \in {e.fn, e.handle}
    /\ result.expiry # None => \E i \in DOMAIN content.events :
         content.events[i] = [expiration |-> TRUE, date |-> result.expiry]

(***************************************************************************)
(* Every lookup returns: also when a server never answers, sends a body    *)
(* without end, or says nothing more.                                      *)
(***************************************************************************)
LookupReturns == <>(stage = "done")
=============================================================================
