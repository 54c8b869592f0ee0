------------------------------ MODULE DnsCheck ------------------------------
(***************************************************************************)
(* The tool dns_check of src/src/domains.rs: it compares what the DNS      *)
(* answers with what is expected, one lookup after the other, each lookup  *)
(* with a fallback resolver.  The DNS may change between any two lookups,  *)
(* and any query may fail; a report is put together from what was heard.   *)
(***************************************************************************)
EXTENDS Integers, Sequences, FiniteSets

CONSTANTS
  Text,                 \* every string that occurs
  Trim, Upper, Lower,   \* str::trim and the ASCII case mappings
  fqdn,                 \* the name that is asked for: absolute, trailing dot
  GITHUB_PAGES_IPS, FIDUCIA_PAGES_CNAME, FIDUCIA_EDGE_IP,
  CloudflareNames,      \* lower-case names ending in CLOUDFLARE_NS_SUFFIX
  Inputs,               \* the arguments dns_check is called with
  Questions,            \* the <<name, type>> pairs somebody may ask for
  Contents,             \* per question: the sets of values it may have
  MaxChanges,           \* bound: changes of the DNS during the call
  None                  \* Option::None

ASSUME CallAssumption == None \notin Inputs /\ MaxChanges \in Nat

DnsType == {"A", "AAAA", "CNAME", "NS", "TXT", "MX"}

\* What one lookup heard: the values published, or that both resolvers failed.
Heard(values) == [failed |-> FALSE, values |-> values]
Deaf == [failed |-> TRUE, values |-> {}]   \* Err; unwrap_or_default reads {}

VARIABLES
  primary,   \* whether the system resolver could be built
  dns,       \* the values of every question, as the resolvers see them
  input,     \* the arguments, None before the call
  checks,    \* the checks of the call, in the order of their evaluation
  heard,     \* what the lookups of the current check have heard
  asking,    \* the resolver a query is outstanding at, or "nobody"
  report,    \* the statuses of the checks that are done
  result,    \* "none", "refused", "single" or "preset": what was returned
  changes,   \* number of changes of the DNS, bounded by MaxChanges
  truths,    \* history: per check, the verdicts true at some instant so far
  deaf       \* history: the checks one of whose lookups failed

vars == <<primary, dns, input, checks, heard, asking, report, result, changes,
          truths, deaf>>

----------------------------------------------------------------------------
(***************************************************************************)
(* The checks.                                                             *)
(***************************************************************************)
github_pages_check(name) == [kind |-> "pages", name |-> name,
                             types |-> <<"A", "CNAME">>, expected |-> None]
edge_check(name) == [kind |-> "edge", name |-> name,
                     types |-> <<"A">>, expected |-> {FIDUCIA_EDGE_IP}]
cloudflare_ns_check(name) == [kind |-> "ns", name |-> name,
                              types |-> <<"NS">>, expected |-> None]
check_values(name, type, expected) ==
  [kind |-> "values", name |-> name, types |-> <<type>>, expected |-> expected]

preset_fiducia == <<github_pages_check("fiducia.cloud"),
                    github_pages_check("www.fiducia.cloud"),
                    edge_check("app.fiducia.cloud"),
                    edge_check("admin.fiducia.cloud"),
                    cloudflare_ns_check("fiducia.cloud")>>

\* An argument that is given and not blank.
Given(arg) == arg # None /\ Trim[arg] # ""

PlanOf(in) ==
  IF Given(in.preset) THEN preset_fiducia
  ELSE <<check_values(Trim[in.name],
                      IF in.type = None THEN "A" ELSE Upper[Trim[in.type]],
                      in.values)>>

\* The early returns of dns_check.
InputError(in) ==
  IF Given(in.preset) THEN Trim[in.preset] # "fiducia"
  ELSE \/ ~Given(in.name)
       \/ in.type # None /\ Upper[Trim[in.type]] \notin DnsType

eq_ignore_ascii_case(v, w) == Lower[v] = Lower[w]

classify(found, expected) ==
  IF found = {} THEN "PENDING"
  ELSE IF expected = None THEN "PASS"
  ELSE IF \E e \in expected, f \in found : eq_ignore_ascii_case(f, e) THEN "PASS"
  ELSE "MISMATCH"

pages_status(a, cname) ==
  IF \/ a \cap GITHUB_PAGES_IPS # {}
     \/ \E c \in cname : eq_ignore_ascii_case(c, FIDUCIA_PAGES_CNAME)
  THEN "PASS"
  ELSE IF a = {} /\ cname = {} THEN "PENDING" ELSE "MISMATCH"

\* Variant: some nameserver, not all of them, at Cloudflare.
ns_status_Any(ns) ==
  IF ns = {} THEN "PENDING"
  ELSE IF \E n \in ns : Lower[n] \in CloudflareNames THEN "PASS" ELSE "MISMATCH"

ns_status(ns) ==
  IF ns = {} THEN "PENDING"
  ELSE IF \A n \in ns : Lower[n] \in CloudflareNames THEN "PASS" ELSE "MISMATCH"

\* The status of a check whose lookups heard h, in order.  Where a check fails
\* on an error it says so; the other checks take an error for an empty answer.
StatusOf(check, h) ==
  IF check.kind = "pages" THEN pages_status(h[1].values, h[2].values)
  ELSE IF check.kind = "ns" THEN ns_status(h[1].values)
  ELSE IF h[1].failed THEN "ERROR" ELSE classify(h[1].values, check.expected)

Tally(statuses, which) == Cardinality({i \in DOMAIN statuses : statuses[i] \in which})

\* Variant: whatever is not a mismatch or pending counts as passed.
summary_Lenient(statuses) ==
  [pass |-> Tally(statuses, {"PASS", "ERROR"}), pending |-> Tally(statuses, {"PENDING"}),
   mismatch |-> Tally(statuses, {"MISMATCH"})]

\* The counts of a preset report; an error counts as a mismatch.
summary(statuses) ==
  [pass |-> Tally(statuses, {"PASS"}), pending |-> Tally(statuses, {"PENDING"}),
   mismatch |-> Tally(statuses, {"MISMATCH", "ERROR"})]

----------------------------------------------------------------------------
\* The DNS holds nothing for a question that is not in Questions.
Published(d, name, type) ==
  IF <<fqdn[name], type>> \in Questions THEN d[<<fqdn[name], type>>] ELSE {}

\* The verdict on a check if the DNS were read in one instant.
TrueVerdict(check, d) ==
  LET Now(type) == Published(d, check.name, type)
      AtCloudflare(n) == Lower[n] \in CloudflareNames
  IN  IF check.kind = "pages" THEN pages_status(Now("A"), Now("CNAME"))
      ELSE IF check.kind = "ns"
      THEN IF Now("NS") = {} THEN "PENDING"
           ELSE IF \E n \in Now("NS") : ~AtCloudflare(n) THEN "MISMATCH" ELSE "PASS"
      ELSE classify(Now(check.types[1]), check.expected)

\* Variant: a system resolver that could not be built is asked all the same.
SystemResolver_Unbuilt == "primary"

\* The resolver a lookup turns to first.
SystemResolver == IF primary THEN "primary" ELSE "fallback"

Init ==
  /\ primary \in BOOLEAN
  /\ dns \in {d \in [Questions -> UNION {Contents[q] : q \in Questions}] :
                \A q \in Questions : d[q] \in Contents[q]}
  /\ input = None /\ checks = <<>> /\ heard = <<>> /\ asking = "nobody"
  /\ report = <<>> /\ result = "none" /\ changes = 0
  /\ truths = <<>> /\ deaf = {}

\* dns_check up to its first lookup.
dns_check ==
  /\ input = None
  /\ \E in \in Inputs :
       /\ input' = in
       /\ \/ /\ InputError(in)
             /\ result' = "refused"
             /\ UNCHANGED <<checks, truths, asking>>
          \/ /\ ~InputError(in)
             /\ checks' = PlanOf(in)
             /\ truths' = [i \in DOMAIN PlanOf(in) |-> {TrueVerdict(PlanOf(in)[i], dns)}]
             /\ asking' = SystemResolver
             /\ UNCHANGED result
  /\ UNCHANGED <<primary, dns, heard, report, changes, deaf>>

current == checks[Len(report) + 1]

\* A lookup is over.  The check asks its next question, or is done, and then
\* the next check asks its first one.
Hear(h) ==
  LET all == Append(heard, h)
      done == Len(all) = Len(current.types)
      last == done /\ Len(report) + 1 = Len(checks)
  IN  /\ heard' = IF done THEN <<>> ELSE all
      /\ report' = IF done THEN Append(report, StatusOf(current, all)) ELSE report
      /\ asking' = IF last THEN "nobody" ELSE SystemResolver
      /\ result' = IF ~last THEN result
                   ELSE IF checks = preset_fiducia THEN "preset" ELSE "single"
      /\ UNCHANGED <<primary, dns, input, checks, changes, truths>>

\* Values, or an authoritative "no such record": the fallback is not asked.
Answered ==
  /\ asking # "nobody"
  /\ Hear(Heard(Published(dns, current.name, current.types[Len(heard) + 1])))
  /\ UNCHANGED deaf

\* Variant: a query that failed at the fallback starts over.
Failed_StartsOver ==
  /\ asking # "nobody"
  /\ asking' = IF asking = "primary" THEN "fallback" ELSE SystemResolver
  /\ UNCHANGED <<primary, dns, input, checks, heard, report, result, changes, truths, deaf>>

\* A query fails (no server answers, SERVFAIL): the fallback is next, then Err.
Failed ==
  \/ /\ asking = "primary"
     /\ asking' = "fallback"
     /\ UNCHANGED <<primary, dns, input, checks, heard, report, result, changes, truths, deaf>>
  \/ /\ asking = "fallback"
     /\ Hear(Deaf)
     /\ deaf' = deaf \cup {Len(report) + 1}

\* Somebody publishes something else, or a resolver's cached answer expires.
Change ==
  /\ changes < MaxChanges /\ asking # "nobody"
  /\ changes' = changes + 1
  /\ \E q \in Questions : \E values \in Contents[q] \ {dns[q]} :
       dns' = [dns EXCEPT ![q] = values]
  /\ truths' = [i \in DOMAIN truths |-> truths[i] \cup {TrueVerdict(checks[i], dns')}]
  /\ UNCHANGED <<primary, input, checks, heard, asking, report, result, deaf>>

Returned == result # "none" /\ UNCHANGED vars

Next == dns_check \/ Answered \/ Failed \/ Change \/ Returned

Spec == Init /\ [][Next]_vars

\* The resolver library ends every query, with an answer or an error, by its own
\* timeouts; nothing is assumed about which.
FairSpec == Spec /\ WF_vars(Answered \/ Failed)

----------------------------------------------------------------------------
Statuses == {"PASS", "PENDING", "MISMATCH", "ERROR"}

TypeOK ==
  /\ primary \in BOOLEAN
  /\ \A q \in Questions : dns[q] \in Contents[q]
  /\ input \in Inputs \cup {None}
  /\ asking \in {"primary", "fallback", "nobody"}
  /\ asking = "primary" => primary
  /\ report \in Seq(Statuses) /\ Len(report) <= Len(checks)
  /\ asking # "nobody" => Len(heard) < Len(current.types)
  /\ result \in {"none", "refused", "single", "preset"}
  /\ changes \in 0..MaxChanges
  /\ deaf \subseteq DOMAIN checks

(***************************************************************************)
(* A report is true although it is read piece by piece: unless one of its  *)
(* lookups failed, every status was the right one at some instant of the   *)
(* call.  The one exception the code leaves is the GitHub Pages check,     *)
(* whose A and CNAME lookups two changes of the DNS can tear apart; even   *)
(* then a PASS is never wrong.                                             *)
(***************************************************************************)
VerdictsWereTrue ==
  \A i \in DOMAIN report : i \notin deaf =>
    \/ report[i] \in truths[i]
    \/ checks[i].kind = "pages" /\ report[i] # "PASS" /\ changes >= 2

(***************************************************************************)
(* However the lookups fail and the DNS changes, a summary in which every  *)
(* check has passed means that each part of the cutover was in place at    *)
(* some instant of the call.                                               *)
(***************************************************************************)
GreenMeansGreen ==
  result = "preset" /\ summary(report).pass = Len(checks) =>
    \A i \in DOMAIN checks : "PASS" \in truths[i]

(***************************************************************************)
(* The call returns, whatever the resolvers do.                            *)
(***************************************************************************)
EveryCheckReturns == input # None ~> result # "none"

(***************************************************************************)
(* What the trait Resolve says of an empty answer and of an error ("means  *)
(* no such record (a PENDING result); Err is reserved for resolver /       *)
(* transport failures"), and classify of PENDING ("when nothing resolves   *)
(* yet"): a check is PENDING only when there was no such record.           *)
(***************************************************************************)
PendingMeansNoRecord ==
  \A i \in DOMAIN report : report[i] = "PENDING" => "PENDING" \in truths[i]
=============================================================================
