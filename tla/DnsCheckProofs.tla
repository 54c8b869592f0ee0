--------------------------- MODULE DnsCheckProofs ---------------------------
(***************************************************************************)
(* Proofs about DnsCheck, for every set of inputs, every content of the    *)
(* DNS, any number of changes of it and any pattern of failing queries.    *)
(***************************************************************************)
EXTENDS DnsCheck, FiniteSetTheorems, SequenceTheorems, TLAPS

----------------------------------------------------------------------------
(***************************************************************************)
(* The inductive invariant.                                                *)
(***************************************************************************)
\* The lookups of a check follow from its kind: the pages check alone has two.
WellFormed(c) ==
  /\ c.kind \in {"pages", "edge", "ns", "values"}
  /\ c.kind = "pages" => c.types = <<"A", "CNAME">>
  /\ c.kind = "ns" => c.types = <<"NS">>
  /\ c.kind \in {"edge", "values"} => Len(c.types) = 1

IsPlan(p) ==
  /\ Len(p) \in Nat /\ DOMAIN p = 1..Len(p)
  /\ \A i \in 1..Len(p) : WellFormed(p[i])

\* Only a pages check has a lookup behind it and another one before it.
CallInv ==
  /\ primary \in BOOLEAN
  /\ input \in Inputs \cup {None}
  /\ IsPlan(checks) /\ DOMAIN truths = DOMAIN checks
  /\ input = None => checks = <<>> /\ report = <<>> /\ heard = <<>> /\ asking = "nobody"
  /\ asking \in {"primary", "fallback", "nobody"} /\ (asking = "primary" => primary)
  /\ report \in Seq(Statuses) /\ Len(report) <= Len(checks)
  /\ asking # "nobody" => Len(report) < Len(checks)
  /\ \/ heard = <<>>
     \/ heard = <<heard[1]>> /\ asking # "nobody" /\ current.kind = "pages"
  /\ result \in {"none", "refused", "single", "preset"}
  /\ changes \in 0..MaxChanges
  /\ deaf \subseteq DOMAIN checks

DnsTyped ==
  /\ DOMAIN dns = Questions
  /\ \A q \in Questions : dns[q] \in Contents[q]

\* The history has the verdicts of this instant.
TrueNow == \A i \in DOMAIN checks : TrueVerdict(checks[i], dns) \in truths[i]

\* The check whose lookups are under way, and what the DNS holds for it now.
cur == Len(report) + 1
Now(type) == Published(dns, current.name, type)

(***************************************************************************)
(* What the A lookup of a pages check is worth while its CNAME lookup is   *)
(* outstanding: a Pages address in it was a PASS when it was heard; and    *)
(* unless the DNS has changed twice it is still the answer, or with the    *)
(* CNAME of now it makes the verdict of an instant before.                 *)
(***************************************************************************)
HalfHeard ==
  Len(heard) = 1 =>
    /\ heard[1].failed => heard[1].values = {} /\ cur \in deaf
    /\ heard[1].values \cap GITHUB_PAGES_IPS # {} => "PASS" \in truths[cur]
    /\ ~heard[1].failed /\ changes = 0 => heard[1].values = Now("A")
    /\ ~heard[1].failed /\ changes = 1 =>
         \/ heard[1].values = Now("A")
         \/ pages_status(heard[1].values, Now("CNAME")) \in truths[cur]

\* A PASS was true at some instant, also when a lookup failed.
PassesWereTrue == \A i \in DOMAIN report : report[i] = "PASS" => "PASS" \in truths[i]

CheckInv ==
  CallInv /\ DnsTyped /\ TrueNow /\ HalfHeard /\ PassesWereTrue /\ VerdictsWereTrue

----------------------------------------------------------------------------
(***************************************************************************)
(* Lemmas about the checks and their verdicts.                             *)
(***************************************************************************)
LEMMA PlanIsWellFormed ==
  ASSUME NEW in
  PROVE  IsPlan(PlanOf(in)) /\ Len(PlanOf(in)) > 0
<1>1. \A n : /\ WellFormed(github_pages_check(n)) /\ WellFormed(edge_check(n))
             /\ WellFormed(cloudflare_ns_check(n))
  BY DEF WellFormed, github_pages_check, edge_check, cloudflare_ns_check
<1>2. \A n, t, e : WellFormed(check_values(n, t, e))
  BY DEF WellFormed, check_values
<1>3. \A a, b, c, d, e : /\ Len(<<a, b, c, d, e>>) = 5 /\ DOMAIN <<a, b, c, d, e>> = 1..5
                         /\ \A i \in 1..5 : <<a, b, c, d, e>>[i] \in {a, b, c, d, e}
  OBVIOUS
<1>4. CASE Given(in.preset)
  <2>1. IsPlan(preset_fiducia) /\ Len(preset_fiducia) = 5
    <3> DEFINE A == github_pages_check("fiducia.cloud")
               B == github_pages_check("www.fiducia.cloud")
               C == edge_check("app.fiducia.cloud")
               D == edge_check("admin.fiducia.cloud")
               E == cloudflare_ns_check("fiducia.cloud")
    <3>1. \A x \in {A, B, C, D, E} : WellFormed(x)
      BY <1>1
    <3>2. preset_fiducia = <<A, B, C, D, E>>
      BY DEF preset_fiducia
    <3> HIDE DEF A, B, C, D, E
    <3>3. Len(preset_fiducia) = 5 /\ DOMAIN preset_fiducia = 1..5
          /\ \A i \in 1..5 : preset_fiducia[i] \in {A, B, C, D, E}
      BY <3>2, <1>3
    <3> QED
      BY <3>1, <3>3 DEF IsPlan
  <2>2. PlanOf(in) = preset_fiducia
    BY <1>4 DEF PlanOf
  <2> QED
    BY <2>1, <2>2
<1>5. CASE ~Given(in.preset)
  <2> DEFINE V == check_values(Trim[in.name],
                      IF in.type = None THEN "A" ELSE Upper[Trim[in.type]],
                      in.values)
  <2>1. WellFormed(V) /\ PlanOf(in) = <<V>>
    BY <1>2, <1>5 DEF PlanOf
  <2> HIDE DEF V
  <2> QED
    BY <2>1 DEF IsPlan
<1> QED
  BY <1>4, <1>5

LEMMA StatusOfIsAStatus ==
  ASSUME NEW c, NEW h
  PROVE  StatusOf(c, h) \in Statuses
BY DEF StatusOf, pages_status, ns_status, classify, Statuses

\* A check of one lookup that was answered says what is true.
LEMMA OneLookupIsTrue ==
  ASSUME NEW c, WellFormed(c), c.kind # "pages", NEW d
  PROVE  StatusOf(c, <<Heard(Published(d, c.name, c.types[1]))>>) = TrueVerdict(c, d)
<1> DEFINE P == Published(d, c.name, c.types[1])
           h == <<Heard(P)>>
<1>1. h[1].values = P /\ h[1].failed = FALSE
  BY DEF Heard
<1>2. CASE c.kind = "ns"
  <2>1. c.types[1] = "NS"
    BY <1>2 DEF WellFormed
  <2>2. P = Published(d, c.name, "NS")
    BY <2>1
  <2>3. StatusOf(c, h) = ns_status(P)
    BY <1>1, <1>2 DEF StatusOf
  <2>4. TrueVerdict(c, d) = IF P = {} THEN "PENDING"
          ELSE IF \E n \in P : ~(Lower[n] \in CloudflareNames) THEN "MISMATCH" ELSE "PASS"
    BY <1>2, <2>2 DEF TrueVerdict
  <2>5. ns_status(P) = TrueVerdict(c, d)
    <3> HIDE DEF P
    <3> QED
      BY <2>4 DEF ns_status
  <2> QED
    BY <2>3, <2>5
<1>3. CASE c.kind # "ns"
  <2>1. StatusOf(c, h) = classify(P, c.expected)
    BY <1>1, <1>3 DEF StatusOf
  <2>2. TrueVerdict(c, d) = classify(P, c.expected)
    BY <1>3 DEF TrueVerdict
  <2> QED
    BY <2>1, <2>2
<1> QED
  BY <1>2, <1>3

\* A check of one lookup that failed is not a PASS.
LEMMA OneFailedLookupIsNoPass ==
  ASSUME NEW c, c.kind # "pages"
  PROVE  StatusOf(c, <<Deaf>>) # "PASS"
<1>1. <<Deaf>>[1].values = {} /\ <<Deaf>>[1].failed = TRUE
  BY DEF Deaf
<1> QED
  BY <1>1 DEF StatusOf, ns_status

\* The pages check passes through either of its lookups.
LEMMA PagesPass ==
  ASSUME NEW a, NEW b
  PROVE  /\ pages_status(a, b) = "PASS" <=>
              \/ a \cap GITHUB_PAGES_IPS # {}
              \/ \E c \in b : eq_ignore_ascii_case(c, FIDUCIA_PAGES_CNAME)
         /\ \A x : pages_status(x, b) = "PASS" => \/ x \cap GITHUB_PAGES_IPS # {}
                                                  \/ \A y : pages_status(y, b) = "PASS"
BY DEF pages_status

----------------------------------------------------------------------------
(***************************************************************************)
(* The invariant is inductive.                                             *)
(***************************************************************************)
LEMMA CheckInit == Init => CheckInv
<1> SUFFICES ASSUME Init PROVE CheckInv
  OBVIOUS
<1>1. /\ checks = <<>> /\ report = <<>> /\ heard = <<>> /\ truths = <<>> /\ deaf = {}
      /\ Len(<<>>) = 0 /\ DOMAIN <<>> = 1..0 /\ <<>> \in Seq(Statuses)
  BY DEF Init
<1>2. CallInv
  BY <1>1, CallAssumption DEF Init, CallInv, IsPlan
<1>3. DnsTyped
  BY DEF Init, DnsTyped
<1> QED
  BY <1>1, <1>2, <1>3
  DEF CheckInv, TrueNow, HalfHeard, PassesWereTrue, VerdictsWereTrue

LEMMA CallBegins ==
  ASSUME CheckInv, dns_check
  PROVE  CheckInv'
<1>1. /\ input = None /\ checks = <<>> /\ report = <<>> /\ heard = <<>>
      /\ report' = <<>> /\ heard' = <<>> /\ dns' = dns /\ primary' = primary
      /\ changes' = changes /\ deaf' = deaf /\ Len(<<>>) = 0 /\ DOMAIN <<>> = {}
      /\ <<>> \in Seq(Statuses)
  BY DEF CheckInv, CallInv, dns_check
<1>2. deaf = {}
  BY <1>1 DEF CheckInv, CallInv
<1>3. HalfHeard' /\ PassesWereTrue' /\ VerdictsWereTrue' /\ DnsTyped'
  BY <1>1 DEF CheckInv, HalfHeard, PassesWereTrue, VerdictsWereTrue, DnsTyped
<1>4. PICK in \in Inputs :
        /\ input' = in
        /\ \/ /\ result' = "refused"
              /\ UNCHANGED <<checks, truths, asking>>
           \/ /\ checks' = PlanOf(in)
              /\ truths' = [i \in DOMAIN PlanOf(in) |-> {TrueVerdict(PlanOf(in)[i], dns)}]
              /\ asking' = SystemResolver
              /\ UNCHANGED result
  BY DEF dns_check
<1>5. CASE result' = "refused" /\ UNCHANGED <<checks, truths, asking>>
  <2>1. CallInv'
    BY <1>1, <1>2, <1>4, <1>5 DEF CheckInv, CallInv
  <2>2. TrueNow'
    BY <1>1, <1>5 DEF TrueNow
  <2> QED
    BY <1>3, <2>1, <2>2 DEF CheckInv
<1>6. CASE /\ checks' = PlanOf(in)
           /\ truths' = [i \in DOMAIN PlanOf(in) |-> {TrueVerdict(PlanOf(in)[i], dns)}]
           /\ asking' = SystemResolver
           /\ UNCHANGED result
  <2>1. IsPlan(PlanOf(in)) /\ Len(PlanOf(in)) > 0
    BY PlanIsWellFormed
  <2>2. IsPlan(checks')
    BY <1>6, <2>1
  <2>3. Len(checks') \in Nat /\ Len(checks') > 0
    BY <1>6, <2>1 DEF IsPlan
  <2>4. DOMAIN truths' = DOMAIN checks'
    BY <1>6
  <2>5. asking' \in {"primary", "fallback"} /\ (asking' = "primary" => primary)
    BY <1>6 DEF SystemResolver
  <2>6. input' # None /\ input' \in Inputs
    BY <1>4, CallAssumption
  <2>7. CallInv'
    BY <1>1, <1>2, <1>6, <2>2, <2>3, <2>4, <2>5, <2>6 DEF CheckInv, CallInv
  <2>8. TrueNow'
    BY <1>1, <1>6 DEF TrueNow
  <2> QED
    BY <1>3, <2>7, <2>8 DEF CheckInv
<1> QED
  BY <1>4, <1>5, <1>6

\* A lookup that is over is the first one of a pages check, or ends its check.
LEMMA HearEnds ==
  ASSUME CallInv, asking # "nobody", NEW h, Hear(h)
  PROVE  /\ cur \in DOMAIN checks /\ WellFormed(current)
         /\ \/ /\ current.kind = "pages" /\ heard = <<>>
               /\ heard' = <<h>> /\ report' = report /\ result' = result
               /\ asking' = SystemResolver
            \/ /\ heard' = <<>>
               /\ report' = Append(report, StatusOf(current,
                               IF current.kind = "pages" THEN <<heard[1], h>> ELSE <<h>>))
               /\ current.kind = "pages" => Len(heard) = 1
               /\ current.kind # "pages" => heard = <<>>
               /\ asking' = IF cur = Len(checks) THEN "nobody" ELSE SystemResolver
               /\ result' \in {"none", "refused", "single", "preset"}
<1>1. /\ Len(report) \in Nat /\ Len(checks) \in Nat /\ Len(report) < Len(checks)
      /\ DOMAIN checks = 1..Len(checks)
  BY DEF CallInv, IsPlan
<1>2. cur \in DOMAIN checks
  BY <1>1 DEF cur
<1>3. WellFormed(current)
  <2>1. current = checks[cur]
    BY DEF current, cur
  <2>2. WellFormed(checks[cur])
    BY <1>1, <1>2 DEF CallInv, IsPlan
  <2> QED
    BY <2>1, <2>2
<1> DEFINE all == Append(heard, h)
           done == Len(all) = Len(current.types)
<1>4. /\ heard' = IF done THEN <<>> ELSE all
      /\ report' = IF done THEN Append(report, StatusOf(current, all)) ELSE report
      /\ asking' = IF done /\ cur = Len(checks) THEN "nobody" ELSE SystemResolver
      /\ result' = IF ~(done /\ cur = Len(checks)) THEN result
                   ELSE IF checks = preset_fiducia THEN "preset" ELSE "single"
  BY DEF Hear, cur
<1>5. result' \in {"none", "refused", "single", "preset"}
  BY <1>4 DEF CallInv
<1>6. \/ heard = <<>> /\ all = <<h>> /\ Len(all) = 1
      \/ Len(heard) = 1 /\ all = <<heard[1], h>> /\ Len(all) = 2 /\ current.kind = "pages"
  <2>1. heard = <<>> => all = <<h>> /\ Len(all) = 1
    OBVIOUS
  <2>2. ASSUME heard = <<heard[1]>>
        PROVE  Len(heard) = 1 /\ all = <<heard[1], h>> /\ Len(all) = 2
    <3>1. \A x : Len(<<x>>) = 1 /\ Append(<<x>>, h) = <<x, h>> /\ Len(<<x, h>>) = 2
      <4> TAKE x
      <4> DEFINE T == {x, h}
      <4>1. /\ <<x>> \in Seq(T) /\ Len(<<x>>) = 1 /\ <<x>>[1] = x /\ h \in T
            /\ <<x, h>> \in Seq(T) /\ Len(<<x, h>>) = 2
            /\ <<x, h>>[1] = x /\ <<x, h>>[2] = h
        OBVIOUS
      <4> HIDE DEF T
      <4>2. /\ Append(<<x>>, h) \in Seq(T) /\ Len(Append(<<x>>, h)) = 2
            /\ Append(<<x>>, h)[1] = x /\ Append(<<x>>, h)[2] = h
        BY <4>1, AppendProperties
      <4>3. \A i \in 1..2 : Append(<<x>>, h)[i] = <<x, h>>[i]
        BY <4>1, <4>2
      <4>4. Append(<<x>>, h) = <<x, h>>
        BY <4>1, <4>2, <4>3, SeqEqual
      <4> QED
        BY <4>1, <4>4
    <3>2. heard = <<heard[1]>>
      BY <2>2
    <3>3. Len(heard) = 1
      BY <3>1, <3>2
    <3> QED
      BY <3>1, <3>2, <3>3
  <2> QED
    BY <2>1, <2>2 DEF CallInv
<1>7. Len(current.types) = IF current.kind = "pages" THEN 2 ELSE 1
  BY <1>3 DEF WellFormed
<1>8. CASE done
  <2>1. /\ heard' = <<>> /\ report' = Append(report, StatusOf(current, all))
        /\ asking' = IF cur = Len(checks) THEN "nobody" ELSE SystemResolver
    BY <1>4, <1>8
  <2>2. all = IF current.kind = "pages" THEN <<heard[1], h>> ELSE <<h>>
    BY <1>6, <1>7, <1>8
  <2>3. /\ current.kind = "pages" => Len(heard) = 1
        /\ current.kind # "pages" => heard = <<>>
    BY <1>6, <1>7, <1>8
  <2> QED
    BY <1>2, <1>3, <1>5, <2>1, <2>2, <2>3
<1>9. CASE ~done
  <2>1. current.kind = "pages" /\ heard = <<>> /\ all = <<h>>
    BY <1>6, <1>7, <1>9
  <2> QED
    BY <1>2, <1>3, <1>4, <1>9, <2>1
<1> QED
  BY <1>8, <1>9

\* What is said of a check when its last lookup is over: a PASS was true at
\* some instant, and the rest was too unless a lookup failed or the DNS changed
\* twice under a pages check.
LEMMA VerdictIsDue ==
  ASSUME CheckInv, cur \in DOMAIN checks, WellFormed(current), NEW h, NEW st, NEW deafNow,
         current.kind = "pages" => Len(heard) = 1,
         current.kind # "pages" => heard = <<>>,
         st = StatusOf(current, IF current.kind = "pages" THEN <<heard[1], h>> ELSE <<h>>),
         \/ /\ h = Heard(Published(dns, current.name, current.types[Len(heard) + 1]))
            /\ deafNow = deaf
         \/ h = Deaf /\ deafNow = deaf \cup {cur}
  PROVE  /\ st = "PASS" => "PASS" \in truths[cur]
         /\ cur \notin deafNow =>
              st \in truths[cur] \/ (current.kind = "pages" /\ st # "PASS" /\ changes >= 2)
<1>1. TrueVerdict(current, dns) \in truths[cur]
  BY DEF CheckInv, TrueNow, current, cur
<1>2. CASE current.kind # "pages"
  <2>1. st = StatusOf(current, <<h>>) /\ Len(heard) = 0
    BY <1>2
  <2>2. CASE h = Heard(Published(dns, current.name, current.types[Len(heard) + 1]))
    <3>1. h = Heard(Published(dns, current.name, current.types[1]))
      BY <2>1, <2>2
    <3>2. st = TrueVerdict(current, dns)
      BY <1>2, <2>1, <3>1, OneLookupIsTrue
    <3> QED
      BY <1>1, <3>2
  <2>3. CASE h = Deaf /\ deafNow = deaf \cup {cur}
    BY <1>2, <2>1, <2>3, OneFailedLookupIsNoPass
  <2> QED
    BY <2>2, <2>3
<1>3. CASE current.kind = "pages"
  <2> DEFINE a == heard[1].values
  <2>1. st = pages_status(a, h.values) /\ Len(heard) = 1
    <3>1. <<heard[1], h>>[1] = heard[1] /\ <<heard[1], h>>[2] = h
      OBVIOUS
    <3> QED
      BY <1>3, <3>1 DEF StatusOf
  <2>2. a \cap GITHUB_PAGES_IPS # {} => "PASS" \in truths[cur]
    BY <2>1 DEF CheckInv, HalfHeard
  <2>3. TrueVerdict(current, dns) = pages_status(Now("A"), Now("CNAME"))
    BY <1>3 DEF TrueVerdict, Now
  <2>4. CASE h = Heard(Published(dns, current.name, current.types[Len(heard) + 1]))
             /\ deafNow = deaf
    <3>1. h.values = Now("CNAME")
      <4>1. current.types[2] = "CNAME"
        BY <1>3 DEF WellFormed
      <4> QED
        BY <2>1, <2>4, <4>1 DEF Heard, Now
    <3>2. st = "PASS" => "PASS" \in truths[cur]
      BY <1>1, <2>1, <2>2, <2>3, <3>1, PagesPass
    <3>3. cur \notin deaf /\ changes < 2 => st \in truths[cur]
      <4> SUFFICES ASSUME cur \notin deaf, changes < 2 PROVE st \in truths[cur]
        OBVIOUS
      <4>1. ~heard[1].failed
        BY <2>1 DEF CheckInv, HalfHeard
      <4>2. changes = 0 \/ changes = 1
        BY CallAssumption DEF CheckInv, CallInv
      <4>3. a = Now("A") \/ pages_status(a, Now("CNAME")) \in truths[cur]
        BY <2>1, <4>1, <4>2 DEF CheckInv, HalfHeard
      <4> QED
        BY <1>1, <2>1, <2>3, <3>1, <4>3
    <3>4. changes < 2 \/ changes >= 2
      BY CallAssumption DEF CheckInv, CallInv
    <3> QED
      BY <1>3, <2>4, <3>2, <3>3, <3>4
  <2>5. CASE h = Deaf /\ deafNow = deaf \cup {cur}
    <3>1. h.values = {}
      BY <2>5 DEF Deaf
    <3>2. st = "PASS" => a \cap GITHUB_PAGES_IPS # {}
      BY <2>1, <3>1, PagesPass
    <3> QED
      BY <2>2, <2>5, <3>2
  <2> QED
    BY <2>4, <2>5
<1> QED
  BY <1>2, <1>3

LEMMA LookupOver ==
  ASSUME CheckInv, asking # "nobody", NEW h, Hear(h),
         \/ /\ h = Heard(Published(dns, current.name, current.types[Len(heard) + 1]))
            /\ deaf' = deaf
         \/ h = Deaf /\ deaf' = deaf \cup {cur}
  PROVE  CheckInv'
<1>1. UNCHANGED <<primary, dns, input, checks, changes, truths>>
  BY DEF Hear
<1>2. CallInv
  BY DEF CheckInv
<1>3. /\ Len(report) \in Nat /\ Len(checks) \in Nat /\ Len(report) < Len(checks)
      /\ DOMAIN checks = 1..Len(checks) /\ report \in Seq(Statuses) /\ input # None
      /\ SystemResolver \in {"primary", "fallback"} /\ (SystemResolver = "primary" => primary)
  BY <1>2 DEF CallInv, IsPlan, SystemResolver
<1>4. cur \in DOMAIN checks /\ WellFormed(current)
  BY <1>2, HearEnds
<1>5. DnsTyped' /\ TrueNow' /\ deaf' \subseteq DOMAIN checks /\ deaf \subseteq deaf'
  BY <1>1, <1>2, <1>4 DEF CheckInv, CallInv, DnsTyped, TrueNow
<1>6. CASE /\ current.kind = "pages" /\ heard = <<>>
           /\ heard' = <<h>> /\ report' = report /\ result' = result
           /\ asking' = SystemResolver
  <2>1. current' = current /\ cur' = cur
    BY <1>1, <1>6 DEF current, cur
  <2>2. heard'[1] = h /\ Len(heard') = 1
    BY <1>6
  <2>3. CallInv'
    BY <1>1, <1>2, <1>3, <1>5, <1>6, <2>1, <2>2 DEF CallInv
  <2>4. HalfHeard'
    <3>1. CASE /\ h = Heard(Published(dns, current.name, current.types[Len(heard) + 1]))
               /\ deaf' = deaf
      <4>1. current.types[1] = "A" /\ Len(heard) = 0
        BY <1>4, <1>6 DEF WellFormed
      <4>2. ~h.failed /\ h.values = Now("A")
        BY <3>1, <4>1 DEF Heard, Now
      <4>3. h.values \cap GITHUB_PAGES_IPS # {} => "PASS" \in truths[cur]
        <5>1. TrueVerdict(current, dns) = pages_status(Now("A"), Now("CNAME"))
          BY <1>6 DEF TrueVerdict, Now
        <5>2. TrueVerdict(current, dns) \in truths[cur]
          BY <1>4 DEF CheckInv, TrueNow, current, cur
        <5> QED
          BY <4>2, <5>1, <5>2, PagesPass
      <4>4. Now("A")' = Now("A")
        BY <1>1, <2>1 DEF Now
      <4> QED
        BY <1>1, <2>1, <2>2, <4>2, <4>3, <4>4 DEF HalfHeard
    <3>2. CASE h = Deaf /\ deaf' = deaf \cup {cur}
      <4>1. h.failed = TRUE /\ h.values = {}
        BY <3>2 DEF Deaf
      <4> QED
        BY <2>1, <2>2, <3>2, <4>1 DEF HalfHeard
    <3> QED
      BY <3>1, <3>2
  <2>5. PassesWereTrue' /\ VerdictsWereTrue'
    BY <1>1, <1>5, <1>6 DEF CheckInv, PassesWereTrue, VerdictsWereTrue
  <2> QED
    BY <1>5, <2>3, <2>4, <2>5 DEF CheckInv
<1>7. ASSUME NEW st,
             st = StatusOf(current, IF current.kind = "pages" THEN <<heard[1], h>> ELSE <<h>>),
             heard' = <<>>, report' = Append(report, st),
             current.kind = "pages" => Len(heard) = 1,
             current.kind # "pages" => heard = <<>>,
             asking' = IF cur = Len(checks) THEN "nobody" ELSE SystemResolver,
             result' \in {"none", "refused", "single", "preset"}
      PROVE  CheckInv'
  <2>1. st \in Statuses
    BY <1>7, StatusOfIsAStatus
  <2>2. /\ report' \in Seq(Statuses) /\ Len(report') = cur
        /\ \A i \in 1..Len(report) : report'[i] = report[i]
        /\ report'[cur] = st /\ DOMAIN report' = 1..cur
    <3>1. report \in Seq(Statuses) /\ report' = Append(report, st) /\ cur = Len(report) + 1
      BY <1>3, <1>7 DEF cur
    <3>2. /\ report' \in Seq(Statuses) /\ Len(report') = cur
          /\ \A i \in 1..Len(report) : report'[i] = report[i]
          /\ report'[cur] = st
      BY <2>1, <3>1, AppendProperties
    <3> QED
      BY <3>2, LenProperties
  <2>3. /\ st = "PASS" => "PASS" \in truths[cur]
        /\ cur \notin deaf' =>
             st \in truths[cur] \/ (current.kind = "pages" /\ st # "PASS" /\ changes >= 2)
    BY <1>4, <1>7, VerdictIsDue
  <2>4. CallInv'
    <3>1. cur \in Nat /\ cur <= Len(checks)
      BY <1>3 DEF cur
    <3>2. /\ asking' \in {"primary", "fallback", "nobody"} /\ (asking' = "primary" => primary)
          /\ asking' # "nobody" => cur < Len(checks)
      <4>1. CASE cur = Len(checks)
        BY <1>7, <4>1
      <4>2. CASE cur # Len(checks)
        <5>1. asking' = SystemResolver
          BY <1>7, <4>2
        <5>2. Len(checks) \in Nat
          BY <1>3
        <5>3. cur < Len(checks)
          BY <3>1, <4>2, <5>2
        <5> QED
          BY <1>3, <5>1, <5>3
      <4> QED
        BY <4>1, <4>2
    <3> QED
      BY <1>1, <1>2, <1>3, <1>5, <1>7, <2>2, <3>1, <3>2 DEF CallInv
  <2>5. HalfHeard'
    <3>1. Len(heard') # 1
      BY <1>7
    <3> QED
      BY <3>1 DEF HalfHeard
  <2>6. PassesWereTrue'
    <3> SUFFICES ASSUME NEW i \in 1..cur, report'[i] = "PASS" PROVE "PASS" \in truths[i]
      BY <1>1, <2>2 DEF PassesWereTrue
    <3>1. CASE i = cur
      BY <2>2, <2>3, <3>1
    <3>2. CASE i # cur
      <4>1. i \in 1..Len(report) /\ DOMAIN report = 1..Len(report)
        BY <1>3, <3>2 DEF cur
      <4> QED
        BY <2>2, <4>1 DEF CheckInv, PassesWereTrue
    <3> QED
      BY <3>1, <3>2
  <2>7. VerdictsWereTrue'
    <3> SUFFICES ASSUME NEW i \in 1..cur, i \notin deaf'
                 PROVE  \/ report'[i] \in truths[i]
                        \/ checks[i].kind = "pages" /\ report'[i] # "PASS" /\ changes >= 2
      BY <1>1, <2>2 DEF VerdictsWereTrue
    <3>1. CASE i = cur
      BY <2>2, <2>3, <3>1 DEF current, cur
    <3>2. CASE i # cur
      <4>1. i \in 1..Len(report) /\ DOMAIN report = 1..Len(report)
        BY <1>3, <3>2 DEF cur
      <4> QED
        BY <1>5, <2>2, <4>1 DEF CheckInv, VerdictsWereTrue
    <3> QED
      BY <3>1, <3>2
  <2> QED
    BY <1>5, <2>4, <2>5, <2>6, <2>7 DEF CheckInv
<1> QED
  BY <1>2, <1>6, <1>7, HearEnds

\* A change of one question: the A record of a name and its CNAME do not
\* change together.
LEMMA DnsChanges ==
  ASSUME CheckInv, Change
  PROVE  CheckInv'
<1>1. /\ UNCHANGED <<primary, input, checks, heard, asking, report, result, deaf>>
      /\ changes < MaxChanges /\ changes' = changes + 1 /\ asking # "nobody"
      /\ truths' = [i \in DOMAIN truths |-> truths[i] \cup {TrueVerdict(checks[i], dns')}]
  BY DEF Change
<1>2. PICK q \in Questions : \E values \in Contents[q] \ {dns[q]} :
        dns' = [dns EXCEPT ![q] = values]
  BY DEF Change
<1>3. DnsTyped'
  BY <1>2 DEF CheckInv, DnsTyped
<1>4. CallInv /\ changes \in Nat /\ MaxChanges \in Nat /\ DOMAIN truths = DOMAIN checks
  BY CallAssumption DEF CheckInv, CallInv
<1>5. changes' \in 0..MaxChanges /\ changes' \in Nat
  BY <1>1, <1>4
<1>6. DOMAIN truths' = DOMAIN checks
  BY <1>1, <1>4
<1>7. current' = current /\ cur' = cur
  BY <1>1 DEF current, cur
<1>8. CallInv'
  BY <1>1, <1>4, <1>5, <1>6, <1>7 DEF CallInv
<1>9. \A i \in DOMAIN checks : truths[i] \subseteq truths'[i]
  BY <1>1, <1>4
<1>10. TrueNow'
  BY <1>1, <1>4 DEF TrueNow
<1>11. DOMAIN report \subseteq DOMAIN checks /\ cur \in DOMAIN checks
  BY <1>1, <1>4 DEF CallInv, IsPlan, cur
<1>12. PassesWereTrue' /\ VerdictsWereTrue'
  <2>1. PassesWereTrue'
    BY <1>1, <1>9, <1>11 DEF CheckInv, PassesWereTrue
  <2>2. changes >= 2 => changes' >= 2
    BY <1>1, <1>4
  <2>3. VerdictsWereTrue'
    BY <1>1, <1>9, <1>11, <2>2 DEF CheckInv, VerdictsWereTrue
  <2> QED
    BY <2>1, <2>3
<1>13. HalfHeard'
  <2> SUFFICES ASSUME Len(heard) = 1 PROVE HalfHeard'
    BY <1>1 DEF HalfHeard
  <2> DEFINE a == heard[1].values
  <2>1. current.kind = "pages"
    <3>1. heard # <<>>
      OBVIOUS
    <3> QED
      BY <1>4, <3>1 DEF CallInv
  <2>2. /\ heard[1].failed => a = {} /\ cur \in deaf
        /\ a \cap GITHUB_PAGES_IPS # {} => "PASS" \in truths[cur]
        /\ ~heard[1].failed /\ changes = 0 => a = Now("A")
    BY DEF CheckInv, HalfHeard
  <2>3. a \cap GITHUB_PAGES_IPS # {} => "PASS" \in truths'[cur]
    BY <1>9, <1>11, <2>2
  <2>4. changes' # 0 /\ (changes' = 1 => changes = 0)
    BY <1>1, <1>4
  <2>5. Now("A")' = Now("A") \/ Now("CNAME")' = Now("CNAME")
    <3>1. CASE q = <<fqdn[current.name], "A">>
      <4>1. q # <<fqdn[current.name], "CNAME">>
        BY <3>1
      <4>2. \A r \in Questions \ {q} : dns'[r] = dns[r]
        BY <1>2 DEF CheckInv, DnsTyped
      <4> QED
        BY <1>7, <4>1, <4>2 DEF Now, Published
    <3>2. CASE q # <<fqdn[current.name], "A">>
      <4>1. \A r \in Questions \ {q} : dns'[r] = dns[r]
        BY <1>2 DEF CheckInv, DnsTyped
      <4> QED
        BY <1>7, <3>2, <4>1 DEF Now, Published
    <3> QED
      BY <3>1, <3>2
  <2>6. ~heard[1].failed /\ changes = 0 =>
          a = Now("A")' \/ pages_status(a, Now("CNAME")') \in truths'[cur]
    <3> SUFFICES ASSUME a = Now("A"), Now("CNAME")' = Now("CNAME")
                 PROVE  pages_status(a, Now("CNAME")') \in truths'[cur]
      BY <2>2, <2>5
    <3>1. TrueVerdict(current, dns) = pages_status(a, Now("CNAME")')
      BY <2>1 DEF TrueVerdict, Now
    <3>2. TrueVerdict(current, dns) \in truths[cur]
      BY <1>11 DEF CheckInv, TrueNow, current, cur
    <3> QED
      BY <1>9, <1>11, <3>1, <3>2
  <2> QED
    BY <1>1, <1>7, <2>2, <2>3, <2>4, <2>6 DEF HalfHeard
<1> QED
  BY <1>3, <1>8, <1>10, <1>12, <1>13 DEF CheckInv

(***************************************************************************)
(* The invariant holds throughout every call.                              *)
(***************************************************************************)
THEOREM CheckInvariant == Spec => []CheckInv
<1>1. CheckInv /\ [Next]_vars => CheckInv'
  <2> SUFFICES ASSUME CheckInv, [Next]_vars PROVE CheckInv'
    OBVIOUS
  <2>1. CASE dns_check
    BY <2>1, CallBegins
  <2>2. CASE Answered
    <3> DEFINE h == Heard(Published(dns, current.name, current.types[Len(heard) + 1]))
    <3>1. asking # "nobody" /\ Hear(h) /\ deaf' = deaf
      BY <2>2 DEF Answered
    <3> QED
      BY <3>1, LookupOver
  <2>3. CASE Failed
    <3>1. CASE /\ asking = "primary" /\ asking' = "fallback"
               /\ UNCHANGED <<primary, dns, input, checks, heard, report, result, changes,
                             truths, deaf>>
      <4>1. current' = current /\ cur' = cur /\ Now("A")' = Now("A")
            /\ Now("CNAME")' = Now("CNAME")
        BY <3>1 DEF current, cur, Now
      <4>2. CallInv'
        BY <3>1, <4>1 DEF CheckInv, CallInv
      <4>3. HalfHeard'
        BY <3>1, <4>1 DEF CheckInv, HalfHeard
      <4> QED
        BY <3>1, <4>2, <4>3
        DEF CheckInv, DnsTyped, TrueNow, PassesWereTrue, VerdictsWereTrue
    <3>2. CASE asking = "fallback" /\ Hear(Deaf) /\ deaf' = deaf \cup {Len(report) + 1}
      BY <3>2, LookupOver DEF cur
    <3> QED
      BY <2>3, <3>1, <3>2 DEF Failed
  <2>4. CASE Change
    BY <2>4, DnsChanges
  <2>5. CASE UNCHANGED vars
    <3>1. current' = current /\ cur' = cur /\ Now("A")' = Now("A")
          /\ Now("CNAME")' = Now("CNAME")
      BY <2>5 DEF vars, current, cur, Now
    <3>2. CallInv'
      BY <2>5, <3>1 DEF vars, CheckInv, CallInv
    <3>3. HalfHeard'
      BY <2>5, <3>1 DEF vars, CheckInv, HalfHeard
    <3> QED
      BY <2>5, <3>2, <3>3
      DEF vars, CheckInv, DnsTyped, TrueNow, PassesWereTrue, VerdictsWereTrue
  <2> QED
    BY <2>1, <2>2, <2>3, <2>4, <2>5 DEF Next, Returned
<1> QED
  BY <1>1, CheckInit, PTL DEF Spec

----------------------------------------------------------------------------
(***************************************************************************)
(* Type correctness.                                                       *)
(***************************************************************************)
THEOREM CheckTypeCorrect == Spec => []TypeOK
<1>1. CheckInv => TypeOK
  <2> SUFFICES ASSUME CheckInv PROVE TypeOK
    OBVIOUS
  <2>1. asking # "nobody" => Len(heard) < Len(current.types)
    <3> SUFFICES ASSUME asking # "nobody" PROVE Len(heard) < Len(current.types)
      OBVIOUS
    <3>1. WellFormed(current)
      <4>1. cur \in 1..Len(checks)
        BY DEF CheckInv, CallInv, IsPlan, cur
      <4>2. WellFormed(checks[cur])
        BY <4>1 DEF CheckInv, CallInv, IsPlan
      <4> QED
        BY <4>2 DEF current, cur
    <3>2. Len(current.types) = IF current.kind = "pages" THEN 2 ELSE 1
      BY <3>1 DEF WellFormed
    <3>3. Len(heard) = 0 \/ (Len(heard) = 1 /\ current.kind = "pages")
      <4>1. heard = <<heard[1]>> => Len(heard) = 1
        <5>1. \A x : Len(<<x>>) = 1
          OBVIOUS
        <5> QED
          BY <5>1
      <4>2. heard = <<>> => Len(heard) = 0
        OBVIOUS
      <4>3. heard = <<>> \/ (heard = <<heard[1]>> /\ current.kind = "pages")
        BY DEF CheckInv, CallInv
      <4> QED
        BY <4>1, <4>2, <4>3
    <3>4. CASE current.kind = "pages"
      <4>1. Len(current.types) = 2
        BY <3>2, <3>4
      <4>2. Len(heard) = 0 \/ Len(heard) = 1
        BY <3>3
      <4>3. 0 < 2 /\ 1 < 2
        OBVIOUS
      <4> QED
        BY <4>1, <4>2, <4>3
    <3>5. CASE current.kind # "pages"
      <4>1. Len(current.types) = 1 /\ Len(heard) = 0
        BY <3>2, <3>3, <3>5
      <4> QED
        BY <4>1
    <3> QED
      BY <3>4, <3>5
  <2> QED
    BY <2>1 DEF CheckInv, CallInv, DnsTyped, TypeOK
<1> QED
  BY <1>1, CheckInvariant, PTL

(***************************************************************************)
(* Every status of a report whose lookups were answered was the right one  *)
(* at some instant of the call, but for a pages check that two changes     *)
(* tore apart.                                                             *)
(***************************************************************************)
THEOREM ReportsAreTrue == Spec => []VerdictsWereTrue
BY CheckInvariant, PTL DEF CheckInv

(***************************************************************************)
(* A summary that counts every check as passed leaves none out, and each   *)
(* of them was in place at some instant, whatever failed or changed.       *)
(***************************************************************************)
THEOREM GreenIsGreen == Spec => []GreenMeansGreen
<1>1. CheckInv => GreenMeansGreen
  <2> SUFFICES ASSUME CheckInv, summary(report).pass = Len(checks), NEW i \in DOMAIN checks
               PROVE  "PASS" \in truths[i]
    BY DEF GreenMeansGreen
  <2> DEFINE passed == {k \in DOMAIN report : report[k] \in {"PASS"}}
             all == 1..Len(checks)
  <2>1. /\ DOMAIN checks = all /\ Len(checks) \in Nat /\ passed \subseteq all
        /\ Len(report) \in Nat /\ Len(report) <= Len(checks)
    BY DEF CheckInv, CallInv, IsPlan
  <2>2. IsFiniteSet(all) /\ Cardinality(all) = Len(checks)
    <3>1. /\ IsFiniteSet(all)
          /\ Cardinality(all) = IF 1 > Len(checks) THEN 0 ELSE Len(checks) - 1 + 1
      BY <2>1, FS_Interval
    <3> QED
      BY <2>1, <3>1
  <2>3. Cardinality(passed) = Len(checks)
    BY DEF summary, Tally
  <2>4. passed = all
    <3> HIDE DEF passed, all
    <3> QED
      BY <2>1, <2>2, <2>3, FS_Subset
  <2>5. i \in DOMAIN report /\ report[i] = "PASS"
    BY <2>1, <2>4
  <2> QED
    BY <2>5 DEF CheckInv, PassesWereTrue
<1> QED
  BY <1>1, CheckInvariant, PTL
=============================================================================
