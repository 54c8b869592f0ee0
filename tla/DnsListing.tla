----------------------------- MODULE DnsListing -----------------------------
(***************************************************************************)
(* The two listing tools of src/src/cloudflare.rs: `zones` asks for one    *)
(* page, `dns_records` follows result_info.total_pages.  Between two pages *)
(* anyone may add or remove records, and the server keeps no snapshot.     *)
(* Listings share no state with each other, so one call is enough.         *)
(***************************************************************************)
EXTENDS Integers, Sequences, SequencesExt

CONSTANTS
  Items,         \* the zones of an account, or the records of a zone
  InitialItems,  \* what the API may hold at the start, in listing order
  ZonesPerPage,  \* per_page of `zones`, 50 in the source
  PerPage,       \* per_page of `dns_records`, 100 in the source
  U32,           \* `as u32` keeps total_pages modulo this, 2^32 in the build
  MaxChanges,    \* bound: changes made while the listing is under way
  None

ASSUME PagesAssumption ==
  /\ ZonesPerPage \in Nat \ {0} /\ PerPage \in Nat \ {0} /\ U32 \in Nat \ {0}
  /\ MaxChanges \in Nat
ASSUME ItemsAssumption ==
  /\ \A s \in InitialItems : s \in Seq(Items) /\ IsInjective(s)
  /\ None \notin [result: Seq(Items), total_pages: Nat]

\* A zone never has so many pages that their number does not fit: at 100 records
\* a page and 2^32, 429 thousand million records.
ASSUME FitsAssumption ==
  \A s \in InitialItems : Len(s) + MaxChanges <= (U32 - 1) * PerPage

VARIABLES
  tool,     \* "none", "zones" or "dns_records"
  token,    \* whether CLOUDFLARE_API_TOKEN is set
  status,   \* "idle", "zone", "page", "done" or "failed"
  page,     \* the page asked for
  listed,   \* the items of the pages received (`records`, `zones`)
  reply,    \* the API's answer to the current page, None while it is awaited
  stored,   \* external: what the API holds, in listing order
  changes,  \* number of changes, bounded by MaxChanges
  added,    \* history: items added since the first page was served
  removed,  \* history: items removed since then
  stable    \* history: the items that were there all the time since then

local == <<tool, token, status, page, listed>>
history == <<added, removed, stable>>
vars == <<local, reply, stored, changes, history>>

Size == IF tool = "zones" THEN ZonesPerPage ELSE PerPage
PagesOf(s, size) == (Len(s) + size - 1) \div size
PageOf(s, n, size) ==
  SubSeq(s, (n - 1) * size + 1,
         IF n * size <= Len(s) THEN n * size ELSE Len(s))

\* Variant: pages counted from 0.
Init_PageZero ==
  /\ tool = "none" /\ token \in BOOLEAN /\ status = "idle"
  /\ page = 0 /\ listed = <<>> /\ reply = None
  /\ stored \in InitialItems /\ changes = 0
  /\ added = 0 /\ removed = 0 /\ stable = {}

Init ==
  /\ tool = "none" /\ token \in BOOLEAN /\ status = "idle"
  /\ page = 1 /\ listed = <<>> /\ reply = None
  /\ stored \in InitialItems /\ changes = 0
  /\ added = 0 /\ removed = 0 /\ stable = {}

----------------------------------------------------------------------------
\* A call arrives; without a token its first request fails before it is sent.
Begin(t, first) ==
  /\ status = "idle"
  /\ tool' = t
  /\ status' = IF token THEN first ELSE "failed"
  /\ UNCHANGED <<token, page, listed, reply, stored, changes, history>>

zones == Begin("zones", "page")

\* zone_id sends a request of its own when it is given a name.
dns_records == Begin("dns_records", "zone") \/ Begin("dns_records", "page")

ZoneResolved ==
  /\ status = "zone"
  /\ status' \in {"page", "failed"}
  /\ UNCHANGED <<tool, token, page, listed, reply, stored, changes, history>>

\* A page is taken into `extended`; it is the last one when `last` holds.
TakePage(extended, last) ==
  /\ status = "page" /\ reply # None
  /\ listed' = extended
  /\ \/ /\ tool = "zones" \/ last
        /\ status' = "done"
        /\ UNCHANGED page
     \/ /\ tool = "dns_records" /\ ~last
        /\ page' = page + 1
        /\ UNCHANGED status
  /\ UNCHANGED <<tool, token, stored, changes, history>>

total_pages == reply.total_pages % U32

\* Variants: the last page is not read; a page replaces the ones before it;
\* the answer to one page is taken for the answer to the next one as well.
PageReceived_OneShort ==
  TakePage(listed \o reply.result, page + 1 >= total_pages) /\ reply' = None
PageReceived_Overwrites ==
  TakePage(reply.result, page >= total_pages) /\ reply' = None
PageReceived_Twice ==
  TakePage(listed \o reply.result, page >= total_pages) /\ UNCHANGED reply

\* The page is appended; dns_records goes on until page >= total_pages.
PageReceived ==
  TakePage(listed \o reply.result, page >= total_pages) /\ reply' = None

\* Variant: a request without an answer never fails.
RequestFailed_NoTimer ==
  /\ status = "page" /\ reply # None
  /\ status' = "failed"
  /\ listed' = <<>>
  /\ UNCHANGED <<tool, token, page, reply, stored, changes, history>>

\* Timeout, transport error, error envelope: the pages so far are dropped.
RequestFailed ==
  /\ status \in {"zone", "page"}
  /\ status' = "failed"
  /\ listed' = <<>>
  /\ UNCHANGED <<tool, token, page, reply, stored, changes, history>>

----------------------------------------------------------------------------
\* The API, external.
ServePage ==
  /\ status = "page" /\ reply = None
  /\ reply' = [result      |-> PageOf(stored, page, Size),
               total_pages |-> PagesOf(stored, Size)]
  /\ stable' = IF page = 1 THEN Range(stored) ELSE stable
  /\ UNCHANGED <<local, stored, changes, added, removed>>

Listing == status = "page" /\ (page > 1 \/ reply # None)

Change ==
  /\ changes < MaxChanges /\ changes' = changes + 1
  /\ \/ /\ \E i \in 1..(Len(stored) + 1), x \in Items \ Range(stored) :
             stored' = InsertAt(stored, i, x)
        /\ added' = IF Listing THEN added + 1 ELSE added
        /\ UNCHANGED <<removed, stable>>
     \/ \E i \in 1..Len(stored) :
          /\ stored' = RemoveAt(stored, i)
          /\ removed' = IF Listing THEN removed + 1 ELSE removed
          /\ stable' = IF Listing THEN stable \ {stored[i]} ELSE stable
          /\ UNCHANGED added
  /\ UNCHANGED <<local, reply>>

Finished == status \in {"done", "failed"} /\ UNCHANGED vars

Resume == ZoneResolved \/ PageReceived \/ RequestFailed

Next ==
  \/ zones \/ dns_records \/ Resume
  \/ ServePage \/ Change
  \/ Finished

Spec == Init /\ [][Next]_vars

\* A request ends within 15 s, and the runtime polls the task.
FairSpec == Spec /\ WF_vars(Resume)

----------------------------------------------------------------------------
TypeOK ==
  /\ tool \in {"none", "zones", "dns_records"} /\ token \in BOOLEAN
  /\ status \in {"idle", "zone", "page", "done", "failed"}
  /\ page \in Nat \ {0}
  /\ listed \in Seq(Items)
  /\ reply = None \/ reply \in [result: Seq(Items), total_pages: Nat]
  /\ stored \in Seq(Items) /\ IsInjective(stored)
  /\ changes \in 0..MaxChanges /\ added \in Nat /\ removed \in Nat
  /\ stable \subseteq Items

Done == tool = "dns_records" /\ status = "done"

(***************************************************************************)
(* When nothing changes from the first page to the last one, dns_records   *)
(* returns exactly the records of the zone, once each and in order,        *)
(* however they divide into pages.                                         *)
(***************************************************************************)
QuietListingIsExact ==
  [][Done' /\ ~Done /\ added + removed = 0 => listed' = stored]_vars

(***************************************************************************)
(* The damage a concurrent change can do is bounded: every record removed  *)
(* while the pages are read hides at most one other record that was there  *)
(* all the time, and every record added repeats at most one.               *)
(***************************************************************************)
HidesAtMostRemoved ==
  Done => Cardinality(stable \ Range(listed)) <= removed

RepeatsAtMostAdded ==
  Done => Len(listed) - Cardinality(Range(listed)) <= added

(***************************************************************************)
(* Every listing returns, although the number of pages it still has to     *)
(* read may change with every page.                                        *)
(***************************************************************************)
ListingEnds == tool # "none" ~> status \in {"done", "failed"}
=============================================================================
