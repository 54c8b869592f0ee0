--------------------------- MODULE CloudflareDns ---------------------------
(***************************************************************************)
(* The two write tools of src/src/cloudflare.rs, cloudflare_dns_upsert and *)
(* cloudflare_dns_delete, as concurrent tool calls over the DNS records    *)
(* the Cloudflare API keeps.                                               *)
(*                                                                         *)
(* Every tool call runs in a task of its own; the tasks share nothing but  *)
(* the API.  One call is a chain of at most three requests (resolve the    *)
(* zone, look the record up, write), and each `.await` on a request is a   *)
(* point where every other call, and everyone else who edits the account,  *)
(* may run.  A request may be applied, be refused, get lost, or be applied *)
(* after the call that sent it has given up.                               *)
(***************************************************************************)
EXTENDS Integers

CONSTANTS
  Calls,           \* the tool calls of a session, one task each
  Text,            \* every string that occurs, raw or normalised
  Trim, Upper,     \* str::trim and str::to_ascii_uppercase, as functions on Text
  Length,          \* str::len
  HexText,         \* strings made only of hex digits
  OpaqueText,      \* strings made only of [A-Za-z0-9_-]
  UpsertParams,    \* the arguments cloudflare_dns_upsert is called with
  DeleteParams,    \* the arguments cloudflare_dns_delete is called with
  GateValues,      \* values FIDUCIA_MCP_ALLOW_MUTATIONS may have
  AccountZones,    \* ids of the zones in the account
  ZoneName,        \* the name of each of them
  RecordIds,       \* record ids the API may assign
  InitialRecords,  \* the contents the account may have at the start
  MaxElsewhere,    \* bound: edits made by anyone but this server
  None,            \* Option::None
  Free, Gone       \* a record id not assigned yet; one whose record was deleted

UPSERT_TYPES == {"A", "AAAA", "CNAME", "TXT", "MX"}
PROXYABLE == {"A", "AAAA", "CNAME"}

(***************************************************************************)
(* Pure helpers.                                                           *)
(***************************************************************************)
is_zone_id(s) == Length[s] = 32 /\ s \in HexText

ValidRecordId(s) == Length[s] \in 1..128 /\ s \in OpaqueText

RecordType(p) == Upper[Trim[p.record_type]]

\* The JSON body of the POST or PUT.
Body(p) ==
  [type    |-> RecordType(p),
   name    |-> Trim[p.name],
   content |-> Trim[p.content],
   ttl     |-> IF p.ttl = None THEN 1 ELSE p.ttl,
   proxied |-> IF RecordType(p) \notin PROXYABLE THEN None
               ELSE IF p.proxied = None THEN FALSE ELSE p.proxied]

Bodies == [type: Text, name: Text, content: Text, ttl: Int,
           proxied: BOOLEAN \cup {None}]
Record == [zone: AccountZones, body: Bodies]
Slot == {Free, Gone} \cup Record   \* the API assigns an id at most once

ASSUME TextAssumption ==
  /\ Trim \in [Text -> Text] /\ Upper \in [Text -> Text]
  /\ Length \in [Text -> Nat]
  /\ HexText \subseteq Text /\ OpaqueText \subseteq Text
ASSUME ParamsAssumption ==
  /\ UpsertParams \subseteq
       [zone: Text, record_type: Text, name: Text, content: Text,
        ttl: Int \cup {None}, proxied: BOOLEAN \cup {None}]
  /\ DeleteParams \subseteq [zone: Text, record_id: Text]
ASSUME AccountAssumption ==
  /\ AccountZones \subseteq Text /\ ZoneName \in [AccountZones -> Text]
  /\ RecordIds \subseteq Text
  /\ InitialRecords \subseteq [RecordIds -> Slot]
  /\ MaxElsewhere \in Nat
ASSUME NoneAssumption ==
  None \notin Text /\ None \notin Int /\ None \notin BOOLEAN

----------------------------------------------------------------------------
VARIABLES
  gateVar,   \* FIDUCIA_MCP_ALLOW_MUTATIONS; nothing in the process changes it
  token,     \* whether CLOUDFLARE_API_TOKEN was set when the server started
  up,        \* the server process runs
  tool,      \* per call: the tool that was called, "none" before the call
  params,    \* per call: its arguments
  zone,      \* per call: the resolved zone id (`id` in the source)
  rec,       \* per call: the record id to write (`existing_id`, `record_id`)
  op,        \* per call: the last request it sent
  wire,      \* per call: what became of that request
  reply,     \* per call: the payload of the API's answer to a read
  answer,    \* per call: what the tool returned
  records,   \* the API's state: the slot of every record id
  edits,     \* number of edits made elsewhere, bounded by MaxElsewhere
  stale,     \* history: the lookup a call acts on has been overtaken
  disturbed  \* history: two calls overlapped, or records were edited elsewhere

env == <<gateVar, token>>
progress == <<tool, params, zone, rec, op, answer>>
history == <<stale, disturbed>>
vars == <<env, up, progress, wire, reply, records, edits, history>>

mutations_allowed == gateVar = "1"

Called(c) == tool[c] # "none"
Running(c) == Called(c) /\ answer[c] = "none"
WriteOps == {"create", "update", "delete"}
Requests == {"findZone", "findRecord"} \cup WriteOps

Live(recs) == {r \in RecordIds : recs[r] \notin {Free, Gone}}

\* The records of zone z with the type and the name of body b.
Matching(recs, z, b) ==
  {r \in Live(recs) : /\ recs[r].zone = z
                      /\ recs[r].body.type = b.type
                      /\ recs[r].body.name = b.name}

\* No two records have the same zone, type and name.
NoDuplicates(recs) ==
  \A r \in Live(recs) : Matching(recs, recs[r].zone, recs[r].body) = {r}

\* A write of call c will act, or is on its way, on the strength of a lookup.
ActsOnLookup(c) ==
  \/ op[c] = "findRecord" /\ wire[c] = "served" /\ answer[c] = "none"
  \/ op[c] \in {"create", "update"} /\ wire[c] = "sent"

\* Every change of the records goes through here, so that `stale` notes which
\* lookups the change overtakes.
SetRecords(recs) ==
  /\ records' = recs
  /\ stale' = [c \in Calls |->
       \/ stale[c]
       \/ /\ ActsOnLookup(c)
          /\ LET b == Body(params[c]) IN
               Matching(recs, zone[c], b) # Matching(records, zone[c], b)]

\* Nothing is under way: no other call runs or has a request in flight.
Quiet(c) ==
  \A d \in Calls \ {c} : ~Running(d) /\ wire[d] # "sent"

Init ==
  /\ gateVar \in GateValues /\ token \in BOOLEAN
  /\ up = TRUE
  /\ tool = [c \in Calls |-> "none"] /\ params = [c \in Calls |-> None]
  /\ zone = [c \in Calls |-> None] /\ rec = [c \in Calls |-> None]
  /\ op = [c \in Calls |-> "none"] /\ wire = [c \in Calls |-> "none"]
  /\ reply = [c \in Calls |-> None] /\ answer = [c \in Calls |-> "none"]
  /\ records \in InitialRecords
  /\ edits = 0
  /\ stale = [c \in Calls |-> FALSE]
  /\ disturbed = ~NoDuplicates(records)

----------------------------------------------------------------------------
(***************************************************************************)
(* The tool calls.                                                         *)
(***************************************************************************)
Answer(c, a) == answer' = [answer EXCEPT ![c] = a]

\* send: without a token the call fails before anything is sent.
Send(c, request) ==
  \/ /\ token
     /\ op' = [op EXCEPT ![c] = request]
     /\ wire' = [wire EXCEPT ![c] = "sent"]
     /\ UNCHANGED answer
  \/ /\ ~token
     /\ Answer(c, "no token")
     /\ UNCHANGED <<op, wire>>

\* zone_id: an id is taken as it is, a name needs a request first.
ResolveZone(c, z, next) ==
  \/ is_zone_id(z) /\ zone' = [zone EXCEPT ![c] = z] /\ Send(c, next)
  \/ ~is_zone_id(z) /\ Send(c, "findZone") /\ UNCHANGED zone

Arrive(c, t, p) ==
  /\ up /\ ~Called(c)
  /\ tool' = [tool EXCEPT ![c] = t]
  /\ params' = [params EXCEPT ![c] = p]
  /\ disturbed' = (disturbed \/ ~Quiet(c))
  /\ UNCHANGED <<env, up, reply, records, edits, stale>>

\* mutation_gate and the checks that follow it, in the order of the source.
UpsertError(p) ==
  IF ~mutations_allowed THEN "gated"
  ELSE IF RecordType(p) \notin UPSERT_TYPES THEN "bad type"
  ELSE IF 0 \in {Length[Trim[p.name]], Length[Trim[p.content]]} THEN "blank"
  ELSE "none"

\* Variant: dns_delete without mutation_gate.
DeleteError_Ungated(p) ==
  IF ~ValidRecordId(Trim[p.record_id]) THEN "bad record id" ELSE "none"

DeleteError(p) ==
  IF ~mutations_allowed THEN "gated"
  ELSE IF ~ValidRecordId(Trim[p.record_id]) THEN "bad record id"
  ELSE "none"

\* Variant: dns_upsert writes without a lookup.
dns_upsert_Blind(c) ==
  \E p \in UpsertParams :
    /\ Arrive(c, "upsert", p)
    /\ UNCHANGED rec
    /\ UpsertError(p) = "none"
    /\ ResolveZone(c, Trim[p.zone], "create")

\* dns_upsert up to its first await.
dns_upsert(c) ==
  \E p \in UpsertParams :
    /\ Arrive(c, "upsert", p)
    /\ UNCHANGED rec
    /\ \/ /\ UpsertError(p) # "none"
          /\ Answer(c, UpsertError(p))
          /\ UNCHANGED <<zone, op, wire>>
       \/ /\ UpsertError(p) = "none"
          /\ ResolveZone(c, Trim[p.zone], "findRecord")

\* Variant: dns_delete looks at the record id after it has sent its request.
dns_delete_LateCheck(c) ==
  \E p \in DeleteParams :
    /\ Arrive(c, "delete", p)
    /\ mutations_allowed /\ DeleteError(p) = "bad record id"
    /\ op' = [op EXCEPT ![c] = "findZone"] /\ wire' = [wire EXCEPT ![c] = "sent"]
    /\ Answer(c, "bad record id")
    /\ UNCHANGED <<zone, rec>>

\* dns_delete up to its first await.
dns_delete(c) ==
  \E p \in DeleteParams :
    /\ Arrive(c, "delete", p)
    /\ \/ /\ DeleteError(p) # "none"
          /\ Answer(c, DeleteError(p))
          /\ UNCHANGED <<zone, rec, op, wire>>
       \/ /\ DeleteError(p) = "none"
          /\ rec' = [rec EXCEPT ![c] = Trim[p.record_id]]
          /\ ResolveZone(c, Trim[p.zone], "delete")

\* The answer to request `request` of call c is read.
Receive(c, request) ==
  /\ Running(c) /\ op[c] = request /\ wire[c] = "served"
  /\ UNCHANGED <<env, up, tool, params, reply, records, edits, history>>

\* Variant: a zone that was not found is not an error.
ZoneResolved_Unchecked(c) ==
  /\ Receive(c, "findZone")
  /\ UNCHANGED rec
  /\ zone' = [zone EXCEPT ![c] = reply[c]]
  /\ Send(c, IF tool[c] = "upsert" THEN "findRecord" ELSE "delete")

\* zone_id returns; the call goes on to its next request.
ZoneResolved(c) ==
  /\ Receive(c, "findZone")
  /\ UNCHANGED rec
  /\ \/ /\ reply[c] = None
        /\ Answer(c, "no zone")
        /\ UNCHANGED <<zone, op, wire>>
     \/ /\ reply[c] # None
        /\ zone' = [zone EXCEPT ![c] = reply[c]]
        /\ Send(c, IF tool[c] = "upsert" THEN "findRecord" ELSE "delete")

\* Variant: the result of the lookup is ignored.
RecordLookedUp_AlwaysPost(c) ==
  /\ Receive(c, "findRecord")
  /\ Send(c, "create")
  /\ UNCHANGED <<zone, rec>>

\* The lookup returns: PUT the first record found, POST when there is none.
RecordLookedUp(c) ==
  /\ Receive(c, "findRecord")
  /\ rec' = [rec EXCEPT ![c] = reply[c]]
  /\ UNCHANGED zone
  /\ Send(c, IF reply[c] = None THEN "create" ELSE "update")

WriteAnswered(c) ==
  /\ \/ Receive(c, "create") /\ Answer(c, "created")
     \/ Receive(c, "update") /\ Answer(c, "updated")
     \/ Receive(c, "delete") /\ Answer(c, "deleted")
  /\ UNCHANGED <<zone, rec, op, wire>>

\* The call ends with an error; whatever it has sent is out of its hands.
GiveUp(c, error) ==
  /\ Answer(c, error)
  /\ UNCHANGED <<env, up, tool, params, zone, rec, op, wire, reply, records,
                 edits, history>>

\* success:false, or a status that says nothing was done.
ApiError(c) == Running(c) /\ wire[c] = "refused" /\ GiveUp(c, "api error")

\* Variants: no timer on the client; a failed write is sent again.
TransportError_NoTimer(c) ==
  Running(c) /\ wire[c] = "refused" /\ GiveUp(c, "unknown outcome")

TransportError_Resend(c) ==
  /\ Running(c) /\ op[c] \in WriteOps
  /\ wire' = [wire EXCEPT ![c] = "sent"]
  /\ UNCHANGED <<env, up, progress, reply, records, edits, history>>

\* The client's 15 s timer, a broken connection, an oversized or garbled body:
\* the request may have been applied, may be applied later, or never.
TransportError(c) == Running(c) /\ GiveUp(c, "unknown outcome")

----------------------------------------------------------------------------
(***************************************************************************)
(* The Cloudflare API, as the source uses it.  It is external: when it     *)
(* serves a request is its own affair, and it may do so after the call     *)
(* that sent it is over.                                                   *)
(***************************************************************************)
Serve(c, request) ==
  /\ op[c] = request /\ wire[c] = "sent"
  /\ wire' = [wire EXCEPT ![c] = "served"]
  /\ UNCHANGED <<env, up, progress, edits, disturbed>>

Read(c, request, found) ==
  /\ Serve(c, request)
  /\ \/ found = {} /\ reply' = [reply EXCEPT ![c] = None]
     \/ \E x \in found : reply' = [reply EXCEPT ![c] = x]
  /\ UNCHANGED <<records, stale>>

\* GET /zones?name= and GET /zones/{id}/dns_records?type=&name=.
ServeFindZone(c) ==
  Read(c, "findZone", {z \in AccountZones : ZoneName[z] = Trim[params[c].zone]})

ServeFindRecord(c) ==
  /\ zone[c] \in AccountZones
  /\ Read(c, "findRecord", Matching(records, zone[c], Body(params[c])))

\* POST, PUT and DELETE.
ServeCreate(c) ==
  /\ Serve(c, "create") /\ UNCHANGED reply
  /\ zone[c] \in AccountZones
  /\ \E r \in RecordIds :
       /\ records[r] = Free
       /\ SetRecords([records EXCEPT ![r] =
            [zone |-> zone[c], body |-> Body(params[c])]])

HasRecord(c) ==
  rec[c] \in Live(records) /\ records[rec[c]].zone = zone[c]

ServeUpdate(c) ==
  /\ Serve(c, "update") /\ UNCHANGED reply
  /\ HasRecord(c)
  /\ SetRecords([records EXCEPT ![rec[c]] =
       [zone |-> zone[c], body |-> Body(params[c])]])

ServeDelete(c) ==
  /\ Serve(c, "delete") /\ UNCHANGED reply
  /\ HasRecord(c)
  /\ SetRecords([records EXCEPT ![rec[c]] = Gone])

\* Unknown zone or record, no permission, rate limit: nothing is done.
Refuse(c) ==
  /\ wire[c] = "sent"
  /\ wire' = [wire EXCEPT ![c] = "refused"]
  /\ UNCHANGED <<env, up, progress, reply, records, edits, history>>

\* Anyone else who edits the account: the dashboard, another server.
EditElsewhere ==
  /\ edits < MaxElsewhere /\ edits' = edits + 1
  /\ disturbed' = TRUE
  /\ \E r \in RecordIds :
       \/ /\ records[r] # Gone
          /\ \E z \in AccountZones, p \in UpsertParams :
               /\ records[r] # Free => z = records[r].zone
               /\ SetRecords([records EXCEPT ![r] = [zone |-> z, body |-> Body(p)]])
       \/ r \in Live(records) /\ SetRecords([records EXCEPT ![r] = Gone])
  /\ UNCHANGED <<env, up, progress, wire, reply>>

\* stdin closes and run_stdio returns: the tasks are dropped where they wait.
Shutdown ==
  /\ up /\ up' = FALSE
  /\ answer' = [c \in Calls |-> IF Running(c) THEN "cancelled" ELSE answer[c]]
  /\ UNCHANGED <<env, tool, params, zone, rec, op, wire, reply, records, edits,
                 history>>

\* The session may stop here: every call that was made is over.
Terminated ==
  /\ \A c \in Calls : ~Running(c) /\ (Called(c) \/ ~up)
  /\ UNCHANGED vars

----------------------------------------------------------------------------
Resume(c) ==
  ZoneResolved(c) \/ RecordLookedUp(c) \/ WriteAnswered(c) \/ ApiError(c)
    \/ TransportError(c)

Api(c) ==
  ServeFindZone(c) \/ ServeFindRecord(c) \/ ServeCreate(c) \/ ServeUpdate(c)
    \/ ServeDelete(c) \/ Refuse(c)

Next ==
  \/ \E c \in Calls : dns_upsert(c) \/ dns_delete(c) \/ Resume(c) \/ Api(c)
  \/ EditElsewhere
  \/ Shutdown
  \/ Terminated

\* The runtime polls every task, and a request ends within 15 s with an answer
\* or an error.  Nothing is assumed of the API or of the client.
Fairness == \A c \in Calls : WF_vars(Resume(c))

Spec == Init /\ [][Next]_vars
FairSpec == Spec /\ Fairness

----------------------------------------------------------------------------
(***************************************************************************)
(* Properties.                                                             *)
(***************************************************************************)
Refusals == {"gated", "bad type", "blank", "bad record id", "no token"}
Answers == {"none", "no zone", "api error", "unknown outcome", "cancelled",
            "created", "updated", "deleted"} \cup Refusals

Flags ==
  /\ token \in BOOLEAN /\ up \in BOOLEAN /\ disturbed \in BOOLEAN
  /\ stale \in [Calls -> BOOLEAN]

RequestShapes ==
  /\ op \in [Calls -> {"none"} \cup Requests]
  /\ wire \in [Calls -> {"none", "sent", "served", "refused"}]
  /\ answer \in [Calls -> Answers]

Shapes ==
  /\ gateVar \in GateValues
  /\ tool \in [Calls -> {"none", "upsert", "delete"}]
  /\ params \in [Calls -> UpsertParams \cup DeleteParams \cup {None}]
  /\ zone \in [Calls -> Text \cup {None}] /\ rec \in [Calls -> Text \cup {None}]
  /\ reply \in [Calls -> Text \cup {None}]
  /\ records \in [RecordIds -> Slot]
  /\ edits \in 0..MaxElsewhere

\* The arguments are those of the tool; a request about records has a zone.
Fits(c) ==
  /\ tool[c] = "none" => params[c] = None
  /\ tool[c] = "upsert" => params[c] \in UpsertParams
  /\ tool[c] = "delete" => params[c] \in DeleteParams
  /\ op[c] \notin {"none", "findZone"} => zone[c] # None

TypeOK == Flags /\ RequestShapes /\ Shapes /\ \A c \in Calls : Fits(c)

(***************************************************************************)
(* A call refused by the gate, by the validation or for want of a token    *)
(* has not sent a single request (cloudflare.rs, header comment: without   *)
(* the gate the tool "never touches the API").                             *)
(***************************************************************************)
RefusedNeverTouchApi ==
  \A c \in Calls : answer[c] \in Refusals => op[c] = "none" /\ wire[c] = "none"

(***************************************************************************)
(* No request of a write tool is under way unless the gate is open and a   *)
(* token is set, and every write, also one that outlives its call, is of   *)
(* the tool that was called, passed all of its checks and, for an upsert,  *)
(* goes where the lookup pointed.                                          *)
(***************************************************************************)
WritesAreAuthorised ==
  \A c \in Calls : wire[c] # "none" =>
    /\ mutations_allowed /\ token
    /\ op[c] = "delete" => tool[c] = "delete" /\ ValidRecordId(rec[c])
    /\ op[c] \in {"findRecord", "create", "update"} =>
         tool[c] = "upsert" /\ UpsertError(params[c]) = "none"
    /\ op[c] = "create" => rec[c] = None
    /\ op[c] = "update" => rec[c] \in RecordIds

\* What an upsert of body b would do if it were one step.
AtomicUpsert(z, b) ==
  LET matching == Matching(records, z, b)
      target == IF matching # {} THEN matching
                ELSE {r \in RecordIds : records[r] = Free}
  IN  \E r \in target :
        records' = [records EXCEPT ![r] = [zone |-> z, body |-> b]]

(***************************************************************************)
(* When the write of an upsert takes effect and the set of matching        *)
(* records is still the one its lookup saw, the whole call acts like one   *)
(* atomic create-or-update: it replaces one record of that type and name,  *)
(* or adds the only one, and touches no other.                             *)
(***************************************************************************)
UpsertTakesEffect(c) ==
  op[c] \in {"create", "update"} /\ wire[c] = "sent" /\ wire'[c] = "served"

UpsertAtomicUnlessOvertaken ==
  [][\A c \in Calls : UpsertTakesEffect(c) /\ ~stale[c] =>
       AtomicUpsert(zone[c], Body(params[c]))]_vars

(***************************************************************************)
(* A caller that makes one call at a time, waits until its requests are    *)
(* settled, and is alone on the account never gets a second record of the  *)
(* same type and name out of dns_upsert.                                   *)
(***************************************************************************)
SequentialUpsertsNeverDuplicate == ~disturbed => NoDuplicates(records)

(***************************************************************************)
(* Every tool call returns, unless the server stops first: no lost         *)
(* request, however the API behaves, leaves a call waiting.                *)
(***************************************************************************)
EveryCallIsAnswered == \A c \in Calls : Called(c) ~> answer[c] # "none"

\* The write of call c has been applied; what its caller knows of it.
Applied(c) == op[c] \in WriteOps /\ wire[c] = "served"

Outcome(c) ==
  IF answer[c] = "none" THEN "open"
  ELSE IF answer[c] \in {"created", "updated", "deleted"} THEN "done"
  ELSE IF answer[c] \in {"unknown outcome", "cancelled"} THEN "unknown"
  ELSE "refused"

\* The calls keep the contract of the module DnsContract.
Contract == INSTANCE DnsContract WITH
  applied <- [c \in Calls |-> Applied(c)],
  outcome <- [c \in Calls |-> Outcome(c)]

(***************************************************************************)
(* The calls implement the contract: success means applied, refused means  *)
(* never applied, and no call is applied twice, although a request may be  *)
(* served after its call is over.                                          *)
(***************************************************************************)
KeepsContract == Contract!Spec

(***************************************************************************)
(* What the doc comment of dns_upsert promises ("Create-or-update a DNS    *)
(* record, matched on (type, name)"), for calls that may overlap: no two   *)
(* records of the same type and name with different contents.              *)
(***************************************************************************)
OneRecordPerTypeAndName ==
  \A r, s \in Live(records) :
    s \in Matching(records, records[r].zone, records[r].body) =>
      records[r].body.content = records[s].body.content
=============================================================================
