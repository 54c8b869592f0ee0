------------------------ MODULE CloudflareDnsProofs -------------------------
(***************************************************************************)
(* Machine-checked proofs about CloudflareDns, for every set of calls,     *)
(* arguments, zones and records: first the invariant of the calls and the  *)
(* requests they send, then, on top of it, the effects: the calls keep the *)
(* contract of DnsContract, an upsert whose lookup is not overtaken is     *)
(* atomic, and calls made one at a time never duplicate a record.          *)
(***************************************************************************)
EXTENDS CloudflareDns, TLAPS

\* What ties the parts of a call's state together at every step.
CallInv(c) ==
  /\ Fits(c)
  /\ tool[c] = "none" => op[c] = "none" /\ answer[c] = "none"
  /\ op[c] = "none" <=> wire[c] = "none"
  /\ op[c] # "none" => mutations_allowed /\ token /\ answer[c] \notin Refusals
  /\ op[c] \in {"findRecord", "create", "update"} => tool[c] = "upsert"
  /\ op[c] = "delete" => tool[c] = "delete"
  /\ tool[c] = "upsert" /\ op[c] # "none" => UpsertError(params[c]) = "none"
  /\ tool[c] = "delete" /\ op[c] # "none" => ValidRecordId(rec[c])
  /\ op[c] = "findRecord" /\ wire[c] = "served" => reply[c] \in RecordIds \cup {None}
  /\ op[c] = "create" => rec[c] = None
  /\ op[c] = "update" => rec[c] \in RecordIds

IInv == Flags /\ RequestShapes /\ Shapes /\ \A c \in Calls : CallInv(c)

(***************************************************************************)
(* Body, the JSON that dns_upsert sends, is well formed for every argument.*)
(***************************************************************************)
LEMMA BodyType ==
  ASSUME NEW p \in UpsertParams
  PROVE  Body(p) \in Bodies
BY TextAssumption, ParamsAssumption DEF Body, Bodies, RecordType

LEMMA RecordInSlot ==
  ASSUME NEW p \in UpsertParams, NEW z \in AccountZones
  PROVE  [zone |-> z, body |-> Body(p)] \in Slot
BY BodyType DEF Slot, Record

(***************************************************************************)
(* A step that leaves the state of call d alone keeps its invariant.       *)
(***************************************************************************)
LEMMA Untouched ==
  ASSUME NEW d \in Calls, CallInv(d), UNCHANGED env,
         tool'[d] = tool[d], params'[d] = params[d], zone'[d] = zone[d], rec'[d] = rec[d],
         op'[d] = op[d], wire'[d] = wire[d], reply'[d] = reply[d],
         answer'[d] = answer[d]
  PROVE  CallInv(d)'
BY DEF CallInv, Fits, UpsertError, mutations_allowed, env, ValidRecordId

(***************************************************************************)
(* Init establishes the invariant.                                         *)
(***************************************************************************)
LEMMA InitIInv == Init => IInv
BY AccountAssumption, TextAssumption
DEF Init, IInv, Flags, RequestShapes, Shapes, CallInv, Fits, Answers, Refusals

(***************************************************************************)
(* send keeps the shape of what it changes.                                *)
(***************************************************************************)
LEMMA SendKeepsShapes ==
  ASSUME RequestShapes, NEW c \in Calls, NEW r \in Requests, Send(c, r)
  PROVE  RequestShapes'
<1>1. CASE token
  BY <1>1 DEF Send, RequestShapes
<1>2. CASE ~token
  BY <1>2 DEF Send, Answer, RequestShapes, Answers, Refusals
<1> QED BY <1>1, <1>2

(***************************************************************************)
(* dns_upsert runs up to its first request.                                *)
(***************************************************************************)
LEMMA UpsertKeeps ==
  ASSUME IInv, NEW c \in Calls, dns_upsert(c)
  PROVE  IInv'
<1>1. PICK p \in UpsertParams :
        /\ Arrive(c, "upsert", p)
        /\ UNCHANGED rec
        /\ \/ /\ UpsertError(p) # "none"
              /\ Answer(c, UpsertError(p))
              /\ UNCHANGED <<zone, op, wire>>
           \/ /\ UpsertError(p) = "none"
              /\ ResolveZone(c, Trim[p.zone], "findRecord")
  BY DEF dns_upsert
<1>2. Trim[p.zone] \in Text
  BY ParamsAssumption, TextAssumption
<1>3. /\ UpsertError(p) \in {"none", "gated", "bad type", "blank"}
      /\ UpsertError(p) = "none" => mutations_allowed
  BY DEF UpsertError
<1>4. op[c] = "none" /\ wire[c] = "none" /\ answer[c] = "none"
  BY <1>1 DEF Arrive, Called, IInv, CallInv
<1>5. \A d \in Calls \ {c} : CallInv(d)'
  BY <1>1, Untouched
  DEF IInv, RequestShapes, Shapes, Arrive, Answer, ResolveZone, Send
<1>6. tool'[c] = "upsert" /\ params'[c] = p /\ UNCHANGED env
  BY <1>1 DEF Arrive, IInv, Shapes
<1>7. UpsertError(p)' = UpsertError(p) /\ (mutations_allowed => mutations_allowed')
  BY <1>6 DEF UpsertError, mutations_allowed, env
<1>8. Flags'
  BY <1>1 DEF Arrive, IInv, Flags, env
<1>9. Shapes'
  BY <1>1, <1>2 DEF IInv, Shapes, Arrive, env, ResolveZone
<1>10. CASE UpsertError(p) # "none"
  <2>1. RequestShapes'
    BY <1>1, <1>3, <1>10 DEF IInv, RequestShapes, Answer, Answers, Refusals
  <2>2. CallInv(c)'
    BY <1>1, <1>4, <1>6, <1>10 DEF CallInv, Fits, IInv, RequestShapes
  <2> QED BY <1>5, <1>8, <1>9, <2>1, <2>2 DEF IInv
<1>11. CASE UpsertError(p) = "none"
  <2>1. RequestShapes'
    BY <1>1, <1>11, SendKeepsShapes DEF IInv, Requests, ResolveZone
  <2>2. CASE token
    <3>1. token' /\ mutations_allowed'
      BY <1>3, <1>6, <1>7, <1>11, <2>2 DEF env
    <3>2. op'[c] \in {"findZone", "findRecord"} /\ wire'[c] = "sent"
      BY <1>1, <1>11, <2>2 DEF ResolveZone, Send, IInv, RequestShapes
    <3>3. answer'[c] = "none"
      BY <1>1, <1>4, <1>11, <2>2 DEF ResolveZone, Send
    <3>4. op'[c] = "findRecord" => zone'[c] # None
      BY <1>1, <1>2, <1>11, <2>2, NoneAssumption
      DEF ResolveZone, Send, IInv, RequestShapes, Shapes
    <3>5. UpsertError(params[c])' = "none"
      BY <1>6, <1>7, <1>11
    <3>6. CallInv(c)'
      BY <1>6, <3>1, <3>2, <3>3, <3>4, <3>5 DEF CallInv, Fits, Refusals
    <3> QED BY <1>5, <1>8, <1>9, <2>1, <3>6 DEF IInv
  <2>3. CASE ~token
    <3>1. CallInv(c)'
      BY <1>1, <1>4, <1>6, <1>11, <2>3
      DEF CallInv, Fits, IInv, RequestShapes, Shapes, ResolveZone, Send, Answer
    <3> QED BY <1>5, <1>8, <1>9, <2>1, <3>1 DEF IInv
  <2> QED BY <2>2, <2>3
<1> QED BY <1>10, <1>11

(***************************************************************************)
(* dns_delete runs up to its first request.                                *)
(***************************************************************************)
LEMMA DeleteKeeps ==
  ASSUME IInv, NEW c \in Calls, dns_delete(c)
  PROVE  IInv'
<1>1. PICK p \in DeleteParams :
        /\ Arrive(c, "delete", p)
        /\ \/ /\ DeleteError(p) # "none"
              /\ Answer(c, DeleteError(p))
              /\ UNCHANGED <<zone, rec, op, wire>>
           \/ /\ DeleteError(p) = "none"
              /\ rec' = [rec EXCEPT ![c] = Trim[p.record_id]]
              /\ ResolveZone(c, Trim[p.zone], "delete")
  BY DEF dns_delete
<1>2. Trim[p.zone] \in Text /\ Trim[p.record_id] \in Text
  BY ParamsAssumption, TextAssumption
<1>3. /\ DeleteError(p) \in {"none", "gated", "bad record id"}
      /\ DeleteError(p) = "none" =>
           mutations_allowed /\ ValidRecordId(Trim[p.record_id])
  BY DEF DeleteError
<1>4. op[c] = "none" /\ wire[c] = "none" /\ answer[c] = "none"
  BY <1>1 DEF Arrive, Called, IInv, CallInv
<1>5. \A d \in Calls \ {c} : CallInv(d)'
  BY <1>1, Untouched
  DEF IInv, RequestShapes, Shapes, Arrive, Answer, ResolveZone, Send
<1>6. tool'[c] = "delete" /\ params'[c] = p /\ UNCHANGED env
  BY <1>1 DEF Arrive, IInv, Shapes
<1>7. mutations_allowed => mutations_allowed'
  BY <1>6 DEF mutations_allowed, env
<1>8. Flags'
  BY <1>1 DEF Arrive, IInv, Flags, env
<1>9. Shapes'
  BY <1>1, <1>2 DEF IInv, Shapes, Arrive, env, ResolveZone
<1>10. CASE DeleteError(p) # "none"
  <2>1. RequestShapes'
    BY <1>1, <1>3, <1>10 DEF IInv, RequestShapes, Answer, Answers, Refusals
  <2>2. CallInv(c)'
    BY <1>1, <1>4, <1>6, <1>10 DEF CallInv, Fits, IInv, RequestShapes
  <2> QED BY <1>5, <1>8, <1>9, <2>1, <2>2 DEF IInv
<1>11. CASE DeleteError(p) = "none"
  <2>1. RequestShapes'
    BY <1>1, <1>11, SendKeepsShapes DEF IInv, Requests, WriteOps, ResolveZone
  <2>2. CASE token
    <3>1. token' /\ mutations_allowed'
      BY <1>3, <1>6, <1>7, <1>11, <2>2 DEF env
    <3>2. op'[c] \in {"findZone", "delete"} /\ wire'[c] = "sent"
      BY <1>1, <1>11, <2>2 DEF ResolveZone, Send, IInv, RequestShapes
    <3>3. answer'[c] = "none"
      BY <1>1, <1>4, <1>11, <2>2 DEF ResolveZone, Send
    <3>4. op'[c] = "delete" => zone'[c] # None
      BY <1>1, <1>2, <1>11, <2>2, NoneAssumption
      DEF ResolveZone, Send, IInv, RequestShapes, Shapes
    <3>5. rec'[c] = Trim[p.record_id]
      BY <1>1, <1>11 DEF IInv, Shapes
    <3>6. ValidRecordId(rec[c])'
      BY <1>3, <1>11, <3>5 DEF ValidRecordId
    <3>7. CallInv(c)'
      BY <1>6, <3>1, <3>2, <3>3, <3>4, <3>6 DEF CallInv, Fits, Refusals
    <3> QED BY <1>5, <1>8, <1>9, <2>1, <3>7 DEF IInv
  <2>3. CASE ~token
    <3>1. CallInv(c)'
      BY <1>1, <1>4, <1>6, <1>11, <2>3
      DEF CallInv, Fits, IInv, RequestShapes, Shapes, ResolveZone, Send, Answer
    <3> QED BY <1>5, <1>8, <1>9, <2>1, <3>1 DEF IInv
  <2> QED BY <2>2, <2>3
<1> QED BY <1>10, <1>11

(***************************************************************************)
(* A call that has sent a request has passed the gate and has a token, so  *)
(* its later requests are sent as well.                                    *)
(***************************************************************************)
LEMMA SendsAgain ==
  ASSUME RequestShapes, NEW c \in Calls, NEW r \in Requests, Send(c, r), token
  PROVE  /\ op' = [op EXCEPT ![c] = r]
         /\ wire' = [wire EXCEPT ![c] = "sent"]
         /\ answer' = answer
BY DEF Send

(***************************************************************************)
(* A call resumes with the answer to one of its requests.                  *)
(***************************************************************************)
LEMMA ResumeKeeps ==
  ASSUME IInv, NEW c \in Calls, Resume(c)
  PROVE  IInv'
<1>1. /\ UNCHANGED <<env, tool, params, reply, records, edits>>
      /\ answer[c] = "none" /\ tool[c] # "none"
  BY DEF Resume, ZoneResolved, RecordLookedUp, WriteAnswered, ApiError,
         TransportError, GiveUp, Receive, Running, Called
<1>2. Flags'
  BY DEF Resume, ZoneResolved, RecordLookedUp, WriteAnswered, ApiError,
         TransportError, GiveUp, Receive, IInv, Flags, env, history
<1>3. \A d \in Calls \ {c} : CallInv(d)'
  BY <1>1, Untouched
  DEF Resume, ZoneResolved, RecordLookedUp, WriteAnswered, ApiError,
      TransportError, GiveUp, Receive, Send, Answer, IInv, RequestShapes, Shapes
<1>4. CASE ApiError(c) \/ TransportError(c) \/ WriteAnswered(c)
  <2>1. PICK a \in Answers \ Refusals :
          Answer(c, a) /\ UNCHANGED <<zone, rec, op, wire>>
    BY <1>4 DEF ApiError, TransportError, WriteAnswered, GiveUp, Answers, Refusals
  <2>2. RequestShapes' /\ Shapes'
    BY <1>1, <2>1 DEF IInv, RequestShapes, Shapes, Answer, env
  <2>3. CallInv(c)'
    <3>1. answer'[c] \notin Refusals
      BY <2>1 DEF Answer, IInv, RequestShapes
    <3>2. UpsertError(params[c])' = UpsertError(params[c])
      BY <1>1 DEF UpsertError, mutations_allowed, env
    <3> QED
      BY <1>1, <2>1, <3>1, <3>2
      DEF IInv, CallInv, Fits, mutations_allowed, env, ValidRecordId
  <2> QED BY <1>2, <1>3, <2>2, <2>3 DEF IInv
<1>5. CASE ZoneResolved(c)
  <2>1. op[c] = "findZone" /\ wire[c] = "served" /\ rec' = rec
    BY <1>5 DEF ZoneResolved, Receive
  <2>2. token /\ token' /\ mutations_allowed'
    BY <1>1, <2>1 DEF IInv, CallInv, env, mutations_allowed
  <2>3. UpsertError(params[c])' = UpsertError(params[c])
    BY <1>1 DEF UpsertError, mutations_allowed, env
  <2>4. CASE reply[c] = None
    <3>1. Answer(c, "no zone") /\ UNCHANGED <<zone, op, wire>>
      BY <1>5, <2>4 DEF ZoneResolved
    <3>2. RequestShapes' /\ Shapes'
      BY <1>1, <2>1, <3>1 DEF IInv, RequestShapes, Shapes, Answer, Answers, env
    <3>3. CallInv(c)'
      BY <1>1, <2>1, <2>2, <2>3, <3>1
      DEF IInv, RequestShapes, CallInv, Fits, Answer, Refusals, ValidRecordId
    <3> QED BY <1>2, <1>3, <3>2, <3>3 DEF IInv
  <2>5. CASE reply[c] # None
    <3> DEFINE r == IF tool[c] = "upsert" THEN "findRecord" ELSE "delete"
    <3>1. zone' = [zone EXCEPT ![c] = reply[c]] /\ Send(c, r)
      BY <1>5, <2>5 DEF ZoneResolved
    <3>2. r \in Requests
      BY DEF Requests, WriteOps
    <3> HIDE DEF r
    <3>3. /\ op' = [op EXCEPT ![c] = r] /\ answer' = answer
          /\ wire' = [wire EXCEPT ![c] = "sent"]
      BY <2>2, <3>1, <3>2, SendsAgain DEF IInv
    <3>4. RequestShapes' /\ Shapes'
      BY <1>1, <2>1, <3>1, <3>2, <3>3
      DEF IInv, RequestShapes, Shapes, Requests, env
    <3>5. op'[c] = r /\ wire'[c] = "sent" /\ answer'[c] = "none" /\ zone'[c] # None
      BY <1>1, <2>5, <3>1, <3>3 DEF IInv, RequestShapes, Shapes
    <3>6. CallInv(c)'
      BY <1>1, <2>1, <2>2, <2>3, <3>5
      DEF r, IInv, CallInv, Fits, Refusals, Shapes, ValidRecordId
    <3> QED BY <1>2, <1>3, <3>4, <3>6 DEF IInv
  <2> QED BY <2>4, <2>5
<1>6. CASE RecordLookedUp(c)
  <2> DEFINE r == IF reply[c] = None THEN "create" ELSE "update"
  <2>1. /\ op[c] = "findRecord" /\ wire[c] = "served" /\ zone' = zone
        /\ rec' = [rec EXCEPT ![c] = reply[c]] /\ Send(c, r)
    BY <1>6 DEF RecordLookedUp, Receive
  <2>2. token /\ token' /\ mutations_allowed'
    BY <1>1, <2>1 DEF IInv, CallInv, env, mutations_allowed
  <2>3. UpsertError(params[c])' = UpsertError(params[c])
    BY <1>1 DEF UpsertError, mutations_allowed, env
  <2>4. r \in Requests
    BY DEF Requests, WriteOps
  <2> HIDE DEF r
  <2>5. /\ op' = [op EXCEPT ![c] = r] /\ answer' = answer
        /\ wire' = [wire EXCEPT ![c] = "sent"]
    BY <2>1, <2>2, <2>4, SendsAgain DEF IInv
  <2>6. RequestShapes' /\ Shapes'
    BY <1>1, <2>1, <2>4, <2>5 DEF IInv, RequestShapes, Shapes, Requests, env
  <2>7. /\ op'[c] = r /\ wire'[c] = "sent" /\ answer'[c] = "none"
        /\ rec'[c] = reply[c]
    BY <1>1, <2>1, <2>5 DEF IInv, RequestShapes, Shapes
  <2>8. CallInv(c)'
    BY <1>1, <2>1, <2>2, <2>3, <2>7 DEF r, IInv, CallInv, Fits, Refusals
  <2> QED BY <1>2, <1>3, <2>6, <2>8 DEF IInv
<1> QED BY <1>4, <1>5, <1>6 DEF Resume

(***************************************************************************)
(* The API serves or refuses a request, possibly of a call that is over.   *)
(***************************************************************************)
LEMMA ApiKeeps ==
  ASSUME IInv, NEW c \in Calls, Api(c)
  PROVE  IInv'
<1>1. /\ UNCHANGED <<env, up, progress, edits, disturbed>>
      /\ wire[c] = "sent" /\ op[c] # "none"
  BY DEF Api, ServeFindZone, ServeFindRecord, Read, ServeCreate, ServeUpdate,
         ServeDelete, Serve, Refuse, history, IInv, CallInv
<1>2. PICK w \in {"served", "refused"} : wire' = [wire EXCEPT ![c] = w]
  BY DEF Api, ServeFindZone, ServeFindRecord, Read, ServeCreate, ServeUpdate,
         ServeDelete, Serve, Refuse
<1>3. PICK x \in Text \cup {None} : reply' = reply \/ reply' = [reply EXCEPT ![c] = x]
  BY AccountAssumption
  DEF Api, ServeFindZone, ServeFindRecord, Read, ServeCreate, ServeUpdate,
      ServeDelete, Serve, Refuse, Matching, Live
<1>4. stale' \in [Calls -> BOOLEAN]
  BY DEF Api, ServeFindZone, ServeFindRecord, Read, ServeCreate, ServeUpdate,
         ServeDelete, SetRecords, Serve, Refuse, history, IInv, Flags
<1>5. records' \in [RecordIds -> Slot]
  <2>1. op[c] \in {"create", "update"} => params[c] \in UpsertParams
    BY DEF IInv, CallInv, Fits
  <2>2. op[c] \in {"create", "update"} /\ zone[c] \in AccountZones =>
          [zone |-> zone[c], body |-> Body(params[c])] \in Slot
    BY <2>1, RecordInSlot
  <2>3. CASE ServeCreate(c)
    BY <2>2, <2>3 DEF ServeCreate, Serve, SetRecords, IInv, Shapes
  <2>4. CASE ServeUpdate(c)
    <3>1. rec[c] \in RecordIds /\ records[rec[c]] \notin {Free, Gone}
          /\ records[rec[c]].zone = zone[c]
      BY <2>4 DEF ServeUpdate, HasRecord, Live
    <3>2. zone[c] \in AccountZones
      BY <3>1 DEF IInv, Shapes, Slot, Record
    <3> QED BY <2>2, <2>4, <3>2 DEF ServeUpdate, Serve, SetRecords, IInv, Shapes
  <2>5. CASE ServeDelete(c)
    BY <2>5 DEF ServeDelete, SetRecords, IInv, Shapes, Slot
  <2>6. CASE ServeFindZone(c) \/ ServeFindRecord(c) \/ Refuse(c)
    BY <2>6 DEF ServeFindZone, ServeFindRecord, Read, Refuse, IInv, Shapes
  <2> QED BY <2>3, <2>4, <2>5, <2>6 DEF Api
<1>6. \A d \in Calls \ {c} : CallInv(d)'
  BY <1>1, <1>2, <1>3, Untouched DEF IInv, RequestShapes, Shapes, progress
<1>7. Flags'
  BY <1>1, <1>4 DEF IInv, Flags, env
<1>8. RequestShapes' /\ Shapes'
  BY <1>1, <1>2, <1>3, <1>5 DEF IInv, RequestShapes, Shapes, progress, env
<1>9. CallInv(c)'
  <2>1. UpsertError(params[c])' = UpsertError(params[c])
    BY <1>1 DEF UpsertError, mutations_allowed, env, progress
  <2>2. op[c] = "findRecord" /\ wire'[c] = "served" =>
          reply'[c] \in RecordIds \cup {None}
    BY <1>1 DEF Api, ServeFindZone, ServeFindRecord, Read, ServeCreate,
       ServeUpdate, ServeDelete, Serve, Refuse, Matching, Live, IInv,
       RequestShapes, Shapes
  <2>3. wire'[c] # "none"
    BY <1>2 DEF IInv, RequestShapes
  <2> QED
    BY <1>1, <2>1, <2>2, <2>3
    DEF IInv, CallInv, Fits, mutations_allowed, env, progress, ValidRecordId
<1> QED BY <1>6, <1>7, <1>8, <1>9 DEF IInv

(***************************************************************************)
(* Someone else edits the account, or the server stops.                    *)
(***************************************************************************)
LEMMA EditKeeps == IInv /\ EditElsewhere => IInv'
<1> SUFFICES ASSUME IInv, EditElsewhere PROVE IInv'
  OBVIOUS
<1>1. UNCHANGED <<env, up, progress, wire, reply>> /\ disturbed' = TRUE
  BY DEF EditElsewhere
<1>2. stale' \in [Calls -> BOOLEAN]
  BY DEF EditElsewhere, SetRecords
<1>3. records' \in [RecordIds -> Slot]
  <2>1. PICK r \in RecordIds :
          \/ \E z \in AccountZones, p \in UpsertParams :
               records' = [records EXCEPT ![r] = [zone |-> z, body |-> Body(p)]]
          \/ records' = [records EXCEPT ![r] = Gone]
    BY DEF EditElsewhere, SetRecords, Live
  <2>2. PICK s \in Slot : records' = [records EXCEPT ![r] = s]
    BY <2>1, RecordInSlot DEF Slot
  <2> QED BY <2>2 DEF IInv, Shapes
<1>4. edits' \in 0..MaxElsewhere
  BY AccountAssumption DEF EditElsewhere, IInv, Shapes
<1>5. \A d \in Calls : CallInv(d)'
  BY <1>1, Untouched DEF IInv, progress
<1>6. Flags'
  BY <1>1, <1>2 DEF IInv, Flags, env
<1>7. RequestShapes' /\ Shapes'
  BY <1>1, <1>3, <1>4 DEF IInv, RequestShapes, Shapes, progress, env
<1> QED BY <1>5, <1>6, <1>7 DEF IInv

LEMMA ShutdownKeeps == IInv /\ Shutdown => IInv'
<1> SUFFICES ASSUME IInv, Shutdown PROVE IInv'
  OBVIOUS
<1>1. UNCHANGED <<env, tool, params, zone, rec, op, wire, reply, records, edits,
                  history>> /\ up' = FALSE
  BY DEF Shutdown
<1>2. answer' = [c \in Calls |-> IF Running(c) THEN "cancelled" ELSE answer[c]]
  BY DEF Shutdown
<1>3. RequestShapes' /\ Shapes'
  BY <1>1, <1>2 DEF IInv, RequestShapes, Shapes, Answers, env
<1>4. Flags'
  BY <1>1 DEF IInv, Flags, env, history
<1>5. ASSUME NEW c \in Calls PROVE CallInv(c)'
  <2>1. answer'[c] = answer[c] \/ (answer'[c] = "cancelled" /\ tool[c] # "none")
    BY <1>2 DEF Running, Called
  <2>2. UpsertError(params[c])' = UpsertError(params[c])
    BY <1>1 DEF UpsertError, mutations_allowed, env
  <2> QED
    BY <1>1, <2>1, <2>2
    DEF IInv, CallInv, Fits, Refusals, mutations_allowed, env, ValidRecordId
<1> QED BY <1>3, <1>4, <1>5 DEF IInv

(***************************************************************************)
(* The invariant is inductive.                                             *)
(***************************************************************************)
LEMMA StutterKeeps == IInv /\ UNCHANGED vars => IInv'
BY Untouched
DEF IInv, Flags, RequestShapes, Shapes, vars, env, progress, history

LEMMA NextIInv == IInv /\ [Next]_vars => IInv'
<1> SUFFICES ASSUME IInv, [Next]_vars PROVE IInv'
  OBVIOUS
<1>1. CASE \E c \in Calls : dns_upsert(c) \/ dns_delete(c) \/ Resume(c) \/ Api(c)
  BY <1>1, UpsertKeeps, DeleteKeeps, ResumeKeeps, ApiKeeps
<1>2. CASE EditElsewhere
  BY <1>2, EditKeeps
<1>3. CASE Shutdown
  BY <1>3, ShutdownKeeps
<1>4. CASE Terminated \/ UNCHANGED vars
  BY <1>4, StutterKeeps DEF Terminated
<1> QED BY <1>1, <1>2, <1>3, <1>4 DEF Next

THEOREM SpecIInv == Spec => []IInv
<1>1. QED BY InitIInv, NextIInv, PTL DEF Spec

(***************************************************************************)
(* Type correctness, for every instance.                                   *)
(***************************************************************************)
THEOREM TypeCorrect == Spec => []TypeOK
<1>1. IInv => TypeOK
  BY DEF IInv, TypeOK, CallInv
<1> QED BY <1>1, SpecIInv, PTL

(***************************************************************************)
(* A call that the gate, the validation or the missing token refused has   *)
(* not touched the API (cloudflare.rs:263-305, send).                      *)
(***************************************************************************)
THEOREM RefusedIsHarmless == Spec => []RefusedNeverTouchApi
<1>1. IInv => RefusedNeverTouchApi
  BY DEF IInv, CallInv, RefusedNeverTouchApi
<1> QED BY <1>1, SpecIInv, PTL

(***************************************************************************)
(* Whatever calls run together, every request on the wire is authorised    *)
(* and every write follows from the checks and the lookup of its call.     *)
(***************************************************************************)
THEOREM WritesAuthorised == Spec => []WritesAreAuthorised
<1>1. IInv => WritesAreAuthorised
  BY DEF IInv, CallInv, WritesAreAuthorised
<1> QED BY <1>1, SpecIInv, PTL

----------------------------------------------------------------------------

\* What a call answered says about its last request.
Concluded(c) ==
  /\ answer[c] \in {"created", "updated", "deleted"} => Applied(c)
  /\ answer[c] = "api error" => wire[c] = "refused"
  /\ answer[c] = "no zone" => op[c] = "findZone"

Settled == IInv /\ \A c \in Calls : Concluded(c)

applied == [c \in Calls |-> Applied(c)]
outcome == [c \in Calls |-> Outcome(c)]

(***************************************************************************)
(* The API never serves the write of a call that has been told of success  *)
(* or of a refusal.                                                        *)
(***************************************************************************)
LEMMA ServedInTime ==
  ASSUME Settled, NEW c \in Calls, op[c] \in WriteOps, wire[c] = "sent"
  PROVE  ~Applied(c) /\ Outcome(c) \in {"open", "unknown"}
<1>1. answer[c] \notin Refusals
  BY DEF Settled, IInv, CallInv, WriteOps
<1>2. answer[c] \in Answers
  BY DEF Settled, IInv, RequestShapes
<1>3. answer[c] \notin {"created", "updated", "deleted", "api error", "no zone"}
  BY DEF Settled, Concluded, Applied, WriteOps
<1> QED BY <1>1, <1>2, <1>3 DEF Answers, Applied, Outcome

(***************************************************************************)
(* A step that changes the request and the answer of call c only.          *)
(***************************************************************************)
LEMMA OnlyOneChanges ==
  ASSUME NEW c \in Calls,
         \A d \in Calls \ {c} :
           op'[d] = op[d] /\ wire'[d] = wire[d] /\ answer'[d] = answer[d]
  PROVE  /\ applied' = [applied EXCEPT ![c] = Applied(c)']
         /\ outcome' = [outcome EXCEPT ![c] = Outcome(c)']
         /\ (\A d \in Calls \ {c} : Concluded(d)) =>
              \A d \in Calls \ {c} : Concluded(d)'
<1>1. ASSUME NEW d \in Calls \ {c}
      PROVE  /\ Applied(d)' = Applied(d) /\ Outcome(d)' = Outcome(d)
             /\ Concluded(d) => Concluded(d)'
  BY <1>1 DEF Applied, Outcome, Concluded
<1> QED BY <1>1 DEF applied, outcome

\* The abstract steps, over the refinement mapping.
TakesEffect(c) ==
  /\ ~applied[c] /\ outcome[c] \in {"open", "unknown"}
  /\ applied' = [applied EXCEPT ![c] = TRUE]
  /\ \E r \in RecordIds : \A s \in RecordIds \ {r} : records'[s] = records[s]
  /\ outcome' = outcome

Concludes(c) ==
  /\ outcome[c] = "open"
  /\ \/ applied[c] /\ outcome' = [outcome EXCEPT ![c] = "done"]
     \/ ~applied[c] /\ outcome' = [outcome EXCEPT ![c] = "refused"]
  /\ records' = records /\ applied' = applied

LosesTrack ==
  /\ \E lost \in SUBSET {c \in Calls : outcome[c] = "open"} :
       outcome' = [c \in Calls |-> IF c \in lost THEN "unknown" ELSE outcome[c]]
  /\ records' = records /\ applied' = applied

ContractStep ==
  \/ \E c \in Calls : TakesEffect(c) \/ Concludes(c)
  \/ LosesTrack
  \/ applied' = applied /\ outcome' = outcome

LEMMA IsContractStep == ContractStep => Contract!Next
BY DEF ContractStep, TakesEffect, Concludes, LosesTrack, applied, outcome,
       Contract!Next, Contract!TakeEffect, Contract!Conclude,
       Contract!LoseTrack, Contract!Elsewhere, Contract!Open

(***************************************************************************)
(* A call that stays open, or concludes with what the API did.             *)
(***************************************************************************)
LEMMA ConcludingStep ==
  ASSUME NEW c \in Calls, records' = records,
         \A d \in Calls \ {c} :
           op'[d] = op[d] /\ wire'[d] = wire[d] /\ answer'[d] = answer[d],
         Applied(c)' = Applied(c), Outcome(c) = "open",
         \/ Outcome(c)' = "open"
         \/ Applied(c) /\ Outcome(c)' = "done"
         \/ ~Applied(c) /\ Outcome(c)' = "refused"
  PROVE  ContractStep
<1>1. applied[c] = Applied(c) /\ outcome[c] = "open"
  BY DEF applied, outcome
<1>2. /\ applied' = [applied EXCEPT ![c] = Applied(c)]
      /\ outcome' = [outcome EXCEPT ![c] = Outcome(c)']
  BY OnlyOneChanges
<1>3. applied' = applied
  BY <1>2 DEF applied
<1>4. CASE Outcome(c)' = "open"
  <2>1. outcome' = outcome
    BY <1>2, <1>4 DEF outcome
  <2> QED BY <1>3, <2>1 DEF ContractStep
<1>5. CASE Outcome(c)' # "open"
  BY <1>1, <1>2, <1>3, <1>5 DEF ContractStep, Concludes
<1> QED BY <1>4, <1>5

(***************************************************************************)
(* The initial states.                                                     *)
(***************************************************************************)
LEMMA InitSettled == Init => Settled /\ Contract!Init
BY InitIInv
DEF Init, Settled, Concluded, Contract!Init, Applied, Outcome, WriteOps

(***************************************************************************)
(* A call arrives: it is refused on the spot, or sends its first request.  *)
(***************************************************************************)
LEMMA ArrivalStep ==
  ASSUME Settled, IInv', NEW c \in Calls, dns_upsert(c) \/ dns_delete(c)
  PROVE  ContractStep /\ Settled'
<1>1. /\ op[c] = "none" /\ wire[c] = "none" /\ answer[c] = "none"
      /\ records' = records
  BY DEF dns_upsert, dns_delete, Arrive, Called, Settled, IInv, CallInv
<1>2. \A d \in Calls \ {c} :
        op'[d] = op[d] /\ wire'[d] = wire[d] /\ answer'[d] = answer[d]
  BY DEF dns_upsert, dns_delete, Answer, ResolveZone, Send, Settled, IInv, RequestShapes
<1>3. \/ answer'[c] \in Refusals /\ wire'[c] = "none"
      \/ answer'[c] = "none" /\ wire'[c] = "sent"
  <2>1. \A p \in UpsertParams : UpsertError(p) # "none" => UpsertError(p) \in Refusals
    BY DEF UpsertError, Refusals
  <2>2. \A p \in DeleteParams : DeleteError(p) # "none" => DeleteError(p) \in Refusals
    BY DEF DeleteError, Refusals
  <2>3. CASE dns_upsert(c)
    BY <1>1, <2>1, <2>3
    DEF dns_upsert, Answer, ResolveZone, Send, Settled, IInv, RequestShapes, Refusals
  <2>4. CASE dns_delete(c)
    BY <1>1, <2>2, <2>4
    DEF dns_delete, Answer, ResolveZone, Send, Settled, IInv, RequestShapes, Refusals
  <2> QED BY <2>3, <2>4
<1>4. /\ ~Applied(c) /\ ~Applied(c)' /\ Outcome(c) = "open"
      /\ Outcome(c)' \in {"open", "refused"} /\ Concluded(c)'
  BY <1>1, <1>3 DEF Applied, Outcome, Concluded, Refusals
<1>5. ContractStep
  BY <1>1, <1>2, <1>4, ConcludingStep DEF Applied
<1>6. Settled'
  BY <1>2, <1>4, OnlyOneChanges DEF Settled
<1> QED BY <1>5, <1>6

(***************************************************************************)
(* A call resumes: it sends its next request, concludes, or loses track.   *)
(***************************************************************************)
LEMMA ResumeStep ==
  ASSUME Settled, IInv', NEW c \in Calls, Resume(c)
  PROVE  ContractStep /\ Settled'
<1>1. answer[c] = "none" /\ tool[c] # "none" /\ records' = records
  BY DEF Resume, ZoneResolved, RecordLookedUp, WriteAnswered, ApiError,
         TransportError, GiveUp, Receive, Running, Called
<1>2. \A d \in Calls \ {c} :
        op'[d] = op[d] /\ wire'[d] = wire[d] /\ answer'[d] = answer[d]
  BY DEF Resume, ZoneResolved, RecordLookedUp, WriteAnswered, ApiError,
         TransportError, GiveUp, Receive, Send, Answer, Settled, IInv, RequestShapes
<1>3. Outcome(c) = "open"
  BY <1>1 DEF Outcome
<1>4. CASE ZoneResolved(c) \/ RecordLookedUp(c)
  <2>1. op[c] \in {"findZone", "findRecord"} /\ token
    BY <1>4 DEF ZoneResolved, RecordLookedUp, Receive, Settled, IInv, CallInv
  <2>2. \/ op'[c] = "findZone" /\ answer'[c] = "no zone"
        \/ wire'[c] = "sent" /\ answer'[c] = "none"
    BY <1>1, <1>4, <2>1
    DEF ZoneResolved, RecordLookedUp, Receive, Send, Answer, Settled, IInv, RequestShapes
  <2>3. /\ ~Applied(c) /\ ~Applied(c)' /\ Outcome(c)' \in {"open", "refused"}
        /\ Concluded(c)'
    BY <2>1, <2>2 DEF Applied, Outcome, Concluded, WriteOps
  <2>4. ContractStep
    BY <1>1, <1>2, <1>3, <2>3, ConcludingStep DEF Applied
  <2> QED BY <1>2, <2>3, <2>4, OnlyOneChanges DEF Settled
<1>5. CASE WriteAnswered(c)
  <2>1. /\ op[c] \in WriteOps /\ wire[c] = "served" /\ op' = op /\ wire' = wire
        /\ answer'[c] \in {"created", "updated", "deleted"}
    BY <1>5 DEF WriteAnswered, Receive, Answer, WriteOps, Settled, IInv, RequestShapes
  <2>2. Applied(c) /\ Applied(c)' /\ Outcome(c)' = "done" /\ Concluded(c)'
    BY <2>1 DEF Applied, Outcome, Concluded
  <2>3. ContractStep
    BY <1>1, <1>2, <1>3, <2>2, ConcludingStep DEF Applied
  <2> QED BY <1>2, <2>2, <2>3, OnlyOneChanges DEF Settled
<1>6. CASE ApiError(c)
  <2>1. /\ wire[c] = "refused" /\ op' = op /\ wire' = wire
        /\ answer'[c] = "api error"
    BY <1>6 DEF ApiError, GiveUp, Answer, Settled, IInv, RequestShapes
  <2>2. ~Applied(c) /\ ~Applied(c)' /\ Outcome(c)' = "refused" /\ Concluded(c)'
    BY <2>1 DEF Applied, Outcome, Concluded
  <2>3. ContractStep
    BY <1>1, <1>2, <1>3, <2>2, ConcludingStep DEF Applied
  <2> QED BY <1>2, <2>2, <2>3, OnlyOneChanges DEF Settled
<1>7. CASE TransportError(c)
  <2>1. op' = op /\ wire' = wire /\ answer'[c] = "unknown outcome"
    BY <1>7 DEF TransportError, GiveUp, Answer, Settled, IInv, RequestShapes
  <2>2. Applied(c)' = Applied(c) /\ Outcome(c)' = "unknown" /\ Concluded(c)'
    BY <2>1 DEF Applied, Outcome, Concluded
  <2>3. /\ applied' = applied
        /\ outcome' = [d \in Calls |-> IF d \in {c} THEN "unknown" ELSE outcome[d]]
    BY <1>2, <2>2, OnlyOneChanges DEF applied, outcome
  <2>4. {c} \in SUBSET {d \in Calls : outcome[d] = "open"}
    BY <1>3 DEF outcome
  <2>5. ContractStep
    BY <1>1, <2>3, <2>4 DEF ContractStep, LosesTrack
  <2> QED BY <1>2, <2>2, <2>5, OnlyOneChanges DEF Settled
<1> QED BY <1>4, <1>5, <1>6, <1>7 DEF Resume

(***************************************************************************)
(* The API serves or refuses a request: a write takes effect exactly here. *)
(***************************************************************************)
LEMMA ApiStep ==
  ASSUME Settled, IInv', NEW c \in Calls, Api(c)
  PROVE  ContractStep /\ Settled'
<1>1. wire[c] = "sent" /\ op' = op /\ answer' = answer
  BY DEF Api, ServeFindZone, ServeFindRecord, Read, ServeCreate, ServeUpdate,
         ServeDelete, Serve, Refuse, progress
<1>2. \A d \in Calls \ {c} :
        op'[d] = op[d] /\ wire'[d] = wire[d] /\ answer'[d] = answer[d]
  BY DEF Api, ServeFindZone, ServeFindRecord, Read, ServeCreate, ServeUpdate,
         ServeDelete, Serve, Refuse, progress, Settled, IInv, RequestShapes
<1>3. Outcome(c)' = Outcome(c)
  BY <1>1 DEF Outcome
<1>4. Concluded(c)'
  BY <1>1 DEF Settled, Concluded, Applied
<1>5. Settled'
  BY <1>2, <1>4, OnlyOneChanges DEF Settled
<1>6. outcome' = outcome
  BY <1>2, <1>3, OnlyOneChanges DEF outcome
<1>7. CASE ServeFindZone(c) \/ ServeFindRecord(c) \/ Refuse(c)
  <2>1. op[c] \in {"findZone", "findRecord"} \/ wire'[c] = "refused"
    BY <1>7 DEF ServeFindZone, ServeFindRecord, Read, Serve, Refuse, Settled,
                IInv, RequestShapes
  <2>2. ~Applied(c) /\ ~Applied(c)'
    BY <1>1, <2>1 DEF Applied, WriteOps
  <2>3. applied' = applied
    BY <1>2, <2>2, OnlyOneChanges DEF applied, Applied
  <2> QED BY <1>5, <1>6, <2>3 DEF ContractStep
<1>8. CASE ServeCreate(c) \/ ServeUpdate(c) \/ ServeDelete(c)
  <2>1. op[c] \in WriteOps /\ wire'[c] = "served"
    BY <1>8 DEF ServeCreate, ServeUpdate, ServeDelete, Serve, WriteOps, Settled,
                IInv, RequestShapes
  <2>2. ~Applied(c) /\ Applied(c)' /\ Outcome(c) \in {"open", "unknown"}
    BY <1>1, <2>1, ServedInTime DEF Applied
  <2>3. \E r \in RecordIds : \A s \in RecordIds \ {r} : records'[s] = records[s]
    BY <1>8 DEF ServeCreate, ServeUpdate, ServeDelete, SetRecords, HasRecord,
                Live, Settled, IInv, Shapes
  <2>4. applied' = [applied EXCEPT ![c] = TRUE]
    BY <1>2, <2>2, OnlyOneChanges
  <2>5. ~applied[c] /\ outcome[c] \in {"open", "unknown"}
    BY <2>2 DEF applied, outcome
  <2>6. TakesEffect(c)
    BY <1>6, <2>3, <2>4, <2>5 DEF TakesEffect
  <2> QED BY <1>5, <2>6 DEF ContractStep
<1> QED BY <1>7, <1>8 DEF Api

(***************************************************************************)
(* Steps of the environment: an edit elsewhere, a shutdown, a stutter.     *)
(***************************************************************************)
LEMMA SameCalls ==
  ASSUME Settled, IInv', op' = op, wire' = wire, answer' = answer
  PROVE  ContractStep /\ Settled'
BY DEF ContractStep, applied, outcome, Applied, Outcome, Settled, Concluded

LEMMA ShutdownStep ==
  ASSUME Settled, IInv', Shutdown
  PROVE  ContractStep /\ Settled'
<1>1. op' = op /\ wire' = wire /\ records' = records
  BY DEF Shutdown
<1>2. \A c \in Calls :
        \/ answer'[c] = answer[c]
        \/ answer[c] = "none" /\ answer'[c] = "cancelled"
  BY DEF Shutdown, Running
<1>3. Settled'
  BY <1>1, <1>2 DEF Settled, Concluded, Applied
<1>4. applied' = applied
  BY <1>1 DEF applied, Applied
<1> DEFINE lost == {c \in Calls : answer[c] = "none" /\ answer'[c] = "cancelled"}
<1>5. \A c \in Calls :
        Outcome(c)' = IF c \in lost THEN "unknown" ELSE Outcome(c)
  BY <1>2 DEF Outcome
<1>6. lost \in SUBSET {c \in Calls : outcome[c] = "open"}
  BY DEF outcome, Outcome
<1> HIDE DEF lost
<1>7. outcome' = [c \in Calls |-> IF c \in lost THEN "unknown" ELSE outcome[c]]
  BY <1>5 DEF outcome
<1>8. ContractStep
  BY <1>1, <1>4, <1>6, <1>7 DEF ContractStep, LosesTrack
<1> QED BY <1>3, <1>8

(***************************************************************************)
(* Every step of the calls is a step of the contract, or none at all.      *)
(***************************************************************************)
LEMMA NextStep == Settled /\ [Next]_vars => ContractStep /\ Settled'
<1> SUFFICES ASSUME Settled, [Next]_vars PROVE ContractStep /\ Settled'
  OBVIOUS
<1>1. IInv'
  BY NextIInv DEF Settled
<1>2. CASE \E c \in Calls : dns_upsert(c) \/ dns_delete(c) \/ Resume(c) \/ Api(c)
  BY <1>1, <1>2, ArrivalStep, ResumeStep, ApiStep
<1>3. CASE EditElsewhere
  BY <1>1, <1>3, SameCalls DEF EditElsewhere, progress
<1>4. CASE Shutdown
  BY <1>1, <1>4, ShutdownStep
<1>5. CASE Terminated \/ UNCHANGED vars
  BY <1>1, <1>5, SameCalls DEF Terminated, vars, progress
<1> QED BY <1>2, <1>3, <1>4, <1>5 DEF Next

(***************************************************************************)
(* The write tools implement DnsContract, for every number of calls and    *)
(* records and whatever the API, the network and the other callers do.     *)
(***************************************************************************)
THEOREM ContractKept == Spec => KeepsContract
<1>1. Settled /\ [Next]_vars =>
        Settled' /\ [Contract!Next]_<<records, applied, outcome>>
  BY NextStep, IsContractStep
<1> QED BY <1>1, InitSettled, PTL
        DEF Spec, KeepsContract, Contract!Spec, applied, outcome

----------------------------------------------------------------------------
(***************************************************************************)
(* What a lookup that nobody has overtaken says about the records now.     *)
(***************************************************************************)
Found(c) == Matching(records, zone[c], Body(params[c]))

AwaitsLookup(c) == op[c] = "findRecord" /\ wire[c] = "served" /\ answer[c] = "none"

FreshLookup(c) ==
  ~stale[c] =>
    /\ AwaitsLookup(c) => IF reply[c] = None THEN Found(c) = {} ELSE reply[c] \in Found(c)
    /\ op[c] = "create" /\ wire[c] = "sent" => Found(c) = {}
    /\ op[c] = "update" /\ wire[c] = "sent" => rec[c] \in Found(c)

LookupInv == IInv /\ \A c \in Calls : FreshLookup(c)

(***************************************************************************)
(* A step that leaves the request of call d alone keeps its lookup fresh,  *)
(* or marks it stale.                                                      *)
(***************************************************************************)
LEMMA LookupKept ==
  ASSUME NEW d \in Calls, FreshLookup(d),
         params'[d] = params[d], zone'[d] = zone[d], rec'[d] = rec[d],
         op'[d] = op[d], wire'[d] = wire[d], reply'[d] = reply[d],
         answer[d] # "none" => answer'[d] # "none",
         SetRecords(records') \/ UNCHANGED <<records, stale>>
  PROVE  FreshLookup(d)'
<1>1. CASE UNCHANGED <<records, stale>>
  <2>1. Found(d)' = Found(d)
    BY <1>1 DEF Found, Matching, Live
  <2> QED BY <1>1, <2>1 DEF FreshLookup, AwaitsLookup
<1>2. CASE SetRecords(records')
  <2>1. stale'[d] = \/ stale[d]
                    \/ /\ ActsOnLookup(d)
                       /\ Matching(records', zone[d], Body(params[d])) # Found(d)
    BY <1>2 DEF SetRecords, Found
  <2>2. Found(d)' = Matching(records', zone[d], Body(params[d]))
    BY DEF Found, Matching, Live
  <2>3. SUFFICES ASSUME ~stale'[d] PROVE FreshLookup(d)'
    BY DEF FreshLookup
  <2>4. ~stale[d]
    BY <2>1, <2>3
  <2>5. ActsOnLookup(d) => Found(d)' = Found(d)
    BY <2>1, <2>2, <2>3
  <2> QED BY <2>4, <2>5 DEF FreshLookup, AwaitsLookup, ActsOnLookup
<1> QED BY <1>1, <1>2

LEMMA InitLookup == Init => LookupInv
BY InitIInv DEF Init, LookupInv, FreshLookup, AwaitsLookup

(***************************************************************************)
(* The steps of the calls.                                                 *)
(***************************************************************************)
LEMMA ArrivalKeepsLookups ==
  ASSUME LookupInv, IInv', NEW c \in Calls, dns_upsert(c) \/ dns_delete(c)
  PROVE  LookupInv'
<1>1. UNCHANGED <<records, stale>>
  BY DEF dns_upsert, dns_delete, Arrive
<1>2. ASSUME NEW d \in Calls \ {c} PROVE FreshLookup(d)'
  <2>1. op'[d] = op[d] /\ wire'[d] = wire[d] /\ answer'[d] = answer[d]
    BY DEF dns_upsert, dns_delete, Answer, ResolveZone, Send, LookupInv, IInv, RequestShapes
  <2>2. /\ params'[d] = params[d] /\ reply'[d] = reply[d]
        /\ zone'[d] = zone[d] /\ rec'[d] = rec[d]
    BY DEF dns_upsert, dns_delete, Arrive, ResolveZone, LookupInv, IInv, Shapes
  <2> QED BY <1>1, <2>1, <2>2, LookupKept DEF LookupInv
<1>3. FreshLookup(c)'
  <2>1. op[c] = "none" /\ wire[c] = "none"
    BY DEF dns_upsert, dns_delete, Arrive, Called, LookupInv, IInv, CallInv
  <2>2. wire'[c] # "served" /\ op'[c] \notin {"create", "update"}
    BY <2>1 DEF dns_upsert, dns_delete, Answer, ResolveZone, Send, LookupInv,
                IInv, RequestShapes
  <2> QED BY <2>2 DEF FreshLookup, AwaitsLookup
<1> QED BY <1>2, <1>3 DEF LookupInv

LEMMA ResumeKeepsLookups ==
  ASSUME LookupInv, IInv', NEW c \in Calls, Resume(c)
  PROVE  LookupInv'
<1>1. UNCHANGED <<records, stale, params, reply>> /\ answer[c] = "none"
  BY DEF Resume, ZoneResolved, RecordLookedUp, WriteAnswered, ApiError,
         TransportError, GiveUp, Receive, Running, history
<1>2. \A d \in Calls \ {c} : FreshLookup(d)'
  BY <1>1, LookupKept
  DEF Resume, ZoneResolved, RecordLookedUp, WriteAnswered, ApiError,
      TransportError, GiveUp, Receive, Send, Answer, LookupInv, IInv,
      RequestShapes, Shapes
<1>3. CASE WriteAnswered(c) \/ ApiError(c) \/ TransportError(c)
  <2>1. FreshLookup(c)'
    BY <1>1, <1>3, LookupKept
    DEF WriteAnswered, ApiError, TransportError, GiveUp, Receive, Answer, LookupInv
  <2> QED BY <1>2, <2>1 DEF LookupInv
<1>4. CASE ZoneResolved(c)
  <2>1. op'[c] \notin {"create", "update"} /\ ~AwaitsLookup(c)'
    BY <1>4 DEF ZoneResolved, Receive, Send, Answer, AwaitsLookup, LookupInv,
                IInv, RequestShapes
  <2> QED BY <1>2, <2>1 DEF LookupInv, FreshLookup
<1>5. CASE RecordLookedUp(c)
  <2>1. AwaitsLookup(c) /\ zone' = zone /\ token
    BY <1>1, <1>5 DEF RecordLookedUp, Receive, AwaitsLookup, LookupInv, IInv, CallInv
  <2>2. /\ op'[c] = IF reply[c] = None THEN "create" ELSE "update"
        /\ wire'[c] = "sent" /\ rec'[c] = reply[c]
    BY <1>5, <2>1 DEF RecordLookedUp, Send, LookupInv, IInv, RequestShapes, Shapes
  <2>3. Found(c)' = Found(c) /\ stale'[c] = stale[c]
    BY <1>1, <2>1 DEF Found, Matching, Live
  <2>4. FreshLookup(c)'
    BY <2>1, <2>2, <2>3 DEF LookupInv, FreshLookup, AwaitsLookup
  <2> QED BY <1>2, <2>4 DEF LookupInv
<1> QED BY <1>3, <1>4, <1>5 DEF Resume

LEMMA ApiKeepsLookups ==
  ASSUME LookupInv, IInv', NEW c \in Calls, Api(c)
  PROVE  LookupInv'
<1>1. UNCHANGED progress /\ wire'[c] # "sent"
  BY DEF Api, ServeFindZone, ServeFindRecord, Read, ServeCreate, ServeUpdate,
         ServeDelete, Serve, Refuse, LookupInv, IInv, RequestShapes
<1>2. SetRecords(records') \/ UNCHANGED <<records, stale>>
  BY DEF Api, ServeFindZone, ServeFindRecord, Read, ServeCreate, ServeUpdate,
         ServeDelete, Refuse, SetRecords, history
<1>3. \A d \in Calls \ {c} : wire'[d] = wire[d] /\ reply'[d] = reply[d]
  BY DEF Api, ServeFindZone, ServeFindRecord, Read, ServeCreate, ServeUpdate,
         ServeDelete, Serve, Refuse, LookupInv, IInv, RequestShapes, Shapes
<1>4. \A d \in Calls \ {c} : FreshLookup(d)'
  BY <1>1, <1>2, <1>3, LookupKept DEF LookupInv, progress
<1>5. FreshLookup(c)'
  <2>1. CASE ServeFindRecord(c)
    <3>1. UNCHANGED <<records, params, zone>>
      BY <2>1 DEF ServeFindRecord, Read, Serve, progress
    <3>2. Found(c)' = Found(c)
      BY <3>1 DEF Found, Matching, Live
    <3>3. IF reply'[c] = None THEN Found(c) = {} ELSE reply'[c] \in Found(c)
      BY <2>1, AccountAssumption, NoneAssumption
      DEF ServeFindRecord, Read, Found, LookupInv, IInv, Shapes, Matching, Live
    <3> QED BY <1>1, <3>2, <3>3 DEF FreshLookup
  <2>2. CASE ~ServeFindRecord(c)
    <3>1. ~AwaitsLookup(c)'
      BY <2>2 DEF Api, ServeFindZone, Read, ServeCreate, ServeUpdate,
         ServeDelete, Serve, Refuse, progress, AwaitsLookup, LookupInv, IInv, RequestShapes
    <3> QED BY <1>1, <3>1 DEF FreshLookup
  <2> QED BY <2>1, <2>2
<1> QED BY <1>4, <1>5 DEF LookupInv

LEMMA NextLookup == LookupInv /\ [Next]_vars => LookupInv'
<1> SUFFICES ASSUME LookupInv, [Next]_vars PROVE LookupInv'
  OBVIOUS
<1>1. IInv'
  BY NextIInv DEF LookupInv
<1>2. CASE \E c \in Calls : dns_upsert(c) \/ dns_delete(c) \/ Resume(c) \/ Api(c)
  BY <1>1, <1>2, ArrivalKeepsLookups, ResumeKeepsLookups, ApiKeepsLookups
<1>3. CASE EditElsewhere
  <2>1. UNCHANGED <<progress, wire, reply>> /\ SetRecords(records')
    BY <1>3 DEF EditElsewhere, SetRecords
  <2> QED BY <1>1, <2>1, LookupKept DEF LookupInv, progress
<1>4. CASE Shutdown
  <2>1. \A c \in Calls : answer[c] # "none" => answer'[c] = answer[c]
    BY <1>4 DEF Shutdown, Running
  <2> QED BY <1>1, <1>4, <2>1, LookupKept DEF LookupInv, Shutdown, history
<1>5. CASE Terminated \/ UNCHANGED vars
  BY <1>1, <1>5, LookupKept DEF LookupInv, Terminated, vars, progress, history
<1> QED BY <1>2, <1>3, <1>4, <1>5 DEF Next

(***************************************************************************)
(* An upsert whose lookup has not been overtaken acts like one atomic      *)
(* create-or-update at the moment its write is served.                     *)
(***************************************************************************)
LEMMA EffectIsAtomic ==
  ASSUME LookupInv, [Next]_vars, NEW c \in Calls, UpsertTakesEffect(c), ~stale[c]
  PROVE  AtomicUpsert(zone[c], Body(params[c]))
<1>1. ServeCreate(c) \/ ServeUpdate(c)
  <2>1. wire[c] = "sent" /\ wire'[c] = "served" /\ op[c] \in {"create", "update"}
    BY DEF UpsertTakesEffect
  <2>2. PICK d \in Calls : dns_upsert(d) \/ dns_delete(d) \/ Resume(d) \/ Api(d)
    BY <2>1 DEF Next, EditElsewhere, Shutdown, Terminated, vars
  <2>3. ~(dns_upsert(d) \/ dns_delete(d))
    BY <2>1 DEF dns_upsert, dns_delete, ResolveZone, Send, LookupInv, IInv, RequestShapes
  <2>4. ~Resume(d)
    BY <2>1 DEF Resume, ZoneResolved, RecordLookedUp, WriteAnswered, ApiError,
       TransportError, GiveUp, Receive, Send, LookupInv, IInv, RequestShapes
  <2>5. Api(d) /\ d = c
    BY <2>1, <2>2, <2>3, <2>4 DEF Api, ServeFindZone, ServeFindRecord, Read,
       ServeCreate, ServeUpdate, ServeDelete, Serve, Refuse, LookupInv, IInv, RequestShapes
  <2> QED
    BY <2>1, <2>5 DEF Api, ServeFindZone, ServeFindRecord, Read, ServeDelete,
       Serve, Refuse, LookupInv, IInv, RequestShapes
<1>2. CASE ServeCreate(c)
  <2>1. Found(c) = {}
    BY <1>2 DEF ServeCreate, Serve, LookupInv, FreshLookup
  <2> QED BY <1>2, <2>1 DEF ServeCreate, SetRecords, AtomicUpsert, Found
<1>3. CASE ServeUpdate(c)
  <2>1. rec[c] \in Found(c)
    BY <1>3 DEF ServeUpdate, Serve, LookupInv, FreshLookup
  <2> QED BY <1>3, <2>1 DEF ServeUpdate, SetRecords, AtomicUpsert, Found
<1> QED BY <1>1, <1>2, <1>3

(***************************************************************************)
(* cloudflare.rs dns_upsert: between the lookup and the write nothing is   *)
(* locked; the upsert is atomic exactly when nobody came in between.       *)
(***************************************************************************)
THEOREM UpsertIsAtomic == Spec => UpsertAtomicUnlessOvertaken
<1>1. LookupInv /\ [Next]_vars =>
        LookupInv' /\ [\A c \in Calls : UpsertTakesEffect(c) /\ ~stale[c] =>
                         AtomicUpsert(zone[c], Body(params[c]))]_vars
  BY NextLookup, EffectIsAtomic
<1> QED BY <1>1, InitLookup, PTL DEF Spec, UpsertAtomicUnlessOvertaken

----------------------------------------------------------------------------
(***************************************************************************)
(* One call at a time: while nothing has disturbed the account, at most    *)
(* one call is under way, no lookup it acts on is stale, and no two        *)
(* records have the same type and name.                                    *)
(***************************************************************************)
UnderWay(c) == Running(c) \/ wire[c] = "sent"

StaleOnlyAfterLookup(c) ==
  stale[c] => \/ op[c] \in {"create", "update"}
              \/ op[c] = "findRecord" /\ wire[c] = "served"

Sequential ==
  /\ \A c, d \in Calls : UnderWay(c) /\ UnderWay(d) => c = d
  /\ \A c \in Calls : ActsOnLookup(c) => ~stale[c]
  /\ NoDuplicates(records)

SequentialInv ==
  /\ LookupInv
  /\ \A c \in Calls : StaleOnlyAfterLookup(c)
  /\ ~disturbed => Sequential

(***************************************************************************)
(* Writes that keep NoDuplicates: a create where nothing matched, an       *)
(* update of a record that matched, and a delete.                          *)
(***************************************************************************)
LEMMA CreateKeepsUnique ==
  ASSUME NEW recs \in [RecordIds -> Slot], NEW r \in RecordIds, NEW z, NEW b,
         NoDuplicates(recs), Matching(recs, z, b) = {}
  PROVE  NoDuplicates([recs EXCEPT ![r] = [zone |-> z, body |-> b]])
<1> DEFINE new == [recs EXCEPT ![r] = [zone |-> z, body |-> b]]
<1>1. /\ new[r].zone = z /\ new[r].body = b
      /\ \A s \in RecordIds \ {r} : new[s] = recs[s]
  OBVIOUS
<1> HIDE DEF new
<1>2. Live(new) \subseteq Live(recs) \cup {r}
  BY <1>1 DEF Live
<1>3. ASSUME NEW s \in Live(new), NEW t \in Matching(new, new[s].zone, new[s].body)
      PROVE  t = s
  <2>1. s \in RecordIds /\ t \in Live(new) /\ new[t].zone = new[s].zone
        /\ new[t].body.type = new[s].body.type /\ new[t].body.name = new[s].body.name
    BY DEF Live, Matching
  <2>2. \A u \in Live(recs) :
          ~(recs[u].zone = z /\ recs[u].body.type = b.type /\ recs[u].body.name = b.name)
    BY DEF Matching
  <2>3. CASE s = r \/ t = r
    BY <1>1, <1>2, <2>1, <2>2, <2>3 DEF Live
  <2>4. CASE s # r /\ t # r
    <3>1. s \in Live(recs) /\ t \in Live(recs) /\ new[s] = recs[s] /\ new[t] = recs[t]
      BY <1>1, <1>2, <2>1, <2>4 DEF Live
    <3> QED BY <2>1, <3>1 DEF NoDuplicates, Matching
  <2> QED BY <2>3, <2>4
<1>4. \A s \in Live(new) : s \in Matching(new, new[s].zone, new[s].body)
  BY DEF Matching
<1>5. NoDuplicates(new)
  BY <1>3, <1>4 DEF NoDuplicates
<1> QED BY <1>5 DEF new

LEMMA UpdateKeepsUnique ==
  ASSUME NEW recs \in [RecordIds -> Slot], NEW r \in RecordIds, NEW z, NEW b,
         NoDuplicates(recs), r \in Matching(recs, z, b)
  PROVE  NoDuplicates([recs EXCEPT ![r] = [zone |-> z, body |-> b]])
<1> DEFINE new == [recs EXCEPT ![r] = [zone |-> z, body |-> b]]
<1>1. /\ new[r].zone = recs[r].zone
      /\ new[r].body.type = recs[r].body.type /\ new[r].body.name = recs[r].body.name
      /\ \A s \in RecordIds \ {r} : new[s] = recs[s]
  BY DEF Matching
<1>2. r \in Live(recs)
  BY DEF Matching
<1> HIDE DEF new
<1>3. Live(new) \subseteq Live(recs)
  BY <1>1, <1>2 DEF Live
<1>4. \A s \in RecordIds : /\ new[s].zone = recs[s].zone
                           /\ new[s].body.type = recs[s].body.type
                           /\ new[s].body.name = recs[s].body.name
  BY <1>1
<1>5. ASSUME NEW s \in Live(new), NEW t \in Matching(new, new[s].zone, new[s].body)
      PROVE  t = s
  <2>1. /\ s \in Live(recs) /\ t \in Live(recs)
        /\ s \in RecordIds /\ t \in RecordIds
    BY <1>3 DEF Matching, Live
  <2>2. t \in Matching(recs, recs[s].zone, recs[s].body)
    BY <1>4, <2>1 DEF Matching
  <2> QED BY <2>1, <2>2 DEF NoDuplicates
<1>6. \A s \in Live(new) : s \in Matching(new, new[s].zone, new[s].body)
  BY DEF Matching
<1>7. NoDuplicates(new)
  BY <1>5, <1>6 DEF NoDuplicates
<1> QED BY <1>7 DEF new

LEMMA DeleteKeepsUnique ==
  ASSUME NEW recs \in [RecordIds -> Slot], NEW r \in RecordIds, NoDuplicates(recs)
  PROVE  NoDuplicates([recs EXCEPT ![r] = Gone])
<1> DEFINE new == [recs EXCEPT ![r] = Gone]
<1>1. \A s \in RecordIds \ {r} : new[s] = recs[s]
  OBVIOUS
<1>2. new[r] = Gone
  OBVIOUS
<1> HIDE DEF new
<1>3. Live(new) = Live(recs) \ {r}
  BY <1>1, <1>2 DEF Live
<1>4. ASSUME NEW s \in Live(new)
      PROVE  Matching(new, new[s].zone, new[s].body) = {s}
  <2>1. s \in Live(recs) /\ new[s] = recs[s]
    BY <1>1, <1>3 DEF Live
  <2>2. Matching(new, new[s].zone, new[s].body) \subseteq
          Matching(recs, recs[s].zone, recs[s].body)
    BY <1>1, <1>3, <2>1 DEF Matching, Live
  <2>3. s \in Matching(new, new[s].zone, new[s].body)
    BY DEF Matching
  <2> QED BY <2>1, <2>2, <2>3 DEF NoDuplicates
<1>5. NoDuplicates(new)
  BY <1>4 DEF NoDuplicates
<1> QED BY <1>5 DEF new

LEMMA InitSequential == Init => SequentialInv
BY InitLookup
DEF Init, SequentialInv, Sequential, StaleOnlyAfterLookup, UnderWay, Running, Called,
    ActsOnLookup

(***************************************************************************)
(* A call arrives.  Unless that disturbs the account, no other is under    *)
(* way.                                                                    *)
(***************************************************************************)
LEMMA ArrivalKeepsSequence ==
  ASSUME SequentialInv, LookupInv', NEW c \in Calls, dns_upsert(c) \/ dns_delete(c)
  PROVE  SequentialInv'
<1>1. /\ UNCHANGED <<records, stale>> /\ disturbed' = (disturbed \/ ~Quiet(c))
      /\ op[c] = "none" /\ wire[c] = "none"
  BY DEF dns_upsert, dns_delete, Arrive, Called, SequentialInv, LookupInv, IInv, CallInv
<1>2. \A d \in Calls \ {c} :
        op'[d] = op[d] /\ wire'[d] = wire[d] /\ answer'[d] = answer[d]
  BY DEF dns_upsert, dns_delete, Answer, ResolveZone, Send, SequentialInv,
         LookupInv, IInv, RequestShapes
<1>3. \A d \in Calls \ {c} : tool'[d] = tool[d]
  BY DEF dns_upsert, dns_delete, Arrive, SequentialInv, LookupInv, IInv, Shapes
<1>4. ~stale[c] /\ ~stale'[c]
  BY <1>1 DEF SequentialInv, StaleOnlyAfterLookup
<1>5. \A d \in Calls : StaleOnlyAfterLookup(d)'
  BY <1>1, <1>2, <1>4 DEF SequentialInv, StaleOnlyAfterLookup
<1>6. ASSUME ~disturbed' PROVE Sequential'
  <2>1. Sequential /\ Quiet(c)
    BY <1>1, <1>6 DEF SequentialInv
  <2>2. \A d \in Calls \ {c} : ~UnderWay(d)'
    BY <1>2, <1>3, <2>1 DEF Quiet, UnderWay, Running, Called
  <2>3. \A d \in Calls : ActsOnLookup(d)' => ~stale'[d]
    BY <1>1, <1>2, <1>4, <2>1 DEF Sequential, ActsOnLookup
  <2> QED BY <1>1, <2>1, <2>2, <2>3 DEF Sequential
<1> QED BY <1>5, <1>6 DEF SequentialInv

(***************************************************************************)
(* A call that was under way goes on.                                      *)
(***************************************************************************)
LEMMA ResumeKeepsSequence ==
  ASSUME SequentialInv, LookupInv', NEW c \in Calls, Resume(c)
  PROVE  SequentialInv'
<1>1. UNCHANGED <<records, stale, disturbed, tool>> /\ Running(c)
  BY DEF Resume, ZoneResolved, RecordLookedUp, WriteAnswered, ApiError,
         TransportError, GiveUp, Receive, history
<1>2. \A d \in Calls \ {c} :
        op'[d] = op[d] /\ wire'[d] = wire[d] /\ answer'[d] = answer[d]
  BY DEF Resume, ZoneResolved, RecordLookedUp, WriteAnswered, ApiError,
         TransportError, GiveUp, Receive, Send, Answer, SequentialInv,
         LookupInv, IInv, RequestShapes
<1>3. /\ StaleOnlyAfterLookup(c)'
      /\ ActsOnLookup(c)' => ActsOnLookup(c)
  <2>1. CASE WriteAnswered(c) \/ ApiError(c) \/ TransportError(c)
    <3>1. op' = op /\ wire' = wire
      BY <2>1 DEF WriteAnswered, ApiError, TransportError, GiveUp
    <3> QED
      BY <1>1, <3>1 DEF SequentialInv, StaleOnlyAfterLookup, ActsOnLookup, Running
  <2>2. CASE ZoneResolved(c)
    <3>1. op[c] = "findZone" /\ op'[c] \notin {"create", "update"}
          /\ ~(op'[c] = "findRecord" /\ wire'[c] = "served")
      BY <2>2 DEF ZoneResolved, Receive, Send, Answer, SequentialInv, LookupInv,
                  IInv, RequestShapes
    <3>2. ~stale'[c]
      BY <1>1, <3>1 DEF SequentialInv, StaleOnlyAfterLookup
    <3> QED BY <3>1, <3>2 DEF StaleOnlyAfterLookup, ActsOnLookup
  <2>3. CASE RecordLookedUp(c)
    <3>1. op[c] = "findRecord" /\ wire[c] = "served" /\ answer[c] = "none" /\ token
      BY <1>1, <2>3
      DEF RecordLookedUp, Receive, Running, SequentialInv, LookupInv, IInv, CallInv
    <3>2. op'[c] \in {"create", "update"}
      BY <2>3, <3>1 DEF RecordLookedUp, Send, SequentialInv, LookupInv, IInv, RequestShapes
    <3> QED BY <3>1, <3>2 DEF StaleOnlyAfterLookup, ActsOnLookup
  <2> QED BY <2>1, <2>2, <2>3 DEF Resume
<1>4. \A d \in Calls : StaleOnlyAfterLookup(d)'
  BY <1>1, <1>2, <1>3 DEF SequentialInv, StaleOnlyAfterLookup
<1>5. ASSUME ~disturbed' PROVE Sequential'
  <2>1. Sequential
    BY <1>1, <1>5 DEF SequentialInv
  <2>2. \A d \in Calls : UnderWay(d)' => UnderWay(d)
    BY <1>1, <1>2 DEF UnderWay, Running, Called
  <2>3. \A d \in Calls : ActsOnLookup(d)' => ActsOnLookup(d)
    BY <1>2, <1>3 DEF ActsOnLookup
  <2> QED BY <1>1, <2>1, <2>2, <2>3 DEF Sequential
<1> QED BY <1>4, <1>5 DEF SequentialInv

(***************************************************************************)
(* The API serves the request of a call that was under way.                *)
(***************************************************************************)
LEMMA ApiKeepsSequence ==
  ASSUME SequentialInv, LookupInv', NEW c \in Calls, Api(c)
  PROVE  SequentialInv'
<1>1. UNCHANGED <<progress, disturbed>> /\ wire[c] = "sent" /\ wire'[c] # "sent"
  BY DEF Api, ServeFindZone, ServeFindRecord, Read, ServeCreate, ServeUpdate,
         ServeDelete, Serve, Refuse, history, SequentialInv, LookupInv, IInv, RequestShapes
<1>2. \A d \in Calls \ {c} : wire'[d] = wire[d]
  BY DEF Api, ServeFindZone, ServeFindRecord, Read, ServeCreate, ServeUpdate,
         ServeDelete, Serve, Refuse, SequentialInv, LookupInv, IInv, RequestShapes
<1>3. \A d \in Calls : stale'[d] => stale[d] \/ ActsOnLookup(d)
  BY DEF Api, ServeFindZone, ServeFindRecord, Read, ServeCreate, ServeUpdate,
         ServeDelete, SetRecords, Refuse, history
<1>4. ASSUME NEW d \in Calls PROVE StaleOnlyAfterLookup(d)'
  BY <1>1, <1>2, <1>3
  DEF SequentialInv, StaleOnlyAfterLookup, ActsOnLookup, progress
<1>5. ASSUME ~disturbed' PROVE Sequential'
  <2>1. Sequential
    BY <1>1, <1>5 DEF SequentialInv
  <2>2. \A d \in Calls : UnderWay(d)' => UnderWay(d)
    BY <1>1, <1>2 DEF UnderWay, Running, Called, progress
  <2>3. \A d \in Calls : UnderWay(d) => d = c
    BY <1>1, <2>1 DEF Sequential, UnderWay
  <2>4. \A d \in Calls : ActsOnLookup(d) => d = c
    BY <2>3 DEF ActsOnLookup, UnderWay, Running, Called, SequentialInv,
                LookupInv, IInv, CallInv
  <2>5. ActsOnLookup(c)' => ~stale'[c]
    <3>1. SUFFICES ASSUME ActsOnLookup(c)' PROVE ~stale'[c]
      OBVIOUS
    <3>2. op[c] = "findRecord"
      BY <1>1, <3>1 DEF ActsOnLookup, progress
    <3>3. ~ActsOnLookup(c)
      BY <1>1, <3>2 DEF ActsOnLookup
    <3>4. ~stale[c]
      BY <1>1, <3>2 DEF SequentialInv, StaleOnlyAfterLookup
    <3> QED BY <1>3, <3>3, <3>4
  <2>6. \A d \in Calls \ {c} : ~ActsOnLookup(d)'
    BY <1>1, <1>2, <2>4 DEF ActsOnLookup, progress
  <2>7. NoDuplicates(records')
    <3>1. records \in [RecordIds -> Slot] /\ NoDuplicates(records)
      BY <2>1 DEF Sequential, SequentialInv, LookupInv, IInv, Shapes
    <3>2. CASE ServeCreate(c)
      <4>1. Found(c) = {}
        BY <2>1, <3>2 DEF ServeCreate, Serve, Sequential, ActsOnLookup,
                          SequentialInv, LookupInv, FreshLookup
      <4> DEFINE b == Body(params[c])
      <4>2. Matching(records, zone[c], b) = {}
        BY <4>1 DEF Found
      <4>3. PICK r \in RecordIds :
              records' = [records EXCEPT ![r] = [zone |-> zone[c], body |-> b]]
        BY <3>2 DEF ServeCreate, SetRecords
      <4> HIDE DEF b
      <4>4. NoDuplicates([records EXCEPT ![r] = [zone |-> zone[c], body |-> b]])
        BY <3>1, <4>2, CreateKeepsUnique
      <4> QED BY <4>3, <4>4
    <3>3. CASE ServeUpdate(c)
      <4>1. rec[c] \in Found(c)
        BY <2>1, <3>3 DEF ServeUpdate, Serve, Sequential, ActsOnLookup,
                          SequentialInv, LookupInv, FreshLookup
      <4>2. rec[c] \in RecordIds
        BY <4>1 DEF Found, Matching, Live
      <4> QED
        BY <3>1, <3>3, <4>1, <4>2, UpdateKeepsUnique DEF ServeUpdate, SetRecords, Found
    <3>4. CASE ServeDelete(c)
      <4>1. rec[c] \in RecordIds
        BY <3>4 DEF ServeDelete, HasRecord, Live
      <4> QED BY <3>1, <3>4, <4>1, DeleteKeepsUnique DEF ServeDelete, SetRecords
    <3>5. CASE ServeFindZone(c) \/ ServeFindRecord(c) \/ Refuse(c)
      BY <3>1, <3>5 DEF ServeFindZone, ServeFindRecord, Read, Refuse
    <3> QED BY <3>2, <3>3, <3>4, <3>5 DEF Api
  <2>8. NoDuplicates(records)'
    BY <2>7 DEF NoDuplicates, Matching, Live
  <2>9. \A d, e \in Calls : UnderWay(d)' /\ UnderWay(e)' => d = e
    BY <2>2, <2>3
  <2> QED BY <2>5, <2>6, <2>8, <2>9 DEF Sequential
<1> QED BY <1>4, <1>5 DEF SequentialInv

(***************************************************************************)
(* Everything else.                                                        *)
(***************************************************************************)
LEMMA ShutdownKeepsSequence ==
  ASSUME SequentialInv, LookupInv', Shutdown
  PROVE  SequentialInv'
<1>1. UNCHANGED <<op, wire, tool, records, stale, disturbed>>
  BY DEF Shutdown, history
<1>2. \A c \in Calls : answer'[c] = "none" => answer[c] = "none"
  BY DEF Shutdown, Running
<1>3. \A c \in Calls : UnderWay(c)' => UnderWay(c)
  BY <1>1, <1>2 DEF UnderWay, Running, Called
<1>4. \A c \in Calls : ActsOnLookup(c)' => ActsOnLookup(c)
  BY <1>1, <1>2 DEF ActsOnLookup
<1>5. Sequential => Sequential'
  BY <1>1, <1>3, <1>4 DEF Sequential
<1> QED BY <1>1, <1>5 DEF SequentialInv, StaleOnlyAfterLookup

LEMMA EditKeepsSequence ==
  ASSUME SequentialInv, LookupInv', EditElsewhere
  PROVE  SequentialInv'
<1>1. UNCHANGED <<progress, wire>> /\ disturbed'
  BY DEF EditElsewhere
<1>2. \A c \in Calls : stale'[c] => stale[c] \/ ActsOnLookup(c)
  BY DEF EditElsewhere, SetRecords
<1>3. \A c \in Calls : StaleOnlyAfterLookup(c)'
  BY <1>1, <1>2 DEF SequentialInv, StaleOnlyAfterLookup, ActsOnLookup, progress
<1> QED BY <1>1, <1>3 DEF SequentialInv

LEMMA NextSequential == SequentialInv /\ [Next]_vars => SequentialInv'
<1> SUFFICES ASSUME SequentialInv, [Next]_vars PROVE SequentialInv'
  OBVIOUS
<1>1. LookupInv'
  BY NextLookup DEF SequentialInv
<1>2. CASE \E c \in Calls : dns_upsert(c) \/ dns_delete(c) \/ Resume(c) \/ Api(c)
  BY <1>1, <1>2, ArrivalKeepsSequence, ResumeKeepsSequence, ApiKeepsSequence
<1>3. CASE EditElsewhere
  BY <1>1, <1>3, EditKeepsSequence
<1>4. CASE Shutdown
  BY <1>1, <1>4, ShutdownKeepsSequence
<1>5. CASE Terminated \/ UNCHANGED vars
  <2>1. UNCHANGED vars
    BY <1>5 DEF Terminated
  <2>2. Sequential => Sequential'
    BY <2>1 DEF Sequential, UnderWay, Running, Called, ActsOnLookup, vars,
                progress, history
  <2> QED BY <1>1, <2>1, <2>2 DEF SequentialInv, StaleOnlyAfterLookup, vars,
                                  progress, history
<1> QED BY <1>2, <1>3, <1>4, <1>5 DEF Next

(***************************************************************************)
(* A caller that makes one call at a time, and is alone on the account,    *)
(* never gets a second record of one type and name, however requests are   *)
(* lost or refused and whenever the server stops.                          *)
(***************************************************************************)
THEOREM SequentialIsSafe == Spec => []SequentialUpsertsNeverDuplicate
<1>1. SequentialInv => SequentialUpsertsNeverDuplicate
  BY DEF SequentialInv, Sequential, SequentialUpsertsNeverDuplicate
<1> QED BY <1>1, InitSequential, NextSequential, PTL DEF Spec
=============================================================================
