--------------------------- MODULE UpstreamProofs ---------------------------
(***************************************************************************)
(* Proofs about Upstream: whatever the environment, the tools called and   *)
(* the size of the blocking pool, a request carries the credentials of its *)
(* plane, and the fallback of node_call never sends one.                   *)
(***************************************************************************)
EXTENDS Upstream, TLAPS

(***************************************************************************)
(* Facts about the configuration alone.                                    *)
(***************************************************************************)
\* Credentials that are prescribed for a plane, and all there.
Complete(plane, heads) ==
  heads = Prescribed(plane) /\ \A h \in heads : h[2] # None

\* headers() gives what is prescribed.
LEMMA HeadersComplete ==
  ASSUME NEW plane \in Plane, ~headers_fails(plane)
  PROVE  Complete(plane, headers(plane))
<1>1. headers(plane) = Prescribed(plane)
  BY DEF headers, Prescribed, config, OrElse, Plane
<1> QED
  BY <1>1 DEF headers_fails, Complete

\* So does the SDK's client, when there is one.
LEMMA ClientComplete ==
  ASSUME has_node_client
  PROVE  Complete("node", client_headers)
<1>1. client_headers = Prescribed("node")
  BY DEF client_headers, Prescribed, config
<1>2. \A h \in client_headers : h[2] # None
  BY DEF client_headers, has_node_client
<1> QED
  BY <1>1, <1>2 DEF Complete

(***************************************************************************)
(* With a usable URL the client is missing only when credentials are, and  *)
(* then headers() fails: the fallback can only return guidance.            *)
(***************************************************************************)
LEMMA NoClientNoHeaders ==
  ASSUME config.node_url \in UsableUrls, ~has_node_client
  PROVE  headers_fails("node")
<1>1. config.api_key = None /\ (config.internal_secret = None \/ config.org_id = None)
  BY DEF has_node_client
<1> DEFINE secret == <<"x-fiducia-internal-auth", config.internal_secret>>
           org == <<"x-fiducia-org-id", config.org_id>>
<1>2. secret \in headers("node") /\ org \in headers("node")
  BY <1>1 DEF headers
<1>3. secret[2] = None \/ org[2] = None
  BY <1>1
<1> QED
  BY <1>2, <1>3 DEF headers_fails

LEMMA ConfigNeverChanges ==
  ASSUME env' = env
  PROVE  /\ has_node_client' <=> has_node_client
         /\ \A plane, heads : Complete(plane, heads)' <=> Complete(plane, heads)
<1>1. \A var : env_value(var)' = env_value(var)
  BY DEF env_value
<1>2. config' = config
  BY <1>1 DEF config
<1>3. has_node_client' <=> has_node_client
  BY <1>2 DEF has_node_client
<1>4. \A plane : Prescribed(plane)' = Prescribed(plane)
  BY <1>1 DEF Prescribed
<1> QED
  BY <1>3, <1>4 DEF Complete

----------------------------------------------------------------------------
(***************************************************************************)
(* The inductive invariant: a closure in the pool's queue belongs to a     *)
(* node tool and was given a client, and a request is fit for its call.    *)
(***************************************************************************)
Queued(c) == tool[c] \in NodeTools /\ has_node_client

Fit(c, w) ==
  /\ tool[c] # "none" /\ w.plane = PlaneOf(tool[c])
  /\ w.url \in UsableUrls
  /\ Complete(w.plane, w.headers)
  /\ w.plane = "node" => w.via = "sdk"

QueueInv == \A i \in 1..Len(queue) : Queued(queue[i])
WireInv == \A c \in Calls : \A w \in wire[c] : Fit(c, w)
Wires == DOMAIN wire = Calls

IInv == TypeOK /\ QueueInv /\ WireInv /\ Wires

LEMMA InitIInv == Init => IInv
<1> SUFFICES ASSUME Init PROVE IInv
  OBVIOUS
<1>1. Flags
  BY DEF Init, Flags
<1>2. Shapes
  BY SessionAssumption DEF Init, Shapes, Answers
<1>3. QueueInv /\ WireInv /\ Wires
  BY DEF Init, QueueInv, WireInv, Wires
<1> QED
  BY <1>1, <1>2, <1>3 DEF IInv, TypeOK

(***************************************************************************)
(* What a handler may do before its first await: return, hand a closure of *)
(* a node tool to the pool, or send a fit request.                         *)
(***************************************************************************)
Returns(c) ==
  /\ \E a \in Answers \ {"none", "cancelled"} : Return(c, a)
  /\ UNCHANGED <<wire, queue>>

HandsOver(c) ==
  /\ has_node_client
  /\ queue' = Append(queue, c) /\ stage' = [stage EXCEPT ![c] = "blocking"]
  /\ UNCHANGED <<answer, wire>>

Sends(c, t) ==
  /\ \E w : /\ wire' = [wire EXCEPT ![c] = @ \cup {w}]
           /\ w.plane = PlaneOf(t) /\ w.plane # "node"
           /\ w.url \in UsableUrls /\ Complete(w.plane, w.headers)
  /\ stage' = [stage EXCEPT ![c] = "response"]
  /\ UNCHANGED <<answer, queue>>

LEMMA HandlerCases ==
  ASSUME NEW c \in Calls, NEW t \in Tools, Handle(c, t)
  PROVE  Returns(c) \/ (t \in NodeTools /\ HandsOver(c)) \/ Sends(c, t)
<1>1. CASE BadArguments(c, t)
  BY <1>1 DEF BadArguments, Returns, Answers
<1>2. CASE t \in NodeTools /\ node_call(c)
  <2>1. CASE config.node_url \notin UsableUrls
    BY <1>2, <2>1 DEF node_call, get_json, base_url_fails, UrlOf, Returns, Answers
  <2>2. CASE config.node_url \in UsableUrls /\ has_node_client
    BY <1>2, <2>2 DEF node_call, HandsOver
  <2>3. CASE config.node_url \in UsableUrls /\ ~has_node_client
    <3>1. headers_fails("node")
      BY <2>3, NoClientNoHeaders
    <3>2. get_json(c, "node")
      BY <1>2, <2>3 DEF node_call
    <3> QED
      BY <3>1, <3>2 DEF get_json, Returns, Answers
  <2> QED
    BY <2>1, <2>2, <2>3
<1>3. CASE t \in BrainTools \cup {"file_lease"} /\ get_json(c, PlaneOf(t))
  <2>1. PlaneOf(t) \in Plane /\ PlaneOf(t) # "node"
    BY <1>3 DEF PlaneOf, Plane, BrainTools
  <2>2. CASE base_url_fails(PlaneOf(t)) \/ headers_fails(PlaneOf(t))
    BY <1>3, <2>2 DEF get_json, Returns, Answers
  <2>3. CASE ~base_url_fails(PlaneOf(t)) /\ ~headers_fails(PlaneOf(t))
    <3> DEFINE w == Request("http", PlaneOf(t), headers(PlaneOf(t)))
    <3>1. w.plane = PlaneOf(t) /\ w.url \in UsableUrls /\ w.headers = headers(PlaneOf(t))
      BY <2>3 DEF Request, base_url_fails
    <3>2. Complete(PlaneOf(t), headers(PlaneOf(t)))
      BY <2>1, <2>3, HeadersComplete
    <3>3. /\ wire' = [wire EXCEPT ![c] = @ \cup {w}]
          /\ stage' = [stage EXCEPT ![c] = "response"] /\ UNCHANGED <<answer, queue>>
      BY <1>3, <2>3 DEF get_json
    <3> HIDE DEF w
    <3> QED
      BY <2>1, <3>1, <3>2, <3>3 DEF Sends
  <2> QED
    BY <2>2, <2>3
<1>4. CASE t = "repo_map" /\ Return(c, "json") /\ UNCHANGED <<wire, queue>>
  BY <1>4 DEF Returns, Answers
<1> QED
  BY <1>1, <1>2, <1>3, <1>4 DEF Handle

(***************************************************************************)
(* Steps that start no call and send nothing keep QueueInv and WireInv.    *)
(***************************************************************************)
LEMMA NothingNew ==
  ASSUME IInv, env' = env, tool' = tool, wire' = wire,
         queue' = queue \/ queue' = <<>>
  PROVE  QueueInv' /\ WireInv' /\ Wires'
<1>1. QueueInv'
  BY ConfigNeverChanges DEF IInv, QueueInv, Queued
<1>2. WireInv'
  BY ConfigNeverChanges DEF IInv, WireInv, Fit
<1> QED
  BY <1>1, <1>2 DEF IInv, Wires

LEMMA CallToolPreserves ==
  ASSUME IInv, NEW c \in Calls, CallTool(c)
  PROVE  IInv'
<1>1. PICK t \in Tools : tool' = [tool EXCEPT ![c] = t] /\ Handle(c, t)
  BY DEF CallTool
<1>2. /\ tool[c] = "none" /\ t # "none" /\ env' = env
      /\ UNCHANGED <<up, exited, working>> /\ tool \in [Calls -> Tools \cup {"none"}]
  BY SessionAssumption
  DEF CallTool, Called, IInv, TypeOK, Shapes, AllTools, BrainTools, NodeTools
<1>3. tool'[c] = t /\ \A d \in Calls \ {c} : tool'[d] = tool[d]
  BY <1>1, <1>2
<1>4. Flags'
  BY <1>2 DEF IInv, TypeOK, Flags
<1>5. stage[c] = "idle" /\ answer \in [Calls -> Answers] /\ queue \in Seq(Calls)
      /\ stage \in [Calls -> {"idle", "response", "blocking"}]
  BY <1>2 DEF IInv, TypeOK, Shapes, Running, Called
<1>6. wire[c] = {}
  BY <1>2 DEF IInv, WireInv, Fit
<1>7. \A i \in 1..Len(queue) : queue[i] \in Calls \ {c}
  BY <1>2, <1>5 DEF IInv, QueueInv, Queued, NodeTools
<1>8. \A d \in Calls \ {c} : \A w \in wire[d] : Fit(d, w)'
  BY <1>2, <1>3, ConfigNeverChanges DEF IInv, WireInv, Fit
<1>9. \A i \in 1..Len(queue) : \A d \in Calls : d = queue[i] => Queued(d)'
  <2>1. SUFFICES ASSUME NEW i \in 1..Len(queue), NEW d \in Calls, d = queue[i]
                 PROVE  Queued(d)'
    OBVIOUS
  <2>2. Queued(d) /\ d \in Calls \ {c}
    BY <1>7, <2>1 DEF IInv, QueueInv
  <2> QED
    BY <1>2, <1>3, <2>2, ConfigNeverChanges DEF Queued
<1>10. CASE Returns(c)
  <2>1. PICK a \in Answers \ {"none", "cancelled"} :
          /\ answer' = [answer EXCEPT ![c] = a] /\ stage' = [stage EXCEPT ![c] = "idle"]
          /\ wire' = wire /\ queue' = queue
    BY <1>10 DEF Returns, Return
  <2>2. Shapes'
    BY <1>1, <1>2, <1>3, <1>5, <2>1 DEF IInv, TypeOK, Shapes, Running, Called
  <2>3. QueueInv' /\ WireInv' /\ Wires'
    BY <1>6, <1>7, <1>8, <1>9, <2>1 DEF IInv, QueueInv, WireInv, Wires
  <2> QED
    BY <1>4, <2>2, <2>3 DEF IInv, TypeOK
<1>11. CASE t \in NodeTools /\ HandsOver(c)
  <2>1. /\ queue' = Append(queue, c) /\ stage' = [stage EXCEPT ![c] = "blocking"]
        /\ answer' = answer /\ wire' = wire /\ answer[c] = "none" /\ has_node_client
    BY <1>2, <1>11 DEF HandsOver, IInv, TypeOK, Shapes, Called
  <2>2. queue' \in Seq(Calls)
    BY <1>5, <2>1
  <2>3. Shapes'
    BY <1>1, <1>2, <1>3, <1>5, <2>1, <2>2 DEF IInv, TypeOK, Shapes, Running, Called
  <2>4. QueueInv'
    <3>1. ASSUME NEW i \in 1..Len(queue'), NEW d \in Calls, d = queue'[i] PROVE Queued(d)'
      <4>1. CASE i \in 1..Len(queue)
        <5>1. queue'[i] = queue[i]
          BY <1>5, <2>1, <4>1
        <5> QED
          BY <1>9, <3>1, <4>1, <5>1
      <4>2. CASE i = Len(queue) + 1
        <5>1. queue'[i] = c
          BY <1>5, <2>1, <4>2
        <5> QED
          BY <1>2, <1>3, <1>11, <2>1, <3>1, <5>1, ConfigNeverChanges DEF Queued
      <4> QED
        BY <1>5, <2>1, <3>1, <4>1, <4>2
    <3>2. \A i \in 1..Len(queue') : queue'[i] \in Calls
      BY <2>2
    <3> QED
      BY <3>1, <3>2 DEF QueueInv
  <2>5. WireInv' /\ Wires'
    BY <1>6, <1>8, <2>1 DEF IInv, WireInv, Wires
  <2> QED
    BY <1>4, <2>3, <2>4, <2>5 DEF IInv, TypeOK
<1>12. CASE Sends(c, t)
  <2>1. PICK w : /\ wire' = [wire EXCEPT ![c] = @ \cup {w}]
                 /\ w.plane = PlaneOf(t) /\ w.plane # "node"
                 /\ w.url \in UsableUrls /\ Complete(w.plane, w.headers)
    BY <1>12 DEF Sends
  <2>2. /\ stage' = [stage EXCEPT ![c] = "response"] /\ answer[c] = "none"
        /\ answer' = answer /\ queue' = queue
    BY <1>2, <1>12 DEF Sends, IInv, TypeOK, Shapes, Called
  <2>3. Shapes'
    BY <1>1, <1>2, <1>3, <1>5, <2>2 DEF IInv, TypeOK, Shapes, Running, Called
  <2>4. QueueInv'
    BY <1>7, <1>9, <2>2 DEF QueueInv
  <2>5. Fit(c, w)'
    BY <1>2, <1>3, <2>1, ConfigNeverChanges DEF Fit
  <2>6. wire'[c] = {w} /\ (\A d \in Calls \ {c} : wire'[d] = wire[d]) /\ Wires'
    BY <1>6, <2>1 DEF IInv, Wires
  <2>7. WireInv'
    BY <1>8, <2>5, <2>6 DEF WireInv
  <2> QED
    BY <1>4, <2>3, <2>4, <2>6, <2>7 DEF IInv, TypeOK
<1> QED
  BY <1>1, <1>10, <1>11, <1>12, HandlerCases

LEMMA RespondedPreserves ==
  ASSUME IInv, NEW c \in Calls, Responded(c)
  PROVE  IInv'
<1>1. PICK a \in {"json", "status error", "transport error"} : Return(c, a)
  BY DEF Responded
<1>2. UNCHANGED <<env, up, exited, tool, wire, pool>>
  BY DEF Responded
<1>3. Flags'
  BY <1>2 DEF IInv, TypeOK, Flags
<1>4. Shapes'
  BY <1>1, <1>2 DEF Responded, IInv, TypeOK, Shapes, Return, Running, Called, Answers, pool
<1> QED
  BY <1>2, <1>3, <1>4, NothingNew DEF IInv, TypeOK, pool

LEMMA WorkDonePreserves ==
  ASSUME IInv, NEW c \in Calls, WorkDone(c)
  PROVE  IInv'
<1>1. UNCHANGED <<env, up, exited, tool, wire, queue>> /\ working' = working \ {c}
  BY DEF WorkDone
<1>2. Flags'
  BY <1>1 DEF IInv, TypeOK, Flags
<1>3. CASE stage[c] = "blocking"
  <2>1. PICK a \in {"json", "status error", "transport error", "task failed"} : Return(c, a)
    BY <1>3 DEF WorkDone
  <2>2. Shapes'
    BY <1>1, <1>3, <2>1 DEF IInv, TypeOK, Shapes, Return, Running, Called, Answers
  <2> QED
    BY <1>1, <1>2, <2>2, NothingNew DEF IInv, TypeOK
<1>4. CASE stage[c] # "blocking"
  <2>1. UNCHANGED <<answer, stage>>
    BY <1>4 DEF WorkDone
  <2>2. Shapes'
    BY <1>1, <2>1 DEF IInv, TypeOK, Shapes, Running, Called
  <2> QED
    BY <1>1, <1>2, <2>2, NothingNew DEF IInv, TypeOK
<1> QED
  BY <1>3, <1>4

LEMMA StartWorkPreserves ==
  ASSUME IInv, StartWork
  PROVE  IInv'
<1> DEFINE c == Head(queue)
           w == Request("sdk", "node", client_headers)
<1>1. /\ queue \in Seq(Calls) /\ queue # <<>> /\ c \in Calls /\ queue[1] = c
      /\ 1 \in 1..Len(queue) /\ queue' = Tail(queue) /\ queue' \in Seq(Calls)
      /\ \A i \in 1..Len(queue') : queue'[i] = queue[i + 1] /\ i + 1 \in 1..Len(queue)
  BY DEF StartWork, IInv, TypeOK, Shapes
<1>2. /\ working' = working \cup {c} /\ wire' = [wire EXCEPT ![c] = {w} \cup @]
      /\ UNCHANGED <<env, up, exited, tool, stage, answer>>
  BY DEF StartWork
<1>3. Queued(c)
  BY <1>1 DEF IInv, QueueInv
<1>4. w.plane = "node" /\ w.via = "sdk" /\ w.url = config.node_url /\ w.headers = client_headers
  BY DEF Request, UrlOf
<1> HIDE DEF c, w
<1>5. Fit(c, w)
  BY <1>3, <1>4, ClientComplete
  DEF Fit, Queued, has_node_client, PlaneOf, NodeTools, BrainTools
<1>6. Flags'
  BY <1>2 DEF IInv, TypeOK, Flags
<1>7. Shapes'
  BY <1>1, <1>2 DEF IInv, TypeOK, Shapes, Running, Called
<1>8. \A d \in Calls : Queued(d) => Queued(d)'
  BY <1>2, ConfigNeverChanges DEF Queued
<1>9. QueueInv'
  <2>1. SUFFICES ASSUME NEW i \in 1..Len(queue'), NEW d \in Calls, d = queue'[i]
                 PROVE  Queued(d)'
    BY <1>1 DEF QueueInv
  <2>2. Queued(d)
    BY <1>1, <2>1 DEF IInv, QueueInv
  <2> QED
    BY <1>8, <2>2
<1>10. \A d \in Calls : \A v : Fit(d, v) => Fit(d, v)'
  BY <1>2, ConfigNeverChanges DEF Fit
<1>11. wire'[c] = {w} \cup wire[c] /\ (\A d \in Calls \ {c} : wire'[d] = wire[d]) /\ Wires'
  BY <1>1, <1>2 DEF IInv, Wires
<1>12. \A d \in Calls : \A v \in wire'[d] : Fit(d, v)
  BY <1>1, <1>5, <1>11 DEF IInv, WireInv
<1>13. WireInv'
  BY <1>10, <1>12 DEF WireInv
<1> QED
  BY <1>6, <1>7, <1>9, <1>11, <1>13 DEF IInv, TypeOK

LEMMA ShutdownPreserves ==
  ASSUME IInv, Shutdown
  PROVE  IInv'
<1>1. Flags'
  BY DEF Shutdown, IInv, TypeOK, Flags
<1>2. Shapes'
  <2>1. queue' \in Seq(Calls)
    BY DEF Shutdown
  <2>2. answer' \in [Calls -> Answers] /\ stage' \in [Calls -> {"idle", "response", "blocking"}]
    BY DEF Shutdown, IInv, TypeOK, Shapes, Answers
  <2>3. \A c \in Calls : /\ stage'[c] = "idle"
                        /\ tool'[c] = "none" => answer'[c] = "none"
    BY DEF Shutdown, IInv, TypeOK, Shapes, Running, Called
  <2> QED
    BY <2>1, <2>2, <2>3 DEF Shutdown, IInv, TypeOK, Shapes, Running, Called
<1> QED
  BY <1>1, <1>2, NothingNew DEF Shutdown, IInv, TypeOK

LEMMA ExitPreserves ==
  ASSUME IInv, Exit
  PROVE  IInv'
<1>1. Flags'
  BY DEF Exit, IInv, TypeOK, Flags
<1>2. Shapes'
  BY DEF Exit, IInv, TypeOK, Shapes, Running, Called, callVars, pool
<1> QED
  BY <1>1, <1>2, NothingNew DEF Exit, IInv, TypeOK, callVars, pool

LEMMA StutterPreserves ==
  ASSUME IInv, UNCHANGED vars
  PROVE  IInv'
<1>1. Flags'
  BY DEF vars, IInv, TypeOK, Flags
<1>2. Shapes'
  BY DEF vars, IInv, TypeOK, Shapes, Running, Called, callVars, pool
<1> QED
  BY <1>1, <1>2, NothingNew DEF vars, IInv, TypeOK, callVars, pool

THEOREM SpecIInv == Spec => []IInv
<1>1. IInv /\ [Next]_vars => IInv'
  <2> SUFFICES ASSUME IInv, [Next]_vars PROVE IInv'
    OBVIOUS
  <2>1. ASSUME NEW c \in Calls, CallTool(c) PROVE IInv'
    BY <2>1, CallToolPreserves
  <2>2. ASSUME NEW c \in Calls, Responded(c) PROVE IInv'
    BY <2>2, RespondedPreserves
  <2>3. ASSUME NEW c \in Calls, WorkDone(c) PROVE IInv'
    BY <2>3, WorkDonePreserves
  <2>4. CASE StartWork
    BY <2>4, StartWorkPreserves
  <2>5. CASE Shutdown
    BY <2>5, ShutdownPreserves
  <2>6. CASE Exit
    BY <2>6, ExitPreserves
  <2>7. CASE UNCHANGED vars
    BY <2>7, StutterPreserves
  <2> QED
    BY <2>1, <2>2, <2>3, <2>4, <2>5, <2>6, <2>7 DEF Next, Terminated
<1> QED
  BY <1>1, InitIInv, PTL DEF Spec

----------------------------------------------------------------------------
(***************************************************************************)
(* Type correctness.                                                       *)
(***************************************************************************)
THEOREM TypeCorrect == Spec => []TypeOK
BY SpecIInv, PTL DEF IInv

(***************************************************************************)
(* For every environment and every interleaving of calls, pool and         *)
(* shutdown, no request to the node plane is sent but by the SDK: the      *)
(* fallback of node_call only ever returns an error.                       *)
(***************************************************************************)
THEOREM FallbackIsSilent == Spec => []FallbackNeverSends
<1>1. IInv => FallbackNeverSends
  BY DEF IInv, WireInv, Fit, FallbackNeverSends
<1> QED
  BY <1>1, SpecIInv, PTL

(***************************************************************************)
(* For every environment, each request carries the complete credentials of *)
(* its plane and no other.                                                 *)
(***************************************************************************)
THEOREM CredentialsFit == Spec => []CredentialsFitThePlane
<1>1. IInv => CredentialsFitThePlane
  BY DEF IInv, WireInv, Fit, Complete, CredentialsFitThePlane
<1> QED
  BY <1>1, SpecIInv, PTL
=============================================================================
