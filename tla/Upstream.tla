------------------------------ MODULE Upstream ------------------------------
(***************************************************************************)
(* The read-only tools of src/src/server.rs that ask the fiducia planes,   *)
(* and src/src/upstream.rs, which asks for them: the configuration taken   *)
(* from the environment, the credentials of each plane, the asynchronous   *)
(* HTTP path (get_json) and the blocking SDK path (node_call), whose work  *)
(* runs on a pool of threads and outlives its call when the server stops.  *)
(***************************************************************************)
EXTENDS Integers, Sequences, FiniteSets

CONSTANTS
  Calls,        \* the tool calls of a session, one task each
  Tools,        \* the tools they may call
  Text,         \* every string that occurs
  Trim,         \* str::trim
  UsableUrls,   \* the strings validate_base_url accepts
  DEFAULT_NODE_URL, DEFAULT_BRAIN_URL,
  Envs,         \* the environments the server may be started in
  Workers,      \* threads of the blocking pool
  None          \* Option::None

BrainTools == {"cluster_status", "cluster_nodes", "placement", "route_key"}
NodeTools == {"node_status", "observe", "kv_get", "lock_get", "services"}
AllTools == BrainTools \cup NodeTools \cup {"file_lease", "repo_map"}

EnvVars == {"FIDUCIA_NODE_URL", "FIDUCIA_BRAIN_URL", "FIDUCIA_AGENT_CONTROL_PLANE_URL",
            "FIDUCIA_INTERNAL_SECRET", "FIDUCIA_ORG_ID", "FIDUCIA_CONTROL_PLANE_SECRET",
            "FIDUCIA_API_KEY"}

ASSUME TextAssumption ==
  /\ Trim \in [Text -> Text]
  /\ {DEFAULT_NODE_URL, DEFAULT_BRAIN_URL} \subseteq Text
  /\ UsableUrls \subseteq Text
  /\ Envs \subseteq [EnvVars -> Text \cup {None}]
  /\ None \notin Text
ASSUME SessionAssumption == Tools \subseteq AllTools /\ Workers \in Nat \ {0}

VARIABLES
  env,      \* the environment snapshot; it never changes
  up,       \* run_stdio has not returned
  exited,   \* the process is gone
  tool,     \* per call: the tool called, "none" before the call
  stage,    \* per call: what its task waits for
  wire,     \* per call: the requests it has put on the network
  answer,   \* per call: what the tool returned
  queue,    \* closures given to the blocking pool that no thread has started
  working   \* closures a thread of the pool runs

callVars == <<tool, stage, wire, answer>>
pool == <<queue, working>>
vars == <<env, up, exited, callVars, pool>>

----------------------------------------------------------------------------
(***************************************************************************)
(* The configuration.                                                      *)
(***************************************************************************)
\* Trimmed, and None when nothing is left.
env_value(var) ==
  IF env[var] = None THEN None
  ELSE IF Trim[env[var]] = "" THEN None ELSE Trim[env[var]]

OrElse(option, default) == IF option = None THEN default ELSE option

config ==
  [node_url |-> OrElse(env_value("FIDUCIA_NODE_URL"), DEFAULT_NODE_URL),
   brain_url |-> OrElse(env_value("FIDUCIA_BRAIN_URL"), DEFAULT_BRAIN_URL),
   agent_cp_url |-> env_value("FIDUCIA_AGENT_CONTROL_PLANE_URL"),
   internal_secret |-> env_value("FIDUCIA_INTERNAL_SECRET"),
   org_id |-> env_value("FIDUCIA_ORG_ID"),
   control_plane_secret |-> OrElse(env_value("FIDUCIA_CONTROL_PLANE_SECRET"),
                                   env_value("FIDUCIA_INTERNAL_SECRET")),
   api_key |-> env_value("FIDUCIA_API_KEY")]

Plane == {"node", "brain", "agent"}

UrlOf(plane) ==
  CASE plane = "node" -> config.node_url
    [] plane = "brain" -> config.brain_url
    [] plane = "agent" -> config.agent_cp_url

\* Config::base_url: Err when the URL is not set or not acceptable.
base_url_fails(plane) == UrlOf(plane) \notin UsableUrls

\* Variant: the organisation is optional.
headers_NoOrg(plane) ==
  CASE plane = "node" ->
         IF config.api_key # None THEN {<<"authorization", config.api_key>>}
         ELSE {<<"x-fiducia-internal-auth", config.internal_secret>>}
    [] plane = "brain" -> {<<"x-fiducia-internal-auth", config.internal_secret>>}
    [] plane = "agent" -> {<<"x-internal-auth", config.control_plane_secret>>}

\* Config::headers, as <<name, value>> pairs; a value that is not set is an Err.
headers(plane) ==
  CASE plane = "node" ->
         IF config.api_key # None THEN {<<"authorization", config.api_key>>}
         ELSE {<<"x-fiducia-internal-auth", config.internal_secret>>,
                <<"x-fiducia-org-id", config.org_id>>}
    [] plane = "brain" -> {<<"x-fiducia-internal-auth", config.internal_secret>>}
    [] plane = "agent" -> {<<"x-internal-auth", config.control_plane_secret>>}

headers_fails(plane) == \E h \in headers(plane) : h[2] = None

\* Upstream::new: whether there is an SDK client, and what it attaches.
has_node_client ==
  /\ config.node_url \in UsableUrls
  /\ config.api_key # None \/ (config.internal_secret # None /\ config.org_id # None)

\* Variant: the internal credentials win over the API key.
client_headers_InternalFirst ==
  IF config.internal_secret # None /\ config.org_id # None
  THEN {<<"x-fiducia-internal-auth", config.internal_secret>>,
        <<"x-fiducia-org-id", config.org_id>>}
  ELSE {<<"authorization", config.api_key>>}

client_headers ==
  IF config.api_key # None THEN {<<"authorization", config.api_key>>}
  ELSE {<<"x-fiducia-internal-auth", config.internal_secret>>,
        <<"x-fiducia-org-id", config.org_id>>}

Init ==
  /\ env \in Envs
  /\ up = TRUE /\ exited = FALSE
  /\ tool = [c \in Calls |-> "none"] /\ stage = [c \in Calls |-> "idle"]
  /\ wire = [c \in Calls |-> {}] /\ answer = [c \in Calls |-> "none"]
  /\ queue = <<>> /\ working = {}

----------------------------------------------------------------------------
(***************************************************************************)
(* The tool calls.                                                         *)
(***************************************************************************)
Called(c) == tool[c] # "none"
Running(c) == Called(c) /\ answer[c] = "none"

PlaneOf(t) == IF t \in BrainTools THEN "brain"
              ELSE IF t = "file_lease" THEN "agent" ELSE "node"

Request(via, plane, heads) == [via |-> via, plane |-> plane, url |-> UrlOf(plane),
                               headers |-> heads]

Return(c, a) ==
  /\ answer' = [answer EXCEPT ![c] = a]
  /\ stage' = [stage EXCEPT ![c] = "idle"]

\* get_json up to its first await: the URL, then the credentials, then the
\* request itself.
get_json(c, plane) ==
  \/ /\ base_url_fails(plane)
     /\ Return(c, "bad url") /\ UNCHANGED <<wire, queue>>
  \/ /\ ~base_url_fails(plane) /\ headers_fails(plane)
     /\ Return(c, "no credentials") /\ UNCHANGED <<wire, queue>>
  \/ /\ ~base_url_fails(plane) /\ ~headers_fails(plane)
     /\ wire' = [wire EXCEPT ![c] = @ \cup {Request("http", plane, headers(plane))}]
     /\ stage' = [stage EXCEPT ![c] = "response"]
     /\ UNCHANGED <<answer, queue>>

\* node_call: the SDK's closure goes to the blocking pool; without a client the
\* call falls back to get_json.
node_call(c) ==
  \/ /\ config.node_url \notin UsableUrls
     /\ Return(c, "bad url") /\ UNCHANGED <<wire, queue>>
  \/ /\ config.node_url \in UsableUrls /\ has_node_client
     /\ queue' = Append(queue, c)
     /\ stage' = [stage EXCEPT ![c] = "blocking"]
     /\ UNCHANGED <<answer, wire>>
  \/ /\ config.node_url \in UsableUrls /\ ~has_node_client
     /\ get_json(c, "node")

\* observe with an unknown kind, kv_get with both or none of its arguments.
BadArguments(c, t) ==
  /\ t \in {"observe", "kv_get"}
  /\ Return(c, "bad arguments") /\ UNCHANGED <<wire, queue>>

\* The handler of tool t up to its first await.
Handle(c, t) ==
  \/ BadArguments(c, t)
  \/ t \in NodeTools /\ node_call(c)
  \/ t \in BrainTools \cup {"file_lease"} /\ get_json(c, PlaneOf(t))
  \/ t = "repo_map" /\ Return(c, "json") /\ UNCHANGED <<wire, queue>>

CallTool(c) ==
  /\ up /\ ~Called(c)
  /\ \E t \in Tools : tool' = [tool EXCEPT ![c] = t] /\ Handle(c, t)
  /\ UNCHANGED <<env, up, exited, working>>

\* A 2xx answer becomes the tool's JSON; any other status (a redirect too, it
\* is not followed) is an error with the body; a failed request, a timeout and
\* a body that read_bounded_body refuses are errors without one.
Responded(c) ==
  /\ stage[c] = "response"
  /\ \E a \in {"json", "status error", "transport error"} : Return(c, a)
  /\ UNCHANGED <<env, up, exited, tool, wire, pool>>

\* A thread of the pool starts the closure that waited longest; it sends its
\* request and blocks.
StartWork ==
  /\ queue # <<>> /\ Cardinality(working) < Workers
  /\ working' = working \cup {Head(queue)}
  /\ queue' = Tail(queue)
  /\ wire' = [wire EXCEPT ![Head(queue)] = @ \cup {Request("sdk", "node", client_headers)}]
  /\ UNCHANGED <<env, up, exited, tool, stage, answer>>

\* Variant: a panic in the closure costs the pool its thread.
WorkDone_LosesThread(c) ==
  /\ c \in working /\ stage[c] = "blocking"
  /\ \/ Return(c, "task failed") /\ UNCHANGED working
     \/ Return(c, "json") /\ working' = working \ {c}
  /\ UNCHANGED <<env, up, exited, tool, wire, queue>>

\* The SDK returns, by its 15 s timeout at the latest, or panics.  The outcome
\* reaches the call if it still waits.
WorkDone(c) ==
  /\ c \in working
  /\ working' = working \ {c}
  /\ \/ /\ stage[c] = "blocking"
        /\ \E a \in {"json", "status error", "transport error", "task failed"} :
             Return(c, a)
     \/ stage[c] # "blocking" /\ UNCHANGED <<answer, stage>>
  /\ UNCHANGED <<env, up, exited, tool, wire, queue>>

----------------------------------------------------------------------------
\* Variant: only the answers are cancelled.
Shutdown_KeepsTasks ==
  /\ up /\ up' = FALSE
  /\ answer' = [c \in Calls |-> IF Running(c) THEN "cancelled" ELSE answer[c]]
  /\ UNCHANGED <<env, exited, tool, stage, wire, pool>>

\* stdin closes and run_stdio returns: every task is dropped, and so is what
\* the pool has not started.  What a thread runs cannot be stopped.
Shutdown ==
  /\ up /\ up' = FALSE
  /\ answer' = [c \in Calls |-> IF Running(c) THEN "cancelled" ELSE answer[c]]
  /\ stage' = [c \in Calls |-> "idle"]
  /\ queue' = <<>>
  /\ UNCHANGED <<env, exited, tool, wire, working>>

\* Variant: the process does not wait for its blocking threads.
Exit_Abandon ==
  /\ ~up /\ ~exited /\ exited' = TRUE
  /\ UNCHANGED <<env, up, callVars, pool>>

\* The runtime is dropped, which waits for the threads that still work.
Exit ==
  /\ ~up /\ ~exited /\ working = {}
  /\ exited' = TRUE
  /\ UNCHANGED <<env, up, callVars, pool>>

Terminated ==
  /\ exited \/ (up /\ \A c \in Calls : Called(c) /\ ~Running(c))
  /\ UNCHANGED vars

Next ==
  \/ \E c \in Calls : CallTool(c) \/ Responded(c) \/ WorkDone(c)
  \/ StartWork \/ Shutdown \/ Exit \/ Terminated

Spec == Init /\ [][Next]_vars

\* The runtime polls its tasks, the pool's threads run, and both clients give a
\* request 15 s at most.
Fairness ==
  /\ \A c \in Calls : WF_vars(Responded(c)) /\ WF_vars(WorkDone(c))
  /\ WF_vars(StartWork) /\ WF_vars(Exit)

FairSpec == Spec /\ Fairness

----------------------------------------------------------------------------
(***************************************************************************)
(* Properties.                                                             *)
(***************************************************************************)
Answers == {"none", "json", "bad url", "no credentials", "bad arguments",
            "status error", "transport error", "task failed", "cancelled"}

Flags == up \in BOOLEAN /\ exited \in BOOLEAN

Shapes ==
  /\ env \in Envs
  /\ tool \in [Calls -> Tools \cup {"none"}]
  /\ stage \in [Calls -> {"idle", "response", "blocking"}]
  /\ answer \in [Calls -> Answers]
  /\ working \subseteq Calls /\ queue \in Seq(Calls)
  /\ \A c \in Calls : /\ stage[c] # "idle" => Running(c)
                      /\ ~Called(c) => answer[c] = "none"

TypeOK == Flags /\ Shapes

(***************************************************************************)
(* The node plane is only ever asked through the SDK: when node_call falls *)
(* back to get_json for want of a client, get_json fails on the            *)
(* credentials before it sends anything ("falls back only to produce the   *)
(* existing credential guidance ... without attempting an unauthenticated  *)
(* SDK request"), whatever the environment.                                *)
(***************************************************************************)
FallbackNeverSends ==
  \A c \in Calls : \A w \in wire[c] : w.plane = "node" => w.via = "sdk"

\* What the README's table of variables prescribes for each plane.
Prescribed(plane) ==
  LET secret == env_value("FIDUCIA_INTERNAL_SECRET")
      key == env_value("FIDUCIA_API_KEY")
      own == env_value("FIDUCIA_CONTROL_PLANE_SECRET")
  IN  CASE plane = "brain" -> {<<"x-fiducia-internal-auth", secret>>}
        [] plane = "agent" ->
             {<<"x-internal-auth", IF own = None THEN secret ELSE own>>}
        [] plane = "node" /\ key # None -> {<<"authorization", key>>}
        [] OTHER -> {<<"x-fiducia-internal-auth", secret>>,
                     <<"x-fiducia-org-id", env_value("FIDUCIA_ORG_ID")>>}

(***************************************************************************)
(* Every request, by either client, also one that outlives its call, goes  *)
(* to an acceptable URL of the plane its tool is about and carries exactly *)
(* the credentials of that plane, none of them missing.                    *)
(***************************************************************************)
CredentialsFitThePlane ==
  \A c \in Calls : \A w \in wire[c] :
    /\ w.plane = PlaneOf(tool[c])
    /\ w.url \in UsableUrls
    /\ w.headers = Prescribed(w.plane)
    /\ \A h \in w.headers : h[2] # None

(***************************************************************************)
(* Every call is answered or cancelled, also when more node calls wait     *)
(* than the pool has threads.                                              *)
(***************************************************************************)
EveryCallIsAnswered == \A c \in Calls : Called(c) ~> ~Running(c)

(***************************************************************************)
(* A server whose client has gone exits, and leaves no request of its own  *)
(* behind: the requests of cancelled calls end before the process does.    *)
(***************************************************************************)
StopsCleanly == /\ ~up ~> exited
                /\ [](exited => working = {} /\ queue = <<>>)
=============================================================================
