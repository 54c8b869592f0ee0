----------------------------- MODULE Telemetry -----------------------------
(***************************************************************************)
(* src/src/telemetry.rs: who the process says it is and where it reports,  *)
(* the wrapper around every tool call, and the guard that flushes when the *)
(* session is over.  The periodic reader of the metrics and the worker of  *)
(* the spans belong to the SDK; each exports one batch at a time, gives up *)
(* after EXPORT_TIMEOUT, and stops after its last batch.                   *)
(***************************************************************************)
EXTENDS EnvMap, Sequences, FiniteSets

CONSTANTS
  Calls,         \* tool calls of the session
  Size,          \* str::len
  Controls,      \* the texts with a control character
  Url,           \* Url::parse: a URL record, or None
  PairsOf,       \* the pairs that the shared bootstrap finds in a text
  SpanFilters,   \* the filters that let the spans of the tools through
  DefaultSpans,  \* whether the default filter does
  ValidFilters,  \* what EnvFilter::try_new accepts
  MAX_RESOURCE_ATTRIBUTES_RAW_BYTES, MAX_RESOURCE_ATTRIBUTES,
  MaxQueue       \* how many spans may wait for the worker

MAX_OTLP_ENDPOINT_BYTES == 2 * 1024

URL == [scheme: Text, host: BOOLEAN, user: BOOLEAN, password: BOOLEAN,
        query: BOOLEAN, fragment: BOOLEAN]
Pair == [key: Text, value: Text]

ASSUME TelemetryAssumption ==
  /\ Size \in [Text -> Nat] /\ Url \in [Text -> URL \cup {None}]
  /\ PairsOf \in [Text -> Seq(Pair)] /\ None \notin URL
  /\ SpanFilters \subseteq ValidFilters /\ ValidFilters \subseteq Text
  /\ DefaultSpans \in BOOLEAN /\ MAX_RESOURCE_ATTRIBUTES \in Nat /\ MaxQueue \in Nat

Endpoint == "OTEL_EXPORTER_OTLP_ENDPOINT"

\* The attributes that the process owns: constants, and what the platform says.
Service ==
  [k \in {"service.name", "service.namespace", "service.version"} |->
     IF k = "service.name" THEN "fiducia-mcp"
     ELSE IF k = "service.namespace" THEN "fiducia-cloud" ELSE "0.1.0"]
EnvAttribute ==
  [DEPLOYMENT_ENV |-> "deployment.environment", POD_NAMESPACE |-> "k8s.namespace.name",
   POD_NAME |-> "k8s.pod.name", NODE_NAME |-> "k8s.node.name", HOSTNAME |-> "host.name"]
reserved_resource_attribute_key ==
  DOMAIN Service \cup {EnvAttribute[n] : n \in DOMAIN EnvAttribute}

\* Variant: a URL is enough.
sanitize_otlp_endpoint_AnyUrl(raw) ==
  IF Trim[raw] = "" \/ Url[Trim[raw]] = None THEN None ELSE Trim[raw]

sanitize_otlp_endpoint(raw) ==
  LET endpoint == Trim[raw]
      ok == /\ endpoint # "" /\ endpoint \notin Controls
            /\ Size[endpoint] <= MAX_OTLP_ENDPOINT_BYTES
            /\ Url[endpoint] # None /\ Url[endpoint].scheme \in {"http", "https"}
            /\ Url[endpoint].host /\ ~Url[endpoint].user /\ ~Url[endpoint].password
            /\ ~Url[endpoint].query /\ ~Url[endpoint].fragment
  IN  IF ok THEN endpoint ELSE None

otlp_endpoint_from_env(env) ==
  IF env_value(env, Endpoint) = None THEN None
  ELSE sanitize_otlp_endpoint(env_value(env, Endpoint))

valid_attribute_value(v) == v # "" /\ Size[v] <= 256 /\ v \notin Controls

\* What the operator adds: the first value of each key that is not the
\* process's own, up to the limit.
resource_attribute_pairs(raw) ==
  LET p == IF Size[raw] > MAX_RESOURCE_ATTRIBUTES_RAW_BYTES THEN <<>> ELSE PairsOf[raw]
      new == {i \in DOMAIN p : /\ p[i].key \notin reserved_resource_attribute_key
                               /\ \A k \in 1..(i - 1) : p[k].key # p[i].key}
      taken == {i \in new : Cardinality({k \in new : k < i}) < MAX_RESOURCE_ATTRIBUTES}
  IN  [key \in {p[i].key : i \in taken} |->
         p[CHOOSE i \in taken : p[i].key = key].value]

push_env_attribute(env, name) ==
  env_value(env, name) # None /\ valid_attribute_value(env_value(env, name))

resource(env) ==
  LET pushed == {n \in DOMAIN EnvAttribute : push_env_attribute(env, n)}
      own == [k \in DOMAIN Service \cup {EnvAttribute[n] : n \in pushed} |->
                IF k \in DOMAIN Service THEN Service[k]
                ELSE env_value(env, CHOOSE n \in pushed : EnvAttribute[n] = k)]
      raw == env_value(env, "OTEL_RESOURCE_ATTRIBUTES")
  IN  IF raw = None THEN own ELSE get_env_map(own, resource_attribute_pairs(raw))

\* An invalid filter gives way to the default.
Spans(env) ==
  LET raw == env_value(env, "RUST_LOG")
  IN  IF raw \in ValidFilters THEN raw \in SpanFilters ELSE DefaultSpans

----------------------------------------------------------------------------
VARIABLES
  stage,     \* "before", "handshake", "serving", "flush metrics", "flush spans",
             \* "leaving" or "exited"
  endpoint,  \* the collector, None when nothing is exported
  identity,  \* the attributes of whatever is exported
  spans,     \* whether the filter lets the spans of the tools through
  meter,     \* whether there is a provider of metrics
  tracer,    \* whether there is a provider of spans
  call,      \* what each call is at
  outcome,   \* how the tool of each call returned
  counter,   \* mcp.server.tool.calls: the calls added, with their attributes
  timer,     \* mcp.server.tool.duration, likewise
  reader,    \* the periodic reader and what it has collected
  reported,  \* the last metrics that the collector got
  flushed,   \* history: whether the last collection reached the collector
  queue,     \* spans that wait for the worker
  worker,    \* "idle", "sending", "last" or "closed"
  batch,     \* the spans being sent
  exported,  \* spans that the collector got
  lost       \* history: spans that were dropped, or whose batch failed

callVars == <<call, outcome>>
metricVars == <<counter, timer>>
readerVars == <<reader, reported, flushed>>
spanVars == <<queue, worker, batch, exported, lost>>
whoVars == <<endpoint, identity, spans, meter, tracer>>
sessionVars == <<stage, whoVars, callVars, metricVars, readerVars, spanVars>>

Metrics == [counter |-> counter, timer |-> timer]
NoMetrics == [counter |-> {}, timer |-> {}]
Idle == [step |-> "idle", last |-> FALSE, got |-> NoMetrics]

SessionInit ==
  /\ stage = "before" /\ endpoint = None /\ identity = Service
  /\ spans = FALSE /\ meter = FALSE /\ tracer = FALSE
  /\ call = [c \in Calls |-> "idle"] /\ outcome = [c \in Calls |-> "unset"]
  /\ counter = {} /\ timer = {} /\ reader = Idle /\ reported = NoMetrics /\ flushed = FALSE
  /\ queue = {} /\ worker = "idle" /\ batch = {} /\ exported = {} /\ lost = {}

\* Either exporter may fail to be built, without the other.
init(env) ==
  /\ stage = "before" /\ stage' = "handshake"
  /\ endpoint' = otlp_endpoint_from_env(env)
  /\ identity' = resource(env) /\ spans' = Spans(env)
  /\ meter' \in (IF endpoint' = None THEN {FALSE} ELSE BOOLEAN)
  /\ tracer' \in (IF endpoint' = None THEN {FALSE} ELSE BOOLEAN)
  /\ UNCHANGED <<callVars, metricVars, readerVars, spanVars>>

\* The guard drops: metrics first, then spans, each if there are any.
Flush == IF meter THEN "flush metrics" ELSE IF tracer THEN "flush spans" ELSE "leaving"
AfterMetrics == IF tracer THEN "flush spans" ELSE "leaving"

\* serve(): the client initializes the session, or it fails, which ends run_stdio.
Handshake ==
  /\ stage = "handshake" /\ stage' \in {"serving", Flush}
  /\ UNCHANGED <<whoVars, callVars, metricVars, readerVars, spanVars>>

\* Variant: the call is counted before it is made.
CallTool_CountsFirst(c) ==
  /\ stage = "serving" /\ call[c] = "idle" /\ call' = [call EXCEPT ![c] = "running"]
  /\ counter' = counter \cup {<<c, "OK">>}
  /\ UNCHANGED <<stage, whoVars, outcome, timer, readerVars, spanVars>>

CallTool(c) ==
  /\ stage = "serving" /\ call[c] = "idle" /\ call' = [call EXCEPT ![c] = "running"]
  /\ UNCHANGED <<stage, whoVars, outcome, metricVars, readerVars, spanVars>>

\* The span of call c is closed with a status; a full queue drops it.
CloseSpan(c, status) ==
  /\ IF ~tracer \/ ~spans THEN UNCHANGED <<queue, lost>>
     ELSE IF Cardinality(queue) < MaxQueue
     THEN queue' = queue \cup {<<c, status>>} /\ UNCHANGED lost
     ELSE lost' = lost \cup {<<c, status>>} /\ UNCHANGED queue
  /\ UNCHANGED <<worker, batch, exported>>

\* The tool has returned; its call is counted.
Counted(c) ==
  /\ stage # "exited" /\ call[c] = "running" /\ call' = [call EXCEPT ![c] = "counted"]
  /\ \E how \in {"OK", "ERROR"} :
       /\ outcome' = [outcome EXCEPT ![c] = how]
       /\ counter' = counter \cup {<<c, how>>}
  /\ UNCHANGED <<stage, whoVars, timer, readerVars, spanVars>>

\* Then it is timed, its span is closed, and the result goes to the client, if
\* that is still there.
Timed(c) ==
  /\ stage # "exited" /\ call[c] = "counted"
  /\ call' = [call EXCEPT ![c] = IF stage = "serving" THEN "answered" ELSE "late"]
  /\ timer' = timer \cup {<<c, outcome[c]>>}
  /\ CloseSpan(c, outcome[c])
  /\ UNCHANGED <<stage, whoVars, outcome, counter, readerVars>>

\* A tool that panics is neither counted nor timed; its span has no status.
Panics(c) ==
  /\ stage # "exited" /\ call[c] = "running" /\ call' = [call EXCEPT ![c] = "panicked"]
  /\ CloseSpan(c, "unset")
  /\ UNCHANGED <<stage, whoVars, outcome, metricVars, readerVars>>

\* Variant: the providers are dropped, not shut down.
Disconnect_NoFlush ==
  /\ stage = "serving" /\ stage' = "leaving"
  /\ UNCHANGED <<whoVars, callVars, metricVars, readerVars, spanVars>>

\* The client closes stdin: run_stdio returns and drops the guard.
Disconnect ==
  /\ stage = "serving" /\ stage' = Flush
  /\ UNCHANGED <<whoVars, callVars, metricVars, readerVars, spanVars>>

\* A tick of the reader, or its last collection.  The two instruments are read
\* one after the other, while calls go on.
CollectCounter ==
  /\ meter /\ stage \in {"handshake", "serving", "flush metrics"} /\ reader.step = "idle"
  /\ reader' = [step |-> "half", last |-> stage = "flush metrics",
                got |-> [NoMetrics EXCEPT !.counter = counter]]
  /\ UNCHANGED <<stage, whoVars, callVars, metricVars, reported, flushed, spanVars>>

CollectTimer ==
  /\ reader.step = "half"
  /\ reader' = [reader EXCEPT !.step = "sending", !.got.timer = timer]
  /\ UNCHANGED <<stage, whoVars, callVars, metricVars, reported, flushed, spanVars>>

\* The export is over; after the last one the spans are next.
MetricsDone ==
  /\ reader.step = "sending"
  /\ IF reader.last THEN reader' = [Idle EXCEPT !.step = "closed"] /\ stage' = AfterMetrics
     ELSE reader' = Idle /\ UNCHANGED stage
  /\ UNCHANGED <<whoVars, callVars, metricVars, spanVars>>

MetricsSent == MetricsDone /\ reported' = reader.got /\ flushed' = reader.last

\* Variant: nothing ends an export that is not answered.
MetricsFailed_NoTimer == MetricsDone /\ ~reader.last /\ UNCHANGED <<reported, flushed>>

\* The collector refuses, or EXPORT_TIMEOUT is over; the error is dropped.
MetricsFailed == MetricsDone /\ UNCHANGED <<reported, flushed>>

Batch ==
  /\ tracer /\ worker = "idle"
  /\ \/ stage = "flush spans" /\ worker' = "last"
     \/ stage \in {"serving", "flush metrics"} /\ queue # {} /\ worker' = "sending"
  /\ batch' = queue /\ queue' = {}
  /\ UNCHANGED <<stage, whoVars, callVars, metricVars, readerVars, exported, lost>>

BatchDone ==
  /\ worker \in {"sending", "last"} /\ batch' = {}
  /\ IF worker = "last" THEN worker' = "closed" /\ stage' = "leaving"
     ELSE worker' = "idle" /\ UNCHANGED stage
  /\ UNCHANGED <<whoVars, callVars, metricVars, readerVars, queue>>

BatchSent == BatchDone /\ exported' = exported \cup batch /\ UNCHANGED lost
BatchFailed == BatchDone /\ lost' = lost \cup batch /\ UNCHANGED exported

\* The runtime is dropped, and every call where it waits.
Exit ==
  /\ stage = "leaving" /\ \A c \in Calls : call[c] # "counted"
  /\ stage' = "exited"
  /\ call' = [c \in Calls |-> IF call[c] = "running" THEN "cancelled" ELSE call[c]]
  /\ UNCHANGED <<whoVars, outcome, metricVars, readerVars, spanVars>>

CallNext == \E c \in Calls : CallTool(c) \/ Counted(c) \/ Timed(c) \/ Panics(c)
ReaderNext == CollectCounter \/ CollectTimer \/ MetricsSent \/ MetricsFailed
WorkerNext == Batch \/ BatchSent \/ BatchFailed
SessionNext == CallNext \/ ReaderNext \/ WorkerNext \/ Handshake \/ Disconnect \/ Exit

----------------------------------------------------------------------------
Attributes == {<<c, how>> : c \in Calls, how \in {"OK", "ERROR"}}
SpansOf == Attributes \cup {<<c, "unset">> : c \in Calls}
MetricsType == [counter: SUBSET Attributes, timer: SUBSET Attributes]

SessionTypeOK ==
  /\ stage \in {"before", "handshake", "serving", "flush metrics", "flush spans", "leaving", "exited"}
  /\ spans \in BOOLEAN /\ meter \in BOOLEAN /\ tracer \in BOOLEAN
  /\ call \in [Calls -> {"idle", "running", "counted", "answered", "late", "panicked", "cancelled"}]
  /\ outcome \in [Calls -> {"OK", "ERROR", "unset"}]
  /\ counter \subseteq Attributes /\ timer \subseteq Attributes
  /\ reader \in [step: {"idle", "half", "sending", "closed"}, last: BOOLEAN, got: MetricsType]
  /\ reported \in MetricsType /\ flushed \in BOOLEAN
  /\ queue \subseteq SpansOf /\ batch \subseteq SpansOf /\ exported \subseteq SpansOf
  /\ lost \subseteq SpansOf /\ worker \in {"idle", "sending", "last", "closed"}

(***************************************************************************)
(* Whatever the collector has been told is true: it counts and times only  *)
(* calls whose tool has returned, once and with the outcome it returned; a *)
(* span that says OK or ERROR is one of a call that was counted and timed  *)
(* as such, and only a call that panicked leaves a span without a status.  *)
(***************************************************************************)
ReportsAreTrue ==
  /\ \A m \in reported.counter \cup reported.timer :
       outcome[m[1]] = m[2] /\ call[m[1]] \in {"counted", "answered", "late"}
  /\ \A s \in exported :
       IF s[2] = "unset" THEN call[s[1]] = "panicked"
       ELSE outcome[s[1]] = s[2] /\ s \in counter /\ s \in timer

(***************************************************************************)
(* "Final batches can be flushed on shutdown": when the process is gone,   *)
(* every call that was answered before the client left is in the metrics   *)
(* that the collector got, unless the last export failed; and its span has *)
(* been delivered, or was dropped by a full queue or a failed export. None *)
(* was left behind because the process did not wait.                       *)
(***************************************************************************)
AnsweredIsReported ==
  stage = "exited" =>
    \A c \in {x \in Calls : call[x] = "answered"} :
      /\ meter /\ flushed => <<c, outcome[c]>> \in reported.counter \cap reported.timer
      /\ meter /\ ~flushed => reader.step = "closed"
      /\ tracer /\ spans => <<c, outcome[c]>> \in exported \cup lost

(***************************************************************************)
(* Once the client is gone the process exits, whatever the collector does  *)
(* and whatever the tools that still run do.                               *)
(***************************************************************************)
ExitsOnceClosed ==
  (stage \in {"flush metrics", "flush spans", "leaving"}) ~> (stage = "exited")
=============================================================================
