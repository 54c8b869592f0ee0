# Models and proofs of fiducia-mcp

`fiducia-mcp` is a Model Context Protocol server over stdio: one process per
client, 22 tools, all of them read-only except two that write Cloudflare DNS
records behind a gate. It keeps no data. What makes it hard is that it sits
between a client and systems it does not control: every tool is a chain of
requests or child processes, several chains run at once as tasks of one tokio
runtime, each request may be lost, late or applied after its caller has given
up, and the client may hang up at any instant.

The modules here model those chains from the source, TLC checks them on small
instances, and TLAPS proves the main invariants for every instance.

## Inventory

| part | source | state | operations | hard because |
|---|---|---|---|---|
| Cloudflare write tools | `src/cloudflare.rs`, handlers in `src/server.rs` | gate and token (environment); per call: resolved zone, looked-up record | `cloudflare_dns_upsert`, `cloudflare_dns_delete` | look up, then write; a write may be applied after the 15 s timeout; other editors |
| Cloudflare listings | `src/cloudflare.rs` | page number, records so far | `cloudflare_zones`, `cloudflare_dns_records` | pages are separate requests over changing data |
| Bounded body reader | `src/upstream.rs:238` | buffer, declared length | `read_bounded_body`, used for every body | untrusted lengths, overflow, off-by-one at 4 MiB |
| Fiducia planes | `src/upstream.rs`, `src/env_map.rs` | configuration, optional SDK client, blocking pool | `get_json`, `node_call` and eleven tools | two clients that must agree on credentials; blocking work that cannot be cancelled |
| DNS cutover check | `src/domains.rs` | resolvers, report so far | `dns_check` | seven lookups are not a snapshot; fallback; partial failure |
| RDAP status | `src/domains.rs:202` | the hop it has reached | `domain_registrar_status` | exactly one redirect, named by one server and answered by another; a bounded body |
| kubectl tools | `src/k8s.rs` | allowlist (environment), child process | five `k8s_*` tools | check and use are different processes; hangs; orphans |
| Event selection and cap | `src/k8s.rs:283` | none | order, cut, `cap_output` | order of texts against order in time; bytes against characters |
| Router and lifecycle | `src/server.rs`, `src/runtime.rs` | tasks of rmcp | dispatch, shutdown | tasks are dropped where they wait |
| Telemetry | `src/telemetry.rs` | identity, collector, two providers with their own threads | instrument a call, report, flush on drop | calls that panic or are dropped, two instruments that are read one after the other, the last collection against the last answer, a collector that hangs |
| Flags, environment | `src/flags.rs`, `src/env_map.rs` | snapshot of the environment | find the configuration, merge one flag | precedence |
| Secrets entrypoint | `scripts/sops-entrypoint.sh` | records, exports | validate all, then export | all or nothing; the checker's own environment |
| Fenced action model | `conformance/*.py` | lease, fence | an explicit-state model of its own | stale fences |
| Repository map, generated code, lint and container tooling | `src/repo_map.rs`, `generated/`, ... | none | none | no control to model |

Interactions. rmcp gives each request a task; the tasks share one
`Arc<Cloudflare>` and one `Arc<Upstream>`, which are never changed after the
start, so that two calls meet only in what is outside the process (the DNS
records, the kubeconfig) and in the blocking pool. When stdin closes,
`run_stdio` returns (`src/runtime.rs:42`) and every task is dropped at the await
it has reached: that is the action `Shutdown` of three modules. The process then
waits for the threads of the pool, which nothing can cancel. The telemetry wraps
every call and outlives the session: its guard is dropped when `run_stdio` returns,
before the runtime is. What it exports, and where to, comes from the environment
that the container's entrypoint has left.

What each part must guarantee: a refused write touches nothing and a reported
one has happened; an upsert is atomic unless somebody interferes; a quiet
listing is exact; a body is whole or refused; each plane sees exactly its own
credentials; a DNS verdict was true at some instant; nothing reaches a cluster
before all checks; a registrar's facts come from the last of at most two servers;
every call returns; nothing is left running; the server starts with all its
secrets or does not start; what the collector is told is true, and complete for the
calls that were answered; the process ends.

## Modules

A definition carries the name of the function it models; `PROJECT.json` maps
every one to its lines. Definitions called `<name>_<Something>` under a comment
"Variant" are defective versions of the next definition; the specifications
never use them. Each run is shown to notice its defect. They come first in the
file because an operator must be defined before it is used.

**CloudflareDns** models the write tools. `dns_upsert(c)` and `dns_delete(c)` are
the handlers up to their first await: gate, validation and token in the order of
the source, then the first request. `ZoneResolved`, `RecordLookedUp` and
`WriteAnswered` are the code between two awaits. `wire[c]` says what became of the
last request, and the `Serve...` actions, external, may act on it also when the
call is over: so a write whose caller timed out (`TransportError`) is applied late,
or never. `EditElsewhere` is anybody else with the account. `Cloudflare::send`
never retries, hence one request per step of a call. Texts are opaque; `Trim`,
`Upper` and `Length` are parameters, since the code's validation is about what is
left after trimming. The API numbers records by taking a free id and never
gives an id out twice.

**DnsContract** is the abstract specification of what a caller can rely on: each
call takes effect at most once and on one record, "done" means applied, "refused"
means never applied, anything else means unknown. `CloudflareDns` implements it
under the mapping `Contract` (a write counts as applied once served).

**DnsListing** models the two listings: a page is served at one instant, the
account changes between pages. `stable` records what was there from the first
page on; `added` and `removed` count the changes.

**BoundedBody** models `read_bounded_body` byte count by byte count, with
`saturating_add` in a `usize` of `SizeMax`.

**RdapLookup** extends it to `registrar_status`: the validation of the domain,
`asked` with the URLs requested so far, `heads` with what the servers said first, then
the reader's own actions for the body, and `Verdict` in the same step as the end of
the body, since the code does not wait in between. A domain is a sequence of labels,
a document what `parse_rdap` looks at. The reader's `declared` stands for the last hop.

**Upstream** models the configuration from the environment, the headers of each
plane on both paths, `get_json` and `node_call` with its fallback, the queue and
the threads of the blocking pool, the shutdown and the exit of the process.
`wire[c]` collects every request sent for a call, by either client.

**DnsCheck** models the checks as data (`PlanOf`) and one lookup per step: `Answered`
reads the DNS as it is at that instant, `Failed` turns to the fallback resolver
and then to an error. `truths` collects the verdicts that were true at some
instant of the call, from an independent statement of each check.

**Kubectl** models a call as a chain of child processes with one result each.
`ChildEnds` reads the kubeconfig at the instant the process ends. `NamesOk` and
`ContextOk` stand for the two halves of the validation; the tools apply them in
the orders of the source.

**K8sEvents** computes the answer of `k8s_events` from a list of events: the stable
sort by the text of the stamp (`Place`), the cut and `cap_output`. An event is one
character of the answer, one to four bytes wide, so that a text is a sequence of events
and what a preview still shows can be compared with what the namespace holds. What the
JSON has around the events is left out.

**EnvMap** is the environment as a value: a variable is set when its name is in the
domain, and `env_value` is what the server reads.

**SopsEntrypoint** models the script: `Prepare` is all it does before it has a
plaintext, with the exit statuses in their order, `Validate` and `Apply` are one
record of each pass. `printenv` gives any answer once a variable that steers the
helper has been exported, which is why the passes are two. **SecretsContract** is
the abstract specification: one step that imports everything that is not there
already, or none. `ImportsAtOnce` is the refinement.

**Telemetry** has two parts. The operators say who the process is (`resource`), where
it reports (`otlp_endpoint_from_env`) and whether the filter lets the tools' spans
through (`Spans`). The state machine is the session: `CallTool`, `Counted`, `Timed` and
`Panics` are the wrapper of `instrument_tool_router`, cut where another thread can
come in between, the two instruments among them; the reader of the metrics
(`CollectCounter`, `CollectTimer`, `MetricsSent` or `MetricsFailed`) and the worker of
the spans (`Batch`, ...) belong to the SDK; `Flush` is the order in which the guard shuts
them down. `reported` is the last cumulative report the collector got, `lost` the
spans that were dropped or whose batch failed.

**Process** composes the two: the entrypoint runs, `exec` hands over its environment,
`run_stdio` reads the flags and starts the telemetry or ends, and the session follows.

`MC...` modules hold the constants of the runs.

## Runs

| run | module | bounds | shows |
|---|---|---|---|
| `dns_effects` | CloudflareDns | 2 calls, 3 record ids, 1 edit elsewhere, gate open, starts with 0, 1 or 2 matching records | `UpsertAtomicUnlessOvertaken`, `SequentialUpsertsNeverDuplicate`, `KeepsContract` |
| `dns_calls` | CloudflareDns | 2 calls, 8 upserts, 6 deletes (each check has one that it refuses), gate unset, `1` or `true` | type invariant, `RefusedNeverTouchApi`, `WritesAreAuthorised`, `EveryCallIsAnswered` |
| `dns_race` | CloudflareDns | 2 competing upserts | a counterexample: two records of one type and name |
| `dns_listing` | DnsListing | 0 to 5 records, pages of 2, 2 changes | `QuietListingIsExact`, `HidesAtMostRemoved`, `RepeatsAtMostAdded`, `ListingEnds` |
| `bounded_body` | RdapLookup with BoundedBody | cap 5, `usize` up to 7, declared up to 9; 9 domains on both sides of each check, 3 locations, 4 documents | `HeldWithinCap`, `ReturnedWhole`, `RefusedOnlyIfTooLarge`, `RequestsAreDue`, `FactsAreTheLastHops`, `LookupReturns` |
| `upstream` | Upstream | 2 calls, 1 pool thread, 192 environments | `CredentialsFitThePlane`, `FallbackNeverSends`, `EveryCallIsAnswered`, `StopsCleanly` |
| `dns_check` | DnsCheck | 8 inputs, 6 varying questions, 2 changes | `VerdictsWereTrue`, `GreenMeansGreen`, `EveryCheckReturns` |
| `pending_on_failure` | DnsCheck | no change of the DNS | a counterexample: PENDING for a lookup that failed |
| `kubectl` | Kubectl | 2 calls, 10 requests, 1 edit, 3 allowlists | `ClusterOnlyAfterChecks`, `NoOrphans`, `EveryCallIsAnswered` |
| `k8s_events` | K8sEvents | up to 4 events out of 6 kinds, 1 to 4 bytes wide, no second with both forms, cap 3 (four wide events weigh more than four caps) | `MostRecentFirst`, `CutsLoseTheOldest` |
| `events_within_a_second` | K8sEvents | stamps with and without fractions | a counterexample: the later of two events sorts as the older |
| `process` | Process with SopsEntrypoint and Telemetry | 11 states of the ciphertext, 9 environments, 4 command lines; 2 calls, a queue of 1 span, each exporter there or not | `ImportsAtOnce`, `ExportFollowsOperator`, `ReportsAreTrue`, `AnsweredIsReported`, `ExitsOnceClosed` |

Why the bounds are enough. Calls interact pairwise, through a record or a pool
thread, so two calls show every kind of interference; a second edit or
change only repeats the first, except for the DNS, where two changes are what it
takes to tear an A answer from a CNAME answer, and for the listing, where one
added and one removed record may cancel out. Three record ids leave one for each
of two creations beside an existing record. A listing of five records in pages
of two has full pages and a rest. With a cap of 5 in a `usize` of 3 bits a chunk
can fit, meet the cap, exceed it and overflow the sum. One thread for two calls
is a pool at its limit. `U32 = 16` stands for 2^32 page numbers and is not
reached. `MaxElsewhere`, `MaxChanges`, `MaxEdits` and `MaxEvents` bound the environment,
never the program. Runs that check liveness use no symmetry.

In `process` two calls are enough for one that is answered and one that is
running, counted but not timed, or late when the session ends, and a queue of one
span overflows at the second. Most starts end early, each for a reason of its own,
or export nothing. Two calls also suffice for a report that is torn between
the instruments.

The runs that may stop have an explicit `Terminated`, `Returned` or `Finished` step,
so a deadlock would be an error everywhere.

## Fairness

Weak fairness is assumed of the steps of a call that the program itself can
take: tokio polls a task whose await is over, and every await is bounded by a
timer of the program or of its library. Those timers are the 15 s of both reqwest
clients (`src/cloudflare.rs:57`, `src/upstream.rs`), which cover the body too, the
15 s of the SDK, the 15 s of `run_kubectl`, and the attempts and timeouts of
hickory. Accordingly the fair action always contains the error that the timer
produces, and nothing is assumed of Cloudflare, the planes, the DNS, kubectl or
the client. In `Upstream` the threads of the pool and the exit of the runtime are
fair as well. In `Process` the reader of the metrics and the worker of the spans are
threads or tasks of a runtime that is still there, and `EXPORT_TIMEOUT`
(`src/telemetry.rs:23`, 5 s) ends an export, hence `MetricsFailed` and `BatchFailed` are
fair and `MetricsSent` is not; no fairness is assumed of a tool, which is why
`ExitsOnceClosed` speaks of tools that never return as well. In `RdapLookup` the
15 s of the client end a wait for a head (`SendFails`) or a body (`Break`).
`ListingEnds` holds because the account changes finitely often (`MaxChanges`):
nothing in the code caps the pages it follows.

## Proofs

All proofs are for every value of the constants, under the named assumptions of
the modules (texts are closed under trimming, and trimming twice is trimming once,
`None` is not a text, the cap is below the largest `usize`, ...), which TLC evaluates in
every run. One of them is about size: `FitsAssumption` of DnsListing says that the number
of pages of a zone fits `as u32` (`src/src/cloudflare.rs`), that is, that a zone
has fewer than 429 thousand million records. Beyond that the listing would stop early, and
the theorems about it be false. `MostRecentIfUniform` has a hypothesis of its own,
`UniformSeconds`, about the events of a cluster, and so has `CutsLoseTheOldestIfUniform`;
the run `events_within_a_second` shows what happens without it, and `k8s_events` checks
the two properties under it.

| theorem | module | says |
|---|---|---|
| `TypeCorrect`, `RefusedIsHarmless`, `WritesAuthorised` | CloudflareDnsProofs | a refused call has sent nothing; what is on the wire passed every check |
| `ContractKept`, `UpsertIsAtomic`, `SequentialIsSafe` | CloudflareDnsProofs | the calls implement DnsContract; an upsert not overtaken is one atomic step; one call at a time makes no duplicates |
| `NeverPastTheCap`, `ExactAtTheCap`, `RefusedForItsSize`, `TypeCorrect` | RdapLookupProofs (first part) | never more than the cap is held; a returned body is whole; only a larger one is refused for its size |
| `LookupReadsBounded`, `OneRedirectAtMost`, `FactsAreFromTheLastHop`, `LookupTypeCorrect` | RdapLookupProofs | the lookup implements the reader; a second request only for a redirect, a third never; facts are the last server's |
| `RemovalsHideNoMore`, `AdditionsRepeatNoMore`, `AQuietListingIsExact`, `ListingTypeCorrect` | DnsListingProofs | a removal hides at most one record that stayed, an insertion repeats at most one; without a change the listing is the zone |
| `ReportsAreTrue`, `GreenIsGreen`, `CheckTypeCorrect` | DnsCheckProofs | verdicts were true at some instant of the call; an all-green report has every part in place |
| `TheEndOfTheTexts`, `MostRecentIfUniform`, `AnswersAreCutToSize`, `CutsLoseTheOldestIfUniform` | K8sEventsProofs | the selection is the end of the list in the order of the texts; that is the order in time unless one second has stamps of both forms; a preview is the beginning of a larger answer and weighs one to four caps; the cuts by number and by size together lose the oldest events |
| `FallbackIsSilent`, `CredentialsFit`, `TypeCorrect` | UpstreamProofs | only the SDK talks to the node plane; complete and exact credentials |
| `ClusterAfterChecks`, `NothingLeftBehind`, `TypeCorrect` | KubectlProofs | no cluster command before all checks; no process without its call |
| `EntryImportsAtOnce` | ProcessProofs (first part) | the two passes implement SecretsContract |
| `ImportedAtOnce`, `DeliveredIsTrue`, `NoAnswerLeftBehind`, `ExportsAsTold`, `TypeCorrect` | ProcessProofs | the same of the whole process; reports are true; who was answered is reported; exports go where the operator said |

Each module defines an inductive invariant (`IInv`; `RInv` and `BodyInv`, `ListInv`, `CheckInv`,
`AnswerInv`, `EInv`, `SInv` and `OInv` where there are several or they are about one part), proves that `Init` implies it
and that every action preserves it (one lemma per action, and a lemma that a call
keeps its invariant while another one moves), and derives the theorems.

- *CloudflareDns*: `WritesAreAuthorised` speaks of requests that are on the wire, but
  the gate is looked at when the call arrives. `CallInv` carries what was checked
  through every request in between: a call that has sent anything has an open
  gate, a token, arguments without an error, and, after the lookup, a reply that
  is a record id or none.
- *Effects of the DNS calls*, on top of that invariant.  The refinement of DnsContract
  needs what an answer says about the last request (`Concluded`): success means
  served, "api error" means refused, "no zone" that only the zone was asked for; so
  a write served after its call is over (`ServedInTime`) belongs to a call whose
  outcome is unknown. Atomicity needs `FreshLookup`: as long as `stale` is not set,
  the reply, and later the write on the wire, still describe the matching
  records. Sequential use needs `Sequential`: at most one call is under way
  (`UnderWay`, which counts a request that outlives its call), so the call that
  writes is the only one whose lookup could be overtaken.
- *BoundedBody*: the buffer must equal what arrived while reading, and a body
  declared over the cap must never get that far. The lemma
  `SaturatingAddIsExactAtTheCap` shows that saturation cannot hide an overflow as
  long as the cap is below the largest `usize`.
- *Upstream*: requests are sent by pool threads long after the configuration was
  looked at, so `IInv` says that what waits in the queue has a client
  (`Queued`) and that what was sent fits (`Fit`). `FallbackIsSilent` rests on
  `has_node_client` and `headers` failing in complementary cases.
- *Kubectl*: a context in the output of one process was in the kubeconfig at some
  instant of the call, because `known` is part of `seen` while a call runs
  (`Listed`); the tools that validate the names before the context keep that
  in `Checked`.
- *RdapLookup*: `LookupReadsBounded` makes every step of the lookup a step of the
  reader or a stutter, so that the reader's theorems hold of it without a new proof.
  `RInv` then relates the stage to the numbers of requests and heads.
  `RdapTypeOK` needs `BodyInv` besides: no body has begun before the last head is there.
- *DnsListing*: at the end only the result and two counts are left, so the invariant has to
  follow the items while the pages are read. `Balance` relates what the API has handed
  out (`Served`) to the positions of the list it covers (`Passed`): an item that stayed, was
  never handed out and lies among the positions passed (`Hidden`) was pulled there by a removal
  of its own; an item handed out that lies beyond them (`Ahead`), or was handed out
  twice, was pushed there by an insertion of its own. `InsertionRepeatsOne` and
  `RemovalHidesOne` show that a change moves at most one item over that border,
  `PageKeepsBalance` that a page turns items ahead into repetitions and hides none.
  `PagesReachTheEnd` shows that the page the code stops at is the first one that
  reaches the end, so that every item missing then is hidden (`Counted`). Without a change,
  what was served is a prefix of the list (`Quiet`). `PageOf`, `InsertAt` and `RemoveAt` are
  described position by position in lemmas of their own.
- *DnsCheck*: a verdict is given in the step that hears the last lookup of its check, and
  `TrueNow` keeps the verdict of every instant in `truths`; for the checks with one
  lookup that is enough. A Pages check has two, with any number of changes in between:
  `HalfHeard` says what the A lookup alone is worth. A value of GitHub in it has already made
  PASS a true verdict; without a change it is what the DNS holds now; after one change
  either that, or the verdict it leads to, with the CNAME of now, was true before the change. After
  two changes nothing of this is left, which is the exception in `VerdictsWereTrue`;
  `PassesWereTrue` has no exception. `GreenIsGreen` adds that a summary counts as many
  passes as there are checks only if none is missing.
- *K8sEvents*: the order by text and then by position is total (`SortIsTotal`), so that the
  number of events before an event is its place, no two events have the same
  (`PlaceFollowsTheSort`), and, an injection of a finite set into itself being onto,
  every place is taken (`EveryPlaceIsTaken`). The selection is the last places in reverse
  (`SelectedIsTheEnd`). A preview is its beginning (`AnswersAreCutToSize`), so what the
  size cuts off is the end of a list that is newest first; `Weight` counts its bytes.
- *SopsEntrypoint*: after n records of the first pass, `seen` are their names, none of
  them twice, and `import` those that were not inherited (`FirstPass`); after n records
  of the second, the environment is the inherited one with the imports among
  those names (`Loaded`). The answers of printenv can be trusted throughout the first
  pass, since the environment is still the inherited one: with one pass that lemma,
  `PresenceIsExact`, would not be there.
- *Process*: `CallsTrue` says what the two instruments hold in terms of the calls,
  `SnapshotsTrue` that what was collected was there. That nothing is left behind rests
  on `LastMetrics` (the last collection begins when no more answers go out, so that it
  finds every answered call in both instruments) and on `LastSpans` (the span of an
  answered call is queued, under way, delivered or lost, and the last batch empties the
  queue). `ExportsAsTold` carries the operator's words through the entrypoint (`FromOperator`),
  where an import never replaces an inherited value, and the start (`Started`). The limit
  on the attributes, `AddedAreFew`, needs no induction: the number of new keys before
  each one that is taken is an injection into the numbers below the limit.

Model-checked only: liveness (`EveryCallIsAnswered`, `ListingEnds`, `LookupReturns`,
`EveryCheckReturns`, `StopsCleanly`, `ExitsOnceClosed`), which rests on fairness and is out of the prover's
reach, and the counterexamples. Every invariant and every other action property that
a passing run checks is a theorem.

## Where the code and its documentation differ

1. `dns_upsert` is described as create-or-update matched on type and name, and
   announced as idempotent (`src/server.rs:431`). Two overlapping upserts, or one that
   is repeated after a timeout, may both create a record (`dns_race`).
   `SequentialUpsertsNeverDuplicate` shows that a caller who is alone and waits
   until its requests are settled is safe.
2. `Resolve` reserves `Err` for failures and an empty answer for "no such record";
   the Pages and nameserver checks show failures as PENDING (`pending_on_failure`).
3. Events are said to sort by text as they do in time; stamps of one second with
   and without a fraction do not (`events_within_a_second`).

Also met, without a run:

- `cloudflare_zones` is described as the zones on the account (`README.md:55`) and
  returns the first page of fifty;
- the preview of `cap_output` is cut in characters, so it can exceed the "~32KB" of
  `src/k8s.rs:15` and `README.md:135`: `CutsLoseTheOldest` bounds it by four times the cap;
- `complete` in the answer of `k8s_rollout_status` (`src/k8s.rs:277`) is the exit status of
  `kubectl rollout status --watch=false`, which is also 0 while the rollout still waits: it
  may be true too early. Only the name of the field says otherwise;
- `OBSERVABILITY.md:82` has flush failures emit a warning; the guard drops the errors of
  `shutdown()` (`src/telemetry.rs:45`) and warns only if its thread panics;
- the Dockerfile (line 83) wants `OTEL_SERVICE_NAME` from the deployment; the service's
  name is a constant and nothing reads the variable.

## Not modelled

- A kill of the process: there is no handler of SIGTERM, so that nothing of the code
  runs, and the last metrics and spans are lost.
- The fenced action models in `conformance/`: Python searches of designs that no code
  of the server implements.
- Libraries: the framing and dispatch of rmcp, the parser of flags2env (a command line
  is well formed or not), TLS and HTTP of reqwest and ureq, the inside of the
  OpenTelemetry SDK, sops.
- The layout of summaries and of error texts, constant tables (`repo_map.rs`),
  generated code, build and lint tooling: no state and no control.

## Plan

Done, in this order: CloudflareDns with DnsContract, DnsListing, BoundedBody,
Upstream, DnsCheck, Kubectl, K8sEvents and their proofs; then RdapLookup on top of
BoundedBody, EnvMap, SopsEntrypoint with SecretsContract, Telemetry, Process, and
the proofs of these; then the proofs of DnsListing, DnsCheck and K8sEvents.

Next proofs: that a listing of `zones` is a prefix of the account; what a failed write of
CloudflareDns may still do after its call, as an invariant of its own.
