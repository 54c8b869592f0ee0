------------------------------ MODULE Process ------------------------------
(***************************************************************************)
(* The server's process from the start of its container to its end: the    *)
(* entrypoint script becomes the server, run_stdio (src/src/runtime.rs)    *)
(* reads its one flag, starts the telemetry from the environment that the  *)
(* script left, serves the session and flushes.  Every end of run_stdio    *)
(* after the telemetry has started goes through its guard.                 *)
(***************************************************************************)
EXTENDS SopsEntrypoint, Telemetry

CONSTANTS
  Argvs,        \* command lines, see Argv below
  ConfigFiles,  \* the texts that are paths of files
  Bundled       \* whether .cli-flags.toml is where the server looks for it

\* A command line is well formed when flags2env audits the configuration and
\* finds no unknown option, bad value or extra argument; the flags it found.
Argv(a) == a.wellformed \in BOOLEAN /\ IsEnvironment(a.flags)

\* The one flag that .cli-flags.toml declares sets RUST_LOG.
ASSUME FlagAssumption ==
  /\ \A a \in Argvs : Argv(a) /\ DOMAIN a.flags \subseteq {"RUST_LOG"}
  /\ ConfigFiles \subseteq Text /\ Bundled \in BOOLEAN

processVars == <<entryVars, sessionVars>>

ProcessInit == EntryInit /\ SessionInit

resolve_config_path(env) ==
  IF Unset(env, "FIDUCIA_FLAGS_CONFIG") THEN Bundled
  ELSE env["FIDUCIA_FLAGS_CONFIG"] \in ConfigFiles

\* Only the flag's own filter is checked.
parse_cli_flags(argv) ==
  /\ argv.wellformed
  /\ env_value(argv.flags, "RUST_LOG") \in ValidFilters \cup {None}

\* run_stdio up to the client's handshake.
run_stdio ==
  /\ phase = "exec" /\ stage = "before"
  /\ \E argv \in Argvs :
       \/ /\ resolve_config_path(environ) /\ parse_cli_flags(argv)
          /\ init(get_env_map(environ, argv.flags))
       \/ /\ ~(resolve_config_path(environ) /\ parse_cli_flags(argv))
          /\ stage' = "exited"
          /\ UNCHANGED <<whoVars, callVars, metricVars, readerVars, spanVars>>
  /\ UNCHANGED entryVars

EntryStep == EntryNext /\ UNCHANGED sessionVars
SessionStep == SessionNext /\ UNCHANGED entryVars
Terminated == (phase = "stopped" \/ stage = "exited") /\ UNCHANGED processVars

ProcessNext == EntryStep \/ run_stdio \/ SessionStep \/ Terminated
ProcessSpec == ProcessInit /\ [][ProcessNext]_processVars

\* The threads of the runtime go on, and EXPORT_TIMEOUT ends an export.
FairProcessSpec ==
  /\ ProcessSpec
  /\ \A c \in Calls : WF_processVars(Timed(c) /\ UNCHANGED entryVars)
  /\ WF_processVars(CollectCounter /\ UNCHANGED entryVars)
  /\ WF_processVars(CollectTimer /\ UNCHANGED entryVars)
  /\ WF_processVars(MetricsFailed /\ UNCHANGED entryVars)
  /\ WF_processVars(Batch /\ UNCHANGED entryVars)
  /\ WF_processVars(BatchFailed /\ UNCHANGED entryVars)
  /\ WF_processVars(Exit /\ UNCHANGED entryVars)

----------------------------------------------------------------------------
ProcessTypeOK == EntryTypeOK /\ SessionTypeOK

\* What the operator says of a variable: an inherited value stands, also an
\* empty one; otherwise the ciphertext's.
InForce(n) ==
  IF n \in DOMAIN given THEN given[n]
  ELSE IF setup.plaintext # None /\ n \in DOMAIN Held THEN Held[n] ELSE None

(***************************************************************************)
(* Whatever is exported goes where the operator said, to a collector whose *)
(* URL holds no credentials, and under the process's own identity: nothing *)
(* in OTEL_RESOURCE_ATTRIBUTES passes for the service or for its place,    *)
(* and only so many attributes are added.                                  *)
(***************************************************************************)
ExportFollowsOperator ==
  meter \/ tracer =>
    /\ InForce(Endpoint) \in Text /\ endpoint = Trim[InForce(Endpoint)]
    /\ Url[endpoint] \in [scheme: {"http", "https"}, host: {TRUE}, user: {FALSE},
                          password: {FALSE}, query: {FALSE}, fragment: {FALSE}]
    /\ \A k \in DOMAIN Service : identity[k] = Service[k]
    /\ \A n \in DOMAIN EnvAttribute :
         EnvAttribute[n] \in DOMAIN identity =>
           InForce(n) \in Text /\ identity[EnvAttribute[n]] = Trim[InForce(n)]
    /\ Cardinality(DOMAIN identity \ reserved_resource_attribute_key) <= MAX_RESOURCE_ATTRIBUTES
=============================================================================
