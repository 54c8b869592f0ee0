------------------------------ MODULE Kubectl ------------------------------
(***************************************************************************)
(* The k8s_* tools of src/src/k8s.rs.  Each is a chain of kubectl          *)
(* processes, one at a time, that a call starts and waits for at most 15 s *)
(* each: first the list of contexts, to check the one it was given, then   *)
(* one or two commands on that context.  The kubeconfig is not the         *)
(* server's: anyone may edit it between two of them.                       *)
(***************************************************************************)
EXTENDS Integers, FiniteSets

CONSTANTS
  Calls,          \* the tool calls of a session, one task each
  Text,           \* every string that occurs
  Trim, Lower,    \* str::trim and str::to_ascii_lowercase
  FlagShaped,     \* strings that start with '-' or contain NUL
  DnsLabels,      \* strings that are DNS-1123 labels
  Requests,       \* the calls that may be made, see Request below
  AllowLists,     \* what FIDUCIA_K8S_CONTEXTS may say: None, or a set of names
  KubeConfigs,    \* the sets of contexts the kubeconfig may list
  MaxEdits,       \* bound: edits of the kubeconfig
  None            \* Option::None

DEFAULT_NAMESPACE == "fiducia"
Tools == {"contexts", "workloads", "rollout_status", "events", "service_endpoints"}
Request == [tool: Tools, context: Text, namespace: Text, kind: Text, name: Text]

ASSUME TextAssumption ==
  /\ Trim \in [Text -> Text] /\ Lower \in [Text -> Text]
  /\ FlagShaped \subseteq Text /\ DnsLabels \subseteq Text
  /\ {"", DEFAULT_NAMESPACE} \subseteq Text
ASSUME InputAssumption ==
  /\ Requests \subseteq Request /\ None \notin Requests
  /\ AllowLists \subseteq SUBSET Text \cup {None}
  /\ KubeConfigs \subseteq SUBSET Text
  /\ MaxEdits \in Nat

VARIABLES
  allow,     \* the allowlist; it never changes
  known,     \* the contexts the kubeconfig lists now
  request,   \* per call: its arguments, None before the call
  command,   \* per call: the kubectl command it started last
  child,     \* per call: what became of that process
  output,    \* per call: the contexts that `get-contexts` printed
  answer,    \* per call: what the tool returned
  up,        \* the server runs
  edits,     \* number of edits of the kubeconfig, bounded by MaxEdits
  seen       \* history: per call, the contexts listed at some instant of it

callVars == <<request, command, child, output, answer>>
vars == <<allow, known, callVars, up, edits, seen>>

Called(c) == request[c] # None
Running(c) == Called(c) /\ answer[c] = "none"

\* The commands that talk to a cluster, in the order a tool issues them.
Commands == {"get-contexts", "get workloads", "get pods", "rollout status",
             "get events", "get endpoints"}
OnCluster(cmd) == cmd \in Commands \ {"get-contexts"}

FirstCommand(tool) ==
  CASE tool = "workloads" -> "get workloads"
    [] tool = "rollout_status" -> "rollout status"
    [] tool = "events" -> "get events"
    [] tool = "service_endpoints" -> "get endpoints"

----------------------------------------------------------------------------
(***************************************************************************)
(* Validation.                                                             *)
(***************************************************************************)
namespace_or_default(ns) == IF Trim[ns] = "" THEN DEFAULT_NAMESPACE ELSE Trim[ns]

IsLabel(name) == Trim[name] \in DnsLabels

\* The resource names of a request; the context is checked apart from them.
NamesOk(r) ==
  /\ IsLabel(namespace_or_default(r.namespace))
  /\ r.tool \in {"rollout_status", "service_endpoints"} => IsLabel(r.name)
  /\ r.tool = "rollout_status" => Lower[Trim[r.kind]] \in {"deployment", "statefulset"}

Permitted(context) == allow = None \/ context \in allow

\* The part of validate_context before its await.
ContextOk(r) ==
  /\ Trim[r.context] # "" /\ Trim[r.context] \notin FlagShaped
  /\ Permitted(Trim[r.context])

Init ==
  /\ allow \in AllowLists /\ known \in KubeConfigs
  /\ request = [c \in Calls |-> None] /\ command = [c \in Calls |-> "none"]
  /\ child = [c \in Calls |-> "none"] /\ output = [c \in Calls |-> {}]
  /\ answer = [c \in Calls |-> "none"]
  /\ up = TRUE /\ edits = 0 /\ seen = [c \in Calls |-> {}]

----------------------------------------------------------------------------
(***************************************************************************)
(* The calls.                                                              *)
(***************************************************************************)
Return(c, a) ==
  /\ answer' = [answer EXCEPT ![c] = a]
  /\ UNCHANGED <<command, child>>

\* Command::output, which fails at once when there is no kubectl to run.
run_kubectl(c, cmd) ==
  \/ /\ command' = [command EXCEPT ![c] = cmd]
     /\ child' = [child EXCEPT ![c] = "running"]
     /\ UNCHANGED answer
  \/ Return(c, "no kubectl")

\* A handler up to its first await.  service_endpoints looks at the names
\* before the context, the others once the context has been found.
CallTool(c) ==
  /\ up /\ ~Called(c)
  /\ \E r \in Requests :
       /\ request' = [request EXCEPT ![c] = r]
       /\ \/ r.tool = "contexts" /\ run_kubectl(c, "get-contexts")
          \/ /\ r.tool = "service_endpoints" /\ ~NamesOk(r)
             /\ Return(c, "invalid name")
          \/ /\ r.tool # "contexts" /\ (r.tool = "service_endpoints" => NamesOk(r))
             /\ IF ContextOk(r) THEN run_kubectl(c, "get-contexts")
                ELSE Return(c, "invalid context")
  /\ seen' = [seen EXCEPT ![c] = known]
  /\ UNCHANGED <<allow, known, output, up, edits>>

Received(c, cmd) ==
  /\ Running(c) /\ command[c] = cmd /\ child[c] = "done"
  /\ UNCHANGED <<allow, known, request, output, up, edits, seen>>

\* Variant: a context is taken for known when it is permitted.
ContextsListed_AnyPermitted(c) ==
  /\ Received(c, "get-contexts")
  /\ \/ request[c].tool = "contexts" /\ Return(c, "answered")
     \/ /\ request[c].tool # "contexts"
        /\ IF NamesOk(request[c]) THEN run_kubectl(c, FirstCommand(request[c].tool))
           ELSE Return(c, "invalid name")

\* available_contexts returns, to `contexts` or to validate_context.
ContextsListed(c) ==
  /\ Received(c, "get-contexts")
  /\ LET r == request[c] IN
       \/ r.tool = "contexts" /\ Return(c, "answered")
       \/ /\ r.tool # "contexts" /\ Trim[r.context] \notin output[c]
          /\ Return(c, "unknown context")
       \/ /\ r.tool # "contexts" /\ Trim[r.context] \in output[c]
          /\ IF NamesOk(r) THEN run_kubectl(c, FirstCommand(r.tool))
             ELSE Return(c, "invalid name")

\* The last command of the tool returns; workloads has one more to issue.
CommandDone(c) ==
  \/ /\ Received(c, "get workloads")
     /\ run_kubectl(c, "get pods") \/ Return(c, "no json")
  \/ /\ \E cmd \in {"get pods", "rollout status", "get events", "get endpoints"} :
          Received(c, cmd)
     /\ \E a \in {"answered", "no json"} : Return(c, a)

\* A non-zero exit is an error, but for rollout_status a result like another.
CommandFailed(c) ==
  /\ Running(c) /\ child[c] = "failed"
  /\ Return(c, IF command[c] = "rollout status" THEN "answered" ELSE "kubectl failed")
  /\ UNCHANGED <<allow, known, request, output, up, edits, seen>>

\* Variant: the process is not killed when the call stops waiting for it.
Timeout_NoKill(c) ==
  /\ Running(c) /\ child[c] = "running"
  /\ Return(c, "timed out")
  /\ UNCHANGED <<allow, known, request, output, up, edits, seen>>

\* Variant: the process is killed, and the call goes on waiting for it.
Timeout_Waits(c) ==
  /\ Running(c) /\ child[c] = "running"
  /\ child' = [child EXCEPT ![c] = "killed"]
  /\ UNCHANGED <<allow, known, request, command, output, answer, up, edits, seen>>

\* Variant: no time limit on the list of contexts.
Timeout_CommandsOnly(c) ==
  /\ Running(c) /\ child[c] = "running" /\ command[c] # "get-contexts"
  /\ answer' = [answer EXCEPT ![c] = "timed out"]
  /\ child' = [child EXCEPT ![c] = "killed"]
  /\ UNCHANGED <<allow, known, request, command, output, up, edits, seen>>

\* 15 s are over; dropping the future kills the process.
Timeout(c) ==
  /\ Running(c) /\ child[c] = "running"
  /\ answer' = [answer EXCEPT ![c] = "timed out"]
  /\ child' = [child EXCEPT ![c] = "killed"]
  /\ UNCHANGED <<allow, known, request, command, output, up, edits, seen>>

\* run_stdio returns: the tasks are dropped, and with them their processes.
Shutdown ==
  /\ up /\ up' = FALSE
  /\ answer' = [c \in Calls |-> IF Running(c) THEN "cancelled" ELSE answer[c]]
  /\ child' = [c \in Calls |-> IF child[c] = "running" THEN "killed" ELSE child[c]]
  /\ UNCHANGED <<allow, known, request, command, output, edits, seen>>

----------------------------------------------------------------------------
(***************************************************************************)
(* kubectl and the kubeconfig.                                             *)
(***************************************************************************)
\* A process ends; what it prints is read from the kubeconfig at that instant,
\* and a command on a context that is not listed fails.
ChildEnds(c) ==
  /\ child[c] = "running"
  /\ \/ child' = [child EXCEPT ![c] = "failed"] /\ UNCHANGED output
     \/ /\ child' = [child EXCEPT ![c] = "done"]
        /\ OnCluster(command[c]) => Trim[request[c].context] \in known
        /\ output' = [output EXCEPT ![c] =
             IF command[c] = "get-contexts" THEN known ELSE @]
  /\ UNCHANGED <<allow, known, request, command, answer, up, edits, seen>>

EditKubeConfig ==
  /\ edits < MaxEdits /\ edits' = edits + 1
  /\ known' \in KubeConfigs \ {known}
  /\ seen' = [c \in Calls |-> IF Running(c) THEN seen[c] \cup known' ELSE seen[c]]
  /\ UNCHANGED <<allow, callVars, up>>

Terminated == (\A c \in Calls : ~Running(c) /\ (Called(c) \/ ~up)) /\ UNCHANGED vars

Resume(c) == ContextsListed(c) \/ CommandDone(c) \/ CommandFailed(c) \/ Timeout(c)

Next ==
  \/ \E c \in Calls : CallTool(c) \/ Resume(c) \/ ChildEnds(c)
  \/ EditKubeConfig \/ Shutdown \/ Terminated

Spec == Init /\ [][Next]_vars

\* The runtime polls its tasks, and the timer ends each wait for a process.
FairSpec == Spec /\ \A c \in Calls : WF_vars(Resume(c))

----------------------------------------------------------------------------
(***************************************************************************)
(* Properties.                                                             *)
(***************************************************************************)
Answers == {"none", "answered", "no kubectl", "invalid name", "invalid context",
            "unknown context", "no json", "kubectl failed", "timed out", "cancelled"}

Flags == up \in BOOLEAN

Shapes ==
  /\ allow \in AllowLists /\ known \in KubeConfigs
  /\ request \in [Calls -> Requests \cup {None}]
  /\ command \in [Calls -> Commands \cup {"none"}]
  /\ child \in [Calls -> {"none", "running", "done", "failed", "killed"}]
  /\ output \in [Calls -> SUBSET Text] /\ answer \in [Calls -> Answers]
  /\ edits \in 0..MaxEdits /\ seen \in [Calls -> SUBSET Text]
  /\ \A c \in Calls : Running(c) => child[c] \in {"running", "done", "failed"}

TypeOK == Flags /\ Shapes

(***************************************************************************)
(* The hard rules at the head of k8s.rs: no command reaches a cluster      *)
(* unless every check has passed before it was issued, whatever order the  *)
(* tool makes them in: the context is permitted and was listed by kubectl  *)
(* during this very call, and the names are labels.                        *)
(***************************************************************************)
ClusterOnlyAfterChecks ==
  \A c \in Calls : OnCluster(command[c]) =>
    LET r == request[c] IN
      /\ Trim[r.context] \in seen[c] /\ Trim[r.context] \notin FlagShaped
      /\ Permitted(Trim[r.context])
      /\ Trim[namespace_or_default(r.namespace)] \in DnsLabels
      /\ r.tool \in {"rollout_status", "service_endpoints"} => Trim[r.name] \in DnsLabels
      /\ r.tool = "rollout_status" => Lower[Trim[r.kind]] \in {"deployment", "statefulset"}

(***************************************************************************)
(* No kubectl process is left behind by a call that timed out, failed or   *)
(* was cancelled, nor by a server that stops.                              *)
(***************************************************************************)
NoOrphans == \A c \in Calls : child[c] = "running" => up /\ Running(c)

(***************************************************************************)
(* Every call returns, however long kubectl hangs.                         *)
(***************************************************************************)
EveryCallIsAnswered == \A c \in Calls : Called(c) ~> ~Running(c)
=============================================================================
