--------------------------- MODULE KubectlProofs ---------------------------
(***************************************************************************)
(* For any number of calls, any allowlist and any sequence of edits of the *)
(* kubeconfig: no kubectl command reaches a cluster before its checks have *)
(* passed, and no kubectl process outlives its call.                       *)
(***************************************************************************)
EXTENDS Kubectl, TLAPS

\* What has been checked before the contexts are listed.
CheckedFirst(r) == ContextOk(r) /\ (r.tool = "service_endpoints" => NamesOk(r))

Uncalled(c) == ~Called(c) =>
  /\ command[c] = "none" /\ child[c] = "none" /\ output[c] = {} /\ answer[c] = "none"

\* A list of contexts that kubectl printed is one the kubeconfig had meanwhile.
Listed(c) ==
  /\ Running(c) => known \subseteq seen[c]
  /\ output[c] \subseteq seen[c]

Checked(c) ==
  /\ command[c] = "get-contexts" /\ request[c].tool # "contexts" =>
       CheckedFirst(request[c])
  /\ OnCluster(command[c]) =>
       /\ ContextOk(request[c]) /\ NamesOk(request[c])
       /\ Trim[request[c].context] \in seen[c]

Owned(c) == child[c] = "running" => Running(c)

CallInv(c) == Uncalled(c) /\ Listed(c) /\ Checked(c) /\ Owned(c)

\* No call runs once the server has stopped.
Stopped == ~up => \A c \in Calls : ~Running(c)

IInv == TypeOK /\ Stopped /\ \A c \in Calls : CallInv(c)

LEMMA InitIInv == Init => IInv
<1> SUFFICES ASSUME Init PROVE IInv
  OBVIOUS
<1>1. Flags
  BY DEF Init, Flags
<1>2. Shapes
  BY InputAssumption DEF Init, Shapes, Running, Called, Answers
<1>3. Stopped
  BY DEF Init, Stopped
<1>4. ASSUME NEW c \in Calls PROVE CallInv(c)
  BY DEF Init, CallInv, Uncalled, Listed, Checked, Owned, Running, Called, OnCluster, Commands
<1> QED
  BY <1>1, <1>2, <1>3, <1>4 DEF IInv, TypeOK

LEMMA NamesTyped ==
  ASSUME NEW r \in Requests, r.tool # "contexts"
  PROVE  FirstCommand(r.tool) \in Commands \ {"get-contexts"}
BY InputAssumption DEF FirstCommand, Commands, Request, Tools

\* A step of call c that starts a command or returns, and touches nothing else.
Stepped(c) ==
  /\ request[c] \in Requests
  /\ UNCHANGED <<allow, known, request, output, up, edits, seen>>
  /\ \/ \E a \in Answers \ {"none"} : Return(c, a)
     \/ \E cmd \in Commands \ {"get-contexts"} :
          /\ run_kubectl(c, cmd)
          /\ ContextOk(request[c]) /\ NamesOk(request[c])
          /\ Trim[request[c].context] \in seen[c]

LEMMA SteppedPreserves ==
  ASSUME IInv, NEW c \in Calls, Running(c), child[c] # "running", Stepped(c)
  PROVE  IInv'
<1>1. CASE \E a \in Answers \ {"none"} : Return(c, a)
  <2>1. PICK a \in Answers \ {"none"} :
          answer' = [answer EXCEPT ![c] = a] /\ UNCHANGED <<command, child>>
    BY <1>1 DEF Return
  <2>2. Flags' /\ Stopped'
    <3>1. Flags'
      BY DEF Stepped, IInv, TypeOK, Flags
    <3>2. \A d \in Calls : Running(d)' => Running(d)
      BY <2>1 DEF Stepped, Running, Called, IInv, TypeOK, Shapes
    <3> QED
      BY <3>1, <3>2 DEF Stepped, Stopped, IInv
  <2>3. Shapes'
    BY <2>1 DEF Stepped, IInv, TypeOK, Shapes, Running, Called
  <2>4. ASSUME NEW d \in Calls PROVE CallInv(d)'
    BY <2>1, <2>4 DEF Stepped, IInv, TypeOK, Shapes, CallInv, Uncalled, Listed, Checked,
       Owned, Running, Called, CheckedFirst, ContextOk, NamesOk, Permitted, IsLabel,
       namespace_or_default, OnCluster
  <2> QED
    BY <2>2, <2>3, <2>4 DEF IInv, TypeOK
<1>2. CASE \E cmd \in Commands \ {"get-contexts"} :
             /\ command' = [command EXCEPT ![c] = cmd]
             /\ child' = [child EXCEPT ![c] = "running"]
             /\ UNCHANGED answer
             /\ ContextOk(request[c]) /\ NamesOk(request[c])
             /\ Trim[request[c].context] \in seen[c]
  <2>1. PICK cmd \in Commands \ {"get-contexts"} :
             /\ command' = [command EXCEPT ![c] = cmd]
             /\ child' = [child EXCEPT ![c] = "running"]
             /\ UNCHANGED answer
             /\ ContextOk(request[c]) /\ NamesOk(request[c])
             /\ Trim[request[c].context] \in seen[c]
    BY <1>2
  <2>2. Flags' /\ Stopped'
    <3>1. Flags'
      BY DEF Stepped, IInv, TypeOK, Flags
    <3>2. \A d \in Calls : Running(d)' => Running(d)
      BY <2>1 DEF Stepped, Running, Called
    <3> QED
      BY <3>1, <3>2 DEF Stepped, Stopped, IInv
  <2>3. Shapes'
    BY <2>1 DEF Stepped, IInv, TypeOK, Shapes, Running, Called
  <2>4. ASSUME NEW d \in Calls PROVE CallInv(d)'
    BY <2>1, <2>4 DEF Stepped, IInv, TypeOK, Shapes, CallInv, Uncalled, Listed, Checked,
       Owned, Running, Called, CheckedFirst, ContextOk, NamesOk, Permitted, IsLabel,
       namespace_or_default, OnCluster
  <2> QED
    BY <2>2, <2>3, <2>4 DEF IInv, TypeOK
<1> QED
  BY <1>1, <1>2 DEF Stepped, run_kubectl, Answers

\* The three ways a call goes on when a command has ended.
LEMMA ResumePreserves ==
  ASSUME IInv, NEW c \in Calls, ContextsListed(c) \/ CommandDone(c) \/ CommandFailed(c)
  PROVE  IInv'
<1>1. Running(c) /\ request[c] \in Requests /\ Checked(c) /\ Listed(c)
  BY DEF ContextsListed, CommandDone, CommandFailed, Received, Running, Called,
     IInv, TypeOK, Shapes, CallInv
<1>2. CASE ContextsListed(c)
  <2>1. command[c] = "get-contexts" /\ child[c] = "done"
        /\ UNCHANGED <<allow, known, request, output, up, edits, seen>>
    BY <1>2 DEF ContextsListed, Received
  <2>2. ASSUME request[c].tool # "contexts", Trim[request[c].context] \in output[c],
               NamesOk(request[c])
        PROVE  /\ FirstCommand(request[c].tool) \in Commands \ {"get-contexts"}
               /\ ContextOk(request[c]) /\ Trim[request[c].context] \in seen[c]
    BY <1>1, <2>1, <2>2, NamesTyped DEF Checked, CheckedFirst, Listed
  <2>3. Stepped(c)
    BY <1>1, <1>2, <2>1, <2>2 DEF ContextsListed, Stepped, Answers
  <2> QED
    BY <1>1, <2>1, <2>3, SteppedPreserves
<1>3. CASE CommandDone(c)
  <2>1. /\ command[c] \in Commands \ {"get-contexts"} /\ child[c] = "done"
        /\ UNCHANGED <<allow, known, request, output, up, edits, seen>>
    BY <1>3 DEF CommandDone, Received, Commands
  <2>2. ContextOk(request[c]) /\ NamesOk(request[c]) /\ Trim[request[c].context] \in seen[c]
    BY <1>1, <2>1 DEF Checked, OnCluster
  <2>3. Stepped(c)
    BY <1>1, <1>3, <2>1, <2>2 DEF CommandDone, Stepped, Answers, Commands
  <2> QED
    BY <1>1, <2>1, <2>3, SteppedPreserves
<1>4. CASE CommandFailed(c)
  <2>1. child[c] = "failed" /\ Stepped(c)
    BY <1>1, <1>4 DEF CommandFailed, Stepped, Answers
  <2> QED
    BY <1>1, <2>1, SteppedPreserves
<1> QED
  BY <1>2, <1>3, <1>4

LEMMA Untouched ==
  ASSUME IInv, NEW d \in Calls, UNCHANGED <<allow, known>>,
         request'[d] = request[d], command'[d] = command[d], child'[d] = child[d],
         output'[d] = output[d], answer'[d] = answer[d], seen'[d] = seen[d]
  PROVE  CallInv(d)'
<1>1. Uncalled(d) /\ Listed(d) /\ Checked(d) /\ Owned(d)
  BY DEF IInv, CallInv
<1>2. Uncalled(d)' /\ Listed(d)' /\ Owned(d)'
  BY <1>1 DEF Uncalled, Listed, Owned, Running, Called
<1>3. /\ ContextOk(request[d])' <=> ContextOk(request[d])
      /\ NamesOk(request[d])' <=> NamesOk(request[d])
  BY DEF ContextOk, Permitted, NamesOk, IsLabel, namespace_or_default
<1>4. Checked(d)'
  BY <1>1, <1>3 DEF Checked, CheckedFirst, OnCluster, Commands
<1> QED
  BY <1>2, <1>4 DEF CallInv

LEMMA CallToolPreserves ==
  ASSUME IInv, NEW c \in Calls, CallTool(c)
  PROVE  IInv'
<1>1. PICK r \in Requests :
        /\ request' = [request EXCEPT ![c] = r]
        /\ \/ \E a \in Answers \ {"none"} : Return(c, a)
           \/ run_kubectl(c, "get-contexts") /\ (r.tool # "contexts" => CheckedFirst(r))
  BY DEF CallTool, CheckedFirst, Answers
<1>2. /\ up /\ ~Called(c) /\ seen' = [seen EXCEPT ![c] = known]
      /\ UNCHANGED <<allow, known, output, up, edits>>
  BY DEF CallTool
<1>3. /\ command[c] = "none" /\ child[c] = "none" /\ output[c] = {} /\ answer[c] = "none"
      /\ r # None
  BY <1>1, <1>2, InputAssumption DEF IInv, CallInv, Uncalled
<1>4. \/ \E a \in Answers \ {"none"} :
           answer' = [answer EXCEPT ![c] = a] /\ UNCHANGED <<command, child>>
      \/ /\ r.tool # "contexts" => CheckedFirst(r)
         /\ command' = [command EXCEPT ![c] = "get-contexts"]
         /\ child' = [child EXCEPT ![c] = "running"] /\ UNCHANGED answer
  BY <1>1 DEF Return, run_kubectl, Answers
<1>5. Flags' /\ Stopped'
  BY <1>2 DEF IInv, TypeOK, Flags, Stopped
<1>6. known \in SUBSET Text
  BY InputAssumption DEF IInv, TypeOK, Shapes
<1>7. Shapes'
  BY <1>1, <1>2, <1>3, <1>4, <1>6 DEF IInv, TypeOK, Shapes, Running, Called, Commands
<1>8. ASSUME NEW d \in Calls PROVE CallInv(d)'
  <2>1. CASE d = c
    <3>1. /\ request'[c] = r /\ output'[c] = {} /\ seen'[c] = known /\ known' = known
          /\ CheckedFirst(r)' = CheckedFirst(r)
      BY <1>1, <1>2, <1>3 DEF IInv, TypeOK, Shapes, CheckedFirst, ContextOk, NamesOk,
         Permitted, IsLabel, namespace_or_default
    <3>2. Uncalled(c)' /\ Listed(c)'
      BY <1>3, <3>1 DEF Uncalled, Listed, Called
    <3>3. Checked(c)' /\ Owned(c)'
      <4>1. CASE \E a \in Answers \ {"none"} :
                   answer' = [answer EXCEPT ![c] = a] /\ UNCHANGED <<command, child>>
        BY <1>3, <4>1 DEF Checked, Owned, OnCluster, Commands
      <4>2. CASE /\ r.tool # "contexts" => CheckedFirst(r)
                 /\ command' = [command EXCEPT ![c] = "get-contexts"]
                 /\ child' = [child EXCEPT ![c] = "running"] /\ UNCHANGED answer
        <5>1. command'[c] = "get-contexts" /\ answer'[c] = "none"
          BY <1>3, <4>2 DEF IInv, TypeOK, Shapes
        <5> QED
          BY <1>3, <3>1, <4>2, <5>1 DEF Checked, Owned, OnCluster, Commands, Running, Called
      <4> QED
        BY <1>4, <4>1, <4>2
    <3> QED
      BY <2>1, <3>2, <3>3 DEF CallInv
  <2>2. CASE d # c
    BY <1>1, <1>2, <1>4, <2>2, Untouched DEF IInv, TypeOK, Shapes
  <2> QED
    BY <2>1, <2>2
<1> QED
  BY <1>5, <1>7, <1>8 DEF IInv, TypeOK

LEMMA TimeoutPreserves ==
  ASSUME IInv, NEW c \in Calls, Timeout(c)
  PROVE  IInv'
<1>1. Flags' /\ Stopped'
  <2>1. Flags'
    BY DEF Timeout, IInv, TypeOK, Flags
  <2>2. \A d \in Calls : Running(d)' => Running(d)
    BY DEF Timeout, Running, Called, IInv, TypeOK, Shapes
  <2> QED
    BY <2>1, <2>2 DEF Timeout, Stopped, IInv
<1>2. Shapes'
  BY DEF Timeout, IInv, TypeOK, Shapes, Running, Called, Answers
<1>3. ASSUME NEW d \in Calls PROVE CallInv(d)'
  BY DEF Timeout, IInv, TypeOK, Shapes, CallInv, Uncalled, Listed, Checked, Owned, Running,
     Called, CheckedFirst, ContextOk, NamesOk, Permitted, IsLabel, namespace_or_default,
     OnCluster
<1> QED
  BY <1>1, <1>2, <1>3 DEF IInv, TypeOK

LEMMA ShutdownPreserves ==
  ASSUME IInv, Shutdown
  PROVE  IInv'
<1>1. \A d \in Calls : ~Running(d)'
  BY DEF Shutdown, Running, Called, IInv, TypeOK, Shapes
<1>2. Flags' /\ Stopped'
  BY <1>1 DEF Shutdown, Flags, Stopped
<1>3. Shapes'
  BY <1>1 DEF Shutdown, IInv, TypeOK, Shapes, Answers
<1>4. ASSUME NEW d \in Calls PROVE CallInv(d)'
  BY <1>1, <1>4 DEF Shutdown, IInv, TypeOK, Shapes, CallInv, Uncalled, Listed, Checked, Owned,
     Running, Called, CheckedFirst, ContextOk, NamesOk, Permitted, IsLabel,
     namespace_or_default, OnCluster
<1> QED
  BY <1>2, <1>3, <1>4 DEF IInv, TypeOK

LEMMA ChildEndsPreserves ==
  ASSUME IInv, NEW c \in Calls, ChildEnds(c)
  PROVE  IInv'
<1>1. Running(c) /\ known \subseteq seen[c] /\ output[c] \subseteq seen[c] /\ known \in SUBSET Text
  BY InputAssumption DEF ChildEnds, IInv, TypeOK, Shapes, CallInv, Owned, Listed
<1>2. /\ UNCHANGED <<allow, known, request, command, answer, up, edits, seen>>
      /\ \E s \in {"failed", "done"} : child' = [child EXCEPT ![c] = s]
      /\ \E o \in {output[c], known} : output' = [output EXCEPT ![c] = o]
  <2>1. output = [output EXCEPT ![c] = output[c]]
    BY DEF IInv, TypeOK, Shapes
  <2>2. CASE command[c] = "get-contexts"
    BY <2>1, <2>2 DEF ChildEnds
  <2>3. CASE command[c] # "get-contexts"
    BY <2>1, <2>3 DEF ChildEnds
  <2> QED
    BY <2>2, <2>3
<1>3. Flags' /\ Stopped'
  BY <1>2 DEF IInv, TypeOK, Flags, Stopped, Running, Called
<1>4. Shapes'
  BY <1>1, <1>2 DEF IInv, TypeOK, Shapes, Running, Called
<1>5. ASSUME NEW d \in Calls PROVE CallInv(d)'
  <2>1. CASE d # c
    BY <1>2, <2>1, Untouched DEF IInv, TypeOK, Shapes
  <2>2. CASE d = c
    <3>1. child'[c] # "running" /\ output'[c] \subseteq seen[c]
      BY <1>1, <1>2 DEF IInv, TypeOK, Shapes
    <3>2. Uncalled(c) /\ Listed(c) /\ Checked(c) /\ Called(c)
      BY <1>1 DEF IInv, CallInv, Running
    <3>3. Uncalled(c)' /\ Listed(c)' /\ Owned(c)'
      BY <1>2, <3>1, <3>2 DEF Uncalled, Listed, Owned, Running, Called
    <3>4. /\ ContextOk(request[c])' <=> ContextOk(request[c])
          /\ NamesOk(request[c])' <=> NamesOk(request[c])
      BY <1>2 DEF ContextOk, Permitted, NamesOk, IsLabel, namespace_or_default
    <3>5. Checked(c)'
      BY <1>2, <3>2, <3>4 DEF Checked, CheckedFirst, OnCluster, Commands
    <3> QED
      BY <2>2, <3>3, <3>5 DEF CallInv
  <2> QED
    BY <2>1, <2>2
<1> QED
  BY <1>3, <1>4, <1>5 DEF IInv, TypeOK

LEMMA EditPreserves ==
  ASSUME IInv, EditKubeConfig
  PROVE  IInv'
<1>1. /\ UNCHANGED <<allow, request, command, child, output, answer, up>>
      /\ known' \in KubeConfigs /\ known' \in SUBSET Text
      /\ edits' = edits + 1 /\ edits < MaxEdits
      /\ seen' = [d \in Calls |-> IF Running(d) THEN seen[d] \cup known' ELSE seen[d]]
  BY InputAssumption DEF EditKubeConfig, callVars
<1>2. Flags' /\ Stopped'
  BY <1>1 DEF IInv, TypeOK, Flags, Stopped, Running, Called
<1>3. Shapes'
  BY <1>1, InputAssumption DEF IInv, TypeOK, Shapes, Running, Called
<1>4. ASSUME NEW d \in Calls PROVE CallInv(d)'
  BY <1>1, <1>4 DEF IInv, TypeOK, Shapes, CallInv, Uncalled, Listed, Checked, Owned,
     Running, Called, CheckedFirst, ContextOk, NamesOk, Permitted, IsLabel,
     namespace_or_default, OnCluster
<1> QED
  BY <1>2, <1>3, <1>4 DEF IInv, TypeOK

LEMMA StutterPreserves ==
  ASSUME IInv, UNCHANGED vars
  PROVE  IInv'
<1>1. UNCHANGED <<allow, known, request, command, child, output, answer, up, edits, seen>>
  BY DEF vars, callVars
<1>2. Flags' /\ Stopped'
  BY <1>1 DEF IInv, TypeOK, Flags, Stopped, Running, Called
<1>3. Shapes'
  BY <1>1 DEF IInv, TypeOK, Shapes, Running, Called
<1>4. ASSUME NEW d \in Calls PROVE CallInv(d)'
  BY <1>1, <1>4 DEF IInv, CallInv, Uncalled, Listed, Checked, Owned, Running, Called,
     CheckedFirst, ContextOk, NamesOk, Permitted, IsLabel, namespace_or_default, OnCluster
<1> QED
  BY <1>2, <1>3, <1>4 DEF IInv, TypeOK

(***************************************************************************)
(* The strengthened invariant holds in every reachable state.              *)
(***************************************************************************)
THEOREM SpecIInv == Spec => []IInv
<1>1. IInv /\ [Next]_vars => IInv'
  <2> SUFFICES ASSUME IInv, [Next]_vars PROVE IInv'
    OBVIOUS
  <2>1. ASSUME NEW c \in Calls, CallTool(c) PROVE IInv'
    BY <2>1, CallToolPreserves
  <2>2. ASSUME NEW c \in Calls, Resume(c) PROVE IInv'
    BY <2>2, ResumePreserves, TimeoutPreserves DEF Resume
  <2>3. ASSUME NEW c \in Calls, ChildEnds(c) PROVE IInv'
    BY <2>3, ChildEndsPreserves
  <2>4. CASE EditKubeConfig
    BY <2>4, EditPreserves
  <2>5. CASE Shutdown
    BY <2>5, ShutdownPreserves
  <2>6. CASE UNCHANGED vars
    BY <2>6, StutterPreserves
  <2> QED
    BY <2>1, <2>2, <2>3, <2>4, <2>5, <2>6 DEF Next, Terminated
<1> QED
  BY <1>1, InitIInv, PTL DEF Spec

----------------------------------------------------------------------------
(***************************************************************************)
(* Type correctness of the k8s tools.                                      *)
(***************************************************************************)
THEOREM TypeCorrect == Spec => []TypeOK
BY SpecIInv, PTL DEF IInv

(***************************************************************************)
(* Whatever a caller asks and however the kubeconfig changes, no command   *)
(* is issued on a cluster before every check of k8s.rs has passed.         *)
(***************************************************************************)
THEOREM ClusterAfterChecks == Spec => []ClusterOnlyAfterChecks
<1>1. IInv => ClusterOnlyAfterChecks
  BY DEF IInv, CallInv, Checked, ClusterOnlyAfterChecks, ContextOk, NamesOk, IsLabel
<1> QED
  BY <1>1, SpecIInv, PTL

(***************************************************************************)
(* A kubectl process runs only for a call that waits for it, on a server   *)
(* that is up: none survives a timeout, an error or the server.            *)
(***************************************************************************)
THEOREM NothingLeftBehind == Spec => []NoOrphans
<1>1. IInv => NoOrphans
  BY DEF IInv, CallInv, Owned, Stopped, NoOrphans
<1> QED
  BY <1>1, SpecIInv, PTL
=============================================================================
