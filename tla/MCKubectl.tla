----------------------------- MODULE MCKubectl -----------------------------
(***************************************************************************)
(* Two calls of every tool, with each kind of argument that a check        *)
(* refuses, on a kubeconfig that may be edited.                          *)
(***************************************************************************)
EXTENDS Kubectl

MCText == {"", " ", "fiducia", "prod", " prod", "dev", "--server=x", "Bad_Name",
           "api", " api", "Deployment", "deployment", "job"}
MCTrim == [s \in MCText |->
  CASE s = " " -> "" [] s = " prod" -> "prod" [] s = " api" -> "api" [] OTHER -> s]
MCLower == [s \in MCText |-> IF s = "Deployment" THEN "deployment" ELSE s]
MCFlagShaped == {"--server=x"}
MCDnsLabels == {"fiducia", "prod", "dev", "api", "deployment", "job"}

Ask(tool, context, namespace, kind, name) ==
  [tool |-> tool, context |-> context, namespace |-> namespace, kind |-> kind, name |-> name]

MCRequests ==
  {Ask("contexts", "", "", "", ""),
   Ask("workloads", " prod", " ", "", ""), Ask("workloads", "dev", "Bad_Name", "", ""),
   Ask("rollout_status", "prod", "", "Deployment", " api"),
   Ask("rollout_status", "prod", "", "job", "api"),
   Ask("rollout_status", "prod", "", "deployment", "--server=x"),
   Ask("events", "--server=x", "", "", ""), Ask("events", "dev", "api", "", ""),
   Ask("service_endpoints", "prod", "", "", "api"),
   Ask("service_endpoints", "prod", "", "", "Bad_Name")}

MCAllowLists == {None, {}, {"prod"}}
MCKubeConfigs == {{"prod", "--server=x"}, {"dev"}}
=============================================================================
