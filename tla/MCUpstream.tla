----------------------------- MODULE MCUpstream -----------------------------
(***************************************************************************)
(* Environments: every choice of set, blank, padded and missing variables  *)
(* that matters, with a usable and an unusable node URL.                   *)
(***************************************************************************)
EXTENDS Upstream

MCText == {"", " ", " key ", "key", "secret", "own", "org", "http://localhost:8090",
           "http://localhost:8095", "http://agent", "ftp://node"}
MCTrim == [s \in MCText |-> CASE s = " " -> "" [] s = " key " -> "key" [] OTHER -> s]
MCUsableUrls == {"http://localhost:8090", "http://localhost:8095", "http://agent"}

Choices == [
  FIDUCIA_NODE_URL |-> {None, "ftp://node"},
  FIDUCIA_BRAIN_URL |-> {None, "ftp://node"},
  FIDUCIA_AGENT_CONTROL_PLANE_URL |-> {None, "http://agent"},
  FIDUCIA_INTERNAL_SECRET |-> {None, "secret"},
  FIDUCIA_ORG_ID |-> {" ", "org"},
  FIDUCIA_CONTROL_PLANE_SECRET |-> {"", "own"},
  FIDUCIA_API_KEY |-> {None, " ", " key "}]

AllEnvs ==
  {[v \in EnvVars |->
      CASE v = "FIDUCIA_NODE_URL" -> n [] v = "FIDUCIA_BRAIN_URL" -> b
        [] v = "FIDUCIA_AGENT_CONTROL_PLANE_URL" -> a
        [] v = "FIDUCIA_INTERNAL_SECRET" -> s [] v = "FIDUCIA_ORG_ID" -> o
        [] v = "FIDUCIA_CONTROL_PLANE_SECRET" -> p [] OTHER -> k] :
   n \in Choices.FIDUCIA_NODE_URL, b \in Choices.FIDUCIA_BRAIN_URL,
   a \in Choices.FIDUCIA_AGENT_CONTROL_PLANE_URL, s \in Choices.FIDUCIA_INTERNAL_SECRET,
   o \in Choices.FIDUCIA_ORG_ID, p \in Choices.FIDUCIA_CONTROL_PLANE_SECRET,
   k \in Choices.FIDUCIA_API_KEY}

MCTools == {"cluster_status", "kv_get", "lock_get", "file_lease", "repo_map"}
=============================================================================
