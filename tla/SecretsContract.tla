-------------------------- MODULE SecretsContract --------------------------
(***************************************************************************)
(* What a deployment may rely on of the image's entrypoint: the command    *)
(* runs once, in one environment; the secrets are in it all together or    *)
(* not at all, and never in the place of a variable that was there.        *)
(***************************************************************************)
VARIABLES
  given,     \* the environment of the container
  found,     \* "secrets", "unusable" ones, or "nothing", also without a key
  secrets,   \* the variables of the ciphertext, if it holds secrets
  required,  \* whether the deployment insists on them
  status,    \* "starting", "running" or "failed"
  environ    \* the environment the command runs in

vars == <<given, found, secrets, required, status, environ>>

\* An inherited variable, also an empty one, wins.
Merged ==
  [n \in DOMAIN given \cup DOMAIN secrets |->
     IF n \in DOMAIN given THEN given[n] ELSE secrets[n]]

Init == status = "starting" /\ environ = given

RunWithSecrets ==
  /\ status = "starting" /\ found = "secrets"
  /\ status' = "running" /\ environ' = Merged
  /\ UNCHANGED <<given, found, secrets, required>>

RunWithout ==
  /\ status = "starting" /\ found = "nothing" /\ ~required
  /\ status' = "running"
  /\ UNCHANGED <<given, found, secrets, required, environ>>

Fail ==
  /\ status = "starting" /\ status' = "failed"
  /\ UNCHANGED <<given, found, secrets, required, environ>>

Next == RunWithSecrets \/ RunWithout \/ Fail
Spec == Init /\ [][Next]_vars
=============================================================================
