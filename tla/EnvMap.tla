------------------------------- MODULE EnvMap -------------------------------
(***************************************************************************)
(* src/src/env_map.rs: environments as values.  A variable is set when its *)
(* name is in the domain, also when it is empty or blank.                  *)
(***************************************************************************)
EXTENDS Integers

CONSTANTS
  Names,  \* names of variables
  Text,   \* their values
  Trim,   \* str::trim
  None    \* Option::None

ASSUME TextAssumption ==
  /\ Trim \in [Text -> Text] /\ None \notin Text
  /\ \A t \in Text : Trim[Trim[t]] = Trim[t]

IsEnvironment(env) == DOMAIN env \subseteq Names /\ env \in [DOMAIN env -> Text]

get_env_map(initial, overrides) ==
  [n \in DOMAIN initial \cup DOMAIN overrides |->
     IF n \in DOMAIN overrides THEN overrides[n] ELSE initial[n]]

\* Trimmed, and None when nothing is left.
env_value(env, key) ==
  IF key \in DOMAIN env /\ Trim[env[key]] # "" THEN Trim[env[key]] ELSE None
=============================================================================
