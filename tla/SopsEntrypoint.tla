--------------------------- MODULE SopsEntrypoint ---------------------------
(***************************************************************************)
(* scripts/sops-entrypoint.sh, which loads decrypted secrets into the      *)
(* environment and then becomes the server.  It reads the records twice:   *)
(* first every one is validated and looked up in the environment by an     *)
(* external printenv, then those that were not there are exported.  A      *)
(* variable is set when its name is in the domain of the environment.      *)
(***************************************************************************)
EXTENDS EnvMap, Sequences

CONSTANTS
  BadNames,      \* what a record may have for a name but the shell refuses
  Reserved,      \* the names that begin with _ORES_SOPS_
  Private,       \* those of them that the loader uses
  Steering,      \* variables that change what an external helper does
  Environments,  \* the environments the container may start with
  Setups         \* what the script finds, see Setup below

Record == [form: {"skipped", "pair", "malformed"}, key: Names \cup BadNames, value: Text]
Setup == [command: BOOLEAN, file: {"regular", "missing", "other"},
          helpers: BOOLEAN, plaintext: Seq(Record) \cup {None}]

DEFAULT_SECRETS_FILE == "/app/secrets/app.env"

ASSUME EntryAssumption ==
  /\ Private \subseteq Reserved /\ Reserved \subseteq Names /\ BadNames \cap Names = {}
  /\ \A s \in Setups : s \in Setup
  /\ \A e \in Environments : IsEnvironment(e)
  /\ None \notin Seq(Record) /\ DEFAULT_SECRETS_FILE \in Text

VARIABLES
  given,    \* the environment of the container
  setup,    \* what the script finds; it never changes
  phase,    \* "start", "validate", "apply", "exec" or "stopped"
  at,       \* the record that is read next
  seen,     \* the names read so far
  import,   \* those of them that were not in the environment
  environ,  \* the script's environment, and the command's after exec
  code      \* the exit status of a script that stops

entryVars == <<given, setup, phase, at, seen, import, environ, code>>

Unset(env, name) == name \notin DOMAIN env \/ env[name] = ""
Export(env, k, v) == get_env_map(env, [n \in {k} |-> v])

\* The inherited environment without the loader's variables; := gives the path
\* of the ciphertext a value, which is passed on if the variable was exported.
Inherited ==
  [n \in DOMAIN given \ Private |->
     IF n = "SOPS_SECRETS_FILE" /\ given[n] = "" THEN DEFAULT_SECRETS_FILE ELSE given[n]]

Require == IF Unset(given, "SOPS_REQUIRE_KEY") THEN "0" ELSE given["SOPS_REQUIRE_KEY"]
HasIdentity == ~Unset(given, "SOPS_AGE_KEY") \/ ~Unset(given, "SOPS_AGE_KEY_FILE")

EntryInit ==
  /\ given \in Environments /\ setup \in Setups
  /\ phase = "start" /\ at = 1 /\ seen = {} /\ import = {} /\ environ = given /\ code = 0

Stop(status) == phase' = "stopped" /\ code' = status /\ UNCHANGED <<at, seen, import>>
Exec == phase' = "exec" /\ UNCHANGED <<at, seen, import, code>>

\* What the script does before it has a plaintext; the checks in their order.
Prepare ==
  /\ phase = "start"
  /\ environ' = Inherited
  /\ IF ~setup.command \/ Require \notin {"0", "1"} THEN Stop(64)
     ELSE IF setup.file # "regular"
     THEN IF Require = "1" \/ setup.file = "other" THEN Stop(1) ELSE Exec
     ELSE IF ~HasIdentity THEN IF Require = "1" THEN Stop(1) ELSE Exec
     ELSE IF ~setup.helpers \/ setup.plaintext = None THEN Stop(1)
     ELSE phase' = "validate" /\ UNCHANGED <<at, seen, import, code>>
  /\ UNCHANGED <<given, setup>>

Here == setup.plaintext[at]
\* Variant: only the reserved names are refused.
NameOk_NotReserved(k) == k \notin Reserved

\* A name for the shell, and not one of the loader's.
NameOk(k) == k \in Names \ Reserved

Skip == Here.form = "skipped" /\ at' = at + 1 /\ UNCHANGED <<phase, seen, import, environ, code>>

\* printenv answers 0 or 1, or cannot be run; no answer can be trusted once a
\* variable that steers it has been exported.
printenv(k) ==
  IF \E n \in Steering : n \in DOMAIN environ \ DOMAIN Inherited THEN {0, 1, 2}
  ELSE IF k \in DOMAIN environ THEN {0, 2} ELSE {1, 2}

\* Variant: one pass, which exports as it goes.
Import_AtOnce(k, v) == environ' = Export(environ, k, v) /\ UNCHANGED import

\* The first pass only takes down what to export.
Import(k, v) == import' = import \cup {k} /\ UNCHANGED environ

\* The first pass, one record.
Validate ==
  /\ phase = "validate"
  /\ \/ /\ at > Len(setup.plaintext)
        /\ phase' = "apply" /\ at' = 1 /\ UNCHANGED <<seen, import, environ, code>>
     \/ at <= Len(setup.plaintext) /\ Skip
     \/ /\ at <= Len(setup.plaintext) /\ Here.form # "skipped"
        /\ Here.form = "malformed" \/ ~NameOk(Here.key) \/ Here.key \in seen
        /\ Stop(1) /\ UNCHANGED environ
     \/ /\ at <= Len(setup.plaintext) /\ Here.form = "pair"
        /\ NameOk(Here.key) /\ Here.key \notin seen
        /\ \E answer \in printenv(Here.key) :
             \/ answer = 2 /\ Stop(1) /\ UNCHANGED environ
             \/ /\ answer # 2
                /\ at' = at + 1 /\ seen' = seen \cup {Here.key}
                /\ IF answer = 1 THEN Import(Here.key, Here.value)
                   ELSE UNCHANGED <<import, environ>>
                /\ UNCHANGED <<phase, code>>
  /\ UNCHANGED <<given, setup>>

\* The second pass, one record; what the first one refused does not come here.
Apply ==
  /\ phase = "apply"
  /\ \/ at > Len(setup.plaintext) /\ Exec /\ UNCHANGED environ
     \/ at <= Len(setup.plaintext) /\ Skip
     \/ /\ at <= Len(setup.plaintext) /\ Here.form # "skipped"
        /\ at' = at + 1
        /\ environ' = IF Here.key \in import THEN Export(environ, Here.key, Here.value)
                      ELSE environ
        /\ UNCHANGED <<phase, seen, import, code>>
  /\ UNCHANGED <<given, setup>>

EntryNext == Prepare \/ Validate \/ Apply
EntrySpec == EntryInit /\ [][EntryNext]_entryVars

----------------------------------------------------------------------------
EntryTypeOK ==
  /\ given \in Environments /\ setup \in Setups
  /\ phase \in {"start", "validate", "apply", "exec", "stopped"}
  /\ at \in Nat \ {0} /\ seen \subseteq Names /\ import \subseteq seen
  /\ IsEnvironment(environ) /\ code \in {0, 1, 64}

\* What the ciphertext holds, as a whole: each record is skipped or a pair with
\* a name of its own.
Pairs == {i \in DOMAIN setup.plaintext : setup.plaintext[i].form = "pair"}
Usable ==
  /\ setup.command /\ setup.helpers /\ setup.plaintext # None
  /\ \A i \in DOMAIN setup.plaintext : setup.plaintext[i].form # "malformed"
  /\ \A i \in Pairs : NameOk(setup.plaintext[i].key)
  /\ \A i, k \in Pairs : setup.plaintext[i].key = setup.plaintext[k].key => i = k
Held ==
  [n \in {setup.plaintext[i].key : i \in Pairs} |->
     setup.plaintext[CHOOSE i \in Pairs : setup.plaintext[i].key = n].value]

FoundSecrets ==
  IF setup.file = "missing" \/ (setup.file = "regular" /\ ~HasIdentity) THEN "nothing"
  ELSE IF setup.file = "regular" /\ Usable THEN "secrets" ELSE "unusable"

Contract == INSTANCE SecretsContract WITH
  given <- Inherited,
  found <- FoundSecrets,
  secrets <- IF FoundSecrets = "secrets" THEN Held ELSE <<>>,
  required <- Require = "1",
  status <- IF phase = "exec" THEN "running"
            ELSE IF phase = "stopped" THEN "failed" ELSE "starting",
  environ <- IF phase = "exec" THEN environ ELSE Inherited

(***************************************************************************)
(* The two passes over the records amount to one step that imports all the *)
(* secrets or none: the server is never started with a part of them, with  *)
(* any from a ciphertext with a bad or a repeated record, or with one in   *)
(* the place of an inherited variable, also an empty one.                  *)
(***************************************************************************)
ImportsAtOnce == Contract!Spec
=============================================================================
