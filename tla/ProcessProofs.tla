--------------------------- MODULE ProcessProofs ----------------------------
(***************************************************************************)
(* Proofs about SopsEntrypoint: its two passes implement SecretsContract,  *)
(* for every ciphertext, environment and answer of printenv; and about     *)
(* Process, for every environment, ciphertext, command line, set of calls  *)
(* and size of the queue of spans.                                         *)
(***************************************************************************)
EXTENDS Process, FiniteSetTheorems, TLAPS

KeysBefore(n) == {setup.plaintext[i].key : i \in {k \in Pairs : k < n}}

\* What holds from the moment there is a plaintext until the command runs.
Found ==
  /\ setup.command /\ setup.helpers /\ setup.plaintext \in Seq(Record)
  /\ setup.file = "regular" /\ HasIdentity

\* The records that were read were good, and none of them was repeated.
Validated(n) ==
  /\ \A i \in DOMAIN setup.plaintext : i < n => setup.plaintext[i].form # "malformed"
  /\ \A i \in Pairs : i < n => NameOk(setup.plaintext[i].key)
  /\ \A i, k \in Pairs :
       i < n /\ k < n /\ setup.plaintext[i].key = setup.plaintext[k].key => i = k

\* The environment after the imports from the records before the n-th.
Loaded(n) ==
  [v \in DOMAIN Inherited \cup (import \cap KeysBefore(n)) |->
     IF v \in DOMAIN Inherited THEN Inherited[v] ELSE Held[v]]

FirstPass ==
  phase = "validate" =>
    /\ Found /\ Validated(at) /\ environ = Inherited
    /\ seen = KeysBefore(at) /\ import = seen \ DOMAIN Inherited

SecondPass ==
  phase = "apply" =>
    /\ Found /\ Usable
    /\ import = DOMAIN Held \ DOMAIN Inherited
    /\ environ = Loaded(at)

Untouched == phase = "start" => import = {} /\ seen = {} /\ at = 1
EInv ==
  /\ given \in Environments /\ setup \in Setups /\ at \in Nat \ {0}
  /\ phase \in {"start", "validate", "apply", "exec", "stopped"}
  /\ FirstPass /\ SecondPass /\ Untouched

----------------------------------------------------------------------------
(***************************************************************************)
(* Each name of a usable ciphertext has the value of its only record.      *)
(***************************************************************************)
LEMMA HeldOfARecord ==
  ASSUME Usable, NEW i \in Pairs
  PROVE  /\ setup.plaintext[i].key \in DOMAIN Held
         /\ Held[setup.plaintext[i].key] = setup.plaintext[i].value
<1> DEFINE key == setup.plaintext[i].key
<1> DEFINE j == CHOOSE x \in Pairs : setup.plaintext[x].key = key
<1>1. j \in Pairs /\ setup.plaintext[j].key = key
  OBVIOUS
<1>2. j = i
  BY <1>1 DEF Usable
<1>3. key \in {setup.plaintext[x].key : x \in Pairs}
  OBVIOUS
<1> QED
  BY <1>2, <1>3 DEF Held

LEMMA DomainOfHeld == DOMAIN Held = {setup.plaintext[i].key : i \in Pairs}
BY DEF Held

\* Nothing steers printenv while the environment is the inherited one.
LEMMA PresenceIsExact ==
  ASSUME environ = Inherited, NEW k, NEW answer \in printenv(k), answer # 2
  PROVE  answer = 1 <=> k \notin DOMAIN Inherited
BY DEF printenv

\* One more record is among those before n + 1.
LEMMA OneMoreRecord ==
  ASSUME NEW n \in DOMAIN setup.plaintext, setup.plaintext \in Seq(Record)
  PROVE  /\ setup.plaintext[n].form = "pair" =>
              KeysBefore(n + 1) = KeysBefore(n) \cup {setup.plaintext[n].key}
         /\ setup.plaintext[n].form # "pair" => KeysBefore(n + 1) = KeysBefore(n)
<1>1. n \in Nat /\ \A i \in Pairs : i \in Nat
  BY DEF Pairs
<1>2. \A i \in Pairs : i < n + 1 <=> i < n \/ i = n
  BY <1>1
<1>3. n \in Pairs <=> setup.plaintext[n].form = "pair"
  BY DEF Pairs
<1> QED
  BY <1>2, <1>3 DEF KeysBefore

----------------------------------------------------------------------------
\* The invariant speaks of what never changes, and of the record at hand.
LEMMA SetupStays ==
  ASSUME UNCHANGED <<given, setup>>
  PROVE  /\ Inherited' = Inherited /\ Held' = Held /\ Pairs' = Pairs
         /\ Found' <=> Found
         /\ Usable' <=> Usable
<1>1. Inherited' = Inherited /\ Held' = Held /\ Pairs' = Pairs
  BY DEF Inherited, Held, Pairs
<1>2. HasIdentity' <=> HasIdentity
  BY DEF HasIdentity, Unset
<1>3. Found' <=> Found
  BY <1>2 DEF Found
<1>4. Usable' <=> Usable
  BY <1>1 DEF Usable, NameOk
<1> QED
  BY <1>1, <1>3, <1>4

LEMMA NextRecord ==
  ASSUME UNCHANGED <<given, setup>>, NEW n, at' = n
  PROVE  /\ KeysBefore(at)' = KeysBefore(n)
         /\ Validated(at)' <=> Validated(n)
         /\ import' = import => Loaded(at)' = Loaded(n)
<1>1. Pairs' = Pairs /\ Inherited' = Inherited /\ Held' = Held
  BY SetupStays
<1>2. KeysBefore(at)' = KeysBefore(n)
  BY <1>1 DEF KeysBefore
<1>3. Validated(at)' <=> Validated(n)
  BY <1>1 DEF Validated, NameOk
<1>4. ASSUME import' = import PROVE Loaded(at)' = Loaded(n)
  BY <1>1, <1>2, <1>4 DEF Loaded
<1> QED
  BY <1>2, <1>3, <1>4

LEMMA PrepareKeeps ==
  ASSUME EInv, Prepare
  PROVE  EInv'
<1>1. /\ phase = "start" /\ import = {} /\ seen = {} /\ at = 1
      /\ UNCHANGED <<given, setup>> /\ environ' = Inherited /\ UNCHANGED <<at, seen, import>>
      /\ phase' \in {"validate", "exec", "stopped"}
  BY DEF Prepare, EInv, Untouched, Stop, Exec
<1>2. phase' = "validate" => Found
  BY EntryAssumption DEF Prepare, Stop, Exec, Found, EInv, Setup
<1>3. Found => KeysBefore(1) = {} /\ Validated(1)
  <2> SUFFICES ASSUME Found PROVE KeysBefore(1) = {} /\ Validated(1)
    OBVIOUS
  <2>1. \A i \in DOMAIN setup.plaintext : i \in Nat /\ ~(i < 1)
    BY DEF Found
  <2> QED
    BY <2>1 DEF KeysBefore, Validated, Pairs
<1>4. FirstPass'
  <2>1. Inherited' = Inherited /\ (Found' <=> Found)
    BY <1>1, SetupStays
  <2>2. Found => KeysBefore(at)' = {} /\ Validated(at)'
    BY <1>1, <1>3, NextRecord
  <2> QED
    BY <1>1, <1>2, <2>1, <2>2 DEF FirstPass
<1> QED
  BY <1>1, <1>4 DEF EInv, SecondPass, Untouched

\* The three ways to read a record in the first pass.
LEMMA ValidateKeeps ==
  ASSUME EInv, Validate
  PROVE  EInv'
<1>1. /\ phase = "validate" /\ UNCHANGED <<given, setup>> /\ Found /\ Validated(at)
      /\ environ = Inherited /\ seen = KeysBefore(at) /\ import = seen \ DOMAIN Inherited
      /\ at \in Nat \ {0} /\ given \in Environments /\ setup \in Setups
  BY DEF Validate, EInv, FirstPass
<1>2. Inherited' = Inherited /\ (Found' <=> Found) /\ (Usable' <=> Usable) /\ Held' = Held
  BY <1>1, SetupStays
<1>3. DOMAIN setup.plaintext = 1..Len(setup.plaintext) /\ Len(setup.plaintext) \in Nat
  BY <1>1 DEF Found
<1>4. setup.plaintext # None
  BY <1>1, EntryAssumption DEF Found
<1>5. CASE at > Len(setup.plaintext)
  <2>1. phase' = "apply" /\ at' = 1 /\ UNCHANGED <<seen, import, environ>>
    BY <1>5, <1>1, <1>3 DEF Validate
  <2>2. \A i \in DOMAIN setup.plaintext : i < at
    BY <1>1, <1>3, <1>5
  <2>3. Usable
    BY <1>1, <1>4, <2>2 DEF Usable, Validated, Found, Pairs
  <2>4. seen = DOMAIN Held
    BY <1>1, <2>2, DomainOfHeld DEF KeysBefore, Pairs
  <2>5. environ = Loaded(1)
    <3>1. KeysBefore(1) = {}
      BY <1>3 DEF KeysBefore, Pairs
    <3>2. Loaded(1) = [v \in DOMAIN Inherited |-> Inherited[v]]
      BY <3>1 DEF Loaded
    <3> QED
      BY <1>1, <3>2 DEF Inherited
  <2>6. Loaded(at)' = Loaded(1)
    BY <1>1, <2>1, NextRecord
  <2>7. SecondPass'
    BY <1>1, <1>2, <2>1, <2>3, <2>4, <2>5, <2>6 DEF SecondPass
  <2> QED
    BY <1>1, <2>1, <2>7 DEF EInv, FirstPass, Untouched
<1>6. CASE at <= Len(setup.plaintext) /\ phase' = "validate"
  <2>1. at \in DOMAIN setup.plaintext
    BY <1>1, <1>3, <1>6
  <2>2. at' = at + 1
    BY <1>1, <1>3, <1>6 DEF Validate, Stop, Skip
  <2>3. /\ KeysBefore(at)' = KeysBefore(at + 1)
        /\ Validated(at)' <=> Validated(at + 1)
    BY <1>1, <2>2, NextRecord
  <2>4. \A i \in DOMAIN setup.plaintext : i < at + 1 <=> i < at \/ i = at
    BY <1>1, <1>3
  <2>5. \A i \in Pairs : i \in DOMAIN setup.plaintext /\ setup.plaintext[i].form = "pair"
    BY DEF Pairs
  <2>6. CASE Here.form = "skipped"
    <3>1. UNCHANGED <<seen, import, environ>>
      BY <1>1, <1>3, <1>6, <2>6 DEF Validate, Skip
    <3>2. at \notin Pairs
      BY <2>6, <2>5 DEF Here
    <3>3. Validated(at + 1)
      BY <1>1, <2>4, <2>5, <2>6, <3>2 DEF Validated, Here
    <3>4. KeysBefore(at + 1) = KeysBefore(at)
      BY <1>1, <2>1, <2>6, OneMoreRecord DEF Found, Here
    <3> QED
      BY <1>1, <1>2, <1>6, <2>2, <2>3, <3>1, <3>3, <3>4 DEF EInv, FirstPass, SecondPass, Untouched
  <2>7. CASE Here.form # "skipped"
    <3>1. /\ Here.form = "pair" /\ NameOk(Here.key) /\ Here.key \notin seen
          /\ seen' = seen \cup {Here.key} /\ environ' = environ
          /\ \E answer \in printenv(Here.key) :
               /\ answer # 2
               /\ import' = IF answer = 1 THEN import \cup {Here.key} ELSE import
      BY <1>1, <1>3, <1>6, <2>7 DEF Validate, Stop, Skip, Import
    <3>2. import' = (seen \cup {Here.key}) \ DOMAIN Inherited
      <4>1. PICK answer \in printenv(Here.key) :
              /\ answer # 2
              /\ import' = IF answer = 1 THEN import \cup {Here.key} ELSE import
        BY <3>1
      <4>2. answer = 1 <=> Here.key \notin DOMAIN Inherited
        BY <1>1, <4>1, PresenceIsExact
      <4> QED
        BY <1>1, <4>1, <4>2
    <3>3. \A i \in Pairs : i < at => setup.plaintext[i].key # Here.key
      BY <1>1, <3>1 DEF KeysBefore
    <3>4. Validated(at + 1)
      BY <1>1, <2>4, <2>5, <3>1, <3>3 DEF Validated, Here
    <3>5. KeysBefore(at + 1) = KeysBefore(at) \cup {Here.key}
      BY <1>1, <2>1, <3>1, OneMoreRecord DEF Found, Here
    <3> QED
      BY <1>1, <1>2, <1>6, <2>2, <2>3, <3>1, <3>2, <3>4, <3>5
      DEF EInv, FirstPass, SecondPass, Untouched
  <2> QED
    BY <2>6, <2>7
<1>7. CASE phase' = "stopped"
  BY <1>1, <1>7 DEF EInv, FirstPass, SecondPass, Untouched, Validate, Stop, Skip
<1> QED
  BY <1>1, <1>3, <1>5, <1>6, <1>7 DEF Validate, Stop, Skip

LEMMA ApplyKeeps ==
  ASSUME EInv, Apply
  PROVE  EInv'
<1>1. /\ phase = "apply" /\ UNCHANGED <<given, setup, import>> /\ Found /\ Usable
      /\ import = DOMAIN Held \ DOMAIN Inherited /\ environ = Loaded(at)
      /\ at \in Nat \ {0} /\ given \in Environments /\ setup \in Setups
  BY DEF Apply, EInv, SecondPass, Skip, Exec
<1>2. /\ Inherited' = Inherited /\ (Found' <=> Found) /\ (Usable' <=> Usable) /\ Held' = Held
  BY <1>1, SetupStays
<1>3. DOMAIN setup.plaintext = 1..Len(setup.plaintext) /\ Len(setup.plaintext) \in Nat
  BY <1>1 DEF Found
<1>4. CASE at > Len(setup.plaintext)
  BY <1>1, <1>3, <1>4 DEF Apply, Exec, EInv, FirstPass, SecondPass, Untouched
<1>5. CASE at <= Len(setup.plaintext)
  <2>1. at \in DOMAIN setup.plaintext
    BY <1>1, <1>3, <1>5
  <2>2. at' = at + 1 /\ phase' = "apply"
    BY <1>1, <1>3, <1>5 DEF Apply, Skip
  <2>3. Loaded(at)' = Loaded(at + 1)
    BY <1>1, <2>2, NextRecord
  <2>4. environ' = Loaded(at + 1)
    <3>1. CASE Here.form = "skipped"
      <4>1. KeysBefore(at + 1) = KeysBefore(at)
        BY <1>1, <2>1, <3>1, OneMoreRecord DEF Found, Here
      <4>2. environ' = environ
        BY <1>1, <1>3, <1>5, <3>1 DEF Apply, Skip
      <4> QED
        BY <1>1, <4>1, <4>2 DEF Loaded
    <3>2. CASE Here.form # "skipped"
      <4>1. Here.form = "pair" /\ at \in Pairs
        <5>1. setup.plaintext[at] \in Record
          BY <1>1, <2>1, <1>3 DEF Found
        <5>2. Here.form # "malformed"
          BY <1>1, <2>1 DEF Usable, Here
        <5>3. Here.form = "pair"
          BY <3>2, <5>1, <5>2 DEF Record, Here
        <5> QED
          BY <2>1, <5>3 DEF Pairs, Here
      <4>2. KeysBefore(at + 1) = KeysBefore(at) \cup {Here.key}
        BY <1>1, <2>1, <4>1, OneMoreRecord DEF Found, Here
      <4>3. Here.key \in DOMAIN Held /\ Held[Here.key] = Here.value
        BY <1>1, <4>1, HeldOfARecord DEF Here
      <4>4. environ' = IF Here.key \in import THEN Export(environ, Here.key, Here.value)
                       ELSE environ
        BY <1>1, <1>3, <1>5, <3>2 DEF Apply, Skip
      <4>5. CASE Here.key \in import
        <5>1. environ' = Export(Loaded(at), Here.key, Here.value)
          BY <1>1, <4>4, <4>5
        <5>2. Here.key \notin DOMAIN Inherited
          BY <1>1, <4>5
        <5>3. DOMAIN Loaded(at) \cup {Here.key}
                = DOMAIN Inherited \cup (import \cap KeysBefore(at + 1))
          BY <4>2, <4>5 DEF Loaded
        <5> QED
          BY <4>3, <5>1, <5>2, <5>3 DEF Loaded, Export, get_env_map
      <4>6. CASE Here.key \notin import
        <5>1. import \cap KeysBefore(at + 1) = import \cap KeysBefore(at)
          BY <4>2, <4>6
        <5> QED
          BY <1>1, <4>4, <4>6, <5>1 DEF Loaded
      <4> QED
        BY <4>5, <4>6
    <3> QED
      BY <3>1, <3>2
  <2>5. SecondPass'
    BY <1>1, <1>2, <2>2, <2>3, <2>4 DEF SecondPass
  <2> QED
    BY <1>1, <2>2, <2>5 DEF EInv, FirstPass, Untouched
<1> QED
  BY <1>1, <1>3, <1>4, <1>5

----------------------------------------------------------------------------
\* The variables of the contract that the script never changes.
Secrets == IF FoundSecrets = "secrets" THEN Held ELSE <<>>

LEMMA ContractStays ==
  ASSUME UNCHANGED <<given, setup>>
  PROVE  /\ Inherited' = Inherited /\ FoundSecrets' = FoundSecrets /\ Secrets' = Secrets
         /\ (Require = "1")' = (Require = "1")
<1>1. /\ Inherited' = Inherited /\ Held' = Held
      /\ Usable' <=> Usable
  BY SetupStays
<1>2. HasIdentity' <=> HasIdentity
  BY DEF HasIdentity, Unset
<1>3. FoundSecrets' = FoundSecrets /\ Secrets' = Secrets
  BY <1>1, <1>2 DEF FoundSecrets, Secrets
<1>4. Require' = Require
  BY DEF Require, Unset
<1> QED
  BY <1>1, <1>3, <1>4

\* A step that neither runs the command nor stops is none of the contract's.
LEMMA StutterStep ==
  ASSUME UNCHANGED <<given, setup>>, phase \notin {"exec", "stopped"},
         phase' \notin {"exec", "stopped"}
  PROVE  UNCHANGED Contract!vars
<1>1. /\ Inherited' = Inherited /\ FoundSecrets' = FoundSecrets /\ Secrets' = Secrets
      /\ (Require = "1")' = (Require = "1")
  BY ContractStays
<1> QED
  BY <1>1 DEF Contract!vars, Secrets

LEMMA StopIsFail ==
  ASSUME UNCHANGED <<given, setup>>, phase \notin {"exec", "stopped"}, phase' = "stopped"
  PROVE  Contract!Fail
<1>1. /\ Inherited' = Inherited /\ FoundSecrets' = FoundSecrets /\ Secrets' = Secrets
      /\ (Require = "1")' = (Require = "1")
  BY ContractStays
<1> QED
  BY <1>1 DEF Contract!Fail, Secrets

LEMMA SkippedLoadRuns ==
  ASSUME UNCHANGED <<given, setup>>, phase = "start", phase' = "exec", Prepare, EInv
  PROVE  Contract!RunWithout
<1>1. /\ Inherited' = Inherited /\ FoundSecrets' = FoundSecrets /\ Secrets' = Secrets
      /\ (Require = "1")' = (Require = "1")
  BY ContractStays
<1>2. setup.file \in {"regular", "missing", "other"}
  BY EntryAssumption DEF EInv, Setup
<1>3. FoundSecrets = "nothing" /\ Require # "1" /\ environ' = Inherited
  BY <1>2 DEF Prepare, Stop, Exec, FoundSecrets
<1> QED
  BY <1>1, <1>3 DEF Contract!RunWithout, Secrets

\* At the end of the second pass the environment is the merged one.
LEMMA LoadRuns ==
  ASSUME EInv, Apply, phase' = "exec"
  PROVE  Contract!RunWithSecrets
<1>1. /\ phase = "apply" /\ UNCHANGED <<given, setup>> /\ Found /\ Usable
      /\ import = DOMAIN Held \ DOMAIN Inherited /\ environ = Loaded(at)
      /\ at \in Nat \ {0}
  BY DEF Apply, EInv, SecondPass
<1>2. /\ Inherited' = Inherited /\ FoundSecrets' = FoundSecrets /\ Secrets' = Secrets
      /\ (Require = "1")' = (Require = "1")
  BY <1>1, ContractStays
<1>3. at > Len(setup.plaintext) /\ environ' = environ
  BY <1>1 DEF Apply, Skip
<1>4. FoundSecrets = "secrets" /\ Secrets = Held
  BY <1>1 DEF Found, FoundSecrets, Secrets
<1>5. KeysBefore(at) = DOMAIN Held
  <2>1. DOMAIN setup.plaintext = 1..Len(setup.plaintext) /\ Len(setup.plaintext) \in Nat
    BY <1>1 DEF Found
  <2>2. \A i \in Pairs : i < at
    BY <1>1, <1>3, <2>1 DEF Pairs
  <2> QED
    BY <2>2, DomainOfHeld DEF KeysBefore
<1>6. environ' = [v \in DOMAIN Inherited \cup DOMAIN Held |->
                    IF v \in DOMAIN Inherited THEN Inherited[v] ELSE Held[v]]
  <2>1. DOMAIN Inherited \cup (import \cap KeysBefore(at)) = DOMAIN Inherited \cup DOMAIN Held
    BY <1>1, <1>5
  <2> QED
    BY <1>1, <1>3, <2>1 DEF Loaded
<1> QED
  BY <1>1, <1>2, <1>4, <1>6 DEF Contract!RunWithSecrets, Contract!Merged, Secrets

----------------------------------------------------------------------------
LEMMA EntryInvInit == EntryInit => EInv
BY DEF EntryInit, EInv, FirstPass, SecondPass, Untouched

LEMMA EntryInvStep == EInv /\ [EntryNext]_entryVars => EInv'
<1> SUFFICES ASSUME EInv, [EntryNext]_entryVars PROVE EInv'
  OBVIOUS
<1>1. CASE Prepare
  BY <1>1, PrepareKeeps
<1>2. CASE Validate
  BY <1>2, ValidateKeeps
<1>3. CASE Apply
  BY <1>3, ApplyKeeps
<1>4. CASE UNCHANGED entryVars
  <2>1. /\ UNCHANGED <<given, setup, at, phase, seen, import, environ>>
    BY <1>4 DEF entryVars
  <2>2. /\ Inherited' = Inherited /\ Held' = Held
        /\ Found' <=> Found
        /\ Usable' <=> Usable
    BY <2>1, SetupStays
  <2>3. /\ KeysBefore(at)' = KeysBefore(at) /\ Loaded(at)' = Loaded(at)
        /\ Validated(at)' <=> Validated(at)
    BY <2>1, NextRecord
  <2> QED
    BY <2>1, <2>2, <2>3 DEF EInv, FirstPass, SecondPass, Untouched
<1> QED
  BY <1>1, <1>2, <1>3, <1>4 DEF EntryNext

LEMMA ContractInit == EntryInit => Contract!Init
BY DEF EntryInit, Contract!Init

LEMMA ContractStep == EInv /\ [EntryNext]_entryVars => [Contract!Next]_(Contract!vars)
<1> SUFFICES ASSUME EInv, [EntryNext]_entryVars PROVE [Contract!Next]_(Contract!vars)
  OBVIOUS
<1>1. CASE Prepare
  <2>1. UNCHANGED <<given, setup>> /\ phase = "start" /\ phase' \in {"validate", "exec", "stopped"}
    BY <1>1 DEF Prepare, Stop, Exec
  <2> QED
    BY <1>1, <2>1, StutterStep, StopIsFail, SkippedLoadRuns DEF Contract!Next
<1>2. CASE Validate
  <2>1. /\ UNCHANGED <<given, setup>> /\ phase = "validate"
        /\ phase' \in {"validate", "apply", "stopped"}
    BY <1>2 DEF Validate, Stop, Skip
  <2> QED
    BY <2>1, StutterStep, StopIsFail DEF Contract!Next
<1>3. CASE Apply
  <2>1. UNCHANGED <<given, setup>> /\ phase = "apply" /\ phase' \in {"apply", "exec"}
    BY <1>3 DEF Apply, Exec, Skip
  <2> QED
    BY <1>3, <2>1, StutterStep, LoadRuns DEF Contract!Next
<1>4. CASE UNCHANGED entryVars
  <2>1. UNCHANGED <<given, setup, phase, environ>>
    BY <1>4 DEF entryVars
  <2>2. /\ Inherited' = Inherited /\ FoundSecrets' = FoundSecrets /\ Secrets' = Secrets
        /\ (Require = "1")' = (Require = "1")
    BY <2>1, ContractStays
  <2> QED
    BY <2>1, <2>2 DEF Contract!vars, Secrets
<1> QED
  BY <1>1, <1>2, <1>3, <1>4 DEF EntryNext

----------------------------------------------------------------------------
LEMMA InheritedIsEnvironment ==
  ASSUME given \in Environments
  PROVE  IsEnvironment(Inherited)
<1>1. IsEnvironment(given) /\ DEFAULT_SECRETS_FILE \in Text
  BY EntryAssumption
<1>2. /\ DOMAIN Inherited = DOMAIN given \ Private
      /\ Inherited \in [DOMAIN given \ Private -> Text]
  BY <1>1 DEF Inherited, IsEnvironment
<1> QED
  BY <1>1, <1>2 DEF IsEnvironment

LEMMA ExportIsEnvironment ==
  ASSUME NEW env, IsEnvironment(env), NEW k \in Names, NEW v \in Text
  PROVE  IsEnvironment(Export(env, k, v))
<1> DEFINE added == [n \in {k} |-> v]
<1>1. DOMAIN added = {k} /\ added[k] = v
  OBVIOUS
<1>2. /\ DOMAIN get_env_map(env, added) = DOMAIN env \cup {k}
      /\ get_env_map(env, added) \in [DOMAIN env \cup {k} -> Text]
  BY <1>1 DEF get_env_map, IsEnvironment
<1> QED
  BY <1>2 DEF Export, IsEnvironment

LEMMA EntryTypeInit == EntryInit => EntryTypeOK
BY EntryAssumption DEF EntryInit, EntryTypeOK

LEMMA EntryTypeStep == EInv /\ EntryTypeOK /\ [EntryNext]_entryVars => EntryTypeOK'
<1> SUFFICES ASSUME EInv, EntryTypeOK, [EntryNext]_entryVars PROVE EntryTypeOK'
  OBVIOUS
<1> USE DEF EntryTypeOK
<1>1. CASE Prepare
  <2>1. /\ environ' = Inherited /\ UNCHANGED <<given, setup, at, seen, import>>
        /\ phase' \in {"stopped", "exec", "validate"} /\ code' \in {0, 1, 64}
    BY <1>1 DEF Prepare, Stop, Exec
  <2> QED
    BY <2>1, InheritedIsEnvironment
<1>2. CASE Validate
  <2>1. phase = "validate" /\ UNCHANGED <<given, setup>> /\ setup.plaintext \in Seq(Record)
    BY <1>2, EntryAssumption DEF Validate, EInv, FirstPass, Found, Setup
  <2>2. /\ environ' = environ /\ phase' \in {"validate", "apply", "stopped"} /\ code' \in {0, 1, 64}
        /\ at' \in {at, at + 1, 1}
        /\ UNCHANGED <<seen, import>>
           \/ /\ seen' = seen \cup {Here.key} /\ NameOk(Here.key)
              /\ import' \in {import, import \cup {Here.key}}
    BY <1>2 DEF Validate, Stop, Skip, Import
  <2>3. at' \in Nat \ {0}
    BY <2>2
  <2>4. seen' \subseteq Names /\ import' \subseteq seen'
    BY <2>2 DEF NameOk
  <2> QED
    BY <2>1, <2>2, <2>3, <2>4
<1>3. CASE Apply
  <2>1. /\ UNCHANGED <<given, setup, seen, import, code>> /\ phase' \in {"apply", "exec"}
        /\ at' \in {at, at + 1}
    BY <1>3 DEF Apply, Exec, Skip
  <2>2. at' \in Nat \ {0}
    BY <2>1
  <2>3. IsEnvironment(environ')
    <3>1. environ' = environ
          \/ /\ at <= Len(setup.plaintext) /\ Here.key \in import
             /\ environ' = Export(environ, Here.key, Here.value)
      BY <1>3 DEF Apply, Skip
    <3>2. setup.plaintext \in Seq(Record)
      BY <1>3, EntryAssumption DEF Apply, EInv, SecondPass, Found, Setup
    <3>3. at <= Len(setup.plaintext) => Here \in Record
      BY <3>2 DEF Here
    <3>4. at <= Len(setup.plaintext) => Here.value \in Text
      BY <3>3 DEF Record
    <3> QED
      BY <3>1, <3>4, ExportIsEnvironment
  <2> QED
    BY <2>1, <2>2, <2>3
<1>4. CASE UNCHANGED entryVars
  BY <1>4 DEF entryVars
<1> QED
  BY <1>1, <1>2, <1>3, <1>4 DEF EntryNext

LEMMA EntryInv == EntrySpec => [](EInv /\ EntryTypeOK)
BY EntryInvInit, EntryInvStep, EntryTypeInit, EntryTypeStep, PTL DEF EntrySpec

(***************************************************************************)
(* The entrypoint imports at once: for every environment, ciphertext and   *)
(* answer of printenv, its steps are the contract's one step or none.      *)
(***************************************************************************)
THEOREM EntryImportsAtOnce == EntrySpec => ImportsAtOnce
BY EntryInv, ContractInit, ContractStep, PTL DEF EntrySpec, ImportsAtOnce, Contract!Spec

----------------------------------------------------------------------------

Over == {"counted", "answered", "late"}

\* Counted are exactly the calls that are over, timed those that went on.
CallsTrue ==
  /\ \A c \in Calls : outcome[c] \in {"OK", "ERROR"} <=> call[c] \in Over
  /\ \A m \in Attributes :
       /\ m \in counter <=> call[m[1]] \in Over /\ outcome[m[1]] = m[2]
       /\ m \in timer <=> call[m[1]] \in {"answered", "late"} /\ outcome[m[1]] = m[2]

SnapshotsTrue ==
  /\ reader.got.counter \subseteq counter /\ reader.got.timer \subseteq timer
  /\ reported.counter \subseteq counter /\ reported.timer \subseteq timer

SpansTrue ==
  \A s \in queue \cup batch \cup exported :
    IF s[2] = "unset" THEN call[s[1]] = "panicked" ELSE s \in timer

\* The calls whose answer went out before the client left.
Answered == {<<c, outcome[c]>> : c \in {x \in Calls : call[x] = "answered"}}

SpansKept == tracer /\ spans => Answered \subseteq queue \cup batch \cup exported \cup lost

\* The last collection is made when no more answers go out.
LastMetrics ==
  /\ stage = "before" => ~meter /\ ~tracer /\ Answered = {}
  /\ reader.step \in {"half", "sending"} => meter
  /\ reader.step \in {"half", "sending"} /\ reader.last =>
       stage = "flush metrics" /\ Answered \subseteq reader.got.counter
  /\ reader.step = "sending" /\ reader.last => Answered \subseteq reader.got.timer
  /\ reader.step = "closed" <=> meter /\ stage \in {"flush spans", "leaving", "exited"}
  /\ flushed => /\ reader.step = "closed"
                /\ Answered \subseteq reported.counter \cap reported.timer

LastSpans ==
  /\ stage = "flush spans" => tracer
  /\ worker = "last" => stage = "flush spans"
  /\ worker \in {"idle", "closed"} => batch = {}
  /\ worker = "last" /\ spans => Answered \subseteq batch \cup exported \cup lost
  /\ tracer /\ spans /\ stage \in {"leaving", "exited"} => Answered \subseteq exported \cup lost

SInv ==
  /\ SessionTypeOK /\ CallsTrue /\ SnapshotsTrue /\ SpansTrue
  /\ SpansKept /\ LastMetrics /\ LastSpans

----------------------------------------------------------------------------
LEMMA SessionInvInit == SessionInit => SInv
<1> SUFFICES ASSUME SessionInit PROVE SInv
  OBVIOUS
<1>1. SessionTypeOK
  BY DEF SessionInit, SessionTypeOK, MetricsType, NoMetrics, Idle
<1>2. Answered = {}
  BY DEF SessionInit, Answered
<1>3. CallsTrue
  BY DEF SessionInit, CallsTrue, Over, Attributes
<1> QED
  BY <1>1, <1>2, <1>3
  DEF SessionInit, SInv, SnapshotsTrue, SpansTrue, SpansKept, LastMetrics, LastSpans,
      NoMetrics, Idle

\* Steps that touch no call leave what is said of the calls.
LEMMA CallsStay ==
  ASSUME SInv, UNCHANGED <<callVars, metricVars>>
  PROVE  Answered' = Answered /\ CallsTrue' /\ UNCHANGED <<call, outcome, counter, timer>>
BY DEF SInv, callVars, metricVars, Answered, CallsTrue, Over, Attributes

LEMMA SpansIsBoolean == \A env : Spans(env) \in BOOLEAN
<1> TAKE env
<1>1. (env_value(env, "RUST_LOG") \in SpanFilters) \in BOOLEAN
  OBVIOUS
<1> QED
  BY <1>1, TelemetryAssumption, Zenon DEF Spans

LEMMA InitKeeps ==
  ASSUME SInv, NEW env, init(env)
  PROVE  SInv'
<1>1. Answered' = Answered /\ CallsTrue' /\ UNCHANGED <<call, outcome, counter, timer>>
  BY CallsStay DEF init
<1>2. /\ stage = "before" /\ stage' = "handshake" /\ meter' \in BOOLEAN /\ tracer' \in BOOLEAN
      /\ UNCHANGED <<readerVars, spanVars>>
  BY DEF init
<1>3. spans' \in BOOLEAN
  BY SpansIsBoolean DEF init
<1>4. Answered = {}
  BY <1>2 DEF SInv, LastMetrics
<1> QED
  BY <1>1, <1>2, <1>3, <1>4
  DEF SInv, SessionTypeOK, SnapshotsTrue, SpansTrue, SpansKept, LastMetrics, LastSpans,
      readerVars, spanVars

LEMMA HandshakeKeeps ==
  ASSUME SInv, Handshake
  PROVE  SInv'
<1>1. Answered' = Answered /\ CallsTrue' /\ UNCHANGED <<call, outcome, counter, timer>>
  BY CallsStay DEF Handshake
<1>2. stage = "handshake" /\ stage' \in {"serving", Flush} /\ UNCHANGED <<whoVars, readerVars, spanVars>>
  BY DEF Handshake
<1> QED
  BY <1>1, <1>2
  DEF SInv, SessionTypeOK, SnapshotsTrue, SpansTrue, SpansKept, LastMetrics, LastSpans, Flush,
      readerVars, spanVars, whoVars

LEMMA DisconnectKeeps ==
  ASSUME SInv, Disconnect
  PROVE  SInv'
<1>1. Answered' = Answered /\ CallsTrue' /\ UNCHANGED <<call, outcome, counter, timer>>
  BY CallsStay DEF Disconnect
<1>2. stage = "serving" /\ stage' = Flush /\ UNCHANGED <<whoVars, readerVars, spanVars>>
  BY DEF Disconnect
<1> QED
  BY <1>1, <1>2
  DEF SInv, SessionTypeOK, SnapshotsTrue, SpansTrue, SpansKept, LastMetrics, LastSpans, Flush,
      readerVars, spanVars, whoVars

LEMMA AnsweredIsOnTheBooks ==
  ASSUME SInv
  PROVE  Answered \subseteq counter /\ Answered \subseteq timer /\ Answered \subseteq Attributes
<1> SUFFICES ASSUME NEW c \in Calls, call[c] = "answered"
             PROVE  /\ <<c, outcome[c]>> \in counter /\ <<c, outcome[c]>> \in timer
                    /\ <<c, outcome[c]>> \in Attributes
  BY DEF Answered
<1>1. outcome[c] \in {"OK", "ERROR"}
  BY DEF SInv, CallsTrue, Over
<1>2. <<c, outcome[c]>> \in Attributes
  BY <1>1 DEF Attributes
<1> QED
  BY <1>2 DEF SInv, CallsTrue, Over

LEMMA CollectKeeps ==
  ASSUME SInv, CollectCounter \/ CollectTimer
  PROVE  SInv'
<1>1. Answered' = Answered /\ CallsTrue' /\ UNCHANGED <<call, outcome, counter, timer>>
  BY CallsStay DEF CollectCounter, CollectTimer
<1>2. /\ UNCHANGED <<stage, whoVars, reported, flushed, spanVars>>
      /\ reader.step \in {"idle", "half"} /\ meter
  BY DEF CollectCounter, CollectTimer, SInv, LastMetrics
<1>3. /\ reader' \in [step: {"half", "sending"}, last: BOOLEAN, got: MetricsType]
      /\ reader'.got.counter \subseteq counter /\ reader'.got.timer \subseteq timer
      /\ reader'.last => /\ stage = "flush metrics" /\ Answered \subseteq reader'.got.counter
                         /\ reader'.step = "sending" => Answered \subseteq reader'.got.timer
  <2>1. CASE CollectCounter
    <3>1. reader' = [step |-> "half", last |-> stage = "flush metrics",
                     got |-> [counter |-> counter, timer |-> {}]]
      BY <2>1 DEF CollectCounter, NoMetrics
    <3>2. counter \subseteq Attributes /\ {} \subseteq Attributes
      BY DEF SInv, SessionTypeOK
    <3>3. (stage = "flush metrics") \in BOOLEAN
      OBVIOUS
    <3>4. [counter |-> counter, timer |-> {}] \in MetricsType
      BY <3>2 DEF MetricsType
    <3> QED
      BY <3>1, <3>3, <3>4, AnsweredIsOnTheBooks
  <2>2. CASE CollectTimer
    <3>1. reader \in [step: {"half"}, last: BOOLEAN, got: MetricsType] /\ timer \subseteq Attributes
      BY <2>2 DEF CollectTimer, SInv, SessionTypeOK
    <3>2. reader' = [reader EXCEPT !.step = "sending", !.got.timer = timer]
      BY <2>2 DEF CollectTimer
    <3>3. /\ reader' \in [step: {"half", "sending"}, last: BOOLEAN, got: MetricsType]
          /\ reader'.last = reader.last /\ reader'.got.counter = reader.got.counter
          /\ reader'.got.timer = timer
      BY <3>1, <3>2 DEF MetricsType
    <3> QED
      BY <3>1, <3>3, AnsweredIsOnTheBooks DEF SInv, LastMetrics, SnapshotsTrue
  <2> QED
    BY <2>1, <2>2
<1> QED
  BY <1>1, <1>2, <1>3
  DEF SInv, SessionTypeOK, SnapshotsTrue, SpansTrue, SpansKept, LastMetrics, LastSpans,
      spanVars, whoVars

LEMMA MetricsKeeps ==
  ASSUME SInv, MetricsSent \/ MetricsFailed
  PROVE  SInv'
<1>1. Answered' = Answered /\ CallsTrue' /\ UNCHANGED <<call, outcome, counter, timer>>
  BY CallsStay DEF MetricsSent, MetricsFailed, MetricsDone
<1>2. /\ UNCHANGED <<whoVars, spanVars>> /\ reader.step = "sending" /\ meter
      /\ reader' = IF reader.last THEN [Idle EXCEPT !.step = "closed"] ELSE Idle
      /\ stage' = IF reader.last THEN AfterMetrics ELSE stage
      /\ \/ reported' = reader.got /\ flushed' = reader.last
         \/ UNCHANGED <<reported, flushed>>
  BY DEF MetricsSent, MetricsFailed, MetricsDone, SInv, LastMetrics
<1>3. /\ reader.last \in BOOLEAN /\ reader.got \in MetricsType /\ reported \in MetricsType
      /\ flushed \in BOOLEAN /\ ~flushed
  BY <1>2 DEF SInv, SessionTypeOK, LastMetrics
<1>4. /\ reader'.step = (IF reader.last THEN "closed" ELSE "idle") /\ reader'.last = FALSE
      /\ reader'.got = NoMetrics
  BY <1>2 DEF Idle
<1>5. reader' \in [step: {"idle", "closed"}, last: BOOLEAN, got: MetricsType]
  BY <1>2 DEF Idle, NoMetrics, MetricsType
<1>6. SessionTypeOK'
  <2>1. reader' \in [step: {"idle", "half", "sending", "closed"}, last: BOOLEAN, got: MetricsType]
    BY <1>5
  <2>2. reported' \in MetricsType /\ flushed' \in BOOLEAN /\ stage' \in {stage, "flush spans", "leaving"}
    BY <1>2, <1>3 DEF AfterMetrics
  <2> QED
    BY <1>1, <1>2, <2>1, <2>2 DEF SInv, SessionTypeOK, spanVars, whoVars
<1>7. SnapshotsTrue'
  BY <1>1, <1>2, <1>4 DEF SInv, SnapshotsTrue, NoMetrics
<1>8. SpansTrue' /\ SpansKept'
  BY <1>1, <1>2 DEF SInv, SpansTrue, SpansKept, spanVars, whoVars
<1>9. reader.last => stage = "flush metrics"
                     /\ Answered \subseteq reader.got.counter \cap reader.got.timer
  BY <1>2 DEF SInv, LastMetrics
<1>10. ~reader.last => stage \notin {"flush spans", "leaving", "exited"}
  BY <1>2 DEF SInv, LastMetrics
<1>11. LastMetrics'
  <2>1. CASE reader.last
    <3>1. stage' \in {"flush spans", "leaving"} /\ reader'.step = "closed" /\ meter'
      BY <1>2, <1>4, <2>1 DEF AfterMetrics, whoVars
    <3>2. flushed' => Answered' \subseteq reported'.counter \cap reported'.timer
      BY <1>1, <1>2, <1>3, <1>9, <2>1
    <3> QED
      BY <3>1, <3>2 DEF LastMetrics
  <2>2. CASE ~reader.last
    <3>1. reader'.step = "idle" /\ stage' = stage
      BY <1>2, <1>4, <2>2
    <3>2. ~flushed'
      BY <1>2, <1>3, <2>2
    <3>3. stage \notin {"before", "flush spans", "leaving", "exited"}
      BY <1>2, <1>10, <2>2 DEF SInv, LastMetrics
    <3> QED
      BY <3>1, <3>2, <3>3 DEF LastMetrics
  <2> QED
    BY <2>1, <2>2
<1>12. LastSpans'
  <2>1. CASE reader.last
    <3>1. stage' = AfterMetrics /\ worker # "last"
      BY <1>2, <1>3, <1>9, <2>1 DEF SInv, LastSpans, AfterMetrics
    <3>2. stage' = "flush spans" => tracer'
      BY <1>2, <3>1 DEF AfterMetrics, whoVars, SInv, SessionTypeOK
    <3>3. stage' = "leaving" => ~tracer'
      BY <1>2, <3>1 DEF AfterMetrics, whoVars, SInv, SessionTypeOK
    <3>4. worker' = worker /\ batch' = batch /\ stage' \in {"flush spans", "leaving"}
      BY <1>2, <3>1 DEF AfterMetrics, spanVars
    <3> QED
      BY <3>1, <3>2, <3>3, <3>4 DEF SInv, LastSpans
  <2>2. CASE ~reader.last
    BY <1>1, <1>2, <2>2 DEF SInv, LastSpans, spanVars, whoVars
  <2> QED
    BY <2>1, <2>2
<1> QED
  BY <1>1, <1>6, <1>7, <1>8, <1>11, <1>12 DEF SInv

LEMMA BatchKeeps ==
  ASSUME SInv, Batch
  PROVE  SInv'
<1>1. Answered' = Answered /\ CallsTrue' /\ UNCHANGED <<call, outcome, counter, timer>>
  BY CallsStay DEF Batch
<1>2. /\ UNCHANGED <<stage, whoVars, readerVars, exported, lost>> /\ batch' = queue /\ queue' = {}
      /\ tracer /\ worker = "idle"
      /\ worker' \in {"last", "sending"} /\ (worker' = "last" => stage = "flush spans")
      /\ stage \in {"flush spans", "serving", "flush metrics"}
  BY DEF Batch
<1>3. batch = {}
  BY <1>2 DEF SInv, LastSpans
<1> QED
  BY <1>1, <1>2, <1>3
  DEF SInv, SessionTypeOK, SnapshotsTrue, SpansTrue, SpansKept, LastMetrics, LastSpans,
      readerVars, whoVars

LEMMA BatchDoneKeeps ==
  ASSUME SInv, BatchSent \/ BatchFailed
  PROVE  SInv'
<1>1. Answered' = Answered /\ CallsTrue' /\ UNCHANGED <<call, outcome, counter, timer>>
  BY CallsStay DEF BatchSent, BatchFailed, BatchDone
<1>2. /\ UNCHANGED <<whoVars, readerVars, queue>> /\ batch' = {}
      /\ worker \in {"sending", "last"}
      /\ worker' = (IF worker = "last" THEN "closed" ELSE "idle")
      /\ stage' = (IF worker = "last" THEN "leaving" ELSE stage)
      /\ \/ exported' = exported \cup batch /\ lost' = lost
         \/ lost' = lost \cup batch /\ exported' = exported
  BY DEF BatchSent, BatchFailed, BatchDone
<1>3. CASE worker = "last"
  BY <1>1, <1>2, <1>3
  DEF SInv, SessionTypeOK, SnapshotsTrue, SpansTrue, SpansKept, LastMetrics, LastSpans,
      readerVars, whoVars
<1>4. CASE worker # "last"
  BY <1>1, <1>2, <1>4
  DEF SInv, SessionTypeOK, SnapshotsTrue, SpansTrue, SpansKept, LastMetrics, LastSpans,
      readerVars, whoVars
<1> QED
  BY <1>3, <1>4

LEMMA WhatIsReported ==
  /\ \A x \in Calls, o \in {"OK", "ERROR"} : <<x, o>> \in Attributes /\ <<x, o>> \in SpansOf
  /\ \A m \in Attributes : m[1] \in Calls /\ m[2] \in {"OK", "ERROR"} /\ m = <<m[1], m[2]>>
  /\ \A s \in SpansOf : s[1] \in Calls
<1>1. \A m \in Attributes : m[1] \in Calls /\ m[2] \in {"OK", "ERROR"} /\ m = <<m[1], m[2]>>
  BY DEF Attributes
<1>2. ASSUME NEW s \in SpansOf PROVE s[1] \in Calls
  <2>1. CASE s \in Attributes
    BY <1>1, <2>1
  <2>2. CASE s \in {<<c, "unset">> : c \in Calls}
    BY <2>2
  <2> QED
    BY <2>1, <2>2 DEF SpansOf
<1>3. \A x \in Calls, o \in {"OK", "ERROR"} : <<x, o>> \in Attributes
  BY DEF Attributes
<1> QED
  BY <1>1, <1>2, <1>3 DEF SpansOf

\* A step of call c from a state that nobody has an answer from.
LEMMA OneCall ==
  ASSUME SInv, NEW c \in Calls, call[c] # "answered",
         NEW s \in {"running", "counted", "late", "panicked"},
         call' = [call EXCEPT ![c] = s],
         \A x \in Calls \ {c} : outcome'[x] = outcome[x]
  PROVE  /\ call' \in [Calls -> {"idle", "running", "counted", "answered", "late",
                                 "panicked", "cancelled"}]
         /\ \A x \in Calls : call'[x] = IF x = c THEN s ELSE call[x]
         /\ Answered' = Answered
<1>1. \A x \in Calls : call'[x] = IF x = c THEN s ELSE call[x]
  BY DEF SInv, SessionTypeOK
<1>2. call' \in [Calls -> {"idle", "running", "counted", "answered", "late",
                           "panicked", "cancelled"}]
  BY DEF SInv, SessionTypeOK
<1>3. Answered' \subseteq Answered
  BY <1>1 DEF Answered
<1>4. Answered \subseteq Answered'
  BY <1>1 DEF Answered
<1> QED
  BY <1>1, <1>2, <1>3, <1>4

LEMMA CallToolKeeps ==
  ASSUME SInv, NEW c \in Calls, CallTool(c)
  PROVE  SInv'
<1>1. /\ call[c] = "idle" /\ call' = [call EXCEPT ![c] = "running"]
      /\ UNCHANGED <<stage, whoVars, outcome, metricVars, readerVars, spanVars>>
  BY DEF CallTool
<1>2. /\ call' \in [Calls -> {"idle", "running", "counted", "answered", "late",
                              "panicked", "cancelled"}]
      /\ \A x \in Calls : call'[x] = IF x = c THEN "running" ELSE call[x]
      /\ Answered' = Answered
  BY <1>1, OneCall
<1>3. CallsTrue'
  <2>1. \A x \in Calls : call'[x] \in Over <=> call[x] \in Over
    BY <1>1, <1>2 DEF Over
  <2>2. \A x \in Calls : call'[x] \in {"answered", "late"} <=> call[x] \in {"answered", "late"}
    BY <1>1, <1>2
  <2>3. \A m \in Attributes : m[1] \in Calls
    BY DEF Attributes
  <2> QED
    BY <1>1, <2>1, <2>2, <2>3 DEF SInv, CallsTrue, metricVars, Over, Attributes
<1>4. SpansTrue'
  <2>1. \A s \in queue \cup batch \cup exported : s[1] \in Calls
    BY WhatIsReported DEF SInv, SessionTypeOK
  <2> QED
    BY <1>1, <1>2, <2>1 DEF SInv, SpansTrue, spanVars, metricVars
<1> QED
  BY <1>1, <1>2, <1>3, <1>4
  DEF SInv, SessionTypeOK, SnapshotsTrue, SpansKept, LastMetrics, LastSpans,
      metricVars, readerVars, spanVars, whoVars

LEMMA CountedKeeps ==
  ASSUME SInv, NEW c \in Calls, Counted(c)
  PROVE  SInv'
<1>1. PICK how \in {"OK", "ERROR"} :
        outcome' = [outcome EXCEPT ![c] = how] /\ counter' = counter \cup {<<c, how>>}
  BY DEF Counted
<1>2. /\ call[c] = "running" /\ call' = [call EXCEPT ![c] = "counted"]
      /\ stage # "exited" /\ UNCHANGED <<stage, whoVars, timer, readerVars, spanVars>>
  BY DEF Counted
<1>3. /\ outcome' \in [Calls -> {"OK", "ERROR", "unset"}]
      /\ \A x \in Calls : outcome'[x] = IF x = c THEN how ELSE outcome[x]
  BY <1>1 DEF SInv, SessionTypeOK
<1>4. /\ call' \in [Calls -> {"idle", "running", "counted", "answered", "late",
                              "panicked", "cancelled"}]
      /\ \A x \in Calls : call'[x] = IF x = c THEN "counted" ELSE call[x]
      /\ Answered' = Answered
  BY <1>2, <1>3, OneCall
<1>5. CallsTrue'
  <2>1. \A x \in Calls : outcome'[x] \in {"OK", "ERROR"} <=> call'[x] \in Over
    BY <1>3, <1>4 DEF SInv, CallsTrue, Over
  <2>2. ASSUME NEW x \in Calls, NEW o \in {"OK", "ERROR"}
        PROVE  /\ <<x, o>> \in counter' <=> call'[x] \in Over /\ outcome'[x] = o
               /\ <<x, o>> \in timer' <=> call'[x] \in {"answered", "late"} /\ outcome'[x] = o
    <3>1. /\ <<x, o>> \in counter <=> call[x] \in Over /\ outcome[x] = o
          /\ <<x, o>> \in timer <=> call[x] \in {"answered", "late"} /\ outcome[x] = o
      BY DEF SInv, CallsTrue, Attributes
    <3>2. CASE x = c
      BY <1>1, <1>2, <1>3, <1>4, <3>1, <3>2 DEF Over
    <3>3. CASE x # c
      BY <1>1, <1>2, <1>3, <1>4, <3>1, <3>3
    <3> QED
      BY <3>2, <3>3
  <2>3. ASSUME NEW m \in Attributes
        PROVE  /\ m \in counter' <=> call'[m[1]] \in Over /\ outcome'[m[1]] = m[2]
               /\ m \in timer' <=> call'[m[1]] \in {"answered", "late"} /\ outcome'[m[1]] = m[2]
    <3>1. PICK x \in Calls, o \in {"OK", "ERROR"} : m = <<x, o>>
      BY DEF Attributes
    <3> QED
      BY <2>2, <3>1
  <2> QED
    BY <2>1, <2>3 DEF CallsTrue
<1>6. SpansTrue'
  <2>1. \A s \in queue \cup batch \cup exported : s[1] \in Calls
    BY WhatIsReported DEF SInv, SessionTypeOK
  <2> QED
    BY <1>2, <1>4, <2>1 DEF SInv, SpansTrue, spanVars
<1>7. counter' \subseteq Attributes
  BY <1>1, WhatIsReported DEF SInv, SessionTypeOK
<1>8. SnapshotsTrue'
  BY <1>1, <1>2 DEF SInv, SnapshotsTrue, readerVars
<1> QED
  BY <1>2, <1>3, <1>4, <1>5, <1>6, <1>7, <1>8
  DEF SInv, SessionTypeOK, SpansKept, LastMetrics, LastSpans, readerVars, spanVars, whoVars

LEMMA PanicsKeeps ==
  ASSUME SInv, NEW c \in Calls, Panics(c)
  PROVE  SInv'
<1>1. /\ call[c] = "running" /\ call' = [call EXCEPT ![c] = "panicked"]
      /\ UNCHANGED <<stage, whoVars, outcome, metricVars, readerVars>>
      /\ UNCHANGED <<worker, batch, exported>>
  BY DEF Panics, CloseSpan
<1>2. /\ queue' \in {queue, queue \cup {<<c, "unset">>}}
      /\ lost' \in {lost, lost \cup {<<c, "unset">>}}
  BY DEF Panics, CloseSpan
<1>3. /\ call' \in [Calls -> {"idle", "running", "counted", "answered", "late",
                              "panicked", "cancelled"}]
      /\ \A x \in Calls : call'[x] = IF x = c THEN "panicked" ELSE call[x]
      /\ Answered' = Answered
  BY <1>1, OneCall
<1>4. CallsTrue'
  <2>1. \A x \in Calls : call'[x] \in Over <=> call[x] \in Over
    BY <1>1, <1>3 DEF Over
  <2>2. \A x \in Calls : call'[x] \in {"answered", "late"} <=> call[x] \in {"answered", "late"}
    BY <1>1, <1>3
  <2>3. \A m \in Attributes : m[1] \in Calls
    BY DEF Attributes
  <2> QED
    BY <1>1, <2>1, <2>2, <2>3 DEF SInv, CallsTrue, metricVars, Over, Attributes
<1>5. SpansTrue'
  <2>1. \A s \in queue \cup batch \cup exported : s[1] \in Calls
    BY WhatIsReported DEF SInv, SessionTypeOK
  <2>2. ASSUME NEW s \in queue \cup batch \cup exported
        PROVE  IF s[2] = "unset" THEN call'[s[1]] = "panicked" ELSE s \in timer'
    BY <1>1, <1>3, <2>1 DEF SInv, SpansTrue, metricVars
  <2>3. call'[<<c, "unset">>[1]] = "panicked" /\ <<c, "unset">>[2] = "unset"
    BY <1>3
  <2> QED
    BY <1>1, <1>2, <2>2, <2>3 DEF SpansTrue
<1>6. <<c, "unset">> \in SpansOf
  BY DEF SpansOf
<1>7. SessionTypeOK'
  <2>1. queue' \subseteq SpansOf /\ lost' \subseteq SpansOf
    BY <1>2, <1>6 DEF SInv, SessionTypeOK
  <2> QED
    BY <1>1, <1>3, <2>1 DEF SInv, SessionTypeOK, metricVars, readerVars, whoVars
<1>8. SpansKept' /\ SnapshotsTrue'
  BY <1>1, <1>2, <1>3 DEF SInv, SpansKept, SnapshotsTrue, metricVars, readerVars, whoVars
<1>9. LastMetrics' /\ LastSpans'
  BY <1>1, <1>2, <1>3 DEF SInv, LastMetrics, LastSpans, readerVars, whoVars
<1> QED
  BY <1>4, <1>5, <1>7, <1>8, <1>9 DEF SInv
LEMMA TimedKeeps ==
  ASSUME SInv, NEW c \in Calls, Timed(c)
  PROVE  SInv'
<1> DEFINE s == IF stage = "serving" THEN "answered" ELSE "late"
           span == <<c, outcome[c]>>
<1>1. /\ call[c] = "counted" /\ stage # "exited"
      /\ call' = [call EXCEPT ![c] = s] /\ timer' = timer \cup {span}
      /\ UNCHANGED <<stage, whoVars, outcome, counter, readerVars>>
      /\ UNCHANGED <<worker, batch, exported>>
  BY DEF Timed, CloseSpan
<1>2. /\ queue \subseteq queue' /\ queue' \subseteq queue \cup {span}
      /\ lost \subseteq lost' /\ lost' \subseteq lost \cup {span}
      /\ tracer /\ spans => span \in queue' \cup lost'
  BY DEF Timed, CloseSpan
<1>3. /\ call' \in [Calls -> {"idle", "running", "counted", "answered", "late",
                              "panicked", "cancelled"}]
      /\ \A x \in Calls : call'[x] = IF x = c THEN s ELSE call[x]
  BY <1>1 DEF SInv, SessionTypeOK
<1>4. span \in Attributes /\ span \in SpansOf /\ outcome[c] \in {"OK", "ERROR"}
  <2>1. outcome[c] \in {"OK", "ERROR"}
    BY <1>1 DEF SInv, CallsTrue, Over
  <2> QED
    BY <2>1, WhatIsReported
<1>5. Answered' = IF stage = "serving" THEN Answered \cup {span} ELSE Answered
  <2>1. \A x \in Calls : call'[x] = "answered" <=> call[x] = "answered" \/ (x = c /\ stage = "serving")
    BY <1>1, <1>3
  <2>2. Answered' = {<<x, outcome[x]>> : x \in {d \in Calls : call'[d] = "answered"}}
    BY <1>1 DEF Answered
  <2> QED
    BY <2>1, <2>2 DEF Answered
<1>6. CallsTrue'
  <2>1. \A x \in Calls : outcome'[x] \in {"OK", "ERROR"} <=> call'[x] \in Over
    BY <1>1, <1>3, <1>4 DEF SInv, CallsTrue, Over
  <2>2. ASSUME NEW x \in Calls, NEW o \in {"OK", "ERROR"}
        PROVE  /\ <<x, o>> \in counter' <=> call'[x] \in Over /\ outcome'[x] = o
               /\ <<x, o>> \in timer' <=> call'[x] \in {"answered", "late"} /\ outcome'[x] = o
    <3>1. /\ <<x, o>> \in counter <=> call[x] \in Over /\ outcome[x] = o
          /\ <<x, o>> \in timer <=> call[x] \in {"answered", "late"} /\ outcome[x] = o
      BY DEF SInv, CallsTrue, Attributes
    <3>2. CASE x = c
      BY <1>1, <1>3, <3>1, <3>2 DEF Over
    <3>3. CASE x # c
      BY <1>1, <1>3, <3>1, <3>3
    <3> QED
      BY <3>2, <3>3
  <2>3. ASSUME NEW m \in Attributes
        PROVE  /\ m \in counter' <=> call'[m[1]] \in Over /\ outcome'[m[1]] = m[2]
               /\ m \in timer' <=> call'[m[1]] \in {"answered", "late"} /\ outcome'[m[1]] = m[2]
    <3>1. PICK x \in Calls, o \in {"OK", "ERROR"} : m = <<x, o>>
      BY DEF Attributes
    <3> QED
      BY <2>2, <3>1
  <2> QED
    BY <2>1, <2>3 DEF CallsTrue
<1>7. SpansTrue'
  <2>1. \A x \in queue \cup batch \cup exported : x[1] \in Calls
    BY WhatIsReported DEF SInv, SessionTypeOK
  <2>2. ASSUME NEW x \in queue \cup batch \cup exported
        PROVE  IF x[2] = "unset" THEN call'[x[1]] = "panicked" ELSE x \in timer'
    BY <1>1, <1>3, <2>1 DEF SInv, SpansTrue
  <2>3. span[2] # "unset" /\ span \in timer'
    BY <1>1, <1>4
  <2> QED
    BY <1>1, <1>2, <2>2, <2>3 DEF SpansTrue
<1>8. SessionTypeOK'
  <2>1. queue' \subseteq SpansOf /\ lost' \subseteq SpansOf /\ timer' \subseteq Attributes
    BY <1>1, <1>2, <1>4 DEF SInv, SessionTypeOK
  <2> QED
    BY <1>1, <1>3, <2>1 DEF SInv, SessionTypeOK, readerVars, whoVars
<1>9. SnapshotsTrue'
  BY <1>1 DEF SInv, SnapshotsTrue, readerVars
<1>10. SpansKept'
  BY <1>1, <1>2, <1>5 DEF SInv, SpansKept, whoVars
<1>11. LastMetrics'
  <2>1. CASE stage = "serving"
    <3>1. ~flushed /\ reader.step # "closed" /\ (reader.step \in {"half", "sending"} => ~reader.last)
      BY <2>1 DEF SInv, LastMetrics
    <3> QED
      BY <1>1, <2>1, <3>1 DEF SInv, LastMetrics, readerVars, whoVars
  <2>2. CASE stage # "serving"
    BY <1>1, <1>5, <2>2 DEF SInv, LastMetrics, readerVars, whoVars
  <2> QED
    BY <2>1, <2>2
<1>12. LastSpans'
  <2>1. CASE stage = "serving"
    BY <1>1, <2>1 DEF SInv, LastSpans, readerVars, whoVars
  <2>2. CASE stage # "serving"
    BY <1>1, <1>2, <1>5, <2>2 DEF SInv, LastSpans, readerVars, whoVars
  <2> QED
    BY <2>1, <2>2
<1> QED
  BY <1>6, <1>7, <1>8, <1>9, <1>10, <1>11, <1>12 DEF SInv

LEMMA ExitKeeps ==
  ASSUME SInv, Exit
  PROVE  SInv'
<1>1. /\ stage = "leaving" /\ stage' = "exited"
      /\ call' = [c \in Calls |-> IF call[c] = "running" THEN "cancelled" ELSE call[c]]
      /\ UNCHANGED <<whoVars, outcome, metricVars, readerVars, spanVars>>
  BY DEF Exit
<1>2. /\ call' \in [Calls -> {"idle", "running", "counted", "answered", "late",
                              "panicked", "cancelled"}]
      /\ \A x \in Calls : call'[x] = IF call[x] = "running" THEN "cancelled" ELSE call[x]
  BY <1>1 DEF SInv, SessionTypeOK
<1>3. Answered' = Answered
  <2>1. \A x \in Calls : call'[x] = "answered" <=> call[x] = "answered"
    BY <1>2
  <2> QED
    BY <1>1, <2>1 DEF Answered
<1>4. CallsTrue'
  <2>1. \A x \in Calls : call'[x] \in Over <=> call[x] \in Over
    BY <1>2 DEF Over
  <2>2. \A x \in Calls : call'[x] \in {"answered", "late"} <=> call[x] \in {"answered", "late"}
    BY <1>2
  <2>3. \A m \in Attributes : m[1] \in Calls
    BY DEF Attributes
  <2> QED
    BY <1>1, <2>1, <2>2, <2>3 DEF SInv, CallsTrue, metricVars, Over, Attributes
<1>5. SpansTrue'
  <2>1. \A s \in queue \cup batch \cup exported : s[1] \in Calls
    BY WhatIsReported DEF SInv, SessionTypeOK
  <2> QED
    BY <1>1, <1>2, <2>1 DEF SInv, SpansTrue, spanVars, metricVars
<1> QED
  BY <1>1, <1>2, <1>3, <1>4, <1>5
  DEF SInv, SessionTypeOK, SnapshotsTrue, SpansKept, LastMetrics, LastSpans,
      metricVars, readerVars, spanVars, whoVars

\* run_stdio that fails before the telemetry is there.
LEMMA RefusedKeeps ==
  ASSUME SInv, stage = "before", stage' = "exited",
         UNCHANGED <<whoVars, callVars, metricVars, readerVars, spanVars>>
  PROVE  SInv'
<1>1. Answered' = Answered /\ CallsTrue' /\ UNCHANGED <<call, outcome, counter, timer>>
  BY CallsStay
<1>2. ~meter /\ ~tracer
  BY DEF SInv, LastMetrics
<1> QED
  BY <1>1, <1>2
  DEF SInv, SessionTypeOK, SnapshotsTrue, SpansTrue, SpansKept, LastMetrics, LastSpans,
      readerVars, spanVars, whoVars

LEMMA SessionStays ==
  ASSUME SInv, UNCHANGED sessionVars
  PROVE  SInv'
<1>1. Answered' = Answered /\ CallsTrue' /\ UNCHANGED <<call, outcome, counter, timer>>
  BY CallsStay DEF sessionVars
<1> QED
  BY <1>1
  DEF SInv, SessionTypeOK, SnapshotsTrue, SpansTrue, SpansKept, LastMetrics, LastSpans,
      readerVars, spanVars, whoVars, sessionVars

LEMMA SessionInvStep ==
  ASSUME SInv, [ProcessNext]_processVars
  PROVE  SInv'
<1>1. CASE EntryStep
  BY <1>1, SessionStays DEF EntryStep
<1>2. CASE run_stdio
  <2>1. PICK argv \in Argvs :
          \/ init(get_env_map(environ, argv.flags))
          \/ /\ stage = "before" /\ stage' = "exited"
             /\ UNCHANGED <<whoVars, callVars, metricVars, readerVars, spanVars>>
    BY <1>2 DEF run_stdio
  <2> QED
    BY <2>1, InitKeeps, RefusedKeeps
<1>3. CASE SessionStep
  <2>1. CASE CallNext
    BY <2>1, CallToolKeeps, CountedKeeps, TimedKeeps, PanicsKeeps DEF CallNext
  <2>2. CASE ReaderNext
    BY <2>2, CollectKeeps, MetricsKeeps DEF ReaderNext
  <2>3. CASE WorkerNext
    BY <2>3, BatchKeeps, BatchDoneKeeps DEF WorkerNext
  <2>4. CASE Handshake \/ Disconnect \/ Exit
    BY <2>4, HandshakeKeeps, DisconnectKeeps, ExitKeeps
  <2> QED
    BY <1>3, <2>1, <2>2, <2>3, <2>4 DEF SessionStep, SessionNext
<1>4. CASE UNCHANGED processVars
  BY <1>4, SessionStays DEF processVars
<1> QED
  BY <1>1, <1>2, <1>3, <1>4 DEF ProcessNext, Terminated
----------------------------------------------------------------------------
LEMMA SessionInv == ProcessSpec => []SInv
<1>1. ProcessInit => SInv
  BY SessionInvInit DEF ProcessInit
<1> QED
  BY <1>1, SessionInvStep, PTL DEF ProcessSpec

LEMMA ProcessIsEntry == ProcessSpec => EntrySpec
<1>1. ProcessInit => EntryInit
  BY DEF ProcessInit
<1>2. [ProcessNext]_processVars => [EntryNext]_entryVars
  BY DEF ProcessNext, EntryStep, run_stdio, SessionStep, Terminated, processVars
<1> QED
  BY <1>1, <1>2, PTL DEF ProcessSpec, EntrySpec

(***************************************************************************)
(* Type correctness, of the environments too: whatever was imported, the   *)
(* server starts with texts under names that a shell accepts.              *)
(***************************************************************************)
THEOREM TypeCorrect == ProcessSpec => []ProcessTypeOK
<1>1. SInv /\ EInv /\ EntryTypeOK => ProcessTypeOK
  BY DEF SInv, ProcessTypeOK
<1> QED
  BY <1>1, SessionInv, ProcessIsEntry, EntryInv, PTL

(***************************************************************************)
(* No step of the server or of its session disturbs what the entrypoint    *)
(* promises: in the whole life of the process the ciphertext is imported   *)
(* in one step or not at all.                                              *)
(***************************************************************************)
THEOREM ImportedAtOnce == ProcessSpec => ImportsAtOnce
BY ProcessIsEntry, EntryImportsAtOnce, PTL

(***************************************************************************)
(* For any number of calls, any queue and any collector, the metrics and   *)
(* spans that were delivered are true of the calls.                        *)
(***************************************************************************)
THEOREM DeliveredIsTrue == ProcessSpec => []ReportsAreTrue
<1>1. SInv => ReportsAreTrue
  <2> SUFFICES ASSUME SInv PROVE ReportsAreTrue
    OBVIOUS
  <2>1. ASSUME NEW m \in reported.counter \cup reported.timer
        PROVE  outcome[m[1]] = m[2] /\ call[m[1]] \in {"counted", "answered", "late"}
    <3>1. m \in counter \cup timer /\ m \in Attributes
      BY DEF SInv, SnapshotsTrue, SessionTypeOK
    <3> QED
      BY <3>1 DEF SInv, CallsTrue, Over
  <2>2. ASSUME NEW s \in exported, s[2] # "unset"
        PROVE  outcome[s[1]] = s[2] /\ s \in counter /\ s \in timer
    <3>1. s \in timer /\ s \in Attributes
      BY <2>2 DEF SInv, SpansTrue, SessionTypeOK
    <3> QED
      BY <3>1 DEF SInv, CallsTrue, Over
  <2> QED
    BY <2>1, <2>2 DEF ReportsAreTrue, SInv, SpansTrue
<1> QED
  BY <1>1, SessionInv, PTL

(***************************************************************************)
(* When the process is gone, every call that was answered while the client *)
(* was there is in the last metrics, unless their export failed, and its   *)
(* span was delivered or is known to be lost.                              *)
(***************************************************************************)
THEOREM NoAnswerLeftBehind == ProcessSpec => []AnsweredIsReported
<1>1. SInv => AnsweredIsReported
  <2> SUFFICES ASSUME SInv, stage = "exited", NEW c \in Calls, call[c] = "answered"
               PROVE  /\ meter /\ flushed => <<c, outcome[c]>> \in reported.counter \cap reported.timer
                      /\ meter /\ ~flushed => reader.step = "closed"
                      /\ tracer /\ spans => <<c, outcome[c]>> \in exported \cup lost
    BY DEF AnsweredIsReported
  <2>1. <<c, outcome[c]>> \in Answered
    BY DEF Answered
  <2> QED
    BY <2>1 DEF SInv, LastMetrics, LastSpans
<1> QED
  BY <1>1, SessionInv, PTL

----------------------------------------------------------------------------
(***************************************************************************)
(* The operator's attributes: never a key of the process's own, and no     *)
(* more than the limit, since each of them comes after fewer new ones.     *)
(***************************************************************************)
LEMMA AddedAreFew ==
  ASSUME NEW raw \in Text
  PROVE  LET added == DOMAIN resource_attribute_pairs(raw)
         IN  /\ added \cap reserved_resource_attribute_key = {}
             /\ IsFiniteSet(added) /\ Cardinality(added) <= MAX_RESOURCE_ATTRIBUTES
<1> DEFINE p == IF Size[raw] > MAX_RESOURCE_ATTRIBUTES_RAW_BYTES THEN <<>> ELSE PairsOf[raw]
           new == {i \in DOMAIN p : /\ p[i].key \notin reserved_resource_attribute_key
                                    /\ \A k \in 1..(i - 1) : p[k].key # p[i].key}
           before(i) == {k \in new : k < i}
           taken == {i \in new : Cardinality(before(i)) < MAX_RESOURCE_ATTRIBUTES}
           keys == {p[i].key : i \in taken}
<1>1. DOMAIN resource_attribute_pairs(raw) = keys
  BY DEF resource_attribute_pairs
<1>2. keys \cap reserved_resource_attribute_key = {}
  OBVIOUS
<1>3. p \in Seq(Pair)
  BY TelemetryAssumption
<1>4. IsFiniteSet(new) /\ new \subseteq Nat
  <2>1. DOMAIN p = 1..Len(p) /\ Len(p) \in Nat
    BY <1>3
  <2>2. IsFiniteSet(1..Len(p)) /\ 1..Len(p) \subseteq Nat
    BY <2>1, FS_Interval
  <2>3. new \in SUBSET (1..Len(p))
    BY <2>1
  <2> HIDE DEF new
  <2> QED
    BY <2>2, <2>3, FS_Subset
<1>5. ASSUME NEW i \in new PROVE IsFiniteSet(before(i)) /\ Cardinality(before(i)) \in Nat
  <2>1. before(i) \in SUBSET new
    OBVIOUS
  <2> HIDE DEF new, before
  <2> QED
    BY <1>4, <2>1, FS_Subset, FS_CardinalityType
<1>6. ASSUME NEW i \in new, NEW j \in new, i < j
      PROVE  Cardinality(before(i)) # Cardinality(before(j))
  <2>1. before(i) \in SUBSET before(j) /\ i \in before(j) /\ i \notin before(i)
    <3> HIDE DEF new
    <3>1. i \in Nat /\ j \in Nat
      BY <1>4
    <3>2. \A k \in new : k \in Nat /\ (k < i => k < j)
      BY <1>4, <1>6, <3>1
    <3>3. \A k \in before(i) : k \in before(j)
      BY <3>2
    <3>4. i \in before(j) /\ i \notin before(i)
      BY <1>6, <3>1
    <3> QED
      BY <3>3, <3>4
  <2>2. before(i) # before(j)
    BY <2>1
  <2> HIDE DEF new, before
  <2> QED
    BY <1>5, <2>1, <2>2, FS_Subset
<1> DEFINE rank == [i \in taken |-> Cardinality(before(i))]
           slots == 0..(MAX_RESOURCE_ATTRIBUTES - 1)
<1>7. taken \subseteq new /\ \A i \in taken : Cardinality(before(i)) < MAX_RESOURCE_ATTRIBUTES
  OBVIOUS
<1> HIDE DEF new, before, taken
<1>8. rank \in Injection(taken, slots)
  <2>1. \A i \in taken : Cardinality(before(i)) \in slots
    BY <1>5, <1>7, TelemetryAssumption
  <2>2. \A i \in taken, j \in taken : rank[i] = rank[j] => i = j
    <3>1. ASSUME NEW i \in taken, NEW j \in taken, rank[i] = rank[j] PROVE i = j
      <4>1. i \in Nat /\ j \in Nat /\ i \in new /\ j \in new
        BY <1>4, <1>7
      <4>2. Cardinality(before(i)) = Cardinality(before(j))
        BY <3>1
      <4>3. ~(i < j) /\ ~(j < i)
        BY <1>6, <4>1, <4>2
      <4> QED
        BY <4>1, <4>3
    <3> QED
      BY <3>1
  <2> QED
    BY <2>1, <2>2 DEF Injection, IsInjective
<1>9. IsFiniteSet(taken) /\ Cardinality(taken) <= MAX_RESOURCE_ATTRIBUTES
      /\ Cardinality(taken) \in Nat
  <2>1. IsFiniteSet(slots) /\ Cardinality(slots) = MAX_RESOURCE_ATTRIBUTES
    <3>1. 0 \in Int /\ MAX_RESOURCE_ATTRIBUTES - 1 \in Int /\ MAX_RESOURCE_ATTRIBUTES \in Nat
      BY TelemetryAssumption
    <3>2. /\ IsFiniteSet(slots)
          /\ Cardinality(slots) = IF 0 > MAX_RESOURCE_ATTRIBUTES - 1 THEN 0
                                  ELSE MAX_RESOURCE_ATTRIBUTES - 1 - 0 + 1
      BY <3>1, FS_Interval
    <3> HIDE DEF slots
    <3> QED
      BY <3>1, <3>2
  <2> HIDE DEF rank, slots
  <2>2. IsFiniteSet(taken) /\ Cardinality(taken) <= Cardinality(slots)
    BY <1>8, <2>1, FS_Injection
  <2> QED
    BY <2>1, <2>2, FS_CardinalityType
<1> DEFINE name == [i \in taken |-> p[i].key]
<1>10. name \in Surjection(taken, keys)
  BY DEF Surjection
<1>11. IsFiniteSet(keys) /\ Cardinality(keys) <= Cardinality(taken)
  <2> HIDE DEF name, keys
  <2> QED
    BY <1>9, <1>10, FS_Surjection
<1>12. Cardinality(keys) \in Nat
  <2> HIDE DEF keys
  <2> QED
    BY <1>11, FS_CardinalityType
<1> HIDE DEF keys
<1> QED
  BY <1>1, <1>2, <1>9, <1>11, <1>12, TelemetryAssumption

LEMMA ServiceIsNoPlace ==
  /\ \A n \in DOMAIN EnvAttribute : EnvAttribute[n] \notin DOMAIN Service
  /\ \A n, k \in DOMAIN EnvAttribute : EnvAttribute[n] = EnvAttribute[k] => n = k
  /\ DOMAIN EnvAttribute \cap {"RUST_LOG", "SOPS_SECRETS_FILE"} = {}
BY DEF EnvAttribute, Service

LEMMA ValueIsText ==
  ASSUME NEW env, IsEnvironment(env), NEW n, env_value(env, n) # None
  PROVE  /\ n \in DOMAIN env /\ env[n] \in Text
         /\ env_value(env, n) = Trim[env[n]] /\ Trim[env[n]] \in Text
BY TextAssumption DEF IsEnvironment, env_value

\* Who the process says it is, for every environment.
LEMMA IdentityIsOurs ==
  ASSUME NEW env, IsEnvironment(env)
  PROVE  /\ \A k \in DOMAIN Service : resource(env)[k] = Service[k]
         /\ \A n \in DOMAIN EnvAttribute :
              EnvAttribute[n] \in DOMAIN resource(env) =>
                /\ env_value(env, n) # None
                /\ resource(env)[EnvAttribute[n]] = env_value(env, n)
         /\ Cardinality(DOMAIN resource(env) \ reserved_resource_attribute_key)
              <= MAX_RESOURCE_ATTRIBUTES
<1> DEFINE pushed == {n \in DOMAIN EnvAttribute : push_env_attribute(env, n)}
           own == [k \in DOMAIN Service \cup {EnvAttribute[n] : n \in pushed} |->
                     IF k \in DOMAIN Service THEN Service[k]
                     ELSE env_value(env, CHOOSE n \in pushed : EnvAttribute[n] = k)]
           raw == env_value(env, "OTEL_RESOURCE_ATTRIBUTES")
           added == resource_attribute_pairs(raw)
           reserved == reserved_resource_attribute_key
<1>1. resource(env) = IF raw = None THEN own ELSE get_env_map(own, added)
  BY DEF resource
<1>2. /\ DOMAIN own \subseteq reserved
      /\ \A k \in DOMAIN Service : k \in DOMAIN own /\ own[k] = Service[k]
  BY DEF reserved_resource_attribute_key
<1>3. ASSUME NEW n \in DOMAIN EnvAttribute, EnvAttribute[n] \in DOMAIN own
      PROVE  env_value(env, n) # None /\ own[EnvAttribute[n]] = env_value(env, n)
  <2>1. n \in pushed
    BY <1>3, ServiceIsNoPlace
  <2>2. (CHOOSE k \in pushed : EnvAttribute[k] = EnvAttribute[n]) = n
    BY <2>1, ServiceIsNoPlace
  <2>3. env_value(env, n) # None
    BY <2>1 DEF push_env_attribute
  <2> QED
    BY <1>3, <2>2, <2>3, ServiceIsNoPlace
<1>4. raw # None => raw \in Text
  BY ValueIsText
<1>5. raw # None => /\ DOMAIN added \cap reserved = {}
                    /\ IsFiniteSet(DOMAIN added) /\ Cardinality(DOMAIN added) <= MAX_RESOURCE_ATTRIBUTES
  BY <1>4, AddedAreFew
<1> HIDE DEF own, added, raw, reserved
<1>6. CASE raw = None
  <2>1. resource(env) = own
    BY <1>1, <1>6
  <2>2. DOMAIN own \ reserved = {}
    BY <1>2
  <2>3. Cardinality(DOMAIN own \ reserved) <= MAX_RESOURCE_ATTRIBUTES
    <3>1. Cardinality(DOMAIN own \ reserved) = 0
      BY <2>2, FS_EmptySet
    <3>2. MAX_RESOURCE_ATTRIBUTES \in Nat
      BY TelemetryAssumption
    <3> QED
      BY <3>1, <3>2
  <2> QED
    BY <1>2, <1>3, <2>1, <2>3 DEF reserved
<1>7. CASE raw # None
  <2>1. /\ DOMAIN resource(env) = DOMAIN own \cup DOMAIN added
        /\ \A k \in DOMAIN own \ DOMAIN added : resource(env)[k] = own[k]
    BY <1>1, <1>7 DEF get_env_map
  <2>2. \A k \in reserved : k \notin DOMAIN added
    BY <1>5, <1>7
  <2>3. DOMAIN Service \subseteq reserved /\ \A n \in DOMAIN EnvAttribute : EnvAttribute[n] \in reserved
    BY DEF reserved, reserved_resource_attribute_key
  <2>4. DOMAIN resource(env) \ reserved = DOMAIN added
    BY <1>2, <2>1, <2>2
  <2> QED
    BY <1>2, <1>3, <1>5, <1>7, <2>1, <2>2, <2>3, <2>4 DEF reserved
<1> QED
  BY <1>6, <1>7

\* The environment that the entrypoint leaves says what the operator said.
FromOperator ==
  phase = "exec" =>
    \A n \in DOMAIN environ : n # "SOPS_SECRETS_FILE" => InForce(n) = environ[n]

LEMMA LeavesWhatWasSaid ==
  ASSUME EInv, FromOperator, [EntryNext]_entryVars
  PROVE  FromOperator'
<1>1. UNCHANGED <<given, setup>>
  BY DEF EntryNext, Prepare, Validate, Apply, entryVars
<1>2. \A n : InForce(n)' = InForce(n)
  BY <1>1, SetupStays DEF InForce
<1>3. CASE Prepare
  <2>1. environ' = Inherited
    BY <1>3 DEF Prepare
  <2>2. \A n \in DOMAIN Inherited : n \in DOMAIN given
                                    /\ (n # "SOPS_SECRETS_FILE" => Inherited[n] = given[n])
    BY DEF Inherited
  <2> QED
    BY <1>2, <2>1, <2>2 DEF FromOperator, InForce
<1>4. CASE Validate
  BY <1>4 DEF Validate, FromOperator, Stop, Skip
<1>5. CASE Apply /\ phase' = "exec"
  <2>1. /\ phase = "apply" /\ environ' = environ /\ Found /\ Usable
        /\ import = DOMAIN Held \ DOMAIN Inherited /\ environ = Loaded(at)
    BY <1>5 DEF Apply, Exec, Skip, EInv, SecondPass
  <2>2. setup.plaintext # None
    BY <2>1, EntryAssumption DEF Found
  <2>3. ASSUME NEW n \in DOMAIN environ, n # "SOPS_SECRETS_FILE"
        PROVE  InForce(n) = environ[n]
    <3>1. CASE n \in DOMAIN Inherited
      BY <2>1, <2>3, <3>1 DEF Loaded, Inherited, InForce
    <3>2. CASE n \notin DOMAIN Inherited
      <4>1. n \in DOMAIN Held /\ environ[n] = Held[n]
        BY <2>1, <3>2 DEF Loaded
      <4>2. n \notin Private
        BY <2>1, <4>1, DomainOfHeld, EntryAssumption DEF Usable, NameOk
      <4>3. n \notin DOMAIN given
        BY <3>2, <4>2 DEF Inherited
      <4> QED
        BY <2>2, <4>1, <4>3 DEF InForce
    <3> QED
      BY <3>1, <3>2
  <2> QED
    BY <1>2, <2>1, <2>3 DEF FromOperator
<1>6. CASE Apply /\ phase' # "exec"
  BY <1>6 DEF FromOperator
<1>7. CASE UNCHANGED entryVars
  BY <1>2, <1>7 DEF entryVars, FromOperator
<1> QED
  BY <1>3, <1>4, <1>5, <1>6, <1>7 DEF EntryNext

\* Whoever exports was started from that environment and the flag.
Started ==
  meter \/ tracer =>
    /\ phase = "exec"
    /\ \E flags : /\ DOMAIN flags \subseteq {"RUST_LOG"} /\ IsEnvironment(flags)
                  /\ endpoint = otlp_endpoint_from_env(get_env_map(environ, flags))
                  /\ identity = resource(get_env_map(environ, flags))
    /\ endpoint # None

OInv == EInv /\ EntryTypeOK /\ SInv /\ FromOperator /\ Started

LEMMA OriginInit == ProcessInit => FromOperator /\ Started
BY DEF ProcessInit, EntryInit, SessionInit, FromOperator, Started

LEMMA StartedStays ==
  ASSUME Started, UNCHANGED whoVars, UNCHANGED <<phase, environ>>
  PROVE  Started'
BY DEF Started, whoVars

LEMMA OriginStep == OInv /\ [ProcessNext]_processVars => FromOperator' /\ Started'
<1> SUFFICES ASSUME OInv, [ProcessNext]_processVars PROVE FromOperator' /\ Started'
  OBVIOUS
<1>1. [EntryNext]_entryVars
  BY DEF ProcessNext, EntryStep, run_stdio, SessionStep, Terminated, processVars
<1>2. FromOperator'
  BY <1>1, LeavesWhatWasSaid DEF OInv
<1>3. CASE EntryStep
  <2>1. phase # "exec"
    BY <1>3 DEF EntryStep, EntryNext, Prepare, Validate, Apply
  <2>2. UNCHANGED <<meter, tracer>> /\ meter \in BOOLEAN /\ tracer \in BOOLEAN
    BY <1>3 DEF EntryStep, sessionVars, whoVars, OInv, SInv, SessionTypeOK
  <2>3. Started'
    BY <2>1, <2>2 DEF OInv, Started
  <2> QED
    BY <1>2, <2>3
<1>4. CASE run_stdio
  <2>1. phase = "exec" /\ UNCHANGED <<phase, environ>>
    BY <1>4 DEF run_stdio, entryVars
  <2>2. PICK argv \in Argvs :
          \/ init(get_env_map(environ, argv.flags))
          \/ UNCHANGED whoVars
    BY <1>4 DEF run_stdio
  <2>3. CASE UNCHANGED whoVars
    BY <1>2, <2>1, <2>3, StartedStays DEF OInv
  <2>4. CASE init(get_env_map(environ, argv.flags))
    <3>1. DOMAIN argv.flags \subseteq {"RUST_LOG"} /\ IsEnvironment(argv.flags)
      BY FlagAssumption DEF Argv
    <3>2. /\ endpoint' = otlp_endpoint_from_env(get_env_map(environ, argv.flags))
          /\ identity' = resource(get_env_map(environ, argv.flags))
          /\ endpoint' = None => ~meter' /\ ~tracer'
      BY <2>4 DEF init
    <3>3. Started'
      BY <2>1, <3>1, <3>2 DEF Started
    <3> QED
      BY <1>2, <3>3
  <2> QED
    BY <2>2, <2>3, <2>4
<1>5. CASE SessionStep
  <2>1. UNCHANGED <<phase, environ>>
    BY <1>5 DEF SessionStep, entryVars
  <2>2. UNCHANGED whoVars
    BY <1>5 DEF SessionStep, SessionNext, CallNext, ReaderNext, WorkerNext, CallTool, Counted,
       Timed, Panics, CollectCounter, CollectTimer, MetricsSent, MetricsFailed, MetricsDone,
       Batch, BatchSent, BatchFailed, BatchDone, Handshake, Disconnect, Exit
  <2> QED
    BY <1>2, <2>1, <2>2, StartedStays DEF OInv
<1>6. CASE UNCHANGED processVars
  BY <1>2, <1>6, StartedStays DEF processVars, entryVars, sessionVars, OInv
<1> QED
  BY <1>3, <1>4, <1>5, <1>6 DEF ProcessNext, Terminated

LEMMA OriginInv == ProcessSpec => []OInv
<1>1. ProcessInit => OInv
  BY OriginInit, EntryInvInit, EntryTypeInit, SessionInvInit DEF ProcessInit, OInv
<1>2. OInv /\ [ProcessNext]_processVars => OInv'
  <2> SUFFICES ASSUME OInv, [ProcessNext]_processVars PROVE OInv'
    OBVIOUS
  <2>1. [EntryNext]_entryVars
    BY DEF ProcessNext, EntryStep, run_stdio, SessionStep, Terminated, processVars
  <2> QED
    BY <2>1, OriginStep, EntryInvStep, EntryTypeStep, SessionInvStep DEF OInv
<1> QED
  BY <1>1, <1>2, PTL DEF ProcessSpec

LEMMA MergedIsEnvironment ==
  ASSUME NEW env, IsEnvironment(env), NEW flags, IsEnvironment(flags),
         DOMAIN flags \subseteq {"RUST_LOG"}
  PROVE  /\ IsEnvironment(get_env_map(env, flags))
         /\ \A n : n # "RUST_LOG" =>
              /\ n \in DOMAIN get_env_map(env, flags) => n \in DOMAIN env
              /\ n \in DOMAIN env => get_env_map(env, flags)[n] = env[n]
<1>1. DOMAIN get_env_map(env, flags) = DOMAIN env \cup DOMAIN flags
  BY DEF get_env_map
<1>2. get_env_map(env, flags) \in [DOMAIN env \cup DOMAIN flags -> Text]
  BY DEF get_env_map, IsEnvironment
<1> QED
  BY <1>1, <1>2 DEF get_env_map, IsEnvironment

LEMMA EndpointIsSafe ==
  ASSUME NEW raw \in Text, sanitize_otlp_endpoint(raw) # None
  PROVE  /\ sanitize_otlp_endpoint(raw) = Trim[raw]
         /\ Url[Trim[raw]] \in [scheme: {"http", "https"}, host: {TRUE}, user: {FALSE},
                               password: {FALSE}, query: {FALSE}, fragment: {FALSE}]
<1> DEFINE u == Url[Trim[raw]]
<1>1. /\ sanitize_otlp_endpoint(raw) = Trim[raw] /\ u # None
      /\ u.scheme \in {"http", "https"}
      /\ u.host /\ ~u.user /\ ~u.password /\ ~u.query /\ ~u.fragment
  BY DEF sanitize_otlp_endpoint
<1>2. u \in URL
  BY <1>1, TextAssumption, TelemetryAssumption
<1>3. /\ u.host \in BOOLEAN /\ u.user \in BOOLEAN /\ u.password \in BOOLEAN
      /\ u.query \in BOOLEAN /\ u.fragment \in BOOLEAN
      /\ u = [scheme |-> u.scheme, host |-> u.host, user |-> u.user,
              password |-> u.password, query |-> u.query, fragment |-> u.fragment]
  BY <1>2 DEF URL
<1>4. /\ u.host = TRUE /\ u.user = FALSE /\ u.password = FALSE
      /\ u.query = FALSE /\ u.fragment = FALSE
  BY <1>1, <1>3
<1> HIDE DEF u
<1>5. u \in [scheme: {"http", "https"}, host: {TRUE}, user: {FALSE},
             password: {FALSE}, query: {FALSE}, fragment: {FALSE}]
  BY <1>1, <1>3, <1>4
<1> QED
  BY <1>1, <1>5 DEF u

(***************************************************************************)
(* For every environment, ciphertext, command line and set of attributes,  *)
(* what is exported goes where the operator said and says who the process  *)
(* is.                                                                     *)
(***************************************************************************)
THEOREM ExportsAsTold == ProcessSpec => []ExportFollowsOperator
<1>1. OInv => ExportFollowsOperator
  <2> SUFFICES ASSUME OInv, meter \/ tracer PROVE ExportFollowsOperator
    BY DEF ExportFollowsOperator
  <2>1. phase = "exec" /\ endpoint # None
    BY DEF OInv, Started
  <2>2. PICK flags : /\ DOMAIN flags \subseteq {"RUST_LOG"} /\ IsEnvironment(flags)
                     /\ endpoint = otlp_endpoint_from_env(get_env_map(environ, flags))
                     /\ identity = resource(get_env_map(environ, flags))
    BY DEF OInv, Started
  <2> DEFINE env == get_env_map(environ, flags)
  <2>3. /\ IsEnvironment(env)
        /\ \A n : n # "RUST_LOG" => /\ n \in DOMAIN env => n \in DOMAIN environ
                                    /\ n \in DOMAIN environ => env[n] = environ[n]
    BY <2>2, MergedIsEnvironment DEF OInv, EntryTypeOK
  <2> HIDE DEF env
  <2>4. ASSUME NEW n, n \notin {"RUST_LOG", "SOPS_SECRETS_FILE"}, env_value(env, n) # None
        PROVE  InForce(n) \in Text /\ env_value(env, n) = Trim[InForce(n)]
    <3>1. n \in DOMAIN env /\ env[n] \in Text /\ env_value(env, n) = Trim[env[n]]
      BY <2>3, <2>4, ValueIsText
    <3>2. n \in DOMAIN environ /\ env[n] = environ[n]
      BY <2>3, <2>4, <3>1
    <3>3. InForce(n) = environ[n]
      BY <2>1, <2>4, <3>2 DEF OInv, FromOperator
    <3> QED
      BY <3>1, <3>2, <3>3
  <2>5. /\ endpoint = Trim[InForce(Endpoint)] /\ InForce(Endpoint) \in Text
        /\ Url[endpoint] \in [scheme: {"http", "https"}, host: {TRUE}, user: {FALSE},
                             password: {FALSE}, query: {FALSE}, fragment: {FALSE}]
    <3>1. /\ env_value(env, Endpoint) # None
          /\ endpoint = sanitize_otlp_endpoint(env_value(env, Endpoint))
      BY <2>1, <2>2 DEF otlp_endpoint_from_env, env
    <3>2. InForce(Endpoint) \in Text /\ env_value(env, Endpoint) = Trim[InForce(Endpoint)]
      BY <2>4, <3>1 DEF Endpoint
    <3>3. Trim[InForce(Endpoint)] \in Text /\ Trim[Trim[InForce(Endpoint)]] = Trim[InForce(Endpoint)]
      BY <3>2, TextAssumption
    <3> QED
      BY <2>1, <3>1, <3>2, <3>3, EndpointIsSafe
  <2>6. \A n \in DOMAIN EnvAttribute :
          EnvAttribute[n] \in DOMAIN identity =>
            InForce(n) \in Text /\ identity[EnvAttribute[n]] = Trim[InForce(n)]
    <3>1. identity = resource(env)
      BY <2>2 DEF env
    <3>2. ASSUME NEW n \in DOMAIN EnvAttribute, EnvAttribute[n] \in DOMAIN identity
          PROVE  InForce(n) \in Text /\ identity[EnvAttribute[n]] = Trim[InForce(n)]
      <4>1. env_value(env, n) # None /\ identity[EnvAttribute[n]] = env_value(env, n)
        BY <2>3, <3>1, <3>2, IdentityIsOurs
      <4>2. n \notin {"RUST_LOG", "SOPS_SECRETS_FILE"}
        BY ServiceIsNoPlace
      <4> QED
        BY <2>4, <4>1, <4>2
    <3> QED
      BY <3>2
  <2>7. /\ \A k \in DOMAIN Service : identity[k] = Service[k]
        /\ Cardinality(DOMAIN identity \ reserved_resource_attribute_key) <= MAX_RESOURCE_ATTRIBUTES
    BY <2>2, <2>3, IdentityIsOurs DEF env
  <2> QED
    BY <2>5, <2>6, <2>7 DEF ExportFollowsOperator
<1> QED
  BY <1>1, OriginInv, PTL
=============================================================================
