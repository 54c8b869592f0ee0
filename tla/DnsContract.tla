---------------------------- MODULE DnsContract ----------------------------
(***************************************************************************)
(* What a caller of the DNS write tools can rely on, whatever the network, *)
(* the API and the other callers do:                                       *)
(*   - a call takes effect at most once, and changes at most one record;   *)
(*   - a call answered with success has taken effect;                      *)
(*   - a call answered with a refusal has not, and never will;             *)
(*   - after any other error the effect is unknown and may still come.     *)
(***************************************************************************)
CONSTANTS Calls, RecordIds
VARIABLES records, applied, outcome

Open == {c \in Calls : outcome[c] = "open"}

Init ==
  /\ applied = [c \in Calls |-> FALSE]
  /\ outcome = [c \in Calls |-> "open"]

TakeEffect(c) ==
  /\ ~applied[c] /\ outcome[c] \in {"open", "unknown"}
  /\ applied' = [applied EXCEPT ![c] = TRUE]
  /\ \E r \in RecordIds : \A s \in RecordIds \ {r} : records'[s] = records[s]
  /\ UNCHANGED outcome

Conclude(c) ==
  /\ c \in Open
  /\ \/ applied[c] /\ outcome' = [outcome EXCEPT ![c] = "done"]
     \/ ~applied[c] /\ outcome' = [outcome EXCEPT ![c] = "refused"]
  /\ UNCHANGED <<records, applied>>

\* Calls end without knowing: one that failed, or all of them on a shutdown.
LoseTrack ==
  /\ \E lost \in SUBSET Open :
       outcome' = [c \in Calls |-> IF c \in lost THEN "unknown" ELSE outcome[c]]
  /\ UNCHANGED <<records, applied>>

\* Anyone else changes the records.
Elsewhere == UNCHANGED <<applied, outcome>>

Next ==
  \/ \E c \in Calls : TakeEffect(c) \/ Conclude(c)
  \/ LoseTrack
  \/ Elsewhere

Spec == Init /\ [][Next]_<<records, applied, outcome>>
=============================================================================
