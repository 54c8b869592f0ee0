---------------------------- MODULE BoundedBody ----------------------------
(***************************************************************************)
(* read_bounded_body of src/src/upstream.rs: how every HTTP reader of the  *)
(* crate (the fiducia planes, Cloudflare, RDAP) takes a response body into *)
(* memory.  The peer chooses the declared length, the sizes of the chunks  *)
(* and when, if ever, the body ends; the connection may break at any time. *)
(* Sizes are in bytes; their type, usize, ends at SizeMax.                 *)
(***************************************************************************)
EXTENDS Integers

CONSTANTS
  MAX_UPSTREAM_RESPONSE_BYTES,  \* the cap on a body
  SizeMax,                      \* usize::MAX
  MaxDeclared,                  \* the largest Content-Length a peer may declare
  None                          \* Option::None

Cap == MAX_UPSTREAM_RESPONSE_BYTES

ASSUME CapAssumption == Cap \in Nat /\ SizeMax \in Nat /\ Cap < SizeMax
ASSUME DeclaredAssumption == MaxDeclared \in Nat /\ None \notin Nat

VARIABLES
  declared,  \* Content-Length, None when there is none (chunked encoding)
  phase,     \* "head" before the first chunk is awaited, "reading", or the outcome
  length,    \* body.len()
  arrived    \* history: bytes of the body handed to the reader so far

vars == <<declared, phase, length, arrived>>

Outcomes == {"whole", "exceeded", "broken"}

\* Variant: the buffer is filled to the declared length, not only reserved.
Init_Filled ==
  /\ declared \in {None} \cup 0..MaxDeclared
  /\ phase = "head" /\ length = declared /\ arrived = 0

Init ==
  /\ declared \in {None} \cup 0..MaxDeclared
  /\ phase = "head" /\ length = 0 /\ arrived = 0

\* The declared length is looked at before anything is buffered.
CheckLength ==
  /\ phase = "head"
  /\ phase' = IF declared # None /\ declared > Cap THEN "exceeded" ELSE "reading"
  /\ UNCHANGED <<declared, length, arrived>>

\* Variant: usize::wrapping_add.
saturating_add_Wraps(m, n) == (m + n) % (SizeMax + 1)

saturating_add(m, n) == IF m + n > SizeMax THEN SizeMax ELSE m + n

\* Variant: a body of exactly the cap is refused.
Chunk_OffByOne(n) ==
  /\ phase = "reading"
  /\ declared # None => arrived + n <= declared
  /\ arrived' = arrived + n
  /\ IF saturating_add(length, n) >= Cap
     THEN phase' = "exceeded" /\ UNCHANGED length
     ELSE length' = length + n /\ UNCHANGED phase
  /\ UNCHANGED declared

\* A chunk of n bytes; the transport delivers no more than was declared.
Chunk(n) ==
  /\ phase = "reading"
  /\ declared # None => arrived + n <= declared
  /\ arrived' = arrived + n
  /\ \/ /\ saturating_add(length, n) > Cap
        /\ phase' = "exceeded"
        /\ UNCHANGED length
     \/ /\ saturating_add(length, n) <= Cap
        /\ length' = length + n
        /\ UNCHANGED phase
  /\ UNCHANGED declared

\* Variant: a body that is cut short is taken for a whole one.
End_Anywhere ==
  /\ phase = "reading"
  /\ phase' = "whole"
  /\ UNCHANGED <<declared, length, arrived>>

\* chunk() returns None: the body is over, and as long as was declared.
End ==
  /\ phase = "reading"
  /\ declared # None => arrived = declared
  /\ phase' = "whole"
  /\ UNCHANGED <<declared, length, arrived>>

\* Variant: nothing ends a body that never ends.
Break_NoTimer ==
  /\ phase = "reading" /\ declared # None
  /\ phase' = "broken"
  /\ UNCHANGED <<declared, length, arrived>>

\* chunk() fails: the connection broke, or the client's 15 s are over.
Break ==
  /\ phase = "reading"
  /\ phase' = "broken"
  /\ UNCHANGED <<declared, length, arrived>>

Finished == phase \in Outcomes /\ UNCHANGED vars

Next == CheckLength \/ (\E n \in 1..SizeMax : Chunk(n)) \/ End \/ Break \/ Finished

Spec == Init /\ [][Next]_vars

----------------------------------------------------------------------------
TypeOK ==
  /\ declared \in {None} \cup 0..MaxDeclared
  /\ phase \in {"head", "reading"} \cup Outcomes
  /\ length \in Nat /\ arrived \in Nat
  /\ declared # None => arrived <= declared

(***************************************************************************)
(* However the peer declares and cuts its body, no more than the cap is    *)
(* ever held, and nothing of a body declared larger.                       *)
(***************************************************************************)
HeldWithinCap ==
  /\ length <= Cap
  /\ declared # None /\ declared > Cap => length = 0

(***************************************************************************)
(* A body that is returned is the whole body: no chunk was left out, and   *)
(* it is as long as was declared.                                          *)
(***************************************************************************)
ReturnedWhole ==
  phase = "whole" => length = arrived /\ (declared # None => length = declared)

(***************************************************************************)
(* Only a body over the cap, by its declaration or by what arrived, is     *)
(* refused for its size.                                                   *)
(***************************************************************************)
RefusedOnlyIfTooLarge ==
  phase = "exceeded" => arrived > Cap \/ (declared # None /\ declared > Cap)
=============================================================================
