----------------------------- MODULE K8sEvents -----------------------------
(***************************************************************************)
(* What k8s_events and cap_output of src/src/k8s.rs make of the events a   *)
(* cluster returns: the most recent ones by a time stamp that is compared  *)
(* as text, newest first, cut to a size.  The list is in any order.        *)
(***************************************************************************)
EXTENDS Integers, Sequences, FiniteSets, SequencesExt

CONSTANTS
  Events,      \* events a namespace may hold, see Event below
  MaxEvents,   \* bound: events in a namespace
  Lasts,       \* values of the argument `last`; 0 when it is not given
  DefaultLast, \* how many events are returned then
  MAX_OUTPUT,  \* the size of an answer, in bytes
  None         \* Option::None, a missing or null field

(***************************************************************************)
(* A time stamp is whole seconds ("...:07Z") or has a fraction of six      *)
(* digits ("...:07.250000Z"), microseconds here; fraction = None is the    *)
(* first form.  An event is one character of the answer, of `width` bytes; *)
(* what the JSON has around the events is left out.                        *)
(***************************************************************************)
Stamp == [second: Nat, fraction: {None} \cup Nat]
Event == [lastTimestamp: Stamp \cup {None}, eventTime: Stamp \cup {None},
          created: Stamp \cup {None}, width: 1..4]

ASSUME EventsAssumption ==
  /\ Events \subseteq Event /\ MaxEvents \in Nat
  /\ Lasts \subseteq Nat /\ DefaultLast \in Nat /\ MAX_OUTPUT \in Nat

VARIABLES
  items,   \* the events as kubectl returns them
  last,    \* the argument
  recent,  \* the positions in items of the events reported, None before the call
  sent     \* the answer: the events its text shows, and whether it is a preview

vars == <<items, last, recent, sent>>

\* event_ts: the first of three fields that is there.
event_ts(e) ==
  IF e.lastTimestamp # None THEN e.lastTimestamp
  ELSE IF e.eventTime # None THEN e.eventTime ELSE e.created

\* The order of the texts: '.' sorts before 'Z', and "" before everything.
TextBefore(s, t) ==
  /\ t # None
  /\ \/ s = None
     \/ s # None /\ s.second < t.second
     \/ /\ s # None /\ s.second = t.second
        /\ s.fraction # None /\ (t.fraction = None \/ s.fraction < t.fraction)

\* The place of items[i] after the stable sort by event_ts.
Place(i) ==
  LET key(j) == event_ts(items[j])
  IN  1 + Cardinality({j \in DOMAIN items :
            \/ TextBefore(key(j), key(i))
            \/ ~TextBefore(key(i), key(j)) /\ j < i})

\* Variant: the first n of the sorted list.
Selected_Oldest(n) ==
  [k \in 1..n |-> CHOOSE i \in DOMAIN items : Place(i) = k]

\* Variant: the n last of the sorted list in its order, the newest at the end.
Selected_Ascending(n) ==
  [k \in 1..n |-> CHOOSE i \in DOMAIN items : Place(i) = Len(items) - n + k]

\* The n last of the sorted list, in reverse.
Selected(n) ==
  [k \in 1..n |-> CHOOSE i \in DOMAIN items : Place(i) = Len(items) + 1 - k]

\* The bytes of a text: <<k, b>> is the b-th byte of its k-th character.
Bytes(text) ==
  Cardinality({p \in (DOMAIN text) \X (1..4) : p[2] <= items[text[p[1]]].width})

\* The size is taken in bytes, the preview in characters from the beginning.
cap_output(text) ==
  IF Bytes(text) > MAX_OUTPUT
  THEN [truncated |-> TRUE,
        shown |-> SubSeq(text, 1, IF Len(text) < MAX_OUTPUT THEN Len(text) ELSE MAX_OUTPUT)]
  ELSE [truncated |-> FALSE, shown |-> text]

Init ==
  /\ items \in UNION {[1..n -> Events] : n \in 0..MaxEvents}
  /\ last \in Lasts
  /\ recent = None /\ sent = None

\* events, from the JSON of kubectl on.
events ==
  /\ recent = None
  /\ LET wanted == IF last = 0 THEN DefaultLast ELSE last
         n == IF wanted < Len(items) THEN wanted ELSE Len(items)
     IN  recent' = Selected(n)
  /\ sent' = cap_output(recent')
  /\ UNCHANGED <<items, last>>

Returned == recent # None /\ UNCHANGED vars

Next == events \/ Returned
Spec == Init /\ [][Next]_vars

----------------------------------------------------------------------------
\* The order in time; an event without a stamp is older than any other.
OlderThan(s, t) ==
  /\ t # None
  /\ \/ s = None
     \/ s # None /\ s.second < t.second
     \/ /\ s # None /\ s.second = t.second
        /\ (IF s.fraction = None THEN 0 ELSE s.fraction)
             < (IF t.fraction = None THEN 0 ELSE t.fraction)

Time(i) == event_ts(items[i])

(***************************************************************************)
(* The tool's promise ("the most recent `last` events", "newest first";    *)
(* "RFC3339 timestamps sort lexicographically == chronologically"): the    *)
(* answer is in order of time, no event is in it twice, as many are in it  *)
(* as were asked for, and every event left out is no newer than one that   *)
(* is reported.                                                            *)
(***************************************************************************)
MostRecentFirst ==
  recent # None =>
    /\ IsInjective(recent) /\ Range(recent) \subseteq DOMAIN items
    /\ \A k, m \in DOMAIN recent : k < m => ~OlderThan(Time(recent[k]), Time(recent[m]))
    /\ \A i \in DOMAIN items \ Range(recent) :
         \A k \in DOMAIN recent : ~OlderThan(Time(recent[k]), Time(i))
    /\ Len(recent) = IF last = 0 THEN Min({DefaultLast, Len(items)})
                     ELSE Min({last, Len(items)})

(***************************************************************************)
(* What reaches the caller, after both cuts: no event of the namespace     *)
(* that is missing, by `last` or by the size, is newer than one that is    *)
(* shown; one that was asked for is missing only under the mark; and the   *)
(* text weighs at most the limit, or, being marked, between once and four  *)
(* times the limit: the preview is cut in characters, so four times is all *)
(* that holds of the "~32KB" the module promises.                          *)
(***************************************************************************)
CutsLoseTheOldest ==
  recent # None =>
    /\ \A i \in DOMAIN items \ Range(sent.shown) :
         \A k \in DOMAIN sent.shown : ~OlderThan(Time(sent.shown[k]), Time(i))
    /\ ~sent.truncated =>
         /\ Len(sent.shown) = IF last = 0 THEN Min({DefaultLast, Len(items)})
                              ELSE Min({last, Len(items)})
         /\ Bytes(sent.shown) <= MAX_OUTPUT
    /\ sent.truncated =>
         MAX_OUTPUT <= Bytes(sent.shown) /\ Bytes(sent.shown) <= 4 * MAX_OUTPUT
=============================================================================
