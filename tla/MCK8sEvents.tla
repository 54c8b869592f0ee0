---------------------------- MODULE MCK8sEvents ----------------------------
(***************************************************************************)
(* Events with whole seconds, with fractions or without any stamp, of      *)
(* narrow and wide characters.                                             *)
(***************************************************************************)
EXTENDS K8sEvents

Whole(s) == [second |-> s, fraction |-> None]
Exact(s, f) == [second |-> s, fraction |-> f]
Seen(lastSeen, time, created, width) ==
  [lastTimestamp |-> lastSeen, eventTime |-> time, created |-> created, width |-> width]

\* No second with stamps of both forms.
UniformEvents ==
  {Seen(Whole(1), None, Whole(0), 1), Seen(Whole(2), Exact(9, 5), Whole(0), 3),
   Seen(None, None, Whole(2), 4), Seen(None, Exact(3, 250000), Whole(3), 4),
   Seen(None, Exact(3, 5), Whole(3), 1), Seen(None, None, None, 1)}

\* The new event API sets eventTime, with microseconds, and no lastTimestamp.
MixedEvents == {Seen(Whole(1), None, Whole(0), 1), Seen(None, Exact(1, 250000), Whole(1), 1)}
=============================================================================
