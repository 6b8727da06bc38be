--------------------------- MODULE MCSirenSession ---------------------------
(* SirenSession on small instances. *)
EXTENDS SirenSession

\* A frame yields nothing, one event, or an event followed by falling asleep.
NoEvents == {<<>>}
TwoEvents == {<<Event, SleepEvent>>}
SomeEvents == {<<>>, <<Event>>, <<Event, SleepEvent>>}
=============================================================================
