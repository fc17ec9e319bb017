--------------------------- MODULE MCStreamDiscovery ---------------------------
(***************************************************************************)
(* StreamDiscovery for TLC.  Device h hosts every stream; the other devices *)
(* are interchangeable.                                                     *)
(***************************************************************************)
EXTENDS StreamDiscovery, TLC

CONSTANT h

MCOwner == [k \in Streams |-> h]

Viewers == Permutations(Devices \ {h})

\* The state without heard, a history that no step and only one property reads.
Unheard == <<registry, host, unused, net, due, refreshes, retired, aired>>
=============================================================================
