------------------------------- MODULE StreamLife -------------------------------
(***************************************************************************)
(* What a host promises the group about its streams, without saying how.    *)
(*                                                                         *)
(* A stream is new, then being started, active and restarting, and ends     *)
(* stopped, of which the peers are told, or lost, of which they are not: a  *)
(* start or restart failed.  Neither end is left again, and a host runs one *)
(* stream at a time.  Once its runtime is destroyed (over) a host promises  *)
(* nothing more.                                                            *)
(*                                                                         *)
(* StreamSession, which has every await of the session manager, implements  *)
(* this, and so does StreamDiscovery, which takes a session as a few atomic *)
(* steps: what the one establishes is what the other builds on.             *)
(***************************************************************************)

CONSTANTS
    Streams,  \* the streams of all hosts
    Owner     \* the host of each

VARIABLES
    phase,    \* where each stream is in its life
    over      \* the host's runtime is destroyed

vars == <<phase, over>>

Running == {"starting", "active", "restarting"}
Phases == Running \cup {"new", "stopped", "lost"}

Init ==
    /\ phase = [k \in Streams |-> "new"]
    /\ over = FALSE

Move(k, from, to) ==
    /\ phase[k] \in from
    /\ phase' = [phase EXCEPT ![k] = to]

Start(k) ==
    /\ \A j \in Streams : Owner[j] = Owner[k] => phase[j] \notin Running
    /\ Move(k, {"new"}, "starting")

Announce(k) == Move(k, {"starting", "restarting"}, "active")
Restart(k) == Move(k, {"active"}, "restarting")
Lose(k) == Move(k, {"new", "starting", "restarting"}, "lost")
Stop(k) == Move(k, {"active"}, "stopped")

\* After the end of the runtime anything may be said of its streams.
Abandon ==
    /\ over' = TRUE
    /\ phase' \in [Streams -> Phases]

Next ==
    \/ \E k \in Streams :
         /\ Start(k) \/ Announce(k) \/ Restart(k) \/ Lose(k) \/ Stop(k)
         /\ over = FALSE /\ over' = FALSE
    \/ Abandon

Spec == Init /\ [][Next]_vars

-----------------------------------------------------------------------------
\* A host runs at most one stream at a time.
OneAtATime ==
    over = FALSE =>
       \A j, k \in Streams :
          Owner[j] = Owner[k] /\ phase[j] \in Running /\ phase[k] \in Running => j = k

\* A stream that has stopped or was lost never runs again.
EndedForGood ==
    [][\A k \in Streams :
          over' = FALSE /\ phase[k] \in {"stopped", "lost"} => phase'[k] = phase[k]]_vars
=============================================================================
