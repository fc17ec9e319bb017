----------------------------- MODULE StreamSession -----------------------------
(***************************************************************************)
(* The life of a host's stream session (stream-session-manager.ts) and of   *)
(* the publications it makes (publisher-manager.ts).                        *)
(*                                                                         *)
(* start, stop, restart and switchSource run one at a time, in the order    *)
(* they were requested (enqueueOp).  Each is a chain of awaits; between two *)
(* of them other code runs: the captured track may end, which requests a    *)
(* stop, and destroy(), which does not go through the queue, takes the      *)
(* session down piece by piece.                                             *)
(*                                                                         *)
(* One action is one stretch of code between two awaits.  Media tracks,     *)
(* publisher managers and streams are drawn in order from 1; 0 is null.     *)
(* Left out: audio, quality, metrics, viewer mappings, the permissions and  *)
(* the registry's entries, which none of the guards here reads.             *)
(***************************************************************************)
EXTENDS Integers, Sequences, FiniteSets

CONSTANTS
    MaxRequests, \* bound: requests of the user
    MaxQueue,    \* bound: requests waiting
    MaxTracks,   \* bound: captures
    Destroyable  \* the runtime may be destroyed

ASSUME SessionAssumption ==
    /\ MaxRequests \in Nat /\ MaxQueue \in Nat /\ MaxTracks \in Nat
    /\ Destroyable \in BOOLEAN

VARIABLES
    state,      \* _state
    destroyed,  \* destroyed
    stream,     \* logicalStreamId
    capture,    \* captureStream and currentTrack
    manager,    \* publisherManager
    timers,     \* the announcer's two timers run
    streams,    \* streams drawn so far
    managers,   \* every PublisherManager made so far
    tracks,     \* every media track captured so far
    watched,    \* the tracks whose ended handler is set
    queue,      \* requests waiting in _opQueue
    op,         \* where the running operation is, and its local variables
    end,        \* where destroy() is, and its local variables
    told,       \* the last lifecycle message sent of each stream
    requests    \* requests so far

vars == <<state, destroyed, stream, capture, manager, timers, streams, managers,
          tracks, watched, queue, op, end, told, requests>>

Kinds == {"start", "stop", "restart", "switch"}
States == {"idle", "starting", "active", "restarting", "stopping", "failed", "destroyed"}

\* publisher: a HostPublisher is held; stopping: stopCapture is under way.
Manager == [publisher : BOOLEAN, track : Nat, stopping : BOOLEAN]
NewManager == [publisher |-> FALSE, track |-> 0, stopping |-> FALSE]

\* live, or how it came to its end: its source ended it and the session asked
\* itself to stop, or did not notice; it was stopped, or replaced by a switch.
TrackStates == {"live", "ended", "unnoticed", "stopped", "replaced"}

\* at: the await the operation is in.  stream, manager and track are its local
\* variables; old is the capture a switch replaces.
Idle == [at |-> "idle", kind |-> "start", stream |-> 0, manager |-> 0, track |-> 0, old |-> 0]
Running == op.at # "idle"

Init ==
    /\ state = "idle" /\ destroyed = FALSE
    /\ stream = 0 /\ capture = 0 /\ manager = 0 /\ timers = FALSE
    /\ streams = 0 /\ managers = <<>> /\ tracks = <<>> /\ watched = {}
    /\ queue = <<>> /\ op = Idle
    /\ end = [at |-> "no", stream |-> 0, manager |-> 0, overtook |-> FALSE]
    /\ told = <<>> /\ requests = 0

-----------------------------------------------------------------------------
(* Shared pieces *)

LiveTracks == {t \in 1..Len(tracks) : tracks[t] = "live"}

\* Stop the tracks in S that still run, which fires no ended event.
StopTracks(S) ==
    tracks' = [t \in 1..Len(tracks) |->
                 IF t \in S /\ tracks[t] = "live" THEN "stopped" ELSE tracks[t]]

\* stopCapture of manager m: without a publisher it is done at once, otherwise
\* the publisher is stopped first.
StopManager(m) ==
    IF m = 0 \/ managers[m].stopping
      THEN UNCHANGED <<managers, watched>>
    ELSE IF managers[m].publisher
      THEN /\ managers' = [managers EXCEPT ![m].stopping = TRUE]
           /\ UNCHANGED watched
    ELSE /\ watched' = watched \ {managers[m].track}
         /\ managers' = [managers EXCEPT ![m].track = 0]

ManagerStopped(m) ==
    /\ managers[m].stopping
    /\ watched' = watched \ {managers[m].track}
    /\ managers' = [managers EXCEPT ![m] = NewManager]
    /\ UNCHANGED <<state, destroyed, stream, capture, manager, timers, streams,
                   tracks, queue, op, end, told, requests>>

\* cleanupPublisher awaits stopCapture.
Stopped(m) == m # 0 => ~managers[m].stopping

\* A lifecycle message is handed to the connection manager.
Tell(s, type) == told' = IF s = 0 THEN told ELSE [told EXCEPT ![s] = type]

-----------------------------------------------------------------------------
(* Requests *)
Request(kind) ==
    /\ requests < MaxRequests /\ requests' = requests + 1
    /\ Len(queue) < MaxQueue /\ queue' = Append(queue, kind)
    /\ UNCHANGED <<state, destroyed, stream, capture, manager, timers, streams, managers,
                   tracks, watched, op, end, told>>

\* The source of a track ends it.  The session asks itself to stop, unless the
\* ended handler is not set or the track is not the current one.
TrackEnds(t) ==
    /\ tracks[t] = "live"
    /\ LET noticed == t \in watched /\ t = capture
       IN /\ tracks' = [tracks EXCEPT ![t] = IF noticed THEN "ended" ELSE "unnoticed"]
          /\ queue' = IF noticed THEN Append(queue, "stop") ELSE queue
    /\ UNCHANGED <<state, destroyed, stream, capture, manager, timers, streams, managers,
                   watched, op, end, told, requests>>

Accepts(kind) ==
    CASE kind = "start"   -> ~destroyed /\ state \in {"idle", "failed"}
      [] kind = "stop"    -> ~destroyed /\ state \in {"active", "failed", "restarting"}
      [] kind = "restart" -> ~destroyed /\ state = "active"
      [] kind = "switch"  -> ~destroyed /\ state = "active" /\ manager # 0

Dequeue(kind) == ~Running /\ queue # <<>> /\ Head(queue) = kind /\ queue' = Tail(queue)

\* An operation that its state does not allow rejects, or does nothing.
Refuse ==
    /\ \E kind \in Kinds : Dequeue(kind) /\ ~Accepts(kind)
    /\ UNCHANGED <<state, destroyed, stream, capture, manager, timers, streams, managers,
                   tracks, watched, op, end, told, requests>>

-----------------------------------------------------------------------------
(* startStream and restartStream *)
\* Faulty variant of BeginStart: with the identifier of the stream before.
BeginStartSameStream ==
    /\ Dequeue("start") /\ Accepts("start")
    /\ state' = "starting"
    /\ streams' = 1 /\ stream' = 1
    /\ told' = IF streams = 0 THEN <<"nothing">> ELSE told
    /\ managers' = Append(managers, NewManager) /\ manager' = Len(managers) + 1
    /\ op' = [Idle EXCEPT !.at = "capture", !.kind = "start"]
    /\ UNCHANGED <<destroyed, capture, timers, tracks, watched, end, requests>>

BeginStart ==
    /\ Dequeue("start") /\ Accepts("start")
    /\ state' = "starting"
    /\ streams' = streams + 1 /\ stream' = streams + 1
    /\ told' = Append(told, "nothing")
    /\ managers' = Append(managers, NewManager) /\ manager' = Len(managers) + 1
    /\ op' = [Idle EXCEPT !.at = "capture", !.kind = "start"]
    /\ UNCHANGED <<destroyed, capture, timers, tracks, watched, end, requests>>

BeginRestart ==
    /\ Dequeue("restart") /\ Accepts("restart")
    /\ state' = "restarting" /\ timers' = FALSE
    /\ StopManager(manager)
    /\ op' = [Idle EXCEPT !.at = "restart.cleanup", !.kind = "restart",
                          !.stream = stream, !.manager = manager]
    /\ UNCHANGED <<destroyed, stream, capture, manager, streams, tracks, end,
                   told, requests>>

\* The old publication is down: its capture stops and a new manager is made.
RestartCleaned ==
    /\ op.at = "restart.cleanup" /\ Stopped(op.manager)
    /\ StopTracks({capture}) /\ capture' = 0
    /\ managers' = Append(managers, NewManager) /\ manager' = Len(managers) + 1
    /\ op' = [op EXCEPT !.at = "capture"]
    /\ UNCHANGED <<state, destroyed, stream, timers, streams, watched, queue, end,
                   told, requests>>

\* getDisplayMedia delivers a track.
Captured ==
    /\ op.at = "capture" /\ Len(tracks) < MaxTracks
    /\ tracks' = Append(tracks, "live") /\ capture' = Len(tracks) + 1
    /\ op' = [op EXCEPT !.at = "constraints"]
    /\ UNCHANGED <<state, destroyed, stream, manager, timers, streams, managers, watched,
                   queue, end, told, requests>>

\* startPublishing is called on the manager and the capture of that moment.
Publish ==
    /\ op.at = "constraints" /\ manager # 0 /\ capture # 0
    /\ op' = [op EXCEPT !.at = "connecting", !.manager = manager, !.track = capture]
    /\ UNCHANGED <<state, destroyed, stream, capture, manager, timers, streams, managers,
                   tracks, watched, queue, end, told, requests>>

\* The publisher is connected; a track that has ended is not published.
Connected ==
    /\ op.at = "connecting" /\ tracks[op.track] = "live"
    /\ op' = [op EXCEPT !.at = "publishing"]
    /\ UNCHANGED <<state, destroyed, stream, capture, manager, timers, streams, managers,
                   tracks, watched, queue, end, told, requests>>

\* Published: the ended handler is set, and the stream is announced.
\* startStream announces the session's stream, restartStream the one it began with.
Published ==
    /\ op.at = "publishing"
    /\ managers' = [managers EXCEPT ![op.manager].publisher = TRUE,
                                    ![op.manager].track = op.track]
    /\ watched' = watched \cup {op.track}
    /\ IF op.kind = "start" THEN Tell(stream, "started") ELSE Tell(op.stream, "restarted")
    /\ op' = [op EXCEPT !.at = "announcing"]
    /\ UNCHANGED <<state, destroyed, stream, capture, manager, timers, streams, tracks,
                   queue, end, requests>>

Announced ==
    /\ op.at = "announcing"
    /\ timers' = TRUE /\ state' = "active"
    /\ op' = Idle
    /\ UNCHANGED <<destroyed, stream, capture, manager, streams, managers, tracks, watched,
                   queue, end, told, requests>>

\* Phase A fails at any of its awaits, or because destroy() has taken the
\* manager or the capture away.
PhaseAFails ==
    /\ op.at \in {"capture", "constraints", "connecting", "publishing"}
    /\ op.at = "constraints" => manager = 0 \/ capture = 0
    /\ state' = "failed" /\ timers' = FALSE
    /\ StopManager(manager)
    /\ op' = [op EXCEPT !.at = "failed.cleanup", !.manager = manager]
    /\ UNCHANGED <<destroyed, stream, capture, manager, streams, tracks, queue, end,
                   told, requests>>

\* Faulty variant of ResetSession: the capture is dropped but not stopped.
ResetReferences ==
    /\ manager' = 0
    /\ tracks' = tracks /\ capture' = 0
    /\ stream' = 0

\* stopCaptureTracks and resetSessionState.
ResetSession ==
    /\ manager' = 0
    /\ StopTracks({capture}) /\ capture' = 0
    /\ stream' = 0

FailureCleaned ==
    /\ op.at = "failed.cleanup" /\ Stopped(op.manager)
    /\ ResetSession
    /\ op' = Idle
    /\ UNCHANGED <<state, destroyed, timers, streams, managers, watched, queue, end,
                   told, requests>>

-----------------------------------------------------------------------------
(* stopStream *)
BeginStop ==
    /\ Dequeue("stop") /\ Accepts("stop")
    /\ state' = "stopping" /\ timers' = FALSE
    /\ op' = [Idle EXCEPT !.at = "stop.audio", !.kind = "stop", !.stream = stream]
    /\ UNCHANGED <<destroyed, stream, capture, manager, streams, managers, tracks, watched,
                   end, told, requests>>

\* The local registry first, then the peers, then the publication.
StopTold ==
    /\ op.at = "stop.audio"
    /\ Tell(op.stream, "stopped")
    /\ StopManager(manager)
    /\ op' = [op EXCEPT !.at = "stop.cleanup", !.manager = manager]
    /\ UNCHANGED <<state, destroyed, stream, capture, manager, timers, streams, tracks,
                   queue, end, requests>>

\* Faulty variant of StopDone: the publication is not awaited.
StopDoneAtOnce ==
    /\ op.at = "stop.cleanup"
    /\ ResetSession
    /\ state' = "idle"
    /\ op' = Idle
    /\ UNCHANGED <<destroyed, timers, streams, managers, watched, queue, end,
                   told, requests>>

StopDone ==
    /\ op.at = "stop.cleanup" /\ Stopped(op.manager)
    /\ ResetSession
    /\ state' = "idle"
    /\ op' = Idle
    /\ UNCHANGED <<destroyed, timers, streams, managers, watched, queue, end,
                   told, requests>>

-----------------------------------------------------------------------------
(* switchSource *)
BeginSwitch ==
    /\ Dequeue("switch") /\ Accepts("switch")
    /\ op' = [Idle EXCEPT !.at = "switch.source", !.kind = "switch"]
    /\ UNCHANGED <<state, destroyed, stream, capture, manager, timers, streams, managers,
                   tracks, watched, end, told, requests>>

\* The ended handler of the old track goes before the new capture is asked for.
SwitchDetached ==
    /\ op.at = "switch.source" /\ state = "active" /\ ~destroyed /\ manager # 0
    /\ watched' = watched \ {managers[manager].track}
    /\ op' = [op EXCEPT !.at = "switch.capture"]
    /\ UNCHANGED <<state, destroyed, stream, capture, manager, timers, streams, managers,
                   tracks, queue, end, told, requests>>

\* Replace the published track, if the session is still there.
SwitchCaptured ==
    /\ op.at = "switch.capture" /\ Len(tracks) < MaxTracks
    /\ state = "active" /\ ~destroyed /\ manager # 0 /\ managers[manager].publisher
    /\ tracks' = Append(tracks, "live")
    /\ watched' = watched \ {managers[manager].track}
    /\ op' = [op EXCEPT !.at = "switch.replace", !.manager = manager,
                        !.track = Len(tracks) + 1, !.old = managers[manager].track]
    /\ UNCHANGED <<state, destroyed, stream, capture, manager, timers, streams, managers,
                   queue, end, told, requests>>

\* The SDK has replaced the track in its connections and stopped the old one.
SwitchReplaced ==
    /\ op.at = "switch.replace"
    /\ managers[op.manager].publisher /\ ~managers[op.manager].stopping
    /\ tracks' = IF op.old \in LiveTracks THEN [tracks EXCEPT ![op.old] = "replaced"] ELSE tracks
    /\ op' = [op EXCEPT !.at = "switch.verify"]
    /\ UNCHANGED <<state, destroyed, stream, capture, manager, timers, streams, managers,
                   watched, queue, end, told, requests>>

\* Every connection carries the new track: the switch is committed.
SwitchVerified ==
    /\ op.at = "switch.verify"
    /\ managers' = [managers EXCEPT ![op.manager].track = op.track]
    /\ watched' = watched \cup {op.track}
    /\ capture' = op.track
    /\ op' = [op EXCEPT !.at = "switch.constraints", !.old = capture]
    /\ UNCHANGED <<state, destroyed, stream, manager, timers, streams, tracks, queue, end,
                   told, requests>>

SwitchDone ==
    /\ op.at = "switch.constraints" /\ capture # 0
    /\ StopTracks({op.old})
    /\ op' = Idle
    /\ UNCHANGED <<state, destroyed, stream, capture, manager, timers, streams, managers,
                   watched, queue, end, told, requests>>

\* Faulty variant of SwitchFails: the queue never learns of the failure.
SwitchFailsSilently ==
    /\ op.at \in {"switch.source", "switch.capture", "switch.replace", "switch.verify"}
    /\ StopTracks({op.track})
    /\ op' = [op EXCEPT !.at = "rejected"]
    /\ UNCHANGED <<state, destroyed, stream, capture, manager, timers, streams, managers,
                   watched, queue, end, told, requests>>

\* Faulty variant of SwitchFails: the ended handler stays detached.
SwitchFailsDetached ==
    /\ op.at \in {"switch.source", "switch.capture", "switch.replace", "switch.verify",
                  "switch.constraints"}
    /\ op.at = "switch.constraints" => capture = 0
    /\ StopTracks(IF op.at \in {"switch.replace", "switch.verify"} THEN {op.track} ELSE {})
    /\ op' = Idle
    /\ UNCHANGED <<state, destroyed, stream, capture, manager, timers, streams, managers,
                   watched, queue, end, told, requests>>

\* The switch fails at an await, or finds the session gone: the new track is
\* stopped and the ended handler of the published track is set again.  Between
\* SwitchReplaced and SwitchVerified the failure is that a connection kept the
\* old track.
SwitchFails ==
    /\ op.at \in {"switch.source", "switch.capture", "switch.replace", "switch.verify",
                  "switch.constraints"}
    /\ op.at = "switch.constraints" => capture = 0
    /\ StopTracks(IF op.at \in {"switch.replace", "switch.verify"} THEN {op.track} ELSE {})
    /\ watched' = IF manager = 0 \/ managers[manager].track = 0 THEN watched
                  ELSE watched \cup {managers[manager].track}
    /\ op' = Idle
    /\ UNCHANGED <<state, destroyed, stream, capture, manager, timers, streams, managers,
                   queue, end, told, requests>>

-----------------------------------------------------------------------------
(* destroy *)
\* The awaits after which an operation puts a capture in place without looking at
\* what destroy() has done: a restart makes a manager of its own, and a switch does
\* not look at the session again.  end.overtook records that destroy() came then.
Resuming == {"restart.cleanup", "switch.replace", "switch.verify"}

BeginDestroy ==
    /\ Destroyable /\ ~destroyed
    /\ destroyed' = TRUE /\ timers' = FALSE
    /\ LET live == state \in {"active", "restarting"} /\ stream # 0
       IN /\ Tell(IF live THEN stream ELSE 0, "stopped")
          /\ end' = [end EXCEPT !.at = "telling", !.stream = IF live THEN stream ELSE 0,
                                !.overtook = op.at \in Resuming]
    /\ UNCHANGED <<state, stream, capture, manager, streams, managers, tracks, watched,
                   queue, op, requests>>

DestroyTold ==
    /\ end.at = "telling"
    /\ StopTracks({capture}) /\ capture' = 0
    /\ StopManager(manager)
    /\ end' = [end EXCEPT !.at = "cleanup", !.manager = manager]
    /\ UNCHANGED <<state, destroyed, stream, manager, timers, streams, queue, op, told,
                   requests>>

DestroyCleaned ==
    /\ end.at = "cleanup" /\ Stopped(end.manager)
    /\ manager' = IF end.manager = 0 THEN manager ELSE 0
    /\ end' = [end EXCEPT !.at = "store"]
    /\ UNCHANGED <<state, destroyed, stream, capture, timers, streams, managers, tracks,
                   watched, queue, op, told, requests>>

DestroyDone ==
    /\ end.at = "store"
    /\ StopTracks({capture}) /\ capture' = 0
    /\ stream' = 0 /\ state' = "destroyed"
    /\ end' = [end EXCEPT !.at = "done"]
    /\ UNCHANGED <<destroyed, manager, timers, streams, managers, watched, queue, op,
                   told, requests>>

-----------------------------------------------------------------------------
Begin == Refuse \/ BeginStart \/ BeginRestart \/ BeginStop \/ BeginSwitch

Continue ==
    \/ RestartCleaned \/ Captured \/ Publish \/ Connected \/ Published \/ Announced
    \/ PhaseAFails \/ FailureCleaned
    \/ StopTold \/ StopDone
    \/ SwitchDetached \/ SwitchCaptured \/ SwitchReplaced \/ SwitchVerified
    \/ SwitchDone \/ SwitchFails

Destroy == BeginDestroy \/ DestroyTold \/ DestroyCleaned \/ DestroyDone

Next ==
    \/ \E kind \in Kinds : Request(kind)
    \/ \E t \in 1..Len(tracks) : TrackEnds(t)
    \/ \E m \in 1..Len(managers) : ManagerStopped(m)
    \/ Begin \/ Continue \/ Destroy

Spec == Init /\ [][Next]_vars

\* Every await ends: capture is granted or refused, sends and publications
\* complete or fail, and a queued operation starts when the one before it ends.
Fairness ==
    /\ WF_vars(Begin) /\ WF_vars(Continue)
    /\ \A m \in 1..MaxRequests :
         WF_vars(m <= Len(managers) /\ ManagerStopped(m))

FairSpec == Spec /\ Fairness

-----------------------------------------------------------------------------
\* Every variable keeps its type.
TypeOK ==
    /\ state \in States /\ destroyed \in BOOLEAN /\ timers \in BOOLEAN
    /\ stream \in 0..streams /\ capture \in 0..Len(tracks) /\ manager \in 0..Len(managers)
    /\ \A m \in 1..Len(managers) :
         managers[m] \in Manager /\ managers[m].track \in 0..Len(tracks)
    /\ \A t \in 1..Len(tracks) : tracks[t] \in TrackStates
    /\ watched \subseteq 1..Len(tracks)
    /\ queue \in Seq(Kinds)
    /\ op.stream \in 0..streams /\ op.manager \in 0..Len(managers)
    /\ op.track \in 0..Len(tracks) /\ op.old \in 0..Len(tracks)
    /\ \A s \in 1..streams : told[s] \in {"nothing", "started", "restarted", "stopped"}

\* A screen capture that is still live is the session's, or one that the running
\* operation is putting in place; and when destroy() and the operation it overtook
\* are both through, none is live, unless destroy() overtook a restart that was
\* taking the old publication down or a switch that was replacing the track: these
\* two may leave a live capture behind (DestroyedHoldsNothing).
CaptureAccounted ==
    /\ \A t \in LiveTracks : t = capture \/ (Running /\ t \in {op.track, op.old})
    /\ end.at = "done" /\ ~Running /\ ~end.overtook => LiveTracks = {}

\* Every manager, track and stream the session names exists, and every live capture
\* is accounted for.
HoldingsInv == TypeOK /\ CaptureAccounted

StopQueued == \E i \in 1..Len(queue) : queue[i] = "stop"

\* An active session between operations is whole: its manager publishes the
\* current track, whose ended handler is set, the timers run, and the last thing
\* peers were told of the stream is that it runs.  The session has never stopped
\* that track, and if it noticed its end, a stop is queued.  What remains is a
\* track that a failed switch has replaced (FailedSwitchKeepsStream) and one that
\* ended while no handler was set (EndIsNoticed).
ActiveIsWhole ==
    (state = "active" /\ ~Running /\ ~destroyed) =>
        /\ stream # 0 /\ told[stream] \in {"started", "restarted"} /\ timers
        /\ manager # 0 /\ managers[manager].publisher /\ ~managers[manager].stopping
        /\ managers[manager].track = capture /\ capture # 0 /\ capture \in watched
        /\ tracks[capture] # "stopped" /\ (tracks[capture] = "ended" => StopQueued)

\* A session that is not running holds nothing: no capture, timer or publication
\* of this or an earlier manager.
QuietWhenIdle ==
    (state \in {"idle", "failed"} /\ ~Running /\ ~destroyed) =>
        /\ stream = 0 /\ capture = 0 /\ manager = 0 /\ ~timers /\ LiveTracks = {}
        /\ \A m \in 1..Len(managers) : ~managers[m].publisher

\* Where each stream is in its life, by what peers were told of it.
Phase ==
    LET restarting == op.kind = "restart" /\ op.at \in
                        {"restart.cleanup", "capture", "constraints", "connecting",
                         "publishing", "failed.cleanup"}
    IN [s \in 1..MaxRequests |->
          IF s > streams THEN "new"
          ELSE IF told[s] = "stopped" THEN "stopped"
          ELSE IF s # stream THEN "lost"
          ELSE IF told[s] = "nothing" THEN "starting"
          ELSE IF restarting THEN "restarting" ELSE "active"]

Life == INSTANCE StreamLife WITH
           Streams <- 1..MaxRequests, Owner <- [s \in 1..MaxRequests |-> "host"],
           phase <- Phase, over <- destroyed

\* Until destroy(), and whatever fails at whichever await, the session does with
\* its streams what StreamLife promises: peers are never told that a stream runs
\* after they were told that it stopped, or of two streams at a time.
ImplementsStreamLife == Life!Spec

\* A source switch that fails leaves the existing stream untouched
\* (stream-session-manager.ts:824): the session never stops its own capture and
\* stays active.
FailedSwitchKeepsStream ==
    (state = "active" /\ ~Running /\ ~destroyed) =>
        tracks[capture] \notin {"stopped", "replaced"}

\* The old track ending naturally triggers stopStream, after a failed switch too
\* (publisher-manager.ts:574-578): an active session's capture has not ended
\* without the session asking itself to stop.
EndIsNoticed ==
    (state = "active" /\ ~Running /\ ~destroyed) => tracks[capture] # "unnoticed"

\* Display-capture tracks are never orphaned (stream-session-manager.ts:1526): a
\* destroyed session captures nothing.
DestroyedHoldsNothing == end.at = "done" /\ ~Running => LiveTracks = {}

\* After destroy() no new broadcast is made
\* (host-connect-view-pipeline-hardening-design.md:185): no stream is announced.
DestroyIsFinal ==
    [][end.at = "done" => \A s \in 1..streams : told'[s] \in {told[s], "stopped"}]_vars

\* A requested stop ends the stream that runs when it is requested.
StopEndsStream ==
    \A s \in 1..MaxRequests :
        (stream = s /\ StopQueued) ~> (stream # s \/ destroyed)
=============================================================================
