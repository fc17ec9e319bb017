--------------------------- MODULE ViewerController ---------------------------
(***************************************************************************)
(* The viewer's session controller (viewer-session-controller.ts) with its  *)
(* connection supervisor (connection-supervisor.ts): one viewer session at  *)
(* a time, a queue of operations, a health monitor that recovers the        *)
(* session, and two detectors of the end of the stream.                     *)
(*                                                                         *)
(* start, recover, pause, resume, stop and the reaction to an end run one   *)
(* after another (_enqueue); each is a chain of awaits.  The next operation *)
(* begins in the microtask that ends the one before it, so timers and       *)
(* events come in only while an operation awaits or the queue is empty      *)
(* (Turn).  destroy() does not go through the queue, and the queue does not *)
(* wait for the teardown that destroy() awaits.                             *)
(*                                                                         *)
(* The streams are the host's media sessions, drawn in order; a viewer      *)
(* session is known here by what it tells the controller.  Left out:        *)
(* metrics, quality feedback and the length of the backoff.                 *)
(***************************************************************************)
EXTENDS Integers, Sequences, FiniteSets

CONSTANTS
    MaxRequests, \* bound: requests of the user
    MaxStreams,  \* bound: media sessions of the host
    MaxSessions, \* bound: viewer sessions made
    MaxQueue,    \* bound: operations waiting
    MaxChanges   \* bound: changes of the control connection's state

ASSUME ControllerAssumption ==
    /\ MaxRequests \in Nat /\ MaxStreams \in Nat /\ MaxSessions \in Nat /\ MaxQueue \in Nat
    /\ MaxChanges \in Nat

VARIABLES
    gen,        \* _gen
    queue,      \* operations waiting in _opQueue
    op,         \* the running operation: its await, its kind and its locals
    phase,      \* _phase
    target,     \* _target; 0 is null
    sessions,   \* every ViewerSession made
    current,    \* _session; 0 is null
    supervisor, \* the supervisor's state (now) and its cached snapshot (seen)
    monitor,    \* generation of the running health monitor; 0 is none
    timer,      \* generation of the recovery timer that can be cancelled; 0 is none
    lost,       \* generations of recovery timers whose handle was overwritten
    inFlight,   \* _recoveryInFlight
    watching,   \* the stream whose end the store subscription looks for; 0 is none
    deathWatch, \* generation of the transport death watch; 0 is none
    live,       \* the media session the host runs; 0 is none
    streams,    \* media sessions of the host so far
    channel,    \* the state of the group's control connection
    changes,    \* changes of it so far
    requests,   \* requests of the user so far
    stopped,    \* the user's last request is a stop
    destroyed,  \* destroy() was called
    destroying  \* the session whose teardown destroy() awaits; 0 is none

control == <<gen, queue, op, phase, target>>
session == <<sessions, current>>
health == <<supervisor, monitor, timer, lost, inFlight>>
detectors == <<watching, deathWatch>>
world == <<live, streams, channel, changes>>
user == <<requests, stopped, destroyed, destroying>>
vars == <<control, session, health, detectors, world, user>>

Phases == {"idle", "connecting", "watching", "reconnecting", "ended", "error"}
Idle == [at |-> "idle", kind |-> "none", stream |-> 0, gen |-> 0]
Op(kind, s, g) == [kind |-> kind, stream |-> s, gen |-> g]
Fresh == [control |-> "down", media |-> "none", paused |-> FALSE, stop |-> FALSE]

Init ==
    /\ gen = 1 /\ queue = <<>> /\ op = Idle /\ phase = "idle" /\ target = 0
    /\ sessions = <<>> /\ current = 0
    /\ supervisor = [now |-> Fresh, seen |-> Fresh]
    /\ monitor = 0 /\ timer = 0 /\ lost = {} /\ inFlight = FALSE
    /\ watching = 0 /\ deathWatch = 0
    /\ live = 0 /\ streams = 0 /\ channel = "connected" /\ changes = 0
    /\ requests = 0 /\ stopped = FALSE /\ destroyed = FALSE /\ destroying = 0

\* A teardown that an operation awaits; destroy() awaits its own.
Closing == \E i \in 1..Len(sessions) : sessions[i].state = "closing" /\ i # destroying

\* The running operation waits for a timer or an event: a teardown that is already
\* over takes only microtasks.
Awaits ==
    CASE op.at = "idle" -> FALSE
      [] op.at \in {"clearing", "cleaning", "stopping", "ending"} -> Closing
      [] OTHER -> TRUE

\* Timers and events come in while an operation awaits or none is left.
Turn == Awaits \/ (op.at = "idle" /\ queue = <<>>)

Current == sessions[current]
\* Callbacks of session i still count.
Heeded(i) == i # 0 /\ sessions[i].gen = gen /\ sessions[i].state \notin {"closing", "closed"}

-----------------------------------------------------------------------------
(* The supervisor: its reports publish a new snapshot only when something they *)
(* look at has changed.                                                       *)

Published(s) == [now |-> s, seen |-> s]

\* reportControlConnected clears the stop flag even when it publishes nothing.
ReportControl(s, c) ==
    LET cleared == IF c = "up" THEN [s EXCEPT !.now.stop = FALSE] ELSE s
    IN IF c = s.now.control THEN cleared
       ELSE Published([cleared.now EXCEPT !.control = c])

ReportMedia(s, m) ==
    IF m = s.now.media /\ m # "progressing" THEN s ELSE Published([s.now EXCEPT !.media = m])

\* checkMediaStall, when no byte has come for longer than the threshold.
CheckStall(s) ==
    IF s.now.paused \/ s.now.media # "progressing" THEN s ELSE ReportMedia(s, "stalled")

SetPaused(s, p) == IF s.now.paused = p THEN s ELSE Published([s.now EXCEPT !.paused = p])
MarkIntentionalStop(s) == IF s.now.stop THEN s ELSE Published([s.now EXCEPT !.stop = TRUE])
Cancelled == Published(Fresh)

\* _checkRecovery reads the snapshot, not the state.
NeedsRecovery(s) ==
    /\ ~s.seen.stop /\ s.seen.control # "recovering"
    /\ s.seen.control = "down" \/ s.seen.media \in {"down", "stalled"}

-----------------------------------------------------------------------------
(* Pieces of the operations *)

StopMonitor == monitor' = 0 /\ timer' = 0 /\ UNCHANGED lost

StartMonitor == monitor' = gen /\ timer' = 0 /\ UNCHANGED lost

\* _destroySession up to its await: the session's teardown has begun.
DestroySession ==
    /\ watching' = 0 /\ deathWatch' = 0 /\ current' = 0
    /\ sessions' = IF current = 0 THEN sessions
                   ELSE [sessions EXCEPT ![current] = [@ EXCEPT !.state = "closing", !.paused = FALSE,
                                                              !.flow = FALSE]]

\* destroy() of a session emits "ended" to a controller that still heeds it.
PhaseAfterDestroy(p) ==
    IF Heeded(current) /\ Current.state # "ended" THEN "ended" ELSE p

\* The teardown that the operation awaited has settled.
Closed == [i \in 1..Len(sessions) |->
             [sessions[i] EXCEPT !.state = IF @ = "closing" /\ i # destroying THEN "closed" ELSE @]]

Enqueue(o) == Len(queue) < MaxQueue /\ queue' = Append(queue, o)

Go(at, kind, s) == op' = [at |-> at, kind |-> kind, stream |-> s, gen |-> 0]

\* Faulty variant of EnterStart: a recovery that it cancels stays in flight.
EnterStartInFlight(kind, s) ==
    /\ StopMonitor /\ supervisor' = Cancelled /\ UNCHANGED inFlight
    /\ gen' = gen + 1 /\ DestroySession
    /\ Go("clearing", kind, s)

\* The first stretch of _startImpl, by the operation of that kind.
EnterStart(kind, s) ==
    /\ StopMonitor /\ supervisor' = Cancelled /\ inFlight' = FALSE
    /\ gen' = gen + 1 /\ DestroySession
    /\ Go("clearing", kind, s)

-----------------------------------------------------------------------------
(* Requests *)

Request == requests < MaxRequests /\ requests' = requests + 1 /\ ~destroyed

\* The user starts watching the stream the host runs.
RequestStart ==
    /\ Turn /\ live # 0 /\ Request /\ stopped' = FALSE
    /\ Enqueue(Op("start", live, 0))
    /\ UNCHANGED <<gen, op, phase, target, session, health, detectors, world, destroyed, destroying>>

RequestRecover ==
    /\ Turn /\ Request /\ phase \in {"ended", "error", "reconnecting"} /\ stopped' = FALSE
    /\ Enqueue(Op("recover", 0, 0))
    /\ UNCHANGED <<gen, op, phase, target, session, health, detectors, world, destroyed, destroying>>

\* togglePause decides inside the queue.
RequestToggle ==
    /\ Turn /\ Request /\ phase \in {"watching", "ended", "error"}
    /\ Enqueue(Op("toggle", 0, 0))
    /\ UNCHANGED <<gen, op, phase, target, session, health, detectors, world, stopped,
                   destroyed, destroying>>

\* stop() invalidates the callbacks at once and tears down in its turn.
RequestStop ==
    /\ Turn /\ Request /\ phase # "idle" /\ stopped' = TRUE
    /\ gen' = gen + 1
    /\ Enqueue(Op("stop", 0, 0))
    /\ UNCHANGED <<op, phase, target, session, health, detectors, world, destroyed, destroying>>

-----------------------------------------------------------------------------
(* The operations, from the queue *)

Begin(kind) ==
    /\ op.at = "idle" /\ queue # <<>> /\ Head(queue).kind = kind
    /\ queue' = Tail(queue)

BeginStart ==
    /\ Begin("start") /\ EnterStart("start", Head(queue).stream)
    /\ UNCHANGED <<phase, target, world, user>>

\* _retryImpl asks for a sync of the group first.
BeginRecover ==
    /\ Begin("recover") /\ phase' = "reconnecting" /\ Go("syncing", "recover", 0)
    /\ UNCHANGED <<gen, target, session, health, detectors, world, user>>

\* A recovery of the health monitor, unless the attempt it was for is over.
BeginAuto ==
    /\ Begin("auto")
    /\ IF Head(queue).gen = gen
       THEN phase' = "reconnecting" /\ Go("syncing", "auto", 0) /\ UNCHANGED inFlight
       ELSE inFlight' = FALSE /\ UNCHANGED <<phase, op>>
    /\ UNCHANGED <<gen, target, session, supervisor, monitor, timer, lost, detectors, world, user>>

\* A session that has failed or ended may still have the client it pauses.
BeginToggle ==
    /\ Begin("toggle")
    /\ IF current # 0 /\ Current.state # "joining"
       THEN /\ Go("toggling", "toggle", 0)
            /\ supervisor' = IF Heeded(current) THEN SetPaused(supervisor, ~Current.paused)
                             ELSE supervisor
       ELSE UNCHANGED <<op, supervisor>>
    /\ UNCHANGED <<gen, phase, target, session, monitor, timer, lost, inFlight, detectors, world,
                   user>>

BeginStop ==
    /\ Begin("stop") /\ StopMonitor /\ supervisor' = Cancelled /\ inFlight' = FALSE
    /\ DestroySession /\ phase' = PhaseAfterDestroy(phase) /\ Go("stopping", "stop", 0)
    /\ UNCHANGED <<gen, target, world, user>>

\* The reaction to an end of the stream asks for no generation.
BeginEnd ==
    /\ Begin("end") /\ DestroySession /\ phase' = PhaseAfterDestroy(phase)
    /\ Go("ending", "end", 0)
    /\ UNCHANGED <<gen, target, health, world, user>>

\* requestGroupSync has settled: the target is refreshed and the session destroyed.
SyncDone ==
    /\ op.at = "syncing"
    /\ target' = IF target # 0 /\ live # 0 THEN live ELSE target
    /\ DestroySession /\ phase' = PhaseAfterDestroy(phase)
    /\ op' = [op EXCEPT !.at = "cleaning"]
    /\ UNCHANGED <<gen, queue, health, world, user>>

\* Without a target the recovery gives up, otherwise it runs _startImpl.
CleanDone ==
    /\ op.at = "cleaning" /\ sessions' = Closed
    /\ IF target = 0
       THEN /\ phase' = "error" /\ op' = Idle /\ inFlight' = (inFlight /\ op.kind # "auto")
            /\ UNCHANGED <<gen, current, supervisor, monitor, timer, lost, detectors>>
       ELSE /\ StopMonitor /\ supervisor' = Cancelled /\ inFlight' = FALSE /\ gen' = gen + 1
            /\ watching' = 0 /\ deathWatch' = 0 /\ current' = 0
            /\ Go("clearing", op.kind, target) /\ UNCHANGED phase
    /\ UNCHANGED <<queue, target, world, user>>

NewSession(s) == [stream |-> s, gen |-> gen, state |-> "joining", paused |-> FALSE, flow |-> FALSE]

\* Faulty variant of ClearDone: the old session's teardown is not awaited.
ClearDoneEarly ==
    /\ op.at = "clearing" /\ Len(sessions) < MaxSessions
    /\ sessions' = Append(sessions, NewSession(op.stream))
    /\ current' = Len(sessions) + 1 /\ target' = op.stream /\ phase' = "connecting"
    /\ op' = [op EXCEPT !.at = "starting", !.gen = gen]
    /\ UNCHANGED <<gen, queue, health, detectors, world, user>>

\* The old session is gone, unless it is destroy() that tears it down: a new one is made
\* and starts to join.
ClearDone ==
    /\ op.at = "clearing" /\ Len(sessions) < MaxSessions
    /\ sessions' = Append(Closed, NewSession(op.stream))
    /\ current' = Len(sessions) + 1 /\ target' = op.stream /\ phase' = "connecting"
    /\ op' = [op EXCEPT !.at = "starting", !.gen = gen]
    /\ UNCHANGED <<gen, queue, health, detectors, world, user>>

\* session.start has settled, whatever came of the session: it may still wait for its
\* first picture, or have been torn down.  Unless the generation
\* has moved on, the detectors and the monitor are put in place.  (The store module
\* is in the same bundle: its import takes only microtasks.)
StartDone ==
    /\ op.at = "starting" /\ sessions[Len(sessions)].state # "joining"
    /\ op' = Idle /\ inFlight' = (inFlight /\ op.kind # "auto")
    /\ IF op.gen = gen
       THEN watching' = op.stream /\ deathWatch' = gen /\ StartMonitor
       ELSE UNCHANGED <<detectors, monitor, timer, lost>>
    /\ UNCHANGED <<gen, queue, phase, target, session, supervisor, world, user>>

\* pause() or resume() of the session has settled.  The host may have refused.
ToggleDone ==
    /\ op.at = "toggling" /\ op' = Idle
    /\ \E p \in BOOLEAN :
          IF current = 0 THEN p /\ UNCHANGED <<sessions, supervisor>>
          ELSE /\ sessions' = [sessions EXCEPT ![current].paused = p,
                                               ![current].flow = @ /\ ~p]
               /\ supervisor' = IF Heeded(current) THEN SetPaused(supervisor, p) ELSE supervisor
    /\ UNCHANGED <<gen, queue, phase, target, current, monitor, timer, lost, inFlight, detectors,
                   world, user>>

\* Faulty variant of StopDone: the target is kept for the next start.
StopDoneKeepingTarget ==
    /\ op.at = "stopping" /\ op' = Idle /\ sessions' = Closed /\ phase' = "idle"
    /\ UNCHANGED <<gen, queue, target, current, health, detectors, world, user>>

StopDone ==
    /\ op.at = "stopping" /\ op' = Idle /\ sessions' = Closed
    /\ target' = 0 /\ phase' = "idle"
    /\ UNCHANGED <<gen, queue, current, health, detectors, world, user>>

EndDone ==
    /\ op.at = "ending" /\ op' = Idle /\ sessions' = Closed /\ phase' = "ended"
    /\ UNCHANGED <<gen, queue, target, current, health, detectors, world, user>>

-----------------------------------------------------------------------------
(* What the session, the store, the transport and the timers report *)

\* The session's join comes to something: it waits for its first picture, watches, fails
\* or hears that the share is over.
Joined ==
    /\ Turn /\ current # 0 /\ Current.state \in {"joining", "connecting"}
    /\ \E st \in {"connecting", "watching", "ended", "error"} \ {Current.state} :
          /\ st \in {"connecting", "watching"} => Current.stream = live
          /\ sessions' = [sessions EXCEPT ![current].state = st,
                              ![current].flow = st = "watching" /\ ~Current.paused]
          /\ phase' = IF Heeded(current) THEN st ELSE phase
    /\ UNCHANGED <<gen, queue, op, target, current, health, detectors, world, user>>

\* A session stops by itself: its remote track ended, or the host took it away.
SessionEnds ==
    /\ Turn /\ current # 0 /\ Current.state = "watching"
    /\ sessions' = [sessions EXCEPT ![current].state = "ended", ![current].flow = FALSE]
    /\ phase' = IF Heeded(current) THEN "ended" ELSE phase
    /\ UNCHANGED <<gen, queue, op, target, current, health, detectors, world, user>>

\* The media of a session dies silently, or runs (again).
MediaChanges ==
    /\ Turn /\ current # 0 /\ Current.state = "watching" /\ ~Current.paused
    /\ Current.stream = live \/ Current.flow
    /\ sessions' = [sessions EXCEPT ![current].flow = ~@]
    /\ UNCHANGED <<control, current, health, detectors, world, user>>

\* The store no longer lists the stream a playing session watches.
StoreLosesStream ==
    /\ Turn /\ watching # 0 /\ watching # live
    /\ current # 0 /\ Current.state = "watching" /\ ~Current.paused
    /\ supervisor' = MarkIntentionalStop(supervisor)
    /\ Enqueue(Op("end", 0, 0))
    /\ UNCHANGED <<gen, op, phase, target, session, monitor, timer, lost, inFlight, detectors,
                   world, user>>

\* Faulty variant of SettleEnded: a recovery that is under way is left to it.
SettleUnlessReconnecting ==
    IF phase = "reconnecting" THEN UNCHANGED queue ELSE Enqueue(Op("end", 0, 0))

\* _settleEnded
SettleEnded == Enqueue(Op("end", 0, 0))

\* The peer connection or its track has died: _handleTransportDeath.  Its listeners stay
\* until the session is torn down, and may say so again.
TransportDies ==
    /\ Turn /\ deathWatch # 0 /\ deathWatch = gen
    /\ phase \notin {"ended", "idle"}
    /\ StopMonitor /\ supervisor' = MarkIntentionalStop(supervisor)
    /\ SettleEnded
    /\ UNCHANGED <<gen, op, phase, target, session, inFlight, detectors, world, user>>

\* _scheduleRecovery, in the microtask after the tick.
ScheduleRecovery(s) ==
    IF ~inFlight /\ NeedsRecovery(s)
    THEN /\ inFlight' = TRUE /\ timer' = gen /\ phase' = "reconnecting"
         /\ lost' = lost \cup ({timer} \ {0})
    ELSE UNCHANGED <<inFlight, timer, lost, phase>>

ControlHealth ==
    IF target = 0 THEN "down"
    ELSE CASE channel = "connected" -> "up" [] channel = "reconnecting" -> "recovering"
           [] channel = "disconnected" -> "down"

\* One tick of the health monitor.  late: no byte has come for longer than the threshold.
Tick(late) ==
    /\ Turn /\ monitor # 0
    /\ IF monitor # gen
       THEN StopMonitor /\ UNCHANGED <<supervisor, inFlight, phase>>
       ELSE LET s1 == ReportControl(supervisor, ControlHealth)
                s2 == IF current = 0 THEN ReportMedia(s1, "down")
                      ELSE IF Current.flow THEN ReportMedia(s1, "progressing") ELSE s1
                s3 == IF current # 0 /\ ~Current.flow /\ late THEN CheckStall(s2) ELSE s2
            IN supervisor' = s3 /\ ScheduleRecovery(s3) /\ UNCHANGED monitor
    /\ UNCHANGED <<gen, queue, op, target, session, detectors, world, user>>

\* A recovery timer fires.  One whose generation is current forgets the handle that
\* is held, whichever timer that is.
RecoveryDue ==
    /\ Turn
    /\ \E t \in (lost \cup {timer}) \ {0} :
          /\ IF t = gen THEN timer' = 0 /\ lost' = IF t = timer THEN lost ELSE lost \ {t}
             ELSE /\ timer' = IF t = timer THEN 0 ELSE timer
                  /\ lost' = lost \ {t}
          /\ CASE t # gen -> inFlight' = FALSE /\ UNCHANGED queue
               [] t = gen /\ supervisor.seen.stop -> inFlight' = FALSE /\ SettleEnded
               [] OTHER -> Enqueue(Op("auto", 0, t)) /\ UNCHANGED inFlight
    /\ UNCHANGED <<gen, op, phase, target, session, supervisor, monitor, detectors, world, user>>

-----------------------------------------------------------------------------
(* destroy(), the host and the control connection *)

\* destroy() up to its await.  Without a session there is nothing to wait for.
Destroy ==
    /\ Turn /\ ~destroyed /\ destroyed' = TRUE
    /\ gen' = gen + 1 /\ StopMonitor /\ supervisor' = Cancelled /\ inFlight' = FALSE
    /\ DestroySession /\ destroying' = current
    /\ IF current = 0 THEN target' = 0 /\ phase' = "idle" ELSE UNCHANGED <<target, phase>>
    /\ UNCHANGED <<queue, op, world, requests, stopped>>

\* The rest of destroy(), whatever operations have done since.
DestroyDone ==
    /\ Turn /\ destroying # 0 /\ destroying' = 0
    /\ sessions' = [sessions EXCEPT ![destroying].state = "closed"]
    /\ target' = 0 /\ phase' = "idle"
    /\ UNCHANGED <<gen, queue, op, current, health, detectors, world, requests, stopped, destroyed>>

\* The host starts, restarts or ends its stream.
HostChanges ==
    /\ Turn
    /\ \/ streams < MaxStreams /\ streams' = streams + 1 /\ live' = streams + 1
       \/ live # 0 /\ live' = 0 /\ UNCHANGED streams
    /\ UNCHANGED <<control, session, health, detectors, channel, changes, user>>

ChannelChanges ==
    /\ Turn /\ changes < MaxChanges /\ changes' = changes + 1
    /\ channel' \in {"connected", "reconnecting", "disconnected"} \ {channel}
    /\ UNCHANGED <<control, session, health, detectors, live, streams, user>>

-----------------------------------------------------------------------------
OpStep ==
    \/ BeginStart \/ BeginRecover \/ BeginAuto \/ BeginToggle \/ BeginStop \/ BeginEnd
    \/ SyncDone \/ CleanDone \/ ClearDone \/ StartDone
    \/ ToggleDone \/ StopDone \/ EndDone \/ Joined

Next ==
    \/ OpStep
    \/ RequestStart \/ RequestRecover \/ RequestToggle \/ RequestStop
    \/ SessionEnds \/ MediaChanges \/ StoreLosesStream \/ TransportDies
    \/ (\E late \in BOOLEAN : Tick(late)) \/ RecoveryDue
    \/ Destroy \/ DestroyDone \/ HostChanges \/ ChannelChanges

\* Every await settles and every timer fires: the steps of an operation are bounded
\* by timeouts, and the monitor is an interval timer.
Spec == /\ Init /\ [][Next]_vars
        /\ WF_vars(OpStep) /\ WF_vars(DestroyDone)
        /\ WF_vars(Tick(TRUE)) /\ WF_vars(RecoveryDue)

-----------------------------------------------------------------------------
(* Properties *)

TypeOK ==
    /\ phase \in Phases /\ target \in 0..MaxStreams
    /\ current \in 0..Len(sessions)
    /\ \A i \in 1..Len(sessions) :
         sessions[i] \in [stream : 1..MaxStreams, gen : 1..gen, paused : BOOLEAN, flow : BOOLEAN,
                          state : {"joining", "connecting", "watching", "ended", "error",
                                   "closing", "closed"}]
    /\ current # 0 => Current.state \notin {"closing", "closed"}
    /\ monitor \in 0..gen /\ timer \in 0..gen /\ deathWatch \in 0..gen
    /\ lost \subseteq 1..gen

\* A viewer session is made only when every session before it has been torn down, so
\* that its join never races an older one's leave and shutdown.  The one exception is
\* the session that destroy() is tearing down.
OneSession ==
    \A i, j \in (1..Len(sessions)) \ {destroying} :
       i # j => sessions[i].state = "closed" \/ sessions[j].state = "closed"

\* A controller at rest in the idle phase holds nothing: no session, monitor, timer
\* or subscription is left of what was stopped.
QuietWhenIdle ==
    phase = "idle" /\ op.at = "idle" /\ queue = <<>> /\ ~destroyed =>
       /\ current = 0 /\ target = 0 /\ monitor = 0 /\ timer = 0 /\ ~inFlight
       /\ watching = 0 /\ deathWatch = 0
       /\ \A i \in 1..Len(sessions) : sessions[i].state = "closed"

\* One session at a time, and none when there is nothing to watch.
ControllerInv == TypeOK /\ OneSession /\ QuietWhenIdle

\* Once a stop has been carried out no session is made until the user asks for
\* one, whatever timer, queued recovery or end was under way (stop).
StopStays ==
    [][Len(sessions') > Len(sessions) =>
         \/ ~stopped
         \/ op.kind = "stop" \/ \E i \in 1..Len(queue) : queue[i].kind = "stop"]_vars

\* The viewer is never left reconnecting: a recovery that was announced is carried
\* out, given up or displaced, unless the bound on sessions keeps it from going on.
ReconnectingSettles ==
    phase = "reconnecting" ~> phase # "reconnecting" \/ Len(sessions) = MaxSessions

\* A monitored session whose media has died for good is recovered or ended, unless
\* the user has paused it or the control channel is being re-established.
StallRecovers ==
    (monitor = gen /\ monitor # 0 /\ current # 0 /\ supervisor.now.media = "progressing"
       /\ ~supervisor.now.paused)
      ~> \/ monitor # gen \/ current = 0 \/ Current.flow \/ supervisor.now.paused
         \/ channel # "connected" \/ timer = gen \/ phase = "ended"

\* "Serialized operation queue -- prevents overlapping commands" (_opQueue): no session is
\* made while another is still being torn down.
NoOverlap ==
    \A i, j \in 1..Len(sessions) :
       i # j => sessions[i].state = "closed" \/ sessions[j].state = "closed"

\* "stream-end detection marks intentional stop so recovery is suppressed"
\* (viewer-session-controller-health.test.ts): the monitor does not reconnect a
\* session that has ended.
EndIsNotRecovered ==
    [][phase = "ended" /\ phase' = "reconnecting" => op # op']_vars

\* "Invalidate health/recovery callbacks before teardown is queued" (stop): after a
\* stop no automatic recovery begins until the user asks for something.
StopBeatsRecovery ==
    [][op.kind # "auto" /\ op'.kind = "auto" => ~stopped]_vars
=============================================================================
