----------------------------- MODULE ViewerSession -----------------------------
(***************************************************************************)
(* One viewer session (viewer-session.ts) with its media clients            *)
(* (viewer-client.ts).                                                      *)
(*                                                                         *)
(* The controller starts a session once, pauses and resumes it one request  *)
(* at a time after that, and may destroy it at any moment.  The join flow   *)
(* is one chain of awaits; a teardown, the timers, the tracks and a pause   *)
(* run beside it.  A flow that finds its generation outdated stops, except  *)
(* in its error path.  An attempt to join has its own viewer session id and *)
(* its own client, so its number stands for both.                           *)
(*                                                                         *)
(* Left out: the view of the host's own stream, status reports, the picture *)
(* held during a pause, and retry(), which nothing calls.                   *)
(***************************************************************************)
EXTENDS Integers, FiniteSets

CONSTANTS
    MaxRetransmits, \* JOIN_RETRANSMIT_MAX
    MaxPauseTries,  \* PAUSE_SEND_MAX_ATTEMPTS
    MaxPauses       \* bound: requests to pause or resume

ASSUME SessionAssumption ==
    MaxRetransmits \in Nat /\ MaxPauseTries \in Nat /\ MaxPauses \in Nat

\* A start and the automatic retry.
Attempts == 1..2

VARIABLES
    state,      \* _state
    destructed, \* _destructed
    stale,      \* _generation differs from _nextGeneration
    flow,       \* the await the join flow is at
    attempt,    \* the attempt of _viewerSessionId
    retried,    \* _autoRetried
    request,    \* the pending join request and what became of its waiter
    resends,    \* retransmissions whose timer is armed
    client,     \* viewerClient: the attempt it was made for; 0 is null
    sdk,        \* the media connection of each attempt's client
    track,      \* the remote video track of the current client
    trackTimer, \* the debounce timer of an ended track runs
    readiness,  \* the readiness timer runs
    teardown,   \* _teardownPromise: the step it awaits
    pauseState, \* _pauseState
    pauseOp,    \* the pause or resume under way
    pauses,     \* requests to pause or resume so far
    joins,      \* copies of its join request each attempt has sent
    ready,      \* attempts that have sent stream.viewer.ready
    left        \* attempts whose stream.leave was sent

flowVars == <<flow, attempt, retried, request, resends>>
mediaVars == <<client, sdk, track, trackTimer, readiness>>
endVars == <<teardown, stale, left>>
pauseVars == <<pauseState, pauseOp, pauses>>
vars == <<state, destructed, flowVars, mediaVars, endVars, pauseVars, joins, ready>>

States == {"idle", "requesting-join", "connecting", "waiting-for-host", "connecting-media",
           "watching", "error", "ended"}
Settled == {"watching", "error", "ended"}
NoOp == [at |-> "none", want |-> FALSE, try |-> 0, stale |-> FALSE, waiter |-> "none"]

Init ==
    /\ state = "idle" /\ destructed = FALSE /\ stale = FALSE
    /\ flow = "none" /\ attempt = 1 /\ retried = FALSE
    /\ request = "none" /\ resends = 0
    /\ client = 0 /\ sdk = [a \in Attempts |-> "none"]
    /\ track = "none" /\ trackTimer = FALSE /\ readiness = FALSE
    /\ teardown = "none" /\ pauseState = "playing" /\ pauseOp = NoOp /\ pauses = 0
    /\ joins = [a \in Attempts |-> 0] /\ ready = {} /\ left = {}

isCurrent == ~destructed /\ ~stale

SetState(s) == state' = IF destructed THEN state ELSE s

-----------------------------------------------------------------------------
(* Teardown *)

\* beginTeardown, up to its first await: the generation moves on and the leave is
\* sent, once per attempt and only when the host has a peer.  A teardown that is
\* under way is shared.
BeginTeardown ==
    IF teardown # "none" THEN UNCHANGED endVars
    ELSE /\ teardown' = "leaving" /\ stale' = TRUE
         /\ left' \in {left, left \cup {attempt}}

\* setError
SetError ==
    IF destructed THEN UNCHANGED <<state, readiness, endVars>>
    ELSE state' = "error" /\ readiness' = FALSE /\ BeginTeardown

\* stop()
Stop ==
    IF state = "ended" THEN UNCHANGED <<state, endVars>>
    ELSE BeginTeardown /\ SetState("ended")

\* The last step: the pause state is cleared and its operations made stale.
ClearSession ==
    /\ teardown' = "none" /\ client' = 0 /\ track' = "none"
    /\ pauseState' = "playing" /\ pauseOp' = [pauseOp EXCEPT !.stale = pauseOp.at # "none"]

\* Faulty variant of LeaveDone: timers are left to expire.
LeaveDoneTimersRun ==
    /\ teardown = "leaving"
    /\ request' = IF request = "waiting" THEN "cancelled" ELSE request
    /\ resends' = 0
    /\ IF client = 0 THEN ClearSession /\ UNCHANGED sdk
       ELSE /\ sdk' = [sdk EXCEPT ![client] = "closing"] /\ teardown' = "shutting"
            /\ UNCHANGED <<client, track, pauseState, pauseOp>>
    /\ UNCHANGED <<state, destructed, flow, attempt, retried, stale, left, readiness, trackTimer,
                   pauses, joins, ready>>

\* The leave has been delivered or its time is up: waiters and timers are cancelled
\* and the client is shut down.
LeaveDone ==
    /\ teardown = "leaving"
    /\ request' = IF request = "waiting" THEN "cancelled" ELSE request
    /\ resends' = 0 /\ readiness' = FALSE /\ trackTimer' = FALSE
    /\ IF client = 0 THEN ClearSession /\ UNCHANGED sdk
       ELSE /\ sdk' = [sdk EXCEPT ![client] = "closing"] /\ teardown' = "shutting"
            /\ pauseOp' = [pauseOp EXCEPT !.waiter = IF @ = "waiting" THEN "cancelled" ELSE @]
            /\ UNCHANGED <<client, track, pauseState>>
    /\ UNCHANGED <<state, destructed, flow, attempt, retried, stale, left, pauses, joins, ready>>

\* The client is shut down, or its time is up.  A pause whose waiter was cancelled has
\* heard of it before: it takes fewer microtasks.
ShutdownDone ==
    /\ teardown = "shutting" /\ ~(pauseOp.at = "ack" /\ pauseOp.waiter = "cancelled")
    /\ ClearSession
    /\ sdk' \in {sdk, [sdk EXCEPT ![client] = "closed"]}
    /\ UNCHANGED <<state, destructed, flowVars, trackTimer, readiness, stale, left, pauses, joins,
                   ready>>

\* A shutdown that took too long ends after all.
SdkCloses ==
    /\ \E a \in Attempts : sdk[a] = "closing" /\ a # client /\ sdk' = [sdk EXCEPT ![a] = "closed"]
    /\ UNCHANGED <<state, destructed, flowVars, client, track, trackTimer, readiness, endVars,
                   pauseVars, joins, ready>>

\* destroy()
Destroy ==
    /\ ~destructed /\ destructed' = TRUE /\ state' = "ended"
    /\ BeginTeardown
    /\ UNCHANGED <<flowVars, mediaVars, pauseVars, joins, ready>>

-----------------------------------------------------------------------------
(* The join flow *)

\* The flow stops here.
Abandon == flow' = "none" /\ UNCHANGED <<state, readiness, endVars>>

\* runJoinFlow up to its first await.
EnterFlow == SetState("connecting") /\ flow' = "peer"

Start ==
    /\ state = "idle" /\ ~destructed /\ flow = "none"
    /\ EnterFlow
    /\ UNCHANGED <<destructed, attempt, retried, request, resends, mediaVars, endVars, pauseVars,
                   joins, ready>>

\* waitForHostPeer: the waiter is registered before the request is sent.
PeerFound ==
    /\ flow = "peer"
    /\ IF ~isCurrent THEN Abandon /\ UNCHANGED <<request, joins>>
       ELSE /\ flow' = "send" /\ state' = "requesting-join" /\ request' = "waiting"
            /\ joins' = [joins EXCEPT ![attempt] = @ + 1]
            /\ UNCHANGED <<readiness, endVars>>
    /\ UNCHANGED <<destructed, attempt, retried, resends, client, sdk, track, trackTimer, pauseVars,
                   ready>>

\* There is no connection, or the host's peer does not appear in time.
PeerMissing ==
    /\ flow = "peer" /\ flow' = "none"
    /\ IF isCurrent THEN SetError ELSE UNCHANGED <<state, readiness, endVars>>
    /\ UNCHANGED <<destructed, attempt, retried, request, resends, client, sdk, track, trackTimer,
                   pauseVars, joins, ready>>

\* The request is on its way; its copies are scheduled even for a flow that is over.
SendDone ==
    /\ flow = "send" /\ resends' = MaxRetransmits
    /\ IF ~isCurrent THEN Abandon
       ELSE flow' = "answer" /\ state' = "waiting-for-host" /\ UNCHANGED <<readiness, endVars>>
    /\ UNCHANGED <<destructed, attempt, retried, request, client, sdk, track, trackTimer, pauseVars,
                   joins, ready>>

\* Faulty variant of Retransmits: only the request is looked at.
RetransmitsWaiting == request = "waiting"

\* A copy is sent only while this request of the current flow waits.
Retransmits == isCurrent /\ request = "waiting"

Retransmit ==
    /\ resends > 0 /\ resends' = resends - 1
    /\ joins' = IF Retransmits THEN [joins EXCEPT ![attempt] = @ + 1] ELSE joins
    /\ UNCHANGED <<state, destructed, flow, attempt, retried, request, mediaVars, endVars, pauseVars,
                   ready>>

\* The waiter is given an answer, or 30 seconds have passed.
Answer ==
    /\ request = "waiting"
    /\ request' \in {"accepted", "refused", "over", "timeout"}
    /\ UNCHANGED <<state, destructed, flow, attempt, retried, resends, mediaVars, endVars, pauseVars,
                   joins, ready>>

\* The error path of the flow asks for no generation.  A failure to connect is
\* retried once, after a teardown.
Catch(connect) ==
    IF connect /\ ~retried
    THEN /\ retried' = TRUE /\ flow' = "retrying" /\ BeginTeardown
         /\ UNCHANGED <<state, readiness>>
    ELSE SetError /\ flow' = "none" /\ UNCHANGED retried

\* The waiter has settled.
TakeAnswer ==
    /\ flow = "answer" /\ request \notin {"none", "waiting"}
    /\ resends' = 0 /\ request' = "none"
    /\ CASE request = "cancelled" ->
              Abandon /\ UNCHANGED <<client, sdk, track, retried>>
         [] request = "timeout" -> Catch(FALSE) /\ UNCHANGED <<client, sdk, track>>
         [] request \notin {"cancelled", "timeout"} /\ ~isCurrent ->
              Abandon /\ UNCHANGED <<client, sdk, track, retried>>
         [] request = "refused" /\ isCurrent ->
              SetError /\ flow' = "none" /\ UNCHANGED <<client, sdk, track, retried>>
         [] request = "over" /\ isCurrent ->
              Stop /\ flow' = "none" /\ UNCHANGED <<client, sdk, track, retried, readiness>>
         [] request = "accepted" /\ isCurrent ->
              /\ state' = "connecting-media" /\ flow' = "connect"
              /\ client' = attempt /\ sdk' = [sdk EXCEPT ![attempt] = "open"] /\ track' = "none"
              /\ UNCHANGED <<readiness, endVars, retried>>
    /\ UNCHANGED <<destructed, attempt, trackTimer, pauseVars, joins, ready>>

\* createAndConnect and view succeed, or fail with an error that is retried or not.
\* A view whose peer connection is there has succeeded within a poll of the SDK, so
\* it does not fail once it has shown a track.
ConnectDone ==
    /\ flow = "connect"
    /\ \/ /\ IF isCurrent THEN flow' = "view" /\ UNCHANGED <<state, readiness, endVars>> ELSE Abandon
          /\ UNCHANGED <<retried, request, resends>>
       \/ \E connect \in BOOLEAN : Catch(connect) /\ request' = "none" /\ resends' = 0
    /\ UNCHANGED <<destructed, attempt, client, sdk, track, trackTimer, pauseVars, joins, ready>>

ViewDone ==
    /\ flow = "view"
    /\ \/ /\ IF isCurrent THEN flow' = "bind" /\ UNCHANGED <<state, readiness, endVars>> ELSE Abandon
          /\ UNCHANGED <<retried, request, resends>>
       \/ /\ (track = "none" /\ client # 0) \/ destructed
          /\ \E connect \in BOOLEAN : Catch(connect) /\ request' = "none" /\ resends' = 0
    /\ UNCHANGED <<destructed, attempt, client, sdk, track, trackTimer, pauseVars, joins, ready>>

\* Faulty variant of BindDone: total failure is thrown without asking for the generation.
BindDoneUnguarded ==
    /\ flow = "bind"
    /\ \/ /\ flow' = "none" /\ readiness' = IF isCurrent /\ state # "watching" THEN TRUE ELSE readiness
          /\ UNCHANGED <<state, retried, request, resends, endVars>>
       \/ Catch(TRUE) /\ request' = "none" /\ resends' = 0
    /\ UNCHANGED <<destructed, attempt, client, sdk, track, trackTimer, pauseVars, joins, ready>>

\* Faulty variant of BindDone: nothing watches over the wait for a track.
BindDoneUntimed ==
    /\ flow = "bind"
    /\ \/ /\ flow' = "none" /\ UNCHANGED <<readiness, state, retried, request, resends, endVars>>
       \/ isCurrent /\ Catch(TRUE) /\ request' = "none" /\ resends' = 0
    /\ UNCHANGED <<destructed, attempt, client, sdk, track, trackTimer, pauseVars, joins, ready>>

\* media.bind was delivered to some peer, or to none of those there are.  What is
\* left is the wait for a video track.
BindDone ==
    /\ flow = "bind"
    /\ \/ /\ flow' = "none" /\ readiness' = IF isCurrent /\ state # "watching" THEN TRUE ELSE readiness
          /\ UNCHANGED <<state, retried, request, resends, endVars>>
       \/ isCurrent /\ Catch(TRUE) /\ request' = "none" /\ resends' = 0
    /\ UNCHANGED <<destructed, attempt, client, sdk, track, trackTimer, pauseVars, joins, ready>>

\* The teardown before the automatic retry has ended: a new attempt, with a new
\* generation, unless the session was destroyed.
RetryFlow ==
    /\ flow = "retrying" /\ teardown = "none"
    /\ attempt' = 2 /\ stale' = FALSE
    /\ IF destructed THEN flow' = "none" /\ UNCHANGED state ELSE EnterFlow
    /\ UNCHANGED <<destructed, retried, request, resends, mediaVars, teardown, left, pauseVars,
                   joins, ready>>

-----------------------------------------------------------------------------
(* Tracks and timers *)

\* A video track of the current client.
TrackArrives ==
    /\ track = "none" /\ client # 0 /\ sdk[client] = "open" /\ flow # "connect"
    /\ track' = "live"
    /\ IF isCurrent THEN state' = "watching" /\ readiness' = FALSE ELSE UNCHANGED <<state, readiness>>
    /\ UNCHANGED <<destructed, flowVars, client, sdk, trackTimer, endVars, pauseVars, joins, ready>>

TrackEnds ==
    /\ track = "live" /\ track' = "ended"
    /\ trackTimer' = (trackTimer \/ (isCurrent /\ pauseState = "playing"))
    /\ UNCHANGED <<state, destructed, flowVars, client, sdk, readiness, endVars, pauseVars, joins,
                   ready>>

\* Two seconds after the end of the track.
TrackTimerFires ==
    /\ trackTimer /\ trackTimer' = FALSE
    /\ IF isCurrent /\ state = "watching" THEN Stop ELSE UNCHANGED <<state, endVars>>
    /\ UNCHANGED <<destructed, flowVars, client, sdk, track, readiness, pauseVars, joins, ready>>

ReadinessFires ==
    /\ readiness
    /\ IF state \in Settled THEN readiness' = FALSE /\ UNCHANGED <<state, endVars>>
       ELSE /\ state' = "error" /\ readiness' = FALSE /\ BeginTeardown
    /\ UNCHANGED <<destructed, flowVars, client, sdk, track, trackTimer, pauseVars, joins, ready>>

\* The first frame is on the screen: sendViewerReady.
SendViewerReady ==
    /\ state = "watching" /\ isCurrent /\ attempt \notin ready
    /\ ready' = ready \cup {attempt}
    /\ UNCHANGED <<state, destructed, flowVars, mediaVars, endVars, pauseVars, joins>>

-----------------------------------------------------------------------------
(* Pause and resume: one acknowledged operation with the host *)

SetPause(p) == pauseState' = IF destructed THEN pauseState ELSE p

\* pause() and resume(), called by the controller when the join flow is over.
RequestPause ==
    /\ flow = "none" /\ client # 0 /\ ~destructed /\ pauses < MaxPauses /\ pauses' = pauses + 1
    /\ pauseOp.at = "none"
    /\ \/ pauseState = "playing" /\ pauseState' = "pausing"
       \/ pauseState = "paused" /\ pauseState' = "resuming" /\ sdk[client] = "open"
    /\ pauseOp' = [at |-> "send", want |-> pauseState = "playing", try |-> 1, stale |-> FALSE,
                   waiter |-> "waiting"]
    /\ UNCHANGED <<state, destructed, flowVars, mediaVars, endVars, joins, ready>>

EndPause(p) == SetPause(p) /\ pauseOp' = NoOp

\* Back to where the operation began.  A client that is shutting down refuses to
\* resume, and then the state is left as it is.
PauseGivesUp ==
    IF pauseOp.want /\ client # 0 /\ sdk[client] # "open"
    THEN pauseOp' = NoOp /\ UNCHANGED pauseState
    ELSE EndPause(IF pauseOp.want THEN "playing" ELSE "paused")

PauseFails(retryable) ==
    IF retryable /\ pauseOp.try < MaxPauseTries /\ ~destructed /\ ~pauseOp.stale
    THEN pauseOp' = [pauseOp EXCEPT !.at = "delay", !.waiter = "none"] /\ UNCHANGED pauseState
    ELSE PauseGivesUp

\* The request was sent, or there was no route.  An operation that is stale stops.
PauseSent ==
    /\ pauseOp.at = "send"
    /\ IF destructed \/ pauseOp.stale THEN pauseOp' = NoOp /\ UNCHANGED pauseState
       ELSE \/ /\ pauseOp.waiter = "waiting"
               /\ pauseOp' = [pauseOp EXCEPT !.at = "ack"] /\ UNCHANGED pauseState
            \/ pauseOp.waiter = "cancelled" /\ PauseFails(FALSE)
            \/ PauseFails(TRUE)
    /\ UNCHANGED <<state, destructed, flowVars, mediaVars, endVars, pauses, joins, ready>>

\* The host has done it, refuses for a reason that passes, or refuses for good; or
\* no result has come in time; or the waiter was cancelled.
PauseResult ==
    /\ pauseOp.at = "ack"
    /\ \/ /\ pauseOp.waiter = "waiting"
          /\ IF destructed \/ pauseOp.stale THEN pauseOp' = NoOp /\ UNCHANGED pauseState
             ELSE EndPause(IF pauseOp.want THEN "paused" ELSE "playing")
       \/ pauseOp.waiter = "waiting" /\ PauseFails(TRUE)
       \/ PauseFails(FALSE)
    /\ UNCHANGED <<state, destructed, flowVars, mediaVars, endVars, pauses, joins, ready>>

\* The second request after the delay.
PauseRetry ==
    /\ pauseOp.at = "delay"
    /\ pauseOp' = [pauseOp EXCEPT !.at = "send", !.try = @ + 1, !.waiter = "waiting"]
    /\ UNCHANGED <<state, destructed, flowVars, mediaVars, endVars, pauseState, pauses, joins, ready>>

-----------------------------------------------------------------------------
TeardownStep == LeaveDone \/ ShutdownDone
FlowStep ==
    \/ PeerFound \/ PeerMissing \/ SendDone \/ Answer \/ TakeAnswer
    \/ ConnectDone \/ ViewDone \/ BindDone \/ RetryFlow

Next ==
    \/ Start \/ Destroy \/ FlowStep \/ TeardownStep \/ SdkCloses \/ Retransmit
    \/ TrackArrives \/ TrackEnds \/ TrackTimerFires \/ ReadinessFires \/ SendViewerReady
    \/ RequestPause \/ PauseSent \/ PauseResult \/ PauseRetry

\* Every await of the flow and of the teardown has a timeout, and timers fire.
Spec ==
    /\ Init /\ [][Next]_vars
    /\ WF_vars(FlowStep) /\ WF_vars(TeardownStep) /\ WF_vars(ReadinessFires)

-----------------------------------------------------------------------------
(* Properties *)

TypeOK ==
    /\ state \in States /\ attempt \in Attempts /\ client \in {0} \cup Attempts
    /\ flow \in {"none", "peer", "send", "answer", "connect", "view", "bind", "retrying"}
    /\ request \in {"none", "waiting", "accepted", "refused", "over", "timeout", "cancelled"}
    /\ sdk \in [Attempts -> {"none", "open", "closing", "closed"}]
    /\ teardown \in {"none", "leaving", "shutting"}
    /\ pauseState \in {"playing", "pausing", "paused", "resuming"}
    /\ client # 0 => sdk[client] \in {"open", "closing"}
    /\ flow \in {"connect", "view", "bind"} /\ isCurrent => client = attempt
    /\ pauseState \in {"pausing", "resuming"} /\ teardown = "none" => pauseOp.at # "none"

\* At most one media connection is in use, and it is the session's client: one that
\* is given up is being shut down before the next is made (start, beginTeardown).
OneClient ==
    \A a \in Attempts : sdk[a] = "open" => a = client

\* Once its flow, its teardown and its pause have come to an end, a session that has
\* failed or ended holds nothing, and no pause is left half-way.
RestIsClean ==
    state \in {"error", "ended"} /\ flow = "none" /\ teardown = "none" /\ pauseOp.at = "none" =>
       /\ client = 0 /\ \A a \in Attempts : sdk[a] # "open"
       /\ ~readiness /\ ~trackTimer /\ request # "waiting"
       /\ pauseState \in {"playing", "paused"}

\* One media connection while the session runs, and none after it.
SessionInv == TypeOK /\ OneClient /\ RestIsClean

\* A session that has ended stays so: no flow that was abandoned takes it back to
\* joining, nor turns the end into an error.
EndedIsFinal == [][state = "ended" => state' = "ended"]_vars

\* After an attempt's leave, the host hears no join and no ready of that attempt:
\* a leave cannot be overtaken by a copy of the join it takes back.
LeaveIsLast ==
    [][\A a \in left : joins'[a] = joins[a] /\ (a \in ready' => a \in ready)]_vars

\* "Clear pause state so any in-flight pause/resume observers see a clean slate.
\* Increment generation to cancel stale ops" (beginTeardown): a pause that was under
\* way does not write the state of a session that has been torn down.
PauseCleared ==
    [][pauseOp.stale => pauseState' = pauseState]_vars

\* A session that was started shows the stream, reports an error or ends: whatever
\* answer, connection or track fails to come, some timeout speaks.
StartSettles == flow # "none" ~> state \in Settled /\ flow = "none"
=============================================================================
