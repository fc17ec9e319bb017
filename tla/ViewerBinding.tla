----------------------------- MODULE ViewerBinding -----------------------------
(***************************************************************************)
(* How a host admits, binds and forgets the viewers of its stream           *)
(* (viewer-media-binding.ts), with the messages that drive it.              *)
(*                                                                         *)
(* One viewer device watches one logical stream, one attempt after another. *)
(* An attempt has its own request id, viewer session id and media peer, so  *)
(* its number stands for all three.  The host draws a new media session at  *)
(* the start and at every restart; presences and mappings are keyed by the  *)
(* device and the media session.  A restart may fail; a start after that,   *)
(* or after a stop, is another logical stream, which is not modelled.       *)
(*                                                                         *)
(* Join requests, ready and leave messages come in order over the group     *)
(* channel; a bind comes over the attempt's own media link, so the two can  *)
(* overtake each other.  Answers may be lost or late.  Left out: quality    *)
(* requests, media modes and pauses, and the copy of an envelope that the   *)
(* group channel has already delivered.                                     *)
(***************************************************************************)
EXTENDS Integers, Sequences, FiniteSets

CONSTANTS
    MaxAttempts, \* bound: watch attempts of the viewer
    MaxSessions, \* bound: media sessions of the stream
    MaxTokens,   \* bound: binding tokens minted
    MaxControl,  \* bound: group messages under way
    MaxFaults    \* bound: disturbances

ASSUME BindingAssumption ==
    /\ MaxAttempts \in Nat /\ MaxSessions \in Nat /\ MaxTokens \in Nat
    /\ MaxControl \in Nat /\ MaxFaults \in Nat

Attempts == 1..MaxAttempts
Sessions == 1..MaxSessions

VARIABLES
    stream,    \* the state of the host's session manager with regard to this stream
    active,    \* the media session the host publishes; 0 is none
    listed,    \* the host's registry still lists a stream whose restart failed
    sessions,  \* media sessions drawn so far
    tokens,    \* every binding token minted, with what became of it
    processed, \* processedRequestIds: the token of an attempt's request; 0 is none
    mapping,   \* viewerMap: the attempt bound to a media session; 0 is none
    presence,  \* presenceMap
    timers,    \* running grace timers: media session and attempt
    kicked,    \* kickedViewers inside the rejection window
    joins,     \* join cues played for each attempt
    leaves,    \* leave cues played for each attempt
    viewer,    \* where each attempt of the viewer is
    link,      \* the host's media connection of each attempt
    control,   \* group messages on their way to the host
    answers,   \* join responses on their way to the viewer
    binds,     \* media.bind messages on their way to the host
    faults     \* reconnections, kicks, resent requests, lost answers, expired tokens
               \* and reports of absence so far

vars == <<stream, active, listed, sessions, tokens, processed, mapping, presence,
          timers, kicked, joins, leaves, viewer, link, control, answers, binds, faults>>

hostVars == <<tokens, processed, mapping, presence, timers, kicked, joins, leaves>>
streamVars == <<stream, active, listed, sessions>>
netVars == <<viewer, link, control, answers, binds, faults>>

StreamStates == {"idle", "active", "restarting", "failed", "stopped"}
TokenStates == {"live", "expired", "used", "gone"}
Phases == {"none", "joining", "connecting", "bound", "ready", "gone"}

\* A presence; attempt 0 is no entry.
Absent == [attempt |-> 0, state |-> "accepted", timer |-> FALSE,
           joined |-> FALSE, left |-> FALSE]
NewPresence(a, st) == [Absent EXCEPT !.attempt = a, !.state = st]

Init ==
    /\ stream = "idle" /\ active = 0 /\ listed = FALSE /\ sessions = 0
    /\ tokens = <<>> /\ processed = [a \in Attempts |-> 0]
    /\ mapping = [s \in Sessions |-> 0]
    /\ presence = [s \in Sessions |-> Absent]
    /\ timers = {} /\ kicked = {}
    /\ joins = [a \in Attempts |-> 0] /\ leaves = [a \in Attempts |-> 0]
    /\ viewer = [a \in Attempts |-> [phase |-> "none", session |-> 0, token |-> 0]]
    /\ link = [a \in Attempts |-> "none"]
    /\ control = <<>> /\ answers = {} /\ binds = {} /\ faults = 0

Fault == faults < MaxFaults /\ faults' = faults + 1

Started(a) == viewer[a].phase # "none"
Watching(a) == viewer[a].phase \notin {"none", "gone"}

-----------------------------------------------------------------------------
(* The presence of the viewer in one media session *)

\* Faulty variant of Upserted: the record of the device is reused, cues included.
UpsertedInPlace(p, a, st) ==
    [p EXCEPT !.attempt = a, !.timer = FALSE, !.state = IF @ = "ready" /\ p.attempt = a THEN @ ELSE st]

\* upsertPresence: a new attempt replaces the entry and the timer of an older one.
Upserted(p, a, st) ==
    IF p.attempt # a THEN NewPresence(a, st)
    ELSE [p EXCEPT !.timer = FALSE, !.state = IF @ = "ready" THEN @ ELSE st]

UpsertPresence(s, a, st) ==
    /\ presence' = [presence EXCEPT ![s] = Upserted(@, a, st)]
    /\ timers' = {t \in timers : t[1] # s}

\* Faulty variant of Recovers: only a viewer that never became ready is recovered.
RecoversUnready(p, a) == p.attempt = a /\ p.state = "departed" /\ ~p.joined

\* recoverViewerPresence: a departure whose leave cue has not played is taken back.
Recovers(p, a) == p.attempt = a /\ p.state = "departed" /\ ~p.left

RecoverPresence(s, a) ==
    IF Recovers(presence[s], a)
    THEN /\ presence' = [presence EXCEPT ![s].timer = FALSE, ![s].state = "media-bound"]
         /\ timers' = timers \ {<<s, a>>}
    ELSE UNCHANGED <<presence, timers>>

\* Faulty variant of Forget: the mapping is left to the next bind.
ForgetPresence(s) ==
    /\ presence' = [presence EXCEPT ![s] = Absent]
    /\ UNCHANGED mapping

\* The presence and the mapping of session s end together.
Forget(s) ==
    /\ presence' = [presence EXCEPT ![s] = Absent]
    /\ mapping' = [mapping EXCEPT ![s] = 0]

\* markViewerDeparted for attempt a in session s.  A stale attempt and a viewer
\* that has departed already change nothing.
MarkDeparted(s, a, explicit) ==
    LET p == presence[s]
    IN \/ /\ p.attempt # a \/ p.state = "departed"
          /\ UNCHANGED <<presence, mapping, timers, leaves>>
       \/ /\ p.attempt = a /\ p.state \in {"accepted", "media-bound"}
          /\ Forget(s)
          /\ UNCHANGED <<timers, leaves>>
       \/ /\ p.attempt = a /\ p.state = "ready" /\ explicit
          /\ leaves' = IF p.joined /\ ~p.left
                       THEN [leaves EXCEPT ![a] = @ + 1] ELSE leaves
          /\ Forget(s)
          /\ timers' = timers \ {<<s, a>>}
       \/ /\ p.attempt = a /\ p.state = "ready" /\ ~explicit
          /\ presence' = [presence EXCEPT ![s].state = "departed", ![s].timer = TRUE]
          /\ timers' = timers \cup {<<s, a>>}
          /\ UNCHANGED <<mapping, leaves>>

\* removeViewerMapping for the sessions in S: the presence stays.
RemoveMappings(S) == mapping' = [s \in Sessions |-> IF s \in S THEN 0 ELSE mapping[s]]

-----------------------------------------------------------------------------
(* The host's stream *)

\* startStream, with the first media session.
StartStream ==
    /\ stream = "idle" /\ sessions < MaxSessions
    /\ stream' = "active" /\ sessions' = sessions + 1 /\ active' = sessions + 1
    /\ UNCHANGED <<listed, hostVars, netVars>>

\* The media links the host closes; of some it reports no disconnection, for the
\* publisher takes its handlers down first.  A bind on such a link is lost.
CutLinks(C) ==
    /\ link' = [a \in Attempts |-> IF a \in C THEN "cut" ELSE link[a]]
    /\ binds' = {b \in binds : b.attempt \notin C}

\* Faulty variant of RemovedAtStop: only the current media session's.
RemovedCurrentAtStop == {s \in Sessions : mapping[s] # 0 /\ s = active}

RemovedAtStop == {s \in Sessions : mapping[s] # 0}

\* stopStreamImpl removes the mappings of every session, then stops publishing.  It
\* also ends a stream whose restart failed; the registry's entry of that one stays.
StopStream ==
    /\ stream \in {"active", "failed"} /\ stream' = "stopped" /\ active' = 0
    /\ RemoveMappings(RemovedAtStop)
    /\ CutLinks({a \in Attempts : link[a] # "none"})
    /\ UNCHANGED <<listed, sessions, tokens, processed, presence, timers, kicked,
                   joins, leaves, viewer, control, answers, faults>>

\* A restart takes the publication down and keeps the mappings.  No link carries on.
BeginRestart ==
    /\ stream = "active"
    /\ stream' = "restarting" /\ active' = 0
    /\ CutLinks({a \in Attempts : link[a] # "none"})
    /\ UNCHANGED <<listed, sessions, hostVars, viewer, control, answers, faults>>

\* The stream is published again, with a new media session.
RestartDone ==
    /\ stream = "restarting" /\ sessions < MaxSessions /\ stream' = "active"
    /\ sessions' = sessions + 1 /\ active' = sessions + 1
    /\ UNCHANGED <<listed, hostVars, netVars>>

\* The restart fails: the session is reset, but neither the mappings nor the entry of
\* the host's own registry are removed.
RestartFails ==
    /\ stream = "restarting" /\ stream' = "failed" /\ listed' = TRUE
    /\ UNCHANGED <<active, sessions, hostVars, netVars>>

\* No heartbeat renews that entry.
EntryExpires ==
    /\ listed /\ listed' = FALSE
    /\ UNCHANGED <<stream, active, sessions, hostVars, netVars>>

-----------------------------------------------------------------------------
(* The viewer's attempts *)

Send(m) == Len(control) < MaxControl /\ control' = Append(control, m)
Message(type, a) == [type |-> type, attempt |-> a, session |-> viewer[a].session]

\* A new attempt for a media session the viewer has heard of, perhaps an old one.
\* The attempt before it has been torn down.
Join ==
    \E a \in Attempts, s \in 1..sessions :
       /\ ~Started(a) /\ \A b \in Attempts : b < a => viewer[b].phase = "gone"
       /\ viewer' = [viewer EXCEPT ![a] = [phase |-> "joining", session |-> s, token |-> 0]]
       /\ Send([type |-> "join", attempt |-> a, session |-> s])
       /\ UNCHANGED <<streamVars, hostVars, link, answers, binds, faults>>

\* An unanswered request is sent again with the same request id.
ResendJoin ==
    \E a \in Attempts :
       /\ viewer[a].phase = "joining" /\ Fault
       /\ Send(Message("join", a))
       /\ UNCHANGED <<streamVars, hostVars, viewer, link, answers, binds>>

\* A join response: refused, or with a token for whatever session the host chose.
TakeAnswer ==
    \E r \in answers :
       /\ answers' = {}
       /\ viewer' = [viewer EXCEPT ![r.attempt].phase =
                                      IF r.token = 0 THEN "gone" ELSE "connecting",
                                   ![r.attempt].token = r.token]
       /\ UNCHANGED <<streamVars, hostVars, link, control, binds, faults>>

LoseAnswer ==
    \E r \in answers :
       /\ answers' = answers \ {r} /\ Fault
       /\ UNCHANGED <<streamVars, hostVars, viewer, link, control, binds>>

\* The viewer's media link to the host is up and carries its bind.
SendBind ==
    \E a \in Attempts :
       /\ viewer[a].phase = "connecting" /\ link[a] = "up"
       /\ viewer' = [viewer EXCEPT ![a].phase = "bound", ![a].token = 0]
       /\ binds' = binds \cup {[attempt |-> a, token |-> viewer[a].token]}
       /\ UNCHANGED <<streamVars, hostVars, link, control, answers, faults>>

\* The first picture is shown: the viewer says so, once per attempt.
SendReady ==
    \E a \in Attempts :
       /\ viewer[a].phase = "bound" /\ link[a] = "up"
       /\ viewer' = [viewer EXCEPT ![a].phase = "ready"]
       /\ Send(Message("ready", a))
       /\ UNCHANGED <<streamVars, hostVars, link, answers, binds, faults>>

\* The viewer stops watching.  Its leave may never be sent.
EndAttempt ==
    \E a \in Attempts :
       /\ Watching(a)
       /\ viewer' = [viewer EXCEPT ![a].phase = "gone"]
       /\ \/ Send(Message("leave", a))
          \/ UNCHANGED control
       /\ answers' = {}
       /\ UNCHANGED <<streamVars, hostVars, link, binds, faults>>
-----------------------------------------------------------------------------
(* The host's handlers *)

\* A response nobody waits for any more is as good as not sent.
Respond(a, t) ==
    answers' = IF viewer[a].phase = "joining"
               THEN answers \cup {[attempt |-> a, token |-> t]} ELSE answers

\* A repeated request is answered from its token while that one is unused;
\* afterwards it is ignored.
RepeatsRequest(a) == processed[a] # 0

RepeatJoin(a) ==
    /\ RepeatsRequest(a)
    /\ IF tokens[processed[a]].state = "live" THEN Respond(a, processed[a])
       ELSE UNCHANGED answers
    /\ UNCHANGED <<tokens, processed, presence, timers>>

RefuseJoin(a) == Respond(a, 0) /\ UNCHANGED <<tokens, processed, presence, timers>>

\* A token for media session s.
AcceptJoin(a, s) ==
    /\ Len(tokens) < MaxTokens
    /\ tokens' = Append(tokens, [attempt |-> a, session |-> s, state |-> "live"])
    /\ processed' = [processed EXCEPT ![a] = Len(tokens) + 1]
    /\ UpsertPresence(s, a, "accepted")
    /\ Respond(a, Len(tokens) + 1)

\* handleJoinRequest, for a request that is not a repeated one.  While the session
\* manager has the stream it decides, and the token is for what it publishes now.
\* After a failed restart it no longer knows the stream: the host's registry decides,
\* and the token is for the session the viewer asked for.
DecideJoin(m) ==
    \/ stream = "active" /\ AcceptJoin(m.attempt, active)
    \/ stream # "active" /\ ~listed /\ RefuseJoin(m.attempt)
    \/ stream # "active" /\ listed /\ AcceptJoin(m.attempt, m.session)

\* handleJoinRequest
HandleJoin(m) ==
    /\ \/ m.session \in kicked /\ RefuseJoin(m.attempt)
       \/ m.session \notin kicked /\ RepeatsRequest(m.attempt) /\ RepeatJoin(m.attempt)
       \/ m.session \notin kicked /\ ~RepeatsRequest(m.attempt) /\ DecideJoin(m)
    /\ UNCHANGED <<mapping, kicked, joins, leaves>>

\* stream.leave, by way of removeViewerWithPresence
HandleLeave(m) ==
    /\ MarkDeparted(m.session, m.attempt, TRUE)
    /\ UNCHANGED <<tokens, processed, kicked, joins, answers>>

\* handleViewerReady: a missing presence is made, with or without a mapping.
HandleReady(m) ==
    LET s == m.session
        a == m.attempt
        p == IF presence[s].attempt = 0 THEN NewPresence(a, "accepted") ELSE presence[s]
    IN /\ IF p.attempt # a \/ p.state \in {"ready", "departed"}
          THEN UNCHANGED <<presence, timers, joins>>
          ELSE /\ presence' = [presence EXCEPT ![s] =
                     [p EXCEPT !.state = "ready", !.timer = FALSE, !.joined = TRUE]]
               /\ timers' = timers \ {<<s, a>>}
               /\ joins' = IF p.joined THEN joins ELSE [joins EXCEPT ![a] = @ + 1]
       /\ UNCHANGED <<tokens, processed, mapping, kicked, leaves, answers>>

\* The router hands the next group message to its handler.
Deliver ==
    /\ control # <<>> /\ control' = Tail(control)
    /\ LET m == Head(control)
       IN \/ m.type = "join" /\ HandleJoin(m)
          \/ m.type = "leave" /\ HandleLeave(m)
          \/ m.type = "ready" /\ HandleReady(m)
    /\ UNCHANGED <<streamVars, viewer, link, binds, faults>>

\* Faulty variant of StaleMappings: only those of the same attempt.
StaleOfAttempt(s, a) == {x \in Sessions : mapping[x] = a /\ x # s}

\* consumeBinding leaves one mapping per logical stream: those of the device's
\* other media sessions go, whichever attempt they belong to.
StaleMappings(s, a) == {x \in Sessions : mapping[x] # 0 /\ x # s}

\* handleMediaBind and consumeBinding
HandleBind ==
    \E b \in binds :
       LET t == tokens[b.token]
           s == t.session
           stale == StaleMappings(s, b.attempt)
       IN /\ binds' = binds \ {b}
          /\ IF t.state # "live"
             THEN /\ tokens' = [tokens EXCEPT ![b.token].state =
                                   IF @ = "expired" THEN "gone" ELSE @]
                  /\ UNCHANGED <<mapping, presence, timers>>
             ELSE /\ tokens' = [tokens EXCEPT ![b.token].state = "used"]
                  /\ mapping' = [x \in Sessions |-> IF x = s THEN b.attempt
                                   ELSE IF x \in stale THEN 0 ELSE mapping[x]]
                  /\ UpsertPresence(s, b.attempt, "media-bound")
          /\ UNCHANGED <<streamVars, processed, kicked, joins, leaves, viewer, link,
                         control, answers, faults>>

\* peerConnected, at the first connection and at a reconnection of the link:
\* the presence of that peer's mapping is recovered.
LinkUp ==
    \E a \in Attempts :
       /\ viewer[a].phase \in {"connecting", "bound", "ready"} /\ active # 0
       /\ \/ link[a] = "none" /\ UNCHANGED faults
          \/ link[a] = "down" /\ Fault
       /\ link' = [link EXCEPT ![a] = "up"]
       /\ IF \E s \in Sessions : mapping[s] = a
          THEN LET s == CHOOSE x \in Sessions : mapping[x] = a
               IN RecoverPresence(s, a)
          ELSE UNCHANGED <<presence, timers>>
       /\ UNCHANGED <<streamVars, tokens, processed, mapping, kicked, joins,
                      leaves, viewer, control, answers, binds>>

\* peerDisconnected, by way of removeViewerByPeerUuid: a mapping without presence
\* goes at once, otherwise the presence departs.
LinkDown(a) ==
    /\ link[a] = "up" /\ link' = [link EXCEPT ![a] = "down"]
    /\ binds' = {b \in binds : b.attempt # a}
    /\ IF \E s \in Sessions : mapping[s] = a
       THEN LET s == CHOOSE x \in Sessions : mapping[x] = a
            IN IF presence[s].attempt = 0
               THEN RemoveMappings({s}) /\ UNCHANGED <<presence, timers, leaves>>
               ELSE MarkDeparted(s, a, FALSE)
       ELSE UNCHANGED <<presence, timers, leaves, mapping>>
    /\ UNCHANGED <<streamVars, tokens, processed, kicked, joins, viewer,
                   control, answers, faults>>

\* The grace period is over.  The timer acts on the entry that now has its key.
GraceEnds ==
    \E t \in timers :
       LET s == t[1]
           p == presence[s]
       IN /\ timers' = timers \ {t}
          /\ IF ~p.timer THEN UNCHANGED <<presence, mapping, leaves>>
             ELSE /\ leaves' = IF p.joined /\ ~p.left
                               THEN [leaves EXCEPT ![p.attempt] = @ + 1] ELSE leaves
                  /\ Forget(s)
          /\ UNCHANGED <<streamVars, tokens, processed, kicked, joins,
                         netVars>>

\* kickViewer of the dashboard: the connection is closed, the kick remembered and
\* the mapping removed.  The presence and unused tokens stay.
Kick ==
    \E s \in Sessions :
       /\ mapping[s] # 0 /\ kicked' = kicked \cup {s} /\ Fault
       /\ RemoveMappings({s})
       /\ UNCHANGED <<streamVars, tokens, processed, presence, timers, joins,
                      leaves, viewer, link, control, answers, binds>>

KickExpires ==
    /\ kicked # {} /\ \E s \in kicked : kicked' = kicked \ {s}
    /\ UNCHANGED <<streamVars, tokens, processed, mapping, presence,
                   timers, joins, leaves, netVars>>

\* The group channel reports the viewer's device offline.
DeviceOffline ==
    /\ Fault
    /\ \E s \in Sessions : mapping[s] # 0
    /\ RemoveMappings({s \in Sessions : mapping[s] # 0})
    /\ UNCHANGED <<streamVars, tokens, processed, presence, timers, kicked,
                   joins, leaves, viewer, link, control, answers, binds>>

ExpireToken ==
    \E t \in 1..Len(tokens) :
       /\ tokens[t].state = "live" /\ Fault
       /\ tokens' = [tokens EXCEPT ![t].state = "expired"]
       /\ UNCHANGED <<streamVars, processed, mapping, presence, timers,
                      kicked, joins, leaves, viewer, link, control, answers, binds>>

\* cleanupExpiredTokens: requests whose token is used or expired are forgotten too.
Cleanup ==
    /\ \E a \in Attempts : processed[a] # 0 /\ tokens[processed[a]].state # "live"
    /\ tokens' = [t \in 1..Len(tokens) |->
                    [tokens[t] EXCEPT !.state = IF @ = "expired" THEN "gone" ELSE @]]
    /\ processed' = [a \in Attempts |->
                       IF processed[a] # 0 /\ tokens[processed[a]].state # "live" THEN 0
                       ELSE processed[a]]
    /\ UNCHANGED <<streamVars, mapping, presence, timers, kicked, joins,
                   leaves, netVars>>

-----------------------------------------------------------------------------
Next ==
    \/ StartStream \/ StopStream
    \/ BeginRestart \/ RestartDone \/ RestartFails \/ EntryExpires
    \/ Join \/ ResendJoin \/ TakeAnswer \/ LoseAnswer
    \/ SendBind \/ SendReady \/ EndAttempt
    \/ Deliver \/ HandleBind
    \/ LinkUp \/ (\E a \in Attempts : LinkDown(a)) \/ GraceEnds
    \/ Kick \/ KickExpires \/ DeviceOffline \/ ExpireToken \/ Cleanup

\* The connection of a viewer that is gone closes in the end, and timers fire.
Spec == /\ Init /\ [][Next]_vars
        /\ WF_vars(GraceEnds)
        /\ \A a \in Attempts : WF_vars(~Watching(a) /\ LinkDown(a))

-----------------------------------------------------------------------------
(* Properties *)

\* Types, and: a grace timer belongs to a departed presence, and a presence that
\* says it has a timer has one running (presenceMap and setTimeout).
TypeOK ==
    /\ stream \in StreamStates /\ listed \in BOOLEAN
    /\ active \in 0..MaxSessions /\ sessions \in active..MaxSessions
    /\ active # 0 <=> stream = "active"
    /\ tokens \in Seq([attempt : Attempts, session : Sessions, state : TokenStates])
    /\ processed \in [Attempts -> 0..Len(tokens)]
    /\ mapping \in [Sessions -> 0..MaxAttempts]
    /\ timers \subseteq Sessions \X Attempts
    /\ presence \in [Sessions ->
         [attempt : 0..MaxAttempts, state : {"accepted", "media-bound", "ready", "departed"},
          timer : BOOLEAN, joined : BOOLEAN, left : BOOLEAN]]
    /\ \A s \in Sessions :
         presence[s].timer <=> <<s, presence[s].attempt>> \in timers
    /\ \A s \in Sessions : presence[s].timer <=> presence[s].state = "departed"
    /\ kicked \subseteq Sessions
    /\ link \in [Attempts -> {"none", "up", "down", "cut"}]

\* One device holds at most one mapping of a logical stream, however many media
\* sessions it has been through (consumeBinding's clean-up of stale entries).
OneMapping ==
    \A s, x \in Sessions : mapping[s] # 0 /\ mapping[x] # 0 => s = x

\* Timers, presences and tokens agree, and a device is served once.
BindingInv == TypeOK /\ OneMapping

\* Every attempt is announced at most once, and its leave cue, if any, plays once
\* and after its join cue, whatever timers, leaves and later attempts do.
CuesPaired == \A a \in Attempts : leaves[a] <= joins[a] /\ joins[a] <= 1

\* While the departure of a viewer is pending, its link is not up: no grace timer
\* can take the mapping of a viewer that has come back.
PendingDepartureIsDown ==
    \A s \in Sessions :
       presence[s].timer /\ mapping[s] # 0 =>
          mapping[s] = presence[s].attempt /\ link[mapping[s]] \in {"down", "cut"}

\* Once a stream is stopped no mapping of it is left or made: not those of the media
\* sessions before the last restart, nor those a failed restart kept, nor one of a bind
\* that was under way (stopStreamImpl, which runs for an active and a failed stream).
\* Between a failed restart and the stop that follows, the mappings do stay.
StoppedServesNobody == stream \in {"idle", "stopped"} => \A s \in Sessions : mapping[s] = 0

\* A viewer that is gone and has not come back is forgotten in the end, even if its
\* leave was lost.  A link the host cut itself at a restart reports nothing.
DepartedDrains ==
    \A a \in Attempts :
       (viewer[a].phase = "gone" /\ link[a] \in {"up", "down"})
         ~> \/ \A s \in Sessions : mapping[s] # a
            \/ \E b \in Attempts : b > a /\ Started(b)
            \/ link[a] = "cut"

\* "A host-executed kick is terminal: reject re-join attempts ... so a kick cannot
\* be defeated by silent reconnection" (handleJoinRequest).
KickIsTerminal == \A s \in kicked : mapping[s] = 0

\* "a stale registry entry must NOT bypass an inactive/mismatched SSM"
\* (handleJoinRequest): a token is minted only for a stream that is published.
StaleEntryAdmitsNobody ==
    [][Len(tokens') > Len(tokens) => stream = "active"]_vars

\* "The viewer must have a valid binding mapping" (handleViewerReady): no join cue
\* plays for an attempt that is not bound.
ReadyNeedsMapping ==
    [][\A a \in Attempts : joins'[a] > joins[a] => \E s \in Sessions : mapping[s] = a]_vars
=============================================================================
