---------------------------- MODULE StreamDiscovery ----------------------------
(***************************************************************************)
(* How the devices of one group learn which streams are live.              *)
(*                                                                         *)
(* A host (stream-session-manager.ts, stream-announcer.ts) announces a      *)
(* stream with stream.started, keeps it alive with heartbeats and repeated  *)
(* snapshots, announces a restart with stream.restarted and the end with    *)
(* stream.stopped.  Every device files what it hears in its own registry    *)
(* (ActiveStreamRegistry), answers state requests from it, and expires      *)
(* streams it stops hearing of.                                             *)
(*                                                                         *)
(* Messages travel over one data channel per pair of devices.  Signing and  *)
(* verifying an envelope are asynchronous, answers are relayed by third     *)
(* devices, and a lifecycle message with no recipient waits in a queue for  *)
(* the next connection, so the network is a set from which any message may  *)
(* be taken next.  A message that never arrives is one that was not handed  *)
(* to the channel of that peer: broadcast() reaches the peers mapped at     *)
(* that moment.                                                             *)
(***************************************************************************)
EXTENDS ActiveStreamRegistry

CONSTANTS
    Devices,        \* the members of the group
    Owner,          \* the device each stream is hosted by
    NoStream,       \* a host that is not sharing
    DefaultPermissions,
    Lossy,          \* broadcasts may miss peers
    Prompt,         \* timers fire on time, messages arrive within the period
    MaxRevision,    \* bound: streamRevision of a host
    MaxSequence,    \* bound: heartbeatSequence of a stream
    MaxInFlight,    \* bound: messages in flight
    MaxRefresh      \* bound: handshakes and refreshes of the group, together

ASSUME DiscoveryAssumption ==
    /\ Owner \in [Streams -> Devices]
    /\ NoStream \notin Streams
    /\ DefaultPermissions \in Permissions
    /\ Lossy \in BOOLEAN
    /\ Prompt \in BOOLEAN

VARIABLES
    registry,  \* each device's registry
    host,      \* each device's session manager and announcer
    unused,    \* logicalStreamIds not drawn yet
    net,       \* messages in flight
    due,       \* when Prompt: the timers that still have to fire in this period
    refreshes, \* handshakes and refreshes so far
    heard,     \* history, when Prompt: periods since a device heard the live
               \*   session's heartbeat
    retired,   \* history: streams a device has seen end, not merely expire
    aired      \* history: the sessions of each stream whose media came up

vars == <<registry, host, unused, net, due, refreshes, heard, retired, aired>>
history == <<heard, retired, aired>>

\* The age of a heartbeat that was never heard.
Never == ExpiryAge + 1

SessionState == {"idle", "starting", "active", "restarting", "failed"}

\* published: the restart's media is up and registered, not yet announced.
HostState == [state : SessionState, stream : Streams \cup {NoStream},
              session : Nat, revision : Nat, seq : Nat, perms : Permissions,
              published : BOOLEAN]

Message ==
         [type : {"started"}, to : Devices, stream : Streams,
          ann : Announcement, replaces : BOOLEAN]
    \cup [type : {"heartbeat"}, to : Devices, stream : Streams,
          session : Nat, seq : Nat]
    \cup [type : {"stopped"}, to : Devices, stream : Streams]
    \cup [type : {"permissions"}, to : Devices, stream : Streams, perms : Permissions]
    \cup [type : {"request"}, to : Devices, from : Devices]
    \cup [type : {"snapshot"}, to : Devices, streams : Snapshot]

Live(k) == host[Owner[k]].state = "active" /\ host[Owner[k]].stream = k

\* What a host announces of its session s.
BuildAnnouncement(s) ==
    [session |-> s.session, revision |-> s.revision, seq |-> s.seq, perms |-> s.perms]

\* Session s with the identifiers of the next media session: a random
\* mediaSessionId, which no other session has, and the next streamRevision.
NextSession(s) ==
    [s EXCEPT !.session = s.session + 1, !.revision = s.revision + 1, !.seq = 0]

\* Session s once it no longer has a stream.
WithoutStream(s, state) ==
    [s EXCEPT !.state = state, !.stream = NoStream, !.perms = DefaultPermissions]

Others(d) == Devices \ {d}

\* The peers a broadcast of d can reach.
Reachable(d) == IF Lossy THEN SUBSET Others(d) ELSE {Others(d)}

Send(msgs) ==
    /\ Cardinality(net \cup msgs) <= MaxInFlight
    /\ net' = net \cup msgs

Timers == {"check", "heartbeat"} \X Devices
Fire(timer) == /\ Prompt => timer \in due
               /\ due' = due \ {timer}

-----------------------------------------------------------------------------
Init ==
    /\ registry = [d \in Devices |-> EmptyRegistry]
    /\ host = [d \in Devices |->
                 [state |-> "idle", stream |-> NoStream, session |-> 0, revision |-> 0,
                  seq |-> 0, perms |-> DefaultPermissions, published |-> FALSE]]
    /\ unused = Streams
    /\ net = {}
    /\ due = {}
    /\ refreshes = 0
    /\ heard = [d \in Devices |-> [k \in Streams |-> Never]]
    /\ retired = [d \in Devices |-> {}]
    /\ aired = [k \in Streams |-> {}]

\* Phase A of startStream: fresh identifiers, the permissions the user asks for,
\* media published, and the stream registered locally before any peer is told.
PublishStarted(h, k, p) ==
    /\ host[h].state \in {"idle", "failed"}
    /\ Owner[k] = h /\ k \in unused
    /\ host[h].revision < MaxRevision
    /\ unused' = unused \ {k}
    /\ LET s == [NextSession(host[h]) EXCEPT !.state = "starting", !.stream = k,
                                              !.perms = p]
       IN /\ host' = [host EXCEPT ![h] = s]
          /\ registry' = [registry EXCEPT ![h] =
                RegisterLocalStream(@, k, BuildAnnouncement(s))]
          /\ aired' = [aired EXCEPT ![k] = @ \cup {s.session}]
    /\ UNCHANGED <<net, due, refreshes, heard, retired>>

\* Phase A fails (no capture, no publication): the identifiers are spent.
StartFails(h, k) ==
    /\ host[h].state \in {"idle", "failed"}
    /\ Owner[k] = h /\ k \in unused
    /\ host[h].revision < MaxRevision
    /\ host' = [host EXCEPT ![h] = WithoutStream(NextSession(@), "failed")]
    /\ unused' = unused \ {k}
    /\ UNCHANGED <<registry, net, due, refreshes, history>>

\* Phase B of startStream and of restartStream: tell whoever is reachable, with
\* the sequence at zero, and start the two timers.
Announce(h) ==
    /\ host[h].state = "starting" \/ host[h].published
    /\ \E S \in Reachable(h) :
         Send({[type |-> "started", to |-> p, stream |-> host[h].stream,
                ann |-> BuildAnnouncement(host[h]),
                replaces |-> host[h].published] : p \in S})
    /\ host' = [host EXCEPT ![h].state = "active", ![h].published = FALSE]
    /\ UNCHANGED <<registry, unused, due, refreshes, history>>

\* Faulty variant of BeginRestart: the new session is registered as soon as its
\* identifiers are drawn.
BeginRestartRegistered(h) ==
    /\ host[h].state = "active"
    /\ host[h].revision < MaxRevision
    /\ LET s == [NextSession(host[h]) EXCEPT !.state = "restarting"]
       IN /\ host' = [host EXCEPT ![h] = s]
          /\ registry' = [registry EXCEPT ![h] =
                RegisterLocalStream(@, s.stream, BuildAnnouncement(s))]
    /\ due' = due \ {<<"heartbeat", h>>}
    /\ UNCHANGED <<unused, net, refreshes, history>>

\* restartStream: the timers stop and the identifiers of the new media session
\* are drawn before it is captured.
BeginRestart(h) ==
    /\ host[h].state = "active"
    /\ host[h].revision < MaxRevision
    /\ host' = [host EXCEPT ![h] = [NextSession(@) EXCEPT !.state = "restarting"]]
    /\ due' = due \ {<<"heartbeat", h>>}
    /\ UNCHANGED <<registry, unused, net, refreshes, history>>

PublishRestarted(h) ==
    /\ host[h].state = "restarting" /\ ~host[h].published
    /\ host' = [host EXCEPT ![h].published = TRUE]
    /\ registry' = [registry EXCEPT ![h] =
          RegisterLocalStream(@, host[h].stream, BuildAnnouncement(host[h]))]
    /\ aired' = [aired EXCEPT ![host[h].stream] = @ \cup {host[h].session}]
    /\ UNCHANGED <<unused, net, due, refreshes, heard, retired>>

\* Faulty variant of RestartFails: the session keeps its stream.
RestartFailsKeepingStream(h) ==
    /\ host[h].state = "restarting" /\ ~host[h].published
    /\ host' = [host EXCEPT ![h].state = "failed"]
    /\ UNCHANGED <<registry, unused, net, due, refreshes, history>>

\* The new capture fails: the session is reset, and neither the local registry
\* nor any peer is told that the stream is gone.
RestartFails(h) ==
    /\ host[h].state = "restarting" /\ ~host[h].published
    /\ host' = [host EXCEPT ![h] = WithoutStream(@, "failed")]
    /\ UNCHANGED <<registry, unused, net, due, refreshes, history>>

\* stopStream: the local registry first, then stream.stopped to the peers.  A
\* failed session has no identity left, so there is nothing to tell.
Stop(h) ==
    /\ host[h].state \in {"active", "failed"}
    /\ host' = [host EXCEPT ![h] = WithoutStream(@, "idle")]
    /\ due' = due \ {<<"heartbeat", h>>}
    /\ LET k == host[h].stream
       IN IF k = NoStream
            THEN UNCHANGED <<registry, net, retired>>
            ELSE /\ registry' = [registry EXCEPT ![h] = HandleStopped(@, k)]
                 /\ retired' = [retired EXCEPT ![h] = @ \cup {k}]
                 /\ \E S \in Reachable(h) :
                      Send({[type |-> "stopped", to |-> p, stream |-> k] : p \in S})
    /\ UNCHANGED <<unused, refreshes, heard, aired>>

\* switchSource ends by registering the stream again with its new source, and
\* so does a viewer's join request that finds the host's own entry missing.
RegisterAgain(h) ==
    /\ host[h].state = "active"
    /\ registry' = [registry EXCEPT ![h] =
          RegisterLocalStream(@, host[h].stream, BuildAnnouncement(host[h]))]
    /\ UNCHANGED <<host, unused, net, due, refreshes, history>>

SetInputPermissions(h, p) ==
    /\ host[h].state \in {"starting", "active", "restarting"}
    /\ p # host[h].perms
    /\ host' = [host EXCEPT ![h].perms = p]
    /\ registry' = [registry EXCEPT ![h] = UpdateInputPermissions(@, host[h].stream, p)]
    /\ IF host[h].state = "active"
         THEN \E S \in Reachable(h) :
                Send({[type |-> "permissions", to |-> q, stream |-> host[h].stream,
                       perms |-> p] : q \in S})
         ELSE UNCHANGED net
    /\ UNCHANGED <<unused, due, refreshes, history>>

\* The 10 s timer of the announcer.
SendHeartbeat(h) ==
    /\ host[h].state = "active"
    /\ host[h].seq < MaxSequence
    /\ Fire(<<"heartbeat", h>>)
    /\ host' = [host EXCEPT ![h].seq = @ + 1]
    /\ \E S \in Reachable(h) :
         Send({[type |-> "heartbeat", to |-> p, stream |-> host[h].stream,
                session |-> host[h].session, seq |-> host[h].seq + 1] : p \in S})
    /\ UNCHANGED <<registry, unused, refreshes, history>>

\* Faulty variant of SendReannounce: it repeats what the local registry lists.
SendReannounceFromRegistry(h) ==
    /\ host[h].state = "active"
    /\ \E S \in Reachable(h) :
         Send({[type |-> "snapshot", to |-> p,
                streams |-> StreamsByGroup(registry[h])] : p \in S})
    /\ UNCHANGED <<registry, host, unused, due, refreshes, history>>

\* The 3.5 s timer: the session's own announcement, not the registry's.
SendReannounce(h) ==
    /\ host[h].state = "active"
    /\ \E S \in Reachable(h) :
         Send({[type |-> "snapshot", to |-> p,
                streams |-> [k \in Streams |-> IF k = host[h].stream
                                               THEN BuildAnnouncement(host[h]) ELSE NoEntry]] : p \in S})
    /\ UNCHANGED <<registry, host, unused, due, refreshes, history>>

-----------------------------------------------------------------------------
\* d completes the hello handshake with p: it asks for p's streams and offers
\* its own registry, which holds the streams of third devices too.
PeerOnline(d, p) ==
    /\ p # d
    /\ refreshes < MaxRefresh /\ refreshes' = refreshes + 1
    /\ Send({[type |-> "request", to |-> p, from |-> d]} \cup
            (IF Visible(registry[d]) = {} THEN {}
             ELSE {[type |-> "snapshot", to |-> p, streams |-> StreamsByGroup(registry[d])]}))
    /\ UNCHANGED <<registry, host, unused, due, history>>

\* The user refreshes the group: every remote stream is forgotten and asked for.
RequestGroupSync(d) ==
    /\ refreshes < MaxRefresh /\ refreshes' = refreshes + 1
    /\ registry' = [registry EXCEPT ![d] =
          ClearGroupStreams(@, {k \in Streams : Owner[k] = d})]
    /\ \E S \in Reachable(d) : Send({[type |-> "request", to |-> p, from |-> d] : p \in S})
    /\ UNCHANGED <<host, unused, due, history>>

-----------------------------------------------------------------------------
\* The effect of delivering m on the registry r of its receiver.
Handle(r, m) ==
    CASE m.type = "started"     -> HandleStarted(r, m.stream, m.ann, m.replaces)
      [] m.type = "heartbeat"   -> HandleHeartbeat(r, m.stream, m.seq)
      [] m.type = "stopped"     -> HandleStopped(r, m.stream)
      [] m.type = "permissions" -> UpdateInputPermissions(r, m.stream, m.perms)
      [] m.type = "snapshot"    -> HandleSnapshot(r, m.streams)
      [] m.type = "request"     -> r

Deliver(m) ==
    /\ registry' = [registry EXCEPT ![m.to] = Handle(@, m)]
    /\ IF m.type = "request"
         THEN net' = (net \ {m}) \cup {[type |-> "snapshot", to |-> m.from,
                                        streams |-> StreamsByGroup(registry[m.to])]}
         ELSE net' = net \ {m}
    /\ heard' = IF /\ Prompt /\ m.type = "heartbeat" /\ Live(m.stream)
                   /\ m.session = host[Owner[m.stream]].session
                  THEN [heard EXCEPT ![m.to][m.stream] = 0]
                  ELSE heard
    /\ retired' = IF m.type = "stopped" /\ registry[m.to].streams[m.stream] # NoEntry
                    THEN [retired EXCEPT ![m.to] = @ \cup {m.stream}]
                    ELSE retired
    /\ UNCHANGED <<host, unused, due, refreshes, aired>>

\* The registry's own 10 s timer.
HeartbeatCheck(d) ==
    /\ Fire(<<"check", d>>)
    /\ LET r == DropOldTombstones(ExpireStreams(registry[d]))
       IN \E gone \in EvictionChoices(r) :
            registry' = [registry EXCEPT ![d] = Evict(r, gone)]
    /\ UNCHANGED <<host, unused, net, refreshes, history>>

\* A check period of 10 s passes.
Tick ==
    /\ due = {}
    /\ Prompt => net = {}
    /\ due' = IF Prompt THEN {<<"check", d>> : d \in Devices} \cup
                             {<<"heartbeat", h>> : h \in {d \in Devices : host[d].state = "active"}}
                        ELSE {}
    /\ registry' = [d \in Devices |-> AgeRegistry(registry[d])]
    /\ heard' = [d \in Devices |-> [k \in Streams |->
                   IF Prompt /\ Live(k) THEN Older(heard[d][k], ExpiryAge) ELSE Never]]
    /\ UNCHANGED <<host, unused, net, refreshes, retired, aired>>

HostStep(h) ==
    \/ \E k \in Streams : StartFails(h, k) \/ \E p \in Permissions : PublishStarted(h, k, p)
    \/ Announce(h) \/ BeginRestart(h) \/ PublishRestarted(h) \/ RestartFails(h)
    \/ Stop(h) \/ RegisterAgain(h)
    \/ \E p \in Permissions : SetInputPermissions(h, p)
    \/ SendHeartbeat(h) \/ SendReannounce(h)

Next ==
    \/ \E d \in Devices : HostStep(d) \/ RequestGroupSync(d) \/ HeartbeatCheck(d)
    \/ \E d, p \in Devices : PeerOnline(d, p)
    \/ \E m \in net : Deliver(m)
    \/ Tick

Spec == Init /\ [][Next]_vars

\* What the event loops give: every message handed to a channel is handled,
\* kind by kind, timers fire and time passes.  Users, capture and handshakes
\* owe nothing.  A broadcast may miss any peer; all that is asked of the network
\* is that the announcer's timer fires again and again while a given peer is
\* mapped.  That is strong fairness, because the peer comes and goes and because
\* MaxInFlight, which no timer of the code waits for, disables the step at times.
DeliverTo(d, type) == \E m \in net : m.to = d /\ m.type = type /\ Deliver(m)

ReannounceTo(d, p) == SendReannounce(d) /\ \E m \in net' \ net : m.to = p

Fairness ==
    /\ WF_vars(Tick)
    /\ \A d \in Devices :
         /\ WF_vars(HeartbeatCheck(d))
         /\ \A type \in {"started", "heartbeat", "stopped", "permissions", "snapshot", "request"} :
              WF_vars(DeliverTo(d, type))
    /\ \A k \in Streams, p \in Devices :
         p # Owner[k] => SF_vars(ReannounceTo(Owner[k], p))

FairSpec == Spec /\ Fairness

-----------------------------------------------------------------------------
\* Every variable keeps its type.
TypeOK ==
    /\ registry \in [Devices -> Registry]
    /\ host \in [Devices -> HostState]
    /\ unused \in SUBSET Streams
    /\ net \in SUBSET Message
    /\ due \in SUBSET Timers
    /\ refreshes \in Nat
    /\ heard \in [Devices -> [Streams -> Nat]]
    /\ retired \in [Devices -> SUBSET Streams]
    /\ aired \in [Streams -> SUBSET Nat]

\* No device ever holds a stream and its tombstone together: the two maps are
\* updated by nine handlers, and the queries hide a stream that is in both.
TombstoneExcludesEntry ==
    \A d \in Devices, k \in Streams :
       Tombstoned(registry[d], k) => registry[d].streams[k] = NoEntry

\* The sequence map and the announcement agree: heartbeatSequences, which
\* started and heartbeat are judged by, is the sequence of the entry, which
\* snapshots are judged by, and is forgotten with it.
SequenceFollowsEntry ==
    \A d \in Devices, k \in Streams :
       registry[d].sequences[k] =
          IF registry[d].streams[k] = NoEntry THEN NoSequence
          ELSE registry[d].streams[k].ann.seq

\* Announcement a names a session of k whose media came up, and its revision.
Published(k, a) == a.session = a.revision /\ a.session \in aired[k]

\* Viewers join the session an entry names.  Whatever is relayed, delayed or
\* fails, every entry and every announcement in flight names a session of that
\* stream that its host has published: a restart draws its identifiers long
\* before its media is up, and may fail, and by then the host's timers, its
\* answers to peers and the viewers' joins still go on.
OnlyPublishedShown ==
    /\ \A d \in Devices, k \in Streams :
         registry[d].streams[k] # NoEntry => Published(k, registry[d].streams[k].ann)
    /\ \A m \in net :
         /\ m.type = "started" => Published(m.stream, m.ann)
         /\ m.type = "snapshot" =>
              \A k \in Listed(m.streams) : Published(k, m.streams[k])

\* A device that has seen a remote stream stop never shows it again, although
\* devices that missed the stop keep offering it (E2E-EXHAUSTIVE-TEST-PLAN.md:358).
NoResurrection ==
    \A d \in Devices : \A k \in retired[d] :
       d # Owner[k] => registry[d].streams[k] = NoEntry

\* The host itself does not get its stopped stream back from a device that
\* missed the stop (E2E-EXHAUSTIVE-TEST-PLAN.md:222).
HostStopIsFinal ==
    \A k \in Streams :
       k \in retired[Owner[k]] => registry[Owner[k]].streams[k] = NoEntry

\* While a device keeps a stream, nothing but a stream.restarted delivered out
\* of order takes it back to a session that has been replaced: neither lists
\* relayed by devices that missed the restart nor starts and heartbeats in flight.
RevisionNeverRegresses ==
    [][\A d \in Devices, k \in Streams :
          /\ registry[d].streams[k] # NoEntry
          /\ registry'[d].streams[k] # NoEntry
          /\ ~\E m \in net : m.type = "started" /\ m.replaces /\ Deliver(m)
          => registry'[d].streams[k].ann.revision >= registry[d].streams[k].ann.revision]_vars

\* A device that has heard the running session's heartbeat within the expiry
\* period does not expire the stream.
ActiveHeartbeatPreventsExpiry ==
    [][\A d \in Devices, k \in Streams :
          Live(k) /\ d # Owner[k] /\ heard[d][k] <= ExpiryAge /\ k \notin retired[d]
             /\ registry[d].streams[k] # NoEntry /\ HeartbeatCheck(d)
          => registry'[d].streams[k] # NoEntry]_vars

\* Once its host no longer runs it, a stream disappears from every device, even
\* from those that missed the stop and got it back from each other.
StoppedForgotten ==
    \A k \in Streams :
       (k \notin unused /\ host[Owner[k]].stream # k)
          ~> [](\A d \in Devices : registry[d].streams[k] = NoEntry)

\* A device that missed stream.started, or whose entry expired, finds a stream
\* that keeps running.
LateJoinerDiscovers ==
    \A k \in Streams, d \in Devices :
       (d # Owner[k] /\ <>[]Live(k)) => []<>(k \in Visible(registry[d]))

\* Where each stream is in its life, as its host sees it.
Phase ==
    [k \in Streams |->
       IF k \in unused THEN "new"
       ELSE IF host[Owner[k]].stream = k THEN host[Owner[k]].state
       ELSE IF k \in retired[Owner[k]] THEN "stopped"
       ELSE "lost"]

Life == INSTANCE StreamLife WITH phase <- Phase, over <- FALSE

\* Hosts do with their streams what StreamLife promises: identifiers are not
\* reused, a host runs one stream at a time, and a stream that was stopped, or
\* lost in a failed restart, does not come back to its host's session.
ImplementsStreamLife == Life!Spec
=============================================================================
