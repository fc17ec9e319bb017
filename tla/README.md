# ScreenLink: a verification development

ScreenLink is an Electron application with which the members of a group share
their screens with each other. There is no server of its own: devices meet in a
VDO.Ninja room, keep one WebRTC data channel per pair for control messages, and
open further peer connections for media. Everything a device knows about the
others (who is online, who shares what, how) it learned from messages that were
signed, sent best-effort, relayed by third devices and possibly missed.

This directory models the parts of the program in which that matters most: how a
host's stream comes into being, how the group learns of it and how it ends; how two
devices find each other and stay connected; how a viewer joins, watches, recovers and
leaves, seen from the host and from the viewer; how the state of a group is
replicated; and how the native audio helper is kept alive and put to rest.
Sources are named relative to `src/apps/desktop/src/renderer/services/` unless a
path is given.

## 1. Inventory

| Component | Source | State | Operations | Interacts with |
|---|---|---|---|---|
| Active stream registry | `active-stream-registry.ts` | three maps per device: streams, tombstones, heartbeat sequences | handlers of started/restarted/heartbeat/stopped/snapshot/permissions, local registration, clear, periodic check | called by the router, the session manager and the media binding |
| Stream announcer | `stream-announcer.ts` | heartbeat (10 s) and re-announce (3.5 s) timers, sequence | start, stop, heartbeat, re-announce | owned by the session manager, sends through the connection manager |
| Group message router | `group-message-router.ts` | none of its own (dedup and replay windows) | decode, verify, dispatch; answer `stream.state.request` | registry, sync service, media binding, coordinators |
| Stream session manager | `stream-session-manager.ts` | state, media identifiers, capture, publisher, operation queue | start, stop, restart, switchSource, setInputPermissions, destroy | publisher, registry, connection manager, announcer |
| Publisher manager | `publisher-manager.ts` | HostPublisher, published track, combined stream | startPublishing, replaceVideoTrack, stopCapture | VDO adapter, audio controller |
| Group connection manager | `group-connection-manager.ts` | one connection per group, pending lifecycle Map per group | addGroup, removeGroup, sendOrQueue, flush, flush to peer | control connections, session manager |
| Group control connection | `group-control-connection.ts` | SDK, raw routes, mapped peers, peers awaiting hello | start, broadcast, sendToPeer, hello handshake and retries, destroy | VDO adapter, router |
| Group sync service | `group-sync-service.ts`, `src/packages/shared` | group name, quality and members, each stamped by a hybrid logical clock | local edits, merge of remote state, digests | router, group store |
| Viewer media binding | `viewer-media-binding.ts` | one-time tokens, viewer to peer mappings | join request, media.bind, expiry | publisher, registry, router |
| Viewer session and controller | `viewer-session.ts`, `viewer-session-controller.ts` | state, generation, ViewerClient, supervisor | start, pause, retry, switch stream, stop | registry events, control messages |
| Connection supervisor, backoff | `connection-supervisor.ts` | attempt count, media progress | stall check, retry, pause | viewer session |
| Coordinators | `quality-`, `restart-`, `share-coordinator.ts` | pending requests and timers | request, approve, time out | session manager, router |
| Sender controller, metrics | `viewer-sender-controller.ts`, `stream-metrics-service.ts` | encoder settings, statistics | sample, adapt | publisher |
| Audio pipeline | `renderer/audio/*` | PCM ring, worklet | write, read, flush | main-process audio bridge |
| Main process | `main/*` | child processes, pipes, shared-memory frame ring, JSON stores, updater | spawn, restart, read, save | renderer by IPC |
| VDO adapter | `src/packages/vdo-adapter` | vendored SDK objects | connect, publish, replaceTrack, view | all media and control |
| UI and native code | `renderer/components`, `src/native` | | | |

What is hard here:

* **Delivery.** `broadcast` reaches the peers mapped at that moment and nobody
  learns who was missed. Third devices relay what they remember. Messages of one
  sender overtake each other, because signing and verifying are asynchronous.
* **Two clocks of freshness.** A stream carries `streamRevision` (per restart),
  `heartbeatSequence` (back to 0 per restart) and arrival times; handlers judge by
  different ones.
* **Tombstones** expire, are evicted, and are not always made.
* **Awaits.** A session operation is a chain of awaits. Tracks end, peers come and
  go, queues are replaced and `destroy()` runs between two of them.
* **Failure half-way.** A switch, start or restart fails after the SDK has
  already changed something.
* **Generations.** Viewer session, controller, control connection and audio helper
  each guard their continuations with a counter that says "this is outdated". What
  goes wrong is always a place that does not look, or that raises the counter and
  makes an outdated continuation current again.
* **Timers against late answers.** Grace timers of viewers, join retransmissions,
  recovery timers, hello retries, restart timers of helpers.

What makes the modelled parts correct: a device that keeps hearing a stream keeps
it; one that saw it stop does not get it back; one that missed it finds it; a
stream nobody runs is forgotten; no device is shown a media session that was never
published; a stop is delivered last and not lost; every live capture is accounted for;
an active session is complete; a failed operation leaves what the code says it leaves; a
viewer is served once and forgotten when it is gone; an end, a stop and a leave stay what they
are whatever is still under way; a stall is recovered; two devices that stay in the
room know each other; the members of a group agree; no helper process escapes.
`PROJECT.json` lists, line by line, the hazards against these.

## 2. Modules

| Module | Models |
|---|---|
| `ActiveStreamRegistry` | the registry class; each handler is an operator from registry to registry |
| `StreamDiscovery` | the devices of a group, their registries, hosts' sessions as far as discovery sees them, and the network between |
| `PendingLifecycle` | the queue of undelivered lifecycle messages and the flushes that replay it |
| `StreamSession` | the session manager and publisher of one host, await by await |
| `ControlConnection` | the control connections of two devices: SDKs, links, hello handshake, restart |
| `ViewerBinding` | the host's side of watching: tokens, mappings, presences, grace timers, cues |
| `ViewerSession` | the viewer's side: the join flow of one session with its media client |
| `ViewerController` | what starts, recovers, pauses and stops viewer sessions, with its supervisor |
| `GroupSync` | a group's replicated state, its hybrid clocks and the copy on disk |
| `AudioHelper` | the audio helper's manager and the main process handlers that own it |
| `StreamLife` | the abstract specification: the phases of a stream's life, as its host promises them |
| `MCStreamDiscovery`, `MCPendingLifecycle` | constants and symmetry for TLC |
| `StreamDiscoveryProofs` | theorems about the registries, the announcements, the life of streams, which discovery implements, and streams that have ended |
| `StreamSessionProofs` | theorems about what a session holds, and that the session manager implements `StreamLife` |
| `GroupConnectionProofs` | theorems about the routes of `ControlConnection` and the queue of `PendingLifecycle` |
| `ViewerBindingProofs`, `ViewerSessionProofs`, `ViewerControllerProofs` | theorems about the two sides of watching |
| `GroupSyncProofs` | theorems about clocks and stamps |
| `AudioHelperProofs` | theorems about helper processes |

### ActiveStreamRegistry and StreamDiscovery

`registry[d]` holds the three maps of the class. `HandleStarted`,
`HandleHeartbeat`, `HandleStopped`, `HandleSnapshot`, `RegisterLocalStream`,
`UpdateInputPermissions`, `ClearGroupStreams` and the periodic check
(`ExpireStreams`, `DropOldTombstones`, `Evict`) are the methods of the same names.
Every use of `Date.now()` compares an instant with an earlier one, so an instant
is kept as an age in check periods (10 s) that stops growing one past the largest
limit it is compared with; expiry (30 s) is `ExpiryAge = 3`, tombstone age
(5 min) `TombstoneMaxAge = 30`.

`host[d]` holds what discovery sees of a session: state, stream, media session,
revision, sequence, permissions. `PublishStarted`/`Announce` are phases A and B of
`startStream`, `BeginRestart`/`PublishRestarted`/`Announce` those of
`restartStream`; `StartFails` and `RestartFails` their failures. `SendHeartbeat`
and `SendReannounce` are the announcer's timers. `PeerOnline` is the runtime's
reaction to a completed hello, `RequestGroupSync` the user's refresh, `Deliver`
the router's dispatch.

Abstractions: one group; `net` is a set from which any message is taken next;
loss happens when a broadcast reaches a subset (`Lossy`: the peers mapped at that
moment), never after;
`mediaSessionId`, a random string in the code, is a counter, which differs for
every session just as the strings do; `leaseValidUntil` is left out because no
sender sets it; the pending queue appears as delay and loss. `Prompt` restricts a
run to executions in which timers fire once per period and messages arrive within
it: counterexamples found there cannot be blamed on slowness. Without `Prompt`
periods pass at any pace. Three variables are history: `heard` (kept only with `Prompt`,
for item 1 of section 5), `retired` (the streams whose end a device has seen) and
`aired` (the media sessions whose capture and publication came up).

### PendingLifecycle

A JavaScript `Map` is a sequence with holes, in insertion order; `tables` holds
every Map ever made because a flush keeps a reference to the one it began with,
and `current` says which one the group uses. `SendOrQueue`/`SendDone` are
`sendOrQueueStreamLifecycle` before and after its await, `Flush`/`FlushStep` the
two flush methods send by send. A whole-group flush iterates over the live Map, a
flush to one peer over a copy. A send reports success as the code sees it.
No entry crosses its five minutes while a flush is running.

### StreamSession

One action is one stretch of code between two awaits. `queue` is `_opQueue`, `op`
the running operation with its local variables, `end` those of `destroy()`,
`managers` every `PublisherManager` ever made, `tracks` every capture, `watched`
the tracks whose `onended` is set. That `replaceTrack` stops the old track is
behaviour of the SDK, as the comment at `publisher-manager.ts:607` describes it.
A track says how it came to its end (`TrackStates`): the session stopped it, a switch
replaced it, or its source ended it, noticed by a handler or not. `end.overtook`
remembers that `destroy()` came while a restart was taking the old publication down or
a switch was replacing the track, the two places from which the code goes on to a live
capture. Left out: audio, quality, metrics, viewer mappings, permissions, the entries of
the host's own registry (which no guard here reads, and which expire while a session is
active), and the SDK connection of a publication that fails half-way (listed as a hazard).

### ControlConnection

Two devices, each with its connection for one group. A start makes a new SDK with a
UUID of its own; its number, `startGeneration`, stands for both, and a link is a data
channel between an SDK of one device and an SDK of the other. `raw`, `mapped`,
`identity` and `awaiting` are `rawDataPeers`, `deviceToPeer`, `rawPeerIdentity` and
`peersAwaitingHello`. `Handle` is `dataReceived` with everything `validate...` and
`establishDeviceMapping` decide, `Events` the open and close events, `RetryTick` the
hello timer, `Disconnected`/`Reconnected`/`ReconnectFails` signaling,
`RestartFailed` the connection manager's retry in place, `Destroy` and `Crash` the
ends. `checking` holds messages that are being validated while their channel closes.
Left out: the application's messages, state requests, member records and the rejoin of
an empty room. Assumed of the SDK and the crypto: a channel delivers nothing before it
is reported open, and a validation that is under way is over before the same two SDKs
reconnect.

### ViewerBinding

One viewer device, one logical stream, several attempts and several media sessions of
the host. `stream` is the session manager's state as far as the binding asks for it:
`BeginRestart` closes the publication, `RestartDone` publishes again, and `RestartFails`
resets the session's identifiers and leaves mappings, presences and the registry's entry
(`listed`, until `EntryExpires`) where they are. `DecideJoin` is whom `handleJoinRequest`
believes, the session or the registry. `HandleJoin` (with `AcceptJoin`, `RefuseJoin`, `RepeatJoin`) is
`handleJoinRequest`, `HandleBind` and `ExpireToken` the one-time token, `HandleReady`,
`HandleLeave`, `LinkUp`, `LinkDown` and `GraceEnds` the life of a presence, `Kick` and
`DeviceOffline` what takes it away. Join, ready and leave travel over the group channel
in order; the bind travels over the media link, so each can overtake the other.
Left out: quality requests, media modes, pauses, connection limits.

### ViewerSession and ViewerController

`ViewerSession` is one object of the class: `flow` is the await its join flow is at,
`teardown` the one of `beginTeardown`, and retransmissions, readiness, track debounce
and a pause run beside them. An attempt has its own viewer session id and client, and
there are two, a start and the automatic retry. A continuation that finds its generation
outdated stops, except in the error paths, which is where finding 14 comes from. The
SDK's `view` may resolve to nothing after 15 s but does not reject once a peer
connection exists; that is how `viewer-client.ts` uses it.

`ViewerController` knows a session by what it tells the controller. `queue` and `op` are
`_enqueue`; the next operation begins in the microtask that ends the one before it, so
timers and events come in only while an operation awaits or the queue is empty
(`Turn`). The supervisor is its reported state and the *cached snapshot* that
`_handleHealthTick` reads. Streams are the host's media sessions. `Destroy` is the
controller's `destroy()` up to its await and `DestroyDone` the rest: it runs beside the
queue, so that an operation queued before it may make a session while the old one
(`destroying`) is still closing. A session that `start()` has left connecting joins
later, and a dead transport reports its death until the queued end has run.

### GroupSync

The state is a record of last-writer-wins registers: the name (the default quality is
another register of the same kind) and a member record per device. `Edit` is
`performLocalEdit`, `Receive` the merge of `handleGroupMessage`, `AntiEntropy` the
periodic summary with its request and answer; all of them compute, wait for the disk
(`ops`) and then assign (`Complete`). A crash may fall between the write of the state
and the write of the clock, and either write may fail and end its operation
(`WriteFails`); `torn` remembers that the one was made and the other not. Wall time is stuck at the
clock of a member that is ahead, which is the case in which counters alone decide.
Left out: a failure of the write of the clock alone, by which an update that changes
nothing advances it, the hash awaited between the tick and the reading of the state, an imported
clock below the name's stamp, a rejoin after leaving, and signatures.

### AudioHelper

A manager's variables are the fields of the same names; `start`, `restart` and `stop`
say which await those methods are at, `cleanup` is the shared `cleanupPromise` with the
process it waits for. `Ensure`, `StopAudio` and `ForceKill` are the handlers of
`ipc-handlers.ts` and `will-quit`. A process may die, refuse to die and answer nothing.
`stale` stands for "`lifecycleGen` moved on since the restart began". Left out: packets,
statistics, queries, `sendShortcut`, a second stop that overlaps the first, and a pipe
that reports its connection after its process has exited. A stop that comes while
`ensureAudioHelper` is still starting finds no helper and does nothing, as in the code.

### StreamLife

Two modules describe a session at different grain: `StreamSession` has every
await, `StreamDiscovery` a handful of atomic steps. What makes it sound to reason
about the group with the coarse one is that both implement the same
specification. A stream is new, starting, active, restarting, and ends stopped
(peers are told) or lost (a start or restart failed, nobody is told). `Phase` is
the refinement mapping in each module. In `StreamDiscovery` it is read from the
host's session, the identifiers drawn and the stops the host has carried out; in
`StreamSession` the streams are the requests that drew them, and `over` is
`destroyed`: after `destroy()` the code keeps no promise (section 5, item 6), so
the abstract specification makes none.

## 3. Runs

| Run | Instance | Question | Distinct states |
|---|---|---|---|
| `discovery_gossip` | 3 devices, 1 stream, one restart, relays, loss, `Prompt` | do the maps of a registry stay consistent; does anything stopped or replaced come back by relay; is only what was published shown | 1 081 491 |
| `discovery_late_join` | 2 devices, one restart, 2 permissions, loss, fair | does a device that missed the start find the stream; does a host implement `StreamLife` | 104 983 |
| `discovery_forgotten` | 3 devices, one restart, 2 refreshes, loss, fair | is a stream nobody runs forgotten by all, for good | 167 718 |
| `pending` | 2 streams, 2 peers, queue of 2, two flushes | does a stop displace starts, is the order kept, is nothing left behind | 297 361 |
| `session` | 4 requests, 3 captures, `destroy()` | are captures, publications and timers accounted for; does a stop take effect; does a session implement `StreamLife` | 546 558 |
| `viewer_binding` | 2 attempts, 2 media sessions, restarts that may fail, 2 tokens, 2 messages, 1 disturbance | is a viewer served once, are cues paired, is who is gone forgotten and who is back kept | 518 377 |
| `viewer_controller` | 2 requests, 2 streams, 3 sessions, queue of 2, 1 change of the channel | one session at a time; does a stop stay; do recoveries begin and end | 720 245 |
| `viewer_session` | 2 attempts, the code's 2 retransmits and 2 pause tries, 3 pauses | one client; do end and leave stay; does a start settle | 310 737 |
| `control_connection` | 2 devices, 2 SDKs each, any 3 disturbances | do reports follow routes, do routes flap, is the handshake completed | 268 628 |
| `group_sync` | 2 members, 2 edits, 2 operations at once, one lost message and one crash or failed write | do clocks cover, are stamps unique, do members agree | 245 651 |
| `group_tombstone` | as `group_sync`, nothing lost | is a departure kept (it is not: section 5, item 7) | |
| `audio_helper` | 2 managers, 4 processes each, 4 faults, the code's 3 restarts | does a process escape; is a stop final; does it return | 168 846 |

An invariant named `...Inv` (`HoldingsInv`, `BindingInv`, `ControllerInv`,
`SessionInv`, `RoutesInv`, `HelperInv`) is the type invariant of its module together
with named parts that say how its variables belong together; each part is a definition
with a comment of its own.

Configurations without a run of their own are kept beside the runs: `MCDiscoverySafety`
(2 devices, 2 streams, untimed eviction) passes; the others show a finding of section 5,
and their properties are violated.

Why the bounds are enough. One restart (`MaxRevision = 2`) gives two revisions,
and every comparison in the registry is between two revisions or two sequences;
one heartbeat makes sequence 0 and 1 of each. Three devices are the smallest group
in which one relays the stream of another to a third. Two messages in flight are the
smallest reordering; with two, a restart overtakes a stop, or a relayed list a restart.
The runs shrink `ExpiryAge` and `TombstoneMaxAge` so that entries and tombstones both
expire within them; `MCMissedRestart` and `MCHostResurrection` use the code's own
limits, so their counterexamples are executions of the program as configured.
`discovery_late_join` keeps one tombstone for one period, so that the tombstone of an
expiry outlives it and has to let the stream in again. In the two fair runs broadcasts
miss devices: a start, a restart and a stop may each reach nobody. Two refreshes in
`discovery_forgotten` let two devices that missed the stop hand the entry to and fro
after the third has forgotten it; a third device receives there no broadcast that
another receives too, since one message is in flight at a time, and a host with a stream
meets no new peer (the other discovery runs do both). `pending` cuts `MAX_PENDING_PER_GROUP` from 16 to 2 so that the cut happens.
Three captures are a start, a switch or restart, and one more; four requests queue a
stop behind each kind of operation.

For the viewer, two attempts and two media sessions give every pair the code compares:
the same attempt after a restart, a rejoin in the same session, a rejoin after a
restart. Three sessions in `viewer_controller` are a start, a recovery and one more; a
queue of two has a stop behind a recovery, and a start behind `destroy()`. In `control_connection` two SDKs are one
replacement on each side, which is what makes a route stale, and three disturbances
combine a crash with a lost hello and a cut link. In `group_sync` two operations in
flight are an edit that overtakes a merge, and `MaxTrouble` lets a lost message come
together with a crash or a failed write (`MaxFaults`). Four processes of a manager are its
start and the three restarts the code allows; two managers are one that the handlers
have dropped and its successor.

Symmetry is used in safety runs only: devices other than the host, and peers.
`discovery_gossip` has a `VIEW` that leaves out `heard`, a history variable that no
guard and none of that run's properties reads.

The runs with `CHECK_DEADLOCK FALSE` have bounded counters that run out (requests,
events, faults, attempts, and under `Prompt` the sequence a heartbeat needs); the
system there has nothing left to do. The other discovery runs let time pass forever
and check deadlock.

### What the properties say

* `TombstoneExcludesEntry`, `SequenceFollowsEntry`: the three maps agree although
  nine handlers write them.
* `OnlyPublishedShown`: a restart draws its identifiers before it has a capture, and
  the host answers peers and beats on meanwhile; no registry and no message ever names a
  session whose media did not come up. It does not say that an entry is of *one* session:
  a heartbeat names no revision and refreshes whatever entry it finds, so that after a
  missed restart the old session's entry carries the new one's sequence (item 1).
* `NoResurrection`: a viewer device that saw a stop does not get the stream back.
  It holds in spite of relays because a stopped key is buried for longer than
  peers that missed the stop keep it. How much longer it must be grows with every
  handshake or refresh by which such a peer hands the entry on, fresh again: the
  code's limits cover six of them (section 6, `StoppedStaysGone`).
* `RevisionNeverRegresses`: no relayed list, late start or heartbeat takes an
  entry back to a replaced session. A `stream.restarted` can, when two of them are
  delivered out of order: `handleStarted` does not look at the revision when
  `replaces` holds. The property excepts exactly that delivery, and the exception
  is what a reader should take from it. Such an entry is not repaired as long as
  heartbeats arrive: a heartbeat names no revision, so those of the new session
  keep the old one's entry alive and raise its sequence with them, and a
  re-announcement of equal sequence is not taken.
* `LateJoinerDiscovers`, `StoppedForgotten`: the two halves of eventual agreement. What
  a late joiner finds is the stream: a device that missed the restart may show its old
  session (item 1).
* `StopSupersedes`, `QueueInOrder`, `NothingStranded`: the queue replays a host's
  messages in the order of issue, the stop last, and each one has somebody who
  will send it.
* `HoldingsInv` (captures), `ActiveIsWhole`, `QuietWhenIdle`: what the session holds,
  in each state, across failures at every await. A live capture is the session's or one
  that the running operation is putting in place, and after `destroy()` there is none,
  except where it overtook a restart's cleanup or a switch's replacement (item 18). An
  active session has not stopped its own capture, and asks itself to stop when it
  notices that its capture has ended. The two exceptions, a track replaced by a switch
  that then failed and one that ended unnoticed, are items 5 and 20.
* `ImplementsStreamLife`, `StopEndsStream`: a stop, or the failure of a restart,
  is the last word on a stream, no identifier serves twice, one stream runs at a
  time; and a stop that was asked for comes.
* `CuesPaired`, `PendingDepartureIsDown`, `DepartedDrains`: a viewer drops, comes back
  and drops again while leaves and ready messages are repeated and overtaken. Cues are
  played once and in order; the grace timer of a departure never fires on a viewer
  whose link is up again; and a viewer that is gone is forgotten without its leave.
* `BindingInv` (one mapping per device and stream), `StoppedServesNobody`: no mapping of
  a media session that a restart has replaced, or that a restart which failed has kept,
  survives a rejoin or a stop. The stop may come long after the failure: until then the
  mappings stay, and the code removes them only because a failed session can be stopped.
* `ControllerInv`, `StopStays`: an operation makes a session only after every one before
  it was torn down, that of a running `destroy()` excepted (item 21), and after a stop
  only for the user, whatever recovery timer, queued recovery or end detector was under
  way.
* `ReconnectingSettles`, `StallRecovers`: `_recoveryInFlight` is set when a recovery is
  scheduled and cleared at five places; forgetting one leaves the viewer on a frozen
  picture for good.
* `SessionInv`, `EndedIsFinal`, `LeaveIsLast`, `StartSettles`: a flow that was
  abandoned neither revives an ended session, nor keeps a media connection, nor sends a
  join after the leave; and some timeout watches every await.
* `RoutesInv`, `NoFlap`, `RouteNotStolen`: reports of presence follow the route table
  across replaced SDKs, second routes of one device and messages of closed channels.
* `HandshakeCompletes`: two devices that stay in the room end up with each other's
  *current* SDK. It is conditioned on no start having failed and no message having been
  in validation when its channel closed, because then it is false (item 8).
* `ClockCovers`, `StampsUnique`, `Converges`: an edit is stamped later than what it
  replaces, across restarts; no stamp is used twice; and anti-entropy makes members
  agree after losses. The first two are stated up to a crash, or a failed write, between
  the writes of state and clock, after which a stamp may be reused.
* `HelperInv`, `ShutdownSettles`, `StopReturns`: the process that runs is the one the
  manager holds, until it was told to end; once shutdown or forced kill was called,
  every process is soon told to end and none is spawned, restarts under way included;
  a stop returns although the process neither answers nor dies.

## 4. Fairness

`StreamDiscovery`: time passes; each device's check and the re-announce timer
fire; each kind of message addressed to a device is eventually handled (`DeliverTo`).
These are the event loop's guarantees for intervals and for data-channel callbacks.
Every broadcast may miss devices, and the only thing assumed of the network is what the
repair needs: a peer that is mapped again and again when the 3.5 s timer fires gets a
re-announcement again and again (`ReannounceTo`, strongly fair, because the peer and
the bound on messages in flight come and go). A start, restart or stop may be missed by
all. No user action, capture
or handshake is fair, and neither is the heartbeat: discovery must work from the
re-announcement alone, which is the code's stated design.

`StreamSession`: every await ends, with success or failure (captures are answered
by the user or refused, the SDK calls are under timeouts, sends resolve), and the
queue starts its next operation when the previous one ended. Requests, tracks
ending and `destroy()` are not fair.

`PendingLifecycle` states its promise as a safety property (`NothingStranded`) and
assumes no fairness.

`ViewerBinding`: grace timers fire, and the media link of a viewer that is gone is
closed in the end by ICE. No message is assumed to arrive.

`ViewerController`: every await of an operation ends (teardowns and starts are under
timeouts, see `StartSettles`), the health interval fires while media stand still
(`Tick(TRUE)`), recovery timers fire, and the teardown that `destroy()` awaits ends. The
host, the channel and the user are free.

`ViewerSession`: the steps of the join flow and of a teardown, each of which is a
timeout, a failure or an answer, and the readiness timer. No answer, connection or track
is assumed to come.

`ControlConnection`: peers in one room with working signaling connect (`LinkUp`), events
and messages of a link are delivered unless the bound on losses lets them be lost, the
retry interval fires.

`GroupSync`: the disk completes its writes, messages of each type are handled, the
anti-entropy interval fires (strongly fair, as it waits for the network's bound). At
most `MaxLosses` messages are lost, so a later round gets through.

`AudioHelper`: the awaits of a stop and of a cleanup end, because each has a deadline,
and the 500 ms wait after a spawn is a timer. No process is assumed to answer or exit.

## 5. Where the code and its documentation disagree

`PROJECT.json` quotes the lines. Item 7 is a run. Items with a configuration in
parentheses were checked with it; for the others the statement is a property in the
module, named with it, that TLC refutes.

1. **A missed restart loses the stream** (`MCMissedRestart`). Heartbeats and
   snapshots are rejected by sequence before the revision is of any help; a
   restart sets the sequence to 0. A device that misses `stream.restarted` after
   N heartbeats is deaf until the new session has sent more than N, and expires
   and buries a stream it hears every ten seconds. Those heartbeats that do pass are
   written into the entry of the old session, since they name none.
2. **A host's stopped stream comes back** (`MCHostResurrection`). Nothing refreshes
   the host's own entry, so it expires after 30 s of sharing and its tombstone
   goes after 5 min; a stop after that makes no tombstone, and a peer that missed
   `stream.stopped` offers the stream back to its host. That the own entry expires
   at all is also against the design document, line 205.
3. **A flush deletes a newer queue** (`MCFlushDrops`).
4. **A flush to one peer replays a cleared restart** (`MCFlushAfterStop`).
5. **A failed switch ends the stream it should leave untouched** (`MCFailedSwitch`).
6. **`destroy()` is not the end** (`MCDestroy`).
7. **An edit undoes a departure** (run `group_tombstone`). The edit computes its state,
   waits for the disk and assigns what it computed; a departure merged meanwhile is gone.
8. **A handshake is given up** (`MCControlRestart`; also `MCControlResponseLost`, where
   the answer to a hello is lost, and `MCControlLate`, where a message outlives its
   channel). A connection restarted after a failed reconnection keeps the old routes and
   takes one of them for the peer.
9. **Two names of equal time never settle** (`MCGroupTies`). The merge and the summary
   order them in opposite ways.
10. **A kick does not revoke a token** (`ViewerBinding!KickIsTerminal`).
11. **A join cue for a viewer that is not mapped** (`ViewerBinding!ReadyNeedsMapping`).
12. **A recovery overtakes a stop** (`ViewerController!StopBeatsRecovery`). A recovery
    that is running raises the generation after the stop did, and what it schedules is
    current. `StopStays` still holds: the user sees a reconnection, not a new session.
13. **An ended session is reconnected** (`ViewerController!EndIsNotRecovered`).
14. **A pause writes into a session that was torn down**
    (`ViewerSession!PauseCleared`).
15. **A failed start spawns a second helper** (`MCAudioOrphan`). The cleanup of the
    start clears the restart timer *before* it waits for the exit that arms it.
16. **Restarts end after the first failure** (`MCAudioRestarts`). The exit of a failed
    restart arms the timer *before* the cleanup that clears it.
17. **An unconfirmed process does not keep the next one from starting**
    (`MCAudioUnconfirmed`). The guard is in a manager that the handlers have dropped.
18. **A destroyed session goes on capturing** (`MCDestroyCapture`). A switch that is
    verified after `destroy()` keeps its new capture; a restart goes on to make one.
19. **A failed restart lets viewers in** (`MCStaleEntry`). The session forgets that the
    stream was its own, and its own registry entry speaks for it until it expires.
20. **A capture ends unnoticed** (`MCEndUnnoticed`). The ended handler is set after awaits
    and without a look at whether the track has ended already.
21. **`destroy()` overlaps the queue** (`MCControllerOverlap`). A queued start finds no
    session to end and makes one while the old one is still closing.

## 6. Proofs

All theorems are for every set of devices, streams and permissions and every
value of the limits and bounds, under the constants' assumptions stated in the
modules (the owner of a stream is a device, limits are naturals, `NoEntry` is not
an entry). Nothing about network order, loss or timing is assumed, except where a
theorem says so: `StoppedStaysGone` alone does.

Every safety invariant and action property of the passing runs is a theorem. Hardly any is inductive as the runs check it. Each inductive invariant
below was first checked by TLC, with the constants of its component's run, and is
proved from the initial states and step by step: one lemma per handler, which under it
goes through the parts the handler can disturb. Its parts have the names given here.

* `StreamDiscoveryProofs`, six parts:
  * *Registries.* A registry is *sound* when it is well typed, no key has both an entry
    and a tombstone, and its sequence map is the sequence of its entries. A sound
    registry and a well-typed message give a sound registry. The two halves need each
    other: `HandleHeartbeat` writes the sequence map only because a sequence above the
    recorded one implies nothing about the entry, and burying relies on the entry and
    the sequence going together.
  * *Discovery.* `DiscoveryInv` = `TypeOK`, all registries sound, and a host in a
    session names a stream of its own (`HostNamed`). `TypeOK` alone is not inductive:
    what `Announce` and `RegisterAgain` send is an announcement of `host[h].stream`,
    which is a stream only by `HostNamed`. From it: `TypeCorrect`, `TombstonesExclude`,
    `SequencesFollow`.
  * *Published sessions.* `ShownInv` adds to the discovery invariant what makes
    `OnlyPublishedShown` inductive (`AiredByHosts`): a host that may announce has
    published the session it holds, and no session of a stream was published that its
    host has not drawn yet. `PublishedStay`: what was published stays so. Each operator
    of the registry has a lemma that it adds no announcement but the one it is given, so
    that a relayed list needs only what is known of the sender's registry and of the
    message. From it: `PublishedShown`.
  * *Revisions.* `RevisionInv` adds `FreshStarts`: a session not yet announced has sent
    no heartbeat, so every start in flight carries sequence 0. That is why a late
    `stream.started` cannot take an entry back (no recorded sequence is below 0)
    although `handleStarted` never compares revisions. From it: `RevisionsGrow`.
  * *Refinement.* It needs `HostsApart`: a host without a session has no stream, its
    stream is drawn and not among those it stopped, and nobody sends a host the stop of
    its own stream. Each step either moves one stream as `StreamLife` allows or is
    *quiet* and moves none; `DiscoveryImplementsLife` combines them, and `HostRunsOne`
    and `StreamsEndForGood` say of the detailed specification what follows.
  * *What has ended.* `StoppedStaysGone` is `NoResurrection` under `TombstonesOutlast`:
    timers fire on time and messages arrive within the period (`Prompt`), there are no
    more streams than tombstones kept, and `ExpiryAge + (ExpiryAge + 1) * MaxRefresh <=
    TombstoneMaxAge`. Without such a bound the property is false: a device that missed
    the stop keeps the entry for `ExpiryAge + 1` periods, and a handshake within that
    time gives another device the entry anew, so that enough of them carry it past the
    tombstone of one that saw the stop. With the code's 30 s, 5 min and 10 s the bound
    allows six handshakes and refreshes (3 + 4 * 6 <= 30); `MCDiscoveryGossip.cfg` is at
    its bound (0 + 1 * 1 <= 1), and with `MaxRefresh = 2` there TLC finds a counterexample
    in two minutes. `GoneInv` holds beside `LifeInv`. `GoneFor(d, k)`: the age of d's
    tombstone of k, with all the renewals still to come, stays under that of every entry
    of k anywhere, and of a new one if a message in flight can make one; a start in flight
    finds the tombstone new, for that handler alone compares its age. `AllTimely`: no
    entry or tombstone outstays the check that removes it. `HostStopsFirst`: what ended
    on some device ended on its host, so that no host step renews it. Host steps are
    handled at once: each concerns one stream (`HostConcerns`), which has not ended.
* `StreamSessionProofs`. `Inv` says what each await may rely on: `LiveOK` (a live
  capture is the session's or that of a switch not yet committed), `StateOK` (what each
  `state` says while an operation is at this or that await), `PublishingOK` and
  `StoppingOK` (what a start, a restart and a stop have done so far), `ManagersOK` (only
  the current manager publishes). `QuietWhenIdle` alone does not survive the end of a
  stop: that the publication is gone depends on which awaits came before. The last four
  hold until `destroy()` (`Alive`). Two more parts stand beside them (`Kept`). `EndOK`
  says what an operation that `destroy()` has overtaken may still do: it makes no manager,
  and the capture it may still be given has an await to go that stops it; this fails at
  exactly the awaits of `Resuming`, and is why `HoldingsInv` excepts them. `CaptureOK` and
  `WatchOK` follow one track through a switch: the session never stops the capture of a
  running stream, and its ended handler is set whenever no switch has it detached. From
  these: `HoldingsAccounted`, `ActiveWhole`, `IdleHoldsNothing`. `SessionImplementsLife` maps every step of the manager to a step
  or a stutter of `StreamLife`: an identifier is drawn afresh because `streams` counts
  them, and what was told of it (`told`) only moves on. From it: `RunsOneAtATime`,
  `EndsForGood`.
* `GroupConnectionProofs`, routes. `ConnectionInv` is the types and, for each device,
  that a peer whose hello is awaited has a channel and that `online` is what is mapped.
  The handlers are sequences of smaller changes (`RouteDown`, `CutLinks`,
  `EnsureTimer`), each with a lemma. `DoesNotFlap` and `RoutesNotStolen` are about
  single steps (`Smooth`), which again needs `ConnectionInv`: what is reported is what
  is mapped. From it also: `RoutesConsistent`.
* `GroupConnectionProofs`, queue. `PendingInv` is about *every* table, those the group
  has dropped included, because a flush may still write to one (`TablesOK`). `FlushOK`:
  the place a flush is at holds the key it is sending or nothing, although sends and
  stops rewrite the table meanwhile. `SendsOK`: at most one start or restart is in
  flight, that of the session's present revision; this, from the session manager's queue
  of operations, is why a late failed send cannot come behind a newer message, and
  without it neither order nor the rule on stops is inductive (`RestartAtOnce` and
  `StopAtOnce` break them). `QueueOK`: every entry is one its host has issued, and a
  start comes first. `Served`: while the connection is up and sends succeed, each place
  of the queue is, for each mapped peer, ahead of a flush to that peer or to all, or
  noted by one. That tables keep their places (`TablesEvolve`) carries all of it over a
  step. Counting keys needs finite sets: a table holds a key once when its places map to
  its keys one to one (`KeysCount`). From it: `QueuesWellFormed`, `StopsSupersede`,
  `QueueKeepsOrder`, `NothingIsStranded`.
* `ViewerBindingProofs`. `Inv` has a part for each map. `PresenceInv`: a presence's
  timer runs exactly while it is departed, and its flags agree with the history of cues;
  a cue counted twice is a flag lost. `MappingInv`, `TokenInv`; `ViewerInv`: an answer
  finds its attempt still joining; `MailInv`: one ready is under way for an attempt, and
  its join cue has not played; `LinkInv`: links exist only while the host publishes, and
  binds travel over links that are up. That is also why a stop leaves nobody mapped after
  a restart that failed: no bind can arrive in between. The last three are about the other side and the
  channel, and the first two are not inductive without them. From it: `ServedOnce`,
  `CuesArePaired`, `PendingIsNotUp`, `StoppedServes`.
* `ViewerSessionProofs`. `OneClient` says nothing about who may still make a client.
  `Inv` adds `TeardownClears` (a teardown outdates the generation, and what it clears
  stays clear), `ClientOfFlow` (the client belongs to the attempt whose flow reached the
  connection), `EndIsReached` (which flows can still be under way in a session that has
  ended), `AttemptsLeft` (attempts come in order, and one that has left is outdated) and
  `PauseHalfWay`. From it: `SessionLeavesNothing`, `EndIsFinal`, `LeaveComesLast`.
* `ViewerControllerProofs`. `GenTypes` (timers belong to generations that have begun),
  `SessionsOK` (every session but the current one and the one `destroy()` tears down is
  closed, or the only one closing; only the latter keeps its place when a queued operation
  makes another), `OpOK` and `IdleOK` (what is put away at each await). `StopOK` is the inductive form
  of `StopStays`: after a stop of the user each waiting start or recovery has a stop
  behind it in the queue, and once the stop is carried out no target is left. From it:
  `OneSessionAtATime`, `StoppedForGood`.
* `GroupSyncProofs`. For any number of members and any bounds. `TypeCorrect` needs that
  the operators of the merge return states (`MergeState`, `DeltaState`) and that the
  greatest stamp of an update, a `CHOOSE`, exists (`GreatestExists`, by the
  well-foundedness of the naturals). `ClocksCover` is inductive beside the types:
  advancing a clock covers what is merged (`AdvanceGrows`, `LatestBounds`), and the disk
  is only ever behind. `StampsIdentify` is not: uniqueness among the copies says nothing
  of the stamp an edit is about to use. `StampsBounded` adds that every copy of a
  register, wherever it is, whose stamp names a device is bounded by that device's
  clock, in memory and on disk; an edit's tick is then above every copy of its own
  stamps. Both hold until a crash or a failed write tears the two writes apart, which `torn`
  records.
* `AudioHelperProofs`. `HelperInv` is not inductive: that `OwnerTrue` survives the end
  of a cleanup depends on *which* process the cleanup waited for. `IndInv` adds
  `VictimHeld` (the process a cleanup waits for is the only one the manager can still
  hold) and `Untouched` (a manager not yet made has no process, timer or flow).
  `ManagerStep` goes through the actions for one manager; `LeftAlone` says that a step
  of one manager leaves the invariant of another. From it: `HelpersHeld`.

Model-checked only: all liveness (`LateJoinerDiscovers`, `StoppedForgotten`,
`StopEndsStream`, `DepartedDrains`, `ReconnectingSettles`, `StallRecovers`,
`StartSettles`, `HandshakeCompletes`, `Converges`, `ShutdownSettles`, `StopReturns`):
fairness and `ENABLED` are outside the prover's reach.

## 7. Not modelled, and the plan

Order of what could follow, with the properties each is for:

1. `ViewerSender`: `viewer-sender-controller.ts`. Its operations on one binding (mode,
   quality, pause, resume) are not serialised: a second pause saves encodings that are
   already inactive, so that the resume restores nothing, and a mode changed during a
   pause is lost at its end. What was asked for last is what the encoder does.
2. Video helper and frame ring: `VideoHelperManager.ts`, `video-frame-ring.ts`,
   `PcmRingBuffer.ts`. A slot is not written while it is read; a write larger than the
   ring leaves consistent counts (`PcmRingBuffer.write` drops more frames than it has).
3. The coordinators: a request is approved, refused or timed out once.
4. A registry specification by *knowledge* (what a device has heard of a stream),
   with `StreamDiscovery` shown to implement it.
5. The composition of `ViewerSession` with `ViewerBinding`: at present each states what
   it needs of the other by what it lets the other's messages do.

Parts of modelled components that are left out are named with their modules in
section 2. Left out for good: the UI, styles, metrics and log code (no state another
part reads), image enhancement and native capture (media processing and drivers), the
rest of the Electron shell, the updater and the settings store (I/O), the vendored SDK
(modelled by the effects its callers rely on), codecs and message formats. These are the
greater part of the repository by lines, and none of its ordering or failure handling.
