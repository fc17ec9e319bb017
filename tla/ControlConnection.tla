--------------------------- MODULE ControlConnection ---------------------------
(***************************************************************************)
(* The control connections of two devices of a group to each other          *)
(* (group-control-connection.ts): routes, the hello handshake that maps a   *)
(* route to a device, and the restart of a failed connection by the         *)
(* connection manager (group-connection-manager.ts).                        *)
(*                                                                         *)
(* A start of a connection makes a new SDK, which is known to its peers by  *)
(* a UUID of its own; its number, the start generation, stands for both.  A *)
(* link is a data channel between an SDK of one device and an SDK of the    *)
(* other.  Left out: the application's messages, state requests, member     *)
(* records and the rejoin of a room in which nobody was found.              *)
(***************************************************************************)
EXTENDS Integers, FiniteSets

CONSTANTS
    a, b,       \* the two devices
    Lossy,      \* types of messages that may be lost
    MaxLosses,  \* bound: messages lost
    MaxStarts,  \* bound: SDKs of one device
    MaxFaults,  \* bound: links cut and signaling lost
    MaxCrashes, \* bound: crashes of an application
    MaxFailures, \* bound: starts and reconnections that fail
    MaxLate,    \* bound: messages whose channel closes while they are validated
    MaxTrouble  \* bound: all of these together

ASSUME ConnectionAssumption ==
    /\ a # b /\ Lossy \subseteq {"hello", "response"}
    /\ MaxLosses \in Nat /\ MaxStarts \in Nat \ {0} /\ MaxFaults \in Nat
    /\ MaxCrashes \in Nat /\ MaxFailures \in Nat /\ MaxLate \in Nat
    /\ MaxTrouble \in Nat

Devices == {a, b}
Other(d) == IF d = a THEN b ELSE a
SDKs == 1..MaxStarts
Links == [Devices -> SDKs]

VARIABLES
    state,    \* _state of each connection
    gen,      \* startGeneration
    sdk,      \* sdk: the number of the SDK in use; 0 is null
    raw,      \* rawDataPeers
    mapped,   \* deviceToPeer for the other device; 0 is no entry
    identity, \* rawPeerIdentity: the peers that have said who they are
    awaiting, \* peersAwaitingHello
    timer,    \* helloRetryTimer: the generation it was made in; 0 is null
    online,   \* the other device was reported online
    open,     \* links that are open
    seen,     \* the open links each device's SDK has reported
    net,      \* hellos and responses under way
    checking, \* messages of a closed link whose validation is under way
    counts    \* losses, faults, crashes, failures and late messages so far

local == <<state, gen, sdk, raw, mapped, identity, awaiting, timer, online>>
network == <<open, seen, net, checking>>
vars == <<local, network, counts>>

Init ==
    /\ state = [d \in Devices |-> "starting"] /\ gen = [d \in Devices |-> 1]
    /\ sdk = [d \in Devices |-> 1]
    /\ raw = [d \in Devices |-> {}] /\ mapped = [d \in Devices |-> 0]
    /\ identity = [d \in Devices |-> {}] /\ awaiting = [d \in Devices |-> {}]
    /\ timer = [d \in Devices |-> 0] /\ online = [d \in Devices |-> FALSE]
    /\ open = {} /\ seen = [d \in Devices |-> {}] /\ net = {} /\ checking = {}
    /\ counts = [losses |-> 0, faults |-> 0, crashes |-> 0, failures |-> 0, late |-> 0]

Trouble == counts.losses + counts.faults + counts.crashes + counts.failures + counts.late
Count(what, max) ==
    /\ counts[what] < max /\ Trouble < MaxTrouble
    /\ counts' = [counts EXCEPT ![what] = @ + 1]

\* The link from the SDK in use at d to its peer p.
Link(d, p) == [x \in Devices |-> IF x = d THEN sdk[d] ELSE p]
\* Events of an SDK that is not that of the current generation are ignored.
Heard(d, l) == l[d] = gen[d] /\ sdk[d] # 0

-----------------------------------------------------------------------------
(* Sending *)

Message(d, p, type) == [to |-> Other(d), link |-> Link(d, p), type |-> type]

\* The peers of P that d has a route to are sent a message, some of them in vain.
\* A message on a link that is not open is lost.
SendTo(d, P, type) ==
    LET sent == {Message(d, p, type) : p \in {x \in P : x > 0 /\ Link(d, x) \in open}}
    IN \/ net' = net \cup sent /\ UNCHANGED counts
       \/ /\ type \in Lossy /\ Count("losses", MaxLosses)
          /\ \E m \in sent : net' = net \cup (sent \ {m})

-----------------------------------------------------------------------------
(* Routes and the handshake *)

EnsureTimer(d) == timer' = [timer EXCEPT ![d] = IF @ = 0 THEN gen[d] ELSE @]

\* dataChannelOpen
ChannelOpens(d, l) ==
    LET p == l[Other(d)]
    IN /\ l \in open /\ l \notin seen[d]
       /\ seen' = [seen EXCEPT ![d] = @ \cup {l}]
       /\ IF ~Heard(d, l) THEN UNCHANGED <<raw, awaiting, timer, net, counts>>
          ELSE /\ raw' = [raw EXCEPT ![d] = @ \cup {p}]
               /\ IF mapped[d] = p THEN UNCHANGED <<awaiting, timer, net, counts>>
                  ELSE /\ awaiting' = [awaiting EXCEPT ![d] = @ \cup {p}]
                       /\ EnsureTimer(d) /\ SendTo(d, {p}, "hello")
       /\ UNCHANGED <<state, gen, sdk, mapped, identity, online, open, checking>>

\* removePeerAwaitingHello
StopAwaiting(d, p) ==
    /\ awaiting' = [awaiting EXCEPT ![d] = @ \ {p}]
    /\ timer' = [timer EXCEPT ![d] = IF awaiting[d] \subseteq {p} THEN 0 ELSE @]

\* Faulty variant of Replacements: no other route takes over.
NoReplacement(d, p) == {}

\* Other live routes of the same device, by its own word.
Replacements(d, p) == (identity[d] \cap raw[d]) \ {p}

\* handlePeerRouteDown: the mapping moves to another route or the device is offline.
RouteDown(d, p) ==
    /\ raw' = [raw EXCEPT ![d] = @ \ {p}]
    /\ identity' = [identity EXCEPT ![d] = @ \ {p}]
    /\ StopAwaiting(d, p)
    /\ IF mapped[d] # p THEN UNCHANGED <<mapped, online>>
       ELSE IF Replacements(d, p) = {}
            THEN /\ mapped' = [mapped EXCEPT ![d] = 0]
                 /\ online' = [online EXCEPT ![d] = FALSE]
            ELSE /\ \E q \in Replacements(d, p) : mapped' = [mapped EXCEPT ![d] = q]
                 /\ UNCHANGED online

\* dataChannelClose or peerDisconnected
ChannelCloses(d, l) ==
    /\ l \in seen[d] /\ l \notin open
    /\ seen' = [seen EXCEPT ![d] = @ \ {l}]
    /\ IF Heard(d, l) THEN RouteDown(d, l[Other(d)])
       ELSE UNCHANGED <<raw, identity, awaiting, timer, mapped, online>>
    /\ UNCHANGED <<state, gen, sdk, open, net, checking, counts>>

\* Faulty variant of Maps: the latest route wins.
MapsLatest(d, p) == mapped[d] # p

\* establishDeviceMapping: a mapping to a route that is still open is kept.
Maps(d, p) == mapped[d] # p /\ mapped[d] \notin raw[d]

Establish(d, p) ==
    IF Maps(d, p)
    THEN /\ mapped' = [mapped EXCEPT ![d] = p]
         /\ identity' = [identity EXCEPT ![d] = (@ \ {mapped[d]}) \cup {p}]
         /\ online' = [online EXCEPT ![d] = TRUE]
    ELSE /\ identity' = [identity EXCEPT ![d] = @ \cup {p}]
         /\ UNCHANGED <<mapped, online>>

\* dataReceived: the first hello of a peer that d awaits is answered, later ones are
\* not; a response ends the handshake.
Receive(d, p, type) ==
    /\ Establish(d, p)
    /\ IF type = "hello" /\ p \notin awaiting[d] THEN UNCHANGED <<awaiting, timer>>
       ELSE StopAwaiting(d, p)

\* The answer to m, when it is handled with rest under way.
Answer(d, p, m, rest) ==
    IF m.type = "hello" /\ p \in awaiting[d] \cap raw[d] /\ Link(d, p) \in open
    THEN \/ net' = rest \cup {Message(d, p, "response")} /\ UNCHANGED counts
         \/ "response" \in Lossy /\ Count("losses", MaxLosses) /\ net' = rest
    ELSE net' = rest /\ UNCHANGED counts

\* A message is handled when it arrives, or when its channel has closed meanwhile.  A
\* channel delivers nothing before it has been reported open.
Handle(d, l) ==
    \E m \in {x \in net : x.to = d /\ x.link = l /\ l \in seen[d]}
            \cup {x \in checking : x.to = d /\ x.link = l} :
       LET p == l[Other(d)]
       IN /\ checking' = checking \ {m}
          /\ IF Heard(d, l)
             THEN Receive(d, p, m.type) /\ Answer(d, p, m, net \ {m})
             ELSE /\ net' = net \ {m}
                  /\ UNCHANGED <<mapped, identity, online, awaiting, timer, counts>>
          /\ UNCHANGED <<state, gen, sdk, raw, open, seen>>

\* Faulty variant of RetryTick: it gives up after some attempts.
RetryTickGivesUp(d) ==
    /\ timer[d] # 0
    /\ \/ /\ timer[d] = gen[d] /\ SendTo(d, awaiting[d] \cap raw[d], "hello")
          /\ UNCHANGED <<awaiting, timer>>
       \/ /\ awaiting' = [awaiting EXCEPT ![d] = {}] /\ timer' = [timer EXCEPT ![d] = 0]
          /\ UNCHANGED <<net, counts>>
    /\ UNCHANGED <<state, gen, sdk, raw, mapped, identity, online, open, seen, checking>>

\* The hello-retry interval: every peer that is awaited is greeted again.
RetryTick(d) ==
    /\ timer[d] # 0
    /\ IF timer[d] # gen[d] \/ awaiting[d] = {}
       THEN timer' = [timer EXCEPT ![d] = 0] /\ UNCHANGED <<net, counts>>
       ELSE SendTo(d, awaiting[d] \cap raw[d], "hello") /\ UNCHANGED timer
    /\ UNCHANGED <<state, gen, sdk, raw, mapped, identity, awaiting, online, open, seen, checking>>

-----------------------------------------------------------------------------
(* The state of a connection *)

\* Links close by an event of a counted kind.  What was under way on them is lost, but
\* a message may be in validation already.
CutLinks(C, what, max) ==
    /\ open' = open \ C
    /\ net' = {m \in net : m.link \notin C}
    /\ \/ Count(what, max) /\ UNCHANGED checking
       \/ /\ counts[what] < max /\ counts.late < MaxLate /\ Trouble + 1 < MaxTrouble
          /\ \E m \in {x \in net : x.link \in C \cap seen[x.to]} : checking' = checking \cup {m}
          /\ counts' = [counts EXCEPT ![what] = @ + 1, !.late = @ + 1]

LinksOf(d, i) == {l \in open : l[d] = i}

StartSucceeds(d) ==
    /\ state[d] = "starting" /\ state' = [state EXCEPT ![d] = "connected"]
    /\ UNCHANGED <<gen, sdk, raw, mapped, identity, awaiting, timer, online, network, counts>>

\* autoConnect fails or takes too long: the SDK is torn down, the peers are kept.
StartFails(d) ==
    /\ state[d] = "starting" /\ state' = [state EXCEPT ![d] = "failed"]
    /\ sdk' = [sdk EXCEPT ![d] = 0] /\ timer' = [timer EXCEPT ![d] = 0]
    /\ CutLinks(LinksOf(d, sdk[d]), "failures", MaxFailures)
    /\ UNCHANGED <<gen, raw, mapped, identity, awaiting, online, seen>>

\* The signaling connection is lost; the links may live on.
Disconnected(d) ==
    /\ state[d] = "connected" /\ Count("faults", MaxFaults)
    /\ state' = [state EXCEPT ![d] = "reconnecting"]
    /\ UNCHANGED <<gen, sdk, raw, mapped, identity, awaiting, timer, online, network>>

\* Peers without a mapping are greeted once more.
Reconnected(d) ==
    /\ state[d] = "reconnecting" /\ state' = [state EXCEPT ![d] = "connected"]
    /\ LET unmapped == raw[d] \ {mapped[d]}
       IN /\ awaiting' = [awaiting EXCEPT ![d] = @ \cup unmapped]
          /\ IF unmapped = {} THEN UNCHANGED timer ELSE EnsureTimer(d)
          /\ SendTo(d, unmapped, "hello")
    /\ UNCHANGED <<gen, sdk, raw, mapped, identity, online, open, seen, checking>>

\* The SDK gives up reconnecting.  It stays, with its links.
ReconnectFails(d) ==
    /\ state[d] = "reconnecting" /\ Count("failures", MaxFailures)
    /\ state' = [state EXCEPT ![d] = "failed"]
    /\ UNCHANGED <<gen, sdk, raw, mapped, identity, awaiting, timer, online, network>>

\* scheduleFailedRetry and ensureConnected: start() makes a new SDK in the same
\* connection, beside whatever the old one has left.
RestartFailed(d) ==
    /\ state[d] = "failed" /\ gen[d] < MaxStarts
    /\ state' = [state EXCEPT ![d] = "starting"]
    /\ gen' = [gen EXCEPT ![d] = @ + 1] /\ sdk' = [sdk EXCEPT ![d] = gen[d] + 1]
    /\ UNCHANGED <<raw, mapped, identity, awaiting, timer, online, network, counts>>

\* Faulty variant of Fresh: the maps are cleared before the devices to report offline
\* are read from them.
FreshUnreported(d) ==
    /\ raw' = [raw EXCEPT ![d] = {}] /\ mapped' = [mapped EXCEPT ![d] = 0]
    /\ identity' = [identity EXCEPT ![d] = {}] /\ awaiting' = [awaiting EXCEPT ![d] = {}]
    /\ timer' = [timer EXCEPT ![d] = 0] /\ UNCHANGED online

\* Nothing is left; the devices that were online are reported offline.
Fresh(d) ==
    /\ raw' = [raw EXCEPT ![d] = {}] /\ mapped' = [mapped EXCEPT ![d] = 0]
    /\ identity' = [identity EXCEPT ![d] = {}] /\ awaiting' = [awaiting EXCEPT ![d] = {}]
    /\ timer' = [timer EXCEPT ![d] = 0] /\ online' = [online EXCEPT ![d] = FALSE]

\* destroy(), when the device leaves the group.
Destroy(d) ==
    /\ state[d] # "destroyed" /\ state' = [state EXCEPT ![d] = "destroyed"] /\ sdk' = [sdk EXCEPT ![d] = 0]
    /\ CutLinks(LinksOf(d, sdk[d]), "crashes", MaxCrashes) /\ Fresh(d)
    /\ UNCHANGED <<gen, seen>>

\* The application ends and starts again.
Crash(d) ==
    /\ state[d] # "destroyed" /\ gen[d] < MaxStarts
    /\ state' = [state EXCEPT ![d] = "starting"]
    /\ gen' = [gen EXCEPT ![d] = @ + 1] /\ sdk' = [sdk EXCEPT ![d] = gen[d] + 1]
    /\ CutLinks({l \in open : l[d] <= gen[d]}, "crashes", MaxCrashes) /\ Fresh(d)
    /\ seen' = [seen EXCEPT ![d] = {}]

-----------------------------------------------------------------------------
(* The network *)

InRoom(d) == sdk[d] # 0 /\ state[d] \in {"starting", "connected"}

\* The SDKs in use find each other in the room; by then what was in validation on a
\* former channel of theirs has been handled.
LinkUp ==
    /\ \A d \in Devices : InRoom(d)
    /\ LET l == [d \in Devices |-> sdk[d]]
       IN l \notin open /\ (\A d \in Devices : l \notin seen[d])
          /\ (\A m \in checking : m.link # l) /\ open' = open \cup {l}
    /\ UNCHANGED <<local, seen, net, checking, counts>>

LinkDown ==
    /\ \E l \in open : CutLinks({l}, "faults", MaxFaults)
    /\ UNCHANGED <<local, seen>>

-----------------------------------------------------------------------------
Events(d) ==
    \/ \E l \in Links : ChannelOpens(d, l) \/ ChannelCloses(d, l)
    \/ StartSucceeds(d) \/ Reconnected(d) \/ RestartFailed(d)

Next ==
    \/ \E d \in Devices :
         \/ Events(d) \/ RetryTick(d)
         \/ \E l \in Links : Handle(d, l)
         \/ StartFails(d) \/ Disconnected(d) \/ ReconnectFails(d) \/ Destroy(d) \/ Crash(d)
    \/ LinkUp \/ LinkDown

\* SDK events are reported, the messages of each link arrive, intervals tick, peers in
\* the room find each other.  Nothing makes a link or the signaling fail.
Spec ==
    /\ Init /\ [][Next]_vars
    /\ WF_vars(LinkUp)
    /\ \A d \in Devices : WF_vars(Events(d)) /\ WF_vars(RetryTick(d))
    /\ \A d \in Devices, l \in Links : WF_vars(Handle(d, l))

-----------------------------------------------------------------------------
(* Properties *)

TypeOK ==
    /\ state \in [Devices -> {"starting", "connected", "reconnecting", "failed", "destroyed"}]
    /\ gen \in [Devices -> SDKs] /\ sdk \in [Devices -> 0..MaxStarts]
    /\ raw \in [Devices -> SUBSET SDKs] /\ mapped \in [Devices -> 0..MaxStarts]
    /\ identity \in [Devices -> SUBSET SDKs] /\ online \in [Devices -> BOOLEAN]
    /\ open \subseteq Links /\ seen \in [Devices -> SUBSET Links]
    /\ \A d \in Devices : awaiting[d] \subseteq raw[d]

\* A device is reported online exactly while a route is mapped to it, through route
\* changes, take-overs, signaling loss and destroy().
OnlineIsMapped == \A d \in Devices : online[d] <=> mapped[d] # 0

\* Route tables are consistent, and what is reported is what they say.
RoutesInv == TypeOK /\ OnlineIsMapped

\* A device is not reported offline while another of its routes is open and known:
\* the mapping moves there instead of "flapping the member offline->online".
NoFlap ==
    [][\A d \in Devices :
          online[d] /\ ~online'[d] /\ state'[d] # "destroyed" /\ gen'[d] = gen[d] =>
             identity'[d] \cap raw'[d] = {}]_vars

\* A mapping to an open route is never taken from it by a second route of the same
\* device ("must not flap online state or steal the routing target").
RouteNotStolen ==
    [][\A d \in Devices :
          mapped[d] # 0 /\ mapped'[d] # mapped[d] /\ gen'[d] = gen[d] /\ state'[d] # "destroyed" =>
             mapped[d] \notin raw'[d]]_vars

Together == \A d \in Devices : state[d] = "connected"
KnowEachOther == \A d \in Devices : mapped[d] = sdk[Other(d)]

\* Two devices that stay in the room end up with each other's current SDK mapped: the
\* handshake survives crashes, cut links, signaling outages and lost hellos, as long as
\* no start has failed and no message was in validation when its channel closed.
HandshakeCompletes ==
    <>[](Together /\ counts.failures = 0 /\ counts.late = 0 => KnowEachOther)

\* "an unacked handshake is never given up on" (group-control-connection.ts, above
\* ensureHelloRetryTimer): the same whatever has happened before.
HandshakeNotGivenUp == <>[](Together => KnowEachOther)
=============================================================================
