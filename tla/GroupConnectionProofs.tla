------------------------- MODULE GroupConnectionProofs -------------------------
(***************************************************************************)
(* The connection of a group.  Its routes (ControlConnection): the tables   *)
(* of two connected devices stay consistent, a device is not reported       *)
(* offline while it has another route, and no route is stolen.  Its queue   *)
(* (PendingLifecycle): a host's messages are kept once each, in order and   *)
(* within the maximum, a stop supersedes what it ends, and none is stranded.*)
(* For any streams, peers and SDKs, and any faults.                         *)
(***************************************************************************)
EXTENDS ControlConnection, PendingLifecycle, FiniteSetTheorems, WellFoundedInduction,
        NaturalsInduction, TLAPS

-----------------------------------------------------------------------------
(* The routes of a group: what is preserved *)

\* What TypeOK says of device d, and that its online report is what it has mapped.
DeviceInv(d) ==
    /\ awaiting[d] \subseteq raw[d]
    /\ online[d] <=> mapped[d] # 0

\* The tables of a device are of their types.
RouteTypes ==
    /\ state \in [Devices -> {"starting", "connected", "reconnecting", "failed", "destroyed"}]
    /\ gen \in [Devices -> SDKs] /\ sdk \in [Devices -> 0..MaxStarts]
    /\ raw \in [Devices -> SUBSET SDKs] /\ mapped \in [Devices -> 0..MaxStarts]
    /\ identity \in [Devices -> SUBSET SDKs] /\ online \in [Devices -> BOOLEAN]
    /\ open \subseteq Links /\ seen \in [Devices -> SUBSET Links]
    /\ awaiting \in [Devices -> SUBSET SDKs]
    /\ timer \in [Devices -> 0..MaxStarts]

\* RoutesInv, in which awaiting and timer are maps as well: a value that is not a
\* function could not be updated for one device alone.
ConnectionInv == RouteTypes /\ \A d \in Devices : DeviceInv(d)

\* What a device knows of its peers.
known(d) == <<raw[d], mapped[d], identity[d], awaiting[d], online[d]>>

-----------------------------------------------------------------------------
(* Devices and links *)

LEMMA DeviceFacts ==
    /\ a \in Devices /\ b \in Devices
    /\ \A d \in Devices : Other(d) \in Devices
    /\ \A l \in Links, d \in Devices : l[Other(d)] \in SDKs /\ l[Other(d)] # 0
    /\ SDKs \subseteq Nat /\ SDKs \subseteq 0..MaxStarts /\ 0 \in 0..MaxStarts /\ 1 \in SDKs
BY ConnectionAssumption DEF Devices, Other, Links, SDKs

LEMMA InvImpliesRoutes == ConnectionInv => RoutesInv
BY DEF ConnectionInv, RouteTypes, DeviceInv, RoutesInv, TypeOK, OnlineIsMapped

LEMMA InitInv == Init => ConnectionInv
BY DeviceFacts DEF Init, ConnectionInv, RouteTypes, DeviceInv

-----------------------------------------------------------------------------
(* Pieces of the handlers *)

\* A message sent, an answer and a cut change nothing a device knows; a cut adds no link.
LEMMA CutLinksTypes ==
    ASSUME RouteTypes, NEW C, NEW what, NEW max, CutLinks(C, what, max)
    PROVE  open' \subseteq Links
BY DEF RouteTypes, CutLinks

\* The timer of a device that has something to say is made once.
LEMMA EnsureTimerType ==
    ASSUME RouteTypes, NEW d \in Devices, EnsureTimer(d)
    PROVE  timer' \in [Devices -> 0..MaxStarts]
BY DeviceFacts DEF RouteTypes, EnsureTimer

\* A peer that is no longer awaited is awaited by nobody else's doing.
LEMMA StopAwaitingTypes ==
    ASSUME RouteTypes, NEW d \in Devices, NEW p, StopAwaiting(d, p)
    PROVE  /\ awaiting' \in [Devices -> SUBSET SDKs] /\ timer' \in [Devices -> 0..MaxStarts]
           /\ awaiting'[d] = awaiting[d] \ {p}
           /\ \A x \in Devices : x # d => awaiting'[x] = awaiting[x]
<1>1. awaiting' \in [Devices -> SUBSET SDKs]
  BY DEF RouteTypes, StopAwaiting
<1>2. timer' \in [Devices -> 0..MaxStarts]
  BY DeviceFacts DEF RouteTypes, StopAwaiting
<1> QED
  BY <1>1, <1>2 DEF RouteTypes, StopAwaiting

\* A route that goes down takes its mapping with it, to another route that is open and
\* known, or the device offline when there is none.
LEMMA RouteDownKeeps ==
    ASSUME ConnectionInv, NEW d \in Devices, NEW p \in SDKs, RouteDown(d, p),
           state' = state, gen' = gen, sdk' = sdk, open' = open, seen' \in [Devices -> SUBSET Links]
    PROVE  /\ ConnectionInv'
           /\ \A x \in Devices : x # d => known(x)' = known(x)
           /\ online[d] /\ ~online'[d] => identity'[d] \cap raw'[d] = {}
           /\ mapped'[d] # mapped[d] => mapped[d] \notin raw'[d]
<1> USE DeviceFacts DEF ConnectionInv
<1>1. /\ raw' \in [Devices -> SUBSET SDKs] /\ identity' \in [Devices -> SUBSET SDKs]
      /\ raw'[d] = raw[d] \ {p} /\ identity'[d] = identity[d] \ {p}
      /\ \A x \in Devices : x # d => raw'[x] = raw[x] /\ identity'[x] = identity[x]
  BY DEF RouteDown, RouteTypes
<1>2. /\ awaiting' \in [Devices -> SUBSET SDKs] /\ timer' \in [Devices -> 0..MaxStarts]
      /\ awaiting'[d] = awaiting[d] \ {p}
      /\ \A x \in Devices : x # d => awaiting'[x] = awaiting[x]
  BY StopAwaitingTypes DEF RouteDown
<1>3. Replacements(d, p) \subseteq SDKs /\ p # 0
  BY DEF Replacements, RouteTypes, SDKs
<1>4. CASE mapped[d] # p
  BY <1>1, <1>2, <1>4 DEF RouteDown, RouteTypes, DeviceInv, known
<1>5. CASE mapped[d] = p /\ Replacements(d, p) = {}
  <2>1. /\ mapped' = [mapped EXCEPT ![d] = 0] /\ online' = [online EXCEPT ![d] = FALSE]
    BY <1>5 DEF RouteDown
  <2>2. identity'[d] \cap raw'[d] = {}
    BY <1>1, <1>5 DEF Replacements
  <2> QED
    BY <1>1, <1>2, <1>5, <2>1, <2>2 DEF RouteTypes, DeviceInv, known
<1>6. CASE mapped[d] = p /\ Replacements(d, p) # {}
  <2>1. PICK q \in SDKs : q # 0 /\ mapped' = [mapped EXCEPT ![d] = q] /\ online' = online
    BY <1>3, <1>6 DEF RouteDown, SDKs
  <2>2. online[d]
    BY <1>3, <1>6 DEF DeviceInv
  <2> QED
    BY <1>1, <1>2, <1>6, <2>1, <2>2 DEF RouteTypes, DeviceInv, known
<1> QED
  BY <1>4, <1>5, <1>6

\* A peer that says who it is takes the mapping only of a route that is gone.
LEMMA ReceiveKeeps ==
    ASSUME ConnectionInv, NEW d \in Devices, NEW p \in SDKs, NEW type, Receive(d, p, type),
           state' = state, gen' = gen, sdk' = sdk, raw' = raw, open' = open, seen' = seen
    PROVE  /\ ConnectionInv'
           /\ online[d] => online'[d]
           /\ \A x \in Devices : x # d => known(x)' = known(x)
           /\ mapped'[d] # mapped[d] => mapped[d] \notin raw'[d]
<1> USE DeviceFacts DEF ConnectionInv
<1>1. /\ awaiting' \in [Devices -> SUBSET SDKs] /\ timer' \in [Devices -> 0..MaxStarts]
      /\ awaiting'[d] \subseteq awaiting[d]
      /\ \A x \in Devices : x # d => awaiting'[x] = awaiting[x]
  BY StopAwaitingTypes DEF Receive, RouteTypes
<1>2. p # 0
  BY DEF SDKs
<1>3. CASE Maps(d, p)
  <2>1. /\ mapped' = [mapped EXCEPT ![d] = p] /\ online' = [online EXCEPT ![d] = TRUE]
        /\ identity' = [identity EXCEPT ![d] = (identity[d] \ {mapped[d]}) \cup {p}]
    BY <1>3 DEF Receive, Establish
  <2>2. RouteTypes'
    BY <1>1, <2>1 DEF RouteTypes
  <2>3. /\ mapped'[d] = p /\ online'[d] = TRUE /\ mapped[d] \notin raw'[d]
        /\ \A x \in Devices : x # d => /\ mapped'[x] = mapped[x] /\ online'[x] = online[x]
                                      /\ identity'[x] = identity[x]
    BY <1>3, <2>1 DEF RouteTypes, Maps
  <2> QED
    BY <1>1, <1>2, <2>2, <2>3 DEF DeviceInv, known
<1>4. CASE ~Maps(d, p)
  <2>1. /\ identity' = [identity EXCEPT ![d] = identity[d] \cup {p}]
        /\ mapped' = mapped /\ online' = online
    BY <1>4 DEF Receive, Establish
  <2>2. RouteTypes'
    BY <1>1, <2>1 DEF RouteTypes
  <2>3. \A x \in Devices : x # d => identity'[x] = identity[x]
    BY <2>1 DEF RouteTypes
  <2> QED
    BY <1>1, <2>1, <2>2, <2>3 DEF DeviceInv, known
<1> QED
  BY <1>3, <1>4

\* A device with nothing left has nothing reported.
LEMMA FreshKeeps ==
    ASSUME ConnectionInv, NEW d \in Devices, Fresh(d),
           state' \in [Devices -> {"starting", "connected", "reconnecting", "failed", "destroyed"}],
           gen' \in [Devices -> SDKs], sdk' \in [Devices -> 0..MaxStarts],
           open' \subseteq Links, seen' \in [Devices -> SUBSET Links]
    PROVE  /\ ConnectionInv'
           /\ \A x \in Devices : x # d => known(x)' = known(x)
BY DeviceFacts DEF ConnectionInv, RouteTypes, DeviceInv, Fresh, known

-----------------------------------------------------------------------------
(* Steps *)

\* What NoFlap and RouteNotStolen say of one step and one device.
Unflapped(d) ==
    online[d] /\ ~online'[d] /\ state'[d] # "destroyed" /\ gen'[d] = gen[d] =>
       identity'[d] \cap raw'[d] = {}

NotStolen(d) ==
    mapped[d] # 0 /\ mapped'[d] # mapped[d] /\ gen'[d] = gen[d] /\ state'[d] # "destroyed" =>
       mapped[d] \notin raw'[d]

Smooth == \A d \in Devices : Unflapped(d) /\ NotStolen(d)

\* A step that changes no mapping and no report is smooth.
LEMMA KeptSmooth ==
    ASSUME mapped' = mapped, online' = online
    PROVE  Smooth
BY DEF Smooth, Unflapped, NotStolen

\* Steps of one device's tables, by way of the pieces above.
LEMMA RoutesChange ==
    ASSUME ConnectionInv, NEW d \in Devices,
           \/ \E l \in Links : ChannelOpens(d, l) \/ ChannelCloses(d, l) \/ Handle(d, l)
           \/ RetryTick(d)
    PROVE  ConnectionInv' /\ Smooth
<1> USE DeviceFacts
<1>1. ASSUME NEW l \in Links, ChannelOpens(d, l) PROVE ConnectionInv' /\ Smooth
  <2> DEFINE p == l[Other(d)]
  <2>1. p \in SDKs
    OBVIOUS
  <2>2. /\ UNCHANGED <<state, gen, sdk, mapped, identity, online, open>>
        /\ seen' \in [Devices -> SUBSET Links]
    BY <1>1 DEF ChannelOpens, ConnectionInv, RouteTypes
  <2>3. /\ raw' \in [Devices -> SUBSET SDKs] /\ awaiting' \in [Devices -> SUBSET SDKs]
        /\ timer' \in [Devices -> 0..MaxStarts]
        /\ \A x \in Devices : awaiting'[x] \subseteq raw'[x]
    <3>1. CASE ~Heard(d, l)
      BY <1>1, <3>1 DEF ChannelOpens, ConnectionInv, RouteTypes, DeviceInv
    <3>2. CASE Heard(d, l)
      <4>1. raw' = [raw EXCEPT ![d] = raw[d] \cup {p}]
        BY <1>1, <3>2 DEF ChannelOpens
      <4>2. CASE mapped[d] = p
        <5>1. UNCHANGED <<awaiting, timer>>
          BY <1>1, <3>2, <4>2 DEF ChannelOpens
        <5> QED
          BY <2>1, <4>1, <5>1 DEF ConnectionInv, RouteTypes, DeviceInv
      <4>3. CASE mapped[d] # p
        <5>1. awaiting' = [awaiting EXCEPT ![d] = awaiting[d] \cup {p}] /\ EnsureTimer(d)
          BY <1>1, <3>2, <4>3 DEF ChannelOpens
        <5> QED
          BY <2>1, <4>1, <5>1, EnsureTimerType DEF ConnectionInv, RouteTypes, DeviceInv
      <4> QED
        BY <4>2, <4>3
    <3> QED
      BY <3>1, <3>2
  <2> QED
    BY <2>2, <2>3, KeptSmooth DEF ConnectionInv, RouteTypes, DeviceInv
<1>2. ASSUME NEW l \in Links, ChannelCloses(d, l) PROVE ConnectionInv' /\ Smooth
  <2>1. /\ UNCHANGED <<state, gen, sdk, open>> /\ seen' \in [Devices -> SUBSET Links]
    BY <1>2 DEF ChannelCloses, ConnectionInv, RouteTypes
  <2>2. CASE ~Heard(d, l)
    <3>1. UNCHANGED <<raw, identity, awaiting, timer, mapped, online>>
      BY <1>2, <2>2 DEF ChannelCloses
    <3> QED
      BY <2>1, <3>1, KeptSmooth DEF ConnectionInv, RouteTypes, DeviceInv
  <2>3. CASE Heard(d, l)
    <3>1. RouteDown(d, l[Other(d)])
      BY <1>2, <2>3 DEF ChannelCloses
    <3> QED
      BY <2>1, <3>1, RouteDownKeeps DEF Smooth, Unflapped, NotStolen, known
  <2> QED
    BY <2>2, <2>3
<1>3. ASSUME NEW l \in Links, Handle(d, l) PROVE ConnectionInv' /\ Smooth
  <2>1. UNCHANGED <<state, gen, sdk, raw, open, seen>>
    BY <1>3 DEF Handle
  <2>2. CASE ~Heard(d, l)
    <3>1. UNCHANGED <<mapped, identity, online, awaiting, timer>>
      BY <1>3, <2>2 DEF Handle
    <3> QED
      BY <2>1, <3>1, KeptSmooth DEF ConnectionInv, RouteTypes, DeviceInv
  <2>3. CASE Heard(d, l)
    <3>1. PICK type : Receive(d, l[Other(d)], type)
      BY <1>3, <2>3 DEF Handle
    <3> QED
      BY <2>1, <3>1, ReceiveKeeps DEF Smooth, Unflapped, NotStolen, known
  <2> QED
    BY <2>2, <2>3
<1>4. CASE RetryTick(d)
  <2>1. /\ UNCHANGED <<state, gen, sdk, raw, mapped, identity, awaiting, online, open, seen>>
        /\ timer' \in [Devices -> 0..MaxStarts]
    BY <1>4 DEF RetryTick, ConnectionInv, RouteTypes
  <2> QED
    BY <2>1, KeptSmooth DEF ConnectionInv, RouteTypes, DeviceInv
<1> QED
  BY <1>1, <1>2, <1>3, <1>4

\* Steps of one device's connection.
LEMMA ConnectionChange ==
    ASSUME ConnectionInv, NEW d \in Devices,
           \/ StartSucceeds(d) \/ StartFails(d) \/ Disconnected(d) \/ Reconnected(d)
           \/ ReconnectFails(d) \/ RestartFailed(d) \/ Destroy(d) \/ Crash(d)
    PROVE  ConnectionInv' /\ Smooth
<1> USE DeviceFacts
<1>1. CASE StartSucceeds(d) \/ Disconnected(d) \/ ReconnectFails(d)
  <2>1. /\ UNCHANGED <<gen, sdk, raw, mapped, identity, awaiting, timer, online, network>>
        /\ \E s \in {"connected", "reconnecting", "failed"} : state' = [state EXCEPT ![d] = s]
    BY <1>1 DEF StartSucceeds, Disconnected, ReconnectFails
  <2> QED
    BY <2>1, KeptSmooth DEF network, ConnectionInv, RouteTypes, DeviceInv
<1>2. CASE StartFails(d)
  <2>1. open' \subseteq Links
    BY <1>2, CutLinksTypes DEF StartFails, ConnectionInv
  <2> QED
    BY <1>2, <2>1, KeptSmooth DEF StartFails, ConnectionInv, RouteTypes, DeviceInv
<1>3. CASE Reconnected(d)
  <2>1. /\ UNCHANGED <<gen, sdk, raw, mapped, identity, online, open, seen>>
        /\ state' = [state EXCEPT ![d] = "connected"]
        /\ awaiting' = [awaiting EXCEPT ![d] = awaiting[d] \cup (raw[d] \ {mapped[d]})]
    BY <1>3 DEF Reconnected
  <2>2. timer' \in [Devices -> 0..MaxStarts]
    BY <1>3, EnsureTimerType DEF Reconnected, ConnectionInv, RouteTypes
  <2> QED
    BY <2>1, <2>2, KeptSmooth DEF ConnectionInv, RouteTypes, DeviceInv
<1>4. CASE RestartFailed(d)
  <2>1. gen[d] + 1 \in SDKs
    BY <1>4, ConnectionAssumption DEF RestartFailed, ConnectionInv, RouteTypes, SDKs
  <2> QED
    BY <1>4, <2>1, KeptSmooth DEF RestartFailed, network, ConnectionInv, RouteTypes, DeviceInv
<1>5. CASE Destroy(d)
  <2>1. /\ open' \subseteq Links /\ Fresh(d) /\ UNCHANGED <<gen, seen>>
        /\ state' = [state EXCEPT ![d] = "destroyed"] /\ sdk' = [sdk EXCEPT ![d] = 0]
    BY <1>5, CutLinksTypes DEF Destroy, ConnectionInv
  <2>2. state'[d] = "destroyed"
    BY <2>1 DEF ConnectionInv, RouteTypes
  <2> QED
    BY <2>1, <2>2, FreshKeeps DEF ConnectionInv, RouteTypes, Smooth, Unflapped, NotStolen, known
<1>6. CASE Crash(d)
  <2>1. /\ open' \subseteq Links /\ Fresh(d) /\ gen' = [gen EXCEPT ![d] = gen[d] + 1]
        /\ state' = [state EXCEPT ![d] = "starting"] /\ sdk' = [sdk EXCEPT ![d] = gen[d] + 1]
        /\ seen' = [seen EXCEPT ![d] = {}]
    BY <1>6, CutLinksTypes DEF Crash, ConnectionInv
  <2>2. gen[d] + 1 \in SDKs /\ gen'[d] # gen[d]
    BY <1>6, <2>1, ConnectionAssumption DEF Crash, ConnectionInv, RouteTypes, SDKs
  <2>3. /\ state' \in [Devices -> {"starting", "connected", "reconnecting", "failed", "destroyed"}]
        /\ gen' \in [Devices -> SDKs] /\ sdk' \in [Devices -> 0..MaxStarts]
        /\ seen' \in [Devices -> SUBSET Links]
    BY <2>1, <2>2 DEF ConnectionInv, RouteTypes
  <2>4. /\ ConnectionInv'
        /\ \A x \in Devices : x # d => known(x)' = known(x)
    BY <2>1, <2>3, FreshKeeps
  <2> QED
    BY <2>2, <2>4 DEF Smooth, Unflapped, NotStolen, known
<1> QED
  BY <1>1, <1>2, <1>3, <1>4, <1>5, <1>6

\* Every step keeps the tables consistent and is smooth.
LEMMA ConnectionStep == ConnectionInv /\ [Next]_vars => ConnectionInv' /\ Smooth
<1> SUFFICES ASSUME ConnectionInv, [Next]_vars PROVE ConnectionInv' /\ Smooth
  OBVIOUS
<1>1. CASE UNCHANGED vars
  BY <1>1, KeptSmooth DEF vars, local, network, ConnectionInv, RouteTypes, DeviceInv
<1>2. ASSUME NEW d \in Devices, Events(d) PROVE ConnectionInv' /\ Smooth
  BY <1>2, RoutesChange, ConnectionChange DEF Events
<1>3. ASSUME NEW d \in Devices, RetryTick(d) \/ \E l \in Links : Handle(d, l)
      PROVE  ConnectionInv' /\ Smooth
  BY <1>3, RoutesChange
<1>4. ASSUME NEW d \in Devices,
             StartFails(d) \/ Disconnected(d) \/ ReconnectFails(d) \/ Destroy(d) \/ Crash(d)
      PROVE  ConnectionInv' /\ Smooth
  BY <1>4, ConnectionChange
<1>5. CASE LinkUp
  <2>1. [d \in Devices |-> sdk[d]] \in Links
    BY <1>5 DEF LinkUp, InRoom, Links, SDKs, ConnectionInv, RouteTypes
  <2> QED
    BY <1>5, <2>1, KeptSmooth DEF LinkUp, local, ConnectionInv, RouteTypes, DeviceInv
<1>6. CASE LinkDown
  <2>1. open' \subseteq Links
    BY <1>6, CutLinksTypes DEF LinkDown, ConnectionInv
  <2> QED
    BY <1>6, <2>1, KeptSmooth DEF LinkDown, local, ConnectionInv, RouteTypes, DeviceInv
<1> QED
  BY <1>1, <1>2, <1>3, <1>4, <1>5, <1>6 DEF Next

-----------------------------------------------------------------------------
(* Theorems *)

\* Whatever is lost, cut, crashed, restarted or late, the route tables are consistent,
\* and the other device is reported online exactly while a route to it is mapped.
THEOREM RoutesConsistent == Spec => []RoutesInv
BY InitInv, ConnectionStep, InvImpliesRoutes, PTL DEF Spec

\* A device does not go offline while another of its routes is open and known.
THEOREM DoesNotFlap == Spec => NoFlap
<1>1. Smooth => [\A d \in Devices :
          online[d] /\ ~online'[d] /\ state'[d] # "destroyed" /\ gen'[d] = gen[d] =>
             identity'[d] \cap raw'[d] = {}]_vars
  BY DEF Smooth, Unflapped
<1> QED
  BY InitInv, ConnectionStep, <1>1, PTL DEF Spec, NoFlap

\* A second route never takes the mapping of one that is still open.
THEOREM RoutesNotStolen == Spec => RouteNotStolen
<1>1. Smooth => [\A d \in Devices :
          mapped[d] # 0 /\ mapped'[d] # mapped[d] /\ gen'[d] = gen[d] /\ state'[d] # "destroyed" =>
             mapped[d] \notin raw'[d]]_vars
  BY DEF Smooth, NotStolen
<1> QED
  BY InitInv, ConnectionStep, <1>1, PTL DEF Spec, RouteNotStolen

-----------------------------------------------------------------------------
(* The queue of a group: what is preserved *)

-----------------------------------------------------------------------------
(* The queue of lifecycle messages *)

Keys == Streams \X Types
Entries == Slot \cup {Hole}
Tables == Seq(Entries)

\* A key is in a table once.
KeysOnce(t) == \A i, j \in Places(t) : Key(t[i].msg) = Key(t[j].msg) => i = j

Flushes ==
    [to : Peers \cup {"all"}, table : 1..Len(tables), at : Nat, done : SUBSET Keys,
     list : Tables, sending : Lifecycle \cup {Hole}]

QueueTypes ==
    /\ session.stream \in Streams \cup {NoStream} /\ session.rev \in Nat
    /\ announcing \in BOOLEAN /\ connected \in BOOLEAN
    /\ unused \subseteq Streams /\ recipients \subseteq Peers
    /\ tables \in Seq(Tables) /\ current \in 0..Len(tables)
    /\ sends \subseteq Lifecycle /\ handed \subseteq Lifecycle
    /\ flushes \subseteq Flushes

TablesOK ==
    \A n \in 1..Len(tables) : KeysOnce(tables[n]) /\ Size(tables[n]) <= MaxPending

\* A flush sends the entry of its place, which may have been removed or replaced under
\* the same key meanwhile, but never by another key's.
FlushOK(f) ==
    /\ f.sending \in Lifecycle /\ f.at \in 1..Len(List(f))
    /\ List(f)[f.at] # Hole => Key(List(f)[f.at].msg) = Key(f.sending)
    /\ f.to # "all" => List(f)[f.at] # Hole

\* What the session has said of a stream: a stop of one it shares no more, or the start
\* or a restart of the one it shares.
Issued(m) ==
    /\ m.type = "stopped" => m.stream \notin unused /\ m.stream # session.stream
    /\ m.type # "stopped" => m.stream = session.stream /\ m.rev <= session.rev
    /\ m.type = "started" => m.rev = 1
    /\ m.type = "restarted" => m.rev > 1

\* The one start or restart in flight is the one the session waits for.
SendsOK ==
    /\ session.stream \notin unused /\ (session.stream # NoStream => session.rev > 0)
    /\ \A m \in sends :
          Issued(m) /\ (m.type # "stopped" => announcing /\ m.rev = session.rev)

StartsFirst(q) ==
    \A i, j \in Places(q) :
       i < j /\ q[i].msg.stream = q[j].msg.stream => q[j].msg.type # "started"

QueueOK == StartsFirst(Queue) /\ \A i \in Places(Queue) : Issued(Queue[i].msg)

\* A flush that will have removed place i of the queue when it ends.
Covers(f, i) ==
    /\ f.table = current
    /\ \/ Key(Queue[i].msg) \in f.done
       \/ f.at <= i /\ f.to = "all"
       \/ /\ f.at <= i /\ i \in Places(f.list)
          /\ Key(f.list[i].msg) = Key(Queue[i].msg)

\* For every peer and every place of the queue there is a flush on its way.
Served ==
    Reliable /\ connected =>
       \A p \in recipients : \A i \in Places(Queue) :
          \E f \in flushes : f.to \in {p, "all"} /\ Covers(f, i)

PendingInv ==
    /\ QueueTypes /\ TablesOK /\ \A f \in flushes : FlushOK(f)
    /\ SendsOK /\ QueueOK /\ Served

-----------------------------------------------------------------------------
(* Tables *)

\* Any set of places has a first one.
LEMMA FirstExists ==
    ASSUME NEW T, T \subseteq Nat, T # {}
    PROVE  \E t \in T : \A s \in T : t <= s
<1> DEFINE R == {ss \in Nat \X Nat : ss[1] < ss[2]}
<1>1. IsWellFoundedOn(R, Nat)
  BY NatLessThanWellFounded, Zenon DEF OpToRel
<1>2. PICK x \in T : \A y \in T : ~ (<<y, x>> \in R)
  <2> HIDE DEF R
  <2> QED
    BY <1>1, WFMin
<1>3. \A y \in T : ~(y < x)
  BY <1>2
<1> QED
  BY <1>3

LEMMA PlacesFinite ==
    ASSUME NEW t \in Tables
    PROVE  /\ IsFiniteSet(Places(t)) /\ Places(t) \subseteq 1..Len(t) /\ Len(t) \in Nat
           /\ \A i \in Places(t) : i \in Nat /\ t[i] \in Slot /\ t[i].msg \in Lifecycle
<1>1. Len(t) \in Nat /\ \A i \in 1..Len(t) : t[i] \in Entries
  BY DEF Tables
<1>2. IsFiniteSet(1..Len(t))
  BY <1>1, FS_Interval
<1>3. Places(t) \subseteq 1..Len(t)
  BY DEF Places
<1>4. \A i \in Places(t) : t[i] \in Slot
  BY <1>1 DEF Places, Entries
<1> QED
  BY <1>1, <1>2, <1>3, <1>4, FS_Subset DEF Slot

\* A table from which entries have been removed.
Shrinks(t, u) ==
    /\ u \in Tables /\ Len(u) = Len(t) /\ Places(u) \subseteq Places(t)
    /\ \A i \in Places(u) : u[i] = t[i]

LEMMA ShrinkSize ==
    ASSUME NEW t \in Tables, NEW u, Shrinks(t, u)
    PROVE  Size(u) <= Size(t) /\ Size(u) \in Nat /\ Size(t) \in Nat
BY PlacesFinite, FS_Subset, FS_CardinalityType DEF Shrinks, Size

LEMMA ShrinkOnce ==
    ASSUME NEW t, NEW u, Shrinks(t, u), KeysOnce(t)
    PROVE  KeysOnce(u)
BY DEF Shrinks, KeysOnce

LEMMA DeleteShrinks ==
    ASSUME NEW t \in Tables, NEW keys
    PROVE  /\ Shrinks(t, Delete(t, keys))
           /\ \A i \in Places(Delete(t, keys)) : Key(t[i].msg) \notin keys
           /\ \A i \in Places(t) : Key(t[i].msg) \notin keys => i \in Places(Delete(t, keys))
<1> DEFINE u == Delete(t, keys)
<1>1. Len(t) \in Nat /\ \A i \in 1..Len(t) : t[i] \in Entries
  BY DEF Tables
<1>2. u = [i \in 1..Len(t) |-> IF t[i] # Hole /\ Key(t[i].msg) \in keys THEN Hole ELSE t[i]]
  BY DEF Delete
<1>3. \A i \in 1..Len(t) : u[i] \in Entries
  BY <1>1, <1>2 DEF Entries
<1> HIDE DEF u
<1>4. u \in Tables /\ Len(u) = Len(t)
  BY <1>1, <1>2, <1>3 DEF Tables
<1>5. \A i \in Places(u) : i \in Places(t) /\ u[i] = t[i] /\ Key(t[i].msg) \notin keys
  BY <1>2, <1>4 DEF Places
<1>6. \A i \in Places(t) : Key(t[i].msg) \notin keys => i \in Places(u)
  BY <1>2, <1>4 DEF Places
<1> QED
  BY <1>4, <1>5, <1>6 DEF u, Shrinks

\* The places that are kept are those from the first of them on, and they are few.
LEMMA EvictShrinks ==
    ASSUME NEW t \in Tables
    PROVE  Shrinks(t, EvictOldest(t)) /\ Size(EvictOldest(t)) <= MaxPending
<1> DEFINE u == EvictOldest(t)
           From(i) == {j \in Places(t) : j >= i}
<1>1. Len(t) \in Nat /\ \A i \in 1..Len(t) : t[i] \in Entries
  BY DEF Tables
<1>2. u = [i \in 1..Len(t) |->
             IF i \in Places(t) /\ Cardinality(From(i)) > MaxPending THEN Hole ELSE t[i]]
  BY DEF EvictOldest
<1>3. \A i \in 1..Len(t) : u[i] \in Entries
  BY <1>1, <1>2 DEF Entries
<1> HIDE DEF u
<1>4. u \in Tables /\ Len(u) = Len(t)
  BY <1>1, <1>2, <1>3 DEF Tables
<1>5. \A i \in Places(u) : i \in Places(t) /\ u[i] = t[i] /\ ~(Cardinality(From(i)) > MaxPending)
  <2> HIDE DEF From
  <2> QED
    BY <1>2, <1>4 DEF Places
<1>6. Shrinks(t, u)
  BY <1>4, <1>5 DEF Shrinks
<1>7. Cardinality(Places(u)) <= MaxPending
  <2>1. CASE Places(u) = {}
    BY <2>1, FS_EmptySet, PendingAssumption
  <2>2. CASE Places(u) # {}
    <3>1. Places(u) \subseteq Nat
      BY <1>4, PlacesFinite
    <3>2. PICK i \in Places(u) : \A j \in Places(u) : i <= j
      BY <2>2, <3>1, FirstExists
    <3>3. Places(u) \subseteq From(i)
      BY <1>5, <3>1, <3>2
    <3>4. IsFiniteSet(From(i))
      BY PlacesFinite, FS_Subset
    <3>5. Cardinality(Places(u)) <= Cardinality(From(i)) /\ Cardinality(From(i)) \in Nat
          /\ Cardinality(Places(u)) \in Nat
      BY <3>3, <3>4, FS_Subset, FS_CardinalityType
    <3> QED
      BY <3>5, <1>5, PendingAssumption
  <2> QED
    BY <2>1, <2>2
<1> QED
  BY <1>6, <1>7 DEF u, Size

\* A table into which m has been put: under its key's place, or at the end.
Grows(t, u, m) ==
    /\ u \in Tables /\ Len(u) \in {Len(t), Len(t) + 1}
    /\ \A i \in Places(u) :
          \/ i \in Places(t) /\ u[i] = t[i] /\ Key(t[i].msg) # Key(m)
          \/ u[i].msg = m /\ i \in Places(t) /\ Key(t[i].msg) = Key(m)
          \/ /\ u[i].msg = m /\ i = Len(t) + 1
             /\ \A j \in Places(t) : Key(t[j].msg) # Key(m)

LEMMA PutGrows ==
    ASSUME NEW t \in Tables, NEW s \in Slot
    PROVE  Grows(t, Put(t, s), s.msg)
<1> DEFINE u == Put(t, s)
<1>1. Len(t) \in Nat /\ \A i \in 1..Len(t) : t[i] \in Entries
  BY DEF Tables
<1>2. s \in Entries /\ s # Hole
  BY PendingAssumption DEF Entries
<1>3. CASE Key(s.msg) \in KeysOf(t)
  <2>1. u = [i \in 1..Len(t) |-> IF t[i] # Hole /\ Key(t[i].msg) = Key(s.msg) THEN s ELSE t[i]]
    BY <1>3 DEF Put
  <2>2. \A i \in 1..Len(t) : u[i] \in Entries
    BY <1>1, <1>2, <2>1
  <2> HIDE DEF u
  <2>3. u \in Tables /\ Len(u) = Len(t)
    BY <1>1, <2>1, <2>2 DEF Tables
  <2>4. \A i \in Places(u) :
          \/ i \in Places(t) /\ u[i] = t[i] /\ Key(t[i].msg) # Key(s.msg)
          \/ u[i] = s /\ i \in Places(t) /\ Key(t[i].msg) = Key(s.msg)
    BY <1>2, <2>1, <2>3 DEF Places
  <2> QED
    BY <2>3, <2>4 DEF Grows, u
<1>4. CASE Key(s.msg) \notin KeysOf(t)
  <2>1. u = Append(t, s)
    BY <1>4 DEF Put
  <2> HIDE DEF u
  <2>2. u \in Tables /\ Len(u) = Len(t) + 1 /\ u[Len(t) + 1] = s
        /\ \A i \in 1..Len(t) : u[i] = t[i]
    BY <1>2, <2>1 DEF Tables
  <2>3. \A j \in Places(t) : Key(t[j].msg) # Key(s.msg)
    BY <1>4 DEF KeysOf
  <2>4. \A i \in Places(u) : (i \in Places(t) /\ u[i] = t[i]) \/ i = Len(t) + 1
    BY <1>1, <2>2 DEF Places
  <2> QED
    BY <2>2, <2>3, <2>4 DEF Grows, u
<1> QED
  BY <1>3, <1>4

\* Removing other keys before and evicting after makes no difference to that.
LEMMA EnqueueGrows ==
    ASSUME NEW t \in Tables, NEW m \in Lifecycle
    PROVE  Grows(t, Enqueue(t, m), m) /\ Size(Enqueue(t, m)) <= MaxPending
<1> DEFINE kept == IF m.type = "stopped"
                     THEN Delete(t, {<<m.stream, "started">>, <<m.stream, "restarted">>}) ELSE t
           s == [msg |-> m, old |-> FALSE]
           u == Put(kept, s)
<1>1. s \in Slot /\ s.msg = m
  BY DEF Slot
<1>2. Shrinks(t, kept)
  <2>1. Shrinks(t, t)
    BY DEF Shrinks
  <2> QED
    BY <2>1, DeleteShrinks
<1>3. \A i \in Places(t) : Key(t[i].msg) = Key(m) => i \in Places(kept)
  <2>1. CASE m.type = "stopped"
    <3>1. Key(m) \notin {<<m.stream, "started">>, <<m.stream, "restarted">>}
      BY <2>1 DEF Key
    <3> QED
      BY <2>1, <3>1, DeleteShrinks
  <2> QED
    BY <2>1
<1>4. Enqueue(t, m) = EvictOldest(u)
  BY DEF Enqueue
<1> HIDE DEF kept, s
<1>5. Grows(kept, u, m)
  BY <1>1, <1>2, PutGrows DEF Shrinks
<1> HIDE DEF u
<1>6. Grows(t, u, m)
  BY <1>2, <1>3, <1>5 DEF Grows, Shrinks
<1>7. Shrinks(u, EvictOldest(u)) /\ Size(EvictOldest(u)) <= MaxPending
  BY <1>5, EvictShrinks DEF Grows
<1>8. Grows(t, EvictOldest(u), m)
  BY <1>6, <1>7 DEF Grows, Shrinks
<1> QED
  BY <1>4, <1>7, <1>8

LEMMA GrowOnce ==
    ASSUME NEW t \in Tables, NEW u, NEW m, Grows(t, u, m), KeysOnce(t)
    PROVE  KeysOnce(u)
<1>1. Len(t) \in Nat /\ \A i \in Places(t) : i \in 1..Len(t)
  BY DEF Tables, Places
<1> SUFFICES ASSUME NEW i \in Places(u), NEW j \in Places(u), Key(u[i].msg) = Key(u[j].msg)
             PROVE  i = j
  BY DEF KeysOnce
<1> QED
  BY <1>1 DEF Grows, KeysOnce

\* What is put last does not come before the start of its stream, unless it is one.
LEMMA GrowStartsFirst ==
    ASSUME NEW t \in Tables, NEW u, NEW m, Grows(t, u, m), KeysOnce(t), StartsFirst(t),
           m.type = "started" =>
              \A i \in Places(t) : t[i].msg.stream = m.stream => Key(t[i].msg) = Key(m)
    PROVE  StartsFirst(u)
<1>1. Len(t) \in Nat /\ \A i \in Places(t) : i \in 1..Len(t)
  BY DEF Tables, Places
<1>2. KeysOnce(u)
  BY GrowOnce
<1> SUFFICES ASSUME NEW i \in Places(u), NEW j \in Places(u), i < j,
                    u[i].msg.stream = u[j].msg.stream, u[j].msg.type = "started"
             PROVE  FALSE
  BY DEF StartsFirst
<1>3. i \in Places(t) \/ i = Len(t) + 1
  BY DEF Grows
<1>4. CASE j \in Places(t) /\ u[j] = t[j] /\ Key(t[j].msg) # Key(m)
  <2>1. i \in Places(t)
    BY <1>1, <1>3, <1>4
  <2>2. u[i] = t[i] \/ Key(t[i].msg) = Key(u[i].msg)
    BY <1>1, <2>1 DEF Grows
  <2>3. t[i].msg.stream = u[i].msg.stream
    BY <2>2 DEF Key
  <2> QED
    BY <1>4, <2>1, <2>3 DEF StartsFirst
<1>5. CASE u[j].msg = m
  <2>1. CASE u[i].msg = m
    BY <1>1, <1>2, <1>3, <1>5, <2>1 DEF KeysOnce
  <2>2. CASE u[i].msg # m
    BY <1>5, <2>2 DEF Grows
  <2> QED
    BY <2>1, <2>2
<1> QED
  BY <1>4, <1>5 DEF Grows

-----------------------------------------------------------------------------
(* What a step does to the tables *)

\* Every table loses entries or has some put under keys that keep their places, and a
\* new one is as good.
Evolves(t, u) ==
    /\ KeysOnce(u) /\ Size(u) <= MaxPending /\ Len(u) >= Len(t)
    /\ \A i \in Places(u) :
          i <= Len(t) => i \in Places(t) /\ Key(u[i].msg) = Key(t[i].msg)

TablesEvolve ==
    /\ tables' \in Seq(Tables) /\ Len(tables') >= Len(tables)
    /\ \A n \in 1..Len(tables) : Evolves(tables[n], tables'[n])
    /\ \A n \in 1..Len(tables') :
          n > Len(tables) => KeysOnce(tables'[n]) /\ Size(tables'[n]) <= MaxPending

LEMMA EvolveTables ==
    ASSUME QueueTypes, TablesEvolve
    PROVE  TablesOK'
<1>1. Len(tables) \in Nat /\ Len(tables') \in Nat
  BY DEF QueueTypes, TablesEvolve
<1> SUFFICES ASSUME NEW n \in 1..Len(tables')
             PROVE  KeysOnce(tables'[n]) /\ Size(tables'[n]) <= MaxPending
  BY DEF TablesOK, KeysOnce, Size, Places, Key
<1> QED
  BY <1>1 DEF TablesEvolve, Evolves

LEMMA ShrinkEvolves ==
    ASSUME NEW t \in Tables, NEW u, Shrinks(t, u), KeysOnce(t), Size(t) <= MaxPending
    PROVE  Evolves(t, u)
<1>1. KeysOnce(u) /\ Size(u) <= Size(t) /\ Size(u) \in Nat /\ Size(t) \in Nat
  BY ShrinkOnce, ShrinkSize
<1>2. Len(u) >= Len(t)
  BY DEF Shrinks, Tables
<1> QED
  BY <1>1, <1>2, PendingAssumption DEF Evolves, Shrinks

LEMMA GrowEvolves ==
    ASSUME NEW t \in Tables, NEW u, NEW m, Grows(t, u, m), KeysOnce(t), Size(u) <= MaxPending
    PROVE  Evolves(t, u)
<1>1. Len(t) \in Nat /\ Len(u) >= Len(t)
  BY DEF Tables, Grows
<1>2. ASSUME NEW i \in Places(u), i <= Len(t)
      PROVE  i \in Places(t) /\ Key(u[i].msg) = Key(t[i].msg)
  BY <1>1, <1>2 DEF Grows
<1> QED
  BY <1>1, <1>2, GrowOnce DEF Evolves

LEMMA EvolveTwice ==
    ASSUME NEW t \in Tables, NEW u \in Tables, NEW v, Evolves(t, u), Evolves(u, v), Len(v) \in Nat
    PROVE  Evolves(t, v)
<1>1. Len(t) \in Nat /\ Len(u) \in Nat /\ \A i \in Places(v) : i \in 1..Len(v)
  BY DEF Tables, Places
<1> QED
  BY <1>1 DEF Evolves

LEMMA TablesSame ==
    ASSUME QueueTypes, TablesOK, tables' = tables
    PROVE  TablesEvolve
<1>1. \A n \in 1..Len(tables) : tables[n] \in Tables /\ Evolves(tables[n], tables[n])
  <2> SUFFICES ASSUME NEW n \in 1..Len(tables)
               PROVE  tables[n] \in Tables /\ Evolves(tables[n], tables[n])
    OBVIOUS
  <2>1. tables[n] \in Tables /\ Shrinks(tables[n], tables[n])
    BY DEF QueueTypes, Shrinks
  <2> QED
    BY <2>1, ShrinkEvolves DEF TablesOK
<1> QED
  BY <1>1 DEF TablesEvolve, QueueTypes

\* A flush under way is not confused by what happens to its table.
LEMMA EvolveFlush ==
    ASSUME QueueTypes, TablesEvolve, NEW f \in Flushes, FlushOK(f)
    PROVE  FlushOK(f)' /\ f \in Flushes'
<1>1. f.table \in 1..Len(tables) /\ Len(tables) \in Nat /\ Len(tables') \in Nat
      /\ Len(tables') >= Len(tables)
  BY DEF QueueTypes, TablesEvolve, Flushes
<1>2. f \in Flushes'
  BY <1>1 DEF Flushes
<1>3. CASE f.to = "all"
  <2> DEFINE t == tables[f.table]
             u == tables'[f.table]
  <2>1. Evolves(t, u) /\ t \in Tables /\ u \in Tables
    BY <1>1 DEF TablesEvolve, QueueTypes
  <2>2. f.sending \in Lifecycle /\ f.at \in 1..Len(t)
        /\ (t[f.at] # Hole => Key(t[f.at].msg) = Key(f.sending))
    BY <1>3 DEF FlushOK, List
  <2> HIDE DEF t, u
  <2>3. Len(t) \in Nat /\ Len(u) \in Nat /\ f.at \in 1..Len(u)
    BY <2>1, <2>2 DEF Evolves, Tables
  <2>4. u[f.at] # Hole => Key(u[f.at].msg) = Key(f.sending)
    BY <2>1, <2>2, <2>3 DEF Evolves, Places
  <2>5. List(f)' = u
    BY <1>3 DEF List, u
  <2> QED
    BY <1>2, <1>3, <2>2, <2>3, <2>4, <2>5 DEF FlushOK
<1>4. CASE f.to # "all"
  <2>1. List(f)' = List(f)
    BY <1>4 DEF List
  <2> QED
    BY <1>2, <2>1 DEF FlushOK
<1> QED
  BY <1>2, <1>3, <1>4

LEMMA FlushesKept ==
    ASSUME QueueTypes, TablesEvolve, \A f \in flushes : FlushOK(f), flushes' \subseteq flushes
    PROVE  flushes' \subseteq Flushes' /\ \A f \in flushes' : FlushOK(f)'
<1> SUFFICES ASSUME NEW f \in flushes PROVE f \in Flushes' /\ FlushOK(f)'
  OBVIOUS
<1> QED
  BY EvolveFlush DEF QueueTypes

\* The queue loses entries.
QueueShrinks ==
    \A i \in Places(Queue') : i \in Places(Queue) /\ Queue'[i].msg = Queue[i].msg

LEMMA ShrinkServed ==
    ASSUME Served, QueueShrinks, current' \in {0, current}, flushes' = flushes,
           Reliable /\ connected' => connected /\ recipients' \subseteq recipients
    PROVE  Served'
<1> SUFFICES ASSUME Reliable, connected', NEW p \in recipients', NEW i \in Places(Queue')
             PROVE  \E f \in flushes' : f.to \in {p, "all"} /\ Covers(f, i)'
  BY DEF Served, Places
<1>1. i \in Places(Queue) /\ Queue'[i].msg = Queue[i].msg
  BY DEF QueueShrinks
<1>2. current' = current
  BY DEF Queue, Places
<1>3. PICK f \in flushes : f.to \in {p, "all"} /\ Covers(f, i)
  BY <1>1 DEF Served
<1>4. Covers(f, i)'
  BY <1>1, <1>2, <1>3 DEF Covers, Key, Places
<1> QED
  BY <1>3, <1>4

LEMMA QueueIsTable == QueueTypes => Queue \in Tables
BY DEF QueueTypes, Queue, Tables

LEMMA ShrinkQueue ==
    ASSUME QueueTypes, QueueOK, QueueShrinks,
           \A m \in Lifecycle :
              Issued(m) /\ (\E i \in Places(Queue') : Queue'[i].msg = m) => Issued(m)'
    PROVE  QueueOK'
<1>1. StartsFirst(Queue)'
  BY DEF QueueOK, QueueShrinks, StartsFirst, Places
<1>2. ASSUME NEW i \in Places(Queue') PROVE Issued(Queue[i].msg)'
  <2>1. PICK m : m = Queue'[i].msg
    OBVIOUS
  <2>2. m \in Lifecycle /\ Issued(m)
    BY <2>1, QueueIsTable, PlacesFinite DEF QueueOK, QueueShrinks
  <2>3. Issued(m)'
    BY <2>1, <2>2
  <2> QED
    BY <2>1, <2>3 DEF Issued
<1> QED
  BY <1>1, <1>2 DEF QueueOK, Places

-----------------------------------------------------------------------------
(* Messages put into the queue *)

\* The tables once m is in the queue, which was q: one made by an append, or the current
\* one replaced.
LEMMA EnqueuesGrow ==
    ASSUME NEW tabs \in Seq(Tables), NEW cur \in 0..Len(tabs), NEW m \in Lifecycle,
           \A n \in 1..Len(tabs) : KeysOnce(tabs[n]) /\ Size(tabs[n]) <= MaxPending,
           EnqueueCurrent(tabs, cur, m)
    PROVE  /\ tables' \in Seq(Tables) /\ Len(tables') >= Len(tabs) /\ current' \in 1..Len(tables')
           /\ Grows(IF cur = 0 THEN <<>> ELSE tabs[cur], tables'[current'], m)
           /\ \A n \in 1..Len(tabs) : Evolves(tabs[n], tables'[n])
           /\ \A n \in 1..Len(tables') :
                 n > Len(tabs) => KeysOnce(tables'[n]) /\ Size(tables'[n]) <= MaxPending
<1>1. Len(tabs) \in Nat
  OBVIOUS
<1>2. ASSUME NEW n \in 1..Len(tabs) PROVE Evolves(tabs[n], tabs[n])
  <2>1. tabs[n] \in Tables /\ Shrinks(tabs[n], tabs[n])
    BY DEF Shrinks
  <2> QED
    BY <2>1, ShrinkEvolves
<1>3. CASE cur = 0
  <2> DEFINE u == Enqueue(<<>>, m)
  <2> DEFINE t == <<>>
  <2>6. t \in Tables
    BY DEF Tables
  <2> HIDE DEF t
  <2>7. Grows(t, Enqueue(t, m), m) /\ Size(Enqueue(t, m)) <= MaxPending
    BY <2>6, EnqueueGrows
  <2>1. t \in Tables /\ Grows(t, u, m) /\ Size(u) <= MaxPending /\ u \in Tables
    BY <2>6, <2>7 DEF Grows, t
  <2>2. KeysOnce(t)
    BY DEF KeysOnce, Places, t
  <2>3. KeysOnce(u)
    BY <2>1, <2>2, GrowOnce
  <2>4. tables' = Append(tabs, u) /\ current' = Len(tabs) + 1
    BY <1>3 DEF EnqueueCurrent
  <2> HIDE DEF u
  <2>5. tables' \in Seq(Tables) /\ Len(tables') = Len(tabs) + 1 /\ tables'[Len(tabs) + 1] = u
        /\ \A n \in 1..Len(tabs) : tables'[n] = tabs[n]
    BY <2>1, <2>4
  <2> QED
    BY <1>1, <1>2, <1>3, <2>1, <2>3, <2>4, <2>5 DEF t
<1>4. CASE cur # 0
  <2> DEFINE u == Enqueue(tabs[cur], m)
  <2>1. cur \in 1..Len(tabs) /\ tabs[cur] \in Tables
    BY <1>1, <1>4
  <2>2. Grows(tabs[cur], u, m) /\ Size(u) <= MaxPending /\ u \in Tables
    BY <2>1, EnqueueGrows DEF Grows
  <2>3. Evolves(tabs[cur], u)
    BY <2>1, <2>2, GrowEvolves
  <2>4. tables' = [tabs EXCEPT ![cur] = u] /\ current' = cur
    BY <1>4 DEF EnqueueCurrent
  <2> HIDE DEF u
  <2>5. tables' \in Seq(Tables) /\ Len(tables') = Len(tabs) /\ tables'[cur] = u
        /\ \A n \in 1..Len(tabs) : n # cur => tables'[n] = tabs[n]
    BY <2>1, <2>2, <2>4
  <2> QED
    BY <1>1, <1>2, <1>4, <2>1, <2>2, <2>3, <2>4, <2>5
<1> QED
  BY <1>3, <1>4

\* The queue after m is put into q is in order, if q was.
LEMMA EnqueuedQueue ==
    ASSUME NEW q \in Tables, NEW m \in Lifecycle, Grows(q, tables'[current'], m), current' # 0,
           KeysOnce(q), StartsFirst(q),
           m.type = "started" =>
              \A i \in Places(q) : q[i].msg.stream = m.stream => Key(q[i].msg) = Key(m),
           Issued(m)',
           \A i \in Places(q), n \in Lifecycle : n = q[i].msg => Issued(n)'
    PROVE  QueueOK'
<1>1. Queue' = tables'[current']
  BY DEF Queue
<1>2. StartsFirst(Queue')
  BY <1>1, GrowStartsFirst
<1>3. ASSUME NEW i \in Places(Queue') PROVE Issued(Queue[i].msg)'
  <2>1. PICK n : n = Queue'[i].msg
    OBVIOUS
  <2>2. n = m \/ (i \in Places(q) /\ n = q[i].msg)
    BY <1>1, <2>1 DEF Grows
  <2>3. Issued(n)'
    <3>1. CASE n = m
      BY <3>1
    <3>2. CASE i \in Places(q) /\ n = q[i].msg
      BY <3>2, PlacesFinite
    <3> QED
      BY <2>2, <3>1, <3>2
  <2> QED
    BY <2>1, <2>3 DEF Issued
<1>4. StartsFirst(Queue)'
  BY <1>2 DEF StartsFirst, Places
<1> QED
  BY <1>3, <1>4 DEF QueueOK, Places

-----------------------------------------------------------------------------
(* The loop of a flush *)

\* The place a flush sends next; what it passes over has expired.
LEMMA NextPlaceIs ==
    ASSUME NEW t \in Tables, NEW i \in Nat
    PROVE  /\ NextPlace(t, i) \in 1..Len(t) + 1
           /\ NextPlace(t, i) <= Len(t) => NextPlace(t, i) \in Places(t)
           /\ \A l \in Places(t) : i < l /\ l < NextPlace(t, i) => t[l].old
<1>1. Places(t) \subseteq 1..Len(t) /\ Len(t) \in Nat
  BY PlacesFinite
<1>2. CASE Sendable(t, i) = {}
  <2>1. NextPlace(t, i) = Len(t) + 1
    BY <1>2 DEF NextPlace
  <2>2. \A l \in Places(t) : i < l => t[l].old
    BY <1>2 DEF Sendable
  <2> QED
    BY <1>1, <2>1, <2>2
<1>3. CASE Sendable(t, i) # {}
  <2>1. Sendable(t, i) \subseteq Nat /\ Sendable(t, i) \subseteq Places(t)
    BY <1>1 DEF Sendable
  <2>2. \E j \in Sendable(t, i) : \A l \in Sendable(t, i) : j <= l
    BY <1>3, <2>1, FirstExists
  <2>3. NextPlace(t, i) \in Sendable(t, i) /\ \A l \in Sendable(t, i) : NextPlace(t, i) <= l
    BY <1>3, <2>2 DEF NextPlace
  <2> DEFINE j == NextPlace(t, i)
  <2> HIDE DEF j
  <2>4. j \in Places(t) /\ j \in 1..Len(t) /\ j > i
    BY <1>1, <2>3 DEF Sendable, j
  <2>5. \A l \in Places(t) : i < l /\ l < j => t[l].old
    BY <1>1, <2>3, <2>4 DEF Sendable, j
  <2> QED
    BY <1>1, <2>4, <2>5 DEF j
<1> QED
  BY <1>2, <1>3

\* A flush that goes on has noted, or has still before it, every place after the i-th.
Resumes(f, i, noted, g) ==
    /\ g.to = f.to /\ g.table = f.table /\ g.list = f.list
    /\ g.at \in Places(List(f)) /\ g.sending = List(f)[g.at].msg
    /\ noted \subseteq g.done /\ g.done \subseteq Keys
    /\ \A l \in Places(List(f)) : i < l => g.at <= l \/ Key(List(f)[l].msg) \in g.done

\* A flush that ends has noted all of them, and removes what it noted.
Finishes(f, i, noted, done) ==
    /\ noted \subseteq done
    /\ \A l \in Places(List(f)) : i < l => Key(List(f)[l].msg) \in done
    /\ tables' = [tables EXCEPT ![f.table] = Delete(@, done)]
    /\ current' \in {0, current}

LEMMA ListIsTable ==
    ASSUME QueueTypes, NEW f \in Flushes
    PROVE  List(f) \in Tables
<1>1. tables[f.table] \in Tables
  BY DEF Flushes, QueueTypes
<1> QED
  BY <1>1 DEF List, Flushes

LEMMA ContinueIs ==
    ASSUME QueueTypes, NEW f \in Flushes, NEW i \in Nat, NEW noted \in SUBSET Keys,
           Continue(f, i, noted)
    PROVE  \/ \E g \in Flushes :
                 /\ flushes' = (flushes \ {f}) \cup {g} /\ UNCHANGED <<tables, current>>
                 /\ Resumes(f, i, noted, g)
           \/ \E done : flushes' = flushes \ {f} /\ Finishes(f, i, noted, done)
<1> DEFINE t == List(f)
           j == NextPlace(t, i)
           done == noted \cup ExpiredBetween(t, i, j)
           g == [f EXCEPT !.at = j, !.done = done, !.sending = t[j].msg]
<1>1. t \in Tables
  BY ListIsTable
<1>2. Places(t) \subseteq 1..Len(t) /\ Len(t) \in Nat
      /\ \A l \in Places(t) : t[l] \in Slot /\ t[l].msg \in Lifecycle
  BY <1>1, PlacesFinite
<1>3. j \in Nat /\ j <= Len(t) + 1 /\ (j <= Len(t) => j \in Places(t))
      /\ \A l \in Places(t) : i < l /\ l < j => t[l].old
  <2> HIDE DEF t
  <2>1. /\ j \in 1..Len(t) + 1 /\ (j <= Len(t) => j \in Places(t))
        /\ \A l \in Places(t) : i < l /\ l < j => t[l].old
    BY <1>1, NextPlaceIs
  <2> HIDE DEF j
  <2> QED
    BY <1>2, <2>1
<1>4. done \subseteq Keys
  <2>1. \A l \in Places(t) : Key(t[l].msg) \in Keys
    BY <1>2 DEF Key, Keys, Lifecycle
  <2> HIDE DEF t, j
  <2> QED
    BY <2>1 DEF ExpiredBetween
<1>5. \A l \in Places(t) : i < l => j <= l \/ Key(t[l].msg) \in done
  <2> SUFFICES ASSUME NEW l \in Places(t), i < l, ~(j <= l)
               PROVE  Key(t[l].msg) \in ExpiredBetween(t, i, j)
    OBVIOUS
  <2> HIDE DEF t, j, done
  <2>1. l < j /\ t[l].old
    BY <1>2, <1>3
  <2> QED
    BY <2>1 DEF ExpiredBetween
<1>6. CASE j <= Len(t)
  <2>1. flushes' = (flushes \ {f}) \cup {[[f EXCEPT !.at = j,
        !.done = done] EXCEPT !.sending = t[j].msg]}
        /\ UNCHANGED <<tables, current>>
    BY <1>6 DEF Continue
  <2> HIDE DEF t, j, done
  <2>2. [[f EXCEPT !.at = j, !.done = done] EXCEPT !.sending = t[j].msg] = g
    BY DEF Flushes
  <2>3. /\ g.to = f.to /\ g.table = f.table /\ g.list = f.list /\ g.at = j
        /\ g.sending = t[j].msg /\ g.done = done
    BY DEF Flushes
  <2>4. t[j].msg \in Lifecycle /\ j \in Places(t)
    BY <1>2, <1>3, <1>6
  <2>5. g \in Flushes
    BY <1>3, <1>4, <2>4 DEF Flushes
  <2> HIDE DEF g
  <2>6. Resumes(f, i, noted, g)
    BY <1>4, <1>5, <2>3, <2>4 DEF Resumes, t, done
  <2> QED
    BY <2>1, <2>2, <2>5, <2>6
<1>7. CASE ~(j <= Len(t))
  <2>1. flushes' = flushes \ {f} /\ tables' = [tables EXCEPT ![f.table] = Delete(@, done)]
        /\ current' \in {0, current}
    BY <1>7 DEF Continue
  <2> HIDE DEF t, j, done
  <2>2. \A l \in Places(t) : i < l => Key(t[l].msg) \in done
    BY <1>2, <1>3, <1>5, <1>7
  <2>3. Finishes(f, i, noted, done)
    BY <2>1, <2>2 DEF Finishes, t, done
  <2> QED
    BY <2>1, <2>3
<1> QED
  BY <1>6, <1>7

\* Whether it goes on or ends, the flushes, tables and queue stay in order.
LEMMA ContinueKeeps ==
    ASSUME PendingInv, NEW f \in Flushes, NEW i \in Nat, NEW noted \in SUBSET Keys,
           Continue(f, i, noted)
    PROVE  /\ TablesEvolve /\ QueueShrinks /\ current' \in 0..Len(tables')
           /\ flushes' \subseteq Flushes' /\ \A g \in flushes' : FlushOK(g)'
<1> USE DEF PendingInv
<1>1. CASE \E g \in Flushes :
              /\ flushes' = (flushes \ {f}) \cup {g} /\ UNCHANGED <<tables, current>>
              /\ Resumes(f, i, noted, g)
  <2>1. PICK g \in Flushes :
              /\ flushes' = (flushes \ {f}) \cup {g} /\ UNCHANGED <<tables, current>>
              /\ Resumes(f, i, noted, g)
    BY <1>1
  <2>2. TablesEvolve
    BY <2>1, TablesSame
  <2>3. QueueShrinks /\ current' \in 0..Len(tables')
    BY <2>1 DEF QueueShrinks, Queue, Places, QueueTypes
  <2>4. List(g) = List(f) /\ List(f) \in Tables
    BY <2>1, ListIsTable DEF Resumes, List
  <2>5. FlushOK(g)
    <3>1. g.sending \in Lifecycle \cup {Hole} /\ g.at \in 1..Len(List(g)) /\ List(g)[g.at] # Hole
      BY <2>1, <2>4, PlacesFinite DEF Flushes, Resumes, Places
    <3>2. List(g)[g.at] \in Slot /\ g.sending = List(g)[g.at].msg
      BY <2>1, <2>4, PlacesFinite DEF Resumes
    <3>3. g.sending \in Lifecycle
      BY <3>2 DEF Slot
    <3> QED
      BY <3>1, <3>2, <3>3 DEF FlushOK
  <2>6. \A h \in flushes' : h \in Flushes /\ FlushOK(h)
    BY <2>1, <2>5 DEF QueueTypes
  <2>7. \A h \in flushes' : h \in Flushes' /\ FlushOK(h)'
    BY <2>2, <2>6, EvolveFlush
  <2> QED
    BY <2>2, <2>3, <2>7
<1>2. CASE \E done : flushes' = flushes \ {f} /\ Finishes(f, i, noted, done)
  <2>1. PICK done : flushes' = flushes \ {f} /\ Finishes(f, i, noted, done)
    BY <1>2
  <2> DEFINE u == Delete(tables[f.table], done)
  <2>2. f.table \in 1..Len(tables) /\ Len(tables) \in Nat /\ tables[f.table] \in Tables
    BY DEF Flushes, QueueTypes
  <2>3. Shrinks(tables[f.table], u)
    BY <2>2, DeleteShrinks
  <2>4. tables' = [tables EXCEPT ![f.table] = u]
    BY <2>1 DEF Finishes
  <2> HIDE DEF u
  <2>5. u \in Tables /\ tables' \in Seq(Tables) /\ Len(tables') = Len(tables)
        /\ tables'[f.table] = u /\ \A n \in 1..Len(tables) : n # f.table => tables'[n] = tables[n]
    BY <2>2, <2>3, <2>4 DEF Shrinks, QueueTypes
  <2>6. \A n \in 1..Len(tables) : tables[n] \in Tables /\ Shrinks(tables[n], tables'[n])
    <3>1. \A n \in 1..Len(tables) : tables[n] \in Tables /\ Shrinks(tables[n], tables[n])
      BY DEF QueueTypes, Shrinks
    <3> QED
      BY <2>3, <2>5, <3>1
  <2>7. TablesEvolve
    <3>1. \A n \in 1..Len(tables) : Evolves(tables[n], tables'[n])
      BY <2>6, ShrinkEvolves DEF TablesOK
    <3> QED
      BY <2>2, <2>5, <3>1 DEF TablesEvolve
  <2>8. current' \in {0, current}
    BY <2>1 DEF Finishes
  <2>9. QueueShrinks
    <3>1. CASE current' = 0
      BY <3>1 DEF QueueShrinks, Queue, Places
    <3>2. CASE current' # 0
      <4>1. current' = current /\ current \in 1..Len(tables)
        BY <2>2, <2>8, <3>2 DEF QueueTypes
      <4>2. Queue = tables[current] /\ Queue' = tables'[current]
        BY <2>2, <4>1 DEF Queue
      <4> QED
        BY <2>6, <4>1, <4>2 DEF Shrinks, QueueShrinks
    <3> QED
      BY <3>1, <3>2
  <2>10. current' \in 0..Len(tables')
    BY <2>2, <2>5, <2>8 DEF QueueTypes
  <2> QED
    BY <2>1, <2>7, <2>9, <2>10, FlushesKept
<1> QED
  BY <1>1, <1>2, ContinueIs

\* What another flush covers it goes on covering, and so does this one, or the place is gone.
LEMMA ContinueCovers ==
    ASSUME PendingInv, NEW f \in Flushes, NEW i \in Nat, NEW noted \in SUBSET Keys,
           Continue(f, i, noted), NEW l \in Places(Queue')
    PROVE  /\ \A h \in flushes \ {f} : Covers(h, l) => h \in flushes' /\ Covers(h, l)'
           /\ f.table = current /\ (\/ Key(Queue[l].msg) \in noted
                                    \/ i < l /\ f.to = "all"
                                    \/ /\ i < l /\ l \in Places(f.list)
                                       /\ Key(f.list[l].msg) = Key(Queue[l].msg))
                => \E g \in flushes' : g.to = f.to /\ Covers(g, l)'
<1>1. l \in Places(Queue) /\ Queue'[l].msg = Queue[l].msg
  BY ContinueKeeps DEF QueueShrinks
<1>2. current' # 0
  BY DEF Queue, Places
<1>3. current' = current
  BY <1>2, ContinueIs DEF Finishes, PendingInv
<1>4. \A h \in flushes \ {f} : h \in flushes'
  BY ContinueIs DEF PendingInv
<1>5. \A h : Covers(h, l) => Covers(h, l)'
  BY <1>1, <1>3 DEF Covers, Key, Places
<1> SUFFICES ASSUME f.table = current,
                    \/ Key(Queue[l].msg) \in noted
                    \/ i < l /\ f.to = "all"
                    \/ /\ i < l /\ l \in Places(f.list)
                       /\ Key(f.list[l].msg) = Key(Queue[l].msg)
             PROVE  \E g \in flushes' : g.to = f.to /\ Covers(g, l)'
  BY <1>4, <1>5
<1>6. Queue = tables[current]
  BY <1>2, <1>3 DEF Queue
<1>7. \/ Key(Queue[l].msg) \in noted
      \/ /\ i < l /\ l \in Places(List(f)) /\ Key(List(f)[l].msg) = Key(Queue[l].msg)
         /\ f.to = "all" \/ List(f) = f.list
  BY <1>1, <1>6 DEF List
<1>8. CASE \E g \in Flushes :
              /\ flushes' = (flushes \ {f}) \cup {g} /\ UNCHANGED <<tables, current>>
              /\ Resumes(f, i, noted, g)
  <2>1. PICK g \in Flushes : g \in flushes' /\ Resumes(f, i, noted, g)
    BY <1>8
  <2>2. Covers(g, l)
    BY <1>7, <2>1 DEF Resumes, Covers
  <2>3. g.to = f.to
    BY <2>1 DEF Resumes
  <2> QED
    BY <1>5, <2>1, <2>2, <2>3
<1>9. CASE \E done : flushes' = flushes \ {f} /\ Finishes(f, i, noted, done)
  <2>1. PICK done : Finishes(f, i, noted, done)
    BY <1>9
  <2>2. Key(Queue[l].msg) \in done
    BY <1>7, <2>1 DEF Finishes
  <2>3. f.table \in 1..Len(tables) /\ tables[f.table] \in Tables /\ Queue = tables[f.table]
    BY <1>6 DEF Flushes, PendingInv, QueueTypes
  <2>4. Queue' = Delete(Queue, done)
    BY <1>2, <1>3, <2>1, <2>3 DEF Finishes, Queue, PendingInv, QueueTypes
  <2> QED
    BY <2>2, <2>3, <2>4, DeleteShrinks
<1> QED
  BY <1>8, <1>9, ContinueIs DEF PendingInv

-----------------------------------------------------------------------------
(* The session's operations *)

\* A message that is broadcast or queued, once the queue has lost what the operation
\* clears.
LEMMA SendOrQueueKeeps ==
    ASSUME PendingInv, QueueTypes', NEW m \in Lifecycle,
           NEW tabs \in Seq(Tables), Len(tabs) = Len(tables), NEW cur \in {0, current},
           \A n \in 1..Len(tables) : Shrinks(tables[n], tabs[n]),
           SendOrQueue(tabs, cur, m), UNCHANGED <<connected, recipients, flushes>>,
           NEW q, q = IF cur = 0 THEN <<>> ELSE tabs[cur],
           Issued(m)', \A i \in Places(q), n \in Lifecycle : n = q[i].msg => Issued(n)',
           m.type = "started" => \A i \in Places(q) : q[i].msg.stream # m.stream,
           session'.stream \notin unused', session'.stream # NoStream => session'.rev > 0,
           \A s \in sends :
              Issued(s)' /\ (s.type # "stopped" => announcing' /\ s.rev = session'.rev),
           m.type # "stopped" => announcing' = connected /\ m.rev = session'.rev
    PROVE  PendingInv'
<1> USE DEF PendingInv
<1>1. Len(tables) \in Nat /\ current \in 0..Len(tables) /\ cur \in 0..Len(tabs)
  BY DEF QueueTypes
<1>2. \A n \in 1..Len(tables) : KeysOnce(tabs[n]) /\ Size(tabs[n]) <= MaxPending
                                 /\ Evolves(tables[n], tabs[n])
  <2> SUFFICES ASSUME NEW n \in 1..Len(tables)
               PROVE  KeysOnce(tabs[n]) /\ Size(tabs[n]) <= MaxPending
                      /\ Evolves(tables[n], tabs[n])
    OBVIOUS
  <2>1. Evolves(tables[n], tabs[n])
    BY ShrinkEvolves DEF TablesOK, QueueTypes
  <2> QED
    BY <2>1 DEF Evolves
<1>3. q \in Tables /\ KeysOnce(q)
      /\ \A i \in Places(q) : i \in Places(Queue) /\ q[i].msg = Queue[i].msg
  <2>1. CASE cur = 0
    BY <2>1 DEF Tables, KeysOnce, Places
  <2>2. CASE cur # 0
    <3>1. q = tabs[cur] /\ Queue = tables[cur] /\ cur \in 1..Len(tables)
      BY <1>1, <2>2 DEF Queue
    <3>2. Shrinks(tables[cur], tabs[cur])
      BY <3>1
    <3> QED
      BY <1>2, <3>1, <3>2 DEF Shrinks
  <2> QED
    BY <2>1, <2>2
<1>4. StartsFirst(q)
  BY <1>3 DEF QueueOK, StartsFirst
<1>5. CASE connected
  <2>1. sends' = sends \cup {m} /\ tables' = tabs /\ current' = cur
    BY <1>5 DEF SendOrQueue
  <2>2. TablesEvolve
    BY <1>1, <1>2, <2>1 DEF TablesEvolve
  <2>3. Queue' = q
    BY <2>1 DEF Queue
  <2>4. QueueShrinks
    BY <1>3, <2>3 DEF QueueShrinks
  <2>5. QueueOK'
    <3>1. ASSUME NEW n \in Lifecycle, \E i \in Places(Queue') : Queue'[i].msg = n
          PROVE  Issued(n)'
      BY <2>3, <3>1
    <3> QED
      BY <2>4, <3>1, ShrinkQueue
  <2>6. Served'
    BY <2>1, <2>4, ShrinkServed
  <2>7. SendsOK'
    <3>1. \A s \in sends' :
             Issued(s)' /\ (s.type # "stopped" => announcing' /\ s.rev = session'.rev)
      BY <1>5, <2>1
    <3> QED
      BY <3>1 DEF SendsOK, Issued
  <2>8. TablesOK' /\ \A f \in flushes' : FlushOK(f)'
    BY <2>2, EvolveTables, FlushesKept
  <2> QED
    BY <2>5, <2>6, <2>7, <2>8
<1>6. CASE ~connected
  <2>1. EnqueueCurrent(tabs, cur, m) /\ sends' = sends
    BY <1>6 DEF SendOrQueue
  <2>2. /\ tables' \in Seq(Tables) /\ Len(tables') >= Len(tabs) /\ current' \in 1..Len(tables')
        /\ Grows(q, tables'[current'], m)
        /\ \A n \in 1..Len(tabs) : Evolves(tabs[n], tables'[n])
        /\ \A n \in 1..Len(tables') :
              n > Len(tabs) => KeysOnce(tables'[n]) /\ Size(tables'[n]) <= MaxPending
    BY <1>1, <1>2, <2>1, EnqueuesGrow
  <2>3. TablesEvolve
    <3>1. ASSUME NEW n \in 1..Len(tables) PROVE Evolves(tables[n], tables'[n])
      <4>1. tables[n] \in Tables /\ tabs[n] \in Tables /\ tables'[n] \in Tables
        BY <1>1, <2>2 DEF QueueTypes
      <4>2. Evolves(tables[n], tabs[n]) /\ Evolves(tabs[n], tables'[n])
        BY <1>2, <2>2
      <4>3. Len(tables'[n]) \in Nat
        BY <4>1 DEF Tables
      <4> QED
        BY <4>1, <4>2, <4>3, EvolveTwice
    <3> QED
      BY <2>2, <3>1 DEF TablesEvolve
  <2>4. QueueOK'
    <3>1. current' # 0
      BY <2>2
    <3> QED
      BY <1>3, <1>4, <2>2, <3>1, EnqueuedQueue
  <2>5. Served'
    BY <1>6 DEF Served
  <2>6. SendsOK'
    BY <2>1 DEF SendsOK, Issued
  <2>7. TablesOK' /\ \A f \in flushes' : FlushOK(f)'
    BY <2>3, EvolveTables, FlushesKept
  <2> QED
    BY <2>4, <2>5, <2>6, <2>7
<1> QED
  BY <1>5, <1>6

\* Types of what the operations send.
LEMMA SendTypes ==
    ASSUME PendingInv, NEW m \in Lifecycle,
           NEW tabs \in Seq(Tables), Len(tabs) = Len(tables), NEW cur \in {0, current},
           \A n \in 1..Len(tables) : Shrinks(tables[n], tabs[n]),
           SendOrQueue(tabs, cur, m)
    PROVE  /\ tables' \in Seq(Tables) /\ current' \in 0..Len(tables') /\ sends' \subseteq Lifecycle
           /\ Len(tables') >= Len(tables)
<1>1. Len(tables) \in Nat /\ current \in 0..Len(tables) /\ cur \in 0..Len(tabs)
  BY DEF PendingInv, QueueTypes
<1>2. \A n \in 1..Len(tabs) : KeysOnce(tabs[n]) /\ Size(tabs[n]) <= MaxPending
  <2> SUFFICES ASSUME NEW n \in 1..Len(tables)
               PROVE  KeysOnce(tabs[n]) /\ Size(tabs[n]) <= MaxPending
    OBVIOUS
  <2>1. Evolves(tables[n], tabs[n])
    BY ShrinkEvolves DEF PendingInv, TablesOK, QueueTypes
  <2> QED
    BY <2>1 DEF Evolves
<1>3. CASE connected
  BY <1>1, <1>3 DEF SendOrQueue, PendingInv, QueueTypes
<1>4. CASE ~connected
  <2>1. EnqueueCurrent(tabs, cur, m) /\ sends' = sends
    BY <1>4 DEF SendOrQueue
  <2>2. tables' \in Seq(Tables) /\ Len(tables') >= Len(tabs) /\ current' \in 1..Len(tables')
    BY <1>1, <1>2, <2>1, EnqueuesGrow
  <2> QED
    BY <1>1, <2>1, <2>2 DEF PendingInv, QueueTypes
<1> QED
  BY <1>3, <1>4

LEMMA FlushesTyped ==
    ASSUME QueueTypes, UNCHANGED flushes, Len(tables') >= Len(tables), tables' \in Seq(Tables)
    PROVE  flushes' \subseteq Flushes'
<1>1. Len(tables) \in Nat /\ Len(tables') \in Nat
  BY DEF QueueTypes
<1> QED
  BY <1>1 DEF QueueTypes, Flushes

\* A message of the queue is one that can still be issued, or Issued would not hold of it.
LEMMA QueuedIssued ==
    ASSUME PendingInv
    PROVE  \A i \in Places(Queue) : Queue[i].msg \in Lifecycle /\ Issued(Queue[i].msg)
BY QueueIsTable, PlacesFinite DEF PendingInv, QueueOK

LEMMA TablesUncut ==
    ASSUME PendingInv
    PROVE  /\ tables \in Seq(Tables) /\ \A n \in 1..Len(tables) : Shrinks(tables[n], tables[n])
           /\ Queue = IF current = 0 THEN <<>> ELSE tables[current]
BY DEF PendingInv, QueueTypes, Shrinks, Queue

\* A stream that starts has sent and queued nothing yet.
LEMMA StartStreamKeeps ==
    ASSUME PendingInv, NEW k \in Streams, StartStream(k)
    PROVE  PendingInv'
<1> DEFINE m == [stream |-> k, type |-> "started", rev |-> 1]
<1>1. m \in Lifecycle /\ m.stream = k /\ m.type = "started" /\ m.rev = 1
  BY DEF Lifecycle, Types
<1>2. /\ ~announcing /\ session.stream = NoStream /\ k \in unused
      /\ session'.stream = k /\ session'.rev = 1 /\ unused' = unused \ {k}
      /\ announcing' = connected /\ SendOrQueue(tables, current, m)
      /\ UNCHANGED <<connected, recipients, flushes, events, handed>>
  BY DEF StartStream
<1> HIDE DEF m
<1>3. QueueTypes'
  BY <1>1, <1>2, TablesUncut, SendTypes, FlushesTyped, PendingAssumption DEF PendingInv, QueueTypes
<1>4. ASSUME NEW n \in Lifecycle, Issued(n)
      PROVE  Issued(n)' /\ n.stream # k /\ n.type = "stopped"
  <2>1. n.stream \in Streams /\ n.stream # session.stream
    BY <1>2, PendingAssumption DEF Lifecycle
  <2> QED
    BY <1>2, <1>4, <2>1 DEF Issued
<1>5. Issued(m)'
  BY <1>1, <1>2 DEF Issued
<1>6. \A s \in sends : Issued(s)' /\ s.type = "stopped"
  BY <1>4 DEF PendingInv, SendsOK, QueueTypes
<1>7. PICK q : q = Queue
  OBVIOUS
<1>8. \A i \in Places(q) : q[i].msg.stream # m.stream /\ \A n \in Lifecycle : n = q[i].msg =>
      Issued(n)'
  BY <1>1, <1>4, <1>7, QueuedIssued
<1>9. session'.stream \notin unused' /\ session'.rev > 0
  BY <1>2
<1>10. PICK tabs, cur : tabs = tables /\ cur = current
  OBVIOUS
<1> QED
  BY <1>1, <1>2, <1>3, <1>5, <1>6, <1>7, <1>8, <1>9, <1>10, TablesUncut, SendOrQueueKeeps

LEMMA RestartStreamKeeps ==
    ASSUME PendingInv, RestartStream
    PROVE  PendingInv'
<1>1. PICK m : m = [stream |-> session.stream, type |-> "restarted", rev |-> session.rev + 1]
  OBVIOUS
<1>2. /\ ~announcing /\ session.stream # NoStream
      /\ session' = [session EXCEPT !.rev = @ + 1]
      /\ announcing' = connected /\ SendOrQueue(tables, current, m)
      /\ UNCHANGED <<connected, recipients, unused, flushes, events, handed>>
  BY <1>1 DEF RestartStream
<1>3. /\ m \in Lifecycle /\ m.stream = session.stream /\ m.type = "restarted"
      /\ m.rev = session.rev + 1 /\ session.rev \in Nat /\ session.rev > 0
  BY <1>1, <1>2 DEF Lifecycle, Types, PendingInv, QueueTypes, SendsOK
<1>4. session'.stream = session.stream /\ session'.rev = session.rev + 1
  BY <1>2 DEF PendingInv, QueueTypes
<1>5. QueueTypes'
  BY <1>2, <1>3, <1>4, TablesUncut, SendTypes, FlushesTyped DEF PendingInv, QueueTypes
<1>6. ASSUME NEW n \in Lifecycle, Issued(n)
      PROVE  Issued(n)'
  BY <1>2, <1>3, <1>4, <1>6 DEF Issued, Lifecycle
<1>7. Issued(m)'
  BY <1>2, <1>3, <1>4 DEF Issued
<1>8. \A s \in sends : Issued(s)' /\ s.type = "stopped"
  BY <1>2, <1>6 DEF PendingInv, SendsOK, QueueTypes
<1>9. PICK q : q = Queue
  OBVIOUS
<1>10. \A i \in Places(q) : \A n \in Lifecycle : n = q[i].msg => Issued(n)'
  BY <1>6, <1>9, QueuedIssued
<1>11. session'.stream \notin unused' /\ session'.rev > 0
  BY <1>2, <1>3, <1>4 DEF PendingInv, SendsOK
<1>12. PICK tabs, cur : tabs = tables /\ cur = current
  OBVIOUS
<1> QED
  BY <1>2, <1>3, <1>4, <1>5, <1>7, <1>8, <1>9, <1>10, <1>11, <1>12, TablesUncut, SendOrQueueKeeps

\* A stop clears what was queued of the stream, so what is left is of others.
LEMMA StopStreamKeeps ==
    ASSUME PendingInv, StopStream
    PROVE  PendingInv'
<1>1. PICK k, m, tabs, cur :
        /\ k = session.stream /\ m = [stream |-> k, type |-> "stopped", rev |-> session.rev]
        /\ tabs = ClearedTables(k) /\ cur = ClearedCurrent(k)
  OBVIOUS
<1>2. /\ ~announcing /\ k # NoStream /\ session' = [stream |-> NoStream, rev |-> 0]
      /\ SendOrQueue(tabs, cur, m)
      /\ UNCHANGED <<announcing, unused, connected, recipients, flushes, events, handed>>
  BY <1>1 DEF StopStream
<1>3. /\ m \in Lifecycle /\ m.stream = k /\ m.type = "stopped" /\ k \in Streams
  BY <1>1, <1>2 DEF Lifecycle, Types, PendingInv, QueueTypes
<1>4. session'.stream = NoStream /\ session'.rev = 0
  BY <1>2
<1> DEFINE keys == {<<k, type>> : type \in Types}
           q == IF cur = 0 THEN <<>> ELSE tabs[cur]
<1>5. /\ tabs \in Seq(Tables) /\ Len(tabs) = Len(tables) /\ cur \in {0, current}
      /\ \A n \in 1..Len(tables) : Shrinks(tables[n], tabs[n])
      /\ cur # 0 => tabs[cur] = Delete(tables[cur], keys) /\ current \in 1..Len(tables)
  <2>1. tables \in Seq(Tables) /\ current \in 0..Len(tables) /\ Len(tables) \in Nat
    BY DEF PendingInv, QueueTypes
  <2>2. CASE current = 0
    BY <1>1, <2>1, <2>2, TablesUncut DEF ClearedTables, ClearedCurrent
  <2>3. CASE current # 0
    <3> DEFINE u == Delete(tables[current], keys)
    <3>1. current \in 1..Len(tables) /\ tables[current] \in Tables
      BY <2>1, <2>3
    <3>2. Shrinks(tables[current], u)
      BY <3>1, DeleteShrinks
    <3>3. tabs = [tables EXCEPT ![current] = u] /\ cur \in {0, current}
      BY <1>1, <2>3 DEF ClearedTables, ClearedCurrent
    <3>6. u \in Tables
      BY <3>2 DEF Shrinks
    <3> HIDE DEF u
    <3>4. tabs \in Seq(Tables) /\ Len(tabs) = Len(tables) /\ tabs[current] = u
          /\ \A n \in 1..Len(tables) : n # current => tabs[n] = tables[n]
      BY <2>1, <3>1, <3>3, <3>6
    <3>5. \A n \in 1..Len(tables) : Shrinks(tables[n], tabs[n])
      BY <3>2, <3>4, TablesUncut
    <3> QED
      BY <3>1, <3>3, <3>4, <3>5 DEF u
  <2> QED
    BY <2>2, <2>3
<1>6. QueueTypes'
  BY <1>2, <1>3, <1>4, <1>5, SendTypes, FlushesTyped DEF PendingInv, QueueTypes
<1>7. ASSUME NEW n \in Lifecycle, Issued(n), n.stream # k
      PROVE  Issued(n)' /\ n.type = "stopped"
  BY <1>1, <1>2, <1>4, <1>7, PendingAssumption DEF Issued, Lifecycle
<1>8. Issued(m)'
  BY <1>1, <1>2, <1>3, <1>4, PendingAssumption DEF Issued, PendingInv, SendsOK
<1>9. \A s \in sends : Issued(s)' /\ s.type = "stopped"
  <2> SUFFICES ASSUME NEW s \in sends PROVE Issued(s)' /\ s.type = "stopped"
    OBVIOUS
  <2>1. s \in Lifecycle /\ Issued(s) /\ s.type = "stopped"
    BY <1>2 DEF PendingInv, SendsOK, QueueTypes
  <2>2. s.stream # k
    BY <1>1, <2>1 DEF Issued
  <2> QED
    BY <1>7, <2>1, <2>2
<1>10. ASSUME NEW i \in Places(q), NEW n \in Lifecycle, n = q[i].msg
       PROVE  Issued(n)'
  <2>1. cur # 0
    BY DEF Places
  <2>2. q = Delete(Queue, keys) /\ Queue \in Tables
    BY <1>5, <2>1, QueueIsTable DEF Queue, PendingInv
  <2>3. i \in Places(Queue) /\ q[i] = Queue[i] /\ Key(n) \notin keys
    BY <1>10, <2>2, DeleteShrinks DEF Shrinks
  <2>4. n.stream # k
    BY <2>3 DEF Key, Lifecycle
  <2>5. Issued(n)
    BY <1>10, <2>3, QueuedIssued
  <2> QED
    BY <1>7, <2>4, <2>5
<1>11. session'.stream \notin unused'
  BY <1>2, <1>4, PendingAssumption DEF PendingInv, QueueTypes
<1>12. PICK qq : qq = q
  OBVIOUS
<1> HIDE DEF q
<1>13. \A i \in Places(qq), n \in Lifecycle : n = qq[i].msg => Issued(n)'
  BY <1>10, <1>12
<1>14. qq = IF cur = 0 THEN <<>> ELSE tabs[cur]
  BY <1>12 DEF q
<1> QED
  BY <1>2, <1>3, <1>4, <1>5, <1>6, <1>8, <1>9, <1>11, <1>13, <1>14, SendOrQueueKeeps

\* A broadcast that nobody received is queued after all, behind what was said before it.
LEMMA SendDoneKeeps ==
    ASSUME PendingInv, NEW m \in sends, SendDone(m)
    PROVE  PendingInv'
<1> USE DEF PendingInv
<1>1. PICK S \in Outcomes :
        /\ Hand(S, m)
        /\ IF S = {} THEN EnqueueCurrent(tables, current, m) ELSE UNCHANGED <<tables, current>>
  BY DEF SendDone
<1>2. /\ sends' = sends \ {m} /\ announcing' = (IF m.type = "stopped" THEN announcing ELSE FALSE)
      /\ UNCHANGED <<session, unused, connected, recipients, flushes, events>>
  BY DEF SendDone
<1>3. m \in Lifecycle /\ Issued(m)
  BY DEF SendsOK, QueueTypes
<1>4. handed' \subseteq Lifecycle
  BY <1>1, <1>3 DEF Hand, QueueTypes
<1>5. \A n : Issued(n) => Issued(n)'
  BY <1>2 DEF Issued
<1>6. SendsOK'
  <2> SUFFICES ASSUME NEW s \in sends, s # m
               PROVE  Issued(s) /\ (s.type # "stopped" => announcing' /\ s.rev = session.rev)
    BY <1>2 DEF SendsOK, Issued
  <2>1. Issued(s) /\ s \in Lifecycle /\ (s.type # "stopped" => announcing /\ s.rev = session.rev)
    BY DEF SendsOK, QueueTypes
  <2>2. CASE m.type = "stopped"
    BY <1>2, <2>1, <2>2
  <2>3. CASE m.type # "stopped" /\ s.type # "stopped"
    <3>1. s.stream = m.stream /\ s.rev = m.rev
      BY <2>1, <2>3, <1>3 DEF SendsOK, Issued
    <3>2. s.type = m.type
      BY <1>3, <2>1, <2>3, <3>1 DEF Issued, Lifecycle, Types
    <3> QED
      BY <1>3, <2>1, <3>1, <3>2 DEF Lifecycle
  <2> QED
    BY <2>1, <2>2, <2>3
<1>9. announcing' \in BOOLEAN
  BY <1>2 DEF QueueTypes
<1>7. CASE S # {}
  <2>1. UNCHANGED <<tables, current>>
    BY <1>1, <1>7
  <2>2. TablesEvolve
    BY <2>1, TablesSame
  <2>3. QueueTypes'
    <3>1. tables' \in Seq(Tables) /\ Len(tables') >= Len(tables) /\ current' \in 0..Len(tables')
      BY <2>1 DEF QueueTypes
    <3> QED
      BY <1>2, <1>4, <1>9, <3>1, FlushesTyped DEF QueueTypes
  <2>4. QueueOK'
    BY <1>2, <2>1 DEF QueueOK, StartsFirst, Queue, Places, Issued
  <2>5. Served'
    <3>1. QueueShrinks
      BY <2>1 DEF QueueShrinks, Queue, Places
    <3> QED
      BY <1>2, <2>1, <3>1, ShrinkServed
  <2> QED
    BY <1>2, <1>6, <2>2, <2>3, <2>4, <2>5, EvolveTables, FlushesKept
<1>8. CASE S = {}
  <2>1. EnqueueCurrent(tables, current, m)
    BY <1>1, <1>8
  <2>2. PICK q, tabs, cur : q = Queue /\ tabs = tables /\ cur = current
    OBVIOUS
  <2>3. /\ tables' \in Seq(Tables) /\ Len(tables') >= Len(tables) /\ current' \in 1..Len(tables')
        /\ Grows(q, tables'[current'], m)
        /\ \A n \in 1..Len(tables) : Evolves(tables[n], tables'[n])
        /\ \A n \in 1..Len(tables') :
              n > Len(tables) => KeysOnce(tables'[n]) /\ Size(tables'[n]) <= MaxPending
    <3>1. EnqueueCurrent(tabs, cur, m)
      BY <2>1, <2>2
    <3>2. cur \in 0..Len(tabs) /\ tabs \in Seq(Tables)
      BY <2>2 DEF QueueTypes
    <3>3. \A n \in 1..Len(tabs) : KeysOnce(tabs[n]) /\ Size(tabs[n]) <= MaxPending
      BY <2>2 DEF TablesOK
    <3>4. m \in Lifecycle
      BY <1>3
    <3>5. /\ tables' \in Seq(Tables) /\ Len(tables') >= Len(tabs) /\ current' \in 1..Len(tables')
          /\ Grows(IF cur = 0 THEN <<>> ELSE tabs[cur], tables'[current'], m)
          /\ \A n \in 1..Len(tabs) : Evolves(tabs[n], tables'[n])
          /\ \A n \in 1..Len(tables') :
                n > Len(tabs) => KeysOnce(tables'[n]) /\ Size(tables'[n]) <= MaxPending
      BY <3>1, <3>2, <3>3, <3>4, EnqueuesGrow
    <3>6. q = IF cur = 0 THEN <<>> ELSE tabs[cur]
      BY <2>2 DEF Queue
    <3> QED
      BY <2>2, <3>5, <3>6
  <2>4. TablesEvolve
    BY <2>3 DEF TablesEvolve
  <2>5. QueueTypes'
    <3>1. current' \in 0..Len(tables')
      BY <2>3
    <3> QED
      BY <1>2, <1>4, <1>9, <2>3, <3>1, FlushesTyped DEF QueueTypes
  <2>6. QueueOK'
    <3>1. q \in Tables /\ StartsFirst(q) /\ KeysOnce(q)
      <4>1. KeysOnce(Queue)
        BY DEF Queue, QueueTypes, TablesOK, KeysOnce, Places
      <4> QED
        BY <2>2, <4>1, QueueIsTable DEF QueueOK
    <3>2. \A i \in Places(q), n \in Lifecycle : n = q[i].msg => Issued(n)'
      BY <1>5, <2>2, QueuedIssued
    <3>3. ASSUME m.type = "started", NEW i \in Places(q), q[i].msg.stream = m.stream
          PROVE  Key(q[i].msg) = Key(m)
      <4>1. q[i].msg \in Lifecycle /\ Issued(q[i].msg)
        BY <2>2, QueuedIssued
      <4>2. m.rev = 1 /\ session.rev = 1 /\ m.stream = session.stream
        BY <1>3, <3>3 DEF Issued, SendsOK
      <4>3. q[i].msg.type = "started"
        BY <3>3, <4>1, <4>2 DEF Issued, Lifecycle, Types
      <4> QED
        BY <3>3, <4>3 DEF Key
    <3> QED
      BY <1>3, <1>5, <2>3, <3>1, <3>2, <3>3, EnqueuedQueue
  <2>7. Served'
    BY <1>2, <1>8 DEF Served, Outcomes
  <2> QED
    BY <1>6, <1>2, <2>4, <2>5, <2>6, <2>7, EvolveTables, FlushesKept
<1> QED
  BY <1>7, <1>8

-----------------------------------------------------------------------------
(* Flushes and the connection *)

\* What a flush that begins or goes on leaves to show is that every place is served.
LEMMA FlushingKeeps ==
    ASSUME PendingInv, NEW f \in Flushes, NEW i \in Nat, NEW noted \in SUBSET Keys,
           Continue(f, i, noted), UNCHANGED <<session, announcing, unused, sends>>,
           connected' \in BOOLEAN, recipients' \subseteq Peers, handed' \subseteq Lifecycle,
           Served'
    PROVE  PendingInv'
<1>1. /\ TablesEvolve /\ QueueShrinks /\ current' \in 0..Len(tables')
      /\ flushes' \subseteq Flushes' /\ \A g \in flushes' : FlushOK(g)'
  BY ContinueKeeps
<1>2. QueueTypes'
  BY <1>1 DEF PendingInv, QueueTypes, TablesEvolve
<1>3. TablesOK'
  BY <1>1, EvolveTables DEF PendingInv
<1>4. SendsOK'
  BY DEF PendingInv, SendsOK, Issued
<1>5. QueueOK'
  <2>1. \A n \in Lifecycle : Issued(n) => Issued(n)'
    BY DEF Issued
  <2> QED
    BY <1>1, <2>1, ShrinkQueue DEF PendingInv
<1> QED
  BY <1>1, <1>2, <1>3, <1>4, <1>5 DEF PendingInv

\* A send that succeeds notes its key.
LEMMA FlushStepKeeps ==
    ASSUME PendingInv, NEW f \in flushes, FlushStep(f)
    PROVE  PendingInv'
<1>1. PICK S \in IF f.to = "all" THEN Outcomes
                 ELSE IF f.to \notin recipients THEN {{}}
                 ELSE IF Reliable THEN {{f.to}} ELSE {{}, {f.to}} :
        /\ Hand(S, f.sending)
        /\ Continue(f, f.at, IF S = {} THEN f.done ELSE f.done \cup {Key(f.sending)})
  BY DEF FlushStep
<1>2. UNCHANGED <<session, announcing, unused, connected, recipients, sends, events>>
  BY DEF FlushStep
<1>3. PICK i, noted : /\ i = f.at
                      /\ noted = IF S = {} THEN f.done ELSE f.done \cup {Key(f.sending)}
  OBVIOUS
<1>4. f \in Flushes /\ FlushOK(f) /\ i \in Nat /\ noted \in SUBSET Keys /\ f.sending \in Lifecycle
  <2>1. f \in Flushes /\ FlushOK(f) /\ f.sending \in Lifecycle
    BY DEF PendingInv, QueueTypes, FlushOK
  <2>2. Key(f.sending) \in Keys
    BY <2>1 DEF Key, Keys, Lifecycle
  <2> QED
    BY <1>3, <2>1, <2>2 DEF Flushes
<1>5. Continue(f, i, noted)
  BY <1>1, <1>3
<1>6. handed' \subseteq Lifecycle
  BY <1>1, <1>4 DEF Hand, PendingInv, QueueTypes
<1>7. Served'
  <2> SUFFICES ASSUME Reliable, connected', NEW p \in recipients', NEW l \in Places(Queue')
               PROVE  \E g \in flushes' : g.to \in {p, "all"} /\ Covers(g, l)'
    BY DEF Served, Places
  <2>1. l \in Places(Queue) /\ p \in recipients /\ connected
    BY <1>2, <1>4, <1>5, ContinueKeeps DEF QueueShrinks
  <2>2. PICK h \in flushes : h.to \in {p, "all"} /\ Covers(h, l)
    BY <2>1 DEF PendingInv, Served
  <2>3. CASE h # f
    BY <1>4, <1>5, <2>2, <2>3, ContinueCovers
  <2>4. CASE h = f
    <3>1. S # {}
      BY <1>1, <2>1, <2>2, <2>4 DEF Outcomes
    <3>2. noted = f.done \cup {Key(f.sending)}
      BY <1>3, <3>1
    <3>3. \/ Key(Queue[l].msg) \in noted
          \/ i < l /\ f.to = "all"
          \/ i < l /\ l \in Places(f.list) /\ Key(f.list[l].msg) = Key(Queue[l].msg)
      <4>1. f.table = current /\ current # 0 /\ Queue = tables[current]
        BY <2>1, <2>2, <2>4 DEF Covers, Queue, Places
      <4>2. l \in Nat /\ Queue[l] # Hole
        BY <2>1, QueueIsTable, PlacesFinite DEF Places, PendingInv
      <4>3. CASE l = i /\ f.to = "all"
        BY <1>3, <1>4, <3>2, <4>1, <4>2, <4>3 DEF FlushOK, List
      <4>4. CASE l = i /\ f.to # "all" /\ Key(f.list[l].msg) = Key(Queue[l].msg)
        BY <1>3, <1>4, <3>2, <4>4 DEF FlushOK, List
      <4> QED
        BY <1>3, <1>4, <2>2, <2>4, <3>2, <4>2, <4>3, <4>4 DEF Covers
    <3>4. f.table = current
      BY <2>2, <2>4 DEF Covers
    <3>5. \E g \in flushes' : g.to = f.to /\ Covers(g, l)'
      BY <1>4, <1>5, <3>3, <3>4, ContinueCovers
    <3> QED
      BY <2>2, <2>4, <3>5
  <2> QED
    BY <2>3, <2>4
<1>8. connected' \in BOOLEAN /\ recipients' \subseteq Peers
  BY <1>2 DEF PendingInv, QueueTypes
<1> QED
  BY <1>2, <1>4, <1>5, <1>6, <1>7, <1>8, FlushingKeeps

\* A flush that begins covers every place.
LEMMA FlushCovers ==
    ASSUME PendingInv, NEW to \in Peers \cup {"all"}, CanFlush, Flush(to)
    PROVE  \E f \in Flushes :
              /\ Continue(f, 0, {}) /\ f \notin flushes /\ f.to = to
              /\ \A l \in Places(Queue') : \E g \in flushes' : g.to = to /\ Covers(g, l)'
<1>1. PICK f : f = [to |-> to, table |-> current, at |-> 0, done |-> {},
                    list |-> IF to = "all" THEN <<>> ELSE tables[current], sending |-> Hole]
  OBVIOUS
<1>2. Continue(f, 0, {})
  BY <1>1 DEF Flush
<1>3. current \in 1..Len(tables) /\ tables[current] \in Tables /\ Queue = tables[current]
  BY DEF CanFlush, PendingInv, QueueTypes, Queue
<1>4. f \in Flushes
  BY <1>1, <1>3 DEF Flushes, Tables
<1>5. f.at = 0 /\ f.to = to /\ f.table = current
      /\ f.list = IF to = "all" THEN <<>> ELSE tables[current]
  BY <1>1
<1>6. f \notin flushes
  BY <1>5 DEF PendingInv, FlushOK
<1>7. ASSUME NEW l \in Places(Queue')
      PROVE  \E g \in flushes' : g.to = to /\ Covers(g, l)'
  <2>1. {} \in SUBSET Keys /\ 0 \in Nat
    OBVIOUS
  <2>2. l \in Places(Queue)
    BY <1>2, <1>4, <2>1, ContinueKeeps DEF QueueShrinks
  <2>3. 0 < l
    BY <1>3, <2>2, PlacesFinite
  <2>4. (f.to = "all") \/ (l \in Places(f.list) /\ Key(f.list[l].msg) = Key(Queue[l].msg))
    BY <1>3, <1>5, <2>2
  <2> QED
    BY <1>2, <1>4, <1>5, <2>1, <2>3, <2>4, ContinueCovers
<1> QED
  BY <1>2, <1>4, <1>5, <1>6, <1>7

LEMMA NothingToFlush ==
    ASSUME PendingInv, ~CanFlush
    PROVE  Places(Queue) = {}
<1>1. CASE current = 0
  BY <1>1 DEF Queue, Places
<1>2. CASE current # 0
  <2>1. tables[current] \in Tables /\ Queue = tables[current]
    BY <1>2 DEF PendingInv, QueueTypes, Queue
  <2>2. IsFiniteSet(Places(Queue)) /\ ~(Cardinality(Places(Queue)) > 0)
    BY <1>2, <2>1, PlacesFinite DEF CanFlush, Size
  <2> QED
    BY <2>2, FS_CardinalityType, FS_EmptySet
<1> QED
  BY <1>1, <1>2

\* A step that touches neither the session nor the queue.
LEMMA QuietKeeps ==
    ASSUME PendingInv, connected' \in BOOLEAN, recipients' \subseteq Peers,
           UNCHANGED <<session, announcing, unused, tables, current, sends, flushes, handed>>,
           Served'
    PROVE  PendingInv'
<1>1. TablesEvolve
  BY TablesSame DEF PendingInv
<1>2. QueueTypes'
  BY FlushesTyped, <1>1 DEF PendingInv, QueueTypes, TablesEvolve
<1>3. SendsOK'
  BY DEF PendingInv, SendsOK, Issued
<1>4. QueueOK'
  BY DEF PendingInv, QueueOK, StartsFirst, Queue, Places, Issued
<1> QED
  BY <1>1, <1>2, <1>3, <1>4, EvolveTables, FlushesKept DEF PendingInv

LEMMA ConnectKeeps == PendingInv /\ Connect => PendingInv'
<1> SUFFICES ASSUME PendingInv, Connect PROVE PendingInv'
  OBVIOUS
<1>1. /\ connected' = TRUE
      /\ UNCHANGED <<session, announcing, unused, recipients, sends, events, handed>>
  BY DEF Connect
<1>2. handed' \subseteq Lifecycle /\ recipients' \subseteq Peers
  BY <1>1 DEF PendingInv, QueueTypes
<1>3. CASE CanFlush
  <2>1. Flush("all")
    BY <1>3 DEF Connect
  <2>2. PICK f \in Flushes :
          /\ Continue(f, 0, {}) /\ f.to = "all"
          /\ \A l \in Places(Queue') : \E g \in flushes' : g.to = "all" /\ Covers(g, l)'
    BY <1>3, <2>1, FlushCovers
  <2>3. Served'
    BY <2>2 DEF Served, Places
  <2>4. {} \in SUBSET Keys /\ 0 \in Nat
    OBVIOUS
  <2> QED
    BY <1>1, <1>2, <2>2, <2>3, <2>4, FlushingKeeps
<1>4. CASE ~CanFlush
  <2>1. UNCHANGED <<tables, current, flushes>>
    BY <1>4 DEF Connect
  <2>2. Served'
    BY <1>4, <2>1, NothingToFlush DEF Served, Queue, Places
  <2> QED
    BY <1>1, <1>2, <2>1, <2>2, QuietKeeps
<1> QED
  BY <1>3, <1>4

LEMMA PeerUpKeeps ==
    ASSUME PendingInv, NEW p \in Peers, PeerUp(p)
    PROVE  PendingInv'
<1>1. /\ recipients' = recipients \cup {p}
      /\ UNCHANGED <<session, announcing, unused, connected, sends, events, handed>>
  BY DEF PeerUp
<1>2. handed' \subseteq Lifecycle /\ recipients' \subseteq Peers /\ connected' \in BOOLEAN
  BY <1>1 DEF PendingInv, QueueTypes
<1>3. CASE connected /\ CanFlush
  <2>1. Flush(p)
    BY <1>3 DEF PeerUp
  <2>2. PICK f \in Flushes :
          /\ Continue(f, 0, {}) /\ f \notin flushes
          /\ \A l \in Places(Queue') : \E g \in flushes' : g.to = p /\ Covers(g, l)'
    BY <1>3, <2>1, FlushCovers
  <2>3. {} \in SUBSET Keys /\ 0 \in Nat
    OBVIOUS
  <2>4. Served'
    <3> SUFFICES ASSUME Reliable, NEW o \in recipients', NEW l \in Places(Queue')
                 PROVE  \E g \in flushes' : g.to \in {o, "all"} /\ Covers(g, l)'
      BY DEF Served, Places
    <3>1. CASE o = p
      BY <2>2, <3>1
    <3>2. CASE o \in recipients
      <4>1. l \in Places(Queue)
        BY <2>2, <2>3, ContinueKeeps DEF QueueShrinks
      <4>2. PICK h \in flushes : h.to \in {o, "all"} /\ Covers(h, l)
        BY <1>3, <3>2, <4>1 DEF PendingInv, Served
      <4>3. h \in flushes' /\ Covers(h, l)'
        BY <2>2, <2>3, <4>2, ContinueCovers
      <4> QED
        BY <4>2, <4>3
    <3> QED
      BY <1>1, <3>1, <3>2
  <2> QED
    BY <1>1, <1>2, <2>2, <2>3, <2>4, FlushingKeeps
<1>4. CASE ~(connected /\ CanFlush)
  <2>1. UNCHANGED <<tables, current, flushes>>
    BY <1>4 DEF PeerUp
  <2>2. Served'
    BY <1>1, <1>4, <2>1, NothingToFlush DEF Served, Queue, Places
  <2> QED
    BY <1>1, <1>2, <2>1, <2>2, QuietKeeps
<1> QED
  BY <1>3, <1>4

\* Entries that grow old stay where they are.
LEMMA TimeToLiveKeeps == PendingInv /\ TimeToLive => PendingInv'
<1> SUFFICES ASSUME PendingInv, TimeToLive PROVE PendingInv'
  OBVIOUS
<1> DEFINE t == tables[current]
           u == [i \in 1..Len(t) |-> IF t[i] = Hole THEN Hole ELSE [t[i] EXCEPT !.old = TRUE]]
<1>1. /\ flushes = {} /\ current # 0 /\ tables' = [tables EXCEPT ![current] = u]
      /\ UNCHANGED <<session, announcing, unused, connected, recipients, current, sends, flushes,
                     handed>>
  BY DEF TimeToLive
<1>2. current \in 1..Len(tables) /\ Len(tables) \in Nat /\ t \in Tables
  BY <1>1 DEF PendingInv, QueueTypes
<1>3. Len(t) \in Nat /\ \A i \in 1..Len(t) : t[i] \in Entries
  BY <1>2 DEF Tables
<1> HIDE DEF t
<1>4. ASSUME NEW i \in 1..Len(t)
      PROVE  /\ u[i] \in Entries /\ (u[i] = Hole <=> t[i] = Hole)
             /\ t[i] # Hole => u[i].msg = t[i].msg
  <2>1. CASE t[i] = Hole
    BY <2>1 DEF Entries
  <2>2. CASE t[i] # Hole
    <3>1. t[i] \in Slot
      BY <1>3, <2>2 DEF Entries
    <3>2. [t[i] EXCEPT !.old = TRUE] \in Slot /\ [t[i] EXCEPT !.old = TRUE].msg = t[i].msg
      BY <3>1 DEF Slot
    <3> QED
      BY <2>2, <3>2, PendingAssumption DEF Entries
  <2> QED
    BY <2>1, <2>2
<1>5. u \in Tables /\ Len(u) = Len(t)
  BY <1>3, <1>4 DEF Tables
<1> HIDE DEF u
<1>6. Places(u) = Places(t) /\ \A i \in Places(t) : u[i].msg = t[i].msg
  BY <1>4, <1>5 DEF Places
<1>7. Evolves(t, u)
  <2>1. KeysOnce(t) /\ Size(t) <= MaxPending
    BY <1>2 DEF PendingInv, TablesOK, t
  <2> QED
    BY <1>3, <1>5, <1>6, <2>1 DEF Evolves, KeysOnce, Size
<1>8. tables' \in Seq(Tables) /\ Len(tables') = Len(tables) /\ tables'[current] = u
      /\ \A n \in 1..Len(tables) : n # current => tables'[n] = tables[n]
  BY <1>1, <1>2, <1>5 DEF PendingInv, QueueTypes
<1>9. TablesEvolve
  <2>1. ASSUME NEW n \in 1..Len(tables) PROVE Evolves(tables[n], tables'[n])
    <3>1. CASE n = current
      BY <1>7, <1>8, <3>1 DEF t
    <3>2. CASE n # current
      <4>1. tables[n] \in Tables /\ Shrinks(tables[n], tables[n])
        BY TablesUncut
      <4> QED
        BY <1>8, <3>2, <4>1, ShrinkEvolves DEF PendingInv, TablesOK
    <3> QED
      BY <3>1, <3>2
  <2> QED
    BY <1>2, <1>8, <2>1 DEF TablesEvolve
<1>10. Queue = t /\ Queue' = u
  BY <1>1, <1>8 DEF Queue, t
<1>11. QueueShrinks
  BY <1>6, <1>10 DEF QueueShrinks
<1>12. QueueTypes'
  BY <1>1, <1>8, FlushesTyped DEF PendingInv, QueueTypes
<1>13. SendsOK'
  BY <1>1 DEF PendingInv, SendsOK, Issued
<1>14. QueueOK'
  <2>1. \A n \in Lifecycle : Issued(n) => Issued(n)'
    BY <1>1 DEF Issued
  <2> QED
    BY <1>11, <2>1, ShrinkQueue DEF PendingInv
<1>15. Served'
  BY <1>1, <1>11, ShrinkServed DEF PendingInv
<1> QED
  BY <1>1, <1>9, <1>12, <1>13, <1>14, <1>15, EvolveTables, FlushesKept DEF PendingInv

-----------------------------------------------------------------------------
(* The theorems *)

LEMMA PendingInitInv == PendingInit => PendingInv
<1> SUFFICES ASSUME PendingInit PROVE PendingInv
  OBVIOUS
<1>1. QueueTypes
  <2>1. session.stream \in Streams \cup {NoStream} /\ session.rev \in Nat
    BY DEF PendingInit
  <2>2. tables \in Seq(Tables) /\ current \in 0..Len(tables)
    BY DEF PendingInit
  <2>3. sends \subseteq Lifecycle /\ handed \subseteq Lifecycle /\ flushes \subseteq Flushes
    BY DEF PendingInit
  <2> QED
    BY <2>1, <2>2, <2>3 DEF PendingInit, QueueTypes
<1>2. TablesOK
  BY DEF PendingInit, TablesOK
<1>3. SendsOK
  BY PendingAssumption DEF PendingInit, SendsOK
<1>4. QueueOK /\ Served
  BY DEF PendingInit, QueueOK, StartsFirst, Queue, Places, Served
<1> QED
  BY <1>1, <1>2, <1>3, <1>4 DEF PendingInv, PendingInit

LEMMA PendingNextInv == PendingInv /\ [PendingNext]_pendingVars => PendingInv'
<1> SUFFICES ASSUME PendingInv, [PendingNext]_pendingVars PROVE PendingInv'
  OBVIOUS
<1>1. CASE \E k \in Streams : StartStream(k)
  BY <1>1, StartStreamKeeps
<1>2. CASE RestartStream
  BY <1>2, RestartStreamKeeps
<1>3. CASE StopStream
  BY <1>3, StopStreamKeeps
<1>4. CASE \E m \in sends : SendDone(m)
  BY <1>4, SendDoneKeeps
<1>5. CASE \E f \in flushes : FlushStep(f)
  BY <1>5, FlushStepKeeps
<1>6. CASE Connect
  BY <1>6, ConnectKeeps
<1>7. CASE Disconnect
  <2>1. Served'
    BY <1>7 DEF Disconnect, Served
  <2> QED
    BY <1>7, <2>1, QuietKeeps DEF Disconnect, PendingInv, QueueTypes
<1>8. CASE \E p \in Peers : PeerUp(p)
  BY <1>8, PeerUpKeeps
<1>9. CASE \E p \in Peers : PeerDown(p)
  <2>1. PICK p \in Peers : PeerDown(p)
    BY <1>9
  <2>2. QueueShrinks
    BY <2>1 DEF PeerDown, QueueShrinks, Queue, Places
  <2>3. Served'
    BY <2>1, <2>2, ShrinkServed DEF PeerDown, PendingInv
  <2> QED
    BY <2>1, <2>3, QuietKeeps DEF PeerDown, PendingInv, QueueTypes
<1>10. CASE TimeToLive
  BY <1>10, TimeToLiveKeeps
<1>11. CASE UNCHANGED pendingVars
  <2>1. QueueShrinks
    BY <1>11 DEF pendingVars, QueueShrinks, Queue, Places
  <2>2. Served'
    BY <1>11, <2>1, ShrinkServed DEF pendingVars, PendingInv
  <2> QED
    BY <1>11, <2>2, QuietKeeps DEF pendingVars, PendingInv, QueueTypes
<1> QED
  BY <1>1, <1>2, <1>3, <1>4, <1>5, <1>6, <1>7, <1>8, <1>9, <1>10, <1>11 DEF PendingNext

LEMMA PendingInvariant == PendingSpec => []PendingInv
BY PendingInitInv, PendingNextInv, PTL DEF PendingSpec

\* A table counts its keys as it counts its places.
LEMMA KeysCount ==
    ASSUME NEW t \in Tables, KeysOnce(t)
    PROVE  Cardinality(KeysOf(t)) = Size(t)
<1> DEFINE f == [i \in Places(t) |-> Key(t[i].msg)]
<1>1. f \in [Places(t) -> KeysOf(t)]
  BY DEF KeysOf
<1>3. f \in Injection(Places(t), KeysOf(t))
  BY <1>1 DEF KeysOnce, Injection, IsInjective
<1>4. f \in Surjection(Places(t), KeysOf(t))
  BY <1>1 DEF KeysOf, Surjection
<1>2. ExistsBijection(Places(t), KeysOf(t))
  BY <1>3, <1>4 DEF ExistsBijection, Bijection
<1> QED
  BY <1>2, PlacesFinite, FS_Bijection DEF Size

\* No queue is ever malformed, holds a key twice or outgrows its maximum, and every flush
\* sends a message, for any streams, peers, flushes and losses.
THEOREM QueuesWellFormed == PendingSpec => []QueueTypeOK
<1>1. PendingInv => QueueTypeOK
  <2> SUFFICES ASSUME PendingInv PROVE QueueTypeOK
    OBVIOUS
  <2>1. ASSUME NEW n \in DOMAIN tables
        PROVE  /\ \A i \in Places(tables[n]) : tables[n][i] \in Slot
               /\ Cardinality(KeysOf(tables[n])) = Size(tables[n])
    <3>1. tables[n] \in Tables /\ KeysOnce(tables[n])
      BY DEF PendingInv, QueueTypes, TablesOK
    <3> QED
      BY <3>1, PlacesFinite, KeysCount
  <2>2. Size(Queue) <= MaxPending
    <3>1. CASE current = 0
      BY <3>1, FS_EmptySet, PendingAssumption DEF Queue, Size, Places
    <3>2. CASE current # 0
      BY <3>2 DEF Queue, PendingInv, QueueTypes, TablesOK
    <3> QED
      BY <3>1, <3>2
  <2>3. \A f \in flushes : f.table \in DOMAIN tables /\ f.sending \in Lifecycle
    BY DEF PendingInv, QueueTypes, FlushOK, Flushes
  <2> QED
    BY <2>1, <2>2, <2>3 DEF QueueTypeOK, PendingInv, QueueTypes
<1> QED
  BY <1>1, PendingInvariant, PTL

\* Once a stop is queued, no start or restart of its stream is queued with it.
THEOREM StopsSupersede == PendingSpec => []StopSupersedes
<1>1. PendingInv => StopSupersedes
  BY DEF PendingInv, QueueOK, Issued, StopSupersedes, Queued
<1> QED
  BY <1>1, PendingInvariant, PTL

\* The queue replays a stream's messages in the order its host issued them.
THEOREM QueueKeepsOrder == PendingSpec => []QueueInOrder
<1>1. PendingInv => QueueInOrder
  <2> SUFFICES ASSUME PendingInv, NEW i \in Places(Queue), NEW j \in Places(Queue), i < j,
                      Queue[i].msg.stream = Queue[j].msg.stream
               PROVE  Queue[i].msg.rev <= Queue[j].msg.rev /\ Queue[j].msg.type # "started"
    BY DEF QueueInOrder
  <2> DEFINE m == Queue[i].msg
             n == Queue[j].msg
  <2>1. m \in Lifecycle /\ Issued(m) /\ n \in Lifecycle /\ Issued(n) /\ n.type # "started"
    BY QueuedIssued DEF PendingInv, QueueOK, StartsFirst
  <2>2. Key(m) # Key(n)
    <3>1. KeysOnce(Queue)
      BY DEF PendingInv, Queue, QueueTypes, TablesOK, KeysOnce, Places
    <3>2. i \in Nat
      BY QueueIsTable, PlacesFinite DEF PendingInv
    <3> QED
      BY <3>1, <3>2 DEF KeysOnce
  <2> HIDE DEF m, n
  <2>3. m.stream = n.stream
    BY DEF m, n
  <2>4. m.type # n.type
    BY <2>2, <2>3 DEF Key
  <2>5. m.rev <= n.rev
    BY <2>1, <2>3, <2>4 DEF Issued, Lifecycle, Types
  <2> QED
    BY <2>1, <2>5 DEF m, n
<1> QED
  BY <1>1, PendingInvariant, PTL

\* While the connection is up, a peer is there and sends succeed, nothing that has not
\* expired is left in the queue once no send and no flush is under way.
THEOREM NothingIsStranded == PendingSpec => []NothingStranded
<1>1. PendingInv => NothingStranded
  BY DEF PendingInv, Served, NothingStranded, Unexpired
<1> QED
  BY <1>1, PendingInvariant, PTL
=============================================================================
