-------------------------- MODULE StreamDiscoveryProofs --------------------------
(***************************************************************************)
(* Stream discovery, for any devices, streams and limits:                   *)
(*   1. what the handlers of the registry preserve;                         *)
(*   2. the invariants of discovery;                                        *)
(*   3. every entry and every message names a session its host published    *)
(*      (OnlyPublishedShown);                                               *)
(*   4. no entry goes back to a session that has been replaced              *)
(*      (RevisionNeverRegresses);                                           *)
(*   5. StreamDiscovery implements StreamLife;                              *)
(*   6. what a device has seen stop does not come back to it                *)
(*      (NoResurrection).                                                   *)
(***************************************************************************)
EXTENDS StreamDiscovery, FiniteSetTheorems, TLAPS

-----------------------------------------------------------------------------
(****************************************************************************)
(* 1. The registry                                                          *)
(****************************************************************************)
\* The three maps agree about stream k.
Agree(r, k) ==
    /\ Tombstoned(r, k) => r.streams[k] = NoEntry
    /\ r.sequences[k] = IF r.streams[k] = NoEntry THEN NoSequence
                        ELSE r.streams[k].ann.seq

Sound(r) == r \in Registry /\ \A k \in Streams : Agree(r, k)

\* A registry is made of three maps: what the class keeps is what its
\* components keep.
LEMMA MakeRegistry ==
    ASSUME NEW S \in [Streams -> Entry \cup {NoEntry}],
           NEW T \in [Streams -> Nat \cup {NoTime}],
           NEW Q \in [Streams -> Nat \cup {NoSequence}]
    PROVE  [streams |-> S, tombstones |-> T, sequences |-> Q] \in Registry
BY DEF Registry

\* The constructor leaves a sound registry.
LEMMA EmptySound == Sound(EmptyRegistry)
BY DEF Sound, Agree, EmptyRegistry, Registry, Tombstoned, NoTime, NoSequence

\* Writing an announcement keeps a registry sound where no tombstone lies.
LEMMA PutSound ==
    ASSUME NEW r, Sound(r), NEW k \in Streams, NEW a \in Announcement, ~Tombstoned(r, k)
    PROVE  Sound(Put(r, k, a))
<1> DEFINE p == Put(r, k, a)
<1>1. [ann |-> a, age |-> 0] \in Entry
  BY DEF Entry
<1>2. a.seq \in Nat
  BY DEF Announcement
<1>3. p \in Registry
  BY <1>1, <1>2 DEF Sound, Registry, Put
<1>4. ASSUME NEW j \in Streams PROVE Agree(p, j)
  BY <1>1, <1>2, EntryAssumption DEF Sound, Registry, Put, Agree, Tombstoned
<1> QED
  BY <1>3, <1>4 DEF Sound

-----------------------------------------------------------------------------
\* Where no stream lies under its tombstone, lifting one keeps a registry sound.
LEMMA UnburySound ==
    ASSUME NEW r, Sound(r), NEW k \in Streams
    PROVE  Sound([r EXCEPT !.tombstones[k] = NoTime])
<1> DEFINE u == [r EXCEPT !.tombstones[k] = NoTime]
<1>1. u \in Registry
  BY DEF Sound, Registry
<1>2. ASSUME NEW j \in Streams PROVE Agree(u, j)
  BY DEF Sound, Registry, Agree, Tombstoned
<1> QED
  BY <1>1, <1>2 DEF Sound

\* Burying a stream removes its entry, its sequence and leaves the tombstone.
LEMMA BurySound ==
    ASSUME NEW r, Sound(r), NEW k \in Streams
    PROVE  Sound(Bury(r, k))
<1> DEFINE b == Bury(r, k)
<1>1. b \in Registry
  BY DEF Sound, Registry, Bury, NoTime, NoSequence
<1>2. ASSUME NEW j \in Streams PROVE Agree(b, j)
  BY DEF Sound, Registry, Bury, Agree, Tombstoned, NoTime, NoSequence
<1> QED
  BY <1>1, <1>2 DEF Sound

\* stream.started and stream.restarted leave a registry sound.
LEMMA HandleStartedSound ==
    ASSUME NEW r, Sound(r), NEW k \in Streams, NEW a \in Announcement, NEW replaces
    PROVE  Sound(HandleStarted(r, k, a, replaces))
<1> DEFINE u == [r EXCEPT !.tombstones[k] = NoTime]
<1>1. Sound(u)
  BY UnburySound
<1>2. ~Tombstoned(u, k)
  BY DEF Sound, Registry, Tombstoned
<1>3. Sound(Put(u, k, a))
  BY <1>1, <1>2, PutSound
<1> QED
  BY <1>1, <1>3 DEF HandleStarted

\* So does the host's own registration, which unburies the stream.
LEMMA RegisterLocalStreamSound ==
    ASSUME NEW r, Sound(r), NEW k \in Streams, NEW a \in Announcement
    PROVE  Sound(RegisterLocalStream(r, k, a))
<1> DEFINE u == [r EXCEPT !.tombstones[k] = NoTime]
<1>1. Sound(u)
  BY UnburySound
<1>2. ~Tombstoned(u, k)
  BY DEF Sound, Registry, Tombstoned
<1> QED
  BY <1>1, <1>2, PutSound DEF RegisterLocalStream

\* stream.stopped trades an entry for its tombstone.
LEMMA HandleStoppedSound ==
    ASSUME NEW r, Sound(r), NEW k \in Streams
    PROVE  Sound(HandleStopped(r, k))
BY BurySound DEF HandleStopped

\* A heartbeat is a Put of the same announcement with a later sequence.
LEMMA HandleHeartbeatSound ==
    ASSUME NEW r, Sound(r), NEW k \in Streams, NEW seq \in Nat
    PROVE  Sound(HandleHeartbeat(r, k, seq))
<1> DEFINE a == [r.streams[k].ann EXCEPT !.seq = seq]
<1>1. CASE Tombstoned(r, k) \/ seq <= r.sequences[k] \/ r.streams[k] = NoEntry
  BY <1>1 DEF HandleHeartbeat
<1>2. CASE ~(Tombstoned(r, k) \/ seq <= r.sequences[k] \/ r.streams[k] = NoEntry)
  <2>1. r \in Registry /\ r.streams[k] \in Entry
    BY <1>2 DEF Sound, Registry
  <2>2. a \in Announcement /\ a.seq = seq
    BY <2>1 DEF Entry, Announcement
  <2>3. HandleHeartbeat(r, k, seq) = Put(r, k, a)
    BY <1>2, <2>1, <2>2 DEF HandleHeartbeat, Put, Registry
  <2> QED
    BY <1>2, <2>2, <2>3, PutSound
<1> QED
  BY <1>1, <1>2

\* New permissions touch the entry, not its sequence.
LEMMA UpdateInputPermissionsSound ==
    ASSUME NEW r, Sound(r), NEW k \in Streams, NEW p \in Permissions
    PROVE  Sound(UpdateInputPermissions(r, k, p))
<1> DEFINE u == [r EXCEPT !.streams[k].ann.perms = p]
<1>1. CASE k \notin Visible(r)
  BY <1>1 DEF UpdateInputPermissions
<1>2. CASE k \in Visible(r)
  <2>1. r.streams[k] \in Entry /\ ~Tombstoned(r, k)
    BY <1>2 DEF Visible, Sound, Registry
  <2>2. [r.streams[k] EXCEPT !.ann.perms = p] \in Entry
    BY <2>1 DEF Entry, Announcement
  <2>3. u \in Registry
    BY <2>1, <2>2 DEF Sound, Registry
  <2>4. ASSUME NEW j \in Streams PROVE Agree(u, j)
    BY <2>1, <2>2, EntryAssumption DEF Sound, Registry, Agree, Tombstoned, Entry, Announcement
  <2> QED
    BY <1>2, <2>3, <2>4 DEF Sound, UpdateInputPermissions
<1> QED
  BY <1>1, <1>2

-----------------------------------------------------------------------------
\* The answer to a query is a list of announcements.
LEMMA StreamsByGroupIsSnapshot ==
    ASSUME NEW r, Sound(r)
    PROVE  StreamsByGroup(r) \in Snapshot
<1>1. ASSUME NEW k \in Visible(r) PROVE r.streams[k].ann \in Announcement
  BY <1>1 DEF Visible, Sound, Registry, Entry
<1> QED
  BY <1>1 DEF StreamsByGroup, Snapshot

\* A relayed list, whichever of its streams are taken.
LEMMA HandleSnapshotSound ==
    ASSUME NEW r, Sound(r), NEW snap \in Snapshot
    PROVE  Sound(HandleSnapshot(r, snap))
<1> DEFINE taken == {k \in Listed(snap) : TakesSnapshot(r, k, snap[k])}
           S == [k \in Streams |-> IF k \in taken THEN [ann |-> snap[k], age |-> 0]
                                                  ELSE r.streams[k]]
           Q == [k \in Streams |-> IF k \in taken THEN snap[k].seq ELSE r.sequences[k]]
           h == [streams |-> S, sequences |-> Q, tombstones |-> r.tombstones]
<1>1. HandleSnapshot(r, snap) = h
  BY DEF HandleSnapshot
<1>2. ASSUME NEW k \in taken
      PROVE  /\ snap[k] \in Announcement
             /\ snap[k].seq \in Nat
             /\ [ann |-> snap[k], age |-> 0] \in Entry
             /\ ~Tombstoned(r, k)
  BY <1>2 DEF Listed, Snapshot, Announcement, Entry, TakesSnapshot
<1>3. S \in [Streams -> Entry \cup {NoEntry}] /\ Q \in [Streams -> Nat \cup {NoSequence}]
  BY <1>2 DEF Sound, Registry
<1>4. h \in Registry
  BY <1>3, MakeRegistry DEF Sound, Registry
<1>5. ASSUME NEW k \in Streams PROVE Agree(h, k)
  <2>1. CASE k \in taken
    BY <1>2, <2>1, EntryAssumption DEF Agree, Tombstoned
  <2>2. CASE k \notin taken
    BY <2>2 DEF Agree, Tombstoned, Sound
  <2> QED
    BY <2>1, <2>2
<1> QED
  BY <1>1, <1>4, <1>5 DEF Sound

\* A refresh forgets entries together with their sequences.
LEMMA ClearGroupStreamsSound ==
    ASSUME NEW r, Sound(r), NEW keep
    PROVE  Sound(ClearGroupStreams(r, keep))
<1> DEFINE c == ClearGroupStreams(r, keep)
<1>1. c \in Registry
  BY DEF Sound, Registry, ClearGroupStreams
<1>2. ASSUME NEW k \in Streams PROVE Agree(c, k)
  BY DEF Sound, Registry, Agree, Tombstoned, ClearGroupStreams
<1> QED
  BY <1>1, <1>2 DEF Sound

\* The periodic check, in its three parts.
LEMMA ExpireStreamsSound ==
    ASSUME NEW r, Sound(r)
    PROVE  Sound(ExpireStreams(r))
<1> DEFINE e == ExpireStreams(r)
<1>1. e \in Registry
  BY DEF Sound, Registry, ExpireStreams
<1>2. ASSUME NEW k \in Streams PROVE Agree(e, k)
  BY DEF Sound, Registry, Agree, Tombstoned, ExpireStreams, NoTime
<1> QED
  BY <1>1, <1>2 DEF Sound

\* Removing tombstones disturbs nothing else.
LEMMA DropOldTombstonesSound ==
    ASSUME NEW r, Sound(r)
    PROVE  Sound(DropOldTombstones(r))
<1> DEFINE d == DropOldTombstones(r)
<1>1. d \in Registry
  BY DEF Sound, Registry, DropOldTombstones
<1>2. ASSUME NEW k \in Streams PROVE Agree(d, k)
  BY DEF Sound, Registry, Agree, Tombstoned, DropOldTombstones
<1> QED
  BY <1>1, <1>2 DEF Sound

\* Whichever of the oldest tombstones are evicted.
LEMMA EvictSound ==
    ASSUME NEW r, Sound(r), NEW gone
    PROVE  Sound(Evict(r, gone))
<1> DEFINE e == Evict(r, gone)
<1>1. e \in Registry
  BY DEF Sound, Registry, Evict
<1>2. ASSUME NEW k \in Streams PROVE Agree(e, k)
  BY DEF Sound, Registry, Agree, Tombstoned, Evict
<1> QED
  BY <1>1, <1>2 DEF Sound

\* Ages stay natural numbers, and so does a registry that ages stay sound.
LEMMA OlderInNat ==
    ASSUME NEW age \in Nat, NEW sessions \in Nat
    PROVE  Older(age, sessions) \in Nat
BY DEF Older

\* A registry stays sound while a period passes.
LEMMA AgeRegistrySound ==
    ASSUME NEW r, Sound(r)
    PROVE  Sound(AgeRegistry(r))
<1> DEFINE S == [k \in Streams |-> IF r.streams[k] = NoEntry THEN NoEntry
                   ELSE [ann |-> r.streams[k].ann,
                         age |-> Older(r.streams[k].age, ExpiryAge)]]
           T == [k \in Streams |-> IF r.tombstones[k] = NoTime THEN NoTime
                   ELSE Older(r.tombstones[k], TombstoneMaxAge)]
           g == [streams |-> S, tombstones |-> T, sequences |-> r.sequences]
<1>1. AgeRegistry(r) = g
  BY DEF AgeRegistry
<1>2. ASSUME NEW k \in Streams, r.streams[k] # NoEntry
      PROVE  /\ S[k] \in Entry
             /\ S[k].ann = r.streams[k].ann
  <2>1. r.streams[k] \in Entry /\ r.streams[k].age \in Nat
    BY <1>2 DEF Sound, Registry, Entry
  <2>2. Older(r.streams[k].age, ExpiryAge) \in Nat
    BY <2>1, OlderInNat, RegistryAssumption
  <2> QED
    BY <1>2, <2>1, <2>2 DEF Entry
<1>3. ASSUME NEW k \in Streams, r.tombstones[k] # NoTime
      PROVE  T[k] \in Nat
  BY <1>3, OlderInNat, RegistryAssumption DEF Sound, Registry
<1>4. g \in Registry
  <2>1. S \in [Streams -> Entry \cup {NoEntry}]
    BY <1>2
  <2>2. T \in [Streams -> Nat \cup {NoTime}]
    BY <1>3
  <2> QED
    BY <2>1, <2>2, MakeRegistry DEF Sound, Registry
<1>5. ASSUME NEW k \in Streams PROVE Agree(g, k)
  BY <1>2, <1>3, EntryAssumption DEF Sound, Registry, Agree, Tombstoned
<1> QED
  BY <1>1, <1>4, <1>5 DEF Sound

-----------------------------------------------------------------------------
(****************************************************************************)
(* 2. Discovery                                                             *)
(****************************************************************************)
Sharing == {"starting", "active", "restarting"}

\* A session that shares or is about to has a stream of its host, and its media
\* can be published but not announced only while it restarts.
HostNamed ==
    \A h \in Devices :
       /\ host[h].state \in Sharing => /\ host[h].stream \in Streams
                                       /\ Owner[host[h].stream] = h
       /\ host[h].published => host[h].state = "restarting"
       /\ host[h].session = host[h].revision

AllSound == \A d \in Devices : Sound(registry[d])

\* What every step preserves: types alone are not enough, since a handler that
\* writes an entry relies on the maps agreeing and a host that sends on its
\* session having a stream.
DiscoveryInv == TypeOK /\ HostNamed /\ AllSound

-----------------------------------------------------------------------------
\* What the helpers on host sessions return.
LEMMA BuildAnnouncementType ==
    ASSUME NEW s \in HostState
    PROVE  BuildAnnouncement(s) \in Announcement
BY DEF BuildAnnouncement, Announcement, HostState

\* A new media session changes the identifiers and nothing else.
LEMMA NextSessionType ==
    ASSUME NEW s \in HostState
    PROVE  /\ NextSession(s) \in HostState
           /\ NextSession(s).state = s.state
           /\ NextSession(s).stream = s.stream
           /\ NextSession(s).published = s.published
           /\ NextSession(s).session = s.session + 1
           /\ NextSession(s).revision = s.revision + 1
<1>1. s.session + 1 \in Nat /\ s.revision + 1 \in Nat /\ 0 \in Nat
  BY DEF HostState
<1> QED
  BY <1>1 DEF NextSession, HostState

\* Giving up a stream keeps the identifiers.
LEMMA WithoutStreamType ==
    ASSUME NEW s \in HostState, NEW state \in SessionState
    PROVE  /\ WithoutStream(s, state) \in HostState
           /\ WithoutStream(s, state).state = state
           /\ WithoutStream(s, state).published = s.published
           /\ WithoutStream(s, state).session = s.session
           /\ WithoutStream(s, state).revision = s.revision
BY DiscoveryAssumption DEF WithoutStream, HostState

\* Replacing one registry by a sound one keeps the registries sound.
LEMMA OneRegistry ==
    ASSUME DiscoveryInv, NEW d \in Devices, NEW r, Sound(r),
           registry' = [registry EXCEPT ![d] = r]
    PROVE  registry' \in [Devices -> Registry] /\ AllSound'
BY DEF DiscoveryInv, TypeOK, AllSound, Sound

\* The inductive invariant holds initially; then one lemma per action keeps it.
LEMMA InitInv == Init => DiscoveryInv
<1> SUFFICES ASSUME Init PROVE DiscoveryInv
  OBVIOUS
<1>1. AllSound
  BY EmptySound DEF Init, AllSound
<1>2. TypeOK
  BY EmptySound, RegistryAssumption, DiscoveryAssumption DEF Init, TypeOK, Sound, HostState,
    SessionState, Never
<1>3. HostNamed
  BY DEF Init, HostNamed, Sharing
<1> QED
  BY <1>1, <1>2, <1>3 DEF DiscoveryInv

LEMMA PublishStartedInv ==
    ASSUME DiscoveryInv, NEW h \in Devices, NEW k \in Streams,
           NEW p \in Permissions, PublishStarted(h, k, p)
    PROVE  DiscoveryInv'
<1> USE DEF DiscoveryInv, TypeOK
<1> DEFINE s == [NextSession(host[h]) EXCEPT !.state = "starting", !.stream = k,
                                             !.perms = p]
           n == NextSession(host[h])
<1>1. n \in HostState /\ n.published = host[h].published
      /\ n.session = host[h].session + 1 /\ n.revision = host[h].revision + 1
  BY NextSessionType
<1>2. s \in HostState /\ s.state = "starting" /\ s.stream = k /\ s.published = n.published
      /\ s.session = n.session /\ s.revision = n.revision
  BY <1>1 DEF HostState, SessionState
<1>3. /\ host' = [host EXCEPT ![h] = s]
      /\ registry' = [registry EXCEPT ![h] =
              RegisterLocalStream(registry[h], k, BuildAnnouncement(s))]
      /\ host[h].state \in {"idle", "failed"} /\ Owner[k] = h
      /\ unused' \in SUBSET Streams
      /\ aired' = [aired EXCEPT ![k] = aired[k] \cup {s.session}]
      /\ UNCHANGED <<net, due, refreshes, heard, retired>>
  BY DEF PublishStarted
<1>4. Sound(RegisterLocalStream(registry[h], k, BuildAnnouncement(s)))
  BY <1>2, BuildAnnouncementType, RegisterLocalStreamSound DEF AllSound
<1>5. registry' \in [Devices -> Registry] /\ AllSound'
  BY <1>3, <1>4, OneRegistry
<1>6. host' \in [Devices -> HostState]
  BY <1>2, <1>3
<1>7. HostNamed'
  BY <1>2, <1>1, <1>3 DEF HostNamed, Sharing
<1>8. aired' \in [Streams -> SUBSET Nat]
  <2>1. s.session \in Nat
    BY <1>2 DEF HostState
  <2> QED
    BY <1>3, <2>1
<1> QED
  BY <1>3, <1>5, <1>6, <1>7, <1>8

LEMMA StartFailsInv ==
    ASSUME DiscoveryInv, NEW h \in Devices, NEW k \in Streams, StartFails(h, k)
    PROVE  DiscoveryInv'
<1> USE DEF DiscoveryInv, TypeOK
<1> DEFINE n == NextSession(host[h])
           s == WithoutStream(n, "failed")
<1>1. n \in HostState /\ n.published = host[h].published
      /\ n.session = host[h].session + 1 /\ n.revision = host[h].revision + 1
  BY NextSessionType
<1>2. s \in HostState /\ s.state = "failed" /\ s.published = n.published
      /\ s.session = n.session /\ s.revision = n.revision
  BY <1>1, WithoutStreamType DEF SessionState
<1>3. /\ host' = [host EXCEPT ![h] = s]
      /\ host[h].state \in {"idle", "failed"}
      /\ unused' \in SUBSET Streams
      /\ UNCHANGED <<registry, net, due, refreshes, heard, retired, aired>>
  BY DEF StartFails, history
<1>4. HostNamed'
  BY <1>1, <1>2, <1>3 DEF HostNamed, Sharing
<1> QED
  BY <1>2, <1>3, <1>4 DEF AllSound

LEMMA AnnounceInv ==
    ASSUME DiscoveryInv, NEW h \in Devices, Announce(h)
    PROVE  DiscoveryInv'
<1> USE DEF DiscoveryInv, TypeOK
<1>1. host[h] \in HostState /\ host[h].stream \in Streams /\ Owner[host[h].stream] = h
  BY DEF Announce, HostNamed, Sharing
<1>2. BuildAnnouncement(host[h]) \in Announcement
  BY <1>1, BuildAnnouncementType
<1>3. PICK S \in Reachable(h) :
         net' = net \cup {[type |-> "started", to |-> p, stream |-> host[h].stream,
                           ann |-> BuildAnnouncement(host[h]),
                           replaces |-> host[h].published] : p \in S}
  BY DEF Announce, Send
<1>4. S \subseteq Devices
  BY <1>3 DEF Reachable, Others
<1>5. net' \in SUBSET Message
  <2>1. ASSUME NEW p \in Devices
        PROVE  [type |-> "started", to |-> p, stream |-> host[h].stream,
                ann |-> BuildAnnouncement(host[h]),
                replaces |-> host[h].published] \in Message
    BY <1>1, <1>2 DEF HostState, Message
  <2> QED
    BY <1>3, <1>4, <2>1
<1>6. /\ host' = [host EXCEPT ![h].state = "active", ![h].published = FALSE]
      /\ UNCHANGED <<registry, unused, due, refreshes, heard, retired, aired>>
  BY DEF Announce, history
<1>7. host' \in [Devices -> HostState]
  BY <1>1, <1>6 DEF HostState, SessionState
<1>8. HostNamed'
  BY <1>1, <1>6 DEF HostNamed, Sharing, HostState
<1> QED
  BY <1>5, <1>6, <1>7, <1>8 DEF AllSound

LEMMA BeginRestartInv ==
    ASSUME DiscoveryInv, NEW h \in Devices, BeginRestart(h)
    PROVE  DiscoveryInv'
<1> USE DEF DiscoveryInv, TypeOK
<1> DEFINE n == NextSession(host[h])
           s == [n EXCEPT !.state = "restarting"]
<1>1. n \in HostState /\ n.stream = host[h].stream
      /\ n.session = host[h].session + 1 /\ n.revision = host[h].revision + 1
  BY NextSessionType
<1>2. s \in HostState /\ s.state = "restarting" /\ s.stream = n.stream
      /\ s.session = n.session /\ s.revision = n.revision
  BY <1>1 DEF HostState, SessionState
<1>3. /\ host' = [host EXCEPT ![h] = s]
      /\ host[h].state = "active"
      /\ due' \in SUBSET Timers
      /\ UNCHANGED <<registry, unused, net, refreshes, heard, retired, aired>>
  BY DEF BeginRestart, history
<1>4. HostNamed'
  BY <1>1, <1>2, <1>3 DEF HostNamed, Sharing
<1> QED
  BY <1>2, <1>3, <1>4 DEF AllSound

\* Registering the announcement of a named session is sound.
LEMMA RegisterOwnSound ==
    ASSUME DiscoveryInv, NEW h \in Devices, host[h].stream \in Streams
    PROVE  Sound(RegisterLocalStream(registry[h], host[h].stream, BuildAnnouncement(host[h])))
<1>1. host[h] \in HostState /\ Sound(registry[h])
  BY DEF DiscoveryInv, TypeOK, AllSound
<1> QED
  BY <1>1, BuildAnnouncementType, RegisterLocalStreamSound

LEMMA PublishRestartedInv ==
    ASSUME DiscoveryInv, NEW h \in Devices, PublishRestarted(h)
    PROVE  DiscoveryInv'
<1> USE DEF DiscoveryInv, TypeOK
<1>1. host[h] \in HostState /\ host[h].state = "restarting" /\ host[h].stream \in Streams
  BY DEF PublishRestarted, HostNamed, Sharing
<1>2. /\ registry' = [registry EXCEPT ![h] =
            RegisterLocalStream(registry[h], host[h].stream, BuildAnnouncement(host[h]))]
      /\ host' = [host EXCEPT ![h].published = TRUE]
      /\ aired' = [aired EXCEPT ![host[h].stream] = @ \cup {host[h].session}]
      /\ UNCHANGED <<unused, net, due, refreshes, heard, retired>>
  BY DEF PublishRestarted
<1>3. registry' \in [Devices -> Registry] /\ AllSound'
  BY <1>1, <1>2, RegisterOwnSound, OneRegistry
<1>4. host' \in [Devices -> HostState] /\ HostNamed'
  BY <1>1, <1>2 DEF HostState, HostNamed, Sharing
<1>5. aired' \in [Streams -> SUBSET Nat]
  BY <1>1, <1>2 DEF HostState
<1> QED
  BY <1>2, <1>3, <1>4, <1>5

LEMMA RestartFailsInv ==
    ASSUME DiscoveryInv, NEW h \in Devices, RestartFails(h)
    PROVE  DiscoveryInv'
<1> USE DEF DiscoveryInv, TypeOK
<1> DEFINE s == WithoutStream(host[h], "failed")
<1>1. s \in HostState /\ s.state = "failed" /\ s.published = host[h].published
      /\ s.session = host[h].session /\ s.revision = host[h].revision
  BY WithoutStreamType DEF SessionState
<1>2. /\ host' = [host EXCEPT ![h] = s]
      /\ host[h].state = "restarting" /\ ~host[h].published
      /\ UNCHANGED <<registry, unused, net, due, refreshes, heard, retired, aired>>
  BY DEF RestartFails, history
<1>3. HostNamed'
  BY <1>1, <1>2 DEF HostNamed, Sharing
<1> QED
  BY <1>1, <1>2, <1>3 DEF AllSound

LEMMA StopInv ==
    ASSUME DiscoveryInv, NEW h \in Devices, Stop(h)
    PROVE  DiscoveryInv'
<1> USE DEF DiscoveryInv, TypeOK
<1> DEFINE s == WithoutStream(host[h], "idle")
           k == host[h].stream
<1>1. s \in HostState /\ s.state = "idle" /\ s.published = host[h].published
      /\ s.session = host[h].session /\ s.revision = host[h].revision
  BY WithoutStreamType DEF SessionState
<1>2. /\ host' = [host EXCEPT ![h] = s]
      /\ host[h].state \in {"active", "failed"}
      /\ due' \in SUBSET Timers
      /\ UNCHANGED <<unused, refreshes, heard, aired>>
  BY DEF Stop
<1>3. host' \in [Devices -> HostState] /\ HostNamed'
  BY <1>1, <1>2 DEF HostNamed, Sharing
<1>4. CASE k = NoStream
  <2>1. UNCHANGED <<registry, net, retired>>
    BY <1>4 DEF Stop
  <2> QED
    BY <1>2, <1>3, <2>1 DEF AllSound
<1>5. CASE k # NoStream
  <2>1. k \in Streams
    BY <1>5 DEF HostState
  <2>2. registry' = [registry EXCEPT ![h] = HandleStopped(registry[h], k)]
        /\ retired' = [retired EXCEPT ![h] = retired[h] \cup {k}]
    BY <1>5 DEF Stop
  <2>3. registry' \in [Devices -> Registry] /\ AllSound'
    BY <2>1, <2>2, HandleStoppedSound, OneRegistry DEF AllSound
  <2>4. PICK S \in Reachable(h) :
           net' = net \cup {[type |-> "stopped", to |-> p, stream |-> k] : p \in S}
    BY <1>5 DEF Stop, Send
  <2>5. S \subseteq Devices
    BY <2>4 DEF Reachable, Others
  <2>6. net' \in SUBSET Message
    BY <2>1, <2>4, <2>5 DEF Message
  <2> QED
    BY <1>2, <1>3, <2>1, <2>2, <2>3, <2>6
<1> QED
  BY <1>4, <1>5

LEMMA RegisterAgainInv ==
    ASSUME DiscoveryInv, NEW h \in Devices, RegisterAgain(h)
    PROVE  DiscoveryInv'
<1> USE DEF DiscoveryInv, TypeOK
<1>1. host[h].stream \in Streams
  BY DEF RegisterAgain, HostNamed, Sharing
<1>2. /\ registry' = [registry EXCEPT ![h] =
            RegisterLocalStream(registry[h], host[h].stream, BuildAnnouncement(host[h]))]
      /\ UNCHANGED <<host, unused, net, due, refreshes, heard, retired, aired>>
  BY DEF RegisterAgain, history
<1>3. registry' \in [Devices -> Registry] /\ AllSound'
  BY <1>1, <1>2, RegisterOwnSound, OneRegistry
<1> QED
  BY <1>2, <1>3 DEF HostNamed

LEMMA SetInputPermissionsInv ==
    ASSUME DiscoveryInv, NEW h \in Devices, NEW p \in Permissions, SetInputPermissions(h, p)
    PROVE  DiscoveryInv'
<1> USE DEF DiscoveryInv, TypeOK
<1> DEFINE k == host[h].stream
<1>1. k \in Streams
  BY DEF SetInputPermissions, HostNamed, Sharing
<1>2. /\ host' = [host EXCEPT ![h].perms = p]
      /\ registry' = [registry EXCEPT ![h] = UpdateInputPermissions(registry[h], k, p)]
      /\ UNCHANGED <<unused, due, refreshes, heard, retired, aired>>
  BY DEF SetInputPermissions, history
<1>3. registry' \in [Devices -> Registry] /\ AllSound'
  BY <1>1, <1>2, UpdateInputPermissionsSound, OneRegistry DEF AllSound
<1>4. host' \in [Devices -> HostState] /\ HostNamed'
  <2>1. host' \in [Devices -> HostState]
    BY <1>2 DEF HostState
  <2> QED
    BY <1>2, <2>1 DEF HostState, HostNamed, Sharing
<1>5. net' \in SUBSET Message
  <2>1. CASE host[h].state = "active"
    <3>1. PICK S \in Reachable(h) :
             net' = net \cup {[type |-> "permissions", to |-> q, stream |-> k,
                               perms |-> p] : q \in S}
      BY <2>1 DEF SetInputPermissions, Send
    <3>2. S \subseteq Devices
      BY <3>1 DEF Reachable, Others
    <3> QED
      BY <1>1, <3>1, <3>2 DEF Message
  <2>2. CASE host[h].state # "active"
    BY <2>2 DEF SetInputPermissions
  <2> QED
    BY <2>1, <2>2
<1> QED
  BY <1>2, <1>3, <1>4, <1>5

LEMMA SendHeartbeatInv ==
    ASSUME DiscoveryInv, NEW h \in Devices, SendHeartbeat(h)
    PROVE  DiscoveryInv'
<1> USE DEF DiscoveryInv, TypeOK
<1>1. host[h] \in HostState /\ host[h].stream \in Streams
  BY DEF SendHeartbeat, HostNamed, Sharing
<1>2. host[h].session \in Nat /\ host[h].seq + 1 \in Nat
  BY <1>1 DEF HostState
<1>3. /\ host' = [host EXCEPT ![h].seq = host[h].seq + 1]
      /\ due' \in SUBSET Timers
      /\ UNCHANGED <<registry, unused, refreshes, heard, retired, aired>>
  BY DEF SendHeartbeat, Fire, history
<1>4. host' \in [Devices -> HostState] /\ HostNamed'
  BY <1>1, <1>2, <1>3 DEF HostState, HostNamed, Sharing
<1>5. PICK S \in Reachable(h) :
         net' = net \cup {[type |-> "heartbeat", to |-> p, stream |-> host[h].stream,
                           session |-> host[h].session, seq |-> host[h].seq + 1] : p \in S}
  BY DEF SendHeartbeat, Send
<1>6. S \subseteq Devices
  BY <1>5 DEF Reachable, Others
<1>7. net' \in SUBSET Message
  BY <1>1, <1>2, <1>5, <1>6 DEF Message
<1> QED
  BY <1>3, <1>4, <1>7 DEF AllSound

LEMMA SendReannounceInv ==
    ASSUME DiscoveryInv, NEW h \in Devices, SendReannounce(h)
    PROVE  DiscoveryInv'
<1> USE DEF DiscoveryInv, TypeOK
<1> DEFINE snap == [k \in Streams |-> IF k = host[h].stream
                                      THEN BuildAnnouncement(host[h]) ELSE NoEntry]
<1>1. host[h] \in HostState
  OBVIOUS
<1>2. snap \in Snapshot
  BY <1>1, BuildAnnouncementType DEF Snapshot
<1>3. PICK S \in Reachable(h) :
         net' = net \cup {[type |-> "snapshot", to |-> p, streams |-> snap] : p \in S}
  BY DEF SendReannounce, Send
<1>4. S \subseteq Devices
  BY <1>3 DEF Reachable, Others
<1> HIDE DEF snap
<1>5. net' \in SUBSET Message
  BY <1>2, <1>3, <1>4 DEF Message
<1> QED
  BY <1>5 DEF SendReannounce, history, AllSound, HostNamed

LEMMA PeerOnlineInv ==
    ASSUME DiscoveryInv, NEW d \in Devices, NEW p \in Devices, PeerOnline(d, p)
    PROVE  DiscoveryInv'
<1> USE DEF DiscoveryInv, TypeOK
<1> DEFINE answer == [type |-> "snapshot", to |-> p, streams |-> StreamsByGroup(registry[d])]
           request == [type |-> "request", to |-> p, from |-> d]
<1>1. StreamsByGroup(registry[d]) \in Snapshot
  BY StreamsByGroupIsSnapshot DEF AllSound
<1>2. answer \in Message /\ request \in Message
  BY <1>1 DEF Message
<1>3. net' \subseteq net \cup {answer, request}
  BY DEF PeerOnline, Send
<1>4. net' \in SUBSET Message
  BY <1>2, <1>3
<1> QED
  BY <1>4 DEF PeerOnline, history, AllSound, HostNamed

LEMMA RequestGroupSyncInv ==
    ASSUME DiscoveryInv, NEW d \in Devices, RequestGroupSync(d)
    PROVE  DiscoveryInv'
<1> USE DEF DiscoveryInv, TypeOK
<1> DEFINE r == ClearGroupStreams(registry[d], {k \in Streams : Owner[k] = d})
<1>1. Sound(r)
  BY ClearGroupStreamsSound DEF AllSound
<1>2. registry' = [registry EXCEPT ![d] = r]
  BY DEF RequestGroupSync
<1>3. registry' \in [Devices -> Registry] /\ AllSound'
  BY <1>1, <1>2, OneRegistry
<1>4. PICK S \in Reachable(d) :
         net' = net \cup {[type |-> "request", to |-> p, from |-> d] : p \in S}
  BY DEF RequestGroupSync, Send
<1>5. S \subseteq Devices
  BY <1>4 DEF Reachable, Others
<1>6. net' \in SUBSET Message
  BY <1>4, <1>5 DEF Message
<1> QED
  BY <1>3, <1>6 DEF RequestGroupSync, history, HostNamed

\* Whatever message is delivered, the receiver's registry stays sound.
LEMMA HandleSound ==
    ASSUME NEW r, Sound(r), NEW m \in Message
    PROVE  Sound(Handle(r, m))
<1>1. CASE m.type = "started"
  <2>1. m.stream \in Streams /\ m.ann \in Announcement
    BY <1>1 DEF Message
  <2> QED
    BY <1>1, <2>1, HandleStartedSound DEF Handle
<1>2. CASE m.type = "heartbeat"
  <2>1. m.stream \in Streams /\ m.seq \in Nat
    BY <1>2 DEF Message
  <2> QED
    BY <1>2, <2>1, HandleHeartbeatSound DEF Handle
<1>3. CASE m.type = "stopped"
  <2>1. m.stream \in Streams
    BY <1>3 DEF Message
  <2> QED
    BY <1>3, <2>1, HandleStoppedSound DEF Handle
<1>4. CASE m.type = "permissions"
  <2>1. m.stream \in Streams /\ m.perms \in Permissions
    BY <1>4 DEF Message
  <2> QED
    BY <1>4, <2>1, UpdateInputPermissionsSound DEF Handle
<1>5. CASE m.type = "snapshot"
  <2>1. m.streams \in Snapshot
    BY <1>5 DEF Message
  <2> QED
    BY <1>5, <2>1, HandleSnapshotSound DEF Handle
<1>6. CASE m.type = "request"
  BY <1>6 DEF Handle
<1> QED
  BY <1>1, <1>2, <1>3, <1>4, <1>5, <1>6 DEF Message

LEMMA DeliverInv ==
    ASSUME DiscoveryInv, NEW m \in net, Deliver(m)
    PROVE  DiscoveryInv'
<1> USE DEF DiscoveryInv, TypeOK
<1>1. m \in Message /\ m.to \in Devices
  BY DEF Message
<1>2. registry' = [registry EXCEPT ![m.to] = Handle(registry[m.to], m)]
  BY DEF Deliver
<1>3. registry' \in [Devices -> Registry] /\ AllSound'
  BY <1>1, <1>2, HandleSound, OneRegistry DEF AllSound
<1>4. net' \in SUBSET Message
  <2>1. CASE m.type = "request"
    <3> DEFINE answer == [type |-> "snapshot", to |-> m.from,
                          streams |-> StreamsByGroup(registry[m.to])]
    <3>1. StreamsByGroup(registry[m.to]) \in Snapshot
      BY <1>1, StreamsByGroupIsSnapshot DEF AllSound
    <3>2. m.from \in Devices
      BY <1>1, <2>1 DEF Message
    <3>3. answer \in Message
      BY <3>1, <3>2 DEF Message
    <3>4. net' = (net \ {m}) \cup {answer}
      BY <2>1 DEF Deliver
    <3> QED
      BY <3>3, <3>4
  <2>2. CASE m.type # "request"
    BY <2>2 DEF Deliver
  <2> QED
    BY <2>1, <2>2
<1>5. heard' \in [Devices -> [Streams -> Nat]]
  <2>1. CASE m.type = "heartbeat"
    <3>1. m.stream \in Streams
      BY <1>1, <2>1 DEF Message
    <3> QED
      BY <1>1, <3>1 DEF Deliver
  <2>2. CASE m.type # "heartbeat"
    BY <2>2 DEF Deliver
  <2> QED
    BY <2>1, <2>2
<1>6. retired' \in [Devices -> SUBSET Streams]
  <2>1. CASE m.type = "stopped"
    <3>1. m.stream \in Streams
      BY <1>1, <2>1 DEF Message
    <3> QED
      BY <1>1, <3>1 DEF Deliver
  <2>2. CASE m.type # "stopped"
    BY <2>2 DEF Deliver
  <2> QED
    BY <2>1, <2>2
<1> QED
  BY <1>3, <1>4, <1>5, <1>6 DEF Deliver, HostNamed

LEMMA HeartbeatCheckInv ==
    ASSUME DiscoveryInv, NEW d \in Devices, HeartbeatCheck(d)
    PROVE  DiscoveryInv'
<1> USE DEF DiscoveryInv, TypeOK
<1> DEFINE r == DropOldTombstones(ExpireStreams(registry[d]))
<1>1. Sound(r)
  BY ExpireStreamsSound, DropOldTombstonesSound DEF AllSound
<1>2. PICK gone \in EvictionChoices(r) : registry' = [registry EXCEPT ![d] = Evict(r, gone)]
  BY DEF HeartbeatCheck
<1> HIDE DEF r
<1>3. Sound(Evict(r, gone))
  BY <1>1, EvictSound
<1>4. registry' \in [Devices -> Registry] /\ AllSound'
  BY <1>2, <1>3, OneRegistry
<1> QED
  BY <1>4 DEF HeartbeatCheck, Fire, history, HostNamed

LEMMA TickInv ==
    ASSUME DiscoveryInv, Tick
    PROVE  DiscoveryInv'
<1> USE DEF DiscoveryInv, TypeOK
<1>1. \A d \in Devices : Sound(AgeRegistry(registry[d]))
  BY AgeRegistrySound DEF AllSound
<1>2. registry' \in [Devices -> Registry] /\ AllSound'
  BY <1>1 DEF Tick, AllSound, Sound
<1>3. due' \in SUBSET Timers
  BY DEF Tick, Timers
<1>4. heard' \in [Devices -> [Streams -> Nat]]
  BY OlderInNat, RegistryAssumption DEF Tick, Never
<1> QED
  BY <1>2, <1>3, <1>4 DEF Tick, HostNamed

-----------------------------------------------------------------------------
\* Every step keeps the inductive invariant.
LEMMA NextInv == DiscoveryInv /\ [Next]_vars => DiscoveryInv'
<1> SUFFICES ASSUME DiscoveryInv, [Next]_vars
             PROVE  DiscoveryInv'
  OBVIOUS
<1>1. CASE UNCHANGED vars
  BY <1>1 DEF vars, DiscoveryInv, TypeOK, HostNamed, AllSound
<1>2. ASSUME NEW d \in Devices, HostStep(d) PROVE DiscoveryInv'
  BY <1>2, PublishStartedInv, StartFailsInv, AnnounceInv, BeginRestartInv,
     PublishRestartedInv, RestartFailsInv, StopInv, RegisterAgainInv,
     SetInputPermissionsInv, SendHeartbeatInv, SendReannounceInv DEF HostStep
<1>3. ASSUME Next, ~\E d \in Devices : HostStep(d) PROVE DiscoveryInv'
  BY <1>3, PeerOnlineInv, RequestGroupSyncInv, DeliverInv, HeartbeatCheckInv, TickInv
     DEF Next
<1> QED
  BY <1>1, <1>2, <1>3

\* The inductive invariant holds in every reachable state.
THEOREM DiscoveryInvariant == Spec => []DiscoveryInv
BY InitInv, NextInv, PTL DEF Spec

\* Every variable keeps its type: no handler of the registry, the session
\* manager or the router produces a malformed entry, announcement or message.
THEOREM TypeCorrect == Spec => []TypeOK
<1>1. DiscoveryInv => TypeOK
  BY DEF DiscoveryInv
<1> QED
  BY <1>1, DiscoveryInvariant, PTL

\* No device holds a stream together with its tombstone, so the query that
\* hides buried streams never hides a live entry of activeStreams.
THEOREM TombstonesExclude == Spec => []TombstoneExcludesEntry
<1>1. DiscoveryInv => TombstoneExcludesEntry
  BY DEF DiscoveryInv, AllSound, Sound, Agree, TombstoneExcludesEntry
<1> QED
  BY <1>1, DiscoveryInvariant, PTL

\* The sequence that started and heartbeat messages are judged by is the one
\* that snapshots are judged by, whatever the order messages arrive in.
THEOREM SequencesFollow == Spec => []SequenceFollowsEntry
<1>1. DiscoveryInv => SequenceFollowsEntry
  BY DEF DiscoveryInv, AllSound, Sound, Agree, SequenceFollowsEntry
<1> QED
  BY <1>1, DiscoveryInvariant, PTL

-----------------------------------------------------------------------------
(****************************************************************************)
(* 3. Published sessions                                                    *)
(****************************************************************************)
\* Announcement a names a session of S.
Names(a, S) == a.session = a.revision /\ a.session \in S

\* The same of every entry of registry r, and of every announcement of a list.
RegistryNames(r, sessions) ==
    \A k \in Streams : r.streams[k] # NoEntry => Names(r.streams[k].ann, sessions[k])

ListNames(snap, sessions) == \A k \in Listed(snap) : Names(snap[k], sessions[k])

ShownMessages ==
    \A m \in net :
       /\ m.type = "started" => Names(m.ann, aired[m.stream])
       /\ m.type = "snapshot" => ListNames(m.streams, aired)

ShownRegistries == \A d \in Devices : RegistryNames(registry[d], aired)

\* The host holds a session whose media is up.
OnAir(h) == host[h].state \in {"starting", "active"} \/ host[h].published

\* What a host may announce has been published, and no session before it is drawn.
AiredByHosts ==
    /\ \A h \in Devices : OnAir(h) => host[h].session \in aired[host[h].stream]
    /\ \A k \in Streams : \A n \in aired[k] : n <= host[Owner[k]].revision

ShownInv == DiscoveryInv /\ ShownRegistries /\ ShownMessages /\ AiredByHosts

-----------------------------------------------------------------------------
\* The registry's operators, one by one: they add no announcement but the one they are given.
LEMMA PutNames ==
    ASSUME NEW r, Sound(r), NEW sessions, RegistryNames(r, sessions),
           NEW k \in Streams, NEW a, Names(a, sessions[k])
    PROVE  RegistryNames(Put(r, k, a), sessions)
BY DEF Sound, Registry, RegistryNames, Put

\* A start adds at most the announcement it carries.
LEMMA HandleStartedNames ==
    ASSUME NEW r, Sound(r), NEW sessions, RegistryNames(r, sessions),
           NEW k \in Streams, NEW a, Names(a, sessions[k]), NEW replaces
    PROVE  RegistryNames(HandleStarted(r, k, a, replaces), sessions)
<1> DEFINE u == [r EXCEPT !.tombstones[k] = NoTime]
<1>1. Sound(u) /\ RegistryNames(u, sessions)
  BY UnburySound DEF Sound, Registry, RegistryNames
<1>2. RegistryNames(Put(u, k, a), sessions)
  BY <1>1, PutNames
<1> QED
  BY <1>1, <1>2 DEF HandleStarted

\* The host's own registration adds what the host announces.
LEMMA RegisterLocalStreamNames ==
    ASSUME NEW r, Sound(r), NEW sessions, RegistryNames(r, sessions),
           NEW k \in Streams, NEW a, Names(a, sessions[k])
    PROVE  RegistryNames(RegisterLocalStream(r, k, a), sessions)
<1> DEFINE u == [r EXCEPT !.tombstones[k] = NoTime]
<1>1. Sound(u) /\ RegistryNames(u, sessions)
  BY UnburySound DEF Sound, Registry, RegistryNames
<1> QED
  BY <1>1, PutNames DEF RegisterLocalStream

\* A heartbeat and a permission change keep the session of the entry.
LEMMA HandleHeartbeatNames ==
    ASSUME NEW r, Sound(r), NEW sessions, RegistryNames(r, sessions),
           NEW k \in Streams, NEW seq \in Nat
    PROVE  RegistryNames(HandleHeartbeat(r, k, seq), sessions)
<1>1. CASE r.streams[k] = NoEntry
  BY <1>1 DEF HandleHeartbeat
<1>2. CASE r.streams[k] # NoEntry
  <2>1. r.streams[k] \in Entry
    BY <1>2 DEF Sound, Registry
  <2>2. Names([r.streams[k].ann EXCEPT !.seq = seq], sessions[k])
    BY <1>2, <2>1 DEF RegistryNames, Names, Entry, Announcement
  <2> QED
    BY <2>2 DEF HandleHeartbeat, Sound, Registry, RegistryNames
<1> QED
  BY <1>1, <1>2

LEMMA UpdateInputPermissionsNames ==
    ASSUME NEW r, Sound(r), NEW sessions, RegistryNames(r, sessions),
           NEW k \in Streams, NEW p \in Permissions
    PROVE  RegistryNames(UpdateInputPermissions(r, k, p), sessions)
<1>1. CASE k \notin Visible(r)
  BY <1>1 DEF UpdateInputPermissions
<1>2. CASE k \in Visible(r)
  <2>1. r.streams[k] \in Entry /\ r.streams[k] # NoEntry
    BY <1>2 DEF Visible, Sound, Registry
  <2>2. Names([r.streams[k] EXCEPT !.ann.perms = p].ann, sessions[k])
    BY <2>1 DEF RegistryNames, Names, Entry, Announcement
  <2> QED
    BY <1>2, <2>2 DEF UpdateInputPermissions, Sound, Registry, RegistryNames
<1> QED
  BY <1>1, <1>2

LEMMA HandleStoppedNames ==
    ASSUME NEW r, Sound(r), NEW sessions, RegistryNames(r, sessions), NEW k \in Streams
    PROVE  RegistryNames(HandleStopped(r, k), sessions)
BY DEF HandleStopped, Bury, Sound, Registry, RegistryNames

\* A relayed list adds at most what it lists.
LEMMA HandleSnapshotNames ==
    ASSUME NEW r, NEW sessions, RegistryNames(r, sessions), NEW snap, ListNames(snap, sessions)
    PROVE  RegistryNames(HandleSnapshot(r, snap), sessions)
BY DEF HandleSnapshot, RegistryNames, ListNames

\* What a device relays is what it holds.
LEMMA StreamsByGroupNames ==
    ASSUME NEW r, NEW sessions, RegistryNames(r, sessions)
    PROVE  ListNames(StreamsByGroup(r), sessions)
BY DEF StreamsByGroup, Listed, Visible, RegistryNames, ListNames

\* A refresh and the periodic check only remove.
LEMMA ClearGroupStreamsNames ==
    ASSUME NEW r, Sound(r), NEW sessions, RegistryNames(r, sessions), NEW keep
    PROVE  RegistryNames(ClearGroupStreams(r, keep), sessions)
BY DEF ClearGroupStreams, Sound, Registry, RegistryNames

\* The periodic check only removes entries.
LEMMA CheckNames ==
    ASSUME NEW r, Sound(r), NEW sessions, RegistryNames(r, sessions), NEW gone
    PROVE  RegistryNames(Evict(DropOldTombstones(ExpireStreams(r)), gone), sessions)
<1>1. RegistryNames(ExpireStreams(r), sessions)
  BY DEF ExpireStreams, RegistryNames
<1>2. Sound(ExpireStreams(r)) /\ Sound(DropOldTombstones(ExpireStreams(r)))
  BY ExpireStreamsSound, DropOldTombstonesSound
<1>3. RegistryNames(DropOldTombstones(ExpireStreams(r)), sessions)
  BY <1>1, <1>2 DEF DropOldTombstones, Sound, Registry, RegistryNames
<1> QED
  BY <1>2, <1>3 DEF Evict, Sound, Registry, RegistryNames

\* Time changes no announcement.
LEMMA AgeRegistryNames ==
    ASSUME NEW r, NEW sessions, RegistryNames(r, sessions)
    PROVE  RegistryNames(AgeRegistry(r), sessions)
BY DEF AgeRegistry, RegistryNames

-----------------------------------------------------------------------------
\* A host's revision only grows.
LEMMA RevisionGrows ==
    ASSUME DiscoveryInv, [Next]_vars, NEW d \in Devices
    PROVE  host[d].revision \in Nat /\ host[d].revision <= host'[d].revision
<1> USE DEF DiscoveryInv, TypeOK
<1>0. host[d] \in HostState /\ host[d].revision \in Nat
  BY DEF HostState
<1>1. CASE host' = host
  BY <1>0, <1>1
<1>2. ASSUME NEW h \in Devices, NEW s, host' = [host EXCEPT ![h] = s],
             s.revision \in {host[h].revision, host[h].revision + 1}
      PROVE  host[d].revision <= host'[d].revision
  BY <1>0, <1>2
<1>3. ASSUME NEW h \in Devices, HostStep(h) PROVE host[d].revision <= host'[d].revision
  <2>1. host[h] \in HostState
    OBVIOUS
  <2>2. ASSUME NEW k \in Streams, NEW p \in Permissions, PublishStarted(h, k, p)
        PROVE  host[d].revision <= host'[d].revision
    <3> DEFINE n == NextSession(host[h])
               s == [n EXCEPT !.state = "starting", !.stream = k, !.perms = p]
    <3>1. n \in HostState /\ n.revision = host[h].revision + 1
      BY <2>1, NextSessionType
    <3>2. s.revision = host[h].revision + 1
      BY <3>1 DEF HostState
    <3>3. host' = [host EXCEPT ![h] = s]
      BY <2>2 DEF PublishStarted
    <3> HIDE DEF s
    <3> QED
      BY <3>2, <3>3, <1>2
  <2>3. ASSUME NEW k \in Streams, StartFails(h, k)
        PROVE  host[d].revision <= host'[d].revision
    <3> DEFINE n == NextSession(host[h])
               s == WithoutStream(n, "failed")
    <3>1. n \in HostState /\ n.revision = host[h].revision + 1
      BY <2>1, NextSessionType
    <3>2. s.revision = host[h].revision + 1
      BY <3>1, WithoutStreamType DEF SessionState
    <3>3. host' = [host EXCEPT ![h] = s]
      BY <2>3 DEF StartFails
    <3> HIDE DEF s
    <3> QED
      BY <3>2, <3>3, <1>2
  <2>4. CASE BeginRestart(h)
    <3> DEFINE n == NextSession(host[h])
               s == [n EXCEPT !.state = "restarting"]
    <3>1. n \in HostState /\ n.revision = host[h].revision + 1
      BY <2>1, NextSessionType
    <3>2. s.revision = host[h].revision + 1
      BY <3>1 DEF HostState
    <3>3. host' = [host EXCEPT ![h] = s]
      BY <2>4 DEF BeginRestart
    <3> HIDE DEF s
    <3> QED
      BY <3>2, <3>3, <1>2
  <2>5. CASE RestartFails(h) \/ Stop(h)
    <3>1. PICK state \in SessionState : host' = [host EXCEPT ![h] = WithoutStream(host[h], state)]
      BY <2>5 DEF RestartFails, Stop, SessionState
    <3>2. WithoutStream(host[h], state).revision = host[h].revision
      BY <2>1, WithoutStreamType
    <3> QED
      BY <3>1, <3>2, <1>2
  <2>6. CASE Announce(h) \/ PublishRestarted(h) \/ SendHeartbeat(h)
             \/ \E p \in Permissions : SetInputPermissions(h, p)
    <3>1. host'[h].revision = host[h].revision /\ \A e \in Devices \ {h} : host'[e] = host[e]
      <4>1. CASE Announce(h)
        BY <2>1, <4>1 DEF Announce, HostState
      <4>2. CASE PublishRestarted(h)
        BY <2>1, <4>2 DEF PublishRestarted, HostState
      <4>3. CASE SendHeartbeat(h)
        BY <2>1, <4>3 DEF SendHeartbeat, HostState
      <4>4. CASE \E p \in Permissions : SetInputPermissions(h, p)
        BY <2>1, <4>4 DEF SetInputPermissions, HostState
      <4> QED
        BY <2>6, <4>1, <4>2, <4>3, <4>4
    <3> QED
      BY <1>0, <3>1
  <2>7. CASE RegisterAgain(h) \/ SendReannounce(h)
    BY <1>1, <2>7 DEF RegisterAgain, SendReannounce
  <2> QED
    BY <1>3, <2>2, <2>3, <2>4, <2>5, <2>6, <2>7 DEF HostStep
<1>4. ASSUME Next, ~\E h \in Devices : HostStep(h) PROVE host' = host
  BY <1>4 DEF Next, RequestGroupSync, HeartbeatCheck, PeerOnline, Deliver, Tick
<1>5. CASE UNCHANGED vars
  BY <1>1, <1>5 DEF vars
<1> QED
  BY <1>0, <1>1, <1>3, <1>4, <1>5

\* A session that was published stays so.
LEMMA AiredGrows ==
    ASSUME DiscoveryInv, [Next]_vars, NEW k \in Streams
    PROVE  aired[k] \subseteq aired'[k]
<1>1. aired \in [Streams -> SUBSET Nat]
  BY DEF DiscoveryInv, TypeOK
<1>2. CASE aired' = aired
  BY <1>2
<1>3. ASSUME NEW h \in Devices, HostStep(h) PROVE aired[k] \subseteq aired'[k]
  <2>1. ASSUME NEW j \in Streams, NEW p \in Permissions, PublishStarted(h, j, p)
        PROVE  aired[k] \subseteq aired'[k]
    BY <1>1, <2>1 DEF PublishStarted
  <2>2. CASE PublishRestarted(h)
    BY <1>1, <2>2 DEF PublishRestarted
  <2>3. CASE \E j \in Streams : StartFails(h, j)
    BY <2>3 DEF StartFails, history
  <2>4. CASE Announce(h) \/ BeginRestart(h) \/ RestartFails(h) \/ Stop(h) \/ RegisterAgain(h)
    BY <2>4 DEF Announce, BeginRestart, RestartFails, Stop, RegisterAgain, history
  <2>5. CASE \/ \E p \in Permissions : SetInputPermissions(h, p)
             \/ SendHeartbeat(h) \/ SendReannounce(h)
    BY <2>5 DEF SetInputPermissions, SendHeartbeat, SendReannounce, history
  <2> QED
    BY <1>3, <2>1, <2>2, <2>3, <2>4, <2>5 DEF HostStep
<1>4. ASSUME Next, ~\E h \in Devices : HostStep(h) PROVE aired' = aired
  BY <1>4 DEF Next, RequestGroupSync, HeartbeatCheck, PeerOnline, Deliver, Tick, history
<1>5. CASE UNCHANGED vars
  BY <1>2, <1>5 DEF vars
<1> QED
  BY <1>2, <1>3, <1>4, <1>5

\* So what was published before a step is published after it.
LEMMA PublishedStay ==
    ASSUME ShownInv, [Next]_vars
    PROVE  /\ \A d \in Devices : RegistryNames(registry[d], aired')
           /\ \A m \in net :
                /\ m.type = "started" => Names(m.ann, aired'[m.stream])
                /\ m.type = "snapshot" => ListNames(m.streams, aired')
<1>1. ASSUME NEW k \in Streams PROVE aired[k] \subseteq aired'[k]
  BY AiredGrows DEF ShownInv
<1>2. ASSUME NEW k \in Streams, NEW a \in Announcement, Names(a, aired[k])
      PROVE  Names(a, aired'[k])
  BY <1>1, <1>2 DEF Names
<1>3. ASSUME NEW d \in Devices PROVE RegistryNames(registry[d], aired')
  <2>1. ASSUME NEW k \in Streams, registry[d].streams[k] # NoEntry
        PROVE  registry[d].streams[k].ann \in Announcement
    BY <2>1 DEF ShownInv, DiscoveryInv, TypeOK, Registry, Entry
  <2> QED
    BY <1>2, <2>1 DEF ShownInv, ShownRegistries, RegistryNames
<1>4. ASSUME NEW m \in net, m.type = "started" PROVE Names(m.ann, aired'[m.stream])
  <2>1. m.stream \in Streams /\ m.ann \in Announcement
    BY <1>4 DEF ShownInv, DiscoveryInv, TypeOK, Message
  <2> QED
    BY <1>2, <1>4, <2>1 DEF ShownInv, ShownMessages
<1>5. ASSUME NEW m \in net, m.type = "snapshot" PROVE ListNames(m.streams, aired')
  <2>1. \A k \in Listed(m.streams) : k \in Streams /\ m.streams[k] \in Announcement
    BY <1>5 DEF ShownInv, DiscoveryInv, TypeOK, Message, Snapshot, Listed
  <2> QED
    BY <1>2, <1>5, <2>1 DEF ShownInv, ShownMessages, ListNames
<1> QED
  BY <1>3, <1>4, <1>5

\* What is left to show when one registry changes, or none.
LEMMA OneRegistryShown ==
    ASSUME ShownInv, [Next]_vars, NEW d \in Devices, NEW r, RegistryNames(r, aired'),
           registry' = [registry EXCEPT ![d] = r]
    PROVE  ShownRegistries'
BY PublishedStay DEF ShownInv, ShownRegistries, DiscoveryInv, TypeOK

\* The same for a step that changes hosts and messages only.
LEMMA SameRegistriesShown ==
    ASSUME ShownInv, [Next]_vars, registry' = registry
    PROVE  ShownRegistries'
BY PublishedStay DEF ShownRegistries

\* Every new message of a step names published sessions, so all of them do.
LEMMA NewMessagesShown ==
    ASSUME ShownInv, [Next]_vars, NEW msgs, net' \subseteq net \cup msgs,
           \A m \in msgs : /\ m.type = "started" => Names(m.ann, aired'[m.stream])
                           /\ m.type = "snapshot" => ListNames(m.streams, aired')
    PROVE  ShownMessages'
BY PublishedStay DEF ShownMessages

\* A step that adds no start and no list adds no announcement.
LEMMA OtherMessagesShown ==
    ASSUME ShownInv, [Next]_vars,
           \A m \in net' : m \in net \/ (m.type # "started" /\ m.type # "snapshot")
    PROVE  ShownMessages'
BY PublishedStay DEF ShownMessages

\* A step that sends nothing leaves the messages as they are.
LEMMA NoMessagesShown ==
    ASSUME ShownInv, [Next]_vars, net' \subseteq net
    PROVE  ShownMessages'
BY PublishedStay DEF ShownMessages

\* What a host announces of its session, it has published.
LEMMA AnnouncementNames ==
    ASSUME NEW s \in HostState, s.session = s.revision, NEW S, s.session \in S
    PROVE  Names(BuildAnnouncement(s), S)
BY DEF BuildAnnouncement, Names, HostState

\* A host whose media is up announces a session of its stream.
LEMMA OwnAnnouncementShown ==
    ASSUME ShownInv, NEW h \in Devices, OnAir(h)
    PROVE  /\ host[h].stream \in Streams
           /\ Names(BuildAnnouncement(host[h]), aired[host[h].stream])
<1>1. host[h] \in HostState /\ host[h].stream \in Streams /\ host[h].session = host[h].revision
  BY DEF ShownInv, DiscoveryInv, TypeOK, HostNamed, OnAir, Sharing
<1>2. host[h].session \in aired[host[h].stream]
  BY DEF ShownInv, AiredByHosts
<1> QED
  BY <1>1, <1>2, AnnouncementNames

-----------------------------------------------------------------------------
\* From here, one lemma per action.
LEMMA PublishStartedShown ==
    ASSUME ShownInv, [Next]_vars, NEW h \in Devices, NEW k \in Streams,
           NEW p \in Permissions, PublishStarted(h, k, p)
    PROVE  ShownRegistries' /\ ShownMessages'
<1> DEFINE s == [NextSession(host[h]) EXCEPT !.state = "starting", !.stream = k,
                                             !.perms = p]
<1>1. /\ host' = [host EXCEPT ![h] = s] /\ net' = net
      /\ registry' = [registry EXCEPT ![h] = RegisterLocalStream(registry[h], k,
           BuildAnnouncement(s))]
      /\ Owner[k] = h
  BY DEF PublishStarted
<1>0. s.session \in aired'[k]
  BY DEF PublishStarted, ShownInv, DiscoveryInv, TypeOK
<1> HIDE DEF s
<1>2. host'[h] = s
  BY <1>1 DEF ShownInv, DiscoveryInv, TypeOK
<1>3. s \in HostState /\ s.session = s.revision
  BY <1>2, NextInv DEF ShownInv, DiscoveryInv, TypeOK, HostNamed
<1>4. Names(BuildAnnouncement(s), aired'[k])
  BY <1>0, <1>3, AnnouncementNames
<1>5. RegistryNames(RegisterLocalStream(registry[h], k, BuildAnnouncement(s)), aired')
  BY <1>4, PublishedStay, RegisterLocalStreamNames DEF ShownInv, DiscoveryInv, AllSound
<1>6. ShownRegistries'
  BY <1>1, <1>5, OneRegistryShown
<1>7. ShownMessages'
  BY <1>1, NoMessagesShown
<1> QED
  BY <1>6, <1>7

LEMMA RegisterOwnShown ==
    ASSUME ShownInv, [Next]_vars, NEW h \in Devices, PublishRestarted(h) \/ RegisterAgain(h)
    PROVE  ShownRegistries' /\ ShownMessages'
<1> DEFINE k == host[h].stream
<1>1. k \in Streams /\ Names(BuildAnnouncement(host[h]), aired'[k])
  <2>1. CASE PublishRestarted(h)
    <3>1. host[h] \in HostState /\ k \in Streams /\ host[h].session = host[h].revision
      BY <2>1 DEF PublishRestarted, ShownInv, DiscoveryInv, TypeOK, HostNamed, Sharing
    <3>2. host[h].session \in aired'[k]
      BY <2>1, <3>1 DEF PublishRestarted, ShownInv, DiscoveryInv, TypeOK
    <3> QED
      BY <3>1, <3>2, AnnouncementNames
  <2>2. CASE RegisterAgain(h)
    BY <2>2, OwnAnnouncementShown DEF RegisterAgain, OnAir, history
  <2> QED
    BY <2>1, <2>2
<1>2. RegistryNames(RegisterLocalStream(registry[h], k, BuildAnnouncement(host[h])), aired')
  BY <1>1, PublishedStay, RegisterLocalStreamNames DEF ShownInv, DiscoveryInv, AllSound
<1>3. /\ registry' = [registry EXCEPT ![h] =
            RegisterLocalStream(registry[h], k, BuildAnnouncement(host[h]))]
      /\ net' = net
  BY DEF PublishRestarted, RegisterAgain
<1>4. ShownRegistries'
  BY <1>2, <1>3, OneRegistryShown
<1>5. ShownMessages'
  BY <1>3, NoMessagesShown
<1> QED
  BY <1>4, <1>5

LEMMA AnnounceShown ==
    ASSUME ShownInv, [Next]_vars, NEW h \in Devices, Announce(h)
    PROVE  ShownRegistries' /\ ShownMessages'
<1>1. OnAir(h) /\ aired' = aired
  BY DEF OnAir, Announce, history
<1>2. Names(BuildAnnouncement(host[h]), aired'[host[h].stream])
  BY <1>1, OwnAnnouncementShown
<1>3. PICK S \in Reachable(h) :
         net' = net \cup {[type |-> "started", to |-> p, stream |-> host[h].stream,
                           ann |-> BuildAnnouncement(host[h]),
                           replaces |-> host[h].published] : p \in S}
  BY DEF Announce, Send
<1> DEFINE msgs == {[type |-> "started", to |-> p, stream |-> host[h].stream,
                     ann |-> BuildAnnouncement(host[h]),
                     replaces |-> host[h].published] : p \in S}
<1>4. \A m \in msgs : m.type = "started" /\ m.ann = BuildAnnouncement(host[h])
                     /\ m.stream = host[h].stream
  OBVIOUS
<1>5. net' \subseteq net \cup msgs
  BY <1>3
<1> HIDE DEF msgs
<1>6. ShownMessages'
  BY <1>2, <1>4, <1>5, NewMessagesShown
<1>7. ShownRegistries'
  BY SameRegistriesShown DEF Announce
<1> QED
  BY <1>6, <1>7

LEMMA SendReannounceShown ==
    ASSUME ShownInv, [Next]_vars, NEW h \in Devices, SendReannounce(h)
    PROVE  ShownRegistries' /\ ShownMessages'
<1> DEFINE snap == [k \in Streams |-> IF k = host[h].stream
                                      THEN BuildAnnouncement(host[h]) ELSE NoEntry]
<1>1. Names(BuildAnnouncement(host[h]), aired'[host[h].stream])
  BY OwnAnnouncementShown DEF OnAir, SendReannounce, history
<1>2. ListNames(snap, aired')
  BY <1>1 DEF ListNames, Listed
<1>3. PICK S \in Reachable(h) :
         net' = net \cup {[type |-> "snapshot", to |-> p, streams |-> snap] : p \in S}
  BY DEF SendReannounce, Send
<1> HIDE DEF snap
<1> DEFINE msgs == {[type |-> "snapshot", to |-> p, streams |-> snap] : p \in S}
<1>4. \A m \in msgs : m.type = "snapshot" /\ m.streams = snap
  OBVIOUS
<1>5. net' \subseteq net \cup msgs
  BY <1>3
<1> HIDE DEF msgs
<1>6. ShownMessages'
  BY <1>2, <1>4, <1>5, NewMessagesShown
<1>7. ShownRegistries'
  BY SameRegistriesShown DEF SendReannounce
<1> QED
  BY <1>6, <1>7

\* Steps of a host that write no entry and send no announcement.
LEMMA OtherHostStepShown ==
    ASSUME ShownInv, [Next]_vars, NEW h \in Devices,
           \/ \E k \in Streams : StartFails(h, k)
           \/ BeginRestart(h) \/ RestartFails(h) \/ SendHeartbeat(h)
    PROVE  ShownRegistries' /\ ShownMessages'
<1>1. registry' = registry
  BY DEF StartFails, BeginRestart, RestartFails, SendHeartbeat
<1>2. CASE SendHeartbeat(h)
  <2>1. PICK S \in Reachable(h) :
           net' = net \cup {[type |-> "heartbeat", to |-> p, stream |-> host[h].stream,
                             session |-> host[h].session, seq |-> host[h].seq + 1] : p \in S}
    BY <1>2 DEF SendHeartbeat, Send
  <2>2. \A m \in net' : m \in net \/ (m.type # "started" /\ m.type # "snapshot")
    BY <2>1
  <2> QED
    BY <1>1, <2>2, SameRegistriesShown, OtherMessagesShown
<1>3. CASE net' = net
  BY <1>1, <1>3, SameRegistriesShown, NoMessagesShown
<1> QED
  BY <1>2, <1>3 DEF StartFails, BeginRestart, RestartFails

LEMMA StopShown ==
    ASSUME ShownInv, [Next]_vars, NEW h \in Devices, Stop(h)
    PROVE  ShownRegistries' /\ ShownMessages'
<1> DEFINE k == host[h].stream
<1>1. CASE k = NoStream
  <2>1. registry' = registry /\ net' = net
    BY <1>1 DEF Stop
  <2> QED
    BY <2>1, SameRegistriesShown, NoMessagesShown
<1>2. CASE k # NoStream
  <2>1. k \in Streams
    BY <1>2 DEF ShownInv, DiscoveryInv, TypeOK, HostState
  <2>2. registry' = [registry EXCEPT ![h] = HandleStopped(registry[h], k)]
    BY <1>2 DEF Stop
  <2>3. RegistryNames(HandleStopped(registry[h], k), aired')
    BY <2>1, PublishedStay, HandleStoppedNames DEF ShownInv, DiscoveryInv, AllSound
  <2>4. ShownRegistries'
    BY <2>2, <2>3, OneRegistryShown
  <2>5. PICK S \in Reachable(h) :
           net' = net \cup {[type |-> "stopped", to |-> p, stream |-> k] : p \in S}
    BY <1>2 DEF Stop, Send
  <2>6. \A m \in net' : m \in net \/ (m.type # "started" /\ m.type # "snapshot")
    BY <2>5
  <2>7. ShownMessages'
    BY <2>6, OtherMessagesShown
  <2> QED
    BY <2>4, <2>7
<1> QED
  BY <1>1, <1>2

LEMMA SetInputPermissionsShown ==
    ASSUME ShownInv, [Next]_vars, NEW h \in Devices, NEW p \in Permissions,
           SetInputPermissions(h, p)
    PROVE  ShownRegistries' /\ ShownMessages'
<1> DEFINE k == host[h].stream
<1>1. k \in Streams
  BY DEF SetInputPermissions, ShownInv, DiscoveryInv, HostNamed, Sharing
<1>2. registry' = [registry EXCEPT ![h] = UpdateInputPermissions(registry[h], k, p)]
  BY DEF SetInputPermissions
<1>3. RegistryNames(UpdateInputPermissions(registry[h], k, p), aired')
  BY <1>1, PublishedStay, UpdateInputPermissionsNames DEF ShownInv, DiscoveryInv, AllSound
<1>4. ShownRegistries'
  BY <1>2, <1>3, OneRegistryShown
<1>5. ShownMessages'
  <2>1. CASE host[h].state = "active"
    <3>1. PICK S \in Reachable(h) :
             net' = net \cup {[type |-> "permissions", to |-> q, stream |-> k,
                               perms |-> p] : q \in S}
      BY <2>1 DEF SetInputPermissions, Send
    <3>2. \A m \in net' : m \in net \/ (m.type # "started" /\ m.type # "snapshot")
      BY <3>1
    <3> QED
      BY <3>2, OtherMessagesShown
  <2>2. CASE host[h].state # "active"
    BY <2>2, NoMessagesShown DEF SetInputPermissions
  <2> QED
    BY <2>1, <2>2
<1> QED
  BY <1>4, <1>5

\* A device relays what its registry holds, which is published.
LEMMA AnswerShown ==
    ASSUME ShownInv, [Next]_vars, NEW d \in Devices
    PROVE  ListNames(StreamsByGroup(registry[d]), aired')
BY PublishedStay, StreamsByGroupNames

LEMMA PeerOnlineShown ==
    ASSUME ShownInv, [Next]_vars, NEW d \in Devices, NEW p \in Devices, PeerOnline(d, p)
    PROVE  ShownRegistries' /\ ShownMessages'
<1> DEFINE msgs == {[type |-> "snapshot", to |-> p, streams |-> StreamsByGroup(registry[d])],
                    [type |-> "request", to |-> p, from |-> d]}
<1>1. net' \subseteq net \cup msgs
  BY DEF PeerOnline, Send
<1>2. \A m \in msgs : /\ m.type = "started" => Names(m.ann, aired'[m.stream])
                      /\ m.type = "snapshot" => ListNames(m.streams, aired')
  BY AnswerShown
<1> HIDE DEF msgs
<1>3. ShownMessages'
  BY <1>1, <1>2, NewMessagesShown
<1>4. ShownRegistries'
  BY SameRegistriesShown DEF PeerOnline
<1> QED
  BY <1>3, <1>4

LEMMA RequestGroupSyncShown ==
    ASSUME ShownInv, [Next]_vars, NEW d \in Devices, RequestGroupSync(d)
    PROVE  ShownRegistries' /\ ShownMessages'
<1> DEFINE r == ClearGroupStreams(registry[d], {k \in Streams : Owner[k] = d})
<1>1. RegistryNames(r, aired')
  BY PublishedStay, ClearGroupStreamsNames DEF ShownInv, DiscoveryInv, AllSound
<1>2. registry' = [registry EXCEPT ![d] = r]
  BY DEF RequestGroupSync
<1>3. ShownRegistries'
  BY <1>1, <1>2, OneRegistryShown
<1>4. PICK S \in Reachable(d) :
         net' = net \cup {[type |-> "request", to |-> p, from |-> d] : p \in S}
  BY DEF RequestGroupSync, Send
<1>5. \A m \in net' : m \in net \/ (m.type # "started" /\ m.type # "snapshot")
  BY <1>4
<1>6. ShownMessages'
  BY <1>5, OtherMessagesShown
<1> QED
  BY <1>3, <1>6

LEMMA DeliverShown ==
    ASSUME ShownInv, [Next]_vars, NEW m \in net, Deliver(m)
    PROVE  ShownRegistries' /\ ShownMessages'
<1>1. m \in Message /\ m.to \in Devices /\ Sound(registry[m.to])
  BY DEF ShownInv, DiscoveryInv, TypeOK, AllSound, Message
<1>2. RegistryNames(registry[m.to], aired')
  BY <1>1, PublishedStay
<1>3. RegistryNames(Handle(registry[m.to], m), aired')
  <2>1. CASE m.type = "started"
    <3>1. m.stream \in Streams /\ Names(m.ann, aired'[m.stream])
      BY <1>1, <2>1, PublishedStay DEF Message
    <3> QED
      BY <1>1, <1>2, <2>1, <3>1, HandleStartedNames DEF Handle
  <2>2. CASE m.type = "heartbeat"
    <3>1. m.stream \in Streams /\ m.seq \in Nat
      BY <1>1, <2>2 DEF Message
    <3> QED
      BY <1>1, <1>2, <2>2, <3>1, HandleHeartbeatNames DEF Handle
  <2>3. CASE m.type = "stopped"
    <3>1. m.stream \in Streams
      BY <1>1, <2>3 DEF Message
    <3> QED
      BY <1>1, <1>2, <2>3, <3>1, HandleStoppedNames DEF Handle
  <2>4. CASE m.type = "permissions"
    <3>1. m.stream \in Streams /\ m.perms \in Permissions
      BY <1>1, <2>4 DEF Message
    <3> QED
      BY <1>1, <1>2, <2>4, <3>1, UpdateInputPermissionsNames DEF Handle
  <2>5. CASE m.type = "snapshot"
    <3>1. ListNames(m.streams, aired')
      BY <2>5, PublishedStay
    <3> QED
      BY <1>2, <2>5, <3>1, HandleSnapshotNames DEF Handle
  <2>6. CASE m.type = "request"
    BY <1>2, <2>6 DEF Handle
  <2> QED
    BY <1>1, <2>1, <2>2, <2>3, <2>4, <2>5, <2>6 DEF Message
<1>4. registry' = [registry EXCEPT ![m.to] = Handle(registry[m.to], m)]
  BY DEF Deliver
<1>5. ShownRegistries'
  BY <1>1, <1>3, <1>4, OneRegistryShown
<1>6. ShownMessages'
  <2>1. CASE m.type = "request"
    <3> DEFINE msgs == {[type |-> "snapshot", to |-> m.from,
                         streams |-> StreamsByGroup(registry[m.to])]}
    <3>1. net' \subseteq net \cup msgs
      BY <2>1 DEF Deliver
    <3>2. \A n \in msgs : /\ n.type = "started" => Names(n.ann, aired'[n.stream])
                          /\ n.type = "snapshot" => ListNames(n.streams, aired')
      BY <1>1, AnswerShown
    <3> HIDE DEF msgs
    <3> QED
      BY <3>1, <3>2, NewMessagesShown
  <2>2. CASE m.type # "request"
    <3>1. net' \subseteq net
      BY <2>2 DEF Deliver
    <3> QED
      BY <3>1, NoMessagesShown
  <2> QED
    BY <2>1, <2>2
<1> QED
  BY <1>5, <1>6

LEMMA HeartbeatCheckShown ==
    ASSUME ShownInv, [Next]_vars, NEW d \in Devices, HeartbeatCheck(d)
    PROVE  ShownRegistries' /\ ShownMessages'
<1> DEFINE r == DropOldTombstones(ExpireStreams(registry[d]))
<1>1. PICK gone \in EvictionChoices(r) : registry' = [registry EXCEPT ![d] = Evict(r, gone)]
  BY DEF HeartbeatCheck
<1>2. RegistryNames(Evict(r, gone), aired')
  BY PublishedStay, CheckNames DEF ShownInv, DiscoveryInv, AllSound
<1> HIDE DEF r
<1>3. ShownRegistries'
  BY <1>1, <1>2, OneRegistryShown
<1>4. net' = net
  BY DEF HeartbeatCheck
<1>5. ShownMessages'
  BY <1>4, NoMessagesShown
<1> QED
  BY <1>3, <1>5

LEMMA TickShown ==
    ASSUME ShownInv, [Next]_vars, Tick
    PROVE  ShownRegistries' /\ ShownMessages'
<1>1. \A d \in Devices : RegistryNames(AgeRegistry(registry[d]), aired')
  BY PublishedStay, AgeRegistryNames
<1>2. ShownRegistries'
  BY <1>1 DEF Tick, ShownRegistries
<1>3. ShownMessages'
  BY NoMessagesShown DEF Tick
<1> QED
  BY <1>2, <1>3

-----------------------------------------------------------------------------
\* A host changes its session only by drawing the next one, and has media again
\* only once it is published.
LEMMA AiredNext ==
    ASSUME ShownInv, [Next]_vars
    PROVE  AiredByHosts'
<1>1. /\ host \in [Devices -> HostState] /\ aired \in [Streams -> SUBSET Nat]
      /\ DiscoveryInv
  BY DEF ShownInv, DiscoveryInv, TypeOK
<1>2. ASSUME NEW k \in Streams, NEW n \in aired[k] PROVE n <= host'[Owner[k]].revision
  <2>1. n \in Nat /\ Owner[k] \in Devices /\ n <= host[Owner[k]].revision
    BY <1>1, DiscoveryAssumption DEF ShownInv, AiredByHosts
  <2>2. host[Owner[k]].revision \in Nat /\ host[Owner[k]].revision <= host'[Owner[k]].revision
    BY <1>1, <2>1, RevisionGrows
  <2>3. host'[Owner[k]].revision \in Nat
    BY <2>1, NextInv DEF ShownInv, DiscoveryInv, TypeOK, HostState
  <2> QED
    BY <2>1, <2>2, <2>3
\* It is enough to look at the host that steps.
<1>3. ASSUME NEW h \in Devices, host' = host \/ \E s : host' = [host EXCEPT ![h] = s],
             OnAir(h)' => host'[h].session \in aired'[host'[h].stream],
             \A k \in Streams : \A n \in aired'[k] :
                n \in aired[k] \/ (k = host'[h].stream /\ Owner[k] = h /\ n = host'[h].session)
      PROVE  AiredByHosts'
  <2>1. ASSUME NEW d \in Devices, OnAir(d)' PROVE host'[d].session \in aired'[host'[d].stream]
    <3>1. CASE d = h
      BY <1>3, <2>1, <3>1
    <3>2. CASE d # h
      <4>1. host'[d] = host[d]
        BY <1>1, <1>3, <3>2
      <4>2. OnAir(d)
        BY <2>1, <4>1 DEF OnAir
      <4>3. host[d].session \in aired[host[d].stream] /\ host[d].stream \in Streams
        BY <1>1, <4>2 DEF ShownInv, AiredByHosts, DiscoveryInv, HostNamed, OnAir, Sharing
      <4> QED
        BY <1>1, <4>1, <4>3, AiredGrows
    <3> QED
      BY <3>1, <3>2
  <2>2. ASSUME NEW k \in Streams, NEW n \in aired'[k] PROVE n <= host'[Owner[k]].revision
    <3>1. CASE n \in aired[k]
      BY <1>2, <3>1
    <3>2. CASE Owner[k] = h /\ n = host'[h].session
      <4>1. host'[h].session = host'[h].revision /\ host'[h].revision \in Nat
        BY NextInv DEF ShownInv, DiscoveryInv, TypeOK, HostNamed, HostState
      <4> QED
        BY <3>2, <4>1
    <3> QED
      BY <1>3, <3>1, <3>2
  <2> QED
    BY <2>1, <2>2 DEF AiredByHosts
<1>4. ASSUME NEW h \in Devices, HostStep(h) PROVE AiredByHosts'
  <2>0. /\ host[h] \in HostState
        /\ OnAir(h) => host[h].session \in aired[host[h].stream]
    BY <1>1 DEF ShownInv, AiredByHosts
  <2>1. ASSUME NEW k \in Streams, NEW p \in Permissions, PublishStarted(h, k, p)
        PROVE  AiredByHosts'
    <3> DEFINE s == [NextSession(host[h]) EXCEPT !.state = "starting", !.stream = k,
                                                 !.perms = p]
    <3>1. /\ host' = [host EXCEPT ![h] = s] /\ Owner[k] = h
          /\ aired' = [aired EXCEPT ![k] = aired[k] \cup {s.session}]
      BY <2>1 DEF PublishStarted
    <3>2. s.stream = k
      BY <2>0, NextSessionType DEF HostState
    <3> HIDE DEF s
    <3>3. host'[h] = s
      BY <1>1, <3>1
    <3> QED
      BY <1>1, <1>3, <3>1, <3>2, <3>3
  <2>2. ASSUME NEW k \in Streams, StartFails(h, k) PROVE AiredByHosts'
    <3> DEFINE s == WithoutStream(NextSession(host[h]), "failed")
    <3>1. host' = [host EXCEPT ![h] = s] /\ aired' = aired
      BY <2>2 DEF StartFails, history
    <3>2. s.state = "failed" /\ s.published = host[h].published
      BY <2>0, NextSessionType, WithoutStreamType DEF SessionState
    <3>3. ~host[h].published
      BY <1>1, <2>2 DEF StartFails, DiscoveryInv, HostNamed
    <3> HIDE DEF s
    <3>4. host'[h] = s
      BY <1>1, <3>1
    <3> QED
      BY <1>3, <3>1, <3>2, <3>3, <3>4 DEF OnAir
  <2>3. CASE BeginRestart(h)
    <3> DEFINE s == [NextSession(host[h]) EXCEPT !.state = "restarting"]
    <3>1. host' = [host EXCEPT ![h] = s] /\ aired' = aired
      BY <2>3 DEF BeginRestart, history
    <3>2. s.state = "restarting" /\ s.published = host[h].published
      BY <2>0, NextSessionType DEF HostState
    <3>3. ~host[h].published
      BY <1>1, <2>3 DEF BeginRestart, DiscoveryInv, HostNamed
    <3> HIDE DEF s
    <3>4. host'[h] = s
      BY <1>1, <3>1
    <3> QED
      BY <1>3, <3>1, <3>2, <3>3, <3>4 DEF OnAir
  <2>4. CASE PublishRestarted(h)
    <3>1. /\ host[h].stream \in Streams /\ Owner[host[h].stream] = h
      BY <1>1, <2>4 DEF PublishRestarted, DiscoveryInv, HostNamed, Sharing
    <3>2. /\ host' = [host EXCEPT ![h].published = TRUE]
          /\ aired' = [aired EXCEPT ![host[h].stream] = @ \cup {host[h].session}]
      BY <2>4 DEF PublishRestarted
    <3>3. host'[h].stream = host[h].stream /\ host'[h].session = host[h].session
      BY <1>1, <2>0, <3>2 DEF HostState
    <3>4. \E s : host' = [host EXCEPT ![h] = s]
      BY <3>2
    <3>5. host'[h].session \in aired'[host'[h].stream]
      BY <1>1, <3>1, <3>2, <3>3
    <3>6. ASSUME NEW k \in Streams, NEW n \in aired'[k]
          PROVE  n \in aired[k] \/ (k = host'[h].stream /\ Owner[k] = h /\ n = host'[h].session)
      BY <1>1, <3>1, <3>2, <3>3, <3>6
    <3> QED
      BY <1>3, <3>4, <3>5, <3>6
  <2>5. CASE RestartFails(h) \/ Stop(h)
    <3>1. PICK state \in {"failed", "idle"} :
             host' = [host EXCEPT ![h] = WithoutStream(host[h], state)]
      BY <2>5 DEF RestartFails, Stop
    <3>2. ~host[h].published
      BY <1>1, <2>5 DEF RestartFails, Stop, DiscoveryInv, HostNamed
    <3>3. /\ WithoutStream(host[h], state).state = state
          /\ ~WithoutStream(host[h], state).published
      BY <2>0, <3>2, WithoutStreamType DEF SessionState
    <3>4. aired' = aired
      BY <2>5 DEF RestartFails, Stop, history
    <3>5. host'[h] = WithoutStream(host[h], state)
      BY <1>1, <3>1
    <3> QED
      BY <1>3, <3>1, <3>3, <3>4, <3>5 DEF OnAir
  <2>6. CASE Announce(h) \/ SendHeartbeat(h) \/ \E p \in Permissions : SetInputPermissions(h, p)
    <3>1. aired' = aired
      BY <2>6 DEF Announce, SendHeartbeat, SetInputPermissions, history
    <3>2. \E s : host' = [host EXCEPT ![h] = s]
      BY <2>6 DEF Announce, SendHeartbeat, SetInputPermissions
    <3>3. /\ host'[h].stream = host[h].stream /\ host'[h].session = host[h].session
          /\ OnAir(h)' => OnAir(h)
      <4>1. CASE Announce(h)
        BY <1>1, <2>0, <4>1 DEF Announce, OnAir, HostState
      <4>2. CASE SendHeartbeat(h)
        BY <1>1, <2>0, <4>2 DEF SendHeartbeat, OnAir, HostState
      <4>3. CASE \E p \in Permissions : SetInputPermissions(h, p)
        BY <1>1, <2>0, <4>3 DEF SetInputPermissions, OnAir, HostState
      <4> QED
        BY <2>6, <4>1, <4>2, <4>3
    <3> QED
      BY <1>3, <2>0, <3>1, <3>2, <3>3
  <2>7. CASE RegisterAgain(h) \/ SendReannounce(h)
    BY <1>3, <2>0, <2>7 DEF RegisterAgain, SendReannounce, OnAir, history
  <2> QED
    BY <1>4, <2>1, <2>2, <2>3, <2>4, <2>5, <2>6, <2>7 DEF HostStep
<1>5. ASSUME Next, ~\E h \in Devices : HostStep(h) PROVE host' = host /\ aired' = aired
  BY <1>5 DEF Next, RequestGroupSync, HeartbeatCheck, PeerOnline, Deliver, Tick, history
<1>6. CASE host' = host /\ aired' = aired
  BY <1>6 DEF ShownInv, AiredByHosts, OnAir
<1> QED
  BY <1>4, <1>5, <1>6 DEF vars

-----------------------------------------------------------------------------
\* The invariant holds initially.
LEMMA ShownInit == Init => ShownInv
<1> SUFFICES ASSUME Init PROVE ShownInv
  OBVIOUS
<1>1. DiscoveryInv
  BY InitInv
<1>2. ShownRegistries
  BY DEF Init, ShownRegistries, RegistryNames, EmptyRegistry
<1>3. ShownMessages
  BY DEF Init, ShownMessages
<1>4. AiredByHosts
  BY DEF Init, AiredByHosts, OnAir
<1> QED
  BY <1>1, <1>2, <1>3, <1>4 DEF ShownInv

\* Every step keeps the invariant.
LEMMA ShownNext == ShownInv /\ [Next]_vars => ShownInv'
<1> SUFFICES ASSUME ShownInv, [Next]_vars PROVE ShownInv'
  OBVIOUS
<1>1. DiscoveryInv'
  BY NextInv DEF ShownInv
<1>2. ASSUME NEW h \in Devices, PublishRestarted(h) \/ RegisterAgain(h)
      PROVE  ShownRegistries' /\ ShownMessages'
  BY <1>2, RegisterOwnShown
<1>3. ASSUME NEW h \in Devices, HostStep(h) PROVE ShownRegistries' /\ ShownMessages'
  BY <1>2, <1>3, PublishStartedShown, AnnounceShown, SendReannounceShown,
     OtherHostStepShown, StopShown, SetInputPermissionsShown DEF HostStep
<1>4. ASSUME Next, ~\E h \in Devices : HostStep(h)
      PROVE  ShownRegistries' /\ ShownMessages'
  BY <1>4, PeerOnlineShown, RequestGroupSyncShown, DeliverShown, HeartbeatCheckShown,
     TickShown DEF Next
<1>5. ASSUME UNCHANGED vars PROVE ShownRegistries' /\ ShownMessages'
  BY <1>5, SameRegistriesShown, NoMessagesShown DEF vars
<1>6. ShownRegistries' /\ ShownMessages'
  BY <1>3, <1>4, <1>5
<1>7. AiredByHosts'
  BY AiredNext
<1> QED
  BY <1>1, <1>6, <1>7 DEF ShownInv

\* However messages are reordered, relayed and lost, no registry and no message
\* ever names a session whose media its host did not bring up under that stream.
THEOREM PublishedShown == Spec => []OnlyPublishedShown
<1>1. ShownInv => OnlyPublishedShown
  <2> SUFFICES ASSUME ShownInv PROVE OnlyPublishedShown
    OBVIOUS
  <2>1. ASSUME NEW k \in Streams, NEW a, Names(a, aired[k]) PROVE Published(k, a)
    BY <2>1 DEF Names, Published
  <2>2. \A m \in net : m.type = "started" => m.stream \in Streams
    BY DEF ShownInv, DiscoveryInv, TypeOK, Message
  <2> QED
    BY <2>1, <2>2 DEF ShownInv, ShownRegistries, ShownMessages, RegistryNames, ListNames,
       Listed, OnlyPublishedShown
<1>2. Spec => []ShownInv
  BY ShownInit, ShownNext, PTL DEF Spec
<1> QED
  BY <1>1, <1>2, PTL

-----------------------------------------------------------------------------
(****************************************************************************)
(* 4. Revisions                                                             *)
(****************************************************************************)
\* Registry s is no older than r: an entry of both is of no earlier revision in s.
NoOlder(r, s) ==
    \A k \in Streams :
       r.streams[k] # NoEntry /\ s.streams[k] # NoEntry =>
          s.streams[k].ann.revision >= r.streams[k].ann.revision

\* A session that has not been announced yet has sent no heartbeat, and so the
\* starts in flight carry the sequence 0, which no present entry is below.
FreshStarts ==
    /\ \A d \in Devices : host[d].state = "starting" => host[d].seq = 0
    /\ \A m \in net : m.type = "started" /\ ~m.replaces => m.ann.seq = 0

RevisionInv == ShownInv /\ FreshStarts

-----------------------------------------------------------------------------
\* A registry is no older than itself.
LEMMA NoOlderThanItself ==
    ASSUME NEW r, Sound(r)
    PROVE  NoOlder(r, r)
<1>1. ASSUME NEW k \in Streams, r.streams[k] # NoEntry
      PROVE  r.streams[k].ann.revision \in Nat
  BY <1>1 DEF Sound, Registry, Entry, Announcement
<1> QED
  BY <1>1 DEF NoOlder

\* Neither is a registry with fewer entries.
LEMMA RemovalNoOlder ==
    ASSUME NEW r, Sound(r), NEW s,
           \A k \in Streams : s.streams[k] \in {NoEntry, r.streams[k]}
    PROVE  NoOlder(r, s)
BY NoOlderThanItself DEF NoOlder

\* Writing an announcement that is no older than the entry it replaces.
LEMMA PutNoOlder ==
    ASSUME NEW r, Sound(r), NEW k \in Streams, NEW a \in Announcement,
           r.streams[k] # NoEntry => a.revision >= r.streams[k].ann.revision
    PROVE  NoOlder(r, Put(r, k, a))
<1>1. ASSUME NEW j \in Streams \ {k} PROVE Put(r, k, a).streams[j] = r.streams[j]
  BY DEF Put, Sound, Registry
<1>2. Put(r, k, a).streams[k].ann = a
  BY DEF Put, Sound, Registry
<1> QED
  BY <1>1, <1>2, NoOlderThanItself DEF NoOlder

\* stream.started never replaces a present entry: its sequence is 0.
LEMMA HandleStartedNoOlder ==
    ASSUME NEW r, Sound(r), NEW k \in Streams, NEW a \in Announcement, a.seq = 0
    PROVE  NoOlder(r, HandleStarted(r, k, a, FALSE))
<1> DEFINE u == [r EXCEPT !.tombstones[k] = NoTime]
<1>1. u.streams = r.streams /\ u.sequences = r.sequences /\ Sound(u)
  BY UnburySound DEF Sound, Registry
<1>2. CASE r.streams[k] = NoEntry
  <2>1. NoOlder(u, Put(u, k, a))
    BY <1>1, <1>2, PutNoOlder
  <2>2. NoOlder(r, Put(u, k, a))
    BY <1>1, <2>1 DEF NoOlder
  <2> QED
    BY <1>1, <1>2, <2>2, NoOlderThanItself DEF HandleStarted, NoOlder
<1>3. CASE r.streams[k] # NoEntry
  <2>1. r.sequences[k] = r.streams[k].ann.seq /\ r.streams[k].ann.seq \in Nat
    BY <1>3 DEF Sound, Agree, Registry, Entry, Announcement
  <2>2. HandleStarted(r, k, a, FALSE) \in {r, u}
    BY <1>3, <2>1 DEF HandleStarted
  <2> QED
    BY <1>1, <2>2, NoOlderThanItself DEF NoOlder
<1> QED
  BY <1>2, <1>3

\* A heartbeat and a change of permissions keep the revision.
LEMMA HandleHeartbeatNoOlder ==
    ASSUME NEW r, Sound(r), NEW k \in Streams, NEW seq \in Nat
    PROVE  NoOlder(r, HandleHeartbeat(r, k, seq))
<1>1. CASE r.streams[k] = NoEntry
  BY <1>1, NoOlderThanItself DEF HandleHeartbeat
<1>2. CASE r.streams[k] # NoEntry
  <2>1. r.streams[k] \in Entry
    BY <1>2 DEF Sound, Registry
  <2>2. [r.streams[k].ann EXCEPT !.seq = seq].revision = r.streams[k].ann.revision
    BY <2>1 DEF Entry, Announcement
  <2>3. ASSUME NEW j \in Streams, r.streams[j] # NoEntry
        PROVE  HandleHeartbeat(r, k, seq).streams[j].ann.revision = r.streams[j].ann.revision
    BY <2>2, <2>3 DEF HandleHeartbeat, Sound, Registry
  <2> QED
    BY <2>3, NoOlderThanItself DEF NoOlder
<1> QED
  BY <1>1, <1>2

\* Permissions do not touch the revision.
LEMMA UpdateInputPermissionsNoOlder ==
    ASSUME NEW r, Sound(r), NEW k \in Streams, NEW p \in Permissions
    PROVE  NoOlder(r, UpdateInputPermissions(r, k, p))
<1>1. CASE k \notin Visible(r)
  BY <1>1, NoOlderThanItself DEF UpdateInputPermissions
<1>2. CASE k \in Visible(r)
  <2>1. r.streams[k] \in Entry
    BY <1>2 DEF Visible, Sound, Registry
  <2>2. [r.streams[k] EXCEPT !.ann.perms = p].ann.revision = r.streams[k].ann.revision
    BY <2>1 DEF Entry, Announcement
  <2>3. ASSUME NEW j \in Streams
        PROVE  UpdateInputPermissions(r, k, p).streams[j].ann.revision
                 = r.streams[j].ann.revision
    BY <1>2, <2>2 DEF UpdateInputPermissions, Sound, Registry
  <2> QED
    BY <2>3, NoOlderThanItself DEF NoOlder
<1> QED
  BY <1>1, <1>2

\* Of a list, only announcements of the entry's revision or a later one are taken.
LEMMA HandleSnapshotNoOlder ==
    ASSUME NEW r, Sound(r), NEW snap \in Snapshot
    PROVE  NoOlder(r, HandleSnapshot(r, snap))
BY NoOlderThanItself DEF HandleSnapshot, TakesSnapshot, NoOlder

\* A stop, a refresh and the periodic check only remove entries.
LEMMA HandleStoppedNoOlder ==
    ASSUME NEW r, Sound(r), NEW k \in Streams
    PROVE  NoOlder(r, HandleStopped(r, k))
<1>1. \A j \in Streams : HandleStopped(r, k).streams[j] \in {NoEntry, r.streams[j]}
  BY DEF HandleStopped, Bury, Sound, Registry
<1> QED
  BY <1>1, RemovalNoOlder

LEMMA ClearGroupStreamsNoOlder ==
    ASSUME NEW r, Sound(r), NEW keep
    PROVE  NoOlder(r, ClearGroupStreams(r, keep))
<1>1. \A j \in Streams : ClearGroupStreams(r, keep).streams[j] \in {NoEntry, r.streams[j]}
  BY DEF ClearGroupStreams, Sound, Registry
<1> QED
  BY <1>1, RemovalNoOlder

LEMMA CheckNoOlder ==
    ASSUME NEW r, Sound(r), NEW gone
    PROVE  NoOlder(r, Evict(DropOldTombstones(ExpireStreams(r)), gone))
<1>1. \A j \in Streams : ExpireStreams(r).streams[j] \in {NoEntry, r.streams[j]}
  BY DEF ExpireStreams
<1>2. Sound(ExpireStreams(r)) /\ Sound(DropOldTombstones(ExpireStreams(r)))
  BY ExpireStreamsSound, DropOldTombstonesSound
<1>3. DropOldTombstones(ExpireStreams(r)).streams = ExpireStreams(r).streams
  BY <1>2 DEF DropOldTombstones, Sound, Registry
<1>4. Evict(DropOldTombstones(ExpireStreams(r)), gone).streams = ExpireStreams(r).streams
  BY <1>2, <1>3 DEF Evict, Sound, Registry
<1> QED
  BY <1>1, <1>4, RemovalNoOlder

\* Time changes no announcement.
LEMMA AgeRegistryNoOlder ==
    ASSUME NEW r, Sound(r)
    PROVE  NoOlder(r, AgeRegistry(r))
BY NoOlderThanItself DEF AgeRegistry, NoOlder

-----------------------------------------------------------------------------
\* A message other than a stream.restarted makes no registry older.
LEMMA HandleNoOlder ==
    ASSUME NEW r, Sound(r), NEW m \in Message, ~(m.type = "started" /\ m.replaces),
           m.type = "started" => m.ann.seq = 0
    PROVE  NoOlder(r, Handle(r, m))
<1>1. CASE m.type = "started"
  <2>1. m.stream \in Streams /\ m.ann \in Announcement /\ m.replaces = FALSE
    BY <1>1 DEF Message
  <2> QED
    BY <1>1, <2>1, HandleStartedNoOlder DEF Handle
<1>2. CASE m.type = "heartbeat"
  <2>1. m.stream \in Streams /\ m.seq \in Nat
    BY <1>2 DEF Message
  <2> QED
    BY <1>2, <2>1, HandleHeartbeatNoOlder DEF Handle
<1>3. CASE m.type = "stopped"
  <2>1. m.stream \in Streams
    BY <1>3 DEF Message
  <2> QED
    BY <1>3, <2>1, HandleStoppedNoOlder DEF Handle
<1>4. CASE m.type = "permissions"
  <2>1. m.stream \in Streams /\ m.perms \in Permissions
    BY <1>4 DEF Message
  <2> QED
    BY <1>4, <2>1, UpdateInputPermissionsNoOlder DEF Handle
<1>5. CASE m.type = "snapshot"
  <2>1. m.streams \in Snapshot
    BY <1>5 DEF Message
  <2> QED
    BY <1>5, <2>1, HandleSnapshotNoOlder DEF Handle
<1>6. CASE m.type = "request"
  BY <1>6, NoOlderThanItself DEF Handle
<1> QED
  BY <1>1, <1>2, <1>3, <1>4, <1>5, <1>6 DEF Message

-----------------------------------------------------------------------------
\* What a host registers of its own stream is the latest session there is.
LEMMA RegisterLocalStreamNoOlder ==
    ASSUME NEW r, Sound(r), NEW k \in Streams, NEW a \in Announcement,
           r.streams[k] # NoEntry => a.revision >= r.streams[k].ann.revision
    PROVE  NoOlder(r, RegisterLocalStream(r, k, a))
<1> DEFINE u == [r EXCEPT !.tombstones[k] = NoTime]
<1>1. u.streams = r.streams /\ Sound(u)
  BY UnburySound DEF Sound, Registry
<1>2. NoOlder(u, Put(u, k, a))
  BY <1>1, PutNoOlder
<1>3. RegisterLocalStream(r, k, a) = Put(u, k, a)
  BY DEF RegisterLocalStream
<1> HIDE DEF u
<1> QED
  BY <1>1, <1>2, <1>3 DEF NoOlder

\* In a step that replaces the registry of one device by one that is no older ...
LEMMA OneNoOlder ==
    ASSUME ShownInv, NEW d \in Devices, NEW r, NoOlder(registry[d], r),
           registry' = [registry EXCEPT ![d] = r]
    PROVE  \A e \in Devices : NoOlder(registry[e], registry'[e])
<1>1. \A e \in Devices : Sound(registry[e])
  BY DEF ShownInv, DiscoveryInv, AllSound
<1> QED
  BY <1>1, NoOlderThanItself DEF ShownInv, DiscoveryInv, TypeOK

\* ... or leaves them all, no registry becomes older.
LEMMA SameNoOlder ==
    ASSUME ShownInv, registry' = registry
    PROVE  \A e \in Devices : NoOlder(registry[e], registry'[e])
BY NoOlderThanItself DEF ShownInv, DiscoveryInv, AllSound

\* A host's own entry is of no later revision than the host.
LEMMA OwnEntry ==
    ASSUME ShownInv, NEW h \in Devices, NEW k \in Streams, Owner[k] = h,
           registry[h].streams[k] # NoEntry
    PROVE  /\ registry[h].streams[k].ann.revision \in Nat
           /\ registry[h].streams[k].ann.revision <= host[h].revision
<1>1. registry[h].streams[k] \in Entry
  BY DEF ShownInv, DiscoveryInv, TypeOK, Registry
<1>2. Names(registry[h].streams[k].ann, aired[k])
  BY DEF ShownInv, ShownRegistries, RegistryNames
<1> QED
  BY <1>1, <1>2 DEF Entry, Announcement, Names, ShownInv, AiredByHosts

\* startStream registers a revision above all earlier ones.
LEMMA PublishStartedNoOlder ==
    ASSUME ShownInv, [Next]_vars, NEW h \in Devices, NEW k \in Streams,
           NEW p \in Permissions, PublishStarted(h, k, p)
    PROVE  \A e \in Devices : NoOlder(registry[e], registry'[e])
<1> DEFINE s == [NextSession(host[h]) EXCEPT !.state = "starting", !.stream = k,
                                             !.perms = p]
<1>1. /\ host' = [host EXCEPT ![h] = s]
      /\ registry' = [registry EXCEPT ![h] = RegisterLocalStream(registry[h], k,
           BuildAnnouncement(s))]
      /\ Owner[k] = h
  BY DEF PublishStarted
<1>2. host[h] \in HostState
  BY DEF ShownInv, DiscoveryInv, TypeOK
<1>3. NextSession(host[h]) \in HostState /\ NextSession(host[h]).revision = host[h].revision + 1
  BY <1>2, NextSessionType
<1>4. s \in HostState /\ s.revision = host[h].revision + 1
  BY <1>3 DEF HostState, SessionState
<1> HIDE DEF s
<1>5. BuildAnnouncement(s) \in Announcement /\ BuildAnnouncement(s).revision = s.revision
  BY <1>4, BuildAnnouncementType DEF BuildAnnouncement
<1>6. host[h].revision \in Nat
  BY <1>2 DEF HostState
<1>7. registry[h].streams[k] # NoEntry =>
        BuildAnnouncement(s).revision >= registry[h].streams[k].ann.revision
  BY <1>1, <1>4, <1>5, <1>6, OwnEntry
<1>8. Sound(registry[h])
  BY DEF ShownInv, DiscoveryInv, AllSound
<1>9. NoOlder(registry[h], RegisterLocalStream(registry[h], k, BuildAnnouncement(s)))
  BY <1>5, <1>7, <1>8, RegisterLocalStreamNoOlder
<1> QED
  BY <1>1, <1>9, OneNoOlder

\* restartStream, switchSource and a viewer's join register the current one.
LEMMA RegisterOwnNoOlder ==
    ASSUME ShownInv, NEW h \in Devices, PublishRestarted(h) \/ RegisterAgain(h)
    PROVE  \A e \in Devices : NoOlder(registry[e], registry'[e])
<1> DEFINE k == host[h].stream
           a == BuildAnnouncement(host[h])
<1>1. host[h] \in HostState /\ k \in Streams /\ Owner[k] = h
  BY DEF ShownInv, DiscoveryInv, TypeOK, HostNamed, Sharing, PublishRestarted, RegisterAgain
<1>2. a \in Announcement /\ a.revision = host[h].revision
  BY <1>1, BuildAnnouncementType DEF BuildAnnouncement
<1>3. registry' = [registry EXCEPT ![h] = RegisterLocalStream(registry[h], k, a)]
  BY DEF PublishRestarted, RegisterAgain
<1>4. host[h].revision \in Nat
  BY <1>1 DEF HostState
<1> HIDE DEF a, k
<1>5. registry[h].streams[k] # NoEntry => a.revision >= registry[h].streams[k].ann.revision
  BY <1>1, <1>2, <1>4, OwnEntry
<1>6. Sound(registry[h])
  BY DEF ShownInv, DiscoveryInv, AllSound
<1>7. NoOlder(registry[h], RegisterLocalStream(registry[h], k, a))
  BY <1>1, <1>2, <1>5, <1>6, RegisterLocalStreamNoOlder
<1> QED
  BY <1>3, <1>7, OneNoOlder

-----------------------------------------------------------------------------
\* Only startStream begins a session that has not been announced, at sequence 0.
LEMMA StartingFresh ==
    ASSUME RevisionInv, [Next]_vars, NEW d \in Devices, host'[d].state = "starting"
    PROVE  host'[d].seq = 0
<1> USE DEF RevisionInv, ShownInv, DiscoveryInv, TypeOK
<1>0. host[d].state = "starting" => host[d].seq = 0
  BY DEF FreshStarts
<1>1. CASE host' = host
  BY <1>0, <1>1
<1>2. ASSUME NEW h \in Devices, HostStep(h) PROVE host'[d].seq = 0
  <2>1. host[h] \in HostState /\ NextSession(host[h]) \in HostState
        /\ NextSession(host[h]).state = host[h].state
    BY NextSessionType
  <2>2. CASE h # d
    <3>1. host'[d] = host[d]
      BY <1>2, <2>2 DEF HostStep, PublishStarted, StartFails, Announce, BeginRestart,
         PublishRestarted, RestartFails, Stop, RegisterAgain, SetInputPermissions,
         SendHeartbeat, SendReannounce
    <3> QED
      BY <1>0, <3>1
  <2>3. ASSUME h = d, NEW k \in Streams, NEW p \in Permissions, PublishStarted(h, k, p)
        PROVE  host'[d].seq = 0
    <3>1. NextSession(host[h]).seq = 0
      BY <2>1 DEF NextSession, HostState
    <3>2. host'[h].seq = NextSession(host[h]).seq
      BY <2>1, <2>3 DEF PublishStarted, HostState
    <3> QED
      BY <2>3, <3>1, <3>2
  <2>4. ASSUME h = d, (\E k \in Streams : StartFails(h, k)) \/ RestartFails(h) \/ Stop(h)
        PROVE  host'[d].state # "starting"
    <3>1. PICK s \in HostState, state \in {"failed", "idle"} :
             host' = [host EXCEPT ![h] = WithoutStream(s, state)]
      BY <2>1, <2>4 DEF StartFails, RestartFails, Stop
    <3>2. WithoutStream(s, state).state = state
      BY <3>1, WithoutStreamType DEF SessionState
    <3> QED
      BY <2>4, <3>1, <3>2
  <2>5. ASSUME h = d, Announce(h) \/ BeginRestart(h) PROVE host'[d].state # "starting"
    BY <2>1, <2>5 DEF Announce, BeginRestart, HostState
  <2>6. ASSUME h = d, PublishRestarted(h) \/ SendHeartbeat(h)
        PROVE  host'[d].state # "starting"
    <3>1. host[d].state # "starting" /\ host'[d].state = host[d].state
      <4>1. CASE PublishRestarted(h)
        BY <2>1, <2>6, <4>1 DEF PublishRestarted, HostState
      <4>2. CASE SendHeartbeat(h)
        BY <2>1, <2>6, <4>2 DEF SendHeartbeat, HostState
      <4> QED
        BY <2>6, <4>1, <4>2
    <3> QED
      BY <3>1
  <2>7. ASSUME h = d, NEW p \in Permissions, SetInputPermissions(h, p)
        PROVE  host'[d].seq = 0
    <3>1. host'[d].seq = host[d].seq /\ host'[d].state = host[d].state
      BY <2>1, <2>7 DEF SetInputPermissions, HostState
    <3> QED
      BY <1>0, <3>1
  <2>8. CASE RegisterAgain(h) \/ SendReannounce(h)
    BY <1>1, <2>8 DEF RegisterAgain, SendReannounce
  <2> QED
    BY <1>2, <2>2, <2>3, <2>4, <2>5, <2>6, <2>7, <2>8 DEF HostStep
<1>3. ASSUME Next, ~\E h \in Devices : HostStep(h) PROVE host' = host
  BY <1>3 DEF Next, RequestGroupSync, HeartbeatCheck, PeerOnline, Deliver, Tick
<1>4. CASE UNCHANGED vars
  BY <1>1, <1>4 DEF vars
<1> QED
  BY <1>1, <1>2, <1>3, <1>4

\* The only step that sends stream.started is the announcement of such a session.
LEMMA StartsFresh ==
    ASSUME RevisionInv, [Next]_vars, NEW m \in net', m.type = "started", ~m.replaces
    PROVE  m.ann.seq = 0
<1> USE DEF RevisionInv, ShownInv, DiscoveryInv, TypeOK
<1>1. CASE m \in net
  BY <1>1 DEF FreshStarts
<1>2. CASE m \notin net
  <2>1. ASSUME NEW h \in Devices, Announce(h) PROVE m.ann.seq = 0
    <3>1. m.replaces = host[h].published /\ m.ann = BuildAnnouncement(host[h])
      BY <1>2, <2>1 DEF Announce, Send
    <3>2. host[h].state = "starting"
      BY <2>1, <3>1 DEF Announce
    <3> QED
      BY <3>1, <3>2 DEF FreshStarts, BuildAnnouncement
  <2>2. ASSUME NEW h \in Devices, HostStep(h), ~Announce(h) PROVE FALSE
    <3>1. CASE net' = net
      BY <1>2, <3>1
    <3>2. CASE Stop(h) /\ net' # net
      <4>1. PICK S \in Reachable(h) : net' = net \cup
               {[type |-> "stopped", to |-> p, stream |-> host[h].stream] : p \in S}
        BY <3>2 DEF Stop, Send
      <4> QED
        BY <1>2, <4>1
    <3>3. ASSUME NEW p \in Permissions, SetInputPermissions(h, p), net' # net PROVE FALSE
      <4>1. PICK S \in Reachable(h) : net' = net \cup
               {[type |-> "permissions", to |-> q, stream |-> host[h].stream,
                 perms |-> p] : q \in S}
        BY <3>3 DEF SetInputPermissions, Send
      <4> QED
        BY <1>2, <4>1
    <3>4. CASE SendHeartbeat(h)
      <4>1. PICK S \in Reachable(h) : net' = net \cup
               {[type |-> "heartbeat", to |-> p, stream |-> host[h].stream,
                 session |-> host[h].session, seq |-> host[h].seq + 1] : p \in S}
        BY <3>4 DEF SendHeartbeat, Send
      <4> QED
        BY <1>2, <4>1
    <3>5. CASE SendReannounce(h)
      <4> DEFINE snap == [k \in Streams |-> IF k = host[h].stream
                                            THEN BuildAnnouncement(host[h]) ELSE NoEntry]
      <4>1. PICK S \in Reachable(h) :
               net' = net \cup {[type |-> "snapshot", to |-> p, streams |-> snap] : p \in S}
        BY <3>5 DEF SendReannounce, Send
      <4> HIDE DEF snap
      <4> QED
        BY <1>2, <4>1
    <3>6. ASSUME ~Stop(h), ~\E p \in Permissions : SetInputPermissions(h, p),
                 ~SendHeartbeat(h), ~SendReannounce(h)
          PROVE  net' = net
      BY <2>2, <3>6 DEF HostStep, PublishStarted, StartFails, BeginRestart,
         PublishRestarted, RestartFails, RegisterAgain
    <3> QED
      BY <3>1, <3>2, <3>3, <3>4, <3>5, <3>6
  <2>3. ASSUME NEW h \in Devices, RequestGroupSync(h) PROVE FALSE
    <3>1. PICK S \in Reachable(h) :
             net' = net \cup {[type |-> "request", to |-> p, from |-> h] : p \in S}
      BY <2>3 DEF RequestGroupSync, Send
    <3> QED
      BY <1>2, <3>1
  <2>4. ASSUME NEW d \in Devices, NEW p \in Devices, PeerOnline(d, p) PROVE FALSE
    <3>1. net' \subseteq net \cup {[type |-> "request", to |-> p, from |-> d],
             [type |-> "snapshot", to |-> p, streams |-> StreamsByGroup(registry[d])]}
      BY <2>4 DEF PeerOnline, Send
    <3> QED
      BY <1>2, <3>1
  <2>5. ASSUME NEW n \in net, Deliver(n) PROVE FALSE
    BY <1>2, <2>5 DEF Deliver
  <2>6. ASSUME Tick \/ UNCHANGED vars \/ \E d \in Devices : HeartbeatCheck(d)
        PROVE  FALSE
    BY <1>2, <2>6 DEF Tick, vars, HeartbeatCheck
  <2> QED
    BY <2>1, <2>2, <2>3, <2>4, <2>5, <2>6 DEF Next
<1> QED
  BY <1>1, <1>2

\* The invariant holds at the start and is kept by every step.
LEMMA RevisionInit == Init => RevisionInv
BY ShownInit DEF Init, RevisionInv, FreshStarts

LEMMA RevisionNext == RevisionInv /\ [Next]_vars => RevisionInv'
BY ShownNext, StartingFresh, StartsFresh DEF RevisionInv, FreshStarts

-----------------------------------------------------------------------------
\* No step but the delivery of a stream.restarted makes a registry older.
LEMMA StepNoOlder ==
    ASSUME RevisionInv, [Next]_vars,
           ~\E m \in net : m.type = "started" /\ m.replaces /\ Deliver(m)
    PROVE  \A d \in Devices : NoOlder(registry[d], registry'[d])
<1> USE DEF RevisionInv
<1>1. ASSUME NEW d \in Devices PROVE Sound(registry[d])
  BY DEF ShownInv, DiscoveryInv, AllSound
<1>2. CASE registry' = registry
  BY <1>2, SameNoOlder
<1>3. ASSUME NEW h \in Devices, NEW k \in Streams, registry' # registry,
             registry' = [registry EXCEPT ![h] = HandleStopped(registry[h], k)]
      PROVE  \A d \in Devices : NoOlder(registry[d], registry'[d])
  BY <1>1, <1>3, HandleStoppedNoOlder, OneNoOlder
<1>4. ASSUME NEW h \in Devices, Stop(h), registry' # registry
      PROVE  \A d \in Devices : NoOlder(registry[d], registry'[d])
  <2>1. host[h].stream \in Streams
    BY <1>4 DEF Stop, ShownInv, DiscoveryInv, TypeOK, HostState
  <2> QED
    BY <1>3, <1>4, <2>1 DEF Stop
<1>5. ASSUME NEW h \in Devices, NEW p \in Permissions, SetInputPermissions(h, p)
      PROVE  \A d \in Devices : NoOlder(registry[d], registry'[d])
  <2>1. host[h].stream \in Streams
    BY <1>5 DEF SetInputPermissions, ShownInv, DiscoveryInv, HostNamed, Sharing
  <2>2. registry' = [registry EXCEPT ![h] =
                       UpdateInputPermissions(registry[h], host[h].stream, p)]
    BY <1>5 DEF SetInputPermissions
  <2> QED
    BY <1>1, <2>1, <2>2, UpdateInputPermissionsNoOlder, OneNoOlder
<1>6. ASSUME NEW h \in Devices, HostStep(h)
      PROVE  \A d \in Devices : NoOlder(registry[d], registry'[d])
  <2>1. ASSUME NEW k \in Streams, StartFails(h, k) PROVE registry' = registry
    BY <2>1 DEF StartFails
  <2>2. ASSUME Announce(h) \/ BeginRestart(h) \/ RestartFails(h) \/ SendHeartbeat(h)
               \/ SendReannounce(h)
        PROVE  registry' = registry
    BY <2>2 DEF Announce, BeginRestart, RestartFails, SendHeartbeat, SendReannounce
  <2> QED
    BY <1>2, <1>4, <1>5, <1>6, <2>1, <2>2, PublishStartedNoOlder, RegisterOwnNoOlder
       DEF HostStep
<1>7. ASSUME NEW d \in Devices, RequestGroupSync(d)
      PROVE  \A e \in Devices : NoOlder(registry[e], registry'[e])
  BY <1>1, <1>7, ClearGroupStreamsNoOlder, OneNoOlder DEF RequestGroupSync
<1>8. ASSUME NEW d \in Devices, HeartbeatCheck(d)
      PROVE  \A e \in Devices : NoOlder(registry[e], registry'[e])
  <2>1. PICK gone : registry' = [registry EXCEPT ![d] =
                      Evict(DropOldTombstones(ExpireStreams(registry[d])), gone)]
    BY <1>8 DEF HeartbeatCheck
  <2> QED
    BY <1>1, <2>1, CheckNoOlder, OneNoOlder
<1>9. ASSUME NEW m \in net, Deliver(m)
      PROVE  \A e \in Devices : NoOlder(registry[e], registry'[e])
  <2>1. m \in Message /\ m.to \in Devices
    BY DEF ShownInv, DiscoveryInv, TypeOK, Message
  <2>2. ~(m.type = "started" /\ m.replaces)
    BY <1>9
  <2>3. m.type = "started" => m.ann.seq = 0
    BY <2>2 DEF FreshStarts
  <2>4. NoOlder(registry[m.to], Handle(registry[m.to], m))
    BY <1>1, <2>1, <2>2, <2>3, HandleNoOlder
  <2> QED
    BY <1>9, <2>1, <2>4, OneNoOlder DEF Deliver
<1>10. ASSUME Tick PROVE \A e \in Devices : NoOlder(registry[e], registry'[e])
  BY <1>1, <1>10, AgeRegistryNoOlder DEF Tick
<1>11. ASSUME NEW d \in Devices, NEW p \in Devices, PeerOnline(d, p)
       PROVE  registry' = registry
  BY <1>11 DEF PeerOnline
<1>12. ASSUME UNCHANGED vars PROVE registry' = registry
  BY <1>12 DEF vars
<1> QED
  BY <1>2, <1>6, <1>7, <1>8, <1>9, <1>10, <1>11, <1>12 DEF Next

\* While a device keeps a stream, neither a relayed list nor a start or heartbeat
\* in flight takes it back to a session that has been replaced; only a
\* stream.restarted that is itself late can.
THEOREM RevisionsGrow == Spec => RevisionNeverRegresses
<1>1. ASSUME RevisionInv, [Next]_vars
      PROVE  [\A d \in Devices, k \in Streams :
                 /\ registry[d].streams[k] # NoEntry
                 /\ registry'[d].streams[k] # NoEntry
                 /\ ~\E m \in net : m.type = "started" /\ m.replaces /\ Deliver(m)
                 => registry'[d].streams[k].ann.revision
                      >= registry[d].streams[k].ann.revision]_vars
  BY <1>1, StepNoOlder DEF NoOlder
<1>2. Spec => []RevisionInv
  BY RevisionInit, RevisionNext, PTL DEF Spec
<1> QED
  BY <1>1, <1>2, PTL DEF Spec, RevisionNeverRegresses

-----------------------------------------------------------------------------
(****************************************************************************)
(* 5. The life of streams                                                   *)
(****************************************************************************)
\* A host without a session has no stream, and its stream is drawn and not
\* retired; nobody tells a host that its own stream stopped.
HostsApart ==
    /\ \A h \in Devices : host[h].state \in {"idle", "failed"} => host[h].stream = NoStream
    /\ \A h \in Devices : host[h].stream \notin unused
    /\ \A k \in Streams : k \in unused \/ host[Owner[k]].stream = k
                             => k \notin retired[Owner[k]]
    /\ \A m \in net : m.type = "stopped" => m.to # Owner[m.stream]

LifeInv == DiscoveryInv /\ HostsApart

-----------------------------------------------------------------------------
\* A stream moves alone: what is left to show is where it goes.
LEMMA OnePhase ==
    ASSUME NEW k \in Streams, NEW to, Phase'[k] = to,
           \A j \in Streams \ {k} : Phase'[j] = Phase[j]
    PROVE  Phase' = [Phase EXCEPT ![k] = to]
<1> DEFINE moved == [j \in Streams |-> IF j = k THEN to ELSE Phase[j]]
<1>1. Phase' = [j \in Streams |-> Phase'[j]] /\ Phase = [j \in Streams |-> Phase[j]]
  BY DEF Phase
<1>2. [Phase EXCEPT ![k] = to] = moved
  BY <1>1
<1>3. Phase' = moved
  BY <1>1
<1> QED
  BY <1>2, <1>3

\* A step that keeps every host's stream and, while it has one, its state leaves
\* every stream where it is.
StreamsKept ==
    /\ unused' = unused
    /\ \A d \in Devices :
         /\ host'[d].stream = host[d].stream
         /\ host[d].stream = NoStream \/ host'[d].state = host[d].state
    /\ \A k \in Streams : k \in retired'[Owner[k]] <=> k \in retired[Owner[k]]

NoNewStops == \A m \in net' : m \in net \/ m.type # "stopped"

\* Such a step is a stutter of StreamLife.
LEMMA SamePhase ==
    ASSUME LifeInv, StreamsKept
    PROVE  Phase' = Phase
BY DiscoveryAssumption DEF Phase, StreamsKept

\* It keeps the hosts apart unless it tells of a stop.
LEMMA StaysApart ==
    ASSUME LifeInv, StreamsKept, NoNewStops
    PROVE  HostsApart'
<1> USE DEF LifeInv, HostsApart, StreamsKept, NoNewStops
<1>1. \A h \in Devices : host'[h].state \in {"idle", "failed"} => host'[h].stream = NoStream
  OBVIOUS
<1>2. \A h \in Devices : host'[h].stream \notin unused'
  OBVIOUS
<1>3. \A k \in Streams : k \in unused' \/ host'[Owner[k]].stream = k => k \notin retired'[Owner[k]]
  BY DiscoveryAssumption
<1>4. \A m \in net' : m.type = "stopped" => m.to # Owner[m.stream]
  OBVIOUS
<1> QED
  BY <1>1, <1>2, <1>3, <1>4

\* The life of a host's current stream, and of the streams of other hosts.
LEMMA CurrentPhase ==
    ASSUME LifeInv, NEW h \in Devices, host[h].stream \in Streams
    PROVE  /\ Owner[host[h].stream] = h
           /\ Phase[host[h].stream] = host[h].state
           /\ host[h].state \in Sharing
<1>1. host[h] \in HostState
  BY DEF LifeInv, DiscoveryInv, TypeOK
<1>2. host[h].state \in Sharing
  BY <1>1, DiscoveryAssumption DEF LifeInv, HostsApart, HostState, SessionState, Sharing
<1>3. Owner[host[h].stream] = h
  BY <1>2 DEF LifeInv, DiscoveryInv, HostNamed
<1> QED
  BY <1>2, <1>3 DEF LifeInv, HostsApart, Phase

\* A step of one host's session that keeps its stream moves at most that stream.
LEMMA SessionStep ==
    ASSUME LifeInv, NEW h \in Devices, host[h].stream \in Streams,
           NEW s, host' = [host EXCEPT ![h] = s], s.stream = host[h].stream,
           unused' = unused, retired' = retired
    PROVE  Phase' = [Phase EXCEPT ![host[h].stream] = s.state]
<1>1. Owner[host[h].stream] = h /\ host[h].stream \notin unused
  BY CurrentPhase DEF LifeInv, HostsApart
<1>2. host'[h] = s /\ \A d \in Devices \ {h} : host'[d] = host[d]
  BY DEF LifeInv, DiscoveryInv, TypeOK
<1>3. Phase'[host[h].stream] = s.state
  BY <1>1, <1>2 DEF Phase
<1>4. \A j \in Streams \ {host[h].stream} : Phase'[j] = Phase[j]
  BY <1>2, DiscoveryAssumption DEF Phase
<1> QED
  BY <1>3, <1>4, OnePhase

-----------------------------------------------------------------------------
\* What a stream of StreamLife does when the current stream of a host moves.
LEMMA LifeMove ==
    ASSUME NEW k \in Streams, NEW to, Phase' = [Phase EXCEPT ![k] = to],
           \/ Phase[k] \in {"starting", "restarting"} /\ to = "active"
           \/ Phase[k] = "active" /\ to \in {"restarting", "stopped"}
           \/ Phase[k] \in {"new", "starting", "restarting"} /\ to = "lost"
    PROVE  Life!Next
BY DEF Life!Next, Life!Announce, Life!Restart, Life!Lose, Life!Stop, Life!Move

\* One lemma per action that moves a stream, saying which move of StreamLife it is.
LEMMA PublishStartedLife ==
    ASSUME LifeInv, NEW h \in Devices, NEW k \in Streams, NEW p \in Permissions,
           PublishStarted(h, k, p)
    PROVE  Life!Next
<1> DEFINE s == [NextSession(host[h]) EXCEPT !.state = "starting", !.stream = k,
                                             !.perms = p]
<1>1. host' = [host EXCEPT ![h] = s] /\ unused' = unused \ {k} /\ retired' = retired
      /\ Owner[k] = h /\ k \in unused /\ host[h].stream = NoStream
  BY DEF PublishStarted, history, LifeInv, HostsApart
<1>2. NextSession(host[h]) \in HostState
  BY NextSessionType DEF LifeInv, DiscoveryInv, TypeOK
<1>3. s.state = "starting" /\ s.stream = k
  BY <1>2 DEF HostState
<1> HIDE DEF s
<1>4. host'[h] = s /\ \A d \in Devices \ {h} : host'[d] = host[d]
  BY <1>1 DEF LifeInv, DiscoveryInv, TypeOK
<1>5. Phase[k] = "new" /\ Phase'[k] = "starting"
  BY <1>1, <1>3, <1>4 DEF Phase
<1>6. \A j \in Streams \ {k} : Phase'[j] = Phase[j]
  BY <1>1, <1>3, <1>4, DiscoveryAssumption DEF Phase
<1>7. \A j \in Streams : Owner[j] = Owner[k] => Phase[j] \notin Life!Running
  BY <1>1, DiscoveryAssumption DEF Phase, Life!Running
<1>8. Phase' = [Phase EXCEPT ![k] = "starting"]
  BY <1>5, <1>6, OnePhase
<1> QED
  BY <1>5, <1>7, <1>8 DEF Life!Next, Life!Start, Life!Move

LEMMA StartFailsLife ==
    ASSUME LifeInv, NEW h \in Devices, NEW k \in Streams, StartFails(h, k)
    PROVE  Life!Next
<1> DEFINE s == WithoutStream(NextSession(host[h]), "failed")
<1>1. host' = [host EXCEPT ![h] = s] /\ unused' = unused \ {k} /\ retired' = retired
      /\ Owner[k] = h /\ k \in unused /\ host[h].stream = NoStream
      /\ k \notin retired[h]
  BY DEF StartFails, history, LifeInv, HostsApart
<1>2. NextSession(host[h]) \in HostState
  BY NextSessionType DEF LifeInv, DiscoveryInv, TypeOK
<1>3. s.stream = NoStream
  BY <1>2 DEF WithoutStream, HostState
<1> HIDE DEF s
<1>4. host'[h] = s /\ \A d \in Devices \ {h} : host'[d] = host[d]
  BY <1>1 DEF LifeInv, DiscoveryInv, TypeOK
<1>5. Phase[k] = "new" /\ Phase'[k] = "lost"
  BY <1>1, <1>3, <1>4, DiscoveryAssumption DEF Phase
<1>6. \A j \in Streams \ {k} : Phase'[j] = Phase[j]
  BY <1>1, <1>3, <1>4, DiscoveryAssumption DEF Phase
<1>7. Phase' = [Phase EXCEPT ![k] = "lost"]
  BY <1>5, <1>6, OnePhase
<1> QED
  BY <1>5, <1>7, LifeMove

LEMMA AnnounceLife ==
    ASSUME LifeInv, NEW h \in Devices, Announce(h)
    PROVE  Life!Next
<1> DEFINE k == host[h].stream
           s == [host[h] EXCEPT !.state = "active", !.published = FALSE]
<1>1. host[h] \in HostState /\ host[h].state \in {"starting", "restarting"}
  BY DEF LifeInv, DiscoveryInv, TypeOK, HostNamed, Announce
<1>2. k \in Streams /\ Phase[k] \in {"starting", "restarting"}
  BY <1>1, CurrentPhase DEF LifeInv, DiscoveryInv, HostNamed, Sharing
<1>3. s.stream = k /\ s.state = "active"
  BY <1>1 DEF HostState
<1>4. host' = [host EXCEPT ![h] = s] /\ unused' = unused /\ retired' = retired
  BY DEF Announce, history, LifeInv, DiscoveryInv, TypeOK
<1> HIDE DEF s
<1>5. Phase' = [Phase EXCEPT ![k] = s.state]
  <2>1. s.stream = host[h].stream /\ host[h].stream \in Streams
    BY <1>2, <1>3
  <2> HIDE DEF k
  <2>2. Phase' = [Phase EXCEPT ![host[h].stream] = s.state]
    BY <2>1, <1>4, SessionStep
  <2> QED
    BY <2>2 DEF k
<1> HIDE DEF k
<1> QED
  BY <1>2, <1>3, <1>5, LifeMove

LEMMA BeginRestartLife ==
    ASSUME LifeInv, NEW h \in Devices, BeginRestart(h)
    PROVE  Life!Next
<1> DEFINE k == host[h].stream
           s == [NextSession(host[h]) EXCEPT !.state = "restarting"]
<1>1. host[h] \in HostState /\ host[h].state = "active"
  BY DEF LifeInv, DiscoveryInv, TypeOK, BeginRestart
<1>2. k \in Streams /\ Phase[k] = "active"
  BY <1>1, CurrentPhase DEF LifeInv, DiscoveryInv, HostNamed, Sharing
<1>3. s.stream = k /\ s.state = "restarting"
  BY <1>1, NextSessionType DEF HostState
<1>4. host' = [host EXCEPT ![h] = s] /\ unused' = unused /\ retired' = retired
  BY DEF BeginRestart, history
<1> HIDE DEF s
<1>5. Phase' = [Phase EXCEPT ![k] = s.state]
  <2>1. s.stream = host[h].stream /\ host[h].stream \in Streams
    BY <1>2, <1>3
  <2> HIDE DEF k
  <2>2. Phase' = [Phase EXCEPT ![host[h].stream] = s.state]
    BY <2>1, <1>4, SessionStep
  <2> QED
    BY <2>2 DEF k
<1> HIDE DEF k
<1> QED
  BY <1>2, <1>3, <1>5, LifeMove

\* A host that gives up its stream leaves it lost, or stopped if it says so.
LEMMA StreamGivenUp ==
    ASSUME LifeInv, NEW h \in Devices, host[h].stream \in Streams, NEW s,
           s.stream = NoStream, host' = [host EXCEPT ![h] = s], unused' = unused,
           \A k \in Streams \ {host[h].stream} : k \in retired'[Owner[k]] <=>
             k \in retired[Owner[k]]
    PROVE  Phase' = [Phase EXCEPT ![host[h].stream] =
                       IF host[h].stream \in retired'[h] THEN "stopped" ELSE "lost"]
<1> DEFINE k == host[h].stream
           to == IF k \in retired'[h] THEN "stopped" ELSE "lost"
<1>1. Owner[k] = h /\ k \notin unused
  BY CurrentPhase DEF LifeInv, HostsApart
<1>2. host'[h] = s /\ \A d \in Devices \ {h} : host'[d] = host[d]
  BY DEF LifeInv, DiscoveryInv, TypeOK
<1>3. Phase'[k] = to
  BY <1>1, <1>2, DiscoveryAssumption DEF Phase
<1>4. \A j \in Streams \ {k} : Phase'[j] = Phase[j]
  BY <1>1, <1>2, DiscoveryAssumption DEF Phase
<1> HIDE DEF to
<1>5. Phase' = [Phase EXCEPT ![k] = to]
  BY <1>3, <1>4, OnePhase
<1> QED
  BY <1>5 DEF to

\* The two ends of a stream: lost and stopped.
LEMMA RestartFailsLife ==
    ASSUME LifeInv, NEW h \in Devices, RestartFails(h)
    PROVE  Life!Next
<1> DEFINE k == host[h].stream
           s == WithoutStream(host[h], "failed")
<1>1. host[h] \in HostState /\ host[h].state = "restarting"
  BY DEF LifeInv, DiscoveryInv, TypeOK, RestartFails
<1>2. k \in Streams /\ Phase[k] = "restarting" /\ Owner[k] = h /\ k \notin retired[h]
  BY <1>1, CurrentPhase DEF LifeInv, DiscoveryInv, HostNamed, Sharing, HostsApart
<1>3. s.stream = NoStream
  BY <1>1 DEF HostState, WithoutStream
<1>4. host' = [host EXCEPT ![h] = s] /\ unused' = unused /\ retired' = retired
  BY DEF RestartFails, history
<1> HIDE DEF s
<1>5. Phase' = [Phase EXCEPT ![host[h].stream] =
                  IF host[h].stream \in retired'[h] THEN "stopped" ELSE "lost"]
  <2> HIDE DEF k
  <2>1. host[h].stream \in Streams
    BY <1>2 DEF k
  <2> QED
    BY <2>1, <1>3, <1>4, StreamGivenUp
<1>6. Phase' = [Phase EXCEPT ![k] = "lost"]
  BY <1>2, <1>4, <1>5
<1> HIDE DEF k
<1> QED
  BY <1>2, <1>6, LifeMove

LEMMA StopLife ==
    ASSUME LifeInv, NEW h \in Devices, Stop(h)
    PROVE  Life!Next \/ Phase' = Phase
<1> DEFINE k == host[h].stream
           s == WithoutStream(host[h], "idle")
<1>1. host[h] \in HostState
  BY DEF LifeInv, DiscoveryInv, TypeOK
<1>2. s.stream = NoStream
  BY <1>1 DEF HostState, WithoutStream
<1>3. host' = [host EXCEPT ![h] = s] /\ unused' = unused
  BY DEF Stop
<1>4. CASE host[h].state = "failed"
  <2>1. k = NoStream /\ retired' = retired
    BY <1>4 DEF Stop, LifeInv, HostsApart
  <2>2. StreamsKept
    BY <1>2, <1>3, <2>1 DEF StreamsKept, LifeInv, DiscoveryInv, TypeOK
  <2> QED
    BY <2>2, SamePhase
<1>5. CASE host[h].state = "active"
  <2>1. k \in Streams /\ Phase[k] = "active" /\ Owner[k] = h
    BY <1>5, CurrentPhase DEF LifeInv, DiscoveryInv, HostNamed, Sharing
  <2>2. retired' = [retired EXCEPT ![h] = retired[h] \cup {k}]
    BY <2>1, DiscoveryAssumption DEF Stop
  <2>3. k \in retired'[h] /\ \A j \in Streams \ {k} :
           j \in retired'[Owner[j]] <=> j \in retired[Owner[j]]
    BY <2>2, DiscoveryAssumption DEF LifeInv, DiscoveryInv, TypeOK
  <2> HIDE DEF s
  <2>4. Phase' = [Phase EXCEPT ![host[h].stream] =
                    IF host[h].stream \in retired'[h] THEN "stopped" ELSE "lost"]
    <3>1. host[h].stream \in Streams
          /\ \A j \in Streams \ {host[h].stream} : j \in retired'[Owner[j]] <=>
               j \in retired[Owner[j]]
      BY <2>1, <2>3
    <3> HIDE DEF k
    <3> QED
      BY <3>1, <1>2, <1>3, StreamGivenUp
  <2>5. Phase' = [Phase EXCEPT ![k] = "stopped"]
    BY <2>3, <2>4
  <2> HIDE DEF k
  <2> QED
    BY <2>1, <2>5, LifeMove
<1> QED
  BY <1>4, <1>5 DEF Stop

-----------------------------------------------------------------------------
\* The steps below move no stream: they keep StreamsKept and NoNewStops.
Quiet == StreamsKept /\ NoNewStops

\* The host's other steps, the peers' steps, time and delivery are quiet.
LEMMA QuietHost ==
    ASSUME LifeInv, NEW h \in Devices,
           \/ PublishRestarted(h) \/ RegisterAgain(h) \/ SendHeartbeat(h) \/ SendReannounce(h)
           \/ \E p \in Permissions : SetInputPermissions(h, p)
    PROVE  Quiet
<1> USE DEF Quiet, StreamsKept, NoNewStops, history
<1>1. host \in [Devices -> HostState]
  BY DEF LifeInv, DiscoveryInv, TypeOK
<1>2. CASE PublishRestarted(h)
  BY <1>1, <1>2 DEF PublishRestarted, HostState
<1>3. CASE RegisterAgain(h)
  BY <1>3 DEF RegisterAgain
<1>4. CASE SendHeartbeat(h)
  <2>1. \A d \in Devices : host'[d].stream = host[d].stream /\ host'[d].state = host[d].state
    BY <1>1, <1>4 DEF SendHeartbeat, HostState
  <2>2. \A m \in net' : m \in net \/ m.type = "heartbeat"
    BY <1>4 DEF SendHeartbeat, Send
  <2> QED
    BY <1>4, <2>1, <2>2 DEF SendHeartbeat
<1>5. CASE SendReannounce(h)
  <2>1. \A m \in net' : m \in net \/ m.type = "snapshot"
    BY <1>5 DEF SendReannounce, Send
  <2> QED
    BY <1>5, <2>1 DEF SendReannounce
<1>6. ASSUME NEW p \in Permissions, SetInputPermissions(h, p) PROVE Quiet
  <2>1. \A d \in Devices : host'[d].stream = host[d].stream /\ host'[d].state = host[d].state
    BY <1>1, <1>6 DEF SetInputPermissions, HostState
  <2>2. \A m \in net' : m \in net \/ m.type = "permissions"
    <3>1. CASE host[h].state = "active"
      <4>1. PICK S \in Reachable(h) :
              net' = net \cup {[type |-> "permissions", to |-> q, stream |-> host[h].stream,
                                perms |-> p] : q \in S}
        BY <1>6, <3>1 DEF SetInputPermissions, Send
      <4> QED
        BY <4>1
    <3>2. CASE host[h].state # "active"
      BY <1>6, <3>2 DEF SetInputPermissions
    <3> QED
      BY <3>1, <3>2
  <2> QED
    BY <1>6, <2>1, <2>2 DEF SetInputPermissions
<1> QED
  BY <1>2, <1>3, <1>4, <1>5, <1>6

LEMMA QuietPeer ==
    ASSUME LifeInv, NEW d \in Devices,
           \/ \E p \in Devices : PeerOnline(d, p)
           \/ RequestGroupSync(d) \/ HeartbeatCheck(d)
    PROVE  Quiet
<1> USE DEF Quiet, StreamsKept, NoNewStops, history
<1>1. ASSUME NEW p \in Devices, PeerOnline(d, p) PROVE Quiet
  <2>1. \A m \in net' : m \in net \/ m.type \in {"request", "snapshot"}
    BY <1>1 DEF PeerOnline, Send
  <2> QED
    BY <1>1, <2>1 DEF PeerOnline
<1>2. CASE RequestGroupSync(d)
  <2>1. \A m \in net' : m \in net \/ m.type = "request"
    BY <1>2 DEF RequestGroupSync, Send
  <2> QED
    BY <1>2, <2>1 DEF RequestGroupSync
<1>3. CASE HeartbeatCheck(d)
  BY <1>3 DEF HeartbeatCheck
<1> QED
  BY <1>1, <1>2, <1>3

LEMMA QuietTick ==
    ASSUME LifeInv, Tick
    PROVE  Quiet
BY DEF Tick, Quiet, StreamsKept, NoNewStops

LEMMA QuietDelivery ==
    ASSUME LifeInv, NEW m \in net, Deliver(m)
    PROVE  Quiet
<1>1. \A k \in Streams : k \in retired'[Owner[k]] <=> k \in retired[Owner[k]]
  <2>1. CASE retired' = retired
    BY <2>1
  <2>2. CASE m.type = "stopped" /\
             retired' = [retired EXCEPT ![m.to] = retired[m.to] \cup {m.stream}]
    <3>1. m.to # Owner[m.stream]
      BY <2>2 DEF LifeInv, HostsApart
    <3> QED
      BY <2>2, <3>1, DiscoveryAssumption DEF LifeInv, DiscoveryInv, TypeOK
  <2> QED
    BY <2>1, <2>2 DEF Deliver
<1>2. NoNewStops
  BY DEF Deliver, NoNewStops
<1> QED
  BY <1>1, <1>2 DEF Quiet, StreamsKept, Deliver

-----------------------------------------------------------------------------
\* What is left to show of HostsApart when one host's session becomes s.
LEMMA MovesApart ==
    ASSUME LifeInv, NEW h \in Devices, NEW s, host' = [host EXCEPT ![h] = s],
           s.state \in {"idle", "failed"} => s.stream = NoStream,
           s.stream \in {host[h].stream, NoStream} \cup unused,
           s.stream \notin unused', unused' \subseteq unused,
           s.stream # NoStream => Owner[s.stream] = h,
           \A k \in Streams : k \in retired'[Owner[k]] =>
              k \in retired[Owner[k]] \/ (k = host[h].stream /\ s.stream = NoStream),
           \A m \in net' : m \in net \/ m.type # "stopped" \/ m.to # Owner[m.stream]
    PROVE  HostsApart'
<1> USE DEF LifeInv, DiscoveryInv, TypeOK, HostsApart
<1>1. host'[h] = s /\ \A d \in Devices \ {h} : host'[d] = host[d]
  OBVIOUS
<1>2. \A d \in Devices : host'[d].state \in {"idle", "failed"} => host'[d].stream = NoStream
  BY <1>1
<1>3. \A d \in Devices : host'[d].stream \notin unused'
  BY <1>1
<1>4. ASSUME NEW k \in Streams, k \in unused' \/ host'[Owner[k]].stream = k,
             k \in retired'[Owner[k]]
      PROVE  FALSE
  <2>1. Owner[k] \in Devices /\ NoStream # k
    BY DiscoveryAssumption
  <2>2. k \in unused \/ host[Owner[k]].stream = k
    BY <1>1, <1>4, <2>1
  <2>3. k = host[h].stream /\ s.stream = NoStream
    BY <1>4, <2>2
  <2>4. Owner[k] = h
    BY <2>1, <2>3, CurrentPhase
  <2> QED
    BY <1>1, <1>4, <2>1, <2>3, <2>4
<1>5. \A m \in net' : m.type = "stopped" => m.to # Owner[m.stream]
  OBVIOUS
<1> QED
  BY <1>2, <1>3, <1>4, <1>5

\* Every step that moves a stream keeps the hosts apart.
LEMMA MoverApart ==
    ASSUME LifeInv, NEW h \in Devices,
           \/ \E k \in Streams : StartFails(h, k) \/ \E p \in Permissions : PublishStarted(h, k, p)
           \/ Announce(h) \/ BeginRestart(h) \/ RestartFails(h)
    PROVE  HostsApart'
<1> USE DEF history
<1>1. host \in [Devices -> HostState] /\ host[h] \in HostState
      /\ host[h].stream \notin unused /\ NoStream \notin unused
      /\ (host[h].stream # NoStream => Owner[host[h].stream] = h)
  BY CurrentPhase, DiscoveryAssumption DEF LifeInv, DiscoveryInv, TypeOK, HostsApart, HostState
<1>2. ASSUME NEW k \in Streams, NEW p \in Permissions, PublishStarted(h, k, p)
      PROVE  HostsApart'
  <2> DEFINE s == [NextSession(host[h]) EXCEPT !.state = "starting", !.stream = k, !.perms = p]
  <2>1. s.state = "starting" /\ s.stream = k
    BY <1>1, NextSessionType DEF HostState
  <2>2. host' = [host EXCEPT ![h] = s] /\ unused' = unused \ {k} /\ k \in unused
        /\ Owner[k] = h /\ retired' = retired /\ net' = net
    BY <1>2 DEF PublishStarted
  <2> HIDE DEF s
  <2> QED
    BY <1>1, <2>1, <2>2, MovesApart
<1>3. ASSUME NEW k \in Streams, StartFails(h, k)
      PROVE  HostsApart'
  <2> DEFINE s == WithoutStream(NextSession(host[h]), "failed")
  <2>1. s.stream = NoStream
    BY <1>1, NextSessionType DEF HostState, WithoutStream
  <2>2. host' = [host EXCEPT ![h] = s] /\ unused' = unused \ {k}
        /\ retired' = retired /\ net' = net
    BY <1>3 DEF StartFails
  <2> HIDE DEF s
  <2> QED
    BY <1>1, <2>1, <2>2, MovesApart
<1>4. CASE Announce(h)
  <2> DEFINE s == [host[h] EXCEPT !.state = "active", !.published = FALSE]
  <2>1. s.stream = host[h].stream /\ s.state = "active"
    BY <1>1 DEF HostState
  <2>2. host' = [host EXCEPT ![h] = s] /\ unused' = unused /\ retired' = retired
    BY <1>1, <1>4 DEF Announce
  <2>3. \A m \in net' : m \in net \/ m.type = "started"
    BY <1>4 DEF Announce, Send
  <2> HIDE DEF s
  <2> QED
    BY <1>1, <2>1, <2>2, <2>3, MovesApart
<1>5. CASE BeginRestart(h)
  <2> DEFINE s == [NextSession(host[h]) EXCEPT !.state = "restarting"]
  <2>1. s.stream = host[h].stream /\ s.state = "restarting"
    BY <1>1, NextSessionType DEF HostState
  <2>2. host' = [host EXCEPT ![h] = s] /\ unused' = unused /\ retired' = retired /\ net' = net
    BY <1>5 DEF BeginRestart
  <2> HIDE DEF s
  <2> QED
    BY <1>1, <2>1, <2>2, MovesApart
<1>6. CASE RestartFails(h)
  <2> DEFINE s == WithoutStream(host[h], "failed")
  <2>1. s.stream = NoStream
    BY <1>1 DEF HostState, WithoutStream
  <2>2. host' = [host EXCEPT ![h] = s] /\ unused' = unused /\ retired' = retired /\ net' = net
    BY <1>6 DEF RestartFails
  <2> HIDE DEF s
  <2> QED
    BY <1>1, <2>1, <2>2, MovesApart
<1> QED
  BY <1>2, <1>3, <1>4, <1>5, <1>6

LEMMA StopApart ==
    ASSUME LifeInv, NEW h \in Devices, Stop(h)
    PROVE  HostsApart'
<1> DEFINE s == WithoutStream(host[h], "idle")
           k == host[h].stream
<1>1. host \in [Devices -> HostState] /\ host[h] \in HostState
      /\ host[h].stream \notin unused /\ NoStream \notin unused
      /\ retired \in [Devices -> SUBSET Streams]
  BY DiscoveryAssumption DEF LifeInv, DiscoveryInv, TypeOK, HostsApart
<1>2. s.stream = NoStream
  BY <1>1 DEF HostState, WithoutStream
<1>3. host' = [host EXCEPT ![h] = s] /\ unused' = unused
  BY DEF Stop
<1>4. \A j \in Streams : j \in retired'[Owner[j]] => j \in retired[Owner[j]] \/ j = k
  <2>1. retired' = retired \/ retired' = [retired EXCEPT ![h] = retired[h] \cup {k}]
    BY DEF Stop
  <2> QED
    BY <1>1, <2>1, DiscoveryAssumption
<1>5. \A m \in net' : m \in net \/ m.type # "stopped" \/ m.to # Owner[m.stream]
  <2>1. CASE k = NoStream
    BY <2>1 DEF Stop
  <2>2. CASE k # NoStream
    <3>1. Owner[k] = h
      BY <1>1, <2>2, CurrentPhase DEF HostState
    <3>2. PICK S \in Reachable(h) :
            net' = net \cup {[type |-> "stopped", to |-> p, stream |-> k] : p \in S}
      BY <2>2 DEF Stop, Send
    <3>3. h \notin S
      BY <3>2 DEF Reachable, Others
    <3> QED
      BY <3>1, <3>2, <3>3
  <2> QED
    BY <2>1, <2>2
<1> HIDE DEF s
<1>6. \A j \in Streams : j \in retired'[Owner[j]] =>
         j \in retired[Owner[j]] \/ (j = host[h].stream /\ s.stream = NoStream)
  BY <1>2, <1>4
<1> QED
  BY <1>1, <1>2, <1>3, <1>5, <1>6, MovesApart

-----------------------------------------------------------------------------
\* Initial states map to initial states.
LEMMA LifeInit == Init => LifeInv /\ Life!Init
<1> SUFFICES ASSUME Init PROVE LifeInv /\ Life!Init
  OBVIOUS
<1>1. HostsApart
  BY DiscoveryAssumption DEF Init, HostsApart
<1>2. Life!Init
  BY DEF Init, Life!Init, Phase
<1> QED
  BY <1>1, <1>2, InitInv DEF LifeInv

\* Every step maps to a step or a stutter, and keeps the hosts apart.
LEMMA LifeStep ==
    ASSUME LifeInv, [Next]_vars
    PROVE  HostsApart' /\ (Life!Next \/ Phase' = Phase)
<1>1. UNCHANGED vars => Quiet
  BY DEF vars, Quiet, StreamsKept, NoNewStops
<1>2. CASE Quiet
  BY <1>2, SamePhase, StaysApart DEF Quiet
<1>3. ASSUME NEW h \in Devices, HostStep(h)
      PROVE  HostsApart' /\ (Life!Next \/ Phase' = Phase)
  <2>1. \/ Quiet \/ Stop(h)
        \/ \E k \in Streams : StartFails(h, k) \/ \E p \in Permissions : PublishStarted(h, k, p)
        \/ Announce(h) \/ BeginRestart(h) \/ RestartFails(h)
    BY <1>3, QuietHost DEF HostStep
  <2> QED
    BY <1>2, <2>1, MoverApart, StopApart, PublishStartedLife, StartFailsLife, AnnounceLife,
       BeginRestartLife, RestartFailsLife, StopLife
<1>4. ASSUME Next, ~\E h \in Devices : HostStep(h)
      PROVE  Quiet
  BY <1>4, QuietPeer, QuietDelivery, QuietTick DEF Next
<1> QED
  BY <1>1, <1>2, <1>3, <1>4

\* Every reachable state has the hosts apart: a stream whose host still holds
\* it, or has not drawn it, is not recorded as ended there, and the end of a
\* stream is never announced to its own host.
THEOREM LifeInvariant == Spec => []LifeInv
<1>1. LifeInv /\ [Next]_vars => LifeInv'
  BY NextInv, LifeStep DEF LifeInv
<1> QED
  BY LifeInit, <1>1, PTL DEF Spec

\* Discovery implements the life of streams: for any devices, streams, losses
\* and interleavings, a host's session takes each stream from its start over
\* restarts to one end, reuses no identifier and runs one stream at a time.
THEOREM DiscoveryImplementsLife == Spec => ImplementsStreamLife
<1>1. Init => Life!Init
  BY LifeInit
<1>2. LifeInv /\ [Next]_vars => [Life!Next]_(Life!vars)
  BY LifeStep DEF Life!vars
<1> QED
  BY <1>1, <1>2, LifeInvariant, PTL DEF Spec, ImplementsStreamLife, Life!Spec

\* Of two streams of one host that run, both are the one its session holds.
THEOREM HostRunsOne == Spec => []Life!OneAtATime
<1>1. Life!OneAtATime
  <2>1. \A k \in Streams : Phase[k] \in Life!Running => host[Owner[k]].stream = k
    BY DEF Phase, Life!Running
  <2> QED
    BY <2>1 DEF Life!OneAtATime
<1> QED
  BY <1>1, PTL

\* A stream that its host has stopped, or lost with a start or restart that failed, is
\* never announced again by its host, whatever the network still delivers (over is FALSE:
\* a host's runtime is not destroyed here).
THEOREM StreamsEndForGood == Spec => Life!EndedForGood
<1>1. [Life!Next]_(Life!vars) =>
        [\A k \in Streams :
            FALSE' = FALSE /\ Phase[k] \in {"stopped", "lost"} => Phase'[k] = Phase[k]]_(Life!vars)
  <2> SUFFICES ASSUME Life!Next, NEW k \in Streams, Phase[k] \in {"stopped", "lost"}
               PROVE  Phase'[k] = Phase[k]
    BY DEF Life!vars
  <2>1. PICK j \in Streams, to \in Life!Phases :
          Phase[j] \notin {"stopped", "lost"} /\ Phase' = [Phase EXCEPT ![j] = to]
    BY DEF Life!Next, Life!Abandon, Life!Start, Life!Announce, Life!Restart, Life!Lose, Life!Stop,
           Life!Move, Life!Phases, Life!Running
  <2>2. Phase = [i \in Streams |-> Phase[i]]
    BY DEF Phase
  <2> QED
    BY <2>1, <2>2
<1> QED
  BY <1>1, DiscoveryImplementsLife, PTL DEF ImplementsStreamLife, Life!Spec, Life!EndedForGood

-----------------------------------------------------------------------------
(****************************************************************************)
(* 6. What has ended stays gone                                             *)
(*                                                                          *)
(* A device that missed a stop keeps the entry until it expires and may     *)
(* offer it until then; a handshake or a refresh makes others take it anew. *)
(* Whoever saw the stop is safe as long as the tombstone lasts, so the      *)
(* invariant compares ages: that of a tombstone with those of the entries   *)
(* and messages of its stream anywhere, and with the renewals still to come.*)
(****************************************************************************)

\* The entry of k was there and is no younger.
Unrenewed(r, s, k) ==
    s.streams[k] # NoEntry => r.streams[k] # NoEntry /\ s.streams[k].age = r.streams[k].age

\* Handlers do not age what they leave.
Fresher(r, s) ==
    \A k \in Streams : /\ Unrenewed(r, s, k) \/ s.streams[k].age = 0
                       /\ s.tombstones[k] \in {NoTime, 0, r.tombstones[k]}

Same(r, s, k) == s.streams[k] = r.streams[k] /\ s.tombstones[k] = r.tombstones[k]

\* From r to s nothing but j is touched.
Touches(r, s, j) == Fresher(r, s) /\ \A k \in Streams : k # j => Same(r, s, k)

\* What the handlers of the registry touch, one lemma each.
LEMMA SameTouches ==
    ASSUME NEW r, NEW j
    PROVE  Touches(r, r, j)
BY DEF Touches, Fresher, Unrenewed, Same

LEMMA PutTouches ==
    ASSUME NEW r, Sound(r), NEW j \in Streams, NEW a
    PROVE  /\ Touches(r, Put(r, j, a), j)
           /\ Put(r, j, a).streams[j].age = 0
           /\ Put(r, j, a).tombstones = r.tombstones
BY DEF Touches, Fresher, Unrenewed, Same, Put, Sound, Registry

LEMMA UnburyTouches ==
    ASSUME NEW r, Sound(r), NEW j \in Streams
    PROVE  Touches(r, [r EXCEPT !.tombstones[j] = NoTime], j)
BY DEF Touches, Fresher, Unrenewed, Same, Sound, Registry

LEMMA PutUnburiedTouches ==
    ASSUME NEW r, Sound(r), NEW j \in Streams, NEW a
    PROVE  Touches(r, Put([r EXCEPT !.tombstones[j] = NoTime], j, a), j)
<1> DEFINE u == [r EXCEPT !.tombstones[j] = NoTime]
<1>1. Sound(u)
  BY UnburySound
<1>2. u.streams = r.streams /\ u.tombstones[j] = NoTime
      /\ \A k \in Streams : k # j => u.tombstones[k] = r.tombstones[k]
  BY DEF Sound, Registry
<1> HIDE DEF u
<1> DEFINE p == Put(u, j, a)
<1>3. Touches(u, p, j) /\ p.streams[j].age = 0 /\ p.tombstones = u.tombstones
  BY <1>1, PutTouches
<1> HIDE DEF p
<1>4. \A k \in Streams : k # j => Same(r, p, k)
  BY <1>2, <1>3 DEF Touches, Same
<1>5. Fresher(r, p)
  BY <1>2, <1>3, <1>4 DEF Fresher, Unrenewed, Same
<1> QED
  BY <1>4, <1>5 DEF Touches, u, p

LEMMA StartedTouches ==
    ASSUME NEW r, Sound(r), NEW j \in Streams, NEW a, NEW replaces
    PROVE  /\ Touches(r, HandleStarted(r, j, a, replaces), j)
           /\ Tombstoned(r, j) /\ r.tombstones[j] < TombstoneMaxAge =>
                HandleStarted(r, j, a, replaces) = r
BY SameTouches, UnburyTouches, PutUnburiedTouches DEF HandleStarted

LEMMA RegisterTouches ==
    ASSUME NEW r, Sound(r), NEW j \in Streams, NEW a
    PROVE  Touches(r, RegisterLocalStream(r, j, a), j)
BY PutUnburiedTouches DEF RegisterLocalStream

\* A heartbeat writes the entry of its stream and no tombstone.
LEMMA HeartbeatTouches ==
    ASSUME NEW r, Sound(r), NEW j \in Streams, NEW seq \in Nat
    PROVE  /\ Touches(r, HandleHeartbeat(r, j, seq), j)
           /\ HandleHeartbeat(r, j, seq).tombstones = r.tombstones
           /\ r.streams[j] = NoEntry => HandleHeartbeat(r, j, seq) = r
<1>1. CASE Tombstoned(r, j) \/ seq <= r.sequences[j] \/ r.streams[j] = NoEntry
  BY <1>1, SameTouches DEF HandleHeartbeat
<1>2. CASE ~(Tombstoned(r, j) \/ seq <= r.sequences[j] \/ r.streams[j] = NoEntry)
  <2> DEFINE a == [r.streams[j].ann EXCEPT !.seq = seq]
  <2>1. r \in Registry /\ r.streams[j] \in Entry
    BY <1>2 DEF Sound, Registry
  <2>2. a.seq = seq
    BY <2>1 DEF Entry, Announcement
  <2>3. HandleHeartbeat(r, j, seq) = Put(r, j, a)
    BY <1>2, <2>1, <2>2 DEF HandleHeartbeat, Put, Registry
  <2> HIDE DEF a
  <2> QED
    BY <1>2, <2>3, PutTouches
<1> QED
  BY <1>1, <1>2

\* A stop leaves a new tombstone where there was an entry.
LEMMA StoppedTouches ==
    ASSUME NEW r, Sound(r), NEW j \in Streams
    PROVE  /\ Touches(r, HandleStopped(r, j), j)
           /\ HandleStopped(r, j).streams[j] = NoEntry
           /\ r.streams[j] # NoEntry => HandleStopped(r, j).tombstones[j] = 0
           /\ r.streams[j] = NoEntry => HandleStopped(r, j) = r
<1>1. CASE r.streams[j] = NoEntry
  BY <1>1, SameTouches DEF HandleStopped
<1>2. CASE r.streams[j] # NoEntry
  BY <1>2 DEF HandleStopped, Touches, Fresher, Unrenewed, Same, Bury, Sound, Registry
<1> QED
  BY <1>1, <1>2

\* New permissions leave age and tombstone alone.
LEMMA PermissionsTouch ==
    ASSUME NEW r, Sound(r), NEW j \in Streams, NEW p \in Permissions
    PROVE  /\ Touches(r, UpdateInputPermissions(r, j, p), j)
           /\ \A k \in Streams : Unrenewed(r, UpdateInputPermissions(r, j, p), k)
           /\ UpdateInputPermissions(r, j, p).tombstones = r.tombstones
<1> DEFINE u == [r EXCEPT !.streams[j].ann.perms = p]
<1>1. CASE j \in Visible(r)
  <2>1. r \in Registry /\ r.streams[j] # NoEntry /\ r.streams[j] \in Entry
    BY <1>1 DEF Sound, Registry, Visible
  <2>2. u.tombstones = r.tombstones /\ u.streams[j].age = r.streams[j].age
        /\ \A k \in Streams : k # j => u.streams[k] = r.streams[k]
    BY <2>1 DEF Registry, Entry
  <2> HIDE DEF u
  <2>3. \A k \in Streams : Unrenewed(r, u, k)
    BY <2>1, <2>2 DEF Unrenewed
  <2>4. Touches(r, u, j)
    BY <2>2, <2>3 DEF Touches, Fresher, Same
  <2>5. UpdateInputPermissions(r, j, p) = u
    BY <1>1 DEF UpdateInputPermissions, u
  <2> QED
    BY <2>2, <2>3, <2>4, <2>5
<1>2. CASE j \notin Visible(r)
  BY <1>2, SameTouches DEF UpdateInputPermissions, Unrenewed
<1> QED
  BY <1>1, <1>2

\* A snapshot writes what it lists, except under a tombstone.
LEMMA SnapshotTouches ==
    ASSUME NEW r, NEW snap
    PROVE  /\ Fresher(r, HandleSnapshot(r, snap))
           /\ \A k \in Streams : k \notin Listed(snap) \/ Tombstoned(r, k) =>
                Same(r, HandleSnapshot(r, snap), k)
           /\ HandleSnapshot(r, snap).tombstones = r.tombstones
BY DEF HandleSnapshot, TakesSnapshot, Fresher, Unrenewed, Same

\* What a message in flight can write: an entry of k.
Carries(m, k) == \/ m.type \in {"started", "heartbeat"} /\ m.stream = k
                 \/ m.type = "snapshot" /\ k \in Listed(m.streams)

\* A delivery renews only what the message carries; and where k is buried, neither a
\* list nor a heartbeat, nor a start before the tombstone is old, touches it.
LEMMA HandleTouches ==
    ASSUME NEW r, Sound(r), NEW m \in Message
    PROVE  /\ Fresher(r, Handle(r, m))
           /\ \A k \in Streams : ~Carries(m, k) => Unrenewed(r, Handle(r, m), k)
           /\ \A k \in Streams :
                /\ r.streams[k] = NoEntry
                /\ Carries(m, k) => Tombstoned(r, k)
                /\ Carries(m, k) /\ m.type = "started" => r.tombstones[k] < TombstoneMaxAge
                => Same(r, Handle(r, m), k)
           /\ m.type = "stopped" /\ r.streams[m.stream] # NoEntry =>
                Handle(r, m).streams[m.stream] = NoEntry /\ Handle(r, m).tombstones[m.stream] = 0
<1>1. CASE m.type = "started"
  <2>1. m.stream \in Streams
    BY <1>1 DEF Message
  <2> DEFINE s == HandleStarted(r, m.stream, m.ann, m.replaces)
  <2>2. Handle(r, m) = s
    BY <1>1 DEF Handle
  <2>3. Touches(r, s, m.stream)
        /\ (Tombstoned(r, m.stream) /\ r.tombstones[m.stream] < TombstoneMaxAge => s = r)
    BY <2>1, StartedTouches
  <2> HIDE DEF s
  <2> QED
    BY <1>1, <2>2, <2>3 DEF Touches, Same, Unrenewed, Carries
<1>2. CASE m.type = "heartbeat"
  <2>1. m.stream \in Streams /\ m.seq \in Nat
    BY <1>2 DEF Message
  <2> DEFINE s == HandleHeartbeat(r, m.stream, m.seq)
  <2>2. Handle(r, m) = s
    BY <1>2 DEF Handle
  <2>3. Touches(r, s, m.stream) /\ (r.streams[m.stream] = NoEntry => s = r)
    BY <2>1, HeartbeatTouches
  <2> HIDE DEF s
  <2> QED
    BY <1>2, <2>2, <2>3 DEF Touches, Same, Unrenewed, Carries
<1>3. CASE m.type = "stopped"
  <2>1. m.stream \in Streams
    BY <1>3 DEF Message
  <2> DEFINE s == HandleStopped(r, m.stream)
  <2>2. Handle(r, m) = s
    BY <1>3 DEF Handle
  <2>3. /\ Touches(r, s, m.stream) /\ s.streams[m.stream] = NoEntry
        /\ r.streams[m.stream] # NoEntry => s.tombstones[m.stream] = 0
        /\ r.streams[m.stream] = NoEntry => s = r
    BY <2>1, StoppedTouches
  <2> HIDE DEF s
  <2> QED
    BY <1>3, <2>2, <2>3 DEF Touches, Same, Unrenewed, Carries
<1>4. CASE m.type = "permissions"
  <2>1. m.stream \in Streams /\ m.perms \in Permissions
    BY <1>4 DEF Message
  <2> DEFINE s == UpdateInputPermissions(r, m.stream, m.perms)
  <2>2. Handle(r, m) = s
    BY <1>4 DEF Handle
  <2>3. Touches(r, s, m.stream) /\ s.tombstones = r.tombstones
        /\ \A k \in Streams : Unrenewed(r, s, k)
    BY <2>1, PermissionsTouch
  <2> HIDE DEF s
  <2> QED
    BY <1>4, <2>2, <2>3 DEF Touches, Same, Unrenewed, Carries
<1>5. CASE m.type = "snapshot"
  <2> DEFINE s == HandleSnapshot(r, m.streams)
  <2>1. Handle(r, m) = s
    BY <1>5 DEF Handle
  <2>2. /\ Fresher(r, s) /\ s.tombstones = r.tombstones
        /\ \A k \in Streams : k \notin Listed(m.streams) \/ Tombstoned(r, k) => Same(r, s, k)
    BY SnapshotTouches
  <2> HIDE DEF s
  <2> QED
    BY <1>5, <2>1, <2>2 DEF Same, Unrenewed, Carries
<1>6. CASE m.type = "request"
  BY <1>6, SameTouches DEF Handle, Touches, Same, Unrenewed, Carries
<1> QED
  BY <1>1, <1>2, <1>3, <1>4, <1>5, <1>6 DEF Message

-----------------------------------------------------------------------------

\* Timers fire on time, the registry's bound on tombstones is never met, and a tombstone
\* outlives an entry that every handshake and refresh there will be renews.  With the
\* code's 30 s and 5 min that is up to six of them.
TombstonesOutlast ==
    /\ Prompt
    /\ IsFiniteSet(Streams) /\ Cardinality(Streams) <= TombstoneMaxEntries
    /\ MaxRefresh \in Nat /\ TombstoneMaxAge > 0
    /\ ExpiryAge + (ExpiryAge + 1) * MaxRefresh <= TombstoneMaxAge

\* What handshakes and refreshes still to come can add to the life of an entry.
Renewals == (ExpiryAge + 1) * (MaxRefresh - refreshes)

\* How old d's tombstone of k is, one past its maximum age once it has been removed.
GraveAge(d, k) == IF Tombstoned(registry[d], k) THEN registry[d].tombstones[k]
                  ELSE TombstoneMaxAge + 1

\* An entry of this age, renewed as often as can be, expires before d forgets k.
Outlived(d, k, age) == ExpiryAge + Renewals + GraveAge(d, k) <= TombstoneMaxAge + age

Held(k) == \E x \in Devices : registry[x].streams[k] # NoEntry

\* What renews an entry of k: a request too, when there is an entry to answer with.
Renews(m, k) == Carries(m, k) \/ (m.type = "request" /\ Held(k))

\* d has no entry of k, and none will be offered to it that its tombstone does not outlive.
GoneFor(d, k) ==
    /\ registry[d].streams[k] = NoEntry
    /\ \A x \in Devices : registry[x].streams[k] # NoEntry =>
          Outlived(d, k, registry[x].streams[k].age)
    /\ \A m \in net : Renews(m, k) =>
          Outlived(d, k, 0) /\ (m.type = "started" => GraveAge(d, k) = 0)

\* A registry keeps nothing whose time is over but what the check still to come (late)
\* in this period removes.
Timely(r, late) ==
    \A k \in Streams :
       /\ r.streams[k] # NoEntry =>
            r.streams[k].age <= ExpiryAge \/ (r.streams[k].age = ExpiryAge + 1 /\ late)
       /\ Tombstoned(r, k) =>
            \/ r.tombstones[k] <= TombstoneMaxAge
            \/ r.tombstones[k] = TombstoneMaxAge + 1 /\ late

AllTimely == \A x \in Devices : Timely(registry[x], <<"check", x>> \in due)

\* Nobody sees a stream stop before its host stops it.
HostStopsFirst ==
    /\ \A d \in Devices : \A k \in retired[d] : k \in retired[Owner[k]]
    /\ \A m \in net : m.type = "stopped" => m.stream \in retired[Owner[m.stream]]

AllGone == \A d \in Devices : \A k \in retired[d] : d # Owner[k] => GoneFor(d, k)

GoneInv == refreshes \in 0..MaxRefresh /\ AllTimely /\ HostStopsFirst /\ AllGone

-----------------------------------------------------------------------------
\* Multiples of e count down with i.
LEMMA Multiples ==
    ASSUME NEW e \in Nat, NEW n \in Nat, NEW i \in 0..n
    PROVE  /\ e * (n - i) \in Nat /\ e * (n - i) <= e * n
           /\ i < n => e * (n - (i + 1)) = e * (n - i) - e
<1>1. e * i \in Nat /\ e * n \in Nat
  OBVIOUS
<1>2. e * (n - i) = e * n - e * i
  OBVIOUS
<1>3. n - i \in Nat
  OBVIOUS
<1>4. e * (n - i) \in Nat
  BY <1>3
<1>5. e * (n - (i + 1)) = e * (n - i) - e
  OBVIOUS
<1> QED
  BY <1>1, <1>2, <1>4, <1>5

\* Each handshake or refresh spends one renewal.
LEMMA RenewalsFacts ==
    ASSUME TombstonesOutlast, refreshes \in 0..MaxRefresh
    PROVE  /\ Renewals \in Nat /\ ExpiryAge + Renewals <= TombstoneMaxAge
           /\ refreshes' = refreshes => Renewals' = Renewals
           /\ refreshes < MaxRefresh /\ refreshes' = refreshes + 1 =>
                Renewals' = Renewals - (ExpiryAge + 1) /\ Renewals' \in Nat
<1> DEFINE e == ExpiryAge + 1
           n == MaxRefresh
<1>1. e \in Nat /\ n \in Nat
  BY RegistryAssumption DEF TombstonesOutlast
<1>2. \A i \in 0..n : e * (n - i) \in Nat /\ e * (n - i) <= e * n
        /\ (i < n => e * (n - (i + 1)) = e * (n - i) - e)
  <2> HIDE DEF e, n
  <2> QED
    BY <1>1, Multiples
<1>3. ExpiryAge + e * n <= TombstoneMaxAge /\ e * n \in Int
  BY <1>1 DEF TombstonesOutlast
<1>4. Renewals = e * (n - refreshes) /\ Renewals' = e * (n - refreshes')
  BY DEF Renewals
<1>5. Renewals \in Nat /\ Renewals <= e * n
  BY <1>2, <1>4
<1>6. refreshes < n /\ refreshes' = refreshes + 1 => Renewals' = Renewals - e /\ Renewals' \in Nat
  <2> SUFFICES ASSUME refreshes < n, refreshes' = refreshes + 1
               PROVE  Renewals' = Renewals - e /\ Renewals' \in Nat
    OBVIOUS
  <2>1. refreshes \in 0..n /\ refreshes + 1 \in 0..n
    BY <1>1
  <2>2. Renewals' = e * (n - (refreshes + 1))
    BY <1>4
  <2> HIDE DEF e, n
  <2>3. Renewals' = Renewals - e
    BY <1>2, <1>4, <2>1, <2>2
  <2>4. Renewals' \in Nat
    BY <1>2, <2>1, <2>2
  <2> QED
    BY <2>3, <2>4
<1>7. ExpiryAge + Renewals <= TombstoneMaxAge
  <2> HIDE DEF e, n
  <2> QED
    BY <1>3, <1>5, RegistryAssumption
<1> QED
  BY <1>4, <1>5, <1>6, <1>7

\* What a registry holds, as the lemmas below need it.
LEMMA RegistriesTyped ==
    ASSUME LifeInv, NEW x \in Devices
    PROVE  /\ Sound(registry[x])
           /\ \A k \in Streams :
                /\ registry[x].streams[k] # NoEntry => registry[x].streams[k].age \in Nat
                /\ registry[x].tombstones[k] \in Nat \cup {NoTime}
                /\ Tombstoned(registry[x], k) => registry[x].tombstones[k] \in Nat
BY DEF LifeInv, DiscoveryInv, AllSound, Sound, Registry, Entry, Tombstoned

\* Removed or not, a tombstone has an age.
LEMMA GraveAgeInNat ==
    ASSUME LifeInv, NEW d \in Devices, NEW k \in Streams
    PROVE  GraveAge(d, k) \in Nat
BY RegistriesTyped, RegistryAssumption DEF GraveAge

\* What a handler leaves is as timely as it was.
LEMMA FresherTimely ==
    ASSUME NEW r, NEW s, NEW late, Timely(r, late), Fresher(r, s)
    PROVE  Timely(s, late)
<1> SUFFICES ASSUME NEW k \in Streams
             PROVE  /\ s.streams[k] # NoEntry =>
                         \/ s.streams[k].age <= ExpiryAge
                         \/ s.streams[k].age = ExpiryAge + 1 /\ late
                    /\ Tombstoned(s, k) =>
                         \/ s.tombstones[k] <= TombstoneMaxAge
                         \/ s.tombstones[k] = TombstoneMaxAge + 1 /\ late
  BY DEF Timely
<1>1. 0 <= ExpiryAge /\ 0 <= TombstoneMaxAge
  BY RegistryAssumption
<1>2. ASSUME s.streams[k] # NoEntry
      PROVE  s.streams[k].age <= ExpiryAge \/ (s.streams[k].age = ExpiryAge + 1 /\ late)
  <2>1. CASE s.streams[k].age = 0
    BY <1>1, <2>1
  <2>2. CASE Unrenewed(r, s, k)
    BY <1>2, <2>2 DEF Unrenewed, Timely
  <2> QED
    BY <2>1, <2>2 DEF Fresher
<1>3. ASSUME Tombstoned(s, k)
      PROVE  s.tombstones[k] <= TombstoneMaxAge \/ (s.tombstones[k] = TombstoneMaxAge + 1 /\ late)
  <2>1. CASE s.tombstones[k] = 0
    BY <1>1, <2>1
  <2>2. CASE s.tombstones[k] = r.tombstones[k]
    BY <1>3, <2>2 DEF Timely, Tombstoned
  <2> QED
    BY <1>3, <2>1, <2>2 DEF Fresher, Tombstoned
<1> QED
  BY <1>2, <1>3

\* So it is for all devices, as long as the checks that are due stay due.
LEMMA AllStayTimely ==
    ASSUME AllTimely, \A x \in Devices : Fresher(registry[x], registry'[x]),
           \A x \in Devices : <<"check", x>> \in due' <=> <<"check", x>> \in due
    PROVE  AllTimely'
<1> SUFFICES ASSUME NEW x \in Devices PROVE Timely(registry'[x], <<"check", x>> \in due')
  BY DEF AllTimely
<1>1. CASE <<"check", x>> \in due
  <2>1. Timely(registry[x], TRUE)
    BY <1>1 DEF AllTimely, Timely
  <2>2. Timely(registry'[x], TRUE)
    BY <2>1, FresherTimely
  <2> QED
    BY <1>1, <2>2 DEF Timely
<1>2. CASE <<"check", x>> \notin due
  <2>1. Timely(registry[x], FALSE)
    BY <1>2 DEF AllTimely, Timely
  <2>2. Timely(registry'[x], FALSE)
    BY <2>1, FresherTimely
  <2> QED
    BY <1>2, <2>2 DEF Timely
<1> QED
  BY <1>1, <1>2

-----------------------------------------------------------------------------
\* What keeps a stream gone from d: d's own registry is not touched, nothing is renewed
\* that d's tombstone does not outlive, and nothing new would renew more.
LEMMA GoneStays ==
    ASSUME TombstonesOutlast, LifeInv, refreshes \in 0..MaxRefresh, refreshes' = refreshes,
           NEW d \in Devices, NEW k \in Streams, GoneFor(d, k),
           registry'[d].streams[k] = NoEntry, GraveAge(d, k)' = GraveAge(d, k),
           \A x \in Devices :
              \/ Unrenewed(registry[x], registry'[x], k)
              \/ registry'[x].streams[k].age = 0 /\ Outlived(d, k, 0),
           \A m \in net' : m \in net \/ (Renews(m, k)' => Outlived(d, k, 0) /\ m.type # "started")
    PROVE  GoneFor(d, k)'
<1>1. Renewals' = Renewals
  BY RenewalsFacts
<1>2. Outlived(d, k, 0) => Outlived(d, k, 0)'
  BY <1>1 DEF Outlived
<1>3. ASSUME NEW x \in Devices, registry'[x].streams[k] # NoEntry
      PROVE  Outlived(d, k, registry[x].streams[k].age)'
  <2>1. CASE Unrenewed(registry[x], registry'[x], k)
    <3>1. Outlived(d, k, registry[x].streams[k].age)
          /\ registry'[x].streams[k].age = registry[x].streams[k].age
      BY <1>3, <2>1 DEF Unrenewed, GoneFor
    <3> QED
      BY <1>1, <3>1 DEF Outlived
  <2>2. CASE registry'[x].streams[k].age = 0 /\ Outlived(d, k, 0)
    BY <1>1, <2>2 DEF Outlived
  <2> QED
    BY <2>1, <2>2
<1>4. ASSUME NEW m \in net', Renews(m, k)'
      PROVE  Outlived(d, k, 0)' /\ (m.type = "started" => GraveAge(d, k)' = 0)
  <2>1. CASE m \notin net
    BY <1>2, <1>4, <2>1
  <2>2. CASE m \in net /\ Renews(m, k)
    BY <1>2, <2>2 DEF GoneFor
  <2>3. CASE m \in net /\ ~Renews(m, k)
    <3>1. m.type = "request" /\ Held(k)' /\ ~Held(k)
      BY <1>4, <2>3 DEF Renews
    <3>2. PICK x \in Devices : registry'[x].streams[k] # NoEntry
      BY <3>1 DEF Held
    <3>3. ~Unrenewed(registry[x], registry'[x], k)
      BY <3>1, <3>2 DEF Held, Unrenewed
    <3> QED
      BY <1>2, <3>1, <3>3
  <2> QED
    BY <2>1, <2>2, <2>3
<1> QED
  BY <1>3, <1>4 DEF GoneFor

\* A handshake or a refresh offers anew what some device holds, and spends a renewal.
LEMMA GoneRenewed ==
    ASSUME TombstonesOutlast, LifeInv, AllTimely, refreshes \in 0..MaxRefresh,
           refreshes < MaxRefresh, refreshes' = refreshes + 1,
           NEW d \in Devices, NEW k \in Streams, GoneFor(d, k),
           registry'[d].streams[k] = NoEntry, GraveAge(d, k)' = GraveAge(d, k),
           \A x \in Devices : Unrenewed(registry[x], registry'[x], k),
           \A m \in net' : m \in net \/ (Renews(m, k)' => Held(k) /\ m.type # "started")
    PROVE  GoneFor(d, k)'
<1>1. Renewals \in Nat /\ Renewals' \in Nat /\ Renewals' = Renewals - (ExpiryAge + 1)
  BY RenewalsFacts
<1>2. GraveAge(d, k) \in Nat /\ ExpiryAge \in Nat /\ TombstoneMaxAge \in Nat
  BY GraveAgeInNat, RegistryAssumption
<1>3. ASSUME NEW x \in Devices, registry'[x].streams[k] # NoEntry
      PROVE  Outlived(d, k, registry[x].streams[k].age)'
  <2>1. /\ Outlived(d, k, registry[x].streams[k].age)
        /\ registry'[x].streams[k].age = registry[x].streams[k].age
        /\ registry[x].streams[k].age \in Nat
    BY <1>3, RegistriesTyped DEF Unrenewed, GoneFor
  <2> QED
    BY <1>1, <1>2, <2>1 DEF Outlived
<1>4. Outlived(d, k, 0) => Outlived(d, k, 0)'
  BY <1>1, <1>2 DEF Outlived
<1>5. Held(k) => Outlived(d, k, 0)'
  <2> SUFFICES ASSUME NEW x \in Devices, registry[x].streams[k] # NoEntry
               PROVE  Outlived(d, k, 0)'
    BY DEF Held
  <2>1. /\ Outlived(d, k, registry[x].streams[k].age)
        /\ registry[x].streams[k].age \in Nat
    BY RegistriesTyped DEF GoneFor
  <2>2. registry[x].streams[k].age <= ExpiryAge + 1
    <3>1. Timely(registry[x], <<"check", x>> \in due)
      BY DEF AllTimely
    <3> QED
      BY <1>2, <2>1, <3>1 DEF Timely
  <2> QED
    BY <1>1, <1>2, <2>1, <2>2 DEF Outlived
<1>6. Held(k)' => Held(k)
  BY DEF Held, Unrenewed
<1>7. ASSUME NEW m \in net', Renews(m, k)'
      PROVE  Outlived(d, k, 0)' /\ (m.type = "started" => GraveAge(d, k)' = 0)
  <2>1. CASE m \notin net
    BY <1>5, <1>7, <2>1
  <2>2. CASE m \in net
    <3>1. Renews(m, k)
      BY <1>6, <1>7 DEF Renews
    <3> QED
      BY <1>4, <2>2, <3>1 DEF GoneFor
  <2> QED
    BY <2>1, <2>2
<1> QED
  BY <1>3, <1>7 DEF GoneFor

LEMMA FitsLonger ==
    ASSUME NEW e \in Nat, NEW f \in Nat, NEW a \in Nat, NEW t \in Nat, e + f <= t
    PROVE  e + f + 0 <= t + a
OBVIOUS

\* A new tombstone outlives whatever there is of its stream.
LEMMA FreshGrave ==
    ASSUME TombstonesOutlast, LifeInv', refreshes \in 0..MaxRefresh, refreshes' = refreshes,
           NEW d \in Devices, NEW k \in Streams,
           registry'[d].streams[k] = NoEntry, registry'[d].tombstones[k] = 0
    PROVE  GoneFor(d, k)'
<1>1. Renewals' \in Nat /\ ExpiryAge + Renewals' <= TombstoneMaxAge
  BY RenewalsFacts
<1>2. GraveAge(d, k)' = 0
  BY DEF GraveAge, Tombstoned, NoTime
<1>3. \A x \in Devices : registry'[x].streams[k] # NoEntry => registry'[x].streams[k].age \in Nat
  BY DEF LifeInv, DiscoveryInv, TypeOK, Registry, Entry
<1>4. ASSUME NEW age \in Nat PROVE Outlived(d, k, age)'
  <2>1. ExpiryAge + Renewals' + 0 <= TombstoneMaxAge + age
    BY <1>1, FitsLonger, RegistryAssumption
  <2> QED
    BY <1>2, <2>1 DEF Outlived
<1> QED
  BY <1>2, <1>3, <1>4 DEF GoneFor

\* What keeps a tombstone's age keeps its part of GoneFor.
LEMMA SameGrave ==
    ASSUME NEW d \in Devices, NEW k \in Streams, Same(registry[d], registry'[d], k),
           registry[d].streams[k] = NoEntry
    PROVE  registry'[d].streams[k] = NoEntry /\ GraveAge(d, k)' = GraveAge(d, k)
BY DEF Same, GraveAge, Tombstoned

-----------------------------------------------------------------------------
\* What a host's step does concerns one stream: it touches no entry of another, and its
\* messages name no other.
About(m, j) == \/ m.type \in {"started", "heartbeat", "stopped", "permissions"} /\ m.stream = j
               \/ m.type = "snapshot" /\ Listed(m.streams) \subseteq {j}

Concerns(j) ==
    /\ \A x \in Devices : Touches(registry[x], registry'[x], j)
    /\ \A m \in net' : m \in net \/ About(m, j)
    /\ refreshes' = refreshes
    /\ \A x \in Devices : <<"check", x>> \in due' <=> <<"check", x>> \in due

\* And it records no end but of its own stream, and tells of none that is not recorded.
EndsOwn ==
    /\ \A d \in Devices : /\ retired[d] \subseteq retired'[d]
                          /\ \A k \in retired'[d] : k \in retired[d] \/ d = Owner[k]
    /\ \A m \in net' : m \in net \/ m.type # "stopped" \/ m.stream \in retired'[Owner[m.stream]]

\* Such a step keeps every other stream gone,
LEMMA OthersStayGone ==
    ASSUME TombstonesOutlast, LifeInv, GoneInv, NEW j, Concerns(j),
           NEW d \in Devices, NEW k \in Streams, k # j, GoneFor(d, k)
    PROVE  GoneFor(d, k)'
<1>1. \A x \in Devices : Same(registry[x], registry'[x], k)
  BY DEF Concerns, Touches
<1>2. registry'[d].streams[k] = NoEntry /\ GraveAge(d, k)' = GraveAge(d, k)
  BY <1>1, SameGrave DEF GoneFor
<1>3. \A x \in Devices : Unrenewed(registry[x], registry'[x], k)
  BY <1>1 DEF Same, Unrenewed
<1>4. ASSUME NEW m \in net', m \notin net PROVE ~Renews(m, k)'
  BY <1>4 DEF Concerns, About, Renews, Carries
<1> QED
  BY <1>2, <1>3, <1>4, GoneStays DEF Concerns, GoneInv

\* and the whole invariant, when its own stream has not ended.
LEMMA ConcernsGone ==
    ASSUME TombstonesOutlast, LifeInv, GoneInv, NEW j, Concerns(j), EndsOwn,
           \A d \in Devices : j \notin retired[d]
    PROVE  GoneInv'
<1>1. retired \in [Devices -> SUBSET Streams]
  BY DEF LifeInv, DiscoveryInv, TypeOK
<1>2. refreshes' \in 0..MaxRefresh
  BY DEF Concerns, GoneInv
<1>3. AllTimely'
  BY AllStayTimely DEF Concerns, Touches, GoneInv
<1>4. ASSUME NEW d \in Devices, NEW k \in retired'[d], d # Owner[k]
      PROVE  GoneFor(d, k)'
  <2>1. k \in retired[d]
    BY <1>4 DEF EndsOwn
  <2>2. k \in Streams /\ k # j /\ GoneFor(d, k)
    BY <1>1, <1>4, <2>1 DEF GoneInv, AllGone
  <2> QED
    BY <2>2, OthersStayGone
<1>5. HostStopsFirst'
  <2>1. ASSUME NEW d \in Devices, NEW k \in retired'[d]
        PROVE  k \in retired'[Owner[k]]
    <3>1. CASE d = Owner[k]
      BY <2>1, <3>1
    <3>2. CASE k \in retired[d]
      <4>1. k \in Streams /\ Owner[k] \in Devices /\ k \in retired[Owner[k]]
        BY <1>1, <3>2, DiscoveryAssumption DEF GoneInv, HostStopsFirst
      <4> QED
        BY <4>1 DEF EndsOwn
    <3> QED
      BY <2>1, <3>1, <3>2 DEF EndsOwn
  <2>2. ASSUME NEW m \in net', m.type = "stopped"
        PROVE  m.stream \in retired'[Owner[m.stream]]
    <3>1. CASE m \in net
      <4>1. m.stream \in Streams
        BY <2>2, <3>1 DEF LifeInv, DiscoveryInv, TypeOK, Message
      <4>2. Owner[m.stream] \in Devices /\ m.stream \in retired[Owner[m.stream]]
        BY <2>2, <3>1, <4>1, DiscoveryAssumption DEF GoneInv, HostStopsFirst
      <4> QED
        BY <4>2 DEF EndsOwn
    <3> QED
      BY <2>2, <3>1 DEF EndsOwn
  <2> QED
    BY <2>1, <2>2 DEF HostStopsFirst
<1>6. AllGone'
  BY <1>4 DEF AllGone
<1> QED
  BY <1>2, <1>3, <1>5, <1>6 DEF GoneInv

\* One registry touched, or none, is a step that touches no other stream.
LEMMA OneTouched ==
    ASSUME LifeInv, NEW h \in Devices, NEW r, NEW j, Touches(registry[h], r, j),
           registry' = [registry EXCEPT ![h] = r]
    PROVE  \A x \in Devices : Touches(registry[x], registry'[x], j)
BY SameTouches DEF LifeInv, DiscoveryInv, TypeOK

LEMMA NoneTouched ==
    ASSUME NEW j, registry' = registry
    PROVE  \A x \in Devices : Touches(registry[x], registry'[x], j)
BY SameTouches

\* The stream a host holds has not ended anywhere, and so with one it has just drawn.
LEMMA CurrentNotEnded ==
    ASSUME LifeInv, HostStopsFirst, NEW k \in Streams, NEW d \in Devices,
           k \in unused \/ host[Owner[k]].stream = k
    PROVE  k \notin retired[d]
BY DEF LifeInv, HostsApart, HostStopsFirst

LEMMA NoStreamNotEnded ==
    ASSUME LifeInv, NEW d \in Devices
    PROVE  NoStream \notin retired[d]
BY DiscoveryAssumption DEF LifeInv, DiscoveryInv, TypeOK

\* What a host that has a session step by step concerns.
LEMMA HostConcerns ==
    ASSUME LifeInv, HostStopsFirst, NEW h \in Devices, HostStep(h)
    PROVE  \E j \in Streams \cup {NoStream} :
              Concerns(j) /\ EndsOwn /\ \A d \in Devices : j \notin retired[d]
<1> USE DEF history
<1> DEFINE k == host[h].stream
           Goal == \E j \in Streams \cup {NoStream} :
                      Concerns(j) /\ EndsOwn /\ \A d \in Devices : j \notin retired[d]
<1>1. /\ host[h] \in HostState /\ Sound(registry[h])
      /\ k \in Streams \cup {NoStream} /\ \A d \in Devices : k \notin retired[d]
  <2>1. host[h] \in HostState /\ Sound(registry[h]) /\ k \in Streams \cup {NoStream}
    BY DEF LifeInv, DiscoveryInv, TypeOK, AllSound, HostState
  <2>2. ASSUME k \in Streams, NEW d \in Devices PROVE k \notin retired[d]
    <3>1. Owner[k] = h
      BY <2>2, CurrentPhase
    <3> QED
      BY <2>2, <3>1, CurrentNotEnded
  <2> QED
    BY <2>1, <2>2, NoStreamNotEnded
<1>2. host[h].state \in Sharing => k \in Streams
  BY DEF LifeInv, DiscoveryInv, HostNamed
<1>3. retired' = retired /\ (\A m \in net' : m \in net \/ m.type # "stopped") => EndsOwn
  BY DEF EndsOwn
<1>4. ASSUME NEW i \in Streams, NEW p \in Permissions, PublishStarted(h, i, p)
      PROVE  Goal
  <2> DEFINE s == [NextSession(host[h]) EXCEPT !.state = "starting", !.stream = i, !.perms = p]
             r == RegisterLocalStream(registry[h], i, BuildAnnouncement(s))
  <2>1. registry' = [registry EXCEPT ![h] = r] /\ Touches(registry[h], r, i)
    BY <1>1, <1>4, RegisterTouches DEF PublishStarted
  <2>2. /\ net' = net /\ due' = due /\ refreshes' = refreshes /\ retired' = retired
        /\ Owner[i] = h /\ i \in unused
    BY <1>4 DEF PublishStarted
  <2> HIDE DEF r, s, k
  <2>3. Concerns(i)
    BY <2>1, <2>2, OneTouched DEF Concerns
  <2>4. \A d \in Devices : i \notin retired[d]
    BY <2>2, CurrentNotEnded
  <2> QED
    BY <1>3, <2>2, <2>3, <2>4
<1>5. CASE \/ \E i \in Streams : StartFails(h, i)
           \/ BeginRestart(h) \/ RestartFails(h)
  <2>1. /\ registry' = registry /\ net' = net /\ refreshes' = refreshes /\ retired' = retired
        /\ due' = due \/ due' = due \ {<<"heartbeat", h>>}
    BY <1>5 DEF StartFails, BeginRestart, RestartFails
  <2>2. Concerns(NoStream)
    BY <2>1, NoneTouched DEF Concerns
  <2> QED
    BY <1>3, <2>1, <2>2, NoStreamNotEnded
<1>6. CASE Announce(h)
  <2>1. PICK S \in Reachable(h) :
          net' = net \cup {[type |-> "started", to |-> p, stream |-> k,
                            ann |-> BuildAnnouncement(host[h]),
                            replaces |-> host[h].published] : p \in S}
    BY <1>6 DEF Announce, Send
  <2>2. registry' = registry /\ due' = due /\ refreshes' = refreshes /\ retired' = retired
    BY <1>6 DEF Announce
  <2> HIDE DEF k
  <2>3. Concerns(k)
    BY <2>1, <2>2, NoneTouched DEF Concerns, About
  <2> QED
    BY <1>1, <1>3, <2>1, <2>2, <2>3
<1>7. CASE PublishRestarted(h) \/ RegisterAgain(h)
  <2> DEFINE r == RegisterLocalStream(registry[h], k, BuildAnnouncement(host[h]))
  <2>1. k \in Streams
    BY <1>2, <1>7 DEF PublishRestarted, RegisterAgain, Sharing
  <2>2. registry' = [registry EXCEPT ![h] = r] /\ Touches(registry[h], r, k)
    BY <1>1, <1>7, <2>1, RegisterTouches DEF PublishRestarted, RegisterAgain
  <2>3. net' = net /\ due' = due /\ refreshes' = refreshes /\ retired' = retired
    BY <1>7 DEF PublishRestarted, RegisterAgain
  <2> HIDE DEF r, k
  <2>4. Concerns(k)
    BY <2>2, <2>3, OneTouched DEF Concerns
  <2> QED
    BY <1>1, <1>3, <2>3, <2>4
<1>8. CASE Stop(h) /\ k = NoStream
  <2>1. /\ registry' = registry /\ net' = net /\ refreshes' = refreshes /\ retired' = retired
        /\ due' = due \ {<<"heartbeat", h>>}
    BY <1>8 DEF Stop
  <2>2. Concerns(NoStream)
    BY <2>1, NoneTouched DEF Concerns
  <2> QED
    BY <1>3, <2>1, <2>2, NoStreamNotEnded
<1>9. CASE Stop(h) /\ k # NoStream
  <2> DEFINE r == HandleStopped(registry[h], k)
  <2>1. k \in Streams /\ Owner[k] = h
    BY <1>1, <1>9, CurrentPhase
  <2>2. registry' = [registry EXCEPT ![h] = r] /\ Touches(registry[h], r, k)
    BY <1>1, <1>9, <2>1, StoppedTouches DEF Stop
  <2>3. PICK S \in Reachable(h) :
          net' = net \cup {[type |-> "stopped", to |-> p, stream |-> k] : p \in S}
    BY <1>9 DEF Stop, Send
  <2>4. /\ refreshes' = refreshes /\ due' = due \ {<<"heartbeat", h>>}
        /\ retired' = [retired EXCEPT ![h] = retired[h] \cup {k}]
    BY <1>9 DEF Stop
  <2>5. retired \in [Devices -> SUBSET Streams]
    BY DEF LifeInv, DiscoveryInv, TypeOK
  <2> HIDE DEF r, k
  <2>6. \A m \in net' : m \in net \/ (m.type = "stopped" /\ m.stream = k)
    BY <2>3
  <2>7. Concerns(k)
    BY <2>2, <2>4, <2>6, OneTouched DEF Concerns, About
  <2>8. EndsOwn
    BY <2>1, <2>4, <2>5, <2>6 DEF EndsOwn
  <2> QED
    BY <1>1, <2>7, <2>8
<1>10. ASSUME NEW q \in Permissions, SetInputPermissions(h, q)
       PROVE  Goal
  <2> DEFINE r == UpdateInputPermissions(registry[h], k, q)
  <2>1. k \in Streams
    BY <1>2, <1>10 DEF SetInputPermissions, Sharing
  <2>2. registry' = [registry EXCEPT ![h] = r] /\ Touches(registry[h], r, k)
    BY <1>1, <1>10, <2>1, PermissionsTouch DEF SetInputPermissions
  <2>3. due' = due /\ refreshes' = refreshes /\ retired' = retired
    BY <1>10 DEF SetInputPermissions
  <2>4. \A m \in net' : m \in net \/ (m.type = "permissions" /\ m.stream = k)
    <3>1. CASE host[h].state = "active"
      <4>1. PICK S \in Reachable(h) :
              Send({[type |-> "permissions", to |-> p, stream |-> k, perms |-> q] : p \in S})
        BY <1>10, <3>1 DEF SetInputPermissions
      <4> QED
        BY <4>1 DEF Send
    <3>2. CASE host[h].state # "active"
      BY <1>10, <3>2 DEF SetInputPermissions
    <3> QED
      BY <3>1, <3>2
  <2> HIDE DEF r, k
  <2>5. Concerns(k)
    BY <2>2, <2>3, <2>4, OneTouched DEF Concerns, About
  <2> QED
    BY <1>1, <1>3, <2>3, <2>4, <2>5
<1>11. CASE SendHeartbeat(h)
  <2>1. \A m \in net' : m \in net \/ (m.type = "heartbeat" /\ m.stream = k)
    BY <1>11 DEF SendHeartbeat, Send
  <2>2. /\ registry' = registry /\ refreshes' = refreshes /\ retired' = retired
        /\ due' = due \ {<<"heartbeat", h>>}
    BY <1>11 DEF SendHeartbeat, Fire
  <2> HIDE DEF k
  <2>3. Concerns(k)
    BY <2>1, <2>2, NoneTouched DEF Concerns, About
  <2> QED
    BY <1>1, <1>3, <2>1, <2>2, <2>3
<1>12. CASE SendReannounce(h)
  <2> DEFINE own == [i \in Streams |-> IF i = k THEN BuildAnnouncement(host[h]) ELSE NoEntry]
  <2>1. \A m \in net' : m \in net \/ (m.type = "snapshot" /\ m.streams = own)
    BY <1>12 DEF SendReannounce, Send
  <2>2. Listed(own) \subseteq {k}
    BY DEF Listed
  <2>3. registry' = registry /\ due' = due /\ refreshes' = refreshes /\ retired' = retired
    BY <1>12 DEF SendReannounce
  <2> HIDE DEF own, k
  <2>4. Concerns(k)
    BY <2>1, <2>2, <2>3, NoneTouched DEF Concerns, About
  <2> QED
    BY <1>1, <1>3, <2>1, <2>3, <2>4
<1> QED
  BY <1>4, <1>5, <1>6, <1>7, <1>8, <1>9, <1>10, <1>11, <1>12 DEF HostStep

-----------------------------------------------------------------------------
\* A step that tells of no new stop keeps the order of ends.
LEMMA EndsKept ==
    ASSUME LifeInv, HostStopsFirst, retired' = retired, NoNewStops
    PROVE  HostStopsFirst'
BY DEF HostStopsFirst, NoNewStops

\* A registry lists only what it holds.
LEMMA ListsHeld ==
    ASSUME NEW x \in Devices, NEW k \in Listed(StreamsByGroup(registry[x]))
    PROVE  Held(k)
BY DEF Held, Listed, StreamsByGroup, Visible

LEMMA OneFresher ==
    ASSUME LifeInv, NEW d \in Devices, NEW r, Fresher(registry[d], r),
           registry' = [registry EXCEPT ![d] = r]
    PROVE  \A x \in Devices : Fresher(registry[x], registry'[x])
BY SameTouches DEF LifeInv, DiscoveryInv, TypeOK, Touches

\* A refresh forgets entries and touches nothing else.
LEMMA ClearFresher ==
    ASSUME NEW r, Sound(r), NEW keep
    PROVE  /\ Fresher(r, ClearGroupStreams(r, keep))
           /\ \A k \in Streams : /\ Unrenewed(r, ClearGroupStreams(r, keep), k)
                                 /\ r.streams[k] = NoEntry => Same(r, ClearGroupStreams(r, keep), k)
BY DEF ClearGroupStreams, Fresher, Unrenewed, Same, Sound, Registry

\* A handshake offers the streams of d again: one renewal.
LEMMA PeerOnlineGone ==
    ASSUME TombstonesOutlast, LifeInv, GoneInv, NEW d \in Devices, NEW p \in Devices,
           PeerOnline(d, p)
    PROVE  GoneInv'
<1> USE DEF history
<1>1. /\ registry' = registry /\ due' = due /\ retired' = retired
      /\ refreshes < MaxRefresh /\ refreshes' = refreshes + 1
  BY DEF PeerOnline
<1>2. refreshes' \in 0..MaxRefresh
  BY <1>1 DEF GoneInv, TombstonesOutlast
<1>3. AllTimely'
  BY <1>1, SameTouches, AllStayTimely DEF GoneInv, Touches
<1>4. NoNewStops
  BY QuietPeer DEF Quiet
<1>5. HostStopsFirst'
  BY <1>1, <1>4, EndsKept DEF GoneInv
<1>6. \A m \in net' : \/ m \in net \/ m.type = "request"
                      \/ m.type = "snapshot" /\ m.streams = StreamsByGroup(registry[d])
  BY DEF PeerOnline, Send
<1>7. ASSUME NEW x \in Devices, NEW k \in retired'[x], x # Owner[k]
      PROVE  GoneFor(x, k)'
  <2>1. k \in Streams /\ GoneFor(x, k)
    BY <1>1, <1>7 DEF GoneInv, AllGone, LifeInv, DiscoveryInv, TypeOK
  <2>2. registry'[x].streams[k] = NoEntry /\ GraveAge(x, k)' = GraveAge(x, k)
    BY <1>1, <2>1 DEF GraveAge, GoneFor
  <2>3. \A y \in Devices : Unrenewed(registry[y], registry'[y], k)
    BY <1>1 DEF Unrenewed
  <2>4. Held(k)' => Held(k)
    BY <1>1 DEF Held
  <2>5. \A m \in net' : m \in net \/ (Renews(m, k)' => Held(k) /\ m.type # "started")
    BY <1>6, <2>4, ListsHeld DEF Renews, Carries
  <2> QED
    BY <1>1, <2>1, <2>2, <2>3, <2>5, GoneRenewed DEF GoneInv
<1> QED
  BY <1>2, <1>3, <1>5, <1>7 DEF GoneInv, AllGone

\* A refresh asks for them again: one renewal.
LEMMA RequestGroupSyncGone ==
    ASSUME TombstonesOutlast, LifeInv, GoneInv, NEW d \in Devices, RequestGroupSync(d)
    PROVE  GoneInv'
<1> USE DEF history
<1> DEFINE r == ClearGroupStreams(registry[d], {k \in Streams : Owner[k] = d})
<1>1. /\ registry' = [registry EXCEPT ![d] = r] /\ due' = due /\ retired' = retired
      /\ refreshes < MaxRefresh /\ refreshes' = refreshes + 1
  BY DEF RequestGroupSync
<1>2. refreshes' \in 0..MaxRefresh
  BY <1>1 DEF GoneInv, TombstonesOutlast
<1>3. /\ Fresher(registry[d], r)
      /\ \A k \in Streams : /\ Unrenewed(registry[d], r, k)
                            /\ registry[d].streams[k] = NoEntry => Same(registry[d], r, k)
  BY ClearFresher, RegistriesTyped
<1> HIDE DEF r
<1>4. registry'[d] = r /\ \A x \in Devices : x # d => registry'[x] = registry[x]
  BY <1>1 DEF LifeInv, DiscoveryInv, TypeOK
<1>5. AllTimely'
  BY <1>1, <1>3, OneFresher, AllStayTimely DEF GoneInv
<1>6. HostStopsFirst'
  BY <1>1, QuietPeer, EndsKept DEF GoneInv, Quiet
<1>7. \A m \in net' : m \in net \/ m.type = "request"
  BY DEF RequestGroupSync, Send
<1>8. ASSUME NEW x \in Devices, NEW k \in retired'[x], x # Owner[k]
      PROVE  GoneFor(x, k)'
  <2>1. k \in Streams /\ GoneFor(x, k)
    BY <1>1, <1>8 DEF GoneInv, AllGone, LifeInv, DiscoveryInv, TypeOK
  <2>2. Same(registry[x], registry'[x], k)
    BY <1>3, <1>4, <2>1 DEF Same, GoneFor
  <2>3. registry'[x].streams[k] = NoEntry /\ GraveAge(x, k)' = GraveAge(x, k)
    BY <2>1, <2>2, SameGrave DEF GoneFor
  <2>4. \A y \in Devices : Unrenewed(registry[y], registry'[y], k)
    BY <1>3, <1>4, <2>1 DEF Unrenewed
  <2>5. Held(k)' => Held(k)
    BY <2>4 DEF Held, Unrenewed
  <2>6. \A m \in net' : m \in net \/ (Renews(m, k)' => Held(k) /\ m.type # "started")
    BY <1>7, <2>5 DEF Renews, Carries
  <2> QED
    BY <1>1, <2>1, <2>3, <2>4, <2>6, GoneRenewed DEF GoneInv
<1> QED
  BY <1>2, <1>5, <1>6, <1>8 DEF GoneInv, AllGone

\* A message in flight that would bring k back to d finds its tombstone.
LEMMA FindsGrave ==
    ASSUME TombstonesOutlast, LifeInv, refreshes \in 0..MaxRefresh,
           NEW d \in Devices, NEW k \in Streams, GoneFor(d, k), NEW m \in net, Carries(m, k)
    PROVE  /\ Tombstoned(registry[d], k) /\ Outlived(d, k, 0)
           /\ m.type = "started" => registry[d].tombstones[k] < TombstoneMaxAge
<1>1. Outlived(d, k, 0) /\ (m.type = "started" => GraveAge(d, k) = 0)
  BY DEF GoneFor, Renews
<1>2. Renewals \in Nat /\ ExpiryAge \in Nat /\ TombstoneMaxAge \in Nat /\ TombstoneMaxAge > 0
  BY RenewalsFacts, RegistryAssumption DEF TombstonesOutlast
<1>3. GraveAge(d, k) # TombstoneMaxAge + 1
  BY <1>1, <1>2 DEF Outlived
<1> QED
  BY <1>1, <1>2, <1>3 DEF GraveAge

\* A delivery brings back nothing that has ended for its receiver, or ends its stream there.
LEMMA DeliverGone ==
    ASSUME TombstonesOutlast, LifeInv, LifeInv', GoneInv, NEW m \in net, Deliver(m)
    PROVE  GoneInv'
<1> DEFINE d == m.to
           r == registry[m.to]
           s == Handle(registry[m.to], m)
<1>1. m \in Message /\ d \in Devices /\ Sound(r)
      /\ registry' = [registry EXCEPT ![d] = s]
      /\ due' = due /\ refreshes' = refreshes
      /\ retired \in [Devices -> SUBSET Streams]
  BY DEF Deliver, LifeInv, DiscoveryInv, TypeOK, AllSound, Message
<1>2. registry'[d] = s /\ \A x \in Devices : x # d => registry'[x] = registry[x]
  BY <1>1 DEF LifeInv, DiscoveryInv, TypeOK
<1>3. /\ Fresher(r, s)
      /\ \A k \in Streams : ~Carries(m, k) => Unrenewed(r, s, k)
      /\ \A k \in Streams :
           /\ r.streams[k] = NoEntry
           /\ Carries(m, k) => Tombstoned(r, k)
           /\ Carries(m, k) /\ m.type = "started" => r.tombstones[k] < TombstoneMaxAge
           => Same(r, s, k)
      /\ m.type = "stopped" /\ r.streams[m.stream] # NoEntry =>
           s.streams[m.stream] = NoEntry /\ s.tombstones[m.stream] = 0
  BY <1>1, HandleTouches
<1>4. retired' = retired \/ ( /\ m.type = "stopped" /\ r.streams[m.stream] # NoEntry
                              /\ retired' = [retired EXCEPT ![d] = retired[d] \cup {m.stream}])
  BY DEF Deliver
<1>5. net' \subseteq net \/ (m.type = "request" /\ \A n \in net' : n \in net \/
          (n.type = "snapshot" /\ n.streams = StreamsByGroup(r)))
  BY DEF Deliver
<1> HIDE DEF s, r, d
<1>6. AllTimely'
  BY <1>1, <1>3, OneFresher, AllStayTimely DEF GoneInv, r, d
<1>7. HostStopsFirst'
  <2>1. m.type = "stopped" => m.stream \in Streams /\ m.stream \in retired[Owner[m.stream]]
    BY <1>1 DEF GoneInv, HostStopsFirst, Message
  <2>2. \A x \in Devices : retired[x] \subseteq retired'[x]
    BY <1>1, <1>4
  <2>3. \A x \in Devices : \A k \in retired'[x] : k \in Streams /\ k \in retired[Owner[k]]
    BY <1>1, <1>4, <2>1 DEF GoneInv, HostStopsFirst
  <2>4. \A n \in net' : n.type = "stopped" =>
          n \in net /\ n.stream \in Streams /\ n.stream \in retired[Owner[n.stream]]
    BY <1>5 DEF GoneInv, HostStopsFirst, LifeInv, DiscoveryInv, TypeOK, Message
  <2> QED
    BY <2>2, <2>3, <2>4, DiscoveryAssumption DEF HostStopsFirst
<1>8. ASSUME NEW x \in Devices, NEW k \in retired[x], x # Owner[k]
      PROVE  GoneFor(x, k)'
  <2>1. k \in Streams /\ GoneFor(x, k) /\ registry[x].streams[k] = NoEntry
    BY <1>1, <1>8 DEF GoneInv, AllGone, GoneFor
  <2>2. Carries(m, k) =>
          /\ Tombstoned(registry[x], k) /\ Outlived(x, k, 0)
          /\ m.type = "started" => registry[x].tombstones[k] < TombstoneMaxAge
    BY <2>1, FindsGrave DEF GoneInv
  <2>3. Same(registry[x], registry'[x], k)
    BY <1>2, <1>3, <2>1, <2>2 DEF Same, r, d
  <2>4. registry'[x].streams[k] = NoEntry /\ GraveAge(x, k)' = GraveAge(x, k)
    BY <2>1, <2>3, SameGrave
  <2>5. \A y \in Devices :
           \/ Unrenewed(registry[y], registry'[y], k)
           \/ registry'[y].streams[k].age = 0 /\ Outlived(x, k, 0)
    <3> SUFFICES ASSUME NEW y \in Devices
                 PROVE  \/ Unrenewed(registry[y], registry'[y], k)
                        \/ registry'[y].streams[k].age = 0 /\ Outlived(x, k, 0)
      OBVIOUS
    <3>1. CASE y # d
      BY <1>2, <3>1 DEF Unrenewed
    <3>2. CASE y = d
      BY <1>2, <1>3, <2>1, <2>2, <3>2 DEF Fresher, r, d
    <3> QED
      BY <3>1, <3>2
  <2>6. ASSUME NEW n \in net', n \notin net, Renews(n, k)'
        PROVE  Outlived(x, k, 0) /\ n.type # "started"
    <3>1. m.type = "request" /\ n.type = "snapshot" /\ n.streams = StreamsByGroup(r)
      BY <1>5, <2>6
    <3>2. k \in Listed(StreamsByGroup(registry[d]))
      BY <2>6, <3>1 DEF Renews, Carries, r, d
    <3>3. Held(k)
      BY <1>1, <3>2, ListsHeld
    <3>4. Outlived(x, k, 0)
      BY <2>1, <3>1, <3>3 DEF GoneFor, Renews
    <3> QED
      BY <3>1, <3>4
  <2> QED
    BY <1>1, <2>1, <2>4, <2>5, <2>6, GoneStays DEF GoneInv
<1>9. ASSUME NEW x \in Devices, NEW k \in retired'[x], x # Owner[k]
      PROVE  GoneFor(x, k)'
  <2>1. CASE k \in retired[x]
    BY <1>8, <1>9, <2>1
  <2>2. CASE k \notin retired[x]
    <3>1. /\ m.type = "stopped" /\ r.streams[m.stream] # NoEntry /\ x = d /\ k = m.stream
          /\ k \in Streams
      BY <1>1, <1>4, <1>9, <2>2 DEF Message
    <3>2. registry'[x].streams[k] = NoEntry /\ registry'[x].tombstones[k] = 0
      BY <1>2, <1>3, <3>1
    <3> QED
      BY <1>1, <3>1, <3>2, FreshGrave DEF GoneInv
  <2> QED
    BY <2>1, <2>2
<1> QED
  BY <1>1, <1>6, <1>7, <1>9 DEF GoneInv, AllGone

\* With no more tombstones than there is room for, the check buries what has expired
\* and drops the tombstones past their age, and no other.
LEMMA CheckEffect ==
    ASSUME TombstonesOutlast, LifeInv, NEW d \in Devices, NEW r, HeartbeatCheck(d),
           r = registry[d]
    PROVE  /\ \A x \in Devices : x # d => registry'[x] = registry[x]
           /\ \A k \in Streams :
                LET dead == r.streams[k] # NoEntry /\ r.streams[k].age > ExpiryAge
                IN /\ registry'[d].streams[k] = IF dead THEN NoEntry ELSE r.streams[k]
                   /\ registry'[d].tombstones[k] =
                        IF dead THEN 0 ELSE IF r.tombstones[k] > TombstoneMaxAge THEN NoTime
                        ELSE r.tombstones[k]
<1> DEFINE kept == DropOldTombstones(ExpireStreams(r))
           buried == {k \in Streams : Tombstoned(kept, k)}
<1>1. PICK gone \in EvictionChoices(kept) : registry' = [registry EXCEPT ![d] = Evict(kept, gone)]
  BY DEF HeartbeatCheck
<1>2. gone = {}
  <2>1. buried \subseteq Streams /\ IsFiniteSet(Streams)
    BY DEF TombstonesOutlast
  <2>2. IsFiniteSet(buried) /\ Cardinality(buried) <= Cardinality(Streams)
    BY <2>1, FS_Subset
  <2>3. Cardinality(buried) \in Nat /\ Cardinality(Streams) \in Nat
    BY <2>1, <2>2, FS_CardinalityType
  <2>4. Cardinality(buried) - TombstoneMaxEntries <= 0
    BY <2>2, <2>3, RegistryAssumption DEF TombstonesOutlast
  <2>5. /\ gone \subseteq buried
        /\ Cardinality(gone) = IF Cardinality(buried) - TombstoneMaxEntries > 0
                               THEN Cardinality(buried) - TombstoneMaxEntries ELSE 0
    BY <1>1 DEF EvictionChoices
  <2> HIDE DEF buried
  <2>6. Cardinality(gone) = 0 /\ IsFiniteSet(gone)
    BY <2>2, <2>3, <2>4, <2>5, FS_Subset, RegistryAssumption
  <2> QED
    BY <2>6, FS_EmptySet
<1>3. \A k \in Streams :
        LET dead == r.streams[k] # NoEntry /\ r.streams[k].age > ExpiryAge
        IN /\ Evict(kept, gone).streams[k] = IF dead THEN NoEntry ELSE r.streams[k]
           /\ Evict(kept, gone).tombstones[k] =
                IF dead THEN 0 ELSE IF r.tombstones[k] > TombstoneMaxAge THEN NoTime
                ELSE r.tombstones[k]
  BY <1>2, RegistryAssumption DEF Evict, DropOldTombstones, ExpireStreams, ExpiredStreams
<1> DEFINE s == Evict(kept, gone)
<1> HIDE DEF s
<1>4. registry'[d] = s /\ \A x \in Devices : x # d => registry'[x] = registry[x]
  BY <1>1 DEF LifeInv, DiscoveryInv, TypeOK, s
<1> QED
  BY <1>3, <1>4 DEF s

\* The check expires entries on time and drops no tombstone that is still needed.
LEMMA HeartbeatCheckGone ==
    ASSUME TombstonesOutlast, LifeInv, GoneInv, NEW d \in Devices, HeartbeatCheck(d)
    PROVE  GoneInv'
<1> USE DEF history
<1> DEFINE r == registry[d]
<1> DEFINE s == registry'[d]
<1>1. \A k \in Streams :
        LET dead == r.streams[k] # NoEntry /\ r.streams[k].age > ExpiryAge
        IN /\ s.streams[k] = IF dead THEN NoEntry ELSE r.streams[k]
           /\ s.tombstones[k] = IF dead THEN 0
                                ELSE IF r.tombstones[k] > TombstoneMaxAge THEN NoTime
                                ELSE r.tombstones[k]
  BY CheckEffect
<1>2. /\ net' = net /\ refreshes' = refreshes /\ retired' = retired
      /\ due' = due \ {<<"check", d>>}
  BY DEF HeartbeatCheck, Fire
<1>3. registry'[d] = s /\ \A x \in Devices : x # d => registry'[x] = registry[x]
  BY CheckEffect
<1> HIDE DEF s
<1>4. \A k \in Streams :
        /\ r.streams[k] # NoEntry => r.streams[k].age \in Nat
        /\ Tombstoned(r, k) => r.tombstones[k] \in Nat
        /\ r.tombstones[k] \in Nat \cup {NoTime}
        /\ Tombstoned(r, k) => r.tombstones[k] <= TombstoneMaxAge + 1
  <2>1. Timely(r, <<"check", d>> \in due)
    BY DEF GoneInv, AllTimely
  <2> HIDE DEF r
  <2>2. \A k \in Streams :
           /\ r.streams[k] # NoEntry => r.streams[k].age \in Nat
           /\ Tombstoned(r, k) => r.tombstones[k] \in Nat
           /\ r.tombstones[k] \in Nat \cup {NoTime}
    BY RegistriesTyped DEF r
  <2>3. \A k \in Streams : Tombstoned(r, k) => r.tombstones[k] <= TombstoneMaxAge + 1
    BY <2>1, <2>2, RegistryAssumption DEF Timely
  <2> QED
    BY <2>2, <2>3
<1> HIDE DEF r
<1>5. Timely(s, FALSE)
  BY <1>1, <1>4, RegistryAssumption DEF Timely, Tombstoned
<1>6. AllTimely'
  <2> SUFFICES ASSUME NEW x \in Devices PROVE Timely(registry'[x], <<"check", x>> \in due')
    BY DEF AllTimely
  <2>1. CASE x = d
    BY <1>2, <1>3, <1>5, <2>1 DEF Timely
  <2>2. CASE x # d
    <3>1. registry'[x] = registry[x] /\ (<<"check", x>> \in due' <=> <<"check", x>> \in due)
      BY <1>2, <1>3, <2>2
    <3>2. Timely(registry[x], <<"check", x>> \in due)
      BY DEF GoneInv, AllTimely
    <3> QED
      BY <3>1, <3>2 DEF Timely
  <2> QED
    BY <2>1, <2>2
<1>7. HostStopsFirst'
  BY <1>2, QuietPeer, EndsKept DEF GoneInv, Quiet
<1>8. ASSUME NEW x \in Devices, NEW k \in retired'[x], x # Owner[k]
      PROVE  GoneFor(x, k)'
  <2>1. k \in Streams /\ GoneFor(x, k) /\ registry[x].streams[k] = NoEntry
    BY <1>2, <1>8 DEF GoneInv, AllGone, LifeInv, DiscoveryInv, TypeOK, GoneFor
  <2>2. registry'[x].streams[k] = NoEntry /\ GraveAge(x, k)' = GraveAge(x, k)
    <3>1. CASE x # d
      BY <1>3, <2>1, <3>1 DEF GraveAge
    <3>2. CASE x = d
      <4>1. registry[x] = r /\ registry'[x] = s /\ r.streams[k] = NoEntry
        BY <1>3, <2>1, <3>2 DEF r
      <4>2. /\ s.streams[k] = NoEntry
            /\ s.tombstones[k] = IF r.tombstones[k] > TombstoneMaxAge THEN NoTime
                                 ELSE r.tombstones[k]
        BY <1>1, <2>1, <4>1
      <4>3. CASE r.tombstones[k] > TombstoneMaxAge
        <5>1. Tombstoned(r, k) /\ r.tombstones[k] = TombstoneMaxAge + 1
          BY <1>4, <2>1, <4>3, RegistryAssumption DEF Tombstoned, NoTime
        <5> QED
          BY <4>1, <4>2, <4>3, <5>1 DEF GraveAge, Tombstoned
      <4>4. CASE ~(r.tombstones[k] > TombstoneMaxAge)
        BY <4>1, <4>2, <4>4 DEF GraveAge, Tombstoned
      <4> QED
        BY <4>3, <4>4
    <3> QED
      BY <3>1, <3>2
  <2>3. ASSUME NEW y \in Devices PROVE Unrenewed(registry[y], registry'[y], k)
    BY <1>1, <1>3, <2>1 DEF Unrenewed, r
  <2>4. \A m \in net' : m \in net
    BY <1>2
  <2> QED
    BY <1>2, <2>1, <2>2, <2>3, <2>4, GoneStays DEF GoneInv
<1> QED
  BY <1>2, <1>6, <1>7, <1>8 DEF GoneInv, AllGone

\* A period makes tombstone and entry older alike.
LEMMA TickGone ==
    ASSUME TombstonesOutlast, LifeInv, GoneInv, Tick
    PROVE  GoneInv'
<1>1. /\ net = {} /\ net' = {} /\ due = {} /\ refreshes' = refreshes /\ retired' = retired
      /\ \A x \in Devices : <<"check", x>> \in due'
      /\ \A x \in Devices : registry'[x] = AgeRegistry(registry[x])
  BY DEF Tick, TombstonesOutlast
<1>2. ASSUME NEW x \in Devices, NEW k \in Streams
      PROVE  /\ registry[x].streams[k] = NoEntry => registry'[x].streams[k] = NoEntry
             /\ registry[x].streams[k] # NoEntry =>
                  /\ registry[x].streams[k].age \in Nat
                  /\ registry[x].streams[k].age <= ExpiryAge
                  /\ registry'[x].streams[k].age = registry[x].streams[k].age + 1
             /\ ~Tombstoned(registry[x], k) => ~Tombstoned(registry'[x], k)
             /\ Tombstoned(registry[x], k) =>
                  /\ registry[x].tombstones[k] \in Nat
                  /\ registry[x].tombstones[k] <= TombstoneMaxAge
                  /\ registry'[x].tombstones[k] = registry[x].tombstones[k] + 1
  <2>1. Timely(registry[x], FALSE)
    BY <1>1 DEF GoneInv, AllTimely, Timely
  <2>2. /\ registry[x].streams[k] # NoEntry =>
             registry[x].streams[k].age \in Nat /\ registry[x].streams[k].age <= ExpiryAge
        /\ Tombstoned(registry[x], k) =>
             registry[x].tombstones[k] \in Nat /\ registry[x].tombstones[k] <= TombstoneMaxAge
    BY <2>1, RegistriesTyped DEF Timely
  <2> DEFINE r == registry[x]
             a == AgeRegistry(registry[x])
  <2>0. registry'[x] = a
    BY <1>1
  <2>3. a.streams[k] = IF r.streams[k] = NoEntry THEN NoEntry
                       ELSE [ann |-> r.streams[k].ann, age |-> Older(r.streams[k].age, ExpiryAge)]
    BY DEF AgeRegistry
  <2>5. a.tombstones[k] = IF r.tombstones[k] = NoTime THEN NoTime
                          ELSE Older(r.tombstones[k], TombstoneMaxAge)
    BY DEF AgeRegistry
  <2> HIDE DEF r, a
  <2>4. /\ registry[x].streams[k] # NoEntry =>
             registry'[x].streams[k].age = registry[x].streams[k].age + 1
        /\ Tombstoned(registry[x], k) =>
             registry'[x].tombstones[k] = registry[x].tombstones[k] + 1
    BY <2>0, <2>2, <2>3, <2>5, RegistryAssumption DEF Older, Tombstoned, r
  <2> QED
    BY <2>0, <2>2, <2>3, <2>4, <2>5 DEF Tombstoned, r
<1>3. refreshes' \in 0..MaxRefresh
  BY <1>1 DEF GoneInv
<1>4. AllTimely'
  <2> SUFFICES ASSUME NEW x \in Devices PROVE Timely(registry'[x], TRUE)
    BY <1>1 DEF AllTimely, Timely
  <2> QED
    BY <1>2, RegistryAssumption DEF Timely
<1>5. HostStopsFirst'
  BY <1>1, QuietTick, EndsKept DEF GoneInv, Quiet
<1>6. ASSUME NEW d \in Devices, NEW k \in retired'[d], d # Owner[k]
      PROVE  GoneFor(d, k)'
  <2>1. k \in Streams /\ GoneFor(d, k) /\ registry'[d].streams[k] = NoEntry
    BY <1>1, <1>2, <1>6 DEF GoneInv, AllGone, LifeInv, DiscoveryInv, TypeOK, GoneFor
  <2>2. GraveAge(d, k) \in Nat /\ GraveAge(d, k)' \in Nat /\ GraveAge(d, k)' <= GraveAge(d, k) + 1
    BY <1>2, <2>1, RegistryAssumption DEF GraveAge, Tombstoned, NoTime
  <2>3. Renewals' = Renewals /\ Renewals \in Nat
    BY <1>1, RenewalsFacts DEF GoneInv
  <2>4. ASSUME NEW x \in Devices, registry'[x].streams[k] # NoEntry
        PROVE  Outlived(d, k, registry[x].streams[k].age)'
    <3>1. /\ registry[x].streams[k].age \in Nat
          /\ registry'[x].streams[k].age = registry[x].streams[k].age + 1
          /\ Outlived(d, k, registry[x].streams[k].age)
      BY <1>2, <2>1, <2>4 DEF GoneFor
    <3> QED
      BY <2>2, <2>3, <3>1, RegistryAssumption DEF Outlived
  <2> QED
    BY <1>1, <2>1, <2>4 DEF GoneFor
<1> QED
  BY <1>3, <1>4, <1>5, <1>6 DEF GoneInv, AllGone

\* GoneInv holds at first and, beside LifeInv, is kept by every step.
LEMMA GoneInit == TombstonesOutlast /\ Init => GoneInv
BY DEF Init, GoneInv, TombstonesOutlast, AllTimely, Timely, Tombstoned, EmptyRegistry,
       HostStopsFirst, AllGone

LEMMA GoneNext ==
    ASSUME TombstonesOutlast, LifeInv, LifeInv', GoneInv, [Next]_vars
    PROVE  GoneInv'
<1>1. CASE UNCHANGED vars
  BY <1>1 DEF vars, GoneInv, AllTimely, Timely, HostStopsFirst, AllGone, GoneFor, Outlived,
              GraveAge, Renewals, Renews, Held
<1>2. ASSUME NEW h \in Devices, HostStep(h) PROVE GoneInv'
  BY <1>2, HostConcerns, ConcernsGone DEF GoneInv
<1> QED
  BY <1>1, <1>2, PeerOnlineGone, RequestGroupSyncGone, DeliverGone, HeartbeatCheckGone, TickGone
     DEF Next

\* While tombstones outlast the entries they guard against, a device that has seen a
\* remote stream stop never shows it again: not from an entry some device still holds,
\* however often it is relayed, nor from a message still in flight.
THEOREM StoppedStaysGone ==
    ASSUME TombstonesOutlast
    PROVE  Spec => []NoResurrection
<1>1. Init => GoneInv
  BY GoneInit
<1>2. LifeInv /\ LifeInv' /\ GoneInv /\ [Next]_vars => GoneInv'
  BY GoneNext
<1>3. GoneInv => NoResurrection
  BY DEF GoneInv, AllGone, GoneFor, NoResurrection
<1> QED
  BY <1>1, <1>2, <1>3, LifeInvariant, PTL DEF Spec
=============================================================================
