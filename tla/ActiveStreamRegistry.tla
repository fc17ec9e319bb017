------------------------- MODULE ActiveStreamRegistry -------------------------
(***************************************************************************)
(* The registry of live streams one device keeps                           *)
(* (renderer/services/active-stream-registry.ts): which streams it believes *)
(* are running, the highest heartbeat sequence it has seen of each, and a   *)
(* tombstone for each stream it has seen stop or expire.                    *)
(*                                                                         *)
(* The module has no behaviour of its own.  Every handler of the class is   *)
(* an operator from a registry to a registry; StreamDiscovery applies them. *)
(* A stream is its composite key groupId:hostDeviceId:logicalStreamId.  A   *)
(* wall-clock instant t is kept as its age, the number of whole check       *)
(* periods since t, because every use of Date.now() in the class is a       *)
(* comparison with an earlier instant.                                      *)
(*                                                                         *)
(* Left out: the update events (the registry's listeners only copy it into  *)
(* the UI store), the flag InternalStream.stopped (never set to true), the  *)
(* fields of an announcement that no handler tests, and leaseValidUntil,    *)
(* which every handler reads but no sender in the repository sets.          *)
(***************************************************************************)
EXTENDS Integers, FiniteSets

CONSTANTS
    Streams,             \* composite keys of streams
    Permissions,         \* values of a stream's remote-input permissions
    NoEntry,             \* no stream: the key is not in the map, or not listed
    ExpiryAge,           \* expiryMs, in check periods
    TombstoneMaxAge,     \* tombstoneMaxAgeMs, in check periods
    TombstoneMaxEntries  \* tombstoneMaxEntries

ASSUME RegistryAssumption ==
    /\ ExpiryAge \in Nat
    /\ TombstoneMaxAge \in Nat
    /\ TombstoneMaxEntries \in Nat

NoTime == -1      \* the key has no tombstone
NoSequence == -1  \* the key has no recorded sequence: lastSeq = get(k) ?? -1

\* What a host says of a stream: the media session viewers must join, the
\* host's streamRevision, its heartbeatSequence and its input permissions.
Announcement == [session : Nat, revision : Nat, seq : Nat, perms : Permissions]

Entry == [ann : Announcement, age : Nat]

ASSUME EntryAssumption == NoEntry \notin Entry \cup Announcement

\* A list of announcements with distinct keys, as a snapshot carries.
Snapshot == [Streams -> Announcement \cup {NoEntry}]
Listed(snap) == {k \in Streams : snap[k] # NoEntry}

Registry == [streams    : [Streams -> Entry \cup {NoEntry}],
             tombstones : [Streams -> Nat \cup {NoTime}],
             sequences  : [Streams -> Nat \cup {NoSequence}]]

EmptyRegistry == [streams    |-> [k \in Streams |-> NoEntry],
                  tombstones |-> [k \in Streams |-> NoTime],
                  sequences  |-> [k \in Streams |-> NoSequence]]

Tombstoned(r, k) == r.tombstones[k] # NoTime

\* The streams a query returns: present and not tombstoned.
Visible(r) == {k \in Streams : r.streams[k] # NoEntry /\ ~Tombstoned(r, k)}

\* The answer to a query.
StreamsByGroup(r) ==
    [k \in Streams |-> IF k \in Visible(r) THEN r.streams[k].ann ELSE NoEntry]

-----------------------------------------------------------------------------
\* Write announcement a at key k: entry, freshness and sequence together.
Put(r, k, a) ==
    [r EXCEPT !.streams[k] = [ann |-> a, age |-> 0],
              !.sequences[k] = a.seq]

\* Delete the entry of k and its sequence, and bury the key.
Bury(r, k) ==
    [r EXCEPT !.streams[k] = NoEntry,
              !.sequences[k] = NoSequence,
              !.tombstones[k] = 0]

\* stream.started, and stream.restarted when replaces holds.  A tombstone
\* younger than its maximum age rejects the start; an older one is removed
\* even if the start is then rejected as stale.  A restart replaces a present
\* entry whatever its sequence.
HandleStarted(r, k, a, replaces) ==
    LET unburied == [r EXCEPT !.tombstones[k] = NoTime]
    IN IF Tombstoned(r, k) /\ r.tombstones[k] < TombstoneMaxAge
         THEN r
       ELSE IF r.streams[k] = NoEntry \/ replaces \/ a.seq > r.sequences[k]
         THEN Put(unburied, k, a)
       ELSE unburied

\* Faulty variant of HandleHeartbeat: only the entry takes the new sequence.
HandleHeartbeatInEntry(r, k, seq) ==
    IF Tombstoned(r, k) \/ seq <= r.sequences[k] \/ r.streams[k] = NoEntry
      THEN r
      ELSE [r EXCEPT !.streams[k] = [ann |-> [@.ann EXCEPT !.seq = seq], age |-> 0]]

\* stream.heartbeat: it compares no media session, so a heartbeat of one session
\* refreshes the entry of another and lifts its sequence.
HandleHeartbeat(r, k, seq) ==
    IF Tombstoned(r, k) \/ seq <= r.sequences[k] \/ r.streams[k] = NoEntry
      THEN r
      ELSE [r EXCEPT !.streams[k] = [ann |-> [@.ann EXCEPT !.seq = seq],
                                     age |-> 0],
                     !.sequences[k] = seq]

\* stream.stopped: ignored, without a tombstone, when the key has no entry.
HandleStopped(r, k) == IF r.streams[k] = NoEntry THEN r ELSE Bury(r, k)

\* Faulty variant of RegisterLocalStream: an old tombstone stays.
RegisterOverTombstone(r, k, a) == Put(r, k, a)

\* The host's own registration, which does not look at tombstones.
RegisterLocalStream(r, k, a) == Put([r EXCEPT !.tombstones[k] = NoTime], k, a)

\* stream.inputPermissionsChanged: neither the sequence nor the age moves.
UpdateInputPermissions(r, k, p) ==
    IF k \in Visible(r) THEN [r EXCEPT !.streams[k].ann.perms = p] ELSE r

\* Faulty variants of TakesSnapshot: without the tombstone, without the revision.
TakesBuried(r, k, a) ==
    \/ r.streams[k] = NoEntry
    \/ LET have == r.streams[k].ann
       IN a.revision >= have.revision /\ a.seq > have.seq

TakesBySequence(r, k, a) ==
    /\ ~Tombstoned(r, k)
    /\ r.streams[k] = NoEntry \/ a.seq >= r.streams[k].ann.seq

\* One entry of stream.state.snapshot is taken when the key is not tombstoned
\* and either it is new or it is neither an older revision nor an older
\* sequence, an equal sequence being of use only if the permissions differ.
TakesSnapshot(r, k, a) ==
    /\ ~Tombstoned(r, k)
    /\ \/ r.streams[k] = NoEntry
       \/ LET have == r.streams[k].ann
          IN /\ a.revision >= have.revision
             /\ \/ a.seq > have.seq
                \/ a.seq = have.seq /\ a.perms # have.perms

\* stream.state.snapshot.  The keys of a snapshot are distinct, so its entries
\* are handled independently of each other.
HandleSnapshot(r, snap) ==
    LET taken == {k \in Listed(snap) : TakesSnapshot(r, k, snap[k])}
    IN [streams    |-> [k \in Streams |-> IF k \in taken THEN [ann |-> snap[k], age |-> 0]
                                                         ELSE r.streams[k]],
        sequences  |-> [k \in Streams |-> IF k \in taken THEN snap[k].seq ELSE r.sequences[k]],
        tombstones |-> r.tombstones]

\* Forget every stream that is not in keep, leaving no tombstone.
ClearGroupStreams(r, keep) ==
    [r EXCEPT
       !.streams = [k \in Streams |-> IF k \in keep THEN @[k] ELSE NoEntry],
       !.sequences = [k \in Streams |-> IF k \in keep THEN @[k] ELSE NoSequence]]

-----------------------------------------------------------------------------
\* Faulty variant of ExpiredStreams: a stream is given time until its first
\* heartbeat.
ExpiredAfterHeartbeat(r) ==
    {k \in Streams : r.streams[k] # NoEntry /\ r.streams[k].ann.seq > 0
                                           /\ r.streams[k].age > ExpiryAge}

\* The periodic check, in its two parts.
ExpiredStreams(r) ==
    {k \in Streams : r.streams[k] # NoEntry /\ r.streams[k].age > ExpiryAge}

\* Part one: an entry not refreshed for longer than ExpiryAge is buried.
ExpireStreams(r) ==
    LET dead == ExpiredStreams(r)
    IN [streams    |-> [k \in Streams |-> IF k \in dead THEN NoEntry ELSE r.streams[k]],
        sequences  |-> [k \in Streams |-> IF k \in dead THEN NoSequence ELSE r.sequences[k]],
        tombstones |-> [k \in Streams |-> IF k \in dead THEN 0 ELSE r.tombstones[k]]]

\* Part two: a tombstone older than its maximum age is removed ...
DropOldTombstones(r) ==
    [r EXCEPT !.tombstones = [k \in Streams |->
                                IF @[k] > TombstoneMaxAge THEN NoTime ELSE @[k]]]

\* ... and while more than the maximum remain, the oldest go.  Which of several
\* equally old ones go is the map's insertion order: any choice of oldest.
EvictionChoices(r) ==
    LET buried == {k \in Streams : Tombstoned(r, k)}
        excess == Cardinality(buried) - TombstoneMaxEntries
    IN {gone \in SUBSET buried :
          /\ Cardinality(gone) = IF excess > 0 THEN excess ELSE 0
          /\ \A k \in gone, j \in buried \ gone : r.tombstones[k] >= r.tombstones[j]}

Evict(r, gone) ==
    [r EXCEPT !.tombstones = [k \in Streams |-> IF k \in gone THEN NoTime ELSE @[k]]]

-----------------------------------------------------------------------------
\* One check period passes.  An age beyond the largest limit it is compared
\* with behaves as that limit plus one, where it stays.
Older(age, limit) == IF age > limit THEN age ELSE age + 1

AgeRegistry(r) ==
    [streams    |-> [k \in Streams |-> IF r.streams[k] = NoEntry THEN NoEntry
                      ELSE [ann |-> r.streams[k].ann,
                            age |-> Older(r.streams[k].age, ExpiryAge)]],
     tombstones |-> [k \in Streams |-> IF r.tombstones[k] = NoTime THEN NoTime
                      ELSE Older(r.tombstones[k], TombstoneMaxAge)],
     sequences  |-> r.sequences]
=============================================================================
