---------------------------- MODULE PendingLifecycle ----------------------------
(***************************************************************************)
(* Delivery of a host's lifecycle messages (stream.started, .restarted,     *)
(* .stopped) by GroupConnectionManager, for one group.                      *)
(*                                                                         *)
(* A message is broadcast at once or, if nobody received it, kept in a Map  *)
(* until the connection comes back (flushPendingLifecycle) or a peer says   *)
(* hello (flushPendingLifecycleToPeer).  Signing a message is asynchronous, *)
(* so several sends and flushes run interleaved with the session's          *)
(* operations, each holding a reference to the Map it began with.           *)
(*                                                                         *)
(* A JavaScript Map is a table in insertion order: deleting leaves a hole,  *)
(* setting a present key keeps its place, and a live iteration sees what is *)
(* appended while it runs.  Tables are objects: a flush may still use one   *)
(* that is no longer the group's.                                           *)
(***************************************************************************)
EXTENDS Integers, Sequences, FiniteSets

CONSTANTS
    Streams,     \* logicalStreamIds
    Peers,       \* devices that may be connected
    NoStream,    \* the host shares nothing
    Hole,        \* a deleted place of a table
    MaxPending,  \* MAX_PENDING_PER_GROUP
    Reliable,    \* a send to a mapped peer succeeds
    MaxRevision, \* bound: restarts of one stream
    MaxTasks,    \* bound: flushes at a time
    MaxEvents    \* bound: connection and peer events

VARIABLES
    session,    \* the host's session: the stream it shares, its revision
    announcing, \* the session operation awaits its announcement
    unused,     \* streams not started yet
    connected,  \* the connection's state is "connected"
    recipients, \* the peers a broadcast goes to
    tables,     \* every Map object made so far
    current,    \* the group's Map in pendingLifecycle, 0 if none
    sends,      \* messages whose first broadcast is in flight
    flushes,    \* flushes in flight
    events,     \* connection and peer events so far
    handed      \* history: messages sent to at least one peer

pendingVars == <<session, announcing, unused, connected, recipients, tables, current, sends,
                 flushes, events, handed>>

Types == {"started", "restarted", "stopped"}

Lifecycle == [stream : Streams, type : Types, rev : Nat]
Slot == [msg : Lifecycle, old : BOOLEAN]  \* old: beyond PENDING_TTL_MS

ASSUME PendingAssumption ==
    /\ MaxPending \in Nat \ {0}
    /\ Reliable \in BOOLEAN
    /\ NoStream \notin Streams
    /\ Hole \notin Slot
    /\ "all" \notin Peers  \* a flush to all names no peer

Key(m) == <<m.stream, m.type>>

-----------------------------------------------------------------------------
(* Tables *)
Places(t) == {i \in 1..Len(t) : t[i] # Hole}
Size(t) == Cardinality(Places(t))
KeysOf(t) == {Key(t[i].msg) : i \in Places(t)}

Delete(t, keys) == [i \in 1..Len(t) |->
                      IF t[i] # Hole /\ Key(t[i].msg) \in keys THEN Hole ELSE t[i]]

Put(t, slot) ==
    IF Key(slot.msg) \in KeysOf(t)
      THEN [i \in 1..Len(t) |->
              IF t[i] # Hole /\ Key(t[i].msg) = Key(slot.msg) THEN slot ELSE t[i]]
      ELSE Append(t, slot)

\* Faulty variant of EvictOldest: the queue is never cut.
EvictNone(t) == t

\* Beyond the maximum the oldest places go.
EvictOldest(t) ==
    [i \in 1..Len(t) |->
       IF i \in Places(t) /\ Cardinality({j \in Places(t) : j >= i}) > MaxPending
         THEN Hole ELSE t[i]]

\* enqueueLifecycle on a table: a stop first removes the start and the restart.
Enqueue(t, m) ==
    LET kept == IF m.type = "stopped"
                  THEN Delete(t, {<<m.stream, "started">>, <<m.stream, "restarted">>})
                  ELSE t
    IN EvictOldest(Put(kept, [msg |-> m, old |-> FALSE]))

\* The first place after i that a flush sends; older ones are only noted.
Sendable(t, i) == {j \in Places(t) : j > i /\ ~t[j].old}
NextPlace(t, i) == IF Sendable(t, i) = {} THEN Len(t) + 1
                   ELSE CHOOSE j \in Sendable(t, i) : \A l \in Sendable(t, i) : j <= l
ExpiredBetween(t, i, j) == {Key(t[l].msg) : l \in {l \in Places(t) : i < l /\ l < j /\ t[l].old}}

-----------------------------------------------------------------------------
PendingInit ==
    /\ session = [stream |-> NoStream, rev |-> 0]
    /\ announcing = FALSE
    /\ unused = Streams
    /\ connected = FALSE
    /\ recipients = {}
    /\ tables = <<>>
    /\ current = 0
    /\ sends = {}
    /\ flushes = {}
    /\ events = 0
    /\ handed = {}

\* The peers a broadcast to the mapped peers may have reached.
Outcomes == IF Reliable THEN {recipients} ELSE SUBSET recipients

Hand(S, m) == handed' = IF S = {} THEN handed ELSE handed \cup {m}

\* Put m in the group's Map, making one if there is none.
EnqueueCurrent(tabs, cur, m) ==
    IF cur = 0
      THEN /\ tables' = Append(tabs, Enqueue(<<>>, m))
           /\ current' = Len(tabs) + 1
      ELSE /\ tables' = [tabs EXCEPT ![cur] = Enqueue(@, m)]
           /\ current' = cur

\* sendOrQueueStreamLifecycle up to its await: broadcast if connected, else queue.
SendOrQueue(tabs, cur, m) ==
    IF connected
      THEN /\ sends' = sends \cup {m}
           /\ tables' = tabs /\ current' = cur
      ELSE /\ EnqueueCurrent(tabs, cur, m)
           /\ UNCHANGED sends

\* ... and after it: with no recipient the message is queued after all.
SendDone(m) ==
    /\ m \in sends /\ sends' = sends \ {m}
    /\ \E S \in Outcomes :
         /\ Hand(S, m)
         /\ IF S = {} THEN EnqueueCurrent(tables, current, m)
                      ELSE UNCHANGED <<tables, current>>
    /\ announcing' = IF m.type = "stopped" THEN announcing ELSE FALSE
    /\ UNCHANGED <<session, unused, connected, recipients, flushes, events>>

-----------------------------------------------------------------------------
(* The session's operations, one at a time: a start and a restart await    *)
(* their announcement, a stop does not.                                    *)
StartStream(k) ==
    /\ ~announcing /\ session.stream = NoStream /\ k \in unused
    /\ session' = [stream |-> k, rev |-> 1]
    /\ unused' = unused \ {k}
    /\ announcing' = connected
    /\ SendOrQueue(tables, current, [stream |-> k, type |-> "started", rev |-> 1])
    /\ UNCHANGED <<connected, recipients, flushes, events, handed>>

\* Faulty variant of RestartStream: it does not wait for its turn.
RestartAtOnce ==
    /\ session.stream # NoStream /\ session.rev < MaxRevision
    /\ session' = [session EXCEPT !.rev = @ + 1]
    /\ announcing' = connected
    /\ SendOrQueue(tables, current,
         [stream |-> session.stream, type |-> "restarted", rev |-> session.rev + 1])
    /\ UNCHANGED <<unused, connected, recipients, flushes, events, handed>>

RestartStream ==
    /\ ~announcing /\ session.stream # NoStream /\ session.rev < MaxRevision
    /\ session' = [session EXCEPT !.rev = @ + 1]
    /\ announcing' = connected
    /\ SendOrQueue(tables, current,
         [stream |-> session.stream, type |-> "restarted", rev |-> session.rev + 1])
    /\ UNCHANGED <<unused, connected, recipients, flushes, events, handed>>

\* clearPendingForStream on the group's Map, which goes when it is empty.
ClearedTables(k) ==
    IF current = 0 THEN tables
    ELSE [tables EXCEPT ![current] = Delete(@, {<<k, type>> : type \in Types})]
ClearedCurrent(k) ==
    IF current = 0 \/ Size(ClearedTables(k)[current]) = 0 THEN 0 ELSE current

\* Faulty variant of StopStream: it does not wait for its turn.
StopAtOnce ==
    LET k == session.stream
    IN /\ k # NoStream
       /\ session' = [stream |-> NoStream, rev |-> 0]
       /\ SendOrQueue(ClearedTables(k), ClearedCurrent(k),
            [stream |-> k, type |-> "stopped", rev |-> session.rev])
       /\ UNCHANGED <<announcing, unused, connected, recipients, flushes, events, handed>>

StopStream ==
    LET k == session.stream
    IN /\ ~announcing /\ k # NoStream
       /\ session' = [stream |-> NoStream, rev |-> 0]
       /\ SendOrQueue(ClearedTables(k), ClearedCurrent(k),
            [stream |-> k, type |-> "stopped", rev |-> session.rev])
       /\ UNCHANGED <<announcing, unused, connected, recipients, flushes, events, handed>>

-----------------------------------------------------------------------------
(* Flushes.  to is the peer flushed to, or "all"; list is a copy of the     *)
(* entries for a peer, while a broadcast iterates over the table itself.    *)
List(f) == IF f.to = "all" THEN tables[f.table] ELSE f.list

\* The loop from place i: note what expired, and send or leave the loop.
\* Leaving it deletes the noted keys from the table the flush began with, and
\* if that table is empty the group's Map is dropped.
Continue(f, i, noted) ==
    LET j == NextPlace(List(f), i)
        done == noted \cup ExpiredBetween(List(f), i, j)
        g == [f EXCEPT !.at = j, !.done = done]
    IN IF j <= Len(List(f))
         THEN /\ flushes' = (flushes \ {f}) \cup
                              {[g EXCEPT !.sending = List(f)[j].msg]}
              /\ UNCHANGED <<tables, current>>
         ELSE /\ flushes' = flushes \ {f}
              /\ tables' = [tables EXCEPT ![f.table] = Delete(@, done)]
              /\ current' = IF Size(Delete(tables[f.table], done)) = 0 THEN 0 ELSE current

Flush(to) ==
    LET t == tables[current]
        f == [to |-> to, table |-> current, at |-> 0, done |-> {},
              list |-> IF to = "all" THEN <<>> ELSE t, sending |-> Hole]
    IN Continue(f, 0, {})

CanFlush == current # 0 /\ Size(tables[current]) > 0

\* The send of the entry the flush is at completes.
FlushStep(f) ==
    /\ f \in flushes
    /\ \E S \in IF f.to = "all" THEN Outcomes
                ELSE IF f.to \notin recipients THEN {{}}
                ELSE IF Reliable THEN {{f.to}} ELSE {{}, {f.to}} :
         /\ Hand(S, f.sending)
         /\ Continue(f, f.at, IF S = {} THEN f.done ELSE f.done \cup {Key(f.sending)})
    /\ UNCHANGED <<session, announcing, unused, connected, recipients, sends, events>>

-----------------------------------------------------------------------------
(* The connection *)
Connect ==
    /\ ~connected /\ connected' = TRUE
    /\ IF CanFlush THEN Cardinality(flushes) < MaxTasks /\ Flush("all")
                   ELSE UNCHANGED <<tables, current, flushes>>
    /\ UNCHANGED <<session, announcing, unused, recipients, sends, events, handed>>

Disconnect ==
    /\ connected /\ connected' = FALSE
    /\ events < MaxEvents /\ events' = events + 1
    /\ UNCHANGED <<session, announcing, unused, recipients, tables, current, sends, flushes,
                   handed>>

\* Faulty variant of PeerUp: only reconnections flush.
PeerUpQuietly(p) ==
    /\ p \notin recipients /\ recipients' = recipients \cup {p}
    /\ UNCHANGED <<session, announcing, unused, connected, tables, current, sends,
                   flushes, events, handed>>

\* A peer completes the hello handshake.
PeerUp(p) ==
    /\ p \notin recipients /\ recipients' = recipients \cup {p}
    /\ IF connected /\ CanFlush
         THEN Cardinality(flushes) < MaxTasks /\ Flush(p)
         ELSE UNCHANGED <<tables, current, flushes>>
    /\ UNCHANGED <<session, announcing, unused, connected, sends, events, handed>>

PeerDown(p) ==
    /\ p \in recipients /\ recipients' = recipients \ {p}
    /\ events < MaxEvents /\ events' = events + 1
    /\ UNCHANGED <<session, announcing, unused, connected, tables, current, sends, flushes,
                   handed>>

\* Five minutes pass with no flush running.
TimeToLive ==
    /\ flushes = {} /\ current # 0
    /\ events < MaxEvents /\ events' = events + 1
    /\ tables' = [tables EXCEPT ![current] =
         [i \in 1..Len(@) |-> IF @[i] = Hole THEN Hole ELSE [@[i] EXCEPT !.old = TRUE]]]
    /\ UNCHANGED <<session, announcing, unused, connected, recipients, current, sends, flushes,
                   handed>>

PendingNext ==
    \/ \E k \in Streams : StartStream(k)
    \/ RestartStream
    \/ StopStream
    \/ \E m \in sends : SendDone(m)
    \/ \E f \in flushes : FlushStep(f)
    \/ Connect \/ Disconnect
    \/ \E p \in Peers : PeerUp(p) \/ PeerDown(p)
    \/ TimeToLive

PendingSpec == PendingInit /\ [][PendingNext]_pendingVars

-----------------------------------------------------------------------------
Queue == IF current = 0 THEN <<>> ELSE tables[current]
Queued == {Queue[i].msg : i \in Places(Queue)}
Unexpired == {Queue[i].msg : i \in {i \in Places(Queue) : ~Queue[i].old}}

\* Every variable keeps its type, a table holds a key once, and the queue no more
\* than its maximum.
QueueTypeOK ==
    /\ session.stream \in Streams \cup {NoStream}
    /\ announcing \in BOOLEAN /\ connected \in BOOLEAN
    /\ unused \subseteq Streams /\ recipients \subseteq Peers
    /\ current \in 0..Len(tables)
    /\ sends \subseteq Lifecycle /\ handed \subseteq Lifecycle
    /\ \A n \in DOMAIN tables : \A i \in Places(tables[n]) : tables[n][i] \in Slot
    /\ \A n \in DOMAIN tables : Cardinality(KeysOf(tables[n])) = Size(tables[n])
    /\ Size(Queue) <= MaxPending
    /\ \A f \in flushes : f.table \in DOMAIN tables /\ f.sending \in Lifecycle

\* Once a stop is queued, no start or restart of the stream is queued with it:
\* a send that fails late must not put one back behind the stop.
StopSupersedes ==
    \A m \in Queued : m.type = "stopped" =>
       \A n \in Queued : n.stream = m.stream => n.type = "stopped"

\* No message is stranded: while the connection is up, a peer is mapped and
\* sends succeed, whatever is still queued has a send or a flush under way.
NothingStranded ==
    (Reliable /\ connected /\ recipients # {} /\ sends = {} /\ flushes = {}) => Unexpired = {}

\* The queue replays a stream's messages in the order its host issued them, even
\* those queued late, when their own broadcast had found no recipient.
QueueInOrder ==
    \A i, j \in Places(Queue) :
       LET m == Queue[i].msg
           n == Queue[j].msg
       IN i < j /\ m.stream = n.stream => m.rev <= n.rev /\ n.type # "started"

\* A flush removes from the group's queue only what was delivered or expired
\* (the comment of flushPendingLifecycle).
FlushRemovesOnlyDelivered ==
    [][\A f \in flushes : FlushStep(f) =>
          \A m \in Unexpired : m \in Queued' \/ m \in handed']_pendingVars

\* A flush never begins to send the start or restart of a stream that its host
\* has stopped (the comment on clearPendingForStream in stopStream).
NoFlushAfterStop ==
    [][\A f \in flushes' \ flushes :
          f.sending.type # "stopped" => f.sending.stream = session.stream]_pendingVars
=============================================================================
