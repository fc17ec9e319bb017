------------------------------- MODULE GroupSync -------------------------------
(***************************************************************************)
(* The replicated state of a group (group-sync-service.ts, the merge of     *)
(* packages/shared/src/groups.ts, the hybrid clock of                       *)
(* packages/shared/src/hybrid-logical-clock.ts) and the copy of it on disk  *)
(* (group-store.ts).                                                        *)
(*                                                                         *)
(* The state is a record of last-writer-wins registers: the group's name    *)
(* (defaultQuality is another such) and the member record of each device.   *)
(* An edit, and the merge of an update, computes the new state, waits for   *)
(* the disk, and only then puts it in memory; operations in flight overlap. *)
(*                                                                         *)
(* Wall times are those of one member whose clock is ahead, so that all      *)
(* clocks are stuck at it and only counters move: the case in which the      *)
(* order of stamps is decided by the protocol alone.                        *)
(***************************************************************************)
EXTENDS Integers, Sequences, FiniteSets

CONSTANTS
    N,          \* number of devices; a device is its nodeId
    MaxEdits,   \* bound: edits of the name, renames and departures
    MaxTime,    \* bound: counters saturate here
    MaxOps,     \* bound: operations of one device that wait for the disk
    MaxLosses,  \* bound: messages lost
    MaxFaults,  \* bound: crashes of an application and writes that fail
    MaxTrouble  \* bound: losses and faults together

ASSUME SyncAssumption ==
    /\ N \in Nat \ {0, 1} /\ MaxEdits \in Nat /\ MaxTime \in Nat \ {0} /\ MaxOps \in Nat \ {0}
    /\ MaxLosses \in Nat /\ MaxFaults \in Nat /\ MaxTrouble \in Nat

Devices == 1..N
Name == 0
Fields == {Name} \cup Devices

\* A register: the counter and the node of its stamp, its value, and whether it is a
\* tombstone.  Counter 0 stands for a register that is absent.
Registers == [t : 0..MaxTime, n : Devices, v : 0..MaxEdits, left : BOOLEAN]

\* A member record is stamped by the member itself, and only such a record is a tombstone.
States == {s \in [Fields -> Registers] : ~s[Name].left /\ \A d \in Devices : s[d].n = d}

VARIABLES
    state,   \* SyncState.state of each device
    clock,   \* SyncState.clock
    active,  \* the devices that have not left the group
    ops,     \* operations waiting for the disk, in order
    disk,    \* sharedState of each device's record on disk
    saved,   \* its lastClock
    net,     \* messages under way
    edits, losses, faults,  \* edits, losses, crashes and failed writes so far
    torn     \* a state has reached the disk without its clock

vars == <<state, clock, active, ops, disk, saved, net, edits, losses, faults, torn>>

Absent(f) == [t |-> 0, n |-> IF f = Name THEN 1 ELSE f, v |-> 0, left |-> FALSE]
NoUpdate == [f \in Fields |-> Absent(f)]

\* The group has been created by device 1 and the others have joined and met.
Init ==
    /\ state = [d \in Devices |-> [f \in Fields |-> [Absent(f) EXCEPT !.t = 1]]]
    /\ clock = [d \in Devices |-> 1] /\ active = Devices
    /\ ops = [d \in Devices |-> <<>>] /\ disk = state /\ saved = clock
    /\ net = {} /\ edits = 0 /\ losses = 0 /\ faults = 0 /\ torn = FALSE

-----------------------------------------------------------------------------
(* Clocks, registers and states *)

Least(x, y) == IF x <= y THEN x ELSE y
Greatest(x, y) == IF x >= y THEN x ELSE y

\* Faulty variant of Advance: a stamp from elsewhere does not move the clock.
AdvanceAlone(c, t) == Least(c + 1, MaxTime)

\* mergeRemote; with time 0 it is the tick of tickLocal.
Advance(c, t) == Least(Greatest(c, t) + 1, MaxTime)

\* mergeGroupSharedState: the later counter wins; between equal ones with different
\* values the lower node.
Wins(r, l) == r.t > l.t \/ (r.t = l.t /\ r.v # l.v /\ r.n < l.n)

Merge(local, remote) ==
    [f \in Fields |-> IF Wins(remote[f], local[f]) THEN remote[f] ELSE local[f]]

\* getGroupStateDelta: what new has that old has not.
Delta(old, new) == [f \in Fields |-> IF new[f] = old[f] THEN Absent(f) ELSE new[f]]

Only(f, r) == [NoUpdate EXCEPT ![f] = r]

\* The latest counter among the registers of an update.
Latest(u) == CHOOSE t \in {u[f].t : f \in Fields} : \A f \in Fields : u[f].t <= t

-----------------------------------------------------------------------------
(* Messages *)

Message(type, from, to, update) == [type |-> type, from |-> from, to |-> to, update |-> update]

\* Messages are sent to devices that are still there; one of them may be lost.
Send(kept, new) ==
    LET arriving == {m \in new : m.to \in active}
    IN \/ net' = kept \cup arriving /\ UNCHANGED losses
       \/ /\ losses < MaxLosses /\ losses + faults < MaxTrouble /\ losses' = losses + 1
          /\ \E m \in arriving : net' = kept \cup (arriving \ {m})

Broadcast(type, d, update) == {Message(type, d, e, update) : e \in Devices \ {d}}

-----------------------------------------------------------------------------
(* Operations that wait for the disk *)

\* An operation writes saves to disk and then broadcasts update; one that sets puts
\* saves in memory only then, one that leaves is the device's departure.
Operation(saves, sets, leaves, update) ==
    [saves |-> saves, sets |-> sets, leaves |-> leaves, update |-> update]

Enqueue(d, op) == Len(ops[d]) < MaxOps /\ ops' = [ops EXCEPT ![d] = Append(@, op)]

\* Faulty variant of Edit: the edit bears the time of the last one.
EditUnticked(d, f, left) ==
    /\ d \in active /\ edits < MaxEdits /\ clock[d] < MaxTime
    /\ edits' = edits + 1 /\ UNCHANGED clock
    /\ LET r == [t |-> clock[d], n |-> d, v |-> edits + 1, left |-> left]
       IN Enqueue(d, Operation([state[d] EXCEPT ![f] = r], TRUE, left, Only(f, r)))
    /\ UNCHANGED <<state, active, disk, saved, net, losses, faults, torn>>

\* An edit of d: it ticks the clock, stamps the value and computes the new state.
Edit(d, f, left) ==
    /\ d \in active /\ edits < MaxEdits /\ clock[d] < MaxTime
    /\ edits' = edits + 1 /\ clock' = [clock EXCEPT ![d] = Advance(@, 0)]
    /\ LET r == [t |-> clock[d] + 1, n |-> d, v |-> edits + 1, left |-> left]
       IN Enqueue(d, Operation([state[d] EXCEPT ![f] = r], TRUE, left, Only(f, r)))
    /\ UNCHANGED <<state, active, disk, saved, net, losses, faults, torn>>

PerformLocalEdit(d) == Edit(d, Name, FALSE)

UpdateDisplayName(d) == Edit(d, d, FALSE)
AnnounceLocalLeave(d) == ~state[d][d].left /\ Edit(d, d, TRUE)

\* The disk has written the state and the clock of d's first operation, which goes on.
\* Who has left the group forgets it.
Complete(d) ==
    /\ ops[d] # <<>>
    /\ LET op == Head(ops[d])
           told == Broadcast("update", d, op.update)
                     \cup (IF op.leaves THEN Broadcast("member", d, op.update) ELSE {})
       IN /\ state' = [state EXCEPT ![d] = IF op.sets THEN op.saves ELSE @]
          /\ disk' = [disk EXCEPT ![d] = op.saves]
          /\ saved' = [saved EXCEPT ![d] = Advance(@, clock[d])]
          /\ active' = IF op.leaves THEN active \ {d} ELSE active
          /\ ops' = [ops EXCEPT ![d] = IF op.leaves THEN <<>> ELSE Tail(@)]
          /\ Send({m \in net : op.leaves => m.to # d}, told)
    /\ UNCHANGED <<clock, edits, faults, torn>>

-----------------------------------------------------------------------------
(* Handlers *)

\* group.state.update
ReceiveUpdate(m) ==
    LET d == m.to
        merged == Merge(state[d], m.update)
    IN /\ m.type = "update"
       /\ IF merged = state[d]
          THEN /\ clock' = [clock EXCEPT ![d] = Advance(@, 0)]
               /\ saved' = [saved EXCEPT ![d] = Advance(@, clock'[d])] /\ UNCHANGED ops
          ELSE /\ clock' = [clock EXCEPT ![d] = Advance(@, Latest(m.update))]
               /\ Enqueue(d, Operation(merged, TRUE, FALSE, Delta(state[d], merged)))
               /\ UNCHANGED saved
       /\ net' = net \ {m}
       /\ UNCHANGED <<state, disk, losses>>

\* group.member.left, and the member record of a hello: mergeRemoteMember puts the
\* record in memory before it waits for the disk.
ReceiveMember(m) ==
    LET d == m.to
        merged == Merge(state[d], m.update)
    IN /\ m.type = "member"
       /\ IF merged = state[d] THEN UNCHANGED <<state, clock, ops>>
          ELSE /\ state' = [state EXCEPT ![d] = merged]
               /\ clock' = [clock EXCEPT ![d] = Advance(@, Latest(m.update))]
               /\ Enqueue(d, Operation(merged, FALSE, FALSE, m.update))
       /\ net' = net \ {m}
       /\ UNCHANGED <<disk, saved, losses>>

\* Faulty variant of Lacks: only the member records are compared.
LacksMember(local, remote) == \E f \in Devices : remote[f].t > local[f].t

\* compareHybridTimestamp in a summary: the other has what d has not.  Between equal
\* counters the higher node is the later one.
Lacks(local, remote) ==
    \E f \in Fields :
       \/ remote[f].t > local[f].t
       \/ remote[f].t = local[f].t /\ remote[f].n > local[f].n
       \/ f = Name /\ remote[f].t = local[f].t /\ remote[f].n = local[f].n
             /\ remote[f].v # local[f].v

\* A member record that is newer here is pushed to whoever has an older one.
HoldsNewer(local, remote) == \E f \in Devices : local[f].t > remote[f].t

\* group.state.summary and group.state.request
ReceiveSummary(m) ==
    LET d == m.to
        answer == IF m.type = "request" THEN {Message("update", d, m.from, state[d])}
                  ELSE IF Lacks(state[d], m.update) THEN {Message("request", d, m.from, NoUpdate)}
                  ELSE IF HoldsNewer(state[d], m.update)
                       THEN {Message("update", d, m.from, state[d])} ELSE {}
    IN /\ m.type \in {"summary", "request"}
       /\ Send(net \ {m}, answer)
       /\ UNCHANGED <<state, clock, ops, disk, saved>>

Receive(d, type) ==
    /\ d \in active
    /\ \E m \in {x \in net : x.to = d /\ x.type = type} :
          ReceiveUpdate(m) \/ ReceiveMember(m) \/ ReceiveSummary(m)
    /\ UNCHANGED <<active, edits, faults, torn>>

\* runAntiEntropy: every 30 s, when what the last round caused has long arrived
\* and been written.
AntiEntropy(d) ==
    /\ d \in active /\ net = {} /\ ops[d] = <<>>
    /\ Send({}, Broadcast("summary", d, state[d]))
    /\ UNCHANGED <<state, clock, active, ops, disk, saved, edits, faults, torn>>

-----------------------------------------------------------------------------
\* writeAtomic throws for d's first operation, in the write of the state or in that of the
\* clock, which ends the operation: nothing is set or told.  A departure may go on
\* without it.
WriteFails(d) ==
    /\ ops[d] # <<>> /\ faults < MaxFaults /\ losses + faults < MaxTrouble
    /\ faults' = faults + 1
    /\ \/ UNCHANGED <<disk, torn>>
       \/ disk' = [disk EXCEPT ![d] = Head(ops[d]).saves] /\ torn' = TRUE
    /\ \/ ops' = [ops EXCEPT ![d] = Tail(@)] /\ UNCHANGED <<active, net>>
       \/ /\ Head(ops[d]).leaves /\ active' = active \ {d}
          /\ ops' = [ops EXCEPT ![d] = <<>>] /\ net' = {m \in net : m.to # d}
    /\ UNCHANGED <<state, clock, saved, edits, losses>>

\* The application ends and starts again with what is on disk: initializeGroup.  The
\* writes of the first operations in flight may have been made, those of the last one
\* of them not all.
Crash(d) ==
    /\ d \in active /\ faults < MaxFaults /\ losses + faults < MaxTrouble
    /\ faults' = faults + 1
    /\ \E k \in 0..Len(ops[d]) :
          /\ disk' = [disk EXCEPT ![d] = IF k = 0 THEN @ ELSE ops[d][k].saves]
          /\ torn' = (torn \/ k # 0)
    /\ state' = [state EXCEPT ![d] = disk'[d]] /\ clock' = [clock EXCEPT ![d] = saved[d]]
    /\ ops' = [ops EXCEPT ![d] = <<>>] /\ net' = {m \in net : m.to # d}
    /\ UNCHANGED <<active, saved, edits, losses>>

MessageTypes == {"update", "member", "summary", "request"}

Next ==
    \E d \in Devices :
       \/ PerformLocalEdit(d) \/ UpdateDisplayName(d) \/ AnnounceLocalLeave(d)
       \/ Complete(d) \/ WriteFails(d) \/ AntiEntropy(d) \/ Crash(d)
       \/ \E type \in MessageTypes : Receive(d, type)

\* The disk answers, messages arrive, and the anti-entropy interval of every device
\* fires again and again when nothing is under way: 30 s are long.
Spec ==
    /\ Init /\ [][Next]_vars
    /\ \A d \in Devices :
          /\ WF_vars(Complete(d)) /\ SF_vars(AntiEntropy(d))
          /\ \A type \in MessageTypes : WF_vars(Receive(d, type))

-----------------------------------------------------------------------------
(* Properties *)

Messages == [type : MessageTypes, from : Devices, to : Devices, update : States]
Operations == [saves : States, sets : BOOLEAN, leaves : BOOLEAN, update : States]

TypeOK ==
    /\ state \in [Devices -> States] /\ disk \in [Devices -> States]
    /\ clock \in [Devices -> 0..MaxTime] /\ saved \in [Devices -> 0..MaxTime]
    /\ active \subseteq Devices /\ ops \in [Devices -> Seq(Operations)]
    /\ net \subseteq Messages
    /\ edits \in 0..MaxEdits /\ losses \in 0..MaxLosses /\ faults \in 0..MaxFaults
    /\ torn \in BOOLEAN

\* "strictly greater than any previously generated local or observed remote timestamp"
\* (hybrid-logical-clock.ts, tickLocal): the clock of a device covers every register it
\* holds in memory, on its way to the disk or on it, so that its next edit is newer than
\* what the edit replaces, restarts included, unless a crash or a failed
\* write has left a state on disk without its clock.
ClockCovers ==
    ~torn => \A d \in Devices, f \in Fields :
                /\ state[d][f].t <= clock[d]
                /\ disk[d][f].t <= saved[d]
                /\ \A i \in 1..Len(ops[d]) : ops[d][i].saves[f].t <= clock[d]

\* Everything that exists of a register: in memory, on disk and under way, and in the
\* operations of a device that wait for its disk.
Stored(f) ==
    {state[d][f] : d \in Devices} \cup {disk[d][f] : d \in Devices} \cup {m.update[f] : m \in net}
Waiting(d, f) ==
    UNION {{ops[d][i].saves[f], ops[d][i].update[f]} : i \in 1..Len(ops[d])}
Copies(f) == Stored(f) \cup UNION {Waiting(d, f) : d \in Devices}

\* No two edits of one device share a stamp, so that equal stamps mean equal values.
StampsUnique ==
    ~torn => \A f \in Fields : \A r, s \in Copies(f) :
                r.t = s.t /\ r.n = s.n /\ r.t # 0 => r = s

\* Registers that the protocol can tell apart.
Apart(r, s) == r # s /\ (r.t # s.t \/ r.n = s.n)

\* Anti-entropy makes the members agree on every register, whatever messages were lost,
\* whoever crashed, whichever write failed and whichever operations overlapped, except
\* that it does not see a name set twice at the same time.
Converges ==
    <>[](~torn => \A d, e \in active, f \in Fields : ~Apart(state[d][f], state[e][f]))

\* "the lower nodeId wins deterministically" (groups.ts, mergeGroupSharedState).
TiesSettle ==
    <>[](\A d, e \in active, f \in Fields : state[d][f] = state[e][f])

\* "existing LWW merge logic propagates it transitively and stale older announcements
\* cannot resurrect the membership" (announceLocalLeave): a departure that a running
\* device has taken in is not undone there.
TombstoneSticks ==
    [][\A d, e \in Devices :
          state[d][e].left /\ faults' = faults /\ ~state'[d][e].left =>
             state'[d][e].t > state[d][e].t]_vars
=============================================================================
