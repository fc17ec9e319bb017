---------------------------- MODULE GroupSyncProofs ----------------------------
(***************************************************************************)
(* The stamps of a group's registers, for every number of devices and every *)
(* bound: a device's clock covers what it holds, restarts included, and no   *)
(* two edits share a stamp.                                                 *)
(***************************************************************************)
EXTENDS GroupSync, WellFoundedInduction, TLAPS

-----------------------------------------------------------------------------
(* Registers and states *)

\* An absent register is one, and it is older than any other.
LEMMA AbsentRegister ==
    ASSUME NEW f \in Fields
    PROVE  /\ Absent(f) \in Registers /\ Absent(f).t = 0 /\ ~Absent(f).left
           /\ f \in Devices => Absent(f).n = f
BY SyncAssumption DEF Absent, Registers, Devices, Fields, Name

\* A state is made field by field.
LEMMA MakeState ==
    ASSUME NEW s, s = [f \in Fields |-> s[f]],
           \A f \in Fields : s[f] \in Registers,
           \A f \in Devices : s[f].n = f,
           ~s[Name].left
    PROVE  s \in States
BY DEF States

\* What the fields of a state are.
LEMMA StateFields ==
    ASSUME NEW s \in States, NEW f \in Fields
    PROVE  /\ s[f] \in Registers /\ s = [g \in Fields |-> s[g]] /\ ~s[Name].left
           /\ f \in Devices => s[f].n = f
BY DEF States, Fields

\* An update that says nothing is one.
LEMMA NoUpdateState == NoUpdate \in States
<1>1. /\ NoUpdate = [f \in Fields |-> NoUpdate[f]]
      /\ \A f \in Fields : NoUpdate[f] = Absent(f)
  BY DEF NoUpdate
<1>2. Name \in Fields /\ \A f \in Devices : f \in Fields
  BY DEF Fields
<1> HIDE DEF NoUpdate
<1>3. QED
  BY <1>1, <1>2, AbsentRegister, MakeState

\* A state with one field replaced by a register of that field is a state.
LEMMA SetField ==
    ASSUME NEW s \in States, NEW f \in Fields, NEW r \in Registers,
           f = Name => ~r.left, f \in Devices => r.n = f
    PROVE  /\ [s EXCEPT ![f] = r] \in States
           /\ \A g \in Fields : [s EXCEPT ![f] = r][g] = IF g = f THEN r ELSE s[g]
<1> DEFINE u == [s EXCEPT ![f] = r]
<1>1. /\ u = [g \in Fields |-> u[g]]
      /\ \A g \in Fields : u[g] = IF g = f THEN r ELSE s[g]
  BY StateFields
<1>2. Name \in Fields /\ \A g \in Devices : g \in Fields
  BY DEF Fields
<1> HIDE DEF u
<1>3. u \in States
  BY <1>1, <1>2, StateFields, MakeState
<1> QED
  BY <1>1, <1>3 DEF u

\* A merge takes every register from one side or the other, never an older one.
LEMMA MergeState ==
    ASSUME NEW a \in States, NEW b \in States
    PROVE  /\ Merge(a, b) \in States
           /\ \A f \in Fields : Merge(a, b)[f] = a[f] \/ Merge(a, b)[f] = b[f]
           /\ \A f \in Fields : Merge(a, b)[f].t >= a[f].t /\ Merge(a, b)[f].t >= b[f].t
<1> DEFINE u == Merge(a, b)
<1>1. /\ u = [f \in Fields |-> u[f]]
      /\ \A f \in Fields : u[f] = IF Wins(b[f], a[f]) THEN b[f] ELSE a[f]
  BY DEF Merge
<1>2. Name \in Fields /\ \A f \in Devices : f \in Fields
  BY DEF Fields
<1> HIDE DEF u
<1>3. u \in States
  BY <1>1, <1>2, StateFields, MakeState
<1>4. ASSUME NEW f \in Fields PROVE u[f].t >= a[f].t /\ u[f].t >= b[f].t
  <2>1. a[f].t \in Nat /\ b[f].t \in Nat
    BY StateFields, SyncAssumption DEF Registers
  <2> QED
    BY <1>1, <2>1 DEF Wins
<1> QED
  BY <1>1, <1>3, <1>4 DEF u

\* A delta says what the new state says, or nothing.
LEMMA DeltaState ==
    ASSUME NEW a \in States, NEW b \in States
    PROVE  /\ Delta(a, b) \in States
           /\ \A f \in Fields : Delta(a, b)[f] = Absent(f) \/ Delta(a, b)[f] = b[f]
<1> DEFINE u == Delta(a, b)
<1>1. /\ u = [f \in Fields |-> u[f]]
      /\ \A f \in Fields : u[f] = IF b[f] = a[f] THEN Absent(f) ELSE b[f]
  BY DEF Delta
<1>2. Name \in Fields /\ \A f \in Devices : f \in Fields
  BY DEF Fields
<1> HIDE DEF u
<1>3. u \in States
  BY <1>1, <1>2, StateFields, AbsentRegister, MakeState
<1> QED
  BY <1>1, <1>3 DEF u

\* Any set of numbers below a bound has a greatest member.
LEMMA GreatestExists ==
    ASSUME NEW B \in Nat, NEW T, T \subseteq 0..B, T # {}
    PROVE  \E t \in T : \A s \in T : s <= t
<1> DEFINE R == {ss \in Nat \X Nat : ss[1] < ss[2]}
           M == {B - t : t \in T}
<1>1. IsWellFoundedOn(R, Nat)
  BY NatLessThanWellFounded, Zenon DEF OpToRel
<1>2. M \subseteq Nat /\ M # {}
  <2>1. ASSUME NEW t \in T PROVE B - t \in Nat /\ B - t \in M
    OBVIOUS
  <2>2. PICK w \in T : TRUE
    OBVIOUS
  <2>3. M # {}
    BY <2>1, <2>2, Zenon
  <2>4. ASSUME NEW y \in M PROVE y \in Nat
    <3>1. PICK t \in T : y = B - t
      BY Zenon
    <3> QED
      BY <3>1, <2>1
  <2> QED
    BY <2>3, <2>4
<1>3. PICK x \in M : \A y \in M : ~ (<<y, x>> \in R)
  <2> HIDE DEF M, R
  <2> QED
    BY <1>1, <1>2, WFMin
<1>5. \A y \in M : ~(y < x)
  BY <1>2, <1>3
<1>6. PICK t \in T : x = B - t
  OBVIOUS
<1>7. ASSUME NEW s \in T PROVE s <= t
  <2>1. B - s \in M /\ s \in Nat /\ t \in Nat
    OBVIOUS
  <2> HIDE DEF M
  <2> QED
    BY <2>1, <1>5, <1>6
<1> QED
  BY <1>7

\* The latest counter of an update is one, and it bounds the others.
LEMMA LatestBounds ==
    ASSUME NEW u \in States
    PROVE  Latest(u) \in 0..MaxTime /\ \A f \in Fields : u[f].t <= Latest(u)
<1> DEFINE T == {u[f].t : f \in Fields}
<1>1. T \subseteq 0..MaxTime /\ MaxTime \in Nat
  BY StateFields, SyncAssumption DEF Registers
<1>2. T # {}
  BY DEF Fields
<1>3. \E t \in T : \A s \in T : s <= t
  <2> HIDE DEF T
  <2> QED
    BY <1>1, <1>2, GreatestExists
<1>4. \E t \in T : \A f \in Fields : u[f].t <= t
  BY <1>3
<1>5. Latest(u) \in T /\ \A f \in Fields : u[f].t <= Latest(u)
  BY <1>4 DEF Latest
<1> QED
  BY <1>1, <1>5

-----------------------------------------------------------------------------
(* Steps and types *)

\* A clock moves past what it is shown, as far as it is counted.
LEMMA AdvanceBounds ==
    ASSUME NEW c \in 0..MaxTime, NEW t \in 0..MaxTime
    PROVE  Advance(c, t) \in 0..MaxTime /\ Advance(c, t) >= c /\ Advance(c, t) >= t
BY SyncAssumption DEF Advance, Least, Greatest

\* A clock that stays or advances does not go back.
LEMMA AdvanceGrows ==
    ASSUME NEW c \in 0..MaxTime, NEW t \in 0..MaxTime, NEW x \in {c, Advance(c, t)}
    PROVE  x >= c
<1>1. Advance(c, t) >= c
  BY AdvanceBounds
<1>2. c \in Nat
  BY SyncAssumption
<1> QED
  BY <1>1, <1>2

\* What is sent is a message under way, and nothing else is.
LEMMA SendType ==
    ASSUME TypeOK, NEW kept \in SUBSET Messages, NEW new \in SUBSET Messages, Send(kept, new)
    PROVE  /\ net' \subseteq Messages /\ losses' \in 0..MaxLosses
           /\ \A m \in net' : m \in kept \/ m \in new
BY SyncAssumption DEF TypeOK, Send

LEMMA MessageType ==
    ASSUME NEW type \in MessageTypes, NEW d \in Devices, NEW u \in States
    PROVE  /\ \A e \in Devices : Message(type, d, e, u) \in Messages
           /\ Broadcast(type, d, u) \in SUBSET Messages
           /\ \A m \in Broadcast(type, d, u) : m.update = u
BY DEF Message, Messages, Broadcast

LEMMA EnqueueType ==
    ASSUME TypeOK, NEW d \in Devices, NEW op \in Operations, Enqueue(d, op)
    PROVE  ops' \in [Devices -> Seq(Operations)]
BY DEF TypeOK, Enqueue

LEMMA OperationType ==
    ASSUME NEW a \in States, NEW sets \in BOOLEAN, NEW leaves \in BOOLEAN, NEW u \in States
    PROVE  Operation(a, sets, leaves, u) \in Operations
BY DEF Operation, Operations

\* The group begins well typed.
LEMMA InitType == Init => TypeOK
<1> SUFFICES ASSUME Init PROVE TypeOK
  OBVIOUS
<1> DEFINE s == [f \in Fields |-> [Absent(f) EXCEPT !.t = 1]]
<1>1. /\ s = [f \in Fields |-> s[f]]
      /\ \A f \in Fields : s[f] = [Absent(f) EXCEPT !.t = 1]
  OBVIOUS
<1>2. Name \in Fields /\ (\A f \in Devices : f \in Fields) /\ 1 \in 0..MaxTime
  BY SyncAssumption DEF Fields
<1>3. ASSUME NEW f \in Fields
      PROVE  s[f] \in Registers /\ ~s[f].left /\ (f \in Devices => s[f].n = f)
  BY <1>1, <1>2, AbsentRegister DEF Registers
<1>4. s \in States
  <2> HIDE DEF s
  <2> QED
    BY <1>1, <1>2, <1>3, MakeState
<1>5. state = [d \in Devices |-> s] /\ disk = state
  BY DEF Init
<1>6. state \in [Devices -> States] /\ disk \in [Devices -> States]
  <2> HIDE DEF s
  <2> QED
    BY <1>4, <1>5
<1>7. ops \in [Devices -> Seq(Operations)]
  <2>1. <<>> \in Seq(Operations)
    OBVIOUS
  <2> QED
    BY <2>1 DEF Init
<1>8. clock \in [Devices -> 0..MaxTime] /\ saved \in [Devices -> 0..MaxTime]
  BY <1>2 DEF Init
<1>9. net \subseteq Messages /\ active \subseteq Devices /\ torn \in BOOLEAN
  BY DEF Init
<1>10. edits \in 0..MaxEdits /\ losses \in 0..MaxLosses /\ faults \in 0..MaxFaults
  BY SyncAssumption DEF Init
<1> HIDE DEF s
<1> QED
  BY <1>6, <1>7, <1>8, <1>9, <1>10 DEF TypeOK

\* An edit stamps the field that it is about.
LEMMA EditType ==
    ASSUME TypeOK, NEW d \in Devices, NEW f \in Fields, NEW left \in BOOLEAN,
           f = Name \/ f = d, f = Name => ~left, Edit(d, f, left)
    PROVE  TypeOK'
<1> DEFINE r == [t |-> clock[d] + 1, n |-> d, v |-> edits + 1, left |-> left]
           op == Operation([state[d] EXCEPT ![f] = r], TRUE, left, Only(f, r))
<1>1. clock[d] \in 0..MaxTime /\ clock[d] < MaxTime /\ edits < MaxEdits /\ edits \in 0..MaxEdits
  BY DEF TypeOK, Edit
<1>2. r \in Registers
  BY <1>1, SyncAssumption DEF Registers
<1>3. (f = Name => ~r.left) /\ (f \in Devices => r.n = f)
  <2>1. r.n = d /\ (f = Name => ~r.left)
    <3>1. r.n = d
      OBVIOUS
    <3>2. ASSUME f = Name PROVE ~r.left
      <4>1. left = FALSE
        BY <3>2
      <4> QED
        BY <4>1
    <3> QED
      BY <3>1, <3>2
  <2>2. Name \notin Devices
    BY SyncAssumption DEF Devices, Name
  <2> HIDE DEF r
  <2> QED
    BY <2>1, <2>2
<1>4. state[d] \in States
  BY DEF TypeOK
<1>5. [state[d] EXCEPT ![f] = r] \in States /\ Only(f, r) \in States
  <2> HIDE DEF r
  <2> QED
    BY <1>2, <1>3, <1>4, SetField, NoUpdateState DEF Only
<1>6. op \in Operations
  <2> HIDE DEF r
  <2> QED
    BY <1>5, OperationType
<1>7. Enqueue(d, op)
  BY DEF Edit
<1>8. ops' \in [Devices -> Seq(Operations)]
  <2> HIDE DEF op
  <2> QED
    BY <1>6, <1>7, EnqueueType
<1>9. clock' \in [Devices -> 0..MaxTime] /\ edits' \in 0..MaxEdits
  <2>1. 0 \in 0..MaxTime
    BY SyncAssumption
  <2>2. Advance(clock[d], 0) \in 0..MaxTime
    BY <1>1, <2>1, AdvanceBounds
  <2>3. clock' = [clock EXCEPT ![d] = Advance(@, 0)] /\ edits' = edits + 1
    BY DEF Edit
  <2> QED
    BY <1>1, <2>2, <2>3, SyncAssumption DEF TypeOK
<1> QED
  BY <1>8, <1>9 DEF TypeOK, Edit

LEMMA CompleteType ==
    ASSUME TypeOK, NEW d \in Devices, Complete(d)
    PROVE  TypeOK'
<1> DEFINE op == Head(ops[d])
           told == Broadcast("update", d, op.update)
                     \cup (IF op.leaves THEN Broadcast("member", d, op.update) ELSE {})
           kept == {m \in net : op.leaves => m.to # d}
<1>1. op \in Operations /\ Tail(ops[d]) \in Seq(Operations)
  BY DEF TypeOK, Complete
<1>2. op.saves \in States /\ op.update \in States
  BY <1>1 DEF Operations
<1>3. told \in SUBSET Messages /\ kept \in SUBSET Messages
  <2> HIDE DEF op
  <2> QED
    BY <1>2, MessageType DEF MessageTypes, TypeOK
<1>4. Send(kept, told)
  BY DEF Complete
<1>5. net' \subseteq Messages /\ losses' \in 0..MaxLosses
  <2> HIDE DEF told, kept
  <2> QED
    BY <1>3, <1>4, SendType
<1>6. state' \in [Devices -> States] /\ disk' \in [Devices -> States]
  BY <1>2 DEF Complete, TypeOK
<1>7. saved' \in [Devices -> 0..MaxTime]
  BY AdvanceBounds DEF Complete, TypeOK
<1>8. ops' \in [Devices -> Seq(Operations)]
  BY <1>1 DEF Complete, TypeOK
<1> QED
  BY <1>5, <1>6, <1>7, <1>8 DEF TypeOK, Complete

\* The merge of an update in d.
LEMMA UpdateType ==
    ASSUME TypeOK, NEW m \in net, m.to \in Devices, ReceiveUpdate(m),
           UNCHANGED <<active, edits, faults, torn>>
    PROVE  TypeOK'
<1> DEFINE d == m.to
           merged == Merge(state[d], m.update)
           op == Operation(merged, TRUE, FALSE, Delta(state[d], merged))
<1>1. m.update \in States /\ state[d] \in States
  BY DEF TypeOK, Messages
<1>2. merged \in States /\ Delta(state[d], merged) \in States
  BY <1>1, MergeState, DeltaState
<1>3. op \in Operations
  <2> HIDE DEF merged
  <2> QED
    BY <1>2, OperationType
<1>4. Latest(m.update) \in 0..MaxTime /\ 0 \in 0..MaxTime
  BY <1>1, LatestBounds, SyncAssumption
<1>5. clock' \in [Devices -> 0..MaxTime]
  <2>1. Advance(clock[d], 0) \in 0..MaxTime /\ Advance(clock[d], Latest(m.update)) \in 0..MaxTime
    BY <1>4, AdvanceBounds DEF TypeOK
  <2> QED
    BY <2>1 DEF TypeOK, ReceiveUpdate
<1>6. saved' \in [Devices -> 0..MaxTime]
  <2>1. Advance(saved[d], clock'[d]) \in 0..MaxTime
    BY <1>5, AdvanceBounds DEF TypeOK
  <2> QED
    BY <2>1 DEF TypeOK, ReceiveUpdate
<1>7. ops' \in [Devices -> Seq(Operations)]
  <2>1. ops' = ops \/ Enqueue(d, op)
    BY DEF ReceiveUpdate
  <2> HIDE DEF op
  <2> QED
    BY <1>3, <2>1, EnqueueType DEF TypeOK
<1> QED
  BY <1>5, <1>6, <1>7 DEF TypeOK, ReceiveUpdate

\* The merge of a member record in d.
LEMMA MemberType ==
    ASSUME TypeOK, NEW m \in net, m.to \in Devices, ReceiveMember(m),
           UNCHANGED <<active, edits, faults, torn>>
    PROVE  TypeOK'
<1> DEFINE d == m.to
           merged == Merge(state[d], m.update)
           op == Operation(merged, FALSE, FALSE, m.update)
<1>1. m.update \in States /\ state[d] \in States
  BY DEF TypeOK, Messages
<1>2. merged \in States
  BY <1>1, MergeState
<1>3. op \in Operations
  <2> HIDE DEF merged
  <2> QED
    BY <1>1, <1>2, OperationType
<1>4. Latest(m.update) \in 0..MaxTime
  BY <1>1, LatestBounds
<1>5. clock' \in [Devices -> 0..MaxTime]
  <2>1. Advance(clock[d], Latest(m.update)) \in 0..MaxTime
    BY <1>4, AdvanceBounds DEF TypeOK
  <2> QED
    BY <2>1 DEF TypeOK, ReceiveMember
<1>6. ops' \in [Devices -> Seq(Operations)]
  <2>1. ops' = ops \/ Enqueue(d, op)
    BY DEF ReceiveMember
  <2> HIDE DEF op
  <2> QED
    BY <1>3, <2>1, EnqueueType DEF TypeOK
<1>7. state' \in [Devices -> States]
  <2> HIDE DEF merged
  <2>1. state' = state \/ state' = [state EXCEPT ![d] = merged]
    BY DEF ReceiveMember, merged
  <2> QED
    BY <1>2, <2>1 DEF TypeOK
<1> QED
  BY <1>5, <1>6, <1>7 DEF TypeOK, ReceiveMember

\* The answer to a summary or a request.
LEMMA SummaryType ==
    ASSUME TypeOK, NEW m \in net, m.to \in Devices, ReceiveSummary(m),
           UNCHANGED <<active, edits, faults, torn>>
    PROVE  /\ TypeOK'
           /\ \A x \in net' : x \in net \/ x.update = state[m.to] \/ x.update = NoUpdate
<1> DEFINE d == m.to
           answer == IF m.type = "request" THEN {Message("update", d, m.from, state[d])}
                     ELSE IF Lacks(state[d], m.update)
                     THEN {Message("request", d, m.from, NoUpdate)}
                     ELSE IF HoldsNewer(state[d], m.update)
                     THEN {Message("update", d, m.from, state[d])} ELSE {}
<1>1. state[d] \in States /\ m.from \in Devices
  BY DEF TypeOK, Messages
<1>2. answer \in SUBSET Messages
  BY <1>1, NoUpdateState, MessageType DEF MessageTypes
<1>3. \A x \in answer : x.update = state[d] \/ x.update = NoUpdate
  BY DEF Message
<1>4. Send(net \ {m}, answer)
  BY DEF ReceiveSummary
<1>5. /\ net' \subseteq Messages /\ losses' \in 0..MaxLosses
      /\ \A x \in net' : x \in net \/ x \in answer
  <2>1. net \ {m} \in SUBSET Messages
    BY DEF TypeOK
  <2> HIDE DEF answer
  <2> QED
    BY <1>2, <1>4, <2>1, SendType
<1>6. TypeOK'
  BY <1>5 DEF TypeOK, ReceiveSummary
<1> QED
  BY <1>3, <1>5, <1>6

\* A round of anti-entropy.
LEMMA AntiEntropyType ==
    ASSUME TypeOK, NEW d \in Devices, AntiEntropy(d)
    PROVE  TypeOK' /\ \A x \in net' : x.update = state[d]
<1>1. Broadcast("summary", d, state[d]) \in SUBSET Messages
  BY MessageType DEF TypeOK, MessageTypes
<1>2. Send({}, Broadcast("summary", d, state[d])) /\ {} \in SUBSET Messages
  BY DEF AntiEntropy
<1>3. /\ net' \subseteq Messages /\ losses' \in 0..MaxLosses
      /\ \A x \in net' : x \in Broadcast("summary", d, state[d])
  BY <1>1, <1>2, SendType
<1>4. \A x \in net' : x.update = state[d]
  BY <1>3 DEF Broadcast, Message
<1> QED
  BY <1>3, <1>4 DEF TypeOK, AntiEntropy

\* A crash.
LEMMA CrashType ==
    ASSUME TypeOK, NEW d \in Devices, Crash(d)
    PROVE  TypeOK'
<1>1. disk' \in [Devices -> States] /\ torn' \in BOOLEAN
  <2>1. PICK k \in 0..Len(ops[d]) :
             /\ disk' = [disk EXCEPT ![d] = IF k = 0 THEN @ ELSE ops[d][k].saves]
             /\ torn' = (torn \/ k # 0)
    BY DEF Crash
  <2>2. ASSUME k # 0 PROVE ops[d][k].saves \in States
    <3>1. ops[d] \in Seq(Operations) /\ k \in 1..Len(ops[d])
      BY <2>2 DEF TypeOK
    <3>2. ops[d][k] \in Operations
      BY <3>1
    <3> QED
      BY <3>2 DEF Operations
  <2> QED
    BY <2>1, <2>2 DEF TypeOK
<1>2. state' = [state EXCEPT ![d] = disk'[d]] /\ clock' = [clock EXCEPT ![d] = saved[d]]
  BY DEF Crash
<1>3. ops' \in [Devices -> Seq(Operations)]
  <2>1. <<>> \in Seq(Operations)
    OBVIOUS
  <2> QED
    BY <2>1 DEF TypeOK, Crash
<1>4. faults' \in 0..MaxFaults
  BY SyncAssumption DEF Crash, TypeOK
<1> QED
  BY <1>1, <1>2, <1>3, <1>4 DEF TypeOK, Crash

\* A write that fails.
LEMMA WriteFailsType ==
    ASSUME TypeOK, NEW d \in Devices, WriteFails(d)
    PROVE  TypeOK'
<1>1. Head(ops[d]) \in Operations /\ Tail(ops[d]) \in Seq(Operations) /\ <<>> \in Seq(Operations)
  BY DEF TypeOK, WriteFails
<1>2. Head(ops[d]).saves \in States
  BY <1>1 DEF Operations
<1>3. disk' \in [Devices -> States] /\ torn' \in BOOLEAN
  BY <1>2 DEF WriteFails, TypeOK
<1>4. ops' \in [Devices -> Seq(Operations)] /\ active' \subseteq Devices /\ net' \subseteq Messages
  BY <1>1 DEF WriteFails, TypeOK
<1>5. faults' \in 0..MaxFaults
  BY SyncAssumption DEF WriteFails, TypeOK
<1> QED
  BY <1>3, <1>4, <1>5 DEF TypeOK, WriteFails

\* The three edits, as edits of one field.
LEMMA EditCases ==
    ASSUME NEW d \in Devices, PerformLocalEdit(d) \/ UpdateDisplayName(d) \/ AnnounceLocalLeave(d)
    PROVE  \E f \in Fields, left \in BOOLEAN :
              (f = Name \/ f = d) /\ (f = Name => ~left) /\ Edit(d, f, left)
<1>1. Name \in Fields /\ d \in Fields /\ d # Name
  BY SyncAssumption DEF Fields, Name, Devices
<1>2. CASE PerformLocalEdit(d)
  BY <1>1, <1>2 DEF PerformLocalEdit
<1>3. CASE UpdateDisplayName(d)
  BY <1>1, <1>3 DEF UpdateDisplayName
<1>4. CASE AnnounceLocalLeave(d)
  BY <1>1, <1>4 DEF AnnounceLocalLeave
<1> QED
  BY <1>2, <1>3, <1>4

\* Every step is well typed.
LEMMA NextType == TypeOK /\ [Next]_vars => TypeOK'
<1> SUFFICES ASSUME TypeOK, [Next]_vars PROVE TypeOK'
  OBVIOUS
<1>1. CASE UNCHANGED vars
  BY <1>1 DEF TypeOK, vars
<1>2. ASSUME NEW d \in Devices, PerformLocalEdit(d) \/ UpdateDisplayName(d) \/ AnnounceLocalLeave(d)
      PROVE  TypeOK'
  BY <1>2, EditCases, EditType
<1>3. ASSUME NEW d \in Devices, Complete(d) \/ WriteFails(d) \/ AntiEntropy(d) \/ Crash(d)
      PROVE  TypeOK'
  BY <1>3, CompleteType, WriteFailsType, AntiEntropyType, CrashType
<1>4. ASSUME NEW d \in Devices, NEW type \in MessageTypes, Receive(d, type)
      PROVE  TypeOK'
  BY <1>4, UpdateType, MemberType, SummaryType DEF Receive
<1> QED
  BY <1>1, <1>2, <1>3, <1>4 DEF Next

\* Every reachable state is well typed.
THEOREM TypeCorrect == Spec => []TypeOK
BY InitType, NextType, PTL DEF Spec

-----------------------------------------------------------------------------
(* The clock covers what its device holds *)

\* The group begins with the clocks at its first stamps.
LEMMA InitCovers == Init => ClockCovers
<1> SUFFICES ASSUME Init, NEW d \in Devices, NEW f \in Fields
             PROVE  /\ state[d][f].t <= clock[d] /\ disk[d][f].t <= saved[d]
                    /\ \A i \in 1..Len(ops[d]) : ops[d][i].saves[f].t <= clock[d]
  BY DEF ClockCovers
<1>1. state[d][f].t = 1 /\ disk[d][f].t = 1
  BY AbsentRegister DEF Init, Registers
<1> QED
  BY <1>1 DEF Init

\* What the clock covers, for one device.
Covers(d) ==
    \A f \in Fields :
       /\ state[d][f].t <= clock[d] /\ disk[d][f].t <= saved[d]
       /\ \A i \in 1..Len(ops[d]) : ops[d][i].saves[f].t <= clock[d]

LEMMA CoversEach == ClockCovers <=> (torn \/ \A d \in Devices : Covers(d))
BY DEF ClockCovers, Covers

\* An operation that the clock covers may join the others.
LEMMA EnqueueCovers ==
    ASSUME TypeOK, NEW d \in Devices, NEW op \in Operations, Enqueue(d, op),
           TypeOK', clock'[d] >= clock[d], UNCHANGED torn, NEW f \in Fields,
           \A i \in 1..Len(ops[d]) : ops[d][i].saves[f].t <= clock[d],
           op.saves[f].t <= clock'[d]
    PROVE  \A i \in 1..Len(ops'[d]) : ops'[d][i].saves[f].t <= clock'[d]
<1>1. ops[d] \in Seq(Operations) /\ ops'[d] = Append(ops[d], op)
  BY DEF TypeOK, Enqueue
<1>2. \A i \in 1..Len(ops[d]) : ops'[d][i] = ops[d][i]
  BY <1>1
<1>3. Len(ops'[d]) = Len(ops[d]) + 1 /\ ops'[d][Len(ops[d]) + 1] = op
  BY <1>1
<1>4. clock[d] \in Nat /\ clock'[d] \in Nat
  BY SyncAssumption DEF TypeOK
<1>5. ASSUME NEW i \in 1..Len(ops[d]) PROVE ops[d][i].saves[f].t \in Nat
  <2>1. ops[d][i] \in Operations
    BY <1>1
  <2>2. ops[d][i].saves \in States
    BY <2>1 DEF Operations
  <2> QED
    BY <2>2, StateFields, SyncAssumption DEF Registers
<1>6. ASSUME NEW i \in 1..Len(ops'[d]) PROVE ops'[d][i].saves[f].t <= clock'[d]
  <2>1. CASE i \in 1..Len(ops[d])
    BY <2>1, <1>2, <1>4, <1>5
  <2>2. CASE i = Len(ops[d]) + 1
    BY <2>2, <1>3
  <2> QED
    BY <2>1, <2>2, <1>1, <1>3
<1> QED
  BY <1>6

\* The tail of a sequence is the sequence from its second element on.
LEMMA TailElements ==
    ASSUME NEW S, NEW s \in Seq(S), s # <<>>, NEW i \in 1..Len(Tail(s))
    PROVE  Tail(s)[i] = s[i + 1] /\ i + 1 \in 1..Len(s)
OBVIOUS

\* A device that a step leaves alone stays covered.
LEMMA AloneCovers ==
    ASSUME NEW e \in Devices, Covers(e), state'[e] = state[e], clock'[e] = clock[e],
           disk'[e] = disk[e], saved'[e] = saved[e], ops'[e] = ops[e]
    PROVE  Covers(e)'
BY DEF Covers

LEMMA EditCovers ==
    ASSUME TypeOK, TypeOK', NEW d \in Devices, Covers(d), NEW f \in Fields,
           NEW left \in BOOLEAN, f = Name \/ f = d, f = Name => ~left, Edit(d, f, left)
    PROVE  Covers(d)'
<1> DEFINE r == [t |-> clock[d] + 1, n |-> d, v |-> edits + 1, left |-> left]
           op == Operation([state[d] EXCEPT ![f] = r], TRUE, left, Only(f, r))
<1>1. /\ clock'[d] = clock[d] + 1 /\ clock[d] \in Nat
      /\ state' = state /\ disk' = disk /\ saved' = saved /\ torn' = torn
  BY SyncAssumption DEF Edit, TypeOK, Advance, Least, Greatest
<1>2. Enqueue(d, op)
  BY DEF Edit
<1>3. op \in Operations
  <2>1. ops'[d] \in Seq(Operations) /\ ops'[d] = Append(ops[d], op) /\ ops[d] \in Seq(Operations)
    BY <1>2 DEF TypeOK, Enqueue
  <2> HIDE DEF op
  <2>2. Len(ops[d]) + 1 \in 1..Len(Append(ops[d], op))
    BY <2>1
  <2>3. Append(ops[d], op)[Len(ops[d]) + 1] = op
    BY <2>1
  <2> QED
    BY <2>1, <2>2, <2>3
<1>4. ASSUME NEW g \in Fields
      PROVE  /\ state[d][g].t <= clock'[d] /\ disk[d][g].t <= saved[d]
             /\ op.saves[g].t <= clock'[d]
             /\ \A i \in 1..Len(ops[d]) : ops[d][i].saves[g].t <= clock[d]
  <2>1. /\ state[d][g].t <= clock[d] /\ disk[d][g].t <= saved[d]
        /\ \A i \in 1..Len(ops[d]) : ops[d][i].saves[g].t <= clock[d]
    BY DEF Covers
  <2>2. state[d] \in States
    BY DEF TypeOK
  <2>3. state[d][g].t \in Nat
    BY <2>2, StateFields, SyncAssumption DEF Registers
  <2>4. op.saves[g].t = IF g = f THEN clock[d] + 1 ELSE state[d][g].t
    BY <2>2, StateFields DEF Operation
  <2> HIDE DEF op
  <2>5. op.saves[g].t <= clock'[d]
    BY <1>1, <2>1, <2>3, <2>4
  <2> QED
    BY <1>1, <2>1, <2>3, <2>5
<1>5. ASSUME NEW g \in Fields
      PROVE  \A i \in 1..Len(ops'[d]) : ops'[d][i].saves[g].t <= clock'[d]
  <2>1. clock'[d] >= clock[d]
    BY <1>1
  <2> HIDE DEF op
  <2> QED
    BY <1>1, <1>2, <1>3, <1>4, <2>1, EnqueueCovers
<1> QED
  BY <1>1, <1>4, <1>5 DEF Covers

LEMMA CompleteCovers ==
    ASSUME TypeOK, TypeOK', NEW d \in Devices, Covers(d), Complete(d)
    PROVE  Covers(d)'
<1> DEFINE op == Head(ops[d])
<1>1. ops[d] \in Seq(Operations) /\ ops[d] # <<>> /\ op = ops[d][1] /\ 1 \in 1..Len(ops[d])
  BY DEF TypeOK, Complete
<1>2. clock[d] \in 0..MaxTime /\ saved[d] \in 0..MaxTime
  BY DEF TypeOK
<1>3. saved'[d] = Advance(saved[d], clock[d]) /\ clock' = clock
  BY DEF Complete, TypeOK
<1>4. saved'[d] >= clock[d] /\ saved'[d] \in Nat
  <2>1. Advance(saved[d], clock[d]) >= clock[d]
    BY <1>2, AdvanceBounds
  <2>2. saved'[d] \in 0..MaxTime
    BY DEF TypeOK
  <2> QED
    BY <1>3, <2>1, <2>2, SyncAssumption
<1>5. disk'[d] = op.saves /\ (state'[d] = op.saves \/ state'[d] = state[d])
  BY DEF Complete, TypeOK
<1>6. ops'[d] = <<>> \/ ops'[d] = Tail(ops[d])
  BY DEF Complete, TypeOK
<1> HIDE DEF op
<1>7. ASSUME NEW g \in Fields
      PROVE  /\ state'[d][g].t <= clock'[d] /\ disk'[d][g].t <= saved'[d]
             /\ \A i \in 1..Len(ops'[d]) : ops'[d][i].saves[g].t <= clock'[d]
  <2>1. op.saves[g].t <= clock[d] /\ state[d][g].t <= clock[d]
    BY <1>1 DEF Covers
  <2>2. op.saves \in States
    <3>1. ops[d][1] \in Operations
      BY <1>1
    <3> QED
      BY <1>1, <3>1 DEF Operations
  <2>3. op.saves[g].t \in Nat
    BY <2>2, StateFields, SyncAssumption DEF Registers
  <2>4. disk'[d][g].t <= saved'[d]
    BY <1>2, <1>4, <1>5, <2>1, <2>3
  <2>5. ASSUME NEW i \in 1..Len(ops'[d]) PROVE ops'[d][i].saves[g].t <= clock'[d]
    <3>1. ops'[d][i] = ops[d][i + 1] /\ i + 1 \in 1..Len(ops[d])
      <4>1. ops'[d] # <<>>
        BY <2>5
      <4> QED
        BY <1>1, <1>6, <2>5, <4>1, TailElements
    <3> QED
      BY <1>3, <3>1 DEF Covers
  <2> QED
    BY <1>3, <1>5, <2>1, <2>4, <2>5
<1> QED
  BY <1>7 DEF Covers

\* A clock that has been shown the newest register of an update covers the merge.
LEMMA MergeCovers ==
    ASSUME NEW a \in States, NEW u \in States, NEW c \in 0..MaxTime,
           \A f \in Fields : a[f].t <= c, NEW f \in Fields
    PROVE  /\ Merge(a, u)[f].t <= Advance(c, Latest(u)) /\ Advance(c, Latest(u)) >= c
           /\ Advance(c, Latest(u)) \in Nat
<1>1. Latest(u) \in 0..MaxTime /\ u[f].t <= Latest(u)
  BY LatestBounds
<1>2. Advance(c, Latest(u)) >= c /\ Advance(c, Latest(u)) >= Latest(u)
  BY <1>1, AdvanceBounds
<1>3. Advance(c, Latest(u)) \in Nat /\ c \in Nat /\ Latest(u) \in Nat
  <2>1. Advance(c, Latest(u)) \in 0..MaxTime
    BY <1>1, AdvanceBounds
  <2> QED
    BY <1>1, <2>1, SyncAssumption
<1>4. a[f].t \in Nat /\ u[f].t \in Nat
  BY StateFields, SyncAssumption DEF Registers
<1>5. Merge(a, u)[f].t = a[f].t \/ Merge(a, u)[f].t = u[f].t
  BY MergeState
<1> QED
  BY <1>1, <1>2, <1>3, <1>4, <1>5

LEMMA UpdateCovers ==
    ASSUME TypeOK, TypeOK', NEW m \in net, m.to \in Devices, Covers(m.to), ReceiveUpdate(m),
           UNCHANGED torn
    PROVE  Covers(m.to)'
<1> DEFINE d == m.to
           merged == Merge(state[d], m.update)
           op == Operation(merged, TRUE, FALSE, Delta(state[d], merged))
<1>1. m.update \in States /\ state[d] \in States /\ clock[d] \in 0..MaxTime
  BY DEF TypeOK, Messages
<1>2. state' = state /\ disk' = disk
  BY DEF ReceiveUpdate
<1>3. merged \in States /\ op \in Operations /\ op.saves = merged
  <2>1. merged \in States /\ Delta(state[d], merged) \in States
    BY <1>1, MergeState, DeltaState
  <2>2. op.saves = merged
    BY DEF Operation
  <2> HIDE DEF merged
  <2> QED
    BY <2>1, <2>2, OperationType
<1>4. ASSUME NEW f \in Fields
      PROVE  /\ state[d][f].t <= clock[d] /\ disk[d][f].t <= saved[d]
             /\ \A i \in 1..Len(ops[d]) : ops[d][i].saves[f].t <= clock[d]
             /\ state[d][f].t \in Nat /\ disk[d][f].t \in Nat
  <2>1. disk[d] \in States
    BY DEF TypeOK
  <2> QED
    BY <1>1, <2>1, StateFields, SyncAssumption DEF Covers, Registers
<1>5. CASE merged = state[d]
  <2>1. clock'[d] = Advance(clock[d], 0) /\ saved'[d] = Advance(saved[d], clock'[d]) /\ ops' = ops
    BY <1>5 DEF ReceiveUpdate, TypeOK
  <2>2. clock'[d] \in 0..MaxTime /\ saved[d] \in 0..MaxTime /\ saved'[d] \in 0..MaxTime
    BY DEF TypeOK
  <2>3. 0 \in 0..MaxTime
    BY SyncAssumption
  <2>4. clock'[d] >= clock[d] /\ saved'[d] >= saved[d]
    BY <1>1, <2>1, <2>2, <2>3, AdvanceBounds
  <2>5. ASSUME NEW f \in Fields, NEW i \in 1..Len(ops[d])
        PROVE  ops[d][i].saves[f].t <= clock'[d]
    <3>1. ops[d][i] \in Operations
      BY DEF TypeOK
    <3>2. ops[d][i].saves[f].t \in Nat
      BY <3>1, StateFields, SyncAssumption DEF Operations, Registers
    <3> QED
      BY <1>1, <1>4, <2>2, <2>4, <3>2, SyncAssumption
  <2>6. ASSUME NEW f \in Fields PROVE state[d][f].t <= clock'[d] /\ disk[d][f].t <= saved'[d]
    BY <1>1, <1>4, <2>2, <2>4, SyncAssumption
  <2> QED
    BY <1>2, <2>1, <2>5, <2>6 DEF Covers
<1>6. CASE merged # state[d]
  <2>1. /\ clock'[d] = Advance(clock[d], Latest(m.update)) /\ saved' = saved /\ Enqueue(d, op)
    BY <1>6 DEF ReceiveUpdate, TypeOK
  <2>2. ASSUME NEW f \in Fields
        PROVE  merged[f].t <= clock'[d] /\ clock'[d] >= clock[d] /\ clock'[d] \in Nat
    BY <1>1, <1>4, <2>1, MergeCovers
  <2>3. ASSUME NEW f \in Fields
        PROVE  \A i \in 1..Len(ops'[d]) : ops'[d][i].saves[f].t <= clock'[d]
    <3> HIDE DEF op, merged
    <3> QED
      BY <1>3, <1>4, <2>1, <2>2, EnqueueCovers
  <2>4. ASSUME NEW f \in Fields PROVE state[d][f].t <= clock'[d]
    BY <1>1, <1>4, <2>2, SyncAssumption
  <2> QED
    BY <1>2, <1>4, <2>1, <2>3, <2>4 DEF Covers
<1> QED
  BY <1>5, <1>6

LEMMA MemberCovers ==
    ASSUME TypeOK, TypeOK', NEW m \in net, m.to \in Devices, Covers(m.to), ReceiveMember(m),
           UNCHANGED torn
    PROVE  Covers(m.to)'
<1> DEFINE d == m.to
           merged == Merge(state[d], m.update)
           op == Operation(merged, FALSE, FALSE, m.update)
<1>1. m.update \in States /\ state[d] \in States /\ clock[d] \in 0..MaxTime
  BY DEF TypeOK, Messages
<1>2. disk' = disk /\ saved' = saved
  BY DEF ReceiveMember
<1>3. CASE merged = state[d]
  BY <1>2, <1>3, AloneCovers DEF ReceiveMember
<1>4. CASE merged # state[d]
  <2>1. /\ clock'[d] = Advance(clock[d], Latest(m.update)) /\ state'[d] = merged
        /\ Enqueue(d, op)
    BY <1>4 DEF ReceiveMember, TypeOK
  <2>2. merged \in States /\ op \in Operations /\ op.saves = merged
    <3>1. merged \in States /\ op.saves = merged
      BY <1>1, MergeState DEF Operation
    <3> HIDE DEF merged
    <3> QED
      BY <1>1, <3>1, OperationType
  <2>3. ASSUME NEW f \in Fields
        PROVE  merged[f].t <= clock'[d] /\ clock'[d] >= clock[d] /\ clock'[d] \in Nat
    BY <1>1, <2>1, MergeCovers DEF Covers
  <2>4. ASSUME NEW f \in Fields
        PROVE  \A i \in 1..Len(ops'[d]) : ops'[d][i].saves[f].t <= clock'[d]
    <3>1. \A i \in 1..Len(ops[d]) : ops[d][i].saves[f].t <= clock[d]
      BY DEF Covers
    <3> HIDE DEF op, merged
    <3> QED
      BY <2>1, <2>2, <2>3, <3>1, EnqueueCovers
  <2> QED
    BY <1>2, <2>1, <2>3, <2>4 DEF Covers
<1> QED
  BY <1>3, <1>4

\* A write of the state that fails leaves the disk as it was.
LEMMA WriteFailsLeaves ==
    ASSUME TypeOK, NEW d \in Devices, WriteFails(d), ~torn'
    PROVE  /\ ~torn /\ disk' = disk /\ UNCHANGED <<state, clock, saved>> /\ net' \subseteq net
           /\ ops'[d] = <<>> \/ ops'[d] = Tail(ops[d])
           /\ ops[d] \in Seq(Operations) /\ ops[d] # <<>>
           /\ \A e \in Devices \ {d} : ops'[e] = ops[e]
BY DEF WriteFails, TypeOK

LEMMA WriteFailsCovers ==
    ASSUME TypeOK, NEW d \in Devices, Covers(d), WriteFails(d), ~torn'
    PROVE  Covers(d)'
<1>1. ASSUME NEW g \in Fields, NEW i \in 1..Len(ops'[d])
      PROVE  ops'[d][i].saves[g].t <= clock[d]
  <2>1. ops'[d] # <<>>
    BY <1>1
  <2>2. ops'[d] = Tail(ops[d])
    BY <2>1, WriteFailsLeaves
  <2>3. ops'[d][i] = ops[d][i + 1] /\ i + 1 \in 1..Len(ops[d])
    BY <2>2, WriteFailsLeaves, TailElements
  <2> QED
    BY <2>3 DEF Covers
<1> QED
  BY <1>1, WriteFailsLeaves DEF Covers

LEMMA CrashCovers ==
    ASSUME TypeOK, NEW d \in Devices, Covers(d), Crash(d), ~torn'
    PROVE  Covers(d)' /\ disk' = disk
<1>1. PICK k \in 0..Len(ops[d]) :
             /\ disk' = [disk EXCEPT ![d] = IF k = 0 THEN @ ELSE ops[d][k].saves]
             /\ torn' = (torn \/ k # 0)
  BY DEF Crash
<1>2. disk' = disk
  BY <1>1 DEF TypeOK
<1>3. state'[d] = disk[d] /\ clock'[d] = saved[d] /\ ops'[d] = <<>> /\ saved' = saved
  BY <1>2 DEF Crash, TypeOK
<1> QED
  BY <1>2, <1>3 DEF Covers

\* A step keeps ClockCovers.
LEMMA NextCovers == TypeOK /\ ClockCovers /\ [Next]_vars => ClockCovers'
<1> SUFFICES ASSUME TypeOK, ClockCovers, [Next]_vars, ~torn' PROVE ClockCovers'
  BY DEF ClockCovers
<1>1. TypeOK'
  BY NextType
<1>2. CASE UNCHANGED vars
  BY <1>2 DEF ClockCovers, vars
<1>3. ASSUME NEW d \in Devices, PerformLocalEdit(d) \/ UpdateDisplayName(d) \/ AnnounceLocalLeave(d)
      PROVE  ClockCovers'
  <2>1. PICK f \in Fields, left \in BOOLEAN :
               (f = Name \/ f = d) /\ (f = Name => ~left) /\ Edit(d, f, left)
    BY <1>3, EditCases
  <2>2. \A e \in Devices : Covers(e)
    BY <2>1, CoversEach DEF Edit
  <2>3. Covers(d)'
    BY <1>1, <2>1, <2>2, EditCovers
  <2>4. \A e \in Devices \ {d} : Covers(e)'
    BY <2>1, <2>2, AloneCovers DEF Edit, Enqueue, TypeOK
  <2> QED
    BY <2>3, <2>4 DEF ClockCovers, Covers
<1>4. ASSUME NEW d \in Devices, Complete(d) PROVE ClockCovers'
  <2>1. \A e \in Devices : Covers(e)
    BY <1>4, CoversEach DEF Complete
  <2>2. \A e \in Devices \ {d} : Covers(e)'
    BY <1>4, <2>1, AloneCovers DEF Complete, TypeOK
  <2> QED
    BY <1>1, <1>4, <2>1, <2>2, CompleteCovers DEF ClockCovers, Covers
<1>5. ASSUME NEW d \in Devices, AntiEntropy(d) PROVE ClockCovers'
  BY <1>5 DEF AntiEntropy, ClockCovers
<1>6. ASSUME NEW d \in Devices, Crash(d) PROVE ClockCovers'
  <2>1. ~torn
    BY <1>6 DEF Crash, TypeOK
  <2>2. \A e \in Devices : Covers(e)
    BY <2>1, CoversEach
  <2>3. Covers(d)' /\ disk' = disk
    BY <1>6, <2>2, CrashCovers
  <2>4. \A e \in Devices \ {d} : Covers(e)'
    BY <1>6, <2>2, <2>3, AloneCovers DEF Crash, TypeOK
  <2> QED
    BY <2>3, <2>4 DEF ClockCovers, Covers
<1>7. ASSUME NEW d \in Devices, NEW type \in MessageTypes, Receive(d, type)
      PROVE  ClockCovers'
  <2>1. PICK m \in net : /\ m.to = d /\ UNCHANGED <<active, edits, faults, torn>>
                         /\ ReceiveUpdate(m) \/ ReceiveMember(m) \/ ReceiveSummary(m)
    BY <1>7 DEF Receive
  <2>2. \A e \in Devices : Covers(e)
    BY <2>1, CoversEach
  <2>3. CASE ReceiveUpdate(m)
    <3>1. Covers(d)'
      BY <1>1, <2>1, <2>2, <2>3, UpdateCovers
    <3>2. \A e \in Devices \ {d} : Covers(e)'
      BY <2>1, <2>2, <2>3, AloneCovers DEF ReceiveUpdate, Enqueue, TypeOK
    <3> QED
      BY <3>1, <3>2 DEF ClockCovers, Covers
  <2>4. CASE ReceiveMember(m)
    <3>1. Covers(d)'
      BY <1>1, <2>1, <2>2, <2>4, MemberCovers
    <3>2. \A e \in Devices \ {d} : Covers(e)'
      BY <2>1, <2>2, <2>4, AloneCovers DEF ReceiveMember, Enqueue, TypeOK
    <3> QED
      BY <3>1, <3>2 DEF ClockCovers, Covers
  <2>5. CASE ReceiveSummary(m)
    BY <2>1, <2>5 DEF ReceiveSummary, ClockCovers
  <2> QED
    BY <2>1, <2>3, <2>4, <2>5
<1>8. ASSUME NEW d \in Devices, WriteFails(d) PROVE ClockCovers'
  <2>1. \A e \in Devices : Covers(e)
    BY <1>8, CoversEach, WriteFailsLeaves
  <2>2. \A e \in Devices \ {d} : Covers(e)'
    BY <1>8, <2>1, WriteFailsLeaves, AloneCovers
  <2> QED
    BY <1>8, <2>1, <2>2, WriteFailsCovers DEF ClockCovers, Covers
<1> QED
  BY <1>2, <1>3, <1>4, <1>5, <1>6, <1>7, <1>8 DEF Next

\* The clock of a device covers every register it holds in memory, on its way to the disk
\* or on it, unless a crash or a failed write has left a state on disk without its clock.
THEOREM ClocksCover == Spec => []ClockCovers
<1>1. Init => TypeOK /\ ClockCovers
  BY InitType, InitCovers
<1>2. (TypeOK /\ ClockCovers) /\ [Next]_vars => (TypeOK /\ ClockCovers)'
  BY NextType, NextCovers
<1> QED
  BY <1>1, <1>2, PTL DEF Spec

-----------------------------------------------------------------------------
(* No two edits share a stamp *)

\* The stamps of d lie below its clock and, outside of d's own operations, below what
\* it would start again with.
OwnStamps(d) ==
    \A f \in Fields :
       /\ \A r \in Stored(f) : r.n = d => r.t <= clock[d] /\ r.t <= saved[d]
       /\ \A e \in Devices : \A r \in Waiting(e, f) :
             r.n = d => r.t <= clock[d] /\ (e # d => r.t <= saved[d])

Unique(f) == \A r, s \in Copies(f) : r.t = s.t /\ r.n = s.n /\ r.t # 0 => r = s

\* The inductive strengthening of StampsUnique.
StampsBounded ==
    ~torn => (\A d \in Devices : OwnStamps(d)) /\ (\A f \in Fields : Unique(f))

LEMMA BoundedUnique == StampsBounded => StampsUnique
BY DEF StampsBounded, StampsUnique, Unique

\* Copies are registers.
LEMMA CopyTypes ==
    ASSUME TypeOK, NEW f \in Fields
    PROVE  /\ \A r \in Stored(f) : r \in Registers
           /\ \A d \in Devices : \A r \in Waiting(d, f) : r \in Registers
<1>1. ASSUME NEW r \in Stored(f) PROVE r \in Registers
  <2>1. \E s \in States : r = s[f]
    BY DEF Stored, TypeOK, Messages
  <2> QED
    BY <2>1, StateFields
<1>2. ASSUME NEW d \in Devices, NEW r \in Waiting(d, f) PROVE r \in Registers
  <2>1. PICK i \in 1..Len(ops[d]) : r = ops[d][i].saves[f] \/ r = ops[d][i].update[f]
    BY DEF Waiting
  <2>2. ops[d][i] \in Operations
    BY DEF TypeOK
  <2>3. ops[d][i].saves \in States /\ ops[d][i].update \in States
    BY <2>2 DEF Operations
  <2> QED
    BY <2>1, <2>3, StateFields
<1> QED
  BY <1>1, <1>2

\* The group begins with one stamp for each register.
LEMMA InitStamps == Init => StampsBounded
<1> SUFFICES ASSUME Init PROVE StampsBounded
  OBVIOUS
<1> DEFINE first(f) == [Absent(f) EXCEPT !.t = 1]
<1>1. ASSUME NEW f \in Fields PROVE \A r \in Stored(f) : r = first(f) /\ r.t = 1
  <2>1. first(f).t = 1
    BY AbsentRegister DEF Registers
  <2> QED
    BY <2>1 DEF Stored, Init
<1>2. ASSUME NEW d \in Devices, NEW f \in Fields PROVE Waiting(d, f) = {}
  <2>1. ops[d] = <<>> /\ Len(<<>>) = 0
    BY DEF Init
  <2> QED
    BY <2>1 DEF Waiting
<1>3. \A d \in Devices : clock[d] = 1 /\ saved[d] = 1
  BY DEF Init
<1> HIDE DEF first
<1>4. \A d \in Devices : OwnStamps(d)
  BY <1>1, <1>2, <1>3 DEF OwnStamps
<1>5. \A f \in Fields : Unique(f)
  BY <1>1, <1>2 DEF Unique, Copies
<1> QED
  BY <1>4, <1>5 DEF StampsBounded

\* A step of d that only passes registers on: to the others only what they have or what
\* d's saved clock covers.
Passes(d) ==
    /\ \A f \in Fields :
          /\ \A r \in Stored(f)' : \/ r \in Stored(f) \/ r = Absent(f)
                                   \/ r \in Waiting(d, f) /\ saved'[d] >= clock[d]
          /\ \A r \in Waiting(d, f)' : r \in Waiting(d, f) \/ r \in Stored(f) \/ r = Absent(f)
          /\ \A e \in Devices \ {d} : Waiting(e, f)' = Waiting(e, f)
    /\ \A e \in Devices : clock'[e] >= clock[e] /\ saved'[e] >= saved[e]

LEMMA PassesStamps ==
    ASSUME TypeOK, TypeOK', NEW d \in Devices, Passes(d),
           \A e \in Devices : OwnStamps(e), \A f \in Fields : Unique(f)
    PROVE  (\A e \in Devices : OwnStamps(e)') /\ (\A f \in Fields : Unique(f)')
<1>1. ASSUME NEW e \in Devices
      PROVE  clock[e] \in Nat /\ clock'[e] \in Nat /\ saved[e] \in Nat /\ saved'[e] \in Nat
  BY SyncAssumption DEF TypeOK
<1>2. ASSUME NEW e \in Devices, NEW f \in Fields
      PROVE  /\ \A r \in Stored(f)' : r.n = e => r.t <= clock'[e] /\ r.t <= saved'[e]
             /\ \A c \in Devices : \A r \in Waiting(c, f)' :
                   r.n = e => r.t <= clock'[e] /\ (c # e => r.t <= saved'[e])
  <2>1. clock'[e] >= clock[e] /\ saved'[e] >= saved[e]
    BY DEF Passes
  <2>2. ASSUME NEW r \in Registers, r.t <= clock[e] PROVE r.t <= clock'[e]
    BY <1>1, <2>1, <2>2, SyncAssumption DEF Registers
  <2>3. ASSUME NEW r \in Registers, r.t <= saved[e] PROVE r.t <= saved'[e]
    BY <1>1, <2>1, <2>3, SyncAssumption DEF Registers
  <2>4. ASSUME NEW r \in Registers, r.t <= clock[e], saved'[e] >= clock[e] PROVE r.t <= saved'[e]
    BY <1>1, <2>4, SyncAssumption DEF Registers
  <2>5. /\ \A r \in Stored(f) : r \in Registers
        /\ \A c \in Devices : \A r \in Waiting(c, f) : r \in Registers
    BY CopyTypes
  <2>6. /\ \A r \in Stored(f) : r.n = e => r.t <= clock[e] /\ r.t <= saved[e]
        /\ \A c \in Devices : \A r \in Waiting(c, f) :
              r.n = e => r.t <= clock[e] /\ (c # e => r.t <= saved[e])
    BY DEF OwnStamps
  <2>7. Absent(f) \in Registers /\ Absent(f).t <= clock[e] /\ Absent(f).t <= saved[e]
    BY <1>1, AbsentRegister
  <2>8. ASSUME NEW r \in Stored(f)', r.n = e PROVE r.t <= clock'[e] /\ r.t <= saved'[e]
    <3>1. CASE r \in Stored(f)
      BY <3>1, <2>2, <2>3, <2>5, <2>6, <2>8
    <3>2. CASE r = Absent(f)
      BY <3>2, <2>2, <2>3, <2>7
    <3>3. CASE r \in Waiting(d, f) /\ saved'[d] >= clock[d]
      <4>1. r \in Registers /\ r.t <= clock[e] /\ (d # e => r.t <= saved[e])
        BY <3>3, <2>5, <2>6, <2>8
      <4> QED
        BY <3>3, <4>1, <2>2, <2>3, <2>4
    <3> QED
      BY <3>1, <3>2, <3>3 DEF Passes
  <2>9. ASSUME NEW c \in Devices, NEW r \in Waiting(c, f)', r.n = e
        PROVE  r.t <= clock'[e] /\ (c # e => r.t <= saved'[e])
    <3>1. CASE r \in Waiting(c, f)
      BY <3>1, <2>2, <2>3, <2>5, <2>6, <2>9
    <3>2. CASE r \in Stored(f)
      BY <3>2, <2>2, <2>3, <2>5, <2>6, <2>9
    <3>3. CASE r = Absent(f)
      BY <3>3, <2>2, <2>3, <2>7
    <3> QED
      BY <3>1, <3>2, <3>3 DEF Passes
  <2> QED
    BY <2>8, <2>9
<1>3. ASSUME NEW f \in Fields PROVE Unique(f)'
  <2>1. \A r \in Copies(f)' : r \in Copies(f) \/ r = Absent(f)
    BY DEF Copies, Passes
  <2>2. Absent(f).t = 0
    BY AbsentRegister
  <2> QED
    BY <2>1, <2>2 DEF Unique
<1> QED
  BY <1>2, <1>3 DEF OwnStamps

\* What waits after an operation has joined the others.
LEMMA EnqueueWaits ==
    ASSUME TypeOK, NEW d \in Devices, NEW op, Enqueue(d, op), NEW f \in Fields
    PROVE  /\ \A r \in Waiting(d, f)' :
                  r \in Waiting(d, f) \/ r = op.saves[f] \/ r = op.update[f]
           /\ \A e \in Devices \ {d} : Waiting(e, f)' = Waiting(e, f)
<1>1. ops[d] \in Seq(Operations) /\ ops' = [ops EXCEPT ![d] = Append(@, op)]
      /\ ops \in [Devices -> Seq(Operations)]
  BY DEF TypeOK, Enqueue
<1>2. ASSUME NEW r \in Waiting(d, f)'
      PROVE  r \in Waiting(d, f) \/ r = op.saves[f] \/ r = op.update[f]
  <2>1. PICK i \in 1..Len(ops'[d]) : r = ops'[d][i].saves[f] \/ r = ops'[d][i].update[f]
    BY DEF Waiting
  <2>2. ops'[d] = Append(ops[d], op)
    BY <1>1
  <2>3. CASE i \in 1..Len(ops[d])
    <3>1. ops'[d][i] = ops[d][i]
      BY <1>1, <2>2, <2>3
    <3> QED
      BY <2>1, <2>3, <3>1 DEF Waiting
  <2>4. CASE i \notin 1..Len(ops[d])
    <3>1. ops'[d][i] = op
      BY <1>1, <2>1, <2>2, <2>4
    <3> QED
      BY <2>1, <3>1
  <2> QED
    BY <2>3, <2>4
<1>3. ASSUME NEW e \in Devices \ {d} PROVE Waiting(e, f)' = Waiting(e, f)
  <2>1. ops'[e] = ops[e]
    BY <1>1
  <2> QED
    BY <2>1 DEF Waiting
<1> QED
  BY <1>2, <1>3

LEMMA CompletePasses ==
    ASSUME TypeOK, TypeOK', NEW d \in Devices, Complete(d)
    PROVE  Passes(d)
<1> DEFINE op == Head(ops[d])
           told == Broadcast("update", d, op.update)
                     \cup (IF op.leaves THEN Broadcast("member", d, op.update) ELSE {})
           kept == {m \in net : op.leaves => m.to # d}
<1>1. ops[d] \in Seq(Operations) /\ ops[d] # <<>> /\ op = ops[d][1] /\ 1 \in 1..Len(ops[d])
  BY DEF TypeOK, Complete
<1>2. saved'[d] = Advance(saved[d], clock[d]) /\ clock' = clock
      /\ \A e \in Devices \ {d} : saved'[e] = saved[e]
  BY DEF Complete, TypeOK
<1>3. \A e \in Devices : clock[e] \in 0..MaxTime /\ saved[e] \in 0..MaxTime
  BY DEF TypeOK
<1>4. saved'[d] >= clock[d] /\ saved'[d] >= saved[d]
  BY <1>2, <1>3, AdvanceBounds
<1>5. \A e \in Devices : clock'[e] >= clock[e] /\ saved'[e] >= saved[e]
  BY <1>2, <1>3, <1>4, SyncAssumption
<1>6. /\ \A e \in Devices \ {d} : disk'[e] = disk[e] /\ state'[e] = state[e] /\ ops'[e] = ops[e]
      /\ disk'[d] = op.saves /\ (state'[d] = op.saves \/ state'[d] = state[d])
      /\ ops'[d] = <<>> \/ ops'[d] = Tail(ops[d])
  BY DEF Complete, TypeOK
<1>7. \A m \in net' : m \in net \/ m.update = op.update
  <2>1. op \in Operations
    BY <1>1
  <2>2. op.update \in States
    BY <2>1 DEF Operations
  <2>3. told \in SUBSET Messages /\ kept \in SUBSET Messages /\ \A m \in told : m.update = op.update
    <3> HIDE DEF op
    <3> QED
      BY <2>2, MessageType DEF MessageTypes, TypeOK
  <2>4. Send(kept, told)
    BY DEF Complete
  <2>5. \A m \in net' : m \in kept \/ m \in told
    <3> HIDE DEF told, kept
    <3> QED
      BY <2>3, <2>4, SendType
  <2> QED
    BY <2>3, <2>5
<1> HIDE DEF op, told, kept
<1>8. ASSUME NEW f \in Fields, NEW r \in Stored(f)' PROVE r \in Stored(f) \/ r \in Waiting(d, f)
  <2>1. op.saves[f] \in Waiting(d, f) /\ op.update[f] \in Waiting(d, f)
    BY <1>1 DEF Waiting
  <2>2. \/ \E e \in Devices : r = state'[e][f] \/ r = disk'[e][f]
        \/ \E m \in net' : r = m.update[f]
    BY DEF Stored
  <2> QED
    BY <1>6, <1>7, <2>1, <2>2 DEF Stored
<1>9. ASSUME NEW f \in Fields, NEW r \in Waiting(d, f)' PROVE r \in Waiting(d, f)
  <2>1. PICK i \in 1..Len(ops'[d]) : r = ops'[d][i].saves[f] \/ r = ops'[d][i].update[f]
    BY DEF Waiting
  <2>2. ops'[d] # <<>>
    BY <2>1
  <2>3. ops'[d][i] = ops[d][i + 1] /\ i + 1 \in 1..Len(ops[d])
    <3>1. ops'[d] = Tail(ops[d]) /\ i \in 1..Len(Tail(ops[d]))
      BY <1>6, <2>1, <2>2
    <3> QED
      BY <1>1, <3>1, TailElements
  <2> QED
    BY <2>1, <2>3 DEF Waiting
<1>10. ASSUME NEW f \in Fields, NEW e \in Devices \ {d} PROVE Waiting(e, f)' = Waiting(e, f)
  BY <1>6 DEF Waiting
<1> QED
  BY <1>4, <1>5, <1>8, <1>9, <1>10 DEF Passes

\* A device that merges an update passes on what it has and what it was sent.
LEMMA UpdatePasses ==
    ASSUME TypeOK, TypeOK', NEW m \in net, m.to \in Devices, ReceiveUpdate(m)
    PROVE  Passes(m.to)
<1> DEFINE d == m.to
           merged == Merge(state[d], m.update)
           op == Operation(merged, TRUE, FALSE, Delta(state[d], merged))
<1>1. m.update \in States /\ state[d] \in States /\ 0 \in 0..MaxTime
      /\ Latest(m.update) \in 0..MaxTime
  <2>1. m.update \in States /\ state[d] \in States
    BY DEF TypeOK, Messages
  <2> QED
    BY <2>1, LatestBounds, SyncAssumption
<1>2. \A e \in Devices : /\ clock[e] \in 0..MaxTime /\ saved[e] \in 0..MaxTime
                          /\ clock'[e] \in 0..MaxTime
  BY DEF TypeOK
<1>3. ASSUME NEW e \in Devices PROVE clock'[e] >= clock[e] /\ saved'[e] >= saved[e]
  <2>1. \/ clock'[e] \in {clock[e], Advance(clock[e], 0)}
        \/ clock'[e] \in {clock[e], Advance(clock[e], Latest(m.update))}
    BY DEF ReceiveUpdate, TypeOK
  <2>2. saved'[e] \in {saved[e], Advance(saved[e], clock'[e])}
    BY DEF ReceiveUpdate, TypeOK
  <2>3. clock[e] \in 0..MaxTime /\ saved[e] \in 0..MaxTime /\ clock'[e] \in 0..MaxTime
    BY <1>2
  <2>4. clock'[e] >= clock[e]
    <3>1. CASE clock'[e] \in {clock[e], Advance(clock[e], 0)}
      BY <1>1, <2>3, <3>1, AdvanceGrows
    <3>2. CASE clock'[e] \in {clock[e], Advance(clock[e], Latest(m.update))}
      BY <1>1, <2>3, <3>2, AdvanceGrows
    <3> QED
      BY <2>1, <3>1, <3>2
  <2>5. saved'[e] >= saved[e]
    BY <2>2, <2>3, AdvanceGrows
  <2> QED
    BY <2>4, <2>5
<1>4. ASSUME NEW f \in Fields PROVE \A r \in Stored(f)' : r \in Stored(f)
  BY DEF ReceiveUpdate, Stored
<1>5. ASSUME NEW f \in Fields
      PROVE  /\ \A r \in Waiting(d, f)' : r \in Waiting(d, f) \/ r \in Stored(f) \/ r = Absent(f)
             /\ \A e \in Devices \ {d} : Waiting(e, f)' = Waiting(e, f)
  <2>1. CASE merged = state[d]
    BY <2>1 DEF ReceiveUpdate, Waiting
  <2>2. CASE merged # state[d]
    <3>1. Enqueue(d, op)
      BY <2>2 DEF ReceiveUpdate
    <3>2. merged \in States /\ (merged[f] = state[d][f] \/ merged[f] = m.update[f])
      BY <1>1, MergeState
    <3>3. op.saves = merged /\ op.update = Delta(state[d], merged)
      BY DEF Operation
    <3> HIDE DEF merged, op
    <3>4. op.update[f] = Absent(f) \/ op.update[f] = merged[f]
      BY <1>1, <3>2, <3>3, DeltaState
    <3>5. state[d][f] \in Stored(f) /\ m.update[f] \in Stored(f)
      BY DEF Stored
    <3> QED
      BY <3>1, <3>2, <3>3, <3>4, <3>5, EnqueueWaits
  <2> QED
    BY <2>1, <2>2
<1> QED
  BY <1>3, <1>4, <1>5 DEF Passes

LEMMA MemberPasses ==
    ASSUME TypeOK, TypeOK', NEW m \in net, m.to \in Devices, ReceiveMember(m)
    PROVE  Passes(m.to)
<1> DEFINE d == m.to
           merged == Merge(state[d], m.update)
           op == Operation(merged, FALSE, FALSE, m.update)
<1>1. m.update \in States /\ state[d] \in States /\ Latest(m.update) \in 0..MaxTime
  BY LatestBounds DEF TypeOK, Messages
<1>2. \A e \in Devices : clock[e] \in 0..MaxTime /\ saved[e] \in 0..MaxTime
  BY DEF TypeOK
<1>3. ASSUME NEW e \in Devices PROVE clock'[e] >= clock[e] /\ saved'[e] >= saved[e]
  <2>1. clock'[e] \in {clock[e], Advance(clock[e], Latest(m.update))} /\ saved'[e] = saved[e]
    BY DEF ReceiveMember, TypeOK
  <2>2. clock[e] \in 0..MaxTime /\ saved[e] \in 0..MaxTime
    BY <1>2
  <2>3. clock'[e] >= clock[e]
    BY <1>1, <2>1, <2>2, AdvanceGrows
  <2>4. saved[e] >= saved[e]
    BY <2>2, SyncAssumption
  <2> QED
    BY <2>1, <2>3, <2>4
<1>4. ASSUME NEW f \in Fields
      PROVE  /\ merged[f] \in Stored(f) /\ m.update[f] \in Stored(f)
             /\ \A r \in Stored(f)' : r \in Stored(f)
  <2>1. merged[f] = state[d][f] \/ merged[f] = m.update[f]
    BY <1>1, MergeState
  <2>2. merged[f] \in Stored(f) /\ m.update[f] \in Stored(f)
    BY <2>1 DEF Stored
  <2>3. \A e \in Devices : state'[e] = state[e] \/ state'[e] = merged
    BY DEF ReceiveMember, TypeOK
  <2>4. disk' = disk /\ net' = net \ {m}
    BY DEF ReceiveMember
  <2> HIDE DEF merged
  <2> QED
    BY <2>2, <2>3, <2>4 DEF Stored
<1>5. ASSUME NEW f \in Fields
      PROVE  /\ \A r \in Waiting(d, f)' : r \in Waiting(d, f) \/ r \in Stored(f) \/ r = Absent(f)
             /\ \A e \in Devices \ {d} : Waiting(e, f)' = Waiting(e, f)
  <2>1. CASE merged = state[d]
    BY <2>1 DEF ReceiveMember, Waiting
  <2>2. CASE merged # state[d]
    <3>1. Enqueue(d, op)
      BY <2>2 DEF ReceiveMember
    <3>2. op.saves = merged /\ op.update = m.update
      BY DEF Operation
    <3> HIDE DEF merged, op
    <3> QED
      BY <1>4, <3>1, <3>2, EnqueueWaits
  <2> QED
    BY <2>1, <2>2
<1> QED
  BY <1>3, <1>4, <1>5 DEF Passes

LEMMA SummaryPasses ==
    ASSUME TypeOK, TypeOK', NEW m \in net, m.to \in Devices, ReceiveSummary(m),
           UNCHANGED <<active, edits, faults, torn>>
    PROVE  Passes(m.to)
<1>1. \A x \in net' : x \in net \/ x.update = state[m.to] \/ x.update = NoUpdate
  BY SummaryType
<1>2. /\ state' = state /\ disk' = disk /\ ops' = ops /\ clock' = clock /\ saved' = saved
      /\ \A f \in Fields : NoUpdate[f] = Absent(f)
  BY DEF ReceiveSummary, NoUpdate
<1>3. ASSUME NEW f \in Fields, NEW r \in Stored(f)' PROVE r \in Stored(f) \/ r = Absent(f)
  BY <1>1, <1>2 DEF Stored
<1>4. \A e \in Devices : clock[e] >= clock[e] /\ saved[e] >= saved[e]
  BY SyncAssumption DEF TypeOK
<1> QED
  BY <1>2, <1>3, <1>4 DEF Passes, Waiting

LEMMA AntiEntropyPasses ==
    ASSUME TypeOK, TypeOK', NEW d \in Devices, AntiEntropy(d)
    PROVE  Passes(d)
<1>1. \A x \in net' : x.update = state[d]
  BY AntiEntropyType
<1>2. state' = state /\ disk' = disk /\ ops' = ops /\ clock' = clock /\ saved' = saved
  BY DEF AntiEntropy
<1>3. ASSUME NEW f \in Fields, NEW r \in Stored(f)' PROVE r \in Stored(f)
  BY <1>1, <1>2 DEF Stored
<1>4. \A e \in Devices : clock[e] >= clock[e] /\ saved[e] >= saved[e]
  BY SyncAssumption DEF TypeOK
<1> QED
  BY <1>2, <1>3, <1>4 DEF Passes, Waiting

\* An edit takes a stamp above all of its device.
LEMMA EditStamps ==
    ASSUME TypeOK, TypeOK', NEW d \in Devices, NEW f \in Fields, NEW left \in BOOLEAN,
           Edit(d, f, left),
           \A e \in Devices : OwnStamps(e), \A g \in Fields : Unique(g)
    PROVE  (\A e \in Devices : OwnStamps(e)') /\ (\A g \in Fields : Unique(g)')
<1> DEFINE r == [t |-> clock[d] + 1, n |-> d, v |-> edits + 1, left |-> left]
           op == Operation([state[d] EXCEPT ![f] = r], TRUE, left, Only(f, r))
<1>1. /\ clock'[d] = clock[d] + 1 /\ \A e \in Devices : clock[e] \in Nat /\ saved[e] \in Nat
      /\ \A e \in Devices \ {d} : clock'[e] = clock[e]
      /\ state' = state /\ disk' = disk /\ net' = net /\ saved' = saved
  BY SyncAssumption DEF Edit, TypeOK, Advance, Least, Greatest
<1>2. Enqueue(d, op)
  BY DEF Edit
<1>3. r.t = clock[d] + 1 /\ r.n = d
  OBVIOUS
<1>4. ASSUME NEW g \in Fields
      PROVE  /\ op.saves[g] = state[d][g] \/ (g = f /\ op.saves[g] = r)
             /\ op.update[g] = Absent(g) \/ (g = f /\ op.update[g] = r)
  <2>1. state[d] = [h \in Fields |-> state[d][h]]
    BY StateFields DEF TypeOK
  <2>2. op.saves = [state[d] EXCEPT ![f] = r] /\ op.update = [NoUpdate EXCEPT ![f] = r]
    BY DEF Operation, Only
  <2> HIDE DEF op, r
  <2> QED
    BY <2>1, <2>2 DEF NoUpdate
<1> HIDE DEF r, op
<1>5. ASSUME NEW g \in Fields
      PROVE  /\ Stored(g)' = Stored(g)
             /\ \A e \in Devices \ {d} : Waiting(e, g)' = Waiting(e, g)
             /\ \A s \in Waiting(d, g)' : \/ s \in Waiting(d, g) \/ s \in Stored(g)
                                          \/ s = Absent(g) \/ s = r
  <2>1. Stored(g)' = Stored(g) /\ state[d][g] \in Stored(g)
    BY <1>1 DEF Stored
  <2> QED
    BY <1>2, <1>4, <2>1, EnqueueWaits
<1>6. ASSUME NEW e \in Devices, NEW g \in Fields
      PROVE  /\ \A s \in Stored(g)' : s.n = e => s.t <= clock'[e] /\ s.t <= saved'[e]
             /\ \A c \in Devices : \A s \in Waiting(c, g)' :
                   s.n = e => s.t <= clock'[e] /\ (c # e => s.t <= saved'[e])
  <2>1. /\ \A s \in Stored(g) : s \in Registers /\ s.t \in Nat
        /\ \A c \in Devices : \A s \in Waiting(c, g) : s \in Registers /\ s.t \in Nat
    BY CopyTypes, SyncAssumption DEF Registers
  <2>2. /\ \A s \in Stored(g) : s.n = e => s.t <= clock[e] /\ s.t <= saved[e]
        /\ \A c \in Devices : \A s \in Waiting(c, g) :
              s.n = e => s.t <= clock[e] /\ (c # e => s.t <= saved[e])
    BY DEF OwnStamps
  <2>3. ASSUME NEW s, s.t \in Nat, s.t <= clock[e] PROVE s.t <= clock'[e]
    BY <1>1, <2>3
  <2>4. Absent(g).t = 0
    BY AbsentRegister
  <2>5. ASSUME NEW s \in Waiting(d, g)', s.n = e
        PROVE  s.t <= clock'[e] /\ (d # e => s.t <= saved'[e])
    <3>1. CASE s \in Waiting(d, g) \/ s \in Stored(g)
      BY <3>1, <1>1, <2>1, <2>2, <2>3, <2>5
    <3>2. CASE s = Absent(g)
      BY <3>2, <1>1, <2>3, <2>4
    <3>3. CASE s = r
      BY <3>3, <1>1, <1>3, <2>5
    <3> QED
      BY <3>1, <3>2, <3>3, <1>5
  <2> QED
    BY <1>1, <1>5, <2>1, <2>2, <2>3, <2>5
<1>7. ASSUME NEW g \in Fields PROVE Unique(g)'
  <2>1. \A s \in Copies(g)' : s \in Copies(g) \/ s = Absent(g) \/ s = r
    BY <1>5 DEF Copies
  <2>2. Absent(g).t = 0
    BY AbsentRegister
  <2>3. \A s \in Copies(g) : s \in Registers /\ (s.n = d => s.t <= clock[d])
    BY CopyTypes DEF Copies, OwnStamps
  <2>4. \A s \in Copies(g) : s.t \in Nat
    BY <2>3, SyncAssumption DEF Registers
  <2>5. ASSUME NEW s \in Copies(g)', NEW u \in Copies(g)', s.t = u.t, s.n = u.n, s.t # 0
        PROVE  s = u
    <3>1. CASE s \in Copies(g) /\ u \in Copies(g)
      BY <3>1, <2>5 DEF Unique
    <3>2. \A x \in Copies(g) : ~(x.t = r.t /\ x.n = r.n)
      BY <1>1, <1>3, <2>3, <2>4
    <3> QED
      BY <3>1, <3>2, <2>1, <2>2, <2>5
  <2> QED
    BY <2>5 DEF Unique
<1> QED
  BY <1>6, <1>7 DEF OwnStamps

LEMMA WriteFailsPasses ==
    ASSUME TypeOK, NEW d \in Devices, WriteFails(d), ~torn'
    PROVE  Passes(d)
<1>1. \A e \in Devices : clock'[e] >= clock[e] /\ saved'[e] >= saved[e]
  <2>1. \A e \in Devices : clock[e] \in Nat /\ saved[e] \in Nat
    BY SyncAssumption DEF TypeOK
  <2> QED
    BY <2>1, WriteFailsLeaves
<1>2. ASSUME NEW f \in Fields, NEW r \in Stored(f)' PROVE r \in Stored(f)
  BY WriteFailsLeaves DEF Stored
<1>3. ASSUME NEW f \in Fields, NEW r \in Waiting(d, f)' PROVE r \in Waiting(d, f)
  <2>1. PICK i \in 1..Len(ops'[d]) : r = ops'[d][i].saves[f] \/ r = ops'[d][i].update[f]
    BY DEF Waiting
  <2>2. ops'[d] # <<>>
    BY <2>1
  <2>3. ops'[d] = Tail(ops[d])
    BY <2>2, WriteFailsLeaves
  <2>4. ops'[d][i] = ops[d][i + 1] /\ i + 1 \in 1..Len(ops[d])
    BY <2>3, WriteFailsLeaves, TailElements
  <2> QED
    BY <2>1, <2>4 DEF Waiting
<1>4. ASSUME NEW f \in Fields, NEW e \in Devices \ {d} PROVE Waiting(e, f)' = Waiting(e, f)
  BY WriteFailsLeaves DEF Waiting
<1> QED
  BY <1>1, <1>2, <1>3, <1>4 DEF Passes

LEMMA CrashStamps ==
    ASSUME TypeOK, NEW d \in Devices, Crash(d), ~torn',
           \A e \in Devices : OwnStamps(e), \A g \in Fields : Unique(g)
    PROVE  (\A e \in Devices : OwnStamps(e)') /\ (\A g \in Fields : Unique(g)')
<1>1. disk' = disk
  <2>1. PICK k \in 0..Len(ops[d]) :
             /\ disk' = [disk EXCEPT ![d] = IF k = 0 THEN @ ELSE ops[d][k].saves]
             /\ torn' = (torn \/ k # 0)
    BY DEF Crash
  <2> QED
    BY <2>1 DEF TypeOK
<1>2. /\ state'[d] = disk[d] /\ clock'[d] = saved[d] /\ ops'[d] = <<>> /\ saved' = saved
      /\ \A m \in net' : m \in net
      /\ \A e \in Devices \ {d} : state'[e] = state[e] /\ clock'[e] = clock[e] /\ ops'[e] = ops[e]
  BY <1>1 DEF Crash, TypeOK
<1>3. ASSUME NEW g \in Fields
      PROVE  /\ \A r \in Stored(g)' : r \in Stored(g)
             /\ \A r : r \notin Waiting(d, g)'
             /\ \A e \in Devices \ {d} : Waiting(e, g)' = Waiting(e, g)
  <2>1. \A r \in Stored(g)' : r \in Stored(g)
    <3>1. ASSUME NEW e \in Devices PROVE state'[e][g] \in Stored(g)
      <4>1. state'[e] = state[e] \/ state'[e] = disk[d]
        BY <1>2
      <4> QED
        BY <4>1 DEF Stored
    <3> QED
      BY <1>1, <1>2, <3>1 DEF Stored
  <2>2. \A r : r \notin Waiting(d, g)'
    <3>1. 1..Len(ops'[d]) = {}
      BY <1>2
    <3> QED
      BY <3>1 DEF Waiting
  <2>3. \A e \in Devices \ {d} : Waiting(e, g)' = Waiting(e, g)
    BY <1>2 DEF Waiting
  <2> QED
    BY <2>1, <2>2, <2>3
<1>4. \A e \in Devices : OwnStamps(e)'
  BY <1>2, <1>3 DEF OwnStamps
<1>5. \A g \in Fields : Unique(g)'
  BY <1>3 DEF Unique, Copies
<1> QED
  BY <1>4, <1>5

\* A step keeps StampsBounded.
LEMMA NextStamps == TypeOK /\ StampsBounded /\ [Next]_vars => StampsBounded'
<1> SUFFICES ASSUME TypeOK, StampsBounded, [Next]_vars, ~torn' PROVE StampsBounded'
  BY DEF StampsBounded
<1>1. TypeOK'
  BY NextType
<1>2. CASE UNCHANGED vars
  BY <1>2 DEF StampsBounded, OwnStamps, Unique, Copies, Stored, Waiting, vars
<1>3. ASSUME NEW d \in Devices, Passes(d), ~torn PROVE StampsBounded'
  BY <1>1, <1>3, PassesStamps DEF StampsBounded
<1>4. ASSUME NEW d \in Devices, PerformLocalEdit(d) \/ UpdateDisplayName(d) \/ AnnounceLocalLeave(d)
      PROVE  StampsBounded'
  <2>1. PICK f \in Fields, left \in BOOLEAN : Edit(d, f, left)
    BY <1>4, EditCases
  <2>2. ~torn
    BY <2>1 DEF Edit
  <2> QED
    BY <1>1, <2>1, <2>2, EditStamps DEF StampsBounded
<1>5. ASSUME NEW d \in Devices, Complete(d) PROVE StampsBounded'
  <2>1. ~torn
    BY <1>5 DEF Complete
  <2> QED
    BY <1>1, <1>3, <1>5, <2>1, CompletePasses
<1>6. ASSUME NEW d \in Devices, AntiEntropy(d) PROVE StampsBounded'
  <2>1. ~torn
    BY <1>6 DEF AntiEntropy
  <2> QED
    BY <1>1, <1>3, <1>6, <2>1, AntiEntropyPasses
<1>7. ASSUME NEW d \in Devices, Crash(d) PROVE StampsBounded'
  <2>1. ~torn
    BY <1>7 DEF Crash, TypeOK
  <2> QED
    BY <1>7, <2>1, CrashStamps DEF StampsBounded
<1>8. ASSUME NEW d \in Devices, NEW type \in MessageTypes, Receive(d, type)
      PROVE  StampsBounded'
  <2>1. PICK m \in net : /\ m.to = d /\ UNCHANGED <<active, edits, faults, torn>>
                         /\ ReceiveUpdate(m) \/ ReceiveMember(m) \/ ReceiveSummary(m)
    BY <1>8 DEF Receive
  <2>2. ~torn
    BY <2>1
  <2>3. Passes(d)
    BY <1>1, <2>1, UpdatePasses, MemberPasses, SummaryPasses
  <2> QED
    BY <1>3, <2>2, <2>3
<1>9. ASSUME NEW d \in Devices, WriteFails(d) PROVE StampsBounded'
  BY <1>3, <1>9, WriteFailsLeaves, WriteFailsPasses
<1> QED
  BY <1>2, <1>4, <1>5, <1>6, <1>7, <1>8, <1>9 DEF Next

\* No two edits of one device share a stamp, unless a crash or a failed write has left a
\* state on disk without its clock.
THEOREM StampsIdentify == Spec => []StampsUnique
<1>1. Init => TypeOK /\ StampsBounded
  BY InitType, InitStamps
<1>2. (TypeOK /\ StampsBounded) /\ [Next]_vars => (TypeOK /\ StampsBounded)'
  BY NextType, NextStamps
<1> QED
  BY <1>1, <1>2, BoundedUnique, PTL DEF Spec

===========================================================================
