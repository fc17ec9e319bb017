-------------------------- MODULE ViewerControllerProofs --------------------------
(***************************************************************************)
(* A viewer's controller has one session at a time but for the one that     *)
(* destroy() tears down, holds nothing when it is idle, and makes no        *)
(* session after a stop: for any number of requests, streams, sessions,     *)
(* waiting operations and changes of the channel.                           *)
(***************************************************************************)
EXTENDS ViewerController, TLAPS

SessionStates == {"joining", "connecting", "watching", "ended", "error", "closing", "closed"}
Session == [stream : 1..MaxStreams, gen : Nat, state : SessionStates, paused : BOOLEAN,
            flow : BOOLEAN]
Kinds == {"start", "recover", "auto", "toggle", "stop", "end"}
Order == [kind : Kinds, stream : 0..MaxStreams, gen : Nat]
Operation == [at : {"idle", "syncing", "cleaning", "clearing", "starting", "toggling",
                    "stopping", "ending"},
              kind : Kinds \cup {"none"}, stream : 0..MaxStreams, gen : Nat]

\* What the operations hand on: a start names a stream.
OrderTypes ==
    /\ queue \in Seq(Order) /\ op \in Operation
    /\ \A i \in 1..Len(queue) : queue[i].kind = "start" => queue[i].stream # 0
    /\ op.at = "clearing" => op.stream # 0

TargetTypes ==
    /\ phase \in Phases /\ target \in 0..MaxStreams /\ live \in 0..MaxStreams
    /\ streams \in 0..MaxStreams /\ inFlight \in BOOLEAN

\* Timers belong to generations that have begun.
GenTypes ==
    /\ gen \in Nat \ {0} /\ monitor \in 0..gen /\ timer \in 0..gen /\ deathWatch \in 0..gen
    /\ lost \subseteq 1..gen

\* Every session but the current one and the one destroy() tears down is closed, or the
\* only one that is closing.
SessionsOK ==
    /\ sessions \in Seq(Session) /\ current \in 0..Len(sessions)
    /\ \A i \in 1..Len(sessions) : sessions[i].gen \in 1..gen
    /\ \A i \in 1..Len(sessions) : i # current <=> sessions[i].state \in {"closing", "closed"}
    /\ destroying \in 0..Len(sessions)
    /\ destroying # 0 => destroyed /\ sessions[destroying].state = "closing"
    /\ OneSession

\* What is put away at the awaits of an operation.
OpOK ==
    /\ op.at = "idle" <=> op.kind = "none"
    /\ op.at = "stopping" <=> op.kind = "stop"
    /\ op.at \in {"cleaning", "clearing", "stopping", "ending"} => current = 0
    /\ op.at = "starting" => sessions # <<>>
    /\ op.at = "stopping" =>
          monitor = 0 /\ timer = 0 /\ ~inFlight /\ watching = 0 /\ deathWatch = 0

\* A controller is idle only when nothing is held, whatever is still waiting.
IdleOK ==
    phase = "idle" /\ ~destroyed =>
       /\ op.at \in {"idle", "clearing", "stopping", "ending"}
       /\ current = 0 /\ target = 0 /\ monitor = 0 /\ timer = 0 /\ ~inFlight
       /\ watching = 0 /\ deathWatch = 0
       /\ \A i \in 1..Len(sessions) : sessions[i].state = "closed"

StopAfter(i) == \E j \in 1..Len(queue) : j > i /\ queue[j].kind = "stop"

\* After a stop of the user, what would make a session has the stop behind it; and when
\* the stop is carried out nothing is left that a recovery could start.
StopOK ==
    stopped =>
       /\ \A i \in 1..Len(queue) : queue[i].kind \in {"start", "recover"} => StopAfter(i)
       /\ op.kind = "stop" \/ StopAfter(0) \/ (target = 0 /\ op.at \notin {"clearing", "starting"})

Inv == OrderTypes /\ TargetTypes /\ GenTypes /\ SessionsOK /\ OpOK /\ IdleOK /\ StopOK

-----------------------------------------------------------------------------
(* Pieces of the steps *)

Ats == {"idle", "syncing", "cleaning", "clearing", "starting", "toggling", "stopping", "ending"}

LEMMA OpGoes ==
    ASSUME NEW at \in Ats, NEW kind \in Kinds, NEW k \in 0..MaxStreams, Go(at, kind, k)
    PROVE  op' \in Operation /\ op'.at = at /\ op'.kind = kind /\ op'.stream = k
BY DEF Go, Operation, Ats

LEMMA OpMoves ==
    ASSUME op \in Operation, NEW at \in Ats, op' = [op EXCEPT !.at = at]
    PROVE  op' \in Operation /\ op'.at = at /\ op'.kind = op.kind /\ op'.stream = op.stream
BY DEF Operation, Ats

LEMMA OpEnds ==
    ASSUME op' = Idle, 0 \in 0..MaxStreams
    PROVE  op' \in Operation /\ op'.at = "idle" /\ op'.kind = "none"
BY DEF Idle, Operation

LEMMA ZeroStream == 0 \in 0..MaxStreams
BY ControllerAssumption

\* An operation is put at the end of the queue.
Longer(o) ==
    /\ queue' \in Seq(Order) /\ Len(queue') = Len(queue) + 1 /\ Len(queue) \in Nat
    /\ \A i \in 1..Len(queue) : queue'[i] = queue[i]
    /\ queue'[Len(queue) + 1] = o

LEMMA QueueGrows ==
    ASSUME queue \in Seq(Order), NEW kind \in Kinds, NEW k \in 0..MaxStreams, NEW g \in Nat,
           Enqueue(Op(kind, k, g))
    PROVE  /\ Longer(Op(kind, k, g)) /\ Op(kind, k, g).kind = kind /\ Op(kind, k, g).stream = k
<1>1. /\ Op(kind, k, g) \in Order /\ Op(kind, k, g).kind = kind /\ Op(kind, k, g).stream = k
  BY DEF Op, Order
<1> DEFINE o == Op(kind, k, g)
<1>2. queue' = Append(queue, o) /\ o \in Order
  BY <1>1 DEF Enqueue
<1> HIDE DEF o
<1>3. Longer(o)
  BY <1>2 DEF Longer
<1> QED
  BY <1>1, <1>3 DEF o

\* The first operation is taken off the queue.
Shorter ==
    /\ queue' \in Seq(Order) /\ Len(queue) \in Nat \ {0} /\ Len(queue') = Len(queue) - 1
    /\ \A i \in 1..Len(queue') : queue'[i] = queue[i + 1]

LEMMA QueueShrinks ==
    ASSUME queue \in Seq(Order), NEW kind, Begin(kind)
    PROVE  Shorter /\ queue[1].kind = kind /\ Head(queue) = queue[1] /\ queue[1] \in Order
<1>1. queue # <<>> /\ queue' = Tail(queue) /\ Head(queue).kind = kind
  BY DEF Begin
<1> QED
  BY <1>1 DEF Shorter

\* What is waiting stays well formed.
LEMMA OrdersKept ==
    ASSUME OrderTypes, op' \in Operation, op'.at = "clearing" => op'.stream # 0,
           queue' = queue \/ Shorter
    PROVE  OrderTypes'
<1>1. queue' \in Seq(Order) /\ Len(queue) \in Nat
  BY DEF OrderTypes, Shorter
<1>2. \A i \in 1..Len(queue') : queue'[i].kind = "start" => queue'[i].stream # 0
  BY <1>1 DEF OrderTypes, Shorter
<1> QED
  BY <1>1, <1>2 DEF OrderTypes

LEMMA OrdersGrow ==
    ASSUME OrderTypes, op' = op, NEW o, Longer(o), o.kind = "start" => o.stream # 0
    PROVE  OrderTypes'
<1>1. \A i \in 1..Len(queue') : queue'[i].kind = "start" => queue'[i].stream # 0
  BY DEF OrderTypes, Longer
<1> QED
  BY <1>1 DEF OrderTypes, Longer

\* A stop that is waiting still waits; what is added, unless it makes a session, needs no
\* stop behind it.
LEMMA StopGrows ==
    ASSUME StopOK, UNCHANGED <<op, target, stopped>>, NEW o, Longer(o),
           o.kind \notin {"start", "recover"}
    PROVE  StopOK'
<1> SUFFICES ASSUME stopped
             PROVE  /\ \A i \in 1..Len(queue') : queue'[i].kind \in {"start", "recover"} =>
                         StopAfter(i)'
                    /\ op.kind = "stop" \/ StopAfter(0)'
                         \/ (target = 0 /\ op.at \notin {"clearing", "starting"})
  BY DEF StopOK
<1>1. \A i \in Nat : StopAfter(i) => StopAfter(i)'
  BY DEF StopAfter, Longer
<1>2. \A i \in 1..Len(queue') : queue'[i].kind \in {"start", "recover"} => StopAfter(i)'
  BY <1>1 DEF StopOK, Longer
<1> QED
  BY <1>1, <1>2 DEF StopOK

LEMMA StopTaken ==
    ASSUME StopOK, stopped, Shorter
    PROVE  /\ \A i \in 1..Len(queue') : queue'[i].kind \in {"start", "recover"} => StopAfter(i)'
           /\ queue[1].kind \in {"start", "recover"} => StopAfter(0)'
           /\ StopAfter(0) /\ queue[1].kind # "stop" => StopAfter(0)'
<1>1. \A i \in 0..Len(queue') : StopAfter(i + 1) => StopAfter(i)'
  <2> SUFFICES ASSUME NEW i \in 0..Len(queue'), StopAfter(i + 1) PROVE StopAfter(i)'
    OBVIOUS
  <2>1. PICK j \in 1..Len(queue) : j > i + 1 /\ queue[j].kind = "stop"
    BY DEF StopAfter
  <2>2. j - 1 \in 1..Len(queue') /\ j - 1 > i /\ queue'[j - 1] = queue[j]
    BY <2>1 DEF Shorter
  <2> QED
    BY <2>1, <2>2 DEF StopAfter
<1>2. \A i \in 1..Len(queue') : queue'[i].kind \in {"start", "recover"} => StopAfter(i)'
  BY <1>1 DEF StopOK, Shorter
<1>3. queue[1].kind \in {"start", "recover"} => StopAfter(0)'
  BY <1>1 DEF StopOK, Shorter
<1>4. StopAfter(0) /\ queue[1].kind # "stop" => StopAfter(1)
  BY DEF StopAfter, Shorter
<1> QED
  BY <1>1, <1>2, <1>3, <1>4 DEF Shorter

\* An operation begins: a stop, or one whose stop is still to come, or one that finds
\* nothing to watch.
LEMMA StopShrinks ==
    ASSUME StopOK, Shorter, target' = target, stopped' = stopped, op.kind = "none",
           \/ queue[1].kind = "stop" /\ op'.kind = "stop"
           \/ queue[1].kind \in {"start", "recover"}
           \/ queue[1].kind # "stop" /\ op'.at \notin {"clearing", "starting"}
    PROVE  StopOK'
<1> SUFFICES ASSUME stopped
             PROVE  /\ \A i \in 1..Len(queue') : queue'[i].kind \in {"start", "recover"} =>
                         StopAfter(i)'
                    /\ op'.kind = "stop" \/ StopAfter(0)'
                         \/ (target = 0 /\ op'.at \notin {"clearing", "starting"})
  BY DEF StopOK
<1>1. CASE op'.kind = "stop" \/ StopAfter(0)'
  BY <1>1, StopTaken
<1>2. CASE queue[1].kind # "stop" /\ op'.at \notin {"clearing", "starting"} /\ ~StopAfter(0)'
  BY <1>2, StopTaken DEF StopOK
<1> QED
  BY <1>1, <1>2, StopTaken

LEMMA StopSame == StopOK /\ UNCHANGED <<queue, op, target, stopped>> => StopOK'
BY DEF StopOK, StopAfter

\* The running operation goes on, with what it had to have behind it.
LEMMA StopStill ==
    ASSUME StopOK, UNCHANGED <<queue, stopped>>,
           op.kind = "stop" =>
              op'.kind = "stop" \/ (target' = 0 /\ op'.at \notin {"clearing", "starting"}),
           target = 0 /\ op.at \notin {"clearing", "starting"} =>
              target' = 0 /\ op'.at \notin {"clearing", "starting"}
    PROVE  StopOK'
BY DEF StopOK, StopAfter

\* A session is told to go: none is current any more.
LEMMA Destroys ==
    ASSUME Inv, DestroySession, gen' \in Nat, gen <= gen',
           \/ UNCHANGED <<destroyed, destroying>>
           \/ ~destroyed /\ destroyed' /\ destroying' = current
    PROVE  SessionsOK' /\ current' = 0 /\ Len(sessions') = Len(sessions)
           /\ (current = 0 => sessions' = sessions)
<1> USE DEF Inv
<1>1. /\ sessions \in Seq(Session) /\ Len(sessions) \in Nat /\ gen \in Nat
      /\ \A i \in 1..Len(sessions) : sessions[i] \in Session
  BY DEF SessionsOK, GenTypes
<1>2. current' = 0
  BY DEF DestroySession
<1>3. CASE current = 0
  <2>1. sessions' = sessions
    BY <1>3 DEF DestroySession
  <2> QED
    BY <1>1, <1>2, <1>3, <2>1 DEF SessionsOK, OneSession
<1>4. CASE current # 0
  <2> DEFINE r == [Current EXCEPT !.state = "closing", !.paused = FALSE, !.flow = FALSE]
  <2>1. current \in 1..Len(sessions) /\ Current \in Session
    BY <1>1, <1>4 DEF SessionsOK, Current
  <2>2. r \in Session /\ r.state = "closing" /\ r.gen = Current.gen
    BY <2>1 DEF Session, SessionStates
  <2>3. sessions' = [sessions EXCEPT ![current] = r]
    BY <1>4 DEF DestroySession, Current
  <2> HIDE DEF r
  <2>4. /\ sessions' \in Seq(Session) /\ Len(sessions') = Len(sessions) /\ sessions'[current] = r
        /\ \A i \in 1..Len(sessions) : i # current => sessions'[i] = sessions[i]
    BY <1>1, <2>1, <2>2, <2>3
  <2>5. \A i \in 1..Len(sessions') : sessions'[i].gen \in 1..gen'
    BY <1>1, <2>2, <2>4 DEF SessionsOK, Current
  <2>6. \A i \in 1..Len(sessions') : sessions'[i].state \in {"closing", "closed"} /\ i # current'
    BY <1>2, <2>2, <2>4 DEF SessionsOK
  <2>7. Current.state \notin {"closing", "closed"} /\ destroying # current
    BY <1>4, <2>1 DEF SessionsOK, Current
  <2>8. \A i \in 1..Len(sessions) :
          i # current /\ i # destroying => sessions'[i].state = "closed"
    BY <2>1, <2>4, <2>7 DEF SessionsOK, OneSession, Current
  <2>9. OneSession'
    BY <2>4, <2>8 DEF OneSession, SessionsOK
  <2>10. /\ destroying' \in 0..Len(sessions)
         /\ destroying' # 0 => destroyed' /\ sessions'[destroying'].state = "closing"
    BY <2>1, <2>2, <2>4, <2>7 DEF SessionsOK
  <2> QED
    BY <1>2, <1>4, <2>4, <2>5, <2>6, <2>9, <2>10 DEF SessionsOK
<1> QED
  BY <1>3, <1>4

\* The teardowns that were waited for are over.
LEMMA Closes ==
    ASSUME Inv, current = 0
    PROVE  /\ Closed \in Seq(Session) /\ Len(Closed) = Len(sessions) /\ Len(sessions) \in Nat
           /\ \A i \in 1..Len(sessions) :
                /\ Closed[i].state = IF i = destroying THEN "closing" ELSE "closed"
                /\ Closed[i].gen \in 1..gen
<1> USE DEF Inv
<1> DEFINE c(i) == [sessions[i] EXCEPT !.state = IF @ = "closing" /\ i # destroying
                                                 THEN "closed" ELSE @]
<1>1. Len(sessions) \in Nat /\ \A i \in 1..Len(sessions) : sessions[i] \in Session
  BY DEF SessionsOK
<1>2. ASSUME NEW i \in 1..Len(sessions)
      PROVE  /\ c(i) \in Session /\ c(i).gen \in 1..gen
             /\ c(i).state = IF i = destroying THEN "closing" ELSE "closed"
  <2>1. /\ sessions[i] \in Session /\ sessions[i].state \in {"closing", "closed"}
        /\ sessions[i].gen \in 1..gen /\ (i = destroying => sessions[i].state = "closing")
    BY <1>1, <1>2 DEF SessionsOK
  <2> QED
    BY <2>1 DEF Session, SessionStates
<1>3. Closed = [i \in 1..Len(sessions) |-> c(i)]
  BY DEF Closed
<1> HIDE DEF c
<1> QED
  BY <1>1, <1>2, <1>3

LEMMA AllClosed ==
    ASSUME Inv, current = 0, current' = 0, sessions' = Closed, gen' \in Nat, gen <= gen',
           UNCHANGED <<destroyed, destroying>>
    PROVE  SessionsOK' /\ Len(sessions') = Len(sessions)
           /\ (~destroyed' => \A i \in 1..Len(sessions') : sessions'[i].state = "closed")
<1> USE DEF Inv
<1>1. /\ sessions' \in Seq(Session) /\ Len(sessions') = Len(sessions) /\ Len(sessions) \in Nat
      /\ \A i \in 1..Len(sessions) :
           /\ sessions'[i].state = IF i = destroying THEN "closing" ELSE "closed"
           /\ sessions'[i].gen \in 1..gen
  BY Closes
<1>2. gen \in Nat
  BY DEF GenTypes
<1>3. /\ destroying' \in 0..Len(sessions')
      /\ destroying' # 0 => destroyed' /\ sessions'[destroying'].state = "closing"
  BY <1>1 DEF SessionsOK
<1>4. OneSession'
  BY <1>1 DEF OneSession
<1> QED
  BY <1>1, <1>2, <1>3, <1>4 DEF SessionsOK

\* The current session changes, and stays the current one.
LEMMA SessionChanges ==
    ASSUME Inv, current # 0, UNCHANGED <<current, gen, destroyed, destroying>>, NEW r \in Session,
           r.gen = Current.gen, r.state \notin {"closing", "closed"},
           sessions' = [sessions EXCEPT ![current] = r]
    PROVE  SessionsOK' /\ Len(sessions') = Len(sessions)
<1> USE DEF Inv
<1>1. /\ sessions \in Seq(Session) /\ Len(sessions) \in Nat /\ current \in 1..Len(sessions)
  BY DEF SessionsOK
<1>2. /\ sessions' \in Seq(Session) /\ Len(sessions') = Len(sessions) /\ sessions'[current] = r
      /\ \A i \in 1..Len(sessions) : i # current => sessions'[i] = sessions[i]
  BY <1>1
<1>3. \A i \in 1..Len(sessions) :
        /\ sessions'[i].gen \in 1..gen
        /\ i # current <=> sessions'[i].state \in {"closing", "closed"}
        /\ sessions[i].state \in {"closing", "closed"} => sessions'[i] = sessions[i]
  BY <1>1, <1>2 DEF SessionsOK, Current
<1>4. OneSession'
  BY <1>2, <1>3 DEF SessionsOK, OneSession
<1>5. destroying # 0 => sessions'[destroying].state = "closing"
  BY <1>3 DEF SessionsOK
<1> QED
  BY <1>1, <1>2, <1>3, <1>4, <1>5 DEF SessionsOK

LEMMA SessionsSame ==
    ASSUME Inv, UNCHANGED <<session, destroyed, destroying>>, gen' \in Nat, gen <= gen'
    PROVE  SessionsOK'
BY DEF Inv, SessionsOK, GenTypes, session, OneSession

LEMMA CurrentIn ==
    ASSUME Inv, current # 0
    PROVE  /\ current \in 1..Len(sessions) /\ Current \in Session /\ sessions[current] = Current
           /\ Current.state \notin {"closing", "closed"}
<1>1. current \in 1..Len(sessions)
  BY DEF Inv, SessionsOK
<1> QED
  BY <1>1 DEF Inv, SessionsOK, Current

LEMMA PhaseAfter == ASSUME NEW p PROVE PhaseAfterDestroy(p) \in {p, "ended"}
BY DEF PhaseAfterDestroy

-----------------------------------------------------------------------------
(* Requests *)

LEMMA RequestStartStep == ASSUME Inv, RequestStart PROVE Inv'
<1> USE DEF Inv
<1>1. /\ Longer(Op("start", live, 0)) /\ Op("start", live, 0).kind = "start"
      /\ Op("start", live, 0).stream = live
  BY QueueGrows, ZeroStream DEF RequestStart, OrderTypes, TargetTypes, Kinds
<1>2. OrderTypes'
  BY <1>1, OrdersGrow DEF RequestStart
<1>3. TargetTypes'
  BY <1>1 DEF RequestStart, Request, TargetTypes, health, world
<1>4. GenTypes'
  BY <1>1 DEF RequestStart, Request, GenTypes, health, detectors
<1>5. SessionsOK'
  BY <1>1, SessionsSame DEF RequestStart, Request, SessionsOK, session, GenTypes, user
<1>6. OpOK'
  BY <1>1 DEF RequestStart, Request, OpOK, session, health, detectors
<1>7. IdleOK'
  BY <1>1 DEF RequestStart, Request, IdleOK, session, health, detectors
<1>8. StopOK'
  BY <1>1 DEF RequestStart, Request, StopOK
<1> QED
  BY <1>2, <1>3, <1>4, <1>5, <1>6, <1>7, <1>8 DEF Inv

LEMMA RequestRecoverStep == ASSUME Inv, RequestRecover PROVE Inv'
<1> USE DEF Inv
<1>1. /\ Longer(Op("recover", 0, 0)) /\ Op("recover", 0, 0).kind = "recover"
      /\ Op("recover", 0, 0).stream = 0
  BY QueueGrows, ZeroStream DEF RequestRecover, OrderTypes, TargetTypes, Kinds
<1>2. OrderTypes'
  BY <1>1, OrdersGrow DEF RequestRecover
<1>3. TargetTypes'
  BY <1>1 DEF RequestRecover, Request, TargetTypes, health, world
<1>4. GenTypes'
  BY <1>1 DEF RequestRecover, Request, GenTypes, health, detectors
<1>5. SessionsOK'
  BY <1>1, SessionsSame DEF RequestRecover, Request, SessionsOK, session, GenTypes, user
<1>6. OpOK'
  BY <1>1 DEF RequestRecover, Request, OpOK, session, health, detectors
<1>7. IdleOK'
  BY <1>1 DEF RequestRecover, Request, IdleOK, session, health, detectors
<1>8. StopOK'
  BY <1>1 DEF RequestRecover, Request, StopOK
<1> QED
  BY <1>2, <1>3, <1>4, <1>5, <1>6, <1>7, <1>8 DEF Inv

LEMMA RequestToggleStep == ASSUME Inv, RequestToggle PROVE Inv'
<1> USE DEF Inv
<1>1. /\ Longer(Op("toggle", 0, 0)) /\ Op("toggle", 0, 0).kind = "toggle"
      /\ Op("toggle", 0, 0).stream = 0
  BY QueueGrows, ZeroStream DEF RequestToggle, OrderTypes, TargetTypes, Kinds
<1>2. OrderTypes'
  BY <1>1, OrdersGrow DEF RequestToggle
<1>3. TargetTypes'
  BY <1>1 DEF RequestToggle, Request, TargetTypes, health, world
<1>4. GenTypes'
  BY <1>1 DEF RequestToggle, Request, GenTypes, health, detectors
<1>5. SessionsOK'
  BY <1>1, SessionsSame DEF RequestToggle, Request, SessionsOK, session, GenTypes, user
<1>6. OpOK'
  BY <1>1 DEF RequestToggle, Request, OpOK, session, health, detectors
<1>7. IdleOK'
  BY <1>1 DEF RequestToggle, Request, IdleOK, session, health, detectors
<1>8. StopOK'
  BY <1>1, StopGrows DEF RequestToggle
<1> QED
  BY <1>2, <1>3, <1>4, <1>5, <1>6, <1>7, <1>8 DEF Inv

LEMMA RequestStopStep == ASSUME Inv, RequestStop PROVE Inv'
<1> USE DEF Inv
<1>1. /\ Longer(Op("stop", 0, 0)) /\ Op("stop", 0, 0).kind = "stop"
      /\ Op("stop", 0, 0).stream = 0
  BY QueueGrows, ZeroStream DEF RequestStop, OrderTypes, TargetTypes, Kinds
<1>2. OrderTypes'
  BY <1>1, OrdersGrow DEF RequestStop
<1>3. TargetTypes'
  BY <1>1 DEF RequestStop, Request, TargetTypes, health, world
<1>4. GenTypes'
  BY <1>1 DEF RequestStop, Request, GenTypes, health, detectors
<1>5. SessionsOK'
  BY <1>1, SessionsSame DEF RequestStop, Request, SessionsOK, session, GenTypes, user
<1>6. OpOK'
  BY <1>1 DEF RequestStop, Request, OpOK, session, health, detectors
<1>7. IdleOK'
  BY <1>1 DEF RequestStop, Request, IdleOK, session, health, detectors
<1>8. StopOK'
  <2> SUFFICES ASSUME stopped'
               PROVE  /\ \A i \in 1..Len(queue') : queue'[i].kind \in {"start", "recover"} =>
                           StopAfter(i)'
                      /\ StopAfter(0)'
    BY DEF StopOK
  <2>1. queue'[Len(queue) + 1].kind = "stop" /\ Len(queue') = Len(queue) + 1 /\ Len(queue) \in Nat
    BY <1>1 DEF Longer
  <2>2. \A i \in 0..Len(queue) : StopAfter(i)'
    BY <2>1 DEF StopAfter
  <2> QED
    BY <2>1, <2>2
<1> QED
  BY <1>2, <1>3, <1>4, <1>5, <1>6, <1>7, <1>8 DEF Inv

-----------------------------------------------------------------------------
(* Operations *)

LEMMA BeginStartStep == ASSUME Inv, BeginStart PROVE Inv'
<1> USE DEF Inv
<1>1. /\ Shorter /\ queue[1].kind = "start" /\ Head(queue) = queue[1] /\ queue[1] \in Order
      /\ op.at = "idle" /\ op.kind = "none"
  BY QueueShrinks DEF BeginStart, Begin, OrderTypes, OpOK
<1>2. queue[1].stream \in 0..MaxStreams /\ queue[1].stream # 0
  BY <1>1 DEF Order, OrderTypes, Shorter
<1>3. op' \in Operation /\ op'.at = "clearing" /\ op'.kind = "start" /\ op'.stream # 0
  BY <1>1, <1>2, OpGoes DEF BeginStart, EnterStart, Ats, Kinds
<1>4. gen' = gen + 1 /\ gen \in Nat /\ SessionsOK' /\ current' = 0 /\
      (current = 0 => sessions' = sessions)
  BY Destroys DEF BeginStart, EnterStart, GenTypes, user
<1>5. OrderTypes'
  BY <1>1, <1>2, <1>3, <1>4, OrdersKept DEF OrderTypes
<1>6. TargetTypes'
  BY <1>1, <1>2, <1>3, <1>4 DEF BeginStart, EnterStart, StopMonitor, TargetTypes, world
<1>7. GenTypes'
  BY <1>1, <1>2, <1>3, <1>4 DEF BeginStart, EnterStart, StopMonitor, GenTypes, DestroySession
<1>8. SessionsOK'
  BY <1>4
<1>9. OpOK'
  BY <1>1, <1>2, <1>3, <1>4 DEF BeginStart, EnterStart, StopMonitor, OpOK, DestroySession
<1>10. IdleOK'
  BY <1>1, <1>2, <1>3, <1>4 DEF BeginStart, EnterStart, StopMonitor, IdleOK, DestroySession, user
<1>11. StopOK'
  BY <1>1, <1>2, <1>3, <1>4, StopShrinks DEF BeginStart, user
<1> QED
  BY <1>5, <1>6, <1>7, <1>8, <1>9, <1>10, <1>11 DEF Inv

LEMMA BeginRecoverStep == ASSUME Inv, BeginRecover PROVE Inv'
<1> USE DEF Inv
<1>1. /\ Shorter /\ queue[1].kind = "recover" /\ Head(queue) = queue[1] /\ queue[1] \in Order
      /\ op.at = "idle" /\ op.kind = "none"
  BY QueueShrinks DEF BeginRecover, Begin, OrderTypes, OpOK
<1>2. op' \in Operation /\ op'.at = "syncing" /\ op'.kind = "recover"
  BY OpGoes, ZeroStream DEF BeginRecover, Ats, Kinds
<1>3. OrderTypes'
  BY <1>1, <1>2, OrdersKept DEF OrderTypes
<1>4. TargetTypes'
  BY <1>1, <1>2 DEF BeginRecover, TargetTypes, health, world, Phases
<1>5. GenTypes'
  BY <1>1, <1>2 DEF BeginRecover, GenTypes, health, detectors
<1>6. SessionsOK'
  BY <1>1, <1>2, SessionsSame DEF BeginRecover, SessionsOK, session, GenTypes, user
<1>7. OpOK'
  BY <1>1, <1>2 DEF BeginRecover, OpOK, session, health, detectors
<1>8. IdleOK'
  BY DEF BeginRecover, IdleOK
<1>9. StopOK'
  BY <1>1, <1>2, StopShrinks DEF BeginRecover, user
<1> QED
  BY <1>3, <1>4, <1>5, <1>6, <1>7, <1>8, <1>9 DEF Inv

LEMMA BeginAutoStep == ASSUME Inv, BeginAuto PROVE Inv'
<1> USE DEF Inv
<1>1. /\ Shorter /\ queue[1].kind = "auto" /\ Head(queue) = queue[1] /\ queue[1] \in Order
      /\ op.at = "idle" /\ op.kind = "none"
  BY QueueShrinks DEF BeginAuto, Begin, OrderTypes, OpOK
<1>2. \/ op' \in Operation /\ op'.at = "syncing" /\ op'.kind = "auto" /\
           phase' = "reconnecting" /\ inFlight' = inFlight
      \/ op' = op /\ phase' = phase /\ inFlight' = FALSE
  BY OpGoes, ZeroStream DEF BeginAuto, Ats, Kinds
<1>3. op' \in Operation /\ op'.at \in {"idle", "syncing"}
  BY <1>1, <1>2 DEF OrderTypes
<1>4. OrderTypes'
  BY <1>1, <1>2, <1>3, OrdersKept DEF OrderTypes
<1>5. TargetTypes'
  BY <1>2 DEF BeginAuto, TargetTypes, world, Phases
<1>6. GenTypes'
  BY <1>1, <1>2, <1>3 DEF BeginAuto, GenTypes, detectors
<1>7. SessionsOK'
  BY <1>1, <1>2, <1>3, SessionsSame DEF BeginAuto, SessionsOK, session, GenTypes, user
<1>8. OpOK'
  BY <1>1, <1>2, <1>3 DEF BeginAuto, OpOK, session, detectors
<1>9. IdleOK'
  BY <1>1, <1>2, <1>3 DEF BeginAuto, IdleOK, session, detectors, user
<1>10. StopOK'
  BY <1>1, <1>2, <1>3, StopShrinks DEF BeginAuto, user
<1> QED
  BY <1>4, <1>5, <1>6, <1>7, <1>8, <1>9, <1>10 DEF Inv

LEMMA BeginToggleStep == ASSUME Inv, BeginToggle PROVE Inv'
<1> USE DEF Inv
<1>1. /\ Shorter /\ queue[1].kind = "toggle" /\ Head(queue) = queue[1] /\ queue[1] \in Order
      /\ op.at = "idle" /\ op.kind = "none"
  BY QueueShrinks DEF BeginToggle, Begin, OrderTypes, OpOK
<1>2. \/ op' \in Operation /\ op'.at = "toggling" /\ op'.kind = "toggle" /\ current # 0
      \/ op' = op
  BY OpGoes, ZeroStream DEF BeginToggle, Ats, Kinds
<1>3. op' \in Operation /\ op'.at \in {"idle", "toggling"}
  BY <1>1, <1>2 DEF OrderTypes
<1>4. OrderTypes'
  BY <1>1, <1>2, <1>3, OrdersKept DEF OrderTypes
<1>5. TargetTypes'
  BY <1>1, <1>2, <1>3 DEF BeginToggle, TargetTypes, world
<1>6. GenTypes'
  BY <1>1, <1>2, <1>3 DEF BeginToggle, GenTypes, detectors
<1>7. SessionsOK'
  BY <1>1, <1>2, <1>3, SessionsSame DEF BeginToggle, SessionsOK, session, GenTypes, user
<1>8. OpOK'
  BY <1>1, <1>2, <1>3 DEF BeginToggle, OpOK, session, detectors
<1>9. IdleOK'
  BY <1>1, <1>2, <1>3 DEF BeginToggle, IdleOK, session, detectors, user
<1>10. StopOK'
  BY <1>1, <1>2, <1>3, StopShrinks DEF BeginToggle, user
<1> QED
  BY <1>4, <1>5, <1>6, <1>7, <1>8, <1>9, <1>10 DEF Inv

LEMMA BeginStopStep == ASSUME Inv, BeginStop PROVE Inv'
<1> USE DEF Inv
<1>1. /\ Shorter /\ queue[1].kind = "stop" /\ Head(queue) = queue[1] /\ queue[1] \in Order
      /\ op.at = "idle" /\ op.kind = "none"
  BY QueueShrinks DEF BeginStop, Begin, OrderTypes, OpOK
<1>2. op' \in Operation /\ op'.at = "stopping" /\ op'.kind = "stop"
  BY OpGoes, ZeroStream DEF BeginStop, Ats, Kinds
<1>3. SessionsOK' /\ current' = 0 /\ (current = 0 => sessions' = sessions)
  BY Destroys DEF BeginStop, GenTypes, user
<1>4. phase' \in {phase, "ended"} /\ (phase' = "ended" \/ phase' = phase)
  BY PhaseAfter DEF BeginStop
<1>5. OrderTypes'
  BY <1>1, <1>2, <1>3, <1>4, OrdersKept DEF OrderTypes
<1>6. TargetTypes'
  BY <1>1, <1>2, <1>3, <1>4 DEF BeginStop, StopMonitor, TargetTypes, world, Phases
<1>7. GenTypes'
  BY <1>1, <1>2, <1>3, <1>4 DEF BeginStop, StopMonitor, GenTypes, DestroySession
<1>8. SessionsOK'
  BY <1>3
<1>9. OpOK'
  BY <1>1, <1>2, <1>3, <1>4 DEF BeginStop, StopMonitor, OpOK, DestroySession
<1>10. IdleOK'
  BY <1>1, <1>2, <1>3, <1>4 DEF BeginStop, StopMonitor, IdleOK, DestroySession, user
<1>11. StopOK'
  BY <1>1, <1>2, <1>3, <1>4, StopShrinks DEF BeginStop, user
<1> QED
  BY <1>5, <1>6, <1>7, <1>8, <1>9, <1>10, <1>11 DEF Inv

LEMMA BeginEndStep == ASSUME Inv, BeginEnd PROVE Inv'
<1> USE DEF Inv
<1>1. /\ Shorter /\ queue[1].kind = "end" /\ Head(queue) = queue[1] /\ queue[1] \in Order
      /\ op.at = "idle" /\ op.kind = "none"
  BY QueueShrinks DEF BeginEnd, Begin, OrderTypes, OpOK
<1>2. op' \in Operation /\ op'.at = "ending" /\ op'.kind = "end"
  BY OpGoes, ZeroStream DEF BeginEnd, Ats, Kinds
<1>3. SessionsOK' /\ current' = 0 /\ (current = 0 => sessions' = sessions)
  BY Destroys DEF BeginEnd, GenTypes, user
<1>4. phase' \in {phase, "ended"} /\ (phase' = "ended" \/ phase' = phase)
  BY PhaseAfter DEF BeginEnd
<1>5. OrderTypes'
  BY <1>1, <1>2, <1>3, <1>4, OrdersKept DEF OrderTypes
<1>6. TargetTypes'
  BY <1>1, <1>2, <1>3, <1>4 DEF BeginEnd, TargetTypes, health, world, Phases
<1>7. GenTypes'
  BY <1>1, <1>2, <1>3, <1>4 DEF BeginEnd, GenTypes, DestroySession, health
<1>8. SessionsOK'
  BY <1>3
<1>9. OpOK'
  BY <1>1, <1>2, <1>3, <1>4 DEF BeginEnd, OpOK, DestroySession, health
<1>10. IdleOK'
  BY <1>1, <1>2, <1>3, <1>4 DEF BeginEnd, IdleOK, DestroySession, user, health
<1>11. StopOK'
  BY <1>1, <1>2, <1>3, <1>4, StopShrinks DEF BeginEnd, user
<1> QED
  BY <1>5, <1>6, <1>7, <1>8, <1>9, <1>10, <1>11 DEF Inv

LEMMA SyncDoneStep == ASSUME Inv, SyncDone PROVE Inv'
<1> USE DEF Inv
<1>1. /\ op' \in Operation /\ op'.at = "cleaning" /\ op'.kind = op.kind /\ op'.stream = op.stream
  BY OpMoves DEF SyncDone, Ats, OrderTypes
<1>2. SessionsOK' /\ current' = 0 /\ (current = 0 => sessions' = sessions)
  BY Destroys DEF SyncDone, GenTypes, user
<1>3. phase' \in {phase, "ended"} /\ (phase' = "ended" \/ phase' = phase)
  BY PhaseAfter DEF SyncDone
<1>4. target' \in 0..MaxStreams /\ (target = 0 => target' = 0)
  BY DEF SyncDone, TargetTypes
<1>5. OrderTypes'
  BY <1>1, OrdersKept DEF SyncDone
<1>6. TargetTypes'
  BY <1>1, <1>2, <1>3, <1>4 DEF SyncDone, TargetTypes, health, world, Phases
<1>7. GenTypes'
  BY <1>1, <1>2, <1>3, <1>4 DEF SyncDone, GenTypes, DestroySession, health
<1>8. SessionsOK'
  BY <1>2
<1>9. OpOK'
  BY <1>1, <1>2, <1>3, <1>4 DEF SyncDone, OpOK, DestroySession, health
<1>10. IdleOK'
  BY <1>1, <1>2, <1>3, <1>4 DEF SyncDone, IdleOK, user
<1>11. StopOK'
  BY <1>1, <1>2, <1>3, <1>4, StopStill DEF SyncDone, OpOK, user
<1> QED
  BY <1>5, <1>6, <1>7, <1>8, <1>9, <1>10, <1>11 DEF Inv

LEMMA CleanDoneStep == ASSUME Inv, CleanDone PROVE Inv'
<1> USE DEF Inv
<1>1. op.at = "cleaning" /\ op.kind \in Kinds /\ op.kind # "stop" /\ current = 0 /\ current' = 0
  BY DEF CleanDone, OpOK, OrderTypes, Operation
<1>2. /\ SessionsOK' /\ (~destroyed' => \A i \in 1..Len(sessions') : sessions'[i].state = "closed")
  BY <1>1, AllClosed DEF CleanDone, GenTypes, user
<1>3. \/ /\ target = 0 /\ phase' = "error" /\ op' \in Operation /\ op'.at = "idle" /\
              op'.kind = "none"
         /\ UNCHANGED <<gen, monitor, timer, deathWatch, lost>> /\ inFlight' \in BOOLEAN
      \/ /\ target # 0 /\ op' \in Operation /\ op'.at = "clearing" /\ op'.kind = op.kind
         /\ op'.stream # 0 /\ phase' = phase /\ gen' = gen + 1
         /\ monitor' = 0 /\ timer' = 0 /\ deathWatch' = 0 /\ inFlight' = FALSE /\ lost' = lost
  <2>1. CASE target = 0
    <3>1. op' \in Operation /\ op'.at = "idle" /\ op'.kind = "none"
      BY <2>1, OpEnds, ZeroStream DEF CleanDone
    <3>2. inFlight' \in BOOLEAN
      BY <2>1 DEF CleanDone
    <3> QED
      BY <2>1, <3>1, <3>2 DEF CleanDone, detectors
  <2>2. CASE target # 0
    <3>1. target \in 0..MaxStreams /\ Go("clearing", op.kind, target)
      BY <2>2 DEF CleanDone, TargetTypes
    <3>2. /\ op' \in Operation /\ op'.at = "clearing" /\ op'.kind = op.kind /\ op'.stream = target
      BY <1>1, <3>1, OpGoes DEF Ats
    <3> QED
      BY <2>2, <3>2 DEF CleanDone, StopMonitor
  <2> QED
    BY <2>1, <2>2
<1>4. OrderTypes'
  BY <1>3, OrdersKept DEF CleanDone
<1>5. TargetTypes'
  <2>1. inFlight' \in BOOLEAN /\ phase' \in Phases
    BY <1>3 DEF CleanDone, TargetTypes, Phases
  <2> QED
    BY <2>1 DEF CleanDone, TargetTypes, world
<1>6. GenTypes'
  <2>1. gen' \in {gen, gen + 1} /\ lost' = lost /\ monitor' \in {0, monitor} /\
        timer' \in {0, timer}
        /\ deathWatch' \in {0, deathWatch}
    BY <1>3
  <2>2. gen \in Nat \ {0} /\ lost' \subseteq 1..gen'
    BY <2>1 DEF GenTypes
  <2> QED
    BY <2>1, <2>2 DEF GenTypes
<1>7. SessionsOK'
  BY <1>2
<1>8. OpOK'
  BY <1>1, <1>3 DEF OpOK
<1>9. IdleOK'
  BY <1>1, <1>3 DEF IdleOK, CleanDone, user
<1>10. StopOK'
  BY <1>1, <1>3, StopStill DEF CleanDone, user
<1> QED
  BY <1>4, <1>5, <1>6, <1>7, <1>8, <1>9, <1>10 DEF Inv

LEMMA ClearDoneStep == ASSUME Inv, ClearDone PROVE Inv'
<1> USE DEF Inv
<1>1. op.at = "clearing" /\ op.stream \in 1..MaxStreams /\ current = 0
  BY DEF ClearDone, OpOK, OrderTypes, Operation
<1>2. /\ op' \in Operation /\ op'.at = "starting" /\ op'.kind = op.kind
  <2> DEFINE o == [op EXCEPT !.at = "starting"]
  <2>1. o \in Operation /\ o.at = "starting" /\ o.kind = op.kind
    BY DEF OrderTypes, Operation
  <2>2. op' = [o EXCEPT !.gen = gen]
    BY DEF ClearDone, OrderTypes, Operation
  <2> HIDE DEF o
  <2> QED
    BY <2>1, <2>2 DEF Operation, GenTypes
<1>3. /\ sessions' \in Seq(Session) /\ Len(sessions') = Len(sessions) + 1 /\ Len(sessions) \in Nat
      /\ \A i \in 1..Len(sessions) :
           /\ sessions'[i].state = IF i = destroying THEN "closing" ELSE "closed"
           /\ sessions'[i].gen \in 1..gen
      /\ sessions'[Len(sessions) + 1].state = "joining" /\ sessions'[Len(sessions) + 1].gen = gen
  <2> DEFINE n == NewSession(op.stream)
             c == Closed
  <2>1. n \in Session /\ n.state = "joining" /\ n.gen = gen
    BY <1>1 DEF NewSession, Session, SessionStates, GenTypes
  <2>2. /\ c \in Seq(Session) /\ Len(c) = Len(sessions) /\ Len(sessions) \in Nat
        /\ \A i \in 1..Len(sessions) :
             /\ c[i].state = IF i = destroying THEN "closing" ELSE "closed"
             /\ c[i].gen \in 1..gen
    BY <1>1, Closes
  <2>3. sessions' = Append(c, n)
    BY DEF ClearDone
  <2> HIDE DEF n, c
  <2> QED
    BY <2>1, <2>2, <2>3
<1>4. current' = Len(sessions) + 1 /\ gen' = gen /\ target' = op.stream /\ phase' = "connecting"
  BY DEF ClearDone
<1>5. OrderTypes'
  BY <1>2, OrdersKept DEF ClearDone
<1>6. TargetTypes'
  BY <1>1, <1>2, <1>3, <1>4 DEF ClearDone, TargetTypes, health, world, Phases
<1>7. GenTypes'
  BY <1>1, <1>2, <1>3, <1>4 DEF ClearDone, GenTypes, health, detectors
<1>8. SessionsOK'
  <2>0. UNCHANGED <<destroyed, destroying>>
    BY DEF ClearDone, user
  <2>1. OneSession'
    BY <1>3, <2>0 DEF OneSession
  <2>2. \A i \in 1..Len(sessions') : sessions'[i].gen \in 1..gen'
    BY <1>3, <1>4 DEF GenTypes
  <2>3. \A i \in 1..Len(sessions') : i # current' <=> sessions'[i].state \in {"closing", "closed"}
    BY <1>3, <1>4
  <2>4. current' \in 0..Len(sessions')
    BY <1>3, <1>4
  <2>5. /\ destroying' \in 0..Len(sessions')
        /\ destroying' # 0 => destroyed' /\ sessions'[destroying'].state = "closing"
    BY <1>3, <2>0 DEF SessionsOK
  <2> QED
    BY <1>3, <2>1, <2>2, <2>3, <2>4, <2>5 DEF SessionsOK
<1>9. OpOK'
  BY <1>1, <1>2, <1>3, <1>4 DEF ClearDone, OpOK
<1>10. IdleOK'
  BY <1>4 DEF IdleOK
<1>11. StopOK'
  BY <1>1, <1>2, <1>3, <1>4, StopStill DEF ClearDone, OpOK, user
<1> QED
  BY <1>5, <1>6, <1>7, <1>8, <1>9, <1>10, <1>11 DEF Inv

LEMMA StartDoneStep == ASSUME Inv, StartDone PROVE Inv'
<1> USE DEF Inv
<1>1. op' \in Operation /\ op'.at = "idle" /\ op'.kind = "none"
  BY OpEnds, ZeroStream DEF StartDone
<1>2. op.at = "starting" /\ op.kind # "stop" /\ inFlight' \in BOOLEAN
  BY DEF StartDone, OpOK, TargetTypes
<1>3. /\ gen' = gen /\ lost' = lost /\ monitor' \in {monitor, gen} /\ timer' \in {timer, 0}
      /\ deathWatch' \in {deathWatch, gen}
  BY DEF StartDone, StartMonitor, detectors
<1>4. OrderTypes'
  BY <1>1, OrdersKept DEF StartDone
<1>5. TargetTypes'
  BY <1>1, <1>2, <1>3 DEF StartDone, TargetTypes, world
<1>6. GenTypes'
  BY <1>3 DEF GenTypes
<1>7. SessionsOK'
  BY <1>1, <1>2, <1>3, SessionsSame DEF StartDone, SessionsOK, session, GenTypes, user
<1>8. OpOK'
  BY <1>1, <1>2, <1>3 DEF StartDone, OpOK
<1>9. IdleOK'
  BY <1>1, <1>2, <1>3 DEF StartDone, IdleOK, user
<1>10. StopOK'
  BY <1>1, <1>2, <1>3, StopStill DEF StartDone, user
<1> QED
  BY <1>4, <1>5, <1>6, <1>7, <1>8, <1>9, <1>10 DEF Inv

LEMMA ToggleDoneStep == ASSUME Inv, ToggleDone PROVE Inv'
<1> USE DEF Inv
<1>1. op' \in Operation /\ op'.at = "idle" /\ op'.kind = "none"
  BY OpEnds, ZeroStream DEF ToggleDone
<1>2. op.at = "toggling" /\ op.kind # "stop"
  BY DEF ToggleDone, OpOK
<1>3. SessionsOK'
  <2>1. CASE current = 0
    BY <2>1, SessionsSame DEF ToggleDone, session, GenTypes, user
  <2>2. CASE current # 0
    <3>1. PICK p \in BOOLEAN :
             sessions' = [sessions EXCEPT ![current].paused = p, ![current].flow = @ /\ ~p]
      BY <2>2 DEF ToggleDone
    <3> DEFINE r == [Current EXCEPT !.paused = p, !.flow = @ /\ ~p]
    <3>2. r \in Session /\ r.gen = Current.gen /\ r.state \notin {"closing", "closed"}
      BY <2>2, CurrentIn DEF Session
    <3>3. sessions' = [sessions EXCEPT ![current] = r]
      BY <2>2, <3>1, CurrentIn DEF Session, SessionsOK
    <3> HIDE DEF r
    <3> QED
      BY <2>2, <3>2, <3>3, SessionChanges DEF ToggleDone, user
  <2> QED
    BY <2>1, <2>2
<1>4. OrderTypes'
  BY <1>1, OrdersKept DEF ToggleDone
<1>5. TargetTypes'
  BY <1>1, <1>2, <1>3 DEF ToggleDone, TargetTypes, world
<1>6. GenTypes'
  BY <1>1, <1>2, <1>3 DEF ToggleDone, GenTypes, detectors
<1>7. SessionsOK'
  BY <1>3
<1>8. OpOK'
  BY <1>1, <1>2, <1>3 DEF ToggleDone, OpOK
<1>9. IdleOK'
  BY <1>1, <1>2, <1>3 DEF ToggleDone, IdleOK, user
<1>10. StopOK'
  BY <1>1, <1>2, <1>3, StopStill DEF ToggleDone, user
<1> QED
  BY <1>4, <1>5, <1>6, <1>7, <1>8, <1>9, <1>10 DEF Inv

LEMMA StopDoneStep == ASSUME Inv, StopDone PROVE Inv'
<1> USE DEF Inv
<1>1. op' \in Operation /\ op'.at = "idle" /\ op'.kind = "none"
  BY OpEnds, ZeroStream DEF StopDone
<1>2. op.at = "stopping" /\ current = 0 /\ current' = 0
  BY DEF StopDone, OpOK
<1>3. /\ SessionsOK' /\ (~destroyed' => \A i \in 1..Len(sessions') : sessions'[i].state = "closed")
  BY <1>2, AllClosed DEF StopDone, GenTypes, user
<1>4. OrderTypes'
  BY <1>1, OrdersKept DEF StopDone
<1>5. TargetTypes'
  BY <1>1, <1>2, <1>3, ZeroStream DEF StopDone, TargetTypes, health, world, Phases
<1>6. GenTypes'
  BY <1>1, <1>2, <1>3 DEF StopDone, GenTypes, health, detectors
<1>7. SessionsOK'
  BY <1>3
<1>8. OpOK'
  BY <1>1, <1>2, <1>3 DEF StopDone, OpOK
<1>9. IdleOK'
  BY <1>1, <1>2, <1>3 DEF StopDone, IdleOK, user, health, detectors, OpOK
<1>10. StopOK'
  BY <1>1, <1>2, <1>3, StopStill DEF StopDone, user
<1> QED
  BY <1>4, <1>5, <1>6, <1>7, <1>8, <1>9, <1>10 DEF Inv

LEMMA EndDoneStep == ASSUME Inv, EndDone PROVE Inv'
<1> USE DEF Inv
<1>1. op' \in Operation /\ op'.at = "idle" /\ op'.kind = "none"
  BY OpEnds, ZeroStream DEF EndDone
<1>2. op.at = "ending" /\ current = 0 /\ current' = 0 /\ op.kind # "stop"
  BY DEF EndDone, OpOK
<1>3. /\ SessionsOK' /\ (~destroyed' => \A i \in 1..Len(sessions') : sessions'[i].state = "closed")
  BY <1>2, AllClosed DEF EndDone, GenTypes, user
<1>4. OrderTypes'
  BY <1>1, OrdersKept DEF EndDone
<1>5. TargetTypes'
  BY <1>1, <1>2, <1>3, ZeroStream DEF EndDone, TargetTypes, health, world, Phases
<1>6. GenTypes'
  BY <1>1, <1>2, <1>3 DEF EndDone, GenTypes, health, detectors
<1>7. SessionsOK'
  BY <1>3
<1>8. OpOK'
  BY <1>1, <1>2, <1>3 DEF EndDone, OpOK
<1>9. IdleOK'
  BY <1>1, <1>2, <1>3 DEF EndDone, IdleOK, user, health, detectors, OpOK
<1>10. StopOK'
  BY <1>1, <1>2, <1>3, StopStill DEF EndDone, user
<1> QED
  BY <1>4, <1>5, <1>6, <1>7, <1>8, <1>9, <1>10 DEF Inv

-----------------------------------------------------------------------------
(* Reports and timers *)

LEMMA JoinedStep == ASSUME Inv, Joined PROVE Inv'
<1> USE DEF Inv
<1>1. current # 0 /\ SessionsOK'
  <2>1. current # 0
    BY DEF Joined
  <2>0. PICK st \in {"connecting", "watching", "ended", "error"} :
           /\ sessions' = [sessions EXCEPT ![current].state = st,
                               ![current].flow = st = "watching" /\ ~Current.paused]
           /\ phase' = IF Heeded(current) THEN st ELSE phase
    BY DEF Joined
  <2> DEFINE r == [Current EXCEPT !.state = st, !.flow = st = "watching" /\ ~Current.paused]
  <2>2. r \in Session /\ r.gen = Current.gen /\ r.state \notin {"closing", "closed"}
    BY <2>1, CurrentIn DEF Session, SessionStates
  <2>3. sessions' = [sessions EXCEPT ![current] = r]
    BY <2>0, <2>1, CurrentIn DEF Session, SessionsOK
  <2> HIDE DEF r
  <2> QED
    BY <2>1, <2>2, <2>3, SessionChanges DEF Joined, user
<1>2. phase' \in Phases /\ (phase' = "idle" => phase = "idle")
  BY DEF Joined, TargetTypes, Phases
<1>3. OrderTypes'
  BY OrdersKept DEF Joined, OrderTypes
<1>4. TargetTypes'
  BY <1>1, <1>2 DEF Joined, TargetTypes, health, world
<1>5. GenTypes'
  BY <1>1, <1>2 DEF Joined, GenTypes, health, detectors
<1>6. SessionsOK'
  BY <1>1
<1>7. OpOK'
  <2>1. sessions' # <<>>
    BY <1>1 DEF Joined, SessionsOK
  <2> QED
    BY <1>1, <2>1 DEF Joined, OpOK, health, detectors
<1>8. IdleOK'
  BY <1>1, <1>2 DEF Joined, IdleOK, user
<1>9. StopOK'
  BY StopSame DEF Joined, user
<1> QED
  BY <1>3, <1>4, <1>5, <1>6, <1>7, <1>8, <1>9 DEF Inv

LEMMA SessionEndsStep == ASSUME Inv, SessionEnds PROVE Inv'
<1> USE DEF Inv
<1>1. current # 0 /\ SessionsOK'
  <2>1. current # 0
    BY DEF SessionEnds
  <2> DEFINE r == [Current EXCEPT !.state = "ended", !.flow = FALSE]
  <2>2. r \in Session /\ r.gen = Current.gen /\ r.state \notin {"closing", "closed"}
    BY <2>1, CurrentIn DEF Session, SessionStates
  <2>3. sessions' = [sessions EXCEPT ![current] = r]
    BY <2>1, CurrentIn DEF SessionEnds, Session, SessionsOK
  <2> HIDE DEF r
  <2> QED
    BY <2>1, <2>2, <2>3, SessionChanges DEF SessionEnds, user
<1>2. phase' \in Phases /\ (phase' = "idle" => phase = "idle")
  BY DEF SessionEnds, TargetTypes, Phases
<1>3. OrderTypes'
  BY OrdersKept DEF SessionEnds, OrderTypes
<1>4. TargetTypes'
  BY <1>1, <1>2 DEF SessionEnds, TargetTypes, health, world
<1>5. GenTypes'
  BY <1>1, <1>2 DEF SessionEnds, GenTypes, health, detectors
<1>6. SessionsOK'
  BY <1>1
<1>7. OpOK'
  <2>1. sessions' # <<>>
    BY <1>1 DEF SessionEnds, SessionsOK
  <2> QED
    BY <1>1, <2>1 DEF SessionEnds, OpOK, health, detectors
<1>8. IdleOK'
  BY <1>1, <1>2 DEF SessionEnds, IdleOK, user
<1>9. StopOK'
  BY StopSame DEF SessionEnds, user
<1> QED
  BY <1>3, <1>4, <1>5, <1>6, <1>7, <1>8, <1>9 DEF Inv

LEMMA MediaChangesStep == ASSUME Inv, MediaChanges PROVE Inv'
<1> USE DEF Inv
<1>1. current # 0 /\ SessionsOK'
  <2>1. current # 0
    BY DEF MediaChanges
  <2> DEFINE r == [Current EXCEPT !.flow = ~@]
  <2>2. r \in Session /\ r.gen = Current.gen /\ r.state \notin {"closing", "closed"}
    BY <2>1, CurrentIn DEF Session
  <2>3. sessions' = [sessions EXCEPT ![current] = r]
    BY <2>1, CurrentIn DEF MediaChanges, Session, SessionsOK
  <2> HIDE DEF r
  <2> QED
    BY <2>1, <2>2, <2>3, SessionChanges DEF MediaChanges, control, user
<1>2. OrderTypes'
  BY OrdersKept DEF MediaChanges, OrderTypes, control
<1>3. TargetTypes'
  BY <1>1 DEF MediaChanges, TargetTypes, health, world, control
<1>4. GenTypes'
  BY <1>1 DEF MediaChanges, GenTypes, health, detectors, control
<1>5. SessionsOK'
  BY <1>1
<1>6. OpOK'
  <2>1. sessions' # <<>>
    BY <1>1 DEF MediaChanges, SessionsOK
  <2> QED
    BY <1>1, <2>1 DEF MediaChanges, OpOK, control, health, detectors
<1>7. IdleOK'
  BY <1>1 DEF MediaChanges, IdleOK, user, control
<1>8. StopOK'
  BY StopSame DEF MediaChanges, user, control
<1> QED
  BY <1>2, <1>3, <1>4, <1>5, <1>6, <1>7, <1>8 DEF Inv

LEMMA StoreLosesStreamStep == ASSUME Inv, StoreLosesStream PROVE Inv'
<1> USE DEF Inv
<1>1. /\ Longer(Op("end", 0, 0)) /\ Op("end", 0, 0).kind = "end"
      /\ Op("end", 0, 0).stream = 0
  BY QueueGrows, ZeroStream DEF StoreLosesStream, OrderTypes, TargetTypes, Kinds
<1>2. OrderTypes'
  BY <1>1, OrdersGrow DEF StoreLosesStream
<1>3. TargetTypes'
  BY <1>1 DEF StoreLosesStream, TargetTypes, world
<1>4. GenTypes'
  BY <1>1 DEF StoreLosesStream, GenTypes, detectors
<1>5. SessionsOK'
  BY <1>1, SessionsSame DEF StoreLosesStream, SessionsOK, session, GenTypes, user
<1>6. OpOK'
  BY <1>1 DEF StoreLosesStream, OpOK, session, detectors
<1>7. IdleOK'
  BY <1>1 DEF StoreLosesStream, IdleOK, session, detectors, user
<1>8. StopOK'
  BY <1>1, StopGrows DEF StoreLosesStream, user
<1> QED
  BY <1>2, <1>3, <1>4, <1>5, <1>6, <1>7, <1>8 DEF Inv

LEMMA TransportDiesStep == ASSUME Inv, TransportDies PROVE Inv'
<1> USE DEF Inv
<1>1. /\ Longer(Op("end", 0, 0)) /\ Op("end", 0, 0).kind = "end"
      /\ Op("end", 0, 0).stream = 0
  BY QueueGrows, ZeroStream DEF TransportDies, SettleEnded, OrderTypes, TargetTypes, Kinds
<1>2. OrderTypes'
  BY <1>1, OrdersGrow DEF TransportDies
<1>3. TargetTypes'
  BY <1>1 DEF TransportDies, StopMonitor, TargetTypes, world
<1>4. GenTypes'
  BY <1>1 DEF TransportDies, StopMonitor, GenTypes, detectors
<1>5. SessionsOK'
  BY <1>1, SessionsSame DEF TransportDies, StopMonitor, SessionsOK, session, GenTypes, user
<1>6. OpOK'
  BY <1>1 DEF TransportDies, StopMonitor, OpOK, session, detectors
<1>7. IdleOK'
  BY <1>1 DEF TransportDies, StopMonitor, IdleOK, session, user, detectors
<1>8. StopOK'
  BY <1>1, StopGrows DEF TransportDies, user
<1> QED
  BY <1>2, <1>3, <1>4, <1>5, <1>6, <1>7, <1>8 DEF Inv

LEMMA TickStep == ASSUME Inv, NEW late \in BOOLEAN, Tick(late) PROVE Inv'
<1> USE DEF Inv
<1>1. monitor # 0 /\ UNCHANGED <<gen, queue, op, target, session, detectors, world, user>>
  BY DEF Tick
<1>2. \/ monitor' = 0 /\ timer' = 0 /\ lost' = lost /\ inFlight' = inFlight /\ phase' = phase
      \/ /\ monitor' = monitor /\ inFlight' = TRUE /\ timer' = gen /\ phase' = "reconnecting"
         /\ lost' = lost \cup ({timer} \ {0})
      \/ UNCHANGED <<monitor, timer, lost, inFlight, phase>>
  BY DEF Tick, StopMonitor, ScheduleRecovery
<1>3. OrderTypes'
  BY <1>1, OrdersKept DEF OrderTypes
<1>4. TargetTypes'
  BY <1>1, <1>2 DEF TargetTypes, Phases, world
<1>5. GenTypes'
  <2>1. gen' = gen /\ deathWatch' = deathWatch /\ monitor' \in {0, monitor} /\
        timer' \in {0, gen, timer}
    BY <1>1, <1>2 DEF detectors
  <2>2. lost' \subseteq lost \cup ({timer} \ {0})
    BY <1>2
  <2>3. lost' \subseteq 1..gen
    BY <2>2 DEF GenTypes
  <2> QED
    BY <2>1, <2>3 DEF GenTypes
<1>6. SessionsOK'
  BY <1>1, SessionsSame DEF GenTypes, user
<1>7. OpOK'
  BY <1>1, <1>2 DEF OpOK, session, detectors
<1>8. IdleOK'
  BY <1>1, <1>2 DEF IdleOK, session, detectors, user
<1>9. StopOK'
  BY <1>1, StopSame DEF user
<1> QED
  BY <1>3, <1>4, <1>5, <1>6, <1>7, <1>8, <1>9 DEF Inv

LEMMA RecoveryDueStep == ASSUME Inv, RecoveryDue PROVE Inv'
<1> USE DEF Inv
<1>1. UNCHANGED <<gen, op, phase, target, session, supervisor, monitor, detectors, world, user>>
  BY DEF RecoveryDue
<1>2. PICK t \in (lost \cup {timer}) \ {0} :
         /\ IF t = gen THEN timer' = 0 /\ lost' = IF t = timer THEN lost ELSE lost \ {t}
            ELSE /\ timer' = IF t = timer THEN 0 ELSE timer
                 /\ lost' = lost \ {t}
         /\ CASE t # gen -> inFlight' = FALSE /\ UNCHANGED queue
              [] t = gen /\ supervisor.seen.stop -> inFlight' = FALSE /\ SettleEnded
              [] OTHER -> Enqueue(Op("auto", 0, t)) /\ UNCHANGED inFlight
  BY DEF RecoveryDue
<1>3. timer' \in {0, timer} /\ lost' \subseteq lost
  BY <1>2
<1>4. /\ inFlight' = FALSE \/ inFlight' = inFlight
      /\ \/ queue' = queue
         \/ \E o : Longer(o) /\ o.kind \in {"end", "auto"}
  <2>1. CASE t # gen
    BY <1>2, <2>1
  <2>2. CASE t = gen /\ supervisor.seen.stop
    <3>1. Longer(Op("end", 0, 0)) /\ Op("end", 0, 0).kind = "end"
      BY <1>2, <2>2, QueueGrows, ZeroStream DEF SettleEnded, OrderTypes, Kinds
    <3> QED
      BY <1>2, <2>2, <3>1
  <2>3. CASE t = gen /\ ~supervisor.seen.stop
    <3>1. Longer(Op("auto", 0, t)) /\ Op("auto", 0, t).kind = "auto"
      BY <1>2, <2>3, QueueGrows, ZeroStream DEF OrderTypes, Kinds, GenTypes
    <3> QED
      BY <1>2, <2>3, <3>1
  <2> QED
    BY <2>1, <2>2, <2>3
<1>5. OrderTypes'
  <2>1. CASE queue' = queue
    BY <1>1, <2>1, OrdersKept DEF OrderTypes
  <2>2. CASE \E o : Longer(o) /\ o.kind \in {"end", "auto"}
    BY <1>1, <2>2, OrdersGrow
  <2> QED
    BY <1>4, <2>1, <2>2
<1>6. TargetTypes'
  BY <1>1, <1>4 DEF TargetTypes, world
<1>7. GenTypes'
  BY <1>1, <1>3 DEF GenTypes, detectors
<1>8. SessionsOK'
  BY <1>1, SessionsSame DEF GenTypes, user
<1>9. OpOK'
  BY <1>1, <1>3, <1>4 DEF OpOK, session, detectors
<1>10. IdleOK'
  BY <1>1, <1>3, <1>4 DEF IdleOK, session, detectors, user
<1>11. StopOK'
  <2>1. CASE queue' = queue
    BY <1>1, <2>1, StopSame DEF user
  <2>2. CASE \E o : Longer(o) /\ o.kind \in {"end", "auto"}
    BY <1>1, <2>2, StopGrows DEF user
  <2> QED
    BY <1>4, <2>1, <2>2
<1> QED
  BY <1>5, <1>6, <1>7, <1>8, <1>9, <1>10, <1>11 DEF Inv

-----------------------------------------------------------------------------
(* The end of the controller, the host and the channel *)

LEMMA DestroyStep == ASSUME Inv, Destroy PROVE Inv'
<1> USE DEF Inv
<1>1. gen' = gen + 1 /\ gen \in Nat /\ SessionsOK' /\ current' = 0 /\ Len(sessions') = Len(sessions)
  BY Destroys DEF Destroy, GenTypes, user
<1>2. sessions # <<>> => sessions' # <<>>
  BY <1>1 DEF SessionsOK
<1>3. OrderTypes'
  BY OrdersKept DEF Destroy, OrderTypes
<1>4. TargetTypes'
  BY <1>1, <1>2, ZeroStream DEF Destroy, StopMonitor, TargetTypes, world, Phases
<1>5. GenTypes'
  BY <1>1, <1>2 DEF Destroy, StopMonitor, GenTypes, DestroySession
<1>6. SessionsOK'
  BY <1>1
<1>7. OpOK'
  BY <1>1, <1>2 DEF Destroy, StopMonitor, OpOK, DestroySession
<1>8. IdleOK'
  BY DEF Destroy, IdleOK
<1>9. StopOK'
  BY StopStill DEF Destroy
<1> QED
  BY <1>3, <1>4, <1>5, <1>6, <1>7, <1>8, <1>9 DEF Inv

LEMMA DestroyDoneStep == ASSUME Inv, DestroyDone PROVE Inv'
<1> USE DEF Inv
<1>1. /\ destroying \in 1..Len(sessions) /\ Len(sessions) \in Nat /\ destroyed
      /\ sessions[destroying].state = "closing" /\ sessions[destroying] \in Session
      /\ destroying' = 0 /\ destroyed' = destroyed /\ gen' = gen /\ current' = current
  BY DEF DestroyDone, SessionsOK
<1> DEFINE r == [sessions[destroying] EXCEPT !.state = "closed"]
<1>2. r \in Session /\ r.state = "closed" /\ r.gen = sessions[destroying].gen
  BY <1>1 DEF Session, SessionStates
<1>3. sessions' = [sessions EXCEPT ![destroying] = r]
  BY DEF DestroyDone
<1> HIDE DEF r
<1>4. /\ sessions' \in Seq(Session) /\ Len(sessions') = Len(sessions)
      /\ sessions'[destroying] = r
      /\ \A i \in 1..Len(sessions) : i # destroying => sessions'[i] = sessions[i]
  BY <1>1, <1>2, <1>3 DEF SessionsOK
<1>5. OrderTypes'
  BY OrdersKept DEF DestroyDone, OrderTypes
<1>6. TargetTypes'
  BY ZeroStream DEF DestroyDone, TargetTypes, health, world, Phases
<1>7. GenTypes'
  BY DEF DestroyDone, GenTypes, health, detectors
<1>8. SessionsOK'
  <2>1. \A i \in 1..Len(sessions') :
          /\ sessions'[i].gen \in 1..gen'
          /\ i # current' <=> sessions'[i].state \in {"closing", "closed"}
    BY <1>1, <1>2, <1>4 DEF SessionsOK
  <2>2. OneSession'
    BY <1>1, <1>2, <1>4 DEF SessionsOK, OneSession
  <2> QED
    BY <1>1, <1>4, <2>1, <2>2 DEF SessionsOK
<1>9. OpOK'
  BY <1>1, <1>4 DEF DestroyDone, OpOK, health, detectors
<1>10. IdleOK'
  BY <1>1 DEF IdleOK
<1>11. StopOK'
  BY StopStill DEF DestroyDone
<1> QED
  BY <1>5, <1>6, <1>7, <1>8, <1>9, <1>10, <1>11 DEF Inv

LEMMA HostChangesStep == ASSUME Inv, HostChanges PROVE Inv'
<1> USE DEF Inv
<1>1. OrderTypes'
  BY OrdersKept DEF HostChanges, OrderTypes, control
<1>2. TargetTypes'
  BY ZeroStream, ControllerAssumption DEF HostChanges, TargetTypes, control, health
<1>3. GenTypes'
  BY DEF HostChanges, GenTypes, control, health, detectors
<1>4. SessionsOK'
  BY SessionsSame DEF HostChanges, SessionsOK, control, session, GenTypes, user
<1>5. OpOK'
  BY DEF HostChanges, OpOK, control, session, health, detectors
<1>6. IdleOK'
  BY DEF HostChanges, IdleOK, control, session, health, detectors, user
<1>7. StopOK'
  BY StopSame DEF HostChanges, control, user
<1> QED
  BY <1>1, <1>2, <1>3, <1>4, <1>5, <1>6, <1>7 DEF Inv

LEMMA ChannelChangesStep == ASSUME Inv, ChannelChanges PROVE Inv'
<1> USE DEF Inv
<1>1. OrderTypes'
  BY OrdersKept DEF ChannelChanges, OrderTypes, control
<1>2. TargetTypes'
  BY DEF ChannelChanges, TargetTypes, control, health
<1>3. GenTypes'
  BY DEF ChannelChanges, GenTypes, control, health, detectors
<1>4. SessionsOK'
  BY SessionsSame DEF ChannelChanges, SessionsOK, control, session, GenTypes, user
<1>5. OpOK'
  BY DEF ChannelChanges, OpOK, control, session, health, detectors
<1>6. IdleOK'
  BY DEF ChannelChanges, IdleOK, control, session, health, detectors, user
<1>7. StopOK'
  BY StopSame DEF ChannelChanges, control, user
<1> QED
  BY <1>1, <1>2, <1>3, <1>4, <1>5, <1>6, <1>7 DEF Inv

LEMMA StutterStep == ASSUME Inv, UNCHANGED vars PROVE Inv'
<1> USE DEF Inv
<1>1. OrderTypes'
  BY OrdersKept DEF vars, OrderTypes, control
<1>2. TargetTypes'
  BY DEF vars, TargetTypes, control, health, world
<1>3. GenTypes'
  BY DEF vars, GenTypes, control, health, detectors
<1>4. SessionsOK'
  BY SessionsSame DEF vars, SessionsOK, control, session, GenTypes, user
<1>5. OpOK'
  BY DEF vars, OpOK, control, session, health, detectors
<1>6. IdleOK'
  BY DEF vars, IdleOK, control, session, health, detectors, user
<1>7. StopOK'
  BY StopSame DEF vars, control, user
<1> QED
  BY <1>1, <1>2, <1>3, <1>4, <1>5, <1>6, <1>7 DEF Inv

-----------------------------------------------------------------------------
(* The invariants *)

LEMMA InvInit == Init => Inv
<1> SUFFICES ASSUME Init PROVE Inv
  OBVIOUS
<1>1. OrderTypes
  <2>1. queue \in Seq(Order) /\ Len(queue) = 0
    BY DEF Init
  <2>2. op \in Operation /\ op.at = "idle"
    BY ZeroStream DEF Init, Idle, Operation
  <2> QED
    BY <2>1, <2>2 DEF OrderTypes
<1>2. TargetTypes
  BY ZeroStream DEF Init, TargetTypes, Phases
<1>3. GenTypes
  BY DEF Init, GenTypes
<1>4. SessionsOK
  <2>1. sessions \in Seq(Session) /\ Len(sessions) = 0 /\ current = 0 /\ destroying = 0
    BY DEF Init
  <2> QED
    BY <2>1 DEF SessionsOK, OneSession
<1>5. OpOK
  BY DEF Init, OpOK, Idle
<1>6. IdleOK
  BY DEF Init, IdleOK, Idle
<1>7. StopOK
  BY DEF Init, StopOK
<1> QED
  BY <1>1, <1>2, <1>3, <1>4, <1>5, <1>6, <1>7 DEF Inv

LEMMA InvNext == Inv /\ [Next]_vars => Inv'
<1> SUFFICES ASSUME Inv, [Next]_vars PROVE Inv'
  OBVIOUS
<1>1. CASE OpStep
  BY <1>1, BeginStartStep, BeginRecoverStep, BeginAutoStep, BeginToggleStep, BeginStopStep,
     BeginEndStep, SyncDoneStep, CleanDoneStep, ClearDoneStep, StartDoneStep, ToggleDoneStep,
     StopDoneStep, EndDoneStep, JoinedStep DEF OpStep
<1>2. CASE RequestStart \/ RequestRecover \/ RequestToggle \/ RequestStop
  BY <1>2, RequestStartStep, RequestRecoverStep, RequestToggleStep, RequestStopStep
<1>3. CASE SessionEnds \/ MediaChanges \/ StoreLosesStream \/ TransportDies
  BY <1>3, SessionEndsStep, MediaChangesStep, StoreLosesStreamStep, TransportDiesStep
<1>4. CASE (\E late \in BOOLEAN : Tick(late)) \/ RecoveryDue
  BY <1>4, TickStep, RecoveryDueStep
<1>5. CASE Destroy \/ DestroyDone \/ HostChanges \/ ChannelChanges
  BY <1>5, DestroyStep, DestroyDoneStep, HostChangesStep, ChannelChangesStep
<1>6. CASE UNCHANGED vars
  BY <1>6, StutterStep
<1> QED
  BY <1>1, <1>2, <1>3, <1>4, <1>5, <1>6 DEF Next

LEMMA InvAlways == Spec => []Inv
BY InvInit, InvNext, PTL DEF Spec

LEMMA InvTypes == Inv => TypeOK
<1> SUFFICES ASSUME Inv PROVE TypeOK
  OBVIOUS
<1> USE DEF Inv
<1>1. \A i \in 1..Len(sessions) :
         sessions[i] \in [stream : 1..MaxStreams, gen : 1..gen, paused : BOOLEAN, flow : BOOLEAN,
                          state : {"joining", "connecting", "watching", "ended", "error",
                                   "closing", "closed"}]
  <2> SUFFICES ASSUME NEW i \in 1..Len(sessions)
               PROVE  sessions[i] \in [stream : 1..MaxStreams, gen : 1..gen, paused : BOOLEAN,
                        flow : BOOLEAN,
                        state : {"joining", "connecting", "watching", "ended", "error",
                                 "closing", "closed"}]
    OBVIOUS
  <2>1. sessions[i] \in Session /\ sessions[i].gen \in 1..gen
    BY DEF SessionsOK
  <2> QED
    BY <2>1 DEF Session, SessionStates
<1>2. current \in 0..Len(sessions) /\ (current # 0 => Current.state \notin {"closing", "closed"})
  BY CurrentIn DEF SessionsOK
<1> QED
  BY <1>1, <1>2 DEF TypeOK, TargetTypes, GenTypes

\* Whatever request, timer, end detector or recovery comes at whichever await, and beside
\* destroy(), a session is made only when all before it are torn down but the one that
\* destroy() tears down, and a controller at rest in the idle phase holds nothing.
THEOREM OneSessionAtATime == Spec => []ControllerInv
<1>1. Inv => OneSession
  BY DEF Inv, SessionsOK
<1>2. Inv => QuietWhenIdle
  BY DEF Inv, IdleOK, QuietWhenIdle
<1>3. Inv => ControllerInv
  BY <1>1, <1>2, InvTypes DEF ControllerInv
<1> QED
  BY <1>3, InvAlways, PTL

\* Only ClearDone makes a session.
LEMMA OnlyClearDone ==
    ASSUME Inv, [Next]_vars, Len(sessions') > Len(sessions)
    PROVE  op.at = "clearing"
<1> USE DEF Inv
<1>0. Len(sessions) \in Nat
  BY DEF SessionsOK
<1>1. ASSUME DestroySession PROVE Len(sessions') = Len(sessions)
  BY <1>0, <1>1 DEF DestroySession, SessionsOK
<1>2. ASSUME sessions' = sessions PROVE FALSE
  BY <1>0, <1>2
<1>3. ASSUME sessions' = Closed PROVE FALSE
  BY <1>0, <1>3 DEF Closed
<1>4. CASE OpStep
  <2>1. CASE BeginStart \/ BeginStop \/ BeginEnd \/ SyncDone
    BY <1>0, <1>1, <2>1 DEF BeginStart, EnterStart, BeginStop, BeginEnd, SyncDone
  <2>2. CASE BeginRecover \/ BeginAuto \/ BeginToggle \/ StartDone
    BY <1>2, <2>2 DEF BeginRecover, BeginAuto, BeginToggle, StartDone, session
  <2>3. CASE CleanDone \/ StopDone \/ EndDone
    BY <1>3, <2>3 DEF CleanDone, StopDone, EndDone
  <2>4. CASE ToggleDone
    BY <1>0, <2>4 DEF ToggleDone, SessionsOK
  <2>5. CASE Joined
    BY <1>0, <2>5 DEF Joined, SessionsOK
  <2>6. CASE ClearDone
    BY <2>6 DEF ClearDone
  <2> QED
    BY <1>4, <2>1, <2>2, <2>3, <2>4, <2>5, <2>6 DEF OpStep
<1>5. CASE RequestStart \/ RequestRecover \/ RequestToggle \/ RequestStop
  BY <1>2, <1>5 DEF RequestStart, RequestRecover, RequestToggle, RequestStop, session
<1>6. CASE SessionEnds \/ MediaChanges
  BY <1>0, <1>6 DEF SessionEnds, MediaChanges, SessionsOK
<1>7. CASE StoreLosesStream \/ TransportDies \/ RecoveryDue \/ HostChanges \/ ChannelChanges
  BY <1>2, <1>7 DEF StoreLosesStream, TransportDies, RecoveryDue, HostChanges, ChannelChanges,
    session
<1>8. CASE \E late \in BOOLEAN : Tick(late)
  BY <1>2, <1>8 DEF Tick, session
<1>9. CASE Destroy
  BY <1>0, <1>1, <1>9 DEF Destroy
<1>10. CASE DestroyDone
  <2>1. sessions' = [sessions EXCEPT ![destroying].state = "closed"]
    BY <1>10 DEF DestroyDone
  <2> QED
    BY <1>0, <2>1 DEF SessionsOK
<1>11. CASE UNCHANGED vars
  BY <1>2, <1>11 DEF vars, session
<1> QED
  BY <1>4, <1>5, <1>6, <1>7, <1>8, <1>9, <1>10, <1>11 DEF Next

\* Once a stop has been carried out no session is made until the user asks for one: a
\* recovery timer, a queued recovery or an end that was under way finds no target.
THEOREM StoppedForGood == Spec => StopStays
<1>1. ASSUME Inv, [Next]_vars, Len(sessions') > Len(sessions)
      PROVE  ~stopped \/ op.kind = "stop" \/ \E i \in 1..Len(queue) : queue[i].kind = "stop"
  <2>1. op.at = "clearing"
    BY <1>1, OnlyClearDone
  <2> QED
    BY <1>1, <2>1 DEF Inv, StopOK, StopAfter
<1>2. Inv /\ [Next]_vars =>
        [Len(sessions') > Len(sessions) =>
           \/ ~stopped
           \/ op.kind = "stop" \/ \E i \in 1..Len(queue) : queue[i].kind = "stop"]_vars
  BY <1>1
<1> QED
  BY <1>2, InvAlways, PTL DEF Spec, StopStays
=============================================================================
