--------------------------- MODULE ViewerSessionProofs ---------------------------
(***************************************************************************)
(* A viewer session uses one media connection at a time and leaves nothing  *)
(* behind, its end is final and an attempt's leave is its last word, for    *)
(* any number of retransmissions, pauses and attempts to pause.             *)
(***************************************************************************)
EXTENDS ViewerSession, TLAPS

Flows == {"none", "peer", "send", "answer", "connect", "view", "bind", "retrying"}
Requests == {"none", "waiting", "accepted", "refused", "over", "timeout", "cancelled"}
PauseOps == [at : {"none", "send", "ack", "delay"}, want : BOOLEAN, try : Nat, stale : BOOLEAN,
             waiter : {"none", "waiting", "cancelled"}]

FlowTypes ==
    /\ state \in States /\ flow \in Flows /\ attempt \in Attempts /\ retried \in BOOLEAN
    /\ request \in Requests /\ resends \in Nat
    /\ joins \in [Attempts -> Nat] /\ ready \subseteq Attempts

MediaTypes ==
    /\ client \in {0} \cup Attempts /\ sdk \in [Attempts -> {"none", "open", "closing", "closed"}]
    /\ track \in {"none", "live", "ended"} /\ trackTimer \in BOOLEAN /\ readiness \in BOOLEAN

EndTypes ==
    /\ destructed \in BOOLEAN /\ stale \in BOOLEAN
    /\ teardown \in {"none", "leaving", "shutting"} /\ left \subseteq Attempts

PauseTypes ==
    /\ pauseState \in {"playing", "pausing", "paused", "resuming"}
    /\ pauseOp \in PauseOps /\ pauses \in Nat

Types == FlowTypes /\ MediaTypes /\ EndTypes /\ PauseTypes

\* A teardown outdates the generation; when it is over, what it clears is cleared and
\* stays so, for only a flow of the current generation makes anything.
TeardownClears ==
    /\ teardown # "none" => stale
    /\ ~isCurrent /\ teardown = "none" => client = 0
    /\ ~isCurrent /\ teardown # "leaving" =>
          ~readiness /\ ~trackTimer /\ request # "waiting"
    /\ teardown = "shutting" => client # 0 /\ sdk[client] = "closing"

\* The client belongs to the attempt whose flow has come as far as the connection.
ClientOfFlow ==
    /\ state = "idle" => client = 0 /\ flow = "none" /\ teardown = "none"
    /\ flow \in {"peer", "send", "answer"} => client = 0
    /\ flow \in {"connect", "view", "bind"} /\ isCurrent => client = attempt
    /\ client # 0 => sdk[client] = "open" \/ (sdk[client] = "closing" /\ teardown = "shutting")
    /\ flow = "connect" => track = "none"
    /\ track # "none" => client # 0
    /\ trackTimer => track = "ended"
    /\ readiness => flow = "none" /\ state # "idle"

\* A session that has failed or ended is not current, and no flow that can still fail is
\* left of one that has ended by itself.
EndIsReached ==
    /\ destructed => state = "ended"
    /\ state \in {"error", "ended"} => ~isCurrent
    /\ state = "ended" /\ ~destructed =>
          /\ flow \in {"none", "view", "bind"}
          /\ flow = "view" => track # "none" \/ client = 0

\* Attempts are made in order, and the one that has left is outdated.
AttemptsLeft ==
    /\ flow = "retrying" => stale /\ attempt = 1 /\ retried
    /\ ~retried => attempt = 1
    /\ attempt \in left => stale
    /\ \A x \in left : x <= attempt

\* A pause is half-way only while its operation or a teardown runs.
PauseHalfWay ==
    /\ pauseState \in {"pausing", "resuming"} /\ teardown = "none" =>
          pauseOp.at # "none" /\ ~pauseOp.stale /\ ~destructed

Inv ==
    /\ Types /\ OneClient /\ TeardownClears /\ ClientOfFlow
    /\ EndIsReached /\ AttemptsLeft /\ PauseHalfWay

\* What EndedIsFinal and LeaveIsLast say of one step.
EndKept == state = "ended" => state' = "ended"
LeftQuiet == \A x \in left : joins'[x] = joins[x] /\ (x \in ready' => x \in ready)

Kept == Inv' /\ EndKept /\ LeftQuiet

-----------------------------------------------------------------------------
(* Pieces of the steps *)

\* A teardown is under way, and the attempt may have left.
TeardownBegun ==
    /\ teardown' # "none" /\ stale' = TRUE
    /\ teardown' = teardown \/ (teardown = "none" /\ teardown' = "leaving")
    /\ left' \subseteq left \cup {attempt}

LEMMA TeardownBegins == Inv /\ BeginTeardown => TeardownBegun
BY DEF Inv, TeardownClears, BeginTeardown, TeardownBegun, endVars

LEMMA StopBegins ==
    ASSUME Inv, Stop, state # "ended"
    PROVE  TeardownBegun /\ state' = "ended"
BY TeardownBegins DEF Stop, SetState, Inv, EndIsReached

\* setError does nothing to a destroyed session.
ErrorSet ==
    \/ destructed /\ UNCHANGED <<state, readiness, endVars>>
    \/ ~destructed /\ state' = "error" /\ readiness' = FALSE /\ TeardownBegun

LEMMA ErrorIsSet == Inv /\ SetError => ErrorSet
BY TeardownBegins DEF SetError, ErrorSet

\* The error path of the flow retries once or reports the error.
Caught ==
    \/ /\ ~retried /\ retried' = TRUE /\ flow' = "retrying" /\ TeardownBegun
       /\ UNCHANGED <<state, readiness>>
    \/ flow' = "none" /\ retried' = retried /\ ErrorSet

LEMMA ErrorIsCaught == ASSUME Inv, NEW c, Catch(c) PROVE Caught
BY TeardownBegins, ErrorIsSet DEF Catch, Caught, Inv, Types, FlowTypes

\* Unless the second attempt begins, attempts and leaves keep their order: a flow is
\* retried only once, and only by beginning a teardown.
LEMMA OrderKept ==
    ASSUME Inv, attempt' = attempt, retried' = retried \/ retried' = TRUE,
           \/ TeardownBegun
           \/ stale' = stale /\ left' = left /\ teardown' \in {"none", "leaving", "shutting"},
           flow' = "retrying" => (flow = "retrying" /\ retried' = retried)
                                 \/ (~retried /\ retried' = TRUE /\ TeardownBegun)
    PROVE  /\ AttemptsLeft' /\ left' \subseteq Attempts
           /\ teardown' \in {"none", "leaving", "shutting"}
<1>1. /\ AttemptsLeft /\ attempt \in Attempts /\ left \subseteq Attempts
      /\ teardown \in {"none", "leaving", "shutting"}
  BY DEF Inv, Types, FlowTypes, EndTypes
<1>2. \A x \in left' : x <= attempt'
  <2>1. \A x \in left \cup {attempt} : x <= attempt
    BY <1>1 DEF AttemptsLeft, Attempts
  <2>2. left' \subseteq left \cup {attempt}
    BY <1>1 DEF TeardownBegun
  <2> QED
    BY <2>1, <2>2
<1>3. left' \subseteq Attempts
  BY <1>1 DEF TeardownBegun
<1>4. attempt' \in left' => stale'
  BY <1>1 DEF TeardownBegun, AttemptsLeft
<1>5. flow' = "retrying" => stale' /\ attempt' = 1 /\ retried'
  BY <1>1 DEF TeardownBegun, AttemptsLeft
<1> QED
  BY <1>1, <1>2, <1>3, <1>4, <1>5 DEF TeardownBegun, AttemptsLeft

\* What becomes of a pause that fails.
LEMMA PauseOpTypes ==
    ASSUME NEW p \in PauseOps
    PROVE  /\ NoOp \in PauseOps
           /\ [p EXCEPT !.at = "ack"] \in PauseOps
           /\ [p EXCEPT !.at = "delay", !.waiter = "none"] \in PauseOps
           /\ [p EXCEPT !.at = "send", !.try = @ + 1, !.waiter = "waiting"] \in PauseOps
           /\ [p EXCEPT !.waiter = IF @ = "waiting" THEN "cancelled" ELSE @] \in PauseOps
           /\ [p EXCEPT !.stale = p.at # "none"] \in PauseOps
<1> USE DEF PauseOps
<1>1. NoOp \in PauseOps
  BY DEF NoOp
<1>2. [p EXCEPT !.at = "ack"] \in PauseOps
  OBVIOUS
<1>3. [p EXCEPT !.at = "delay", !.waiter = "none"] \in PauseOps
  OBVIOUS
<1>4. p.try + 1 \in Nat
  OBVIOUS
<1>5. [p EXCEPT !.at = "send", !.try = @ + 1, !.waiter = "waiting"] \in PauseOps
  BY <1>4
<1>6. [p EXCEPT !.waiter = IF @ = "waiting" THEN "cancelled" ELSE @] \in PauseOps
  OBVIOUS
<1>7. [p EXCEPT !.stale = p.at # "none"] \in PauseOps
  OBVIOUS
<1> QED
  BY <1>1, <1>2, <1>3, <1>5, <1>6, <1>7

-----------------------------------------------------------------------------
(* The join flow from the answer *)

\* A flow that has a connection goes on while it is current, stops, or is caught.
LEMMA FlowAdvances ==
    ASSUME Inv, flow \in {"connect", "view", "bind"},
           UNCHANGED <<destructed, attempt, client, sdk, track, trackTimer, pauseVars,
                       joins, ready>>,
           \/ /\ flow' \in {"view", "bind"} /\ isCurrent
              /\ UNCHANGED <<state, readiness, endVars, retried, request, resends>>
           \/ /\ flow' = "none" /\ UNCHANGED <<state, endVars, retried, request, resends>>
              /\ readiness' = readiness \/ (readiness' = TRUE /\ isCurrent)
           \/ /\ Caught /\ request' = "none" /\ resends' = 0
              /\ flow = "view" => destructed \/ (track = "none" /\ client # 0)
              /\ flow = "bind" => isCurrent
    PROVE  Kept
<1> USE DEF isCurrent, endVars, pauseVars
<1>1. FlowTypes'
  <2>1. state' \in States /\ flow' \in Flows
    BY DEF Caught, ErrorSet, Inv, Types, FlowTypes, States, Flows
  <2>2. retried \in BOOLEAN /\ request \in Requests /\ resends \in Nat
    BY DEF Inv, Types, FlowTypes
  <2>3. retried' = retried \/ retried' = TRUE
    BY DEF Caught
  <2>4. (request' = request /\ resends' = resends) \/ (request' = "none" /\ resends' = 0)
    OBVIOUS
  <2>5. "none" \in Requests
    BY DEF Requests
  <2>6. retried' \in BOOLEAN /\ request' \in Requests /\ resends' \in Nat
    <3>1. retried' \in BOOLEAN
      BY <2>2, <2>3
    <3>2. request' \in Requests /\ resends' \in Nat
      BY <2>2, <2>4, <2>5
    <3> QED
      BY <3>1, <3>2
  <2> QED
    BY <2>1, <2>6 DEF Inv, Types, FlowTypes
<1>2. MediaTypes'
  BY DEF Caught, ErrorSet, Inv, Types, MediaTypes
<1>3. AttemptsLeft' /\ EndTypes'
  <2>1. TeardownBegun \/ (stale' = stale /\ left' = left /\ teardown' = teardown)
    BY DEF Caught, ErrorSet
  <2>2. destructed' = destructed /\ stale' \in BOOLEAN
    BY <2>1 DEF TeardownBegun, Inv, Types, EndTypes
  <2>3. flow' = "retrying" => ~retried /\ retried' = TRUE /\ TeardownBegun
    BY DEF Caught
  <2>4. teardown \in {"none", "leaving", "shutting"} /\ destructed \in BOOLEAN
    BY DEF Inv, Types, EndTypes
  <2>5. retried' = retried \/ retried' = TRUE
    BY DEF Caught
  <2>6. AttemptsLeft' /\ left' \subseteq Attempts /\ teardown' \in {"none", "leaving", "shutting"}
    BY <2>1, <2>3, <2>4, <2>5, OrderKept
  <2> QED
    BY <2>2, <2>4, <2>6 DEF EndTypes
<1>4. PauseTypes'
  BY DEF Inv, Types, PauseTypes
<1>5. OneClient' /\ PauseHalfWay'
  BY DEF Caught, ErrorSet, TeardownBegun, Inv, OneClient, PauseHalfWay
<1>6. TeardownClears'
  BY DEF Caught, ErrorSet, TeardownBegun, Inv, TeardownClears
<1>7. ClientOfFlow'
  BY DEF Caught, ErrorSet, TeardownBegun, Inv, ClientOfFlow
<1>8. EndIsReached' /\ EndKept /\ LeftQuiet
  BY DEF Caught, ErrorSet, TeardownBegun, EndKept, LeftQuiet, Inv, EndIsReached
<1> QED
  BY <1>1, <1>2, <1>3, <1>4, <1>5, <1>6, <1>7, <1>8 DEF Kept, Inv, Types

\* The waiter has settled: the session is connected, goes on to its end or stops here.
LEMMA AnswerTaken == ASSUME Inv, TakeAnswer PROVE Kept
<1> USE DEF isCurrent, endVars, pauseVars
<1>1. /\ flow = "answer" /\ resends' = 0 /\ request' = "none" /\ client = 0 /\ track = "none"
      /\ UNCHANGED <<destructed, attempt, trackTimer, pauseVars, joins, ready>>
  BY DEF TakeAnswer, Inv, ClientOfFlow
<1>2. CASE client' = client /\ sdk' = sdk /\ track' = track /\ retried' = retried
           /\ flow' = "none"
           /\ \/ UNCHANGED <<state, readiness, endVars>>
              \/ ErrorSet /\ request # "waiting"
              \/ TeardownBegun /\ state' = "ended" /\ readiness' = readiness /\ isCurrent
  <2>1. FlowTypes' /\ MediaTypes' /\ PauseTypes'
    BY <1>1, <1>2 DEF ErrorSet, Inv, Types, FlowTypes, MediaTypes, PauseTypes, States, Flows,
      Requests
  <2>2. AttemptsLeft' /\ EndTypes'
    <3>1. TeardownBegun \/ (stale' = stale /\ left' = left /\ teardown' = teardown)
      BY <1>2 DEF ErrorSet
    <3>2. /\ teardown \in {"none", "leaving", "shutting"}
          /\ destructed' \in BOOLEAN /\ stale' \in BOOLEAN
      BY <1>1, <3>1 DEF TeardownBegun, Inv, Types, EndTypes
    <3>3. AttemptsLeft' /\ left' \subseteq Attempts /\ teardown' \in {"none", "leaving", "shutting"}
      BY <1>1, <1>2, <3>1, <3>2, OrderKept
    <3> QED
      BY <3>2, <3>3 DEF EndTypes
  <2>3. /\ OneClient' /\ TeardownClears' /\ ClientOfFlow' /\ EndIsReached' /\ PauseHalfWay'
        /\ EndKept /\ LeftQuiet
    BY <1>1, <1>2 DEF ErrorSet, TeardownBegun, EndKept, LeftQuiet, Inv, OneClient,
      TeardownClears, ClientOfFlow, EndIsReached, PauseHalfWay
  <2> QED
    BY <2>1, <2>2, <2>3 DEF Kept, Inv, Types
<1>3. CASE /\ isCurrent /\ state' = "connecting-media" /\ flow' = "connect" /\ client' = attempt
           /\ sdk' = [sdk EXCEPT ![attempt] = "open"] /\ track' = "none"
           /\ UNCHANGED <<readiness, endVars, retried>>
  <2>1. FlowTypes' /\ MediaTypes' /\ PauseTypes'
    BY <1>1, <1>3 DEF Inv, Types, FlowTypes, MediaTypes, PauseTypes, States, Flows, Requests
  <2>2. AttemptsLeft' /\ EndTypes'
    BY <1>1, <1>3, OrderKept DEF Inv, Types, EndTypes
  <2>3. sdk'[attempt] = "open" /\ \A x \in Attempts : x # attempt => sdk'[x] = sdk[x]
    BY <1>3 DEF Inv, Types, MediaTypes, FlowTypes
  <2>4. client' # 0 /\ client' = attempt'
    BY <1>1, <1>3 DEF Inv, Types, FlowTypes, Attempts
  <2>5. OneClient'
    BY <1>1, <1>3, <2>3, <2>4 DEF Inv, OneClient, Types, FlowTypes, Attempts
  <2>6. /\ TeardownClears' /\ ClientOfFlow' /\ EndIsReached' /\ PauseHalfWay'
        /\ EndKept /\ LeftQuiet
    BY <1>1, <1>3, <2>3, <2>4 DEF EndKept, LeftQuiet, Inv, TeardownClears, ClientOfFlow,
      EndIsReached, PauseHalfWay
  <2> QED
    BY <2>1, <2>2, <2>5, <2>6 DEF Kept, Inv, Types
<1>4. CASE request = "timeout"
  <2>1. UNCHANGED <<client, sdk, track>> /\ SetError /\ flow' = "none" /\ retried' = retried
    BY <1>4 DEF TakeAnswer, Catch
  <2> QED
    BY <1>2, <1>4, <2>1, ErrorIsSet
<1>5. CASE request # "timeout"
  <2>1. \/ isCurrent /\ request = "accepted"
        \/ Abandon /\ UNCHANGED <<client, sdk, track, retried>>
        \/ /\ isCurrent /\ request \in {"refused", "over"}
           /\ flow' = "none" /\ UNCHANGED <<client, sdk, track, retried>>
           /\ SetError \/ (Stop /\ readiness' = readiness)
    BY <1>5 DEF TakeAnswer, Inv, Types, FlowTypes, Requests
  <2>2. isCurrent => state # "ended"
    BY DEF Inv, EndIsReached
  <2>3. CASE isCurrent /\ request = "accepted"
    BY <1>3, <2>3 DEF TakeAnswer
  <2>4. CASE ~(isCurrent /\ request = "accepted")
    BY <1>2, <2>1, <2>2, <2>4, ErrorIsSet, StopBegins DEF Abandon
  <2> QED
    BY <2>3, <2>4
<1> QED
  BY <1>4, <1>5

\* The second attempt.
LEMMA RetryBegins == ASSUME Inv, RetryFlow PROVE Kept
<1> USE DEF isCurrent, mediaVars, pauseVars, RetryFlow, EnterFlow, SetState
<1>1. FlowTypes' /\ MediaTypes' /\ PauseTypes'
  BY DEF Inv, Types, FlowTypes, MediaTypes, PauseTypes, States, Flows, Attempts
<1>2. flow = "retrying" /\ attempt = 1 /\ attempt' = 2 /\ left' = left /\ flow' # "retrying"
  BY DEF Inv, AttemptsLeft
<1>3. \A x \in left : x <= 1
  BY <1>2 DEF Inv, AttemptsLeft
<1>4. retried' = TRUE
  BY DEF Inv, AttemptsLeft
<1>5. AttemptsLeft'
  <2>1. \A x \in left' : x <= attempt' /\ x # attempt'
    BY <1>2, <1>3 DEF Inv, Types, EndTypes, Attempts
  <2> QED
    BY <1>2, <1>4, <2>1 DEF AttemptsLeft
<1>7. EndTypes'
  BY DEF EndTypes, Inv, Types
<1>6. /\ OneClient' /\ TeardownClears' /\ ClientOfFlow' /\ EndIsReached' /\ PauseHalfWay'
      /\ EndKept /\ LeftQuiet
  BY DEF EndKept, LeftQuiet, Inv, OneClient, TeardownClears, ClientOfFlow, EndIsReached,
    AttemptsLeft, PauseHalfWay
<1> QED
  BY <1>1, <1>5, <1>6, <1>7 DEF Kept, Inv, Types

LEMMA ConnectSteps ==
    ASSUME Inv, TakeAnswer \/ ConnectDone \/ ViewDone \/ BindDone \/ RetryFlow
    PROVE  Kept
<1>1. CASE ConnectDone
  BY <1>1, FlowAdvances, ErrorIsCaught DEF ConnectDone, Abandon
<1>2. CASE ViewDone
  BY <1>2, FlowAdvances, ErrorIsCaught DEF ViewDone, Abandon
<1>3. CASE BindDone
  BY <1>3, FlowAdvances, ErrorIsCaught DEF BindDone
<1> QED
  BY <1>1, <1>2, <1>3, AnswerTaken, RetryBegins

-----------------------------------------------------------------------------
(* The teardown *)

LEMMA TeardownSteps ==
    ASSUME Inv, LeaveDone \/ ShutdownDone \/ SdkCloses \/ Destroy
    PROVE  Kept
<1> USE SessionAssumption DEF isCurrent, mediaVars, flowVars, endVars, pauseVars
<1>1. CASE LeaveDone
  <2>1. FlowTypes'
    BY <1>1 DEF LeaveDone, Inv, Types, FlowTypes, Requests
  <2>2. MediaTypes'
    BY <1>1 DEF LeaveDone, ClearSession, Inv, Types, MediaTypes
  <2>3. AttemptsLeft' /\ EndTypes'
    BY OrderKept, <1>1 DEF LeaveDone, ClearSession, Inv, Types, EndTypes
  <2>4. PauseTypes'
    BY PauseOpTypes, <1>1 DEF LeaveDone, ClearSession, Inv, Types, PauseTypes
  <2>5. OneClient' /\ TeardownClears' /\ ClientOfFlow' /\ EndIsReached' /\ PauseHalfWay'
    BY <1>1 DEF LeaveDone, ClearSession, Inv, Types, MediaTypes, OneClient, TeardownClears,
      ClientOfFlow, EndIsReached, PauseHalfWay
  <2>6. EndKept /\ LeftQuiet
    BY <1>1 DEF LeaveDone, EndKept, LeftQuiet
  <2> QED
    BY <2>1, <2>2, <2>3, <2>4, <2>5, <2>6 DEF Kept, Inv, Types
<1>2. CASE ShutdownDone
  <2>1. FlowTypes'
    BY <1>2 DEF ShutdownDone, Inv, Types, FlowTypes
  <2>2. MediaTypes'
    BY <1>2 DEF ShutdownDone, ClearSession, Inv, Types, MediaTypes
  <2>3. AttemptsLeft' /\ EndTypes'
    BY OrderKept, <1>2 DEF ShutdownDone, ClearSession, Inv, Types, EndTypes
  <2>4. PauseTypes'
    BY PauseOpTypes, <1>2 DEF ShutdownDone, ClearSession, Inv, Types, PauseTypes
  <2>5. OneClient' /\ TeardownClears' /\ ClientOfFlow' /\ EndIsReached' /\ PauseHalfWay'
    BY <1>2 DEF ShutdownDone, ClearSession, Inv, Types, MediaTypes, OneClient, TeardownClears,
      ClientOfFlow, EndIsReached, PauseHalfWay
  <2>6. EndKept /\ LeftQuiet
    BY <1>2 DEF ShutdownDone, EndKept, LeftQuiet
  <2> QED
    BY <2>1, <2>2, <2>3, <2>4, <2>5, <2>6 DEF Kept, Inv, Types
<1>3. CASE SdkCloses
  <2>1. FlowTypes'
    BY <1>3 DEF SdkCloses, Inv, Types, FlowTypes
  <2>2. MediaTypes'
    BY <1>3 DEF SdkCloses, Inv, Types, MediaTypes, FlowTypes
  <2>3. AttemptsLeft' /\ EndTypes'
    BY OrderKept, <1>3 DEF SdkCloses, Inv, Types, EndTypes
  <2>4. PauseTypes'
    BY <1>3 DEF SdkCloses, Inv, Types, PauseTypes
  <2>5. OneClient' /\ TeardownClears' /\ ClientOfFlow' /\ EndIsReached' /\ PauseHalfWay'
    BY <1>3 DEF SdkCloses, Inv, OneClient, TeardownClears, ClientOfFlow, EndIsReached,
      PauseHalfWay
  <2>6. EndKept /\ LeftQuiet
    BY <1>3 DEF SdkCloses, EndKept, LeftQuiet
  <2> QED
    BY <2>1, <2>2, <2>3, <2>4, <2>5, <2>6 DEF Kept, Inv, Types
<1>4. CASE Destroy
  <2>1. FlowTypes'
    BY TeardownBegins, <1>4 DEF Destroy, Inv, Types, FlowTypes, States
  <2>2. MediaTypes'
    BY TeardownBegins, <1>4 DEF Destroy, Inv, Types, MediaTypes
  <2>3. AttemptsLeft' /\ EndTypes'
    BY TeardownBegins, OrderKept, <1>4 DEF Destroy, TeardownBegun, EndTypes
  <2>4. PauseTypes'
    BY TeardownBegins, <1>4 DEF Destroy, Inv, Types, PauseTypes
  <2>5. OneClient' /\ TeardownClears' /\ ClientOfFlow' /\ EndIsReached' /\ PauseHalfWay'
    BY TeardownBegins, <1>4 DEF Destroy, TeardownBegun, Inv, OneClient, TeardownClears,
      ClientOfFlow, EndIsReached, PauseHalfWay
  <2>6. EndKept /\ LeftQuiet
    BY TeardownBegins, <1>4 DEF Destroy, EndKept, LeftQuiet
  <2> QED
    BY <2>1, <2>2, <2>3, <2>4, <2>5, <2>6 DEF Kept, Inv, Types
<1> QED
  BY <1>1, <1>2, <1>3, <1>4

-----------------------------------------------------------------------------
(* The join flow up to the answer *)

LEMMA RequestSteps ==
    ASSUME Inv, Start \/ PeerFound \/ PeerMissing \/ SendDone \/ Retransmit \/ Answer
    PROVE  Kept
<1> USE SessionAssumption DEF isCurrent, mediaVars, flowVars, endVars, pauseVars
<1>1. CASE Start
  <2>1. FlowTypes'
    BY <1>1 DEF Start, EnterFlow, SetState, Inv, Types, FlowTypes, States, Flows
  <2>2. MediaTypes'
    BY <1>1 DEF Start, Inv, Types, MediaTypes
  <2>3. AttemptsLeft' /\ EndTypes'
    BY OrderKept, <1>1 DEF Start, EnterFlow, Inv, Types, EndTypes
  <2>4. PauseTypes'
    BY <1>1 DEF Start, Inv, Types, PauseTypes
  <2>5. OneClient' /\ TeardownClears' /\ ClientOfFlow' /\ EndIsReached' /\ PauseHalfWay'
    BY <1>1 DEF Start, EnterFlow, SetState, Inv, OneClient, TeardownClears, ClientOfFlow,
      EndIsReached, PauseHalfWay
  <2>6. EndKept /\ LeftQuiet
    BY <1>1 DEF Start, EndKept, LeftQuiet
  <2> QED
    BY <2>1, <2>2, <2>3, <2>4, <2>5, <2>6 DEF Kept, Inv, Types
<1>2. CASE PeerFound
  <2>1. FlowTypes'
    BY <1>2 DEF PeerFound, Abandon, Inv, Types, FlowTypes, States, Flows, Requests
  <2>2. MediaTypes'
    BY <1>2 DEF PeerFound, Abandon, Inv, Types, MediaTypes
  <2>3. AttemptsLeft' /\ EndTypes'
    BY OrderKept, <1>2 DEF PeerFound, Abandon, Inv, Types, EndTypes
  <2>4. PauseTypes'
    BY <1>2 DEF PeerFound, Abandon, Inv, Types, PauseTypes
  <2>5. OneClient' /\ TeardownClears' /\ ClientOfFlow' /\ EndIsReached' /\ PauseHalfWay'
    BY <1>2 DEF PeerFound, Abandon, Inv, OneClient, TeardownClears, ClientOfFlow, EndIsReached,
      PauseHalfWay
  <2>6. EndKept /\ LeftQuiet
    BY <1>2 DEF PeerFound, Abandon, Inv, Types, FlowTypes, EndTypes, EndIsReached, AttemptsLeft,
      EndKept, LeftQuiet
  <2> QED
    BY <2>1, <2>2, <2>3, <2>4, <2>5, <2>6 DEF Kept, Inv, Types
<1>3. CASE PeerMissing
  <2>1. FlowTypes'
    BY ErrorIsSet, <1>3 DEF PeerMissing, ErrorSet, Inv, Types, FlowTypes, States, Flows
  <2>2. MediaTypes'
    BY ErrorIsSet, <1>3 DEF PeerMissing, ErrorSet, Inv, Types, MediaTypes
  <2>3. AttemptsLeft' /\ EndTypes'
    BY ErrorIsSet, OrderKept, <1>3 DEF PeerMissing, TeardownBegun, ErrorSet, Inv, Types,
      EndTypes
  <2>4. PauseTypes'
    BY ErrorIsSet, <1>3 DEF PeerMissing, Inv, Types, PauseTypes
  <2>5. OneClient' /\ TeardownClears' /\ ClientOfFlow' /\ EndIsReached' /\ PauseHalfWay'
    BY ErrorIsSet, <1>3 DEF PeerMissing, TeardownBegun, ErrorSet, Inv, OneClient,
      TeardownClears, ClientOfFlow, EndIsReached, PauseHalfWay
  <2>6. EndKept /\ LeftQuiet
    BY ErrorIsSet, <1>3 DEF PeerMissing, Inv, EndIsReached, EndKept, LeftQuiet
  <2> QED
    BY <2>1, <2>2, <2>3, <2>4, <2>5, <2>6 DEF Kept, Inv, Types
<1>4. CASE SendDone
  <2>1. FlowTypes'
    BY <1>4 DEF SendDone, Abandon, Inv, Types, FlowTypes, States, Flows
  <2>2. MediaTypes'
    BY <1>4 DEF SendDone, Abandon, Inv, Types, MediaTypes
  <2>3. AttemptsLeft' /\ EndTypes'
    BY OrderKept, <1>4 DEF SendDone, Abandon, Inv, Types, EndTypes
  <2>4. PauseTypes'
    BY <1>4 DEF SendDone, Abandon, Inv, Types, PauseTypes
  <2>5. OneClient' /\ TeardownClears' /\ ClientOfFlow' /\ EndIsReached' /\ PauseHalfWay'
    BY <1>4 DEF SendDone, Abandon, Inv, OneClient, TeardownClears, ClientOfFlow, EndIsReached,
      PauseHalfWay
  <2>6. EndKept /\ LeftQuiet
    BY <1>4 DEF SendDone, Abandon, Inv, EndIsReached, EndKept, LeftQuiet
  <2> QED
    BY <2>1, <2>2, <2>3, <2>4, <2>5, <2>6 DEF Kept, Inv, Types
<1>5. CASE Retransmit
  <2>1. FlowTypes'
    BY <1>5 DEF Retransmit, Inv, Types, FlowTypes
  <2>2. MediaTypes'
    BY <1>5 DEF Retransmit, Inv, Types, MediaTypes
  <2>3. AttemptsLeft' /\ EndTypes'
    BY OrderKept, <1>5 DEF Retransmit, Retransmits, Inv, Types, EndTypes
  <2>4. PauseTypes'
    BY <1>5 DEF Retransmit, Retransmits, Inv, Types, PauseTypes
  <2>5. OneClient' /\ TeardownClears' /\ ClientOfFlow' /\ EndIsReached' /\ PauseHalfWay'
    BY <1>5 DEF Retransmit, Inv, OneClient, TeardownClears, ClientOfFlow, EndIsReached,
      PauseHalfWay
  <2>6. EndKept /\ LeftQuiet
    BY <1>5 DEF Retransmit, Retransmits, Inv, AttemptsLeft, EndKept, LeftQuiet
  <2> QED
    BY <2>1, <2>2, <2>3, <2>4, <2>5, <2>6 DEF Kept, Inv, Types
<1>6. CASE Answer
  <2>1. FlowTypes'
    BY <1>6 DEF Answer, Inv, Types, FlowTypes, Requests
  <2>2. MediaTypes'
    BY <1>6 DEF Answer, Inv, Types, MediaTypes, FlowTypes
  <2>3. AttemptsLeft' /\ EndTypes'
    BY OrderKept, <1>6 DEF Answer, Inv, Types, EndTypes
  <2>4. PauseTypes'
    BY <1>6 DEF Answer, Inv, Types, PauseTypes
  <2>5. OneClient' /\ TeardownClears' /\ ClientOfFlow' /\ EndIsReached' /\ PauseHalfWay'
    BY <1>6 DEF Answer, Inv, OneClient, TeardownClears, ClientOfFlow, EndIsReached, PauseHalfWay
  <2>6. EndKept /\ LeftQuiet
    BY <1>6 DEF Answer, EndKept, LeftQuiet
  <2> QED
    BY <2>1, <2>2, <2>3, <2>4, <2>5, <2>6 DEF Kept, Inv, Types
<1> QED
  BY <1>1, <1>2, <1>3, <1>4, <1>5, <1>6

-----------------------------------------------------------------------------
(* Tracks and timers *)

LEMMA TrackSteps ==
    ASSUME Inv, TrackArrives \/ TrackEnds \/ TrackTimerFires \/ ReadinessFires \/ SendViewerReady
    PROVE  Kept
<1> USE SessionAssumption DEF isCurrent, mediaVars, flowVars, endVars, pauseVars
<1>1. CASE TrackArrives
  <2>1. FlowTypes'
    BY <1>1 DEF TrackArrives, Inv, Types, FlowTypes, States
  <2>2. MediaTypes'
    BY <1>1 DEF TrackArrives, Inv, Types, MediaTypes, FlowTypes
  <2>3. AttemptsLeft' /\ EndTypes'
    BY OrderKept, <1>1 DEF TrackArrives, Inv, Types, EndTypes
  <2>4. PauseTypes'
    BY <1>1 DEF TrackArrives, Inv, Types, PauseTypes
  <2>5. OneClient' /\ TeardownClears' /\ ClientOfFlow' /\ EndIsReached' /\ PauseHalfWay'
    BY <1>1 DEF TrackArrives, Inv, OneClient, TeardownClears, ClientOfFlow, EndIsReached,
      PauseHalfWay
  <2>6. EndKept /\ LeftQuiet
    BY <1>1 DEF TrackArrives, Inv, EndIsReached, EndKept, LeftQuiet
  <2> QED
    BY <2>1, <2>2, <2>3, <2>4, <2>5, <2>6 DEF Kept, Inv, Types
<1>2. CASE TrackEnds
  <2>1. FlowTypes'
    BY <1>2 DEF TrackEnds, Inv, Types, FlowTypes
  <2>2. MediaTypes'
    BY <1>2 DEF TrackEnds, Inv, Types, MediaTypes, FlowTypes
  <2>3. AttemptsLeft' /\ EndTypes'
    BY OrderKept, <1>2 DEF TrackEnds, Inv, Types, EndTypes
  <2>4. PauseTypes'
    BY <1>2 DEF TrackEnds, Inv, Types, PauseTypes
  <2>5. OneClient' /\ TeardownClears' /\ ClientOfFlow' /\ EndIsReached' /\ PauseHalfWay'
    BY <1>2 DEF TrackEnds, Inv, OneClient, TeardownClears, ClientOfFlow, EndIsReached,
      PauseHalfWay
  <2>6. EndKept /\ LeftQuiet
    BY <1>2 DEF TrackEnds, EndKept, LeftQuiet
  <2> QED
    BY <2>1, <2>2, <2>3, <2>4, <2>5, <2>6 DEF Kept, Inv, Types
<1>3. CASE TrackTimerFires
  <2>1. FlowTypes'
    BY StopBegins, <1>3 DEF TrackTimerFires, Inv, Types, FlowTypes, States
  <2>2. MediaTypes'
    BY StopBegins, <1>3 DEF TrackTimerFires, Inv, Types, MediaTypes
  <2>3. AttemptsLeft' /\ EndTypes'
    BY StopBegins, OrderKept, <1>3 DEF TrackTimerFires, TeardownBegun, Inv, Types, EndTypes
  <2>4. PauseTypes'
    BY StopBegins, <1>3 DEF TrackTimerFires, Inv, Types, PauseTypes
  <2>5. OneClient' /\ TeardownClears' /\ ClientOfFlow' /\ EndIsReached' /\ PauseHalfWay'
    BY StopBegins, <1>3 DEF TrackTimerFires, TeardownBegun, ErrorSet, Caught, Inv, Types,
      FlowTypes, MediaTypes, EndTypes, PauseTypes, OneClient, TeardownClears, ClientOfFlow,
      EndIsReached, AttemptsLeft, PauseHalfWay, Attempts, Settled, States, Flows, Requests,
      PauseOps, NoOp
  <2>6. EndKept /\ LeftQuiet
    BY StopBegins, <1>3 DEF TrackTimerFires, EndKept, LeftQuiet
  <2> QED
    BY <2>1, <2>2, <2>3, <2>4, <2>5, <2>6 DEF Kept, Inv, Types
<1>4. CASE ReadinessFires
  <2>1. FlowTypes'
    BY TeardownBegins, <1>4 DEF ReadinessFires, Inv, Types, FlowTypes, States
  <2>2. MediaTypes'
    BY TeardownBegins, <1>4 DEF ReadinessFires, Inv, Types, MediaTypes
  <2>3. AttemptsLeft' /\ EndTypes'
    BY TeardownBegins, OrderKept, <1>4 DEF ReadinessFires, TeardownBegun, Inv, Types, EndTypes
  <2>4. PauseTypes'
    BY TeardownBegins, <1>4 DEF ReadinessFires, Settled, Inv, Types, PauseTypes
  <2>5. OneClient' /\ TeardownClears' /\ ClientOfFlow' /\ EndIsReached' /\ PauseHalfWay'
    BY TeardownBegins, <1>4 DEF ReadinessFires, Settled, TeardownBegun, Inv, OneClient,
      TeardownClears, ClientOfFlow, EndIsReached, PauseHalfWay
  <2>6. EndKept /\ LeftQuiet
    BY TeardownBegins, <1>4 DEF ReadinessFires, Settled, EndKept, LeftQuiet
  <2> QED
    BY <2>1, <2>2, <2>3, <2>4, <2>5, <2>6 DEF Kept, Inv, Types
<1>5. CASE SendViewerReady
  <2>1. FlowTypes'
    BY <1>5 DEF SendViewerReady, Inv, Types, FlowTypes
  <2>2. MediaTypes'
    BY <1>5 DEF SendViewerReady, Inv, Types, MediaTypes, FlowTypes
  <2>3. AttemptsLeft' /\ EndTypes'
    BY OrderKept, <1>5 DEF SendViewerReady, Inv, Types, EndTypes
  <2>4. PauseTypes'
    BY <1>5 DEF SendViewerReady, Inv, Types, PauseTypes
  <2>5. OneClient' /\ TeardownClears' /\ ClientOfFlow' /\ EndIsReached' /\ PauseHalfWay'
    BY <1>5 DEF SendViewerReady, Inv, OneClient, TeardownClears, ClientOfFlow, EndIsReached,
      PauseHalfWay
  <2>6. EndKept /\ LeftQuiet
    BY <1>5 DEF SendViewerReady, Inv, AttemptsLeft, EndKept, LeftQuiet
  <2> QED
    BY <2>1, <2>2, <2>3, <2>4, <2>5, <2>6 DEF Kept, Inv, Types
<1> QED
  BY <1>1, <1>2, <1>3, <1>4, <1>5

-----------------------------------------------------------------------------
(* Pauses *)

LEMMA PauseSteps ==
    ASSUME Inv, RequestPause \/ PauseSent \/ PauseResult \/ PauseRetry
    PROVE  Kept
<1> USE SessionAssumption DEF isCurrent, mediaVars, flowVars, endVars, pauseVars
<1>1. CASE RequestPause
  <2>1. FlowTypes'
    BY <1>1 DEF RequestPause, Inv, Types, FlowTypes
  <2>2. MediaTypes'
    BY <1>1 DEF RequestPause, Inv, Types, MediaTypes, FlowTypes
  <2>3. AttemptsLeft' /\ EndTypes'
    BY OrderKept, <1>1 DEF RequestPause, Inv, Types, EndTypes
  <2>4. PauseTypes'
    <3>1. [at |-> "send", want |-> pauseState = "playing", try |-> 1, stale |-> FALSE,
           waiter |-> "waiting"] \in PauseOps
      BY DEF PauseOps
    <3> QED
      BY <1>1, <3>1 DEF RequestPause, Inv, Types, PauseTypes
  <2>5. OneClient' /\ TeardownClears' /\ ClientOfFlow' /\ EndIsReached' /\ PauseHalfWay'
    BY <1>1 DEF RequestPause, Inv, OneClient, TeardownClears, ClientOfFlow, EndIsReached,
      PauseHalfWay
  <2>6. EndKept /\ LeftQuiet
    BY <1>1 DEF RequestPause, EndKept, LeftQuiet
  <2> QED
    BY <2>1, <2>2, <2>3, <2>4, <2>5, <2>6 DEF Kept, Inv, Types
<1>2. CASE PauseSent
  <2>1. FlowTypes'
    BY <1>2 DEF PauseSent, Inv, Types, FlowTypes
  <2>2. MediaTypes'
    BY <1>2 DEF PauseSent, Inv, Types, MediaTypes
  <2>3. AttemptsLeft' /\ EndTypes'
    BY OrderKept, <1>2 DEF PauseSent, Inv, Types, EndTypes
  <2>4. PauseTypes'
    BY PauseOpTypes, <1>2 DEF PauseSent, PauseFails, PauseGivesUp, EndPause, SetPause, Inv,
      Types, PauseTypes
  <2>5. OneClient' /\ TeardownClears' /\ ClientOfFlow' /\ EndIsReached' /\ PauseHalfWay'
    BY <1>2 DEF PauseSent, PauseFails, PauseGivesUp, EndPause, SetPause, Inv, Types, FlowTypes,
      MediaTypes, EndTypes, PauseTypes, OneClient, TeardownClears, ClientOfFlow, EndIsReached,
      AttemptsLeft, PauseHalfWay, Attempts, Settled, States, Flows, Requests, PauseOps, NoOp
  <2>6. EndKept /\ LeftQuiet
    BY <1>2 DEF PauseSent, EndKept, LeftQuiet
  <2> QED
    BY <2>1, <2>2, <2>3, <2>4, <2>5, <2>6 DEF Kept, Inv, Types
<1>3. CASE PauseResult
  <2>1. FlowTypes'
    BY <1>3 DEF PauseResult, Inv, Types, FlowTypes
  <2>2. MediaTypes'
    BY <1>3 DEF PauseResult, Inv, Types, MediaTypes
  <2>3. AttemptsLeft' /\ EndTypes'
    BY OrderKept, <1>3 DEF PauseResult, Inv, Types, EndTypes
  <2>4. PauseTypes'
    BY PauseOpTypes, <1>3 DEF PauseResult, PauseFails, PauseGivesUp, EndPause, SetPause, Inv,
      Types, PauseTypes
  <2>5. OneClient' /\ TeardownClears' /\ ClientOfFlow' /\ EndIsReached' /\ PauseHalfWay'
    <3>1. OneClient'
      BY <1>3 DEF PauseResult, Inv, OneClient
    <3>2. TeardownClears'
      BY <1>3 DEF PauseResult, Inv, TeardownClears
    <3>3. ClientOfFlow'
      BY <1>3 DEF PauseResult, Inv, ClientOfFlow
    <3>4. EndIsReached'
      BY <1>3 DEF PauseResult, Inv, EndIsReached
    <3>5. PauseHalfWay'
      BY <1>3 DEF PauseResult, PauseFails, PauseGivesUp, EndPause, SetPause, Inv, Types,
        FlowTypes, PauseTypes, ClientOfFlow, PauseHalfWay, PauseOps
    <3> QED
      BY <3>1, <3>2, <3>3, <3>4, <3>5
  <2>6. EndKept /\ LeftQuiet
    BY <1>3 DEF PauseResult, EndKept, LeftQuiet
  <2> QED
    BY <2>1, <2>2, <2>3, <2>4, <2>5, <2>6 DEF Kept, Inv, Types
<1>4. CASE PauseRetry
  <2>1. FlowTypes'
    BY <1>4 DEF PauseRetry, Inv, Types, FlowTypes
  <2>2. MediaTypes'
    BY <1>4 DEF PauseRetry, Inv, Types, MediaTypes, FlowTypes
  <2>3. AttemptsLeft' /\ EndTypes'
    BY OrderKept, <1>4 DEF PauseRetry, Inv, Types, EndTypes
  <2>4. PauseTypes'
    BY PauseOpTypes, <1>4 DEF PauseRetry, Inv, Types, PauseTypes, EndTypes
  <2>5. OneClient' /\ TeardownClears' /\ ClientOfFlow' /\ EndIsReached' /\ PauseHalfWay'
    BY <1>4 DEF PauseRetry, Inv, OneClient, TeardownClears, ClientOfFlow, EndIsReached,
      PauseHalfWay
  <2>6. EndKept /\ LeftQuiet
    BY <1>4 DEF PauseRetry, EndKept, LeftQuiet
  <2> QED
    BY <2>1, <2>2, <2>3, <2>4, <2>5, <2>6 DEF Kept, Inv, Types
<1> QED
  BY <1>1, <1>2, <1>3, <1>4

-----------------------------------------------------------------------------
(* The session *)

LEMMA InitInv == Init => Inv
<1> SUFFICES ASSUME Init PROVE Inv
  OBVIOUS
<1> USE DEF Init, isCurrent
<1>1. FlowTypes
  <2>1. joins \in [Attempts -> Nat] /\ ready \subseteq Attempts
    OBVIOUS
  <2>2. attempt \in Attempts
    BY DEF Attempts
  <2> QED
    BY <2>1, <2>2 DEF FlowTypes, States, Flows, Requests
<1>2. MediaTypes /\ EndTypes
  BY DEF MediaTypes, EndTypes
<1>3. PauseTypes
  BY PauseOpTypes DEF PauseTypes, PauseOps, NoOp
<1>4. OneClient /\ TeardownClears /\ ClientOfFlow /\ EndIsReached /\ AttemptsLeft /\ PauseHalfWay
  BY DEF OneClient, TeardownClears, ClientOfFlow, EndIsReached, AttemptsLeft, PauseHalfWay
<1> QED
  BY <1>1, <1>2, <1>3, <1>4 DEF Inv, Types

LEMMA InvStep == Inv /\ [Next]_vars => Kept
<1> SUFFICES ASSUME Inv, [Next]_vars PROVE Kept
  OBVIOUS
<1>1. CASE LeaveDone \/ ShutdownDone \/ SdkCloses \/ Destroy
  BY <1>1, TeardownSteps
<1>2. CASE Start \/ PeerFound \/ PeerMissing \/ SendDone \/ Retransmit \/ Answer
  BY <1>2, RequestSteps
<1>3. CASE TakeAnswer \/ ConnectDone \/ ViewDone \/ BindDone \/ RetryFlow
  BY <1>3, ConnectSteps
<1>4. CASE TrackArrives \/ TrackEnds \/ TrackTimerFires \/ ReadinessFires \/ SendViewerReady
  BY <1>4, TrackSteps
<1>5. CASE RequestPause \/ PauseSent \/ PauseResult \/ PauseRetry
  BY <1>5, PauseSteps
<1>6. CASE UNCHANGED vars
  <2> USE <1>6 DEF vars, flowVars, mediaVars, endVars, pauseVars, isCurrent
  <2>1. FlowTypes' /\ MediaTypes'
    BY DEF Inv, Types, FlowTypes, MediaTypes
  <2>2. EndTypes' /\ PauseTypes'
    BY DEF Inv, Types, EndTypes, PauseTypes
  <2>3. OneClient' /\ TeardownClears' /\ ClientOfFlow'
    BY DEF Inv, OneClient, TeardownClears, ClientOfFlow
  <2>4. EndIsReached' /\ AttemptsLeft' /\ PauseHalfWay'
    BY DEF Inv, EndIsReached, AttemptsLeft, PauseHalfWay
  <2>5. EndKept /\ LeftQuiet
    BY DEF EndKept, LeftQuiet
  <2> QED
    BY <2>1, <2>2, <2>3, <2>4, <2>5 DEF Kept, Inv, Types
<1> QED
  BY <1>1, <1>2, <1>3, <1>4, <1>5, <1>6 DEF Next, FlowStep, TeardownStep

LEMMA SessionIsClean == Inv => SessionInv
<1> SUFFICES ASSUME Inv PROVE SessionInv
  OBVIOUS
<1>1. TypeOK
  BY DEF Inv, Types, FlowTypes, MediaTypes, EndTypes, PauseTypes, ClientOfFlow, PauseHalfWay,
    TypeOK, Flows, Requests
<1>2. OneClient
  BY DEF Inv
<1>3. RestIsClean
  BY DEF Inv, OneClient, TeardownClears, EndIsReached, PauseHalfWay, Types, PauseTypes,
    RestIsClean, Attempts
<1> QED
  BY <1>1, <1>2, <1>3 DEF SessionInv

\* At most one media connection is in use and it is the session's client, and a session
\* that has failed or ended holds no client, timer, waiter or half-made pause once its
\* flow, teardown and pause are over (beginTeardown), for any number of
\* retransmissions, pauses and attempts to pause.
THEOREM SessionLeavesNothing == Spec => []SessionInv
<1>1. Inv /\ [Next]_vars => Inv'
  BY InvStep DEF Kept
<1> QED
  BY <1>1, InitInv, SessionIsClean, PTL DEF Spec

\* No step of a flow, a timer or a pause takes a session out of its end.
THEOREM EndIsFinal == Spec => EndedIsFinal
<1>1. Inv /\ [Next]_vars => Inv' /\ [state = "ended" => state' = "ended"]_vars
  BY InvStep DEF Kept, EndKept
<1> QED
  BY <1>1, InitInv, PTL DEF Spec, EndedIsFinal

\* No copy of a join and no ready of an attempt follows its leave: a flow that goes on
\* after the teardown finds its generation outdated.
THEOREM LeaveComesLast == Spec => LeaveIsLast
<1>1. Inv /\ [Next]_vars => Inv' /\
        [\A a \in left : joins'[a] = joins[a] /\ (a \in ready' => a \in ready)]_vars
  BY InvStep DEF Kept, LeftQuiet
<1> QED
  BY <1>1, InitInv, PTL DEF Spec, LeaveIsLast

=============================================================================
