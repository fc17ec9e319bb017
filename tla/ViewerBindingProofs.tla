--------------------------- MODULE ViewerBindingProofs ---------------------------
(***************************************************************************)
(* A device is served by one mapping, its cues pair up, a pending departure *)
(* belongs to a link that is down, and a stopped host serves nobody: for    *)
(* any number of attempts, media sessions, tokens, messages and faults.     *)
(***************************************************************************)
EXTENDS ViewerBinding, TLAPS

Tokens == [attempt : Attempts, session : Sessions, state : TokenStates]
PresenceStates == {"accepted", "media-bound", "ready", "departed"}
Presences == [attempt : 0..MaxAttempts, state : PresenceStates, timer : BOOLEAN,
              joined : BOOLEAN, left : BOOLEAN]
Messages == [type : {"join", "ready", "leave"}, attempt : Attempts, session : Sessions]

\* The timers are those of the departed presences, and only a presence that counts a
\* join cue as played, and no leave cue yet, says that it joined.
PresenceOK(s) ==
    /\ presence[s].timer <=> presence[s].state = "departed"
    /\ \A a \in Attempts : <<s, a>> \in timers <=> presence[s].timer /\ presence[s].attempt = a
    /\ presence[s].timer \/ presence[s].joined => presence[s].attempt # 0
    /\ ~presence[s].left
    /\ presence[s].joined => joins[presence[s].attempt] = 1 /\ leaves[presence[s].attempt] = 0

\* No attempt has joined in two media sessions.
JoinedOnce ==
    \A s, x \in Sessions :
       presence[s].joined /\ presence[x].joined /\ presence[s].attempt = presence[x].attempt =>
         s = x

CuesOK(a) == joins[a] <= 1 /\ leaves[a] <= joins[a]

PresenceInv ==
    /\ presence \in [Sessions -> Presences] /\ timers \subseteq Sessions \X Attempts
    /\ joins \in [Attempts -> Nat] /\ leaves \in [Attempts -> Nat]
    /\ \A s \in Sessions : PresenceOK(s)
    /\ JoinedOnce /\ \A a \in Attempts : CuesOK(a)

PendingIsDown(s) ==
    presence[s].timer /\ mapping[s] # 0 =>
       mapping[s] = presence[s].attempt /\ link[mapping[s]] \in {"down", "cut"}

MappingInv ==
    /\ mapping \in [Sessions -> 0..MaxAttempts]
    /\ OneMapping /\ StoppedServesNobody /\ \A s \in Sessions : PendingIsDown(s)

TokenInv ==
    /\ stream \in StreamStates /\ listed \in BOOLEAN /\ (active # 0 <=> stream = "active")
    /\ active \in 0..MaxSessions /\ sessions \in active..MaxSessions
    /\ tokens \in Seq(Tokens) /\ processed \in [Attempts -> 0..Len(tokens)]
    /\ kicked \subseteq Sessions

\* An attempt that waits for an answer is still joining when the answer comes.
ViewerInv ==
    /\ viewer \in [Attempts ->
         [phase : Phases, session : 0..MaxSessions, token : 0..Len(tokens)]]
    /\ answers \subseteq [attempt : Attempts, token : 0..Len(tokens)]
    /\ \A a \in Attempts : viewer[a].phase # "none" => viewer[a].session # 0
    /\ \A a \in Attempts : viewer[a].phase = "connecting" => viewer[a].token # 0
    /\ \A r \in answers : viewer[r.attempt].phase = "joining"

\* One ready message per attempt, and its join cue has not played before.
ReadyAt(i) == control[i].type = "ready"
ReadyOnce ==
    /\ \A i \in 1..Len(control) : ReadyAt(i) =>
          /\ viewer[control[i].attempt].phase \in {"ready", "gone"}
          /\ joins[control[i].attempt] = 0
    /\ \A i, j \in 1..Len(control) :
          ReadyAt(i) /\ ReadyAt(j) /\ control[i].attempt = control[j].attempt => i = j

MailInv ==
    /\ control \in Seq(Messages) /\ ReadyOnce
    /\ \A a \in Attempts : joins[a] # 0 => viewer[a].phase \in {"ready", "gone"}

\* A host that does not publish has no link, and binds come over links that are up.
LinkInv ==
    /\ link \in [Attempts -> {"none", "up", "down", "cut"}]
    /\ binds \subseteq [attempt : Attempts, token : 1..Len(tokens)]
    /\ \A a \in Attempts : link[a] \in {"up", "down"} => active # 0
    /\ \A b \in binds : link[b.attempt] = "up"

Inv == PresenceInv /\ MappingInv /\ TokenInv /\ ViewerInv /\ MailInv /\ LinkInv

-----------------------------------------------------------------------------
(* What a step leaves alone *)

LEMMA PresenceSame ==
    PresenceInv /\ UNCHANGED <<presence, timers, joins, leaves>> => PresenceInv'
BY DEF PresenceInv, PresenceOK, JoinedOnce, CuesOK

LEMMA MappingSame ==
    MappingInv /\ UNCHANGED <<mapping, stream, presence, link>> => MappingInv'
BY DEF MappingInv, OneMapping, StoppedServesNobody, PendingIsDown

LEMMA TokenSame ==
    TokenInv /\ UNCHANGED <<stream, active, listed, sessions, tokens, processed, kicked>> =>
      TokenInv'
BY DEF TokenInv

LEMMA ViewerSame == ViewerInv /\ UNCHANGED <<viewer, answers>> /\ Len(tokens') = Len(tokens)
                      => ViewerInv'
BY DEF ViewerInv

LEMMA MailSame == MailInv /\ UNCHANGED <<control, viewer, joins>> => MailInv'
BY DEF MailInv, ReadyOnce, ReadyAt

LEMMA LinkSame == LinkInv /\ UNCHANGED <<link, binds, active>> /\ Len(tokens') = Len(tokens)
                    => LinkInv'
BY DEF LinkInv

\* Mappings that are removed disturb no other.
LEMMA MappingsRemoved ==
    ASSUME Inv, NEW S, RemoveMappings(S), UNCHANGED <<stream, presence, link>>
    PROVE  MappingInv'
BY BindingAssumption DEF Inv, MappingInv, RemoveMappings, OneMapping, StoppedServesNobody,
  PendingIsDown

-----------------------------------------------------------------------------
(* The stream of the host *)

LEMMA StreamSteps ==
    ASSUME Inv, StartStream \/ StopStream \/ BeginRestart \/ RestartDone \/ RestartFails
                  \/ EntryExpires
    PROVE  Inv'
<1> USE BindingAssumption DEF hostVars, netVars, streamVars, Inv
<1>1. CASE StartStream
  <2> USE <1>1 DEF StartStream
  <2>1. PresenceInv' /\ ViewerInv' /\ MailInv'
    BY PresenceSame, ViewerSame, MailSame
  <2>2. MappingInv'
    BY DEF MappingInv, OneMapping, StoppedServesNobody, PendingIsDown
  <2>3. TokenInv' /\ LinkInv'
    BY DEF TokenInv, LinkInv, StreamStates
  <2> QED
    BY <2>1, <2>2, <2>3
<1>2. CASE StopStream
  <2> USE <1>2 DEF StopStream
  <2>1. PresenceInv' /\ ViewerInv' /\ MailInv'
    BY PresenceSame, ViewerSame, MailSame
  <2>2. MappingInv'
    BY DEF MappingInv, OneMapping, StoppedServesNobody, PendingIsDown, RemoveMappings, RemovedAtStop
  <2>3. TokenInv'
    BY DEF TokenInv, StreamStates
  <2>4. LinkInv'
    BY DEF LinkInv, CutLinks
  <2> QED
    BY <2>1, <2>2, <2>3, <2>4
<1>3. CASE BeginRestart
  <2> USE <1>3 DEF BeginRestart
  <2>1. PresenceInv' /\ ViewerInv' /\ MailInv'
    BY PresenceSame, ViewerSame, MailSame
  <2>2. MappingInv'
    BY DEF MappingInv, OneMapping, StoppedServesNobody, PendingIsDown, CutLinks, Attempts
  <2>3. TokenInv'
    BY DEF TokenInv, StreamStates
  <2>4. LinkInv'
    BY DEF LinkInv, CutLinks
  <2> QED
    BY <2>1, <2>2, <2>3, <2>4
<1>4. CASE RestartDone
  <2> USE <1>4 DEF RestartDone
  <2>1. PresenceInv' /\ ViewerInv' /\ MailInv'
    BY PresenceSame, ViewerSame, MailSame
  <2>2. MappingInv'
    BY DEF MappingInv, OneMapping, StoppedServesNobody, PendingIsDown
  <2>3. TokenInv'
    <3>1. stream' \in StreamStates
      BY DEF StreamStates
    <3>2. sessions \in Nat /\ sessions + 1 # 0 /\ sessions + 1 \in 0..MaxSessions
      BY DEF TokenInv
    <3> QED
      BY <3>1, <3>2 DEF TokenInv
  <2>4. LinkInv'
    BY DEF TokenInv, LinkInv
  <2> QED
    BY <2>1, <2>2, <2>3, <2>4
<1>5. CASE RestartFails \/ EntryExpires
  <2> USE <1>5 DEF RestartFails, EntryExpires
  <2>1. PresenceInv' /\ ViewerInv' /\ MailInv'
    BY PresenceSame, ViewerSame, MailSame
  <2>2. MappingInv'
    BY DEF MappingInv, OneMapping, StoppedServesNobody, PendingIsDown
  <2>3. TokenInv' /\ LinkInv'
    BY DEF TokenInv, LinkInv, StreamStates
  <2> QED
    BY <2>1, <2>2, <2>3
<1> QED
  BY <1>1, <1>2, <1>3, <1>4, <1>5

-----------------------------------------------------------------------------
(* The attempts of the viewer *)

LEMMA MessagesTyped ==
    ASSUME MailInv, NEW i \in 1..Len(control)
    PROVE  /\ control[i] \in Messages /\ control[i].attempt \in Attempts
           /\ control[i].session \in Sessions
<1>1. control[i] \in Messages
  BY DEF MailInv
<1> QED
  BY <1>1 DEF Messages

LEMMA SentMessages ==
    ASSUME NEW m \in Messages, control \in Seq(Messages), Send(m)
    PROVE  /\ control' \in Seq(Messages) /\ Len(control') = Len(control) + 1
           /\ \A i \in 1..Len(control) : control'[i] = control[i]
           /\ control'[Len(control) + 1] = m
BY DEF Send

LEMMA JoinSteps ==
    ASSUME Inv, Join \/ ResendJoin
    PROVE  Inv'
<1> USE BindingAssumption DEF hostVars, streamVars, Inv
<1>1. PICK a \in Attempts, s \in Sessions :
         /\ Send([type |-> "join", attempt |-> a, session |-> s])
         /\ viewer[a].phase \in {"none", "joining"}
         /\ \/ viewer[a].phase = "joining" /\ viewer' = viewer
            \/ /\ viewer[a].phase = "none"
               /\ viewer' = [viewer EXCEPT ![a] = [phase |-> "joining", session |-> s, token |-> 0]]
  <2>1. CASE Join
    <3>1. 1..sessions \subseteq Sessions
      BY DEF TokenInv, Sessions
    <3> QED
      BY <2>1, <3>1 DEF Join, Started
  <2>2. CASE ResendJoin
    <3>1. \A a \in Attempts : viewer[a].phase # "none" => viewer[a].session \in Sessions
      BY DEF ViewerInv, Sessions
    <3> QED
      BY <2>2, <3>1 DEF ResendJoin, Message
  <2> QED
    BY <2>1, <2>2
<1>2. UNCHANGED <<stream, active, listed, sessions, tokens, processed, mapping, presence,
                  timers, kicked, joins,
                  leaves, link, answers, binds>>
  BY DEF Join, ResendJoin
<1>3. PresenceInv' /\ MappingInv' /\ TokenInv' /\ LinkInv'
  BY <1>2, PresenceSame, MappingSame, TokenSame, LinkSame
<1>4. ViewerInv'
  <2>1. [phase |-> "joining", session |-> s, token |-> 0] \in
           [phase : Phases, session : 0..MaxSessions, token : 0..Len(tokens)]
    BY DEF Phases, Sessions, TokenInv
  <2>2. /\ viewer' \in [Attempts ->
              [phase : Phases, session : 0..MaxSessions, token : 0..Len(tokens)]]
        /\ answers \subseteq [attempt : Attempts, token : 0..Len(tokens)]
    BY <1>1, <2>1 DEF ViewerInv
  <2>3. \A b \in Attempts : viewer'[b] = viewer[b] \/
           (viewer'[b].phase = "joining" /\ viewer'[b].session = s)
    BY <1>1 DEF ViewerInv
  <2>4. /\ \A b \in Attempts : viewer'[b].phase # "none" => viewer'[b].session # 0
        /\ \A b \in Attempts : viewer'[b].phase = "connecting" => viewer'[b].token # 0
    <3>1. s # 0
      BY DEF Sessions
    <3> QED
      BY <2>3, <3>1 DEF ViewerInv
  <2>5. \A r \in answers : viewer'[r.attempt].phase = "joining"
    BY <2>2, <2>3 DEF ViewerInv
  <2> QED
    BY <1>2, <2>2, <2>4, <2>5 DEF ViewerInv
<1>5. MailInv'
  <2> DEFINE m == [type |-> "join", attempt |-> a, session |-> s]
  <2>1. m \in Messages /\ m.type = "join"
    BY DEF Messages
  <2>2. /\ control' \in Seq(Messages) /\ Len(control') = Len(control) + 1
        /\ \A i \in 1..Len(control) : control'[i] = control[i]
        /\ control'[Len(control) + 1] = m
    BY <1>1, <2>1, SentMessages DEF MailInv
  <2>3. \A b \in Attempts : viewer[b].phase \in {"ready", "gone"} => viewer'[b] = viewer[b]
    BY <1>1 DEF ViewerInv
  <2>4. \A i \in 1..Len(control) : control[i].attempt \in Attempts
    BY MessagesTyped
  <2>5. \A i \in 1..Len(control') : ReadyAt(i)' => i \in 1..Len(control) /\ ReadyAt(i)
    BY <2>1, <2>2 DEF ReadyAt, MailInv
  <2>6. ReadyOnce'
    BY <1>2, <2>2, <2>3, <2>4, <2>5 DEF MailInv, ReadyOnce
  <2> QED
    BY <1>2, <2>2, <2>3, <2>6 DEF MailInv
<1> QED
  BY <1>3, <1>4, <1>5

\* The attempt a comes to phase ph, which is neither a start nor a new wait for an answer.
LEMMA PhaseMoves ==
    ASSUME Inv, NEW a \in Attempts, NEW ph \in Phases, NEW t \in 0..Len(tokens),
           viewer[a].phase # "none", ph \notin {"none", "joining"}, ph = "connecting" => t # 0,
           viewer' = [viewer EXCEPT ![a].phase = ph, ![a].token = t],
           answers' \subseteq answers, \A r \in answers' : r.attempt # a, tokens' = tokens
    PROVE  ViewerInv'
<1>1. /\ viewer' \in [Attempts ->
            [phase : Phases, session : 0..MaxSessions, token : 0..Len(tokens)]]
      /\ viewer'[a].phase = ph /\ viewer'[a].token = t /\ viewer'[a].session = viewer[a].session
      /\ \A b \in Attempts : b # a => viewer'[b] = viewer[b]
  BY DEF Inv, ViewerInv
<1>2. answers' \subseteq [attempt : Attempts, token : 0..Len(tokens)]
  BY DEF Inv, ViewerInv
<1>3. \A b \in Attempts : viewer'[b].phase # "none" => viewer'[b].session # 0
  BY <1>1 DEF Inv, ViewerInv
<1>4. \A b \in Attempts : viewer'[b].phase = "connecting" => viewer'[b].token # 0
  BY <1>1 DEF Inv, ViewerInv
<1>5. \A r \in answers' : viewer'[r.attempt].phase = "joining"
  BY <1>1, <1>2 DEF Inv, ViewerInv
<1> QED
  BY <1>1, <1>2, <1>3, <1>4, <1>5 DEF ViewerInv

\* A phase that is neither "ready" nor "gone" was not so before: messages that are under
\* way keep what is said of them.
LEMMA MailKept ==
    ASSUME Inv, control' = control, joins' = joins,
           \A b \in Attempts : viewer[b].phase \in {"ready", "gone"} =>
              viewer'[b].phase \in {"ready", "gone"}
    PROVE  MailInv'
<1>1. \A i \in 1..Len(control) : control[i].attempt \in Attempts
  BY MessagesTyped DEF Inv
<1> QED
  BY <1>1 DEF Inv, MailInv, ReadyOnce, ReadyAt

LEMMA AnswerSteps ==
    ASSUME Inv, TakeAnswer \/ LoseAnswer
    PROVE  Inv'
<1> USE BindingAssumption DEF hostVars, streamVars, Inv
<1>1. UNCHANGED <<stream, active, listed, sessions, tokens, processed, mapping, presence,
                  timers, kicked, joins,
                  leaves, link, control, binds>>
  BY DEF TakeAnswer, LoseAnswer
<1>2. PresenceInv' /\ MappingInv' /\ TokenInv' /\ LinkInv'
  BY <1>1, PresenceSame, MappingSame, TokenSame, LinkSame
<1>3. CASE TakeAnswer
  <2>1. PICK r \in answers :
           /\ answers' = {}
           /\ viewer' = [viewer EXCEPT ![r.attempt].phase =
                                          IF r.token = 0 THEN "gone" ELSE "connecting",
                                       ![r.attempt].token = r.token]
    BY <1>3 DEF TakeAnswer
  <2>2. /\ r.attempt \in Attempts /\ r.token \in 0..Len(tokens)
        /\ viewer[r.attempt].phase = "joining"
    BY DEF ViewerInv
  <2> DEFINE ph == IF r.token = 0 THEN "gone" ELSE "connecting"
  <2>3. ph \in Phases /\ ph \notin {"none", "joining"} /\ (ph = "connecting" => r.token # 0)
    BY DEF Phases
  <2>4. viewer' = [viewer EXCEPT ![r.attempt].phase = ph, ![r.attempt].token = r.token]
    BY <2>1
  <2> HIDE DEF ph
  <2>5. ViewerInv'
    BY <1>1, <2>1, <2>2, <2>3, <2>4, PhaseMoves
  <2>6. MailInv'
    BY <1>1, <2>1, <2>2, MailKept DEF ViewerInv
  <2> QED
    BY <1>2, <2>5, <2>6
<1>4. CASE LoseAnswer
  <2>1. ViewerInv' /\ MailInv'
    BY <1>4, <1>1, MailSame DEF LoseAnswer, ViewerInv
  <2> QED
    BY <1>2, <2>1
<1> QED
  BY <1>3, <1>4

LEMMA SendBindStep == ASSUME Inv, SendBind PROVE Inv'
<1> USE BindingAssumption DEF Inv
<1>1. PICK a \in Attempts :
         /\ viewer[a].phase = "connecting" /\ link[a] = "up"
         /\ viewer' = [viewer EXCEPT ![a].phase = "bound", ![a].token = 0]
         /\ binds' = binds \cup {[attempt |-> a, token |-> viewer[a].token]}
  BY DEF SendBind
<1>2. UNCHANGED <<stream, active, listed, sessions, tokens, processed, mapping, presence,
                  timers, kicked, joins,
                  leaves, link, control, answers>>
  BY DEF SendBind, hostVars, streamVars
<1>3. PresenceInv' /\ MappingInv' /\ TokenInv'
  BY <1>2, PresenceSame, MappingSame, TokenSame
<1>4. Len(tokens) \in Nat
  BY DEF TokenInv
<1>5. ViewerInv'
  <2>1. \A r \in answers : r.attempt # a
    BY <1>1 DEF ViewerInv
  <2> DEFINE ph == "bound"
             t == 0
  <2>2. ph \in Phases /\ ph \notin {"none", "joining", "connecting"} /\ t \in 0..Len(tokens)
    BY <1>4 DEF Phases
  <2>3. viewer' = [viewer EXCEPT ![a].phase = ph, ![a].token = t]
    BY <1>1
  <2>4. viewer[a].phase # "none"
    BY <1>1
  <2> HIDE DEF ph, t
  <2> QED
    BY <1>2, <2>1, <2>2, <2>3, <2>4, PhaseMoves
<1>6. MailInv'
  BY <1>1, <1>2, MailKept DEF ViewerInv
<1>7. LinkInv'
  <2>1. viewer[a].token \in 1..Len(tokens)
    BY <1>1, <1>4 DEF ViewerInv
  <2> QED
    BY <1>1, <1>2, <2>1 DEF LinkInv
<1> QED
  BY <1>3, <1>5, <1>6, <1>7

LEMMA SendReadyStep == ASSUME Inv, SendReady PROVE Inv'
<1> USE BindingAssumption DEF Inv
<1>1. PICK a \in Attempts :
         /\ viewer[a].phase = "bound" /\ link[a] = "up"
         /\ viewer' = [viewer EXCEPT ![a].phase = "ready"]
         /\ Send(Message("ready", a))
  BY DEF SendReady
<1>2. UNCHANGED <<stream, active, listed, sessions, tokens, processed, mapping, presence,
                  timers, kicked, joins,
                  leaves, link, answers, binds>>
  BY DEF SendReady, hostVars, streamVars
<1>3. PresenceInv' /\ MappingInv' /\ TokenInv' /\ LinkInv'
  BY <1>2, PresenceSame, MappingSame, TokenSame, LinkSame
<1>4. viewer[a].session \in Sessions /\ viewer[a].token \in 0..Len(tokens)
  BY <1>1 DEF ViewerInv, Sessions
<1>5. ViewerInv'
  <2>1. \A r \in answers : r.attempt # a
    BY <1>1 DEF ViewerInv
  <2> DEFINE ph == "ready"
             t == viewer[a].token
  <2>2. ph \in Phases /\ ph \notin {"none", "joining", "connecting"} /\ t \in 0..Len(tokens)
    BY <1>4 DEF Phases
  <2>3. viewer' = [viewer EXCEPT ![a].phase = ph, ![a].token = t]
    BY <1>1 DEF ViewerInv
  <2>4. viewer[a].phase # "none"
    BY <1>1
  <2> HIDE DEF ph, t
  <2> QED
    BY <1>2, <2>1, <2>2, <2>3, <2>4, PhaseMoves
<1>6. MailInv'
  <2> DEFINE m == Message("ready", a)
  <2>1. m \in Messages /\ m.attempt = a
    BY <1>4 DEF Messages, Message
  <2>2. /\ control' \in Seq(Messages) /\ Len(control') = Len(control) + 1
        /\ \A i \in 1..Len(control) : control'[i] = control[i]
        /\ control'[Len(control) + 1] = m
    BY <1>1, <2>1, SentMessages DEF MailInv
  <2>3. /\ viewer'[a].phase = "ready"
        /\ \A b \in Attempts : b # a => viewer'[b] = viewer[b]
    BY <1>1 DEF ViewerInv
  <2>4. joins[a] = 0
    BY <1>1 DEF MailInv
  <2>5. \A i \in 1..Len(control) :
        control[i].attempt \in Attempts /\ (ReadyAt(i) => control[i].attempt # a)
    BY <1>1, MessagesTyped DEF MailInv, ReadyOnce
  <2>6. \A i \in 1..Len(control') : (i \in 1..Len(control) /\ control'[i] = control[i]) \/
        (i = Len(control) + 1 /\ control'[i] = m)
    BY <2>2 DEF MailInv
  <2>7. \A i \in 1..Len(control') : ReadyAt(i)' =>
           /\ viewer'[control'[i].attempt].phase \in {"ready", "gone"}
           /\ joins'[control'[i].attempt] = 0
    BY <1>2, <2>1, <2>3, <2>4, <2>5, <2>6 DEF MailInv, ReadyOnce, ReadyAt
  <2>8. \A i, j \in 1..Len(control') :
           ReadyAt(i)' /\ ReadyAt(j)' /\ control'[i].attempt = control'[j].attempt => i = j
    BY <2>1, <2>5, <2>6 DEF MailInv, ReadyOnce, ReadyAt
  <2>9. \A b \in Attempts : joins'[b] # 0 => viewer'[b].phase \in {"ready", "gone"}
    BY <1>2, <2>3 DEF MailInv
  <2> QED
    BY <2>2, <2>7, <2>8, <2>9 DEF MailInv, ReadyOnce
<1> QED
  BY <1>3, <1>5, <1>6

LEMMA EndAttemptStep == ASSUME Inv, EndAttempt PROVE Inv'
<1> USE BindingAssumption DEF Inv
<1>1. PICK a \in Attempts :
         /\ Watching(a)
         /\ viewer' = [viewer EXCEPT ![a].phase = "gone"]
         /\ Send(Message("leave", a)) \/ control' = control
         /\ answers' = {}
  BY DEF EndAttempt
<1>2. UNCHANGED <<stream, active, listed, sessions, tokens, processed, mapping, presence,
                  timers, kicked, joins,
                  leaves, link, binds>>
  BY DEF EndAttempt, hostVars, streamVars
<1>3. PresenceInv' /\ MappingInv' /\ TokenInv' /\ LinkInv'
  BY <1>2, PresenceSame, MappingSame, TokenSame, LinkSame
<1>4. viewer[a].session \in Sessions /\ viewer[a].token \in 0..Len(tokens) /\
      viewer[a].phase # "none"
  BY <1>1 DEF ViewerInv, Sessions, Watching
<1>5. ViewerInv'
  <2> DEFINE ph == "gone"
             t == viewer[a].token
  <2>1. answers' = {}
    BY <1>1
  <2>2. ph \in Phases /\ ph \notin {"none", "joining", "connecting"} /\ t \in 0..Len(tokens)
    BY <1>4 DEF Phases
  <2>3. viewer' = [viewer EXCEPT ![a].phase = ph, ![a].token = t]
    BY <1>1 DEF ViewerInv
  <2> HIDE DEF ph, t
  <2> QED
    BY <1>2, <1>4, <2>1, <2>2, <2>3, PhaseMoves
<1>6. /\ viewer'[a].phase = "gone"
      /\ \A b \in Attempts : b # a => viewer'[b] = viewer[b]
  BY <1>1 DEF ViewerInv
<1>7. CASE control' = control
  <2>1. MailInv'
    BY <1>2, <1>6, <1>7, MailKept
  <2> QED
    BY <1>3, <1>5, <2>1
<1>8. CASE Send(Message("leave", a))
  <2> DEFINE m == Message("leave", a)
  <2>1. m \in Messages /\ m.type = "leave"
    BY <1>4 DEF Messages, Message
  <2>2. /\ control' \in Seq(Messages) /\ Len(control') = Len(control) + 1
        /\ \A i \in 1..Len(control) : control'[i] = control[i]
        /\ control'[Len(control) + 1] = m
    BY <1>8, <2>1, SentMessages DEF MailInv
  <2>3. \A i \in 1..Len(control) : control[i].attempt \in Attempts
    BY MessagesTyped
  <2>4. \A i \in 1..Len(control') : ReadyAt(i)' => i \in 1..Len(control) /\ ReadyAt(i)
    BY <2>1, <2>2 DEF ReadyAt, MailInv
  <2>5. \A b \in Attempts : viewer[b].phase \in {"ready", "gone"} =>
                               viewer'[b].phase \in {"ready", "gone"}
    BY <1>6
  <2>6. \A i \in 1..Len(control') : ReadyAt(i)' =>
           /\ viewer'[control'[i].attempt].phase \in {"ready", "gone"}
           /\ joins'[control'[i].attempt] = 0
    BY <1>2, <2>2, <2>3, <2>4, <2>5 DEF MailInv, ReadyOnce
  <2>7. \A i, j \in 1..Len(control') :
           ReadyAt(i)' /\ ReadyAt(j)' /\ control'[i].attempt = control'[j].attempt => i = j
    BY <2>2, <2>4 DEF MailInv, ReadyOnce
  <2>8. MailInv'
    BY <1>2, <2>2, <2>5, <2>6, <2>7 DEF MailInv, ReadyOnce
  <2> QED
    BY <1>3, <1>5, <2>8
<1> QED
  BY <1>1, <1>7, <1>8

-----------------------------------------------------------------------------
(* Presences *)

\* What a presence must be, seen by itself.
Sound(q) ==
    /\ q \in Presences /\ ~q.left
    /\ q.timer <=> q.state = "departed"
    /\ q.timer \/ q.joined => q.attempt # 0

LEMMA PresenceSound ==
    ASSUME PresenceInv, NEW s \in Sessions
    PROVE  Sound(presence[s])
BY DEF PresenceInv, PresenceOK, Sound

\* One presence is replaced, together with its timer and the cues it counts.
LEMMA PresenceReplaced ==
    ASSUME PresenceInv, NEW s \in Sessions, NEW q, Sound(q),
           presence' = [presence EXCEPT ![s] = q],
           timers' \subseteq Sessions \X Attempts,
           \A x \in Sessions, a \in Attempts :
              <<x, a>> \in timers' <=>
                IF x = s THEN q.timer /\ q.attempt = a ELSE <<x, a>> \in timers,
           joins' \in [Attempts -> Nat], leaves' \in [Attempts -> Nat],
           \A a \in Attempts : CuesOK(a)',
           q.joined => joins'[q.attempt] = 1 /\ leaves'[q.attempt] = 0,
           \A x \in Sessions : x # s /\ presence[x].joined =>
              /\ joins'[presence[x].attempt] = joins[presence[x].attempt]
              /\ leaves'[presence[x].attempt] = leaves[presence[x].attempt]
              /\ q.joined => presence[x].attempt # q.attempt
    PROVE  PresenceInv'
<1>1. presence'[s] = q /\ \A x \in Sessions : x # s => presence'[x] = presence[x]
  BY DEF PresenceInv
<1>2. presence' \in [Sessions -> Presences]
  BY DEF PresenceInv, Sound
<1>3. ASSUME NEW x \in Sessions PROVE PresenceOK(x)'
  <2>1. CASE x = s
    BY <1>1, <2>1 DEF PresenceOK, Sound
  <2>2. CASE x # s
    BY <1>1, <2>2 DEF PresenceInv, PresenceOK
  <2> QED
    BY <2>1, <2>2
<1>4. JoinedOnce'
  BY <1>1 DEF PresenceInv, JoinedOnce
<1> QED
  BY <1>2, <1>3, <1>4 DEF PresenceInv

LEMMA AbsentSound == Sound(Absent) /\ ~Absent.timer /\ ~Absent.joined
<1>1. 0 \in 0..MaxAttempts
  BY BindingAssumption
<1> QED
  BY <1>1 DEF Sound, Absent, Presences, PresenceStates

LEMMA NewSound ==
    ASSUME NEW a \in Attempts, NEW st \in {"accepted", "media-bound"}
    PROVE  /\ Sound(NewPresence(a, st)) /\ NewPresence(a, st).attempt = a
           /\ ~NewPresence(a, st).joined /\ ~NewPresence(a, st).timer
<1>1. a \in 0..MaxAttempts /\ a # 0
  BY BindingAssumption DEF Attempts
<1>2. st \in PresenceStates /\ st # "departed"
  BY DEF PresenceStates
<1>3. NewPresence(a, st) \in Presences
  BY <1>1, <1>2, AbsentSound DEF Sound, NewPresence, Presences
<1>4. /\ NewPresence(a, st).attempt = a /\ NewPresence(a, st).state = st
      /\ NewPresence(a, st).timer = FALSE /\ NewPresence(a, st).joined = FALSE
      /\ NewPresence(a, st).left = FALSE
  BY DEF NewPresence, Absent
<1> QED
  BY <1>1, <1>2, <1>3, <1>4 DEF Sound

LEMMA UpsertKeeps ==
    ASSUME PresenceInv, NEW s \in Sessions, NEW a \in Attempts,
           NEW st \in {"accepted", "media-bound"},
           UpsertPresence(s, a, st), UNCHANGED <<joins, leaves>>
    PROVE  PresenceInv' /\ ~presence'[s].timer /\ \A x \in Sessions : x # s =>
           presence'[x] = presence[x]
<1> DEFINE q == Upserted(presence[s], a, st)
<1>1. Sound(q) /\ ~q.timer
  <2>1. Sound(presence[s])
    BY PresenceSound
  <2>2. CASE presence[s].attempt # a
    BY <2>2, NewSound, BindingAssumption DEF Upserted
  <2>3. CASE presence[s].attempt = a
    <3>1. st \in PresenceStates \ {"departed"}
      BY DEF PresenceStates
    <3>2. q = [presence[s] EXCEPT !.timer = FALSE, !.state = IF @ = "ready" THEN @ ELSE st]
      BY <2>3 DEF Upserted
    <3> QED
      BY <2>1, <3>1, <3>2 DEF Sound, Presences
  <2> QED
    BY <2>2, <2>3
<1>2. q.joined => presence[s].joined /\ q.attempt = presence[s].attempt
  BY NewSound, BindingAssumption, PresenceSound DEF Upserted, Sound, Presences
<1>3. presence' = [presence EXCEPT ![s] = q] /\ timers' = {t \in timers : t[1] # s}
  BY DEF UpsertPresence
<1> HIDE DEF q
<1>4. /\ timers' \subseteq Sessions \X Attempts
      /\ \A x \in Sessions, b \in Attempts :
            <<x, b>> \in timers' <=> IF x = s THEN q.timer /\ q.attempt = b ELSE <<x, b>> \in timers
  BY <1>1, <1>3 DEF PresenceInv
<1>5. q.joined => joins'[q.attempt] = 1 /\ leaves'[q.attempt] = 0
  BY <1>2 DEF PresenceInv, PresenceOK
<1>6. \A x \in Sessions : x # s /\ presence[x].joined =>
              /\ joins'[presence[x].attempt] = joins[presence[x].attempt]
              /\ leaves'[presence[x].attempt] = leaves[presence[x].attempt]
              /\ q.joined => presence[x].attempt # q.attempt
  BY <1>2 DEF PresenceInv, JoinedOnce
<1>7. /\ joins' \in [Attempts -> Nat] /\ leaves' \in [Attempts -> Nat]
      /\ \A b \in Attempts : CuesOK(b)'
  BY DEF PresenceInv, CuesOK
<1>8. PresenceInv'
  BY <1>1, <1>3, <1>4, <1>5, <1>6, <1>7, PresenceReplaced
<1> QED
  BY <1>1, <1>3, <1>8 DEF PresenceInv

LEMMA RecoverKeeps ==
    ASSUME PresenceInv, NEW s \in Sessions, NEW a \in Attempts, RecoverPresence(s, a),
           UNCHANGED <<joins, leaves>>
    PROVE  /\ PresenceInv'
           /\ (presence[s].timer => presence[s].attempt = a) => ~presence'[s].timer
           /\ \A x \in Sessions : x # s => presence'[x] = presence[x]
<1>1. CASE ~Recovers(presence[s], a)
  BY <1>1, PresenceSame DEF RecoverPresence, Recovers, PresenceInv, PresenceOK
<1>2. CASE Recovers(presence[s], a)
  <2> DEFINE q == [presence[s] EXCEPT !.timer = FALSE, !.state = "media-bound"]
  <2>1. /\ presence' = [presence EXCEPT ![s] = q] /\ timers' = timers \ {<<s, a>>}
        /\ presence[s].attempt = a
    BY <1>2 DEF RecoverPresence, Recovers, PresenceInv
  <2>2. Sound(q) /\ ~q.timer /\ q.joined = presence[s].joined /\ q.attempt = presence[s].attempt
    BY PresenceSound DEF Sound, Presences, PresenceStates
  <2> HIDE DEF q
  <2>3. \A x \in Sessions, b \in Attempts :
            <<x, b>> \in timers' <=> IF x = s THEN q.timer /\ q.attempt = b ELSE <<x, b>> \in timers
    BY <2>1, <2>2 DEF PresenceInv, PresenceOK
  <2>4. /\ timers' \subseteq Sessions \X Attempts
        /\ joins' \in [Attempts -> Nat] /\ leaves' \in [Attempts -> Nat]
        /\ \A b \in Attempts : CuesOK(b)'
    BY <2>1 DEF PresenceInv, CuesOK
  <2>5. q.joined => joins'[q.attempt] = 1 /\ leaves'[q.attempt] = 0
    BY <2>2 DEF PresenceInv, PresenceOK
  <2>6. \A x \in Sessions : x # s /\ presence[x].joined =>
              /\ joins'[presence[x].attempt] = joins[presence[x].attempt]
              /\ leaves'[presence[x].attempt] = leaves[presence[x].attempt]
              /\ q.joined => presence[x].attempt # q.attempt
    BY <2>2 DEF PresenceInv, JoinedOnce
  <2>7. PresenceInv'
    BY <2>1, <2>2, <2>3, <2>4, <2>5, <2>6, PresenceReplaced
  <2> QED
    BY <2>1, <2>2, <2>7 DEF PresenceInv
<1> QED
  BY <1>1, <1>2

LEMMA DepartKeeps ==
    ASSUME Inv, NEW s \in Sessions, NEW a \in Attempts, NEW explicit \in BOOLEAN,
           MarkDeparted(s, a, explicit), joins' = joins
    PROVE  /\ PresenceInv' /\ mapping' \in [Sessions -> 0..MaxAttempts]
           /\ \A x \in Sessions : mapping'[x] \in {0, mapping[x]}
           /\ \A x \in Sessions : x # s => presence'[x] = presence[x]
           /\ presence'[s].timer => \/ presence'[s] = presence[s]
                                    \/ ~explicit /\ presence'[s].attempt = a
<1> USE BindingAssumption DEF Inv
<1> DEFINE p == presence[s]
<1>1. Sound(p) /\ mapping \in [Sessions -> 0..MaxAttempts]
  BY PresenceSound DEF MappingInv
<1>2. CASE UNCHANGED <<presence, mapping, timers, leaves>>
  BY <1>1, <1>2, PresenceSame
<1>3. CASE Forget(s) /\ ~p.timer /\ timers' = timers /\ leaves' = leaves
  <2>1. presence' = [presence EXCEPT ![s] = Absent] /\ mapping' = [mapping EXCEPT ![s] = 0]
    BY <1>3 DEF Forget
  <2>3. Sound(Absent) /\ ~Absent.timer /\ ~Absent.joined
    BY AbsentSound
  <2>4. \A x \in Sessions, b \in Attempts :
            <<x, b>> \in timers' <=>
               IF x = s THEN Absent.timer /\ Absent.attempt = b ELSE <<x, b>> \in timers
    BY <1>3, <2>3 DEF PresenceInv, PresenceOK
  <2>5. /\ timers' \subseteq Sessions \X Attempts
        /\ joins' \in [Attempts -> Nat] /\ leaves' \in [Attempts -> Nat]
        /\ \A b \in Attempts : CuesOK(b)'
    BY <1>3 DEF PresenceInv, CuesOK
  <2>6. PresenceInv'
    BY <1>3, <2>1, <2>3, <2>4, <2>5, PresenceReplaced
  <2> QED
    BY <1>1, <2>1, <2>3, <2>6 DEF PresenceInv
<1>4. CASE /\ Forget(s) /\ p.state = "ready" /\ p.attempt = a /\ timers' = timers \ {<<s, a>>}
           /\ leaves' = IF p.joined /\ ~p.left THEN [leaves EXCEPT ![a] = @ + 1] ELSE leaves
  <2>1. presence' = [presence EXCEPT ![s] = Absent] /\ mapping' = [mapping EXCEPT ![s] = 0]
    BY <1>4 DEF Forget
  <2>2. Sound(Absent) /\ ~Absent.timer /\ ~Absent.joined
    BY AbsentSound
  <2>3. ~p.timer
    BY <1>1, <1>4 DEF Sound
  <2>4. \A x \in Sessions, b \in Attempts :
            <<x, b>> \in timers' <=>
               IF x = s THEN Absent.timer /\ Absent.attempt = b ELSE <<x, b>> \in timers
    BY <1>4, <2>2, <2>3 DEF PresenceInv, PresenceOK
  <2>5. timers' \subseteq Sessions \X Attempts /\ joins' \in [Attempts -> Nat]
    BY <1>4 DEF PresenceInv
  <2>6. /\ leaves' \in [Attempts -> Nat] /\ \A b \in Attempts : CuesOK(b)'
        /\ \A b \in Attempts : b # a => leaves'[b] = leaves[b]
        /\ p.joined \/ leaves' = leaves
    BY <1>4 DEF PresenceInv, PresenceOK, CuesOK
  <2>7. \A x \in Sessions : x # s /\ presence[x].joined =>
            leaves'[presence[x].attempt] = leaves[presence[x].attempt]
    <3>1. \A x \in Sessions : presence[x].joined => presence[x].attempt \in Attempts
      BY PresenceSound DEF Sound, Presences, Attempts
    <3> QED
      BY <1>4, <2>6, <3>1 DEF PresenceInv, JoinedOnce
  <2>8. PresenceInv'
    BY <2>1, <2>2, <2>4, <2>5, <2>6, <2>7, PresenceReplaced
  <2> QED
    BY <1>1, <2>1, <2>2, <2>8 DEF PresenceInv
<1>5. CASE /\ p.attempt = a /\ p.state = "ready" /\ ~explicit
           /\ presence' = [presence EXCEPT ![s].state = "departed", ![s].timer = TRUE]
           /\ timers' = timers \cup {<<s, a>>} /\ UNCHANGED <<mapping, leaves>>
  <2> DEFINE q == [p EXCEPT !.state = "departed", !.timer = TRUE]
  <2>1. presence' = [presence EXCEPT ![s] = q]
    BY <1>5 DEF PresenceInv
  <2>2. a # 0
    BY DEF Attempts
  <2>3. Sound(q) /\ q.timer /\ q.joined = p.joined /\ q.attempt = a
    BY <1>1, <1>5, <2>2 DEF Sound, Presences, PresenceStates
  <2> HIDE DEF q
  <2>4. ~p.timer
    BY <1>1, <1>5 DEF Sound
  <2>5. \A x \in Sessions, b \in Attempts :
            <<x, b>> \in timers' <=> IF x = s THEN q.timer /\ q.attempt = b ELSE <<x, b>> \in timers
    BY <1>5, <2>3, <2>4 DEF PresenceInv, PresenceOK
  <2>6. /\ timers' \subseteq Sessions \X Attempts
        /\ joins' \in [Attempts -> Nat] /\ leaves' \in [Attempts -> Nat]
        /\ \A b \in Attempts : CuesOK(b)'
    BY <1>5 DEF PresenceInv, CuesOK
  <2>7. q.joined => joins'[q.attempt] = 1 /\ leaves'[q.attempt] = 0
    <3>1. p.joined => joins[p.attempt] = 1 /\ leaves[p.attempt] = 0
      BY DEF PresenceInv, PresenceOK
    <3> QED
      BY <1>5, <2>3, <3>1
  <2>8. \A x \in Sessions : x # s /\ presence[x].joined =>
              /\ joins'[presence[x].attempt] = joins[presence[x].attempt]
              /\ leaves'[presence[x].attempt] = leaves[presence[x].attempt]
              /\ q.joined => presence[x].attempt # q.attempt
    BY <1>5, <2>3 DEF PresenceInv, JoinedOnce
  <2>9. PresenceInv'
    BY <2>1, <2>3, <2>5, <2>6, <2>7, <2>8, PresenceReplaced
  <2> QED
    BY <1>1, <1>5, <2>1, <2>3, <2>9 DEF PresenceInv
<1>6. p.state \in {"accepted", "media-bound"} => ~p.timer
  BY <1>1 DEF Sound
<1> QED
  BY <1>2, <1>3, <1>4, <1>5, <1>6 DEF MarkDeparted

-----------------------------------------------------------------------------
(* The handlers of the host *)

\* The request is answered; nothing else in the network changes.
LEMMA AnswersTyped ==
    ASSUME ViewerInv, NEW a \in Attempts, NEW t \in 0..Len(tokens'), Respond(a, t),
           Len(tokens) \in Nat, Len(tokens') \in Nat, Len(tokens) <= Len(tokens'), viewer' = viewer
    PROVE  ViewerInv'
<1>1. 0..Len(tokens) \subseteq 0..Len(tokens')
  OBVIOUS
<1>2. viewer' \in [Attempts ->
         [phase : Phases, session : 0..MaxSessions, token : 0..Len(tokens')]]
  BY <1>1 DEF ViewerInv
<1>3. answers \subseteq [attempt : Attempts, token : 0..Len(tokens')]
  BY <1>1 DEF ViewerInv
<1>4. [attempt |-> a, token |-> t] \in [attempt : Attempts, token : 0..Len(tokens')]
  OBVIOUS
<1>5. answers' \subseteq [attempt : Attempts, token : 0..Len(tokens')]
  BY <1>3, <1>4 DEF Respond
<1>6. \A r \in answers' : viewer'[r.attempt].phase = "joining"
  BY DEF ViewerInv, Respond
<1> QED
  BY <1>2, <1>5, <1>6 DEF ViewerInv

\* A message is taken off the queue; the cue of a ready message may play.
LEMMA MailTaken ==
    ASSUME MailInv, control # <<>>, control' = Tail(control), viewer' = viewer,
           joins' \in [Attempts -> Nat],
           \A b \in Attempts : joins'[b] = joins[b] \/ (ReadyAt(1) /\ control[1].attempt = b)
    PROVE  MailInv'
<1>1. /\ control' \in Seq(Messages) /\ Len(control) \in Nat /\ Len(control) > 0
      /\ Len(control') = Len(control) - 1
      /\ \A i \in 1..Len(control') : control'[i] = control[i + 1]
  BY DEF MailInv
<1>2. \A i \in 1..Len(control') : ReadyAt(i)' => ReadyAt(i + 1) /\ i + 1 \in 1..Len(control)
  BY <1>1 DEF ReadyAt
<1>3. \A i \in 1..Len(control) : control[i].attempt \in Attempts
  BY MessagesTyped
<1>4. 1 \in 1..Len(control)
  BY <1>1
<1>5. \A i \in 1..Len(control') : ReadyAt(i)' =>
           /\ viewer'[control'[i].attempt].phase \in {"ready", "gone"}
           /\ joins'[control'[i].attempt] = 0
  <2> SUFFICES ASSUME NEW i \in 1..Len(control'), ReadyAt(i)'
               PROVE  /\ viewer'[control'[i].attempt].phase \in {"ready", "gone"}
                      /\ joins'[control'[i].attempt] = 0
    OBVIOUS
  <2>1. control'[i] = control[i + 1] /\ ReadyAt(i + 1) /\ i + 1 \in 1..Len(control) /\ i + 1 # 1
    BY <1>1, <1>2
  <2>2. ~(ReadyAt(1) /\ control[1].attempt = control[i + 1].attempt)
    BY <1>4, <2>1 DEF MailInv, ReadyOnce
  <2> QED
    BY <1>3, <2>1, <2>2 DEF MailInv, ReadyOnce
<1>6. \A i, j \in 1..Len(control') :
           ReadyAt(i)' /\ ReadyAt(j)' /\ control'[i].attempt = control'[j].attempt => i = j
  <2> SUFFICES ASSUME NEW i \in 1..Len(control'), NEW j \in 1..Len(control'), ReadyAt(i)',
                      ReadyAt(j)',
                      control'[i].attempt = control'[j].attempt
               PROVE  i = j
    OBVIOUS
  <2>1. i + 1 = j + 1
    BY <1>1, <1>2 DEF MailInv, ReadyOnce
  <2> QED
    BY <2>1
<1>7. \A b \in Attempts : joins'[b] # 0 => viewer'[b].phase \in {"ready", "gone"}
  BY <1>4 DEF MailInv, ReadyOnce
<1> QED
  BY <1>1, <1>5, <1>6, <1>7 DEF MailInv, ReadyOnce

\* What is left of a bind, a link and a stream when tokens are only added or marked.
LEMMA LinksKept ==
    ASSUME LinkInv, UNCHANGED <<link, binds, active>>, Len(tokens) \in Nat, Len(tokens') \in Nat,
           Len(tokens) <= Len(tokens')
    PROVE  LinkInv'
<1>1. 1..Len(tokens) \subseteq 1..Len(tokens')
  OBVIOUS
<1> QED
  BY <1>1 DEF LinkInv

\* Mappings that are kept or removed: a departure is new only where the link is down.
LEMMA MappingsKept ==
    ASSUME MappingInv, stream' = stream,
           \A b \in 1..MaxAttempts : link'[b] = link[b] \/ link'[b] \in {"down", "cut"},
           mapping' \in [Sessions -> 0..MaxAttempts],
           \A x \in Sessions : mapping'[x] \in {0, mapping[x]},
           \A x \in Sessions : presence'[x].timer /\ mapping'[x] # 0 =>
              \/ presence'[x] = presence[x]
              \/ mapping'[x] = presence'[x].attempt /\ link'[mapping'[x]] \in {"down", "cut"}
    PROVE  MappingInv'
<1>1. OneMapping' /\ StoppedServesNobody'
  BY DEF MappingInv, OneMapping, StoppedServesNobody
<1>2. ASSUME NEW s \in Sessions PROVE PendingIsDown(s)'
  <2>1. mapping'[s] # 0 => mapping'[s] = mapping[s] /\ mapping'[s] \in 1..MaxAttempts
    BY BindingAssumption
  <2> QED
    BY <2>1 DEF MappingInv, PendingIsDown
<1> QED
  BY <1>1, <1>2 DEF MappingInv

LEMMA HandleJoinStep ==
    ASSUME Inv, NEW m \in Messages, HandleJoin(m), control # <<>>, control' = Tail(control),
           UNCHANGED <<streamVars, viewer, link, binds, faults>>
    PROVE  Inv'
<1> USE BindingAssumption DEF Inv
<1>1. m.attempt \in Attempts /\ m.session \in Sessions
  BY DEF Messages
<1>2. UNCHANGED <<stream, active, listed, sessions, viewer, link, binds, mapping, kicked, joins,
      leaves>>
  BY DEF streamVars, HandleJoin
<1>3. MailInv'
  <2>1. joins' \in [Attempts -> Nat]
    BY <1>2 DEF PresenceInv
  <2> QED
    BY <1>2, <2>1, MailTaken
<1>4. Len(tokens) \in Nat
  BY DEF TokenInv
<1>5. CASE /\ UNCHANGED <<tokens, processed, presence, timers>>
           /\ answers' = answers \/ (\E t \in 0..Len(tokens) : Respond(m.attempt, t))
  <2>1. PresenceInv' /\ MappingInv' /\ TokenInv' /\ LinkInv'
    BY <1>2, <1>5, PresenceSame, MappingSame, TokenSame, LinkSame
  <2>2. ViewerInv'
    <3>1. CASE answers' = answers
      BY <1>2, <1>5, <3>1, ViewerSame
    <3>2. ASSUME NEW t \in 0..Len(tokens), Respond(m.attempt, t) PROVE ViewerInv'
      <4>1. tokens' = tokens /\ t \in 0..Len(tokens') /\ Len(tokens) <= Len(tokens')
        BY <1>4, <1>5
      <4> QED
        BY <1>1, <1>2, <1>4, <3>2, <4>1, AnswersTyped
    <3> QED
      BY <1>5, <3>1, <3>2
  <2> QED
    BY <1>3, <2>1, <2>2
<1>6. ASSUME NEW s \in Sessions, AcceptJoin(m.attempt, s) PROVE Inv'
  <2> DEFINE n == Len(tokens) + 1
             k == [attempt |-> m.attempt, session |-> s, state |-> "live"]
  <2>2. /\ tokens' = Append(tokens, k) /\ processed' = [processed EXCEPT ![m.attempt] = n]
        /\ UpsertPresence(s, m.attempt, "accepted") /\ Respond(m.attempt, n)
    BY <1>6 DEF AcceptJoin
  <2>3. k \in Tokens
    BY <1>1, <1>6 DEF Tokens, TokenStates
  <2>4. tokens' \in Seq(Tokens) /\ Len(tokens') = n /\ n \in Nat /\ Len(tokens) <= n
    BY <2>2, <2>3 DEF TokenInv
  <2>5. TokenInv'
    <3>1. processed' \in [Attempts -> 0..n]
      BY <1>1, <1>4, <2>2 DEF TokenInv
    <3> QED
      BY <1>2, <2>4, <3>1 DEF TokenInv
  <2>6. /\ PresenceInv' /\ ~presence'[s].timer
        /\ \A x \in Sessions : x # s => presence'[x] = presence[x]
    BY <1>1, <1>2, <2>2, UpsertKeeps
  <2>7. MappingInv'
    BY <1>2, <2>6, MappingsKept DEF MappingInv
  <2>8. ViewerInv'
    BY <1>1, <1>2, <1>4, <2>2, <2>4, AnswersTyped
  <2>9. LinkInv'
    BY <1>2, <1>4, <2>4, LinksKept
  <2> QED
    BY <1>3, <2>5, <2>6, <2>7, <2>8, <2>9
<1>7. CASE RefuseJoin(m.attempt)
  BY <1>4, <1>5, <1>7 DEF RefuseJoin
<1>8. CASE RepeatJoin(m.attempt)
  <2>1. processed[m.attempt] \in 0..Len(tokens)
    BY <1>1 DEF TokenInv
  <2> QED
    BY <1>5, <1>8, <2>1 DEF RepeatJoin
<1> QED
  <2>1. CASE DecideJoin(m)
    <3>1. active # 0 => active \in Sessions
      BY DEF TokenInv, Sessions
    <3> QED
      BY <1>1, <1>6, <1>7, <2>1, <3>1 DEF DecideJoin, TokenInv
  <2> QED
    BY <1>7, <1>8, <2>1 DEF HandleJoin

LEMMA HandleLeaveStep ==
    ASSUME Inv, NEW m \in Messages, HandleLeave(m), control # <<>>, control' = Tail(control),
           UNCHANGED <<streamVars, viewer, link, binds, faults>>
    PROVE  Inv'
<1> USE DEF Inv
<1>1. m.attempt \in Attempts /\ m.session \in Sessions
  BY DEF Messages
<1>2. /\ UNCHANGED <<stream, active, listed, sessions, tokens, processed, kicked, joins, answers,
           viewer, link,
           binds>>
      /\ MarkDeparted(m.session, m.attempt, TRUE)
  BY DEF streamVars, HandleLeave
<1>3. TokenInv' /\ ViewerInv' /\ LinkInv'
  BY <1>2, TokenSame, ViewerSame, LinkSame
<1>4. MailInv'
  <2>1. joins' \in [Attempts -> Nat]
    BY <1>2 DEF PresenceInv
  <2> QED
    BY <1>2, <2>1, MailTaken
<1>5. /\ PresenceInv' /\ mapping' \in [Sessions -> 0..MaxAttempts]
      /\ \A x \in Sessions : mapping'[x] \in {0, mapping[x]}
      /\ \A x \in Sessions : x # m.session => presence'[x] = presence[x]
      /\ presence'[m.session].timer => presence'[m.session] = presence[m.session]
  BY <1>1, <1>2, DepartKeeps
<1>6. MappingInv'
  BY <1>2, <1>5, MappingsKept
<1> QED
  BY <1>3, <1>4, <1>5, <1>6

LEMMA HandleReadyStep ==
    ASSUME Inv, NEW m \in Messages, HandleReady(m), control # <<>>, control' = Tail(control),
           m = control[1], m.type = "ready",
           UNCHANGED <<streamVars, viewer, link, binds, faults>>
    PROVE  Inv'
<1> USE BindingAssumption DEF Inv
<1> DEFINE s == m.session
           a == m.attempt
           p == IF presence[s].attempt = 0 THEN NewPresence(a, "accepted") ELSE presence[s]
           q == [p EXCEPT !.state = "ready", !.timer = FALSE, !.joined = TRUE]
<1>1. a \in Attempts /\ s \in Sessions /\ a # 0
  BY DEF Messages, Attempts
<1>2. UNCHANGED <<stream, active, listed, sessions, tokens, processed, mapping, kicked, leaves,
      answers, viewer,
      link,
                  binds>>
  BY DEF streamVars, HandleReady
<1>3. TokenInv' /\ ViewerInv' /\ LinkInv'
  BY <1>2, TokenSame, ViewerSame, LinkSame
<1>4. CASE UNCHANGED <<presence, timers, joins>>
  <2>1. joins' \in [Attempts -> Nat]
    BY <1>4 DEF PresenceInv
  <2>2. MailInv'
    BY <1>2, <1>4, <2>1, MailTaken
  <2>3. PresenceInv' /\ MappingInv'
    BY <1>2, <1>4, PresenceSame, MappingSame
  <2> QED
    BY <1>3, <2>2, <2>3
<1>5. CASE /\ p.attempt = a /\ p.state \notin {"ready", "departed"}
           /\ presence' = [presence EXCEPT ![s] = q] /\ timers' = timers \ {<<s, a>>}
           /\ joins' = IF p.joined THEN joins ELSE [joins EXCEPT ![a] = @ + 1]
  <2>1. Sound(p)
    <3>1. Sound(NewPresence(a, "accepted")) /\ Sound(presence[s])
      BY <1>1, NewSound, PresenceSound
    <3> QED
      BY <3>1
  <2>2. joins[a] = 0
    <3>1. 1 \in 1..Len(control) /\ ReadyAt(1)
      BY DEF MailInv, ReadyAt
    <3> QED
      BY <3>1 DEF MailInv, ReadyOnce
  <2>3. ~p.joined
    <3>1. presence[s].joined /\ presence[s].attempt = a => joins[a] = 1
      BY <1>1 DEF PresenceInv, PresenceOK
    <3>2. ~NewPresence(a, "accepted").joined
      BY <1>1, NewSound
    <3> QED
      BY <1>5, <2>2, <3>1, <3>2
  <2>4. joins' = [joins EXCEPT ![a] = @ + 1]
    BY <1>5, <2>3
  <2>5. /\ joins' \in [Attempts -> Nat] /\ joins'[a] = 1
        /\ \A b \in Attempts : b # a => joins'[b] = joins[b]
    BY <1>1, <2>2, <2>4 DEF PresenceInv
  <2>6. leaves[a] = 0
    BY <1>1, <2>2 DEF PresenceInv, CuesOK
  <2>7. Sound(q) /\ ~q.timer /\ q.attempt = a
    BY <1>1, <1>5, <2>1 DEF Sound, Presences, PresenceStates
  <2>8. presence[s].attempt = 0 \/ presence[s] = p
    OBVIOUS
  <2> HIDE DEF p, q
  <2>9. ~presence[s].timer
    BY <1>1, <1>5, <2>1, <2>8, PresenceSound DEF Sound
  <2>10. \A x \in Sessions, b \in Attempts :
            <<x, b>> \in timers' <=> IF x = s THEN q.timer /\ q.attempt = b ELSE <<x, b>> \in timers
    BY <1>5, <2>7, <2>9 DEF PresenceInv, PresenceOK
  <2>11. timers' \subseteq Sessions \X Attempts /\ leaves' \in [Attempts -> Nat]
    BY <1>2, <1>5 DEF PresenceInv
  <2>12. \A b \in Attempts : CuesOK(b)'
    BY <1>2, <2>5, <2>6 DEF PresenceInv, CuesOK
  <2>13. \A x \in Sessions : presence[x].joined =>
            presence[x].attempt \in Attempts /\ presence[x].attempt # a
    <3>1. \A x \in Sessions : presence[x].joined => presence[x].attempt \in Attempts
      BY PresenceSound DEF Sound, Presences, Attempts
    <3>2. \A x \in Sessions : presence[x].joined => joins[presence[x].attempt] = 1
      BY DEF PresenceInv, PresenceOK
    <3> QED
      BY <2>2, <3>1, <3>2
  <2>14. PresenceInv'
    <3>1. q.joined => joins'[q.attempt] = 1 /\ leaves'[q.attempt] = 0
      BY <1>2, <2>5, <2>6, <2>7
    <3>2. \A x \in Sessions : x # s /\ presence[x].joined =>
              /\ joins'[presence[x].attempt] = joins[presence[x].attempt]
              /\ leaves'[presence[x].attempt] = leaves[presence[x].attempt]
              /\ q.joined => presence[x].attempt # q.attempt
      BY <1>2, <2>5, <2>7, <2>13
    <3>3. presence' = [presence EXCEPT ![s] = q]
      BY <1>5
    <3> QED
      BY <1>1, <2>5, <2>7, <2>10, <2>11, <2>12, <3>1, <3>2, <3>3, PresenceReplaced
  <2>15. MailInv'
    <3>1. ReadyAt(1) /\ control[1].attempt = a
      BY DEF ReadyAt
    <3> QED
      BY <1>2, <2>5, <3>1, MailTaken
  <2>16. MappingInv'
    <3>1. presence'[s] = q /\ \A x \in Sessions : x # s => presence'[x] = presence[x]
      BY <1>1, <1>5 DEF PresenceInv
    <3> QED
      BY <1>2, <2>7, <3>1, MappingsKept DEF MappingInv
  <2> QED
    BY <1>3, <2>14, <2>15, <2>16
<1> QED
  BY <1>4, <1>5 DEF HandleReady

LEMMA DeliverStep == ASSUME Inv, Deliver PROVE Inv'
<1>1. control # <<>> /\ control' = Tail(control) /\
      UNCHANGED <<streamVars, viewer, link, binds, faults>>
  BY DEF Deliver
<1>2. Head(control) = control[1] /\ control[1] \in Messages
  BY <1>1 DEF Inv, MailInv
<1> QED
  BY <1>1, <1>2, HandleJoinStep, HandleLeaveStep, HandleReadyStep DEF Deliver

-----------------------------------------------------------------------------
(* Binds, links and timers *)

LEMMA HandleBindStep == ASSUME Inv, HandleBind PROVE Inv'
<1> USE BindingAssumption DEF Inv
<1>1. PICK b \in binds :
         /\ binds' = binds \ {b}
         /\ IF tokens[b.token].state # "live"
            THEN /\ tokens' = [tokens EXCEPT ![b.token].state = IF @ = "expired" THEN "gone" ELSE @]
                 /\ UNCHANGED <<mapping, presence, timers>>
            ELSE /\ tokens' = [tokens EXCEPT ![b.token].state = "used"]
                 /\ mapping' = [x \in Sessions |-> IF x = tokens[b.token].session THEN b.attempt
                                  ELSE IF x \in StaleMappings(tokens[b.token].session, b.attempt)
                                       THEN 0 ELSE mapping[x]]
                 /\ UpsertPresence(tokens[b.token].session, b.attempt, "media-bound")
  BY DEF HandleBind
<1> DEFINE k == tokens[b.token]
<1>2. UNCHANGED <<stream, active, listed, sessions, processed, kicked, joins, leaves, viewer,
      link, control,
      answers>>
  BY DEF HandleBind, streamVars
<1>3. b.attempt \in Attempts /\ b.token \in 1..Len(tokens) /\ link[b.attempt] = "up"
  BY DEF LinkInv
<1>4. k \in Tokens /\ k.session \in Sessions
  <2>1. k \in Tokens
    BY <1>3 DEF TokenInv
  <2> QED
    BY <2>1 DEF Tokens
<1>5. tokens' \in Seq(Tokens) /\ Len(tokens') = Len(tokens)
  <2>1. \A st \in TokenStates : [k EXCEPT !.state = st] \in Tokens
    BY <1>4 DEF Tokens
  <2>2. k.state \in TokenStates /\ "gone" \in TokenStates /\ "used" \in TokenStates
    BY <1>4 DEF Tokens, TokenStates
  <2>3. PICK st \in TokenStates : tokens' = [tokens EXCEPT ![b.token].state = st]
    BY <1>1, <2>2
  <2>4. tokens' = [tokens EXCEPT ![b.token] = [k EXCEPT !.state = st]]
    BY <1>3, <2>3 DEF TokenInv
  <2> QED
    BY <1>3, <2>1, <2>4 DEF TokenInv
<1>6. TokenInv' /\ ViewerInv' /\ MailInv'
  <2>1. TokenInv'
    BY <1>2, <1>5 DEF TokenInv
  <2> QED
    BY <1>2, <1>5, <2>1, ViewerSame, MailSame
<1>7. LinkInv'
  BY <1>1, <1>2, <1>5 DEF LinkInv
<1>8. CASE k.state # "live"
  <2>1. PresenceInv' /\ MappingInv'
    BY <1>1, <1>2, <1>8, PresenceSame, MappingSame
  <2> QED
    BY <1>6, <1>7, <2>1
<1>9. CASE k.state = "live"
  <2>1. /\ mapping' = [x \in Sessions |-> IF x = k.session THEN b.attempt
                         ELSE IF x \in StaleMappings(k.session, b.attempt) THEN 0 ELSE mapping[x]]
        /\ UpsertPresence(k.session, b.attempt, "media-bound")
    BY <1>1, <1>9
  <2>2. /\ PresenceInv' /\ ~presence'[k.session].timer
        /\ \A x \in Sessions : x # k.session => presence'[x] = presence[x]
    BY <1>2, <1>3, <1>4, <2>1, UpsertKeeps
  <2>3. \A x \in Sessions : mapping'[x] = IF x = k.session THEN b.attempt ELSE 0
    BY <2>1 DEF StaleMappings
  <2>4. mapping' \in [Sessions -> 0..MaxAttempts]
    BY <1>3, <2>1 DEF MappingInv, Attempts
  <2>5. OneMapping'
    BY <2>3 DEF OneMapping
  <2>6. stream = "active"
    BY <1>3 DEF LinkInv, TokenInv
  <2>7. StoppedServesNobody' /\ \A x \in Sessions : PendingIsDown(x)'
    BY <1>2, <2>2, <2>3, <2>6 DEF StoppedServesNobody, PendingIsDown
  <2> QED
    BY <1>6, <1>7, <2>2, <2>4, <2>5, <2>7 DEF MappingInv
<1> QED
  BY <1>8, <1>9

LEMMA LinkUpStep == ASSUME Inv, LinkUp PROVE Inv'
<1> USE BindingAssumption DEF Inv
<1>1. PICK a \in Attempts :
         /\ active # 0 /\ link' = [link EXCEPT ![a] = "up"]
         /\ IF \E s \in Sessions : mapping[s] = a
            THEN RecoverPresence(CHOOSE x \in Sessions : mapping[x] = a, a)
            ELSE UNCHANGED <<presence, timers>>
  BY DEF LinkUp
<1>2. UNCHANGED <<stream, active, listed, sessions, tokens, processed, mapping, kicked, joins,
      leaves, viewer,
      control,
                  answers, binds>>
  BY DEF LinkUp, streamVars
<1>3. TokenInv' /\ ViewerInv' /\ MailInv'
  BY <1>2, TokenSame, ViewerSame, MailSame
<1>4. /\ link' \in [Attempts -> {"none", "up", "down", "cut"}] /\ link'[a] = "up"
      /\ \A b \in Attempts : b # a => link'[b] = link[b]
  BY <1>1 DEF LinkInv
<1>5. LinkInv'
  BY <1>1, <1>2, <1>4 DEF LinkInv
<1>6. a # 0
  BY DEF Attempts
<1>7. OneMapping' /\ StoppedServesNobody' /\ mapping' \in [Sessions -> 0..MaxAttempts]
  BY <1>2 DEF MappingInv, OneMapping, StoppedServesNobody
<1>8. CASE ~\E s \in Sessions : mapping[s] = a
  <2>1. PresenceInv' /\ UNCHANGED <<presence, timers>>
    BY <1>1, <1>2, <1>8, PresenceSame
  <2>2. \A x \in Sessions : PendingIsDown(x)'
    <3> SUFFICES ASSUME NEW x \in Sessions, mapping[x] # 0 PROVE PendingIsDown(x)'
      BY <1>2 DEF PendingIsDown
    <3>1. mapping[x] \in Attempts /\ mapping[x] # a
      BY <1>8 DEF MappingInv, Attempts
    <3> QED
      BY <1>2, <1>4, <2>1, <3>1 DEF MappingInv, PendingIsDown
  <2> QED
    BY <1>3, <1>5, <1>7, <2>1, <2>2 DEF MappingInv
<1>9. CASE \E s \in Sessions : mapping[s] = a
  <2>1. PICK s \in Sessions : mapping[s] = a /\ RecoverPresence(s, a)
    BY <1>1, <1>9
  <2>2. /\ PresenceInv'
        /\ (presence[s].timer => presence[s].attempt = a) => ~presence'[s].timer
        /\ \A x \in Sessions : x # s => presence'[x] = presence[x]
    BY <1>2, <2>1, RecoverKeeps
  <2>3. presence[s].timer => presence[s].attempt = a
    BY <1>6, <2>1 DEF MappingInv, PendingIsDown
  <2>4. ~presence'[s].timer
    BY <2>2, <2>3
  <2>5. \A x \in Sessions : x # s => mapping[x] = 0
    BY <1>6, <2>1 DEF MappingInv, OneMapping
  <2>6. \A x \in Sessions : PendingIsDown(x)'
    BY <1>2, <2>4, <2>5 DEF PendingIsDown
  <2> QED
    BY <1>3, <1>5, <1>7, <2>2, <2>6 DEF MappingInv
<1> QED
  BY <1>8, <1>9

LEMMA LinkDownStep == ASSUME Inv, NEW a \in Attempts, LinkDown(a) PROVE Inv'
<1> USE BindingAssumption DEF Inv
<1>1. /\ link[a] = "up" /\ link' = [link EXCEPT ![a] = "down"]
      /\ binds' = {b \in binds : b.attempt # a}
      /\ UNCHANGED <<stream, active, listed, sessions, tokens, processed, kicked, joins, viewer,
           control, answers>>
  BY DEF LinkDown, streamVars
<1>2. TokenInv' /\ ViewerInv' /\ MailInv'
  BY <1>1, TokenSame, ViewerSame, MailSame
<1>3. /\ link' \in [Attempts -> {"none", "up", "down", "cut"}] /\ link'[a] = "down"
      /\ \A b \in Attempts : b # a => link'[b] = link[b]
  BY <1>1 DEF LinkInv
<1>4. LinkInv'
  BY <1>1, <1>3 DEF LinkInv
<1>5. \A b \in 1..MaxAttempts : link'[b] = link[b] \/ link'[b] \in {"down", "cut"}
  BY <1>3 DEF Attempts
<1>6. CASE UNCHANGED <<presence, timers, leaves>> /\ \E S : RemoveMappings(S) \/ mapping' = mapping
  <2>1. PresenceInv'
    BY <1>1, <1>6, PresenceSame
  <2>2. /\ mapping' \in [Sessions -> 0..MaxAttempts]
        /\ \A x \in Sessions : mapping'[x] \in {0, mapping[x]}
    BY <1>6 DEF MappingInv, RemoveMappings
  <2>3. MappingInv'
    BY <1>1, <1>5, <1>6, <2>2, MappingsKept
  <2> QED
    BY <1>2, <1>4, <2>1, <2>3
<1>7. ASSUME NEW s \in Sessions, mapping[s] = a, MarkDeparted(s, a, FALSE)
      PROVE  Inv'
  <2>1. /\ PresenceInv' /\ mapping' \in [Sessions -> 0..MaxAttempts]
        /\ \A x \in Sessions : mapping'[x] \in {0, mapping[x]}
        /\ \A x \in Sessions : x # s => presence'[x] = presence[x]
        /\ presence'[s].timer => presence'[s] = presence[s] \/ presence'[s].attempt = a
    BY <1>1, <1>7, DepartKeeps
  <2>2. \A x \in Sessions : presence'[x].timer /\ mapping'[x] # 0 =>
              \/ presence'[x] = presence[x]
              \/ mapping'[x] = presence'[x].attempt /\ link'[mapping'[x]] \in {"down", "cut"}
    BY <1>3, <1>7, <2>1
  <2>3. MappingInv'
    BY <1>1, <1>5, <2>1, <2>2, MappingsKept
  <2> QED
    BY <1>2, <1>4, <2>1, <2>3
<1>8. CASE ~\E s \in Sessions : mapping[s] = a
  <2>1. UNCHANGED <<presence, timers, leaves, mapping>>
    BY <1>8 DEF LinkDown
  <2> QED
    BY <1>6, <2>1
<1>9. CASE \E s \in Sessions : mapping[s] = a
  <2>1. PICK s \in Sessions :
           /\ mapping[s] = a
           /\ IF presence[s].attempt = 0
              THEN RemoveMappings({s}) /\ UNCHANGED <<presence, timers, leaves>>
              ELSE MarkDeparted(s, a, FALSE)
    BY <1>9 DEF LinkDown
  <2> QED
    BY <1>6, <1>7, <2>1
<1> QED
  BY <1>8, <1>9

\* The timer of a presence forgets it and its mapping; a join cue that has played is
\* answered by the leave cue.
LEMMA GraceEndsStep == ASSUME Inv, GraceEnds PROVE Inv'
<1> USE BindingAssumption DEF Inv
<1>1. PICK t \in timers :
         /\ timers' = timers \ {t}
         /\ IF ~presence[t[1]].timer THEN UNCHANGED <<presence, mapping, leaves>>
            ELSE /\ leaves' = IF presence[t[1]].joined /\ ~presence[t[1]].left
                              THEN [leaves EXCEPT ![presence[t[1]].attempt] = @ + 1] ELSE leaves
                 /\ Forget(t[1])
  BY DEF GraceEnds
<1>2. UNCHANGED <<stream, active, listed, sessions, tokens, processed, kicked, joins, viewer,
      link, control,
      answers,
                  binds>>
  BY DEF GraceEnds, streamVars, netVars
<1>3. TokenInv' /\ ViewerInv' /\ MailInv' /\ LinkInv'
  BY <1>2, TokenSame, ViewerSame, MailSame, LinkSame
<1>4. PICK s \in Sessions, a \in Attempts : t = <<s, a>> /\ t[1] = s
  BY DEF PresenceInv
<1> DEFINE p == presence[s]
<1>5. p.timer /\ p.attempt = a /\ ~p.left
  BY <1>4 DEF PresenceInv, PresenceOK
<1>6. /\ presence' = [presence EXCEPT ![s] = Absent] /\ mapping' = [mapping EXCEPT ![s] = 0]
      /\ timers' = timers \ {<<s, a>>}
      /\ leaves' = IF p.joined THEN [leaves EXCEPT ![a] = @ + 1] ELSE leaves
  BY <1>1, <1>4, <1>5 DEF Forget
<1>7. Sound(Absent) /\ ~Absent.timer /\ ~Absent.joined
  BY AbsentSound
<1>8. PresenceInv'
  <2>1. \A x \in Sessions, b \in Attempts :
            <<x, b>> \in timers' <=>
               IF x = s THEN Absent.timer /\ Absent.attempt = b ELSE <<x, b>> \in timers
    BY <1>5, <1>6, <1>7 DEF PresenceInv, PresenceOK
  <2>2. timers' \subseteq Sessions \X Attempts /\ joins' \in [Attempts -> Nat]
    BY <1>2, <1>6 DEF PresenceInv
  <2>3. /\ leaves' \in [Attempts -> Nat] /\ \A b \in Attempts : CuesOK(b)'
        /\ \A b \in Attempts : b # a => leaves'[b] = leaves[b]
        /\ p.joined \/ leaves' = leaves
    BY <1>2, <1>5, <1>6 DEF PresenceInv, PresenceOK, CuesOK
  <2>4. \A x \in Sessions : x # s /\ presence[x].joined =>
            leaves'[presence[x].attempt] = leaves[presence[x].attempt]
    <3>1. \A x \in Sessions : presence[x].joined => presence[x].attempt \in Attempts
      BY PresenceSound DEF Sound, Presences, Attempts
    <3> QED
      BY <1>5, <2>3, <3>1 DEF PresenceInv, JoinedOnce
  <2> QED
    BY <1>2, <1>6, <1>7, <2>1, <2>2, <2>3, <2>4, PresenceReplaced
<1>9. MappingInv'
  <2>1. /\ mapping' \in [Sessions -> 0..MaxAttempts]
        /\ \A x \in Sessions : mapping'[x] \in {0, mapping[x]}
        /\ mapping'[s] = 0 /\ \A x \in Sessions : x # s => presence'[x] = presence[x]
    BY <1>6 DEF MappingInv, PresenceInv
  <2> QED
    BY <1>2, <2>1, MappingsKept
<1> QED
  BY <1>3, <1>8, <1>9

LEMMA RemovalSteps ==
    ASSUME Inv, Kick \/ KickExpires \/ DeviceOffline
    PROVE  Inv'
<1> USE BindingAssumption DEF Inv
<1>1. UNCHANGED <<stream, active, listed, sessions, tokens, processed, presence, timers, joins,
      leaves, viewer,
      link,
                  control, answers, binds>>
  BY DEF Kick, KickExpires, DeviceOffline, streamVars, netVars
<1>2. PresenceInv' /\ ViewerInv' /\ MailInv' /\ LinkInv'
  BY <1>1, PresenceSame, ViewerSame, MailSame, LinkSame
<1>3. mapping' = mapping \/ \E S : RemoveMappings(S)
  BY DEF Kick, KickExpires, DeviceOffline
<1>4. MappingInv'
  BY <1>1, <1>3, MappingsRemoved, MappingSame
<1>5. kicked' \subseteq Sessions
  BY DEF Kick, KickExpires, DeviceOffline, TokenInv
<1>6. TokenInv'
  BY <1>1, <1>5 DEF TokenInv
<1> QED
  BY <1>2, <1>4, <1>6

LEMMA ExpirySteps ==
    ASSUME Inv, ExpireToken \/ Cleanup
    PROVE  Inv'
<1> USE BindingAssumption DEF Inv
<1>1. UNCHANGED <<stream, active, listed, sessions, mapping, presence, timers, kicked, joins,
      leaves, viewer, link,
                  control, answers, binds>>
  BY DEF ExpireToken, Cleanup, streamVars, netVars
<1>2. PresenceInv' /\ MappingInv' /\ MailInv'
  BY <1>1, PresenceSame, MappingSame, MailSame
<1>3. \A i \in 1..Len(tokens), st \in TokenStates : [tokens[i] EXCEPT !.state = st] \in Tokens
  <2>1. \A i \in 1..Len(tokens) : tokens[i] \in Tokens
    BY DEF TokenInv
  <2> QED
    BY <2>1 DEF Tokens
<1>4. tokens' \in Seq(Tokens) /\ Len(tokens') = Len(tokens)
  <2>1. CASE ExpireToken
    <3>1. PICK i \in 1..Len(tokens) : tokens' = [tokens EXCEPT ![i].state = "expired"]
      BY <2>1 DEF ExpireToken
    <3>2. tokens' = [tokens EXCEPT ![i] = [tokens[i] EXCEPT !.state = "expired"]]
      BY <3>1 DEF TokenInv
    <3>3. "expired" \in TokenStates
      BY DEF TokenStates
    <3> QED
      BY <1>3, <3>2, <3>3 DEF TokenInv
  <2>2. CASE Cleanup
    <3> DEFINE Marked(i) == [tokens[i] EXCEPT !.state = IF @ = "expired" THEN "gone" ELSE @]
    <3>1. \A i \in 1..Len(tokens) : Marked(i) \in Tokens
      <4>1. \A i \in 1..Len(tokens) : tokens[i] \in Tokens
        BY DEF TokenInv
      <4>2. \A i \in 1..Len(tokens) :
               (IF tokens[i].state = "expired" THEN "gone" ELSE tokens[i].state) \in TokenStates
        BY <4>1 DEF Tokens, TokenStates
      <4> QED
        BY <1>3, <4>2
    <3>2. tokens' = [i \in 1..Len(tokens) |-> Marked(i)]
      BY <2>2 DEF Cleanup
    <3> HIDE DEF Marked
    <3> QED
      BY <3>1, <3>2 DEF TokenInv
  <2> QED
    BY <2>1, <2>2
<1>5. processed' \in [Attempts -> 0..Len(tokens)]
  BY DEF ExpireToken, Cleanup, TokenInv
<1>6. TokenInv' /\ ViewerInv' /\ LinkInv'
  <2>1. TokenInv'
    BY <1>1, <1>4, <1>5 DEF TokenInv
  <2> QED
    BY <1>1, <1>4, <2>1, ViewerSame, LinkSame
<1> QED
  BY <1>2, <1>6

-----------------------------------------------------------------------------
(* The binding *)

LEMMA InitInv == Init => Inv
<1> SUFFICES ASSUME Init PROVE Inv
  OBVIOUS
<1> USE BindingAssumption DEF Init
<1>1. PresenceInv
  <2>1. Sound(Absent) /\ ~Absent.timer /\ ~Absent.joined
    BY AbsentSound
  <2>2. \A s \in Sessions : PresenceOK(s)
    BY <2>1 DEF PresenceOK, Sound
  <2> QED
    BY <2>1, <2>2 DEF PresenceInv, Sound, JoinedOnce, CuesOK
<1>2. MappingInv
  BY DEF MappingInv, OneMapping, StoppedServesNobody, PendingIsDown
<1>3. TokenInv
  <2>1. stream \in StreamStates /\ listed \in BOOLEAN /\ (active # 0 <=> stream = "active")
    BY DEF StreamStates
  <2>2. Len(tokens) = 0 /\ tokens \in Seq(Tokens) /\ processed \in [Attempts -> 0..0]
    OBVIOUS
  <2> QED
    BY <2>1, <2>2 DEF TokenInv
<1>4. ViewerInv
  <2>1. [phase |-> "none", session |-> 0, token |-> 0] \in
           [phase : Phases, session : 0..MaxSessions, token : 0..Len(tokens)]
    BY DEF Phases
  <2> QED
    BY <2>1 DEF ViewerInv
<1>5. MailInv /\ LinkInv
  BY DEF MailInv, ReadyOnce, LinkInv, Messages
<1> QED
  BY <1>1, <1>2, <1>3, <1>4, <1>5 DEF Inv

LEMMA InvStep == Inv /\ [Next]_vars => Inv'
<1> SUFFICES ASSUME Inv, [Next]_vars PROVE Inv'
  OBVIOUS
<1>1. CASE StartStream \/ StopStream \/ BeginRestart \/ RestartDone \/ RestartFails
        \/ EntryExpires
  BY <1>1, StreamSteps
<1>2. CASE Join \/ ResendJoin
  BY <1>2, JoinSteps
<1>3. CASE TakeAnswer \/ LoseAnswer
  BY <1>3, AnswerSteps
<1>4. CASE SendBind \/ SendReady \/ EndAttempt
  BY <1>4, SendBindStep, SendReadyStep, EndAttemptStep
<1>5. CASE Deliver \/ HandleBind
  BY <1>5, DeliverStep, HandleBindStep
<1>6. CASE LinkUp \/ (\E a \in Attempts : LinkDown(a))
  BY <1>6, LinkUpStep, LinkDownStep
<1>7. CASE GraceEnds
  BY <1>7, GraceEndsStep
<1>8. CASE Kick \/ KickExpires \/ DeviceOffline
  BY <1>8, RemovalSteps
<1>9. CASE ExpireToken \/ Cleanup
  BY <1>9, ExpirySteps
<1>10. CASE UNCHANGED vars
  <2> USE <1>10 DEF vars, Inv
  <2>1. PresenceInv' /\ MappingInv' /\ TokenInv'
    BY PresenceSame, MappingSame, TokenSame
  <2>2. ViewerInv' /\ MailInv' /\ LinkInv'
    BY ViewerSame, MailSame, LinkSame
  <2> QED
    BY <2>1, <2>2
<1> QED
  BY <1>1, <1>2, <1>3, <1>4, <1>5, <1>6, <1>7, <1>8, <1>9, <1>10 DEF Next

\* Types agree, a timer belongs to a departed presence and runs, and the device holds
\* one mapping of the stream, whatever rejoins, restarts and disturbances.
THEOREM ServedOnce == Spec => []BindingInv
<1>1. Inv => BindingInv
  <2> SUFFICES ASSUME Inv PROVE BindingInv
    OBVIOUS
  <2>1. \A s \in Sessions : presence[s].timer <=> <<s, presence[s].attempt>> \in timers
    <3> SUFFICES ASSUME NEW s \in Sessions
                 PROVE  presence[s].timer <=> <<s, presence[s].attempt>> \in timers
      OBVIOUS
    <3>1. presence[s].attempt \in Attempts \/ presence[s].attempt = 0
      BY PresenceSound DEF Inv, Sound, Presences, Attempts
    <3>2. CASE presence[s].attempt \in Attempts
      BY <3>2 DEF Inv, PresenceInv, PresenceOK
    <3>3. CASE presence[s].attempt = 0
      BY <3>3 DEF Inv, PresenceInv, PresenceOK, Attempts
    <3> QED
      BY <3>1, <3>2, <3>3
  <2>2. \A s \in Sessions : presence[s].timer <=> presence[s].state = "departed"
    BY DEF Inv, PresenceInv, PresenceOK
  <2> QED
    BY <2>1, <2>2 DEF Inv, PresenceInv, MappingInv, TokenInv, LinkInv, BindingInv, TypeOK,
      Presences, PresenceStates, Tokens
<1> QED
  BY <1>1, InitInv, InvStep, PTL DEF Spec

\* Join and leave cues of an attempt pair up, whatever timers, leaves and attempts do.
THEOREM CuesArePaired == Spec => []CuesPaired
<1>1. Inv => CuesPaired
  BY DEF Inv, PresenceInv, CuesOK, CuesPaired
<1> QED
  BY <1>1, InitInv, InvStep, PTL DEF Spec

\* No grace timer can take the mapping of a viewer whose link is up.
THEOREM PendingIsNotUp == Spec => []PendingDepartureIsDown
<1>1. Inv => PendingDepartureIsDown
  BY DEF Inv, MappingInv, PendingIsDown, PendingDepartureIsDown
<1> QED
  BY <1>1, InitInv, InvStep, PTL DEF Spec

\* However often restarts succeeded or failed before it, a stop removes every mapping of
\* the stream, and a bind that was under way is lost with its link: none is made later.
THEOREM StoppedServes == Spec => []StoppedServesNobody
<1>1. Inv => StoppedServesNobody
  BY DEF Inv, MappingInv
<1> QED
  BY <1>1, InitInv, InvStep, PTL DEF Spec

=============================================================================
