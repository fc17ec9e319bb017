--------------------------- MODULE StreamSessionProofs ---------------------------
(***************************************************************************)
(* A session's holdings are accounted for, an active session is whole and   *)
(* an idle one holds nothing, and the session manager implements the life   *)
(* of streams: for any number of requests, queued operations and captures.  *)
(***************************************************************************)
EXTENDS StreamSession, TLAPS

PhaseA == {"capture", "constraints", "connecting", "publishing"}
Publishing == PhaseA \cup {"restart.cleanup", "announcing", "failed.cleanup"}
Switching == {"switch.source", "switch.capture", "switch.replace", "switch.verify",
              "switch.constraints"}
Awaits == {"idle"} \cup Publishing \cup Switching \cup {"stop.audio", "stop.cleanup"}
Telling == {"nothing", "started", "restarted", "stopped"}
Ops(s, m, t) == [at : Awaits, kind : Kinds, stream : 0..s, manager : 0..m, track : 0..t, old : 0..t]

\* The local variables of the operation exist when it uses them.
OpTypes ==
    /\ op \in Ops(streams, Len(managers), Len(tracks))
    /\ op.at \in {"connecting", "publishing", "switch.replace", "switch.verify"} =>
          op.manager # 0 /\ op.track # 0

HolderTypes ==
    /\ managers \in Seq(Manager) /\ tracks \in Seq(TrackStates)
    /\ capture \in 0..Len(tracks) /\ manager \in 0..Len(managers)
    /\ \A m \in 1..Len(managers) : managers[m].track \in 0..Len(tracks)
    /\ watched \subseteq 1..Len(tracks)

StreamTypes ==
    /\ streams \in Nat /\ stream \in 0..streams
    /\ told \in Seq(Telling) /\ Len(told) = streams
    /\ state \in States /\ timers \in BOOLEAN /\ queue \in Seq(Kinds)

EndTypes ==
    /\ destroyed \in BOOLEAN /\ (destroyed <=> end.at # "no")
    /\ end \in [at : {"no", "telling", "cleanup", "store", "done"},
                stream : 0..streams, manager : 0..Len(managers), overtook : BOOLEAN]

\* A track that is live is the capture, or the one a switch has not committed.
LiveOK ==
    /\ \A t \in LiveTracks :
          t = capture \/ (op.at \in {"switch.replace", "switch.verify"} /\ t = op.track)
    /\ op.at = "capture" => capture = 0
    /\ op.at \in {"switch.replace", "switch.verify"} => capture \in {0, op.old}
    /\ op.at = "switch.verify" => op.old \notin LiveTracks

Whole ==
    /\ stream # 0 /\ told[stream] \in {"started", "restarted"}
    /\ manager # 0 /\ managers[manager].publisher /\ ~managers[manager].stopping
    /\ managers[manager].track = capture /\ capture # 0

Nothing == stream = 0 /\ capture = 0 /\ manager = 0

Unpublished(m) == ~managers[m].publisher /\ ~managers[m].stopping

\* What the state of the session says while it is not destroyed.
StateOK ==
    /\ op.at = "idle" => state \in {"idle", "failed", "active"}
    /\ op.at \in Switching => state = "active"
    /\ op.at \in PhaseA \cup {"restart.cleanup", "announcing"} =>
         state \in {"starting", "restarting"}
    /\ op.at = "failed.cleanup" => state = "failed"
    /\ op.at \in {"stop.audio", "stop.cleanup"} => state = "stopping"
    /\ timers <=> state = "active"
    /\ state = "active" => Whole
    /\ state \in {"idle", "failed"} /\ op.at = "idle" => Nothing

\* The stream of a start or restart that is under way.
PublishingOK ==
    op.at \in Publishing =>
       /\ stream # 0 /\ manager # 0 /\ op.kind \in {"start", "restart"}
       /\ op.at = "restart.cleanup" => op.kind = "restart"
       /\ op.kind = "restart" =>
             op.stream = stream /\ told[stream] \in {"started", "restarted"}
       /\ op.kind = "start" /\ op.at # "announcing" => told[stream] = "nothing"
       /\ op.at \in PhaseA \cup {"failed.cleanup"} => Unpublished(manager)
       /\ op.at \in {"constraints", "connecting", "publishing"} => capture # 0
       /\ op.at \in {"connecting", "publishing"} => op.track = capture
       /\ op.at = "announcing" => Whole

\* What a stop still has to take down.
StoppingOK ==
    /\ op.at = "stop.audio" => op.stream = stream /\ (Whole \/ Nothing)
    /\ op.at = "stop.cleanup" /\ stream # 0 => told[stream] = "stopped"

ManagersOK ==
    /\ \A m \in 1..Len(managers) : m # manager => Unpublished(m)
    /\ op.at \in {"restart.cleanup", "failed.cleanup", "stop.cleanup", "connecting", "publishing",
                  "switch.replace", "switch.verify"} => op.manager = manager
    /\ op.at \in {"restart.cleanup", "stop.cleanup"} /\ manager # 0 =>
          (managers[manager].publisher => managers[manager].stopping)
    /\ op.at \in {"switch.replace", "switch.verify"} => op.old = capture

Alive == ~destroyed => StateOK /\ PublishingOK /\ StoppingOK /\ ManagersOK

Inv == OpTypes /\ HolderTypes /\ StreamTypes /\ EndTypes /\ LiveOK /\ Alive

-----------------------------------------------------------------------------
(* Pieces of the steps *)

LEMMA LiveIs ==
    ASSUME HolderTypes
    PROVE  \A t : t \in LiveTracks <=> t \in 1..Len(tracks) /\ tracks[t] = "live"
BY DEF LiveTracks

\* Tracks that are stopped are live no more; the others are as they were.
LEMMA TracksStop ==
    ASSUME HolderTypes, NEW S, StopTracks(S)
    PROVE  /\ tracks' \in Seq(TrackStates) /\ Len(tracks') = Len(tracks)
           /\ \A t : t \in LiveTracks' <=> t \in LiveTracks /\ t \notin S
<1>1. \A t \in 1..Len(tracks) : tracks[t] \in TrackStates
  BY DEF HolderTypes
<1>2. Len(tracks) \in Nat
  BY DEF HolderTypes
<1>3. \A t \in 1..Len(tracks) :
      (IF t \in S /\ tracks[t] = "live" THEN "stopped" ELSE tracks[t]) \in TrackStates
  BY <1>1 DEF TrackStates
<1>4. tracks' \in Seq(TrackStates) /\ Len(tracks') = Len(tracks)
  BY <1>2, <1>3 DEF StopTracks
<1>5. \A t \in 1..Len(tracks) : tracks'[t] = "live" <=> tracks[t] = "live" /\ t \notin S
  BY <1>1 DEF StopTracks, TrackStates
<1> QED
  BY <1>4, <1>5 DEF LiveTracks

\* One manager changes.
LEMMA ManagerChanges ==
    ASSUME HolderTypes, NEW m \in 1..Len(managers), NEW r \in Manager, r.track \in 0..Len(tracks),
           managers' = [managers EXCEPT ![m] = r], watched' \subseteq watched
    PROVE  /\ managers' \in Seq(Manager) /\ Len(managers') = Len(managers)
           /\ managers'[m] = r /\ \A k \in 1..Len(managers) : k # m => managers'[k] = managers[k]
           /\ \A k \in 1..Len(managers) : managers'[k].track \in 0..Len(tracks)
           /\ watched' \subseteq 1..Len(tracks)
<1>1. managers \in Seq(Manager)
  BY DEF HolderTypes
<1>2. /\ managers' \in Seq(Manager) /\ Len(managers') = Len(managers)
      /\ managers'[m] = r /\ \A k \in 1..Len(managers) : k # m => managers'[k] = managers[k]
  BY <1>1
<1> QED
  BY <1>2 DEF HolderTypes

\* A manager with a publisher is stopping after stopCapture was called on it; one
\* without has let go of its track.
LEMMA ManagerStops ==
    ASSUME HolderTypes, NEW m \in 0..Len(managers), StopManager(m)
    PROVE  /\ managers' \in Seq(Manager) /\ Len(managers') = Len(managers)
           /\ \A k \in 1..Len(managers) : k # m => managers'[k] = managers[k]
           /\ \A k \in 1..Len(managers) : managers'[k].track \in 0..Len(tracks)
           /\ watched' \subseteq 1..Len(tracks)
           /\ m # 0 => /\ managers'[m].publisher = managers[m].publisher
                       /\ managers[m].publisher => managers'[m].stopping
                       /\ ~managers[m].publisher => managers'[m].stopping = managers[m].stopping
<1>1. managers \in Seq(Manager) /\ \A k \in 1..Len(managers) : managers[k] \in Manager
  BY DEF HolderTypes
<1>2. CASE UNCHANGED <<managers, watched>> /\ (m = 0 \/ managers[m].stopping)
  BY <1>1, <1>2 DEF HolderTypes
<1>3. CASE /\ m # 0 /\ ~managers[m].stopping /\ managers[m].publisher
           /\ managers' = [managers EXCEPT ![m].stopping = TRUE] /\ watched' = watched
  <2> DEFINE r == [managers[m] EXCEPT !.stopping = TRUE]
  <2>1. m \in 1..Len(managers) /\ managers' = [managers EXCEPT ![m] = r]
    BY <1>1, <1>3
  <2>2. r \in Manager /\ r.track = managers[m].track /\ r.publisher /\ r.stopping
    BY <1>1, <1>3, <2>1 DEF Manager
  <2>3. r.track \in 0..Len(tracks)
    BY <2>1, <2>2 DEF HolderTypes
  <2> HIDE DEF r
  <2> QED
    BY <1>3, <2>1, <2>2, <2>3, ManagerChanges
<1>4. CASE /\ m # 0 /\ ~managers[m].stopping /\ ~managers[m].publisher
           /\ managers' = [managers EXCEPT ![m].track = 0] /\
                watched' = watched \ {managers[m].track}
  <2> DEFINE r == [managers[m] EXCEPT !.track = 0]
  <2>1. m \in 1..Len(managers) /\ managers' = [managers EXCEPT ![m] = r]
    BY <1>1, <1>4
  <2>2. r \in Manager /\ r.track = 0 /\ r.publisher = managers[m].publisher
        /\ r.stopping = managers[m].stopping
    BY <1>1, <2>1 DEF Manager
  <2>3. r.track \in 0..Len(tracks)
    BY <2>2 DEF HolderTypes
  <2>4. watched' \subseteq watched
    BY <1>4
  <2> HIDE DEF r
  <2>5. /\ managers' \in Seq(Manager) /\ Len(managers') = Len(managers)
        /\ managers'[m] = r /\ \A k \in 1..Len(managers) : k # m => managers'[k] = managers[k]
        /\ \A k \in 1..Len(managers) : managers'[k].track \in 0..Len(tracks)
        /\ watched' \subseteq 1..Len(tracks)
    BY <2>1, <2>2, <2>3, <2>4, ManagerChanges
  <2> QED
    BY <1>4, <2>2, <2>5
<1> QED
  BY <1>2, <1>3, <1>4 DEF StopManager

\* A new manager holds nothing.
LEMMA ManagerMade ==
    ASSUME HolderTypes, managers' = Append(managers, NewManager)
    PROVE  /\ managers' \in Seq(Manager) /\ Len(managers') = Len(managers) + 1
           /\ \A k \in 1..Len(managers) : managers'[k] = managers[k]
           /\ managers'[Len(managers) + 1] = NewManager
           /\ ~NewManager.publisher /\ ~NewManager.stopping /\ NewManager.track = 0
<1>1. NewManager \in Manager /\ ~NewManager.publisher /\ ~NewManager.stopping /\
      NewManager.track = 0
  BY DEF NewManager, Manager
<1>2. managers \in Seq(Manager)
  BY DEF HolderTypes
<1> QED
  BY <1>1, <1>2

\* A new track is live.
LEMMA TrackMade ==
    ASSUME HolderTypes, tracks' = Append(tracks, "live")
    PROVE  /\ tracks' \in Seq(TrackStates) /\ Len(tracks') = Len(tracks) + 1
           /\ \A t : t \in LiveTracks' <=> t \in LiveTracks \/ t = Len(tracks) + 1
<1>1. tracks \in Seq(TrackStates) /\ "live" \in TrackStates
  BY DEF HolderTypes, TrackStates
<1>2. /\ tracks' \in Seq(TrackStates) /\ Len(tracks') = Len(tracks) + 1
      /\ \A t \in 1..Len(tracks) : tracks'[t] = tracks[t]
      /\ tracks'[Len(tracks) + 1] = "live"
  BY <1>1
<1> QED
  BY <1>1, <1>2 DEF LiveTracks

\* What peers are told of a stream.
LEMMA StreamTold ==
    ASSUME StreamTypes, NEW x \in 0..streams, NEW type \in Telling, Tell(x, type)
    PROVE  /\ told' \in Seq(Telling) /\ Len(told') = Len(told)
           /\ \A k \in 1..Len(told) : told'[k] = IF k = x THEN type ELSE told[k]
BY DEF StreamTypes, Tell

\* What a step leaves alone stays right; sequences may only grow.
Grown == Len(managers') = Len(managers) /\ Len(tracks') = Len(tracks) /\ streams' = streams

LEMMA LiveSame == tracks' = tracks => LiveTracks' = LiveTracks
BY DEF LiveTracks

LEMMA IdleIn ==
    ASSUME NEW s \in Nat, NEW m \in Nat, NEW t \in Nat
    PROVE  Idle \in Ops(s, m, t) /\ Idle.at = "idle"
BY DEF Idle, Ops, Awaits, Kinds

\* There are never fewer streams, managers and tracks.
LEMMA OpIn ==
    ASSUME OpTypes, HolderTypes, StreamTypes,
           NEW s \in Nat, NEW m \in Nat, NEW t \in Nat,
           streams <= s, Len(managers) <= m, Len(tracks) <= t
    PROVE  op \in Ops(s, m, t)
<1>1. streams \in Nat /\ Len(managers) \in Nat /\ Len(tracks) \in Nat
  BY DEF HolderTypes, StreamTypes
<1>2. 0..streams \subseteq 0..s /\ 0..Len(managers) \subseteq 0..m /\ 0..Len(tracks) \subseteq 0..t
  BY <1>1
<1> QED
  BY <1>2 DEF OpTypes, Ops

LEMMA OpSame == OpTypes /\ op' = op /\ Grown => OpTypes'
BY DEF OpTypes, Ops, Grown

LEMMA EndSame == EndTypes /\ UNCHANGED <<destroyed, end, streams>> /\ Len(managers') = Len(managers)
                   => EndTypes'
BY DEF EndTypes

LEMMA HolderSame == HolderTypes /\ UNCHANGED <<managers, tracks, capture, manager, watched>>
                      => HolderTypes'
BY DEF HolderTypes

LEMMA StreamSame ==
    StreamTypes /\ UNCHANGED <<streams, stream, told, state, timers, queue>> =>
      StreamTypes'
BY DEF StreamTypes

LEMMA AliveKept ==
    ASSUME ~destroyed' => StateOK' /\ PublishingOK' /\ StoppingOK' /\ ManagersOK'
    PROVE  Alive'
BY DEF Alive

-----------------------------------------------------------------------------
(* Requests and sources *)

LEMMA RequestStep == ASSUME Inv, NEW kind \in Kinds, Request(kind) PROVE Inv'
<1> USE DEF Inv
<1>1. OpTypes'
  BY OpSame DEF Request, Grown
<1>2. HolderTypes'
  BY HolderSame DEF Request
<1>3. StreamTypes'
  BY DEF Request, StreamTypes, States, Telling, Kinds
<1>4. EndTypes'
  BY EndSame DEF Request
<1>5. LiveOK'
  BY LiveSame DEF Request, LiveOK, OpTypes, Ops, Idle
<1>6. ~destroyed' => StateOK'
  BY DEF Request, Alive, StateOK, PublishingOK, Publishing, Whole, Nothing, StreamTypes,
    HolderTypes, Accepts, Running, Idle
<1>7. ~destroyed' => PublishingOK'
  BY DEF Request, Alive, StateOK, PublishingOK, Publishing, Whole, Nothing, Unpublished,
    StreamTypes, HolderTypes, Accepts, Running
<1>8. ~destroyed' => StoppingOK'
  BY DEF Request, Alive, StateOK, PublishingOK, StoppingOK, ManagersOK, Whole, Nothing,
    StreamTypes, HolderTypes, Accepts, Running
<1>9. ~destroyed' => ManagersOK'
  BY DEF Request, Alive, StateOK, PublishingOK, StoppingOK, ManagersOK, Whole, Nothing,
    Unpublished, HolderTypes, Switching, PhaseA, Publishing, Accepts, Running, Idle
<1> QED
  BY <1>1, <1>2, <1>3, <1>4, <1>5, <1>6, <1>7, <1>8, <1>9, AliveKept

LEMMA TrackEndsStep == ASSUME Inv, NEW t \in 1..Len(tracks), TrackEnds(t) PROVE Inv'
<1> USE DEF Inv
<1>1. /\ tracks' \in Seq(TrackStates) /\ Len(tracks') = Len(tracks)
      /\ \A x : x \in LiveTracks' => x \in LiveTracks
  BY DEF TrackEnds, HolderTypes, TrackStates, LiveTracks
<1>2. OpTypes'
  BY <1>1, OpSame DEF TrackEnds, Grown
<1>3. HolderTypes'
  BY <1>1 DEF TrackEnds, HolderTypes, OpTypes
<1>4. StreamTypes'
  BY <1>1 DEF TrackEnds, StreamTypes, States, Telling, Kinds
<1>5. EndTypes'
  BY <1>1, EndSame DEF TrackEnds
<1>6. LiveOK'
  BY <1>1 DEF TrackEnds, LiveOK, OpTypes, Ops, Idle
<1>7. ~destroyed' => StateOK'
  BY <1>1 DEF TrackEnds, Alive, StateOK, PublishingOK, Publishing, Whole, Nothing, StreamTypes,
    HolderTypes, Accepts, Running, Idle
<1>8. ~destroyed' => PublishingOK'
  BY <1>1 DEF TrackEnds, Alive, StateOK, PublishingOK, Publishing, Whole, Nothing, Unpublished,
    StreamTypes, HolderTypes, Accepts, Running
<1>9. ~destroyed' => StoppingOK'
  BY <1>1 DEF TrackEnds, Alive, StateOK, PublishingOK, StoppingOK, ManagersOK, Whole, Nothing,
    StreamTypes, HolderTypes, Accepts, Running
<1>10. ~destroyed' => ManagersOK'
  BY <1>1 DEF TrackEnds, Alive, StateOK, PublishingOK, StoppingOK, ManagersOK, Whole, Nothing,
    Unpublished, HolderTypes, Switching, PhaseA, Publishing, Accepts, Running, Idle
<1> QED
  BY <1>2, <1>3, <1>4, <1>5, <1>6, <1>7, <1>8, <1>9, <1>10, AliveKept

LEMMA ManagerStoppedStep == ASSUME Inv, NEW m \in 1..Len(managers), ManagerStopped(m) PROVE Inv'
<1> USE DEF Inv
<1>1. NewManager \in Manager /\ ~NewManager.publisher /\ ~NewManager.stopping /\
      NewManager.track = 0
  BY DEF NewManager, Manager
<1>2. /\ managers' \in Seq(Manager) /\ Len(managers') = Len(managers)
      /\ managers'[m] = NewManager /\ \A k \in 1..Len(managers) : k # m =>
           managers'[k] = managers[k]
      /\ \A k \in 1..Len(managers) : managers'[k].track \in 0..Len(tracks)
      /\ watched' \subseteq 1..Len(tracks)
  <2>1. watched' \subseteq watched /\ NewManager.track \in 0..Len(tracks)
    BY <1>1 DEF ManagerStopped, HolderTypes
  <2> QED
    BY <1>1, <2>1, ManagerChanges DEF ManagerStopped
<1>3. OpTypes'
  BY <1>1, <1>2, OpSame DEF ManagerStopped, Grown
<1>4. HolderTypes'
  BY <1>1, <1>2 DEF ManagerStopped, HolderTypes, OpTypes
<1>5. StreamTypes'
  BY <1>1, <1>2, StreamSame DEF ManagerStopped
<1>6. EndTypes'
  BY <1>1, <1>2, EndSame DEF ManagerStopped
<1>7. LiveOK'
  BY <1>1, <1>2, LiveSame DEF ManagerStopped, LiveOK, OpTypes, Ops, Idle
<1>8. ~destroyed' => StateOK'
  BY <1>1, <1>2 DEF ManagerStopped, Alive, StateOK, PublishingOK, Publishing, Whole, Nothing,
    StreamTypes, HolderTypes, Accepts, Running, Idle
<1>9. ~destroyed' => PublishingOK'
  BY <1>1, <1>2 DEF ManagerStopped, Alive, StateOK, PublishingOK, Publishing, Whole, Nothing,
    Unpublished, StreamTypes, HolderTypes, Accepts, Running
<1>10. ~destroyed' => StoppingOK'
  BY <1>1, <1>2 DEF ManagerStopped, Alive, StateOK, PublishingOK, StoppingOK, ManagersOK, Whole,
    Nothing, StreamTypes, HolderTypes, Accepts, Running
<1>11. ~destroyed' => ManagersOK'
  BY <1>1, <1>2 DEF ManagerStopped, Alive, StateOK, PublishingOK, StoppingOK, ManagersOK, Whole,
    Nothing, Unpublished, HolderTypes, Switching, PhaseA, Publishing, Accepts, Running, Idle
<1> QED
  BY <1>3, <1>4, <1>5, <1>6, <1>7, <1>8, <1>9, <1>10, <1>11, AliveKept

LEMMA RefuseStep == ASSUME Inv, Refuse PROVE Inv'
<1> USE DEF Inv
<1>1. OpTypes'
  BY OpSame DEF Refuse, Dequeue, Grown
<1>2. HolderTypes'
  BY HolderSame DEF Refuse, Dequeue
<1>3. StreamTypes'
  BY DEF Refuse, Dequeue, StreamTypes
<1>4. EndTypes'
  BY EndSame DEF Refuse, Dequeue
<1>5. LiveOK'
  BY LiveSame DEF Refuse, LiveOK
<1>6. ~destroyed' => StateOK'
  BY DEF Refuse, Dequeue, Alive, StateOK, PhaseA, Publishing, Whole, Nothing, StreamTypes,
    HolderTypes, Accepts, Running
<1>7. ~destroyed' => PublishingOK'
  BY DEF Refuse, Dequeue, Alive, StateOK, PublishingOK, StoppingOK, ManagersOK, Switching,
    Unpublished, StreamTypes, HolderTypes, Accepts, Running, Idle
<1>8. ~destroyed' => StoppingOK'
  BY DEF Refuse, Dequeue, Alive, StateOK, PublishingOK, StoppingOK, StreamTypes, HolderTypes,
    Accepts, Running, Idle
<1>9. ~destroyed' => ManagersOK'
  BY DEF Refuse, Dequeue, Alive, StateOK, PublishingOK, StoppingOK, ManagersOK, Whole, Nothing,
    Unpublished, HolderTypes, Switching, PhaseA, Publishing, Accepts, Running
<1> QED
  BY <1>1, <1>2, <1>3, <1>4, <1>5, <1>6, <1>7, <1>8, <1>9, AliveKept

-----------------------------------------------------------------------------
(* Starts and restarts *)

LEMMA BeginStartStep == ASSUME Inv, BeginStart PROVE Inv'
<1> USE DEF Inv
<1>1. /\ managers' \in Seq(Manager) /\ Len(managers') = Len(managers) + 1
      /\ \A k \in 1..Len(managers) : managers'[k] = managers[k]
      /\ managers'[Len(managers) + 1] = NewManager
      /\ ~NewManager.publisher /\ ~NewManager.stopping /\ NewManager.track = 0
  BY ManagerMade DEF BeginStart
<1>2. OpTypes'
  <2> DEFINE O == Ops(streams', Len(managers'), Len(tracks'))
  <2>1. /\ streams' \in Nat /\ Len(managers') \in Nat /\ Len(tracks') \in Nat
        /\ streams <= streams' /\ Len(managers) <= Len(managers') /\ Len(tracks) <= Len(tracks')
    BY <1>1 DEF BeginStart, Dequeue, HolderTypes, StreamTypes
  <2>2. Idle \in O
    BY <2>1, IdleIn
  <2>3. "capture" \in Awaits /\ "start" \in Kinds
    BY <1>1, <2>1 DEF StreamTypes, Awaits, Publishing, PhaseA, Switching, Kinds
  <2>4. op' \in O
    BY <2>2, <2>3 DEF BeginStart, Dequeue, Ops
  <2> QED
    BY <1>1, <2>3, <2>4 DEF BeginStart, Dequeue, OpTypes, Ops
<1>3. HolderTypes'
  BY <1>1 DEF BeginStart, Dequeue, HolderTypes, OpTypes
<1>4. StreamTypes'
  BY <1>1 DEF BeginStart, Dequeue, StreamTypes, States, Telling, Kinds
<1>5. EndTypes'
  <2>1. 0..Len(managers) \subseteq 0..Len(managers') /\ 0..streams \subseteq 0..streams'
    BY <1>1 DEF BeginStart, StreamTypes, HolderTypes
  <2> QED
    BY <2>1 DEF BeginStart, EndTypes
<1>6. LiveOK'
  <2>1. op.at = "idle" /\ op'.at = "capture" /\ ~destroyed
    BY DEF BeginStart, Dequeue, Running, Accepts, Idle
  <2>2. capture = 0
    BY <2>1 DEF BeginStart, Accepts, Alive, StateOK, Nothing
  <2> QED
    BY <2>1, <2>2, LiveSame DEF BeginStart, LiveOK
<1>7. ~destroyed' => StateOK'
  BY <1>1 DEF BeginStart, Dequeue, Alive, StateOK, PublishingOK, StoppingOK, ManagersOK,
    Switching, PhaseA, Publishing, Whole, Nothing, StreamTypes, HolderTypes, Accepts, Running
<1>8. ~destroyed' => PublishingOK'
  BY <1>1 DEF BeginStart, Dequeue, Alive, StateOK, PublishingOK, StoppingOK, ManagersOK,
    Switching, PhaseA, Publishing, Whole, Nothing, Unpublished, StreamTypes, HolderTypes,
    Accepts, Running, Idle
<1>9. ~destroyed' => StoppingOK'
  BY <1>1 DEF BeginStart, Dequeue, Alive, StateOK, PublishingOK, StoppingOK
<1>10. ~destroyed' => ManagersOK'
  BY <1>1 DEF BeginStart, Dequeue, Alive, StateOK, PublishingOK, StoppingOK, ManagersOK, Whole,
    Nothing, Unpublished, HolderTypes, Switching, PhaseA, Publishing, Accepts, Running
<1> QED
  BY <1>2, <1>3, <1>4, <1>5, <1>6, <1>7, <1>8, <1>9, <1>10, AliveKept

LEMMA BeginRestartStep == ASSUME Inv, BeginRestart PROVE Inv'
<1> USE DEF Inv
<1>1. manager \in 0..Len(managers) /\ StopManager(manager)
  BY DEF BeginRestart, HolderTypes
<1>2. /\ managers' \in Seq(Manager) /\ Len(managers') = Len(managers)
      /\ \A k \in 1..Len(managers) : k # manager => managers'[k] = managers[k]
      /\ \A k \in 1..Len(managers) : managers'[k].track \in 0..Len(tracks)
      /\ watched' \subseteq 1..Len(tracks)
      /\ manager # 0 =>
            /\ managers'[manager].publisher = managers[manager].publisher
            /\ managers[manager].publisher => managers'[manager].stopping
            /\ ~managers[manager].publisher =>
                 managers'[manager].stopping = managers[manager].stopping
  BY <1>1, ManagerStops
<1>3. OpTypes'
  <2> DEFINE O == Ops(streams', Len(managers'), Len(tracks'))
  <2>1. /\ streams' \in Nat /\ Len(managers') \in Nat /\ Len(tracks') \in Nat
        /\ streams <= streams' /\ Len(managers) <= Len(managers') /\ Len(tracks) <= Len(tracks')
    BY <1>1, <1>2 DEF BeginRestart, Dequeue, HolderTypes, StreamTypes
  <2>2. Idle \in O
    BY <2>1, IdleIn
  <2>3. /\ "restart.cleanup" \in Awaits /\ "restart" \in Kinds
        /\ stream \in 0..streams' /\ manager \in 0..Len(managers')
    BY <1>1, <1>2, <2>1 DEF StreamTypes, Awaits, Publishing, PhaseA, Switching, Kinds
  <2>4. op' \in O
    BY <2>2, <2>3 DEF BeginRestart, Dequeue, Ops
  <2> QED
    BY <1>1, <1>2, <2>3, <2>4 DEF BeginRestart, Dequeue, OpTypes, Ops
<1>4. HolderTypes'
  BY <1>1, <1>2 DEF BeginRestart, Dequeue, HolderTypes, OpTypes
<1>5. StreamTypes'
  <2>1. queue' \in Seq(Kinds)
    BY DEF BeginRestart, Dequeue, StreamTypes
  <2>2. state' \in States /\ timers' \in BOOLEAN
    BY DEF BeginRestart, States
  <2> QED
    BY <2>1, <2>2 DEF BeginRestart, StreamTypes
<1>6. EndTypes'
  BY <1>1, <1>2, EndSame DEF BeginRestart, Dequeue
<1>7. LiveOK'
  <2>1. op.at = "idle" /\ op'.at = "restart.cleanup" /\ ~destroyed
    BY DEF BeginRestart, Dequeue, Running, Accepts, Idle
  <2> QED
    BY <2>1, LiveSame DEF BeginRestart, LiveOK
<1>8. ~destroyed' => StateOK'
  BY <1>1, <1>2 DEF BeginRestart, Dequeue, Alive, StateOK, PublishingOK, StoppingOK, ManagersOK,
    Switching
<1>9. ~destroyed' => PublishingOK'
  BY <1>1, <1>2 DEF BeginRestart, Dequeue, Alive, StateOK, PublishingOK, StoppingOK, ManagersOK,
    Switching, PhaseA, Publishing, Whole, Nothing, Unpublished, StreamTypes, HolderTypes,
    Accepts, Running, Idle
<1>10. ~destroyed' => StoppingOK'
  BY <1>1, <1>2 DEF BeginRestart, Dequeue, Alive, StateOK, PublishingOK, StoppingOK
<1>11. ~destroyed' => ManagersOK'
  BY <1>1, <1>2 DEF BeginRestart, Dequeue, Alive, StateOK, PublishingOK, StoppingOK, ManagersOK,
    Whole, Nothing, Unpublished, HolderTypes, Switching, PhaseA, Publishing, Accepts, Running
<1> QED
  BY <1>3, <1>4, <1>5, <1>6, <1>7, <1>8, <1>9, <1>10, <1>11, AliveKept

LEMMA RestartCleanedStep == ASSUME Inv, RestartCleaned PROVE Inv'
<1> USE DEF Inv
<1>1. /\ managers' \in Seq(Manager) /\ Len(managers') = Len(managers) + 1
      /\ \A k \in 1..Len(managers) : managers'[k] = managers[k]
      /\ managers'[Len(managers) + 1] = NewManager
      /\ ~NewManager.publisher /\ ~NewManager.stopping /\ NewManager.track = 0
  BY ManagerMade DEF RestartCleaned
<1>2. /\ tracks' \in Seq(TrackStates) /\ Len(tracks') = Len(tracks)
      /\ \A t : t \in LiveTracks' <=> t \in LiveTracks /\ t \notin {capture}
  BY TracksStop DEF RestartCleaned
<1>3. OpTypes'
  <2> DEFINE O == Ops(streams', Len(managers'), Len(tracks'))
  <2>1. /\ streams' \in Nat /\ Len(managers') \in Nat /\ Len(tracks') \in Nat
        /\ streams <= streams' /\ Len(managers) <= Len(managers') /\ Len(tracks) <= Len(tracks')
    BY <1>1, <1>2 DEF RestartCleaned, Stopped, HolderTypes, StreamTypes
  <2>2. op \in O
    BY <2>1, OpIn
  <2>3. "capture" \in Awaits
    BY <1>1, <1>2, <2>1 DEF StreamTypes, Awaits, Publishing, PhaseA, Switching
  <2>4. op' \in O
    BY <2>2, <2>3 DEF RestartCleaned, Stopped, Ops
  <2> QED
    BY <1>1, <1>2, <2>3, <2>4 DEF RestartCleaned, Stopped, OpTypes, Ops
<1>4. HolderTypes'
  BY <1>1, <1>2 DEF RestartCleaned, Stopped, HolderTypes, OpTypes
<1>5. StreamTypes'
  BY <1>1, <1>2, StreamSame DEF RestartCleaned, Stopped
<1>6. EndTypes'
  BY <1>1, <1>2 DEF RestartCleaned, Stopped, EndTypes
<1>7. LiveOK'
  BY <1>1, <1>2 DEF RestartCleaned, LiveOK
<1>8. ~destroyed' => StateOK'
  BY <1>1, <1>2 DEF RestartCleaned, Stopped, Alive, StateOK, PublishingOK, StoppingOK,
    ManagersOK, Switching
<1>9. ~destroyed' => PublishingOK'
  BY <1>1, <1>2 DEF RestartCleaned, Stopped, Alive, StateOK, PublishingOK, StoppingOK,
    ManagersOK, Switching, PhaseA, Publishing, Whole, Nothing, Unpublished, StreamTypes,
    HolderTypes, Accepts, Running, Idle
<1>10. ~destroyed' => StoppingOK'
  BY <1>1, <1>2 DEF RestartCleaned, Stopped, Alive, StateOK, PublishingOK, StoppingOK
<1>11. ~destroyed' => ManagersOK'
  BY <1>1, <1>2 DEF RestartCleaned, Stopped, Alive, StateOK, PublishingOK, StoppingOK,
    ManagersOK, Whole, Nothing, Unpublished, HolderTypes, Switching, PhaseA, Publishing,
    Accepts, Running
<1> QED
  BY <1>3, <1>4, <1>5, <1>6, <1>7, <1>8, <1>9, <1>10, <1>11, AliveKept

LEMMA CapturedStep == ASSUME Inv, Captured PROVE Inv'
<1> USE DEF Inv
<1>1. /\ tracks' \in Seq(TrackStates) /\ Len(tracks') = Len(tracks) + 1
      /\ \A t : t \in LiveTracks' <=> t \in LiveTracks \/ t = Len(tracks) + 1
  BY TrackMade DEF Captured
<1>2. OpTypes'
  <2> DEFINE O == Ops(streams', Len(managers'), Len(tracks'))
  <2>1. /\ streams' \in Nat /\ Len(managers') \in Nat /\ Len(tracks') \in Nat
        /\ streams <= streams' /\ Len(managers) <= Len(managers') /\ Len(tracks) <= Len(tracks')
    BY <1>1 DEF Captured, HolderTypes, StreamTypes
  <2>2. op \in O
    BY <2>1, OpIn
  <2>3. "constraints" \in Awaits
    BY <1>1, <2>1 DEF Awaits, Publishing, PhaseA, Switching
  <2>4. op' \in O
    BY <2>2, <2>3 DEF Captured, Ops
  <2> QED
    BY <1>1, <2>3, <2>4 DEF Captured, OpTypes, Ops
<1>3. HolderTypes'
  BY <1>1 DEF Captured, HolderTypes, OpTypes
<1>4. StreamTypes'
  BY <1>1, StreamSame DEF Captured
<1>5. EndTypes'
  BY <1>1, EndSame DEF Captured
<1>6. LiveOK'
  <2>1. op.at = "capture" /\ op'.at = "constraints"
    BY DEF Captured, OpTypes, Ops
  <2>2. \A t \in LiveTracks : t = capture /\ t # 0 /\ capture = 0
    BY <2>1 DEF LiveOK, LiveTracks
  <2> QED
    BY <1>1, <2>1, <2>2 DEF Captured, LiveOK
<1>7. ~destroyed' => StateOK'
  BY <1>1 DEF Captured, Alive, StateOK, PublishingOK, StoppingOK, ManagersOK, Switching, PhaseA
<1>8. ~destroyed' => PublishingOK'
  BY <1>1 DEF Captured, Alive, StateOK, PublishingOK, StoppingOK, ManagersOK, Switching, PhaseA,
    Publishing, Whole, Nothing, Unpublished, StreamTypes, HolderTypes, Accepts, Running
<1>9. ~destroyed' => StoppingOK'
  BY <1>1 DEF Captured, Alive, StateOK, PublishingOK, StoppingOK, ManagersOK
<1>10. ~destroyed' => ManagersOK'
  BY <1>1 DEF Captured, Alive, StateOK, PublishingOK, StoppingOK, ManagersOK, Whole, Nothing,
    Unpublished, HolderTypes, Switching, PhaseA, Publishing, Accepts, Running, Idle
<1> QED
  BY <1>2, <1>3, <1>4, <1>5, <1>6, <1>7, <1>8, <1>9, <1>10, AliveKept

LEMMA PublishStep == ASSUME Inv, Publish PROVE Inv'
<1> USE DEF Inv
<1>1. OpTypes'
  <2> DEFINE O == Ops(streams', Len(managers'), Len(tracks'))
  <2>1. /\ streams' \in Nat /\ Len(managers') \in Nat /\ Len(tracks') \in Nat
        /\ streams <= streams' /\ Len(managers) <= Len(managers') /\ Len(tracks) <= Len(tracks')
    BY DEF Publish, HolderTypes, StreamTypes
  <2>2. op \in O
    BY <2>1, OpIn
  <2>3. /\ "connecting" \in Awaits /\ manager \in 0..Len(managers') /\ capture \in 0..Len(tracks')
        /\ manager # 0 /\ capture # 0
    BY <2>1 DEF Publish, OpTypes, Ops, HolderTypes, StreamTypes, Awaits, Publishing, PhaseA,
      Switching, Kinds
  <2>4. op' \in O
    BY <2>2, <2>3 DEF Publish, Ops
  <2> QED
    BY <2>3, <2>4 DEF Publish, OpTypes, Ops
<1>2. HolderTypes'
  BY HolderSame DEF Publish
<1>3. StreamTypes'
  BY StreamSame DEF Publish
<1>4. EndTypes'
  BY EndSame DEF Publish
<1>5. LiveOK'
  BY LiveSame DEF Publish, LiveOK, OpTypes, Ops, Idle
<1>6. ~destroyed' => StateOK'
  BY DEF Publish, Alive, StateOK, PublishingOK, StoppingOK, ManagersOK, Switching, PhaseA
<1>7. ~destroyed' => PublishingOK'
  BY DEF Publish, Alive, StateOK, PublishingOK, StoppingOK, ManagersOK, Switching, PhaseA,
    Publishing, Whole, Nothing, Unpublished, StreamTypes, HolderTypes, Accepts, Running
<1>8. ~destroyed' => StoppingOK'
  BY DEF Publish, Alive, StateOK, PublishingOK, StoppingOK, ManagersOK
<1>9. ~destroyed' => ManagersOK'
  BY DEF Publish, Alive, StateOK, PublishingOK, StoppingOK, ManagersOK, Whole, Nothing,
    Unpublished, HolderTypes, Switching, PhaseA, Publishing, Accepts, Running, Idle
<1> QED
  BY <1>1, <1>2, <1>3, <1>4, <1>5, <1>6, <1>7, <1>8, <1>9, AliveKept

LEMMA ConnectedStep == ASSUME Inv, Connected PROVE Inv'
<1> USE DEF Inv
<1>1. OpTypes'
  BY DEF Connected, OpTypes, Ops, Awaits, Publishing, PhaseA, Switching, Kinds
<1>2. HolderTypes'
  BY HolderSame DEF Connected
<1>3. StreamTypes'
  BY StreamSame DEF Connected
<1>4. EndTypes'
  BY EndSame DEF Connected
<1>5. LiveOK'
  BY LiveSame DEF Connected, LiveOK, OpTypes, Ops, Idle
<1>6. ~destroyed' => StateOK'
  BY DEF Connected, Alive, StateOK, PublishingOK, StoppingOK, ManagersOK, Switching, PhaseA
<1>7. ~destroyed' => PublishingOK'
  BY DEF Connected, Alive, StateOK, PublishingOK, StoppingOK, ManagersOK, Switching, PhaseA,
    Publishing, Whole, Nothing, Unpublished, StreamTypes, HolderTypes, Accepts, Running
<1>8. ~destroyed' => StoppingOK'
  BY DEF Connected, Alive, StateOK, PublishingOK, StoppingOK, ManagersOK
<1>9. ~destroyed' => ManagersOK'
  BY DEF Connected, Alive, StateOK, PublishingOK, StoppingOK, ManagersOK, Whole, Nothing,
    Unpublished, HolderTypes, Switching, PhaseA, Publishing, Accepts, Running, Idle
<1> QED
  BY <1>1, <1>2, <1>3, <1>4, <1>5, <1>6, <1>7, <1>8, <1>9, AliveKept

LEMMA PublishedStep == ASSUME Inv, Published PROVE Inv'
<1> USE DEF Inv
<1>1. op.manager \in 1..Len(managers) /\ op.track \in 1..Len(tracks)
  BY DEF Published, OpTypes, Ops, HolderTypes
<1>2. /\ managers' \in Seq(Manager) /\ Len(managers') = Len(managers)
      /\ managers'[op.manager] = [managers[op.manager] EXCEPT !.publisher = TRUE,
           !.track = op.track]
      /\ managers'[op.manager] \in Manager
      /\ \A k \in 1..Len(managers) : k # op.manager => managers'[k] = managers[k]
  <2> DEFINE r == [managers[op.manager] EXCEPT !.publisher = TRUE, !.track = op.track]
  <2>1. managers \in Seq(Manager) /\ managers[op.manager] \in Manager
    BY <1>1 DEF HolderTypes
  <2>2. managers' = [managers EXCEPT ![op.manager] = r]
    BY <1>1, <2>1 DEF Published
  <2>3. r \in Manager
    <3>1. op.track \in Nat
      BY <1>1 DEF HolderTypes
    <3> QED
      BY <2>1, <3>1 DEF Manager
  <2> HIDE DEF r
  <2>4. managers' \in Seq(Manager) /\ Len(managers') = Len(managers)
        /\ managers'[op.manager] = r
        /\ \A k \in 1..Len(managers) : k # op.manager => managers'[k] = managers[k]
    BY <1>1, <2>1, <2>2, <2>3
  <2> QED
    BY <2>3, <2>4 DEF r
<1>3. /\ managers'[op.manager].publisher /\ managers'[op.manager].track = op.track
      /\ managers'[op.manager].stopping = managers[op.manager].stopping
  <2>1. managers[op.manager] \in Manager
    BY <1>1 DEF HolderTypes
  <2> QED
    BY <1>2, <2>1 DEF Manager
<1>4. PICK x \in 0..streams, type \in {"started", "restarted"} :
         /\ Tell(x, type)
         /\ IF op.kind = "start" THEN x = stream ELSE x = op.stream
  BY DEF Published, StreamTypes, OpTypes, Ops
<1>5. /\ told' \in Seq(Telling) /\ Len(told') = Len(told)
      /\ \A k \in 1..Len(told) : told'[k] = IF k = x THEN type ELSE told[k]
  BY <1>4, StreamTold DEF Telling
<1>6. OpTypes'
  BY <1>1, <1>2, <1>3, <1>4, <1>5 DEF Published, OpTypes, Ops, Awaits, Publishing, PhaseA,
    Switching, Kinds
<1>7. HolderTypes'
  BY <1>1, <1>2, <1>3, <1>4, <1>5 DEF Published, HolderTypes, OpTypes
<1>8. StreamTypes'
  BY <1>1, <1>2, <1>3, <1>4, <1>5 DEF Published, StreamTypes, States, Telling, Kinds
<1>9. EndTypes'
  BY <1>1, <1>2, <1>3, <1>4, <1>5, EndSame DEF Published
<1>10. LiveOK'
  BY <1>1, <1>2, <1>3, <1>4, <1>5, LiveSame DEF Published, LiveOK, OpTypes, Ops, Idle
<1>11. ~destroyed' => StateOK'
  BY <1>1, <1>2, <1>3, <1>4, <1>5 DEF Published, Alive, StateOK, PublishingOK, StoppingOK,
    ManagersOK, Switching, PhaseA
<1>12. ~destroyed' => PublishingOK'
  BY <1>1, <1>2, <1>3, <1>4, <1>5 DEF Published, Alive, StateOK, PublishingOK, StoppingOK,
    ManagersOK, Switching, PhaseA, Publishing, Whole, Nothing, Unpublished, StreamTypes,
    HolderTypes, Accepts, Running
<1>13. ~destroyed' => StoppingOK'
  BY <1>1, <1>2, <1>3, <1>4, <1>5 DEF Published, Alive, StateOK, PublishingOK, StoppingOK,
    ManagersOK
<1>14. ~destroyed' => ManagersOK'
  BY <1>1, <1>2, <1>3, <1>4, <1>5 DEF Published, Alive, StateOK, PublishingOK, StoppingOK,
    ManagersOK, Whole, Nothing, Unpublished, HolderTypes, Switching, PhaseA, Publishing,
    Accepts, Running, Idle
<1> QED
  BY <1>6, <1>7, <1>8, <1>9, <1>10, <1>11, <1>12, <1>13, <1>14, AliveKept

LEMMA AnnouncedStep == ASSUME Inv, Announced PROVE Inv'
<1> USE DEF Inv
<1>1. OpTypes'
  <2> DEFINE O == Ops(streams', Len(managers'), Len(tracks'))
  <2>1. /\ streams' \in Nat /\ Len(managers') \in Nat /\ Len(tracks') \in Nat
        /\ streams <= streams' /\ Len(managers) <= Len(managers') /\ Len(tracks) <= Len(tracks')
    BY DEF Announced, HolderTypes, StreamTypes
  <2>2. Idle \in O
    BY <2>1, IdleIn
  <2> QED
    BY <2>1, <2>2, IdleIn DEF Announced, OpTypes
<1>2. HolderTypes'
  BY HolderSame DEF Announced
<1>3. StreamTypes'
  BY DEF Announced, StreamTypes, States, Telling, Kinds
<1>4. EndTypes'
  BY EndSame DEF Announced
<1>5. LiveOK'
  BY LiveSame DEF Announced, LiveOK, OpTypes, Ops, Idle
<1>6. ~destroyed' => StateOK'
  BY DEF Announced, Alive, StateOK, PublishingOK, StoppingOK, ManagersOK, Switching, PhaseA,
    Publishing, Whole, Nothing, StreamTypes, HolderTypes, Accepts, Running, Idle
<1>7. ~destroyed' => PublishingOK'
  BY DEF Announced, Alive, StateOK, PublishingOK, StoppingOK, ManagersOK, Switching, PhaseA,
    Publishing, Whole, Nothing, Unpublished, StreamTypes, HolderTypes, Accepts, Running, Idle
<1>8. ~destroyed' => StoppingOK'
  BY DEF Announced, Alive, StateOK, PublishingOK, StoppingOK, ManagersOK, Idle
<1>9. ~destroyed' => ManagersOK'
  BY DEF Announced, Alive, StateOK, PublishingOK, StoppingOK, ManagersOK, Whole, Nothing,
    Unpublished, HolderTypes, Switching, PhaseA, Publishing, Accepts, Running, Idle
<1> QED
  BY <1>1, <1>2, <1>3, <1>4, <1>5, <1>6, <1>7, <1>8, <1>9, AliveKept

LEMMA PhaseAFailsStep == ASSUME Inv, PhaseAFails PROVE Inv'
<1> USE DEF Inv
<1>1. manager \in 0..Len(managers) /\ StopManager(manager)
  BY DEF PhaseAFails, HolderTypes
<1>2. /\ managers' \in Seq(Manager) /\ Len(managers') = Len(managers)
      /\ \A k \in 1..Len(managers) : k # manager => managers'[k] = managers[k]
      /\ \A k \in 1..Len(managers) : managers'[k].track \in 0..Len(tracks)
      /\ watched' \subseteq 1..Len(tracks)
      /\ manager # 0 =>
            /\ managers'[manager].publisher = managers[manager].publisher
            /\ managers[manager].publisher => managers'[manager].stopping
            /\ ~managers[manager].publisher =>
                 managers'[manager].stopping = managers[manager].stopping
  BY <1>1, ManagerStops
<1>3. OpTypes'
  BY <1>1, <1>2 DEF PhaseAFails, OpTypes, Ops, Awaits, Publishing, PhaseA, Switching, Kinds
<1>4. HolderTypes'
  BY <1>1, <1>2 DEF PhaseAFails, HolderTypes, OpTypes
<1>5. StreamTypes'
  BY <1>1, <1>2 DEF PhaseAFails, StreamTypes, States, Telling, Kinds
<1>6. EndTypes'
  BY <1>1, <1>2, EndSame DEF PhaseAFails
<1>7. LiveOK'
  BY <1>1, <1>2, LiveSame DEF PhaseAFails, LiveOK, OpTypes, Ops, Idle
<1>8. ~destroyed' => StateOK'
  BY <1>1, <1>2 DEF PhaseAFails, Alive, StateOK, PublishingOK, StoppingOK, ManagersOK,
    Switching, PhaseA
<1>9. ~destroyed' => PublishingOK'
  BY <1>1, <1>2 DEF PhaseAFails, Alive, StateOK, PublishingOK, StoppingOK, ManagersOK,
    Switching, PhaseA, Publishing, Whole, Nothing, Unpublished, StreamTypes, HolderTypes,
    Accepts, Running
<1>10. ~destroyed' => StoppingOK'
  BY <1>1, <1>2 DEF PhaseAFails, Alive, StateOK, PublishingOK, StoppingOK, ManagersOK
<1>11. ~destroyed' => ManagersOK'
  BY <1>1, <1>2 DEF PhaseAFails, Alive, StateOK, PublishingOK, StoppingOK, ManagersOK, Whole,
    Nothing, Unpublished, HolderTypes, Switching, PhaseA, Publishing, Accepts, Running, Idle
<1> QED
  BY <1>3, <1>4, <1>5, <1>6, <1>7, <1>8, <1>9, <1>10, <1>11, AliveKept

LEMMA FailureCleanedStep == ASSUME Inv, FailureCleaned PROVE Inv'
<1> USE DEF Inv
<1>1. /\ tracks' \in Seq(TrackStates) /\ Len(tracks') = Len(tracks)
      /\ \A t : t \in LiveTracks' <=> t \in LiveTracks /\ t \notin {capture}
  BY TracksStop DEF FailureCleaned, ResetSession
<1>2. OpTypes'
  <2> DEFINE O == Ops(streams', Len(managers'), Len(tracks'))
  <2>1. /\ streams' \in Nat /\ Len(managers') \in Nat /\ Len(tracks') \in Nat
        /\ streams <= streams' /\ Len(managers) <= Len(managers') /\ Len(tracks) <= Len(tracks')
    BY <1>1 DEF FailureCleaned, ResetSession, Stopped, HolderTypes, StreamTypes
  <2>2. Idle \in O
    BY <2>1, IdleIn
  <2> QED
    BY <2>1, <2>2, IdleIn DEF FailureCleaned, ResetSession, Stopped, OpTypes
<1>3. HolderTypes'
  BY <1>1 DEF FailureCleaned, ResetSession, Stopped, HolderTypes, OpTypes
<1>4. StreamTypes'
  BY <1>1 DEF FailureCleaned, ResetSession, Stopped, StreamTypes, States, Telling
<1>5. EndTypes'
  BY <1>1, EndSame DEF FailureCleaned, ResetSession, Stopped
<1>6. LiveOK'
  BY <1>1 DEF FailureCleaned, ResetSession, Stopped, LiveOK, OpTypes, Ops
<1>7. ~destroyed' => StateOK'
  BY <1>1 DEF FailureCleaned, ResetSession, Stopped, Alive, StateOK, PublishingOK, StoppingOK,
    ManagersOK, Switching, PhaseA, Publishing, Whole, Nothing, StreamTypes, HolderTypes,
    Accepts, Running, Idle
<1>8. ~destroyed' => PublishingOK'
  BY <1>1 DEF FailureCleaned, ResetSession, Stopped, Alive, StateOK, PublishingOK, StoppingOK,
    ManagersOK, Switching, PhaseA, Publishing, Whole, Nothing, Unpublished, StreamTypes,
    HolderTypes, Accepts, Running, Idle
<1>9. ~destroyed' => StoppingOK'
  BY <1>1 DEF FailureCleaned, ResetSession, Stopped, StoppingOK, Idle
<1>10. ~destroyed' => ManagersOK'
  BY <1>1 DEF FailureCleaned, ResetSession, Stopped, Alive, StateOK, PublishingOK, StoppingOK,
    ManagersOK, Whole, Nothing, Unpublished, HolderTypes, Switching, PhaseA, Publishing,
    Accepts, Running, Idle
<1> QED
  BY <1>2, <1>3, <1>4, <1>5, <1>6, <1>7, <1>8, <1>9, <1>10, AliveKept

-----------------------------------------------------------------------------
(* Stops *)

LEMMA BeginStopStep == ASSUME Inv, BeginStop PROVE Inv'
<1> USE DEF Inv
<1>1. OpTypes'
  <2> DEFINE O == Ops(streams', Len(managers'), Len(tracks'))
  <2>1. /\ streams' \in Nat /\ Len(managers') \in Nat /\ Len(tracks') \in Nat
        /\ streams <= streams' /\ Len(managers) <= Len(managers') /\ Len(tracks) <= Len(tracks')
    BY DEF BeginStop, Dequeue, HolderTypes, StreamTypes
  <2>2. Idle \in O
    BY <2>1, IdleIn
  <2>3. /\ "stop.audio" \in Awaits /\ "stop" \in Kinds /\ stream \in 0..streams'
    BY <2>1 DEF StreamTypes, Awaits, Switching, Kinds
  <2>4. op' \in O
    BY <2>2, <2>3 DEF BeginStop, Dequeue, Ops
  <2> QED
    BY <2>3, <2>4 DEF BeginStop, Dequeue, OpTypes, Ops
<1>2. HolderTypes'
  BY HolderSame DEF BeginStop, Dequeue
<1>3. StreamTypes'
  <2>1. queue' \in Seq(Kinds)
    BY DEF BeginStop, Dequeue, StreamTypes
  <2>2. state' \in States /\ timers' \in BOOLEAN
    BY DEF BeginStop, States
  <2> QED
    BY <2>1, <2>2 DEF BeginStop, StreamTypes
<1>4. EndTypes'
  BY EndSame DEF BeginStop, Dequeue
<1>5. LiveOK'
  <2>1. op.at = "idle" /\ op'.at = "stop.audio" /\ ~destroyed
    BY DEF BeginStop, Dequeue, Running, Accepts, Idle
  <2> QED
    BY <2>1, LiveSame DEF BeginStop, LiveOK
<1>6. ~destroyed' => StateOK'
  BY DEF BeginStop, Dequeue, Alive, StateOK, PublishingOK, StoppingOK, ManagersOK, Switching,
    PhaseA, Publishing, Whole, Nothing, StreamTypes, HolderTypes, Accepts, Running
<1>7. ~destroyed' => PublishingOK'
  BY DEF BeginStop, Dequeue, Alive, StateOK, PublishingOK, StoppingOK, ManagersOK, Switching,
    PhaseA, Publishing, Whole, Nothing, Unpublished, StreamTypes, HolderTypes, Accepts, Running,
    Idle
<1>8. ~destroyed' => StoppingOK'
  BY DEF BeginStop, Dequeue, Alive, StateOK, PublishingOK, StoppingOK, ManagersOK, Whole,
    Nothing, StreamTypes, HolderTypes, Accepts, Running, Idle
<1>9. ~destroyed' => ManagersOK'
  BY DEF BeginStop, Dequeue, Alive, StateOK, PublishingOK, StoppingOK, ManagersOK, Whole,
    Nothing, Unpublished, HolderTypes, Switching, PhaseA, Publishing, Accepts, Running
<1> QED
  BY <1>1, <1>2, <1>3, <1>4, <1>5, <1>6, <1>7, <1>8, <1>9, AliveKept

LEMMA StopToldStep == ASSUME Inv, StopTold PROVE Inv'
<1> USE DEF Inv
<1>1. manager \in 0..Len(managers) /\ StopManager(manager)
  BY DEF StopTold, HolderTypes
<1>2. /\ managers' \in Seq(Manager) /\ Len(managers') = Len(managers)
      /\ \A k \in 1..Len(managers) : k # manager => managers'[k] = managers[k]
      /\ \A k \in 1..Len(managers) : managers'[k].track \in 0..Len(tracks)
      /\ watched' \subseteq 1..Len(tracks)
      /\ manager # 0 =>
            /\ managers'[manager].publisher = managers[manager].publisher
            /\ managers[manager].publisher => managers'[manager].stopping
            /\ ~managers[manager].publisher =>
                 managers'[manager].stopping = managers[manager].stopping
  BY <1>1, ManagerStops
<1>3. /\ told' \in Seq(Telling) /\ Len(told') = Len(told)
      /\ \A k \in 1..Len(told) : told'[k] = IF k = op.stream THEN "stopped" ELSE told[k]
  BY StreamTold DEF StopTold, Telling, OpTypes, Ops
<1>4. OpTypes'
  BY <1>1, <1>2, <1>3 DEF StopTold, OpTypes, Ops, Awaits
<1>5. HolderTypes'
  BY <1>1, <1>2, <1>3 DEF StopTold, HolderTypes, OpTypes
<1>6. StreamTypes'
  BY <1>1, <1>2, <1>3 DEF StopTold, StreamTypes, States, Telling, Kinds
<1>7. EndTypes'
  BY <1>1, <1>2, <1>3, EndSame DEF StopTold
<1>8. LiveOK'
  BY <1>1, <1>2, <1>3, LiveSame DEF StopTold, LiveOK, OpTypes, Ops, Idle
<1>9. ~destroyed' => StateOK'
  BY <1>1, <1>2, <1>3 DEF StopTold, Alive, StateOK, PublishingOK, StoppingOK, ManagersOK,
    Switching, PhaseA
<1>10. ~destroyed' => PublishingOK'
  BY <1>1, <1>2, <1>3 DEF StopTold, Alive, StateOK, PublishingOK, StoppingOK, ManagersOK,
    Switching, PhaseA, Publishing, Whole, Nothing, Unpublished, StreamTypes, HolderTypes,
    Accepts, Running
<1>11. ~destroyed' => StoppingOK'
  BY <1>1, <1>2, <1>3 DEF StopTold, Alive, StateOK, PublishingOK, StoppingOK, ManagersOK, Whole,
    Nothing, StreamTypes, HolderTypes, Accepts, Running
<1>12. ~destroyed' => ManagersOK'
  BY <1>1, <1>2, <1>3 DEF StopTold, Alive, StateOK, PublishingOK, StoppingOK, ManagersOK, Whole,
    Nothing, Unpublished, HolderTypes, Switching, PhaseA, Publishing, Accepts, Running, Idle
<1> QED
  BY <1>4, <1>5, <1>6, <1>7, <1>8, <1>9, <1>10, <1>11, <1>12, AliveKept

LEMMA StopDoneStep == ASSUME Inv, StopDone PROVE Inv'
<1> USE DEF Inv
<1>1. /\ tracks' \in Seq(TrackStates) /\ Len(tracks') = Len(tracks)
      /\ \A t : t \in LiveTracks' <=> t \in LiveTracks /\ t \notin {capture}
  BY TracksStop DEF StopDone, ResetSession
<1>2. OpTypes'
  <2> DEFINE O == Ops(streams', Len(managers'), Len(tracks'))
  <2>1. /\ streams' \in Nat /\ Len(managers') \in Nat /\ Len(tracks') \in Nat
        /\ streams <= streams' /\ Len(managers) <= Len(managers') /\ Len(tracks) <= Len(tracks')
    BY <1>1 DEF StopDone, ResetSession, Stopped, HolderTypes, StreamTypes
  <2>2. Idle \in O
    BY <2>1, IdleIn
  <2> QED
    BY <2>1, <2>2, IdleIn DEF StopDone, ResetSession, Stopped, OpTypes
<1>3. HolderTypes'
  BY <1>1 DEF StopDone, ResetSession, Stopped, HolderTypes, OpTypes
<1>4. StreamTypes'
  BY <1>1 DEF StopDone, ResetSession, Stopped, StreamTypes, States, Telling
<1>5. EndTypes'
  BY <1>1, EndSame DEF StopDone, ResetSession, Stopped
<1>6. LiveOK'
  BY <1>1 DEF StopDone, ResetSession, Stopped, LiveOK, OpTypes, Ops
<1>7. ~destroyed' => StateOK'
  BY <1>1 DEF StopDone, ResetSession, Stopped, Alive, StateOK, PublishingOK, StoppingOK,
    ManagersOK, Switching, PhaseA, Publishing, Whole, Nothing, StreamTypes, HolderTypes,
    Accepts, Running, Idle
<1>8. ~destroyed' => PublishingOK'
  BY <1>1 DEF StopDone, ResetSession, Stopped, Alive, StateOK, PublishingOK, StoppingOK,
    ManagersOK, Switching, PhaseA, Publishing, Whole, Nothing, Unpublished, StreamTypes,
    HolderTypes, Accepts, Running, Idle
<1>9. ~destroyed' => StoppingOK'
  BY <1>1 DEF StopDone, ResetSession, Stopped, StoppingOK, Idle
<1>10. ~destroyed' => ManagersOK'
  BY <1>1 DEF StopDone, ResetSession, Stopped, Alive, StateOK, PublishingOK, StoppingOK,
    ManagersOK, Whole, Nothing, Unpublished, HolderTypes, Switching, PhaseA, Publishing,
    Accepts, Running, Idle
<1> QED
  BY <1>2, <1>3, <1>4, <1>5, <1>6, <1>7, <1>8, <1>9, <1>10, AliveKept

-----------------------------------------------------------------------------
(* Switches *)

LEMMA BeginSwitchStep == ASSUME Inv, BeginSwitch PROVE Inv'
<1> USE DEF Inv
<1>1. OpTypes'
  <2> DEFINE O == Ops(streams', Len(managers'), Len(tracks'))
  <2>1. /\ streams' \in Nat /\ Len(managers') \in Nat /\ Len(tracks') \in Nat
        /\ streams <= streams' /\ Len(managers) <= Len(managers') /\ Len(tracks) <= Len(tracks')
    BY DEF BeginSwitch, Dequeue, HolderTypes, StreamTypes
  <2>2. Idle \in O
    BY <2>1, IdleIn
  <2>3. "switch.source" \in Awaits /\ "switch" \in Kinds
    BY <2>1 DEF StreamTypes, Awaits, Switching, Kinds
  <2>4. op' \in O
    BY <2>2, <2>3 DEF BeginSwitch, Dequeue, Ops
  <2> QED
    BY <2>3, <2>4 DEF BeginSwitch, Dequeue, OpTypes, Ops
<1>2. HolderTypes'
  BY HolderSame DEF BeginSwitch, Dequeue
<1>3. StreamTypes'
  BY DEF BeginSwitch, Dequeue, StreamTypes
<1>4. EndTypes'
  BY EndSame DEF BeginSwitch, Dequeue
<1>5. LiveOK'
  <2>1. op.at = "idle" /\ op'.at = "switch.source" /\ ~destroyed
    BY DEF BeginSwitch, Dequeue, Running, Accepts, Idle
  <2> QED
    BY <2>1, LiveSame DEF BeginSwitch, LiveOK
<1>6. ~destroyed' => StateOK'
  BY DEF BeginSwitch, Dequeue, Alive, StateOK, PhaseA, Publishing, Whole, Nothing, StreamTypes,
    HolderTypes, Accepts, Running
<1>7. ~destroyed' => PublishingOK'
  BY DEF BeginSwitch, Dequeue, Alive, StateOK, PublishingOK, StoppingOK, ManagersOK, Switching,
    PhaseA, Publishing, Whole, Nothing, Unpublished, StreamTypes, HolderTypes, Accepts, Running,
    Idle
<1>8. ~destroyed' => StoppingOK'
  BY DEF BeginSwitch, Dequeue, Alive, StateOK, PublishingOK, StoppingOK
<1>9. ~destroyed' => ManagersOK'
  BY DEF BeginSwitch, Dequeue, Alive, StateOK, PublishingOK, StoppingOK, ManagersOK, Whole,
    Nothing, Unpublished, HolderTypes, Switching, PhaseA, Publishing, Accepts, Running
<1> QED
  BY <1>1, <1>2, <1>3, <1>4, <1>5, <1>6, <1>7, <1>8, <1>9, AliveKept

LEMMA SwitchDetachedStep == ASSUME Inv, SwitchDetached PROVE Inv'
<1> USE DEF Inv
<1>1. OpTypes'
  BY DEF SwitchDetached, OpTypes, Ops, Awaits, Switching, Kinds
<1>2. HolderTypes'
  BY DEF SwitchDetached, HolderTypes, OpTypes
<1>3. StreamTypes'
  BY StreamSame DEF SwitchDetached
<1>4. EndTypes'
  BY EndSame DEF SwitchDetached
<1>5. LiveOK'
  BY LiveSame DEF SwitchDetached, LiveOK, OpTypes, Ops, Idle
<1>6. ~destroyed' => StateOK'
  BY DEF SwitchDetached, Alive, StateOK, PublishingOK, StoppingOK, ManagersOK, Switching,
    PhaseA, Publishing, Whole, Nothing, StreamTypes, HolderTypes, Accepts, Running, Idle
<1>7. ~destroyed' => PublishingOK'
  BY DEF SwitchDetached, Alive, StateOK, PublishingOK, StoppingOK, ManagersOK, Switching,
    PhaseA, Publishing, Whole, Nothing, Unpublished, StreamTypes, HolderTypes, Accepts, Running
<1>8. ~destroyed' => StoppingOK'
  BY DEF SwitchDetached, Alive, StateOK, PublishingOK, StoppingOK, ManagersOK
<1>9. ~destroyed' => ManagersOK'
  BY DEF SwitchDetached, Alive, StateOK, PublishingOK, StoppingOK, ManagersOK, Whole, Nothing,
    Unpublished, HolderTypes, Switching, PhaseA, Publishing, Accepts, Running, Idle
<1> QED
  BY <1>1, <1>2, <1>3, <1>4, <1>5, <1>6, <1>7, <1>8, <1>9, AliveKept

LEMMA SwitchCapturedStep == ASSUME Inv, SwitchCaptured PROVE Inv'
<1> USE DEF Inv
<1>1. /\ tracks' \in Seq(TrackStates) /\ Len(tracks') = Len(tracks) + 1
      /\ \A t : t \in LiveTracks' <=> t \in LiveTracks \/ t = Len(tracks) + 1
  BY TrackMade DEF SwitchCaptured
<1>2. OpTypes'
  <2> DEFINE O == Ops(streams', Len(managers'), Len(tracks'))
  <2>1. /\ streams' \in Nat /\ Len(managers') \in Nat /\ Len(tracks') \in Nat
        /\ streams <= streams' /\ Len(managers) <= Len(managers') /\ Len(tracks) <= Len(tracks')
    BY <1>1 DEF SwitchCaptured, HolderTypes, StreamTypes
  <2>2. op \in O
    BY <2>1, OpIn
  <2>3. /\ "switch.replace" \in Awaits /\ manager \in 0..Len(managers') /\ manager # 0
        /\ Len(tracks) + 1 \in 0..Len(tracks') /\ Len(tracks) + 1 # 0
        /\ managers[manager].track \in 0..Len(tracks')
    BY <1>1, <2>1 DEF SwitchCaptured, OpTypes, Ops, HolderTypes, StreamTypes, Awaits,
      Publishing, PhaseA, Switching, Kinds
  <2>4. op' \in O
    BY <2>2, <2>3 DEF SwitchCaptured, Ops
  <2> QED
    BY <1>1, <2>3, <2>4 DEF SwitchCaptured, OpTypes, Ops
<1>3. HolderTypes'
  BY <1>1 DEF SwitchCaptured, HolderTypes, OpTypes
<1>4. StreamTypes'
  BY <1>1, StreamSame DEF SwitchCaptured
<1>5. EndTypes'
  BY <1>1, EndSame DEF SwitchCaptured
<1>6. LiveOK'
  <2>1. /\ op.at = "switch.capture" /\ op'.at = "switch.replace"
        /\ op'.track = Len(tracks) + 1 /\ op'.old = managers[manager].track
    BY DEF SwitchCaptured, OpTypes, Ops
  <2>2. managers[manager].track = capture
    BY DEF SwitchCaptured, Alive, StateOK, Whole
  <2> QED
    BY <1>1, <2>1, <2>2 DEF SwitchCaptured, LiveOK
<1>7. ~destroyed' => StateOK'
  BY <1>1 DEF SwitchCaptured, Alive, StateOK, PublishingOK, StoppingOK, ManagersOK, Switching,
    PhaseA, Publishing, Whole, Nothing, StreamTypes, HolderTypes, Accepts, Running, Idle
<1>8. ~destroyed' => PublishingOK'
  BY <1>1 DEF SwitchCaptured, Alive, StateOK, PublishingOK, StoppingOK, ManagersOK, Switching,
    PhaseA, Publishing, Whole, Nothing, Unpublished, StreamTypes, HolderTypes, Accepts, Running
<1>9. ~destroyed' => StoppingOK'
  BY <1>1 DEF SwitchCaptured, Alive, StateOK, PublishingOK, StoppingOK, ManagersOK
<1>10. ~destroyed' => ManagersOK'
  BY <1>1 DEF SwitchCaptured, Alive, StateOK, PublishingOK, StoppingOK, ManagersOK, Whole,
    Nothing, Unpublished, HolderTypes, Switching, PhaseA, Publishing, Accepts, Running, Idle
<1> QED
  BY <1>2, <1>3, <1>4, <1>5, <1>6, <1>7, <1>8, <1>9, <1>10, AliveKept

LEMMA SwitchReplacedStep == ASSUME Inv, SwitchReplaced PROVE Inv'
<1> USE DEF Inv
<1>1. /\ tracks' \in Seq(TrackStates) /\ Len(tracks') = Len(tracks)
      /\ \A t : t \in LiveTracks' <=> t \in LiveTracks /\ t \notin {op.old}
  <2>1. tracks \in Seq(TrackStates) /\ "replaced" \in TrackStates
    BY DEF HolderTypes, TrackStates
  <2>2. CASE op.old \notin LiveTracks
    BY <2>1, <2>2 DEF SwitchReplaced, LiveTracks
  <2>3. CASE op.old \in LiveTracks
    <3>1. op.old \in 1..Len(tracks) /\ tracks' = [tracks EXCEPT ![op.old] = "replaced"]
      BY <2>3 DEF SwitchReplaced, LiveTracks
    <3>2. /\ tracks' \in Seq(TrackStates) /\ Len(tracks') = Len(tracks)
          /\ \A t \in 1..Len(tracks) : tracks'[t] = IF t = op.old THEN "replaced" ELSE tracks[t]
      BY <2>1, <3>1
    <3> QED
      BY <3>2 DEF LiveTracks
  <2> QED
    BY <2>2, <2>3
<1>2. OpTypes'
  BY <1>1 DEF SwitchReplaced, OpTypes, Ops, Awaits, Switching, Kinds
<1>3. HolderTypes'
  BY <1>1 DEF SwitchReplaced, HolderTypes, OpTypes
<1>4. StreamTypes'
  BY <1>1, StreamSame DEF SwitchReplaced
<1>5. EndTypes'
  BY <1>1, EndSame DEF SwitchReplaced
<1>6. LiveOK'
  BY <1>1 DEF SwitchReplaced, LiveOK, OpTypes, Ops, Idle
<1>7. ~destroyed' => StateOK'
  BY <1>1 DEF SwitchReplaced, Alive, StateOK, PublishingOK, StoppingOK, ManagersOK, Switching,
    PhaseA, Publishing, Whole, Nothing, StreamTypes, HolderTypes, Accepts, Running, Idle
<1>8. ~destroyed' => PublishingOK'
  BY <1>1 DEF SwitchReplaced, Alive, StateOK, PublishingOK, StoppingOK, ManagersOK, Switching,
    PhaseA, Publishing, Whole, Nothing, Unpublished, StreamTypes, HolderTypes, Accepts, Running
<1>9. ~destroyed' => StoppingOK'
  BY <1>1 DEF SwitchReplaced, Alive, StateOK, PublishingOK, StoppingOK, ManagersOK
<1>10. ~destroyed' => ManagersOK'
  BY <1>1 DEF SwitchReplaced, Alive, StateOK, PublishingOK, StoppingOK, ManagersOK, Whole,
    Nothing, Unpublished, HolderTypes, Switching, PhaseA, Publishing, Accepts, Running, Idle
<1> QED
  BY <1>2, <1>3, <1>4, <1>5, <1>6, <1>7, <1>8, <1>9, <1>10, AliveKept

LEMMA SwitchVerifiedStep == ASSUME Inv, SwitchVerified PROVE Inv'
<1> USE DEF Inv
<1>1. op.manager \in 1..Len(managers) /\ op.track \in 1..Len(tracks)
  BY DEF SwitchVerified, OpTypes, Ops, HolderTypes
<1>2. /\ managers' \in Seq(Manager) /\ Len(managers') = Len(managers)
      /\ managers'[op.manager].publisher = managers[op.manager].publisher
      /\ managers'[op.manager].stopping = managers[op.manager].stopping
      /\ managers'[op.manager].track = op.track
      /\ \A k \in 1..Len(managers) : k # op.manager => managers'[k] = managers[k]
  <2> DEFINE r == [managers[op.manager] EXCEPT !.track = op.track]
  <2>1. managers \in Seq(Manager) /\ managers[op.manager] \in Manager
    BY <1>1 DEF HolderTypes
  <2>2. managers' = [managers EXCEPT ![op.manager] = r]
    BY <1>1, <2>1 DEF SwitchVerified
  <2>3. r \in Manager /\ r.publisher = managers[op.manager].publisher
        /\ r.stopping = managers[op.manager].stopping /\ r.track = op.track
    <3>1. op.track \in Nat
      BY <1>1 DEF HolderTypes
    <3> QED
      BY <2>1, <3>1 DEF Manager
  <2> HIDE DEF r
  <2> QED
    BY <1>1, <2>1, <2>2, <2>3
<1>3. OpTypes'
  <2> DEFINE O == Ops(streams', Len(managers'), Len(tracks'))
  <2>1. /\ streams' \in Nat /\ Len(managers') \in Nat /\ Len(tracks') \in Nat
        /\ streams <= streams' /\ Len(managers) <= Len(managers') /\ Len(tracks) <= Len(tracks')
    BY <1>1, <1>2 DEF SwitchVerified, HolderTypes, StreamTypes
  <2>2. op \in O
    BY <2>1, OpIn
  <2>3. /\ "switch.constraints" \in Awaits /\ capture \in 0..Len(tracks')
    BY <1>1, <1>2, <2>1 DEF Ops, HolderTypes, StreamTypes, Awaits, Publishing, PhaseA,
      Switching, Kinds
  <2>4. op' \in O
    BY <2>2, <2>3 DEF SwitchVerified, Ops
  <2> QED
    BY <1>1, <1>2, <2>3, <2>4 DEF SwitchVerified, OpTypes, Ops
<1>4. HolderTypes'
  BY <1>1, <1>2 DEF SwitchVerified, HolderTypes, OpTypes
<1>5. StreamTypes'
  BY <1>1, <1>2, StreamSame DEF SwitchVerified
<1>6. EndTypes'
  BY <1>1, <1>2, EndSame DEF SwitchVerified
<1>7. LiveOK'
  <2>1. op.at = "switch.verify" /\ op'.at = "switch.constraints"
    BY DEF SwitchVerified, OpTypes, Ops
  <2>2. capture \in {0, op.old} /\ op.old \notin LiveTracks /\ 0 \notin LiveTracks
    BY <2>1 DEF LiveOK, LiveTracks
  <2>3. \A t \in LiveTracks : t = op.track
    BY <2>1, <2>2 DEF LiveOK
  <2> QED
    BY <2>1, <2>3, LiveSame DEF SwitchVerified, LiveOK
<1>8. ~destroyed' => StateOK'
  BY <1>1, <1>2 DEF SwitchVerified, Alive, StateOK, PublishingOK, StoppingOK, ManagersOK,
    Switching, PhaseA, Publishing, Whole, Nothing, StreamTypes, HolderTypes, Accepts, Running,
    Idle
<1>9. ~destroyed' => PublishingOK'
  BY <1>1, <1>2 DEF SwitchVerified, Alive, StateOK, PublishingOK, StoppingOK, ManagersOK,
    Switching, PhaseA, Publishing, Whole, Nothing, Unpublished, StreamTypes, HolderTypes,
    Accepts, Running
<1>10. ~destroyed' => StoppingOK'
  BY <1>1, <1>2 DEF SwitchVerified, Alive, StateOK, PublishingOK, StoppingOK, ManagersOK
<1>11. ~destroyed' => ManagersOK'
  BY <1>1, <1>2 DEF SwitchVerified, Alive, StateOK, PublishingOK, StoppingOK, ManagersOK, Whole,
    Nothing, Unpublished, HolderTypes, Switching, PhaseA, Publishing, Accepts, Running, Idle
<1> QED
  BY <1>3, <1>4, <1>5, <1>6, <1>7, <1>8, <1>9, <1>10, <1>11, AliveKept

LEMMA SwitchDoneStep == ASSUME Inv, SwitchDone PROVE Inv'
<1> USE DEF Inv
<1>1. /\ tracks' \in Seq(TrackStates) /\ Len(tracks') = Len(tracks)
      /\ \A t : t \in LiveTracks' <=> t \in LiveTracks /\ t \notin {op.old}
  BY TracksStop DEF SwitchDone
<1>2. OpTypes'
  <2> DEFINE O == Ops(streams', Len(managers'), Len(tracks'))
  <2>1. /\ streams' \in Nat /\ Len(managers') \in Nat /\ Len(tracks') \in Nat
        /\ streams <= streams' /\ Len(managers) <= Len(managers') /\ Len(tracks) <= Len(tracks')
    BY <1>1 DEF SwitchDone, HolderTypes, StreamTypes
  <2>2. Idle \in O
    BY <2>1, IdleIn
  <2> QED
    BY <2>1, <2>2, IdleIn DEF SwitchDone, OpTypes
<1>3. HolderTypes'
  BY <1>1 DEF SwitchDone, HolderTypes, OpTypes
<1>4. StreamTypes'
  BY <1>1 DEF SwitchDone, StreamTypes, States, Telling, Kinds
<1>5. EndTypes'
  BY <1>1, EndSame DEF SwitchDone
<1>6. LiveOK'
  BY <1>1 DEF SwitchDone, LiveOK, OpTypes, Ops, Idle
<1>7. ~destroyed' => StateOK'
  BY <1>1 DEF SwitchDone, Alive, StateOK, PublishingOK, StoppingOK, ManagersOK, Switching,
    PhaseA, Publishing, Whole, Nothing, StreamTypes, HolderTypes, Accepts, Running, Idle
<1>8. ~destroyed' => PublishingOK'
  BY <1>1 DEF SwitchDone, Alive, StateOK, PublishingOK, StoppingOK, ManagersOK, Switching,
    PhaseA, Publishing, Whole, Nothing, Unpublished, StreamTypes, HolderTypes, Accepts, Running,
    Idle
<1>9. ~destroyed' => StoppingOK'
  BY <1>1 DEF SwitchDone, Alive, StateOK, PublishingOK, StoppingOK, ManagersOK, Idle
<1>10. ~destroyed' => ManagersOK'
  BY <1>1 DEF SwitchDone, Alive, StateOK, PublishingOK, StoppingOK, ManagersOK, Whole, Nothing,
    Unpublished, HolderTypes, Switching, PhaseA, Publishing, Accepts, Running, Idle
<1> QED
  BY <1>2, <1>3, <1>4, <1>5, <1>6, <1>7, <1>8, <1>9, <1>10, AliveKept

LEMMA SwitchFailsStep == ASSUME Inv, SwitchFails PROVE Inv'
<1> USE DEF Inv
<1>1. PICK S : StopTracks(S) /\
      S = IF op.at \in {"switch.replace", "switch.verify"} THEN {op.track} ELSE {}
  BY DEF SwitchFails
<1>2. /\ tracks' \in Seq(TrackStates) /\ Len(tracks') = Len(tracks)
      /\ \A t : t \in LiveTracks' <=> t \in LiveTracks /\ t \notin S
  BY <1>1, TracksStop
<1>3. OpTypes'
  <2> DEFINE O == Ops(streams', Len(managers'), Len(tracks'))
  <2>1. /\ streams' \in Nat /\ Len(managers') \in Nat /\ Len(tracks') \in Nat
        /\ streams <= streams' /\ Len(managers) <= Len(managers') /\ Len(tracks) <= Len(tracks')
    BY <1>1, <1>2 DEF SwitchFails, HolderTypes, StreamTypes
  <2>2. Idle \in O
    BY <2>1, IdleIn
  <2> QED
    BY <2>1, <2>2, IdleIn DEF SwitchFails, OpTypes
<1>4. HolderTypes'
  <2>1. watched' \subseteq 1..Len(tracks)
    <3>1. manager # 0 => managers[manager].track \in 0..Len(tracks)
      BY DEF HolderTypes
    <3>2. watched \subseteq 1..Len(tracks) /\ Len(tracks) \in Nat
      BY DEF HolderTypes
    <3>3. CASE manager = 0 \/ managers[manager].track = 0
      BY <3>2, <3>3 DEF SwitchFails
    <3>4. CASE manager # 0 /\ managers[manager].track # 0
      <4>1. watched' = watched \cup {managers[manager].track}
        BY <3>4 DEF SwitchFails
      <4>2. managers[manager].track \in 1..Len(tracks)
        BY <3>1, <3>2, <3>4
      <4> QED
        BY <3>2, <4>1, <4>2
    <3> QED
      BY <3>3, <3>4
  <2> QED
    BY <1>2, <2>1 DEF SwitchFails, HolderTypes
<1>5. StreamTypes'
  BY <1>1, <1>2, StreamSame DEF SwitchFails
<1>6. EndTypes'
  BY <1>1, <1>2, EndSame DEF SwitchFails
<1>7. LiveOK'
  BY <1>1, <1>2 DEF SwitchFails, LiveOK, OpTypes, Ops, Idle
<1>8. ~destroyed' => StateOK'
  BY <1>1, <1>2 DEF SwitchFails, Alive, StateOK, PublishingOK, StoppingOK, ManagersOK,
    Switching, PhaseA, Publishing, Whole, Nothing, StreamTypes, HolderTypes, Accepts, Running,
    Idle
<1>9. ~destroyed' => PublishingOK'
  BY <1>1, <1>2 DEF SwitchFails, Alive, StateOK, PublishingOK, StoppingOK, ManagersOK,
    Switching, PhaseA, Publishing, Whole, Nothing, Unpublished, StreamTypes, HolderTypes,
    Accepts, Running, Idle
<1>10. ~destroyed' => StoppingOK'
  BY <1>1, <1>2 DEF SwitchFails, Alive, StateOK, PublishingOK, StoppingOK, ManagersOK, Idle
<1>11. ~destroyed' => ManagersOK'
  BY <1>1, <1>2 DEF SwitchFails, Alive, StateOK, PublishingOK, StoppingOK, ManagersOK, Whole,
    Nothing, Unpublished, HolderTypes, Switching, PhaseA, Publishing, Accepts, Running, Idle
<1> QED
  BY <1>3, <1>4, <1>5, <1>6, <1>7, <1>8, <1>9, <1>10, <1>11, AliveKept

-----------------------------------------------------------------------------
(* The end of the runtime *)

LEMMA BeginDestroyStep == ASSUME Inv, BeginDestroy PROVE Inv'
<1> USE DEF Inv
<1>1. PICK x \in 0..streams :
         /\ Tell(x, "stopped")
         /\ end' = [end EXCEPT !.at = "telling", !.stream = x, !.overtook = op.at \in Resuming]
  <2> DEFINE x == IF state \in {"active", "restarting"} /\ stream # 0 THEN stream ELSE 0
  <2>1. x \in 0..streams
    BY DEF StreamTypes
  <2>2. /\ Tell(x, "stopped")
        /\ end' = [end EXCEPT !.at = "telling", !.stream = x, !.overtook = op.at \in Resuming]
    BY DEF BeginDestroy
  <2> QED
    BY <2>1, <2>2
<1>2. /\ told' \in Seq(Telling) /\ Len(told') = Len(told)
      /\ \A k \in 1..Len(told) : told'[k] = IF k = x THEN "stopped" ELSE told[k]
  BY <1>1, StreamTold DEF Telling
<1>3. OpTypes'
  BY <1>1, <1>2, OpSame DEF BeginDestroy, Grown
<1>4. HolderTypes'
  BY <1>1, <1>2, HolderSame DEF BeginDestroy
<1>5. StreamTypes'
  BY <1>1, <1>2 DEF BeginDestroy, StreamTypes, States, Telling, Kinds
<1>6. EndTypes'
  <2>1. (op.at \in Resuming) \in BOOLEAN
    OBVIOUS
  <2> DEFINE late == op.at \in Resuming
  <2>2. end' = [end EXCEPT !.at = "telling", !.stream = x, !.overtook = late]
    BY <1>1
  <2> HIDE DEF late
  <2>3. late \in BOOLEAN
    BY <2>1 DEF late
  <2>4. /\ streams' = streams /\ managers' = managers /\ destroyed' = TRUE
        /\ streams \in Nat
    BY DEF BeginDestroy, StreamTypes
  <2> QED
    BY <2>2, <2>3, <2>4 DEF EndTypes
<1>7. LiveOK'
  BY <1>1, <1>2, LiveSame DEF BeginDestroy, LiveOK, OpTypes, Ops, Idle
<1>8. Alive'
  BY DEF BeginDestroy, Alive, EndTypes
<1> QED
  BY <1>3, <1>4, <1>5, <1>6, <1>7, <1>8

LEMMA DestroyToldStep == ASSUME Inv, DestroyTold PROVE Inv'
<1> USE DEF Inv
<1>1. manager \in 0..Len(managers) /\ StopManager(manager)
  BY DEF DestroyTold, HolderTypes
<1>2. /\ managers' \in Seq(Manager) /\ Len(managers') = Len(managers)
      /\ \A k \in 1..Len(managers) : k # manager => managers'[k] = managers[k]
      /\ \A k \in 1..Len(managers) : managers'[k].track \in 0..Len(tracks)
      /\ watched' \subseteq 1..Len(tracks)
      /\ manager # 0 =>
            /\ managers'[manager].publisher = managers[manager].publisher
            /\ managers[manager].publisher => managers'[manager].stopping
            /\ ~managers[manager].publisher =>
                 managers'[manager].stopping = managers[manager].stopping
  BY <1>1, ManagerStops
<1>3. /\ tracks' \in Seq(TrackStates) /\ Len(tracks') = Len(tracks)
      /\ \A t : t \in LiveTracks' <=> t \in LiveTracks /\ t \notin {capture}
  BY TracksStop DEF DestroyTold
<1>4. OpTypes'
  BY <1>1, <1>2, <1>3, OpSame DEF DestroyTold, Grown
<1>5. HolderTypes'
  BY <1>1, <1>2, <1>3 DEF DestroyTold, HolderTypes, OpTypes
<1>6. StreamTypes'
  BY <1>1, <1>2, <1>3 DEF DestroyTold, StreamTypes, States, Telling, Kinds
<1>7. EndTypes'
  BY <1>1, <1>2, <1>3 DEF DestroyTold, EndTypes
<1>8. LiveOK'
  BY <1>1, <1>2, <1>3 DEF DestroyTold, LiveOK, OpTypes, Ops, Idle
<1>9. Alive'
  BY DEF DestroyTold, Alive, EndTypes
<1> QED
  BY <1>4, <1>5, <1>6, <1>7, <1>8, <1>9

LEMMA DestroyCleanedStep == ASSUME Inv, DestroyCleaned PROVE Inv'
<1> USE DEF Inv
<1>1. OpTypes'
  BY OpSame DEF DestroyCleaned, Grown
<1>2. HolderTypes'
  BY DEF DestroyCleaned, HolderTypes, OpTypes
<1>3. StreamTypes'
  BY StreamSame DEF DestroyCleaned
<1>4. EndTypes'
  BY DEF DestroyCleaned, EndTypes
<1>5. LiveOK'
  BY LiveSame DEF DestroyCleaned, LiveOK, OpTypes, Ops, Idle
<1>6. Alive'
  BY DEF DestroyCleaned, Alive, EndTypes
<1> QED
  BY <1>1, <1>2, <1>3, <1>4, <1>5, <1>6

LEMMA DestroyDoneStep == ASSUME Inv, DestroyDone PROVE Inv'
<1> USE DEF Inv
<1>1. /\ tracks' \in Seq(TrackStates) /\ Len(tracks') = Len(tracks)
      /\ \A t : t \in LiveTracks' <=> t \in LiveTracks /\ t \notin {capture}
  BY TracksStop DEF DestroyDone
<1>2. OpTypes'
  BY <1>1, OpSame DEF DestroyDone, Grown
<1>3. HolderTypes'
  BY <1>1 DEF DestroyDone, HolderTypes, OpTypes
<1>4. StreamTypes'
  BY <1>1 DEF DestroyDone, StreamTypes, States, Telling, Kinds
<1>5. EndTypes'
  BY <1>1 DEF DestroyDone, EndTypes
<1>6. LiveOK'
  BY <1>1 DEF DestroyDone, LiveOK, OpTypes, Ops, Idle
<1>7. Alive'
  BY DEF DestroyDone, Alive, EndTypes
<1> QED
  BY <1>2, <1>3, <1>4, <1>5, <1>6, <1>7

-----------------------------------------------------------------------------
(* The invariants *)

LEMMA InvInit == Init => Inv
<1> SUFFICES ASSUME Init PROVE Inv
  OBVIOUS
<1>1. OpTypes
  <2>1. Idle \in Ops(0, 0, 0) /\ Idle.at = "idle"
    BY IdleIn
  <2> QED
    BY <2>1 DEF Init, OpTypes
<1>2. HolderTypes
  BY DEF Init, HolderTypes
<1>3. StreamTypes
  <2>1. told \in Seq(Telling) /\ Len(told) = 0 /\ queue \in Seq(Kinds)
    BY DEF Init
  <2>2. streams \in Nat /\ stream \in 0..streams
    BY DEF Init
  <2>3. state \in States /\ timers \in BOOLEAN
    BY DEF Init, States
  <2> QED
    BY <2>1, <2>2, <2>3 DEF Init, StreamTypes
<1>4. EndTypes
  <2>1. destroyed \in BOOLEAN /\ (destroyed <=> end.at # "no")
    BY DEF Init
  <2>2. 0 \in 0..streams /\ 0 \in 0..Len(managers)
    BY DEF Init
  <2>3. end \in [at : {"no", "telling", "cleanup", "store", "done"},
                stream : 0..streams, manager : 0..Len(managers), overtook : BOOLEAN]
    BY <2>2 DEF Init
  <2> QED
    BY <2>1, <2>3 DEF EndTypes
<1>5. LiveOK
  BY DEF Init, LiveOK, LiveTracks, Idle
<1>6. Alive
  BY DEF Init, Alive, StateOK, PublishingOK, StoppingOK, ManagersOK, Nothing, Idle, Switching,
    Publishing, PhaseA
<1> QED
  BY <1>1, <1>2, <1>3, <1>4, <1>5, <1>6 DEF Inv

LEMMA StutterStep == ASSUME Inv, UNCHANGED vars PROVE Inv'
<1> USE DEF Inv
<1>1. OpTypes' /\ HolderTypes' /\ StreamTypes' /\ EndTypes'
  BY OpSame, HolderSame, StreamSame, EndSame DEF vars, Grown
<1>2. LiveOK'
  BY LiveSame DEF vars, LiveOK
<1>3. ~destroyed' => StateOK' /\ PublishingOK'
  BY DEF vars, Alive, StateOK, PublishingOK, Whole, Nothing, Unpublished
<1>4. ~destroyed' => StoppingOK' /\ ManagersOK'
  BY DEF vars, Alive, StoppingOK, ManagersOK, Whole, Nothing, Unpublished
<1> QED
  BY <1>1, <1>2, <1>3, <1>4, AliveKept

LEMMA InvNext == Inv /\ [Next]_vars => Inv'
<1> SUFFICES ASSUME Inv, [Next]_vars PROVE Inv'
  OBVIOUS
<1>1. CASE \E kind \in Kinds : Request(kind)
  BY <1>1, RequestStep
<1>2. CASE \E t \in 1..Len(tracks) : TrackEnds(t)
  BY <1>2, TrackEndsStep
<1>3. CASE \E m \in 1..Len(managers) : ManagerStopped(m)
  BY <1>3, ManagerStoppedStep
<1>4. CASE Begin
  BY <1>4, RefuseStep, BeginStartStep, BeginRestartStep, BeginStopStep, BeginSwitchStep DEF
    Begin
<1>5. CASE Continue
  BY <1>5, RestartCleanedStep, CapturedStep, PublishStep, ConnectedStep, PublishedStep,
    AnnouncedStep, PhaseAFailsStep, FailureCleanedStep, StopToldStep, StopDoneStep,
    SwitchDetachedStep, SwitchCapturedStep, SwitchReplacedStep, SwitchVerifiedStep,
    SwitchDoneStep, SwitchFailsStep DEF Continue
<1>6. CASE Destroy
  BY <1>6, BeginDestroyStep, DestroyToldStep, DestroyCleanedStep, DestroyDoneStep DEF Destroy
<1>7. CASE UNCHANGED vars
  BY <1>7, StutterStep
<1> QED
  BY <1>1, <1>2, <1>3, <1>4, <1>5, <1>6, <1>7 DEF Next

LEMMA InvAlways == Spec => []Inv
BY InvInit, InvNext, PTL DEF Spec

-----------------------------------------------------------------------------
(* A capture that is live, replaced or has ended *)

\* Once destroy() has come in an await that does not put a capture in place any more,
\* the session makes no manager and gives the capture it may still take to none.
EndOK ==
    destroyed /\ ~end.overtook =>
       /\ op.at \notin Resuming
       /\ end.at = "cleanup" /\ end.manager = 0 => manager = 0
       /\ end.at \in {"store", "done"} => manager = 0
       /\ end.at = "done" /\ LiveTracks # {} => op.at \in {"constraints", "failed.cleanup"}

\* The session does not stop the capture of a running stream, and an end of it that it
\* noticed has a stop queued.  A switch's new track is neither the capture nor the old
\* one.
CaptureOK ==
    /\ state \in {"starting", "active", "restarting"} /\ capture # 0 =>
          tracks[capture] # "stopped" /\ (tracks[capture] = "ended" => StopQueued)
    /\ op.at \in {"switch.replace", "switch.verify"} =>
          op.track # capture /\ op.track # op.old /\ tracks[op.track] \in {"live", "unnoticed"}
    /\ op.at = "switch.constraints" => op.old # capture

\* The capture's ended handler is set but while a switch has it detached.
WatchOK ==
    /\ state = "active" /\ op.at \notin {"switch.capture", "switch.replace", "switch.verify"} =>
          capture \in watched
    /\ op.at = "announcing" => capture \in watched

Kept == EndOK /\ (~destroyed => CaptureOK /\ WatchOK)

LEMMA StopLeaves ==
    ASSUME NEW S, StopTracks(S), NEW t \in 1..Len(tracks), t \notin S
    PROVE  tracks'[t] = tracks[t]
BY DEF StopTracks

\* Requests are only appended to the queue, and only a stop takes a stop from it.
LEMMA StopStays ==
    ASSUME StreamTypes, StopQueued,
           \/ queue' = queue
           \/ \E kind \in Kinds : queue' = Append(queue, kind)
           \/ queue # <<>> /\ Head(queue) # "stop" /\ queue' = Tail(queue)
    PROVE  StopQueued'
<1>1. queue \in Seq(Kinds)
  BY DEF StreamTypes
<1>2. PICK i \in 1..Len(queue) : queue[i] = "stop"
  BY DEF StopQueued
<1>3. CASE queue' = queue
  BY <1>3 DEF StopQueued
<1>4. CASE \E kind \in Kinds : queue' = Append(queue, kind)
  <2>1. i \in 1..Len(queue') /\ queue'[i] = "stop"
    BY <1>1, <1>2, <1>4
  <2> QED
    BY <2>1 DEF StopQueued
<1>5. CASE queue # <<>> /\ Head(queue) # "stop" /\ queue' = Tail(queue)
  <2>1. i # 1
    BY <1>1, <1>2, <1>5
  <2>2. i - 1 \in 1..Len(queue') /\ queue'[i - 1] = "stop"
    BY <1>1, <1>2, <1>5, <2>1
  <2> QED
    BY <2>2 DEF StopQueued
<1> QED
  BY <1>3, <1>4, <1>5

LEMMA StopCalled ==
    ASSUME StreamTypes, queue' = Append(queue, "stop")
    PROVE  StopQueued'
<1>1. Len(queue) + 1 \in 1..Len(queue') /\ queue'[Len(queue) + 1] = "stop"
  BY DEF StreamTypes
<1> QED
  BY <1>1 DEF StopQueued

\* What CaptureOK and WatchOK need of Inv.
LEMMA AliveIs ==
    ASSUME Inv, ~destroyed
    PROVE  /\ StreamTypes /\ HolderTypes /\ StateOK /\ PublishingOK /\ ManagersOK
           /\ capture \in 0..Len(tracks) /\ Len(tracks) \in Nat
           /\ op.track \in 0..Len(tracks) /\ op.old \in 0..Len(tracks)
BY DEF Inv, Alive, HolderTypes, OpTypes, Ops

LEMMA RequestKept ==
    ASSUME Inv, ~destroyed, CaptureOK, WatchOK, NEW kind \in Kinds, Request(kind)
    PROVE  CaptureOK' /\ WatchOK'
<1>1. StopQueued => StopQueued'
  BY AliveIs, StopStays DEF Request
<1> QED
  BY <1>1 DEF Request, CaptureOK, WatchOK

LEMMA TrackEndsKept ==
    ASSUME Inv, ~destroyed, CaptureOK, WatchOK, NEW t \in 1..Len(tracks), TrackEnds(t)
    PROVE  CaptureOK' /\ WatchOK'
<1> USE AliveIs
<1>1. op.at \in {"switch.replace", "switch.verify"} => op.track \in 1..Len(tracks)
  BY DEF Inv, OpTypes
<1>2. CASE t \in watched /\ t = capture
  <2>1. StopQueued'
    BY <1>2, StopCalled DEF TrackEnds
  <2>2. /\ tracks \in Seq(TrackStates) /\ tracks' = [tracks EXCEPT ![t] = "ended"]
        /\ UNCHANGED <<state, capture, op, watched>>
    BY <1>2 DEF TrackEnds, HolderTypes
  <2>3. /\ tracks'[capture] = "ended"
        /\ \A x \in 1..Len(tracks) : x # capture => tracks'[x] = tracks[x]
    BY <1>2, <2>2
  <2> QED
    BY <1>1, <2>1, <2>2, <2>3 DEF CaptureOK, WatchOK
<1>3. CASE ~(t \in watched /\ t = capture)
  <2>1. StopQueued => StopQueued'
    BY <1>3, StopStays DEF TrackEnds
  <2>2. /\ tracks \in Seq(TrackStates) /\ tracks' = [tracks EXCEPT ![t] = "unnoticed"]
        /\ UNCHANGED <<state, capture, op, watched>>
    BY <1>3 DEF TrackEnds, HolderTypes
  <2>3. \A x \in 1..Len(tracks) : tracks'[x] = IF x = t THEN "unnoticed" ELSE tracks[x]
    BY <2>2
  <2> QED
    BY <1>1, <2>1, <2>2, <2>3 DEF CaptureOK, WatchOK
<1> QED
  BY <1>2, <1>3

LEMMA ManagerStoppedKept ==
    ASSUME Inv, ~destroyed, CaptureOK, WatchOK, NEW m \in 1..Len(managers), ManagerStopped(m)
    PROVE  CaptureOK' /\ WatchOK'
<1> USE AliveIs
<1>1. managers[m].stopping /\ m = manager
  BY DEF ManagerStopped, ManagersOK, Unpublished
<1>2. state # "active" /\ op.at # "announcing"
  BY <1>1 DEF StateOK, PublishingOK, Publishing, Whole
<1>3. UNCHANGED <<state, capture, tracks, queue, op>>
  BY DEF ManagerStopped
<1> QED
  BY <1>2, <1>3 DEF CaptureOK, WatchOK, StopQueued

LEMMA BeginKept ==
    ASSUME Inv, ~destroyed, CaptureOK, WatchOK, Begin
    PROVE  CaptureOK' /\ WatchOK'
<1> USE AliveIs
<1>1. op.at = "idle"
  BY DEF Begin, Refuse, BeginStart, BeginRestart, BeginStop, BeginSwitch, Dequeue, Running
<1>2. ASSUME queue # <<>>, Head(queue) # "stop", queue' = Tail(queue)
      PROVE  StopQueued => StopQueued'
  BY <1>2, StopStays
<1>3. CASE Refuse
  <2>1. PICK kind \in Kinds : Dequeue(kind) /\ ~Accepts(kind)
    BY <1>3 DEF Refuse
  <2>2. UNCHANGED <<state, capture, tracks, watched, op>>
    BY <1>3 DEF Refuse
  <2>3. CASE kind = "stop"
    <3>1. state = "idle"
      BY <1>1, <2>1, <2>3 DEF Accepts, StateOK
    <3> QED
      BY <1>1, <2>2, <3>1 DEF CaptureOK, WatchOK
  <2>4. CASE kind # "stop"
    <3>1. StopQueued => StopQueued'
      BY <1>2, <2>1, <2>4 DEF Dequeue
    <3> QED
      BY <2>2, <3>1 DEF CaptureOK, WatchOK
  <2> QED
    BY <2>3, <2>4
<1>4. CASE BeginStart
  <2>1. capture' = 0 /\ state' = "starting" /\ op'.at = "capture"
    BY <1>1, <1>4 DEF BeginStart, Accepts, StateOK, Nothing, Idle
  <2> QED
    BY <2>1 DEF CaptureOK, WatchOK
<1>5. CASE BeginRestart
  <2>1. /\ UNCHANGED <<capture, tracks>> /\ state = "active" /\ state' = "restarting"
        /\ op'.at = "restart.cleanup"
    BY <1>5 DEF BeginRestart, Accepts, Idle
  <2>2. StopQueued => StopQueued'
    BY <1>2, <1>5 DEF BeginRestart, Dequeue
  <2> QED
    BY <2>1, <2>2 DEF CaptureOK, WatchOK
<1>6. CASE BeginStop
  <2>1. state' = "stopping" /\ op'.at = "stop.audio"
    BY <1>6 DEF BeginStop, Idle
  <2> QED
    BY <2>1 DEF CaptureOK, WatchOK
<1>7. CASE BeginSwitch
  <2>1. /\ UNCHANGED <<state, capture, tracks, watched>> /\ state = "active"
        /\ op'.at = "switch.source"
    BY <1>7 DEF BeginSwitch, Accepts, Idle
  <2>2. StopQueued => StopQueued'
    BY <1>2, <1>7 DEF BeginSwitch, Dequeue
  <2> QED
    BY <1>1, <2>1, <2>2 DEF CaptureOK, WatchOK
<1> QED
  BY <1>3, <1>4, <1>5, <1>6, <1>7 DEF Begin

LEMMA PublicationKept ==
    ASSUME Inv, ~destroyed, CaptureOK, WatchOK,
           \/ RestartCleaned \/ Captured \/ Publish \/ Connected \/ Published \/ Announced
           \/ PhaseAFails \/ FailureCleaned \/ StopTold \/ StopDone
    PROVE  CaptureOK' /\ WatchOK'
<1> USE AliveIs
<1>1. CASE RestartCleaned
  <2>1. capture' = 0 /\ op'.at = "capture" /\ state' = state /\ state # "active"
    BY <1>1 DEF RestartCleaned, StateOK, Inv, OpTypes, Ops
  <2> QED
    BY <2>1 DEF CaptureOK, WatchOK
<1>2. CASE Captured
  <2>1. capture' = Len(tracks) + 1 /\ op'.at = "constraints" /\ state' = state /\ state # "active"
    BY <1>2 DEF Captured, StateOK, PhaseA, Inv, OpTypes, Ops
  <2>2. tracks'[capture'] = "live"
    BY <1>2, <2>1 DEF Captured, HolderTypes
  <2> QED
    BY <2>1, <2>2 DEF CaptureOK, WatchOK
<1>3. CASE Publish \/ Connected
  <2>1. /\ UNCHANGED <<state, capture, tracks, queue, watched>> /\ state # "active"
        /\ op'.at \in {"connecting", "publishing"}
    BY <1>3 DEF Publish, Connected, StateOK, PhaseA, Inv, OpTypes, Ops
  <2> QED
    BY <2>1 DEF CaptureOK, WatchOK, StopQueued
<1>4. CASE Published
  <2>1. /\ UNCHANGED <<state, capture, tracks, queue>> /\ state # "active"
        /\ op'.at = "announcing" /\ op.track = capture /\ watched' = watched \cup {op.track}
    BY <1>4 DEF Published, StateOK, PublishingOK, Publishing, PhaseA, Inv, OpTypes, Ops
  <2> QED
    BY <2>1 DEF CaptureOK, WatchOK, StopQueued
<1>5. CASE Announced
  <2>1. /\ UNCHANGED <<capture, tracks, queue, watched>> /\ op.at = "announcing" /\ op'.at = "idle"
        /\ state \in {"starting", "restarting"}
    BY <1>5 DEF Announced, StateOK, Idle
  <2> QED
    BY <2>1 DEF CaptureOK, WatchOK, StopQueued
<1>6. CASE PhaseAFails \/ FailureCleaned
  <2>1. state' = "failed" /\ op'.at \in {"failed.cleanup", "idle"}
    <3>1. CASE PhaseAFails
      BY <3>1 DEF PhaseAFails, Inv, OpTypes, Ops
    <3>2. CASE FailureCleaned
      BY <3>2 DEF FailureCleaned, StateOK, Idle
    <3> QED
      BY <1>6, <3>1, <3>2
  <2> QED
    BY <2>1 DEF CaptureOK, WatchOK
<1>7. CASE StopTold \/ StopDone
  <2>1. state' \in {"stopping", "idle"} /\ op'.at \in {"stop.cleanup", "idle"}
    <3>1. CASE StopTold
      BY <3>1 DEF StopTold, StateOK, Inv, OpTypes, Ops
    <3>2. CASE StopDone
      BY <3>2 DEF StopDone, Idle
    <3> QED
      BY <1>7, <3>1, <3>2
  <2> QED
    BY <2>1 DEF CaptureOK, WatchOK
<1> QED
  BY <1>1, <1>2, <1>3, <1>4, <1>5, <1>6, <1>7

LEMMA SwitchKept ==
    ASSUME Inv, ~destroyed, CaptureOK, WatchOK,
           \/ SwitchDetached \/ SwitchCaptured \/ SwitchReplaced \/ SwitchVerified
           \/ SwitchDone \/ SwitchFails
    PROVE  CaptureOK' /\ WatchOK'
<1> USE AliveIs
<1>1. state = "active" /\ state' = "active" /\ Whole /\ capture \in 1..Len(tracks)
  <2>1. op.at \in Switching
    BY DEF SwitchDetached, SwitchCaptured, SwitchReplaced, SwitchVerified, SwitchDone,
      SwitchFails, Switching
  <2>2. state' = state
    BY DEF SwitchDetached, SwitchCaptured, SwitchReplaced, SwitchVerified, SwitchDone, SwitchFails
  <2> QED
    BY <2>1, <2>2 DEF StateOK, Whole
<1>2. queue' = queue /\ (StopQueued' <=> StopQueued)
  BY DEF SwitchDetached, SwitchCaptured, SwitchReplaced, SwitchVerified, SwitchDone, SwitchFails,
    StopQueued
<1>3. op.at \in {"switch.replace", "switch.verify"} => op.track \in 1..Len(tracks)
  BY DEF Inv, OpTypes
<1>4. CASE SwitchDetached
  <2>1. UNCHANGED <<capture, tracks>> /\ op'.at = "switch.capture"
    BY <1>4 DEF SwitchDetached, Inv, OpTypes, Ops
  <2> QED
    BY <1>1, <1>2, <2>1 DEF CaptureOK, WatchOK
<1>5. CASE SwitchCaptured
  <2>1. /\ capture' = capture /\ op'.at = "switch.replace" /\ op'.track = Len(tracks) + 1
        /\ op'.old = capture
    BY <1>1, <1>5 DEF SwitchCaptured, Whole, Inv, OpTypes, Ops
  <2>2. tracks'[capture] = tracks[capture] /\ tracks'[Len(tracks) + 1] = "live"
    BY <1>1, <1>5 DEF SwitchCaptured, HolderTypes
  <2> QED
    BY <1>1, <1>2, <2>1, <2>2 DEF CaptureOK, WatchOK
<1>6. CASE SwitchReplaced
  <2>1. /\ capture' = capture /\ op.at = "switch.replace" /\ op'.at = "switch.verify"
        /\ op'.track = op.track /\ op'.old = op.old
    BY <1>6 DEF SwitchReplaced, Inv, OpTypes, Ops
  <2>2. \A x \in 1..Len(tracks) : tracks'[x] = tracks[x] \/ (x = op.old /\ tracks'[x] = "replaced")
    BY <1>6 DEF SwitchReplaced, LiveTracks, HolderTypes
  <2>3. tracks'[op.track] = tracks[op.track]
    BY <1>3, <2>1, <2>2 DEF CaptureOK
  <2> QED
    BY <1>1, <1>2, <1>3, <2>1, <2>2, <2>3 DEF CaptureOK, WatchOK
<1>7. CASE SwitchVerified
  <2>1. /\ op.at = "switch.verify" /\ op'.at = "switch.constraints" /\ capture' = op.track
        /\ op'.old = capture /\ tracks' = tracks /\ watched' = watched \cup {op.track}
    BY <1>7 DEF SwitchVerified, Inv, OpTypes, Ops
  <2> QED
    BY <1>1, <1>2, <2>1 DEF CaptureOK, WatchOK
<1>8. CASE SwitchDone
  <2>1. /\ op.at = "switch.constraints" /\ op'.at = "idle" /\ UNCHANGED <<capture, watched>>
        /\ StopTracks({op.old})
    BY <1>8 DEF SwitchDone, Idle
  <2>2. tracks'[capture] = tracks[capture]
    BY <1>1, <2>1, StopLeaves DEF CaptureOK
  <2> QED
    BY <1>1, <1>2, <2>1, <2>2 DEF CaptureOK, WatchOK
<1>9. CASE SwitchFails
  <2>1. /\ op'.at = "idle" /\ capture' = capture
        /\ StopTracks(IF op.at \in {"switch.replace", "switch.verify"} THEN {op.track} ELSE {})
    BY <1>9 DEF SwitchFails, Idle
  <2>2. capture \in watched'
    BY <1>1, <1>9 DEF SwitchFails, Whole
  <2>3. tracks'[capture] = tracks[capture]
    <3> DEFINE S == IF op.at \in {"switch.replace", "switch.verify"} THEN {op.track} ELSE {}
    <3>1. capture \notin S
      BY DEF CaptureOK
    <3>2. StopTracks(S)
      BY <2>1
    <3> HIDE DEF S
    <3> QED
      BY <1>1, <3>1, <3>2, StopLeaves
  <2> QED
    BY <1>1, <1>2, <2>1, <2>2, <2>3 DEF CaptureOK, WatchOK
<1> QED
  BY <1>4, <1>5, <1>6, <1>7, <1>8, <1>9

LEMMA DestroyedSame ==
    ASSUME NEW kind, NEW t, NEW m,
           Request(kind) \/ TrackEnds(t) \/ ManagerStopped(m) \/ Begin \/ Continue
    PROVE  UNCHANGED <<destroyed, end>>
<1>1. CASE Request(kind) \/ TrackEnds(t) \/ ManagerStopped(m)
  BY <1>1 DEF Request, TrackEnds, ManagerStopped
<1>2. CASE Begin
  BY <1>2 DEF Begin, Refuse, BeginStart, BeginRestart, BeginStop, BeginSwitch
<1>3. CASE Continue
  BY <1>3 DEF Continue, RestartCleaned, Captured, Publish, Connected, Published, Announced,
    PhaseAFails, FailureCleaned, StopTold, StopDone, SwitchDetached, SwitchCaptured,
    SwitchReplaced, SwitchVerified, SwitchDone, SwitchFails
<1> QED
  BY <1>1, <1>2, <1>3

\* The operation that destroy() has overtaken goes on.
LEMMA ContinueEnds ==
    ASSUME Inv, EndOK, destroyed, ~end.overtook, Continue
    PROVE  EndOK'
<1>1. UNCHANGED <<destroyed, end>>
  BY DestroyedSame
<1>2. op.at \notin Resuming
  BY DEF EndOK
<1>3. /\ HolderTypes /\ OpTypes /\ LiveOK
      /\ op \in [at : Awaits, kind : Kinds, stream : Nat, manager : Nat, track : Nat, old : Nat]
  <2>1. streams \in Nat /\ Len(managers) \in Nat /\ Len(tracks) \in Nat
    BY DEF Inv, StreamTypes, HolderTypes
  <2> QED
    BY <2>1 DEF Inv, OpTypes, Ops
<1>4. CASE Captured
  <2>1. op'.at = "constraints" /\ manager' = manager
    BY <1>3, <1>4 DEF Captured
  <2> QED
    BY <1>1, <2>1 DEF EndOK, Resuming
<1>5. CASE PhaseAFails
  <2>1. op'.at = "failed.cleanup" /\ manager' = manager
    BY <1>3, <1>5 DEF PhaseAFails
  <2> QED
    BY <1>1, <2>1 DEF EndOK, Resuming
<1>6. CASE FailureCleaned \/ StopDone
  <2>1. StopTracks({capture}) /\ op'.at = "idle" /\ manager' = 0
    <3>1. CASE FailureCleaned
      BY <3>1 DEF FailureCleaned, ResetSession, Idle
    <3>2. CASE StopDone
      BY <3>2 DEF StopDone, ResetSession, Idle
    <3> QED
      BY <1>6, <3>1, <3>2
  <2>2. \A t \in LiveTracks : t = capture
    BY <1>2, <1>3 DEF LiveOK, Resuming
  <2>3. LiveTracks' = {}
    BY <1>3, <2>1, <2>2, TracksStop
  <2> QED
    BY <1>1, <2>1, <2>3 DEF EndOK, Resuming
<1>7. CASE Publish \/ Connected \/ Published \/ Announced \/ StopTold
  <2>1. UNCHANGED <<tracks, manager>> /\ op'.at \notin Resuming
    <3>1. CASE Publish \/ Connected
      BY <1>3, <3>1 DEF Publish, Connected, Resuming
    <3>2. CASE Published
      BY <1>3, <3>2 DEF Published, Resuming
    <3>3. CASE Announced
      BY <3>3 DEF Announced, Idle, Resuming
    <3>4. CASE StopTold
      BY <1>3, <3>4 DEF StopTold, Resuming
    <3> QED
      BY <1>7, <3>1, <3>2, <3>3, <3>4
  <2>2. end.at = "done" => LiveTracks = {}
    BY <1>7 DEF Publish, Connected, Published, Announced, StopTold, EndOK
  <2> QED
    BY <1>1, <2>1, <2>2, LiveSame DEF EndOK
<1>8. CASE SwitchDone \/ SwitchFails
  <2>1. PICK S : StopTracks(S)
    BY <1>8 DEF SwitchDone, SwitchFails
  <2>2. op'.at = "idle" /\ manager' = manager /\ op.at \in Switching
    <3>1. CASE SwitchDone
      BY <3>1 DEF SwitchDone, Idle, Switching
    <3>2. CASE SwitchFails
      BY <3>2 DEF SwitchFails, Idle, Switching
    <3> QED
      BY <1>8, <3>1, <3>2
  <2>3. end.at = "done" => LiveTracks = {}
    BY <2>2 DEF EndOK, Switching
  <2>4. end.at = "done" => LiveTracks' = {}
    BY <1>3, <2>1, <2>3, TracksStop
  <2> QED
    BY <1>1, <2>2, <2>4 DEF EndOK, Resuming
<1>9. CASE SwitchDetached \/ SwitchCaptured \/ SwitchReplaced \/ SwitchVerified \/ RestartCleaned
  BY <1>2, <1>9 DEF SwitchDetached, SwitchCaptured, SwitchReplaced, SwitchVerified,
    RestartCleaned, Resuming
<1> QED
  BY <1>4, <1>5, <1>6, <1>7, <1>8, <1>9 DEF Continue

LEMMA DestroyEnds ==
    ASSUME Inv, EndOK, Destroy
    PROVE  EndOK'
<1>1. HolderTypes /\ EndTypes /\ LiveOK /\ op' = op
  BY DEF Inv, Destroy, BeginDestroy, DestroyTold, DestroyCleaned, DestroyDone
<1>2. CASE BeginDestroy
  <2>1. end'.at = "telling" /\ end'.overtook = (op.at \in Resuming)
    BY <1>1, <1>2 DEF BeginDestroy, EndTypes
  <2> QED
    BY <1>1, <2>1 DEF EndOK
<1>3. CASE DestroyTold
  <2>1. /\ end'.at = "cleanup" /\ end'.manager = manager /\ end'.overtook = end.overtook
        /\ UNCHANGED <<destroyed, manager>>
    BY <1>1, <1>3 DEF DestroyTold, EndTypes
  <2> QED
    BY <1>1, <2>1 DEF EndOK
<1>4. CASE DestroyCleaned
  <2>1. /\ end.at = "cleanup" /\ end'.at = "store" /\ end'.overtook = end.overtook
        /\ destroyed' = destroyed /\ manager' = IF end.manager = 0 THEN manager ELSE 0
    BY <1>1, <1>4 DEF DestroyCleaned, EndTypes
  <2> QED
    BY <1>1, <2>1 DEF EndOK
<1>5. CASE DestroyDone
  <2>1. /\ end.at = "store" /\ end'.at = "done" /\ end'.overtook = end.overtook
        /\ UNCHANGED <<destroyed, manager>> /\ StopTracks({capture})
    BY <1>1, <1>5 DEF DestroyDone, EndTypes
  <2>2. op.at \notin Resuming => LiveTracks' = {}
    BY <1>1, <2>1, TracksStop DEF LiveOK, Resuming
  <2> QED
    BY <1>1, <2>1, <2>2 DEF EndOK
<1> QED
  BY <1>2, <1>3, <1>4, <1>5 DEF Destroy

LEMMA KeptNext == Inv /\ Kept /\ [Next]_vars => Kept'
<1> SUFFICES ASSUME Inv, Kept, [Next]_vars PROVE Kept'
  OBVIOUS
<1>1. CASE UNCHANGED vars
  BY <1>1, LiveSame DEF vars, Kept, EndOK, CaptureOK, WatchOK, StopQueued
<1>2. ASSUME NEW kind \in Kinds, Request(kind) PROVE Kept'
  <2>1. UNCHANGED <<destroyed, end, op, manager, tracks>>
    BY <1>2 DEF Request
  <2>2. EndOK'
    BY <2>1, LiveSame DEF Kept, EndOK
  <2>3. ~destroyed => CaptureOK' /\ WatchOK'
    BY <1>2, RequestKept DEF Kept
  <2> QED
    BY <2>1, <2>2, <2>3 DEF Kept
<1>3. ASSUME NEW t \in 1..Len(tracks), TrackEnds(t) PROVE Kept'
  <2>1. UNCHANGED <<destroyed, end, op, manager>> /\ LiveTracks' \subseteq LiveTracks
    BY <1>3 DEF TrackEnds, LiveTracks, Inv, HolderTypes
  <2>2. EndOK'
    BY <2>1 DEF Kept, EndOK
  <2>3. ~destroyed => CaptureOK' /\ WatchOK'
    BY <1>3, TrackEndsKept DEF Kept
  <2> QED
    BY <2>1, <2>2, <2>3 DEF Kept
<1>4. ASSUME NEW m \in 1..Len(managers), ManagerStopped(m) PROVE Kept'
  <2>1. UNCHANGED <<destroyed, end, op, manager, tracks>>
    BY <1>4 DEF ManagerStopped
  <2>2. EndOK'
    BY <2>1, LiveSame DEF Kept, EndOK
  <2>3. ~destroyed => CaptureOK' /\ WatchOK'
    BY <1>4, ManagerStoppedKept DEF Kept
  <2> QED
    BY <2>1, <2>2, <2>3 DEF Kept
<1>5. CASE Begin
  <2>1. UNCHANGED <<destroyed, end>>
    BY <1>5, DestroyedSame
  <2>2. CASE ~destroyed
    BY <1>5, <2>1, <2>2, BeginKept DEF Kept, EndOK
  <2>3. CASE destroyed
    <3>1. UNCHANGED <<op, manager, tracks>>
      BY <1>5, <2>3 DEF Begin, Refuse, BeginStart, BeginRestart, BeginStop, BeginSwitch, Accepts
    <3> QED
      BY <2>1, <2>3, <3>1, LiveSame DEF Kept, EndOK
  <2> QED
    BY <2>2, <2>3
<1>6. CASE Continue
  <2>1. UNCHANGED <<destroyed, end>>
    BY <1>6, DestroyedSame
  <2>2. CASE ~destroyed
    BY <1>6, <2>1, <2>2, PublicationKept, SwitchKept DEF Continue, Kept, EndOK
  <2>3. CASE destroyed
    BY <1>6, <2>1, <2>3, ContinueEnds DEF Kept, EndOK
  <2> QED
    BY <2>2, <2>3
<1>7. CASE Destroy
  <2>1. destroyed' = TRUE
    BY <1>7 DEF Destroy, BeginDestroy, DestroyTold, DestroyCleaned, DestroyDone, Inv, EndTypes
  <2> QED
    BY <1>7, <2>1, DestroyEnds DEF Kept
<1> QED
  BY <1>1, <1>2, <1>3, <1>4, <1>5, <1>6, <1>7 DEF Next

LEMMA KeptAlways == Spec => [](Inv /\ Kept)
<1>1. Init => Kept
  BY DEF Init, Kept, EndOK, CaptureOK, WatchOK, Idle
<1> QED
  BY <1>1, InvInit, InvNext, KeptNext, PTL DEF Spec

LEMMA InvTypes == Inv => TypeOK
<1> SUFFICES ASSUME Inv PROVE TypeOK
  OBVIOUS
<1> USE DEF Inv
<1>1. /\ state \in States /\ timers \in BOOLEAN /\ queue \in Seq(Kinds)
      /\ stream \in 0..streams
  BY DEF StreamTypes
<1>6. destroyed \in BOOLEAN
  BY DEF EndTypes
<1>2. /\ capture \in 0..Len(tracks) /\ manager \in 0..Len(managers) /\
           watched \subseteq 1..Len(tracks)
      /\ \A m \in 1..Len(managers) : managers[m] \in Manager /\ managers[m].track \in 0..Len(tracks)
  BY DEF HolderTypes
<1>3. \A t \in 1..Len(tracks) : tracks[t] \in TrackStates
  BY DEF HolderTypes
<1>4. /\ op.stream \in 0..streams /\ op.manager \in 0..Len(managers)
      /\ op.track \in 0..Len(tracks) /\ op.old \in 0..Len(tracks)
  BY DEF OpTypes, Ops
<1>5. \A k \in 1..streams : told[k] \in {"nothing", "started", "restarted", "stopped"}
  BY DEF StreamTypes, Telling
<1> QED
  BY <1>1, <1>2, <1>3, <1>4, <1>5, <1>6 DEF TypeOK

\* Whatever fails at whichever await: a screen capture that still runs is the session's
\* or one the running operation is putting in place, and none runs once destroy() and
\* the operation it overtook are through, unless that was a restart taking the old
\* publication down or a switch replacing the track.
THEOREM HoldingsAccounted == Spec => []HoldingsInv
<1>1. Inv /\ Kept => CaptureAccounted
  <2> SUFFICES ASSUME Inv, Kept PROVE CaptureAccounted
    OBVIOUS
  <2>1. \A t \in LiveTracks : t = capture \/ (Running /\ t \in {op.track, op.old})
    BY DEF Inv, LiveOK, Running
  <2>2. end.at = "done" /\ ~Running /\ ~end.overtook => LiveTracks = {}
    BY DEF Inv, EndTypes, Kept, EndOK, Running
  <2> QED
    BY <2>1, <2>2 DEF CaptureAccounted
<1>2. Inv /\ Kept => HoldingsInv
  BY <1>1, InvTypes DEF HoldingsInv
<1> QED
  BY <1>2, KeptAlways, PTL

\* Between two operations an active session publishes the track it captures, under the
\* stream it announced; the track's ended handler is set, the session did not stop the
\* track, and a stop is queued if it noticed that the track has ended.
THEOREM ActiveWhole == Spec => []ActiveIsWhole
<1>1. Inv /\ Kept => ActiveIsWhole
  BY DEF Inv, Alive, StateOK, Whole, ActiveIsWhole, Running, Kept, CaptureOK, WatchOK
<1> QED
  BY <1>1, KeptAlways, PTL

\* Between two operations a session that is idle or has failed holds no capture, timer
\* or publication.
THEOREM IdleHoldsNothing == Spec => []QuietWhenIdle
<1>1. Inv => QuietWhenIdle
  <2> SUFFICES ASSUME Inv, state \in {"idle", "failed"}, ~Running, ~destroyed
               PROVE  /\ stream = 0 /\ capture = 0 /\ manager = 0 /\ ~timers /\ LiveTracks = {}
                      /\ \A m \in 1..Len(managers) : ~managers[m].publisher
    BY DEF QuietWhenIdle
  <2>1. Nothing /\ ~timers
    BY DEF Inv, Alive, StateOK, Running
  <2>2. LiveTracks = {}
    BY <2>1 DEF Inv, LiveOK, Running, Nothing, LiveTracks
  <2>3. \A m \in 1..Len(managers) : ~managers[m].publisher
    BY <2>1 DEF Inv, Alive, ManagersOK, Unpublished, Nothing
  <2> QED
    BY <2>1, <2>2, <2>3 DEF Nothing
<1> QED
  BY <1>1, InvAlways, PTL

-----------------------------------------------------------------------------
(* The session implements the life of streams *)

\* A restart is under way: at an await of restartStream before it announces.
Restarting ==
    op.kind = "restart" /\ op.at \in {"restart.cleanup", "capture", "constraints", "connecting",
                                      "publishing", "failed.cleanup"}

PhaseAt(k) ==
    IF k > streams THEN "new"
    ELSE IF told[k] = "stopped" THEN "stopped"
    ELSE IF k # stream THEN "lost"
    ELSE IF told[k] = "nothing" THEN "starting"
    ELSE IF Restarting THEN "restarting" ELSE "active"

LEMMA PhaseIs == Phase = [k \in 1..MaxRequests |-> PhaseAt(k)]
BY DEF Phase, PhaseAt, Restarting

LEMMA PhaseNextIs == Phase' = [k \in 1..MaxRequests |-> PhaseAt(k)']
BY DEF Phase, PhaseAt, Restarting

LEMMA PhaseTyped == Phase' \in [1..MaxRequests -> Life!Phases]
<1>1. \A k \in 1..MaxRequests : PhaseAt(k)' \in Life!Phases
  BY DEF PhaseAt, Life!Phases, Life!Running
<1> QED
  BY <1>1, PhaseNextIs

\* A step that changes neither the stream nor what was told of it.
LEMMA PhaseKept ==
    ASSUME UNCHANGED <<streams, told, stream, destroyed>>, Restarting' <=> Restarting
    PROVE  UNCHANGED Life!vars
<1>1. \A k \in 1..MaxRequests : PhaseAt(k)' = PhaseAt(k)
  BY DEF PhaseAt
<1> QED
  BY <1>1, PhaseIs, PhaseNextIs DEF Life!vars

\* A step that moves one stream.
LEMMA PhaseMoves ==
    ASSUME NEW k, NEW to, PhaseAt(k)' = to,
           \A j \in 1..MaxRequests : j # k => PhaseAt(j)' = PhaseAt(j)
    PROVE  IF k \in 1..MaxRequests THEN Phase[k] = PhaseAt(k) /\ Phase' = [Phase EXCEPT ![k] = to]
           ELSE Phase' = Phase
BY PhaseIs, PhaseNextIs

\* After destroy() StreamLife promises nothing.
LEMMA DestroyedSteps == destroyed' = TRUE => Life!Next
BY PhaseTyped DEF Life!Next, Life!Abandon

LEMMA BeginStartLife ==
    ASSUME Inv, ~destroyed, BeginStart
    PROVE  Life!Next \/ UNCHANGED Life!vars
<1> USE DEF Inv
<1>1. destroyed' = destroyed /\ destroyed = FALSE
  BY DEF BeginStart, EndTypes
<1> PICK k : k = streams + 1
  OBVIOUS
<1>2. stream = 0 /\ streams \in Nat
  BY <1>1 DEF BeginStart, Dequeue, Running, Accepts, Alive, StateOK, Nothing, StreamTypes
<1>3. /\ told'[k] = "nothing" /\ \A j \in 1..streams : told'[j] = told[j]
  BY <1>2 DEF BeginStart, StreamTypes, Telling
<1>4. \A j \in 1..MaxRequests : Phase[j] \notin Life!Running
  BY <1>2, PhaseIs DEF PhaseAt, Life!Running
<1>5. streams' = k /\ stream' = k
  BY DEF BeginStart
<1>6. PhaseAt(k) \in {"new"} /\ PhaseAt(k)' = "starting"
  BY <1>2, <1>3, <1>5 DEF PhaseAt
<1>7. ASSUME NEW j \in 1..MaxRequests, j # k PROVE PhaseAt(j)' = PhaseAt(j)
  BY <1>2, <1>3, <1>5, <1>7 DEF PhaseAt
<1>8. IF k \in 1..MaxRequests
        THEN Phase[k] \in {"new"} /\ Phase' = [Phase EXCEPT ![k] = "starting"]
        ELSE Phase' = Phase
  BY <1>6, <1>7, PhaseMoves
<1>9. CASE k \in 1..MaxRequests
  BY <1>1, <1>8, <1>9, <1>4 DEF Life!Next, Life!Start, Life!Move
<1>10. CASE k \notin 1..MaxRequests
  BY <1>1, <1>8, <1>10 DEF Life!vars
<1> QED
  BY <1>9, <1>10

LEMMA BeginRestartLife ==
    ASSUME Inv, ~destroyed, BeginRestart
    PROVE  Life!Next \/ UNCHANGED Life!vars
<1> USE DEF Inv
<1>1. destroyed' = destroyed /\ destroyed = FALSE
  BY DEF BeginRestart, EndTypes
<1> PICK k : k = stream
  OBVIOUS
<1>2. op.at = "idle" /\ op'.at = "restart.cleanup" /\ op'.kind = "restart"
  BY DEF BeginRestart, Dequeue, Running, Idle
<1>3. stream \in 1..streams /\ told[stream] \in {"started", "restarted"} /\ streams \in Nat
  BY <1>1 DEF BeginRestart, Accepts, Alive, StateOK, Whole, StreamTypes
<1>6. PhaseAt(k) \in {"active"} /\ PhaseAt(k)' = "restarting"
  BY <1>2, <1>3 DEF BeginRestart, PhaseAt, Restarting
<1>7. ASSUME NEW j \in 1..MaxRequests, j # k PROVE PhaseAt(j)' = PhaseAt(j)
  BY <1>7 DEF BeginRestart, PhaseAt
<1>8. IF k \in 1..MaxRequests
        THEN Phase[k] \in {"active"} /\ Phase' = [Phase EXCEPT ![k] = "restarting"]
        ELSE Phase' = Phase
  BY <1>6, <1>7, PhaseMoves
<1>9. CASE k \in 1..MaxRequests
  BY <1>1, <1>8, <1>9 DEF Life!Next, Life!Restart, Life!Move
<1>10. CASE k \notin 1..MaxRequests
  BY <1>1, <1>8, <1>10 DEF Life!vars
<1> QED
  BY <1>9, <1>10

LEMMA PublishedLife ==
    ASSUME Inv, ~destroyed, Published
    PROVE  Life!Next \/ UNCHANGED Life!vars
<1> USE DEF Inv
<1>1. destroyed' = destroyed /\ destroyed = FALSE
  BY DEF Published, EndTypes
<1> PICK k : k = stream
  OBVIOUS
<1>2. op.at = "publishing" /\ op'.at = "announcing"
  BY DEF Published, OpTypes, Ops
<1>3. /\ stream \in 1..streams /\ streams \in Nat /\ op.kind \in {"start", "restart"}
      /\ op.kind = "start" => told[stream] = "nothing"
      /\ op.kind = "restart" => op.stream = stream /\ told[stream] \in {"started", "restarted"}
  BY <1>1, <1>2 DEF Alive, PublishingOK, Publishing, PhaseA, StreamTypes
<1>4. PICK type \in {"started", "restarted"} : Tell(stream, type)
  BY <1>3 DEF Published
<1>5. told'[stream] = type /\ \A j \in 1..streams : j # stream => told'[j] = told[j]
  BY <1>3, <1>4, StreamTold DEF StreamTypes, Telling
<1>6. PhaseAt(k) \in {"starting", "restarting"} /\ PhaseAt(k)' = "active"
  <2>1. PhaseAt(k) \in {"starting", "restarting"}
    BY <1>2, <1>3 DEF PhaseAt, Restarting
  <2>2. PhaseAt(k)' = "active"
    BY <1>2, <1>3, <1>4, <1>5 DEF Published, PhaseAt, Restarting
  <2> QED
    BY <2>1, <2>2
<1>7. ASSUME NEW j \in 1..MaxRequests, j # k PROVE PhaseAt(j)' = PhaseAt(j)
  BY <1>3, <1>5, <1>7 DEF Published, PhaseAt
<1>8. IF k \in 1..MaxRequests
        THEN Phase[k] \in {"starting", "restarting"} /\ Phase' = [Phase EXCEPT ![k] = "active"]
        ELSE Phase' = Phase
  BY <1>6, <1>7, PhaseMoves
<1>9. CASE k \in 1..MaxRequests
  BY <1>1, <1>8, <1>9 DEF Life!Next, Life!Announce, Life!Move
<1>10. CASE k \notin 1..MaxRequests
  BY <1>1, <1>8, <1>10 DEF Life!vars
<1> QED
  BY <1>9, <1>10

LEMMA FailureCleanedLife ==
    ASSUME Inv, ~destroyed, FailureCleaned
    PROVE  Life!Next \/ UNCHANGED Life!vars
<1> USE DEF Inv
<1>1. destroyed' = destroyed /\ destroyed = FALSE
  BY DEF FailureCleaned, EndTypes
<1> PICK k : k = stream
  OBVIOUS
<1>2. op.at = "failed.cleanup" /\ stream' = 0
  BY DEF FailureCleaned, ResetSession
<1>3. /\ stream \in 1..streams /\ streams \in Nat /\ op.kind \in {"start", "restart"}
      /\ op.kind = "start" => told[stream] = "nothing"
      /\ op.kind = "restart" => told[stream] \in {"started", "restarted"}
  BY <1>1, <1>2 DEF Alive, PublishingOK, Publishing, StreamTypes
<1>6. PhaseAt(k) \in {"starting", "restarting"} /\ PhaseAt(k)' = "lost"
  BY <1>2, <1>3 DEF FailureCleaned, PhaseAt, Restarting
<1>7. ASSUME NEW j \in 1..MaxRequests, j # k PROVE PhaseAt(j)' = PhaseAt(j)
  BY <1>2, <1>7 DEF FailureCleaned, PhaseAt
<1>8. IF k \in 1..MaxRequests
        THEN Phase[k] \in {"starting", "restarting"} /\ Phase' = [Phase EXCEPT ![k] = "lost"]
        ELSE Phase' = Phase
  BY <1>6, <1>7, PhaseMoves
<1>9. CASE k \in 1..MaxRequests
  BY <1>1, <1>8, <1>9 DEF Life!Next, Life!Lose, Life!Move
<1>10. CASE k \notin 1..MaxRequests
  BY <1>1, <1>8, <1>10 DEF Life!vars
<1> QED
  BY <1>9, <1>10

LEMMA StopToldLife ==
    ASSUME Inv, ~destroyed, StopTold
    PROVE  Life!Next \/ UNCHANGED Life!vars
<1> USE DEF Inv
<1>1. destroyed' = destroyed /\ destroyed = FALSE
  BY DEF StopTold, EndTypes
<1>2. /\ op.at = "stop.audio" /\ op'.at = "stop.cleanup" /\ ~Restarting /\ ~Restarting'
      /\ op.stream = stream /\ (Whole \/ Nothing)
  BY <1>1 DEF StopTold, Alive, StoppingOK, Restarting
<1>3. CASE stream = 0
  <2>1. UNCHANGED <<streams, told, stream, destroyed>>
    BY <1>2, <1>3 DEF StopTold, Tell
  <2> QED
    BY <1>2, <2>1, PhaseKept
<1>4. CASE stream # 0
  <2>1. stream \in 1..streams /\ streams \in Nat /\ told[stream] \in {"started", "restarted"}
    BY <1>2, <1>4 DEF Whole, Nothing, StreamTypes
  <2>2. told'[stream] = "stopped" /\ \A j \in 1..streams : j # stream => told'[j] = told[j]
    BY <1>2, <2>1, StreamTold DEF StopTold, StreamTypes, Telling
  <2> PICK k : k = stream
    OBVIOUS
  <2>3. PhaseAt(k) = "active" /\ PhaseAt(k)' = "stopped"
    BY <1>2, <2>1, <2>2 DEF StopTold, PhaseAt
  <2>4. ASSUME NEW j \in 1..MaxRequests, j # k PROVE PhaseAt(j)' = PhaseAt(j)
    BY <2>1, <2>2, <2>4 DEF StopTold, PhaseAt
  <2>5. IF k \in 1..MaxRequests
          THEN Phase[k] = "active" /\ Phase' = [Phase EXCEPT ![k] = "stopped"]
          ELSE Phase' = Phase
    BY <2>3, <2>4, PhaseMoves
  <2>6. CASE k \in 1..MaxRequests
    BY <1>1, <2>5, <2>6 DEF Life!Next, Life!Stop, Life!Move
  <2>7. CASE k \notin 1..MaxRequests
    BY <1>1, <2>5, <2>7 DEF Life!vars
  <2> QED
    BY <2>6, <2>7
<1> QED
  BY <1>3, <1>4

\* Peers know already that the stream has stopped.
LEMMA StopDoneLife ==
    ASSUME Inv, ~destroyed, StopDone
    PROVE  UNCHANGED Life!vars
<1> USE DEF Inv
<1>1. /\ op.at = "stop.cleanup" /\ stream' = 0 /\ UNCHANGED <<streams, told, destroyed>>
      /\ stream # 0 => told[stream] = "stopped"
  BY DEF StopDone, ResetSession, Alive, StoppingOK
<1>2. ASSUME NEW j \in 1..MaxRequests PROVE PhaseAt(j)' = PhaseAt(j)
  BY <1>1 DEF PhaseAt
<1> QED
  BY <1>1, <1>2, PhaseIs, PhaseNextIs DEF Life!vars

\* The other steps of the requests, the sources and the queue.
LEMMA OutsideLife ==
    ASSUME NEW kind, NEW t, NEW m,
           Request(kind) \/ TrackEnds(t) \/ ManagerStopped(m) \/ Refuse
    PROVE  UNCHANGED Life!vars
<1>1. UNCHANGED <<streams, told, stream, destroyed, op>>
  BY DEF Request, TrackEnds, ManagerStopped, Refuse
<1> QED
  BY <1>1, PhaseKept DEF Restarting

\* The awaits of a start or restart that tell peers nothing.
LEMMA PublicationLife ==
    ASSUME Inv, ~destroyed,
           RestartCleaned \/ Captured \/ Publish \/ Connected \/ Announced \/ PhaseAFails
    PROVE  UNCHANGED Life!vars
<1> USE DEF Inv
<1>1. UNCHANGED <<streams, told, stream, destroyed>>
  BY DEF RestartCleaned, Captured, Publish, Connected, Announced, PhaseAFails
<1>2. Restarting' <=> Restarting
  <2> USE DEF OpTypes, Ops, Restarting
  <2>1. CASE RestartCleaned
    BY <2>1 DEF RestartCleaned
  <2>2. CASE Captured
    BY <2>2 DEF Captured
  <2>3. CASE Publish
    BY <2>3 DEF Publish
  <2>4. CASE Connected
    BY <2>4 DEF Connected
  <2>5. CASE Announced
    BY <2>5 DEF Announced, Idle
  <2>6. CASE PhaseAFails
    BY <2>6 DEF PhaseAFails
  <2> QED
    BY <2>1, <2>2, <2>3, <2>4, <2>5, <2>6
<1> QED
  BY <1>1, <1>2, PhaseKept

\* The start of a stop and every step of a switch.
LEMMA SwitchLife ==
    ASSUME Inv,
           \/ BeginStop \/ BeginSwitch \/ SwitchDetached \/ SwitchCaptured \/ SwitchReplaced
           \/ SwitchVerified \/ SwitchDone \/ SwitchFails
    PROVE  UNCHANGED Life!vars
<1> USE DEF Inv
<1>1. UNCHANGED <<streams, told, stream, destroyed>>
  BY DEF BeginStop, BeginSwitch, SwitchDetached, SwitchCaptured, SwitchReplaced, SwitchVerified,
    SwitchDone, SwitchFails
<1>2. ~Restarting /\ ~Restarting'
  <2> USE DEF OpTypes, Ops, Restarting
  <2>1. CASE BeginStop \/ BeginSwitch
    BY <2>1 DEF BeginStop, BeginSwitch, Dequeue, Running, Idle
  <2>2. CASE SwitchDetached
    BY <2>2 DEF SwitchDetached
  <2>3. CASE SwitchCaptured
    BY <2>3 DEF SwitchCaptured
  <2>4. CASE SwitchReplaced
    BY <2>4 DEF SwitchReplaced
  <2>5. CASE SwitchVerified
    BY <2>5 DEF SwitchVerified
  <2>6. CASE SwitchDone \/ SwitchFails
    <3>1. op' = Idle
      BY <2>6 DEF SwitchDone, SwitchFails
    <3>2. op.at \in Switching
      BY <2>6 DEF SwitchDone, SwitchFails, Switching
    <3> QED
      BY <3>1, <3>2 DEF Idle, Switching
  <2> QED
    BY <2>1, <2>2, <2>3, <2>4, <2>5, <2>6
<1> QED
  BY <1>1, <1>2, PhaseKept

LEMMA DestroyedStays ==
    ASSUME Inv, destroyed, Next
    PROVE  destroyed' = TRUE
<1>1. destroyed = TRUE
  BY DEF Inv, EndTypes
<1>2. CASE (\E kind \in Kinds : Request(kind)) \/ (\E t \in 1..Len(tracks) : TrackEnds(t))
            \/ (\E m \in 1..Len(managers) : ManagerStopped(m))
  BY <1>1, <1>2 DEF Request, TrackEnds, ManagerStopped
<1>3. CASE Begin
  BY <1>1, <1>3 DEF Begin, Refuse, BeginStart, BeginRestart, BeginStop, BeginSwitch
<1>4. CASE Continue
  BY <1>1, <1>4 DEF Continue, RestartCleaned, Captured, Publish, Connected, Published,
    Announced, PhaseAFails, FailureCleaned, StopTold, StopDone, SwitchDetached, SwitchCaptured,
    SwitchReplaced, SwitchVerified, SwitchDone, SwitchFails
<1>5. CASE Destroy
  BY <1>1, <1>5 DEF Destroy, BeginDestroy, DestroyTold, DestroyCleaned, DestroyDone
<1> QED
  BY <1>2, <1>3, <1>4, <1>5 DEF Next

LEMMA LifeInit == Init => Life!Init
<1> SUFFICES ASSUME Init PROVE Life!Init
  OBVIOUS
<1>1. \A k \in 1..MaxRequests : PhaseAt(k) = "new"
  BY DEF Init, PhaseAt
<1> QED
  BY <1>1, PhaseIs DEF Init, Life!Init

LEMMA LifeNext == Inv /\ [Next]_vars => [Life!Next]_(Life!vars)
<1> SUFFICES ASSUME Inv, [Next]_vars PROVE Life!Next \/ UNCHANGED Life!vars
  OBVIOUS
<1>1. CASE UNCHANGED vars
  BY <1>1, PhaseKept DEF vars, Restarting
<1>2. CASE destroyed /\ Next
  <2>1. destroyed' = TRUE
    BY <1>2, DestroyedStays
  <2> QED
    BY <2>1, DestroyedSteps
<1>3. CASE ~destroyed /\
           ((\E kind \in Kinds : Request(kind)) \/ (\E t \in 1..Len(tracks) : TrackEnds(t))
            \/ \E m \in 1..Len(managers) : ManagerStopped(m))
  BY <1>3, OutsideLife
<1>4. CASE ~destroyed /\ Begin
  BY <1>4, OutsideLife, BeginStartLife, BeginRestartLife, SwitchLife DEF Begin
<1>5. CASE ~destroyed /\ Continue
  BY <1>5, PublicationLife, PublishedLife, FailureCleanedLife, StopToldLife, StopDoneLife,
    SwitchLife DEF Continue
<1>6. CASE ~destroyed /\ Destroy
  <2>1. destroyed' = TRUE
    BY <1>6 DEF Destroy, BeginDestroy, DestroyTold, DestroyCleaned, DestroyDone, Inv, EndTypes
  <2> QED
    BY <2>1, DestroyedSteps
<1> QED
  BY <1>1, <1>2, <1>3, <1>4, <1>5, <1>6 DEF Next

\* Until its runtime is destroyed the session manager, with every await, failure and
\* late result, does with its streams only what StreamLife promises.
THEOREM SessionImplementsLife == Spec => ImplementsStreamLife
<1>1. Init => Life!Init
  BY LifeInit
<1>2. Inv /\ [Next]_vars => [Life!Next]_(Life!vars)
  BY LifeNext
<1> QED
  BY <1>1, <1>2, InvAlways, PTL DEF Spec, ImplementsStreamLife, Life!Spec

\* Of two streams of the host that run, one is not the session's.
THEOREM RunsOneAtATime == Spec => []Life!OneAtATime
<1>1. Life!OneAtATime
  <2>1. \A k \in 1..MaxRequests : Phase[k] \in Life!Running => k = stream
    BY PhaseIs DEF PhaseAt, Life!Running
  <2> QED
    BY <2>1 DEF Life!OneAtATime
<1> QED
  BY <1>1, PTL

\* A stream that has stopped, or was lost with a start or restart that failed, is never
\* announced again: no late publish, failure or restart revives it.
THEOREM EndsForGood == Spec => Life!EndedForGood
<1>1. [Life!Next]_(Life!vars) =>
        [\A k \in 1..MaxRequests :
            destroyed' = FALSE /\ Phase[k] \in {"stopped", "lost"} =>
              Phase'[k] = Phase[k]]_(Life!vars)
  <2> SUFFICES ASSUME Life!Next, destroyed' = FALSE, NEW k \in 1..MaxRequests,
                      Phase[k] \in {"stopped", "lost"}
               PROVE  Phase'[k] = Phase[k]
    BY DEF Life!vars
  <2>1. PICK j \in 1..MaxRequests, to \in Life!Phases :
          Phase[j] \notin {"stopped", "lost"} /\ Phase' = [Phase EXCEPT ![j] = to]
    BY DEF Life!Next, Life!Abandon, Life!Start, Life!Announce, Life!Restart, Life!Lose, Life!Stop,
           Life!Move, Life!Phases, Life!Running
  <2> QED
    BY <2>1, PhaseIs
<1> QED
  BY <1>1, SessionImplementsLife, PTL DEF ImplementsStreamLife, Life!Spec, Life!EndedForGood
=============================================================================
