------------------------------ MODULE AudioHelper ------------------------------
(***************************************************************************)
(* The native audio helper (AudioHelperManager.ts) and the handlers of the  *)
(* main process that own it (ipc-handlers.ts).                              *)
(*                                                                         *)
(* A manager spawns one helper process, connects its pipes, spawns another  *)
(* when it dies, and ends it for good when audio stops.  The handlers make  *)
(* a new manager whenever they hold none.  A process may die by itself, ask *)
(* for nothing and answer nothing; only its exit event says that it is gone.*)
(* The cleanup that precedes a restart never waits, because the exit that   *)
(* armed the restart was seen: it is part of RestartDue.                    *)
(*                                                                         *)
(* Left out: the packets and their generations, the statistics, the queries,*)
(* sendShortcut, a second stop that overlaps the first, and a pipe that     *)
(* reports its connection after the exit of its process.                    *)
(***************************************************************************)
EXTENDS Integers

CONSTANTS
    MaxRestarts, \* maxRestarts
    MaxManagers, \* bound: managers the handlers make
    MaxSpawns,   \* bound: processes one manager spawns
    MaxFaults    \* bound: crashes, failed spawns, failed connections

ASSUME AudioAssumption ==
    MaxRestarts \in Nat /\ MaxManagers \in Nat /\ MaxSpawns \in Nat /\ MaxFaults \in Nat

Managers == 1..MaxManagers
Processes == 1..MaxSpawns

VARIABLES
    cur,       \* currentAudioHelper; 0 is null
    used,      \* managers made so far
    quit,      \* the application is quitting and has killed its helpers
    state,     \* state
    helper,    \* helper: a process of this manager; 0 is null
    owner,     \* helperOwnership
    shutting,  \* shuttingDown_
    stale,     \* lifecycleGen moved on since the restart under way began
    restarts,  \* restartCount
    timer,     \* restartTimer is armed
    linked,    \* the control pipe is connected
    start,     \* the await start() is at
    restart,   \* the await attemptRestart is at
    stop,      \* the await shutdown() is at
    cleanup,   \* cleanupPromise: its intent and the process it waits for
    spawned,   \* processes spawned so far
    alive,     \* processes that run
    signalled, \* processes sent a termination signal
    faults     \* faults so far

ipcVars == <<cur, used, quit>>
flowVars == <<start, restart, stop>>
procVars == <<spawned, alive, signalled>>
vars == <<ipcVars, state, helper, owner, shutting, stale, restarts, timer, linked,
          flowVars, cleanup, procVars, faults>>

States == {"disconnected", "connecting", "ready", "capturing", "stopping", "error"}
Owners == {"none", "starting", "running", "exit-unconfirmed", "exited"}
NoCleanup == [intent |-> "none", victim |-> 0]

Init ==
    /\ cur = 0 /\ used = 0 /\ quit = FALSE /\ faults = 0
    /\ state = [m \in Managers |-> "disconnected"]
    /\ helper = [m \in Managers |-> 0]
    /\ owner = [m \in Managers |-> "none"]
    /\ shutting = [m \in Managers |-> FALSE] /\ stale = [m \in Managers |-> FALSE]
    /\ restarts = [m \in Managers |-> 0]
    /\ timer = [m \in Managers |-> FALSE] /\ linked = [m \in Managers |-> FALSE]
    /\ start = [m \in Managers |-> "none"] /\ restart = [m \in Managers |-> "none"]
    /\ stop = [m \in Managers |-> "none"] /\ cleanup = [m \in Managers |-> NoCleanup]
    /\ spawned = [m \in Managers |-> 0]
    /\ alive = [m \in Managers |-> {}] /\ signalled = [m \in Managers |-> {}]

\* f with the value x at m.
Put(f, m, x) == [f EXCEPT ![m] = x]

HelperRuns(m) == helper[m] \in alive[m]

Fault == faults < MaxFaults /\ faults' = faults + 1

\* spawn: the next process of the manager, and its handle.
Spawn(m) ==
    /\ spawned[m] < MaxSpawns
    /\ spawned' = Put(spawned, m, spawned[m] + 1)
    /\ helper' = Put(helper, m, spawned[m] + 1)
    /\ alive' = Put(alive, m, alive[m] \union {spawned[m] + 1})

-----------------------------------------------------------------------------
(* Cleanup *)

\* cleanup, up to its wait: the pipes go, and a process not known to have exited is
\* told to; one that is under way is shared.  The restart timer goes too: a shared
\* cleanup is joined only by shutdown, which clears it, or after it.
BeginCleanup(m, intent) ==
    /\ timer' = Put(timer, m, FALSE)
    /\ IF cleanup[m] # NoCleanup
       THEN UNCHANGED <<linked, cleanup, signalled>>
       ELSE LET victim == IF owner[m] = "exited" THEN 0 ELSE helper[m]
            IN  /\ linked' = Put(linked, m, FALSE)
                /\ cleanup' = Put(cleanup, m, [intent |-> intent, victim |-> victim])
                /\ signalled' = Put(signalled, m, signalled[m] \union ({victim} \ {0}))

\* The callers of a finished cleanup go on: start() throws, the restart is over, and
\* shutdown() returns to the handler, which drops the manager.
Resume(m, confirmed) ==
    LET stopped == stop[m] = "cleaning"
    IN  /\ start' = Put(start, m, IF start[m] = "cleaning" THEN "none" ELSE start[m])
        /\ restart' = Put(restart, m, IF restart[m] = "failing" THEN "none" ELSE restart[m])
        /\ stop' = Put(stop, m, IF stopped THEN "none" ELSE stop[m])
        /\ state' = IF stopped
                    THEN Put(state, m, IF confirmed THEN "disconnected" ELSE "error")
                    ELSE state
        /\ cur' = IF stopped THEN 0 ELSE cur
        /\ cleanup' = Put(cleanup, m, NoCleanup)

\* The process is known to be gone, or there was none to wait for.
CleanupEnds(m) ==
    /\ cleanup[m] # NoCleanup
    /\ cleanup[m].victim \notin alive[m]
    /\ IF cleanup[m].victim = 0
       THEN UNCHANGED <<owner, helper>>
       ELSE /\ owner' = Put(owner, m,
                  IF cleanup[m].intent = "startup-failure" THEN "none" ELSE "exited")
            /\ helper' = Put(helper, m, 0)
    /\ Resume(m, TRUE)
    /\ UNCHANGED <<used, quit, shutting, stale, restarts, timer, linked, procVars, faults>>

\* Faulty variant of CleanupGivesUp: the wait after SIGKILL has no deadline.
CleanupWaits(m) == cleanup[m] # NoCleanup /\ UNCHANGED vars

\* Both deadlines of awaitHelperExit pass: the handle is kept.
CleanupGivesUp(m) ==
    /\ cleanup[m] # NoCleanup
    /\ cleanup[m].victim \in alive[m]
    /\ owner' = Put(owner, m, "exit-unconfirmed")
    /\ Resume(m, FALSE)
    /\ UNCHANGED <<used, quit, helper, shutting, stale, restarts, timer, linked, procVars, faults>>

-----------------------------------------------------------------------------
(* Start *)

\* ensureAudioHelper with no manager and no start under way: a new manager starts.
Ensure ==
    /\ cur = 0 /\ ~quit /\ used < MaxManagers
    /\ \A m \in Managers : start[m] = "none"
    /\ used' = used + 1
    /\ Spawn(used + 1)
    /\ state' = Put(state, used + 1, "connecting")
    /\ start' = Put(start, used + 1, "spawn")
    /\ UNCHANGED <<cur, quit, owner, shutting, stale, restarts, timer, linked, restart, stop,
                   cleanup, signalled, faults>>

\* The wait after the spawn is over and the process runs.
StartSpawned(m) ==
    /\ start[m] = "spawn" /\ HelperRuns(m)
    /\ owner' = Put(owner, m, "starting")
    /\ start' = Put(start, m, "connect")
    /\ UNCHANGED <<ipcVars, state, helper, shutting, stale, restarts, timer, linked, restart,
                   stop, cleanup, procVars, faults>>

\* Both pipes are connected and the hello is answered: the handlers hold the manager.
StartOpened(m) ==
    /\ start[m] = "connect" /\ HelperRuns(m)
    /\ owner' = Put(owner, m, "running")
    /\ state' = Put(state, m, "ready")
    /\ linked' = Put(linked, m, TRUE)
    /\ start' = Put(start, m, "none")
    /\ cur' = m
    /\ UNCHANGED <<used, quit, helper, shutting, stale, restarts, timer, restart, stop, cleanup,
                   procVars, faults>>

\* start() fails: its process is gone, or answers nothing until the deadline.
StartFails(m) ==
    /\ start[m] \in {"spawn", "connect"}
    /\ IF HelperRuns(m) THEN start[m] = "connect" /\ Fault ELSE UNCHANGED faults
    /\ state' = Put(state, m, "error")
    /\ start' = Put(start, m, "cleaning")
    /\ BeginCleanup(m, "startup-failure")
    /\ UNCHANGED <<ipcVars, helper, owner, shutting, stale, restarts, restart, stop, spawned, alive>>

\* A capture command is answered.
Capture(m) ==
    /\ state[m] = "ready" /\ linked[m] /\ cur = m /\ stop[m] = "none"
    /\ state' = Put(state, m, "capturing")
    /\ UNCHANGED <<ipcVars, helper, owner, shutting, stale, restarts, timer, linked, flowVars,
                   cleanup, procVars, faults>>

-----------------------------------------------------------------------------
(* The process and its restart *)

\* handleHelperExit: the exit is known, and a restart is scheduled unless the manager
\* shuts down, had given the process up, or has no attempt left.
HandleExit(m) ==
    LET again == ~shutting[m] /\ owner[m] # "exit-unconfirmed" /\ restarts[m] < MaxRestarts
    IN  /\ owner' = Put(owner, m, "exited")
        /\ state' = Put(state, m, "error")
        /\ restarts' = Put(restarts, m, IF again THEN restarts[m] + 1 ELSE restarts[m])
        /\ timer' = Put(timer, m, timer[m] \/ again)

\* A process exits, because it was told to or by itself; its control pipe closes.
ProcessExits(m) == \E k \in alive[m] :
    /\ IF k \in signalled[m] THEN UNCHANGED faults ELSE Fault
    /\ alive' = Put(alive, m, alive[m] \ {k})
    /\ linked' = Put(linked, m, FALSE)
    /\ HandleExit(m)
    /\ UNCHANGED <<ipcVars, helper, shutting, stale, flowVars, cleanup, spawned, signalled>>

\* The system refuses the spawn: an error event, and no exit event ever.
SpawnError(m) ==
    /\ "spawn" \in {start[m], restart[m]} /\ HelperRuns(m)
    /\ Fault
    /\ alive' = Put(alive, m, alive[m] \ {helper[m]})
    /\ state' = Put(state, m, "error")
    /\ UNCHANGED <<ipcVars, helper, owner, shutting, stale, restarts, timer, linked, flowVars,
                   cleanup, spawned, signalled>>

\* attemptRestart, when its cooldown is over, up to the wait after the spawn.  The
\* cooldown is longer than the deadlines of a start.
RestartDue(m) ==
    /\ timer[m] /\ start[m] = "none" /\ restart[m] = "none" /\ cleanup[m] = NoCleanup
    /\ Spawn(m)
    /\ timer' = Put(timer, m, FALSE)
    /\ stale' = Put(stale, m, FALSE)
    /\ linked' = Put(linked, m, FALSE)
    /\ state' = Put(state, m, "connecting")
    /\ restart' = Put(restart, m, "spawn")
    /\ UNCHANGED <<ipcVars, owner, shutting, restarts, start, stop, cleanup, signalled, faults>>

\* Faulty variant of RestartSpawned: a superseded restart drops its process without killing it.
RestartSpawnedUnkilled(m) ==
    /\ restart[m] = "spawn" /\ (helper[m] = 0 \/ HelperRuns(m))
    /\ owner' = Put(owner, m, IF stale[m] THEN "none" ELSE "starting")
    /\ helper' = Put(helper, m, IF stale[m] THEN 0 ELSE helper[m])
    /\ state' = Put(state, m, IF stale[m] THEN "disconnected" ELSE state[m])
    /\ restart' = Put(restart, m, IF stale[m] THEN "none" ELSE "connect")
    /\ UNCHANGED <<ipcVars, shutting, stale, restarts, timer, linked, start, stop, cleanup,
                   procVars, faults>>

\* Faulty variant of RestartSpawned: the generation is not compared after the spawn.
RestartSpawnedUnchecked(m) ==
    /\ restart[m] = "spawn" /\ (helper[m] = 0 \/ HelperRuns(m))
    /\ owner' = Put(owner, m, "starting")
    /\ restart' = Put(restart, m, "connect")
    /\ UNCHANGED <<ipcVars, state, helper, shutting, stale, restarts, timer, linked, start, stop,
                   cleanup, procVars, faults>>

\* The wait after the spawn is over: a restart that was superseded kills its process.
RestartSpawned(m) ==
    /\ restart[m] = "spawn" /\ (helper[m] = 0 \/ HelperRuns(m))
    /\ IF stale[m]
       THEN /\ owner' = Put(owner, m, "none")
            /\ signalled' = Put(signalled, m, signalled[m] \union ({helper[m]} \ {0}))
            /\ helper' = Put(helper, m, 0)
            /\ state' = Put(state, m, "disconnected")
            /\ restart' = Put(restart, m, "none")
       ELSE /\ owner' = Put(owner, m, "starting")
            /\ restart' = Put(restart, m, "connect")
            /\ UNCHANGED <<signalled, helper, state>>
    /\ UNCHANGED <<ipcVars, shutting, stale, restarts, timer, linked, start, stop, cleanup,
                   spawned, alive, faults>>

\* The control pipe is connected and the hello answered.
RestartConnected(m) ==
    /\ restart[m] = "connect" /\ HelperRuns(m) /\ ~shutting[m]
    /\ linked' = Put(linked, m, TRUE)
    /\ restart' = Put(restart, m, "pipes")
    /\ UNCHANGED <<ipcVars, state, helper, owner, shutting, stale, restarts, timer, start, stop,
                   cleanup, procVars, faults>>

\* The PCM pipe is connected: the attempts are counted anew.
RestartOpened(m) ==
    /\ restart[m] = "pipes" /\ HelperRuns(m)
    /\ owner' = Put(owner, m, "running")
    /\ state' = Put(state, m, "ready")
    /\ restarts' = Put(restarts, m, 0)
    /\ restart' = Put(restart, m, "none")
    /\ UNCHANGED <<ipcVars, helper, shutting, stale, timer, linked, start, stop, cleanup,
                   procVars, faults>>

\* The restart fails: its process is gone, answers nothing, or a shutdown began.
RestartFails(m) ==
    /\ restart[m] \in {"spawn", "connect", "pipes"}
    /\ restart[m] = "spawn" => helper[m] # 0 /\ ~HelperRuns(m)
    /\ IF HelperRuns(m) /\ ~shutting[m] THEN Fault ELSE UNCHANGED faults
    /\ state' = Put(state, m, "error")
    /\ restart' = Put(restart, m, "failing")
    /\ BeginCleanup(m, "startup-failure")
    /\ UNCHANGED <<ipcVars, helper, owner, shutting, stale, restarts, start, stop, spawned, alive>>

-----------------------------------------------------------------------------
(* Shutdown *)

\* cleanup('permanent-shutdown') by shutdown.
CleanForGood(m) ==
    /\ stop' = Put(stop, m, "cleaning")
    /\ restarts' = Put(restarts, m, IF cleanup[m] = NoCleanup THEN MaxRestarts ELSE restarts[m])
    /\ BeginCleanup(m, "permanent-shutdown")

\* The stop-audio handler and the one of will-quit: shutdown up to its first await.
StopAudio(m) ==
    /\ cur = m /\ stop[m] = "none"
    /\ shutting' = Put(shutting, m, TRUE)
    /\ stale' = Put(stale, m, TRUE)
    /\ IF state[m] = "capturing" \/ linked[m]
       THEN /\ timer' = Put(timer, m, FALSE)
            /\ stop' = Put(stop, m, IF state[m] = "capturing" THEN "stopping" ELSE "asking")
            /\ state' = Put(state, m, IF state[m] = "capturing" THEN "stopping" ELSE state[m])
            /\ UNCHANGED <<restarts, linked, cleanup, signalled>>
       ELSE CleanForGood(m) /\ UNCHANGED state
    /\ UNCHANGED <<ipcVars, helper, owner, start, restart, spawned, alive, faults>>

\* The helper has stopped the capture: it is asked to shut down.
StopAnswered(m) ==
    /\ stop[m] = "stopping" /\ linked[m]
    /\ state' = Put(state, m, "ready")
    /\ stop' = Put(stop, m, "asking")
    /\ UNCHANGED <<ipcVars, helper, owner, shutting, stale, restarts, timer, linked, start, restart,
                   cleanup, procVars, faults>>

\* The stop request fails or times out: stopCapture ends the process itself.
StopUnanswered(m) ==
    /\ stop[m] = "stopping"
    /\ state' = Put(state, m, "error")
    /\ stop' = Put(stop, m, "killing")
    /\ signalled' = Put(signalled, m, signalled[m] \union (alive[m] \intersect {helper[m]}))
    /\ UNCHANGED <<ipcVars, helper, owner, shutting, stale, restarts, timer, linked, start, restart,
                   cleanup, spawned, alive, faults>>

\* ... and has seen it exit, or gives up; shutdown goes on to its cleanup either way.
StopKilled(m) ==
    LET left == IF HelperRuns(m) THEN helper[m] ELSE 0
    IN  /\ stop[m] = "killing"
        /\ owner' = Put(owner, m, IF HelperRuns(m) THEN "exit-unconfirmed" ELSE "exited")
        /\ helper' = Put(helper, m, left)
        /\ cleanup' = Put(cleanup, m, [intent |-> "permanent-shutdown", victim |-> left])
        /\ restarts' = Put(restarts, m, MaxRestarts)
        /\ linked' = Put(linked, m, FALSE)
        /\ stop' = Put(stop, m, "cleaning")
        /\ UNCHANGED <<ipcVars, state, shutting, stale, timer, start, restart, procVars, faults>>

\* The shutdown request is answered, fails or times out.
Asked(m) ==
    /\ stop[m] = "asking"
    /\ CleanForGood(m)
    /\ UNCHANGED <<ipcVars, state, helper, owner, shutting, stale, start, restart, spawned, alive,
                   faults>>

\* forceKillHelpersForQuit: the shutdown took longer than the grace period of the quit.
ForceKill(m) ==
    /\ cur = m /\ stop[m] # "none" /\ ~quit
    /\ quit' = TRUE /\ cur' = 0
    /\ signalled' = Put(signalled, m, signalled[m] \union ({helper[m]} \ {0}))
    /\ helper' = Put(helper, m, 0)
    /\ linked' = Put(linked, m, FALSE)
    /\ state' = Put(state, m, "disconnected")
    /\ UNCHANGED <<used, owner, shutting, stale, restarts, timer, flowVars, cleanup, spawned, alive,
                   faults>>

-----------------------------------------------------------------------------
StartStep(m) == StartSpawned(m) \/ StartOpened(m) \/ StartFails(m)
RestartStep(m) == RestartSpawned(m) \/ RestartConnected(m) \/ RestartOpened(m) \/ RestartFails(m)
StopStep(m) == StopAnswered(m) \/ StopUnanswered(m) \/ StopKilled(m) \/ Asked(m)
CleanupStep(m) == CleanupEnds(m) \/ CleanupGivesUp(m)

Next ==
    \/ Ensure
    \/ \E m \in Managers :
        \/ StartStep(m) \/ RestartStep(m) \/ StopStep(m) \/ CleanupStep(m)
        \/ Capture(m) \/ ProcessExits(m) \/ SpawnError(m) \/ RestartDue(m)
        \/ StopAudio(m) \/ ForceKill(m)

\* Every await of a stop has a deadline, and the wait after a spawn is a timer.  No
\* process is assumed to exit or to answer.
Fairness == \A m \in Managers :
    WF_vars(StopStep(m)) /\ WF_vars(CleanupStep(m)) /\ WF_vars(RestartSpawned(m))

Spec == Init /\ [][Next]_vars /\ Fairness

-----------------------------------------------------------------------------
(* Properties *)

CountTypes ==
    /\ cur \in 0..MaxManagers /\ used \in 0..MaxManagers /\ quit \in BOOLEAN
    /\ faults \in 0..MaxFaults

FlowTypes ==
    /\ state \in [Managers -> States] /\ owner \in [Managers -> Owners]
    /\ shutting \in [Managers -> BOOLEAN] /\ stale \in [Managers -> BOOLEAN]
    /\ timer \in [Managers -> BOOLEAN] /\ linked \in [Managers -> BOOLEAN]
    /\ restarts \in [Managers -> 0..MaxRestarts]
    /\ start \in [Managers -> {"none", "spawn", "connect", "cleaning"}]
    /\ restart \in [Managers -> {"none", "spawn", "connect", "pipes", "failing"}]
    /\ stop \in [Managers -> {"none", "stopping", "killing", "asking", "cleaning"}]

ProcessTypes ==
    /\ helper \in [Managers -> 0..MaxSpawns] /\ spawned \in [Managers -> 0..MaxSpawns]
    /\ cleanup \in [Managers -> [intent : {"none", "startup-failure", "permanent-shutdown"},
                                victim : 0..MaxSpawns]]
    /\ alive \in [Managers -> SUBSET Processes] /\ signalled \in [Managers -> SUBSET Processes]

TypeOK == CountTypes /\ FlowTypes /\ ProcessTypes

\* The processes of m that run and were not told to end.
Loose(m) == alive[m] \ signalled[m]

\* A process that runs and was not told to end is the one the manager holds, so a
\* stop reaches it.
HandleKept == \A m \in Managers : Loose(m) \subseteq {helper[m]}

\* A manager never runs two processes, not even across a restart.
OneProcess == \A m \in Managers : \A j, k \in alive[m] : j = k

\* An ownership that says there is no process is right, except for one being spawned.
OwnerTrue == \A m \in Managers :
    owner[m] \in {"none", "exited"} /\ "spawn" \notin {start[m], restart[m]} => Loose(m) = {}

\* A restart is scheduled only when the process before it has exited, and never by
\* a manager that shuts down.
RestartSafe == \A m \in Managers :
    timer[m] => alive[m] = {} /\ ~shutting[m]

\* The handles, the ownership and the restart timer of AudioHelperManager tell the
\* truth about its process through crashes, failed starts, restarts and stops.
HelperInv == TypeOK /\ HandleKept /\ OneProcess /\ OwnerTrue /\ RestartSafe

\* Once shutdown or forceKill was called, every process of the manager is soon told to
\* end and none is spawned after that, whatever a restart under way does.
ShutdownSettles == \A m \in Managers : shutting[m] ~> [](Loose(m) = {})

\* A stop returns to its caller, even from a helper that neither answers nor dies.
StopReturns == \A m \in Managers : stop[m] # "none" ~> stop[m] = "none"

\* The handlers keep one helper for the whole application (currentAudioHelper): no
\* two managers run a helper that nobody ends.
OneHelper == \A m, n \in Managers : Loose(m) # {} /\ Loose(n) # {} => m = n

\* The manager the handlers hold restarts after an unexpected exit: it is at it, or
\* has used its attempts.
RestartsContinue == \A m \in Managers :
    cur = m /\ alive[m] = {} /\ ~shutting[m] /\ restart[m] = "none" =>
        timer[m] \/ restarts[m] = MaxRestarts

\* A manager that gave its process up as unconfirmed is not replaced while that runs.
UnconfirmedBlocks == \A m, n \in Managers :
    m # n /\ owner[m] = "exit-unconfirmed" /\ alive[m] # {} => Loose(n) = {}
=============================================================================
