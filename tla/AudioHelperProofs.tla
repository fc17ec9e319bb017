--------------------------- MODULE AudioHelperProofs ---------------------------
(***************************************************************************)
(* The handles, ownership and restart timers of the audio helper's managers *)
(* tell the truth, for any number of managers, processes and faults.        *)
(***************************************************************************)
EXTENDS AudioHelper, TLAPS

\* A cleanup that waits for a process waits for the one the manager holds, if any.
VictimHeld(m) == cleanup[m].victim # 0 => helper[m] \in {0, cleanup[m].victim}

\* A manager not yet made has no process, and nothing is under way in it.
Untouched(m) == m > used =>
    /\ alive[m] = {} /\ timer[m] = FALSE /\ cleanup[m] = NoCleanup
    /\ start[m] = "none" /\ restart[m] = "none" /\ stop[m] = "none"

\* What HelperInv says of one manager, and the two facts that make it inductive.
ManagerInv(m) ==
    /\ Loose(m) \subseteq {helper[m]}
    /\ \A j, k \in alive[m] : j = k
    /\ owner[m] \in {"none", "exited"} /\ "spawn" \notin {start[m], restart[m]} => Loose(m) = {}
    /\ timer[m] => alive[m] = {} /\ ~shutting[m]
    /\ VictimHeld(m)
    /\ Untouched(m)

IndInv == TypeOK /\ cur <= used /\ \A m \in Managers : ManagerInv(m)

\* What ManagerInv(m) depends on.
managerView(m) == <<helper[m], owner[m], shutting[m], timer[m], start[m], restart[m],
                    stop[m], cleanup[m], alive[m], signalled[m]>>

-----------------------------------------------------------------------------
(* Updates *)

\* A manager that a step leaves alone keeps its part of the invariant.
LEMMA LeftAlone ==
    ASSUME NEW m \in Managers, ManagerInv(m), managerView(m)' = managerView(m),
           used \in Nat, used' \in Nat, used' >= used
    PROVE  ManagerInv(m)'
BY DEF ManagerInv, managerView, Loose, VictimHeld, Untouched, Managers

-----------------------------------------------------------------------------
(* The types *)

LEMMA InitInv == Init => IndInv
<1> SUFFICES ASSUME Init PROVE IndInv
  OBVIOUS
<1>1. CountTypes
  <2>1. cur = 0 /\ used = 0 /\ quit = FALSE /\ faults = 0
    BY DEF Init
  <2>2. 0 \in 0..MaxManagers /\ 0 \in 0..MaxFaults
    BY AudioAssumption
  <2>3. QED
    BY <2>1, <2>2 DEF CountTypes
<1>2. FlowTypes
  BY AudioAssumption DEF Init, FlowTypes, States, Owners
<1>3. ProcessTypes
  BY AudioAssumption DEF Init, ProcessTypes, NoCleanup
<1>4. ASSUME NEW m \in Managers PROVE ManagerInv(m)
  BY DEF Init, ManagerInv, Loose, VictimHeld, Untouched, NoCleanup
<1>5. QED
  BY <1>1, <1>2, <1>3, <1>4 DEF Init, IndInv, TypeOK

\* What a cleanup changes, and what a spawn changes, keeps its type.
LEMMA CleanupTypes ==
    ASSUME NEW m \in Managers, TypeOK, BeginCleanup(m, "startup-failure")
           \/ BeginCleanup(m, "permanent-shutdown")
    PROVE  /\ timer' \in [Managers -> BOOLEAN] /\ linked' \in [Managers -> BOOLEAN]
           /\ cleanup' \in [Managers -> [intent : {"none", "startup-failure", "permanent-shutdown"},
                                        victim : 0..MaxSpawns]]
           /\ signalled' \in [Managers -> SUBSET Processes]
<1>1. /\ timer' \in [Managers -> BOOLEAN] /\ linked' \in [Managers -> BOOLEAN]
  BY DEF TypeOK, FlowTypes, BeginCleanup, Put
<1>2. CASE cleanup[m] # NoCleanup
  BY <1>1, <1>2 DEF TypeOK, ProcessTypes, BeginCleanup
<1>3. CASE cleanup[m] = NoCleanup
  <2> DEFINE victim == IF owner[m] = "exited" THEN 0 ELSE helper[m]
  <2>1. victim \in 0..MaxSpawns
    BY AudioAssumption DEF TypeOK, ProcessTypes
  <2>2. PICK i \in {"startup-failure", "permanent-shutdown"} :
            cleanup' = [cleanup EXCEPT ![m] = [intent |-> i, victim |-> victim]]
    BY <1>3 DEF BeginCleanup, Put
  <2>3. signalled' = [signalled EXCEPT ![m] = signalled[m] \union ({victim} \ {0})]
    BY <1>3 DEF BeginCleanup, Put
  <2> HIDE DEF victim
  <2>4. {victim} \ {0} \subseteq Processes
    BY <2>1, AudioAssumption DEF Processes
  <2>5. QED
    BY <1>1, <2>1, <2>2, <2>3, <2>4 DEF TypeOK, ProcessTypes
<1>4. QED
  BY <1>2, <1>3

LEMMA SpawnTypes ==
    ASSUME NEW m \in Managers, TypeOK, Spawn(m)
    PROVE  /\ helper' \in [Managers -> 0..MaxSpawns] /\ spawned' \in [Managers -> 0..MaxSpawns]
           /\ alive' \in [Managers -> SUBSET Processes]
<1> DEFINE k == spawned[m] + 1
<1>1. k \in 0..MaxSpawns /\ k \in Processes
  BY AudioAssumption DEF TypeOK, ProcessTypes, Spawn, Processes
<1>2. /\ helper' = [helper EXCEPT ![m] = k] /\ spawned' = [spawned EXCEPT ![m] = k]
      /\ alive' = [alive EXCEPT ![m] = alive[m] \union {k}]
  BY DEF Spawn, Put
<1> HIDE DEF k
<1>3. QED
  BY <1>1, <1>2 DEF TypeOK, ProcessTypes

\* No step of a manager makes a malformed state.
LEMMA TypeStep == TypeOK /\ [Next]_vars => TypeOK'
<1> SUFFICES ASSUME TypeOK, [Next]_vars PROVE TypeOK'
  OBVIOUS
<1> USE AudioAssumption DEF TypeOK
<1>1. CASE UNCHANGED vars
  BY <1>1 DEF CountTypes, FlowTypes, ProcessTypes, vars, ipcVars, flowVars, procVars
<1>2. CASE Ensure
  <2>1. CountTypes'
    BY <1>2 DEF CountTypes, Ensure
  <2>2. FlowTypes'
    BY <1>2 DEF FlowTypes, Ensure, Put, States, Owners
  <2>3. ProcessTypes'
    <3>1. used + 1 \in Managers
      BY <1>2 DEF CountTypes, Ensure, Managers
    <3>2. QED
      BY <1>2, <3>1, SpawnTypes DEF ProcessTypes, Ensure
  <2>4. QED
    BY <2>1, <2>2, <2>3
<1>3. ASSUME NEW m \in Managers, StartSpawned(m) PROVE TypeOK'
  <2>1. CountTypes'
    BY <1>3 DEF CountTypes, StartSpawned, ipcVars, Managers
  <2>2. FlowTypes'
    BY <1>3 DEF FlowTypes, StartSpawned, Put, flowVars, States, Owners
  <2>3. ProcessTypes'
    BY <1>3 DEF ProcessTypes, StartSpawned, Put, procVars, Processes
  <2>4. QED
    BY <2>1, <2>2, <2>3
<1>4. ASSUME NEW m \in Managers, StartOpened(m) PROVE TypeOK'
  <2>1. CountTypes'
    BY <1>4 DEF CountTypes, StartOpened, ipcVars, Managers
  <2>2. FlowTypes'
    BY <1>4 DEF FlowTypes, StartOpened, Put, flowVars, States, Owners
  <2>3. ProcessTypes'
    BY <1>4 DEF ProcessTypes, StartOpened, Put, procVars, Processes
  <2>4. QED
    BY <2>1, <2>2, <2>3
<1>5. ASSUME NEW m \in Managers, StartFails(m) PROVE TypeOK'
  <2>1. CountTypes'
    BY <1>5 DEF CountTypes, StartFails, BeginCleanup, Fault, ipcVars, Managers
  <2>2. FlowTypes'
    BY <1>5, CleanupTypes DEF FlowTypes, StartFails, Put, flowVars, States, Owners
  <2>3. ProcessTypes'
    BY <1>5, CleanupTypes DEF ProcessTypes, StartFails, Put, procVars
  <2>4. QED
    BY <2>1, <2>2, <2>3
<1>6. ASSUME NEW m \in Managers, Capture(m) PROVE TypeOK'
  <2>1. CountTypes'
    BY <1>6 DEF CountTypes, Capture, ipcVars, Managers
  <2>2. FlowTypes'
    BY <1>6 DEF FlowTypes, Capture, Put, flowVars, States, Owners
  <2>3. ProcessTypes'
    BY <1>6 DEF ProcessTypes, Capture, Put, procVars, Processes
  <2>4. QED
    BY <2>1, <2>2, <2>3
<1>7. ASSUME NEW m \in Managers, ProcessExits(m) PROVE TypeOK'
  <2>1. CountTypes'
    BY <1>7 DEF CountTypes, ProcessExits, HandleExit, Fault, ipcVars, Managers
  <2>2. FlowTypes'
    BY <1>7 DEF FlowTypes, ProcessExits, HandleExit, Fault, Put, flowVars, States, Owners
  <2>3. ProcessTypes'
    BY <1>7 DEF ProcessTypes, ProcessExits, HandleExit, Fault, Put, procVars, Processes
  <2>4. QED
    BY <2>1, <2>2, <2>3
<1>8. ASSUME NEW m \in Managers, SpawnError(m) PROVE TypeOK'
  <2>1. CountTypes'
    BY <1>8 DEF CountTypes, SpawnError, Fault, HelperRuns, ipcVars, Managers
  <2>2. FlowTypes'
    BY <1>8 DEF FlowTypes, SpawnError, Fault, HelperRuns, Put, flowVars, States, Owners
  <2>3. ProcessTypes'
    BY <1>8 DEF ProcessTypes, SpawnError, Fault, HelperRuns, Put, procVars, Processes
  <2>4. QED
    BY <2>1, <2>2, <2>3
<1>9. ASSUME NEW m \in Managers, RestartDue(m) PROVE TypeOK'
  <2>1. CountTypes'
    BY <1>9 DEF CountTypes, RestartDue, Spawn, ipcVars, Managers
  <2>2. FlowTypes'
    BY <1>9 DEF FlowTypes, RestartDue, Spawn, Put, flowVars, States, Owners
  <2>3. ProcessTypes'
    BY <1>9, SpawnTypes DEF ProcessTypes, RestartDue
  <2>4. QED
    BY <2>1, <2>2, <2>3
<1>10. ASSUME NEW m \in Managers, RestartSpawned(m) PROVE TypeOK'
  <2>1. CountTypes'
    BY <1>10 DEF CountTypes, RestartSpawned, HelperRuns, ipcVars, Managers
  <2>2. FlowTypes'
    BY <1>10 DEF FlowTypes, RestartSpawned, HelperRuns, Put, flowVars, States, Owners
  <2>3. ProcessTypes'
    BY <1>10 DEF ProcessTypes, RestartSpawned, HelperRuns, Put, procVars, Processes
  <2>4. QED
    BY <2>1, <2>2, <2>3
<1>11. ASSUME NEW m \in Managers, RestartConnected(m) PROVE TypeOK'
  <2>1. CountTypes'
    BY <1>11 DEF CountTypes, RestartConnected, ipcVars, Managers
  <2>2. FlowTypes'
    BY <1>11 DEF FlowTypes, RestartConnected, Put, flowVars, States, Owners
  <2>3. ProcessTypes'
    BY <1>11 DEF ProcessTypes, RestartConnected, Put, procVars, Processes
  <2>4. QED
    BY <2>1, <2>2, <2>3
<1>12. ASSUME NEW m \in Managers, RestartOpened(m) PROVE TypeOK'
  <2>1. CountTypes'
    BY <1>12 DEF CountTypes, RestartOpened, ipcVars, Managers
  <2>2. FlowTypes'
    BY <1>12 DEF FlowTypes, RestartOpened, Put, flowVars, States, Owners
  <2>3. ProcessTypes'
    BY <1>12 DEF ProcessTypes, RestartOpened, Put, procVars, Processes
  <2>4. QED
    BY <2>1, <2>2, <2>3
<1>13. ASSUME NEW m \in Managers, RestartFails(m) PROVE TypeOK'
  <2>1. CountTypes'
    BY <1>13 DEF CountTypes, RestartFails, BeginCleanup, Fault, ipcVars, Managers
  <2>2. FlowTypes'
    BY <1>13, CleanupTypes DEF FlowTypes, RestartFails, Put, flowVars, States, Owners
  <2>3. ProcessTypes'
    BY <1>13, CleanupTypes DEF ProcessTypes, RestartFails, Put, procVars
  <2>4. QED
    BY <2>1, <2>2, <2>3
<1>14. ASSUME NEW m \in Managers, StopAudio(m) PROVE TypeOK'
  <2>1. CountTypes'
    BY <1>14 DEF CountTypes, StopAudio, CleanForGood, BeginCleanup, ipcVars, Managers
  <2>2. FlowTypes'
    <3>1. CASE state[m] = "capturing" \/ linked[m]
      BY <1>14, <3>1 DEF FlowTypes, StopAudio, Put, States, Owners
    <3>2. CASE ~(state[m] = "capturing" \/ linked[m])
      BY <1>14, <3>2, CleanupTypes DEF FlowTypes, StopAudio, CleanForGood, Put, States, Owners
    <3>3. QED
      BY <3>1, <3>2
  <2>3. ProcessTypes'
    BY <1>14, CleanupTypes DEF ProcessTypes, StopAudio, CleanForGood, Put, procVars
  <2>4. QED
    BY <2>1, <2>2, <2>3
<1>15. ASSUME NEW m \in Managers, StopAnswered(m) PROVE TypeOK'
  <2>1. CountTypes'
    BY <1>15 DEF CountTypes, StopAnswered, ipcVars, Managers
  <2>2. FlowTypes'
    BY <1>15 DEF FlowTypes, StopAnswered, Put, flowVars, States, Owners
  <2>3. ProcessTypes'
    BY <1>15 DEF ProcessTypes, StopAnswered, Put, procVars, Processes
  <2>4. QED
    BY <2>1, <2>2, <2>3
<1>16. ASSUME NEW m \in Managers, StopUnanswered(m) PROVE TypeOK'
  <2>1. CountTypes'
    BY <1>16 DEF CountTypes, StopUnanswered, ipcVars, Managers
  <2>2. FlowTypes'
    BY <1>16 DEF FlowTypes, StopUnanswered, Put, flowVars, States, Owners
  <2>3. ProcessTypes'
    BY <1>16 DEF ProcessTypes, StopUnanswered, Put, procVars, Processes
  <2>4. QED
    BY <2>1, <2>2, <2>3
<1>17. ASSUME NEW m \in Managers, StopKilled(m) PROVE TypeOK'
  <2>1. CountTypes'
    BY <1>17 DEF CountTypes, StopKilled, HelperRuns, ipcVars, Managers
  <2>2. FlowTypes'
    BY <1>17 DEF FlowTypes, StopKilled, HelperRuns, Put, flowVars, States, Owners
  <2>3. ProcessTypes'
    BY <1>17 DEF ProcessTypes, StopKilled, HelperRuns, Put, procVars, Processes
  <2>4. QED
    BY <2>1, <2>2, <2>3
<1>18. ASSUME NEW m \in Managers, Asked(m) PROVE TypeOK'
  <2>1. CountTypes'
    BY <1>18 DEF CountTypes, Asked, CleanForGood, BeginCleanup, ipcVars, Managers
  <2>2. FlowTypes'
    BY <1>18, CleanupTypes DEF FlowTypes, Asked, CleanForGood, Put, flowVars, States, Owners
  <2>3. ProcessTypes'
    BY <1>18, CleanupTypes DEF ProcessTypes, Asked, CleanForGood, Put, procVars
  <2>4. QED
    BY <2>1, <2>2, <2>3
<1>19. ASSUME NEW m \in Managers, ForceKill(m) PROVE TypeOK'
  <2>1. CountTypes'
    BY <1>19 DEF CountTypes, ForceKill, ipcVars, Managers
  <2>2. FlowTypes'
    BY <1>19 DEF FlowTypes, ForceKill, Put, flowVars, States, Owners
  <2>3. ProcessTypes'
    BY <1>19 DEF ProcessTypes, ForceKill, Put, procVars, Processes
  <2>4. QED
    BY <2>1, <2>2, <2>3
<1>20. ASSUME NEW m \in Managers, CleanupEnds(m) PROVE TypeOK'
  <2>1. CountTypes'
    BY <1>20 DEF CountTypes, CleanupEnds, Resume, NoCleanup, ipcVars, Managers
  <2>2. FlowTypes'
    BY <1>20 DEF FlowTypes, CleanupEnds, Resume, NoCleanup, Put, flowVars, States, Owners
  <2>3. ProcessTypes'
    BY <1>20 DEF ProcessTypes, CleanupEnds, Resume, NoCleanup, Put, procVars, Processes
  <2>4. QED
    BY <2>1, <2>2, <2>3
<1>21. ASSUME NEW m \in Managers, CleanupGivesUp(m) PROVE TypeOK'
  <2>1. CountTypes'
    BY <1>21 DEF CountTypes, CleanupGivesUp, Resume, NoCleanup, ipcVars, Managers
  <2>2. FlowTypes'
    BY <1>21 DEF FlowTypes, CleanupGivesUp, Resume, NoCleanup, Put, flowVars, States, Owners
  <2>3. ProcessTypes'
    BY <1>21 DEF ProcessTypes, CleanupGivesUp, Resume, NoCleanup, Put, procVars, Processes
  <2>4. QED
    BY <2>1, <2>2, <2>3
<1>22. QED
  BY <1>1, <1>2, <1>3, <1>4, <1>5, <1>6, <1>7, <1>8, <1>9, <1>10, <1>11, <1>12, <1>13, <1>14,
    <1>15, <1>16, <1>17, <1>18, <1>19, <1>20, <1>21
  DEF Next, StartStep, RestartStep, StopStep, CleanupStep

-----------------------------------------------------------------------------
(* The managers *)

\* A cleanup that begins leaves no restart scheduled and waits for the manager's process;
\* unless the process is known to have exited, or one is under way, it is told to end.
LEMMA CleanupBegins ==
    ASSUME IndInv, NEW m \in Managers, NEW i, BeginCleanup(m, i), helper'[m] = helper[m],
           alive'[m] = alive[m]
    PROVE  /\ timer'[m] = FALSE
           /\ Loose(m)' \subseteq Loose(m)
           /\ VictimHeld(m)'
<1>1. timer'[m] = FALSE
  BY DEF BeginCleanup, Put, IndInv, TypeOK, FlowTypes
<1>2. CASE cleanup[m] # NoCleanup
  BY <1>1, <1>2 DEF BeginCleanup, IndInv, ManagerInv, VictimHeld, Loose
<1>3. CASE cleanup[m] = NoCleanup
  <2> DEFINE victim == IF owner[m] = "exited" THEN 0 ELSE helper[m]
  <2>1. /\ cleanup'[m] = [intent |-> i, victim |-> victim]
        /\ signalled'[m] = signalled[m] \union ({victim} \ {0})
    BY <1>3 DEF BeginCleanup, Put, IndInv, TypeOK, ProcessTypes
  <2>2. QED
    BY <1>1, <2>1 DEF VictimHeld, Loose
<1>4. QED
  BY <1>2, <1>3

\* A step keeps the invariant of every manager.
LEMMA ManagerStep ==
    IndInv /\ TypeOK' /\ [Next]_vars => \A n \in Managers : ManagerInv(n)'
<1> SUFFICES ASSUME IndInv, TypeOK', [Next]_vars PROVE \A n \in Managers : ManagerInv(n)'
  OBVIOUS
<1> USE DEF IndInv
<1>0. used \in Nat /\ used' \in Nat
  BY AudioAssumption DEF TypeOK, CountTypes
<1>1. CASE UNCHANGED vars
  BY <1>0, <1>1, LeftAlone DEF vars, ipcVars, flowVars, procVars, managerView
<1>2. CASE Ensure
  <2>1. PICK m \in Managers : m = used + 1 /\ m > used /\ used' = m
    BY <1>0, <1>2 DEF Ensure, Managers, TypeOK, CountTypes
  <2>2. ASSUME NEW n \in Managers, n # m PROVE ManagerInv(n)'
    <3>1. managerView(n)' = managerView(n)
      BY <1>2, <2>1, <2>2 DEF Ensure, Spawn, Put, managerView, TypeOK, FlowTypes, ProcessTypes
    <3>2. QED
      BY <1>0, <2>1, <3>1, LeftAlone
  <2>3. ManagerInv(m)'
    <3>1. ManagerInv(m)
      BY <2>1
    <3>2. alive[m] = {} /\ timer[m] = FALSE /\ cleanup[m] = NoCleanup
      BY <2>1, <3>1 DEF ManagerInv, Untouched
    <3>3. /\ helper'[m] = spawned[m] + 1 /\ alive'[m] = alive[m] \union {spawned[m] + 1}
          /\ start'[m] = "spawn" /\ timer'[m] = timer[m] /\ cleanup'[m] = cleanup[m]
      BY <1>2, <2>1 DEF Ensure, Spawn, Put, TypeOK, FlowTypes, ProcessTypes
    <3>4. QED
      BY <1>0, <2>1, <3>2, <3>3 DEF ManagerInv, Loose, VictimHeld, Untouched, NoCleanup
  <2>4. QED
    BY <2>2, <2>3
<1>3. ASSUME NEW m \in Managers, StartSpawned(m) PROVE \A n \in Managers : ManagerInv(n)'
  <2>1. ASSUME NEW n \in Managers, n # m PROVE managerView(n)' = managerView(n)
    BY <1>3, <2>1 DEF StartSpawned, ipcVars, procVars, Put, managerView, TypeOK, FlowTypes,
      ProcessTypes
  <2>2. ManagerInv(m)'
    BY <1>3 DEF StartSpawned, ipcVars, procVars, Put, ManagerInv, Loose, VictimHeld, Untouched,
      TypeOK, FlowTypes, ProcessTypes
  <2>3. used' = used
    BY <1>3 DEF StartSpawned, ipcVars, procVars
  <2>4. QED
    BY <1>0, <2>1, <2>2, <2>3, LeftAlone
<1>4. ASSUME NEW m \in Managers, StartOpened(m) PROVE \A n \in Managers : ManagerInv(n)'
  <2>1. ASSUME NEW n \in Managers, n # m PROVE managerView(n)' = managerView(n)
    BY <1>4, <2>1 DEF StartOpened, procVars, Put, managerView, TypeOK, FlowTypes, ProcessTypes
  <2>2. ManagerInv(m)'
    BY <1>4 DEF StartOpened, procVars, Put, ManagerInv, Loose, VictimHeld, Untouched, TypeOK,
      FlowTypes, ProcessTypes
  <2>3. used' = used
    BY <1>4 DEF StartOpened, procVars
  <2>4. QED
    BY <1>0, <2>1, <2>2, <2>3, LeftAlone
<1>5. ASSUME NEW m \in Managers, StartFails(m) PROVE \A n \in Managers : ManagerInv(n)'
  <2>1. ASSUME NEW n \in Managers, n # m PROVE managerView(n)' = managerView(n)
    BY <1>5, <2>1 DEF StartFails, BeginCleanup, ipcVars, Put, managerView, TypeOK, FlowTypes,
      ProcessTypes
  <2>2. ManagerInv(m)'
    <3>1. ManagerInv(m)
      OBVIOUS
    <3>2. /\ helper'[m] = helper[m] /\ owner'[m] = owner[m] /\ alive'[m] = alive[m]
          /\ shutting'[m] = shutting[m] /\ start'[m] # "spawn" /\ restart'[m] = restart[m]
          /\ used' = used /\ start[m] # "none" /\ BeginCleanup(m, "startup-failure")
      BY <1>5 DEF StartFails, ipcVars, Put, TypeOK, FlowTypes, ProcessTypes
    <3>3. m <= used
      BY <1>0, <3>1, <3>2 DEF ManagerInv, Untouched, Managers
    <3>4. timer'[m] = FALSE /\ Loose(m)' \subseteq Loose(m) /\ VictimHeld(m)'
      BY <3>2, CleanupBegins
    <3>5. owner[m] \in {"none", "exited"} /\ restart[m] # "spawn" => Loose(m) = {}
      <4>1. CASE start[m] = "spawn"
        <5>1. helper[m] \notin alive[m]
          BY <1>5, <4>1 DEF StartFails, HelperRuns
        <5>2. QED
          BY <3>1, <5>1 DEF ManagerInv, Loose
      <4>2. CASE start[m] # "spawn"
        BY <3>1, <4>2 DEF ManagerInv
      <4>3. QED
        BY <4>1, <4>2
    <3>6. QED
      BY <1>0, <3>1, <3>2, <3>3, <3>4, <3>5 DEF ManagerInv, Untouched, Managers
  <2>3. used' = used
    BY <1>5 DEF StartFails, BeginCleanup, ipcVars
  <2>4. QED
    BY <1>0, <2>1, <2>2, <2>3, LeftAlone
<1>6. ASSUME NEW m \in Managers, Capture(m) PROVE \A n \in Managers : ManagerInv(n)'
  <2>1. ASSUME NEW n \in Managers, n # m PROVE managerView(n)' = managerView(n)
    BY <1>6, <2>1 DEF Capture, ipcVars, flowVars, procVars, Put, managerView, TypeOK, FlowTypes,
      ProcessTypes
  <2>2. ManagerInv(m)'
    BY <1>6 DEF Capture, ipcVars, flowVars, procVars, Put, ManagerInv, Loose, VictimHeld,
      Untouched, TypeOK, FlowTypes, ProcessTypes
  <2>3. used' = used
    BY <1>6 DEF Capture, ipcVars, flowVars, procVars
  <2>4. QED
    BY <1>0, <2>1, <2>2, <2>3, LeftAlone
<1>7. ASSUME NEW m \in Managers, ProcessExits(m) PROVE \A n \in Managers : ManagerInv(n)'
  <2>1. ASSUME NEW n \in Managers, n # m PROVE managerView(n)' = managerView(n)
    BY <1>7, <2>1 DEF ProcessExits, HandleExit, ipcVars, flowVars, Put, managerView, TypeOK,
      FlowTypes, ProcessTypes
  <2>2. ManagerInv(m)'
    BY <1>7 DEF ProcessExits, HandleExit, ipcVars, flowVars, Put, ManagerInv, Loose, VictimHeld,
      Untouched, TypeOK, FlowTypes, ProcessTypes
  <2>3. used' = used
    BY <1>7 DEF ProcessExits, HandleExit, ipcVars, flowVars
  <2>4. QED
    BY <1>0, <2>1, <2>2, <2>3, LeftAlone
<1>8. ASSUME NEW m \in Managers, SpawnError(m) PROVE \A n \in Managers : ManagerInv(n)'
  <2>1. ASSUME NEW n \in Managers, n # m PROVE managerView(n)' = managerView(n)
    BY <1>8, <2>1 DEF SpawnError, ipcVars, flowVars, Put, managerView, TypeOK, FlowTypes,
      ProcessTypes
  <2>2. ManagerInv(m)'
    BY <1>8 DEF SpawnError, ipcVars, flowVars, HelperRuns, Put, ManagerInv, Loose, VictimHeld,
      Untouched, TypeOK, FlowTypes, ProcessTypes
  <2>3. used' = used
    BY <1>8 DEF SpawnError, ipcVars, flowVars
  <2>4. QED
    BY <1>0, <2>1, <2>2, <2>3, LeftAlone
<1>9. ASSUME NEW m \in Managers, RestartDue(m) PROVE \A n \in Managers : ManagerInv(n)'
  <2>1. ASSUME NEW n \in Managers, n # m PROVE managerView(n)' = managerView(n)
    BY <1>9, <2>1 DEF RestartDue, Spawn, ipcVars, Put, managerView, TypeOK, FlowTypes,
      ProcessTypes
  <2>2. ManagerInv(m)'
    BY <1>9 DEF RestartDue, Spawn, ipcVars, NoCleanup, Put, ManagerInv, Loose, VictimHeld,
      Untouched, TypeOK, FlowTypes, ProcessTypes
  <2>3. used' = used
    BY <1>9 DEF RestartDue, Spawn, ipcVars
  <2>4. QED
    BY <1>0, <2>1, <2>2, <2>3, LeftAlone
<1>10. ASSUME NEW m \in Managers, RestartSpawned(m) PROVE \A n \in Managers : ManagerInv(n)'
  <2>1. ASSUME NEW n \in Managers, n # m PROVE managerView(n)' = managerView(n)
    BY <1>10, <2>1 DEF RestartSpawned, ipcVars, Put, managerView, TypeOK, FlowTypes, ProcessTypes
  <2>2. ManagerInv(m)'
    <3>1. ManagerInv(m)
      OBVIOUS
    <3>2. CASE stale[m]
      <4>1. /\ helper'[m] = 0 /\ signalled'[m] = signalled[m] \union ({helper[m]} \ {0})
            /\ restart[m] = "spawn" /\ restart'[m] = "none"
        BY <1>10, <3>2 DEF RestartSpawned, Put, TypeOK, FlowTypes, ProcessTypes
      <4>2. /\ alive' = alive /\ timer' = timer /\ shutting' = shutting /\ cleanup' = cleanup
            /\ start' = start /\ stop' = stop /\ used' = used
        BY <1>10 DEF RestartSpawned, ipcVars
      <4>3. 0 \notin alive[m]
        BY DEF TypeOK, ProcessTypes, Processes
      <4>4. Loose(m)' = {}
        BY <3>1, <4>1, <4>2, <4>3 DEF ManagerInv, Loose
      <4>5. QED
        BY <3>1, <4>1, <4>2, <4>4 DEF ManagerInv, VictimHeld, Untouched
    <3>3. CASE ~stale[m]
      BY <1>10, <3>1, <3>3 DEF RestartSpawned, ipcVars, Put, ManagerInv, Loose, VictimHeld,
         Untouched, TypeOK, FlowTypes, ProcessTypes
    <3>4. QED
      BY <3>2, <3>3
  <2>3. used' = used
    BY <1>10 DEF RestartSpawned, ipcVars
  <2>4. QED
    BY <1>0, <2>1, <2>2, <2>3, LeftAlone
<1>11. ASSUME NEW m \in Managers, RestartConnected(m) PROVE \A n \in Managers : ManagerInv(n)'
  <2>1. ASSUME NEW n \in Managers, n # m PROVE managerView(n)' = managerView(n)
    BY <1>11, <2>1 DEF RestartConnected, ipcVars, procVars, Put, managerView, TypeOK, FlowTypes,
      ProcessTypes
  <2>2. ManagerInv(m)'
    BY <1>11 DEF RestartConnected, ipcVars, procVars, Put, ManagerInv, Loose, VictimHeld,
      Untouched, TypeOK, FlowTypes, ProcessTypes
  <2>3. used' = used
    BY <1>11 DEF RestartConnected, ipcVars, procVars
  <2>4. QED
    BY <1>0, <2>1, <2>2, <2>3, LeftAlone
<1>12. ASSUME NEW m \in Managers, RestartOpened(m) PROVE \A n \in Managers : ManagerInv(n)'
  <2>1. ASSUME NEW n \in Managers, n # m PROVE managerView(n)' = managerView(n)
    BY <1>12, <2>1 DEF RestartOpened, ipcVars, procVars, Put, managerView, TypeOK, FlowTypes,
      ProcessTypes
  <2>2. ManagerInv(m)'
    BY <1>12 DEF RestartOpened, ipcVars, procVars, Put, ManagerInv, Loose, VictimHeld,
      Untouched, TypeOK, FlowTypes, ProcessTypes
  <2>3. used' = used
    BY <1>12 DEF RestartOpened, ipcVars, procVars
  <2>4. QED
    BY <1>0, <2>1, <2>2, <2>3, LeftAlone
<1>13. ASSUME NEW m \in Managers, RestartFails(m) PROVE \A n \in Managers : ManagerInv(n)'
  <2>1. ASSUME NEW n \in Managers, n # m PROVE managerView(n)' = managerView(n)
    BY <1>13, <2>1 DEF RestartFails, BeginCleanup, ipcVars, Put, managerView, TypeOK, FlowTypes,
      ProcessTypes
  <2>2. ManagerInv(m)'
    <3>1. ManagerInv(m)
      OBVIOUS
    <3>2. /\ helper'[m] = helper[m] /\ owner'[m] = owner[m] /\ alive'[m] = alive[m]
          /\ shutting'[m] = shutting[m] /\ restart'[m] # "spawn" /\ start'[m] = start[m]
          /\ used' = used /\ restart[m] # "none" /\ BeginCleanup(m, "startup-failure")
      BY <1>13 DEF RestartFails, ipcVars, Put, TypeOK, FlowTypes, ProcessTypes
    <3>3. m <= used
      BY <1>0, <3>1, <3>2 DEF ManagerInv, Untouched, Managers
    <3>4. timer'[m] = FALSE /\ Loose(m)' \subseteq Loose(m) /\ VictimHeld(m)'
      BY <3>2, CleanupBegins
    <3>5. owner[m] \in {"none", "exited"} /\ start[m] # "spawn" => Loose(m) = {}
      <4>1. CASE restart[m] = "spawn"
        <5>1. helper[m] \notin alive[m]
          BY <1>13, <4>1 DEF RestartFails, HelperRuns
        <5>2. QED
          BY <3>1, <5>1 DEF ManagerInv, Loose
      <4>2. CASE restart[m] # "spawn"
        BY <3>1, <4>2 DEF ManagerInv
      <4>3. QED
        BY <4>1, <4>2
    <3>6. QED
      BY <1>0, <3>1, <3>2, <3>3, <3>4, <3>5 DEF ManagerInv, Untouched, Managers
  <2>3. used' = used
    BY <1>13 DEF RestartFails, BeginCleanup, ipcVars
  <2>4. QED
    BY <1>0, <2>1, <2>2, <2>3, LeftAlone
<1>14. ASSUME NEW m \in Managers, StopAudio(m) PROVE \A n \in Managers : ManagerInv(n)'
  <2>1. ASSUME NEW n \in Managers, n # m PROVE managerView(n)' = managerView(n)
    BY <1>14, <2>1 DEF StopAudio, CleanForGood, BeginCleanup, ipcVars, Put, managerView, TypeOK,
      FlowTypes, ProcessTypes
  <2>2. ManagerInv(m)'
    <3>1. ManagerInv(m)
      OBVIOUS
    <3>2. /\ helper' = helper /\ owner' = owner /\ alive' = alive
          /\ start' = start /\ restart' = restart /\ used' = used
      BY <1>14 DEF StopAudio, ipcVars
    <3>3. m <= used
      BY <1>0, <1>14 DEF StopAudio, Managers
    <3>4. CASE state[m] = "capturing" \/ linked[m]
      <4>1. timer'[m] = FALSE /\ cleanup' = cleanup /\ signalled' = signalled
        BY <1>14, <3>4 DEF StopAudio, Put, TypeOK, FlowTypes
      <4>2. QED
        BY <1>0, <3>1, <3>2, <3>3, <4>1 DEF ManagerInv, Loose, VictimHeld, Untouched, Managers
    <3>5. CASE ~(state[m] = "capturing" \/ linked[m])
      <4>1. BeginCleanup(m, "permanent-shutdown")
        BY <1>14, <3>5 DEF StopAudio, CleanForGood
      <4>2. timer'[m] = FALSE /\ Loose(m)' \subseteq Loose(m) /\ VictimHeld(m)'
        BY <3>2, <4>1, CleanupBegins
      <4>3. QED
        BY <1>0, <3>1, <3>2, <3>3, <4>2 DEF ManagerInv, Untouched, Managers
    <3>6. QED
      BY <3>4, <3>5
  <2>3. used' = used
    BY <1>14 DEF StopAudio, CleanForGood, BeginCleanup, ipcVars
  <2>4. QED
    BY <1>0, <2>1, <2>2, <2>3, LeftAlone
<1>15. ASSUME NEW m \in Managers, StopAnswered(m) PROVE \A n \in Managers : ManagerInv(n)'
  <2>1. ASSUME NEW n \in Managers, n # m PROVE managerView(n)' = managerView(n)
    BY <1>15, <2>1 DEF StopAnswered, ipcVars, procVars, Put, managerView, TypeOK, FlowTypes,
      ProcessTypes
  <2>2. ManagerInv(m)'
    BY <1>15 DEF StopAnswered, ipcVars, procVars, Put, ManagerInv, Loose, VictimHeld, Untouched,
      TypeOK, FlowTypes, ProcessTypes
  <2>3. used' = used
    BY <1>15 DEF StopAnswered, ipcVars, procVars
  <2>4. QED
    BY <1>0, <2>1, <2>2, <2>3, LeftAlone
<1>16. ASSUME NEW m \in Managers, StopUnanswered(m) PROVE \A n \in Managers : ManagerInv(n)'
  <2>1. ASSUME NEW n \in Managers, n # m PROVE managerView(n)' = managerView(n)
    BY <1>16, <2>1 DEF StopUnanswered, ipcVars, Put, managerView, TypeOK, FlowTypes, ProcessTypes
  <2>2. ManagerInv(m)'
    BY <1>16 DEF StopUnanswered, ipcVars, Put, ManagerInv, Loose, VictimHeld, Untouched, TypeOK,
      FlowTypes, ProcessTypes
  <2>3. used' = used
    BY <1>16 DEF StopUnanswered, ipcVars
  <2>4. QED
    BY <1>0, <2>1, <2>2, <2>3, LeftAlone
<1>17. ASSUME NEW m \in Managers, StopKilled(m) PROVE \A n \in Managers : ManagerInv(n)'
  <2>1. ASSUME NEW n \in Managers, n # m PROVE managerView(n)' = managerView(n)
    BY <1>17, <2>1 DEF StopKilled, ipcVars, procVars, Put, managerView, TypeOK, FlowTypes,
      ProcessTypes
  <2>2. ManagerInv(m)'
    <3>1. ManagerInv(m) /\ stop[m] = "killing"
      BY <1>17 DEF StopKilled
    <3>2. m <= used /\ used' = used
      BY <1>0, <1>17, <3>1 DEF StopKilled, ipcVars, ManagerInv, Untouched, Managers
    <3>3. /\ alive' = alive /\ signalled' = signalled /\ timer' = timer /\ shutting' = shutting
          /\ start' = start /\ restart' = restart /\ cleanup'[m].victim = helper'[m]
      BY <1>17 DEF StopKilled, ipcVars, procVars, Put, TypeOK, ProcessTypes
    <3>4. CASE HelperRuns(m)
      <4>1. owner'[m] = "exit-unconfirmed" /\ helper'[m] = helper[m]
        BY <1>17, <3>4 DEF StopKilled, Put, TypeOK, FlowTypes, ProcessTypes
      <4>2. QED
        BY <1>0, <3>1, <3>2, <3>3, <4>1 DEF ManagerInv, Loose, VictimHeld, Untouched, Managers
    <3>5. CASE ~HelperRuns(m)
      <4>1. helper[m] \notin alive[m]
        BY <3>5 DEF HelperRuns
      <4>2. Loose(m) = {}
        BY <3>1, <4>1 DEF ManagerInv, Loose
      <4>3. QED
        BY <1>0, <3>1, <3>2, <3>3, <4>2 DEF ManagerInv, Loose, VictimHeld, Untouched, Managers
    <3>6. QED
      BY <3>4, <3>5
  <2>3. used' = used
    BY <1>17 DEF StopKilled, ipcVars, procVars
  <2>4. QED
    BY <1>0, <2>1, <2>2, <2>3, LeftAlone
<1>18. ASSUME NEW m \in Managers, Asked(m) PROVE \A n \in Managers : ManagerInv(n)'
  <2>1. ASSUME NEW n \in Managers, n # m PROVE managerView(n)' = managerView(n)
    BY <1>18, <2>1 DEF Asked, CleanForGood, BeginCleanup, ipcVars, Put, managerView, TypeOK,
      FlowTypes, ProcessTypes
  <2>2. ManagerInv(m)'
    <3>1. ManagerInv(m)
      OBVIOUS
    <3>2. /\ helper' = helper /\ owner' = owner /\ alive' = alive
          /\ start' = start /\ restart' = restart /\ used' = used
      BY <1>18 DEF Asked, ipcVars
    <3>3. stop[m] = "asking" /\ BeginCleanup(m, "permanent-shutdown")
      BY <1>18 DEF Asked, CleanForGood
    <3>4. m <= used
      BY <1>0, <3>1, <3>3 DEF ManagerInv, Untouched, Managers
    <3>5. timer'[m] = FALSE /\ Loose(m)' \subseteq Loose(m) /\ VictimHeld(m)'
      BY <3>2, <3>3, CleanupBegins
    <3>6. QED
      BY <1>0, <3>1, <3>2, <3>4, <3>5 DEF ManagerInv, Untouched, Managers
  <2>3. used' = used
    BY <1>18 DEF Asked, CleanForGood, BeginCleanup, ipcVars
  <2>4. QED
    BY <1>0, <2>1, <2>2, <2>3, LeftAlone
<1>19. ASSUME NEW m \in Managers, ForceKill(m) PROVE \A n \in Managers : ManagerInv(n)'
  <2>1. ASSUME NEW n \in Managers, n # m PROVE managerView(n)' = managerView(n)
    BY <1>19, <2>1 DEF ForceKill, flowVars, Put, managerView, TypeOK, FlowTypes, ProcessTypes
  <2>2. ManagerInv(m)'
    BY <1>19 DEF ForceKill, flowVars, Put, ManagerInv, Loose, VictimHeld, Untouched, TypeOK,
      FlowTypes, ProcessTypes
  <2>3. used' = used
    BY <1>19 DEF ForceKill, flowVars
  <2>4. QED
    BY <1>0, <2>1, <2>2, <2>3, LeftAlone
<1>20. ASSUME NEW m \in Managers, CleanupEnds(m) PROVE \A n \in Managers : ManagerInv(n)'
  <2>1. ASSUME NEW n \in Managers, n # m PROVE managerView(n)' = managerView(n)
    BY <1>20, <2>1 DEF CleanupEnds, Resume, procVars, Put, managerView, TypeOK, FlowTypes,
      ProcessTypes
  <2>2. ManagerInv(m)'
    <3>1. ManagerInv(m) /\ cleanup[m] # NoCleanup
      BY <1>20 DEF CleanupEnds
    <3>2. /\ alive' = alive /\ signalled' = signalled /\ timer' = timer /\ shutting' = shutting
          /\ used' = used /\ cleanup'[m] = NoCleanup
      BY <1>20 DEF CleanupEnds, Resume, procVars, Put, TypeOK, ProcessTypes
    <3>3. m <= used
      BY <1>0, <3>1 DEF ManagerInv, Untouched, Managers
    <3>4. "spawn" \notin {start'[m], restart'[m]} => "spawn" \notin {start[m], restart[m]}
      BY <1>20 DEF CleanupEnds, Resume, Put, TypeOK, FlowTypes
    <3>5. CASE cleanup[m].victim = 0
      <4>1. owner' = owner /\ helper' = helper
        BY <1>20, <3>5 DEF CleanupEnds
      <4>2. QED
        BY <1>0, <3>1, <3>2, <3>3, <3>4, <4>1
        DEF ManagerInv, Loose, VictimHeld, Untouched, NoCleanup, Managers
    <3>6. CASE cleanup[m].victim # 0
      <4>1. helper[m] \in {0, cleanup[m].victim} /\ cleanup[m].victim \notin alive[m]
        BY <1>20, <3>1, <3>6 DEF CleanupEnds, ManagerInv, VictimHeld
      <4>2. 0 \notin alive[m]
        BY DEF TypeOK, ProcessTypes, Processes
      <4>3. Loose(m) = {}
        BY <3>1, <4>1, <4>2 DEF ManagerInv, Loose
      <4>4. QED
        BY <1>0, <3>1, <3>2, <3>3, <4>3
        DEF ManagerInv, Loose, VictimHeld, Untouched, NoCleanup, Managers
    <3>7. QED
      BY <3>5, <3>6
  <2>3. used' = used
    BY <1>20 DEF CleanupEnds, Resume, procVars
  <2>4. QED
    BY <1>0, <2>1, <2>2, <2>3, LeftAlone
<1>21. ASSUME NEW m \in Managers, CleanupGivesUp(m) PROVE \A n \in Managers : ManagerInv(n)'
  <2>1. ASSUME NEW n \in Managers, n # m PROVE managerView(n)' = managerView(n)
    BY <1>21, <2>1 DEF CleanupGivesUp, Resume, procVars, Put, managerView, TypeOK, FlowTypes,
      ProcessTypes
  <2>2. ManagerInv(m)'
    BY <1>21 DEF CleanupGivesUp, Resume, procVars, NoCleanup, Put, ManagerInv, Loose,
      VictimHeld, Untouched, TypeOK, FlowTypes, ProcessTypes
  <2>3. used' = used
    BY <1>21 DEF CleanupGivesUp, Resume, procVars
  <2>4. QED
    BY <1>0, <2>1, <2>2, <2>3, LeftAlone
<1>22. QED
  BY <1>1, <1>2, <1>3, <1>4, <1>5, <1>6, <1>7, <1>8, <1>9, <1>10, <1>11, <1>12, <1>13, <1>14,
    <1>15, <1>16, <1>17, <1>18, <1>19, <1>20, <1>21
  DEF Next, StartStep, RestartStep, StopStep, CleanupStep

\* The handlers never hold a manager that was not made.
LEMMA CurStep == IndInv /\ [Next]_vars => (cur <= used)'
<1> SUFFICES ASSUME IndInv, [Next]_vars PROVE (cur <= used)'
  OBVIOUS
<1>1. cur \in Nat /\ used \in Nat
  BY AudioAssumption DEF IndInv, TypeOK, CountTypes
<1>2. CASE UNCHANGED vars
  BY <1>1, <1>2 DEF IndInv, vars, ipcVars
<1>3. CASE Ensure
  BY <1>1, <1>3 DEF IndInv, Ensure
<1>4. ASSUME NEW m \in Managers, StartOpened(m) PROVE (cur <= used)'
  <2>1. m <= used
    BY <1>1, <1>4 DEF IndInv, ManagerInv, Untouched, StartOpened, Managers
  <2>2. QED
    BY <1>4, <2>1 DEF StartOpened
<1>5. ASSUME NEW m \in Managers, CleanupStep(m) \/ ForceKill(m) PROVE (cur <= used)'
  <2>1. used' = used /\ (cur' = cur \/ cur' = 0)
    <3>1. CASE CleanupEnds(m)
      BY <3>1 DEF CleanupEnds, Resume
    <3>2. CASE CleanupGivesUp(m)
      BY <3>2 DEF CleanupGivesUp, Resume
    <3>3. CASE ForceKill(m)
      BY <3>3 DEF ForceKill
    <3>4. QED
      BY <1>5, <3>1, <3>2, <3>3 DEF CleanupStep
  <2>2. QED
    BY <1>1, <2>1 DEF IndInv
<1>6. ASSUME NEW m \in Managers,
             \/ StartSpawned(m) \/ StartFails(m) \/ RestartStep(m) \/ StopStep(m) \/ Capture(m)
             \/ ProcessExits(m) \/ SpawnError(m) \/ RestartDue(m) \/ StopAudio(m)
      PROVE  (cur <= used)'
  <2>1. UNCHANGED ipcVars
    BY <1>6 DEF StartSpawned, StartFails, RestartStep, RestartSpawned, RestartConnected,
      RestartOpened, RestartFails, StopStep, StopAnswered, StopUnanswered, StopKilled, Asked,
      Capture, ProcessExits, SpawnError, RestartDue, StopAudio
  <2>2. QED
    BY <2>1 DEF IndInv, ipcVars
<1>7. QED
  BY <1>2, <1>3, <1>4, <1>5, <1>6 DEF Next, StartStep

-----------------------------------------------------------------------------
(* Theorems *)

THEOREM AudioInvariant == Spec => []IndInv
<1>1. IndInv /\ [Next]_vars => IndInv'
  <2> SUFFICES ASSUME IndInv, [Next]_vars PROVE IndInv'
    OBVIOUS
  <2>1. TypeOK'
    BY TypeStep DEF IndInv
  <2>2. QED
    BY <2>1, CurStep, ManagerStep DEF IndInv
<1>2. QED
  BY InitInv, <1>1, PTL DEF Spec

\* The handles, the ownership and the restart timer of every AudioHelperManager tell the
\* truth about its process: a stop reaches it, it is the only one, and none is scheduled
\* beside it.
THEOREM HelpersHeld == Spec => []HelperInv
<1>1. IndInv => HelperInv
  BY DEF IndInv, ManagerInv, HelperInv, HandleKept, OneProcess, OwnerTrue, RestartSafe
<1>2. QED
  BY AudioInvariant, <1>1, PTL
=============================================================================
