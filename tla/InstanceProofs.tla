--------------------------- MODULE InstanceProofs ---------------------------
(***************************************************************************)
(* Proofs about Instance for every number of callers and processes, every  *)
(* crash limit and every window.                                           *)
(***************************************************************************)
EXTENDS Instance, FiniteSetTheorems, TLAPS

(* The struct describes process i exactly while i's waiter has not passed  *)
(* its first critical section, and only then can i live.                   *)
CurrentInv ==
    /\ \A i \in Incarnations : waiter[i] \in {"waiting", "exited"} <=> i = cmd
    /\ \A i \in Incarnations : Alive(i) => waiter[i] = "waiting"
    /\ cmd # NoProcess => exited = cmd

(* Nothing is known yet of the processes that were not launched. *)
FreshInv ==
    /\ \A i \in Incarnations : i > launched =>
          waiter[i] = "none" /\ i \notin asked /\ outcome[i] = "none"
    /\ cmd <= launched
    /\ doomed <= launched

(* The stopRequested flag says whether the current process was asked. *)
RequestInv ==
    /\ cmd # NoProcess => (stopRequested <=> cmd \in asked)
    /\ state = "stopping" => stopRequested
    /\ \A i \in Incarnations :
          outcome[i] # "none" => waiter[i] \notin {"none", "waiting", "exited"}

(* A caller only remembers processes somebody asked to stop. *)
SnapshotInv == \A t \in Callers : snap[t].pid # NoProcess => snap[t].pid \in asked

(* The shutdown goroutine waits for the process that was alive at its start. *)
ShutdownInv ==
    /\ panel = "up" => \A t \in Callers : op[t] # "shutdown"
    /\ \A t \in Callers :
          /\ op[t] = "shutdown"
          /\ pc[t] \notin {"idle", "enter"}
          /\ doomed # NoProcess
          /\ Alive(doomed)
          => snap[t].exited = doomed

IInv ==
    /\ TypeOK
    /\ CurrentInv
    /\ FreshInv
    /\ RequestInv
    /\ SnapshotInv
    /\ ShutdownInv
    /\ ExitClassified
    /\ KillsOnlyAsked
    /\ StopAllStops

(* Every crash that was granted a restart and is still inside the window   *)
(* is one the struct remembers.                                            *)
BudgetInv ==
    /\ TypeOK
    /\ \A i \in Incarnations : crashAt[i] <= now
    /\ \A i \in Incarnations : Granted(i) /\ InWindow(i) => i \in crashTimes
    /\ RestartBudget

-----------------------------------------------------------------------------
(* Every step of the module is one of these: the case split of the proofs. *)
LEMMA NextCases ==
    ASSUME [Next]_vars
    PROVE  \/ UserStart
           \/ Tick
           \/ \E i \in Incarnations :
                 \/ PrintDone(i) \/ ReadDone(i) \/ Exit(i)
                 \/ CloseExited(i) \/ SettleExit(i) \/ AccountCrash(i) \/ AutoRestart(i)
           \/ \E t \in Callers :
                 \/ EnterStopped(t) \/ JoinStop(t) \/ BeginStop(t) \/ WriteStop(t)
                 \/ SendTerm(t) \/ SendKill(t) \/ ExitSeen(t)
                 \/ BeginKill(t) \/ SignalKill(t) \/ Relaunch(t)
                 \/ \E o \in Ops \ {"none"} : Call(t, o)
           \/ UNCHANGED vars
  BY DEF Next, WaiterStep, CallerStep

(* The types hold when the panel starts. *)
LEMMA TypeInit == Init => TypeOK
  <1> SUFFICES ASSUME Init PROVE TypeOK
    OBVIOUS
  <1> USE InstanceAssumption DEF Init, MaybeProcess, NoProcess, Incarnations
  <1>1. StructOK
    BY DEF StructOK, States
  <1>2. ProcOK
    BY DEF ProcOK
  <1>3. GoOK
    BY DEF GoOK, WaiterStates
  <1>4. CallOK
    BY DEF CallOK, CallStates, Ops, Snapshots, NoSnapshot
  <1>5. HistOK
    BY DEF HistOK
  <1>6. stopRequested \in BOOLEAN
    OBVIOUS
  <1> HIDE DEF Init, MaybeProcess, NoProcess, Incarnations
  <1>7. QED
    BY <1>1, <1>2, <1>3, <1>4, <1>5, <1>6 DEF TypeOK

(* What Launch does to the types, whoever calls it: the waiter's next      *)
(* position is the caller's business.                                      *)
LEMMA LaunchTypes ==
    ASSUME TypeOK, Launch, UNCHANGED <<crashTimes, killed, now>>,
           UNCHANGED <<asked, outcome, doomed>>
    PROVE  StructOK' /\ stopRequested' \in BOOLEAN /\ ProcOK' /\ HistOK'
  <1> USE InstanceAssumption DEF Launch, TypeOK, MaybeProcess, NoProcess, Incarnations
  <1>1. StructOK'
    BY DEF StructOK, ProcOK, States
  <1>2. ProcOK'
    BY DEF ProcOK
  <1>3. HistOK'
    BY DEF HistOK
  <1>4. stopRequested' \in BOOLEAN
    BY DEF ResetRequest
  <1> HIDE DEF Launch, TypeOK, MaybeProcess, NoProcess, Incarnations
  <1>5. QED
    BY <1>1, <1>2, <1>3, <1>4

(* Every action keeps the types; Launch is handled by LaunchTypes.         *)
LEMMA TypeStep == TypeOK /\ [Next]_vars => TypeOK'
  <1> SUFFICES ASSUME TypeOK, [Next]_vars PROVE TypeOK'
    OBVIOUS
  <1> USE InstanceAssumption DEF TypeOK, StructOK, ProcOK, GoOK, CallOK,
          HistOK, States, WaiterStates, CallStates, Ops, Snapshots,
          NoSnapshot, MaybeProcess, NoProcess, Incarnations,
          structVars, procVars, goVars, callVars, histVars
  <1>1. CASE UserStart
    <2>1. GoOK' /\ CallOK'
      BY <1>1 DEF UserStart, Launch
    <2>2. QED
      BY <1>1, <2>1, LaunchTypes DEF UserStart
  <1>2. CASE Tick
    BY <1>2 DEF Tick
  <1>3. ASSUME NEW i \in Incarnations, PrintDone(i) PROVE TypeOK'
    BY <1>3 DEF PrintDone
  <1>4. ASSUME NEW i \in Incarnations, ReadDone(i) PROVE TypeOK'
    BY <1>4 DEF ReadDone, AfterReady
  <1>5. ASSUME NEW i \in Incarnations, Exit(i) PROVE TypeOK'
    BY <1>5 DEF Exit
  <1>6. ASSUME NEW i \in Incarnations, CloseExited(i) PROVE TypeOK'
    BY <1>6 DEF CloseExited
  <1>7. ASSUME NEW i \in Incarnations, SettleExit(i) PROVE TypeOK'
    BY <1>7 DEF SettleExit, ForgetProcess
  <1>8. ASSUME NEW i \in Incarnations, AccountCrash(i) PROVE TypeOK'
    BY <1>8 DEF AccountCrash, RecentCrashes
  <1>9. ASSUME NEW i \in Incarnations, AutoRestart(i) PROVE TypeOK'
    <2>1. GoOK' /\ CallOK'
      <3>1. waiter' \in [Incarnations -> WaiterStates]
        <4>1. \/ waiter' = [waiter EXCEPT ![i] = "fired", ![launched + 1] = "waiting"]
              \/ waiter' = [waiter EXCEPT ![i] = "fired"]
          BY <1>9 DEF AutoRestart
        <4>2. QED
          BY <4>1
      <3>2. UNCHANGED <<doneLine, crashAt, pc, op, snap, panel>>
        BY <1>9 DEF AutoRestart
      <3>3. QED
        BY <3>1, <3>2
    <2>2. CASE Launch
      <3>1. UNCHANGED <<crashTimes, killed, now, asked, outcome, doomed>>
        BY <1>9 DEF AutoRestart
      <3> HIDE DEF StructOK, ProcOK, HistOK
      <3>2. StructOK' /\ stopRequested' \in BOOLEAN /\ ProcOK' /\ HistOK'
        BY <2>2, <3>1, LaunchTypes
      <3>3. QED
        BY <2>1, <3>2
    <2>3. CASE NotLaunched
      BY <1>9, <2>1, <2>3 DEF AutoRestart, NotLaunched
    <2>4. Launch \/ NotLaunched
      BY <1>9 DEF AutoRestart
    <2>5. QED
      BY <2>2, <2>3, <2>4
  <1>10. ASSUME NEW t \in Callers, EnterStopped(t) PROVE TypeOK'
    BY <1>10 DEF EnterStopped, Return, Goto
  <1>11. ASSUME NEW t \in Callers, JoinStop(t) PROVE TypeOK'
    BY <1>11 DEF JoinStop, TakeSnapshot, Goto
  <1>12. ASSUME NEW t \in Callers, BeginStop(t) PROVE TypeOK'
    BY <1>12 DEF BeginStop, TakeSnapshot, Goto
  <1>13. ASSUME NEW t \in Callers, WriteStop(t) PROVE TypeOK'
    BY <1>13 DEF WriteStop, Goto
  <1>14. ASSUME NEW t \in Callers, SendTerm(t) PROVE TypeOK'
    BY <1>14 DEF SendTerm, Goto
  <1>15. ASSUME NEW t \in Callers, SendKill(t) PROVE TypeOK'
    BY <1>15 DEF SendKill, Kill9, Victim, Goto
  <1>16. ASSUME NEW t \in Callers, ExitSeen(t) PROVE TypeOK'
    BY <1>16 DEF ExitSeen, Return, Goto
  <1>17. ASSUME NEW t \in Callers, BeginKill(t) PROVE TypeOK'
    BY <1>17 DEF BeginKill, TakeSnapshot, Goto
  <1>18. ASSUME NEW t \in Callers, SignalKill(t) PROVE TypeOK'
    BY <1>18 DEF SignalKill, Kill9, Victim, Goto
  <1>19. ASSUME NEW t \in Callers, Relaunch(t) PROVE TypeOK'
    <2>1. GoOK' /\ CallOK'
      BY <1>19 DEF Relaunch, Launch, NotLaunched, Goto
    <2>2. CASE Launch
      BY <1>19, <2>1, <2>2, LaunchTypes DEF Relaunch
    <2>3. CASE NotLaunched
      BY <1>19, <2>1, <2>3 DEF Relaunch, NotLaunched
    <2>4. Launch \/ NotLaunched
      BY <1>19 DEF Relaunch
    <2>5. QED
      BY <2>2, <2>3, <2>4
  <1>20. ASSUME NEW t \in Callers, NEW o \in Ops \ {"none"}, Call(t, o) PROVE TypeOK'
    BY <1>20 DEF Call, Goto
  <1>21. CASE UNCHANGED vars
    BY <1>21 DEF vars
  <1> HIDE DEF TypeOK, StructOK, ProcOK, GoOK, CallOK, HistOK, States,
     WaiterStates, CallStates, Ops, Snapshots, NoSnapshot, MaybeProcess,
     NoProcess, Incarnations, structVars, procVars, goVars, callVars, histVars
  <1>22. QED
    BY <1>1, <1>2, <1>3, <1>4, <1>5, <1>6, <1>7, <1>8, <1>9, <1>10, <1>11, <1>12,
       <1>13, <1>14, <1>15, <1>16, <1>17, <1>18, <1>19, <1>20, <1>21, NextCases

(* Every variable keeps its type, and in.cmd is nil exactly when the state *)
(* is "stopped", for any number of callers and of processes.               *)
THEOREM TypeCorrect == Spec => []TypeOK
  BY TypeInit, TypeStep, PTL DEF Spec

-----------------------------------------------------------------------------
(* The panel starts with nothing launched and nobody calling. *)
LEMMA InvInit == Init => IInv
  <1> SUFFICES ASSUME Init PROVE IInv
    OBVIOUS
  <1> USE InstanceAssumption DEF Init, NoProcess, Incarnations, Alive
  <1>1. CurrentInv /\ FreshInv
    BY DEF CurrentInv, FreshInv
  <1>2. RequestInv /\ SnapshotInv /\ ShutdownInv
    BY DEF RequestInv, SnapshotInv, ShutdownInv, NoSnapshot
  <1>3. ExitClassified /\ KillsOnlyAsked /\ StopAllStops
    BY DEF ExitClassified, KillsOnlyAsked, StopAllStops
  <1> HIDE DEF Init, NoProcess, Incarnations, Alive
  <1>4. QED
    BY <1>1, <1>2, <1>3, TypeInit DEF IInv

(* How a waiter may move in a step that launches the next process, or none. *)
WaitersLaunch ==
    /\ waiter'[launched + 1] = "waiting"
    /\ \A j \in Incarnations \ {launched + 1} :
          waiter'[j] = waiter[j] \/ (waiter[j] = "sleeping" /\ waiter'[j] = "fired")

WaitersRest ==
    \A j \in Incarnations :
        \/ waiter'[j] = waiter[j]
        \/ /\ waiter[j] \in {"crashed", "sleeping"}
           /\ waiter'[j] \in {"sleeping", "fired", "gaveup"}

(* The invariant survives a launch, whoever launches. *)
LEMMA LaunchStep ==
    ASSUME IInv, TypeOK', Launch, WaitersLaunch,
           UNCHANGED <<killed, asked, outcome, doomed, snap, panel>>,
           \A t \in Callers : op'[t] = "shutdown" =>
               /\ op[t] = "shutdown"
               /\ pc'[t] \notin {"idle", "enter"} => pc[t] \notin {"idle", "enter"}
    PROVE  IInv'
  <1> USE InstanceAssumption DEF Incarnations, NoProcess, IInv, Alive
  <1>1. /\ launched + 1 \in Incarnations
        /\ launched' = launched + 1
        /\ cmd' = launched + 1
        /\ exited' = launched + 1
        /\ launched \in Nat
        /\ cmd = NoProcess
        /\ state' = "starting"
        /\ \A j \in Incarnations : j # launched + 1 => proc'[j] = proc[j]
    BY DEF Launch, MayStart, TypeOK, StructOK, ProcOK
  <1>2. CurrentInv'
    BY <1>1 DEF CurrentInv, WaitersLaunch
  <1>3. FreshInv'
    BY <1>1 DEF FreshInv, WaitersLaunch, TypeOK, HistOK, MaybeProcess
  <1>4. ~stopRequested'
    BY DEF Launch, ResetRequest
  <1>5. RequestInv'
    BY <1>1, <1>4 DEF RequestInv, FreshInv, WaitersLaunch
  <1>6. SnapshotInv' /\ ExitClassified' /\ KillsOnlyAsked'
    BY DEF SnapshotInv, ExitClassified, KillsOnlyAsked
  <1>7. ShutdownInv' /\ StopAllStops'
    BY <1>1 DEF ShutdownInv, StopAllStops, FreshInv, TypeOK, HistOK, MaybeProcess
  <1> HIDE DEF Incarnations, NoProcess, Alive
  <1>8. QED
    BY <1>2, <1>3, <1>5, <1>6, <1>7

(* It survives a step that only moves waiters that are past the exit. *)
LEMMA RestStep ==
    ASSUME IInv, TypeOK', WaitersRest,
           UNCHANGED <<state, cmd, exited, stopRequested, launched, proc, killed,
                       asked, outcome, doomed, snap, panel>>,
           \A t \in Callers : op'[t] = "shutdown" =>
               /\ op[t] = "shutdown"
               /\ pc'[t] \notin {"idle", "enter"} => pc[t] \notin {"idle", "enter"}
    PROVE  IInv'
  <1> USE DEF IInv, Alive
  <1>1. CurrentInv'
    BY DEF CurrentInv, WaitersRest
  <1>2. FreshInv'
    BY DEF FreshInv, WaitersRest
  <1>3. RequestInv'
    BY DEF RequestInv, WaitersRest
  <1>4. SnapshotInv' /\ ExitClassified' /\ KillsOnlyAsked'
    BY DEF SnapshotInv, ExitClassified, KillsOnlyAsked
  <1>5. ShutdownInv' /\ StopAllStops'
    BY DEF ShutdownInv, StopAllStops
  <1> HIDE DEF Alive
  <1>6. QED
    BY <1>1, <1>2, <1>3, <1>4, <1>5

(* Every action keeps the invariant.                                       *)
LEMMA InvStep == IInv /\ [Next]_vars => IInv'
  <1> SUFFICES ASSUME IInv, [Next]_vars PROVE IInv'
    OBVIOUS
  <1>0. TypeOK'
    BY TypeStep DEF IInv
  <1> USE InstanceAssumption DEF Incarnations, NoProcess,
          structVars, procVars, goVars, callVars, histVars
  <1>1. CASE UserStart
    <2>1. WaitersLaunch
      BY <1>1 DEF UserStart, Launch, WaitersLaunch, IInv, TypeOK, GoOK
    <2>2. QED
      BY <1>0, <1>1, <2>1, LaunchStep DEF UserStart
  <1>2. CASE Tick
    BY <1>0, <1>2, RestStep DEF Tick, WaitersRest
  <1>3. ASSUME NEW i \in Incarnations, PrintDone(i) PROVE IInv'
    BY <1>0, <1>3, RestStep DEF PrintDone, WaitersRest
  <1>4. ASSUME NEW i \in Incarnations, ReadDone(i) PROVE IInv'
    <2>1. CurrentInv' /\ FreshInv'
      BY <1>4 DEF ReadDone, AfterReady, IInv, CurrentInv, FreshInv, Alive
    <2>2. RequestInv' /\ SnapshotInv' /\ ShutdownInv'
      BY <1>4 DEF ReadDone, AfterReady, IInv, RequestInv, SnapshotInv, ShutdownInv, Alive
    <2>3. ExitClassified' /\ KillsOnlyAsked' /\ StopAllStops'
      BY <1>4 DEF ReadDone, IInv, ExitClassified, KillsOnlyAsked, StopAllStops, Alive
    <2>4. QED
      BY <1>0, <2>1, <2>2, <2>3 DEF IInv
  <1>5. ASSUME NEW i \in Incarnations, Exit(i) PROVE IInv'
    <2>1. \A j \in Incarnations : Alive(j)' => Alive(j)
      BY <1>5 DEF Exit, Alive, IInv, TypeOK, ProcOK
    <2>2. CurrentInv' /\ FreshInv'
      BY <1>5, <2>1 DEF Exit, IInv, CurrentInv, FreshInv
    <2>3. RequestInv' /\ SnapshotInv' /\ ExitClassified' /\ KillsOnlyAsked'
      BY <1>5 DEF Exit, IInv, RequestInv, SnapshotInv, ExitClassified, KillsOnlyAsked
    <2>4. ShutdownInv' /\ StopAllStops'
      BY <1>5, <2>1 DEF Exit, IInv, ShutdownInv, StopAllStops, TypeOK, HistOK, MaybeProcess
    <2>5. QED
      BY <1>0, <2>2, <2>3, <2>4 DEF IInv
  <1>6. ASSUME NEW i \in Incarnations, CloseExited(i) PROVE IInv'
    <2>1. \A j \in Incarnations : j # i => waiter'[j] = waiter[j]
      BY <1>6 DEF CloseExited, IInv, TypeOK, GoOK
    <2>2. waiter[i] = "waiting" /\ waiter'[i] = "exited" /\ ~Alive(i)
      BY <1>6 DEF CloseExited, Alive, IInv, TypeOK, GoOK
    <2>3. CurrentInv' /\ FreshInv'
      BY <1>6, <2>1, <2>2 DEF CloseExited, IInv, CurrentInv, FreshInv, Alive
    <2>4. RequestInv'
      BY <1>6, <2>1, <2>2 DEF CloseExited, IInv, RequestInv
    <2>5. SnapshotInv' /\ ShutdownInv' /\ ExitClassified' /\ KillsOnlyAsked' /\ StopAllStops'
      BY <1>6 DEF CloseExited, IInv, SnapshotInv, ShutdownInv, ExitClassified,
         KillsOnlyAsked, StopAllStops, Alive
    <2>6. QED
      BY <1>0, <2>3, <2>4, <2>5 DEF IInv
  <1>7. ASSUME NEW i \in Incarnations, SettleExit(i) PROVE IInv'
    <2>1. \A j \in Incarnations : j # i => waiter'[j] = waiter[j] /\ outcome'[j] = outcome[j]
      BY <1>7 DEF SettleExit, IInv, TypeOK, GoOK, HistOK
    <2>2. /\ waiter[i] = "exited"
          /\ waiter'[i] \in {"crashed", "done"}
          /\ outcome'[i] = IF stopRequested THEN "stop" ELSE "crash"
      BY <1>7 DEF SettleExit, IInv, TypeOK, GoOK, HistOK
    <2>3. cmd = i /\ cmd' = NoProcess /\ state' = "stopped"
      BY <1>7, <2>2 DEF SettleExit, ForgetProcess, IInv, CurrentInv
    <2>4. CurrentInv'
      BY <1>7, <2>1, <2>2, <2>3 DEF SettleExit, IInv, CurrentInv, Alive
    <2>5. FreshInv'
      BY <1>7, <2>1, <2>2, <2>3 DEF SettleExit, IInv, FreshInv, TypeOK, ProcOK
    <2>6. RequestInv'
      BY <1>7, <2>1, <2>2, <2>3 DEF SettleExit, IInv, RequestInv
    <2>7. ExitClassified'
      BY <1>7, <2>1, <2>2, <2>3 DEF SettleExit, IInv, RequestInv, ExitClassified
    <2>8. SnapshotInv' /\ ShutdownInv' /\ KillsOnlyAsked' /\ StopAllStops'
      BY <1>7 DEF SettleExit, IInv, SnapshotInv, ShutdownInv, KillsOnlyAsked,
         StopAllStops, Alive
    <2>9. QED
      BY <1>0, <2>4, <2>5, <2>6, <2>7, <2>8 DEF IInv
  <1>8. ASSUME NEW i \in Incarnations, AccountCrash(i) PROVE IInv'
    <2>1. WaitersRest
      BY <1>8 DEF AccountCrash, WaitersRest, IInv, TypeOK, GoOK
    <2>2. QED
      BY <1>0, <1>8, <2>1, RestStep DEF AccountCrash
  <1>9. ASSUME NEW i \in Incarnations, AutoRestart(i) PROVE IInv'
    <2>1. CASE Launch /\ WaitersLaunch
      BY <1>0, <1>9, <2>1, LaunchStep DEF AutoRestart
    <2>2. CASE NotLaunched /\ WaitersRest
      BY <1>0, <1>9, <2>2, RestStep DEF AutoRestart, NotLaunched
    <2>3. (Launch /\ WaitersLaunch) \/ (NotLaunched /\ WaitersRest)
      <3>1. CASE /\ Launch
                 /\ waiter' = [waiter EXCEPT ![i] = "fired", ![launched + 1] = "waiting"]
        BY <1>9, <3>1 DEF AutoRestart, Launch, WaitersLaunch, IInv, TypeOK, GoOK
      <3>2. CASE NotLaunched /\ waiter' = [waiter EXCEPT ![i] = "fired"]
        BY <1>9, <3>2 DEF AutoRestart, WaitersRest, IInv, TypeOK, GoOK
      <3>3. QED
        BY <1>9, <3>1, <3>2 DEF AutoRestart
    <2>4. QED
      BY <2>1, <2>2, <2>3
  <1>10. ASSUME NEW t \in Callers, EnterStopped(t) PROVE IInv'
    <2>1. \A j \in Incarnations : ~Alive(j)
      BY <1>10 DEF EnterStopped, IInv, CurrentInv, TypeOK, StructOK, MaybeProcess
    <2>2. SnapshotInv'
      BY <1>10 DEF EnterStopped, Return, NoSnapshot, IInv, SnapshotInv, TypeOK, CallOK
    <2>3. ShutdownInv'
      BY <1>10, <2>1 DEF EnterStopped, Return, Goto, IInv, ShutdownInv, TypeOK, CallOK,
         HistOK, MaybeProcess, Alive
    <2>4. StopAllStops'
      BY <1>10, <2>1 DEF EnterStopped, Return, StopAllStops, IInv, TypeOK, HistOK,
         MaybeProcess, Alive
    <2>5. CurrentInv' /\ FreshInv' /\ RequestInv' /\ ExitClassified' /\ KillsOnlyAsked'
      BY <1>10 DEF EnterStopped, IInv, CurrentInv, FreshInv, RequestInv, ExitClassified,
         KillsOnlyAsked, Alive
    <2>6. QED
      BY <1>0, <2>2, <2>3, <2>4, <2>5 DEF IInv
  <1>11. ASSUME NEW t \in Callers, JoinStop(t) PROVE IInv'
    <2>1. cmd # NoProcess /\ exited = cmd /\ cmd \in asked
      BY <1>11 DEF JoinStop, IInv, CurrentInv, RequestInv, TypeOK, StructOK
    <2>2. SnapshotInv'
      BY <1>11, <2>1 DEF JoinStop, TakeSnapshot, IInv, SnapshotInv, TypeOK, CallOK
    <2>3. ShutdownInv'
      BY <1>11, <2>1 DEF JoinStop, TakeSnapshot, Goto, IInv, ShutdownInv, CurrentInv,
         TypeOK, CallOK, HistOK, MaybeProcess, Alive
    <2>4. CurrentInv' /\ FreshInv' /\ RequestInv'
      BY <1>11 DEF JoinStop, IInv, CurrentInv, FreshInv, RequestInv, Alive
    <2>5. ExitClassified' /\ KillsOnlyAsked' /\ StopAllStops'
      BY <1>11 DEF JoinStop, IInv, ExitClassified, KillsOnlyAsked, StopAllStops, Alive
    <2>6. QED
      BY <1>0, <2>2, <2>3, <2>4, <2>5 DEF IInv
  <1>12. ASSUME NEW t \in Callers, BeginStop(t) PROVE IInv'
    <2>1. /\ cmd \in Incarnations /\ exited = cmd
          /\ waiter[cmd] \in {"waiting", "exited"} /\ outcome[cmd] = "none"
      BY <1>12 DEF BeginStop, IInv, CurrentInv, RequestInv, TypeOK, StructOK, MaybeProcess
    <2>2. SnapshotInv'
      BY <1>12, <2>1 DEF BeginStop, TakeSnapshot, IInv, SnapshotInv, TypeOK, CallOK
    <2>3. ShutdownInv'
      BY <1>12, <2>1 DEF BeginStop, TakeSnapshot, Goto, IInv, ShutdownInv, CurrentInv,
         TypeOK, CallOK, HistOK, MaybeProcess, Alive
    <2>4. CurrentInv' /\ FreshInv' /\ RequestInv'
      BY <1>12, <2>1 DEF BeginStop, IInv, CurrentInv, FreshInv, RequestInv, Alive
    <2>5. ExitClassified' /\ KillsOnlyAsked' /\ StopAllStops'
      BY <1>12, <2>1 DEF BeginStop, IInv, ExitClassified, KillsOnlyAsked, StopAllStops, Alive
    <2>6. QED
      BY <1>0, <2>2, <2>3, <2>4, <2>5 DEF IInv
  <1>13. ASSUME NEW t \in Callers, WriteStop(t) PROVE IInv'
    <2>1. \A u \in Callers : pc'[u] \notin {"idle", "enter"} => pc[u] \notin {"idle", "enter"}
      BY <1>13 DEF WriteStop, Goto, IInv, TypeOK, CallOK
    <2>2. QED
      BY <1>0, <1>13, <2>1, RestStep DEF WriteStop, WaitersRest
  <1>14. ASSUME NEW t \in Callers, SendTerm(t) PROVE IInv'
    <2>1. \A u \in Callers : pc'[u] \notin {"idle", "enter"} => pc[u] \notin {"idle", "enter"}
      BY <1>14 DEF SendTerm, Goto, IInv, TypeOK, CallOK
    <2>2. QED
      BY <1>0, <1>14, <2>1, RestStep DEF SendTerm, WaitersRest
  <1>15. ASSUME NEW t \in Callers, SendKill(t) \/ SignalKill(t) PROVE IInv'
    <2>1. \A u \in Callers : pc'[u] \notin {"idle", "enter"} => pc[u] \notin {"idle", "enter"}
      BY <1>15 DEF SendKill, SignalKill, Goto, IInv, TypeOK, CallOK
    <2>2. KillsOnlyAsked'
      BY <1>15 DEF SendKill, SignalKill, Kill9, Victim, IInv, KillsOnlyAsked, SnapshotInv
    <2>3. CurrentInv' /\ FreshInv' /\ RequestInv' /\ SnapshotInv' /\ ExitClassified'
      BY <1>15 DEF SendKill, SignalKill, IInv, CurrentInv, FreshInv, RequestInv,
         SnapshotInv, ExitClassified, Alive
    <2>4. ShutdownInv' /\ StopAllStops'
      BY <1>15, <2>1 DEF SendKill, SignalKill, IInv, ShutdownInv, StopAllStops, Alive
    <2>5. QED
      BY <1>0, <2>2, <2>3, <2>4 DEF IInv
  <1>16. ASSUME NEW t \in Callers, ExitSeen(t) PROVE IInv'
    <2>1. op[t] = "shutdown" /\ doomed # NoProcess => ~Alive(doomed)
      BY <1>16 DEF ExitSeen, Waiting, Released, Closed, IInv, ShutdownInv, CurrentInv,
         TypeOK, HistOK, MaybeProcess
    <2>2. SnapshotInv'
      BY <1>16 DEF ExitSeen, Return, NoSnapshot, IInv, SnapshotInv, TypeOK, CallOK
    <2>3. \A u \in Callers : op'[u] = "shutdown" => u # t /\ op[u] = "shutdown"
      BY <1>16 DEF ExitSeen, Return, IInv, TypeOK, CallOK
    <2>4. \A u \in Callers : u # t => pc'[u] = pc[u] /\ snap'[u] = snap[u]
      BY <1>16 DEF ExitSeen, Return, Goto, IInv, TypeOK, CallOK
    <2>5. panel' = "up" => panel = "up"
      BY <1>16 DEF ExitSeen, Return
    <2>6. ShutdownInv'
      BY <1>16, <2>3, <2>4, <2>5 DEF ExitSeen, IInv, ShutdownInv, Alive
    <2>7. StopAllStops'
      BY <1>16, <2>1 DEF ExitSeen, Return, IInv, StopAllStops, Alive
    <2>8. CurrentInv' /\ FreshInv' /\ RequestInv' /\ ExitClassified' /\ KillsOnlyAsked'
      BY <1>16 DEF ExitSeen, IInv, CurrentInv, FreshInv, RequestInv, ExitClassified,
         KillsOnlyAsked, Alive
    <2>9. QED
      BY <1>0, <2>2, <2>6, <2>7, <2>8 DEF IInv
  <1>17. ASSUME NEW t \in Callers, BeginKill(t) PROVE IInv'
    <2>1. /\ cmd \in Incarnations /\ exited = cmd
          /\ waiter[cmd] \in {"waiting", "exited"} /\ outcome[cmd] = "none"
      BY <1>17 DEF BeginKill, IInv, CurrentInv, RequestInv, TypeOK, StructOK, MaybeProcess
    <2>2. SnapshotInv'
      BY <1>17, <2>1 DEF BeginKill, TakeSnapshot, IInv, SnapshotInv, TypeOK, CallOK
    <2>3. ShutdownInv'
      BY <1>17 DEF BeginKill, TakeSnapshot, Goto, IInv, ShutdownInv, TypeOK, CallOK, Alive
    <2>4. CurrentInv' /\ FreshInv' /\ RequestInv'
      BY <1>17, <2>1 DEF BeginKill, IInv, CurrentInv, FreshInv, RequestInv, Alive
    <2>5. ExitClassified' /\ KillsOnlyAsked' /\ StopAllStops'
      BY <1>17, <2>1 DEF BeginKill, IInv, ExitClassified, KillsOnlyAsked, StopAllStops, Alive
    <2>6. QED
      BY <1>0, <2>2, <2>3, <2>4, <2>5 DEF IInv
  <1>18. ASSUME NEW t \in Callers, Relaunch(t) PROVE IInv'
    <2>1. \A u \in Callers : op'[u] = "shutdown" => op[u] = "shutdown" /\ pc'[u] = pc[u]
      BY <1>18 DEF Relaunch, Goto, IInv, TypeOK, CallOK
    <2>2. CASE Launch /\ waiter' = [waiter EXCEPT ![launched + 1] = "waiting"]
      <3>1. WaitersLaunch
        BY <2>2 DEF Launch, WaitersLaunch, IInv, TypeOK, GoOK
      <3>2. QED
        BY <1>0, <1>18, <2>1, <2>2, <3>1, LaunchStep DEF Relaunch
    <2>3. CASE NotLaunched /\ UNCHANGED waiter
      BY <1>0, <1>18, <2>1, <2>3, RestStep DEF Relaunch, NotLaunched, WaitersRest
    <2>4. QED
      BY <1>18, <2>2, <2>3 DEF Relaunch
  <1>19. ASSUME NEW t \in Callers, NEW o \in Ops \ {"none"}, Call(t, o) PROVE IInv'
    <2>1. \A u \in Callers : u # t => op'[u] = op[u] /\ pc'[u] = pc[u]
      BY <1>19 DEF Call, Goto, IInv, TypeOK, CallOK
    <2>2. op'[t] = o /\ pc'[t] \in {"enter", "relaunch", "await"}
      BY <1>19 DEF Call, Goto, IInv, TypeOK, CallOK
    <2>3. CASE o = "shutdown"
      <3>1. /\ \A u \in Callers : u # t => op'[u] # "shutdown"
            /\ panel' = "stopping" /\ doomed' = cmd
        BY <1>19, <2>1, <2>3 DEF Call, IInv, ShutdownInv
      <3>2. doomed' # NoProcess => pc'[t] = "enter"
        BY <1>19, <2>3, <3>1 DEF Call, Goto, IInv, TypeOK, StructOK, CallOK
      <3>3. ShutdownInv' /\ StopAllStops'
        BY <3>1, <3>2 DEF ShutdownInv, StopAllStops
      <3>4. FreshInv'
        BY <1>19, <3>1 DEF Call, IInv, FreshInv
      <3>5. QED
        BY <1>0, <1>19, <3>3, <3>4 DEF Call, IInv, CurrentInv, RequestInv, SnapshotInv,
           ExitClassified, KillsOnlyAsked, Alive
    <2>4. CASE o # "shutdown"
      BY <1>0, <1>19, <2>1, <2>2, <2>4, RestStep DEF Call, WaitersRest
    <2>5. QED
      BY <2>3, <2>4
  <1>20. CASE UNCHANGED vars
    BY <1>0, <1>20, RestStep DEF vars, WaitersRest
  <1> HIDE DEF Incarnations, NoProcess, structVars, procVars, goVars,
     callVars, histVars
  <1>21. QED
    BY <1>1, <1>2, <1>3, <1>4, <1>5, <1>6, <1>7, <1>8, <1>9, <1>10, <1>11, <1>12,
       <1>13, <1>14, <1>15, <1>16, <1>17, <1>18, <1>19, <1>20, NextCases

(* So the invariant holds in every reachable state. *)
LEMMA InvHolds == Spec => []IInv
  BY InvInit, InvStep, PTL DEF Spec

(* At most one process of the server lives, and it is the one the struct   *)
(* describes, whatever callers, crashes and restart timers do.             *)
THEOREM SingleProcess == Spec => []OneProcess
  <1>1. IInv => OneProcess
    BY DEF IInv, CurrentInv, OneProcess, TypeOK, StructOK, Incarnations, NoProcess
  <1>2. QED
    BY <1>1, InvHolds, PTL

(* A stop request is neither forgotten nor inherited: the event reported   *)
(* for an exit is "stop" exactly when that process was asked to stop.      *)
THEOREM ExitsClassified == Spec => []ExitClassified
  <1>1. IInv => ExitClassified
    BY DEF IInv
  <1>2. QED
    BY <1>1, InvHolds, PTL

(* SIGKILL never reaches a process nobody asked to stop. *)
THEOREM KillsAreAsked == Spec => []KillsOnlyAsked
  <1>1. IInv => KillsOnlyAsked
    BY DEF IInv
  <1>2. QED
    BY <1>1, InvHolds, PTL

(* The process StopAll found alive is gone when the panel exits. *)
THEOREM ShutdownStops == Spec => []StopAllStops
  <1>1. IInv => StopAllStops
    BY DEF IInv
  <1>2. QED
    BY <1>1, InvHolds, PTL

-----------------------------------------------------------------------------
(* Refinement of ServerLifecycle. *)

SomeAlive == \E i \in Incarnations : Alive(i)

(* The guard of Launch implies the one of ServerLifecycle!Launch. *)
LEMMA NoneAliveWhenStopped ==
    ASSUME IInv, state = "stopped"
    PROVE  ~SomeAlive
  BY DEF IInv, CurrentInv, TypeOK, StructOK, Incarnations, NoProcess, SomeAlive

(* A launch, by hand or automatic, is one abstract launch. *)
LEMMA LaunchMaps ==
    ASSUME IInv, Launch
    PROVE  Life!Launch
  <1> USE InstanceAssumption DEF Incarnations, Alive, SomeAlive
  <1>1. state = "stopped" /\ state' = "starting"
    BY DEF Launch, MayStart
  <1>2. ~SomeAlive
    BY <1>1, NoneAliveWhenStopped
  <1>3. SomeAlive'
    BY DEF Launch, IInv, TypeOK, ProcOK
  <1>4. QED
    BY <1>1, <1>2, <1>3 DEF Life!Launch

(* A step that leaves the state and the processes alone is a stutter. *)
LEMMA QuietMaps ==
    ASSUME UNCHANGED <<state, proc>>
    PROVE  UNCHANGED Life!lifeVars
  BY DEF Life!lifeVars, Alive

(* Every step is an abstract step or a stutter. *)
LEMMA StepMaps ==
    ASSUME IInv, [Next]_vars
    PROVE  [Life!Next]_(Life!lifeVars)
  <1> USE DEF structVars, procVars, goVars, callVars, histVars
  <1>1. CASE UserStart
    BY <1>1, LaunchMaps DEF UserStart, Life!Next
  <1>2. CASE Tick
    BY <1>2, QuietMaps DEF Tick
  <1>3. ASSUME NEW i \in Incarnations, PrintDone(i) \/ CloseExited(i) \/ AccountCrash(i)
        PROVE  [Life!Next]_(Life!lifeVars)
    BY <1>3, QuietMaps DEF PrintDone, CloseExited, AccountCrash
  <1>4. ASSUME NEW i \in Incarnations, ReadDone(i) PROVE [Life!Next]_(Life!lifeVars)
    <2>1. CASE state = "starting"
      BY <1>4, <2>1 DEF ReadDone, AfterReady, Alive, Life!Next, Life!BecomeReady
    <2>2. CASE state # "starting"
      BY <1>4, <2>2, QuietMaps DEF ReadDone, AfterReady
    <2>3. QED
      BY <2>1, <2>2
  <1>5. ASSUME NEW i \in Incarnations, Exit(i) PROVE [Life!Next]_(Life!lifeVars)
    <2>1. SomeAlive
      BY <1>5 DEF Exit, SomeAlive, Alive
    <2>2. \A j \in Incarnations : Alive(j) => j = i
      BY <1>5 DEF Exit, Alive, IInv, CurrentInv
    <2>3. ~SomeAlive'
      BY <1>5, <2>2 DEF Exit, SomeAlive, Alive, IInv, TypeOK, ProcOK
    <2>4. QED
      BY <1>5, <2>1, <2>3 DEF Exit, SomeAlive, Life!Next, Life!Die
  <1>6. ASSUME NEW i \in Incarnations, SettleExit(i) PROVE [Life!Next]_(Life!lifeVars)
    <2>1. cmd = i /\ state # "stopped"
      BY <1>6 DEF SettleExit, IInv, CurrentInv, TypeOK, StructOK, Incarnations, NoProcess
    <2>2. ~SomeAlive
      BY <1>6, <2>1 DEF SettleExit, SomeAlive, Alive, IInv, CurrentInv
    <2>3. ~SomeAlive'
      BY <1>6, <2>2 DEF SettleExit, SomeAlive, Alive
    <2>4. QED
      BY <1>6, <2>1, <2>2, <2>3 DEF SettleExit, SomeAlive, Life!Next, Life!Settle
  <1>7. ASSUME NEW i \in Incarnations, AutoRestart(i) PROVE [Life!Next]_(Life!lifeVars)
    BY <1>7, LaunchMaps, QuietMaps DEF AutoRestart, NotLaunched, Life!Next
  <1>8. ASSUME NEW t \in Callers,
               \/ EnterStopped(t) \/ JoinStop(t) \/ WriteStop(t) \/ SendTerm(t)
               \/ SendKill(t) \/ ExitSeen(t) \/ BeginKill(t) \/ SignalKill(t)
               \/ \E o \in Ops \ {"none"} : Call(t, o)
        PROVE  [Life!Next]_(Life!lifeVars)
    BY <1>8, QuietMaps DEF EnterStopped, JoinStop, WriteStop, SendTerm, SendKill, ExitSeen,
       BeginKill, SignalKill, Call
  <1>9. ASSUME NEW t \in Callers, BeginStop(t) PROVE [Life!Next]_(Life!lifeVars)
    BY <1>9 DEF BeginStop, Alive, Life!Next, Life!BeginStop
  <1>10. ASSUME NEW t \in Callers, Relaunch(t) PROVE [Life!Next]_(Life!lifeVars)
    BY <1>10, LaunchMaps, QuietMaps DEF Relaunch, NotLaunched, Life!Next
  <1>11. CASE UNCHANGED vars
    BY <1>11, QuietMaps DEF vars
  <1> HIDE DEF structVars, procVars, goVars, callVars, histVars
  <1>12. QED
    BY <1>1, <1>2, <1>3, <1>4, <1>5, <1>6, <1>7, <1>8, <1>9, <1>10, <1>11, NextCases

(* The panel's status implements the abstract life cycle: it launches only *)
(* when nothing lives, and says "stopped" only once the process is gone.   *)
THEOREM ImplementsLifecycle == Spec => Lifecycle
  <1>1. Init => Life!Init
    BY DEF Init, Life!Init, Alive
  <1>2. QED
    BY <1>1, StepMaps, InvHolds, PTL DEF Spec, Lifecycle, Life!Spec

-----------------------------------------------------------------------------
(* The crash limiter. *)

(* No crash is granted anything before the first one. *)
LEMMA BudgetInit == Init => BudgetInv
  <1> SUFFICES ASSUME Init PROVE BudgetInv
    OBVIOUS
  <1>1. \A i \in Incarnations : ~Granted(i) /\ crashAt[i] = 0 /\ now = 0
    BY DEF Init, Granted
  <1>2. \A t \in 0 .. MaxTime : GrantedIn(t) = {}
    BY <1>1 DEF GrantedIn
  <1>3. RestartBudget
    BY <1>2, FS_EmptySet, InstanceAssumption DEF RestartBudget
  <1>4. QED
    BY <1>1, <1>3, TypeInit DEF BudgetInv

(* Sets of processes are finite, so their sizes compare. *)
LEMMA GrantedFinite ==
    ASSUME NEW S \in SUBSET Incarnations
    PROVE  IsFiniteSet(S) /\ Cardinality(S) \in Nat
  <1>1. IsFiniteSet(Incarnations)
    BY FS_Interval, InstanceAssumption DEF Incarnations
  <1>2. IsFiniteSet(S)
    BY <1>1, FS_Subset
  <1>3. QED
    BY <1>2, FS_CardinalityType

(* A step that grants nothing new and leaves the crash times alone keeps   *)
(* every window's count.                                                   *)
LEMMA BudgetKept ==
    ASSUME BudgetInv, UNCHANGED crashAt,
           \A i \in Incarnations : Granted(i)' => Granted(i)
    PROVE  RestartBudget'
  <1> SUFFICES ASSUME NEW t \in 0 .. MaxTime
               PROVE  Cardinality(GrantedIn(t)') <= CrashLimit
    BY DEF RestartBudget
  <1>1. GrantedIn(t)' \subseteq GrantedIn(t)
    BY DEF GrantedIn
  <1>2. GrantedIn(t) \in SUBSET Incarnations /\ GrantedIn(t)' \in SUBSET Incarnations
    BY DEF GrantedIn
  <1>3. Cardinality(GrantedIn(t)) <= CrashLimit
    BY DEF BudgetInv, RestartBudget
  <1>4. Cardinality(GrantedIn(t)') <= Cardinality(GrantedIn(t))
    BY <1>1, <1>2, GrantedFinite, FS_Subset
  <1>5. Cardinality(GrantedIn(t)') \in Nat /\ Cardinality(GrantedIn(t)) \in Nat
    BY <1>2, GrantedFinite
  <1>6. QED
    BY <1>3, <1>4, <1>5, InstanceAssumption

(* Steps that account no crash and let no time pass.                       *)
LEMMA BudgetFrame ==
    ASSUME BudgetInv, TypeOK', UNCHANGED <<crashAt, crashTimes, now>>,
           \A i \in Incarnations : Granted(i)' => Granted(i)
    PROVE  BudgetInv'
  <1>1. RestartBudget'
    BY BudgetKept
  <1>2. QED
    BY <1>1 DEF BudgetInv, InWindow

(* Only AccountCrash grants, and it counts the whole window first.         *)
LEMMA BudgetStep == BudgetInv /\ IInv /\ [Next]_vars => BudgetInv'
  <1> SUFFICES ASSUME BudgetInv, IInv, [Next]_vars PROVE BudgetInv'
    OBVIOUS
  <1>0. TypeOK'
    BY TypeStep DEF BudgetInv
  <1> USE DEF structVars, procVars, goVars, callVars, histVars
  <1>1. ASSUME WaitersLaunch, UNCHANGED <<crashAt, crashTimes, now>>,
               launched + 1 \in Incarnations
        PROVE  BudgetInv'
    <2>1. \A i \in Incarnations : Granted(i)' => Granted(i)
      BY <1>1 DEF WaitersLaunch, Granted
    <2>2. QED
      BY <1>0, <1>1, <2>1, BudgetFrame
  <1>2. ASSUME UNCHANGED <<waiter, crashAt, crashTimes, now>> PROVE BudgetInv'
    BY <1>0, <1>2, BudgetFrame DEF Granted
  <1>3. CASE UserStart
    BY <1>1, <1>3 DEF UserStart, Launch, WaitersLaunch, BudgetInv, TypeOK, GoOK
  <1>4. CASE Tick
    <2>1. now \in Nat /\ now' = now + 1
      BY <1>4 DEF Tick, BudgetInv, TypeOK, ProcOK
    <2>2. RestartBudget'
      BY <1>4, BudgetKept DEF Tick, Granted
    <2>3. \A i \in Incarnations : crashAt[i] \in Nat /\ crashAt[i] <= now
      BY InstanceAssumption DEF BudgetInv, TypeOK, GoOK
    <2>4. \A i \in Incarnations : InWindow(i)' => InWindow(i)
      BY <1>4, <2>1, <2>3, InstanceAssumption DEF Tick, InWindow
    <2>5. QED
      BY <1>0, <1>4, <2>1, <2>2, <2>3, <2>4 DEF Tick, BudgetInv, Granted
  <1>5. ASSUME NEW i \in Incarnations, PrintDone(i) \/ ReadDone(i) \/ Exit(i)
        PROVE  BudgetInv'
    BY <1>2, <1>5 DEF PrintDone, ReadDone, Exit
  <1>6. ASSUME NEW i \in Incarnations, CloseExited(i) \/ SettleExit(i) PROVE BudgetInv'
    <2>1. \A j \in Incarnations : Granted(j)' => Granted(j)
      BY <1>6 DEF CloseExited, SettleExit, Granted, BudgetInv, TypeOK, GoOK
    <2>2. QED
      BY <1>0, <1>6, <2>1, BudgetFrame DEF CloseExited, SettleExit
  <1>7. ASSUME NEW i \in Incarnations, AccountCrash(i) PROVE BudgetInv'
    <2>1. /\ now \in Nat /\ now' = now
          /\ crashAt'[i] = now /\ crashTimes' = RecentCrashes(i) /\ ~Granted(i)
          /\ \A j \in Incarnations : j # i => crashAt'[j] = crashAt[j] /\ waiter'[j] = waiter[j]
          /\ \A j \in Incarnations : crashAt[j] \in Nat /\ crashAt'[j] \in Nat
          /\ \A j \in Incarnations : crashAt[j] <= now /\ crashAt'[j] <= now
      BY <1>7 DEF AccountCrash, Granted, BudgetInv, TypeOK, GoOK, ProcOK
    <2>2. waiter'[i] = IF TooMany(RecentCrashes(i)) THEN "gaveup" ELSE "sleeping"
      BY <1>7 DEF AccountCrash, BudgetInv, TypeOK, GoOK
    <2>3. \A j \in Incarnations : (Granted(j) /\ InWindow(j))' => j \in crashTimes'
      BY <2>1 DEF BudgetInv, Granted, InWindow, RecentCrashes
    <2>4. ASSUME NEW t \in 0 .. MaxTime PROVE Cardinality(GrantedIn(t)') <= CrashLimit
      <3>1. CASE i \in GrantedIn(t)'
        <4>1. t \in Nat /\ now <= t /\ t - now < Window /\ Granted(i)'
          BY <2>1, <3>1 DEF GrantedIn
        <4>2. ~TooMany(RecentCrashes(i))
          BY <2>2, <4>1 DEF Granted
        <4>3. GrantedIn(t)' \subseteq RecentCrashes(i)
          <5> SUFFICES ASSUME NEW j \in GrantedIn(t)', j # i PROVE j \in RecentCrashes(i)
            BY DEF RecentCrashes
          <5>1. j \in Incarnations /\ Granted(j) /\ t - crashAt[j] < Window
            BY <2>1 DEF GrantedIn, Granted
          <5>2. InWindow(j)
            BY <2>1, <4>1, <5>1, InstanceAssumption DEF InWindow
          <5>3. QED
            BY <5>1, <5>2 DEF BudgetInv, RecentCrashes
        <4>4. RecentCrashes(i) \in SUBSET Incarnations /\ GrantedIn(t)' \in SUBSET Incarnations
          BY DEF RecentCrashes, GrantedIn, BudgetInv, TypeOK, StructOK
        <4>5. Cardinality(GrantedIn(t)') <= Cardinality(RecentCrashes(i))
          BY <4>3, <4>4, GrantedFinite, FS_Subset
        <4>6. Cardinality(GrantedIn(t)') \in Nat /\ Cardinality(RecentCrashes(i)) \in Nat
          BY <4>4, GrantedFinite
        <4>7. QED
          BY <4>2, <4>5, <4>6, InstanceAssumption DEF TooMany
      <3>2. CASE i \notin GrantedIn(t)'
        <4>1. GrantedIn(t)' \subseteq GrantedIn(t)
          BY <2>1, <3>2 DEF GrantedIn, Granted
        <4>2. GrantedIn(t) \in SUBSET Incarnations /\ GrantedIn(t)' \in SUBSET Incarnations
          BY DEF GrantedIn
        <4>3. Cardinality(GrantedIn(t)') <= Cardinality(GrantedIn(t))
          BY <4>1, <4>2, GrantedFinite, FS_Subset
        <4>4. Cardinality(GrantedIn(t)') \in Nat /\ Cardinality(GrantedIn(t)) \in Nat
          BY <4>2, GrantedFinite
        <4>5. Cardinality(GrantedIn(t)) <= CrashLimit
          BY DEF BudgetInv, RestartBudget
        <4>6. QED
          BY <4>3, <4>4, <4>5, InstanceAssumption
      <3>3. QED
        BY <3>1, <3>2
    <2>5. QED
      BY <1>0, <2>1, <2>3, <2>4 DEF BudgetInv, RestartBudget
  <1>8. ASSUME NEW i \in Incarnations, AutoRestart(i) PROVE BudgetInv'
    <2>1. \A j \in Incarnations : Granted(j)' => Granted(j)
      BY <1>8 DEF AutoRestart, Granted, BudgetInv, TypeOK, GoOK
    <2>2. QED
      BY <1>0, <1>8, <2>1, BudgetFrame DEF AutoRestart
  <1>9. ASSUME NEW t \in Callers,
               \/ EnterStopped(t) \/ JoinStop(t) \/ BeginStop(t) \/ WriteStop(t)
               \/ SendTerm(t) \/ SendKill(t) \/ ExitSeen(t)
               \/ BeginKill(t) \/ SignalKill(t)
               \/ \E o \in Ops \ {"none"} : Call(t, o)
        PROVE  BudgetInv'
    BY <1>2, <1>9 DEF EnterStopped, JoinStop, BeginStop, WriteStop, SendTerm, SendKill,
       ExitSeen, BeginKill, SignalKill, Call
  <1>10. ASSUME NEW t \in Callers, Relaunch(t) PROVE BudgetInv'
    <2>1. \A j \in Incarnations : Granted(j)' => Granted(j)
      BY <1>10 DEF Relaunch, Granted, BudgetInv, TypeOK, GoOK
    <2>2. QED
      BY <1>0, <1>10, <2>1, BudgetFrame DEF Relaunch
  <1>11. CASE UNCHANGED vars
    BY <1>2, <1>11 DEF vars
  <1> HIDE DEF structVars, procVars, goVars, callVars, histVars
  <1>12. QED
    BY <1>3, <1>4, <1>5, <1>6, <1>7, <1>8, <1>9, <1>10, <1>11, NextCases

(* In no window of the clock are more than CrashLimit crashes followed by  *)
(* an automatic restart.                                                   *)
THEOREM CrashBudget == Spec => []RestartBudget
  <1>1. BudgetInv => RestartBudget
    BY DEF BudgetInv
  <1>2. QED
    BY <1>1, BudgetInit, BudgetStep, InvHolds, PTL DEF Spec
=============================================================================
