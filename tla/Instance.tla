------------------------------ MODULE Instance ------------------------------
(***************************************************************************)
(* One managed Minecraft server process (internal/mc/instance.go).  The    *)
(* fields of the struct are guarded by one mutex, so a step of this module *)
(* is one critical section, one channel operation or one signal of one     *)
(* goroutine:                                                              *)
(*                                                                         *)
(*   - callers: HTTP handlers, scheduled tasks and the shutdown goroutine, *)
(*     which call Start, Stop, Kill, or Stop then Start;                   *)
(*   - for every process launched, the goroutine that scans its output     *)
(*     (readOutput) and the one that waits for its exit (waitExit), which  *)
(*     also does the crash accounting and the automatic restart;           *)
(*   - the process itself, which may die at any moment.                    *)
(*                                                                         *)
(* The processes launched one after the other are the incarnations         *)
(* 1 .. MaxStarts.  The exit channel of incarnation i is closed as soon as *)
(* its waiter has moved past "waiting", so it needs no variable.           *)
(***************************************************************************)
EXTENDS Naturals, FiniteSets

CONSTANTS Callers,      \* threads that call into the instance
          MaxStarts,    \* bound: processes launched in a behaviour
          CrashLimit,   \* restarts granted inside one window (3 in the code)
          Window,       \* length of the crash window in ticks (10 minutes)
          MaxTime       \* bound: ticks of the clock

ASSUME InstanceAssumption ==
    /\ MaxStarts \in Nat \ {0}
    /\ CrashLimit \in Nat
    /\ Window \in Nat \ {0}
    /\ MaxTime \in Nat

Incarnations == 1 .. MaxStarts
NoProcess    == 0
MaybeProcess == Incarnations \cup {NoProcess}

VARIABLES
    \* the struct's fields
    state,          \* reported state
    cmd,            \* in.cmd and in.stdin: the process they belong to
    exited,         \* in.exited: the incarnation whose channel it is
    stopRequested,
    crashTimes,     \* in.crashTimes: the crashes it still holds
    \* the operating system
    launched,       \* number of processes launched so far
    proc,           \* [Incarnations -> {"none", "alive", "dead"}]
    killed,         \* incarnations that were sent SIGKILL
    now,            \* the clock, in ticks
    \* the goroutines of each incarnation
    waiter,         \* waitExit's position
    doneLine,       \* readOutput: the "Done (" line, scanned, then handled
    crashAt,        \* when waitExit accounted the crash
    \* the callers
    pc, op, snap,   \* position, operation, and values read under the lock
    panel,          \* "up", "stopping" (StopAll runs) or "down"
    \* history, read by properties only
    asked,          \* incarnations a Stop or Kill was accepted for
    outcome,        \* event reported for each incarnation's exit
    doomed          \* incarnation alive when StopAll looked, if any

structVars == <<state, cmd, exited, stopRequested, crashTimes>>
procVars   == <<launched, proc, killed, now>>
goVars     == <<waiter, doneLine, crashAt>>
callVars   == <<pc, op, snap, panel>>
histVars   == <<asked, outcome, doomed>>
vars       == <<structVars, procVars, goVars, callVars, histVars>>

States       == {"stopped", "starting", "running", "stopping"}
WaiterStates == {"none", "waiting", "exited", "crashed", "sleeping", "fired", "gaveup", "done"}
CallStates   == {"idle", "enter", "write", "grace", "term", "signal", "await", "relaunch"}
Ops          == {"none", "stop", "kill", "restart", "shutdown"}
Snapshots    == [pid : MaybeProcess, exited : MaybeProcess]
NoSnapshot   == [pid |-> NoProcess, exited |-> NoProcess]

Closed(i)  == waiter[i] \notin {"none", "waiting"}
Waiting(t) == pc[t] \in {"grace", "term", "await"}

StructOK ==
    /\ state \in States
    /\ cmd \in MaybeProcess
    /\ exited \in MaybeProcess
    /\ crashTimes \subseteq Incarnations
    /\ cmd = NoProcess <=> state = "stopped"

ProcOK ==
    /\ launched \in 0 .. MaxStarts
    /\ proc \in [Incarnations -> {"none", "alive", "dead"}]
    /\ killed \subseteq Incarnations
    /\ now \in 0 .. MaxTime

GoOK ==
    /\ waiter \in [Incarnations -> WaiterStates]
    /\ doneLine \in [Incarnations -> {"none", "scanned", "handled"}]
    /\ crashAt \in [Incarnations -> 0 .. MaxTime]

CallOK ==
    /\ pc \in [Callers -> CallStates]
    /\ op \in [Callers -> Ops]
    /\ snap \in [Callers -> Snapshots]
    /\ panel \in {"up", "stopping", "down"}

HistOK ==
    /\ asked \subseteq Incarnations
    /\ outcome \in [Incarnations -> {"none", "stop", "crash"}]
    /\ doomed \in MaybeProcess

TypeOK == StructOK /\ stopRequested \in BOOLEAN /\ ProcOK /\ GoOK /\ CallOK /\ HistOK

Init ==
    /\ state = "stopped"
    /\ cmd = NoProcess
    /\ exited = NoProcess
    /\ stopRequested = FALSE
    /\ crashTimes = {}
    /\ launched = 0
    /\ proc = [i \in Incarnations |-> "none"]
    /\ killed = {}
    /\ now = 0
    /\ waiter = [i \in Incarnations |-> "none"]
    /\ doneLine = [i \in Incarnations |-> "none"]
    /\ crashAt = [i \in Incarnations |-> 0]
    /\ pc = [t \in Callers |-> "idle"]
    /\ op = [t \in Callers |-> "none"]
    /\ snap = [t \in Callers |-> NoSnapshot]
    /\ panel = "up"
    /\ asked = {}
    /\ outcome = [i \in Incarnations |-> "none"]
    /\ doomed = NoProcess

-----------------------------------------------------------------------------
(* Start: one critical section.  It succeeds only from "stopped"; finding  *)
(* the jar, the pipes or exec may fail, which changes nothing.             *)
MayStart_UnlessRunning == state # "running"   \* variant: a weaker guard

MayStart == state = "stopped"

ResetRequest_Forgotten == UNCHANGED stopRequested   \* variant: no reset

ResetRequest == stopRequested' = FALSE

Launch ==
    LET i == launched + 1 IN
    /\ MayStart
    /\ i \in Incarnations
    /\ launched' = i
    /\ proc' = [proc EXCEPT ![i] = "alive"]
    /\ cmd' = i
    /\ exited' = i
    /\ state' = "starting"
    /\ ResetRequest

NotLaunched ==
    UNCHANGED <<launched, proc, cmd, exited, state, stopRequested>>

(* The start button, AutoStart, the scheduled "start" task. *)
UserStart ==
    /\ panel # "down"
    /\ Launch
    /\ waiter' = [waiter EXCEPT ![launched + 1] = "waiting"]
    /\ UNCHANGED <<crashTimes, killed, now, doneLine, crashAt, callVars,
                   asked, outcome, doomed>>

-----------------------------------------------------------------------------
(* The process and the goroutine that scans its output.                    *)

(* The ready line reaches the scanner's buffer. *)
PrintDone(i) ==
    /\ proc[i] = "alive"
    /\ doneLine[i] = "none"
    /\ doneLine' = [doneLine EXCEPT ![i] = "scanned"]
    /\ UNCHANGED <<structVars, procVars, waiter, crashAt, callVars, histVars>>

AfterReady_Always(s) == "running"   \* variant: the current state is not looked at

AfterReady(s) == IF s = "starting" THEN "running" ELSE s

(* readOutput handles the line, possibly long after the process is gone:   *)
(* nothing ties the line to the process the struct now describes.          *)
ReadDone(i) ==
    /\ panel # "down"
    /\ doneLine[i] = "scanned"
    /\ doneLine' = [doneLine EXCEPT ![i] = "handled"]
    /\ state' = AfterReady(state)
    /\ UNCHANGED <<cmd, exited, stopRequested, crashTimes, procVars, waiter,
                   crashAt, callVars, histVars>>

(* A crash, the stop command, SIGTERM: the process may end at any moment. *)
Exit(i) ==
    /\ proc[i] = "alive"
    /\ proc' = [proc EXCEPT ![i] = "dead"]
    /\ UNCHANGED <<structVars, launched, killed, now, goVars, callVars, histVars>>

(* The kernel's part of SIGKILL, the only exit that must happen. *)
KilledExit(i) == i \in killed /\ Exit(i)

Tick ==
    /\ now < MaxTime
    /\ now' = now + 1
    /\ UNCHANGED <<structVars, launched, proc, killed, goVars, callVars, histVars>>

-----------------------------------------------------------------------------
(* waitExit.                                                               *)

(* cmd.Wait returns and the channel is closed, before the lock is taken. *)
CloseExited(i) ==
    /\ panel # "down"
    /\ waiter[i] = "waiting"
    /\ proc[i] = "dead"
    /\ waiter' = [waiter EXCEPT ![i] = "exited"]
    /\ UNCHANGED <<structVars, procVars, doneLine, crashAt, callVars, histVars>>

ForgetProcess == cmd' = NoProcess

(* The first critical section.  AutoRestart is read from the configuration *)
(* in force, which an administrator may have edited: any value.            *)
SettleExit(i) ==
    /\ panel # "down"
    /\ waiter[i] = "exited"
    /\ state' = "stopped"
    /\ ForgetProcess
    /\ outcome' = [outcome EXCEPT ![i] = IF stopRequested THEN "stop" ELSE "crash"]
    /\ \E autoRestart \in BOOLEAN :
         waiter' = [waiter EXCEPT ![i] =
                      IF ~stopRequested /\ autoRestart THEN "crashed" ELSE "done"]
    /\ UNCHANGED <<exited, stopRequested, crashTimes, procVars, doneLine, crashAt,
                   callVars, asked, doomed>>

InWindow(j) == now - crashAt[j] < Window

RecentCrashes(i) == {j \in crashTimes : InWindow(j)} \cup {i}

TooMany_OffByOne(crashes) == Cardinality(crashes) > CrashLimit + 1   \* variant

TooMany(crashes) == Cardinality(crashes) > CrashLimit

(* The second critical section: prune, append, compare with the limit. *)
AccountCrash(i) ==
    /\ panel # "down"
    /\ waiter[i] = "crashed"
    /\ crashTimes' = RecentCrashes(i)
    /\ crashAt' = [crashAt EXCEPT ![i] = now]
    /\ waiter' = [waiter EXCEPT ![i] =
                    IF TooMany(RecentCrashes(i))
                    THEN "gaveup" ELSE "sleeping"]
    /\ UNCHANGED <<state, cmd, exited, stopRequested, procVars, doneLine,
                   callVars, histVars>>

(* Five seconds later Start is called, whatever happened in between. *)
AutoRestart(i) ==
    /\ panel # "down"
    /\ waiter[i] = "sleeping"
    /\ \/ /\ Launch
          /\ waiter' = [waiter EXCEPT ![i] = "fired", ![launched + 1] = "waiting"]
       \/ /\ NotLaunched
          /\ waiter' = [waiter EXCEPT ![i] = "fired"]
    /\ UNCHANGED <<crashTimes, killed, now, doneLine, crashAt, callVars,
                   asked, outcome, doomed>>

-----------------------------------------------------------------------------
(* The callers.                                                            *)

Goto(t, where) == pc' = [pc EXCEPT ![t] = where]

(* A handler, a task or the shutdown goroutine looks at the state, outside *)
(* of the critical section of the call it then makes.  StopAll skips a     *)
(* server that reads "stopped", restart then only starts.                  *)
Call(t, o) ==
    /\ panel # "down"
    /\ pc[t] = "idle"
    /\ o = "shutdown" => panel = "up"
    /\ op' = [op EXCEPT ![t] = o]
    /\ \/ /\ o \in {"stop", "kill"} \/ state # "stopped"
          /\ Goto(t, "enter")
       \/ /\ o = "restart" /\ state = "stopped"
          /\ Goto(t, "relaunch")
       \/ /\ o = "shutdown" /\ state = "stopped"
          /\ Goto(t, "await")
    /\ panel' = IF o = "shutdown" THEN "stopping" ELSE panel
    /\ doomed' = IF o = "shutdown" THEN cmd ELSE doomed
    /\ UNCHANGED <<structVars, procVars, goVars, snap, asked, outcome>>

(* What follows when Stop or Kill returns: restart goes on only if Stop    *)
(* reported no error, the shutdown goroutine lets the panel exit.          *)
Return(t, ok) ==
    /\ Goto(t, IF op[t] = "restart" /\ ok THEN "relaunch" ELSE "idle")
    /\ op' = [op EXCEPT ![t] = IF @ = "restart" /\ ok THEN @ ELSE "none"]
    /\ snap' = [snap EXCEPT ![t] = NoSnapshot]
    /\ panel' = IF op[t] = "shutdown" THEN "down" ELSE panel

TakeSnapshot(t) == snap' = [snap EXCEPT ![t] = [pid |-> cmd, exited |-> exited]]

(* Stop and Kill report "server is not running". *)
EnterStopped(t) ==
    /\ panel # "down"
    /\ pc[t] = "enter"
    /\ state = "stopped"
    /\ Return(t, FALSE)
    /\ UNCHANGED <<structVars, procVars, goVars, histVars>>

(* Stop while another Stop is at work: wait for the same exit. *)
JoinStop(t) ==
    /\ panel # "down"
    /\ pc[t] = "enter"
    /\ op[t] # "kill"
    /\ state = "stopping"
    /\ TakeSnapshot(t)
    /\ Goto(t, "await")
    /\ UNCHANGED <<structVars, procVars, goVars, op, panel, histVars>>

BeginStop(t) ==
    /\ panel # "down"
    /\ pc[t] = "enter"
    /\ op[t] # "kill"
    /\ state \in {"starting", "running"}
    /\ state' = "stopping"
    /\ stopRequested' = TRUE
    /\ asked' = asked \cup {cmd}
    /\ TakeSnapshot(t)
    /\ Goto(t, "write")
    /\ UNCHANGED <<cmd, exited, crashTimes, procVars, goVars, op, panel,
                   outcome, doomed>>

(* The stop command goes to the process' standard input. *)
WriteStop(t) ==
    /\ panel # "down"
    /\ pc[t] = "write"
    /\ Goto(t, "grace")
    /\ UNCHANGED <<structVars, procVars, goVars, op, snap, panel, histVars>>

(* The grace period elapses: SIGTERM, which a process may ignore. *)
SendTerm(t) ==
    /\ panel # "down"
    /\ pc[t] = "grace"
    /\ Goto(t, "term")
    /\ UNCHANGED <<structVars, procVars, goVars, op, snap, panel, histVars>>

Kill9_Lost(i) == UNCHANGED killed   \* variant: the signal reaches nobody

Kill9(i) == killed' = IF i # NoProcess THEN killed \cup {i} ELSE killed

Victim_Current(t) == cmd   \* variant: in.cmd is read again, after the unlock

Victim(t) == snap[t].pid

(* Ten seconds later: SIGKILL. *)
SendKill(t) ==
    /\ panel # "down"
    /\ pc[t] = "term"
    /\ Kill9(Victim(t))
    /\ Goto(t, "await")
    /\ UNCHANGED <<structVars, launched, proc, now, goVars, op, snap, panel, histVars>>

Released_Impatient(t) == pc[t] = "await"   \* variant: SIGKILL ends the wait

Released(t) == snap[t].exited # NoProcess => Closed(snap[t].exited)

(* <-exited.  StopAll has no channel to wait for when it skipped this      *)
(* server: it then returns whenever the other servers' stops have.         *)
ExitSeen(t) ==
    /\ panel # "down"
    /\ Waiting(t)
    /\ Released(t)
    /\ Return(t, TRUE)
    /\ UNCHANGED <<structVars, procVars, goVars, histVars>>

(* Kill leaves the state alone: the server keeps its name until it is gone. *)
BeginKill(t) ==
    /\ panel # "down"
    /\ pc[t] = "enter"
    /\ op[t] = "kill"
    /\ state # "stopped"
    /\ stopRequested' = TRUE
    /\ asked' = asked \cup {cmd}
    /\ TakeSnapshot(t)
    /\ Goto(t, "signal")
    /\ UNCHANGED <<state, cmd, exited, crashTimes, procVars, goVars, op, panel,
                   outcome, doomed>>

SignalKill(t) ==
    /\ panel # "down"
    /\ pc[t] = "signal"
    /\ Kill9(Victim(t))
    /\ Goto(t, "await")
    /\ UNCHANGED <<structVars, launched, proc, now, goVars, op, snap, panel, histVars>>

(* The second half of a restart: Start, whose refusal is only logged. *)
Relaunch(t) ==
    /\ panel # "down"
    /\ pc[t] = "relaunch"
    /\ Goto(t, "idle")
    /\ op' = [op EXCEPT ![t] = "none"]
    /\ \/ /\ Launch
          /\ waiter' = [waiter EXCEPT ![launched + 1] = "waiting"]
       \/ NotLaunched /\ UNCHANGED waiter
    /\ UNCHANGED <<crashTimes, killed, now, doneLine, crashAt, snap, panel,
                   asked, outcome, doomed>>

-----------------------------------------------------------------------------

CallerStep(t) ==
    \/ EnterStopped(t) \/ JoinStop(t) \/ BeginStop(t) \/ WriteStop(t)
    \/ SendTerm(t) \/ SendKill(t) \/ ExitSeen(t)
    \/ BeginKill(t) \/ SignalKill(t) \/ Relaunch(t)

WaiterStep(i) == CloseExited(i) \/ SettleExit(i) \/ AccountCrash(i) \/ AutoRestart(i)

Next ==
    \/ UserStart
    \/ Tick
    \/ \E i \in Incarnations : PrintDone(i) \/ ReadDone(i) \/ Exit(i) \/ WaiterStep(i)
    \/ \E t \in Callers : CallerStep(t) \/ \E o \in Ops \ {"none"} : Call(t, o)

Spec == Init /\ [][Next]_vars

(* Goroutines that can run do run, timers elapse, the write of the stop    *)
(* command finds room in the pipe, and a process that was sent SIGKILL     *)
(* dies.  Nobody is obliged to call, and no process to exit or to become   *)
(* ready of its own accord.                                                *)
Fairness ==
    /\ \A i \in Incarnations : WF_vars(KilledExit(i)) /\ WF_vars(WaiterStep(i))
    /\ \A t \in Callers : WF_vars(CallerStep(t))

FairSpec == Spec /\ Fairness

-----------------------------------------------------------------------------
(* Properties.                                                             *)

Alive(i) == proc[i] = "alive"

(* At most one process of the server lives, and it is the one the struct   *)
(* describes: whatever Start, Stop, Kill, a crash and the five-second      *)
(* restart timer do in between, two processes never share one world.       *)
OneProcess ==
    \A i \in Incarnations : Alive(i) => i = cmd /\ state # "stopped"

(* An exit is reported as a stop exactly when somebody's Stop or Kill was  *)
(* accepted for that very process: a request is never forgotten (which     *)
(* would restart a server the user stopped) and never inherited by the     *)
(* next process (whose crash would then pass for a stop).                  *)
ExitClassified ==
    \A i \in Incarnations :
        outcome[i] # "none" => (outcome[i] = "stop" <=> i \in asked)

(* SIGKILL only ever goes to a process somebody asked to stop: a Stop that *)
(* is still escalating never kills the server started after its own.       *)
KillsOnlyAsked == killed \subseteq asked

(* The crash limiter: no window of the clock sees more than CrashLimit     *)
(* crashes that are followed by an automatic restart.                      *)
Granted(i) == waiter[i] \in {"sleeping", "fired"}

GrantedIn(t) ==
    {i \in Incarnations : Granted(i) /\ crashAt[i] <= t /\ t - crashAt[i] < Window}

RestartBudget == \A t \in 0 .. MaxTime : Cardinality(GrantedIn(t)) <= CrashLimit

(* When the panel exits, the process that was alive when StopAll looked is *)
(* gone, whoever else was stopping it, and however it ended.               *)
StopAllStops == panel = "down" /\ doomed # NoProcess => ~Alive(doomed)

(* The status the panel reports behaves like ServerLifecycle.              *)
Life == INSTANCE ServerLifecycle WITH
            phase <- state, alive <- \E i \in Incarnations : Alive(i)

Lifecycle == Life!Spec

(* Every Stop, Kill or restart returns, even when the process ignores the  *)
(* stop command and SIGTERM, unless the panel exits first.                 *)
CallsReturn == \A t \in Callers : pc[t] # "idle" ~> (pc[t] = "idle" \/ panel = "down")
=============================================================================
