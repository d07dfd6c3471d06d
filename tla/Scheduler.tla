----------------------------- MODULE Scheduler -----------------------------
(***************************************************************************)
(* The scheduler of recurring tasks (internal/mc/scheduler.go).  One       *)
(* goroutine, the loop, wakes every minute and starts what is due; the     *)
(* "run now" button starts a task in a goroutine of its own.  A set of     *)
(* running schedules, guarded by a chanMutex, keeps a task from being      *)
(* started twice; the task ends by leaving the set and then recording its  *)
(* outcome with MutateConfig (module Registry).                            *)
(*                                                                         *)
(* chanMutex is a channel of capacity one that the first Lock creates.     *)
(* Reading the field, creating the channel and evaluating the field again  *)
(* for the send are separate steps here: nothing orders them.              *)
(*                                                                         *)
(* When a schedule is due is left open: any set of them may be.            *)
(***************************************************************************)
EXTENDS Naturals

CONSTANTS Schedules, Workers, Loop, NoSchedule

ASSUME SchedulerAssumption == Loop \notin Workers /\ NoSchedule \notin Schedules

Threads == Workers \cup {Loop}
NilChan == 0

VARIABLES
    \* the chanMutex
    ch,        \* the field: a channel, or nil
    made,      \* channels made so far: 1 .. made
    full,      \* channels whose one place is taken
    \* the scheduler
    running,   \* schedules in flight
    \* the goroutines
    todo,      \* the loop: due schedules of this wake-up
    pc, reg,   \* position, and the channel the operands were evaluated to
    job, cur   \* what the lock is taken for, and the schedule concerned

lockVars == <<ch, made, full>>
vars     == <<lockVars, running, todo, pc, reg, job, cur>>

Steps == {"idle", "test", "make", "load", "send", "locked", "mark", "unload",
          "receive", "unlocked", "exec", "record"}
Jobs  == {"none", "claim", "claimed", "refused", "release"}

MadeOnce == made <= 1
Holds(t) == pc[t] \in {"locked", "mark", "unload", "receive"}

VarsOK ==
    /\ ch \in 0 .. made
    /\ made \in Nat
    /\ full \subseteq 1 .. made
    /\ running \subseteq Schedules
    /\ todo \subseteq Schedules
    /\ pc \in [Threads -> Steps]
    /\ reg \in [Threads -> 0 .. made]
    /\ job \in [Threads -> Jobs]
    /\ cur \in [Threads -> Schedules \cup {NoSchedule}]
    /\ \A t \in Threads :
          /\ pc[t] = "idle" <=> cur[t] = NoSchedule
          /\ pc[t] = "unlocked" => job[t] \in {"claimed", "refused", "release"}
    /\ pc[Loop] \notin {"exec", "record"} /\ job[Loop] # "release"

FullWhileHeld == MadeOnce => (full # {} <=> \E t \in Threads : Holds(t))

TypeOK == VarsOK /\ FullWhileHeld

Init ==
    /\ ch = NilChan
    /\ made = 0
    /\ full = {}
    /\ running = {}
    /\ todo = {}
    /\ pc = [t \in Threads |-> "idle"]
    /\ reg = [t \in Threads |-> NilChan]
    /\ job = [t \in Threads |-> "none"]
    /\ cur = [t \in Threads |-> NoSchedule]

-----------------------------------------------------------------------------
(* chanMutex.Lock and Unlock.                                              *)

Goto(t, step) == pc' = [pc EXCEPT ![t] = step]

Rest == UNCHANGED <<running, todo, job, cur>>

(* if m.ch == nil *)
Test(t) ==
    /\ pc[t] = "test"
    /\ Goto(t, IF ch = NilChan THEN "make" ELSE "load")
    /\ UNCHANGED <<lockVars, reg>> /\ Rest

(* m.ch = make(chan struct{}, 1) *)
Make(t) ==
    /\ pc[t] = "make"
    /\ made' = made + 1
    /\ ch' = made + 1
    /\ Goto(t, "load")
    /\ UNCHANGED <<full, reg>> /\ Rest

(* m.ch <- struct{}{}: the operand, then the send. *)
Load(t) ==
    /\ pc[t] = "load"
    /\ reg' = [reg EXCEPT ![t] = ch]
    /\ Goto(t, "send")
    /\ UNCHANGED lockVars /\ Rest

HasRoom_Always(c) == TRUE   \* variant: a send that does not wait

HasRoom(c) == c \notin full

Send(t) ==
    /\ pc[t] = "send"
    /\ HasRoom(reg[t])
    /\ full' = full \cup {reg[t]}
    /\ reg' = [reg EXCEPT ![t] = NilChan]
    /\ Goto(t, "locked")
    /\ UNCHANGED <<ch, made>> /\ Rest

(* <-m.ch: the operand, then the receive. *)
Unload(t) ==
    /\ pc[t] = "unload"
    /\ reg' = [reg EXCEPT ![t] = ch]
    /\ Goto(t, "receive")
    /\ UNCHANGED lockVars /\ Rest

Receive(t) ==
    /\ pc[t] = "receive"
    /\ reg[t] \in full
    /\ full' = full \ {reg[t]}
    /\ reg' = [reg EXCEPT ![t] = NilChan]
    /\ Goto(t, "unlocked")
    /\ UNCHANGED <<ch, made>> /\ Rest

-----------------------------------------------------------------------------
(* The critical sections.                                                  *)

IsRunning_Ignored(s) == FALSE   \* variant: the flag is not looked at

IsRunning(s) == s \in running

Begin(t, s, why) ==
    /\ pc' = [pc EXCEPT ![t] = "test"]
    /\ job' = [job EXCEPT ![t] = why]
    /\ cur' = [cur EXCEPT ![t] = s]

AfterRefusal_NoUnlock == "unlocked"   \* variant: continue without Unlock

AfterRefusal == "unload"

(* if s.running[sc.ID] *)
Claim(t) ==
    /\ pc[t] = "locked"
    /\ job[t] = "claim"
    /\ \/ /\ IsRunning(cur[t])
          /\ job' = [job EXCEPT ![t] = "refused"]
          /\ Goto(t, AfterRefusal)
       \/ /\ ~IsRunning(cur[t])
          /\ Goto(t, "mark")
          /\ UNCHANGED job
    /\ UNCHANGED <<lockVars, running, todo, reg, cur>>

(* s.running[sc.ID] = true *)
Mark(t) ==
    /\ pc[t] = "mark"
    /\ job' = [job EXCEPT ![t] = "claimed"]
    /\ running' = running \cup {cur[t]}
    /\ Goto(t, "unload")
    /\ UNCHANGED <<lockVars, todo, reg, cur>>

Cleared_Kept(s) == running   \* variant: the flag is left behind

Cleared(s) == running \ {s}

Release(t) ==
    /\ pc[t] = "locked"
    /\ job[t] = "release"
    /\ running' = Cleared(cur[t])
    /\ Goto(t, "unload")
    /\ UNCHANGED <<lockVars, todo, reg, job, cur>>

Finish(t) ==
    /\ pc' = [pc EXCEPT ![t] = "idle"]
    /\ job' = [job EXCEPT ![t] = "none"]
    /\ cur' = [cur EXCEPT ![t] = NoSchedule]

-----------------------------------------------------------------------------
(* The loop.                                                               *)

(* The timer fires: the configurations are copied, and due picks. *)
WakeUp ==
    /\ pc[Loop] = "idle"
    /\ todo = {}
    /\ \E due \in SUBSET Schedules : todo' = due
    /\ UNCHANGED <<lockVars, running, pc, reg, job, cur>>

NextDue(s) ==
    /\ pc[Loop] = "idle"
    /\ s \in todo
    /\ todo' = todo \ {s}
    /\ Begin(Loop, s, "claim")
    /\ UNCHANGED <<lockVars, running, reg>>

(* continue *)
SkipRunning ==
    /\ pc[Loop] = "unlocked"
    /\ job[Loop] = "refused"
    /\ Finish(Loop)
    /\ UNCHANGED <<lockVars, running, todo, reg>>

(* go func: the number of tasks at once is bounded by Workers. *)
Launch(w) ==
    /\ pc[Loop] = "unlocked"
    /\ job[Loop] = "claimed"
    /\ pc[w] = "idle"
    /\ pc' = [pc EXCEPT ![Loop] = "idle", ![w] = "exec"]
    /\ job' = [job EXCEPT ![Loop] = "none", ![w] = "claimed"]
    /\ cur' = [cur EXCEPT ![Loop] = NoSchedule, ![w] = cur[Loop]]
    /\ UNCHANGED <<lockVars, running, todo, reg>>

-----------------------------------------------------------------------------
(* The tasks.                                                              *)

(* The "run now" button, for any schedule, enabled or not. *)
RunNow(w, s) ==
    /\ pc[w] = "idle"
    /\ Begin(w, s, "claim")
    /\ UNCHANGED <<lockVars, running, todo, reg>>

GiveUp(w) ==
    /\ pc[w] = "unlocked"
    /\ job[w] = "refused"
    /\ Finish(w)
    /\ UNCHANGED <<lockVars, running, todo, reg>>

Execute(w) ==
    /\ pc[w] = "unlocked"
    /\ job[w] = "claimed"
    /\ Goto(w, "exec")
    /\ UNCHANGED <<lockVars, running, todo, reg, job, cur>>

(* execute returns, with an error or not: the flag is cleared first... *)
Executed(w) ==
    /\ pc[w] = "exec"
    /\ Begin(w, cur[w], "release")
    /\ UNCHANGED <<lockVars, running, todo, reg>>

Released(w) ==
    /\ pc[w] = "unlocked"
    /\ job[w] = "release"
    /\ Goto(w, "record")
    /\ UNCHANGED <<lockVars, running, todo, reg, job, cur>>

(* ... and the outcome recorded afterwards, if the schedule still exists. *)
Record(w) ==
    /\ pc[w] = "record"
    /\ Finish(w)
    /\ UNCHANGED <<lockVars, running, todo, reg>>

-----------------------------------------------------------------------------

Waiting(t) == Send(t) \/ Receive(t)

Going(t) ==
    \/ Test(t) \/ Make(t) \/ Load(t) \/ Unload(t) \/ Claim(t)
    \/ Mark(t) \/ Release(t)

LoopStep == (\E s \in Schedules : NextDue(s)) \/ SkipRunning

TaskStep(w) == GiveUp(w) \/ Execute(w) \/ Executed(w) \/ Released(w) \/ Record(w)

Next ==
    \/ WakeUp \/ LoopStep
    \/ \E t \in Threads : Waiting(t) \/ Going(t)
    \/ \E w \in Workers : TaskStep(w) \/ Launch(w) \/ \E s \in Schedules : RunNow(w, s)

Spec == Init /\ [][Next]_vars

(* Goroutines run and execute returns (Stop does: Instance!CallsReturn).   *)
(* Blocked senders queue up at a channel, first come first served.  A new  *)
(* goroutine is only ever refused by the bound Workers.                    *)
Fairness ==
    /\ WF_vars(LoopStep)
    /\ SF_vars(\E w \in Workers : Launch(w))
    /\ \A t \in Threads : WF_vars(Going(t)) /\ SF_vars(Waiting(t))
    /\ \A w \in Workers : WF_vars(TaskStep(w))

FairSpec == Spec /\ Fairness

-----------------------------------------------------------------------------
(* Properties.  The lock works as long as it was made only once; what two  *)
(* first calls of Lock at the same time do to it is NeverStartedTwice.     *)

(* At most one goroutine is inside of the lock. *)
LockExcludes ==
    MadeOnce => \A t, u \in Threads : Holds(t) /\ Holds(u) => t = u

(* A schedule that is in flight is not started again, by the loop or by    *)
(* the button.                                                             *)
NeverTwice ==
    MadeOnce =>
        \A v, w \in Workers :
            pc[v] = "exec" /\ pc[w] = "exec" /\ cur[v] = cur[w] => v = w

(* The goroutines that answer for a schedule being in flight. *)
InFlight(t) ==
    \/ job[t] = "claimed"
    \/ job[t] = "release" /\ pc[t] \in {"test", "make", "load", "send", "locked"}

(* A flag is never left behind, which would disable the schedule until the *)
(* panel restarts: somebody is always about to clear it.                   *)
FlagsOwned ==
    MadeOnce => \A s \in running : \E t \in Threads : InFlight(t) /\ cur[t] = s

(* The loop gets through its list and every task ends, whoever else wants  *)
(* the lock.                                                               *)
AllReturn ==
    []MadeOnce => \A t \in Threads : pc[t] # "idle" ~> pc[t] = "idle"

(* The comment of Scheduler: "a task that is still running is never        *)
(* started twice".                                                         *)
NeverStartedTwice ==
    \A v, w \in Workers :
        pc[v] = "exec" /\ pc[w] = "exec" /\ cur[v] = cur[w] => v = w

=============================================================================
