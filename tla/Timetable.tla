----------------------------- MODULE Timetable -----------------------------
(***************************************************************************)
(* When one recurring task of a server runs, and what the panel shows of   *)
(* it: due and NextRun of internal/mc/scheduler.go with the schedule       *)
(* handlers of internal/web/api_features.go.                               *)
(*                                                                         *)
(* Time is counted in ticks, several to a minute; a day is as short as the *)
(* constants make it.  Scheduler models many tasks and the locks around    *)
(* them and leaves open when a task is due; here that is computed.         *)
(***************************************************************************)
EXTENDS Integers, FiniteSetsExt

CONSTANTS TicksPerMinute, MinutesPerDay, DaysPerWeek,
          Intervals,    \* in minutes
          DaySets,      \* the weekdays that requests name
          Horizon,      \* bound: the last tick
          MaxEdits      \* bound: requests

VARIABLES
    now,
    woken,    \* when the loop last looked
    loop,     \* "claim": the task was due in the copy it took
    task,
    draft,    \* the task that a request has made and not yet inserted
    flag,     \* Scheduler.running
    records,  \* runs that have ended and are not recorded
    excused,  \* history: why a shown time may pass, see ShownTimeKept
    edits

vars == <<now, woken, loop, task, draft, flag, records, excused, edits>>

Zero == -1   \* the zero time
NoTask == [mode |-> "none"]

Plans == [mode : {"interval"}, every : Intervals, at : {0}, days : {{}}] \cup
         [mode : {"daily"}, every : {0}, at : 0..MinutesPerDay - 1,
          days : DaySets]

Task(plan, on, last, next) ==
    [mode |-> plan.mode, every |-> plan.every, at |-> plan.at, days |-> plan.days,
     enabled |-> on, last |-> last, next |-> next]

TypeOK ==
    /\ now \in 0..Horizon /\ woken \in 0..now
    /\ loop \in {"idle", "claim"}
    /\ task = NoTask \/ \E plan \in Plans, on \in BOOLEAN :
                           task = Task(plan, on, task.last, task.next)
    /\ task # NoTask => task.last \in Zero..now
    /\ draft = NoTask \/ \E plan \in Plans, on \in BOOLEAN :
                            draft = Task(plan, on, Zero, draft.next)
    /\ draft # NoTask => task = NoTask
    /\ flag \in BOOLEAN /\ records \in Nat /\ excused \in BOOLEAN
    /\ edits \in 0..MaxEdits

Init ==
    /\ now = 0 /\ woken = 0 /\ loop = "idle" /\ task = NoTask /\ draft = NoTask
    /\ flag = FALSE /\ records = 0 /\ excused = FALSE /\ edits = 0
-----------------------------------------------------------------------------
Minute(t) == t \div TicksPerMinute
Day(t) == Minute(t) \div MinutesPerDay
Moment(day, minute) == (day * MinutesPerDay + minute) * TicksPerMinute

(* dayAllowed; no days stand for every day. *)
Allowed(days, day) == days = {} \/ day % DaysPerWeek \in days

(* The days that NextRun tries, from today on: the same day of the next    *)
(* week is the last one.                                                   *)
Tried_Week(t) == Day(t)..Day(t) + DaysPerWeek - 1
Tried(t) == Day(t)..Day(t) + DaysPerWeek

NextRun(plan, on, last, t) ==
    LET step == plan.every * TicksPerMinute
        base == IF last = Zero THEN t ELSE last
        found == {Moment(d, plan.at) : d \in {d \in Tried(t) : Allowed(plan.days, d)}}
        later == {x \in found : x > t}
    IN  CASE ~on -> Zero
          [] on /\ plan.mode = "interval" -> (IF base + step < t THEN t ELSE base) + step
          [] on /\ plan.mode = "daily" -> IF later = {} THEN Zero ELSE Min(later)

(* due: a daily task does not run twice within 90 seconds. *)
Guard == (3 * TicksPerMinute) \div 2

Due ==
    /\ task # NoTask /\ task.enabled
    /\ CASE task.mode = "interval" ->
              task.last = Zero \/ now - task.last >= task.every * TicksPerMinute
         [] task.mode = "daily" ->
              /\ Minute(now) % MinutesPerDay = task.at /\ Allowed(task.days, Day(now))
              /\ task.last = Zero \/ now - task.last > Guard
-----------------------------------------------------------------------------
Renew(t) == task' = t /\ excused' = FALSE

(* The loop looks once in a minute, at the task as the copy shows it. *)
Wake ==
    /\ loop = "idle" /\ Minute(now) > Minute(woken)
    /\ woken' = now
    /\ loop' = IF Due THEN "claim" ELSE "idle"
    /\ UNCHANGED <<now, task, draft, flag, records, excused, edits>>

Claim ==
    /\ loop = "claim"
    /\ loop' = "idle" /\ flag' = TRUE
    /\ UNCHANGED <<now, woken, task, draft, records, excused, edits>>

(* The run, of whatever length, is over. *)
End ==
    /\ flag
    /\ flag' = FALSE /\ records' = records + 1
    /\ UNCHANGED <<now, woken, loop, task, draft, excused, edits>>

(* Also when the file cannot be written: MutateConfig has changed the      *)
(* memory before it saves.                                                 *)
Recorded(t) == Task(t, t.enabled, now, NextRun(t, t.enabled, now, now))

Record ==
    /\ records > 0
    /\ records' = records - 1
    /\ Renew(Recorded(task))
    /\ UNCHANGED <<now, woken, loop, draft, flag, edits>>
-----------------------------------------------------------------------------
Asks == edits < MaxEdits /\ edits' = edits + 1 /\ UNCHANGED <<now, woken>>

(* handleScheduleCreate shows the next run before it waits for the locks   *)
(* of MutateConfig, which may be held for long.                            *)
Create(plan, on) ==
    /\ Asks /\ task = NoTask /\ draft = NoTask
    /\ draft' = Task(plan, on, Zero, NextRun(plan, on, Zero, now))
    /\ UNCHANGED <<loop, task, flag, records, excused>>

(* The time that is shown has come before the task is there. *)
TooLate == draft.next \in 0..now

Insert ==
    /\ draft # NoTask
    /\ task' = draft /\ draft' = NoTask
    /\ excused' = TooLate
    /\ UNCHANGED <<now, woken, loop, flag, records, edits>>

(* The server has its maximum of schedules, or is gone. *)
InsertRefused ==
    /\ draft # NoTask
    /\ draft' = NoTask
    /\ UNCHANGED <<now, woken, loop, task, flag, records, excused, edits>>

Update(plan, on) ==
    /\ Asks /\ task # NoTask
    /\ Renew(Task(plan, on, task.last, NextRun(plan, on, task.last, now)))
    /\ UNCHANGED <<loop, draft, flag, records>>

(* What still runs of a deleted task, or is about to, finds nothing to     *)
(* record; a task created later has an identifier, and so a flag, of its   *)
(* own.                                                                    *)
Delete ==
    /\ Asks /\ task # NoTask
    /\ Renew(NoTask)
    /\ loop' = "idle" /\ flag' = FALSE /\ records' = 0
    /\ UNCHANGED draft

RunNow ==
    /\ Asks /\ task # NoTask
    /\ flag' = TRUE
    /\ UNCHANGED <<loop, task, draft, records, excused>>

(* The clock leaves the minute of the shown time, and the loop has not     *)
(* looked in it: it was held up for long.                                  *)
Overslept ==
    /\ task # NoTask /\ task.mode = "daily"
    /\ Minute(task.next) = Minute(now) /\ Minute(now + 1) > Minute(now)
    /\ Minute(woken) < Minute(now)

Tick ==
    /\ now < Horizon
    /\ now' = now + 1 /\ excused' = (excused \/ Overslept)
    /\ UNCHANGED <<woken, loop, task, draft, flag, records, edits>>

Next ==
    \/ Wake \/ Claim \/ End \/ Record \/ Insert \/ InsertRefused
    \/ Delete \/ RunNow \/ Tick
    \/ \E plan \in Plans, on \in BOOLEAN : Create(plan, on) \/ Update(plan, on)

Spec == Init /\ [][Next]_vars
-----------------------------------------------------------------------------
(* An enabled task shows when it runs next, and runs then: once the loop   *)
(* has looked after the shown time, the task is running or a run waits to  *)
(* be recorded.  Three things excuse it: the loop was held up through the  *)
(* whole minute of a daily task, the request that made the task waited for *)
(* the locks until the time it shows had come, or the last run ended       *)
(* within 90 seconds of the shown time.                                    *)
ShownTimeKept ==
    task # NoTask /\ task.enabled =>
       /\ task.next # Zero
       /\ loop = "idle" /\ task.next < woken =>
             \/ flag \/ records > 0 \/ excused
             \/ task.mode = "daily" /\ task.next - task.last <= Guard
=============================================================================
