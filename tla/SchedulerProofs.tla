-------------------------- MODULE SchedulerProofs --------------------------
(***************************************************************************)
(* Proofs about Scheduler for any set of schedules and any number of       *)
(* goroutines: as long as the lock was made only once, it excludes, no     *)
(* task is started twice, and no flag is left behind.                      *)
(***************************************************************************)
EXTENDS Scheduler, TLAPS

(* What the lock is taken for decides where a goroutine may stand. *)
JobInv ==
    \A t \in Threads :
        /\ job[t] = "none" <=> pc[t] = "idle"
        /\ job[t] = "claim" =>
              pc[t] \in {"test", "make", "load", "send", "locked", "mark"}
        /\ job[t] = "claimed" => pc[t] \in {"unload", "receive", "unlocked", "exec"}
        /\ job[t] = "refused" => pc[t] \in {"unload", "receive", "unlocked"}
        /\ job[t] = "release" => pc[t] \notin {"idle", "mark", "exec"}

(* Before the channel is made nobody is past making it; afterwards every   *)
(* operand is a channel that was made.                                     *)
ChanInv ==
    /\ ch = NilChan <=> made = 0
    /\ made = 0 => \A t \in Threads : pc[t] \in {"idle", "test", "make"}
    /\ \A t \in Threads : pc[t] \in {"send", "receive"} => reg[t] \in 1 .. made

(* A flag belongs to exactly one goroutine, which still has to clear it;   *)
(* whoever is about to set one found it clear and holds the lock.          *)
FlightInv ==
    MadeOnce =>
        /\ \A t \in Threads : InFlight(t) => cur[t] \in running
        /\ \A t, u \in Threads :
              InFlight(t) /\ InFlight(u) /\ cur[t] = cur[u] => t = u
        /\ \A t \in Threads : pc[t] = "mark" => cur[t] \notin running

IInv ==
    /\ TypeOK
    /\ JobInv
    /\ ChanInv
    /\ LockExcludes
    /\ FlightInv
    /\ FlagsOwned

-----------------------------------------------------------------------------
(* As long as there is one channel, a sender that finds room finds the     *)
(* lock free and takes it.                                                 *)
LEMMA SendFindsFree ==
    ASSUME TypeOK, ChanInv, MadeOnce, NEW t \in Threads, Send(t)
    PROVE  full = {} /\ full' = {1} /\ \A u \in Threads : ~Holds(u)
  <1>1. reg[t] \in 1 .. made /\ made \in Nat /\ full \subseteq 1 .. made
    BY DEF Send, ChanInv, TypeOK, VarsOK
  <1>2. made = 1 /\ reg[t] = 1
    BY <1>1 DEF MadeOnce
  <1>3. full = {}
    BY <1>1, <1>2 DEF Send, HasRoom
  <1>4. QED
    BY <1>2, <1>3 DEF Send, TypeOK, FullWhileHeld

(* A receive takes the only token there is. *)
LEMMA ReceiveFrees ==
    ASSUME TypeOK, ChanInv, MadeOnce, NEW t \in Threads, Receive(t)
    PROVE  full' = {}
  <1>1. reg[t] \in 1 .. made /\ made \in Nat /\ full \subseteq 1 .. made
    BY DEF Receive, ChanInv, TypeOK, VarsOK
  <1>2. made = 1 /\ reg[t] = 1
    BY <1>1 DEF MadeOnce
  <1>3. QED
    BY <1>1, <1>2 DEF Receive

-----------------------------------------------------------------------------
(* Every step of the module is one of these: the case split of the proofs. *)
LEMMA NextCases ==
    ASSUME [Next]_vars
    PROVE  \/ WakeUp
           \/ \E s \in Schedules : NextDue(s)
           \/ SkipRunning
           \/ \E t \in Threads :
                 \/ Test(t) \/ Make(t) \/ Load(t) \/ Send(t) \/ Unload(t) \/ Receive(t)
                 \/ Claim(t) \/ Mark(t) \/ Release(t)
           \/ \E w \in Workers :
                 \/ GiveUp(w) \/ Execute(w) \/ Executed(w) \/ Released(w) \/ Record(w)
                 \/ Launch(w)
           \/ \E w \in Workers, s \in Schedules : RunNow(w, s)
           \/ UNCHANGED vars
  BY DEF Next, LoopStep, Waiting, Going, TaskStep

(* Types; the channel is filled and emptied by whoever enters and leaves.  *)
LEMMA TypeStep == IInv /\ [Next]_vars => TypeOK'
  <1> SUFFICES ASSUME IInv, [Next]_vars PROVE TypeOK'
    OBVIOUS
  <1> USE SchedulerAssumption DEF IInv, TypeOK, VarsOK, FullWhileHeld, Steps,
     Jobs, JobInv, ChanInv, LockExcludes, MadeOnce, Holds, Threads, NilChan,
     lockVars
  <1>1. ASSUME WakeUp PROVE TypeOK'
    BY <1>1 DEF WakeUp
  <1>2. ASSUME NEW s \in Schedules, NextDue(s) PROVE TypeOK'
    BY <1>2 DEF NextDue, Begin
  <1>3. ASSUME SkipRunning PROVE TypeOK'
    BY <1>3 DEF SkipRunning, Finish
  <1>4. ASSUME NEW t \in Threads, Test(t) PROVE TypeOK'
    BY <1>4 DEF Test, Goto, Rest
  <1>5. ASSUME NEW t \in Threads, Make(t) PROVE TypeOK'
    BY <1>5 DEF Make, Goto, Rest
  <1>6. ASSUME NEW t \in Threads, Load(t) PROVE TypeOK'
    BY <1>6 DEF Load, Goto, Rest
  <1>7. ASSUME NEW t \in Threads, Send(t) PROVE TypeOK'
    <2>1. VarsOK'
      <3>1. reg[t] \in 1 .. made /\ full \subseteq 1 .. made
        BY <1>7 DEF Send
      <3>2. full' \subseteq 1 .. made' /\ made' = made
        BY <1>7, <3>1 DEF Send
      <3>3. reg' \in [Threads -> 0 .. made']
        BY <1>7, <3>2 DEF Send
      <3>4. QED
        BY <1>7, <3>2, <3>3 DEF Send, Goto, Rest
    <2>2. FullWhileHeld'
      <3>1. MadeOnce' => full' = {1} /\ Holds(t)'
        BY <1>7, SendFindsFree DEF Send, Goto
      <3>2. QED
        BY <3>1
    <2>3. QED
      BY <2>1, <2>2
  <1>8. ASSUME NEW t \in Threads, Unload(t) PROVE TypeOK'
    BY <1>8 DEF Unload, Goto, Rest
  <1>9. ASSUME NEW t \in Threads, Receive(t) PROVE TypeOK'
    <2>1. VarsOK'
      <3>1. reg[t] \in 1 .. made /\ full \subseteq 1 .. made
        BY <1>9 DEF Receive
      <3>2. full' \subseteq 1 .. made' /\ made' = made
        BY <1>9, <3>1 DEF Receive
      <3>3. reg' \in [Threads -> 0 .. made']
        BY <1>9, <3>2 DEF Receive
      <3>4. QED
        BY <1>9, <3>2, <3>3 DEF Receive, Goto, Rest
    <2>2. FullWhileHeld'
      <3>1. Holds(t) /\ ~Holds(t)'
        BY <1>9 DEF Receive, Goto
      <3>2. \A u \in Threads : MadeOnce /\ u # t => ~Holds(u)'
        BY <1>9, <3>1 DEF Receive, Goto
      <3>3. MadeOnce' => full' = {}
        BY <1>9, ReceiveFrees DEF Receive
      <3>4. QED
        BY <1>9, <3>1, <3>2, <3>3 DEF Receive
    <2>3. QED
      BY <2>1, <2>2
  <1>10. ASSUME NEW t \in Threads, Claim(t) PROVE TypeOK'
    BY <1>10 DEF Claim, IsRunning, AfterRefusal, Goto
  <1>11. ASSUME NEW t \in Threads, Mark(t) PROVE TypeOK'
    BY <1>11 DEF Mark, Goto
  <1>12. ASSUME NEW t \in Threads, Release(t) PROVE TypeOK'
    BY <1>12 DEF Release, Cleared, Goto
  <1>13. ASSUME NEW w \in Workers, GiveUp(w) PROVE TypeOK'
    BY <1>13 DEF GiveUp, Finish
  <1>14. ASSUME NEW w \in Workers, Execute(w) PROVE TypeOK'
    BY <1>14 DEF Execute, Goto
  <1>15. ASSUME NEW w \in Workers, Executed(w) PROVE TypeOK'
    BY <1>15 DEF Executed, Begin
  <1>16. ASSUME NEW w \in Workers, Released(w) PROVE TypeOK'
    BY <1>16 DEF Released, Goto
  <1>17. ASSUME NEW w \in Workers, Record(w) PROVE TypeOK'
    BY <1>17 DEF Record, Finish
  <1>18. ASSUME NEW w \in Workers, Launch(w) PROVE TypeOK'
    BY <1>18 DEF Launch
  <1>19. ASSUME NEW w \in Workers, NEW s \in Schedules, RunNow(w, s)
         PROVE  TypeOK'
    BY <1>19 DEF RunNow, Begin
  <1>20. CASE UNCHANGED vars
    BY <1>20 DEF vars
  <1> HIDE DEF IInv, TypeOK, VarsOK, FullWhileHeld, Steps, Jobs, JobInv,
     ChanInv, LockExcludes, MadeOnce, Holds, Threads, NilChan, lockVars
  <1>21. QED
    BY <1>1, <1>2, <1>3, <1>4, <1>5, <1>6, <1>7, <1>8, <1>9, <1>10, <1>11,
       <1>12, <1>13, <1>14, <1>15, <1>16, <1>17, <1>18, <1>19, <1>20,
       NextCases

(* A goroutine keeps to its errand until the lock is released.             *)
LEMMA JobStep == IInv /\ [Next]_vars => JobInv'
  <1> SUFFICES ASSUME IInv, [Next]_vars PROVE JobInv'
    OBVIOUS
  <1> USE SchedulerAssumption DEF IInv, TypeOK, VarsOK, FullWhileHeld, Steps,
     Jobs, JobInv, Threads, lockVars
  <1>1. ASSUME NEW s \in Schedules, NextDue(s) PROVE JobInv'
    BY <1>1 DEF NextDue, Begin
  <1>2. ASSUME NEW t \in Threads, Claim(t) PROVE JobInv'
    BY <1>2 DEF Claim, IsRunning, AfterRefusal, Goto
  <1>3. ASSUME NEW t \in Threads, Mark(t) PROVE JobInv'
    BY <1>3 DEF Mark, Goto
  <1>4. ASSUME NEW w \in Workers, Launch(w) PROVE JobInv'
    BY <1>4 DEF Launch
  <1>5. ASSUME NEW w \in Workers, NEW s \in Schedules, RunNow(w, s)
        PROVE  JobInv'
    BY <1>5 DEF RunNow, Begin
  <1>6. ASSUME NEW w \in Workers, Executed(w) PROVE JobInv'
    BY <1>6 DEF Executed, Begin
  <1>7. ASSUME WakeUp \/ SkipRunning PROVE JobInv'
    BY <1>7 DEF WakeUp, SkipRunning, Finish
  <1>8. ASSUME NEW t \in Threads, Test(t) \/ Make(t) \/ Load(t) \/ Send(t) \/
               Unload(t) \/ Receive(t) \/ Release(t)
        PROVE  JobInv'
    BY <1>8 DEF Test, Goto, Rest, Make, Load, Send, HasRoom, Unload, Receive,
       Release, Cleared
  <1>9. ASSUME NEW w \in Workers, GiveUp(w) \/ Execute(w) \/ Released(w) \/
               Record(w)
        PROVE  JobInv'
    BY <1>9 DEF GiveUp, Finish, Execute, Goto, Released, Record
  <1>10. CASE UNCHANGED vars
    BY <1>10 DEF vars
  <1> HIDE DEF IInv, TypeOK, VarsOK, FullWhileHeld, Steps, Jobs, JobInv,
     Threads, lockVars
  <1>11. QED
    BY <1>1, <1>2, <1>3, <1>4, <1>5, <1>6, <1>7, <1>8, <1>9, <1>10, NextCases

(* The field is nil until the first Make, and operands are made channels.  *)
LEMMA ChanStep == IInv /\ [Next]_vars => ChanInv'
  <1> SUFFICES ASSUME IInv, [Next]_vars PROVE ChanInv'
    OBVIOUS
  <1> USE SchedulerAssumption DEF IInv, TypeOK, VarsOK, FullWhileHeld, Steps,
     ChanInv, MadeOnce, Threads, NilChan, lockVars
  <1>1. ASSUME NEW s \in Schedules, NextDue(s) PROVE ChanInv'
    BY <1>1 DEF NextDue, Begin
  <1>2. ASSUME NEW t \in Threads, Test(t) PROVE ChanInv'
    BY <1>2 DEF Test, Goto, Rest
  <1>3. ASSUME NEW t \in Threads, Make(t) PROVE ChanInv'
    BY <1>3 DEF Make, Goto, Rest
  <1>4. ASSUME NEW t \in Threads, Load(t) PROVE ChanInv'
    BY <1>4 DEF Load, Goto, Rest
  <1>5. ASSUME NEW t \in Threads, Send(t) PROVE ChanInv'
    BY <1>5 DEF Send, HasRoom, Goto, Rest
  <1>6. ASSUME NEW t \in Threads, Unload(t) PROVE ChanInv'
    BY <1>6 DEF Unload, Goto, Rest
  <1>7. ASSUME NEW t \in Threads, Receive(t) PROVE ChanInv'
    BY <1>7 DEF Receive, Goto, Rest
  <1>8. ASSUME NEW w \in Workers, Launch(w) PROVE ChanInv'
    BY <1>8 DEF Launch
  <1>9. ASSUME NEW w \in Workers, NEW s \in Schedules, RunNow(w, s)
        PROVE  ChanInv'
    BY <1>9 DEF RunNow, Begin
  <1>10. ASSUME WakeUp \/ SkipRunning PROVE ChanInv'
    BY <1>10 DEF WakeUp, SkipRunning, Finish
  <1>11. ASSUME NEW t \in Threads, Claim(t) \/ Mark(t) \/ Release(t)
         PROVE  ChanInv'
    BY <1>11 DEF Claim, IsRunning, AfterRefusal, Goto, Mark, Release, Cleared
  <1>12. ASSUME NEW w \in Workers, GiveUp(w) \/ Execute(w) \/ Executed(w) \/
                Released(w) \/ Record(w)
         PROVE  ChanInv'
    BY <1>12 DEF GiveUp, Finish, Execute, Goto, Executed, Begin, Released,
       Record
  <1>13. CASE UNCHANGED vars
    BY <1>13 DEF vars
  <1> HIDE DEF IInv, TypeOK, VarsOK, FullWhileHeld, Steps, ChanInv, MadeOnce,
     Threads, NilChan, lockVars
  <1>14. QED
    BY <1>1, <1>2, <1>3, <1>4, <1>5, <1>6, <1>7, <1>8, <1>9, <1>10, <1>11,
       <1>12, <1>13, NextCases

(* With one channel, a send that finds room finds nobody inside.           *)
LEMMA LockStep == IInv /\ [Next]_vars => LockExcludes'
  <1> SUFFICES ASSUME IInv, [Next]_vars PROVE LockExcludes'
    OBVIOUS
  <1> USE SchedulerAssumption DEF IInv, TypeOK, VarsOK, FullWhileHeld,
     ChanInv, LockExcludes, MadeOnce, Holds, Threads, NilChan, lockVars
  <1>1. ASSUME NEW t \in Threads, Make(t) PROVE LockExcludes'
    BY <1>1 DEF Make, Goto, Rest
  <1>2. ASSUME NEW t \in Threads, Send(t) PROVE LockExcludes'
    <2>1. MadeOnce' => \A u \in Threads : u # t => ~Holds(u)'
      BY <1>2, SendFindsFree DEF Send, Goto
    <2>2. QED
      BY <2>1
  <1>3. ASSUME NEW t \in Threads, Receive(t) PROVE LockExcludes'
    BY <1>3 DEF Receive, Goto, Rest
  <1>4. ASSUME NEW t \in Threads, Claim(t) PROVE LockExcludes'
    BY <1>4 DEF Claim, IsRunning, AfterRefusal, Goto
  <1>5. ASSUME NEW t \in Threads, Mark(t) PROVE LockExcludes'
    BY <1>5 DEF Mark, Goto
  <1>6. ASSUME NEW t \in Threads, Release(t) PROVE LockExcludes'
    BY <1>6 DEF Release, Cleared, Goto
  <1>7. ASSUME NEW t \in Threads, Unload(t) PROVE LockExcludes'
    BY <1>7 DEF Unload, Goto, Rest
  <1>8. ASSUME NEW w \in Workers, Launch(w) PROVE LockExcludes'
    BY <1>8 DEF Launch
  <1>9. ASSUME WakeUp \/ SkipRunning PROVE LockExcludes'
    BY <1>9 DEF WakeUp, SkipRunning, Finish
  <1>10. ASSUME NEW s \in Schedules, NextDue(s) PROVE LockExcludes'
    BY <1>10 DEF NextDue, Begin
  <1>11. ASSUME NEW t \in Threads, Test(t) \/ Load(t) PROVE LockExcludes'
    BY <1>11 DEF Test, Goto, Rest, Load
  <1>12. ASSUME NEW w \in Workers, GiveUp(w) \/ Execute(w) \/ Executed(w) \/
                Released(w) \/ Record(w)
         PROVE  LockExcludes'
    BY <1>12 DEF GiveUp, Finish, Execute, Goto, Executed, Begin, Released,
       Record
  <1>13. ASSUME NEW w \in Workers, NEW s \in Schedules, RunNow(w, s)
         PROVE  LockExcludes'
    BY <1>13 DEF RunNow, Begin
  <1>14. CASE UNCHANGED vars
    BY <1>14 DEF vars
  <1> HIDE DEF IInv, TypeOK, VarsOK, FullWhileHeld, ChanInv, LockExcludes,
     MadeOnce, Holds, Threads, NilChan, lockVars
  <1>15. QED
    BY <1>1, <1>2, <1>3, <1>4, <1>5, <1>6, <1>7, <1>8, <1>9, <1>10, <1>11,
       <1>12, <1>13, <1>14, NextCases

(* Check and mark happen under one lock, so the flag is still clear when   *)
(* it is set; a finished task clears the flag that is its own.             *)
LEMMA FlightStep == IInv /\ [Next]_vars => FlightInv'
  <1> SUFFICES ASSUME IInv, [Next]_vars PROVE FlightInv'
    OBVIOUS
  <1> USE SchedulerAssumption DEF IInv, TypeOK, VarsOK, FullWhileHeld, Steps,
     Jobs, JobInv, ChanInv, LockExcludes, FlightInv, MadeOnce, Holds,
     InFlight, Threads, NilChan, lockVars
  <1>1. ASSUME NEW t \in Threads, Make(t) PROVE FlightInv'
    BY <1>1 DEF Make, Goto, Rest
  <1>2. ASSUME NEW t \in Threads, Claim(t) PROVE FlightInv'
    BY <1>2 DEF Claim, IsRunning, AfterRefusal, Goto
  <1>3. ASSUME NEW t \in Threads, Mark(t) PROVE FlightInv'
    BY <1>3 DEF Mark, Goto
  <1>4. ASSUME NEW t \in Threads, Release(t) PROVE FlightInv'
    BY <1>4 DEF Release, Cleared, Goto
  <1>5. ASSUME NEW w \in Workers, Executed(w) PROVE FlightInv'
    BY <1>5 DEF Executed, Begin
  <1>6. ASSUME NEW w \in Workers, Launch(w) PROVE FlightInv'
    BY <1>6 DEF Launch
  <1>7. ASSUME NEW w \in Workers, NEW s \in Schedules, RunNow(w, s)
        PROVE  FlightInv'
    BY <1>7 DEF RunNow, Begin
  <1>8. ASSUME NEW s \in Schedules, NextDue(s) PROVE FlightInv'
    BY <1>8 DEF NextDue, Begin
  <1>9. ASSUME WakeUp \/ SkipRunning PROVE FlightInv'
    BY <1>9 DEF WakeUp, SkipRunning, Finish
  <1>10. ASSUME NEW t \in Threads, Test(t) \/ Load(t) \/ Send(t) \/ Unload(t)
                \/ Receive(t)
         PROVE  FlightInv'
    BY <1>10 DEF Test, Goto, Rest, Load, Send, HasRoom, Unload, Receive
  <1>11. ASSUME NEW w \in Workers, GiveUp(w) \/ Execute(w) \/ Released(w) \/
                Record(w)
         PROVE  FlightInv'
    BY <1>11 DEF GiveUp, Finish, Execute, Goto, Released, Record
  <1>12. CASE UNCHANGED vars
    BY <1>12 DEF vars
  <1> HIDE DEF IInv, TypeOK, VarsOK, FullWhileHeld, Steps, Jobs, JobInv,
     ChanInv, LockExcludes, FlightInv, MadeOnce, Holds, InFlight, Threads,
     NilChan, lockVars
  <1>13. QED
    BY <1>1, <1>2, <1>3, <1>4, <1>5, <1>6, <1>7, <1>8, <1>9, <1>10, <1>11,
       <1>12, NextCases

(* A flag passes from the loop to its task, and from execute to release.   *)
LEMMA OwnedStep == IInv /\ [Next]_vars => FlagsOwned'
  <1> SUFFICES ASSUME IInv, [Next]_vars PROVE FlagsOwned'
    OBVIOUS
  <1> USE SchedulerAssumption DEF IInv, TypeOK, VarsOK, FullWhileHeld, Steps,
     Jobs, JobInv, ChanInv, LockExcludes, FlightInv, FlagsOwned, MadeOnce,
     Holds, InFlight, Threads, NilChan, lockVars
  <1>1. ASSUME NEW s \in Schedules, NextDue(s) PROVE FlagsOwned'
    BY <1>1 DEF NextDue, Begin
  <1>2. ASSUME NEW t \in Threads, Make(t) PROVE FlagsOwned'
    BY <1>2 DEF Make, Goto, Rest
  <1>3. ASSUME NEW t \in Threads, Claim(t) PROVE FlagsOwned'
    BY <1>3 DEF Claim, IsRunning, AfterRefusal, Goto
  <1>4. ASSUME NEW t \in Threads, Mark(t) PROVE FlagsOwned'
    BY <1>4 DEF Mark, Goto
  <1>5. ASSUME NEW t \in Threads, Release(t) PROVE FlagsOwned'
    BY <1>5 DEF Release, Cleared, Goto
  <1>6. ASSUME NEW w \in Workers, Executed(w) PROVE FlagsOwned'
    BY <1>6 DEF Executed, Begin
  <1>7. ASSUME NEW w \in Workers, Launch(w) PROVE FlagsOwned'
    BY <1>7 DEF Launch
  <1>8. ASSUME NEW w \in Workers, NEW s \in Schedules, RunNow(w, s)
        PROVE  FlagsOwned'
    BY <1>8 DEF RunNow, Begin
  <1>9. ASSUME WakeUp \/ SkipRunning PROVE FlagsOwned'
    BY <1>9 DEF WakeUp, SkipRunning, Finish
  <1>10. ASSUME NEW t \in Threads, Test(t) \/ Load(t) \/ Send(t) \/ Unload(t)
                \/ Receive(t)
         PROVE  FlagsOwned'
    BY <1>10 DEF Test, Goto, Rest, Load, Send, HasRoom, Unload, Receive
  <1>11. ASSUME NEW w \in Workers, GiveUp(w) \/ Execute(w) \/ Released(w) \/
                Record(w)
         PROVE  FlagsOwned'
    BY <1>11 DEF GiveUp, Finish, Execute, Goto, Released, Record
  <1>12. CASE UNCHANGED vars
    BY <1>12 DEF vars
  <1> HIDE DEF IInv, TypeOK, VarsOK, FullWhileHeld, Steps, Jobs, JobInv,
     ChanInv, LockExcludes, FlightInv, FlagsOwned, MadeOnce, Holds, InFlight,
     Threads, NilChan, lockVars
  <1>13. QED
    BY <1>1, <1>2, <1>3, <1>4, <1>5, <1>6, <1>7, <1>8, <1>9, <1>10, <1>11,
       <1>12, NextCases

-----------------------------------------------------------------------------
(* The invariant holds initially and every step preserves it. *)
LEMMA Invariance == Spec => []IInv
  <1>1. Init => IInv
    <2> SUFFICES ASSUME Init PROVE IInv
      OBVIOUS
    <2> USE SchedulerAssumption DEF Init, NilChan
    <2>1. TypeOK
      BY DEF TypeOK, VarsOK, FullWhileHeld, Steps, Jobs, Holds, Threads
    <2>2. JobInv /\ ChanInv
      BY DEF JobInv, ChanInv
    <2>3. LockExcludes /\ FlightInv /\ FlagsOwned
      BY DEF LockExcludes, Holds, FlightInv, FlagsOwned, InFlight
    <2>4. QED
      BY <2>1, <2>2, <2>3 DEF IInv
  <1>2. IInv /\ [Next]_vars => IInv'
    BY TypeStep, JobStep, ChanStep, LockStep, FlightStep, OwnedStep DEF IInv
  <1>3. QED
    BY <1>1, <1>2, PTL DEF Spec

(* Every variable keeps its type, and the first channel is full exactly    *)
(* while somebody is inside of the lock.                                   *)
THEOREM TypeCorrect == Spec => []TypeOK
  <1>1. IInv => TypeOK
    BY DEF IInv
  <1>2. QED
    BY <1>1, Invariance, PTL

(* A chanMutex that was made once is a mutex. *)
THEOREM MutualExclusion == Spec => []LockExcludes
  <1>1. IInv => LockExcludes
    BY DEF IInv
  <1>2. QED
    BY <1>1, Invariance, PTL

(* Under such a lock no schedule is ever executed by two goroutines. *)
THEOREM NoDoubleStart == Spec => []NeverTwice
  <1>1. IInv => NeverTwice
    BY DEF IInv, NeverTwice, JobInv, FlightInv, InFlight, Threads, TypeOK, VarsOK, Jobs
  <1>2. QED
    BY <1>1, Invariance, PTL

(* Under such a lock every flag has a goroutine that will clear it. *)
THEOREM NoFlagLeft == Spec => []FlagsOwned
  <1>1. IInv => FlagsOwned
    BY DEF IInv
  <1>2. QED
    BY <1>1, Invariance, PTL

=============================================================================
