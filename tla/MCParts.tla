------------------------------ MODULE MCParts ------------------------------
(***************************************************************************)
(* Seven components that share no state, side by side: in each behavior    *)
(* one of them takes steps and the others rest.                            *)
(***************************************************************************)
EXTENDS Integers, Sequences, FiniteSets, TLC

CONSTANTS Moving,   \* the parts that may be the one
          Secrets, NoSecret, Tokens, Sessions, Handlers, PendingTTL, EnrolTTL,
          FirstTime, LastTime, MaxArrivals,
          Keys, Window, MaxHits, MaxTracked,
          Streams, Capacity, Burst, Queue, MaxLines,
          MaxText,
          TicksPerMinute, MinutesPerDay, DaysPerWeek, Intervals, DaySets, Horizon, MaxEdits,
          Fields, Values,
          Threads, NoFile, MaxFiles, MaxBackups, Attempts, Keep, Seconds, MaxReboots

VARIABLES
    part,
    clock, user, saved, pending, enrol, h, spent, arrivals, tried, accepted,
    hits, answer, lately,
    buf, start, count, appended, subs, chan, at, sent, joined, missed,
    parser, text,
    now, woken, loop, task, draft, flag, records, excused, edits,
    kind, held, stored, save, named,
    place, name, stamp, pc, base, attempt, file, doomed, reboots, reused, torn

(* The second factor: a secret is told from none, and the counter of the   *)
(* step before the first one is not zero.                                  *)
ASSUME LoginAssumption ==
    /\ NoSecret \notin Secrets
    /\ FirstTime \in Nat /\ FirstTime > 1 /\ LastTime \in Nat /\ FirstTime <= LastTime
    /\ PendingTTL \in Nat /\ EnrolTTL \in Nat /\ MaxArrivals \in Nat

(* The limiters are made with 8, 10 and 12 hits (server.go:63-65).         *)
ASSUME LimiterAssumption ==
    Window \in Nat /\ MaxHits \in Nat \ {0} /\ MaxTracked \in Nat

ASSUME ConsoleAssumption ==
    Capacity \in Nat \ {0} /\ Burst \in Nat /\ Queue \in Nat /\ MaxLines \in Nat

ASSUME CompletionAssumption == MaxText \in Nat

ASSUME TimetableAssumption ==
    /\ TicksPerMinute \in Nat \ {0} /\ MinutesPerDay \in Nat \ {0}
    /\ DaysPerWeek \in Nat \ {0}
    /\ Intervals \subseteq Nat \ {0} /\ DaySets \subseteq SUBSET (0..DaysPerWeek - 1)
    /\ Horizon \in Nat /\ MaxEdits \in Nat

ASSUME BackupAssumption ==
    /\ IsFiniteSet(Threads) /\ MaxFiles \in Nat /\ NoFile \notin 1 .. MaxFiles
    /\ Seconds # {}
    /\ MaxBackups \in Nat \ {0} /\ Attempts \in Nat /\ Keep \in Nat
    /\ MaxReboots \in Nat

loginVars == <<clock, user, saved, pending, enrol, h, spent, arrivals, tried, accepted>>
limiterVars == <<hits, answer, lately>>
consoleVars == <<buf, start, count, appended, subs, chan, at, sent, joined, missed>>
completionVars == <<parser, text>>
timetableVars == <<now, woken, loop, task, draft, flag, records, excused, edits>>
settingsVars == <<kind, held, stored, save, named>>
backupVars == <<place, name, stamp, pc, base, attempt, file, doomed, reboots, reused, torn>>

Login       == INSTANCE Login
RateLimiter == INSTANCE RateLimiter
Console     == INSTANCE Console
Completion  == INSTANCE Completion
Timetable   == INSTANCE Timetable
Settings    == INSTANCE Settings WITH file <- stored
Backup      == INSTANCE Backup

Init ==
    /\ part \in Moving
    /\ Login!Init /\ (part # "login" => user.secret = NoSecret)
    /\ RateLimiter!Init /\ Console!Init /\ Completion!Init /\ Timetable!Init
    /\ Settings!Init /\ Backup!Init
    /\ part # "settings" =>
          kind = "ai" /\ stored = [f \in Fields |-> CHOOSE v \in Values : TRUE]

Next ==
    \/ /\ part = "login" /\ Login!Next
       /\ UNCHANGED <<part, limiterVars, consoleVars, completionVars,
                      timetableVars, settingsVars, backupVars>>
    \/ /\ part = "limiter" /\ RateLimiter!Next
       /\ UNCHANGED <<part, loginVars, consoleVars, completionVars,
                      timetableVars, settingsVars, backupVars>>
    \/ /\ part = "console" /\ Console!Next
       /\ UNCHANGED <<part, loginVars, limiterVars, completionVars,
                      timetableVars, settingsVars, backupVars>>
    \/ /\ part = "completion" /\ Completion!Next
       /\ UNCHANGED <<part, loginVars, limiterVars, consoleVars,
                      timetableVars, settingsVars, backupVars>>
    \/ /\ part = "timetable" /\ Timetable!Next
       /\ UNCHANGED <<part, loginVars, limiterVars, consoleVars,
                      completionVars, settingsVars, backupVars>>
    \/ /\ part = "settings" /\ Settings!Next
       /\ UNCHANGED <<part, loginVars, limiterVars, consoleVars,
                      completionVars, timetableVars, backupVars>>
    \/ /\ part = "backup" /\ Backup!Next
       /\ UNCHANGED <<part, loginVars, limiterVars, consoleVars,
                      completionVars, timetableVars, settingsVars>>

vars == <<part, loginVars, limiterVars, consoleVars, completionVars,
          timetableVars, settingsVars, backupVars>>

Spec == Init /\ [][Next]_vars

Symmetry == Permutations(Handlers) \cup Permutations(Secrets)

(* The type invariants of the seven *)
TypeOK == /\ Login!TypeOK /\ RateLimiter!TypeOK /\ Console!TypeOK
          /\ Completion!TypeOK /\ Timetable!TypeOK /\ Settings!TypeOK
          /\ Backup!TypeOK

(* The properties that the modules state and explain *)
CodesSpent     == Login!CodesSpent
NoReplay       == Login!NoReplay
WindowFair     == RateLimiter!WindowFair
RingIsTail     == Console!RingIsTail
StreamInOrder  == Console!StreamInOrder
CutsDontMatter == Completion!CutsDontMatter
ShownTimeKept  == Timetable!ShownTimeKept
SavesKept      == Settings!SavesKept
ArchivesWhole  == Backup!ArchivesWhole
OverrunBounded == Backup!OverrunBounded
RetentionKeeps == Backup!RetentionKeeps
=============================================================================
