------------------------------- MODULE Backup -------------------------------
(***************************************************************************)
(* The backups of one server: CreateBackup, ListBackups, PruneBackups and  *)
(* DeleteBackup of internal/mc/backup.go, as the handlers                  *)
(* (internal/web/api_backups.go) and the scheduled tasks                   *)
(* (internal/mc/scheduler.go) call them.                                   *)
(*                                                                         *)
(* There is no lock: the calls meet in the directory, and every call of    *)
(* the file system is a step.  A name is the second in which the creation  *)
(* started and the attempt.  A file keeps its identity when it is renamed. *)
(*                                                                         *)
(* Reading a directory is one step, a directory that can be written can be *)
(* read, and no two archives carry the same time stamp.  Restoring is not  *)
(* modelled.                                                               *)
(***************************************************************************)
EXTENDS Integers, FiniteSets

CONSTANTS Threads, NoFile,
          MaxFiles,     \* bound: archives begun
          MaxBackups,   \* MaxBackupsPerServer
          Attempts,     \* the last attempt that may meet a partial file
          Keep,         \* the server's BackupKeep, 0 for everything
          Seconds,      \* what the clock may show
          MaxReboots    \* bound: restarts

VARIABLES
    place,    \* where each file is, or what became of it
    name,     \* the name of each file, without its prefix
    stamp,    \* the order in which the files were last written
    pc, base, attempt, file, doomed,  \* the calls: doomed is PruneBackups' list
    reboots,
    reused,   \* history: whether an archive was given the name of an earlier file
    torn      \* history: names whose file was deleted while it was written

dirVars  == <<place, name, stamp>>
callVars == <<pc, base, attempt, file, doomed>>
vars == <<dirVars, callVars, reboots, reused, torn>>

Places == {"unborn", "partial", "listed", "failed", "replaced", "deleted",
           "dropped", "pruned"}
Steps  == {"idle", "stat", "open", "write", "rename", "list", "prune"}
Zero   == CHOOSE s \in Seconds : TRUE   \* of a name not yet given
Names  == Seconds \X Nat
Files  == 1 .. MaxFiles  \* in the order of their creation

Partials(n) == {f \in Files : place[f] = "partial" /\ name[f] = n}
Listed(n)   == {f \in Files : place[f] = "listed" /\ name[f] = n}
Creating    == {t \in Threads : pc[t] \in {"stat", "open", "write", "rename"}}
Name(t)     == <<base[t], attempt[t]>>

(* ListBackups: names with the prefix of partial files are left out. *)
Archives == {f \in Files : place[f] = "listed"}

(* The archives that retention has spared: listed, or deleted by a request *)
NotPruned == {f \in Files : place[f] \in {"listed", "deleted"}}
Newer(f)  == {g \in NotPruned : stamp[g] > stamp[f]}

TypeOK ==
    /\ place \in [Files -> Places]
    /\ name \in [Files -> Names]
    /\ stamp \in [Files -> Nat]
    /\ pc \in [Threads -> Steps]
    /\ base \in [Threads -> Seconds]
    /\ attempt \in [Threads -> Nat]
    /\ file \in [Threads -> Files \cup {NoFile}]
    /\ doomed \in [Threads -> SUBSET Names]
    /\ reboots \in 0 .. MaxReboots
    /\ reused \in {"no", "yes"}
    /\ torn \subseteq Names
    /\ \A t \in Threads : (file[t] # NoFile) <=> (pc[t] \in {"write", "rename"})

Init ==
    /\ place = [f \in Files |-> "unborn"]
    /\ name = [f \in Files |-> <<Zero, 0>>]
    /\ stamp = [f \in Files |-> 0]
    /\ pc = [t \in Threads |-> "idle"]
    /\ base = [t \in Threads |-> Zero]
    /\ attempt = [t \in Threads |-> 0]
    /\ file = [t \in Threads |-> NoFile]
    /\ doomed = [t \in Threads |-> {}]
    /\ reboots = 0
    /\ reused = "no"
    /\ torn = {}

At(t, step)   == pc[t] = step
Goto(t, step) == pc' = [pc EXCEPT ![t] = step]

(* A creation is over; its local variables are out of scope. *)
Created(t, step) ==
    /\ Goto(t, step)
    /\ base' = [base EXCEPT ![t] = Zero]
    /\ attempt' = [attempt EXCEPT ![t] = 0]
    /\ file' = [file EXCEPT ![t] = NoFile]

-----------------------------------------------------------------------------
(* CreateBackup counts, then takes the time of the name.  It is local time *)
(* without a zone: it may show again what it has shown before.             *)
Full_OffByOne == Cardinality(Archives) > MaxBackups   \* variant
Full == Cardinality(Archives) >= MaxBackups

Create(t) ==
    /\ At(t, "idle")
    /\ ~Full
    /\ \E s \in Seconds : base' = [base EXCEPT ![t] = s]
    /\ attempt' = [attempt EXCEPT ![t] = 0]
    /\ Goto(t, "stat")
    /\ UNCHANGED <<dirVars, file, doomed, reboots, reused, torn>>

Retry(t) ==
    /\ attempt' = [attempt EXCEPT ![t] = @ + 1]
    /\ Goto(t, "stat")
    /\ UNCHANGED <<dirVars, base, file>>

Stat(t) ==
    /\ At(t, "stat")
    /\ \/ Listed(Name(t)) # {} /\ Retry(t)
       \/ /\ Listed(Name(t)) = {}
          /\ Goto(t, "open")
          /\ UNCHANGED <<dirVars, base, attempt, file>>
    /\ UNCHANGED <<doomed, reboots, reused, torn>>

(* O_CREATE|O_EXCL: a new file, none when the name exists *)
Unborn == {f \in Files : place[f] = "unborn" /\ \A g \in Files : g < f => place[g] # "unborn"}
Opened_Shared(n) == IF Partials(n) # {} THEN Partials(n) ELSE Unborn
                                    \* variant: without O_EXCL
Opened(n) == IF Partials(n) # {} THEN {} ELSE Unborn

GiveUp(t) == Created(t, "idle") /\ UNCHANGED dirVars

Open(t) ==
    /\ At(t, "open")
    /\ \/ \E f \in Opened(Name(t)) :
             /\ place' = [place EXCEPT ![f] = "partial"]
             /\ name' = [name EXCEPT ![f] = Name(t)]
             /\ file' = [file EXCEPT ![t] = f]
             /\ Goto(t, "write")
             /\ UNCHANGED <<stamp, base, attempt>>
       \/ /\ Opened(Name(t)) = {} /\ Partials(Name(t)) # {}
          /\ IF attempt[t] > Attempts THEN GiveUp(t) ELSE Retry(t)
       \/ GiveUp(t)     \* any other error
    /\ UNCHANGED <<doomed, reboots, reused, torn>>

Last(s) == \A f \in Files : stamp[f] < s

Finish(t) ==
    /\ At(t, "write")
    /\ \E s \in 1 .. Cardinality(Files) + 1 :
          /\ Last(s) /\ ~Last(s - 1)
          /\ stamp' = [stamp EXCEPT ![file[t]] = s]
    /\ Goto(t, "rename")
    /\ UNCHANGED <<place, name, base, attempt, file, doomed, reboots, reused, torn>>

(* The archive cannot be written, or the partial file not be renamed; the  *)
(* outcome of its removal is ignored.                                      *)
Fail(t) ==
    /\ pc[t] \in {"write", "rename"}
    /\ \/ place' = [f \in Files |-> IF f \in Partials(Name(t)) THEN "failed" ELSE place[f]]
       \/ UNCHANGED place
    /\ Created(t, "idle")
    /\ UNCHANGED <<name, stamp, doomed, reboots, reused, torn>>

(* os.Rename works on the name: it takes whichever file has it, and        *)
(* replaces an archive that has got the final name since Stat.             *)
Given(n) == {f \in Files : /\ name[f] = n
                           /\ place[f] \in {"listed", "replaced", "deleted", "dropped", "pruned"}}

Rename(t) ==
    LET n == Name(t)
    IN  /\ At(t, "rename")
        /\ Partials(n) # {}
        /\ place' = [f \in Files |-> IF f \in Partials(n) THEN "listed"
                                     ELSE IF f \in Listed(n) THEN "replaced"
                                     ELSE place[f]]
        /\ reused' = IF Given(n) = {} THEN reused ELSE "yes"
        /\ Created(t, "list")
        /\ UNCHANGED <<name, stamp, doomed, reboots, torn>>

-----------------------------------------------------------------------------
(* PruneBackups: what is past the newest Keep of the list *)
Surplus_Oldest(f) == Cardinality({g \in Archives : stamp[g] < stamp[f]}) >= Keep
                     \* variant: the list is sorted the other way round
Surplus(f) == Cardinality({g \in Archives : stamp[g] > stamp[f]}) >= Keep

List(t) ==
    LET surplus == {f \in Archives : Surplus(f)}
    IN  /\ At(t, "list")
        /\ IF Keep = 0 \/ surplus = {}
              THEN Goto(t, "idle") /\ UNCHANGED doomed
              ELSE /\ doomed' = [doomed EXCEPT ![t] = {name[f] : f \in surplus}]
                   /\ Goto(t, "prune")
        /\ UNCHANGED <<dirVars, base, attempt, file, reboots, reused, torn>>

(* One name of the list after the other; one that is gone, or cannot be    *)
(* removed, is passed over.                                                *)
Prune(t, n) ==
    /\ At(t, "prune")
    /\ n \in doomed[t]
    /\ \/ place' = [f \in Files |-> IF f \in Listed(n) THEN "pruned" ELSE place[f]]
       \/ UNCHANGED place
    /\ doomed' = [doomed EXCEPT ![t] = @ \ {n}]
    /\ Goto(t, IF doomed[t] = {n} THEN "idle" ELSE "prune")
    /\ UNCHANGED <<name, stamp, base, attempt, file, reboots, reused, torn>>

(* A request deletes a file by its name.  BackupPath admits the names of   *)
(* partial files too, also of one that a creation writes to: it goes on    *)
(* without the name, which another creation may take.                      *)
Delete(f) ==
    /\ place[f] \in {"listed", "partial"}
    /\ place' = [place EXCEPT ![f] = IF @ = "listed" THEN "deleted" ELSE "dropped"]
    /\ torn' = torn \cup {name[f] : t \in {u \in Threads : file[u] = f}}
    /\ UNCHANGED <<name, stamp, callVars, reboots, reused>>

(* The panel stops, however it does; partial files stay where they are. *)
Reboot ==
    /\ reboots < MaxReboots
    /\ reboots' = reboots + 1
    /\ pc' = [t \in Threads |-> "idle"]
    /\ base' = [t \in Threads |-> Zero]
    /\ attempt' = [t \in Threads |-> 0]
    /\ file' = [t \in Threads |-> NoFile]
    /\ doomed' = [t \in Threads |-> {}]
    /\ torn' = {}
    /\ UNCHANGED <<dirVars, reused>>

Next ==
    \/ \E t \in Threads :
          \/ Create(t) \/ Stat(t) \/ Open(t) \/ Finish(t) \/ Fail(t) \/ Rename(t) \/ List(t)
          \/ \E n \in doomed[t] : Prune(t, n)
    \/ \E f \in Files : Delete(f)
    \/ Reboot

Spec == Init /\ [][Next]_vars

-----------------------------------------------------------------------------
(* Two creations never "interleave into the same file" (backup.go:41):     *)
(* what one writes no other writes; and what is being written is not       *)
(* listed, renamed or removed - unless since the start of the panel a      *)
(* request deleted a partial file of that very name under its writer       *)
(* (api_backups.go:93-102): then another creation may take the name in the *)
(* same second, and the first one's rename lists the other's file.         *)
ArchivesWhole ==
    /\ \A t, u \in Threads : t # u /\ file[t] # NoFile => file[t] # file[u]
    /\ \A t \in Threads :
          file[t] # NoFile /\ Name(t) \notin torn => place[file[t]] = "partial"

(* The limit is checked before the archive exists: creations that overlap  *)
(* exceed it, but by no more than one each.                                *)
OverrunBounded == Cardinality(Archives) <= MaxBackups + Cardinality(Threads) - 1

(* Retention that runs after overlapping creations, on lists the others    *)
(* have outdated, never removes one of the newest Keep archives - as long  *)
(* as no name is used again.                                               *)
RetentionKeeps ==
    reused = "no" => \A f \in Files : place[f] = "pruned" => Cardinality(Newer(f)) >= Keep
=============================================================================
