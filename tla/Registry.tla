------------------------------ MODULE Registry ------------------------------
(***************************************************************************)
(* The manager of all servers (internal/mc/manager.go): the registry of    *)
(* live instances, their configurations in memory, and the server.json of  *)
(* each one on disk (internal/store/store.go).  Handlers and scheduled     *)
(* tasks create, edit, start and delete servers concurrently; the panel    *)
(* may crash or exit at any moment and loads what it finds on disk.        *)
(*                                                                         *)
(* A configuration is the set of edits it holds.  Identifiers carry a      *)
(* random suffix: one is never given twice.  The lifecycle of a process is *)
(* module Instance; here it is alive or not, launched by a handler that    *)
(* holds the instance or by the restart timer of a crash.                  *)
(***************************************************************************)
EXTENDS Naturals

CONSTANTS Servers,    \* identifiers
          Threads,    \* handlers and scheduled tasks
          Edits,      \* changes that the calls of MutateConfig make
          NoServer,
          NoThread,
          MaxBoots    \* bound: times the panel starts again

ASSUME RegistryAssumption ==
    /\ NoServer \notin Servers
    /\ NoThread \notin Threads
    /\ MaxBoots \in Nat

VARIABLES
    \* the manager
    instances,   \* identifiers in the map
    memory,      \* configuration of each instance
    saveMu,      \* holder of each instance's save lock
    \* the disk
    stored,      \* servers that have a server.json
    disk,        \* its content
    \* the processes
    alive,       \* instances with a process
    restarting,  \* instances whose crash handler sleeps before Start
    \* the calls
    pc, target, edit, updated,
    boots,
    \* history, read by properties only
    used,        \* identifiers ever stored
    acked,       \* edits whose MutateConfig reported success
    gone,        \* servers whose Delete reported success
    lagging      \* servers whose last save failed

panelVars == <<instances, memory, saveMu>>
diskVars  == <<stored, disk>>
procVars  == <<alive, restarting>>
callVars  == <<pc, target, edit, updated>>
histVars  == <<used, acked, gone, lagging>>
vars      == <<panelVars, diskVars, procVars, callVars, boots, histVars>>

Steps == {"idle", "register", "lock", "mutate", "recheck", "save",
          "check", "kill", "unregister", "barrier", "remove", "start"}

(* The calls that are inside of MutateConfig's transaction. *)
Saving(t, s) == pc[t] \in {"mutate", "recheck", "save"} /\ target[t] = s

TypeOK ==
    /\ instances \subseteq Servers
    /\ memory \in [Servers -> SUBSET Edits]
    /\ saveMu \in [Servers -> Threads \cup {NoThread}]
    /\ stored \subseteq Servers
    /\ disk \in [Servers -> SUBSET Edits]
    /\ alive \subseteq Servers
    /\ restarting \subseteq Servers
    /\ pc \in [Threads -> Steps]
    /\ target \in [Threads -> Servers \cup {NoServer}]
    /\ edit \in [Threads -> SUBSET Edits]
    /\ updated \in [Threads -> SUBSET Edits]
    /\ boots \in 0 .. MaxBoots
    /\ used \subseteq Servers
    /\ acked \in [Servers -> SUBSET Edits]
    /\ gone \subseteq Servers
    /\ lagging \subseteq Servers
    /\ \A t \in Threads : pc[t] = "idle" <=> target[t] = NoServer
    /\ \A t \in Threads, s \in Servers : Saving(t, s) <=> saveMu[s] = t

(* NewManager registers an instance for every configuration it can read. *)
Init ==
    /\ stored \in SUBSET Servers
    /\ disk = [s \in Servers |-> {}]
    /\ instances = stored
    /\ memory = disk
    /\ saveMu = [s \in Servers |-> NoThread]
    /\ alive = {}
    /\ restarting = {}
    /\ pc = [t \in Threads |-> "idle"]
    /\ target = [t \in Threads |-> NoServer]
    /\ edit = [t \in Threads |-> {}]
    /\ updated = [t \in Threads |-> {}]
    /\ boots = 0
    /\ used = stored
    /\ acked = [s \in Servers |-> {}]
    /\ gone = {}
    /\ lagging = {}

-----------------------------------------------------------------------------
(* Control of a call. *)

At(t, step, s) == pc[t] = step /\ target[t] = s

Goto(t, step) == pc' = [pc EXCEPT ![t] = step] /\ UNCHANGED <<target, edit, updated>>

(* A call looks its server up in the map, under the map's read lock. *)
Begin(t, step, s, change) ==
    /\ pc[t] = "idle"
    /\ pc' = [pc EXCEPT ![t] = step]
    /\ target' = [target EXCEPT ![t] = s]
    /\ edit' = [edit EXCEPT ![t] = change]
    /\ UNCHANGED updated

Return(t) ==
    /\ pc' = [pc EXCEPT ![t] = "idle"]
    /\ target' = [target EXCEPT ![t] = NoServer]
    /\ edit' = [edit EXCEPT ![t] = {}]
    /\ updated' = [updated EXCEPT ![t] = {}]

-----------------------------------------------------------------------------
(* Create and Import.  A save that fails returns before anything is kept.  *)

SaveNew(t, s) ==
    /\ s \notin used
    /\ Begin(t, "register", s, {})
    /\ stored' = stored \cup {s}
    /\ used' = used \cup {s}
    /\ UNCHANGED <<panelVars, disk, procVars, boots, acked, gone, lagging>>

Register(t, s) ==
    /\ At(t, "register", s)
    /\ instances' = instances \cup {s}
    /\ memory' = [memory EXCEPT ![s] = {}]
    /\ Return(t)
    /\ UNCHANGED <<saveMu, diskVars, procVars, boots, histVars>>

-----------------------------------------------------------------------------
(* MutateConfig.                                                           *)

BeginEdit(t, s, e) ==
    /\ s \in instances
    /\ Begin(t, "lock", s, {e})
    /\ UNCHANGED <<panelVars, diskVars, procVars, boots, histVars>>

LockSave_Skipped(t, s) == UNCHANGED saveMu   \* variant: saves are not serialized

LockSave(t, s) == saveMu[s] = NoThread /\ saveMu' = [saveMu EXCEPT ![s] = t]

StartEdit(t, s) ==
    /\ At(t, "lock", s)
    /\ LockSave(t, s)
    /\ Goto(t, "mutate")
    /\ UNCHANGED <<instances, memory, diskVars, procVars, boots, histVars>>

Unlock(s) == saveMu' = [saveMu EXCEPT ![s] = NoThread]

(* fn rejects the change, a limit for instance. *)
RefuseEdit_StaysLocked(t, s) ==   \* variant: the early return keeps the lock
    /\ At(t, "mutate", s)
    /\ Return(t)
    /\ UNCHANGED <<panelVars, diskVars, procVars, boots, histVars>>

RefuseEdit(t, s) ==
    /\ At(t, "mutate", s)
    /\ Unlock(s)
    /\ Return(t)
    /\ UNCHANGED <<instances, memory, diskVars, procVars, boots, histVars>>

(* The live configuration changes before anything is written. *)
Mutate(t, s) ==
    /\ At(t, "mutate", s)
    /\ memory' = [memory EXCEPT ![s] = @ \cup edit[t]]
    /\ updated' = [updated EXCEPT ![t] = memory[s] \cup edit[t]]
    /\ pc' = [pc EXCEPT ![t] = "recheck"]
    /\ UNCHANGED <<instances, saveMu, diskVars, procVars, target, edit, boots, histVars>>

StillRegistered_Assumed(s) == TRUE   \* variant: no second look at the map

StillRegistered(s) == s \in instances

Recheck(t, s) ==
    /\ At(t, "recheck", s)
    /\ \/ StillRegistered(s) /\ Goto(t, "save") /\ UNCHANGED saveMu
       \/ ~StillRegistered(s) /\ Return(t) /\ Unlock(s)
    /\ UNCHANGED <<instances, memory, diskVars, procVars, boots, histVars>>

SavedCopy_Edit(t, s) == disk[s] \cup edit[t]   \* variant: the edit alone is merged

SavedCopy(t, s) == updated[t]

(* SaveServer creates the directory again if it is gone, and renames a     *)
(* complete temporary file over server.json: all or nothing.               *)
Save(t, s) ==
    /\ At(t, "save", s)
    /\ stored' = stored \cup {s}
    /\ disk' = [disk EXCEPT ![s] = SavedCopy(t, s)]
    /\ acked' = [acked EXCEPT ![s] = @ \cup edit[t]]
    /\ lagging' = lagging \ {s}
    /\ Unlock(s)
    /\ Return(t)
    /\ UNCHANGED <<instances, memory, procVars, boots, used, gone>>

(* The disk is full or read-only: the caller gets the error, and the live  *)
(* configuration keeps the change.                                         *)
SaveFails(t, s) ==
    /\ At(t, "save", s)
    /\ lagging' = lagging \cup {s}
    /\ Unlock(s)
    /\ Return(t)
    /\ UNCHANGED <<instances, memory, diskVars, procVars, boots, used, acked, gone>>

-----------------------------------------------------------------------------
(* Delete.                                                                 *)

BeginDelete(t, s) ==
    /\ s \in instances
    /\ Begin(t, "check", s, {})
    /\ UNCHANGED <<panelVars, diskVars, procVars, boots, histVars>>

CheckState(t, s) ==
    /\ At(t, "check", s)
    /\ Goto(t, IF s \in alive THEN "kill" ELSE "unregister")
    /\ UNCHANGED <<panelVars, diskVars, procVars, boots, histVars>>

(* Kill waits for the exit; it fails on a server that has just stopped,    *)
(* and then so does Delete.                                                *)
KillFirst(t, s) ==
    /\ At(t, "kill", s)
    /\ \/ s \in alive /\ alive' = alive \ {s} /\ Goto(t, "unregister")
       \/ s \notin alive /\ UNCHANGED alive /\ Return(t)
    /\ UNCHANGED <<panelVars, diskVars, restarting, boots, histVars>>

Unregister(t, s) ==
    /\ At(t, "unregister", s)
    /\ instances' = instances \ {s}
    /\ Goto(t, "barrier")
    /\ UNCHANGED <<memory, saveMu, diskVars, procVars, boots, histVars>>

NoSaveUnderWay_Unchecked(s) == TRUE   \* variant: no barrier

NoSaveUnderWay(s) == saveMu[s] = NoThread

(* saveMu is taken and released at once: saves already begun are over. *)
Barrier(t, s) ==
    /\ At(t, "barrier", s)
    /\ NoSaveUnderWay(s)
    /\ Goto(t, "remove")
    /\ UNCHANGED <<panelVars, diskVars, procVars, boots, histVars>>

Remove(t, s) ==
    /\ At(t, "remove", s)
    /\ stored' = stored \ {s}
    /\ disk' = [disk EXCEPT ![s] = {}]
    /\ gone' = gone \cup {s}
    /\ Return(t)
    /\ UNCHANGED <<panelVars, procVars, boots, used, acked, lagging>>

(* RemoveAll stops at an entry it cannot remove, before or after it has    *)
(* removed server.json: Delete reports the error.                          *)
RemoveFails(t, s) ==
    /\ At(t, "remove", s)
    /\ \/ stored' = stored \ {s} /\ disk' = [disk EXCEPT ![s] = {}]
       \/ UNCHANGED diskVars
    /\ Return(t)
    /\ UNCHANGED <<panelVars, procVars, boots, histVars>>

-----------------------------------------------------------------------------
(* The processes.                                                          *)

BeginStart(t, s) ==
    /\ s \in instances
    /\ Begin(t, "start", s, {})
    /\ UNCHANGED <<panelVars, diskVars, procVars, boots, histVars>>

(* The handler calls Start on the instance it holds, registered or not;    *)
(* a server that is not stopped refuses.                                   *)
Start(t, s) ==
    /\ At(t, "start", s)
    /\ alive' = alive \cup {s}
    /\ Return(t)
    /\ UNCHANGED <<panelVars, diskVars, restarting, boots, histVars>>

(* A process ends by itself; after a crash a timer may start it again. *)
Exit(s) ==
    /\ s \in alive
    /\ alive' = alive \ {s}
    /\ restarting' \in {restarting, restarting \cup {s}}
    /\ UNCHANGED <<panelVars, diskVars, callVars, boots, histVars>>

AutoRestart(s) ==
    /\ s \in restarting
    /\ restarting' = restarting \ {s}
    /\ alive' = alive \cup {s}
    /\ UNCHANGED <<panelVars, diskVars, callVars, boots, histVars>>

-----------------------------------------------------------------------------
(* The panel crashes or exits, at any point of any call, and starts again. *)

Reboot ==
    /\ boots < MaxBoots
    /\ boots' = boots + 1
    /\ instances' = stored
    /\ memory' = disk
    /\ saveMu' = [s \in Servers |-> NoThread]
    /\ alive' = {}
    /\ restarting' = {}
    /\ pc' = [t \in Threads |-> "idle"]
    /\ target' = [t \in Threads |-> NoServer]
    /\ edit' = [t \in Threads |-> {}]
    /\ updated' = [t \in Threads |-> {}]
    /\ lagging' = {}
    /\ UNCHANGED <<diskVars, used, acked, gone>>

-----------------------------------------------------------------------------

Request(t, s) ==
    \/ SaveNew(t, s) \/ BeginDelete(t, s) \/ BeginStart(t, s)
    \/ \E e \in Edits : BeginEdit(t, s, e)

Locking(t, s) == StartEdit(t, s) \/ Barrier(t, s)

Working(t, s) ==
    \/ Register(t, s) \/ RefuseEdit(t, s) \/ Mutate(t, s) \/ Recheck(t, s)
    \/ Save(t, s) \/ SaveFails(t, s)
    \/ CheckState(t, s) \/ KillFirst(t, s) \/ Unregister(t, s)
    \/ Remove(t, s) \/ RemoveFails(t, s) \/ Start(t, s)

Next ==
    \/ \E s \in Servers :
         \/ \E t \in Threads : Request(t, s) \/ Locking(t, s) \/ Working(t, s)
         \/ Exit(s) \/ AutoRestart(s)
    \/ Reboot

Spec == Init /\ [][Next]_vars

(* Goroutines run, and sync.Mutex hands a lock to a waiter that has lost   *)
(* the race for a millisecond (its starvation mode): a thread for which    *)
(* the lock is free again and again gets it.                               *)
Fairness ==
    \A t \in Threads : \A s \in Servers :
        WF_vars(Working(t, s)) /\ SF_vars(Locking(t, s))

FairSpec == Spec /\ Fairness

-----------------------------------------------------------------------------
(* Properties.                                                             *)

(* Once Delete has reported success the server is neither on disk nor in   *)
(* the map, in this run of the panel and in every later one: no edit that  *)
(* was under way writes its server.json again.                             *)
DeletedStaysGone == \A s \in gone : s \notin stored /\ s \notin instances

(* An edit that was acknowledged is on disk as long as the server is, and  *)
(* in the live configuration: edits made at the same time compose, none is *)
(* overwritten by a copy taken before it, and a crash loses none.          *)
AckedEditsKept ==
    \A s \in Servers :
        /\ s \in stored => acked[s] \subseteq disk[s]
        /\ s \in instances => acked[s] \subseteq memory[s]

(* A registered server has its file, which never holds more than what is   *)
(* in force in memory; outside of a save the two agree, unless the last    *)
(* save failed.                                                            *)
DiskFollowsMemory ==
    \A s \in instances :
        /\ s \in stored
        /\ disk[s] \subseteq memory[s]
        /\ saveMu[s] = NoThread /\ s \notin lagging => disk[s] = memory[s]

(* The disk behaves like ServerCatalog.                                    *)
Catalog == INSTANCE ServerCatalog WITH
               born <- used, removed <- used \ stored, content <- disk

CatalogKept == Catalog!Spec

(* Every call returns: nobody is left waiting for a save lock. *)
CallsReturn == \A t \in Threads : pc[t] # "idle" ~> pc[t] = "idle"
=============================================================================
