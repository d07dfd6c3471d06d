--------------------------- MODULE RegistryProofs ---------------------------
(***************************************************************************)
(* Proofs about Registry: whatever the number of servers, threads, edits   *)
(* and boots, a deleted server stays gone, acknowledged edits are kept,    *)
(* the file follows the memory, and the disk implements ServerCatalog.     *)
(*                                                                         *)
(* The inductive invariant says, beyond the properties themselves, what    *)
(* each call may rely on where it stands: the creator of a server that     *)
(* nobody else knows it, a save that its copy is the live configuration    *)
(* and that its server has a file, a removal that no save is under way and *)
(* that none can begin.                                                    *)
(***************************************************************************)
EXTENDS Registry, TLAPS

(* Whatever refers to a server, the server was once stored. *)
UsedInv ==
    /\ stored \subseteq used
    /\ instances \subseteq stored
    /\ gone \subseteq used
    /\ \A s \in Servers \ used : acked[s] = {}
    /\ \A s \in Servers \ stored : disk[s] = {}
    /\ \A t \in Threads : pc[t] # "idle" => target[t] \in used

(* A server between SaveNew and Register belongs to its creator alone. *)
FreshInv ==
    \A t \in Threads, s \in Servers : At(t, "register", s) =>
        /\ s \in stored \ instances
        /\ disk[s] = {} /\ acked[s] = {}
        /\ \A u \in Threads : target[u] = s => u = t

(* A save that is past Mutate carries the live configuration; past its     *)
(* second look at the map, the server has a file that nobody may remove.   *)
SaveInv ==
    \A t \in Threads, s \in Servers :
        /\ At(t, "recheck", s) \/ At(t, "save", s) =>
              updated[t] = memory[s] /\ edit[t] \subseteq memory[s]
        /\ At(t, "save", s) => s \in stored

(* A removal that is past Unregister is not undone. *)
RemoveInv ==
    \A t \in Threads, s \in Servers :
        /\ At(t, "barrier", s) \/ At(t, "remove", s) => s \notin instances
        /\ At(t, "remove", s) => \A u \in Threads : ~At(u, "save", s)

(* What was acknowledged is on disk, what is on disk is in force. *)
ContentInv ==
    \A s \in stored : acked[s] \subseteq disk[s] /\ disk[s] \subseteq memory[s]

(* File and memory differ only inside of a save, or after one that failed. *)
MatchInv ==
    \A s \in instances \ lagging :
        /\ saveMu[s] = NoThread => disk[s] = memory[s]
        /\ \A t \in Threads : At(t, "mutate", s) => disk[s] = memory[s]

IInv ==
    /\ TypeOK
    /\ UsedInv
    /\ FreshInv
    /\ SaveInv
    /\ RemoveInv
    /\ DeletedStaysGone
    /\ ContentInv
    /\ MatchInv

-----------------------------------------------------------------------------
(* Every step of the module is one of these: the case split of the proofs. *)
LEMMA NextCases ==
    ASSUME [Next]_vars
    PROVE  \/ \E s \in Servers, t \in Threads :
                 \/ SaveNew(t, s) \/ Register(t, s)
                 \/ \E e \in Edits : BeginEdit(t, s, e)
                 \/ StartEdit(t, s) \/ RefuseEdit(t, s) \/ Mutate(t, s) \/ Recheck(t, s)
                 \/ Save(t, s) \/ SaveFails(t, s)
                 \/ BeginDelete(t, s) \/ CheckState(t, s) \/ KillFirst(t, s)
                 \/ Unregister(t, s) \/ Barrier(t, s) \/ Remove(t, s) \/ RemoveFails(t, s)
                 \/ BeginStart(t, s) \/ Start(t, s)
           \/ \E s \in Servers : Exit(s) \/ AutoRestart(s)
           \/ Reboot
           \/ UNCHANGED vars
  BY DEF Next, Request, Locking, Working

(* Types, and the save lock is held by the one call inside of its           *)
(* transaction.                                                            *)
(* Types, and the save lock is held by the one call inside of its           *)
(* transaction.                                                            *)
(* Types, and the save lock is held by the one call inside of its           *)
(* transaction.                                                            *)
(* Types, and the save lock is held by the one call inside of its           *)
(* transaction.                                                            *)
(* Types, and the save lock is held by the one call inside of its           *)
(* transaction.                                                            *)
(* Types, and the save lock is held by the one call inside of its           *)
(* transaction.                                                            *)
LEMMA TypeStep == TypeOK /\ [Next]_vars => TypeOK'
  <1> SUFFICES ASSUME TypeOK, [Next]_vars PROVE TypeOK'
    OBVIOUS
  <1> USE RegistryAssumption DEF TypeOK, Steps, Saving, panelVars, diskVars,
     procVars, callVars, histVars
  <1>1. ASSUME NEW t \in Threads, NEW s \in Servers, SaveNew(t, s)
        PROVE  TypeOK'
    BY <1>1 DEF SaveNew, Begin
  <1>2. ASSUME NEW t \in Threads, NEW s \in Servers, Register(t, s)
        PROVE  TypeOK'
    BY <1>2 DEF Register, At, Return
  <1>3. ASSUME NEW t \in Threads, NEW s \in Servers, NEW e \in Edits,
               BeginEdit(t, s, e)
        PROVE  TypeOK'
    BY <1>3 DEF BeginEdit, Begin
  <1>4. ASSUME NEW t \in Threads, NEW s \in Servers, StartEdit(t, s)
        PROVE  TypeOK'
    BY <1>4 DEF StartEdit, At, LockSave, Goto
  <1>5. ASSUME NEW t \in Threads, NEW s \in Servers, RefuseEdit(t, s)
        PROVE  TypeOK'
    BY <1>5 DEF RefuseEdit, At, Unlock, Return
  <1>6. ASSUME NEW t \in Threads, NEW s \in Servers, Mutate(t, s)
        PROVE  TypeOK'
    BY <1>6 DEF Mutate, At
  <1>7. ASSUME NEW t \in Threads, NEW s \in Servers, Recheck(t, s)
        PROVE  TypeOK'
    BY <1>7 DEF Recheck, At, StillRegistered, Goto, Return, Unlock
  <1>8. ASSUME NEW t \in Threads, NEW s \in Servers, Save(t, s) PROVE TypeOK'
    BY <1>8 DEF Save, At, SavedCopy, Unlock, Return
  <1>9. ASSUME NEW t \in Threads, NEW s \in Servers, SaveFails(t, s)
        PROVE  TypeOK'
    BY <1>9 DEF SaveFails, At, Unlock, Return
  <1>10. ASSUME NEW t \in Threads, NEW s \in Servers, BeginDelete(t, s)
         PROVE  TypeOK'
    BY <1>10 DEF BeginDelete, Begin
  <1>11. ASSUME NEW t \in Threads, NEW s \in Servers, CheckState(t, s)
         PROVE  TypeOK'
    BY <1>11 DEF CheckState, At, Goto
  <1>12. ASSUME NEW t \in Threads, NEW s \in Servers, KillFirst(t, s)
         PROVE  TypeOK'
    BY <1>12 DEF KillFirst, At, Goto, Return
  <1>13. ASSUME NEW t \in Threads, NEW s \in Servers, Unregister(t, s)
         PROVE  TypeOK'
    BY <1>13 DEF Unregister, At, Goto
  <1>14. ASSUME NEW t \in Threads, NEW s \in Servers, Barrier(t, s)
         PROVE  TypeOK'
    BY <1>14 DEF Barrier, At, NoSaveUnderWay, Goto
  <1>15. ASSUME NEW t \in Threads, NEW s \in Servers, Remove(t, s)
         PROVE  TypeOK'
    BY <1>15 DEF Remove, At, Return
  <1>16. ASSUME NEW t \in Threads, NEW s \in Servers, RemoveFails(t, s)
         PROVE  TypeOK'
    BY <1>16 DEF RemoveFails, At, Return
  <1>17. ASSUME NEW t \in Threads, NEW s \in Servers, BeginStart(t, s)
         PROVE  TypeOK'
    BY <1>17 DEF BeginStart, Begin
  <1>18. ASSUME NEW t \in Threads, NEW s \in Servers, Start(t, s)
         PROVE  TypeOK'
    BY <1>18 DEF Start, At, Return
  <1>19. ASSUME NEW s \in Servers, Exit(s) PROVE TypeOK'
    BY <1>19 DEF Exit
  <1>20. ASSUME NEW s \in Servers, AutoRestart(s) PROVE TypeOK'
    BY <1>20 DEF AutoRestart
  <1>21. ASSUME Reboot PROVE TypeOK'
    BY <1>21 DEF Reboot
  <1>22. CASE UNCHANGED vars
    BY <1>22 DEF vars, At
  <1> HIDE DEF TypeOK, Steps, Saving, panelVars, diskVars, procVars, callVars,
     histVars
  <1>23. QED
    BY <1>1, <1>2, <1>3, <1>4, <1>5, <1>6, <1>7, <1>8, <1>9, <1>10, <1>11,
       <1>12, <1>13, <1>14, <1>15, <1>16, <1>17, <1>18, <1>19, <1>20, <1>21,
       <1>22, NextCases

(* The map, the disk and the calls only ever refer to stored identifiers.  *)
LEMMA UsedStep == IInv /\ [Next]_vars => UsedInv'
  <1> SUFFICES ASSUME IInv, [Next]_vars PROVE UsedInv'
    OBVIOUS
  <1> USE RegistryAssumption DEF IInv, TypeOK, UsedInv, FreshInv, SaveInv,
     RemoveInv, Saving, At, panelVars, diskVars, procVars, callVars, histVars
  <1>1. ASSUME NEW t \in Threads, NEW s \in Servers, SaveNew(t, s)
        PROVE  UsedInv'
    BY <1>1 DEF SaveNew, Begin
  <1>2. ASSUME NEW t \in Threads, NEW s \in Servers, Register(t, s)
        PROVE  UsedInv'
    BY <1>2 DEF Register, At, Return
  <1>3. ASSUME NEW t \in Threads, NEW s \in Servers, Save(t, s) PROVE UsedInv'
    BY <1>3 DEF Save, At, SavedCopy, Unlock, Return
  <1>4. ASSUME NEW t \in Threads, NEW s \in Servers, Unregister(t, s)
        PROVE  UsedInv'
    BY <1>4 DEF Unregister, At, Goto
  <1>5. ASSUME NEW t \in Threads, NEW s \in Servers, Remove(t, s)
        PROVE  UsedInv'
    BY <1>5 DEF Remove, At, Return
  <1>6. ASSUME NEW t \in Threads, NEW s \in Servers, RemoveFails(t, s)
        PROVE  UsedInv'
    BY <1>6 DEF RemoveFails, At, Return
  <1>7. ASSUME Reboot PROVE UsedInv'
    BY <1>7 DEF Reboot
  <1>8. ASSUME NEW t \in Threads, NEW s \in Servers, StartEdit(t, s) \/
               RefuseEdit(t, s) \/ Mutate(t, s) \/ Recheck(t, s) \/
               SaveFails(t, s) \/ BeginDelete(t, s) \/ CheckState(t, s) \/
               KillFirst(t, s) \/ Barrier(t, s) \/ BeginStart(t, s) \/
               Start(t, s)
        PROVE  UsedInv'
    BY <1>8 DEF StartEdit, At, LockSave, Goto, RefuseEdit, Unlock, Return,
       Mutate, Recheck, StillRegistered, SaveFails, BeginDelete, Begin,
       CheckState, KillFirst, Barrier, NoSaveUnderWay, BeginStart, Start
  <1>9. ASSUME NEW t \in Threads, NEW s \in Servers, NEW e \in Edits,
               BeginEdit(t, s, e)
        PROVE  UsedInv'
    BY <1>9 DEF BeginEdit, Begin
  <1>10. ASSUME NEW s \in Servers, Exit(s) \/ AutoRestart(s) PROVE UsedInv'
    BY <1>10 DEF Exit, AutoRestart
  <1>11. CASE UNCHANGED vars
    BY <1>11 DEF vars, At
  <1> HIDE DEF IInv, TypeOK, UsedInv, FreshInv, SaveInv, RemoveInv, Saving,
     At, panelVars, diskVars, procVars, callVars, histVars
  <1>12. QED
    BY <1>1, <1>2, <1>3, <1>4, <1>5, <1>6, <1>7, <1>8, <1>9, <1>10, <1>11,
       NextCases

(* Nobody finds a server before its creator registers it.                  *)
LEMMA FreshStep == IInv /\ [Next]_vars => FreshInv'
  <1> SUFFICES ASSUME IInv, [Next]_vars PROVE FreshInv'
    OBVIOUS
  <1> USE RegistryAssumption DEF IInv, TypeOK, UsedInv, FreshInv, Saving, At,
     panelVars, diskVars, procVars, callVars, histVars
  <1>1. ASSUME NEW t \in Threads, NEW s \in Servers, SaveNew(t, s)
        PROVE  FreshInv'
    BY <1>1 DEF SaveNew, Begin
  <1>2. ASSUME NEW t \in Threads, NEW s \in Servers, Register(t, s)
        PROVE  FreshInv'
    BY <1>2 DEF Register, At, Return
  <1>3. ASSUME NEW t \in Threads, NEW s \in Servers, Save(t, s)
        PROVE  FreshInv'
    BY <1>3 DEF Save, At, SavedCopy, Unlock, Return
  <1>4. ASSUME NEW t \in Threads, NEW s \in Servers, Remove(t, s)
        PROVE  FreshInv'
    BY <1>4 DEF Remove, At, Return
  <1>5. ASSUME NEW t \in Threads, NEW s \in Servers, RemoveFails(t, s)
        PROVE  FreshInv'
    BY <1>5 DEF RemoveFails, At, Return
  <1>6. ASSUME Reboot PROVE FreshInv'
    BY <1>6 DEF Reboot
  <1>7. ASSUME NEW t \in Threads, NEW s \in Servers, StartEdit(t, s) \/
               RefuseEdit(t, s) \/ Mutate(t, s) \/ Recheck(t, s) \/
               SaveFails(t, s) \/ BeginDelete(t, s) \/ CheckState(t, s) \/
               KillFirst(t, s) \/ Unregister(t, s) \/ Barrier(t, s) \/
               BeginStart(t, s) \/ Start(t, s)
        PROVE  FreshInv'
    BY <1>7 DEF StartEdit, At, LockSave, Goto, RefuseEdit, Unlock, Return,
       Mutate, Recheck, StillRegistered, SaveFails, BeginDelete, Begin,
       CheckState, KillFirst, Unregister, Barrier, NoSaveUnderWay, BeginStart,
       Start
  <1>8. ASSUME NEW t \in Threads, NEW s \in Servers, NEW e \in Edits,
               BeginEdit(t, s, e)
        PROVE  FreshInv'
    BY <1>8 DEF BeginEdit, Begin
  <1>9. ASSUME NEW s \in Servers, Exit(s) \/ AutoRestart(s) PROVE FreshInv'
    BY <1>9 DEF Exit, AutoRestart
  <1>10. CASE UNCHANGED vars
    BY <1>10 DEF vars, At
  <1> HIDE DEF IInv, TypeOK, UsedInv, FreshInv, Saving, At, panelVars,
     diskVars, procVars, callVars, histVars
  <1>11. QED
    BY <1>1, <1>2, <1>3, <1>4, <1>5, <1>6, <1>7, <1>8, <1>9, <1>10, NextCases

(* The lock keeps the copy and the live configuration equal until the      *)
(* save; a removal that could take the file away waits for the lock.       *)
LEMMA SaveStep == IInv /\ [Next]_vars => SaveInv'
  <1> SUFFICES ASSUME IInv, [Next]_vars PROVE SaveInv'
    OBVIOUS
  <1> USE RegistryAssumption DEF IInv, TypeOK, UsedInv, FreshInv, SaveInv,
     RemoveInv, Saving, At, panelVars, diskVars, procVars, callVars, histVars
  <1>1. ASSUME NEW t \in Threads, NEW s \in Servers, SaveNew(t, s)
        PROVE  SaveInv'
    BY <1>1 DEF SaveNew, Begin
  <1>2. ASSUME NEW t \in Threads, NEW s \in Servers, Register(t, s)
        PROVE  SaveInv'
    BY <1>2 DEF Register, At, Return
  <1>3. ASSUME NEW t \in Threads, NEW s \in Servers, Mutate(t, s)
        PROVE  SaveInv'
    BY <1>3 DEF Mutate, At
  <1>4. ASSUME NEW t \in Threads, NEW s \in Servers, Recheck(t, s)
        PROVE  SaveInv'
    BY <1>4 DEF Recheck, At, StillRegistered, Goto, Return, Unlock
  <1>5. ASSUME NEW t \in Threads, NEW s \in Servers, Save(t, s) PROVE SaveInv'
    BY <1>5 DEF Save, At, SavedCopy, Unlock, Return
  <1>6. ASSUME NEW t \in Threads, NEW s \in Servers, Remove(t, s)
        PROVE  SaveInv'
    BY <1>6 DEF Remove, At, Return
  <1>7. ASSUME NEW t \in Threads, NEW s \in Servers, RemoveFails(t, s)
        PROVE  SaveInv'
    BY <1>7 DEF RemoveFails, At, Return
  <1>8. ASSUME Reboot PROVE SaveInv'
    BY <1>8 DEF Reboot
  <1>9. ASSUME NEW t \in Threads, NEW s \in Servers, StartEdit(t, s) \/
               RefuseEdit(t, s) \/ SaveFails(t, s) \/ BeginDelete(t, s) \/
               CheckState(t, s) \/ KillFirst(t, s) \/ Unregister(t, s) \/
               Barrier(t, s) \/ BeginStart(t, s) \/ Start(t, s)
        PROVE  SaveInv'
    BY <1>9 DEF StartEdit, At, LockSave, Goto, RefuseEdit, Unlock, Return,
       SaveFails, BeginDelete, Begin, CheckState, KillFirst, Unregister,
       Barrier, NoSaveUnderWay, BeginStart, Start
  <1>10. ASSUME NEW t \in Threads, NEW s \in Servers, NEW e \in Edits,
                BeginEdit(t, s, e)
         PROVE  SaveInv'
    BY <1>10 DEF BeginEdit, Begin
  <1>11. ASSUME NEW s \in Servers, Exit(s) \/ AutoRestart(s) PROVE SaveInv'
    BY <1>11 DEF Exit, AutoRestart
  <1>12. CASE UNCHANGED vars
    BY <1>12 DEF vars, At
  <1> HIDE DEF IInv, TypeOK, UsedInv, FreshInv, SaveInv, RemoveInv, Saving,
     At, panelVars, diskVars, procVars, callVars, histVars
  <1>13. QED
    BY <1>1, <1>2, <1>3, <1>4, <1>5, <1>6, <1>7, <1>8, <1>9, <1>10, <1>11,
       <1>12, NextCases

(* Behind the barrier no save is left, and the second look at the map      *)
(* admits none.                                                            *)
LEMMA RemoveStep == IInv /\ [Next]_vars => RemoveInv'
  <1> SUFFICES ASSUME IInv, [Next]_vars PROVE RemoveInv'
    OBVIOUS
  <1> USE RegistryAssumption DEF IInv, TypeOK, UsedInv, FreshInv, RemoveInv,
     Saving, At, panelVars, diskVars, procVars, callVars, histVars
  <1>1. ASSUME NEW t \in Threads, NEW s \in Servers, Register(t, s)
        PROVE  RemoveInv'
    BY <1>1 DEF Register, At, Return
  <1>2. ASSUME NEW t \in Threads, NEW s \in Servers, Recheck(t, s)
        PROVE  RemoveInv'
    BY <1>2 DEF Recheck, At, StillRegistered, Goto, Return, Unlock
  <1>3. ASSUME NEW t \in Threads, NEW s \in Servers, Unregister(t, s)
        PROVE  RemoveInv'
    BY <1>3 DEF Unregister, At, Goto
  <1>4. ASSUME NEW t \in Threads, NEW s \in Servers, Barrier(t, s)
        PROVE  RemoveInv'
    BY <1>4 DEF Barrier, At, NoSaveUnderWay, Goto
  <1>5. ASSUME Reboot PROVE RemoveInv'
    BY <1>5 DEF Reboot
  <1>6. ASSUME NEW t \in Threads, NEW s \in Servers, SaveNew(t, s) \/
               StartEdit(t, s) \/ RefuseEdit(t, s) \/ Mutate(t, s) \/ Save(t,
               s) \/ SaveFails(t, s) \/ BeginDelete(t, s) \/ CheckState(t, s)
               \/ KillFirst(t, s) \/ Remove(t, s) \/ RemoveFails(t, s) \/
               BeginStart(t, s) \/ Start(t, s)
        PROVE  RemoveInv'
    BY <1>6 DEF SaveNew, Begin, StartEdit, At, LockSave, Goto, RefuseEdit,
       Unlock, Return, Mutate, Save, SavedCopy, SaveFails, BeginDelete,
       CheckState, KillFirst, Remove, RemoveFails, BeginStart, Start
  <1>7. ASSUME NEW t \in Threads, NEW s \in Servers, NEW e \in Edits,
               BeginEdit(t, s, e)
        PROVE  RemoveInv'
    BY <1>7 DEF BeginEdit, Begin
  <1>8. ASSUME NEW s \in Servers, Exit(s) \/ AutoRestart(s) PROVE RemoveInv'
    BY <1>8 DEF Exit, AutoRestart
  <1>9. CASE UNCHANGED vars
    BY <1>9 DEF vars, At
  <1> HIDE DEF IInv, TypeOK, UsedInv, FreshInv, RemoveInv, Saving, At,
     panelVars, diskVars, procVars, callVars, histVars
  <1>10. QED
    BY <1>1, <1>2, <1>3, <1>4, <1>5, <1>6, <1>7, <1>8, <1>9, NextCases

(* A save that is still under way never finds its server gone.             *)
LEMMA GoneStep == IInv /\ [Next]_vars => DeletedStaysGone'
  <1> SUFFICES ASSUME IInv, [Next]_vars PROVE DeletedStaysGone'
    OBVIOUS
  <1> USE RegistryAssumption DEF IInv, TypeOK, UsedInv, FreshInv, SaveInv,
     RemoveInv, DeletedStaysGone, panelVars, diskVars, procVars, callVars,
     histVars
  <1>1. ASSUME NEW t \in Threads, NEW s \in Servers, SaveNew(t, s)
        PROVE  DeletedStaysGone'
    BY <1>1 DEF SaveNew, Begin
  <1>2. ASSUME NEW t \in Threads, NEW s \in Servers, Register(t, s)
        PROVE  DeletedStaysGone'
    BY <1>2 DEF Register, At, Return
  <1>3. ASSUME NEW t \in Threads, NEW s \in Servers, Save(t, s)
        PROVE  DeletedStaysGone'
    BY <1>3 DEF Save, At, SavedCopy, Unlock, Return
  <1>4. ASSUME NEW t \in Threads, NEW s \in Servers, Remove(t, s)
        PROVE  DeletedStaysGone'
    BY <1>4 DEF Remove, At, Return
  <1>5. ASSUME NEW t \in Threads, NEW s \in Servers, RemoveFails(t, s)
        PROVE  DeletedStaysGone'
    BY <1>5 DEF RemoveFails, At, Return
  <1>6. ASSUME Reboot PROVE DeletedStaysGone'
    BY <1>6 DEF Reboot
  <1>7. ASSUME NEW t \in Threads, NEW s \in Servers, StartEdit(t, s) \/
               RefuseEdit(t, s) \/ Mutate(t, s) \/ Recheck(t, s) \/
               SaveFails(t, s) \/ BeginDelete(t, s) \/ CheckState(t, s) \/
               KillFirst(t, s) \/ Unregister(t, s) \/ Barrier(t, s) \/
               BeginStart(t, s) \/ Start(t, s)
        PROVE  DeletedStaysGone'
    BY <1>7 DEF StartEdit, At, LockSave, Goto, RefuseEdit, Unlock, Return,
       Mutate, Recheck, StillRegistered, SaveFails, BeginDelete, Begin,
       CheckState, KillFirst, Unregister, Barrier, NoSaveUnderWay, BeginStart,
       Start
  <1>8. ASSUME NEW t \in Threads, NEW s \in Servers, NEW e \in Edits,
               BeginEdit(t, s, e)
        PROVE  DeletedStaysGone'
    BY <1>8 DEF BeginEdit, Begin
  <1>9. ASSUME NEW s \in Servers, Exit(s) \/ AutoRestart(s)
        PROVE  DeletedStaysGone'
    BY <1>9 DEF Exit, AutoRestart
  <1>10. CASE UNCHANGED vars
    BY <1>10 DEF vars, At
  <1> HIDE DEF IInv, TypeOK, UsedInv, FreshInv, SaveInv, RemoveInv,
     DeletedStaysGone, panelVars, diskVars, procVars, callVars, histVars
  <1>11. QED
    BY <1>1, <1>2, <1>3, <1>4, <1>5, <1>6, <1>7, <1>8, <1>9, <1>10, NextCases

(* The copy that is written holds everything acknowledged before.          *)
LEMMA ContentStep == IInv /\ [Next]_vars => ContentInv'
  <1> SUFFICES ASSUME IInv, [Next]_vars PROVE ContentInv'
    OBVIOUS
  <1> USE RegistryAssumption DEF IInv, TypeOK, UsedInv, FreshInv, SaveInv,
     ContentInv, panelVars, diskVars, procVars, callVars, histVars
  <1>1. ASSUME NEW t \in Threads, NEW s \in Servers, SaveNew(t, s)
        PROVE  ContentInv'
    BY <1>1 DEF SaveNew, Begin
  <1>2. ASSUME NEW t \in Threads, NEW s \in Servers, Register(t, s)
        PROVE  ContentInv'
    BY <1>2 DEF Register, At, Return
  <1>3. ASSUME NEW t \in Threads, NEW s \in Servers, Mutate(t, s)
        PROVE  ContentInv'
    BY <1>3 DEF Mutate, At
  <1>4. ASSUME NEW t \in Threads, NEW s \in Servers, Save(t, s)
        PROVE  ContentInv'
    BY <1>4 DEF Save, At, SavedCopy, Unlock, Return
  <1>5. ASSUME NEW t \in Threads, NEW s \in Servers, Remove(t, s)
        PROVE  ContentInv'
    BY <1>5 DEF Remove, At, Return
  <1>6. ASSUME NEW t \in Threads, NEW s \in Servers, RemoveFails(t, s)
        PROVE  ContentInv'
    BY <1>6 DEF RemoveFails, At, Return
  <1>7. ASSUME Reboot PROVE ContentInv'
    BY <1>7 DEF Reboot
  <1>8. ASSUME NEW t \in Threads, NEW s \in Servers, StartEdit(t, s) \/
               RefuseEdit(t, s) \/ Recheck(t, s) \/ SaveFails(t, s) \/
               BeginDelete(t, s) \/ CheckState(t, s) \/ KillFirst(t, s) \/
               Unregister(t, s) \/ Barrier(t, s) \/ BeginStart(t, s) \/
               Start(t, s)
        PROVE  ContentInv'
    BY <1>8 DEF StartEdit, At, LockSave, Goto, RefuseEdit, Unlock, Return,
       Recheck, StillRegistered, SaveFails, BeginDelete, Begin, CheckState,
       KillFirst, Unregister, Barrier, NoSaveUnderWay, BeginStart, Start
  <1>9. ASSUME NEW t \in Threads, NEW s \in Servers, NEW e \in Edits,
               BeginEdit(t, s, e)
        PROVE  ContentInv'
    BY <1>9 DEF BeginEdit, Begin
  <1>10. ASSUME NEW s \in Servers, Exit(s) \/ AutoRestart(s) PROVE ContentInv'
    BY <1>10 DEF Exit, AutoRestart
  <1>11. CASE UNCHANGED vars
    BY <1>11 DEF vars, At
  <1> HIDE DEF IInv, TypeOK, UsedInv, FreshInv, SaveInv, ContentInv,
     panelVars, diskVars, procVars, callVars, histVars
  <1>12. QED
    BY <1>1, <1>2, <1>3, <1>4, <1>5, <1>6, <1>7, <1>8, <1>9, <1>10, <1>11,
       NextCases

(* Only Mutate parts the memory from the file, and it holds the lock.      *)
LEMMA MatchStep == IInv /\ [Next]_vars => MatchInv'
  <1> SUFFICES ASSUME IInv, [Next]_vars PROVE MatchInv'
    OBVIOUS
  <1> USE RegistryAssumption DEF IInv, TypeOK, UsedInv, FreshInv, SaveInv,
     RemoveInv, MatchInv, Saving, At, panelVars, diskVars, procVars, callVars,
     histVars
  <1>1. ASSUME NEW t \in Threads, NEW s \in Servers, SaveNew(t, s)
        PROVE  MatchInv'
    BY <1>1 DEF SaveNew, Begin
  <1>2. ASSUME NEW t \in Threads, NEW s \in Servers, Register(t, s)
        PROVE  MatchInv'
    <2>1. ASSUME NEW r \in instances' \ lagging', r # s
          PROVE  /\ saveMu'[r] = NoThread => disk'[r] = memory'[r]
                 /\ \A u \in Threads : At(u, "mutate", r)' => disk'[r] = memory'[r]
      BY <1>2, <2>1 DEF Register, Return
    <2>2. disk'[s] = memory'[s]
      BY <1>2 DEF Register
    <2>3. QED
      BY <2>1, <2>2
  <1>3. ASSUME NEW t \in Threads, NEW s \in Servers, StartEdit(t, s)
        PROVE  MatchInv'
    BY <1>3 DEF StartEdit, At, LockSave, Goto
  <1>4. ASSUME NEW t \in Threads, NEW s \in Servers, RefuseEdit(t, s)
        PROVE  MatchInv'
    BY <1>4 DEF RefuseEdit, At, Unlock, Return
  <1>5. ASSUME NEW t \in Threads, NEW s \in Servers, Mutate(t, s)
        PROVE  MatchInv'
    BY <1>5 DEF Mutate, At
  <1>6. ASSUME NEW t \in Threads, NEW s \in Servers, Recheck(t, s)
        PROVE  MatchInv'
    BY <1>6 DEF Recheck, At, StillRegistered, Goto, Return, Unlock
  <1>7. ASSUME NEW t \in Threads, NEW s \in Servers, Save(t, s)
        PROVE  MatchInv'
    BY <1>7 DEF Save, At, SavedCopy, Unlock, Return
  <1>8. ASSUME NEW t \in Threads, NEW s \in Servers, SaveFails(t, s)
        PROVE  MatchInv'
    BY <1>8 DEF SaveFails, At, Unlock, Return
  <1>9. ASSUME NEW t \in Threads, NEW s \in Servers, Unregister(t, s)
        PROVE  MatchInv'
    BY <1>9 DEF Unregister, At, Goto
  <1>10. ASSUME NEW t \in Threads, NEW s \in Servers, Remove(t, s)
         PROVE  MatchInv'
    BY <1>10 DEF Remove, At, Return
  <1>11. ASSUME NEW t \in Threads, NEW s \in Servers, RemoveFails(t, s)
         PROVE  MatchInv'
    BY <1>11 DEF RemoveFails, At, Return
  <1>12. ASSUME Reboot PROVE MatchInv'
    BY <1>12 DEF Reboot
  <1>13. ASSUME NEW t \in Threads, NEW s \in Servers, BeginDelete(t, s) \/
                CheckState(t, s) \/ KillFirst(t, s) \/ Barrier(t, s) \/
                BeginStart(t, s) \/ Start(t, s)
         PROVE  MatchInv'
    BY <1>13 DEF BeginDelete, Begin, CheckState, At, Goto, KillFirst, Return,
       Barrier, NoSaveUnderWay, BeginStart, Start
  <1>14. ASSUME NEW t \in Threads, NEW s \in Servers, NEW e \in Edits,
                BeginEdit(t, s, e)
         PROVE  MatchInv'
    BY <1>14 DEF BeginEdit, Begin
  <1>15. ASSUME NEW s \in Servers, Exit(s) \/ AutoRestart(s) PROVE MatchInv'
    BY <1>15 DEF Exit, AutoRestart
  <1>16. CASE UNCHANGED vars
    BY <1>16 DEF vars, At
  <1> HIDE DEF IInv, TypeOK, UsedInv, FreshInv, SaveInv, RemoveInv, MatchInv,
     Saving, At, panelVars, diskVars, procVars, callVars, histVars
  <1>17. QED
    BY <1>1, <1>2, <1>3, <1>4, <1>5, <1>6, <1>7, <1>8, <1>9, <1>10, <1>11,
       <1>12, <1>13, <1>14, <1>15, <1>16, NextCases

-----------------------------------------------------------------------------
(* The invariant holds initially and every step preserves it. *)
LEMMA Invariance == Spec => []IInv
  <1>1. Init => IInv
    <2> SUFFICES ASSUME Init PROVE IInv
      OBVIOUS
    <2> USE RegistryAssumption DEF Init
    <2>1. TypeOK
      BY DEF TypeOK, Steps, Saving
    <2>2. UsedInv /\ FreshInv /\ SaveInv /\ RemoveInv
      BY DEF UsedInv, FreshInv, SaveInv, RemoveInv, At
    <2>3. DeletedStaysGone /\ ContentInv /\ MatchInv
      BY DEF DeletedStaysGone, ContentInv, MatchInv
    <2>4. QED
      BY <2>1, <2>2, <2>3 DEF IInv
  <1>2. IInv /\ [Next]_vars => TypeOK'
    BY TypeStep DEF IInv
  <1>3. IInv /\ [Next]_vars => IInv'
    BY <1>2, UsedStep, FreshStep, SaveStep, RemoveStep, GoneStep, ContentStep,
       MatchStep DEF IInv
  <1>4. QED
    BY <1>1, <1>3, PTL DEF Spec

(* Every variable keeps its type, and a save lock is held by exactly the   *)
(* call that is inside of its transaction.                                 *)
THEOREM TypeCorrect == Spec => []TypeOK
  <1>1. IInv => TypeOK
    BY DEF IInv
  <1>2. QED
    BY <1>1, Invariance, PTL

(* A server whose Delete reported success never comes back, neither into   *)
(* the map nor onto the disk, in this run of the panel or a later one.     *)
THEOREM DeletionIsFinal == Spec => []DeletedStaysGone
  <1>1. IInv => DeletedStaysGone
    BY DEF IInv
  <1>2. QED
    BY <1>1, Invariance, PTL

(* No acknowledged edit is ever lost: not to a concurrent edit, not to a   *)
(* save that fails, not to a crash.                                        *)
THEOREM EditsAreKept == Spec => []AckedEditsKept
  <1>1. IInv => AckedEditsKept
    BY DEF IInv, UsedInv, ContentInv, AckedEditsKept
  <1>2. QED
    BY <1>1, Invariance, PTL

(* The file of a registered server never holds more than the memory, and   *)
(* agrees with it whenever no save is under way and the last one worked.   *)
THEOREM FileFollowsMemory == Spec => []DiskFollowsMemory
  <1>1. IInv => DiskFollowsMemory
    BY DEF IInv, UsedInv, ContentInv, MatchInv, DiskFollowsMemory
  <1>2. QED
    BY <1>1, Invariance, PTL

(* The files on disk behave like ServerCatalog: SaveNew creates, Save      *)
(* writes, Remove and a failing removal remove, every other step stutters. *)
THEOREM ImplementsCatalog == Spec => CatalogKept
  <1>1. Init => Catalog!Init
    BY DEF Init, Catalog!Init
  <1>2. IInv /\ [Next]_vars => [Catalog!Next]_(Catalog!catalogVars)
    <2> SUFFICES ASSUME IInv, [Next]_vars
                 PROVE  Catalog!Next \/ UNCHANGED <<used, stored, disk>>
      BY DEF Catalog!catalogVars
    <2> USE DEF IInv, UsedInv, diskVars, histVars
    <2>1. ASSUME NEW t \in Threads, NEW s \in Servers, SaveNew(t, s)
          PROVE  Catalog!Create(s)
      BY <2>1 DEF SaveNew, Catalog!Create
    <2>2. ASSUME NEW t \in Threads, NEW s \in Servers, Save(t, s)
          PROVE  Catalog!Write(s)
      <3>1. s \in stored /\ updated[t] \in SUBSET Edits
        BY <2>2 DEF Save, At, SaveInv, TypeOK
      <3>2. disk[s] \subseteq updated[t]
        BY <2>2, <3>1 DEF Save, At, SaveInv, ContentInv
      <3>3. disk' = [disk EXCEPT ![s] = @ \cup updated[t]]
        BY <2>2, <3>2 DEF Save, SavedCopy, TypeOK
      <3>4. QED
        BY <2>2, <3>1, <3>3 DEF Save, Catalog!Write
    <2>3. ASSUME NEW t \in Threads, NEW s \in Servers, Remove(t, s) \/ RemoveFails(t, s)
          PROVE  Catalog!Remove(s) \/ UNCHANGED <<used, stored, disk>>
      <3>1. CASE s \in stored
        BY <2>3, <3>1 DEF Remove, RemoveFails, Catalog!Remove
      <3>2. CASE s \notin stored
        <4>1. stored \ {s} = stored
          BY <3>2
        <4>2. [disk EXCEPT ![s] = {}] = disk
          BY <3>2 DEF TypeOK
        <4>3. QED
          BY <2>3, <4>1, <4>2 DEF Remove, RemoveFails
      <3>3. QED
        BY <3>1, <3>2
    <2>4. ASSUME NEW t \in Threads, NEW s \in Servers,
                 \/ Register(t, s) \/ StartEdit(t, s) \/ RefuseEdit(t, s)
                 \/ Mutate(t, s) \/ Recheck(t, s) \/ SaveFails(t, s)
                 \/ BeginDelete(t, s) \/ CheckState(t, s) \/ KillFirst(t, s)
                 \/ Unregister(t, s) \/ Barrier(t, s)
                 \/ BeginStart(t, s) \/ Start(t, s)
          PROVE  UNCHANGED <<used, stored, disk>>
      BY <2>4 DEF Register, StartEdit, RefuseEdit, Mutate, Recheck, SaveFails,
         BeginDelete, CheckState, KillFirst, Unregister, Barrier, BeginStart, Start
    <2>5. ASSUME NEW t \in Threads, NEW s \in Servers, NEW e \in Edits, BeginEdit(t, s, e)
          PROVE  UNCHANGED <<used, stored, disk>>
      BY <2>5 DEF BeginEdit
    <2>6. ASSUME NEW s \in Servers, Exit(s) \/ AutoRestart(s)
          PROVE  UNCHANGED <<used, stored, disk>>
      BY <2>6 DEF Exit, AutoRestart
    <2>7. CASE Reboot
      BY <2>7 DEF Reboot
    <2>8. CASE UNCHANGED vars
      BY <2>8 DEF vars
    <2>9. QED
      BY <2>1, <2>2, <2>3, <2>4, <2>5, <2>6, <2>7, <2>8, NextCases DEF Catalog!Next
  <1>3. QED
    BY <1>1, <1>2, Invariance, PTL DEF Spec, CatalogKept, Catalog!Spec

=============================================================================
