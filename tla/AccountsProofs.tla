--------------------------- MODULE AccountsProofs ---------------------------
(***************************************************************************)
(* Proofs about Accounts for every set of users, sessions and requests and *)
(* any number of failing writes and restarts.                              *)
(***************************************************************************)
EXTENDS Accounts, TLAPS

(* Every step of the module is one of these: the case split of the proofs. *)
LEMMA NextCases ==
    ASSUME [Next]_vars
    PROVE  \/ \E t \in Requests :
                 \/ BeginSetup(t) \/ FoundRefused(t) \/ Record(t) \/ Leave(t)
                 \/ Logout(t) \/ CheckCount(t) \/ CommitUpdate(t)
                 \/ CommitDelete(t) \/ CommitRefused(t) \/ BeginChange(t)
                 \/ Touch(t) \/ Evict(t)
                 \/ \E u \in Users :
                       \/ Found(t, u) \/ Login(t, u) \/ Create(t, u)
                       \/ BeginDelete(t, u) \/ BeginReset(t, u)
                       \/ \E patch \in Patches : BeginUpdate(t, u, patch)
                 \/ \E s \in Sessions : NewSession(t, s) \/ Admit(t, s)
           \/ \E s \in Sessions : TurnAway(s)
           \/ Reboot
           \/ UNCHANGED vars
  BY DEF Next

-----------------------------------------------------------------------------
(* What the helpers of the handlers preserve.                              *)

LEMMA MembershipIsBoolean ==
    ASSUME NEW x, NEW S PROVE \E b \in BOOLEAN : b = (x \in S)
  <1>1. CASE x \in S
    <2>1. TRUE = (x \in S)
      BY <1>1
    <2>2. QED
      BY <2>1
  <1>2. CASE ~(x \in S)
    <2>1. FALSE = (x \in S)
      BY <1>2
    <2>2. QED
      BY <2>1
  <1>3. QED
    BY <1>1, <1>2

LEMMA IdleOK == Idle \in Handlers /\ HandlerOK(Idle) /\ HandlerOK(Idle)'
  BY DEF Idle, Handlers, HandlerOK, Steps, Ops, Patches, NoPatch, Marks

LEMMA BecomeOK ==
    ASSUME HandlersOK, used \subseteq used', issued \subseteq issued',
           NEW t \in Requests, NEW h \in Handlers, HandlerOK(h)', Become(t, h)
    PROVE  HandlersOK'
  <1>1. \A x \in Requests : req'[x] = IF x = t THEN h ELSE req[x]
    BY DEF Become, HandlersOK
  <1>2. req' \in [Requests -> Handlers]
    BY DEF Become, HandlersOK
  <1>3. \A x \in Requests : HandlerOK(req[x])'
    BY <1>1 DEF HandlersOK, HandlerOK
  <1>4. QED
    BY <1>2, <1>3 DEF HandlersOK

LEMMA ReturnOK ==
    ASSUME HandlersOK, used \subseteq used', issued \subseteq issued',
           NEW t \in Requests, Return(t)
    PROVE  HandlersOK'
  BY BecomeOK, IdleOK DEF Return

LEMMA GotoOK ==
    ASSUME HandlersOK, used \subseteq used', issued \subseteq issued',
           NEW t \in Requests, NEW step \in Steps, Goto(t, step),
           step \in {"session", "record"} => req[t].actor # NoUser,
           step \in {"commit", "evict"} => req[t].target # NoUser,
           step \notin {"count", "touch", "admitted"}
    PROVE  HandlersOK'
  <1>1. req[t] \in Handlers /\ HandlerOK(req[t])
    BY DEF HandlersOK
  <1>2. PICK h \in Handlers : h = [req[t] EXCEPT !.pc = step]
    BY <1>1 DEF Handlers, Steps
  <1>3. HandlerOK(h)'
    BY <1>1, <1>2 DEF Handlers, HandlerOK, Steps
  <1>4. QED
    BY <1>2, <1>3, BecomeOK DEF Goto

LEMMA AimOK ==
    ASSUME HandlersOK, used \subseteq used', issued \subseteq issued',
           NEW t \in Requests, NEW u \in Users, u \in used, u # NoUser,
           NEW op \in Ops \ {"change"}, NEW step \in {"count", "touch", "evict"},
           NEW patch \in Patches, Aim(t, u, op, step, patch)
    PROVE  HandlersOK'
  <1>1. PICK b \in BOOLEAN : b = (u \in admins)
    BY MembershipIsBoolean
  <1>2. PICK h \in Handlers : h = [Idle EXCEPT !.pc = step, !.op = op,
                                  !.target = u, !.seen = b, !.patch = patch]
    BY IdleOK DEF Handlers, Steps, Ops
  <1>3. HandlerOK(h)'
    BY <1>2 DEF Idle, HandlerOK
  <1>4. Become(t, h)
    BY <1>1, <1>2 DEF Aim
  <1>5. QED
    BY <1>2, <1>3, <1>4, BecomeOK

LEMMA MarkFacts ==
    ASSUME NEW S, NEW u, NEW m \in Marks
    PROVE  /\ Mark(S, u, m) \subseteq S \cup {u}
           /\ \A v : v # u => (v \in Mark(S, u, m) <=> v \in S)
           /\ m = "keep" => Mark(S, u, m) = S
  BY DEF Mark, Marks

-----------------------------------------------------------------------------
(* Only existing users carry marks, in memory and in the file. *)
LEMMA StoreStep ==
    ASSUME TypeOK, [Next]_vars PROVE StoreOK'
  <1>1. ASSUME NEW t \in Requests, BeginSetup(t) PROVE StoreOK'
    BY <1>1 DEF BeginSetup, At, TypeOK, StoreOK, storeVars, fileVars, histVars
  <1>2. ASSUME NEW t \in Requests, NEW u \in Users, Found(t, u) PROVE StoreOK'
    BY <1>2 DEF Found, At, MayFound, Promise, TypeOK, StoreOK, storeVars,
       fileVars, histVars, Writes, SavedPanel, SavedSessions, Panel, Panels,
       NoPanel
  <1>3. ASSUME NEW t \in Requests, FoundRefused(t) PROVE StoreOK'
    BY <1>3 DEF FoundRefused, At, Return, TypeOK, StoreOK, storeVars,
       fileVars, histVars
  <1>4. ASSUME NEW t \in Requests, NEW u \in Users, Login(t, u) PROVE StoreOK'
    BY <1>4 DEF Login, At, TypeOK, StoreOK, storeVars, fileVars, histVars
  <1>5. ASSUME NEW t \in Requests, NEW s \in Sessions, NewSession(t, s)
         PROVE  StoreOK'
    BY <1>5 DEF NewSession, At, Goto, Return, TypeOK, StoreOK, storeVars,
       fileVars, histVars, Writes, SavedPanel, SavedSessions, Panel, Panels,
       NoPanel
  <1>6. ASSUME NEW t \in Requests, Record(t) PROVE StoreOK'
    BY <1>6 DEF Record, At, Return, TypeOK, StoreOK, storeVars, fileVars,
       histVars, Writes, SavedPanel, SavedSessions, Panel, Panels, NoPanel
  <1>7. ASSUME NEW t \in Requests, NEW s \in Sessions, Admit(t, s)
         PROVE  StoreOK'
    BY <1>7 DEF Admit, At, Live, TypeOK, StoreOK, storeVars, fileVars,
       histVars, Writes, SavedPanel, SavedSessions, Panel, Panels, NoPanel
  <1>8. ASSUME NEW s \in Sessions, TurnAway(s) PROVE StoreOK'
    BY <1>8 DEF TurnAway, Live, TypeOK, StoreOK, storeVars, fileVars,
       histVars, Writes, SavedPanel, SavedSessions, Panel, Panels, NoPanel
  <1>9. ASSUME NEW t \in Requests, Leave(t) PROVE StoreOK'
    BY <1>9 DEF Leave, At, Return, TypeOK, StoreOK, storeVars, fileVars,
       histVars, Writes, SavedPanel, SavedSessions, Panel, Panels, NoPanel
  <1>10. ASSUME NEW t \in Requests, Logout(t) PROVE StoreOK'
    BY <1>10 DEF Logout, At, Drop, Return, TypeOK, StoreOK, storeVars,
       fileVars, histVars, Writes, SavedPanel, SavedSessions, Panel, Panels,
       NoPanel
  <1>11. ASSUME NEW t \in Requests, NEW u \in Users, Create(t, u)
         PROVE  StoreOK'
    BY <1>11 DEF Create, At, Return, Promise, TypeOK, StoreOK, storeVars,
       fileVars, histVars, Writes, SavedPanel, SavedSessions, Panel, Panels,
       NoPanel
  <1>12. ASSUME NEW t \in Requests, NEW u \in Users, NEW patch \in Patches,
              BeginUpdate(t, u, patch)
         PROVE  StoreOK'
    BY <1>12 DEF BeginUpdate, At, CanManage, Aim, TypeOK, StoreOK, storeVars,
       fileVars, histVars
  <1>13. ASSUME NEW t \in Requests, NEW u \in Users, BeginDelete(t, u)
         PROVE  StoreOK'
    BY <1>13 DEF BeginDelete, At, CanManage, Aim, TypeOK, StoreOK, storeVars,
       fileVars, histVars
  <1>14. ASSUME NEW t \in Requests, CheckCount(t) PROVE StoreOK'
    BY <1>14 DEF CheckCount, At, Goto, Return, TypeOK, StoreOK, storeVars,
       fileVars, histVars
  <1>15. ASSUME NEW t \in Requests, CommitUpdate(t) PROVE StoreOK'
    BY <1>15, MarkFacts DEF CommitUpdate, At, Exists, KeepsAdmin,
       Return, Promise, TypeOK, StoreOK, HandlersOK, Handlers, Patches,
       storeVars, fileVars, histVars, Writes, SavedPanel, SavedSessions,
       Panel, Panels, NoPanel
  <1>16. ASSUME NEW t \in Requests, CommitDelete(t) PROVE StoreOK'
    BY <1>16 DEF CommitDelete, At, Exists, Drop, SessionsOf, Return, Promise,
       TypeOK, StoreOK, HandlersOK, Handlers, Patches, storeVars, fileVars,
       histVars, Writes, SavedPanel, SavedSessions, Panel, Panels, NoPanel
  <1>17. ASSUME NEW t \in Requests, CommitRefused(t) PROVE StoreOK'
    BY <1>17 DEF CommitRefused, At, Return, TypeOK, StoreOK, HandlersOK,
       Handlers, Patches, storeVars, fileVars, histVars
  <1>18. ASSUME NEW t \in Requests, BeginChange(t) PROVE StoreOK'
    BY <1>18 DEF BeginChange, At, TypeOK, StoreOK, storeVars, fileVars,
       histVars
  <1>19. ASSUME NEW t \in Requests, NEW u \in Users, BeginReset(t, u)
         PROVE  StoreOK'
    BY <1>19 DEF BeginReset, At, CanManage, Aim, TypeOK, StoreOK, storeVars,
       fileVars, histVars
  <1>20. ASSUME NEW t \in Requests, Touch(t) PROVE StoreOK'
    BY <1>20 DEF Touch, At, Goto, Return, TypeOK, StoreOK, storeVars,
       fileVars, histVars, Writes, SavedPanel, SavedSessions, Panel, Panels,
       NoPanel
  <1>21. ASSUME NEW t \in Requests, Evict(t) PROVE StoreOK'
    BY <1>21 DEF Evict, At, Drop, SessionsOf, Goto, Return, TypeOK, StoreOK,
       storeVars, fileVars, histVars, Writes, SavedPanel, SavedSessions,
       Panel, Panels, NoPanel
  <1>22. ASSUME Reboot PROVE StoreOK'
    BY <1>22 DEF Reboot, TypeOK, StoreOK, storeVars, fileVars, histVars,
       Panels
  <1>23. CASE UNCHANGED vars
    BY <1>23 DEF vars, TypeOK, StoreOK, storeVars, fileVars, histVars
  <1>24. QED
    BY <1>1, <1>2, <1>3, <1>4, <1>5, <1>6, <1>7, <1>8, <1>9, <1>10, <1>11,
       <1>12, <1>13, <1>14, <1>15, <1>16, <1>17, <1>18, <1>19, <1>20, <1>21,
       <1>22, <1>23, NextCases

(* A token that was never issued names no session. *)
LEMMA SessionsStep ==
    ASSUME TypeOK, [Next]_vars PROVE SessionsOK'
  <1>1. ASSUME NEW t \in Requests, BeginSetup(t) PROVE SessionsOK'
    BY <1>1, AccountsAssumption DEF BeginSetup, At, TypeOK, SessionsOK,
       StoreOK, HandlersOK, HandlerOK, Live, storeVars, fileVars, histVars
  <1>2. ASSUME NEW t \in Requests, NEW u \in Users, Found(t, u)
         PROVE  SessionsOK'
    BY <1>2, AccountsAssumption DEF Found, At, MayFound, Promise, TypeOK,
       SessionsOK, StoreOK, HandlersOK, HandlerOK, Live, storeVars, fileVars,
       histVars, Writes, SavedSessions
  <1>3. ASSUME NEW t \in Requests, FoundRefused(t) PROVE SessionsOK'
    BY <1>3, AccountsAssumption DEF FoundRefused, At, Return, TypeOK,
       SessionsOK, StoreOK, HandlersOK, HandlerOK, Live, storeVars, fileVars,
       histVars
  <1>4. ASSUME NEW t \in Requests, NEW u \in Users, Login(t, u)
         PROVE  SessionsOK'
    BY <1>4, AccountsAssumption DEF Login, At, TypeOK, SessionsOK, StoreOK,
       HandlersOK, HandlerOK, Live, storeVars, fileVars, histVars
  <1>5. ASSUME NEW t \in Requests, NEW s \in Sessions, NewSession(t, s)
         PROVE  SessionsOK'
    BY <1>5, AccountsAssumption DEF NewSession, At, Goto, Return, TypeOK,
       SessionsOK, StoreOK, HandlersOK, HandlerOK, Live, storeVars, fileVars,
       histVars, Writes, SavedSessions
  <1>6. ASSUME NEW t \in Requests, Record(t) PROVE SessionsOK'
    BY <1>6, AccountsAssumption DEF Record, At, Return, TypeOK, SessionsOK,
       StoreOK, HandlersOK, HandlerOK, Live, storeVars, fileVars, histVars,
       Writes, SavedSessions
  <1>7. ASSUME NEW t \in Requests, NEW s \in Sessions, Admit(t, s)
         PROVE  SessionsOK'
    BY <1>7, AccountsAssumption DEF Admit, At, Live, TypeOK, SessionsOK,
       StoreOK, HandlersOK, HandlerOK, storeVars, fileVars, histVars, Writes,
       SavedSessions
  <1>8. ASSUME NEW s \in Sessions, TurnAway(s) PROVE SessionsOK'
    BY <1>8, AccountsAssumption DEF TurnAway, Live, TypeOK, SessionsOK,
       StoreOK, HandlersOK, HandlerOK, storeVars, fileVars, histVars, Writes,
       SavedSessions
  <1>9. ASSUME NEW t \in Requests, Leave(t) PROVE SessionsOK'
    BY <1>9, AccountsAssumption DEF Leave, At, Return, TypeOK, SessionsOK,
       StoreOK, HandlersOK, HandlerOK, Live, storeVars, fileVars, histVars,
       Writes, SavedSessions
  <1>10. ASSUME NEW t \in Requests, Logout(t) PROVE SessionsOK'
    BY <1>10, AccountsAssumption DEF Logout, At, Drop, Return, TypeOK,
       SessionsOK, StoreOK, HandlersOK, HandlerOK, Live, storeVars, fileVars,
       histVars, Writes, SavedSessions
  <1>11. ASSUME NEW t \in Requests, NEW u \in Users, Create(t, u)
         PROVE  SessionsOK'
    BY <1>11, AccountsAssumption DEF Create, At, Return, Promise, TypeOK,
       SessionsOK, StoreOK, HandlersOK, HandlerOK, Live, storeVars, fileVars,
       histVars, Writes, SavedSessions
  <1>12. ASSUME NEW t \in Requests, NEW u \in Users, NEW patch \in Patches,
              BeginUpdate(t, u, patch)
         PROVE  SessionsOK'
    BY <1>12, AccountsAssumption DEF BeginUpdate, At, CanManage, Aim, TypeOK,
       SessionsOK, StoreOK, HandlersOK, HandlerOK, Live, storeVars, fileVars,
       histVars
  <1>13. ASSUME NEW t \in Requests, NEW u \in Users, BeginDelete(t, u)
         PROVE  SessionsOK'
    BY <1>13, AccountsAssumption DEF BeginDelete, At, CanManage, Aim, TypeOK,
       SessionsOK, StoreOK, HandlersOK, HandlerOK, Live, storeVars, fileVars,
       histVars
  <1>14. ASSUME NEW t \in Requests, CheckCount(t) PROVE SessionsOK'
    BY <1>14, AccountsAssumption DEF CheckCount, At, Goto, Return, TypeOK,
       SessionsOK, StoreOK, HandlersOK, HandlerOK, Live, storeVars, fileVars,
       histVars
  <1>15. ASSUME NEW t \in Requests, CommitUpdate(t) PROVE SessionsOK'
    BY <1>15, AccountsAssumption DEF CommitUpdate, At, Exists, Mark,
       KeepsAdmin, Return, Promise, TypeOK, SessionsOK, StoreOK,
       HandlersOK, HandlerOK, Live, storeVars, fileVars, histVars, Writes,
       SavedSessions
  <1>16. ASSUME NEW t \in Requests, CommitDelete(t) PROVE SessionsOK'
    BY <1>16, AccountsAssumption DEF CommitDelete, At, Exists, Drop,
       SessionsOf, Return, Promise, TypeOK, SessionsOK, StoreOK, HandlersOK,
       HandlerOK, Live, storeVars, fileVars, histVars, Writes, SavedSessions
  <1>17. ASSUME NEW t \in Requests, CommitRefused(t) PROVE SessionsOK'
    BY <1>17, AccountsAssumption DEF CommitRefused, At, Return, TypeOK,
       SessionsOK, StoreOK, HandlersOK, HandlerOK, Live, storeVars, fileVars,
       histVars
  <1>18. ASSUME NEW t \in Requests, BeginChange(t) PROVE SessionsOK'
    BY <1>18, AccountsAssumption DEF BeginChange, At, TypeOK, SessionsOK,
       StoreOK, HandlersOK, HandlerOK, Live, storeVars, fileVars, histVars
  <1>19. ASSUME NEW t \in Requests, NEW u \in Users, BeginReset(t, u)
         PROVE  SessionsOK'
    BY <1>19, AccountsAssumption DEF BeginReset, At, CanManage, Aim, TypeOK,
       SessionsOK, StoreOK, HandlersOK, HandlerOK, Live, storeVars, fileVars,
       histVars
  <1>20. ASSUME NEW t \in Requests, Touch(t) PROVE SessionsOK'
    BY <1>20, AccountsAssumption DEF Touch, At, Goto, Return, TypeOK,
       SessionsOK, StoreOK, HandlersOK, HandlerOK, Live, storeVars, fileVars,
       histVars, Writes, SavedSessions
  <1>21. ASSUME NEW t \in Requests, Evict(t) PROVE SessionsOK'
    BY <1>21, AccountsAssumption DEF Evict, At, Drop, SessionsOf, Goto,
       Return, TypeOK, SessionsOK, StoreOK, HandlersOK, HandlerOK, Live,
       storeVars, fileVars, histVars, Writes, SavedSessions
  <1>22. ASSUME Reboot PROVE SessionsOK'
    BY <1>22, AccountsAssumption DEF Reboot, TypeOK, SessionsOK, StoreOK,
       HandlersOK, HandlerOK, Live, storeVars, fileVars, histVars
  <1>23. CASE UNCHANGED vars
    BY <1>23 DEF vars, TypeOK, SessionsOK, Live, storeVars, fileVars, histVars
  <1>24. QED
    BY <1>1, <1>2, <1>3, <1>4, <1>5, <1>6, <1>7, <1>8, <1>9, <1>10, <1>11,
       <1>12, <1>13, <1>14, <1>15, <1>16, <1>17, <1>18, <1>19, <1>20, <1>21,
       <1>22, <1>23, NextCases

(* A handler knows whom it works for and on. *)
LEMMA HandlersStep ==
    ASSUME TypeOK, [Next]_vars PROVE HandlersOK'
  <1>1. ASSUME NEW t \in Requests, BeginSetup(t) PROVE HandlersOK'
    <2>1. PICK h \in Handlers : h = [Idle EXCEPT !.pc = "found", !.op = "setup"]
      BY <1>1, IdleOK DEF Handlers, Steps, Ops, BeginSetup, At, TypeOK, StoreOK, SessionsOK
    <2>2. HandlerOK(h)' /\ Become(t, h)
      BY <1>1, <2>1 DEF Idle, HandlerOK, BeginSetup, At, TypeOK, StoreOK
    <2>3. used \subseteq used' /\ issued \subseteq issued'
      BY <1>1 DEF BeginSetup
    <2>4. QED
      BY <2>1, <2>2, <2>3, BecomeOK DEF TypeOK
  <1>2. ASSUME NEW t \in Requests, NEW u \in Users, Found(t, u)
         PROVE  HandlersOK'
    <2>1. PICK h \in Handlers : h = [Idle EXCEPT !.pc = "session", !.op = "setup",
                                    !.actor = u]
      BY IdleOK DEF Handlers, Steps, Ops
    <2>2. HandlerOK(h)'
      BY <1>2, <2>1, AccountsAssumption DEF Idle, HandlerOK, Found
    <2>3. used \subseteq used' /\ issued \subseteq issued'
      BY <1>2 DEF Found
    <2>4. Become(t, h) \/ Return(t)
      BY <1>2, <2>1 DEF Found
    <2>5. QED
      BY <2>1, <2>2, <2>3, <2>4, BecomeOK, ReturnOK DEF TypeOK
  <1>3. ASSUME NEW t \in Requests, FoundRefused(t) PROVE HandlersOK'
    BY <1>3, ReturnOK DEF FoundRefused, At, TypeOK, StoreOK, SessionsOK,
       HandlersOK, HandlerOK, storeVars, fileVars, histVars
  <1>4. ASSUME NEW t \in Requests, NEW u \in Users, Login(t, u)
         PROVE  HandlersOK'
    <2>1. PICK h \in Handlers : h = [Idle EXCEPT !.pc = "session", !.op = "login",
                                    !.actor = u]
      BY <1>4, AccountsAssumption, IdleOK DEF Handlers, Steps, Ops, Login, At, TypeOK, StoreOK, SessionsOK
    <2>2. HandlerOK(h)' /\ Become(t, h)
      BY <1>4, AccountsAssumption, <2>1 DEF Idle, HandlerOK, Login, At, TypeOK, StoreOK
    <2>3. used \subseteq used' /\ issued \subseteq issued'
      BY <1>4 DEF Login
    <2>4. QED
      BY <2>1, <2>2, <2>3, BecomeOK DEF TypeOK
  <1>5. ASSUME NEW t \in Requests, NEW s \in Sessions, NewSession(t, s)
         PROVE  HandlersOK'
    BY <1>5, ReturnOK, GotoOK DEF NewSession, At, TypeOK, StoreOK, SessionsOK,
       HandlersOK, HandlerOK, storeVars, fileVars, histVars, Steps
  <1>6. ASSUME NEW t \in Requests, Record(t) PROVE HandlersOK'
    BY <1>6, ReturnOK DEF Record, At, TypeOK, StoreOK, SessionsOK, HandlersOK,
       HandlerOK, storeVars, fileVars, histVars
  <1>7. ASSUME NEW t \in Requests, NEW s \in Sessions, Admit(t, s)
         PROVE  HandlersOK'
    <2>1. PICK b \in BOOLEAN : b = (sessions[s] \in admins)
      BY MembershipIsBoolean
    <2>2. sessions[s] \in used /\ sessions[s] \in Users /\ s \in issued
      BY <1>7 DEF Admit, Live, TypeOK, StoreOK, SessionsOK
    <2>3. PICK h \in Handlers : h = [Idle EXCEPT !.pc = "admitted",
                                    !.actor = sessions[s], !.boss = b,
                                    !.cookie = s]
      BY <2>2, IdleOK DEF Handlers, Steps
    <2>4. HandlerOK(h)'
      BY <1>7, <2>2, <2>3, AccountsAssumption DEF Idle, HandlerOK, Admit
    <2>5. Become(t, h)
      BY <1>7, <2>1, <2>3 DEF Admit
    <2>6. used \subseteq used' /\ issued \subseteq issued'
      BY <1>7 DEF Admit
    <2>7. QED
      BY <2>3, <2>4, <2>5, <2>6, BecomeOK DEF TypeOK
  <1>8. ASSUME NEW s \in Sessions, TurnAway(s) PROVE HandlersOK'
    BY <1>8 DEF TurnAway, Live, TypeOK, StoreOK, SessionsOK, HandlersOK,
       HandlerOK, storeVars, fileVars, histVars
  <1>9. ASSUME NEW t \in Requests, Leave(t) PROVE HandlersOK'
    BY <1>9, ReturnOK DEF Leave, At, TypeOK, StoreOK, SessionsOK, HandlersOK,
       HandlerOK, storeVars, fileVars, histVars
  <1>10. ASSUME NEW t \in Requests, Logout(t) PROVE HandlersOK'
    BY <1>10, ReturnOK DEF Logout, At, Drop, TypeOK, StoreOK, SessionsOK,
       HandlersOK, HandlerOK, storeVars, fileVars, histVars
  <1>11. ASSUME NEW t \in Requests, NEW u \in Users, Create(t, u)
         PROVE  HandlersOK'
    BY <1>11, ReturnOK DEF Create, At, Promise, TypeOK, StoreOK, SessionsOK,
       HandlersOK, HandlerOK, storeVars, fileVars, histVars
  <1>12. ASSUME NEW t \in Requests, NEW u \in Users, NEW patch \in Patches,
              BeginUpdate(t, u, patch)
         PROVE  HandlersOK'
    BY <1>12, AimOK, AccountsAssumption DEF BeginUpdate, At, CanManage,
       TypeOK, StoreOK, SessionsOK, HandlersOK, HandlerOK, storeVars,
       fileVars, histVars, Ops, Patches, NoPatch, Marks
  <1>13. ASSUME NEW t \in Requests, NEW u \in Users, BeginDelete(t, u)
         PROVE  HandlersOK'
    BY <1>13, AimOK, AccountsAssumption DEF BeginDelete, At, CanManage,
       TypeOK, StoreOK, SessionsOK, HandlersOK, HandlerOK, storeVars,
       fileVars, histVars, Ops, Patches, NoPatch, Marks
  <1>14. ASSUME NEW t \in Requests, CheckCount(t) PROVE HandlersOK'
    BY <1>14, ReturnOK, GotoOK DEF CheckCount, At, TypeOK, StoreOK,
       SessionsOK, HandlersOK, HandlerOK, storeVars, fileVars, histVars, Steps
  <1>15. ASSUME NEW t \in Requests, CommitUpdate(t) PROVE HandlersOK'
    BY <1>15, AimOK, ReturnOK, AccountsAssumption DEF CommitUpdate, At,
       Exists, KeepsAdmin, Promise, TypeOK, StoreOK, SessionsOK,
       HandlersOK, HandlerOK, storeVars, fileVars, histVars, Ops, Patches,
       NoPatch, Marks
  <1>16. ASSUME NEW t \in Requests, CommitDelete(t) PROVE HandlersOK'
    BY <1>16, ReturnOK DEF CommitDelete, At, Exists, Drop, SessionsOf,
       Promise, TypeOK, StoreOK, SessionsOK, HandlersOK, HandlerOK, storeVars,
       fileVars, histVars
  <1>17. ASSUME NEW t \in Requests, CommitRefused(t) PROVE HandlersOK'
    BY <1>17, ReturnOK DEF CommitRefused, At, TypeOK, StoreOK, SessionsOK,
       HandlersOK, HandlerOK, storeVars, fileVars, histVars
  <1>18. ASSUME NEW t \in Requests, BeginChange(t) PROVE HandlersOK'
    <2>1. PICK h \in Handlers : h = [Idle EXCEPT !.pc = "touch", !.op = "change",
                                    !.actor = req[t].actor,
                                    !.target = req[t].actor]
      BY <1>18, IdleOK DEF Handlers, Steps, Ops, BeginChange, At, TypeOK, StoreOK, SessionsOK, HandlersOK, HandlerOK
    <2>2. HandlerOK(h)' /\ Become(t, h)
      BY <1>18, <2>1 DEF Idle, HandlerOK, BeginChange, At, TypeOK, StoreOK, HandlersOK, HandlerOK
    <2>3. used \subseteq used' /\ issued \subseteq issued'
      BY <1>18 DEF BeginChange
    <2>4. QED
      BY <2>1, <2>2, <2>3, BecomeOK DEF TypeOK
  <1>19. ASSUME NEW t \in Requests, NEW u \in Users, BeginReset(t, u)
         PROVE  HandlersOK'
    BY <1>19, AimOK, AccountsAssumption DEF BeginReset, At, CanManage, TypeOK,
       StoreOK, SessionsOK, HandlersOK, HandlerOK, storeVars, fileVars,
       histVars, Ops, Patches, NoPatch, Marks
  <1>20. ASSUME NEW t \in Requests, Touch(t) PROVE HandlersOK'
    BY <1>20, ReturnOK, GotoOK DEF Touch, At, TypeOK, StoreOK, SessionsOK,
       HandlersOK, HandlerOK, storeVars, fileVars, histVars, Steps
  <1>21. ASSUME NEW t \in Requests, Evict(t) PROVE HandlersOK'
    BY <1>21, ReturnOK, GotoOK DEF Evict, At, Drop, SessionsOf, TypeOK,
       StoreOK, SessionsOK, HandlersOK, HandlerOK, storeVars, fileVars,
       histVars, Steps
  <1>22. ASSUME Reboot PROVE HandlersOK'
    BY <1>22, IdleOK DEF Reboot, TypeOK, StoreOK, SessionsOK, HandlersOK,
       HandlerOK, storeVars, fileVars, histVars
  <1>23. CASE UNCHANGED vars
    BY <1>23 DEF vars, TypeOK, HandlersOK, HandlerOK, storeVars, fileVars,
       histVars
  <1>24. QED
    BY <1>1, <1>2, <1>3, <1>4, <1>5, <1>6, <1>7, <1>8, <1>9, <1>10, <1>11,
       <1>12, <1>13, <1>14, <1>15, <1>16, <1>17, <1>18, <1>19, <1>20, <1>21,
       <1>22, <1>23, NextCases

(* The history stays within its types. *)
LEMMA CountersStep ==
    ASSUME TypeOK, [Next]_vars PROVE CountersOK'
  <1>1. ASSUME NEW t \in Requests, BeginSetup(t) PROVE CountersOK'
    BY <1>1, AccountsAssumption DEF BeginSetup, At, TypeOK, SessionsOK,
       StoreOK, CountersOK, HandlersOK, HandlerOK, Handlers, Live, storeVars,
       fileVars, histVars
  <1>2. ASSUME NEW t \in Requests, NEW u \in Users, Found(t, u)
         PROVE  CountersOK'
    BY <1>2, AccountsAssumption DEF Found, At, MayFound, Promise, TypeOK,
       SessionsOK, StoreOK, CountersOK, HandlersOK, HandlerOK, Handlers, Live,
       storeVars, fileVars, histVars, Writes, Write
  <1>3. ASSUME NEW t \in Requests, FoundRefused(t) PROVE CountersOK'
    BY <1>3, AccountsAssumption DEF FoundRefused, At, TypeOK, SessionsOK,
       StoreOK, CountersOK, HandlersOK, HandlerOK, Handlers, Live, storeVars,
       fileVars, histVars
  <1>4. ASSUME NEW t \in Requests, NEW u \in Users, Login(t, u)
         PROVE  CountersOK'
    BY <1>4, AccountsAssumption DEF Login, At, TypeOK, SessionsOK, StoreOK,
       CountersOK, HandlersOK, HandlerOK, Handlers, Live, storeVars, fileVars,
       histVars
  <1>5. ASSUME NEW t \in Requests, NEW s \in Sessions, NewSession(t, s)
         PROVE  CountersOK'
    BY <1>5, AccountsAssumption DEF NewSession, At, TypeOK, SessionsOK,
       StoreOK, CountersOK, HandlersOK, HandlerOK, Handlers, Live, storeVars,
       fileVars, histVars, Writes, Write
  <1>6. ASSUME NEW t \in Requests, Record(t) PROVE CountersOK'
    BY <1>6, AccountsAssumption DEF Record, At, TypeOK, SessionsOK, StoreOK,
       CountersOK, HandlersOK, HandlerOK, Handlers, Live, storeVars, fileVars,
       histVars, Writes, Write
  <1>7. ASSUME NEW t \in Requests, NEW s \in Sessions, Admit(t, s)
         PROVE  CountersOK'
    BY <1>7, AccountsAssumption DEF Admit, At, Live, TypeOK, SessionsOK,
       StoreOK, CountersOK, HandlersOK, HandlerOK, Handlers, storeVars,
       fileVars, histVars, Writes, Write
  <1>8. ASSUME NEW s \in Sessions, TurnAway(s) PROVE CountersOK'
    BY <1>8, AccountsAssumption DEF TurnAway, Live, TypeOK, SessionsOK,
       StoreOK, CountersOK, HandlersOK, HandlerOK, Handlers, storeVars,
       fileVars, histVars, Writes, Write
  <1>9. ASSUME NEW t \in Requests, Leave(t) PROVE CountersOK'
    BY <1>9, AccountsAssumption DEF Leave, At, TypeOK, SessionsOK, StoreOK,
       CountersOK, HandlersOK, HandlerOK, Handlers, Live, storeVars, fileVars,
       histVars, Writes, Write
  <1>10. ASSUME NEW t \in Requests, Logout(t) PROVE CountersOK'
    BY <1>10, AccountsAssumption DEF Logout, At, Drop, TypeOK, SessionsOK,
       StoreOK, CountersOK, HandlersOK, HandlerOK, Handlers, Live, storeVars,
       fileVars, histVars, Writes, Write
  <1>11. ASSUME NEW t \in Requests, NEW u \in Users, Create(t, u)
         PROVE  CountersOK'
    BY <1>11, AccountsAssumption DEF Create, At, Promise, TypeOK, SessionsOK,
       StoreOK, CountersOK, HandlersOK, HandlerOK, Handlers, Live, storeVars,
       fileVars, histVars, Writes, Write
  <1>12. ASSUME NEW t \in Requests, NEW u \in Users, NEW patch \in Patches,
              BeginUpdate(t, u, patch)
         PROVE  CountersOK'
    BY <1>12, AccountsAssumption DEF BeginUpdate, At, CanManage, TypeOK,
       SessionsOK, StoreOK, CountersOK, HandlersOK, HandlerOK, Handlers, Live,
       storeVars, fileVars, histVars
  <1>13. ASSUME NEW t \in Requests, NEW u \in Users, BeginDelete(t, u)
         PROVE  CountersOK'
    BY <1>13, AccountsAssumption DEF BeginDelete, At, CanManage, TypeOK,
       SessionsOK, StoreOK, CountersOK, HandlersOK, HandlerOK, Handlers, Live,
       storeVars, fileVars, histVars
  <1>14. ASSUME NEW t \in Requests, CheckCount(t) PROVE CountersOK'
    BY <1>14, AccountsAssumption DEF CheckCount, At, TypeOK, SessionsOK,
       StoreOK, CountersOK, HandlersOK, HandlerOK, Handlers, Live, storeVars,
       fileVars, histVars
  <1>15. ASSUME NEW t \in Requests, CommitUpdate(t) PROVE CountersOK'
    BY <1>15, AccountsAssumption DEF CommitUpdate, At, Exists, Mark,
       KeepsAdmin, Promise, TypeOK, SessionsOK, StoreOK, CountersOK,
       HandlersOK, HandlerOK, Handlers, Live, storeVars, fileVars, histVars,
       Writes, Write
  <1>16. ASSUME NEW t \in Requests, CommitDelete(t) PROVE CountersOK'
    BY <1>16, AccountsAssumption DEF CommitDelete, At, Exists, Drop,
       SessionsOf, Promise, TypeOK, SessionsOK, StoreOK, CountersOK,
       HandlersOK, HandlerOK, Handlers, Live, storeVars, fileVars, histVars,
       Writes, Write
  <1>17. ASSUME NEW t \in Requests, CommitRefused(t) PROVE CountersOK'
    BY <1>17, AccountsAssumption DEF CommitRefused, At, TypeOK, SessionsOK,
       StoreOK, CountersOK, HandlersOK, HandlerOK, Handlers, Live, storeVars,
       fileVars, histVars
  <1>18. ASSUME NEW t \in Requests, BeginChange(t) PROVE CountersOK'
    BY <1>18, AccountsAssumption DEF BeginChange, At, TypeOK, SessionsOK,
       StoreOK, CountersOK, HandlersOK, HandlerOK, Handlers, Live, storeVars,
       fileVars, histVars
  <1>19. ASSUME NEW t \in Requests, NEW u \in Users, BeginReset(t, u)
         PROVE  CountersOK'
    BY <1>19, AccountsAssumption DEF BeginReset, At, CanManage, TypeOK,
       SessionsOK, StoreOK, CountersOK, HandlersOK, HandlerOK, Handlers, Live,
       storeVars, fileVars, histVars
  <1>20. ASSUME NEW t \in Requests, Touch(t) PROVE CountersOK'
    BY <1>20, AccountsAssumption DEF Touch, At, TypeOK, SessionsOK, StoreOK,
       CountersOK, HandlersOK, HandlerOK, Handlers, Live, storeVars, fileVars,
       histVars, Writes, Write
  <1>21. ASSUME NEW t \in Requests, Evict(t) PROVE CountersOK'
    BY <1>21, AccountsAssumption DEF Evict, At, Drop, SessionsOf, TypeOK,
       SessionsOK, StoreOK, CountersOK, HandlersOK, HandlerOK, Handlers, Live,
       storeVars, fileVars, histVars, Writes, Write
  <1>22. ASSUME Reboot PROVE CountersOK'
    BY <1>22, AccountsAssumption DEF Reboot, TypeOK, SessionsOK, StoreOK,
       CountersOK, HandlersOK, HandlerOK, Handlers, Live, storeVars, fileVars,
       histVars, Writes, Write
  <1>23. CASE UNCHANGED vars
    BY <1>23 DEF vars, TypeOK, CountersOK, storeVars, fileVars, histVars
  <1>24. QED
    BY <1>1, <1>2, <1>3, <1>4, <1>5, <1>6, <1>7, <1>8, <1>9, <1>10, <1>11,
       <1>12, <1>13, <1>14, <1>15, <1>16, <1>17, <1>18, <1>19, <1>20, <1>21,
       <1>22, <1>23, NextCases

(* What is in force is what the file would bring back. *)
LEMMA PromiseStep ==
    ASSUME TypeOK, PromiseKept, [Next]_vars PROVE PromiseKept'
  <1>1. ASSUME NEW t \in Requests, BeginSetup(t) PROVE PromiseKept'
    BY <1>1 DEF BeginSetup, At, TypeOK, StoreOK, SessionsOK, CountersOK,
       HandlersOK, HandlerOK, PromiseKept, Live, storeVars, fileVars, histVars
  <1>2. ASSUME NEW t \in Requests, NEW u \in Users, Found(t, u)
         PROVE  PromiseKept'
    BY <1>2 DEF Found, At, MayFound, Promise, TypeOK, StoreOK, SessionsOK,
       CountersOK, HandlersOK, HandlerOK, PromiseKept, Live, storeVars,
       fileVars, histVars, Writes, SavedPanel, SavedSessions, Panel, Panels,
       NoPanel, Write
  <1>3. ASSUME NEW t \in Requests, FoundRefused(t) PROVE PromiseKept'
    BY <1>3 DEF FoundRefused, At, TypeOK, StoreOK, SessionsOK, CountersOK,
       HandlersOK, HandlerOK, PromiseKept, Live, storeVars, fileVars, histVars
  <1>4. ASSUME NEW t \in Requests, NEW u \in Users, Login(t, u)
         PROVE  PromiseKept'
    BY <1>4 DEF Login, At, TypeOK, StoreOK, SessionsOK, CountersOK,
       HandlersOK, HandlerOK, PromiseKept, Live, storeVars, fileVars, histVars
  <1>5. ASSUME NEW t \in Requests, NEW s \in Sessions, NewSession(t, s)
         PROVE  PromiseKept'
    BY <1>5 DEF NewSession, At, TypeOK, StoreOK, SessionsOK, CountersOK,
       HandlersOK, HandlerOK, PromiseKept, Live, storeVars, fileVars,
       histVars, Writes, SavedPanel, SavedSessions, Panel, Panels, NoPanel,
       Write
  <1>6. ASSUME NEW t \in Requests, Record(t) PROVE PromiseKept'
    BY <1>6 DEF Record, At, TypeOK, StoreOK, SessionsOK, CountersOK,
       HandlersOK, HandlerOK, PromiseKept, Live, storeVars, fileVars,
       histVars, Writes, SavedPanel, SavedSessions, Panel, Panels, NoPanel,
       Write
  <1>7. ASSUME NEW t \in Requests, NEW s \in Sessions, Admit(t, s)
         PROVE  PromiseKept'
    BY <1>7 DEF Admit, At, Live, TypeOK, StoreOK, SessionsOK, CountersOK,
       HandlersOK, HandlerOK, PromiseKept, storeVars, fileVars, histVars,
       Writes, SavedPanel, SavedSessions, Panel, Panels, NoPanel, Write
  <1>8. ASSUME NEW s \in Sessions, TurnAway(s) PROVE PromiseKept'
    BY <1>8 DEF TurnAway, Live, TypeOK, StoreOK, SessionsOK, CountersOK,
       HandlersOK, HandlerOK, PromiseKept, storeVars, fileVars, histVars,
       Writes, SavedPanel, SavedSessions, Panel, Panels, NoPanel, Write
  <1>9. ASSUME NEW t \in Requests, Leave(t) PROVE PromiseKept'
    BY <1>9 DEF Leave, At, TypeOK, StoreOK, SessionsOK, CountersOK,
       HandlersOK, HandlerOK, PromiseKept, Live, storeVars, fileVars,
       histVars, Writes, SavedPanel, SavedSessions, Panel, Panels, NoPanel,
       Write
  <1>10. ASSUME NEW t \in Requests, Logout(t) PROVE PromiseKept'
    BY <1>10 DEF Logout, At, Drop, TypeOK, StoreOK, SessionsOK, CountersOK,
       HandlersOK, HandlerOK, PromiseKept, Live, storeVars, fileVars,
       histVars, Writes, SavedPanel, SavedSessions, Panel, Panels, NoPanel,
       Write
  <1>11. ASSUME NEW t \in Requests, NEW u \in Users, Create(t, u)
         PROVE  PromiseKept'
    BY <1>11 DEF Create, At, Promise, TypeOK, StoreOK, SessionsOK, CountersOK,
       HandlersOK, HandlerOK, PromiseKept, Live, storeVars, fileVars,
       histVars, Writes, SavedPanel, SavedSessions, Panel, Panels, NoPanel,
       Write
  <1>12. ASSUME NEW t \in Requests, NEW u \in Users, NEW patch \in Patches,
              BeginUpdate(t, u, patch)
         PROVE  PromiseKept'
    BY <1>12 DEF BeginUpdate, At, CanManage, TypeOK, StoreOK, SessionsOK,
       CountersOK, HandlersOK, HandlerOK, PromiseKept, Live, storeVars,
       fileVars, histVars
  <1>13. ASSUME NEW t \in Requests, NEW u \in Users, BeginDelete(t, u)
         PROVE  PromiseKept'
    BY <1>13 DEF BeginDelete, At, CanManage, TypeOK, StoreOK, SessionsOK,
       CountersOK, HandlersOK, HandlerOK, PromiseKept, Live, storeVars,
       fileVars, histVars
  <1>14. ASSUME NEW t \in Requests, CheckCount(t) PROVE PromiseKept'
    BY <1>14 DEF CheckCount, At, TypeOK, StoreOK, SessionsOK, CountersOK,
       HandlersOK, HandlerOK, PromiseKept, Live, storeVars, fileVars, histVars
  <1>15. ASSUME NEW t \in Requests, CommitUpdate(t) PROVE PromiseKept'
    BY <1>15, MarkFacts DEF CommitUpdate, At, Exists, KeepsAdmin,
       Promise, TypeOK, StoreOK, SessionsOK, CountersOK, HandlersOK,
       HandlerOK, PromiseKept, Live, storeVars, fileVars, histVars, Writes,
       SavedPanel, SavedSessions, Panel, Panels, NoPanel, Write, Handlers,
       Patches
  <1>16. ASSUME NEW t \in Requests, CommitDelete(t) PROVE PromiseKept'
    BY <1>16 DEF CommitDelete, At, Exists, Drop, SessionsOf, Promise, TypeOK,
       StoreOK, SessionsOK, CountersOK, HandlersOK, HandlerOK, PromiseKept,
       Live, storeVars, fileVars, histVars, Writes, SavedPanel, SavedSessions,
       Panel, Panels, NoPanel, Write
  <1>17. ASSUME NEW t \in Requests, CommitRefused(t) PROVE PromiseKept'
    BY <1>17 DEF CommitRefused, At, TypeOK, StoreOK, SessionsOK, CountersOK,
       HandlersOK, HandlerOK, PromiseKept, Live, storeVars, fileVars, histVars
  <1>18. ASSUME NEW t \in Requests, BeginChange(t) PROVE PromiseKept'
    BY <1>18 DEF BeginChange, At, TypeOK, StoreOK, SessionsOK, CountersOK,
       HandlersOK, HandlerOK, PromiseKept, Live, storeVars, fileVars, histVars
  <1>19. ASSUME NEW t \in Requests, NEW u \in Users, BeginReset(t, u)
         PROVE  PromiseKept'
    BY <1>19 DEF BeginReset, At, CanManage, TypeOK, StoreOK, SessionsOK,
       CountersOK, HandlersOK, HandlerOK, PromiseKept, Live, storeVars,
       fileVars, histVars
  <1>20. ASSUME NEW t \in Requests, Touch(t) PROVE PromiseKept'
    BY <1>20 DEF Touch, At, TypeOK, StoreOK, SessionsOK, CountersOK,
       HandlersOK, HandlerOK, PromiseKept, Live, storeVars, fileVars,
       histVars, Writes, SavedPanel, SavedSessions, Panel, Panels, NoPanel,
       Write
  <1>21. ASSUME NEW t \in Requests, Evict(t) PROVE PromiseKept'
    BY <1>21 DEF Evict, At, Drop, SessionsOf, TypeOK, StoreOK, SessionsOK,
       CountersOK, HandlersOK, HandlerOK, PromiseKept, Live, storeVars,
       fileVars, histVars, Writes, SavedPanel, SavedSessions, Panel, Panels,
       NoPanel, Write
  <1>22. ASSUME Reboot PROVE PromiseKept'
    BY <1>22 DEF Reboot, TypeOK, StoreOK, SessionsOK, CountersOK, HandlersOK,
       HandlerOK, PromiseKept, Live, storeVars, fileVars, histVars
  <1>23. CASE UNCHANGED vars
    BY <1>23 DEF vars, PromiseKept, storeVars, fileVars, histVars
  <1>24. QED
    BY <1>1, <1>2, <1>3, <1>4, <1>5, <1>6, <1>7, <1>8, <1>9, <1>10, <1>11,
       <1>12, <1>13, <1>14, <1>15, <1>16, <1>17, <1>18, <1>19, <1>20, <1>21,
       <1>22, <1>23, NextCases

(* A removed token is not issued again and leaves the file with the next *)
(* successful write.                                                       *)
LEMMA EndedStep ==
    ASSUME TypeOK, EndedStaysOut, [Next]_vars PROVE EndedStaysOut'
  <1>1. ASSUME NEW t \in Requests, BeginSetup(t) PROVE EndedStaysOut'
    BY <1>1 DEF BeginSetup, At, TypeOK, StoreOK, SessionsOK, CountersOK,
       HandlersOK, HandlerOK, EndedStaysOut, Live, storeVars, fileVars,
       histVars
  <1>2. ASSUME NEW t \in Requests, NEW u \in Users, Found(t, u)
         PROVE  EndedStaysOut'
    BY <1>2 DEF Found, At, MayFound, Promise, TypeOK, StoreOK, SessionsOK,
       CountersOK, HandlersOK, HandlerOK, EndedStaysOut, Live, storeVars,
       fileVars, histVars, Writes, SavedPanel, SavedSessions, Panel, Panels,
       NoPanel, Write
  <1>3. ASSUME NEW t \in Requests, FoundRefused(t) PROVE EndedStaysOut'
    BY <1>3 DEF FoundRefused, At, TypeOK, StoreOK, SessionsOK, CountersOK,
       HandlersOK, HandlerOK, EndedStaysOut, Live, storeVars, fileVars,
       histVars
  <1>4. ASSUME NEW t \in Requests, NEW u \in Users, Login(t, u)
         PROVE  EndedStaysOut'
    BY <1>4 DEF Login, At, TypeOK, StoreOK, SessionsOK, CountersOK,
       HandlersOK, HandlerOK, EndedStaysOut, Live, storeVars, fileVars,
       histVars
  <1>5. ASSUME NEW t \in Requests, NEW s \in Sessions, NewSession(t, s)
         PROVE  EndedStaysOut'
    BY <1>5 DEF NewSession, At, TypeOK, StoreOK, SessionsOK, CountersOK,
       HandlersOK, HandlerOK, EndedStaysOut, Live, storeVars, fileVars,
       histVars, Writes, SavedPanel, SavedSessions, Panel, Panels, NoPanel,
       Write
  <1>6. ASSUME NEW t \in Requests, Record(t) PROVE EndedStaysOut'
    BY <1>6 DEF Record, At, TypeOK, StoreOK, SessionsOK, CountersOK,
       HandlersOK, HandlerOK, EndedStaysOut, Live, storeVars, fileVars,
       histVars, Writes, SavedPanel, SavedSessions, Panel, Panels, NoPanel,
       Write
  <1>7. ASSUME NEW t \in Requests, NEW s \in Sessions, Admit(t, s)
         PROVE  EndedStaysOut'
    BY <1>7 DEF Admit, At, Live, TypeOK, StoreOK, SessionsOK, CountersOK,
       HandlersOK, HandlerOK, EndedStaysOut, storeVars, fileVars, histVars,
       Writes, SavedPanel, SavedSessions, Panel, Panels, NoPanel, Write
  <1>8. ASSUME NEW s \in Sessions, TurnAway(s) PROVE EndedStaysOut'
    BY <1>8 DEF TurnAway, Live, TypeOK, StoreOK, SessionsOK, CountersOK,
       HandlersOK, HandlerOK, EndedStaysOut, storeVars, fileVars, histVars,
       Writes, SavedPanel, SavedSessions, Panel, Panels, NoPanel, Write
  <1>9. ASSUME NEW t \in Requests, Leave(t) PROVE EndedStaysOut'
    BY <1>9 DEF Leave, At, TypeOK, StoreOK, SessionsOK, CountersOK,
       HandlersOK, HandlerOK, EndedStaysOut, Live, storeVars, fileVars,
       histVars, Writes, SavedPanel, SavedSessions, Panel, Panels, NoPanel,
       Write
  <1>10. ASSUME NEW t \in Requests, Logout(t) PROVE EndedStaysOut'
    BY <1>10 DEF Logout, At, Drop, TypeOK, StoreOK, SessionsOK, CountersOK,
       HandlersOK, HandlerOK, EndedStaysOut, Live, storeVars, fileVars,
       histVars, Writes, SavedPanel, SavedSessions, Panel, Panels, NoPanel,
       Write
  <1>11. ASSUME NEW t \in Requests, NEW u \in Users, Create(t, u)
         PROVE  EndedStaysOut'
    BY <1>11 DEF Create, At, Promise, TypeOK, StoreOK, SessionsOK, CountersOK,
       HandlersOK, HandlerOK, EndedStaysOut, Live, storeVars, fileVars,
       histVars, Writes, SavedPanel, SavedSessions, Panel, Panels, NoPanel,
       Write
  <1>12. ASSUME NEW t \in Requests, NEW u \in Users, NEW patch \in Patches,
              BeginUpdate(t, u, patch)
         PROVE  EndedStaysOut'
    BY <1>12 DEF BeginUpdate, At, CanManage, TypeOK, StoreOK, SessionsOK,
       CountersOK, HandlersOK, HandlerOK, EndedStaysOut, Live, storeVars,
       fileVars, histVars
  <1>13. ASSUME NEW t \in Requests, NEW u \in Users, BeginDelete(t, u)
         PROVE  EndedStaysOut'
    BY <1>13 DEF BeginDelete, At, CanManage, TypeOK, StoreOK, SessionsOK,
       CountersOK, HandlersOK, HandlerOK, EndedStaysOut, Live, storeVars,
       fileVars, histVars
  <1>14. ASSUME NEW t \in Requests, CheckCount(t) PROVE EndedStaysOut'
    BY <1>14 DEF CheckCount, At, TypeOK, StoreOK, SessionsOK, CountersOK,
       HandlersOK, HandlerOK, EndedStaysOut, Live, storeVars, fileVars,
       histVars
  <1>15. ASSUME NEW t \in Requests, CommitUpdate(t) PROVE EndedStaysOut'
    BY <1>15, MarkFacts DEF CommitUpdate, At, Exists, KeepsAdmin,
       Promise, TypeOK, StoreOK, SessionsOK, CountersOK, HandlersOK,
       HandlerOK, EndedStaysOut, Live, storeVars, fileVars, histVars, Writes,
       SavedPanel, SavedSessions, Panel, Panels, NoPanel, Write, Handlers,
       Patches
  <1>16. ASSUME NEW t \in Requests, CommitDelete(t) PROVE EndedStaysOut'
    BY <1>16 DEF CommitDelete, At, Exists, Drop, SessionsOf, Promise, TypeOK,
       StoreOK, SessionsOK, CountersOK, HandlersOK, HandlerOK, EndedStaysOut,
       Live, storeVars, fileVars, histVars, Writes, SavedPanel, SavedSessions,
       Panel, Panels, NoPanel, Write
  <1>17. ASSUME NEW t \in Requests, CommitRefused(t) PROVE EndedStaysOut'
    BY <1>17 DEF CommitRefused, At, TypeOK, StoreOK, SessionsOK, CountersOK,
       HandlersOK, HandlerOK, EndedStaysOut, Live, storeVars, fileVars,
       histVars
  <1>18. ASSUME NEW t \in Requests, BeginChange(t) PROVE EndedStaysOut'
    BY <1>18 DEF BeginChange, At, TypeOK, StoreOK, SessionsOK, CountersOK,
       HandlersOK, HandlerOK, EndedStaysOut, Live, storeVars, fileVars,
       histVars
  <1>19. ASSUME NEW t \in Requests, NEW u \in Users, BeginReset(t, u)
         PROVE  EndedStaysOut'
    BY <1>19 DEF BeginReset, At, CanManage, TypeOK, StoreOK, SessionsOK,
       CountersOK, HandlersOK, HandlerOK, EndedStaysOut, Live, storeVars,
       fileVars, histVars
  <1>20. ASSUME NEW t \in Requests, Touch(t) PROVE EndedStaysOut'
    BY <1>20 DEF Touch, At, TypeOK, StoreOK, SessionsOK, CountersOK,
       HandlersOK, HandlerOK, EndedStaysOut, Live, storeVars, fileVars,
       histVars, Writes, SavedPanel, SavedSessions, Panel, Panels, NoPanel,
       Write
  <1>21. ASSUME NEW t \in Requests, Evict(t) PROVE EndedStaysOut'
    BY <1>21 DEF Evict, At, Drop, SessionsOf, TypeOK, StoreOK, SessionsOK,
       CountersOK, HandlersOK, HandlerOK, EndedStaysOut, Live, storeVars,
       fileVars, histVars, Writes, SavedPanel, SavedSessions, Panel, Panels,
       NoPanel, Write
  <1>22. ASSUME Reboot PROVE EndedStaysOut'
    BY <1>22 DEF Reboot, TypeOK, StoreOK, SessionsOK, CountersOK, HandlersOK,
       HandlerOK, EndedStaysOut, Live, storeVars, fileVars, histVars
  <1>23. CASE UNCHANGED vars
    BY <1>23 DEF vars, EndedStaysOut, Live, storeVars, fileVars, histVars
  <1>24. QED
    BY <1>1, <1>2, <1>3, <1>4, <1>5, <1>6, <1>7, <1>8, <1>9, <1>10, <1>11,
       <1>12, <1>13, <1>14, <1>15, <1>16, <1>17, <1>18, <1>19, <1>20, <1>21,
       <1>22, <1>23, NextCases

-----------------------------------------------------------------------------
(* The panel starts empty. *)
LEMMA InitOK == Init => TypeOK /\ PromiseKept /\ EndedStaysOut
  <1> SUFFICES ASSUME Init PROVE TypeOK /\ PromiseKept /\ EndedStaysOut
    OBVIOUS
  <1>1. StoreOK
    BY DEF Init, StoreOK, Panels, NoPanel
  <1>2. SessionsOK
    BY DEF Init, SessionsOK, Live
  <1>3. HandlersOK
    BY IdleOK DEF Init, HandlersOK, HandlerOK
  <1>4. CountersOK
    BY AccountsAssumption DEF Init, CountersOK, Write
  <1>5. PromiseKept /\ EndedStaysOut
    BY DEF Init, PromiseKept, EndedStaysOut
  <1>6. QED
    BY <1>1, <1>2, <1>3, <1>4, <1>5 DEF TypeOK

LEMMA TypeStep == TypeOK /\ [Next]_vars => TypeOK'
  <1>1. ASSUME TypeOK, [Next]_vars PROVE TypeOK'
    BY <1>1, StoreStep, SessionsStep, HandlersStep, CountersStep DEF TypeOK
  <1>2. QED
    BY <1>1

(* Every variable keeps its type: the marks belong to existing users,      *)
(* tokens that were not issued name nobody, and a handler past its first   *)
(* step knows whom it works for and on.                                    *)
THEOREM TypeCorrect == Spec => []TypeOK
  BY InitOK, TypeStep, PTL DEF Spec

(* What the last successful answer said of an account is in force and      *)
(* survives every restart, whatever other requests do or fail to write.    *)
THEOREM PromisesHold == Spec => []PromiseKept
  <1>1. TypeOK /\ PromiseKept /\ [Next]_vars => PromiseKept'
    BY PromiseStep
  <1>2. QED
    BY <1>1, InitOK, TypeCorrect, PTL DEF Spec

(* A session that was ended does not come back, but by a restart after a   *)
(* write of sessions.json that failed.                                     *)
THEOREM EndedForGood == Spec => []EndedStaysOut
  <1>1. TypeOK /\ EndedStaysOut /\ [Next]_vars => EndedStaysOut'
    BY EndedStep
  <1>2. QED
    BY <1>1, InitOK, TypeCorrect, PTL DEF Spec

-----------------------------------------------------------------------------
(* What a step does to the admins, and to the fields of an account. *)
AdminStep == Active # {} /\ Active' = {} /\ boots' = boots => users \ users' # {}
FieldStep ==
    boots' = boots => \A u \in users \cap users' :
        /\ (u \in disabled) # (u \in disabled') => \E t \in Requests :
              At(t, "commit") /\ req[t].target = u /\ req[t].patch.disabled # "keep"
        /\ (u \in admins) # (u \in admins') => \E t \in Requests :
              At(t, "commit") /\ req[t].target = u /\ req[t].patch.admin # "keep"

(* An update keeps an admin by its guard, and only a deletion removes one. *)
LEMMA AdminStepHolds ==
    ASSUME TypeOK, [Next]_vars PROVE AdminStep
  <1>1. ASSUME NEW t \in Requests, BeginSetup(t) PROVE AdminStep
    BY <1>1 DEF BeginSetup, At, AdminStep, Active, TypeOK, StoreOK, storeVars,
       fileVars, histVars
  <1>2. ASSUME NEW t \in Requests, NEW u \in Users, Found(t, u)
         PROVE  AdminStep
    BY <1>2 DEF Found, At, MayFound, Promise, AdminStep, Active, TypeOK,
       StoreOK, storeVars, fileVars, histVars
  <1>3. ASSUME NEW t \in Requests, FoundRefused(t) PROVE AdminStep
    BY <1>3 DEF FoundRefused, At, AdminStep, Active, TypeOK, StoreOK,
       storeVars, fileVars, histVars
  <1>4. ASSUME NEW t \in Requests, NEW u \in Users, Login(t, u)
         PROVE  AdminStep
    BY <1>4 DEF Login, At, AdminStep, Active, TypeOK, StoreOK, storeVars,
       fileVars, histVars
  <1>5. ASSUME NEW t \in Requests, NEW s \in Sessions, NewSession(t, s)
         PROVE  AdminStep
    BY <1>5 DEF NewSession, At, AdminStep, Active, TypeOK, StoreOK, storeVars,
       fileVars, histVars
  <1>6. ASSUME NEW t \in Requests, Record(t) PROVE AdminStep
    BY <1>6 DEF Record, At, AdminStep, Active, TypeOK, StoreOK, storeVars,
       fileVars, histVars
  <1>7. ASSUME NEW t \in Requests, NEW s \in Sessions, Admit(t, s)
         PROVE  AdminStep
    BY <1>7 DEF Admit, At, Live, AdminStep, Active, TypeOK, StoreOK,
       storeVars, fileVars, histVars
  <1>8. ASSUME NEW s \in Sessions, TurnAway(s) PROVE AdminStep
    BY <1>8 DEF TurnAway, Live, AdminStep, Active, TypeOK, StoreOK, storeVars,
       fileVars, histVars
  <1>9. ASSUME NEW t \in Requests, Leave(t) PROVE AdminStep
    BY <1>9 DEF Leave, At, AdminStep, Active, TypeOK, StoreOK, storeVars,
       fileVars, histVars
  <1>10. ASSUME NEW t \in Requests, Logout(t) PROVE AdminStep
    BY <1>10 DEF Logout, At, Drop, AdminStep, Active, TypeOK, StoreOK,
       storeVars, fileVars, histVars
  <1>11. ASSUME NEW t \in Requests, NEW u \in Users, Create(t, u)
         PROVE  AdminStep
    BY <1>11 DEF Create, At, Promise, AdminStep, Active, TypeOK, StoreOK,
       storeVars, fileVars, histVars
  <1>12. ASSUME NEW t \in Requests, NEW u \in Users, NEW patch \in Patches,
              BeginUpdate(t, u, patch)
         PROVE  AdminStep
    BY <1>12 DEF BeginUpdate, At, CanManage, AdminStep, Active, TypeOK,
       StoreOK, storeVars, fileVars, histVars
  <1>13. ASSUME NEW t \in Requests, NEW u \in Users, BeginDelete(t, u)
         PROVE  AdminStep
    BY <1>13 DEF BeginDelete, At, CanManage, AdminStep, Active, TypeOK,
       StoreOK, storeVars, fileVars, histVars
  <1>14. ASSUME NEW t \in Requests, CheckCount(t) PROVE AdminStep
    BY <1>14 DEF CheckCount, At, AdminStep, Active, TypeOK, StoreOK,
       storeVars, fileVars, histVars
  <1>15. ASSUME NEW t \in Requests, CommitUpdate(t) PROVE AdminStep
    BY <1>15, MarkFacts DEF CommitUpdate, At, Exists, KeepsAdmin,
       Promise, AdminStep, Active, TypeOK, StoreOK, HandlersOK, Handlers,
       Patches, storeVars, fileVars, histVars
  <1>16. ASSUME NEW t \in Requests, CommitDelete(t) PROVE AdminStep
    BY <1>16 DEF CommitDelete, At, Exists, Drop, SessionsOf, Promise,
       AdminStep, Active, TypeOK, StoreOK, storeVars, fileVars, histVars
  <1>17. ASSUME NEW t \in Requests, CommitRefused(t) PROVE AdminStep
    BY <1>17 DEF CommitRefused, At, AdminStep, Active, TypeOK, StoreOK,
       storeVars, fileVars, histVars
  <1>18. ASSUME NEW t \in Requests, BeginChange(t) PROVE AdminStep
    BY <1>18 DEF BeginChange, At, AdminStep, Active, TypeOK, StoreOK,
       storeVars, fileVars, histVars
  <1>19. ASSUME NEW t \in Requests, NEW u \in Users, BeginReset(t, u)
         PROVE  AdminStep
    BY <1>19 DEF BeginReset, At, CanManage, AdminStep, Active, TypeOK,
       StoreOK, storeVars, fileVars, histVars
  <1>20. ASSUME NEW t \in Requests, Touch(t) PROVE AdminStep
    BY <1>20 DEF Touch, At, AdminStep, Active, TypeOK, StoreOK, storeVars,
       fileVars, histVars
  <1>21. ASSUME NEW t \in Requests, Evict(t) PROVE AdminStep
    BY <1>21 DEF Evict, At, Drop, SessionsOf, AdminStep, Active, TypeOK,
       StoreOK, storeVars, fileVars, histVars
  <1>22. ASSUME Reboot PROVE AdminStep
    BY <1>22 DEF Reboot, AdminStep, Active, TypeOK, StoreOK, CountersOK,
       storeVars, fileVars, histVars
  <1>23. CASE UNCHANGED vars
    BY <1>23 DEF vars, AdminStep, Active, storeVars, fileVars, histVars
  <1>24. QED
    BY <1>1, <1>2, <1>3, <1>4, <1>5, <1>6, <1>7, <1>8, <1>9, <1>10, <1>11,
       <1>12, <1>13, <1>14, <1>15, <1>16, <1>17, <1>18, <1>19, <1>20, <1>21,
       <1>22, <1>23, NextCases

(* The commit of an update is the only step that changes a mark of an      *)
(* account that stays, and it changes those its request names.             *)
LEMMA FieldStepHolds ==
    ASSUME TypeOK, [Next]_vars PROVE FieldStep
  <1>1. ASSUME NEW t \in Requests, BeginSetup(t) PROVE FieldStep
    BY <1>1 DEF BeginSetup, At, FieldStep, TypeOK, StoreOK, storeVars,
       fileVars, histVars
  <1>2. ASSUME NEW t \in Requests, NEW u \in Users, Found(t, u)
         PROVE  FieldStep
    BY <1>2 DEF Found, At, MayFound, Promise, FieldStep, TypeOK, StoreOK,
       storeVars, fileVars, histVars
  <1>3. ASSUME NEW t \in Requests, FoundRefused(t) PROVE FieldStep
    BY <1>3 DEF FoundRefused, At, FieldStep, TypeOK, StoreOK, storeVars,
       fileVars, histVars
  <1>4. ASSUME NEW t \in Requests, NEW u \in Users, Login(t, u)
         PROVE  FieldStep
    BY <1>4 DEF Login, At, FieldStep, TypeOK, StoreOK, storeVars, fileVars,
       histVars
  <1>5. ASSUME NEW t \in Requests, NEW s \in Sessions, NewSession(t, s)
         PROVE  FieldStep
    BY <1>5 DEF NewSession, At, FieldStep, TypeOK, StoreOK, storeVars,
       fileVars, histVars
  <1>6. ASSUME NEW t \in Requests, Record(t) PROVE FieldStep
    BY <1>6 DEF Record, At, FieldStep, TypeOK, StoreOK, storeVars, fileVars,
       histVars
  <1>7. ASSUME NEW t \in Requests, NEW s \in Sessions, Admit(t, s)
         PROVE  FieldStep
    BY <1>7 DEF Admit, At, Live, FieldStep, TypeOK, StoreOK, storeVars,
       fileVars, histVars
  <1>8. ASSUME NEW s \in Sessions, TurnAway(s) PROVE FieldStep
    BY <1>8 DEF TurnAway, Live, FieldStep, TypeOK, StoreOK, storeVars,
       fileVars, histVars
  <1>9. ASSUME NEW t \in Requests, Leave(t) PROVE FieldStep
    BY <1>9 DEF Leave, At, FieldStep, TypeOK, StoreOK, storeVars, fileVars,
       histVars
  <1>10. ASSUME NEW t \in Requests, Logout(t) PROVE FieldStep
    BY <1>10 DEF Logout, At, Drop, FieldStep, TypeOK, StoreOK, storeVars,
       fileVars, histVars
  <1>11. ASSUME NEW t \in Requests, NEW u \in Users, Create(t, u)
         PROVE  FieldStep
    BY <1>11 DEF Create, At, Promise, FieldStep, TypeOK, StoreOK, storeVars,
       fileVars, histVars
  <1>12. ASSUME NEW t \in Requests, NEW u \in Users, NEW patch \in Patches,
              BeginUpdate(t, u, patch)
         PROVE  FieldStep
    BY <1>12 DEF BeginUpdate, At, CanManage, FieldStep, TypeOK, StoreOK,
       storeVars, fileVars, histVars
  <1>13. ASSUME NEW t \in Requests, NEW u \in Users, BeginDelete(t, u)
         PROVE  FieldStep
    BY <1>13 DEF BeginDelete, At, CanManage, FieldStep, TypeOK, StoreOK,
       storeVars, fileVars, histVars
  <1>14. ASSUME NEW t \in Requests, CheckCount(t) PROVE FieldStep
    BY <1>14 DEF CheckCount, At, FieldStep, TypeOK, StoreOK, storeVars,
       fileVars, histVars
  <1>15. ASSUME NEW t \in Requests, CommitUpdate(t) PROVE FieldStep
    BY <1>15, MarkFacts DEF CommitUpdate, At, Exists, KeepsAdmin,
       Promise, FieldStep, TypeOK, StoreOK, HandlersOK, Handlers, Patches,
       storeVars, fileVars, histVars
  <1>16. ASSUME NEW t \in Requests, CommitDelete(t) PROVE FieldStep
    BY <1>16 DEF CommitDelete, At, Exists, Drop, SessionsOf, Promise,
       FieldStep, TypeOK, StoreOK, storeVars, fileVars, histVars
  <1>17. ASSUME NEW t \in Requests, CommitRefused(t) PROVE FieldStep
    BY <1>17 DEF CommitRefused, At, FieldStep, TypeOK, StoreOK, storeVars,
       fileVars, histVars
  <1>18. ASSUME NEW t \in Requests, BeginChange(t) PROVE FieldStep
    BY <1>18 DEF BeginChange, At, FieldStep, TypeOK, StoreOK, storeVars,
       fileVars, histVars
  <1>19. ASSUME NEW t \in Requests, NEW u \in Users, BeginReset(t, u)
         PROVE  FieldStep
    BY <1>19 DEF BeginReset, At, CanManage, FieldStep, TypeOK, StoreOK,
       storeVars, fileVars, histVars
  <1>20. ASSUME NEW t \in Requests, Touch(t) PROVE FieldStep
    BY <1>20 DEF Touch, At, FieldStep, TypeOK, StoreOK, storeVars, fileVars,
       histVars
  <1>21. ASSUME NEW t \in Requests, Evict(t) PROVE FieldStep
    BY <1>21 DEF Evict, At, Drop, SessionsOf, FieldStep, TypeOK, StoreOK,
       storeVars, fileVars, histVars
  <1>22. ASSUME Reboot PROVE FieldStep
    BY <1>22 DEF Reboot, FieldStep, TypeOK, StoreOK, CountersOK, storeVars,
       fileVars, histVars
  <1>23. CASE UNCHANGED vars
    BY <1>23 DEF vars, FieldStep, storeVars, fileVars, histVars
  <1>24. QED
    BY <1>1, <1>2, <1>3, <1>4, <1>5, <1>6, <1>7, <1>8, <1>9, <1>10, <1>11,
       <1>12, <1>13, <1>14, <1>15, <1>16, <1>17, <1>18, <1>19, <1>20, <1>21,
       <1>22, <1>23, NextCases

(* However updates overlap, they never take away the last enabled admin.   *)
THEOREM AdminKept == Spec => UpdatesKeepAdmin
  <1>1. TypeOK /\ [Next]_vars => [AdminStep]_vars
    BY AdminStepHolds
  <1>2. Spec => [][AdminStep]_vars
    BY <1>1, TypeCorrect, PTL DEF Spec
  <1>3. QED
    BY <1>2 DEF UpdatesKeepAdmin, AdminStep

(* No request changes a field of an account that it does not name.         *)
THEOREM NamedFieldsOnly == Spec => OnlyNamedFields
  <1>1. TypeOK /\ [Next]_vars => [FieldStep]_vars
    BY FieldStepHolds
  <1>2. Spec => [][FieldStep]_vars
    BY <1>1, TypeCorrect, PTL DEF Spec
  <1>3. QED
    BY <1>2 DEF OnlyNamedFields, FieldStep
=============================================================================
