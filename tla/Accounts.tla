------------------------------ MODULE Accounts ------------------------------
(***************************************************************************)
(* The accounts of the panel and their sessions: the store                 *)
(* (internal/store/store.go) with its two files, panel.json and            *)
(* sessions.json, and the request handlers that use it                     *)
(* (internal/web/api_auth.go, api_users.go, middleware.go).                *)
(*                                                                         *)
(* Every store operation holds the store's lock, so it is one step.  A     *)
(* handler is several: it works on deep copies (boss, seen) taken by       *)
(* earlier steps and other handlers run in between.  Either file may fail  *)
(* to be written, and the panel may be restarted at any time.              *)
(*                                                                         *)
(* Roles and overrides are left out: whether an account that is no admin   *)
(* may manage others is open.  Credentials are right, tokens and           *)
(* identifiers are used once, and sessions do not expire.                  *)
(***************************************************************************)
EXTENDS Naturals, FiniteSets

CONSTANTS Users, Sessions, Requests, NoUser, NoSession,
          MaxFails,  \* bound: writes that fail
          MaxBoots   \* bound: restarts

ASSUME AccountsAssumption ==
    /\ NoUser \notin Users /\ NoSession \notin Sessions
    /\ MaxFails \in Nat /\ MaxBoots \in Nat
    /\ IsFiniteSet(Users)

VARIABLES
    \* the store, and the files
    users, admins, disabled,  \* db.users, and two of their fields
    sessions,                 \* db.sessions: the user of each live session
    panelFile, sessFile,
    \* the handlers
    req,
    \* identifiers and tokens used up, and the bounded counters
    used, issued, fails, boots,
    \* history: what the last successful answer said of each user, sessions
    \* that were ended, and how the last write of sessions.json went
    promise, ended, lastSave

storeVars == <<users, admins, disabled>>
fileVars  == <<panelFile, sessFile, lastSave, fails>>
histVars  == <<promise, ended>>
vars == <<storeVars, sessions, fileVars, req, used, issued, boots, histVars>>

Steps   == {"idle", "found", "session", "record", "admitted", "count", "commit",
            "touch", "evict"}
Ops     == {"none", "setup", "login", "update", "delete", "change", "reset"}
Marks   == {"keep", "yes", "no"}
Write   == {"ok", "fail"}
Patches == [admin : Marks, disabled : Marks]
NoPatch == [admin |-> "keep", disabled |-> "keep"]

(* boss, seen: is_admin in the handler's copies of its caller and target *)
Handlers == [pc : Steps, op : Ops, actor : Users \cup {NoUser}, boss : BOOLEAN,
             cookie : Sessions \cup {NoSession}, target : Users \cup {NoUser},
             seen : BOOLEAN, patch : Patches]
Idle == [pc |-> "idle", op |-> "none", actor |-> NoUser, boss |-> FALSE,
         cookie |-> NoSession, target |-> NoUser, seen |-> FALSE, patch |-> NoPatch]

Panels  == [users : SUBSET Users, admins : SUBSET Users, disabled : SUBSET Users]
Panel   == [users |-> users, admins |-> admins, disabled |-> disabled]
NoPanel == [users |-> {}, admins |-> {}, disabled |-> {}]
Active  == admins \ disabled
Live(s) == sessions[s] # NoUser

(* A user in none of the store's lists is in no field of them either; a    *)
(* handler past its first step knows whom it works for and on.             *)
StoreOK ==
    /\ used \subseteq Users
    /\ users \subseteq used /\ admins \subseteq users /\ disabled \subseteq users
    /\ panelFile \in Panels
    /\ panelFile.users \subseteq used
    /\ panelFile.admins \subseteq panelFile.users
    /\ panelFile.disabled \subseteq panelFile.users

SessionsOK ==
    /\ issued \subseteq Sessions
    /\ sessions \in [Sessions -> used \cup {NoUser}]
    /\ sessFile \in [Sessions -> used \cup {NoUser}]
    /\ \A s \in Sessions \ issued : ~Live(s) /\ sessFile[s] = NoUser

HandlerOK(h) ==
    /\ h.actor \in used \cup {NoUser}
    /\ h.target \in used \cup {NoUser}
    /\ h.pc \in {"session", "record", "admitted"} => h.actor # NoUser
    /\ h.pc \in {"count", "commit", "touch", "evict"} => h.target # NoUser
    /\ h.pc = "admitted" => h.cookie \in issued
    /\ h.op = "change" => h.target = h.actor
HandlersOK == req \in [Requests -> Handlers] /\ \A t \in Requests : HandlerOK(req[t])

CountersOK ==
    /\ fails \in 0 .. MaxFails /\ boots \in 0 .. MaxBoots
    /\ promise \in [Users -> {"none", "active", "disabled", "gone"}]
    /\ ended \subseteq issued
    /\ lastSave \in Write

TypeOK == StoreOK /\ SessionsOK /\ HandlersOK /\ CountersOK

Init ==
    /\ users = {} /\ admins = {} /\ disabled = {}
    /\ sessions = [s \in Sessions |-> NoUser]
    /\ panelFile = NoPanel /\ sessFile = sessions
    /\ req = [t \in Requests |-> Idle]
    /\ used = {} /\ issued = {} /\ fails = 0 /\ boots = 0
    /\ promise = [u \in Users |-> "none"]
    /\ ended = {} /\ lastSave = "ok"

-----------------------------------------------------------------------------
(* The end of a store operation: save, saveSessions; p and w say whether   *)
(* the file is not written, written, or fails to be ("none", "ok",         *)
(* "fail").  A file is replaced whole or left alone.                       *)
SavedPanel_Early == Panel       \* variant: saved before the change is made
SavedPanel == Panel'
SavedSessions_Early == sessions \* variant: saved before the change is made
SavedSessions == sessions'

Writes(p, w) ==
    /\ panelFile' = IF p = "ok" THEN SavedPanel ELSE panelFile
    /\ sessFile' = IF w = "ok" THEN SavedSessions ELSE sessFile
    /\ lastSave' = IF w = "none" THEN lastSave ELSE w
    /\ fails' = fails + (IF p = "fail" THEN 1 ELSE 0) + (IF w = "fail" THEN 1 ELSE 0)
    /\ fails' <= MaxFails

At(t, step) == req[t].pc = step
Become(t, h) == req' = [req EXCEPT ![t] = h]
Goto(t, step) == Become(t, [req[t] EXCEPT !.pc = step])
Return(t) == Become(t, Idle)
Promise(u, p, word) ==
    promise' = [promise EXCEPT ![u] = IF p = "ok" THEN word ELSE "none"]

(* Sessions removed from the map, whatever becomes of the file. *)
Drop(S) ==
    /\ sessions' = [s \in Sessions |-> IF s \in S THEN NoUser ELSE sessions[s]]
    /\ ended' = ended \cup S
SessionsOf(u) == {s \in Sessions : sessions[s] = u}

-----------------------------------------------------------------------------
(* POST /api/setup looks for users before it reads the body. *)
BeginSetup(t) ==
    /\ At(t, "idle")
    /\ users = {}
    /\ Become(t, [Idle EXCEPT !.pc = "found", !.op = "setup"])
    /\ UNCHANGED <<storeVars, sessions, fileVars, used, issued, boots, histVars>>

(* CreateFirstAdmin looks again, under the lock. *)
MayFound == users = {}

Found(t, u) ==
    /\ At(t, "found")
    /\ MayFound
    /\ u \notin used
    /\ used' = used \cup {u}
    /\ users' = users \cup {u} /\ admins' = admins \cup {u}
    /\ UNCHANGED <<disabled, sessions, issued, boots, ended>>
    /\ \E p \in Write :
          /\ Writes(p, "none")
          /\ Promise(u, p, "active")
          /\ IF p = "ok"
                THEN Become(t, [Idle EXCEPT !.pc = "session", !.op = "setup", !.actor = u])
                ELSE Return(t)

FoundRefused(t) ==
    /\ At(t, "found")
    /\ ~MayFound
    /\ Return(t)
    /\ UNCHANGED <<storeVars, sessions, fileVars, used, issued, boots, histVars>>

(* POST /api/auth/login, with the right password for an enabled account *)
Login(t, u) ==
    /\ At(t, "idle")
    /\ u \in users \ disabled
    /\ Become(t, [Idle EXCEPT !.pc = "session", !.op = "login", !.actor = u])
    /\ UNCHANGED <<storeVars, sessions, fileVars, used, issued, boots, histVars>>

(* CreateSession: the session is in the map even when the file fails. *)
NewSession(t, s) ==
    /\ At(t, "session")
    /\ s \notin issued
    /\ issued' = issued \cup {s}
    /\ sessions' = [sessions EXCEPT ![s] = req[t].actor]
    /\ \E w \in Write :
          /\ Writes("none", w)
          /\ IF w = "ok" /\ req[t].op = "login" THEN Goto(t, "record") ELSE Return(t)
    /\ UNCHANGED <<storeVars, used, boots, histVars>>

(* finishLogin stores the time of the login and ignores the outcome. *)
Record(t) ==
    /\ At(t, "record")
    /\ Return(t)
    /\ UNCHANGED <<storeVars, sessions, used, issued, boots, histVars>>
    /\ \E p \in (IF req[t].actor \in users THEN Write ELSE {"none"}) : Writes(p, "none")

-----------------------------------------------------------------------------
(* SessionByToken, which may prolong the session and save, lets a request  *)
(* in with a copy of the user's record.                                    *)
Admit(t, s) ==
    /\ At(t, "idle")
    /\ Live(s)
    /\ sessions[s] \in users \ disabled
    /\ Become(t, [Idle EXCEPT !.pc = "admitted", !.actor = sessions[s],
                              !.boss = sessions[s] \in admins, !.cookie = s])
    /\ UNCHANGED <<storeVars, sessions, used, issued, boots, histVars>>
    /\ \E w \in {"none"} \cup Write : Writes("none", w)

(* A session whose user is gone or disabled is prolonged all the same. *)
TurnAway(s) ==
    /\ Live(s)
    /\ sessions[s] \notin users \ disabled
    /\ UNCHANGED <<storeVars, sessions, req, used, issued, boots, histVars>>
    /\ \E w \in Write : Writes("none", w)

(* A request that is refused, or changes nothing that is modelled: some of *)
(* those save panel.json.                                                  *)
Leave(t) ==
    /\ At(t, "admitted")
    /\ Return(t)
    /\ UNCHANGED <<storeVars, sessions, used, issued, boots, histVars>>
    /\ \E p \in {"none"} \cup Write : Writes(p, "none")

Logout(t) ==
    /\ At(t, "admitted")
    /\ Drop({req[t].cookie})
    /\ Return(t)
    /\ UNCHANGED <<storeVars, used, issued, boots, promise>>
    /\ \E w \in Write : Writes("none", w)

(* POST /api/users *)
Create(t, u) ==
    /\ At(t, "admitted")
    /\ u \notin used
    /\ used' = used \cup {u}
    /\ users' = users \cup {u}
    /\ \E admin \in BOOLEAN :
          /\ admin => req[t].boss
          /\ admins' = IF admin THEN admins \cup {u} ELSE admins
    /\ Return(t)
    /\ UNCHANGED <<disabled, sessions, issued, boots, ended>>
    /\ \E p \in Write : Writes(p, "none") /\ Promise(u, p, "active")

(* canManageTarget, on the copies *)
CanManage(t, u) == req[t].boss \/ u \notin admins

(* The handler has read its target and goes on to the given step; its copy *)
(* of the caller is not looked at again.                                   *)
Aim(t, u, op, step, patch) ==
    Become(t, [Idle EXCEPT !.pc = step, !.op = op, !.target = u,
                           !.seen = u \in admins, !.patch = patch])

BeginUpdate(t, u, patch) ==
    /\ At(t, "admitted")
    /\ u \in users
    /\ CanManage(t, u)
    /\ patch.admin # "keep" => req[t].boss
    /\ Aim(t, u, "update", "count", patch)
    /\ UNCHANGED <<storeVars, sessions, fileVars, used, issued, boots, histVars>>

BeginDelete(t, u) ==
    /\ At(t, "admitted")
    /\ u \in users
    /\ u # req[t].actor
    /\ CanManage(t, u)
    /\ Aim(t, u, "delete", "count", NoPatch)
    /\ UNCHANGED <<storeVars, sessions, fileVars, used, issued, boots, histVars>>

(* A request that costs the panel an admin, going by the copy of the target *)
LosingAdmin(t) ==
    /\ req[t].seen
    /\ \/ req[t].op = "delete"
       \/ req[t].patch.admin = "no"
       \/ req[t].patch.disabled = "yes"

CheckCount(t) ==
    /\ At(t, "count")
    /\ IF LosingAdmin(t) /\ Cardinality(Active) <= 1 THEN Return(t) ELSE Goto(t, "commit")
    /\ UNCHANGED <<storeVars, sessions, fileVars, used, issued, boots, histVars>>

(* UpdateUserGuarded looks the user up under the lock. *)
Exists(u) == u \in users

(* A field the request does not name keeps its value. *)
Mark_NoPointer(S, u, mark) == IF mark = "yes" THEN S \cup {u} ELSE S \ {u}
                             \* variant: a missing field is read as false
Mark(S, u, mark) ==
    CASE mark = "keep" -> S
      [] mark = "yes"  -> S \cup {u}
      [] mark = "no"   -> S \ {u}

(* The invariant UpdateUserGuarded is given: atLeastOneAdmin *)
KeepsAdmin_Assumed(as, ds) == TRUE   \* variant: CheckCount is trusted
KeepsAdmin(as, ds) == as \ ds # {}

CommitUpdate(t) ==
    LET u  == req[t].target
        as == Mark(admins, u, req[t].patch.admin)
        ds == Mark(disabled, u, req[t].patch.disabled)
    IN  /\ At(t, "commit") /\ req[t].op = "update"
        /\ Exists(u)
        /\ KeepsAdmin(as, ds)
        /\ admins' = as /\ disabled' = ds
        /\ UNCHANGED <<users, sessions, used, issued, boots, ended>>
        /\ \E p \in Write :
              /\ Writes(p, "none")
              /\ Promise(u, p, IF req[t].patch.disabled = "keep" THEN promise[u]
                               ELSE IF u \in ds THEN "disabled" ELSE "active")
              /\ IF p = "ok" /\ req[t].patch.disabled = "yes"
                    THEN Aim(t, u, "update", "evict", NoPatch) ELSE Return(t)

(* DeleteUser writes both files and reports on panel.json only. *)
CommitDelete(t) ==
    LET u == req[t].target
    IN  /\ At(t, "commit") /\ req[t].op = "delete"
        /\ Exists(u)
        /\ users' = users \ {u} /\ admins' = admins \ {u} /\ disabled' = disabled \ {u}
        /\ Drop(SessionsOf(u))
        /\ Return(t)
        /\ UNCHANGED <<used, issued, boots>>
        /\ \E p \in Write, w \in Write : Writes(p, w) /\ Promise(u, p, "gone")

(* The target is gone, or the change would leave no admin: rolled back. *)
CommitRefused(t) ==
    LET u == req[t].target
    IN  /\ At(t, "commit")
        /\ \/ ~Exists(u)
           \/ /\ req[t].op = "update"
              /\ ~KeepsAdmin(Mark(admins, u, req[t].patch.admin),
                             Mark(disabled, u, req[t].patch.disabled))
        /\ Return(t)
        /\ UNCHANGED <<storeVars, sessions, fileVars, used, issued, boots, histVars>>

-----------------------------------------------------------------------------
(* POST /api/me/password; a password or second factor set by a manager *)
BeginChange(t) ==
    /\ At(t, "admitted")
    /\ Become(t, [Idle EXCEPT !.pc = "touch", !.op = "change",
                              !.actor = req[t].actor, !.target = req[t].actor])
    /\ UNCHANGED <<storeVars, sessions, fileVars, used, issued, boots, histVars>>

BeginReset(t, u) ==
    /\ At(t, "admitted")
    /\ u \in users
    /\ CanManage(t, u)
    /\ Aim(t, u, "reset", "touch", NoPatch)
    /\ UNCHANGED <<storeVars, sessions, fileVars, used, issued, boots, histVars>>

(* UpdateUser stores the credential. *)
Touch(t) ==
    /\ At(t, "touch")
    /\ UNCHANGED <<storeVars, sessions, used, issued, boots, histVars>>
    /\ \E p \in (IF req[t].target \in users THEN Write ELSE {"none"}) :
          /\ Writes(p, "none")
          /\ IF p = "ok" THEN Goto(t, "evict") ELSE Return(t)

(* DeleteUserSessions ignores the outcome; a caller who changed the own    *)
(* password gets a new session next.                                       *)
Evict(t) ==
    /\ At(t, "evict")
    /\ Drop(SessionsOf(req[t].target))
    /\ UNCHANGED <<storeVars, used, issued, boots, promise>>
    /\ \E w \in Write : Writes("none", w)
    /\ IF req[t].op = "change" THEN Goto(t, "session") ELSE Return(t)

(* The panel stops, however it does, and opens the two files again. *)
Reboot ==
    /\ boots < MaxBoots
    /\ boots' = boots + 1
    /\ users' = panelFile.users
    /\ admins' = panelFile.admins
    /\ disabled' = panelFile.disabled
    /\ sessions' = sessFile
    /\ req' = [t \in Requests |-> Idle]
    /\ ended' = {s \in ended : sessFile[s] = NoUser}
    /\ lastSave' = "ok"
    /\ UNCHANGED <<panelFile, sessFile, fails, used, issued, promise>>

Next ==
    \/ \E t \in Requests :
          \/ BeginSetup(t) \/ FoundRefused(t) \/ Record(t) \/ Leave(t) \/ Logout(t)
          \/ CheckCount(t) \/ CommitUpdate(t) \/ CommitDelete(t) \/ CommitRefused(t)
          \/ BeginChange(t) \/ Touch(t) \/ Evict(t)
          \/ \E u \in Users :
                \/ Found(t, u) \/ Login(t, u) \/ Create(t, u)
                \/ BeginDelete(t, u) \/ BeginReset(t, u)
                \/ \E patch \in Patches : BeginUpdate(t, u, patch)
          \/ \E s \in Sessions : NewSession(t, s) \/ Admit(t, s)
    \/ \E s \in Sessions : TurnAway(s)
    \/ Reboot

Spec == Init /\ [][Next]_vars

-----------------------------------------------------------------------------
(* What the last successful answer said of an account - it exists, is      *)
(* disabled, or is deleted - is in force, and holds again after a restart. *)
(* A request that failed to write leaves the account open until the next.  *)
PromiseKept ==
    \A u \in Users :
        /\ promise[u] = "active" =>
              u \in users \ disabled /\ u \in panelFile.users \ panelFile.disabled
        /\ promise[u] = "disabled" => u \in disabled /\ u \in panelFile.disabled
        /\ promise[u] = "gone" => u \notin users /\ u \notin panelFile.users

(* A session that was ended - by logging out, a new password, disabling or *)
(* deleting the account - never comes back, in memory or from the file,    *)
(* unless the last write of sessions.json failed and the panel restarts.   *)
EndedStaysOut ==
    \A s \in ended : ~Live(s) /\ (sessFile[s] # NoUser => lastSave = "fail")

(* However requests to demote and to disable overlap, they never take away *)
(* the last enabled admin: between restarts only a deletion might.         *)
UpdatesKeepAdmin ==
    [][Active # {} /\ Active' = {} /\ boots' = boots => users \ users' # {}]_vars

(* No request undoes what another one set: is_admin and disabled of an     *)
(* account change only in the commit of a request that names that field.   *)
OnlyNamedFields ==
    [][boots' = boots => \A u \in users \cap users' :
          /\ (u \in disabled) # (u \in disabled') => \E t \in Requests :
                At(t, "commit") /\ req[t].target = u /\ req[t].patch.disabled # "keep"
          /\ (u \in admins) # (u \in admins') => \E t \in Requests :
                At(t, "commit") /\ req[t].target = u /\ req[t].patch.admin # "keep"]_vars

(* "keeps at least one enabled admin account" (api_users.go:54): a panel   *)
(* that has an enabled admin always keeps one.                             *)
NeverLockedOut == [][Active # {} => Active' # {}]_vars
=============================================================================
