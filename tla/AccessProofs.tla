---------------------------- MODULE AccessProofs ----------------------------
(***************************************************************************)
(* Proofs about Access, for any number of users, roles, servers,           *)
(* permissions and requests: a right that is gone stays gone, and a grant  *)
(* is no larger than what its caller holds, but for the cases named.       *)
(***************************************************************************)
EXTENDS Access, TLAPS

(* How the permission model resolves a right, for two maps o and r.        *)
LEMMA StarTypes == ASSUME NEW e \in Rights PROVE Star(e) \in Rights
  <1>1. CASE e \in {"panel"} \X Global
    BY <1>1, AccessAssumption DEF Star
  <1>2. CASE e \in (Servers \cup {"*"}) \X Perms
    <2>1. <<"*", e[2]>> \in Rights
      BY <1>2 DEF Rights
    <2>2. QED
      BY <2>1 DEF Star
  <1>3. QED
    BY <1>1, <1>2 DEF Rights

LEMMA StarOnce == ASSUME NEW e \in Rights PROVE Star(Star(e)) = Star(e)
  BY AccessAssumption DEF Star

(* A right that is resolved to an allowance has one in the maps, itself or *)
(* for all servers, which the override does not contradict.                *)
LEMMA ResolvedIsGranted ==
    ASSUME NEW o \in Maps, NEW r \in Maps, NEW e \in Rights, Resolve(o, r, e)
    PROVE  e \in Granted(o, r) \/ Star(e) \in Granted(o, r)
  <1>1. Star(e) \in Rights
    BY StarTypes
  <1>2. o[e] \in Marks /\ o[Star(e)] \in Marks /\ r[e] \in Marks /\ r[Star(e)] \in Marks
    BY <1>1 DEF Maps
  <1>3. CASE o[e] # "none"
    BY <1>2, <1>3 DEF Resolve, Says, Granted
  <1>4. CASE o[e] = "none" /\ o[Star(e)] # "none"
    BY <1>1, <1>2, <1>4 DEF Resolve, Says, Granted
  <1>5. CASE o[e] = "none" /\ o[Star(e)] = "none"
    <2>1. Says(r, e) = "allow"
      BY <1>5 DEF Resolve, Says
    <2>2. QED
      BY <1>1, <1>2, <1>5, <2>1 DEF Says, Granted
  <1>6. QED
    BY <1>3, <1>4, <1>5

LEMMA GrantedIsMarked ==
    ASSUME NEW o, NEW r, NEW e \in Granted(o, r)
    PROVE  e \in Rights /\ (o[e] = "allow" \/ r[e] = "allow")
  BY DEF Granted
-----------------------------------------------------------------------------
(* Type correctness                                                        *)
ReqOK ==
    /\ req \in [Requests -> Handlers \cup {Idle}]
    /\ \A t \in Requests : req[t] # Idle => Fits(req[t])

UserOK ==
    /\ known \subseteq used /\ used \subseteq Users \cup Roles
    /\ known \subseteq Users /\ admins \subseteq known
    /\ role \in [Users -> Roles \cup {NoRole}] /\ over \in [Users -> Maps]

RoleOK == roles \subseteq used /\ roles \subseteq Roles /\ perms \in [Roles -> Maps]

(* All but the history, which follows the steps *)
Typed ==
    /\ known \subseteq used /\ used \subseteq Users \cup Roles
    /\ known \subseteq Users /\ admins \subseteq known
    /\ role \in [Users -> Roles \cup {NoRole}] /\ over \in [Users -> Maps]
    /\ roles \subseteq used /\ roles \subseteq Roles /\ perms \in [Roles -> Maps]
    /\ req \in [Requests -> Handlers \cup {Idle}]
    /\ \A t \in Requests : req[t] # Idle => Fits(req[t])
    /\ arrivals \in Nat

LEMMA TypeParts ==
    /\ Typed <=> UserOK /\ RoleOK /\ ReqOK /\ arrivals \in Nat
    /\ TypeOK <=> Typed /\ stale \subseteq Requests
  BY DEF TypeOK, Typed, UserOK, RoleOK, ReqOK, Fits

LEMMA NothingTypes == Nothing \in Maps
  BY DEF Nothing, Maps, Marks

LEMMA TypeInit == Init => TypeOK
  BY AccessAssumption, NothingTypes DEF Init, TypeOK

(* A request that is under way is a handler's. *)
LEMMA UnderWay ==
    ASSUME ReqOK, NEW t \in Requests, req[t].pc # "idle"
    PROVE  req[t] \in Handlers /\ Fits(req[t])
  BY DEF ReqOK, Idle

LEMMA BecomeTypes ==
    ASSUME ReqOK, NEW t \in Requests, NEW h \in Handlers \cup {Idle},
           (h # Idle => Fits(h)), Become(t, h)
    PROVE  ReqOK'
  <1>1. req' \in [Requests -> Handlers \cup {Idle}]
    BY DEF ReqOK, Become
  <1>2. ASSUME NEW s \in Requests, req'[s] # Idle PROVE Fits(req'[s])
    <2>1. CASE s = t
      BY <1>2, <2>1 DEF ReqOK, Become
    <2>2. CASE s # t
      BY <1>2, <2>2 DEF ReqOK, Become
    <2>3. QED
      BY <2>1, <2>2
  <1>3. QED
    BY <1>1, <1>2 DEF ReqOK, Fits

LEMMA IdleTypes ==
    ASSUME ReqOK, NEW t \in Requests, Goes(t, Idle)
    PROVE  ReqOK' /\ arrivals' = arrivals
  BY BecomeTypes DEF Goes


LEMMA CopyTypes ==
    ASSUME UserOK, NEW u \in Users
    PROVE  Copy(u) \in Copies
  BY DEF UserOK, Copy, Copies

LEMMA ArriveTypes ==
    ASSUME Typed, NEW t \in Requests, NEW u \in Users, NEW op \in Ops,
           NEW x \in Users \cup Roles, NEW r \in Roles \cup {NoRole, Keep},
           NEW m \in Maps \cup {Keep}, NEW a \in {"yes", "no", Keep},
           (IF op \in OnUser THEN x \in Users ELSE x \in Roles),
           (op = "create" => r # Keep),
           (op \in {"create", "addRole", "editRole"} => m # Keep),
           (op \in {"delete", "dropRole"} => m = Keep),
           Arrive(t, u, op, x, r, m, a)
    PROVE  Typed'
  <1> DEFINE h == [pc |-> "look", op |-> op, on |-> x, role |-> r, over |-> m,
                   admin |-> a, todo |-> {}, by |-> Copy(u)]
  <1>1. Copy(u) \in Copies
    BY CopyTypes, TypeParts
  <1>2. h \in Handlers
    BY <1>1 DEF Handlers
  <1>3. Fits(h)
    BY DEF Fits
  <1>4. Become(t, h)
    BY DEF Arrive
  <1>5. ReqOK'
    <2> HIDE DEF h
    <2> QED BY <1>2, <1>3, <1>4, BecomeTypes, TypeParts
  <1>6. arrivals' \in Nat /\ UNCHANGED <<userVars, roleVars, used>>
    BY DEF Arrive, Typed
  <1>7. QED
    BY <1>5, <1>6, TypeParts DEF Typed, ReqOK, Fits, userVars, roleVars

LEMMA ToShowTypes == ASSUME NEW h PROVE ToShow(h) \subseteq Rights
  BY DEF ToShow, Granted, Allowed

LEMMA StaysTypes ==
    ASSUME NEW S, NEW f \in S \cup {Keep}, NEW v \in S
    PROVE  Stays(f, v) \in S
  BY DEF Stays

(* What the actions leave alone, once the request's next state is typed    *)
LEMMA RestTypes ==
    ASSUME Typed, ReqOK', arrivals' = arrivals,
           UNCHANGED <<userVars, roleVars, used>>
    PROVE  Typed'
  BY DEF Typed, ReqOK, Fits, userVars, roleVars

LEMMA LookTypes == ASSUME Typed, NEW t \in Requests, Look(t) PROVE Typed'
  <1> DEFINE h == [req[t] EXCEPT !.pc = "check", !.todo = ToShow(req[t])]
  <1>1. ReqOK /\ req[t] \in Handlers /\ Fits(req[t])
    BY UnderWay, TypeParts DEF Look, At
  <1>2. h \in Handlers /\ Fits(h)
    BY <1>1, ToShowTypes DEF Handlers, Fits
  <1>3. Become(t, h) \/ Become(t, Idle)
    BY DEF Look, Goes
  <1>4. ReqOK'
    <2> HIDE DEF h
    <2> QED BY <1>1, <1>2, <1>3, BecomeTypes
  <1>5. QED
    BY <1>4, RestTypes DEF Look, Goes

LEMMA CheckTypes == ASSUME Typed, NEW t \in Requests, Check(t) PROVE Typed'
  <1>1. ReqOK /\ req[t] \in Handlers /\ Fits(req[t])
    BY UnderWay, TypeParts DEF Check, At
  <1>2. PICK e \in req[t].todo :
          Goes(t, IF CallerHolds(req[t].by, e)
                    THEN [req[t] EXCEPT !.todo = @ \ {e}] ELSE Idle)
    BY DEF Check
  <1> DEFINE h == [req[t] EXCEPT !.todo = @ \ {e}]
  <1>3. h \in Handlers /\ Fits(h)
    BY <1>1 DEF Handlers, Fits
  <1>4. Become(t, h) \/ Become(t, Idle)
    BY <1>2 DEF Goes
  <1>5. ReqOK'
    <2> HIDE DEF h
    <2> QED BY <1>1, <1>3, <1>4, BecomeTypes
  <1>6. QED
    BY <1>2, <1>5, RestTypes DEF Check, Goes

LEMMA AskTypes ==
    ASSUME Typed, NEW t \in Requests, NEW u \in Users, AskUser(t, u) \/ AskRole(t, u)
    PROVE  Typed'
  <1> USE DEF Ops, OnUser
  <1>1. CASE AskUser(t, u)
    <2>1. \/ \E x \in Users \ used, p \in Patches :
                /\ p.role # Keep /\ p.over # Keep
                /\ Arrive(t, u, "create", x, p.role, p.over, p.admin)
          \/ \E x \in Users \cap used :
                \/ \E p \in Patches : Arrive(t, u, "update", x, p.role, p.over, p.admin)
                \/ Arrive(t, u, "delete", x, Keep, Keep, Keep)
      BY <1>1 DEF AskUser
    <2>0. \A p \in Patches : /\ p.role \in Roles \cup {NoRole, Keep} /\ p.over \in Maps \cup {Keep}
                             /\ p.admin \in {"yes", "no", Keep}
      BY AccessAssumption
    <2>2. PICK x \in Users, op \in {"create", "update", "delete"},
               p \in Roles \cup {NoRole, Keep}, o \in Maps \cup {Keep},
               a \in {"yes", "no", Keep} :
                  /\ op = "create" => p # Keep /\ o # Keep
                  /\ op = "delete" => o = Keep
                  /\ Arrive(t, u, op, x, p, o, a)
      BY <2>0, <2>1
    <2>3. QED
      BY <2>2, ArriveTypes
  <1>2. CASE AskRole(t, u)
    <2>1. PICK m \in Entries :
          \/ \E x \in Roles \ used : Arrive(t, u, "addRole", x, Keep, m, Keep)
          \/ \E x \in Roles \cap used :
                \/ Arrive(t, u, "editRole", x, Keep, m, Keep)
                \/ Arrive(t, u, "dropRole", x, Keep, Keep, Keep)
      BY <1>2 DEF AskRole
    <2>2. PICK x \in Roles, op \in {"addRole", "editRole", "dropRole"},
               o \in Maps \cup {Keep} :
                  /\ IF op = "dropRole" THEN o = Keep ELSE o # Keep
                  /\ Arrive(t, u, op, x, Keep, o, Keep)
      BY <2>1, AccessAssumption
    <2>3. QED
      BY <2>2, ArriveTypes
  <1>3. QED
    BY <1>1, <1>2


(* What a request has when its operation follows                           *)
LEMMA ReadyTypes ==
    ASSUME Typed, NEW t \in Requests, NEW op, Ready(t, op)
    PROVE  req[t] \in Handlers /\ req[t].op = op /\ Fits(req[t])
  BY UnderWay, TypeParts DEF Ready, At, Fits

LEMMA CreateUserTypes ==
    ASSUME Typed, NEW t \in Requests, CreateUser(t) PROVE Typed'
  <1>1. req[t] \in Handlers /\ req[t].op = "create" /\ Fits(req[t])
    BY ReadyTypes DEF CreateUser
  <1>2. ReqOK' /\ arrivals' = arrivals
    BY IdleTypes, TypeParts DEF CreateUser
  <1>3. req[t].on \in Users /\ req[t].role \in Roles \cup {NoRole} /\ req[t].over \in Maps
    BY <1>1 DEF Fits, OnUser, Handlers
  <1>4. admins' \subseteq known'
    BY DEF CreateUser, Typed
  <1>5. QED
    BY <1>2, <1>3, <1>4 DEF CreateUser, Typed, ReqOK, Fits, roleVars

LEMMA UpdateUserTypes ==
    ASSUME Typed, NEW t \in Requests, UpdateUser(t) PROVE Typed'
  <1>1. req[t] \in Handlers /\ req[t].op = "update" /\ Fits(req[t])
    BY ReadyTypes DEF UpdateUser
  <1>2. ReqOK' /\ arrivals' = arrivals
    BY IdleTypes, TypeParts DEF UpdateUser
  <1>4. /\ req[t].on \in Users /\ req[t].role \in Roles \cup {NoRole, Keep}
        /\ req[t].over \in Maps \cup {Keep}
    BY <1>1 DEF Fits, OnUser, Handlers
  <1>5. /\ Stays(req[t].role, role[req[t].on]) \in Roles \cup {NoRole}
        /\ Stays(req[t].over, over[req[t].on]) \in Maps
    BY <1>4, StaysTypes DEF Typed
  <1>6. role' \in [Users -> Roles \cup {NoRole}] /\ over' \in [Users -> Maps]
    BY <1>5 DEF UpdateUser, Typed
  <1>7. admins' \subseteq known
    BY DEF UpdateUser, Typed
  <1>8. QED
    BY <1>2, <1>6, <1>7 DEF UpdateUser, Typed, ReqOK, roleVars

LEMMA DeleteUserTypes ==
    ASSUME Typed, NEW t \in Requests, DeleteUser(t) PROVE Typed'
  <1>1. req[t] \in Handlers /\ req[t].op = "delete" /\ Fits(req[t])
    BY ReadyTypes DEF DeleteUser
  <1>2. ReqOK' /\ arrivals' = arrivals
    BY IdleTypes, TypeParts DEF DeleteUser
  <1>3. QED
    BY <1>2, NothingTypes DEF DeleteUser, Remaining, Typed, ReqOK, roleVars

LEMMA CreateRoleTypes ==
    ASSUME Typed, NEW t \in Requests, CreateRole(t) PROVE Typed'
  <1>1. req[t] \in Handlers /\ req[t].op = "addRole" /\ Fits(req[t])
    BY ReadyTypes DEF CreateRole
  <1>2. ReqOK' /\ arrivals' = arrivals
    BY IdleTypes, TypeParts DEF CreateRole
  <1>4. req[t].on \in Roles /\ req[t].over \in Maps
    BY <1>1 DEF Fits, OnUser, Handlers
  <1>5. QED
    BY <1>2, <1>4 DEF CreateRole, Typed, ReqOK, userVars

LEMMA UpdateRoleTypes ==
    ASSUME Typed, NEW t \in Requests, UpdateRole(t) PROVE Typed'
  <1>1. req[t] \in Handlers /\ req[t].op = "editRole" /\ Fits(req[t])
    BY ReadyTypes DEF UpdateRole
  <1>2. ReqOK' /\ arrivals' = arrivals
    BY IdleTypes, TypeParts DEF UpdateRole
  <1>4. req[t].on \in Roles /\ req[t].over \in Maps
    BY <1>1 DEF Fits, OnUser, Handlers
  <1>5. QED
    BY <1>2, <1>4 DEF UpdateRole, Typed, ReqOK, userVars

LEMMA DeleteRoleTypes ==
    ASSUME Typed, NEW t \in Requests, DeleteRole(t) PROVE Typed'
  <1>1. req[t] \in Handlers /\ req[t].op = "dropRole" /\ Fits(req[t])
    BY ReadyTypes DEF DeleteRole
  <1>2. ReqOK' /\ arrivals' = arrivals
    BY IdleTypes, TypeParts DEF DeleteRole
  <1>3. QED
    BY <1>2, NothingTypes DEF DeleteRole, Typed, ReqOK

LEMMA TypeStep == TypeOK /\ [Next]_vars => TypeOK'
  <1> SUFFICES ASSUME TypeOK, [Next]_vars PROVE TypeOK'
    OBVIOUS
  <1>0. Typed
    BY TypeParts
  <1>1. ASSUME NEW t \in Requests, NEW u \in Users, AskUser(t, u) \/ AskRole(t, u)
        PROVE  Typed'
    BY <1>0, <1>1, AskTypes
  <1>2. ASSUME NEW t \in Requests, Look(t) \/ Check(t) PROVE Typed'
    BY <1>0, <1>2, LookTypes, CheckTypes
  <1>3. ASSUME NEW t \in Requests, Store(t) PROVE Typed'
    BY <1>0, <1>3, CreateUserTypes, UpdateUserTypes, DeleteUserTypes,
       CreateRoleTypes, UpdateRoleTypes, DeleteRoleTypes DEF Store
  <1>4. ASSUME NEW t \in Requests, Fail(t) PROVE Typed'
    BY <1>0, <1>4, IdleTypes, RestTypes, TypeParts DEF Fail
  <1>5. CASE Next
    <2>1. Typed'
      BY <1>1, <1>2, <1>3, <1>4, <1>5 DEF Next
    <2>2. stale' \subseteq Requests
      BY <1>5 DEF Next, Observe
    <2>3. QED
      BY <2>1, <2>2, TypeParts DEF TypeOK, Typed, Fits
  <1>6. CASE UNCHANGED vars
    BY <1>6 DEF vars, userVars, roleVars, TypeOK, Fits
  <1>7. QED
    BY <1>5, <1>6

(* Every variable keeps its type; a request names a user or a role as its  *)
(* operation wants, and only a patch leaves fields alone.                  *)
THEOREM TypeCorrect == Spec => []TypeOK
  BY TypeInit, TypeStep, PTL DEF Spec

-----------------------------------------------------------------------------
(* What a request has been asked for: an administrator nothing; anyone     *)
(* else, whose ground has not moved, has shown what is not left to show,   *)
(* and its target is, and becomes, no administrator.                       *)
Asked(h) == h.by.admin = "yes" => h.todo = {}

Vetted(h) ==
    h.by.admin = "no" =>
       /\ h.op = "create" => h.admin # "yes"
       /\ h.op = "update" => h.admin = Keep /\ h.on \notin admins
       /\ \A e \in ToShow(h) \ h.todo : CallerHolds(h.by, e)

CheckInv ==
    \A t \in Requests : At(t, "check") =>
        Asked(req[t]) /\ (t \notin stale => Vetted(req[t]))

IInv == TypeOK /\ CheckInv

(* What the check of a request rests on decides what it has to show, and   *)
(* what its caller holds.                                                  *)
LEMMA VettedKept ==
    ASSUME NEW h \in Handlers, Vetted(h), Ground(h)' = Ground(h)
    PROVE  Vetted(h)'
  <1>1. PermsOf(h.by.role)' = PermsOf(h.by.role)
    BY DEF Ground
  <1>2. \A e : CallerHolds(h.by, e)' <=> CallerHolds(h.by, e)
    BY <1>1 DEF CallerHolds, Resolve, Says
  <1>3. CASE h.op \in OnUser
    <2>1. /\ (h.on \in admins)' <=> (h.on \in admins)
          /\ over'[h.on] = over[h.on] /\ role'[h.on] = role[h.on]
          /\ PermsOf(role[h.on])' = PermsOf(role[h.on]) /\ PermsOf(h.role)' = PermsOf(h.role)
      BY <1>3 DEF Ground
    <2>2. PermsOf(Stays(h.role, role[h.on]))' = PermsOf(Stays(h.role, role[h.on]))
      BY <2>1 DEF Stays
    <2>3. ToShow(h)' = ToShow(h)
      BY <1>3, <2>1, <2>2 DEF ToShow, OnUser
    <2>4. QED
      BY <1>2, <2>1, <2>3 DEF Vetted
  <1>4. CASE h.op \notin OnUser
    <2>1. ToShow(h)' = ToShow(h)
      BY <1>4 DEF ToShow, OnUser
    <2>2. QED
      BY <1>2, <1>4, <2>1 DEF Vetted, OnUser
  <1>5. QED
    BY <1>3, <1>4

(* A request that a step does not move                                     *)
LEMMA RestVetted ==
    ASSUME IInv, Observe, NEW t \in Requests, req'[t] = req[t], At(t, "check")
    PROVE  Asked(req[t])' /\ (t \notin stale' => Vetted(req[t])')
  <1>1. PICK h : h = req[t] /\ h = req'[t]
    OBVIOUS
  <1>2. h \in Handlers /\ Asked(h) /\ (t \notin stale => Vetted(h))
    BY <1>1, UnderWay, TypeParts DEF IInv, CheckInv, At
  <1>3. ASSUME t \notin stale' PROVE Vetted(h)'
    <2>1. t \notin stale /\ Ground(req[t])' = Ground(req[t])
      BY <1>1, <1>3 DEF Observe, At
    <2>2. Ground(h)' = Ground(h)
      BY <1>1, <2>1 DEF Ground
    <2>3. QED
      BY <1>2, <2>1, <2>2, VettedKept
  <1>4. QED
    BY <1>1, <1>2, <1>3 DEF Asked, Vetted, CallerHolds, ToShow

(* A step that moves one request, which is not checked any more or has     *)
(* shown what it must                                                      *)
LEMMA MovedOn ==
    ASSUME IInv, Observe, TypeOK', NEW t \in Requests, NEW h, Become(t, h),
           h.pc = "check" => Asked(h) /\ (t \notin stale' => Vetted(h)')
    PROVE  IInv'
  <1>1. req'[t] = h /\ \A s \in Requests : s # t => req'[s] = req[s]
    BY DEF Become, IInv, TypeOK
  <1>2. ASSUME NEW s \in Requests, At(s, "check")'
        PROVE  Asked(req[s])' /\ (s \notin stale' => Vetted(req[s])')
    <2>1. CASE s = t
      BY <1>1, <1>2, <2>1 DEF At, Asked, Vetted, CallerHolds, ToShow
    <2>2. CASE s # t
      <3>1. req'[s] = req[s] /\ At(s, "check")
        BY <1>1, <1>2, <2>2 DEF At
      <3>2. QED
        BY <3>1, RestVetted
    <2>3. QED
      BY <2>1, <2>2
  <1>3. QED
    BY <1>2 DEF IInv, CheckInv

LEMMA LookStep == ASSUME IInv, Observe, TypeOK', NEW t \in Requests, Look(t) PROVE IInv'
  <1>0. PICK w, h : w = req[t] /\ h = [req[t] EXCEPT !.pc = "check", !.todo = ToShow(req[t])]
    OBVIOUS
  <1>1. w \in Handlers /\ UNCHANGED <<userVars, roleVars, used>>
    BY <1>0, UnderWay, TypeParts DEF Look, At, IInv
  <1>2. /\ h.by = w.by /\ h.op = w.op /\ h.on = w.on /\ h.role = w.role
        /\ h.over = w.over /\ h.admin = w.admin /\ h.todo = ToShow(w)
    BY <1>0, <1>1 DEF Handlers
  <1>3. (Admissible(w) /\ Become(t, h)) \/ Become(t, Idle)
    BY <1>0 DEF Look, Goes
  <1>4. UNCHANGED <<known, admins, role, over, roles, perms>>
    BY <1>1 DEF userVars, roleVars
  <1>5. ToShow(h)' = ToShow(w)
    <2>1. \A r : PermsOf(r)' = PermsOf(r)
      BY <1>4 DEF PermsOf
    <2>2. ToShow(h)' = ToShow(h)
      BY <1>4, <2>1 DEF ToShow
    <2>3. ToShow(h) = ToShow(w)
      BY <1>2 DEF ToShow
    <2>4. QED
      BY <2>2, <2>3
  <1>6. Asked(h)
    BY <1>2 DEF Asked, ToShow
  <1>7. ASSUME Admissible(w) PROVE Vetted(h)'
    <2>1. w.by.admin = "no" /\ w.op = "create" => w.admin # "yes"
      BY <1>7 DEF Admissible
    <2>2. w.by.admin = "no" /\ w.op = "update" => w.admin = Keep /\ w.on \notin admins
      BY <1>7 DEF Admissible
    <2>3. QED
      BY <1>2, <1>4, <1>5, <2>1, <2>2 DEF Vetted
  <1>8. Idle.pc # "check"
    BY DEF Idle
  <1>9. QED
    BY <1>3, <1>6, <1>7, <1>8, MovedOn

LEMMA CheckStep == ASSUME IInv, Observe, TypeOK', NEW t \in Requests, Check(t) PROVE IInv'
  <1>0. PICK w : w = req[t]
    OBVIOUS
  <1>1. w \in Handlers /\ UNCHANGED <<userVars, roleVars, used>> /\ w.pc = "check"
        /\ Asked(w) /\ (t \notin stale => Vetted(w))
    BY <1>0, UnderWay, TypeParts DEF Check, At, IInv, CheckInv
  <1>2. PICK e \in w.todo :
          Goes(t, IF CallerHolds(w.by, e)
                    THEN [w EXCEPT !.todo = @ \ {e}] ELSE Idle)
    BY <1>0 DEF Check
  <1> DEFINE h == [w EXCEPT !.todo = @ \ {e}]
  <1>3. /\ h.by = w.by /\ h.op = w.op /\ h.on = w.on /\ h.role = w.role
        /\ h.over = w.over /\ h.admin = w.admin /\ h.todo = w.todo \ {e} /\ h.pc = "check"
    BY <1>1 DEF Handlers
  <1>4. (CallerHolds(w.by, e) /\ Become(t, h)) \/ Become(t, Idle)
    BY <1>2 DEF Goes
  <1>5. req \in [Requests -> Handlers \cup {Idle}]
    BY TypeParts DEF IInv, TypeOK
  <1> HIDE DEF h
  <1>6. UNCHANGED <<known, admins, role, over, roles, perms>>
    BY <1>1 DEF userVars, roleVars
  <1>7. ToShow(h)' = ToShow(w)
    BY <1>3, <1>6 DEF ToShow, PermsOf
  <1>8. Asked(h)
    BY <1>1, <1>3 DEF Asked
  <1>9. ASSUME CallerHolds(w.by, e), Become(t, h), t \notin stale' PROVE Vetted(h)'
    <2>1. t \notin stale
      <3>1. At(t, "check") /\ At(t, "check")'
        BY <1>0, <1>1, <1>3, <1>5, <1>9 DEF At, Become
      <3>2. QED
        BY <1>9, <3>1 DEF Observe
    <2>2. \A f : CallerHolds(h.by, f)' <=> CallerHolds(w.by, f)
      BY <1>3, <1>6 DEF CallerHolds, Resolve, Says, PermsOf
    <2>3. h.by.admin = "no" => \A f \in ToShow(h)' \ h.todo : CallerHolds(w.by, f)
      BY <1>1, <1>3, <1>7, <1>9, <2>1 DEF Vetted
    <2>4. QED
      BY <1>1, <1>3, <1>6, <2>1, <2>2, <2>3 DEF Vetted
  <1>10. Idle.pc # "check"
    BY DEF Idle
  <1>11. QED
    BY <1>4, <1>8, <1>9, <1>10, MovedOn

LEMMA InvInit == Init => IInv
  <1> SUFFICES ASSUME Init PROVE IInv
    OBVIOUS
  <1>1. CheckInv
    BY DEF Init, CheckInv, At, Idle
  <1>2. QED
    BY <1>1, TypeInit DEF IInv

LEMMA AskMoves ==
    ASSUME NEW t \in Requests, NEW u \in Users, AskUser(t, u) \/ AskRole(t, u)
    PROVE  \E op, x, r, m, a : Arrive(t, u, op, x, r, m, a)
  BY DEF AskUser, AskRole

LEMMA StoreMoves ==
    ASSUME NEW t \in Requests, Store(t) \/ Fail(t)
    PROVE  Become(t, Idle) /\ At(t, "check") /\ req[t].todo = {}
  BY DEF Store, Fail, CreateUser, UpdateUser, DeleteUser, CreateRole, UpdateRole,
     DeleteRole, Goes, Ready

LEMMA InvStep == IInv /\ [Next]_vars => IInv'
  <1> SUFFICES ASSUME IInv, [Next]_vars PROVE IInv'
    OBVIOUS
  <1>0. TypeOK'
    BY TypeStep DEF IInv
  <1>1. ASSUME Observe, NEW t \in Requests, NEW u \in Users, AskUser(t, u) \/ AskRole(t, u)
        PROVE  IInv'
    <2>1. PICK op, x, r, m, a : Arrive(t, u, op, x, r, m, a)
      BY <1>1, AskMoves
    <2>2. PICK h : h.pc = "look" /\ Become(t, h)
      BY <2>1 DEF Arrive
    <2>3. QED
      BY <1>0, <1>1, <2>2, MovedOn
  <1>2. ASSUME Observe, NEW t \in Requests, Look(t) \/ Check(t) PROVE IInv'
    BY <1>0, <1>2, LookStep, CheckStep
  <1>3. ASSUME Observe, NEW t \in Requests, Store(t) \/ Fail(t) PROVE IInv'
    <2>1. Become(t, Idle) /\ Idle.pc # "check"
      BY <1>3, StoreMoves DEF Idle
    <2>2. QED
      BY <1>0, <1>3, <2>1, MovedOn
  <1>4. CASE UNCHANGED vars
    <2>1. UNCHANGED <<known, admins, role, over, roles, perms, req, stale>>
      BY <1>4 DEF vars, userVars, roleVars
    <2>2. CheckInv'
      BY <2>1 DEF IInv, CheckInv, At, Asked, Vetted, CallerHolds, Resolve, Says, PermsOf, ToShow
    <2>3. QED
      BY <1>0, <2>2 DEF IInv
  <1>5. QED
    BY <1>1, <1>2, <1>3, <1>4 DEF Next

LEMMA Invariance == Spec => []IInv
  BY InvInit, InvStep, PTL DEF Spec

-----------------------------------------------------------------------------
(* What a step brings into force                                           *)
Gone(e) == e \in InForce \/ Star(e) \in InForce \/ ByAdmin

InHand(h, e) == h.over # Keep /\ h.over[e] = "allow" /\ e \notin h.todo

(* The rights to show are all that a request by no administrator allows.   *)
LEMMA AllAsked ==
    ASSUME NEW h \in Handlers, Fits(h), h.by.admin = "no", h.over # Keep,
           NEW e \in Rights, h.over[e] = "allow"
    PROVE  e \in ToShow(h)
  <1>1. h.op \in {"create", "update", "addRole", "editRole"}
    BY DEF Handlers, Ops, Fits
  <1>2. QED
    BY <1>1 DEF ToShow, Granted, Allowed, Stays

(* A step that puts no map into the store, and moves one request           *)
LEMMA RequestBrings ==
    ASSUME IInv, NEW t \in Requests, NEW h, Become(t, h),
           UNCHANGED <<known, over, roles, perms>>, NEW e \in Rights, e \in InForce',
           h.pc # "idle" /\ h.by.over[e] = "allow" => Gone(e),
           h.pc = "check" /\ InHand(h, e) => Gone(e)
    PROVE  Gone(e)
  <1>1. req'[t] = h /\ \A s \in Requests : s # t => req'[s] = req[s]
    BY DEF Become, IInv, TypeOK
  <1>2. \/ \E u \in known : over[u][e] = "allow"
        \/ \E r \in roles : perms[r][e] = "allow"
        \/ \E s \in Requests :
              /\ req'[s].pc # "idle"
              /\ req'[s].by.over[e] = "allow" \/ (req'[s].pc = "check" /\ InHand(req'[s], e))
    BY DEF InForce, At, InHand
  <1>3. CASE (\E u \in known : over[u][e] = "allow") \/ (\E r \in roles : perms[r][e] = "allow")
    BY <1>3 DEF InForce, Gone
  <1>4. ASSUME NEW s \in Requests, req'[s].pc # "idle",
               req'[s].by.over[e] = "allow" \/ (req'[s].pc = "check" /\ InHand(req'[s], e))
        PROVE  Gone(e)
    <2>1. CASE s = t
      BY <1>1, <1>4, <2>1
    <2>2. CASE s # t
      BY <1>1, <1>4, <2>2 DEF InForce, Gone, At, InHand
    <2>3. QED
      BY <2>1, <2>2
  <1>5. QED
    BY <1>2, <1>3, <1>4

LEMMA ArriveBrings ==
    ASSUME IInv, NEW t \in Requests, NEW u \in Users, NEW op, NEW x, NEW r, NEW m, NEW a,
           Arrive(t, u, op, x, r, m, a), NEW e \in Rights, e \in InForce'
    PROVE  Gone(e)
  <1>1. PICK h : h.pc = "look" /\ h.by.over = over[u] /\ Become(t, h)
    BY DEF Arrive, Copy
  <1>2. u \in known /\ UNCHANGED <<known, over, roles, perms>>
    BY DEF Arrive, userVars, roleVars
  <1>3. h.by.over[e] = "allow" => Gone(e)
    BY <1>1, <1>2 DEF InForce, Gone
  <1>4. QED
    BY <1>1, <1>2, <1>3, RequestBrings

LEMMA LookBrings ==
    ASSUME IInv, NEW t \in Requests, Look(t), NEW e \in Rights, e \in InForce'
    PROVE  Gone(e)
  <1> DEFINE h == [req[t] EXCEPT !.pc = "check", !.todo = ToShow(req[t])]
  <1>0. PICK w : w = req[t]
    OBVIOUS
  <1>1. w \in Handlers /\ Fits(w) /\ w.pc = "look"
    BY <1>0, UnderWay, TypeParts DEF Look, At, IInv
  <1>2. UNCHANGED <<known, over, roles, perms>>
    BY DEF Look, userVars, roleVars
  <1>3. h.by = w.by /\ h.over = w.over /\ h.todo = ToShow(w) /\ h.pc = "check"
    BY <1>0, <1>1 DEF Handlers
  <1>4. Become(t, h) \/ Become(t, Idle)
    BY DEF Look, Goes
  <1>5. req \in [Requests -> Handlers \cup {Idle}]
    BY DEF IInv, TypeOK
  <1> HIDE DEF h
  <1>6. h.by.over[e] = "allow" => Gone(e)
    BY <1>0, <1>1, <1>3 DEF InForce, Gone, At
  <1>7. ASSUME Become(t, h), InHand(h, e) PROVE Gone(e)
    <2>1. w.by.admin \in {"yes", "no"}
      BY <1>1 DEF Handlers, Copies
    <2>2. CASE w.by.admin = "yes"
      <3>1. req'[t] # req[t]
        BY <1>0, <1>1, <1>3, <1>5, <1>7 DEF Become
      <3>2. QED
        BY <1>0, <1>1, <2>2, <3>1 DEF ByAdmin, Gone, At
    <2>3. CASE w.by.admin = "no"
      BY <1>1, <1>3, <1>7, <2>3, AllAsked DEF InHand
    <2>4. QED
      BY <2>1, <2>2, <2>3
  <1>8. Idle.pc = "idle"
    BY DEF Idle
  <1>9. QED
    BY <1>2, <1>4, <1>6, <1>7, <1>8, RequestBrings

(* What a caller holds is in force, here or for all servers.               *)
LEMMA HeldInForce ==
    ASSUME IInv, NEW t \in Requests, ~At(t, "idle"), NEW e \in Rights,
           req[t].by.admin = "no", CallerHolds(req[t].by, e)
    PROVE  e \in InForce \/ Star(e) \in InForce
  <1>0. PICK c : c = req[t].by
    OBVIOUS
  <1>1. c \in Copies
    BY <1>0, UnderWay, TypeParts DEF IInv, At, Handlers
  <1>2. c.over \in Maps /\ PermsOf(c.role) \in Maps
    BY <1>1, NothingTypes DEF Copies, PermsOf, IInv, TypeOK
  <1>3. Resolve(c.over, PermsOf(c.role), e)
    BY <1>0 DEF CallerHolds
  <1>4. PICK f \in {e, Star(e)} : f \in Granted(c.over, PermsOf(c.role))
    BY <1>2, <1>3, ResolvedIsGranted
  <1>5. f \in Rights /\ (c.over[f] = "allow" \/ PermsOf(c.role)[f] = "allow")
    BY <1>4, GrantedIsMarked
  <1>6. PermsOf(c.role)[f] = "allow" => c.role \in roles /\ perms[c.role][f] = "allow"
    BY <1>5 DEF PermsOf, Nothing
  <1>7. f \in InForce
    BY <1>0, <1>5, <1>6 DEF InForce
  <1>8. QED
    BY <1>4, <1>7

LEMMA CheckBrings ==
    ASSUME IInv, NEW t \in Requests, Check(t), NEW e \in Rights, e \in InForce'
    PROVE  Gone(e)
  <1>0. PICK w : w = req[t]
    OBVIOUS
  <1>1. w \in Handlers /\ w.pc = "check" /\ Asked(w)
    BY <1>0, UnderWay, TypeParts DEF Check, At, IInv, CheckInv
  <1>2. UNCHANGED <<known, over, roles, perms>>
    BY DEF Check, userVars, roleVars
  <1>3. PICK f \in w.todo :
          Goes(t, IF CallerHolds(w.by, f)
                    THEN [w EXCEPT !.todo = @ \ {f}] ELSE Idle)
    BY <1>0 DEF Check
  <1> DEFINE h == [w EXCEPT !.todo = @ \ {f}]
  <1>4. h.by = w.by /\ h.over = w.over /\ h.todo = w.todo \ {f} /\ h.pc = "check"
    BY <1>1 DEF Handlers
  <1>5. (CallerHolds(w.by, f) /\ Become(t, h)) \/ Become(t, Idle)
    BY <1>3 DEF Goes
  <1> HIDE DEF h
  <1>6. h.by.over[e] = "allow" => Gone(e)
    BY <1>0, <1>1, <1>4 DEF InForce, Gone, At
  <1>7. ASSUME CallerHolds(w.by, f), InHand(h, e) PROVE Gone(e)
    <2>1. CASE e # f
      BY <1>0, <1>1, <1>4, <1>7, <2>1 DEF InForce, Gone, At, InHand
    <2>2. CASE e = f
      <3>1. w.by.admin = "no"
        BY <1>1, <1>3 DEF Asked, Handlers, Copies
      <3>2. e \in InForce \/ Star(e) \in InForce
        BY <1>0, <1>1, <1>7, <2>2, <3>1, HeldInForce DEF At
      <3>3. QED
        BY <3>2 DEF Gone
    <2>3. QED
      BY <2>1, <2>2
  <1>8. Idle.pc = "idle"
    BY DEF Idle
  <1>9. QED
    BY <1>2, <1>5, <1>6, <1>7, <1>8, RequestBrings

(* A request puts into the store what it has in hand.                      *)
LEMMA StoreBrings ==
    ASSUME IInv, NEW t \in Requests, Store(t) \/ Fail(t), NEW e \in Rights, e \in InForce'
    PROVE  Gone(e)
  <1>0. PICK w : w = req[t]
    OBVIOUS
  <1>1. w \in Handlers /\ Fits(w) /\ w.pc = "check" /\ w.todo = {} /\ Become(t, Idle)
    BY <1>0, StoreMoves, UnderWay, TypeParts DEF At, IInv
  <1>2. w.over # Keep /\ w.over[e] = "allow" => e \in InForce
    BY <1>0, <1>1 DEF InForce, At
  <1>3. \A s \in Requests : req'[s] = req[s] \/ req'[s] = Idle
    BY <1>1 DEF Become, IInv, TypeOK
  <1>4. \A s \in Requests : req'[s].pc # "idle" => req'[s] = req[s]
    BY <1>3 DEF Idle
  <1>5. ASSUME NEW u \in known', over'[u][e] = "allow" PROVE e \in InForce
    <2>1. \/ u \in known /\ over'[u] = over[u]
          \/ over'[u] = w.over /\ w.over # Keep
          \/ over'[u] = Nothing
      <3>1. CASE CreateUser(t)
        <4>1. w.op = "create"
          BY <1>0, <3>1 DEF CreateUser, Ready
        <4>2. w.over # Keep /\ w.on \in Users
          BY <1>1, <4>1 DEF Fits, OnUser
        <4>3. QED
          BY <1>0, <1>5, <3>1, <4>2 DEF CreateUser, IInv, TypeOK
      <3>2. CASE UpdateUser(t)
        <4>1. u \in known /\ u \in Users
          BY <1>5, <3>2 DEF UpdateUser, IInv, TypeOK
        <4>2. over' = [over EXCEPT ![w.on] = Stays(w.over, @)]
          BY <1>0, <3>2 DEF UpdateUser
        <4>3. CASE u = w.on
          BY <4>1, <4>2, <4>3 DEF Stays, IInv, TypeOK
        <4>4. CASE u # w.on
          BY <4>1, <4>2, <4>4 DEF IInv, TypeOK
        <4>5. QED
          BY <4>3, <4>4
      <3>3. CASE DeleteUser(t)
        BY <1>5, <3>3 DEF DeleteUser, IInv, TypeOK
      <3>4. CASE CreateRole(t) \/ UpdateRole(t) \/ DeleteRole(t) \/ Fail(t)
        BY <1>5, <3>4 DEF CreateRole, UpdateRole, DeleteRole, Fail, userVars
      <3>5. QED
        BY <3>1, <3>2, <3>3, <3>4 DEF Store
    <2>2. CASE u \in known /\ over'[u] = over[u]
      BY <1>5, <2>2 DEF InForce
    <2>3. CASE over'[u] = w.over /\ w.over # Keep
      BY <1>2, <1>5, <2>3
    <2>4. CASE over'[u] = Nothing
      BY <1>5, <2>4 DEF Nothing
    <2>5. QED
      BY <2>1, <2>2, <2>3, <2>4
  <1>6. ASSUME NEW r \in roles', perms'[r][e] = "allow" PROVE e \in InForce
    <2>1. \/ r \in roles /\ perms'[r] = perms[r]
          \/ perms'[r] = w.over /\ w.over # Keep
      <3>1. CASE CreateRole(t) \/ UpdateRole(t)
        <4>1. w.op \in {"addRole", "editRole"}
          BY <1>0, <3>1 DEF CreateRole, UpdateRole, Ready
        <4>2. w.over # Keep /\ w.on \in Roles
          BY <1>1, <4>1 DEF Fits, OnUser
        <4>3. QED
          BY <1>0, <1>6, <3>1, <4>2 DEF CreateRole, UpdateRole, IInv, TypeOK
      <3>2. CASE DeleteRole(t)
        BY <1>6, <3>2 DEF DeleteRole, IInv, TypeOK
      <3>3. CASE CreateUser(t) \/ UpdateUser(t) \/ DeleteUser(t) \/ Fail(t)
        BY <1>6, <3>3 DEF CreateUser, UpdateUser, DeleteUser, Fail, roleVars
      <3>4. QED
        BY <3>1, <3>2, <3>3 DEF Store
    <2>2. QED
      BY <1>2, <1>6, <2>1 DEF InForce
  <1>7. QED
    BY <1>4, <1>5, <1>6 DEF InForce, Gone, At

(* A right that no map allows any more, and no request that is under way   *)
(* carries, comes back by an administrator only: for any number of users,  *)
(* roles and servers, whatever requests overlap and however outdated the   *)
(* copies of their callers are (api_users.go 102-184).                     *)
THEOREM RightsStayGone == Spec => GoneStaysGone
  <1>1. ASSUME IInv, Next, NEW e \in InForce' \ InForce
        PROVE  Star(e) \in InForce \/ ByAdmin
    <2>1. e \in Rights /\ e \in InForce'
      BY DEF InForce
    <2>2. Gone(e)
      <3>1. ASSUME NEW t \in Requests, NEW u \in Users, AskUser(t, u) \/ AskRole(t, u)
            PROVE  Gone(e)
        BY <1>1, <2>1, <3>1, AskMoves, ArriveBrings
      <3>2. QED
        BY <1>1, <2>1, <3>1, LookBrings, CheckBrings, StoreBrings DEF Next
    <2>3. QED
      BY <2>2 DEF Gone
  <1>2. IInv /\ [Next]_vars =>
          [\A e \in InForce' \ InForce : Star(e) \in InForce \/ ByAdmin]_vars
    BY <1>1
  <1>3. QED
    BY <1>2, Invariance, PTL DEF Spec, GoneStaysGone

-----------------------------------------------------------------------------
(* What a store operation confers was in the rights to show.               *)
LEMMA ConferredIsShown ==
    ASSUME IInv, NEW t \in Requests, Store(t), NEW h, h = req[t], h.by.admin = "no",
           t \notin stale, NEW e \in Rights, Confers(h, e)'
    PROVE  e \in ToShow(h) \/ (Star(e) \in ToShow(h) /\ ByStar(h, e)')
  <1>1. h \in Handlers /\ Fits(h) /\ Vetted(h)
    BY StoreMoves, UnderWay, TypeParts DEF At, IInv, CheckInv
  <1>2. TypeOK
    BY DEF IInv
  <1>3. CASE CreateUser(t)
    <2>1. h.op = "create" /\ h.admin # "yes" /\ h.on \in Users /\ h.on \notin used /\ h.over \in Maps
      BY <1>1, <1>3 DEF CreateUser, Ready, Vetted, Fits, OnUser, Handlers
    <2>2. /\ admins' = admins /\ role'[h.on] = h.role /\ over'[h.on] = h.over
          /\ UNCHANGED <<roles, perms>>
      BY <1>2, <1>3, <2>1 DEF CreateUser, roleVars, TypeOK
    <2>3. h.on \notin admins'
      BY <1>2, <2>1, <2>2 DEF TypeOK
    <2>4. Resolve(h.over, PermsOf(h.role), e)
      BY <2>1, <2>2, <2>3 DEF Confers, Holds, PermsOf, Resolve, Says
    <2>5. PermsOf(h.role) \in Maps
      BY <1>2, NothingTypes DEF PermsOf, TypeOK
    <2>6. e \in Granted(h.over, PermsOf(h.role)) \/ Star(e) \in Granted(h.over, PermsOf(h.role))
      BY <2>1, <2>4, <2>5, ResolvedIsGranted
    <2>7. e \in Granted(h.over, PermsOf(h.role)) \/ ByStar(h, e)'
      BY <2>1, <2>2 DEF ByStar, PermsOf, Granted
    <2>8. QED
      BY <1>1, <2>1, <2>6, <2>7 DEF ToShow
  <1>4. CASE UpdateUser(t)
    <2>1. h.op = "update" /\ h.admin = Keep /\ h.on \notin admins /\ h.on \in Users
          /\ h.over \in Maps \cup {Keep}
      BY <1>1, <1>4 DEF UpdateUser, Ready, Vetted, Fits, OnUser, Handlers
    <2>2. PICK o, r : o = Stays(h.over, over[h.on]) /\ r = Stays(h.role, role[h.on])
      OBVIOUS
    <2>3. admins' = admins
      BY <1>4, <2>1, AccessAssumption DEF UpdateUser
    <2>4. role'[h.on] = r /\ over'[h.on] = o /\ UNCHANGED <<roles, perms>>
      BY <1>2, <1>4, <2>1, <2>2 DEF UpdateUser, roleVars, TypeOK
    <2>5. Resolve(o, PermsOf(r), e)
      BY <2>1, <2>3, <2>4 DEF Confers, Holds, PermsOf, Resolve, Says
    <2>6. PermsOf(r) \in Maps /\ o \in Maps
      BY <1>2, <2>1, <2>2, NothingTypes DEF PermsOf, TypeOK, Stays
    <2>7. e \in Granted(o, PermsOf(r)) \/ Star(e) \in Granted(o, PermsOf(r))
      BY <2>5, <2>6, ResolvedIsGranted
    <2>8. e \in Granted(o, PermsOf(r)) \/ ByStar(h, e)'
      BY <2>1, <2>4 DEF ByStar, PermsOf, Granted
    <2>9. QED
      BY <2>1, <2>2, <2>7, <2>8 DEF ToShow
  <1>5. CASE CreateRole(t) \/ UpdateRole(t)
    <2>1. h.op \in {"addRole", "editRole"} /\ h.on \in Roles
      BY <1>1, <1>5 DEF CreateRole, UpdateRole, Ready, Fits, OnUser
    <2>2. perms'[h.on] = h.over
      BY <1>2, <1>5, <2>1 DEF CreateRole, UpdateRole, TypeOK
    <2>3. h.over[e] = "allow"
      BY <2>1, <2>2 DEF Confers
    <2>4. QED
      BY <2>1, <2>3 DEF ToShow, Allowed
  <1>6. CASE DeleteUser(t) \/ DeleteRole(t)
    <2>1. h.op \in {"delete", "dropRole"}
      BY <1>6 DEF DeleteUser, DeleteRole, Ready
    <2>2. QED
      BY <2>1 DEF Confers
  <1>7. QED
    BY <1>3, <1>4, <1>5, <1>6 DEF Store

(* The request that a step ends and that changes the store is the one      *)
(* whose operation the step is.                                            *)
LEMMA OwnStore ==
    ASSUME IInv, Next, NEW t \in Requests, At(t, "check"), req'[t] = Idle,
           <<userVars, roleVars>>' # <<userVars, roleVars>>
    PROVE  Store(t)
  <1>1. req[t] # Idle
    BY DEF At, Idle
  <1>2. ASSUME NEW s \in Requests, NEW h, Become(s, h) PROVE s = t
    <2>1. s # t => req'[t] = req[t]
      BY <1>2 DEF Become, IInv, TypeOK
    <2>2. QED
      BY <1>1, <2>1
  <1>3. PICK s \in Requests :
           (\E u \in Users : AskUser(s, u) \/ AskRole(s, u)) \/ Look(s) \/ Check(s) \/ Store(s) \/ Fail(s)
    BY DEF Next
  <1>4. CASE \E u \in Users : AskUser(s, u) \/ AskRole(s, u)
    <2>1. PICK u \in Users : AskUser(s, u) \/ AskRole(s, u)
      BY <1>4
    <2>2. PICK op, x, r, m, a : Arrive(s, u, op, x, r, m, a)
      BY <2>1, AskMoves
    <2>3. QED
      BY <2>2 DEF Arrive, userVars, roleVars
  <1>5. CASE Look(s) \/ Check(s) \/ Fail(s)
    BY <1>5 DEF Look, Check, Fail, userVars, roleVars
  <1>6. CASE Store(s)
    BY <1>2, <1>6, StoreMoves
  <1>7. QED
    BY <1>3, <1>4, <1>5, <1>6

(* What a user holds by the request of one who is no administrator, or a   *)
(* role allows by it, this one holds too (a right that the user has only   *)
(* because it has it on all servers: on all servers), when nobody else has *)
(* changed the target or the roles since its check began                   *)
(* (api_users.go 102-184): for any overrides, roles and patches.           *)
THEOREM GrantsBounded == Spec => GrantBounded
  <1>1. ASSUME IInv, Next, NEW t \in Requests, NEW e \in Rights, NEW h \in {req[t]},
               At(t, "check"), h.by.admin = "no", t \notin stale,
               <<userVars, roleVars>>' # <<userVars, roleVars>>, req'[t] = Idle, Confers(h, e)'
        PROVE  CallerHolds(h.by, e) \/ (ByStar(h, e)' /\ CallerHolds(h.by, Star(e)))
    <2>1. Store(t)
      BY <1>1, OwnStore
    <2>2. e \in ToShow(h) \/ (Star(e) \in ToShow(h) /\ ByStar(h, e)')
      BY <1>1, <2>1, ConferredIsShown
    <2>3. h.todo = {} /\ Vetted(h)
      BY <1>1, <2>1, StoreMoves DEF IInv, CheckInv
    <2>4. QED
      BY <1>1, <2>2, <2>3 DEF Vetted
  <1>2. IInv /\ [Next]_vars =>
          [\A t \in Requests, e \in Rights : \A h \in {req[t]} :
              /\ At(t, "check") /\ h.by.admin = "no" /\ t \notin stale
              /\ <<userVars, roleVars>>' # <<userVars, roleVars>> /\ req'[t] = Idle
              /\ Confers(h, e)'
              => \/ CallerHolds(h.by, e)
                 \/ ByStar(h, e)' /\ CallerHolds(h.by, Star(e))]_vars
    BY <1>1
  <1>3. QED
    BY <1>2, Invariance, PTL DEF Spec, GrantBounded
=============================================================================
