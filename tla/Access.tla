------------------------------- MODULE Access -------------------------------
(***************************************************************************)
(* Who may do what: the permission model of internal/store/models.go and   *)
(* the handlers of internal/web/api_users.go that hand permissions out.    *)
(*                                                                         *)
(* A right is a permission in a scope: the panel, one server, or every     *)
(* server.  A user's overrides, and a role, map each right to "allow",     *)
(* "deny" or, when the map has no such key, "none".  Each operation of the *)
(* store is one step; a handler works on the copies that auth and its      *)
(* lookups took, and asks for the rights of its caller one by one.         *)
(*                                                                         *)
(* Accounts models the rest of these handlers: passwords, sessions, the    *)
(* last administrator and what the files hold.                             *)
(***************************************************************************)
EXTENDS FiniteSets, Naturals

CONSTANTS Users, Founder,    \* Founder is the administrator of the setup
          Roles, NoRole,
          Servers, Perms,    \* the server permissions
          Entries,           \* bound: the maps that requests send
          Keep,              \* a field that a patch leaves alone
          Patches,           \* bound: what requests ask for a user to have
          Requests,
          MaxArrivals        \* bound: requests

Global == {"users.manage", "roles.manage"}
Rights == ({"panel"} \X Global) \cup ((Servers \cup {"*"}) \X Perms)
Marks  == {"allow", "deny", "none"}
Maps   == [Rights -> Marks]

ASSUME AccessAssumption ==
    /\ Founder \in Users /\ NoRole \notin Roles
    /\ "panel" \notin Servers /\ "*" \notin Servers
    /\ Entries \subseteq Maps
    /\ Patches \subseteq [role : Roles \cup {NoRole, Keep}, over : Maps \cup {Keep},
                          admin : {"yes", "no", Keep}]
    /\ Keep \notin Maps \cup Roles \cup {NoRole, "yes", "no"}

VARIABLES
    known, admins, role, over,   \* db.users: their is_admin, role_id, overrides
    roles, perms,                \* db.roles
    used,                        \* identifiers given out
    req, arrivals,               \* the handlers, and how many have begun
    stale   \* history: requests past their lookup whose ground has moved

userVars == <<known, admins, role, over>>
roleVars == <<roles, perms>>
vars == <<userVars, roleVars, used, req, arrivals, stale>>

Nothing == [e \in Rights |-> "none"]

Ops == {"create", "update", "delete", "addRole", "editRole", "dropRole"}
OnUser == {"create", "update", "delete"}

Copies == [id : Users, admin : {"yes", "no"}, role : Roles \cup {NoRole}, over : Maps]

(* on: the user or role that a request is about; its patch is role, over   *)
(* and admin; todo: the rights that its caller has still to show.          *)
Handlers ==
    [pc : {"look", "check"}, op : Ops, by : Copies, on : Users \cup Roles,
     role : Roles \cup {NoRole, Keep}, over : Maps \cup {Keep},
     admin : {"yes", "no", Keep}, todo : SUBSET Rights]
Idle == [pc |-> "idle"]

(* A patch leaves fields alone, a deletion has none. *)
Fits(h) ==
    /\ IF h.op \in OnUser THEN h.on \in Users ELSE h.on \in Roles
    /\ h.op = "create" => h.role # Keep
    /\ h.op \in {"create", "addRole", "editRole"} => h.over # Keep
    /\ h.op \in {"delete", "dropRole"} => h.over = Keep

TypeOK ==
    /\ known \subseteq used /\ used \subseteq Users \cup Roles
    /\ known \subseteq Users /\ admins \subseteq known
    /\ role \in [Users -> Roles \cup {NoRole}] /\ over \in [Users -> Maps]
    /\ roles \subseteq used /\ roles \subseteq Roles /\ perms \in [Roles -> Maps]
    /\ req \in [Requests -> Handlers \cup {Idle}]
    /\ \A t \in Requests : req[t] # Idle => Fits(req[t])
    /\ stale \subseteq Requests /\ arrivals \in Nat

Init ==
    /\ known = {Founder} /\ admins = {Founder} /\ used = {Founder}
    /\ role = [u \in Users |-> NoRole] /\ over = [u \in Users |-> Nothing]
    /\ roles = {} /\ perms = [r \in Roles |-> Nothing]
    /\ req = [t \in Requests |-> Idle]
    /\ stale = {} /\ arrivals = 0
-----------------------------------------------------------------------------
(* A permission on one server is also given by the entry for all servers.  *)
Star(e) == IF e[1] \in Servers THEN <<"*", e[2]>> ELSE e

Says(m, e) == IF m[e] # "none" THEN m[e] ELSE m[Star(e)]

(* HasGlobal, HasServer and, for "*", actorHasServerPerm                   *)
Resolve(o, r, e) ==
    IF Says(o, e) # "none" THEN Says(o, e) = "allow" ELSE Says(r, e) = "allow"

PermsOf(r) == IF r \in roles THEN perms[r] ELSE Nothing

(* The caller's flag and overrides are those of its copy, its role is      *)
(* looked up each time.                                                    *)
CallerHolds_Anywhere(c, e) ==
    \/ c.admin = "yes"
    \/ \E f \in Rights : f[2] = e[2] /\ Resolve(c.over, PermsOf(c.role), f)
CallerHolds(c, e) == c.admin = "yes" \/ Resolve(c.over, PermsOf(c.role), e)

Holds(u, e) == u \in admins \/ Resolve(over[u], PermsOf(role[u]), e)

(* validateGrant: the rights to ask the caller for, when a user is to have *)
(* these overrides and the role with these entries                         *)
Granted_Overrides(o, r) == {e \in Rights : o[e] = "allow"}
Granted(o, r) ==
    {e \in Rights : (IF o[e] # "none" THEN o[e] ELSE r[e]) = "allow"}

(* validateRoleGrant *)
Allowed(m) == {e \in Rights : m[e] = "allow"}
-----------------------------------------------------------------------------
Become(t, h) == req' = [req EXCEPT ![t] = h]
Goes(t, h) == Become(t, h) /\ UNCHANGED arrivals
At(t, step) == req[t].pc = step
Stays(field, value) == IF field = Keep THEN value ELSE field

(* requireGlobal *)
Needed(op) == IF op \in OnUser THEN <<"panel", "users.manage">>
              ELSE <<"panel", "roles.manage">>

(* auth and requireGlobal: the caller as the store holds it now, with any  *)
(* request for which it has the permission                                 *)
Copy(u) == [id |-> u, admin |-> IF u \in admins THEN "yes" ELSE "no",
            role |-> role[u], over |-> over[u]]

Arrive(t, u, op, x, r, m, a) ==
    /\ At(t, "idle") /\ u \in known /\ arrivals < MaxArrivals
    /\ arrivals' = arrivals + 1
    /\ CallerHolds(Copy(u), Needed(op))
    /\ Become(t, [pc |-> "look", op |-> op, on |-> x, role |-> r, over |-> m,
                  admin |-> a, todo |-> {}, by |-> Copy(u)])
    /\ UNCHANGED <<userVars, roleVars, used>>

(* A new user has all fields and no flag unless it is sent; identifiers    *)
(* are known once they are used.                                           *)
AskUser(t, u) ==
    \/ \E x \in Users \ used, p \in Patches :
          /\ p.role # Keep /\ p.over # Keep
          /\ Arrive(t, u, "create", x, p.role, p.over, p.admin)
    \/ \E x \in Users \cap used :
          \/ \E p \in Patches : Arrive(t, u, "update", x, p.role, p.over, p.admin)
          \/ Arrive(t, u, "delete", x, Keep, Keep, Keep)

AskRole(t, u) == \E m \in Entries :
    \/ \E x \in Roles \ used : Arrive(t, u, "addRole", x, Keep, m, Keep)
    \/ \E x \in Roles \cap used :
          \/ Arrive(t, u, "editRole", x, Keep, m, Keep)
          \/ Arrive(t, u, "dropRole", x, Keep, Keep, Keep)

(* What the handler refuses after its lookup: no such target, an           *)
(* administrator for a caller who is none, its own or the last             *)
(* administrator's deletion, an unknown role.                              *)
RoleThere(h) == h.role \in roles \cup {NoRole, Keep}

Spared(u) == u \in admins => admins \ {u} # {}

Admissible(h) ==
    LET boss == h.by.admin = "yes"
    IN  CASE h.op = "create" -> (boss \/ h.admin # "yes") /\ RoleThere(h)
          [] h.op = "update" -> /\ h.on \in known /\ (boss \/ h.on \notin admins)
                                /\ (boss \/ h.admin = Keep) /\ RoleThere(h)
                                /\ (h.admin = "no" => Spared(h.on))
          [] h.op = "delete" -> /\ h.on \in known /\ (boss \/ h.on \notin admins)
                                /\ h.on # h.by.id /\ Spared(h.on)
          [] h.op = "editRole" -> h.on \in roles
          [] OTHER -> TRUE

(* The rights to show, for the state that the target is to have *)
ToShow(h) ==
    IF h.by.admin = "yes" THEN {} ELSE
    CASE h.op = "create" -> Granted(h.over, PermsOf(h.role))
      [] h.op = "update" -> Granted(Stays(h.over, over[h.on]), PermsOf(Stays(h.role, role[h.on])))
      [] h.op \in {"addRole", "editRole"} -> Allowed(h.over)
      [] OTHER -> {}

Look(t) ==
    /\ At(t, "look")
    /\ Goes(t, IF Admissible(req[t])
                 THEN [req[t] EXCEPT !.pc = "check", !.todo = ToShow(req[t])] ELSE Idle)
    /\ UNCHANGED <<userVars, roleVars, used>>

Check(t) ==
    /\ At(t, "check")
    /\ \E e \in req[t].todo :
          Goes(t, IF CallerHolds(req[t].by, e)
                    THEN [req[t] EXCEPT !.todo = @ \ {e}] ELSE Idle)
    /\ UNCHANGED <<userVars, roleVars, used>>

(* The caller has shown everything: the store's operation follows. *)
Ready(t, op) == At(t, "check") /\ req[t].op = op /\ req[t].todo = {}

CreateUser(t) == LET h == req[t] IN
    /\ Ready(t, "create") /\ h.on \notin used
    /\ known' = known \cup {h.on} /\ used' = used \cup {h.on}
    /\ admins' = IF h.admin = "yes" THEN admins \cup {h.on} ELSE admins
    /\ role' = [role EXCEPT ![h.on] = h.role]
    /\ over' = [over EXCEPT ![h.on] = h.over]
    /\ Goes(t, Idle)
    /\ UNCHANGED roleVars

(* UpdateUserGuarded, with its invariant atLeastOneAdmin *)
UpdateUser(t) == LET h == req[t] IN
    /\ Ready(t, "update") /\ h.on \in known
    /\ role' = [role EXCEPT ![h.on] = Stays(h.role, @)]
    /\ over' = [over EXCEPT ![h.on] = Stays(h.over, @)]
    /\ admins' = CASE h.admin = "yes" -> admins \cup {h.on}
                   [] h.admin = "no" -> admins \ {h.on}
                   [] OTHER -> admins
    /\ admins' # {}
    /\ Goes(t, Idle)
    /\ UNCHANGED <<known, roleVars, used>>

Remaining(u) == admins \ {u}

DeleteUser(t) == LET u == req[t].on IN
    /\ Ready(t, "delete") /\ u \in known
    /\ known' = known \ {u} /\ admins' = Remaining(u)
    /\ role' = [role EXCEPT ![u] = NoRole] /\ over' = [over EXCEPT ![u] = Nothing]
    /\ Goes(t, Idle)
    /\ UNCHANGED <<roleVars, used>>

CreateRole(t) == LET h == req[t] IN
    /\ Ready(t, "addRole") /\ h.on \notin used
    /\ roles' = roles \cup {h.on} /\ used' = used \cup {h.on}
    /\ perms' = [perms EXCEPT ![h.on] = h.over]
    /\ Goes(t, Idle)
    /\ UNCHANGED userVars

UpdateRole(t) == LET h == req[t] IN
    /\ Ready(t, "editRole") /\ h.on \in roles
    /\ perms' = [perms EXCEPT ![h.on] = h.over]
    /\ Goes(t, Idle)
    /\ UNCHANGED <<userVars, roles, used>>

(* Its users have no role then. *)
DeleteRole(t) == LET r == req[t].on IN
    /\ Ready(t, "dropRole") /\ r \in roles
    /\ roles' = roles \ {r} /\ perms' = [perms EXCEPT ![r] = Nothing]
    /\ role' = [u \in Users |-> IF role[u] = r THEN NoRole ELSE role[u]]
    /\ Goes(t, Idle)
    /\ UNCHANGED <<known, admins, over, used>>

(* ErrNotFound, a name that is taken or errNoAdminLeft: the request fails. *)
(* When only the file cannot be written, the memory has changed and the    *)
(* answer is all that differs from the operation.                          *)
Fail(t) ==
    /\ At(t, "check") /\ req[t].todo = {}
    /\ Goes(t, Idle)
    /\ UNCHANGED <<userVars, roleVars, used>>

Store(t) == \/ CreateUser(t) \/ UpdateUser(t) \/ DeleteUser(t)
            \/ CreateRole(t) \/ UpdateRole(t) \/ DeleteRole(t)

(* What the check of a request rests on: its target, the role that is to   *)
(* be given, and the role of its caller                                    *)
Ground(h) == IF h.op \in OnUser
    THEN <<h.on \in admins, over[h.on], role[h.on], PermsOf(role[h.on]),
           PermsOf(h.role), PermsOf(h.by.role)>>
    ELSE <<PermsOf(h.by.role)>>

(* stale follows: the request has been looked up, and another one has      *)
(* moved its ground since.                                                 *)
Observe ==
    stale' = {t \in Requests : At(t, "check") /\ At(t, "check")'
                 /\ (t \in stale \/ Ground(req[t])' # Ground(req[t]))}

Next ==
    /\ \E t \in Requests :
          \/ \E u \in Users : AskUser(t, u) \/ AskRole(t, u)
          \/ Look(t) \/ Check(t) \/ Store(t) \/ Fail(t)
    /\ Observe

Spec == Init /\ [][Next]_vars
-----------------------------------------------------------------------------
(* The rights that a map allows: of a user, of a role, of the copy that a  *)
(* request has of its caller, or in hand, as far as its caller has shown   *)
(* them                                                                    *)
InForce == {e \in Rights :
    \/ \E u \in known : over[u][e] = "allow"
    \/ \E r \in roles : perms[r][e] = "allow"
    \/ \E t \in Requests : /\ ~At(t, "idle")
                           /\ \/ req[t].by.over[e] = "allow"
                              \/ /\ At(t, "check") /\ req[t].over # Keep
                                 /\ req[t].over[e] = "allow" /\ e \notin req[t].todo}

ByAdmin == \E t \in Requests :
    At(t, "look") /\ req[t].by.admin = "yes" /\ req'[t] # req[t]

(* A right that was taken from everybody stays taken: when no map allows   *)
(* it any more, nor does the copy or the patch of a request still under    *)
(* way, only an administrator brings it back.  Whatever the others ask     *)
(* for, in requests that overlap and with copies that are out of date,     *)
(* they hand on what is in force, on a server or on all of them            *)
(* (validateGrant and validateRoleGrant, api_users.go 102-184).            *)
GoneStaysGone ==
    [][\A e \in InForce' \ InForce : Star(e) \in InForce \/ ByAdmin]_vars

(* What the user that a request was about holds after it, or what the role *)
(* allows then                                                             *)
Confers(h, e) ==
    \/ h.op \in {"create", "update"} /\ Holds(h.on, e)
    \/ h.op \in {"addRole", "editRole"} /\ perms[h.on][e] = "allow"

(* ... and holds only because it holds the right on all servers            *)
ByStar(h, e) ==
    h.op \in {"create", "update"} /\ e \notin Granted(over[h.on], PermsOf(role[h.on]))

(* No user ends up, by the request of one who is no administrator, holding *)
(* a right that this caller does not hold; nor does a role allow one (the  *)
(* comments of validateGrant and validateRoleGrant, api_users.go 102-108   *)
(* and 153-156).  The code keeps to that with two exceptions, and this is  *)
(* what is left.  A caller who holds a right on all servers, but is denied *)
(* it on one, is asked for the first only when it hands the right out on   *)
(* all of them, and so gives the second too.  And between the lookup of a  *)
(* request and its store operation, another may change the target or one   *)
(* of the roles: then the two together may give what neither was asked for.*)
GrantBounded ==
    [][\A t \in Requests, e \in Rights : \A h \in {req[t]} :
          /\ At(t, "check") /\ h.by.admin = "no" /\ t \notin stale
          /\ <<userVars, roleVars>>' # <<userVars, roleVars>> /\ req'[t] = Idle
          /\ Confers(h, e)'
          => \/ CallerHolds(h.by, e)
             \/ ByStar(h, e)' /\ CallerHolds(h.by, Star(e))]_vars
=============================================================================
