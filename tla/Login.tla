------------------------------- MODULE Login -------------------------------
(***************************************************************************)
(* The second factor of one user: pending logins and enrolments of         *)
(* internal/web/api_auth.go and one-time codes of internal/auth/totp.go.   *)
(* What the limiters refuse (RateLimiter) does not happen here.            *)
(*                                                                         *)
(* The clock counts the steps of the one-time codes.  A code is its secret *)
(* and its counter: that two counters show the same six digits is left     *)
(* out, and so is which code a request brings, until it is compared.  A    *)
(* handler copies the user, compares the code and stores what it found in  *)
(* three steps.  The file of the users is read when the panel starts.      *)
(***************************************************************************)
EXTENDS Naturals, FiniteSets

CONSTANTS Secrets, NoSecret,
          Tokens,       \* of pending logins
          Sessions,     \* of the user, by which enrolments are kept
          Handlers,
          PendingTTL, EnrolTTL,   \* in steps of the clock
          FirstTime, LastTime,   \* bound: the clock's first and last value
          MaxArrivals   \* bound: handlers begun and resets

VARIABLES
    clock,
    user,      \* its TOTPSecret and LastTOTPCounter in memory
    saved,     \* and in the file
    pending,   \* Server.pending: the expiry of each token
    enrol,     \* pendingTOTP: secret and expiry, by session
    h,         \* the handlers
    spent,     \* tokens and secrets that were given out
    arrivals,
    tried,     \* history: secrets that a confirmation has stored
    accepted   \* history: codes accepted, but for those that were lost

vars == <<clock, user, saved, pending, enrol, h, spent, arrivals, tried, accepted>>

Counters == 1..LastTime + 1
Factors == [secret : Secrets \cup {NoSecret}, last : Counters \cup {0}]
NoFactor == [secret |-> NoSecret, last |-> 0]
Codes == (Secrets \cup {NoSecret}) \X Counters
Times == 0..LastTime + PendingTTL + EnrolTTL

(* copy: what a handler knows of the user or of the enrolment; code: the   *)
(* counter of the code that was right; fresh: whether nobody has stored    *)
(* since the copy was taken                                                *)
Idle == [pc |-> "idle"]
Work == [pc : {"compare", "store", "drop"}, by : {"login", "confirm", "disable"},
         on : Tokens \cup Sessions,
         copy : Factors, code : Counters \cup {0}, fresh : BOOLEAN]

(* Pending logins and secrets in force were given out before. *)
TypeOK ==
    /\ clock \in FirstTime..LastTime /\ arrivals \in 0..MaxArrivals
    /\ user \in Factors /\ saved \in Factors
    /\ DOMAIN pending \subseteq Tokens /\ pending \in [DOMAIN pending -> Times]
    /\ DOMAIN enrol \subseteq Sessions
    /\ enrol \in [DOMAIN enrol -> [secret : Secrets, expires : Times]]
    /\ h \in [Handlers -> Work \cup {Idle}]
    /\ DOMAIN pending \subseteq spent
    /\ {user.secret, saved.secret} \subseteq spent \cup {NoSecret}
    /\ tried \subseteq spent /\ accepted \subseteq Codes

Init ==
    /\ clock = FirstTime
    /\ user \in {[secret |-> s, last |-> 0] : s \in Secrets \cup {NoSecret}}
    /\ saved = user
    /\ spent = {user.secret} \ {NoSecret} /\ tried = spent
    /\ pending = << >> /\ enrol = << >>
    /\ h = [t \in Handlers |-> Idle]
    /\ accepted = {} /\ arrivals = 0

Without(f, S) == [x \in DOMAIN f \ S |-> f[x]]
With(f, x, v) == [y \in DOMAIN f \cup {x} |-> IF y = x THEN v ELSE f[y]]
Past(time) == clock > time

userVars == <<user, saved>>
history  == <<tried, accepted>>
-----------------------------------------------------------------------------
(* VerifyTOTP: the counters whose code is right, a step around the clock   *)
(* and after the last one                                                  *)
Right(last) == {c \in {clock - 1, clock, clock + 1} : c > last}

At(t, step) == h[t].pc = step
Becomes(t, work) == h' = [h EXCEPT ![t] = work]
Begins(t, by, on, copy, fresh) ==
    /\ At(t, "idle") /\ arrivals < MaxArrivals
    /\ arrivals' = arrivals + 1
    /\ Becomes(t, [pc |-> "compare", by |-> by, on |-> on, copy |-> copy,
                   code |-> 0, fresh |-> fresh])

(* handleLogin, for a right password: expired logins go, a new one comes. *)
Password(p) ==
    /\ user.secret # NoSecret /\ p \notin spent
    /\ spent' = spent \cup {p}
    /\ LET all == With(pending, p, clock + PendingTTL)
       IN  pending' = Without(all, {q \in DOMAIN all : Past(all[q])})
    /\ UNCHANGED <<clock, userVars, enrol, h, arrivals, history>>

(* handleLoginTOTP up to its copy of the user *)
Waiting(p) == p \in DOMAIN pending /\ ~Past(pending[p]) /\ user.secret # NoSecret

Guess(t, p) ==
    /\ Waiting(p)
    /\ Begins(t, "login", p, user, TRUE)
    /\ UNCHANGED <<clock, userVars, pending, enrol, spent, history>>

(* handleTOTPBegin: the enrolments that are over go, the session's own is  *)
(* replaced.                                                               *)
Begin(k, s) ==
    /\ s \notin spent
    /\ spent' = spent \cup {s}
    /\ enrol' = With(Without(enrol, {j \in DOMAIN enrol : Past(enrol[j].expires)}),
                     k, [secret |-> s, expires |-> clock + EnrolTTL])
    /\ UNCHANGED <<clock, userVars, pending, h, arrivals, history>>

(* handleTOTPConfirm: its copy is the enrolment, and knows no counter,     *)
(* also when the secret has been stored before.                            *)
Load(t, k) ==
    /\ At(t, "idle") /\ k \in DOMAIN enrol
    /\ IF Past(enrol[k].expires)
         THEN enrol' = Without(enrol, {k}) /\ UNCHANGED <<h, arrivals>>
         ELSE /\ Begins(t, "confirm", k, [secret |-> enrol[k].secret, last |-> 0],
                        enrol[k].secret \notin tried)
              /\ UNCHANGED enrol
    /\ UNCHANGED <<clock, userVars, pending, spent, history>>

(* handleTOTPDisable: its copy is the one that auth took.  A user without  *)
(* a second factor has the empty secret, which has codes too.              *)
BeginDisable(t, k) ==
    /\ Begins(t, "disable", k, user, TRUE)
    /\ UNCHANGED <<clock, userVars, pending, enrol, spent, history>>

(* The code that the request brings is right, or the request is refused. *)
Compare(t) ==
    /\ At(t, "compare")
    /\ \/ Becomes(t, Idle)
       \/ \E c \in Right(h[t].copy.last) :
              Becomes(t, [h[t] EXCEPT !.pc = "store", !.code = c])
    /\ UNCHANGED <<clock, userVars, pending, enrol, spent, arrivals, history>>

(* The store writes what the handler found: from here on every copy that   *)
(* another handler took is outdated.                                       *)
Outcome_NoCounter(work) ==
    CASE work.by = "login" -> user
      [] work.by = "confirm" -> [secret |-> work.copy.secret, last |-> 0]
      [] work.by = "disable" -> NoFactor
Outcome(work) ==
    CASE work.by = "login" -> [user EXCEPT !.last = work.code]
      [] work.by = "confirm" -> [secret |-> work.copy.secret, last |-> work.code]
      [] work.by = "disable" -> NoFactor

Finished(work) == [work EXCEPT !.pc = "drop", !.copy = NoFactor, !.code = 0, !.fresh = TRUE]

Outdated(t, work) == [u \in Handlers |->
    IF u = t THEN work
    ELSE IF h[u].pc \in {"compare", "store"} THEN [h[u] EXCEPT !.fresh = FALSE]
    ELSE h[u]]

Code(t) == <<h[t].copy.secret, h[t].code>>

(* The codes that a user with this second factor can bring again *)
Beyond(f) == {c \in Codes : c[1] = f.secret /\ c[2] > f.last}

(* A handler whose copy was outdated may take back the counter that        *)
(* another has stored.                                                     *)
Lost(t) == IF h[t].fresh THEN {} ELSE Beyond(user')

Answers(t) ==
    /\ At(t, "store")
    /\ user' = Outcome(h[t])
    /\ tried' = tried \cup (IF h[t].by = "confirm" THEN {h[t].copy.secret} ELSE {})
    /\ UNCHANGED <<clock, pending, enrol, spent, arrivals>>

(* handleLoginTOTP does not look whether UpdateUser could save; the others *)
(* answer with an error when it could not, and memory keeps what it has.   *)
Store(t) ==
    /\ Answers(t)
    /\ \/ saved' = user'
       \/ h[t].by = "login" /\ saved' = saved
    /\ h' = Outdated(t, IF h[t].by = "disable" THEN Idle ELSE Finished(h[t]))
    /\ accepted' = (accepted \cup {Code(t)}) \ Lost(t)

StoreFails(t) ==
    /\ Answers(t) /\ h[t].by # "login"
    /\ saved' = saved
    /\ h' = Outdated(t, Idle)
    /\ accepted' = accepted \ Lost(t)

(* The pending login, or the enrolment, is used up; a login goes on to its *)
(* session, which Accounts models.                                         *)
Drop(t) ==
    /\ At(t, "drop")
    /\ Becomes(t, Idle)
    /\ pending' = Without(pending, {h[t].on})
    /\ enrol' = Without(enrol, {h[t].on})
    /\ UNCHANGED <<clock, userVars, spent, arrivals, history>>

(* handleUserTOTPReset, by an administrator; Accounts models the sessions  *)
(* that end with it.                                                       *)
Reset ==
    /\ arrivals < MaxArrivals /\ arrivals' = arrivals + 1
    /\ user' = NoFactor /\ saved' \in {user', saved}
    /\ h' = [t \in Handlers |-> IF h[t].pc \in {"compare", "store"}
                                THEN [h[t] EXCEPT !.fresh = FALSE] ELSE h[t]]
    /\ UNCHANGED <<clock, pending, enrol, spent, history>>

(* Any other change of a user saves all of them. *)
Save ==
    /\ saved' = user
    /\ UNCHANGED <<clock, user, pending, enrol, h, spent, arrivals, history>>

(* The panel ends and starts again: what could not be saved is lost, and   *)
(* with it the counter that makes codes old.                               *)
Restart ==
    /\ user' = saved
    /\ pending' = << >> /\ enrol' = << >> /\ h' = [t \in Handlers |-> Idle]
    /\ accepted' = IF saved = user THEN accepted ELSE accepted \ Beyond(saved)
    /\ UNCHANGED <<clock, saved, spent, arrivals, tried>>

Tick ==
    /\ clock < LastTime
    /\ clock' = clock + 1
    /\ UNCHANGED <<userVars, pending, enrol, h, spent, arrivals, history>>

Next ==
    \/ Reset \/ Save \/ Restart \/ Tick
    \/ \E p \in Tokens : Password(p)
    \/ \E k \in Sessions, s \in Secrets : Begin(k, s)
    \/ \E t \in Handlers :
          \/ Compare(t) \/ Store(t) \/ StoreFails(t) \/ Drop(t)
          \/ \E p \in Tokens : Guess(t, p)
          \/ \E k \in Sessions : Load(t, k) \/ BeginDisable(t, k)

Spec == Init /\ [][Next]_vars
-----------------------------------------------------------------------------
Accepts(t) == Store(t) /\ h[t].copy.secret # NoSecret

(* A one-time code that was accepted is not accepted again, with three     *)
(* exceptions, each for the codes that it concerns: the handler's copy was *)
(* outdated before it stored (api_auth.go:187-199); a handler with such a  *)
(* copy took the last counter back to before the code; the counter could   *)
(* not be saved, which a login ignores (199-202), and the panel was        *)
(* restarted.  An enrolment that is confirmed once more has an outdated    *)
(* copy: it knows no counter.                                              *)
CodesSpent == [][\A t \in Handlers :
                   Accepts(t) /\ h[t].fresh => Code(t) \notin accepted]_vars

(* "codes at or before it are rejected so a stolen code cannot be          *)
(* replayed" (totp.go:64-66): not so for logins that overlap, which all    *)
(* compare with the counter from before the first of them.                 *)
NoReplay == [][\A t \in Handlers : Accepts(t) => Code(t) \notin accepted]_vars
=============================================================================
