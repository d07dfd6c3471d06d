----------------------------- MODULE PartsProofs -----------------------------
(***************************************************************************)
(* Proofs about the seven parts of MCParts, for every value of their       *)
(* constants.  Each part has an inductive invariant of its own, which the  *)
(* steps of the others leave alone.                                        *)
(***************************************************************************)
EXTENDS MCParts, FiniteSetTheorems, SequenceTheorems, WellFoundedInduction, TLAPS

-----------------------------------------------------------------------------
(* A sequence cut in two *)
LEMMA Halves ==
    ASSUME NEW S, NEW c, c \in Seq(S), NEW n \in 1..Len(c),
           NEW x, x = SubSeq(c, 1, n), NEW y, y = SubSeq(c, n + 1, Len(c))
    PROVE  x \in Seq(S) /\ y \in Seq(S) /\ Len(y) = Len(c) - n /\ x \o y = c
<1>1. n \in Nat /\ Len(c) \in Nat /\ \A i \in 1..Len(c) : c[i] \in S BY ElementOfSeq
<1>2. x \in Seq(S) BY <1>1, SubSeqProperties
<1>3. y \in Seq(S) BY <1>1, SubSeqProperties
<1>4. Len(y) = Len(c) - n BY <1>1
<1>5. x \o y = SubSeq(c, 1, Len(c)) BY <1>1, ConcatAdjacentSubSeq
<1>6. x \o y = c BY <1>5, SubSeqFull
<1> QED BY <1>2, <1>3, <1>4, <1>6

LEMMA Regroup ==
    ASSUME NEW S, NEW a, a \in Seq(S), NEW b, b \in Seq(S), NEW c, c \in Seq(S)
    PROVE  (a \o b) \o c = a \o (b \o c)
OBVIOUS

(* Numbers have a least one, the value of Min. *)
LEMMA LeastOf ==
    ASSUME NEW S \in SUBSET Nat, S # {}
    PROVE  \E x \in S : \A y \in S : x <= y
<1>1. PICK x \in S : \A y \in S : <<y, x>> \notin OpToRel(<, Nat)
  BY NatLessThanWellFounded, WFMin
<1>2. \A y \in S : ~(y < x) BY <1>1 DEF OpToRel
<1>3. \A y \in S : x <= y BY <1>2
<1> QED BY <1>3

-----------------------------------------------------------------------------
(* Login: the codes accepted of the secret in force are not after the last *)
(* counter; a copy that is not outdated is the user as he is, or a secret  *)
(* that no confirmation has stored; and only stored secrets have accepted  *)
(* codes.                                                                  *)
Working(w) == w.pc \in {"compare", "store"}

CopyOK(w) == Working(w) =>
    /\ w.copy.secret \in spent \cup {NoSecret}
    /\ IF w.by = "confirm"
         THEN w.copy.secret \in Secrets /\ (w.fresh => w.copy.secret \notin tried)
         ELSE w.copy.secret \in tried \cup {NoSecret} /\ (w.fresh => w.copy = user)
    /\ w.pc = "store" => w.code \in Login!Counters /\ w.code > w.copy.last

CopiesOK == \A t \in Handlers : CopyOK(h[t])

SecretsOK ==
    /\ {user.secret, saved.secret} \subseteq tried \cup {NoSecret}
    /\ \A k \in DOMAIN enrol : enrol[k].secret \in spent

Behind ==
    /\ \A c \in accepted : c[1] \in tried \cup {NoSecret}
    /\ user.secret # NoSecret => \A c \in accepted : c[1] = user.secret => c[2] <= user.last

LoginInv == Login!TypeOK /\ CopiesOK /\ SecretsOK /\ Behind

LEMMA LoginFacts ==
    ASSUME Login!TypeOK
    PROVE  /\ clock + PendingTTL \in Login!Times /\ clock + EnrolTTL \in Login!Times
           /\ user \in Login!Factors /\ saved \in Login!Factors /\ Login!NoFactor \in Login!Factors
           /\ \A f \in Login!Factors : f.secret \in Secrets \cup {NoSecret} /\ f.last \in Nat
           /\ \A last \in Login!Counters \cup {0} : \A c \in Login!Right(last) :
                 c \in Login!Counters /\ c > last
           /\ \A c \in Login!Codes : c[2] \in Nat
<1>1. clock \in FirstTime..LastTime BY DEF Login!TypeOK
<1>2. clock + PendingTTL \in Login!Times /\ clock + EnrolTTL \in Login!Times
  BY <1>1, LoginAssumption DEF Login!Times
<1>3. ASSUME NEW last \in Login!Counters \cup {0}, NEW c \in Login!Right(last)
      PROVE  c \in Login!Counters /\ c > last
  <2>1. c \in {clock - 1, clock, clock + 1} /\ c > last BY <1>3 DEF Login!Right
  <2> QED BY <1>1, <2>1, LoginAssumption DEF Login!Counters
<1>4. Login!NoFactor \in Login!Factors /\ \A f \in Login!Factors : f.secret \in Secrets \cup {NoSecret} /\ f.last \in Nat
  BY DEF Login!NoFactor, Login!Factors, Login!Counters
<1>5. \A c \in Login!Codes : c[2] \in Nat BY DEF Login!Codes, Login!Counters
<1> QED BY <1>2, <1>3, <1>4, <1>5 DEF Login!TypeOK

LEMMA LoginInit == Login!Init => LoginInv
<1> SUFFICES ASSUME Login!Init PROVE LoginInv OBVIOUS
<1> USE DEF Login!Init
<1>1. DOMAIN pending = {} /\ DOMAIN enrol = {} OBVIOUS
<1>2. user \in Login!Factors BY DEF Login!Factors
<1>3. Login!TypeOK
  BY <1>1, <1>2, LoginAssumption DEF Login!TypeOK
<1>4. CopiesOK BY DEF CopiesOK, CopyOK, Working, Login!Idle
<1>5. SecretsOK /\ Behind BY <1>1 DEF SecretsOK, Behind
<1> QED BY <1>3, <1>4, <1>5 DEF LoginInv

-----------------------------------------------------------------------------
(* Steps that leave the user, the stored secrets and the codes alone       *)
LEMMA LoginQuiet ==
    ASSUME LoginInv, Login!TypeOK', UNCHANGED <<user, tried, accepted>>,
           saved' \in {saved, user}, spent \subseteq spent',
           \A k \in DOMAIN enrol' :
              (k \in DOMAIN enrol /\ enrol'[k] = enrol[k]) \/ enrol'[k].secret \in spent',
           \A t \in Handlers : h'[t] = h[t] \/ CopyOK(h'[t])
    PROVE  LoginInv'
<1>1. CopiesOK'
  <2> SUFFICES ASSUME NEW t \in Handlers PROVE CopyOK(h[t])'
    BY DEF CopiesOK
  <2>1. CopyOK(h'[t]) BY DEF LoginInv, CopiesOK
  <2> QED BY <2>1 DEF CopyOK, Working
<1>2. SecretsOK' BY DEF LoginInv, SecretsOK
<1>3. Behind' BY DEF LoginInv, Behind
<1> QED BY <1>1, <1>2, <1>3 DEF LoginInv

LEMMA BeginsFacts ==
    ASSUME LoginInv, NEW t \in Handlers, NEW by \in {"login", "confirm", "disable"},
           NEW on \in Tokens \cup Sessions, NEW copy \in Login!Factors, NEW fresh \in BOOLEAN,
           Login!Begins(t, by, on, copy, fresh),
           copy.secret \in spent \cup {NoSecret},
           IF by = "confirm" THEN copy.secret \in Secrets /\ (fresh => copy.secret \notin tried)
             ELSE copy.secret \in tried \cup {NoSecret} /\ (fresh => copy = user)
    PROVE  /\ h' \in [Handlers -> Login!Work \cup {Login!Idle}]
           /\ arrivals' \in 0..MaxArrivals
           /\ \A u \in Handlers : h'[u] = h[u] \/ CopyOK(h'[u])
<1> DEFINE w == [pc |-> "compare", by |-> by, on |-> on, copy |-> copy, code |-> 0, fresh |-> fresh]
<1>1. w \in Login!Work BY DEF Login!Work
<1>2. CopyOK(w) BY DEF CopyOK, Working
<1>3. h' = [h EXCEPT ![t] = w] BY DEF Login!Begins, Login!Becomes
<1>4. arrivals' \in 0..MaxArrivals
  BY LoginAssumption DEF Login!Begins, LoginInv, Login!TypeOK
<1> HIDE DEF w
<1>5. h \in [Handlers -> Login!Work \cup {Login!Idle}] BY DEF LoginInv, Login!TypeOK
<1> QED BY <1>1, <1>2, <1>3, <1>4, <1>5

LEMMA LoginGuess == ASSUME LoginInv, NEW t \in Handlers, NEW p \in Tokens, Login!Guess(t, p)
                    PROVE  LoginInv'
<1>1. user \in Login!Factors /\ user.secret \in spent \cup {NoSecret}
      /\ user.secret \in tried \cup {NoSecret}
  BY LoginFacts DEF LoginInv, Login!TypeOK, SecretsOK
<1>2. Login!Begins(t, "login", p, user, TRUE) BY DEF Login!Guess
<1>3. /\ h' \in [Handlers -> Login!Work \cup {Login!Idle}] /\ arrivals' \in 0..MaxArrivals
      /\ \A u \in Handlers : h'[u] = h[u] \/ CopyOK(h'[u])
  BY <1>1, <1>2, BeginsFacts
<1>4. UNCHANGED <<clock, user, saved, pending, enrol, spent, tried, accepted>>
  BY DEF Login!Guess, Login!userVars, Login!history
<1>5. Login!TypeOK' BY <1>3, <1>4 DEF LoginInv, Login!TypeOK
<1> QED BY <1>3, <1>4, <1>5, LoginQuiet

LEMMA LoginDisable == ASSUME LoginInv, NEW t \in Handlers, NEW k \in Sessions, Login!BeginDisable(t, k)
                      PROVE  LoginInv'
<1>1. user \in Login!Factors /\ user.secret \in spent \cup {NoSecret}
      /\ user.secret \in tried \cup {NoSecret}
  BY LoginFacts DEF LoginInv, Login!TypeOK, SecretsOK
<1>2. Login!Begins(t, "disable", k, user, TRUE) BY DEF Login!BeginDisable
<1>3. /\ h' \in [Handlers -> Login!Work \cup {Login!Idle}] /\ arrivals' \in 0..MaxArrivals
      /\ \A u \in Handlers : h'[u] = h[u] \/ CopyOK(h'[u])
  BY <1>1, <1>2, BeginsFacts
<1>4. UNCHANGED <<clock, user, saved, pending, enrol, spent, tried, accepted>>
  BY DEF Login!BeginDisable, Login!userVars, Login!history
<1>5. Login!TypeOK' BY <1>3, <1>4 DEF LoginInv, Login!TypeOK
<1> QED BY <1>3, <1>4, <1>5, LoginQuiet

LEMMA LoginLoad == ASSUME LoginInv, NEW t \in Handlers, NEW k \in Sessions, Login!Load(t, k)
                   PROVE  LoginInv'
<1>0. k \in DOMAIN enrol /\ UNCHANGED <<clock, user, saved, pending, spent, tried, accepted>>
  BY DEF Login!Load, Login!userVars, Login!history
<1>1. CASE Login!Past(enrol[k].expires)
  <2>1. enrol' = Login!Without(enrol, {k}) /\ UNCHANGED <<h, arrivals>>
    BY <1>1 DEF Login!Load
  <2>2. enrol' = [j \in DOMAIN enrol \ {k} |-> enrol[j]]
    BY <2>1 DEF Login!Without
  <2>3. /\ DOMAIN enrol' = DOMAIN enrol \ {k}
        /\ \A x \in DOMAIN enrol' : enrol'[x] = enrol[x]
        /\ enrol' \in [DOMAIN enrol' -> [secret : Secrets, expires : Login!Times]]
    BY <2>2 DEF LoginInv, Login!TypeOK
  <2>4. Login!TypeOK' BY <1>0, <2>1, <2>2, <2>3 DEF LoginInv, Login!TypeOK
  <2> QED BY <1>0, <2>1, <2>3, <2>4, LoginQuiet
<1>2. CASE ~Login!Past(enrol[k].expires)
  <2> DEFINE copy == [secret |-> enrol[k].secret, last |-> 0]
             fresh == enrol[k].secret \notin tried
  <2>1. UNCHANGED enrol /\ Login!Begins(t, "confirm", k, copy, fresh)
    BY <1>2 DEF Login!Load
  <2>2. enrol[k].secret \in Secrets /\ enrol[k].secret \in spent
    BY <1>0 DEF LoginInv, Login!TypeOK, SecretsOK
  <2>3. copy \in Login!Factors /\ copy.secret = enrol[k].secret /\ fresh \in BOOLEAN
    BY <2>2 DEF Login!Factors
  <2>30. fresh => copy.secret \notin tried
    BY <2>3
  <2> HIDE DEF copy, fresh
  <2>4. /\ h' \in [Handlers -> Login!Work \cup {Login!Idle}] /\ arrivals' \in 0..MaxArrivals
        /\ \A u \in Handlers : h'[u] = h[u] \/ CopyOK(h'[u])
    BY <2>1, <2>2, <2>3, <2>30, BeginsFacts
  <2>5. Login!TypeOK' BY <1>0, <2>1, <2>4 DEF LoginInv, Login!TypeOK
  <2> QED BY <1>0, <2>1, <2>4, <2>5, LoginQuiet
<1> QED BY <1>1, <1>2

LEMMA LoginCompare == ASSUME LoginInv, NEW t \in Handlers, Login!Compare(t) PROVE LoginInv'
<1>0. UNCHANGED <<clock, user, saved, pending, enrol, spent, arrivals, tried, accepted>>
  BY DEF Login!Compare, Login!userVars, Login!history
<1>1. h[t] \in Login!Work /\ h[t].pc = "compare" /\ CopyOK(h[t])
  <2>1. h[t].pc = "compare" /\ h[t] \in Login!Work \cup {Login!Idle} /\ CopyOK(h[t])
    BY DEF Login!Compare, Login!At, LoginInv, Login!TypeOK, CopiesOK
  <2>2. h[t] # Login!Idle BY <2>1 DEF Login!Idle
  <2> QED BY <2>1, <2>2
<1>2. h \in [Handlers -> Login!Work \cup {Login!Idle}] BY DEF LoginInv, Login!TypeOK
<1>3. CASE Login!Becomes(t, Login!Idle)
  <2>1. h' = [h EXCEPT ![t] = Login!Idle] BY <1>3 DEF Login!Becomes
  <2>2. \A u \in Handlers : h'[u] = h[u] \/ CopyOK(h'[u])
    BY <1>2, <2>1 DEF CopyOK, Working, Login!Idle
  <2>3. Login!TypeOK' BY <1>0, <1>2, <2>1 DEF LoginInv, Login!TypeOK
  <2> QED BY <1>0, <2>2, <2>3, LoginQuiet
<1>4. ASSUME NEW c \in Login!Right(h[t].copy.last),
             Login!Becomes(t, [h[t] EXCEPT !.pc = "store", !.code = c])
      PROVE  LoginInv'
  <2> DEFINE w == [h[t] EXCEPT !.pc = "store", !.code = c]
  <2>1. h[t].copy.last \in Login!Counters \cup {0}
    BY <1>1 DEF Login!Work, Login!Factors
  <2>2. c \in Login!Counters /\ c > h[t].copy.last
    BY <2>1, LoginFacts DEF LoginInv
  <2>3. w \in Login!Work /\ w.pc = "store" /\ w.code = c /\ w.copy = h[t].copy
        /\ w.by = h[t].by /\ w.fresh = h[t].fresh
    BY <1>1, <2>2 DEF Login!Work
  <2>4. h' = [h EXCEPT ![t] = w] BY <1>4 DEF Login!Becomes
  <2> HIDE DEF w
  <2>5. CopyOK(w) BY <1>1, <2>2, <2>3 DEF CopyOK, Working
  <2>6. \A u \in Handlers : h'[u] = h[u] \/ CopyOK(h'[u]) BY <1>2, <2>4, <2>5
  <2>7. Login!TypeOK' BY <1>0, <1>2, <2>3, <2>4 DEF LoginInv, Login!TypeOK
  <2> QED BY <1>0, <2>6, <2>7, LoginQuiet
<1> QED BY <1>3, <1>4 DEF Login!Compare

LEMMA LoginDrop == ASSUME LoginInv, NEW t \in Handlers, Login!Drop(t) PROVE LoginInv'
<1>0. /\ UNCHANGED <<clock, user, saved, spent, arrivals, tried, accepted>>
      /\ h' = [h EXCEPT ![t] = Login!Idle]
      /\ pending' = [x \in DOMAIN pending \ {h[t].on} |-> pending[x]]
      /\ enrol' = [x \in DOMAIN enrol \ {h[t].on} |-> enrol[x]]
  BY DEF Login!Drop, Login!userVars, Login!history, Login!Becomes, Login!Without
<1>1. /\ DOMAIN pending' \subseteq DOMAIN pending
      /\ \A x \in DOMAIN pending' : pending'[x] = pending[x]
      /\ pending' \in [DOMAIN pending' -> Login!Times]
  BY <1>0 DEF LoginInv, Login!TypeOK
<1>2. /\ DOMAIN enrol' \subseteq DOMAIN enrol
      /\ \A x \in DOMAIN enrol' : enrol'[x] = enrol[x]
      /\ enrol' \in [DOMAIN enrol' -> [secret : Secrets, expires : Login!Times]]
  BY <1>0 DEF LoginInv, Login!TypeOK
<1>3. \A u \in Handlers : h'[u] = h[u] \/ CopyOK(h'[u])
  BY <1>0 DEF CopyOK, Working, Login!Idle, LoginInv, Login!TypeOK
<1>4. Login!TypeOK' BY <1>0, <1>1, <1>2 DEF LoginInv, Login!TypeOK
<1> QED BY <1>0, <1>2, <1>3, <1>4, LoginQuiet

LEMMA LoginBegin ==
    ASSUME LoginInv, NEW k \in Sessions, NEW s \in Secrets, Login!Begin(k, s)
    PROVE  LoginInv'
<1> DEFINE old == Login!Without(enrol, {j \in DOMAIN enrol : Login!Past(enrol[j].expires)})
           e == [secret |-> s, expires |-> clock + EnrolTTL]
<1>0. /\ UNCHANGED <<clock, user, saved, pending, h, arrivals, tried, accepted>>
      /\ spent' = spent \cup {s} /\ enrol' = Login!With(old, k, e)
  BY DEF Login!Begin, Login!userVars, Login!history
<1>1. DOMAIN old \subseteq DOMAIN enrol /\ \A j \in DOMAIN old : old[j] = enrol[j]
  BY DEF Login!Without
<1>2. e \in [secret : Secrets, expires : Login!Times] /\ e.secret = s
  BY LoginFacts DEF LoginInv
<1> HIDE DEF old, e
<1>3. enrol' = [y \in DOMAIN old \cup {k} |-> IF y = k THEN e ELSE old[y]]
  BY <1>0 DEF Login!With
<1>4. \A j \in DOMAIN old : old[j] \in [secret : Secrets, expires : Login!Times]
  BY <1>1 DEF LoginInv, Login!TypeOK
<1>5. /\ DOMAIN enrol' = DOMAIN old \cup {k} /\ DOMAIN enrol' \subseteq Sessions
      /\ enrol' \in [DOMAIN enrol' -> [secret : Secrets, expires : Login!Times]]
  BY <1>1, <1>2, <1>3, <1>4 DEF LoginInv, Login!TypeOK
<1>6. \A j \in DOMAIN enrol' :
         (j \in DOMAIN enrol /\ enrol'[j] = enrol[j]) \/ enrol'[j].secret \in spent'
  BY <1>0, <1>1, <1>2, <1>3, <1>5
<1>7. Login!TypeOK' BY <1>0, <1>5 DEF LoginInv, Login!TypeOK
<1> QED BY <1>0, <1>6, <1>7, LoginQuiet

LEMMA LoginPassword ==
    ASSUME LoginInv, NEW p \in Tokens, Login!Password(p) PROVE LoginInv'
<1> DEFINE all == Login!With(pending, p, clock + PendingTTL)
<1>0. /\ UNCHANGED <<clock, user, saved, enrol, h, arrivals, tried, accepted>>
      /\ spent' = spent \cup {p}
      /\ pending' = Login!Without(all, {q \in DOMAIN all : Login!Past(all[q])})
  BY DEF Login!Password, Login!userVars, Login!history
<1>1. all = [y \in DOMAIN pending \cup {p} |-> IF y = p THEN clock + PendingTTL ELSE pending[y]]
  BY DEF Login!With
<1>2. DOMAIN all = DOMAIN pending \cup {p} /\ \A y \in DOMAIN all : all[y] \in Login!Times
  BY <1>1, LoginFacts DEF LoginInv, Login!TypeOK
<1> HIDE DEF all
<1>3. DOMAIN pending' \subseteq DOMAIN all /\ pending' \in [DOMAIN pending' -> Login!Times]
  BY <1>0, <1>2 DEF Login!Without
<1>4. Login!TypeOK' BY <1>0, <1>2, <1>3 DEF LoginInv, Login!TypeOK
<1> QED BY <1>0, <1>4, LoginQuiet

LEMMA LoginRests == ASSUME LoginInv, Login!Save \/ Login!Tick \/ UNCHANGED loginVars PROVE LoginInv'
<1>0. UNCHANGED <<user, enrol, h, tried, accepted, spent, pending, arrivals>> /\ saved' \in {saved, user}
      /\ clock' \in FirstTime..LastTime
  BY LoginAssumption DEF Login!Save, Login!Tick, loginVars, Login!userVars, Login!history, LoginInv, Login!TypeOK
<1>1. Login!TypeOK' BY <1>0 DEF LoginInv, Login!TypeOK
<1> QED BY <1>0, <1>1, LoginQuiet

-----------------------------------------------------------------------------
(* Steps that store                                                        *)
LEMMA OutdatedFacts ==
    ASSUME LoginInv, NEW t \in Handlers, NEW work \in Login!Work \cup {Login!Idle},
           ~Working(work), h' = Login!Outdated(t, work), spent' = spent, tried \subseteq tried'
    PROVE  h' \in [Handlers -> Login!Work \cup {Login!Idle}] /\ CopiesOK'
<1>1. ASSUME NEW u \in Handlers
      PROVE  h'[u] \in Login!Work \cup {Login!Idle} /\ CopyOK(h[u])'
  <2>1. h[u] \in Login!Work \cup {Login!Idle} /\ CopyOK(h[u])
    BY DEF LoginInv, Login!TypeOK, CopiesOK
  <2>2. CASE u = t
    <3>1. h'[u] = work BY <2>2 DEF Login!Outdated
    <3> QED BY <3>1 DEF CopyOK, Working
  <2>3. CASE u # t /\ Working(h[u])
    <3>1. h[u] \in Login!Work BY <2>1, <2>3 DEF Working, Login!Idle
    <3>2. h'[u] = [h[u] EXCEPT !.fresh = FALSE] BY <2>3 DEF Login!Outdated, Working
    <3>3. /\ h'[u] \in Login!Work /\ h'[u].pc = h[u].pc /\ h'[u].copy = h[u].copy
          /\ h'[u].by = h[u].by /\ h'[u].code = h[u].code /\ h'[u].fresh = FALSE
      BY <3>1, <3>2 DEF Login!Work
    <3> QED BY <2>1, <2>3, <3>3 DEF CopyOK, Working
  <2>4. CASE u # t /\ ~Working(h[u])
    <3>1. h'[u] = h[u] BY <2>4 DEF Login!Outdated, Working
    <3> QED BY <2>1, <2>4, <3>1 DEF CopyOK, Working
  <2> QED BY <2>2, <2>3, <2>4
<1>2. h' = [u \in Handlers |-> h'[u]] BY DEF Login!Outdated
<1> QED BY <1>1, <1>2 DEF CopiesOK

(* A handler that is about to store, and what its answer does to the user  *)
LEMMA AnswerFacts ==
    ASSUME LoginInv, NEW t \in Handlers, Login!Answers(t)
    PROVE  LET w == h[t] IN
           /\ w \in Login!Work /\ w.pc = "store" /\ CopyOK(w) /\ Working(w)
           /\ w.by \in {"login", "confirm", "disable"} /\ w.fresh \in BOOLEAN
           /\ w.code \in Login!Counters /\ w.code \in Nat /\ w.code > w.copy.last
           /\ w.copy \in Login!Factors
           /\ user' \in Login!Factors
           /\ user'.secret \in spent \cup {NoSecret}
           /\ user'.secret \in tried' \cup {NoSecret}
           /\ w.by = "login" => user'.secret = user.secret /\ user'.last = w.code
           /\ w.by = "confirm" => user'.secret = w.copy.secret /\ user'.last = w.code
           /\ w.by = "disable" => user'.secret = NoSecret
           /\ tried \subseteq tried' /\ tried' \subseteq spent
           /\ w.by = "confirm" => w.copy.secret \in tried'
           /\ UNCHANGED <<clock, pending, enrol, spent, arrivals>>
<1>1. h[t] \in Login!Work /\ h[t].pc = "store" /\ CopyOK(h[t]) /\ Working(h[t])
  BY DEF Login!Answers, Login!At, Login!Idle, LoginInv, Login!TypeOK, CopiesOK, Working
<1>2. /\ h[t].by \in {"login", "confirm", "disable"} /\ h[t].fresh \in BOOLEAN
      /\ h[t].code \in Login!Counters /\ h[t].code \in Nat /\ h[t].code > h[t].copy.last
      /\ h[t].copy \in Login!Factors
      /\ h[t].by = "confirm" => h[t].copy.secret \in Secrets /\ h[t].copy.secret \in spent
  BY <1>1, LoginAssumption DEF Login!Work, CopyOK, Working, Login!Counters
<1>3. /\ user' = Login!Outcome(h[t]) /\ UNCHANGED <<clock, pending, enrol, spent, arrivals>>
      /\ tried' = tried \cup (IF h[t].by = "confirm" THEN {h[t].copy.secret} ELSE {})
  BY DEF Login!Answers
<1>4. tried \subseteq tried' /\ tried' \subseteq spent /\ (h[t].by = "confirm" => h[t].copy.secret \in tried')
  BY <1>2, <1>3 DEF LoginInv, Login!TypeOK
<1>5. user \in Login!Factors /\ user.secret \in spent \cup {NoSecret} /\ user.secret \in tried \cup {NoSecret}
  BY DEF LoginInv, Login!TypeOK, SecretsOK
<1>6. CASE h[t].by = "login"
  <2>1. user' = [user EXCEPT !.last = h[t].code] BY <1>3, <1>6 DEF Login!Outcome
  <2>2. user' \in Login!Factors /\ user'.secret = user.secret /\ user'.last = h[t].code
    BY <1>2, <1>5, <2>1 DEF Login!Factors
  <2> QED BY <1>1, <1>2, <1>3, <1>4, <1>5, <1>6, <2>2
<1>7. CASE h[t].by = "confirm"
  <2>1. user' = [secret |-> h[t].copy.secret, last |-> h[t].code] BY <1>3, <1>7 DEF Login!Outcome
  <2>2. user' \in Login!Factors /\ user'.secret = h[t].copy.secret /\ user'.last = h[t].code
    BY <1>2, <1>7, <2>1 DEF Login!Factors
  <2> QED BY <1>1, <1>2, <1>3, <1>4, <1>7, <2>2
<1>8. CASE h[t].by = "disable"
  <2>1. user' = Login!NoFactor BY <1>3, <1>8 DEF Login!Outcome
  <2>2. user' \in Login!Factors /\ user'.secret = NoSecret
    BY <2>1 DEF Login!Factors, Login!NoFactor
  <2> QED BY <1>1, <1>2, <1>3, <1>4, <1>8, <2>2
<1> QED BY <1>2, <1>6, <1>7, <1>8

(* The counter after a step that stores is not before an accepted code.    *)
LEMMA StaysBehind ==
    ASSUME LoginInv, NEW t \in Handlers, Login!Answers(t),
           NEW A \in SUBSET Login!Codes, A \subseteq accepted \cup {Login!Code(t)},
           accepted' = A \ Login!Lost(t)
    PROVE  Behind' /\ accepted' \subseteq Login!Codes
<1> DEFINE w == h[t]
<1>1. /\ w \in Login!Work /\ CopyOK(w) /\ Working(w)
      /\ w.by \in {"login", "confirm", "disable"} /\ w.fresh \in BOOLEAN
      /\ w.code \in Nat /\ w.code > w.copy.last
      /\ user' \in Login!Factors
      /\ w.by = "login" => user'.secret = user.secret /\ user'.last = w.code
      /\ w.by = "confirm" => user'.secret = w.copy.secret /\ user'.last = w.code
      /\ w.by = "disable" => user'.secret = NoSecret
      /\ tried \subseteq tried' /\ (w.by = "confirm" => w.copy.secret \in tried')
  BY AnswerFacts
<1>2. Login!Code(t)[1] = w.copy.secret /\ Login!Code(t)[2] = w.code BY DEF Login!Code
<1>3. /\ user.last \in Nat /\ user'.last \in Nat /\ \A c \in accepted : c[2] \in Nat
      /\ \A c \in A : c[2] \in Nat
  BY <1>1, LoginFacts DEF LoginInv, Login!TypeOK
<1> HIDE DEF w
<1>4. \A c \in accepted : c[1] \in tried \cup {NoSecret}
  BY DEF LoginInv, Behind
<1>5. \A c \in accepted' : c[1] \in tried' \cup {NoSecret}
  <2>1. w.copy.secret \in tried' \cup {NoSecret}
    BY <1>1 DEF CopyOK
  <2> QED BY <1>1, <1>2, <1>4, <2>1
<1>6. ASSUME user'.secret # NoSecret, NEW c \in accepted', c[1] = user'.secret
      PROVE  c[2] <= user'.last
  <2>1. CASE ~w.fresh
    <3>1. c \notin Login!Beyond(user') BY <2>1 DEF Login!Lost, w
    <3>2. c \in Login!Codes OBVIOUS
    <3>3. ~(c[2] > user'.last) BY <1>6, <3>1, <3>2 DEF Login!Beyond
    <3> QED BY <1>3, <3>3
  <2>2. CASE w.fresh /\ w.by = "login"
    <3>1. w.copy = user /\ w.code > user.last /\ user.secret # NoSecret
      BY <1>1, <1>6, <2>2 DEF CopyOK
    <3>2. CASE c = Login!Code(t) BY <1>1, <1>2, <2>2, <3>2
    <3>3. CASE c \in accepted
      <4>1. c[2] <= user.last BY <1>1, <1>6, <2>2, <3>1, <3>3 DEF LoginInv, Behind
      <4> QED BY <1>1, <1>3, <2>2, <3>1, <3>3, <4>1
    <3> QED BY <3>2, <3>3
  <2>3. CASE w.fresh /\ w.by = "confirm"
    <3>1. w.copy.secret \notin tried BY <1>1, <2>3 DEF CopyOK
    <3>2. c \notin accepted BY <1>1, <1>4, <1>6, <2>3, <3>1
    <3>3. c = Login!Code(t) BY <3>2
    <3> QED BY <1>1, <1>2, <2>3, <3>3
  <2> QED BY <1>1, <1>6, <2>1, <2>2, <2>3
<1> QED BY <1>5, <1>6 DEF Behind

LEMMA LoginStores ==
    ASSUME LoginInv, NEW t \in Handlers, Login!Store(t) \/ Login!StoreFails(t)
    PROVE  LoginInv'
<1>0. Login!Answers(t) BY DEF Login!Store, Login!StoreFails
<1>1. /\ h[t] \in Login!Work /\ user' \in Login!Factors
      /\ user'.secret \in spent \cup {NoSecret} /\ user'.secret \in tried' \cup {NoSecret}
      /\ h[t].code \in Login!Counters /\ h[t].copy \in Login!Factors
      /\ tried \subseteq tried' /\ tried' \subseteq spent
      /\ UNCHANGED <<clock, pending, enrol, spent, arrivals>>
  BY <1>0, AnswerFacts
<1>2. saved' \in {saved, user'}
  BY DEF Login!Store, Login!StoreFails
<1>3. PICK work \in Login!Work \cup {Login!Idle} :
         ~Working(work) /\ h' = Login!Outdated(t, work)
  <2>1. Login!Idle \in Login!Work \cup {Login!Idle} /\ ~Working(Login!Idle)
    BY DEF Working, Login!Idle
  <2>2. Login!Finished(h[t]) \in Login!Work /\ ~Working(Login!Finished(h[t]))
    BY <1>1, LoginFacts DEF LoginInv, Login!Finished, Login!Work, Working
  <2>3. h' = Login!Outdated(t, Login!Idle) \/ h' = Login!Outdated(t, Login!Finished(h[t]))
    BY DEF Login!Store, Login!StoreFails
  <2> QED BY <2>1, <2>2, <2>3
<1>4. h' \in [Handlers -> Login!Work \cup {Login!Idle}] /\ CopiesOK'
  BY <1>1, <1>3, OutdatedFacts
<1>5. Behind' /\ accepted' \subseteq Login!Codes
  <2>1. Login!Code(t) \in Login!Codes
    BY <1>1 DEF Login!Code, Login!Codes, Login!Factors
  <2>2. accepted \subseteq Login!Codes BY DEF LoginInv, Login!TypeOK
  <2>3. CASE Login!Store(t)
    <3>1. accepted' = (accepted \cup {Login!Code(t)}) \ Login!Lost(t) BY <2>3 DEF Login!Store
    <3> QED BY <1>0, <2>1, <2>2, <3>1, StaysBehind
  <2>4. CASE Login!StoreFails(t)
    <3>1. accepted' = accepted \ Login!Lost(t) BY <2>4 DEF Login!StoreFails
    <3> QED BY <1>0, <2>1, <2>2, <3>1, StaysBehind
  <2> QED BY <2>3, <2>4
<1>6. saved' \in Login!Factors /\ saved'.secret \in spent \cup {NoSecret}
      /\ saved'.secret \in tried' \cup {NoSecret}
  BY <1>1, <1>2 DEF LoginInv, Login!TypeOK, SecretsOK
<1>7. Login!TypeOK' BY <1>1, <1>4, <1>5, <1>6 DEF LoginInv, Login!TypeOK
<1>8. SecretsOK' BY <1>1, <1>6 DEF LoginInv, SecretsOK
<1> QED BY <1>4, <1>5, <1>7, <1>8 DEF LoginInv

LEMMA LoginReset == ASSUME LoginInv, Login!Reset PROVE LoginInv'
<1>0. /\ user' = Login!NoFactor /\ saved' \in {user', saved}
      /\ h' = [u \in Handlers |-> IF Working(h[u]) THEN [h[u] EXCEPT !.fresh = FALSE] ELSE h[u]]
      /\ UNCHANGED <<clock, pending, enrol, spent, tried, accepted>>
      /\ arrivals' \in 0..MaxArrivals
  BY LoginAssumption DEF Login!Reset, Login!history, Working, LoginInv, Login!TypeOK
<1>1. user'.secret = NoSecret /\ user' \in Login!Factors
  BY <1>0, LoginFacts DEF LoginInv, Login!NoFactor
<1>2. ASSUME NEW u \in Handlers
      PROVE  h'[u] \in Login!Work \cup {Login!Idle} /\ CopyOK(h[u])'
  <2>1. h[u] \in Login!Work \cup {Login!Idle} /\ CopyOK(h[u])
    BY DEF LoginInv, Login!TypeOK, CopiesOK
  <2>2. CASE Working(h[u])
    <3>1. h[u] \in Login!Work BY <2>1, <2>2 DEF Working, Login!Idle
    <3>2. /\ h'[u] \in Login!Work /\ h'[u].pc = h[u].pc /\ h'[u].copy = h[u].copy
          /\ h'[u].by = h[u].by /\ h'[u].code = h[u].code /\ h'[u].fresh = FALSE
      BY <1>0, <2>2, <3>1 DEF Login!Work
    <3> QED BY <1>0, <2>1, <2>2, <3>2 DEF CopyOK, Working
  <2>3. CASE ~Working(h[u])
    <3>1. h'[u] = h[u] BY <1>0, <2>3
    <3> QED BY <2>1, <2>3, <3>1 DEF CopyOK, Working
  <2> QED BY <2>2, <2>3
<1>3. CopiesOK' BY <1>2 DEF CopiesOK
<1>4. h' \in [Handlers -> Login!Work \cup {Login!Idle}] BY <1>0, <1>2
<1>5. Login!TypeOK' BY <1>0, <1>1, <1>4 DEF LoginInv, Login!TypeOK
<1>6. SecretsOK' /\ Behind' BY <1>0, <1>1 DEF LoginInv, SecretsOK, Behind
<1> QED BY <1>3, <1>5, <1>6 DEF LoginInv

LEMMA LoginRestart == ASSUME LoginInv, Login!Restart PROVE LoginInv'
<1>0. /\ user' = saved /\ pending' = << >> /\ enrol' = << >>
      /\ h' = [t \in Handlers |-> Login!Idle]
      /\ accepted' = IF saved = user THEN accepted ELSE accepted \ Login!Beyond(saved)
      /\ UNCHANGED <<clock, saved, spent, arrivals, tried>>
  BY DEF Login!Restart
<1>1. DOMAIN pending' = {} /\ DOMAIN enrol' = {} BY <1>0
<1>2. CopiesOK' BY <1>0 DEF CopiesOK, CopyOK, Working, Login!Idle
<1>3. Login!TypeOK' BY <1>0, <1>1 DEF LoginInv, Login!TypeOK
<1>4. SecretsOK' BY <1>0, <1>1 DEF LoginInv, SecretsOK
<1>5. Behind'
  <2>1. CASE saved = user BY <1>0, <2>1 DEF LoginInv, Behind
  <2>2. CASE saved # user
    <3>1. accepted' = accepted \ Login!Beyond(saved) BY <1>0, <2>2
    <3>2. ASSUME NEW c \in accepted', c[1] = saved.secret PROVE c[2] <= saved.last
      <4>1. c \in Login!Codes /\ ~(c[2] > saved.last)
        BY <3>1, <3>2 DEF Login!Beyond, LoginInv, Login!TypeOK
      <4>2. c[2] \in Nat /\ saved.last \in Nat
        BY <4>1, LoginFacts DEF LoginInv
      <4> QED BY <4>1, <4>2
    <3> QED BY <1>0, <3>1, <3>2 DEF LoginInv, Behind
  <2> QED BY <2>1, <2>2
<1> QED BY <1>2, <1>3, <1>4, <1>5 DEF LoginInv

LEMMA LoginStep == LoginInv /\ [Login!Next]_loginVars => LoginInv'
<1> SUFFICES ASSUME LoginInv, [Login!Next]_loginVars PROVE LoginInv' OBVIOUS
<1>1. ASSUME NEW t \in Handlers, Login!Compare(t) \/ Login!Store(t) \/ Login!StoreFails(t) \/ Login!Drop(t)
      PROVE  LoginInv'
  BY <1>1, LoginCompare, LoginStores, LoginDrop
<1>2. ASSUME NEW t \in Handlers, NEW p \in Tokens, Login!Guess(t, p) PROVE LoginInv'
  BY <1>2, LoginGuess
<1>3. ASSUME NEW t \in Handlers, NEW k \in Sessions, Login!Load(t, k) \/ Login!BeginDisable(t, k)
      PROVE  LoginInv'
  BY <1>3, LoginLoad, LoginDisable
<1>4. ASSUME NEW p \in Tokens, Login!Password(p) PROVE LoginInv' BY <1>4, LoginPassword
<1>5. ASSUME NEW k \in Sessions, NEW s \in Secrets, Login!Begin(k, s) PROVE LoginInv'
  BY <1>5, LoginBegin
<1>6. CASE Login!Reset \/ Login!Restart BY <1>6, LoginReset, LoginRestart
<1>7. CASE Login!Save \/ Login!Tick \/ UNCHANGED loginVars BY <1>7, LoginRests
<1> QED BY <1>1, <1>2, <1>3, <1>4, <1>5, <1>6, <1>7 DEF Login!Next

LEMMA LoginInvariance == Spec => []LoginInv
<1>1. Init => LoginInv BY LoginInit DEF Init
<1>2. LoginInv /\ [Next]_vars => LoginInv'
  <2> SUFFICES ASSUME LoginInv, [Next]_vars PROVE LoginInv' OBVIOUS
  <2>1. [Login!Next]_loginVars BY DEF Next, vars
  <2> QED BY <2>1, LoginStep
<1> QED BY <1>1, <1>2, PTL DEF Spec

(* A code that a handler with a fresh copy accepts was not accepted before *)
LEMMA FreshIsNew ==
    ASSUME LoginInv, NEW t \in Handlers, Login!Accepts(t), h[t].fresh
    PROVE  Login!Code(t) \notin accepted
<1>0. Login!Answers(t) /\ h[t].copy.secret # NoSecret BY DEF Login!Accepts, Login!Store
<1>1. /\ h[t] \in Login!Work /\ CopyOK(h[t]) /\ Working(h[t])
      /\ h[t].code \in Nat /\ h[t].code > h[t].copy.last
  BY <1>0, AnswerFacts
<1>2. Login!Code(t)[1] = h[t].copy.secret /\ Login!Code(t)[2] = h[t].code BY DEF Login!Code
<1>3. CASE h[t].by = "confirm"
  <2>1. h[t].copy.secret \notin tried BY <1>1, <1>3 DEF CopyOK
  <2> QED BY <1>0, <1>2, <2>1 DEF LoginInv, Behind
<1>4. CASE h[t].by # "confirm"
  <2>1. h[t].copy = user BY <1>1, <1>4 DEF CopyOK
  <2>2. user.last \in Nat BY LoginFacts DEF LoginInv
  <2>3. Login!Code(t) \in accepted => h[t].code <= user.last
    BY <1>0, <1>2, <2>1 DEF LoginInv, Behind
  <2> QED BY <1>1, <2>1, <2>2, <2>3
<1> QED BY <1>3, <1>4

(* A code that was accepted is not accepted again by a handler whose copy  *)
(* of the user, or of the enrolment, nobody has outdated, unless such a    *)
(* handler, or a restart that lost the counter, has taken the counter back *)
(* to before the code: also with logins and answers that could not be      *)
(* saved, resets, enrolments that are confirmed twice, and restarts        *)
(* (api_auth.go:160-211, totp.go:62-87).                                   *)
THEOREM CodesAcceptedOnce == Spec => CodesSpent
<1>1. LoginInv /\ [Next]_vars => [\A t \in Handlers :
         Login!Accepts(t) /\ h[t].fresh => Login!Code(t) \notin accepted]_loginVars
  BY FreshIsNew
<1>2. CodesSpent <=> [][\A t \in Handlers :
         Login!Accepts(t) /\ h[t].fresh => Login!Code(t) \notin accepted]_loginVars
  BY DEF CodesSpent, Login!CodesSpent, Login!vars, loginVars
<1> QED BY <1>1, <1>2, LoginInvariance, PTL DEF Spec

-----------------------------------------------------------------------------
(* RateLimiter: the hits since the window of a key opened are as many as   *)
(* its entry counts, and what is older, or lies outside of any window, is  *)
(* no more than one window's hits.                                         *)
Entries == [count : 1..MaxHits + 1, left : -1..Window]
Hits    == RateLimiter!Ages \X Nat

Recent(S, e) == {x \in S : x[1] <= Window - e.left}
Limited(c)   == IF c < MaxHits THEN c ELSE MaxHits
Windowed(S, e) ==
    /\ Cardinality(Recent(S, e)) = Limited(e.count)
    /\ Cardinality(S \ Recent(S, e)) <= MaxHits
Quiet(S) == Cardinality(S) <= MaxHits /\ \A x \in S : x[1] # 0

(* The next hit of this tick gets a number that is not taken. *)
Numbered(S) == IsFiniteSet(S) /\ \A x \in S : x[1] = 0 => x[2] <= Cardinality(S)

LimiterTypes ==
    /\ hits \in [DOMAIN hits -> Entries]
    /\ DOMAIN hits \subseteq Keys /\ IsFiniteSet(DOMAIN hits)
    /\ Cardinality(DOMAIN hits) <= MaxTracked
    /\ answer = RateLimiter!Nobody \/ answer \in [key : Keys, said : {"yes", "over", "full"}]
    /\ lately \in [Keys -> SUBSET Hits]
Sound(k) ==
    /\ Numbered(lately[k])
    /\ IF RateLimiter!Within(k) THEN Windowed(lately[k], hits[k]) ELSE Quiet(lately[k])
Saturated == answer.said = "over" => Cardinality(lately[answer.key]) >= MaxHits

LimiterInv == LimiterTypes /\ (\A k \in Keys : Sound(k)) /\ Saturated

LEMMA LimiterCounts == \A S : RateLimiter!Cardinality(S) = Cardinality(S)
BY DEF Cardinality, RateLimiter!Cardinality

-----------------------------------------------------------------------------
(* What a hit, and a tick, do to a set of hits *)
LEMMA FinitePart ==
    ASSUME NEW S, IsFiniteSet(S), NEW T \in SUBSET S
    PROVE  /\ IsFiniteSet(T) /\ Cardinality(T) \in Nat /\ Cardinality(S) \in Nat
           /\ Cardinality(T) <= Cardinality(S)
BY FS_Subset, FS_CardinalityType

LEMMA NewHit ==
    ASSUME NEW S \in SUBSET Hits, Numbered(S), NEW x, x = <<0, Cardinality(S) + 1>>
    PROVE  /\ x \in Hits /\ x \notin S /\ Numbered(S \cup {x})
           /\ Cardinality(S \cup {x}) = Cardinality(S) + 1 /\ Cardinality(S) \in Nat
<1>1. IsFiniteSet(S) /\ Cardinality(S) \in Nat BY FS_CardinalityType DEF Numbered
<1>2. x[1] = 0 /\ x[2] = Cardinality(S) + 1 OBVIOUS
<1>3. x \notin S BY <1>1, <1>2 DEF Numbered
<1>4. IsFiniteSet(S \cup {x}) /\ Cardinality(S \cup {x}) = Cardinality(S) + 1
  BY <1>1, <1>3, FS_AddElement
<1>5. 0 \in RateLimiter!Ages BY LimiterAssumption DEF RateLimiter!Ages
<1>6. x \in Hits BY <1>1, <1>5 DEF Hits
<1>7. \A y \in S \cup {x} : y[1] = 0 => y[2] <= Cardinality(S) + 1
  <2> SUFFICES ASSUME NEW y \in S, y[1] = 0 PROVE y[2] <= Cardinality(S) + 1
    BY <1>1, <1>2
  <2>1. y[2] <= Cardinality(S) /\ y[2] \in Nat BY DEF Numbered, Hits
  <2> QED BY <1>1, <2>1
<1> QED BY <1>1, <1>3, <1>4, <1>6, <1>7 DEF Numbered

LEMMA HitOpens ==
    ASSUME NEW S \in SUBSET Hits, Numbered(S), Quiet(S), NEW x, x = <<0, Cardinality(S) + 1>>
    PROVE  Windowed(S \cup {x}, [count |-> 1, left |-> Window])
<1> DEFINE e == [count |-> 1, left |-> Window]
<1>1. x \notin S BY NewHit
<1>2. \A y \in S : y[1] \in Nat /\ y[1] # 0
  BY DEF Quiet, Hits, RateLimiter!Ages
<1>3. x[1] = 0 /\ Window - e.left = 0 BY LimiterAssumption
<1>4. Recent(S \cup {x}, e) = {x}
  <2>1. \A y \in S : ~(y[1] <= Window - e.left) BY <1>2, <1>3
  <2>2. x[1] <= Window - e.left BY <1>3
  <2> HIDE DEF e
  <2> QED BY <2>1, <2>2 DEF Recent
<1>5. (S \cup {x}) \ Recent(S \cup {x}, e) = S BY <1>1, <1>4
<1>6. Cardinality({x}) = 1 BY FS_Singleton
<1>7. Limited(e.count) = 1 BY LimiterAssumption DEF Limited
<1> HIDE DEF e
<1>8. Windowed(S \cup {x}, e) BY <1>4, <1>5, <1>6, <1>7 DEF Windowed, Quiet
<1> QED BY <1>8 DEF e

LEMMA HitCounts ==
    ASSUME NEW S \in SUBSET Hits, Numbered(S), NEW x, x = <<0, Cardinality(S) + 1>>,
           NEW e \in Entries, e.left >= 0, e.count < MaxHits, Windowed(S, e),
           NEW f \in Entries, f.left = e.left, f.count = e.count + 1
    PROVE  Windowed(S \cup {x}, f)
<1>1. x \notin S BY NewHit
<1>2. e.left \in -1..Window /\ e.count \in Nat BY LimiterAssumption DEF Entries
<1>3. x[1] <= Window - f.left BY <1>2, LimiterAssumption
<1>4. Recent(S \cup {x}, f) = Recent(S, e) \cup {x} BY <1>3 DEF Recent
<1>5. (S \cup {x}) \ Recent(S \cup {x}, f) = S \ Recent(S, e) BY <1>1, <1>4 DEF Recent
<1>6. Recent(S, e) \in SUBSET S BY DEF Recent
<1>7. IsFiniteSet(Recent(S, e)) /\ Cardinality(Recent(S, e)) \in Nat
  BY <1>6, FinitePart DEF Numbered
<1>8. x \notin Recent(S, e) BY <1>1, <1>6
<1>9. PICK T : T = Recent(S, e) OBVIOUS
<1>10. Cardinality(T \cup {x}) = Cardinality(T) + 1
  BY <1>7, <1>8, <1>9, FS_AddElement
<1>11. Limited(f.count) = Limited(e.count) + 1
  BY <1>2, LimiterAssumption DEF Limited
<1> QED BY <1>4, <1>5, <1>9, <1>10, <1>11 DEF Windowed

LEMMA OlderCounts ==
    ASSUME NEW S \in SUBSET Hits, IsFiniteSet(S)
    PROVE  /\ IsFiniteSet(RateLimiter!Older(S))
           /\ Cardinality(RateLimiter!Older(S)) = Cardinality(S)
<1> DEFINE F == [x \in S |-> <<x[1] + 1, x[2]>>]
<1>1. F \in [S -> RateLimiter!Older(S)] BY DEF RateLimiter!Older
<1>2. \A x, y \in S : F[x] = F[y] => x = y
  <2> SUFFICES ASSUME NEW x \in S, NEW y \in S, F[x] = F[y] PROVE x = y OBVIOUS
  <2>1. x[1] + 1 = y[1] + 1 /\ x[2] = y[2] OBVIOUS
  <2>2. /\ x \in Nat \X Nat /\ y \in Nat \X Nat
    BY DEF Hits, RateLimiter!Ages
  <2> QED BY <2>1, <2>2
<1>3. \A z \in RateLimiter!Older(S) : \E x \in S : F[x] = z BY DEF RateLimiter!Older
<1>4. F \in Bijection(S, RateLimiter!Older(S))
  BY <1>1, <1>2, <1>3 DEF Bijection, Injection, Surjection, IsInjective
<1>5. ExistsBijection(S, RateLimiter!Older(S)) BY <1>4 DEF ExistsBijection
<1> QED BY <1>5, FS_Bijection

(* What is left of S after a tick *)
Aged(S) == RateLimiter!Older({x \in S : x[1] < Window})

LEMMA AgedHits ==
    ASSUME NEW S \in SUBSET Hits, IsFiniteSet(S)
    PROVE  /\ Aged(S) \in SUBSET Hits /\ Numbered(Aged(S)) /\ \A x \in Aged(S) : x[1] # 0
           /\ IsFiniteSet(Aged(S)) /\ Cardinality(Aged(S)) <= Cardinality(S)
<1> DEFINE T == {x \in S : x[1] < Window}
<1>1. \A x \in T : x[1] \in Nat /\ x[2] \in Nat /\ x[1] < Window
  BY DEF Hits, RateLimiter!Ages
<1>2. \A x \in Aged(S) : x \in Hits /\ x[1] # 0
  <2> SUFFICES ASSUME NEW x \in T PROVE <<x[1] + 1, x[2]>> \in Hits /\ x[1] + 1 # 0
    BY DEF Aged, RateLimiter!Older
  <2>1. x[1] + 1 \in RateLimiter!Ages /\ x[1] + 1 # 0
    BY <1>1, LimiterAssumption DEF RateLimiter!Ages
  <2> QED BY <1>1, <2>1 DEF Hits
<1>3. T \in SUBSET S OBVIOUS
<1>4. IsFiniteSet(T) /\ Cardinality(T) <= Cardinality(S) BY <1>3, FinitePart
<1>5. IsFiniteSet(Aged(S)) /\ Cardinality(Aged(S)) = Cardinality(T)
  <2>1. T \in SUBSET Hits OBVIOUS
  <2> QED BY <1>4, <2>1, OlderCounts DEF Aged
<1> QED BY <1>2, <1>4, <1>5 DEF Numbered

LEMMA TickQuiet ==
    ASSUME NEW S \in SUBSET Hits, IsFiniteSet(S), Quiet(S)
    PROVE  Quiet(Aged(S))
<1>1. /\ IsFiniteSet(Aged(S)) /\ Cardinality(Aged(S)) <= Cardinality(S)
      /\ \A x \in Aged(S) : x[1] # 0
  BY AgedHits
<1>2. Cardinality(S) \in Nat BY FS_CardinalityType
<1>3. Cardinality(Aged(S)) \in Nat BY <1>1, FS_CardinalityType
<1> QED BY <1>1, <1>2, <1>3, LimiterAssumption DEF Quiet

LEMMA TickCloses ==
    ASSUME NEW S \in SUBSET Hits, IsFiniteSet(S), NEW e \in Entries, e.left = 0, Windowed(S, e)
    PROVE  Quiet(Aged(S))
<1>1. \A x \in S : x[1] <= Window - e.left BY LimiterAssumption DEF Hits, RateLimiter!Ages
<1>2. Recent(S, e) = S BY <1>1 DEF Recent
<1>3. Cardinality(S) <= MaxHits
  BY <1>2, LimiterAssumption DEF Windowed, Limited, Entries
<1>4. /\ IsFiniteSet(Aged(S)) /\ Cardinality(Aged(S)) <= Cardinality(S)
      /\ \A x \in Aged(S) : x[1] # 0
  BY AgedHits
<1>5. Cardinality(S) \in Nat BY FS_CardinalityType
<1>6. Cardinality(Aged(S)) \in Nat BY <1>4, FS_CardinalityType
<1> QED BY <1>3, <1>4, <1>5, <1>6, LimiterAssumption DEF Quiet

LEMMA TickKeeps ==
    ASSUME NEW S \in SUBSET Hits, IsFiniteSet(S), NEW e \in Entries, e.left > 0, Windowed(S, e),
           NEW f \in Entries, f.left = e.left - 1, f.count = e.count
    PROVE  Windowed(Aged(S), f)
<1>1. e.left \in -1..Window BY DEF Entries
<1>2. \A x \in S : x[1] \in Nat /\ x[1] <= Window BY DEF Hits, RateLimiter!Ages
<1>3. Recent(Aged(S), f) = RateLimiter!Older(Recent(S, e))
  <2>1. ASSUME NEW x \in S
        PROVE  x[1] < Window /\ x[1] + 1 <= Window - f.left <=> x[1] <= Window - e.left
    <3>1. x[1] \in Nat /\ x[1] <= Window BY <1>2
    <3> QED BY <3>1, <1>1, LimiterAssumption
  <2>2. \A x \in S : <<x[1] + 1, x[2]>>[1] = x[1] + 1 OBVIOUS
  <2> QED BY <2>1, <2>2 DEF Recent, Aged, RateLimiter!Older
<1>4. Aged(S) \ Recent(Aged(S), f) \subseteq RateLimiter!Older(S \ Recent(S, e))
  BY <1>3 DEF Aged, RateLimiter!Older
<1>5. Recent(S, e) \in SUBSET S /\ S \ Recent(S, e) \in SUBSET S BY DEF Recent
<1>6. IsFiniteSet(Recent(S, e)) /\ IsFiniteSet(S \ Recent(S, e)) BY <1>5, FS_Subset
<1>7. Cardinality(RateLimiter!Older(Recent(S, e))) = Cardinality(Recent(S, e))
  BY <1>5, <1>6, OlderCounts
<1>8. /\ IsFiniteSet(RateLimiter!Older(S \ Recent(S, e)))
      /\ Cardinality(RateLimiter!Older(S \ Recent(S, e))) = Cardinality(S \ Recent(S, e))
  BY <1>5, <1>6, OlderCounts
<1>9. PICK A, B : A = Aged(S) \ Recent(Aged(S), f) /\ B = RateLimiter!Older(S \ Recent(S, e))
  OBVIOUS
<1>10. Cardinality(A) <= Cardinality(B) /\ Cardinality(A) \in Nat /\ Cardinality(B) \in Nat
  BY <1>4, <1>8, <1>9, FinitePart
<1> QED BY <1>3, <1>7, <1>8, <1>9, <1>10, LimiterAssumption DEF Windowed

-----------------------------------------------------------------------------
LEMMA LimiterInit == RateLimiter!Init => LimiterInv
<1> SUFFICES ASSUME RateLimiter!Init PROVE LimiterInv OBVIOUS
<1> USE DEF RateLimiter!Init
<1>1. DOMAIN hits = {} OBVIOUS
<1>2. LimiterTypes
  <2>1. hits \in [DOMAIN hits -> Entries] BY <1>1
  <2>2. IsFiniteSet(DOMAIN hits) /\ Cardinality(DOMAIN hits) = 0 BY <1>1, FS_EmptySet
  <2> QED BY <1>1, <2>1, <2>2, LimiterAssumption DEF LimiterTypes
<1>3. ASSUME NEW k \in Keys PROVE Sound(k)
  <2>1. lately[k] = {} /\ ~RateLimiter!Within(k) BY <1>1 DEF RateLimiter!Within
  <2>2. Numbered({}) /\ Quiet({}) BY FS_EmptySet, LimiterAssumption DEF Numbered, Quiet
  <2> QED BY <2>1, <2>2 DEF Sound
<1>4. Saturated BY DEF Saturated, RateLimiter!Nobody
<1> QED BY <1>2, <1>3, <1>4 DEF LimiterInv

(* A key whose hits and whose window a step leaves alone *)
LEMMA SoundAlone ==
    ASSUME NEW k \in Keys, Sound(k), lately'[k] = lately[k],
           RateLimiter!Within(k)' <=> RateLimiter!Within(k),
           RateLimiter!Within(k) => hits'[k] = hits[k]
    PROVE  Sound(k)'
BY DEF Sound

(* Dropping expired entries *)
LEMMA Drops ==
    ASSUME LimiterInv, NEW S \in SUBSET RateLimiter!Expired, hits' = RateLimiter!Without(S)
    PROVE  /\ hits' \in [DOMAIN hits' -> Entries] /\ DOMAIN hits' = DOMAIN hits \ S
           /\ IsFiniteSet(DOMAIN hits') /\ Cardinality(DOMAIN hits') <= MaxTracked
           /\ \A k \in Keys : /\ RateLimiter!Within(k)' <=> RateLimiter!Within(k)
                              /\ RateLimiter!Within(k) => hits'[k] = hits[k]
<1>1. DOMAIN hits' = DOMAIN hits \ S /\ \A k \in DOMAIN hits' : hits'[k] = hits[k]
  BY DEF RateLimiter!Without
<1>2. hits' \in [DOMAIN hits' -> Entries]
  BY <1>1 DEF LimiterInv, LimiterTypes, RateLimiter!Without
<1>3. PICK A : A = DOMAIN hits OBVIOUS
<1>4. IsFiniteSet(A \ S) /\ Cardinality(A \ S) <= MaxTracked
  <2>1. IsFiniteSet(A) /\ Cardinality(A) <= MaxTracked /\ A \ S \in SUBSET A
    BY <1>3 DEF LimiterInv, LimiterTypes
  <2> QED BY <2>1, FinitePart, LimiterAssumption
<1>5. ASSUME NEW k \in Keys
      PROVE  /\ RateLimiter!Within(k)' <=> RateLimiter!Within(k)
             /\ RateLimiter!Within(k) => hits'[k] = hits[k]
  <2>1. k \in S => k \in DOMAIN hits /\ RateLimiter!Over(hits[k]) BY DEF RateLimiter!Expired
  <2> QED BY <1>1, <2>1 DEF RateLimiter!Within, RateLimiter!Over
<1> QED BY <1>1, <1>2, <1>3, <1>4, <1>5

LEMMA LimiterStep == LimiterInv /\ [RateLimiter!Next]_limiterVars => LimiterInv'
<1> SUFFICES ASSUME LimiterInv, [RateLimiter!Next]_limiterVars PROVE LimiterInv' OBVIOUS
<1> USE LimiterAssumption
<1>0. LimiterTypes /\ Saturated /\ \A k \in Keys : Sound(k) BY DEF LimiterInv
<1>1. ASSUME NEW k \in Keys, RateLimiter!TurnAway(k) PROVE LimiterInv'
  <2>1. RateLimiter!Dropped(k) \in SUBSET RateLimiter!Expired BY DEF RateLimiter!Dropped
  <2>2. /\ hits' = RateLimiter!Without(RateLimiter!Dropped(k)) /\ lately' = lately
        /\ answer' = [key |-> k, said |-> "full"]
    BY <1>1 DEF RateLimiter!TurnAway, RateLimiter!Answers
  <2>3. LimiterTypes' BY <1>0, <2>1, <2>2, Drops DEF LimiterTypes
  <2>4. \A j \in Keys : Sound(j)' BY <1>0, <2>1, <2>2, Drops, SoundAlone
  <2>5. Saturated' BY <2>2 DEF Saturated
  <2> QED BY <2>3, <2>4, <2>5 DEF LimiterInv
<1>2. ASSUME NEW k \in Keys, RateLimiter!Open(k) PROVE LimiterInv'
  <2> DEFINE D == RateLimiter!Dropped(k)
             x == <<0, Cardinality(lately[k]) + 1>>
  <2>1. D \in SUBSET RateLimiter!Expired BY DEF RateLimiter!Dropped
  <2>2. /\ DOMAIN hits' = (DOMAIN hits \ D) \cup {k}
        /\ hits'[k] = [count |-> 1, left |-> Window]
        /\ \A j \in DOMAIN hits' : j # k => hits'[j] = hits[j]
        /\ hits' = [j \in DOMAIN hits' |-> hits'[j]]
    BY <1>2 DEF RateLimiter!Open, RateLimiter!With, RateLimiter!Without
  <2>3. /\ answer' = [key |-> k, said |-> "yes"]
        /\ lately' = [lately EXCEPT ![k] = @ \cup {x}]
    BY <1>2, LimiterCounts
       DEF RateLimiter!Open, RateLimiter!Allows, RateLimiter!Answers, RateLimiter!Total
  <2>4. ~RateLimiter!Within(k)
    BY <1>2 DEF RateLimiter!Open, RateLimiter!Within
  <2>5. lately[k] \in SUBSET Hits /\ Numbered(lately[k]) /\ Quiet(lately[k])
    BY <1>0, <2>4 DEF LimiterTypes, Sound
  <2>6. x \in Hits /\ Numbered(lately[k] \cup {x}) BY <2>5, NewHit
  <2>7. Windowed(lately[k] \cup {x}, [count |-> 1, left |-> Window]) BY <2>5, HitOpens
  <2>8. lately'[k] = lately[k] \cup {x} /\ \A j \in Keys : j # k => lately'[j] = lately[j]
    BY <1>0, <2>3 DEF LimiterTypes
  <2>9. ASSUME NEW j \in Keys PROVE Sound(j)'
    <3>1. CASE j # k
      <4>1. j \in D => j \in DOMAIN hits /\ RateLimiter!Over(hits[j])
        BY <2>1 DEF RateLimiter!Expired
      <4>2. /\ RateLimiter!Within(j)' <=> RateLimiter!Within(j)
            /\ RateLimiter!Within(j) => hits'[j] = hits[j]
        BY <2>2, <3>1, <4>1 DEF RateLimiter!Within, RateLimiter!Over
      <4> QED BY <1>0, <2>8, <3>1, <4>2, SoundAlone
    <3>2. CASE j = k
      <4>1. RateLimiter!Within(k)' BY <2>2 DEF RateLimiter!Within, RateLimiter!Over
      <4> QED BY <2>2, <2>6, <2>7, <2>8, <3>2, <4>1 DEF Sound
    <3> QED BY <3>1, <3>2
  <2>10. /\ IsFiniteSet(DOMAIN hits') /\ Cardinality(DOMAIN hits') <= MaxTracked
    <3>1. PICK A, B : A = DOMAIN hits /\ B = DOMAIN hits \ D OBVIOUS
    <3>2. /\ IsFiniteSet(A) /\ Cardinality(A) <= MaxTracked /\ B \in SUBSET A
      BY <1>0, <3>1 DEF LimiterTypes
    <3>3. /\ IsFiniteSet(B) /\ Cardinality(B) \in Nat /\ Cardinality(A) \in Nat
          /\ Cardinality(B) <= Cardinality(A)
      BY <3>2, FinitePart
    <3>4. /\ IsFiniteSet(B \cup {k})
          /\ Cardinality(B \cup {k}) = IF k \in B THEN Cardinality(B) ELSE Cardinality(B) + 1
      BY <3>3, FS_AddElement
    <3>5. k \in DOMAIN hits => D = {} BY DEF RateLimiter!Dropped
    <3>6. k \notin DOMAIN hits => Cardinality(B) < MaxTracked
      BY <1>2, <3>1, <3>3, LimiterCounts DEF RateLimiter!Open, RateLimiter!Full
    <3>7. Cardinality(B \cup {k}) <= MaxTracked
      BY <3>1, <3>2, <3>3, <3>4, <3>5, <3>6
    <3> QED BY <2>2, <3>1, <3>4, <3>7
  <2>11. LimiterTypes'
    <3>1. [count |-> 1, left |-> Window] \in Entries BY DEF Entries
    <3>2. hits' \in [DOMAIN hits' -> Entries]
      <4>1. \A j \in DOMAIN hits' : hits'[j] \in Entries
        BY <1>0, <2>2, <3>1 DEF LimiterTypes
      <4> QED BY <2>2, <4>1
    <3>3. lately' \in [Keys -> SUBSET Hits] BY <1>0, <2>3, <2>6 DEF LimiterTypes
    <3>4. DOMAIN hits' \subseteq Keys BY <1>0, <2>2 DEF LimiterTypes
    <3> QED BY <2>3, <2>10, <3>2, <3>3, <3>4 DEF LimiterTypes
  <2>12. Saturated' BY <2>3 DEF Saturated
  <2> QED BY <2>9, <2>11, <2>12 DEF LimiterInv
<1>3. ASSUME NEW k \in Keys, RateLimiter!Count(k) PROVE LimiterInv'
  <2> DEFINE x == <<0, Cardinality(lately[k]) + 1>>
  <2>1. RateLimiter!Within(k) /\ k \in DOMAIN hits /\ hits[k].left >= 0
    <3>1. RateLimiter!Within(k) BY <1>3 DEF RateLimiter!Count
    <3>2. k \in DOMAIN hits /\ ~(hits[k].left < 0)
      BY <3>1 DEF RateLimiter!Within, RateLimiter!Over
    <3>3. hits[k] \in Entries BY <1>0, <3>2 DEF LimiterTypes
    <3> QED BY <3>1, <3>2, <3>3 DEF Entries
  <2>2. hits[k] \in Entries /\ hits[k].count < MaxHits
    BY <1>0, <1>3, <2>1 DEF LimiterTypes, RateLimiter!Count
  <2>3. /\ hits' = [hits EXCEPT ![k].count = @ + 1]
        /\ answer' = [key |-> k, said |-> "yes"]
        /\ lately' = [lately EXCEPT ![k] = @ \cup {x}]
    BY <1>3, LimiterCounts
       DEF RateLimiter!Count, RateLimiter!Allows, RateLimiter!Answers, RateLimiter!Total
  <2>4. /\ DOMAIN hits' = DOMAIN hits /\ \A j \in DOMAIN hits : j # k => hits'[j] = hits[j]
        /\ hits'[k] = [hits[k] EXCEPT !.count = @ + 1]
    BY <1>0, <2>1, <2>3 DEF LimiterTypes
  <2>5. hits'[k] \in Entries /\ hits'[k].left = hits[k].left /\ hits'[k].count = hits[k].count + 1
    BY <2>2, <2>4 DEF Entries
  <2>6. lately[k] \in SUBSET Hits /\ Numbered(lately[k]) /\ Windowed(lately[k], hits[k])
    BY <1>0, <2>1 DEF LimiterTypes, Sound
  <2>7. x \in Hits /\ Numbered(lately[k] \cup {x}) BY <2>6, NewHit
  <2>8. Windowed(lately[k] \cup {x}, hits'[k]) BY <2>1, <2>2, <2>5, <2>6, HitCounts
  <2>9. lately'[k] = lately[k] \cup {x} /\ \A j \in Keys : j # k => lately'[j] = lately[j]
    BY <1>0, <2>3 DEF LimiterTypes
  <2>10. \A j \in Keys : RateLimiter!Within(j)' <=> RateLimiter!Within(j)
    BY <2>1, <2>4, <2>5 DEF RateLimiter!Within, RateLimiter!Over
  <2>11. ASSUME NEW j \in Keys PROVE Sound(j)'
    <3>1. CASE j # k
      <4>1. RateLimiter!Within(j) => hits'[j] = hits[j] BY <2>4, <3>1 DEF RateLimiter!Within
      <4> QED BY <1>0, <2>9, <2>10, <3>1, <4>1, SoundAlone
    <3>2. CASE j = k BY <2>1, <2>7, <2>8, <2>9, <2>10, <3>2 DEF Sound
    <3> QED BY <3>1, <3>2
  <2>12. LimiterTypes'
    <3>1. hits' \in [DOMAIN hits' -> Entries] BY <1>0, <2>3, <2>4, <2>5 DEF LimiterTypes
    <3>2. lately' \in [Keys -> SUBSET Hits] BY <1>0, <2>3, <2>7 DEF LimiterTypes
    <3> QED BY <1>0, <2>3, <2>4, <3>1, <3>2 DEF LimiterTypes
  <2>13. Saturated' BY <2>3 DEF Saturated
  <2> QED BY <2>11, <2>12, <2>13 DEF LimiterInv
<1>4. ASSUME NEW k \in Keys, RateLimiter!Refuse(k) PROVE LimiterInv'
  <2>1. RateLimiter!Within(k) /\ k \in DOMAIN hits /\ hits[k].count >= MaxHits
    BY <1>4 DEF RateLimiter!Refuse, RateLimiter!Within
  <2>2. hits[k] \in Entries BY <1>0, <2>1 DEF LimiterTypes
  <2>3. /\ hits' = [hits EXCEPT ![k] = RateLimiter!Counted(hits[k])]
        /\ answer' = [key |-> k, said |-> "over"] /\ lately' = lately
    BY <1>4 DEF RateLimiter!Refuse, RateLimiter!Answers
  <2>4. /\ DOMAIN hits' = DOMAIN hits /\ \A j \in DOMAIN hits : j # k => hits'[j] = hits[j]
        /\ hits'[k] = RateLimiter!Counted(hits[k])
    BY <1>0, <2>1, <2>3 DEF LimiterTypes
  <2>5. hits'[k] \in Entries /\ hits'[k].left = hits[k].left /\ hits'[k].count = MaxHits + 1
    BY <2>2, <2>4 DEF Entries, RateLimiter!Counted
  <2>6. lately[k] \in SUBSET Hits /\ Numbered(lately[k]) /\ Windowed(lately[k], hits[k])
    BY <1>0, <2>1 DEF LimiterTypes, Sound
  <2>7. Limited(hits[k].count) = MaxHits /\ Limited(hits'[k].count) = MaxHits
    BY <2>1, <2>2, <2>5 DEF Limited, Entries
  <2>8. Recent(lately[k], hits'[k]) = Recent(lately[k], hits[k]) BY <2>5 DEF Recent
  <2>9. Windowed(lately[k], hits'[k]) BY <2>6, <2>7, <2>8 DEF Windowed
  <2>10. \A j \in Keys : RateLimiter!Within(j)' <=> RateLimiter!Within(j)
    BY <2>1, <2>4, <2>5 DEF RateLimiter!Within, RateLimiter!Over
  <2>11. ASSUME NEW j \in Keys PROVE Sound(j)'
    <3>1. CASE j # k
      <4>1. RateLimiter!Within(j) => hits'[j] = hits[j] BY <2>4, <3>1 DEF RateLimiter!Within
      <4> QED BY <1>0, <2>3, <2>10, <3>1, <4>1, SoundAlone
    <3>2. CASE j = k BY <2>1, <2>3, <2>6, <2>9, <2>10, <3>2 DEF Sound
    <3> QED BY <3>1, <3>2
  <2>12. LimiterTypes'
    <3>1. hits' \in [DOMAIN hits' -> Entries] BY <1>0, <2>3, <2>4, <2>5 DEF LimiterTypes
    <3> QED BY <1>0, <2>3, <2>4, <3>1 DEF LimiterTypes
  <2>13. Saturated'
    <3>1. Recent(lately[k], hits[k]) \in SUBSET lately[k] BY DEF Recent
    <3>2. Cardinality(Recent(lately[k], hits[k])) = MaxHits BY <2>6, <2>7 DEF Windowed
    <3>3. Cardinality(lately[k]) >= MaxHits
      <4>1. PICK A, B : A = lately[k] /\ B = Recent(lately[k], hits[k]) OBVIOUS
      <4>2. Cardinality(B) <= Cardinality(A) /\ Cardinality(A) \in Nat
        BY <2>6, <3>1, <4>1, FinitePart DEF Numbered
      <4> QED BY <3>2, <4>1, <4>2
    <3> QED BY <2>3, <3>3 DEF Saturated
  <2> QED BY <2>11, <2>12, <2>13 DEF LimiterInv
<1>5. ASSUME NEW k \in Keys, RateLimiter!Reset(k) PROVE LimiterInv'
  <2>1. /\ hits' = RateLimiter!Without({k}) /\ answer' = RateLimiter!Nobody
        /\ lately' = [lately EXCEPT ![k] = {}]
    BY <1>5 DEF RateLimiter!Reset
  <2>2. DOMAIN hits' = DOMAIN hits \ {k} /\ \A j \in DOMAIN hits' : hits'[j] = hits[j]
    BY <2>1 DEF RateLimiter!Without
  <2>3. lately'[k] = {} /\ \A j \in Keys : j # k => lately'[j] = lately[j]
    BY <1>0, <2>1 DEF LimiterTypes
  <2>4. ASSUME NEW j \in Keys PROVE Sound(j)'
    <3>1. CASE j # k
      <4>1. /\ RateLimiter!Within(j)' <=> RateLimiter!Within(j)
            /\ RateLimiter!Within(j) => hits'[j] = hits[j]
        BY <2>2, <3>1 DEF RateLimiter!Within, RateLimiter!Over
      <4> QED BY <1>0, <2>3, <3>1, <4>1, SoundAlone
    <3>2. CASE j = k
      <4>1. ~RateLimiter!Within(k)' BY <2>2 DEF RateLimiter!Within
      <4>2. Numbered({}) /\ Quiet({}) BY FS_EmptySet DEF Numbered, Quiet
      <4> QED BY <2>3, <3>2, <4>1, <4>2 DEF Sound
    <3> QED BY <3>1, <3>2
  <2>5. IsFiniteSet(DOMAIN hits') /\ Cardinality(DOMAIN hits') <= MaxTracked
    <3>1. PICK A, B : A = DOMAIN hits /\ B = DOMAIN hits' OBVIOUS
    <3>2. IsFiniteSet(A) /\ Cardinality(A) <= MaxTracked /\ B \in SUBSET A
      BY <1>0, <2>2, <3>1 DEF LimiterTypes
    <3>3. IsFiniteSet(B) /\ Cardinality(B) <= MaxTracked BY <3>2, FinitePart
    <3> QED BY <3>1, <3>3
  <2>6. LimiterTypes'
    <3>1. hits' \in [DOMAIN hits' -> Entries]
      BY <1>0, <2>1, <2>2 DEF LimiterTypes, RateLimiter!Without
    <3>2. lately' \in [Keys -> SUBSET Hits] BY <1>0, <2>1 DEF LimiterTypes
    <3> QED BY <1>0, <2>1, <2>2, <2>5, <3>1, <3>2 DEF LimiterTypes
  <2>7. Saturated' BY <2>1 DEF Saturated, RateLimiter!Nobody
  <2> QED BY <2>4, <2>6, <2>7 DEF LimiterInv
<1>6. CASE RateLimiter!Sweep
  <2>1. RateLimiter!Expired \in SUBSET RateLimiter!Expired OBVIOUS
  <2>2. hits' = RateLimiter!Without(RateLimiter!Expired) /\ UNCHANGED <<answer, lately>>
    BY <1>6 DEF RateLimiter!Sweep
  <2>3. LimiterTypes' BY <1>0, <2>1, <2>2, Drops DEF LimiterTypes
  <2>4. \A j \in Keys : Sound(j)' BY <1>0, <2>1, <2>2, Drops, SoundAlone
  <2>5. Saturated' BY <1>0, <2>2 DEF Saturated
  <2> QED BY <2>3, <2>4, <2>5 DEF LimiterInv
<1>7. CASE RateLimiter!Tick
  <2>1. /\ DOMAIN hits' = DOMAIN hits /\ hits' = [k \in DOMAIN hits |-> hits'[k]]
        /\ \A k \in DOMAIN hits :
              hits'[k] = [hits[k] EXCEPT !.left = IF @ < 0 THEN @ ELSE @ - 1]
        /\ answer' = RateLimiter!Nobody
        /\ lately' = [k \in Keys |-> Aged(lately[k])]
    BY <1>7 DEF RateLimiter!Tick, Aged
  <2>2. ASSUME NEW k \in DOMAIN hits
        PROVE  /\ hits[k] \in Entries /\ hits'[k] \in Entries /\ hits'[k].count = hits[k].count
               /\ hits'[k].left = IF hits[k].left < 0 THEN hits[k].left ELSE hits[k].left - 1
               /\ hits[k].left \in Int
    <3>1. hits[k] \in Entries BY <1>0 DEF LimiterTypes
    <3>2. hits'[k] = [hits[k] EXCEPT !.left = IF @ < 0 THEN @ ELSE @ - 1] BY <2>1
    <3> QED BY <3>1, <3>2 DEF Entries
  <2>3. ASSUME NEW k \in Keys
        PROVE lately[k] \in SUBSET Hits /\ IsFiniteSet(lately[k]) /\ lately'[k] = Aged(lately[k])
    BY <1>0, <2>1 DEF LimiterTypes, Sound, Numbered
  <2>4. ASSUME NEW k \in Keys PROVE Sound(k)'
    <3>1. Numbered(lately'[k]) BY <2>3, AgedHits
    <3>2. CASE ~RateLimiter!Within(k)
      <4>1. ~RateLimiter!Within(k)'
        BY <2>1, <2>2, <3>2 DEF RateLimiter!Within, RateLimiter!Over
      <4>2. Quiet(lately'[k]) BY <1>0, <2>3, <3>2, TickQuiet DEF Sound
      <4> QED BY <3>1, <4>1, <4>2 DEF Sound
    <3>3. CASE RateLimiter!Within(k)
      <4>1. k \in DOMAIN hits /\ ~(hits[k].left < 0)
        BY <3>3 DEF RateLimiter!Within, RateLimiter!Over
      <4>2. Windowed(lately[k], hits[k]) BY <1>0, <3>3 DEF Sound
      <4>3. /\ hits[k] \in Entries /\ hits'[k] \in Entries /\ hits'[k].count = hits[k].count
            /\ hits'[k].left = hits[k].left - 1 /\ hits[k].left \in Int
        BY <2>2, <4>1
      <4>4. CASE hits[k].left = 0
        <5>1. ~RateLimiter!Within(k)' BY <4>3, <4>4 DEF RateLimiter!Within, RateLimiter!Over
        <5>2. Quiet(lately'[k]) BY <2>3, <4>2, <4>3, <4>4, TickCloses
        <5> QED BY <3>1, <5>1, <5>2 DEF Sound
      <4>5. CASE hits[k].left > 0
        <5>1. RateLimiter!Within(k)'
          BY <2>1, <4>1, <4>3, <4>5 DEF RateLimiter!Within, RateLimiter!Over
        <5>2. Windowed(lately'[k], hits'[k]) BY <2>3, <4>2, <4>3, <4>5, TickKeeps
        <5> QED BY <3>1, <5>1, <5>2 DEF Sound
      <4> QED BY <4>1, <4>3, <4>4, <4>5
    <3> QED BY <3>2, <3>3
  <2>5. LimiterTypes'
    <3>1. hits' \in [DOMAIN hits' -> Entries] BY <2>1, <2>2
    <3>2. lately' \in [Keys -> SUBSET Hits]
      <4>1. \A k \in Keys : Aged(lately[k]) \in SUBSET Hits BY <2>3, AgedHits
      <4> QED BY <2>1, <4>1
    <3> QED BY <1>0, <2>1, <3>1, <3>2 DEF LimiterTypes
  <2>6. Saturated' BY <2>1 DEF Saturated, RateLimiter!Nobody
  <2> QED BY <2>4, <2>5, <2>6 DEF LimiterInv
<1>8. CASE UNCHANGED limiterVars
  <2>1. UNCHANGED <<hits, answer, lately>> BY <1>8 DEF limiterVars
  <2>2. LimiterTypes' /\ Saturated' BY <1>0, <2>1 DEF LimiterTypes, Saturated
  <2>3. \A k \in Keys : Sound(k)' BY <1>0, <2>1 DEF Sound, RateLimiter!Within, RateLimiter!Over
  <2> QED BY <2>2, <2>3 DEF LimiterInv
<1> QED BY <1>1, <1>2, <1>3, <1>4, <1>5, <1>6, <1>7, <1>8 DEF RateLimiter!Next

LEMMA LimiterInvariance == Spec => []LimiterInv
<1>1. Init => LimiterInv BY LimiterInit DEF Init
<1>2. LimiterInv /\ [Next]_vars => LimiterInv'
  <2>1. [Next]_vars => [RateLimiter!Next]_limiterVars BY DEF Next, vars, limiterVars
  <2> QED BY <2>1, LimiterStep
<1> QED BY <1>1, <1>2, PTL DEF Spec

(* Allow, Reset and the sweep (ratelimit.go 27-83) let no key through more *)
(* often than two windows allow in the time of one, and refuse nobody who  *)
(* has not used up a window: for any keys, limits and room of the table.   *)
THEOREM LimitsAreKept == Spec => []WindowFair
<1>1. ASSUME LimiterInv, NEW k \in Keys PROVE RateLimiter!Total(k) <= 2 * MaxHits
  <2>1. Sound(k) /\ IsFiniteSet(lately[k]) /\ RateLimiter!Total(k) = Cardinality(lately[k])
    BY <1>1, LimiterCounts DEF LimiterInv, Sound, Numbered, RateLimiter!Total
  <2>2. CASE ~RateLimiter!Within(k)
    <3>1. Cardinality(lately[k]) <= MaxHits BY <2>1, <2>2 DEF Sound, Quiet
    <3>2. Cardinality(lately[k]) \in Nat BY <2>1, FS_CardinalityType
    <3> QED BY <2>1, <3>1, <3>2, LimiterAssumption
  <2>3. CASE RateLimiter!Within(k)
    <3>1. PICK S, A, B : /\ S = lately[k] /\ A = Recent(lately[k], hits[k])
                         /\ B = lately[k] \ Recent(lately[k], hits[k])
      OBVIOUS
    <3>2. S = A \cup B /\ A \cap B = {} /\ A \in SUBSET S /\ B \in SUBSET S BY <3>1 DEF Recent
    <3>3. Cardinality(A) = Limited(hits[k].count) /\ Cardinality(B) <= MaxHits
      BY <2>1, <2>3, <3>1 DEF Sound, Windowed
    <3>4. IsFiniteSet(A) /\ IsFiniteSet(B) /\ Cardinality(A) \in Nat /\ Cardinality(B) \in Nat
      BY <2>1, <3>1, <3>2, FinitePart
    <3>5. hits[k].count \in Nat
      BY <1>1, <2>3, LimiterAssumption DEF LimiterInv, LimiterTypes, Entries, RateLimiter!Within
    <3>6. Cardinality(A) <= MaxHits BY <3>3, <3>5, LimiterAssumption DEF Limited
    <3>7. Cardinality(S) = Cardinality(A) + Cardinality(B)
      <4>1. Cardinality(A \cup B) = Cardinality(A) + Cardinality(B) - Cardinality(A \cap B)
        BY <3>4, FS_Union
      <4>2. Cardinality(A \cap B) = 0 BY <3>2, FS_EmptySet
      <4> QED BY <3>2, <3>4, <4>1, <4>2
    <3> QED BY <2>1, <3>1, <3>3, <3>4, <3>6, <3>7, LimiterAssumption
  <2> QED BY <2>2, <2>3
<1>2. LimiterInv => (answer.said = "over" => RateLimiter!Total(answer.key) >= MaxHits)
  BY LimiterCounts DEF LimiterInv, Saturated, RateLimiter!Total
<1>3. LimiterInv => WindowFair BY <1>1, <1>2 DEF WindowFair, RateLimiter!WindowFair
<1> QED BY LimiterInvariance, <1>3, PTL

-----------------------------------------------------------------------------
(* Console: where in the ring the held lines lie, oldest first             *)
Slot(i) == (start + i) % Capacity

RingHeld ==
    /\ count = IF appended < Capacity THEN appended ELSE Capacity
    /\ \A i \in 0..count - 1 : buf[Slot(i)] = appended - count + 1 + i

(* What a client was sent, and then what waits for it *)
All(s) == sent[s] \o chan[s]

StreamOrdered(s) ==
    /\ Console!Increasing(All(s))
    /\ \A i \in DOMAIN All(s) : All(s)[i] <= appended

StreamWhole(s) ==
    at[s] = Console!Live =>
       /\ joined[s] <= appended
       /\ \A n \in missed[s] : n <= appended
       /\ \A n \in joined[s] + 1..appended :
             n \in Console!Range(All(s)) <=> n \notin missed[s]

(* Nothing is queued for a stream that does not listen. *)
StreamQuiet(s) ==
    /\ at[s] # Console!Live => chan[s] = << >>
    /\ at[s] < Console!Live => missed[s] = {}
    /\ at[s] = 1 => sent[s] = << >>

ConsoleInv ==
    /\ Console!TypeOK /\ RingHeld
    /\ \A s \in Streams : StreamOrdered(s) /\ StreamWhole(s) /\ StreamQuiet(s)

LEMMA Wrap ==
    ASSUME NEW C \in Nat \ {0}, NEW x \in 0..2 * C - 1
    PROVE  x % C = IF x < C THEN x ELSE x - C
<1>1. CASE x < C BY <1>1
<1>2. CASE x >= C BY <1>2
<1> QED BY <1>1, <1>2

LEMMA SlotIs ==
    ASSUME Console!TypeOK, NEW i \in 0..Capacity
    PROVE  Slot(i) = IF start + i < Capacity THEN start + i ELSE start + i - Capacity
<1>1. start \in 0..Capacity - 1 /\ Capacity \in Nat \ {0}
  BY ConsoleAssumption DEF Console!TypeOK, Console!Slots
<1>2. PICK x : x = start + i OBVIOUS
<1>3. x \in 0..2 * Capacity - 1 BY <1>1, <1>2
<1>4. x % Capacity = IF x < Capacity THEN x ELSE x - Capacity BY <1>1, <1>3, Wrap
<1> QED BY <1>1, <1>2, <1>3, <1>4 DEF Slot

(* Last returns the newest lines, of any number that is asked for. *)
LEMMA LastIsNewest ==
    ASSUME Console!TypeOK, RingHeld, NEW n \in Nat
    PROVE  Console!Last(n) = Console!Newest(IF n = 0 \/ n > count THEN count ELSE n)
<1> DEFINE m == IF n = 0 \/ n > count THEN count ELSE n
<1>1. count \in 0..Capacity /\ appended \in Nat /\ start \in Nat /\ Capacity \in Nat
  BY ConsoleAssumption DEF Console!TypeOK, Console!Slots
<1>2. m \in 0..count BY <1>1
<1>3. Console!Last(n) = [i \in 1..m |-> buf[(Console!Oldest(m) + i - 1) % Capacity]]
  BY DEF Console!Last
<1> HIDE DEF m
<1>4. ASSUME NEW i \in 1..m
      PROVE  buf[(Console!Oldest(m) + i - 1) % Capacity] = appended - m + i
  <2>1. PICK j : j = count - m + i - 1 OBVIOUS
  <2>2. j \in 0..count - 1 BY <1>1, <1>2, <2>1
  <2>3. Console!Oldest(m) + i - 1 = start + j BY <1>1, <1>2, <2>1 DEF Console!Oldest
  <2>4. buf[Slot(j)] = appended - count + 1 + j BY <2>2 DEF RingHeld
  <2> QED BY <1>1, <1>2, <2>1, <2>3, <2>4 DEF Slot
<1>5. Console!Newest(m) = [i \in 1..m |-> appended - m + i] BY DEF Console!Newest
<1>6. Console!Last(n) = Console!Newest(m) BY <1>3, <1>4, <1>5
<1> QED BY <1>6 DEF m

LEMMA ConsoleInit == Console!Init => ConsoleInv
<1> SUFFICES ASSUME Console!Init PROVE ConsoleInv OBVIOUS
<1> USE DEF Console!Init
<1>1. Console!TypeOK
  BY ConsoleAssumption
     DEF Console!TypeOK, Console!Slots, Console!Lines, Console!Live
<1>2. RingHeld BY ConsoleAssumption DEF RingHeld
<1>3. ASSUME NEW s \in Streams PROVE StreamOrdered(s) /\ StreamWhole(s) /\ StreamQuiet(s)
  <2>1. sent[s] = << >> /\ chan[s] = << >> /\ at[s] = 1 /\ missed[s] = {} OBVIOUS
  <2>2. All(s) = << >> BY <2>1 DEF All
  <2> QED
    BY <2>1, <2>2
       DEF StreamOrdered, StreamWhole, StreamQuiet, Console!Increasing, Console!Live
<1> QED BY <1>1, <1>2, <1>3 DEF ConsoleInv

LEMMA AppendAll ==
    ASSUME NEW S, NEW a, a \in Seq(S), NEW c, c \in Seq(S), NEW x, x \in S
    PROVE  a \o Append(c, x) = Append(a \o c, x)
OBVIOUS

LEMMA StreamTypes ==
    ASSUME Console!TypeOK, NEW s \in Streams
    PROVE  /\ sent[s] \in Seq(Console!Lines) /\ chan[s] \in Seq(Console!Lines)
           /\ All(s) \in Seq(Console!Lines) /\ Len(All(s)) = Len(sent[s]) + Len(chan[s])
           /\ missed[s] \in SUBSET Console!Lines /\ joined[s] \in 0..MaxLines
           /\ at[s] \in 1..4
<1>1. /\ sent[s] \in Seq(Console!Lines) /\ chan[s] \in Seq(Console!Lines)
      /\ missed[s] \in SUBSET Console!Lines /\ joined[s] \in 0..MaxLines /\ at[s] \in 1..4
  BY DEF Console!TypeOK
<1>2. All(s) \in Seq(Console!Lines) /\ Len(All(s)) = Len(sent[s]) + Len(chan[s])
  BY <1>1 DEF All
<1> QED BY <1>1, <1>2

(* Appending keeps the ring *)
LEMMA RingAppends ==
    ASSUME Console!TypeOK, RingHeld, Console!AppendLine
    PROVE  /\ RingHeld' /\ buf' \in [Console!Slots -> Console!Lines \cup {0}]
           /\ start' \in Console!Slots /\ count' \in 0..Capacity /\ appended' \in 0..MaxLines
<1>1. /\ appended < MaxLines /\ appended' = appended + 1
      /\ buf' = [buf EXCEPT ![Slot(count)] = appended + 1]
      /\ IF count = Capacity
           THEN start' = (start + 1) % Capacity /\ count' = count
           ELSE count' = count + 1 /\ start' = start
  BY DEF Console!AppendLine, Console!Stores, Slot
<1>2. /\ Capacity \in Nat \ {0} /\ start \in 0..Capacity - 1 /\ count \in 0..Capacity
      /\ appended \in 0..MaxLines /\ MaxLines \in Nat
      /\ buf \in [0..Capacity - 1 -> Console!Lines \cup {0}]
  BY ConsoleAssumption DEF Console!TypeOK, Console!Slots
<1>3. \A i \in 0..Capacity :
         Slot(i) = IF start + i < Capacity THEN start + i ELSE start + i - Capacity
  BY SlotIs
<1>4. Slot(count) \in 0..Capacity - 1 BY <1>2, <1>3
<1>5. /\ buf' \in [0..Capacity - 1 -> Console!Lines \cup {0}]
      /\ buf'[Slot(count)] = appended + 1
      /\ \A x \in 0..Capacity - 1 : x # Slot(count) => buf'[x] = buf[x]
  BY <1>1, <1>2, <1>4 DEF Console!Lines
<1>6. count = IF appended < Capacity THEN appended ELSE Capacity BY DEF RingHeld
<1>7. \A i \in 0..count - 1 : buf[Slot(i)] = appended - count + 1 + i BY DEF RingHeld
<1>8. CASE count # Capacity
  <2>1. count' = count + 1 /\ start' = start /\ count < Capacity BY <1>1, <1>2, <1>8
  <2>2. \A i : Slot(i)' = Slot(i) BY <2>1 DEF Slot
  <2>3. ASSUME NEW i \in 0..count' - 1 PROVE buf'[Slot(i)] = appended' - count' + 1 + i
    <3>1. CASE i = count BY <1>1, <1>2, <1>5, <2>1, <3>1
    <3>2. CASE i < count
      <4>1. Slot(i) \in 0..Capacity - 1 /\ Slot(i) # Slot(count)
        BY <1>2, <1>3, <2>1, <3>2
      <4> QED BY <1>1, <1>2, <1>5, <1>7, <2>1, <3>2, <4>1
    <3> QED BY <1>2, <2>1, <3>1, <3>2
  <2>4. RingHeld' BY <1>1, <1>2, <1>6, <2>1, <2>2, <2>3 DEF RingHeld
  <2> QED BY <1>1, <1>2, <1>5, <2>1, <2>4 DEF Console!Slots
<1>9. CASE count = Capacity
  <2>1. count' = count /\ start' = (start + 1) % Capacity BY <1>1, <1>9
  <2>2. start' = (IF start + 1 < Capacity THEN start + 1 ELSE 0)
    <3>1. PICK x : x = start + 1 OBVIOUS
    <3>2. x \in 0..2 * Capacity - 1 BY <1>2, <3>1
    <3>3. x % Capacity = IF x < Capacity THEN x ELSE x - Capacity BY <1>2, <3>2, Wrap
    <3> QED BY <1>2, <2>1, <3>1, <3>3
  <2>3. Slot(count) = start BY <1>2, <1>3, <1>9
  <2>4. ASSUME NEW i \in 0..count' - 1
        PROVE  buf'[Slot(i)'] = appended' - count' + 1 + i
    <3>1. PICK x : x = start' + i OBVIOUS
    <3>2. Slot(i)' = IF start' + i < Capacity THEN start' + i ELSE start' + i - Capacity
      <4>1. x \in 0..2 * Capacity - 1 BY <1>2, <1>9, <2>1, <2>2, <3>1
      <4>2. x % Capacity = IF x < Capacity THEN x ELSE x - Capacity BY <1>2, <4>1, Wrap
      <4> QED BY <1>2, <1>9, <2>1, <2>2, <3>1, <4>1, <4>2 DEF Slot
    <3>3. CASE i = count - 1
      <4>1. Slot(i)' = start BY <1>2, <1>9, <2>1, <2>2, <3>2, <3>3
      <4> QED BY <1>1, <1>2, <1>5, <1>9, <2>1, <2>3, <3>3, <4>1
    <3>4. CASE i < count - 1
      <4>1. i + 1 \in 0..Capacity /\ i + 1 \in 0..count - 1 BY <1>2, <1>9, <2>1, <3>4
      <4>2. Slot(i)' = Slot(i + 1) /\ Slot(i + 1) # start /\ Slot(i + 1) \in 0..Capacity - 1
        BY <1>2, <1>3, <1>9, <2>1, <2>2, <3>2, <3>4, <4>1
      <4>3. buf[Slot(i + 1)] = appended - count + 1 + (i + 1) BY <1>7, <4>1
      <4> QED BY <1>1, <1>2, <1>5, <2>1, <2>3, <4>1, <4>2, <4>3
    <3> QED BY <1>2, <1>9, <2>1, <3>3, <3>4
  <2>5. RingHeld' BY <1>1, <1>2, <1>6, <1>9, <2>1, <2>4 DEF RingHeld
  <2> QED BY <1>1, <1>2, <1>5, <1>9, <2>1, <2>2, <2>5 DEF Console!Slots
<1> QED BY <1>8, <1>9

-----------------------------------------------------------------------------
(* A stream that keeps its lines, and whose queue takes the new one or     *)
(* drops it                                                                *)
LEMMA StreamGrows ==
    ASSUME ConsoleInv, NEW s \in Streams, Console!AppendLine
    PROVE  /\ sent'[s] = sent[s] /\ at'[s] = at[s] /\ joined'[s] = joined[s]
           /\ chan'[s] \in Seq(Console!Lines) /\ Len(chan'[s]) <= Queue
           /\ missed'[s] \in SUBSET Console!Lines
           /\ StreamOrdered(s)' /\ StreamWhole(s)' /\ StreamQuiet(s)'
<1> DEFINE line == appended + 1
<1>0. /\ Console!TypeOK /\ StreamOrdered(s) /\ StreamWhole(s) /\ StreamQuiet(s)
      /\ Queue \in Nat /\ appended \in Nat
  BY ConsoleAssumption DEF ConsoleInv, Console!TypeOK
<1>1. /\ sent' = sent /\ at' = at /\ joined' = joined /\ appended' = line
      /\ appended < MaxLines
      /\ chan'[s] = IF s \in subs /\ Console!Room(s) THEN Append(chan[s], line) ELSE chan[s]
      /\ missed'[s] = IF s \in subs /\ ~Console!Room(s)
                        THEN missed[s] \cup {line} ELSE missed[s]
  BY DEF Console!AppendLine, Console!Stores
<1>2. /\ sent[s] \in Seq(Console!Lines) /\ chan[s] \in Seq(Console!Lines)
      /\ All(s) \in Seq(Console!Lines) /\ missed[s] \in SUBSET Console!Lines
      /\ joined[s] \in Nat
  <2>1. joined[s] \in 0..MaxLines BY <1>0, StreamTypes
  <2>2. joined[s] \in Nat BY <2>1
  <2> QED BY <1>0, <2>2, StreamTypes, Zenon
<1>3. line \in Console!Lines
  BY <1>0, <1>1, ConsoleAssumption DEF Console!TypeOK, Console!Lines
<1>4. (s \in subs <=> at[s] = Console!Live) /\ Len(chan[s]) <= Queue
  BY <1>0 DEF Console!TypeOK
<1>5. /\ \A i, j \in DOMAIN All(s) : i < j => All(s)[i] < All(s)[j]
      /\ \A i \in DOMAIN All(s) : All(s)[i] <= appended
  BY <1>0 DEF StreamOrdered, Console!Increasing
<1> HIDE DEF line
<1>6. CASE s \in subs /\ Console!Room(s)
  <2>1. chan'[s] = Append(chan[s], line) /\ missed'[s] = missed[s] BY <1>1, <1>6
  <2>2. chan'[s] \in Seq(Console!Lines) /\ Len(chan'[s]) <= Queue
    BY <1>0, <1>2, <1>3, <1>6, <2>1 DEF Console!Room
  <2>3. All(s)' = Append(All(s), line)
    <3>1. PICK a : a = sent[s] OBVIOUS
    <3>2. PICK c : c = chan[s] OBVIOUS
    <3>3. a \in Seq(Console!Lines) /\ c \in Seq(Console!Lines) BY <1>2, <3>1, <3>2
    <3>4. a \o Append(c, line) = Append(a \o c, line) BY <1>3, <3>3, AppendAll
    <3> QED BY <1>1, <2>1, <3>1, <3>2, <3>4 DEF All
  <2>4. PICK all : all = All(s) OBVIOUS
  <2>5. /\ DOMAIN Append(all, line) = 1..Len(all) + 1 /\ DOMAIN all = 1..Len(all)
        /\ Len(all) \in Nat /\ Append(all, line)[Len(all) + 1] = line
        /\ \A i \in 1..Len(all) : Append(all, line)[i] = all[i] /\ all[i] \in Nat
    <3>1. all \in Seq(Console!Lines) BY <1>2, <2>4
    <3>2. \A i \in 1..Len(all) : all[i] \in Console!Lines BY <3>1, ElementOfSeq
    <3>3. \A i \in 1..Len(all) : Append(all, line)[i] = all[i]
      BY <1>3, <3>1, AppendProperties
    <3>4. /\ DOMAIN Append(all, line) = 1..Len(all) + 1 /\ DOMAIN all = 1..Len(all)
          /\ Len(all) \in Nat /\ Append(all, line)[Len(all) + 1] = line
      BY <1>3, <3>1
    <3> QED BY <3>2, <3>3, <3>4 DEF Console!Lines
  <2>6. StreamOrdered(s)'
    <3>1. \A i \in 1..Len(all) : all[i] < line BY <1>0, <1>5, <2>4, <2>5 DEF line
    <3>2. ASSUME NEW i \in 1..Len(all) + 1, NEW j \in 1..Len(all) + 1, i < j
          PROVE  Append(all, line)[i] < Append(all, line)[j]
      <4>1. i \in 1..Len(all) BY <2>5, <3>2
      <4>2. CASE j = Len(all) + 1 BY <2>5, <3>1, <4>1, <4>2
      <4>3. CASE j \in 1..Len(all) BY <1>5, <2>4, <2>5, <3>2, <4>1, <4>3
      <4> QED BY <2>5, <4>2, <4>3
    <3>3. \A i \in 1..Len(all) + 1 : Append(all, line)[i] <= line
      BY <1>0, <2>5, <3>1 DEF line
    <3> QED BY <1>1, <2>3, <2>4, <2>5, <3>2, <3>3 DEF StreamOrdered, Console!Increasing
  <2>7. StreamWhole(s)'
    <3>1. at[s] = Console!Live BY <1>4, <1>6
    <3>2. joined[s] <= appended /\ \A n \in missed[s] : n <= appended
      BY <1>0, <3>1 DEF StreamWhole
    <3>3. \A n \in joined[s] + 1..appended :
             (\E i \in DOMAIN all : n = all[i]) <=> n \notin missed[s]
      BY <1>0, <2>4, <3>1 DEF StreamWhole, Console!Range
    <3>4. ASSUME NEW n \in joined[s] + 1..line
          PROVE  (\E i \in 1..Len(all) + 1 : n = Append(all, line)[i]) <=> n \notin missed[s]
      <4>1. CASE n = line
        <5>1. n \notin missed[s] BY <1>0, <3>2, <4>1 DEF line
        <5> QED BY <2>5, <4>1, <5>1
      <4>2. CASE n # line
        <5>1. n \in joined[s] + 1..appended BY <1>0, <1>2, <3>4, <4>2 DEF line
        <5>2. \A i \in 1..Len(all) + 1 :
                 n = Append(all, line)[i] <=> i \in 1..Len(all) /\ n = all[i]
          BY <2>5, <4>2
        <5> QED BY <2>5, <3>3, <5>1, <5>2
      <4> QED BY <4>1, <4>2
    <3>5. \A n \in joined[s] + 1..line :
             n \in Console!Range(Append(all, line)) <=> n \notin missed[s]
      BY <2>5, <3>4 DEF Console!Range
    <3>6. joined[s] <= line /\ \A n \in missed[s] : n <= line
      BY <1>0, <1>2, <3>2 DEF line, Console!Lines
    <3> QED BY <1>1, <2>1, <2>3, <2>4, <3>5, <3>6 DEF StreamWhole
  <2>8. StreamQuiet(s)' BY <1>0, <1>1, <1>4, <1>6 DEF StreamQuiet, Console!Live
  <2> QED BY <1>1, <1>2, <2>1, <2>2, <2>6, <2>7, <2>8
<1>7. CASE ~(s \in subs /\ Console!Room(s))
  <2>1. chan'[s] = chan[s] BY <1>1, <1>7
  <2>2. All(s)' = All(s) BY <1>1, <2>1 DEF All
  <2>3. \A i \in DOMAIN All(s) : All(s)[i] \in Nat
    <3>1. DOMAIN All(s) = 1..Len(All(s)) BY <1>2
    <3>2. \A i \in 1..Len(All(s)) : All(s)[i] \in Console!Lines BY <1>2, ElementOfSeq
    <3> QED BY <3>1, <3>2 DEF Console!Lines
  <2>4. StreamOrdered(s)'
    <3>1. \A i \in DOMAIN All(s) : All(s)[i] <= line BY <1>0, <1>5, <2>3 DEF line
    <3> QED BY <1>1, <1>5, <2>2, <3>1 DEF StreamOrdered, Console!Increasing
  <2>5. StreamWhole(s)'
    <3>1. SUFFICES ASSUME at[s] = Console!Live PROVE StreamWhole(s)'
      BY <1>1 DEF StreamWhole
    <3>2. missed'[s] = missed[s] \cup {line} BY <1>1, <1>4, <1>7, <3>1
    <3>3. /\ joined[s] <= appended /\ \A n \in missed[s] : n <= appended
          /\ \A n \in joined[s] + 1..appended :
                n \in Console!Range(All(s)) <=> n \notin missed[s]
      BY <1>0, <3>1 DEF StreamWhole
    <3>4. line \notin Console!Range(All(s))
      BY <1>0, <1>5, <2>3 DEF line, Console!Range
    <3>5. ASSUME NEW n \in joined[s] + 1..line
          PROVE  n \in Console!Range(All(s)) <=> n \notin missed[s] \cup {line}
      <4>1. CASE n = line BY <3>4, <4>1
      <4>2. CASE n # line
        <5>1. n \in joined[s] + 1..appended BY <1>0, <1>2, <3>5, <4>2 DEF line
        <5> QED BY <3>3, <4>2, <5>1
      <4> QED BY <4>1, <4>2
    <3>6. joined[s] <= line /\ \A n \in missed[s] \cup {line} : n <= line
      BY <1>0, <1>2, <3>3 DEF line, Console!Lines
    <3> QED BY <1>1, <2>2, <3>2, <3>5, <3>6 DEF StreamWhole
  <2>6. StreamQuiet(s)' BY <1>0, <1>1, <1>4, <2>1 DEF StreamQuiet, Console!Live
  <2> QED BY <1>1, <1>2, <1>3, <1>4, <2>1, <2>4, <2>5, <2>6
<1> QED BY <1>6, <1>7

(* A stream that a step leaves alone, while the ring rests *)
LEMMA StreamRests ==
    ASSUME NEW s \in Streams, appended' = appended,
           sent'[s] = sent[s], chan'[s] = chan[s], at'[s] = at[s],
           joined'[s] = joined[s], missed'[s] = missed[s],
           StreamOrdered(s), StreamWhole(s), StreamQuiet(s)
    PROVE  StreamOrdered(s)' /\ StreamWhole(s)' /\ StreamQuiet(s)'
<1>1. All(s)' = All(s) BY DEF All
<1> QED BY <1>1 DEF StreamOrdered, StreamWhole, StreamQuiet

LEMMA ConsoleAppends == ASSUME ConsoleInv, Console!AppendLine PROVE ConsoleInv'
<1>1. Console!TypeOK /\ RingHeld BY DEF ConsoleInv
<1>2. /\ RingHeld' /\ buf' \in [Console!Slots -> Console!Lines \cup {0}]
      /\ start' \in Console!Slots /\ count' \in 0..Capacity /\ appended' \in 0..MaxLines
  BY <1>1, RingAppends
<1>3. \A s \in Streams : StreamOrdered(s)' /\ StreamWhole(s)' /\ StreamQuiet(s)'
  BY StreamGrows
<1>4. /\ UNCHANGED <<subs, at, sent, joined>>
      /\ chan' = [s \in Streams |-> chan'[s]] /\ missed' = [s \in Streams |-> missed'[s]]
  BY DEF Console!AppendLine, Console!Stores
<1>5. /\ \A s \in Streams : chan'[s] \in Seq(Console!Lines) /\ Len(chan'[s]) <= Queue
      /\ \A s \in Streams : missed'[s] \in SUBSET Console!Lines
  BY StreamGrows
<1>6. /\ chan' \in [Streams -> Seq(Console!Lines)]
      /\ missed' \in [Streams -> SUBSET Console!Lines]
  BY <1>4, <1>5
<1>7. Console!TypeOK' BY <1>1, <1>2, <1>4, <1>5, <1>6 DEF Console!TypeOK
<1> QED BY <1>2, <1>3, <1>7 DEF ConsoleInv

(* A step of the stream s: the others and the ring rest. *)
LEMMA OneStream ==
    ASSUME ConsoleInv, NEW s \in Streams,
           UNCHANGED <<buf, start, count, appended>>, Console!TypeOK',
           \A u \in Streams \ {s} :
              /\ sent'[u] = sent[u] /\ chan'[u] = chan[u] /\ at'[u] = at[u]
              /\ joined'[u] = joined[u] /\ missed'[u] = missed[u],
           StreamOrdered(s)', StreamWhole(s)', StreamQuiet(s)'
    PROVE  ConsoleInv'
<1>1. RingHeld' BY DEF ConsoleInv, RingHeld, Slot
<1>2. \A u \in Streams \ {s} : StreamOrdered(u)' /\ StreamWhole(u)' /\ StreamQuiet(u)'
  BY StreamRests DEF ConsoleInv
<1> QED BY <1>1, <1>2 DEF ConsoleInv

LEMMA ConsoleBurst ==
    ASSUME ConsoleInv, NEW s \in Streams, Console!SendBurst(s) PROVE ConsoleInv'
<1>0. Console!TypeOK /\ RingHeld /\ StreamQuiet(s) BY DEF ConsoleInv
<1>1. /\ at[s] = 1 /\ at' = [at EXCEPT ![s] = 2]
      /\ sent' = [sent EXCEPT ![s] = Console!Last(Burst)]
      /\ UNCHANGED <<buf, start, count, appended, subs, chan, joined, missed>>
  <2>1. at[s] \in {1, 2}
    <3>1. at[s] \in 1..4 BY <1>0 DEF Console!TypeOK
    <3>2. at[s] < 3 BY DEF Console!SendBurst, Console!Does, Console!Live
    <3> QED BY <3>1, <3>2
  <2>2. at[s] # 2 BY DEF Console!SendBurst, Console!Does, Console!Order
  <2>3. at[s] = 1 BY <2>1, <2>2
  <2>4. at' = [at EXCEPT ![s] = at[s] + 1] BY DEF Console!SendBurst, Console!Does
  <2>5. at' = [at EXCEPT ![s] = 2] BY <2>3, <2>4
  <2> QED BY <2>3, <2>5 DEF Console!SendBurst, Console!ring
<1>2. PICK m : m = IF Burst = 0 \/ Burst > count THEN count ELSE Burst OBVIOUS
<1>3. /\ m \in 0..count /\ count \in Nat /\ appended \in 0..MaxLines /\ count <= appended
      /\ MaxLines \in Nat
  BY <1>0, <1>2, ConsoleAssumption DEF Console!TypeOK, RingHeld
<1>4. Console!Last(Burst) = Console!Newest(m) BY <1>0, <1>2, LastIsNewest, ConsoleAssumption
<1>5. PICK q : q = Console!Newest(m) OBVIOUS
<1>6. q = [i \in 1..m |-> appended - m + i] BY <1>5 DEF Console!Newest
<1>7. /\ DOMAIN q = 1..m /\ \A i \in 1..m : q[i] \in Console!Lines /\ q[i] <= appended
      /\ \A i, j \in 1..m : i < j => q[i] < q[j]
  BY <1>3, <1>6 DEF Console!Lines
<1>8. q \in Seq(Console!Lines) BY <1>3, <1>6, <1>7
<1>9. sent'[s] = q /\ chan'[s] = << >> /\ at'[s] = 2 /\ missed'[s] = {}
  BY <1>0, <1>1, <1>4, <1>5 DEF Console!TypeOK, StreamQuiet, Console!Live
<1>10. All(s)' = q BY <1>8, <1>9, ConcatEmptySeq DEF All
<1>11. StreamOrdered(s)' BY <1>1, <1>7, <1>10 DEF StreamOrdered, Console!Increasing
<1>12. StreamWhole(s)' /\ StreamQuiet(s)'
  BY <1>9 DEF StreamWhole, StreamQuiet, Console!Live
<1>13. sent' \in [Streams -> Seq(Console!Lines)] /\ at' \in [Streams -> 1..4]
  BY <1>0, <1>1, <1>4, <1>5, <1>8 DEF Console!TypeOK
<1>14. subs' = {u \in Streams : at'[u] = Console!Live}
  BY <1>0, <1>1 DEF Console!TypeOK, Console!Live
<1>15. Console!TypeOK' BY <1>0, <1>1, <1>13, <1>14 DEF Console!TypeOK
<1> QED BY <1>0, <1>1, <1>11, <1>12, <1>15, OneStream DEF Console!TypeOK

LEMMA ConsoleSubscribes ==
    ASSUME ConsoleInv, NEW s \in Streams, Console!Subscribe(s) PROVE ConsoleInv'
<1>0. Console!TypeOK /\ StreamOrdered(s) /\ StreamQuiet(s) BY DEF ConsoleInv
<1>1. /\ at[s] = 2 /\ at' = [at EXCEPT ![s] = 3]
      /\ subs' = subs \cup {s} /\ joined' = [joined EXCEPT ![s] = appended]
      /\ UNCHANGED <<buf, start, count, appended, chan, sent, missed>>
  <2>1. at[s] \in {1, 2}
    <3>1. at[s] \in 1..4 BY <1>0 DEF Console!TypeOK
    <3>2. at[s] < 3 BY DEF Console!Subscribe, Console!Does, Console!Live
    <3> QED BY <3>1, <3>2
  <2>2. at[s] # 1 BY DEF Console!Subscribe, Console!Does, Console!Order
  <2>3. at[s] = 2 BY <2>1, <2>2
  <2>4. at' = [at EXCEPT ![s] = at[s] + 1] BY DEF Console!Subscribe, Console!Does
  <2>5. at' = [at EXCEPT ![s] = 3] BY <2>3, <2>4
  <2> QED BY <2>3, <2>5 DEF Console!Subscribe, Console!ring
<1>2. appended \in 0..MaxLines /\ MaxLines \in Nat
  BY <1>0, ConsoleAssumption DEF Console!TypeOK
<1>3. /\ at' \in [Streams -> 1..4] /\ at'[s] = 3 /\ joined'[s] = appended
      /\ joined' \in [Streams -> 0..MaxLines]
      /\ subs' = {u \in Streams : at'[u] = Console!Live}
  BY <1>0, <1>1, <1>2 DEF Console!TypeOK, Console!Live
<1>4. Console!TypeOK' BY <1>0, <1>1, <1>3 DEF Console!TypeOK
<1>5. All(s)' = All(s) BY <1>1 DEF All
<1>6. StreamOrdered(s)' BY <1>0, <1>1, <1>5 DEF StreamOrdered
<1>7. missed'[s] = {} BY <1>0, <1>1 DEF StreamQuiet, Console!Live
<1>8. StreamWhole(s)' BY <1>1, <1>2, <1>3, <1>7 DEF StreamWhole
<1>9. StreamQuiet(s)' BY <1>3 DEF StreamQuiet, Console!Live
<1> QED BY <1>0, <1>1, <1>4, <1>6, <1>8, <1>9, OneStream DEF Console!TypeOK

LEMMA ConsoleDrains ==
    ASSUME ConsoleInv, NEW s \in Streams, Console!Drain(s) PROVE ConsoleInv'
<1>0. Console!TypeOK /\ StreamOrdered(s) /\ StreamWhole(s) BY DEF ConsoleInv
<1>1. PICK n \in 1..Len(chan[s]) :
         /\ sent' = [sent EXCEPT ![s] = @ \o SubSeq(chan[s], 1, n)]
         /\ chan' = [chan EXCEPT ![s] = SubSeq(@, n + 1, Len(@))]
  BY DEF Console!Drain
<1>2. /\ at[s] = Console!Live
      /\ UNCHANGED <<buf, start, count, appended, subs, at, joined, missed>>
  BY DEF Console!Drain, Console!ring
<1>3. PICK a, c : a = sent[s] /\ c = chan[s] OBVIOUS
<1>4. a \in Seq(Console!Lines) /\ c \in Seq(Console!Lines) /\ Len(c) <= Queue
      /\ n \in 1..Len(c) /\ Len(c) \in Nat /\ Queue \in Nat
  BY <1>0, <1>3, ConsoleAssumption DEF Console!TypeOK
<1>x. PICK x : x = SubSeq(c, 1, n) OBVIOUS
<1>y. PICK y : y = SubSeq(c, n + 1, Len(c)) OBVIOUS
<1>5. /\ a \o x \in Seq(Console!Lines) /\ y \in Seq(Console!Lines)
      /\ Len(y) = Len(c) - n /\ (a \o x) \o y = a \o c
  <2>1. x \in Seq(Console!Lines) /\ y \in Seq(Console!Lines)
        /\ Len(y) = Len(c) - n /\ x \o y = c
    BY <1>4, <1>x, <1>y, Halves
  <2>2. (a \o x) \o y = a \o (x \o y)
    <3>1. /\ a \in Seq(Console!Lines) /\ x \in Seq(Console!Lines)
          /\ y \in Seq(Console!Lines)
      BY <1>4, <2>1
    <3> QED BY <3>1, Regroup
  <2>3. a \o x \in Seq(Console!Lines) BY <1>4, <2>1, ConcatProperties
  <2> QED BY <2>1, <2>2, <2>3
<1>6. /\ sent'[s] = a \o x /\ chan'[s] = y
      /\ \A u \in Streams \ {s} : sent'[u] = sent[u] /\ chan'[u] = chan[u]
  BY <1>0, <1>1, <1>3, <1>x, <1>y DEF Console!TypeOK
<1>7. /\ sent' \in [Streams -> Seq(Console!Lines)] /\ chan' \in [Streams -> Seq(Console!Lines)]
      /\ \A u \in Streams : Len(chan'[u]) <= Queue
  <2>1. Len(chan'[s]) <= Queue BY <1>4, <1>5, <1>6
  <2>2. sent' \in [Streams -> Seq(Console!Lines)]
    BY <1>0, <1>1, <1>3, <1>5, <1>x, <1>y DEF Console!TypeOK
  <2>3. chan' \in [Streams -> Seq(Console!Lines)]
    BY <1>0, <1>1, <1>3, <1>5, <1>x, <1>y DEF Console!TypeOK
  <2> QED BY <1>0, <1>6, <2>1, <2>2, <2>3 DEF Console!TypeOK
<1>8. Console!TypeOK' BY <1>0, <1>2, <1>7 DEF Console!TypeOK
<1>9. All(s)' = All(s) BY <1>3, <1>5, <1>6 DEF All
<1>10. StreamOrdered(s)' /\ StreamWhole(s)'
  BY <1>0, <1>2, <1>9 DEF StreamOrdered, StreamWhole
<1>11. StreamQuiet(s)' BY <1>2 DEF StreamQuiet, Console!Live
<1> QED BY <1>2, <1>6, <1>8, <1>10, <1>11, OneStream

LEMMA ConsoleLeaves ==
    ASSUME ConsoleInv, NEW s \in Streams, Console!Leave(s) PROVE ConsoleInv'
<1>0. Console!TypeOK /\ StreamOrdered(s) BY DEF ConsoleInv
<1>1. /\ at[s] = 3 /\ at' = [at EXCEPT ![s] = 4] /\ subs' = subs \ {s}
      /\ chan' = [chan EXCEPT ![s] = << >>]
      /\ UNCHANGED <<buf, start, count, appended, sent, joined, missed>>
  BY DEF Console!Leave, Console!ring, Console!Live, Console!Gone
<1>2. /\ at' \in [Streams -> 1..4] /\ at'[s] = 4 /\ chan'[s] = << >>
      /\ chan' \in [Streams -> Seq(Console!Lines)]
      /\ \A u \in Streams \ {s} : chan'[u] = chan[u] /\ at'[u] = at[u]
      /\ subs' = {u \in Streams : at'[u] = Console!Live}
  BY <1>0, <1>1 DEF Console!TypeOK, Console!Live
<1>3. \A u \in Streams : Len(chan'[u]) <= Queue
  <2>1. Len(chan'[s]) = 0 BY <1>2
  <2>2. \A u \in Streams : Len(chan[u]) <= Queue BY <1>0 DEF Console!TypeOK
  <2> QED BY <1>2, <2>1, <2>2, ConsoleAssumption
<1>4. Console!TypeOK' BY <1>0, <1>1, <1>2, <1>3 DEF Console!TypeOK
<1>5. /\ sent[s] \in Seq(Console!Lines) /\ chan[s] \in Seq(Console!Lines)
      /\ All(s) \in Seq(Console!Lines)
  BY <1>0, StreamTypes
<1>6. All(s)' = sent[s] BY <1>1, <1>2, <1>5, ConcatEmptySeq DEF All
<1>7. /\ DOMAIN sent[s] \subseteq DOMAIN All(s)
      /\ \A i \in DOMAIN sent[s] : All(s)[i] = sent[s][i]
  <2>1. PICK a, c : a = sent[s] /\ c = chan[s] OBVIOUS
  <2>2. a \in Seq(Console!Lines) /\ c \in Seq(Console!Lines) BY <1>5, <2>1
  <2>3. DOMAIN a \subseteq DOMAIN (a \o c) /\ \A i \in DOMAIN a : (a \o c)[i] = a[i]
    BY <2>2
  <2> QED BY <2>1, <2>3 DEF All
<1>8. StreamOrdered(s)' BY <1>0, <1>1, <1>6, <1>7 DEF StreamOrdered, Console!Increasing
<1>9. StreamWhole(s)' /\ StreamQuiet(s)' BY <1>2 DEF StreamWhole, StreamQuiet, Console!Live
<1> QED BY <1>1, <1>2, <1>4, <1>8, <1>9, OneStream

LEMMA ConsoleStep == ConsoleInv /\ [Console!Next]_consoleVars => ConsoleInv'
<1> SUFFICES ASSUME ConsoleInv, [Console!Next]_consoleVars PROVE ConsoleInv' OBVIOUS
<1>1. CASE Console!AppendLine BY <1>1, ConsoleAppends
<1>2. ASSUME NEW s \in Streams,
             Console!SendBurst(s) \/ Console!Subscribe(s) \/ Console!Drain(s) \/ Console!Leave(s)
      PROVE  ConsoleInv'
  BY <1>2, ConsoleBurst, ConsoleSubscribes, ConsoleDrains, ConsoleLeaves
<1>3. CASE UNCHANGED consoleVars
  <2>1. Console!TypeOK' BY <1>3 DEF ConsoleInv, consoleVars, Console!TypeOK
  <2>2. RingHeld' BY <1>3 DEF ConsoleInv, consoleVars, RingHeld, Slot
  <2>3. \A s \in Streams : StreamOrdered(s)' /\ StreamWhole(s)' /\ StreamQuiet(s)'
    BY <1>3, StreamRests DEF ConsoleInv, consoleVars
  <2> QED BY <2>1, <2>2, <2>3 DEF ConsoleInv
<1> QED BY <1>1, <1>2, <1>3 DEF Console!Next

LEMMA ConsoleInvariance == Spec => []ConsoleInv
<1>1. Init => ConsoleInv BY ConsoleInit DEF Init
<1>2. ConsoleInv /\ [Next]_vars => ConsoleInv'
  <2>1. [Next]_vars => [Console!Next]_consoleVars BY DEF Next, vars, consoleVars
  <2> QED BY <2>1, ConsoleStep
<1> QED BY <1>1, <1>2, PTL DEF Spec

(* The ring holds the newest lines, and Last returns them in order         *)
(* (console.go), for any capacity and any number of lines.                 *)
THEOREM RingHoldsNewest == Spec => []RingIsTail
<1>1. ConsoleInv => RingIsTail
  <2> SUFFICES ASSUME ConsoleInv PROVE RingIsTail OBVIOUS
  <2>1. Console!TypeOK /\ RingHeld BY DEF ConsoleInv
  <2>2. \A n \in 0..Capacity + 1 : n \in Nat BY ConsoleAssumption
  <2>3. \A n \in 0..Capacity + 1 :
           Console!Last(n) = Console!Newest(IF n = 0 \/ n > count THEN count ELSE n)
    BY <2>1, <2>2, LastIsNewest
  <2>4. count = IF appended < Capacity THEN appended ELSE Capacity BY <2>1 DEF RingHeld
  <2> QED BY <2>3, <2>4 DEF RingIsTail, Console!RingIsTail
<1> QED BY <1>1, ConsoleInvariance, PTL

(* A stream sends its client every line after its subscription, once and   *)
(* in order, but those that its full channel dropped (console.go,          *)
(* api_servers.go 371-430).                                                *)
THEOREM StreamsInOrder == Spec => []StreamInOrder
<1>1. ConsoleInv => StreamInOrder
  <2> SUFFICES ASSUME ConsoleInv, NEW s \in Streams
               PROVE  LET all == sent[s] \o chan[s]
                      IN  /\ Console!Increasing(all)
                          /\ at[s] = Console!Live =>
                                \A n \in joined[s] + 1..appended :
                                   n \in Console!Range(all) <=> n \notin missed[s]
    BY DEF StreamInOrder, Console!StreamInOrder
  <2>1. StreamOrdered(s) /\ StreamWhole(s) BY DEF ConsoleInv
  <2> QED BY <2>1 DEF StreamOrdered, StreamWhole, All
<1> QED BY <1>1, ConsoleInvariance, PTL

-----------------------------------------------------------------------------
(* Completion: the first solid symbols of a text, and the places of a      *)
(* closing tag, symbol by symbol                                           *)
Text == Seq(Completion!Symbols)

Begun(t) == Len(t) >= 2 /\ t[1] = "<" /\ t[2] = ">"

Closes(r, i) == i + 2 <= Len(r) /\ r[i] = "<" /\ r[i + 1] = "/" /\ r[i + 2] = ">"

Rest(s) == Completion!From(Completion!Trim(s), 3)

(* Too little has come to tell whether the text begins with reasoning. *)
Undecided ==
    LET t == Completion!Trim(text)
    IN  /\ parser.state = "detecting" /\ parser.buf = text
        /\ parser.content = << >> /\ parser.reasoning = << >>
        /\ Len(t) < 2 /\ (Len(t) = 1 => t[1] = "<")

(* The reasoning has begun and not ended: what is kept back may be the     *)
(* beginning of its end.                                                   *)
Thinking ==
    /\ parser.state = "inside" /\ parser.content = << >>
    /\ Begun(Completion!Trim(text))
    /\ Rest(text) = parser.reasoning \o parser.buf
    /\ \A i \in 1..Len(Rest(text)) : ~Closes(Rest(text), i)
    /\ parser.reasoning = << >> \/ Len(parser.buf) >= 2

(* There is no reasoning, or it has ended at i. *)
Plain ==
    LET t == Completion!Trim(text)
    IN  /\ Len(t) >= 1 /\ ~Begun(t) /\ (Len(t) = 1 => t[1] # "<")
        /\ parser.content = text /\ parser.reasoning = << >>

EndsAt(i) ==
    /\ i \in 1..Len(Rest(text)) /\ Closes(Rest(text), i)
    /\ \A j \in 1..Len(Rest(text)) : Closes(Rest(text), j) => i <= j
    /\ parser.content = Completion!From(Rest(text), i + 3)
    /\ parser.reasoning = SubSeq(Rest(text), 1, i - 1)

Decided ==
    /\ parser.state = "normal" /\ parser.buf = << >>
    /\ Plain \/ (Begun(Completion!Trim(text)) /\ \E i \in Nat : EndsAt(i))

CompletionInv ==
    /\ text \in Text
    /\ parser \in [state : {"detecting", "inside", "normal"},
                   buf : Text, content : Text, reasoning : Text]
    /\ Undecided \/ Thinking \/ Decided

-----------------------------------------------------------------------------
LEMMA MinIsLeast ==
    ASSUME NEW S \in SUBSET Nat, S # {}
    PROVE  Completion!Min(S) \in S /\ \A y \in S : Completion!Min(S) <= y
BY LeastOf DEF Completion!Min

LEMMA LeastIsMin ==
    ASSUME NEW S \in SUBSET Nat, NEW x \in S, \A y \in S : x <= y
    PROVE  Completion!Min(S) = x
<1>1. Completion!Min(S) \in S /\ \A y \in S : Completion!Min(S) <= y BY MinIsLeast
<1>2. Completion!Min(S) <= x /\ x <= Completion!Min(S) BY <1>1
<1>3. Completion!Min(S) \in Nat /\ x \in Nat BY <1>1
<1> QED BY <1>2, <1>3

LEMMA Tags ==
    /\ Completion!Open \in Text /\ Len(Completion!Open) = 2
    /\ Completion!Open[1] = "<" /\ Completion!Open[2] = ">"
    /\ Completion!Close \in Text /\ Len(Completion!Close) = 3
    /\ Completion!Close[1] = "<" /\ Completion!Close[2] = "/" /\ Completion!Close[3] = ">"
    /\ Completion!Kept = 2
BY DEF Completion!Open, Completion!Close, Completion!Kept, Text, Completion!Symbols

LEMMA FromIs ==
    ASSUME NEW s, s \in Text, NEW i \in 1..Len(s) + 1
    PROVE  /\ Completion!From(s, i) \in Text
           /\ Len(Completion!From(s, i)) = Len(s) - i + 1
           /\ \A j \in 1..Len(s) - i + 1 : Completion!From(s, i)[j] = s[i + j - 1]
<1>1. Len(s) \in Nat /\ \A k \in 1..Len(s) : s[k] \in Completion!Symbols
  BY ElementOfSeq DEF Text
<1>2. i \in Int /\ \A k \in i..Len(s) : s[k] \in Completion!Symbols BY <1>1
<1> QED BY <1>1, <1>2, SubSeqProperties DEF Text, Completion!From

LEMMA UpToIs ==
    ASSUME NEW s, s \in Text, NEW i \in 0..Len(s)
    PROVE  /\ SubSeq(s, 1, i) \in Text
           /\ Len(SubSeq(s, 1, i)) = i
           /\ \A j \in 1..i : SubSeq(s, 1, i)[j] = s[j]
<1>1. Len(s) \in Nat /\ \A k \in 1..Len(s) : s[k] \in Completion!Symbols
  BY ElementOfSeq DEF Text
<1>2. i \in Int /\ \A k \in 1..i : s[k] \in Completion!Symbols BY <1>1
<1> QED BY <1>1, <1>2, SubSeqProperties DEF Text

LEMMA Together ==
    ASSUME NEW s, s \in Text, NEW c, c \in Text
    PROVE  /\ s \o c \in Text /\ Len(s \o c) = Len(s) + Len(c)
           /\ Len(s) \in Nat /\ Len(c) \in Nat
           /\ \A i \in 1..Len(s) : (s \o c)[i] = s[i]
           /\ \A i \in 1..Len(c) : (s \o c)[Len(s) + i] = c[i]
BY ConcatProperties DEF Text

LEMMA SameText ==
    ASSUME NEW s, s \in Text, NEW t, t \in Text, Len(s) = Len(t),
           \A i \in 1..Len(s) : s[i] = t[i]
    PROVE  s = t
BY SeqEqual DEF Text

LEMMA EmptyText ==
    ASSUME NEW s, s \in Text
    PROVE  /\ << >> \in Text /\ Len(s) \in Nat /\ (s = << >> <=> Len(s) = 0)
           /\ s \o << >> = s /\ << >> \o s = s
BY EmptySeq, ConcatEmptySeq DEF Text
-----------------------------------------------------------------------------
LEMMA OpenIsBegun ==
    ASSUME NEW t, t \in Text
    PROVE  /\ Completion!IsPrefix(Completion!Open, t) <=> Begun(t)
           /\ Completion!IsStrictPrefix(t, Completion!Open)
                 <=> Len(t) < 2 /\ (Len(t) = 1 => t[1] = "<")
<1> DEFINE o == Completion!Open
<1>0. /\ o \in Text /\ Len(o) = 2 /\ o[1] = "<" /\ o[2] = ">" /\ Len(t) \in Nat BY Tags, EmptyText
<1> HIDE DEF o
<1>1. Completion!IsPrefix(o, t) <=> Begun(t)
  <2>1. SUFFICES ASSUME Len(t) >= 2 PROVE SubSeq(o, 1, 2) = SubSeq(t, 1, 2) <=> Begun(t)
    BY <1>0 DEF Completion!IsPrefix, Begun
  <2>2. PICK x, y : x = SubSeq(o, 1, 2) /\ y = SubSeq(t, 1, 2) OBVIOUS
  <2>3. 2 \in 0..Len(o) /\ 2 \in 0..Len(t) BY <1>0, <2>1
  <2>4. x \in Text /\ Len(x) = 2 /\ \A j \in 1..2 : x[j] = o[j] BY <1>0, <2>2, <2>3, UpToIs
  <2>5. y \in Text /\ Len(y) = 2 /\ \A j \in 1..2 : y[j] = t[j] BY <1>0, <2>2, <2>3, UpToIs
  <2>6. x[1] = "<" /\ x[2] = ">" /\ y[1] = t[1] /\ y[2] = t[2] BY <1>0, <2>4, <2>5
  <2>7. x = y => Begun(t) BY <2>1, <2>6 DEF Begun
  <2>8. ASSUME Begun(t) PROVE x = y
    <3>1. \A j \in 1..2 : x[j] = y[j] BY <2>6, <2>8 DEF Begun
    <3> QED BY <2>4, <2>5, <3>1, SameText
  <2> QED BY <2>2, <2>7, <2>8
<1>2. Completion!IsStrictPrefix(t, o) <=> Len(t) < 2 /\ (Len(t) = 1 => t[1] = "<")
  <2>1. CASE Len(t) >= 2
    <3>1. ASSUME Completion!IsStrictPrefix(t, o) PROVE FALSE
      <4>1. Len(t) = 2 /\ SubSeq(t, 1, 2) = SubSeq(o, 1, 2) /\ t # o
        BY <1>0, <2>1, <3>1 DEF Completion!IsStrictPrefix, Completion!IsPrefix
      <4>2. SubSeq(t, 1, 2) = t /\ SubSeq(o, 1, 2) = o BY <1>0, <4>1, SubSeqFull DEF Text
      <4> QED BY <4>1, <4>2
    <3> QED BY <1>0, <2>1, <3>1
  <2>2. CASE Len(t) = 1
    <3>1. t # o BY <1>0, <2>2
    <3>2. PICK x, y : x = SubSeq(o, 1, 1) /\ y = SubSeq(t, 1, 1) OBVIOUS
    <3>3. 1 \in 0..Len(o) /\ 1 \in 0..Len(t) BY <1>0, <2>2
    <3>4. x \in Text /\ Len(x) = 1 /\ \A j \in 1..1 : x[j] = o[j]
      BY <1>0, <3>2, <3>3, UpToIs
    <3>5. y \in Text /\ Len(y) = 1 /\ \A j \in 1..1 : y[j] = t[j]
      BY <1>0, <3>2, <3>3, UpToIs
    <3>6. x = y <=> t[1] = "<"
      <4>1. x = y => t[1] = "<" BY <1>0, <3>4, <3>5
      <4>2. ASSUME t[1] = "<" PROVE x = y
        <5>1. \A j \in 1..1 : x[j] = y[j] BY <1>0, <3>4, <3>5, <4>2
        <5> QED BY <3>4, <3>5, <5>1, SameText
      <4> QED BY <4>1, <4>2
    <3> QED BY <1>0, <2>2, <3>1, <3>2, <3>6 DEF Completion!IsStrictPrefix, Completion!IsPrefix
  <2>3. CASE Len(t) = 0
    <3>1. t # o BY <1>0, <2>3
    <3>2. SubSeq(t, 1, 0) = << >> /\ SubSeq(o, 1, 0) = << >> BY SubSeqEmpty
    <3> QED BY <1>0, <2>3, <3>1, <3>2 DEF Completion!IsStrictPrefix, Completion!IsPrefix
  <2>4. Len(t) = 0 \/ Len(t) = 1 \/ Len(t) >= 2
    <3>1. PICK n : n = Len(t) OBVIOUS
    <3>2. n \in Nat BY <1>0, <3>1
    <3>3. n = 0 \/ n = 1 \/ n >= 2 BY <3>2
    <3> QED BY <3>1, <3>3
  <2> QED BY <2>1, <2>2, <2>3, <2>4
<1> QED BY <1>1, <1>2 DEF o

LEMMA PlacesAre ==
    ASSUME NEW r, r \in Text
    PROVE  Completion!Places(r, Completion!Close) = {i \in 1..Len(r) : Closes(r, i)}
<1> DEFINE z == Completion!Close
<1>0. /\ z \in Text /\ Len(z) = 3 /\ z[1] = "<" /\ z[2] = "/" /\ z[3] = ">"
      /\ Len(r) \in Nat /\ DOMAIN r = 1..Len(r)
  BY Tags, EmptyText DEF Text
<1> HIDE DEF z
<1>1. ASSUME NEW i \in 1..Len(r)
      PROVE  Completion!IsPrefix(z, Completion!From(r, i)) <=> Closes(r, i)
  <2>1. PICK f : f = Completion!From(r, i) OBVIOUS
  <2>2. i \in 1..Len(r) + 1 BY <1>0
  <2>3. /\ f \in Text /\ Len(f) = Len(r) - i + 1
        /\ \A j \in 1..Len(r) - i + 1 : f[j] = r[i + j - 1]
    BY <2>1, <2>2, FromIs
  <2>4. CASE Len(f) < 3 BY <1>0, <2>1, <2>3, <2>4 DEF Completion!IsPrefix, Closes
  <2>5. CASE Len(f) >= 3
    <3>1. PICK x, y : x = SubSeq(z, 1, 3) /\ y = SubSeq(f, 1, 3) OBVIOUS
    <3>2. 3 \in 0..Len(z) /\ 3 \in 0..Len(f) BY <1>0, <2>3, <2>5
    <3>3. x \in Text /\ Len(x) = 3 /\ \A j \in 1..3 : x[j] = z[j] BY <1>0, <3>1, <3>2, UpToIs
    <3>4. y \in Text /\ Len(y) = 3 /\ \A j \in 1..3 : y[j] = f[j] BY <2>3, <3>1, <3>2, UpToIs
    <3>5. f[1] = r[i] /\ f[2] = r[i + 1] /\ f[3] = r[i + 2] BY <1>0, <2>3, <2>5
    <3>6. i + 2 <= Len(r) BY <1>0, <2>3, <2>5
    <3>7. /\ x[1] = "<" /\ x[2] = "/" /\ x[3] = ">"
          /\ y[1] = r[i] /\ y[2] = r[i + 1] /\ y[3] = r[i + 2]
      BY <1>0, <3>3, <3>4, <3>5
    <3>8. x = y => Closes(r, i) BY <3>6, <3>7 DEF Closes
    <3>9. ASSUME Closes(r, i) PROVE x = y
      <4>1. \A j \in 1..3 : x[j] = y[j] BY <3>7, <3>9 DEF Closes
      <4> QED BY <3>3, <3>4, <4>1, SameText
    <3> QED BY <1>0, <2>1, <2>5, <3>1, <3>8, <3>9 DEF Completion!IsPrefix
  <2> QED BY <1>0, <2>3, <2>4, <2>5
<1>2. Completion!Places(r, z) = {i \in 1..Len(r) : Completion!IsPrefix(z, Completion!From(r, i))}
  BY <1>0 DEF Completion!Places
<1>3. Completion!Places(r, z) = {i \in 1..Len(r) : Closes(r, i)} BY <1>1, <1>2
<1> QED BY <1>3 DEF z

LEMMA TrimIs ==
    ASSUME NEW s, s \in Text
    PROVE  /\ Completion!Trim(s) \in Text
           /\ \A c : c \in Text /\ Completion!Trim(s) # << >> =>
                 Completion!Trim(s \o c) = Completion!Trim(s) \o c
<1> DEFINE Solid(w) == {i \in DOMAIN w : w[i] # Completion!Blank}
           m == Completion!Min(Solid(s))
<1>0. Len(s) \in Nat /\ DOMAIN s = 1..Len(s) BY EmptyText DEF Text
<1>1. CASE Solid(s) = {} BY <1>1, EmptyText DEF Completion!Trim
<1>2. CASE Solid(s) # {}
  <2>1. Solid(s) \in SUBSET Nat BY <1>0
  <2>2. m \in Solid(s) /\ \A y \in Solid(s) : m <= y BY <1>2, <2>1, MinIsLeast
  <2>3. m \in 1..Len(s) BY <1>0, <2>2
  <2>4. Completion!Trim(s) = Completion!From(s, m) BY <1>2 DEF Completion!Trim
  <2> HIDE DEF m
  <2>5. ASSUME NEW c, c \in Text PROVE Completion!Trim(s \o c) = Completion!Trim(s) \o c
    <3>1. PICK w : w = s \o c OBVIOUS
    <3>2. /\ w \in Text /\ Len(w) = Len(s) + Len(c) /\ Len(c) \in Nat
          /\ \A i \in 1..Len(s) : w[i] = s[i]
          /\ \A i \in 1..Len(c) : w[Len(s) + i] = c[i]
      BY <2>5, <3>1, Together
    <3>3. DOMAIN w = 1..Len(w) BY <3>2 DEF Text
    <3>4. m \in Solid(w) BY <1>0, <2>2, <2>3, <3>2, <3>3
    <3>5. \A y \in Solid(w) : m <= y
      <4>1. SUFFICES ASSUME NEW y \in Solid(w), y < m PROVE FALSE
        BY <1>0, <2>3, <3>2, <3>3
      <4>2. y \in 1..Len(s) BY <1>0, <2>3, <3>2, <3>3, <4>1
      <4>3. y \in Solid(s) BY <1>0, <3>2, <4>2
      <4> QED BY <1>0, <2>2, <2>3, <4>1, <4>2, <4>3
    <3>6. Solid(w) \in SUBSET Nat BY <3>2, <3>3
    <3> DEFINE S == Solid(w)
    <3>7. Completion!Min(S) = m
      <4> HIDE DEF S
      <4> QED BY <3>4, <3>5, <3>6, LeastIsMin DEF S
    <3>8. Completion!Trim(w) = Completion!From(w, m) BY <3>4, <3>7 DEF Completion!Trim
    <3> HIDE DEF Solid
    <3>9. PICK a : a = Completion!From(s, m) OBVIOUS
    <3>10. PICK b : b = Completion!From(w, m) OBVIOUS
    <3>11. m \in 1..Len(s) + 1 /\ m \in 1..Len(w) + 1 BY <1>0, <2>3, <3>2
    <3>12. /\ a \in Text /\ Len(a) = Len(s) - m + 1
           /\ \A j \in 1..Len(s) - m + 1 : a[j] = s[m + j - 1]
      BY <3>9, <3>11, FromIs
    <3>13. /\ b \in Text /\ Len(b) = Len(w) - m + 1
           /\ \A j \in 1..Len(w) - m + 1 : b[j] = w[m + j - 1]
      BY <3>2, <3>10, <3>11, FromIs
    <3>14. PICK d : d = a \o c OBVIOUS
    <3>15. /\ d \in Text /\ Len(d) = Len(a) + Len(c)
           /\ \A i \in 1..Len(a) : d[i] = a[i]
           /\ \A i \in 1..Len(c) : d[Len(a) + i] = c[i]
      <4>1. a \in Text BY <3>12
      <4> QED BY <2>5, <3>14, <4>1, Together
    <3>16. ASSUME NEW j \in 1..Len(b) PROVE b[j] = d[j]
      <4>1. CASE j <= Len(a)
        <5>1. m + j - 1 \in 1..Len(s) BY <1>0, <2>3, <3>12, <3>16, <4>1
        <5>2. j \in 1..Len(a) /\ j \in 1..Len(s) - m + 1 /\ j \in 1..Len(w) - m + 1
          BY <1>0, <2>3, <3>2, <3>12, <3>13, <3>16, <4>1
        <5> QED BY <3>2, <3>12, <3>13, <3>15, <5>1, <5>2
      <4>2. CASE j > Len(a)
        <5>1. PICK k : k = j - Len(a) OBVIOUS
        <5>2. k \in 1..Len(c) /\ Len(a) + k = j /\ m + j - 1 = Len(s) + k
              /\ j \in 1..Len(w) - m + 1
          BY <1>0, <2>3, <3>2, <3>12, <3>13, <3>16, <4>2, <5>1
        <5> QED BY <3>2, <3>13, <3>15, <5>2
      <4> QED BY <1>0, <2>3, <3>12, <3>16, <4>1, <4>2
    <3>17. Len(b) = Len(d) BY <1>0, <2>3, <3>2, <3>12, <3>13, <3>15
    <3>18. b = d BY <3>13, <3>15, <3>16, <3>17, SameText
    <3> QED BY <2>4, <3>1, <3>8, <3>9, <3>10, <3>14, <3>18
  <2>6. Completion!Trim(s) \in Text
    <3>1. m \in 1..Len(s) + 1 BY <1>0, <2>3
    <3> QED BY <2>4, <3>1, FromIs
  <2> QED BY <2>5, <2>6
<1> QED BY <1>1, <1>2
-----------------------------------------------------------------------------
(* A longer text: its beginning, once told, stays, and so does its rest.   *)
LEMMA BegunGrows ==
    ASSUME NEW t, t \in Text, NEW c, c \in Text, Len(t) >= 1,
           Len(t) = 1 => t[1] # "<"
    PROVE  Begun(t \o c) <=> Begun(t)
<1>1. PICK w : w = t \o c OBVIOUS
<1>2. /\ Len(w) = Len(t) + Len(c) /\ Len(t) \in Nat /\ Len(c) \in Nat
      /\ \A i \in 1..Len(t) : w[i] = t[i]
  BY <1>1, Together
<1>3. w[1] = t[1] /\ (Len(t) >= 2 => w[2] = t[2]) BY <1>2
<1>4. CASE Len(t) >= 2 BY <1>1, <1>2, <1>3, <1>4 DEF Begun
<1>5. CASE Len(t) = 1 BY <1>1, <1>2, <1>3, <1>5 DEF Begun
<1>6. Len(t) = 1 \/ Len(t) >= 2
  <2>1. PICK n : n = Len(t) OBVIOUS
  <2>2. n \in Nat /\ n >= 1 BY <1>2, <2>1
  <2>3. n = 1 \/ n >= 2 BY <2>2
  <2> QED BY <2>1, <2>3
<1> QED BY <1>4, <1>5, <1>6

LEMMA FromGrows ==
    ASSUME NEW s, s \in Text, NEW c, c \in Text, NEW i \in 1..Len(s) + 1
    PROVE  Completion!From(s \o c, i) = Completion!From(s, i) \o c
<1>1. PICK w : w = s \o c OBVIOUS
<1>2. /\ w \in Text /\ Len(w) = Len(s) + Len(c) /\ Len(s) \in Nat /\ Len(c) \in Nat
      /\ \A k \in 1..Len(s) : w[k] = s[k]
      /\ \A k \in 1..Len(c) : w[Len(s) + k] = c[k]
  BY <1>1, Together
<1>3. PICK a : a = Completion!From(s, i) OBVIOUS
<1>4. PICK b : b = Completion!From(w, i) OBVIOUS
<1>5. /\ a \in Text /\ Len(a) = Len(s) - i + 1
      /\ \A j \in 1..Len(s) - i + 1 : a[j] = s[i + j - 1]
  BY <1>3, FromIs
<1>6. i \in 1..Len(w) + 1 BY <1>2
<1>7. /\ b \in Text /\ Len(b) = Len(w) - i + 1
      /\ \A j \in 1..Len(w) - i + 1 : b[j] = w[i + j - 1]
  BY <1>2, <1>4, <1>6, FromIs
<1>8. PICK d : d = a \o c OBVIOUS
<1>9. /\ d \in Text /\ Len(d) = Len(a) + Len(c)
      /\ \A k \in 1..Len(a) : d[k] = a[k]
      /\ \A k \in 1..Len(c) : d[Len(a) + k] = c[k]
  <2>1. a \in Text BY <1>5
  <2> QED BY <1>8, <2>1, Together
<1>10. ASSUME NEW j \in 1..Len(b) PROVE b[j] = d[j]
  <2>1. CASE j <= Len(a)
    <3>1. /\ i + j - 1 \in 1..Len(s) /\ j \in 1..Len(a) /\ j \in 1..Len(s) - i + 1
          /\ j \in 1..Len(w) - i + 1
      BY <1>2, <1>5, <1>7, <1>10, <2>1
    <3> QED BY <1>2, <1>5, <1>7, <1>9, <3>1
  <2>2. CASE j > Len(a)
    <3>1. PICK k : k = j - Len(a) OBVIOUS
    <3>2. /\ k \in 1..Len(c) /\ Len(a) + k = j /\ i + j - 1 = Len(s) + k
          /\ j \in 1..Len(w) - i + 1
      BY <1>2, <1>5, <1>7, <1>10, <2>2, <3>1
    <3> QED BY <1>2, <1>7, <1>9, <3>2
  <2> QED BY <1>2, <1>5, <1>10, <2>1, <2>2
<1>11. Len(b) = Len(d) BY <1>2, <1>5, <1>7, <1>9
<1>12. b = d BY <1>7, <1>9, <1>10, <1>11, SameText
<1> QED BY <1>1, <1>3, <1>4, <1>8, <1>12

LEMMA RestGrows ==
    ASSUME NEW s, s \in Text, NEW c, c \in Text, Begun(Completion!Trim(s))
    PROVE  /\ Rest(s) \in Text /\ Rest(s \o c) = Rest(s) \o c
           /\ Begun(Completion!Trim(s \o c))
<1>1. PICK t : t = Completion!Trim(s) OBVIOUS
<1>2. t \in Text BY <1>1, TrimIs
<1>3. Len(t) \in Nat /\ Len(t) >= 2 /\ t # << >> BY <1>1, <1>2, EmptyText DEF Begun
<1>4. Completion!Trim(s \o c) = t \o c BY <1>1, <1>3, TrimIs
<1>5. 3 \in 1..Len(t) + 1 BY <1>3
<1>6. Completion!From(t \o c, 3) = Completion!From(t, 3) \o c BY <1>2, <1>5, FromGrows
<1>7. Completion!From(t, 3) \in Text BY <1>2, <1>5, FromIs
<1>8. Len(t) >= 1 /\ (Len(t) = 1 => t[1] # "<") BY <1>3
<1>9. Begun(t \o c) BY <1>1, <1>2, <1>8, BegunGrows
<1> QED BY <1>1, <1>4, <1>6, <1>7, <1>9 DEF Rest

(* A closing tag lies in both parts of a text, or in the second, or across *)
(* the cut.                                                                *)
LEMMA ClosesInFirst ==
    ASSUME NEW r, r \in Text, NEW c, c \in Text, NEW i \in 1..Len(r), i + 2 <= Len(r)
    PROVE  Closes(r \o c, i) <=> Closes(r, i)
<1>1. PICK w : w = r \o c OBVIOUS
<1>2. /\ Len(w) = Len(r) + Len(c) /\ Len(r) \in Nat /\ Len(c) \in Nat
      /\ \A k \in 1..Len(r) : w[k] = r[k]
  BY <1>1, Together
<1>3. i \in 1..Len(r) /\ i + 1 \in 1..Len(r) /\ i + 2 \in 1..Len(r) BY <1>2
<1>4. w[i] = r[i] /\ w[i + 1] = r[i + 1] /\ w[i + 2] = r[i + 2] /\ i + 2 <= Len(w)
  BY <1>2, <1>3
<1> QED BY <1>1, <1>4 DEF Closes

LEMMA ClosesInSecond ==
    ASSUME NEW a, a \in Text, NEW b, b \in Text, NEW i \in 1..Len(b)
    PROVE  Closes(a \o b, Len(a) + i) <=> Closes(b, i)
<1>1. PICK w : w = a \o b OBVIOUS
<1>2. /\ Len(w) = Len(a) + Len(b) /\ Len(a) \in Nat /\ Len(b) \in Nat
      /\ \A k \in 1..Len(b) : w[Len(a) + k] = b[k]
  BY <1>1, Together
<1>3. Len(a) + i + 2 <= Len(w) <=> i + 2 <= Len(b) BY <1>2
<1>4. CASE i + 2 > Len(b) BY <1>1, <1>2, <1>3, <1>4 DEF Closes
<1>5. CASE i + 2 <= Len(b)
  <2>1. i + 1 \in 1..Len(b) /\ i + 2 \in 1..Len(b) BY <1>2, <1>5
  <2>2. /\ w[Len(a) + i] = b[i] /\ w[Len(a) + (i + 1)] = b[i + 1]
        /\ w[Len(a) + (i + 2)] = b[i + 2]
    BY <1>2, <2>1
  <2>3. Len(a) + (i + 1) = (Len(a) + i) + 1 /\ Len(a) + (i + 2) = (Len(a) + i) + 2 BY <1>2
  <2>4. /\ w[Len(a) + i] = b[i] /\ w[(Len(a) + i) + 1] = b[i + 1]
        /\ w[(Len(a) + i) + 2] = b[i + 2]
    BY <2>2, <2>3
  <2> QED BY <1>1, <1>3, <1>5, <2>4 DEF Closes
<1> QED BY <1>2, <1>4, <1>5

LEMMA FromSecond ==
    ASSUME NEW a, a \in Text, NEW b, b \in Text, NEW i \in 1..Len(b) + 1
    PROVE  Completion!From(a \o b, Len(a) + i) = Completion!From(b, i)
<1>1. PICK w : w = a \o b OBVIOUS
<1>2. /\ w \in Text /\ Len(w) = Len(a) + Len(b) /\ Len(a) \in Nat /\ Len(b) \in Nat
      /\ \A k \in 1..Len(b) : w[Len(a) + k] = b[k]
  BY <1>1, Together
<1>3. PICK p : p = Len(a) + i OBVIOUS
<1>4. p \in 1..Len(w) + 1 BY <1>2, <1>3
<1>5. PICK x : x = Completion!From(w, p) OBVIOUS
<1>6. PICK y : y = Completion!From(b, i) OBVIOUS
<1>7. /\ x \in Text /\ Len(x) = Len(w) - p + 1
      /\ \A j \in 1..Len(w) - p + 1 : x[j] = w[p + j - 1]
  BY <1>2, <1>4, <1>5, FromIs
<1>8. /\ y \in Text /\ Len(y) = Len(b) - i + 1
      /\ \A j \in 1..Len(b) - i + 1 : y[j] = b[i + j - 1]
  BY <1>6, FromIs
<1>9. Len(x) = Len(y) BY <1>2, <1>3, <1>7, <1>8
<1>10. ASSUME NEW j \in 1..Len(x) PROVE x[j] = y[j]
  <2>1. PICK k : k = i + j - 1 OBVIOUS
  <2>2. /\ k \in 1..Len(b) /\ p + j - 1 = Len(a) + k
        /\ j \in 1..Len(w) - p + 1 /\ j \in 1..Len(b) - i + 1
    BY <1>2, <1>3, <1>7, <1>8, <1>9, <1>10, <2>1
  <2> QED BY <1>2, <1>7, <1>8, <2>1, <2>2
<1>11. x = y BY <1>7, <1>8, <1>9, <1>10, SameText
<1> QED BY <1>1, <1>3, <1>5, <1>6, <1>11

LEMMA UpToGrows ==
    ASSUME NEW r, r \in Text, NEW c, c \in Text, NEW i \in 0..Len(r)
    PROVE  SubSeq(r \o c, 1, i) = SubSeq(r, 1, i)
<1>1. PICK w : w = r \o c OBVIOUS
<1>2. /\ w \in Text /\ Len(w) = Len(r) + Len(c) /\ Len(r) \in Nat /\ Len(c) \in Nat
      /\ \A k \in 1..Len(r) : w[k] = r[k]
  BY <1>1, Together
<1>3. i \in 0..Len(w) /\ i \in Nat BY <1>2
<1>4. PICK x : x = SubSeq(w, 1, i) OBVIOUS
<1>5. PICK y : y = SubSeq(r, 1, i) OBVIOUS
<1>6. x \in Text /\ Len(x) = i /\ \A j \in 1..i : x[j] = w[j] BY <1>2, <1>3, <1>4, UpToIs
<1>7. y \in Text /\ Len(y) = i /\ \A j \in 1..i : y[j] = r[j] BY <1>5, UpToIs
<1>8. \A j \in 1..i : x[j] = y[j] BY <1>2, <1>3, <1>6, <1>7
<1>9. x = y BY <1>6, <1>7, <1>8, SameText
<1> QED BY <1>1, <1>4, <1>5, <1>9

LEMMA UpToSecond ==
    ASSUME NEW a, a \in Text, NEW b, b \in Text, NEW i \in 0..Len(b)
    PROVE  SubSeq(a \o b, 1, Len(a) + i) = a \o SubSeq(b, 1, i)
<1>1. PICK w : w = a \o b OBVIOUS
<1>2. /\ w \in Text /\ Len(w) = Len(a) + Len(b) /\ Len(a) \in Nat /\ Len(b) \in Nat
      /\ \A k \in 1..Len(a) : w[k] = a[k]
      /\ \A k \in 1..Len(b) : w[Len(a) + k] = b[k]
  BY <1>1, Together
<1>3. PICK p : p = Len(a) + i OBVIOUS
<1>4. p \in 0..Len(w) /\ p \in Nat BY <1>2, <1>3
<1>5. PICK x : x = SubSeq(w, 1, p) OBVIOUS
<1>6. PICK y : y = SubSeq(b, 1, i) OBVIOUS
<1>7. x \in Text /\ Len(x) = p /\ \A j \in 1..p : x[j] = w[j] BY <1>2, <1>4, <1>5, UpToIs
<1>8. y \in Text /\ Len(y) = i /\ \A j \in 1..i : y[j] = b[j] BY <1>6, UpToIs
<1>9. PICK d : d = a \o y OBVIOUS
<1>10. /\ d \in Text /\ Len(d) = Len(a) + Len(y)
       /\ \A k \in 1..Len(a) : d[k] = a[k]
       /\ \A k \in 1..Len(y) : d[Len(a) + k] = y[k]
  <2>1. y \in Text BY <1>8
  <2> QED BY <1>9, <2>1, Together
<1>11. Len(x) = Len(d) BY <1>3, <1>7, <1>8, <1>10
<1>12. ASSUME NEW j \in 1..Len(x) PROVE x[j] = d[j]
  <2>1. CASE j <= Len(a)
    <3>1. j \in 1..Len(a) /\ j \in 1..p BY <1>2, <1>7, <1>12, <2>1
    <3> QED BY <1>2, <1>7, <1>10, <3>1
  <2>2. CASE j > Len(a)
    <3>1. PICK k : k = j - Len(a) OBVIOUS
    <3>2. k \in 1..Len(b) /\ k \in 1..i /\ k \in 1..Len(y) /\ Len(a) + k = j /\ j \in 1..p
      BY <1>2, <1>3, <1>7, <1>8, <1>12, <2>2, <3>1
    <3> QED BY <1>2, <1>7, <1>8, <1>10, <3>2
  <2> QED BY <1>2, <1>7, <1>12, <2>1, <2>2
<1>13. x = d BY <1>7, <1>10, <1>11, <1>12, SameText
<1> QED BY <1>1, <1>3, <1>5, <1>6, <1>9, <1>13

(* Cut anywhere, the two parts make the whole. *)
LEMMA CutInTwo ==
    ASSUME NEW b, b \in Text, NEW n \in 0..Len(b)
    PROVE  /\ SubSeq(b, 1, n) \in Text /\ Completion!From(b, n + 1) \in Text
           /\ Len(Completion!From(b, n + 1)) = Len(b) - n
           /\ SubSeq(b, 1, n) \o Completion!From(b, n + 1) = b
<1>1. PICK x : x = SubSeq(b, 1, n) OBVIOUS
<1>2. PICK y : y = Completion!From(b, n + 1) OBVIOUS
<1>3. Len(b) \in Nat BY EmptyText
<1>4. n + 1 \in 1..Len(b) + 1 /\ n \in Nat BY <1>3
<1>5. x \in Text /\ Len(x) = n /\ \A j \in 1..n : x[j] = b[j] BY <1>1, UpToIs
<1>6. PICK m : m = n + 1 OBVIOUS
<1>7. /\ y \in Text /\ Len(y) = Len(b) - m + 1
      /\ \A j \in 1..Len(b) - m + 1 : y[j] = b[m + j - 1]
  BY <1>2, <1>4, <1>6, FromIs
<1>8. PICK d : d = x \o y OBVIOUS
<1>9. /\ d \in Text /\ Len(d) = Len(x) + Len(y)
      /\ \A k \in 1..Len(x) : d[k] = x[k]
      /\ \A k \in 1..Len(y) : d[Len(x) + k] = y[k]
  <2>1. x \in Text /\ y \in Text BY <1>5, <1>7
  <2> QED BY <1>8, <2>1, Together
<1>10. Len(d) = Len(b) BY <1>3, <1>4, <1>5, <1>6, <1>7, <1>9
<1>11. ASSUME NEW j \in 1..Len(d) PROVE d[j] = b[j]
  <2>1. CASE j <= n
    <3>1. j \in 1..n BY <1>3, <1>4, <1>10, <1>11, <2>1
    <3> QED BY <1>5, <1>9, <3>1
  <2>2. CASE j > n
    <3>1. PICK k : k = j - n OBVIOUS
    <3>2. k \in 1..Len(y) /\ n + k = j /\ m + k - 1 = j /\ k \in 1..Len(b) - m + 1
      BY <1>3, <1>4, <1>6, <1>7, <1>10, <1>11, <2>2, <3>1
    <3>3. d[n + k] = y[k] BY <1>5, <1>9, <3>2
    <3>4. y[k] = b[m + k - 1] BY <1>7, <3>2
    <3> QED BY <3>2, <3>3, <3>4
  <2> QED BY <1>3, <1>4, <1>10, <1>11, <2>1, <2>2
<1>12. d = b BY <1>9, <1>10, <1>11, SameText
<1> QED BY <1>1, <1>2, <1>3, <1>4, <1>5, <1>6, <1>7, <1>8, <1>12
-----------------------------------------------------------------------------
Parsers == [state : {"detecting", "inside", "normal"},
            buf : Text, content : Text, reasoning : Text]

(* Inside, given what follows the reasoning that was passed on: no closing *)
(* tag begins in that.                                                     *)
LEMMA InsideStep ==
    ASSUME NEW p \in Parsers, p.content = << >>, NEW b, b \in Text,
           parser' = Completion!Inside(p, b), text' \in Text,
           Begun(Completion!Trim(text))', Rest(text)' = p.reasoning \o b,
           \A i \in 1..Len(p.reasoning \o b) :
              Closes(p.reasoning \o b, i) => i > Len(p.reasoning),
           p.reasoning = << >> \/ Len(b) >= 2
    PROVE  CompletionInv'
<1> DEFINE P == Completion!Places(b, Completion!Close)
           i == Completion!Min(P)
<1>1. PICK g : g = p.reasoning OBVIOUS
<1>2. PICK r : r = g \o b OBVIOUS
<1>3. g \in Text BY <1>1 DEF Parsers
<1>4. /\ r \in Text /\ Len(r) = Len(g) + Len(b) /\ Len(g) \in Nat /\ Len(b) \in Nat
  BY <1>2, <1>3, Together
<1>5. P = {k \in 1..Len(b) : Closes(b, k)} BY PlacesAre
<1>6. \A k \in 1..Len(b) : Closes(r, Len(g) + k) <=> Closes(b, k)
  BY <1>2, <1>3, ClosesInSecond
<1>7. \A k \in 1..Len(r) : Closes(r, k) => k > Len(g) BY <1>1, <1>2
<1>8. << >> \in Text BY EmptyText
<1>9. Len(Completion!Close) = 3 /\ Completion!Kept = 2 BY Tags
<1>10. text' \in Text /\ Begun(Completion!Trim(text))' /\ Rest(text)' = r BY <1>1, <1>2
<1>11. CASE P # {}
  <2>1. i \in P /\ \A y \in P : i <= y
    <3>1. P \in SUBSET Nat BY <1>4, <1>5
    <3> HIDE DEF P
    <3> QED BY <1>11, <3>1, MinIsLeast
  <2>2. parser' = Completion!Normal([p EXCEPT !.reasoning = g \o SubSeq(b, 1, i - 1)],
                                    Completion!From(b, i + 3))
    BY <1>1, <1>9, <1>11 DEF Completion!Inside
  <2>3. i \in 1..Len(b) /\ i + 2 <= Len(b) /\ Closes(b, i) BY <1>5, <2>1 DEF Closes
  <2>4. \A k \in 1..Len(b) : Closes(b, k) => i <= k BY <1>5, <2>1
  <2> HIDE DEF i, P
  <2>5. PICK f : f = Completion!From(b, i + 3) OBVIOUS
  <2>6. PICK u : u = SubSeq(b, 1, i - 1) OBVIOUS
  <2>7. i + 3 \in 1..Len(b) + 1 /\ i - 1 \in 0..Len(b) BY <1>4, <2>3
  <2>8. f \in Text BY <2>5, <2>7, FromIs
  <2>9. u \in Text BY <2>6, <2>7, UpToIs
  <2>10. PICK v : v = g \o u OBVIOUS
  <2>11. v \in Text BY <1>3, <2>9, <2>10, Together
  <2>12. << >> \o f = f BY <2>8, EmptyText
  <2>13. parser' = [p EXCEPT !.reasoning = v, !.state = "normal", !.buf = << >>, !.content = f]
    BY <2>2, <2>5, <2>6, <2>10, <2>12 DEF Completion!Normal, Parsers
  <2>14. /\ parser' \in Parsers /\ parser'.state = "normal" /\ parser'.buf = << >>
         /\ parser'.content = f /\ parser'.reasoning = v
    BY <1>8, <2>8, <2>11, <2>13 DEF Parsers
  <2>15. PICK e : e = Len(g) + i OBVIOUS
  <2>16. e \in 1..Len(r) /\ e \in Nat BY <1>4, <2>3, <2>15
  <2>17. Closes(r, e) BY <1>6, <2>3, <2>15
  <2>18. ASSUME NEW j \in 1..Len(r), Closes(r, j) PROVE e <= j
    <3>1. j > Len(g) BY <1>7, <2>18
    <3>2. PICK k : k = j - Len(g) OBVIOUS
    <3>3. k \in 1..Len(b) /\ Len(g) + k = j BY <1>4, <3>1, <3>2
    <3>4. Closes(b, k) BY <1>6, <2>18, <3>3
    <3>5. i <= k BY <2>4, <3>3, <3>4
    <3> QED BY <1>4, <2>3, <2>15, <3>3, <3>5
  <2>19. f = Completion!From(r, e + 3)
    <3>1. Completion!From(g \o b, Len(g) + (i + 3)) = f BY <1>3, <2>5, <2>7, FromSecond
    <3>2. Len(g) + (i + 3) = e + 3 BY <1>4, <2>3, <2>15
    <3> QED BY <1>2, <3>1, <3>2
  <2>20. v = SubSeq(r, 1, e - 1)
    <3>1. SubSeq(g \o b, 1, Len(g) + (i - 1)) = g \o u BY <1>3, <2>6, <2>7, UpToSecond
    <3>2. Len(g) + (i - 1) = e - 1 BY <1>4, <2>3, <2>15
    <3> QED BY <1>2, <2>10, <3>1, <3>2
  <2>21. EndsAt(e)' BY <1>10, <2>14, <2>16, <2>17, <2>18, <2>19, <2>20 DEF EndsAt
  <2>22. Decided' BY <1>10, <2>14, <2>16, <2>21 DEF Decided
  <2> QED BY <1>10, <2>14, <2>22 DEF CompletionInv, Parsers
<1>12. CASE P = {}
  <2> DEFINE cut == IF Len(b) > 2 THEN Len(b) - 2 ELSE 0
  <2>1. parser' = [p EXCEPT !.state = "inside", !.buf = Completion!From(b, cut + 1),
                            !.reasoning = g \o SubSeq(b, 1, cut)]
    BY <1>1, <1>9, <1>12 DEF Completion!Inside
  <2>2. cut \in 0..Len(b) /\ (cut = 0 \/ Len(b) - cut = 2) BY <1>4
  <2> HIDE DEF cut, P
  <2>3. PICK x : x = SubSeq(b, 1, cut) OBVIOUS
  <2>4. PICK y : y = Completion!From(b, cut + 1) OBVIOUS
  <2>5. x \in Text /\ y \in Text /\ Len(y) = Len(b) - cut /\ x \o y = b
    BY <2>2, <2>3, <2>4, CutInTwo
  <2>6. PICK v : v = g \o x OBVIOUS
  <2>7. v \in Text BY <1>3, <2>5, <2>6, Together
  <2>8. parser' = [p EXCEPT !.state = "inside", !.buf = y, !.reasoning = v]
    BY <2>1, <2>3, <2>4, <2>6
  <2>9. /\ parser' \in Parsers /\ parser'.state = "inside" /\ parser'.buf = y
        /\ parser'.content = << >> /\ parser'.reasoning = v
    BY <2>5, <2>7, <2>8 DEF Parsers
  <2>10. v \o y = r
    <3>1. g \in Seq(Completion!Symbols) /\ x \in Seq(Completion!Symbols)
          /\ y \in Seq(Completion!Symbols)
      BY <1>3, <2>5 DEF Text
    <3>2. (g \o x) \o y = g \o (x \o y) BY <3>1, Regroup
    <3> QED BY <1>2, <2>5, <2>6, <3>2
  <2>11. \A k \in 1..Len(r) : ~Closes(r, k)
    <3> SUFFICES ASSUME NEW j \in 1..Len(r), Closes(r, j) PROVE FALSE OBVIOUS
    <3>1. j > Len(g) BY <1>7
    <3>2. PICK k : k = j - Len(g) OBVIOUS
    <3>3. k \in 1..Len(b) /\ Len(g) + k = j BY <1>4, <3>1, <3>2
    <3>4. Closes(b, k) BY <1>6, <3>3
    <3> QED BY <1>5, <1>12, <3>3, <3>4
  <2>12. v = << >> \/ Len(y) >= 2
    <3>1. CASE cut = 0
      <4>1. x = << >> BY <2>3, <3>1, SubSeqEmpty
      <4>2. v = g BY <1>3, <2>6, <4>1, EmptyText
      <4>3. Len(y) = Len(b) BY <1>4, <2>5, <3>1
      <4> QED BY <1>1, <4>2, <4>3
    <3>2. CASE Len(b) - cut = 2 BY <2>5, <3>2
    <3> QED BY <2>2, <3>1, <3>2
  <2>13. Thinking' BY <1>10, <2>9, <2>10, <2>11, <2>12 DEF Thinking
  <2> QED BY <1>10, <2>9, <2>13 DEF CompletionInv, Parsers
<1> QED BY <1>11, <1>12

LEMMA UndecidedStep ==
    ASSUME CompletionInv, Undecided, NEW chunk, chunk \in Text,
           parser' = Completion!Feed(parser, chunk), text' = text \o chunk
    PROVE  CompletionInv'
<1>1. parser \in Parsers /\ text \in Text BY DEF CompletionInv, Parsers
<1>2. /\ parser.state = "detecting" /\ parser.buf = text
      /\ parser.content = << >> /\ parser.reasoning = << >>
  BY DEF Undecided
<1>3. PICK b : b = text \o chunk OBVIOUS
<1>4. b \in Text /\ text' = b BY <1>1, <1>3, Together
<1>5. PICK t : t = Completion!Trim(b) OBVIOUS
<1>6. t \in Text BY <1>4, <1>5, TrimIs
<1>7. parser' = Completion!Detecting(parser, b) BY <1>2, <1>3 DEF Completion!Feed
<1>8. /\ Completion!IsPrefix(Completion!Open, t) <=> Begun(t)
      /\ Completion!IsStrictPrefix(t, Completion!Open)
            <=> Len(t) < 2 /\ (Len(t) = 1 => t[1] = "<")
  BY <1>6, OpenIsBegun
<1>9. Len(t) \in Nat /\ (t = << >> <=> Len(t) = 0) /\ << >> \in Text BY <1>6, EmptyText
<1>10. CASE Begun(t)
  <2>1. PICK r : r = Completion!From(t, 3) OBVIOUS
  <2>2. parser' = Completion!Inside(parser, r)
    <3>1. Completion!IsPrefix(Completion!Open, t) BY <1>8, <1>10
    <3>2. Len(t) >= 2 BY <1>10 DEF Begun
    <3>3. ~Completion!IsStrictPrefix(t, Completion!Open) /\ t # << >> BY <1>8, <1>9, <3>2
    <3>4. Len(Completion!Open) + 1 = 3 BY Tags
    <3> QED BY <1>5, <1>7, <2>1, <3>1, <3>3, <3>4 DEF Completion!Detecting
  <2>3. 3 \in 1..Len(t) + 1 BY <1>9, <1>10 DEF Begun
  <2>4. r \in Text BY <1>6, <2>1, <2>3, FromIs
  <2>5. parser.reasoning \o r = r /\ Len(parser.reasoning) = 0
    BY <1>2, <2>4, EmptyText, EmptySeq
  <2>6. Rest(text)' = r /\ Begun(Completion!Trim(text))'
    BY <1>4, <1>5, <1>10, <2>1 DEF Rest
  <2>7. \A i \in 1..Len(r) : Closes(r, i) => i > 0 OBVIOUS
  <2> QED BY <1>1, <1>2, <1>4, <2>2, <2>4, <2>5, <2>6, <2>7, InsideStep
<1>11. CASE Len(t) < 2 /\ (Len(t) = 1 => t[1] = "<")
  <2>1. ~Begun(t) BY <1>9, <1>11 DEF Begun
  <2>2. parser' = [parser EXCEPT !.buf = b]
    BY <1>5, <1>7, <1>8, <1>9, <1>11, <2>1 DEF Completion!Detecting
  <2>3. /\ parser' \in Parsers /\ parser'.state = "detecting" /\ parser'.buf = b
        /\ parser'.content = << >> /\ parser'.reasoning = << >>
    BY <1>1, <1>2, <1>4, <2>2 DEF Parsers
  <2>4. Undecided' BY <1>4, <1>5, <1>11, <2>3 DEF Undecided
  <2> QED BY <1>4, <2>3, <2>4 DEF CompletionInv, Parsers
<1>12. CASE ~Begun(t) /\ ~(Len(t) < 2 /\ (Len(t) = 1 => t[1] = "<"))
  <2>1. t # << >> BY <1>9, <1>12
  <2>2. parser' = Completion!Normal(parser, b)
    BY <1>5, <1>7, <1>8, <1>12, <2>1 DEF Completion!Detecting
  <2>3. << >> \o b = b BY <1>4, EmptyText
  <2>4. parser' = [parser EXCEPT !.state = "normal", !.buf = << >>, !.content = b]
    BY <1>2, <2>2, <2>3 DEF Completion!Normal
  <2>5. /\ parser' \in Parsers /\ parser'.state = "normal" /\ parser'.buf = << >>
        /\ parser'.content = b /\ parser'.reasoning = << >>
    BY <1>1, <1>2, <1>4, <1>9, <2>4 DEF Parsers
  <2>6. Len(t) >= 1 /\ (Len(t) = 1 => t[1] # "<")
    <3>1. PICK n : n = Len(t) OBVIOUS
    <3>2. n \in Nat /\ ~(n < 2 /\ (n = 1 => t[1] = "<")) BY <1>9, <1>12, <3>1
    <3>3. n >= 1 BY <3>2
    <3>4. n = 1 => t[1] # "<" BY <3>2
    <3> QED BY <3>1, <3>3, <3>4
  <2>7. Plain' BY <1>4, <1>5, <1>12, <2>5, <2>6 DEF Plain
  <2>8. Decided' BY <2>5, <2>7 DEF Decided
  <2> QED BY <1>4, <2>5, <2>8 DEF CompletionInv, Parsers
<1> QED BY <1>10, <1>11, <1>12

LEMMA ThinkingStep ==
    ASSUME CompletionInv, Thinking, NEW chunk, chunk \in Text,
           parser' = Completion!Feed(parser, chunk), text' = text \o chunk
    PROVE  CompletionInv'
<1>1. parser \in Parsers /\ text \in Text BY DEF CompletionInv, Parsers
<1>2. PICK g, q, r : g = parser.reasoning /\ q = parser.buf /\ r = Rest(text) OBVIOUS
<1>3. /\ parser.state = "inside" /\ parser.content = << >>
      /\ Begun(Completion!Trim(text)) /\ r = g \o q
      /\ \A i \in 1..Len(r) : ~Closes(r, i)
      /\ g = << >> \/ Len(q) >= 2
  BY <1>2 DEF Thinking
<1>4. g \in Text /\ q \in Text BY <1>1, <1>2 DEF Parsers
<1>5. PICK b : b = q \o chunk OBVIOUS
<1>6. b \in Text /\ Len(b) = Len(q) + Len(chunk) /\ Len(q) \in Nat /\ Len(chunk) \in Nat
  BY <1>4, <1>5, Together
<1>7. parser' = Completion!Inside(parser, b) BY <1>2, <1>3, <1>5 DEF Completion!Feed
<1>8. /\ r \in Text /\ Rest(text \o chunk) = r \o chunk
      /\ Begun(Completion!Trim(text \o chunk))
  BY <1>1, <1>2, <1>3, RestGrows
<1>9. r \o chunk = g \o b
  <2>1. g \in Seq(Completion!Symbols) /\ q \in Seq(Completion!Symbols)
        /\ chunk \in Seq(Completion!Symbols)
    BY <1>4 DEF Text
  <2>2. (g \o q) \o chunk = g \o (q \o chunk) BY <2>1, Regroup
  <2> QED BY <1>3, <1>5, <2>2
<1>10. text' \in Text BY <1>1, Together
<1>11. PICK w : w = g \o b OBVIOUS
<1>12. ASSUME NEW i \in 1..Len(w), Closes(w, i) PROVE i > Len(g)
  <2>1. Len(r) = Len(g) + Len(q) /\ Len(g) \in Nat BY <1>3, <1>4, Together
  <2>2. CASE g = << >> BY <1>12, <2>2, EmptySeq
  <2>3. CASE Len(q) >= 2
    <3>1. SUFFICES ASSUME i <= Len(g) PROVE FALSE BY <2>1
    <3>2. i \in 1..Len(r) /\ i + 2 <= Len(r) BY <1>6, <2>1, <2>3, <3>1
    <3>3. Closes(r \o chunk, i) <=> Closes(r, i) BY <1>8, <3>2, ClosesInFirst
    <3> QED BY <1>3, <1>9, <1>11, <1>12, <3>2, <3>3
  <2> QED BY <1>3, <2>2, <2>3
<1>13. parser.reasoning = << >> \/ Len(b) >= 2 BY <1>2, <1>3, <1>6
<1>14. Rest(text)' = parser.reasoning \o b /\ Begun(Completion!Trim(text))'
  <2>1. Rest(text)' = r \o chunk /\ Begun(Completion!Trim(text))' BY <1>8 DEF Rest
  <2> QED BY <1>2, <1>9, <2>1
<1>15. \A i \in 1..Len(parser.reasoning \o b) :
          Closes(parser.reasoning \o b, i) => i > Len(parser.reasoning)
  BY <1>2, <1>11, <1>12
<1> QED BY <1>1, <1>3, <1>6, <1>7, <1>10, <1>13, <1>14, <1>15, InsideStep

LEMMA DecidedStep ==
    ASSUME CompletionInv, Decided, NEW chunk, chunk \in Text,
           parser' = Completion!Feed(parser, chunk), text' = text \o chunk
    PROVE  CompletionInv'
<1>1. parser \in Parsers /\ text \in Text BY DEF CompletionInv, Parsers
<1>2. parser.state = "normal" /\ parser.buf = << >> BY DEF Decided
<1>3. PICK c : c = parser.content OBVIOUS
<1>4. c \in Text BY <1>1, <1>3 DEF Parsers
<1>5. PICK d : d = c \o chunk OBVIOUS
<1>6. d \in Text /\ text \o chunk \in Text /\ << >> \in Text /\ << >> \o chunk = chunk
  BY <1>1, <1>4, <1>5, Together, EmptyText
<1>7. parser' = [parser EXCEPT !.state = "normal", !.buf = << >>, !.content = d]
  BY <1>2, <1>3, <1>5, <1>6 DEF Completion!Feed, Completion!Normal
<1>8. /\ parser' \in Parsers /\ parser'.state = "normal" /\ parser'.buf = << >>
      /\ parser'.content = d /\ parser'.reasoning = parser.reasoning
  BY <1>1, <1>6, <1>7 DEF Parsers
<1>9. CASE Plain
  <2>1. PICK t : t = Completion!Trim(text) OBVIOUS
  <2>2. /\ Len(t) >= 1 /\ ~Begun(t) /\ (Len(t) = 1 => t[1] # "<")
        /\ c = text /\ parser.reasoning = << >>
    BY <1>3, <1>9, <2>1 DEF Plain
  <2>3. t \in Text BY <1>1, <2>1, TrimIs
  <2>4. t # << >> BY <2>2, <2>3, EmptyText
  <2>5. Completion!Trim(text \o chunk) = t \o chunk BY <1>1, <2>1, <2>4, TrimIs
  <2>6. PICK w : w = t \o chunk OBVIOUS
  <2>7. /\ Len(w) = Len(t) + Len(chunk) /\ Len(t) \in Nat /\ Len(chunk) \in Nat
        /\ \A i \in 1..Len(t) : w[i] = t[i]
    BY <2>3, <2>6, Together
  <2>8. ~Begun(w) BY <2>2, <2>3, <2>6, BegunGrows
  <2>9. Len(w) >= 1 /\ (Len(w) = 1 => w[1] # "<")
    <3>1. PICK n, m, k : n = Len(t) /\ m = Len(chunk) /\ k = Len(w) OBVIOUS
    <3>2. n \in Nat /\ m \in Nat /\ k = n + m /\ n >= 1 BY <2>2, <2>7, <3>1
    <3>3. k >= 1 BY <3>2
    <3>4. ASSUME k = 1 PROVE w[1] # "<"
      <4>1. n = 1 BY <3>2, <3>4
      <4>2. t[1] # "<" BY <2>2, <3>1, <4>1
      <4>3. w[1] = t[1] BY <2>7, <3>1, <4>1
      <4> QED BY <4>2, <4>3
    <3> QED BY <3>1, <3>3, <3>4
  <2>10. Plain' BY <1>5, <1>8, <2>2, <2>5, <2>6, <2>8, <2>9 DEF Plain
  <2> QED BY <1>6, <1>8, <2>10 DEF Decided, CompletionInv, Parsers
<1>10. CASE Begun(Completion!Trim(text)) /\ \E i \in Nat : EndsAt(i)
  <2>1. PICK i \in Nat : EndsAt(i) BY <1>10
  <2>2. PICK r : r = Rest(text) OBVIOUS
  <2>3. /\ i \in 1..Len(r) /\ Closes(r, i)
        /\ \A j \in 1..Len(r) : Closes(r, j) => i <= j
        /\ c = Completion!From(r, i + 3) /\ parser.reasoning = SubSeq(r, 1, i - 1)
    BY <1>3, <2>1, <2>2 DEF EndsAt
  <2>4. /\ r \in Text /\ Rest(text \o chunk) = r \o chunk
        /\ Begun(Completion!Trim(text \o chunk))
    BY <1>1, <1>10, <2>2, RestGrows
  <2>5. PICK w : w = r \o chunk OBVIOUS
  <2>6. Len(w) = Len(r) + Len(chunk) /\ Len(r) \in Nat /\ Len(chunk) \in Nat
    BY <2>4, <2>5, Together
  <2>7. i + 2 <= Len(r) BY <2>3 DEF Closes
  <2>8. Closes(w, i) BY <2>3, <2>4, <2>5, <2>7, ClosesInFirst
  <2>9. ASSUME NEW j \in 1..Len(w), Closes(w, j) PROVE i <= j
    <3>1. SUFFICES ASSUME j < i PROVE FALSE BY <2>3
    <3>2. j \in 1..Len(r) /\ j + 2 <= Len(r) BY <2>3, <2>6, <2>7, <3>1
    <3>3. Closes(r, j) BY <2>4, <2>5, <2>9, <3>2, ClosesInFirst
    <3>4. i <= j BY <2>3, <3>2, <3>3
    <3> QED BY <2>3, <3>1, <3>4
  <2>10. i + 3 \in 1..Len(r) + 1 /\ i - 1 \in 0..Len(r) /\ i \in 1..Len(w)
    BY <2>3, <2>6, <2>7
  <2>11. d = Completion!From(w, i + 3) BY <1>5, <2>3, <2>4, <2>5, <2>10, FromGrows
  <2>12. parser.reasoning = SubSeq(w, 1, i - 1) BY <2>3, <2>4, <2>5, <2>10, UpToGrows
  <2>13. Rest(text)' = w /\ Begun(Completion!Trim(text))' BY <2>4, <2>5 DEF Rest
  <2>14. EndsAt(i)' BY <1>8, <2>8, <2>9, <2>10, <2>11, <2>12, <2>13 DEF EndsAt
  <2> QED BY <1>6, <1>8, <2>13, <2>14 DEF Decided, CompletionInv, Parsers
<1> QED BY <1>9, <1>10 DEF Decided
-----------------------------------------------------------------------------
LEMMA CompletionInit == Completion!Init => CompletionInv
<1> SUFFICES ASSUME Completion!Init PROVE CompletionInv OBVIOUS
<1>1. /\ text = << >>
      /\ parser = [state |-> "detecting", buf |-> << >>,
                   content |-> << >>, reasoning |-> << >>]
  BY DEF Completion!Init, Completion!Fresh
<1>2. text \in Text /\ << >> \in Text BY <1>1, EmptySeq DEF Text
<1>3. Completion!Trim(<< >>) = << >> BY DEF Completion!Trim
<1>4. Undecided BY <1>1, <1>3, EmptySeq DEF Undecided
<1> QED BY <1>1, <1>2, <1>4 DEF CompletionInv

LEMMA CompletionStep == CompletionInv /\ [Completion!Next]_completionVars => CompletionInv'
<1> SUFFICES ASSUME CompletionInv, [Completion!Next]_completionVars PROVE CompletionInv'
  OBVIOUS
<1>1. CASE Completion!Next
  <2>0. PICK n \in 1..MaxText - Len(text) :
           \E chunk \in [1..n -> Completion!Symbols] : Completion!Delta(chunk)
    BY <1>1 DEF Completion!Next
  <2>1. PICK chunk \in [1..n -> Completion!Symbols] : Completion!Delta(chunk)
    BY <2>0
  <2>2. n \in Nat
    <3>1. Len(text) \in Nat BY EmptyText DEF CompletionInv
    <3> QED BY <3>1, CompletionAssumption
  <2>3. chunk \in Text BY <2>2 DEF Text
  <2>4. parser' = Completion!Feed(parser, chunk) /\ text' = text \o chunk
    BY <2>1 DEF Completion!Delta
  <2>5. Undecided \/ Thinking \/ Decided BY DEF CompletionInv
  <2> QED BY <2>3, <2>4, <2>5, UndecidedStep, ThinkingStep, DecidedStep
<1>2. CASE UNCHANGED completionVars
  <2>1. parser' = parser /\ text' = text BY <1>2 DEF completionVars
  <2> QED BY <2>1 DEF CompletionInv, Undecided, Thinking, Decided, Plain, EndsAt, Rest
<1> QED BY <1>1, <1>2

LEMMA CompletionInvariance == Spec => []CompletionInv
<1>1. Init => CompletionInv BY CompletionInit DEF Init
<1>2. CompletionInv /\ [Next]_vars => CompletionInv'
  <2>1. [Next]_vars => [Completion!Next]_completionVars BY DEF Next, vars, completionVars
  <2> QED BY <2>1, CompletionStep
<1> QED BY <1>1, <1>2, PTL DEF Spec

(* What the parser has passed on, were the reply to end here *)
LEMMA ParsedWhole == CompletionInv => CutsDontMatter
<1> SUFFICES ASSUME CompletionInv PROVE CutsDontMatter OBVIOUS
<1>1. parser \in Parsers /\ text \in Text BY DEF CompletionInv, Parsers
<1>2. PICK t, r : t = Completion!Trim(text) /\ r = Completion!From(t, 3) OBVIOUS
<1>3. r = Rest(text) BY <1>2 DEF Rest
<1>4. t \in Text BY <1>1, <1>2, TrimIs
<1>5. Completion!IsPrefix(Completion!Open, t) <=> Begun(t) BY <1>4, OpenIsBegun
<1>6. Len(Completion!Open) + 1 = 3 /\ Len(Completion!Close) = 3 BY Tags
<1> DEFINE whole == Completion!Whole
           done == Completion!Flush(parser)
           P == Completion!Places(r, Completion!Close)
<1>7. SUFFICES done.content = whole.content /\ done.reasoning = whole.reasoning
  BY DEF CutsDontMatter, Completion!CutsDontMatter
<1>8. CASE Undecided
  <2>1. Len(t) < 2 BY <1>2, <1>8 DEF Undecided
  <2>2. ~Begun(t) BY <1>4, <2>1, EmptyText DEF Begun
  <2>3. whole = [content |-> text, reasoning |-> << >>]
    BY <1>2, <1>5, <2>2 DEF Completion!Whole
  <2>4. << >> \o text = text BY <1>1, EmptyText
  <2>5. done.content = text /\ done.reasoning = << >>
    BY <1>1, <1>8, <2>4 DEF Completion!Flush, Undecided, Parsers
  <2> QED BY <2>3, <2>5
<1>9. CASE Thinking
  <2>1. Begun(t) /\ r = parser.reasoning \o parser.buf /\ \A i \in 1..Len(r) : ~Closes(r, i)
    BY <1>2, <1>3, <1>9 DEF Thinking
  <2>2. r \in Text
    BY <1>1, <2>1, Together DEF Parsers
  <2>3. P = {} BY <2>1, <2>2, PlacesAre
  <2>4. whole = [content |-> << >>, reasoning |-> r]
    BY <1>2, <1>5, <1>6, <2>1, <2>3 DEF Completion!Whole
  <2>5. done.content = << >> /\ done.reasoning = r
    BY <1>1, <1>9, <2>1 DEF Completion!Flush, Thinking, Parsers
  <2> QED BY <2>4, <2>5
<1>10. CASE Decided
  <2>1. parser.content \o << >> = parser.content BY <1>1, EmptyText DEF Parsers
  <2>2. done.content = parser.content /\ done.reasoning = parser.reasoning
    BY <1>1, <1>10, <2>1 DEF Completion!Flush, Decided, Parsers
  <2>3. CASE Plain
    <3>1. ~Begun(t) /\ parser.content = text /\ parser.reasoning = << >>
      BY <1>2, <2>3 DEF Plain
    <3>2. whole = [content |-> text, reasoning |-> << >>]
      BY <1>2, <1>5, <3>1 DEF Completion!Whole
    <3> QED BY <2>2, <3>1, <3>2
  <2>4. CASE Begun(t) /\ \E i \in Nat : EndsAt(i)
    <3>1. PICK i \in Nat : EndsAt(i) BY <2>4
    <3>2. /\ i \in 1..Len(r) /\ Closes(r, i)
          /\ \A j \in 1..Len(r) : Closes(r, j) => i <= j
          /\ parser.content = Completion!From(r, i + 3)
          /\ parser.reasoning = SubSeq(r, 1, i - 1)
      BY <1>3, <3>1 DEF EndsAt
    <3>3. 3 \in 1..Len(t) + 1 BY <1>4, <2>4, EmptyText DEF Begun
    <3>4. r \in Text BY <1>2, <1>4, <3>3, FromIs
    <3>5. P = {k \in 1..Len(r) : Closes(r, k)} BY <3>4, PlacesAre
    <3>6. P \in SUBSET Nat /\ i \in P /\ \A y \in P : i <= y
      BY <3>2, <3>4, <3>5, EmptyText
    <3>7. Completion!Min(P) = i /\ P # {}
      <4> HIDE DEF P
      <4> QED BY <3>6, LeastIsMin
    <3>8. whole = [content |-> Completion!From(r, i + 3), reasoning |-> SubSeq(r, 1, i - 1)]
      BY <1>2, <1>5, <1>6, <2>4, <3>7 DEF Completion!Whole
    <3> QED BY <2>2, <3>2, <3>8
  <2> QED BY <1>2, <1>10, <2>3, <2>4 DEF Decided
<1> QED BY <1>8, <1>9, <1>10 DEF CompletionInv

(* However a reply is cut into deltas, and however long it is, thinkParser *)
(* passes on what the whole text says (client.go).                         *)
THEOREM RepliesParsedWhole == Spec => []CutsDontMatter
BY ParsedWhole, CompletionInvariance, PTL

-----------------------------------------------------------------------------
(* Timetable: what dividing by a constant does *)
LEMMA Divided ==
    ASSUME NEW C \in Nat \ {0}, NEW q \in Nat, NEW r \in 0..C - 1
    PROVE  (q * C + r) \div C = q /\ (q * C + r) % C = r /\ q * C \in Nat
OBVIOUS

LEMMA Dividing ==
    ASSUME NEW C \in Nat \ {0}, NEW x \in Nat
    PROVE  /\ x \div C \in Nat /\ x % C \in 0..C - 1
           /\ x = (x \div C) * C + (x % C)
OBVIOUS

LEMMA Product ==
    ASSUME NEW C \in Nat, NEW x \in Nat, NEW y \in Nat
    PROVE  /\ x * C \in Nat
           /\ x <= y => x * C <= y * C
           /\ (x + 1) * C = x * C + C
OBVIOUS

LEMMA DividingGrows ==
    ASSUME NEW C \in Nat \ {0}, NEW x \in Nat, NEW y \in Nat, x <= y
    PROVE  x \div C <= y \div C
<1>1. PICK q, r, p, s : q = x \div C /\ r = x % C /\ p = y \div C /\ s = y % C OBVIOUS
<1>2. q \in Nat /\ r \in 0..C - 1 /\ x = q * C + r BY <1>1, Dividing
<1>3. p \in Nat /\ s \in 0..C - 1 /\ y = p * C + s BY <1>1, Dividing
<1>4. SUFFICES ASSUME p + 1 <= q PROVE FALSE BY <1>1, <1>2, <1>3
<1>5. (p + 1) * C <= q * C BY <1>2, <1>3, <1>4, Product
<1>6. (p + 1) * C = p * C + C BY <1>3, Product
<1>7. p * C \in Nat /\ q * C \in Nat BY <1>2, <1>3, Product
<1>8. PICK a, b : a = p * C /\ b = q * C OBVIOUS
<1>9. a \in Nat /\ b \in Nat /\ a + C <= b /\ b + r <= a + s
  BY <1>2, <1>3, <1>5, <1>6, <1>7, <1>8
<1> QED BY <1>2, <1>3, <1>9

LEMMA DividingNext ==
    ASSUME NEW C \in Nat \ {0}, NEW x \in Nat
    PROVE  (x + 1) \div C <= x \div C + 1
<1>1. x + 1 <= x + C /\ x + 1 \in Nat /\ x + C \in Nat OBVIOUS
<1>2. (x + 1) \div C <= (x + C) \div C BY <1>1, DividingGrows
<1>3. PICK q, r : q = x \div C /\ r = x % C OBVIOUS
<1>4. q \in Nat /\ r \in 0..C - 1 /\ x = q * C + r BY <1>3, Dividing
<1>5. (q + 1) * C = q * C + C /\ q * C \in Nat BY <1>4, Product
<1>6. x + C = (q + 1) * C + r BY <1>4, <1>5
<1>7. (x + C) \div C = q + 1 BY <1>4, <1>6, Divided
<1> QED BY <1>2, <1>3, <1>7
-----------------------------------------------------------------------------
(* A minute of a day, from its first tick on *)
LEMMA MomentIs ==
    ASSUME NEW d \in Nat, NEW m \in 0..MinutesPerDay - 1
    PROVE  /\ Timetable!Moment(d, m) \in Nat
           /\ Timetable!Minute(Timetable!Moment(d, m)) = d * MinutesPerDay + m
           /\ Timetable!Minute(Timetable!Moment(d, m)) % MinutesPerDay = m
           /\ Timetable!Day(Timetable!Moment(d, m)) = d
           /\ Timetable!Moment(d, m) = (d * MinutesPerDay + m) * TicksPerMinute
<1>1. PICK n : n = d * MinutesPerDay + m OBVIOUS
<1>2. MinutesPerDay \in Nat \ {0} /\ TicksPerMinute \in Nat \ {0} BY TimetableAssumption
<1>3. n \in Nat /\ n \div MinutesPerDay = d /\ n % MinutesPerDay = m
  BY <1>1, <1>2, Divided
<1>4. PICK x : x = n * TicksPerMinute OBVIOUS
<1>5. x \in Nat BY <1>2, <1>3, <1>4, Product
<1>6. x \div TicksPerMinute = n
  <2>1. x = n * TicksPerMinute + 0 BY <1>4, <1>5
  <2>2. 0 \in 0..TicksPerMinute - 1 BY <1>2
  <2> QED BY <1>2, <1>3, <2>1, <2>2, Divided
<1>7. Timetable!Moment(d, m) = x BY <1>1, <1>4 DEF Timetable!Moment
<1> QED BY <1>1, <1>3, <1>4, <1>5, <1>6, <1>7 DEF Timetable!Minute, Timetable!Day

(* The minute of a time begins before it and the next one after it. *)
LEMMA MinuteIs ==
    ASSUME NEW t \in Nat
    PROVE  /\ Timetable!Minute(t) \in Nat /\ Timetable!Day(t) \in Nat
           /\ Timetable!Minute(t) * TicksPerMinute <= t
           /\ t < (Timetable!Minute(t) + 1) * TicksPerMinute
           /\ Timetable!Day(t) * MinutesPerDay <= Timetable!Minute(t)
           /\ Timetable!Minute(t) < (Timetable!Day(t) + 1) * MinutesPerDay
<1>1. MinutesPerDay \in Nat \ {0} /\ TicksPerMinute \in Nat \ {0} BY TimetableAssumption
<1>2. ASSUME NEW C \in Nat \ {0}, NEW x \in Nat
      PROVE  x \div C \in Nat /\ (x \div C) * C <= x /\ x < (x \div C + 1) * C
  <2>1. PICK q, r : q = x \div C /\ r = x % C OBVIOUS
  <2>2. q \in Nat /\ r \in 0..C - 1 /\ x = q * C + r BY <2>1, Dividing
  <2>3. (q + 1) * C = q * C + C /\ q * C \in Nat BY <2>2, Product
  <2> QED BY <2>1, <2>2, <2>3
<1> QED BY <1>1, <1>2 DEF Timetable!Minute, Timetable!Day

LEMMA LaterDay ==
    ASSUME NEW t \in Nat, NEW d \in Nat, NEW m \in 0..MinutesPerDay - 1,
           d > Timetable!Day(t)
    PROVE  Timetable!Moment(d, m) > t
<1>1. MinutesPerDay \in Nat \ {0} /\ TicksPerMinute \in Nat \ {0} BY TimetableAssumption
<1>2. PICK a, b, n : /\ a = Timetable!Day(t) /\ b = Timetable!Minute(t)
                     /\ n = d * MinutesPerDay + m
  OBVIOUS
<1>3. /\ a \in Nat /\ b \in Nat /\ b < (a + 1) * MinutesPerDay
      /\ t < (b + 1) * TicksPerMinute
  BY <1>2, MinuteIs
<1>4. a + 1 <= d BY <1>2, <1>3
<1>5. (a + 1) * MinutesPerDay <= d * MinutesPerDay BY <1>1, <1>3, <1>4, Product
<1>6. d * MinutesPerDay \in Nat /\ (a + 1) * MinutesPerDay \in Nat BY <1>1, <1>3, Product
<1>7. b + 1 <= n /\ n \in Nat BY <1>2, <1>3, <1>5, <1>6
<1>8. (b + 1) * TicksPerMinute <= n * TicksPerMinute BY <1>1, <1>3, <1>7, Product
<1>9. n * TicksPerMinute \in Nat /\ (b + 1) * TicksPerMinute \in Nat
  BY <1>1, <1>3, <1>7, Product
<1>10. n * TicksPerMinute > t BY <1>3, <1>8, <1>9
<1> QED BY <1>2, <1>10 DEF Timetable!Moment

(* One of the days that NextRun tries after today is allowed. *)
LEMMA SomeDay ==
    ASSUME NEW t \in Nat, NEW days \in SUBSET (0..DaysPerWeek - 1)
    PROVE  \E d \in Timetable!Tried(t) : d > Timetable!Day(t) /\ Timetable!Allowed(days, d)
<1>1. PICK a : a = Timetable!Day(t) OBVIOUS
<1>2. a \in Nat /\ DaysPerWeek \in Nat \ {0} BY <1>1, MinuteIs, TimetableAssumption
<1>3. CASE days = {}
  <2>1. a + 1 \in Timetable!Tried(t) BY <1>1, <1>2 DEF Timetable!Tried
  <2> QED BY <1>1, <1>2, <1>3, <2>1 DEF Timetable!Allowed
<1>4. CASE days # {}
  <2>1. PICK r \in days : TRUE BY <1>4
  <2>2. r \in 0..DaysPerWeek - 1 BY <2>1
  <2>3. PICK q, s : q = a \div DaysPerWeek /\ s = a % DaysPerWeek OBVIOUS
  <2>4. q \in Nat /\ s \in 0..DaysPerWeek - 1 /\ a = q * DaysPerWeek + s
    BY <1>2, <2>3, Dividing
  <2>5. q * DaysPerWeek \in Nat /\ (q + 1) * DaysPerWeek = q * DaysPerWeek + DaysPerWeek
    BY <1>2, <2>4, Product
  <2>6. CASE r > s
    <3>1. PICK d : d = q * DaysPerWeek + r OBVIOUS
    <3>2. d % DaysPerWeek = r BY <1>2, <2>2, <2>4, <3>1, Divided
    <3>3. d \in a..a + DaysPerWeek /\ d > a BY <1>2, <2>2, <2>4, <2>5, <2>6, <3>1
    <3> QED BY <1>1, <2>1, <3>2, <3>3 DEF Timetable!Tried, Timetable!Allowed
  <2>7. CASE r <= s
    <3>1. PICK d : d = (q + 1) * DaysPerWeek + r OBVIOUS
    <3>2. q + 1 \in Nat BY <2>4
    <3>3. d % DaysPerWeek = r BY <1>2, <2>2, <3>1, <3>2, Divided
    <3>4. d \in a..a + DaysPerWeek /\ d > a BY <1>2, <2>2, <2>4, <2>5, <2>7, <3>1
    <3> QED BY <1>1, <2>1, <3>3, <3>4 DEF Timetable!Tried, Timetable!Allowed
  <2> QED BY <2>2, <2>4, <2>6, <2>7
<1> QED BY <1>3, <1>4
-----------------------------------------------------------------------------
(* What NextRun computes *)
Planned(plan) ==
    /\ plan.mode \in {"interval", "daily"} /\ plan.every \in Nat
    /\ plan.at \in 0..MinutesPerDay - 1 /\ plan.days \in SUBSET (0..DaysPerWeek - 1)

LEMMA NextNever ==
    ASSUME NEW plan, NEW last, NEW t
    PROVE  Timetable!NextRun(plan, FALSE, last, t) = Timetable!Zero
BY DEF Timetable!NextRun

LEMMA NextInterval ==
    ASSUME NEW plan, Planned(plan), plan.mode = "interval", NEW t \in Nat,
           NEW last \in Timetable!Zero..t, NEW x,
           x = Timetable!NextRun(plan, TRUE, last, t)
    PROVE  /\ x \in Nat /\ x >= t
           /\ last = Timetable!Zero \/ x >= last + plan.every * TicksPerMinute
<1>1. PICK step : step = plan.every * TicksPerMinute OBVIOUS
<1>2. step \in Nat BY <1>1, TimetableAssumption, Product DEF Planned
<1>3. PICK since : since = IF last = Timetable!Zero THEN t ELSE last OBVIOUS
<1>4. since \in Nat /\ since <= t /\ (last = Timetable!Zero \/ since = last)
  BY <1>3 DEF Timetable!Zero
<1>5. PICK ahead : ahead = IF since + step < t THEN t ELSE since OBVIOUS
<1>6. ahead \in Nat /\ ahead + step >= t /\ ahead >= since
  <2>1. CASE since + step < t
    <3>1. ahead = t BY <1>5, <2>1
    <3> QED BY <1>2, <1>4, <3>1
  <2>2. CASE ~(since + step < t)
    <3>1. ahead = since BY <1>5, <2>2
    <3> QED BY <1>2, <1>4, <2>2, <3>1
  <2> QED BY <2>1, <2>2
<1>7. x = ahead + step BY <1>1, <1>3, <1>5 DEF Timetable!NextRun
<1>8. ahead + step \in Nat /\ ahead + step >= t /\ ahead + step >= since + step
  BY <1>2, <1>4, <1>6
<1>9. x \in Nat /\ x >= t /\ x >= since + step BY <1>7, <1>8
<1> QED BY <1>1, <1>4, <1>9

LEMMA NextDaily ==
    ASSUME NEW plan, Planned(plan), plan.mode = "daily", NEW t \in Nat,
           NEW last \in Timetable!Zero..t, NEW x,
           x = Timetable!NextRun(plan, TRUE, last, t)
    PROVE  /\ x \in Nat /\ x > t
           /\ \E d \in Nat : x = Timetable!Moment(d, plan.at) /\ Timetable!Allowed(plan.days, d)
<1> DEFINE found == {Timetable!Moment(d, plan.at) :
                        d \in {d \in Timetable!Tried(t) : Timetable!Allowed(plan.days, d)}}
           later == {y \in found : y > t}
<1>1. x = IF later = {} THEN Timetable!Zero ELSE Timetable!Min(later)
  BY DEF Timetable!NextRun
<1>2. plan.at \in 0..MinutesPerDay - 1 /\ plan.days \in SUBSET (0..DaysPerWeek - 1)
  BY DEF Planned
<1>3. Timetable!Tried(t) \subseteq Nat
  <2>1. Timetable!Day(t) \in Nat /\ DaysPerWeek \in Nat BY MinuteIs, TimetableAssumption
  <2> QED BY <2>1 DEF Timetable!Tried
<1>4. PICK d \in Timetable!Tried(t) : d > Timetable!Day(t) /\ Timetable!Allowed(plan.days, d)
  BY <1>2, SomeDay
<1>5. Timetable!Moment(d, plan.at) > t BY <1>2, <1>3, <1>4, LaterDay
<1>6. later # {} BY <1>4, <1>5
<1>7. later \in SUBSET Nat BY <1>2, <1>3, MomentIs
<1>8. \E y \in later : \A z \in later : y <= z
  <2> HIDE DEF later
  <2> QED BY <1>6, <1>7, LeastOf
<1>9. x \in later
  <2> HIDE DEF later
  <2> QED BY <1>1, <1>6, <1>8 DEF Timetable!Min
<1>10. PICK e \in Timetable!Tried(t) :
          Timetable!Allowed(plan.days, e) /\ x = Timetable!Moment(e, plan.at)
  BY <1>9
<1>11. x \in Nat /\ x > t BY <1>7, <1>9
<1> QED BY <1>3, <1>10, <1>11
-----------------------------------------------------------------------------
(* The shown time of an enabled task is still to come, or was kept. *)
PlanOf(t) == [mode |-> t.mode, every |-> t.every, at |-> t.at, days |-> t.days]

TaskTyped ==
    /\ task \in [mode : {"interval", "daily"}, every : Nat, at : Nat,
                 days : SUBSET (0..DaysPerWeek - 1), enabled : BOOLEAN,
                 last : Timetable!Zero..now, next : Int]
    /\ PlanOf(task) \in Timetable!Plans

(* What is shown is a time of the plan. *)
Timely ==
    /\ task.next \in Nat
    /\ task.mode = "interval" =>
          \/ task.last = Timetable!Zero
          \/ task.next >= task.last + task.every * TicksPerMinute
    /\ task.mode = "daily" =>
          \E d \in Nat : /\ task.next = Timetable!Moment(d, task.at)
                         /\ Timetable!Allowed(task.days, d)

(* The loop has looked in every minute that the clock has left. *)
Awake ==
    task.mode = "daily" /\ Timetable!Minute(task.next) < Timetable!Minute(now) =>
       excused \/ Timetable!Minute(task.next) <= Timetable!Minute(woken)

Kept ==
    loop = "idle" /\ (task.next < woken \/ (task.mode = "daily" /\ task.next = woken)) =>
       \/ flag \/ records > 0 \/ excused
       \/ task.mode = "daily" /\ task.next - task.last <= Timetable!Guard

Numbers ==
    /\ now \in 0..Horizon /\ woken \in 0..now /\ loop \in {"idle", "claim"}
    /\ flag \in BOOLEAN /\ records \in Nat /\ excused \in BOOLEAN
    /\ edits \in 0..MaxEdits

TaskInv ==
    /\ Numbers
    /\ task = Timetable!NoTask => loop = "idle" /\ ~flag /\ records = 0
    /\ task # Timetable!NoTask => TaskTyped
    /\ task # Timetable!NoTask /\ task.enabled => Timely /\ Awake /\ Kept

(* A draft is of a task that is not there yet, and shows a time too. *)
DraftTyped ==
    /\ draft \in [mode : {"interval", "daily"}, every : Nat, at : Nat,
                  days : SUBSET (0..DaysPerWeek - 1), enabled : BOOLEAN,
                  last : {Timetable!Zero}, next : Int]
    /\ PlanOf(draft) \in Timetable!Plans

DraftTimely ==
    /\ draft.next \in Nat
    /\ draft.mode = "daily" =>
          \E d \in Nat : /\ draft.next = Timetable!Moment(d, draft.at)
                         /\ Timetable!Allowed(draft.days, d)

DraftInv == draft # Timetable!NoTask =>
    task = Timetable!NoTask /\ DraftTyped /\ (draft.enabled => DraftTimely)

TimetableInv == TaskInv /\ DraftInv

LEMMA PlanOfPlan ==
    ASSUME NEW plan \in Timetable!Plans
    PROVE  Planned(plan) /\ PlanOf(plan) = plan
<1>1. CASE plan \in [mode : {"interval"}, every : Intervals, at : {0}, days : {{}}]
  <2>1. plan.mode = "interval" /\ plan.every \in Nat /\ plan.at = 0 /\ plan.days = {}
    BY <1>1, TimetableAssumption
  <2>2. 0 \in 0..MinutesPerDay - 1 BY TimetableAssumption
  <2>3. Planned(plan) BY <2>1, <2>2 DEF Planned
  <2> QED BY <1>1, <2>3 DEF PlanOf
<1>2. CASE plan \in [mode : {"daily"}, every : {0}, at : 0..MinutesPerDay - 1,
                    days : DaySets]
  <2>1. /\ plan.mode = "daily" /\ plan.every = 0 /\ plan.at \in 0..MinutesPerDay - 1
        /\ plan.days \in DaySets
    BY <1>2
  <2>2. plan.days \in SUBSET (0..DaysPerWeek - 1) BY <2>1, TimetableAssumption
  <2>3. Planned(plan) BY <2>1, <2>2 DEF Planned
  <2> QED BY <1>2, <2>3 DEF PlanOf
<1> QED BY <1>1, <1>2 DEF Timetable!Plans

LEMMA TypedPlanned == ASSUME TaskTyped PROVE Planned(task)
<1>1. PICK plan \in Timetable!Plans : plan = PlanOf(task) BY DEF TaskTyped
<1>2. Planned(plan) BY PlanOfPlan
<1> QED BY <1>1, <1>2 DEF Planned, PlanOf

(* A task whose next run is computed anew *)
LEMMA RenewStep ==
    ASSUME TaskInv, NEW plan, Planned(plan), PlanOf(plan) \in Timetable!Plans,
           NEW on \in BOOLEAN, NEW last \in Timetable!Zero..now,
           Timetable!Renew(Timetable!Task(plan, on, last,
                                          Timetable!NextRun(plan, on, last, now))),
           now' = now, woken' = woken, Numbers'
    PROVE  TaskInv'
<1>1. now \in Nat /\ woken \in Nat /\ woken <= now
  BY TimetableAssumption DEF TaskInv, Numbers
<1>2. PICK x : x = Timetable!NextRun(plan, on, last, now) OBVIOUS
<1>3. task' = [mode |-> plan.mode, every |-> plan.every, at |-> plan.at,
               days |-> plan.days, enabled |-> on, last |-> last, next |-> x]
  BY <1>2 DEF Timetable!Renew, Timetable!Task
<1>4. task' # Timetable!NoTask /\ task'.enabled = on BY <1>3 DEF Timetable!NoTask
<1>5. plan.mode = "interval" \/ plan.mode = "daily" BY DEF Planned
<1>6. x \in Int
  <2>1. CASE on = FALSE
    <3>1. x = Timetable!NextRun(plan, FALSE, last, now) BY <1>2, <2>1
    <3>2. x = Timetable!Zero BY <3>1, NextNever
    <3> QED BY <3>2 DEF Timetable!Zero
  <2>2. CASE on = TRUE
    <3>1. x = Timetable!NextRun(plan, TRUE, last, now) BY <1>2, <2>2
    <3>2. x \in Nat BY <1>1, <1>5, <3>1, NextInterval, NextDaily
    <3> QED BY <3>2
  <2> QED BY <2>1, <2>2
<1>7. TaskTyped'
  <2>1. PlanOf(task') = PlanOf(plan) BY <1>3 DEF PlanOf
  <2>2. task' \in [mode : {"interval", "daily"}, every : Nat, at : Nat,
                   days : SUBSET (0..DaysPerWeek - 1), enabled : BOOLEAN,
                   last : Timetable!Zero..now, next : Int]
    <3>1. plan.at \in Nat BY TimetableAssumption DEF Planned
    <3> QED BY <1>3, <1>6, <3>1 DEF Planned
  <2> QED BY <2>1, <2>2 DEF TaskTyped
<1>8. ASSUME on PROVE Timely' /\ Awake' /\ Kept'
  <2>1. /\ task'.mode = plan.mode /\ task'.every = plan.every /\ task'.at = plan.at
        /\ task'.days = plan.days /\ task'.last = last /\ task'.next = x
    BY <1>3
  <2>2. on = TRUE BY <1>8
  <2>3. CASE plan.mode = "interval"
    <3>1. /\ x \in Nat /\ x >= now
          /\ last = Timetable!Zero \/ x >= last + plan.every * TicksPerMinute
      BY <1>1, <1>2, <2>2, <2>3, NextInterval
    <3>2. Timely' BY <2>1, <2>3, <3>1 DEF Timely
    <3>3. ~(x < woken) BY <1>1, <3>1
    <3> QED BY <2>1, <2>3, <3>2, <3>3 DEF Awake, Kept
  <2>4. CASE plan.mode = "daily"
    <3>1. /\ x \in Nat /\ x > now
          /\ \E d \in Nat : /\ x = Timetable!Moment(d, plan.at)
                            /\ Timetable!Allowed(plan.days, d)
      BY <1>1, <1>2, <2>2, <2>4, NextDaily
    <3>2. Timely' BY <2>1, <2>4, <3>1 DEF Timely
    <3>3. ~(x < woken) /\ x # woken BY <1>1, <3>1
    <3>4. Kept' BY <2>1, <3>3 DEF Kept
    <3>5. ~(Timetable!Minute(x) < Timetable!Minute(now))
      <4>1. now <= x BY <1>1, <3>1
      <4>2. now \div TicksPerMinute <= x \div TicksPerMinute
        BY <1>1, <3>1, <4>1, TimetableAssumption, DividingGrows
      <4>3. now \div TicksPerMinute \in Nat /\ x \div TicksPerMinute \in Nat
        BY <1>1, <3>1, TimetableAssumption, Dividing
      <4> QED BY <4>2, <4>3 DEF Timetable!Minute
    <3>6. Awake' BY <2>1, <3>5 DEF Awake, Timetable!Minute
    <3> QED BY <3>2, <3>4, <3>6
  <2> QED BY <1>5, <2>3, <2>4
<1> QED BY <1>4, <1>7, <1>8 DEF TaskInv

LEMMA SameMinute ==
    ASSUME NEW d \in Nat, NEW m \in 0..MinutesPerDay - 1, NEW x, x = Timetable!Moment(d, m),
           NEW t \in Nat, x <= t
    PROVE  /\ Timetable!Minute(x) \in Nat /\ Timetable!Minute(t) \in Nat
           /\ Timetable!Minute(x) <= Timetable!Minute(t)
           /\ Timetable!Minute(x) = Timetable!Minute(t) =>
                 Timetable!Minute(t) % MinutesPerDay = m /\ Timetable!Day(t) = d
<1>1. x \in Nat /\ Timetable!Minute(x) % MinutesPerDay = m /\ Timetable!Day(x) = d
  BY MomentIs
<1>2. Timetable!Minute(x) \in Nat /\ Timetable!Minute(t) \in Nat BY <1>1, MinuteIs
<1>3. Timetable!Minute(x) <= Timetable!Minute(t)
  BY <1>1, TimetableAssumption, DividingGrows DEF Timetable!Minute
<1>4. ASSUME Timetable!Minute(x) = Timetable!Minute(t)
      PROVE  Timetable!Minute(t) % MinutesPerDay = m /\ Timetable!Day(t) = d
  <2>1. Timetable!Day(x) = Timetable!Day(t) BY <1>4 DEF Timetable!Day
  <2> QED BY <1>1, <1>4, <2>1
<1> QED BY <1>2, <1>3, <1>4

(* A moment is the first tick of its minute. *)
LEMMA MomentFirst ==
    ASSUME NEW d \in Nat, NEW m \in 0..MinutesPerDay - 1, NEW x, x = Timetable!Moment(d, m),
           NEW t \in Nat, Timetable!Minute(x) <= Timetable!Minute(t)
    PROVE  x <= t
<1>1. PICK n, k : n = Timetable!Minute(x) /\ k = Timetable!Minute(t) OBVIOUS
<1>2. x \in Nat /\ n = d * MinutesPerDay + m /\ x = n * TicksPerMinute BY <1>1, MomentIs
<1>3. n \in Nat /\ k \in Nat /\ k * TicksPerMinute <= t BY <1>1, <1>2, MinuteIs
<1>4. n * TicksPerMinute <= k * TicksPerMinute /\ k * TicksPerMinute \in Nat
  BY <1>1, <1>3, TimetableAssumption, Product
<1> QED BY <1>2, <1>3, <1>4

LEMMA WakeStep == TaskInv /\ Timetable!Wake => TaskInv'
<1> SUFFICES ASSUME TaskInv, Timetable!Wake PROVE TaskInv' OBVIOUS
<1>1. /\ now \in Nat /\ now \in 0..Horizon /\ woken \in Nat /\ woken <= now /\ Numbers
  BY TimetableAssumption DEF TaskInv, Numbers
<1>2. /\ loop = "idle" /\ woken' = now /\ loop' \in {"idle", "claim"}
      /\ loop' = "idle" => ~Timetable!Due
      /\ Timetable!Due => loop' = "claim"
      /\ ~Timetable!Due => loop' = "idle"
      /\ now' = now /\ task' = task /\ flag' = flag /\ records' = records
      /\ excused' = excused /\ edits' = edits
  BY DEF Timetable!Wake
<1>3. Numbers' BY <1>1, <1>2 DEF Numbers
<1>4. CASE task = Timetable!NoTask
  <2>1. ~Timetable!Due BY <1>4 DEF Timetable!Due
  <2> QED BY <1>2, <1>3, <1>4, <2>1 DEF TaskInv
<1>5. CASE task # Timetable!NoTask
  <2>1. TaskTyped /\ TaskTyped' BY <1>2, <1>5 DEF TaskInv, TaskTyped, PlanOf
  <2>2. ASSUME task.enabled PROVE Timely' /\ Awake' /\ Kept'
    <3>1. Timely /\ Awake /\ Kept BY <1>5, <2>2 DEF TaskInv
    <3>2. Timely' BY <1>2, <3>1 DEF Timely
    <3>3. PICK x : x = task.next OBVIOUS
    <3>4. x \in Nat /\ task.last \in Timetable!Zero..now /\ task.last \in Int
      BY <2>1, <3>1, <3>3 DEF Timely, TaskTyped, Timetable!Zero
    <3>5. task.mode = "interval" \/ task.mode = "daily" BY <2>1 DEF TaskTyped
    <3>6. CASE task.mode = "interval"
      <4>1. Awake' BY <1>2, <3>6 DEF Awake
      <4>2. ASSUME loop' = "idle", x < now PROVE FALSE
        <5>1. PICK s : s = task.every * TicksPerMinute OBVIOUS
        <5>2. s \in Nat BY <2>1, <5>1, TimetableAssumption, Product DEF TaskTyped
        <5>3. ~(task.last = Timetable!Zero) /\ ~(now - task.last >= s)
          BY <1>2, <1>5, <2>2, <3>6, <4>2, <5>1 DEF Timetable!Due
        <5>4. x >= task.last + s BY <3>1, <3>3, <3>6, <5>1, <5>3 DEF Timely
        <5> QED BY <1>1, <3>4, <4>2, <5>2, <5>3, <5>4
      <4>3. Kept' BY <1>2, <3>3, <3>6, <4>2 DEF Kept
      <4> QED BY <3>2, <4>1, <4>3
    <3>7. CASE task.mode = "daily"
      <4>1. PICK d \in Nat : /\ x = Timetable!Moment(d, task.at)
                             /\ Timetable!Allowed(task.days, d)
        BY <3>1, <3>3, <3>7 DEF Timely
      <4>2. task.at \in 0..MinutesPerDay - 1 BY <2>1, TypedPlanned DEF Planned
      <4>3. Timetable!Minute(x) \in Nat /\ Timetable!Minute(now) \in Nat
        BY <1>1, <3>4, MinuteIs
      <4>4. Awake' BY <1>2, <3>3, <4>3 DEF Awake, Timetable!Minute
      <4>5. ASSUME loop' = "idle", x <= now
            PROVE  flag \/ records > 0 \/ excused \/ x - task.last <= Timetable!Guard
        <5>1. /\ Timetable!Minute(x) <= Timetable!Minute(now)
              /\ Timetable!Minute(x) = Timetable!Minute(now) =>
                    /\ Timetable!Minute(now) % MinutesPerDay = task.at
                    /\ Timetable!Day(now) = d
          BY <1>1, <4>1, <4>2, <4>5, SameMinute
        <5>2. CASE Timetable!Minute(x) = Timetable!Minute(now)
          <6>1. /\ Timetable!Minute(now) % MinutesPerDay = task.at
                /\ Timetable!Allowed(task.days, Timetable!Day(now))
            BY <4>1, <5>1, <5>2
          <6>2. ~(task.last = Timetable!Zero \/ now - task.last > Timetable!Guard)
            BY <1>2, <1>5, <2>2, <3>7, <4>5, <6>1 DEF Timetable!Due
          <6>3. Timetable!Guard \in Int BY TimetableAssumption DEF Timetable!Guard
          <6>4. x - task.last <= Timetable!Guard BY <1>1, <3>4, <4>5, <6>2, <6>3
          <6> QED BY <6>4
        <5>3. CASE Timetable!Minute(x) < Timetable!Minute(now)
          <6>1. excused \/ Timetable!Minute(x) <= Timetable!Minute(woken)
            BY <3>1, <3>3, <3>7, <5>3 DEF Awake
          <6>2. CASE Timetable!Minute(x) <= Timetable!Minute(woken)
            <7>1. x <= woken BY <1>1, <4>1, <4>2, <6>2, MomentFirst
            <7>2. x < woken \/ x = woken BY <1>1, <3>4, <7>1
            <7> QED BY <1>2, <3>1, <3>3, <3>7, <7>2 DEF Kept
          <6> QED BY <6>1, <6>2
        <5> QED BY <4>3, <5>1, <5>2, <5>3
      <4>6. x < now \/ x = now => x <= now BY <1>1, <3>4
      <4>7. Kept' BY <1>2, <3>3, <3>7, <4>5, <4>6 DEF Kept
      <4> QED BY <3>2, <4>4, <4>7
    <3> QED BY <3>5, <3>6, <3>7
  <2> QED BY <1>2, <1>3, <1>5, <2>1, <2>2 DEF TaskInv
<1> QED BY <1>4, <1>5

LEMMA TickStep == TaskInv /\ Timetable!Tick => TaskInv'
<1> SUFFICES ASSUME TaskInv, Timetable!Tick PROVE TaskInv' OBVIOUS
<1>1. /\ now \in Nat /\ now \in 0..Horizon /\ woken \in Nat /\ woken <= now /\ Numbers
      /\ Horizon \in Nat
  BY TimetableAssumption DEF TaskInv, Numbers
<1>2. /\ now < Horizon /\ now' = now + 1
      /\ excused' = (excused \/ Timetable!Overslept)
      /\ woken' = woken /\ loop' = loop /\ task' = task /\ flag' = flag
      /\ records' = records /\ edits' = edits
  BY DEF Timetable!Tick
<1>3. excused' \in BOOLEAN /\ (excused => excused') /\ (Timetable!Overslept => excused')
  BY <1>1, <1>2 DEF Numbers, Timetable!Overslept
<1>4. now' \in 0..Horizon /\ woken' \in 0..now' BY <1>1, <1>2
<1>5. Numbers' BY <1>1, <1>2, <1>3, <1>4 DEF Numbers
<1>6. ASSUME task # Timetable!NoTask PROVE TaskTyped'
  <2>1. TaskTyped BY <1>6 DEF TaskInv
  <2>2. Timetable!Zero..now \subseteq Timetable!Zero..now' BY <1>1, <1>2 DEF Timetable!Zero
  <2>3. PlanOf(task') = PlanOf(task) BY <1>2 DEF PlanOf
  <2> QED BY <1>2, <2>1, <2>2, <2>3 DEF TaskTyped
<1>7. ASSUME task # Timetable!NoTask, task.enabled PROVE Timely' /\ Awake' /\ Kept'
  <2>1. Timely /\ Awake /\ Kept BY <1>7 DEF TaskInv
  <2>2. Timely' BY <1>2, <2>1 DEF Timely
  <2>3. Kept' BY <1>2, <1>3, <2>1 DEF Kept
  <2>4. PICK x : x = task.next OBVIOUS
  <2>5. PICK n, a, b, c : /\ n = Timetable!Minute(x) /\ a = Timetable!Minute(now)
                          /\ b = Timetable!Minute(now + 1) /\ c = Timetable!Minute(woken)
    OBVIOUS
  <2>6. n \in Nat /\ a \in Nat /\ b \in Nat /\ c \in Nat
    <3>1. x \in Nat /\ now + 1 \in Nat BY <1>1, <2>1, <2>4 DEF Timely
    <3> QED BY <1>1, <2>5, <3>1, MinuteIs
  <2>7. b <= a + 1
    BY <1>1, <2>5, TimetableAssumption, DividingNext DEF Timetable!Minute
  <2>8. ASSUME task.mode = "daily", n < b PROVE excused' \/ n <= c
    <3>1. CASE n < a BY <1>3, <2>1, <2>4, <2>5, <2>8, <3>1 DEF Awake
    <3>2. CASE n = a
      <4>1. CASE c < a
        <5>1. Timetable!Overslept
          BY <1>7, <2>4, <2>5, <2>8, <3>2, <4>1 DEF Timetable!Overslept
        <5> QED BY <1>3, <5>1
      <4>2. CASE ~(c < a) BY <2>6, <3>2, <4>2
      <4> QED BY <4>1, <4>2
    <3> QED BY <2>6, <2>7, <2>8, <3>1, <3>2
  <2>9. Awake' BY <1>2, <2>4, <2>5, <2>8 DEF Awake, Timetable!Minute
  <2> QED BY <2>2, <2>3, <2>9
<1>8. task = Timetable!NoTask => loop = "idle" /\ ~flag /\ records = 0 BY DEF TaskInv
<1> QED BY <1>2, <1>5, <1>6, <1>7, <1>8 DEF TaskInv

LEMMA TimetableInit == Timetable!Init => TimetableInv
<1> SUFFICES ASSUME Timetable!Init PROVE TimetableInv OBVIOUS
<1>1. /\ now = 0 /\ woken = 0 /\ loop = "idle" /\ task = Timetable!NoTask
      /\ flag = FALSE /\ records = 0 /\ excused = FALSE /\ edits = 0
      /\ draft = Timetable!NoTask
  BY DEF Timetable!Init
<1>2. 0 \in 0..Horizon /\ 0 \in 0..MaxEdits /\ 0 \in 0..0 /\ 0 \in Nat
  BY TimetableAssumption
<1>3. Numbers BY <1>1, <1>2 DEF Numbers
<1> QED BY <1>1, <1>3 DEF TimetableInv, TaskInv, DraftInv

(* A run in progress keeps the promise whatever else happens. *)
LEMMA BusyStep ==
    ASSUME TaskInv, task # Timetable!NoTask, Numbers',
           now' = now, woken' = woken, task' = task, excused => excused',
           flag' \/ records' > 0 \/ excused'
    PROVE  TaskInv'
<1>1. TaskTyped' BY DEF TaskInv, TaskTyped, PlanOf
<1>2. ASSUME task.enabled PROVE Timely' /\ Awake' /\ Kept'
  <2>1. Timely /\ Awake /\ Kept BY <1>2 DEF TaskInv
  <2>2. Timely' BY <2>1 DEF Timely
  <2>3. Awake' BY <2>1 DEF Awake, Timetable!Minute
  <2>4. Kept' BY <2>1 DEF Kept
  <2> QED BY <2>2, <2>3, <2>4
<1> QED BY <1>1, <1>2 DEF TaskInv

LEMMA RunSteps ==
    ASSUME TaskInv,
           Timetable!Claim \/ Timetable!End \/ Timetable!RunNow
    PROVE  TaskInv'
<1>1. Numbers /\ records \in Nat BY DEF TaskInv, Numbers
<1>2. CASE Timetable!Claim
  <2>1. /\ loop = "claim" /\ loop' = "idle" /\ flag' = TRUE
        /\ UNCHANGED <<now, woken, task, records, excused, edits>>
    BY <1>2 DEF Timetable!Claim
  <2>2. task # Timetable!NoTask BY <2>1 DEF TaskInv
  <2>3. Numbers' BY <1>1, <2>1 DEF Numbers
  <2> QED BY <2>1, <2>2, <2>3, BusyStep
<1>3. CASE Timetable!End
  <2>1. /\ flag /\ flag' = FALSE /\ records' = records + 1
        /\ UNCHANGED <<now, woken, loop, task, excused, edits>>
    BY <1>3 DEF Timetable!End
  <2>2. task # Timetable!NoTask BY <2>1 DEF TaskInv
  <2>3. records' > 0 /\ records' \in Nat BY <1>1, <2>1
  <2>4. Numbers' BY <1>1, <2>1, <2>3 DEF Numbers
  <2> QED BY <2>1, <2>2, <2>3, <2>4, BusyStep
<1>4. CASE Timetable!RunNow
  <2>1. /\ edits < MaxEdits /\ edits' = edits + 1 /\ task # Timetable!NoTask /\ flag' = TRUE
        /\ UNCHANGED <<now, woken, loop, task, records, excused>>
    BY <1>4 DEF Timetable!RunNow, Timetable!Asks
  <2>2. edits' \in 0..MaxEdits BY <1>1, <2>1, TimetableAssumption DEF Numbers
  <2>3. Numbers' BY <1>1, <2>1, <2>2 DEF Numbers
  <2> QED BY <2>1, <2>3, BusyStep
<1> QED BY <1>2, <1>3, <1>4

LEMMA RecordStep == TaskInv /\ Timetable!Record => TaskInv'
<1> SUFFICES ASSUME TaskInv, Timetable!Record PROVE TaskInv' OBVIOUS
<1>1. /\ records > 0 /\ records' = records - 1
      /\ UNCHANGED <<now, woken, loop, flag, edits>>
      /\ Timetable!Renew(Timetable!Task(task, task.enabled, now,
                            Timetable!NextRun(task, task.enabled, now, now)))
  BY DEF Timetable!Record, Timetable!Recorded
<1>2. Numbers /\ records \in Nat BY DEF TaskInv, Numbers
<1>3. task # Timetable!NoTask BY <1>1 DEF TaskInv
<1>4. TaskTyped BY <1>3 DEF TaskInv
<1>5. Planned(task) /\ PlanOf(task) \in Timetable!Plans /\ task.enabled \in BOOLEAN
  BY <1>4, TypedPlanned DEF TaskTyped
<1>6. now \in Timetable!Zero..now
  BY <1>2, TimetableAssumption DEF Numbers, Timetable!Zero
<1>7. records' \in Nat BY <1>1, <1>2
<1>8. excused' = FALSE BY <1>1 DEF Timetable!Renew
<1>9. Numbers' BY <1>1, <1>2, <1>7, <1>8 DEF Numbers
<1> QED BY <1>1, <1>5, <1>6, <1>9, RenewStep

LEMMA UpdateStep ==
    ASSUME TaskInv, NEW plan \in Timetable!Plans, NEW on \in BOOLEAN,
           Timetable!Update(plan, on)
    PROVE  TaskInv'
<1>1. Numbers BY DEF TaskInv
<1>2. /\ edits < MaxEdits /\ edits' = edits + 1
      /\ UNCHANGED <<now, woken, loop, flag, records>> /\ excused' = FALSE
  BY DEF Timetable!Update, Timetable!Asks, Timetable!Renew
<1>3. edits' \in 0..MaxEdits BY <1>1, <1>2, TimetableAssumption DEF Numbers
<1>4. Numbers' BY <1>1, <1>2, <1>3 DEF Numbers
<1>5. Planned(plan) /\ PlanOf(plan) \in Timetable!Plans BY PlanOfPlan
<1>6. /\ task # Timetable!NoTask
      /\ Timetable!Renew(Timetable!Task(plan, on, task.last,
                            Timetable!NextRun(plan, on, task.last, now)))
  BY DEF Timetable!Update
<1>7. task.last \in Timetable!Zero..now BY <1>6 DEF TaskInv, TaskTyped
<1> QED BY <1>2, <1>4, <1>5, <1>6, <1>7, RenewStep

(* The time that a new task shows while its request waits for the locks *)
LEMMA CreateStep ==
    ASSUME TimetableInv, NEW plan \in Timetable!Plans, NEW on \in BOOLEAN,
           Timetable!Create(plan, on)
    PROVE  TimetableInv'
<1>1. Numbers /\ TaskInv BY DEF TimetableInv, TaskInv
<1>2. /\ edits < MaxEdits /\ edits' = edits + 1 /\ task = Timetable!NoTask
      /\ UNCHANGED <<now, woken, loop, task, flag, records, excused>>
  BY DEF Timetable!Create, Timetable!Asks
<1>3. edits' \in 0..MaxEdits BY <1>1, <1>2, TimetableAssumption DEF Numbers
<1>4. TaskInv'
  <2>1. Numbers' BY <1>1, <1>2, <1>3 DEF Numbers
  <2> QED BY <1>1, <1>2, <2>1 DEF TaskInv
<1>5. Planned(plan) /\ PlanOf(plan) \in Timetable!Plans BY PlanOfPlan
<1>6. now \in Nat /\ Timetable!Zero \in Timetable!Zero..now
  BY <1>1, TimetableAssumption DEF Numbers, Timetable!Zero
<1>7. PICK x : x = Timetable!NextRun(plan, on, Timetable!Zero, now) OBVIOUS
<1>8. draft' = [mode |-> plan.mode, every |-> plan.every, at |-> plan.at, days |-> plan.days,
                enabled |-> on, last |-> Timetable!Zero, next |-> x]
  BY <1>7 DEF Timetable!Create, Timetable!Task
<1>9. x \in Int /\ (on => x \in Nat /\ (plan.mode = "daily" =>
          \E d \in Nat : /\ x = Timetable!Moment(d, plan.at)
                         /\ Timetable!Allowed(plan.days, d)))
  <2>1. plan.mode = "interval" \/ plan.mode = "daily" BY <1>5 DEF Planned
  <2>2. CASE on = FALSE
    <3>1. x = Timetable!NextRun(plan, FALSE, Timetable!Zero, now) BY <1>7, <2>2
    <3>2. x = Timetable!Zero BY <3>1, NextNever
    <3> QED BY <2>2, <3>2 DEF Timetable!Zero
  <2>3. CASE on = TRUE
    <3>1. x = Timetable!NextRun(plan, TRUE, Timetable!Zero, now) BY <1>7, <2>3
    <3>2. CASE plan.mode = "interval"
      <4>1. x \in Nat BY <1>5, <1>6, <3>1, <3>2, NextInterval
      <4> QED BY <3>2, <4>1
    <3>3. CASE plan.mode = "daily"
      <4>1. /\ x \in Nat
            /\ \E d \in Nat : x = Timetable!Moment(d, plan.at) /\ Timetable!Allowed(plan.days, d)
        BY <1>5, <1>6, <3>1, <3>3, NextDaily
      <4> QED BY <4>1
    <3> QED BY <2>1, <3>2, <3>3
  <2> QED BY <2>2, <2>3
<1>10. DraftTyped'
  <2>1. PlanOf(draft') = PlanOf(plan) BY <1>8 DEF PlanOf
  <2>2. plan.at \in Nat BY <1>5, TimetableAssumption DEF Planned
  <2>3. draft' \in [mode : {"interval", "daily"}, every : Nat, at : Nat,
                    days : SUBSET (0..DaysPerWeek - 1), enabled : BOOLEAN,
                    last : {Timetable!Zero}, next : Int]
    BY <1>5, <1>8, <1>9, <2>2 DEF Planned
  <2> QED BY <1>5, <2>1, <2>3 DEF DraftTyped
<1>11. draft'.enabled => DraftTimely'
  <2>1. /\ draft'.enabled = on /\ draft'.next = x /\ draft'.mode = plan.mode
        /\ draft'.at = plan.at /\ draft'.days = plan.days
    BY <1>8
  <2> QED BY <1>9, <2>1 DEF DraftTimely
<1> QED BY <1>2, <1>4, <1>10, <1>11 DEF TimetableInv, DraftInv

LEMMA InsertStep ==
    ASSUME TimetableInv, Timetable!Insert
    PROVE  TimetableInv'
<1>1. Numbers /\ TaskInv BY DEF TimetableInv, TaskInv
<1>2. /\ draft # Timetable!NoTask /\ task' = draft /\ draft' = Timetable!NoTask
      /\ excused' = Timetable!TooLate
      /\ UNCHANGED <<now, woken, loop, flag, records, edits>>
  BY DEF Timetable!Insert
<1>3. DraftTyped /\ (draft.enabled => DraftTimely) BY <1>2 DEF TimetableInv, DraftInv
<1>4. Numbers'
  <2>1. excused' \in BOOLEAN BY <1>2 DEF Timetable!TooLate
  <2> QED BY <1>1, <1>2, <2>1 DEF Numbers
<1>5. now \in Nat /\ woken \in Nat /\ woken <= now
  BY <1>1, TimetableAssumption DEF Numbers
<1>6. TaskTyped'
  <2>1. Timetable!Zero \in Timetable!Zero..now BY <1>5 DEF Timetable!Zero
  <2>2. PlanOf(task') = PlanOf(draft) BY <1>2
  <2> QED BY <1>2, <1>3, <2>1, <2>2 DEF TaskTyped, DraftTyped
<1>7. ASSUME draft.enabled PROVE Timely' /\ Awake' /\ Kept'
  <2>1. DraftTimely /\ draft.last = Timetable!Zero BY <1>3, <1>7 DEF DraftTyped
  <2>2. Timely' BY <1>2, <2>1 DEF Timely, DraftTimely
  <2>3. PICK x : x = draft.next OBVIOUS
  <2>4. x \in Nat BY <2>1, <2>3 DEF DraftTimely
  <2>5. ASSUME x <= now PROVE excused'
    <3>1. draft.next \in 0..now BY <1>5, <2>3, <2>4, <2>5
    <3>2. Timetable!TooLate BY <3>1 DEF Timetable!TooLate
    <3> QED BY <1>2, <3>2, Zenon
  <2>6. x < woken \/ x = woken => x <= now BY <1>5, <2>4
  <2>7. Kept' BY <1>2, <2>3, <2>5, <2>6 DEF Kept
  <2>8. ASSUME ~(x <= now)
        PROVE  ~(Timetable!Minute(x) < Timetable!Minute(now))
    <3>1. now <= x BY <1>5, <2>4, <2>8
    <3>2. now \div TicksPerMinute <= x \div TicksPerMinute
      BY <1>5, <2>4, <3>1, TimetableAssumption, DividingGrows
    <3>3. now \div TicksPerMinute \in Nat /\ x \div TicksPerMinute \in Nat
      BY <1>5, <2>4, TimetableAssumption, Dividing
    <3> QED BY <3>2, <3>3 DEF Timetable!Minute
  <2>9. Awake' BY <1>2, <2>3, <2>5, <2>8 DEF Awake, Timetable!Minute
  <2> QED BY <2>2, <2>7, <2>9
<1> QED BY <1>2, <1>4, <1>6, <1>7 DEF TimetableInv, TaskInv, DraftInv

LEMMA RefusedStep == TimetableInv /\ Timetable!InsertRefused => TimetableInv'
<1> SUFFICES ASSUME TimetableInv, Timetable!InsertRefused PROVE TimetableInv' OBVIOUS
<1>1. /\ draft' = Timetable!NoTask
      /\ UNCHANGED <<now, woken, loop, task, flag, records, excused, edits>>
  BY DEF Timetable!InsertRefused
<1>2. TaskInv'
  BY <1>1 DEF TimetableInv, TaskInv, Numbers, TaskTyped, PlanOf, Timely, Awake, Kept,
     Timetable!Minute
<1> QED BY <1>1, <1>2 DEF TimetableInv, DraftInv

(* Steps that know nothing of a draft *)
LEMMA DraftKept ==
    ASSUME TimetableInv, draft' = draft, task' = task \/ task # Timetable!NoTask
    PROVE  DraftInv'
<1>1. DraftTyped => DraftTyped' BY DEF DraftTyped, PlanOf
<1>2. DraftTimely => DraftTimely' BY DEF DraftTimely
<1> QED BY <1>1, <1>2 DEF TimetableInv, DraftInv

LEMMA DeleteStep == TaskInv /\ Timetable!Delete => TaskInv'
<1> SUFFICES ASSUME TaskInv, Timetable!Delete PROVE TaskInv' OBVIOUS
<1>1. /\ edits < MaxEdits /\ edits' = edits + 1 /\ UNCHANGED <<now, woken>>
      /\ task' = Timetable!NoTask /\ excused' = FALSE
      /\ loop' = "idle" /\ flag' = FALSE /\ records' = 0
  BY DEF Timetable!Delete, Timetable!Asks, Timetable!Renew
<1>2. edits' \in 0..MaxEdits BY <1>1, TimetableAssumption DEF TaskInv, Numbers
<1>3. Numbers' BY <1>1, <1>2 DEF TaskInv, Numbers
<1> QED BY <1>1, <1>3 DEF TaskInv

LEMMA TimetableStep == TimetableInv /\ [Timetable!Next]_timetableVars => TimetableInv'
<1> SUFFICES ASSUME TimetableInv, [Timetable!Next]_timetableVars PROVE TimetableInv'
  OBVIOUS
<1>1. TaskInv BY DEF TimetableInv
<1>2. CASE Timetable!Wake \/ Timetable!Claim \/ Timetable!End \/ Timetable!RunNow \/ Timetable!Tick
  <2>1. draft' = draft /\ task' = task
    BY <1>2 DEF Timetable!Wake, Timetable!Claim, Timetable!End, Timetable!RunNow,
       Timetable!Tick, Timetable!Asks
  <2>2. TaskInv' BY <1>1, <1>2, WakeStep, RunSteps, TickStep
  <2> QED BY <2>1, <2>2, DraftKept DEF TimetableInv
<1>3. CASE Timetable!Record \/ Timetable!Delete
  <2>1. draft' = draft /\ task # Timetable!NoTask
    BY <1>1, <1>3 DEF Timetable!Record, Timetable!Delete, TaskInv
  <2>2. TaskInv' BY <1>1, <1>3, RecordStep, DeleteStep
  <2> QED BY <2>1, <2>2, DraftKept DEF TimetableInv
<1>4. CASE Timetable!Insert \/ Timetable!InsertRefused
  BY <1>4, InsertStep, RefusedStep
<1>5. ASSUME NEW plan \in Timetable!Plans, NEW on \in BOOLEAN, Timetable!Create(plan, on)
      PROVE  TimetableInv'
  BY <1>5, CreateStep
<1>6. ASSUME NEW plan \in Timetable!Plans, NEW on \in BOOLEAN, Timetable!Update(plan, on)
      PROVE  TimetableInv'
  <2>1. draft' = draft /\ task # Timetable!NoTask BY <1>6 DEF Timetable!Update
  <2>2. TaskInv' BY <1>1, <1>6, UpdateStep
  <2> QED BY <2>1, <2>2, DraftKept DEF TimetableInv
<1>7. CASE UNCHANGED timetableVars
  <2>1. UNCHANGED <<now, woken, loop, task, draft, flag, records, excused, edits>>
    BY <1>7 DEF timetableVars
  <2>2. TaskInv'
    BY <1>1, <2>1 DEF TaskInv, Numbers, TaskTyped, PlanOf, Timely, Awake, Kept,
       Timetable!Minute
  <2> QED BY <2>1, <2>2, DraftKept DEF TimetableInv
<1> QED BY <1>2, <1>3, <1>4, <1>5, <1>6, <1>7 DEF Timetable!Next

LEMMA TimetableInvariance == Spec => []TimetableInv
<1>1. Init => TimetableInv BY TimetableInit DEF Init
<1>2. TimetableInv /\ [Next]_vars => TimetableInv'
  <2>1. [Next]_vars => [Timetable!Next]_timetableVars BY DEF Next, vars, timetableVars
  <2> QED BY <2>1, TimetableStep
<1> QED BY <1>1, <1>2, PTL DEF Spec

LEMMA TimetableTyped == TimetableInv => Timetable!TypeOK
<1> SUFFICES ASSUME TimetableInv PROVE Timetable!TypeOK OBVIOUS
<1>1. Numbers BY DEF TimetableInv, TaskInv
<1>2. ASSUME task # Timetable!NoTask
      PROVE  /\ \E plan \in Timetable!Plans, on \in BOOLEAN :
                   task = Timetable!Task(plan, on, task.last, task.next)
             /\ task.last \in Timetable!Zero..now
  <2>1. TaskTyped BY <1>2 DEF TimetableInv, TaskInv
  <2>2. task = Timetable!Task(PlanOf(task), task.enabled, task.last, task.next)
    BY <2>1 DEF TaskTyped, PlanOf, Timetable!Task
  <2>3. PlanOf(task) \in Timetable!Plans /\ task.enabled \in BOOLEAN BY <2>1 DEF TaskTyped
  <2> QED BY <2>1, <2>2, <2>3 DEF TaskTyped
<1>3. ASSUME draft # Timetable!NoTask
      PROVE  /\ task = Timetable!NoTask
             /\ \E plan \in Timetable!Plans, on \in BOOLEAN :
                   draft = Timetable!Task(plan, on, Timetable!Zero, draft.next)
  <2>1. DraftTyped /\ task = Timetable!NoTask BY <1>3 DEF TimetableInv, DraftInv
  <2>2. draft = Timetable!Task(PlanOf(draft), draft.enabled, Timetable!Zero, draft.next)
    BY <2>1 DEF DraftTyped, PlanOf, Timetable!Task
  <2>3. PlanOf(draft) \in Timetable!Plans /\ draft.enabled \in BOOLEAN BY <2>1 DEF DraftTyped
  <2> QED BY <2>1, <2>2, <2>3
<1> QED BY <1>1, <1>2, <1>3 DEF Timetable!TypeOK, Numbers

(* An enabled task shows when it runs next, and the panel keeps to it:     *)
(* NextRun finds a day for every set of weekdays, what due asks for holds  *)
(* at the shown time, and no request, and no end of a run, leaves a time   *)
(* behind that has passed, but for the excuses that ShownTimeKept names     *)
(* (scheduler.go, api_features.go).                                        *)
THEOREM TimesAreKept == Spec => []ShownTimeKept
<1>1. TimetableInv => ShownTimeKept
  <2> SUFFICES ASSUME TimetableInv, task # Timetable!NoTask, task.enabled
               PROVE  /\ task.next # Timetable!Zero
                      /\ loop = "idle" /\ task.next < woken =>
                            \/ flag \/ records > 0 \/ excused
                            \/ task.mode = "daily" /\ task.next - task.last <= Timetable!Guard
    BY DEF ShownTimeKept, Timetable!ShownTimeKept
  <2>1. Timely /\ Kept BY DEF TimetableInv, TaskInv
  <2>2. task.next # Timetable!Zero BY <2>1 DEF Timely, Timetable!Zero
  <2> QED BY <2>1, <2>2 DEF Kept
<1> QED BY <1>1, TimetableInvariance, PTL

-----------------------------------------------------------------------------
(* Settings: what a request that nobody has outdated carries besides its   *)
(* own field is what was named last.                                       *)
FreshSaves ==
    \A t \in Handlers : save[t] # Settings!Idle /\ save[t].fresh =>
       \A f \in Fields : f # save[t].field => save[t].next[f] \in named[f]

SettingsInv == Settings!TypeOK /\ SavesKept /\ FreshSaves

LEMMA SettingsInit == Settings!Init => SettingsInv
<1> SUFFICES ASSUME Settings!Init PROVE SettingsInv OBVIOUS
<1> USE DEF Settings!Init
<1>1. Settings!TypeOK BY DEF Settings!TypeOK, Settings!Docs
<1>2. SavesKept BY DEF SavesKept, Settings!SavesKept
<1>3. FreshSaves BY DEF FreshSaves
<1> QED BY <1>1, <1>2, <1>3 DEF SettingsInv

(* What a handler is about to store *)
LEMMA SaveType ==
    ASSUME Settings!TypeOK, NEW t \in Handlers, save[t] # Settings!Idle
    PROVE  /\ save[t] \in Settings!Work
           /\ save[t].next \in Settings!Docs /\ save[t].field \in Fields
           /\ save[t].fresh \in BOOLEAN /\ save[t].pc = "save"
BY DEF Settings!TypeOK, Settings!Work

(* A step that ends a request and, if it stored, outdates the others *)
LEMMA EndsKeeps ==
    ASSUME SettingsInv, NEW t \in Handlers, NEW outdates \in BOOLEAN,
           Settings!Ends(t, outdates), ~outdates => UNCHANGED named
    PROVE  save' \in [Handlers -> Settings!Work \cup {Settings!Idle}] /\ FreshSaves'
<1>1. ASSUME NEW u \in Handlers
      PROVE  /\ save'[u] \in Settings!Work \cup {Settings!Idle}
             /\ save'[u] # Settings!Idle /\ save'[u].fresh => save'[u] = save[u] /\ ~outdates
  <2>1. CASE u = t BY <2>1 DEF Settings!Ends
  <2>2. CASE u # t /\ (~outdates \/ save[u] = Settings!Idle)
    BY <2>2 DEF Settings!Ends, SettingsInv, Settings!TypeOK
  <2>3. CASE u # t /\ outdates /\ save[u] # Settings!Idle
    <3>1. save'[u] = [save[u] EXCEPT !.fresh = FALSE] BY <2>3 DEF Settings!Ends
    <3>2. save[u] \in Settings!Work BY <2>3, SaveType DEF SettingsInv
    <3>3. save'[u] \in Settings!Work /\ save'[u].fresh = FALSE
      BY <3>1, <3>2 DEF Settings!Work
    <3> QED BY <3>3
  <2> QED BY <2>1, <2>2, <2>3
<1>2. save' \in [Handlers -> Settings!Work \cup {Settings!Idle}]
  <2>1. save' = [u \in Handlers |-> save'[u]] BY DEF Settings!Ends
  <2> QED BY <1>1, <2>1
<1>3. FreshSaves' BY <1>1 DEF FreshSaves, SettingsInv
<1> QED BY <1>2, <1>3

LEMMA SettingsStep == SettingsInv /\ [Settings!Next]_settingsVars => SettingsInv'
<1> SUFFICES ASSUME SettingsInv, [Settings!Next]_settingsVars PROVE SettingsInv' OBVIOUS
<1>1. ASSUME NEW t \in Handlers, Settings!Store(t) PROVE SettingsInv'
  <2>1. /\ save[t].next \in Settings!Docs /\ save[t].field \in Fields
        /\ save[t].fresh \in BOOLEAN
    BY <1>1, SaveType DEF Settings!Store, SettingsInv
  <2>2. save' \in [Handlers -> Settings!Work \cup {Settings!Idle}] /\ FreshSaves'
    BY <1>1, EndsKeeps DEF Settings!Store
  <2>3. \A f \in Fields : save[t].next[f] \in Values BY <2>1 DEF Settings!Docs
  <2>4. \A f \in Fields : save[t].next[f] \in named'[f]
    <3> SUFFICES ASSUME NEW f \in Fields PROVE save[t].next[f] \in named'[f] OBVIOUS
    <3>1. CASE f \in Settings!Names(t) BY <1>1, <3>1 DEF Settings!Store
    <3>2. CASE f \notin Settings!Names(t)
      <4>1. save[t].fresh /\ f # save[t].field BY <3>2 DEF Settings!Names
      <4>2. save[t].next[f] \in named[f]
        BY <1>1, <4>1 DEF SettingsInv, FreshSaves, Settings!Store
      <4> QED BY <1>1, <3>2, <4>2 DEF Settings!Store
    <3> QED BY <3>1, <3>2
  <2>5. named' \in [Fields -> SUBSET Values]
    BY <1>1, <2>3 DEF Settings!Store, SettingsInv, Settings!TypeOK
  <2>6. Settings!TypeOK'
    BY <1>1, <2>1, <2>2, <2>5 DEF Settings!Store, SettingsInv, Settings!TypeOK
  <2>7. SavesKept'
    BY <1>1, <2>4 DEF Settings!Store, SavesKept, Settings!SavesKept
  <2> QED BY <2>2, <2>6, <2>7 DEF SettingsInv
<1>2. ASSUME NEW t \in Handlers, Settings!StoreFails(t) PROVE SettingsInv'
  <2>1. /\ save[t].next \in Settings!Docs /\ save[t].field \in Fields
        /\ save[t].fresh \in BOOLEAN
    BY <1>2, SaveType DEF Settings!StoreFails, SettingsInv
  <2>2. save' \in [Handlers -> Settings!Work \cup {Settings!Idle}] /\ FreshSaves'
    <3>1. (kind = "ai") \in BOOLEAN OBVIOUS
    <3>2. Settings!Ends(t, kind = "ai") /\ (~(kind = "ai") => UNCHANGED named)
      BY <1>2 DEF Settings!StoreFails
    <3> QED BY <3>1, <3>2, EndsKeeps
  <2>3. \A f \in Fields : save[t].next[f] \in Values BY <2>1 DEF Settings!Docs
  <2>4. CASE kind = "ai"
    <3>1. \A f \in Fields :
             named'[f] = named[f] \cup IF f \in Settings!Names(t) THEN {save[t].next[f]} ELSE {}
      BY <1>2, <2>4 DEF Settings!StoreFails
    <3>2. \A f \in Fields : save[t].next[f] \in named'[f]
      <4> SUFFICES ASSUME NEW f \in Fields PROVE save[t].next[f] \in named'[f] OBVIOUS
      <4>1. CASE f \in Settings!Names(t) BY <3>1, <4>1
      <4>2. CASE f \notin Settings!Names(t)
        <5>1. save[t].fresh /\ f # save[t].field BY <4>2 DEF Settings!Names
        <5>2. save[t].next[f] \in named[f]
          BY <1>2, <5>1 DEF SettingsInv, FreshSaves, Settings!StoreFails
        <5> QED BY <3>1, <5>2
      <4> QED BY <4>1, <4>2
    <3>3. named' \in [Fields -> SUBSET Values]
      BY <1>2, <2>3, <2>4 DEF Settings!StoreFails, SettingsInv, Settings!TypeOK
    <3>4. held' = save[t].next /\ kind' = kind /\ stored' = stored
      BY <1>2, <2>4 DEF Settings!StoreFails
    <3>5. Settings!TypeOK' BY <2>1, <2>2, <3>3, <3>4 DEF SettingsInv, Settings!TypeOK
    <3>6. SavesKept'
      BY <3>1, <3>2, <3>4 DEF SettingsInv, SavesKept, Settings!SavesKept
    <3> QED BY <2>2, <3>5, <3>6 DEF SettingsInv
  <2>5. CASE kind # "ai"
    <3>1. UNCHANGED <<kind, held, stored, named>> BY <1>2, <2>5 DEF Settings!StoreFails
    <3> QED BY <2>2, <3>1 DEF SettingsInv, Settings!TypeOK, SavesKept, Settings!SavesKept
  <2> QED BY <2>4, <2>5
<1>3. ASSUME NEW t \in Handlers, Settings!Refuse(t) PROVE SettingsInv'
  <2>1. save' \in [Handlers -> Settings!Work \cup {Settings!Idle}] /\ FreshSaves'
    BY <1>3, EndsKeeps DEF Settings!Refuse
  <2> QED
    BY <1>3, <2>1
       DEF Settings!Refuse, SettingsInv, Settings!TypeOK, SavesKept, Settings!SavesKept
<1>4. ASSUME NEW t \in Handlers, NEW f \in Fields, NEW v \in Values, Settings!Load(t, f, v)
      PROVE  SettingsInv'
  <2>1. PICK readable \in BOOLEAN :
           /\ save' = [save EXCEPT ![t] =
                 [pc |-> "save", next |-> [Settings!Base(readable) EXCEPT ![f] = v],
                  field |-> f, fresh |-> kind = "ai" \/ readable]]
           /\ UNCHANGED <<kind, held, stored, named>>
    BY <1>4 DEF Settings!Load
  <2> DEFINE base0 == Settings!Base(readable)
             work == [pc |-> "save", next |-> [base0 EXCEPT ![f] = v],
                      field |-> f, fresh |-> kind = "ai" \/ readable]
  <2>2. base0 \in Settings!Docs BY DEF Settings!Base, SettingsInv, Settings!TypeOK
  <2>3. work \in Settings!Work
    BY <2>2 DEF Settings!Work, Settings!Docs, SettingsInv, Settings!TypeOK
  <2>4. Settings!TypeOK' BY <2>1, <2>3 DEF SettingsInv, Settings!TypeOK
  <2>5. SavesKept' BY <2>1 DEF SettingsInv, SavesKept, Settings!SavesKept
  <2>6. kind = "ai" \/ readable => \A g \in Fields : g # f => base0[g] \in named[g]
    BY DEF Settings!Base, SettingsInv, Settings!TypeOK, SavesKept, Settings!SavesKept
  <2>7. \A g \in Fields : g # f => work.next[g] = base0[g] BY <2>2 DEF Settings!Docs
  <2>8. save'[t] = work /\ \A u \in Handlers : u # t => save'[u] = save[u]
    BY <2>1 DEF SettingsInv, Settings!TypeOK
  <2>9. FreshSaves'
    <3> SUFFICES ASSUME NEW u \in Handlers, save'[u] # Settings!Idle, save'[u].fresh,
                        NEW g \in Fields, g # save'[u].field
                 PROVE  save'[u].next[g] \in named[g]
      BY <2>1 DEF FreshSaves
    <3>1. CASE u # t BY <2>8, <3>1 DEF SettingsInv, FreshSaves
    <3>2. CASE u = t
      <4>1. work.field = f /\ work.fresh = (kind = "ai" \/ readable) OBVIOUS
      <4> HIDE DEF work, base0
      <4>2. g # f /\ (kind = "ai" \/ readable) BY <2>8, <3>2, <4>1
      <4> QED BY <2>6, <2>7, <2>8, <3>2, <4>2
    <3> QED BY <3>1, <3>2
  <2> QED BY <2>4, <2>5, <2>9 DEF SettingsInv
<1>5. CASE Settings!SaveAlong
  BY <1>5 DEF Settings!SaveAlong, SettingsInv, Settings!TypeOK, FreshSaves,
              SavesKept, Settings!SavesKept
<1>6. CASE Settings!Restart
  BY <1>6 DEF Settings!Restart, SettingsInv, Settings!TypeOK, FreshSaves,
              SavesKept, Settings!SavesKept
<1>7. CASE UNCHANGED settingsVars
  BY <1>7 DEF settingsVars, SettingsInv, Settings!TypeOK, FreshSaves,
              SavesKept, Settings!SavesKept
<1> QED BY <1>1, <1>2, <1>3, <1>4, <1>5, <1>6, <1>7 DEF Settings!Next

LEMMA SettingsInvariance == Spec => []SettingsInv
<1>1. Init => SettingsInv BY SettingsInit DEF Init
<1>2. SettingsInv /\ [Next]_vars => SettingsInv'
  <2>1. [Next]_vars => [Settings!Next]_settingsVars BY DEF Next, vars, settingsVars
  <2> QED BY <2>1, SettingsStep
<1> QED BY <1>1, <1>2, PTL DEF Spec

(* A save of the settings (api_admin.go 41-99, api_ai.go 29-128) never     *)
(* brings back a value that was replaced, for any fields, values, requests *)
(* and restarts.                                                           *)
THEOREM NothingBroughtBack == Spec => []SavesKept
<1>1. SettingsInv => SavesKept BY DEF SettingsInv
<1> QED BY SettingsInvariance, <1>1, PTL

-----------------------------------------------------------------------------
(* Backup: the file of a creation is its own, and still partial unless one *)
(* of its name was deleted; and what retention is about to remove has      *)
(* enough newer archives.                                                  *)

(* What a creation has open nobody else has.  It is the partial file of    *)
(* its name as long as no file of this name is dropped.                    *)
Dropped(n) == \E g \in Backup!Files : place[g] = "dropped" /\ name[g] = n

Owned(t) ==
    /\ name[file[t]] = Backup!Name(t) /\ place[file[t]] # "unborn"
    /\ Backup!Name(t) \notin torn => place[file[t]] = "partial"
    /\ place[file[t]] # "partial" => Dropped(Backup!Name(t))
    /\ reused = "no" => place[file[t]] \in {"partial", "dropped", "failed"}

OwnerInv ==
    /\ \A t \in Threads : file[t] # NoFile => Owned(t)
    /\ \A t, u \in Threads : t # u /\ file[t] # NoFile => file[t] # file[u]

(* Two entries of the directory have two names. *)
NameInv ==
    \A f, g \in Backup!Files :
        f # g /\ place[f] = place[g] /\ place[f] \in {"partial", "listed"} => name[f] # name[g]

(* Every creation past its count has a place reserved. *)
CountInv ==
    Cardinality(Backup!Archives) + Cardinality(Backup!Creating)
       <= MaxBackups - 1 + Cardinality(Threads)

(* What retention took, and what it is about to take, has Keep newer ones. *)
Doomed(f) == place[f] = "listed" /\ \E t \in Threads : name[f] \in doomed[t]
Safe(f)   == Cardinality(Backup!Newer(f)) >= Keep
DoomedGiven == \A t \in Threads : \A n \in doomed[t] : Backup!Given(n) # {}
KeepInv ==
    reused = "no" =>
        /\ DoomedGiven
        /\ \A f \in Backup!Files : place[f] = "pruned" \/ Doomed(f) => Safe(f)

BackupInv == Backup!TypeOK /\ OwnerInv /\ NameInv /\ CountInv /\ KeepInv

-----------------------------------------------------------------------------
LEMMA FilesFinite ==
    IsFiniteSet(Backup!Files) /\ NoFile \notin Backup!Files /\ Backup!Zero \in Seconds
<1>1. IsFiniteSet(Backup!Files) BY BackupAssumption, FS_Interval DEF Backup!Files
<1>2. NoFile \notin Backup!Files BY BackupAssumption DEF Backup!Files
<1>3. Backup!Zero \in Seconds BY BackupAssumption DEF Backup!Zero
<1> QED BY <1>1, <1>2, <1>3

(* A bigger set of files has more members. *)
LEMMA FilesMonotone ==
    ASSUME NEW S \in SUBSET Backup!Files, NEW T \in SUBSET S
    PROVE  /\ IsFiniteSet(S) /\ Cardinality(S) \in Nat
           /\ IsFiniteSet(T) /\ Cardinality(T) \in Nat
           /\ Cardinality(T) <= Cardinality(S)
<1>1. IsFiniteSet(S) BY FilesFinite, FS_Subset
<1>2. IsFiniteSet(T) /\ Cardinality(T) <= Cardinality(S) BY <1>1, FS_Subset
<1> QED BY <1>1, <1>2, FS_CardinalityType

(* Backup counts with the Cardinality that the lemmas are about. *)
LEMMA BackupCounts == \A S : Backup!Cardinality(S) = Cardinality(S)
BY DEF Cardinality, Backup!Cardinality

(* What is newer than f is a set of files. *)
LEMMA NewerFiles == \A f : Backup!Newer(f) \in SUBSET Backup!Files
BY DEF Backup!Newer, Backup!NotPruned

-----------------------------------------------------------------------------
LEMMA BackupInit == Backup!Init => BackupInv
<1> SUFFICES ASSUME Backup!Init PROVE BackupInv OBVIOUS
<1> USE FilesFinite, BackupAssumption
<1>1. Backup!TypeOK
  BY DEF Backup!Init, Backup!TypeOK, Backup!Places, Backup!Steps, Backup!Names
<1>2. OwnerInv /\ NameInv /\ DoomedGiven
  BY DEF Backup!Init, OwnerInv, NameInv, DoomedGiven
<1>3. KeepInv
  BY <1>2 DEF Backup!Init, KeepInv, Doomed
<1>4. CountInv
  <2>1. Backup!Archives = {} /\ Backup!Creating = {}
    BY DEF Backup!Init, Backup!Archives, Backup!Creating
  <2>2. Cardinality(Threads) \in Nat BY FS_CardinalityType
  <2> QED BY <2>1, <2>2, FS_EmptySet DEF CountInv
<1> QED BY <1>1, <1>2, <1>3, <1>4 DEF BackupInv

(* The types. *)
LEMMA BackupTypeStep == Backup!TypeOK /\ OwnerInv /\ [Backup!Next]_backupVars => Backup!TypeOK'
<1> SUFFICES ASSUME Backup!TypeOK, OwnerInv, [Backup!Next]_backupVars PROVE Backup!TypeOK' OBVIOUS
<1> USE FilesFinite DEF Backup!TypeOK, Backup!At, Backup!Goto, Backup!dirVars, Backup!callVars
<1>1. ASSUME NEW t \in Threads, Backup!Create(t) PROVE Backup!TypeOK'
  BY <1>1 DEF Backup!Create, Backup!Steps
<1>2. ASSUME NEW t \in Threads, Backup!Stat(t) PROVE Backup!TypeOK'
  BY <1>2 DEF Backup!Stat, Backup!Retry, Backup!Steps
<1>3. ASSUME NEW t \in Threads, Backup!Open(t) PROVE Backup!TypeOK'
  <2>1. ASSUME NEW f \in Backup!Opened(Backup!Name(t)),
               place' = [place EXCEPT ![f] = "partial"],
               name' = [name EXCEPT ![f] = Backup!Name(t)],
               file' = [file EXCEPT ![t] = f],
               pc' = [pc EXCEPT ![t] = "write"],
               UNCHANGED <<stamp, base, attempt, doomed, reboots, reused, torn>>
        PROVE  Backup!TypeOK'
    <3>1. f \in Backup!Files /\ Backup!Name(t) \in Backup!Names
      BY <2>1 DEF Backup!Opened, Backup!Unborn, Backup!Name, Backup!Names
    <3> QED BY <2>1, <3>1 DEF Backup!Places, Backup!Steps
  <2>2. CASE Backup!Retry(t) /\ UNCHANGED <<doomed, reboots, reused, torn>>
    BY <1>3, <2>2 DEF Backup!Open, Backup!Retry, Backup!Steps
  <2>3. CASE Backup!GiveUp(t) /\ UNCHANGED <<doomed, reboots, reused, torn>>
    BY <1>3, <2>3 DEF Backup!Open, Backup!GiveUp, Backup!Created, Backup!Steps
  <2> QED BY <1>3, <2>1, <2>2, <2>3 DEF Backup!Open
<1>4. ASSUME NEW t \in Threads, Backup!Finish(t) PROVE Backup!TypeOK'
  <2>1. file[t] \in Backup!Files BY <1>4 DEF Backup!Finish
  <2> QED BY <1>4, <2>1 DEF Backup!Finish, Backup!Steps
<1>5. ASSUME NEW t \in Threads, Backup!Fail(t) PROVE Backup!TypeOK'
  <2>1. place' \in [Backup!Files -> Backup!Places]
    BY <1>5 DEF Backup!Fail, Backup!Places
  <2> QED BY <1>5, <2>1 DEF Backup!Fail, Backup!Created, Backup!Steps
<1>6. ASSUME NEW t \in Threads, Backup!Rename(t) PROVE Backup!TypeOK'
  <2>1. place' \in [Backup!Files -> Backup!Places]
    BY <1>6 DEF Backup!Rename, Backup!Places
  <2> QED BY <1>6, <2>1 DEF Backup!Rename, Backup!Created, Backup!Steps
<1>7. ASSUME NEW t \in Threads, Backup!List(t) PROVE Backup!TypeOK'
  <2>1. {name[f] : f \in {g \in Backup!Archives : Backup!Surplus(g)}} \in SUBSET Backup!Names
    BY DEF Backup!Archives
  <2> QED BY <1>7, <2>1 DEF Backup!List, Backup!Steps
<1>8. ASSUME NEW t \in Threads, NEW n \in doomed[t], Backup!Prune(t, n) PROVE Backup!TypeOK'
  <2>1. place' \in [Backup!Files -> Backup!Places]
    BY <1>8 DEF Backup!Prune, Backup!Places
  <2> QED BY <1>8, <2>1 DEF Backup!Prune, Backup!Steps
<1>9. ASSUME NEW f \in Backup!Files, Backup!Delete(f) PROVE Backup!TypeOK'
  BY <1>9 DEF Backup!Delete, Backup!Places
<1>10. CASE Backup!Reboot
  <2>1. reboots' \in 0 .. MaxReboots BY <1>10, BackupAssumption DEF Backup!Reboot
  <2>2. doomed' \in [Threads -> SUBSET Backup!Names] BY <1>10 DEF Backup!Reboot
  <2>3. /\ pc' \in [Threads -> Backup!Steps] /\ file' \in [Threads -> Backup!Files \cup {NoFile}]
        /\ \A t \in Threads : file'[t] = NoFile /\ pc'[t] = "idle"
    BY <1>10 DEF Backup!Reboot, Backup!Steps
  <2>4. base' \in [Threads -> Seconds] /\ attempt' \in [Threads -> Nat]
    BY <1>10 DEF Backup!Reboot
  <2> QED BY <1>10, <2>1, <2>2, <2>3, <2>4 DEF Backup!Reboot
<1>11. CASE UNCHANGED backupVars
  BY <1>11 DEF backupVars
<1> HIDE DEF Backup!TypeOK, Backup!At, Backup!Goto, Backup!dirVars, Backup!callVars
<1> QED
  BY <1>1, <1>2, <1>3, <1>4, <1>5, <1>6, <1>7, <1>8, <1>9, <1>10, <1>11 DEF Backup!Next

-----------------------------------------------------------------------------
(* A name has one partial file at most.  When it is not the one that a     *)
(* creation has open, that one is not partial, and a file of its name was  *)
(* dropped.                                                                *)
LEMMA OwnPartial ==
    ASSUME Backup!TypeOK, OwnerInv, NameInv, NEW t \in Threads, file[t] # NoFile,
           NEW g \in Backup!Partials(Backup!Name(t))
    PROVE  /\ g \in Backup!Files /\ place[g] = "partial" /\ name[g] = Backup!Name(t)
           /\ Backup!Partials(Backup!Name(t)) = {g}
           /\ g # file[t] => Backup!Name(t) \in torn /\ Dropped(Backup!Name(t))
<1>1. g \in Backup!Files /\ place[g] = "partial" /\ name[g] = Backup!Name(t)
  BY DEF Backup!Partials
<1>2. Backup!Partials(Backup!Name(t)) = {g} BY <1>1 DEF Backup!Partials, NameInv
<1>3. file[t] \in Backup!Files /\ Owned(t) BY DEF Backup!TypeOK, OwnerInv
<1>4. g # file[t] => place[file[t]] # "partial" BY <1>1, <1>3 DEF NameInv, Owned
<1> QED BY <1>1, <1>2, <1>3, <1>4 DEF Owned

(* A creation keeps what it has open through the steps of others.          *)
LEMMA OwnedKept ==
    ASSUME NEW u \in Threads, Owned(u), file[u] \in Backup!Files,
           file'[u] = file[u], base'[u] = base[u], attempt'[u] = attempt[u],
           name'[file[u]] = name[file[u]], torn \subseteq torn', reused' = "no" => reused = "no",
           \A g \in Backup!Files : place[g] = "dropped" => place'[g] = "dropped" /\ name'[g] = name[g],
           \/ place'[file[u]] = place[file[u]]
           \/ /\ place'[file[u]] # "unborn"
              /\ Backup!Name(u) \in torn' /\ Dropped(Backup!Name(u))'
              /\ reused' = "no" => place'[file[u]] \in {"partial", "dropped", "failed"}
    PROVE  Owned(u)'
<1>1. Backup!Name(u)' = Backup!Name(u) BY DEF Backup!Name
<1>2. Dropped(Backup!Name(u)) => Dropped(Backup!Name(u))' BY <1>1 DEF Dropped
<1> QED BY <1>1, <1>2 DEF Owned

(* Steps that leave the directory alone, and open nothing *)
LEMMA OwnerQuiet ==
    ASSUME Backup!TypeOK, OwnerInv, NameInv, UNCHANGED <<place, name, reused>>, torn \subseteq torn',
           \A u \in Threads : file'[u] = NoFile \/
              (file'[u] = file[u] /\ base'[u] = base[u] /\ attempt'[u] = attempt[u])
    PROVE  OwnerInv' /\ NameInv'
<1>1. NameInv' BY DEF NameInv
<1>2. ASSUME NEW u \in Threads, file'[u] # NoFile PROVE Owned(u)'
  <2>1. /\ file'[u] = file[u] /\ base'[u] = base[u] /\ attempt'[u] = attempt[u]
        /\ file[u] \in Backup!Files /\ Owned(u)
    BY <1>2 DEF Backup!TypeOK, OwnerInv
  <2> QED BY <2>1, OwnedKept
<1> QED BY <1>1, <1>2 DEF OwnerInv

(* The files of a name go from partial to another place: by their creation *)
(* or by one that took them for its own.                                   *)
LEMMA OwnerEnds ==
    ASSUME Backup!TypeOK, OwnerInv, NameInv, NEW t \in Threads, file[t] # NoFile,
           UNCHANGED <<name, torn>>, reused' = "no" => reused = "no",
           file' = [file EXCEPT ![t] = NoFile],
           \A u \in Threads : u # t => base'[u] = base[u] /\ attempt'[u] = attempt[u],
           NEW P, P \in {"failed", "listed"},
           P = "listed" /\ reused' = "no" => Backup!Given(Backup!Name(t)) = {},
           \A g \in Backup!Files :
              \/ place'[g] = place[g]
              \/ g \in Backup!Partials(Backup!Name(t)) /\ place'[g] = P
              \/ P = "listed" /\ g \in Backup!Listed(Backup!Name(t)) /\ place'[g] = "replaced",
           P = "listed" => \A g \in Backup!Listed(Backup!Name(t)) : place'[g] = "replaced"
    PROVE  OwnerInv' /\ NameInv'
<1>1. \A g \in Backup!Files : place[g] = "dropped" => place'[g] = "dropped" /\ name'[g] = name[g]
  BY DEF Backup!Partials, Backup!Listed
<1>2. ASSUME NEW u \in Threads, u # t, file[u] # NoFile PROVE Owned(u)'
  <2>1. file[u] \in Backup!Files /\ Owned(u) /\ name[file[u]] = Backup!Name(u) /\ file'[u] = file[u]
        /\ base'[u] = base[u] /\ attempt'[u] = attempt[u] /\ file[u] # file[t]
    BY <1>2 DEF Backup!TypeOK, OwnerInv, Owned
  <2>2. CASE place'[file[u]] = place[file[u]] BY <1>1, <2>1, <2>2, OwnedKept
  <2>3. CASE file[u] \in Backup!Partials(Backup!Name(t)) /\ place'[file[u]] = P
    <3>1. Backup!Name(u) = Backup!Name(t) /\ Backup!Name(t) \in torn /\ Dropped(Backup!Name(t))
      BY <2>1, <2>3, OwnPartial
    <3>2. Dropped(Backup!Name(u))' BY <1>1, <2>1, <3>1 DEF Dropped, Backup!Name
    <3>3. P = "listed" => reused' # "no" BY <3>1 DEF Dropped, Backup!Given
    <3> QED BY <1>1, <2>1, <2>3, <3>1, <3>2, <3>3, OwnedKept
  <2>4. CASE P = "listed" /\ file[u] \in Backup!Listed(Backup!Name(t)) /\ place'[file[u]] = "replaced"
    <3>1. Backup!Name(u) = Backup!Name(t) /\ place[file[u]] = "listed"
      BY <2>1, <2>4 DEF Backup!Listed
    <3>2. Dropped(Backup!Name(t)) /\ Backup!Name(u) \in torn BY <2>1, <3>1 DEF Owned
    <3>3. Dropped(Backup!Name(u))' BY <1>1, <2>1, <3>1, <3>2 DEF Dropped, Backup!Name
    <3>4. reused' # "no" BY <2>4, <3>2 DEF Dropped, Backup!Given
    <3> QED BY <1>1, <2>1, <2>4, <3>2, <3>3, <3>4, OwnedKept
  <2> QED BY <2>1, <2>2, <2>3, <2>4
<1>3. OwnerInv' BY <1>2 DEF OwnerInv, Backup!TypeOK
<1>4. NameInv'
  <2> SUFFICES ASSUME NEW f \in Backup!Files, NEW g \in Backup!Files, f # g, place'[f] = place'[g],
                      place'[f] \in {"partial", "listed"}, name[f] = name[g]
               PROVE  FALSE
    BY DEF NameInv
  <2>1. place[f] # place[g] BY DEF NameInv, Backup!Partials, Backup!Listed
  <2>2. P = "listed" /\ \/ place[f] = "partial" /\ place[g] = "listed" /\ name[f] = Backup!Name(t)
                        \/ place[g] = "partial" /\ place[f] = "listed" /\ name[g] = Backup!Name(t)
    BY <2>1 DEF Backup!Partials, Backup!Listed
  <2> QED BY <2>2 DEF Backup!Listed
<1> QED BY <1>3, <1>4

LEMMA BackupOwnerStep ==
    Backup!TypeOK /\ OwnerInv /\ NameInv /\ [Backup!Next]_backupVars => OwnerInv' /\ NameInv'
<1> SUFFICES ASSUME Backup!TypeOK, OwnerInv, NameInv, [Backup!Next]_backupVars
             PROVE  OwnerInv' /\ NameInv'
  OBVIOUS
<1> USE FilesFinite
<1>1. ASSUME NEW t \in Threads, Backup!Create(t) \/ Backup!Stat(t) PROVE OwnerInv' /\ NameInv'
  <2>1. file[t] = NoFile
    BY <1>1 DEF Backup!Create, Backup!Stat, Backup!At, Backup!TypeOK
  <2>2. /\ UNCHANGED <<place, name, reused, torn, file>>
        /\ \A u \in Threads : u # t => base'[u] = base[u] /\ attempt'[u] = attempt[u]
    BY <1>1 DEF Backup!Create, Backup!Stat, Backup!Retry, Backup!dirVars, Backup!TypeOK
  <2>3. \A u \in Threads : file'[u] = NoFile \/
           (file'[u] = file[u] /\ base'[u] = base[u] /\ attempt'[u] = attempt[u])
    BY <2>1, <2>2
  <2> QED BY <2>2, <2>3, OwnerQuiet
<1>2. ASSUME NEW t \in Threads, Backup!Open(t) PROVE OwnerInv' /\ NameInv'
  <2>0. file[t] = NoFile /\ UNCHANGED <<reused, torn>>
    BY <1>2 DEF Backup!Open, Backup!At, Backup!TypeOK
  <2>1. ASSUME NEW f \in Backup!Opened(Backup!Name(t)),
               place' = [place EXCEPT ![f] = "partial"],
               name' = [name EXCEPT ![f] = Backup!Name(t)],
               file' = [file EXCEPT ![t] = f],
               UNCHANGED <<base, attempt>>
        PROVE  OwnerInv' /\ NameInv'
    <3>1. f \in Backup!Files /\ place[f] = "unborn" /\ Backup!Partials(Backup!Name(t)) = {}
      BY <2>1 DEF Backup!Opened, Backup!Unborn
    <3>2. /\ place'[f] = "partial" /\ name'[f] = Backup!Name(t)
          /\ \A g \in Backup!Files : g # f => place'[g] = place[g] /\ name'[g] = name[g]
          /\ file'[t] = f /\ \A u \in Threads : u # t => file'[u] = file[u]
      BY <2>1, <3>1 DEF Backup!TypeOK
    <3>3. Owned(t)' BY <2>1, <3>2 DEF Owned, Backup!Name
    <3>4. ASSUME NEW u \in Threads, u # t, file[u] # NoFile PROVE Owned(u)' /\ file[u] # f
      <4>1. file[u] \in Backup!Files /\ Owned(u) /\ file[u] # f
        BY <3>1, <3>4 DEF Backup!TypeOK, OwnerInv, Owned
      <4> QED BY <2>0, <2>1, <3>1, <3>2, <3>4, <4>1, OwnedKept
    <3>5. f # NoFile BY <3>1
    <3>6. OwnerInv' BY <3>2, <3>3, <3>4, <3>5 DEF OwnerInv
    <3>7. NameInv' BY <3>1, <3>2 DEF NameInv, Backup!Partials
    <3> QED BY <3>6, <3>7
  <2>2. CASE Backup!Retry(t) \/ Backup!GiveUp(t)
    <3>1. UNCHANGED <<place, name>> /\ file'[t] = NoFile
          /\ \A u \in Threads : u # t => file'[u] = file[u] /\ base'[u] = base[u] /\ attempt'[u] = attempt[u]
      BY <2>0, <2>2 DEF Backup!Retry, Backup!GiveUp, Backup!Created, Backup!dirVars, Backup!TypeOK
    <3>2. \A u \in Threads : file'[u] = NoFile \/
             (file'[u] = file[u] /\ base'[u] = base[u] /\ attempt'[u] = attempt[u])
      BY <3>1
    <3> QED BY <2>0, <3>1, <3>2, OwnerQuiet
  <2> QED BY <1>2, <2>1, <2>2 DEF Backup!Open
<1>3. ASSUME NEW t \in Threads, Backup!Finish(t) \/ Backup!List(t) PROVE OwnerInv' /\ NameInv'
  <2>1. UNCHANGED <<place, name, reused, torn, file, base, attempt>>
    BY <1>3 DEF Backup!Finish, Backup!List, Backup!dirVars
  <2> QED BY <2>1, OwnerQuiet
<1>4. ASSUME NEW t \in Threads, Backup!Fail(t) PROVE OwnerInv' /\ NameInv'
  <2>1. file[t] # NoFile BY <1>4 DEF Backup!Fail, Backup!TypeOK
  <2>2. \A g \in Backup!Files :
           place'[g] = place[g] \/ (g \in Backup!Partials(Backup!Name(t)) /\ place'[g] = "failed")
    BY <1>4 DEF Backup!Fail
  <2>3. /\ UNCHANGED <<name, torn, reused>> /\ file' = [file EXCEPT ![t] = NoFile]
        /\ \A u \in Threads : u # t => base'[u] = base[u] /\ attempt'[u] = attempt[u]
    BY <1>4 DEF Backup!Fail, Backup!Created, Backup!TypeOK
  <2>4. PICK P : P = "failed" OBVIOUS
  <2> QED BY <2>1, <2>2, <2>3, <2>4, OwnerEnds
<1>5. ASSUME NEW t \in Threads, Backup!Rename(t) PROVE OwnerInv' /\ NameInv'
  <2>1. file[t] # NoFile BY <1>5 DEF Backup!Rename, Backup!At, Backup!TypeOK
  <2>2. /\ \A g \in Backup!Files :
              \/ place'[g] = place[g]
              \/ g \in Backup!Partials(Backup!Name(t)) /\ place'[g] = "listed"
              \/ g \in Backup!Listed(Backup!Name(t)) /\ place'[g] = "replaced"
        /\ \A g \in Backup!Listed(Backup!Name(t)) : place'[g] = "replaced"
    BY <1>5 DEF Backup!Rename, Backup!Listed, Backup!Partials
  <2>3. /\ UNCHANGED <<name, torn>> /\ file' = [file EXCEPT ![t] = NoFile]
        /\ \A u \in Threads : u # t => base'[u] = base[u] /\ attempt'[u] = attempt[u]
        /\ reused' = "no" => reused = "no" /\ Backup!Given(Backup!Name(t)) = {}
    BY <1>5 DEF Backup!Rename, Backup!Created, Backup!TypeOK
  <2>4. PICK P : P = "listed" OBVIOUS
  <2> QED BY <2>1, <2>2, <2>3, <2>4, OwnerEnds
<1>6. ASSUME NEW t \in Threads, NEW n \in doomed[t], Backup!Prune(t, n) PROVE OwnerInv' /\ NameInv'
  <2>1. /\ UNCHANGED <<name, file, base, attempt, reused, torn>>
        /\ \A g \in Backup!Files :
              place'[g] = place[g] \/ (place[g] = "listed" /\ place'[g] = "pruned")
    BY <1>6 DEF Backup!Prune, Backup!Listed
  <2>2. ASSUME NEW u \in Threads, file[u] # NoFile PROVE Owned(u)'
    <3>1. file[u] \in Backup!Files /\ Owned(u) BY <2>2 DEF Backup!TypeOK, OwnerInv
    <3>2. CASE place'[file[u]] = place[file[u]] BY <2>1, <3>1, <3>2, OwnedKept
    <3>3. CASE place[file[u]] = "listed" /\ place'[file[u]] = "pruned"
      <4>1. reused # "no" /\ Backup!Name(u) \in torn /\ Dropped(Backup!Name(u))
        BY <3>1, <3>3 DEF Owned
      <4>2. Dropped(Backup!Name(u))' BY <2>1, <4>1 DEF Dropped, Backup!Name
      <4> QED BY <2>1, <3>1, <3>3, <4>1, <4>2, OwnedKept
    <3> QED BY <2>1, <3>1, <3>2, <3>3
  <2>3. OwnerInv' BY <2>1, <2>2 DEF OwnerInv
  <2>4. NameInv' BY <2>1 DEF NameInv
  <2> QED BY <2>3, <2>4
<1>7. ASSUME NEW f \in Backup!Files, Backup!Delete(f) PROVE OwnerInv' /\ NameInv'
  <2>1. /\ place[f] \in {"listed", "partial"}
        /\ place'[f] = IF place[f] = "listed" THEN "deleted" ELSE "dropped"
        /\ \A g \in Backup!Files : g # f => place'[g] = place[g]
        /\ UNCHANGED <<name, file, base, attempt, reused>>
        /\ torn \subseteq torn' /\ \A u \in Threads : file[u] = f => name[f] \in torn'
    BY <1>7 DEF Backup!Delete, Backup!callVars, Backup!TypeOK
  <2>2. ASSUME NEW u \in Threads, file[u] # NoFile PROVE Owned(u)'
    <3>1. file[u] \in Backup!Files /\ Owned(u) BY <2>2 DEF Backup!TypeOK, OwnerInv
    <3>2. \A g \in Backup!Files : place[g] = "dropped" => place'[g] = "dropped" /\ name'[g] = name[g]
      BY <2>1
    <3>3. CASE file[u] # f BY <2>1, <3>1, <3>2, <3>3, OwnedKept
    <3>4. CASE file[u] = f
      <4>1. name[f] = Backup!Name(u) /\ Backup!Name(u) \in torn' BY <2>1, <3>1, <3>4 DEF Owned
      <4>2. CASE place[f] = "partial"
        <5>1. place'[f] = "dropped" BY <2>1, <4>2
        <5>2. Dropped(Backup!Name(u))' BY <2>1, <4>1, <5>1 DEF Dropped, Backup!Name
        <5> QED BY <2>1, <3>1, <3>2, <3>4, <4>1, <5>1, <5>2, OwnedKept
      <4>3. CASE place[f] = "listed"
        <5>1. reused # "no" /\ Dropped(Backup!Name(u)) BY <3>1, <3>4, <4>3 DEF Owned
        <5>2. Dropped(Backup!Name(u))' BY <2>1, <3>2, <5>1 DEF Dropped, Backup!Name
        <5>3. place'[f] = "deleted" BY <2>1, <4>3
        <5> QED BY <2>1, <3>1, <3>2, <3>4, <4>1, <5>1, <5>2, <5>3, OwnedKept
      <4> QED BY <2>1, <4>2, <4>3
    <3> QED BY <3>3, <3>4
  <2>3. OwnerInv' BY <2>1, <2>2 DEF OwnerInv
  <2>4. NameInv' BY <2>1 DEF NameInv
  <2> QED BY <2>3, <2>4
<1>8. CASE Backup!Reboot
  BY <1>8 DEF Backup!Reboot, Backup!dirVars, OwnerInv, NameInv
<1>9. CASE UNCHANGED backupVars
  <2>1. UNCHANGED <<place, name, reused, torn, file, base, attempt>>
    BY <1>9 DEF backupVars
  <2> QED BY <2>1, OwnerQuiet
<1> QED
  BY <1>1, <1>2, <1>3, <1>4, <1>5, <1>6, <1>7, <1>8, <1>9 DEF Backup!Next

-----------------------------------------------------------------------------
(* The counting behind the limit: n archives and m creations before a step *)
(* and after it.                                                           *)
LEMMA CountFinite ==
    /\ IsFiniteSet(Backup!Archives) /\ Cardinality(Backup!Archives) \in Nat
    /\ IsFiniteSet(Backup!Creating) /\ Cardinality(Backup!Creating) \in Nat
    /\ Cardinality(Backup!Creating) <= Cardinality(Threads) /\ Cardinality(Threads) \in Nat
<1>1. Backup!Archives \in SUBSET Backup!Files /\ Backup!Creating \in SUBSET Threads
  BY DEF Backup!Archives, Backup!Creating
<1>2. IsFiniteSet(Backup!Files) /\ IsFiniteSet(Threads) BY FilesFinite, BackupAssumption
<1>3. IsFiniteSet(Backup!Archives) BY <1>1, <1>2, FS_Subset
<1>4. IsFiniteSet(Backup!Creating) /\ Cardinality(Backup!Creating) <= Cardinality(Threads)
  BY <1>1, <1>2, FS_Subset
<1> QED BY <1>2, <1>3, <1>4, FS_CardinalityType

(* A step that starts no creation and adds no archive keeps the count. *)
LEMMA CountShrinks ==
    ASSUME CountInv, NEW A, NEW C, A \subseteq Backup!Archives, C \subseteq Backup!Creating
    PROVE  Cardinality(A) + Cardinality(C) <= MaxBackups - 1 + Cardinality(Threads)
<1>1. /\ IsFiniteSet(A) /\ Cardinality(A) <= Cardinality(Backup!Archives)
      /\ IsFiniteSet(C) /\ Cardinality(C) <= Cardinality(Backup!Creating)
  BY CountFinite, FS_Subset
<1>2. Cardinality(A) \in Nat /\ Cardinality(C) \in Nat BY <1>1, FS_CardinalityType
<1> QED BY <1>1, <1>2, CountFinite, BackupAssumption DEF CountInv

LEMMA BackupCountStep ==
    Backup!TypeOK /\ OwnerInv /\ NameInv /\ CountInv /\ [Backup!Next]_backupVars
    => CountInv'
<1> SUFFICES ASSUME Backup!TypeOK, OwnerInv, NameInv, CountInv, [Backup!Next]_backupVars
             PROVE  CountInv'
  OBVIOUS
<1>1. ASSUME Backup!Archives' \subseteq Backup!Archives, Backup!Creating' \subseteq Backup!Creating
      PROVE  CountInv'
  <2>1. PICK A, C : A = Backup!Archives' /\ C = Backup!Creating' OBVIOUS
  <2>2. Cardinality(A) + Cardinality(C) <= MaxBackups - 1 + Cardinality(Threads)
    BY <1>1, <2>1, CountShrinks
  <2> QED BY <2>1, <2>2 DEF CountInv
<1>2. ASSUME NEW t \in Threads, Backup!Create(t) PROVE CountInv'
  <2>1. Backup!Archives' = Backup!Archives
    BY <1>2 DEF Backup!Create, Backup!dirVars, Backup!Archives
  <2>2. Cardinality(Backup!Archives) <= MaxBackups - 1
    BY <1>2, CountFinite, BackupCounts, BackupAssumption DEF Backup!Create, Backup!Full
  <2>3. /\ Cardinality(Backup!Creating') <= Cardinality(Threads)
        /\ Cardinality(Backup!Creating') \in Nat
    <3>1. Backup!Creating' \in SUBSET Threads BY DEF Backup!Creating
    <3> QED BY <3>1, BackupAssumption, FS_Subset, FS_CardinalityType
  <2> QED BY <2>1, <2>2, <2>3, CountFinite, BackupAssumption DEF CountInv
<1>3. ASSUME NEW t \in Threads, Backup!Stat(t) PROVE CountInv'
  <2>1. Backup!Archives' = Backup!Archives
    BY <1>3 DEF Backup!Stat, Backup!Retry, Backup!dirVars, Backup!Archives
  <2>2. Backup!Creating' \subseteq Backup!Creating
    BY <1>3 DEF Backup!Stat, Backup!Retry, Backup!At, Backup!Goto, Backup!TypeOK,
           Backup!Creating
  <2> QED BY <1>1, <2>1, <2>2
<1>4. ASSUME NEW t \in Threads, Backup!Open(t) PROVE CountInv'
  <2>1. Backup!Archives' \subseteq Backup!Archives
    BY <1>4 DEF Backup!Open, Backup!Retry, Backup!GiveUp, Backup!dirVars,
           Backup!TypeOK, Backup!Archives, Backup!Opened, Backup!Unborn
  <2>2. Backup!Creating' \subseteq Backup!Creating
    BY <1>4 DEF Backup!Open, Backup!Retry, Backup!GiveUp, Backup!Created, Backup!At,
           Backup!Goto, Backup!TypeOK, Backup!Creating
  <2> QED BY <1>1, <2>1, <2>2
<1>5. ASSUME NEW t \in Threads, Backup!Finish(t) PROVE CountInv'
  <2>1. Backup!Archives' = Backup!Archives BY <1>5 DEF Backup!Finish, Backup!Archives
  <2>2. Backup!Creating' \subseteq Backup!Creating
    BY <1>5 DEF Backup!Finish, Backup!At, Backup!Goto, Backup!TypeOK, Backup!Creating
  <2> QED BY <1>1, <2>1, <2>2
<1>6. ASSUME NEW t \in Threads, Backup!Fail(t) PROVE CountInv'
  <2>1. Backup!Archives' \subseteq Backup!Archives
    BY <1>6 DEF Backup!Fail, Backup!Archives
  <2>2. Backup!Creating' \subseteq Backup!Creating
    BY <1>6 DEF Backup!Fail, Backup!Created, Backup!Goto, Backup!TypeOK, Backup!Creating
  <2> QED BY <1>1, <2>1, <2>2
<1>7. ASSUME NEW t \in Threads, Backup!Rename(t) PROVE CountInv'
  <2>1. PICK g : Backup!Partials(Backup!Name(t)) = {g}
    <3>1. PICK g \in Backup!Partials(Backup!Name(t)) : TRUE BY <1>7 DEF Backup!Rename
    <3> QED BY <3>1 DEF Backup!Partials, NameInv
  <2>2. Backup!Archives' \subseteq Backup!Archives \cup {g}
    BY <1>7, <2>1 DEF Backup!Rename, Backup!Archives
  <2>3. t \in Backup!Creating /\ Backup!Creating' \subseteq Backup!Creating \ {t}
    BY <1>7 DEF Backup!Rename, Backup!Created, Backup!At, Backup!Goto, Backup!TypeOK,
           Backup!Creating
  <2>4. /\ IsFiniteSet(Backup!Archives') /\ Cardinality(Backup!Archives') \in Nat
        /\ Cardinality(Backup!Archives') <= Cardinality(Backup!Archives) + 1
    <3>1. /\ IsFiniteSet(Backup!Archives \cup {g})
          /\ Cardinality(Backup!Archives \cup {g}) <= Cardinality(Backup!Archives) + 1
      BY CountFinite, FS_AddElement
    <3>2. /\ IsFiniteSet(Backup!Archives')
          /\ Cardinality(Backup!Archives') <= Cardinality(Backup!Archives \cup {g})
      BY <2>2, <3>1, FS_Subset
    <3> QED BY <3>1, <3>2, CountFinite, FS_CardinalityType
  <2>5. /\ IsFiniteSet(Backup!Creating') /\ Cardinality(Backup!Creating') \in Nat
        /\ Cardinality(Backup!Creating') <= Cardinality(Backup!Creating) - 1
    <3>1. /\ IsFiniteSet(Backup!Creating \ {t})
          /\ Cardinality(Backup!Creating \ {t}) = Cardinality(Backup!Creating) - 1
      BY <2>3, CountFinite, FS_RemoveElement
    <3>2. /\ IsFiniteSet(Backup!Creating')
          /\ Cardinality(Backup!Creating') <= Cardinality(Backup!Creating \ {t})
      BY <2>3, <3>1, FS_Subset
    <3> QED BY <3>1, <3>2, CountFinite, FS_CardinalityType
  <2> QED BY <2>4, <2>5, CountFinite, BackupAssumption DEF CountInv
<1>8. ASSUME NEW t \in Threads, Backup!List(t) PROVE CountInv'
  <2>1. Backup!Archives' = Backup!Archives
    BY <1>8 DEF Backup!List, Backup!dirVars, Backup!Archives
  <2>2. Backup!Creating' \subseteq Backup!Creating
    BY <1>8 DEF Backup!List, Backup!Goto, Backup!TypeOK, Backup!Creating
  <2> QED BY <1>1, <2>1, <2>2
<1>9. ASSUME NEW t \in Threads, NEW n \in doomed[t], Backup!Prune(t, n) PROVE CountInv'
  <2>1. Backup!Archives' \subseteq Backup!Archives
    BY <1>9 DEF Backup!Prune, Backup!Archives
  <2>2. Backup!Creating' \subseteq Backup!Creating
    BY <1>9 DEF Backup!Prune, Backup!Goto, Backup!TypeOK, Backup!Creating
  <2> QED BY <1>1, <2>1, <2>2
<1>10. ASSUME NEW f \in Backup!Files, Backup!Delete(f) PROVE CountInv'
  <2>1. Backup!Archives' \subseteq Backup!Archives
    BY <1>10 DEF Backup!Delete, Backup!TypeOK, Backup!Archives
  <2>2. Backup!Creating' = Backup!Creating
    BY <1>10 DEF Backup!Delete, Backup!callVars, Backup!Creating
  <2> QED BY <1>1, <2>1, <2>2
<1>11. CASE Backup!Reboot
  <2>1. Backup!Archives' = Backup!Archives
    BY <1>11 DEF Backup!Reboot, Backup!dirVars, Backup!Archives
  <2>2. Backup!Creating' \subseteq Backup!Creating
    BY <1>11 DEF Backup!Reboot, Backup!Creating
  <2> QED BY <1>1, <2>1, <2>2
<1>12. CASE UNCHANGED backupVars
  <2>1. Backup!Archives' = Backup!Archives /\ Backup!Creating' = Backup!Creating
    BY <1>12 DEF backupVars, Backup!dirVars, Backup!callVars, Backup!Archives,
           Backup!Creating
  <2> QED BY <1>1, <2>1
<1> QED
  BY <1>2, <1>3, <1>4, <1>5, <1>6, <1>7, <1>8, <1>9, <1>10, <1>11, <1>12 DEF Backup!Next

-----------------------------------------------------------------------------
(* What is safe stays safe as long as nothing newer than it disappears. *)
LEMMA SafeKept ==
    ASSUME NEW f \in Backup!Files, Safe(f), Backup!Newer(f) \subseteq Backup!Newer(f)'
    PROVE  Safe(f)'
<1>1. PICK T : T = Backup!Newer(f)' OBVIOUS
<1>2. T \in SUBSET Backup!Files /\ Backup!Newer(f) \in SUBSET T
  BY <1>1 DEF Backup!Newer, Backup!NotPruned
<1>3. Cardinality(Backup!Newer(f)) <= Cardinality(T) /\ Cardinality(T) \in Nat
      /\ Cardinality(Backup!Newer(f)) \in Nat
  BY <1>2, FilesMonotone
<1>4. Cardinality(T) >= Keep BY <1>3, BackupAssumption DEF Safe
<1> QED BY <1>1, <1>4 DEF Safe

(* When g is pruned, what is older than g stays safe by what is newer than *)
(* g, and the rest does not notice.                                        *)
LEMMA SafePassedOn ==
    ASSUME Backup!TypeOK, NEW f \in Backup!Files, NEW g \in Backup!Files, Safe(f), Safe(g),
           Backup!Newer(f)' = Backup!Newer(f) \ {g}
    PROVE  Safe(f)'
<1>1. CASE g \notin Backup!Newer(f) BY <1>1, SafeKept
<1>2. CASE g \in Backup!Newer(f)
  <2>1. PICK T : T = Backup!Newer(f)' OBVIOUS
  <2>2. T \in SUBSET Backup!Files BY <2>1 DEF Backup!Newer, Backup!NotPruned
  <2>3. Backup!Newer(g) \in SUBSET T
    BY <1>2, <2>1 DEF Backup!Newer, Backup!NotPruned, Backup!TypeOK
  <2>4. Cardinality(Backup!Newer(g)) <= Cardinality(T) /\ Cardinality(T) \in Nat
        /\ Cardinality(Backup!Newer(g)) \in Nat
    BY <2>2, <2>3, FilesMonotone
  <2>5. Cardinality(T) >= Keep BY <2>4, BackupAssumption DEF Safe
  <2> QED BY <2>1, <2>5 DEF Safe
<1> QED BY <1>1, <1>2

(* A step that prunes nothing, dooms nothing and reuses no name. *)
LEMMA KeepQuiet ==
    ASSUME KeepInv, reused' = reused,
           \A t \in Threads : doomed'[t] \subseteq doomed[t],
           \A f \in Backup!Files :
               /\ (place'[f] = "pruned") => (place[f] = "pruned")
               /\ (place'[f] = "listed") => (place[f] = "listed")
               /\ (place[f] \in {"listed", "deleted"}) => (place'[f] \in {"listed", "deleted"})
               /\ (place[f] \in {"listed", "replaced", "deleted", "dropped", "pruned"}) =>
                     /\ place'[f] \in {"listed", "replaced", "deleted", "dropped", "pruned"}
                     /\ name'[f] = name[f]
               /\ (place[f] \in {"listed", "deleted", "pruned"}) => (stamp'[f] = stamp[f])
    PROVE  KeepInv'
<1> SUFFICES ASSUME reused' = "no"
             PROVE  /\ DoomedGiven'
                    /\ \A f \in Backup!Files : (place[f] = "pruned" \/ Doomed(f))' => Safe(f)'
  BY DEF KeepInv
<1>1. DoomedGiven'
  BY DEF KeepInv, DoomedGiven, Backup!Given
<1>2. ASSUME NEW f \in Backup!Files, (place[f] = "pruned" \/ Doomed(f))' PROVE Safe(f)'
  <2>1. place[f] = "pruned" \/ Doomed(f) BY <1>2 DEF Doomed
  <2>2. Safe(f) BY <2>1 DEF KeepInv
  <2>3. Backup!Newer(f) \subseteq Backup!Newer(f)'
    BY <2>1 DEF Backup!Newer, Backup!NotPruned, Doomed
  <2> QED BY <2>2, <2>3, SafeKept
<1> QED BY <1>1, <1>2

LEMMA BackupKeepStep ==
    Backup!TypeOK /\ OwnerInv /\ NameInv /\ KeepInv /\ [Backup!Next]_backupVars => KeepInv'
<1> SUFFICES ASSUME Backup!TypeOK, OwnerInv, NameInv, KeepInv, [Backup!Next]_backupVars PROVE KeepInv'
  OBVIOUS
<1>1. ASSUME NEW t \in Threads, Backup!Create(t) PROVE KeepInv'
  BY <1>1, KeepQuiet DEF Backup!Create, Backup!dirVars
<1>2. ASSUME NEW t \in Threads, Backup!Stat(t) PROVE KeepInv'
  BY <1>2, KeepQuiet DEF Backup!Stat, Backup!Retry, Backup!dirVars
<1>3. ASSUME NEW t \in Threads, Backup!Open(t) PROVE KeepInv'
  <2>1. ASSUME NEW f \in Backup!Opened(Backup!Name(t)),
               place' = [place EXCEPT ![f] = "partial"],
               name' = [name EXCEPT ![f] = Backup!Name(t)],
               UNCHANGED <<stamp, doomed, reused>>
        PROVE  KeepInv'
    <3>1. f \in Backup!Files /\ place[f] = "unborn"
      BY <2>1 DEF Backup!Opened, Backup!Unborn
    <3>2. /\ place'[f] = "partial"
          /\ \A g \in Backup!Files : g # f => place'[g] = place[g] /\ name'[g] = name[g]
      BY <2>1, <3>1 DEF Backup!TypeOK
    <3> QED BY <2>1, <3>1, <3>2, KeepQuiet
  <2>2. CASE Backup!Retry(t)
    BY <1>3, <2>2, KeepQuiet DEF Backup!Open, Backup!Retry, Backup!dirVars
  <2>3. CASE Backup!GiveUp(t)
    BY <1>3, <2>3, KeepQuiet DEF Backup!Open, Backup!GiveUp, Backup!dirVars
  <2> QED BY <1>3, <2>1, <2>2, <2>3 DEF Backup!Open
<1>4. ASSUME NEW t \in Threads, Backup!Finish(t) PROVE KeepInv'
  <2>1. UNCHANGED <<place, name, doomed, reused>>
        /\ \A g \in Backup!Files : g # file[t] => stamp'[g] = stamp[g]
    BY <1>4 DEF Backup!Finish, Backup!TypeOK
  <2>2. CASE reused # "no" BY <2>1, <2>2 DEF KeepInv
  <2>3. CASE reused = "no"
    <3>1. /\ file[t] \in Backup!Files
          /\ place[file[t]] \in {"partial", "dropped", "failed"}
      BY <1>4, <2>3 DEF Backup!Finish, Backup!At, Backup!TypeOK, OwnerInv, Owned
    <3> QED BY <2>1, <3>1, KeepQuiet
  <2> QED BY <2>2, <2>3
<1>5. ASSUME NEW t \in Threads, Backup!Fail(t) PROVE KeepInv'
  <2>1. \A g \in Backup!Files : place'[g] = place[g] \/ (place[g] = "partial" /\ place'[g] = "failed")
    BY <1>5 DEF Backup!Fail, Backup!Partials
  <2> QED BY <1>5, <2>1, KeepQuiet DEF Backup!Fail
<1>6. ASSUME NEW t \in Threads, Backup!Rename(t) PROVE KeepInv'
  <2> SUFFICES ASSUME reused' = "no"
               PROVE  /\ DoomedGiven'
                      /\ \A f \in Backup!Files : (place[f] = "pruned" \/ Doomed(f))' => Safe(f)'
    BY DEF KeepInv
  <2>1. reused = "no" /\ Backup!Given(Backup!Name(t)) = {} BY <1>6 DEF Backup!Rename
  <2>2. UNCHANGED <<name, stamp, doomed>> BY <1>6 DEF Backup!Rename
  <2>3. \A g \in Backup!Files :
           \/ place'[g] = place[g]
           \/ place[g] = "partial" /\ place'[g] = "listed" /\ name[g] = Backup!Name(t)
    BY <1>6, <2>1 DEF Backup!Rename, Backup!Partials, Backup!Listed, Backup!Given
  <2>4. DoomedGiven'
    <3> SUFFICES ASSUME NEW u \in Threads, NEW n \in doomed[u] PROVE Backup!Given(n)' # {}
      BY <2>2 DEF DoomedGiven
    <3>1. PICK g \in Backup!Files : g \in Backup!Given(n)
      BY <2>1 DEF KeepInv, DoomedGiven, Backup!Given
    <3> QED BY <2>2, <2>3, <3>1 DEF Backup!Given
  <2>5. ASSUME NEW f \in Backup!Files, (place[f] = "pruned" \/ Doomed(f))' PROVE Safe(f)'
    <3>1. place[f] = "pruned" \/ Doomed(f)
      <4>1. CASE place'[f] = place[f] BY <2>2, <2>5, <4>1 DEF Doomed
      <4>2. CASE place'[f] # place[f]
        <5>1. place'[f] = "listed" /\ name[f] = Backup!Name(t) BY <2>3, <4>2
        <5>2. \A u \in Threads : Backup!Name(t) \notin doomed[u]
          BY <2>1 DEF KeepInv, DoomedGiven
        <5> QED BY <2>2, <2>5, <5>1, <5>2 DEF Doomed
      <4> QED BY <4>1, <4>2
    <3>2. Safe(f) BY <2>1, <3>1 DEF KeepInv
    <3>3. Backup!Newer(f) \subseteq Backup!Newer(f)'
      BY <2>2, <2>3 DEF Backup!Newer, Backup!NotPruned
    <3> QED BY <3>2, <3>3, SafeKept
  <2> QED BY <2>4, <2>5
<1>7. ASSUME NEW t \in Threads, Backup!List(t) PROVE KeepInv'
  <2>1. UNCHANGED <<place, name, stamp, reused>> BY <1>7 DEF Backup!List, Backup!dirVars
  <2>2. CASE UNCHANGED doomed BY <2>1, <2>2, KeepQuiet
  <2>3. CASE doomed' = [doomed EXCEPT ![t] = {name[f] : f \in {g \in Backup!Archives : Backup!Surplus(g)}}]
    <3> SUFFICES ASSUME reused' = "no"
                 PROVE  /\ DoomedGiven'
                        /\ \A f \in Backup!Files : (place[f] = "pruned" \/ Doomed(f))' => Safe(f)'
      BY DEF KeepInv
    <3>1. DoomedGiven'
      BY <2>1, <2>3
         DEF KeepInv, DoomedGiven, Backup!Given, Backup!Archives, Backup!TypeOK
    <3>2. ASSUME NEW f \in Backup!Files, (place[f] = "pruned" \/ Doomed(f))' PROVE Safe(f)'
      <4>1. Safe(f)' <=> Safe(f)
        <5>1. Backup!Newer(f)' = Backup!Newer(f)
          BY <2>1 DEF Backup!Newer, Backup!NotPruned
        <5> QED BY <5>1 DEF Safe
      <4>2. CASE place[f] = "pruned" \/ Doomed(f) BY <2>1, <4>1, <4>2 DEF KeepInv
      <4>3. CASE place[f] = "listed" /\ Backup!Surplus(f)
        <5>1. {g \in Backup!Archives : stamp[g] > stamp[f]} \in SUBSET Backup!Newer(f)
          BY DEF Backup!Archives, Backup!Newer, Backup!NotPruned
        <5>2. PICK S, T : S = Backup!Newer(f) /\ T = {g \in Backup!Archives : stamp[g] > stamp[f]}
          OBVIOUS
        <5>3. S \in SUBSET Backup!Files /\ T \in SUBSET S BY <5>1, <5>2, NewerFiles
        <5>4. Cardinality(T) <= Cardinality(S) /\ Cardinality(T) \in Nat /\ Cardinality(S) \in Nat
          BY <5>3, FilesMonotone
        <5>5. Cardinality(S) >= Keep
          BY <4>3, <5>2, <5>4, BackupCounts, BackupAssumption DEF Backup!Surplus
        <5> QED BY <4>1, <5>2, <5>5 DEF Safe
      <4>4. place[f] = "pruned" \/ Doomed(f) \/ (place[f] = "listed" /\ Backup!Surplus(f))
        <5>1. CASE place'[f] = "pruned" BY <2>1, <5>1
        <5>2. CASE Doomed(f)'
          <6>1. place[f] = "listed" BY <2>1, <5>2 DEF Doomed
          <6>2. PICK u \in Threads : name[f] \in doomed'[u] BY <2>1, <5>2 DEF Doomed
          <6>3. CASE u # t BY <2>3, <6>1, <6>2, <6>3 DEF Doomed, Backup!TypeOK
          <6>4. CASE u = t
            <7>1. PICK g \in Backup!Archives : Backup!Surplus(g) /\ name[g] = name[f]
              BY <2>3, <6>2, <6>4 DEF Backup!TypeOK
            <7>2. g = f BY <6>1, <7>1 DEF NameInv, Backup!Archives
            <7> QED BY <6>1, <7>1, <7>2
          <6> QED BY <6>3, <6>4
        <5> QED BY <3>2, <5>1, <5>2
      <4> QED BY <4>2, <4>3, <4>4
    <3> QED BY <3>1, <3>2
  <2> QED BY <1>7, <2>2, <2>3 DEF Backup!List
<1>8. ASSUME NEW t \in Threads, NEW n \in doomed[t], Backup!Prune(t, n) PROVE KeepInv'
  <2>1. UNCHANGED <<name, stamp, reused>> BY <1>8 DEF Backup!Prune
  <2>2. \A u \in Threads : doomed'[u] \subseteq doomed[u]
    BY <1>8 DEF Backup!Prune, Backup!TypeOK
  <2>3. CASE UNCHANGED place BY <2>1, <2>2, <2>3, KeepQuiet
  <2>4. CASE Backup!Listed(n) = {} /\ place' = [f \in Backup!Files |-> IF f \in Backup!Listed(n) THEN "pruned" ELSE place[f]]
    <3>1. \A f \in Backup!Files : place'[f] = place[f] BY <2>4
    <3> QED BY <2>1, <2>2, <3>1, KeepQuiet
  <2>5. ASSUME NEW g \in Backup!Listed(n),
               place' = [f \in Backup!Files |-> IF f \in Backup!Listed(n) THEN "pruned" ELSE place[f]]
        PROVE  KeepInv'
    <3> SUFFICES ASSUME reused' = "no"
                 PROVE  /\ DoomedGiven'
                        /\ \A f \in Backup!Files : (place[f] = "pruned" \/ Doomed(f))' => Safe(f)'
      BY DEF KeepInv
    <3>1. g \in Backup!Files /\ place[g] = "listed" /\ name[g] = n BY DEF Backup!Listed
    <3>2. Backup!Listed(n) = {g} BY <3>1 DEF Backup!Listed, NameInv
    <3>3. \A f \in Backup!Files : place'[f] = IF f = g THEN "pruned" ELSE place[f]
      BY <2>5, <3>2
    <3>4. Safe(g) BY <2>1, <3>1 DEF KeepInv, Doomed
    <3>5. DoomedGiven' BY <2>1, <2>2, <3>1, <3>3 DEF KeepInv, DoomedGiven, Backup!Given
    <3>6. ASSUME NEW f \in Backup!Files, (place[f] = "pruned" \/ Doomed(f))' PROVE Safe(f)'
      <4>1. f = g \/ place[f] = "pruned" \/ Doomed(f)
        BY <2>1, <2>2, <3>3, <3>6 DEF Doomed
      <4>2. Safe(f) BY <2>1, <3>4, <4>1 DEF KeepInv
      <4>3. Backup!Newer(f)' = Backup!Newer(f) \ {g}
        BY <2>1, <3>1, <3>3 DEF Backup!Newer, Backup!NotPruned
      <4> QED BY <3>1, <3>4, <4>2, <4>3, SafePassedOn
    <3> QED BY <3>5, <3>6
  <2> QED BY <1>8, <2>3, <2>4, <2>5 DEF Backup!Prune
<1>9. ASSUME NEW f \in Backup!Files, Backup!Delete(f) PROVE KeepInv'
  <2>1. \A g \in Backup!Files :
           \/ place'[g] = place[g]
           \/ place[g] = "listed" /\ place'[g] = "deleted"
           \/ place[g] = "partial" /\ place'[g] = "dropped"
    BY <1>9 DEF Backup!Delete, Backup!TypeOK
  <2> QED BY <1>9, <2>1, KeepQuiet DEF Backup!Delete, Backup!callVars
<1>10. CASE Backup!Reboot
  BY <1>10, KeepQuiet DEF Backup!Reboot, Backup!dirVars
<1>11. CASE UNCHANGED backupVars
  BY <1>11, KeepQuiet DEF backupVars, Backup!dirVars, Backup!callVars
<1> QED
  BY <1>1, <1>2, <1>3, <1>4, <1>5, <1>6, <1>7, <1>8, <1>9, <1>10, <1>11 DEF Backup!Next

-----------------------------------------------------------------------------
(* What the other parts do leaves the backups alone. *)
LEMMA BackupInvariance == Spec => []BackupInv
<1>1. Init => BackupInv
  BY BackupInit DEF Init
<1>2. BackupInv /\ [Next]_vars => BackupInv'
  <2>1. [Next]_vars => [Backup!Next]_backupVars
    BY DEF Next, vars, backupVars
  <2> QED
    BY <2>1, BackupTypeStep, BackupOwnerStep, BackupCountStep, BackupKeepStep DEF BackupInv
<1> QED BY <1>1, <1>2, PTL DEF Spec

(* O_EXCL and the rename keep the archives whole (backup.go 39-65, 117),   *)
(* for any number of creations and restarts, of every name that no request *)
(* deleted a file of while it was written (api_backups.go 93-102); and no  *)
(* two creations ever write to one file.                                   *)
THEOREM OneWriter == Spec => []ArchivesWhole
<1>1. BackupInv => ArchivesWhole
  BY DEF BackupInv, OwnerInv, Owned, ArchivesWhole, Backup!ArchivesWhole
<1> QED BY BackupInvariance, <1>1, PTL

(* The count before the creation (backup.go 36) bounds the archives up to  *)
(* one for each creation that overlaps.                                    *)
THEOREM LimitOverrun == Spec => []OverrunBounded
<1>1. BackupInv => OverrunBounded
  BY CountFinite, BackupCounts, BackupAssumption
     DEF BackupInv, CountInv, OverrunBounded, Backup!OverrunBounded
<1> QED BY BackupInvariance, <1>1, PTL

(* PruneBackups (backup.go 244-263) on outdated lists spares the newest    *)
(* Keep archives while no name is used again.                              *)
THEOREM NewestSpared == Spec => []RetentionKeeps
<1>1. BackupInv => RetentionKeeps
  BY BackupCounts DEF BackupInv, KeepInv, RetentionKeeps, Backup!RetentionKeeps, Safe
<1> QED BY BackupInvariance, <1>1, PTL

-----------------------------------------------------------------------------
(* The seven together *)
LEMMA LimiterTyped == LimiterInv => RateLimiter!TypeOK
BY LimiterCounts DEF LimiterInv, LimiterTypes, Entries, Hits, RateLimiter!TypeOK

LEMMA CompletionTyped == CompletionInv => Completion!TypeOK
BY DEF CompletionInv, Text, Completion!TypeOK

(* Every part keeps its variables in their types, whatever the parts do.   *)
THEOREM TypeCorrect == Spec => []TypeOK
<1>1. LoginInv => Login!TypeOK BY DEF LoginInv
<1>2. ConsoleInv => Console!TypeOK BY DEF ConsoleInv
<1>3. SettingsInv => Settings!TypeOK BY DEF SettingsInv
<1>4. BackupInv => Backup!TypeOK BY DEF BackupInv
<1>5. /\ LoginInv /\ LimiterInv /\ ConsoleInv /\ CompletionInv
      /\ TimetableInv /\ SettingsInv /\ BackupInv
      => TypeOK
  BY <1>1, <1>2, <1>3, <1>4, LimiterTyped, CompletionTyped, TimetableTyped DEF TypeOK
<1> QED
  BY <1>5, LoginInvariance, LimiterInvariance, ConsoleInvariance, CompletionInvariance,
     TimetableInvariance, SettingsInvariance, BackupInvariance, PTL
=============================================================================
