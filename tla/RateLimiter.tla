---------------------------- MODULE RateLimiter ----------------------------
(***************************************************************************)
(* RateLimiter of internal/auth/ratelimit.go: a window of fixed length per *)
(* key, in a table that holds a bounded number of keys.                    *)
(*                                                                         *)
(* Times are kept relative to now: an entry is its count and the ticks     *)
(* that are left of its window, -1 when now is after its end.              *)
(***************************************************************************)
EXTENDS Integers, FiniteSets

CONSTANTS Keys, Window,
          MaxHits,      \* max
          MaxTracked    \* maxTrackedKeys

VARIABLES
    hits,     \* RateLimiter.hits
    answer,   \* the last answer of Allow
    lately    \* history: the hits of each key that were allowed, each as its
              \* age in ticks and its place among those that were there

vars == <<hits, answer, lately>>

Ages == 0..Window
Nobody == [key |-> "none", said |-> "none"]

TypeOK ==
    /\ DOMAIN hits \subseteq Keys /\ Cardinality(DOMAIN hits) <= MaxTracked
    /\ \A k \in DOMAIN hits : hits[k] \in [count : 1..MaxHits + 1, left : -1..Window]
    /\ answer = Nobody \/ answer \in [key : Keys, said : {"yes", "over", "full"}]
    /\ lately \in [Keys -> SUBSET (Ages \X Nat)]

Init ==
    /\ hits = << >> /\ answer = Nobody
    /\ lately = [k \in Keys |-> {}]
-----------------------------------------------------------------------------
Over(entry) == entry.left < 0
Expired == {k \in DOMAIN hits : Over(hits[k])}
Without(S) == [k \in DOMAIN hits \ S |-> hits[k]]
With(f, x, v) == [y \in DOMAIN f \cup {x} |-> IF y = x THEN v ELSE f[y]]

(* What Allow drops when it meets a new key and a full table *)
Dropped_All(k) == IF k \notin DOMAIN hits /\ Cardinality(DOMAIN hits) >= MaxTracked
                  THEN DOMAIN hits ELSE {}
Dropped(k) == IF k \notin DOMAIN hits /\ Cardinality(DOMAIN hits) >= MaxTracked
              THEN Expired ELSE {}

Full_Never(k) == FALSE
Full(k) == k \notin DOMAIN hits /\ Cardinality(DOMAIN hits \ Dropped(k)) >= MaxTracked

Answers(k, said) == answer' = [key |-> k, said |-> said]
Total(k) == Cardinality(lately[k])
Allows(k) ==
    /\ Answers(k, "yes")
    /\ lately' = [lately EXCEPT ![k] = @ \cup {<<0, Total(k) + 1>>}]

(* Allow: a full table refuses, a new window opens, a hit within the limit *)
(* is allowed, one beyond it is refused.  Counts above the limit are alike.*)
TurnAway(k) ==
    /\ Full(k)
    /\ hits' = Without(Dropped(k)) /\ Answers(k, "full")
    /\ UNCHANGED lately

Open(k) ==
    /\ ~Full(k) /\ (k \in DOMAIN hits => Over(hits[k]))
    /\ hits' = With(Without(Dropped(k)), k, [count |-> 1, left |-> Window])
    /\ Allows(k)

Within(k) == k \in DOMAIN hits /\ ~Over(hits[k])

Count(k) ==
    /\ Within(k) /\ hits[k].count < MaxHits
    /\ hits' = [hits EXCEPT ![k].count = @ + 1]
    /\ Allows(k)

Counted(entry) == [entry EXCEPT !.count = MaxHits + 1]

Refuse(k) ==
    /\ Within(k) /\ hits[k].count >= MaxHits
    /\ hits' = [hits EXCEPT ![k] = Counted(@)]
    /\ Answers(k, "over")
    /\ UNCHANGED lately

Reset(k) ==
    /\ hits' = Without({k})
    /\ lately' = [lately EXCEPT ![k] = {}]
    /\ answer' = Nobody

(* The goroutine of NewRateLimiter *)
Sweep == hits' = Without(Expired) /\ UNCHANGED <<answer, lately>>

Older(these) == {<<x[1] + 1, x[2]>> : x \in these}

Tick ==
    /\ hits' = [k \in DOMAIN hits |-> [hits[k] EXCEPT !.left = IF @ < 0 THEN @ ELSE @ - 1]]
    /\ lately' = [k \in Keys |-> Older({x \in lately[k] : x[1] < Window})]
    /\ answer' = Nobody

Next ==
    \/ Sweep \/ Tick
    \/ \E k \in Keys : TurnAway(k) \/ Open(k) \/ Count(k) \/ Refuse(k) \/ Reset(k)

Spec == Init /\ [][Next]_vars
-----------------------------------------------------------------------------
(* Since its last Reset, no key is allowed more hits in any time as long   *)
(* as a window than two windows may hold, however often a flood of other   *)
(* keys makes the table drop entries; and a key that is told to wait was   *)
(* allowed a whole window's hits in that time: who keeps knocking is not   *)
(* kept out for longer.                                                    *)
WindowFair ==
    /\ \A k \in Keys : Total(k) <= 2 * MaxHits
    /\ answer.said = "over" => Total(answer.key) >= MaxHits
=============================================================================
