------------------------------ MODULE Console ------------------------------
(***************************************************************************)
(* The console of a server: the ring of internal/mc/console.go, which      *)
(* history.go builds in the same way, and the streams of                   *)
(* handleConsoleStream in internal/web/api_servers.go that follow it.      *)
(*                                                                         *)
(* A line is its number: the n-th line appended is n.                      *)
(***************************************************************************)
EXTENDS Naturals, Sequences, Functions

CONSTANTS Streams,
          Capacity,   \* consoleCapacity
          Burst,      \* lines that a stream sends first
          Queue,      \* the room of a subscriber's channel
          MaxLines    \* bound: lines appended

VARIABLES
    buf, start, count,   \* Console; buf is indexed from 0
    appended,            \* lines so far
    subs,                \* Console.subs
    chan,                \* the channel of each stream
    at,                  \* the step of each handler: the two of Order, then
                         \* live, then gone
    sent,                \* history: what each client was sent
    joined,              \* history: lines appended when it subscribed
    missed               \* history: lines a stream's full channel dropped

ring == <<buf, start, count, appended>>
vars == <<ring, subs, chan, at, sent, joined, missed>>

Slots == 0..Capacity - 1
Lines == 1..MaxLines
Live  == 3
Gone  == 4

TypeOK ==
    /\ buf \in [Slots -> Lines \cup {0}] /\ start \in Slots /\ count \in 0..Capacity
    /\ appended \in 0..MaxLines
    /\ at \in [Streams -> 1..4]
    /\ subs = {s \in Streams : at[s] = Live}
    /\ chan \in [Streams -> Seq(Lines)] /\ \A s \in Streams : Len(chan[s]) <= Queue
    /\ joined \in [Streams -> 0..MaxLines]
    /\ sent \in [Streams -> Seq(Lines)] /\ missed \in [Streams -> SUBSET Lines]

Init ==
    /\ buf = [i \in Slots |-> 0] /\ start = 0 /\ count = 0 /\ appended = 0
    /\ subs = {} /\ chan = [s \in Streams |-> << >>]
    /\ at = [s \in Streams |-> 1]
    /\ joined = [s \in Streams |-> 0]
    /\ sent = [s \in Streams |-> << >>] /\ missed = [s \in Streams |-> {}]
-----------------------------------------------------------------------------
Room(s) == Len(chan[s]) < Queue

(* Append: a full ring loses its oldest line, a full channel this one.     *)
Stores(line) ==
    /\ appended' = line
    /\ buf' = [buf EXCEPT ![(start + count) % Capacity] = line]
    /\ IF count = Capacity
         THEN start' = (start + 1) % Capacity /\ UNCHANGED count
         ELSE count' = count + 1 /\ UNCHANGED start
    /\ chan' = [s \in Streams |->
          IF s \in subs /\ Room(s) THEN Append(chan[s], line) ELSE chan[s]]
    /\ missed' = [s \in Streams |->
          IF s \in subs /\ ~Room(s) THEN missed[s] \cup {line} ELSE missed[s]]

AppendLine ==
    /\ appended < MaxLines /\ Stores(appended + 1)
    /\ UNCHANGED <<subs, at, sent, joined>>

(* Last, and Recent of history.go                                          *)
Oldest_FromZero(n) == 0
Oldest(n) == start + count - n

Last(n) ==
    LET m == IF n = 0 \/ n > count THEN count ELSE n
    IN  [i \in 1..m |-> buf[(Oldest(m) + i - 1) % Capacity]]

(* handleConsoleStream: the burst, the subscription, then the lines of the *)
(* channel, as many as are queued at a time.                               *)
Order_Swapped == <<"subscribe", "burst">>
Order == <<"burst", "subscribe">>

Does(s, step) ==
    /\ at[s] < Live /\ Order[at[s]] = step
    /\ at' = [at EXCEPT ![s] = @ + 1]

SendBurst(s) ==
    /\ Does(s, "burst")
    /\ sent' = [sent EXCEPT ![s] = Last(Burst)]
    /\ UNCHANGED <<ring, subs, chan, joined, missed>>

Subscribe(s) ==
    /\ Does(s, "subscribe")
    /\ subs' = subs \cup {s}
    /\ joined' = [joined EXCEPT ![s] = appended]
    /\ UNCHANGED <<ring, chan, sent, missed>>

Drain(s) ==
    /\ at[s] = Live /\ chan[s] # << >>
    /\ \E n \in 1..Len(chan[s]) :   \* more lines may be queued meanwhile
          /\ sent' = [sent EXCEPT ![s] = @ \o SubSeq(chan[s], 1, n)]
          /\ chan' = [chan EXCEPT ![s] = SubSeq(@, n + 1, Len(@))]
    /\ UNCHANGED <<ring, subs, at, joined, missed>>

(* The client is gone, or a write missed its deadline. *)
Leave(s) ==
    /\ at[s] = Live
    /\ subs' = subs \ {s} /\ at' = [at EXCEPT ![s] = Gone]
    /\ chan' = [chan EXCEPT ![s] = << >>]
    /\ UNCHANGED <<ring, sent, joined, missed>>

Next == \/ AppendLine
        \/ \E s \in Streams : SendBurst(s) \/ Subscribe(s) \/ Drain(s) \/ Leave(s)

Spec == Init /\ [][Next]_vars
-----------------------------------------------------------------------------
(* The ring holds the newest lines, and Last returns them in the order in  *)
(* which they came, wherever in the ring they lie.                         *)
Newest(n) == [i \in 1..n |-> appended - n + i]
RingIsTail ==
    /\ count = IF appended < Capacity THEN appended ELSE Capacity
    /\ \A n \in 0..Capacity + 1 :
          Last(n) = Newest(IF n = 0 \/ n > count THEN count ELSE n)

(* A client is sent no line twice and none before an older one, and of the *)
(* lines that come after its subscription it misses exactly what its full  *)
(* channel dropped.  Those between the burst and the subscription reach    *)
(* neither (api_servers.go:394-400).                                       *)
Increasing(q) == \A i, j \in DOMAIN q : i < j => q[i] < q[j]

StreamInOrder ==
    \A s \in Streams :
       LET all == sent[s] \o chan[s]
       IN  /\ Increasing(all)
           /\ at[s] = Live =>
                 \A n \in joined[s] + 1..appended : n \in Range(all) <=> n \notin missed[s]
=============================================================================
