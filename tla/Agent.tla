------------------------------- MODULE Agent -------------------------------
(***************************************************************************)
(* The AI agent of a server: Runner of internal/ai/agent.go with the tools *)
(* of internal/ai/tools.go and the handlers of internal/web/api_ai.go.     *)
(*                                                                         *)
(* A run is one request of a user: it asks the model, executes the tools   *)
(* that the model calls and asks again, at most MaxIter times.  The        *)
(* conversation of a key (a user and a server) is read when a run begins   *)
(* and stored when it ends.  A click is a request that answers an approval *)
(* from another connection.  A message is its role and the number of tools *)
(* it calls; what a model says and what a tool returns is left out.        *)
(***************************************************************************)
EXTENDS Integers, Sequences, FiniteSets

CONSTANTS Users, Servers,
          Runs,         \* goroutines in handleAIAgent
          Clicks,       \* goroutines in handleAIApproval
          MaxConvs,     \* maxConversations
          MaxHistory,   \* maxHistory
          MaxIter,      \* AgentMaxIterations
          MaxCalls,     \* bound: tools that one reply calls
          MaxTurns,     \* bound: runs begun
          MaxAsks       \* bound: approvals asked for

ASSUME AgentAssumption ==
    /\ MaxConvs \in Nat \ {0} /\ MaxHistory \in Nat \ {0}
    /\ MaxIter \in Nat \ {0} /\ MaxCalls \in Nat
    /\ MaxTurns \in Nat /\ MaxAsks \in Nat

VARIABLES
    convs,      \* Runner.convs: per key, <<>> when there is none
    running,    \* Runner.running
    pending,    \* the ids in Runner.approvals
    chan,       \* the channel of each approval, which holds one answer
    pc, key, iter, msgs, left, ask, verdict, ctx,   \* per run
    click, id, reply,   \* per click: its step, the approval and the answer
    turns, asked,       \* runs begun and approvals asked for so far
    performed   \* approvals whose action has been done

runVars   == <<pc, key, iter, msgs, left, ask, verdict, ctx>>
clickVars == <<click, id, reply>>
vars == <<convs, running, pending, chan, runVars, clickVars, turns, asked, performed>>

Keys == Users \X Servers
Asks == 1..MaxAsks
NoKey == <<>>
Answers == {"yes", "no"}
Steps == {"idle", "stream", "tools", "wait", "withdraw", "act", "store", "leave"}
Waiting == {"wait", "withdraw", "act"}   \* inside a tool that needs consent
Talking == Steps \ {"idle", "leave"}     \* before its conversation is stored

Message == [role : {"user", "assistant", "tool"}, calls : Nat]
UserMsg == [role |-> "user", calls |-> 0]
ToolMsg == [role |-> "tool", calls |-> 0]
Assistant(n) == [role |-> "assistant", calls |-> n]

TypeOK ==
    /\ convs \in [Keys -> Seq(Message)]
    /\ running \subseteq Keys /\ pending \subseteq Asks /\ performed \subseteq Asks
    /\ chan \in [Asks -> Answers \cup {"empty"}]
    /\ pc \in [Runs -> Steps] /\ key \in [Runs -> Keys \cup {NoKey}]
    /\ \A r \in Runs : pc[r] # "idle" => key[r] \in Keys
    /\ iter \in [Runs -> Nat] /\ left \in [Runs -> Nat]
    /\ msgs \in [Runs -> Seq(Message)]
    /\ ask \in [Runs -> Asks \cup {0}]
    /\ \A r \in Runs : pc[r] \in Waiting => ask[r] \in Asks
    /\ verdict \in [Runs -> Answers \cup {"none"}]
    /\ ctx \in [Runs -> {"live", "done"}]
    /\ click \in [Clicks -> {"idle", "send"}]
    /\ id \in [Clicks -> Asks \cup {0}]
    /\ \A c \in Clicks : click[c] = "send" => id[c] \in Asks
    /\ reply \in [Clicks -> Answers]
    /\ turns \in Nat /\ asked \in 0..MaxAsks

Init ==
    /\ convs = [k \in Keys |-> <<>>]
    /\ running = {} /\ pending = {} /\ performed = {}
    /\ chan = [i \in Asks |-> "empty"]
    /\ pc = [r \in Runs |-> "idle"] /\ key = [r \in Runs |-> NoKey]
    /\ iter = [r \in Runs |-> 0] /\ left = [r \in Runs |-> 0]
    /\ msgs = [r \in Runs |-> <<>>]
    /\ ask = [r \in Runs |-> 0] /\ verdict = [r \in Runs |-> "none"]
    /\ ctx = [r \in Runs |-> "live"]
    /\ click = [c \in Clicks |-> "idle"] /\ id = [c \in Clicks |-> 0]
    /\ reply = [c \in Clicks |-> "no"]
    /\ turns = 0 /\ asked = 0
-----------------------------------------------------------------------------
At(r, step) == pc[r] = step
Goto(r, step) == pc' = [pc EXCEPT ![r] = step]
Say(r, m) == msgs' = [msgs EXCEPT ![r] = Append(@, m)]

shared == <<convs, running, pending, chan, turns, asked, performed>>

(* A run of a key that has one already is refused and changes nothing. *)
Free_Unchecked(k) == TRUE
Free(k) == k \notin running

Begin(r, k) ==
    /\ At(r, "idle") /\ Free(k) /\ turns < MaxTurns
    /\ running' = running \cup {k}
    /\ turns' = turns + 1
    /\ key' = [key EXCEPT ![r] = k]
    /\ msgs' = [msgs EXCEPT ![r] = Append(convs[k], UserMsg)]
    /\ Goto(r, "stream")
    /\ UNCHANGED <<convs, pending, chan, asked, performed,
                   iter, left, ask, verdict, ctx, clickVars>>

(* The client goes away, or half an hour is over. *)
Cancel(r) ==
    /\ pc[r] # "idle"
    /\ ctx' = [ctx EXCEPT ![r] = "done"]
    /\ UNCHANGED <<shared, pc, key, iter, msgs, left, ask, verdict, clickVars>>

(* Client.Stream fails: nothing of this turn is kept. *)
StreamFails(r) ==
    /\ At(r, "stream")
    /\ Goto(r, "leave")
    /\ UNCHANGED <<shared, key, iter, msgs, left, ask, verdict, ctx, clickVars>>

Answer(r) ==
    /\ At(r, "stream")
    /\ Say(r, Assistant(0))
    /\ Goto(r, "store")
    /\ UNCHANGED <<shared, key, iter, left, ask, verdict, ctx, clickVars>>

CallTools(r, n) ==
    /\ At(r, "stream")
    /\ Say(r, Assistant(n))
    /\ left' = [left EXCEPT ![r] = n]
    /\ Goto(r, "tools")
    /\ UNCHANGED <<shared, key, iter, ask, verdict, ctx, clickVars>>

Stopped(r) == ctx[r] = "done"

Last(r) == left[r] = 1

(* What follows a tool: a run whose context has ended drops the turn; the  *)
(* last tool of the last iteration is followed by a note of the panel.     *)
AfterTool(r) ==
    LET full == iter[r] = MaxIter - 1
    IN  /\ ask' = [ask EXCEPT ![r] = 0] /\ verdict' = [verdict EXCEPT ![r] = "none"]
        /\ left' = [left EXCEPT ![r] = @ - 1]
        /\ \/ /\ Stopped(r)
              /\ Goto(r, "leave")
              /\ UNCHANGED <<msgs, iter>>
           \/ /\ ~Stopped(r) /\ ~Last(r)
              /\ Say(r, ToolMsg)
              /\ Goto(r, "tools")
              /\ UNCHANGED iter
           \/ /\ ~Stopped(r) /\ Last(r) /\ ~full
              /\ Say(r, ToolMsg)
              /\ iter' = [iter EXCEPT ![r] = @ + 1]
              /\ Goto(r, "stream")
           \/ /\ ~Stopped(r) /\ Last(r) /\ full
              /\ msgs' = [msgs EXCEPT ![r] = @ \o <<ToolMsg, Assistant(0)>>]
              /\ Goto(r, "store")
              /\ UNCHANGED iter

(* A tool that only reads, is not permitted, or has wrong arguments *)
PlainTool(r) ==
    /\ At(r, "tools")
    /\ AfterTool(r)
    /\ UNCHANGED <<shared, key, ctx, clickVars>>
-----------------------------------------------------------------------------
(* write_file and send_command wait for the user. *)
RequestApproval(r) ==
    /\ At(r, "tools") /\ asked < MaxAsks
    /\ asked' = asked + 1
    /\ ask' = [ask EXCEPT ![r] = asked + 1]
    /\ pending' = pending \cup {asked + 1}
    /\ Goto(r, "wait")
    /\ UNCHANGED <<convs, running, chan, turns, performed,
                   key, iter, msgs, left, verdict, ctx, clickVars>>

Conclude(r, v) ==
    /\ At(r, "wait")
    /\ verdict' = [verdict EXCEPT ![r] = v]
    /\ Goto(r, "withdraw")
    /\ UNCHANGED <<convs, running, pending, turns, asked, performed,
                   key, iter, msgs, left, ask, ctx, clickVars>>

Answered(r) ==
    /\ At(r, "wait") /\ chan[ask[r]] # "empty"
    /\ Conclude(r, chan[ask[r]])
    /\ chan' = [chan EXCEPT ![ask[r]] = "empty"]

GiveUp(r) ==
    /\ Stopped(r)
    /\ Conclude(r, "no")
    /\ UNCHANGED chan

(* time.After; select may take it even when an answer is there. *)
Expired_Granting == "yes"
Expired == "no"

Expire(r) ==
    /\ Conclude(r, Expired)
    /\ UNCHANGED chan

(* the deferred delete *)
Deleted(i) == pending \ {i}

Withdraw(r) ==
    /\ At(r, "withdraw")
    /\ pending' = Deleted(ask[r])
    /\ \/ /\ verdict[r] = "yes"
          /\ Goto(r, "act")
          /\ UNCHANGED <<iter, msgs, left, ask, verdict>>
       \/ verdict[r] = "no" /\ AfterTool(r)
    /\ UNCHANGED <<convs, running, chan, turns, asked, performed, key, ctx, clickVars>>

(* WriteTextFile and SendCommand do not look at the context. *)
Act(r) ==
    /\ At(r, "act")
    /\ performed' = performed \cup {ask[r]}
    /\ AfterTool(r)
    /\ UNCHANGED <<convs, running, pending, chan, turns, asked, key, ctx, clickVars>>

(* The server does not run, or the file cannot be written. *)
ActFails(r) ==
    /\ At(r, "act")
    /\ AfterTool(r)
    /\ UNCHANGED <<shared, key, ctx, clickVars>>

(* Decide: a wrong id, or one of another user, is refused and changes      *)
(* nothing; the owner of an approval is the user of the run that waits.    *)
Mine(i, u) == \E r \in Runs : ask[r] = i /\ key[r][1] = u

Taken(i) == pending \ {i}

Decide(c, u, i, a) ==
    /\ click[c] = "idle"
    /\ i \in pending /\ Mine(i, u)
    /\ pending' = Taken(i)
    /\ click' = [click EXCEPT ![c] = "send"]
    /\ id' = [id EXCEPT ![c] = i]
    /\ reply' = [reply EXCEPT ![c] = a]
    /\ UNCHANGED <<convs, running, chan, turns, asked, performed, runVars>>

(* The channel has room for one answer: a second one would wait here. *)
Ready_Unbuffered(i) == chan[i] = "empty" /\ \E r \in Runs : At(r, "wait") /\ ask[r] = i
Ready(i) == chan[i] = "empty"

Send(c) ==
    /\ click[c] = "send" /\ Ready(id[c])
    /\ chan' = [chan EXCEPT ![id[c]] = reply[c]]
    /\ click' = [click EXCEPT ![c] = "idle"]
    /\ id' = [id EXCEPT ![c] = 0] /\ reply' = [reply EXCEPT ![c] = "no"]
    /\ UNCHANGED <<convs, running, pending, turns, asked, performed, runVars>>
-----------------------------------------------------------------------------
From(s, i) == SubSeq(s, i, Len(s))

StripTools_Never(s) == s
StripTools(s) ==
    From(s, 1 + Cardinality({i \in 1..Len(s) : \A j \in 1..i : s[j].role = "tool"}))

(* trimHistory: the newest MaxHistory messages, fewer when they are too    *)
(* long (but one), and no tool message at the start.                       *)
Trimmed(s) ==
    LET first == IF Len(s) > MaxHistory THEN Len(s) - MaxHistory + 1 ELSE 1
    IN  {StripTools(From(s, i)) : i \in first..Len(s)}

Kept == {k \in Keys : convs[k] # <<>>}

Crowded_Late(k) == convs[k] = <<>> /\ Cardinality(Kept) > MaxConvs
Crowded(k) == convs[k] = <<>> /\ Cardinality(Kept) >= MaxConvs

Evicted(k) == IF Crowded(k) THEN {{v} : v \in Kept \ {k}} ELSE {{}}

Store(r) ==
    /\ At(r, "store")
    /\ \E gone \in Evicted(key[r]), h \in Trimmed(msgs[r]) :
          convs' = [k \in Keys |-> IF k = key[r] THEN h
                                   ELSE IF k \in gone THEN <<>> ELSE convs[k]]
    /\ Goto(r, "leave")
    /\ UNCHANGED <<running, pending, chan, turns, asked, performed,
                   key, iter, msgs, left, ask, verdict, ctx, clickVars>>

Leave(r) ==
    /\ At(r, "leave")
    /\ running' = running \ {key[r]}
    /\ Goto(r, "idle")
    /\ key' = [key EXCEPT ![r] = NoKey] /\ msgs' = [msgs EXCEPT ![r] = <<>>]
    /\ iter' = [iter EXCEPT ![r] = 0] /\ left' = [left EXCEPT ![r] = 0]
    /\ ctx' = [ctx EXCEPT ![r] = "live"]
    /\ UNCHANGED <<convs, pending, chan, turns, asked, performed, ask, verdict, clickVars>>

(* ResetConv; a run in progress will store its turn all the same. *)
Reset(k) ==
    /\ convs' = [convs EXCEPT ![k] = <<>>]
    /\ UNCHANGED <<running, pending, chan, turns, asked, performed, runVars, clickVars>>
-----------------------------------------------------------------------------
Talk(r) == StreamFails(r) \/ Answer(r) \/ \E n \in 1..MaxCalls : CallTools(r, n)

Consent(r) ==
    RequestApproval(r) \/ Answered(r) \/ GiveUp(r) \/ Expire(r) \/ Withdraw(r)

RunStep(r) == Talk(r) \/ PlainTool(r) \/ Consent(r) \/ Act(r) \/ ActFails(r)
              \/ Store(r) \/ Leave(r)

Next ==
    \/ \E r \in Runs : RunStep(r) \/ Cancel(r) \/ \E k \in Keys : Begin(r, k)
    \/ \E c \in Clicks : Send(c)
    \/ \E c \in Clicks, u \in Users, i \in Asks, a \in Answers : Decide(c, u, i, a)
    \/ \E k \in Keys : Reset(k)

Spec == Init /\ [][Next]_vars

(* A run does not stop between two steps, each of which changes pc or      *)
(* left: the model is given half an hour, an approval five minutes; and a  *)
(* goroutine that can send does.                                           *)
Fairness == /\ \A r \in Runs : WF_<<pc[r], left[r]>>(RunStep(r))
            /\ \A c \in Clicks : WF_<<click[c]>>(Send(c))

FairSpec == Spec /\ Fairness
-----------------------------------------------------------------------------
Said(i, a) == \/ chan[i] = a
              \/ \E c \in Clicks : click[c] = "send" /\ id[c] = i /\ reply[c] = a
              \/ \E r \in Runs : ask[r] = i /\ verdict[r] = a

(* whether a run may still perform i *)
Watched(i) == \E r \in Runs : ask[r] = i /\ verdict[r] \in {"none", "yes"}

Standing(i) ==
    IF i > asked THEN "unasked"
    ELSE IF i \in performed THEN "performed"
    ELSE IF ~Watched(i) THEN "closed"
    ELSE IF i \in pending THEN "asked"
    ELSE IF Said(i, "yes") THEN "granted" ELSE "refused"

Gate == INSTANCE ApprovalGate WITH Requests <- Asks, gate <- [i \in Asks |-> Standing(i)]

(* Nothing that needs consent is done without a grant that came while the  *)
(* agent waited, nor twice: whatever the order of clicks, timeouts and     *)
(* cancellations.                                                          *)
GateKept == Gate!Spec

(* The conversation that a run will replace is the one it began with, or   *)
(* was dropped meanwhile: no run overwrites a turn that it has not seen.   *)
Extends(t, s) == Len(s) <= Len(t) /\ \A i \in 1..Len(s) : t[i] = s[i]

NoTurnLost == \A r \in Runs : pc[r] \in Talking => Extends(msgs[r], convs[key[r]])

(* What is sent to the model, and what is stored, is a history that a      *)
(* strict server accepts: each message that calls tools is followed by all *)
(* their results, and there is no result without its call.                 *)
Replayable(s) ==
    \A i \in 1..Len(s) :
       /\ \A j \in 1..s[i].calls : i + j <= Len(s) /\ s[i + j].role = "tool"
       /\ s[i].role = "tool" => \E j \in 1..(i - 1) : j + s[j].calls >= i

HistoryReplayable ==
    /\ \A k \in Keys : Replayable(convs[k])
    /\ \A r \in Runs : At(r, "stream") => Replayable(msgs[r])

(* The runner's memory is bounded: conversations, their length, and the    *)
(* approvals, each of which belongs to a run that still waits.             *)
MemoryBounded ==
    /\ Cardinality(Kept) <= MaxConvs
    /\ \A k \in Keys : Len(convs[k]) <= MaxHistory
    /\ \A i \in pending : \E r \in Runs : pc[r] \in Waiting /\ ask[r] = i

(* Every run ends and frees its key, and every click is answered: a reply  *)
(* to an approval that has just timed out does not hang.                   *)
EveryoneReturns ==
    /\ \A r \in Runs : pc[r] # "idle" ~> pc[r] = "idle"
    /\ \A c \in Clicks : click[c] = "send" ~> click[c] = "idle"
=============================================================================
