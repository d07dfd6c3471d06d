---------------------------- MODULE AgentProofs ----------------------------
(***************************************************************************)
(* Proofs about Agent, for any number of users, servers, runs, clicks and  *)
(* any limits: no turn of a conversation is overwritten unseen, what is    *)
(* sent to the model can be replayed, the memory of the runner is bounded, *)
(* and the agent keeps the promise of ApprovalGate.                        *)
(***************************************************************************)
EXTENDS Agent, SequenceTheorems, FiniteSetTheorems, WellFoundedInduction, TLAPS

LEMMA Messages ==
    /\ UserMsg \in Message /\ ToolMsg \in Message
    /\ \A n \in Nat : Assistant(n) \in Message
  BY DEF UserMsg, ToolMsg, Assistant, Message

(* What trimHistory keeps of a history is one, and not longer than the     *)
(* limit.                                                                  *)
LEMMA FromIsHistory ==
    ASSUME NEW s \in Seq(Message), NEW i \in 1..(Len(s) + 1)
    PROVE  /\ From(s, i) \in Seq(Message)
           /\ Len(From(s, i)) = Len(s) - i + 1
  <1>1. Len(s) \in Nat /\ \A j \in i..Len(s) : s[j] \in Message
    BY LenProperties
  <1>2. /\ SubSeq(s, i, Len(s)) \in Seq(Message)
        /\ Len(SubSeq(s, i, Len(s))) = IF i <= Len(s) THEN Len(s) - i + 1 ELSE 0
    <2>1. i \in Int /\ Len(s) \in Int
      BY <1>1
    <2>2. QED
      BY <1>1, <2>1, SubSeqProperties
  <1>3. QED
    BY <1>1, <1>2 DEF From

LEMMA StripToolsIsHistory ==
    ASSUME NEW s \in Seq(Message)
    PROVE  StripTools(s) \in Seq(Message) /\ Len(StripTools(s)) <= Len(s)
  <1> DEFINE lead == {i \in 1..Len(s) : \A j \in 1..i : s[j].role = "tool"}
  <1>1. Len(s) \in Nat
    BY LenProperties
  <1>2. IsFiniteSet(1..Len(s)) /\ Cardinality(1..Len(s)) = Len(s)
    BY <1>1, FS_Interval
  <1>3. IsFiniteSet(lead) /\ Cardinality(lead) <= Len(s)
    <2>1. lead \in SUBSET (1..Len(s))
      OBVIOUS
    <2> HIDE DEF lead
    <2>2. QED
      BY <1>2, <2>1, FS_Subset
  <1>4. Cardinality(lead) \in Nat
    BY <1>3, FS_CardinalityType
  <1>5. StripTools(s) = From(s, 1 + Cardinality(lead))
    BY DEF StripTools
  <1> HIDE DEF lead
  <1>6. 1 + Cardinality(lead) \in 1..(Len(s) + 1)
    BY <1>1, <1>3, <1>4
  <1>7. QED
    BY <1>1, <1>4, <1>5, <1>6, FromIsHistory

LEMMA TrimmedIsHistory ==
    ASSUME NEW s \in Seq(Message), NEW h \in Trimmed(s)
    PROVE  h \in Seq(Message) /\ Len(h) <= MaxHistory
  <1> DEFINE first == IF Len(s) > MaxHistory THEN Len(s) - MaxHistory + 1 ELSE 1
  <1>1. Len(s) \in Nat
    BY LenProperties
  <1>2. first \in Nat /\ first >= 1 /\ Len(s) - first + 1 <= MaxHistory
    BY <1>1, AgentAssumption
  <1>3. PICK i \in first..Len(s) : h = StripTools(From(s, i))
    BY DEF Trimmed
  <1> HIDE DEF first
  <1>4. i \in 1..(Len(s) + 1) /\ Len(s) - i + 1 <= MaxHistory
    <2>1. i \in Int /\ first <= i /\ i <= Len(s)
      BY <1>1, <1>2
    <2>2. QED
      BY <1>1, <1>2, <2>1, AgentAssumption
  <1>5. From(s, i) \in Seq(Message) /\ Len(From(s, i)) <= MaxHistory
    BY <1>4, FromIsHistory
  <1>6. h \in Seq(Message) /\ Len(h) <= Len(From(s, i))
    BY <1>3, <1>5, StripToolsIsHistory
  <1>7. Len(h) \in Nat /\ Len(From(s, i)) \in Nat
    BY <1>5, <1>6, LenProperties
  <1>8. QED
    BY <1>5, <1>6, <1>7, AgentAssumption
-----------------------------------------------------------------------------
(* Type correctness                                                        *)
InTool == Waiting \cup {"tools"}

ToolsLeft == \A r \in Runs : pc[r] \in InTool => left[r] > 0

ITypes == TypeOK /\ ToolsLeft

(* What follows a tool, for the run that executed it and for the others.   *)
LEMMA AfterToolTypes ==
    ASSUME ITypes, NEW r \in Runs, pc[r] \in InTool, AfterTool(r)
    PROVE  /\ pc' \in [Runs -> Steps] /\ pc'[r] \in {"leave", "tools", "stream", "store"}
           /\ \A q \in Runs \ {r} :
                 pc'[q] = pc[q] /\ left'[q] = left[q] /\ ask'[q] = ask[q]
           /\ ask' \in [Runs -> Asks \cup {0}]
           /\ verdict' \in [Runs -> Answers \cup {"none"}]
           /\ left' \in [Runs -> Nat] /\ (pc'[r] = "tools" => left'[r] > 0)
           /\ iter' \in [Runs -> Nat] /\ msgs' \in [Runs -> Seq(Message)]
  <1> USE DEF ITypes, TypeOK, ToolsLeft, AfterTool
  <1>1. left[r] \in Nat /\ left[r] > 0
    OBVIOUS
  <1>2. /\ ask' = [ask EXCEPT ![r] = 0] /\ verdict' = [verdict EXCEPT ![r] = "none"]
        /\ left' = [left EXCEPT ![r] = @ - 1]
    OBVIOUS
  <1>3. \E s \in {"leave", "tools", "stream", "store"} : pc' = [pc EXCEPT ![r] = s]
    BY DEF Goto
  <1>4. pc'[r] = "tools" => left[r] # 1
    BY DEF Goto, Last
  <1>5. iter' = iter \/ iter' = [iter EXCEPT ![r] = @ + 1]
    OBVIOUS
  <1>6. msgs' \in [Runs -> Seq(Message)]
    <2>1. ToolMsg \in Message /\ Assistant(0) \in Message
      BY Messages
    <2>2. msgs' = msgs \/ msgs' = [msgs EXCEPT ![r] = Append(@, ToolMsg)]
          \/ msgs' = [msgs EXCEPT ![r] = @ \o <<ToolMsg, Assistant(0)>>]
      BY DEF Say
    <2>3. Append(msgs[r], ToolMsg) \in Seq(Message)
      BY <2>1, AppendProperties
    <2>4. msgs[r] \o <<ToolMsg, Assistant(0)>> \in Seq(Message)
      <3>1. <<ToolMsg, Assistant(0)>> \in Seq(Message)
        BY <2>1
      <3>2. msgs[r] \in Seq(Message)
        OBVIOUS
      <3>3. QED
        BY <3>1, <3>2, ConcatProperties
    <2>5. QED
      BY <2>2, <2>3, <2>4
  <1> HIDE DEF AfterTool
  <1>7. pc' \in [Runs -> Steps] /\ pc'[r] \in {"leave", "tools", "stream", "store"}
        /\ \A q \in Runs \ {r} : pc'[q] = pc[q]
    BY <1>3 DEF Steps
  <1>8. left' \in [Runs -> Nat] /\ (pc'[r] = "tools" => left'[r] > 0)
        /\ \A q \in Runs \ {r} : left'[q] = left[q]
    BY <1>1, <1>2, <1>4
  <1>9. /\ ask' \in [Runs -> Asks \cup {0}] /\ verdict' \in [Runs -> Answers \cup {"none"}]
        /\ \A q \in Runs \ {r} : ask'[q] = ask[q]
    BY <1>2
  <1>10. iter' \in [Runs -> Nat]
    <2>1. iter \in [Runs -> Nat]
      OBVIOUS
    <2> HIDE DEF ITypes, TypeOK, ToolsLeft
    <2>2. iter[r] + 1 \in Nat
      BY <2>1
    <2>3. QED
      BY <1>5, <2>1, <2>2
  <1>11. QED
    BY <1>6, <1>7, <1>8, <1>9, <1>10

LEMMA AfterToolKeepsTypes ==
    ASSUME ITypes, NEW r \in Runs, pc[r] \in InTool, AfterTool(r),
           UNCHANGED <<convs, running, chan, turns, asked, key, ctx, clickVars>>,
           pending' \subseteq Asks, performed' \subseteq Asks
    PROVE  ITypes'
  <1>1. /\ pc' \in [Runs -> Steps] /\ pc'[r] \in {"leave", "tools", "stream", "store"}
        /\ \A q \in Runs \ {r} : pc'[q] = pc[q] /\ left'[q] = left[q] /\ ask'[q] = ask[q]
        /\ ask' \in [Runs -> Asks \cup {0}]
        /\ verdict' \in [Runs -> Answers \cup {"none"}]
        /\ left' \in [Runs -> Nat] /\ (pc'[r] = "tools" => left'[r] > 0)
        /\ iter' \in [Runs -> Nat] /\ msgs' \in [Runs -> Seq(Message)]
    BY AfterToolTypes
  <1>2. pc[r] # "idle" /\ key[r] \in Keys
    BY DEF ITypes, TypeOK, InTool, Waiting
  <1>3. \A q \in Runs : pc'[q] # "idle" => key'[q] \in Keys
    BY <1>1, <1>2 DEF ITypes, TypeOK
  <1>4. \A q \in Runs : pc'[q] \in Waiting => ask'[q] \in Asks
    BY <1>1 DEF ITypes, TypeOK, Waiting
  <1>5. \A q \in Runs : pc'[q] \in InTool => left'[q] > 0
    BY <1>1 DEF ITypes, ToolsLeft, InTool, Waiting
  <1>6. TypeOK'
    BY <1>1, <1>3, <1>4 DEF ITypes, TypeOK, clickVars
  <1>7. QED
    BY <1>5, <1>6 DEF ITypes, ToolsLeft, InTool, Waiting

LEMMA TypesInductive == ITypes /\ [Next]_vars => ITypes'
  <1> SUFFICES ASSUME ITypes, [Next]_vars PROVE ITypes'
    OBVIOUS
  <1> USE DEF ITypes, TypeOK, ToolsLeft, InTool, Waiting
  <1>1. ASSUME NEW r \in Runs, NEW k \in Keys, Begin(r, k) PROVE ITypes'
    <2>1. Append(convs[k], UserMsg) \in Seq(Message)
      BY Messages, AppendProperties
    <2>2. QED
      BY <1>1, <2>1 DEF Begin, At, Goto, Free, clickVars, Steps
  <1>2. ASSUME NEW r \in Runs, Cancel(r) PROVE ITypes'
    BY <1>2 DEF Cancel, shared, clickVars
  <1>3. ASSUME NEW r \in Runs, Talk(r) PROVE ITypes'
    <2>1. CASE StreamFails(r)
      BY <2>1 DEF StreamFails, At, Goto, shared, clickVars, Steps
    <2>2. CASE Answer(r)
      <3>1. Append(msgs[r], Assistant(0)) \in Seq(Message)
        BY Messages, AppendProperties
      <3>2. QED
        BY <2>2, <3>1 DEF Answer, Say, At, Goto, shared, clickVars, Steps
    <2>3. ASSUME NEW n \in 1..MaxCalls, CallTools(r, n) PROVE ITypes'
      <3>1. n \in Nat /\ n > 0
        BY AgentAssumption
      <3>2. Append(msgs[r], Assistant(n)) \in Seq(Message)
        BY <3>1, Messages, AppendProperties
      <3>3. QED
        BY <2>3, <3>1, <3>2 DEF CallTools, Say, At, Goto, shared, clickVars, Steps
    <2>4. QED
      BY <1>3, <2>1, <2>2, <2>3 DEF Talk
  <1>4. ASSUME NEW r \in Runs, PlainTool(r) PROVE ITypes'
    <2>1. /\ pc[r] \in InTool /\ AfterTool(r)
          /\ UNCHANGED <<convs, running, chan, turns, asked, key, ctx, clickVars>>
          /\ pending' \subseteq Asks /\ performed' \subseteq Asks
      BY <1>4 DEF PlainTool, At, shared
    <2> HIDE DEF ITypes, TypeOK, ToolsLeft, InTool, Waiting
    <2>2. QED
      BY <2>1, AfterToolKeepsTypes
  <1>5. ASSUME NEW r \in Runs, Consent(r) PROVE ITypes'
    <2>1. CASE RequestApproval(r)
      <3>1. asked + 1 \in Asks
        BY <2>1, AgentAssumption DEF RequestApproval, Asks
      <3>2. asked + 1 \in 0..MaxAsks
        BY <3>1, AgentAssumption DEF Asks
      <3>3. QED
        BY <2>1, <3>1, <3>2 DEF RequestApproval, At, Goto, clickVars, Steps
    <2>2. ASSUME NEW v \in Answers, Conclude(r, v), chan' \in [Asks -> Answers \cup {"empty"}]
          PROVE ITypes'
      BY <2>2 DEF Conclude, At, Goto, clickVars, Steps
    <2>3. CASE Answered(r)
      <3>1. chan[ask[r]] \in Answers /\ chan' \in [Asks -> Answers \cup {"empty"}]
        BY <2>3 DEF Answered, At
      <3>2. QED
        BY <2>2, <2>3, <3>1 DEF Answered
    <2>4. CASE GiveUp(r)
      BY <2>2, <2>4 DEF GiveUp, Answers
    <2>5. CASE Expire(r)
      BY <2>2, <2>5 DEF Expire, Expired, Answers
    <2>6. CASE Withdraw(r)
      <3>1. pc[r] = "withdraw" /\ pending' \subseteq Asks
        BY <2>6 DEF Withdraw, At, Deleted
      <3>2. CASE verdict[r] = "yes" /\ Goto(r, "act") /\ UNCHANGED <<iter, msgs, left, ask, verdict>>
        BY <2>6, <3>1, <3>2 DEF Withdraw, Goto, clickVars, Steps
      <3>3. CASE AfterTool(r)
        <4>1. /\ pc[r] \in InTool
              /\ UNCHANGED <<convs, running, chan, turns, asked, key, ctx, clickVars>>
              /\ performed' \subseteq Asks
          BY <2>6, <3>1 DEF Withdraw
        <4> HIDE DEF ITypes, TypeOK, ToolsLeft, InTool, Waiting
        <4>2. QED
          BY <3>1, <3>3, <4>1, AfterToolKeepsTypes
      <3>4. QED
        BY <2>6, <3>2, <3>3 DEF Withdraw
    <2>7. QED
      BY <1>5, <2>1, <2>3, <2>4, <2>5, <2>6 DEF Consent
  <1>6. ASSUME NEW r \in Runs, Act(r) \/ ActFails(r) PROVE ITypes'
    <2>1. /\ pc[r] \in InTool /\ AfterTool(r)
          /\ UNCHANGED <<convs, running, chan, turns, asked, key, ctx, clickVars>>
          /\ pending' \subseteq Asks /\ performed' \subseteq Asks
      BY <1>6 DEF Act, ActFails, At, shared
    <2> HIDE DEF ITypes, TypeOK, ToolsLeft, InTool, Waiting
    <2>2. QED
      BY <2>1, AfterToolKeepsTypes
  <1>7. ASSUME NEW r \in Runs, Store(r) PROVE ITypes'
    <2>1. PICK gone \in Evicted(key[r]), h \in Trimmed(msgs[r]) :
             convs' = [k \in Keys |-> IF k = key[r] THEN h
                                      ELSE IF k \in gone THEN <<>> ELSE convs[k]]
      BY <1>7 DEF Store
    <2>2. h \in Seq(Message)
      BY TrimmedIsHistory
    <2>3. convs' \in [Keys -> Seq(Message)]
      BY <2>1, <2>2
    <2>4. QED
      BY <1>7, <2>3 DEF Store, At, Goto, clickVars, Steps
  <1>8. ASSUME NEW r \in Runs, Leave(r) PROVE ITypes'
    BY <1>8 DEF Leave, At, Goto, clickVars, Steps
  <1>9. ASSUME NEW c \in Clicks, Send(c) PROVE ITypes'
    <2>1. reply[c] \in Answers /\ chan' \in [Asks -> Answers \cup {"empty"}]
      BY <1>9 DEF Send
    <2>2. /\ click' \in [Clicks -> {"idle", "send"}] /\ id' \in [Clicks -> Asks \cup {0}]
          /\ \A d \in Clicks : click'[d] = "send" => id'[d] \in Asks
          /\ reply' \in [Clicks -> Answers]
      BY <1>9 DEF Send, Answers
    <2>3. QED
      BY <1>9, <2>1, <2>2 DEF Send, runVars
  <1>10. ASSUME NEW c \in Clicks, NEW u \in Users, NEW i \in Asks, NEW a \in Answers,
                Decide(c, u, i, a)
         PROVE ITypes'
    BY <1>10 DEF Decide, Taken, runVars
  <1>11. ASSUME NEW k \in Keys, Reset(k) PROVE ITypes'
    BY <1>11 DEF Reset, runVars, clickVars
  <1>12. ASSUME UNCHANGED vars PROVE ITypes'
    BY <1>12 DEF vars, runVars, clickVars
  <1> HIDE DEF ITypes, TypeOK, ToolsLeft, InTool, Waiting
  <1>13. QED
    BY <1>1, <1>2, <1>3, <1>4, <1>5, <1>6, <1>7, <1>8, <1>9, <1>10, <1>11, <1>12
       DEF Next, RunStep

LEMMA TypesInit == Init => ITypes
  BY AgentAssumption DEF Init, ITypes, TypeOK, ToolsLeft, InTool, Waiting, Steps, Answers,
     Asks, NoKey

(* Every variable stays in its type; a run in a tool has one left to       *)
(* answer.                                                                 *)
THEOREM TypeCorrect == Spec => []TypeOK
  <1>1. ITypes => TypeOK
    BY DEF ITypes
  <1>2. QED
    BY <1>1, TypesInit, TypesInductive, PTL DEF Spec
-----------------------------------------------------------------------------
(* No turn is lost                                                         *)
LEMMA ExtendsItself == ASSUME NEW s \in Seq(Message) PROVE Extends(s, s)
  <1>1. Len(s) \in Nat
    BY LenProperties
  <1>2. QED
    BY <1>1 DEF Extends

LEMMA ExtendsEmpty == ASSUME NEW s \in Seq(Message) PROVE Extends(s, <<>>)
  <1>1. Len(s) \in Nat /\ Len(<<>>) = 0
    BY LenProperties, EmptySeq
  <1>2. QED
    BY <1>1 DEF Extends

LEMMA ExtendsTransitive ==
    ASSUME NEW s \in Seq(Message), NEW t \in Seq(Message), NEW u \in Seq(Message),
           Extends(t, s), Extends(u, t)
    PROVE  Extends(u, s)
  <1>1. Len(s) \in Nat /\ Len(t) \in Nat /\ Len(u) \in Nat
    BY LenProperties
  <1>2. QED
    BY <1>1 DEF Extends

LEMMA ExtendsAppended ==
    ASSUME NEW s \in Seq(Message), NEW m \in Message
    PROVE  Extends(Append(s, m), s)
  <1>1. Len(s) \in Nat
    BY LenProperties
  <1>2. /\ Len(Append(s, m)) = Len(s) + 1
        /\ \A i \in 1..Len(s) : Append(s, m)[i] = s[i]
    BY AppendProperties
  <1>3. QED
    BY <1>1, <1>2 DEF Extends

LEMMA ExtendsConcatenated ==
    ASSUME NEW s \in Seq(Message), NEW t \in Seq(Message)
    PROVE  Extends(s \o t, s)
  <1>1. Len(s) \in Nat /\ Len(t) \in Nat
    BY LenProperties
  <1>2. /\ Len(s \o t) = Len(s) + Len(t)
        /\ \A i \in 1..Len(s) + Len(t) :
              (s \o t)[i] = IF i <= Len(s) THEN s[i] ELSE t[i - Len(s)]
    BY ConcatProperties
  <1>3. QED
    BY <1>1, <1>2 DEF Extends

(* A tool adds to what its run has said, and to nothing else.              *)
LEMMA AfterToolExtends ==
    ASSUME ITypes, NEW r \in Runs, AfterTool(r)
    PROVE  /\ \A q \in Runs \ {r} : msgs'[q] = msgs[q]
           /\ Extends(msgs'[r], msgs[r])
  <1>1. msgs \in [Runs -> Seq(Message)]
    BY DEF ITypes, TypeOK
  <1>2. ToolMsg \in Message /\ Assistant(0) \in Message
    BY Messages
  <1>3. \/ msgs' = msgs
        \/ msgs' = [msgs EXCEPT ![r] = Append(@, ToolMsg)]
        \/ msgs' = [msgs EXCEPT ![r] = @ \o <<ToolMsg, Assistant(0)>>]
    BY DEF AfterTool, Say
  <1>4. Extends(msgs[r], msgs[r])
    BY <1>1, ExtendsItself
  <1>5. Extends(Append(msgs[r], ToolMsg), msgs[r])
    BY <1>1, <1>2, ExtendsAppended
  <1>6. Extends(msgs[r] \o <<ToolMsg, Assistant(0)>>, msgs[r])
    <2>1. <<ToolMsg, Assistant(0)>> \in Seq(Message)
      BY <1>2
    <2>2. msgs[r] \in Seq(Message)
      BY <1>1
    <2>3. QED
      BY <2>1, <2>2, ExtendsConcatenated
  <1>7. QED
    BY <1>1, <1>3, <1>4, <1>5, <1>6

(* A key is in Runner.running while a run has it, and one run has it.      *)
Occupied ==
    /\ \A r \in Runs : pc[r] # "idle" => key[r] \in running
    /\ \A r, q \in Runs : r # q /\ pc[r] # "idle" /\ pc[q] # "idle" => key[r] # key[q]

ITurns == ITypes /\ Occupied /\ NoTurnLost

(* A step of a run that keeps its key and adds to what it said.            *)
LEMMA SpeakingKeepsTurns ==
    ASSUME ITurns, ITypes', NEW r \in Runs, pc[r] \in Talking, pc'[r] # "idle",
           UNCHANGED <<convs, running, key>>,
           \A q \in Runs \ {r} : pc'[q] = pc[q] /\ msgs'[q] = msgs[q],
           Extends(msgs'[r], msgs[r])
    PROVE  ITurns'
  <1>1. pc[r] # "idle"
    BY DEF Talking
  <1>2. Occupied'
    BY <1>1 DEF ITurns, Occupied
  <1>3. /\ convs[key[r]] \in Seq(Message) /\ msgs[r] \in Seq(Message)
        /\ msgs'[r] \in Seq(Message)
    BY <1>1 DEF ITurns, ITypes, TypeOK
  <1>4. Extends(msgs[r], convs[key[r]])
    BY DEF ITurns, NoTurnLost
  <1>5. Extends(msgs'[r], convs[key[r]])
    BY <1>3, <1>4, ExtendsTransitive
  <1>6. NoTurnLost'
    BY <1>5 DEF ITurns, NoTurnLost
  <1>7. QED
    BY <1>2, <1>6 DEF ITurns

(* Steps that concern neither conversations nor what runs have said.       *)
LEMMA QuietKeepsTurns ==
    ASSUME ITurns, ITypes', UNCHANGED <<convs, running, key, pc, msgs>>
    PROVE  ITurns'
  BY DEF ITurns, Occupied, NoTurnLost

LEMMA TurnsInductive == ITurns /\ [Next]_vars => ITurns'
  <1> SUFFICES ASSUME ITurns, [Next]_vars PROVE ITurns'
    OBVIOUS
  <1>0. ITypes /\ ITypes' /\ Occupied /\ NoTurnLost
    BY TypesInductive DEF ITurns
  <1>t. /\ pc \in [Runs -> Steps] /\ msgs \in [Runs -> Seq(Message)]
        /\ convs \in [Keys -> Seq(Message)] /\ key \in [Runs -> Keys \cup {NoKey}]
        /\ \A q \in Runs : pc[q] # "idle" => key[q] \in Keys
    BY <1>0 DEF ITypes, TypeOK
  <1>1. ASSUME NEW r \in Runs, NEW k \in Keys, Begin(r, k) PROVE ITurns'
    <2>1. /\ pc[r] = "idle" /\ k \notin running /\ running' = running \cup {k}
          /\ key' = [key EXCEPT ![r] = k] /\ pc' = [pc EXCEPT ![r] = "stream"]
          /\ msgs' = [msgs EXCEPT ![r] = Append(convs[k], UserMsg)] /\ convs' = convs
      BY <1>1 DEF Begin, At, Goto, Free
    <2>2. Extends(Append(convs[k], UserMsg), convs[k])
      BY <1>t, Messages, ExtendsAppended
    <2>3. Occupied'
      BY <1>0, <1>t, <2>1 DEF Occupied
    <2>4. NoTurnLost'
      BY <1>0, <1>t, <2>1, <2>2 DEF NoTurnLost, Talking
    <2>5. QED
      BY <1>0, <2>3, <2>4 DEF ITurns
  <1>2. ASSUME NEW r \in Runs, Cancel(r) PROVE ITurns'
    BY <1>0, <1>2, QuietKeepsTurns DEF Cancel, shared
  <1>3. ASSUME NEW r \in Runs, Talk(r) PROVE ITurns'
    <2>1. /\ pc[r] = "stream" /\ UNCHANGED <<convs, running, key>>
          /\ \E s \in {"leave", "store", "tools"} : pc' = [pc EXCEPT ![r] = s]
          /\ msgs' = msgs \/ \E n \in Nat : msgs' = [msgs EXCEPT ![r] = Append(@, Assistant(n))]
      BY <1>3, AgentAssumption
         DEF Talk, StreamFails, Answer, CallTools, At, Goto, Say, shared
    <2>2. pc[r] \in Talking /\ pc'[r] # "idle" /\ \A q \in Runs \ {r} : pc'[q] = pc[q]
      BY <1>t, <2>1 DEF Talking, Steps
    <2>3. (\A q \in Runs \ {r} : msgs'[q] = msgs[q]) /\ Extends(msgs'[r], msgs[r])
      <3>1. CASE msgs' = msgs
        BY <1>t, <3>1, ExtendsItself
      <3>2. ASSUME NEW n \in Nat, msgs' = [msgs EXCEPT ![r] = Append(@, Assistant(n))]
            PROVE  <2>3
        <4>1. Extends(Append(msgs[r], Assistant(n)), msgs[r])
          BY <1>t, Messages, ExtendsAppended
        <4>2. QED
          BY <1>t, <3>2, <4>1
      <3>3. QED
        BY <2>1, <3>1, <3>2
    <2>4. QED
      BY <1>0, <2>1, <2>2, <2>3, SpeakingKeepsTurns
  <1>4. ASSUME NEW r \in Runs, pc[r] \in InTool, AfterTool(r),
               UNCHANGED <<convs, running, key>>
        PROVE  ITurns'
    <2>1. pc[r] \in Talking /\ pc'[r] # "idle" /\ \A q \in Runs \ {r} : pc'[q] = pc[q]
      <3>1. pc'[r] \in {"leave", "tools", "stream", "store"}
            /\ \A q \in Runs \ {r} : pc'[q] = pc[q]
        BY <1>0, <1>4, AfterToolTypes
      <3>2. QED
        BY <1>4, <3>1 DEF InTool, Waiting, Talking, Steps
    <2>2. (\A q \in Runs \ {r} : msgs'[q] = msgs[q]) /\ Extends(msgs'[r], msgs[r])
      BY <1>0, <1>4, AfterToolExtends
    <2>3. QED
      BY <1>0, <1>4, <2>1, <2>2, SpeakingKeepsTurns
  <1>5. ASSUME NEW r \in Runs, pc[r] \in InTool, NEW s \in Waiting, Goto(r, s),
               UNCHANGED <<convs, running, key, msgs>>
        PROVE  ITurns'
    <2>1. pc[r] \in Talking /\ pc'[r] # "idle" /\ \A q \in Runs \ {r} : pc'[q] = pc[q]
      BY <1>t, <1>5 DEF InTool, Waiting, Talking, Steps, Goto
    <2>2. Extends(msgs'[r], msgs[r]) /\ \A q \in Runs \ {r} : msgs'[q] = msgs[q]
      BY <1>t, <1>5, ExtendsItself
    <2>3. QED
      BY <1>0, <1>5, <2>1, <2>2, SpeakingKeepsTurns
  <1>6. ASSUME NEW r \in Runs, Consent(r) PROVE ITurns'
    <2>1. CASE RequestApproval(r) \/ Answered(r) \/ GiveUp(r) \/ Expire(r)
      BY <1>5, <2>1 DEF RequestApproval, Answered, GiveUp, Expire, Conclude, At, InTool, Waiting
    <2>2. CASE Withdraw(r)
      BY <1>4, <1>5, <2>2 DEF Withdraw, At, InTool, Waiting
    <2>3. QED
      BY <1>6, <2>1, <2>2 DEF Consent
  <1>7. ASSUME NEW r \in Runs, PlainTool(r) \/ Act(r) \/ ActFails(r) PROVE ITurns'
    BY <1>4, <1>7 DEF PlainTool, Act, ActFails, At, InTool, Waiting, shared
  <1>8. ASSUME NEW r \in Runs, Store(r) PROVE ITurns'
    <2>1. PICK gone \in Evicted(key[r]), h \in Trimmed(msgs[r]) :
             convs' = [k \in Keys |-> IF k = key[r] THEN h
                                      ELSE IF k \in gone THEN <<>> ELSE convs[k]]
      BY <1>8 DEF Store
    <2>2. /\ pc[r] = "store" /\ pc' = [pc EXCEPT ![r] = "leave"]
          /\ UNCHANGED <<running, key, msgs>>
      BY <1>8 DEF Store, At, Goto
    <2>3. Occupied'
      BY <1>0, <1>t, <2>2 DEF Occupied
    <2>4. ASSUME NEW q \in Runs, pc'[q] \in Talking
          PROVE  Extends(msgs'[q], convs'[key'[q]])
      <3>1. q # r /\ pc[q] \in Talking /\ pc[q] # "idle" /\ key[q] \in Keys
        BY <1>t, <2>2, <2>4 DEF Talking
      <3>2. key[q] # key[r]
        BY <1>0, <2>2, <3>1 DEF Occupied
      <3>3. convs'[key[q]] = <<>> \/ convs'[key[q]] = convs[key[q]]
        BY <2>1, <3>1, <3>2
      <3>4. Extends(msgs[q], <<>>) /\ Extends(msgs[q], convs[key[q]])
        BY <1>0, <1>t, <3>1, ExtendsEmpty DEF NoTurnLost
      <3>5. QED
        BY <2>2, <3>3, <3>4
    <2>5. QED
      BY <1>0, <2>3, <2>4 DEF ITurns, NoTurnLost
  <1>9. ASSUME NEW r \in Runs, Leave(r) PROVE ITurns'
    <2>1. /\ pc[r] = "leave" /\ pc' = [pc EXCEPT ![r] = "idle"] /\ convs' = convs
          /\ running' = running \ {key[r]} /\ key' = [key EXCEPT ![r] = NoKey]
          /\ msgs' = [msgs EXCEPT ![r] = <<>>]
      BY <1>9 DEF Leave, At, Goto
    <2>2. Occupied'
      BY <1>0, <1>t, <2>1 DEF Occupied
    <2>3. NoTurnLost'
      BY <1>0, <1>t, <2>1 DEF NoTurnLost, Talking
    <2>4. QED
      BY <1>0, <2>2, <2>3 DEF ITurns
  <1>10. ASSUME NEW c \in Clicks, Send(c) PROVE ITurns'
    BY <1>0, <1>10, QuietKeepsTurns DEF Send, runVars
  <1>11. ASSUME NEW c \in Clicks, NEW u \in Users, NEW i \in Asks, NEW a \in Answers,
                Decide(c, u, i, a)
         PROVE ITurns'
    BY <1>0, <1>11, QuietKeepsTurns DEF Decide, runVars
  <1>12. ASSUME NEW k \in Keys, Reset(k) PROVE ITurns'
    <2>1. /\ convs' = [convs EXCEPT ![k] = <<>>] /\ UNCHANGED <<pc, key, msgs, running>>
      BY <1>12 DEF Reset, runVars
    <2>2. ASSUME NEW q \in Runs, pc[q] \in Talking
          PROVE  Extends(msgs[q], convs'[key[q]])
      <3>1. key[q] \in Keys
        BY <1>t, <2>2 DEF Talking
      <3>2. convs'[key[q]] = <<>> \/ convs'[key[q]] = convs[key[q]]
        BY <1>t, <2>1, <3>1
      <3>3. Extends(msgs[q], <<>>) /\ Extends(msgs[q], convs[key[q]])
        BY <1>0, <1>t, <2>2, ExtendsEmpty DEF NoTurnLost
      <3>4. QED
        BY <3>2, <3>3
    <2>3. QED
      BY <1>0, <2>1, <2>2 DEF ITurns, Occupied, NoTurnLost
  <1>13. ASSUME UNCHANGED vars PROVE ITurns'
    BY <1>0, <1>13, QuietKeepsTurns DEF vars, runVars
  <1>14. QED
    BY <1>1, <1>2, <1>3, <1>6, <1>7, <1>8, <1>9, <1>10, <1>11, <1>12, <1>13
       DEF Next, RunStep

(* A run stores a conversation that goes on from the one that is stored:   *)
(* the turn of one request is never replaced by that of another.           *)
THEOREM TurnsKept == Spec => []NoTurnLost
  <1>1. Init => ITurns
    BY TypesInit DEF Init, ITurns, Occupied, NoTurnLost, Talking
  <1>2. ITurns => NoTurnLost
    BY DEF ITurns
  <1>3. QED
    BY <1>1, <1>2, TurnsInductive, PTL DEF Spec
-----------------------------------------------------------------------------
(* The memory of the runner is bounded                                     *)
ConvsBounded ==
    /\ IsFiniteSet(Kept) /\ Cardinality(Kept) <= MaxConvs
    /\ \A k \in Keys : Len(convs[k]) <= MaxHistory

(* An approval stays in the map while its run waits, and not while the run *)
(* acts; identifiers are not used again.                                   *)
AsksOwned ==
    /\ \A i \in pending : \E r \in Runs : pc[r] \in Waiting /\ ask[r] = i
    /\ \A r \in Runs : pc[r] = "act" => ask[r] \notin pending
    /\ \A r \in Runs : ask[r] <= asked

IMemory == ITypes /\ ConvsBounded /\ AsksOwned

LEMMA FewerConvs ==
    ASSUME ITypes, ConvsBounded, ITypes',
           \A k \in Keys : convs'[k] = <<>> \/ convs'[k] = convs[k]
    PROVE  ConvsBounded'
  <1>1. Kept' \in SUBSET Kept
    BY DEF Kept
  <1>2. IsFiniteSet(Kept') /\ Cardinality(Kept') <= Cardinality(Kept)
    BY <1>1, FS_Subset DEF ConvsBounded
  <1>3. Cardinality(Kept) \in Nat /\ Cardinality(Kept') \in Nat
    BY <1>2, FS_CardinalityType DEF ConvsBounded
  <1>4. Cardinality(Kept') <= MaxConvs
    BY <1>2, <1>3, AgentAssumption DEF ConvsBounded
  <1>5. \A k \in Keys : Len(convs'[k]) <= MaxHistory
    <2>1. Len(<<>>) = 0
      BY EmptySeq
    <2>2. QED
      BY <2>1, AgentAssumption DEF ConvsBounded
  <1>6. QED
    BY <1>2, <1>4, <1>5 DEF ConvsBounded

(* Storing evicts a conversation when there is no room for another.        *)
LEMMA StoreKeepsConvs ==
    ASSUME ITypes, ConvsBounded, NEW r \in Runs, Store(r)
    PROVE  ConvsBounded'
  <1> DEFINE k == key[r]
  <1>0. k \in Keys /\ msgs[r] \in Seq(Message)
    BY DEF Store, At, ITypes, TypeOK
  <1>1. PICK gone \in Evicted(k), h \in Trimmed(msgs[r]) :
           convs' = [j \in Keys |-> IF j = k THEN h
                                    ELSE IF j \in gone THEN <<>> ELSE convs[j]]
    BY DEF Store
  <1> HIDE DEF k
  <1>2. h \in Seq(Message) /\ Len(h) <= MaxHistory
    BY <1>0, TrimmedIsHistory
  <1>3. \A j \in Keys : Len(convs'[j]) <= MaxHistory
    <2>1. Len(<<>>) = 0
      BY EmptySeq
    <2>2. QED
      BY <1>1, <1>2, <2>1, AgentAssumption DEF ConvsBounded
  <1>4. IsFiniteSet(Kept) /\ Cardinality(Kept) \in Nat /\ Cardinality(Kept) <= MaxConvs
    BY FS_CardinalityType DEF ConvsBounded
  <1>5. \E T : Kept' \subseteq T /\ IsFiniteSet(T) /\ Cardinality(T) <= MaxConvs
    <2>1. CASE convs[k] # <<>>
      <3>1. Kept' \subseteq Kept
        BY <1>0, <1>1, <2>1 DEF Kept
      <3>2. QED
        BY <1>4, <3>1
    <2>2. CASE convs[k] = <<>> /\ ~(Cardinality(Kept) >= MaxConvs)
      <3>1. Kept' \subseteq Kept \cup {k}
        BY <1>0, <1>1 DEF Kept
      <3>2. /\ IsFiniteSet(Kept \cup {k})
            /\ \/ Cardinality(Kept \cup {k}) = Cardinality(Kept)
               \/ Cardinality(Kept \cup {k}) = Cardinality(Kept) + 1
        BY <1>4, FS_AddElement
      <3>3. Cardinality(Kept) + 1 <= MaxConvs
        BY <1>4, <2>2, AgentAssumption
      <3>4. Cardinality(Kept \cup {k}) \in Nat
        BY <3>2, FS_CardinalityType
      <3>5. QED
        BY <1>4, <3>1, <3>2, <3>3, <3>4, AgentAssumption
    <2>3. CASE convs[k] = <<>> /\ Cardinality(Kept) >= MaxConvs
      <3>1. PICK v \in Kept \ {k} : gone = {v}
        BY <2>3 DEF Evicted, Crowded
      <3>2. Kept' \subseteq (Kept \ {v}) \cup {k}
        BY <1>0, <1>1, <3>1 DEF Kept
      <3>3. IsFiniteSet(Kept \ {v}) /\ Cardinality(Kept \ {v}) = Cardinality(Kept) - 1
        BY <1>4, <3>1, FS_RemoveElement
      <3>4. /\ IsFiniteSet((Kept \ {v}) \cup {k})
            /\ \/ Cardinality((Kept \ {v}) \cup {k}) = Cardinality(Kept \ {v})
               \/ Cardinality((Kept \ {v}) \cup {k}) = Cardinality(Kept \ {v}) + 1
        BY <3>3, FS_AddElement
      <3>5. Cardinality((Kept \ {v}) \cup {k}) <= MaxConvs
        BY <1>4, <3>3, <3>4, AgentAssumption
      <3>6. QED
        BY <3>2, <3>4, <3>5
    <2>4. QED
      BY <2>1, <2>2, <2>3
  <1>6. PICK T : Kept' \subseteq T /\ IsFiniteSet(T) /\ Cardinality(T) <= MaxConvs
    BY <1>5
  <1>7. IsFiniteSet(Kept') /\ Cardinality(Kept') <= Cardinality(T)
    BY <1>6, FS_Subset
  <1>8. Cardinality(T) \in Nat /\ Cardinality(Kept') \in Nat
    BY <1>6, <1>7, FS_CardinalityType
  <1>9. QED
    BY <1>3, <1>6, <1>7, <1>8, AgentAssumption DEF ConvsBounded

(* A tool is over: its approval was withdrawn before, or is now.           *)
LEMMA AfterToolKeepsAsks ==
    ASSUME ITypes, AsksOwned, NEW r \in Runs, pc[r] \in InTool, AfterTool(r),
           asked' = asked, pending' \subseteq pending,
           pc[r] # "tools" => ask[r] \notin pending'
    PROVE  AsksOwned'
  <1>1. /\ pc'[r] \in {"leave", "tools", "stream", "store"}
        /\ \A q \in Runs \ {r} : pc'[q] = pc[q] /\ ask'[q] = ask[q]
        /\ ask' \in [Runs -> Asks \cup {0}]
    BY AfterToolTypes
  <1>2. ask'[r] = 0
    BY DEF AfterTool, ITypes, TypeOK
  <1>3. \A i \in pending' : \E q \in Runs : pc'[q] \in Waiting /\ ask'[q] = i
    <2>1. SUFFICES ASSUME NEW i \in pending'
                   PROVE  \E q \in Runs : pc'[q] \in Waiting /\ ask'[q] = i
      OBVIOUS
    <2>2. PICK q \in Runs : pc[q] \in Waiting /\ ask[q] = i
      BY DEF AsksOwned
    <2>3. q # r
      BY <2>1, <2>2 DEF Waiting
    <2>4. QED
      BY <1>1, <2>2, <2>3
  <1>4. \A q \in Runs : pc'[q] = "act" => ask'[q] \notin pending'
    BY <1>1 DEF AsksOwned
  <1>5. \A q \in Runs : ask'[q] <= asked'
    <2>1. asked \in Nat
      BY AgentAssumption DEF ITypes, TypeOK
    <2>2. QED
      BY <1>1, <1>2, <2>1 DEF AsksOwned
  <1>6. QED
    BY <1>3, <1>4, <1>5 DEF AsksOwned

(* Steps of a run that is not waiting, and does not come to wait.          *)
LEMMA OthersKeepAsks ==
    ASSUME AsksOwned, NEW r \in Runs, UNCHANGED <<pending, ask, asked>>,
           pc[r] \notin Waiting, pc'[r] \notin Waiting,
           \A q \in Runs \ {r} : pc'[q] = pc[q]
    PROVE  AsksOwned'
  BY DEF AsksOwned, Waiting

LEMMA QuietKeepsMemory ==
    ASSUME IMemory, ITypes', UNCHANGED <<convs, pc, ask, asked>>, pending' \subseteq pending
    PROVE  IMemory'
  <1>1. ConvsBounded'
    BY DEF IMemory, ConvsBounded, Kept
  <1>2. AsksOwned'
    BY DEF IMemory, AsksOwned
  <1>3. QED
    BY <1>1, <1>2 DEF IMemory

LEMMA MemoryInductive == IMemory /\ [Next]_vars => IMemory'
  <1> SUFFICES ASSUME IMemory, [Next]_vars PROVE IMemory'
    OBVIOUS
  <1>0. ITypes /\ ITypes' /\ ConvsBounded /\ AsksOwned
    BY TypesInductive DEF IMemory
  <1>t. /\ pc \in [Runs -> Steps] /\ convs \in [Keys -> Seq(Message)]
        /\ ask \in [Runs -> Asks \cup {0}] /\ asked \in Nat
        /\ pending \subseteq Asks /\ \A q \in Runs : ask[q] \in Int
    BY <1>0, AgentAssumption DEF ITypes, TypeOK, Asks
  <1>c. ASSUME UNCHANGED convs, AsksOwned' PROVE IMemory'
    BY <1>0, <1>c DEF IMemory, ConvsBounded, Kept
  <1>1. ASSUME NEW r \in Runs, UNCHANGED <<convs, pending, ask, asked>>,
               NEW s \in Steps \ Waiting, pc[r] \notin Waiting, Goto(r, s)
        PROVE  IMemory'
    <2>1. pc'[r] \notin Waiting /\ \A q \in Runs \ {r} : pc'[q] = pc[q]
      BY <1>t, <1>1 DEF Goto
    <2>2. AsksOwned'
      BY <1>0, <1>1, <2>1, OthersKeepAsks
    <2>3. QED
      BY <1>1, <1>c, <2>2
  <1>2. ASSUME NEW r \in Runs, NEW k \in Keys, Begin(r, k) PROVE IMemory'
    <2>1. pc[r] \notin Waiting /\ "stream" \in Steps \ Waiting
      BY <1>2 DEF Begin, At, Waiting, Steps
    <2>2. QED
      BY <1>1, <1>2, <2>1 DEF Begin
  <1>3. ASSUME NEW r \in Runs, Cancel(r) PROVE IMemory'
    BY <1>0, <1>3, QuietKeepsMemory DEF Cancel, shared, IMemory
  <1>4. ASSUME NEW r \in Runs, Talk(r) PROVE IMemory'
    <2>1. /\ pc[r] \notin Waiting /\ UNCHANGED <<convs, pending, ask, asked>>
          /\ Goto(r, "leave") \/ Goto(r, "store") \/ Goto(r, "tools")
      BY <1>4 DEF Talk, StreamFails, Answer, CallTools, At, shared, Waiting
    <2>2. {"leave", "store", "tools"} \subseteq Steps \ Waiting
      BY DEF Waiting, Steps
    <2>3. QED
      BY <1>1, <2>1, <2>2
  <1>5. ASSUME NEW r \in Runs, PlainTool(r) \/ Act(r) \/ ActFails(r) PROVE IMemory'
    <2>1. /\ pc[r] \in InTool /\ AfterTool(r) /\ UNCHANGED <<convs, pending, asked>>
          /\ pc[r] = "tools" \/ pc[r] = "act"
      BY <1>5 DEF PlainTool, Act, ActFails, At, shared, InTool, Waiting
    <2>2. pc[r] # "tools" => ask[r] \notin pending
      BY <1>0, <2>1 DEF AsksOwned
    <2>3. AsksOwned'
      BY <1>0, <2>1, <2>2, AfterToolKeepsAsks
    <2>4. QED
      BY <1>c, <2>1, <2>3
  <1>6. ASSUME NEW r \in Runs, RequestApproval(r) PROVE IMemory'
    <2>1. /\ pc[r] = "tools" /\ asked' = asked + 1 /\ ask' = [ask EXCEPT ![r] = asked + 1]
          /\ pending' = pending \cup {asked + 1} /\ pc' = [pc EXCEPT ![r] = "wait"]
          /\ convs' = convs
      BY <1>6 DEF RequestApproval, At, Goto
    <2>2. pc'[r] = "wait" /\ ask'[r] = asked + 1
          /\ \A q \in Runs \ {r} : pc'[q] = pc[q] /\ ask'[q] = ask[q]
      BY <1>t, <2>1
    <2>3. \A i \in pending' : \E q \in Runs : pc'[q] \in Waiting /\ ask'[q] = i
      <3>1. SUFFICES ASSUME NEW i \in pending, i # asked + 1
                     PROVE  \E q \in Runs : pc'[q] \in Waiting /\ ask'[q] = i
        BY <2>1, <2>2 DEF Waiting
      <3>2. PICK q \in Runs : pc[q] \in Waiting /\ ask[q] = i
        BY <1>0 DEF AsksOwned
      <3>3. q # r
        BY <2>1, <3>2 DEF Waiting
      <3>4. QED
        BY <2>2, <3>2, <3>3
    <2>4. \A q \in Runs : ask'[q] <= asked'
      BY <1>0, <1>t, <2>1, <2>2 DEF AsksOwned
    <2>5. \A q \in Runs : pc'[q] = "act" => ask'[q] \notin pending'
      <3>1. SUFFICES ASSUME NEW q \in Runs, pc'[q] = "act" PROVE ask'[q] \notin pending'
        OBVIOUS
      <3>2. q # r /\ pc[q] = "act" /\ ask'[q] = ask[q] /\ ask[q] <= asked
        BY <1>0, <2>2, <3>1 DEF AsksOwned
      <3>3. ask[q] # asked + 1
        BY <1>t, <3>2
      <3>4. QED
        BY <1>0, <2>1, <3>2, <3>3 DEF AsksOwned
    <2>6. QED
      BY <1>c, <2>1, <2>3, <2>4, <2>5 DEF AsksOwned
  <1>7. ASSUME NEW r \in Runs, Answered(r) \/ GiveUp(r) \/ Expire(r) PROVE IMemory'
    <2>1. /\ pc[r] = "wait" /\ pc' = [pc EXCEPT ![r] = "withdraw"]
          /\ UNCHANGED <<convs, pending, ask, asked>>
      BY <1>7 DEF Answered, GiveUp, Expire, Conclude, At, Goto
    <2>2. pc'[r] = "withdraw" /\ \A q \in Runs \ {r} : pc'[q] = pc[q]
      BY <1>t, <2>1
    <2>3. AsksOwned'
      BY <1>0, <2>1, <2>2 DEF AsksOwned, Waiting
    <2>4. QED
      BY <1>c, <2>1, <2>3
  <1>8. ASSUME NEW r \in Runs, Withdraw(r) PROVE IMemory'
    <2>1. /\ pc[r] = "withdraw" /\ pending' = pending \ {ask[r]}
          /\ UNCHANGED <<convs, asked>>
      BY <1>8 DEF Withdraw, At, Deleted
    <2>2. CASE AfterTool(r)
      <3>1. AsksOwned'
        <4>1. pc[r] \in InTool
          BY <2>1 DEF InTool, Waiting
        <4>2. QED
          BY <1>0, <2>1, <2>2, <4>1, AfterToolKeepsAsks
      <3>2. QED
        BY <1>c, <2>1, <3>1
    <2>3. CASE Goto(r, "act") /\ ask' = ask
      <3>1. pc'[r] = "act" /\ \A q \in Runs \ {r} : pc'[q] = pc[q]
        BY <1>t, <2>3 DEF Goto
      <3>2. AsksOwned'
        BY <1>0, <2>1, <2>3, <3>1 DEF AsksOwned, Waiting
      <3>3. QED
        BY <1>c, <2>1, <3>2
    <2>4. QED
      BY <1>8, <2>2, <2>3 DEF Withdraw
  <1>9. ASSUME NEW r \in Runs, Store(r) PROVE IMemory'
    <2>1. /\ pc[r] = "store" /\ pc' = [pc EXCEPT ![r] = "leave"]
          /\ UNCHANGED <<pending, ask, asked>>
      BY <1>9 DEF Store, At, Goto
    <2>2. pc'[r] = "leave" /\ \A q \in Runs \ {r} : pc'[q] = pc[q]
      BY <1>t, <2>1
    <2>3. AsksOwned'
      BY <1>0, <2>1, <2>2, OthersKeepAsks DEF Waiting
    <2>4. QED
      BY <1>0, <1>9, <2>3, StoreKeepsConvs DEF IMemory
  <1>10. ASSUME NEW r \in Runs, Leave(r) PROVE IMemory'
    <2>1. pc[r] \notin Waiting /\ "idle" \in Steps \ Waiting
      BY <1>10 DEF Leave, At, Waiting, Steps
    <2>2. QED
      BY <1>1, <1>10, <2>1 DEF Leave
  <1>11. ASSUME NEW c \in Clicks, Send(c) PROVE IMemory'
    BY <1>0, <1>11, QuietKeepsMemory DEF Send, runVars, IMemory
  <1>12. ASSUME NEW c \in Clicks, NEW u \in Users, NEW i \in Asks, NEW a \in Answers,
                Decide(c, u, i, a)
         PROVE IMemory'
    BY <1>0, <1>12, QuietKeepsMemory DEF Decide, Taken, runVars, IMemory
  <1>13. ASSUME NEW k \in Keys, Reset(k) PROVE IMemory'
    <2>1. convs' = [convs EXCEPT ![k] = <<>>] /\ UNCHANGED <<pc, ask, asked, pending>>
      BY <1>13 DEF Reset, runVars
    <2>2. ConvsBounded'
      BY <1>0, <1>t, <2>1, FewerConvs
    <2>3. QED
      BY <1>0, <2>1, <2>2 DEF IMemory, AsksOwned
  <1>14. ASSUME UNCHANGED vars PROVE IMemory'
    BY <1>0, <1>14, QuietKeepsMemory DEF vars, runVars, IMemory
  <1>15. QED
    BY <1>2, <1>3, <1>4, <1>5, <1>6, <1>7, <1>8, <1>9, <1>10, <1>11, <1>12, <1>13, <1>14
       DEF Next, RunStep, Consent

(* The conversations that are kept, their length, and the approvals that   *)
(* are remembered stay within their limits, however runs, clicks, time-    *)
(* outs and cancellations interleave.                                      *)
THEOREM MemoryIsBounded == Spec => []MemoryBounded
  <1>1. Init => IMemory
    <2>1. SUFFICES ASSUME Init PROVE IMemory
      OBVIOUS
    <2>2. Kept = {} /\ \A k \in Keys : convs[k] = <<>>
      BY <2>1 DEF Init, Kept
    <2>3. ConvsBounded
      BY <2>2, FS_EmptySet, EmptySeq, AgentAssumption DEF ConvsBounded
    <2>4. AsksOwned
      BY <2>1 DEF Init, AsksOwned
    <2>5. QED
      BY <2>1, <2>3, <2>4, TypesInit DEF IMemory
  <1>2. IMemory => MemoryBounded
    BY DEF IMemory, ConvsBounded, AsksOwned, MemoryBounded
  <1>3. QED
    BY <1>1, <1>2, MemoryInductive, PTL DEF Spec
-----------------------------------------------------------------------------
(* The agent keeps the promise of ApprovalGate                             *)
Numbered ==
    /\ performed \subseteq 1..asked /\ pending \subseteq 1..asked
    /\ \A r \in Runs : ask[r] <= asked
    /\ \A c \in Clicks : id[c] <= asked
    /\ \A i \in Asks : chan[i] # "empty" => i <= asked

Consents ==
    /\ \A r \in Runs :
          /\ pc[r] \in Waiting => ask[r] \notin performed
          /\ pc[r] \notin Waiting => ask[r] = 0 /\ verdict[r] = "none"
          /\ pc[r] = "wait" => verdict[r] = "none"
          /\ pc[r] = "withdraw" => verdict[r] \in Answers
          /\ pc[r] = "act" => verdict[r] = "yes"
    /\ \A r, q \in Runs : r # q /\ pc[r] \in Waiting => ask[r] # ask[q]

(* Who answers takes the approval out of the map.                          *)
AnsweredOnce == \A i \in pending : ~Said(i, "yes")

IGate == ITypes /\ Numbered /\ Consents /\ AnsweredOnce

gate == [i \in Asks |-> Standing(i)]

LEMMA StandingSame ==
    ASSUME NEW i \in Asks, asked' = asked, i \in performed' <=> i \in performed,
           Watched(i)' <=> Watched(i),
           Watched(i) => (i \in pending' <=> i \in pending),
           Watched(i) /\ i \notin pending => (Said(i, "yes")' <=> Said(i, "yes"))
    PROVE  Standing(i)' = Standing(i)
  BY DEF Standing

LEMMA GateStays ==
    ASSUME UNCHANGED <<pending, chan, asked, performed, ask, verdict, clickVars>>
    PROVE  gate' = gate
  BY DEF gate, Standing, Watched, Said, clickVars

LEMMA GateMoves ==
    ASSUME NEW j \in Asks, \A i \in Asks \ {j} : Standing(i)' = Standing(i),
           \/ Standing(j) = "unasked" /\ Standing(j)' = "asked"
           \/ Standing(j) = "asked" /\ Standing(j)' = "granted"
           \/ Standing(j) = "asked" /\ Standing(j)' = "refused"
           \/ Standing(j) = "granted" /\ Standing(j)' = "performed"
           \/ Standing(j) \in {"asked", "granted", "refused"} /\ Standing(j)' = "closed"
    PROVE  Gate!Next
  <1>1. gate' = [gate EXCEPT ![j] = Standing(j)']
    BY DEF gate
  <1>2. gate[j] = Standing(j)
    BY DEF gate
  <1>3. Gate!Ask(j) \/ Gate!Grant(j) \/ Gate!Refuse(j) \/ Gate!Perform(j) \/ Gate!Close(j)
    BY <1>1, <1>2
       DEF gate, Gate!Ask, Gate!Grant, Gate!Refuse, Gate!Perform, Gate!Close, Gate!Move
  <1>4. QED
    BY <1>3 DEF Gate!Next

(* Steps outside the tools that need consent.                              *)
LEMMA OutsideGate ==
    ASSUME IGate, ITypes',
           UNCHANGED <<pending, chan, asked, performed, ask, verdict, clickVars>>,
           pc' = pc \/ \E r \in Runs, s \in Steps \ Waiting : pc[r] \notin Waiting /\ Goto(r, s)
    PROVE  IGate' /\ gate' = gate
  <1>1. \A q \in Runs : pc'[q] = pc[q] \/ (pc[q] \notin Waiting /\ pc'[q] \notin Waiting)
    BY DEF Goto, IGate, ITypes, TypeOK
  <1>2. Consents'
    BY <1>1 DEF IGate, Consents, Waiting
  <1>3. Numbered' /\ AnsweredOnce'
    BY DEF IGate, Numbered, AnsweredOnce, Said, clickVars
  <1>4. QED
    BY <1>2, <1>3, GateStays DEF IGate

(* A tool is over: only its own approval may come to stand elsewhere.      *)
LEMMA AfterToolGate ==
    ASSUME IGate, ITypes', NEW r \in Runs, pc[r] \in InTool, AfterTool(r),
           UNCHANGED <<chan, asked, clickVars>>,
           pending' = pending \/ pending' = pending \ {ask[r]},
           performed' = performed \/ (performed' = performed \cup {ask[r]} /\ pc[r] = "act")
    PROVE  /\ IGate'
           /\ \A i \in Asks : i # ask[r] => Standing(i)' = Standing(i)
           /\ \A i \in Asks : i = ask[r] => ~Watched(i)'
  <1>1. /\ pc'[r] \notin Waiting /\ ask'[r] = 0 /\ verdict'[r] = "none"
        /\ \A q \in Runs \ {r} : pc'[q] = pc[q] /\ ask'[q] = ask[q] /\ verdict'[q] = verdict[q]
    <2>1. /\ pc'[r] \in {"leave", "tools", "stream", "store"}
          /\ \A q \in Runs \ {r} : pc'[q] = pc[q]
      BY AfterToolTypes DEF IGate
    <2>2. ask' = [ask EXCEPT ![r] = 0] /\ verdict' = [verdict EXCEPT ![r] = "none"]
      BY DEF AfterTool
    <2>3. QED
      BY <2>1, <2>2 DEF Waiting, IGate, ITypes, TypeOK
  <1>2. asked \in Nat /\ \A q \in Runs : ask[q] \in Nat
    BY AgentAssumption DEF IGate, ITypes, TypeOK, Asks
  <1>3. \A q \in Runs \ {r} : ask[q] # ask[r] \/ (ask[q] = 0 /\ ask[r] = 0)
    BY DEF IGate, Consents
  <1>4. pc[r] = "act" => ask[r] # 0
    BY DEF IGate, ITypes, TypeOK, Asks, Waiting
  <1>5. Numbered'
    <2>1. performed' \subseteq 1..asked
      <3>1. pc[r] = "act" => ask[r] \in 1..asked
        BY <1>2, <1>4 DEF IGate, Numbered
      <3>2. performed \subseteq 1..asked
        BY DEF IGate, Numbered
      <3>3. QED
        BY <3>1, <3>2
    <2>2. \A q \in Runs : ask'[q] <= asked
      BY <1>1, <1>2 DEF IGate, Numbered
    <2>3. QED
      BY <2>1, <2>2 DEF IGate, Numbered, clickVars
  <1>6. Consents'
    <2>1. ASSUME NEW q \in Runs
          PROVE /\ pc'[q] \in Waiting => ask'[q] \notin performed'
                /\ pc'[q] \notin Waiting => ask'[q] = 0 /\ verdict'[q] = "none"
                /\ pc'[q] = "wait" => verdict'[q] = "none"
                /\ pc'[q] = "withdraw" => verdict'[q] \in Answers
                /\ pc'[q] = "act" => verdict'[q] = "yes"
      <3>1. CASE q = r
        BY <1>1, <3>1 DEF Waiting
      <3>2. CASE q # r
        <4>1. pc[q] \in Waiting => ask[q] # ask[r]
          BY <3>2 DEF IGate, Consents
        <4>2. QED
          BY <1>1, <3>2, <4>1 DEF IGate, Consents
      <3>3. QED
        BY <3>1, <3>2
    <2>2. ASSUME NEW q \in Runs, NEW p \in Runs, q # p, pc'[q] \in Waiting
          PROVE  ask'[q] # ask'[p]
      <3>1. q # r /\ pc[q] \in Waiting
        BY <1>1, <2>2
      <3>2. ask[q] # 0
        BY <3>1 DEF IGate, ITypes, TypeOK, Asks
      <3>3. QED
        BY <1>1, <2>2, <3>1, <3>2 DEF IGate, Consents
    <2>3. QED
      BY <2>1, <2>2 DEF Consents
  <1>7. ASSUME NEW i \in Asks
        PROVE (\E q \in Runs : ask'[q] = i /\ verdict'[q] = "yes")
              => \E q \in Runs : ask[q] = i /\ verdict[q] = "yes"
    BY <1>1 DEF Asks
  <1>8. AnsweredOnce'
    <2>1. SUFFICES ASSUME NEW i \in pending' PROVE ~Said(i, "yes")'
      BY DEF AnsweredOnce
    <2>2. i \in pending /\ i \in Asks /\ ~Said(i, "yes")
      BY DEF IGate, AnsweredOnce, ITypes, TypeOK
    <2>3. QED
      BY <1>7, <2>2 DEF Said, clickVars
  <1>9. ASSUME NEW i \in Asks, i # ask[r] PROVE Standing(i)' = Standing(i)
    <2>1. Watched(i)' <=> Watched(i)
      BY <1>1, <1>9 DEF Watched, Asks
    <2>2. (i \in performed' <=> i \in performed) /\ (i \in pending' <=> i \in pending)
      BY <1>9
    <2>3. Said(i, "yes")' <=> Said(i, "yes")
      <3>1. (\E q \in Runs : ask'[q] = i /\ verdict'[q] = "yes")
            <=> \E q \in Runs : ask[q] = i /\ verdict[q] = "yes"
        BY <1>1, <1>9 DEF Asks
      <3>2. QED
        BY <3>1 DEF Said, clickVars
    <2>4. QED
      BY <2>1, <2>2, <2>3, StandingSame
  <1>10. ASSUME NEW i \in Asks, i = ask[r] PROVE ~Watched(i)'
    <2>1. \A q \in Runs : ask'[q] # i
      BY <1>1, <1>3, <1>10 DEF Asks
    <2>2. QED
      BY <2>1 DEF Watched
  <1>11. QED
    BY <1>5, <1>6, <1>8, <1>9, <1>10 DEF IGate

(* An approval that a run waits for is neither performed nor unasked.      *)
LEMMA WaitedFor ==
    ASSUME IGate, NEW r \in Runs, pc[r] \in Waiting, verdict[r] # "no"
    PROVE  /\ ask[r] \in Asks /\ ask[r] <= asked /\ ask[r] \notin performed
           /\ Watched(ask[r])
           /\ Standing(ask[r]) \in {"asked", "granted", "refused"}
           /\ verdict[r] = "yes" => ask[r] \notin pending /\ Standing(ask[r]) = "granted"
           /\ ask[r] \in pending => Standing(ask[r]) = "asked"
  <1>1. ask[r] \in Asks /\ ask[r] <= asked /\ ask[r] \notin performed
    BY DEF IGate, ITypes, TypeOK, Numbered, Consents
  <1>2. Watched(ask[r])
    BY DEF Watched, IGate, ITypes, TypeOK, Answers
  <1>3. ask[r] \in Int /\ asked \in Int
    BY <1>1, AgentAssumption DEF Asks, IGate, ITypes, TypeOK
  <1>4. ~(ask[r] > asked)
    BY <1>1, <1>3
  <1>5. verdict[r] = "yes" => ask[r] \notin pending /\ Said(ask[r], "yes")
    BY DEF IGate, AnsweredOnce, Said
  <1>6. QED
    BY <1>1, <1>2, <1>4, <1>5 DEF Standing

LEMMA ConcludeKeepsGate ==
    ASSUME IGate, ITypes', NEW r \in Runs, NEW v \in Answers, Conclude(r, v),
           \/ v = "no" /\ chan' = chan
           \/ v = chan[ask[r]] /\ chan' = [chan EXCEPT ![ask[r]] = "empty"]
    PROVE  IGate' /\ (Gate!Next \/ gate' = gate)
  <1>1. /\ pc[r] = "wait" /\ pc'[r] = "withdraw" /\ verdict[r] = "none" /\ verdict'[r] = v
        /\ \A q \in Runs \ {r} : pc'[q] = pc[q] /\ verdict'[q] = verdict[q]
        /\ UNCHANGED <<pending, asked, performed, ask, clickVars>>
    BY DEF Conclude, At, Goto, IGate, ITypes, TypeOK, Consents
  <1>5. PICK j \in Asks : j = ask[r]
    BY <1>1, WaitedFor DEF Waiting
  <1>2. /\ j \in Asks /\ j <= asked /\ j \notin performed /\ Watched(j)
        /\ Standing(j) \in {"asked", "granted", "refused"}
    BY <1>1, <1>5, WaitedFor DEF Waiting
  <1>3. \A q \in Runs \ {r} : ask[q] # j
    BY <1>1, <1>5 DEF IGate, Consents, Waiting
  <1>4. /\ chan \in [Asks -> Answers \cup {"empty"}]
        /\ \A i \in Asks \ {j} : chan'[i] = chan[i]
        /\ v = "yes" => chan[j] = "yes"
        /\ chan'[j] = "yes" => chan[j] = "yes"
    BY <1>5 DEF IGate, ITypes, TypeOK
  <1>6. ASSUME NEW i \in Asks
        PROVE  /\ Said(i, "yes")' => Said(i, "yes")
               /\ i # j => (Said(i, "yes")' <=> Said(i, "yes"))
               /\ i # j => (Watched(i)' <=> Watched(i))
    <2>1. CASE i = j
      BY <1>1, <1>3, <1>4, <1>5, <2>1 DEF Said, clickVars
    <2>2. CASE i # j
      BY <1>1, <1>4, <1>5, <2>2 DEF Said, Watched, clickVars
    <2>3. QED
      BY <2>1, <2>2
  <1>7. IGate'
    <2>1. Numbered'
      BY <1>1, <1>2, <1>4, <1>5 DEF IGate, Numbered, clickVars
    <2>2. Consents'
      BY <1>1 DEF IGate, Consents, Waiting
    <2>3. AnsweredOnce'
      BY <1>1, <1>6 DEF IGate, AnsweredOnce, ITypes, TypeOK
    <2>4. QED
      BY <2>1, <2>2, <2>3 DEF IGate
  <1>8. \A i \in Asks \ {j} : Standing(i)' = Standing(i)
    BY <1>1, <1>6, StandingSame
  <1>9. CASE v = "no"
    <2>1. ~Watched(j)'
      BY <1>1, <1>3, <1>5, <1>9 DEF Watched
    <2>2. Standing(j)' = "closed"
      <3>1. ~(j > asked)
        BY <1>2, AgentAssumption DEF Asks, IGate, ITypes, TypeOK
      <3>2. QED
        BY <1>1, <1>2, <2>1, <3>1 DEF Standing
    <2>3. QED
      BY <1>2, <1>7, <1>8, <2>2, GateMoves
  <1>10. CASE v = "yes"
    <2>1. Said(j, "yes") /\ Said(j, "yes")'
      BY <1>1, <1>4, <1>5, <1>10 DEF Said
    <2>2. Watched(j)'
      BY <1>1, <1>5, <1>10 DEF Watched
    <2>3. Standing(j)' = Standing(j)
      BY <1>1, <1>2, <2>1, <2>2, StandingSame
    <2>4. QED
      BY <1>7, <1>8, <2>3 DEF gate
  <1>11. QED
    BY <1>9, <1>10 DEF Answers

LEMMA RequestKeepsGate ==
    ASSUME IGate, ITypes', NEW r \in Runs, RequestApproval(r)
    PROVE  IGate' /\ Gate!Next
  <1>1. PICK j \in Asks : j = asked + 1
    BY AgentAssumption DEF RequestApproval, Asks, IGate, ITypes, TypeOK
  <1>2. /\ pc[r] = "tools" /\ asked' = j /\ pending' = pending \cup {j}
        /\ pc'[r] = "wait" /\ ask'[r] = j /\ verdict[r] = "none" /\ ask[r] = 0
        /\ \A q \in Runs \ {r} : pc'[q] = pc[q] /\ ask'[q] = ask[q]
        /\ UNCHANGED <<chan, performed, verdict, clickVars>>
    <2>1. /\ pc[r] = "tools" /\ asked' = j /\ pending' = pending \cup {j}
          /\ pc' = [pc EXCEPT ![r] = "wait"] /\ ask' = [ask EXCEPT ![r] = j]
          /\ UNCHANGED <<chan, performed, verdict, clickVars>>
      BY <1>1 DEF RequestApproval, At, Goto
    <2>2. verdict[r] = "none" /\ ask[r] = 0
      BY <2>1 DEF IGate, Consents, Waiting
    <2>3. pc \in [Runs -> Steps] /\ ask \in [Runs -> Asks \cup {0}]
      BY DEF IGate, ITypes, TypeOK
    <2>4. QED
      BY <2>1, <2>2, <2>3
  <1>3. /\ asked \in Nat /\ j \in Nat /\ j = asked + 1 /\ Asks \subseteq Nat \ {0}
        /\ \A q \in Runs : ask[q] \in Nat /\ ask[q] <= asked
        /\ \A c \in Clicks : id[c] \in Nat /\ id[c] <= asked
    BY <1>1, AgentAssumption DEF Asks, IGate, ITypes, TypeOK, Numbered
  <1>4. /\ \A q \in Runs : ask[q] # j
        /\ \A c \in Clicks : id[c] # j
        /\ j \notin performed /\ chan[j] = "empty"
    BY <1>3 DEF IGate, Numbered
  <1>5. ~Said(j, "yes")'
    BY <1>2, <1>4 DEF Said, clickVars
  <1>6. \A i \in Asks \ {j} :
           (Said(i, "yes")' <=> Said(i, "yes")) /\ (Watched(i)' <=> Watched(i))
    BY <1>2, <1>3 DEF Said, Watched, clickVars
  <1>7. Numbered'
    BY <1>2, <1>3 DEF IGate, Numbered, clickVars
  <1>8. Consents'
    <2>1. ASSUME NEW q \in Runs
          PROVE /\ pc'[q] \in Waiting => ask'[q] \notin performed'
                /\ pc'[q] \notin Waiting => ask'[q] = 0 /\ verdict'[q] = "none"
                /\ pc'[q] = "wait" => verdict'[q] = "none"
                /\ pc'[q] = "withdraw" => verdict'[q] \in Answers
                /\ pc'[q] = "act" => verdict'[q] = "yes"
      <3>1. CASE q = r
        BY <1>2, <1>4, <3>1 DEF Waiting
      <3>2. CASE q # r
        BY <1>2, <3>2 DEF IGate, Consents
      <3>3. QED
        BY <3>1, <3>2
    <2>2. ASSUME NEW q \in Runs, NEW p \in Runs, q # p, pc'[q] \in Waiting
          PROVE  ask'[q] # ask'[p]
      <3>1. CASE q = r \/ p = r
        BY <1>2, <1>4, <2>2, <3>1
      <3>2. CASE q # r /\ p # r
        BY <1>2, <2>2, <3>2 DEF IGate, Consents
      <3>3. QED
        BY <3>1, <3>2
    <2>3. QED
      BY <2>1, <2>2 DEF Consents
  <1>9. AnsweredOnce'
    BY <1>2, <1>5, <1>6 DEF IGate, AnsweredOnce, ITypes, TypeOK
  <1>10. Standing(j) = "unasked"
    BY <1>3 DEF Standing
  <1>11. Standing(j)' = "asked"
    <2>1. Watched(j)'
      BY <1>2 DEF Watched
    <2>2. ~(j > asked') /\ j \notin performed' /\ j \in pending'
      BY <1>2, <1>3, <1>4
    <2>3. QED
      BY <2>1, <2>2 DEF Standing
  <1>12. \A i \in Asks \ {j} : Standing(i)' = Standing(i)
    <2>1. ASSUME NEW i \in Asks \ {j} PROVE Standing(i)' = Standing(i)
      <3>1. (i > asked' <=> i > asked) /\ (i \in performed' <=> i \in performed)
            /\ (i \in pending' <=> i \in pending)
        BY <1>2, <1>3
      <3>2. QED
        BY <1>6, <3>1 DEF Standing
    <2>2. QED
      BY <2>1
  <1>13. Gate!Next
    BY <1>10, <1>11, <1>12, GateMoves
  <1>14. QED
    BY <1>7, <1>8, <1>9, <1>13 DEF IGate

LEMMA WithdrawKeepsGate ==
    ASSUME IGate, ITypes', NEW r \in Runs, Withdraw(r)
    PROVE  IGate' /\ gate' = gate
  <1>1. PICK j \in Asks : j = ask[r]
    BY DEF Withdraw, At, IGate, ITypes, TypeOK, Waiting
  <1>2. /\ pc[r] = "withdraw" /\ pc[r] \in Waiting /\ pc[r] \in InTool
        /\ pending' = pending \ {j} /\ UNCHANGED <<chan, asked, performed, clickVars>>
        /\ j \notin performed
    BY <1>1 DEF Withdraw, At, Deleted, Waiting, InTool, IGate, Consents
  <1>3. CASE verdict[r] = "yes" /\ Goto(r, "act") /\ UNCHANGED <<ask, verdict>>
    <2>1. j \notin pending
      BY <1>1, <1>3 DEF IGate, AnsweredOnce, Said
    <2>2. pending' = pending
      BY <1>2, <2>1
    <2>3. pc'[r] = "act" /\ \A q \in Runs \ {r} : pc'[q] = pc[q]
      BY <1>3 DEF Goto, IGate, ITypes, TypeOK
    <2>4. Consents'
      BY <1>2, <1>3, <2>3 DEF IGate, Consents, Waiting
    <2>5. Numbered' /\ AnsweredOnce'
      BY <1>2, <1>3, <2>2 DEF IGate, Numbered, AnsweredOnce, Said, clickVars
    <2>6. QED
      BY <1>2, <1>3, <2>2, <2>4, <2>5, GateStays DEF IGate
  <1>4. CASE verdict[r] = "no" /\ AfterTool(r)
    <2>1. IGate' /\ (\A i \in Asks : i # j => Standing(i)' = Standing(i)) /\ ~Watched(j)'
      BY <1>1, <1>2, <1>4, AfterToolGate
    <2>2. ~Watched(j)
      <3>1. \A q \in Runs \ {r} : ask[q] # j
        BY <1>1, <1>2 DEF IGate, Consents
      <3>2. QED
        BY <1>4, <3>1 DEF Watched
    <2>3. Standing(j)' = Standing(j)
      BY <1>2, <2>1, <2>2, StandingSame
    <2>4. QED
      BY <2>1, <2>3 DEF gate
  <1>5. QED
    BY <1>3, <1>4 DEF Withdraw

LEMMA ActKeepsGate ==
    ASSUME IGate, ITypes', NEW r \in Runs, Act(r) \/ ActFails(r)
    PROVE  IGate' /\ Gate!Next
  <1>1. PICK j \in Asks : j = ask[r]
    BY DEF Act, ActFails, At, IGate, ITypes, TypeOK, Waiting
  <1>2. /\ pc[r] = "act" /\ pc[r] \in Waiting /\ pc[r] \in InTool /\ AfterTool(r)
        /\ UNCHANGED <<pending, chan, asked, clickVars>>
        /\ performed' = performed \/ performed' = performed \cup {j}
        /\ verdict[r] = "yes"
    BY <1>1 DEF Act, ActFails, At, shared, Waiting, InTool, IGate, Consents
  <1>3. /\ j <= asked /\ j \notin performed /\ Standing(j) = "granted"
    BY <1>1, <1>2, WaitedFor
  <1>4. IGate' /\ (\A i \in Asks : i # j => Standing(i)' = Standing(i)) /\ ~Watched(j)'
    BY <1>1, <1>2, AfterToolGate
  <1>5. ~(j > asked')
    BY <1>2, <1>3, AgentAssumption DEF Asks, IGate, ITypes, TypeOK
  <1>6. Standing(j)' = "performed" \/ Standing(j)' = "closed"
    BY <1>4, <1>5 DEF Standing
  <1>7. Gate!Next
    BY <1>3, <1>4, <1>6, GateMoves
  <1>8. QED
    BY <1>4, <1>7

LEMMA DecideKeepsGate ==
    ASSUME IGate, ITypes', NEW c \in Clicks, NEW u \in Users, NEW j \in Asks,
           NEW a \in Answers, Decide(c, u, j, a)
    PROVE  IGate' /\ (Gate!Next \/ gate' = gate)
  <1>1. /\ click[c] = "idle" /\ click'[c] = "send" /\ id'[c] = j /\ reply'[c] = a
        /\ j \in pending /\ pending' = pending \ {j}
        /\ \A d \in Clicks \ {c} : click'[d] = click[d] /\ id'[d] = id[d] /\ reply'[d] = reply[d]
        /\ UNCHANGED <<chan, asked, performed, pc, ask, verdict>>
    BY DEF Decide, Taken, runVars, IGate, ITypes, TypeOK
  <1>2. \A i \in Asks : Watched(i)' <=> Watched(i)
    BY <1>1 DEF Watched
  <1>3. \A i \in Asks \ {j} : Said(i, "yes")' <=> Said(i, "yes")
    BY <1>1 DEF Said
  <1>4. ~Said(j, "yes") /\ (Said(j, "yes")' <=> a = "yes")
    <2>1. ~Said(j, "yes")
      BY <1>1 DEF IGate, AnsweredOnce
    <2>2. QED
      BY <1>1, <2>1 DEF Said
  <1>5. Numbered'
    BY <1>1 DEF IGate, Numbered
  <1>6. Consents'
    BY <1>1 DEF IGate, Consents
  <1>7. AnsweredOnce'
    BY <1>1, <1>3 DEF IGate, AnsweredOnce, ITypes, TypeOK
  <1>8. \A i \in Asks \ {j} : Standing(i)' = Standing(i)
    BY <1>1, <1>2, <1>3, StandingSame
  <1>9. CASE ~Watched(j)
    <2>1. Standing(j)' = Standing(j)
      BY <1>1, <1>2, <1>9, StandingSame
    <2>2. QED
      BY <1>5, <1>6, <1>7, <1>8, <2>1 DEF IGate, gate
  <1>10. CASE Watched(j)
    <2>1. PICK r \in Runs : ask[r] = j /\ verdict[r] # "no"
      BY <1>10 DEF Watched
    <2>2. pc[r] \in Waiting
      <3>1. ask[r] # 0
        BY <2>1 DEF Asks
      <3>2. QED
        BY <3>1 DEF IGate, Consents
    <2>3. j <= asked /\ j \notin performed /\ Standing(j) = "asked"
      BY <1>1, <2>1, <2>2, WaitedFor
    <2>4. ~(j > asked') /\ j \notin performed' /\ Watched(j)' /\ j \notin pending'
      BY <1>1, <1>2, <1>10, <2>3, AgentAssumption DEF Asks, IGate, ITypes, TypeOK
    <2>5. Standing(j)' = "granted" \/ Standing(j)' = "refused"
      BY <2>4 DEF Standing
    <2>6. Gate!Next
      BY <1>8, <2>3, <2>5, GateMoves
    <2>7. QED
      BY <1>5, <1>6, <1>7, <2>6 DEF IGate
  <1>11. QED
    BY <1>9, <1>10

LEMMA SendKeepsGate ==
    ASSUME IGate, ITypes', NEW c \in Clicks, Send(c)
    PROVE  IGate' /\ gate' = gate
  <1>1. PICK j \in Asks : j = id[c]
    BY DEF Send, IGate, ITypes, TypeOK
  <1>2. /\ click[c] = "send" /\ click'[c] = "idle" /\ id'[c] = 0
        /\ chan[j] = "empty" /\ chan'[j] = reply[c]
        /\ \A i \in Asks \ {j} : chan'[i] = chan[i]
        /\ \A d \in Clicks \ {c} : click'[d] = click[d] /\ id'[d] = id[d] /\ reply'[d] = reply[d]
        /\ UNCHANGED <<pending, asked, performed, pc, ask, verdict>>
    BY <1>1 DEF Send, Ready, runVars, IGate, ITypes, TypeOK
  <1>3. \A i \in Asks : Watched(i)' <=> Watched(i)
    BY <1>2 DEF Watched
  <1>4. \A i \in Asks \ {j} : Said(i, "yes")' <=> Said(i, "yes")
    BY <1>1, <1>2 DEF Said
  <1>5. Said(j, "yes")' <=> Said(j, "yes")
    <2>1. CASE reply[c] = "yes"
      BY <1>1, <1>2, <2>1 DEF Said
    <2>2. CASE reply[c] # "yes"
      BY <1>1, <1>2, <2>2 DEF Said
    <2>3. QED
      BY <2>1, <2>2
  <1>6. Numbered'
    <2>1. asked \in Nat /\ j <= asked
      BY <1>1, AgentAssumption DEF IGate, ITypes, TypeOK, Numbered
    <2>2. QED
      BY <1>2, <2>1 DEF IGate, Numbered
  <1>7. Consents'
    BY <1>2 DEF IGate, Consents
  <1>8. AnsweredOnce'
    BY <1>2, <1>4, <1>5 DEF IGate, AnsweredOnce, ITypes, TypeOK
  <1>9. \A i \in Asks : Standing(i)' = Standing(i)
    BY <1>2, <1>3, <1>4, <1>5, StandingSame
  <1>10. QED
    BY <1>6, <1>7, <1>8, <1>9 DEF IGate, gate

LEMMA GateInductive == IGate /\ [Next]_vars => IGate' /\ (Gate!Next \/ gate' = gate)
  <1> SUFFICES ASSUME IGate, [Next]_vars PROVE IGate' /\ (Gate!Next \/ gate' = gate)
    OBVIOUS
  <1>0. ITypes'
    BY TypesInductive DEF IGate
  <1>1. ASSUME NEW r \in Runs,
               \/ Cancel(r) \/ Talk(r) \/ Store(r) \/ Leave(r)
               \/ \E k \in Keys : Begin(r, k)
        PROVE  IGate' /\ gate' = gate
    <2>1. UNCHANGED <<pending, chan, asked, performed, ask, verdict, clickVars>>
      BY <1>1 DEF Cancel, Talk, StreamFails, Answer, CallTools, Store, Leave, Begin, shared
    <2>2. pc' = pc \/ (pc[r] \notin Waiting
                      /\ \E s \in {"stream", "tools", "store", "leave", "idle"} : Goto(r, s))
      BY <1>1 DEF Cancel, Talk, StreamFails, Answer, CallTools, Store, Leave, Begin, At, Waiting
    <2>3. {"stream", "tools", "store", "leave", "idle"} \subseteq Steps \ Waiting
      BY DEF Steps, Waiting
    <2>4. QED
      BY <1>0, <2>1, <2>2, <2>3, OutsideGate
  <1>2. ASSUME NEW r \in Runs, PlainTool(r) PROVE IGate' /\ gate' = gate
    <2>1. /\ pc[r] \in InTool /\ AfterTool(r)
          /\ UNCHANGED <<pending, performed, chan, asked, clickVars>>
      BY <1>2 DEF PlainTool, At, shared, InTool
    <2>2. ask[r] \notin Asks
      BY <1>2 DEF PlainTool, At, Waiting, IGate, Consents, Asks
    <2>3. IGate' /\ \A i \in Asks : i # ask[r] => Standing(i)' = Standing(i)
      BY <1>0, <2>1, AfterToolGate
    <2>4. QED
      BY <2>2, <2>3 DEF gate
  <1>3. ASSUME NEW r \in Runs, Answered(r) \/ GiveUp(r) \/ Expire(r)
        PROVE  IGate' /\ (Gate!Next \/ gate' = gate)
    <2>1. CASE Answered(r)
      <3>1. /\ chan[ask[r]] \in Answers /\ Conclude(r, chan[ask[r]])
            /\ chan' = [chan EXCEPT ![ask[r]] = "empty"]
        BY <2>1 DEF Answered, At, Waiting, IGate, ITypes, TypeOK
      <3>2. QED
        BY <1>0, <3>1, ConcludeKeepsGate
    <2>2. CASE GiveUp(r) \/ Expire(r)
      <3>1. "no" \in Answers /\ Conclude(r, "no") /\ chan' = chan
        BY <2>2 DEF GiveUp, Expire, Expired, Answers
      <3>2. QED
        BY <1>0, <3>1, ConcludeKeepsGate
    <2>3. QED
      BY <1>3, <2>1, <2>2
  <1>4. ASSUME NEW k \in Keys, Reset(k) PROVE IGate' /\ gate' = gate
    BY <1>0, <1>4, OutsideGate DEF Reset, runVars
  <1>5. ASSUME UNCHANGED vars PROVE IGate' /\ gate' = gate
    BY <1>0, <1>5, OutsideGate DEF vars, runVars
  <1>6. QED
    BY <1>0, <1>1, <1>2, <1>3, <1>4, <1>5, RequestKeepsGate, WithdrawKeepsGate, ActKeepsGate,
       DecideKeepsGate, SendKeepsGate
       DEF Next, RunStep, Consent

(* Every behavior of the agent is one of ApprovalGate: an approval that    *)
(* expired or was refused is never acted on, and none is acted on twice.   *)
THEOREM ImplementsGate == Spec => GateKept
  <1>1. Init => IGate /\ Gate!Init
    <2>1. SUFFICES ASSUME Init PROVE IGate /\ Gate!Init
      OBVIOUS
    <2>2. Numbered /\ Consents /\ AnsweredOnce
      BY <2>1 DEF Init, Numbered, Consents, AnsweredOnce, Waiting, Asks
    <2>3. \A i \in Asks : Standing(i) = "unasked"
      BY <2>1, AgentAssumption DEF Init, Standing, Asks
    <2>4. QED
      BY <2>1, <2>2, <2>3, TypesInit DEF IGate, Gate!Init
  <1>2. IGate /\ [Next]_vars => [Gate!Next]_gate
    BY GateInductive
  <1>3. QED
    BY <1>1, <1>2, GateInductive, PTL DEF Spec, GateKept, Gate!Spec, gate
-----------------------------------------------------------------------------
(* What is sent to the model can be replayed                               *)

(* A history whose last calls have n results still to come.                *)
Owing(s, n) ==
    /\ \A i \in 1..Len(s) : i + s[i].calls <= Len(s) + n
    /\ \A i \in 1..Len(s) : \A j \in 1..Len(s) :
          i < j /\ j <= i + s[i].calls => s[j].role = "tool"
    /\ \A i \in 1..Len(s) :
          s[i].role = "tool" => \E j \in 1..(i - 1) : j + s[j].calls >= i
    /\ n > 0 => \E j \in 1..Len(s) : j + s[j].calls >= Len(s) + n

LEMMA CallsAreCounted ==
    ASSUME NEW s \in Seq(Message)
    PROVE  Len(s) \in Nat /\ \A i \in 1..Len(s) : s[i] \in Message /\ s[i].calls \in Nat
  <1>1. Len(s) \in Nat /\ \A i \in 1..Len(s) : s[i] \in Message
    BY LenProperties, ElementOfSeq
  <1>2. QED
    BY <1>1 DEF Message

LEMMA NothingOwing ==
    ASSUME NEW s \in Seq(Message), Owing(s, 0)
    PROVE  Replayable(s)
  <1>1. Len(s) \in Nat /\ \A i \in 1..Len(s) : s[i].calls \in Nat
    BY CallsAreCounted
  <1>2. QED
    BY <1>1 DEF Owing, Replayable

LEMMA EmptyOwing == Owing(<<>>, 0)
  <1>1. Len(<<>>) = 0
    OBVIOUS
  <1>2. QED
    BY <1>1 DEF Owing

LEMMA AppendedIs ==
    ASSUME NEW s \in Seq(Message), NEW m \in Message
    PROVE  /\ Append(s, m) \in Seq(Message) /\ Len(Append(s, m)) = Len(s) + 1
           /\ \A i \in 1..Len(s) : Append(s, m)[i] = s[i]
           /\ Append(s, m)[Len(s) + 1] = m
  BY AppendProperties

(* A result pays one of those that are owing ...                           *)
LEMMA ResultPays ==
    ASSUME NEW s \in Seq(Message), NEW n \in Nat \ {0}, Owing(s, n)
    PROVE  Owing(Append(s, ToolMsg), n - 1)
  <1> DEFINE t == Append(s, ToolMsg)
  <1>1. /\ Len(s) \in Nat /\ \A i \in 1..Len(s) : s[i].calls \in Nat
        /\ Len(t) = Len(s) + 1 /\ \A i \in 1..Len(s) : t[i] = s[i]
        /\ t[Len(s) + 1].calls = 0 /\ t[Len(s) + 1].role = "tool"
    BY Messages, CallsAreCounted, AppendedIs DEF ToolMsg
  <1> HIDE DEF t
  <1>2. \A i \in 1..Len(t) : i \in 1..Len(s) \/ i = Len(s) + 1
    BY <1>1
  <1>3. \A i \in 1..Len(t) : i + t[i].calls <= Len(t) + (n - 1)
    <2>1. ASSUME NEW i \in 1..Len(s) PROVE i + t[i].calls <= Len(t) + (n - 1)
      <3>1. i + s[i].calls <= Len(s) + n
        BY DEF Owing
      <3>2. QED
        BY <1>1, <3>1
    <2>2. QED
      BY <1>1, <1>2, <2>1
  <1>4. ASSUME NEW i \in 1..Len(t), NEW j \in 1..Len(t), i < j, j <= i + t[i].calls
        PROVE  t[j].role = "tool"
    <2>1. CASE j \in 1..Len(s)
      <3>1. i \in 1..Len(s)
        BY <1>1, <1>4, <2>1
      <3>2. QED
        BY <1>1, <1>4, <2>1, <3>1 DEF Owing
    <2>2. QED
      BY <1>1, <1>2, <2>1
  <1>5. PICK c \in 1..Len(s) : c + s[c].calls >= Len(s) + n
    BY DEF Owing
  <1>6. c \in 1..Len(t) /\ c + t[c].calls >= Len(t) + (n - 1)
    BY <1>1, <1>5
  <1>7. ASSUME NEW i \in 1..Len(t), t[i].role = "tool"
        PROVE  \E j \in 1..(i - 1) : j + t[j].calls >= i
    <2>1. CASE i \in 1..Len(s)
      <3>1. PICK j \in 1..(i - 1) : j + s[j].calls >= i
        BY <1>1, <1>7, <2>1 DEF Owing
      <3>2. j \in 1..Len(s)
        BY <1>1, <2>1
      <3>3. QED
        BY <1>1, <3>1, <3>2
    <2>2. CASE i = Len(s) + 1
      BY <1>1, <1>5, <2>2
    <2>3. QED
      BY <1>2, <2>1, <2>2
  <1>8. Owing(t, n - 1)
    BY <1>3, <1>4, <1>6, <1>7 DEF Owing
  <1>9. QED
    BY <1>8 DEF t

(* ... and other messages come only when nothing is.                       *)
LEMMA OthersFollow ==
    ASSUME NEW s \in Seq(Message), Owing(s, 0), NEW m \in Message, m.role # "tool"
    PROVE  Owing(Append(s, m), m.calls)
  <1> DEFINE t == Append(s, m)
  <1>1. /\ Len(s) \in Nat /\ (\A i \in 1..Len(s) : s[i].calls \in Nat) /\ m.calls \in Nat
        /\ Len(t) = Len(s) + 1 /\ \A i \in 1..Len(s) : t[i] = s[i]
        /\ t[Len(s) + 1] = m
    BY CallsAreCounted, AppendedIs DEF Message
  <1> HIDE DEF t
  <1>2. \A i \in 1..Len(t) : i \in 1..Len(s) \/ i = Len(s) + 1
    BY <1>1
  <1>3. \A i \in 1..Len(t) : i + t[i].calls <= Len(t) + m.calls
    <2>1. ASSUME NEW i \in 1..Len(s) PROVE i + t[i].calls <= Len(t) + m.calls
      <3>1. i + s[i].calls <= Len(s) + 0
        BY DEF Owing
      <3>2. QED
        BY <1>1, <3>1
    <2>2. QED
      BY <1>1, <1>2, <2>1
  <1>4. ASSUME NEW i \in 1..Len(t), NEW j \in 1..Len(t), i < j, j <= i + t[i].calls
        PROVE  t[j].role = "tool"
    <2>1. i \in 1..Len(s)
      BY <1>1, <1>2, <1>4
    <2>2. i + s[i].calls <= Len(s) + 0
      BY <2>1 DEF Owing
    <2>3. j \in 1..Len(s)
      BY <1>1, <1>4, <2>1, <2>2
    <2>4. QED
      BY <1>1, <1>4, <2>1, <2>3 DEF Owing
  <1>5. ASSUME NEW i \in 1..Len(t), t[i].role = "tool"
        PROVE  \E j \in 1..(i - 1) : j + t[j].calls >= i
    <2>1. i \in 1..Len(s)
      BY <1>1, <1>2, <1>5
    <2>2. PICK j \in 1..(i - 1) : j + s[j].calls >= i
      BY <1>1, <1>5, <2>1 DEF Owing
    <2>3. j \in 1..Len(s)
      BY <1>1, <2>1
    <2>4. QED
      BY <1>1, <2>2, <2>3
  <1>6. Len(s) + 1 \in 1..Len(t) /\ (Len(s) + 1) + t[Len(s) + 1].calls >= Len(t) + m.calls
    BY <1>1
  <1>7. Owing(t, m.calls)
    BY <1>3, <1>4, <1>5, <1>6 DEF Owing
  <1>8. QED
    BY <1>7 DEF t

(* What is left of a history after any message that is no result           *)
Ends(t, s, k) ==
    /\ Len(t) = Len(s) - k + 1
    /\ \A j \in 1..Len(t) : t[j] = s[j + k - 1]
    /\ t # <<>> => t[1].role # "tool"

LEMMA EndOwing ==
    ASSUME NEW s \in Seq(Message), Owing(s, 0), NEW t \in Seq(Message),
           NEW k \in 1..(Len(s) + 1), Ends(t, s, k)
    PROVE  Owing(t, 0)
  <1>1. /\ Len(s) \in Nat /\ (\A i \in 1..Len(s) : s[i].calls \in Nat)
        /\ Len(t) \in Nat
    BY CallsAreCounted
  <1>2. Len(t) = Len(s) - k + 1 /\ \A j \in 1..Len(t) : t[j] = s[j + k - 1]
    BY DEF Ends
  <1>3. \A j \in 1..Len(t) : j + k - 1 \in 1..Len(s)
    BY <1>1, <1>2
  <1>4. \A i \in 1..Len(t) : i + t[i].calls <= Len(t) + 0
    <2>1. TAKE i \in 1..Len(t)
    <2>2. (i + k - 1) + s[i + k - 1].calls <= Len(s) + 0
      BY <1>3 DEF Owing
    <2>3. QED
      BY <1>1, <1>2, <1>3, <2>2
  <1>5. ASSUME NEW i \in 1..Len(t), NEW j \in 1..Len(t), i < j, j <= i + t[i].calls
        PROVE  t[j].role = "tool"
    <2>1. /\ i + k - 1 < j + k - 1
          /\ j + k - 1 <= (i + k - 1) + s[i + k - 1].calls
      BY <1>1, <1>2, <1>3, <1>5
    <2>2. QED
      BY <1>2, <1>3, <2>1 DEF Owing
  <1>6. ASSUME NEW i \in 1..Len(t), t[i].role = "tool"
        PROVE  \E j \in 1..(i - 1) : j + t[j].calls >= i
    <2>0. i + k - 1 \in 1..Len(s) /\ s[i + k - 1].role = "tool"
      BY <1>2, <1>3, <1>6
    <2>1. PICK j \in 1..((i + k - 1) - 1) : j + s[j].calls >= i + k - 1
      BY <2>0 DEF Owing
    <2>2. j \in 1..Len(s)
      BY <1>1, <1>3, <2>1
    <2>3. CASE j >= k
      <3>1. j - k + 1 \in 1..(i - 1) /\ j - k + 1 \in 1..Len(t)
        BY <1>1, <1>2, <2>1, <2>3
      <3>2. t[j - k + 1] = s[j]
        BY <1>1, <1>2, <2>2, <3>1
      <3>3. (j - k + 1) + s[j].calls >= i
        BY <1>1, <2>1, <2>2, <3>1
      <3>4. QED
        BY <3>1, <3>2, <3>3
    <2>4. CASE j < k
      <3>1. k \in 1..Len(s) /\ k <= j + s[j].calls
        BY <1>1, <1>2, <2>1, <2>2
      <3>2. s[k].role = "tool"
        BY <2>2, <2>4, <3>1 DEF Owing
      <3>3. 1 \in 1..Len(t) /\ t[1] = s[k]
        BY <1>1, <1>2, <3>1
      <3>4. t # <<>>
        BY <3>3
      <3>5. QED
        BY <3>2, <3>3, <3>4 DEF Ends
    <2>5. j >= k \/ j < k
      BY <1>1, <2>2
    <2>6. QED
      BY <2>3, <2>4, <2>5
  <1>7. QED
    BY <1>4, <1>5, <1>6 DEF Owing

LEMMA FromEnds ==
    ASSUME NEW s \in Seq(Message), NEW k \in 1..(Len(s) + 1)
    PROVE  /\ From(s, k) \in Seq(Message) /\ Len(From(s, k)) = Len(s) - k + 1
           /\ \A j \in 1..Len(From(s, k)) : From(s, k)[j] = s[j + k - 1]
  <1>1. Len(s) \in Nat /\ \A j \in k..Len(s) : s[j] \in Message
    BY LenProperties
  <1>2. \A j \in 1..(Len(s) - k + 1) : SubSeq(s, k, Len(s))[j] = s[k + j - 1]
    <2>1. k \in Int /\ Len(s) \in Int
      BY <1>1
    <2>2. QED
      BY <1>1, <2>1, SubSeqProperties
  <1>3. From(s, k) \in Seq(Message) /\ Len(From(s, k)) = Len(s) - k + 1
    BY FromIsHistory
  <1>4. ASSUME NEW j \in 1..(Len(s) - k + 1) PROVE From(s, k)[j] = s[j + k - 1]
    <2>1. k + j - 1 = j + k - 1
      BY <1>1
    <2>2. QED
      BY <1>2, <2>1 DEF From
  <1>5. QED
    BY <1>3, <1>4

(* StripTools goes on from the first message that is no result.            *)
LEMMA StrippedEnds ==
    ASSUME NEW s \in Seq(Message)
    PROVE  \E k \in 1..(Len(s) + 1) :
              StripTools(s) = From(s, k) /\ (k <= Len(s) => s[k].role # "tool")
  <1> DEFINE other == {i \in 1..(Len(s) + 1) : i <= Len(s) => s[i].role # "tool"}
             lead == {i \in 1..Len(s) : \A j \in 1..i : s[j].role = "tool"}
  <1>1. Len(s) \in Nat
    BY LenProperties
  <1>2. other \subseteq Nat /\ other # {}
    <2>1. Len(s) + 1 \in other
      BY <1>1
    <2>2. QED
      BY <1>1, <2>1
  <1>3. PICK k \in other : \A i \in other : ~(<<i, k>> \in OpToRel(<, Nat))
    <2> HIDE DEF other
    <2>1. QED
      BY <1>2, NatLessThanWellFounded, WFMin
  <1>4. \A i \in other : ~(i < k)
    BY <1>2, <1>3 DEF OpToRel
  <1>5. k \in 1..(Len(s) + 1) /\ (k <= Len(s) => s[k].role # "tool")
    BY <1>3
  <1>6. lead = 1..(k - 1)
    <2>1. ASSUME NEW i \in 1..(k - 1) PROVE i \in lead
      <3>1. i \in 1..Len(s) /\ \A j \in 1..i : j \in 1..(Len(s) + 1) /\ j < k
        BY <1>1, <1>5
      <3>2. \A j \in 1..i : s[j].role = "tool"
        BY <1>4, <3>1
      <3>3. QED
        BY <3>1, <3>2
    <2>2. ASSUME NEW i \in lead PROVE i \in 1..(k - 1)
      <3>1. i \in 1..Len(s) /\ \A j \in 1..i : s[j].role = "tool"
        OBVIOUS
      <3>2. CASE k <= i
        BY <1>1, <1>5, <3>1, <3>2
      <3>3. QED
        BY <1>1, <1>5, <3>1, <3>2
    <2> HIDE DEF lead
    <2>3. QED
      BY <2>1, <2>2
  <1>7. Cardinality(1..(k - 1)) = k - 1
    <2>1. k - 1 \in Int /\ k - 1 >= 0
      BY <1>1, <1>5
    <2>2. QED
      BY <2>1, FS_Interval
  <1>8. StripTools(s) = From(s, 1 + Cardinality(lead))
    BY DEF StripTools
  <1> HIDE DEF lead
  <1>9. 1 + Cardinality(lead) = k
    BY <1>1, <1>5, <1>6, <1>7
  <1>10. QED
    BY <1>5, <1>8, <1>9

(* What trimHistory keeps of a history can be replayed.                    *)
LEMMA TrimmedOwing ==
    ASSUME NEW s \in Seq(Message), Owing(s, 0), NEW h \in Trimmed(s)
    PROVE  Owing(h, 0)
  <1>1. Len(s) \in Nat
    BY LenProperties
  <1>2. PICK i \in 1..(Len(s) + 1) : h = StripTools(From(s, i))
    <2> DEFINE first == IF Len(s) > MaxHistory THEN Len(s) - MaxHistory + 1 ELSE 1
    <2>1. PICK i \in first..Len(s) : h = StripTools(From(s, i))
      BY DEF Trimmed
    <2>2. i \in 1..(Len(s) + 1)
      BY <1>1, <2>1, AgentAssumption
    <2>3. QED
      BY <2>1, <2>2
  <1>3. /\ From(s, i) \in Seq(Message) /\ Len(From(s, i)) = Len(s) - i + 1
        /\ \A j \in 1..Len(From(s, i)) : From(s, i)[j] = s[j + i - 1]
    BY FromEnds
  <1>4. PICK k \in 1..(Len(From(s, i)) + 1) :
           h = From(From(s, i), k) /\ (k <= Len(From(s, i)) => From(s, i)[k].role # "tool")
    BY <1>2, <1>3, StrippedEnds
  <1>5. /\ h \in Seq(Message) /\ Len(h) = Len(From(s, i)) - k + 1
        /\ \A j \in 1..Len(h) : h[j] = From(s, i)[j + k - 1]
    BY <1>3, <1>4, FromEnds
  <1> DEFINE n == i + k - 1
  <1>6. n \in 1..(Len(s) + 1) /\ Len(h) = Len(s) - n + 1 /\ Len(h) \in Nat
    BY <1>1, <1>3, <1>4, <1>5
  <1>7. ASSUME NEW j \in 1..Len(h) PROVE h[j] = s[j + n - 1]
    <2>1. j + k - 1 \in 1..Len(From(s, i)) /\ (j + k - 1) + i - 1 = j + n - 1
      BY <1>1, <1>3, <1>4, <1>5
    <2>2. h[j] = s[(j + k - 1) + i - 1]
      BY <1>3, <1>5, <2>1
    <2>3. QED
      BY <2>1, <2>2
  <1>8. h # <<>> => h[1].role # "tool"
    <2>1. h # <<>> => Len(h) # 0
      BY <1>5, EmptySeq
    <2>2. CASE Len(h) # 0
      <3>1. 1 \in 1..Len(h) /\ 1 + k - 1 = k /\ k <= Len(From(s, i))
        BY <1>1, <1>3, <1>4, <1>5, <1>6, <2>2
      <3>2. h[1] = From(s, i)[k]
        BY <1>5, <3>1
      <3>3. QED
        BY <1>4, <3>1, <3>2
    <2>3. QED
      BY <2>1, <2>2
  <1> HIDE DEF n
  <1>9. Ends(h, s, n)
    BY <1>6, <1>7, <1>8 DEF Ends
  <1>10. QED
    BY <1>5, <1>6, <1>9, EndOwing

IHistory ==
    /\ ITypes
    /\ \A k \in Keys : Owing(convs[k], 0)
    /\ \A r \in Runs : /\ pc[r] \in {"stream", "store"} => Owing(msgs[r], 0)
                       /\ pc[r] \in InTool => Owing(msgs[r], left[r])

LEMMA AfterToolOwing ==
    ASSUME IHistory, NEW r \in Runs, pc[r] \in InTool, AfterTool(r)
    PROVE  /\ pc'[r] \in {"leave", "tools", "stream", "store"}
           /\ \A q \in Runs \ {r} : pc'[q] = pc[q] /\ msgs'[q] = msgs[q] /\ left'[q] = left[q]
           /\ pc'[r] \in {"stream", "store"} => Owing(msgs'[r], 0)
           /\ pc'[r] = "tools" => Owing(msgs'[r], left'[r])
  <1>1. /\ ITypes /\ msgs \in [Runs -> Seq(Message)] /\ left \in [Runs -> Nat]
        /\ pc \in [Runs -> Steps] /\ left[r] \in Nat \ {0} /\ Owing(msgs[r], left[r])
    BY DEF IHistory, ITypes, TypeOK, ToolsLeft
  <1>2. /\ pc'[r] \in {"leave", "tools", "stream", "store"}
        /\ \A q \in Runs \ {r} : pc'[q] = pc[q] /\ left'[q] = left[q]
    BY <1>1, AfterToolTypes
  <1>3. \A q \in Runs \ {r} : msgs'[q] = msgs[q]
    BY <1>1, AfterToolExtends
  <1>4. left'[r] = left[r] - 1
    BY <1>1 DEF AfterTool
  <1> DEFINE paid == Append(msgs[r], ToolMsg)
  <1>5. paid \in Seq(Message) /\ Owing(paid, left[r] - 1)
    BY <1>1, Messages, AppendedIs, ResultPays
  <1>6. left[r] = 1 => Owing(msgs[r] \o <<ToolMsg, Assistant(0)>>, 0)
    <2>1. ASSUME left[r] = 1 PROVE Owing(Append(paid, Assistant(0)), 0)
      <3>1. Owing(paid, 0)
        BY <1>5, <2>1
      <3>2. Assistant(0) \in Message /\ Assistant(0).role # "tool" /\ Assistant(0).calls = 0
        BY Messages DEF Assistant
      <3> HIDE DEF paid
      <3>3. Owing(Append(paid, Assistant(0)), Assistant(0).calls)
        BY <1>5, <3>1, <3>2, OthersFollow
      <3>4. QED
        BY <3>2, <3>3
    <2>2. Append(paid, Assistant(0)) = msgs[r] \o <<ToolMsg, Assistant(0)>>
      <3>1. msgs[r] \in Seq(Message) /\ ToolMsg \in Message /\ Assistant(0) \in Message
        BY <1>1, Messages
      <3>2. QED
        BY <3>1
    <2>3. QED
      BY <2>1, <2>2
  <1>7. \/ pc'[r] = "leave"
        \/ pc'[r] \in {"tools", "stream"} /\ msgs'[r] = paid /\ (pc'[r] = "stream" => left[r] = 1)
        \/ pc'[r] = "store" /\ left[r] = 1 /\ msgs'[r] = msgs[r] \o <<ToolMsg, Assistant(0)>>
    BY <1>1 DEF AfterTool, Goto, Say, Last
  <1> HIDE DEF paid
  <1>8. left[r] = 1 => Owing(paid, 0)
    BY <1>5
  <1>9. QED
    <2>1. pc'[r] \in {"stream", "store"} => Owing(msgs'[r], 0)
      BY <1>6, <1>7, <1>8
    <2>2. pc'[r] = "tools" => Owing(msgs'[r], left'[r])
      BY <1>4, <1>5, <1>7
    <2>3. QED
      BY <1>2, <1>3, <2>1, <2>2

(* Steps that touch neither conversations nor what runs say or owe.        *)
LEMMA QuietKeepsHistory ==
    ASSUME IHistory, ITypes', UNCHANGED <<convs, msgs, left, pc>>
    PROVE  IHistory'
  BY DEF IHistory

LEMMA HistoryInductive == IHistory /\ [Next]_vars => IHistory'
  <1> SUFFICES ASSUME IHistory, [Next]_vars PROVE IHistory'
    OBVIOUS
  <1>0. ITypes /\ ITypes'
    BY TypesInductive DEF IHistory
  <1>t. /\ pc \in [Runs -> Steps] /\ msgs \in [Runs -> Seq(Message)]
        /\ convs \in [Keys -> Seq(Message)] /\ left \in [Runs -> Nat]
    BY <1>0 DEF ITypes, TypeOK
  <1>h. /\ \A k \in Keys : Owing(convs[k], 0)
        /\ \A r \in Runs : /\ pc[r] \in {"stream", "store"} => Owing(msgs[r], 0)
                           /\ pc[r] \in InTool => Owing(msgs[r], left[r])
    BY DEF IHistory
  <1>1. ASSUME NEW r \in Runs, NEW k \in Keys, Begin(r, k) PROVE IHistory'
    <2>1. /\ pc' = [pc EXCEPT ![r] = "stream"] /\ UNCHANGED <<convs, left>>
          /\ msgs' = [msgs EXCEPT ![r] = Append(convs[k], UserMsg)]
      BY <1>1 DEF Begin, Goto
    <2>2. Owing(Append(convs[k], UserMsg), 0)
      <3>1. UserMsg \in Message /\ UserMsg.role # "tool" /\ UserMsg.calls = 0
        BY Messages DEF UserMsg
      <3>2. Owing(Append(convs[k], UserMsg), UserMsg.calls)
        BY <1>t, <1>h, <3>1, OthersFollow
      <3>3. QED
        BY <3>1, <3>2
    <2>3. QED
      BY <1>0, <1>t, <1>h, <2>1, <2>2 DEF IHistory, InTool, Waiting
  <1>2. ASSUME NEW r \in Runs, Cancel(r) PROVE IHistory'
    BY <1>0, <1>2, QuietKeepsHistory DEF Cancel, shared
  <1>3. ASSUME NEW r \in Runs, Talk(r) PROVE IHistory'
    <2>1. CASE StreamFails(r)
      BY <1>0, <1>t, <1>h, <2>1 DEF StreamFails, Goto, shared, IHistory, InTool, Waiting
    <2>2. ASSUME pc[r] = "stream", NEW n \in Nat
          PROVE  Owing(Append(msgs[r], Assistant(n)), n)
      <3>1. Assistant(n) \in Message /\ Assistant(n).role # "tool" /\ Assistant(n).calls = n
        BY Messages DEF Assistant
      <3>2. Owing(Append(msgs[r], Assistant(n)), Assistant(n).calls)
        BY <1>t, <1>h, <2>2, <3>1, OthersFollow
      <3>3. QED
        BY <3>1, <3>2
    <2>3. CASE Answer(r)
      <3>1. Owing(Append(msgs[r], Assistant(0)), 0)
        BY <2>2, <2>3 DEF Answer, At
      <3>2. QED
        BY <1>0, <1>t, <1>h, <2>3, <3>1 DEF Answer, Goto, Say, shared, IHistory, InTool, Waiting
    <2>4. ASSUME NEW n \in 1..MaxCalls, CallTools(r, n) PROVE IHistory'
      <3>1. n \in Nat
        BY AgentAssumption
      <3>2. Owing(Append(msgs[r], Assistant(n)), n)
        BY <2>2, <2>4, <3>1 DEF CallTools, At
      <3>3. QED
        BY <1>0, <1>t, <1>h, <2>4, <3>2 DEF CallTools, Goto, Say, shared, IHistory, InTool, Waiting
    <2>5. QED
      BY <1>3, <2>1, <2>3, <2>4 DEF Talk
  <1>4. ASSUME NEW r \in Runs, pc[r] \in InTool, AfterTool(r), UNCHANGED convs
        PROVE  IHistory'
    <2>1. /\ pc'[r] \in {"leave", "tools", "stream", "store"}
          /\ \A q \in Runs \ {r} : pc'[q] = pc[q] /\ msgs'[q] = msgs[q] /\ left'[q] = left[q]
          /\ pc'[r] \in {"stream", "store"} => Owing(msgs'[r], 0)
          /\ pc'[r] = "tools" => Owing(msgs'[r], left'[r])
      BY <1>4, AfterToolOwing
    <2>2. QED
      BY <1>0, <1>4, <1>h, <2>1 DEF IHistory, InTool, Waiting
  <1>5. ASSUME NEW r \in Runs, pc[r] \in InTool, NEW step \in Waiting, Goto(r, step),
               UNCHANGED <<convs, msgs, left>>
        PROVE  IHistory'
    BY <1>0, <1>t, <1>5, <1>h DEF Goto, IHistory, InTool, Waiting
  <1>6. ASSUME NEW r \in Runs, Consent(r) PROVE IHistory'
    <2>1. CASE RequestApproval(r) \/ Answered(r) \/ GiveUp(r) \/ Expire(r)
      BY <1>5, <2>1 DEF RequestApproval, Answered, GiveUp, Expire, Conclude, At, InTool, Waiting
    <2>2. CASE Withdraw(r)
      BY <1>4, <1>5, <2>2 DEF Withdraw, At, InTool, Waiting
    <2>3. QED
      BY <1>6, <2>1, <2>2 DEF Consent
  <1>7. ASSUME NEW r \in Runs, PlainTool(r) \/ Act(r) \/ ActFails(r) PROVE IHistory'
    BY <1>4, <1>7 DEF PlainTool, Act, ActFails, At, InTool, Waiting, shared
  <1>8. ASSUME NEW r \in Runs, Store(r) PROVE IHistory'
    <2>1. PICK gone \in Evicted(key[r]), h \in Trimmed(msgs[r]) :
             convs' = [k \in Keys |-> IF k = key[r] THEN h
                                      ELSE IF k \in gone THEN <<>> ELSE convs[k]]
      BY <1>8 DEF Store
    <2>2. /\ pc[r] = "store" /\ pc' = [pc EXCEPT ![r] = "leave"] /\ UNCHANGED <<msgs, left>>
      BY <1>8 DEF Store, At, Goto
    <2>3. Owing(h, 0)
      BY <1>t, <1>h, <2>2, TrimmedOwing
    <2>4. \A k \in Keys : Owing(convs'[k], 0)
      BY <1>h, <2>1, <2>3, EmptyOwing
    <2>5. QED
      BY <1>0, <1>t, <1>h, <2>2, <2>4 DEF IHistory, InTool, Waiting
  <1>9. ASSUME NEW r \in Runs, Leave(r) PROVE IHistory'
    BY <1>0, <1>t, <1>9, <1>h DEF Leave, Goto, IHistory, InTool, Waiting
  <1>10. ASSUME NEW c \in Clicks, Send(c) PROVE IHistory'
    BY <1>0, <1>10, QuietKeepsHistory DEF Send, runVars
  <1>11. ASSUME NEW c \in Clicks, NEW u \in Users, NEW i \in Asks, NEW a \in Answers,
                Decide(c, u, i, a)
         PROVE IHistory'
    BY <1>0, <1>11, QuietKeepsHistory DEF Decide, runVars
  <1>12. ASSUME NEW k \in Keys, Reset(k) PROVE IHistory'
    <2>1. convs' = [convs EXCEPT ![k] = <<>>] /\ UNCHANGED <<pc, msgs, left>>
      BY <1>12 DEF Reset, runVars
    <2>2. \A j \in Keys : Owing(convs'[j], 0)
      BY <1>t, <1>h, <2>1, EmptyOwing
    <2>3. QED
      BY <1>0, <1>h, <2>1, <2>2 DEF IHistory
  <1>13. ASSUME UNCHANGED vars PROVE IHistory'
    BY <1>0, <1>13, QuietKeepsHistory DEF vars, runVars
  <1>14. QED
    BY <1>1, <1>2, <1>3, <1>6, <1>7, <1>8, <1>9, <1>10, <1>11, <1>12, <1>13
       DEF Next, RunStep

(* What is sent to the model, and what is stored, is a history in which    *)
(* every call has its results and every result its call, wherever          *)
(* trimHistory cut it.                                                     *)
THEOREM HistoriesReplayable == Spec => []HistoryReplayable
  <1>1. Init => IHistory
    BY TypesInit, EmptyOwing DEF Init, IHistory, InTool, Waiting
  <1>2. IHistory => HistoryReplayable
    <2> SUFFICES ASSUME IHistory PROVE HistoryReplayable
      OBVIOUS
    <2>1. convs \in [Keys -> Seq(Message)] /\ msgs \in [Runs -> Seq(Message)]
      BY DEF IHistory, ITypes, TypeOK
    <2>2. \A k \in Keys : Replayable(convs[k])
      BY <2>1, NothingOwing DEF IHistory
    <2>3. \A r \in Runs : pc[r] = "stream" => Replayable(msgs[r])
      BY <2>1, NothingOwing DEF IHistory
    <2>4. QED
      BY <2>2, <2>3 DEF HistoryReplayable, At
  <1>3. QED
    BY <1>1, <1>2, HistoryInductive, PTL DEF Spec
=============================================================================
