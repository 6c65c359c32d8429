--------------------------- MODULE AgentLoopProofs ---------------------------
(***************************************************************************)
(* Theorems about AgentLoop, for every number of turns, calls and user     *)
(* messages, every history and every rewriting of the context; and, at the *)
(* end, about ShellCapture, whatever a command writes.                     *)
(*                                                                         *)
(* The properties speak of the transcript at a request and at the end of a *)
(* run; the invariants below say what the transcript is at every other     *)
(* point: which part of the turn in progress has been shown (Story), which *)
(* calls of its batch are settled (Batch), and where each user message is  *)
(* (Delivery).                                                             *)
(***************************************************************************)
EXTENDS AgentLoop, ShellCapture, SequenceTheorems, FiniteSetTheorems,
        WellFoundedInduction, TLAPS

-----------------------------------------------------------------------------
(* Transcripts                                                             *)

\* A transcript in which every call is answered and every result asked for.
Answered(s) == CallsAnswered(s) /\ ResultsAsked(s)

\* The results of the first n calls of turn t, in source order.
Results(t, n) == [i \in 1 .. n |-> ToolResult(t, i)]

\* What a turn adds to the transcript: its assistant message, then the results
\* of the calls that message asks for.
Turn(m, n) == <<m>> \o Results(m.turn, n)

WholeTurn(s) ==
  /\ s # <<>>
  /\ s[1].role = "assistant"
  /\ s = Turn(s[1], IF Asks(s[1]) THEN s[1].n ELSE 0)

-----------------------------------------------------------------------------
(* The batch in progress                                                   *)

\* The index of every outcome is that of a settled call, and every settled
\* call has an outcome.
Settled ==
  /\ \A k \in DOMAIN outcomes :
       outcomes[k].index \in DOMAIN calls /\ calls[outcomes[k].index] = "finished"
  /\ \A i \in DOMAIN calls : calls[i] = "finished" =>
       \E k \in DOMAIN outcomes : outcomes[k].index = i

\* A sequential batch settles its calls in source order, and touches none that
\* comes after the one it is at.
InOrder ==
  /\ Len(outcomes) <= Len(calls)
  /\ \A k \in DOMAIN outcomes : outcomes[k].index = k
  /\ \A i \in DOMAIN calls : calls[i] = "finished" <=> i <= Len(outcomes)
  /\ \A i \in DOMAIN calls : i > Len(outcomes) + 1 => calls[i] = "new"

InBatch == pc \in {"prepareCall", "executing"}

Batch ==
  /\ pc = "answer" =>
       /\ \E n \in 1 .. MaxCalls : turnOutput = <<AssistantMessage(turn, n, "length")>>
       /\ outcomes = <<>> /\ ~parallel
  /\ InBatch =>
       /\ turnOutput = <<AssistantMessage(turn, Len(calls), "toolUse")>>
       /\ Settled
       /\ ~parallel => InOrder
  /\ pc = "executing" => parallel
  /\ pc = "endTurn" => WholeTurn(turnOutput)

-----------------------------------------------------------------------------
(* The transcript so far                                                   *)

\* The messages of the turns that are over, and of those injected since.
Told == prompts \o collected

\* The results of the batch in progress that the listeners have seen.
ShownResults == IF parallel THEN <<>> ELSE ResultMessages(outcomes)

\* The loop is between two turns, or has not yet recorded anything of this one.
Between == {"initialPoll", "startTurn", "request", "streaming", "prepareNext",
            "shouldStop", "pollSteering", "pollFollowUp", "failed", "finish"}

InTurn == {"answer", "prepareCall", "executing", "endTurn"}

Story ==
  /\ prompts = IF entry = "prompt" THEN <<UserMessage(1)>> ELSE <<>>
  /\ pc \in {"begin", "rejected"} =>
       emitted = <<>> /\ collected = <<>> /\ ctx = original
  /\ pc \in Between =>
       /\ emitted = Told
       /\ Answered(Told)
       /\ ~rewritten => ctx = original \o Told
  /\ pc \in InTurn =>
       /\ emitted = (Told \o turnOutput)
                      \o (IF pc \in {"answer", "endTurn"} THEN <<>> ELSE ShownResults)
       /\ Answered(Told)
       /\ ~rewritten => ctx = original \o (Told \o turnOutput)
  /\ pc = "done" =>
       /\ Answered(emitted)
       /\ cause = "none" \/ ~rewritten => returned = emitted
  /\ pc = "failed" => cause # "none"
  /\ cause # "none" => pc \in {"failed", "done", "panicked"}

-----------------------------------------------------------------------------
(* The user messages                                                       *)

\* The numbers of the user messages of a sequence.
Ids(s) == {s[k].n : k \in {x \in DOMAIN s : s[x].role = "user"}}

\* No user message occurs twice in a sequence.
Once(s) ==
  \A j, k \in DOMAIN s :
    s[j].role = "user" /\ s[k].role = "user" /\ s[j].n = s[k].n => j = k

\* The user messages of a sequence are told apart by their numbers.
Numbered(s) ==
  \A k \in DOMAIN s : s[k].role = "user" => s[k] = UserMessage(s[k].n)

AllUsers(s) == \A k \in DOMAIN s : s[k].role = "user"

\* A sequence of messages that were queued, the next one having number next.
Queued(s, next) ==
  /\ AllUsers(s) /\ Numbered(s) /\ Once(s)
  /\ Ids(s) \subseteq 2 .. next - 1

\* A user message is in one place only: the queues st and fu, the drained
\* messages pe or the transcript em.
Delivered(st, fu, pe, em, next) ==
  /\ Queued(st, next) /\ Queued(fu, next) /\ Queued(pe, next)
  /\ Numbered(em) /\ Once(em)
  /\ Ids(em) \subseteq 1 .. next - 1
  /\ Ids(st) \cap Ids(fu) = {}
  /\ Ids(st) \cap Ids(pe) = {}
  /\ Ids(st) \cap Ids(em) = {}
  /\ Ids(fu) \cap Ids(pe) = {}
  /\ Ids(fu) \cap Ids(em) = {}
  /\ Ids(pe) \cap Ids(em) = {}

\* Every message the caller queued is in one of these places.
NoneLost(st, fu, pe, em, next) ==
  2 .. next - 1 \subseteq Ids(st) \cup Ids(fu) \cup Ids(pe) \cup Ids(em)

Delivery ==
  /\ Delivered(steering, followUp, pending, emitted, nextId)
  /\ cause \notin {"poll", "maxTurns"} =>
       NoneLost(steering, followUp, pending, emitted, nextId)
  /\ pc \notin {"startTurn", "failed", "done", "panicked"} => pending = <<>>

LoopInv == TypeOK /\ Batch /\ Story /\ Delivery

-----------------------------------------------------------------------------
(* Messages and results                                                    *)

\* The constructors build messages.
LEMMA MessageTypes ==
  /\ \A id \in Nat : UserMessage(id) \in Message
  /\ \A t \in Nat, n \in Nat, stop \in StopReasons :
       AssistantMessage(t, n, stop) \in Message
  /\ \A t \in Nat, i \in Nat : ToolResult(t, i) \in Message
  /\ \A m \in Message : m.n \in Nat /\ m.turn \in Nat
BY DEF Message, UserMessage, AssistantMessage, ToolResult

\* The turn limit is a positive number.
LEMMA TurnLimitPositive == TurnLimit \in Nat /\ TurnLimit >= 1
BY AgentLoopAssumption DEF TurnLimit

\* A sequence built from its entries.
LEMMA BuiltSeq ==
  ASSUME NEW S, NEW n \in Nat, NEW s \in [1 .. n -> S]
  PROVE  s \in Seq(S) /\ Len(s) = n
<1>1. s \in Seq(S)
  BY SeqDef
<1>. QED
  BY <1>1, LenProperties

\* The results of n calls are n tool results, numbered in order.
LEMMA ResultsProperties ==
  ASSUME NEW t \in Nat, NEW n \in Nat
  PROVE  /\ Results(t, n) \in Seq(Message)
         /\ Len(Results(t, n)) = n
         /\ \A i \in 1 .. n : Results(t, n)[i] = ToolResult(t, i)
<1>1. Results(t, n) \in [1 .. n -> Message]
  BY MessageTypes DEF Results
<1>2. \A i \in 1 .. n : Results(t, n)[i] = ToolResult(t, i)
  BY DEF Results
<1>. HIDE DEF Results
<1>. QED
  BY <1>1, <1>2, BuiltSeq

\* A one-message sequence.
LEMMA OneMessage ==
  ASSUME NEW m \in Message
  PROVE  <<m>> \in Seq(Message) /\ Len(<<m>>) = 1 /\ <<m>>[1] = m
OBVIOUS

\* An outcome has the index of a call.
LEMMA OutcomeTypes ==
  ASSUME NEW os \in Seq(Outcomes), NEW k \in 1 .. Len(os)
  PROVE  os[k].index \in Nat /\ os[k].index >= 1
<1>1. os[k] \in Outcomes
  BY ElementOfSeq
<1>. QED
  BY <1>1, AgentLoopAssumption DEF Outcomes

\* An outcome becomes the result of its call.
LEMMA ResultMessagesProperties ==
  ASSUME NEW os \in Seq(Outcomes), turn \in Nat
  PROVE  /\ ResultMessages(os) \in Seq(Message)
         /\ Len(ResultMessages(os)) = Len(os)
         /\ \A k \in 1 .. Len(os) : ResultMessages(os)[k] = ToolResult(turn, os[k].index)
<1>1. DOMAIN os = 1 .. Len(os) /\ Len(os) \in Nat
  BY LenProperties
<1>2. \A k \in 1 .. Len(os) : os[k].index \in Nat
  BY OutcomeTypes
<1>3. ResultMessages(os) \in [1 .. Len(os) -> Message]
  BY <1>1, <1>2, MessageTypes DEF ResultMessages
<1>4. \A k \in 1 .. Len(os) : ResultMessages(os)[k] = ToolResult(turn, os[k].index)
  BY <1>1 DEF ResultMessages
<1>. HIDE DEF ResultMessages
<1>. QED
  BY <1>1, <1>3, <1>4, BuiltSeq

\* Appending an outcome appends its result.
LEMMA ResultMessagesAppend ==
  ASSUME NEW os \in Seq(Outcomes), NEW o \in Outcomes, turn \in Nat
  PROVE  ResultMessages(Append(os, o)) = Append(ResultMessages(os), ToolResult(turn, o.index))
<1>. DEFINE new == Append(os, o)
            left == ResultMessages(new)
            last == ToolResult(turn, o.index)
            right == Append(ResultMessages(os), last)
            n == Len(os)
<1>1. /\ new \in Seq(Outcomes) /\ Len(new) = n + 1 /\ new[n + 1] = o
      /\ \A k \in 1 .. n : new[k] = os[k]
  BY AppendProperties
<1>2. n \in Nat /\ o.index \in Nat
  BY LenProperties, AgentLoopAssumption DEF Outcomes
<1>3. last \in Message
  BY <1>2, MessageTypes
<1>. HIDE DEF new
<1>4. /\ left \in Seq(Message) /\ Len(left) = n + 1
      /\ \A k \in 1 .. n + 1 : left[k] = ToolResult(turn, new[k].index)
  BY <1>1, ResultMessagesProperties
<1>5. /\ ResultMessages(os) \in Seq(Message) /\ Len(ResultMessages(os)) = n
      /\ \A k \in 1 .. n : ResultMessages(os)[k] = ToolResult(turn, os[k].index)
  BY ResultMessagesProperties
<1>. HIDE DEF last
<1>6. /\ right \in Seq(Message) /\ Len(right) = n + 1
      /\ \A k \in 1 .. n : right[k] = ResultMessages(os)[k]
      /\ right[n + 1] = last
  BY <1>3, <1>5, AppendProperties
<1>. HIDE DEF left, right, n
<1>7. \A k \in 1 .. n + 1 : left[k] = right[k]
  <2>. TAKE k \in 1 .. n + 1
  <2>1. CASE k \in 1 .. n
    BY <2>1, <1>1, <1>4, <1>5, <1>6
  <2>2. CASE k = n + 1
    BY <2>2, <1>1, <1>4, <1>6 DEF last
  <2>. QED
    BY <2>1, <2>2, <1>2
<1>8. left = right
  BY <1>4, <1>6, <1>7, SeqEqual
<1>. QED
  BY <1>8 DEF left, right, new, last

\* A sequential batch that is over has its results in source order.
LEMMA SequentialResults ==
  ASSUME TypeOK, InOrder, \A i \in DOMAIN calls : calls[i] = "finished"
  PROVE  ResultMessages(outcomes) = Results(turn, Len(calls))
<1>. DEFINE n == Len(calls)
<1>1. turn \in Nat /\ n \in Nat /\ Len(outcomes) \in Nat /\ outcomes \in Seq(Outcomes)
  BY TurnLimitPositive, LenProperties DEF TypeOK
<1>2. DOMAIN calls = 1 .. n /\ DOMAIN outcomes = 1 .. Len(outcomes)
  BY <1>1, LenProperties DEF TypeOK
<1>3. Len(outcomes) = n
  <2>1. CASE n = 0
    BY <2>1, <1>1 DEF InOrder
  <2>2. CASE n # 0
    <3>1. n \in DOMAIN calls
      BY <2>2, <1>1, <1>2
    <3>2. n <= Len(outcomes)
      BY <3>1 DEF InOrder
    <3>. QED
      BY <3>2, <1>1 DEF InOrder
  <2>. QED
    BY <2>1, <2>2
<1>4. /\ ResultMessages(outcomes) \in Seq(Message) /\ Len(ResultMessages(outcomes)) = n
      /\ \A k \in 1 .. n : ResultMessages(outcomes)[k] = ToolResult(turn, outcomes[k].index)
  BY <1>1, <1>3, ResultMessagesProperties
<1>5. \A k \in 1 .. n : outcomes[k].index = k
  BY <1>2, <1>3 DEF InOrder
<1>6. /\ Results(turn, n) \in Seq(Message) /\ Len(Results(turn, n)) = n
      /\ \A k \in 1 .. n : Results(turn, n)[k] = ToolResult(turn, k)
  BY <1>1, ResultsProperties
<1>. HIDE DEF n
<1>7. ResultMessages(outcomes) = Results(turn, n)
  BY <1>4, <1>5, <1>6, SeqEqual
<1>. QED
  BY <1>7 DEF n

\* A parallel batch that is over has its results in source order once its
\* outcomes are read by index, whatever order they were pushed in.
LEMMA ParallelResults ==
  ASSUME TypeOK, Settled, \A i \in DOMAIN calls : calls[i] = "finished"
  PROVE  ResultMessages(InSourceOrder(outcomes)) = Results(turn, Len(calls))
<1>. DEFINE n == Len(calls)
            indices == {outcomes[k].index : k \in DOMAIN outcomes}
            last == IF indices = {} THEN 0
                    ELSE CHOOSE m \in indices : \A i \in indices : i <= m
            slots == [i \in 1 .. n |-> outcomes[CHOOSE k \in DOMAIN outcomes :
                                                  outcomes[k].index = i]]
<1>1. turn \in Nat /\ n \in Nat /\ Len(outcomes) \in Nat /\ outcomes \in Seq(Outcomes)
  BY TurnLimitPositive, LenProperties DEF TypeOK
<1>2. DOMAIN calls = 1 .. n /\ DOMAIN outcomes = 1 .. Len(outcomes)
  BY <1>1, LenProperties DEF TypeOK
<1>3. indices = 1 .. n
  BY <1>2 DEF Settled
<1>4. InSourceOrder(outcomes) = [i \in 1 .. last |-> outcomes[CHOOSE k \in DOMAIN outcomes :
                                                  outcomes[k].index = i]]
  BY DEF InSourceOrder
<1>5. last = n
  <2>. HIDE DEF indices, n
  <2>1. CASE n = 0
    BY <2>1, <1>3
  <2>2. CASE n # 0
    <3>1. n \in indices /\ \A i \in indices : i <= n
      BY <2>2, <1>1, <1>3
    <3>2. \A m \in indices : (\A i \in indices : i <= m) => m = n
      BY <1>1, <1>3, <3>1
    <3>3. (CHOOSE m \in indices : \A i \in indices : i <= m) = n
      BY <3>1, <3>2
    <3>. QED
      BY <3>1, <3>3
  <2>. QED
    BY <2>1, <2>2
<1>6. \A i \in 1 .. n : slots[i] \in Outcomes /\ slots[i].index = i
  <2>. TAKE i \in 1 .. n
  <2>1. \E k \in DOMAIN outcomes : outcomes[k].index = i
    BY <1>3
  <2>2. PICK k \in DOMAIN outcomes : slots[i] = outcomes[k] /\ outcomes[k].index = i
    BY <2>1
  <2>3. outcomes[k] \in Outcomes
    BY <1>1, <1>2, ElementOfSeq
  <2>. QED
    BY <2>2, <2>3
<1>7. InSourceOrder(outcomes) = slots
  BY <1>4, <1>5
<1>8. slots \in [1 .. n -> Outcomes]
  BY <1>6
<1>. HIDE DEF slots, n
<1>9. slots \in Seq(Outcomes) /\ Len(slots) = n
  BY <1>1, <1>8, BuiltSeq
<1>10. /\ ResultMessages(slots) \in Seq(Message) /\ Len(ResultMessages(slots)) = n
       /\ \A k \in 1 .. n : ResultMessages(slots)[k] = ToolResult(turn, slots[k].index)
  BY <1>1, <1>9, ResultMessagesProperties
<1>11. /\ Results(turn, n) \in Seq(Message) /\ Len(Results(turn, n)) = n
       /\ \A k \in 1 .. n : Results(turn, n)[k] = ToolResult(turn, k)
  BY <1>1, ResultsProperties
<1>12. ResultMessages(slots) = Results(turn, n)
  BY <1>6, <1>10, <1>11, SeqEqual
<1>. QED
  BY <1>7, <1>12 DEF n

-----------------------------------------------------------------------------
(* Answered transcripts                                                    *)

\* The entries of a concatenation.
LEMMA ConcatEntries ==
  ASSUME NEW s \in Seq(Message), NEW t \in Seq(Message)
  PROVE  /\ s \o t \in Seq(Message)
         /\ Len(s) \in Nat /\ Len(t) \in Nat
         /\ DOMAIN s = 1 .. Len(s) /\ DOMAIN t = 1 .. Len(t)
         /\ DOMAIN (s \o t) = 1 .. Len(s) + Len(t)
         /\ Len(s \o t) = Len(s) + Len(t)
         /\ \A k \in 1 .. Len(s) : (s \o t)[k] = s[k]
         /\ \A k \in 1 .. Len(t) : (s \o t)[Len(s) + k] = t[k]
         /\ \A k \in DOMAIN (s \o t) :
              \/ k \in 1 .. Len(s)
              \/ k - Len(s) \in 1 .. Len(t) /\ (s \o t)[k] = t[k - Len(s)]
<1>1. /\ s \o t \in Seq(Message)
      /\ Len(s) \in Nat /\ Len(t) \in Nat
      /\ DOMAIN s = 1 .. Len(s) /\ DOMAIN t = 1 .. Len(t)
      /\ Len(s \o t) = Len(s) + Len(t)
  BY LenProperties, ConcatProperties
<1>2. DOMAIN (s \o t) = 1 .. Len(s) + Len(t)
  BY <1>1, LenProperties
<1>3. \A k \in 1 .. Len(s) + Len(t) :
        (s \o t)[k] = IF k <= Len(s) THEN s[k] ELSE t[k - Len(s)]
  BY ConcatProperties
<1>. QED
  BY <1>1, <1>2, <1>3

\* Messages may be appended one after the other or at once.
LEMMA Associative ==
  \A s, t, u \in Seq(Message) : (s \o t) \o u = s \o (t \o u)
BY ConcatAssociative

\* What is answered stays answered when more that is answered follows.
LEMMA AnsweredConcat ==
  ASSUME NEW s \in Seq(Message), NEW t \in Seq(Message), Answered(s), Answered(t)
  PROVE  Answered(s \o t)
<1>. DEFINE u == s \o t
            m == Len(s)
            n == Len(t)
<1>1. /\ u \in Seq(Message) /\ m \in Nat /\ n \in Nat
      /\ DOMAIN s = 1 .. m /\ DOMAIN t = 1 .. n /\ DOMAIN u = 1 .. m + n
      /\ \A k \in 1 .. m : u[k] = s[k]
      /\ \A k \in 1 .. n : u[m + k] = t[k]
      /\ \A k \in DOMAIN u : k \in 1 .. m \/ (k - m \in 1 .. n /\ u[k] = t[k - m])
  BY ConcatEntries
<1>2. /\ \A k \in 1 .. m : s[k] \in Message
      /\ \A k \in 1 .. n : t[k] \in Message
  BY ElementOfSeq
<1>3. /\ \A k \in 1 .. m : s[k].n \in Nat
      /\ \A k \in 1 .. n : t[k].n \in Nat
  BY <1>2, MessageTypes
<1>. HIDE DEF u, m, n
<1>4. CallsAnswered(u)
  <2>. SUFFICES ASSUME NEW j \in DOMAIN u, Asks(u[j]), NEW i \in 1 .. u[j].n
                PROVE  j + i \in DOMAIN u /\ u[j + i] = ToolResult(u[j].turn, i)
    BY DEF CallsAnswered
  <2>1. CASE j \in 1 .. m
    <3>1. j + i \in 1 .. m /\ s[j + i] = ToolResult(s[j].turn, i)
      BY <2>1, <1>1 DEF Answered, CallsAnswered
    <3>. QED
      BY <2>1, <3>1, <1>1
  <2>2. CASE j - m \in 1 .. n /\ u[j] = t[j - m]
    <3>1. (j - m) + i \in 1 .. n /\ t[(j - m) + i] = ToolResult(t[j - m].turn, i)
      BY <2>2, <1>1 DEF Answered, CallsAnswered
    <3>2. i \in Nat /\ j \in Nat /\ m + ((j - m) + i) = j + i
      BY <2>2, <1>1, <1>3
    <3>3. u[j + i] = t[(j - m) + i]
      BY <3>1, <3>2, <1>1
    <3>. QED
      BY <2>2, <3>1, <3>2, <3>3, <1>1
  <2>. QED
    BY <2>1, <2>2, <1>1
<1>5. ResultsAsked(u)
  <2>. SUFFICES ASSUME NEW k \in DOMAIN u, u[k].role = "toolResult"
                PROVE  /\ k - u[k].n \in DOMAIN u
                       /\ Asks(u[k - u[k].n])
                       /\ u[k - u[k].n].turn = u[k].turn
                       /\ u[k].n <= u[k - u[k].n].n
    BY DEF ResultsAsked
  <2>1. CASE k \in 1 .. m
    <3>. DEFINE j == k - s[k].n
    <3>1. j \in 1 .. m /\ Asks(s[j]) /\ s[j].turn = s[k].turn /\ s[k].n <= s[j].n
      BY <2>1, <1>1 DEF Answered, ResultsAsked
    <3>. QED
      BY <2>1, <3>1, <1>1
  <2>2. CASE k - m \in 1 .. n /\ u[k] = t[k - m]
    <3>. DEFINE j == (k - m) - t[k - m].n
    <3>1. j \in 1 .. n /\ Asks(t[j]) /\ t[j].turn = t[k - m].turn /\ t[k - m].n <= t[j].n
      BY <2>2, <1>1 DEF Answered, ResultsAsked
    <3>2. m + j = k - u[k].n
      BY <2>2, <1>1, <1>3
    <3>. HIDE DEF j
    <3>3. u[k - u[k].n] = t[j] /\ k - u[k].n \in DOMAIN u
      BY <3>1, <3>2, <1>1
    <3>. QED
      BY <2>2, <3>1, <3>3
  <2>. QED
    BY <2>1, <2>2, <1>1
<1>. QED
  BY <1>4, <1>5 DEF Answered, u

\* Messages that neither ask for tools nor answer a call are answered.
LEMMA AnsweredQuiet ==
  ASSUME NEW s \in Seq(Message),
         \A k \in DOMAIN s : ~Asks(s[k]) /\ s[k].role # "toolResult"
  PROVE  Answered(s)
BY DEF Answered, CallsAnswered, ResultsAsked

\* The message of a turn and its results.
LEMMA TurnEntries ==
  ASSUME NEW m \in Message, NEW n \in Nat
  PROVE  /\ Turn(m, n) \in Seq(Message)
         /\ Len(Turn(m, n)) = n + 1 /\ DOMAIN Turn(m, n) = 1 .. n + 1
         /\ Turn(m, n) # <<>> /\ Turn(m, n)[1] = m
         /\ \A k \in 2 .. n + 1 : Turn(m, n)[k] = ToolResult(m.turn, k - 1)
<1>. DEFINE s == Turn(m, n)
<1>1. /\ <<m>> \in Seq(Message) /\ Len(<<m>>) = 1 /\ <<m>>[1] = m
      /\ m.turn \in Nat
  BY OneMessage, MessageTypes
<1>2. /\ Results(m.turn, n) \in Seq(Message)
      /\ Len(Results(m.turn, n)) = n
      /\ \A i \in 1 .. n : Results(m.turn, n)[i] = ToolResult(m.turn, i)
  BY <1>1, ResultsProperties
<1>3. /\ s \in Seq(Message) /\ Len(s) = 1 + n /\ DOMAIN s = 1 .. 1 + n
      /\ s[1] = m
      /\ \A k \in DOMAIN s : k \in 1 .. 1 \/ (k - 1 \in 1 .. n /\ s[k] = Results(m.turn, n)[k - 1])
  BY <1>1, <1>2, ConcatEntries DEF Turn
<1>. HIDE DEF s
<1>4. s # <<>>
  BY <1>3
<1>5. ASSUME NEW k \in 2 .. n + 1 PROVE s[k] = ToolResult(m.turn, k - 1)
  <2>1. k \in DOMAIN s /\ k \notin 1 .. 1 /\ k - 1 \in 1 .. n
    BY <1>3
  <2>2. s[k] = Results(m.turn, n)[k - 1]
    BY <2>1, <1>3
  <2>. QED
    BY <2>1, <2>2, <1>2
<1>. QED
  BY <1>3, <1>4, <1>5 DEF s

\* A whole turn is answered.
LEMMA WholeTurnAnswered ==
  ASSUME NEW s \in Seq(Message), WholeTurn(s)
  PROVE  Answered(s)
<1>1. PICK m \in Message, n \in Nat :
        /\ m = s[1] /\ m.role = "assistant" /\ s = Turn(m, n)
        /\ n = IF Asks(m) THEN m.n ELSE 0
  <2>1. s[1] \in Message
    BY LenProperties, ElementOfSeq DEF WholeTurn
  <2>. QED
    BY <2>1, MessageTypes DEF WholeTurn
<1>2. m.n \in Nat /\ m.turn \in Nat
  BY MessageTypes
<1>3. DOMAIN s = 1 .. n + 1 /\ \A k \in 2 .. n + 1 : s[k] = ToolResult(m.turn, k - 1)
  <2>1. DOMAIN Turn(m, n) = 1 .. n + 1
    BY TurnEntries
  <2>2. \A k \in 2 .. n + 1 : Turn(m, n)[k] = ToolResult(m.turn, k - 1)
    BY TurnEntries
  <2>. QED
    BY <2>1, <2>2, <1>1
<1>4. \A i \in Nat : /\ ToolResult(m.turn, i).role = "toolResult"
                     /\ ToolResult(m.turn, i).n = i /\ ToolResult(m.turn, i).turn = m.turn
                     /\ ~Asks(ToolResult(m.turn, i))
  BY DEF ToolResult, Asks
<1>5. \A k \in DOMAIN s : Asks(s[k]) => k = 1
  BY <1>2, <1>3, <1>4, SMTT(40)
<1>6. CallsAnswered(s)
  <2>. SUFFICES ASSUME NEW j \in DOMAIN s, Asks(s[j]), NEW i \in 1 .. s[j].n
                PROVE  j + i \in DOMAIN s /\ s[j + i] = ToolResult(s[j].turn, i)
    BY DEF CallsAnswered
  <2>1. j = 1 /\ i \in 1 .. n
    BY <1>1, <1>5
  <2>2. 1 + i \in 2 .. n + 1 /\ (1 + i) - 1 = i
    BY <2>1
  <2>3. s[1 + i] = ToolResult(m.turn, i)
    BY <2>2, <1>3
  <2>. QED
    BY <2>1, <2>2, <2>3, <1>1, <1>3
<1>7. ResultsAsked(s)
  <2>. SUFFICES ASSUME NEW k \in DOMAIN s, s[k].role = "toolResult"
                PROVE  /\ k - s[k].n \in DOMAIN s
                       /\ Asks(s[k - s[k].n])
                       /\ s[k - s[k].n].turn = s[k].turn
                       /\ s[k].n <= s[k - s[k].n].n
    BY DEF ResultsAsked
  <2>1. k \in 2 .. n + 1 /\ s[k] = ToolResult(m.turn, k - 1)
    BY <1>1, <1>3
  <2>2. s[k].n = k - 1 /\ s[k].turn = m.turn
    BY <2>1, <1>2, <1>4
  <2>3. Asks(m) /\ n = m.n
    BY <2>1, <1>1
  <2>4. k - s[k].n = 1 /\ 1 \in DOMAIN s
    BY <2>1, <2>2, <1>3
  <2>. QED
    BY <2>1, <2>2, <2>3, <2>4, <1>1, SMTT(40)
<1>. QED
  BY <1>6, <1>7 DEF Answered

-----------------------------------------------------------------------------
(* User messages                                                           *)

\* An entry of a concatenation is an entry of one of its parts, and conversely.
LEMMA ConcatSplit ==
  ASSUME NEW s \in Seq(Message), NEW t \in Seq(Message)
  PROVE  /\ \A k \in DOMAIN (s \o t) :
              \/ k \in DOMAIN s /\ (s \o t)[k] = s[k]
              \/ k - Len(s) \in DOMAIN t /\ (s \o t)[k] = t[k - Len(s)]
         /\ \A k \in DOMAIN s : k \in DOMAIN (s \o t) /\ (s \o t)[k] = s[k]
         /\ \A k \in DOMAIN t :
              Len(s) + k \in DOMAIN (s \o t) /\ (s \o t)[Len(s) + k] = t[k]
BY ConcatEntries

\* The user messages of a concatenation are those of its parts.
LEMMA ConcatUsers ==
  ASSUME NEW s \in Seq(Message), NEW t \in Seq(Message)
  PROVE  /\ Ids(s \o t) = Ids(s) \cup Ids(t)
         /\ Numbered(s \o t) <=> Numbered(s) /\ Numbered(t)
         /\ AllUsers(s \o t) <=> AllUsers(s) /\ AllUsers(t)
<1>. DEFINE u == s \o t
            m == Len(s)
<1>1. /\ \A k \in DOMAIN u :
           \/ k \in DOMAIN s /\ u[k] = s[k]
           \/ k - m \in DOMAIN t /\ u[k] = t[k - m]
      /\ \A k \in DOMAIN s : k \in DOMAIN u /\ u[k] = s[k]
      /\ \A k \in DOMAIN t : m + k \in DOMAIN u /\ u[m + k] = t[k]
  BY ConcatSplit
<1>. HIDE DEF u, m
<1>2. Ids(u) = Ids(s) \cup Ids(t)
  <2>1. ASSUME NEW id \in Ids(u) PROVE id \in Ids(s) \cup Ids(t)
    <3>1. PICK k \in DOMAIN u : u[k].role = "user" /\ id = u[k].n
      BY <2>1 DEF Ids
    <3>2. CASE k \in DOMAIN s /\ u[k] = s[k]
      BY <3>1, <3>2 DEF Ids
    <3>3. CASE k - m \in DOMAIN t /\ u[k] = t[k - m]
      BY <3>1, <3>3 DEF Ids
    <3>. QED
      BY <3>2, <3>3, <1>1
  <2>2. Ids(s) \subseteq Ids(u)
    BY <1>1 DEF Ids
  <2>3. ASSUME NEW id \in Ids(t) PROVE id \in Ids(u)
    <3>1. PICK k \in DOMAIN t : t[k].role = "user" /\ id = t[k].n
      BY <2>3 DEF Ids
    <3>2. m + k \in DOMAIN u /\ u[m + k] = t[k]
      BY <1>1
    <3>. QED
      BY <3>1, <3>2 DEF Ids
  <2>. QED
    BY <2>1, <2>2, <2>3
<1>3. Numbered(u) <=> Numbered(s) /\ Numbered(t)
  <2>1. Numbered(s) /\ Numbered(t) => Numbered(u)
    BY <1>1 DEF Numbered
  <2>2. Numbered(u) => Numbered(s)
    BY <1>1 DEF Numbered
  <2>3. ASSUME Numbered(u), NEW k \in DOMAIN t, t[k].role = "user"
        PROVE  t[k] = UserMessage(t[k].n)
    BY <2>3, <1>1 DEF Numbered
  <2>. QED
    BY <2>1, <2>2, <2>3 DEF Numbered
<1>4. AllUsers(u) <=> AllUsers(s) /\ AllUsers(t)
  <2>1. AllUsers(s) /\ AllUsers(t) => AllUsers(u)
    BY <1>1 DEF AllUsers
  <2>2. AllUsers(u) => AllUsers(s)
    BY <1>1 DEF AllUsers
  <2>3. ASSUME AllUsers(u), NEW k \in DOMAIN t
        PROVE  t[k].role = "user"
    BY <2>3, <1>1 DEF AllUsers
  <2>. QED
    BY <2>1, <2>2, <2>3 DEF AllUsers
<1>. QED
  BY <1>2, <1>3, <1>4 DEF u

\* A concatenation repeats no user message if its parts repeat none and share none.
LEMMA ConcatOnce ==
  ASSUME NEW s \in Seq(Message), NEW t \in Seq(Message)
  PROVE  Once(s \o t) <=> Once(s) /\ Once(t) /\ Ids(s) \cap Ids(t) = {}
<1>. DEFINE u == s \o t
            m == Len(s)
<1>1. /\ \A k \in DOMAIN u :
           \/ k \in DOMAIN s /\ u[k] = s[k]
           \/ k - m \in DOMAIN t /\ u[k] = t[k - m]
      /\ \A k \in DOMAIN s : k \in DOMAIN u /\ u[k] = s[k]
      /\ \A k \in DOMAIN t : m + k \in DOMAIN u /\ u[m + k] = t[k]
  BY ConcatSplit
<1>2. /\ m \in Nat /\ DOMAIN s = 1 .. m /\ DOMAIN t = 1 .. Len(t) /\ Len(t) \in Nat
      /\ DOMAIN u = 1 .. m + Len(t)
  BY ConcatEntries
<1>. HIDE DEF u, m
<1>3. ASSUME Once(s), Once(t), Ids(s) \cap Ids(t) = {} PROVE Once(u)
  <2>. SUFFICES ASSUME NEW j \in DOMAIN u, NEW k \in DOMAIN u,
                       u[j].role = "user", u[k].role = "user", u[j].n = u[k].n
                PROVE  j = k
    BY DEF Once
  <2>1. CASE j \in DOMAIN s /\ u[j] = s[j] /\ k \in DOMAIN s /\ u[k] = s[k]
    BY <2>1, <1>3 DEF Once
  <2>2. CASE j - m \in DOMAIN t /\ u[j] = t[j - m] /\ k - m \in DOMAIN t /\ u[k] = t[k - m]
    <3>1. j - m = k - m
      BY <2>2, <1>3 DEF Once
    <3>. QED
      BY <3>1, <1>2
  <2>3. CASE j \in DOMAIN s /\ u[j] = s[j] /\ k - m \in DOMAIN t /\ u[k] = t[k - m]
    <3>1. s[j].n \in Ids(s) /\ t[k - m].n \in Ids(t)
      BY <2>3 DEF Ids
    <3>. QED
      BY <3>1, <2>3, <1>3
  <2>4. CASE k \in DOMAIN s /\ u[k] = s[k] /\ j - m \in DOMAIN t /\ u[j] = t[j - m]
    <3>1. s[k].n \in Ids(s) /\ t[j - m].n \in Ids(t)
      BY <2>4 DEF Ids
    <3>. QED
      BY <3>1, <2>4, <1>3
  <2>. QED
    BY <2>1, <2>2, <2>3, <2>4, <1>1
<1>4. ASSUME Once(u) PROVE Once(s)
  BY <1>1, <1>4 DEF Once
<1>5. ASSUME Once(u) PROVE Once(t)
  <2>. SUFFICES ASSUME NEW j \in DOMAIN t, NEW k \in DOMAIN t,
                       t[j].role = "user", t[k].role = "user", t[j].n = t[k].n
                PROVE  j = k
    BY DEF Once
  <2>1. m + j \in DOMAIN u /\ m + k \in DOMAIN u /\ u[m + j] = t[j] /\ u[m + k] = t[k]
    BY <1>1
  <2>2. m + j = m + k
    BY <2>1, <1>5 DEF Once
  <2>. QED
    BY <2>2, <1>2
<1>6. ASSUME Once(u), NEW id \in Ids(s), id \in Ids(t) PROVE FALSE
  <2>1. PICK j \in DOMAIN s : s[j].role = "user" /\ id = s[j].n
    BY <1>6 DEF Ids
  <2>2. PICK k \in DOMAIN t : t[k].role = "user" /\ id = t[k].n
    BY <1>6 DEF Ids
  <2>3. j \in DOMAIN u /\ u[j] = s[j] /\ m + k \in DOMAIN u /\ u[m + k] = t[k]
    BY <1>1
  <2>4. j = m + k
    BY <2>1, <2>2, <2>3, <1>6 DEF Once
  <2>. QED
    BY <2>4, <1>2
<1>. QED
  BY <1>3, <1>4, <1>5, <1>6 DEF u

\* Messages of the model and of tools are no user messages.
LEMMA NoUsers ==
  ASSUME NEW s \in Seq(Message), \A k \in DOMAIN s : s[k].role # "user"
  PROVE  Ids(s) = {} /\ Numbered(s) /\ Once(s)
BY DEF Ids, Numbered, Once

\* One user message.
LEMMA OneUser ==
  ASSUME NEW id \in Nat
  PROVE  LET s == <<UserMessage(id)>> IN
         s \in Seq(Message) /\ Ids(s) = {id} /\ Numbered(s) /\ Once(s) /\ AllUsers(s)
<1>. DEFINE s == <<UserMessage(id)>>
<1>1. s \in Seq(Message) /\ Len(s) = 1 /\ s[1] = UserMessage(id)
  BY MessageTypes, OneMessage
<1>2. DOMAIN s = {1}
  OBVIOUS
<1>3. s[1].role = "user" /\ s[1].n = id
  BY <1>1 DEF UserMessage
<1>. HIDE DEF s
<1>4. Ids(s) = {id}
  BY <1>2, <1>3 DEF Ids
<1>5. Numbered(s) /\ Once(s) /\ AllUsers(s)
  BY <1>1, <1>2, <1>3 DEF Numbered, Once, AllUsers
<1>. QED
  BY <1>1, <1>4, <1>5 DEF s

\* Draining a queue splits it.
LEMMA TakenLeft ==
  ASSUME NEW s \in Seq(Message), NEW k \in Takes(s)
  PROVE  /\ Taken(s, k) \in Seq(Message) /\ Left(s, k) \in Seq(Message)
         /\ s = Taken(s, k) \o Left(s, k)
<1>1. Len(s) \in Nat /\ DOMAIN s = 1 .. Len(s)
  BY LenProperties
<1>2. s # <<>> => Len(s) # 0
  BY EmptySeq
<1>3. k \in 0 .. Len(s)
  BY <1>1, <1>2 DEF Takes
<1>4. \A i \in 1 .. Len(s) : s[i] \in Message
  BY ElementOfSeq
<1>5. SubSeq(s, 1, k) \in Seq(Message) /\ SubSeq(s, k + 1, Len(s)) \in Seq(Message)
  BY <1>1, <1>3, <1>4, SubSeqProperties
<1>6. SubSeq(s, 1, k) \o SubSeq(s, k + 1, Len(s)) = SubSeq(s, 1, Len(s))
  <2>1. 1 \in 1 .. Len(s) + 1 /\ k \in 1 - 1 .. Len(s) /\ Len(s) \in k .. Len(s)
    BY <1>1, <1>3
  <2>. QED
    BY <2>1, ConcatAdjacentSubSeq
<1>7. SubSeq(s, 1, Len(s)) = s
  BY SubSeqFull
<1>. QED
  BY <1>5, <1>6, <1>7 DEF Taken, Left

-----------------------------------------------------------------------------
(* Types and the batch in progress                                         *)

LEMMA TypeInit == Init => TypeOK
<1>. SUFFICES ASSUME Init PROVE TypeOK
  OBVIOUS
<1>1. prompts \in Seq(Message)
  <2>1. <<UserMessage(1)>> \in Seq(Message) /\ <<>> \in Seq(Message)
    BY MessageTypes, OneMessage
  <2>. QED
    BY <2>1 DEF Init
<1>2. original \in Seq(Message)
  BY AgentLoopAssumption DEF Init
<1>3. <<>> \in Seq(Message) /\ <<>> \in Seq(CallStates) /\ <<>> \in Seq(Outcomes) /\ Len(<<>>) = 0
  BY EmptySeq
<1>4. turn \in 1 .. TurnLimit /\ nextId \in 2 .. MaxUserMessages + 1 /\ 0 <= MaxCalls
  BY TurnLimitPositive, AgentLoopAssumption DEF Init
<1>. QED
  BY <1>1, <1>2, <1>3, <1>4 DEF Init, TypeOK, Phases, Causes

LEMMA BatchInit == Init => Batch
BY DEF Init, Batch, InBatch

\* The first message of a turn, and its results, have the types of messages.
LEMMA AnswerTypes ==
  ASSUME TypeOK, Batch, pc = "answer"
  PROVE  /\ turnOutput[1].n \in 1 .. MaxCalls /\ turn \in Nat /\ turnOutput[1].turn = turn
         /\ turnOutput = <<turnOutput[1]>> /\ turnOutput[1] \in Message
         /\ turnOutput[1].role = "assistant" /\ turnOutput[1].stop = "length"
         /\ [i \in 1 .. turnOutput[1].n |-> ToolResult(turn, i)] = Results(turn, turnOutput[1].n)
         /\ Results(turn, turnOutput[1].n) \in Seq(Message)
<1>1. PICK n \in 1 .. MaxCalls : turnOutput = <<AssistantMessage(turn, n, "length")>>
  BY DEF Batch
<1>2. n \in Nat /\ turn \in Nat
  BY TurnLimitPositive, AgentLoopAssumption DEF TypeOK
<1>3. turnOutput[1] = AssistantMessage(turn, n, "length")
  BY <1>1
<1>4. AssistantMessage(turn, n, "length") \in Message
  BY <1>2, MessageTypes DEF StopReasons
<1>5. /\ AssistantMessage(turn, n, "length").n = n
      /\ AssistantMessage(turn, n, "length").turn = turn
      /\ AssistantMessage(turn, n, "length").role = "assistant"
      /\ AssistantMessage(turn, n, "length").stop = "length"
  BY DEF AssistantMessage
<1>6. Results(turn, n) \in Seq(Message)
  BY <1>2, ResultsProperties
<1>7. [i \in 1 .. n |-> ToolResult(turn, i)] = Results(turn, n)
  BY DEF Results
<1>. HIDE DEF AssistantMessage
<1>. QED
  BY <1>1, <1>2, <1>3, <1>4, <1>5, <1>6, <1>7

\* The results of a batch that is over.
LEMMA BatchResults ==
  ASSUME TypeOK, Batch, pc = IF parallel THEN "executing" ELSE "prepareCall",
         \A i \in DOMAIN calls : calls[i] = "finished"
  PROVE  /\ ResultMessages(IF parallel THEN InSourceOrder(outcomes) ELSE outcomes)
              = Results(turn, Len(calls))
         /\ ~parallel => ResultMessages(outcomes) = Results(turn, Len(calls))
         /\ Results(turn, Len(calls)) \in Seq(Message)
         /\ turn \in Nat /\ Len(calls) \in Nat
<1>1. turn \in Nat /\ Len(calls) \in Nat
  BY TurnLimitPositive, LenProperties DEF TypeOK
<1>2. InBatch
  BY DEF InBatch
<1>3. CASE parallel
  BY <1>1, <1>2, <1>3, ParallelResults, ResultsProperties DEF Batch
<1>4. CASE ~parallel
  BY <1>1, <1>2, <1>4, SequentialResults, ResultsProperties DEF Batch
<1>. QED
  BY <1>3, <1>4

\* A settled call: the batch's variables keep their types.
LEMMA FinishTypes ==
  ASSUME TypeOK, NEW i \in DOMAIN calls, NEW ends \in BOOLEAN, Finish(i, ends)
  PROVE  /\ calls' \in Seq(CallStates) /\ Len(calls') = Len(calls)
         /\ calls' = [calls EXCEPT ![i] = "finished"]
         /\ Outcome(i, ends) \in Outcomes /\ ToolResult(turn, i) \in Message
         /\ outcomes' = Append(outcomes, Outcome(i, ends))
         /\ outcomes' \in Seq(Outcomes) /\ emitted' \in Seq(Message)
<1>1. i \in 1 .. Len(calls) /\ Len(calls) \in Nat /\ Len(calls) <= MaxCalls
  BY LenProperties DEF TypeOK
<1>2. i \in 1 .. MaxCalls /\ i \in Nat /\ turn \in Nat
  BY <1>1, TurnLimitPositive, AgentLoopAssumption DEF TypeOK
<1>3. calls' \in Seq(CallStates) /\ Len(calls') = Len(calls)
  BY <1>1, ExceptSeq DEF Finish, TypeOK, CallStates
<1>4. Outcome(i, ends) \in Outcomes
  BY <1>2 DEF Outcome, Outcomes
<1>5. ToolResult(turn, i) \in Message
  BY <1>2, MessageTypes
<1>6. outcomes' \in Seq(Outcomes)
  BY <1>4, AppendProperties DEF Finish, TypeOK
<1>7. emitted' \in Seq(Message)
  BY <1>5, AppendProperties DEF Finish, TypeOK
<1>. QED
  BY <1>3, <1>4, <1>5, <1>6, <1>7 DEF Finish

\* The limit of turns is kept, and no other variable changes its type.
LEMMA NextTurnTypes ==
  ASSUME TypeOK, NextTurn
  PROVE  turn' \in 1 .. TurnLimit /\ pc' \in {"startTurn", "failed"} /\ cause' \in Causes
BY TurnLimitPositive, SMTT(40) DEF TypeOK, NextTurn, Fail, Causes

\* A poll leaves two sequences of messages.
LEMMA PollTypes ==
  ASSUME NEW q \in Seq(Message), NEW k \in Takes(q)
  PROVE  Taken(q, k) \in Seq(Message) /\ Left(q, k) \in Seq(Message)
BY TakenLeft

LEMMA TypeNext == TypeOK /\ Batch /\ [Next]_vars => TypeOK'
<1>. SUFFICES ASSUME TypeOK, Batch, [Next]_vars PROVE TypeOK'
  OBVIOUS
<1>0. turn \in Nat /\ turn \in 1 .. TurnLimit /\ nextId \in Nat
  BY TurnLimitPositive, AgentLoopAssumption DEF TypeOK
<1>1. CASE Begin
  <2>1. ctx \o prompts \in Seq(Message) /\ emitted \o prompts \in Seq(Message)
    BY ConcatProperties DEF TypeOK
  <2>. QED
    BY <1>1, <2>1 DEF Begin, Record, TypeOK, Phases, batchVars, userVars, inputVars, textVars
<1>2. CASE InitialPoll
  <2>1. PICK k \in Takes(steering) :
          /\ steering' = Left(steering, k)
          /\ pending' \in {Taken(steering, k), pending}
          /\ pc' \in {"startTurn", "failed"} /\ cause' \in Causes
    BY <1>2 DEF InitialPoll, Fail, TypeOK, Causes
  <2>2. Taken(steering, k) \in Seq(Message) /\ Left(steering, k) \in Seq(Message)
    BY PollTypes DEF TypeOK
  <2>. QED
    BY <1>2, <2>1, <2>2 DEF InitialPoll, TypeOK, Phases, batchVars, inputVars, textVars
<1>3. CASE StartTurn
  <2>1. /\ ctx \o pending \in Seq(Message) /\ emitted \o pending \in Seq(Message)
        /\ collected \o pending \in Seq(Message) /\ <<>> \in Seq(Message)
    BY ConcatProperties, EmptySeq DEF TypeOK
  <2>. QED
    BY <1>3, <2>1 DEF StartTurn, Record, TypeOK, Phases, batchVars, userVars, inputVars
<1>4. CASE Request
  BY <1>4 DEF Request, Fail, TypeOK, Phases, Causes, batchVars, textVars, userVars, inputVars
<1>5. CASE ReceiveMessage
  <2>1. PICK n \in 0 .. MaxCalls, stop \in StopReasons :
          LET message == AssistantMessage(turn, n, stop) IN
          /\ Record(<<message>>)
          /\ turnOutput' = <<message>>
          /\ calls' = IF stop = "toolUse" THEN [i \in 1 .. n |-> "new"] ELSE <<>>
          /\ pc' = CASE stop = "length" /\ n > 0 -> "answer"
                     [] stop = "toolUse" -> "prepareCall"
                     [] OTHER -> "endTurn"
          /\ parallel' \in BOOLEAN
    BY <1>5 DEF ReceiveMessage
  <2>. DEFINE message == AssistantMessage(turn, n, stop)
  <2>2. n \in Nat /\ n <= MaxCalls
    BY AgentLoopAssumption
  <2>3. message \in Message
    BY <2>2, <1>0, MessageTypes
  <2>. HIDE DEF message
  <2>4. <<message>> \in Seq(Message)
    BY <2>3, OneMessage
  <2>5. ctx \o <<message>> \in Seq(Message) /\ emitted \o <<message>> \in Seq(Message)
    BY <2>4, ConcatProperties DEF TypeOK
  <2>6. calls' \in Seq(CallStates) /\ Len(calls') <= MaxCalls
    <3>1. CASE stop = "toolUse"
      <4>1. calls' = [i \in 1 .. n |-> "new"]
        BY <3>1, <2>1
      <4>2. calls' \in [1 .. n -> CallStates]
        BY <4>1 DEF CallStates
      <4>. QED
        BY <4>2, <2>2, BuiltSeq
    <3>2. CASE stop # "toolUse"
      <4>1. calls' = <<>>
        BY <3>2, <2>1
      <4>2. calls' \in Seq(CallStates)
        BY <4>1, EmptySeq
      <4>3. Len(calls') = 0
        BY <4>1
      <4>4. 0 <= MaxCalls
        BY AgentLoopAssumption
      <4>. QED
        BY <4>2, <4>3, <4>4
    <3>. QED
      BY <3>1, <3>2
  <2>7. <<>> \in Seq(Outcomes)
    BY EmptySeq
  <2>8. pc' \in Phases
    BY <2>1 DEF Phases
  <2>9. ctx' \in Seq(Message) /\ emitted' \in Seq(Message) /\ turnOutput' \in Seq(Message)
    BY <2>1, <2>4, <2>5 DEF Record, message
  <2>10. outcomes' = <<>> /\ terminate' = FALSE
    BY <1>5 DEF ReceiveMessage
  <2>. QED
    BY <1>5, <2>1, <2>6, <2>7, <2>8, <2>9, <2>10 DEF ReceiveMessage, TypeOK, userVars, inputVars
<1>6. CASE StreamFails
  BY <1>6 DEF StreamFails, Fail, TypeOK, Phases, Causes, batchVars, textVars, userVars, inputVars
<1>7. CASE AnswerTruncated
  <2>. DEFINE results == Results(turn, turnOutput[1].n)
  <2>1. /\ ctx' = ctx \o results /\ emitted' = emitted \o results
        /\ turnOutput' = turnOutput \o results
    BY <1>7, AnswerTypes DEF AnswerTruncated, Record
  <2>2. results \in Seq(Message)
    BY <1>7, AnswerTypes DEF AnswerTruncated
  <2>. HIDE DEF results
  <2>3. ctx' \in Seq(Message) /\ emitted' \in Seq(Message) /\ turnOutput' \in Seq(Message)
    BY <2>1, <2>2, ConcatProperties DEF TypeOK
  <2>. QED
    BY <1>7, <2>3 DEF AnswerTruncated, TypeOK, Phases, batchVars, userVars, inputVars
<1>8. CASE StartPrepared
  <2>1. calls' \in Seq(CallStates) /\ Len(calls') = Len(calls)
    <3>1. Len(calls) \in Nat /\ DOMAIN calls = 1 .. Len(calls)
      BY LenProperties DEF TypeOK
    <3>2. \A i \in 1 .. Len(calls) : calls[i] \in CallStates
      BY ElementOfSeq DEF TypeOK
    <3>3. calls' \in [1 .. Len(calls) -> CallStates]
      BY <1>8, <3>1, <3>2 DEF StartPrepared, CallStates
    <3>. QED
      BY <3>1, <3>3, BuiltSeq
  <2>. QED
    BY <1>8, <2>1 DEF StartPrepared, TypeOK, Phases, textVars, userVars, inputVars
<1>9. CASE CloseBatch
  <2>. DEFINE results == Results(turn, Len(calls))
  <2>1. /\ ctx' = ctx \o results /\ emitted' = IF parallel THEN emitted \o results ELSE emitted
        /\ turnOutput' = turnOutput \o results /\ results \in Seq(Message)
    BY <1>9, BatchResults DEF CloseBatch
  <2>. HIDE DEF results
  <2>2. ctx' \in Seq(Message) /\ emitted' \in Seq(Message) /\ turnOutput' \in Seq(Message)
    BY <2>1, ConcatProperties DEF TypeOK
  <2>3. terminate' \in BOOLEAN
    BY <1>9 DEF CloseBatch, ShouldTerminate
  <2>. QED
    BY <1>9, <2>2, <2>3 DEF CloseBatch, TypeOK, Phases, userVars, inputVars
<1>10. CASE EndTurn
  <2>1. collected \o turnOutput \in Seq(Message)
    BY ConcatProperties DEF TypeOK
  <2>. QED
    BY <1>10, <2>1 DEF EndTurn, TypeOK, Phases, batchVars, textVars, userVars, inputVars
<1>11. CASE PrepareNext
  <2>1. ctx' \in Seq(Message)
    BY <1>11, AgentLoopAssumption DEF PrepareNext, TypeOK
  <2>2. /\ pc' \in Phases /\ rewritten' \in BOOLEAN
        /\ cause' \in Causes
    BY <1>11 DEF PrepareNext, Fail, TypeOK, Phases, Causes
  <2>3. UNCHANGED <<turn, pending, collected, turnOutput, batchVars, emitted,
                    userVars, inputVars, returned>>
    BY <1>11 DEF PrepareNext
  <2>. QED
    BY <2>1, <2>2, <2>3, SMTT(40) DEF TypeOK, batchVars, userVars, inputVars
<1>12. CASE ShouldStop
  BY <1>12 DEF ShouldStop, Fail, TypeOK, Phases, Causes, batchVars, textVars, userVars, inputVars
<1>13. CASE PollSteering
  <2>1. PICK k \in Takes(steering) :
          /\ steering' = Left(steering, k)
          /\ pending' \in {Taken(steering, k), pending}
          /\ \/ NextTurn
             \/ pc' \in {"pollFollowUp", "failed"} /\ cause' \in Causes /\ turn' = turn
    BY <1>13 DEF PollSteering, Fail, TypeOK, Causes
  <2>2. Taken(steering, k) \in Seq(Message) /\ Left(steering, k) \in Seq(Message)
    BY PollTypes DEF TypeOK
  <2>3. turn' \in 1 .. TurnLimit /\ pc' \in Phases /\ cause' \in Causes
    BY <2>1, <1>0, NextTurnTypes DEF Phases
  <2>. QED
    BY <1>13, <2>1, <2>2, <2>3 DEF PollSteering, TypeOK, batchVars, inputVars, textVars
<1>14. CASE PollFollowUp
  <2>1. PICK k \in Takes(followUp) :
          /\ followUp' = Left(followUp, k)
          /\ pending' \in {Taken(followUp, k), pending}
          /\ \/ NextTurn
             \/ pc' \in {"finish", "failed"} /\ cause' \in Causes /\ turn' = turn
    BY <1>14 DEF PollFollowUp, Fail, TypeOK, Causes
  <2>2. Taken(followUp, k) \in Seq(Message) /\ Left(followUp, k) \in Seq(Message)
    BY PollTypes DEF TypeOK
  <2>3. turn' \in 1 .. TurnLimit /\ pc' \in Phases /\ cause' \in Causes
    BY <2>1, <1>0, NextTurnTypes DEF Phases
  <2>. QED
    BY <1>14, <2>1, <2>2, <2>3 DEF PollFollowUp, TypeOK, batchVars, inputVars, textVars
<1>15. CASE FinishWithError
  <2>1. PICK m \in Message : Record(<<m>>)
    <3>1. \A stop \in {"aborted", "error"} : AssistantMessage(turn, 0, stop) \in Message
      BY <1>0, MessageTypes DEF StopReasons
    <3>. QED
      BY <1>15, <3>1 DEF FinishWithError
  <2>2. ctx' \in Seq(Message) /\ emitted' \in Seq(Message)
    BY <2>1, OneMessage, ConcatProperties DEF Record, TypeOK
  <2>3. returned' \in Seq(Message) /\ pc' \in Phases
    <3>1. Len(original) \in Nat /\ Len(ctx') \in Nat
      BY <2>2, LenProperties DEF TypeOK
    <3>2. \A i \in OriginalLen + 1 .. Len(ctx') : ctx'[i] \in Message
      BY <3>1, <2>2, ElementOfSeq DEF OriginalLen
    <3>3. SubSeq(ctx', OriginalLen + 1, Len(ctx')) \in Seq(Message)
      BY <3>1, <3>2, SubSeqProperties DEF OriginalLen
    <3>. QED
      BY <1>15, <3>3 DEF FinishWithError, TypeOK, Phases
  <2>. QED
    BY <1>15, <2>2, <2>3 DEF FinishWithError, TypeOK, batchVars, userVars, inputVars
<1>16. CASE FinishRun
  <2>1. prompts \o collected \in Seq(Message)
    BY ConcatProperties DEF TypeOK
  <2>. QED
    BY <1>16, <2>1 DEF FinishRun, TypeOK, Phases, batchVars, textVars, userVars, inputVars
<1>17. ASSUME NEW i \in DOMAIN calls, PrepareCall(i) PROVE TypeOK'
  <2>1. CASE Finish(i, FALSE)
    BY <1>17, <2>1, FinishTypes DEF PrepareCall, TypeOK, loopVars, userVars, inputVars
  <2>2. CASE /\ calls' = [calls EXCEPT ![i] = IF parallel THEN "prepared" ELSE "running"]
             /\ UNCHANGED <<outcomes, emitted>>
    <3>1. calls' \in Seq(CallStates) /\ Len(calls') = Len(calls)
      BY <2>2, LenProperties, ExceptSeq DEF TypeOK, CallStates
    <3>. QED
      BY <1>17, <2>2, <3>1 DEF PrepareCall, TypeOK, loopVars, userVars, inputVars
  <2>. QED
    BY <1>17, <2>1, <2>2 DEF PrepareCall
<1>18. ASSUME NEW i \in DOMAIN calls, FinishCall(i) PROVE TypeOK'
  BY <1>18, FinishTypes DEF FinishCall, TypeOK, loopVars, userVars, inputVars
<1>19. CASE Enqueue
  <2>1. nextId' \in 2 .. MaxUserMessages + 1
    BY <1>19, AgentLoopAssumption DEF Enqueue, TypeOK
  <2>2. UserMessage(nextId) \in Message
    BY <1>0, MessageTypes
  <2>3. steering' \in Seq(Message) /\ followUp' \in Seq(Message)
    <3>. DEFINE posted == UserMessage(nextId)
    <3>1. \/ steering' = Append(steering, posted) /\ followUp' = followUp
          \/ followUp' = Append(followUp, posted) /\ steering' = steering
      BY <1>19 DEF Enqueue
    <3>. HIDE DEF posted
    <3>2. posted \in Message
      BY <2>2 DEF posted
    <3>3. steering \in Seq(Message) /\ followUp \in Seq(Message)
      BY DEF TypeOK
    <3>4. Append(steering, posted) \in Seq(Message) /\ Append(followUp, posted) \in Seq(Message)
      BY <3>2, <3>3, AppendProperties
    <3>. QED
      BY <3>1, <3>3, <3>4
  <2>. QED
    BY <1>19, <2>1, <2>3 DEF Enqueue, TypeOK, loopVars, batchVars, textVars, inputVars
<1>20. CASE Abort
  BY <1>20 DEF Abort, TypeOK, loopVars, batchVars, textVars, inputVars
<1>21. CASE UNCHANGED vars
  BY <1>21 DEF vars, TypeOK, loopVars, batchVars, textVars, userVars, inputVars
<1>. QED
  BY <1>1, <1>2, <1>3, <1>4, <1>5, <1>6, <1>7, <1>8, <1>9, <1>10, <1>11, <1>12, <1>13,
     <1>14, <1>15, <1>16, <1>17, <1>18, <1>19, <1>20, <1>21
  DEF Next, Loop, Tools

\* An assistant message and the results it asks for are a whole turn.
LEMMA TurnIsWhole ==
  ASSUME NEW m \in Message, m.role = "assistant", NEW n \in Nat,
         n = IF Asks(m) THEN m.n ELSE 0
  PROVE  WholeTurn(Turn(m, n))
<1>1. Turn(m, n) # <<>> /\ Turn(m, n)[1] = m
  BY TurnEntries
<1>. QED
  BY <1>1 DEF WholeTurn

\* A message that asks for nothing is a whole turn by itself.
LEMMA MessageIsWhole ==
  ASSUME NEW m \in Message, m.role = "assistant", Asks(m) => m.n = 0
  PROVE  WholeTurn(<<m>>)
<1>1. Turn(m, 0) = <<m>>
  <2>1. Results(m.turn, 0) = <<>>
    BY DEF Results
  <2>2. <<m>> \in Seq(Message)
    BY OneMessage
  <2>. QED
    BY <2>1, <2>2, ConcatEmptySeq DEF Turn
<1>2. WholeTurn(Turn(m, 0))
  BY TurnIsWhole
<1>. QED
  BY <1>1, <1>2

\* A settled call joins its outcomes; a sequential batch settles the next one.
LEMMA FinishBatch ==
  ASSUME TypeOK, Batch, InBatch, NEW i \in DOMAIN calls, NEW ends \in BOOLEAN,
         Finish(i, ends),
         ~parallel => i = Len(outcomes) + 1
  PROVE  Settled' /\ (~parallel => InOrder') /\ Len(calls') = Len(calls)
<1>. DEFINE o == Outcome(i, ends)
            n == Len(outcomes)
<1>1. /\ Len(calls') = Len(calls) /\ calls' = [calls EXCEPT ![i] = "finished"]
      /\ o \in Outcomes /\ outcomes' = Append(outcomes, o)
      /\ outcomes \in Seq(Outcomes) /\ outcomes' \in Seq(Outcomes)
  BY FinishTypes DEF TypeOK
<1>2. o.index = i
  BY DEF Outcome
<1>. HIDE DEF o
<1>3. /\ Len(outcomes') = n + 1 /\ outcomes'[n + 1] = o
      /\ \A k \in 1 .. n : outcomes'[k] = outcomes[k]
  BY <1>1, AppendProperties
<1>4. n \in Nat /\ DOMAIN outcomes = 1 .. n /\ DOMAIN outcomes' = 1 .. n + 1
  BY <1>1, <1>3, LenProperties
<1>5. DOMAIN calls' = DOMAIN calls /\ DOMAIN calls = 1 .. Len(calls) /\ Len(calls) \in Nat
  BY <1>1, LenProperties DEF TypeOK
<1>6. /\ calls'[i] = "finished"
      /\ \A j \in DOMAIN calls : j # i => calls'[j] = calls[j]
  BY <1>1
<1>. HIDE DEF n
<1>7. Settled'
  <2>1. ASSUME NEW k \in DOMAIN outcomes'
        PROVE  outcomes'[k].index \in DOMAIN calls' /\ calls'[outcomes'[k].index] = "finished"
    <3>1. CASE k \in 1 .. n
      BY <3>1, <1>3, <1>4, <1>5, <1>6 DEF Batch, Settled
    <3>2. CASE k = n + 1
      BY <3>2, <1>2, <1>3, <1>5, <1>6
    <3>. QED
      BY <3>1, <3>2, <1>4
  <2>2. ASSUME NEW j \in DOMAIN calls', calls'[j] = "finished"
        PROVE  \E k \in DOMAIN outcomes' : outcomes'[k].index = j
    <3>1. CASE j = i
      BY <3>1, <1>2, <1>3, <1>4
    <3>2. CASE j # i
      <4>1. PICK k \in DOMAIN outcomes : outcomes[k].index = j
        BY <3>2, <2>2, <1>5, <1>6 DEF Batch, Settled
      <4>. QED
        BY <4>1, <1>3, <1>4
    <3>. QED
      BY <3>1, <3>2
  <2>. QED
    BY <2>1, <2>2 DEF Settled
<1>8. ASSUME ~parallel PROVE InOrder'
  <2>1. InOrder /\ i = n + 1
    BY <1>8 DEF Batch, n
  <2>2. Len(outcomes') <= Len(calls')
    BY <2>1, <1>1, <1>3, <1>5
  <2>3. \A k \in DOMAIN outcomes' : outcomes'[k].index = k
    BY <2>1, <1>2, <1>3, <1>4 DEF InOrder
  <2>4. \A j \in DOMAIN calls' : calls'[j] = "finished" <=> j <= Len(outcomes')
    BY <2>1, <1>3, <1>4, <1>5, <1>6 DEF InOrder, n
  <2>5. \A j \in DOMAIN calls' : j > Len(outcomes') + 1 => calls'[j] = "new"
    BY <2>1, <1>3, <1>4, <1>5, <1>6 DEF InOrder, n
  <2>. QED
    BY <2>2, <2>3, <2>4, <2>5 DEF InOrder
<1>. QED
  BY <1>1, <1>7, <1>8

\* Outside a turn the invariant on the batch asks nothing.
LEMMA BatchQuiet == pc' \notin InTurn => Batch'
BY DEF InTurn, Batch, InBatch

LEMMA BatchNext == TypeOK /\ Batch /\ [Next]_vars => Batch'
<1>. SUFFICES ASSUME TypeOK, Batch, [Next]_vars PROVE Batch'
  OBVIOUS
<1>0. /\ turn \in Nat /\ Len(calls) \in Nat /\ DOMAIN calls = 1 .. Len(calls)
      /\ Len(outcomes) \in Nat /\ DOMAIN outcomes = 1 .. Len(outcomes)
  BY TurnLimitPositive, LenProperties DEF TypeOK
<1>1. CASE \/ Begin \/ InitialPoll \/ StartTurn \/ Request \/ StreamFails \/ EndTurn
           \/ PrepareNext \/ ShouldStop \/ PollSteering \/ PollFollowUp
           \/ FinishWithError \/ FinishRun
  <2>1. pc' \notin InTurn
    BY <1>1 DEF InTurn, Begin, InitialPoll, StartTurn, Request, StreamFails, EndTurn,
       PrepareNext, ShouldStop, PollSteering, PollFollowUp, NextTurn, FinishWithError,
       FinishRun, Fail
  <2>. QED
    BY <2>1, BatchQuiet
<1>2. CASE ReceiveMessage
  <2>1. PICK n \in 0 .. MaxCalls, stop \in StopReasons :
          LET message == AssistantMessage(turn, n, stop) IN
          /\ turnOutput' = <<message>>
          /\ calls' = IF stop = "toolUse" THEN [i \in 1 .. n |-> "new"] ELSE <<>>
          /\ pc' = CASE stop = "length" /\ n > 0 -> "answer"
                     [] stop = "toolUse" -> "prepareCall"
                     [] OTHER -> "endTurn"
          /\ stop # "toolUse" => parallel' = FALSE
    BY <1>2 DEF ReceiveMessage
  <2>2. outcomes' = <<>> /\ turn' = turn
    BY <1>2 DEF ReceiveMessage
  <2>3. n \in Nat /\ n <= MaxCalls
    BY AgentLoopAssumption
  <2>. DEFINE message == AssistantMessage(turn, n, stop)
  <2>4. /\ message \in Message /\ message.role = "assistant"
        /\ message.n = n /\ message.stop = stop
    BY <2>3, <1>0, MessageTypes DEF AssistantMessage
  <2>5. CASE stop = "length" /\ n > 0
    <3>1. n \in 1 .. MaxCalls
      BY <2>3, <2>5
    <3>2. pc' = "answer" /\ parallel' = FALSE /\ turnOutput' = <<AssistantMessage(turn', n, "length")>>
      BY <2>1, <2>2, <2>5
    <3>. QED
      BY <3>1, <3>2, <2>2 DEF Batch, InBatch
  <2>6. CASE stop = "toolUse"
    <3>1. /\ pc' = "prepareCall" /\ calls' = [i \in 1 .. n |-> "new"]
          /\ turnOutput' = <<AssistantMessage(turn', n, "toolUse")>>
      BY <2>1, <2>2, <2>6
    <3>2. calls' \in [1 .. n -> CallStates]
      BY <3>1 DEF CallStates
    <3>3. Len(calls') = n
      BY <3>2, <2>3, BuiltSeq
    <3>4. /\ DOMAIN calls' = 1 .. n /\ \A i \in 1 .. n : calls'[i] = "new"
          /\ DOMAIN outcomes' = {} /\ Len(outcomes') = 0
      BY <3>1, <2>2
    <3>5. Settled' /\ InOrder'
      BY <3>3, <3>4, <2>3 DEF Settled, InOrder
    <3>. QED
      BY <3>1, <3>3, <3>5 DEF Batch, InBatch
  <2>7. CASE stop # "toolUse" /\ ~(stop = "length" /\ n > 0)
    <3>1. pc' = "endTurn" /\ turnOutput' = <<message>>
      BY <2>1, <2>7
    <3>2. Asks(message) => message.n = 0
      BY <2>3, <2>4, <2>7 DEF Asks
    <3>. HIDE DEF message
    <3>3. WholeTurn(<<message>>)
      BY <3>2, <2>4, MessageIsWhole
    <3>. QED
      BY <3>1, <3>3 DEF Batch, InBatch
  <2>. QED
    BY <2>5, <2>6, <2>7
<1>3. CASE AnswerTruncated
  <2>. DEFINE m == turnOutput[1]
  <2>1. /\ m \in Message /\ m.role = "assistant" /\ m.stop = "length" /\ m.turn = turn
        /\ m.n \in Nat /\ turnOutput = <<m>>
    BY <1>3, AnswerTypes, MessageTypes DEF AnswerTruncated
  <2>2. WholeTurn(Turn(m, m.n))
    BY <2>1, TurnIsWhole DEF Asks
  <2>3. turnOutput' = turnOutput \o Results(turn, m.n) /\ pc' = "endTurn"
    BY <1>3, AnswerTypes DEF AnswerTruncated
  <2>. HIDE DEF m
  <2>4. turnOutput' = Turn(m, m.n)
    BY <2>1, <2>3 DEF Turn
  <2>. QED
    BY <2>2, <2>3, <2>4 DEF Batch, InBatch
<1>4. CASE CloseBatch
  <2>. DEFINE m == AssistantMessage(turn, Len(calls), "toolUse")
  <2>1. turnOutput = <<m>>
    BY <1>4 DEF CloseBatch, Batch, InBatch
  <2>2. /\ m \in Message /\ m.role = "assistant" /\ m.stop = "toolUse" /\ m.turn = turn
        /\ m.n = Len(calls)
    BY <1>0, MessageTypes DEF AssistantMessage, StopReasons
  <2>3. turnOutput' = turnOutput \o Results(turn, Len(calls)) /\ pc' = "endTurn"
    BY <1>4, BatchResults DEF CloseBatch
  <2>. HIDE DEF m
  <2>4. WholeTurn(Turn(m, m.n))
    BY <2>2, <1>0, TurnIsWhole DEF Asks
  <2>5. turnOutput' = Turn(m, m.n)
    BY <2>1, <2>2, <2>3 DEF Turn
  <2>. QED
    BY <2>3, <2>4, <2>5 DEF Batch, InBatch
<1>5. CASE StartPrepared
  <2>1. /\ pc' = "executing" /\ parallel /\ InBatch
        /\ UNCHANGED <<turn, turnOutput, outcomes, parallel>>
    BY <1>5 DEF StartPrepared, InBatch
  <2>2. calls' \in Seq(CallStates) /\ Len(calls') = Len(calls) /\ DOMAIN calls' = DOMAIN calls
        /\ \A i \in DOMAIN calls : calls'[i] = "finished" <=> calls[i] = "finished"
    <3>1. \A i \in 1 .. Len(calls) : calls[i] \in CallStates
      BY ElementOfSeq DEF TypeOK
    <3>2. calls' = [i \in 1 .. Len(calls) |-> IF calls[i] = "prepared" THEN "running" ELSE calls[i]]
      BY <1>5, <1>0 DEF StartPrepared
    <3>3. calls' \in [1 .. Len(calls) -> CallStates]
      BY <3>1, <3>2 DEF CallStates
    <3>4. calls' \in Seq(CallStates) /\ Len(calls') = Len(calls)
      BY <3>3, <1>0, BuiltSeq
    <3>. QED
      BY <3>2, <3>4, <1>0
  <2>3. Settled'
    BY <2>1, <2>2 DEF Batch, Settled
  <2>. QED
    BY <2>1, <2>2, <2>3 DEF Batch, InBatch
<1>6. ASSUME NEW i \in DOMAIN calls, PrepareCall(i) PROVE Batch'
  <2>1. /\ InBatch /\ pc = "prepareCall" /\ IsNext(i)
        /\ UNCHANGED <<pc, turn, turnOutput, parallel>>
    BY <1>6 DEF PrepareCall, InBatch, loopVars
  <2>2. ~parallel => i = Len(outcomes) + 1
    <3>1. SUFFICES ASSUME ~parallel PROVE i = Len(outcomes) + 1
      OBVIOUS
    <3>2. InOrder
      BY <2>1, <3>1 DEF Batch
    <3>3. i > Len(outcomes)
      BY <2>1, <3>2, <1>0 DEF InOrder, IsNext
    <3>4. ASSUME i > Len(outcomes) + 1 PROVE FALSE
      <4>1. Len(outcomes) + 1 \in 1 .. i - 1 /\ Len(outcomes) + 1 \in DOMAIN calls
        BY <3>4, <1>0
      <4>2. calls[Len(outcomes) + 1] = "finished"
        BY <4>1, <2>1, <3>1 DEF IsNext
      <4>. QED
        BY <4>1, <4>2, <3>2, <1>0 DEF InOrder
    <3>. QED
      BY <3>3, <3>4, <1>0
  <2>3. CASE Finish(i, FALSE)
    <3>1. Settled' /\ (~parallel => InOrder') /\ Len(calls') = Len(calls)
      BY <2>1, <2>2, <2>3, FinishBatch
    <3>. QED
      BY <3>1, <2>1 DEF Batch, InBatch
  <2>4. CASE /\ calls' = [calls EXCEPT ![i] = IF parallel THEN "prepared" ELSE "running"]
             /\ UNCHANGED <<outcomes, emitted>>
    <3>1. Len(calls') = Len(calls) /\ DOMAIN calls' = DOMAIN calls
      BY <2>4, <1>0, LenProperties, ExceptSeq DEF TypeOK, CallStates
    <3>2. /\ calls[i] = "new" /\ calls'[i] # "finished" /\ calls'[i] # "new"
          /\ \A j \in DOMAIN calls : j # i => calls'[j] = calls[j]
      BY <2>1, <2>4 DEF IsNext
    <3>3. Settled'
      BY <2>1, <2>4, <3>1, <3>2 DEF Batch, Settled
    <3>4. ASSUME ~parallel PROVE InOrder'
      <4>1. InOrder
        BY <2>1, <3>4 DEF Batch
      <4>. QED
        BY <4>1, <3>4, <3>1, <3>2, <2>2, <2>4, <1>0 DEF InOrder
    <3>. QED
      BY <3>1, <3>3, <3>4, <2>1 DEF Batch, InBatch
  <2>. QED
    BY <2>3, <2>4, <1>6 DEF PrepareCall
<1>7. ASSUME NEW i \in DOMAIN calls, FinishCall(i) PROVE Batch'
  <2>1. /\ InBatch /\ calls[i] = "running"
        /\ UNCHANGED <<pc, turn, turnOutput, parallel>>
    BY <1>7 DEF FinishCall, InBatch, loopVars
  <2>2. ~parallel => i = Len(outcomes) + 1
    BY <2>1, <1>0 DEF Batch, InOrder
  <2>3. PICK ends \in BOOLEAN : Finish(i, ends)
    BY <1>7 DEF FinishCall
  <2>4. Settled' /\ (~parallel => InOrder') /\ Len(calls') = Len(calls)
    BY <2>1, <2>2, <2>3, FinishBatch
  <2>. QED
    BY <2>1, <2>4 DEF Batch, InBatch
<1>8. CASE Enqueue \/ Abort \/ UNCHANGED vars
  <2>1. UNCHANGED <<pc, turn, turnOutput, parallel, calls, outcomes>>
    BY <1>8 DEF Enqueue, Abort, vars, loopVars, batchVars
  <2>. QED
    BY <2>1 DEF Batch, InBatch, Settled, InOrder
<1>. QED
  BY <1>1, <1>2, <1>3, <1>4, <1>5, <1>6, <1>7, <1>8 DEF Next, Loop, Tools

-----------------------------------------------------------------------------
(* The transcript so far                                                   *)

\* What has been told, and what the turn in progress adds, are messages.
LEMMA ToldType == TypeOK => Told \in Seq(Message)
BY ConcatProperties DEF TypeOK, Told

\* The prompts ask for nothing and answer nothing.
LEMMA UsersAnswered ==
  ASSUME NEW s \in Seq(Message), AllUsers(s)
  PROVE  Answered(s)
<1>1. \A k \in DOMAIN s : ~Asks(s[k]) /\ s[k].role # "toolResult"
  BY DEF AllUsers, Asks
<1>. QED
  BY <1>1, AnsweredQuiet

\* What follows the original context is what the run adds to it.
LEMMA AddedToContext ==
  ASSUME NEW s \in Seq(Message), NEW t \in Seq(Message), t # <<>>
  PROVE  SubSeq(s \o t, Len(s) + 1, Len(s \o t)) = t /\ Len(s) <= Len(s \o t)
<1>1. Len(s) \in Nat /\ Len(t) \in Nat \ {0} /\ Len(s \o t) = Len(s) + Len(t)
  BY LenProperties, EmptySeq, ConcatProperties
<1>2. /\ Len(s) + 1 \in Len(s) + 1 .. Len(s) + Len(t)
      /\ Len(s) + Len(t) \in Len(s) + 1 .. Len(s) + Len(t)
  BY <1>1
<1>3. SubSeq(s \o t, Len(s) + 1, Len(s) + Len(t))
        = SubSeq(t, (Len(s) + 1) - Len(s), (Len(s) + Len(t)) - Len(s))
  BY <1>2, SubSeqOfConcat2
<1>4. (Len(s) + 1) - Len(s) = 1 /\ (Len(s) + Len(t)) - Len(s) = Len(t)
  BY <1>1
<1>. QED
  BY <1>1, <1>3, <1>4, SubSeqFull

LEMMA StoryInit == Init => Story
<1>. SUFFICES ASSUME Init PROVE Story
  OBVIOUS
<1>1. /\ pc = "begin" /\ cause = "none"
      /\ emitted = <<>> /\ collected = <<>> /\ ctx = original
      /\ prompts = IF entry = "prompt" THEN <<UserMessage(1)>> ELSE <<>>
  BY DEF Init
<1>. QED
  BY <1>1 DEF Story, Between, InTurn

\* A step between turns that leaves the transcript and the context alone.
LEMMA StoryBetween ==
  ASSUME Story, pc \in Between, pc' \in Between,
         UNCHANGED <<entry, prompts, collected, emitted, ctx, original, rewritten>>,
         pc' = "failed" <=> cause' # "none"
  PROVE  Story'
<1>1. Told' = Told
  BY DEF Told
<1>2. emitted = Told /\ Answered(Told) /\ (~rewritten => ctx = original \o Told)
  BY DEF Story
<1>3. prompts' = IF entry' = "prompt" THEN <<UserMessage(1)>> ELSE <<>>
  BY DEF Story
<1>4. Answered(Told')
  BY <1>1, <1>2
<1>. QED
  BY <1>1, <1>2, <1>3, <1>4 DEF Story, Between, InTurn

\* The transcript of a run that has begun holds the prompts, and no more.
LEMMA StoryBegin == TypeOK /\ Story /\ Begin => Story'
<1>. SUFFICES ASSUME TypeOK, Story, Begin PROVE Story'
  OBVIOUS
<1>1. /\ pc = "begin" /\ emitted = <<>> /\ collected = <<>> /\ ctx = original /\ cause = "none"
      /\ prompts = IF entry = "prompt" THEN <<UserMessage(1)>> ELSE <<>>
      /\ UNCHANGED <<entry, original, prompts, collected, cause, rewritten>>
  BY DEF Begin, Story, inputVars
<1>2. CASE pc' = "rejected"
  <2>1. UNCHANGED textVars
    BY <1>2 DEF Begin
  <2>. QED
    BY <1>1, <1>2, <2>1 DEF Story, Between, InTurn, textVars
<1>3. CASE pc' # "rejected"
  <2>1. /\ pc' \in {"startTurn", "initialPoll"}
        /\ ctx' = original \o prompts /\ emitted' = <<>> \o prompts
    BY <1>1, <1>3 DEF Begin, Record
  <2>2. prompts \in Seq(Message)
    BY DEF TypeOK
  <2>3. Told' = prompts /\ emitted' = prompts
    BY <1>1, <2>1, <2>2, ConcatEmptySeq DEF Told
  <2>4. AllUsers(prompts)
    <3>1. AllUsers(<<UserMessage(1)>>)
      BY OneUser
    <3>2. AllUsers(<<>>)
      BY DEF AllUsers
    <3>. QED
      BY <1>1, <3>1, <3>2
  <2>5. Answered(prompts)
    BY <2>2, <2>4, UsersAnswered
  <2>6. Answered(Told')
    BY <2>3, <2>5
  <2>7. prompts' = IF entry' = "prompt" THEN <<UserMessage(1)>> ELSE <<>>
    BY <1>1
  <2>. QED
    BY <1>1, <2>1, <2>3, <2>6, <2>7 DEF Story, Between, InTurn
<1>. QED
  BY <1>2, <1>3

\* Injected messages enter the transcript, the context and the collection.
LEMMA StoryStartTurn == TypeOK /\ Story /\ AllUsers(pending) /\ StartTurn => Story'
<1>. SUFFICES ASSUME TypeOK, Story, AllUsers(pending), StartTurn PROVE Story'
  OBVIOUS
<1>1. /\ emitted = Told /\ Answered(Told) /\ (~rewritten => ctx = original \o Told)
      /\ cause = "none"
      /\ prompts = IF entry = "prompt" THEN <<UserMessage(1)>> ELSE <<>>
  BY DEF StartTurn, Story, Between
<1>2. /\ pc' = "request" /\ emitted' = Told \o pending /\ ctx' = ctx \o pending
      /\ collected' = collected \o pending
      /\ UNCHANGED <<entry, original, prompts, cause, rewritten>>
  BY <1>1 DEF StartTurn, Record, inputVars
<1>3. /\ pending \in Seq(Message) /\ prompts \in Seq(Message) /\ collected \in Seq(Message)
      /\ original \in Seq(Message) /\ Told \in Seq(Message)
  BY ToldType DEF TypeOK
<1>4. Told' = Told \o pending
  <2>1. Told' = prompts \o (collected \o pending)
    BY <1>2 DEF Told
  <2>2. (prompts \o collected) \o pending = prompts \o (collected \o pending)
    BY <1>3, Associative, SMTT(40)
  <2>. QED
    BY <2>1, <2>2 DEF Told
<1>5. Answered(Told \o pending)
  BY <1>1, <1>3, UsersAnswered, AnsweredConcat
<1>6. ~rewritten => ctx' = original \o Told'
  <2>1. (original \o Told) \o pending = original \o (Told \o pending)
    BY <1>3, Associative, SMTT(40)
  <2>. QED
    BY <2>1, <1>1, <1>2, <1>4
<1>7. Answered(Told') /\ emitted' = Told'
  BY <1>2, <1>4, <1>5
<1>8. prompts' = IF entry' = "prompt" THEN <<UserMessage(1)>> ELSE <<>>
  BY <1>1, <1>2
<1>. QED
  BY <1>2, <1>1, <1>6, <1>7, <1>8 DEF Story, Between, InTurn

\* A step inside a turn: what the turn has shown, and what it put in the context.
LEMMA StoryInTurn ==
  ASSUME TypeOK, Story, pc' \in InTurn, cause = "none",
         UNCHANGED <<entry, prompts, collected, original, rewritten, cause>>,
         Answered(Told),
         emitted' = (Told \o turnOutput')
                      \o (IF pc' \in {"answer", "endTurn"} THEN <<>> ELSE ShownResults'),
         ~rewritten => ctx' = original \o (Told \o turnOutput')
  PROVE  Story'
<1>1. Told' = Told
  BY DEF Told
<1>2. Answered(Told')
  BY <1>1
<1>3. prompts' = IF entry' = "prompt" THEN <<UserMessage(1)>> ELSE <<>>
  BY DEF Story
<1>. QED
  BY <1>1, <1>2, <1>3 DEF Story, Between, InTurn

\* The assistant message is shown and enters the context.
LEMMA StoryReceive == TypeOK /\ Story /\ ReceiveMessage => Story'
<1>. SUFFICES ASSUME TypeOK, Story, ReceiveMessage PROVE Story'
  OBVIOUS
<1>1. PICK m \in Message : Record(<<m>>) /\ turnOutput' = <<m>>
  <2>1. \A n \in 0 .. MaxCalls, stop \in StopReasons :
          AssistantMessage(turn, n, stop) \in Message
    BY TurnLimitPositive, AgentLoopAssumption, MessageTypes DEF TypeOK
  <2>. QED
    BY <2>1 DEF ReceiveMessage
<1>2. /\ pc = "streaming" /\ pc' \in {"answer", "prepareCall", "endTurn"}
      /\ outcomes' = <<>>
      /\ UNCHANGED <<entry, prompts, collected, original, rewritten, cause>>
  BY DEF ReceiveMessage, inputVars
<1>3. /\ emitted = Told /\ Answered(Told) /\ (~rewritten => ctx = original \o Told)
      /\ cause = "none"
  BY <1>2 DEF Story, Between
<1>4. /\ <<m>> \in Seq(Message) /\ Told \in Seq(Message) /\ original \in Seq(Message)
      /\ Told \o <<m>> \in Seq(Message)
  BY OneMessage, ToldType, ConcatProperties DEF TypeOK
<1>5. ShownResults' = <<>>
  BY <1>2 DEF ShownResults, ResultMessages
<1>6. emitted' = (Told \o turnOutput') \o <<>>
  BY <1>1, <1>3, <1>4, ConcatEmptySeq DEF Record
<1>7. ~rewritten => ctx' = original \o (Told \o turnOutput')
  <2>1. (original \o Told) \o <<m>> = original \o (Told \o <<m>>)
    BY <1>4, Associative
  <2>. QED
    BY <2>1, <1>1, <1>3 DEF Record
<1>8. pc' \in InTurn
  BY <1>2 DEF InTurn
<1>. QED
  BY <1>2, <1>3, <1>5, <1>6, <1>7, <1>8, StoryInTurn

\* What every step of a batch starts from.
LEMMA InTurnFacts ==
  ASSUME TypeOK, Story, pc \in InTurn
  PROVE  /\ cause = "none" /\ Answered(Told)
         /\ emitted = (Told \o turnOutput)
                         \o (IF pc \in {"answer", "endTurn"} THEN <<>> ELSE ShownResults)
         /\ (~rewritten => ctx = original \o (Told \o turnOutput))
         /\ original \in Seq(Message) /\ turnOutput \in Seq(Message)
         /\ Told \in Seq(Message) /\ Told \o turnOutput \in Seq(Message)
BY ToldType, ConcatProperties DEF Story, InTurn, TypeOK

\* A turn without results.
LEMMA ConcatNothing == \A s, t \in Seq(Message) : (s \o t) \o <<>> = s \o t
BY ConcatProperties, ConcatEmptySeq

\* Results that enter the context extend the output of the turn.
LEMMA ResultsEnter ==
  ASSUME TypeOK, NEW results \in Seq(Message), turnOutput' = turnOutput \o results
  PROVE  /\ (Told \o turnOutput) \o results = Told \o turnOutput'
         /\ (original \o (Told \o turnOutput)) \o results = original \o (Told \o turnOutput')
         /\ (Told \o turnOutput) \o <<>> = Told \o turnOutput
         /\ (Told \o turnOutput') \o <<>> = Told \o turnOutput'
<1>1. original \in Seq(Message) /\ turnOutput \in Seq(Message) /\ Told \in Seq(Message)
  BY ToldType DEF TypeOK
<1>2. turnOutput' \in Seq(Message)
  BY <1>1, ConcatProperties
<1>3. (Told \o turnOutput) \o results = Told \o (turnOutput \o results)
  BY <1>1, Associative
<1>4. (original \o (Told \o turnOutput)) \o results = original \o (Told \o (turnOutput \o results))
  <2>1. Told \o turnOutput \in Seq(Message)
    BY <1>1, ConcatProperties
  <2>2. (original \o (Told \o turnOutput)) \o results
          = original \o ((Told \o turnOutput) \o results)
    BY <2>1, <1>1, Associative, SMTT(40)
  <2>. QED
    BY <2>2, <1>3
<1>5. (Told \o turnOutput) \o <<>> = Told \o turnOutput
  BY <1>1, ConcatNothing
<1>6. (Told \o turnOutput') \o <<>> = Told \o turnOutput'
  BY <1>1, <1>2, ConcatNothing
<1>. QED
  BY <1>3, <1>4, <1>5, <1>6

LEMMA StoryAnswer == TypeOK /\ Batch /\ Story /\ AnswerTruncated => Story'
<1>. SUFFICES ASSUME TypeOK, Batch, Story, AnswerTruncated PROVE Story'
  OBVIOUS
<1>. DEFINE results == Results(turn, turnOutput[1].n)
<1>1. /\ pc = "answer" /\ pc' = "endTurn"
      /\ UNCHANGED <<entry, prompts, collected, original, rewritten, cause>>
  BY DEF AnswerTruncated, inputVars
<1>2. /\ ctx' = ctx \o results /\ emitted' = emitted \o results
      /\ turnOutput' = turnOutput \o results /\ results \in Seq(Message)
  BY <1>1, AnswerTypes DEF AnswerTruncated, Record
<1>. HIDE DEF results
<1>3. pc \in InTurn /\ pc' \in InTurn
  BY <1>1 DEF InTurn
<1>4. /\ cause = "none" /\ Answered(Told)
      /\ emitted = (Told \o turnOutput) \o <<>>
      /\ (~rewritten => ctx = original \o (Told \o turnOutput))
      /\ original \in Seq(Message) /\ turnOutput \in Seq(Message) /\ Told \in Seq(Message)
  BY <1>1, <1>3, InTurnFacts
<1>5. /\ (Told \o turnOutput) \o results = Told \o turnOutput'
      /\ (original \o (Told \o turnOutput)) \o results = original \o (Told \o turnOutput')
      /\ (Told \o turnOutput) \o <<>> = Told \o turnOutput
      /\ (Told \o turnOutput') \o <<>> = Told \o turnOutput'
  BY <1>2, ResultsEnter
<1>6. emitted' = (Told \o turnOutput') \o <<>>
  BY <1>2, <1>4, <1>5
<1>7. ~rewritten => ctx' = original \o (Told \o turnOutput')
  BY <1>2, <1>4, <1>5
<1>. QED
  BY <1>1, <1>3, <1>4, <1>6, <1>7, StoryInTurn

LEMMA StoryClose == TypeOK /\ Batch /\ Story /\ CloseBatch => Story'
<1>. SUFFICES ASSUME TypeOK, Batch, Story, CloseBatch PROVE Story'
  OBVIOUS
<1>. DEFINE results == Results(turn, Len(calls))
<1>1. /\ pc \in {"prepareCall", "executing"} /\ pc' = "endTurn"
      /\ UNCHANGED <<entry, prompts, collected, original, rewritten, cause>>
  BY DEF CloseBatch, inputVars
<1>2. /\ ctx' = ctx \o results /\ emitted' = IF parallel THEN emitted \o results ELSE emitted
      /\ turnOutput' = turnOutput \o results /\ results \in Seq(Message)
      /\ ~parallel => ResultMessages(outcomes) = results
  BY BatchResults DEF CloseBatch
<1>. HIDE DEF results
<1>3. pc \in InTurn /\ pc' \in InTurn
  BY <1>1 DEF InTurn
<1>4. /\ cause = "none" /\ Answered(Told)
      /\ emitted = (Told \o turnOutput) \o ShownResults
      /\ (~rewritten => ctx = original \o (Told \o turnOutput))
      /\ original \in Seq(Message) /\ turnOutput \in Seq(Message) /\ Told \in Seq(Message)
  BY <1>1, <1>3, InTurnFacts
<1>5. /\ (Told \o turnOutput) \o results = Told \o turnOutput'
      /\ (original \o (Told \o turnOutput)) \o results = original \o (Told \o turnOutput')
      /\ (Told \o turnOutput) \o <<>> = Told \o turnOutput
      /\ (Told \o turnOutput') \o <<>> = Told \o turnOutput'
  BY <1>2, ResultsEnter
<1>6. emitted' = (Told \o turnOutput') \o <<>>
  <2>1. CASE parallel
    BY <2>1, <1>2, <1>4, <1>5 DEF ShownResults
  <2>2. CASE ~parallel
    BY <2>2, <1>2, <1>4, <1>5 DEF ShownResults
  <2>. QED
    BY <2>1, <2>2
<1>7. ~rewritten => ctx' = original \o (Told \o turnOutput')
  BY <1>2, <1>4, <1>5
<1>. QED
  BY <1>1, <1>3, <1>4, <1>6, <1>7, StoryInTurn

\* A settled call shows its result at once in a sequential batch, and later in a
\* parallel one.
LEMMA StoryFinish ==
  ASSUME TypeOK, Story, InBatch, NEW i \in DOMAIN calls, NEW ends \in BOOLEAN,
         Finish(i, ends), UNCHANGED <<loopVars, parallel, ctx, inputVars>>
  PROVE  Story'
<1>1. /\ pc' = pc /\ parallel' = parallel /\ turn' = turn /\ turnOutput' = turnOutput
      /\ ctx' = ctx
      /\ UNCHANGED <<entry, prompts, collected, original, rewritten, cause>>
  BY DEF loopVars, inputVars
<1>2. pc \in InTurn /\ pc \notin {"answer", "endTurn"}
  BY DEF InBatch, InTurn
<1>3. /\ cause = "none" /\ Answered(Told)
      /\ emitted = (Told \o turnOutput) \o ShownResults
      /\ (~rewritten => ctx = original \o (Told \o turnOutput))
      /\ Told \o turnOutput \in Seq(Message)
  BY <1>2, InTurnFacts
<1>4. emitted' = (Told \o turnOutput) \o ShownResults'
  <2>1. CASE parallel
    BY <2>1, <1>1, <1>3 DEF ShownResults, Finish
  <2>2. CASE ~parallel
    <3>. DEFINE r == ToolResult(turn, i)
                given == ResultMessages(outcomes)
    <3>1. /\ turn \in Nat /\ outcomes \in Seq(Outcomes)
          /\ Outcome(i, ends) \in Outcomes /\ r \in Message
          /\ outcomes' = Append(outcomes, Outcome(i, ends))
      <4>1. turn \in Nat /\ outcomes \in Seq(Outcomes)
        BY TurnLimitPositive DEF TypeOK
      <4>2. /\ Outcome(i, ends) \in Outcomes /\ r \in Message
            /\ outcomes' = Append(outcomes, Outcome(i, ends))
        BY FinishTypes
      <4>. QED
        BY <4>1, <4>2
    <3>2. Outcome(i, ends).index = i
      BY DEF Outcome
    <3>3. ResultMessages(Append(outcomes, Outcome(i, ends))) = Append(given, r)
      BY <3>1, <3>2, ResultMessagesAppend
    <3>4. ResultMessages(outcomes)' = Append(given, r)
      BY <3>1, <3>3, <1>1 DEF ResultMessages
    <3>5. emitted' = Append((Told \o turnOutput) \o given, r)
      BY <2>2, <1>3 DEF Finish, ShownResults
    <3>6. given \in Seq(Message)
      BY <3>1, ResultMessagesProperties
    <3>. HIDE DEF given, r
    <3>7. <<r>> \in Seq(Message) /\ (Told \o turnOutput) \o given \in Seq(Message)
      BY <3>1, <3>6, <1>3, OneMessage, ConcatProperties
    <3>8. /\ Append(given, r) = given \o <<r>>
          /\ Append((Told \o turnOutput) \o given, r) = ((Told \o turnOutput) \o given) \o <<r>>
      BY <3>1, <3>6, <3>7, AppendIsConcat
    <3>9. ((Told \o turnOutput) \o given) \o <<r>> = (Told \o turnOutput) \o (given \o <<r>>)
      BY <3>6, <3>7, <1>3, Associative
    <3>. QED
      BY <3>4, <3>5, <3>8, <3>9, <2>2, <1>1 DEF ShownResults
  <2>. QED
    BY <2>1, <2>2
<1>. QED
  BY <1>1, <1>2, <1>3, <1>4, StoryInTurn

\* The output of a turn that is over joins what has been told.
LEMMA StoryEndTurn == TypeOK /\ Batch /\ Story /\ EndTurn => Story'
<1>. SUFFICES ASSUME TypeOK, Batch, Story, EndTurn PROVE Story'
  OBVIOUS
<1>1. /\ pc = "endTurn" /\ pc' \in {"finish", "prepareNext"}
      /\ collected' = collected \o turnOutput
      /\ UNCHANGED <<entry, prompts, original, rewritten, cause, ctx, emitted>>
  BY DEF EndTurn, inputVars, textVars
<1>2. pc \in InTurn
  BY <1>1 DEF InTurn
<1>3. /\ cause = "none" /\ Answered(Told)
      /\ emitted = (Told \o turnOutput) \o <<>>
      /\ (~rewritten => ctx = original \o (Told \o turnOutput))
      /\ turnOutput \in Seq(Message) /\ Told \in Seq(Message)
  BY <1>1, <1>2, InTurnFacts
<1>4. Told' = Told \o turnOutput
  <2>1. Told' = prompts \o (collected \o turnOutput)
    BY <1>1 DEF Told
  <2>2. prompts \in Seq(Message) /\ collected \in Seq(Message)
    BY DEF TypeOK
  <2>3. (prompts \o collected) \o turnOutput = prompts \o (collected \o turnOutput)
    BY <2>2, <1>3, Associative
  <2>. QED
    BY <2>1, <2>3 DEF Told
<1>5. emitted' = Told'
  BY <1>1, <1>3, <1>4, ConcatNothing
<1>6. Answered(Told \o turnOutput)
  <2>1. Answered(turnOutput)
    BY <1>1, <1>3, WholeTurnAnswered DEF Batch
  <2>. QED
    BY <2>1, <1>3, AnsweredConcat
<1>7. Answered(Told')
  BY <1>4, <1>6
<1>8. ~rewritten => ctx' = original \o Told'
  BY <1>1, <1>3, <1>4
<1>9. prompts' = IF entry' = "prompt" THEN <<UserMessage(1)>> ELSE <<>>
  BY <1>1 DEF Story
<1>. QED
  BY <1>1, <1>3, <1>5, <1>7, <1>8, <1>9 DEF Story, Between, InTurn

\* A run that fails shows the error last, and returns what follows the context
\* it began with.
LEMMA StoryFinishWithError == TypeOK /\ Story /\ FinishWithError => Story'
<1>. SUFFICES ASSUME TypeOK, Story, FinishWithError PROVE Story'
  OBVIOUS
<1>1. PICK m \in Message :
        /\ m.role = "assistant" /\ ~Asks(m)
        /\ ctx' = ctx \o <<m>> /\ emitted' = emitted \o <<m>>
  <2>. DEFINE m == AssistantMessage(turn, 0, IF abort THEN "aborted" ELSE "error")
  <2>1. m \in Message
    <3>1. \A stop \in {"aborted", "error"} : AssistantMessage(turn, 0, stop) \in Message
      <4>1. turn \in Nat
        BY TurnLimitPositive DEF TypeOK
      <4>. QED
        BY <4>1, MessageTypes DEF StopReasons
    <3>. QED
      BY <3>1
  <2>2. m.role = "assistant" /\ ~Asks(m)
    BY DEF AssistantMessage, Asks
  <2>. QED
    BY <2>1, <2>2 DEF FinishWithError, Record
<1>2. /\ pc = "failed" /\ pc' \in {"done", "panicked"}
      /\ pc' = "done" => returned' = SubSeq(ctx', Len(original) + 1, Len(ctx'))
      /\ UNCHANGED <<entry, prompts, collected, original, rewritten, cause>>
  BY DEF FinishWithError, OriginalLen, inputVars
<1>3. /\ emitted = Told /\ Answered(Told) /\ (~rewritten => ctx = original \o Told)
      /\ cause # "none"
  BY <1>2 DEF Story, Between
<1>4. /\ <<m>> \in Seq(Message) /\ Told \in Seq(Message) /\ original \in Seq(Message)
  BY OneMessage, ToldType DEF TypeOK
<1>5. /\ Told \o <<m>> \in Seq(Message) /\ Len(Told \o <<m>>) = Len(Told) + 1 /\ Len(Told) \in Nat
  BY <1>4, OneMessage, ConcatProperties, LenProperties
<1>6. Told \o <<m>> # <<>>
  BY <1>5, EmptySeq
<1>7. Answered(Told \o <<m>>)
  <2>1. \A k \in DOMAIN <<m>> : <<m>>[k] = m
    OBVIOUS
  <2>2. Answered(<<m>>)
    BY <2>1, <1>1, <1>4, AnsweredQuiet
  <2>. QED
    BY <2>2, <1>3, <1>4, AnsweredConcat
<1>8. emitted' = Told \o <<m>>
  BY <1>1, <1>3
<1>9. Answered(emitted')
  BY <1>7, <1>8
<1>10. pc' = "done" /\ ~rewritten => returned' = emitted'
  <2>1. SUFFICES ASSUME pc' = "done", ~rewritten PROVE returned' = emitted'
    OBVIOUS
  <2>2. (original \o Told) \o <<m>> = original \o (Told \o <<m>>)
    BY <1>4, Associative
  <2>3. ctx' = original \o (Told \o <<m>>)
    BY <2>1, <2>2, <1>1, <1>3
  <2>. DEFINE new == Told \o <<m>>
  <2>4. new \in Seq(Message) /\ new # <<>> /\ ctx' = original \o new /\ emitted' = new
    BY <2>3, <1>5, <1>6, <1>8
  <2>. HIDE DEF new
  <2>5. SubSeq(original \o new, Len(original) + 1, Len(original \o new)) = new
    BY <2>4, <1>4, AddedToContext
  <2>. QED
    BY <2>1, <2>4, <2>5, <1>2
<1>11. prompts' = IF entry' = "prompt" THEN <<UserMessage(1)>> ELSE <<>>
  BY <1>2 DEF Story
<1>. QED
  BY <1>2, <1>3, <1>9, <1>10, <1>11 DEF Story, Between, InTurn

\* A run that does not fail returns what it collected, which is what it told.
LEMMA StoryFinishRun == TypeOK /\ Story /\ FinishRun => Story'
<1>. SUFFICES ASSUME TypeOK, Story, FinishRun PROVE Story'
  OBVIOUS
<1>1. /\ pc = "finish" /\ pc' = "done" /\ returned' = Told
      /\ UNCHANGED <<entry, prompts, emitted, cause, rewritten>>
  BY DEF FinishRun, Told, inputVars, textVars
<1>2. emitted = Told /\ Answered(Told)
  BY <1>1 DEF Story, Between
<1>3. Answered(emitted') /\ returned' = emitted'
  BY <1>1, <1>2
<1>4. prompts' = IF entry' = "prompt" THEN <<UserMessage(1)>> ELSE <<>>
  BY <1>1 DEF Story
<1>. QED
  BY <1>1, <1>3, <1>4 DEF Story, Between, InTurn

\* The next turn, or the turn limit.
LEMMA NextTurnBetween ==
  ASSUME NextTurn, cause = "none"
  PROVE  /\ pc' \in {"startTurn", "failed"}
         /\ pc' = "failed" <=> cause' # "none"
BY DEF NextTurn, Fail

LEMMA StoryNext == TypeOK /\ Batch /\ Story /\ AllUsers(pending) /\ [Next]_vars => Story'
<1>. SUFFICES ASSUME TypeOK, Batch, Story, AllUsers(pending), [Next]_vars PROVE Story'
  OBVIOUS
<1>1. CASE Begin
  BY <1>1, StoryBegin
<1>2. CASE InitialPoll \/ Request \/ StreamFails \/ ShouldStop \/ PollSteering \/ PollFollowUp
  <2>1. /\ pc \in Between
        /\ UNCHANGED <<entry, prompts, collected, emitted, ctx, original, rewritten>>
    BY <1>2 DEF InitialPoll, Request, StreamFails, ShouldStop, PollSteering, PollFollowUp,
       Between, inputVars, textVars
  <2>2. cause = "none"
    BY <1>2 DEF Story, InitialPoll, Request, StreamFails, ShouldStop, PollSteering, PollFollowUp
  <2>3. /\ pc' \in Between
        /\ pc' = "failed" <=> cause' # "none"
    <3>1. CASE InitialPoll \/ Request \/ StreamFails \/ ShouldStop
      BY <3>1, <2>2 DEF InitialPoll, Request, StreamFails, ShouldStop, Fail, Between
    <3>2. CASE PollSteering
      BY <3>2, <2>2, NextTurnBetween DEF PollSteering, Fail, Between
    <3>3. CASE PollFollowUp
      BY <3>3, <2>2, NextTurnBetween DEF PollFollowUp, Fail, Between
    <3>. QED
      BY <3>1, <3>2, <3>3, <1>2
  <2>. QED
    BY <2>1, <2>3, StoryBetween
<1>3. CASE StartTurn
  BY <1>3, StoryStartTurn
<1>4. CASE ReceiveMessage
  BY <1>4, StoryReceive
<1>5. CASE AnswerTruncated
  BY <1>5, StoryAnswer
<1>6. CASE StartPrepared
  <2>1. /\ pc = "prepareCall" /\ pc' = "executing" /\ parallel
        /\ UNCHANGED <<entry, prompts, collected, original, rewritten, cause, ctx, emitted,
                       turnOutput, parallel>>
    BY <1>6 DEF StartPrepared, inputVars, textVars
  <2>2. pc \in InTurn /\ pc' \in InTurn
    BY <2>1 DEF InTurn
  <2>3. /\ cause = "none" /\ Answered(Told)
        /\ emitted = (Told \o turnOutput) \o ShownResults
        /\ (~rewritten => ctx = original \o (Told \o turnOutput))
    BY <2>1, <2>2, InTurnFacts
  <2>4. ShownResults = <<>> /\ ShownResults' = <<>>
    BY <2>1 DEF ShownResults
  <2>. QED
    BY <2>1, <2>2, <2>3, <2>4, StoryInTurn
<1>7. CASE CloseBatch
  BY <1>7, StoryClose
<1>8. CASE EndTurn
  BY <1>8, StoryEndTurn
<1>9. CASE PrepareNext
  <2>1. /\ pc = "prepareNext" /\ pc' \in {"shouldStop", "failed"}
        /\ UNCHANGED <<entry, prompts, collected, emitted, original>>
    BY <1>9 DEF PrepareNext, Fail, inputVars
  <2>2. cause = "none" /\ emitted = Told /\ Answered(Told) /\ (~rewritten => ctx = original \o Told)
    BY <2>1 DEF Story, Between
  <2>3. CASE UNCHANGED <<ctx, rewritten>>
    <3>1. pc' = "failed" <=> cause' # "none"
      BY <1>9, <2>2 DEF PrepareNext, Fail
    <3>2. pc \in Between /\ pc' \in Between
      BY <2>1 DEF Between
    <3>. QED
      BY <2>1, <2>3, <3>1, <3>2, StoryBetween
  <2>4. CASE rewritten' /\ pc' = "shouldStop" /\ UNCHANGED cause
    <3>1. Told' = Told /\ emitted' = Told'
      BY <2>1, <2>2 DEF Told
    <3>2. Answered(Told')
      BY <3>1, <2>2
    <3>3. prompts' = IF entry' = "prompt" THEN <<UserMessage(1)>> ELSE <<>>
      BY <2>1 DEF Story
    <3>. QED
      BY <2>2, <2>4, <3>1, <3>2, <3>3 DEF Story, Between, InTurn
  <2>. QED
    BY <2>3, <2>4, <1>9 DEF PrepareNext
<1>10. CASE FinishWithError
  BY <1>10, StoryFinishWithError
<1>11. CASE FinishRun
  BY <1>11, StoryFinishRun
<1>12. ASSUME NEW i \in DOMAIN calls, PrepareCall(i) PROVE Story'
  <2>1. /\ pc = "prepareCall" /\ InBatch
        /\ UNCHANGED <<loopVars, parallel, ctx, inputVars>>
    BY <1>12 DEF PrepareCall, InBatch
  <2>2. CASE Finish(i, FALSE)
    BY <2>1, <2>2, StoryFinish
  <2>3. CASE UNCHANGED <<outcomes, emitted>>
    <3>1. /\ pc' = pc /\ turn' = turn
          /\ UNCHANGED <<entry, prompts, collected, original, rewritten, cause, ctx, emitted,
                         turnOutput, parallel, outcomes>>
      BY <2>1, <2>3 DEF loopVars, inputVars
    <3>2. pc \in InTurn
      BY <2>1 DEF InTurn
    <3>3. /\ cause = "none" /\ Answered(Told)
          /\ emitted = (Told \o turnOutput) \o ShownResults
          /\ (~rewritten => ctx = original \o (Told \o turnOutput))
      BY <2>1, <3>2, InTurnFacts
    <3>4. ShownResults' = ShownResults
      BY <3>1 DEF ShownResults, ResultMessages
    <3>. QED
      BY <2>1, <3>1, <3>2, <3>3, <3>4, StoryInTurn
  <2>. QED
    BY <2>2, <2>3, <1>12 DEF PrepareCall
<1>13. ASSUME NEW i \in DOMAIN calls, FinishCall(i) PROVE Story'
  BY <1>13, StoryFinish DEF FinishCall, InBatch
<1>14. CASE Enqueue \/ Abort \/ UNCHANGED vars
  <2>1. /\ pc' = pc /\ turn' = turn
        /\ UNCHANGED <<entry, prompts, collected, original, rewritten, cause, ctx, emitted,
                       turnOutput, parallel, outcomes, returned>>
    BY <1>14 DEF Enqueue, Abort, vars, loopVars, batchVars, textVars, inputVars
  <2>2. Told' = Told /\ ShownResults' = ShownResults
    BY <2>1 DEF Told, ShownResults, ResultMessages
  <2>3. Answered(Told)' <=> Answered(Told)
    BY <2>2
  <2>4. Answered(emitted)' <=> Answered(emitted)
    BY <2>1
  <2>. QED
    BY <2>1, <2>2, <2>3, <2>4 DEF Story
<1>. QED
  BY <1>1, <1>2, <1>3, <1>4, <1>5, <1>6, <1>7, <1>8, <1>9, <1>10, <1>11, <1>12, <1>13, <1>14
  DEF Next, Loop, Tools

-----------------------------------------------------------------------------
(* The user messages                                                       *)

\* The parts of a drained queue hold its messages, each in one part.
LEMMA DrainedQueue ==
  ASSUME NEW q \in Seq(Message), NEW k \in Takes(q), NEW next \in Nat, Queued(q, next)
  PROVE  /\ Queued(Taken(q, k), next) /\ Queued(Left(q, k), next)
         /\ Ids(Taken(q, k)) \cup Ids(Left(q, k)) = Ids(q)
         /\ Ids(Taken(q, k)) \cap Ids(Left(q, k)) = {}
<1>1. /\ Taken(q, k) \in Seq(Message) /\ Left(q, k) \in Seq(Message)
      /\ q = Taken(q, k) \o Left(q, k)
  BY TakenLeft
<1>. DEFINE t == Taken(q, k)
            l == Left(q, k)
<1>. HIDE DEF t, l
<1>2. t \in Seq(Message) /\ l \in Seq(Message) /\ q = t \o l
  BY <1>1 DEF t, l
<1>3. /\ Ids(t \o l) = Ids(t) \cup Ids(l)
      /\ Numbered(t \o l) <=> Numbered(t) /\ Numbered(l)
      /\ AllUsers(t \o l) <=> AllUsers(t) /\ AllUsers(l)
      /\ Once(t \o l) <=> Once(t) /\ Once(l) /\ Ids(t) \cap Ids(l) = {}
  BY <1>2, ConcatUsers, ConcatOnce
<1>4. Queued(t \o l, next)
  BY <1>2
<1>5. /\ Queued(t, next) /\ Queued(l, next)
      /\ Ids(t) \cup Ids(l) = Ids(t \o l) /\ Ids(t) \cap Ids(l) = {}
  BY <1>3, <1>4 DEF Queued
<1>. QED
  BY <1>2, <1>5 DEF t, l

\* An empty sequence holds no user message.
LEMMA EmptyQueue == \A next \in Nat : Queued(<<>>, next) /\ Ids(<<>>) = {}
BY DEF Queued, AllUsers, Numbered, Once, Ids

\* Draining the steering queue moves its messages, or drops them with the error
\* of a provider; the rest stays where it is.
LEMMA DrainSteering ==
  ASSUME NEW st \in Seq(Message), NEW fu, NEW em, NEW next \in Nat, NEW k \in Takes(st),
         Delivered(st, fu, <<>>, em, next)
  PROVE  /\ Delivered(Left(st, k), fu, Taken(st, k), em, next)
         /\ Delivered(Left(st, k), fu, <<>>, em, next)
         /\ NoneLost(st, fu, <<>>, em, next) =>
              NoneLost(Left(st, k), fu, Taken(st, k), em, next)
<1>1. /\ Queued(Taken(st, k), next) /\ Queued(Left(st, k), next)
      /\ Ids(Taken(st, k)) \cup Ids(Left(st, k)) = Ids(st)
      /\ Ids(Taken(st, k)) \cap Ids(Left(st, k)) = {}
  BY DrainedQueue DEF Delivered
<1>2. Queued(<<>>, next) /\ Ids(<<>>) = {}
  BY EmptyQueue
<1>. QED
  BY <1>1, <1>2 DEF Delivered, NoneLost

LEMMA DrainFollowUp ==
  ASSUME NEW st, NEW fu \in Seq(Message), NEW em, NEW next \in Nat, NEW k \in Takes(fu),
         Delivered(st, fu, <<>>, em, next)
  PROVE  /\ Delivered(st, Left(fu, k), Taken(fu, k), em, next)
         /\ Delivered(st, Left(fu, k), <<>>, em, next)
         /\ NoneLost(st, fu, <<>>, em, next) =>
              NoneLost(st, Left(fu, k), Taken(fu, k), em, next)
<1>1. /\ Queued(Taken(fu, k), next) /\ Queued(Left(fu, k), next)
      /\ Ids(Taken(fu, k)) \cup Ids(Left(fu, k)) = Ids(fu)
      /\ Ids(Taken(fu, k)) \cap Ids(Left(fu, k)) = {}
  BY DrainedQueue DEF Delivered
<1>2. Queued(<<>>, next) /\ Ids(<<>>) = {}
  BY EmptyQueue
<1>. QED
  BY <1>1, <1>2 DEF Delivered, NoneLost

\* Drained messages that are injected move to the transcript.
LEMMA Inject ==
  ASSUME NEW st, NEW fu, NEW pe \in Seq(Message), NEW em \in Seq(Message), NEW next \in Nat,
         Delivered(st, fu, pe, em, next)
  PROVE  /\ Delivered(st, fu, <<>>, em \o pe, next)
         /\ NoneLost(st, fu, pe, em, next) => NoneLost(st, fu, <<>>, em \o pe, next)
<1>1. /\ Ids(em \o pe) = Ids(em) \cup Ids(pe)
      /\ Numbered(em \o pe) <=> Numbered(em) /\ Numbered(pe)
      /\ Once(em \o pe) <=> Once(em) /\ Once(pe) /\ Ids(em) \cap Ids(pe) = {}
  BY ConcatUsers, ConcatOnce
<1>2. Queued(<<>>, next) /\ Ids(<<>>) = {}
  BY EmptyQueue
<1>3. Numbered(em \o pe) /\ Once(em \o pe)
  BY <1>1 DEF Delivered, Queued
<1>4. Ids(em \o pe) \subseteq 1 .. next - 1
  BY <1>1 DEF Delivered, Queued
<1>. QED
  BY <1>1, <1>2, <1>3, <1>4 DEF Delivered, NoneLost

\* What the model and the tools say moves no user message.
LEMMA Say ==
  ASSUME NEW st, NEW fu, NEW pe, NEW em \in Seq(Message), NEW next \in Nat,
         NEW said \in Seq(Message), \A k \in DOMAIN said : said[k].role # "user",
         Delivered(st, fu, pe, em, next)
  PROVE  /\ Delivered(st, fu, pe, em \o said, next)
         /\ NoneLost(st, fu, pe, em, next) => NoneLost(st, fu, pe, em \o said, next)
<1>1. Ids(said) = {} /\ Numbered(said) /\ Once(said)
  BY NoUsers
<1>2. /\ Ids(em \o said) = Ids(em) \cup Ids(said)
      /\ Numbered(em \o said) <=> Numbered(em) /\ Numbered(said)
      /\ Once(em \o said) <=> Once(em) /\ Once(said) /\ Ids(em) \cap Ids(said) = {}
  BY ConcatUsers, ConcatOnce
<1>3. Ids(em \o said) = Ids(em) /\ Numbered(em \o said) /\ Once(em \o said)
  BY <1>1, <1>2 DEF Delivered
<1>. QED
  BY <1>3 DEF Delivered, NoneLost

\* A message the caller queues is new.
LEMMA Enqueued ==
  ASSUME NEW q \in Seq(Message), NEW next \in Nat, next >= 2, Queued(q, next)
  PROVE  /\ Queued(Append(q, UserMessage(next)), next + 1)
         /\ Ids(Append(q, UserMessage(next))) = Ids(q) \cup {next}
<1>. DEFINE one == <<UserMessage(next)>>
<1>1. one \in Seq(Message) /\ Ids(one) = {next} /\ Numbered(one) /\ Once(one) /\ AllUsers(one)
  BY OneUser
<1>2. UserMessage(next) \in Message
  BY MessageTypes
<1>3. Append(q, UserMessage(next)) = q \o one
  BY <1>2, AppendIsConcat
<1>. HIDE DEF one
<1>4. /\ Ids(q \o one) = Ids(q) \cup Ids(one)
      /\ Numbered(q \o one) <=> Numbered(q) /\ Numbered(one)
      /\ AllUsers(q \o one) <=> AllUsers(q) /\ AllUsers(one)
      /\ Once(q \o one) <=> Once(q) /\ Once(one) /\ Ids(q) \cap Ids(one) = {}
  BY <1>1, ConcatUsers, ConcatOnce
<1>5. next \notin Ids(q)
  BY DEF Queued
<1>6. Ids(q \o one) \subseteq 2 .. (next + 1) - 1
  BY <1>1, <1>4 DEF Queued
<1>7. Queued(q \o one, next + 1) /\ Ids(q \o one) = Ids(q) \cup {next}
  BY <1>1, <1>4, <1>5, <1>6 DEF Queued
<1>. QED
  BY <1>3, <1>7

\* A queued message stays one when others are queued.
LEMMA QueuedLater ==
  ASSUME NEW q, NEW next \in Nat, Queued(q, next)
  PROVE  Queued(q, next + 1) /\ next \notin Ids(q)
BY DEF Queued

LEMMA EnqueueSteering ==
  ASSUME NEW st \in Seq(Message), NEW fu, NEW pe, NEW em, NEW next \in Nat, next >= 2,
         Delivered(st, fu, pe, em, next)
  PROVE  LET new == Append(st, UserMessage(next)) IN
         /\ Delivered(new, fu, pe, em, next + 1)
         /\ NoneLost(st, fu, pe, em, next) => NoneLost(new, fu, pe, em, next + 1)
<1>. DEFINE new == Append(st, UserMessage(next))
<1>1. Queued(new, next + 1) /\ Ids(new) = Ids(st) \cup {next}
  BY Enqueued DEF Delivered
<1>. HIDE DEF new
<1>2. /\ Queued(fu, next + 1) /\ next \notin Ids(fu)
      /\ Queued(pe, next + 1) /\ next \notin Ids(pe)
  BY QueuedLater DEF Delivered
<1>3. next \notin Ids(em) /\ Ids(em) \subseteq 1 .. (next + 1) - 1
  BY DEF Delivered
<1>4. Delivered(new, fu, pe, em, next + 1)
  BY <1>1, <1>2, <1>3 DEF Delivered
<1>5. 2 .. (next + 1) - 1 = (2 .. next - 1) \cup {next}
  OBVIOUS
<1>6. NoneLost(st, fu, pe, em, next) => NoneLost(new, fu, pe, em, next + 1)
  BY <1>1, <1>5 DEF NoneLost
<1>. QED
  BY <1>4, <1>6 DEF new

LEMMA EnqueueFollowUp ==
  ASSUME NEW st, NEW fu \in Seq(Message), NEW pe, NEW em, NEW next \in Nat, next >= 2,
         Delivered(st, fu, pe, em, next)
  PROVE  LET new == Append(fu, UserMessage(next)) IN
         /\ Delivered(st, new, pe, em, next + 1)
         /\ NoneLost(st, fu, pe, em, next) => NoneLost(st, new, pe, em, next + 1)
<1>. DEFINE new == Append(fu, UserMessage(next))
<1>1. Queued(new, next + 1) /\ Ids(new) = Ids(fu) \cup {next}
  BY Enqueued DEF Delivered
<1>. HIDE DEF new
<1>2. /\ Queued(st, next + 1) /\ next \notin Ids(st)
      /\ Queued(pe, next + 1) /\ next \notin Ids(pe)
  BY QueuedLater DEF Delivered
<1>3. next \notin Ids(em) /\ Ids(em) \subseteq 1 .. (next + 1) - 1
  BY DEF Delivered
<1>4. Delivered(st, new, pe, em, next + 1)
  BY <1>1, <1>2, <1>3 DEF Delivered
<1>5. 2 .. (next + 1) - 1 = (2 .. next - 1) \cup {next}
  OBVIOUS
<1>6. NoneLost(st, fu, pe, em, next) => NoneLost(st, new, pe, em, next + 1)
  BY <1>1, <1>5 DEF NoneLost
<1>. QED
  BY <1>4, <1>6 DEF new

\* The prompt is no message of a queue.
LEMMA Prompted ==
  ASSUME NEW st, NEW fu, NEW pe, NEW next \in Nat, next >= 2,
         Delivered(st, fu, pe, <<>>, next)
  PROVE  LET em == <<UserMessage(1)>> IN
         /\ Delivered(st, fu, pe, em, next)
         /\ NoneLost(st, fu, pe, <<>>, next) => NoneLost(st, fu, pe, em, next)
<1>. DEFINE em == <<UserMessage(1)>>
<1>1. Ids(em) = {1} /\ Numbered(em) /\ Once(em)
  BY OneUser
<1>. HIDE DEF em
<1>2. Ids(<<>>) = {}
  BY EmptyQueue
<1>3. 1 \notin Ids(st) /\ 1 \notin Ids(fu) /\ 1 \notin Ids(pe)
  BY DEF Delivered, Queued
<1>4. Delivered(st, fu, pe, em, next)
  BY <1>1, <1>3 DEF Delivered
<1>5. NoneLost(st, fu, pe, <<>>, next) => NoneLost(st, fu, pe, em, next)
  BY <1>2 DEF NoneLost
<1>. QED
  BY <1>4, <1>5 DEF em

LEMMA DeliveryInit == Init => Delivery
<1>. SUFFICES ASSUME Init PROVE Delivery
  OBVIOUS
<1>1. /\ steering = <<>> /\ followUp = <<>> /\ pending = <<>> /\ emitted = <<>>
      /\ nextId = 2 /\ pc = "begin"
  BY DEF Init
<1>2. Queued(<<>>, 2) /\ Ids(<<>>) = {}
  BY EmptyQueue
<1>3. Delivered(<<>>, <<>>, <<>>, <<>>, 2) /\ NoneLost(<<>>, <<>>, <<>>, <<>>, 2)
  BY <1>2 DEF Delivered, Queued, NoneLost
<1>. QED
  BY <1>1, <1>3 DEF Delivery

\* Messages that are no user messages.
LEMMA ResultsSay ==
  ASSUME NEW t \in Nat, NEW n \in Nat
  PROVE  \A k \in DOMAIN Results(t, n) : Results(t, n)[k].role # "user"
BY DEF Results, ToolResult

\* The counter of user messages.
LEMMA NextIdType == TypeOK => nextId \in Nat /\ nextId >= 2
BY AgentLoopAssumption DEF TypeOK

\* A step that says something that is no user message.
LEMMA DeliverySaid ==
  ASSUME TypeOK, Delivery, NEW said \in Seq(Message),
         \A k \in DOMAIN said : said[k].role # "user",
         emitted' = emitted \o said,
         UNCHANGED <<steering, followUp, pending, nextId, cause>>,
         pc' \notin {"startTurn", "failed", "done", "panicked"} =>
           pc \notin {"startTurn", "failed", "done", "panicked"}
  PROVE  Delivery'
<1>1. emitted \in Seq(Message)
  BY DEF TypeOK
<1>. nextId \in Nat
  BY NextIdType
<1>2. /\ Delivered(steering, followUp, pending, emitted \o said, nextId)
      /\ NoneLost(steering, followUp, pending, emitted, nextId) =>
           NoneLost(steering, followUp, pending, emitted \o said, nextId)
  BY <1>1, Say DEF Delivery
<1>. QED
  BY <1>2 DEF Delivery

\* A step that moves no message.
LEMMA DeliverySame ==
  ASSUME Delivery, UNCHANGED <<steering, followUp, pending, emitted, nextId>>,
         cause' \in {"poll", "maxTurns"} \/ cause = "none" \/ UNCHANGED cause,
         pc' \notin {"startTurn", "failed", "done", "panicked"} =>
           pc \notin {"startTurn", "failed", "done", "panicked"}
  PROVE  Delivery'
BY DEF Delivery

LEMMA DeliveryPollSteering == TypeOK /\ Story /\ Delivery /\ PollSteering => Delivery'
<1>. SUFFICES ASSUME TypeOK, Story, Delivery, PollSteering PROVE Delivery'
  OBVIOUS
<1>1. /\ steering \in Seq(Message) /\ nextId \in Nat
  BY AgentLoopAssumption DEF TypeOK
<1>2. pc = "pollSteering" /\ pending = <<>> /\ cause = "none"
  BY DEF PollSteering, Delivery, Story
<1>3. PICK k \in Takes(steering) :
        /\ steering' = Left(steering, k)
        /\ \/ /\ pending' = Taken(steering, k)
              /\ \/ pc' \in {"startTurn", "failed"} /\ cause' \in {"none", "maxTurns"}
                 \/ pending' = <<>> /\ pc' = "pollFollowUp" /\ cause' = "none"
           \/ pc' = "failed" /\ cause' = "poll" /\ pending' = pending
  BY <1>2 DEF PollSteering, NextTurn, Fail
<1>4. UNCHANGED <<followUp, emitted, nextId>>
  BY DEF PollSteering, textVars
<1>5. /\ Delivered(Left(steering, k), followUp, Taken(steering, k), emitted, nextId)
      /\ Delivered(Left(steering, k), followUp, <<>>, emitted, nextId)
      /\ NoneLost(Left(steering, k), followUp, Taken(steering, k), emitted, nextId)
  BY <1>1, <1>2, DrainSteering DEF Delivery
<1>. QED
  BY <1>2, <1>3, <1>4, <1>5 DEF Delivery

LEMMA DeliveryPollFollowUp == TypeOK /\ Story /\ Delivery /\ PollFollowUp => Delivery'
<1>. SUFFICES ASSUME TypeOK, Story, Delivery, PollFollowUp PROVE Delivery'
  OBVIOUS
<1>1. /\ followUp \in Seq(Message) /\ nextId \in Nat
  BY AgentLoopAssumption DEF TypeOK
<1>2. pc = "pollFollowUp" /\ pending = <<>> /\ cause = "none"
  BY DEF PollFollowUp, Delivery, Story
<1>3. PICK k \in Takes(followUp) :
        /\ followUp' = Left(followUp, k)
        /\ \/ /\ pending' = Taken(followUp, k)
              /\ \/ pc' \in {"startTurn", "failed"} /\ cause' \in {"none", "maxTurns"}
                 \/ pending' = <<>> /\ pc' = "finish" /\ cause' = "none"
           \/ pc' = "failed" /\ cause' = "poll" /\ pending' = pending
  BY <1>2 DEF PollFollowUp, NextTurn, Fail
<1>4. UNCHANGED <<steering, emitted, nextId>>
  BY DEF PollFollowUp, textVars
<1>5. /\ Delivered(steering, Left(followUp, k), Taken(followUp, k), emitted, nextId)
      /\ Delivered(steering, Left(followUp, k), <<>>, emitted, nextId)
      /\ NoneLost(steering, Left(followUp, k), Taken(followUp, k), emitted, nextId)
  BY <1>1, <1>2, DrainFollowUp DEF Delivery
<1>. QED
  BY <1>2, <1>3, <1>4, <1>5 DEF Delivery

LEMMA DeliveryInitialPoll == TypeOK /\ Story /\ Delivery /\ InitialPoll => Delivery'
<1>. SUFFICES ASSUME TypeOK, Story, Delivery, InitialPoll PROVE Delivery'
  OBVIOUS
<1>1. /\ steering \in Seq(Message) /\ nextId \in Nat
  BY AgentLoopAssumption DEF TypeOK
<1>2. pc = "initialPoll" /\ pending = <<>> /\ cause = "none"
  BY DEF InitialPoll, Delivery, Story
<1>3. PICK k \in Takes(steering) :
        /\ steering' = Left(steering, k)
        /\ \/ pending' = Taken(steering, k) /\ pc' = "startTurn" /\ cause' = "none"
           \/ pc' = "failed" /\ cause' = "poll" /\ pending' = pending
  BY <1>2 DEF InitialPoll, Fail
<1>4. UNCHANGED <<followUp, emitted, nextId>>
  BY DEF InitialPoll, textVars
<1>5. /\ Delivered(Left(steering, k), followUp, Taken(steering, k), emitted, nextId)
      /\ Delivered(Left(steering, k), followUp, <<>>, emitted, nextId)
      /\ NoneLost(Left(steering, k), followUp, Taken(steering, k), emitted, nextId)
  BY <1>1, <1>2, DrainSteering DEF Delivery
<1>. QED
  BY <1>2, <1>3, <1>4, <1>5 DEF Delivery

LEMMA DeliveryEnqueue == TypeOK /\ Delivery /\ Enqueue => Delivery'
<1>. SUFFICES ASSUME TypeOK, Delivery, Enqueue PROVE Delivery'
  OBVIOUS
<1>1. /\ steering \in Seq(Message) /\ followUp \in Seq(Message)
      /\ nextId \in Nat /\ nextId >= 2
  BY AgentLoopAssumption DEF TypeOK
<1>2. /\ nextId' = nextId + 1
      /\ UNCHANGED <<pc, pending, emitted, cause>>
      /\ \/ steering' = Append(steering, UserMessage(nextId)) /\ followUp' = followUp
         \/ followUp' = Append(followUp, UserMessage(nextId)) /\ steering' = steering
  BY DEF Enqueue, loopVars, textVars
<1>3. /\ Delivered(Append(steering, UserMessage(nextId)), followUp, pending, emitted, nextId + 1)
      /\ NoneLost(steering, followUp, pending, emitted, nextId) =>
           NoneLost(Append(steering, UserMessage(nextId)), followUp, pending, emitted, nextId + 1)
  BY <1>1, EnqueueSteering DEF Delivery
<1>4. /\ Delivered(steering, Append(followUp, UserMessage(nextId)), pending, emitted, nextId + 1)
      /\ NoneLost(steering, followUp, pending, emitted, nextId) =>
           NoneLost(steering, Append(followUp, UserMessage(nextId)), pending, emitted, nextId + 1)
  BY <1>1, EnqueueFollowUp DEF Delivery
<1>. QED
  BY <1>2, <1>3, <1>4 DEF Delivery

\* A settled call of a sequential batch says its result.
LEMMA DeliveryFinish ==
  ASSUME TypeOK, Delivery, NEW i \in DOMAIN calls, NEW ends \in BOOLEAN, Finish(i, ends),
         UNCHANGED <<loopVars, userVars>>
  PROVE  Delivery'
<1>1. UNCHANGED <<pc, pending, cause, steering, followUp, nextId>>
  BY DEF loopVars, userVars
<1>2. CASE parallel
  BY <1>1, <1>2, DeliverySame DEF Finish
<1>3. CASE ~parallel
  <2>. DEFINE r == ToolResult(turn, i)
  <2>1. r \in Message /\ emitted \in Seq(Message)
    BY FinishTypes DEF TypeOK
  <2>2. r.role # "user"
    BY DEF ToolResult
  <2>3. emitted' = Append(emitted, r)
    BY <1>3 DEF Finish
  <2>. HIDE DEF r
  <2>4. <<r>> \in Seq(Message) /\ emitted' = emitted \o <<r>>
    BY <2>1, <2>3, OneMessage, AppendIsConcat
  <2>5. \A k \in DOMAIN <<r>> : <<r>>[k].role # "user"
    BY <2>2
  <2>. QED
    BY <2>4, <2>5, <1>1, DeliverySaid
<1>. QED
  BY <1>2, <1>3

LEMMA DeliveryBegin == TypeOK /\ Story /\ Delivery /\ Begin => Delivery'
<1>. SUFFICES ASSUME TypeOK, Story, Delivery, Begin PROVE Delivery'
  OBVIOUS
<1>1. /\ pc = "begin" /\ emitted = <<>>
      /\ prompts = IF entry = "prompt" THEN <<UserMessage(1)>> ELSE <<>>
      /\ UNCHANGED <<steering, followUp, pending, nextId, cause>>
  BY DEF Begin, Story, userVars
<1>2. emitted' \in {emitted, prompts}
  <2>1. prompts \in Seq(Message)
    BY DEF TypeOK
  <2>2. <<>> \o prompts = prompts
    BY <2>1, ConcatEmptySeq
  <2>. QED
    BY <1>1, <2>2 DEF Begin, Record, textVars
<1>3. /\ Delivered(steering, followUp, pending, <<UserMessage(1)>>, nextId)
      /\ NoneLost(steering, followUp, pending, <<>>, nextId) =>
           NoneLost(steering, followUp, pending, <<UserMessage(1)>>, nextId)
  BY <1>1, NextIdType, Prompted DEF Delivery
<1>. QED
  BY <1>1, <1>2, <1>3 DEF Delivery

LEMMA DeliveryNext == TypeOK /\ Batch /\ Story /\ Delivery /\ [Next]_vars => Delivery'
<1>. SUFFICES ASSUME TypeOK, Batch, Story, Delivery, [Next]_vars PROVE Delivery'
  OBVIOUS
<1>1. CASE Begin
  BY <1>1, DeliveryBegin
<1>2. CASE InitialPoll
  BY <1>2, DeliveryInitialPoll
<1>3. CASE StartTurn
  <2>1. pending \in Seq(Message) /\ emitted \in Seq(Message)
    BY DEF TypeOK
  <2>2. /\ emitted' = emitted \o pending /\ pending' = <<>>
        /\ UNCHANGED <<steering, followUp, nextId, cause>>
    BY <1>3 DEF StartTurn, Record, userVars
  <2>3. /\ Delivered(steering, followUp, <<>>, emitted \o pending, nextId)
        /\ NoneLost(steering, followUp, pending, emitted, nextId) =>
             NoneLost(steering, followUp, <<>>, emitted \o pending, nextId)
    BY <2>1, NextIdType, Inject DEF Delivery
  <2>. QED
    BY <2>2, <2>3 DEF Delivery
<1>4. CASE Request \/ StreamFails \/ StartPrepared \/ EndTurn \/ PrepareNext \/ ShouldStop
           \/ FinishRun
  <2>1. /\ UNCHANGED <<steering, followUp, pending, emitted, nextId>>
        /\ pc \notin {"startTurn", "failed", "done", "panicked"}
    BY <1>4 DEF Request, StreamFails, StartPrepared, EndTurn, PrepareNext, ShouldStop,
       FinishRun, userVars, textVars
  <2>2. cause = "none"
    BY <2>1 DEF Story
  <2>. QED
    BY <2>1, <2>2, DeliverySame
<1>5. CASE ReceiveMessage
  <2>1. PICK m \in Message : m.role = "assistant" /\ emitted' = emitted \o <<m>>
    <3>1. turn \in Nat
      BY TurnLimitPositive DEF TypeOK
    <3>2. \A n \in 0 .. MaxCalls, stop \in StopReasons :
            /\ AssistantMessage(turn, n, stop) \in Message
            /\ AssistantMessage(turn, n, stop).role = "assistant"
      BY <3>1, AgentLoopAssumption, MessageTypes DEF AssistantMessage
    <3>. QED
      BY <1>5, <3>2 DEF ReceiveMessage, Record
  <2>2. /\ UNCHANGED <<steering, followUp, pending, nextId, cause>>
        /\ pc \notin {"startTurn", "failed", "done", "panicked"}
    BY <1>5 DEF ReceiveMessage, userVars
  <2>3. <<m>> \in Seq(Message) /\ \A k \in DOMAIN <<m>> : <<m>>[k].role # "user"
    BY <2>1, OneMessage
  <2>. QED
    BY <2>1, <2>2, <2>3, DeliverySaid
<1>6. CASE AnswerTruncated
  <2>. DEFINE results == Results(turn, turnOutput[1].n)
  <2>1. emitted' = emitted \o results /\ results \in Seq(Message)
    BY <1>6, AnswerTypes DEF AnswerTruncated, Record
  <2>2. \A k \in DOMAIN results : results[k].role # "user"
    BY <1>6, AnswerTypes, AgentLoopAssumption, ResultsSay DEF AnswerTruncated
  <2>3. /\ UNCHANGED <<steering, followUp, pending, nextId, cause>>
        /\ pc \notin {"startTurn", "failed", "done", "panicked"}
    BY <1>6 DEF AnswerTruncated, userVars
  <2>. HIDE DEF results
  <2>. QED
    BY <2>1, <2>2, <2>3, DeliverySaid
<1>7. CASE CloseBatch
  <2>. DEFINE results == Results(turn, Len(calls))
  <2>1. /\ emitted' = IF parallel THEN emitted \o results ELSE emitted
        /\ results \in Seq(Message)
    BY <1>7, BatchResults DEF CloseBatch
  <2>2. \A k \in DOMAIN results : results[k].role # "user"
    BY <1>7, BatchResults, ResultsSay DEF CloseBatch
  <2>3. /\ UNCHANGED <<steering, followUp, pending, nextId, cause>>
        /\ pc \notin {"startTurn", "failed", "done", "panicked"}
    BY <1>7 DEF CloseBatch, userVars
  <2>. HIDE DEF results
  <2>4. CASE parallel
    BY <2>1, <2>2, <2>3, <2>4, DeliverySaid
  <2>5. CASE ~parallel
    BY <2>1, <2>3, <2>5, DeliverySame
  <2>. QED
    BY <2>4, <2>5
<1>8. CASE PollSteering
  BY <1>8, DeliveryPollSteering
<1>9. CASE PollFollowUp
  BY <1>9, DeliveryPollFollowUp
<1>10. CASE FinishWithError
  <2>1. PICK m \in Message : m.role = "assistant" /\ emitted' = emitted \o <<m>>
    <3>1. turn \in Nat
      BY TurnLimitPositive DEF TypeOK
    <3>2. \A stop \in {"aborted", "error"} :
            /\ AssistantMessage(turn, 0, stop) \in Message
            /\ AssistantMessage(turn, 0, stop).role = "assistant"
      BY <3>1, MessageTypes DEF AssistantMessage, StopReasons
    <3>. QED
      BY <1>10, <3>2 DEF FinishWithError, Record
  <2>2. /\ UNCHANGED <<steering, followUp, pending, nextId, cause>>
        /\ pc' \in {"done", "panicked"}
    BY <1>10 DEF FinishWithError, userVars
  <2>3. <<m>> \in Seq(Message) /\ \A k \in DOMAIN <<m>> : <<m>>[k].role # "user"
    BY <2>1, OneMessage
  <2>. QED
    BY <2>1, <2>2, <2>3, DeliverySaid
<1>11. ASSUME NEW i \in DOMAIN calls, PrepareCall(i) PROVE Delivery'
  <2>1. UNCHANGED <<loopVars, userVars>>
    BY <1>11 DEF PrepareCall
  <2>2. CASE Finish(i, FALSE)
    BY <2>1, <2>2, DeliveryFinish
  <2>3. CASE UNCHANGED <<outcomes, emitted>>
    <3>1. UNCHANGED <<steering, followUp, pending, emitted, nextId, cause, pc>>
      BY <2>1, <2>3 DEF loopVars, userVars
    <3>. QED
      BY <3>1, DeliverySame
  <2>. QED
    BY <2>2, <2>3, <1>11 DEF PrepareCall
<1>12. ASSUME NEW i \in DOMAIN calls, FinishCall(i) PROVE Delivery'
  BY <1>12, DeliveryFinish DEF FinishCall
<1>13. CASE Enqueue
  BY <1>13, DeliveryEnqueue
<1>14. CASE Abort \/ UNCHANGED vars
  <2>1. UNCHANGED <<steering, followUp, pending, emitted, nextId, cause, pc>>
    BY <1>14 DEF Abort, vars, loopVars, textVars, userVars
  <2>. QED
    BY <2>1, DeliverySame
<1>. QED
  BY <1>1, <1>2, <1>3, <1>4, <1>5, <1>6, <1>7, <1>8, <1>9, <1>10, <1>11, <1>12, <1>13, <1>14
  DEF Next, Loop, Tools

-----------------------------------------------------------------------------
(* The theorems                                                            *)

\* The inductive invariant holds in every state of a run.
THEOREM Invariant == Spec => []LoopInv
<1>1. Init => LoopInv
  BY TypeInit, BatchInit, StoryInit, DeliveryInit DEF LoopInv
<1>2. LoopInv /\ [Next]_vars => LoopInv'
  <2>1. LoopInv => TypeOK /\ Batch /\ Story /\ Delivery /\ AllUsers(pending)
    BY DEF LoopInv, Delivery, Delivered, Queued
  <2>. QED
    BY <2>1, TypeNext, BatchNext, StoryNext, DeliveryNext DEF LoopInv
<1>. QED
  BY <1>1, <1>2, PTL DEF Spec

\* Every variable keeps its type, whatever is asked, answered and queued.
THEOREM TypeCorrect == Spec => []TypeOK
<1>1. LoopInv => TypeOK
  BY DEF LoopInv
<1>. QED
  BY <1>1, Invariant, PTL

\* Every request shows the model the original context followed by exactly what
\* the listeners saw, in the same order.
THEOREM TranscriptShown == Spec => []RequestShowsTranscript
<1>1. LoopInv => RequestShowsTranscript
  BY DEF LoopInv, Story, Between, RequestShowsTranscript
<1>. QED
  BY <1>1, Invariant, PTL

\* At every request and at the end of every run, each call that was asked for is
\* followed by its result, in source order, and no result is out of place.
THEOREM CallsGetAnswers == Spec => []ToolCallsAnswered
<1>1. LoopInv => ToolCallsAnswered
  <2>. SUFFICES ASSUME LoopInv, pc \in {"request", "done"} PROVE Answered(emitted)
    BY DEF ToolCallsAnswered, Answered
  <2>1. CASE pc = "request"
    <3>1. emitted = Told /\ Answered(Told)
      BY <2>1 DEF LoopInv, Story, Between
    <3>. QED
      BY <3>1
  <2>2. CASE pc = "done"
    BY <2>2 DEF LoopInv, Story
  <2>. QED
    BY <2>1, <2>2
<1>. QED
  BY <1>1, Invariant, PTL

\* The places of a message are the positions that the sets of numbers speak of.
LEMMA PlacesOfId ==
  ASSUME LoopInv, NEW id \in 2 .. nextId - 1
  PROVE  /\ \A p, q \in Places(id) : p = q
         /\ Places(id) = {} => cause \in {"poll", "maxTurns"}
<1>1. /\ Delivered(steering, followUp, pending, emitted, nextId)
      /\ cause \notin {"poll", "maxTurns"} =>
           NoneLost(steering, followUp, pending, emitted, nextId)
  BY DEF LoopInv, Delivery
<1>. DEFINE S == {x \in DOMAIN steering : steering[x].n = id}
            F == {x \in DOMAIN followUp : followUp[x].n = id}
            P == {x \in DOMAIN pending : pending[x].n = id}
            E == {x \in DOMAIN emitted : emitted[x] = UserMessage(id)}
<1>2. \A x \in DOMAIN emitted :
        emitted[x] = UserMessage(id) <=> emitted[x].role = "user" /\ emitted[x].n = id
  <2>1. UserMessage(id).role = "user" /\ UserMessage(id).n = id
    BY DEF UserMessage
  <2>. QED
    BY <2>1, <1>1 DEF Delivered, Numbered
<1>3. /\ S # {} <=> id \in Ids(steering)
      /\ F # {} <=> id \in Ids(followUp)
      /\ P # {} <=> id \in Ids(pending)
      /\ E # {} <=> id \in Ids(emitted)
  BY <1>1, <1>2 DEF Delivered, Queued, AllUsers, Ids
<1>4. /\ \A x, y \in S : x = y
      /\ \A x, y \in F : x = y
      /\ \A x, y \in P : x = y
      /\ \A x, y \in E : x = y
  BY <1>1, <1>2 DEF Delivered, Queued, AllUsers, Once
<1>5. /\ S = {} \/ F = {}
      /\ S = {} \/ P = {}
      /\ S = {} \/ E = {}
      /\ F = {} \/ P = {}
      /\ F = {} \/ E = {}
      /\ P = {} \/ E = {}
  BY <1>1, <1>3 DEF Delivered
<1>6. Places(id) = {<<"steering", k>> : k \in S} \cup {<<"followUp", k>> : k \in F}
                     \cup {<<"pending", k>> : k \in P} \cup {<<"emitted", k>> : k \in E}
  BY DEF Places
<1>7. Places(id) = {} => S = {} /\ F = {} /\ P = {} /\ E = {}
  BY <1>6
<1>8. Places(id) = {} => cause \in {"poll", "maxTurns"}
  BY <1>1, <1>3, <1>7 DEF NoneLost
<1>. HIDE DEF S, F, P, E
<1>9. \A p, q \in Places(id) : p = q
  BY <1>4, <1>5, <1>6
<1>. QED
  BY <1>8, <1>9

\* No queued message is lost or doubled, unless a provider failed or the turn
\* limit was reached, and a run returns what its listeners saw.
THEOREM MessagesStay == Spec => []MessagesKept
<1>1. LoopInv => QueuedMessagesKept
  BY PlacesOfId DEF QueuedMessagesKept
<1>2. LoopInv => ReturnsWhatWasEmitted
  BY DEF LoopInv, Story, ReturnsWhatWasEmitted
<1>3. LoopInv => MessagesKept
  BY <1>1, <1>2 DEF MessagesKept
<1>. QED
  BY <1>3, Invariant, PTL

-----------------------------------------------------------------------------
(* The output of a command                                                 *)

\* A set of numbers has a least one.
LEMMA Smallest ==
  ASSUME NEW S \in SUBSET Nat, S # {}
  PROVE  \E n \in S : \A m \in S : n <= m
<1>. DEFINE F == {1 .. n : n \in S}
<1>1. F \subseteq FiniteSubsetsOf(Nat) /\ F # {}
  <2>1. \A n \in S : IsFiniteSet(1 .. n) /\ 1 .. n \in SUBSET Nat
    BY FS_Interval
  <2>. QED
    BY <2>1 DEF FiniteSubsetsOf
<1>2. IsWellFoundedOn(StrictSubsetOrdering(Nat), FiniteSubsetsOf(Nat))
  BY FS_StrictSubsetOrderingWellFounded
<1>3. PICK x \in F : \A y \in F : <<y, x>> \notin StrictSubsetOrdering(Nat)
  BY <1>1, <1>2, WFMin
<1>4. PICK n \in S : x = 1 .. n
  BY <1>3
<1>5. ASSUME NEW m \in S, m < n PROVE FALSE
  <2>1. 1 .. m \in F
    BY <1>5
  <2>2. 1 .. m \subseteq 1 .. n /\ n \in 1 .. n /\ n \notin 1 .. m
    BY <1>5
  <2>3. <<1 .. m, x>> \in StrictSubsetOrdering(Nat)
    BY <2>2, <1>4 DEF StrictSubsetOrdering
  <2>. QED
    BY <2>1, <2>3, <1>3
<1>. QED
  BY <1>5

LEMMA LeastNumber ==
  ASSUME NEW S \in SUBSET Nat, S # {}
  PROVE  Min(S) \in S /\ \A m \in S : Min(S) <= m
<1>1. \E n \in S : \A m \in S : n <= m
  BY Smallest
<1>. QED
  BY <1>1 DEF Min

\* The greatest of a bounded set is the least distance from its bound.
LEMMA GreatestNumber ==
  ASSUME NEW n \in Nat, NEW S \in SUBSET (0 .. n), S # {}
  PROVE  Max(S) \in S /\ \A m \in S : m <= Max(S)
<1>. DEFINE T == {n - k : k \in S}
<1>1. T \in SUBSET Nat /\ T # {}
  <2>1. \A k \in S : k \in 0 .. n /\ n - k \in Nat
    OBVIOUS
  <2>. QED
    BY <2>1
<1>2. Min(T) \in T /\ \A m \in T : Min(T) <= m
  BY <1>1, LeastNumber
<1>3. PICK k \in S : Min(T) = n - k
  BY <1>2
<1>4. \A m \in S : m <= k
  <2>. TAKE m \in S
  <2>1. n - m \in T /\ m \in 0 .. n /\ k \in 0 .. n
    OBVIOUS
  <2>2. n - k <= n - m
    BY <1>2, <1>3, <2>1
  <2>. QED
    BY <2>1, <2>2
<1>. QED
  BY <1>4 DEF Max

\* One text is the end of another.
EndOf(u, t) ==
  \E k \in 1 .. Len(t) + 1 :
    Len(u) = Len(t) - k + 1 /\ \A i \in 1 .. Len(u) : u[i] = t[k + i - 1]

LEMMA EndIsSuffix ==
  ASSUME NEW S, NEW u \in Seq(S), NEW t \in Seq(S), EndOf(u, t)
  PROVE  IsSuffix(u, t)
<1>. DEFINE m == Len(u)
            n == Len(t)
            ru == Reverse(u)
            rt == Reverse(t)
<1>1. PICK k \in 1 .. n + 1 : m = n - k + 1 /\ \A i \in 1 .. m : u[i] = t[k + i - 1]
  BY DEF EndOf
<1>2. m \in Nat /\ n \in Nat /\ m <= n
  BY <1>1
<1>3. /\ ru \in Seq(S) /\ Len(ru) = m /\ \A i \in 1 .. m : ru[i] = u[m - i + 1]
      /\ rt \in Seq(S) /\ Len(rt) = n /\ \A i \in 1 .. n : rt[i] = t[n - i + 1]
  BY DEF Reverse
<1>. HIDE DEF ru, rt
<1>4. ASSUME NEW i \in 1 .. m PROVE ru[i] = rt[i]
  <2>1. i \in 1 .. n /\ m - i + 1 \in 1 .. m /\ k + (m - i + 1) - 1 = n - i + 1
    BY <1>1, <1>2
  <2>2. ru[i] = u[m - i + 1] /\ rt[i] = t[n - i + 1]
    BY <1>3, <2>1
  <2>3. u[m - i + 1] = t[k + (m - i + 1) - 1]
    BY <1>1, <2>1
  <2>. QED
    BY <2>1, <2>2, <2>3
<1>5. \A i \in 1 .. m : ru[i] \in S /\ rt[i] \in S
  BY <1>2, <1>3
<1>6. /\ SubSeq(ru, 1, m) \in Seq(S) /\ Len(SubSeq(ru, 1, m)) = m
      /\ \A i \in 1 .. m : SubSeq(ru, 1, m)[i] = ru[i]
      /\ SubSeq(rt, 1, m) \in Seq(S) /\ Len(SubSeq(rt, 1, m)) = m
      /\ \A i \in 1 .. m : SubSeq(rt, 1, m)[i] = rt[i]
  BY <1>2, <1>5, SubSeqProperties
<1>7. SubSeq(ru, 1, m) = SubSeq(rt, 1, m)
  BY <1>4, <1>6
<1>. QED
  BY <1>2, <1>3, <1>7 DEF IsSuffix, IsPrefix, ru, rt

LEMMA EndOfEnd ==
  ASSUME NEW u, NEW v, NEW t, EndOf(u, v), EndOf(v, t),
         Len(u) \in Nat, Len(v) \in Nat, Len(t) \in Nat
  PROVE  EndOf(u, t)
<1>1. PICK k \in 1 .. Len(v) + 1 :
        Len(u) = Len(v) - k + 1 /\ \A i \in 1 .. Len(u) : u[i] = v[k + i - 1]
  BY DEF EndOf
<1>2. PICK l \in 1 .. Len(t) + 1 :
        Len(v) = Len(t) - l + 1 /\ \A i \in 1 .. Len(v) : v[i] = t[l + i - 1]
  BY DEF EndOf
<1>3. k + l - 1 \in 1 .. Len(t) + 1 /\ Len(u) = Len(t) - (k + l - 1) + 1
  BY <1>1, <1>2
<1>4. ASSUME NEW i \in 1 .. Len(u) PROVE u[i] = t[(k + l - 1) + i - 1]
  <2>1. k + i - 1 \in 1 .. Len(v) /\ l + (k + i - 1) - 1 = (k + l - 1) + i - 1
    BY <1>1, <1>2
  <2>. QED
    BY <1>1, <1>2, <2>1
<1>. QED
  BY <1>3, <1>4 DEF EndOf

LEMMA AfterIs ==
  ASSUME NEW S, NEW t \in Seq(S), NEW start \in 0 .. Len(t)
  PROVE  LET u == After(t, start)
         IN u \in Seq(S) /\ Len(u) = Len(t) - start /\ EndOf(u, t)
<1>. DEFINE u == After(t, start)
<1>1. start + 1 \in 1 .. Len(t) + 1 /\ Len(t) \in Nat /\ \A i \in start + 1 .. Len(t) : t[i] \in S
  OBVIOUS
<1>2. /\ u \in Seq(S) /\ Len(u) = IF start + 1 <= Len(t) THEN Len(t) - (start + 1) + 1 ELSE 0
      /\ \A i \in 1 .. Len(t) - (start + 1) + 1 : u[i] = t[(start + 1) + i - 1]
  BY <1>1, SubSeqProperties DEF After
<1>. HIDE DEF u
<1>3. Len(u) = Len(t) - start /\ Len(u) = Len(t) - (start + 1) + 1
  BY <1>1, <1>2
<1>4. EndOf(u, t)
  BY <1>1, <1>2, <1>3 DEF EndOf
<1>. QED
  BY <1>2, <1>3, <1>4 DEF u

LEMMA BodyIs ==
  ASSUME NEW S, NEW t \in Seq(S)
  PROVE  LET body == Body(t)
         IN /\ body \in Seq(S)
            /\ body = t \/ (Len(t) = Len(body) + 1 /\ t[Len(t)] = "n")
            /\ \A i \in 1 .. Len(body) : body[i] = t[i]
<1>1. CASE t # <<>> /\ Last(t) = "n"
  <2>. DEFINE l == Len(t) - 1
              body == SubSeq(t, 1, l)
  <2>1. Body(t) = body /\ t[Len(t)] = "n"
    BY <1>1 DEF Body, Front, Last
  <2>2. l \in Nat /\ Len(t) = l + 1 /\ \A i \in 1 .. l : t[i] \in S
    BY <1>1
  <2>. HIDE DEF l
  <2>3. /\ body \in Seq(S) /\ Len(body) = IF 1 <= l THEN l - 1 + 1 ELSE 0
        /\ \A i \in 1 .. l - 1 + 1 : body[i] = t[1 + i - 1]
    BY <2>2, SubSeqProperties
  <2>. HIDE DEF body
  <2>4. Len(body) = l
    BY <2>2, <2>3
  <2>5. \A i \in 1 .. Len(body) : body[i] = t[i]
    BY <2>2, <2>3, <2>4
  <2>. QED
    BY <2>1, <2>2, <2>3, <2>4, <2>5
<1>2. CASE ~(t # <<>> /\ Last(t) = "n")
  BY <1>2 DEF Body
<1>. QED
  BY <1>1, <1>2

\* The first line of a text starts it.
LEMMA LinesOf ==
  ASSUME NEW S, NEW t \in Seq(S)
  PROVE  /\ LineStarts(t) \subseteq 1 .. Len(t) + 1 /\ 1 \in LineStarts(t)
         /\ (\A i \in 1 .. Len(t) : t[i] # "n") => LineCount(t) = 1
<1>1. LineStarts(t) \subseteq 1 .. Len(t) + 1 /\ 1 \in LineStarts(t)
  BY DEF LineStarts
<1>2. ASSUME \A i \in 1 .. Len(t) : t[i] # "n" PROVE LineCount(t) = 1
  <2>1. ASSUME NEW k \in LineStarts(t) PROVE k = 1
    <3>1. k \in 1 .. Len(t) + 1 /\ (k = 1 \/ t[k - 1] = "n")
      BY DEF LineStarts
    <3>2. k # 1 => k - 1 \in 1 .. Len(t)
      BY <3>1
    <3>. QED
      BY <1>2, <3>1, <3>2
  <2>2. LineStarts(t) = {1}
    BY <1>1, <2>1
  <2>. QED
    BY <2>2, FS_Singleton DEF LineCount
<1>. QED
  BY <1>1, <1>2

\* What is cut away of a text is its beginning, and what is left is within the
\* limits: when no line fits, the last one is longer than they are.
LEMMA TailIs ==
  ASSUME NEW S, NEW t \in Seq(S)
  PROVE  LET tail == TruncatedTail(t)
             body == Body(t)
         IN \/ ~tail.truncated /\ tail.content = t /\ Len(t) <= MaxBytes
            \/ /\ tail.truncated
               /\ tail.content \in Seq(S) /\ EndOf(tail.content, body)
               /\ Len(tail.content) <= MaxBytes
               /\ LineCount(tail.content) <= MaxLines
<1>. DEFINE body == Body(t)
            n == Len(body)
            F(k) == SubSeq(body, k, n)
            fits == {k \in LineStarts(body) : LineCount(F(k)) <= MaxLines /\ Len(F(k)) <= MaxBytes}
            start == IF fits = {} THEN n - MaxBytes + 1 ELSE Min(fits)
<1>1. body \in Seq(S) /\ n \in Nat
  BY BodyIs
<1>2. CASE LineCount(body) <= MaxLines /\ Len(t) <= MaxBytes
  BY <1>2 DEF TruncatedTail
<1>3. CASE ~(LineCount(body) <= MaxLines /\ Len(t) <= MaxBytes)
  <2>1. TruncatedTail(t) = [content |-> F(start), truncated |-> TRUE]
    BY <1>3 DEF TruncatedTail
  <2>. HIDE DEF body
  <2>2. ASSUME NEW k \in 1 .. n + 1
        PROVE  /\ F(k) \in Seq(S) /\ Len(F(k)) = n - k + 1 /\ EndOf(F(k), body)
               /\ \A i \in 1 .. Len(F(k)) : F(k)[i] = body[k + i - 1]
    <3>. DEFINE u == F(k)
    <3>1. k \in Int /\ n \in Int /\ \A i \in k .. n : body[i] \in S
      BY <1>1
    <3>2. /\ u \in Seq(S) /\ Len(u) = IF k <= n THEN n - k + 1 ELSE 0
          /\ \A i \in 1 .. n - k + 1 : u[i] = body[k + i - 1]
      BY <3>1, SubSeqProperties
    <3>. HIDE DEF u
    <3>3. Len(u) = n - k + 1
      BY <1>1, <3>2
    <3>. QED
      BY <3>2, <3>3 DEF u, EndOf
  <2>3. start \in 1 .. n + 1 /\ Len(F(start)) <= MaxBytes /\ LineCount(F(start)) <= MaxLines
    <3>1. CASE fits # {}
      <4>1. fits \in SUBSET Nat
        BY <1>1, LinesOf
      <4>2. Min(fits) \in fits
        BY <3>1, <4>1, LeastNumber
      <4>3. Min(fits) \in 1 .. n + 1
        BY <1>1, <4>2, LinesOf
      <4>. QED
        BY <3>1, <4>2, <4>3
    <3>2. CASE fits = {}
      <4>. DEFINE starts == LineStarts(body)
                  last == Max(starts)
      <4>1. starts \subseteq 1 .. n + 1 /\ 1 \in starts
        BY <1>1, LinesOf
      <4>2. n + 1 \in Nat /\ starts \in SUBSET (0 .. n + 1) /\ starts # {}
        BY <1>1, <4>1
      <4>3. last \in starts /\ \A k \in starts : k <= last
        BY <4>2, GreatestNumber
      <4>4. last \in 1 .. n + 1
        BY <4>1, <4>3
      <4>5. \A i \in last .. n : body[i] # "n"
        <5>. SUFFICES ASSUME NEW i \in last .. n, body[i] = "n" PROVE FALSE
          OBVIOUS
        <5>1. i + 1 \in 1 .. n + 1 /\ (i + 1) - 1 = i
          BY <1>1, <4>4
        <5>2. i + 1 \in starts
          BY <5>1 DEF LineStarts
        <5>3. i + 1 <= last
          BY <4>3, <5>2
        <5>. QED
          BY <1>1, <4>4, <5>3
      <4>. HIDE DEF last
      <4>6. ASSUME NEW k \in last .. n + 1 PROVE k \in 1 .. n + 1 /\ LineCount(F(k)) = 1
        <5>. DEFINE u == F(k)
        <5>1. k \in 1 .. n + 1
          BY <4>4
        <5>2. u \in Seq(S) /\ Len(u) = n - k + 1 /\ \A i \in 1 .. Len(u) : u[i] = body[k + i - 1]
          BY <2>2, <5>1
        <5>. HIDE DEF u
        <5>3. \A i \in 1 .. Len(u) : k + i - 1 \in last .. n
          BY <4>4, <5>1, <5>2, <1>1
        <5>4. \A i \in 1 .. Len(u) : u[i] # "n"
          BY <4>5, <5>2, <5>3
        <5>5. LineCount(u) = 1
          BY <5>2, <5>4, LinesOf
        <5>. QED
          BY <5>1, <5>5 DEF u
      <4>7. last \in last .. n + 1 /\ 1 <= MaxLines
        BY <4>4, ShellAssumption
      <4>8. LineCount(F(last)) <= MaxLines
        BY <4>6, <4>7
      <4>9. ~(Len(F(last)) <= MaxBytes)
        BY <3>2, <4>3, <4>8
      <4>10. Len(F(last)) = n - last + 1
        BY <2>2, <4>4
      <4>11. n - MaxBytes + 1 \in last .. n + 1 /\ n - (n - MaxBytes + 1) + 1 = MaxBytes
        BY <1>1, <4>4, <4>9, <4>10, ShellAssumption
      <4>12. start = n - MaxBytes + 1
        BY <3>2
      <4>. HIDE DEF start
      <4>13. start \in 1 .. n + 1 /\ LineCount(F(start)) = 1
        BY <4>6, <4>11, <4>12
      <4>14. Len(F(start)) = n - start + 1
        BY <2>2, <4>13
      <4>. QED
        BY <4>7, <4>11, <4>12, <4>13, <4>14
    <3>. QED
      BY <3>1, <3>2
  <2>4. /\ F(start) \in Seq(S) /\ EndOf(F(start), body)
    BY <2>2, <2>3
  <2>. HIDE DEF F, start
  <2>5. /\ TruncatedTail(t).truncated
        /\ TruncatedTail(t).content = F(start)
    BY <2>1
  <2>. QED
    BY <2>3, <2>4, <2>5 DEF body
<1>. QED
  BY <1>2, <1>3

\* What is shown of a chunk is no longer than it.
LEMMA SanitizedIs ==
  ASSUME NEW S, NEW chunk \in Seq(S)
  PROVE  LET text == Sanitized(chunk)
         IN text \in Seq(ToSet(text)) /\ Len(text) <= Len(chunk)
<1>. DEFINE kept == {k \in DOMAIN chunk : chunk[k] # "b"}
            Place(i) == CHOOSE k \in kept : Cardinality({l \in kept : l <= k}) = i
            m == Cardinality(kept)
            text == [i \in 1 .. m |-> chunk[Place(i)]]
<1>1. DOMAIN chunk = 1 .. Len(chunk) /\ Len(chunk) \in Nat
  OBVIOUS
<1>2. IsFiniteSet(1 .. Len(chunk)) /\ Cardinality(1 .. Len(chunk)) = Len(chunk)
  <2>1. 1 \in Int /\ Len(chunk) \in Int
    BY <1>1
  <2>2. /\ IsFiniteSet(1 .. Len(chunk))
        /\ Cardinality(1 .. Len(chunk)) = IF 1 > Len(chunk) THEN 0 ELSE Len(chunk) - 1 + 1
    BY <2>1, FS_Interval
  <2>. QED
    BY <1>1, <2>2
<1>3. IsFiniteSet(kept) /\ m <= Len(chunk) /\ m \in Nat
  <2>1. kept \in SUBSET (1 .. Len(chunk))
    BY <1>1
  <2>. HIDE DEF kept
  <2>. QED
    BY <1>2, <2>1, FS_Subset, FS_CardinalityType
<1>. HIDE DEF m, Place
<1>4. text \in Seq(ToSet(text)) /\ Len(text) = m
  <2>1. DOMAIN text = 1 .. m /\ \A i \in 1 .. m : text[i] \in ToSet(text)
    BY DEF ToSet
  <2>2. text \in [1 .. m -> ToSet(text)]
    BY <2>1
  <2>. HIDE DEF text
  <2>. QED
    BY <1>3, <2>1, <2>2
<1>5. Sanitized(chunk) = text
  BY DEF Sanitized, Place, m
<1>. QED
  BY <1>3, <1>4, <1>5

\* A capture: where its chunks end and from where on it is kept, which is no
\* further than what can be shown; and once that is past its beginning, or more
\* was read than can be shown, it has a file from its beginning on.
Caught(state) ==
  LET text == state.text
  IN /\ state = [text |-> text, ends |-> state.ends, from |-> state.from,
                 total |-> state.total, filed |-> state.filed]
     /\ text \in Seq(ToSet(text))
     /\ state.ends \subseteq 0 .. Len(text)
     /\ Len(text) \in state.ends /\ state.from \in state.ends
     /\ \A e \in state.ends : e # 0 => \E d \in state.ends : d < e /\ e - d <= ReadBytes
     /\ state.from # 0 => Len(text) - state.from > MaxBytes
     /\ state.total \in Nat /\ Len(text) <= state.total
     /\ state.filed \in {Nowhere, 0}
     /\ state.filed = Nowhere => Len(text) <= MaxBytes

LEMMA TextGrows ==
  ASSUME NEW s, s \in Seq(ToSet(s)), NEW t, t \in Seq(ToSet(t))
  PROVE  LET u == s \o t IN u \in Seq(ToSet(u)) /\ Len(u) = Len(s) + Len(t)
<1>. DEFINE u == s \o t
            S == ToSet(s) \cup ToSet(t)
<1>1. s \in Seq(S) /\ t \in Seq(S)
  <2>1. ToSet(s) \subseteq S /\ ToSet(t) \subseteq S
    OBVIOUS
  <2>. HIDE DEF S
  <2>. QED
    BY <2>1
<1>. HIDE DEF S
<1>2. u \in Seq(S) /\ Len(u) = Len(s) + Len(t)
  BY <1>1, ConcatProperties
<1>. HIDE DEF u
<1>3. DOMAIN u = 1 .. Len(u) /\ Len(u) \in Nat /\ \A i \in 1 .. Len(u) : u[i] \in ToSet(u)
  BY <1>2 DEF ToSet
<1>4. u \in [1 .. Len(u) -> S]
  BY <1>2
<1>5. u \in [1 .. Len(u) -> ToSet(u)]
  BY <1>3, <1>4
<1>6. u \in Seq(ToSet(u))
  BY <1>3, <1>5
<1>. QED
  BY <1>2, <1>6 DEF u

\* What goes from the front leaves more than can be shown.
LEMMA KeptFromIs ==
  ASSUME NEW state, Caught(state), NEW length \in Nat, length >= Len(state.text)
  PROVE  LET from == KeptFrom(state, length)
         IN from \in state.ends /\ (from # 0 => length - from > MaxBytes)
<1>. DEFINE n == Len(state.text)
            fit == {e \in state.ends : state.from <= e /\ length - e <= 2 * MaxBytes}
            some == fit \cup {n}
            from == Min(some)
<1>1. /\ n \in Nat /\ state.ends \subseteq 0 .. n /\ n \in state.ends
      /\ state.from \in state.ends /\ state.from \in Nat
      /\ \A e \in state.ends : e # 0 => \E d \in state.ends : d < e /\ e - d <= ReadBytes
      /\ state.from # 0 => n - state.from > MaxBytes
  BY DEF Caught
<1>2. some \in SUBSET Nat /\ some # {} /\ some \subseteq state.ends
  BY <1>1
<1>3. from \in some /\ \A e \in some : from <= e
  BY <1>2, LeastNumber
<1>4. from \in state.ends /\ from \in Nat /\ from = KeptFrom(state, length)
  BY <1>1, <1>2, <1>3 DEF KeptFrom
<1>5. \A e \in some : state.from <= e
  BY <1>1
<1>. HIDE DEF from
<1>6. CASE from = state.from
  <2>1. from # 0 => n - from > MaxBytes
    BY <1>1, <1>6
  <2>2. n \in Nat /\ length \in Nat /\ length >= n
    BY <1>1
  <2>. HIDE DEF n
  <2>. QED
    BY <1>4, <2>1, <2>2, ShellAssumption
<1>7. CASE from # state.from
  <2>1. state.from < from
    BY <1>1, <1>3, <1>4, <1>5, <1>7
  <2>2. PICK d \in state.ends : d < from /\ from - d <= ReadBytes
    <3>1. from # 0
      BY <1>1, <1>4, <2>1
    <3>. QED
      BY <1>1, <1>4, <3>1
  <2>3. ASSUME NEW e \in state.ends, state.from <= e, e < from
        PROVE  length - e > 2 * MaxBytes
    <3>1. e \notin fit
      BY <1>1, <1>3, <1>4, <2>3
    <3>. QED
      BY <1>1, <2>3, <3>1, ShellAssumption
  <2>4. PICK e \in state.ends : e < from /\ from - e <= ReadBytes /\ length - e > 2 * MaxBytes
    <3>1. CASE state.from <= d
      BY <2>2, <2>3, <3>1
    <3>2. CASE ~(state.from <= d)
      <4>1. length - state.from > 2 * MaxBytes
        BY <1>1, <2>1, <2>3
      <4>2. from - state.from <= ReadBytes
        BY <1>1, <1>4, <2>2, <3>2, ShellAssumption
      <4>. QED
        BY <1>1, <2>1, <4>1, <4>2
    <3>. QED
      BY <3>1, <3>2
  <2>5. length - from > MaxBytes
    BY <1>1, <1>4, <2>4, ShellAssumption
  <2>. QED
    BY <1>4, <2>5
<1>. QED
  BY <1>6, <1>7

LEMMA CaptureGrows ==
  ASSUME NEW state, Caught(state), NEW S, NEW chunk \in Seq(S), Len(chunk) <= ReadBytes
  PROVE  /\ Caught(Captured(state, chunk))
         /\ Captured(state, chunk).total = state.total + Len(chunk)
<1>. DEFINE more == Sanitized(chunk)
            text == state.text \o more
            n == Len(state.text)
            m == Len(text)
            total == state.total + Len(chunk)
            filed == FiledFrom(state, total > MaxBytes)
            next == Captured(state, chunk)
<1>1. /\ state.text \in Seq(ToSet(state.text)) /\ n \in Nat
      /\ state.ends \subseteq 0 .. n /\ n \in state.ends
      /\ \A e \in state.ends : e # 0 => \E d \in state.ends : d < e /\ e - d <= ReadBytes
      /\ state.from \in state.ends /\ (state.from # 0 => n - state.from > MaxBytes)
      /\ state.total \in Nat /\ n <= state.total
      /\ state.filed \in {Nowhere, 0} /\ (state.filed = Nowhere => n <= MaxBytes)
  BY DEF Caught
<1>2. more \in Seq(ToSet(more)) /\ Len(more) <= Len(chunk) /\ Len(more) \in Nat
  BY SanitizedIs
<1>3. text \in Seq(ToSet(text)) /\ m = n + Len(more)
  BY <1>1, <1>2, TextGrows
<1>4. next = [text |-> text, ends |-> state.ends \cup {m}, from |-> KeptFrom(state, m),
              total |-> total, filed |-> filed]
  BY DEF Captured
<1>. HIDE DEF text, more
<1>5. m \in Nat /\ m >= n /\ m - n <= ReadBytes /\ Len(chunk) \in Nat
  BY <1>1, <1>2, <1>3, ShellAssumption
<1>6. /\ KeptFrom(state, m) \in state.ends
      /\ KeptFrom(state, m) # 0 => m - KeptFrom(state, m) > MaxBytes
  BY <1>5, KeptFromIs
<1>7. total \in Nat /\ m <= total
  BY <1>1, <1>2, <1>3, <1>5
<1>8. filed \in {Nowhere, 0} /\ (filed = Nowhere => m <= MaxBytes)
  <2>1. CASE state.filed = Nowhere /\ total > MaxBytes
    <3>1. state.from = 0
      <4>1. state.from \in Nat /\ (state.from # 0 => n - state.from > MaxBytes)
        <5>1. state.from \in 0 .. n
          BY <1>1
        <5>2. state.from # 0 => n - state.from > MaxBytes
          BY <1>1
        <5>. QED
          BY <5>1, <5>2
      <4>2. n \in Nat /\ n <= MaxBytes
        BY <1>1, <2>1
      <4>. HIDE DEF n
      <4>. QED
        BY <4>1, <4>2, ShellAssumption
    <3>. QED
      BY <2>1, <3>1, ShellAssumption DEF FiledFrom
  <2>2. CASE ~(state.filed = Nowhere /\ total > MaxBytes)
    <3>1. filed = state.filed
      BY <2>2 DEF FiledFrom
    <3>2. filed = Nowhere => total <= MaxBytes
      BY <1>7, <2>2, <3>1, ShellAssumption
    <3>3. filed = Nowhere => m <= MaxBytes
      <4>1. m \in Nat /\ total \in Nat /\ m <= total
        BY <1>5, <1>7
      <4>. HIDE DEF m, total, filed
      <4>. QED
        BY <3>2, <4>1, ShellAssumption
    <3>4. filed \in {Nowhere, 0}
      <4>1. state.filed \in {Nowhere, 0}
        BY <1>1
      <4>. QED
        BY <3>1, <4>1
    <3>. QED
      BY <3>3, <3>4
  <2>. QED
    BY <2>1, <2>2
<1>. HIDE DEF m, n, total, filed, next
<1>9. \A e \in state.ends \cup {m} :
        e # 0 => \E d \in state.ends \cup {m} : d < e /\ e - d <= ReadBytes
  <2>1. CASE m = n
    BY <1>1, <2>1
  <2>2. CASE m # n
    <3>1. n < m /\ m - n <= ReadBytes /\ n \in state.ends
      BY <1>1, <1>5, <2>2
    <3>. QED
      BY <1>1, <3>1
  <2>. QED
    BY <2>1, <2>2
<1>10. state.ends \cup {m} \subseteq 0 .. m /\ state.ends \subseteq state.ends \cup {m}
  BY <1>1, <1>5
<1>11. /\ next.text = text /\ next.ends = state.ends \cup {m} /\ next.from = KeptFrom(state, m)
       /\ next.total = total /\ next.filed = filed
       /\ next = [text |-> next.text, ends |-> next.ends, from |-> next.from,
                  total |-> next.total, filed |-> next.filed]
  BY <1>4
<1>12. Caught(next)
  BY <1>3, <1>6, <1>7, <1>8, <1>9, <1>10, <1>11 DEF Caught, m
<1>. QED
  BY <1>11, <1>12 DEF next, total

\* What was read and what has not been read is all that was written; a reader that
\* ended left nothing, and nothing was written before the shell has run.
StreamInv ==
  /\ pipe \in [Streams -> Seq(Characters)]
  /\ reader \in [Streams -> {"reading", "eof", "failed"}]
  /\ written \in Nat
  /\ (\A s \in Streams : reader[s] # "failed") =>
       capture.total + Len(pipe["stdout"]) + Len(pipe["stderr"]) = written
  /\ \A s \in Streams : reader[s] = "eof" => pipe[s] = <<>>
  /\ child = "none" => background = "none" /\ \A s \in Streams : pipe[s] = <<>>
  /\ step = "start" => child = "none"
  /\ step \in {"finish", "done"} =>
       child = "none" \/ \A s \in Streams : reader[s] # "reading"

ShownInv == OutputKept /\ (shown # <<>> => step = "done")

ShellInv == Caught(capture) /\ StreamInv /\ ShownInv

\* A write goes to a pipe that is read.
LEMMA WriteKeeps ==
  ASSUME ShellInv, Write
  PROVE  ShellInv'
<1>1. PICK s \in Streams : \E text \in Writes[s] :
        /\ pipe' = [pipe EXCEPT ![s] = @ \o text]
        /\ written' = written + Len(text)
        /\ reader[s] = "reading"
  BY ZenonT(30) DEF Write
<1>2. PICK text \in Writes[s] :
        /\ pipe' = [pipe EXCEPT ![s] = @ \o text]
        /\ written' = written + Len(text)
        /\ reader[s] = "reading"
  BY <1>1
<1>3. UNCHANGED <<step, child, background, reader, capture, shown>>
  BY DEF Write
<1>4. step # "done" /\ child # "none"
  BY DEF Write, IsHeld, ShellInv, StreamInv
<1>5. text \in Seq(Characters) /\ pipe[s] \in Seq(Characters) /\ s \in {"stdout", "stderr"}
  BY ShellAssumption DEF ShellInv, StreamInv, Streams
<1>6. /\ pipe[s] \o text \in Seq(Characters) /\ Len(pipe[s] \o text) = Len(pipe[s]) + Len(text)
      /\ Len(text) \in Nat /\ Len(pipe[s]) \in Nat
  BY <1>5, ConcatProperties
<1>7. /\ pipe' \in [Streams -> Seq(Characters)] /\ pipe'[s] = pipe[s] \o text
      /\ \A r \in Streams : r # s => pipe'[r] = pipe[r]
  BY <1>2, <1>6 DEF ShellInv, StreamInv
<1>8. (\A r \in Streams : reader[r] # "failed") =>
        capture.total + Len(pipe'["stdout"]) + Len(pipe'["stderr"]) = written'
  <2>1. SUFFICES ASSUME \A r \in Streams : reader[r] # "failed"
                 PROVE  capture.total + Len(pipe'["stdout"]) + Len(pipe'["stderr"]) = written'
    OBVIOUS
  <2>2. /\ capture.total \in Nat /\ Len(pipe["stdout"]) \in Nat /\ Len(pipe["stderr"]) \in Nat
        /\ capture.total + Len(pipe["stdout"]) + Len(pipe["stderr"]) = written
    BY <2>1 DEF ShellInv, StreamInv, Caught, Streams
  <2>3. Len(pipe'[s]) = Len(pipe[s]) + Len(text)
    BY <1>6, <1>7
  <2>4. CASE s = "stdout"
    <3>1. pipe'["stderr"] = pipe["stderr"]
      BY <1>7, <2>4 DEF Streams
    <3>. QED
      BY <1>2, <1>6, <2>2, <2>3, <2>4, <3>1
  <2>5. CASE s = "stderr"
    <3>1. pipe'["stdout"] = pipe["stdout"]
      BY <1>7, <2>5 DEF Streams
    <3>. QED
      BY <1>2, <1>6, <2>2, <2>3, <2>5, <3>1
  <2>. QED
    BY <1>5, <2>4, <2>5
<1>9. \A r \in Streams : reader[r] = "eof" => pipe'[r] = <<>>
  BY <1>2, <1>7 DEF ShellInv, StreamInv
<1>10. written' \in Nat
  BY <1>2, <1>6 DEF ShellInv, StreamInv
<1>11. StreamInv'
  BY <1>3, <1>4, <1>7, <1>8, <1>9, <1>10 DEF ShellInv, StreamInv
<1>12. shown = <<>>
  BY <1>4 DEF ShellInv, ShownInv
<1>. QED
  BY <1>3, <1>11, <1>12 DEF ShellInv, ShownInv, OutputKept

\* What the environment does besides, and the steps of exec up to its last one.
LEMMA OthersKeep ==
  ASSUME ShellInv, Fork \/ Exit \/ AbortIsSet \/ Expire \/ Start \/ Poll \/ Checks \/ Join
  PROVE  ShellInv'
<1>1. UNCHANGED <<pipe, reader, capture, shown, written>>
  BY DEF Fork, Exit, AbortIsSet, Expire, Start, Poll, Checks, Join
<1>2. /\ child' = "none" => child = "none"
      /\ child' = "none" => background' = "none"
      /\ step' # "start" \/ child' = "none"
      /\ step' \in {"finish", "done"} => child' = "none" \/ \A s \in Streams : reader[s] # "reading"
      /\ step = "done" => step' = "done"
  <2>. USE DEF ShellInv, StreamInv
  <2>1. CASE Fork \/ Exit \/ AbortIsSet \/ Expire
    BY <2>1 DEF Fork, Exit, AbortIsSet, Expire, IsHeld
  <2>2. CASE Start
    BY <2>2 DEF Start
  <2>3. CASE Poll
    BY <2>3 DEF Poll
  <2>4. CASE Checks
    BY <2>4 DEF Checks, KillTree
  <2>5. CASE Join
    BY <2>5 DEF Join
  <2>. QED
    BY <2>1, <2>2, <2>3, <2>4, <2>5
<1>3. StreamInv'
  BY <1>1, <1>2 DEF ShellInv, StreamInv
<1>4. ShownInv'
  BY <1>1, <1>2 DEF ShellInv, ShownInv, OutputKept
<1>. QED
  BY <1>1, <1>3, <1>4 DEF ShellInv

LEMMA ReadEndKeeps ==
  ASSUME ShellInv, NEW s \in Streams, ReadEnd(s)
  PROVE  ShellInv'
<1>1. /\ reader' = [reader EXCEPT ![s] = "eof"] /\ reader[s] = "reading" /\ pipe[s] = <<>>
      /\ child # "none"
      /\ UNCHANGED <<step, child, background, pipe, capture, shown, written>>
  BY DEF ReadEnd
<1>2. /\ reader' \in [Streams -> {"reading", "eof", "failed"}] /\ reader'[s] = "eof"
      /\ \A r \in Streams : r # s => reader'[r] = reader[r]
  BY <1>1 DEF ShellInv, StreamInv
<1>3. StreamInv'
  BY <1>1, <1>2 DEF ShellInv, StreamInv
<1>4. shown = <<>>
  BY <1>1 DEF ShellInv, StreamInv, ShownInv
<1>. QED
  BY <1>1, <1>3, <1>4 DEF ShellInv, ShownInv, OutputKept

\* A read takes the beginning of what is in a pipe.
LEMMA ReadChunkKeeps ==
  ASSUME ShellInv, NEW s \in Streams, ReadChunk(s)
  PROVE  ShellInv'
<1>. DEFINE held == pipe[s]
            least == Min({ReadBytes, Len(held)})
            chunk == SubSeq(held, 1, least)
            rest == SubSeq(held, Len(chunk) + 1, Len(held))
            next == Captured(capture, chunk)
<1>1. /\ reader[s] = "reading" /\ held # <<>>
      /\ pipe' = [pipe EXCEPT ![s] = rest]
      /\ \/ capture' = next /\ UNCHANGED <<reader, faults>>
         \/ /\ reader' = [reader EXCEPT ![s] = "failed"]
            /\ capture' = next \/ capture' = [capture EXCEPT !.total = next.total]
      /\ UNCHANGED <<step, child, background, shown, written>>
  BY DEF ReadChunk
<1>2. /\ held \in Seq(Characters) /\ Len(held) \in Nat /\ pipe \in [Streams -> Seq(Characters)]
      /\ reader \in [Streams -> {"reading", "eof", "failed"}]
      /\ Caught(capture) /\ capture.total \in Nat
  BY DEF ShellInv, StreamInv, Caught
<1>3. child # "none" /\ step # "done" /\ step # "finish" /\ shown = <<>>
  BY <1>1 DEF ShellInv, StreamInv, ShownInv
<1>. HIDE DEF held
<1>4. least \in 0 .. Len(held) /\ least <= ReadBytes
  <2>1. {ReadBytes, Len(held)} \in SUBSET Nat /\ {ReadBytes, Len(held)} # {}
    BY <1>2, ShellAssumption
  <2>2. /\ least \in {ReadBytes, Len(held)}
        /\ \A m \in {ReadBytes, Len(held)} : least <= m
    BY <2>1, LeastNumber
  <2>. HIDE DEF least
  <2>. QED
    BY <1>2, <2>2, ShellAssumption
<1>. HIDE DEF least
<1>5. chunk \in Seq(Characters) /\ Len(chunk) = least
  <2>1. \A i \in 1 .. least : held[i] \in Characters
    BY <1>2, <1>4
  <2>2. chunk \in Seq(Characters) /\ Len(chunk) = IF 1 <= least THEN least - 1 + 1 ELSE 0
    BY <1>4, <2>1, SubSeqProperties
  <2>. HIDE DEF chunk
  <2>. QED
    BY <1>4, <2>2
<1>. HIDE DEF chunk
<1>6. rest \in Seq(Characters) /\ Len(rest) = Len(held) - least
  <2>. DEFINE start == Len(chunk) + 1
  <2>1. start = least + 1 /\ start \in 1 .. Len(held) + 1
    BY <1>2, <1>4, <1>5
  <2>. HIDE DEF start
  <2>2. \A i \in start .. Len(held) : held[i] \in Characters
    BY <1>2, <2>1
  <2>3. /\ SubSeq(held, start, Len(held)) \in Seq(Characters)
        /\ Len(SubSeq(held, start, Len(held))) =
             IF start <= Len(held) THEN Len(held) - start + 1 ELSE 0
    BY <1>2, <2>1, <2>2, SubSeqProperties
  <2>4. Len(SubSeq(held, start, Len(held))) = Len(held) - least
    BY <1>2, <1>4, <2>1, <2>3
  <2>. QED
    BY <2>3, <2>4 DEF start
<1>. HIDE DEF rest
<1>7. Caught(next) /\ next.total = capture.total + least
  BY <1>2, <1>4, <1>5, CaptureGrows
<1>. HIDE DEF next
<1>8. Caught(capture')
  <2>1. CASE capture' = next
    BY <1>7, <2>1
  <2>2. CASE capture' = [capture EXCEPT !.total = next.total]
    <3>1. next.total \in Nat /\ capture.total <= next.total
      BY <1>2, <1>4, <1>7
    <3>2. /\ capture'.text = capture.text /\ capture'.ends = capture.ends
          /\ capture'.from = capture.from /\ capture'.total = next.total
          /\ capture'.filed = capture.filed
          /\ capture' = [text |-> capture'.text, ends |-> capture'.ends, from |-> capture'.from,
                         total |-> capture'.total, filed |-> capture'.filed]
      BY <1>2, <2>2 DEF Caught
    <3>3. Len(capture.text) <= next.total
      BY <1>2, <3>1 DEF Caught
    <3>. QED
      BY <1>2, <3>1, <3>2, <3>3 DEF Caught
  <2>. QED
    BY <1>1, <2>1, <2>2
<1>9. /\ pipe' \in [Streams -> Seq(Characters)] /\ pipe'[s] = rest
      /\ \A r \in Streams : r # s => pipe'[r] = pipe[r]
  BY <1>1, <1>2, <1>6
<1>10. /\ reader' \in [Streams -> {"reading", "eof", "failed"}] /\ reader'[s] # "eof"
       /\ \A r \in Streams : r # s => reader'[r] = reader[r]
       /\ reader'[s] # "failed" => reader' = reader /\ capture' = next
  BY <1>1, <1>2
<1>11. (\A r \in Streams : reader'[r] # "failed") =>
         capture'.total + Len(pipe'["stdout"]) + Len(pipe'["stderr"]) = written
  <2>1. SUFFICES ASSUME \A r \in Streams : reader'[r] # "failed"
                 PROVE  capture'.total + Len(pipe'["stdout"]) + Len(pipe'["stderr"]) = written
    OBVIOUS
  <2>2. reader' = reader /\ capture'.total = capture.total + least
    BY <1>7, <1>10, <2>1
  <2>3. /\ Len(pipe["stdout"]) \in Nat /\ Len(pipe["stderr"]) \in Nat
        /\ capture.total + Len(pipe["stdout"]) + Len(pipe["stderr"]) = written
    BY <2>1, <2>2 DEF ShellInv, StreamInv, Streams
  <2>4. Len(pipe'[s]) = Len(pipe[s]) - least
    BY <1>6, <1>9 DEF held
  <2>5. CASE s = "stdout"
    <3>1. pipe'["stderr"] = pipe["stderr"]
      BY <1>9, <2>5 DEF Streams
    <3>2. Len(pipe'["stdout"]) = Len(pipe["stdout"]) - least
      BY <2>4, <2>5
    <3>3. least \in Nat /\ capture.total \in Nat
      BY <1>2, <1>4
    <3>. QED
      BY <2>2, <2>3, <3>1, <3>2, <3>3
  <2>6. CASE s = "stderr"
    <3>1. pipe'["stdout"] = pipe["stdout"]
      BY <1>9, <2>6 DEF Streams
    <3>2. Len(pipe'["stderr"]) = Len(pipe["stderr"]) - least
      BY <2>4, <2>6
    <3>3. least \in Nat /\ capture.total \in Nat
      BY <1>2, <1>4
    <3>. QED
      BY <2>2, <2>3, <3>1, <3>2, <3>3
  <2>. QED
    BY <2>5, <2>6 DEF Streams
<1>12. \A r \in Streams : reader'[r] = "eof" => pipe'[r] = <<>>
  BY <1>9, <1>10 DEF ShellInv, StreamInv
<1>13. StreamInv'
  BY <1>1, <1>3, <1>9, <1>10, <1>11, <1>12 DEF ShellInv, StreamInv
<1>. QED
  BY <1>1, <1>3, <1>8, <1>13 DEF ShellInv, ShownInv, OutputKept

\* What is shown at the end: nothing was cut from the front of what is kept, or it
\* is more than can be shown.
LEMMA FinishKeeps ==
  ASSUME ShellInv, FinishCapture
  PROVE  ShellInv'
<1>. DEFINE text == capture.text
            kept == After(text, capture.from)
            tail == TruncatedTail(kept)
            files == tail.truncated /\ capture.filed = Nowhere
<1>1. /\ step = "finish" /\ step' = "done"
      /\ \/ /\ capture' = [capture EXCEPT !.filed = IF files THEN capture.from ELSE @]
            /\ shown' = <<[output |-> tail.content, truncated |-> tail.truncated,
                           cancelled |-> aborted]>>
         \/ files /\ UNCHANGED <<capture, shown>>
      /\ UNCHANGED <<child, background, pipe, reader, written>>
  BY DEF FinishCapture
<1>2. /\ text \in Seq(ToSet(text)) /\ Len(text) \in Nat /\ capture.from \in 0 .. Len(text)
      /\ capture.from # 0 => Len(text) - capture.from > MaxBytes
      /\ capture.filed \in {Nowhere, 0}
      /\ capture.filed = Nowhere => Len(text) <= MaxBytes
  BY DEF ShellInv, Caught
<1>. DEFINE S == ToSet(text) \cup {"n"}
<1>3. text \in Seq(S)
  <2>1. ToSet(text) \subseteq S
    OBVIOUS
  <2>. HIDE DEF S, text
  <2>. QED
    BY <1>2, <2>1
<1>4. kept \in Seq(S) /\ Len(kept) = Len(text) - capture.from /\ EndOf(kept, text)
  BY <1>2, <1>3, AfterIs
<1>5. "n" \in S
  OBVIOUS
<1>6. capture.from = 0 => kept = text
  <2>1. capture.from = 0 => Len(kept) = Len(text) /\ \A i \in 1 .. Len(kept) : kept[i] = text[i]
    <3>. SUFFICES ASSUME capture.from = 0
                  PROVE  Len(kept) = Len(text) /\ \A i \in 1 .. Len(kept) : kept[i] = text[i]
      OBVIOUS
    <3>1. PICK k \in 1 .. Len(text) + 1 :
            Len(kept) = Len(text) - k + 1 /\ \A i \in 1 .. Len(kept) : kept[i] = text[k + i - 1]
      BY <1>4 DEF EndOf
    <3>2. Len(kept) = Len(text) /\ k = 1
      BY <1>2, <1>4, <3>1
    <3>. QED
      BY <3>1, <3>2
  <2>. HIDE DEF kept, text, S
  <2>. QED
    BY <1>3, <1>4, <2>1
<1>7. capture.filed = Nowhere => capture.from = 0
  <2>1. capture.from \in Nat /\ Len(text) \in Nat
    BY <1>2
  <2>. HIDE DEF text
  <2>. QED
    BY <1>2, <2>1, ShellAssumption
<1>. DEFINE filed == IF files THEN capture.from ELSE capture.filed
<1>8. /\ filed \in {Nowhere, 0}
      /\ filed = Nowhere => capture.filed = Nowhere
      /\ tail.truncated => filed = 0
  BY <1>2, <1>7, ShellAssumption
<1>9. \/ ~tail.truncated /\ tail.content = kept /\ Len(kept) <= MaxBytes
      \/ /\ tail.truncated
         /\ tail.content \in Seq(S) /\ EndOf(tail.content, Body(kept))
         /\ Len(tail.content) <= MaxBytes
         /\ LineCount(tail.content) <= MaxLines
  BY <1>4, TailIs
<1>10. /\ Body(kept) \in Seq(S)
       /\ Body(kept) = kept \/ (Len(kept) = Len(Body(kept)) + 1 /\ kept[Len(kept)] = "n")
       /\ \A i \in 1 .. Len(Body(kept)) : Body(kept)[i] = kept[i]
  BY <1>4, BodyIs
<1>. DEFINE body == Body(kept)
            content == tail.content
<1>. HIDE DEF files, tail, kept, body, content, S, text
<1>11. ~tail.truncated => content = text
  <2>1. ASSUME ~tail.truncated, capture.from # 0 PROVE FALSE
    BY <1>2, <1>4, <1>9, <2>1, ShellAssumption
  <2>. QED
    BY <1>6, <1>9, <2>1 DEF content
<1>12. ASSUME tail.truncated
       PROVE  IsSuffix(content, text) \/ IsSuffix(content \o <<"n">>, text)
  <2>1. content \in Seq(S) /\ EndOf(content, body)
    BY <1>9, <1>12 DEF content, body
  <2>2. body \in Seq(S) /\ Len(body) \in Nat /\ Len(content) \in Nat /\ Len(kept) \in Nat
    BY <1>4, <1>10, <2>1 DEF body
  <2>3. CASE body = kept
    <3>1. EndOf(content, text)
      BY <1>2, <1>4, <2>1, <2>2, <2>3, EndOfEnd
    <3>. QED
      BY <1>3, <2>1, <3>1, EndIsSuffix
  <2>4. CASE Len(kept) = Len(body) + 1 /\ kept[Len(kept)] = "n"
    <3>. DEFINE more == content \o <<"n">>
    <3>1. /\ more \in Seq(S) /\ Len(more) = Len(content) + 1
          /\ \A i \in 1 .. Len(content) : more[i] = content[i]
          /\ more[Len(content) + 1] = "n"
      <4>1. <<"n">> \in Seq(S) /\ Len(<<"n">>) = 1 /\ <<"n">>[1] = "n"
        BY <1>5
      <4>2. /\ more \in Seq(S) /\ Len(more) = Len(content) + Len(<<"n">>)
            /\ \A i \in 1 .. Len(content) + Len(<<"n">>) :
                 more[i] = IF i <= Len(content) THEN content[i] ELSE <<"n">>[i - Len(content)]
        BY <2>1, <4>1, ConcatProperties
      <4>. HIDE DEF more
      <4>. QED
        BY <2>2, <4>1, <4>2
    <3>. HIDE DEF more
    <3>2. PICK k \in 1 .. Len(body) + 1 :
            Len(content) = Len(body) - k + 1
            /\ \A i \in 1 .. Len(content) : content[i] = body[k + i - 1]
      BY <2>1 DEF EndOf
    <3>3. \A i \in 1 .. Len(body) : body[i] = kept[i]
      BY <1>10 DEF body
    <3>4. ASSUME NEW i \in 1 .. Len(more) PROVE more[i] = kept[k + i - 1]
      <4>1. CASE i \in 1 .. Len(content)
        <5>1. k + i - 1 \in 1 .. Len(body)
          BY <2>2, <3>2, <4>1
        <5>. QED
          BY <3>1, <3>2, <3>3, <4>1, <5>1
      <4>2. CASE i = Len(content) + 1
        <5>1. k + i - 1 = Len(kept)
          BY <2>2, <2>4, <3>2, <4>2
        <5>. QED
          BY <2>4, <3>1, <4>2, <5>1
      <4>. QED
        BY <2>2, <3>1, <4>1, <4>2
    <3>5. k \in 1 .. Len(kept) + 1 /\ Len(more) = Len(kept) - k + 1
      BY <2>2, <2>4, <3>1, <3>2
    <3>6. EndOf(more, kept)
      BY <3>4, <3>5 DEF EndOf
    <3>7. EndOf(more, text)
      BY <1>2, <1>4, <2>2, <3>1, <3>6, EndOfEnd
    <3>. QED
      BY <1>3, <3>1, <3>7, EndIsSuffix DEF more
  <2>. QED
    BY <1>10, <2>3, <2>4 DEF body
<1>13. Caught(capture')
  <2>1. CASE capture' = [capture EXCEPT !.filed = filed]
    <3>1. /\ capture'.text = capture.text /\ capture'.ends = capture.ends
          /\ capture'.from = capture.from /\ capture'.total = capture.total
          /\ capture'.filed = filed
          /\ capture' = [text |-> capture'.text, ends |-> capture'.ends, from |-> capture'.from,
                         total |-> capture'.total, filed |-> capture'.filed]
      BY <2>1 DEF ShellInv, Caught
    <3>. HIDE DEF filed
    <3>. QED
      BY <1>8, <3>1 DEF ShellInv, Caught
  <2>2. CASE UNCHANGED capture
    BY <2>2 DEF ShellInv
  <2>. QED
    BY <1>1, <2>1, <2>2
<1>14. StreamInv'
  <2>1. capture'.total = capture.total
    BY <1>1 DEF ShellInv, Caught
  <2>. QED
    BY <1>1, <2>1 DEF ShellInv, StreamInv
<1>15. ShownInv'
  <2>1. CASE UNCHANGED <<capture, shown>>
    <3>1. shown = <<>>
      BY <1>1 DEF ShellInv, ShownInv
    <3>. QED
      BY <1>1, <2>1, <3>1 DEF ShownInv, OutputKept
  <2>2. CASE /\ capture' = [capture EXCEPT !.filed = filed]
             /\ shown' = <<[output |-> content, truncated |-> tail.truncated,
                            cancelled |-> aborted]>>
    <3>1. /\ DOMAIN shown' = {1} /\ shown'[1].output = content
          /\ shown'[1].truncated = tail.truncated
      BY <2>2
    <3>2. capture'.text = text /\ capture'.filed = filed /\ capture'.total = capture.total
      BY <2>2 DEF ShellInv, Caught, text
    <3>3. (\A s \in Streams : reader[s] # "failed") => capture.total = written
      <4>. SUFFICES ASSUME \A s \in Streams : reader[s] # "failed"
                    PROVE  capture.total = written
        OBVIOUS
      <4>1. \A s \in Streams : pipe[s] = <<>>
        BY <1>1 DEF ShellInv, StreamInv
      <4>2. /\ capture.total \in Nat /\ pipe["stdout"] = <<>> /\ pipe["stderr"] = <<>>
            /\ capture.total + Len(pipe["stdout"]) + Len(pipe["stderr"]) = written
        BY <4>1 DEF ShellInv, StreamInv, Caught, Streams
      <4>. QED
        BY <4>2
    <3>4. tail.truncated => Len(content) <= MaxBytes /\ LineCount(content) <= MaxLines
      BY <1>9 DEF content
    <3>5. UNCHANGED <<reader, written>>
      BY <1>1
    <3>. HIDE DEF filed
    <3>6. OutputKept'
      BY <1>8, <1>11, <1>12, <3>1, <3>2, <3>3, <3>4, <3>5 DEF OutputKept
    <3>. QED
      BY <1>1, <3>6 DEF ShownInv
  <2>. QED
    BY <1>1, <2>1, <2>2 DEF content
<1>. QED
  BY <1>13, <1>14, <1>15 DEF ShellInv

\* What a command shows is all that was read of it or, told as such, the end of
\* that within the limits, with all of it in the file (capture_chunk,
\* finish_capture, truncate_tail): for any limits that a read is within, and
\* whatever the processes write.
THEOREM OutputIsKept == ShellSpec => []OutputKept
<1>1. CommandInit => ShellInv
  <2>. SUFFICES ASSUME CommandInit PROVE ShellInv
    OBVIOUS
  <2>. USE DEF CommandInit
  <2>1. Caught(capture)
    <3>1. /\ capture.text = <<>> /\ capture.ends = {0} /\ capture.from = 0
          /\ capture.total = 0 /\ capture.filed = Nowhere
          /\ capture = [text |-> capture.text, ends |-> capture.ends, from |-> capture.from,
                        total |-> capture.total, filed |-> capture.filed]
      OBVIOUS
    <3>2. <<>> \in Seq(ToSet(<<>>)) /\ Len(<<>>) = 0
      OBVIOUS
    <3>. QED
      BY <3>1, <3>2, ShellAssumption DEF Caught
  <2>2. StreamInv
    BY DEF StreamInv, Streams
  <2>3. ShownInv
    BY DEF ShownInv, OutputKept
  <2>. QED
    BY <2>1, <2>2, <2>3 DEF ShellInv
<1>2. ShellInv /\ [ShellNext]_shellVars => ShellInv'
  <2>1. ASSUME ShellInv, UNCHANGED shellVars PROVE ShellInv'
    BY <2>1 DEF shellVars, ShellInv, StreamInv, ShownInv, OutputKept
  <2>2. ASSUME ShellInv, ShellNext PROVE ShellInv'
    BY <2>2, WriteKeeps, OthersKeep, ReadEndKeeps, ReadChunkKeeps, FinishKeeps
       DEF ShellNext, Exec, Reader
  <2>. QED
    BY <2>1, <2>2
<1>3. ShellInv => OutputKept
  BY DEF ShellInv, ShownInv
<1>. QED
  BY <1>1, <1>2, <1>3, PTL DEF ShellSpec
=============================================================================
