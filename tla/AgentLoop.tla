------------------------------ MODULE AgentLoop ------------------------------
(***************************************************************************)
(* One run of the agent loop of crates/ri-agent-core/src/agent_loop.rs:    *)
(* prompt messages enter the context, a turn asks the model for one        *)
(* assistant message and answers its tool calls, queued messages are       *)
(* injected between turns, and the run ends with a stop, an error or the   *)
(* turn limit.                                                             *)
(*                                                                         *)
(* The loop, the tools of a parallel batch and the caller that queues      *)
(* messages or aborts are separate actors.  The model, the tools, the      *)
(* hooks and the providers are the environment: each answers in every way  *)
(* its interface allows.  The text of a message is abstracted to what      *)
(* distinguishes one message from another.                                 *)
(***************************************************************************)
EXTENDS Integers, Sequences

CONSTANTS
  MaxTurns,         \* AgentLoopConfig.max_turns
  MaxCalls,         \* bound: tool calls in one assistant message
  MaxUserMessages,  \* bound: user messages written in one run
  Rewrites,         \* the contexts that prepare_next_turn may return
  Histories         \* the contexts a run may be started on

-----------------------------------------------------------------------------
(* Messages.  n is the number of a user message, the number of tool calls  *)
(* of an assistant message, and the position of the call that a tool       *)
(* result answers.                                                         *)

StopReasons == {"stop", "length", "toolUse", "error", "aborted"}

Message == [role : {"user", "assistant", "toolResult"},
            turn : Nat, n : Nat, stop : StopReasons \cup {"none"}]

UserMessage(id) ==
  [role |-> "user", turn |-> 0, n |-> id, stop |-> "none"]
AssistantMessage(t, calls, stop) ==
  [role |-> "assistant", turn |-> t, n |-> calls, stop |-> stop]
ToolResult(t, call) ==
  [role |-> "toolResult", turn |-> t, n |-> call, stop |-> "none"]

ASSUME AgentLoopAssumption ==
  /\ MaxTurns \in Nat
  /\ MaxCalls \in Nat
  /\ MaxUserMessages \in Nat \ {0}
  /\ Rewrites \subseteq Seq(Message)
  /\ Histories \subseteq Seq(Message)

\* config.max_turns.max(1)
TurnLimit == IF MaxTurns < 1 THEN 1 ELSE MaxTurns

VARIABLES
  pc,          \* where the loop's future is
  entry,       \* "prompt" or "continue": the entry point called
  skipPoll,    \* config.skip_initial_queued_message_poll
  original,    \* the context handed to the run
  prompts,     \* the prompt messages
  ctx,         \* context.messages
  turn,        \* turn_index + 1
  pending,     \* pending_messages: drained, not yet injected
  collected,   \* all_messages
  turnOutput,  \* TurnOutcome.messages of the turn in progress
  parallel,    \* how the current batch runs
  calls,       \* the state of each tool call of the batch
  outcomes,    \* ToolExecutionOutcomes, in the order they were pushed
  terminate,   \* TurnOutcome.terminate
  emitted,     \* the messages whose MessageEnd reached the event sink
  steering,    \* the steering queue
  followUp,    \* the follow-up queue
  nextId,      \* the next unused user message
  abort,       \* the abort flag
  cause,       \* why the run failed: "none", "error", "poll" or "maxTurns"
  rewritten,   \* prepare_next_turn has replaced the context
  returned     \* the messages the run returned

loopVars  == <<pc, turn, pending, collected, turnOutput, cause, rewritten>>
batchVars == <<parallel, calls, outcomes, terminate>>
textVars  == <<ctx, emitted>>
userVars  == <<steering, followUp, nextId, abort>>
inputVars == <<entry, skipPoll, original, prompts>>
vars == <<loopVars, batchVars, textVars, userVars, inputVars, returned>>

Phases == {"begin", "initialPoll", "startTurn", "request", "streaming",
           "answer", "prepareCall", "executing", "closeBatch", "endTurn",
           "prepareNext", "shouldStop", "pollSteering", "pollFollowUp",
           "failed", "finish", "done", "rejected", "panicked"}

Init ==
  /\ pc = "begin"
  /\ entry \in {"prompt", "continue"}
  /\ skipPoll \in BOOLEAN
  /\ original \in Histories
  /\ prompts = IF entry = "prompt" THEN <<UserMessage(1)>> ELSE <<>>
  /\ ctx = original
  /\ turn = 1
  /\ pending = <<>>
  /\ collected = <<>>
  /\ turnOutput = <<>>
  /\ parallel = FALSE
  /\ calls = <<>>
  /\ outcomes = <<>>
  /\ terminate = FALSE
  /\ emitted = <<>>
  /\ steering = <<>>
  /\ followUp = <<>>
  /\ nextId = 2
  /\ abort = FALSE
  /\ cause = "none"
  /\ rewritten = FALSE
  /\ returned = <<>>

-----------------------------------------------------------------------------
(* Queues and small steps                                                  *)

Causes == {"none", "error", "poll", "maxTurns"}

\* PendingMessageQueue::drain_now takes the whole queue (QueueMode::All) or its
\* first message (OneAtATime); set_mode may change the mode at any time.
Takes(queue) == {Len(queue)} \cup (IF queue = <<>> THEN {} ELSE {1})
Taken(queue, k) == SubSeq(queue, 1, k)

\* A mutation: draining the whole queue removes its first message only.
LeftTail(queue, k) == SubSeq(queue, 2, Len(queue))
Left(queue, k) == SubSeq(queue, k + 1, Len(queue))

\* The error path of every fallible call of the loop.
Fail(why) ==
  /\ pc' = "failed"
  /\ cause' = why

\* A message is pushed to the context and its MessageEnd is emitted.
Record(messages) ==
  /\ ctx' = ctx \o messages
  /\ emitted' = emitted \o messages

\* for turn_index in 0..max_turns: a next turn, or the turn limit.
NextTurn ==
  IF turn < TurnLimit
    THEN /\ turn' = turn + 1
         /\ pc' = "startTurn"
         /\ UNCHANGED cause
    ELSE /\ Fail("maxTurns")
         /\ UNCHANGED turn

-----------------------------------------------------------------------------
(* The run and its turns                                                   *)

\* agent_loop_prompt_messages and agent_loop_continue up to run_until_done.
Begin ==
  /\ pc = "begin"
  /\ IF /\ entry = "continue"
        /\ \/ ctx = <<>>
           \/ ctx[Len(ctx)].role = "assistant"
       THEN /\ pc' = "rejected"
            /\ UNCHANGED textVars
       ELSE /\ Record(prompts)
            /\ pc' = IF skipPoll THEN "startTurn" ELSE "initialPoll"
  /\ UNCHANGED <<turn, pending, collected, turnOutput, cause, rewritten,
                 batchVars, userVars, inputVars, returned>>

\* The steering poll before the first turn.  QueuedMessageProviderChain drains
\* the queue before it asks the extra provider, whose error drops what was
\* drained.
InitialPoll ==
  /\ pc = "initialPoll"
  /\ \E k \in Takes(steering) :
       /\ steering' = Left(steering, k)
       /\ \/ /\ pc' = "startTurn"
             /\ pending' = Taken(steering, k)
             /\ UNCHANGED cause
          \/ Fail("poll") /\ UNCHANGED pending
  /\ UNCHANGED <<turn, collected, turnOutput, rewritten, batchVars, textVars,
                 followUp, nextId, abort, inputVars, returned>>

\* TurnStart and record_injected_messages.
StartTurn ==
  /\ pc = "startTurn"
  /\ Record(pending)
  /\ collected' = collected \o pending
  /\ pending' = <<>>
  /\ pc' = "request"
  /\ UNCHANGED <<turn, turnOutput, cause, rewritten, batchVars, userVars,
                 inputVars, returned>>

\* run_one_turn up to the stream: transform_context, convert_to_llm, the api
\* key and the stream call can each fail.
Request ==
  /\ pc = "request"
  /\ \/ pc' = "streaming" /\ UNCHANGED cause
     \/ Fail("error")
  /\ UNCHANGED <<turn, pending, collected, turnOutput, rewritten, batchVars,
                 textVars, userVars, inputVars, returned>>

\* The assistant message is complete: it is recorded and its stop reason
\* decides what becomes of its tool calls.
ReceiveMessage ==
  /\ pc = "streaming"
  /\ \E n \in 0 .. MaxCalls, stop \in StopReasons :
       LET message == AssistantMessage(turn, n, stop) IN
       /\ Record(<<message>>)
       /\ turnOutput' = <<message>>
       /\ calls' = IF stop = "toolUse" THEN [i \in 1 .. n |-> "new"] ELSE <<>>
       /\ pc' = CASE stop = "length" /\ n > 0 -> "answer"
                  [] stop = "toolUse" -> "prepareCall"
                  [] OTHER -> "endTurn"
       /\ IF stop = "toolUse" THEN parallel' \in BOOLEAN ELSE parallel' = FALSE
  /\ outcomes' = <<>>
  /\ terminate' = FALSE
  /\ UNCHANGED <<turn, pending, collected, cause, rewritten, userVars,
                 inputVars, returned>>

\* The stream ends without a final message (stream.try_result() is an error).
StreamFails ==
  /\ pc = "streaming"
  /\ Fail("error")
  /\ UNCHANGED <<turn, pending, collected, turnOutput, rewritten, batchVars,
                 textVars, userVars, inputVars, returned>>

-----------------------------------------------------------------------------
(* Tool calls                                                              *)

Outcome(i, ends) == [index |-> i, terminate |-> ends]

\* should_terminate_tool_batch
ShouldTerminate(os) ==
  /\ os # <<>>
  /\ \A k \in DOMAIN os : os[k].terminate

\* A mutation: the results of a parallel batch keep their completion order.
InCompletionOrder(os) == os

\* execute_tool_calls_in_source_order: one slot per index, read in order.
InSourceOrder(os) ==
  LET indices == {os[k].index : k \in DOMAIN os}
      last == IF indices = {} THEN 0
              ELSE CHOOSE m \in indices : \A i \in indices : i <= m
  IN [i \in 1 .. last |-> os[CHOOSE k \in DOMAIN os : os[k].index = i]]

\* A mutation: the last result of a batch is not pushed to the context.
ResultMessagesButLast(os) ==
  [k \in 1 .. Len(os) - 1 |-> ToolResult(turn, os[k].index)]

\* tool_result_message_from_outcome
ResultMessages(os) == [k \in DOMAIN os |-> ToolResult(turn, os[k].index)]

\* A "length" stop: every call is failed without being executed.
AnswerTruncated ==
  /\ pc = "answer"
  /\ LET n == turnOutput[1].n
         results == [i \in 1 .. n |-> ToolResult(turn, i)] IN
     /\ Record(results)
     /\ turnOutput' = turnOutput \o results
  /\ pc' = "endTurn"
  /\ UNCHANGED <<turn, pending, collected, cause, rewritten, batchVars,
                 userVars, inputVars, returned>>

\* A mutation: a parallel batch waits for a call before preparing the next.
IsNextWaiting(i) ==
  /\ calls[i] = "new"
  /\ \A j \in 1 .. i - 1 : calls[j] = "finished"

\* The call prepare_tool_call works on: calls are taken in source order, and
\* a sequential batch finishes one call before the next.
IsNext(i) ==
  /\ calls[i] = "new"
  /\ \A j \in 1 .. i - 1 : calls[j] # "new"
  /\ ~parallel => \A j \in 1 .. i - 1 : calls[j] = "finished"

\* An outcome is known.  A sequential batch emits the result at once, and
\* pushes it to the context only when the whole batch is done.
Finish(i, ends) ==
  /\ calls' = [calls EXCEPT ![i] = "finished"]
  /\ outcomes' = Append(outcomes, Outcome(i, ends))
  /\ emitted' = IF parallel THEN emitted
                ELSE Append(emitted, ToolResult(turn, i))

\* prepare_tool_call: an unknown tool, bad arguments, a hook that blocks or
\* fails, or the abort flag give an immediate error outcome.  Otherwise the
\* call is prepared, and a sequential batch starts it without a pause.
PrepareCall(i) ==
  /\ pc = "prepareCall"
  /\ IsNext(i)
  /\ \/ Finish(i, FALSE)
     \/ /\ ~abort
        /\ calls' = [calls EXCEPT ![i] = IF parallel THEN "prepared"
                                                     ELSE "running"]
        /\ UNCHANGED <<outcomes, emitted>>
  /\ UNCHANGED <<loopVars, parallel, terminate, ctx, userVars, inputVars,
                 returned>>

\* execute_tool_calls polls every prepared call of a parallel batch.
StartPrepared ==
  /\ pc = "prepareCall"
  /\ parallel
  /\ \A i \in DOMAIN calls : calls[i] # "new"
  /\ calls' = [i \in DOMAIN calls |->
                 IF calls[i] = "prepared" THEN "running" ELSE calls[i]]
  /\ pc' = "executing"
  /\ UNCHANGED <<turn, pending, collected, turnOutput, cause, rewritten,
                 parallel, outcomes, terminate, textVars, userVars, inputVars,
                 returned>>

\* execute_prepared_tool_call: the tool and its result hooks settle, in any
\* order among the calls of a parallel batch.
FinishCall(i) ==
  /\ pc \in {"prepareCall", "executing"}
  /\ calls[i] = "running"
  /\ \E ends \in BOOLEAN : Finish(i, ends)
  /\ UNCHANGED <<loopVars, parallel, terminate, ctx, userVars, inputVars,
                 returned>>

\* Every call of the batch has an outcome: results go to the context, and
\* those of a parallel batch to the event sink, in source order.
CloseBatch ==
  /\ pc = IF parallel THEN "executing" ELSE "prepareCall"
  /\ \A i \in DOMAIN calls : calls[i] = "finished"
  /\ LET results == ResultMessages(IF parallel THEN InSourceOrder(outcomes)
                                               ELSE outcomes) IN
     /\ ctx' = ctx \o results
     /\ emitted' = IF parallel THEN emitted \o results ELSE emitted
     /\ turnOutput' = turnOutput \o results
  /\ terminate' = ShouldTerminate(outcomes)
  /\ pc' = "endTurn"
  /\ UNCHANGED <<turn, pending, collected, cause, rewritten, parallel, calls,
                 outcomes, userVars, inputVars, returned>>

-----------------------------------------------------------------------------
(* Between turns                                                           *)

\* TurnEnd; a terminal assistant message ends the run.
EndTurn ==
  /\ pc = "endTurn"
  /\ collected' = collected \o turnOutput
  /\ pc' = IF turnOutput[1].stop \in {"error", "aborted"} THEN "finish"
                                                          ELSE "prepareNext"
  /\ UNCHANGED <<turn, pending, turnOutput, cause, rewritten, batchVars,
                 textVars, userVars, inputVars, returned>>

\* prepare_next_turn: no update, a new context, or an error.
PrepareNext ==
  /\ pc = "prepareNext"
  /\ \/ pc' = "shouldStop" /\ UNCHANGED <<ctx, cause, rewritten>>
     \/ /\ ctx' \in Rewrites
        /\ rewritten' = TRUE
        /\ pc' = "shouldStop"
        /\ UNCHANGED cause
     \/ Fail("error") /\ UNCHANGED <<ctx, rewritten>>
  /\ UNCHANGED <<turn, pending, collected, turnOutput, batchVars, emitted,
                 userVars, inputVars, returned>>

ShouldStop ==
  /\ pc = "shouldStop"
  /\ \/ pc' \in {"pollSteering", "finish"} /\ UNCHANGED cause
     \/ Fail("error")
  /\ UNCHANGED <<turn, pending, collected, turnOutput, rewritten, batchVars,
                 textVars, userVars, inputVars, returned>>

\* Mutations: a batch that asks to terminate continues; one result is not enough.
ShouldContinueAlways == Len(turnOutput) > 1
ShouldContinueOffByOne == ~terminate /\ Len(turnOutput) > 2

\* should_continue: the tool results of the turn want another request.
ShouldContinue == ~terminate /\ Len(turnOutput) > 1

PollSteering ==
  /\ pc = "pollSteering"
  /\ \E k \in Takes(steering) :
       /\ steering' = Left(steering, k)
       /\ \/ /\ pending' = Taken(steering, k)
             /\ IF ShouldContinue \/ pending' # <<>>
                  THEN NextTurn
                  ELSE pc' = "pollFollowUp" /\ UNCHANGED <<turn, cause>>
          \/ Fail("poll") /\ UNCHANGED <<turn, pending>>
  /\ UNCHANGED <<collected, turnOutput, rewritten, batchVars, textVars,
                 followUp, nextId, abort, inputVars, returned>>

PollFollowUp ==
  /\ pc = "pollFollowUp"
  /\ \E k \in Takes(followUp) :
       /\ followUp' = Left(followUp, k)
       /\ \/ /\ pending' = Taken(followUp, k)
             /\ IF pending' # <<>>
                  THEN NextTurn
                  ELSE pc' = "finish" /\ UNCHANGED <<turn, cause>>
          \/ Fail("poll") /\ UNCHANGED <<turn, pending>>
  /\ UNCHANGED <<collected, turnOutput, rewritten, batchVars, textVars,
                 steering, nextId, abort, inputVars, returned>>

\* A mutation: original_len is read after the prompts entered the context.
OriginalLenAfterPrompts == Len(original) + Len(prompts)

OriginalLen == Len(original)

\* finish_agent_loop_with_error: an assistant message reports the error, and
\* the run returns the context from original_len on.
FinishWithError ==
  /\ pc = "failed"
  /\ LET stop == IF abort THEN "aborted" ELSE "error" IN
     /\ Record(<<AssistantMessage(turn, 0, stop)>>)
     /\ IF OriginalLen > Len(ctx')
          THEN pc' = "panicked" /\ UNCHANGED returned
          ELSE /\ pc' = "done"
               /\ returned' = SubSeq(ctx', OriginalLen + 1, Len(ctx'))
  /\ UNCHANGED <<turn, pending, collected, turnOutput, cause, rewritten,
                 batchVars, userVars, inputVars>>

\* AgentEnd of a run without error.
FinishRun ==
  /\ pc = "finish"
  /\ pc' = "done"
  /\ returned' = prompts \o collected
  /\ UNCHANGED <<turn, pending, collected, turnOutput, cause, rewritten,
                 batchVars, textVars, userVars, inputVars>>

-----------------------------------------------------------------------------
(* The caller                                                              *)

Running == pc \notin {"done", "rejected", "panicked"}

\* PendingMessageQueue::enqueue, from Agent::steer and Agent::follow_up.
Enqueue ==
  /\ Running
  /\ nextId <= MaxUserMessages
  /\ nextId' = nextId + 1
  /\ \/ /\ steering' = Append(steering, UserMessage(nextId))
        /\ UNCHANGED followUp
     \/ /\ followUp' = Append(followUp, UserMessage(nextId))
        /\ UNCHANGED steering
  /\ UNCHANGED <<loopVars, batchVars, textVars, abort, inputVars, returned>>

Abort ==
  /\ Running
  /\ ~abort
  /\ abort' = TRUE
  /\ UNCHANGED <<loopVars, batchVars, textVars, steering, followUp, nextId,
                 inputVars, returned>>

-----------------------------------------------------------------------------
Loop ==
  \/ Begin \/ InitialPoll \/ StartTurn \/ Request \/ ReceiveMessage
  \/ StreamFails \/ AnswerTruncated \/ StartPrepared \/ CloseBatch \/ EndTurn
  \/ PrepareNext \/ ShouldStop \/ PollSteering \/ PollFollowUp
  \/ FinishWithError \/ FinishRun
  \/ \E i \in DOMAIN calls : PrepareCall(i)

Tools == \E i \in DOMAIN calls : FinishCall(i)

Next == Loop \/ Tools \/ Enqueue \/ Abort

Spec == Init /\ [][Next]_vars

\* The executor polls the loop's future while it can make progress, and every
\* tool settles: each finished call is a step of Tools.
FairSpec == Spec /\ WF_vars(Loop) /\ WF_vars(Tools)

-----------------------------------------------------------------------------
(* Type invariant                                                          *)

CallStates == {"new", "prepared", "running", "finished"}
Outcomes == [index : 1 .. MaxCalls, terminate : BOOLEAN]

\* Every variable keeps its type: the states of agent_loop.rs as modelled.
TypeOK ==
  /\ pc \in Phases
  /\ entry \in {"prompt", "continue"}
  /\ skipPoll \in BOOLEAN
  /\ original \in Seq(Message)
  /\ prompts \in Seq(Message)
  /\ ctx \in Seq(Message)
  /\ turn \in 1 .. TurnLimit
  /\ pending \in Seq(Message)
  /\ collected \in Seq(Message)
  /\ turnOutput \in Seq(Message)
  /\ parallel \in BOOLEAN
  /\ calls \in Seq(CallStates) /\ Len(calls) <= MaxCalls
  /\ outcomes \in Seq(Outcomes)
  /\ terminate \in BOOLEAN
  /\ emitted \in Seq(Message)
  /\ steering \in Seq(Message)
  /\ followUp \in Seq(Message)
  /\ nextId \in 2 .. MaxUserMessages + 1
  /\ abort \in BOOLEAN
  /\ cause \in Causes
  /\ rewritten \in BOOLEAN
  /\ returned \in Seq(Message)

-----------------------------------------------------------------------------
(* Safety                                                                  *)

\* Every request shows the model what the listeners saw, in the same order:
\* the context is the original one followed by the messages whose MessageEnd
\* was emitted, although results are pushed after, and injected messages
\* before, their event.  (A context that prepare_next_turn replaced is the
\* preparer's.)
RequestShowsTranscript ==
  pc = "request" /\ ~rewritten => ctx = original \o emitted

\* In a transcript, the calls of an assistant message that asked for tools or
\* was cut off are followed by their results, one each, in source order, and
\* there is no other result.
Asks(m) == m.role = "assistant" /\ m.stop \in {"toolUse", "length"}

CallsAnswered(s) ==
  \A j \in DOMAIN s : Asks(s[j]) =>
    \A i \in 1 .. s[j].n :
      j + i \in DOMAIN s /\ s[j + i] = ToolResult(s[j].turn, i)

ResultsAsked(s) ==
  \A k \in DOMAIN s : s[k].role = "toolResult" =>
    LET j == k - s[k].n IN
    j \in DOMAIN s /\ Asks(s[j]) /\ s[j].turn = s[k].turn /\ s[k].n <= s[j].n

\* No request is sent, and no run ends, with a tool call unanswered or a result
\* out of place, whatever order the tools of a batch settle in.
ToolCallsAnswered ==
  pc \in {"request", "done"} => CallsAnswered(emitted) /\ ResultsAsked(emitted)

\* A request has something to answer: a user message, or the results of a
\* batch that did not ask to terminate.
RequestHasQuestion ==
  pc = "request" =>
    LET transcript == original \o emitted
        last == transcript[Len(transcript)] IN
    \/ last.role = "user"
    \/ last.role = "toolResult" /\ ~terminate

\* The places of user message id: queued, drained or emitted.
Places(id) ==
  {<<"steering", k>> : k \in {x \in DOMAIN steering : steering[x].n = id}}
    \cup {<<"followUp", k>> : k \in {x \in DOMAIN followUp : followUp[x].n = id}}
    \cup {<<"pending", k>> : k \in {x \in DOMAIN pending : pending[x].n = id}}
    \cup {<<"emitted", k>> : k \in {x \in DOMAIN emitted :
                                 emitted[x] = UserMessage(id)}}

\* A message the caller queued is in exactly one place until it is emitted,
\* and never lost, unless the extra message provider failed or the turn limit
\* cut off messages already drained for the next turn.
QueuedMessagesKept ==
  \A id \in 2 .. nextId - 1 :
    /\ \A p, q \in Places(id) : p = q
    /\ Places(id) = {} => cause \in {"poll", "maxTurns"}

\* What the run returns is what its listeners saw (agent_loop.rs collects the
\* two separately); after an error it is cut out of the context.
ReturnsWhatWasEmitted ==
  pc = "done" /\ (cause = "none" \/ ~rewritten) => returned = emitted

\* No message of a run is lost or doubled on its way: queued ones reach the run,
\* and what the run shows is what it returns.
MessagesKept == QueuedMessagesKept /\ ReturnsWhatWasEmitted

\* A follow-up is taken only when the run would otherwise stop.
FollowUpsWait ==
  [][Len(followUp') < Len(followUp) =>
       pending = <<>> /\ (terminate \/ Len(turnOutput) = 1)]_vars

-----------------------------------------------------------------------------
(* Liveness                                                                *)

\* A run ends if its tools settle and the model answers: no order of
\* preparation, settling and polling leaves the loop waiting.
RunEnds == <>~Running
-----------------------------------------------------------------------------
(* A small instance.  Two turns let a batch of the first be followed by a    *)
(* request and by the turn limit; two calls settle in either order; a third  *)
(* user message is queued behind another.                                    *)

\* A question, and a finished exchange.
OneQuestion == <<UserMessage(0)>>
SmallHistories == { OneQuestion,
                    OneQuestion \o <<AssistantMessage(0, 0, "stop")>> }

\* A context shorter than the one the run began with.
SmallRewrites == { OneQuestion }
=============================================================================
