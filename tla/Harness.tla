------------------------------- MODULE Harness ---------------------------------
(***************************************************************************)
(* AgentHarness of crates/ri-agent-core/src/harness/agent_harness.rs: one  *)
(* prompt, compaction or move of the session at a time (the phase), while  *)
(* other threads and event listeners queue messages and write to the       *)
(* session.  Writes made while the harness is busy wait in                 *)
(* pending_session_writes and are flushed by the operation in progress.    *)
(*                                                                         *)
(* A step is one section under one lock, or one append to the session (the *)
(* three lock sections of an append are not told apart here).  The agent   *)
(* loop is reduced to what it does to the harness: messages it emits,      *)
(* queues it drains, contexts it asks for.  Listeners are callers.         *)
(***************************************************************************)
EXTENDS Integers, Sequences, FiniteSets, TLC

CONSTANTS
  Callers,      \* the threads and listeners that hold the harness
  Operations,   \* the operations they call
  NoCaller,     \* the holder of a lock that is free
  MaxCalls,     \* bound: calls made in a behaviour
  MaxItems,     \* bound: messages and writes made in a behaviour
  MaxTurns,     \* max_turns of a run
  MaxFailures   \* bound: appends that the session storage refuses

AllOperations ==
  {"prompt", "compact", "move", "navigate", "write", "steer", "followUp",
   "nextTurn", "abort", "abortAndWait", "wait"}

ASSUME HarnessAssumption ==
  /\ IsFiniteSet(Callers)
  /\ NoCaller \notin Callers
  /\ Operations \subseteq AllOperations
  /\ MaxCalls \in Nat
  /\ MaxItems \in Nat
  /\ MaxTurns \in Nat \ {0}
  /\ MaxFailures \in Nat

VARIABLES
  phase,        \* phase
  pending,      \* pending_session_writes
  holder,       \* who holds the lock of pending_session_writes across steps
  session,      \* the log of the session
  queues,       \* steering_queue, follow_up_queue and next_turn_queue
  abortFlag,    \* abort_flag
  notified,     \* the waiters that idle_notify has registered
  wake,         \* [Callers -> BOOLEAN]: the caller's Notified has fired
  pc,           \* [Callers -> Pcs]
  ret,          \* [Callers -> Pcs]: where a flush returns to
  held,         \* [Callers -> at most one write that the call carries]
  turn,         \* turns of the current run
  carried,      \* messages the current run has drained and not yet emitted
  context,      \* what the current run has added to its context
  persistError, \* persistence_error of the current run
  runs,         \* prompts started so far: the number of the newest run
  refused,      \* items dropped with an error, or handed back by abort
  made,         \* messages and writes made so far
  failures,     \* appends refused so far
  called        \* calls made so far

shared == <<phase, pending, holder, session, queues, abortFlag>>
waiting == <<notified, wake>>
runVars == <<turn, carried, context, persistError, runs>>
history == <<refused, made, failures, called>>
vars == <<shared, waiting, pc, ret, held, runVars, history>>

\* Where a caller that owns the phase may be.
PhasePcs ==
  {"clearAbort", "buildContext", "drainNext", "beforeStart", "emitPrompts",
   "initialPoll", "emit", "turn", "results", "turnEnd", "failTurn", "poll",
   "pollFollowUp", "runEnd", "after", "savepoint", "savepointFailed",
   "settled", "flush", "flushWrite", "flushBack", "summarize", "commit",
   "navigate", "navigateMove", "finish"}
Pcs ==
  PhasePcs \cup
    {"idle", "notify", "writeDirect", "writeQueue", "enqueueSteering",
     "enqueueFollowUp", "abortSteering", "abortFollowUp", "waitCheck",
     "waitRegister", "asleep"}

Items == 1 .. MaxItems
QueueNames == {"steering", "followUp", "nextTurn"}

\* A write remembers the newest run at the time its caller read the phase.
Write(item, run) == [item |-> item, run |-> run]
Writes == [item : Items, run : Nat]

\* An entry of the session: assistant messages, tool results and summaries
\* have no identity (item 0).
Entry(item, by, run) == [item |-> item, by |-> by, run |-> run]
Writers == {"run", "after", "queued", "direct", "summary"}
Entries == [item : {0} \cup Items, by : Writers, run : Nat]

Init ==
  /\ phase = "Idle"
  /\ pending = <<>>
  /\ holder = NoCaller
  /\ session = <<>>
  /\ queues = [q \in QueueNames |-> <<>>]
  /\ abortFlag = FALSE
  /\ notified = {}
  /\ wake = [c \in Callers |-> FALSE]
  /\ pc = [c \in Callers |-> "idle"]
  /\ ret = [c \in Callers |-> "idle"]
  /\ held = [c \in Callers |-> <<>>]
  /\ turn = 0
  /\ carried = <<>>
  /\ context = <<>>
  /\ persistError = FALSE
  /\ runs = 0
  /\ refused = <<>>
  /\ made = 0
  /\ failures = 0
  /\ called = 0

Goto(c, label) == pc' = [pc EXCEPT ![c] = label]

\* Flush the pending writes, then go on at label.
Flush(c, label) == Goto(c, "flush") /\ ret' = [ret EXCEPT ![c] = label]

Call(c, op) ==
  /\ pc[c] = "idle"
  /\ op \in Operations
  /\ called < MaxCalls
  /\ called' = called + 1

\* The call makes a message or a write.
Make == made < MaxItems /\ made' = made + 1

\* The storage may refuse an append.
Refuses == failures < MaxFailures /\ failures' = failures + 1

-----------------------------------------------------------------------------
(* The phase                                                               *)

\* A mutation: only another turn makes the harness busy.
NotTurn == phase # "Turn"

Free == phase = "Idle"

\* start_phase answers "AgentHarness is busy", or the caller takes the phase.
Take(next) == Free /\ phase' = next

StartPrompt(c) ==
  /\ Call(c, "prompt")
  /\ Make
  /\ \/ /\ Take("Turn")
        /\ Goto(c, "clearAbort")
        /\ carried' = <<made'>>
        /\ runs' = runs + 1
        /\ UNCHANGED refused
     \/ /\ ~Free
        /\ refused' = Append(refused, made')
        /\ UNCHANGED <<phase, pc, carried, runs>>
  /\ UNCHANGED <<pending, holder, session, queues, abortFlag, waiting, ret,
                 held, turn, context, persistError, failures>>

\* compact_session and move_session_to flush the pending writes first.
StartSummary(c) ==
  /\ \/ Call(c, "compact") /\ Take("Compaction") /\ Flush(c, "summarize")
     \/ Call(c, "move") /\ Take("BranchSummary") /\ Flush(c, "summarize")
     \/ /\ Call(c, "navigate")
        /\ Take("BranchSummary")
        /\ Goto(c, "navigate")
        /\ UNCHANGED ret
     \/ /\ \E op \in {"compact", "move", "navigate"} : Call(c, op)
        /\ ~Free
        /\ UNCHANGED <<phase, pc, ret>>
  /\ UNCHANGED <<pending, holder, session, queues, abortFlag, waiting, held,
                 runVars, refused, made, failures>>

\* finish_turn: the phase, then the waiters.  What the prompt still carried and
\* what the run knew is dropped with it.
FinishPhase(c) ==
  /\ pc[c] = "finish"
  /\ phase' = "Idle"
  /\ refused' = refused \o carried
  /\ carried' = <<>>
  /\ turn' = 0
  /\ context' = <<>>
  /\ persistError' = FALSE
  /\ Goto(c, "notify")
  /\ UNCHANGED <<pending, holder, session, queues, abortFlag, waiting, ret,
                 held, runs, made, failures, called>>

\* Notify::notify_waiters wakes the callers registered now and leaves no permit.
NotifyWaiters ==
  /\ wake' = [c \in Callers |-> wake[c] \/ c \in notified]
  /\ notified' = {}

FinishNotify(c) ==
  /\ pc[c] = "notify"
  /\ NotifyWaiters
  /\ Goto(c, "idle")
  /\ UNCHANGED <<shared, ret, held, runVars, history>>

-----------------------------------------------------------------------------
(* Session writes                                                          *)

\* write_or_queue_session_write and persist_active_tools_change: the phase is
\* read under its lock, and acted upon after it.  The writes here are messages;
\* the other kinds go the same way and are not shown to the next turn.
WriteCheck(c) ==
  /\ Call(c, "write")
  /\ Make
  /\ held' = [held EXCEPT ![c] = <<Write(made', runs)>>]
  /\ Goto(c, IF phase = "Idle" THEN "writeDirect" ELSE "writeQueue")
  /\ UNCHANGED <<shared, waiting, ret, runVars, refused, failures>>

Drop(c) == held' = [held EXCEPT ![c] = <<>>]

WriteDirect(c) ==
  /\ pc[c] = "writeDirect"
  /\ \/ /\ session' = Append(session, Entry(held[c][1].item, "direct", runs))
        /\ UNCHANGED <<refused, failures>>
     \/ /\ Refuses
        /\ refused' = Append(refused, held[c][1].item)
        /\ UNCHANGED session
  /\ Drop(c)
  /\ Goto(c, "idle")
  /\ UNCHANGED <<phase, pending, holder, queues, abortFlag, waiting, ret,
                 runVars, made, called>>

WriteQueue(c) ==
  /\ pc[c] = "writeQueue"
  /\ holder = NoCaller
  /\ pending' = Append(pending, held[c][1])
  /\ Drop(c)
  /\ Goto(c, "idle")
  /\ UNCHANGED <<phase, holder, session, queues, abortFlag, waiting, ret,
                 runVars, history>>

\* flush_pending_session_writes_for: the guard of the `while let` condition
\* lives as long as the body, so the write is applied under the lock ...
FlushNext(c) ==
  /\ pc[c] = "flush"
  /\ holder = NoCaller
  /\ IF pending = <<>>
       THEN /\ Goto(c, ret[c])
            /\ ret' = [ret EXCEPT ![c] = "idle"]
            /\ UNCHANGED <<pending, holder, held>>
       ELSE /\ held' = [held EXCEPT ![c] = <<Head(pending)>>]
            /\ pending' = Tail(pending)
            /\ holder' = c
            /\ Goto(c, "flushWrite")
            /\ UNCHANGED ret
  /\ UNCHANGED <<phase, session, queues, abortFlag, waiting, runVars, history>>

\* ... and on an error push_front takes the lock again: the caller waits for
\* itself at "flushBack", which no step leaves.
FlushWrite(c) ==
  /\ pc[c] = "flushWrite"
  /\ \/ /\ session' =
             Append(session, Entry(held[c][1].item, "queued", held[c][1].run))
        /\ Drop(c)
        /\ holder' = NoCaller
        /\ Goto(c, "flush")
        /\ UNCHANGED failures
     \/ /\ Refuses
        /\ Goto(c, "flushBack")
        /\ UNCHANGED <<session, holder, held>>
  /\ UNCHANGED <<phase, pending, queues, abortFlag, waiting, ret, runVars,
                 refused, made, called>>

-----------------------------------------------------------------------------
(* The message queues                                                      *)

Queue(name, item) == queues' = [queues EXCEPT ![name] = Append(@, item)]
Clear(name) == queues' = [queues EXCEPT ![name] = <<>>]

\* steer_message and follow_up_message: require_running, then enqueue.
EnqueueCheck(c) ==
  /\ \/ Call(c, "steer") /\ Make /\ Goto(c, "enqueueSteering")
     \/ Call(c, "followUp") /\ Make /\ Goto(c, "enqueueFollowUp")
  /\ phase # "Idle"
  /\ held' = [held EXCEPT ![c] = <<Write(made', runs)>>]
  /\ UNCHANGED <<shared, waiting, ret, runVars, refused, failures>>

Enqueue(c) ==
  /\ \/ pc[c] = "enqueueSteering" /\ Queue("steering", held[c][1].item)
     \/ pc[c] = "enqueueFollowUp" /\ Queue("followUp", held[c][1].item)
  /\ Drop(c)
  /\ Goto(c, "idle")
  /\ UNCHANGED <<phase, pending, holder, session, abortFlag, waiting, ret,
                 runVars, history>>

\* next_turn_message
NextTurnMessage(c) ==
  /\ Call(c, "nextTurn")
  /\ Make
  /\ Queue("nextTurn", made')
  /\ UNCHANGED <<phase, pending, holder, session, abortFlag, waiting, pc, ret,
                 held, runVars, refused, failures>>

\* abort_queues: the flag, then each queue under its lock; abort_and_wait goes
\* on to wait for the idle phase.
Abort(c) ==
  /\ \/ /\ Call(c, "abort") /\ ret' = [ret EXCEPT ![c] = "idle"]
     \/ /\ Call(c, "abortAndWait") /\ ret' = [ret EXCEPT ![c] = "waitCheck"]
  /\ abortFlag' = TRUE
  /\ Goto(c, "abortSteering")
  /\ UNCHANGED <<phase, pending, holder, session, queues, waiting, held,
                 runVars, refused, made, failures>>

AbortQueues(c) ==
  /\ \/ /\ pc[c] = "abortSteering"
        /\ refused' = refused \o queues.steering
        /\ Clear("steering")
        /\ Goto(c, "abortFollowUp")
     \/ /\ pc[c] = "abortFollowUp"
        /\ refused' = refused \o queues.followUp
        /\ Clear("followUp")
        /\ Goto(c, ret[c])
  /\ UNCHANGED <<phase, pending, holder, session, abortFlag, waiting, ret,
                 held, runVars, made, failures, called>>

-----------------------------------------------------------------------------
(* A prompt                                                                *)

\* skill and prompt_from_template may name nothing that exists; prompt_inner
\* clears the abort flag, under the phase its caller owns.
ClearAbort(c) ==
  /\ pc[c] = "clearAbort"
  /\ \/ abortFlag' = FALSE /\ Goto(c, "buildContext")
     \/ UNCHANGED abortFlag /\ Goto(c, "finish")
  /\ UNCHANGED <<phase, pending, holder, session, queues, waiting, ret, held,
                 runVars, history>>

\* The branch of the session is the base of the context, not kept here.
BuildContext(c) ==
  /\ pc[c] = "buildContext"
  /\ \E label \in {"drainNext", "finish"} : Goto(c, label)
  /\ UNCHANGED <<shared, waiting, ret, held, runVars, history>>

\* The queued next-turn messages come before the prompt.
DrainNext(c) ==
  /\ pc[c] = "drainNext"
  /\ carried' = queues.nextTurn \o carried
  /\ Clear("nextTurn")
  /\ Goto(c, "beforeStart")
  /\ UNCHANGED <<phase, pending, holder, session, abortFlag, waiting, ret, held,
                 turn, context, persistError, runs, history>>

\* The system prompt or the stream options fail; before_agent_start fails; or
\* the loop starts.
BeforeStart(c) ==
  /\ pc[c] = "beforeStart"
  /\ \/ \E label \in {"finish", "emitPrompts"} : Goto(c, label) /\ UNCHANGED ret
     \/ Flush(c, "finish")
  /\ UNCHANGED <<shared, waiting, held, runVars, history>>

\* A mutation: a later success clears the error.
LastError(ok) == ~ok

KeptError(ok) == persistError \/ ~ok

\* HarnessEventSink on a MessageEnd: the message goes to the session, or the
\* first error is kept and the run goes on.
Persist(item) ==
  /\ context' = Append(context, Entry(item, "run", runs))
  /\ \/ /\ session' = Append(session, Entry(item, "run", runs))
        /\ persistError' = KeptError(TRUE)
        /\ UNCHANGED <<failures, refused>>
     \/ /\ Refuses
        /\ persistError' = KeptError(FALSE)
        /\ refused' = IF item = 0 THEN refused ELSE Append(refused, item)
        /\ UNCHANGED session

Emit(c) ==
  /\ pc[c] \in {"emitPrompts", "emit"}
  /\ Persist(Head(carried))
  /\ carried' = Tail(carried)
  /\ Goto(c, IF Len(carried) > 1 THEN pc[c]
             ELSE IF pc[c] = "emitPrompts" THEN "initialPoll" ELSE "turn")
  /\ UNCHANGED <<phase, pending, holder, queues, abortFlag, waiting, ret, held,
                 turn, runs, made, called>>

\* An assistant message, then perhaps tool results; an answer that is an error
\* or was aborted ends the run.
Turn(c) ==
  /\ pc[c] = "turn"
  /\ turn' = turn + 1
  /\ Persist(0)
  /\ \E label \in {"results", "turnEnd", "runEnd"} :
       (abortFlag => label = "runEnd") /\ Goto(c, label)
  /\ UNCHANGED <<phase, pending, holder, queues, abortFlag, waiting, ret, held,
                 carried, runs, made, called>>

\* The tool results of a turn; or the loop's error reported as an answer.
Results(c) ==
  /\ \/ pc[c] = "results" /\ Goto(c, "turnEnd")
     \/ pc[c] = "failTurn" /\ Goto(c, "runEnd")
  /\ Persist(0)
  /\ UNCHANGED <<phase, pending, holder, queues, abortFlag, waiting, ret, held,
                 turn, carried, runs, made, called>>

Projected(writes) ==
  [k \in DOMAIN writes |-> Entry(writes[k].item, "queued", writes[k].run)]

\* prepare_next_turn shows the pending messages to the next turn, and leaves
\* them pending; or fails.
PrepareNext(c) ==
  /\ pc[c] = "turnEnd"
  /\ \/ /\ holder = NoCaller
        /\ context' = context \o Projected(pending)
        /\ Goto(c, "poll")
     \/ Goto(c, "failTurn") /\ UNCHANGED context
  /\ UNCHANGED <<shared, waiting, ret, held, turn, carried, persistError, runs,
                 history>>

\* A mutation: the queue is copied (snapshot), not drained.
Copy(name, k) == queues' = queues

\* Take some of a queue (drain_now, either mode).
Drain(name, k) ==
  queues' = [queues EXCEPT ![name] = SubSeq(@, k + 1, Len(@))]

Takes(name) ==
  {Len(queues[name])} \cup (IF queues[name] = <<>> THEN {} ELSE {1})

\* The loop goes on with what it drained, or stops at max_turns and drops it.
NextTurn(c, drained) ==
  IF turn < MaxTurns
    THEN /\ carried' = drained
         /\ Goto(c, IF drained = <<>> THEN "turn" ELSE "emit")
         /\ UNCHANGED refused
    ELSE /\ refused' = refused \o drained
         /\ Goto(c, "failTurn")
         /\ UNCHANGED carried

\* HarnessQueuedMessageProvider, polled before the first turn, and after a turn
\* whether its tool results want another or not.
Poll(c) ==
  /\ \/ /\ pc[c] \in {"initialPoll", "poll"}
        /\ \E k \in Takes("steering") :
             /\ Drain("steering", k)
             /\ \/ NextTurn(c, SubSeq(queues.steering, 1, k))
                \/ /\ pc[c] = "poll" /\ k = 0
                   /\ Goto(c, "pollFollowUp")
                   /\ UNCHANGED <<carried, refused>>
     \/ /\ pc[c] = "pollFollowUp"
        /\ \E k \in Takes("followUp") :
             /\ Drain("followUp", k)
             /\ IF k > 0 THEN NextTurn(c, SubSeq(queues.followUp, 1, k))
                         ELSE /\ Goto(c, "runEnd")
                              /\ UNCHANGED <<carried, refused>>
  /\ UNCHANGED <<phase, pending, holder, session, abortFlag, waiting, ret, held,
                 turn, context, persistError, runs, made, failures, called>>

\* A mutation: the pending writes are flushed before the messages that
\* after_agent_finish returned are appended.
RunEndFlushed(c) ==
  /\ pc[c] = "runEnd"
  /\ IF persistError THEN Flush(c, "finish") ELSE Flush(c, "after")
  /\ UNCHANGED <<shared, waiting, held, runVars, history>>

\* The loop has returned: a message that was not persisted fails the prompt;
\* else after_agent_finish is asked, and may fail.
RunEnd(c) ==
  /\ pc[c] = "runEnd"
  /\ IF persistError
       THEN Flush(c, "finish")
       ELSE \/ Flush(c, "savepointFailed")
            \/ Goto(c, "after") /\ UNCHANGED ret
  /\ UNCHANGED <<shared, waiting, held, runVars, history>>

\* The messages that after_agent_finish returned, at most one here.
After(c) ==
  /\ pc[c] = "after"
  /\ \/ /\ \/ session' = Append(session, Entry(0, "after", runs))
           \/ UNCHANGED session
        /\ Flush(c, "savepoint")
        /\ UNCHANGED failures
     \/ Refuses /\ Goto(c, "finish") /\ UNCHANGED <<session, ret>>
  /\ UNCHANGED <<phase, pending, holder, queues, abortFlag, waiting, held,
                 runVars, refused, made, called>>

\* The SavePoint event, whose listeners may write: a second flush follows.
SavePoint(c) ==
  /\ \/ pc[c] = "savepoint" /\ Flush(c, "settled")
     \/ pc[c] = "savepointFailed" /\ Flush(c, "finish")
  /\ UNCHANGED <<shared, waiting, held, runVars, history>>

\* The Settled event, whose listeners may write too: no flush follows.
Settled(c) ==
  /\ pc[c] = "settled"
  /\ Goto(c, "finish")
  /\ UNCHANGED <<shared, waiting, ret, held, runVars, history>>

-----------------------------------------------------------------------------
(* compact_session, move_session_to, navigate_tree                         *)

\* The hook, the credentials and the summary.  A hook or a generation that
\* fails, and nothing to compact, flush the pending writes; failed credentials
\* do not, and navigate_tree never does.
Summarize(c) ==
  /\ \/ /\ pc[c] = "summarize"
        /\ \/ Flush(c, "finish")
           \/ \E label \in {"finish", "commit"} : Goto(c, label) /\ UNCHANGED ret
     \/ /\ pc[c] = "navigate"
        /\ \E label \in {"finish", "navigateMove"} : Goto(c, label)
        /\ UNCHANGED ret
  /\ UNCHANGED <<shared, waiting, held, runVars, history>>

\* append_compaction or move_to.
Commit(c) ==
  /\ pc[c] \in {"commit", "navigateMove"}
  /\ \/ /\ session' = Append(session, Entry(0, "summary", runs))
        /\ IF pc[c] = "commit" THEN Flush(c, "finish")
                               ELSE Goto(c, "finish") /\ UNCHANGED ret
        /\ UNCHANGED failures
     \/ Refuses /\ Goto(c, "finish") /\ UNCHANGED <<session, ret>>
  /\ UNCHANGED <<phase, pending, holder, queues, abortFlag, waiting, held,
                 runVars, refused, made, called>>

-----------------------------------------------------------------------------
(* wait_for_idle                                                           *)

Wait(c) ==
  /\ Call(c, "wait")
  /\ Goto(c, "waitCheck")
  /\ UNCHANGED <<shared, waiting, ret, held, runVars, refused, made, failures>>

WaitCheck(c) ==
  /\ pc[c] = "waitCheck"
  /\ Goto(c, IF phase = "Idle" THEN "idle" ELSE "waitRegister")
  /\ UNCHANGED <<shared, waiting, ret, held, runVars, history>>

\* The Notified future is created, hence registered, after the phase was read.
WaitRegister(c) ==
  /\ pc[c] = "waitRegister"
  /\ notified' = notified \cup {c}
  /\ Goto(c, "asleep")
  /\ UNCHANGED <<shared, wake, ret, held, runVars, history>>

Awake(c) ==
  /\ pc[c] = "asleep"
  /\ wake[c]
  /\ wake' = [wake EXCEPT ![c] = FALSE]
  /\ Goto(c, "waitCheck")
  /\ UNCHANGED <<shared, notified, ret, held, runVars, history>>

-----------------------------------------------------------------------------
Start(c) ==
  \/ StartPrompt(c) \/ StartSummary(c)
  \/ WriteCheck(c) \/ EnqueueCheck(c) \/ NextTurnMessage(c)
  \/ Abort(c) \/ Wait(c)

Step(c) ==
  \/ FinishPhase(c) \/ FinishNotify(c)
  \/ WriteDirect(c) \/ WriteQueue(c) \/ FlushNext(c) \/ FlushWrite(c)
  \/ Enqueue(c) \/ AbortQueues(c)
  \/ ClearAbort(c) \/ BuildContext(c) \/ DrainNext(c) \/ BeforeStart(c)
  \/ Emit(c) \/ Turn(c) \/ Results(c) \/ PrepareNext(c) \/ Poll(c)
  \/ RunEnd(c) \/ After(c) \/ SavePoint(c) \/ Settled(c)
  \/ Summarize(c) \/ Commit(c)
  \/ WaitCheck(c) \/ WaitRegister(c) \/ Awake(c)

Next == \E c \in Callers : Start(c) \/ Step(c)

Spec == Init /\ [][Next]_vars

\* Threads and tasks are scheduled, and providers and hooks answer; nobody has
\* to call.
FairSpec == Spec /\ \A c \in Callers : WF_vars(Step(c))

-----------------------------------------------------------------------------
(* Properties                                                              *)

\* Every variable keeps its type: the states of agent_harness.rs as modelled.
TypeOK ==
  /\ phase \in {"Idle", "Turn", "Compaction", "BranchSummary"}
  /\ pending \in Seq(Writes)
  /\ holder \in Callers \cup {NoCaller}
  /\ session \in Seq(Entries)
  /\ queues \in [QueueNames -> Seq(Items)]
  /\ abortFlag \in BOOLEAN
  /\ notified \subseteq Callers
  /\ wake \in [Callers -> BOOLEAN]
  /\ pc \in [Callers -> Pcs]
  /\ ret \in [Callers -> Pcs]
  /\ held \in [Callers -> Seq(Writes)]
  /\ turn \in 0 .. MaxTurns
  /\ carried \in Seq(Items)
  /\ context \in Seq(Entries)
  /\ persistError \in BOOLEAN
  /\ runs \in Nat
  /\ refused \in Seq(Items)
  /\ made \in 0 .. MaxItems
  /\ failures \in 0 .. MaxFailures
  /\ called \in 0 .. MaxCalls

\* One prompt, compaction or move at a time: the phase is Idle exactly when no
\* call is inside one (start_phase, "AgentHarness is busy").
PhaseOwned ==
  /\ \A c, d \in Callers : pc[c] \in PhasePcs /\ pc[d] \in PhasePcs => c = d
  /\ phase = "Idle" <=> \A c \in Callers : pc[c] \notin PhasePcs

\* Every message and every write is in one place: a queue, a call, a run, the
\* session; it is dropped only when its caller, the prompt that carried it or
\* abort says so, and no flush writes it twice.
Count(s, x) == Cardinality({k \in DOMAIN s : s[k] = x})
ItemsOf(log) == [k \in DOMAIN log |-> log[k].item]
Holders(item) == {c \in Callers : held[c] # <<>> /\ held[c][1].item = item}

Copies(item) ==
  Count(queues.steering, item) + Count(queues.followUp, item)
    + Count(queues.nextTurn, item) + Count(carried, item)
    + Count(ItemsOf(pending), item) + Count(refused, item)
    + Count(ItemsOf(session), item) + Cardinality(Holders(item))

ItemsOnce ==
  \A item \in Items : Copies(item) = IF item <= made THEN 1 ELSE 0

\* A write queued while a run is in progress enters the session after all the
\* messages of that run, those of after_agent_finish included (the order that
\* tests/agent_harness.rs:620 checks for one listener).
QueuedAfterRun ==
  \A i, j \in DOMAIN session :
    /\ i < j
    /\ session[i].by = "queued"
    /\ session[j].by \in {"run", "after"}
    => session[i].run < session[j].run

\* A prompt that settles has persisted what it showed to the model, message by
\* message; when one was lost, however early, it returns an error instead.
OfRun(log, run) == {k \in DOMAIN log : log[k].by = "run" /\ log[k].run = run}
Rank(log, run, k) == Cardinality({i \in OfRun(log, run) : i <= k})
Numbered(log, run) == {<<Rank(log, run, k), log[k]>> : k \in OfRun(log, run)}

OkMeansPersisted ==
  \A c \in Callers : pc[c] = "settled" =>
    Numbered(session, runs) = Numbered(context, runs)

\* Nothing that was given to the harness or said by the model slips through.
NothingSlips == ItemsOnce /\ OkMeansPersisted

\* The flush of the pending writes, "listener-safe" (MIGRATION_STATUS.md:406),
\* ends: a write that fails is put back and its error returned.
FlushReturns ==
  \A c \in Callers : pc[c] = "flush" ~> pc[c] = "idle"

\* A caller of wait_for_idle or abort_and_wait returns: every operation here
\* ends, and finish_turn wakes those who wait.
WaiterReturns ==
  \A c \in Callers : pc[c] = "asleep" ~> pc[c] = "idle"

\* A run's context shows a pending message once, as the session will
\* (tests/agent_harness.rs:5425, MIGRATION_STATUS.md:410).
ProjectedOnce ==
  \A i, j \in DOMAIN context :
    context[i].item = context[j].item /\ context[i].item # 0 => i = j

-----------------------------------------------------------------------------
(* The callers are interchangeable in the safety properties.               *)
Interchangeable == Permutations(Callers)
=============================================================================
