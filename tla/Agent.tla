------------------------------- MODULE Agent -------------------------------
(***************************************************************************)
(* The stateful Agent of crates/ri-agent-core/src/agent.rs, called from    *)
(* several threads: who may run, what reset and abort do to a run in       *)
(* progress, and when wait_for_idle returns.                               *)
(*                                                                         *)
(* A step is one access to shared memory: a section under the state lock,  *)
(* under a queue's lock, or one atomic load or store.  The run itself      *)
(* (AgentLoop) is reduced to what it does to that memory: it emits         *)
(* messages and drains the queues.  Of the transcript only the role of the *)
(* last message is kept, the part the agent's decisions read.              *)
(***************************************************************************)
EXTENDS Integers, Sequences, FiniteSets

CONSTANTS
  Callers,      \* the threads that hold the agent
  Operations,   \* the operations they call
  MaxCalls,     \* bound: calls made in a behaviour
  MaxMessages,  \* bound: messages queued or prompted in a behaviour
  MaxEmits      \* bound: assistant and tool messages a run emits

AllOperations ==
  {"prompt", "continue", "reset", "abort", "wait", "steer", "followUp"}

ASSUME AgentAssumption ==
  /\ IsFiniteSet(Callers)
  /\ Operations \subseteq AllOperations
  /\ MaxCalls \in Nat
  /\ MaxMessages \in Nat
  /\ MaxEmits \in Nat

VARIABLES
  activeRun,    \* active_run: the atomic that guards the run
  isStreaming,  \* state.is_streaming
  tail,         \* role of the last of state.messages, "none" if there is none
  abortFlag,    \* abort_flag
  steering,     \* steering_queue
  followUp,     \* follow_up_queue
  notified,     \* the waiters that idle_notify has registered
  pc,           \* [Callers -> Pcs]
  taken,        \* [Callers -> messages the call carries into a run]
  wake,         \* [Callers -> BOOLEAN]: the caller's Notified has fired
  emits,        \* messages emitted by the current run
  delivered,    \* the messages that entered a run's transcript
  refused,      \* the messages dropped with an error or by reset
  lost,         \* the messages a failing run had drained and not yet injected
  claims,       \* runs claimed so far: the number of the newest run
  settled,      \* runs settled so far
  watching,     \* [Callers -> number of the newest run when wait began]
  aborted,      \* the number of the newest run an abort was called on
  written,      \* messages queued or prompted so far
  called        \* calls made so far

shared == <<activeRun, isStreaming, tail, abortFlag, steering, followUp>>
threads == <<pc, taken, wake, notified>>
history == <<delivered, refused, lost, claims, settled, watching, aborted,
             written, called, emits>>
vars == <<shared, threads, history>>

\* Where a call may be.  The labels of a run are those between the claim and
\* the store that releases active_run.
RunPcs == {"clearAbort", "begin", "running", "release", "deactivate"}
Pcs == RunPcs \cup
  {"idle", "promptBusy", "promptBusy2", "continueBusy", "continueBusy2",
   "continueEmpty", "continueTail", "drainSteering", "drainFollowUp",
   "followUpBusy", "followUpBusy2", "claim", "claimContinue", "notifyRun",
   "resetAbort", "resetStore", "resetSteering", "resetFollowUp",
   "resetNotify", "waitActive", "waitStreaming", "asleep"}

Messages == 1 .. MaxMessages

Init ==
  /\ activeRun = FALSE
  /\ isStreaming = FALSE
  /\ tail \in {"none", "assistant"}
  /\ abortFlag = FALSE
  /\ steering = <<>>
  /\ followUp = <<>>
  /\ notified = {}
  /\ pc = [c \in Callers |-> "idle"]
  /\ taken = [c \in Callers |-> <<>>]
  /\ wake = [c \in Callers |-> FALSE]
  /\ emits = 0
  /\ delivered = {}
  /\ refused = {}
  /\ lost = {}
  /\ claims = 0
  /\ settled = 0
  /\ watching = [c \in Callers |-> 0]
  /\ aborted = 0
  /\ written = 0
  /\ called = 0

Elements(queue) == {queue[k] : k \in DOMAIN queue}

Goto(c, label) == pc' = [pc EXCEPT ![c] = label]

\* Take some of the queue (PendingMessageQueue::drain_now, either mode).
Takes(queue) == {Len(queue)} \cup (IF queue = <<>> THEN {} ELSE {1})

\* A mutation: the drained messages stay in the queue.
RemainingAll(queue, k) == queue

Remaining(queue, k) == SubSeq(queue, k + 1, Len(queue))

\* A mutation: Notify::notify_one.
NotifyOne ==
  IF notified = {} THEN UNCHANGED <<wake, notified>>
  ELSE \E c \in notified :
         /\ wake' = [wake EXCEPT ![c] = TRUE]
         /\ notified' = notified \ {c}

\* Notify::notify_waiters wakes the callers registered now and leaves no permit.
NotifyWaiters ==
  /\ wake' = [c \in Callers |-> wake[c] \/ c \in notified]
  /\ notified' = {}

-----------------------------------------------------------------------------
(* Calls that are one step                                                 *)

Call(c, op) ==
  /\ pc[c] = "idle"
  /\ op \in Operations
  /\ called < MaxCalls
  /\ called' = called + 1

\* Agent::abort.  The history variable notes the run it was called on.
Abort(c) ==
  /\ Call(c, "abort")
  /\ abortFlag' = TRUE
  /\ aborted' = IF activeRun THEN claims ELSE aborted
  /\ UNCHANGED <<activeRun, isStreaming, tail, steering, followUp, threads,
                 delivered, refused, lost, claims, settled, watching, written,
                 emits>>

\* Agent::steer and Agent::follow_up
Queue(c) ==
  /\ written < MaxMessages
  /\ written' = written + 1
  /\ \/ /\ Call(c, "steer")
        /\ steering' = Append(steering, written + 1)
        /\ UNCHANGED followUp
     \/ /\ Call(c, "followUp")
        /\ followUp' = Append(followUp, written + 1)
        /\ UNCHANGED steering
  /\ UNCHANGED <<activeRun, isStreaming, tail, abortFlag, threads, delivered,
                 refused, lost, claims, settled, watching, aborted, emits>>

-----------------------------------------------------------------------------
(* prompt and continue_run up to the claim                                 *)

Prompt(c) ==
  /\ Call(c, "prompt")
  /\ written < MaxMessages
  /\ written' = written + 1
  /\ taken' = [taken EXCEPT ![c] = <<written + 1>>]
  /\ Goto(c, "promptBusy")
  /\ UNCHANGED <<shared, wake, notified, delivered, refused, lost, claims,
                 settled, watching, aborted, emits>>

Continue(c) ==
  /\ Call(c, "continue")
  /\ taken' = [taken EXCEPT ![c] = <<>>]
  /\ Goto(c, "continueBusy")
  /\ UNCHANGED <<shared, wake, notified, delivered, refused, lost, claims,
                 settled, watching, aborted, written, emits>>

\* A call returns an error; the messages it carried are gone.
Refuse(c) ==
  /\ Goto(c, "idle")
  /\ refused' = refused \cup Elements(taken[c])
  /\ taken' = [taken EXCEPT ![c] = <<>>]

Proceed(c, label) == Goto(c, label) /\ UNCHANGED <<refused, taken>>

\* is_busy: active_run is read first, then is_streaming under the lock.
Busy(c, first, second, free) ==
  /\ \/ pc[c] = first /\ IF activeRun THEN Refuse(c) ELSE Proceed(c, second)
     \/ pc[c] = second /\ IF isStreaming THEN Refuse(c) ELSE Proceed(c, free)
  /\ UNCHANGED <<shared, wake, notified, delivered, lost, claims, settled,
                 watching, aborted, written, called, emits>>

CheckBusy(c) ==
  \/ Busy(c, "promptBusy", "promptBusy2", "claim")
  \/ Busy(c, "continueBusy", "continueBusy2", "continueEmpty")
  \/ Busy(c, "followUpBusy", "followUpBusy2", "claim")

\* continue_run reads the transcript under the lock, twice.
ContinueTail(c) ==
  /\ \/ /\ pc[c] = "continueEmpty"
        /\ IF tail = "none" THEN Refuse(c) ELSE Proceed(c, "continueTail")
     \/ /\ pc[c] = "continueTail"
        /\ Proceed(c, IF tail = "assistant" THEN "drainSteering"
                                            ELSE "claimContinue")
  /\ UNCHANGED <<shared, wake, notified, delivered, lost, claims, settled,
                 watching, aborted, written, called, emits>>

\* continue_run after an assistant message: the queues are drained before the
\* run is claimed; follow-ups pass through prompt_messages and its busy check.
DrainSteering(c) ==
  /\ pc[c] = "drainSteering"
  /\ \E k \in Takes(steering) :
       /\ taken' = [taken EXCEPT ![c] = SubSeq(steering, 1, k)]
       /\ steering' = Remaining(steering, k)
  /\ Goto(c, IF steering = <<>> THEN "drainFollowUp" ELSE "claim")
  /\ UNCHANGED <<activeRun, isStreaming, tail, abortFlag, followUp, wake,
                 notified, history>>

DrainFollowUp(c) ==
  /\ pc[c] = "drainFollowUp"
  /\ \E k \in Takes(followUp) :
       /\ taken' = [taken EXCEPT ![c] = SubSeq(followUp, 1, k)]
       /\ followUp' = Remaining(followUp, k)
  /\ Goto(c, IF followUp = <<>> THEN "idle" ELSE "followUpBusy")
  /\ UNCHANGED <<activeRun, isStreaming, tail, abortFlag, steering, wake,
                 notified, history>>

-----------------------------------------------------------------------------
(* run_with_skip                                                           *)

\* A mutation: only is_streaming, which reset clears, guards the claim.
ClaimBlockedByStreaming == isStreaming

ClaimBlocked == isStreaming \/ activeRun

\* The claim, in one section under the state lock, with the context snapshot:
\* agent_loop_continue refuses an empty one and one that ends in an assistant
\* message.
Claim(c) ==
  /\ pc[c] \in {"claim", "claimContinue"}
  /\ IF ClaimBlocked
       THEN /\ Refuse(c)
            /\ UNCHANGED <<activeRun, isStreaming, claims, emits>>
       ELSE /\ activeRun' = TRUE
            /\ isStreaming' = TRUE
            /\ claims' = claims + 1
            /\ emits' = IF pc[c] = "claimContinue"
                           /\ tail \in {"none", "assistant"}
                        THEN MaxEmits + 1 ELSE 0
            /\ Proceed(c, "clearAbort")
  /\ UNCHANGED <<tail, abortFlag, steering, followUp, wake, notified,
                 delivered, lost, settled, watching, aborted, written,
                 called>>

\* abort_flag.store(false), outside the lock.
ClearAbort(c) ==
  /\ pc[c] = "clearAbort"
  /\ abortFlag' = FALSE
  /\ Goto(c, "begin")
  /\ UNCHANGED <<activeRun, isStreaming, tail, steering, followUp, taken, wake,
                 notified, history>>

\* The loop emits the prompt messages, or refuses to continue (emits above
\* its bound stands for the refused context).
BeginRun(c) ==
  /\ pc[c] = "begin"
  /\ Goto(c, IF emits > MaxEmits THEN "release" ELSE "running")
  /\ delivered' = delivered \cup Elements(taken[c])
  /\ tail' = IF taken[c] = <<>> THEN tail ELSE "user"
  /\ taken' = [taken EXCEPT ![c] = <<>>]
  /\ UNCHANGED <<activeRun, isStreaming, abortFlag, steering, followUp, wake,
                 notified, refused, lost, claims, settled, watching, aborted,
                 written, called, emits>>

\* reduce_agent_state on a MessageEnd: an assistant message or a tool result.
Emit(c) ==
  /\ pc[c] = "running"
  /\ taken[c] = <<>>
  /\ emits < MaxEmits
  /\ emits' = emits + 1
  /\ tail' \in {"assistant", "toolResult"}
  /\ UNCHANGED <<activeRun, isStreaming, abortFlag, steering, followUp,
                 threads, delivered, refused, lost, claims, settled, watching,
                 aborted, written, called>>

\* The loop polls a queue: what it drains is in its hands until it is injected.
Poll(c) ==
  /\ pc[c] = "running"
  /\ taken[c] = <<>>
  /\ \/ /\ steering # <<>>
        /\ \E k \in Takes(steering) :
             /\ taken' = [taken EXCEPT ![c] = SubSeq(steering, 1, k)]
             /\ steering' = Remaining(steering, k)
        /\ UNCHANGED followUp
     \/ /\ followUp # <<>>
        /\ \E k \in Takes(followUp) :
             /\ taken' = [taken EXCEPT ![c] = SubSeq(followUp, 1, k)]
             /\ followUp' = Remaining(followUp, k)
        /\ UNCHANGED steering
  /\ UNCHANGED <<activeRun, isStreaming, tail, abortFlag, pc, wake, notified,
                 history>>

\* A further turn begins with the messages that were polled.
Inject(c) ==
  /\ pc[c] = "running"
  /\ taken[c] # <<>>
  /\ delivered' = delivered \cup Elements(taken[c])
  /\ tail' = "user"
  /\ taken' = [taken EXCEPT ![c] = <<>>]
  /\ UNCHANGED <<activeRun, isStreaming, abortFlag, steering, followUp, pc,
                 wake, notified, refused, lost, claims, settled, watching,
                 aborted, written, called, emits>>

\* The loop fails: a hook, the provider of more messages behind a queue it has
\* just drained, or the limit of turns once it has polled for the next one.
\* What it had drained is gone; the run ends with an error reply, and the call
\* that made it returns Ok.
FailRun(c) ==
  /\ pc[c] = "running"
  /\ lost' = lost \cup Elements(taken[c])
  /\ tail' = "assistant"
  /\ taken' = [taken EXCEPT ![c] = <<>>]
  /\ Goto(c, "release")
  /\ UNCHANGED <<activeRun, isStreaming, abortFlag, steering, followUp, wake,
                 notified, delivered, refused, claims, settled, watching,
                 aborted, written, called, emits>>

EndRun(c) ==
  /\ pc[c] = "running"
  /\ taken[c] = <<>>
  /\ Goto(c, "release")
  /\ UNCHANGED <<shared, taken, wake, notified, history>>

-----------------------------------------------------------------------------
(* finish_run                                                              *)

ReleaseState(c) ==
  /\ pc[c] = "release"
  /\ isStreaming' = FALSE
  /\ Goto(c, "deactivate")
  /\ UNCHANGED <<activeRun, tail, abortFlag, steering, followUp, taken, wake,
                 notified, history>>

Deactivate(c) ==
  /\ pc[c] = "deactivate"
  /\ activeRun' = FALSE
  /\ settled' = settled + 1
  /\ Goto(c, "notifyRun")
  /\ UNCHANGED <<isStreaming, tail, abortFlag, steering, followUp, taken,
                 wake, notified, delivered, refused, lost, claims, watching,
                 aborted, written, called, emits>>

NotifyRun(c) ==
  /\ pc[c] = "notifyRun"
  /\ NotifyWaiters
  /\ Goto(c, "idle")
  /\ UNCHANGED <<shared, taken, history>>

-----------------------------------------------------------------------------
(* reset                                                                   *)

Reset(c) ==
  /\ Call(c, "reset")
  /\ tail' = "none"
  /\ isStreaming' = FALSE
  /\ Goto(c, "resetAbort")
  /\ UNCHANGED <<activeRun, abortFlag, steering, followUp, taken, wake,
                 notified, delivered, refused, lost, claims, settled,
                 watching, aborted, written, emits>>

\* if !active_run { abort_flag = false }: a load, then a store.
ResetAbort(c) ==
  /\ pc[c] = "resetAbort"
  /\ Goto(c, IF activeRun THEN "resetSteering" ELSE "resetStore")
  /\ UNCHANGED <<shared, taken, wake, notified, history>>

ResetStore(c) ==
  /\ pc[c] = "resetStore"
  /\ abortFlag' = FALSE
  /\ Goto(c, "resetSteering")
  /\ UNCHANGED <<activeRun, isStreaming, tail, steering, followUp, taken, wake,
                 notified, history>>

ResetQueues(c) ==
  /\ \/ /\ pc[c] = "resetSteering"
        /\ steering' = <<>>
        /\ refused' = refused \cup Elements(steering)
        /\ Goto(c, "resetFollowUp")
        /\ UNCHANGED followUp
     \/ /\ pc[c] = "resetFollowUp"
        /\ followUp' = <<>>
        /\ refused' = refused \cup Elements(followUp)
        /\ Goto(c, "resetNotify")
        /\ UNCHANGED steering
  /\ UNCHANGED <<activeRun, isStreaming, tail, abortFlag, taken, wake,
                 notified, delivered, lost, claims, settled, watching,
                 aborted, written, called, emits>>

ResetNotify(c) ==
  /\ pc[c] = "resetNotify"
  /\ NotifyWaiters
  /\ Goto(c, "idle")
  /\ UNCHANGED <<shared, taken, history>>

-----------------------------------------------------------------------------
(* wait_for_idle                                                           *)

\* The Notified future is created, hence registered, before the state is read.
Register(c) ==
  /\ notified' = notified \cup {c}
  /\ wake' = [wake EXCEPT ![c] = FALSE]

Wait(c) ==
  /\ Call(c, "wait")
  /\ Register(c)
  /\ watching' = [watching EXCEPT ![c] = claims]
  /\ Goto(c, "waitActive")
  /\ UNCHANGED <<shared, taken, delivered, refused, lost, claims, settled,
                 aborted, written, emits>>

\* The Notified future is dropped when the wait returns.
WaitReturns(c) ==
  /\ Goto(c, "idle")
  /\ notified' = notified \ {c}

\* A mutation: the wait trusts is_streaming alone.
WaitCheckStreamingOnly(c) ==
  /\ pc[c] = "waitActive"
  /\ IF isStreaming
       THEN Goto(c, "asleep") /\ UNCHANGED notified
       ELSE WaitReturns(c)
  /\ UNCHANGED <<shared, taken, wake, history>>

WaitCheck(c) ==
  /\ \/ /\ pc[c] = "waitActive"
        /\ Goto(c, IF activeRun THEN "asleep" ELSE "waitStreaming")
        /\ UNCHANGED notified
     \/ /\ pc[c] = "waitStreaming"
        /\ IF isStreaming
             THEN Goto(c, "asleep") /\ UNCHANGED notified
             ELSE WaitReturns(c)
  /\ UNCHANGED <<shared, taken, wake, history>>

\* notified.await returns, and the loop registers again.
Awake(c) ==
  /\ pc[c] = "asleep"
  /\ wake[c]
  /\ Register(c)
  /\ Goto(c, "waitActive")
  /\ UNCHANGED <<shared, taken, history>>

-----------------------------------------------------------------------------
Start(c) ==
  Abort(c) \/ Queue(c) \/ Prompt(c) \/ Continue(c) \/ Reset(c) \/ Wait(c)

Step(c) ==
  \/ CheckBusy(c) \/ ContinueTail(c) \/ DrainSteering(c) \/ DrainFollowUp(c)
  \/ Claim(c) \/ ClearAbort(c) \/ BeginRun(c) \/ Inject(c) \/ FailRun(c) \/ EndRun(c)
  \/ ReleaseState(c) \/ Deactivate(c) \/ NotifyRun(c)
  \/ ResetAbort(c) \/ ResetStore(c) \/ ResetQueues(c) \/ ResetNotify(c)
  \/ WaitCheck(c) \/ Awake(c)

Work(c) == Emit(c) \/ Poll(c)

Next == \E c \in Callers : Start(c) \/ Step(c) \/ Work(c)

Spec == Init /\ [][Next]_vars

\* Threads are scheduled and runs end (AgentLoop!RunEnds); nobody has to call.
FairSpec == Spec /\ \A c \in Callers : WF_vars(Step(c))

-----------------------------------------------------------------------------
(* Properties                                                              *)

\* Every variable keeps its type: the states of agent.rs as modelled.
TypeOK ==
  /\ activeRun \in BOOLEAN
  /\ isStreaming \in BOOLEAN
  /\ tail \in {"none", "user", "assistant", "toolResult"}
  /\ abortFlag \in BOOLEAN
  /\ steering \in Seq(Messages)
  /\ followUp \in Seq(Messages)
  /\ notified \subseteq Callers
  /\ pc \in [Callers -> Pcs]
  /\ taken \in [Callers -> Seq(Messages)]
  /\ wake \in [Callers -> BOOLEAN]
  /\ emits \in 0 .. MaxEmits + 1
  /\ delivered \subseteq Messages
  /\ refused \subseteq Messages
  /\ lost \subseteq Messages
  /\ claims \in Nat
  /\ settled \in Nat
  /\ watching \in [Callers -> Nat]
  /\ aborted \in Nat
  /\ written \in 0 .. MaxMessages
  /\ called \in 0 .. MaxCalls

\* A caller whose call is inside a run.
InRun(c) == pc[c] \in RunPcs

\* At most one run at a time, and active_run says so, although reset clears
\* is_streaming in the middle of a run ("reset preserving the active-run
\* guard", MIGRATION_STATUS.md:371).
OneRun ==
  \A c, d \in Callers : InRun(c) /\ InRun(d) => c = d

\* active_run is set exactly while some caller is inside a run, whatever reset
\* clears meanwhile.
GuardHeld == activeRun <=> \E c \in Callers : InRun(c)

\* wait_for_idle does not return before the run that was in progress when it
\* was called has settled, reset or not (MIGRATION_STATUS.md:1677).
WaitsForRun ==
  [][\A c \in Callers :
       pc[c] \in {"waitActive", "waitStreaming"} /\ pc'[c] = "idle"
         => settled >= watching[c]]_vars

\* A message is in one place: a queue, a call or a run that has taken it, a
\* transcript, or it was dropped.  It is dropped with an error returned to a
\* caller, by reset, or by a run that had drained it and then failed: that run
\* ends with an error reply, but nothing is returned to who queued the message,
\* and the call that ran it returns Ok.
Carried == UNION {Elements(taken[c]) : c \in Callers}

Dropped == refused \cup lost

MessagesAccounted ==
  /\ 1 .. written =
       Elements(steering) \cup Elements(followUp) \cup Carried
         \cup delivered \cup Dropped
  /\ delivered \cap (Dropped \cup Carried) = {}
  /\ (delivered \cup Dropped)
       \cap (Elements(steering) \cup Elements(followUp)) = {}

\* An abort called while a run is active stays set until that run has settled.
AbortReachesRun ==
  aborted > settled => abortFlag

\* A waiter is woken: once nothing is running it returns, whichever thread
\* finished the run or reset the agent.
WaiterReturns ==
  \A c \in Callers : pc[c] = "asleep" ~> pc[c] = "idle"
=============================================================================
