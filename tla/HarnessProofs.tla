--------------------------- MODULE HarnessProofs ---------------------------
(***************************************************************************)
(* Theorems about Harness, for every set of callers and every bound; and,  *)
(* at the end, about Conversation, for every scene.                        *)
(*                                                                         *)
(* PhaseOwned is not inductive by itself: a flush leaves for the place     *)
(* that ret keeps, which must be inside the same operation.  Types rest    *)
(* on it: what a run carries and how many turns it has left is shared      *)
(* state that only the owner of the phase may change. That an item is in   *)
(* one place is a count of its copies, which every step conserves; that a  *)
(* prompt's Ok means persisted rests on the session and the context of its *)
(* run being alike while no error is kept.                                 *)
(***************************************************************************)
EXTENDS Harness, Conversation, SequenceTheorems, FunctionTheorems,
        FiniteSetTheorems, WellFoundedInduction, TLAPS

FlushPcs == {"flush", "flushWrite", "flushBack"}
AbortPcs == {"abortSteering", "abortFollowUp"}

\* Where a flush returns to.
FlushedPcs ==
  {"savepoint", "savepointFailed", "settled", "summarize", "finish"}

Inside(c) == pc[c] \in PhasePcs

\* A flush returns into its operation, an abort to its caller.
Returns ==
  \A c \in Callers :
    /\ pc[c] \in FlushPcs => ret[c] \in FlushedPcs
    /\ pc[c] \in AbortPcs => ret[c] \in {"idle", "waitCheck"}

ControlInv ==
  /\ pc \in [Callers -> Pcs]
  /\ ret \in [Callers -> Pcs]
  /\ Returns
  /\ PhaseOwned

-----------------------------------------------------------------------------
\* AgentHarness::new starts idle.
LEMMA ControlInit == Init => ControlInv
<1>. SUFFICES ASSUME Init PROVE ControlInv
  OBVIOUS
<1>1. /\ phase = "Idle"
      /\ \A c \in Callers : pc[c] = "idle" /\ ret[c] = "idle"
      /\ pc = [c \in Callers |-> "idle"]
      /\ ret = [c \in Callers |-> "idle"]
  BY DEF Init
<1>2. "idle" \in Pcs /\ "idle" \notin PhasePcs \cup FlushPcs \cup AbortPcs
  BY DEF Pcs, PhasePcs, FlushPcs, AbortPcs
<1>. QED
  BY <1>1, <1>2 DEF ControlInv, Returns, PhaseOwned

\* A step that stays inside, or outside, an operation and leaves ret alone.
LEMMA QuietStep ==
  ASSUME ControlInv, NEW c \in Callers, NEW label \in Pcs,
         Goto(c, label),
         label \in PhasePcs <=> Inside(c),
         label \in FlushPcs => pc[c] \in FlushPcs,
         label \in AbortPcs => pc[c] \in AbortPcs,
         UNCHANGED <<phase, ret>>
  PROVE  ControlInv'
<1>1. pc' \in [Callers -> Pcs] /\ ret' \in [Callers -> Pcs]
  BY DEF ControlInv, Goto
<1>2. \A d \in Callers : Inside(d)' <=> Inside(d)
  BY DEF ControlInv, Goto, Inside
<1>3. PhaseOwned'
  BY <1>2 DEF ControlInv, PhaseOwned, Inside
<1>4. Returns'
  BY DEF ControlInv, Returns, Goto
<1>. QED
  BY <1>1, <1>3, <1>4 DEF ControlInv

\* A step of the same kind that says where to return to.
LEMMA CallingStep ==
  ASSUME ControlInv, NEW c \in Callers, NEW label \in Pcs, NEW back \in Pcs,
         Goto(c, label),
         ret' = [ret EXCEPT ![c] = back],
         label \in PhasePcs <=> Inside(c),
         label \in FlushPcs => back \in FlushedPcs,
         label \in AbortPcs => back \in {"idle", "waitCheck"},
         UNCHANGED phase
  PROVE  ControlInv'
<1>1. pc' \in [Callers -> Pcs] /\ ret' \in [Callers -> Pcs]
  BY DEF ControlInv, Goto
<1>2. \A d \in Callers : Inside(d)' <=> Inside(d)
  BY DEF ControlInv, Goto, Inside
<1>3. PhaseOwned'
  BY <1>2 DEF ControlInv, PhaseOwned, Inside
<1>4. Returns'
  BY DEF ControlInv, Returns, Goto
<1>. QED
  BY <1>1, <1>3, <1>4 DEF ControlInv

\* start_phase: from the idle phase, into one operation.
LEMMA EnterStep ==
  ASSUME ControlInv, NEW c \in Callers, NEW label \in PhasePcs,
         NEW back \in Pcs,
         phase = "Idle", phase' # "Idle",
         Goto(c, label),
         \/ UNCHANGED ret /\ label \notin FlushPcs
         \/ ret' = [ret EXCEPT ![c] = back] /\ back \in FlushedPcs
  PROVE  ControlInv'
<1>1. pc' \in [Callers -> Pcs] /\ ret' \in [Callers -> Pcs]
  BY DEF ControlInv, Goto, Pcs
<1>2. \A d \in Callers : Inside(d)' <=> d = c
  BY DEF ControlInv, PhaseOwned, Goto, Inside
<1>3. PhaseOwned'
  BY <1>2 DEF PhaseOwned, Inside
<1>4. label \notin AbortPcs
  BY DEF AbortPcs, PhasePcs
<1>5. Returns'
  BY <1>4 DEF ControlInv, Returns, Goto
<1>. QED
  BY <1>1, <1>3, <1>5 DEF ControlInv

-----------------------------------------------------------------------------
\* Each step of each caller preserves the control invariant.
LEMMA ControlStep == ControlInv /\ [Next]_vars => ControlInv'
<1>. SUFFICES ASSUME ControlInv, [Next]_vars PROVE ControlInv'
  OBVIOUS
<1>1. CASE UNCHANGED vars
  BY <1>1 DEF vars, shared, ControlInv, Returns, PhaseOwned
<1>2. ASSUME NEW c \in Callers, Start(c) PROVE ControlInv'
  <2>1. CASE StartPrompt(c)
    <3>1. CASE UNCHANGED <<phase, pc, ret>>
      BY <3>1 DEF ControlInv, Returns, PhaseOwned
    <3>2. CASE Take("Turn") /\ Goto(c, "clearAbort") /\ UNCHANGED ret
      BY <3>2, EnterStep DEF Take, Free, Pcs, PhasePcs, FlushPcs
    <3>. QED
      BY <2>1, <3>1, <3>2 DEF StartPrompt
  <2>7. CASE StartSummary(c)
    <3>1. CASE UNCHANGED <<phase, pc, ret>>
      BY <3>1 DEF ControlInv, Returns, PhaseOwned
    <3>2. CASE /\ Take("Compaction") \/ Take("BranchSummary")
               /\ \/ Flush(c, "summarize")
                  \/ Goto(c, "navigate") /\ UNCHANGED ret
      BY <3>2, EnterStep
         DEF Take, Free, Flush, Pcs, PhasePcs, FlushPcs, FlushedPcs
    <3>. QED
      BY <2>7, <3>1, <3>2 DEF StartSummary
  <2>2. CASE WriteCheck(c)
    BY <2>2, QuietStep
       DEF WriteCheck, Call, shared, Inside, Pcs, PhasePcs, FlushPcs, AbortPcs
  <2>3. CASE EnqueueCheck(c)
    BY <2>3, QuietStep
       DEF EnqueueCheck, Call, shared, Inside, Pcs, PhasePcs, FlushPcs,
           AbortPcs
  <2>4. CASE NextTurnMessage(c)
    BY <2>4 DEF NextTurnMessage, ControlInv, Returns, PhaseOwned
  <2>5. CASE Abort(c)
    BY <2>5, CallingStep
       DEF Abort, Call, Inside, Pcs, PhasePcs, FlushPcs, AbortPcs
  <2>6. CASE Wait(c)
    BY <2>6, QuietStep
       DEF Wait, Call, shared, Inside, Pcs, PhasePcs, FlushPcs, AbortPcs
  <2>. QED
    BY <1>2, <2>1, <2>2, <2>3, <2>4, <2>5, <2>6, <2>7 DEF Start
<1>3. ASSUME NEW c \in Callers, Step(c) PROVE ControlInv'
  <2>. USE DEF Inside, Pcs, PhasePcs, FlushPcs, AbortPcs, FlushedPcs
  <2>1. CASE FinishPhase(c)
    <3>1. /\ pc[c] = "finish" /\ phase' = "Idle" /\ UNCHANGED ret
          /\ Goto(c, "notify")
      BY <2>1 DEF FinishPhase
    <3>2. \A d \in Callers : pc'[d] \notin PhasePcs
      BY <3>1 DEF ControlInv, PhaseOwned, Goto
    <3>3. PhaseOwned'
      BY <3>1, <3>2 DEF PhaseOwned
    <3>4. Returns' /\ pc' \in [Callers -> Pcs]
      BY <3>1 DEF ControlInv, Returns, Goto
    <3>. QED
      BY <3>1, <3>3, <3>4 DEF ControlInv
  <2>2. CASE FinishNotify(c)
    BY <2>2, QuietStep DEF FinishNotify, shared
  <2>3. CASE WriteDirect(c) \/ WriteQueue(c)
    BY <2>3, QuietStep DEF WriteDirect, WriteQueue
  <2>4. CASE FlushNext(c)
    <3>1. CASE pending = <<>>
      <4>1. ret[c] \in FlushedPcs /\ ret[c] \in Pcs
        BY <2>4 DEF FlushNext, ControlInv, Returns
      <4>2. /\ Goto(c, ret[c]) /\ ret' = [ret EXCEPT ![c] = "idle"]
            /\ UNCHANGED phase /\ pc[c] = "flush"
        BY <2>4, <3>1 DEF FlushNext
      <4>. QED
        BY <4>1, <4>2, CallingStep
    <3>2. CASE pending # <<>>
      BY <2>4, <3>2, QuietStep DEF FlushNext
    <3>. QED
      BY <3>1, <3>2
  <2>5. CASE FlushWrite(c)
    BY <2>5, QuietStep DEF FlushWrite
  <2>6. CASE Enqueue(c)
    BY <2>6, QuietStep DEF Enqueue
  <2>7. CASE AbortQueues(c)
    BY <2>7, QuietStep DEF AbortQueues, ControlInv, Returns
  <2>8. CASE ClearAbort(c)
    BY <2>8, QuietStep DEF ClearAbort
  <2>9. CASE BuildContext(c)
    BY <2>9, QuietStep DEF BuildContext, shared
  <2>10. CASE DrainNext(c)
    BY <2>10, QuietStep DEF DrainNext
  <2>11. CASE BeforeStart(c)
    BY <2>11, QuietStep, CallingStep DEF BeforeStart, Flush, shared
  <2>12. CASE Emit(c)
    BY <2>12, QuietStep DEF Emit
  <2>13. CASE Turn(c)
    BY <2>13, QuietStep DEF Turn
  <2>14. CASE Results(c)
    BY <2>14, QuietStep DEF Results
  <2>15. CASE PrepareNext(c)
    BY <2>15, QuietStep DEF PrepareNext, shared
  <2>16. CASE Poll(c)
    <3>1. /\ Inside(c) /\ UNCHANGED <<phase, ret>>
          /\ \E label \in {"turn", "emit", "failTurn", "pollFollowUp",
                           "runEnd"} : Goto(c, label)
      BY <2>16 DEF Poll, NextTurn
    <3>. QED
      BY <3>1, QuietStep
  <2>17. CASE RunEnd(c)
    BY <2>17, QuietStep, CallingStep DEF RunEnd, Flush, shared
  <2>18. CASE After(c)
    BY <2>18, QuietStep, CallingStep DEF After, Flush
  <2>19. CASE SavePoint(c)
    BY <2>19, CallingStep DEF SavePoint, Flush, shared
  <2>20. CASE Settled(c)
    BY <2>20, QuietStep DEF Settled, shared
  <2>21. CASE Summarize(c)
    BY <2>21, QuietStep, CallingStep DEF Summarize, Flush, shared
  <2>22. CASE Commit(c)
    BY <2>22, QuietStep, CallingStep DEF Commit, Flush
  <2>23. CASE WaitCheck(c)
    BY <2>23, QuietStep DEF WaitCheck, shared
  <2>24. CASE WaitRegister(c)
    BY <2>24, QuietStep DEF WaitRegister, shared
  <2>25. CASE Awake(c)
    BY <2>25, QuietStep DEF Awake, shared
  <2>. QED
    BY <1>3, <2>1, <2>2, <2>3, <2>4, <2>5, <2>6, <2>7, <2>8, <2>9, <2>10,
       <2>11, <2>12, <2>13, <2>14, <2>15, <2>16, <2>17, <2>18, <2>19, <2>20,
       <2>21, <2>22, <2>23, <2>24, <2>25 DEF Step
<1>. QED
  BY <1>1, <1>2, <1>3 DEF Next

\* One prompt, compaction or move of the session at a time, whoever calls: the
\* exclusion that start_phase promises ("AgentHarness is busy").
THEOREM OneOperationAtATime == Spec => []PhaseOwned
<1>1. ControlInv => PhaseOwned
  BY DEF ControlInv
<1>. QED
  BY <1>1, ControlInit, ControlStep, PTL DEF Spec

-----------------------------------------------------------------------------
(* Types                                                                   *)

\* TypeOK in two parts: the flags, and the rest.
Flags ==
  /\ abortFlag \in BOOLEAN
  /\ persistError \in BOOLEAN
  /\ wake \in [Callers -> BOOLEAN]
  /\ notified \subseteq Callers

Data ==
  /\ phase \in {"Idle", "Turn", "Compaction", "BranchSummary"}
  /\ pending \in Seq(Writes)
  /\ holder \in Callers \cup {NoCaller}
  /\ session \in Seq(Entries)
  /\ queues \in [QueueNames -> Seq(Items)]
  /\ held \in [Callers -> Seq(Writes)]
  /\ turn \in 0 .. MaxTurns
  /\ carried \in Seq(Items)
  /\ context \in Seq(Entries)
  /\ runs \in Nat
  /\ refused \in Seq(Items)
  /\ made \in 0 .. MaxItems
  /\ failures \in 0 .. MaxFailures
  /\ called \in 0 .. MaxCalls

\* Where a call holds a write, and a run a message not yet emitted.
HoldingPcs ==
  {"writeDirect", "writeQueue", "enqueueSteering", "enqueueFollowUp",
   "flushWrite", "flushBack"}

CarryingPcs ==
  {"clearAbort", "buildContext", "drainNext", "beforeStart", "emitPrompts",
   "emit"}

\* Where a run has a turn left.
EarlyPcs == CarryingPcs \cup {"initialPoll", "turn"}

Carrying ==
  /\ \A c \in Callers :
       /\ pc[c] \in HoldingPcs => held[c] # <<>>
       /\ pc[c] \in CarryingPcs => carried # <<>>
       /\ pc[c] \in EarlyPcs => turn < MaxTurns
  /\ phase = "Idle" => turn = 0

-----------------------------------------------------------------------------
\* The initial state has its type.
LEMMA TypesInit == Init => Flags /\ Data /\ Carrying
<1>. SUFFICES ASSUME Init PROVE Flags /\ Data /\ Carrying
  OBVIOUS
<1>n. /\ MaxItems \in Nat /\ MaxCalls \in Nat
      /\ MaxTurns \in Nat /\ MaxFailures \in Nat
  BY HarnessAssumption
<1>1. Flags
  BY DEF Init, Flags
<1>2. Data
  BY <1>n DEF Init, Data
<1>3. Carrying
  BY DEF Init, Carrying, HoldingPcs, CarryingPcs, EarlyPcs
<1>. QED
  BY <1>1, <1>2, <1>3

\* No step puts anything else in a flag.
LEMMA FlagsStep == Flags /\ [Next]_vars => Flags'
<1>. SUFFICES ASSUME Flags, [Next]_vars PROVE Flags'
  OBVIOUS
<1>1. CASE UNCHANGED vars
  BY <1>1 DEF Flags, vars, shared, waiting, runVars
<1>2. ASSUME NEW c \in Callers, Start(c) PROVE Flags'
  BY <1>2
     DEF Start, StartPrompt, StartSummary, Take, WriteCheck, EnqueueCheck,
         NextTurnMessage, Abort, Wait, Flags, shared, waiting, runVars
<1>3. ASSUME NEW c \in Callers, Step(c) PROVE Flags'
  <2>1. CASE FinishPhase(c)
    BY <2>1 DEF FinishPhase, Flags, waiting
  <2>2. CASE FinishNotify(c)
    BY <2>2, Zenon DEF FinishNotify, NotifyWaiters, Flags, shared, runVars
  <2>3. CASE Emit(c) \/ Turn(c) \/ Results(c)
    BY <2>3, Zenon DEF Emit, Turn, Results, Persist, KeptError, Flags, waiting
  <2>4. CASE WaitRegister(c) \/ Awake(c) \/ ClearAbort(c)
    BY <2>4, Zenon
       DEF WaitRegister, Awake, ClearAbort, Flags, shared, waiting, runVars
  <2>5. CASE UNCHANGED <<abortFlag, waiting, persistError>>
    BY <2>5 DEF Flags, waiting
  <2>. QED
   BY <1>3, <2>1, <2>2, <2>3, <2>4, <2>5
      DEF Step, WriteDirect, WriteQueue, FlushNext, FlushWrite, Enqueue,
          AbortQueues, BuildContext, DrainNext, BeforeStart, PrepareNext, Poll,
          RunEnd, After, SavePoint, Settled, Summarize, Commit, WaitCheck,
          shared, runVars
<1>. QED
  BY <1>1, <1>2, <1>3 DEF Next



\* The queues hold messages, whichever is written.
LEMMA QueueType ==
  ASSUME Data, NEW name \in QueueNames, NEW item \in Items
  PROVE  /\ Queue(name, item) => queues' \in [QueueNames -> Seq(Items)]
         /\ Clear(name) => queues' \in [QueueNames -> Seq(Items)]
<1>1. queues[name] \in Seq(Items)
  BY DEF Data
<1>2. Append(queues[name], item) \in Seq(Items) /\ <<>> \in Seq(Items)
  BY <1>1
<1>. QED
  BY <1>2 DEF Queue, Clear, Data

\* The same, of a queue that is emptied.
LEMMA ClearType ==
  ASSUME Data, NEW name \in QueueNames, Clear(name)
  PROVE  queues' \in [QueueNames -> Seq(Items)]
<1>2. <<>> \in Seq(Items) OBVIOUS
<1>. QED
  BY <1>2 DEF Clear, Data

\* A call keeps every variable in its type.
LEMMA DataStart ==
  ASSUME Data, NEW c \in Callers, Start(c)
  PROVE  Data'
<1>. MaxItems \in Nat /\ MaxCalls \in Nat
  BY HarnessAssumption
<1>. DEFINE Called == called' = called + 1 /\ called < MaxCalls
<1>. DEFINE Made == made' = made + 1 /\ made < MaxItems
<1>1. CASE StartPrompt(c)
  <2>1. Called /\ Made
    BY <1>1 DEF StartPrompt, Call, Make
  <2>2. made' \in Items
    BY <2>1 DEF Data, Items
  <2>3. CASE /\ carried' = <<made'>> /\ runs' = runs + 1
             /\ UNCHANGED refused /\ phase' = "Turn"
    BY <1>1, <2>1, <2>2, <2>3 DEF StartPrompt, Data
  <2>4. CASE /\ refused' = Append(refused, made')
             /\ UNCHANGED <<phase, carried, runs>>
    BY <1>1, <2>1, <2>2, <2>4 DEF StartPrompt, Data
  <2>. QED
    BY <1>1, <2>3, <2>4 DEF StartPrompt, Take
<1>7. CASE StartSummary(c)
  <2>1. Called
    BY <1>7 DEF StartSummary, Call
  <2>2. phase' \in {"Idle", "Turn", "Compaction", "BranchSummary"}
    BY <1>7 DEF StartSummary, Data, Take
  <2>. QED
    BY <1>7, <2>1, <2>2 DEF StartSummary, Data, runVars
<1>2. CASE WriteCheck(c)
  <2>1. Called /\ Made
    BY <1>2 DEF WriteCheck, Call, Make
  <2>2. Write(made', runs) \in Writes
    BY <2>1 DEF Data, Items, Write, Writes
  <2>. QED
    BY <1>2, <2>1, <2>2 DEF WriteCheck, Data, shared, runVars
<1>3. CASE EnqueueCheck(c) 
  <2>1. Called /\ Made
    BY <1>3 DEF EnqueueCheck, Call, Make
  <2>2. Write(made', runs) \in Writes
    BY <2>1 DEF Data, Items, Write, Writes
  <2>. QED
    BY <1>3, <2>1, <2>2 DEF EnqueueCheck, Data, shared, runVars
<1>4. CASE NextTurnMessage(c)
  <2>1. Called /\ Made
    BY <1>4 DEF NextTurnMessage, Call, Make
  <2>2. made' \in Items
    BY <2>1 DEF Data, Items
  <2>3. queues' \in [QueueNames -> Seq(Items)]
    BY <1>4, <2>2, QueueType DEF NextTurnMessage, QueueNames
  <2>. QED
    BY <1>4, <2>1, <2>3 DEF NextTurnMessage, Data, runVars
<1>5. CASE Abort(c)
  BY <1>5 DEF Abort, Data, Call, runVars
<1>6. CASE Wait(c)
  BY <1>6 DEF Wait, Data, Call, shared, runVars
<1>. QED
  BY <1>1, <1>2, <1>3, <1>4, <1>5, <1>6, <1>7 DEF Start
\* A call begins holding what it made, and a prompt begins a run at turn 0.
LEMMA CarryingStart ==
  ASSUME ControlInv, Data, Carrying, NEW c \in Callers, Start(c)
  PROVE  Carrying'
<1>. USE HarnessAssumption DEF HoldingPcs, CarryingPcs, EarlyPcs
<1>0. pc \in [Callers -> Pcs]
  BY DEF ControlInv
<1>9. held \in [Callers -> Seq(Writes)]
  BY DEF Data
<1>1. CASE StartPrompt(c)
  <2>1. CASE UNCHANGED <<phase, pc, carried>>
    BY <1>1, <2>1 DEF StartPrompt, Carrying
  <2>2. CASE /\ phase = "Idle" /\ phase' # "Idle"
             /\ Goto(c, "clearAbort") /\ carried' # <<>>
    <3>1. turn' = turn /\ turn = 0 /\ turn < MaxTurns /\ UNCHANGED held
      BY <1>1, <2>2 DEF StartPrompt, Carrying
    <3>. QED
      BY <1>0, <2>2, <3>1 DEF Carrying, Goto
  <2>. QED
    BY <1>1, <2>1, <2>2 DEF StartPrompt, Take, Free
<1>7. CASE StartSummary(c)
  <2>1. CASE UNCHANGED <<phase, pc>>
    BY <1>7, <2>1 DEF StartSummary, Carrying, runVars
  <2>2. CASE /\ phase = "Idle" /\ phase' # "Idle"
             /\ Goto(c, "navigate") \/ Goto(c, "flush")
    BY <1>0, <1>7, <2>2 DEF StartSummary, Carrying, runVars, Goto
  <2>. QED
    BY <1>7, <2>1, <2>2 DEF StartSummary, Take, Free, Flush
<1>2. CASE WriteCheck(c)
  BY <1>0, <1>9, <1>2 DEF WriteCheck, Carrying, Call, Goto, shared, runVars
<1>3. CASE EnqueueCheck(c)
  BY <1>0, <1>9, <1>3 DEF EnqueueCheck, Carrying, Call, Goto, shared, runVars
<1>4. CASE NextTurnMessage(c)
  BY <1>4 DEF NextTurnMessage, Carrying, Call, runVars
<1>5. CASE Abort(c)
  BY <1>0, <1>5 DEF Abort, Carrying, Call, Goto, runVars
<1>6. CASE Wait(c)
  BY <1>0, <1>6 DEF Wait, Carrying, Call, Goto, shared, runVars
<1>. QED
  BY <1>1, <1>2, <1>3, <1>4, <1>5, <1>6, <1>7 DEF Start

\* A call that holds a write holds one of the right type.
LEMMA HeldType ==
  ASSUME Data, NEW d \in Callers, held[d] # <<>>
  PROVE  /\ held[d][1] \in Writes
         /\ held[d][1].item \in Items
         /\ held[d][1].run \in Nat
<1>1. held[d] \in Seq(Writes)
  BY DEF Data
<1>2. held[d][1] \in Writes
  BY <1>1
<1>. QED
  BY <1>2 DEF Writes

\* What the actions append is an entry.
LEMMA EntryType ==
  ASSUME NEW item \in {0} \cup Items, NEW by \in Writers, NEW run \in Nat
  PROVE  Entry(item, by, run) \in Entries
BY DEF Entry, Entries

\* A step keeps every variable in its type: a call has the write it hands on,
\* a run the message it emits, and turns are left.
LEMMA DataStep ==
  ASSUME Data, ControlInv, Carrying, NEW c \in Callers, Step(c)
  PROVE  Data'
<1>n. /\ MaxItems \in Nat /\ MaxCalls \in Nat
      /\ MaxTurns \in Nat /\ MaxFailures \in Nat
  BY HarnessAssumption
<1>. USE DEF HoldingPcs, CarryingPcs, EarlyPcs
<1>0. session \in Seq(Entries) /\ context \in Seq(Entries)
  BY DEF Data
<1>e. refused \in Seq(Items)
  BY DEF Data
<1>1. CASE UNCHANGED <<shared, held, runVars, history>>
  BY <1>1 DEF Data, shared, runVars, history
<1>2. CASE FinishPhase(c)
  BY <1>2, <1>n DEF FinishPhase, Data
<1>a. ASSUME held[c] # <<>>
      PROVE  /\ held[c][1] \in Writes
             /\ held[c][1].item \in Items
             /\ held[c][1].run \in Nat
  BY <1>a, HeldType
<1>b. ASSUME Refuses PROVE failures' \in 0 .. MaxFailures
  BY <1>b, <1>n DEF Refuses, Data
<1>c. ASSUME Drop(c) PROVE held' \in [Callers -> Seq(Writes)]
  BY <1>c DEF Drop, Data
<1>3. CASE WriteDirect(c)
  <2>1. held[c] # <<>>
    BY <1>3 DEF WriteDirect, Carrying
  <2>2. Entry(held[c][1].item, "direct", runs) \in Entries
    BY <2>1, <1>a, EntryType DEF Data, Writers
  <2>3. held' \in [Callers -> Seq(Writes)]
    BY <1>3, <1>c DEF WriteDirect
  <2>6. held[c][1].item \in Items
    BY <2>1, <1>a
  <2>7. /\ session' \in {session,
                        Append(session,
                               Entry(held[c][1].item, "direct", runs))}
        /\ refused' \in {refused, Append(refused, held[c][1].item)}
          BY <1>3 DEF WriteDirect
  <2>8. session' \in Seq(Entries)
    BY <1>0, <2>2, <2>7
  <2>9. refused' \in Seq(Items)
    BY <1>e, <2>6, <2>7
  <2>4. session' \in Seq(Entries) /\ refused' \in Seq(Items)
    BY <2>8, <2>9
  <2>5. failures' \in 0 .. MaxFailures
    BY <1>3, <1>b DEF WriteDirect, Data
  <2>. QED
    BY <1>3, <2>3, <2>4, <2>5 DEF WriteDirect, Data, runVars
<1>4. CASE WriteQueue(c)
  <2>1. held[c] # <<>>
    BY <1>4 DEF WriteQueue, Carrying
  <2>2. pending' \in Seq(Writes)
    BY <1>4, <2>1, <1>a DEF WriteQueue, Data
  <2>3. held' \in [Callers -> Seq(Writes)]
    BY <1>4, <1>c DEF WriteQueue
  <2>. QED
    BY <1>4, <2>2, <2>3 DEF WriteQueue, Data, runVars, history
<1>5. CASE FlushNext(c)
  <2>1. CASE pending = <<>>
    BY <1>5, <2>1 DEF FlushNext, Data, runVars, history
  <2>2. CASE pending # <<>>
    <3>1. Head(pending) \in Writes /\ Tail(pending) \in Seq(Writes)
      BY <2>2 DEF Data
    <3>2. held' \in [Callers -> Seq(Writes)] 
      <4>1. held' = [held EXCEPT ![c] = <<Head(pending)>>]
        BY <1>5, <2>2 DEF FlushNext
      <4>2. <<Head(pending)>> \in Seq(Writes)
        BY <3>1
      <4>. QED
        BY <4>1, <4>2 DEF Data
    <3>. QED
      BY <1>5, <2>2, <3>1, <3>2 DEF FlushNext, Data, runVars, history
  <2>. QED
    BY <2>1, <2>2
<1>6. CASE FlushWrite(c)
  <2>1. held[c] # <<>>
    BY <1>6 DEF FlushWrite, Carrying
  <2>2. Entry(held[c][1].item, "queued", held[c][1].run) \in Entries
    BY <2>1, <1>a, EntryType DEF Data, Writers
  <2>3. held' \in [Callers -> Seq(Writes)]
    BY <1>6, <1>c DEF FlushWrite, Data
  <2>6. session' \in {session,
                     Append(session, Entry(held[c][1].item, "queued",
                                           held[c][1].run))}
    BY <1>6 DEF FlushWrite
  <2>4. session' \in Seq(Entries)
    BY <1>0, <2>2, <2>6
  <2>5. failures' \in 0 .. MaxFailures
    BY <1>6, <1>b DEF FlushWrite, Data
  <2>. QED
    BY <1>6, <2>3, <2>4, <2>5 DEF FlushWrite, Data, runVars
<1>7. CASE Enqueue(c)
  <2>1. held[c] # <<>>
    BY <1>7 DEF Enqueue, Carrying
  <2>2. queues' \in [QueueNames -> Seq(Items)]
    BY <1>7, <2>1, <1>a, QueueType DEF Enqueue, QueueNames
  <2>3. held' \in [Callers -> Seq(Writes)]
    BY <1>7, <1>c DEF Enqueue
  <2>. QED
    BY <1>7, <2>2, <2>3 DEF Enqueue, Data, runVars, history
<1>8. CASE AbortQueues(c)
  <2>1. queues' \in [QueueNames -> Seq(Items)]
    BY <1>8, ClearType DEF AbortQueues, QueueNames
  <2>3. queues.steering \in Seq(Items) /\ queues.followUp \in Seq(Items)
    BY DEF Data, QueueNames
  <2>4. \/ refused' = refused \o queues.steering
        \/ refused' = refused \o queues.followUp
    BY <1>8 DEF AbortQueues
  <2>2. refused' \in Seq(Items)
    BY <1>e, <2>3, <2>4, ConcatProperties
  <2>. QED
    BY <1>8, <2>1, <2>2 DEF AbortQueues, Data, runVars
<1>9. CASE ClearAbort(c)
  BY <1>9 DEF ClearAbort, Data, runVars, history
<1>10. CASE DrainNext(c)
  <2>1. queues' \in [QueueNames -> Seq(Items)]
    BY <1>10, ClearType DEF DrainNext, QueueNames
  <2>2. carried' \in Seq(Items)
    BY <1>10 DEF DrainNext, Data, QueueNames
  <2>. QED
    BY <1>10, <2>1, <2>2 DEF DrainNext, Data, history
<1>d. ASSUME NEW item \in {0} \cup Items, Persist(item)
      PROVE  /\ session' \in Seq(Entries) /\ context' \in Seq(Entries)
             /\ refused' \in Seq(Items) /\ failures' \in 0 .. MaxFailures
  <2>1. Entry(item, "run", runs) \in Entries
    BY EntryType DEF Data, Writers
  <2>2. /\ context' = Append(context, Entry(item, "run", runs))
        /\ session' \in {session, Append(session, Entry(item, "run", runs))}
    BY <1>d DEF Persist
  <2>3. refused' = refused \/ (item # 0 /\ refused' = Append(refused, item))
    BY <1>d DEF Persist
  <2>4. UNCHANGED failures \/ Refuses
    BY <1>d DEF Persist
  <2>5. session' \in Seq(Entries) /\ context' \in Seq(Entries)
    <3>. DEFINE entry == Entry(item, "run", runs)
    <3>1. /\ Append(session, entry) \in Seq(Entries)
          /\ Append(context, entry) \in Seq(Entries)
      BY <1>0, <2>1, AppendProperties, Zenon
    <3>. QED
      BY <1>0, <2>2, <3>1, Zenon
  <2>6. refused' \in Seq(Items)
    BY <1>e, <2>3
  <2>7. failures' \in 0 .. MaxFailures
    BY <2>4, <1>b DEF Data
  <2>. QED
    BY <2>5, <2>6, <2>7
<1>11. CASE Emit(c)
  <2>1. carried # <<>>
    BY <1>11 DEF Emit, Carrying
  <2>2. Head(carried) \in Items /\ Tail(carried) \in Seq(Items)
    BY <2>1 DEF Data
  <2>3. /\ Persist(Head(carried)) /\ carried' = Tail(carried)
        /\ UNCHANGED <<phase, pending, holder, queues, held, turn, runs, made,
                       called>>
    BY <1>11 DEF Emit
  <2>. QED
    BY <2>2, <2>3, <1>d DEF Data
<1>12. CASE Turn(c)
  <2>1. turn' \in 0 .. MaxTurns
    BY <1>12, <1>n DEF Turn, Carrying, Data
  <2>3. /\ Persist(0)
        /\ UNCHANGED <<phase, pending, holder, queues, held, carried, runs,
                       made, called>>
    BY <1>12 DEF Turn
  <2>. QED
    BY <2>1, <2>3, <1>d DEF Data
<1>13. CASE Results(c)
  <2>3. /\ Persist(0)
        /\ UNCHANGED <<phase, pending, holder, queues, held, turn, carried,
                       runs, made, called>>
    BY <1>13 DEF Results
  <2>. QED
    BY <2>3, <1>d DEF Data
<1>14. CASE PrepareNext(c)
  <2>1. Projected(pending) \in Seq(Entries)
    <3>1. \A k \in DOMAIN pending :
            Entry(pending[k].item, "queued", pending[k].run) \in Entries

      <4>. TAKE k \in DOMAIN pending
      <4>1. pending[k] \in Writes
        BY DEF Data
      <4>2. pending[k].item \in Items /\ pending[k].run \in Nat
        BY <4>1 DEF Writes
      <4>. QED
        BY <4>2, EntryType DEF Writers, Data
    <3>2. DOMAIN pending = 1 .. Len(pending) /\ Len(pending) \in Nat
      BY DEF Data
    <3>3. Projected(pending) \in [1 .. Len(pending) -> Entries]
      BY <3>1, <3>2 DEF Projected
    <3>. QED
      BY <3>2, <3>3
  <2>2. context' = context \/ context' = context \o Projected(pending)
    BY <1>14 DEF PrepareNext
  <2>3. context' \in Seq(Entries)
    BY <1>0, <2>1, <2>2, ConcatProperties
  <2>. QED
    BY <1>14, <2>3 DEF PrepareNext, Data, shared, history
<1>15. CASE Poll(c)
  <2>1. ASSUME NEW name \in QueueNames, NEW k \in Takes(name)
        PROVE  /\ SubSeq(queues[name], 1, k) \in Seq(Items)
               /\ Drain(name, k) => queues' \in [QueueNames -> Seq(Items)]
     <3>. queues[name] \in Seq(Items)
       BY DEF Data
     <3>1. SubSeq(queues[name], k + 1, Len(queues[name])) \in Seq(Items)
       BY DEF Takes
     <3>2. SubSeq(queues[name], 1, k) \in Seq(Items)
       BY DEF Takes
     <3>. QED
       BY <3>1, <3>2 DEF Drain, Data
  <2>2. "steering" \in QueueNames /\ "followUp" \in QueueNames
    BY DEF QueueNames
  <2>3. queues' \in [QueueNames -> Seq(Items)]
    BY <1>15, <2>1, <2>2 DEF Poll
  <2>. DEFINE Polled(name, k) ==
         /\ carried' \in {carried, SubSeq(queues[name], 1, k)}
         /\ refused' \in {refused, refused \o SubSeq(queues[name], 1, k)}
  <2>4. \E name \in QueueNames : \E k \in Takes(name) : Polled(name, k)
    BY <1>15, <2>2 DEF Poll, NextTurn
  <2>5. carried' \in Seq(Items) /\ refused' \in Seq(Items)
    <3>0. PICK name \in QueueNames : \E k \in Takes(name) : Polled(name, k)
      BY <2>4
    <3>1. PICK k \in Takes(name) : Polled(name, k)
      BY <3>0
    <3>2. SubSeq(queues[name], 1, k) \in Seq(Items)
      BY <2>1
    <3>3. carried \in Seq(Items) /\ refused \in Seq(Items)
      BY DEF Data
    <3>4. refused \o SubSeq(queues[name], 1, k) \in Seq(Items)
      BY <3>2, <3>3
    <3>. QED
      BY <3>1, <3>2, <3>3, <3>4
  <2>. QED
    BY <1>15, <2>3, <2>5 DEF Poll, Data
<1>16. CASE After(c)
  <2>1. Entry(0, "after", runs) \in Entries
    BY EntryType DEF Data, Writers
  <2>2. UNCHANGED failures \/ Refuses
    BY <1>16 DEF After
  <2>4. session' \in {session, Append(session, Entry(0, "after", runs))}
    BY <1>16 DEF After
  <2>3. session' \in Seq(Entries)
    BY <1>0, <2>1, <2>4
  <2>. QED
    BY <1>16, <2>2, <2>3, <1>b DEF After, Data, runVars
<1>17. CASE Commit(c)
  <2>1. Entry(0, "summary", runs) \in Entries
    BY EntryType DEF Data, Writers
  <2>2. UNCHANGED failures \/ Refuses
    BY <1>17 DEF Commit
  <2>4. session' \in {session, Append(session, Entry(0, "summary", runs))}
    BY <1>17 DEF Commit
  <2>3. session' \in Seq(Entries)
    BY <1>0, <2>1, <2>4
  <2>. QED
    BY <1>17, <2>2, <2>3, <1>b DEF Commit, Data, runVars
<1>. QED
  BY <1>1, <1>2, <1>3, <1>4, <1>5, <1>6, <1>7, <1>8, <1>9, <1>10, <1>11, <1>12,
     <1>13, <1>14, <1>15, <1>16, <1>17
     DEF Step, FinishNotify, BuildContext, BeforeStart, RunEnd, SavePoint,
         Settled, Summarize, WaitCheck, WaitRegister, Awake

\* A step inside an operation changes nothing another operation relies on, as
\* there is no other; a step outside changes nothing of a run.
LEMMA CarryingMove ==
  ASSUME ControlInv, Carrying, NEW c \in Callers, NEW label \in Pcs,
         Goto(c, label),
         \A d \in Callers \ {c} : held'[d] = held[d],
         label \in HoldingPcs => held'[c] # <<>>,
         label \in CarryingPcs => carried' # <<>>,
         label \in EarlyPcs => turn' < MaxTurns,
         Inside(c) \/ UNCHANGED <<carried, turn>>,
         UNCHANGED phase
  PROVE  Carrying'
<1>1. \A d \in Callers \ {c} : pc'[d] = pc[d]
  BY DEF ControlInv, Goto
<1>2. pc'[c] = label
  BY DEF ControlInv, Goto
<1>3. ASSUME Inside(c), NEW d \in Callers \ {c} PROVE pc[d] \notin PhasePcs
  BY <1>3 DEF ControlInv, PhaseOwned, Inside
<1>4. CarryingPcs \subseteq PhasePcs /\ EarlyPcs \subseteq PhasePcs
  BY DEF CarryingPcs, EarlyPcs, PhasePcs
<1>5. phase' = "Idle" => turn' = 0
  BY DEF ControlInv, PhaseOwned, Inside, Carrying
<1>6. \A d \in Callers :
       /\ pc'[d] \in HoldingPcs => held'[d] # <<>>
       /\ pc'[d] \in CarryingPcs => carried' # <<>>
       /\ pc'[d] \in EarlyPcs => turn' < MaxTurns
  BY <1>1, <1>2, <1>3, <1>4 DEF Carrying
<1>. QED
  BY <1>5, <1>6 DEF Carrying

\* Each step leaves every call holding what its next step needs.
LEMMA CarryingStep ==
  ASSUME ControlInv, Data, Carrying, NEW c \in Callers, Step(c)
  PROVE  Carrying'
<1>. USE DEF HoldingPcs, CarryingPcs, EarlyPcs, PhasePcs, Pcs, Inside
<1>h. held \in [Callers -> Seq(Writes)]
  BY DEF Data
<1>i. ASSUME Drop(c) PROVE \A d \in Callers \ {c} : held'[d] = held[d]
  BY <1>h, <1>i DEF Drop
<1>1. CASE FinishPhase(c)
  <2>1. pc[c] = "finish" /\ turn' = 0 /\ Goto(c, "notify") /\ UNCHANGED held
    BY <1>1 DEF FinishPhase
  <2>2. \A d \in Callers : pc'[d] \notin PhasePcs
    BY <2>1 DEF ControlInv, PhaseOwned, Goto
  <2>3. \A d \in Callers : pc'[d] \in HoldingPcs => held'[d] # <<>>
    BY <2>1 DEF Carrying, ControlInv, Goto
  <2>. QED
    BY <2>1, <2>2, <2>3 DEF Carrying
<1>2. CASE FinishNotify(c)
  BY <1>2, CarryingMove DEF FinishNotify, shared, runVars
<1>3. CASE WriteDirect(c)
  BY <1>3, <1>i, CarryingMove DEF WriteDirect, runVars
<1>4. CASE WriteQueue(c)
  BY <1>4, <1>i, CarryingMove DEF WriteQueue, runVars
<1>5. CASE FlushNext(c)
  <2>1. CASE pending = <<>>
    <3>1. ret[c] \in FlushedPcs
      BY <1>5 DEF FlushNext, ControlInv, Returns, FlushPcs
    <3>. QED
      BY <1>5, <2>1, <3>1, CarryingMove DEF FlushNext, runVars, FlushedPcs
  <2>2. CASE pending # <<>>
    <3>1. /\ held' = [held EXCEPT ![c] = <<Head(pending)>>]
          /\ Goto(c, "flushWrite")
          /\ UNCHANGED <<phase, carried, turn>>
      BY <1>5, <2>2 DEF FlushNext, runVars
    <3>2. held'[c] # <<>> /\ \A d \in Callers \ {c} : held'[d] = held[d]
      BY <1>h, <3>1
    <3>. QED
      BY <3>1, <3>2, CarryingMove
  <2>. QED
    BY <2>1, <2>2
<1>6. CASE FlushWrite(c)
  <2>1. CASE Drop(c) /\ Goto(c, "flush")
    BY <1>6, <2>1, <1>i, CarryingMove DEF FlushWrite, runVars
  <2>2. CASE Goto(c, "flushBack") /\ UNCHANGED held
    <3>1. held[c] # <<>>
      BY <1>6 DEF FlushWrite, Carrying
    <3>. QED
      BY <1>6, <2>2, <3>1, CarryingMove DEF FlushWrite, runVars
  <2>. QED
    BY <1>6, <2>1, <2>2 DEF FlushWrite
<1>7. CASE Enqueue(c)
  BY <1>7, <1>i, CarryingMove DEF Enqueue, runVars
<1>8. CASE AbortQueues(c)
  <2>1. pc[c] = "abortFollowUp" => ret[c] \in {"idle", "waitCheck"}
    BY DEF ControlInv, Returns, AbortPcs
  <2>. QED
    BY <1>8, <2>1, CarryingMove DEF AbortQueues, runVars
<1>9. CASE ClearAbort(c)
  BY <1>9, CarryingMove DEF ClearAbort, runVars, Carrying
<1>10. CASE BuildContext(c)
  BY <1>10, CarryingMove DEF BuildContext, runVars, shared, Carrying
<1>11. CASE DrainNext(c)
  <2>1. carried # <<>> /\ turn < MaxTurns
    BY <1>11 DEF DrainNext, Carrying
  <2>2. carried' = queues.nextTurn \o carried
    BY <1>11 DEF DrainNext
  <2>3. carried' # <<>>
    <3>1. carried \in Seq(Items) /\ queues.nextTurn \in Seq(Items)
      BY DEF Data, QueueNames
    <3>. QED
      BY <2>1, <2>2, <3>1, ConcatProperties, EmptySeq
  <2>. QED
    BY <1>11, <2>1, <2>3, CarryingMove DEF DrainNext
<1>12. CASE BeforeStart(c)
  BY <1>12, CarryingMove DEF BeforeStart, runVars, shared, Carrying, Flush
<1>13. CASE Emit(c)
  <2>1. carried # <<>> /\ turn < MaxTurns
    BY <1>13 DEF Emit, Carrying
  <2>2. carried' = Tail(carried) /\ (Len(carried) > 1 => carried' # <<>>)
    <3>1. carried \in Seq(Items)
      BY DEF Data
    <3>. QED
      <4>1. carried' = Tail(carried)
        BY <1>13 DEF Emit
      <4>2. Len(Tail(carried)) = Len(carried) - 1 /\ Len(carried) \in Nat
        BY <2>1, <3>1
      <4>3. Len(<<>>) = 0
        OBVIOUS
      <4>. QED
        BY <4>1, <4>2, <4>3
  <2>3. \/ Len(carried) > 1 /\ Goto(c, pc[c])
        \/ Goto(c, "initialPoll")
        \/ Goto(c, "turn")
    BY <1>13 DEF Emit
  <2>4. pc[c] \in {"emitPrompts", "emit"} /\ UNCHANGED <<phase, held, turn>>
    BY <1>13 DEF Emit
  <2>. QED
    BY <2>1, <2>2, <2>3, <2>4, CarryingMove
<1>14. CASE Turn(c)
  BY <1>14, CarryingMove DEF Turn
<1>15. CASE Results(c)
  BY <1>15, CarryingMove DEF Results
<1>16. CASE PrepareNext(c)
  BY <1>16, CarryingMove DEF PrepareNext, shared
<1>17. CASE Poll(c)
  <2>1. UNCHANGED <<phase, held, turn>> /\ Inside(c)
    BY <1>17 DEF Poll
  <2>2. \/ \E label \in {"failTurn", "pollFollowUp", "runEnd"} : Goto(c, label)
        \/ turn < MaxTurns /\ Goto(c, "turn")
        \/ turn < MaxTurns /\ Goto(c, "emit") /\ carried' # <<>>
    BY <1>17 DEF Poll, NextTurn
  <2>. QED
    BY <2>1, <2>2, CarryingMove
<1>18. CASE RunEnd(c)
  BY <1>18, CarryingMove DEF RunEnd, runVars, shared, Flush
<1>19. CASE After(c)
  BY <1>19, CarryingMove DEF After, runVars, Flush
<1>20. CASE SavePoint(c)
  BY <1>20, CarryingMove DEF SavePoint, runVars, shared, Flush
<1>21. CASE Settled(c)
  BY <1>21, CarryingMove DEF Settled, runVars, shared
<1>22. CASE Summarize(c)
  BY <1>22, CarryingMove DEF Summarize, runVars, shared, Flush
<1>23. CASE Commit(c)
  BY <1>23, CarryingMove DEF Commit, runVars, Flush
<1>24. CASE WaitCheck(c) \/ WaitRegister(c) \/ Awake(c)
  BY <1>24, CarryingMove DEF WaitCheck, WaitRegister, Awake, runVars, shared
<1>. QED
  BY <1>1, <1>2, <1>3, <1>4, <1>5, <1>6, <1>7, <1>8, <1>9, <1>10, <1>11, <1>12,
     <1>13, <1>14, <1>15, <1>16, <1>17, <1>18, <1>19, <1>20, <1>21, <1>22,
     <1>23, <1>24
     DEF Step

-----------------------------------------------------------------------------
TypeInv == Flags /\ Data /\ Carrying

\* Each step of each caller preserves the types.
LEMMA TypeInvStep == ControlInv /\ TypeInv /\ [Next]_vars => TypeInv'
<1>. SUFFICES ASSUME ControlInv, TypeInv, [Next]_vars PROVE TypeInv'
  OBVIOUS
<1>1. Flags'
  BY FlagsStep DEF TypeInv
<1>2. CASE UNCHANGED vars
  BY <1>1, <1>2 DEF TypeInv, Data, Carrying, vars, shared, runVars, history
<1>3. ASSUME NEW c \in Callers, Start(c) PROVE Data' /\ Carrying'
  BY <1>3, DataStart, CarryingStart DEF TypeInv
<1>4. ASSUME NEW c \in Callers, Step(c) PROVE Data' /\ Carrying'
  BY <1>4, DataStep, CarryingStep DEF TypeInv
<1>. QED
  BY <1>1, <1>2, <1>3, <1>4 DEF Next, TypeInv

\* Every variable keeps its type: no flush and no emission runs on nothing, and
\* no run exceeds max_turns.
THEOREM TypeCorrect == Spec => []TypeOK
<1>1. ControlInv /\ TypeInv => TypeOK
  BY DEF ControlInv, TypeInv, Flags, Data, TypeOK
<1>2. Init => ControlInv /\ TypeInv
  BY ControlInit, TypesInit DEF TypeInv
<1>3. ControlInv /\ TypeInv /\ [Next]_vars => (ControlInv /\ TypeInv)'
  BY ControlStep, TypeInvStep
<1>. QED
  BY <1>1, <1>2, <1>3, PTL DEF Spec

-----------------------------------------------------------------------------
(* QueuedAfterRun says nothing of what is to be appended: the invariant    *)
(* adds that no write is stamped with a run to come, and that a run which  *)
(* can still append a message has flushed nothing yet, which needs the     *)
(* phase to be owned by one caller and every flush to return past the      *)
(* messages of its run.                                                    *)

\* Where a prompt is before its last message is in the session.
RunPcs ==
  {"clearAbort", "buildContext", "drainNext", "beforeStart", "emitPrompts",
   "initialPoll", "emit", "turn", "results", "turnEnd", "failTurn", "poll",
   "pollFollowUp", "runEnd", "after"}

\* No entry and no write is of a run to come.
StampedLog == \A i \in DOMAIN session : session[i].run <= runs

Stamped ==
  /\ \A i \in DOMAIN pending : pending[i].run <= runs
  /\ \A c \in Callers : held[c] # <<>> => held[c][1].run <= runs

\* While a prompt can still append a message, no write of its time was flushed.
Unflushed ==
  \A c \in Callers : pc[c] \in RunPcs =>
    \A i \in DOMAIN session : session[i].by = "queued" => session[i].run < runs

Ordered == StampedLog /\ Unflushed /\ QueuedAfterRun
OrderInv == Stamped /\ Ordered

\* An empty session is in order.
LEMMA OrderInit == Init => OrderInv
  BY DEF Init, OrderInv, Ordered, StampedLog, Stamped, Unflushed,
         QueuedAfterRun, RunPcs

\* The writes move between the calls and the queue as they are.
LEMMA WritesMove ==
  ASSUME Data, NEW c \in Callers, Start(c) \/ Step(c)
  PROVE  /\ \/ UNCHANGED pending
            \/ pending # <<>> /\ pending' = Tail(pending)
            \/ pc[c] = "writeQueue" /\ pending' = Append(pending, held[c][1])
         /\ \/ UNCHANGED held
            \/ held' = [held EXCEPT ![c] = <<>>]
            \/ pending # <<>> /\ held' = [held EXCEPT ![c] = <<Head(pending)>>]
            \/ held' = [held EXCEPT ![c] = <<Write(made', runs)>>]
<1>1. CASE Start(c)
  BY <1>1
     DEF Start, StartPrompt, StartSummary, WriteCheck, EnqueueCheck,
         NextTurnMessage, Abort, Wait, shared
<1>2. CASE Step(c)
  <2>1. CASE WriteDirect(c) \/ WriteQueue(c) \/ FlushNext(c) \/ FlushWrite(c)
             \/ Enqueue(c)
    BY <2>1 DEF WriteDirect, WriteQueue, FlushNext, FlushWrite, Enqueue, Drop
  <2>2. CASE UNCHANGED <<pending, held>>
    BY <2>2
  <2>. QED
    BY <1>2, <2>1, <2>2
       DEF Step, FinishPhase, FinishNotify, AbortQueues, ClearAbort,
           BuildContext, DrainNext, BeforeStart, Emit, Turn, Results,
           PrepareNext, Poll, RunEnd, After, SavePoint, Settled, Summarize,
           Commit, WaitCheck, WaitRegister, Awake, shared
<1>. QED
  BY <1>1, <1>2

\* So no write becomes one of a run to come.
LEMMA StampedWrites ==
  ASSUME Data, Carrying, Stamped, NEW c \in Callers, Start(c) \/ Step(c),
         runs' \in Nat, runs <= runs'
  PROVE  /\ \A i \in DOMAIN pending' : pending'[i].run <= runs'
         /\ \A d \in Callers : held'[d] # <<>> => held'[d][1].run <= runs'
<1>0. /\ pending \in Seq(Writes) /\ runs \in Nat
      /\ held \in [Callers -> Seq(Writes)]
  BY DEF Data
<1>1. /\ pending \in Seq(Writes) /\ runs \in Nat
      /\ \A i \in DOMAIN pending : pending[i].run \in Nat
      /\ held \in [Callers -> Seq(Writes)]
  <2>1. \A i \in DOMAIN pending : pending[i] \in Writes
    BY <1>0
  <2>. QED
    BY <1>0, <2>1 DEF Writes
<1>2. \A d \in Callers : held[d] # <<>> => held[d][1].run \in Nat
  <2>. SUFFICES ASSUME NEW d \in Callers, held[d] # <<>>
                PROVE  held[d][1].run \in Nat
    OBVIOUS
  <2>1. held[d] \in Seq(Writes)
    BY <1>1
  <2>2. held[d][1] \in Writes
    BY <2>1
  <2>. QED
    BY <2>2 DEF Writes
<1>3. \A i \in DOMAIN pending' : pending'[i].run <= runs'
  <2>1. CASE UNCHANGED pending
    BY <1>1, <2>1 DEF Stamped
  <2>2. CASE pending # <<>> /\ pending' = Tail(pending)
    <3>1. /\ DOMAIN pending' = 1 .. Len(pending) - 1
          /\ DOMAIN pending = 1 .. Len(pending) /\ Len(pending) \in Nat
          /\ \A i \in 1 .. Len(pending) - 1 : pending'[i] = pending[i + 1]
      BY <1>1, <2>2
    <3>2. \A i \in DOMAIN pending' : i + 1 \in DOMAIN pending
      BY <3>1
    <3>. QED
      BY <1>1, <3>1, <3>2 DEF Stamped
  <2>3. CASE pc[c] = "writeQueue" /\ pending' = Append(pending, held[c][1])
    <3>1. held[c] # <<>>
      BY <2>3 DEF Carrying, HoldingPcs
    <3>2. held[c][1].run <= runs /\ held[c][1].run \in Nat
      BY <1>2, <3>1 DEF Stamped
    <3>3. held[c] \in Seq(Writes)
      BY <1>1
    <3>4. held[c][1] \in Writes
      BY <3>1, <3>3
    <3>5. /\ DOMAIN pending' = 1 .. Len(pending) + 1
          /\ DOMAIN pending = 1 .. Len(pending) /\ Len(pending) \in Nat
          /\ pending'[Len(pending) + 1] = held[c][1]
          /\ \A i \in 1 .. Len(pending) : pending'[i] = pending[i]
      BY <1>1, <2>3, <3>4
    <3>. QED
      BY <1>1, <3>2, <3>5 DEF Stamped
  <2>. QED
    BY <2>1, <2>2, <2>3, WritesMove
<1>4. \A d \in Callers : held'[d] # <<>> => held'[d][1].run <= runs'
  <2>1. CASE UNCHANGED held
    BY <1>1, <1>2, <2>1 DEF Stamped
  <2>2. CASE held' = [held EXCEPT ![c] = <<>>]
    BY <1>1, <1>2, <2>2 DEF Stamped
  <2>3. CASE pending # <<>> /\ held' = [held EXCEPT ![c] = <<Head(pending)>>]
    <3>1. Head(pending) = pending[1] /\ 1 \in DOMAIN pending
      BY <1>1, <2>3
    <3>2. pending[1].run <= runs /\ pending[1].run \in Nat
      BY <1>1, <3>1 DEF Stamped
    <3>3. held'[c][1] = pending[1]
      BY <1>1, <2>3, <3>1
    <3>4. \A d \in Callers \ {c} : held'[d] = held[d]
      BY <1>1, <2>3
    <3>. QED
      BY <1>1, <1>2, <3>2, <3>3, <3>4 DEF Stamped
  <2>4. CASE held' = [held EXCEPT ![c] = <<Write(made', runs)>>]
    <3>1. held'[c][1].run = runs
      BY <1>1, <2>4 DEF Write
    <3>2. \A d \in Callers \ {c} : held'[d] = held[d]
      BY <1>1, <2>4
    <3>. QED
      BY <1>1, <1>2, <3>1, <3>2 DEF Stamped
  <2>. QED
    BY <2>1, <2>2, <2>3, <2>4, WritesMove
<1>. QED
  BY <1>3, <1>4

\* A step that appends nothing and enters no run.
LEMMA OrderQuiet ==
  ASSUME ControlInv, OrderInv, NEW c \in Callers, NEW label \in Pcs,
         Goto(c, label), label \in RunPcs => pc[c] \in RunPcs,
         UNCHANGED <<session, runs>>
  PROVE  Ordered'
<1>1. \A d \in Callers : pc'[d] \in RunPcs => pc[d] \in RunPcs
  BY DEF ControlInv, Goto
<1>. QED
  BY <1>1 DEF OrderInv, StampedLog, Unflushed, QueuedAfterRun, Ordered

\* A step that appends an entry.
LEMMA OrderAppend ==
  ASSUME ControlInv, Data, OrderInv, NEW c \in Callers, NEW label \in Pcs,
         Goto(c, label), label \in RunPcs => pc[c] \in RunPcs,
         NEW e \in Entries, session' = Append(session, e), e.run <= runs,
         UNCHANGED runs,
         e.by \in {"run", "after"} => pc[c] \in RunPcs /\ e.run = runs,
         e.by = "queued" => Inside(c) /\ label \notin RunPcs
  PROVE  Ordered'
<1>1. /\ session \in Seq(Entries) /\ runs \in Nat
      /\ DOMAIN session' = 1 .. Len(session) + 1
      /\ DOMAIN session = 1 .. Len(session) /\ Len(session) \in Nat
      /\ session'[Len(session) + 1] = e
      /\ \A i \in 1 .. Len(session) : session'[i] = session[i]
  BY DEF Data
<1>2. \A d \in Callers : pc'[d] \in RunPcs =>
        /\ pc[d] \in RunPcs
        /\ e.by # "queued"
  <2>1. \A d \in Callers : pc'[d] \in RunPcs => pc[d] \in RunPcs
    BY DEF ControlInv, Goto
  <2>2. ASSUME e.by = "queued", NEW d \in Callers PROVE pc'[d] \notin RunPcs
    <3>1. CASE d = c
      BY <2>2, <3>1 DEF ControlInv, Goto
    <3>2. CASE d # c
      <4>1. pc[d] \notin PhasePcs
        BY <2>2, <3>2 DEF ControlInv, PhaseOwned, Inside
      <4>. QED
        BY <2>1, <4>1 DEF RunPcs, PhasePcs
    <3>. QED
      BY <3>1, <3>2
  <2>. QED
    BY <2>1, <2>2
<1>3. Unflushed'
  BY <1>1, <1>2 DEF OrderInv, Ordered, Unflushed
<1>4. QueuedAfterRun'
  <2>. SUFFICES ASSUME NEW i \in DOMAIN session', NEW j \in DOMAIN session',
                       i < j, session'[i].by = "queued",
                       session'[j].by \in {"run", "after"}
                PROVE  session'[i].run < session'[j].run
    BY DEF QueuedAfterRun
  <2>1. i \in 1 .. Len(session) /\ session'[i] = session[i]
    BY <1>1
  <2>2. CASE j \in 1 .. Len(session)
    BY <1>1, <2>1, <2>2 DEF OrderInv, Ordered, QueuedAfterRun
  <2>3. CASE j = Len(session) + 1
    BY <1>1, <2>1, <2>3 DEF OrderInv, Ordered, Unflushed
  <2>. QED
    BY <1>1, <2>2, <2>3
<1>5. StampedLog'
  BY <1>1 DEF OrderInv, Ordered, StampedLog
<1>. QED
  BY <1>3, <1>4, <1>5 DEF Ordered

\* A prompt that starts makes every entry one of an earlier run.
LEMMA OrderStart ==
  ASSUME ControlInv, Data, Carrying, OrderInv, NEW c \in Callers, Start(c)
  PROVE  OrderInv'
<1>. USE DEF RunPcs, PhasePcs, Pcs
<1>1. runs \in Nat
  BY DEF Data
<1>2. CASE StartPrompt(c) /\ Take("Turn")
  <2>1. /\ phase = "Idle" /\ runs' = runs + 1 /\ UNCHANGED session
        /\ Goto(c, "clearAbort")
    BY <1>2 DEF StartPrompt, Take, Free
  <2>2. session \in Seq(Entries)
    BY DEF Data
  <2>3. \A i \in DOMAIN session : session[i].run \in Nat
    <3>1. \A i \in DOMAIN session : session[i] \in Entries
      BY <2>2
    <3>. QED
      BY <3>1 DEF Entries
  <2>4. Ordered'
    BY <1>1, <2>1, <2>3
       DEF OrderInv, Ordered, StampedLog, Unflushed, QueuedAfterRun
  <2>5. Stamped'
    BY <1>1, <2>1, StampedWrites DEF OrderInv, Stamped
  <2>. QED
    BY <2>4, <2>5 DEF OrderInv
<1>3. CASE UNCHANGED runs
  <2>1. Stamped'
    BY <1>1, <1>3, StampedWrites DEF OrderInv, Stamped
  <2>2. UNCHANGED session
    BY DEF Start, StartPrompt, StartSummary, WriteCheck, EnqueueCheck,
           NextTurnMessage, Abort, Wait, shared
  <2>3. \/ UNCHANGED pc
        \/ \E label \in Pcs \ RunPcs : Goto(c, label)
    <3>1. CASE StartPrompt(c) \/ NextTurnMessage(c)
      BY <1>1, <1>3, <3>1 DEF StartPrompt, NextTurnMessage
    <3>2. CASE StartSummary(c)
      BY <3>2 DEF StartSummary, Flush
    <3>3. CASE WriteCheck(c)
      BY <3>3 DEF WriteCheck
    <3>4. CASE EnqueueCheck(c) \/ Abort(c) \/ Wait(c)
      BY <3>4 DEF EnqueueCheck, Abort, Wait
    <3>. QED
      BY <3>1, <3>2, <3>3, <3>4 DEF Start
  <2>4. Ordered'
    BY <1>3, <2>2, <2>3, OrderQuiet
       DEF OrderInv, Ordered, StampedLog, Unflushed, QueuedAfterRun
  <2>. QED
    BY <2>1, <2>4 DEF OrderInv
<1>. QED
  BY <1>2, <1>3
     DEF Start, StartPrompt, StartSummary, WriteCheck, EnqueueCheck,
         NextTurnMessage, Abort, Wait, runVars

\* Each step keeps the log in order: messages of the run are appended before
\* its writes are flushed, and by nobody else.
LEMMA OrderStep ==
  ASSUME ControlInv, Data, Carrying, OrderInv, NEW c \in Callers, Step(c)
  PROVE  OrderInv'
<1>. USE DEF RunPcs, PhasePcs, Pcs, Inside
<1>1. runs \in Nat
  BY DEF Data
<1>2. UNCHANGED runs
  BY DEF Step, FinishPhase, FinishNotify, WriteDirect, WriteQueue, FlushNext,
         FlushWrite, Enqueue, AbortQueues, ClearAbort, BuildContext, DrainNext,
         BeforeStart, Emit, Turn, Results, PrepareNext, Poll, RunEnd, After,
         SavePoint, Settled, Summarize, Commit, WaitCheck, WaitRegister, Awake,
         runVars
<1>3. Stamped'
  BY <1>1, <1>2, StampedWrites DEF OrderInv, Stamped
<1>4. ASSUME Persist(0) \/ (carried # <<>> /\ Persist(Head(carried))),
             NEW label \in Pcs, Goto(c, label), pc[c] \in RunPcs
      PROVE  Ordered'
  <2>1. CASE UNCHANGED session
    BY <1>2, <1>4, <2>1, OrderQuiet
  <2>2. ASSUME NEW item \in {0} \cup Items,
               session' = Append(session, Entry(item, "run", runs))
        PROVE  Ordered'
    <3>1. Entry(item, "run", runs) \in Entries
      BY <1>1, EntryType DEF Writers
    <3>2. /\ Entry(item, "run", runs).by = "run"
          /\ Entry(item, "run", runs).run = runs
      BY DEF Entry
    <3>. QED
      BY <1>1, <1>2, <1>4, <2>2, <3>1, <3>2, OrderAppend
  <2>3. carried # <<>> => Head(carried) \in Items
    BY DEF Data
  <2>. QED
    BY <1>4, <2>1, <2>2, <2>3 DEF Persist
<1>5. CASE Emit(c)
  <2>1. carried # <<>>
    BY <1>5 DEF Emit, Carrying, CarryingPcs
  <2>. QED
    BY <1>3, <1>4, <1>5, <2>1 DEF Emit, OrderInv
<1>6. CASE Turn(c)
  BY <1>3, <1>4, <1>6 DEF Turn, OrderInv
<1>7. CASE Results(c)
  BY <1>3, <1>4, <1>7 DEF Results, OrderInv
<1>8. ASSUME NEW item \in {0} \cup Items,
             NEW by \in {"direct", "summary", "after", "queued"},
             NEW run \in Nat, run <= runs, NEW label \in Pcs \ RunPcs,
             Goto(c, label),
             session' = Append(session, Entry(item, by, run)),
             by = "after" => pc[c] \in RunPcs /\ run = runs,
             by = "queued" => Inside(c)
      PROVE  Ordered'
  <2>1. Entry(item, by, run) \in Entries
    BY <1>1, EntryType DEF Writers
  <2>2. Entry(item, by, run).by = by /\ Entry(item, by, run).run = run
    BY DEF Entry
  <2>. QED
    BY <1>2, <1>8, <2>1, <2>2, OrderAppend
<1>9. CASE WriteDirect(c)
  <2>1. held[c] # <<>>
    BY <1>9 DEF WriteDirect, Carrying, HoldingPcs
  <2>2. held[c][1].item \in Items
    BY <2>1, HeldType
  <2>3. CASE UNCHANGED session
    BY <1>2, <1>3, <1>9, <2>3, OrderQuiet DEF WriteDirect, OrderInv
  <2>4. CASE session' = Append(session, Entry(held[c][1].item, "direct", runs))
    <3>1. Goto(c, "idle")
      BY <1>9 DEF WriteDirect
    <3>3. PICK item \in {0} \cup Items :
            session' = Append(session, Entry(item, "direct", runs))
      BY <2>2, <2>4
    <3>4. runs <= runs /\ "idle" \in Pcs \ RunPcs
      BY <1>1
    <3>2. Ordered'
      BY <1>1, <1>8, <3>1, <3>3, <3>4
    <3>. QED
      BY <1>3, <3>2 DEF OrderInv
  <2>. QED
    BY <1>9, <2>3, <2>4 DEF WriteDirect
<1>10. CASE FlushWrite(c)
  <2>1. held[c] # <<>>
    BY <1>10 DEF FlushWrite, Carrying, HoldingPcs
  <2>2. /\ held[c][1].item \in Items /\ held[c][1].run \in Nat
        /\ held[c][1].run <= runs
    BY <2>1, HeldType DEF OrderInv, Stamped
  <2>3. CASE UNCHANGED session
    <3>1. \E label \in {"flush", "flushBack"} : Goto(c, label)
      BY <1>10 DEF FlushWrite
    <3>. QED
      BY <1>2, <1>3, <2>3, <3>1, OrderQuiet DEF OrderInv
  <2>4. CASE session' = Append(session, Entry(held[c][1].item, "queued",
                                              held[c][1].run))
    <3>1. \E label \in {"flush", "flushBack"} : Goto(c, label)
      BY <1>10 DEF FlushWrite
    <3>2. Inside(c)
      BY <1>10 DEF FlushWrite
    <3>. QED
      BY <1>3, <1>8, <2>2, <2>4, <3>1, <3>2 DEF OrderInv
  <2>. QED
    BY <1>10, <2>3, <2>4 DEF FlushWrite
<1>11. CASE After(c)
  <2>1. CASE UNCHANGED session
    BY <1>2, <1>3, <1>11, <2>1, OrderQuiet DEF After, Flush, OrderInv
  <2>2. CASE session' = Append(session, Entry(0, "after", runs))
    BY <1>1, <1>3, <1>8, <1>11, <2>2 DEF After, Flush, OrderInv
  <2>. QED
    BY <1>11, <2>1, <2>2 DEF After
<1>12. CASE Commit(c)
  <2>1. CASE UNCHANGED session
    BY <1>2, <1>3, <1>12, <2>1, OrderQuiet DEF Commit, Flush, OrderInv
  <2>2. CASE session' = Append(session, Entry(0, "summary", runs))
    BY <1>1, <1>3, <1>8, <1>12, <2>2 DEF Commit, Flush, OrderInv
  <2>. QED
    BY <1>12, <2>1, <2>2 DEF Commit
<1>13. ASSUME NEW label \in Pcs, Goto(c, label),
              label \in RunPcs => pc[c] \in RunPcs, UNCHANGED session
       PROVE  OrderInv'
  BY <1>2, <1>3, <1>13, OrderQuiet DEF OrderInv
<1>14. CASE FinishPhase(c) \/ FinishNotify(c) \/ WriteQueue(c) \/ Enqueue(c)
  BY <1>13, <1>14 DEF FinishPhase, FinishNotify, WriteQueue, Enqueue, shared
<1>15. CASE FlushNext(c)
  <2>1. ret[c] \in FlushedPcs
    BY <1>15 DEF FlushNext, ControlInv, Returns, FlushPcs
  <2>. QED
    BY <1>13, <1>15, <2>1 DEF FlushNext, FlushedPcs
<1>16. CASE AbortQueues(c)
  <2>1. pc[c] = "abortFollowUp" => ret[c] \in {"idle", "waitCheck"}
    BY DEF ControlInv, Returns, AbortPcs
  <2>. QED
    BY <1>13, <1>16, <2>1 DEF AbortQueues
<1>17. CASE ClearAbort(c) \/ BuildContext(c) \/ DrainNext(c) \/ BeforeStart(c)
            \/ PrepareNext(c)
  BY <1>13, <1>17
     DEF ClearAbort, BuildContext, DrainNext, BeforeStart, PrepareNext, Flush,
         shared
<1>18. CASE Poll(c)
  <2>1. /\ UNCHANGED session /\ pc[c] \in RunPcs
        /\ \E label \in {"turn", "emit", "failTurn", "pollFollowUp",
                         "runEnd"} : Goto(c, label)
    BY <1>18 DEF Poll, NextTurn
  <2>. QED
    BY <1>13, <2>1
<1>19. CASE RunEnd(c) \/ SavePoint(c) \/ Settled(c) \/ Summarize(c)
  BY <1>13, <1>19 DEF RunEnd, SavePoint, Settled, Summarize, Flush, shared
<1>20. CASE WaitCheck(c) \/ WaitRegister(c) \/ Awake(c)
  BY <1>13, <1>20 DEF WaitCheck, WaitRegister, Awake, shared
<1>. QED
  BY <1>5, <1>6, <1>7, <1>9, <1>10, <1>11, <1>12, <1>14, <1>15, <1>16, <1>17,
     <1>18, <1>19, <1>20
     DEF Step

-----------------------------------------------------------------------------
\* A write queued while a run is in progress enters the session after the
\* messages of that run, whoever flushes it and however often it is flushed.
THEOREM WritesFollowTheRun == Spec => []QueuedAfterRun
<1>. DEFINE Inv == ControlInv /\ TypeInv /\ OrderInv
<1>1. Init => Inv
  BY ControlInit, TypesInit, OrderInit DEF TypeInv
<1>2. Inv /\ [Next]_vars => Inv'
  <2>. SUFFICES ASSUME Inv, [Next]_vars PROVE Inv'
    OBVIOUS
  <2>1. ControlInv' /\ TypeInv'
    BY ControlStep, TypeInvStep
  <2>2. CASE UNCHANGED vars
    BY <2>1, <2>2
       DEF OrderInv, Ordered, Stamped, StampedLog, Unflushed, QueuedAfterRun,
           vars, shared, runVars
  <2>3. CASE Next
    BY <2>1, <2>3, OrderStart, OrderStep DEF Next, TypeInv
  <2>. QED
    BY <2>2, <2>3
<1>3. Inv => QueuedAfterRun
  BY DEF OrderInv, Ordered
<1>. QED
  BY <1>1, <1>2, <1>3, PTL DEF Spec

-----------------------------------------------------------------------------
(* Every item is in one place: how often an item is found is counted over  *)
(* the places it may be in, and no step changes the sum, but the one that  *)
(* makes the item.  A call takes a write only with free hands, and a run   *)
(* asks for more only when it has emitted what it carried.                 *)

\* Places where a run has emitted all it carried.
AskingPcs ==
  {"initialPoll", "turn", "results", "turnEnd", "poll", "pollFollowUp"}

EmptyHanded == \A c \in Callers : pc[c] \notin HoldingPcs => held[c] = <<>>

Unloaded ==
  /\ phase = "Idle" => carried = <<>>
  /\ \A c \in Callers : pc[c] \in AskingPcs => carried = <<>>

PlaceInv == EmptyHanded /\ Unloaded /\ ItemsOnce

\* 1 when an item is the one that is counted.
One(item, x) == IF item = x THEN 1 ELSE 0

-----------------------------------------------------------------------------
\* An item occurs a natural number of times.
LEMMA CountType ==
  ASSUME NEW S, NEW s \in Seq(S), NEW x
  PROVE  /\ IsFiniteSet({k \in DOMAIN s : s[k] = x})
         /\ Count(s, x) \in Nat
<1>1. DOMAIN s = 1 .. Len(s) /\ Len(s) \in Nat
  OBVIOUS
<1>2. IsFiniteSet(DOMAIN s)
  BY <1>1, FS_Interval
<1>3. IsFiniteSet({k \in DOMAIN s : s[k] = x})
  BY <1>2, FS_Subset
<1>. QED
  BY <1>3, FS_CardinalityType DEF Count

\* Nothing occurs in an empty queue, and one thing in a queue of one.
LEMMA CountFew ==
  ASSUME NEW x, NEW y
  PROVE  Count(<<>>, x) = 0 /\ Count(<<y>>, x) = One(y, x)
<1>1. {k \in DOMAIN <<>> : <<>>[k] = x} = {}
  OBVIOUS
<1>2. {k \in DOMAIN <<y>> : <<y>>[k] = x} = IF y = x THEN {1} ELSE {}
  OBVIOUS
<1>3. Cardinality({}) = 0 /\ Cardinality({1}) = 1
  BY FS_EmptySet, FS_Singleton
<1>. QED
  BY <1>1, <1>2, <1>3 DEF Count, One

\* What follows keeps its number of occurrences.
LEMMA CountConcat ==
  ASSUME NEW S, NEW s \in Seq(S), NEW t \in Seq(S), NEW x
  PROVE  Count(s \o t, x) = Count(s, x) + Count(t, x)
<1>. DEFINE Here == {k \in DOMAIN s : s[k] = x}
            There == {k \in DOMAIN t : t[k] = x}
            move == [k \in There |-> k + Len(s)]
            Shifted == {k + Len(s) : k \in There}
<1>0. /\ Len(s) \in Nat /\ Len(t) \in Nat
      /\ DOMAIN s = 1 .. Len(s) /\ DOMAIN t = 1 .. Len(t)
  OBVIOUS
<1>1. {k \in DOMAIN (s \o t) : (s \o t)[k] = x} = Here \cup Shifted
  <2>1. /\ s \o t \in Seq(S)
        /\ Len(s \o t) = Len(s) + Len(t)
        /\ \A k \in 1 .. Len(s) + Len(t) :
             (s \o t)[k] = IF k <= Len(s) THEN s[k] ELSE t[k - Len(s)]
    BY ConcatProperties
  <2>2. DOMAIN (s \o t) = 1 .. Len(s) + Len(t)
    BY <2>1
  <2>3. ASSUME NEW k \in DOMAIN (s \o t), (s \o t)[k] = x
        PROVE  k \in Here \cup Shifted
    <3>1. CASE k <= Len(s)
      BY <1>0, <2>1, <2>2, <2>3, <3>1
    <3>2. CASE k > Len(s)
      <4>1. k - Len(s) \in There
        BY <1>0, <2>1, <2>2, <2>3, <3>2
      <4>2. k = (k - Len(s)) + Len(s)
        BY <1>0, <2>2
      <4>. QED
        BY <4>1, <4>2
    <3>. QED
      BY <1>0, <2>2, <3>1, <3>2
  <2>4. ASSUME NEW k \in Here PROVE k \in DOMAIN (s \o t) /\ (s \o t)[k] = x
    BY <1>0, <2>1, <2>2
  <2>5. ASSUME NEW k \in There
        PROVE  k + Len(s) \in DOMAIN (s \o t) /\ (s \o t)[k + Len(s)] = x
    <3>1. /\ k + Len(s) \in 1 .. Len(s) + Len(t)
          /\ ~(k + Len(s) <= Len(s))
          /\ (k + Len(s)) - Len(s) = k
      BY <1>0
    <3>. QED
      BY <2>1, <2>2, <3>1
  <2>. QED
    BY <2>3, <2>4, <2>5
<1>2. Here \cap Shifted = {}
  BY <1>0
<1>3. IsFiniteSet(Here) /\ IsFiniteSet(There)
  BY CountType
<1>4. IsFiniteSet(Shifted) /\ Cardinality(Shifted) = Cardinality(There)
  <2>1. move \in Bijection(There, Shifted)
    BY <1>0 DEF Bijection, Injection, Surjection, IsInjective
  <2>. QED
    BY <1>3, <2>1, FS_Bijection DEF ExistsBijection
<1>5. /\ Cardinality(Here) \in Nat /\ Cardinality(Shifted) \in Nat
      /\ Cardinality(Here \cup Shifted) = Cardinality(Here) + Cardinality(Shifted)
  <2>1. Cardinality(Here \cup Shifted)
          = Cardinality(Here) + Cardinality(Shifted) - Cardinality(Here \cap Shifted)
    BY <1>3, <1>4, FS_Union
  <2>2. Cardinality(Here \cap Shifted) = 0
    BY <1>2, FS_EmptySet
  <2>3. Cardinality(Here) \in Nat /\ Cardinality(Shifted) \in Nat
    BY <1>3, <1>4, FS_CardinalityType
  <2>. QED
    BY <2>1, <2>2, <2>3
<1>. QED
  BY <1>1, <1>4, <1>5 DEF Count

\* One more at the end.
LEMMA CountAppend ==
  ASSUME NEW S, NEW s \in Seq(S), NEW y \in S, NEW x
  PROVE  Count(Append(s, y), x) = Count(s, x) + One(y, x)
<1>1. <<y>> \in Seq(S) /\ Append(s, y) = s \o <<y>>
  OBVIOUS
<1>2. Count(s \o <<y>>, x) = Count(s, x) + Count(<<y>>, x)
  BY <1>1, CountConcat
<1>. QED
  BY <1>1, <1>2, CountFew

\* One less at the front.
LEMMA CountTail ==
  ASSUME NEW S, NEW s \in Seq(S), s # <<>>, NEW x
  PROVE  Count(s, x) = Count(Tail(s), x) + One(Head(s), x)
<1>0. Head(s) \in S
  OBVIOUS
<1>1. <<Head(s)>> \in Seq(S) /\ Tail(s) \in Seq(S)
  BY <1>0
<1>4. s = <<Head(s)>> \o Tail(s)
  OBVIOUS
<1>5. Count(Tail(s), x) \in Nat /\ Count(<<Head(s)>>, x) \in Nat
  BY <1>1, CountType
<1>6. Count(<<Head(s)>> \o Tail(s), x)
        = Count(<<Head(s)>>, x) + Count(Tail(s), x)
  BY <1>1, CountConcat
<1>2. Count(s, x) = Count(<<Head(s)>>, x) + Count(Tail(s), x)
  BY <1>4, <1>6
<1>3. Count(<<Head(s)>>, x) = One(Head(s), x)
  BY CountFew
<1>. QED
  BY <1>2, <1>3, <1>5

\* A queue cut in two.
LEMMA CountCut ==
  ASSUME NEW S, NEW s \in Seq(S), NEW k \in 0 .. Len(s), NEW x
  PROVE  /\ SubSeq(s, 1, k) \in Seq(S) /\ SubSeq(s, k + 1, Len(s)) \in Seq(S)
         /\ Count(s, x) = Count(SubSeq(s, 1, k), x)
                          + Count(SubSeq(s, k + 1, Len(s)), x)
<1>. DEFINE front == SubSeq(s, 1, k)
            back == SubSeq(s, k + 1, Len(s))
<1>0. Len(s) \in Nat /\ k \in Nat /\ k <= Len(s)
  OBVIOUS
<1>1. /\ front \in Seq(S) /\ Len(front) = k
      /\ \A i \in 1 .. k : front[i] = s[i]
  BY <1>0
<1>2. /\ back \in Seq(S) /\ Len(back) = Len(s) - k
      /\ \A i \in 1 .. Len(s) - k : back[i] = s[k + i]
  BY <1>0
<1>3. /\ front \o back \in Seq(S) /\ Len(front \o back) = Len(s)
      /\ \A i \in 1 .. Len(s) : (front \o back)[i] = s[i]
  <2>. HIDE DEF front, back
  <2>1. /\ front \o back \in Seq(S)
        /\ Len(front \o back) = Len(front) + Len(back)
        /\ \A i \in 1 .. Len(front) + Len(back) :
             (front \o back)[i] =
               IF i <= Len(front) THEN front[i] ELSE back[i - Len(front)]
    BY <1>1, <1>2, ConcatProperties
  <2>2. ASSUME NEW i \in 1 .. Len(s) PROVE (front \o back)[i] = s[i]
    <3>1. CASE i <= k
      BY <1>0, <1>1, <1>2, <2>1, <3>1
    <3>2. CASE i > k
      <4>1. i - k \in 1 .. Len(s) - k /\ k + (i - k) = i /\ ~(i <= k)
        BY <1>0, <3>2
      <4>. QED
        BY <1>0, <1>1, <1>2, <2>1, <4>1
    <3>3. i <= k \/ i > k
      BY <1>0
    <3>. QED
      BY <3>1, <3>2, <3>3
  <2>. QED
    BY <1>0, <1>1, <1>2, <2>1, <2>2
<1>4. s = front \o back
  <2>. HIDE DEF front, back
  <2>. QED
    BY <1>3, SeqEqual
<1>5. Count(front \o back, x) = Count(front, x) + Count(back, x)
  BY <1>1, <1>2, CountConcat
<1>. QED
  BY <1>1, <1>2, <1>4, <1>5

-----------------------------------------------------------------------------
\* The items of a log are its entries', in the same order.
LEMMA ItemsConcat ==
  ASSUME NEW log \in Seq(Entries), NEW e \in Entries
  PROVE  /\ ItemsOf(log) \in Seq({0} \cup Items)
         /\ e.item \in {0} \cup Items
         /\ ItemsOf(Append(log, e)) = Append(ItemsOf(log), e.item)
<1>1. /\ DOMAIN log = 1 .. Len(log) /\ Len(log) \in Nat
      /\ \A k \in DOMAIN log : log[k] \in Entries
  OBVIOUS
<1>2. \A f \in Entries : f.item \in {0} \cup Items
  BY DEF Entries
<1>3. ItemsOf(log) \in Seq({0} \cup Items)
  BY <1>1, <1>2 DEF ItemsOf
<1>4. /\ DOMAIN Append(log, e) = 1 .. Len(log) + 1
      /\ Append(log, e)[Len(log) + 1] = e
      /\ \A k \in 1 .. Len(log) : Append(log, e)[k] = log[k]
  OBVIOUS
<1>5. /\ Len(ItemsOf(log)) = Len(log)
      /\ \A k \in 1 .. Len(log) : ItemsOf(log)[k] = log[k].item
  BY <1>1 DEF ItemsOf
<1>6. ItemsOf(Append(log, e)) = Append(ItemsOf(log), e.item)
  <2>1. ItemsOf(Append(log, e)) = [k \in 1 .. Len(log) + 1 |-> Append(log, e)[k].item]
    BY <1>4 DEF ItemsOf
  <2>2. Append(ItemsOf(log), e.item)
          = [k \in 1 .. Len(log) + 1 |->
               IF k = Len(log) + 1 THEN e.item ELSE ItemsOf(log)[k]]
    BY <1>1, <1>3, <1>5
  <2>3. \A k \in 1 .. Len(log) + 1 :
          Append(log, e)[k].item =
            IF k = Len(log) + 1 THEN e.item ELSE ItemsOf(log)[k]
    BY <1>1, <1>4, <1>5
  <2>. QED
    BY <2>1, <2>2, <2>3
<1>. QED
  BY <1>2, <1>3, <1>6

\* The same of the pending writes, which are taken from the front.
LEMMA ItemsWrites ==
  ASSUME NEW log \in Seq(Writes), NEW w \in Writes
  PROVE  /\ ItemsOf(log) \in Seq(Items)
         /\ ItemsOf(Append(log, w)) = Append(ItemsOf(log), w.item)
         /\ log # <<>> => /\ ItemsOf(log) # <<>>
                          /\ ItemsOf(Tail(log)) = Tail(ItemsOf(log))
                          /\ Head(ItemsOf(log)) = Head(log).item
<1>1. /\ DOMAIN log = 1 .. Len(log) /\ Len(log) \in Nat
      /\ \A k \in DOMAIN log : log[k] \in Writes
  OBVIOUS
<1>2. \A f \in Writes : f.item \in Items
  BY DEF Writes
<1>3. ItemsOf(log) \in Seq(Items)
  BY <1>1, <1>2 DEF ItemsOf
<1>4. /\ DOMAIN Append(log, w) = 1 .. Len(log) + 1
      /\ Append(log, w)[Len(log) + 1] = w
      /\ \A k \in 1 .. Len(log) : Append(log, w)[k] = log[k]
  OBVIOUS
<1>5. /\ Len(ItemsOf(log)) = Len(log)
      /\ \A k \in 1 .. Len(log) : ItemsOf(log)[k] = log[k].item
  BY <1>1 DEF ItemsOf
<1>6. ItemsOf(Append(log, w)) = Append(ItemsOf(log), w.item)
  <2>1. ItemsOf(Append(log, w)) = [k \in 1 .. Len(log) + 1 |-> Append(log, w)[k].item]
    BY <1>4 DEF ItemsOf
  <2>2. Append(ItemsOf(log), w.item)
          = [k \in 1 .. Len(log) + 1 |->
               IF k = Len(log) + 1 THEN w.item ELSE ItemsOf(log)[k]]
    BY <1>1, <1>3, <1>5
  <2>3. \A k \in 1 .. Len(log) + 1 :
          Append(log, w)[k].item =
            IF k = Len(log) + 1 THEN w.item ELSE ItemsOf(log)[k]
    BY <1>1, <1>4, <1>5
  <2>. QED
    BY <2>1, <2>2, <2>3
<1>7. ASSUME log # <<>>
      PROVE  /\ ItemsOf(log) # <<>>
             /\ ItemsOf(Tail(log)) = Tail(ItemsOf(log))
             /\ Head(ItemsOf(log)) = Head(log).item
  <2>1. /\ Len(log) >= 1 /\ Head(log) = log[1]
        /\ DOMAIN Tail(log) = 1 .. Len(log) - 1
        /\ \A k \in 1 .. Len(log) - 1 : Tail(log)[k] = log[k + 1]
    BY <1>7, <1>1
  <2>2. ItemsOf(log) # <<>> /\ Head(ItemsOf(log)) = Head(log).item
    BY <1>1, <1>3, <1>5, <2>1
  <2>3. ItemsOf(Tail(log)) = [k \in 1 .. Len(log) - 1 |-> Tail(log)[k].item]
    BY <2>1 DEF ItemsOf
  <2>4. Tail(ItemsOf(log)) = [k \in 1 .. Len(log) - 1 |-> ItemsOf(log)[k + 1]]
    <3>. DEFINE t == ItemsOf(log)
    <3>1. t \in Seq(Items) /\ t # <<>> /\ Len(t) = Len(log)
      BY <1>3, <1>5, <2>2
    <3>. HIDE DEF t
    <3>2. /\ Tail(t) \in Seq(Items) /\ Len(Tail(t)) = Len(t) - 1
          /\ \A k \in 1 .. Len(t) - 1 : Tail(t)[k] = t[k + 1]
      BY <3>1
    <3>. DEFINE r == [k \in 1 .. Len(log) - 1 |-> t[k + 1]]
    <3>3. /\ r \in Seq(Items) /\ Len(r) = Len(log) - 1
          /\ \A k \in 1 .. Len(log) - 1 : r[k] = t[k + 1]
      <4>1. \A k \in 1 .. Len(log) - 1 : t[k + 1] \in Items
        BY <1>1, <3>1
      <4>2. Len(log) - 1 \in Nat
        BY <1>1, <2>1
      <4>. QED
        BY <4>1, <4>2
    <3>. HIDE DEF r
    <3>4. Tail(t) = r
      BY <3>1, <3>2, <3>3, SeqEqual
    <3>. USE DEF r
    <3>. QED
      BY <3>4 DEF t
  <2>5. \A k \in 1 .. Len(log) - 1 : Tail(log)[k].item = ItemsOf(log)[k + 1]
    BY <1>1, <1>5, <2>1
  <2>. QED
    BY <2>2, <2>3, <2>4, <2>5
<1>. QED
  BY <1>3, <1>6, <1>7

-----------------------------------------------------------------------------
\* Every place holds a natural number of an item.
LEMMA PlacesTyped ==
  ASSUME Data, NEW x
  PROVE  /\ \A name \in QueueNames : Count(queues[name], x) \in Nat
         /\ Count(carried, x) \in Nat
         /\ Count(ItemsOf(pending), x) \in Nat
         /\ Count(refused, x) \in Nat
         /\ Count(ItemsOf(session), x) \in Nat
         /\ IsFiniteSet(Holders(x)) /\ Cardinality(Holders(x)) \in Nat
<1>1. \A name \in QueueNames : Count(queues[name], x) \in Nat
  BY CountType DEF Data
<1>2. Count(carried, x) \in Nat /\ Count(refused, x) \in Nat
  BY CountType DEF Data
<1>3. Count(ItemsOf(pending), x) \in Nat
  <2>1. /\ DOMAIN pending = 1 .. Len(pending) /\ Len(pending) \in Nat
        /\ \A k \in DOMAIN pending : pending[k] \in Writes
    BY DEF Data
  <2>2. \A k \in DOMAIN pending : pending[k].item \in Items
    BY <2>1 DEF Writes
  <2>3. ItemsOf(pending) \in Seq(Items)
    BY <2>1, <2>2 DEF ItemsOf
  <2>. QED
    BY <2>3, CountType
<1>4. Count(ItemsOf(session), x) \in Nat
  <2>1. /\ DOMAIN session = 1 .. Len(session) /\ Len(session) \in Nat
        /\ \A k \in DOMAIN session : session[k] \in Entries
    BY DEF Data
  <2>2. \A k \in DOMAIN session : session[k].item \in {0} \cup Items
    BY <2>1 DEF Entries
  <2>3. ItemsOf(session) \in Seq({0} \cup Items)
    BY <2>1, <2>2 DEF ItemsOf
  <2>. QED
    BY <2>3, CountType
<1>5. IsFiniteSet(Holders(x)) /\ Cardinality(Holders(x)) \in Nat
  <2>1. Holders(x) \in SUBSET Callers
    BY DEF Holders
  <2>2. IsFiniteSet(Holders(x))
    BY <2>1, HarnessAssumption, FS_Subset
  <2>. QED
    BY <2>2, FS_CardinalityType
<1>. QED
  BY <1>1, <1>2, <1>3, <1>4, <1>5

\* A call with free hands takes a write.
LEMMA HoldersTake ==
  ASSUME Data, NEW c \in Callers, held[c] = <<>>, NEW w \in Writes,
         held' = [held EXCEPT ![c] = <<w>>], NEW x
  PROVE  Cardinality(Holders(x)') = Cardinality(Holders(x)) + One(w.item, x)
<1>1. held \in [Callers -> Seq(Writes)]
  BY DEF Data
<1>2. held'[c] = <<w>> /\ <<w>> # <<>> /\ <<w>>[1] = w
  BY <1>1
<1>3. \A d \in Callers \ {c} : held'[d] = held[d]
  BY <1>1
<1>4. c \notin Holders(x)
  BY DEF Holders
<1>5. Holders(x)' = IF w.item = x THEN Holders(x) \cup {c} ELSE Holders(x)
  <2>1. c \in Holders(x)' <=> w.item = x
    BY <1>2 DEF Holders
  <2>2. \A d \in Callers \ {c} : d \in Holders(x)' <=> d \in Holders(x)
    BY <1>3 DEF Holders
  <2>3. Holders(x) \subseteq Callers /\ Holders(x)' \subseteq Callers
    BY DEF Holders
  <2>. QED
    BY <1>4, <2>1, <2>2, <2>3
<1>6. IsFiniteSet(Holders(x)) /\ Cardinality(Holders(x)) \in Nat
  BY PlacesTyped
<1>7. Cardinality(Holders(x) \cup {c}) = Cardinality(Holders(x)) + 1
  BY <1>4, <1>6, FS_AddElement
<1>. QED
  BY <1>5, <1>6, <1>7 DEF One

\* A call hands its write on.
LEMMA HoldersDrop ==
  ASSUME Data, NEW c \in Callers, held[c] # <<>>, Drop(c), NEW x
  PROVE  /\ Cardinality(Holders(x)') \in Nat
         /\ Cardinality(Holders(x))
              = Cardinality(Holders(x)') + One(held[c][1].item, x)
<1>1. held \in [Callers -> Seq(Writes)]
  BY DEF Data
<1>2. held'[c] = <<>> /\ \A d \in Callers \ {c} : held'[d] = held[d]
  BY <1>1 DEF Drop
<1>3. Holders(x)' = Holders(x) \ {c}
  BY <1>2 DEF Holders
<1>4. c \in Holders(x) <=> held[c][1].item = x
  BY DEF Holders
<1>5. IsFiniteSet(Holders(x)) /\ Cardinality(Holders(x)) \in Nat
  BY PlacesTyped
<1>6. /\ IsFiniteSet(Holders(x) \ {c})
      /\ Cardinality(Holders(x) \ {c}) =
           IF c \in Holders(x) THEN Cardinality(Holders(x)) - 1
                               ELSE Cardinality(Holders(x))
  BY <1>5, FS_RemoveElement
<1>7. Cardinality(Holders(x) \ {c}) \in Nat
  BY <1>6, FS_CardinalityType
<1>. QED
  BY <1>3, <1>4, <1>5, <1>6, <1>7 DEF One

\* A message enters a queue.
LEMMA QueueCount ==
  ASSUME Data, NEW name \in QueueNames, NEW item \in Items,
         Queue(name, item), NEW x
  PROVE  \A n \in QueueNames :
           Count(queues'[n], x) =
             Count(queues[n], x) + (IF n = name THEN One(item, x) ELSE 0)
<1>1. queues \in [QueueNames -> Seq(Items)]
  BY DEF Data
<1>2. queues'[name] = Append(queues[name], item)
  BY <1>1 DEF Queue
<1>3. \A n \in QueueNames \ {name} : queues'[n] = queues[n]
  BY <1>1 DEF Queue
<1>4. Count(queues'[name], x) = Count(queues[name], x) + One(item, x)
  BY <1>1, <1>2, CountAppend
<1>5. \A n \in QueueNames : Count(queues[n], x) \in Nat
  BY PlacesTyped
<1>. QED
  BY <1>3, <1>4, <1>5

\* A queue is emptied.
LEMMA ClearCount ==
  ASSUME Data, NEW name \in QueueNames, Clear(name), NEW x
  PROVE  \A n \in QueueNames :
           Count(queues'[n], x) = IF n = name THEN 0 ELSE Count(queues[n], x)
<1>1. queues \in [QueueNames -> Seq(Items)]
  BY DEF Data
<1>2. queues'[name] = <<>> /\ \A n \in QueueNames \ {name} : queues'[n] = queues[n]
  BY <1>1 DEF Clear
<1>. QED
  BY <1>2, CountFew

\* The front of a queue is taken.
LEMMA DrainCount ==
  ASSUME Data, NEW name \in QueueNames, NEW k \in 0 .. Len(queues[name]),
         Drain(name, k), NEW x
  PROVE  /\ \A n \in QueueNames \ {name} : queues'[n] = queues[n]
         /\ SubSeq(queues[name], 1, k) \in Seq(Items)
         /\ Count(queues'[name], x) \in Nat
         /\ Count(SubSeq(queues[name], 1, k), x) \in Nat
         /\ Count(queues[name], x) =
              Count(SubSeq(queues[name], 1, k), x) + Count(queues'[name], x)
<1>1. queues \in [QueueNames -> Seq(Items)] /\ queues[name] \in Seq(Items)
  BY DEF Data
<1>2. queues'[name] = SubSeq(queues[name], k + 1, Len(queues[name]))
  BY <1>1 DEF Drain
<1>3. \A n \in QueueNames \ {name} : queues'[n] = queues[n]
  BY <1>1 DEF Drain
<1>4. /\ SubSeq(queues[name], 1, k) \in Seq(Items)
      /\ queues'[name] \in Seq(Items)
      /\ Count(queues[name], x) =
           Count(SubSeq(queues[name], 1, k), x) + Count(queues'[name], x)
  BY <1>1, <1>2, CountCut
<1>. QED
  BY <1>3, <1>4, CountType

\* An entry enters the session.
LEMMA SessionCount ==
  ASSUME Data, NEW e \in Entries, session' = Append(session, e), NEW x
  PROVE  Count(ItemsOf(session'), x) =
           Count(ItemsOf(session), x) + One(e.item, x)
<1>1. session \in Seq(Entries)
  BY DEF Data
<1>2. /\ ItemsOf(session) \in Seq({0} \cup Items)
      /\ e.item \in {0} \cup Items
      /\ ItemsOf(session') = Append(ItemsOf(session), e.item)
  BY <1>1, ItemsConcat
<1>. QED
  BY <1>2, CountAppend

\* A message that is emitted enters the session or is lost with an error.
LEMMA PersistCount ==
  ASSUME Data, NEW item \in {0} \cup Items, Persist(item), NEW x \in Items
  PROVE  /\ Count(refused', x) \in Nat
         /\ Count(ItemsOf(session'), x) \in Nat
         /\ Count(refused', x) + Count(ItemsOf(session'), x) =
              Count(refused, x) + Count(ItemsOf(session), x) + One(item, x)
<1>1. runs \in Nat /\ refused \in Seq(Items)
  BY DEF Data
<1>2. Count(refused, x) \in Nat /\ Count(ItemsOf(session), x) \in Nat
  BY PlacesTyped
<1>3. x # 0
  BY DEF Items
<1>4. CASE /\ session' = Append(session, Entry(item, "run", runs))
           /\ UNCHANGED refused
  <2>1. Entry(item, "run", runs) \in Entries /\ Entry(item, "run", runs).item = item
    BY <1>1, EntryType DEF Writers, Entry
  <2>2. Count(ItemsOf(session'), x) = Count(ItemsOf(session), x) + One(item, x)
    BY <1>4, <2>1, SessionCount
  <2>. QED
    BY <1>2, <1>4, <2>2 DEF One
<1>5. CASE /\ refused' = IF item = 0 THEN refused ELSE Append(refused, item)
           /\ UNCHANGED session
  <2>1. CASE item = 0
    BY <1>2, <1>3, <1>5, <2>1 DEF One
  <2>2. CASE item # 0
    <3>1. Count(refused', x) = Count(refused, x) + One(item, x)
      BY <1>1, <1>5, <2>2, CountAppend
    <3>. QED
      BY <1>2, <1>5, <3>1 DEF One
  <2>. QED
    BY <2>1, <2>2
<1>. QED
  BY <1>4, <1>5 DEF Persist

-----------------------------------------------------------------------------
\* A step finds every item as often after it as before, but for the item that
\* it makes, which it finds once more.
Conserves(x) ==
  Copies(x)' = Copies(x) + (IF made' = made THEN 0 ELSE One(made', x))

\* A step that moves nothing.
LEMMA ConserveQuiet ==
  ASSUME Data, NEW x,
         UNCHANGED <<queues, carried, pending, refused, session, held, made>>
  PROVE  Conserves(x)
<1>1. Copies(x)' = Copies(x)
  BY DEF Copies, Holders
<1>2. Copies(x) \in Nat
  BY PlacesTyped DEF Copies, QueueNames
<1>. QED
  BY <1>1, <1>2 DEF Conserves

\* A call makes at most one item and puts it in one place.
LEMMA ConserveStart ==
  ASSUME Data, EmptyHanded, Unloaded, NEW c \in Callers, Start(c),
         NEW x \in Items
  PROVE  Conserves(x)
<1>. DEFINE Made == made' = made + 1 /\ made < MaxItems
<1>t. /\ Count(queues.steering, x) \in Nat /\ Count(queues.followUp, x) \in Nat
      /\ Count(queues.nextTurn, x) \in Nat /\ Count(carried, x) \in Nat
      /\ Count(ItemsOf(pending), x) \in Nat /\ Count(refused, x) \in Nat
      /\ Count(ItemsOf(session), x) \in Nat /\ Cardinality(Holders(x)) \in Nat
  BY PlacesTyped DEF QueueNames
<1>m. ASSUME Made PROVE made' # made /\ made' \in Items /\ One(made', x) \in Nat
  BY <1>m, HarnessAssumption DEF Data, Items, One
<1>h. pc[c] = "idle" => held[c] = <<>>
  BY DEF EmptyHanded, HoldingPcs
<1>1. CASE StartPrompt(c)
  <2>1. Made
    BY <1>1 DEF StartPrompt, Make
  <2>1h. UNCHANGED <<queues, pending, session>> /\ Holders(x)' = Holders(x)
    BY <1>1 DEF StartPrompt, Holders
  <2>2. CASE /\ phase = "Idle" /\ carried' = <<made'>>
             /\ UNCHANGED refused
    <3>1. Count(carried, x) = 0 /\ Count(carried', x) = One(made', x)
      BY <2>2, CountFew DEF Unloaded
    <3>. QED
      BY <1>t, <1>m, <2>1, <2>1h, <2>2, <3>1 DEF Conserves, Copies
  <2>3. CASE refused' = Append(refused, made') /\ UNCHANGED carried
    <3>1. Count(refused', x) = Count(refused, x) + One(made', x)
      BY <1>m, <2>1, <2>3, CountAppend DEF Data
    <3>2. made' # made /\ One(made', x) \in Nat
      BY <1>m, <2>1
    <3>3. /\ Count(queues'.steering, x) = Count(queues.steering, x)
          /\ Count(queues'.followUp, x) = Count(queues.followUp, x)
          /\ Count(queues'.nextTurn, x) = Count(queues.nextTurn, x)
          /\ Count(carried', x) = Count(carried, x)
          /\ Count(ItemsOf(pending'), x) = Count(ItemsOf(pending), x)
          /\ Count(ItemsOf(session'), x) = Count(ItemsOf(session), x)
      BY <2>1h, <2>3
    <3>. QED
      BY <1>t, <2>1h, <3>1, <3>2, <3>3 DEF Conserves, Copies
  <2>. QED
    BY <1>1, <2>2, <2>3 DEF StartPrompt, Take, Free
<1>2. CASE StartSummary(c)
  BY <1>2, ConserveQuiet DEF StartSummary, runVars
<1>3. CASE WriteCheck(c) \/ EnqueueCheck(c)
  <2>1. Made /\ held' = [held EXCEPT ![c] = <<Write(made', runs)>>]
    BY <1>3 DEF WriteCheck, EnqueueCheck, Make
  <2>2. pc[c] = "idle"
    BY <1>3 DEF WriteCheck, EnqueueCheck, Call
  <2>3. Write(made', runs) \in Writes /\ Write(made', runs).item = made'
    BY <1>m, <2>1 DEF Write, Writes, Data
  <2>4. Cardinality(Holders(x)') = Cardinality(Holders(x)) + One(made', x)
    BY <1>h, <2>1, <2>2, <2>3, HoldersTake
  <2>5. UNCHANGED <<queues, carried, pending, refused, session>>
    BY <1>3 DEF WriteCheck, EnqueueCheck, shared, runVars
  <2>. QED
    BY <1>t, <1>m, <2>1, <2>4, <2>5 DEF Conserves, Copies
<1>4. CASE NextTurnMessage(c)
  <2>1. Made /\ Queue("nextTurn", made')
    BY <1>4 DEF NextTurnMessage, Make
  <2>2. /\ Count(queues'.nextTurn, x) = Count(queues.nextTurn, x) + One(made', x)
        /\ Count(queues'.steering, x) = Count(queues.steering, x)
        /\ Count(queues'.followUp, x) = Count(queues.followUp, x)
    BY <1>t, <1>m, <2>1, QueueCount DEF QueueNames
  <2>3. UNCHANGED <<held, carried, pending, refused, session>>
    BY <1>4 DEF NextTurnMessage, runVars
  <2>4. Holders(x)' = Holders(x)
    BY <2>3 DEF Holders
  <2>. QED
    BY <1>t, <1>m, <2>1, <2>2, <2>3, <2>4 DEF Conserves, Copies
<1>5. CASE Abort(c)
  BY <1>5, ConserveQuiet DEF Abort, runVars
<1>6. CASE Wait(c)
  BY <1>6, ConserveQuiet DEF Wait, shared, runVars
<1>. QED
  BY <1>1, <1>2, <1>3, <1>4, <1>5, <1>6 DEF Start

\* A step moves items and neither loses nor doubles one.
LEMMA ConserveStep ==
  ASSUME Data, Carrying, EmptyHanded, Unloaded, NEW c \in Callers, Step(c),
         NEW x \in Items
  PROVE  Conserves(x)
<1>t. /\ Count(queues.steering, x) \in Nat /\ Count(queues.followUp, x) \in Nat
      /\ Count(queues.nextTurn, x) \in Nat /\ Count(carried, x) \in Nat
      /\ Count(ItemsOf(pending), x) \in Nat /\ Count(refused, x) \in Nat
      /\ Count(ItemsOf(session), x) \in Nat /\ Cardinality(Holders(x)) \in Nat
  BY PlacesTyped DEF QueueNames
<1>d. /\ pending \in Seq(Writes) /\ session \in Seq(Entries)
      /\ queues \in [QueueNames -> Seq(Items)]
      /\ queues.steering \in Seq(Items) /\ queues.followUp \in Seq(Items)
      /\ queues.nextTurn \in Seq(Items)
      /\ carried \in Seq(Items) /\ refused \in Seq(Items)
      /\ runs \in Nat
  BY DEF Data, QueueNames
<1>h. ASSUME pc[c] \in HoldingPcs
      PROVE  /\ held[c] # <<>> /\ held[c][1] \in Writes
             /\ held[c][1].item \in Items /\ held[c][1].run \in Nat
             /\ One(held[c][1].item, x) \in Nat
  BY <1>h, HeldType DEF Carrying, One
<1>k. ASSUME pc[c] \in HoldingPcs, Drop(c)
      PROVE  /\ Cardinality(Holders(x)') \in Nat
             /\ Cardinality(Holders(x))
                  = Cardinality(Holders(x)') + One(held[c][1].item, x)
  BY <1>h, <1>k, HoldersDrop
<1>e. \A item \in {0} \cup Items, by \in Writers, run \in Nat :
        Entry(item, by, run) \in Entries /\ Entry(item, by, run).item = item
  BY EntryType DEF Entry
<1>o. \A y : One(y, x) \in Nat
  BY DEF One
<1>z. One(0, x) = 0
  BY DEF One, Items
<1>g. ASSUME pc[c] \in HoldingPcs, Drop(c),
             UNCHANGED made,
             Count(queues.steering, x)' + Count(queues.followUp, x)'
               + Count(queues.nextTurn, x)' + Count(carried, x)'
               + Count(ItemsOf(pending), x)' + Count(refused, x)'
               + Count(ItemsOf(session), x)'
             = Count(queues.steering, x) + Count(queues.followUp, x)
               + Count(queues.nextTurn, x) + Count(carried, x)
               + Count(ItemsOf(pending), x) + Count(refused, x)
               + Count(ItemsOf(session), x) + One(held[c][1].item, x)
      PROVE  Conserves(x)
  <2>1. /\ Cardinality(Holders(x)') \in Nat
        /\ Cardinality(Holders(x))
             = Cardinality(Holders(x)') + One(held[c][1].item, x)
        /\ One(held[c][1].item, x) \in Nat
    BY <1>g, <1>h, <1>k
  <2>. QED
    BY <1>t, <1>g, <2>1 DEF Conserves, Copies
<1>s. ASSUME UNCHANGED <<held, made>>,
             Count(queues.steering, x)' + Count(queues.followUp, x)'
               + Count(queues.nextTurn, x)' + Count(carried, x)'
               + Count(ItemsOf(pending), x)' + Count(refused, x)'
               + Count(ItemsOf(session), x)'
             = Count(queues.steering, x) + Count(queues.followUp, x)
               + Count(queues.nextTurn, x) + Count(carried, x)
               + Count(ItemsOf(pending), x) + Count(refused, x)
               + Count(ItemsOf(session), x)
      PROVE  Conserves(x)
  <2>1. Holders(x)' = Holders(x)
    BY <1>s DEF Holders
  <2>. QED
    BY <1>t, <1>s, <2>1 DEF Conserves, Copies
<1>1. CASE FinishPhase(c)
  <2>1. /\ refused' = refused \o carried /\ carried' = <<>>
        /\ UNCHANGED <<queues, pending, session, held, made>>
    BY <1>1 DEF FinishPhase
  <2>2. Count(refused', x) = Count(refused, x) + Count(carried, x)
    BY <1>d, <2>1, CountConcat
  <2>3. Count(carried', x) = 0
    BY <2>1, CountFew
  <2>. QED
    BY <1>t, <1>s, <2>1, <2>2, <2>3
<1>2. CASE FinishNotify(c) \/ WaitCheck(c) \/ WaitRegister(c) \/ Awake(c)
  BY <1>2, ConserveQuiet
     DEF FinishNotify, WaitCheck, WaitRegister, Awake, shared, runVars, history
<1>3. CASE WriteDirect(c)
  <2>1. pc[c] \in HoldingPcs /\ Drop(c)
    BY <1>3 DEF WriteDirect, HoldingPcs
  <2>2. UNCHANGED <<queues, pending, carried, made>>
    BY <1>3 DEF WriteDirect, runVars
  <2>3. CASE /\ session' = Append(session, Entry(held[c][1].item, "direct", runs))
             /\ UNCHANGED refused
    <3>e. /\ Entry(held[c][1].item, "direct", runs) \in Entries
          /\ Entry(held[c][1].item, "direct", runs).item = held[c][1].item
      BY <1>d, <1>e, <1>h, <2>1 DEF Writers
    <3>1. Count(ItemsOf(session'), x) =
            Count(ItemsOf(session), x) + One(held[c][1].item, x)
      BY <2>3, <3>e, SessionCount
    <3>. QED
      BY <1>t, <1>g, <1>o, <2>1, <2>2, <2>3, <3>1, SMTT(40)
  <2>4. CASE /\ refused' = Append(refused, held[c][1].item)
             /\ UNCHANGED session
    <3>1. Count(refused', x) = Count(refused, x) + One(held[c][1].item, x)
      BY <1>d, <1>h, <2>1, <2>4, CountAppend
    <3>. QED
      BY <1>t, <1>g, <1>o, <2>1, <2>2, <2>4, <3>1, SMTT(40)
  <2>. QED
    BY <1>3, <2>3, <2>4 DEF WriteDirect
<1>4. CASE WriteQueue(c)
  <2>1. /\ pc[c] \in HoldingPcs /\ Drop(c)
        /\ pending' = Append(pending, held[c][1])
        /\ UNCHANGED <<queues, session, carried, refused, made>>
    BY <1>4 DEF WriteQueue, HoldingPcs, runVars, history
  <2>2. /\ ItemsOf(pending) \in Seq(Items)
        /\ ItemsOf(pending') = Append(ItemsOf(pending), held[c][1].item)
    BY <1>d, <1>h, <2>1, ItemsWrites
  <2>3. Count(ItemsOf(pending'), x) =
          Count(ItemsOf(pending), x) + One(held[c][1].item, x)
    BY <1>h, <2>1, <2>2, CountAppend
  <2>. QED
    BY <1>t, <1>g, <1>o, <2>1, <2>3, SMTT(40)
<1>5. CASE FlushNext(c)
  <2>1. UNCHANGED <<queues, session, carried, refused, made>>
    BY <1>5 DEF FlushNext, runVars, history
  <2>2. CASE UNCHANGED <<pending, held>>
    BY <2>1, <2>2, ConserveQuiet
  <2>3. CASE /\ pending # <<>> /\ pending' = Tail(pending)
             /\ held' = [held EXCEPT ![c] = <<Head(pending)>>]
    <3>1. Head(pending) \in Writes
      BY <1>d, <2>3
    <3>2. /\ ItemsOf(pending) \in Seq(Items) /\ ItemsOf(pending) # <<>>
          /\ ItemsOf(pending') = Tail(ItemsOf(pending))
          /\ Head(ItemsOf(pending)) = Head(pending).item
      BY <1>d, <2>3, <3>1, ItemsWrites
    <3>3. Count(ItemsOf(pending), x) =
            Count(ItemsOf(pending'), x) + One(Head(pending).item, x)
      BY <3>2, CountTail
    <3>4. held[c] = <<>>
      BY <1>5 DEF FlushNext, EmptyHanded, HoldingPcs
    <3>5. Cardinality(Holders(x)') =
            Cardinality(Holders(x)) + One(Head(pending).item, x)
      BY <2>3, <3>1, <3>4, HoldersTake
    <3>6. Count(ItemsOf(pending'), x) \in Nat
      <4>1. Tail(ItemsOf(pending)) \in Seq(Items)
        BY <3>2
      <4>. QED
        BY <3>2, <4>1, CountType
    <3>7. One(Head(pending).item, x) \in Nat
      BY DEF One
    <3>. QED
      BY <1>t, <2>1, <3>3, <3>5, <3>6, <3>7 DEF Conserves, Copies
  <2>. QED
    BY <1>5, <2>2, <2>3 DEF FlushNext
<1>6. CASE FlushWrite(c)
  <2>1. /\ pc[c] \in HoldingPcs
        /\ UNCHANGED <<queues, pending, carried, refused, made>>
    BY <1>6 DEF FlushWrite, HoldingPcs, runVars
  <2>2. CASE UNCHANGED <<session, held>>
    BY <2>1, <2>2, ConserveQuiet
  <2>3. CASE /\ session' = Append(session, Entry(held[c][1].item, "queued",
                                                 held[c][1].run))
             /\ Drop(c)
    <3>e. /\ Entry(held[c][1].item, "queued", held[c][1].run) \in Entries
          /\ Entry(held[c][1].item, "queued", held[c][1].run).item = held[c][1].item
      BY <1>d, <1>e, <1>h, <2>1 DEF Writers
    <3>1. Count(ItemsOf(session'), x) =
            Count(ItemsOf(session), x) + One(held[c][1].item, x)
      BY <2>3, <3>e, SessionCount
    <3>. QED
      BY <1>t, <1>g, <1>o, <2>1, <2>3, <3>1
  <2>. QED
    BY <1>6, <2>2, <2>3 DEF FlushWrite
<1>7. CASE Enqueue(c)
  <2>1. /\ pc[c] \in HoldingPcs /\ Drop(c)
        /\ UNCHANGED <<session, pending, carried, refused, made>>
    BY <1>7 DEF Enqueue, HoldingPcs, runVars, history
  <2>2. CASE Queue("steering", held[c][1].item)
    <3>1. /\ Count(queues'.steering, x) =
               Count(queues.steering, x) + One(held[c][1].item, x)
          /\ Count(queues'.followUp, x) = Count(queues.followUp, x)
          /\ Count(queues'.nextTurn, x) = Count(queues.nextTurn, x)
      BY <1>t, <1>h, <2>1, <2>2, QueueCount DEF QueueNames
    <3>. QED
      BY <1>t, <1>g, <1>o, <2>1, <3>1
  <2>3. CASE Queue("followUp", held[c][1].item)
    <3>1. /\ Count(queues'.followUp, x) =
               Count(queues.followUp, x) + One(held[c][1].item, x)
          /\ Count(queues'.steering, x) = Count(queues.steering, x)
          /\ Count(queues'.nextTurn, x) = Count(queues.nextTurn, x)
      BY <1>t, <1>h, <2>1, <2>3, QueueCount DEF QueueNames
    <3>. QED
      BY <1>t, <1>g, <1>o, <2>1, <3>1
  <2>. QED
    BY <1>7, <2>2, <2>3 DEF Enqueue
<1>8. CASE AbortQueues(c)
  <2>1. UNCHANGED <<session, pending, carried, held, made>>
    BY <1>8 DEF AbortQueues, runVars
  <2>2. CASE refused' = refused \o queues.steering /\ Clear("steering")
    <3>1. Count(refused', x) = Count(refused, x) + Count(queues.steering, x)
      BY <1>d, <2>2, CountConcat
    <3>2. /\ Count(queues'.steering, x) = 0
          /\ Count(queues'.followUp, x) = Count(queues.followUp, x)
          /\ Count(queues'.nextTurn, x) = Count(queues.nextTurn, x)
      BY <2>2, ClearCount DEF QueueNames
    <3>. QED
      BY <1>t, <1>s, <2>1, <3>1, <3>2
  <2>3. CASE refused' = refused \o queues.followUp /\ Clear("followUp")
    <3>1. Count(refused', x) = Count(refused, x) + Count(queues.followUp, x)
      BY <1>d, <2>3, CountConcat
    <3>2. /\ Count(queues'.followUp, x) = 0
          /\ Count(queues'.steering, x) = Count(queues.steering, x)
          /\ Count(queues'.nextTurn, x) = Count(queues.nextTurn, x)
      BY <2>3, ClearCount DEF QueueNames
    <3>. QED
      BY <1>t, <1>s, <2>1, <3>1, <3>2
  <2>. QED
    BY <1>8, <2>2, <2>3 DEF AbortQueues
<1>9. CASE ClearAbort(c) \/ BuildContext(c) \/ BeforeStart(c) \/ PrepareNext(c)
           \/ RunEnd(c) \/ SavePoint(c) \/ Settled(c) \/ Summarize(c)
  BY <1>9, ConserveQuiet
     DEF ClearAbort, BuildContext, BeforeStart, PrepareNext, RunEnd, SavePoint,
         Settled, Summarize, shared, runVars, history
<1>10. CASE DrainNext(c)
  <2>1. /\ carried' = queues.nextTurn \o carried /\ Clear("nextTurn")
        /\ UNCHANGED <<session, pending, refused, held, made>>
    BY <1>10 DEF DrainNext, history
  <2>2. Count(carried', x) = Count(queues.nextTurn, x) + Count(carried, x)
    BY <1>d, <2>1, CountConcat
  <2>3. /\ Count(queues'.nextTurn, x) = 0
        /\ Count(queues'.followUp, x) = Count(queues.followUp, x)
        /\ Count(queues'.steering, x) = Count(queues.steering, x)
    BY <2>1, ClearCount DEF QueueNames
  <2>. QED
    BY <1>t, <1>s, <2>1, <2>2, <2>3
<1>11. CASE Emit(c)
  <2>1. carried # <<>>
    BY <1>11 DEF Emit, Carrying, CarryingPcs
  <2>2. /\ Persist(Head(carried)) /\ carried' = Tail(carried)
        /\ UNCHANGED <<queues, pending, held, made>>
    BY <1>11 DEF Emit
  <2>3. Head(carried) \in Items /\ Tail(carried) \in Seq(Items)
    BY <1>d, <2>1
  <2>4. /\ Count(carried, x) = Count(carried', x) + One(Head(carried), x)
        /\ Count(carried', x) \in Nat
    BY <1>d, <2>1, <2>2, <2>3, CountTail, CountType
  <2>5. /\ Count(refused', x) \in Nat
        /\ Count(ItemsOf(session'), x) \in Nat
        /\ Count(refused', x) + Count(ItemsOf(session'), x) =
             Count(refused, x) + Count(ItemsOf(session), x) + One(Head(carried), x)
    BY <2>2, <2>3, PersistCount
  <2>6. One(Head(carried), x) \in Nat
    BY DEF One
  <2>q. /\ Count(queues.steering, x)' = Count(queues.steering, x)
        /\ Count(queues.followUp, x)' = Count(queues.followUp, x)
        /\ Count(queues.nextTurn, x)' = Count(queues.nextTurn, x)
        /\ Count(ItemsOf(pending), x)' = Count(ItemsOf(pending), x)
    BY <2>2
  <2>7. Count(carried, x)' = Count(carried', x)
    OBVIOUS
  <2>8. /\ Count(refused, x)' = Count(refused', x)
        /\ Count(ItemsOf(session), x)' = Count(ItemsOf(session'), x)
    BY DEF ItemsOf
  <2>9. Count(carried, x)' + Count(refused, x)' + Count(ItemsOf(session), x)'
          = Count(carried, x) + Count(refused, x) + Count(ItemsOf(session), x)
    <3>1. /\ Count(carried, x) \in Nat /\ Count(refused, x) \in Nat
          /\ Count(ItemsOf(session), x) \in Nat
      BY <1>t
    <3>. DEFINE a == Count(carried, x)
                r == Count(refused, x)
                s == Count(ItemsOf(session), x)
                o == One(Head(carried), x)
                a1 == Count(carried', x)
                r1 == Count(refused', x)
                s1 == Count(ItemsOf(session'), x)
    <3>2. /\ a \in Nat /\ r \in Nat /\ s \in Nat /\ o \in Nat
          /\ a1 \in Nat /\ r1 \in Nat /\ s1 \in Nat
          /\ a = a1 + o /\ r1 + s1 = r + s + o
      BY <2>4, <2>5, <2>6, <3>1
    <3>. HIDE DEF a, r, s, o, a1, r1, s1
    <3>3. a1 + r1 + s1 = a + r + s
      BY <3>2
    <3>. QED
      BY <2>7, <2>8, <3>3 DEF a, r, s, a1, r1, s1
  <2>10. /\ Count(carried, x)' \in Nat /\ Count(refused, x)' \in Nat
         /\ Count(ItemsOf(session), x)' \in Nat
    BY <2>4, <2>5, <2>7, <2>8
  <2>11. UNCHANGED <<held, made>>
    BY <2>2
  <2>. QED
    BY <1>t, <1>s, <2>q, <2>9, <2>10, <2>11
<1>12. CASE Turn(c) \/ Results(c)
  <2>1. Persist(0) /\ UNCHANGED <<queues, pending, held, made, carried>>
    BY <1>12 DEF Turn, Results
  <2>2. /\ Count(refused', x) \in Nat
        /\ Count(ItemsOf(session'), x) \in Nat
        /\ Count(refused', x) + Count(ItemsOf(session'), x) =
             Count(refused, x) + Count(ItemsOf(session), x) + One(0, x)
    BY <2>1, PersistCount
  <2>q. /\ Count(queues.steering, x)' = Count(queues.steering, x)
        /\ Count(queues.followUp, x)' = Count(queues.followUp, x)
        /\ Count(queues.nextTurn, x)' = Count(queues.nextTurn, x)
        /\ Count(ItemsOf(pending), x)' = Count(ItemsOf(pending), x)
    BY <2>1
  <2>3. Count(carried, x)' = Count(carried, x)
    BY <2>1
  <2>4. /\ Count(refused, x)' = Count(refused', x)
        /\ Count(ItemsOf(session), x)' = Count(ItemsOf(session'), x)
    BY DEF ItemsOf
  <2>5. Count(refused, x)' + Count(ItemsOf(session), x)'
          = Count(refused, x) + Count(ItemsOf(session), x)
    BY <1>t, <1>z, <2>2, <2>4
  <2>6. Count(refused, x)' \in Nat /\ Count(ItemsOf(session), x)' \in Nat
    BY <2>2, <2>4
  <2>7. UNCHANGED <<held, made>>
    BY <2>1
  <2>. QED
    BY <1>t, <1>s, <2>q, <2>3, <2>5, <2>6, <2>7
<1>13. CASE Poll(c)
  <2>1. UNCHANGED <<session, pending, held, made>>
    BY <1>13 DEF Poll
  <2>2. carried = <<>> /\ Count(carried, x) = 0
    BY <1>13, CountFew DEF Poll, Unloaded, AskingPcs
  <2>3. ASSUME NEW drained \in Seq(Items),
               \/ NextTurn(c, drained)
               \/ drained = <<>> /\ UNCHANGED <<carried, refused>>
        PROVE  Count(carried', x) + Count(refused', x) =
                 Count(refused, x) + Count(drained, x)
    <3>1. Count(drained, x) \in Nat
      BY <2>3, CountType
    <3>2. CASE carried' = drained /\ UNCHANGED refused
      BY <1>t, <3>1, <3>2
    <3>3. CASE refused' = refused \o drained /\ UNCHANGED carried
      BY <1>t, <1>d, <2>2, <2>3, <3>1, <3>3, CountConcat
    <3>4. CASE drained = <<>> /\ UNCHANGED <<carried, refused>>
      BY <1>t, <2>2, <3>4, CountFew
    <3>. QED
      BY <2>3, <3>2, <3>3, <3>4 DEF NextTurn
  <2>4. ASSUME NEW name \in {"steering", "followUp"},
               NEW k \in 0 .. Len(queues[name]), Drain(name, k),
               \/ NextTurn(c, SubSeq(queues[name], 1, k))
               \/ k = 0 /\ UNCHANGED <<carried, refused>>
        PROVE  Conserves(x)
    <3>. DEFINE drained == SubSeq(queues[name], 1, k)
    <3>1. /\ \A n \in QueueNames \ {name} : queues'[n] = queues[n]
          /\ drained \in Seq(Items)
          /\ Count(queues'[name], x) \in Nat
          /\ Count(drained, x) \in Nat
          /\ Count(queues[name], x) = Count(drained, x) + Count(queues'[name], x)
      <4>1. name \in QueueNames /\ Drain(name, k)
        BY <2>4 DEF QueueNames
      <4>. QED
        BY <4>1, DrainCount, ZenonT(40)
    <3>2. k = 0 => drained = <<>>
      BY <1>d, <2>4
    <3>. HIDE DEF drained
    <3>3. Count(carried', x) + Count(refused', x) =
            Count(refused, x) + Count(drained, x)
      <4>1. \/ NextTurn(c, drained)
            \/ drained = <<>> /\ UNCHANGED <<carried, refused>>
        BY <2>4, <3>2 DEF drained
      <4>. QED
        BY <2>3, <3>1, <4>1
    <3>4. Count(carried', x) \in Nat /\ Count(refused', x) \in Nat
      <4>1. carried' \in Seq(Items) /\ refused' \in Seq(Items)
        <5>1. CASE carried' = drained /\ UNCHANGED refused
          BY <1>d, <3>1, <5>1
        <5>2. CASE refused' = refused \o drained /\ UNCHANGED carried
          BY <1>d, <3>1, <5>2
        <5>3. CASE UNCHANGED <<carried, refused>>
          BY <1>d, <5>3
        <5>. QED
          BY <2>4, <5>1, <5>2, <5>3 DEF NextTurn, drained
      <4>. QED
        BY <4>1, CountType
    <3>. DEFINE q == Count(queues[name], x)
                q1 == Count(queues'[name], x)
                a == Count(carried, x)
                a1 == Count(carried', x)
                r == Count(refused, x)
                r1 == Count(refused', x)
                l == Count(drained, x)
    <3>7. /\ q \in Nat /\ q1 \in Nat /\ a = 0 /\ a1 \in Nat /\ r \in Nat
          /\ r1 \in Nat /\ l \in Nat /\ q = l + q1 /\ a1 + r1 = r + l
      BY <1>t, <2>2, <3>1, <3>3, <3>4
    <3>5. CASE name = "steering"
      <4>1. /\ Count(queues.followUp, x)' = Count(queues.followUp, x)
            /\ Count(queues.nextTurn, x)' = Count(queues.nextTurn, x)
            /\ Count(ItemsOf(pending), x)' = Count(ItemsOf(pending), x)
            /\ Count(ItemsOf(session), x)' = Count(ItemsOf(session), x)
            /\ Cardinality(Holders(x))' = Cardinality(Holders(x))
        BY <2>1, <3>1, <3>5 DEF QueueNames, Holders
      <4>. DEFINE o == Count(queues.followUp, x)
                  n == Count(queues.nextTurn, x)
                  p == Count(ItemsOf(pending), x)
                  s == Count(ItemsOf(session), x)
                  h == Cardinality(Holders(x))
      <4>2. /\ o \in Nat /\ n \in Nat /\ p \in Nat /\ s \in Nat /\ h \in Nat
        BY <1>t
      <4>3. /\ Copies(x) = q + o + n + a + p + r + s + h
            /\ Copies(x)' = q1 + o + n + a1 + p + r1 + s + h
        BY <3>5, <4>1 DEF Copies
      <4>. HIDE DEF o, n, p, s, h
      <4>4. Copies(x)' = Copies(x) /\ Copies(x) \in Nat
        <5>. HIDE DEF q, q1, a, a1, r, r1, l
        <5>. QED
          BY <3>7, <4>2, <4>3
      <4>. QED
        BY <2>1, <4>4 DEF Conserves
    <3>6. CASE name = "followUp"
      <4>1. /\ Count(queues.steering, x)' = Count(queues.steering, x)
            /\ Count(queues.nextTurn, x)' = Count(queues.nextTurn, x)
            /\ Count(ItemsOf(pending), x)' = Count(ItemsOf(pending), x)
            /\ Count(ItemsOf(session), x)' = Count(ItemsOf(session), x)
            /\ Cardinality(Holders(x))' = Cardinality(Holders(x))
        BY <2>1, <3>1, <3>6 DEF QueueNames, Holders
      <4>. DEFINE o == Count(queues.steering, x)
                  n == Count(queues.nextTurn, x)
                  p == Count(ItemsOf(pending), x)
                  s == Count(ItemsOf(session), x)
                  h == Cardinality(Holders(x))
      <4>2. /\ o \in Nat /\ n \in Nat /\ p \in Nat /\ s \in Nat /\ h \in Nat
        BY <1>t
      <4>3. /\ Copies(x) = o + q + n + a + p + r + s + h
            /\ Copies(x)' = o + q1 + n + a1 + p + r1 + s + h
        BY <3>6, <4>1 DEF Copies
      <4>. HIDE DEF o, n, p, s, h
      <4>4. Copies(x)' = Copies(x) /\ Copies(x) \in Nat
        <5>. HIDE DEF q, q1, a, a1, r, r1, l
        <5>. QED
          BY <3>7, <4>2, <4>3
      <4>. QED
        BY <2>1, <4>4 DEF Conserves
    <3>. QED
      BY <2>4, <3>5, <3>6
  <2>5. \A name \in QueueNames : Takes(name) \subseteq 0 .. Len(queues[name])
    <3>1. \A name \in QueueNames :
            /\ Len(queues[name]) \in Nat
            /\ queues[name] # <<>> => Len(queues[name]) >= 1
      BY <1>d
    <3>. QED
      BY <3>1 DEF Takes
  <2>. QED
    BY <1>13, <2>4, <2>5 DEF Poll, QueueNames
<1>14. CASE After(c) \/ Commit(c)
  <2>1. UNCHANGED <<queues, pending, carried, refused, held, made>>
    BY <1>14 DEF After, Commit, runVars
  <2>2. CASE UNCHANGED session
    BY <2>1, <2>2, ConserveQuiet
  <2>3. ASSUME NEW by \in {"after", "summary"},
               session' = Append(session, Entry(0, by, runs))
        PROVE  Conserves(x)
    <3>e. Entry(0, by, runs) \in Entries /\ Entry(0, by, runs).item = 0
      BY <1>d, <1>e DEF Writers
    <3>1. Count(ItemsOf(session'), x) = Count(ItemsOf(session), x) + One(0, x)
      BY <2>3, <3>e, SessionCount
    <3>. QED
      BY <1>t, <1>s, <1>z, <2>1, <3>1
  <2>. QED
    BY <1>14, <2>2, <2>3 DEF After, Commit
<1>. QED
  BY <1>1, <1>2, <1>3, <1>4, <1>5, <1>6, <1>7, <1>8, <1>9, <1>10, <1>11, <1>12,
     <1>13, <1>14
     DEF Step

-----------------------------------------------------------------------------
\* A step inside an operation, or one that carries nothing.
LEMMA LoadMove ==
  ASSUME ControlInv, EmptyHanded, Unloaded, NEW c \in Callers,
         NEW label \in Pcs, Goto(c, label),
         \A d \in Callers \ {c} : held'[d] = held[d],
         label \notin HoldingPcs => held'[c] = <<>>,
         label \in AskingPcs => carried' = <<>>,
         Inside(c) \/ UNCHANGED carried,
         UNCHANGED phase
  PROVE  EmptyHanded' /\ Unloaded'
<1>1. pc'[c] = label /\ \A d \in Callers \ {c} : pc'[d] = pc[d]
  BY DEF ControlInv, Goto
<1>2. EmptyHanded'
  BY <1>1 DEF EmptyHanded
<1>3. ASSUME Inside(c), NEW d \in Callers \ {c} PROVE pc[d] \notin AskingPcs
  BY <1>3 DEF ControlInv, PhaseOwned, Inside, AskingPcs, PhasePcs
<1>4. phase' = "Idle" => carried' = <<>>
  BY DEF ControlInv, PhaseOwned, Inside, Unloaded
<1>5. \A d \in Callers : pc'[d] \in AskingPcs => carried' = <<>>
  BY <1>1, <1>3 DEF Unloaded
<1>. QED
  BY <1>2, <1>4, <1>5 DEF Unloaded

\* The same, of a step that moves no write.
LEMMA LoadStay ==
  ASSUME ControlInv, EmptyHanded, Unloaded, NEW c \in Callers,
         NEW label \in Pcs, Goto(c, label), UNCHANGED held,
         pc[c] \in HoldingPcs => label \in HoldingPcs,
         label \in AskingPcs => carried' = <<>>,
         Inside(c) \/ UNCHANGED carried,
         UNCHANGED phase
  PROVE  EmptyHanded' /\ Unloaded'
BY LoadMove DEF EmptyHanded

\* A call begins with free hands, and a prompt with nothing carried over.
LEMMA LoadStart ==
  ASSUME ControlInv, Data, EmptyHanded, Unloaded, NEW c \in Callers, Start(c)
  PROVE  EmptyHanded' /\ Unloaded'
<1>. USE DEF HoldingPcs, AskingPcs, PhasePcs, Pcs
<1>0. held \in [Callers -> Seq(Writes)] /\ pc \in [Callers -> Pcs]
  BY DEF Data, ControlInv
<1>1. CASE StartPrompt(c)
  <2>1. CASE UNCHANGED <<phase, pc, carried, held>>
    BY <2>1 DEF EmptyHanded, Unloaded
  <2>2. CASE /\ phase = "Idle" /\ phase' # "Idle" /\ UNCHANGED held
             /\ Goto(c, "clearAbort")
    <3>1. \A d \in Callers : pc[d] \notin AskingPcs
      BY <2>2 DEF ControlInv, PhaseOwned
    <3>2. pc[c] = "idle"
      BY <1>1 DEF StartPrompt, Call
    <3>. QED
      BY <1>0, <2>2, <3>1, <3>2 DEF EmptyHanded, Unloaded, Goto
  <2>. QED
    BY <1>1, <2>1, <2>2 DEF StartPrompt, Take, Free
<1>2. CASE StartSummary(c)
  <2>1. CASE UNCHANGED <<phase, pc>>
    BY <1>2, <2>1 DEF StartSummary, EmptyHanded, Unloaded, runVars
  <2>2. CASE /\ phase = "Idle" /\ phase' # "Idle" /\ UNCHANGED held
             /\ Goto(c, "navigate") \/ Goto(c, "flush")
    <3>1. \A d \in Callers : pc[d] \notin AskingPcs
      BY <2>2 DEF ControlInv, PhaseOwned
    <3>2. pc[c] = "idle"
      BY <1>2, <2>2 DEF StartSummary, Call
    <3>. QED
      BY <1>0, <2>2, <3>1, <3>2 DEF EmptyHanded, Unloaded, Goto
  <2>. QED
    BY <1>2, <2>1, <2>2 DEF StartSummary, Take, Free, Flush
<1>3. CASE WriteCheck(c)
  BY <1>0, <1>3, LoadMove DEF WriteCheck, shared, runVars
<1>4. CASE EnqueueCheck(c)
  BY <1>0, <1>4, LoadMove DEF EnqueueCheck, shared, runVars
<1>5. CASE NextTurnMessage(c)
  BY <1>5 DEF NextTurnMessage, EmptyHanded, Unloaded, runVars
<1>6. CASE Abort(c)
  BY <1>6, LoadStay DEF Abort, Call, runVars
<1>7. CASE Wait(c)
  BY <1>7, LoadStay DEF Wait, Call, shared, runVars
<1>. QED
  BY <1>1, <1>2, <1>3, <1>4, <1>5, <1>6, <1>7 DEF Start

\* Each step leaves hands free where the next call takes a write, and nothing
\* carried where the run asks for more.
LEMMA LoadStep ==
  ASSUME ControlInv, Data, EmptyHanded, Unloaded, NEW c \in Callers, Step(c)
  PROVE  EmptyHanded' /\ Unloaded'
<1>. USE DEF HoldingPcs, AskingPcs, PhasePcs, Pcs, Inside
<1>h. held \in [Callers -> Seq(Writes)]
  BY DEF Data
<1>i. ASSUME Drop(c)
      PROVE  held'[c] = <<>> /\ \A d \in Callers \ {c} : held'[d] = held[d]
  BY <1>h, <1>i DEF Drop
<1>1. CASE FinishPhase(c)
  <2>1. pc[c] = "finish" /\ carried' = <<>> /\ Goto(c, "notify") /\ UNCHANGED held
    BY <1>1 DEF FinishPhase
  <2>2. EmptyHanded'
    BY <2>1 DEF EmptyHanded, ControlInv, Goto
  <2>. QED
    BY <2>1, <2>2 DEF Unloaded
<1>2. CASE FinishNotify(c)
  BY <1>2, LoadStay DEF FinishNotify, shared, runVars
<1>3. CASE WriteDirect(c)
  BY <1>3, <1>i, LoadMove DEF WriteDirect, runVars
<1>4. CASE WriteQueue(c)
  BY <1>4, <1>i, LoadMove DEF WriteQueue, runVars
<1>5. CASE FlushNext(c)
  <2>1. CASE pending = <<>>
    <3>1. ret[c] \in FlushedPcs
      BY <1>5 DEF FlushNext, ControlInv, Returns, FlushPcs
    <3>. QED
      BY <1>5, <2>1, <3>1, LoadStay DEF FlushNext, runVars, FlushedPcs
  <2>2. CASE pending # <<>>
    <3>1. /\ held' = [held EXCEPT ![c] = <<Head(pending)>>]
          /\ Goto(c, "flushWrite")
          /\ UNCHANGED <<phase, carried>>
      BY <1>5, <2>2 DEF FlushNext, runVars
    <3>2. \A d \in Callers \ {c} : held'[d] = held[d]
      BY <1>h, <3>1
    <3>. QED
      BY <3>1, <3>2, LoadMove
  <2>. QED
    BY <2>1, <2>2
<1>6. CASE FlushWrite(c)
  <2>1. CASE Drop(c) /\ Goto(c, "flush")
    BY <1>6, <2>1, <1>i, LoadMove DEF FlushWrite, runVars
  <2>2. CASE Goto(c, "flushBack") /\ UNCHANGED held
    BY <1>6, <2>2, LoadStay DEF FlushWrite, runVars
  <2>. QED
    BY <1>6, <2>1, <2>2 DEF FlushWrite
<1>7. CASE Enqueue(c)
  BY <1>7, <1>i, LoadMove DEF Enqueue, runVars
<1>8. CASE AbortQueues(c)
  <2>1. pc[c] = "abortFollowUp" => ret[c] \in {"idle", "waitCheck"}
    BY DEF ControlInv, Returns, AbortPcs
  <2>. QED
    BY <1>8, <2>1, LoadStay DEF AbortQueues, runVars
<1>9. CASE ClearAbort(c) \/ BuildContext(c) \/ BeforeStart(c)
  BY <1>9, LoadStay
     DEF ClearAbort, BuildContext, BeforeStart, Flush, shared, runVars
<1>10. CASE DrainNext(c)
  BY <1>10, LoadStay DEF DrainNext
<1>11. CASE Emit(c)
  <2>1. CASE Len(carried) > 1 /\ Goto(c, pc[c])
    BY <1>11, <2>1, LoadStay DEF Emit
  <2>2. CASE ~(Len(carried) > 1)
    <3>1. carried' = <<>>
      <4>1. carried \in Seq(Items) /\ Len(carried) \in Nat
        BY DEF Data
      <4>2. Tail(carried) = <<>>
        BY <2>2, <4>1
      <4>. QED
        BY <1>11, <4>2 DEF Emit
    <3>2. \E label \in {"initialPoll", "turn"} : Goto(c, label)
      BY <1>11, <2>2 DEF Emit
    <3>3. pc[c] \in {"emitPrompts", "emit"} /\ UNCHANGED <<held, phase>>
      BY <1>11 DEF Emit
    <3>. QED
      BY <3>1, <3>2, <3>3, LoadStay
  <2>. QED
    BY <1>11, <2>1, <2>2 DEF Emit
<1>12. CASE Turn(c)
  BY <1>12, LoadStay DEF Turn, Unloaded
<1>13. CASE Results(c)
  BY <1>13, LoadStay DEF Results, Unloaded
<1>14. CASE PrepareNext(c)
  BY <1>14, LoadStay DEF PrepareNext, Unloaded, shared
<1>15. CASE Poll(c)
  <2>1. UNCHANGED <<phase, held>> /\ pc[c] \in {"initialPoll", "poll", "pollFollowUp"}
    BY <1>15 DEF Poll
  <2>2. carried = <<>>
    BY <2>1 DEF Unloaded
  <2>4. ASSUME NEW drained, NextTurn(c, drained)
        PROVE  \/ \E label \in {"failTurn", "emit"} : Goto(c, label)
               \/ Goto(c, "turn") /\ carried' = <<>>
    BY <2>4 DEF NextTurn
  <2>5. \/ \E drained : NextTurn(c, drained)
        \/ \E label \in {"pollFollowUp", "runEnd"} :
             Goto(c, label) /\ UNCHANGED carried
    BY <1>15 DEF Poll
  <2>3. \/ \E label \in {"failTurn", "emit", "runEnd"} : Goto(c, label)
        \/ /\ \E label \in {"pollFollowUp", "turn"} : Goto(c, label)
           /\ carried' = <<>>
    BY <2>2, <2>4, <2>5
  <2>. QED
    BY <2>1, <2>3, LoadStay
<1>16. CASE RunEnd(c) \/ SavePoint(c) \/ Settled(c) \/ Summarize(c)
  BY <1>16, LoadStay
     DEF RunEnd, SavePoint, Settled, Summarize, Flush, shared, runVars
<1>17. CASE After(c) \/ Commit(c)
  BY <1>17, LoadStay DEF After, Commit, Flush, runVars
<1>18. CASE WaitCheck(c) \/ WaitRegister(c) \/ Awake(c)
  BY <1>18, LoadStay DEF WaitCheck, WaitRegister, Awake, runVars, shared
<1>. QED
  BY <1>1, <1>2, <1>3, <1>4, <1>5, <1>6, <1>7, <1>8, <1>9, <1>10, <1>11, <1>12,
     <1>13, <1>14, <1>15, <1>16, <1>17, <1>18
     DEF Step

\* No queue holds anything at first.
LEMMA PlaceInit == Init => PlaceInv
<1>. SUFFICES ASSUME Init PROVE PlaceInv
  OBVIOUS
<1>1. EmptyHanded /\ Unloaded
  BY DEF Init, EmptyHanded, Unloaded
<1>2. ASSUME NEW item \in Items PROVE Copies(item) = 0 /\ ~(item <= made)
  <2>1. /\ queues.steering = <<>> /\ queues.followUp = <<>>
        /\ queues.nextTurn = <<>> /\ carried = <<>> /\ refused = <<>>
        /\ pending = <<>> /\ session = <<>> /\ made = 0
    BY DEF Init, QueueNames
  <2>2. ItemsOf(<<>>) = <<>>
    BY DEF ItemsOf
  <2>3. Holders(item) = {}
    BY DEF Init, Holders
  <2>4. Count(<<>>, item) = 0 /\ Cardinality({}) = 0
    BY CountFew, FS_EmptySet
  <2>5. Copies(item) = 0
    BY <2>1, <2>2, <2>3, <2>4 DEF Copies
  <2>. QED
    BY <2>1, <2>5, HarnessAssumption DEF Items
<1>3. ItemsOnce
  BY <1>2 DEF ItemsOnce
<1>. QED
  BY <1>1, <1>3 DEF PlaceInv

\* Each step of each caller leaves every item in one place.
LEMMA PlaceStep ==
  ControlInv /\ TypeInv /\ PlaceInv /\ [Next]_vars => PlaceInv'
<1>. SUFFICES ASSUME ControlInv, TypeInv, PlaceInv, [Next]_vars PROVE PlaceInv'
  OBVIOUS
<1>1. CASE UNCHANGED vars
  BY <1>1
     DEF PlaceInv, EmptyHanded, Unloaded, ItemsOnce, Copies, Holders, vars,
         shared, runVars, history
<1>2. ASSUME NEW c \in Callers, Start(c) \/ Step(c) PROVE PlaceInv'
  <2>1. EmptyHanded' /\ Unloaded'
    BY <1>2, LoadStart, LoadStep DEF TypeInv, PlaceInv
  <2>2. \A x \in Items : Conserves(x)
    BY <1>2, ConserveStart, ConserveStep DEF TypeInv, PlaceInv
  <2>3. made' = made \/ made' = made + 1
    BY <1>2
       DEF Start, StartPrompt, StartSummary, WriteCheck, EnqueueCheck,
           NextTurnMessage, Abort, Wait, Make, Step, FinishPhase, FinishNotify,
           WriteDirect, WriteQueue, FlushNext, FlushWrite, Enqueue, AbortQueues,
           ClearAbort, BuildContext, DrainNext, BeforeStart, Emit, Turn,
           Results, PrepareNext, Poll, RunEnd, After, SavePoint, Settled,
           Summarize, Commit, WaitCheck, WaitRegister, Awake, history
  <2>4. ItemsOnce'
    <3>. SUFFICES ASSUME NEW x \in Items
                  PROVE  Copies(x)' = IF x <= made' THEN 1 ELSE 0
      BY DEF ItemsOnce
    <3>1. /\ Copies(x) = IF x <= made THEN 1 ELSE 0
          /\ Copies(x)' = Copies(x) + (IF made' = made THEN 0 ELSE One(made', x))
      BY <2>2 DEF PlaceInv, ItemsOnce, Conserves
    <3>2. x \in Nat /\ made \in Nat
      BY HarnessAssumption DEF Items, TypeInv, Data
    <3>. QED
      BY <2>3, <3>1, <3>2 DEF One
  <2>. QED
    BY <2>1, <2>4 DEF PlaceInv
<1>. QED
  BY <1>1, <1>2 DEF Next

\* Every message and every write is in one place, whatever the calls do and
\* however their steps interleave: none is lost without a word, none is doubled.
THEOREM ItemsInOnePlace == Spec => []ItemsOnce
<1>. DEFINE Inv == ControlInv /\ TypeInv /\ PlaceInv
<1>1. Init => Inv
  BY ControlInit, TypesInit, PlaceInit DEF TypeInv
<1>2. Inv /\ [Next]_vars => Inv'
  BY ControlStep, TypeInvStep, PlaceStep
<1>3. Inv => ItemsOnce
  BY DEF PlaceInv
<1>. QED
  BY <1>1, <1>2, <1>3, PTL DEF Spec

-----------------------------------------------------------------------------
(* What a prompt that settles has persisted: from its first message on,    *)
(* either an error is kept or the session has, of this run, what the       *)
(* context has, and in that order.  Only a run without an error gets past  *)
(* runEnd, and a new run begins with nothing of its number anywhere.       *)

\* Where the prompt will say Ok.
Settling(c) ==
  \/ pc[c] \in {"after", "savepoint", "settled"}
  \/ pc[c] \in FlushPcs /\ ret[c] \in {"savepoint", "settled"}

InRun(c) == pc[c] \in RunPcs \/ Settling(c)

\* The two logs number the same entries of a run, and as many.
Alike(log, shown, run) ==
  /\ Numbered(log, run) = Numbered(shown, run)
  /\ Cardinality(OfRun(log, run)) = Cardinality(OfRun(shown, run))

Faithful ==
  \A c \in Callers : InRun(c) => persistError \/ Alike(session, context, runs)
Clean == \A c \in Callers : Settling(c) => ~persistError
Fresh == phase = "Idle" => context = <<>>

PersistInv == Faithful /\ Clean /\ Fresh

-----------------------------------------------------------------------------
\* The entries of a run are finitely many.
LEMMA OfRunFinite ==
  ASSUME NEW s \in Seq(Entries), NEW run
  PROVE  /\ OfRun(s, run) \subseteq 1 .. Len(s)
         /\ IsFiniteSet(OfRun(s, run))
         /\ Cardinality(OfRun(s, run)) \in Nat
<1>1. Len(s) \in Nat /\ OfRun(s, run) \subseteq 1 .. Len(s)
  BY DEF OfRun
<1>2. IsFiniteSet(OfRun(s, run))
  <2>1. IsFiniteSet(1 .. Len(s))
    BY <1>1, FS_Interval
  <2>. QED
    BY <1>1, <2>1, FS_Subset
<1>. QED
  BY <1>1, <1>2, FS_CardinalityType

\* An entry of the run gets the next number; another entry gets none.
LEMMA NumberedAppend ==
  ASSUME NEW s \in Seq(Entries), NEW e \in Entries, NEW run
  PROVE  /\ e.by = "run" /\ e.run = run =>
              /\ Numbered(Append(s, e), run) =
                   Numbered(s, run) \cup {<<Cardinality(OfRun(s, run)) + 1, e>>}
              /\ Cardinality(OfRun(Append(s, e), run)) =
                   Cardinality(OfRun(s, run)) + 1
         /\ ~(e.by = "run" /\ e.run = run) =>
              /\ Numbered(Append(s, e), run) = Numbered(s, run)
              /\ Cardinality(OfRun(Append(s, e), run)) =
                   Cardinality(OfRun(s, run))
<1>. DEFINE n == Len(s) + 1
            t == Append(s, e)
<1>1. /\ Len(s) \in Nat /\ DOMAIN s = 1 .. Len(s) /\ DOMAIN t = 1 .. n
      /\ t[n] = e /\ \A k \in 1 .. Len(s) : t[k] = s[k]
  OBVIOUS
<1>2. /\ OfRun(s, run) \subseteq 1 .. Len(s) /\ IsFiniteSet(OfRun(s, run))
      /\ Cardinality(OfRun(s, run)) \in Nat
  BY OfRunFinite
<1>3. n \notin OfRun(s, run) /\ n \notin 1 .. Len(s)
  BY <1>1, <1>2
<1>. HIDE DEF t
<1>4. ASSUME NEW k \in OfRun(s, run), OfRun(s, run) \subseteq OfRun(t, run),
             OfRun(t, run) \subseteq OfRun(s, run) \cup {n}
      PROVE  Rank(t, run, k) = Rank(s, run, k) /\ t[k] = s[k]
  <2>1. ~(n <= k)
    BY <1>1, <1>2
  <2>2. {i \in OfRun(t, run) : i <= k} = {i \in OfRun(s, run) : i <= k}
    BY <1>4, <2>1
  <2>. QED
    BY <1>1, <1>2, <2>2 DEF Rank
<1>5. ASSUME e.by = "run" /\ e.run = run
      PROVE  /\ Numbered(t, run) =
                  Numbered(s, run) \cup {<<Cardinality(OfRun(s, run)) + 1, e>>}
             /\ Cardinality(OfRun(t, run)) = Cardinality(OfRun(s, run)) + 1
  <2>1. OfRun(t, run) = OfRun(s, run) \cup {n}
    BY <1>1, <1>5 DEF OfRun
  <2>2. Cardinality(OfRun(t, run)) = Cardinality(OfRun(s, run)) + 1
    BY <1>2, <1>3, <2>1, FS_AddElement
  <2>3. Rank(t, run, n) = Cardinality(OfRun(s, run)) + 1
    <3>1. \A k \in OfRun(t, run) : k <= n
      BY <1>1, <1>2, <2>1
    <3>2. {i \in OfRun(t, run) : i <= n} = OfRun(t, run)
      BY <3>1
    <3>. QED
      BY <2>2, <3>2 DEF Rank
  <2>4. \A k \in OfRun(s, run) : Rank(t, run, k) = Rank(s, run, k) /\ t[k] = s[k]
    BY <1>4, <2>1
  <2>5. Numbered(t, run) =
          {<<Rank(t, run, k), t[k]>> : k \in OfRun(s, run)}
            \cup {<<Rank(t, run, n), t[n]>>}
    BY <2>1 DEF Numbered
  <2>6. {<<Rank(t, run, k), t[k]>> : k \in OfRun(s, run)} = Numbered(s, run)
    BY <2>4 DEF Numbered
  <2>. QED
    BY <1>1, <2>2, <2>3, <2>5, <2>6
<1>6. ASSUME ~(e.by = "run" /\ e.run = run)
      PROVE  /\ Numbered(t, run) = Numbered(s, run)
             /\ Cardinality(OfRun(t, run)) = Cardinality(OfRun(s, run))
  <2>1. OfRun(t, run) = OfRun(s, run)
    BY <1>1, <1>6 DEF OfRun
  <2>2. \A k \in OfRun(s, run) : Rank(t, run, k) = Rank(s, run, k) /\ t[k] = s[k]
    BY <1>4, <2>1
  <2>. QED
    BY <2>1, <2>2 DEF Numbered
<1>. QED
  BY <1>5, <1>6 DEF t

\* The pending writes that the context is shown get no number.
LEMMA NumberedConcat ==
  ASSUME NEW s \in Seq(Entries), NEW u \in Seq(Entries), NEW run,
         \A k \in 1 .. Len(u) : u[k].by # "run"
  PROVE  /\ Numbered(s \o u, run) = Numbered(s, run)
         /\ Cardinality(OfRun(s \o u, run)) = Cardinality(OfRun(s, run))
<1>. DEFINE t == s \o u
<1>1. /\ Len(s) \in Nat /\ Len(u) \in Nat /\ DOMAIN s = 1 .. Len(s)
      /\ t \in Seq(Entries) /\ Len(t) = Len(s) + Len(u)
      /\ \A k \in 1 .. Len(s) + Len(u) :
           t[k] = IF k <= Len(s) THEN s[k] ELSE u[k - Len(s)]
  BY ConcatProperties
<1>. HIDE DEF t
<1>2. DOMAIN t = 1 .. Len(s) + Len(u)
  BY <1>1
<1>3. OfRun(t, run) = OfRun(s, run)
  <2>1. ASSUME NEW k \in OfRun(t, run) PROVE k \in OfRun(s, run)
    <3>1. k \in 1 .. Len(s) + Len(u) /\ t[k].by = "run" /\ t[k].run = run
      BY <1>2 DEF OfRun
    <3>2. CASE k <= Len(s)
      BY <1>1, <3>1, <3>2 DEF OfRun
    <3>3. CASE ~(k <= Len(s))
      <4>1. k - Len(s) \in 1 .. Len(u)
        BY <1>1, <3>1, <3>3
      <4>. QED
        BY <1>1, <3>1, <3>3, <4>1
    <3>. QED
      BY <3>2, <3>3
  <2>2. ASSUME NEW k \in OfRun(s, run) PROVE k \in OfRun(t, run)
    <3>1. k \in 1 .. Len(s) /\ s[k].by = "run" /\ s[k].run = run
      BY <1>1 DEF OfRun
    <3>2. k \in 1 .. Len(s) + Len(u) /\ k <= Len(s)
      BY <1>1, <3>1
    <3>. QED
      BY <1>1, <1>2, <3>1, <3>2 DEF OfRun
  <2>. QED
    BY <2>1, <2>2
<1>4. \A k \in OfRun(s, run) : t[k] = s[k] /\ Rank(t, run, k) = Rank(s, run, k)
  <2>1. \A k \in 1 .. Len(s) : t[k] = s[k]
    BY <1>1
  <2>. QED
    BY <1>1, <1>3, <2>1 DEF OfRun, Rank
<1>. QED
  BY <1>3, <1>4 DEF Numbered, t

\* A message of the run enters both logs.
LEMMA AlikeBoth ==
  ASSUME Data, Alike(session, context, runs), NEW e \in Entries,
         e.by = "run", e.run = runs, UNCHANGED runs,
         session' = Append(session, e), context' = Append(context, e)
  PROVE  Alike(session, context, runs)'
<1>1. session \in Seq(Entries) /\ context \in Seq(Entries)
  BY DEF Data
<1>2. /\ Numbered(session', runs) = Numbered(session, runs)
           \cup {<<Cardinality(OfRun(session, runs)) + 1, e>>}
      /\ Cardinality(OfRun(session', runs)) = Cardinality(OfRun(session, runs)) + 1
  BY <1>1, NumberedAppend
<1>3. /\ Numbered(context', runs) = Numbered(context, runs)
           \cup {<<Cardinality(OfRun(context, runs)) + 1, e>>}
      /\ Cardinality(OfRun(context', runs)) = Cardinality(OfRun(context, runs)) + 1
  BY <1>1, NumberedAppend
<1>. QED
  BY <1>2, <1>3 DEF Alike

\* An entry that is not of the loop enters the session.
LEMMA AlikeSession ==
  ASSUME Data, Alike(session, context, runs), NEW e \in Entries,
         e.by # "run", UNCHANGED <<runs, context>>,
         session' = Append(session, e)
  PROVE  Alike(session, context, runs)'
<1>1. session \in Seq(Entries)
  BY DEF Data
<1>2. /\ Numbered(session', runs) = Numbered(session, runs)
      /\ Cardinality(OfRun(session', runs)) = Cardinality(OfRun(session, runs))
  BY <1>1, NumberedAppend
<1>. QED
  BY <1>2 DEF Alike

\* The pending writes are shown to the next turn.
LEMMA AlikeShown ==
  ASSUME Data, Alike(session, context, runs), UNCHANGED <<runs, session>>,
         context' = context \o Projected(pending)
  PROVE  Alike(session, context, runs)'
<1>1. context \in Seq(Entries) /\ pending \in Seq(Writes)
  BY DEF Data
<1>2. /\ DOMAIN pending = 1 .. Len(pending) /\ Len(pending) \in Nat
      /\ \A k \in DOMAIN pending : pending[k] \in Writes
  BY <1>1
<1>3. \A k \in DOMAIN pending :
        Entry(pending[k].item, "queued", pending[k].run) \in Entries
  BY <1>2 DEF Entry, Entries, Writes, Writers
<1>4. /\ Projected(pending) \in Seq(Entries)
      /\ \A k \in 1 .. Len(Projected(pending)) :
           Projected(pending)[k].by # "run"
  BY <1>2, <1>3 DEF Projected, Entry
<1>5. /\ Numbered(context', runs) = Numbered(context, runs)
      /\ Cardinality(OfRun(context', runs)) = Cardinality(OfRun(context, runs))
  BY <1>1, <1>4, NumberedConcat
<1>. QED
  BY <1>5 DEF Alike

-----------------------------------------------------------------------------
\* A step that keeps the logs alike or keeps an error, and that says Ok only
\* without one.
LEMMA PersistMove ==
  ASSUME ControlInv, PersistInv, NEW c \in Callers, NEW label \in Pcs,
         Goto(c, label),
         \A d \in Callers \ {c} : ret'[d] = ret[d],
         UNCHANGED phase,
         Inside(c) \/ UNCHANGED <<context, persistError>>,
         persistError => persistError',
         Alike(session, context, runs) =>
           persistError' \/ Alike(session, context, runs)',
         InRun(c)' => InRun(c),
         Settling(c)' => ~persistError'
  PROVE  PersistInv'
<1>1. pc'[c] = label /\ \A d \in Callers \ {c} : pc'[d] = pc[d]
  BY DEF ControlInv, Goto
<1>2. \A d \in Callers \ {c} :
        /\ InRun(d)' <=> InRun(d)
        /\ Settling(d)' <=> Settling(d)
  BY <1>1 DEF InRun, Settling
<1>3. \A d \in Callers : Settling(d) => Inside(d)
  BY DEF Settling, Inside, FlushPcs, PhasePcs
<1>4. Faithful'
  BY <1>2 DEF PersistInv, Faithful
<1>5. Clean'
  <2>. SUFFICES ASSUME NEW d \in Callers, Settling(d)' PROVE ~persistError'
    BY DEF Clean
  <2>1. CASE d = c
    BY <2>1
  <2>2. CASE d # c
    <3>1. Settling(d) /\ Inside(d)
      BY <1>2, <1>3, <2>2
    <3>2. ~Inside(c)
      BY <2>2, <3>1 DEF ControlInv, PhaseOwned, Inside
    <3>. QED
      BY <3>1, <3>2 DEF PersistInv, Clean
  <2>. QED
    BY <2>1, <2>2
<1>6. Fresh'
  BY DEF ControlInv, PhaseOwned, Inside, PersistInv, Fresh
<1>. QED
  BY <1>4, <1>5, <1>6 DEF PersistInv

\* The same, of a step that touches neither log.
LEMMA PersistStay ==
  ASSUME ControlInv, PersistInv, NEW c \in Callers, NEW label \in Pcs,
         Goto(c, label),
         \A d \in Callers \ {c} : ret'[d] = ret[d],
         UNCHANGED <<phase, session, context, runs, persistError>>,
         InRun(c)' => InRun(c),
         Settling(c)' => ~persistError
  PROVE  PersistInv'
<1>1. Alike(session, context, runs)' <=> Alike(session, context, runs)
  BY DEF Alike
<1>. QED
  BY <1>1, PersistMove

\* Where a step leads, and where a flush goes on.
LEMMA Leads ==
  ASSUME ControlInv, NEW c \in Callers, NEW label \in Pcs, Goto(c, label)
  PROVE  /\ pc'[c] = label
         /\ label \in RunPcs \ {"after"} =>
              InRun(c)' /\ ~Settling(c)'
         /\ label \notin RunPcs \cup FlushPcs \cup {"savepoint", "settled"} =>
              ~InRun(c)' /\ ~Settling(c)'
<1>1. pc'[c] = label
  BY DEF ControlInv, Goto
<1>. QED
  BY <1>1 DEF InRun, Settling, RunPcs, FlushPcs

\* A flush that is begun goes on where it says.
LEMMA Flushing ==
  ASSUME ControlInv, NEW c \in Callers, NEW label \in Pcs, Flush(c, label)
  PROVE  /\ Goto(c, "flush")
         /\ \A d \in Callers \ {c} : ret'[d] = ret[d]
         /\ Settling(c)' <=> label \in {"savepoint", "settled"}
         /\ InRun(c)' <=> label \in {"savepoint", "settled"}
<1>1. pc'[c] = "flush" /\ ret'[c] = label
  BY DEF ControlInv, Flush, Goto
<1>2. \A d \in Callers \ {c} : ret'[d] = ret[d]
  BY DEF ControlInv, Flush
<1>. QED
  BY <1>1, <1>2 DEF Flush, Settling, InRun, FlushPcs, RunPcs

\* A message that is emitted keeps the logs alike, or the error is kept.
LEMMA PersistEmit ==
  ASSUME ControlInv, Data, Flags, PersistInv, NEW c \in Callers,
         NEW label \in RunPcs \ {"after"}, Goto(c, label),
         NEW item \in {0} \cup Items, Persist(item),
         pc[c] \in RunPcs \ {"after"},
         UNCHANGED <<phase, ret, runs>>
  PROVE  PersistInv'
<1>1. InRun(c) /\ Inside(c) /\ label \in Pcs
  BY DEF InRun, Inside, RunPcs, PhasePcs, Pcs
<1>2. ~Settling(c)'
  BY <1>1, Leads
<1>3. /\ Entry(item, "run", runs) \in Entries
      /\ Entry(item, "run", runs).by = "run"
      /\ Entry(item, "run", runs).run = runs
  BY EntryType DEF Data, Writers, Entry
<1>4. \/ /\ session' = Append(session, Entry(item, "run", runs))
         /\ persistError' = persistError
      \/ persistError' = TRUE
  BY DEF Persist, KeptError, Flags
<1>5. context' = Append(context, Entry(item, "run", runs))
  BY DEF Persist
<1>6. persistError => persistError'
  BY <1>4
<1>7. Alike(session, context, runs) =>
        persistError' \/ Alike(session, context, runs)'
  BY <1>3, <1>4, <1>5, AlikeBoth
<1>. QED
  BY <1>1, <1>2, <1>6, <1>7, PersistMove

\* A call that starts a prompt starts with an empty context, and no entry is
\* of the new run.
LEMMA PersistStart ==
  ASSUME ControlInv, Data, OrderInv, PersistInv, NEW c \in Callers, Start(c)
  PROVE  PersistInv'
<1>. USE DEF RunPcs, FlushPcs, PhasePcs, Pcs
<1>s. UNCHANGED <<session, context, persistError>>
  BY DEF Start, StartPrompt, StartSummary, WriteCheck, EnqueueCheck,
         NextTurnMessage, Abort, Wait, shared, runVars
<1>0. ASSUME UNCHANGED <<phase, pc, ret, runs>> PROVE PersistInv'
  BY <1>s, <1>0
     DEF PersistInv, Faithful, Clean, Fresh, InRun, Settling, Alike
<1>o. ASSUME phase = "Idle", NEW d \in Callers
      PROVE  ~Inside(d) /\ ~InRun(d) /\ ~Settling(d)
  BY <1>o DEF ControlInv, PhaseOwned, Inside, InRun, Settling
<1>1. CASE StartPrompt(c) /\ Take("Turn")
  <2>1. /\ phase = "Idle" /\ phase' # "Idle" /\ runs' = runs + 1
        /\ Goto(c, "clearAbort") /\ UNCHANGED ret
    BY <1>1 DEF StartPrompt, Take, Free
  <2>2. context = <<>> /\ runs \in Nat /\ session \in Seq(Entries)
    BY <2>1 DEF PersistInv, Fresh, Data
  <2>3. \A i \in DOMAIN session : session[i].run # runs + 1
    <3>1. \A i \in DOMAIN session : session[i] \in Entries
      BY <2>2
    <3>2. \A i \in DOMAIN session : session[i].run \in Nat /\ session[i].run <= runs
      BY <3>1 DEF Entries, OrderInv, Ordered, StampedLog
    <3>. QED
      BY <2>2, <3>2
  <2>4. OfRun(session, runs + 1) = {} /\ OfRun(<<>>, runs + 1) = {}
    BY <2>3 DEF OfRun
  <2>5. Alike(session, context, runs)'
    BY <1>s, <2>1, <2>2, <2>4 DEF Alike, Numbered
  <2>6. \A d \in Callers : ~Settling(d)'
    <3>1. pc'[c] = "clearAbort" /\ \A d \in Callers \ {c} : pc'[d] = pc[d]
      BY <2>1 DEF ControlInv, Goto
    <3>. QED
      BY <1>o, <2>1, <3>1 DEF Settling
  <2>. QED
    BY <2>1, <2>5, <2>6 DEF PersistInv, Faithful, Clean, Fresh
<1>2. CASE StartSummary(c) /\ phase' # phase
  <2>1. /\ phase = "Idle" /\ phase' # "Idle" /\ UNCHANGED runs
        /\ Flush(c, "summarize") \/ (Goto(c, "navigate") /\ UNCHANGED ret)
    BY <1>2 DEF StartSummary, Take, Free, runVars
  <2>2. \A d \in Callers : ~InRun(d)' /\ ~Settling(d)'
    <3>1. /\ \A d \in Callers \ {c} : pc'[d] = pc[d] /\ ret'[d] = ret[d]
          /\ \/ pc'[c] = "navigate"
             \/ pc'[c] = "flush" /\ ret'[c] = "summarize"
      BY <2>1 DEF ControlInv, Goto, Flush
    <3>. QED
      BY <1>o, <2>1, <3>1 DEF Settling, InRun
  <2>. QED
    BY <2>1, <2>2 DEF PersistInv, Faithful, Clean, Fresh
<1>3. CASE WriteCheck(c) \/ EnqueueCheck(c) \/ Wait(c) \/ Abort(c)
  <2>1. UNCHANGED <<phase, runs>>
    BY <1>3 DEF WriteCheck, EnqueueCheck, Wait, Abort, shared, runVars
  <2>2. \A d \in Callers \ {c} : ret'[d] = ret[d]
    BY <1>3 DEF WriteCheck, EnqueueCheck, Wait, Abort, ControlInv
  <2>3. PICK label \in {"writeDirect", "writeQueue", "enqueueSteering",
                        "enqueueFollowUp", "waitCheck", "abortSteering"} :
          Goto(c, label)
    BY <1>3 DEF WriteCheck, EnqueueCheck, Wait, Abort
  <2>4. ~InRun(c)' /\ ~Settling(c)'
    BY <2>3, Leads
  <2>. QED
    BY <1>s, <2>1, <2>2, <2>3, <2>4, PersistStay
<1>4. CASE UNCHANGED <<phase, pc, ret, runs>>
  BY <1>0, <1>4
<1>. QED
  BY <1>1, <1>2, <1>3, <1>4
     DEF Start, StartPrompt, StartSummary, NextTurnMessage, Take, Free, runVars

\* Each step keeps an error that it makes, or keeps the logs alike.
LEMMA PersistStep ==
  ASSUME ControlInv, TypeInv, PersistInv, NEW c \in Callers, Step(c)
  PROVE  PersistInv'
<1>. USE DEF RunPcs, FlushPcs, PhasePcs, Pcs, Inside
<1>t. Data /\ Flags /\ Carrying
  BY DEF TypeInv
<1>a. ASSUME NEW e \in Entries, e.by # "run",
             session' = Append(session, e), UNCHANGED <<runs, context>>
      PROVE  Alike(session, context, runs) => Alike(session, context, runs)'
  BY <1>a, <1>t, AlikeSession
<1>e. \A item \in {0} \cup Items, by \in Writers, run \in Nat :
        Entry(item, by, run) \in Entries /\ Entry(item, by, run).by = by
  BY EntryType DEF Entry
<1>r. runs \in Nat
  BY <1>t DEF Data
\* Steps out of a run, or that begin no flush, and append nothing.
<1>q. ASSUME NEW label \in Pcs, Goto(c, label),
             \/ label \notin RunPcs \cup FlushPcs \cup {"savepoint", "settled"}
             \/ label \in RunPcs \ {"after"} /\ pc[c] \in RunPcs,
             UNCHANGED <<phase, ret, session, context, runs, persistError>>
      PROVE  PersistInv'
  <2>1. pc[c] \in RunPcs => InRun(c)
    BY DEF InRun
  <2>2. (InRun(c)' => InRun(c)) /\ ~Settling(c)'
    BY <1>q, <2>1, Leads
  <2>. QED
    BY <1>q, <2>2, PersistStay
\* Steps that begin a flush and append nothing.
<1>f. ASSUME NEW label \in Pcs, Flush(c, label),
             label \in {"savepoint", "settled"} => InRun(c) /\ ~persistError,
             UNCHANGED <<phase, session, context, runs, persistError>>
      PROVE  PersistInv'
  <2>1. /\ Goto(c, "flush")
        /\ \A d \in Callers \ {c} : ret'[d] = ret[d]
        /\ Settling(c)' <=> label \in {"savepoint", "settled"}
        /\ InRun(c)' <=> label \in {"savepoint", "settled"}
    BY <1>f, Flushing
  <2>. QED
    BY <1>f, <2>1, PersistStay
<1>1. CASE FinishPhase(c)
  <2>1. /\ pc[c] = "finish" /\ context' = <<>> /\ Goto(c, "notify")
    BY <1>1 DEF FinishPhase
  <2>2. \A d \in Callers : pc'[d] \notin PhasePcs
    BY <2>1 DEF ControlInv, PhaseOwned, Goto
  <2>3. \A d \in Callers : ~InRun(d)' /\ ~Settling(d)'
    BY <2>2 DEF InRun, Settling
  <2>. QED
    BY <2>1, <2>3 DEF PersistInv, Faithful, Clean, Fresh
<1>2. CASE FinishNotify(c) \/ WaitCheck(c) \/ WaitRegister(c) \/ Awake(c)
  BY <1>2, <1>q DEF FinishNotify, WaitCheck, WaitRegister, Awake, shared, runVars
<1>3. CASE WriteDirect(c)
  <2>1. Goto(c, "idle") /\ UNCHANGED <<phase, ret, context, runs, persistError>>
    BY <1>3 DEF WriteDirect, runVars
  <2>2. held[c] # <<>> /\ held[c][1].item \in Items
    BY <1>3, <1>t, HeldType DEF WriteDirect, Carrying, HoldingPcs
  <2>3. /\ Entry(held[c][1].item, "direct", runs) \in Entries
        /\ Entry(held[c][1].item, "direct", runs).by # "run"
    BY <1>r, <2>2 DEF Entry, Entries, Writers
  <2>4. Alike(session, context, runs) => Alike(session, context, runs)'
    <3>1. CASE UNCHANGED session
      BY <2>1, <3>1 DEF Alike
    <3>2. CASE session' = Append(session, Entry(held[c][1].item, "direct", runs))
      BY <1>a, <2>1, <2>3, <3>2
    <3>. QED
      BY <1>3, <3>1, <3>2 DEF WriteDirect
  <2>5. ~InRun(c)' /\ ~Settling(c)'
    BY <2>1, Leads
  <2>. QED
    BY <2>1, <2>4, <2>5, PersistMove
<1>4. CASE WriteQueue(c) \/ Enqueue(c)
  BY <1>4, <1>q DEF WriteQueue, Enqueue, runVars
<1>5. CASE FlushNext(c)
  <2>1. UNCHANGED <<phase, session, context, runs, persistError>>
    BY <1>5 DEF FlushNext, runVars
  <2>2. CASE pending = <<>>
    <3>1. /\ pc[c] = "flush" /\ Goto(c, ret[c])
          /\ ret' = [ret EXCEPT ![c] = "idle"]
      BY <1>5, <2>2 DEF FlushNext
    <3>2. ret[c] \in FlushedPcs
      BY <3>1 DEF ControlInv, Returns
    <3>3. \A d \in Callers \ {c} : ret'[d] = ret[d]
      BY <3>1 DEF ControlInv
    <3>4. pc'[c] = ret[c]
      BY <3>1 DEF ControlInv, Goto
    <3>5. (InRun(c)' => InRun(c)) /\ (Settling(c)' => Settling(c))
      BY <3>1, <3>2, <3>4 DEF InRun, Settling, FlushedPcs
    <3>6. Settling(c) => ~persistError
      BY DEF PersistInv, Clean
    <3>. QED
      BY <2>1, <3>1, <3>2, <3>3, <3>5, <3>6, PersistStay DEF FlushedPcs
  <2>3. CASE pending # <<>>
    <3>1. pc[c] = "flush" /\ Goto(c, "flushWrite") /\ UNCHANGED ret
      BY <1>5, <2>3 DEF FlushNext
    <3>2. pc'[c] = "flushWrite"
      BY <3>1 DEF ControlInv, Goto
    <3>3. (InRun(c)' => InRun(c)) /\ (Settling(c)' => Settling(c))
      BY <3>1, <3>2 DEF InRun, Settling
    <3>4. Settling(c) => ~persistError
      BY DEF PersistInv, Clean
    <3>. QED
      BY <2>1, <3>1, <3>3, <3>4, PersistStay
  <2>. QED
    BY <2>2, <2>3
<1>6. CASE FlushWrite(c)
  <2>1. /\ UNCHANGED <<phase, ret, context, runs, persistError>>
        /\ pc[c] = "flushWrite"
    BY <1>6 DEF FlushWrite, runVars
  <2>2. PICK label \in {"flush", "flushBack"} : Goto(c, label)
    BY <1>6 DEF FlushWrite
  <2>3. pc'[c] = label
    BY <2>2 DEF ControlInv, Goto
  <2>4. (InRun(c)' => InRun(c)) /\ (Settling(c)' => Settling(c))
    BY <2>1, <2>3 DEF InRun, Settling
  <2>5. /\ held[c] # <<>>
        /\ held[c][1].item \in Items /\ held[c][1].run \in Nat
    BY <1>t, <2>1, HeldType DEF Carrying, HoldingPcs
  <2>6. Alike(session, context, runs) => Alike(session, context, runs)'
    <3>1. CASE UNCHANGED session
      BY <2>1, <3>1 DEF Alike
    <3>2. CASE session' = Append(session, Entry(held[c][1].item, "queued",
                                                held[c][1].run))
      <4>1. /\ Entry(held[c][1].item, "queued", held[c][1].run) \in Entries
            /\ Entry(held[c][1].item, "queued", held[c][1].run).by # "run"
        BY <2>5 DEF Entry, Entries, Writers
      <4>. QED
        BY <1>a, <2>1, <3>2, <4>1
    <3>. QED
      BY <1>6, <3>1, <3>2 DEF FlushWrite
  <2>7. Settling(c) => ~persistError
    BY DEF PersistInv, Clean
  <2>. QED
    BY <2>1, <2>2, <2>4, <2>6, <2>7, PersistMove
<1>8. CASE AbortQueues(c)
  <2>1. pc[c] = "abortFollowUp" => ret[c] \in {"idle", "waitCheck"}
    BY DEF ControlInv, Returns, AbortPcs
  <2>. QED
    BY <1>8, <1>q, <2>1 DEF AbortQueues, runVars
<1>9. CASE ClearAbort(c) \/ BuildContext(c) \/ DrainNext(c)
  BY <1>9, <1>q DEF ClearAbort, BuildContext, DrainNext, shared, runVars
<1>10. CASE BeforeStart(c)
  BY <1>10, <1>q, <1>f DEF BeforeStart, shared, runVars
<1>11. CASE Emit(c)
  <2>1. carried # <<>>
    BY <1>11, <1>t DEF Emit, Carrying, CarryingPcs
  <2>2. Head(carried) \in {0} \cup Items
    BY <1>t, <2>1 DEF Data
  <2>3. \E label \in RunPcs \ {"after"} : Goto(c, label)
    BY <1>11 DEF Emit
  <2>4. Persist(Head(carried)) /\ pc[c] \in RunPcs \ {"after"}
        /\ UNCHANGED <<phase, ret, runs>>
    BY <1>11 DEF Emit
  <2>. QED
    BY <1>t, <2>2, <2>3, <2>4, PersistEmit
<1>12. CASE Turn(c) \/ Results(c)
  <2>1. \E label \in RunPcs \ {"after"} : Goto(c, label)
    BY <1>12 DEF Turn, Results
  <2>2. Persist(0) /\ pc[c] \in RunPcs \ {"after"}
        /\ UNCHANGED <<phase, ret, runs>>
    BY <1>12 DEF Turn, Results
  <2>. QED
    BY <1>t, <2>1, <2>2, PersistEmit
<1>13. CASE PrepareNext(c)
  <2>1. /\ pc[c] = "turnEnd"
        /\ UNCHANGED <<phase, ret, session, runs, persistError>>
    BY <1>13 DEF PrepareNext, shared
  <2>2. CASE UNCHANGED context /\ Goto(c, "failTurn")
    BY <1>q, <2>1, <2>2
  <2>3. CASE context' = context \o Projected(pending) /\ Goto(c, "poll")
    <3>1. Alike(session, context, runs) => Alike(session, context, runs)'
      BY <1>t, <2>1, <2>3, AlikeShown
    <3>2. InRun(c) /\ ~Settling(c)'
      BY <2>1, <2>3, Leads DEF InRun
    <3>. QED
      BY <2>1, <2>3, <3>1, <3>2, PersistMove
  <2>. QED
    BY <1>13, <2>2, <2>3 DEF PrepareNext
<1>14. CASE Poll(c)
  <2>1. /\ pc[c] \in RunPcs
        /\ UNCHANGED <<phase, ret, session, context, runs, persistError>>
    BY <1>14 DEF Poll
  <2>2. \E label \in {"failTurn", "emit", "runEnd", "pollFollowUp", "turn"} :
          Goto(c, label)
    BY <1>14 DEF Poll, NextTurn
  <2>. QED
    BY <1>q, <2>1, <2>2
<1>15. CASE RunEnd(c)
  <2>1. /\ pc[c] = "runEnd"
        /\ UNCHANGED <<phase, session, context, runs, persistError>>
    BY <1>15 DEF RunEnd, shared, runVars
  <2>2. CASE Flush(c, "finish") \/ Flush(c, "savepointFailed")
    BY <1>f, <2>1, <2>2
  <2>3. CASE ~persistError /\ Goto(c, "after") /\ UNCHANGED ret
    <3>1. InRun(c)
      BY <2>1 DEF InRun
    <3>. QED
      BY <2>1, <2>3, <3>1, PersistStay
  <2>. QED
    BY <1>15, <2>2, <2>3 DEF RunEnd
<1>16. CASE After(c)
  <2>1. /\ pc[c] = "after" /\ InRun(c) /\ ~persistError
        /\ UNCHANGED <<phase, context, runs, persistError>>
    BY <1>16 DEF After, runVars, InRun, Settling, PersistInv, Clean
  <2>2. CASE Goto(c, "finish") /\ UNCHANGED <<session, ret>>
    BY <1>q, <2>1, <2>2
  <2>3. CASE Flush(c, "savepoint") /\ UNCHANGED session
    BY <1>f, <2>1, <2>3
  <2>4. CASE /\ Flush(c, "savepoint")
             /\ session' = Append(session, Entry(0, "after", runs))
    <3>1. /\ Goto(c, "flush")
          /\ \A d \in Callers \ {c} : ret'[d] = ret[d]
      BY <2>4, Flushing
    <3>2. Entry(0, "after", runs) \in Entries
            /\ Entry(0, "after", runs).by # "run"
      BY <1>e, <1>r DEF Writers
    <3>3. Alike(session, context, runs) => Alike(session, context, runs)'
      BY <1>a, <2>1, <2>4, <3>2
    <3>. QED
      BY <2>1, <3>1, <3>3, PersistMove
  <2>. QED
    BY <1>16, <2>2, <2>3, <2>4 DEF After
<1>17. CASE SavePoint(c)
  <2>1. UNCHANGED <<phase, session, context, runs, persistError>>
    BY <1>17 DEF SavePoint, shared, runVars
  <2>2. CASE pc[c] = "savepoint" /\ Flush(c, "settled")
    <3>1. InRun(c) /\ ~persistError
      BY <2>2 DEF InRun, Settling, PersistInv, Clean
    <3>. QED
      BY <1>f, <2>1, <2>2, <3>1
  <2>3. CASE Flush(c, "finish")
    BY <1>f, <2>1, <2>3
  <2>. QED
    BY <1>17, <2>2, <2>3 DEF SavePoint
<1>18. CASE Settled(c)
  BY <1>18, <1>q DEF Settled, shared, runVars
<1>19. CASE Summarize(c)
  BY <1>19, <1>q, <1>f DEF Summarize, shared, runVars
<1>20. CASE Commit(c)
  <2>1. UNCHANGED <<phase, context, runs, persistError>>
    BY <1>20 DEF Commit, runVars
  <2>2. CASE Goto(c, "finish") /\ UNCHANGED <<session, ret>>
    BY <1>q, <2>1, <2>2
  <2>3. CASE /\ session' = Append(session, Entry(0, "summary", runs))
             /\ Flush(c, "finish") \/ (Goto(c, "finish") /\ UNCHANGED ret)
    <3>1. Entry(0, "summary", runs) \in Entries
            /\ Entry(0, "summary", runs).by # "run"
      BY <1>e, <1>r DEF Writers
    <3>2. Alike(session, context, runs) => Alike(session, context, runs)'
      BY <1>a, <2>1, <2>3, <3>1
    <3>3. CASE Flush(c, "finish")
      BY <1>20, <2>1, <3>2, <3>3, Flushing, PersistMove DEF Commit
    <3>4. CASE Goto(c, "finish") /\ UNCHANGED ret
      BY <1>20, <2>1, <3>2, <3>4, Leads, PersistMove DEF Commit
    <3>. QED
      BY <2>3, <3>3, <3>4
  <2>. QED
    BY <1>20, <2>2, <2>3 DEF Commit
<1>. QED
  BY <1>1, <1>2, <1>3, <1>4, <1>5, <1>6, <1>8, <1>9, <1>10, <1>11, <1>12,
     <1>13, <1>14, <1>15, <1>16, <1>17, <1>18, <1>19, <1>20
     DEF Step

\* Nothing that was given to the harness or said by the model slips through:
\* every item is in one place, and a prompt that settles has persisted what it
\* showed to the model, in that order, with every number of callers, calls,
\* turns and failing appends.
THEOREM NothingIsLost == Spec => []NothingSlips
<1>. DEFINE Inv == ControlInv /\ TypeInv /\ OrderInv /\ PlaceInv /\ PersistInv
<1>1. Init => Inv
  <2>1. Init => PersistInv
    BY DEF Init, PersistInv, Faithful, Clean, Fresh, InRun, Settling, RunPcs,
           FlushPcs
  <2>. QED
    BY <2>1, ControlInit, TypesInit, OrderInit, PlaceInit DEF TypeInv
<1>2. Inv /\ [Next]_vars => Inv'
  <2>. SUFFICES ASSUME Inv, [Next]_vars PROVE Inv'
    OBVIOUS
  <2>1. ControlInv' /\ TypeInv' /\ PlaceInv'
    BY ControlStep, TypeInvStep, PlaceStep
  <2>2. CASE UNCHANGED vars
    BY <2>1, <2>2
       DEF OrderInv, Ordered, Stamped, StampedLog, Unflushed, QueuedAfterRun,
           PersistInv, Faithful, Clean, Fresh, InRun, Settling, Alike,
           vars, shared, runVars
  <2>3. CASE Next
    BY <2>1, <2>3, OrderStart, OrderStep, PersistStart, PersistStep
       DEF Next, TypeInv
  <2>. QED
    BY <2>2, <2>3
<1>3. Inv => NothingSlips
  BY DEF NothingSlips, PlaceInv, OkMeansPersisted, PersistInv, Faithful, Clean,
         InRun, Settling, Alike
<1>. QED
  BY <1>1, <1>2, <1>3, PTL DEF Spec

-----------------------------------------------------------------------------
(* A conversation and its summaries                                        *)

Callbacks == {"scheduled", "start", "finished"}

\* What the callbacks of a call were told, at any point of it.
CallInv ==
  /\ attempt \in Nat
  /\ told \in Seq(Callbacks)
  /\ \A k \in DOMAIN told :
       /\ told[k] = "start" => k > 1 /\ told[k - 1] = "scheduled"
       /\ told[k] = "finished" => k = Len(told) /\ R!CallOver
  /\ call = "sleep" => told # <<>> /\ told[Len(told)] = "scheduled"
  /\ attempt = 0 => \A k \in DOMAIN told : told[k] # "scheduled"
  /\ call \in R!Ends \ {"broken"} /\ attempt # 0 =>
       \E k \in DOMAIN told : told[k] = "finished"

callVars == <<call, attempt, told>>

\* What the callbacks were told, with one more.
LEMMA Telling ==
  ASSUME NEW name \in Callbacks, told \in Seq(Callbacks)
  PROVE  LET now == Append(told, name)
         IN /\ now \in Seq(Callbacks) /\ Len(now) = Len(told) + 1 /\ now # <<>>
            /\ now[Len(told) + 1] = name
            /\ \A k \in DOMAIN told : k \in 1 .. Len(told) /\ now[k] = told[k]
            /\ \A k \in DOMAIN now : k \in DOMAIN told \/ k = Len(told) + 1
            /\ DOMAIN now = 1 .. Len(told) + 1 /\ DOMAIN told = 1 .. Len(told)
            /\ Len(told) \in Nat
  OBVIOUS

\* A call that starts, or is hung up, has told nothing.
LEMMA CallStarts ==
  ASSUME call' \in {"off", "produce"}, attempt' = 0, told' = <<>>
  PROVE  CallInv'
  BY DEF CallInv, R!Ends, R!CallOver

\* A call that ends tells so, once, if it was retried.
LEMMA CallEnds ==
  ASSUME CallInv, call = "produce", NEW how \in {"reply", "aborted", "error"}, R!End(how)
  PROVE  CallInv'
<1>1. /\ attempt \in Nat /\ told \in Seq(Callbacks) /\ call' = how /\ attempt' = attempt
      /\ how \in R!Ends \ {"broken"} /\ R!CallOver'
      /\ \A k \in DOMAIN told : /\ told[k] = "start" => k > 1 /\ told[k - 1] = "scheduled"
                                /\ told[k] # "finished"
      /\ attempt = 0 => \A k \in DOMAIN told : told[k] # "scheduled"
  BY DEF CallInv, R!End, R!Ends, R!CallOver
<1>2. CASE attempt = 0
  <2>1. told' = told
    BY <1>2 DEF R!End, R!Finished
  <2>. QED
    BY <1>1, <1>2, <2>1 DEF CallInv, R!Ends
<1>3. CASE attempt # 0
  <2>1. told' = Append(told, "finished")
    BY <1>3 DEF R!End, R!Finished
  <2>2. "finished" \in Callbacks
    BY DEF Callbacks
  <2>3. /\ told' \in Seq(Callbacks) /\ Len(told') = Len(told) + 1 /\ Len(told) \in Nat
        /\ told'[Len(told) + 1] = "finished" /\ Len(told) + 1 \in DOMAIN told'
        /\ \A k \in DOMAIN told : k \in 1 .. Len(told) /\ told'[k] = told[k]
        /\ \A k \in DOMAIN told' : k \in DOMAIN told \/ k = Len(told) + 1
        /\ \A k \in DOMAIN told : k > 1 => k - 1 \in DOMAIN told
    BY <1>1, <2>1, <2>2, Telling
  <2>. QED
    BY <1>1, <1>3, <2>3 DEF CallInv, R!Ends
<1>. QED
  BY <1>2, <1>3

\* Each step of a call keeps what its callbacks were told in order.
LEMMA CallStep ==
  ASSUME CallInv, Produce
  PROVE  CallInv'
<1>. USE DEF InCall
<1>1. CASE \E how \in {"reply", "aborted", "error", "transient"} : R!Produced(how)
  BY <1>1, CallEnds DEF R!Produced
<1>2. CASE R!ProduceFails
  BY <1>2 DEF CallInv, R!ProduceFails, R!Ends, R!CallOver
<1>3. CASE R!Schedule
  <2>1. /\ attempt' = attempt + 1 /\ told' = Append(told, "scheduled")
        /\ call' = "sleep" /\ call = "produce"
    BY <1>3 DEF R!Schedule
  <2>2. "scheduled" \in Callbacks
    BY DEF Callbacks
  <2>3. /\ told' \in Seq(Callbacks) /\ Len(told') = Len(told) + 1 /\ Len(told) \in Nat
        /\ told'[Len(told) + 1] = "scheduled" /\ told' # <<>>
        /\ \A k \in DOMAIN told : k \in 1 .. Len(told) /\ told'[k] = told[k]
        /\ \A k \in DOMAIN told' : k \in DOMAIN told \/ k = Len(told) + 1
        /\ \A k \in DOMAIN told : k > 1 => k - 1 \in DOMAIN told
    BY <2>1, <2>2, Telling DEF CallInv
  <2>4. /\ attempt' \in Nat /\ attempt' # 0 /\ call' \notin R!Ends
        /\ \A k \in DOMAIN told : /\ told[k] = "start" => k > 1 /\ told[k - 1] = "scheduled"
                                  /\ told[k] # "finished"
    BY <2>1 DEF CallInv, R!Ends, R!CallOver
  <2>. QED
    BY <2>1, <2>3, <2>4 DEF CallInv
<1>4. CASE R!Retried
  <2>1. /\ attempt' = attempt /\ told' = Append(told, "start")
        /\ call' = "produce" /\ call = "sleep"
    BY <1>4 DEF R!Retried
  <2>2. "start" \in Callbacks
    BY DEF Callbacks
  <2>3. /\ told' \in Seq(Callbacks) /\ Len(told') = Len(told) + 1 /\ Len(told) \in Nat
        /\ told'[Len(told) + 1] = "start" /\ told' # <<>>
        /\ \A k \in DOMAIN told : k \in 1 .. Len(told) /\ told'[k] = told[k]
        /\ \A k \in DOMAIN told' : k \in DOMAIN told \/ k = Len(told) + 1
        /\ \A k \in DOMAIN told : k > 1 => k - 1 \in DOMAIN told
        /\ told # <<>> => Len(told) > 0
    BY <2>1, <2>2, Telling DEF CallInv
  <2>. QED
    BY <2>1, <2>3 DEF CallInv, R!Ends, R!CallOver
<1>. QED
  BY <1>1, <1>2, <1>3, <1>4 DEF Produce

LEMMA CallKept ==
  ASSUME CallInv, UNCHANGED callVars
  PROVE  CallInv'
  BY DEF CallInv, callVars, R!CallOver

\* Leaving an entry asks for a summary or does nothing to the call.
LEMMA CallOfMove ==
  ASSUME CallInv, NEW target, NEW leaf, Leave(target, leaf)
  PROVE  CallInv'
<1>1. CASE UNCHANGED callVars
  BY <1>1, CallKept
<1>2. CASE R!StartCall
  BY <1>2, CallStarts DEF R!StartCall
<1>. QED
  BY <1>1, <1>2 DEF Leave, callVars

LEMMA CallNext ==
  ASSUME CallInv, [ConversationNext]_allVars
  PROVE  CallInv'
<1>1. CASE UNCHANGED allVars
  BY <1>1, CallKept DEF allVars, callVars
<1>2. CASE Prompt \/ Notice \/ Reply \/ ToolResult
  <2>1. UNCHANGED callVars
    BY <1>2 DEF Prompt, Notice, Reply, ToolResult, Push, callVars
  <2>. QED
    BY <2>1, CallKept
<1>3. CASE Move \/ NavigateTree
  BY <1>3, CallOfMove DEF Move, NavigateTree
<1>4. CASE Compact \/ AskForPrefix
  BY <1>4, CallStarts DEF Compact, AskForPrefix, R!StartCall
<1>5. CASE Moved \/ Compacted \/ CompactionFails
  BY <1>5, CallStarts DEF Moved, Compacted, CompactionFails, EndCompaction, R!HangUp
<1>6. CASE Produce
  BY <1>6, CallStep
<1>. QED
  BY <1>1, <1>2, <1>3, <1>4, <1>5, <1>6 DEF ConversationNext

\* A call of a summary tells its callbacks each retry twice, when it is scheduled
\* and when it starts, and that the retries are over once, at the end
\* (retry_assistant_call): for any number of retries.
THEOREM EveryRetryIsTold == ConversationSpec => []CallbacksPaired
<1>1. ConversationInit => CallInv
  BY DEF ConversationInit, CallInv, R!RetryInit, R!Ends, R!CallOver
<1>2. CallInv /\ [ConversationNext]_allVars => CallInv'
  BY CallNext
<1>3. CallInv => CallbacksPaired
  <2>. SUFFICES ASSUME CallInv PROVE CallbacksPaired
    OBVIOUS
  <2>1. /\ \A k \in DOMAIN told :
             /\ told[k] = "start" => k > 1 /\ told[k - 1] = "scheduled"
             /\ told[k] = "finished" => k = Len(told) /\ R!CallOver
        /\ attempt = 0 => \A k \in DOMAIN told : told[k] # "scheduled"
        /\ call \in R!Ends \ {"broken"} /\ attempt # 0 =>
             \E k \in DOMAIN told : told[k] = "finished"
    BY DEF CallInv
  <2>. QED
    BY <2>1 DEF CallbacksPaired, R!CallbacksPaired
<1>. QED
  BY <1>1, <1>2, <1>3, PTL DEF ConversationSpec

\* What stands where it says, and a session that is compacted again keeps no
\* older entry than before.
Chained(p) ==
  /\ p \in Seq(ToSet(p))
  /\ \A k \in DOMAIN p : p[k].id = k
  /\ \A k \in DOMAIN p :
       IsCompaction(p[k]) =>
         /\ p[k].kept \in 1 .. k - 1
         /\ p[k].covers \subseteq 1 .. p[k].kept - 1
         /\ \A l \in 1 .. k - 1 : IsCompaction(p[l]) => p[l].kept <= p[k].kept

\* The summary of a branch tells what came last of it.
TellsTheLast(covers) ==
  \A k \in DOMAIN path :
    IsTold(path[k]) /\ (\E c \in covers : c < k) => k \in covers

\* A summary under way is one of the path as it is.
WorkInv ==
  /\ asking \in {"none", "history", "prefix", "branch"}
  /\ asking = "none" => call = "off"
  /\ asking \in {"history", "prefix"} =>
       work = PrepareCompaction(Branch(path), scene.keep) /\ work # Nothing
  /\ asking = "branch" => work.leaf \in 0 .. Len(path) /\ TellsTheLast(work.covers)

\* A set of numbers has a least one.
LEMMA Smallest ==
  ASSUME NEW S \in SUBSET Nat, S # {}
  PROVE  \E n \in S : \A m \in S : n <= m
<1>. DEFINE F == {1 .. n : n \in S}
<1>1. F \subseteq FiniteSubsetsOf(Nat) /\ F # {}
  <2>1. \A n \in S : IsFiniteSet(1 .. n) /\ 1 .. n \in SUBSET Nat
    BY FS_Interval
  <2>. QED
    BY <2>1 DEF FiniteSubsetsOf
<1>2. IsWellFoundedOn(StrictSubsetOrdering(Nat), FiniteSubsetsOf(Nat))
  BY FS_StrictSubsetOrderingWellFounded
<1>3. PICK x \in F : \A y \in F : <<y, x>> \notin StrictSubsetOrdering(Nat)
  BY <1>1, <1>2, WFMin
<1>4. PICK n \in S : x = 1 .. n
  BY <1>3
<1>5. ASSUME NEW m \in S, m < n PROVE FALSE
  <2>1. 1 .. m \in F
    BY <1>5
  <2>2. 1 .. m \subseteq 1 .. n /\ n \in 1 .. n /\ n \notin 1 .. m
    BY <1>5
  <2>3. <<1 .. m, x>> \in StrictSubsetOrdering(Nat)
    BY <2>2, <1>4 DEF StrictSubsetOrdering
  <2>. QED
    BY <2>1, <2>3, <1>3
<1>. QED
  BY <1>5

LEMMA LeastNumber ==
  ASSUME NEW S \in SUBSET Nat, S # {}
  PROVE  Min(S) \in S /\ \A m \in S : Min(S) <= m
<1>1. \E n \in S : \A m \in S : n <= m
  BY Smallest
<1>. QED
  BY <1>1 DEF Min

\* The greatest of a bounded set is the least distance from its bound.
LEMMA GreatestNumber ==
  ASSUME NEW n \in Nat, NEW S \in SUBSET (0 .. n), S # {}
  PROVE  Max(S) \in S /\ \A m \in S : m <= Max(S)
<1>. DEFINE T == {n - k : k \in S}
<1>1. T \in SUBSET Nat /\ T # {}
  <2>1. \A k \in S : k \in 0 .. n /\ n - k \in Nat
    OBVIOUS
  <2>. QED
    BY <2>1
<1>2. Min(T) \in T /\ \A m \in T : Min(T) <= m
  BY <1>1, LeastNumber
<1>3. PICK k \in S : Min(T) = n - k
  BY <1>2
<1>4. \A m \in S : m <= k
  <2>. TAKE m \in S
  <2>1. n - m \in T /\ m \in 0 .. n /\ k \in 0 .. n
    OBVIOUS
  <2>2. n - k <= n - m
    BY <1>2, <1>3, <2>1
  <2>. QED
    BY <2>1, <2>2
<1>. QED
  BY <1>4 DEF Max

LEMMA PathSeq ==
  ASSUME NEW p, Chained(p)
  PROVE  /\ Len(p) \in Nat /\ DOMAIN p = 1 .. Len(p)
         /\ p \in Seq(ToSet(p))
         /\ p # <<>> => Len(p) > 0
  BY DEF Chained

\* The last compaction keeps no older entry than the ones before.
LastKept(p) == {p[k].kept : k \in {l \in DOMAIN p : IsCompaction(p[l])}}

\* The entry that the context of a path starts at.
From(p) == Max({1} \cup LastKept(p))

\* The context of a path starts at its first entry, or where its last compaction
\* says.
LEMMA FromIs ==
  ASSUME NEW p, Chained(p)
  PROVE  /\ From(p) \in 1 .. Len(p) \/ (p = <<>> /\ From(p) = 1)
         /\ \A l \in DOMAIN p : IsCompaction(p[l]) => p[l].kept <= From(p)
         /\ (\A l \in DOMAIN p : ~IsCompaction(p[l])) => From(p) = 1
         /\ \A l \in DOMAIN p :
              IsCompaction(p[l]) /\ (\A k \in l + 1 .. Len(p) : ~IsCompaction(p[k]))
                => From(p) = p[l].kept
<1>. DEFINE S == {1} \cup LastKept(p)
            m == Max(S)
<1>1. Len(p) \in Nat /\ DOMAIN p = 1 .. Len(p) /\ (p # <<>> => Len(p) > 0)
  BY PathSeq
<1>2. \A k \in DOMAIN p : IsCompaction(p[k]) => p[k].kept \in 1 .. k - 1 /\ p[k].kept \in S
  BY DEF Chained, LastKept
<1>3. S \in SUBSET (0 .. Len(p) + 1) /\ S # {}
  BY <1>1, <1>2 DEF LastKept
<1>4. m \in S /\ \A y \in S : y <= m
  <2>1. Len(p) + 1 \in Nat
    BY <1>1
  <2>. HIDE DEF S
  <2>. QED
    BY <1>3, <2>1, GreatestNumber
<1>5. m = 1 \/ \E k \in DOMAIN p : IsCompaction(p[k]) /\ m = p[k].kept
  BY <1>4 DEF LastKept
<1>6. From(p) = m
  BY DEF From
<1>. HIDE DEF S, m
<1>7. m \in 1 .. Len(p) \/ (p = <<>> /\ m = 1)
  BY <1>1, <1>2, <1>5
<1>8. \A l \in DOMAIN p : IsCompaction(p[l]) => p[l].kept <= m
  BY <1>2, <1>4
<1>9. (\A l \in DOMAIN p : ~IsCompaction(p[l])) => m = 1
  BY <1>5
<1>10. ASSUME NEW l \in DOMAIN p, IsCompaction(p[l]),
              \A k \in l + 1 .. Len(p) : ~IsCompaction(p[k])
       PROVE  m = p[l].kept
  <2>1. p[l].kept \in Nat /\ p[l].kept >= 1 /\ p[l].kept <= m
    BY <1>2, <1>8, <1>10
  <2>2. CASE m = 1
    BY <2>1, <2>2
  <2>3. CASE \E k \in DOMAIN p : IsCompaction(p[k]) /\ m = p[k].kept
    <3>1. PICK k \in DOMAIN p : IsCompaction(p[k]) /\ m = p[k].kept
      BY <2>3
    <3>2. k = l \/ k \in 1 .. l - 1
      BY <1>1, <1>10, <3>1
    <3>3. p[k].kept <= p[l].kept
      BY <1>10, <2>1, <3>1, <3>2 DEF Chained
    <3>4. p[k].kept \in Nat
      BY <1>2, <3>1
    <3>. QED
      BY <2>1, <3>1, <3>3, <3>4
  <2>. QED
    BY <1>5, <2>2, <2>3
<1>. QED
  BY <1>6, <1>7, <1>8, <1>9, <1>10

\* The walk up stops where the context starts or above it, and has the last
\* compaction.
LEMMA BranchStartIs ==
  ASSUME NEW p, Chained(p), p # <<>>
  PROVE  /\ BranchStart(p) \in 1 .. Len(p)
         /\ BranchStart(p) <= From(p)
         /\ \A l \in 1 .. BranchStart(p) - 1 :
              IsCompaction(p[l]) =>
                \E k \in BranchStart(p) .. Len(p) : IsCompaction(p[k])
<1>. DEFINE S == {1} \cup {k \in DOMAIN p : StopsAt(p, k)}
            b == Max(S)
            Met(k) == {l \in k + 1 .. Len(p) : IsCompaction(p[l])}
<1>1. Len(p) \in Nat /\ DOMAIN p = 1 .. Len(p) /\ Len(p) > 0
  BY PathSeq
<1>2. S \in SUBSET (0 .. Len(p)) /\ S # {}
  BY <1>1
<1>3. b \in S
  BY <1>1, <1>2, GreatestNumber
<1>4. b \in 1 .. Len(p)
  BY <1>1, <1>3
<1>5. From(p) \in 1 .. Len(p) /\ \A l \in DOMAIN p : IsCompaction(p[l]) => p[l].kept <= From(p)
  BY <1>1, FromIs
<1>. HIDE DEF S, b
<1>6. ASSUME b # 1
      PROVE  \E l \in b + 1 .. Len(p) : IsCompaction(p[l]) /\ p[l].kept = b
  <2>1. StopsAt(p, b)
    BY <1>3, <1>6 DEF S
  <2>2. Met(b) # {} /\ p[Min(Met(b))].kept = b
    BY <2>1 DEF StopsAt
  <2>3. Met(b) \in SUBSET Nat
    BY <1>1, <1>4
  <2>. DEFINE l == Min(Met(b))
  <2>4. l \in Met(b)
    BY <2>2, <2>3, LeastNumber
  <2>. QED
    BY <2>2, <2>4
<1>7. b <= From(p)
  <2>1. CASE b = 1
    BY <1>5, <2>1
  <2>2. CASE b # 1
    <3>1. PICK l \in b + 1 .. Len(p) : IsCompaction(p[l]) /\ p[l].kept = b
      BY <1>6, <2>2
    <3>2. l \in DOMAIN p
      BY <1>1, <1>4, <3>1
    <3>. QED
      BY <1>5, <3>1, <3>2
  <2>. QED
    BY <2>1, <2>2
<1>8. ASSUME NEW l \in 1 .. b - 1 PROVE \E k \in b .. Len(p) : IsCompaction(p[k])
  <2>1. b # 1
    BY <1>4, <1>8
  <2>2. PICK k \in b + 1 .. Len(p) : IsCompaction(p[k])
    BY <1>6, <2>1
  <2>3. k \in b .. Len(p)
    BY <1>1, <1>4, <2>2
  <2>. QED
    BY <2>2, <2>3
<1>9. BranchStart(p) = b
  BY DEF BranchStart, b, S
<1>. QED
  BY <1>4, <1>7, <1>8, <1>9

\* The place where the context of a branch starts.
\* The entry of a branch that its context starts at.
StartOf(entries) ==
  LET last == LastCompaction(entries)
  IN IF last = 0 THEN 1 ELSE PlaceOf(entries[last].kept, entries)

\* A branch is the end of its path, with the entries in their places, and reaches
\* back to where its context starts.
LEMMA BranchIs ==
  ASSUME NEW p, Chained(p), p # <<>>
  PROVE  LET e == Branch(p)
             b == BranchStart(p)
             last == LastCompaction(e)
         IN /\ e \in Seq(ToSet(p)) /\ Len(e) = Len(p) - b + 1 /\ Len(e) > 0
            /\ \A i \in 1 .. Len(e) : e[i] = p[b + i - 1] /\ e[i].id = b + i - 1
            /\ last \in 0 .. Len(e)
            /\ last # 0 => /\ IsCompaction(e[last]) /\ StartOf(e) < last
                           /\ e[last].covers \subseteq 1 .. From(p) - 1
            /\ \A i \in last + 1 .. Len(e) : ~IsCompaction(e[i])
            /\ StartOf(e) \in 1 .. Len(e)
            /\ b + StartOf(e) - 1 = From(p)
<1>. DEFINE e == Branch(p)
            b == BranchStart(p)
            n == Len(p)
            Comps == {k \in DOMAIN e : IsCompaction(e[k])}
            last == LastCompaction(e)
<1>1. n \in Nat /\ DOMAIN p = 1 .. n /\ p \in Seq(ToSet(p)) /\ n > 0
  BY PathSeq
<1>2. /\ b \in 1 .. n /\ b <= From(p) /\ From(p) \in 1 .. n
      /\ \A l \in 1 .. b - 1 : IsCompaction(p[l]) => \E k \in b .. n : IsCompaction(p[k])
  BY <1>1, BranchStartIs, FromIs
<1>3. e \in Seq(ToSet(p)) /\ Len(e) = n - b + 1 /\ \A i \in 1 .. n - b + 1 : e[i] = p[b + i - 1]
  <2>1. b \in 1 .. n + 1 /\ n \in b - 1 .. n
    BY <1>1, <1>2
  <2>2. e = SubSeq(p, b, n)
    BY DEF Branch
  <2>. HIDE DEF e, b, n
  <2>3. /\ SubSeq(p, b, n) \in Seq(ToSet(p))
        /\ Len(SubSeq(p, b, n)) = IF b <= n THEN n - b + 1 ELSE 0
        /\ \A i \in 1 .. n - b + 1 : SubSeq(p, b, n)[i] = p[b + i - 1]
    BY <1>1, <2>1, SubSeqProperties DEF n
  <2>. QED
    BY <1>2, <2>2, <2>3
<1>. HIDE DEF e, b, n
<1>4. \A i \in 1 .. Len(e) : e[i] = p[b + i - 1] /\ b + i - 1 \in 1 .. n /\ e[i].id = b + i - 1
  <2>. TAKE i \in 1 .. Len(e)
  <2>1. b + i - 1 \in 1 .. n /\ i \in 1 .. n - b + 1
    BY <1>1, <1>2, <1>3
  <2>2. p[b + i - 1].id = b + i - 1
    BY <1>1, <2>1 DEF Chained
  <2>. QED
    BY <1>3, <2>1, <2>2
<1>5. Len(e) \in Nat /\ Len(e) > 0 /\ DOMAIN e = 1 .. Len(e)
  BY <1>1, <1>2, <1>3
<1>6. last \in {0} \cup Comps /\ \A k \in Comps : k <= last
  <2>1. {0} \cup Comps \in SUBSET (0 .. Len(e)) /\ {0} \cup Comps # {}
    BY <1>5
  <2>. DEFINE S == {0} \cup Comps
  <2>2. last = Max(S)
    BY DEF LastCompaction
  <2>. HIDE DEF S
  <2>3. S \in SUBSET (0 .. Len(e)) /\ S # {}
    BY <2>1 DEF S
  <2>4. Max(S) \in S /\ \A m \in S : m <= Max(S)
    BY <1>5, <2>3, GreatestNumber
  <2>. QED
    BY <2>2, <2>4 DEF S
<1>. HIDE DEF last
<1>7. last \in 0 .. Len(e) /\ (last # 0 => last \in 1 .. Len(e) /\ IsCompaction(e[last]))
  BY <1>5, <1>6
<1>8. \A i \in last + 1 .. Len(e) : ~IsCompaction(e[i])
  <2>. TAKE i \in last + 1 .. Len(e)
  <2>1. i \in DOMAIN e /\ i > last
    BY <1>5, <1>7
  <2>. QED
    BY <1>6, <1>7, <2>1
<1>9. CASE last = 0
  <2>1. \A k \in b .. n : ~IsCompaction(p[k])
    <3>. TAKE k \in b .. n
    <3>1. k - b + 1 \in 1 .. Len(e) /\ b + (k - b + 1) - 1 = k
      BY <1>1, <1>2, <1>3
    <3>2. e[k - b + 1] = p[k]
      BY <1>4, <3>1
    <3>3. ~IsCompaction(e[k - b + 1])
      BY <1>8, <1>9, <3>1
    <3>. QED
      BY <3>2, <3>3
  <2>2. \A k \in DOMAIN p : ~IsCompaction(p[k])
    <3>. TAKE k \in DOMAIN p
    <3>1. k \in 1 .. b - 1 \/ k \in b .. n
      BY <1>1, <1>2
    <3>. QED
      BY <1>2, <2>1, <3>1
  <2>3. From(p) = 1
    BY <2>2, FromIs
  <2>4. b = 1
    BY <1>1, <1>2, <2>3
  <2>5. StartOf(e) = 1
    BY <1>9 DEF StartOf, last
  <2>. QED
    BY <1>3, <1>4, <1>5, <1>7, <1>8, <1>9, <2>3, <2>4, <2>5 DEF e, b, n, last
<1>10. CASE last # 0
  <2>. DEFINE l == b + last - 1
              place == e[last].kept - b + 1
  <2>1. l \in 1 .. n /\ e[last] = p[l] /\ IsCompaction(p[l])
    BY <1>4, <1>7, <1>10
  <2>2. \A k \in l + 1 .. n : ~IsCompaction(p[k])
    <3>. TAKE k \in l + 1 .. n
    <3>1. k - b + 1 \in last + 1 .. Len(e) /\ b + (k - b + 1) - 1 = k
      BY <1>1, <1>2, <1>3, <1>7
    <3>2. k - b + 1 \in 1 .. Len(e)
      BY <1>7, <3>1
    <3>3. e[k - b + 1] = p[k]
      BY <1>4, <3>1, <3>2
    <3>. QED
      BY <1>8, <3>1, <3>3
  <2>3. From(p) = p[l].kept
    BY <1>1, <2>1, <2>2, FromIs
  <2>4. p[l].kept \in 1 .. l - 1 /\ p[l].covers \subseteq 1 .. p[l].kept - 1
    BY <1>1, <2>1 DEF Chained
  <2>5. place \in 1 .. Len(e) /\ place < last /\ b + place - 1 = From(p)
    <3>. DEFINE kept == p[l].kept
    <3>1. place = kept - b + 1
      BY <2>1
    <3>2. kept \in 1 .. l - 1 /\ From(p) = kept
      BY <2>3, <2>4
    <3>. HIDE DEF kept, place
    <3>. QED
      BY <1>1, <1>2, <1>3, <1>7, <1>10, <3>1, <3>2
  <2>6. StartOf(e) = place
    <3>1. StartOf(e) = PlaceOf(e[last].kept, e)
      BY <1>10 DEF StartOf, last
    <3>2. e[place].id = e[last].kept
      BY <1>4, <2>1, <2>3, <2>5
    <3>3. \A k \in DOMAIN e : e[k].id = e[last].kept => k = place
      BY <1>2, <1>4, <1>5, <2>1, <2>3
    <3>4. place \in DOMAIN e
      BY <1>5, <2>5
    <3>. HIDE DEF place
    <3>. QED
      BY <3>1, <3>2, <3>3, <3>4 DEF PlaceOf
  <2>. HIDE DEF place, l
  <2>. QED
    BY <1>3, <1>4, <1>5, <1>7, <1>8, <1>10, <2>1, <2>3, <2>4, <2>5, <2>6 DEF e, b, n, last
<1>. QED
  BY <1>9, <1>10

LEMMA ConcatSet ==
  ASSUME NEW S, NEW s \in Seq(S), NEW t \in Seq(S)
  PROVE  s \o t \in Seq(S) /\ ToSet(s \o t) = ToSet(s) \cup ToSet(t)
<1>1. /\ s \o t \in Seq(S) /\ Len(s \o t) = Len(s) + Len(t)
      /\ \A i \in 1 .. Len(s) + Len(t) :
           (s \o t)[i] = IF i <= Len(s) THEN s[i] ELSE t[i - Len(s)]
  BY ConcatProperties
<1>2. Len(s) \in Nat /\ Len(t) \in Nat /\ DOMAIN s = 1 .. Len(s) /\ DOMAIN t = 1 .. Len(t)
      /\ DOMAIN (s \o t) = 1 .. Len(s) + Len(t)
  BY <1>1
<1>. DEFINE u == s \o t
<1>3. ASSUME NEW x \in ToSet(u) PROVE x \in ToSet(s) \cup ToSet(t)
  <2>1. PICK i \in 1 .. Len(s) + Len(t) : x = u[i]
    BY <1>2, <1>3 DEF ToSet
  <2>2. CASE i <= Len(s)
    BY <1>1, <1>2, <2>1, <2>2 DEF ToSet
  <2>3. CASE i > Len(s)
    <3>1. i - Len(s) \in DOMAIN t /\ x = t[i - Len(s)]
      BY <1>1, <1>2, <2>1, <2>3
    <3>. QED
      BY <3>1 DEF ToSet
  <2>. QED
    BY <1>2, <2>1, <2>2, <2>3
<1>4. ASSUME NEW x \in ToSet(s) PROVE x \in ToSet(u)
  <2>1. PICK i \in 1 .. Len(s) : x = s[i]
    BY <1>2, <1>4 DEF ToSet
  <2>2. i \in 1 .. Len(s) + Len(t) /\ u[i] = x
    BY <1>1, <1>2, <2>1
  <2>. QED
    BY <1>2, <2>2 DEF ToSet
<1>5. ASSUME NEW x \in ToSet(t) PROVE x \in ToSet(u)
  <2>1. PICK i \in 1 .. Len(t) : x = t[i]
    BY <1>2, <1>5 DEF ToSet
  <2>2. i + Len(s) \in 1 .. Len(s) + Len(t) /\ u[i + Len(s)] = x
    BY <1>1, <1>2, <2>1
  <2>. QED
    BY <1>2, <2>2 DEF ToSet
<1>. HIDE DEF u
<1>6. ToSet(u) = ToSet(s) \cup ToSet(t)
  BY <1>3, <1>4, <1>5
<1>. QED
  BY <1>1, <1>6 DEF u

LEMMA SubSeqSet ==
  ASSUME NEW S, NEW s \in Seq(S), NEW m \in 1 .. Len(s) + 1, NEW n \in m - 1 .. Len(s)
  PROVE  /\ SubSeq(s, m, n) \in Seq(S) /\ Len(SubSeq(s, m, n)) = n - m + 1
         /\ \A i \in 1 .. n - m + 1 : SubSeq(s, m, n)[i] = s[m + i - 1]
         /\ \A x : x \in ToSet(SubSeq(s, m, n)) <=> \E i \in m .. n : x = s[i]
<1>. DEFINE u == SubSeq(s, m, n)
<1>1. /\ u \in Seq(S) /\ Len(u) = IF m <= n THEN n - m + 1 ELSE 0
      /\ \A i \in 1 .. n - m + 1 : u[i] = s[m + i - 1]
  BY SubSeqProperties
<1>. HIDE DEF u
<1>2. Len(u) = n - m + 1 /\ DOMAIN u = 1 .. n - m + 1
  BY <1>1
<1>3. ASSUME NEW x \in ToSet(u) PROVE \E i \in m .. n : x = s[i]
  <2>1. PICK i \in 1 .. n - m + 1 : x = u[i]
    BY <1>2, <1>3 DEF ToSet
  <2>2. m + i - 1 \in m .. n /\ x = s[m + i - 1]
    BY <1>1, <2>1, SMTT(40)
  <2>. QED
    BY <2>2
<1>4. ASSUME NEW i \in m .. n PROVE s[i] \in ToSet(u)
  <2>1. i - m + 1 \in 1 .. n - m + 1 /\ m + (i - m + 1) - 1 = i
    OBVIOUS
  <2>2. u[i - m + 1] = s[i]
    BY <1>1, <2>1
  <2>. QED
    BY <1>2, <2>1, <2>2 DEF ToSet
<1>5. \A x : x \in ToSet(u) <=> \E i \in m .. n : x = s[i]
  BY <1>3, <1>4
<1>. QED
  BY <1>1, <1>2, <1>5 DEF u

LEMMA ContentsIs ==
  ASSUME NEW entries
  PROVE  Contents(entries) = {x.id : x \in {y \in ToSet(entries) : ~IsCompaction(y)}}
  BY DEF Contents, ToSet

\* A context shows the branch from where it starts.
LEMMA ContextIs ==
  ASSUME NEW p, Chained(p), p # <<>>
  PROVE  Contents(ContextEntries(Branch(p))) =
           {k \in From(p) .. Len(p) : ~IsCompaction(p[k])}
<1>. DEFINE e == Branch(p)
            b == BranchStart(p)
            last == LastCompaction(e)
            start == StartOf(e)
            shown == ContextEntries(e)
            Rest == {e[i] : i \in start .. Len(e)}
<1>1. /\ e \in Seq(ToSet(p)) /\ Len(e) = Len(p) - b + 1 /\ Len(e) > 0 /\ Len(e) \in Nat
      /\ \A i \in 1 .. Len(e) : e[i] = p[b + i - 1] /\ e[i].id = b + i - 1
      /\ last \in 0 .. Len(e)
      /\ last # 0 => IsCompaction(e[last]) /\ start < last
      /\ \A i \in last + 1 .. Len(e) : ~IsCompaction(e[i])
      /\ start \in 1 .. Len(e)
      /\ b + start - 1 = From(p)
  BY BranchIs
<1>2. b \in 1 .. Len(p) /\ Len(p) \in Nat
  BY BranchStartIs, PathSeq
<1>3. DOMAIN e = 1 .. Len(e)
  BY <1>1
<1>4. {y \in ToSet(shown) : ~IsCompaction(y)} = {y \in Rest : ~IsCompaction(y)}
  <2>1. CASE last = 0
    <3>1. shown = e /\ start = 1
      BY <2>1 DEF ContextEntries, StartOf
    <3>. HIDE DEF e, shown, start
    <3>. QED
      BY <1>3, <3>1 DEF ToSet
  <2>2. CASE last # 0
    <3>. DEFINE one == <<e[last]>>
                two == SubSeq(e, start, last - 1)
                three == SubSeq(e, last + 1, Len(e))
    <3>1. shown = one \o two \o three
      BY <2>2 DEF ContextEntries, StartOf
    <3>. HIDE DEF e, last, start, b
    <3>2. last \in 1 .. Len(e) /\ start < last /\ e[last] \in ToSet(p)
      BY <1>1, <2>2
    <3>3. one \in Seq(ToSet(p)) /\ ToSet(one) = {e[last]}
      BY <3>2 DEF ToSet
    <3>4. /\ two \in Seq(ToSet(p))
          /\ \A x : x \in ToSet(two) <=> \E i \in start .. last - 1 : x = e[i]
      <4>. DEFINE n == last - 1
      <4>1. start \in 1 .. Len(e) + 1 /\ n \in start - 1 .. Len(e) /\ e \in Seq(ToSet(p))
        BY <1>1, <3>2
      <4>. HIDE DEF n, two
      <4>2. /\ SubSeq(e, start, n) \in Seq(ToSet(p))
            /\ \A x : x \in ToSet(SubSeq(e, start, n)) <=> \E i \in start .. n : x = e[i]
        BY <4>1, SubSeqSet
      <4>. QED
        BY <4>2 DEF n, two
    <3>5. /\ three \in Seq(ToSet(p))
          /\ \A x : x \in ToSet(three) <=> \E i \in last + 1 .. Len(e) : x = e[i]
      <4>. DEFINE m == last + 1
                  n == Len(e)
      <4>1. m \in 1 .. Len(e) + 1 /\ n \in m - 1 .. Len(e) /\ e \in Seq(ToSet(p))
        BY <1>1, <3>2
      <4>. HIDE DEF m, n, three
      <4>2. /\ SubSeq(e, m, n) \in Seq(ToSet(p))
            /\ \A x : x \in ToSet(SubSeq(e, m, n)) <=> \E i \in m .. n : x = e[i]
        BY <4>1, SubSeqSet
      <4>. QED
        BY <4>2 DEF m, n, three
    <3>. HIDE DEF one, two, three, shown
    <3>6. ToSet(shown) = ToSet(one) \cup ToSet(two) \cup ToSet(three)
      <4>. DEFINE u == one \o two
      <4>1. u \in Seq(ToSet(p)) /\ ToSet(u) = ToSet(one) \cup ToSet(two)
        BY <3>3, <3>4, ConcatSet
      <4>. HIDE DEF u
      <4>2. ToSet(u \o three) = ToSet(u) \cup ToSet(three)
        BY <3>5, <4>1, ConcatSet
      <4>. QED
        BY <3>1, <4>1, <4>2 DEF u
    <3>7. \A i \in start .. Len(e) : i \in start .. last - 1 \/ i = last \/ i \in last + 1 .. Len(e)
      BY <1>1, <3>2
    <3>8. start .. last - 1 \subseteq start .. Len(e) /\ last + 1 .. Len(e) \subseteq start .. Len(e)
      BY <1>1, <3>2
    <3>9. \A x : x \in ToSet(one) <=> x = e[last]
      BY <3>3
    <3>10. IsCompaction(e[last])
      BY <1>1, <2>2
    <3>11. ASSUME NEW y \in ToSet(shown), ~IsCompaction(y) PROVE y \in Rest
      BY <3>4, <3>5, <3>6, <3>8, <3>9, <3>10, <3>11
    <3>12. ASSUME NEW i \in start .. Len(e), ~IsCompaction(e[i]) PROVE e[i] \in ToSet(shown)
      BY <3>4, <3>5, <3>6, <3>7, <3>10, <3>12
    <3>. QED
      BY <3>11, <3>12
  <2>. QED
    BY <2>1, <2>2
<1>5. Contents(shown) = {x.id : x \in {y \in Rest : ~IsCompaction(y)}}
  BY <1>4, ContentsIs
<1>. HIDE DEF e, last, start, b, shown
<1>6. ASSUME NEW i \in start .. Len(e)
      PROVE  /\ e[i] = p[b + i - 1] /\ e[i].id = b + i - 1
             /\ b + i - 1 \in From(p) .. Len(p)
  BY <1>1, <1>2
<1>7. ASSUME NEW k \in From(p) .. Len(p)
      PROVE  /\ k - b + 1 \in start .. Len(e)
             /\ e[k - b + 1] = p[k] /\ e[k - b + 1].id = k
  <2>1. k - b + 1 \in start .. Len(e) /\ k - b + 1 \in 1 .. Len(e) /\ b + (k - b + 1) - 1 = k
    BY <1>1, <1>2, SMTT(40)
  <2>. QED
    BY <1>1, <2>1
<1>8. {x.id : x \in {y \in Rest : ~IsCompaction(y)}} = {k \in From(p) .. Len(p) : ~IsCompaction(p[k])}
  <2>1. ASSUME NEW i \in start .. Len(e), ~IsCompaction(e[i])
        PROVE  e[i].id \in {k \in From(p) .. Len(p) : ~IsCompaction(p[k])}
    BY <1>6, <2>1
  <2>2. ASSUME NEW k \in From(p) .. Len(p), ~IsCompaction(p[k])
        PROVE  \E i \in start .. Len(e) : ~IsCompaction(e[i]) /\ e[i].id = k
    BY <1>7, <2>2
  <2>. QED
    BY <2>1, <2>2
<1>. QED
  BY <1>5, <1>8 DEF shown, e

\* A cut, and the turn that it splits, lie in what may be cut.
LEMMA CutPointIs ==
  ASSUME NEW entries, Len(entries) \in Nat, NEW start \in 1 .. Len(entries), NEW keep
  PROVE  LET point == FindCutPoint(entries, start, keep)
         IN /\ point.first \in start .. Len(entries)
            /\ point.turn = 0 \/ point.turn \in start .. point.first
<1>. DEFINE n == Len(entries)
            cuts == {k \in start .. n : IsCutPoint(entries[k])}
            full == {k \in start .. n :
                       IsMessage(entries[k]) /\ TokensFrom(entries, k) >= keep}
            after == IF full = {} THEN {} ELSE {k \in cuts : k >= Max(full)}
            some == IF after = {} THEN cuts ELSE after
            cut == Min(some)
            Bare(k) == \A l \in k .. cut - 1 :
                          ~IsMessage(entries[l]) /\ ~IsCompaction(entries[l])
            firsts == {k \in start .. cut : Bare(k)}
            first == Min(firsts)
            turns == {k \in start .. first : StartsTurn(entries[k])}
            isUser == RoleOf(entries[first]) = "user"
            opening == IF isUser \/ turns = {} THEN 0 ELSE Max(turns)
<1>1. FindCutPoint(entries, start, keep) =
        IF cuts = {} THEN [first |-> start, turn |-> 0] ELSE [first |-> first, turn |-> opening]
  BY DEF FindCutPoint
<1>2. CASE cuts = {}
  BY <1>1, <1>2
<1>3. CASE cuts # {}
  <2>1. cuts \in SUBSET Nat /\ after \subseteq cuts
    OBVIOUS
  <2>. HIDE DEF after
  <2>2. some \in SUBSET Nat /\ some # {} /\ some \subseteq cuts
    BY <1>3, <2>1
  <2>. HIDE DEF some
  <2>3. cut \in start .. n
    BY <2>2, LeastNumber
  <2>. HIDE DEF cut, cuts
  <2>4. cut \in firsts /\ firsts \in SUBSET Nat
    BY <2>3
  <2>5. first \in firsts
    <3>. HIDE DEF firsts
    <3>. QED
      BY <2>4, LeastNumber
  <2>6. first \in start .. n
    BY <2>3, <2>5
  <2>. HIDE DEF first
  <2>7. opening = 0 \/ opening \in start .. first
    <3>1. CASE isUser \/ turns = {}
      BY <3>1
    <3>2. CASE ~isUser /\ turns # {}
      <4>1. turns \in SUBSET (0 .. first) /\ first \in Nat
        BY <2>6
      <4>2. Max(turns) \in turns
        BY <3>2, <4>1, GreatestNumber
      <4>. QED
        BY <3>2, <4>2
    <3>. QED
      BY <3>1, <3>2
  <2>. HIDE DEF opening
  <2>. QED
    BY <1>1, <1>3, <2>6, <2>7 DEF cuts
<1>. QED
  BY <1>2, <1>3

LEMMA EmptyBranch ==
  ASSUME NEW p, Chained(p), p = <<>>
  PROVE  Branch(p) = <<>>
<1>1. Len(p) = 0 /\ BranchStart(p) = 1
  <2>1. {1} \cup {k \in DOMAIN p : StopsAt(p, k)} = {1}
    OBVIOUS
  <2>2. 1 \in Nat /\ {1} \in SUBSET (0 .. 1) /\ {1} # {}
    OBVIOUS
  <2>3. Max({1}) \in {1}
    BY <2>2, GreatestNumber
  <2>. QED
    BY <2>1, <2>3 DEF BranchStart
<1>2. p \in Seq(ToSet(p))
  BY DEF Chained
<1>3. SubSeq(p, 1, 0) = <<>>
  BY <1>2, SubSeqEmpty
<1>. QED
  BY <1>1, <1>3 DEF Branch

\* What a compaction keeps and covers: all that the context shows before the
\* entry that is kept, and nothing from there on.
LEMMA PreparedIs ==
  ASSUME NEW p, Chained(p), NEW keep, NEW prepared,
         prepared = PrepareCompaction(Branch(p), keep), prepared # Nothing
  PROVE  /\ p # <<>>
         /\ prepared.kept \in From(p) .. Len(p)
         /\ Covered(prepared) \subseteq 1 .. prepared.kept - 1
         /\ \A k \in From(p) .. prepared.kept - 1 :
              ~IsCompaction(p[k]) => k \in Covered(prepared)
<1>. DEFINE e == Branch(p)
            b == BranchStart(p)
            last == LastCompaction(e)
            start == StartOf(e)
            point == FindCutPoint(e, start, keep)
            split == point.turn # 0
            before == Summarised(e, start, (IF split THEN point.turn ELSE point.first) - 1)
            prefix == IF split THEN Summarised(e, point.turn, point.first - 1) ELSE {}
            previous == IF last = 0 THEN {} ELSE e[last].covers
<1>1. /\ e # <<>>
      /\ prepared = [kept |-> e[point.first].id, history |-> before, prefix |-> prefix,
                     split |-> split, previous |-> previous]
  BY DEF PrepareCompaction, StartOf
<1>2. p # <<>>
  BY <1>1, EmptyBranch
<1>3. /\ Len(e) = Len(p) - b + 1 /\ Len(e) > 0 /\ Len(e) \in Nat
      /\ \A i \in 1 .. Len(e) : e[i] = p[b + i - 1] /\ e[i].id = b + i - 1
      /\ last \in 0 .. Len(e)
      /\ last # 0 => e[last].covers \subseteq 1 .. From(p) - 1
      /\ start \in 1 .. Len(e)
      /\ b + start - 1 = From(p)
  BY <1>2, BranchIs
<1>4. b \in 1 .. Len(p) /\ Len(p) \in Nat
  BY <1>2, BranchStartIs, PathSeq
<1>5. point.first \in start .. Len(e) /\ (point.turn = 0 \/ point.turn \in start .. point.first)
  BY <1>3, CutPointIs
<1>. DEFINE first == point.first
            opening == point.turn
            kept == b + first - 1
<1>6. /\ Len(e) = Len(p) - b + 1 /\ Len(e) \in Nat /\ b \in 1 .. Len(p) /\ Len(p) \in Nat
      /\ start \in 1 .. Len(e) /\ b + start - 1 = From(p)
      /\ first \in start .. Len(e) /\ (opening = 0 \/ opening \in start .. first)
      /\ kept = b + first - 1
  BY <1>3, <1>4, <1>5
<1>7. \A i \in 1 .. Len(e) : e[i] = p[b + i - 1] /\ e[i].id = b + i - 1
  BY <1>3
<1>8. prepared = [kept |-> e[first].id, history |-> before, prefix |-> prefix,
                  split |-> split, previous |-> previous]
  BY <1>1
<1>9. previous \subseteq 1 .. From(p) - 1
  BY <1>3
<1>. HIDE DEF e, b, last, start
<1>10. /\ before = Summarised(e, start, (IF split THEN opening ELSE first) - 1)
       /\ prefix = IF split THEN Summarised(e, opening, first - 1) ELSE {}
       /\ split <=> opening # 0
  OBVIOUS
<1>. HIDE DEF point, first, opening, kept, split, before, prefix, previous
<1>11. prepared.kept = kept /\ kept \in From(p) .. Len(p)
  <2>1. first \in 1 .. Len(e)
    BY <1>6
  <2>2. e[first].id = kept
    BY <1>6, <1>7, <2>1
  <2>. QED
    BY <1>6, <1>8, <2>2
<1>12. ASSUME NEW i \in start .. first - 1
       PROVE  /\ i \in 1 .. Len(e) /\ e[i] = p[b + i - 1] /\ e[i].id = b + i - 1
              /\ b + i - 1 \in 1 .. kept - 1
  <2>1. i \in 1 .. Len(e) /\ b + i - 1 \in 1 .. kept - 1
    BY <1>6
  <2>. QED
    BY <1>7, <2>1
<1>13. before \cup prefix \subseteq 1 .. kept - 1
  <2>1. before \subseteq {e[i].id : i \in start .. first - 1}
    <3>1. start .. (IF split THEN opening ELSE first) - 1 \subseteq start .. first - 1
      BY <1>6, <1>10
    <3>. QED
      BY <1>10, <3>1 DEF Summarised
  <2>2. prefix \subseteq {e[i].id : i \in start .. first - 1}
    <3>1. split => opening .. first - 1 \subseteq start .. first - 1
      BY <1>6, <1>10
    <3>. QED
      BY <1>10, <3>1 DEF Summarised
  <2>3. {e[i].id : i \in start .. first - 1} \subseteq 1 .. kept - 1
    BY <1>12
  <2>. QED
    BY <2>1, <2>2, <2>3
<1>14. ASSUME NEW i \in start .. first - 1, ~IsCompaction(e[i])
       PROVE  e[i].id \in before \cup prefix
  <2>1. CASE ~split
    BY <1>10, <1>14, <2>1 DEF Summarised
  <2>2. CASE split
    <3>1. i \in start .. opening - 1 \/ i \in opening .. first - 1
      BY <1>6, <1>10, <2>2
    <3>. QED
      BY <1>10, <1>14, <2>2, <3>1 DEF Summarised
  <2>. QED
    BY <2>1, <2>2
<1>15. /\ prepared.history = before /\ prepared.prefix = prefix /\ prepared.previous = previous
       /\ prepared.split = split
  BY <1>8
<1>16. Covered(prepared) \subseteq before \cup prefix \cup previous
       /\ before \cup prefix \subseteq Covered(prepared)
  BY <1>15 DEF Covered, AsksForHistory
<1>17. Covered(prepared) \subseteq 1 .. prepared.kept - 1
  <2>1. 1 .. From(p) - 1 \subseteq 1 .. kept - 1
    BY <1>6, <1>11
  <2>. QED
    BY <1>11, <1>9, <1>13, <1>16, <2>1
<1>18. ASSUME NEW k \in From(p) .. prepared.kept - 1, ~IsCompaction(p[k])
       PROVE  k \in Covered(prepared)
  <2>1. k - b + 1 \in start .. first - 1 /\ b + (k - b + 1) - 1 = k
    BY <1>6, <1>11
  <2>2. e[k - b + 1] = p[k] /\ e[k - b + 1].id = k
    BY <1>12, <2>1
  <2>. QED
    BY <1>14, <1>16, <1>18, <2>1, <2>2
<1>. QED
  BY <1>2, <1>11, <1>17, <1>18

LEMMA AppendIs ==
  ASSUME NEW p, p \in Seq(ToSet(p)), NEW entry
  PROVE  LET q == Append(p, entry)
         IN /\ q \in Seq(ToSet(q)) /\ Len(q) = Len(p) + 1 /\ Len(p) \in Nat
            /\ q # <<>> /\ DOMAIN q = 1 .. Len(p) + 1 /\ DOMAIN p = 1 .. Len(p)
            /\ q[Len(p) + 1] = entry
            /\ \A k \in 1 .. Len(p) : q[k] = p[k]
<1>. DEFINE q == Append(p, entry)
            S == ToSet(p) \cup {entry}
<1>1. p \in Seq(S) /\ entry \in S /\ Len(p) \in Nat
  <2>1. ToSet(p) \subseteq S
    OBVIOUS
  <2>. HIDE DEF S
  <2>. QED
    BY <2>1 DEF S
<1>. HIDE DEF S
<1>2. /\ q \in Seq(S) /\ Len(q) = Len(p) + 1 /\ q[Len(p) + 1] = entry
      /\ \A k \in 1 .. Len(p) : q[k] = p[k]
  BY <1>1, AppendProperties
<1>. HIDE DEF q
<1>3. q \in Seq(ToSet(q))
  <2>1. \A k \in 1 .. Len(q) : q[k] \in ToSet(q)
    BY <1>2 DEF ToSet
  <2>. QED
    BY <1>2, <2>1
<1>. QED
  BY <1>1, <1>2, <1>3 DEF q

\* An entry that is no compaction, or one that keeps no older entry than those
\* before, and covers what is older than that.
LEMMA ChainGrows ==
  ASSUME NEW p, Chained(p), NEW entry, entry.id = Len(p) + 1,
         IsCompaction(entry) =>
           /\ entry.kept \in 1 .. Len(p)
           /\ entry.covers \subseteq 1 .. entry.kept - 1
           /\ \A l \in 1 .. Len(p) : IsCompaction(p[l]) => p[l].kept <= entry.kept
  PROVE  Chained(Append(p, entry))
<1>. DEFINE q == Append(p, entry)
            n == Len(p)
<1>1. /\ q \in Seq(ToSet(q)) /\ n \in Nat /\ DOMAIN q = 1 .. n + 1 /\ DOMAIN p = 1 .. n
      /\ q[n + 1] = entry /\ \A k \in 1 .. n : q[k] = p[k]
  BY AppendIs DEF Chained
<1>. HIDE DEF q
<1>2. \A k \in DOMAIN q : q[k].id = k
  <2>. TAKE k \in DOMAIN q
  <2>1. CASE k = n + 1
    BY <1>1, <2>1
  <2>2. CASE k \in 1 .. n
    BY <1>1, <2>2 DEF Chained
  <2>. QED
    BY <1>1, <2>1, <2>2
<1>3. ASSUME NEW k \in DOMAIN q, IsCompaction(q[k])
      PROVE  /\ q[k].kept \in 1 .. k - 1
             /\ q[k].covers \subseteq 1 .. q[k].kept - 1
             /\ \A l \in 1 .. k - 1 : IsCompaction(q[l]) => q[l].kept <= q[k].kept
  <2>1. CASE k = n + 1
    <3>1. q[k] = entry /\ k - 1 = n
      BY <1>1, <2>1
    <3>. QED
      BY <1>1, <1>3, <3>1
  <2>2. CASE k \in 1 .. n
    <3>1. q[k] = p[k] /\ \A l \in 1 .. k - 1 : l \in 1 .. n /\ q[l] = p[l]
      BY <1>1, <2>2
    <3>. QED
      BY <1>1, <1>3, <2>2, <3>1 DEF Chained
  <2>. QED
    BY <1>1, <2>1, <2>2
<1>4. Chained(q)
  BY <1>1, <1>2, <1>3 DEF Chained
<1>. QED
  BY <1>4 DEF q

\* The path up to an entry is chained as the whole was.
LEMMA ChainCut ==
  ASSUME NEW p, Chained(p), NEW n \in 0 .. Len(p)
  PROVE  Chained(SubSeq(p, 1, n)) /\ Len(SubSeq(p, 1, n)) = n
<1>. DEFINE q == SubSeq(p, 1, n)
<1>1. p \in Seq(ToSet(p)) /\ Len(p) \in Nat /\ DOMAIN p = 1 .. Len(p)
  BY PathSeq
<1>2. q \in Seq(ToSet(p)) /\ Len(q) = n /\ \A k \in 1 .. n : q[k] = p[k]
  <2>1. 1 \in 1 .. Len(p) + 1 /\ n \in 1 - 1 .. Len(p)
    BY <1>1
  <2>2. /\ q \in Seq(ToSet(p)) /\ Len(q) = IF 1 <= n THEN n - 1 + 1 ELSE 0
        /\ \A k \in 1 .. n - 1 + 1 : q[k] = p[1 + k - 1]
    BY <1>1, <2>1, SubSeqProperties
  <2>. HIDE DEF q
  <2>. QED
    BY <2>2
<1>. HIDE DEF q
<1>3. q \in Seq(ToSet(q)) /\ DOMAIN q = 1 .. n
  <2>1. \A k \in 1 .. Len(q) : q[k] \in ToSet(q)
    BY <1>2 DEF ToSet
  <2>. QED
    BY <1>2, <2>1
<1>4. \A k \in 1 .. n : k \in DOMAIN p
  BY <1>1
<1>5. \A k \in 1 .. n : q[k].id = k
  BY <1>2, <1>4 DEF Chained
<1>6. ASSUME NEW k \in 1 .. n, IsCompaction(q[k])
      PROVE  /\ q[k].kept \in 1 .. k - 1
             /\ q[k].covers \subseteq 1 .. q[k].kept - 1
             /\ \A l \in 1 .. k - 1 : IsCompaction(q[l]) => q[l].kept <= q[k].kept
  <2>1. q[k] = p[k] /\ \A l \in 1 .. k - 1 : q[l] = p[l]
    BY <1>2
  <2>. QED
    BY <1>4, <1>6, <2>1 DEF Chained
<1>7. Chained(q)
  BY <1>3, <1>5, <1>6 DEF Chained
<1>. QED
  BY <1>2, <1>7 DEF q

\* The summary of a branch is made of all that is told from some entry on, and
\* of at most the one that is told before it.
LEMMA BranchPrepared ==
  ASSUME NEW entries, Len(entries) \in Nat, DOMAIN entries = 1 .. Len(entries),
         NEW budget, NEW a \in Int,
         \A i \in DOMAIN entries : entries[i].id = a + i
  PROVE  LET covers == PrepareBranch(entries, budget)
         IN \A i \in DOMAIN entries :
              IsTold(entries[i]) /\ (\E c \in covers : c < a + i) => a + i \in covers
<1>. DEFINE Heard == {k \in DOMAIN entries : IsTold(entries[k])}
            fits == {k \in Heard : budget = 0 \/ WeightFrom(entries, k) <= budget}
            first == Min({Len(entries) + 1} \cup fits)
            older == Heard \ first .. Len(entries)
            extra == {k \in older :
                        /\ \A l \in older : l <= k
                        /\ entries[k].kind \in {"compaction", "branchSummary"}
                        /\ 10 * WeightFrom(entries, first) < 9 * budget}
            covers == PrepareBranch(entries, budget)
<1>1. covers = {entries[k].id : k \in (Heard \ older) \cup extra}
  BY DEF PrepareBranch
<1>2. first \in Nat
  <2>. DEFINE S == {Len(entries) + 1} \cup fits
  <2>1. S \in SUBSET Nat /\ S # {}
    OBVIOUS
  <2>2. first = Min(S)
    OBVIOUS
  <2>. HIDE DEF S, first
  <2>. QED
    BY <2>1, <2>2, LeastNumber
<1>3. Heard \subseteq DOMAIN entries /\ extra \subseteq older
      /\ \A k \in extra : \A l \in older : l <= k
  OBVIOUS
<1>. HIDE DEF first, extra
<1>4. \A k \in Heard : k \in older <=> k < first
  BY <1>2
<1>5. older \subseteq Heard
  OBVIOUS
<1>. HIDE DEF older
<1>6. ASSUME NEW i \in DOMAIN entries, IsTold(entries[i]),
             NEW c \in covers, c < a + i
      PROVE  a + i \in covers
  <2>1. PICK k \in (Heard \ older) \cup extra : c = entries[k].id
    BY <1>1, <1>6
  <2>2. k \in DOMAIN entries /\ c = a + k /\ k < i
    BY <1>3, <1>5, <1>6, <2>1
  <2>3. i \in Heard
    BY <1>6
  <2>. HIDE DEF Heard
  <2>4. i \notin older
    <3>1. CASE k \in Heard \ older
      BY <1>2, <1>4, <2>2, <2>3, <3>1
    <3>2. CASE k \in extra
      BY <1>3, <2>2, <3>2
    <3>. QED
      BY <2>1, <3>1, <3>2
  <2>5. entries[i].id \in covers
    BY <1>1, <2>3, <2>4
  <2>. QED
    BY <2>5
<1>. QED
  BY <1>6

PathInv == Chained(path)

\* What a move leaves is the end of the path.
LEMMA LeftIs ==
  ASSUME PathInv, NEW target \in 0 .. Len(path) - 1
  PROVE  \E a \in 1 .. Len(path) + 1 :
           (IF target = 0 THEN DOMAIN path ELSE LeftBehind(target)) = a .. Len(path)
<1>1. Len(path) \in Nat /\ DOMAIN path = 1 .. Len(path) /\ path # <<>>
  BY PathSeq DEF PathInv
<1>2. CASE target = 0
  BY <1>1, <1>2
<1>3. CASE target # 0
  <2>. DEFINE common == IdsOf(Branch(path)) \cap IdsOf(Branch(SubSeq(path, 1, target)))
  <2>1. common \in SUBSET (0 .. Len(path))
    <3>. DEFINE e == Branch(path)
                b == BranchStart(path)
    <3>1. /\ e \in Seq(ToSet(path)) /\ Len(e) = Len(path) - b + 1
          /\ \A i \in 1 .. Len(e) : e[i].id = b + i - 1
      BY <1>1, BranchIs DEF PathInv
    <3>2. b \in 1 .. Len(path)
      BY <1>1, BranchStartIs DEF PathInv
    <3>. HIDE DEF e, b
    <3>3. \A i \in DOMAIN e : e[i].id \in 0 .. Len(path)
      BY <1>1, <3>1, <3>2
    <3>4. IdsOf(e) \subseteq 0 .. Len(path)
      BY <3>3 DEF IdsOf
    <3>. QED
      BY <3>4 DEF e
  <2>2. LeftBehind(target) = IF common = {} THEN DOMAIN path ELSE Max(common) + 1 .. Len(path)
    BY DEF LeftBehind
  <2>. HIDE DEF common
  <2>3. CASE common = {}
    BY <1>1, <1>3, <2>2, <2>3
  <2>4. CASE common # {}
    <3>1. Max(common) \in 0 .. Len(path)
      BY <1>1, <2>1, <2>4, GreatestNumber
    <3>2. Max(common) + 1 \in 1 .. Len(path) + 1
      BY <1>1, <3>1
    <3>. QED
      BY <1>3, <2>2, <2>4, <3>2
  <2>. QED
    BY <2>3, <2>4
<1>. QED
  BY <1>2, <1>3

\* So the summary of what a move leaves tells what came last of it.
LEMMA LeftIsTold ==
  ASSUME PathInv, NEW target \in 0 .. Len(path) - 1, NEW budget,
         PrepareBranch(EntriesBehind(target), budget) # {}
  PROVE  TellsTheLast(PrepareBranch(EntriesBehind(target), budget))
<1>. DEFINE left == IF target = 0 THEN DOMAIN path ELSE LeftBehind(target)
            e == EntriesBehind(target)
            covers == PrepareBranch(e, budget)
            n == Len(path)
<1>1. n \in Nat /\ DOMAIN path = 1 .. n /\ \A k \in DOMAIN path : path[k].id = k
  BY PathSeq DEF PathInv, Chained
<1>2. PICK a \in 1 .. n + 1 : left = a .. n
  BY LeftIs
<1>3. e = [k \in 1 .. Cardinality(left) |-> path[Min(left) + k - 1]]
  BY DEF EntriesBehind
<1>. HIDE DEF left, e, n
<1>4. Cardinality(left) = n - a + 1
  <2>1. a \in Int /\ n \in Int
    BY <1>1, <1>2
  <2>2. Cardinality(a .. n) = IF a > n THEN 0 ELSE n - a + 1
    BY <2>1, FS_Interval
  <2>. QED
    BY <1>1, <1>2, <2>2
<1>5. Len(e) = n - a + 1 /\ DOMAIN e = 1 .. Len(e) /\ Len(e) \in Nat
  <2>. DEFINE m == n - a + 1
  <2>1. m \in Nat
    BY <1>1, <1>2
  <2>2. e = [k \in 1 .. m |-> path[Min(left) + k - 1]]
    BY <1>3, <1>4
  <2>. HIDE DEF m
  <2>3. DOMAIN e = 1 .. m /\ Len(e) = m
    BY <2>1, <2>2
  <2>. QED
    BY <2>1, <2>3 DEF m
<1>6. \A i \in 1 .. Len(e) : e[i] = path[a - 1 + i] /\ a - 1 + i \in DOMAIN path
  <2>. TAKE i \in 1 .. Len(e)
  <2>1. a \in left
    BY <1>1, <1>2, <1>5
  <2>2. left # {} /\ left \in SUBSET Nat
    BY <1>1, <1>2, <2>1
  <2>3. Min(left) \in left /\ \A m \in left : Min(left) <= m
    BY <2>2, LeastNumber
  <2>4. Min(left) = a
    BY <1>1, <1>2, <2>3, <2>1
  <2>5. e[i] = path[Min(left) + i - 1]
    BY <1>3, <1>4, <1>5
  <2>6. Min(left) + i - 1 = a - 1 + i /\ a - 1 + i \in DOMAIN path
    BY <1>1, <1>2, <1>5, <2>4
  <2>. QED
    BY <2>5, <2>6
<1>7. \A i \in DOMAIN e : e[i].id = a - 1 + i
  BY <1>1, <1>5, <1>6
<1>8. \A i \in DOMAIN e : IsTold(e[i]) /\ (\E c \in covers : c < a - 1 + i)
                            => a - 1 + i \in covers
  <2>. DEFINE d == a - 1
  <2>1. d \in Int /\ \A i \in DOMAIN e : e[i].id = d + i
    BY <1>1, <1>2, <1>7
  <2>. HIDE DEF d, covers
  <2>2. \A i \in DOMAIN e : IsTold(e[i]) /\ (\E c \in covers : c < d + i) => d + i \in covers
    BY <1>5, <2>1, BranchPrepared DEF covers
  <2>. QED
    BY <2>2 DEF d
<1>9. \A c \in covers : c \in a .. n
  <2>1. \A k \in DOMAIN e : e[k].id \in a .. n
    BY <1>1, <1>2, <1>5, <1>7
  <2>2. covers \subseteq {e[k].id : k \in DOMAIN e}
    BY DEF PrepareBranch
  <2>. QED
    BY <2>1, <2>2
<1>. HIDE DEF covers
<1>10. ASSUME NEW k \in DOMAIN path, IsTold(path[k]), NEW c \in covers, c < k
       PROVE  k \in covers
  <2>1. k - a + 1 \in DOMAIN e /\ a - 1 + (k - a + 1) = k
    BY <1>1, <1>2, <1>5, <1>9, <1>10, SMTT(40)
  <2>2. e[k - a + 1] = path[k]
    BY <1>5, <1>6, <2>1
  <2>. QED
    BY <1>8, <1>10, <2>1, <2>2
<1>11. TellsTheLast(covers)
  BY <1>10 DEF TellsTheLast
<1>. QED
  BY <1>11 DEF covers, e

\* What is said is appended.
LEMMA PathPush ==
  ASSUME PathInv, NEW entry, Push(entry), entry.id = New, ~IsCompaction(entry)
  PROVE  PathInv'
<1>1. path' = Append(path, entry) /\ entry.id = Len(path) + 1
  BY DEF Push, New
<1>2. Chained(Append(path, entry))
  BY <1>1, ChainGrows DEF PathInv
<1>. QED
  BY <1>1, <1>2 DEF PathInv

LEMMA WorkKept ==
  ASSUME WorkInv, UNCHANGED <<scene, path, work, asking>>, asking # "none" \/ UNCHANGED call
  PROVE  WorkInv'
  BY DEF WorkInv, TellsTheLast

\* The path with the summary of a branch.
LEMMA SummaryPath ==
  ASSUME PathInv, NEW leaf \in 0 .. Len(path), path' = WithSummary(leaf)
  PROVE  PathInv'
<1>. DEFINE p == SubSeq(path, 1, leaf)
            entry == [id |-> leaf + 1, kind |-> "branchSummary"]
<1>1. Chained(p) /\ Len(p) = leaf
  BY ChainCut DEF PathInv
<1>2. entry.id = Len(p) + 1 /\ ~IsCompaction(entry)
  BY <1>1 DEF IsCompaction
<1>3. path' = Append(p, entry)
  BY DEF WithSummary
<1>. HIDE DEF p, entry
<1>4. Chained(Append(p, entry))
  BY <1>1, <1>2, ChainGrows
<1>. QED
  BY <1>3, <1>4 DEF PathInv

\* A move at once, or the call for its summary.
LEMMA LeaveKeeps ==
  ASSUME PathInv, WorkInv, NEW target \in 0 .. Len(path) - 1, NEW leaf \in 0 .. Len(path),
         Leave(target, leaf)
  PROVE  PathInv' /\ WorkInv'
<1>. DEFINE covers == PrepareBranch(EntriesBehind(target), scene.budget)
<1>1. asking = "none" /\ scene' = scene
  BY DEF Leave, Idle
<1>2. CASE path' = SubSeq(path, 1, leaf) /\ UNCHANGED <<work, asking, call, attempt, told>>
  <2>1. PathInv'
    BY <1>2, ChainCut DEF PathInv
  <2>. QED
    BY <1>1, <1>2, <2>1 DEF WorkInv
<1>3. CASE path' = WithSummary(leaf) /\ UNCHANGED <<work, asking, call, attempt, told>>
  <2>1. PathInv'
    BY <1>3, SummaryPath
  <2>. QED
    BY <1>1, <1>3, <2>1 DEF WorkInv
<1>4. CASE /\ covers # {} /\ asking' = "branch" /\ UNCHANGED path
           /\ work' = [leaf |-> leaf, editor |-> leaf + 1 .. target, covers |-> covers]
  <2>1. TellsTheLast(covers)
    BY <1>4, LeftIsTold
  <2>. HIDE DEF covers
  <2>2. work'.leaf = leaf /\ work'.covers = covers
    BY <1>4
  <2>. QED
    BY <1>4, <2>1, <2>2 DEF PathInv, WorkInv, TellsTheLast
<1>. QED
  BY <1>2, <1>3, <1>4 DEF Leave

\* The path with a compaction.
LEMMA CompactedKeeps ==
  ASSUME PathInv, WorkInv, Compacted
  PROVE  /\ PathInv' /\ WorkInv' /\ path' # <<>>
         /\ From(path') = work.kept
         /\ Len(path') = Len(path) + 1 /\ IsCompaction(path'[Len(path) + 1])
         /\ \A k \in 1 .. Len(path) : path'[k] = path[k]
         /\ PathInv /\ path # <<>> /\ work.kept \in From(path) .. Len(path)
         /\ Covered(work) \subseteq 1 .. work.kept - 1
         /\ \A k \in From(path) .. work.kept - 1 :
              ~IsCompaction(path[k]) => k \in Covered(work)
<1>. DEFINE entry == [id |-> New, kind |-> "compaction", kept |-> work.kept,
                      covers |-> Covered(work)]
            n == Len(path)
            q == Append(path, entry)
<1>1. path' = q /\ asking' = "none" /\ call' = "off"
  BY DEF Compacted, EndCompaction, R!HangUp
<1>2. work = PrepareCompaction(Branch(path), scene.keep) /\ work # Nothing
  BY DEF Compacted, WorkInv, R!HangUp
<1>3. /\ path # <<>> /\ work.kept \in From(path) .. n
      /\ Covered(work) \subseteq 1 .. work.kept - 1
      /\ \A k \in From(path) .. work.kept - 1 : ~IsCompaction(path[k]) => k \in Covered(work)
  BY <1>2, PreparedIs DEF PathInv
<1>4. /\ n \in Nat /\ DOMAIN path = 1 .. n /\ From(path) \in 1 .. n
      /\ \A l \in DOMAIN path : IsCompaction(path[l]) => path[l].kept <= From(path)
      /\ \A l \in DOMAIN path : IsCompaction(path[l]) => path[l].kept \in Nat
  BY <1>3, PathSeq, FromIs DEF PathInv, Chained
<1>5. /\ entry.id = n + 1 /\ IsCompaction(entry)
      /\ entry.kept = work.kept /\ entry.covers = Covered(work)
  BY DEF IsCompaction, New
<1>6. work.kept \in 1 .. n
      /\ \A l \in 1 .. n : IsCompaction(path[l]) => path[l].kept <= work.kept
  BY <1>3, <1>4
<1>. HIDE DEF entry, n
<1>7. Chained(q)
  BY <1>3, <1>5, <1>6, ChainGrows DEF PathInv, n
<1>8. /\ Len(q) = n + 1 /\ q # <<>> /\ DOMAIN q = 1 .. n + 1 /\ q[n + 1] = entry
      /\ \A k \in 1 .. n : q[k] = path[k]
  BY AppendIs DEF PathInv, Chained, n
<1>. HIDE DEF q
<1>9. From(q) = work.kept
  <2>1. n + 1 \in DOMAIN q /\ \A k \in n + 1 + 1 .. Len(q) : ~IsCompaction(q[k])
    BY <1>4, <1>8
  <2>2. IsCompaction(q[n + 1]) /\ q[n + 1].kept = work.kept
    BY <1>5, <1>8
  <2>. QED
    BY <1>7, <2>1, <2>2, FromIs
<1>10. PathInv' /\ WorkInv'
  BY <1>1, <1>7 DEF PathInv, WorkInv
<1>. QED
  BY <1>1, <1>3, <1>5, <1>8, <1>9, <1>10 DEF n

\* Each step keeps the path chained and the work under way that of the path.
LEMMA ConversationStep ==
  ASSUME PathInv, WorkInv, [ConversationNext]_allVars
  PROVE  PathInv' /\ WorkInv'
<1>1. Len(path) \in Nat
  BY PathSeq DEF PathInv
<1>2. CASE UNCHANGED allVars
  BY <1>2, WorkKept DEF PathInv, allVars
<1>3. ASSUME NEW entry, Push(entry), entry.id = New, ~IsCompaction(entry)
      PROVE  PathInv' /\ WorkInv'
  <2>1. PathInv'
    BY <1>3, PathPush
  <2>. QED
    BY <1>3, <2>1 DEF Push, Idle, WorkInv
<1>4. ASSUME NEW message, Push(Message(message))
      PROVE  PathInv' /\ WorkInv'
  <2>. DEFINE entry == Message(message)
  <2>1. entry.id = New /\ ~IsCompaction(entry)
    BY DEF Message, IsCompaction
  <2>2. Push(entry)
    BY <1>4
  <2>. HIDE DEF entry
  <2>. QED
    BY <2>1, <2>2, <1>3
<1>5. CASE Prompt
  <2>1. \E message : Push(Message(message))
    BY <1>5, ZenonT(30) DEF Prompt
  <2>. QED
    BY <2>1, <1>4
<1>6. CASE Notice
  <2>1. CASE \E message : Push(Message(message))
    BY <2>1, <1>4
  <2>2. CASE Push([id |-> New, kind |-> "custom"])
    <3>. DEFINE entry == [id |-> New, kind |-> "custom"]
    <3>1. entry.id = New /\ ~IsCompaction(entry)
      BY DEF IsCompaction
    <3>2. Push(entry)
      BY <2>2
    <3>. HIDE DEF entry
    <3>. QED
      BY <3>1, <3>2, <1>3
  <2>. QED
    BY <1>6, <2>1, <2>2, ZenonT(30) DEF Notice
<1>7. CASE Reply
  <2>1. \E message : Push(Message(message))
    BY <1>7, ZenonT(30) DEF Reply
  <2>. QED
    BY <2>1, <1>4
<1>8. CASE ToolResult
  <2>1. \E message : Push(Message(message))
    BY <1>8, ZenonT(30) DEF ToolResult
  <2>. QED
    BY <2>1, <1>4
<1>9. CASE Move
  <2>1. PICK target \in 0 .. Len(path) - 1 : Leave(target, target)
    BY <1>9 DEF Move
  <2>2. target \in 0 .. Len(path)
    BY <1>1
  <2>. QED
    BY <2>1, <2>2, LeaveKeeps
<1>10. CASE NavigateTree
  <2>1. PICK target \in 1 .. Len(path) - 1 : Leave(target, NewLeaf(target))
    BY <1>10 DEF NavigateTree
  <2>2. target \in 0 .. Len(path) - 1 /\ NewLeaf(target) \in 0 .. Len(path)
    BY <1>1 DEF NewLeaf
  <2>. QED
    BY <2>1, <2>2, LeaveKeeps
<1>11. CASE Compact
  <2>1. /\ UNCHANGED <<scene, path>> /\ work' # Nothing
        /\ work' = PrepareCompaction(Branch(path), scene.keep)
        /\ asking' \in {"history", "prefix"}
    BY <1>11 DEF Compact
  <2>. QED
    BY <2>1 DEF PathInv, WorkInv
<1>12. CASE Produce
  <2>1. asking # "none" /\ UNCHANGED <<scene, path, work, asking>>
    BY <1>12 DEF Produce, InCall, Idle, convVars
  <2>. QED
    BY <2>1, WorkKept DEF PathInv
<1>13. CASE AskForPrefix
  <2>1. asking = "history" /\ asking' = "prefix" /\ UNCHANGED <<scene, path, work>>
    BY <1>13 DEF AskForPrefix
  <2>. QED
    BY <2>1 DEF PathInv, WorkInv
<1>14. CASE Compacted
  BY <1>14, CompactedKeeps
<1>15. CASE Moved
  <2>1. /\ work.leaf \in 0 .. Len(path) /\ path' = WithSummary(work.leaf)
        /\ asking' = "none" /\ call' = "off"
    BY <1>15 DEF Moved, WorkInv, EndCompaction, R!HangUp
  <2>2. PathInv'
    BY <2>1, SummaryPath
  <2>. QED
    BY <2>1, <2>2 DEF WorkInv
<1>16. CASE CompactionFails
  BY <1>16 DEF CompactionFails, EndCompaction, R!HangUp, PathInv, WorkInv
<1>. QED
  BY <1>2, <1>5, <1>6, <1>7, <1>8, <1>9, <1>10, <1>11, <1>12, <1>13, <1>14, <1>15, <1>16
     DEF ConversationNext

\* What the context showed is kept or summarised, and not both.
LEMMA CompactionRemembers ==
  ASSUME PathInv, WorkInv, Compacted
  PROVE  ~CompactionForgets
<1>. DEFINE n == Len(path)
<1>1. /\ PathInv' /\ path' # <<>> /\ From(path') = work.kept
      /\ Len(path') = n + 1 /\ IsCompaction(path'[n + 1])
      /\ \A k \in 1 .. n : path'[k] = path[k]
      /\ path # <<>> /\ work.kept \in From(path) .. n
      /\ Covered(work) \subseteq 1 .. work.kept - 1
      /\ \A k \in From(path) .. work.kept - 1 : ~IsCompaction(path[k]) => k \in Covered(work)
  BY CompactedKeeps
<1>2. n \in Nat /\ From(path) \in 1 .. n
  BY <1>1, PathSeq, FromIs DEF PathInv
<1>3. Shown = {k \in From(path) .. n : ~IsCompaction(path[k])}
  BY <1>1, ContextIs DEF Shown, PathInv
<1>4. Shown' = {k \in From(path') .. Len(path') : ~IsCompaction(path'[k])}
  BY <1>1, ContextIs DEF Shown, PathInv
<1>. HIDE DEF n
<1>5. Shown' = {k \in work.kept .. n : ~IsCompaction(path[k])}
  <2>1. ASSUME NEW k \in work.kept .. n + 1, ~IsCompaction(path'[k])
        PROVE  k \in work.kept .. n /\ ~IsCompaction(path[k])
    <3>1. k # n + 1
      BY <1>1, <2>1
    <3>2. k \in work.kept .. n /\ k \in 1 .. n
      BY <1>1, <1>2, <3>1
    <3>. QED
      BY <1>1, <2>1, <3>2
  <2>2. ASSUME NEW k \in work.kept .. n, ~IsCompaction(path[k])
        PROVE  k \in work.kept .. n + 1 /\ ~IsCompaction(path'[k])
    <3>1. k \in work.kept .. n + 1 /\ k \in 1 .. n
      BY <1>1, <1>2
    <3>. QED
      BY <1>1, <2>2, <3>1
  <2>3. Shown' = {k \in work.kept .. n + 1 : ~IsCompaction(path'[k])}
    BY <1>1, <1>4
  <2>. QED
    BY <2>1, <2>2, <2>3
<1>6. Shown \subseteq Shown' \cup Covered(work)
  <2>1. ASSUME NEW k \in From(path) .. n, ~IsCompaction(path[k])
        PROVE  k \in Shown' \cup Covered(work)
    <3>1. k \in work.kept .. n \/ k \in From(path) .. work.kept - 1
      BY <1>1, <1>2
    <3>. QED
      BY <1>1, <1>5, <2>1, <3>1
  <2>. QED
    BY <1>3, <2>1
<1>7. Shown' \cap Covered(work) = {}
  BY <1>1, <1>2, <1>5
<1>. QED
  BY <1>6, <1>7 DEF CompactionForgets

\* What a move leaves is summarised, if it is told and not too old.
LEMMA MoveRemembers ==
  ASSUME PathInv, WorkInv, Moved
  PROVE  ~MoveForgets
<1>1. TellsTheLast(work.covers)
  BY DEF Moved, WorkInv
<1>2. Len(path) \in Nat /\ DOMAIN path = 1 .. Len(path)
  BY PathSeq DEF PathInv
<1>3. Shown \subseteq DOMAIN path
  <2>1. CASE path # <<>>
    <3>1. From(path) \in 1 .. Len(path)
      BY <2>1, FromIs DEF PathInv
    <3>2. Shown = {k \in From(path) .. Len(path) : ~IsCompaction(path[k])}
      BY <2>1, ContextIs DEF Shown, PathInv
    <3>. QED
      BY <1>2, <3>1, <3>2
  <2>2. CASE path = <<>>
    <3>1. Branch(path) = <<>>
      BY <2>2, EmptyBranch DEF PathInv
    <3>2. ContextEntries(Branch(path)) = <<>>
      <4>1. LastCompaction(<<>>) = 0
        <5>. DEFINE S == {0} \cup {k \in DOMAIN <<>> : IsCompaction(<<>>[k])}
        <5>1. S \in SUBSET (0 .. 0) /\ S # {}
          OBVIOUS
        <5>. HIDE DEF S
        <5>2. Max(S) \in S
          BY <5>1, GreatestNumber
        <5>. QED
          BY <5>1, <5>2 DEF LastCompaction, S
      <4>. QED
        BY <3>1, <4>1 DEF ContextEntries
    <3>. QED
      BY <3>2 DEF Shown, Contents
  <2>. QED
    BY <2>1, <2>2
<1>. QED
  BY <1>1, <1>3 DEF MoveForgets, TellsTheLast

\* A compaction forgets nothing that the context showed, and a move nothing that
\* its summary has room for (compact_session, navigate_tree): for conversations of
\* any length, any budget and any weights.
THEOREM NothingIsForgotten == ConversationSpec => KeptOrSummarised
<1>1. ConversationInit => PathInv /\ WorkInv
  BY DEF ConversationInit, PathInv, Chained, WorkInv, ToSet, R!RetryInit
<1>2. PathInv /\ WorkInv /\ [ConversationNext]_allVars => PathInv' /\ WorkInv'
  BY ConversationStep
<1>3. PathInv /\ WorkInv /\ [ConversationNext]_allVars
        => [(Compacted => ~CompactionForgets) /\ (Moved => ~MoveForgets)]_allVars
  BY CompactionRemembers, MoveRemembers
<1>. QED
  BY <1>1, <1>2, <1>3, PTL DEF ConversationSpec, KeptOrSummarised
=============================================================================
