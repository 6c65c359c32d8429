---------------------------- MODULE AgentProofs ----------------------------
(***************************************************************************)
(* Theorems about Agent, for every set of callers and every bound.         *)
(*                                                                         *)
(* OneRun is not inductive by itself: that a claim finds no caller inside  *)
(* a run follows from the guard, and that a waiter may return follows from *)
(* counting claims and settled runs.                                       *)
(***************************************************************************)
EXTENDS Agent, SequenceTheorems, TLAPS

\* A run is claimed and settled in turn, so at most the newest one is open.
Counted ==
  /\ claims \in Nat
  /\ settled \in Nat
  /\ claims = IF activeRun THEN settled + 1 ELSE settled

\* A waiter that found active_run cleared has seen its run settle.
WaitersSawRun ==
  \A c \in Callers :
    /\ watching[c] \in Nat
    /\ watching[c] <= claims
    /\ pc[c] = "waitStreaming" => watching[c] <= settled

RunInv ==
  /\ activeRun \in BOOLEAN
  /\ pc \in [Callers -> Pcs]
  /\ watching \in [Callers -> Nat]
  /\ OneRun
  /\ GuardHeld
  /\ Counted
  /\ WaitersSawRun

-----------------------------------------------------------------------------
\* Agent::new leaves no run open.
LEMMA RunInvInit == Init => RunInv
<1>. SUFFICES ASSUME Init PROVE RunInv
  OBVIOUS
<1>1. \A c \in Callers : pc[c] = "idle" /\ watching[c] = 0
  BY DEF Init
<1>2. pc \in [Callers -> Pcs] /\ watching \in [Callers -> Nat]
  BY DEF Init, Pcs
<1>3. OneRun /\ GuardHeld
  BY <1>1 DEF Init, OneRun, GuardHeld, InRun, RunPcs
<1>4. Counted /\ WaitersSawRun
  BY <1>1 DEF Init, Counted, WaitersSawRun
<1>. QED
  BY <1>2, <1>3, <1>4 DEF Init, RunInv

\* A step of a caller that stays outside, or inside, a run and leaves the guard
\* and the counters alone preserves the invariant.
LEMMA QuietStep ==
  ASSUME RunInv, NEW c \in Callers, NEW label \in Pcs,
         Goto(c, label) \/ UNCHANGED pc,
         label \in RunPcs <=> InRun(c),
         label # "waitStreaming",
         UNCHANGED <<activeRun, claims, settled, watching>>
  PROVE  RunInv'
<1>1. pc' \in [Callers -> Pcs]
  BY DEF RunInv, Goto
<1>2. \A d \in Callers : InRun(d)' <=> InRun(d)
  BY DEF RunInv, Goto, InRun
<1>3. OneRun' /\ GuardHeld'
  BY <1>2 DEF RunInv, OneRun, GuardHeld
<1>4. Counted'
  BY DEF RunInv, Counted
<1>5. WaitersSawRun'
  BY DEF RunInv, WaitersSawRun, Goto
<1>. QED
  BY <1>1, <1>3, <1>4, <1>5 DEF RunInv

\* Each step of each caller preserves the invariant.
LEMMA RunInvStep == RunInv /\ [Next]_vars => RunInv'
<1>. SUFFICES ASSUME RunInv, [Next]_vars PROVE RunInv'
  OBVIOUS
<1>1. CASE UNCHANGED vars
  BY <1>1 DEF vars, shared, threads, history, RunInv, OneRun, GuardHeld,
              InRun, Counted, WaitersSawRun
<1>2. ASSUME NEW c \in Callers, Start(c) PROVE RunInv'
  <2>1. CASE Abort(c) \/ Queue(c)
    <3>. UNCHANGED <<pc, activeRun, claims, settled, watching>>
      BY <2>1 DEF Abort, Queue, Call, threads
    <3>. QED
      BY DEF RunInv, OneRun, GuardHeld, InRun, Counted, WaitersSawRun
  <2>2. CASE Prompt(c)
    BY <2>2, QuietStep DEF Prompt, Call, Goto, shared, InRun, RunPcs, Pcs
  <2>3. CASE Continue(c)
    BY <2>3, QuietStep DEF Continue, Call, shared, InRun, RunPcs, Pcs
  <2>4. CASE Reset(c)
    BY <2>4, QuietStep DEF Reset, Call, InRun, RunPcs, Pcs
  <2>5. CASE Wait(c)
    <3>1. /\ pc[c] = "idle"
          /\ pc' = [pc EXCEPT ![c] = "waitActive"]
          /\ watching' = [watching EXCEPT ![c] = claims]
          /\ UNCHANGED <<activeRun, claims, settled>>
      BY <2>5 DEF Wait, Call, Goto, shared
    <3>2. \A d \in Callers : InRun(d)' <=> InRun(d)
      BY <3>1 DEF RunInv, InRun, RunPcs
    <3>3. OneRun' /\ GuardHeld' /\ Counted'
      BY <3>1, <3>2 DEF RunInv, OneRun, GuardHeld, Counted
    <3>4. WaitersSawRun'
      BY <3>1 DEF RunInv, WaitersSawRun, Counted
    <3>. QED
      BY <3>1, <3>3, <3>4 DEF RunInv, Pcs, Counted
  <2>. QED
    BY <1>2, <2>1, <2>2, <2>3, <2>4, <2>5 DEF Start
<1>3. ASSUME NEW c \in Callers, Step(c) PROVE RunInv'
  <2>1. CASE CheckBusy(c)
    BY <2>1, QuietStep
       DEF CheckBusy, Busy, Refuse, Proceed, Goto, shared, InRun, RunPcs, Pcs
  <2>2. CASE ContinueTail(c)
    BY <2>2, QuietStep
       DEF ContinueTail, Refuse, Proceed, shared, InRun, RunPcs, Pcs
  <2>3. CASE DrainSteering(c)
    BY <2>3, QuietStep DEF DrainSteering, history, InRun, RunPcs, Pcs
  <2>4. CASE DrainFollowUp(c)
    BY <2>4, QuietStep DEF DrainFollowUp, history, InRun, RunPcs, Pcs
  <2>5. CASE Claim(c)
    <3>1. CASE ClaimBlocked
      BY <2>5, <3>1, QuietStep DEF Claim, Refuse, InRun, RunPcs, Pcs
    <3>2. CASE ~ClaimBlocked
      <4>1. /\ ~activeRun /\ activeRun'
            /\ pc' = [pc EXCEPT ![c] = "clearAbort"]
            /\ claims' = claims + 1
            /\ UNCHANGED <<settled, watching>>
        BY <2>5, <3>2 DEF Claim, ClaimBlocked, Proceed, Goto
      <4>2. \A d \in Callers : InRun(d)' <=> d = c
        BY <4>1 DEF RunInv, GuardHeld, InRun, RunPcs
      <4>3. OneRun' /\ GuardHeld'
        BY <4>1, <4>2 DEF OneRun, GuardHeld
      <4>4. Counted' /\ WaitersSawRun'
        BY <4>1 DEF RunInv, Counted, WaitersSawRun
      <4>5. activeRun' \in BOOLEAN
        BY <2>5, <3>2 DEF Claim
      <4>. QED
        BY <4>1, <4>3, <4>4, <4>5 DEF RunInv, Pcs, RunPcs
    <3>. QED
      BY <3>1, <3>2
  <2>6. CASE ClearAbort(c)
    BY <2>6, QuietStep DEF ClearAbort, history, InRun, RunPcs, Pcs
  <2>7. CASE BeginRun(c)
    BY <2>7, QuietStep DEF BeginRun, InRun, RunPcs, Pcs
  <2>8. CASE EndRun(c)
    BY <2>8, QuietStep DEF EndRun, shared, history, InRun, RunPcs, Pcs
  <2>16. CASE FailRun(c)
    BY <2>16, QuietStep DEF FailRun, InRun, RunPcs, Pcs
  <2>17. CASE Inject(c)
    <3>. UNCHANGED <<pc, activeRun, claims, settled, watching>>
      BY <2>17 DEF Inject
    <3>. QED
      BY DEF RunInv, OneRun, GuardHeld, InRun, Counted, WaitersSawRun
  <2>9. CASE ReleaseState(c)
    BY <2>9, QuietStep DEF ReleaseState, history, InRun, RunPcs, Pcs
  <2>10. CASE Deactivate(c)
    <3>1. /\ InRun(c)
          /\ activeRun' = FALSE
          /\ pc' = [pc EXCEPT ![c] = "notifyRun"]
          /\ settled' = settled + 1
          /\ UNCHANGED <<claims, watching>>
      BY <2>10 DEF Deactivate, Goto, InRun, RunPcs
    <3>2. \A d \in Callers : ~InRun(d)'
      BY <3>1 DEF RunInv, OneRun, InRun, RunPcs
    <3>3. OneRun' /\ GuardHeld'
      BY <3>1, <3>2 DEF OneRun, GuardHeld
    <3>4. activeRun
      BY <3>1 DEF RunInv, GuardHeld
    <3>5. Counted' /\ WaitersSawRun'
      BY <3>1, <3>4 DEF RunInv, Counted, WaitersSawRun
    <3>. QED
      BY <3>1, <3>3, <3>5 DEF RunInv, Pcs
  <2>11. CASE NotifyRun(c)
    BY <2>11, QuietStep DEF NotifyRun, shared, history, InRun, RunPcs, Pcs
  <2>12. CASE ResetAbort(c) \/ ResetStore(c) \/ ResetNotify(c)
    BY <2>12, QuietStep
       DEF ResetAbort, ResetStore, ResetNotify, shared, history, InRun, RunPcs,
           Pcs
  <2>13. CASE ResetQueues(c)
    BY <2>13, QuietStep DEF ResetQueues, InRun, RunPcs, Pcs
  <2>14. CASE WaitCheck(c)
    <3>1. CASE pc[c] = "waitActive" /\ ~activeRun
      <4>1. /\ pc' = [pc EXCEPT ![c] = "waitStreaming"]
            /\ UNCHANGED <<activeRun, claims, settled, watching>>
        BY <2>14, <3>1 DEF WaitCheck, Goto, shared, history
      <4>2. \A d \in Callers : InRun(d)' <=> InRun(d)
        BY <3>1, <4>1 DEF RunInv, InRun, RunPcs
      <4>3. OneRun' /\ GuardHeld' /\ Counted'
        BY <4>1, <4>2 DEF RunInv, OneRun, GuardHeld, Counted
      <4>4. WaitersSawRun'
        BY <3>1, <4>1 DEF RunInv, WaitersSawRun, Counted
      <4>. QED
        BY <4>1, <4>3, <4>4 DEF RunInv, Pcs
    <3>2. CASE ~(pc[c] = "waitActive" /\ ~activeRun)
      BY <2>14, <3>2, QuietStep
         DEF WaitCheck, WaitReturns, shared, history, InRun, RunPcs, Pcs
    <3>. QED
      BY <3>1, <3>2
  <2>15. CASE Awake(c)
    BY <2>15, QuietStep DEF Awake, shared, history, InRun, RunPcs, Pcs
  <2>. QED
    BY <1>3, <2>1, <2>2, <2>3, <2>4, <2>5, <2>6, <2>7, <2>8, <2>9, <2>10,
       <2>11, <2>12, <2>13, <2>14, <2>15, <2>16, <2>17 DEF Step
<1>4. ASSUME NEW c \in Callers, Work(c) PROVE RunInv'
  <2>. UNCHANGED <<pc, activeRun, claims, settled, watching>>
    BY <1>4 DEF Work, Emit, Poll, threads, history
  <2>. QED
    BY DEF RunInv, OneRun, GuardHeld, InRun, Counted, WaitersSawRun
<1>. QED
  BY <1>1, <1>2, <1>3, <1>4 DEF Next

THEOREM RunInvariant == Spec => []RunInv
BY RunInvInit, RunInvStep, PTL DEF Spec

\* run_with_skip admits one run at a time.
THEOREM OneRunAtATime == Spec => []OneRun
<1>1. RunInv => OneRun
  BY DEF RunInv
<1>. QED
  BY <1>1, RunInvariant, PTL

\* active_run is set exactly while a caller is inside a run; reset does not
\* touch it.
THEOREM GuardIsHeld == Spec => []GuardHeld
<1>1. RunInv => GuardHeld
  BY DEF RunInv
<1>. QED
  BY <1>1, RunInvariant, PTL

\* wait_for_idle does not return before the run it found in progress settled.
THEOREM WaitsForTheRun == Spec => WaitsForRun
<1>1. ASSUME RunInv, [Next]_vars, NEW c \in Callers,
             pc[c] \in {"waitActive", "waitStreaming"}, pc'[c] = "idle"
      PROVE  settled >= watching[c]
  <2>1. PICK d \in Callers : Start(d) \/ Step(d) \/ Work(d)
    BY <1>1 DEF Next, vars, threads
  <2>2. d = c
    BY <1>1, <2>1
       DEF RunInv, Start, Step, Work, Abort, Queue, Prompt, Continue, Reset,
           Wait, Call, CheckBusy, Busy, Refuse, Proceed, ContinueTail,
           DrainSteering, DrainFollowUp, Claim, ClearAbort, BeginRun, Inject,
           FailRun, EndRun, ReleaseState, Deactivate, NotifyRun, ResetAbort, ResetStore,
           ResetQueues, ResetNotify, WaitCheck, WaitReturns, Awake, Emit, Poll,
           Goto, threads
  <2>3. WaitCheck(c)
    BY <1>1, <2>1, <2>2
       DEF Start, Step, Work, Abort, Queue, Prompt, Continue, Reset, Wait,
           Call, CheckBusy, Busy, ContinueTail, DrainSteering, DrainFollowUp,
           Claim, ClearAbort, BeginRun, Inject, FailRun, EndRun, ReleaseState,
           Deactivate, NotifyRun, ResetAbort, ResetStore, ResetQueues, ResetNotify, Awake,
           Emit, Poll
  <2>4. pc[c] = "waitStreaming"
    BY <1>1, <2>3 DEF WaitCheck, Goto, RunInv
  <2>. QED
    BY <1>1, <2>4 DEF RunInv, WaitersSawRun, Counted
<1>2. RunInv /\ [Next]_vars =>
        [\A c \in Callers :
           pc[c] \in {"waitActive", "waitStreaming"} /\ pc'[c] = "idle"
             => settled >= watching[c]]_vars
  BY <1>1
<1>. QED
  BY <1>2, RunInvariant, PTL DEF Spec, WaitsForRun

-----------------------------------------------------------------------------
(* Type correctness                                                        *)

\* What drain_now takes and leaves are messages.
LEMMA DrainType ==
  ASSUME NEW queue \in Seq(Messages), NEW k \in Takes(queue)
  PROVE  /\ SubSeq(queue, 1, k) \in Seq(Messages)
         /\ Remaining(queue, k) \in Seq(Messages)
         /\ Elements(SubSeq(queue, 1, k)) \subseteq Messages
<1>1. k \in 0 .. Len(queue)
  BY DEF Takes
<1>2. SubSeq(queue, 1, k) \in Seq(Messages)
  BY <1>1, SubSeqProperties
<1>3. SubSeq(queue, k + 1, Len(queue)) \in Seq(Messages)
  BY <1>1, SubSeqProperties
<1>4. Elements(SubSeq(queue, 1, k)) \subseteq Messages
  BY <1>2 DEF Elements
<1>. QED
  BY <1>2, <1>3, <1>4 DEF Remaining

LEMMA ElementsType ==
  ASSUME NEW queue \in Seq(Messages)
  PROVE  Elements(queue) \subseteq Messages
BY DEF Elements

\* A step of the calls keeps every type.
LEMMA TypeStep == TypeOK /\ [Next]_vars => TypeOK'
<1>. SUFFICES ASSUME TypeOK, [Next]_vars PROVE TypeOK'
  OBVIOUS
<1>. USE AgentAssumption DEF TypeOK
<1>1. CASE UNCHANGED vars
  BY <1>1 DEF vars, shared, threads, history
<1>2. ASSUME NEW c \in Callers, Start(c) PROVE TypeOK'
  <2>1. CASE Abort(c)
    BY <2>1 DEF Abort, Call, threads
  <2>2. CASE Queue(c)
    <3>1. written + 1 \in Messages /\ written + 1 \in 0 .. MaxMessages
      BY <2>2 DEF Queue, Messages
    <3>2. /\ Append(steering, written + 1) \in Seq(Messages)
          /\ Append(followUp, written + 1) \in Seq(Messages)
      BY <3>1, AppendProperties
    <3>3. steering' \in Seq(Messages) /\ followUp' \in Seq(Messages)
      BY <2>2, <3>2 DEF Queue
    <3>. QED
      BY <2>2, <3>1, <3>3 DEF Queue, Call, threads
  <2>3. CASE Prompt(c)
    <3>1. written + 1 \in Messages /\ written + 1 \in 0 .. MaxMessages
      BY <2>3 DEF Prompt, Messages
    <3>2. <<written + 1>> \in Seq(Messages)
      BY <3>1
    <3>. QED
      BY <2>3, <3>1, <3>2 DEF Prompt, Call, Goto, shared, Pcs
  <2>4. CASE Continue(c)
    BY <2>4 DEF Continue, Call, Goto, shared, Pcs
  <2>5. CASE Reset(c)
    <3>1. pc' \in [Callers -> Pcs]
      BY <2>5 DEF Reset, Call, Goto, Pcs
    <3>2. isStreaming' \in BOOLEAN
      BY <2>5, Zenon DEF Reset
    <3>3. called' \in 0 .. MaxCalls
      BY <2>5 DEF Reset, Call
    <3>4. tail' \in {"none", "user", "assistant", "toolResult"}
      BY <2>5 DEF Reset
    <3>. QED
      BY <2>5, <3>1, <3>2, <3>3, <3>4 DEF Reset
  <2>6. CASE Wait(c)
    BY <2>6 DEF Wait, Call, Register, Goto, shared, Pcs
  <2>. QED
    BY <1>2, <2>1, <2>2, <2>3, <2>4, <2>5, <2>6 DEF Start
<1>3. ASSUME NEW c \in Callers, Step(c) PROVE TypeOK'
  <2>1. ASSUME Refuse(c)
        PROVE  /\ pc' \in [Callers -> Pcs]
               /\ refused' \subseteq Messages
               /\ taken' \in [Callers -> Seq(Messages)]
    BY <2>1, ElementsType DEF Refuse, Goto, Pcs
  <2>2. ASSUME NEW label \in Pcs, Proceed(c, label)
        PROVE  /\ pc' \in [Callers -> Pcs]
               /\ refused' \subseteq Messages
               /\ taken' \in [Callers -> Seq(Messages)]
    BY <2>2 DEF Proceed, Goto
  <2>3. CASE CheckBusy(c)
    <3>1. \/ Refuse(c)
          \/ \E label \in Pcs : Proceed(c, label)
      BY <2>3 DEF CheckBusy, Busy, Pcs
    <3>. QED
      BY <2>1, <2>2, <2>3, <3>1 DEF CheckBusy, Busy, shared
  <2>4. CASE ContinueTail(c)
    <3>1. \/ Refuse(c)
          \/ \E label \in Pcs : Proceed(c, label)
      BY <2>4 DEF ContinueTail, Pcs
    <3>. QED
      BY <2>1, <2>2, <2>4, <3>1 DEF ContinueTail, shared
  <2>5. CASE DrainSteering(c)
    BY <2>5, DrainType DEF DrainSteering, Goto, history, Pcs
  <2>6. CASE DrainFollowUp(c)
    BY <2>6, DrainType DEF DrainFollowUp, Goto, history, Pcs
  <2>7. CASE Claim(c)
    <3>1. CASE ClaimBlocked
      BY <2>1, <2>7, <3>1 DEF Claim
    <3>2. CASE ~ClaimBlocked
      <4>1. "clearAbort" \in Pcs
        BY DEF Pcs, RunPcs
      <4>2. emits' \in 0 .. MaxEmits + 1
        BY <2>7, <3>2 DEF Claim
      <4>. QED
        BY <2>2, <2>7, <3>2, <4>1, <4>2 DEF Claim
    <3>. QED
      BY <3>1, <3>2
  <2>8. CASE ClearAbort(c)
    BY <2>8 DEF ClearAbort, Goto, history, Pcs, RunPcs
  <2>9. CASE BeginRun(c)
    BY <2>9, ElementsType DEF BeginRun, Goto, Pcs, RunPcs
  <2>17. CASE Inject(c) \/ FailRun(c)
    <3>1. /\ delivered' \subseteq Messages /\ lost' \subseteq Messages
          /\ taken' \in [Callers -> Seq(Messages)] /\ pc' \in [Callers -> Pcs]
      <4>1. CASE Inject(c)
        BY <4>1, EmptySeq, ElementsType DEF Inject
      <4>2. CASE FailRun(c)
        BY <4>2, EmptySeq, ElementsType DEF FailRun, Goto, Pcs, RunPcs
      <4>. QED
        BY <2>17, <4>1, <4>2
    <3>. QED
      BY <2>17, <3>1 DEF Inject, FailRun
  <2>10. CASE EndRun(c) \/ ReleaseState(c)
    BY <2>10 DEF EndRun, ReleaseState, Goto, shared, history, Pcs, RunPcs
  <2>11. CASE Deactivate(c)
    <3>1. pc' \in [Callers -> Pcs]
      BY <2>11 DEF Deactivate, Goto, Pcs
    <3>2. activeRun' \in BOOLEAN
      BY <2>11, Zenon DEF Deactivate
    <3>3. settled' \in Nat
      BY <2>11 DEF Deactivate
    <3>. QED
      BY <2>11, <3>1, <3>2, <3>3 DEF Deactivate
  <2>12. CASE NotifyRun(c) \/ ResetNotify(c)
    BY <2>12
       DEF NotifyRun, ResetNotify, NotifyWaiters, Goto, shared, history, Pcs
  <2>13. CASE ResetAbort(c) \/ ResetStore(c)
    BY <2>13 DEF ResetAbort, ResetStore, Goto, shared, history, Pcs
  <2>14. CASE ResetQueues(c)
    <3>1. pc' \in [Callers -> Pcs]
      BY <2>14 DEF ResetQueues, Goto, Pcs
    <3>2. refused' \subseteq Messages
      BY <2>14, ElementsType DEF ResetQueues
    <3>3. <<>> \in Seq(Messages)
      BY EmptySeq
    <3>4. steering' \in Seq(Messages) /\ followUp' \in Seq(Messages)
      BY <2>14, <3>3 DEF ResetQueues
    <3>. QED
      BY <2>14, <3>1, <3>2, <3>4 DEF ResetQueues
  <2>15. CASE WaitCheck(c)
    BY <2>15 DEF WaitCheck, WaitReturns, Goto, shared, history, Pcs
  <2>16. CASE Awake(c)
    BY <2>16 DEF Awake, Register, Goto, shared, history, Pcs
  <2>. QED
    BY <1>3, <2>3, <2>4, <2>5, <2>6, <2>7, <2>8, <2>9, <2>10, <2>11, <2>12,
       <2>13, <2>14, <2>15, <2>16, <2>17 DEF Step
<1>4. ASSUME NEW c \in Callers, Work(c) PROVE TypeOK'
  <2>1. CASE Emit(c)
    BY <2>1 DEF Emit, threads
  <2>2. CASE Poll(c)
    BY <2>2, DrainType DEF Poll, history
  <2>. QED
    BY <1>4, <2>1, <2>2 DEF Work
<1>. QED
  BY <1>1, <1>2, <1>3, <1>4 DEF Next

\* Agent keeps its types.
THEOREM TypeCorrect == Spec => []TypeOK
<1>1. Init => TypeOK
  <2>. SUFFICES ASSUME Init PROVE TypeOK
    OBVIOUS
  <2>1. pc \in [Callers -> Pcs]
    BY DEF Init, Pcs
  <2>2. taken \in [Callers -> Seq(Messages)]
    BY DEF Init
  <2>3. /\ wake \in [Callers -> BOOLEAN] /\ watching \in [Callers -> Nat]
        /\ steering \in Seq(Messages) /\ followUp \in Seq(Messages)
    BY DEF Init
  <2>4. /\ activeRun \in BOOLEAN /\ isStreaming \in BOOLEAN
        /\ abortFlag \in BOOLEAN
    BY Zenon DEF Init
  <2>5. /\ tail \in {"none", "user", "assistant", "toolResult"}
        /\ emits \in 0 .. MaxEmits + 1 /\ written \in 0 .. MaxMessages
        /\ called \in 0 .. MaxCalls /\ claims \in Nat /\ settled \in Nat
        /\ aborted \in Nat
    BY AgentAssumption DEF Init
  <2>6. notified \subseteq Callers /\ delivered \subseteq Messages
        /\ refused \subseteq Messages /\ lost \subseteq Messages
    BY DEF Init
  <2>. QED
    BY <2>1, <2>2, <2>3, <2>4, <2>5, <2>6 DEF TypeOK
<1>. QED
  BY <1>1, TypeStep, PTL DEF Spec

-----------------------------------------------------------------------------
(* Where the messages are                                                  *)

\* The places of n messages: two queues, what the callers carry, what was
\* delivered, what was dropped.  Every message has one.
Placed(queue, other, carried, kept, dropped, n) ==
  /\ \A m \in Nat :
       m \in 1 .. n <=> \/ m \in queue \/ m \in other \/ m \in kept \/ m \in dropped
                        \/ \E c \in Callers : m \in carried[c]
  /\ \A m \in Nat :
       /\ m \in queue => m \notin other /\ m \notin kept /\ m \notin dropped
       /\ m \in other => m \notin kept /\ m \notin dropped
       /\ m \in kept => m \notin dropped
  /\ \A m \in Nat, c \in Callers : m \in carried[c] =>
       /\ m \notin queue /\ m \notin other /\ m \notin kept /\ m \notin dropped
       /\ \A d \in Callers : m \in carried[d] => d = c

Hands == [c \in Callers |-> Elements(taken[c])]

\* A queue without repetition.
Distinct(queue) ==
  \A i, j \in 1 .. Len(queue) : queue[i] = queue[j] => i = j

\* Where a call may carry messages.
Carriers == {"promptBusy", "promptBusy2", "followUpBusy", "followUpBusy2",
             "claim", "clearAbort", "begin", "running"}

\* Every message has one place, no queue repeats one, and a call that is past
\* its claim and its refusal carries nothing: what it is given next replaces
\* nothing.
Accounted ==
  /\ Placed(Elements(steering), Elements(followUp), Hands, delivered, Dropped,
            written)
  /\ Distinct(steering) /\ Distinct(followUp)
  /\ \A c \in Callers : pc[c] \notin Carriers => taken[c] = <<>>

\* The two queues, and the two ends of a message, are alike.
LEMMA PlacesAlike ==
  ASSUME NEW S, NEW F, NEW T, NEW D, NEW R, NEW n, Placed(S, F, T, D, R, n)
  PROVE  Placed(F, S, T, D, R, n) /\ Placed(S, F, T, R, D, n)
BY DEF Placed

\* A message is written into a queue, or by the caller that carries it.
LEMMA WrittenIsPlaced ==
  ASSUME NEW S, NEW F, NEW T, NEW D, NEW R, NEW n \in Nat, Placed(S, F, T, D, R, n)
  PROVE  /\ Placed(S \cup {n + 1}, F, T, D, R, n + 1)
         /\ \A U : \A c \in Callers :
              /\ T[c] = {} /\ U[c] = {n + 1}
              /\ \A d \in Callers \ {c} : U[d] = T[d]
              => Placed(S, F, U, D, R, n + 1)
<1>1. /\ \A m \in Nat : m \in 1 .. n + 1 <=> m \in 1 .. n \/ m = n + 1
      /\ n + 1 \in Nat /\ n + 1 \notin 1 .. n
  OBVIOUS
<1>2. /\ n + 1 \notin S /\ n + 1 \notin F /\ n + 1 \notin D /\ n + 1 \notin R
      /\ \A c \in Callers : n + 1 \notin T[c]
  BY <1>1 DEF Placed
<1>3. Placed(S \cup {n + 1}, F, T, D, R, n + 1)
  BY <1>1, <1>2 DEF Placed
<1>4. ASSUME NEW U, NEW c \in Callers, T[c] = {}, U[c] = {n + 1},
             \A d \in Callers \ {c} : U[d] = T[d]
      PROVE  Placed(S, F, U, D, R, n + 1)
  <2>1. \A m : \A d \in Callers :
          m \in U[d] <=> m \in T[d] \/ (m = n + 1 /\ d = c)
    BY <1>4
  <2>. QED
    BY <1>1, <1>2, <2>1 DEF Placed
<1>. QED
  BY <1>3, <1>4

\* What a caller carries is dropped with its call.
LEMMA DroppedIsPlaced ==
  ASSUME NEW S, NEW F, NEW T, NEW D, NEW R, NEW n, Placed(S, F, T, D, R, n),
         NEW c \in Callers, NEW U, U[c] = {}, \A d \in Callers \ {c} : U[d] = T[d]
  PROVE  Placed(S, F, U, D, R \cup T[c], n)
<1>1. \A m : \A d \in Callers : m \in U[d] <=> m \in T[d] /\ d # c
  OBVIOUS
<1>. QED
  BY <1>1 DEF Placed

\* A part of a queue is handed to a caller that has nothing, or is dropped.
LEMMA DrainedIsPlaced ==
  ASSUME NEW S, NEW F, NEW T, NEW D, NEW R, NEW n, Placed(S, F, T, D, R, n),
         NEW X, NEW Y, S = X \cup Y, X \cap Y = {}
  PROVE  /\ Placed(Y, F, T, D, R \cup X, n)
         /\ \A U : \A c \in Callers :
              /\ T[c] = {} /\ U[c] = X /\ \A d \in Callers \ {c} : U[d] = T[d]
              => Placed(Y, F, U, D, R, n)
<1>1. Placed(Y, F, T, D, R \cup X, n)
  BY DEF Placed
<1>2. ASSUME NEW U, NEW c \in Callers, T[c] = {}, U[c] = X,
             \A d \in Callers \ {c} : U[d] = T[d]
      PROVE  Placed(Y, F, U, D, R, n)
  <2>1. \A m : \A d \in Callers :
          m \in U[d] <=> m \in T[d] \/ (m \in X /\ d = c)
    BY <1>2
  <2>. QED
    BY <2>1 DEF Placed
<1>. QED
  BY <1>1, <1>2

\* A queue is cut where a drain stops.
LEMMA CutQueue ==
  ASSUME NEW queue \in Seq(Messages), NEW k \in Takes(queue), Distinct(queue)
  PROVE  /\ Elements(queue) = Elements(SubSeq(queue, 1, k))
                                \cup Elements(Remaining(queue, k))
         /\ Elements(SubSeq(queue, 1, k)) \cap Elements(Remaining(queue, k)) = {}
         /\ Distinct(Remaining(queue, k))
<1> DEFINE first == SubSeq(queue, 1, k)
           rest == Remaining(queue, k)
           n == Len(queue)
<1>1. n \in Nat /\ k \in 0 .. n /\ DOMAIN queue = 1 .. n
  BY DEF Takes
<1>2. DOMAIN first = 1 .. k /\ \A i \in 1 .. k : first[i] = queue[i]
  BY <1>1, SubSeqProperties
<1>3. /\ Len(rest) = n - k /\ DOMAIN rest = 1 .. n - k
      /\ \A i \in 1 .. n - k : rest[i] = queue[k + i]
  <2>1. /\ rest \in Seq(Messages)
        /\ Len(rest) = IF k + 1 <= n THEN n - (k + 1) + 1 ELSE 0
        /\ \A i \in 1 .. n - (k + 1) + 1 : rest[i] = queue[(k + 1) + i - 1]
    BY <1>1, SubSeqProperties DEF Remaining
  <2> HIDE DEF rest, n
  <2>2. Len(rest) = n - k
    <3>1. CASE k + 1 <= n
      BY <1>1, <2>1, <3>1
    <3>2. CASE ~(k + 1 <= n)
      BY <1>1, <2>1, <3>2
    <3>. QED
      BY <3>1, <3>2
  <2>4. DOMAIN rest = 1 .. Len(rest)
    BY <2>1
  <2>3. n - (k + 1) + 1 = n - k /\ \A i \in 1 .. n - k : (k + 1) + i - 1 = k + i
    BY <1>1
  <2>. QED
    BY <2>1, <2>2, <2>3, <2>4
<1>4. \A i, j \in 1 .. n : queue[i] = queue[j] => i = j
  BY DEF Distinct
<1> HIDE DEF first, rest, n
<1>5. ASSUME NEW m, m \in Elements(queue) PROVE m \in Elements(first) \cup Elements(rest)
  <2>1. PICK i \in 1 .. n : m = queue[i]
    BY <1>1, <1>5 DEF Elements
  <2>2. CASE i <= k
    BY <1>1, <1>2, <2>1, <2>2 DEF Elements
  <2>3. CASE i > k
    <3>1. i - k \in 1 .. n - k /\ k + (i - k) = i
      BY <1>1, <2>3
    <3>2. m = rest[i - k]
      BY <1>3, <2>1, <3>1
    <3>. QED
      BY <1>3, <3>1, <3>2 DEF Elements
  <2>. QED
    BY <1>1, <2>2, <2>3
<1>6. Elements(first) \subseteq Elements(queue) /\ Elements(rest) \subseteq Elements(queue)
  <2>1. \A i \in 1 .. n - k : k + i \in 1 .. n
    BY <1>1
  <2>. QED
    BY <1>1, <1>2, <1>3, <2>1 DEF Elements
<1>7. Elements(first) \cap Elements(rest) = {}
  <2>1. SUFFICES ASSUME NEW i \in 1 .. k, NEW j \in 1 .. n - k, first[i] = rest[j]
                 PROVE  FALSE
    BY <1>2, <1>3 DEF Elements
  <2>2. k + j \in 1 .. n /\ i \in 1 .. n /\ k + j # i
    BY <1>1
  <2>. QED
    BY <1>2, <1>3, <1>4, <2>1, <2>2
<1>8. Distinct(rest)
  <2>1. SUFFICES ASSUME NEW i \in 1 .. n - k, NEW j \in 1 .. n - k, rest[i] = rest[j]
                 PROVE  i = j
    BY <1>3 DEF Distinct
  <2>2. k + i \in 1 .. n /\ k + j \in 1 .. n
    BY <1>1
  <2>3. k + i = k + j
    BY <1>3, <1>4, <2>1, <2>2
  <2>. QED
    BY <1>1, <2>3
<1>. QED
  BY <1>5, <1>6, <1>7, <1>8 DEF first, rest

\* A message is put at the end of a queue that has it not.
LEMMA AppendDistinct ==
  ASSUME NEW queue \in Seq(Messages), NEW m \in Messages, Distinct(queue),
         m \notin Elements(queue)
  PROVE  /\ Elements(Append(queue, m)) = Elements(queue) \cup {m}
         /\ Distinct(Append(queue, m))
<1> DEFINE n == Len(queue)
           longer == Append(queue, m)
<1>1. n \in Nat /\ DOMAIN queue = 1 .. n
  OBVIOUS
<1>2. /\ DOMAIN longer = 1 .. n + 1 /\ Len(longer) = n + 1 /\ longer[n + 1] = m
      /\ \A i \in 1 .. n : longer[i] = queue[i]
  BY <1>1, AppendProperties
<1>3. \A i \in 1 .. n : queue[i] # m
  BY <1>1 DEF Elements
<1>4. \A i \in 1 .. n + 1 : i \in 1 .. n \/ i = n + 1
  BY <1>1
<1> HIDE DEF n, longer
<1>5. Elements(longer) = Elements(queue) \cup {m}
  BY <1>1, <1>2, <1>4 DEF Elements
<1>6. Distinct(longer)
  BY <1>1, <1>2, <1>3, <1>4 DEF Distinct, n
<1>. QED
  BY <1>5, <1>6 DEF longer

\* What the callers carry, when one of them is given something.
LEMMA HandsChange ==
  ASSUME TypeOK, NEW c \in Callers, NEW messages,
         taken' = [taken EXCEPT ![c] = messages]
  PROVE  /\ Hands'[c] = Elements(messages)
         /\ \A d \in Callers \ {c} : Hands'[d] = Hands[d]
BY DEF TypeOK, Hands

\* A call that carries nothing has no hands.
LEMMA NothingInHands ==
  /\ Elements(<<>>) = {} /\ \A m : Elements(<<m>>) = {m}
  /\ \A c \in Callers : Hands[c] = Elements(taken[c])
<1>1. \A m : DOMAIN <<m>> = 1 .. 1 /\ <<m>>[1] = m
  OBVIOUS
<1>. QED
  BY <1>1 DEF Elements, Hands

\* A step of the calls, of their runs or of the queues moves messages from place
\* to place.
LEMMA AccountedStep == TypeOK /\ Accounted /\ [Next]_vars => Accounted'
<1>. SUFFICES ASSUME TypeOK, Accounted, [Next]_vars PROVE Accounted'
  OBVIOUS
<1> DEFINE Quiet == UNCHANGED <<steering, followUp, taken, delivered, Dropped, written>>
           Passes == \A c \in Callers : pc'[c] \notin Carriers => taken'[c] = <<>>
<1>1. ASSUME Quiet, Passes PROVE Accounted'
  BY <1>1 DEF Accounted, Hands
<1>2. ASSUME NEW c \in Callers, NEW label, Goto(c, label),
             label \notin Carriers => taken'[c] = <<>>,
             \A d \in Callers \ {c} : taken'[d] = taken[d]
      PROVE  Passes
  BY <1>2 DEF Goto, Accounted, TypeOK
<1>3. ASSUME NEW c \in Callers, Refuse(c),
             UNCHANGED <<steering, followUp, delivered, lost, written>>
      PROVE  Accounted'
  <2>1. Passes
    BY <1>2, <1>3 DEF Refuse, TypeOK
  <2>2. Placed(Elements(steering), Elements(followUp), Hands', delivered,
               Dropped \cup Hands[c], written)
    BY <1>3, HandsChange, NothingInHands, DroppedIsPlaced DEF Refuse, Accounted
  <2>. QED
    BY <1>3, <2>1, <2>2, NothingInHands DEF Dropped, Refuse, Accounted
<1>4. ASSUME NEW c \in Callers, NEW label, Goto(c, label), taken' = taken,
             label \in Carriers \/ pc[c] \notin Carriers
      PROVE  Passes
  BY <1>2, <1>4 DEF Accounted
<1>5. ASSUME NEW c \in Callers, taken[c] = <<>>, NEW k \in Takes(steering),
             taken' = [taken EXCEPT ![c] = SubSeq(steering, 1, k)],
             steering' = Remaining(steering, k), Passes,
             UNCHANGED <<followUp, delivered, Dropped, written>>
      PROVE  Accounted'
  <2> DEFINE first == SubSeq(steering, 1, k)
             rest == Remaining(steering, k)
  <2>1. /\ Elements(steering) = Elements(first) \cup Elements(rest)
        /\ Elements(first) \cap Elements(rest) = {} /\ Distinct(rest)
    BY CutQueue DEF Accounted, TypeOK
  <2>2. taken' = [taken EXCEPT ![c] = first] /\ steering' = rest
    BY <1>5
  <2> HIDE DEF first, rest
  <2>3. Hands[c] = {}
    BY <1>5, NothingInHands
  <2>4. /\ Hands'[c] = Elements(first)
        /\ \A d \in Callers \ {c} : Hands'[d] = Hands[d]
    BY <2>2, HandsChange
  <2>5. Placed(Elements(rest), Elements(followUp), Hands', delivered, Dropped,
               written)
    BY <2>1, <2>3, <2>4, DrainedIsPlaced DEF Accounted
  <2>. QED
    BY <1>5, <2>1, <2>2, <2>5 DEF Accounted
<1>10. ASSUME NEW c \in Callers, taken[c] = <<>>, NEW k \in Takes(followUp),
             taken' = [taken EXCEPT ![c] = SubSeq(followUp, 1, k)],
             followUp' = Remaining(followUp, k), Passes,
             UNCHANGED <<steering, delivered, Dropped, written>>
      PROVE  Accounted'
  <2> DEFINE first == SubSeq(followUp, 1, k)
             rest == Remaining(followUp, k)
  <2>1. /\ Elements(followUp) = Elements(first) \cup Elements(rest)
        /\ Elements(first) \cap Elements(rest) = {} /\ Distinct(rest)
    BY CutQueue DEF Accounted, TypeOK
  <2>2. taken' = [taken EXCEPT ![c] = first] /\ followUp' = rest
    BY <1>10
  <2> HIDE DEF first, rest
  <2>3. Hands[c] = {}
    BY <1>10, NothingInHands
  <2>4. /\ Hands'[c] = Elements(first)
        /\ \A d \in Callers \ {c} : Hands'[d] = Hands[d]
    BY <2>2, HandsChange
  <2>5. Placed(Elements(followUp), Elements(steering), Hands, delivered, Dropped,
               written)
    BY PlacesAlike DEF Accounted
  <2>6. Placed(Elements(rest), Elements(steering), Hands', delivered, Dropped,
               written)
    BY <2>1, <2>3, <2>4, <2>5, DrainedIsPlaced
  <2>7. Placed(Elements(steering), Elements(rest), Hands', delivered, Dropped,
               written)
    BY <2>6, PlacesAlike
  <2>. QED
    BY <1>10, <2>1, <2>2, <2>7 DEF Accounted
<1>11. ASSUME NEW c \in Callers, taken' = [taken EXCEPT ![c] = <<>>],
              delivered' = delivered \cup Hands[c], Passes,
              UNCHANGED <<steering, followUp, Dropped, written>>
       PROVE  Accounted'
  <2>1. /\ Hands'[c] = {}
        /\ \A d \in Callers \ {c} : Hands'[d] = Hands[d]
    BY <1>11, HandsChange, NothingInHands
  <2>2. Placed(Elements(steering), Elements(followUp), Hands, Dropped, delivered,
               written)
    BY PlacesAlike DEF Accounted
  <2>3. Placed(Elements(steering), Elements(followUp), Hands', Dropped,
               delivered \cup Hands[c], written)
    BY <2>1, <2>2, DroppedIsPlaced
  <2>4. Placed(Elements(steering), Elements(followUp), Hands',
               delivered \cup Hands[c], Dropped, written)
    BY <2>3, PlacesAlike
  <2>. QED
    BY <1>11, <2>4 DEF Accounted
<1>6. CASE UNCHANGED vars
  <2>1. Quiet /\ pc' = pc
    BY <1>6 DEF Dropped, vars, shared, threads, history
  <2>. QED
    BY <1>1, <2>1 DEF Accounted
<1>7. ASSUME NEW c \in Callers, Start(c) PROVE Accounted'
  <2>1. CASE Abort(c)
    BY <1>1, <2>1 DEF Dropped, Abort, threads, Accounted
  <2>2. CASE Queue(c)
    <3>1. /\ written + 1 \in Messages /\ written \in Nat /\ written' = written + 1
          /\ UNCHANGED <<taken, pc, delivered, Dropped>>
      BY <2>2, AgentAssumption DEF Dropped, Queue, Messages, TypeOK, threads
    <3>2. written + 1 \notin Elements(steering) /\ written + 1 \notin Elements(followUp)
      BY <3>1 DEF Accounted, Placed
    <3>3. Passes /\ Hands' = Hands
      BY <3>1 DEF Accounted, Hands
    <3>4. CASE steering' = Append(steering, written + 1) /\ followUp' = followUp
      <4>1. Elements(steering') = Elements(steering) \cup {written + 1}
            /\ Distinct(steering')
        BY <3>1, <3>2, <3>4, AppendDistinct DEF Accounted, TypeOK
      <4>2. Placed(Elements(steering) \cup {written + 1}, Elements(followUp), Hands,
                   delivered, Dropped, written + 1)
        BY <3>1, WrittenIsPlaced DEF Accounted
      <4>. QED
        BY <3>1, <3>3, <3>4, <4>1, <4>2 DEF Accounted
    <3>5. CASE followUp' = Append(followUp, written + 1) /\ steering' = steering
      <4>1. Elements(followUp') = Elements(followUp) \cup {written + 1}
            /\ Distinct(followUp')
        BY <3>1, <3>2, <3>5, AppendDistinct DEF Accounted, TypeOK
      <4>2. Placed(Elements(followUp) \cup {written + 1}, Elements(steering), Hands,
                   delivered, Dropped, written + 1)
        BY <3>1, WrittenIsPlaced, PlacesAlike DEF Accounted
      <4>3. Placed(Elements(steering), Elements(followUp) \cup {written + 1}, Hands,
                   delivered, Dropped, written + 1)
        BY <4>2, PlacesAlike
      <4>. QED
        BY <3>1, <3>3, <3>5, <4>1, <4>3 DEF Accounted
    <3>. QED
      BY <2>2, <3>4, <3>5 DEF Queue
  <2>3. CASE Prompt(c)
    <3>1. /\ written \in Nat /\ written' = written + 1 /\ pc[c] = "idle"
          /\ taken' = [taken EXCEPT ![c] = <<written + 1>>]
          /\ Goto(c, "promptBusy")
          /\ UNCHANGED <<steering, followUp, delivered, Dropped>>
      BY <2>3, AgentAssumption DEF Dropped, Prompt, Call, TypeOK, shared
    <3>2. Passes
      BY <1>2, <3>1 DEF Carriers, TypeOK
    <3>3. Hands[c] = {}
      BY <3>1, NothingInHands DEF Accounted, Carriers
    <3>4. /\ Hands'[c] = {written + 1}
          /\ \A d \in Callers \ {c} : Hands'[d] = Hands[d]
      BY <3>1, HandsChange, NothingInHands
    <3>5. Placed(Elements(steering), Elements(followUp), Hands', delivered, Dropped,
                 written + 1)
      BY <3>1, <3>3, <3>4, WrittenIsPlaced DEF Accounted
    <3>. QED
      BY <3>1, <3>2, <3>5 DEF Accounted
  <2>4. CASE Continue(c)
    <3>1. taken' = taken
      BY <2>4 DEF Continue, Call, Accounted, Carriers, TypeOK
    <3>. QED
      BY <1>1, <1>4, <2>4, <3>1 DEF Dropped, Continue, Call, Carriers, shared
  <2>5. CASE Reset(c) \/ Wait(c)
    <3>1. Quiet /\ pc[c] \notin Carriers
      BY <2>5 DEF Dropped, Reset, Wait, Call, Carriers, shared
    <3>. QED
      BY <1>1, <1>4, <2>5, <3>1 DEF Reset, Wait
  <2>. QED
    BY <1>7, <2>1, <2>2, <2>3, <2>4, <2>5 DEF Start
<1>8. ASSUME NEW c \in Callers, Step(c) PROVE Accounted'
  <2>1. CASE CheckBusy(c)
    <3>1. UNCHANGED <<steering, followUp, delivered, lost, written>>
      BY <2>1 DEF CheckBusy, Busy, shared
    <3>2. CASE Refuse(c)
      BY <1>3, <3>1, <3>2
    <3>3. CASE ~Refuse(c)
      <4>1. \E label : /\ Proceed(c, label)
                       /\ label \in Carriers \/ pc[c] \notin Carriers
        BY <2>1, <3>3 DEF CheckBusy, Busy, Carriers
      <4>. QED
        BY <1>1, <1>4, <3>1, <4>1 DEF Dropped, Proceed
    <3>. QED
      BY <3>2, <3>3
  <2>2. CASE ContinueTail(c)
    <3>1. UNCHANGED <<steering, followUp, delivered, lost, written>>
      BY <2>2 DEF ContinueTail, shared
    <3>2. CASE Refuse(c)
      BY <1>3, <3>1, <3>2
    <3>3. CASE ~Refuse(c)
      <4>1. pc[c] \notin Carriers /\ \E label : Proceed(c, label)
        BY <2>2, <3>3 DEF ContinueTail, Carriers
      <4>. QED
        BY <1>1, <1>4, <3>1, <4>1 DEF Dropped, Proceed
    <3>. QED
      BY <3>2, <3>3
  <2>3. CASE DrainSteering(c)
    <3>1. PICK k \in Takes(steering) :
                 /\ taken' = [taken EXCEPT ![c] = SubSeq(steering, 1, k)]
                 /\ steering' = Remaining(steering, k)
      BY <2>3 DEF DrainSteering
    <3>2. taken[c] = <<>> /\ UNCHANGED <<followUp, delivered, Dropped, written>>
      BY <2>3 DEF DrainSteering, history, Accounted, Carriers, Dropped
    <3>3. steering = <<>> => SubSeq(steering, 1, k) = <<>>
      BY SubSeqEmpty DEF Takes
    <3> DEFINE first == SubSeq(steering, 1, k)
    <3>4. taken'[c] = first /\ \A d \in Callers \ {c} : taken'[d] = taken[d]
      BY <3>1 DEF TypeOK
    <3>5. steering = <<>> => first = <<>>
      BY <3>3
    <3> HIDE DEF first
    <3>6. Passes
      <4>1. CASE steering = <<>>
        BY <1>2, <2>3, <3>4, <3>5, <4>1 DEF DrainSteering
      <4>2. CASE steering # <<>>
        BY <1>2, <2>3, <3>4, <4>2 DEF DrainSteering, Carriers
      <4>. QED
        BY <4>1, <4>2
    <3>. QED
      BY <1>5, <3>1, <3>2, <3>6
  <2>4. CASE DrainFollowUp(c)
    <3>1. PICK k \in Takes(followUp) :
                 /\ taken' = [taken EXCEPT ![c] = SubSeq(followUp, 1, k)]
                 /\ followUp' = Remaining(followUp, k)
      BY <2>4 DEF DrainFollowUp
    <3>2. taken[c] = <<>> /\ UNCHANGED <<steering, delivered, Dropped, written>>
      BY <2>4 DEF DrainFollowUp, history, Accounted, Carriers, Dropped
    <3>3. followUp = <<>> => SubSeq(followUp, 1, k) = <<>>
      BY SubSeqEmpty DEF Takes
    <3> DEFINE first == SubSeq(followUp, 1, k)
    <3>4. taken'[c] = first /\ \A d \in Callers \ {c} : taken'[d] = taken[d]
      BY <3>1 DEF TypeOK
    <3>5. followUp = <<>> => first = <<>>
      BY <3>3
    <3> HIDE DEF first
    <3>6. Passes
      <4>1. CASE followUp = <<>>
        BY <1>2, <2>4, <3>4, <3>5, <4>1 DEF DrainFollowUp
      <4>2. CASE followUp # <<>>
        BY <1>2, <2>4, <3>4, <4>2 DEF DrainFollowUp, Carriers
      <4>. QED
        BY <4>1, <4>2
    <3>. QED
      BY <1>10, <3>1, <3>2, <3>6
  <2>5. CASE Claim(c)
    <3>1. UNCHANGED <<steering, followUp, delivered, lost, written>>
      BY <2>5 DEF Claim
    <3>2. CASE ClaimBlocked
      BY <1>3, <2>5, <3>1, <3>2 DEF Claim
    <3>3. CASE ~ClaimBlocked
      <4>1. Proceed(c, "clearAbort")
        BY <2>5, <3>3 DEF Claim
      <4>. QED
        BY <1>1, <1>4, <3>1, <4>1 DEF Dropped, Proceed, Carriers
    <3>. QED
      BY <3>2, <3>3
  <2>6. CASE ClearAbort(c)
    <3>1. Quiet /\ Goto(c, "begin")
      BY <2>6 DEF Dropped, ClearAbort, history
    <3>. QED
      BY <1>1, <1>4, <3>1 DEF Dropped, Carriers
  <2>7. CASE BeginRun(c)
    <3>1. /\ taken' = [taken EXCEPT ![c] = <<>>]
          /\ delivered' = delivered \cup Hands[c]
          /\ UNCHANGED <<steering, followUp, Dropped, written>>
      BY <2>7, NothingInHands DEF Dropped, BeginRun
    <3>2. Passes
      <4>1. taken'[c] = <<>> /\ \A d \in Callers \ {c} : taken'[d] = taken[d]
        BY <3>1 DEF TypeOK
      <4>. QED
        BY <1>2, <2>7, <4>1 DEF BeginRun
    <3>. QED
      BY <1>11, <3>1, <3>2
  <2>10. CASE EndRun(c)
    <3>1. Quiet /\ taken[c] = <<>> /\ Goto(c, "release")
      BY <2>10 DEF EndRun, shared, history, Dropped
    <3>. QED
      BY <1>1, <1>2, <3>1
  <2>11. CASE Inject(c)
    <3>1. /\ taken' = [taken EXCEPT ![c] = <<>>]
          /\ delivered' = delivered \cup Hands[c]
          /\ UNCHANGED <<pc, steering, followUp, Dropped, written>>
      BY <2>11, NothingInHands DEF Inject, Dropped
    <3>2. Passes
      BY <3>1 DEF Accounted, TypeOK
    <3>. QED
      BY <1>11, <3>1, <3>2
  <2>12. CASE FailRun(c)
    <3>1. /\ taken' = [taken EXCEPT ![c] = <<>>]
          /\ Dropped' = Dropped \cup Hands[c]
          /\ Goto(c, "release")
          /\ UNCHANGED <<steering, followUp, delivered, written>>
      BY <2>12, NothingInHands DEF FailRun, Dropped
    <3>2. Passes
      BY <1>2, <3>1 DEF TypeOK
    <3>3. Placed(Elements(steering), Elements(followUp), Hands', delivered,
                 Dropped \cup Hands[c], written)
      BY <3>1, HandsChange, NothingInHands, DroppedIsPlaced DEF Accounted
    <3>. QED
      BY <3>1, <3>2, <3>3 DEF Accounted
  <2>8. CASE ReleaseState(c) \/ Deactivate(c) \/ NotifyRun(c)
             \/ ResetAbort(c) \/ ResetStore(c) \/ ResetNotify(c)
             \/ WaitCheck(c) \/ Awake(c)
    <3>1. Quiet
      BY <2>8 DEF Dropped, ReleaseState, Deactivate, NotifyRun, ResetAbort,
                  ResetStore, ResetNotify, WaitCheck, Awake, shared, history
    <3>2. pc[c] \notin Carriers
      BY <2>8 DEF ReleaseState, Deactivate, NotifyRun, ResetAbort, ResetStore,
                  ResetNotify, WaitCheck, Awake, Carriers
    <3>3. \E label : Goto(c, label)
      BY <2>8 DEF ReleaseState, Deactivate, NotifyRun, ResetAbort, ResetStore,
                  ResetNotify, WaitCheck, WaitReturns, Awake
    <3>. QED
      BY <1>1, <1>4, <3>1, <3>2, <3>3
  <2>9. CASE ResetQueues(c)
    <3>1. UNCHANGED <<taken, delivered, written>> /\ Hands' = Hands
      BY <2>9 DEF ResetQueues, Hands
    <3>2. Passes
      <4>1. pc[c] \notin Carriers /\ \E label : Goto(c, label)
        BY <2>9 DEF ResetQueues, Carriers
      <4>. QED
        BY <1>4, <3>1, <4>1
    <3>3. Distinct(<<>>) /\ Elements(<<>>) = {}
      BY NothingInHands DEF Distinct
    <3>4. CASE /\ steering' = <<>> /\ Dropped' = Dropped \cup Elements(steering)
               /\ followUp' = followUp
      <4>1. Placed({}, Elements(followUp), Hands, delivered,
                   Dropped \cup Elements(steering), written)
        BY DrainedIsPlaced DEF Accounted
      <4>. QED
        BY <3>1, <3>2, <3>3, <3>4, <4>1 DEF Accounted
    <3>5. CASE /\ followUp' = <<>> /\ Dropped' = Dropped \cup Elements(followUp)
               /\ steering' = steering
      <4>1. Placed(Elements(followUp), Elements(steering), Hands, delivered, Dropped,
                   written)
        BY PlacesAlike DEF Accounted
      <4>2. Placed({}, Elements(steering), Hands, delivered,
                   Dropped \cup Elements(followUp), written)
        BY <4>1, DrainedIsPlaced
      <4>3. Placed(Elements(steering), {}, Hands, delivered,
                   Dropped \cup Elements(followUp), written)
        BY <4>2, PlacesAlike
      <4>. QED
        BY <3>1, <3>2, <3>3, <3>5, <4>3 DEF Accounted
    <3>. QED
      BY <2>9, <3>4, <3>5 DEF Dropped, ResetQueues
  <2>. QED
    BY <1>8, <2>1, <2>2, <2>3, <2>4, <2>5, <2>6, <2>7, <2>8, <2>9, <2>10,
       <2>11, <2>12 DEF Step
<1>9. ASSUME NEW c \in Callers, Work(c) PROVE Accounted'
  <2>1. CASE Emit(c)
    BY <1>1, <2>1 DEF Dropped, Emit, threads, Accounted
  <2>2. CASE Poll(c)
    <3>1. /\ taken[c] = <<>> /\ pc[c] = "running"
          /\ UNCHANGED <<pc, delivered, Dropped, written>>
      BY <2>2 DEF Poll, history, Dropped
    <3>2. ASSUME NEW messages, taken' = [taken EXCEPT ![c] = messages]
          PROVE  Passes
      BY <3>1, <3>2 DEF Accounted, TypeOK, Carriers
    <3>. QED
      BY <1>5, <1>10, <2>2, <3>1, <3>2 DEF Poll
  <2>. QED
    BY <1>9, <2>1, <2>2 DEF Work
<1>. QED
  BY <1>6, <1>7, <1>8, <1>9 DEF Next

\* Every message that was queued or prompted is in a queue, with the call that
\* or the run that carries it, in a transcript, or was dropped: with an error, by
\* reset, or by a run that failed with it in hand.  One that is in a transcript
\* is nowhere else, and one that was dropped is in no queue.
THEOREM MessagesHaveOnePlace == Spec => []MessagesAccounted
<1>1. Init => Accounted
  <2>. SUFFICES ASSUME Init PROVE Accounted
    OBVIOUS
  <2>1. /\ Elements(steering) = {} /\ Elements(followUp) = {}
        /\ \A c \in Callers : Hands[c] = {} /\ taken[c] = <<>>
    BY NothingInHands DEF Init
  <2>2. Distinct(steering) /\ Distinct(followUp)
    BY DEF Init, Distinct
  <2>3. written = 0 /\ delivered = {} /\ Dropped = {}
    BY DEF Dropped, Init
  <2>. QED
    BY <2>1, <2>2, <2>3 DEF Dropped, Accounted, Placed
<1>2. TypeOK /\ Accounted /\ [Next]_vars => Accounted'
  BY AccountedStep
<1>3. TypeOK /\ Accounted => MessagesAccounted
  <2>. SUFFICES ASSUME TypeOK, Accounted PROVE MessagesAccounted
    OBVIOUS
  <2>1. \A m : m \in Carried <=> \E c \in Callers : m \in Hands[c]
    BY DEF Carried, Hands
  <2>2. /\ Elements(steering) \subseteq Nat /\ Elements(followUp) \subseteq Nat
        /\ delivered \subseteq Nat /\ Dropped \subseteq Nat
        /\ \A c \in Callers : Hands[c] \subseteq Nat
    BY ElementsType, NothingInHands, AgentAssumption DEF Dropped, TypeOK, Messages
  <2>3. 1 .. written \subseteq Nat
    BY AgentAssumption DEF TypeOK
  <2>. QED
    BY <2>1, <2>2, <2>3 DEF Accounted, Placed, MessagesAccounted
<1>. QED
  BY <1>1, <1>2, <1>3, TypeCorrect, PTL DEF Spec
=============================================================================
