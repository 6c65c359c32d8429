------------------------------- MODULE DevicePoll ------------------------------
(***************************************************************************)
(* The polling of a device-code login, in                                  *)
(* crates/ri-llm-provider/src/device_code.rs. The poller's clock is its    *)
(* own: it moves by the delays it sleeps, not by what its requests take,   *)
(* so it is never ahead of the provider's. Times are in seconds.           *)
(***************************************************************************)
EXTENDS Integers, FiniteSetsExt

CONSTANTS
  Intervals,    \* intervals a provider may ask for
  Lifetimes,    \* lifetimes a device code may have
  CodexLifetime \* bound: the fifteen minutes of a codex code

Absent == -1   \* a field the provider left out
Never == -1    \* no time

ASSUME DevicePollAssumption ==
  /\ Intervals \subseteq Nat \cup {Absent} /\ Lifetimes \subseteq Nat
  /\ CodexLifetime \in Nat

VARIABLE poll
  \* [stage, now, deadline, interval, waits, cancelled]: the poller
  \* [last, asked]: when it last asked, and the interval the provider wants

MinimumInterval == 1
DefaultInterval == 5
SlowDownIncrement == 5

NoPoll ==
  [stage |-> "off", now |-> 0, deadline |-> 0, interval |-> 0, waits |-> FALSE,
   cancelled |-> FALSE, last |-> Never, asked |-> 0]

IntervalOf(i) == IF i = Absent THEN DefaultInterval ELSE Max({i, MinimumInterval})
WantedOf(i) == IF i = Absent THEN DefaultInterval ELSE i

\* DeviceCodePollState::new
NewPoll(interval, lifetime, waits) ==
  [stage |-> "new", now |-> 0, deadline |-> lifetime,
   interval |-> IntervalOf(interval), waits |-> waits, cancelled |-> FALSE,
   last |-> IF waits THEN 0 ELSE Never, asked |-> WantedOf(interval)]

Remaining(p) == p.deadline - p.now

\* The wait is cut to what is left of the lifetime.
Slept(p) ==
  [p EXCEPT !.stage = "due", !.now = @ + Min({p.interval, Remaining(p)})]

Stage(stage) == poll' = [poll EXCEPT !.stage = stage]

\* The poller has ended, with a code or without one.
PollEnds(stage) == poll' = [NoPoll EXCEPT !.stage = stage]
PollFails == PollEnds("failed")

-----------------------------------------------------------------------------

\* initial_wait_ms
FirstWait ==
  /\ poll.stage = "new"
  /\ CASE ~poll.waits \/ Remaining(poll) <= 0 -> Stage("due")
       [] poll.waits /\ Remaining(poll) > 0 ->
            IF poll.cancelled THEN PollFails ELSE poll' = Slept(poll)

\* Mutation: a poll at the very end of the lifetime.
InLifetimeInclusive(p) == Remaining(p) >= 0

\* should_poll
InLifetime(p) == Remaining(p) > 0

Ask ==
  /\ poll.stage = "due"
  /\ IF ~InLifetime(poll) \/ poll.cancelled
     THEN PollFails
     ELSE poll' = [poll EXCEPT !.stage = "asked", !.last = poll.now]

\* apply_response: an interval the provider gives with slow_down replaces the
\* poller's own, else the poller's grows.
SlowedDown(p, i) ==
  IF i > 0 THEN IntervalOf(i) ELSE p.interval + SlowDownIncrement

Pending ==
  poll.stage = "asked" /\ Stage("wait")

SlowDown(i) ==
  /\ poll.stage = "asked"
  /\ poll' = [poll EXCEPT !.stage = "wait",
                          !.interval = SlowedDown(poll, i),
                          !.asked = IF i > 0 THEN i ELSE @ + SlowDownIncrement]

Complete ==
  poll.stage = "asked" /\ PollEnds("complete")

\* The provider denies it, says that the code expired, or the request fails.
Refuse ==
  poll.stage = "asked" /\ PollFails

\* wait_after_poll_ms
Wait ==
  /\ poll.stage = "wait"
  /\ IF poll.cancelled \/ Remaining(poll) <= 0
     THEN PollFails
     ELSE poll' = Slept(poll)

\* The caller raises the abort flag.
Cancel ==
  /\ poll.stage \in {"new", "due", "asked", "wait"} /\ ~poll.cancelled
  /\ poll' = [poll EXCEPT !.cancelled = TRUE]

PollStep(slowDowns) ==
  \/ FirstWait \/ Ask \/ Wait
  \/ Pending \/ Complete \/ Refuse \/ \E i \in slowDowns : SlowDown(i)

-----------------------------------------------------------------------------
(* What the providers say                                                  *)

\* The answer to the request for a device code: Copilot and codex refuse one
\* without an interval, xAI takes one of nothing for none, and codex codes live
\* as long as the program says.
CopilotDevice == [interval : Intervals \ {Absent}, lifetime : Lifetimes]
CodexDevice == [interval : Intervals \ {Absent}, lifetime : {CodexLifetime}]
XaiDevice == [interval : (Intervals \ {0}) \cup {Absent}, lifetime : Lifetimes \ {0}]
RadiusDevice == [interval : Intervals, lifetime : Lifetimes]

\* The interval that comes with slow_down: Copilot and xAI may give one, the
\* others' is not read.
CopilotSlowDowns == Intervals
XaiSlowDowns == (Intervals \ {0}) \cup {Absent}
CodexSlowDowns == {Absent}
RadiusSlowDowns == {Absent}
=============================================================================
