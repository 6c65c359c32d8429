------------------------------ MODULE EventStream ------------------------------
(***************************************************************************)
(* The events of an assistant message (AssistantMessageEventStream of      *)
(* crates/ri-llm-provider/src/event_stream.rs) and the message they are    *)
(* about. "out" holds the message under construction (blocks), what has    *)
(* been pushed of it, and how the stream ended.                            *)
(*                                                                         *)
(* What has been pushed is kept as a receiver rebuilds it from the deltas  *)
(* and the contents of the end events, with the checks of                  *)
(* process_proxy_event of crates/ri-agent-core/src/proxy.rs: an event that *)
(* receiver would refuse leaves "broken".                                  *)
(***************************************************************************)
EXTENDS Integers, Sequences, FiniteSets

VARIABLE out

Kinds == {"text", "thinking", "toolCall"}

\* A block of the message: its fragments, each named by the item of the
\* provider's reply it came with, after the item whose start brought content
\* that no delta tells, 0 for none.
Block(kind) == [kind |-> kind, lead |-> 0, parts |-> <<>>]

\* empty_assistant_message and assistant_message_event_stream
Silent ==
  [blocks |-> <<>>, shown |-> <<>>, started |-> FALSE, outcome |-> "none",
   reason |-> "stop", broken |-> FALSE]

\* AssistantMessageEventSender::push
Push(o, pushed) == IF o.outcome = "none" THEN pushed ELSE o

PushStart(o) == Push(o, [o EXCEPT !.started = TRUE, !.broken = @ \/ o.started])

PushBlockStart(o, i) ==
  Push(o, [o EXCEPT
             !.shown = Append(@, [kind |-> o.blocks[i].kind, lead |-> 0,
                                  parts |-> <<>>, open |-> TRUE]),
             !.broken = @ \/ ~o.started \/ i # Len(o.shown) + 1])

Takes(o, i, kind) ==
  i \in DOMAIN o.shown /\ o.shown[i].open /\ o.shown[i].kind = kind

PushDelta(o, i, kind, part) ==
  Push(o, IF Takes(o, i, kind) THEN [o EXCEPT !.shown[i].parts = Append(@, part)]
          ELSE [o EXCEPT !.broken = TRUE])

\* An end event carries the block as the message has it.
AsEnded(seen, block) ==
  [seen EXCEPT !.lead = block.lead, !.parts = block.parts, !.open = FALSE]

PushBlockEnd(o, i) ==
  Push(o, IF Takes(o, i, o.blocks[i].kind)
          THEN [o EXCEPT !.shown[i] = AsEnded(@, o.blocks[i])]
          ELSE [o EXCEPT !.broken = TRUE])

PushDone(o) == Push(o, [o EXCEPT !.outcome = "done"])

PushError(o, reason) ==
  LET failed == [o EXCEPT !.reason = reason]
  IN Push(failed, [failed EXCEPT !.outcome = reason])

\* AssistantMessageEventSender::end: the result without a last event.
End(o) == IF o.outcome = "none" THEN [o EXCEPT !.outcome = "ended"] ELSE o

-----------------------------------------------------------------------------
(* What the adapters compose                                               *)

\* A new block at the end of the message, and its start event.
AddBlock(o, kind) ==
  PushBlockStart([o EXCEPT !.blocks = Append(@, Block(kind))], Len(o.blocks) + 1)

\* Block i begins with what the start of that item brought, or with nothing.
LedBy(o, i, item) == [o EXCEPT !.blocks[i].lead = item]

\* A fragment for block i; the event is pushed whatever the block is.
Extend(o, i, kind, part) ==
  LET grown == IF o.blocks[i].kind = kind
               THEN [o EXCEPT !.blocks[i].parts = Append(@, part)] ELSE o
  IN PushDelta(grown, i, kind, part)

\* The end events of all the blocks of I, in their order.
EndBlocks(o, I) ==
  Push(o, [o EXCEPT
             !.shown = [i \in DOMAIN @ |->
                          IF i \in I THEN AsEnded(@[i], o.blocks[i]) ELSE @[i]],
             !.broken = @ \/ \E i \in I : ~Takes(o, i, o.blocks[i].kind)])

HasToolCall(o) == \E i \in DOMAIN o.blocks : o.blocks[i].kind = "toolCall"
=============================================================================
