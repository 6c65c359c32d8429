----------------------------- MODULE AnthropicStream ---------------------------
(***************************************************************************)
(* AnthropicStreamProcessor of crates/ri-llm-provider/src/anthropic.rs:    *)
(* one block at a time, named by its index in the reply. The body that     *)
(* ends is the end of the reply, whether or not message_stop was read.     *)
(***************************************************************************)
EXTENDS HttpStream

\* at: content_indexes, the block of each index of the reply, 0 for none.
AnthropicNew == [started |-> FALSE, at |-> [i \in 1 .. MaxItems |-> 0],
                 stopped |-> FALSE]

\* A mutation: the start event is left to message_start.
AnthropicStartedLate == out

\* The start event goes out with the first event of any kind.
AnthropicStarted == IF proc.started THEN out ELSE PushStart(out)

AnthropicReads(w, step) == Read(w, [step EXCEPT !.proc.started = TRUE])

\* message_start, a ping or an event of an unknown type; an error event too.
AnthropicOther == AnthropicReads(wire, Went(proc, AnthropicStarted))

\* content_block_start. A text block may bring its first fragment, which is told
\* by a delta; redacted thinking, and the input of a tool_use, come with the
\* start alone.
AnthropicBlockStart ==
  /\ CanOpen /\ OpenItems = {}
  /\ \E kind \in Kinds, brings \in BOOLEAN :
       LET added == AddBlock(AnthropicStarted, kind)
           i == Len(added.blocks)
           p == [proc EXCEPT !.at[NextItem] = i]
       IN \/ /\ ~brings
             /\ AnthropicReads(Opened(kind), Went(p, added))
          \/ /\ brings /\ kind = "text" /\ MaxFragments > 0
             /\ AnthropicReads(OpenedWith(kind),
                               Went(p, Extend(added, i, kind, NextItem)))
          \/ /\ brings /\ kind # "text"
             /\ AnthropicReads(OpenedBringing(kind),
                               Went(p, LedBy(added, i, NextItem)))

\* The arguments of a call as partial_tool_json has them, which knows nothing
\* of the input its start brought.
Scratched(o, i) ==
  IF o.blocks[i].kind = "toolCall" THEN LedBy(o, i, 0) ELSE o

\* content_block_delta
AnthropicDelta ==
  \E i \in Items :
    /\ CanGrow(i)
    /\ AnthropicReads(Grown(i),
         Went(proc, IF proc.at[i] = 0 THEN AnthropicStarted
                    ELSE Extend(Scratched(AnthropicStarted, proc.at[i]),
                                proc.at[i], wire.items[i].kind, i)))

\* content_block_stop
AnthropicBlockStop ==
  \E i \in OpenItems :
    AnthropicReads(Closed(i),
      Went([proc EXCEPT !.at[i] = 0],
           IF proc.at[i] = 0 THEN AnthropicStarted
           ELSE PushBlockEnd(Scratched(AnthropicStarted, proc.at[i]),
                             proc.at[i])))

\* message_delta, with the stop reason; a refusal or a reason nobody knows is
\* an error of the request.
AnthropicMessageDelta ==
  /\ OpenItems = {} /\ ~wire.stopped
  /\ \E reason \in {"stop", "length", "toolUse", "error"} :
       LET told == [AnthropicStarted EXCEPT !.reason = reason]
       IN AnthropicReads(Stopped, IF reason = "error" THEN Failed(proc, told)
                                  ELSE Went(proc, told))

\* message_stop: nothing that follows counts.
AnthropicMessageStop ==
  /\ wire.stopped /\ ~proc.stopped
  /\ AnthropicReads(wire, Went([proc EXCEPT !.stopped = TRUE], AnthropicStarted))

AnthropicEnds == BodyEnds(Ended(proc, PushDone(out)))

AnthropicNext ==
  /\ api = "anthropic"
  /\ \/ AnthropicOther \/ AnthropicBlockStart \/ AnthropicDelta
     \/ AnthropicBlockStop \/ AnthropicMessageDelta \/ AnthropicMessageStop
     \/ AnthropicEnds
=============================================================================
