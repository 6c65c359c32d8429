------------------------------ MODULE MistralStream ----------------------------
(***************************************************************************)
(* MistralChatStreamProcessor of crates/ri-llm-provider/src/mistral.rs:    *)
(* runs of text and of thinking, which a tool call interrupts, and tool    *)
(* calls in fragments that repeat the id of their call.                    *)
(***************************************************************************)
EXTENDS HttpStream

\* byKey: tool_blocks_by_key, the block of each call, 0 for none.
MistralNew ==
  [started |-> FALSE, active |-> 0, byKey |-> [i \in 1 .. MaxItems |-> 0]]

MistralStarted == IF proc.started THEN out ELSE PushStart(out)

MistralReads(w, step) == Read(w, [step EXCEPT !.proc.started = TRUE])

\* finish_mistral_active_block
MistralActiveEnded(o) ==
  IF proc.active = 0 THEN o ELSE PushBlockEnd(o, proc.active)

MistralOther == MistralReads(wire, Went(proc, MistralStarted))

\* A run of text or thinking ends when something else comes; calls stay open.
MistralRunOver ==
  [wire EXCEPT !.items =
     [i \in Items |-> IF @[i].kind = "toolCall" THEN @[i]
                      ELSE [@[i] EXCEPT !.open = FALSE]]]

\* process_mistral_content_delta
MistralContent ==
  \E kind \in {"text", "thinking"} :
    LET continues == proc.active # 0 /\ out.blocks[proc.active].kind = kind
        added == AddBlock(MistralActiveEnded(MistralStarted), kind)
        b == Len(out.blocks) + 1
        w == [MistralRunOver EXCEPT
                !.items = Append(@, [Item(kind) EXCEPT !.sent = 1])]
    IN IF continues
       THEN \E i \in OpenItems :
              /\ CanGrow(i) /\ wire.items[i].kind = kind
              /\ MistralReads(Grown(i),
                   Went(proc, Extend(MistralStarted, proc.active, kind, i)))
       ELSE /\ CanOpen
            /\ MistralReads(w, Went([proc EXCEPT !.active = b],
                                    Extend(added, b, kind, NextItem)))

\* process_mistral_tool_call_delta
MistralCallDelta ==
  LET closed == MistralActiveEnded(MistralStarted)
  IN \/ /\ CanOpen
        /\ LET added == AddBlock(closed, "toolCall")
               b == Len(added.blocks)
               w == [MistralRunOver EXCEPT
                       !.items = Append(@, [Item("toolCall") EXCEPT !.sent = 1])]
           IN MistralReads(w, Went([proc EXCEPT !.active = 0,
                                                !.byKey[NextItem] = b],
                                   Extend(added, b, "toolCall", NextItem)))
     \/ \E i \in Items :
          /\ CanGrow(i) /\ wire.items[i].kind = "toolCall"
          /\ MistralReads([MistralRunOver EXCEPT !.items[i].sent = @ + 1],
               Went([proc EXCEPT !.active = 0],
                    Extend(closed, proc.byKey[i], "toolCall", i)))

\* finishReason
MistralFinishReason ==
  /\ ~wire.stopped
  /\ \E reason \in {"stop", "length", "toolUse", "error"} :
       MistralReads(Stopped, Went(proc, [MistralStarted EXCEPT !.reason = reason]))

\* finish: the active block and all the calls end.
MistralFinished ==
  LET calls == {b \in DOMAIN out.blocks : out.blocks[b].kind = "toolCall"}
  IN EndBlocks(MistralActiveEnded(MistralStarted), calls)

MistralEnds ==
  BodyEnds(IF out.reason = "error" THEN Failed(proc, MistralFinished)
           ELSE Ended(proc, PushDone(MistralFinished)))

MistralNext ==
  /\ api = "mistral"
  /\ \/ MistralOther \/ MistralContent \/ MistralCallDelta \/ MistralFinishReason
     \/ MistralEnds
=============================================================================
