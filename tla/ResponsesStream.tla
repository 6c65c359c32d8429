----------------------------- MODULE ResponsesStream ---------------------------
(***************************************************************************)
(* OpenAIResponsesStreamProcessor of                                       *)
(* crates/ri-llm-provider/src/openai_responses.rs: output items whose      *)
(* fragments interleave, each in a slot of its own until it is done, when  *)
(* it comes whole and what was streamed of it is replaced.                 *)
(***************************************************************************)
EXTENDS HttpStream

\* at: output_slots, the block of each item under way, 0 for none.
ResponsesNew == [at |-> [i \in 1 .. MaxItems |-> 0]]

\* response.created, and every type that is not looked at.
ResponsesOther == Read(wire, Went(proc, out))

\* create_slot: arguments that come with the item are kept in the slot alone.
Slotted(kind) ==
  LET added == AddBlock(out, kind)
  IN Went([proc EXCEPT !.at[NextItem] = Len(added.blocks)], added)

\* response.output_item.added
ResponsesItemAdded ==
  /\ CanOpen
  /\ \E kind \in Kinds, brings \in BOOLEAN :
       /\ brings => kind = "toolCall"
       /\ Read(IF brings THEN OpenedBringing(kind) ELSE Opened(kind),
               Slotted(kind))

\* The message once the slot of item i, whose partial_json begins with what the
\* item came with, is put into its block.
Unslotted(i) ==
  LedBy(out, proc.at[i], IF wire.items[i].brought THEN i ELSE 0)

\* The text, reasoning and argument deltas.
ResponsesDelta ==
  \E i \in Items :
    /\ CanGrow(i)
    /\ Read(Grown(i),
         Went(proc, Extend(Unslotted(i), proc.at[i], wire.items[i].kind, i)))

\* The separator between the parts of a summary, which no item sent.
Separator == 0

\* response.reasoning_summary_part.done
ResponsesSummaryPart ==
  \E i \in OpenItems :
    /\ wire.items[i].kind = "thinking"
    /\ Separator \notin {out.blocks[proc.at[i]].parts[k] :
                           k \in DOMAIN out.blocks[proc.at[i]].parts}
    /\ Read(wire, Went(proc, Extend(out, proc.at[i], "thinking",
                                              Separator)))

\* The item as it comes when it is done, but for what it had from the start.
Whole(i, w) == [k \in 1 .. w.items[i].sent |-> i]

Replaced(o, b, parts) ==
  [o EXCEPT !.blocks[b].parts = IF parts = <<>> THEN @ ELSE parts]

\* response.function_call_arguments.done: all the arguments, whose rest is told if
\* there is one.
ResponsesArguments ==
  \E i \in OpenItems :
    /\ wire.items[i].kind = "toolCall"
    /\ \/ Read(wire, Went(proc, Replaced(Unslotted(i), proc.at[i], Whole(i, wire))))
       \/ /\ CanGrow(i)
          /\ Read(Grown(i),
               Went(proc,
                    PushDelta(Replaced(Unslotted(i), proc.at[i],
                                       Whole(i, Grown(i))),
                              proc.at[i], "toolCall", i)))

\* response.output_item.done, with what was not streamed, or of an item that
\* was never added.
ResponsesItemDone ==
  \/ \E i \in OpenItems, rest \in {0, 1} :
       LET w == [wire EXCEPT !.items[i].sent = @ + rest,
                             !.items[i].open = FALSE]
           whole == Replaced(Unslotted(i), proc.at[i], Whole(i, w))
       IN /\ rest = 1 => CanGrow(i)
          /\ Read(w, Went([proc EXCEPT !.at[i] = 0],
                                    PushBlockEnd(whole, proc.at[i])))
  \/ /\ CanOpen
     /\ \E kind \in Kinds :
          LET w == [OpenedWith(kind) EXCEPT !.items[NextItem].open = FALSE]
              added == AddBlock(out, kind)
              whole == Replaced(added, Len(added.blocks), Whole(NextItem, w))
          IN Read(w, Went(proc, PushBlockEnd(whole, Len(whole.blocks))))

\* response.completed, incomplete or failed, whose status names the stop reason;
\* the task is over with it.
ResponsesCompleted ==
  /\ OpenItems = {} /\ ~wire.stopped
  /\ \E status \in {"stop", "length", "error"} :
       LET reason == IF status = "stop" /\ HasToolCall(out) THEN "toolUse"
                     ELSE status
           told == [out EXCEPT !.reason = reason]
       IN Read(Stopped, IF reason = "error" THEN Failed(proc, told)
                                  ELSE Ended(proc, PushDone(told)))

\* error
ResponsesError == Read(wire, Failed(proc, out))

ResponsesEnds == BodyEnds(Failed(proc, out))

ResponsesNext ==
  /\ api = "responses"
  /\ \/ ResponsesOther \/ ResponsesItemAdded \/ ResponsesDelta
     \/ ResponsesSummaryPart \/ ResponsesArguments \/ ResponsesItemDone
     \/ ResponsesCompleted \/ ResponsesError \/ ResponsesEnds
=============================================================================
