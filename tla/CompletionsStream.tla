---------------------------- MODULE CompletionsStream --------------------------
(***************************************************************************)
(* OpenAICompletionsStreamProcessor of                                     *)
(* crates/ri-llm-provider/src/openai_completions.rs: chunks of text, of    *)
(* reasoning and of tool calls, none of which says when a block is over.   *)
(* Gateways name the call a fragment belongs to in several ways: by its    *)
(* index and id, by its index alone, by its id under an index that all the *)
(* calls share, with an id that changes from chunk to chunk, or not at all.*)
(***************************************************************************)
EXTENDS HttpStream

NoIndex == -1
NoId == 0

\* byIndex and byId: tool_calls_by_index and tool_calls_by_id, 0 for no block;
\* ids: the id each block was given; the ids MaxItems + 1 .. are junk.
CompletionsNew ==
  [text |-> 0, thinking |-> 0, last |-> 0, finished |-> FALSE,
   byIndex |-> [x \in 0 .. MaxItems |-> 0],
   byId |-> [id \in 1 .. 2 * MaxItems |-> 0],
   ids |-> [b \in 1 .. MaxItems |-> NoId]]

\* A chunk without a choice: usage, a keep-alive.
CompletionsOther == Read(wire, Went(proc, out))

\* push_openai_completions_text_delta and ..._thinking_delta: the reply has one
\* block of each.
CompletionsText ==
  \E kind \in {"text", "thinking"} :
    LET there == IF kind = "text" THEN proc.text ELSE proc.thinking
        added == IF there = 0 THEN AddBlock(out, kind) ELSE out
        i == IF there = 0 THEN Len(added.blocks) ELSE there
        p == IF kind = "text" THEN [proc EXCEPT !.text = i]
             ELSE [proc EXCEPT !.thinking = i]
        item == IF there = 0 THEN NextItem
                ELSE CHOOSE j \in Items : wire.items[j].kind = kind
    IN /\ IF there = 0 THEN CanOpen ELSE CanGrow(item)
       /\ Read(IF there = 0 THEN OpenedWith(kind) ELSE Grown(item),
                           Went(p, Extend(added, i, kind, item)))

\* A mutation: the index alone says which call it is.
ByIndexAlone(index, id, named) ==
  IF index = NoIndex THEN 0 ELSE proc.byIndex[index]

\* ensure_openai_completions_tool_call_block: the block of a fragment that comes
\* with this index, this id and a name or none; 0 for a new one.
ByIndex(index, id, named) ==
  LET b == IF index = NoIndex THEN 0 ELSE proc.byIndex[index]
      another == b # 0 /\ id # NoId /\ named /\ proc.ids[b] \notin {NoId, id}
  IN IF another THEN 0 ELSE b

CallBlock(index, id, named) ==
  LET byIndex == ByIndex(index, id, named)
      byId == IF id = NoId THEN 0 ELSE proc.byId[id]
  IN IF byIndex # 0 THEN byIndex
     ELSE IF byId # 0 THEN byId
     ELSE IF index = NoIndex /\ id = NoId /\ ~named THEN proc.last
     ELSE 0

\* The maps after that fragment went to block b.
CallNoted(index, id, b) ==
  [proc EXCEPT
     !.byIndex = IF index = NoIndex THEN @ ELSE [@ EXCEPT ![index] = b],
     !.byId = IF id = NoId THEN @ ELSE [@ EXCEPT ![id] = b],
     !.last = b,
     !.ids[b] = IF @ = NoId THEN id ELSE @]

CallFragment(w, item, index, id, named) ==
  LET there == CallBlock(index, id, named)
      added == IF there = 0 THEN AddBlock(out, "toolCall") ELSE out
      b == IF there = 0 THEN Len(added.blocks) ELSE there
  IN Read(w, Went(CallNoted(index, id, b),
                              Extend(added, b, "toolCall", item)))

\* The index a gateway gives item j: its own, or 0 whatever the call.
IndexesOf(j) == {j, 0}

\* The first fragment of a call has its id and its name.
CompletionsCallStart ==
  /\ CanOpen
  /\ \E index \in IndexesOf(NextItem) \cup {NoIndex} :
       CallFragment(OpenedWith("toolCall"), NextItem, index, NextItem, TRUE)

LastOpened == CHOOSE j \in Items : \A k \in Items : k <= j

\* A later one has the index its call has, with the id, another or none; the id
\* alone; or, for the call under way, neither.
CompletionsCallDelta ==
  \E j \in Items :
    /\ CanGrow(j) /\ wire.items[j].kind = "toolCall"
    /\ LET b == proc.byId[j]
       IN \E index \in IndexesOf(j) \cup {NoIndex},
             id \in {NoId, j, MaxItems + j} :
            /\ index # NoIndex => proc.byIndex[index] = b
            /\ index = NoIndex /\ id = NoId => proc.last = b
            /\ id > MaxItems => index # NoIndex
            /\ CallFragment(Grown(j), j, index, id, FALSE)

\* finish_reason
CompletionsFinishReason ==
  /\ ~wire.stopped
  /\ \E reason \in {"stop", "length", "toolUse", "error"} :
       Read(Stopped, Went([proc EXCEPT !.finished = TRUE],
                                      [out EXCEPT !.reason = reason]))

\* A mutation: a reply that was cut is taken for a whole one.
CompletionsFinishedCut ==
  LET closed == EndBlocks(out, DOMAIN out.blocks)
  IN IF out.reason = "error" THEN Failed(proc, closed)
     ELSE Ended(proc, PushDone(closed))

\* finish: all the blocks end; a reply without a finish_reason is an error.
CompletionsFinished ==
  LET closed == EndBlocks(out, DOMAIN out.blocks)
  IN IF ~proc.finished THEN Failed(proc, closed)
     ELSE IF out.reason = "error" THEN Failed(proc, closed)
     ELSE Ended(proc, PushDone(closed))

CompletionsEnds == BodyEnds(CompletionsFinished)

CompletionsNext ==
  /\ api = "completions"
  /\ \/ CompletionsOther \/ CompletionsText \/ CompletionsCallStart
     \/ CompletionsCallDelta \/ CompletionsFinishReason \/ CompletionsEnds
=============================================================================
