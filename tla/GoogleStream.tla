------------------------------ MODULE GoogleStream -----------------------------
(***************************************************************************)
(* GoogleStreamProcessor of crates/ri-llm-provider/src/google_shared.rs:   *)
(* a block of text or of thinking is a run of parts of that kind; a        *)
(* function call comes whole.                                              *)
(***************************************************************************)
EXTENDS HttpStream

\* active: active_block, 0 for none.
GoogleNew == [started |-> FALSE, active |-> 0]

GoogleStarted == IF proc.started THEN out ELSE PushStart(out)

GoogleReads(w, step) == Read(w, [step EXCEPT !.proc.started = TRUE])

\* finish_google_active_block
ActiveEnded(o) == IF proc.active = 0 THEN o ELSE PushBlockEnd(o, proc.active)

\* Usage, or a chunk without a candidate.
GoogleOther == GoogleReads(wire, Went(proc, GoogleStarted))

\* The run of parts the provider is in ends with the next part of another kind.
RunOver == [wire EXCEPT !.items = [i \in Items |-> [@[i] EXCEPT !.open = FALSE]]]

\* process_google_text_part
GoogleText ==
  \E kind \in {"text", "thinking"} :
    LET continues == proc.active # 0 /\ out.blocks[proc.active].kind = kind
        added == AddBlock(ActiveEnded(GoogleStarted), kind)
        b == Len(out.blocks) + 1
        w == [RunOver EXCEPT !.items = Append(@, [Item(kind) EXCEPT !.sent = 1])]
    IN IF continues
       THEN \E i \in OpenItems :
              /\ CanGrow(i)
              /\ GoogleReads(Grown(i),
                   Went(proc, Extend(GoogleStarted, proc.active, kind, i)))
       ELSE /\ CanOpen
            /\ GoogleReads(w, Went([proc EXCEPT !.active = b],
                                   Extend(added, b, kind, NextItem)))

\* process_google_function_call_part: its start, its arguments and its end.
GoogleFunctionCall ==
  /\ CanOpen
  /\ LET added == AddBlock(ActiveEnded(GoogleStarted), "toolCall")
         b == Len(added.blocks)
         w == [RunOver EXCEPT !.items =
                 Append(@, [Item("toolCall") EXCEPT !.sent = 1, !.open = FALSE])]
     IN GoogleReads(w, Went([proc EXCEPT !.active = 0],
                            PushBlockEnd(Extend(added, b, "toolCall", NextItem), b)))

\* finishReason; a reply with a function call is one to answer, whatever it says.
GoogleFinishReason ==
  /\ ~wire.stopped
  /\ \E reason \in {"stop", "length", "error"} :
       GoogleReads(Stopped,
         Went(proc, [GoogleStarted EXCEPT
                       !.reason = IF HasToolCall(out) THEN "toolUse" ELSE reason]))

\* finish
GoogleEnds ==
  LET closed == ActiveEnded(GoogleStarted)
  IN BodyEnds(IF out.reason = "error" THEN Failed(proc, closed)
              ELSE Ended(proc, PushDone(closed)))

GoogleNext ==
  /\ api = "google"
  /\ \/ GoogleOther \/ GoogleText \/ GoogleFunctionCall \/ GoogleFinishReason
     \/ GoogleEnds
=============================================================================
