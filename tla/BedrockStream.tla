------------------------------ MODULE BedrockStream ----------------------------
(***************************************************************************)
(* BedrockConverseStreamProcessor of crates/ri-llm-provider/src/bedrock.rs,*)
(* fed by the frames of an AWS event stream: one content block at a time;  *)
(* a tool call is announced, text and reasoning begin with their first     *)
(* fragment.                                                               *)
(***************************************************************************)
EXTENDS HttpStream

\* at: content_indexes, 0 for none.
BedrockNew == [at |-> [i \in 1 .. MaxItems |-> 0]]

\* messageStart comes first.
BedrockMessageStart ==
  ~out.started /\ Read(wire, Went(proc, PushStart(out)))

\* handle_bedrock_content_block_start
BedrockBlockStart ==
  /\ out.started /\ CanOpen /\ OpenItems = {}
  /\ LET added == AddBlock(out, "toolCall")
     IN Read(Opened("toolCall"),
          Went([proc EXCEPT !.at[NextItem] = Len(added.blocks)], added))

\* handle_bedrock_content_block_delta, and ensure_bedrock_text_block and
\* ensure_bedrock_thinking_block for a first fragment.
BedrockDelta ==
  \/ \E i \in Items :
       /\ CanGrow(i)
       /\ Read(Grown(i),
            Went(proc, Extend(out, proc.at[i], wire.items[i].kind, i)))
  \/ /\ out.started /\ CanOpen /\ OpenItems = {}
     /\ \E kind \in {"text", "thinking"} :
          LET added == AddBlock(out, kind)
              b == Len(added.blocks)
          IN Read(OpenedWith(kind),
               Went([proc EXCEPT !.at[NextItem] = b],
                    Extend(added, b, kind, NextItem)))

\* handle_bedrock_content_block_stop
BedrockBlockStop ==
  \E i \in OpenItems :
    Read(Closed(i),
      Went([proc EXCEPT !.at[i] = 0],
           IF proc.at[i] = 0 THEN out ELSE PushBlockEnd(out, proc.at[i])))

\* messageStop, before the metadata.
BedrockMessageStop ==
  /\ out.started /\ OpenItems = {} /\ ~wire.stopped
  /\ \E reason \in {"stop", "length", "toolUse", "error"} :
       Read(Stopped, Went(proc, [out EXCEPT !.reason = reason]))

\* finish_bedrock_stream_with_error, for an exception in the stream.
BedrockException ==
  Read(wire, Failed(proc, PushError(out, "error")))

\* The body ends between two frames, or within one.
BedrockEnds ==
  \E midFrame \in BOOLEAN :
    BodyEnds(IF midFrame \/ out.reason = "error"
             THEN Failed(proc, PushError(out, "error"))
             ELSE Ended(proc, PushDone(out)))

BedrockNext ==
  /\ api = "bedrock"
  /\ \/ BedrockMessageStart \/ BedrockBlockStart \/ BedrockDelta
     \/ BedrockBlockStop \/ BedrockMessageStop \/ BedrockException
     \/ BedrockEnds
=============================================================================
