------------------------------- MODULE Messages --------------------------------
(***************************************************************************)
(* What a request makes of a conversation before any provider's format:    *)
(* message_transform.rs drops what the target model cannot replay, renames *)
(* the calls' ids and answers the calls nobody answered, and               *)
(* deferred_tools.rs tells the tools that the transcript loads from those  *)
(* that the request lists.                                                 *)
(*                                                                         *)
(* A text, an image or a thought is the number it was said under; blank    *)
(* texts and the adapters' own wording (notes) have none.                  *)
(***************************************************************************)
EXTENDS Integers, Sequences, SequencesExt, TLC

Part(kind, n, signed) == [kind |-> kind, n |-> n, signed |-> signed]
Text(n) == Part("text", n, FALSE)
Image(n) == Part("image", n, FALSE)
Note == Part("note", 0, FALSE)

\* The id of a call is its reply's number and those of its call id and, joined
\* to it by a pipe, of its item id, which a Responses reply gives it.  The ids of
\* a reply that are long agree up to where an adapter cuts them.
CallIdOf(n, call, item, long) ==
  [n |-> n, call |-> call, item |-> item, long |-> long,
   form |-> IF item = 0 THEN "plain" ELSE "piped"]

CallPart(id, name, signed) ==
  [kind |-> "call", id |-> id, name |-> name, signed |-> signed]

UserMessage(parts) == [role |-> "user", parts |-> parts]
AssistantMessage(by, parts, failed) ==
  [role |-> "assistant", by |-> by, parts |-> parts, failed |-> failed]
ToolResultMessage(id, parts, adds) ==
  [role |-> "toolResult", id |-> id, parts |-> parts, adds |-> adds]

IsCall(part) == part.kind = "call"
IsImage(part) == part.kind = "image"
IsText(part) == part.kind = "text"
IsThought(part) == part.kind \in {"thinking", "sealed", "redacted"}

\* The parts of a sequence, each replaced by the parts Op makes of it.
Replaced(parts, Op(_)) ==
  FlattenSeq([k \in DOMAIN parts |-> Op(parts[k])])

-----------------------------------------------------------------------------
(* The ids of calls                                                        *)

\* An id cut to what a request may hold: the long ids of a reply become one.
Shortened(id) ==
  IF id.long THEN [id EXCEPT !.call = 0, !.item = 0, !.long = FALSE, !.form = "cut"]
             ELSE id

\* normalize_anthropic_tool_call_id, normalize_bedrock_tool_call_id: the
\* separator of a piped id is not allowed.
Sanitized(id) ==
  [Shortened(id) EXCEPT !.form = IF @ = "piped" THEN "clean" ELSE @]

\* normalize_openai_completions_tool_call_id: a piped id that is too long is
\* hashed, a plain one cut.
CompletionsId(id, model) ==
  CASE id.form = "piped" -> [id EXCEPT !.long = FALSE, !.form = "clean"]
    [] model.provider = "openai" -> Shortened(id)
    [] OTHER -> id

\* normalize_google_tool_call_id
GoogleId(id, model) == IF "callIds" \in model.traits THEN Sanitized(id) ELSE id

\* normalize_openai_responses_tool_call_id: each part is cut, but a foreign item
\* id is hashed.
ResponsesId(id, by, model) ==
  IF id.form # "piped" \/ "itemIds" \notin model.traits THEN Sanitized(id)
  ELSE IF by.provider # model.provider \/ by.api # model.api
  THEN [id EXCEPT !.call = Shortened(id).call, !.long = FALSE, !.form = "hashed"]
  ELSE Shortened(id)

\* MistralToolCallIdNormalizer: an id of nine characters, one for each id.
MistralId(id) == [id EXCEPT !.form = "short"]

\* The id by which a model knows a call that another one made.
Renamed(id, by, model) ==
  CASE model.api \in {"anthropic-messages", "bedrock-converse-stream"} -> Sanitized(id)
    [] model.api = "openai-completions" -> CompletionsId(id, model)
    [] model.api = "google-generative-ai" -> GoogleId(id, model)
    [] model.api = "openai-responses" -> ResponsesId(id, by, model)
    [] model.api = "mistral-conversations" -> MistralId(id)

-----------------------------------------------------------------------------
(* transform_messages                                                      *)

\* replace_user_images_with_placeholder, replace_tool_images_with_placeholder:
\* one placeholder for the images in a row.
WithoutImages(parts) ==
  LET Add(kept, part) ==
        IF ~IsImage(part) THEN Append(kept, part)
        ELSE IF kept # <<>> /\ Last(kept) = Note THEN kept
        ELSE Append(kept, Note)
  IN FoldLeft(Add, <<>>, parts)

\* downgrade_unsupported_images
Downgraded(message, model) ==
  IF model.vision \/ message.role = "assistant" THEN message
  ELSE [message EXCEPT !.parts = WithoutImages(@)]

\* transform_assistant_message, of one part: a thought that another model
\* sealed is dropped, one in words becomes a text, and signatures stay home.
Foreign(part, by, model) ==
  CASE part.kind \in {"redacted", "sealed"} -> <<>>
    [] part.kind = "thinking" -> <<Text(part.n)>>
    [] IsCall(part) -> <<CallPart(Renamed(part.id, by, model), part.name, FALSE)>>
    [] OTHER -> <<[part EXCEPT !.signed = FALSE]>>

Transformed(message, model) ==
  IF message.by = model THEN message
  ELSE LET OfPart(part) == Foreign(part, message.by, model)
       IN [message EXCEPT !.parts = Replaced(message.parts, OfPart)]

CallsOf(message) == SelectSeq(message.parts, IsCall)

\* A mutation: the calls that have a result get another.
AnswerAll(calls, answered) ==
  [k \in DOMAIN calls |-> ToolResultMessage(calls[k].id, <<Note>>, <<>>)]

\* insert_missing_tool_results
Synthetic(calls, answered) ==
  LET IsUnanswered(call) == call.id \notin answered
      missing == SelectSeq(calls, IsUnanswered)
  IN [k \in DOMAIN missing |-> ToolResultMessage(missing[k].id, <<Note>>, <<>>)]

\* insert_synthetic_tool_results: a message that is no result closes the calls
\* before it, and a failed reply is left out.
Answered(messages) ==
  LET Close(done) == done.out \o Synthetic(done.calls, done.answered)
      Add(done, message) ==
        CASE message.role = "toolResult" ->
               [done EXCEPT !.out = Append(@, message),
                            !.answered = @ \cup {message.id}]
          [] message.role = "assistant" /\ ~message.failed ->
               [out |-> Append(Close(done), message),
                calls |-> CallsOf(message), answered |-> {}]
          [] OTHER ->
               [out |-> IF message.role = "user" THEN Append(Close(done), message)
                                                 ELSE Close(done),
                calls |-> <<>>, answered |-> {}]
  IN Close(FoldLeft(Add, [out |-> <<>>, calls |-> <<>>, answered |-> {}],
                    messages))

\* transform_messages: the ids of calls that another model's reply got renamed
\* are renamed in their results.
TransformMessages(messages, model) ==
  LET Add(done, message) ==
        CASE message.role = "user" -> [done EXCEPT !.out = Append(@, message)]
          [] message.role = "toolResult" ->
               [done EXCEPT !.out =
                  Append(@, [message EXCEPT !.id =
                               IF @ \in DOMAIN done.renames
                               THEN done.renames[@] ELSE @])]
          [] message.role = "assistant" ->
               LET ids == {call.id : call \in ToSet(CallsOf(message))}
                   renamed == IF message.by = model THEN {}
                              ELSE {id \in ids : Renamed(id, message.by, model) # id}
               IN [out |-> Append(done.out, Transformed(message, model)),
                   renames |->
                     [id \in renamed |-> Renamed(id, message.by, model)] @@ done.renames]
      Aware(message) == Downgraded(message, model)
  IN Answered(FoldLeft(Add, [out |-> <<>>, renames |-> <<>>],
                       [k \in DOMAIN messages |-> Aware(messages[k])]).out)

-----------------------------------------------------------------------------
(* split_deferred_tools                                                    *)

\* The tools that a result adds before any call of them is met: the transcript
\* loads them, the request lists the others.
LoadedByResults(messages) ==
  LET Add(met, message) ==
        CASE message.role = "assistant" ->
               [met EXCEPT !.used =
                  @ \cup {call.name : call \in ToSet(CallsOf(message))}]
          [] message.role = "toolResult" ->
               [met EXCEPT !.loaded = @ \cup (ToSet(message.adds) \ met.used)]
          [] OTHER -> met
  IN FoldLeft(Add, [used |-> {}, loaded |-> {}], messages).loaded

SplitDeferredTools(messages, tools, enabled) ==
  LET deferred == IF enabled THEN tools \cap LoadedByResults(messages) ELSE {}
  IN [immediate |-> tools \ deferred, deferred |-> deferred]

\* The tools of wanted that the results of a batch add and that none before
\* them had, result by result: what each has to load.
Loads(results, wanted, loaded) ==
  [k \in DOMAIN results |->
     (ToSet(results[k].adds) \cap wanted)
       \ (loaded \cup UNION {ToSet(results[l].adds) : l \in 1 .. k - 1})]
==============================================================================
