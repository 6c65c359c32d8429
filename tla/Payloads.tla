-------------------------------- MODULE Payloads --------------------------------
(***************************************************************************)
(* The requests of the providers. First those whose messages are lists of  *)
(* blocks: convert_anthropic_messages_from_transformed of anthropic.rs,    *)
(* convert_bedrock_messages of bedrock.rs and convert_google_messages of   *)
(* google_shared.rs.  The results of a batch of calls are blocks of a      *)
(* user's message there.                                                   *)
(*                                                                         *)
(* A payload is its messages, the tools that the request lists and those   *)
(* that it lists for the transcript to load.                               *)
(***************************************************************************)
EXTENDS Messages

Said(role, parts) == [role |-> role, parts |-> parts]
Result(id, parts, loads) ==
  [kind |-> "result", id |-> id, shows |-> parts, loads |-> loads]
Payload(messages, immediate, deferred) ==
  [messages |-> messages, immediate |-> immediate, deferred |-> deferred]

\* A message of a role, unless no part of it is left.
SaidIfAny(role, parts) == IF parts = <<>> THEN <<>> ELSE <<Said(role, parts)>>

IsBlank(part) == part.kind = "blank"
IsShown(part) == ~IsBlank(part)
OrNote(parts) == IF parts = <<>> THEN <<Note>> ELSE parts

\* The inner loops over results that follow each other: a group is such a run,
\* or a message of another kind by itself.
Groups(messages) ==
  LET Add(groups, message) ==
        IF /\ message.role = "toolResult"
           /\ groups # <<>>
           /\ Last(Last(groups)).role = "toolResult"
        THEN Append(Front(groups), Append(Last(groups), message))
        ELSE Append(groups, <<message>>)
  IN FoldLeft(Add, <<>>, messages)

\* The tools that the results among messages add.
AddsOf(messages) ==
  UNION {IF messages[k].role = "toolResult" THEN ToSet(messages[k].adds) ELSE {} :
           k \in DOMAIN messages}

\* What Op makes of each message or run of results.
OfGroups(messages, Op(_)) == Replaced(Groups(messages), Op)

-----------------------------------------------------------------------------
(* Anthropic                                                               *)

\* convert_anthropic_messages_from_transformed, of an assistant's block.
AnthropicBlock(part, model) ==
  CASE IsBlank(part) -> <<>>
    [] part.kind = "thinking" /\ ~part.signed ->
         IF "emptySignature" \in model.traits THEN <<part>> ELSE <<Text(part.n)>>
    [] OTHER -> <<part>>

\* convert_anthropic_tool_result_content
AnthropicResultContent(parts) ==
  IF \E k \in DOMAIN parts : IsImage(parts[k])
  THEN IF \A k \in DOMAIN parts : IsImage(parts[k]) THEN <<Note>> \o parts
                                                    ELSE parts
  ELSE parts

\* A mutation: what a result says besides the tools it loads is not sent.
ReferencesAlone(results, deferred, loaded) ==
  LET loads == Loads(results, deferred, loaded)
  IN [k \in DOMAIN results |->
        Result(results[k].id,
               IF loads[k] = {} THEN AnthropicResultContent(results[k].parts)
                                ELSE <<>>,
               loads[k])]

\* A run of results: one that loads tools shows its references, and its content
\* follows the results of the run.
AnthropicResults(results, deferred, loaded) ==
  LET loads == Loads(results, deferred, loaded)
      Block(k) ==
        Result(results[k].id,
               IF loads[k] = {} THEN AnthropicResultContent(results[k].parts)
                                ELSE <<>>,
               loads[k])
      Displaced(k) ==
        IF loads[k] = {} THEN <<>> ELSE AnthropicResultContent(results[k].parts)
  IN [k \in DOMAIN results |-> Block(k)]
       \o FlattenSeq([k \in DOMAIN results |-> Displaced(k)])

\* convert_anthropic_messages_from_transformed, with the tools that the results
\* so far have loaded.
ConvertAnthropicMessages(messages, model, deferred) ==
  LET OfBlock(part) == AnthropicBlock(part, model)
      Add(done, group) ==
        LET message == group[1]
        IN CASE message.role = "user" ->
                  [done EXCEPT !.out =
                     @ \o SaidIfAny("user", SelectSeq(message.parts, IsShown))]
             [] message.role = "assistant" ->
                  [done EXCEPT !.out =
                     @ \o SaidIfAny("assistant", Replaced(message.parts, OfBlock))]
             [] message.role = "toolResult" ->
                  [out |-> Append(done.out,
                                  Said("user", AnthropicResults(group, deferred,
                                                                done.loaded))),
                   loaded |-> done.loaded \cup AddsOf(group)]
  IN FoldLeft(Add, [out |-> <<>>, loaded |-> {}], Groups(messages)).out

\* build_anthropic_payload: a request lists one tool at least at once.
AnthropicPayload(context, model) ==
  LET messages == TransformMessages(context.messages, model)
      placement == SplitDeferredTools(messages, context.tools,
                                      "toolReferences" \in model.traits)
      deferred == IF placement.immediate = {} THEN {} ELSE placement.deferred
  IN Payload(ConvertAnthropicMessages(messages, model, deferred),
             context.tools \ deferred, deferred)

-----------------------------------------------------------------------------
(* Bedrock                                                                 *)

\* convert_bedrock_messages, of an assistant's block: a thought without words
\* and a signature that the model does not take are left out.
BedrockBlock(part, model) ==
  CASE part.kind \in {"blank", "sealed"} -> <<>>
    [] part.kind \in {"thinking", "redacted"} ->
         IF "signatures" \notin model.traits
         THEN <<Part("thinking", part.n, FALSE)>>
         ELSE IF part.signed THEN <<Part("thinking", part.n, TRUE)>>
         ELSE <<Text(part.n)>>
    [] OTHER -> <<part>>

ConvertBedrockMessages(messages, model) ==
  LET OfBlock(part) == BedrockBlock(part, model)
      Block(result) ==
        Result(result.id, OrNote(SelectSeq(result.parts, IsShown)), {})
      OfGroup(group) ==
        CASE group[1].role = "user" ->
               <<Said("user", OrNote(SelectSeq(group[1].parts, IsShown)))>>
          [] group[1].role = "assistant" ->
               SaidIfAny("assistant", Replaced(group[1].parts, OfBlock))
          [] group[1].role = "toolResult" ->
               <<Said("user", [k \in DOMAIN group |-> Block(group[k])])>>
  IN OfGroups(messages, OfGroup)

BedrockPayload(context, model) ==
  Payload(ConvertBedrockMessages(
            TransformMessages(context.messages, model), model),
          context.tools, {})

-----------------------------------------------------------------------------
(* Google                                                                  *)

\* convert_google_assistant_parts: a signature goes back to the model that gave
\* it, which the words of a reply keep no trace of.
GooglePart(part) ==
  IF part.kind \in {"blank", "sealed"} THEN <<>> ELSE <<part>>

\* A result of convert_google_messages joins the message of the results before
\* it; its images are a part of it or a message of the user's own.
GoogleResult(contents, result, model) ==
  LET texts == SelectSeq(result.parts, LAMBDA part : IsShown(part) /\ ~IsImage(part))
      images == IF model.vision THEN SelectSeq(result.parts, IsImage) ELSE <<>>
      inside == "multimodal" \in model.traits
      response == Result(result.id,
                         (IF texts = <<>> /\ images # <<>> THEN <<Note>> ELSE texts)
                           \o (IF inside THEN images ELSE <<>>), {})
      joins == /\ contents # <<>>
               /\ Last(contents).role = "user"
               /\ \E k \in DOMAIN Last(contents).parts :
                    Last(contents).parts[k].kind = "result"
      answered ==
        IF joins
        THEN Append(Front(contents),
                    [Last(contents) EXCEPT !.parts = Append(@, response)])
        ELSE Append(contents, Said("user", <<response>>))
  IN IF images = <<>> \/ inside THEN answered
     ELSE Append(answered, Said("user", <<Note>> \o images))

ConvertGoogleMessages(messages, model) ==
  LET Add(contents, message) ==
        CASE message.role = "user" ->
               contents \o SaidIfAny("user", message.parts)
          [] message.role = "assistant" ->
               contents \o SaidIfAny("assistant",
                                     Replaced(message.parts, GooglePart))
          [] message.role = "toolResult" ->
               GoogleResult(contents, message, model)
  IN FoldLeft(Add, <<>>, messages)

GooglePayload(context, model) ==
  Payload(ConvertGoogleMessages(TransformMessages(context.messages, model), model),
          context.tools, {})

-----------------------------------------------------------------------------
(* The providers that take the result of a call as an item or a message of *)
(* its own: openai_completions.rs, openai_responses.rs and mistral.rs.     *)

Loading(names) == [kind |-> "loads", names |-> names]
LoadingIfAny(role, names) ==
  IF names = {} THEN <<>> ELSE <<Said(role, <<Loading(names)>>)>>

Texts(parts) == SelectSeq(parts, LAMBDA part : part.kind \in {"text", "note"})
Images(parts) == SelectSeq(parts, IsImage)
Thoughts(parts) == SelectSeq(parts, LAMBDA part : part.kind = "thinking")
Calls(parts) == SelectSeq(parts, IsCall)

-----------------------------------------------------------------------------
(* OpenAI Completions                                                      *)

\* A reply of convert_openai_completions_messages_with_cache: the thoughts are
\* a field of the message or its first text, and without a text or a call the
\* reply is not sent.
CompletionsReply(parts, model) ==
  LET thoughts == Thoughts(parts)
      AsText(part) == <<Text(part.n)>>
      asText == "thinkingAsText" \in model.traits
      content == (IF asText THEN Replaced(thoughts, AsText) ELSE <<>>)
                   \o SelectSeq(parts, IsText)
      field == IF ~asText /\ thoughts # <<>> /\ Head(thoughts).signed
               THEN thoughts ELSE <<>>
  IN IF content = <<>> /\ Calls(parts) = <<>> THEN <<>>
     ELSE <<Said("assistant", field \o content \o Calls(parts))>>

\* A run of results: a message for each, one for their images, and for Kimi one
\* with the tools they added.
CompletionsResults(results, context, model, Bridge) ==
  LET Answer(result) ==
        <<Said("tool", <<Result(result.id, OrNote(Texts(result.parts)), {})>>)>>
      ImagesOf(result) == IF model.vision THEN Images(result.parts) ELSE <<>>
      images == Replaced(results, ImagesOf)
      added == IF "kimi" \in model.traits THEN AddsOf(results) \cap context.tools
                                         ELSE {}
  IN Replaced(results, Answer)
       \o (IF images = <<>> THEN <<>>
           ELSE Bridge \o <<Said("user", <<Note>> \o images)>>)
       \o LoadingIfAny("system", added)

ConvertCompletionsMessages(messages, context, model) ==
  LET Bridge == IF "assistantAfterResult" \in model.traits
                THEN <<Said("assistant", <<Note>>)>> ELSE <<>>
      Add(done, group) ==
        LET message == group[1]
            sent == CASE message.role = "user" ->
                           SaidIfAny("user", message.parts)
                      [] message.role = "assistant" ->
                           CompletionsReply(message.parts, model)
                      [] message.role = "toolResult" ->
                           CompletionsResults(group, context, model, Bridge)
            hasImages == \E k \in DOMAIN sent : sent[k].role = "user"
        IN [out |->
              done.out
                \o (IF done.last = "toolResult" /\ message.role = "user"
                    THEN Bridge ELSE <<>>)
                \o sent,
            last |->
              IF message.role = "toolResult"
              THEN IF hasImages THEN "user" ELSE "toolResult"
              ELSE IF sent = <<>> THEN done.last ELSE message.role]
  IN FoldLeft(Add, [out |-> <<>>, last |-> "none"], Groups(messages)).out

\* build_openai_completions_payload
CompletionsPayload(context, model) ==
  Payload(ConvertCompletionsMessages(
            TransformMessages(context.messages, model),
            context, model),
          context.tools \ (IF "kimi" \in model.traits THEN AddsOf(context.messages)
                                                     ELSE {}),
          {})

-----------------------------------------------------------------------------
(* OpenAI Responses                                                        *)

\* A mutation: no model is another's sibling.
NoSibling(by, model) == FALSE

\* Another model of the same provider and api.
IsSibling(by, model) ==
  by.provider = model.provider /\ by.api = model.api /\ by # model

\* split_responses_tool_call_id: what is sent of an id is its call id.
CallId(id) ==
  IF id.form \in {"piped", "hashed"} THEN [id EXCEPT !.item = 0, !.form = "callId"]
                                     ELSE id

\* An item of a reply: a thought is the item its signature holds, and a call
\* drops the item id that a sibling model gave it.
ResponsesItem(part, by, model) ==
  CASE part.kind \in {"thinking", "sealed"} ->
         IF part.signed THEN <<Said("assistant", <<part>>)>> ELSE <<>>
    [] part.kind = "redacted" -> <<>>
    [] IsCall(part) ->
         <<Said("assistant",
                <<CallPart(CallId(part.id), part.name,
                           part.id.form = "piped" /\ ~IsSibling(by, model))>>)>>
    [] OTHER -> <<Said("assistant", <<part>>)>>

\* A result and the tools it loads, each once.
ResponsesResult(result, model, loads) ==
  <<Said("tool",
         <<Result(CallId(result.id),
                  IF model.vision /\ Images(result.parts) # <<>>
                  THEN Texts(result.parts) \o Images(result.parts)
                  ELSE OrNote(Texts(result.parts)), {})>>)>>
    \o LoadingIfAny("tool", loads)

ConvertResponsesMessages(messages, model, deferred) ==
  LET OfMessage(k) ==
        LET message == messages[k]
            loaded == AddsOf(SubSeq(messages, 1, k - 1))
            OfPart(part) == ResponsesItem(part, message.by, model)
        IN CASE message.role = "user" -> SaidIfAny("user", message.parts)
             [] message.role = "assistant" -> Replaced(message.parts, OfPart)
             [] message.role = "toolResult" ->
                  ResponsesResult(message, model,
                                  (ToSet(message.adds) \cap deferred) \ loaded)
  IN FlattenSeq([k \in DOMAIN messages |-> OfMessage(k)])

\* build_openai_responses_payload: the tools are split as the conversation has
\* them, before it is transformed.
ResponsesPayload(context, model) ==
  LET placement == SplitDeferredTools(context.messages, context.tools,
                                      "toolSearch" \in model.traits)
  IN Payload(ConvertResponsesMessages(
               TransformMessages(context.messages, model),
               model, placement.deferred),
             placement.immediate, {})

-----------------------------------------------------------------------------
(* Mistral                                                                 *)

ToMistralMessages(messages, model) ==
  LET OfMessage(message) ==
        LET parts == message.parts
            Unsigned(part) == <<[part EXCEPT !.signed = FALSE]>>
            said == SelectSeq(parts, LAMBDA part : part.kind \in {"text", "thinking"})
        IN CASE message.role = "user" -> SaidIfAny("user", parts)
             [] message.role = "assistant" ->
                  SaidIfAny("assistant",
                            Replaced(said \o Calls(parts), Unsigned))
             [] message.role = "toolResult" ->
                  <<Said("tool",
                         <<Result(message.id,
                                  OrNote(Texts(parts)) \o Images(parts), {})>>)>>
  IN Replaced(messages, OfMessage)

\* build_mistral_chat_payload
MistralPayload(context, model) ==
  Payload(ToMistralMessages(
            TransformMessages(context.messages, model), model),
          context.tools, {})

-----------------------------------------------------------------------------
\* The request that a model's api makes of a context.
Request(context, model) ==
  CASE model.api = "anthropic-messages" -> AnthropicPayload(context, model)
    [] model.api = "bedrock-converse-stream" -> BedrockPayload(context, model)
    [] model.api = "google-generative-ai" -> GooglePayload(context, model)
    [] model.api = "openai-completions" -> CompletionsPayload(context, model)
    [] model.api = "openai-responses" -> ResponsesPayload(context, model)
    [] model.api = "mistral-conversations" -> MistralPayload(context, model)
==============================================================================
