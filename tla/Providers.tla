------------------------------- MODULE Providers -------------------------------
(***************************************************************************)
(* Every adapter of crates/ri-llm-provider, one per behaviour, from the    *)
(* request to the end of the stream.                                       *)
(***************************************************************************)
EXTENDS AnthropicStream, CompletionsStream, ResponsesStream, GoogleStream,
        MistralStream, BedrockStream, RelayedStream

vars == <<out, api, task, attempt, wire, proc, aborted, gone, overread>>

\* The adapter's state when the task begins.
NewProc(a) ==
  CASE a = "anthropic" -> AnthropicNew
    [] a = "completions" -> CompletionsNew
    [] a = "responses" -> ResponsesNew
    [] a = "google" -> GoogleNew
    [] a = "mistral" -> MistralNew
    [] a = "bedrock" -> BedrockNew
    [] a \in {"piMessages", "proxy"} -> RelayedNew

Init == HttpInit /\ proc = NewProc(api)

Next ==
  \/ HttpNext
  \/ AnthropicNext \/ CompletionsNext \/ ResponsesNext \/ GoogleNext
  \/ MistralNext \/ BedrockNext \/ RelayedNext

Spec == Init /\ [][Next]_vars

\* The provider goes on answering or closes the connection: nothing in the
\* code stops a task whose provider falls silent.
FairSpec == Spec /\ WF_vars(Next)

-----------------------------------------------------------------------------
(* Properties                                                              *)

\* Where the fragments of block i are, among the separators between its parts.
Fragments(i) ==
  {k \in DOMAIN out.blocks[i].parts : out.blocks[i].parts[k] # Separator}

\* Block i has what the start of its item brought and no other: a redacted
\* thought from the start on, the arguments of a call of the Responses API once it
\* is done. An Anthropic call does not keep the input its start brought: its
\* deltas, or the stop of a call that had none, replace it.
LeadKept(i) ==
  LET item == wire.items[i]
      lead == out.blocks[i].lead
  IN /\ lead # 0 => lead = i /\ item.brought
     /\ item.brought
        /\ (item.kind = "toolCall" => api = "responses" /\ ~item.open)
          => lead = i

\* The message is the reply: one block for each item the provider sent, in the
\* order they began, with all the fragments of that item and of no other,
\* however the fragments were interleaved and named (the slots, maps and active
\* blocks of the adapters), and with what it came with.
MessageIsReply ==
  /\ Len(out.blocks) = Len(wire.items)
  /\ \A i \in Items :
       /\ out.blocks[i].kind = wire.items[i].kind
       /\ \A k \in Fragments(i) : out.blocks[i].parts[k] = i
       /\ Cardinality(Fragments(i)) = wire.items[i].sent
       /\ LeadKept(i)

\* The events tell the message: who rebuilds it from their deltas and ends, and
\* checks them as the proxy client does, is never given an event that does not
\* fit, has the same blocks as the message whenever the stream goes on or ends
\* well, and has seen all of them end when the provider said that the reply is
\* whole. What an item came with is told by the content of the end of its block,
\* and by nothing before it.
EventsTellMessage ==
  /\ ~out.broken
  /\ out.outcome \in {"none", "done", "ended"} =>
       /\ Len(out.shown) = Len(out.blocks)
       /\ \A i \in DOMAIN out.blocks :
            /\ out.shown[i].parts = out.blocks[i].parts
            /\ ~out.shown[i].open => out.shown[i].lead = out.blocks[i].lead
  /\ out.outcome = "done" /\ wire.stopped =>
       \A i \in DOMAIN out.shown : ~out.shown[i].open

\* What the caller gets, as a message and as events, is what the provider sent.
MessageTold == MessageIsReply /\ EventsTellMessage

\* A reply is done only if the provider said so: one cut short is an error. The
\* other adapters take the end of the body for the end of the reply.
CutIsNoReply ==
  out.outcome = "done" /\ api \in {"completions", "responses", "piMessages", "proxy"}
    => wire.stopped /\ (api # "completions" => OpenItems = {})

\* Nothing more of the answer is read for a consumer that has gone: the task
\* stops reading and releases the connection (event_stream.rs:43).
StopsForNobody == api # "proxy" => ~overread

\* The stream as a consumer may rely on it.
Abstract == INSTANCE AssistantStream
  WITH started <- out.started, shown <- out.shown, outcome <- out.outcome
IsAssistantStream == Abstract!Spec

\* Whoever waits for the result of the stream gets one, whatever the provider,
\* the network, the caller and the consumer do: no way out of the task leaves the
\* stream open (push_provider_error, finish and end).
ResultComes == <>(out.outcome # "none")
=============================================================================
