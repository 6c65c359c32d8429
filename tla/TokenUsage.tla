------------------------------ MODULE TokenUsage -------------------------------
(***************************************************************************)
(* The tokens of a conversation. A provider's meter counts what a request  *)
(* really took; every api reports it under a convention of its own, in one *)
(* piece or in two; the adapters make one usage of that, calculate_cost    *)
(* prices it, and estimate.rs tells from the usages and the texts of a     *)
(* conversation how much of the window the next request takes.             *)
(***************************************************************************)
EXTENDS Integers, Sequences, SequencesExt

Less(a, b) == IF a > b THEN a - b ELSE 0

SumOver(set, size) == SumFunctionOnSet(size, set)

\* The apis that share an adapter.
ResponsesApis ==
  {"openai-responses", "azure-openai-responses", "openai-codex-responses"}
GoogleApis == {"google-generative-ai", "google-vertex"}

-----------------------------------------------------------------------------
(* The provider's meter and its reports                                    *)

Meter(fresh, cached, written, answer, thoughts) ==
  [fresh |-> fresh, cached |-> cached, written |-> written,
   answer |-> answer, thoughts |-> thoughts]

Prompt(meter) == meter.fresh + meter.cached + meter.written
Output(meter) == meter.answer + meter.thoughts

\* The apis whose reports know of writes to the cache.
TellsWrites(api) == api \notin GoogleApis \cup {"mistral-conversations"}

\* Anthropic's first report comes with the start of the reply, its second with
\* the end; all others tell everything at once.
Reports(api, meter) ==
  LET prompt == Prompt(meter)
      output == Output(meter)
  IN CASE api = "anthropic-messages" ->
            <<[input |-> meter.fresh, read |-> meter.cached,
               write |-> meter.written, output |-> 1],
              [output |-> output]>>
       [] api \in ResponsesApis \cup {"openai-completions"} ->
            <<[input |-> prompt, read |-> meter.cached, write |-> meter.written,
               output |-> output, total |-> prompt + output]>>
       [] api \in GoogleApis ->
            <<[input |-> prompt, read |-> meter.cached, output |-> meter.answer,
               thoughts |-> meter.thoughts, total |-> prompt + output]>>
       [] api = "mistral-conversations" ->
            <<[input |-> prompt, read |-> meter.cached, output |-> output,
               total |-> prompt + output]>>
       [] api \in {"bedrock-converse-stream", "pi-messages"} ->
            <<[input |-> meter.fresh, read |-> meter.cached,
               write |-> meter.written, output |-> output,
               total |-> prompt + output]>>

-----------------------------------------------------------------------------
(* The adapters' parsing                                                   *)

NoUsage == [input |-> 0, output |-> 0, read |-> 0, write |-> 0, total |-> 0]

\* A number of a report, or what stands for it when it is not told.
At(report, field, default) ==
  IF field \in DOMAIN report THEN report[field] ELSE default

Parts(usage) == usage.input + usage.output + usage.read + usage.write

\* parse_anthropic_usage: what is not told again stays as it was.
AnthropicUsage(report, before) ==
  LET usage == [field \in {"input", "output", "read", "write"} |->
                  At(report, field, before[field])]
  IN [input |-> usage.input, output |-> usage.output, read |-> usage.read,
      write |-> usage.write, total |-> Parts(usage)]

\* parse_openai_completions_chunk_usage
CompletionsUsage(report) ==
  LET usage == [input |-> Less(At(report, "input", 0),
                               At(report, "read", 0) + At(report, "write", 0)),
                output |-> At(report, "output", 0),
                read |-> At(report, "read", 0),
                write |-> At(report, "write", 0),
                total |-> 0]
  IN [usage EXCEPT !.total = Parts(usage)]

\* parse_openai_responses_usage
ResponsesUsage(report) ==
  [input |-> Less(Less(At(report, "input", 0), At(report, "read", 0)),
                  At(report, "write", 0)),
   output |-> At(report, "output", 0),
   read |-> At(report, "read", 0),
   write |-> At(report, "write", 0),
   total |-> At(report, "total", 0)]

\* A mutation: the cached tokens are counted as new ones too.
GoogleUsageTwice(report) ==
  [input |-> At(report, "input", 0),
   output |-> At(report, "output", 0) + At(report, "thoughts", 0),
   read |-> At(report, "read", 0),
   write |-> 0,
   total |-> At(report, "total", 0)]

\* apply_google_chunk_metadata: the thoughts are told apart from the answer.
GoogleUsage(report) ==
  [input |-> Less(At(report, "input", 0), At(report, "read", 0)),
   output |-> At(report, "output", 0) + At(report, "thoughts", 0),
   read |-> At(report, "read", 0),
   write |-> 0,
   total |-> At(report, "total", 0)]

\* parse_mistral_usage, mistral_cached_prompt_tokens
MistralUsage(report) ==
  LET prompt == At(report, "input", 0)
      cached == Min({At(report, "read", 0), prompt})
      usage == [input |-> prompt - cached, output |-> At(report, "output", 0),
                read |-> cached, write |-> 0, total |-> At(report, "total", 0)]
  IN [usage EXCEPT !.total = IF @ # 0 THEN @ ELSE Parts(usage)]

\* apply_bedrock_stream_metadata: without a total, the cache is not counted.
BedrockUsage(report) ==
  LET total == At(report, "total", 0)
      input == At(report, "input", 0)
      output == At(report, "output", 0)
  IN [input |-> input, output |-> output,
      read |-> At(report, "read", 0), write |-> At(report, "write", 0),
      total |-> IF total # 0 THEN total ELSE input + output]

\* What the message knows after a report.
UsageAfter(api, before, report) ==
  CASE api = "anthropic-messages" -> AnthropicUsage(report, before)
    [] api = "openai-completions" -> CompletionsUsage(report)
    [] api \in ResponsesApis -> ResponsesUsage(report)
    [] api \in GoogleApis -> GoogleUsage(report)
    [] api = "mistral-conversations" -> MistralUsage(report)
    [] api = "bedrock-converse-stream" -> BedrockUsage(report)
    [] api = "pi-messages" -> report

\* The usage of a message whose stream brought the first `told` reports.
UsageOf(api, meter, told) ==
  LET Add(usage, report) == UsageAfter(api, usage, report)
  IN FoldLeft(Add, NoUsage, SubSeq(Reports(api, meter), 1, told))

-----------------------------------------------------------------------------
(* calculate_cost: the highest threshold that the whole input passes.      *)

\* Tiers are pairs of a threshold and the price of a token above it.
PriceOf(tiers, usage) ==
  LET input == usage.input + usage.read + usage.write
      passed == {tier \in tiers : input > tier[1]}
  IN IF passed = {} THEN 1
     ELSE (CHOOSE tier \in passed : \A other \in passed : other[1] <= tier[1])[2]

-----------------------------------------------------------------------------
(* estimate.rs                                                             *)

\* calculate_context_tokens
ContextTokens(usage) == IF usage.total > 0 THEN usage.total ELSE Parts(usage)

\* estimate_message_tokens: four characters are a token, an image is 4800.
Tokens(chars) == (chars + 3) \div 4
SizeOf(message) == Tokens(message.chars + 4800 * message.images)

\* A mutation: the clock of the prefix is not looked at.
AnyUsage(messages, k) ==
  /\ messages[k].role = "assistant"
  /\ messages[k].ended \notin {"aborted", "error"}
  /\ ContextTokens(messages[k].usage) > 0

\* get_last_assistant_usage_info: a usage counts while nothing before it is
\* newer, such as the summary a compaction puts there.
UsageCounts(messages, k) ==
  /\ messages[k].role = "assistant"
  /\ \A earlier \in 1 .. (k - 1) : messages[earlier].at <= messages[k].at
  /\ messages[k].ended \notin {"aborted", "error"}
  /\ ContextTokens(messages[k].usage) > 0

LastUsage(messages) ==
  Max({0} \cup {k \in DOMAIN messages : UsageCounts(messages, k)})

\* estimate_messages
EstimatedMessages(messages) ==
  LET k == LastUsage(messages)
      Add(sum, message) == sum + SizeOf(message)
      after == FoldLeft(Add, 0, SubSeq(messages, k + 1, Len(messages)))
  IN IF k = 0 THEN after ELSE ContextTokens(messages[k].usage) + after

\* The tools that results after the k-th message have added.
AddedAfter(messages, k) ==
  UNION {messages[n].adds : n \in (k + 1) .. Len(messages)}

\* estimate_context_tokens: the prompt and the tools are part of a usage, except
\* for the tools that were added after it.
Estimate(context) ==
  LET k == LastUsage(context.messages)
      added == DOMAIN context.tools \cap AddedAfter(context.messages, k)
  IN EstimatedMessages(context.messages) +
       IF k = 0 THEN context.system + SumOver(DOMAIN context.tools, context.tools)
       ELSE SumOver(added, context.tools)
===============================================================================
