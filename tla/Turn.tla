---------------------------------- MODULE Turn ----------------------------------
(***************************************************************************)
(* A turn by its stages: what is asked of the model, the arguments of the  *)
(* call it answers with, the command that the bash tool runs for it. A     *)
(* stage needs nothing of the one before but that it came to an end.       *)
(*                                                                         *)
(* The first stage is a conversation by its tokens: requests are capped by *)
(* what the usages of the replies before them and the texts since tell,    *)
(* replies take at most what they were given, results add texts and tools, *)
(* and a compaction puts a summary in the place of the older messages. The *)
(* tokenizer counts as estimate.rs does; what is modelled is what is       *)
(* counted, and when.                                                      *)
(***************************************************************************)
EXTENDS RequestLimits, ToolArguments, ShellCapture, FiniteSets

CONSTANTS
  Models,      \* the models, as RequestLimits describes them
  Wishes,      \* what a caller may ask of its requests
  Texts,       \* the characters of a result or a question
  Outputs,     \* the tokens a reply would like to have
  Tiers,       \* the thresholds of calculate_cost and their prices
  MaxMessages,   \* the messages that are made at most
  Schemas,       \* the parameters of tools
  Arguments(_)   \* the arguments that a call of such a tool may have

VARIABLES
  stage,    \* "ask", "call" or "run"
  call,     \* the call: its schema and arguments, and what the tool gets
  model,    \* the model of the conversation
  wish,     \* what its caller asks of every request
  context,  \* system prompt, tools and messages
  now,      \* the messages made so far, which is the clock
  request,  \* the request under way, or None
  meter     \* the provider's meter of the last reply, or None

budgetVars == <<model, wish, context, now, request, meter>>
turnVars == <<stage, call, budgetVars, shellVars>>

Message(role, chars, images) ==
  [role |-> role, at |-> now, chars |-> chars, images |-> images, adds |-> {},
   ended |-> "stop", usage |-> NoUsage]

BudgetInit ==
  /\ model \in Models
  /\ wish \in Wishes
  /\ now = 1
  /\ \E chars \in Texts :
       context = [system |-> 500, tools |-> [read |-> 300],
                  messages |-> <<[role |-> "user", at |-> 0, chars |-> chars,
                                  images |-> 0, adds |-> {}, ended |-> "stop",
                                  usage |-> NoUsage]>>]
  /\ request = None
  /\ meter = None

HasFailed(message) == message.ended \in {"error", "aborted"}

\* What the provider reads: a failed reply is not sent again.
Truth ==
  LET Add(sum, message) == sum + IF HasFailed(message) THEN 0 ELSE SizeOf(message)
  IN FoldLeft(Add, 0, context.messages) + context.system
       + SumOver(DOMAIN context.tools, context.tools)

NextRequest(as) == RequestOf(model, Estimate(context), as)

Ask ==
  /\ request = None
  /\ Last(context.messages).role # "assistant"
  /\ ~Refused(model, wish)
  /\ request' = NextRequest(wish)
  /\ UNCHANGED <<model, wish, context, now, meter>>

\* Half of the prompt came from the cache and half of the rest went into it.
Taken(output) ==
  LET half == Truth \div 2
      part == (Truth - half) \div 2
  IN Meter(Truth - half - part, half, part, output - output \div 2, output \div 2)

\* A reply ends by itself, at its cap, or breaks off after some of its reports.
Reply ==
  /\ request # None
  /\ \E wanted \in Outputs, ended \in {"stop", "error"} :
       LET output == IF request.cap = None THEN wanted ELSE Min({wanted, request.cap})
           all == Len(Reports(model.api, Taken(output)))
       IN \E told \in 0 .. all :
            /\ (ended = "stop") => (told = all)
            /\ meter' = IF ended = "stop" THEN Taken(output) ELSE None
            /\ context' = [context EXCEPT !.messages =
                 Append(@, [Message("assistant", 4 * output, 0) EXCEPT
                              !.ended = IF ended = "stop" /\ wanted > output
                                        THEN "length" ELSE ended,
                              !.usage = UsageOf(model.api, Taken(output), told)])]
  /\ now' = now + 1
  /\ request' = None
  /\ UNCHANGED <<model, wish>>

\* A question, or a result that brings an image and a tool.
Goes ==
  /\ request = None
  /\ now < MaxMessages
  /\ Last(context.messages).role = "assistant"
  /\ \E chars \in Texts, adds \in {{}, {"search"}} :
       context' = [context EXCEPT
         !.messages = Append(@, [Message("toolResult", chars, Cardinality(adds)) EXCEPT
                                   !.adds = adds]),
         !.tools = @ @@ [tool \in adds |-> 700]]
  /\ now' = now + 1
  /\ UNCHANGED <<model, wish, request, meter>>

\* A compaction: a new summary, and the messages it kept.
Summarise ==
  /\ request = None
  /\ now < MaxMessages
  /\ \E kept \in 1 .. Len(context.messages) :
       /\ kept > 1
       /\ context.messages[kept].role = "assistant"
       /\ context' = [context EXCEPT !.messages =
            <<Message("user", 400, 0)>> \o SubSeq(@, kept, Len(@))]
  /\ now' = now + 1
  /\ UNCHANGED <<model, wish, request, meter>>

BudgetNext == Ask \/ Reply \/ Goes \/ Summarise

-----------------------------------------------------------------------------
(* The stages                                                              *)

TurnInit ==
  /\ stage = "ask"
  /\ call = None
  /\ BudgetInit
  /\ CommandInit

Asks == stage = "ask" /\ BudgetNext /\ UNCHANGED <<stage, call, shellVars>>

\* The model has answered with a call. What was asked does not matter any more.
Calls ==
  /\ stage = "ask" /\ meter # None
  /\ stage' = "call"
  /\ model' = None /\ wish' = None /\ context' = None /\ now' = None
  /\ request' = None /\ meter' = None
  /\ UNCHANGED <<call, shellVars>>

Sends ==
  /\ stage = "call" /\ call = None
  /\ \E schema \in Schemas : \E arguments \in Arguments(schema) :
       call' = [schema |-> schema, arguments |-> arguments, checked |-> FALSE, got |-> {}]
  /\ UNCHANGED <<stage, budgetVars, shellVars>>

\* prepare_tool_call
Checked ==
  /\ stage = "call" /\ call # None
  /\ ~call.checked
  /\ call' = [call EXCEPT !.checked = TRUE, !.got = Validated(call.arguments, call.schema)]
  /\ UNCHANGED <<stage, budgetVars, shellVars>>

\* A call that was not refused runs.
Begins ==
  /\ stage = "call" /\ call # None
  /\ call.checked /\ call.got # {}
  /\ stage' = "run"
  /\ call' = None
  /\ UNCHANGED <<budgetVars, shellVars>>

Runs == stage = "run" /\ ShellNext /\ UNCHANGED <<stage, call, budgetVars>>

TurnNext == Asks \/ Calls \/ Sends \/ Checked \/ Begins \/ Runs

Running(act) == stage = "run" /\ act /\ UNCHANGED <<stage, call, budgetVars>>

\* The threads of a command go on; its processes and its user owe nothing.
TurnSpec ==
  /\ TurnInit /\ [][TurnNext]_turnVars
  /\ WF_turnVars(Running(Exec))
  /\ \A s \in Streams : WF_turnVars(Running(Reader(s)))

-----------------------------------------------------------------------------
(* Properties                                                              *)

\* The apis that cap a request whichever way it comes.
CapsItself(api) ==
  api \in GoogleApis \cup {"anthropic-messages", "bedrock-converse-stream",
                           "mistral-conversations"}

\* The least cap that is sent when the window is full.
Least == IF model.api \in ResponsesApis THEN 16 ELSE 1

\* A request leaves its prompt, its cap and 4096 tokens within the window, or asks
\* for the least there is. Requests to the OpenAI and pi apis through the Models
\* runtime are not capped by anyone, those to Codex never.
RoomKept ==
  request # None /\ (wish.route = "stream" \/ CapsItself(model.api))
    => \/ request.cap = None /\ (model.api = "openai-codex-responses" \/ model.max = 0)
       \/ request.cap # None /\ request.cap <= Least
       \/ request.cap # None /\ model.window # 0
            /\ Truth + request.cap + 4096 <= model.window
       \/ request.cap # None /\ model.window = 0

\* And it is held to no less than the window leaves, or to what was asked for:
\* what a summary has replaced no longer counts.
RoomUsed ==
  (request # None /\ request.cap # None /\ model.window # 0
     /\ \A k \in DOMAIN context.messages : ~HasFailed(context.messages[k]))
    => \/ request.cap >= BaseCap(model, wish)
       \/ Truth + request.cap + 4096 >= model.window

\* A reply that has ended is accounted as the provider's meter has it, whichever
\* convention it reports in and in however many pieces: no token twice, none lost,
\* and the price is that of the whole prompt.
UsageTrue ==
  LET last == Last(context.messages)
      writes == IF TellsWrites(model.api) THEN meter.written ELSE 0
      truth == [input |-> Prompt(meter) - meter.cached - writes,
                output |-> Output(meter), read |-> meter.cached,
                write |-> writes, total |-> Prompt(meter) + Output(meter)]
  IN meter # None /\ last.role = "assistant" /\ ~HasFailed(last)
       => /\ last.usage = truth
          /\ \A tier \in Tiers :
               (Prompt(meter) > tier[1]) <=> (PriceOf(Tiers, last.usage) >= tier[2])

TokensTold == RoomKept /\ RoomUsed /\ UsageTrue

\* The order of what is asked of a model.
Strength(asked) ==
  LET order == <<"none", "MINIMAL", "minimal", "LOW", "low", "MEDIUM", "medium",
                 "HIGH", "high", "xhigh", "max">>
  IN CASE asked.think = "budget" -> asked.budget
       [] asked.effort # None ->
            IF asked.effort \in ToSet(order)
            THEN CHOOSE k \in DOMAIN order : order[k] = asked.effort ELSE 0
       [] OTHER -> 0

WithLevel(level) == NextRequest([wish EXCEPT !.level = level])

\* The apis to which a caller can ask for thinking in their own words, before any
\* level.
OwnApis == GoogleApis \cup {"anthropic-messages", "mistral-conversations"}
OwnSaid ==
  /\ wish.own # None /\ model.api \in OwnApis
  /\ (model.api = "mistral-conversations") => ControlsMistral(wish.own)

\* Claude's thinking leaves the answer 1024 tokens of the cap or gets none itself.
\* A budget of the caller's own, in thinkingBudgetTokens, is fitted to nothing
\* (anthropic.rs:701).
AnswerHasRoom ==
  (request # None /\ request.think = "budget" /\ model.api \notin GoogleApis /\ ~OwnSaid)
    => request.budget = 0 \/ request.budget + 1024 <= request.cap

\* Who asks for no thinking gets none, unless the model cannot be kept from it.
Unasked ==
  \/ wish.level = None /\ wish.own = None
  \/ OwnSaid /\ ~wish.own.on /\ wish.own.effort = None
NoneUnasked ==
  (request # None /\ Unasked)
    => \/ request.think \in {"unsaid", "off"}
       \/ request.effort = "none"
       \/ TakesLevel(model) \/ Mapped(model, "off")

\* Of the levels a model supports, a higher one never asks it for less.
HigherThinksMore ==
  (request # None /\ model.reasons /\ wish.budgets = <<>>)
    => \A a, b \in DOMAIN Levels :
         ({Levels[a], Levels[b]} \subseteq Supported(model) \ {"off"} /\ a < b)
           => Strength(WithLevel(Levels[a])) <= Strength(WithLevel(Levels[b]))

\* What the caller says in the words of the api stands, whatever level it has set
\* besides, and takes nothing off the answer's cap.
OwnStands ==
  (request # None /\ OwnSaid) => \A k \in DOMAIN Levels : WithLevel(Levels[k]) = request

ThinkingFits == AnswerHasRoom /\ NoneUnasked /\ HigherThinksMore /\ OwnStands

\* The tool of a call gets what the model has said, read as the tool's schema has
\* it, and a call that fits the schema reaches it.
ArgumentsFit ==
  (call # None /\ call.checked) => CallKept(call.arguments, call.schema, call.got)
===============================================================================
