----------------------------- MODULE RequestLimits -----------------------------
(***************************************************************************)
(* How much a request may say and think: simple_options.rs caps the reply  *)
(* to the model's limit and to what is left of the window, and each api's  *)
(* payload turns the caller's thinking level into a budget, an effort, a   *)
(* switch or nothing.                                                      *)
(*                                                                         *)
(* A model is a record: its api, provider, window and max (0 when unknown),*)
(* whether it reasons, `levels` (its thinking_level_map, None where the map*)
(* has null), and the traits its id and its compat flags stand for. A wish *)
(* is what the caller asks: a cap, a level, budgets of its own (None where *)
(* it says nothing), the route, stream_simple or the Models runtime, and   *)
(* `own`, None or what the caller says of thinking in the words of the api:*)
(* whether to think (thinkingEnabled, thinking.enabled, a promptMode, a    *)
(* reasoningSummary), a budget and an effort.                              *)
(***************************************************************************)
EXTENDS TokenUsage

CONSTANT None  \* where a map has null and where a caller or a request says nothing

\* ThinkingLevel::EXTENDED
Levels == <<"off", "minimal", "low", "medium", "high", "xhigh", "max">>

Is(model, trait) == trait \in model.traits

-----------------------------------------------------------------------------
(* Levels                                                                  *)

Mapped(model, level) == level \in DOMAIN model.levels /\ model.levels[level] # None
Nulled(model, level) == level \in DOMAIN model.levels /\ model.levels[level] = None

\* get_supported_thinking_levels
Supported(model) ==
  IF ~model.reasons THEN {"off"}
  ELSE {level \in ToSet(Levels) :
          \/ Mapped(model, level)
          \/ level \notin DOMAIN model.levels /\ level \notin {"xhigh", "max"}}

\* clamp_thinking_level: the next level above, or else the next below.
Clamped(model, level) ==
  LET asked == CHOOSE k \in DOMAIN Levels : Levels[k] = level
      usable == {k \in DOMAIN Levels : Levels[k] \in Supported(model)}
      above == {k \in usable : k >= asked}
  IN IF above # {} THEN Levels[Min(above)]
     ELSE IF usable # {} THEN Levels[Max(usable)] ELSE "off"

\* clamp_reasoning_for_budget
ForBudget(level) == IF level \in {"xhigh", "max"} THEN "high" ELSE level

\* The budget of a level: the caller's own, or the default.
Budget(defaults, level, budgets) ==
  IF level \in DOMAIN budgets THEN budgets[level] ELSE defaults[level]

\* default_thinking_budget
Defaults == [off |-> 0, minimal |-> 1024, low |-> 2048, medium |-> 8192,
             high |-> 16384]

-----------------------------------------------------------------------------
(* Caps                                                                    *)

\* clamp_max_tokens_to_context: 4096 tokens of the window are kept free.
Room(model, tokens, cap) ==
  IF model.window = 0 THEN Max({cap, 1})
  ELSE Min({cap, Max({model.window - tokens - 4096, 1})})

BaseCap(model, wish) == IF wish.cap = None THEN model.max ELSE wish.cap

\* apply_simple_stream_defaults: a cap of zero is none.
Capped(model, tokens, wish) ==
  LET cap == Room(model, tokens, BaseCap(model, wish))
  IN [wish EXCEPT !.cap = IF cap > 0 THEN cap ELSE None]

\* adjust_max_tokens_for_thinking: the budget comes on top of the cap, and 1024
\* tokens of a small cap are kept for the answer.
Adjusted(model, base, level, budgets) ==
  LET budget == Budget(Defaults, ForBudget(level), budgets)
      max == Min({base + budget, model.max})
  IN [cap |-> max, budget |-> IF max <= budget THEN Less(max, 1024) ELSE budget]

\* A mutation: the adjusted cap is not held to the window again.
ThinkingUnheld(model, tokens, base, level, budgets) ==
  LET adjusted == Adjusted(model, base, level, budgets)
  IN [cap |-> adjusted.cap,
      budget |-> Min({adjusted.budget, Less(adjusted.cap, 1024)})]

\* The adjusted cap is held to the window again, and the budget to the cap.
Thinking(model, tokens, base, level, budgets) ==
  LET adjusted == Adjusted(model, base, level, budgets)
      cap == Room(model, tokens, adjusted.cap)
  IN [cap |-> cap, budget |-> Min({adjusted.budget, Less(cap, 1024)})]

-----------------------------------------------------------------------------
(* The requests of the apis: a cap, and how thinking is asked for. `think` *)
(* is "unsaid", "off", "on", "budget", "adaptive" or "effort".             *)

Request(cap, think, budget, effort) ==
  [cap |-> cap, think |-> think, budget |-> budget, effort |-> effort]

Unsaid(cap) == Request(cap, "unsaid", None, None)
Effort(cap, effort) == Request(cap, "effort", None, effort)

\* map_anthropic_thinking_level_to_effort
AnthropicEffort(model, level) ==
  IF Mapped(model, level)
  THEN IF model.levels[level] \in {"low", "medium", "high", "xhigh", "max"}
       THEN model.levels[level] ELSE "high"
  ELSE CASE level \in {"minimal", "low"} -> "low"
         [] level = "medium" -> "medium"
         [] OTHER -> "high"

Control(on, budget, effort) == [on |-> on, budget |-> budget, effort |-> effort]

\* What is asked of thinking: the caller's own words, or what its level comes to.
AnthropicControl(model, wish, budget) ==
  IF wish.own # None THEN wish.own
  ELSE IF wish.level = None THEN Control(FALSE, None, None)
  ELSE Control(TRUE, budget, AnthropicEffort(model, wish.level))

\* build_anthropic_simple_payload_for_client, build_anthropic_payload: only the
\* budget of a level is fitted to the cap, and the cap to it.
AnthropicRequest(model, tokens, asked) ==
  LET wish == Capped(model, tokens, asked)
      adaptive == Is(model, "adaptive")
      limits == IF wish.own # None \/ wish.level = None \/ adaptive
                THEN [cap |-> wish.cap, budget |-> None]
                ELSE Thinking(model, tokens, IF wish.cap = None THEN 0 ELSE wish.cap,
                              wish.level, wish.budgets)
      cap == IF limits.cap = None THEN model.max ELSE limits.cap
      control == AnthropicControl(model, wish, limits.budget)
  IN IF ~model.reasons THEN Unsaid(cap)
     ELSE IF ~control.on
     THEN IF Nulled(model, "off") THEN Unsaid(cap) ELSE Request(cap, "off", None, None)
     ELSE IF adaptive THEN Request(cap, "adaptive", None, control.effort)
     ELSE Request(cap, "budget", IF control.budget = None THEN 1024 ELSE control.budget, None)

\* A mutation: the cap is adjusted, the caller's budget is not.
BedrockLimitsOfCap(model, tokens, wish) ==
  LET base == Room(model, tokens, BaseCap(model, wish))
      limits == Thinking(model, tokens, base, wish.level, wish.budgets)
  IN IF wish.level = None \/ ~Is(model, "claude") \/ Is(model, "adaptive")
     THEN [wish EXCEPT !.cap = base] ELSE [wish EXCEPT !.cap = limits.cap]

\* apply_bedrock_simple_stream_defaults: the budget replaces the caller's own.
BedrockLimits(model, tokens, wish) ==
  LET base == Room(model, tokens, BaseCap(model, wish))
      limits == Thinking(model, tokens, base, wish.level, wish.budgets)
  IN IF wish.level = None \/ ~Is(model, "claude") \/ Is(model, "adaptive")
     THEN [wish EXCEPT !.cap = base]
     ELSE [wish EXCEPT !.cap = limits.cap,
                       !.budgets = (ForBudget(wish.level) :> limits.budget) @@ @]

\* map_bedrock_thinking_level_to_effort
BedrockEffort(model, level) ==
  IF level = "xhigh" /\ Is(model, "xhigh") THEN "xhigh"
  ELSE AnthropicEffort(model, level)

\* build_bedrock_additional_model_request_fields, bedrock_thinking_budget
BedrockRequest(model, tokens, asked) ==
  LET wish == BedrockLimits(model, tokens, asked)
  IN IF wish.level = None \/ ~model.reasons \/ ~Is(model, "claude")
     THEN Unsaid(wish.cap)
     ELSE IF Is(model, "adaptive")
     THEN Request(wish.cap, "adaptive", None, BedrockEffort(model, wish.level))
     ELSE Request(wish.cap, "budget",
                  Budget(Defaults, ForBudget(wish.level), wish.budgets), None)

-----------------------------------------------------------------------------
(* Google                                                                  *)

\* The models that take a level: Vertex knows no gemma-4.
TakesLevel(model) ==
  \/ Is(model, "gemini3pro") \/ Is(model, "gemini3flash")
  \/ Is(model, "gemma4") /\ model.api # "google-vertex"

\* google_thinking_level
GoogleLevel(model, level) ==
  CASE Is(model, "gemini3pro") -> IF level \in {"minimal", "low"} THEN "LOW" ELSE "HIGH"
    [] Is(model, "gemma4") -> IF level \in {"minimal", "low"} THEN "MINIMAL" ELSE "HIGH"
    [] OTHER -> CASE level = "minimal" -> "MINIMAL"
                  [] level = "low" -> "LOW"
                  [] level = "medium" -> "MEDIUM"
                  [] OTHER -> "HIGH"

\* google_thinking_budget_for_api: -1 leaves it to the model.
GoogleDefaults(model) ==
  LET budgets(minimal, high) ==
        [minimal |-> minimal, low |-> 2048, medium |-> 8192, high |-> high]
  IN CASE Is(model, "2.5-pro") -> budgets(128, 32768)
       [] Is(model, "2.5-flash-lite") /\ model.api # "google-vertex" -> budgets(512, 24576)
       [] Is(model, "2.5-flash") -> budgets(128, 24576)
       [] OTHER -> [level \in {"minimal", "low", "medium", "high"} |-> -1]

\* google_disabled_thinking_config: some models cannot be kept from thinking.
GoogleOff(model, cap) ==
  IF Is(model, "gemini3pro") THEN Effort(cap, "LOW")
  ELSE IF TakesLevel(model) THEN Effort(cap, "MINIMAL")
  ELSE Request(cap, "off", 0, None)

\* parse_google_thinking_options, or the level of build_google_simple_payload
GoogleControl(model, wish) ==
  LET clamped == Clamped(model, wish.level)
      level == IF clamped = "off" THEN "high" ELSE clamped
  IN IF wish.own # None THEN wish.own
     ELSE IF wish.level = None THEN Control(FALSE, None, None)
     ELSE IF TakesLevel(model) THEN Control(TRUE, None, GoogleLevel(model, level))
     ELSE Control(TRUE, Budget(GoogleDefaults(model), ForBudget(level), wish.budgets), None)

\* build_google_simple_payload, build_google_payload
GoogleRequest(model, tokens, asked) ==
  LET cap == Capped(model, tokens, asked).cap
      control == GoogleControl(model, asked)
  IN IF ~model.reasons THEN Unsaid(cap)
     ELSE IF ~control.on THEN GoogleOff(model, cap)
     ELSE IF control.effort # None THEN Effort(cap, control.effort)
     ELSE Request(cap, IF control.budget = None THEN "on" ELSE "budget", control.budget, None)

-----------------------------------------------------------------------------
(* Mistral                                                                 *)

\* A prompt mode or an effort of the caller's own, sent to any model.
ControlsMistral(own) == own # None /\ (own.on \/ own.effort # None)

\* build_mistral_simple_payload, map_reasoning_effort
MistralRequest(model, tokens, asked) ==
  LET wish == Capped(model, tokens, asked)
      level == IF wish.level = None THEN "off" ELSE Clamped(model, wish.level)
  IN IF ControlsMistral(wish.own)
     THEN Request(wish.cap, IF wish.own.on THEN "on" ELSE "effort", None, wish.own.effort)
     ELSE IF ~model.reasons \/ level = "off" THEN Unsaid(wish.cap)
     ELSE IF ~Is(model, "effort") THEN Request(wish.cap, "on", None, None)
     ELSE Effort(wish.cap, IF Mapped(model, level) THEN model.levels[level] ELSE "high")

-----------------------------------------------------------------------------
(* The chat completions                                                    *)

\* thinking_level_wire
Wire(model, level) == IF Mapped(model, level) THEN model.levels[level] ELSE level

\* supports_reasoning_effort: the effort goes along with the switch.
WithEffort(model, wish, request) ==
  IF wish.level # None /\ Is(model, "effort")
  THEN [request EXCEPT !.effort = Wire(model, wish.level)] ELSE request

Switch(wish) ==
  Request(wish.cap, IF wish.level = None THEN "off" ELSE "on", None, None)

\* The formats that name an effort for off too, unless the map has null there.
NamedEffort(model, wish) ==
  IF wish.level # None THEN Effort(wish.cap, Wire(model, wish.level))
  ELSE IF Nulled(model, "off") THEN Unsaid(wish.cap)
  ELSE Effort(wish.cap, IF Mapped(model, "off") THEN model.levels["off"] ELSE "none")

\* resolve_openai_completions_chat_template_kwarg, for a template with both
\* variables: the effort may be omitted when off, and off has none by itself.
TemplateRequest(model, wish) ==
  LET effort == CASE wish.level # None ->
                       IF Nulled(model, wish.level) THEN None ELSE Wire(model, wish.level)
                  [] wish.level = None ->
                       IF Mapped(model, "off") /\ ~Is(model, "omitWhenOff")
                       THEN model.levels["off"] ELSE None
  IN [Switch(wish) EXCEPT !.effort = effort]

\* apply_reasoning_options
CompletionsRequest(model, wish) ==
  LET format == model.format
      switched == WithEffort(model, wish, Switch(wish))
  IN CASE ~model.reasons -> Unsaid(wish.cap)
       [] model.reasons /\ format = "groq-qwen" ->
            IF wish.level = None THEN Unsaid(wish.cap) ELSE Effort(wish.cap, "default")
       [] model.reasons /\ format = "zai" ->
            IF wish.level # None /\ Nulled(model, wish.level) THEN Switch(wish) ELSE switched
       [] model.reasons /\ format \in {"qwen", "qwen-chat-template"} -> Switch(wish)
       [] model.reasons /\ format = "chat-template" -> TemplateRequest(model, wish)
       [] model.reasons /\ format = "deepseek" ->
            IF wish.level = None /\ Nulled(model, "off") THEN Unsaid(wish.cap) ELSE switched
       [] model.reasons /\ format = "ant-ling" ->
            IF wish.level # None /\ Mapped(model, wish.level)
            THEN Effort(wish.cap, model.levels[wish.level]) ELSE Unsaid(wish.cap)
       [] model.reasons /\ format \in {"string-thinking", "openrouter"} -> NamedEffort(model, wish)
       [] model.reasons /\ format = "together" -> switched
       [] model.reasons /\ format = "openai" ->
            IF ~Is(model, "effort") THEN Unsaid(wish.cap)
            ELSE IF wish.level # None THEN Effort(wish.cap, Wire(model, wish.level))
            ELSE IF Mapped(model, "off") THEN Effort(wish.cap, model.levels["off"])
            ELSE Unsaid(wish.cap)

-----------------------------------------------------------------------------
(* The responses                                                           *)

\* The api refuses a cap below 16.
AtLeast16(cap) == IF cap = None THEN None ELSE Max({cap, 16})

WantsSummary(wish) == wish.own # None /\ wish.own.on

\* build_openai_responses_payload: a summary of the thinking asks for some.
ResponsesRequest(model, wish) ==
  LET cap == AtLeast16(wish.cap)
  IN IF ~model.reasons THEN Unsaid(cap)
     ELSE IF wish.level = None /\ WantsSummary(wish) THEN Effort(cap, "medium")
     ELSE IF wish.level = None /\ model.provider = "github-copilot" THEN Unsaid(cap)
     ELSE NamedEffort(model, [wish EXCEPT !.cap = cap])

\* build_azure_openai_responses_payload has the same in a copy of its own.
AzureRequest(model, wish) == ResponsesRequest(model, wish)

\* build_openai_codex_responses_payload: no cap, and an effort when one is asked.
CodexRequest(model, wish) ==
  IF wish.level = None THEN Unsaid(None) ELSE Effort(None, Wire(model, wish.level))

\* build_pi_messages_payload: the wish is passed on.
PiRequest(wish) ==
  IF wish.level = None THEN Unsaid(wish.cap) ELSE Effort(wish.cap, wish.level)

-----------------------------------------------------------------------------
(* The two ways to a request                                               *)

\* unsupported_reasoning_error, of stream_simple alone
Refused(model, wish) ==
  wish.route = "stream" /\ wish.level = "xhigh" /\ "xhigh" \notin Supported(model)

\* stream_simple caps every request before its api does; Models leaves that to
\* the apis.
RequestOf(model, tokens, asked) ==
  LET wish == IF asked.route = "stream" THEN Capped(model, tokens, asked) ELSE asked
  IN CASE model.api = "anthropic-messages" -> AnthropicRequest(model, tokens, wish)
       [] model.api = "bedrock-converse-stream" -> BedrockRequest(model, tokens, wish)
       [] model.api \in GoogleApis -> GoogleRequest(model, tokens, wish)
       [] model.api = "mistral-conversations" -> MistralRequest(model, tokens, wish)
       [] model.api = "openai-completions" -> CompletionsRequest(model, wish)
       [] model.api = "openai-responses" -> ResponsesRequest(model, wish)
       [] model.api = "azure-openai-responses" -> AzureRequest(model, wish)
       [] model.api = "openai-codex-responses" -> CodexRequest(model, wish)
       [] model.api = "pi-messages" -> PiRequest(wish)
===============================================================================
