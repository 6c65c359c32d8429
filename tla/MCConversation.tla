----------------------------- MODULE MCConversation ----------------------------
(* Small instances of Conversation: pairs of models a user switches between.  *)
EXTENDS Conversation

Model(api, provider, id, vision, traits) ==
  [api |-> api, provider |-> provider, id |-> id, vision |-> vision,
   traits |-> traits]

Claude == Model("anthropic-messages", "anthropic", "claude", TRUE,
                {"toolReferences"})
Gpt == Model("openai-responses", "openai", "gpt", TRUE, {"toolSearch", "itemIds"})
Mini == Model("openai-responses", "openai", "mini", FALSE,
              {"toolSearch", "itemIds"})
Copilot == Model("openai-responses", "github-copilot", "gpt", TRUE, {})
Kimi == Model("openai-completions", "moonshot", "kimi", FALSE, {"kimi"})
OpenModel == Model("openai-completions", "openai", "gpt-oss", TRUE, {})
Qwen == Model("openai-completions", "qwen", "qwen", TRUE,
              {"assistantAfterResult", "thinkingAsText"})
Gemini == Model("google-generative-ai", "google", "gemini-3", TRUE, {"multimodal"})
OldGemini == Model("google-generative-ai", "google", "gemini-2", TRUE, {})
Vertex == Model("google-generative-ai", "google", "claude-", TRUE, {"callIds"})
Nova == Model("bedrock-converse-stream", "amazon-bedrock", "nova", TRUE, {})
Sonnet == Model("bedrock-converse-stream", "amazon-bedrock", "sonnet", TRUE,
                {"signatures"})
Mistral == Model("mistral-conversations", "mistral", "large", FALSE, {})

Both == {"base", "late"}

\* A conversation of two models, and a session that is compacted or summarised.
Switch(pair, toolbox) ==
  [models |-> pair, tools |-> toolbox, compacts |-> FALSE, summarises |-> FALSE,
   keep |-> 0, budget |-> 0, retries |-> 0, entries |-> 5]
Compacting(keep, retries, entries) ==
  [models |-> {Mistral}, tools |-> {"late"}, compacts |-> TRUE, summarises |-> FALSE,
   keep |-> keep, budget |-> 0, retries |-> retries, entries |-> entries]
Summarising(budget, entries) ==
  [Compacting(1, 0, entries) EXCEPT !.summarises = TRUE, !.budget = budget]

MCScenes ==
  {Switch(pair, Both) :
     pair \in {{Gpt, Mini}, {Gpt, Copilot}, {Claude, Kimi}, {Qwen, OldGemini},
               {Gemini, Mistral}, {Vertex, Nova}, {Sonnet, Claude}}}
    \cup {Switch(pair, {"late"}) :
            pair \in {{Claude, Mini}, {Mini, OpenModel}, {Kimi, OpenModel}}}
    \cup {Compacting(1, 0, 5), Compacting(2, 0, 4), Compacting(1, 2, 3),
          Summarising(0, 3), Summarising(2, 4)}
==============================================================================
