--------------------------------- MODULE MCTurn ---------------------------------
EXTENDS Turn
\* A model: what no trait and no map says is left empty.
ModelOf(api, provider, format, reasons, levels, traits, window, max) ==
  [api |-> api, provider |-> provider, format |-> format, reasons |-> reasons,
   levels |-> levels, traits |-> traits, window |-> window, max |-> max]
Open(format, levels, traits) ==
  ModelOf("openai-completions", format, format, TRUE, levels, traits, 20000, 8000)
NoMap == <<>>
DeepSeekMap == [minimal |-> None, low |-> None, medium |-> None, high |-> "high", max |-> "max"]
MCModels == {
  ModelOf("anthropic-messages", "anthropic", "", TRUE, NoMap, {}, 20000, 8000),
  ModelOf("anthropic-messages", "anthropic", "", TRUE, [xhigh |-> "max"], {"adaptive"}, 20000, 8000),
  ModelOf("anthropic-messages", "anthropic", "", TRUE, [off |-> None, xhigh |-> "xhigh", max |-> "max"], {"adaptive"}, 40000, 30000),
  ModelOf("anthropic-messages", "anthropic", "", FALSE, NoMap, {}, 20000, 4000),
  ModelOf("bedrock-converse-stream", "amazon-bedrock", "", TRUE, NoMap, {"claude"}, 40000, 30000),
  ModelOf("bedrock-converse-stream", "amazon-bedrock", "", TRUE, [xhigh |-> "max"], {"claude", "adaptive"}, 20000, 8000),
  ModelOf("bedrock-converse-stream", "amazon-bedrock", "", FALSE, NoMap, {}, 20000, 4000),
  ModelOf("google-generative-ai", "google", "", TRUE, NoMap, {"2.5-pro"}, 40000, 30000),
  ModelOf("google-generative-ai", "google", "", TRUE, NoMap, {"2.5-flash", "2.5-flash-lite"}, 20000, 8000),
  ModelOf("google-vertex", "google-vertex", "", TRUE, NoMap, {"2.5-flash", "2.5-flash-lite"}, 20000, 8000),
  ModelOf("google-generative-ai", "google", "", TRUE, [off |-> None, minimal |-> None, low |-> "LOW", medium |-> None, high |-> "HIGH"], {"gemini3pro"}, 20000, 8000),
  ModelOf("google-generative-ai", "google", "", TRUE, [off |-> None], {"gemini3flash"}, 20000, 8000),
  ModelOf("google-generative-ai", "google", "", TRUE, NoMap, {"gemma4"}, 20000, 8000),
  ModelOf("mistral-conversations", "mistral", "", TRUE, [minimal |-> None, low |-> None, medium |-> None], {"effort"}, 20000, 8000),
  ModelOf("mistral-conversations", "mistral", "", TRUE, NoMap, {}, 20000, 8000),
  Open("groq-qwen", NoMap, {}), Open("zai", [low |-> None], {"effort"}), Open("qwen", NoMap, {}),
  Open("chat-template", [xhigh |-> "max"], {}), Open("deepseek", DeepSeekMap, {"effort"}),
  Open("ant-ling", [high |-> "high", xhigh |-> "xhigh"], {}), Open("string-thinking", [off |-> None], {}),
  Open("openrouter", NoMap, {}), Open("together", NoMap, {}), Open("openai", [off |-> "none"], {"effort"}),
  ModelOf("openai-responses", "openai", "", TRUE, [minimal |-> None, xhigh |-> "xhigh"], {}, 20000, 8000),
  ModelOf("openai-responses", "github-copilot", "", TRUE, NoMap, {}, 0, 0),
  ModelOf("azure-openai-responses", "azure", "", TRUE, [off |-> None], {}, 20000, 8000),
  ModelOf("openai-codex-responses", "openai-codex", "", TRUE, NoMap, {}, 20000, 8000),
  ModelOf("pi-messages", "pi", "", TRUE, NoMap, {}, 20000, 8000) }
Wish(cap, level, budgets, route) ==
  [cap |-> cap, level |-> level, budgets |-> budgets, route |-> route, own |-> None]
Own(asked, on, budget, effort) == [asked EXCEPT !.own = Control(on, budget, effort)]
MCWishes ==
  {Wish(None, level, <<>>, route) :
     level \in {None, "minimal", "xhigh"}, route \in {"stream", "models"}}
  \cup {Wish(3000, None, <<>>, "stream"), Wish(3000, "low", [low |-> 12000], "models")}
  \cup {Own(Wish(3000, "high", <<>>, "models"), TRUE, 12000, None),
        Own(Wish(None, "high", <<>>, "stream"), FALSE, None, None),
        Own(Wish(None, None, <<>>, "stream"), TRUE, None, None),
        Own(Wish(None, None, <<>>, "models"), TRUE, None, "low")}
MCTexts == {1, 40000}
MCOutputs == {9, 9000}
MCTiers == {<<3000, 2>>, <<9000, 3>>}

MCWrites == [stdout |-> {<<"x">>, <<"n">>}, stderr |-> {<<"b">>}]

\* Schemas of a member, and of objects that have them in several ways.
Type(name) == [type |-> <<name>>]
Small == Type("integer") @@ [minimum |-> 2, exclusiveMaximum |-> 24]
Leaves == {
  Type("string"), Type("number"), Type("boolean"), Type("null"), Type("any"), <<>>,
  Small, Type("integer") @@ [multipleOf |-> 24], Type("integer") @@ [exclusiveMinimum |-> 16], Type("number") @@ [enum |-> {Number(2, FALSE)}],
  [type |-> <<"integer", "null">>], [type |-> <<"boolean", "string">>],
  Type("string") @@ [minLength |-> 1, maxLength |-> 3, pattern |-> {"1", "12", "true"}],
  [const |-> Text("1")], [enum |-> {Text("true"), Number(2, FALSE)}],
  [anyOf |-> <<Type("boolean"), Small>>], [anyOf |-> <<Type("number"), Type("null")>>],
  [oneOf |-> <<Type("integer"), Type("string")>>],
  [allOf |-> <<Type("integer"), Type("number") @@ [exclusiveMinimum |-> 0]>>] }
List(keywords) == Type("array") @@ keywords
Lists == {
  List([items |-> Type("integer"), minItems |-> 1, uniqueItems |-> TRUE]),
  List([items |-> Type("string"), maxItems |-> 1]),
  List([tuple |-> <<Type("boolean")>>, additionalItems |-> Type("number")]),
  List([tuple |-> <<Type("string")>>, additionalItems |-> Never]) }
Tool(keywords) == Type("object") @@ keywords
MCSchemas ==
  {Tool([properties |-> [path |-> leaf], required |-> {"path"},
         additionalProperties |-> more]) : leaf \in Leaves, more \in {<<>>, Never, Type("string")}}
  \cup {Tool([properties |-> [path |-> list], maxProperties |-> 1]) : list \in Lists}
  \cup {[properties |-> [path |-> Type("number")], minProperties |-> 1]}

Scalars == {Null, Flag(TRUE), Flag(FALSE), Number(0, FALSE), Number(2, TRUE), Number(2, FALSE),
            Number(5, TRUE), Text(""), Text("1"), Text("2.5"), Text("12"), Text("true"), Text(" 1 "),
            Number(18, FALSE), Text("9"), Number(64, TRUE), Text("32"), Text("64"), Text("80")}
MCArguments(schema) ==
  {Object(<<>>), Object([depth |-> Number(2, FALSE)])}
  \cup {Object([path |-> value] @@ more) : value \in Scalars, more \in {<<>>, [depth |-> Null]}}
  \cup {Object([path |-> Array(<<a, b>>)]) : a, b \in Scalars}
  \cup {Object([path |-> Array(<<>>)]), Object([path |-> Array(<<Null>>)])}
================================================================================
