------------------------------ MODULE Conversation -----------------------------
(***************************************************************************)
(* One conversation of a session, as the requests of its models show it:   *)
(* the prompts, replies and tool results that the agent appends, with the  *)
(* model switched between replies and the program stopped between two      *)
(* results of a batch; the moves back to an earlier entry; and the         *)
(* compactions, whose summaries are calls of the provider and are retried. *)
(***************************************************************************)
EXTENDS Payloads, Compaction

CONSTANT
  Scenes      \* the conversations: the models that the user switches between,
               \* the tools of the agent, whether the session is compacted and
               \* its branches summarised, keep_recent_tokens and the budget of a branch
               \* summary in parts, the retries of a summary, and the bound on
               \* the entries of a path

VARIABLES
  scene,   \* the conversation
  path,    \* the entries from the root to the leaf
  work,    \* the compaction or the move under way, or Nothing
  asking,  \* what its call summarises: "none", "history", "prefix" or "branch"
  call, attempt, told  \* the call, see Retry

convVars == <<scene, path, work, asking>>
allVars == <<scene, path, work, asking, call, attempt, told>>

R == INSTANCE Retry WITH retries <- scene.retries

models == scene.models
tools == scene.tools

ConversationInit ==
  /\ scene \in Scenes
  /\ path = <<>>
  /\ work = Nothing
  /\ asking = "none"
  /\ R!RetryInit

-----------------------------------------------------------------------------
(* The context of a request                                                *)

\* convert_session_message_to_llm: what is no message of its own is a text of
\* the user's.
ToMessage(entry) ==
  IF IsMessage(entry) /\ entry.message.role # "bash" THEN entry.message
  ELSE UserMessage(<<Text(10 * entry.id)>>)

\* build_session_context
Context(entries) ==
  LET shown == ContextEntries(entries)
  IN [k \in DOMAIN shown |-> ToMessage(shown[k])]

ContextMessages == Context(Branch(path))

\* The calls of the last reply that no result has answered.
OpenCalls ==
  LET replies == {k \in DOMAIN path : RoleOf(path[k]) = "assistant"}
      last == Max(replies)
      after == SubSeq(path, last + 1, Len(path))
      calls == CallsOf(path[last].message)
  IN IF \/ replies = {}
        \/ path[last].message.failed
        \/ \E k \in DOMAIN after : RoleOf(after[k]) # "toolResult"
     THEN <<>>
     ELSE SubSeq(calls, Len(after) + 1, Len(calls))

\* The loop asks the model after a message of the user's or the last result.
AwaitsReply ==
  /\ ContextMessages # <<>>
  /\ Last(ContextMessages).role # "assistant"
  /\ OpenCalls = <<>>

-----------------------------------------------------------------------------
(* The entries                                                             *)

Idle == asking = "none"

New == Len(path) + 1
Push(entry) ==
  /\ Idle
  /\ New <= scene.entries
  /\ path' = Append(path, entry)
  /\ UNCHANGED <<scene, work, asking, call, attempt, told>>

Message(message) == [id |-> New, kind |-> "message", message |-> message]

\* A bound: images are shown where a model of the scene takes them.
TakesImages == \E model \in models : model.vision

\* A prompt, with an image where it can. One in the middle of a batch of calls
\* follows a restart, whose session shows the results that were written.
Prompt ==
  Push(Message(UserMessage(<<Text(10 * New)>>
                             \o IF TakesImages THEN <<Image(10 * New + 1)>>
                                               ELSE <<>>)))

\* A custom message, or a command of the user's own, written between the turns.
Notice ==
  /\ scene.compacts
  /\ OpenCalls = <<>>
  /\ \/ Push([id |-> New, kind |-> "custom"])
     \/ Push(Message([role |-> "bash", parts |-> <<Text(10 * New)>>]))

\* A call of a reply, its k-th: Responses joins the ids of the call and of its
\* item, and its parallel calls may share the call id.
GivesItems(model) == model.api = "openai-responses"
CallOf(model, name, k, shared, long) ==
  CallPart(CallIdOf(10 * New, IF shared THEN 1 ELSE k,
                    IF GivesItems(model) THEN k ELSE 0, long),
           name,
           model.api \in {"google-generative-ai", "openai-completions"})

\* A model's replies: a thought with its signature, which may end in an error;
\* parallel calls after a thought that is a signature alone; and a thought that
\* is hidden or that the provider did not sign.
Replies(model) ==
  LET n == 10 * New
      sealed == IF model.api \in {"anthropic-messages", "openai-responses"}
                THEN Part("sealed", n, TRUE) ELSE Part("blank", 0, FALSE)
      hidden == IF model.api = "anthropic-messages"
                THEN Part("redacted", n, TRUE) ELSE Part("thinking", n, FALSE)
      signs == model.api # "mistral-conversations"
      Calling(name) ==
        <<Part("thinking", n, signs), Text(n + 1),
          CallOf(model, name, 1, FALSE, FALSE)>>
      Parallel(name, shared, long) ==
        <<sealed, CallOf(model, name, 1, shared, long),
          CallOf(model, "late", 2, shared, long)>>
      Plain == <<hidden, Part("text", n + 1, model.api = "openai-responses")>>
  IN {AssistantMessage(model, Calling(name), failed) :
        name \in tools, failed \in BOOLEAN}
       \cup {AssistantMessage(model, Parallel(name, shared, long), FALSE) :
               name \in tools,
               shared \in IF GivesItems(model) THEN BOOLEAN ELSE {FALSE},
               long \in IF signs THEN BOOLEAN ELSE {FALSE}}
       \cup {AssistantMessage(model, Plain, FALSE)}

Reply ==
  /\ AwaitsReply
  /\ \E model \in models : \E reply \in Replies(model) : Push(Message(reply))

\* A tool's result: with an image and a tool it adds, or with no output.
ToolResult ==
  /\ OpenCalls # <<>>
  /\ LET id == Head(OpenCalls).id
         text == Text(10 * New)
     IN \/ \E parts \in {<<text>>, <<>>} :
             Push(Message(ToolResultMessage(id, parts, <<>>)))
        \/ /\ TakesImages
           /\ Push(Message(ToolResultMessage(id, <<text, Image(10 * New + 1)>>,
                                             <<"late">>)))

\* collect_entries_for_branch_summary: the entries up from the leaf to the one
\* that the branches of both share; a branch ends at a compaction.
LeftBehind(target) ==
  LET shared == IdsOf(Branch(path)) \cap IdsOf(Branch(SubSeq(path, 1, target)))
  IN IF shared = {} THEN DOMAIN path ELSE Max(shared) + 1 .. Len(path)

\* collect_branch_summary_entries_for_target: a move to the root leaves them all.
EntriesBehind(target) ==
  LET left == IF target = 0 THEN DOMAIN path ELSE LeftBehind(target)
  IN [k \in 1 .. Cardinality(left) |-> path[Min(left) + k - 1]]

\* navigate_tree_target: a message that its author can write again goes to the
\* editor, and the leaf to the entry above it.
GoesToEditor(target) == RoleOf(path[target]) = "user" \/ path[target].kind = "custom"
NewLeaf(target) == IF GoesToEditor(target) THEN target - 1 ELSE target

\* The path up to an entry, under which the summary of what is left is appended.
WithSummary(leaf) == Append(SubSeq(path, 1, leaf), [id |-> leaf + 1, kind |-> "branchSummary"])

\* generate_branch_summary, for a session whose user wants one: when no message
\* fits, no model is asked.
Leave(target, leaf) ==
  /\ Idle
  /\ LET covers == PrepareBranch(EntriesBehind(target), scene.budget)
     IN \/ /\ ~scene.summarises
           /\ path' = SubSeq(path, 1, leaf)
           /\ UNCHANGED <<work, asking, call, attempt, told>>
        \/ /\ scene.summarises /\ covers = {}
           /\ path' = WithSummary(leaf)
           /\ UNCHANGED <<work, asking, call, attempt, told>>
        \/ /\ scene.summarises /\ covers # {}
           /\ work' = [leaf |-> leaf, editor |-> leaf + 1 .. target, covers |-> covers]
           /\ asking' = "branch"
           /\ R!StartCall
           /\ UNCHANGED path
  /\ UNCHANGED scene

\* move_session_to
Move == \E target \in 0 .. Len(path) - 1 : Leave(target, target)

\* navigate_tree: to the leaf itself, nothing happens.
NavigateTree == \E target \in 1 .. Len(path) - 1 : Leave(target, NewLeaf(target))

-----------------------------------------------------------------------------
(* Compaction                                                              *)

\* compact_session takes the branch of the leaf.
Compact ==
  /\ scene.compacts
  /\ Idle
  /\ New <= scene.entries
  /\ work' = PrepareCompaction(Branch(path), scene.keep)
  /\ work' # Nothing
  /\ asking' = IF AsksForHistory(work') THEN "history" ELSE "prefix"
  /\ R!StartCall
  /\ UNCHANGED <<scene, path>>

InCall(step) ==
  /\ ~Idle
  /\ step
  /\ UNCHANGED convVars

Produce ==
  \/ \E how \in {"reply", "aborted", "error", "transient"} :
       InCall(R!Produced(how))
  \/ InCall(R!ProduceFails)
  \/ InCall(R!Schedule)
  \/ InCall(R!Retried)

\* compact goes on to the prefix of the turn that it splits.
AskForPrefix ==
  /\ asking = "history"
  /\ call = "reply"
  /\ SplitsTurn(work)
  /\ asking' = "prefix"
  /\ R!StartCall
  /\ UNCHANGED <<scene, path, work>>

EndCompaction ==
  /\ work' = Nothing
  /\ asking' = "none"
  /\ R!HangUp
  /\ UNCHANGED scene

\* append_compaction
Compacted ==
  /\ asking # "branch"
  /\ call = "reply"
  /\ asking = "history" => ~SplitsTurn(work)
  /\ path' = Append(path, [id |-> New, kind |-> "compaction", kept |-> work.kept,
                           covers |-> Covered(work)])
  /\ EndCompaction

\* move_to
Moved ==
  /\ asking = "branch"
  /\ call = "reply"
  /\ path' = WithSummary(work.leaf)
  /\ EndCompaction

\* A summary that fails leaves the session as it was.
CompactionFails ==
  /\ ~Idle
  /\ call \in R!Ends \ {"reply"}
  /\ EndCompaction
  /\ UNCHANGED path

ConversationNext ==
  \/ Prompt \/ Notice \/ Reply \/ ToolResult
  \/ Move \/ NavigateTree \/ Moved
  \/ Compact \/ Produce \/ AskForPrefix \/ Compacted \/ CompactionFails

ConversationSpec == ConversationInit /\ [][ConversationNext]_allVars

-----------------------------------------------------------------------------
(* What a request shows                                                    *)

\* The parts of a payload in the order they are sent, what a result shows after
\* the result.
Flat(payload) ==
  LET Shown(part) == IF part.kind = "result" THEN <<part>> \o part.shows
                                             ELSE <<part>>
      Parts(message) == Replaced(message.parts, Shown)
  IN Replaced(payload.messages, Parts)

\* The request that each model of the user's would be sent: the tools it lists
\* and what it says, part by part.
Requests ==
  LET Sent(model) == Request([messages |-> ContextMessages, tools |-> tools], model)
  IN {[model |-> request.model, listed |-> request.payload.immediate,
       flat |-> Flat(request.payload)] :
        request \in {[model |-> model, payload |-> Sent(model)] : model \in models}}

Kind(flat, kind) == {k \in DOMAIN flat : flat[k].kind = kind}

\* Whatever model the user goes on with, its request has as many results under
\* an id as calls, each after its call and before anything else is said but by
\* the batch's other results (message_transform.rs: a request whose calls and
\* results do not pair is refused by every provider).  One id is of one call, but
\* for a call id that a reply's calls share and for ids that were cut to the same,
\* which those that joined an item id are not for OpenAI Completions ("keep
\* item-level uniqueness", message_transform.rs:44); of a batch that was broken
\* off, the calls whose ids were cut to the same have only the results that were
\* written, if any was.
CallsAnswered ==
  AwaitsReply =>
    \A request \in Requests :
      LET flat == request.flat
          calls == Kind(flat, "call")
          results == Kind(flat, "result")
          \* What the results of the batch say, in them or after them.
          outputs == {"call", "result", "note", "image", "loads"}
          Between(c, r) ==
            \A k \in c + 1 .. r - 1 :
              \/ flat[k].kind \in outputs
              \/ \E l \in results : l < k /\ flat[l].shows # <<>>
                                    /\ k <= l + Len(flat[l].shows)
          Under(places, id) == Cardinality({k \in places : flat[k].id = id})
          Giver(id) == path[id.n \div 10].message.by
          Written(id) == Cardinality({k \in DOMAIN ContextMessages :
                                        /\ ContextMessages[k].role = "toolResult"
                                        /\ ContextMessages[k].id.n = id.n})
      IN /\ \A c \in calls :
              LET id == flat[c].id
              IN /\ Under(calls, id) > 1 =>
                      \/ id.form = "callId"
                      \/ /\ id.form = "cut"
                         /\ GivesItems(Giver(id)) =>
                              request.model.api # "openai-completions"
                 /\ Under(results, id) =
                      IF id.form = "cut" /\ Written(id) > 0 THEN Written(id)
                                                            ELSE Under(calls, id)
         /\ \A r \in results :
              \E c \in calls :
                c < r /\ flat[c].id = flat[r].id /\ Between(c, r)

\* Nothing the conversation shows is lost, said twice or out of its turn: the
\* texts of the user and of the replies that did not fail come in order, and
\* each text and image of a result once, where the model takes images.
NothingLost ==
  AwaitsReply =>
    \A request \in Requests :
      LET flat == request.flat
          Count(part) ==
            Cardinality({k \in DOMAIN flat :
                           flat[k].kind = part.kind /\ flat[k].n = part.n})
          Kept(message) ==
            IF message.role = "assistant" /\ message.failed THEN <<>>
            ELSE message.parts
          shown == Replaced(ContextMessages, Kept)
          Spoken(message) ==
            IF message.role = "toolResult" THEN <<>> ELSE Kept(message)
          Numbers(parts) == [k \in DOMAIN parts |-> parts[k].n]
          spoken == Numbers(SelectSeq(Replaced(ContextMessages, Spoken), IsText))
          sent == Numbers(SelectSeq(flat, LAMBDA part :
                                      /\ IsText(part)
                                      /\ part.n \in ToSet(spoken)))
      IN /\ sent = spoken
         /\ \A k \in DOMAIN shown :
              shown[k].kind \in {"text", "image"} =>
                Count(shown[k]) =
                  IF IsImage(shown[k]) /\ ~request.model.vision THEN 0 ELSE 1

\* A signature, a hidden thought or an item id goes back to the model that made
\* it and to no other, a sibling of the same provider included.
SealsStayHome ==
  AwaitsReply =>
    \A request \in Requests :
      LET flat == request.flat
          Number(part) == IF IsCall(part) THEN part.id.n ELSE part.n
          Author(part) == path[Number(part) \div 10].message.by
      IN \A k \in DOMAIN flat :
           /\ flat[k].kind \in {"call", "text", "thinking", "sealed", "redacted"}
           /\ flat[k].signed
           => Author(flat[k]) = request.model

\* A request shows its model all that was said, and nothing sealed by another.
SaidToItsModel == NothingLost /\ SealsStayHome

\* Each tool of the agent is listed by the request or loaded by its transcript,
\* once, and by a model that defers tools before the first call of it
\* (deferred_tools.rs).
ToolsKnown ==
  AwaitsReply =>
    \A request \in Requests :
      LET flat == request.flat
          LoadedAt(k) ==
            CASE flat[k].kind = "loads" -> flat[k].names
              [] flat[k].kind = "result" -> flat[k].loads
              [] OTHER -> {}
          LoadsOf(name) == {k \in DOMAIN flat : name \in LoadedAt(k)}
      IN \A name \in tools :
           /\ name \in request.listed <=> LoadsOf(name) = {}
           /\ "kimi" \notin request.model.traits /\ name \notin request.listed =>
                /\ Cardinality(LoadsOf(name)) = 1
                /\ \A c \in Kind(flat, "call") :
                     flat[c].name = name => \E k \in LoadsOf(name) : k < c

\* A provider can take the request that comes of any conversation, for any model
\* the user goes on with: what is called is answered, and what may be called is
\* known.
RequestWellFormed == CallsAnswered /\ ToolsKnown

\* Each call of a request has a result of its own ("No result provided", message_transform.rs,
\* insert_missing_tool_results).
EveryCallAnswered ==
  AwaitsReply =>
    \A request \in Requests :
      Cardinality(Kind(request.flat, "call")) = Cardinality(Kind(request.flat, "result"))

CallbacksPaired == R!CallbacksPaired

-----------------------------------------------------------------------------
(* What a compaction keeps                                                 *)

Contents(entries) ==
  {entries[k].id : k \in {l \in DOMAIN entries : ~IsCompaction(entries[l])}}

\* The entries whose content a request shows.
Shown == Contents(ContextEntries(Branch(path)))

\* The entries that a summary in the context was made of.
Told ==
  LET shown == ContextEntries(Branch(path))
  IN UNION {shown[k].covers : k \in {l \in DOMAIN shown : IsCompaction(shown[l])}}

CompactionForgets ==
  ~(Shown \subseteq Shown' \cup Covered(work) /\ Shown' \cap Covered(work) = {})

\* The entries that the context shows where a move goes.
Stays == Contents(ContextEntries(Branch(SubSeq(path, 1, work.leaf))))

MoveForgets ==
  \E id \in Shown \ (Stays \cup work.covers \cup work.editor) :
    IsTold(path[id]) /\ \E covered \in work.covers : covered < id

\* A compaction forgets nothing that the context showed: each entry is kept or
\* summarised, and not both. Nor does a move: each entry is still there, is
\* summarised, was handed back to the editor, is a result, or is older than all
\* that the budget of the summary holds.
KeptOrSummarised ==
  [][(Compacted => ~CompactionForgets) /\ (Moved => ~MoveForgets)]_allVars

\* And what the summary before it told, the new one tells ("PRESERVE all
\* existing information from the previous summary", compaction.rs,
\* UPDATE_SUMMARIZATION_PROMPT).
SummaryPreserved == [][Compacted => Told \subseteq Told' \cup Shown']_allVars

\* The summary of a branch the conversation came back from is one of entries
\* that the conversation no longer shows.
SummaryOfTheBranch == [][Moved => Stays \cap work.covers = {}]_allVars
==============================================================================
