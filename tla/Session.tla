------------------------------- MODULE Session ---------------------------------
(***************************************************************************)
(* Session of crates/ri-agent-core/src/harness/session.rs: a tree of       *)
(* entries kept as an append-only log, and the leaf of the active branch.  *)
(* Clones of a session share one storage behind a lock; an append takes    *)
(* that lock once for its id, once for the leaf it hangs on and once to    *)
(* push the entry, so the appends of two clones interleave.                *)
(*                                                                         *)
(* The storage is the in-memory one, which the JSONL storage repeats line  *)
(* by line in a file; the storage may refuse an append.                    *)
(***************************************************************************)
EXTENDS Integers, Sequences, FiniteSets

CONSTANTS
  Callers,     \* the holders of a clone of the session
  MaxEntries   \* bound: entries created in a behaviour

ASSUME SessionAssumption == IsFiniteSet(Callers) /\ MaxEntries \in Nat

VARIABLES
  log,     \* entries, in the order they were pushed
  leaf,    \* leaf_id, 0 for none
  labels,  \* labels_by_id: the ids that carry a label
  pc,      \* [Callers -> {"idle", "readParent", "append", "summaryId"}]
  draft,   \* [Callers -> the entry under construction]
  created, \* ids created so far
  raced    \* some append was pushed under a parent that was the leaf no more

vars == <<log, leaf, labels, pc, draft, created, raced>>

Ids == 1 .. MaxEntries
Kinds ==
  {"message", "reply", "level", "model", "label", "unlabel", "compaction",
   "tailCompaction", "leaf", "branchSummary"}

\* A reply is the message of an assistant, which names its model; "level" stands
\* for the two changes that only their like undo, of the thinking level and of
\* the active tools. ref is the entry a label, a marker, a summary or a compaction points at: its
\* target_id, from_id or first_kept_entry_id, 0 for none.
Entry(id, parent, kind, ref) ==
  [id |-> id, parent |-> parent, kind |-> kind, ref |-> ref]

NoDraft == Entry(0, 0, "message", 0)

Init ==
  /\ log = <<>>
  /\ leaf = 0
  /\ labels = {}
  /\ pc = [c \in Callers |-> "idle"]
  /\ draft = [c \in Callers |-> NoDraft]
  /\ created = 0
  /\ raced = FALSE

-----------------------------------------------------------------------------
(* Reading the tree                                                        *)

IdsIn(entries) == {entries[p].id : p \in DOMAIN entries}

\* by_id: the place of an entry in the log, 0 for no entry.
Position(id) ==
  IF id = 0 THEN 0 ELSE CHOOSE p \in DOMAIN log : log[p].id = id

\* get_path_to_root
PathTo[p \in 0 .. Len(log)] ==
  IF p = 0 THEN <<>>
           ELSE Append(PathTo[Position(log[p].parent)], log[p])

\* Markers of a moved leaf show nothing; a path meets one that was moved to.
IsNoMarker(entry) == entry.kind # "leaf"
Extended(path, entry) ==
  IF IsNoMarker(entry) THEN Append(path, entry) ELSE path

\* The next stop of a walk up that has met an entry.
StopAfter(entry, stop) == IF entry.kind = "compaction" THEN entry.ref ELSE stop

\* A mutation: the walk stops before the kept entry, not after it.
CutBeforeKept[p \in 0 .. Len(log)] ==
  [stop \in {0} \cup Ids |->
     IF p = 0 \/ log[p].id = stop THEN <<>>
     ELSE Extended(CutBeforeKept[Position(log[p].parent)][StopAfter(log[p], stop)],
                   log[p])]
BranchBeforeKept(id) == CutBeforeKept[Position(id)][0]

\* get_path_to_root_or_compaction: the walk up from p ends with the entry stop,
\* which each compaction it meets replaces, or at a compaction that carries the
\* tail it retains.
Ends(entry, stop) == entry.id = stop \/ entry.kind = "tailCompaction"
Cut[p \in 0 .. Len(log)] ==
  [stop \in {0} \cup Ids |->
     IF p = 0 THEN <<>>
     ELSE IF Ends(log[p], stop) THEN Extended(<<>>, log[p])
     ELSE Extended(Cut[Position(log[p].parent)][StopAfter(log[p], stop)], log[p])]

\* Session::branch
Branch(id) == Cut[Position(id)][0]

\* default_context_entry_transform: the latest compaction, what it kept, and
\* what came after it.
ContextEntries(path) ==
  LET Points ==
        {k \in DOMAIN path : path[k].kind \in {"compaction", "tailCompaction"}}
      last == CHOOSE k \in Points : \A l \in Points : l <= k
      Kept == {k \in 1 .. last - 1 :
                 /\ path[last].kind = "compaction"
                 /\ path[k].id = path[last].ref}
      after == SubSeq(path, last + 1, Len(path))
  IN IF Points = {} THEN path
     ELSE IF Kept = {} THEN <<path[last]>> \o after
     ELSE LET first == CHOOSE k \in Kept : TRUE
          IN <<path[last]>> \o SubSeq(path, first, last - 1) \o after

\* derive_session_context_state: the level, and the model, are those of the last
\* entry that says so, 0 for none, when the default is read: "off", no model.
Settings == {{"level"}, {"model", "reply"}}
Latest(path, kinds) ==
  LET said == {k \in DOMAIN path : path[k].kind \in kinds}
  IN IF said = {} THEN 0
     ELSE path[CHOOSE k \in said : \A l \in said : l <= k].id

-----------------------------------------------------------------------------
(* Appending                                                               *)

\* leaf_id_after_entry
LeafAfter(entry) == IF entry.kind = "leaf" THEN entry.ref ELSE entry.id

\* update_label_cache
LabelsAfter(entry) ==
  CASE entry.kind = "label" -> labels \cup {entry.ref}
    [] entry.kind = "unlabel" -> labels \ {entry.ref}
    [] OTHER -> labels

\* append_entry of the storage
Push(entry) ==
  /\ log' = Append(log, entry)
  /\ leaf' = LeafAfter(entry)
  /\ labels' = LabelsAfter(entry)

\* A mutation: an id that is in use is taken again.
CreateUnchecked == created < MaxEntries /\ created' = 1

\* generate_entry_id: no entry has the id.
Create == created < MaxEntries /\ created' = created + 1

Goto(c, label) == pc' = [pc EXCEPT ![c] = label]

Draft(c, entry) == draft' = [draft EXCEPT ![c] = entry]

\* AgentHarness lets one compaction or move of the session at a time
\* (Harness!PhaseOwned); plain appends come from anywhere.
Exclusive ==
  \A c \in Callers :
    draft[c].kind \notin {"compaction", "tailCompaction", "branchSummary"}

\* What an append may hold: a message, a setting, a label of an entry that exists,
\* or a compaction of the branch read now, which keeps one of its entries or a tail.
Compactions ==
  {Entry(created + 1, 0, "tailCompaction", 0)} \cup
    {Entry(created + 1, 0, "compaction", id) :
       id \in IdsIn(Branch(leaf)) \cup {0}}

Drafts ==
  {Entry(created + 1, 0, kind, 0) : kind \in {"message", "reply", "level", "model"}}
    \cup {Entry(created + 1, 0, kind, id) :
            kind \in {"label", "unlabel"}, id \in IdsIn(log)}
    \cup (IF Exclusive THEN Compactions ELSE {})

\* append_message, append_label, append_compaction_entry and their like: the id.
BeginAppend(c) ==
  /\ pc[c] = "idle"
  /\ Create
  /\ \E entry \in Drafts : Draft(c, entry)
  /\ Goto(c, "readParent")
  /\ UNCHANGED <<log, leaf, labels, raced>>

\* The parent is the leaf of this moment.
ReadParent(c) ==
  /\ pc[c] = "readParent"
  /\ draft' = [draft EXCEPT ![c].parent = leaf]
  /\ Goto(c, "append")
  /\ UNCHANGED <<log, leaf, labels, created, raced>>

\* The entry is pushed, or the storage refuses it and the caller gets an error.
AppendEntry(c) ==
  /\ pc[c] = "append"
  /\ \/ /\ Push(draft[c])
        /\ raced' = (raced \/ draft[c].parent # leaf)
     \/ UNCHANGED <<log, leaf, labels, raced>>
  /\ Draft(c, NoDraft)
  /\ Goto(c, "idle")
  /\ UNCHANGED created

\* A mutation: the leaf moves and no marker says so.
MoveUnmarked(marker) ==
  /\ leaf' = marker.ref
  /\ UNCHANGED <<log, labels>>

\* set_leaf_id: a marker records the target.
SetLeaf(marker) == Push(marker)

\* get_entry and validate_leaf
Targets == IdsIn(log) \cup {0}

\* move_to: the leaf moves to the target, then a summary may be pushed under it.
MoveTo(c) ==
  /\ pc[c] = "idle"
  /\ Exclusive
  /\ Create
  /\ \E target \in Targets :
       /\ SetLeaf(Entry(created', leaf, "leaf", target))
       /\ \/ UNCHANGED <<pc, draft>>
          \/ /\ Goto(c, "summaryId")
             /\ Draft(c, Entry(0, target, "branchSummary", target))
  /\ UNCHANGED raced

\* A mutation: the summary is pushed without an id of its own.
SummaryWithoutId(c) ==
  /\ pc[c] = "summaryId"
  /\ Goto(c, "append")
  /\ UNCHANGED <<log, leaf, labels, draft, created, raced>>

SummaryId(c) ==
  /\ pc[c] = "summaryId"
  /\ Create
  /\ draft' = [draft EXCEPT ![c].id = created']
  /\ Goto(c, "append")
  /\ UNCHANGED <<log, leaf, labels, raced>>

-----------------------------------------------------------------------------
Next ==
  \E c \in Callers :
    \/ BeginAppend(c) \/ ReadParent(c) \/ AppendEntry(c)
    \/ MoveTo(c) \/ SummaryId(c)

Spec == Init /\ [][Next]_vars

-----------------------------------------------------------------------------
(* Forks                                                                   *)

\* entries_to_fork At an entry, and with_options of the storage that opens
\* them: the leaf they leave must be one of them.
ForkAt(id) == PathTo[Position(id)]

Opens(entries) ==
  entries = <<>>
    \/ LeafAfter(entries[Len(entries)]) \in {0} \cup IdsIn(entries)

-----------------------------------------------------------------------------
(* Properties                                                              *)

Entries ==
  [id : Ids, parent : {0} \cup Ids, kind : Kinds, ref : {0} \cup Ids]

\* Every variable keeps its type: the states of session.rs as modelled.
TypeOK ==
  /\ log \in Seq(Entries)
  /\ leaf \in {0} \cup Ids
  /\ labels \subseteq Ids
  /\ pc \in [Callers -> {"idle", "readParent", "append", "summaryId"}]
  /\ draft \in [Callers -> [id : {0} \cup Ids, parent : {0} \cup Ids,
                            kind : Kinds, ref : {0} \cup Ids]]
  /\ created \in 0 .. MaxEntries
  /\ raced \in BOOLEAN

\* However appends and moves interleave, every parent was pushed before its
\* child, ids are not reused, and the leaf is an entry: each walk to the root
\* (get_path_to_root, branch) ends without "Entry not found".
Rooted ==
  /\ leaf \in {0} \cup IdsIn(log)
  /\ \A p, q \in DOMAIN log : log[p].id = log[q].id => p = q
  /\ \A p \in DOMAIN log :
       log[p].parent = 0 \/ \E q \in 1 .. p - 1 : log[q].id = log[p].parent

\* Opening the log again gives the leaf and the labels that memory has: a move
\* of the leaf survives (load_jsonl_storage, build_labels_by_id).
ReopenedLeaf == IF log = <<>> THEN 0 ELSE LeafAfter(log[Len(log)])
ReopenedLabels ==
  {id \in IdsIn(log) :
     \E p \in DOMAIN log :
       /\ log[p].kind = "label" /\ log[p].ref = id
       /\ \A q \in p .. Len(log) : ~(log[q].kind = "unlabel" /\ log[q].ref = id)}

ReopenSame == leaf = ReopenedLeaf /\ labels = ReopenedLabels

\* A compaction keeps nothing, or an entry of the branch it hangs on. It does
\* so while no append has raced with another.
Keeps(entry) ==
  entry.kind = "compaction" => entry.ref \in {0} \cup IdsIn(Branch(entry.parent))

CompactionsKeep == ~raced => \A p \in DOMAIN log : Keeps(log[p])

\* The path to the root, without its markers.
Whole[p \in 0 .. Len(log)] ==
  IF p = 0 THEN <<>>
           ELSE Extended(Whole[Position(log[p].parent)], log[p])

\* A setting is that of the whole path, or its default if it was chosen before
\* what the context shows: never an older one.
SettingsKept(branch, path) ==
  \A kinds \in Settings :
    /\ Latest(branch, kinds) \in {0, Latest(path, kinds)}
    /\ Latest(path, kinds) \in IdsIn(ContextEntries(path)) =>
         Latest(branch, kinds) = Latest(path, kinds)

\* The branch that stops at the previous compaction gives the model the same
\* messages as the whole path to the root, however often it was compacted and
\* moved, and settings as recent, as far as the compactions of that path keep
\* what was on their branch. What is lost are settings: the thinking level, the
\* tools and the model that were chosen before the first kept entry, and not
\* again, read as their defaults once the branch is cut there.
ContextSame ==
  LET path == Whole[Position(leaf)]
  IN (\A k \in DOMAIN path : Keeps(path[k])) =>
       /\ ContextEntries(Branch(leaf)) = ContextEntries(path)
       /\ SettingsKept(Branch(leaf), path)

\* What is read of a session does not hang on how it was reached, by reopening it
\* or by following the path to the root, but for the settings that SettingsKept
\* lets go.
ReadsSame == ReopenSame /\ CompactionsKeep /\ ContextSame

\* A fork at any entry opens: "forked in-memory session is valid" (the expect
\* of InMemorySessionRepo::fork, session.rs:1430).
ForkOpens == \A p \in DOMAIN log : Opens(ForkAt(log[p].id))
=============================================================================
