---------------------------- MODULE SqliteSession ----------------------------
(***************************************************************************)
(* Session over the storage of harness/sqlite_session.rs.  The entries are *)
(* rows in the order of Session's log; what the other storages compute     *)
(* from them is kept as rows of its own, written in the transaction of     *)
(* each append: the leaf, the totals, the labels and the branches that     *)
(* have been active.  Reading the active branch reads its rows; opening    *)
(* the session reads the rows and no entry.                                *)
(*                                                                         *)
(* A transaction is one step: it commits, or it fails at some statement,   *)
(* and the snapshot of the memory is restored.  Labels are Session's.      *)
(***************************************************************************)
EXTENDS Session

VARIABLES
  branches, \* branch_entries: the entry_seqs of each branch, in order of age
  active,   \* active_branch_id, 0 for None
  totals,   \* materialized.message_count
  saved,    \* sessions.active_leaf_id and the payload of session_materialized
  orphaned  \* history: some append was pushed under a childless former leaf

sqlite == <<branches, active, totals, saved, orphaned>>
sqlVars == <<vars, sqlite>>

\* SqliteSessionRepo::create
SqlInit ==
  /\ Init
  /\ branches = <<>>
  /\ active = 0
  /\ totals = 0
  /\ saved = [leaf |-> 0, totals |-> 0]
  /\ orphaned = FALSE

-----------------------------------------------------------------------------
(* The transaction                                                         *)

\* A mutation: a branch is rebuilt for moves of the leaf only.
NoChild(parent) == FALSE

\* has_existing_child: markers are rows like any other.
HasChild(parent) == \E p \in DOMAIN log : log[p].parent = parent

\* materialize_branch: the walk from an entry that the other storages take.
Materialized(id) == {p \in DOMAIN log : log[p].id \in IdsIn(Branch(id))}

\* Where the path to a new entry starts: a marker is kept with its target.
Base(entry) == IF entry.kind = "leaf" THEN entry.ref ELSE entry.parent

Rebuilds(entry) ==
  entry.kind = "leaf" \/ HasChild(entry.parent) \/ active = 0

NextSeq == Len(log) + 1

\* The row joins a branch built for it, or extends the active one.
RecordBranch(entry) ==
  \/ /\ Rebuilds(entry)
     /\ branches' = Append(branches, Materialized(Base(entry)) \cup {NextSeq})
     /\ active' = Len(branches) + 1
  \/ /\ ~Rebuilds(entry)
     /\ branches' = [branches EXCEPT ![active] = @ \cup {NextSeq}]
     /\ UNCHANGED active

\* apply_entry_to_materialized_state
Counts(entry) == entry.kind \in {"message", "reply"}
TotalsAfter(entry) == totals + (IF Counts(entry) THEN 1 ELSE 0)

\* A former leaf under which nothing has been pushed.
LeftBehind(id) == id # leaf /\ \A p \in DOMAIN log : log[p].parent # id

Commit(entry) ==
  /\ RecordBranch(entry)
  /\ totals' = TotalsAfter(entry)
  /\ saved' = [leaf |-> LeafAfter(entry), totals |-> totals']
  /\ orphaned' = (orphaned \/ LeftBehind(entry.parent))

\* ROLLBACK, and the snapshot is restored.
RollBack(entry) == UNCHANGED sqlite

-----------------------------------------------------------------------------
(* The steps of Session                                                    *)

SqlAppendEntry(c) ==
  /\ AppendEntry(c)
  /\ \/ log' # log /\ Commit(draft[c])
     \/ log' = log /\ RollBack(draft[c])

\* set_leaf_id appends the marker in a transaction of its own.
SqlMoveTo(c) == MoveTo(c) /\ Commit(Entry(created', leaf, "leaf", leaf'))

SqlNext ==
  \E c \in Callers :
    \/ SqlAppendEntry(c)
    \/ SqlMoveTo(c)
    \/ BeginAppend(c) /\ UNCHANGED sqlite
    \/ ReadParent(c) /\ UNCHANGED sqlite
    \/ SummaryId(c) /\ UNCHANGED sqlite

SqlSpec == SqlInit /\ [][SqlNext]_sqlVars

-----------------------------------------------------------------------------
(* Reading                                                                 *)

\* materialized_branch_path, by entry_seq and without the markers.
RowsOf(entries, rows) ==
  LET Rows[p \in 0 .. Len(entries)] ==
        IF p = 0 THEN <<>>
        ELSE IF p \in rows THEN Extended(Rows[p - 1], entries[p])
        ELSE Rows[p - 1]
  IN Rows[Len(entries)]
BranchRows(b) == RowsOf(log, branches[b])
ActivePath == IF leaf = 0 THEN <<>> ELSE BranchRows(active)

\* load_active_branch_id: a branch that holds the newest row, 0 for none.
NewestBranches == {b \in DOMAIN branches : Len(log) \in branches[b]}

-----------------------------------------------------------------------------
(* Properties                                                              *)

\* Opening the session from its rows gives the leaf, the totals and the active
\* branch that memory has, also after an append that failed
\* ("in-memory snapshot restore on rollback", a gap of the tests).
SqlReopenSame ==
  /\ saved = [leaf |-> leaf, totals |-> totals]
  /\ NewestBranches = IF log = <<>> THEN {} ELSE {active}

\* The totals are those of the entries (session_stats_from_entries), however
\* appends interleave and fail.
TotalsMatch ==
  totals = Cardinality({p \in DOMAIN log : Counts(log[p])})

\* "The active leaf's path resolves through the materialized branch table"
\* (sqlite_session.rs:20): its rows give the model the same messages as the
\* walk over the parents, also after clones have raced. It is not so when an
\* append lands under a former leaf that has no child: the rows of the branch
\* that is active then are extended, and hold the entries of the other one.
\* Only the messages are the same: the rows of a branch that was extended across
\* a compaction still hold a setting that the walk no longer reaches.
ActivePathSame ==
  ~orphaned => ContextEntries(ActivePath) = ContextEntries(Branch(leaf))

\* What memory keeps beside the rows says what the rows say: the leaf, the totals
\* and the active branch (sqlite_session.rs:785, :826).
MirrorsRows == SqlReopenSame /\ TotalsMatch /\ ActivePathSame
=============================================================================
