--------------------------- MODULE SessionProofs ---------------------------
(***************************************************************************)
(* Three invariants for every set of callers and every bound.              *)
(*                                                                         *)
(* Rooted: the tree survives any interleaving of the lock sections of      *)
(* appends and moves. TreeInv adds what the entries under construction     *)
(* are: their ids are fresh and each other's equals never, and the parent  *)
(* they have read is an entry by then, and stays one.                      *)
(*                                                                         *)
(* ReadsSame: the branch that get_path_to_root_or_compaction cuts gives    *)
(* the context of the whole path. Both walks go from a place to an earlier *)
(* one, so they are functions (WalkExists), and what holds at the root and *)
(* passes from a parent to its child holds everywhere (Climb). The cut is  *)
(* a tail of the path (CutIsTail); it covers what the context needs when   *)
(* each compaction kept an entry of the branch it was made of (CutCovers), *)
(* which ReadInv carries through the steps, also for the one compaction    *)
(* that may be under construction while others append.                     *)
(*                                                                         *)
(* MirrorsRows: the rows that the SQLite storage keeps beside the entries. *)
(* Reading the rows of a walk gives the walk (RowsOfCut), so a branch that *)
(* is built anew shows what the walk shows; a branch that is extended by a *)
(* row is a path that the branch of the leaf covers (PathGrows).           *)
(* RowsInv carries that covering through the transactions.                 *)
(***************************************************************************)
EXTENDS SqliteSession, SequenceTheorems, FiniteSetTheorems,
        WellFoundedInduction, TLAPS

Building(c) == pc[c] \in {"readParent", "append"}

\* The ids in the log and under construction are of entries created, each once.
FreshIds ==
  /\ created \in Nat
  /\ IdsIn(log) \subseteq 1 .. created
  /\ \A c \in Callers : Building(c) =>
       /\ draft[c].id \in 1 .. created
       /\ draft[c].id \notin IdsIn(log)
       /\ draft[c].kind # "leaf"
  /\ \A c, d \in Callers :
       Building(c) /\ Building(d) /\ draft[c].id = draft[d].id => c = d

\* What a caller has read of the tree is still there.
KnownParents ==
  \A c \in Callers :
    /\ pc[c] \in {"append", "summaryId"} =>
         draft[c].parent \in {0} \cup IdsIn(log)
    /\ pc[c] = "summaryId" => draft[c].kind # "leaf"

Shape ==
  /\ \E S : log \in Seq(S)
  /\ DOMAIN pc = Callers /\ pc = [c \in Callers |-> pc[c]]
  /\ DOMAIN draft = Callers
  /\ draft = [c \in Callers |-> Entry(draft[c].id, draft[c].parent,
                                      draft[c].kind, draft[c].ref)]

TreeInv == Shape /\ FreshIds /\ KnownParents /\ Rooted

-----------------------------------------------------------------------------
\* A new session is an empty tree.
LEMMA TreeInit == Init => TreeInv
<1>. SUFFICES ASSUME Init PROVE TreeInv
  OBVIOUS
<1>1. Shape
  BY DEF Init, Shape, NoDraft, Entry
<1>2. /\ DOMAIN log = {} /\ leaf = 0 /\ created = 0
      /\ \A c \in Callers : pc[c] = "idle"
  BY DEF Init
<1>. QED
  BY <1>1, <1>2 DEF TreeInv, FreshIds, KnownParents, Rooted, Building, IdsIn

\* What Append does to the log.
LEMMA Grown ==
  ASSUME NEW entry, \E S : log \in Seq(S), log' = Append(log, entry)
  PROVE  /\ \E S : log' \in Seq(S)
         /\ Len(log) \in Nat
         /\ DOMAIN log = 1 .. Len(log)
         /\ DOMAIN log' = 1 .. Len(log) + 1
         /\ log'[Len(log) + 1] = entry
         /\ \A p \in DOMAIN log : log'[p] = log[p]
         /\ IdsIn(log') = IdsIn(log) \cup {entry.id}
<1>1. PICK S : log \in Seq(S)
  OBVIOUS
<1>2. log \in Seq(S \cup {entry})
  BY <1>1
<1>3. /\ log' \in Seq(S \cup {entry})
      /\ Len(log) \in Nat
      /\ DOMAIN log = 1 .. Len(log)
      /\ DOMAIN log' = 1 .. Len(log) + 1
      /\ log'[Len(log) + 1] = entry
      /\ \A p \in DOMAIN log : log'[p] = log[p]
  BY <1>2, AppendProperties
<1>4. IdsIn(log') = IdsIn(log) \cup {entry.id}
  BY <1>3 DEF IdsIn
<1>. QED
  BY <1>3, <1>4

\* An entry whose id is new and whose parent is an entry keeps the tree rooted.
LEMMA PushRooted ==
  ASSUME TreeInv, NEW entry, Push(entry),
         entry.id \notin IdsIn(log),
         entry.parent \in {0} \cup IdsIn(log),
         entry.kind = "leaf" => entry.ref \in {0} \cup IdsIn(log)
  PROVE  Rooted'
<1>1. \E S : log \in Seq(S)
  BY DEF TreeInv, Shape
<1>2. log' = Append(log, entry) /\ leaf' = LeafAfter(entry)
  BY DEF Push
<1>3. /\ Len(log) \in Nat
      /\ DOMAIN log = 1 .. Len(log)
      /\ DOMAIN log' = 1 .. Len(log) + 1
      /\ log'[Len(log) + 1] = entry
      /\ \A p \in DOMAIN log : log'[p] = log[p]
      /\ IdsIn(log') = IdsIn(log) \cup {entry.id}
  BY <1>1, <1>2, Grown
<1>4. leaf' \in {0} \cup IdsIn(log')
  BY <1>2, <1>3 DEF LeafAfter
<1>5. ASSUME NEW p \in DOMAIN log', NEW q \in DOMAIN log',
             log'[p].id = log'[q].id
      PROVE  p = q
  <2>1. \A r \in DOMAIN log : log[r].id # entry.id
    BY DEF IdsIn
  <2>. QED
    BY <1>3, <1>5, <2>1 DEF TreeInv, Rooted
<1>6. ASSUME NEW p \in DOMAIN log'
      PROVE  log'[p].parent = 0
               \/ \E q \in 1 .. p - 1 : log'[q].id = log'[p].parent
  <2>1. CASE p \in DOMAIN log
    BY <1>3, <2>1 DEF TreeInv, Rooted
  <2>2. CASE p = Len(log) + 1
    <3>1. CASE entry.parent \in IdsIn(log)
      BY <1>3, <2>2, <3>1 DEF IdsIn
    <3>. QED
      BY <1>3, <2>2, <3>1
  <2>. QED
    BY <1>3, <2>1, <2>2
<1>. QED
  BY <1>4, <1>5, <1>6 DEF Rooted

\* A step that creates the next id, for the log or for its own draft.
LEMMA FreshStep ==
  ASSUME FreshIds, NEW c \in Callers, created' = created + 1,
         IdsIn(log') \subseteq IdsIn(log) \cup {created + 1},
         \A d \in Callers \ {c} : pc'[d] = pc[d] /\ draft'[d] = draft[d],
         Building(c)' => /\ draft'[c].id = created + 1
                         /\ draft'[c].kind # "leaf"
                         /\ IdsIn(log') = IdsIn(log)
  PROVE  FreshIds'
<1>1. /\ created \in Nat /\ created' \in Nat
      /\ 1 .. created' = (1 .. created) \cup {created + 1}
      /\ created + 1 \notin 1 .. created
  BY DEF FreshIds
<1>2. IdsIn(log') \subseteq 1 .. created'
  BY <1>1 DEF FreshIds
<1>3. ASSUME NEW d \in Callers, Building(d)'
      PROVE  /\ draft'[d].id \in 1 .. created'
             /\ draft'[d].id \notin IdsIn(log')
             /\ draft'[d].kind # "leaf"
  <2>1. CASE d = c
    BY <1>1, <1>3, <2>1 DEF FreshIds
  <2>2. CASE d # c
    BY <1>1, <1>3, <2>2 DEF FreshIds, Building
  <2>. QED
    BY <2>1, <2>2
<1>4. ASSUME NEW d \in Callers, NEW e \in Callers, Building(d)', Building(e)',
             draft'[d].id = draft'[e].id
      PROVE  d = e
  <2>1. \A f \in Callers \ {c} : Building(f)' => draft'[f].id # created + 1
    BY <1>1 DEF FreshIds, Building
  <2>. QED
    BY <1>4, <2>1 DEF FreshIds, Building
<1>. QED
  BY <1>1, <1>2, <1>3, <1>4 DEF FreshIds

-----------------------------------------------------------------------------
\* Each lock section of an append or a move preserves the invariant.
LEMMA TreeStep == TreeInv /\ [Next]_vars => TreeInv'
<1>. SUFFICES ASSUME TreeInv, [Next]_vars PROVE TreeInv'
  OBVIOUS
<1>1. CASE UNCHANGED vars
  BY <1>1 DEF vars, TreeInv, Shape, FreshIds, KnownParents, Rooted, Building,
              IdsIn
<1>2. ASSUME NEW c \in Callers, BeginAppend(c) PROVE TreeInv'
  <2>1. PICK entry \in Drafts :
          /\ pc' = [pc EXCEPT ![c] = "readParent"]
          /\ draft' = [draft EXCEPT ![c] = entry]
          /\ created' = created + 1
          /\ UNCHANGED <<log, leaf>>
    BY <1>2 DEF BeginAppend, Draft, Goto, Create
  <2>2. entry.id = created + 1 /\ entry.kind # "leaf"
    BY DEF Drafts, Compactions, Entry
  <2>6. entry = Entry(entry.id, entry.parent, entry.kind, entry.ref)
    BY DEF Drafts, Compactions, Entry
  <2>3. Shape'
    BY <2>1, <2>6 DEF TreeInv, Shape
  <2>4. FreshIds'
    <3>1. \A d \in Callers \ {c} : pc'[d] = pc[d] /\ draft'[d] = draft[d]
      BY <2>1 DEF TreeInv, Shape
    <3>2. draft'[c] = entry /\ IdsIn(log') = IdsIn(log)
      BY <2>1 DEF TreeInv, Shape, IdsIn
    <3>. QED
      BY <2>1, <2>2, <3>1, <3>2, FreshStep DEF TreeInv
  <2>5. KnownParents'
    BY <2>1 DEF TreeInv, Shape, KnownParents, IdsIn
  <2>. QED
    BY <2>1, <2>3, <2>4, <2>5 DEF TreeInv, Rooted, IdsIn
<1>3. ASSUME NEW c \in Callers, ReadParent(c) PROVE TreeInv'
  <2>1. /\ pc[c] = "readParent"
        /\ pc' = [pc EXCEPT ![c] = "append"]
        /\ draft' = [draft EXCEPT ![c].parent = leaf]
        /\ UNCHANGED <<log, leaf, created>>
    BY <1>3 DEF ReadParent, Goto
  <2>2. /\ draft'[c].id = draft[c].id /\ draft'[c].kind = draft[c].kind
        /\ draft'[c].parent = leaf
        /\ \A d \in Callers \ {c} : draft'[d] = draft[d]
    BY <2>1 DEF TreeInv, Shape, Entry
  <2>6. draft' = [d \in Callers |-> Entry(draft'[d].id, draft'[d].parent,
                                         draft'[d].kind, draft'[d].ref)]
    <3>1. draft'[c] = Entry(draft[c].id, leaf, draft[c].kind, draft[c].ref)
      BY <2>1 DEF TreeInv, Shape, Entry
    <3>2. \A d \in Callers : draft'[d] = Entry(draft'[d].id, draft'[d].parent,
                                              draft'[d].kind, draft'[d].ref)
      BY <2>2, <3>1 DEF TreeInv, Shape, Entry
    <3>3. draft' = [d \in Callers |-> draft'[d]]
      BY <2>1 DEF TreeInv, Shape
    <3>. QED
      BY <3>2, <3>3
  <2>3. Shape'
    BY <2>1, <2>6 DEF TreeInv, Shape
  <2>4. FreshIds'
    BY <2>1, <2>2 DEF TreeInv, Shape, FreshIds, Building, IdsIn
  <2>5. KnownParents'
    <3>1. \A d \in Callers \ {c} : pc'[d] = pc[d] /\ draft'[d] = draft[d]
      BY <2>1, <2>2 DEF TreeInv, Shape
    <3>2. pc'[c] = "append" /\ leaf \in {0} \cup IdsIn(log)
      BY <2>1 DEF TreeInv, Shape, Rooted
    <3>. QED
      BY <2>1, <2>2, <3>1, <3>2 DEF TreeInv, KnownParents, IdsIn
  <2>. QED
    BY <2>1, <2>3, <2>4, <2>5 DEF TreeInv, Rooted, IdsIn
<1>4. ASSUME NEW c \in Callers, AppendEntry(c) PROVE TreeInv'
  <2>1. /\ pc[c] = "append"
        /\ pc' = [pc EXCEPT ![c] = "idle"]
        /\ draft' = [draft EXCEPT ![c] = NoDraft]
        /\ UNCHANGED created
        /\ Push(draft[c]) \/ UNCHANGED <<log, leaf>>
    BY <1>4 DEF AppendEntry, Goto, Draft
  <2>2. /\ \E S : log' \in Seq(S)
        /\ IdsIn(log') \subseteq IdsIn(log) \cup {draft[c].id}
        /\ IdsIn(log) \subseteq IdsIn(log')
    <3>1. CASE Push(draft[c])
      <4>1. log' = Append(log, draft[c])
        BY <3>1 DEF Push
      <4>. QED
        BY <4>1, Grown DEF TreeInv, Shape
    <3>2. CASE UNCHANGED log
      BY <3>2 DEF TreeInv, Shape, IdsIn
    <3>. QED
      BY <2>1, <3>1, <3>2
  <2>3. Shape'
    BY <2>1, <2>2 DEF TreeInv, Shape, NoDraft, Entry
  <2>4. FreshIds'
    BY <2>1, <2>2 DEF TreeInv, Shape, FreshIds, Building
  <2>5. KnownParents'
    BY <2>1, <2>2 DEF TreeInv, Shape, KnownParents
  <2>6. Rooted'
    <3>1. CASE Push(draft[c])
      <4>1. draft[c].id \notin IdsIn(log) /\ draft[c].kind # "leaf"
        BY <2>1 DEF TreeInv, FreshIds, Building
      <4>2. draft[c].parent \in {0} \cup IdsIn(log)
        BY <2>1 DEF TreeInv, KnownParents
      <4>. QED
        BY <3>1, <4>1, <4>2, PushRooted
    <3>2. CASE UNCHANGED <<log, leaf>>
      BY <3>2 DEF TreeInv, Rooted, IdsIn
    <3>. QED
      BY <2>1, <3>1, <3>2
  <2>. QED
    BY <2>3, <2>4, <2>5, <2>6 DEF TreeInv
<1>5. ASSUME NEW c \in Callers, MoveTo(c) PROVE TreeInv'
  <2>1. PICK target \in Targets :
          /\ pc[c] = "idle"
          /\ created' = created + 1
          /\ Push(Entry(created + 1, leaf, "leaf", target))
          /\ \/ UNCHANGED <<pc, draft>>
             \/ /\ pc' = [pc EXCEPT ![c] = "summaryId"]
                /\ draft' = [draft EXCEPT ![c] =
                               Entry(0, target, "branchSummary", target)]
    BY <1>5 DEF MoveTo, SetLeaf, Goto, Draft, Create
  <2>. DEFINE marker == Entry(created + 1, leaf, "leaf", target)
  <2>2. /\ marker.id = created + 1 /\ marker.parent = leaf
        /\ marker.kind = "leaf" /\ marker.ref = target
    BY DEF Entry
  <2>3. /\ \E S : log' \in Seq(S)
        /\ IdsIn(log') = IdsIn(log) \cup {created + 1}
    <3>1. log' = Append(log, marker)
      BY <2>1 DEF Push
    <3>. QED
      BY <2>2, <3>1, Grown DEF TreeInv, Shape
  <2>4. created + 1 \notin IdsIn(log)
    BY DEF TreeInv, FreshIds
  <2>5. Shape'
    BY <2>1, <2>3 DEF TreeInv, Shape, Entry
  <2>6. FreshIds'
    <3>1. \A d \in Callers \ {c} : pc'[d] = pc[d] /\ draft'[d] = draft[d]
      BY <2>1 DEF TreeInv, Shape
    <3>2. ~Building(c)'
      BY <2>1 DEF TreeInv, Shape, Building
    <3>. QED
      BY <2>1, <2>3, <3>1, <3>2, FreshStep DEF TreeInv
  <2>7. KnownParents'
    BY <2>1, <2>3 DEF TreeInv, Shape, KnownParents, Targets, Entry
  <2>8. Rooted'
    BY <2>1, <2>2, <2>4, PushRooted DEF TreeInv, Rooted, Targets
  <2>. QED
    BY <2>5, <2>6, <2>7, <2>8 DEF TreeInv
<1>6. ASSUME NEW c \in Callers, SummaryId(c) PROVE TreeInv'
  <2>1. /\ pc[c] = "summaryId"
        /\ pc' = [pc EXCEPT ![c] = "append"]
        /\ created' = created + 1
        /\ draft' = [draft EXCEPT ![c].id = created + 1]
        /\ UNCHANGED <<log, leaf>>
    BY <1>6 DEF SummaryId, Goto, Create
  <2>2. /\ draft'[c].id = created + 1 /\ draft'[c].kind = draft[c].kind
        /\ draft'[c].parent = draft[c].parent
        /\ \A d \in Callers \ {c} : draft'[d] = draft[d]
    BY <2>1 DEF TreeInv, Shape, Entry
  <2>6. draft' = [d \in Callers |-> Entry(draft'[d].id, draft'[d].parent,
                                         draft'[d].kind, draft'[d].ref)]
    <3>1. draft'[c] = Entry(created + 1, draft[c].parent, draft[c].kind,
                            draft[c].ref)
      BY <2>1 DEF TreeInv, Shape, Entry
    <3>2. \A d \in Callers : draft'[d] = Entry(draft'[d].id, draft'[d].parent,
                                              draft'[d].kind, draft'[d].ref)
      BY <2>2, <3>1 DEF TreeInv, Shape, Entry
    <3>3. draft' = [d \in Callers |-> draft'[d]]
      BY <2>1 DEF TreeInv, Shape
    <3>. QED
      BY <3>2, <3>3
  <2>3. Shape'
    BY <2>1, <2>6 DEF TreeInv, Shape
  <2>4. FreshIds'
    <3>1. \A d \in Callers \ {c} : pc'[d] = pc[d] /\ draft'[d] = draft[d]
      BY <2>1, <2>2 DEF TreeInv, Shape
    <3>2. draft[c].kind # "leaf" /\ IdsIn(log') = IdsIn(log)
      BY <2>1 DEF TreeInv, KnownParents, IdsIn
    <3>. QED
      BY <2>1, <2>2, <3>1, <3>2, FreshStep DEF TreeInv
  <2>5. KnownParents'
    <3>1. \A d \in Callers \ {c} : pc'[d] = pc[d] /\ draft'[d] = draft[d]
      BY <2>1, <2>2 DEF TreeInv, Shape
    <3>2. pc'[c] = "append"
      BY <2>1 DEF TreeInv, Shape
    <3>. QED
      BY <2>1, <2>2, <3>1, <3>2 DEF TreeInv, KnownParents, IdsIn
  <2>. QED
    BY <2>1, <2>3, <2>4, <2>5 DEF TreeInv, Rooted, IdsIn
<1>. QED
  BY <1>1, <1>2, <1>3, <1>4, <1>5, <1>6 DEF Next

\* However the appends and moves of any number of clones interleave, the walk
\* from the leaf to the root meets only entries, each once.
THEOREM AlwaysRooted == Spec => []Rooted
<1>1. TreeInv => Rooted
  BY DEF TreeInv
<1>. QED
  BY <1>1, TreeInit, TreeStep, PTL DEF Spec

-----------------------------------------------------------------------------
(* What is read of a session                                               *)

\* A set of numbers has a least one.
LEMMA Least ==
  ASSUME NEW S \in SUBSET Nat, S # {}
  PROVE  \E n \in S : \A m \in S : n <= m
<1>. DEFINE F == {1 .. n : n \in S}
<1>1. F \subseteq FiniteSubsetsOf(Nat) /\ F # {}
  <2>1. \A n \in S : IsFiniteSet(1 .. n) /\ 1 .. n \in SUBSET Nat
    BY FS_Interval
  <2>. QED
    BY <2>1 DEF FiniteSubsetsOf
<1>2. IsWellFoundedOn(StrictSubsetOrdering(Nat), FiniteSubsetsOf(Nat))
  BY FS_StrictSubsetOrderingWellFounded
<1>3. PICK x \in F : \A y \in F : <<y, x>> \notin StrictSubsetOrdering(Nat)
  BY <1>1, <1>2, WFMin
<1>4. PICK n \in S : x = 1 .. n
  BY <1>3
<1>5. ASSUME NEW m \in S, m < n PROVE FALSE
  <2>1. 1 .. m \in F
    BY <1>5
  <2>2. 1 .. m \subseteq 1 .. n /\ n \in 1 .. n /\ n \notin 1 .. m
    BY <1>5
  <2>3. <<1 .. m, x>> \in StrictSubsetOrdering(Nat)
    BY <2>2, <1>4 DEF StrictSubsetOrdering
  <2>. QED
    BY <2>1, <2>3, <1>3
<1>. QED
  BY <1>5

\* A walk up: where each place leads, and what a place makes of what lies above.
Walkable(n, V, start, up, step) ==
  /\ n \in Nat /\ start \in V
  /\ \A p \in 1 .. n : up[p] \in 0 .. p - 1
  /\ \A p \in 1 .. n : \A v \in V : step[p][v] \in V

IsWalk(f, n, V, start, up, step) ==
  /\ f \in [0 .. n -> V]
  /\ \A p \in 0 .. n : f[p] = IF p = 0 THEN start ELSE step[p][f[up[p]]]

\* What holds at the root, and of a place when it holds of the one above it,
\* holds of all.
LEMMA Climb ==
  ASSUME NEW n \in Nat, NEW up, \A p \in 1 .. n : up[p] \in 0 .. p - 1,
         NEW Good, 0 \in Good, \A p \in 1 .. n : up[p] \in Good => p \in Good
  PROVE  0 .. n \subseteq Good
<1>. DEFINE Bad == (0 .. n) \ Good
<1>1. SUFFICES ASSUME Bad # {} PROVE FALSE
  OBVIOUS
<1>2. PICK k \in Bad : \A m \in Bad : k <= m
  <2>1. Bad \in SUBSET Nat
    OBVIOUS
  <2>. QED
    BY <1>1, <2>1, Least
<1>3. k \in 1 .. n
  BY <1>2
<1>4. up[k] \in 0 .. n /\ up[k] < k
  BY <1>3
<1>5. up[k] \in Good
  BY <1>2, <1>3, <1>4
<1>. QED
  BY <1>2, <1>3, <1>5

\* A walk that goes to earlier places only is a function.
LEMMA WalkExists ==
  ASSUME NEW n, NEW V, NEW start, NEW up, NEW step,
         Walkable(n, V, start, up, step)
  PROVE  \E f : IsWalk(f, n, V, start, up, step)
<1>. DEFINE Bad == {k \in 0 .. n : ~ \E f : IsWalk(f, k, V, start, up, step)}
<1>1. n \in 0 .. n /\ n \in Nat
  BY DEF Walkable
<1>2. SUFFICES ASSUME Bad # {} PROVE FALSE
  BY <1>1
<1>3. PICK k \in Bad : \A m \in Bad : k <= m
  <2>1. Bad \in SUBSET Nat
    BY <1>1
  <2>. QED
    BY <1>2, <2>1, Least
<1>4. k # 0
  <2>1. IsWalk([p \in 0 .. 0 |-> start], 0, V, start, up, step)
    BY DEF IsWalk, Walkable
  <2>. QED
    BY <2>1
<1>5. k \in 1 .. n /\ k - 1 \in 0 .. n /\ k - 1 \notin Bad
  <2>1. k \in 0 .. n
    BY <1>3
  <2>. HIDE DEF Bad
  <2>. QED
    BY <1>1, <1>3, <1>4, <2>1
<1>6. PICK f : IsWalk(f, k - 1, V, start, up, step)
  BY <1>5
<1>. DEFINE g == [p \in 0 .. k |-> IF p < k THEN f[p] ELSE step[k][f[up[k]]]]
<1>7. /\ f \in [0 .. k - 1 -> V]
      /\ \A p \in 0 .. k - 1 :
           f[p] = IF p = 0 THEN start ELSE step[p][f[up[p]]]
  BY <1>6 DEF IsWalk
<1>8. \A p \in 1 .. n : up[p] \in 0 .. p - 1
  BY DEF Walkable
<1>9. up[k] \in 0 .. k - 1 /\ step[k][f[up[k]]] \in V
  BY <1>5, <1>7 DEF Walkable
<1>10. g \in [0 .. k -> V]
  BY <1>5, <1>7, <1>9
<1>11. ASSUME NEW p \in 0 .. k
       PROVE  g[p] = IF p = 0 THEN start ELSE step[p][g[up[p]]]
  <2>1. CASE p = k
    BY <1>5, <1>9, <2>1
  <2>2. CASE p # k /\ p = 0
    BY <1>5, <1>7, <2>2
  <2>3. CASE p # k /\ p # 0
    <3>1. p \in 0 .. k - 1 /\ p \in 1 .. n /\ up[p] \in 0 .. k - 1
      BY <1>1, <1>5, <1>8, <2>3
    <3>. QED
      BY <1>7, <2>3, <3>1
  <2>. QED
    BY <2>1, <2>2, <2>3
<1>12. IsWalk(g, k, V, start, up, step)
  <2>. HIDE DEF g
  <2>. QED
    BY <1>10, <1>11 DEF IsWalk
<1>. QED
  BY <1>3, <1>12

-----------------------------------------------------------------------------
\* The place of the parent.
Up(p) == Position(log[p].parent)
Logged == {log[p] : p \in DOMAIN log}

\* The places of the log are numbers, from 1 to its length.
LEMMA LogIsFinite ==
  ASSUME TreeInv
  PROVE  Len(log) \in Nat /\ DOMAIN log = 1 .. Len(log)
  BY DEF TreeInv, Shape

\* by_id finds each entry at its own place, and a parent lies before its child.
LEMMA Positions ==
  ASSUME TreeInv
  PROVE  /\ Position(0) = 0
         /\ \A p \in DOMAIN log : log[p].id # 0 /\ Position(log[p].id) = p
         /\ \A id \in IdsIn(log) :
              Position(id) \in DOMAIN log /\ log[Position(id)].id = id
         /\ \A p \in DOMAIN log : Up(p) \in 0 .. p - 1
<1>1. \A p \in DOMAIN log : log[p].id # 0
  BY DEF TreeInv, FreshIds, IdsIn
<1>2. ASSUME NEW p \in DOMAIN log PROVE Position(log[p].id) = p
  <2>1. \A q \in DOMAIN log : log[q].id = log[p].id => q = p
    BY DEF TreeInv, Rooted
  <2>. QED
    BY <1>1, <2>1 DEF Position
<1>3. ASSUME NEW p \in DOMAIN log PROVE Up(p) \in 0 .. p - 1
  <2>1. CASE log[p].parent = 0
    BY LogIsFinite, <2>1 DEF Up, Position
  <2>2. CASE log[p].parent # 0
    <3>1. PICK q \in 1 .. p - 1 : log[q].id = log[p].parent
      BY <2>2 DEF TreeInv, Rooted
    <3>2. q \in DOMAIN log
      BY <3>1, LogIsFinite
    <3>3. Up(p) = q
      BY <1>2, <3>1, <3>2 DEF Up
    <3>. QED
      BY <3>3, LogIsFinite
  <2>. QED
    BY <2>1, <2>2
<1>4. Position(0) = 0
  BY DEF Position
<1>5. ASSUME NEW id \in IdsIn(log)
      PROVE Position(id) \in DOMAIN log /\ log[Position(id)].id = id
  <2>1. PICK p \in DOMAIN log : id = log[p].id
    BY DEF IdsIn
  <2>. QED
    BY <1>2, <2>1
<1>. QED
  BY <1>1, <1>2, <1>3, <1>4, <1>5

\* The path to the root of each place is the one of its parent, and the entry.
LEMMA WholeIs ==
  ASSUME TreeInv
  PROVE  /\ Whole \in [0 .. Len(log) -> Seq(Logged)]
         /\ Whole[0] = <<>>
         /\ \A p \in DOMAIN log : Whole[p] = Extended(Whole[Up(p)], log[p])
<1>. DEFINE n == Len(log)
            V == Seq(Logged)
            up == [p \in 1 .. n |-> Up(p)]
            step == [p \in 1 .. n |-> [path \in V |-> Extended(path, log[p])]]
            start == <<>>
<1>1. n \in Nat /\ DOMAIN log = 1 .. n
  BY LogIsFinite
<1>2. \A p \in 1 .. n : up[p] = Up(p) /\ up[p] \in 0 .. p - 1
  BY <1>1, Positions
<1>3. \A p \in 1 .. n : \A path \in V :
        step[p][path] = Extended(path, log[p]) /\ step[p][path] \in V
  <2>1. ASSUME NEW p \in 1 .. n, NEW path \in V PROVE Extended(path, log[p]) \in V
    <3>1. log[p] \in Logged
      BY <1>1 DEF Logged
    <3>. QED
      BY <3>1 DEF Extended
  <2>. QED
    BY <2>1
<1>4. start \in V
  OBVIOUS
<1>. HIDE DEF n, V, up, step, start
<1>5. PICK f : IsWalk(f, n, V, start, up, step)
  <2>1. Walkable(n, V, start, up, step)
    BY <1>1, <1>2, <1>3, <1>4 DEF Walkable
  <2>. QED
    BY <2>1, WalkExists
<1>6. f \in [0 .. n -> V]
  BY <1>5 DEF IsWalk
<1>7. f[0] = <<>> /\ \A p \in 1 .. n : f[p] = Extended(f[Up(p)], log[p])
  <2>1. f[0] = start /\ \A p \in 1 .. n : f[p] = step[p][f[up[p]]]
    BY <1>1, <1>5 DEF IsWalk
  <2>2. \A p \in 1 .. n : f[up[p]] \in V
    BY <1>1, <1>2, <1>6
  <2>. QED
    BY <1>2, <1>3, <2>1, <2>2 DEF start
<1>8. Whole = [p \in 0 .. Len(log) |->
                 IF p = 0 THEN <<>>
                 ELSE Extended(Whole[Position(log[p].parent)], log[p])]
  <2>1. f = [p \in 0 .. Len(log) |->
               IF p = 0 THEN <<>>
               ELSE Extended(f[Position(log[p].parent)], log[p])]
    BY <1>1, <1>6, <1>7 DEF n, Up
  <2>2. \E g : g = [p \in 0 .. Len(log) |->
                     IF p = 0 THEN <<>>
                     ELSE Extended(g[Position(log[p].parent)], log[p])]
    BY <2>1
  <2>. QED
    BY <2>2, Zenon DEF Whole
<1>9. Whole[0] = <<>> /\ \A p \in 1 .. n : Whole[p] = Extended(Whole[Up(p)], log[p])
  BY <1>1, <1>8 DEF n, Up
<1>10. Whole = f
  <2>. DEFINE Good == {p \in 0 .. n : Whole[p] = f[p]}
  <2>1. 0 .. n \subseteq Good
    <3>1. 0 \in Good
      BY <1>1, <1>7, <1>9
    <3>2. \A p \in 1 .. n : up[p] \in Good => p \in Good
      BY <1>1, <1>2, <1>7, <1>9
    <3>. HIDE DEF Good
    <3>. QED
      BY <1>1, <1>2, <3>1, <3>2, Climb
  <2>. QED
    BY <1>6, <1>8, <2>1 DEF n
<1>. QED
  BY <1>1, <1>6, <1>9, <1>10 DEF n, V

\* What a walk may stop at: no entry, or an id.
Stops == {0} \cup Ids
RefsTyped == \A p \in DOMAIN log : log[p].ref \in Stops

\* The walk of branch from each place ends at its stop, or goes on from the parent
\* with the stop that this entry leaves.
LEMMA CutIs ==
  ASSUME TreeInv, RefsTyped
  PROVE  /\ Cut \in [0 .. Len(log) -> [Stops -> Seq(Logged)]]
         /\ \A stop \in Stops : Cut[0][stop] = <<>>
         /\ \A p \in DOMAIN log, stop \in Stops :
              /\ StopAfter(log[p], stop) \in Stops
              /\ Ends(log[p], stop) =>
                   Cut[p][stop] = Extended(<<>>, log[p])
              /\ ~Ends(log[p], stop) =>
                   Cut[p][stop] = Extended(Cut[Up(p)][StopAfter(log[p], stop)], log[p])
<1>. DEFINE n == Len(log)
            V == [Stops -> Seq(Logged)]
            up == [p \in 1 .. n |-> Up(p)]
            Step(cut, p, stop) ==
              IF Ends(log[p], stop) THEN Extended(<<>>, log[p])
              ELSE Extended(cut[StopAfter(log[p], stop)], log[p])
            step == [p \in 1 .. n |->
                       [cut \in V |-> [stop \in Stops |-> Step(cut, p, stop)]]]
            start == [stop \in Stops |-> <<>>]
<1>1. n \in Nat /\ DOMAIN log = 1 .. n
  BY LogIsFinite
<1>2. \A p \in 1 .. n : up[p] = Up(p) /\ up[p] \in 0 .. p - 1
  BY <1>1, Positions
<1>3. \A p \in 1 .. n, stop \in Stops : StopAfter(log[p], stop) \in Stops
  BY <1>1 DEF RefsTyped, StopAfter
<1>4. \A p \in 1 .. n : \A cut \in V :
        step[p][cut] = [stop \in Stops |-> Step(cut, p, stop)] /\ step[p][cut] \in V
  <2>1. ASSUME NEW p \in 1 .. n, NEW cut \in V, NEW stop \in Stops
        PROVE  Step(cut, p, stop) \in Seq(Logged)
    <3>1. log[p] \in Logged
      BY <1>1 DEF Logged
    <3>2. \A path \in Seq(Logged) : Extended(path, log[p]) \in Seq(Logged)
      BY <3>1 DEF Extended
    <3>3. cut[StopAfter(log[p], stop)] \in Seq(Logged)
      BY <1>3
    <3>4. <<>> \in Seq(Logged)
      OBVIOUS
    <3>. QED
      BY <3>2, <3>3, <3>4
  <2>. HIDE DEF Step
  <2>. QED
    BY <2>1
<1>5. start \in V
  OBVIOUS
<1>. HIDE DEF n, V, up, step
<1>6. PICK f : IsWalk(f, n, V, start, up, step)
  <2>1. Walkable(n, V, start, up, step)
    <3>. HIDE DEF start, Step
    <3>. QED
      BY <1>1, <1>2, <1>4, <1>5 DEF Walkable
  <2>. QED
    BY <2>1, WalkExists
<1>7. f \in [0 .. n -> V]
  BY <1>6 DEF IsWalk
<1>8. /\ f[0] = start
      /\ \A p \in 1 .. n : f[p] = [stop \in Stops |-> Step(f[Up(p)], p, stop)]
  <2>. HIDE DEF start, Step
  <2>1. f[0] = start /\ \A p \in 1 .. n : f[p] = step[p][f[up[p]]]
    BY <1>1, <1>6 DEF IsWalk
  <2>2. \A p \in 1 .. n : f[up[p]] \in V
    BY <1>1, <1>2, <1>7
  <2>. QED
    BY <1>2, <1>4, <2>1, <2>2
<1>9. Cut = [p \in 0 .. Len(log) |->
     [stop \in {0} \cup Ids |->
     IF p = 0 THEN <<>>
     ELSE IF Ends(log[p], stop) THEN Extended(<<>>, log[p])
     ELSE Extended(Cut[Position(log[p].parent)][StopAfter(log[p], stop)], log[p])]]
  <2>1. ASSUME NEW p \in 0 .. n
        PROVE  f[p] = [stop \in {0} \cup Ids |->
     IF p = 0 THEN <<>>
     ELSE IF Ends(log[p], stop) THEN Extended(<<>>, log[p])
     ELSE Extended(f[Position(log[p].parent)][StopAfter(log[p], stop)], log[p])]
    <3>1. CASE p = 0
      BY <1>8, <3>1 DEF Stops
    <3>2. CASE p # 0
      <4>1. p \in 1 .. n
        BY <1>1, <3>2
      <4>. QED
        BY <1>8, <4>1, <3>2 DEF Stops, Up
    <3>. QED
      BY <3>1, <3>2
  <2>2. f = [p \in 0 .. Len(log) |->
     [stop \in {0} \cup Ids |->
     IF p = 0 THEN <<>>
     ELSE IF Ends(log[p], stop) THEN Extended(<<>>, log[p])
     ELSE Extended(f[Position(log[p].parent)][StopAfter(log[p], stop)], log[p])]]
    BY <1>7, <2>1 DEF n
  <2>3. \E g : g = [p \in 0 .. Len(log) |->
     [stop \in {0} \cup Ids |->
     IF p = 0 THEN <<>>
     ELSE IF Ends(log[p], stop) THEN Extended(<<>>, log[p])
     ELSE Extended(g[Position(log[p].parent)][StopAfter(log[p], stop)], log[p])]]
    BY <2>2, Zenon
  <2>. QED
    BY <2>3, Zenon DEF Cut
<1>10. /\ Cut[0] = start
       /\ \A p \in 1 .. n : Cut[p] = [stop \in Stops |-> Step(Cut[Up(p)], p, stop)]
  <2>1. Cut[0] = start
    BY <1>1, <1>9 DEF n, Stops
  <2>2. ASSUME NEW p \in 1 .. n
        PROVE  Cut[p] = [stop \in Stops |-> Step(Cut[Up(p)], p, stop)]
    <3>1. p \in 0 .. Len(log) /\ p # 0
      BY <1>1 DEF n
    <3>2. Cut[p] = [stop \in {0} \cup Ids |->
             IF p = 0 THEN <<>>
             ELSE IF Ends(log[p], stop) THEN Extended(<<>>, log[p])
             ELSE Extended(Cut[Position(log[p].parent)][StopAfter(log[p], stop)], log[p])]
      BY <1>9, <3>1
    <3>. QED
      BY <3>1, <3>2 DEF Stops, Up
  <2>. QED
    BY <2>1, <2>2
<1>11. Cut = f
  <2>. DEFINE Good == {p \in 0 .. n : Cut[p] = f[p]}
  <2>1. 0 .. n \subseteq Good
    <3>. HIDE DEF Step, start
    <3>1. 0 \in Good
      BY <1>1, <1>8, <1>10
    <3>2. ASSUME NEW p \in 1 .. n, up[p] \in Good PROVE p \in Good
      <4>1. Cut[Up(p)] = f[Up(p)] /\ p \in 0 .. n
        BY <1>1, <1>2, <3>2
      <4>. QED
        BY <1>8, <1>10, <4>1
    <3>. HIDE DEF Good
    <3>. QED
      BY <1>1, <1>2, <3>1, <3>2, Climb
  <2>2. DOMAIN Cut = 0 .. n
    BY <1>9 DEF n
  <2>. HIDE DEF Step, start
  <2>. QED
    BY <1>7, <1>9, <2>1, <2>2 DEF n
<1>12. \A stop \in Stops : Cut[0][stop] = <<>>
  BY <1>10
<1>13. ASSUME NEW p \in DOMAIN log, NEW stop \in Stops
       PROVE  /\ StopAfter(log[p], stop) \in Stops
              /\ Ends(log[p], stop) =>
                   Cut[p][stop] = Extended(<<>>, log[p])
              /\ ~Ends(log[p], stop) =>
                   Cut[p][stop] = Extended(Cut[Up(p)][StopAfter(log[p], stop)], log[p])
  <2>1. p \in 1 .. n
    BY <1>1
  <2>2. Cut[p][stop] = Step(Cut[Up(p)], p, stop)
    <3>. HIDE DEF Step
    <3>. QED
      BY <1>10, <2>1
  <2>. QED
    BY <1>3, <2>1, <2>2
<1>. QED
  BY <1>7, <1>11, <1>12, <1>13 DEF n, V

\* Every entry of a path lies at or below q.
Within(path, q) == \A k \in DOMAIN path : \E j \in 1 .. q : path[k] = log[j]
\* No entry occurs twice.
Distinct(path) == \A j, k \in DOMAIN path : path[j].id = path[k].id => j = k

\* The one is the end of the other.
TailOf(tail, path) ==
  /\ Len(tail) <= Len(path)
  /\ \A k \in 1 .. Len(tail) : tail[k] = path[Len(path) - Len(tail) + k]

\* What extending a path by an entry of the log does.
LEMMA Extends ==
  ASSUME NEW path \in Seq(Logged), NEW q \in DOMAIN log
  PROVE  /\ Extended(path, log[q]) \in Seq(Logged)
         /\ log[q].kind = "leaf" => Extended(path, log[q]) = path
         /\ log[q].kind # "leaf" =>
              /\ Len(Extended(path, log[q])) = Len(path) + 1
              /\ Extended(path, log[q])[Len(path) + 1] = log[q]
              /\ \A k \in 1 .. Len(path) : Extended(path, log[q])[k] = path[k]
              /\ IdsIn(Extended(path, log[q])) = IdsIn(path) \cup {log[q].id}
<1>. DEFINE entry == log[q]
<1>0. entry \in Logged
  BY DEF Logged
<1>1. CASE log[q].kind = "leaf"
  BY <1>1 DEF Extended, IsNoMarker
<1>2. CASE log[q].kind # "leaf"
  <2>. DEFINE e == Append(path, entry)
  <2>1. Extended(path, log[q]) = e
    BY <1>2 DEF Extended, IsNoMarker
  <2>. HIDE DEF entry
  <2>2. /\ e \in Seq(Logged)
        /\ Len(e) = Len(path) + 1
        /\ e[Len(path) + 1] = entry
        /\ \A k \in 1 .. Len(path) : e[k] = path[k]
    BY <1>0, AppendProperties
  <2>3. DOMAIN path = 1 .. Len(path) /\ Len(path) \in Nat /\ DOMAIN e = 1 .. Len(e)
    BY <2>2
  <2>. HIDE DEF e
  <2>4. IdsIn(e) = IdsIn(path) \cup {entry.id}
    BY <2>2, <2>3 DEF IdsIn
  <2>. QED
    BY <1>2, <2>1, <2>2, <2>4 DEF entry
<1>. QED
  BY <1>1, <1>2

\* The whole path of a place is made of entries up to it, each once.
LEMMA WholeIsPath ==
  ASSUME TreeInv, NEW p \in 0 .. Len(log)
  PROVE  Within(Whole[p], p) /\ Distinct(Whole[p])
<1>. DEFINE n == Len(log)
            up == [q \in 1 .. n |-> Up(q)]
            Good == {q \in 0 .. n : Within(Whole[q], q) /\ Distinct(Whole[q])}
<1>1. n \in Nat /\ DOMAIN log = 1 .. n
  BY LogIsFinite
<1>2. \A q \in 1 .. n : up[q] = Up(q) /\ up[q] \in 0 .. q - 1
  BY <1>1, Positions
<1>3. 0 \in Good
  BY <1>1, WholeIs DEF Within, Distinct
<1>4. ASSUME NEW q \in 1 .. n, up[q] \in Good PROVE q \in Good
  <2>. DEFINE above == Whole[Up(q)]
  <2>1. Whole[q] = Extended(above, log[q])
    BY <1>1, WholeIs
  <2>2. above \in Seq(Logged) /\ q \in DOMAIN log
    BY <1>1, <1>2, WholeIs
  <2>3. Within(above, Up(q)) /\ Distinct(above) /\ Up(q) \in 0 .. q - 1
    BY <1>1, <1>2, <1>4
  <2>. HIDE DEF above
  <2>4. CASE log[q].kind = "leaf"
    <3>1. Whole[q] = above
      BY <2>1, <2>2, <2>4, Extends
    <3>. QED
      BY <1>1, <2>3, <3>1 DEF Within
  <2>5. CASE log[q].kind # "leaf"
    <3>0. /\ Len(Whole[q]) = Len(above) + 1
          /\ Whole[q][Len(above) + 1] = log[q]
          /\ \A k \in 1 .. Len(above) : Whole[q][k] = above[k]
      <4>1. /\ Len(Extended(above, log[q])) = Len(above) + 1
            /\ Extended(above, log[q])[Len(above) + 1] = log[q]
            /\ \A k \in 1 .. Len(above) : Extended(above, log[q])[k] = above[k]
        BY <2>2, <2>5, Extends
      <4>. QED
        BY <2>1, <4>1
    <3>6. Whole[q] \in Seq(Logged)
      BY <1>1, WholeIs
    <3>1. /\ DOMAIN Whole[q] = 1 .. Len(above) + 1
          /\ Whole[q][Len(above) + 1] = log[q]
          /\ \A k \in 1 .. Len(above) : Whole[q][k] = above[k]
      BY <3>0, <3>6
    <3>2. DOMAIN above = 1 .. Len(above) /\ Len(above) \in Nat
      BY <2>2
    <3>3. ASSUME NEW k \in 1 .. Len(above)
          PROVE  \E j \in 1 .. q - 1 : Whole[q][k] = log[j]
      <4>1. PICK j \in 1 .. Up(q) : above[k] = log[j]
        BY <2>3, <3>2 DEF Within
      <4>2. j \in 1 .. q - 1
        BY <1>1, <2>3, <4>1
      <4>. QED
        BY <3>1, <4>1, <4>2
    <3>4. Within(Whole[q], q)
      <4>1. ASSUME NEW k \in DOMAIN Whole[q] PROVE \E j \in 1 .. q : Whole[q][k] = log[j]
        <5>1. CASE k = Len(above) + 1
          BY <3>1, <5>1
        <5>2. CASE k \in 1 .. Len(above)
          BY <3>3, <5>2
        <5>. QED
          BY <3>1, <3>2, <5>1, <5>2
      <4>. QED
        BY <4>1 DEF Within
    <3>5. \A k \in 1 .. Len(above) : Whole[q][k].id # log[q].id
      <4>1. \A j \in 1 .. q - 1 : log[j].id # log[q].id
        BY <1>1, <2>2, <2>3 DEF TreeInv, Rooted
      <4>. QED
        BY <3>3, <4>1
    <3>7. Distinct(Whole[q])
      <4>1. ASSUME NEW j \in 1 .. Len(above), NEW k \in 1 .. Len(above),
                   Whole[q][j].id = Whole[q][k].id
            PROVE  j = k
        BY <2>3, <3>1, <3>2, <4>1 DEF Distinct
      <4>. QED
        BY <3>1, <3>2, <3>5, <4>1 DEF Distinct
    <3>. QED
      BY <1>1, <3>4, <3>7
  <2>. QED
    BY <2>4, <2>5
<1>5. 0 .. n \subseteq Good
  <2>. HIDE DEF n, up, Good
  <2>. QED
    BY <1>1, <1>2, <1>3, <1>4, Climb
<1>. QED
  BY <1>5

\* What is cut of a path is its end.
LEMMA CutIsTail ==
  ASSUME TreeInv, RefsTyped, NEW p \in 0 .. Len(log), NEW stop \in Stops
  PROVE  TailOf(Cut[p][stop], Whole[p])
<1>. DEFINE n == Len(log)
            up == [q \in 1 .. n |-> Up(q)]
            Good == {q \in 0 .. n : \A s \in Stops : TailOf(Cut[q][s], Whole[q])}
<1>1. n \in Nat /\ DOMAIN log = 1 .. n
  BY LogIsFinite
<1>2. \A q \in 1 .. n : up[q] = Up(q) /\ up[q] \in 0 .. q - 1
  BY <1>1, Positions
<1>3. 0 \in Good
  <2>1. Whole[0] = <<>> /\ \A s \in Stops : Cut[0][s] = <<>>
    BY WholeIs, CutIs
  <2>2. <<>> \in Seq(Logged) /\ TailOf(<<>>, <<>>)
    BY DEF TailOf
  <2>. QED
    BY <1>1, <2>1, <2>2
<1>4. ASSUME NEW q \in 1 .. n, up[q] \in Good PROVE q \in Good
  <2>. DEFINE above == Whole[Up(q)]
  <2>1. Whole[q] = Extended(above, log[q])
    BY <1>1, WholeIs
  <2>0. q \in DOMAIN log /\ Up(q) \in 0 .. Len(log)
    BY <1>1, <1>2
  <2>2. above \in Seq(Logged) /\ log[q] \in Logged /\ q \in DOMAIN log
    BY <2>0, WholeIs DEF Logged
  <2>. HIDE DEF above
  <2>3. ASSUME NEW tail \in Seq(Logged), TailOf(tail, above)
        PROVE  TailOf(Extended(tail, log[q]), Whole[q])
    <3>1. CASE log[q].kind = "leaf"
      BY <2>1, <2>2, <2>3, <3>1, Extends
    <3>2. CASE log[q].kind # "leaf"
      <4>. DEFINE t == Extended(tail, log[q])
      <4>1. /\ Len(Whole[q]) = Len(above) + 1
            /\ Whole[q][Len(above) + 1] = log[q]
            /\ \A k \in 1 .. Len(above) : Whole[q][k] = above[k]
        <5>1. /\ Len(Extended(above, log[q])) = Len(above) + 1
              /\ Extended(above, log[q])[Len(above) + 1] = log[q]
              /\ \A k \in 1 .. Len(above) : Extended(above, log[q])[k] = above[k]
          BY <2>2, <3>2, Extends
        <5>. QED
          BY <2>1, <5>1
      <4>2. /\ Len(t) = Len(tail) + 1
            /\ t[Len(tail) + 1] = log[q]
            /\ \A k \in 1 .. Len(tail) : t[k] = tail[k]
        BY <2>2, <3>2, Extends
      <4>3. Len(above) \in Nat /\ Len(tail) \in Nat
        BY <2>2
      <4>. HIDE DEF t
      <4>4. ASSUME NEW k \in 1 .. Len(t)
            PROVE  t[k] = Whole[q][Len(Whole[q]) - Len(t) + k]
        <5>1. Len(Whole[q]) - Len(t) + k = Len(above) - Len(tail) + k
          BY <4>1, <4>2, <4>3
        <5>2. CASE k = Len(tail) + 1
          BY <4>1, <4>2, <4>3, <5>1, <5>2
        <5>3. CASE k \in 1 .. Len(tail)
          <6>1. Len(above) - Len(tail) + k \in 1 .. Len(above)
            BY <2>3, <4>3, <5>3 DEF TailOf
          <6>. QED
            BY <2>3, <4>1, <4>2, <5>1, <5>3, <6>1 DEF TailOf
        <5>. QED
          BY <4>2, <4>3, <5>2, <5>3
      <4>5. Len(t) <= Len(Whole[q])
        BY <2>3, <4>1, <4>2, <4>3 DEF TailOf
      <4>. QED
        BY <4>4, <4>5 DEF TailOf, t
    <3>. QED
      BY <3>1, <3>2
  <2>4. ASSUME NEW s \in Stops PROVE TailOf(Cut[q][s], Whole[q])
    <3>1. CASE Ends(log[q], s)
      <4>1. <<>> \in Seq(Logged) /\ TailOf(<<>>, above)
        BY <2>2 DEF TailOf
      <4>. QED
        BY <2>2, <2>3, <3>1, <4>1, CutIs
    <3>2. CASE ~Ends(log[q], s)
      <4>1. StopAfter(log[q], s) \in Stops
        BY <2>2, CutIs
      <4>2. TailOf(Cut[Up(q)][StopAfter(log[q], s)], above)
        BY <1>2, <1>4, <4>1 DEF above
      <4>3. Cut[Up(q)][StopAfter(log[q], s)] \in Seq(Logged)
        <5>1. Up(q) \in 0 .. Len(log)
          BY <1>1, <1>2
        <5>. QED
          BY <5>1, <4>1, CutIs
      <4>. QED
        BY <2>2, <2>3, <3>2, <4>2, <4>3, CutIs
    <3>. QED
      BY <3>1, <3>2
  <2>. QED
    BY <1>1, <2>4
<1>5. 0 .. n \subseteq Good
  <2>. HIDE DEF n, up, Good
  <2>. QED
    BY <1>1, <1>2, <1>3, <1>4, Climb
<1>. QED
  BY <1>5

\* A set of places has a last one.
LEMMA Greatest ==
  ASSUME NEW n \in Nat, NEW S \in SUBSET (1 .. n), S # {}
  PROVE  \E k \in S : \A m \in S : m <= k
<1>. DEFINE Gaps == {n - k : k \in S}
<1>1. Gaps \in SUBSET Nat /\ Gaps # {}
  <2>1. \A k \in 1 .. n : n - k \in Nat
    OBVIOUS
  <2>. QED
    BY <2>1
<1>2. PICK g \in Gaps : \A m \in Gaps : g <= m
  BY <1>1, Least
<1>3. PICK k \in S : g = n - k
  BY <1>2
<1>4. ASSUME NEW m \in S PROVE m <= k
  <2>1. n - m \in Gaps
    OBVIOUS
  <2>. QED
    BY <1>2, <1>3, <2>1
<1>. QED
  BY <1>4

\* A walk shows entries of the log that lie at its place or before.
LEMMA CutWithin ==
  ASSUME TreeInv, RefsTyped, NEW p \in 0 .. Len(log), NEW stop \in Stops
  PROVE  /\ Cut[p][stop] \in Seq(Logged)
         /\ Within(Cut[p][stop], p)
<1>1. Cut[p][stop] \in Seq(Logged) /\ Whole[p] \in Seq(Logged)
  BY CutIs, WholeIs
<1>2. TailOf(Cut[p][stop], Whole[p]) /\ Within(Whole[p], p)
  BY CutIsTail, WholeIsPath
<1>. DEFINE t == Cut[p][stop]
            w == Whole[p]
<1>3. ASSUME NEW k \in DOMAIN t PROVE \E j \in 1 .. p : t[k] = log[j]
  <2>. HIDE DEF t, w
  <2>1. t \in Seq(Logged) /\ w \in Seq(Logged) /\ TailOf(t, w)
    BY <1>1, <1>2 DEF t, w
  <2>2. k \in 1 .. Len(t) /\ Len(w) - Len(t) + k \in DOMAIN w
    BY <2>1 DEF TailOf
  <2>3. t[k] = w[Len(w) - Len(t) + k]
    BY <2>1, <2>2 DEF TailOf
  <2>. QED
    BY <1>2, <2>2, <2>3 DEF Within, w
<1>. QED
  BY <1>1, <1>3 DEF Within

\* An entry that some walk shows is shown by the walk that stops there.
LEMMA CutShows ==
  ASSUME TreeInv, RefsTyped, NEW p \in 0 .. Len(log), NEW stop \in Stops,
         NEW id \in Stops, id \in IdsIn(Cut[p][stop])
  PROVE  id \in IdsIn(Cut[p][id])
<1>. DEFINE n == Len(log)
            up == [q \in 1 .. n |-> Up(q)]
            Good == {q \in 0 .. n : \A s \in Stops, r \in Stops :
                       r \in IdsIn(Cut[q][s]) => r \in IdsIn(Cut[q][r])}
<1>1. n \in Nat /\ DOMAIN log = 1 .. n
  BY LogIsFinite
<1>2. \A q \in 1 .. n : up[q] = Up(q) /\ up[q] \in 0 .. q - 1
  BY <1>1, Positions
<1>0. IdsIn(<<>>) = {}
  BY DEF IdsIn
<1>3. 0 \in Good
  <2>1. \A s \in Stops : Cut[0][s] = <<>>
    BY CutIs
  <2>. QED
    BY <1>0, <1>1, <2>1
<1>4. ASSUME NEW q \in 1 .. n, up[q] \in Good PROVE q \in Good
  <2>1. q \in DOMAIN log /\ Up(q) \in 0 .. Len(log) /\ Up(q) \in 0 .. q - 1
    BY <1>1, <1>2
  <2>2. \A s \in Stops : Cut[Up(q)][s] \in Seq(Logged) /\ Within(Cut[Up(q)][s], Up(q))
    BY <2>1, CutWithin
  <2>3. ASSUME NEW s \in Stops PROVE log[q].id \notin IdsIn(Cut[Up(q)][s])
    <3>1. ASSUME NEW k \in DOMAIN Cut[Up(q)][s], Cut[Up(q)][s][k].id = log[q].id
          PROVE  FALSE
      <4>1. PICK j \in 1 .. Up(q) : Cut[Up(q)][s][k] = log[j]
        BY <2>2, <3>1 DEF Within
      <4>2. j \in DOMAIN log /\ j # q
        BY <1>1, <2>1, <4>1
      <4>. QED
        BY <2>1, <3>1, <4>1, <4>2 DEF TreeInv, Rooted
    <3>. QED
      BY <3>1 DEF IdsIn
  <2>4. \A path \in Seq(Logged) :
          /\ log[q].kind = "leaf" => IdsIn(Extended(path, log[q])) = IdsIn(path)
          /\ log[q].kind # "leaf" =>
               IdsIn(Extended(path, log[q])) = IdsIn(path) \cup {log[q].id}
    BY <2>1, Extends
  <2>5. <<>> \in Seq(Logged)
    OBVIOUS
  <2>6. ASSUME NEW s \in Stops, NEW r \in Stops, r \in IdsIn(Cut[q][s])
        PROVE  r \in IdsIn(Cut[q][r])
    <3>1. StopAfter(log[q], s) \in Stops /\ StopAfter(log[q], r) \in Stops
      BY <2>1, CutIs
    <3>2. \/ /\ Ends(log[q], s)
             /\ Cut[q][s] = Extended(<<>>, log[q])
          \/ /\ ~Ends(log[q], s)
             /\ Cut[q][s] = Extended(Cut[Up(q)][StopAfter(log[q], s)], log[q])
      BY <2>1, CutIs
    <3>3. CASE r = log[q].id
      <4>1. log[q].kind # "leaf"
        BY <1>0, <2>2, <2>3, <2>4, <2>5, <2>6, <3>1, <3>2, <3>3
      <4>2. Cut[q][r] = Extended(<<>>, log[q])
        BY <2>1, <3>3, CutIs DEF Ends
      <4>. QED
        BY <2>4, <2>5, <3>3, <4>1, <4>2
    <3>4. CASE r # log[q].id
      <4>1. ~Ends(log[q], s) /\ r \in IdsIn(Cut[Up(q)][StopAfter(log[q], s)])
        BY <1>0, <2>2, <2>4, <2>5, <2>6, <3>1, <3>2, <3>4
      <4>2. ~Ends(log[q], r)
        BY <3>4, <4>1 DEF Ends
      <4>3. Cut[q][r] = Extended(Cut[Up(q)][StopAfter(log[q], r)], log[q])
        BY <2>1, <4>2, CutIs
      <4>4. r \in IdsIn(Cut[Up(q)][StopAfter(log[q], r)])
        <5>1. CASE log[q].kind = "compaction"
          BY <4>1, <5>1 DEF StopAfter
        <5>2. CASE log[q].kind # "compaction"
          <6>1. StopAfter(log[q], r) = r /\ StopAfter(log[q], s) = s
            BY <5>2 DEF StopAfter
          <6>2. up[q] \in Good /\ up[q] = Up(q)
            BY <1>2, <1>4
          <6>. QED
            BY <4>1, <6>1, <6>2
        <5>. QED
          BY <5>1, <5>2
      <4>. QED
        BY <2>2, <2>4, <3>1, <4>3, <4>4
    <3>. QED
      BY <3>3, <3>4
  <2>. QED
    BY <1>1, <2>6
<1>5. 0 .. n \subseteq Good
  <2>. HIDE DEF n, up, Good
  <2>. QED
    BY <1>1, <1>2, <1>3, <1>4, Climb
<1>. QED
  BY <1>5

-----------------------------------------------------------------------------
\* The last compaction of a path, where its context begins.
IsPoint(entry) == entry.kind \in {"compaction", "tailCompaction"}
IsLastPoint(path, l) ==
  /\ l \in DOMAIN path /\ IsPoint(path[l])
  /\ \A m \in DOMAIN path : m > l => ~IsPoint(path[m])

\* The context of a path with a compaction: the last one, what it kept, and what
\* came after.
LEMMA ContextIs ==
  ASSUME NEW S, NEW path \in Seq(S), Distinct(path), NEW l, IsLastPoint(path, l)
  PROVE  /\ (\A k \in 1 .. l - 1 :
               ~(path[l].kind = "compaction" /\ path[k].id = path[l].ref)) =>
              ContextEntries(path) = <<path[l]>> \o SubSeq(path, l + 1, Len(path))
         /\ \A k \in 1 .. l - 1 :
              path[l].kind = "compaction" /\ path[k].id = path[l].ref =>
                ContextEntries(path) =
                  <<path[l]>> \o SubSeq(path, k, l - 1) \o SubSeq(path, l + 1, Len(path))
<1>. DEFINE Points == {k \in DOMAIN path : path[k].kind \in {"compaction", "tailCompaction"}}
            last == CHOOSE k \in Points : \A m \in Points : m <= k
            Kept == {k \in 1 .. last - 1 :
                 /\ path[last].kind = "compaction"
                 /\ path[k].id = path[last].ref}
            after == SubSeq(path, last + 1, Len(path))
            first == CHOOSE k \in Kept : TRUE
<1>1. l \in Points /\ \A m \in Points : m <= l
  BY DEF IsLastPoint, IsPoint
<1>2. last = l
  <2>1. last \in Points /\ \A m \in Points : m <= last
    BY <1>1
  <2>2. last <= l /\ l <= last
    BY <1>1, <2>1
  <2>3. last \in Int /\ l \in Int
    BY <1>1, <2>1
  <2>. HIDE DEF last
  <2>. QED
    BY <2>2, <2>3
<1>. HIDE DEF last
<1>3. ContextEntries(path) =
        IF Points = {} THEN path
        ELSE IF Kept = {} THEN <<path[last]>> \o after
        ELSE <<path[last]>> \o SubSeq(path, first, last - 1) \o after
  BY DEF ContextEntries, last
<1>4. Points # {}
  BY <1>1
<1>5. ASSUME \A k \in 1 .. l - 1 :
               ~(path[l].kind = "compaction" /\ path[k].id = path[l].ref)
      PROVE  ContextEntries(path) = <<path[l]>> \o SubSeq(path, l + 1, Len(path))
  <2>1. Kept = {}
    BY <1>2, <1>5
  <2>. QED
    BY <1>2, <1>3, <1>4, <2>1
<1>6. ASSUME NEW k \in 1 .. l - 1, path[l].kind = "compaction", path[k].id = path[l].ref
      PROVE  ContextEntries(path) =
                  <<path[l]>> \o SubSeq(path, k, l - 1) \o SubSeq(path, l + 1, Len(path))
  <2>1. k \in Kept
    BY <1>2, <1>6
  <2>2. \A m \in Kept : m = k
    <3>1. \A m \in 1 .. l - 1 : m \in DOMAIN path
      BY <1>1
    <3>. QED
      BY <1>2, <1>6, <3>1 DEF Distinct
  <2>3. first = k
    BY <2>1, <2>2
  <2>4. Kept # {}
    BY <2>1
  <2>. HIDE DEF first, Kept, Points
  <2>. QED
    BY <1>2, <1>3, <1>4, <2>3, <2>4
<1>. QED
  BY <1>5, <1>6

\* A stretch of the tail is a stretch of the path.
LEMMA TailSub ==
  ASSUME NEW S, NEW path \in Seq(S), NEW tail \in Seq(S), TailOf(tail, path),
         NEW a \in Nat \ {0}, NEW b \in 0 .. Len(tail)
  PROVE  SubSeq(tail, a, b)
           = SubSeq(path, a + (Len(path) - Len(tail)), b + (Len(path) - Len(tail)))
<1>. DEFINE d == Len(path) - Len(tail)
            s == SubSeq(tail, a, b)
            t == SubSeq(path, a + d, b + d)
<1>1. Len(tail) \in Nat /\ Len(path) \in Nat /\ d \in Nat
  BY DEF TailOf
<1>2. CASE a > b
  <2>1. s = <<>> /\ t = <<>>
    <3>. HIDE DEF d
    <3>. QED
      BY <1>1, <1>2, SubSeqEmpty
  <2>. QED
    BY <2>1
<1>3. CASE a <= b
  <2>1. \A i \in a .. b : tail[i] \in S
    BY <1>1
  <2>2. \A i \in a + d .. b + d : path[i] \in S
    BY <1>1
  <2>3. a + d \in Int /\ b + d \in Int /\ a \in Int /\ b \in Int
    BY <1>1
  <2>4. /\ s \in Seq(S)
        /\ Len(s) = b - a + 1
        /\ \A i \in 1 .. b - a + 1 : s[i] = tail[a + i - 1]
    <3>1. /\ s \in Seq(S)
          /\ Len(s) = IF a <= b THEN b - a + 1 ELSE 0
          /\ \A i \in 1 .. b - a + 1 : s[i] = tail[a + i - 1]
      BY <2>1, <2>3, SubSeqProperties
    <3>. QED
      BY <1>3, <3>1
  <2>5. /\ t \in Seq(S)
        /\ Len(t) = b - a + 1
        /\ \A i \in 1 .. b - a + 1 : t[i] = path[a + d + i - 1]
    <3>. HIDE DEF d
    <3>1. /\ t \in Seq(S)
          /\ Len(t) = IF a + d <= b + d THEN (b + d) - (a + d) + 1 ELSE 0
          /\ \A i \in 1 .. (b + d) - (a + d) + 1 : t[i] = path[(a + d) + i - 1]
      BY <2>2, <2>3, SubSeqProperties
    <3>2. (b + d) - (a + d) + 1 = b - a + 1 /\ a + d <= b + d
      BY <1>1, <1>3
    <3>. HIDE DEF t
    <3>. QED
      BY <3>1, <3>2
  <2>6. ASSUME NEW i \in 1 .. b - a + 1 PROVE tail[a + i - 1] = path[a + d + i - 1]
    <3>1. a + i - 1 \in 1 .. Len(tail)
      BY <1>1
    <3>2. d + (a + i - 1) = a + d + i - 1
      BY <1>1
    <3>. QED
      BY <3>1, <3>2 DEF TailOf
  <2>. HIDE DEF s, t
  <2>7. \A i \in 1 .. Len(s) : s[i] = t[i]
    BY <2>4, <2>5, <2>6
  <2>8. Len(s) = Len(t)
    BY <2>4, <2>5
  <2>9. s = t
    BY <2>4, <2>5, <2>7, <2>8, SeqEqual
  <2>. QED
    BY <2>9 DEF s, t
<1>. QED
  BY <1>1, <1>2, <1>3

\* The tail of a path is enough for the context: with no compaction it is all of
\* it, and else the last compaction and what that kept are in it.
Covers(tail, path) ==
  /\ TailOf(tail, path)
  /\ (\A k \in DOMAIN path : ~IsPoint(path[k])) => Len(tail) = Len(path)
  /\ \A l \in DOMAIN path : IsLastPoint(path, l) =>
       /\ l > Len(path) - Len(tail)
       /\ path[l].kind = "compaction" =>
            \A k \in 1 .. l - 1 :
              path[k].id = path[l].ref => k > Len(path) - Len(tail)

\* A tail that covers its path has the same context.
LEMMA ContextOfTail ==
  ASSUME NEW S, NEW path \in Seq(S), NEW tail \in Seq(S), Distinct(path),
         Covers(tail, path)
  PROVE  ContextEntries(tail) = ContextEntries(path)
<1>. DEFINE d == Len(path) - Len(tail)
<1>1. /\ Len(tail) \in Nat /\ Len(path) \in Nat /\ d \in Nat
      /\ DOMAIN tail = 1 .. Len(tail) /\ DOMAIN path = 1 .. Len(path)
      /\ TailOf(tail, path)
  BY DEF Covers, TailOf
<1>2. \A k \in 1 .. Len(tail) : tail[k] = path[d + k]
  BY <1>1 DEF TailOf
<1>3. CASE \A k \in DOMAIN path : ~IsPoint(path[k])
  <2>1. Len(tail) = Len(path) /\ d = 0
    <3>1. Len(tail) = Len(path)
      BY <1>3 DEF Covers
    <3>. QED
      BY <1>1, <3>1
  <2>2. \A k \in 1 .. Len(tail) : tail[k] = path[k]
    <3>. HIDE DEF d
    <3>. QED
      BY <1>1, <1>2, <2>1
  <2>3. tail = path
    BY <2>1, <2>2, SeqEqual
  <2>. QED
    BY <2>3
<1>4. CASE \E k \in DOMAIN path : IsPoint(path[k])
  <2>. DEFINE P == {k \in 1 .. Len(path) : IsPoint(path[k])}
  <2>1. PICK l \in P : \A m \in P : m <= l
    <3>1. P # {} /\ P \in SUBSET (1 .. Len(path))
      BY <1>1, <1>4
    <3>. HIDE DEF P
    <3>. QED
      BY <1>1, <3>1, Greatest
  <2>2. IsLastPoint(path, l) /\ l \in 1 .. Len(path)
    BY <1>1, <2>1 DEF IsLastPoint
  <2>3. /\ l > d
        /\ path[l].kind = "compaction" =>
             \A k \in 1 .. l - 1 : path[k].id = path[l].ref => k > d
    BY <1>1, <2>2 DEF Covers
  <2>. HIDE DEF P, d
  <2>. DEFINE e == l - d
  <2>4. /\ e \in 1 .. Len(tail) /\ l = d + e /\ Len(path) = d + Len(tail)
    BY <1>1, <2>2, <2>3 DEF d
  <2>5. tail[e] = path[l]
    BY <1>2, <2>4
  <2>. HIDE DEF e
  <2>6. IsLastPoint(tail, e)
    <3>1. ASSUME NEW m \in 1 .. Len(tail), m > e PROVE ~IsPoint(tail[m])
      <4>1. d + m \in 1 .. Len(path) /\ d + m > l
        BY <1>1, <2>4, <3>1
      <4>2. tail[m] = path[d + m]
        BY <1>2
      <4>. QED
        BY <1>1, <2>2, <4>1, <4>2 DEF IsLastPoint
    <3>. QED
      BY <1>1, <2>2, <2>4, <2>5, <3>1 DEF IsLastPoint
  <2>7. Distinct(tail)
    <3>1. ASSUME NEW j \in 1 .. Len(tail), NEW k \in 1 .. Len(tail), tail[j].id = tail[k].id
          PROVE  j = k
      <4>1. path[d + j].id = path[d + k].id /\ d + j \in DOMAIN path /\ d + k \in DOMAIN path
        BY <1>1, <1>2, <2>4, <3>1
      <4>2. d + j = d + k
        BY <4>1 DEF Distinct
      <4>. QED
        BY <1>1, <4>2
    <3>. QED
      BY <1>1, <3>1 DEF Distinct
  <2>8. SubSeq(tail, e + 1, Len(tail)) = SubSeq(path, l + 1, Len(path))
    <3>1. e + 1 \in Nat \ {0} /\ Len(tail) \in 0 .. Len(tail)
      BY <1>1, <2>4
    <3>2. SubSeq(tail, e + 1, Len(tail))
            = SubSeq(path, (e + 1) + (Len(path) - Len(tail)), Len(tail) + (Len(path) - Len(tail)))
      BY <1>1, <3>1, TailSub
    <3>3. /\ (e + 1) + (Len(path) - Len(tail)) = l + 1
          /\ Len(tail) + (Len(path) - Len(tail)) = Len(path)
      BY <1>1, <2>4
    <3>. QED
      BY <3>2, <3>3
  <2>9. CASE \A k \in 1 .. l - 1 :
               ~(path[l].kind = "compaction" /\ path[k].id = path[l].ref)
    <3>1. \A k \in 1 .. e - 1 :
            ~(tail[e].kind = "compaction" /\ tail[k].id = tail[e].ref)
      <4>1. \A k \in 1 .. e - 1 : d + k \in 1 .. l - 1 /\ tail[k] = path[d + k]
        BY <1>1, <1>2, <2>4
      <4>. QED
        BY <2>5, <2>9, <4>1
    <3>2. ContextEntries(path) = <<path[l]>> \o SubSeq(path, l + 1, Len(path))
      BY <2>2, <2>9, ContextIs
    <3>3. ContextEntries(tail) = <<tail[e]>> \o SubSeq(tail, e + 1, Len(tail))
      BY <2>6, <2>7, <3>1, ContextIs
    <3>. QED
      BY <2>5, <2>8, <3>2, <3>3
  <2>10. ASSUME NEW k \in 1 .. l - 1, path[l].kind = "compaction", path[k].id = path[l].ref
         PROVE  ContextEntries(tail) = ContextEntries(path)
    <3>1. k > d
      BY <2>3, <2>10
    <3>. DEFINE j == k - d
    <3>2. j \in 1 .. e - 1 /\ k = d + j
      BY <1>1, <2>4, <3>1
    <3>. HIDE DEF j
    <3>3. tail[j] = path[k]
      BY <1>1, <1>2, <2>4, <3>2
    <3>4. SubSeq(tail, j, e - 1) = SubSeq(path, k, l - 1)
      <4>1. j \in Nat \ {0} /\ e - 1 \in 0 .. Len(tail)
        BY <1>1, <2>4, <3>2
      <4>2. SubSeq(tail, j, e - 1)
              = SubSeq(path, j + (Len(path) - Len(tail)), (e - 1) + (Len(path) - Len(tail)))
        BY <1>1, <4>1, TailSub
      <4>3. j + (Len(path) - Len(tail)) = k /\ (e - 1) + (Len(path) - Len(tail)) = l - 1
        BY <1>1, <2>4, <3>2
      <4>. QED
        BY <4>2, <4>3
    <3>5. ContextEntries(path) =
            <<path[l]>> \o SubSeq(path, k, l - 1) \o SubSeq(path, l + 1, Len(path))
      BY <2>2, <2>10, ContextIs
    <3>6. ContextEntries(tail) =
            <<tail[e]>> \o SubSeq(tail, j, e - 1) \o SubSeq(tail, e + 1, Len(tail))
      BY <2>5, <2>6, <2>7, <2>10, <3>2, <3>3, ContextIs
    <3>. QED
      BY <2>5, <2>8, <3>4, <3>5, <3>6
  <2>. QED
    BY <2>9, <2>10
<1>. QED
  BY <1>3, <1>4

\* Each compaction keeps nothing, or an entry of the branch it hangs on.
KeptShown ==
  \A p \in DOMAIN log : log[p].kind = "compaction" =>
    log[p].ref \in {0} \cup IdsIn(Cut[Up(p)][0])

\* The compactions of a path do so.
KeptOn(path) == \A k \in DOMAIN path : Keeps(path[k])

\* The branch covers the whole path when each compaction on it kept an entry of
\* the branch it was made of.
LEMMA CutCovers ==
  ASSUME TreeInv, RefsTyped, NEW p \in 0 .. Len(log), KeptOn(Whole[p])
  PROVE  Covers(Cut[p][0], Whole[p])
<1>. DEFINE n == Len(log)
            up == [q \in 1 .. n |-> Up(q)]
            Good == {q \in 0 .. n : KeptOn(Whole[q]) => Covers(Cut[q][0], Whole[q])}
<1>0. 0 \in Stops
  BY DEF Stops
<1>1. n \in Nat /\ DOMAIN log = 1 .. n
  BY LogIsFinite
<1>2. \A q \in 1 .. n : up[q] = Up(q) /\ up[q] \in 0 .. q - 1
  BY <1>1, Positions
<1>3. 0 \in Good
  <2>1. Cut[0][0] = <<>> /\ Whole[0] = <<>>
    BY <1>0, CutIs, WholeIs
  <2>2. Covers(<<>>, <<>>)
    BY DEF Covers, TailOf
  <2>. QED
    BY <1>1, <2>1, <2>2
<1>4. ASSUME NEW q \in 1 .. n, up[q] \in Good PROVE q \in Good
  <2>. SUFFICES ASSUME KeptOn(Whole[q]) PROVE Covers(Cut[q][0], Whole[q])
    BY <1>1
  <2>. DEFINE above == Whole[Up(q)]
              w == Whole[q]
              t == Cut[q][0]
              entry == log[q]
  <2>1. q \in DOMAIN log /\ Up(q) \in 0 .. Len(log) /\ q \in 0 .. Len(log)
    BY <1>1, <1>2
  <2>2. /\ above \in Seq(Logged) /\ w \in Seq(Logged) /\ t \in Seq(Logged)
        /\ Cut[Up(q)][0] \in Seq(Logged)
    BY <1>0, <2>1, CutIs, WholeIs
  <2>3. w = Extended(above, entry)
    BY <2>1, WholeIs
  <2>4. TailOf(t, w)
    BY <1>0, <2>1, CutIsTail
  <2>5. Distinct(w) /\ Distinct(above)
    BY <2>1, WholeIsPath
  <2>6. Covers(Cut[Up(q)][0], above)
    <3>1. KeptOn(above)
      <4>1. log[q].kind = "leaf" => w = above
        BY <2>1, <2>2, <2>3, Extends
      <4>2. log[q].kind # "leaf" =>
              /\ Len(w) = Len(above) + 1
              /\ \A k \in 1 .. Len(above) : w[k] = above[k]
        <5>1. log[q].kind # "leaf" =>
                /\ Len(Extended(above, log[q])) = Len(above) + 1
                /\ \A k \in 1 .. Len(above) : Extended(above, log[q])[k] = above[k]
          BY <2>1, <2>2, Extends
        <5>. QED
          BY <2>3, <5>1
      <4>3. /\ Len(above) \in Nat /\ DOMAIN above = 1 .. Len(above)
            /\ Len(w) \in Nat /\ DOMAIN w = 1 .. Len(w)
        BY <2>2
      <4>. HIDE DEF above, w
      <4>4. KeptOn(w)
        BY DEF w
      <4>5. ASSUME NEW k \in DOMAIN above PROVE k \in DOMAIN w /\ w[k] = above[k]
        <5>1. CASE log[q].kind = "leaf"
          BY <4>1, <5>1
        <5>2. CASE log[q].kind # "leaf"
          <6>1. k \in 1 .. Len(above)
            BY <4>3
          <6>2. Len(w) = Len(above) + 1 /\ w[k] = above[k]
            BY <4>2, <5>2, <6>1
          <6>3. Len(above) \in Nat /\ DOMAIN w = 1 .. Len(w)
            BY <4>3
          <6>. QED
            BY <6>1, <6>2, <6>3
        <5>. QED
          BY <5>1, <5>2
      <4>. QED
        BY <4>4, <4>5 DEF KeptOn
    <3>. QED
      BY <1>2, <1>4, <3>1
  <2>7. entry.id # 0
    BY <2>1, Positions
  <2>8. entry.kind # "tailCompaction" => t = Extended(Cut[Up(q)][StopAfter(entry, 0)], entry)
    BY <1>0, <2>1, <2>7, CutIs DEF Ends
  <2>9. StopAfter(entry, 0) \in Stops /\ (entry.kind # "compaction" => StopAfter(entry, 0) = 0)
    BY <1>0, <2>1, CutIs DEF StopAfter
  <2>10. CASE entry.kind = "leaf"
    <3>1. w = above /\ t = Cut[Up(q)][0]
      BY <2>1, <2>2, <2>3, <2>8, <2>9, <2>10, Extends
    <3>. QED
      BY <1>1, <2>6, <3>1
  <2>11. CASE entry.kind # "leaf"
    <3>1. /\ Len(Extended(above, entry)) = Len(above) + 1
          /\ Extended(above, entry)[Len(above) + 1] = entry
          /\ \A k \in 1 .. Len(above) : Extended(above, entry)[k] = above[k]
      BY <2>1, <2>2, <2>11, Extends
    <3>2. /\ Len(w) = Len(above) + 1
          /\ w[Len(above) + 1] = entry
          /\ \A k \in 1 .. Len(above) : w[k] = above[k]
      BY <2>3, <3>1
    <3>. HIDE DEF above, w, t, entry
    <3>3. /\ Len(above) \in Nat /\ DOMAIN above = 1 .. Len(above)
          /\ Len(w) \in Nat /\ DOMAIN w = 1 .. Len(w)
          /\ Len(t) \in Nat
      BY <2>2
    <3>4. CASE ~IsPoint(entry)
      <4>. DEFINE c == Cut[Up(q)][0]
      <4>1. t = Extended(c, entry)
        BY <2>8, <2>9, <3>4 DEF IsPoint
      <4>2. Len(t) = Len(c) + 1 /\ Len(c) \in Nat
        <5>1. Len(Extended(c, log[q])) = Len(c) + 1
          BY <2>1, <2>2, <2>11, Extends DEF entry
        <5>. QED
          BY <2>2, <4>1, <5>1 DEF entry
      <4>. HIDE DEF c
      <4>3. Covers(c, above)
        BY <2>6 DEF c, above
      <4>4. Len(w) - Len(t) = Len(above) - Len(c)
        BY <3>2, <3>3, <4>2
      <4>5. (\A k \in DOMAIN w : ~IsPoint(w[k])) => Len(t) = Len(w)
        <5>1. SUFFICES ASSUME \A k \in DOMAIN w : ~IsPoint(w[k]) PROVE Len(t) = Len(w)
          OBVIOUS
        <5>2. \A k \in DOMAIN above : ~IsPoint(above[k])
          BY <3>2, <3>3, <5>1
        <5>3. Len(c) = Len(above)
          BY <4>3, <5>2 DEF Covers
        <5>. QED
          BY <3>2, <4>2, <5>3
      <4>6. ASSUME NEW l \in DOMAIN w, IsLastPoint(w, l)
            PROVE  /\ l > Len(w) - Len(t)
                   /\ w[l].kind = "compaction" =>
                        \A k \in 1 .. l - 1 : w[k].id = w[l].ref => k > Len(w) - Len(t)
        <5>1. l \in 1 .. Len(above)
          BY <3>2, <3>3, <3>4, <4>6 DEF IsLastPoint
        <5>2. IsLastPoint(above, l)
          BY <3>2, <3>3, <4>6, <5>1 DEF IsLastPoint
        <5>3. /\ l > Len(above) - Len(c)
              /\ above[l].kind = "compaction" =>
                   \A k \in 1 .. l - 1 :
                     above[k].id = above[l].ref => k > Len(above) - Len(c)
          BY <3>3, <4>3, <5>1, <5>2 DEF Covers
        <5>4. w[l] = above[l] /\ \A k \in 1 .. l - 1 : w[k] = above[k]
          BY <3>2, <3>3, <5>1
        <5>. QED
          BY <4>4, <5>3, <5>4
      <4>7. Covers(t, w)
        BY <2>4, <4>5, <4>6 DEF Covers
      <4>. QED
        BY <1>1, <4>7 DEF t, w
    <3>5. CASE IsPoint(entry)
      <4>1. Len(t) > 0
        <5>1. \A path \in Seq(Logged) : Len(Extended(path, log[q])) = Len(path) + 1
          BY <2>1, <2>11, Extends DEF entry
        <5>2. <<>> \in Seq(Logged) /\ Cut[Up(q)][StopAfter(entry, 0)] \in Seq(Logged)
          BY <2>1, <2>9, CutIs
        <5>3. \E path \in Seq(Logged) : t = Extended(path, log[q])
          BY <1>0, <2>1, <5>2, CutIs DEF entry, t
        <5>. QED
          BY <5>1, <5>3
      <4>2. ~(\A k \in DOMAIN w : ~IsPoint(w[k]))
        BY <3>2, <3>3, <3>5
      <4>3. ASSUME NEW l \in DOMAIN w, IsLastPoint(w, l) PROVE l = Len(w)
        BY <3>2, <3>3, <3>5, <4>3 DEF IsLastPoint
      <4>4. ASSUME entry.kind = "compaction", NEW k \in 1 .. Len(w) - 1, w[k].id = entry.ref
            PROVE  k > Len(w) - Len(t)
        <5>. DEFINE c == Cut[Up(q)][entry.ref]
        <5>1. k \in DOMAIN above /\ w[k] = above[k]
          BY <3>2, <3>3
        <5>2. entry.ref # 0
          <6>1. PICK j \in 1 .. Up(q) : above[k] = log[j]
            BY <2>1, <5>1, WholeIsPath DEF Within, above
          <6>2. j \in DOMAIN log
            BY <1>1, <2>1, <6>1
          <6>. QED
            BY <4>4, <5>1, <6>1, <6>2, Positions
        <5>3. entry.ref \in IdsIn(Cut[Up(q)][0]) /\ entry.ref \in Stops
          <6>1. Len(w) \in DOMAIN w /\ w[Len(w)] = entry
            BY <3>2, <3>3
          <6>2. Keeps(entry)
            BY <6>1 DEF KeptOn, w
          <6>3. entry.ref \in {0} \cup IdsIn(Cut[Up(q)][0])
            BY <4>4, <6>2 DEF Keeps, Branch, Up, entry
          <6>. QED
            BY <2>1, <5>2, <6>3 DEF RefsTyped, entry
        <5>4. entry.ref \in IdsIn(c)
          BY <1>0, <2>1, <5>3, CutShows
        <5>5. TailOf(c, above) /\ c \in Seq(Logged)
          BY <2>1, <5>3, CutIsTail, CutIs DEF above
        <5>6. t = Extended(c, entry) /\ Len(t) = Len(c) + 1
          <6>1. t = Extended(c, entry)
            BY <2>8, <4>4 DEF StopAfter
          <6>2. Len(Extended(c, log[q])) = Len(c) + 1
            BY <2>1, <5>5, <2>11, Extends DEF entry
          <6>. QED
            BY <6>1, <6>2 DEF entry
        <5>. HIDE DEF c
        <5>7. PICK i \in DOMAIN c : c[i].id = entry.ref
          BY <5>4 DEF IdsIn
        <5>8. /\ i \in 1 .. Len(c) /\ Len(c) \in Nat
              /\ Len(above) - Len(c) + i \in DOMAIN above
              /\ above[Len(above) - Len(c) + i] = c[i]
          BY <3>3, <5>5, <5>7 DEF TailOf
        <5>9. k = Len(above) - Len(c) + i
          BY <2>5, <4>4, <5>1, <5>7, <5>8 DEF Distinct, above
        <5>. QED
          BY <3>2, <3>3, <5>6, <5>8, <5>9
      <4>5. ASSUME NEW l \in DOMAIN w, IsLastPoint(w, l)
            PROVE  /\ l > Len(w) - Len(t)
                   /\ w[l].kind = "compaction" =>
                        \A k \in 1 .. l - 1 : w[k].id = w[l].ref => k > Len(w) - Len(t)
        <5>1. l = Len(w) /\ w[l] = entry
          BY <3>2, <4>3, <4>5
        <5>2. l > Len(w) - Len(t)
          BY <3>3, <4>1, <5>1
        <5>. QED
          BY <4>4, <5>1, <5>2
      <4>6. Covers(t, w)
        BY <2>4, <4>2, <4>5 DEF Covers
      <4>. QED
        BY <1>1, <4>6 DEF t, w
    <3>. QED
      BY <3>4, <3>5
  <2>. QED
    BY <2>10, <2>11
<1>5. 0 .. n \subseteq Good
  <2>. HIDE DEF n, up, Good
  <2>. QED
    BY <1>1, <1>2, <1>3, <1>4, Climb
<1>. QED
  BY <1>5

\* The entry that says the last of a setting.
LEMMA LatestIs ==
  ASSUME NEW S, NEW path \in Seq(S), NEW kinds
  PROVE  /\ (\A k \in DOMAIN path : path[k].kind \notin kinds) => Latest(path, kinds) = 0
         /\ \A l \in DOMAIN path :
              /\ path[l].kind \in kinds
              /\ \A m \in DOMAIN path : path[m].kind \in kinds => m <= l
              => Latest(path, kinds) = path[l].id
<1>. DEFINE said == {k \in DOMAIN path : path[k].kind \in kinds}
            last == CHOOSE k \in said : \A l \in said : l <= k
<1>1. Latest(path, kinds) = IF said = {} THEN 0 ELSE path[last].id
  BY DEF Latest
<1>2. ASSUME NEW l \in DOMAIN path, path[l].kind \in kinds,
             \A m \in DOMAIN path : path[m].kind \in kinds => m <= l
      PROVE  Latest(path, kinds) = path[l].id
  <2>1. l \in said /\ \A m \in said : m <= l
    BY <1>2
  <2>2. last \in said /\ \A m \in said : m <= last
    BY <2>1
  <2>3. last \in Int /\ l \in Int /\ last <= l /\ l <= last
    BY <2>1, <2>2
  <2>. HIDE DEF last
  <2>4. last = l
    BY <2>3
  <2>. QED
    BY <1>1, <2>1, <2>4
<1>3. ASSUME \A k \in DOMAIN path : path[k].kind \notin kinds
      PROVE  Latest(path, kinds) = 0
  BY <1>1, <1>3
<1>. QED
  BY <1>2, <1>3

\* A context shows entries of its path.
LEMMA ContextWithin ==
  ASSUME NEW S, NEW path \in Seq(S), Distinct(path)
  PROVE  IdsIn(ContextEntries(path)) \subseteq IdsIn(path)
<1>0. Len(path) \in Nat /\ DOMAIN path = 1 .. Len(path)
  OBVIOUS
<1>. DEFINE Shown == {path[k] : k \in DOMAIN path}
<1>1. ASSUME NEW a \in 1 .. Len(path) + 1, NEW b \in 0 .. Len(path)
      PROVE  SubSeq(path, a, b) \in Seq(Shown)
  <2>1. \A i \in a .. b : path[i] \in Shown
    BY <1>0
  <2>. HIDE DEF Shown
  <2>. QED
    BY <2>1, SubSeqProperties
<1>2. ContextEntries(path) \in Seq(Shown)
  <2>1. CASE \A k \in DOMAIN path : ~IsPoint(path[k])
    <3>1. ContextEntries(path) = path
      BY <2>1 DEF ContextEntries, IsPoint
    <3>2. path \in [1 .. Len(path) -> Shown]
      <4>1. path = [k \in 1 .. Len(path) |-> path[k]]
        BY <1>0
      <4>. QED
        BY <1>0, <4>1
    <3>. HIDE DEF Shown
    <3>. QED
      BY <1>0, <3>1, <3>2
  <2>2. CASE \E k \in DOMAIN path : IsPoint(path[k])
    <3>. DEFINE P == {k \in 1 .. Len(path) : IsPoint(path[k])}
    <3>1. PICK l \in P : \A m \in P : m <= l
      <4>1. P # {} /\ P \in SUBSET (1 .. Len(path))
        BY <1>0, <2>2
      <4>. HIDE DEF P
      <4>. QED
        BY <1>0, <4>1, Greatest
    <3>2. IsLastPoint(path, l) /\ l \in 1 .. Len(path)
      BY <1>0, <3>1 DEF IsLastPoint
    <3>. HIDE DEF P
    <3>3. <<path[l]>> \in Seq(Shown) /\ SubSeq(path, l + 1, Len(path)) \in Seq(Shown)
      <4>1. path[l] \in Shown
        BY <1>0, <3>2
      <4>2. SubSeq(path, l + 1, Len(path)) \in Seq(Shown)
        BY <1>0, <1>1, <3>2
      <4>. HIDE DEF Shown
      <4>. QED
        BY <4>1, <4>2
    <3>4. \A k \in 1 .. l - 1 : SubSeq(path, k, l - 1) \in Seq(Shown)
      BY <1>0, <1>1, <3>2
    <3>. HIDE DEF Shown
    <3>5. CASE \A k \in 1 .. l - 1 :
                 ~(path[l].kind = "compaction" /\ path[k].id = path[l].ref)
      <4>1. ContextEntries(path) = <<path[l]>> \o SubSeq(path, l + 1, Len(path))
        BY <3>2, <3>5, ContextIs
      <4>. QED
        BY <3>3, <4>1
    <3>6. ASSUME NEW k \in 1 .. l - 1, path[l].kind = "compaction", path[k].id = path[l].ref
          PROVE  ContextEntries(path) \in Seq(Shown)
      <4>1. ContextEntries(path) =
              <<path[l]>> \o SubSeq(path, k, l - 1) \o SubSeq(path, l + 1, Len(path))
        BY <3>2, <3>6, ContextIs
      <4>. DEFINE first == <<path[l]>>
                  kept == SubSeq(path, k, l - 1)
                  after == SubSeq(path, l + 1, Len(path))
      <4>2. first \in Seq(Shown) /\ kept \in Seq(Shown) /\ after \in Seq(Shown)
        BY <3>3, <3>4
      <4>. HIDE DEF first, kept, after
      <4>3. first \o kept \in Seq(Shown)
        BY <4>2
      <4>4. first \o kept \o after \in Seq(Shown)
        BY <4>2, <4>3
      <4>. QED
        BY <4>1, <4>4 DEF first, kept, after
    <3>. QED
      BY <3>5, <3>6
  <2>. QED
    BY <2>1, <2>2
<1>3. ASSUME NEW k \in DOMAIN ContextEntries(path)
      PROVE  ContextEntries(path)[k] \in Shown
  <2>. HIDE DEF Shown
  <2>. QED
    BY <1>2, <1>3
<1>. QED
  BY <1>3 DEF IdsIn

\* A tail with the same context says the same of each setting, or nothing of one
\* that was chosen before it.
LEMMA SettingsOfTail ==
  ASSUME NEW S, NEW path \in Seq(S), NEW tail \in Seq(S), Distinct(path),
         Distinct(tail), TailOf(tail, path), ContextEntries(tail) = ContextEntries(path)
  PROVE  SettingsKept(tail, path)
<1>. DEFINE d == Len(path) - Len(tail)
<1>1. /\ Len(tail) \in Nat /\ Len(path) \in Nat /\ d \in Nat
      /\ DOMAIN tail = 1 .. Len(tail) /\ DOMAIN path = 1 .. Len(path)
      /\ Len(path) = d + Len(tail)
  BY DEF TailOf
<1>2. \A k \in 1 .. Len(tail) : tail[k] = path[d + k]
  BY <1>1 DEF TailOf
<1>. HIDE DEF d
<1>3. ASSUME NEW kinds \in Settings
      PROVE  /\ Latest(tail, kinds) \in {0, Latest(path, kinds)}
             /\ Latest(path, kinds) \in IdsIn(ContextEntries(path)) =>
                  Latest(tail, kinds) = Latest(path, kinds)
  <2>. DEFINE said(s) == {k \in 1 .. Len(s) : s[k].kind \in kinds}
  <2>1. CASE \A k \in DOMAIN tail : tail[k].kind \notin kinds
    <3>1. Latest(tail, kinds) = 0
      BY <2>1, LatestIs
    <3>2. ASSUME Latest(path, kinds) \in IdsIn(ContextEntries(path)), said(path) # {}
          PROVE  FALSE
      <4>1. PICK j \in DOMAIN tail : tail[j].id = Latest(path, kinds)
        <5>1. IdsIn(ContextEntries(path)) \subseteq IdsIn(tail)
          BY ContextWithin
        <5>2. Latest(path, kinds) \in IdsIn(tail)
          BY <3>2, <5>1
        <5>. QED
          BY <5>2 DEF IdsIn
      <4>2. PICK g \in said(path) : \A m \in said(path) : m <= g
        <5>1. said(path) \in SUBSET (1 .. Len(path))
          OBVIOUS
        <5>. HIDE DEF said
        <5>. QED
          BY <1>1, <3>2, <5>1, Greatest
      <4>3. Latest(path, kinds) = path[g].id
        BY <1>1, <4>2, LatestIs
      <4>4. d + j \in DOMAIN path /\ path[d + j] = tail[j]
        BY <1>1, <1>2, <4>1
      <4>5. g = d + j
        BY <1>1, <4>1, <4>2, <4>3, <4>4 DEF Distinct
      <4>. QED
        BY <2>1, <4>1, <4>2, <4>4, <4>5
    <3>3. said(path) = {} => Latest(path, kinds) = 0
      BY <1>1, LatestIs
    <3>. QED
      BY <3>1, <3>2, <3>3
  <2>2. CASE \E k \in DOMAIN tail : tail[k].kind \in kinds
    <3>1. PICK g \in said(tail) : \A m \in said(tail) : m <= g
      <4>1. said(tail) # {} /\ said(tail) \in SUBSET (1 .. Len(tail))
        BY <1>1, <2>2
      <4>. HIDE DEF said
      <4>. QED
        BY <1>1, <4>1, Greatest
    <3>2. Latest(tail, kinds) = tail[g].id
      BY <1>1, <3>1, LatestIs
    <3>3. d + g \in DOMAIN path /\ path[d + g] = tail[g]
      BY <1>1, <1>2, <3>1
    <3>4. ASSUME NEW m \in DOMAIN path, path[m].kind \in kinds PROVE m <= d + g
      <4>1. CASE m <= d
        BY <1>1, <3>1, <4>1
      <4>2. CASE m > d
        <5>1. m - d \in 1 .. Len(tail) /\ d + (m - d) = m
          BY <1>1, <4>2
        <5>2. tail[m - d] = path[m]
          BY <1>2, <5>1
        <5>3. m - d <= g
          BY <3>1, <3>4, <5>1, <5>2
        <5>. QED
          BY <1>1, <3>1, <5>3
      <4>. QED
        BY <1>1, <4>1, <4>2
    <3>5. Latest(path, kinds) = path[d + g].id
      BY <3>1, <3>3, <3>4, LatestIs
    <3>. QED
      BY <3>2, <3>3, <3>5
  <2>. QED
    BY <2>1, <2>2
<1>. QED
  BY <1>3 DEF SettingsKept

\* So the context of the branch is that of the whole path, and its settings as
\* recent or their defaults.
LEMMA SameContext ==
  ASSUME TreeInv, RefsTyped
  PROVE  ContextSame
<1>. DEFINE p == Position(leaf)
<1>0. SUFFICES ASSUME KeptOn(Whole[p])
               PROVE  /\ ContextEntries(Branch(leaf)) = ContextEntries(Whole[p])
                      /\ SettingsKept(Branch(leaf), Whole[p])
  BY DEF ContextSame, KeptOn
<1>1. Position(leaf) \in 0 .. Len(log)
  BY Positions, LogIsFinite DEF TreeInv, Rooted
<1>2. Cut[p][0] \in Seq(Logged) /\ Whole[p] \in Seq(Logged)
  BY <1>1, CutIs, WholeIs DEF Stops
<1>3. Distinct(Whole[p])
  BY <1>1, WholeIsPath
<1>4. Covers(Cut[p][0], Whole[p])
  BY <1>0, <1>1, CutCovers
<1>5. ContextEntries(Cut[p][0]) = ContextEntries(Whole[p])
  <2>. HIDE DEF p
  <2>. QED
    BY <1>2, <1>3, <1>4, ContextOfTail
<1>6. Distinct(Cut[p][0]) /\ TailOf(Cut[p][0], Whole[p])
  <2>. DEFINE t == Cut[p][0]
              w == Whole[p]
              d == Len(w) - Len(t)
  <2>1. TailOf(t, w)
    BY <1>4 DEF Covers
  <2>2. /\ t \in Seq(Logged) /\ w \in Seq(Logged) /\ Distinct(w)
    BY <1>2, <1>3
  <2>. HIDE DEF p, t, w
  <2>3. /\ Len(t) \in Nat /\ Len(w) \in Nat /\ d \in Nat /\ Len(w) = d + Len(t)
        /\ DOMAIN t = 1 .. Len(t) /\ DOMAIN w = 1 .. Len(w)
    BY <2>1, <2>2 DEF TailOf
  <2>4. \A k \in 1 .. Len(t) : t[k] = w[d + k]
    BY <2>1, <2>3 DEF TailOf
  <2>. HIDE DEF d
  <2>5. ASSUME NEW j \in 1 .. Len(t), NEW k \in 1 .. Len(t), t[j].id = t[k].id
        PROVE  j = k
    <3>1. w[d + j].id = w[d + k].id /\ d + j \in DOMAIN w /\ d + k \in DOMAIN w
      BY <2>3, <2>4, <2>5
    <3>2. d + j = d + k
      BY <2>2, <3>1 DEF Distinct
    <3>. QED
      BY <2>3, <3>2
  <2>6. Distinct(t)
    BY <2>3, <2>5 DEF Distinct
  <2>. QED
    BY <2>1, <2>6 DEF t, w
<1>7. SettingsKept(Cut[p][0], Whole[p])
  <2>. HIDE DEF p
  <2>. QED
    BY <1>2, <1>3, <1>5, <1>6, SettingsOfTail
<1>. QED
  BY <1>5, <1>7 DEF Branch

\* What the walk of branch does, in one formula that can be said of the next state.
CutFacts ==
  /\ Cut \in [0 .. Len(log) -> [Stops -> Seq(Logged)]]
  /\ \A stop \in Stops : Cut[0][stop] = <<>>
  /\ \A p \in DOMAIN log, stop \in Stops :
       /\ StopAfter(log[p], stop) \in Stops
       /\ Ends(log[p], stop) =>
            Cut[p][stop] = Extended(<<>>, log[p])
       /\ ~Ends(log[p], stop) =>
            Cut[p][stop] = Extended(Cut[Up(p)][StopAfter(log[p], stop)], log[p])

\* What by_id and the parents of a rooted tree are.
PlaceFacts ==
  /\ Position(0) = 0
  /\ \A p \in DOMAIN log : log[p].id # 0 /\ Position(log[p].id) = p
  /\ \A id \in IdsIn(log) :
       Position(id) \in DOMAIN log /\ log[Position(id)].id = id
  /\ \A p \in DOMAIN log : Up(p) \in 0 .. p - 1
  /\ Len(log) \in Nat /\ DOMAIN log = 1 .. Len(log)

\* The facts above hold of every state of the tree...
LEMMA Facts == TreeInv /\ RefsTyped => CutFacts /\ PlaceFacts
<1>1. ASSUME TreeInv, RefsTyped PROVE CutFacts /\ PlaceFacts
  <2>1. CutFacts
    BY <1>1, CutIs DEF CutFacts
  <2>2. PlaceFacts
    BY <1>1, Positions, LogIsFinite DEF PlaceFacts
  <2>. QED
    BY <2>1, <2>2
<1>. QED
  BY <1>1

\* ... so they hold of the next one.
LEMMA NextFacts == TreeInv' /\ RefsTyped' => CutFacts' /\ PlaceFacts'
  BY Facts, PTL

\* Entries are only added.
Grows == Len(log) <= Len(log)' /\ \A p \in DOMAIN log : log'[p] = log[p]

\* A log that only grows keeps the walks of the places it had.
LEMMA CutStays ==
  ASSUME TreeInv, RefsTyped, TreeInv', RefsTyped', Grows
  PROVE  /\ \A p \in DOMAIN log : p \in DOMAIN log' /\ Up(p)' = Up(p)
         /\ \A id \in {0} \cup IdsIn(log) :
              Position(id)' = Position(id) /\ Position(id) \in 0 .. Len(log)
         /\ \A p \in 0 .. Len(log), stop \in Stops : Cut'[p][stop] = Cut[p][stop]
<1>0. CutFacts /\ PlaceFacts /\ CutFacts' /\ PlaceFacts'
  BY Facts, NextFacts
<1>. DEFINE n == Len(log)
            up == [q \in 1 .. n |-> Up(q)]
            Good == {q \in 0 .. n : \A s \in Stops : Cut'[q][s] = Cut[q][s]}
<1>1. n \in Nat /\ DOMAIN log = 1 .. n
  BY LogIsFinite
<1>2. \A q \in 1 .. n : up[q] = Up(q) /\ up[q] \in 0 .. q - 1
  BY <1>1, Positions
<1>3. \A p \in DOMAIN log : p \in DOMAIN log' /\ log'[p] = log[p]
  BY <1>0, <1>1 DEF Grows, PlaceFacts
<1>4. ASSUME NEW id \in {0} \cup IdsIn(log)
      PROVE Position(id)' = Position(id) /\ Position(id) \in 0 .. Len(log)
  <2>1. CASE id = 0
    BY <1>0, <1>1, <2>1 DEF PlaceFacts
  <2>2. CASE id \in IdsIn(log)
    <3>1. PICK p \in DOMAIN log : log[p].id = id
      BY <2>2 DEF IdsIn
    <3>2. Position(id) = p
      BY <1>0, <3>1 DEF PlaceFacts
    <3>3. Position(id)' = p
      BY <1>0, <1>3, <3>1 DEF PlaceFacts
    <3>. QED
      BY <1>1, <3>2, <3>3
  <2>. QED
    BY <2>1, <2>2
<1>5. ASSUME NEW p \in DOMAIN log PROVE Up(p)' = Up(p)
  <2>1. log[p].parent \in {0} \cup IdsIn(log)
    <3>1. log[p].parent = 0 \/ \E q \in 1 .. p - 1 : log[q].id = log[p].parent
      BY DEF TreeInv, Rooted
    <3>2. \A q \in 1 .. p - 1 : q \in DOMAIN log
      BY <1>1
    <3>. QED
      BY <3>1, <3>2 DEF IdsIn
  <2>2. log'[p].parent = log[p].parent
    BY <1>3
  <2>3. Up(p)' = Position(log[p].parent)'
    BY <2>2 DEF Up, Position
  <2>. QED
    BY <1>4, <2>1, <2>2 DEF Up
<1>6. 0 \in Good
  BY <1>0, <1>1 DEF CutFacts
<1>7. ASSUME NEW q \in 1 .. n, up[q] \in Good PROVE q \in Good
  <2>1. q \in DOMAIN log /\ q \in DOMAIN log' /\ log'[q] = log[q] /\ Up(q)' = Up(q)
    BY <1>1, <1>3, <1>5
  <2>2. \A s \in Stops : Cut'[Up(q)][s] = Cut[Up(q)][s]
    BY <1>2, <1>7
  <2>3. ASSUME NEW s \in Stops PROVE Cut'[q][s] = Cut[q][s]
    <3>1. CASE Ends(log[q], s)
      BY <1>0, <2>1, <3>1 DEF CutFacts
    <3>2. CASE ~Ends(log[q], s)
      <4>1. StopAfter(log[q], s) \in Stops
        BY <1>0, <2>1 DEF CutFacts
      <4>2. Cut[q][s] = Extended(Cut[Up(q)][StopAfter(log[q], s)], log[q])
        BY <1>0, <2>1, <3>2 DEF CutFacts
      <4>3. Cut'[q][s] = Extended(Cut'[Up(q)'][StopAfter(log[q], s)], log[q])
        BY <1>0, <2>1, <3>2 DEF CutFacts
      <4>. QED
        BY <2>1, <2>2, <4>1, <4>2, <4>3
    <3>. QED
      BY <3>1, <3>2
  <2>. QED
    BY <1>1, <2>3
<1>8. 0 .. n \subseteq Good
  <2>. HIDE DEF n, up, Good
  <2>. QED
    BY <1>1, <1>2, <1>6, <1>7, Climb
<1>. QED
  BY <1>3, <1>4, <1>5, <1>8

\* The entries under construction that AgentHarness makes one at a time.
Compacts(entry) == entry.kind \in {"compaction", "tailCompaction", "branchSummary"}

\* What an entry points at is in the log, also that of an entry under construction.
Refs ==
  /\ created \in 0 .. MaxEntries
  /\ \A p \in DOMAIN log : log[p].ref \in {0} \cup IdsIn(log)
  /\ \A c \in Callers :
       /\ draft[c].ref \in {0} \cup IdsIn(log)
       /\ draft[c].kind = "label" => draft[c].ref \in IdsIn(log)
       /\ draft[c].kind # "leaf"
  /\ \A c, d \in Callers : Compacts(draft[c]) /\ Compacts(draft[d]) => c = d

\* While no append has raced, a compaction keeps an entry of the branch it is made of.
KeptInv ==
  ~raced =>
    /\ KeptShown
    /\ \A c \in Callers : draft[c].kind = "compaction" =>
         draft[c].ref \in {0} \cup IdsIn(Branch(leaf))

ReadInv == TreeInv /\ Refs /\ ReopenSame /\ KeptInv

\* What entries point at are ids.
LEMMA RefsAreTyped == TreeInv /\ Refs => RefsTyped
<1>. SUFFICES ASSUME TreeInv, Refs PROVE RefsTyped
  OBVIOUS
<1>1. IdsIn(log) \subseteq 1 .. created
  BY DEF TreeInv, FreshIds
<1>2. 1 .. created \subseteq Ids
  <2>1. created \in 0 .. MaxEntries /\ MaxEntries \in Nat
    BY SessionAssumption DEF Refs
  <2>. QED
    BY <2>1 DEF Ids
<1>. QED
  BY <1>1, <1>2 DEF Refs, RefsTyped, Stops

\* The same of the next state.
LEMMA NextRefsAreTyped == TreeInv' /\ Refs' => RefsTyped'
  BY RefsAreTyped, PTL

\* A new session reads the same.
LEMMA ReadInit == Init => ReadInv
<1>. SUFFICES ASSUME Init PROVE ReadInv
  OBVIOUS
<1>1. TreeInv
  BY TreeInit
<1>2. log = <<>> /\ leaf = 0 /\ labels = {} /\ created = 0 /\ DOMAIN log = {}
      /\ \A c \in Callers : draft[c].ref = 0 /\ draft[c].kind = "message"
  BY DEF Init, NoDraft, Entry
<1>3. Refs
  BY <1>2, SessionAssumption DEF Refs, Compacts
<1>4. ReopenSame
  BY <1>2 DEF ReopenSame, ReopenedLeaf, ReopenedLabels, IdsIn
<1>5. KeptInv
  BY <1>2 DEF KeptInv, KeptShown
<1>. QED
  BY <1>1, <1>3, <1>4, <1>5 DEF ReadInv

\* A step that leaves the log as it is.
LEMMA LogStays ==
  ASSUME ReadInv, TreeInv', Refs', UNCHANGED <<log, leaf, labels, raced>>,
         \A c \in Callers : draft'[c].kind = "compaction" =>
           \/ draft[c].kind = "compaction" /\ draft'[c].ref = draft[c].ref
           \/ draft'[c].ref \in {0} \cup IdsIn(Branch(leaf))
  PROVE  ReadInv'
<1>0. TreeInv /\ RefsTyped /\ TreeInv' /\ RefsTyped'
  BY RefsAreTyped, NextRefsAreTyped DEF ReadInv
<1>1. Grows
  BY <1>0, LogIsFinite DEF Grows
<1>2. /\ \A p \in DOMAIN log : Up(p)' = Up(p)
      /\ \A p \in 0 .. Len(log), stop \in Stops : Cut'[p][stop] = Cut[p][stop]
  BY <1>0, <1>1, CutStays
<1>3. 0 \in Stops
  BY DEF Stops
<1>4. Branch(leaf)' = Branch(leaf)
  <2>1. Position(leaf) \in 0 .. Len(log)
    BY <1>0, Positions, LogIsFinite DEF TreeInv, Rooted
  <2>2. Position(leaf)' = Position(leaf)
    BY DEF Position
  <2>. QED
    BY <1>2, <1>3, <2>1, <2>2 DEF Branch
<1>5. ReopenSame'
  BY DEF ReadInv, ReopenSame, ReopenedLeaf, ReopenedLabels, IdsIn
<1>6. ASSUME ~raced' PROVE KeptShown'
  <2>1. KeptShown
    BY <1>6 DEF ReadInv, KeptInv
  <2>2. \A p \in DOMAIN log : Up(p) \in 0 .. Len(log)
    BY <1>0, Positions, LogIsFinite
  <2>. QED
    BY <1>2, <1>3, <2>1, <2>2 DEF KeptShown
<1>7. KeptInv'
  BY <1>4, <1>6 DEF ReadInv, KeptInv
<1>. QED
  BY <1>0, <1>5, <1>7 DEF ReadInv

\* What reopening gives after an entry has been pushed.
LEMMA PushReopens ==
  ASSUME TreeInv, Refs, ReopenSame, NEW entry, Push(entry),
         entry.id # 0, entry.kind = "label" => entry.ref \in IdsIn(log)
  PROVE  ReopenSame'
<1>. DEFINE n == Len(log)
<1>1. /\ n \in Nat
      /\ DOMAIN log = 1 .. n
      /\ DOMAIN log' = 1 .. n + 1
      /\ log'[n + 1] = entry
      /\ \A p \in DOMAIN log : log'[p] = log[p]
      /\ IdsIn(log') = IdsIn(log) \cup {entry.id}
      /\ Len(log') = n + 1
  <2>1. \E S : log \in Seq(S)
    BY DEF TreeInv, Shape
  <2>2. log' = Append(log, entry)
    BY DEF Push
  <2>3. \E S : log' \in Seq(S)
    BY <2>1, <2>2, Grown
  <2>4. /\ n \in Nat
        /\ DOMAIN log = 1 .. n
        /\ DOMAIN log' = 1 .. n + 1
        /\ log'[n + 1] = entry
        /\ \A p \in DOMAIN log : log'[p] = log[p]
        /\ IdsIn(log') = IdsIn(log) \cup {entry.id}
    BY <2>1, <2>2, Grown
  <2>5. Len(log') \in Nat /\ DOMAIN log' = 1 .. Len(log')
    BY <2>3
  <2>6. Len(log') = n + 1
    <3>. HIDE DEF n
    <3>. QED
      BY <2>4, <2>5
  <2>. QED
    BY <2>4, <2>6
<1>. HIDE DEF n
<1>2. leaf' = ReopenedLeaf'
  <2>1. log' # <<>>
    BY <1>1
  <2>. QED
    BY <1>1, <2>1 DEF ReopenedLeaf, LeafAfter, Push
<1>3. labels = ReopenedLabels /\ labels' = LabelsAfter(entry)
  BY DEF ReopenSame, Push
<1>5. Len(log) = n
  BY DEF n
<1>6. ASSUME NEW id
      PROVE  id \in ReopenedLabels' <=>
               \/ entry.kind = "label" /\ entry.ref = id /\ id \in IdsIn(log')
               \/ id \in ReopenedLabels /\ ~(entry.kind = "unlabel" /\ entry.ref = id)
  <2>1. ASSUME id \in ReopenedLabels'
        PROVE  \/ entry.kind = "label" /\ entry.ref = id /\ id \in IdsIn(log')
               \/ id \in ReopenedLabels /\ ~(entry.kind = "unlabel" /\ entry.ref = id)
    <3>1. PICK p \in 1 .. n + 1 :
            /\ log'[p].kind = "label" /\ log'[p].ref = id
            /\ \A q \in p .. n + 1 : ~(log'[q].kind = "unlabel" /\ log'[q].ref = id)
      BY <1>1, <2>1 DEF ReopenedLabels
    <3>2. id \in IdsIn(log')
      BY <2>1 DEF ReopenedLabels
    <3>3. CASE p = n + 1
      BY <1>1, <3>1, <3>2, <3>3
    <3>4. CASE p \in 1 .. n
      <4>1. log[p].kind = "label" /\ log[p].ref = id
        BY <1>1, <3>1, <3>4
      <4>2. \A q \in p .. n : ~(log[q].kind = "unlabel" /\ log[q].ref = id)
        <5>1. \A q \in p .. n : q \in p .. n + 1 /\ log'[q] = log[q]
          BY <1>1, <3>4
        <5>. QED
          BY <3>1, <5>1
      <4>3. ~(entry.kind = "unlabel" /\ entry.ref = id)
        <5>1. n + 1 \in p .. n + 1
          BY <1>1, <3>4
        <5>. QED
          BY <1>1, <3>1, <5>1
      <4>4. id \in IdsIn(log)
        <5>1. log[p].ref \in {0} \cup IdsIn(log)
          BY <1>1, <3>4 DEF Refs
        <5>2. id \in IdsIn(log) \/ id = entry.id
          BY <1>1, <3>2
        <5>. QED
          BY <4>1, <5>1, <5>2
      <4>. QED
        BY <1>1, <1>5, <3>4, <4>1, <4>2, <4>3, <4>4 DEF ReopenedLabels
    <3>. QED
      BY <1>1, <3>1, <3>3, <3>4
  <2>2. ASSUME entry.kind = "label", entry.ref = id, id \in IdsIn(log')
        PROVE  id \in ReopenedLabels'
    <3>1. \A q \in n + 1 .. n + 1 : q = n + 1
      BY <1>1
    <3>2. n + 1 \in DOMAIN log' /\ log'[n + 1].kind = "label" /\ log'[n + 1].ref = id
      BY <1>1, <2>2
    <3>. QED
      BY <1>1, <2>2, <3>1, <3>2 DEF ReopenedLabels
  <2>3. ASSUME id \in ReopenedLabels, ~(entry.kind = "unlabel" /\ entry.ref = id)
        PROVE  id \in ReopenedLabels'
    <3>1. PICK p \in 1 .. n :
            /\ log[p].kind = "label" /\ log[p].ref = id
            /\ \A q \in p .. n : ~(log[q].kind = "unlabel" /\ log[q].ref = id)
      BY <1>1, <1>5, <2>3 DEF ReopenedLabels
    <3>2. id \in IdsIn(log')
      BY <1>1, <2>3 DEF ReopenedLabels
    <3>3. p \in DOMAIN log' /\ log'[p].kind = "label" /\ log'[p].ref = id
      BY <1>1, <3>1
    <3>4. \A q \in p .. n + 1 : ~(log'[q].kind = "unlabel" /\ log'[q].ref = id)
      <4>1. \A q \in p .. n + 1 : q = n + 1 \/ (q \in p .. n /\ log'[q] = log[q])
        BY <1>1, <3>1
      <4>. QED
        BY <1>1, <2>3, <3>1, <4>1
    <3>. QED
      BY <1>1, <3>2, <3>3, <3>4 DEF ReopenedLabels
  <2>. QED
    BY <2>1, <2>2, <2>3
<1>7. labels' = ReopenedLabels'
  <2>1. entry.kind = "label" => entry.ref \in IdsIn(log')
    BY <1>1
  <2>2. \A id : id \in labels' <=>
               \/ entry.kind = "label" /\ entry.ref = id
               \/ id \in labels /\ ~(entry.kind = "unlabel" /\ entry.ref = id)
    BY <1>3 DEF LabelsAfter
  <2>. QED
    BY <1>3, <1>6, <2>1, <2>2
<1>. QED
  BY <1>2, <1>7 DEF ReopenSame

\* The branch of the leaf is made of entries of the log.
LEMMA BranchInLog ==
  ASSUME TreeInv, RefsTyped
  PROVE  /\ Position(leaf) \in 0 .. Len(log)
         /\ Branch(leaf) \in Seq(Logged)
         /\ IdsIn(Branch(leaf)) \subseteq IdsIn(log)
<1>1. Position(leaf) \in 0 .. Len(log)
  BY Positions, LogIsFinite DEF TreeInv, Rooted
<1>2. Branch(leaf) \in Seq(Logged)
  BY <1>1, CutWithin DEF Branch, Stops
<1>3. \A k \in DOMAIN Branch(leaf) : Branch(leaf)[k] \in Logged
  BY <1>2
<1>. QED
  BY <1>1, <1>2, <1>3 DEF IdsIn, Logged

\* Each step keeps what entries and drafts point at in the log, and at most one
\* compaction or move under construction.
LEMMA RefsStep == ReadInv /\ [Next]_vars => Refs'
<1>. SUFFICES ASSUME ReadInv, [Next]_vars PROVE Refs'
  OBVIOUS
<1>0. /\ TreeInv /\ Refs /\ RefsTyped /\ Shape
      /\ created \in 0 .. MaxEntries /\ MaxEntries \in Nat
  BY RefsAreTyped, SessionAssumption DEF ReadInv, TreeInv, Refs
<1>1. CASE UNCHANGED vars
  BY <1>0, <1>1 DEF vars, Refs, IdsIn
<1>2. ASSUME NEW c \in Callers, BeginAppend(c) PROVE Refs'
  <2>1. PICK entry \in Drafts :
          /\ draft' = [draft EXCEPT ![c] = entry]
          /\ created < MaxEntries /\ created' = created + 1
          /\ UNCHANGED log
    BY <1>2 DEF BeginAppend, Draft, Create
  <2>2. /\ entry.ref \in {0} \cup IdsIn(log)
        /\ entry.kind = "label" => entry.ref \in IdsIn(log)
        /\ entry.kind # "leaf"
        /\ Compacts(entry) => \A d \in Callers : ~Compacts(draft[d])
    <3>1. IdsIn(Branch(leaf)) \subseteq IdsIn(log)
      BY <1>0, BranchInLog
    <3>2. CASE entry \in {Entry(created + 1, 0, kind, 0) :
                             kind \in {"message", "reply", "level", "model"}}
      BY <3>2 DEF Entry, Compacts
    <3>3. CASE entry \in {Entry(created + 1, 0, kind, id) :
                             kind \in {"label", "unlabel"}, id \in IdsIn(log)}
      BY <3>3 DEF Entry, Compacts
    <3>4. CASE Exclusive /\ entry \in Compactions
      <4>1. entry.ref \in {0} \cup IdsIn(log) /\ Compacts(entry)
              /\ entry.kind \notin {"label", "leaf"}
        BY <3>1, <3>4 DEF Compactions, Entry, Compacts
      <4>. QED
        BY <3>4, <4>1 DEF Exclusive, Compacts
    <3>. QED
      BY <3>2, <3>3, <3>4 DEF Drafts
  <2>3. \A d \in Callers : draft'[d] = IF d = c THEN entry ELSE draft[d]
    BY <1>0, <2>1 DEF Shape
  <2>4. IdsIn(log') = IdsIn(log) /\ created' \in 0 .. MaxEntries
    BY <1>0, <2>1
  <2>5. \A d, e \in Callers : Compacts(draft'[d]) /\ Compacts(draft'[e]) => d = e
    BY <1>0, <2>2, <2>3 DEF Refs
  <2>6. \A d \in Callers :
          /\ draft'[d].ref \in {0} \cup IdsIn(log)
          /\ draft'[d].kind = "label" => draft'[d].ref \in IdsIn(log)
          /\ draft'[d].kind # "leaf"
    BY <1>0, <2>2, <2>3 DEF Refs
  <2>7. \A p \in DOMAIN log' : log'[p].ref \in {0} \cup IdsIn(log')
    BY <1>0, <2>1, <2>4 DEF Refs
  <2>. QED
    BY <2>4, <2>5, <2>6, <2>7 DEF Refs, Compacts
<1>3. ASSUME NEW c \in Callers, ReadParent(c) PROVE Refs'
  <2>1. /\ draft' = [draft EXCEPT ![c].parent = leaf]
        /\ UNCHANGED <<log, created>>
    BY <1>3 DEF ReadParent
  <2>2. \A d \in Callers : draft'[d].ref = draft[d].ref /\ draft'[d].kind = draft[d].kind
    BY <1>0, <2>1 DEF Shape, Entry
  <2>. QED
    BY <1>0, <2>1, <2>2 DEF Refs, Compacts, IdsIn
<1>4. ASSUME NEW c \in Callers, AppendEntry(c) PROVE Refs'
  <2>1. /\ draft' = [draft EXCEPT ![c] = NoDraft]
        /\ UNCHANGED created
        /\ log' = Append(log, draft[c]) \/ UNCHANGED log
    BY <1>4 DEF AppendEntry, Draft, Push
  <2>2. \A d \in Callers : draft'[d] = IF d = c THEN NoDraft ELSE draft[d]
    BY <1>0, <2>1 DEF Shape
  <2>3. NoDraft.ref = 0 /\ NoDraft.kind = "message" /\ ~Compacts(NoDraft)
    BY DEF NoDraft, Entry, Compacts
  <2>4. /\ IdsIn(log) \subseteq IdsIn(log')
        /\ \A p \in DOMAIN log' : log'[p].ref \in {0} \cup IdsIn(log)
    <3>1. CASE log' = Append(log, draft[c])
      <4>1. /\ Len(log) \in Nat /\ DOMAIN log = 1 .. Len(log)
            /\ DOMAIN log' = 1 .. Len(log) + 1
            /\ log'[Len(log) + 1] = draft[c]
            /\ \A p \in DOMAIN log : log'[p] = log[p]
            /\ IdsIn(log') = IdsIn(log) \cup {draft[c].id}
        BY <1>0, <3>1, Grown DEF Shape
      <4>. QED
        BY <1>0, <4>1 DEF Refs
    <3>2. CASE UNCHANGED log
      BY <1>0, <3>2 DEF Refs
    <3>. QED
      BY <2>1, <3>1, <3>2
  <2>5. \A d \in Callers :
          /\ draft'[d].ref \in {0} \cup IdsIn(log)
          /\ draft'[d].kind = "label" => draft'[d].ref \in IdsIn(log)
          /\ draft'[d].kind # "leaf"
    BY <1>0, <2>2, <2>3 DEF Refs
  <2>6. \A d, e \in Callers : Compacts(draft'[d]) /\ Compacts(draft'[e]) => d = e
    BY <1>0, <2>2, <2>3 DEF Refs
  <2>7. created' \in 0 .. MaxEntries
    BY <1>0, <2>1
  <2>. QED
    BY <2>4, <2>5, <2>6, <2>7 DEF Refs, Compacts
<1>5. ASSUME NEW c \in Callers, MoveTo(c) PROVE Refs'
  <2>1. PICK target \in Targets :
          /\ Exclusive
          /\ created < MaxEntries /\ created' = created + 1
          /\ log' = Append(log, Entry(created + 1, leaf, "leaf", target))
          /\ \/ UNCHANGED draft
             \/ draft' = [draft EXCEPT ![c] = Entry(0, target, "branchSummary", target)]
    BY <1>5 DEF MoveTo, SetLeaf, Push, Draft, Create
  <2>2. target \in {0} \cup IdsIn(log)
    BY DEF Targets
  <2>3. /\ IdsIn(log) \subseteq IdsIn(log')
        /\ \A p \in DOMAIN log' : log'[p].ref \in {0} \cup IdsIn(log)
    <3>. DEFINE marker == Entry(created + 1, leaf, "leaf", target)
    <3>1. marker.ref = target
      BY DEF Entry
    <3>. HIDE DEF marker
    <3>2. /\ Len(log) \in Nat /\ DOMAIN log = 1 .. Len(log)
          /\ DOMAIN log' = 1 .. Len(log) + 1
          /\ log'[Len(log) + 1] = marker
          /\ \A p \in DOMAIN log : log'[p] = log[p]
          /\ IdsIn(log') = IdsIn(log) \cup {marker.id}
      BY <1>0, <2>1, Grown DEF Shape, marker
    <3>. QED
      BY <1>0, <2>2, <3>1, <3>2 DEF Refs
  <2>4. \A d \in Callers :
          \/ draft'[d] = draft[d]
          \/ d = c /\ draft'[d] = Entry(0, target, "branchSummary", target)
    BY <1>0, <2>1 DEF Shape
  <2>5. \A d \in Callers : ~Compacts(draft[d])
    BY <2>1 DEF Exclusive, Compacts
  <2>6. \A d \in Callers :
          /\ draft'[d].ref \in {0} \cup IdsIn(log)
          /\ draft'[d].kind = "label" => draft'[d].ref \in IdsIn(log)
          /\ draft'[d].kind # "leaf"
          /\ Compacts(draft'[d]) => d = c
    BY <1>0, <2>2, <2>4, <2>5 DEF Refs, Entry
  <2>7. created' \in 0 .. MaxEntries
    BY <1>0, <2>1
  <2>. QED
    BY <2>3, <2>6, <2>7 DEF Refs, Compacts
<1>6. ASSUME NEW c \in Callers, SummaryId(c) PROVE Refs'
  <2>1. /\ draft' = [draft EXCEPT ![c].id = created + 1]
        /\ created < MaxEntries /\ created' = created + 1
        /\ UNCHANGED log
    BY <1>6 DEF SummaryId, Create
  <2>2. \A d \in Callers : draft'[d].ref = draft[d].ref /\ draft'[d].kind = draft[d].kind
    BY <1>0, <2>1 DEF Shape, Entry
  <2>3. created' \in 0 .. MaxEntries
    BY <1>0, <2>1
  <2>. QED
    BY <1>0, <2>1, <2>2, <2>3 DEF Refs, Compacts, IdsIn
<1>. QED
  BY <1>1, <1>2, <1>3, <1>4, <1>5, <1>6 DEF Next

\* A compaction pushed under the leaf keeps an entry of the branch; one pushed
\* elsewhere has raced.
LEMMA PushKept ==
  ASSUME ReadInv, TreeInv', Refs', NEW entry, Push(entry),
         entry.kind = "compaction" /\ ~raced' =>
           entry.parent = leaf /\ entry.ref \in {0} \cup IdsIn(Branch(leaf)),
         ~raced' => ~raced /\ entry.parent = leaf
  PROVE  ~raced' => KeptShown'
<1>. SUFFICES ASSUME ~raced' PROVE KeptShown'
  OBVIOUS
<1>0. /\ TreeInv /\ RefsTyped /\ TreeInv' /\ RefsTyped' /\ KeptShown
  BY RefsAreTyped, NextRefsAreTyped DEF ReadInv, KeptInv
<1>1. /\ Len(log) \in Nat /\ DOMAIN log = 1 .. Len(log)
      /\ DOMAIN log' = 1 .. Len(log) + 1
      /\ log'[Len(log) + 1] = entry
      /\ \A p \in DOMAIN log : log'[p] = log[p]
  BY <1>0, Grown DEF TreeInv, Shape, Push
<1>2. Grows
  <2>1. Len(log') \in Nat /\ DOMAIN log' = 1 .. Len(log')
    BY <1>0, NextFacts DEF PlaceFacts
  <2>2. Len(log') = Len(log) + 1
    BY <1>1, <2>1
  <2>. QED
    BY <1>1, <2>2 DEF Grows
<1>3. /\ \A p \in DOMAIN log : Up(p)' = Up(p)
      /\ \A id \in {0} \cup IdsIn(log) : Position(id)' = Position(id)
      /\ \A p \in 0 .. Len(log), stop \in Stops : Cut'[p][stop] = Cut[p][stop]
  BY <1>0, <1>2, CutStays
<1>4. 0 \in Stops
  BY DEF Stops
<1>5. ASSUME NEW p \in DOMAIN log', log'[p].kind = "compaction"
      PROVE  log'[p].ref \in {0} \cup IdsIn(Cut'[Up(p)'][0])
  <2>1. CASE p \in DOMAIN log
    <3>1. Up(p) \in 0 .. Len(log)
      BY <1>0, <2>1, Positions, LogIsFinite
    <3>2. log[p].ref \in {0} \cup IdsIn(Cut[Up(p)][0])
      BY <1>0, <1>1, <1>5, <2>1 DEF KeptShown
    <3>. QED
      BY <1>1, <1>3, <1>4, <2>1, <3>1, <3>2
  <2>2. CASE p = Len(log) + 1
    <3>1. log'[p] = entry /\ entry.parent = leaf
      BY <1>1, <2>2
    <3>2. Up(p)' = Position(leaf)
      <4>1. leaf \in {0} \cup IdsIn(log)
        BY <1>0 DEF TreeInv, Rooted
      <4>2. PICK id : id = leaf
        OBVIOUS
      <4>3. Up(p)' = Position(id)'
        BY <3>1, <4>2 DEF Up, Position
      <4>. QED
        BY <1>3, <4>1, <4>2, <4>3
    <3>3. Position(leaf) \in 0 .. Len(log)
      BY <1>0, BranchInLog
    <3>4. Cut'[Up(p)'][0] = Branch(leaf)
      BY <1>3, <1>4, <3>2, <3>3 DEF Branch
    <3>. QED
      BY <1>5, <3>1, <3>4
  <2>. QED
    BY <1>1, <2>1, <2>2
<1>. QED
  BY <1>5 DEF KeptShown

\* Where the branch of an entry that has been pushed starts, and what it shows.
LEMMA PushedBranch ==
  ASSUME ReadInv, TreeInv', Refs', NEW entry, Push(entry),
         entry.parent \in {0} \cup IdsIn(log)
  PROVE  /\ entry.id # 0 /\ entry.id \notin IdsIn(log)
         /\ Position(entry.parent) \in 0 .. Len(log)
         /\ StopAfter(entry, 0) \in Stops
         /\ entry.kind # "leaf" =>
              Branch(leaf)'
                = IF Ends(entry, 0) THEN <<entry>>
                  ELSE Append(Cut[Position(entry.parent)][StopAfter(entry, 0)], entry)
         /\ entry.kind = "leaf" /\ entry.ref \in {0} \cup IdsIn(log) =>
              Branch(leaf)' = Branch(entry.ref)
<1>0. /\ TreeInv /\ RefsTyped /\ TreeInv' /\ RefsTyped'
      /\ CutFacts' /\ PlaceFacts' /\ PlaceFacts
  BY RefsAreTyped, NextRefsAreTyped, Facts, NextFacts DEF ReadInv
<1>. DEFINE n == Len(log)
<1>1. /\ n \in Nat /\ DOMAIN log = 1 .. n
      /\ DOMAIN log' = 1 .. n + 1
      /\ log'[n + 1] = entry
      /\ \A p \in DOMAIN log : log'[p] = log[p]
  BY <1>0, Grown DEF TreeInv, Shape, Push
<1>2. Len(log)' = n + 1 /\ Grows
  <2>1. Len(log') \in Nat /\ DOMAIN log' = 1 .. Len(log')
    BY <1>0 DEF PlaceFacts
  <2>2. Len(log') = n + 1
    <3>. HIDE DEF n
    <3>. QED
      BY <1>1, <2>1
  <2>. QED
    BY <1>1, <2>2 DEF Grows
<1>3. /\ \A id \in {0} \cup IdsIn(log) :
           Position(id)' = Position(id) /\ Position(id) \in 0 .. Len(log)
      /\ \A p \in 0 .. Len(log), stop \in Stops : Cut'[p][stop] = Cut[p][stop]
  BY <1>0, <1>2, CutStays
<1>4. 0 \in Stops
  BY DEF Stops
<1>. HIDE DEF n
<1>5. PICK k : k = n + 1
  OBVIOUS
<1>6. k \in DOMAIN log' /\ log'[k] = entry
  BY <1>1, <1>5
<1>7. entry.id # 0 /\ Position(entry.id)' = k
  <2>1. log'[k].id # 0 /\ Position(log[k].id)' = k
    BY <1>0, <1>6 DEF PlaceFacts
  <2>2. PICK id : id = log'[k].id
    OBVIOUS
  <2>3. Position(id)' = k
    BY <2>1, <2>2 DEF Position
  <2>. QED
    BY <1>6, <2>1, <2>2, <2>3 DEF Position
<1>8. entry.id \notin IdsIn(log)
  <2>1. SUFFICES ASSUME NEW p \in DOMAIN log, log[p].id = entry.id PROVE FALSE
    BY DEF IdsIn
  <2>2. p \in DOMAIN log' /\ log'[p].id = log'[k].id
    BY <1>1, <1>6, <2>1
  <2>3. p = k
    BY <1>0, <1>6, <2>2 DEF TreeInv, Rooted
  <2>. QED
    BY <1>1, <1>5, <2>3
<1>9. Position(entry.parent) \in 0 .. Len(log)
  BY <1>3
<1>10. StopAfter(entry, 0) \in Stops
  <2>1. entry.ref \in Stops
    BY <1>0, <1>6 DEF RefsTyped
  <2>. QED
    BY <1>4, <2>1 DEF StopAfter
<1>11. ASSUME entry.kind # "leaf"
       PROVE  Branch(leaf)'
                = IF Ends(entry, 0) THEN <<entry>>
                  ELSE Append(Cut[Position(entry.parent)][StopAfter(entry, 0)], entry)
  <2>1. leaf' = entry.id
    BY <1>11 DEF Push, LeafAfter
  <2>2. PICK id : id = entry.id
    OBVIOUS
  <2>3. Position(leaf)' = k
    BY <1>7, <2>1, <2>2 DEF Position
  <2>4. Branch(leaf)' = Cut'[k][0]
    BY <2>3 DEF Branch
  <2>5. CASE Ends(entry, 0)
    <3>1. Cut'[k][0] = Extended(<<>>, entry)
      BY <1>0, <1>4, <1>6, <2>5 DEF CutFacts
    <3>2. Extended(<<>>, entry) = <<entry>>
      BY <1>11 DEF Extended, IsNoMarker
    <3>. QED
      BY <2>4, <2>5, <3>1, <3>2
  <2>6. CASE ~Ends(entry, 0)
    <3>1. Cut'[k][0] = Extended(Cut'[Up(k)'][StopAfter(entry, 0)], entry)
      BY <1>0, <1>4, <1>6, <2>6 DEF CutFacts
    <3>2. Up(k)' = Position(entry.parent)
      <4>1. PICK up : up = entry.parent
        OBVIOUS
      <4>2. log'[k].parent = up
        BY <1>6, <4>1
      <4>3. Up(k)' = Position(up)'
        BY <4>2 DEF Up, Position
      <4>4. Position(up)' = Position(up)
        BY <1>3, <4>1
      <4>. QED
        BY <4>1, <4>3, <4>4
    <3>3. Cut'[Up(k)'][StopAfter(entry, 0)]
            = Cut[Position(entry.parent)][StopAfter(entry, 0)]
      BY <1>3, <1>9, <1>10, <3>2
    <3>4. \A path : Extended(path, entry) = Append(path, entry)
      BY <1>11 DEF Extended, IsNoMarker
    <3>. QED
      BY <2>4, <2>6, <3>1, <3>3, <3>4
  <2>. QED
    BY <2>5, <2>6
<1>12. ASSUME entry.kind = "leaf", entry.ref \in {0} \cup IdsIn(log)
       PROVE  Branch(leaf)' = Branch(entry.ref)
  <2>1. leaf' = entry.ref
    BY <1>12 DEF Push, LeafAfter
  <2>2. PICK id : id = entry.ref
    OBVIOUS
  <2>3. Position(leaf)' = Position(id)'
    BY <2>1, <2>2 DEF Position
  <2>4. Position(leaf)' = Position(id) /\ Position(id) \in 0 .. Len(log)
    BY <1>3, <1>12, <2>2, <2>3
  <2>5. Branch(leaf)' = Cut'[Position(id)][0]
    BY <2>4 DEF Branch
  <2>. QED
    BY <1>3, <1>4, <2>2, <2>4, <2>5 DEF Branch
<1>. QED
  BY <1>7, <1>8, <1>9, <1>10, <1>11, <1>12

\* The branch that an entry is appended to is shown above it.
LEMMA BranchGrows ==
  ASSUME ReadInv, TreeInv', Refs', NEW entry, Push(entry), entry.parent = leaf,
         ~Compacts(entry), entry.kind # "leaf"
  PROVE  IdsIn(Branch(leaf)) \subseteq IdsIn(Branch(leaf)')
<1>0. TreeInv /\ RefsTyped
  BY RefsAreTyped DEF ReadInv
<1>1. Branch(leaf)' = Append(Branch(leaf), entry)
  <2>1. entry.parent \in {0} \cup IdsIn(log)
    BY <1>0 DEF TreeInv, Rooted
  <2>2. /\ entry.id # 0
        /\ Branch(leaf)'
             = IF Ends(entry, 0) THEN <<entry>>
               ELSE Append(Cut[Position(entry.parent)][StopAfter(entry, 0)], entry)
    BY <2>1, PushedBranch
  <2>3. ~Ends(entry, 0) /\ StopAfter(entry, 0) = 0
    BY <2>2 DEF Ends, StopAfter, Compacts
  <2>. QED
    BY <2>2, <2>3 DEF Branch
<1>. DEFINE branch == Branch(leaf)
<1>2. branch \in Seq(Logged \cup {entry})
  BY <1>0, BranchInLog
<1>3. \A j \in DOMAIN branch :
        j \in DOMAIN Append(branch, entry) /\ Append(branch, entry)[j] = branch[j]
  <2>. HIDE DEF branch
  <2>. QED
    BY <1>2, AppendProperties
<1>. QED
  BY <1>1, <1>3 DEF IdsIn

\* A step of an append or a move keeps what reading rests on.
LEMMA ReadStep == ReadInv /\ [Next]_vars => ReadInv'
<1>. SUFFICES ASSUME ReadInv, [Next]_vars PROVE ReadInv'
  OBVIOUS
<1>1. TreeInv' /\ Refs'
  BY TreeStep, RefsStep DEF ReadInv
<1>2. TreeInv /\ Refs /\ ReopenSame /\ KeptInv /\ Shape
  BY DEF ReadInv, TreeInv
<1>3. CASE UNCHANGED vars
  BY <1>1, <1>3, LogStays DEF vars
<1>4. ASSUME NEW c \in Callers, BeginAppend(c) PROVE ReadInv'
  <2>1. PICK entry \in Drafts :
          /\ draft' = [draft EXCEPT ![c] = entry]
          /\ UNCHANGED <<log, leaf, labels, raced>>
    BY <1>4 DEF BeginAppend, Draft
  <2>2. entry.kind = "compaction" => entry.ref \in {0} \cup IdsIn(Branch(leaf))
    BY DEF Drafts, Compactions, Entry
  <2>3. \A d \in Callers : draft'[d] = IF d = c THEN entry ELSE draft[d]
    BY <1>2, <2>1 DEF Shape
  <2>. QED
    BY <1>1, <2>1, <2>2, <2>3, LogStays
<1>5. ASSUME NEW c \in Callers, ReadParent(c) PROVE ReadInv'
  <2>1. /\ draft' = [draft EXCEPT ![c].parent = leaf]
        /\ UNCHANGED <<log, leaf, labels, raced>>
    BY <1>5 DEF ReadParent
  <2>2. \A d \in Callers : draft'[d].ref = draft[d].ref /\ draft'[d].kind = draft[d].kind
    BY <1>2, <2>1 DEF Shape, Entry
  <2>. QED
    BY <1>1, <2>1, <2>2, LogStays
<1>6. ASSUME NEW c \in Callers, SummaryId(c) PROVE ReadInv'
  <2>1. /\ draft' = [draft EXCEPT ![c].id = created + 1]
        /\ UNCHANGED <<log, leaf, labels, raced>>
    BY <1>6 DEF SummaryId, Create
  <2>2. \A d \in Callers : draft'[d].ref = draft[d].ref /\ draft'[d].kind = draft[d].kind
    BY <1>2, <2>1 DEF Shape, Entry
  <2>. QED
    BY <1>1, <2>1, <2>2, LogStays
<1>7. ASSUME NEW c \in Callers, AppendEntry(c) PROVE ReadInv'
  <2>. DEFINE entry == draft[c]
  <2>1. /\ pc[c] = "append"
        /\ draft' = [draft EXCEPT ![c] = NoDraft]
        /\ \/ Push(entry) /\ raced' = (raced \/ entry.parent # leaf)
           \/ UNCHANGED <<log, leaf, labels, raced>>
    BY <1>7 DEF AppendEntry, Draft
  <2>2. \A d \in Callers : draft'[d] = IF d = c THEN NoDraft ELSE draft[d]
    BY <1>2, <2>1 DEF Shape
  <2>3. NoDraft.kind = "message"
    BY DEF NoDraft, Entry
  <2>4. CASE UNCHANGED <<log, leaf, labels, raced>>
    BY <1>1, <2>2, <2>3, <2>4, LogStays
  <2>5. CASE Push(entry) /\ raced' = (raced \/ entry.parent # leaf)
    <3>1. /\ entry.id # 0
          /\ entry.kind = "label" => entry.ref \in IdsIn(log)
          /\ entry.kind # "leaf"
      <4>1. entry.id \in 1 .. created /\ created \in Nat
        BY <1>2, <2>1 DEF TreeInv, FreshIds, Building
      <4>. QED
        BY <1>2, <4>1 DEF Refs
    <3>2. ReopenSame'
      <4>. HIDE DEF entry
      <4>. QED
        BY <1>2, <2>5, <3>1, PushReopens
    <3>3. entry.kind = "compaction" /\ ~raced' =>
            entry.parent = leaf /\ entry.ref \in {0} \cup IdsIn(Branch(leaf))
      BY <1>2, <2>5 DEF KeptInv
    <3>4. ~raced' => KeptShown'
      <4>. HIDE DEF entry
      <4>. QED
        BY <1>1, <2>5, <3>3, PushKept
    <3>5. ASSUME ~raced', NEW d \in Callers, draft'[d].kind = "compaction"
          PROVE  draft'[d].ref \in {0} \cup IdsIn(Branch(leaf)')
      <4>1. d # c /\ draft'[d] = draft[d]
        BY <2>2, <2>3, <3>5
      <4>2. Compacts(draft[d]) /\ ~Compacts(entry)
        BY <1>2, <3>5, <4>1 DEF Refs, Compacts
      <4>3. entry.parent = leaf /\ ~raced
        BY <2>5, <3>5
      <4>4. draft[d].ref \in {0} \cup IdsIn(Branch(leaf))
        BY <1>2, <3>5, <4>1, <4>3 DEF KeptInv
      <4>5. IdsIn(Branch(leaf)) \subseteq IdsIn(Branch(leaf)')
        <5>. HIDE DEF entry
        <5>. QED
          BY <1>1, <2>5, <3>1, <4>2, <4>3, BranchGrows
      <4>. QED
        BY <4>1, <4>4, <4>5
    <3>6. KeptInv'
      BY <3>4, <3>5 DEF KeptInv
    <3>. QED
      BY <1>1, <3>2, <3>6 DEF ReadInv
  <2>. QED
    BY <2>1, <2>4, <2>5
<1>8. ASSUME NEW c \in Callers, MoveTo(c) PROVE ReadInv'
  <2>1. PICK target \in Targets :
          /\ Exclusive
          /\ Push(Entry(created + 1, leaf, "leaf", target))
          /\ \/ UNCHANGED draft
             \/ draft' = [draft EXCEPT ![c] = Entry(0, target, "branchSummary", target)]
          /\ UNCHANGED raced
    BY <1>8 DEF MoveTo, SetLeaf, Draft, Create
  <2>. DEFINE marker == Entry(created + 1, leaf, "leaf", target)
  <2>2. /\ marker.id # 0 /\ marker.kind = "leaf" /\ marker.parent = leaf
    BY <1>2 DEF Entry, Refs
  <2>3. ReopenSame' /\ (~raced' => KeptShown')
    <3>1. Push(marker)
      BY <2>1
    <3>. HIDE DEF marker
    <3>2. ReopenSame'
      BY <1>2, <2>2, <3>1, PushReopens
    <3>3. ~raced' => ~raced /\ marker.parent = leaf
      BY <2>1, <2>2
    <3>4. ~raced' => KeptShown'
      BY <1>1, <2>2, <3>1, <3>3, PushKept
    <3>. QED
      BY <3>2, <3>4
  <2>4. \A d \in Callers : draft'[d].kind # "compaction"
    BY <1>2, <2>1 DEF Shape, Exclusive, Entry
  <2>. QED
    BY <1>1, <2>3, <2>4 DEF ReadInv, KeptInv
<1>. QED
  BY <1>3, <1>4, <1>5, <1>6, <1>7, <1>8 DEF Next

\* The invariant gives what is promised.
LEMMA ReadInvReads == ReadInv => ReadsSame
<1>. SUFFICES ASSUME ReadInv PROVE ReadsSame
  OBVIOUS
<1>1. TreeInv /\ RefsTyped
  BY RefsAreTyped DEF ReadInv
<1>2. CompactionsKeep
  <2>1. ~raced => KeptShown
    BY DEF ReadInv, KeptInv
  <2>. QED
    BY <2>1 DEF CompactionsKeep, KeptShown, Keeps, Branch, Up
<1>. QED
  BY <1>1, <1>2, SameContext DEF ReadInv, ReadsSame

\* However appends, compactions and moves interleave, reopening the log gives the
\* leaf and labels of memory; as long as no append raced with another each
\* compaction keeps an entry of its branch; and where those of a path do so, the
\* branch that is cut there gives the model the messages of the whole path, and
\* the settings of it or, of one chosen before the cut, the default.
THEOREM AlwaysReadsSame == Spec => []ReadsSame
  BY ReadInit, ReadStep, ReadInvReads, PTL DEF Spec

-----------------------------------------------------------------------------
(* The rows of a branch (SqliteSession)                                    *)

\* f gives what the rows among the first entries show.
Shows(f, entries, rows) ==
  f = [p \in 0 .. Len(entries) |->
         IF p = 0 THEN <<>>
         ELSE IF p \in rows THEN Extended(f[p - 1], entries[p])
         ELSE f[p - 1]]

\* There is such a function, and it is the one that is read.
LEMMA RowsAre ==
  ASSUME NEW S, NEW entries \in Seq(S), NEW rows
  PROVE  \E f : Shows(f, entries, rows) /\ RowsOf(entries, rows) = f[Len(entries)]
<1>. DEFINE n == Len(entries)
            V == Seq(S)
            up == [p \in 1 .. n |-> p - 1]
            Step(path, p) == IF p \in rows THEN Extended(path, entries[p]) ELSE path
            step == [p \in 1 .. n |-> [path \in V |-> Step(path, p)]]
            start == <<>>
<1>1. n \in Nat /\ \A p \in 1 .. n : entries[p] \in S
  OBVIOUS
<1>2. \A p \in 1 .. n : up[p] = p - 1 /\ up[p] \in 0 .. p - 1
  OBVIOUS
<1>3. \A p \in 1 .. n : \A path \in V : step[p][path] = Step(path, p) /\ step[p][path] \in V
  BY <1>1 DEF Extended
<1>4. start \in V
  OBVIOUS
<1>5. PICK f : IsWalk(f, n, V, start, up, step)
  <2>. HIDE DEF n, V, up, step, start
  <2>1. Walkable(n, V, start, up, step)
    BY <1>1, <1>2, <1>3, <1>4 DEF Walkable
  <2>. QED
    BY <2>1, WalkExists
<1>6. f \in [0 .. n -> V] /\ f[0] = start
      /\ \A p \in 1 .. n : f[p] = step[p][f[up[p]]]
  <2>. HIDE DEF V, up, step, start
  <2>. QED
    BY <1>1, <1>5 DEF IsWalk
<1>7. \A p \in 1 .. n : p - 1 \in 0 .. n /\ f[p] = Step(f[p - 1], p)
  <2>. HIDE DEF V, up, step, start, Step, n
  <2>1. \A p \in 1 .. n : p - 1 \in 0 .. n
    BY <1>1
  <2>. QED
    BY <1>1, <1>2, <1>3, <1>6, <2>1
<1>8. f = [p \in 0 .. Len(entries) |->
             IF p = 0 THEN <<>>
             ELSE IF p \in rows THEN Extended(f[p - 1], entries[p])
             ELSE f[p - 1]]
  BY <1>1, <1>6, <1>7
<1>9. \E g : g = [p \in 0 .. Len(entries) |->
                    IF p = 0 THEN <<>>
                    ELSE IF p \in rows THEN Extended(g[p - 1], entries[p])
                    ELSE g[p - 1]]
  BY <1>8
<1>10. \E g : /\ g = [p \in 0 .. Len(entries) |->
                        IF p = 0 THEN <<>>
                        ELSE IF p \in rows THEN Extended(g[p - 1], entries[p])
                        ELSE g[p - 1]]
              /\ RowsOf(entries, rows) = g[Len(entries)]
  BY <1>9, Zenon DEF RowsOf
<1>. QED
  BY <1>10 DEF Shows

\* It shows entries, step by step.
LEMMA ShowsIs ==
  ASSUME NEW S, NEW entries \in Seq(S), NEW rows, NEW f, Shows(f, entries, rows)
  PROVE  /\ f[0] = <<>>
         /\ \A p \in 0 .. Len(entries) : f[p] \in Seq(S)
         /\ \A p \in 1 .. Len(entries) :
              /\ p \in rows => f[p] = Extended(f[p - 1], entries[p])
              /\ p \notin rows => f[p] = f[p - 1]
<1>. DEFINE n == Len(entries)
            up == [p \in 1 .. n |-> p - 1]
            Good == {p \in 0 .. n : f[p] \in Seq(S)}
<1>1. n \in Nat /\ \A p \in 1 .. n : entries[p] \in S
  OBVIOUS
<1>2. \A p \in 1 .. n : up[p] = p - 1 /\ up[p] \in 0 .. p - 1
  OBVIOUS
<1>3. /\ f[0] = <<>>
      /\ \A p \in 1 .. n :
           /\ p \in rows => f[p] = Extended(f[p - 1], entries[p])
           /\ p \notin rows => f[p] = f[p - 1]
  <2>1. \A p \in 0 .. n :
          f[p] = IF p = 0 THEN <<>>
                 ELSE IF p \in rows THEN Extended(f[p - 1], entries[p])
                 ELSE f[p - 1]
    BY DEF Shows
  <2>. HIDE DEF n
  <2>. QED
    BY <1>1, <2>1
<1>4. 0 \in Good
  <2>1. <<>> \in Seq(S) /\ 0 \in 0 .. n
    BY <1>1
  <2>. QED
    BY <1>3, <2>1
<1>5. ASSUME NEW p \in 1 .. n, up[p] \in Good PROVE p \in Good
  <2>1. f[p - 1] \in Seq(S) /\ entries[p] \in S
    BY <1>1, <1>2, <1>5
  <2>2. Extended(f[p - 1], entries[p]) \in Seq(S)
    BY <2>1 DEF Extended
  <2>. QED
    BY <1>3, <2>1, <2>2
<1>6. 0 .. n \subseteq Good
  <2>. HIDE DEF n, up, Good
  <2>. QED
    BY <1>1, <1>2, <1>4, <1>5, Climb
<1>. QED
  BY <1>3, <1>6

\* Rows that are the same up to a place, and none after it, show the same.
LEMMA ShowsAgree ==
  ASSUME NEW S, NEW entries \in Seq(S), NEW rows, NEW f, Shows(f, entries, rows),
         NEW others \in Seq(S), NEW kept, NEW g, Shows(g, others, kept),
         NEW j \in 0 .. Len(entries), NEW u \in 0 .. Len(others), u <= j,
         \A k \in 1 .. u : entries[k] = others[k] /\ (k \in rows <=> k \in kept),
         \A k \in u + 1 .. j : k \notin rows
  PROVE  f[j] = g[u]
<1>. DEFINE up == [p \in 1 .. j |-> p - 1]
            Same == {p \in 0 .. j : p <= u => f[p] = g[p]}
            Still == {p \in 0 .. j : u <= p => f[p] = f[u]}
<1>1. j \in Nat /\ u \in Nat /\ Len(entries) \in Nat /\ Len(others) \in Nat
  OBVIOUS
<1>2. \A p \in 1 .. j : up[p] = p - 1 /\ up[p] \in 0 .. p - 1
  OBVIOUS
<1>3. /\ f[0] = <<>> /\ g[0] = <<>>
      /\ \A p \in 1 .. Len(entries) :
           /\ p \in rows => f[p] = Extended(f[p - 1], entries[p])
           /\ p \notin rows => f[p] = f[p - 1]
      /\ \A p \in 1 .. Len(others) :
           /\ p \in kept => g[p] = Extended(g[p - 1], others[p])
           /\ p \notin kept => g[p] = g[p - 1]
  BY ShowsIs
<1>4. 0 .. j \subseteq Same
  <2>1. 0 \in Same
    BY <1>1, <1>3
  <2>2. ASSUME NEW p \in 1 .. j, up[p] \in Same, p <= u PROVE f[p] = g[p]
    <3>1. f[p - 1] = g[p - 1]
      BY <1>1, <1>2, <2>2
    <3>2. p \in 1 .. u /\ p \in 1 .. Len(entries) /\ p \in 1 .. Len(others)
      BY <1>1, <2>2
    <3>. QED
      BY <1>3, <3>1, <3>2
  <2>3. \A p \in 1 .. j : up[p] \in Same => p \in Same
    BY <1>1, <2>2
  <2>. HIDE DEF up, Same
  <2>. QED
    BY <1>1, <1>2, <2>1, <2>3, Climb
<1>5. 0 .. j \subseteq Still
  <2>1. 0 \in Still
    BY <1>1
  <2>2. ASSUME NEW p \in 1 .. j, up[p] \in Still, u <= p PROVE f[p] = f[u]
    <3>1. CASE p = u
      BY <3>1
    <3>2. CASE p # u
      <4>1. p \in u + 1 .. j /\ p \in 1 .. Len(entries) /\ u <= p - 1
        BY <1>1, <2>2, <3>2
      <4>2. f[p - 1] = f[u]
        BY <1>2, <2>2, <4>1
      <4>. QED
        BY <1>3, <4>1, <4>2
    <3>. QED
      BY <3>1, <3>2
  <2>3. \A p \in 1 .. j : up[p] \in Still => p \in Still
    BY <1>1, <2>2
  <2>. HIDE DEF up, Still
  <2>. QED
    BY <1>1, <1>2, <2>1, <2>3, Climb
<1>. QED
  BY <1>1, <1>4, <1>5

\* Any function that shows the rows gives what is read.
LEMMA RowsShow ==
  ASSUME NEW S, NEW entries \in Seq(S), NEW rows, NEW f, Shows(f, entries, rows)
  PROVE  RowsOf(entries, rows) = f[Len(entries)] /\ RowsOf(entries, rows) \in Seq(S)
<1>1. PICK g : Shows(g, entries, rows) /\ RowsOf(entries, rows) = g[Len(entries)]
  BY RowsAre
<1>. DEFINE n == Len(entries)
<1>2. n \in 0 .. Len(entries) /\ n <= n /\ \A k \in n + 1 .. n : k \notin rows
  OBVIOUS
<1>3. g[n] = f[n]
  <2>. HIDE DEF n
  <2>. QED
    BY <1>1, <1>2, ShowsAgree
<1>4. f[n] \in Seq(S)
  BY <1>2, ShowsIs
<1>. QED
  BY <1>1, <1>3, <1>4

\* A row for an appended entry shows it at the end.
LEMMA RowsGrow ==
  ASSUME NEW S, NEW entries \in Seq(S), NEW entry \in S,
         NEW rows, rows \subseteq 1 .. Len(entries),
         NEW r, r = rows \cup {Len(entries) + 1}
  PROVE  RowsOf(Append(entries, entry), r) = Extended(RowsOf(entries, rows), entry)
<1>. DEFINE n == Len(entries)
            e == Append(entries, entry)
<1>1. /\ n \in Nat /\ e \in Seq(S) /\ Len(e) = n + 1 /\ e[n + 1] = entry
      /\ \A k \in 1 .. n : e[k] = entries[k]
  BY AppendProperties
<1>. HIDE DEF e
<1>2. PICK f : Shows(f, entries, rows) /\ RowsOf(entries, rows) = f[n]
  BY RowsAre
<1>3. PICK g : Shows(g, e, r) /\ RowsOf(e, r) = g[n + 1]
  BY <1>1, RowsAre
<1>4. g[n] = f[n]
  <2>1. /\ n \in 0 .. Len(e) /\ n \in 0 .. Len(entries) /\ n <= n
        /\ \A k \in 1 .. n : e[k] = entries[k] /\ (k \in r <=> k \in rows)
        /\ \A k \in n + 1 .. n : k \notin r
    BY <1>1
  <2>. HIDE DEF n
  <2>. QED
    BY <1>1, <1>2, <1>3, <2>1, ShowsAgree
<1>5. n + 1 \in r /\ n + 1 \in 1 .. Len(e)
  BY <1>1
<1>6. g[n + 1] = Extended(g[(n + 1) - 1], e[n + 1])
  BY <1>1, <1>3, <1>5, ShowsIs
<1>7. (n + 1) - 1 = n
  BY <1>1
<1>8. f[n] \in Seq(S)
  BY <1>1, <1>2, ShowsIs
<1>. QED
  BY <1>1, <1>2, <1>3, <1>4, <1>6, <1>7, <1>8 DEF e

\* An entry that both see keeps the one the end of the other.
LEMMA TailExtended ==
  ASSUME NEW tail \in Seq(Logged), NEW path \in Seq(Logged), TailOf(tail, path),
         NEW q \in DOMAIN log
  PROVE  TailOf(Extended(tail, log[q]), Extended(path, log[q]))
<1>. DEFINE t == Extended(tail, log[q])
            w == Extended(path, log[q])
<1>1. CASE log[q].kind = "leaf"
  BY <1>1, Extends
<1>2. CASE log[q].kind # "leaf"
  <2>1. /\ Len(t) = Len(tail) + 1 /\ Len(w) = Len(path) + 1
        /\ t[Len(tail) + 1] = log[q] /\ w[Len(path) + 1] = log[q]
        /\ \A k \in 1 .. Len(tail) : t[k] = tail[k]
        /\ \A k \in 1 .. Len(path) : w[k] = path[k]
    BY <1>2, Extends
  <2>. HIDE DEF t, w
  <2>2. Len(tail) \in Nat /\ Len(path) \in Nat /\ Len(tail) <= Len(path)
    BY DEF TailOf
  <2>3. ASSUME NEW k \in 1 .. Len(t) PROVE t[k] = w[Len(w) - Len(t) + k]
    <3>1. CASE k = Len(tail) + 1
      <4>1. Len(w) - Len(t) + k = Len(path) + 1
        BY <2>1, <2>2, <3>1
      <4>. QED
        BY <2>1, <3>1, <4>1
    <3>2. CASE k # Len(tail) + 1
      <4>1. k \in 1 .. Len(tail) /\ Len(w) - Len(t) + k = Len(path) - Len(tail) + k
        BY <2>1, <2>2, <3>2
      <4>2. Len(path) - Len(tail) + k \in 1 .. Len(path)
        BY <2>2, <4>1
      <4>3. tail[k] = path[Len(path) - Len(tail) + k]
        BY <4>1 DEF TailOf
      <4>. QED
        BY <2>1, <4>1, <4>2, <4>3
    <3>. QED
      BY <2>1, <2>2, <3>1, <3>2
  <2>4. Len(t) <= Len(w)
    BY <2>1, <2>2
  <2>5. TailOf(t, w)
    BY <2>3, <2>4 DEF TailOf
  <2>. QED
    BY <2>5 DEF t, w
<1>. QED
  BY <1>1, <1>2

\* The walk with a stop shows no more than the walk without one.
LEMMA CutShorter ==
  ASSUME TreeInv, RefsTyped, NEW p \in 0 .. Len(log), NEW stop \in Stops
  PROVE  TailOf(Cut[p][stop], Cut[p][0])
<1>. DEFINE n == Len(log)
            up == [q \in 1 .. n |-> Up(q)]
            Good == {q \in 0 .. n : \A s \in Stops : TailOf(Cut[q][s], Cut[q][0])}
<1>0. 0 \in Stops
  BY DEF Stops
<1>1. n \in Nat /\ DOMAIN log = 1 .. n
  BY LogIsFinite
<1>2. \A q \in 1 .. n : up[q] = Up(q) /\ up[q] \in 0 .. q - 1
  BY <1>1, Positions
<1>3. 0 \in Good
  <2>1. \A s \in Stops : Cut[0][s] = <<>>
    BY CutIs
  <2>2. TailOf(<<>>, <<>>)
    BY DEF TailOf
  <2>. QED
    BY <1>0, <1>1, <2>1, <2>2
<1>4. ASSUME NEW q \in 1 .. n, up[q] \in Good PROVE q \in Good
  <2>1. q \in DOMAIN log /\ Up(q) \in 0 .. n /\ log[q].id # 0
    <3>1. q \in DOMAIN log /\ Up(q) \in 0 .. n
      BY <1>1, <1>2
    <3>. QED
      BY <3>1, Positions
  <2>2. ASSUME NEW s \in Stops PROVE TailOf(Cut[q][s], Cut[q][0])
    <3>. DEFINE above == Cut[Up(q)][StopAfter(log[q], s)]
                all == Cut[Up(q)][StopAfter(log[q], 0)]
    <3>1. Cut[q][s] \in Seq(Logged) /\ Cut[q][0] \in Seq(Logged)
      BY <1>0, <1>1, <2>1, CutWithin
    <3>2. StopAfter(log[q], s) \in Stops /\ StopAfter(log[q], 0) \in Stops
      BY <1>0, <2>1, CutIs
    <3>3. above \in Seq(Logged) /\ all \in Seq(Logged)
      BY <2>1, <3>2, CutWithin
    <3>4. CASE Ends(log[q], 0)
      <4>1. Ends(log[q], s)
        BY <2>1, <3>4 DEF Ends
      <4>2. Cut[q][s] = Cut[q][0]
        BY <1>0, <2>1, <3>4, <4>1, CutIs
      <4>. QED
        BY <3>1, <4>2 DEF TailOf
    <3>5. CASE ~Ends(log[q], 0) /\ Ends(log[q], s)
      <4>1. Cut[q][s] = Extended(<<>>, log[q]) /\ Cut[q][0] = Extended(all, log[q])
        BY <1>0, <2>1, <3>5, CutIs
      <4>2. TailOf(<<>>, all)
        BY <3>3 DEF TailOf
      <4>3. <<>> \in Seq(Logged)
        OBVIOUS
      <4>. HIDE DEF all
      <4>4. TailOf(Extended(<<>>, log[q]), Extended(all, log[q]))
        BY <2>1, <3>3, <4>2, <4>3, TailExtended
      <4>. QED
        BY <4>1, <4>4
    <3>6. CASE ~Ends(log[q], 0) /\ ~Ends(log[q], s)
      <4>1. Cut[q][s] = Extended(above, log[q]) /\ Cut[q][0] = Extended(all, log[q])
        BY <1>0, <2>1, <3>6, CutIs
      <4>2. TailOf(above, all)
        <5>1. CASE log[q].kind = "compaction"
          <6>1. StopAfter(log[q], s) = StopAfter(log[q], 0)
            BY <5>1 DEF StopAfter
          <6>. QED
            BY <3>3, <6>1 DEF TailOf
        <5>2. CASE log[q].kind # "compaction"
          <6>1. StopAfter(log[q], s) = s /\ StopAfter(log[q], 0) = 0
            BY <5>2 DEF StopAfter
          <6>2. TailOf(Cut[Up(q)][s], Cut[Up(q)][0])
            BY <1>2, <1>4
          <6>. QED
            BY <6>1, <6>2
        <5>. QED
          BY <5>1, <5>2
      <4>. HIDE DEF above, all
      <4>3. TailOf(Extended(above, log[q]), Extended(all, log[q]))
        BY <2>1, <3>3, <4>2, TailExtended
      <4>. QED
        BY <4>1, <4>3
    <3>. QED
      BY <3>4, <3>5, <3>6
  <2>. QED
    BY <1>1, <2>2
<1>5. 0 .. n \subseteq Good
  <2>. HIDE DEF n, up, Good
  <2>. QED
    BY <1>1, <1>2, <1>3, <1>4, Climb
<1>. QED
  BY <1>5

\* The rows of the entries that a walk shows.
RowsIn(path) == {p \in DOMAIN log : log[p].id \in IdsIn(path)}

\* Reading the rows of a walk, in the order of the log, gives the walk.
LEMMA RowsOfCut ==
  ASSUME TreeInv, RefsTyped, NEW p \in 0 .. Len(log), NEW stop \in Stops
  PROVE  RowsOf(log, RowsIn(Cut[p][stop])) = Cut[p][stop]
<1>. DEFINE n == Len(log)
            up == [q \in 1 .. n |-> Up(q)]
            Reads(q, s) ==
              \A f : Shows(f, log, RowsIn(Cut[q][s])) => f[q] = Cut[q][s]
            Good == {q \in 0 .. n : \A s \in Stops : Reads(q, s)}
<1>0. IdsIn(<<>>) = {}
  BY DEF IdsIn
<1>1. n \in Nat /\ DOMAIN log = 1 .. n
  BY LogIsFinite
<1>2. \A q \in 1 .. n : up[q] = Up(q) /\ up[q] \in 0 .. q - 1
  BY <1>1, Positions
<1>3. log \in Seq(Logged)
  BY DEF TreeInv, Shape, Logged
<1>4. \A q \in 1 .. n : log[q].id # 0 /\ Position(log[q].id) = q
  BY <1>1, Positions
<1>5. ASSUME NEW q \in 0 .. n, NEW s \in Stops
      PROVE  RowsIn(Cut[q][s]) \subseteq 1 .. q
  <2>1. Within(Cut[q][s], q)
    BY CutWithin
  <2>2. ASSUME NEW r \in RowsIn(Cut[q][s]) PROVE r \in 1 .. q
    <3>1. r \in 1 .. n /\ log[r].id \in IdsIn(Cut[q][s])
      BY <1>1 DEF RowsIn
    <3>2. PICK k \in DOMAIN Cut[q][s] : Cut[q][s][k].id = log[r].id
      BY <3>1 DEF IdsIn
    <3>3. PICK j \in 1 .. q : Cut[q][s][k] = log[j]
      BY <2>1 DEF Within
    <3>4. j \in 1 .. n /\ log[j].id = log[r].id
      BY <1>1, <3>2, <3>3
    <3>. QED
      BY <1>4, <3>1, <3>4
  <2>. QED
    BY <2>2
<1>6. 0 \in Good
  <2>1. \A s \in Stops : Cut[0][s] = <<>>
    BY CutIs
  <2>2. ASSUME NEW s \in Stops, NEW f, Shows(f, log, RowsIn(Cut[0][s]))
        PROVE  f[0] = Cut[0][s]
    BY <1>3, <2>1, <2>2, ShowsIs
  <2>. QED
    BY <1>1, <2>2
<1>7. ASSUME NEW q \in 1 .. n, up[q] \in Good PROVE q \in Good
  <2>0. q \in DOMAIN log /\ Up(q) \in 0 .. n /\ Up(q) \in 0 .. q - 1 /\ q - 1 \in 0 .. n
    BY <1>1, <1>2
  <2>1. ASSUME NEW s \in Stops, NEW f, Shows(f, log, RowsIn(Cut[q][s]))
        PROVE  f[q] = Cut[q][s]
    <3>. DEFINE above == Cut[Up(q)][StopAfter(log[q], s)]
    <3>1. StopAfter(log[q], s) \in Stops
      BY <2>0, CutIs
    <3>2. \E path, u :
            /\ path \in Seq(Logged) /\ u \in 0 .. q - 1
            /\ Cut[q][s] = Extended(path, log[q])
            /\ RowsIn(path) \subseteq 1 .. u
            /\ \A g : Shows(g, log, RowsIn(path)) => g[u] = path
      <4>1. CASE Ends(log[q], s)
        <5>1. Cut[q][s] = Extended(<<>>, log[q])
          BY <2>0, <4>1, CutIs
        <5>2. RowsIn(<<>>) \subseteq 1 .. 0
          BY <1>0 DEF RowsIn
        <5>3. \A g : Shows(g, log, RowsIn(<<>>)) => g[0] = <<>>
          BY <1>3, ShowsIs
        <5>4. <<>> \in Seq(Logged) /\ 0 \in 0 .. q - 1
          BY <1>1
        <5>. QED
          BY <5>1, <5>2, <5>3, <5>4
      <4>2. CASE ~Ends(log[q], s)
        <5>1. Cut[q][s] = Extended(above, log[q])
          BY <2>0, <4>2, CutIs
        <5>2. above \in Seq(Logged)
          BY <2>0, <3>1, CutWithin
        <5>3. RowsIn(above) \subseteq 1 .. Up(q)
          BY <1>5, <2>0, <3>1
        <5>4. Reads(Up(q), StopAfter(log[q], s))
          BY <1>2, <1>7, <3>1
        <5>. QED
          BY <2>0, <5>1, <5>2, <5>3, <5>4
      <4>. QED
        BY <4>1, <4>2
    <3>3. PICK path, u :
            /\ path \in Seq(Logged) /\ u \in 0 .. q - 1
            /\ Cut[q][s] = Extended(path, log[q])
            /\ RowsIn(path) \subseteq 1 .. u
            /\ \A g : Shows(g, log, RowsIn(path)) => g[u] = path
      BY <3>2
    <3>4. PICK g : Shows(g, log, RowsIn(path))
      BY <1>3, RowsAre
    <3>5. g[u] = path
      BY <3>3, <3>4
    <3>6. \A k \in 1 .. n : k \in RowsIn(Cut[q][s]) <=>
            k \in RowsIn(path) \/ (k = q /\ log[q].kind # "leaf")
      <4>1. CASE log[q].kind = "leaf"
        <5>1. Cut[q][s] = path
          BY <2>0, <3>3, <4>1, Extends
        <5>. QED
          BY <4>1, <5>1
      <4>2. CASE log[q].kind # "leaf"
        <5>1. IdsIn(Cut[q][s]) = IdsIn(path) \cup {log[q].id}
          <6>1. path \in Seq(Logged) /\ Cut[q][s] = Extended(path, log[q])
            BY <3>3
          <6>2. IdsIn(Extended(path, log[q])) = IdsIn(path) \cup {log[q].id}
            BY <2>0, <4>2, <6>1, Extends
          <6>. QED
            BY <6>1, <6>2
        <5>2. \A k \in 1 .. n : log[k].id = log[q].id => k = q
          BY <1>4
        <5>. QED
          BY <1>1, <4>2, <5>1, <5>2 DEF RowsIn
      <4>. QED
        BY <4>1, <4>2
    <3>7. /\ q - 1 \in 0 .. n /\ u \in 0 .. n /\ u <= q - 1
          /\ \A k \in 1 .. u : k \in RowsIn(Cut[q][s]) <=> k \in RowsIn(path)
          /\ \A k \in u + 1 .. q - 1 : k \notin RowsIn(Cut[q][s])
      <4>1. u \in Nat /\ q \in Nat /\ u <= q - 1 /\ q <= n
        BY <1>1, <3>3
      <4>2. \A k \in 1 .. u : k \in 1 .. n /\ k # q
        BY <1>1, <4>1
      <4>3. \A k \in u + 1 .. q - 1 : k \in 1 .. n /\ k # q /\ k \notin 1 .. u
        BY <1>1, <4>1
      <4>. HIDE DEF n
      <4>4. \A k \in 1 .. u : k \in RowsIn(Cut[q][s]) <=> k \in RowsIn(path)
        BY <3>6, <4>2
      <4>5. \A k \in u + 1 .. q - 1 : k \notin RowsIn(Cut[q][s])
        BY <3>3, <3>6, <4>3
      <4>6. q - 1 \in 0 .. n /\ u \in 0 .. n
        BY <1>1, <4>1
      <4>. QED
        BY <4>1, <4>4, <4>5, <4>6
    <3>8. f[q - 1] = g[u]
      <4>1. \A k \in 1 .. u : log[k] = log[k]
        OBVIOUS
      <4>. QED
        BY <1>3, <2>1, <3>4, <3>7, <4>1, ShowsAgree
    <3>9. /\ q \in RowsIn(Cut[q][s]) => f[q] = Extended(f[q - 1], log[q])
          /\ q \notin RowsIn(Cut[q][s]) => f[q] = f[q - 1]
      BY <1>3, <2>1, ShowsIs
    <3>10. q \in RowsIn(Cut[q][s]) <=> log[q].kind # "leaf"
      <4>1. q \notin 1 .. u
        BY <1>1, <3>3
      <4>. QED
        BY <3>3, <3>6, <4>1
    <3>11. log[q].kind = "leaf" => Cut[q][s] = path
      BY <3>3, <2>0, Extends
    <3>. QED
      BY <3>3, <3>5, <3>8, <3>9, <3>10, <3>11
  <2>. QED
    BY <1>1, <2>1
<1>8. 0 .. n \subseteq Good
  <2>. HIDE DEF n, up, Good
  <2>. QED
    BY <1>1, <1>2, <1>6, <1>7, Climb
<1>. DEFINE rows == RowsIn(Cut[p][stop])
<1>9. PICK f : Shows(f, log, rows) /\ RowsOf(log, rows) = f[n]
  BY <1>3, RowsAre
<1>10. f[p] = Cut[p][stop]
  BY <1>8, <1>9
<1>11. f[n] = f[p]
  <2>1. /\ n \in 0 .. n /\ p \in 0 .. n /\ p <= n
        /\ \A k \in p + 1 .. n : k \notin rows
    <3>1. rows \subseteq 1 .. p
      BY <1>5
    <3>. HIDE DEF rows
    <3>. QED
      BY <1>1, <3>1
  <2>. HIDE DEF rows
  <2>. QED
    BY <1>3, <1>9, <2>1, ShowsAgree
<1>. QED
  BY <1>9, <1>10, <1>11

\* An entry at the end of both keeps a path covered, when the tail has what a
\* compaction kept.
LEMMA CoversGrow ==
  ASSUME NEW S, NEW tail \in Seq(S), NEW path \in Seq(S), NEW entry \in S,
         TailOf(tail, path),
         ~IsPoint(entry) => Covers(tail, path),
         entry.kind = "compaction" =>
           \A k \in 1 .. Len(path) :
             path[k].id = entry.ref => k > Len(path) - Len(tail)
  PROVE  Covers(Append(tail, entry), Append(path, entry))
<1>. DEFINE t == Append(tail, entry)
            w == Append(path, entry)
            d == Len(path) - Len(tail)
<1>1. /\ Len(tail) \in Nat /\ Len(path) \in Nat /\ Len(tail) <= Len(path)
      /\ Len(t) = Len(tail) + 1 /\ Len(w) = Len(path) + 1
      /\ t[Len(tail) + 1] = entry /\ w[Len(path) + 1] = entry
      /\ \A k \in 1 .. Len(tail) : t[k] = tail[k]
      /\ \A k \in 1 .. Len(path) : w[k] = path[k]
      /\ DOMAIN w = 1 .. Len(path) + 1
      /\ DOMAIN path = 1 .. Len(path)
  BY AppendProperties DEF TailOf
<1>. SUFFICES Covers(t, w)
  OBVIOUS
<1>. HIDE DEF t, w
<1>2. Len(w) - Len(t) = d /\ Len(t) <= Len(w)
  BY <1>1
<1>3. ASSUME NEW k \in 1 .. Len(t) PROVE t[k] = w[Len(w) - Len(t) + k]
  <2>1. CASE k = Len(tail) + 1
    <3>1. Len(w) - Len(t) + k = Len(path) + 1
      BY <1>1, <2>1
    <3>. QED
      BY <1>1, <2>1, <3>1
  <2>2. CASE k # Len(tail) + 1
    <3>1. k \in 1 .. Len(tail) /\ Len(w) - Len(t) + k = d + k
      BY <1>1, <2>2
    <3>2. d + k \in 1 .. Len(path)
      BY <1>1, <3>1
    <3>3. tail[k] = path[d + k]
      BY <3>1 DEF TailOf
    <3>. QED
      BY <1>1, <3>1, <3>2, <3>3
  <2>. QED
    BY <2>1, <2>2
<1>4. TailOf(t, w)
  BY <1>2, <1>3 DEF TailOf
<1>5. CASE IsPoint(entry)
  <2>1. ~ \A k \in DOMAIN w : ~IsPoint(w[k])
    BY <1>1, <1>5
  <2>2. ASSUME NEW l \in DOMAIN w, IsLastPoint(w, l)
        PROVE  /\ l > Len(w) - Len(t)
               /\ w[l].kind = "compaction" =>
                    \A k \in 1 .. l - 1 : w[k].id = w[l].ref => k > Len(w) - Len(t)
    <3>1. l = Len(path) + 1
      <4>1. Len(path) + 1 \in DOMAIN w /\ IsPoint(w[Len(path) + 1])
        BY <1>1, <1>5
      <4>2. ~(Len(path) + 1 > l)
        BY <2>2, <4>1 DEF IsLastPoint
      <4>. QED
        BY <1>1, <2>2, <4>2
    <3>2. w[l] = entry /\ l > d
      BY <1>1, <3>1
    <3>3. ASSUME entry.kind = "compaction", NEW k \in 1 .. l - 1, w[k].id = entry.ref
          PROVE  k > d
      <4>1. k \in 1 .. Len(path) /\ w[k] = path[k]
        BY <1>1, <3>1, <3>3
      <4>. QED
        BY <3>3, <4>1
    <3>. QED
      BY <1>2, <3>2, <3>3
  <2>. QED
    BY <1>4, <2>1, <2>2 DEF Covers
<1>6. CASE ~IsPoint(entry)
  <2>0. Covers(tail, path)
    BY <1>6
  <2>1. ASSUME \A k \in DOMAIN w : ~IsPoint(w[k]) PROVE Len(t) = Len(w)
    <3>1. \A k \in DOMAIN path : ~IsPoint(path[k])
      <4>1. \A k \in DOMAIN path : k \in DOMAIN w /\ w[k] = path[k]
        BY <1>1
      <4>. QED
        BY <2>1, <4>1
    <3>2. Len(tail) = Len(path)
      BY <2>0, <3>1 DEF Covers
    <3>. QED
      BY <1>1, <3>2
  <2>2. ASSUME NEW l \in DOMAIN w, IsLastPoint(w, l)
        PROVE  /\ l > Len(w) - Len(t)
               /\ w[l].kind = "compaction" =>
                    \A k \in 1 .. l - 1 : w[k].id = w[l].ref => k > Len(w) - Len(t)
    <3>1. l # Len(path) + 1
      BY <1>1, <1>6, <2>2 DEF IsLastPoint
    <3>2. l \in DOMAIN path /\ w[l] = path[l]
      BY <1>1, <2>2, <3>1
    <3>3. IsLastPoint(path, l)
      <4>1. \A m \in DOMAIN path : m \in DOMAIN w /\ w[m] = path[m]
        BY <1>1
      <4>. QED
        BY <2>2, <3>2, <4>1 DEF IsLastPoint
    <3>4. \A k \in 1 .. l - 1 : w[k] = path[k]
      BY <1>1, <3>2
    <3>5. /\ l > d
          /\ path[l].kind = "compaction" =>
               \A k \in 1 .. l - 1 : path[k].id = path[l].ref => k > d
      BY <2>0, <3>2, <3>3 DEF Covers
    <3>. QED
      BY <1>2, <3>2, <3>4, <3>5
  <2>. QED
    BY <1>4, <2>1, <2>2 DEF Covers
<1>. QED
  BY <1>5, <1>6

\* The end of an end is an end.
LEMMA TailsOfTails ==
  ASSUME NEW S, NEW a \in Seq(S), NEW b \in Seq(S), NEW c \in Seq(S),
         TailOf(a, b), TailOf(b, c)
  PROVE  TailOf(a, c)
<1>1. /\ Len(a) \in Nat /\ Len(b) \in Nat /\ Len(c) \in Nat
      /\ Len(a) <= Len(b) /\ Len(b) <= Len(c)
  BY DEF TailOf
<1>2. ASSUME NEW k \in 1 .. Len(a) PROVE a[k] = c[Len(c) - Len(a) + k]
  <2>1. a[k] = b[Len(b) - Len(a) + k]
    BY DEF TailOf
  <2>2. PICK j : j = Len(b) - Len(a) + k
    OBVIOUS
  <2>3. j \in 1 .. Len(b) /\ Len(c) - Len(b) + j = Len(c) - Len(a) + k
    BY <1>1, <2>2
  <2>4. b[j] = c[Len(c) - Len(b) + j]
    BY <2>3 DEF TailOf
  <2>. QED
    BY <2>1, <2>2, <2>3, <2>4
<1>. QED
  BY <1>1, <1>2 DEF TailOf

\* A path that the branch of the parent covers is covered by the branch of the child
\* when the child ends both, and a compaction keeps an entry of the branch or none.
LEMMA PathGrows ==
  ASSUME ReadInv, TreeInv', Refs', NEW entry, Push(entry),
         entry.parent \in {0} \cup IdsIn(log), entry.kind # "leaf",
         NEW base \in Seq(Logged), Distinct(base),
         Covers(Cut[Position(entry.parent)][0], base),
         entry.kind = "compaction" /\ entry.ref \in IdsIn(base) =>
           entry.ref \in IdsIn(Cut[Position(entry.parent)][0])
  PROVE  /\ Covers(Branch(leaf)', Append(base, entry))
         /\ Distinct(Append(base, entry))
         /\ ~Compacts(entry) =>
              \A id \in {0} \cup IdsIn(log) :
                (id \in IdsIn(base) => id \in IdsIn(Cut[Position(entry.parent)][0])) =>
                  (id \in IdsIn(Append(base, entry)) => id \in IdsIn(Branch(leaf)'))
<1>0. TreeInv /\ RefsTyped
  BY RefsAreTyped DEF ReadInv
<1>1. /\ entry.id # 0 /\ entry.id \notin IdsIn(log)
      /\ Position(entry.parent) \in 0 .. Len(log)
      /\ StopAfter(entry, 0) \in Stops
      /\ Branch(leaf)'
           = IF Ends(entry, 0) THEN <<entry>>
             ELSE Append(Cut[Position(entry.parent)][StopAfter(entry, 0)], entry)
  BY PushedBranch
<1>2. PICK p : p = Position(entry.parent)
  OBVIOUS
<1>3. PICK tail : tail = IF Ends(entry, 0) THEN <<>> ELSE Cut[p][StopAfter(entry, 0)]
  OBVIOUS
<1>4. Branch(leaf)' = Append(tail, entry)
  <2>1. CASE Ends(entry, 0)
    <3>1. Branch(leaf)' = <<entry>> /\ tail = <<>>
      BY <1>1, <1>3, <2>1
    <3>2. <<entry>> = Append(<<>>, entry)
      OBVIOUS
    <3>. QED
      BY <3>1, <3>2
  <2>2. CASE ~Ends(entry, 0)
    BY <1>1, <1>2, <1>3, <2>2
  <2>. QED
    BY <2>1, <2>2
<1>5. 0 \in Stops /\ p \in 0 .. Len(log)
  BY <1>1, <1>2 DEF Stops
<1>6. /\ Cut[p][0] \in Seq(Logged) /\ Cut[p][StopAfter(entry, 0)] \in Seq(Logged)
      /\ tail \in Seq(Logged)
  <2>1. Cut[p][0] \in Seq(Logged) /\ Cut[p][StopAfter(entry, 0)] \in Seq(Logged)
    BY <1>0, <1>1, <1>5, CutWithin
  <2>. QED
    BY <1>3, <2>1
<1>7. Covers(Cut[p][0], base) /\ TailOf(Cut[p][0], base)
  BY <1>2 DEF Covers
<1>8. TailOf(tail, base)
  <2>1. CASE Ends(entry, 0)
    BY <1>3, <2>1 DEF TailOf
  <2>2. CASE ~Ends(entry, 0)
    <3>1. TailOf(tail, Cut[p][0])
      BY <1>0, <1>1, <1>3, <1>5, <2>2, CutShorter
    <3>. QED
      BY <1>6, <1>7, <3>1, TailsOfTails
  <2>. QED
    BY <2>1, <2>2
<1>9. entry.kind \notin {"compaction", "tailCompaction"} => tail = Cut[p][0]
  BY <1>1, <1>3 DEF Ends, StopAfter
<1>10. ASSUME entry.kind = "compaction", NEW k \in 1 .. Len(base), base[k].id = entry.ref
       PROVE  k > Len(base) - Len(tail)
  <2>1. entry.ref \in IdsIn(base)
    BY <1>10 DEF IdsIn
  <2>2. entry.ref \in IdsIn(Cut[p][0]) /\ entry.ref \in Stops
    BY <1>1, <1>2, <1>10, <2>1 DEF StopAfter
  <2>3. entry.ref \in IdsIn(Cut[p][entry.ref])
    BY <1>0, <1>5, <2>2, CutShows
  <2>4. tail = Cut[p][entry.ref]
    BY <1>1, <1>3, <1>10 DEF Ends, StopAfter
  <2>5. PICK j \in 1 .. Len(tail) : tail[j].id = entry.ref
    <3>1. \E j \in DOMAIN tail : tail[j].id = entry.ref
      BY <2>3, <2>4, Zenon DEF IdsIn
    <3>2. DOMAIN tail = 1 .. Len(tail)
      BY <1>6
    <3>. QED
      BY <3>1, <3>2
  <2>6. PICK m : m = Len(base) - Len(tail) + j
    OBVIOUS
  <2>7. m \in 1 .. Len(base) /\ m > Len(base) - Len(tail)
    BY <1>6, <1>8, <2>5, <2>6 DEF TailOf
  <2>8. tail[j] = base[m]
    BY <1>8, <2>6 DEF TailOf
  <2>9. m = k
    BY <1>10, <2>5, <2>7, <2>8 DEF Distinct
  <2>. QED
    BY <2>7, <2>9
<1>. DEFINE S == Logged \cup {entry}
<1>11. tail \in Seq(S) /\ base \in Seq(S) /\ entry \in S
  BY <1>6
<1>12. Covers(Append(tail, entry), Append(base, entry))
  <2>1. ~IsPoint(entry) => Covers(tail, base)
    BY <1>7, <1>9 DEF IsPoint
  <2>. HIDE DEF S
  <2>. QED
    BY <1>8, <1>10, <1>11, <2>1, CoversGrow
<1>13. \A path \in Seq(S) : IdsIn(Append(path, entry)) = IdsIn(path) \cup {entry.id}
  <2>. HIDE DEF S
  <2>1. ASSUME NEW path \in Seq(S)
        PROVE  IdsIn(Append(path, entry)) = IdsIn(path) \cup {entry.id}
    <3>. DEFINE w == Append(path, entry)
    <3>1. /\ Len(path) \in Nat /\ DOMAIN w = 1 .. Len(path) + 1
          /\ w[Len(path) + 1] = entry
          /\ \A k \in 1 .. Len(path) : w[k] = path[k]
          /\ DOMAIN path = 1 .. Len(path)
      BY <1>11, AppendProperties
    <3>. HIDE DEF w
    <3>2. IdsIn(w) = IdsIn(path) \cup {entry.id}
      BY <3>1 DEF IdsIn
    <3>. QED
      BY <3>2 DEF w
  <2>. QED
    BY <2>1
<1>14. Distinct(Append(base, entry))
  <2>. DEFINE w == Append(base, entry)
  <2>1. /\ Len(base) \in Nat /\ DOMAIN w = 1 .. Len(base) + 1
        /\ w[Len(base) + 1] = entry
        /\ \A k \in 1 .. Len(base) : w[k] = base[k] /\ base[k] \in Logged
        /\ DOMAIN base = 1 .. Len(base)
    BY <1>11, AppendProperties
  <2>2. \A k \in 1 .. Len(base) : base[k].id # entry.id
    BY <1>1, <2>1 DEF Logged, IdsIn
  <2>. HIDE DEF w
  <2>3. Distinct(w)
    BY <2>1, <2>2 DEF Distinct
  <2>. QED
    BY <2>3 DEF w
<1>15. ASSUME ~Compacts(entry), NEW id \in {0} \cup IdsIn(log),
              id \in IdsIn(base) => id \in IdsIn(Cut[p][0]),
              id \in IdsIn(Append(base, entry))
       PROVE  id \in IdsIn(Branch(leaf)')
  <2>1. tail = Cut[p][0]
    BY <1>9, <1>15 DEF Compacts
  <2>2. id \in IdsIn(base)
    BY <1>1, <1>11, <1>13, <1>15
  <2>3. id \in IdsIn(Append(tail, entry))
    BY <1>11, <1>13, <1>15, <2>1, <2>2
  <2>. QED
    BY <1>4, <2>3
<1>. QED
  BY <1>2, <1>4, <1>12, <1>14, <1>15

\* Each branch is made of rows of the log, and one is active once there are any.
Tables ==
  /\ branches \in Seq(SUBSET (DOMAIN log))
  /\ active \in 0 .. Len(branches)
  /\ active = 0 <=> log = <<>>

\* The branch of the leaf covers the path of the rows, and a compaction under
\* construction keeps no entry of those rows that the branch does not show.
Shown ==
  ~orphaned =>
    /\ Covers(Branch(leaf), ActivePath)
    /\ Distinct(ActivePath)
    /\ \A c \in Callers :
         draft[c].kind = "compaction" /\ draft[c].ref \in IdsIn(ActivePath) =>
           draft[c].ref \in IdsIn(Branch(leaf))

RowsInv == ReadInv /\ Tables /\ SqlReopenSame /\ TotalsMatch /\ Shown

\* The branch of an entry of the log is made of entries of the log, each once.
LEMMA BranchIsPath ==
  ASSUME TreeInv, RefsTyped, NEW id \in {0} \cup IdsIn(log)
  PROVE  /\ Position(id) \in 0 .. Len(log)
         /\ Branch(id) \in Seq(Logged)
         /\ Distinct(Branch(id))
         /\ RowsOf(log, Materialized(id)) = Branch(id)
<1>1. Position(id) \in 0 .. Len(log) /\ 0 \in Stops
  <2>1. PlaceFacts
    BY Facts
  <2>. QED
    BY <2>1 DEF PlaceFacts, Stops
<1>2. PICK p : p = Position(id)
  OBVIOUS
<1>3. Branch(id) = Cut[p][0]
  BY <1>2 DEF Branch
<1>4. Cut[p][0] \in Seq(Logged) /\ Whole[p] \in Seq(Logged)
  BY <1>1, <1>2, CutWithin, WholeIs
<1>5. Distinct(Cut[p][0])
  <2>1. TailOf(Cut[p][0], Whole[p]) /\ Distinct(Whole[p])
    BY <1>1, <1>2, CutIsTail, WholeIsPath
  <2>. DEFINE t == Cut[p][0]
              w == Whole[p]
  <2>2. t \in Seq(Logged) /\ w \in Seq(Logged) /\ TailOf(t, w) /\ Distinct(w)
    BY <1>4, <2>1
  <2>. HIDE DEF t, w
  <2>3. Distinct(t)
    <3>1. Len(t) \in Nat /\ Len(w) \in Nat /\ Len(t) <= Len(w)
      BY <2>2 DEF TailOf
    <3>2. ASSUME NEW j \in 1 .. Len(t), NEW k \in 1 .. Len(t), t[j].id = t[k].id
          PROVE  j = k
      <4>1. /\ t[j] = w[Len(w) - Len(t) + j] /\ t[k] = w[Len(w) - Len(t) + k]
        BY <2>2 DEF TailOf
      <4>2. Len(w) - Len(t) + j \in DOMAIN w /\ Len(w) - Len(t) + k \in DOMAIN w
        BY <2>2, <3>1
      <4>3. Len(w) - Len(t) + j = Len(w) - Len(t) + k
        BY <2>2, <3>2, <4>1, <4>2 DEF Distinct
      <4>. QED
        BY <3>1, <4>3
    <3>3. DOMAIN t = 1 .. Len(t)
      BY <2>2
    <3>. QED
      BY <3>2, <3>3 DEF Distinct
  <2>. QED
    BY <2>3 DEF t
<1>6. Materialized(id) = RowsIn(Cut[p][0])
  BY <1>3 DEF Materialized, RowsIn
<1>7. RowsOf(log, RowsIn(Cut[p][0])) = Cut[p][0]
  BY <1>1, <1>2, RowsOfCut
<1>. QED
  BY <1>1, <1>3, <1>4, <1>5, <1>6, <1>7

\* A path covers itself.
LEMMA CoversItself ==
  ASSUME NEW S, NEW path \in Seq(S)
  PROVE  Covers(path, path)
<1>1. Len(path) \in Nat /\ DOMAIN path = 1 .. Len(path)
  OBVIOUS
<1>2. TailOf(path, path)
  BY <1>1 DEF TailOf
<1>. QED
  BY <1>1, <1>2 DEF Covers, IsLastPoint

\* The rows of the active branch are entries of the log.
LEMMA ActiveIsTyped ==
  ASSUME TreeInv, Tables
  PROVE  /\ ActivePath \in Seq(Logged)
         /\ IdsIn(ActivePath) \subseteq IdsIn(log)
         /\ leaf # 0 => active \in 1 .. Len(branches)
                          /\ branches[active] \subseteq 1 .. Len(log)
<1>1. log \in Seq(Logged) /\ DOMAIN log = 1 .. Len(log)
  BY LogIsFinite DEF TreeInv, Shape, Logged
<1>2. ASSUME leaf # 0
      PROVE  active \in 1 .. Len(branches) /\ branches[active] \subseteq 1 .. Len(log)
  <2>1. IdsIn(log) # {} /\ (log = <<>> => IdsIn(log) = {})
    BY <1>2 DEF TreeInv, Rooted, IdsIn
  <2>2. active \in 1 .. Len(branches)
    BY <2>1 DEF Tables
  <2>. QED
    BY <1>1, <2>2 DEF Tables
<1>3. ActivePath \in Seq(Logged)
  <2>1. PICK rows : rows = branches[active]
    OBVIOUS
  <2>2. PICK f : Shows(f, log, rows) /\ RowsOf(log, rows) = f[Len(log)]
    BY <1>1, RowsAre
  <2>3. RowsOf(log, rows) \in Seq(Logged)
    BY <1>1, <2>2, RowsShow
  <2>. QED
    BY <2>1, <2>3 DEF ActivePath, BranchRows
<1>4. \A k \in DOMAIN ActivePath : ActivePath[k] \in Logged
  BY <1>3
<1>. QED
  BY <1>2, <1>3, <1>4 DEF Logged, IdsIn

\* What the transaction of an append leaves in the tables.
LEMMA CommitTables ==
  ASSUME RowsInv, ReadInv', NEW entry, Push(entry), Commit(entry)
  PROVE  /\ Tables' /\ SqlReopenSame' /\ TotalsMatch'
         /\ \E rows \in SUBSET (1 .. Len(log)) :
              /\ branches'[active'] = rows \cup {Len(log) + 1}
              /\ Rebuilds(entry) => rows = Materialized(Base(entry))
              /\ ~Rebuilds(entry) => active # 0 /\ rows = branches[active]
<1>. DEFINE n == Len(log)
<1>1. /\ TreeInv /\ TreeInv' /\ Tables /\ SqlReopenSame /\ TotalsMatch
  BY DEF RowsInv, ReadInv
<1>2. /\ n \in Nat /\ DOMAIN log = 1 .. n
      /\ DOMAIN log' = 1 .. n + 1
      /\ log'[n + 1] = entry
      /\ \A p \in 1 .. n : log'[p] = log[p]
  BY <1>1, Grown DEF TreeInv, Shape, Push
<1>3. Len(log') = n + 1 /\ log' # <<>>
  <2>1. PlaceFacts' => Len(log') \in Nat /\ DOMAIN log' = 1 .. Len(log')
    BY DEF PlaceFacts
  <2>2. PlaceFacts'
    BY NextFacts, NextRefsAreTyped DEF ReadInv
  <2>. HIDE DEF n
  <2>. QED
    BY <1>2, <2>1, <2>2
<1>. HIDE DEF n
<1>4. NextSeq = n + 1
  BY DEF NextSeq, n
<1>5. /\ branches \in Seq(SUBSET (1 .. n)) /\ active \in 0 .. Len(branches)
      /\ Len(branches) \in Nat /\ DOMAIN branches = 1 .. Len(branches)
      /\ \A b \in DOMAIN branches : branches[b] \subseteq 1 .. n
  BY <1>1, <1>2 DEF Tables
<1>6. \E rows \in SUBSET (1 .. n) :
        /\ branches' \in Seq(SUBSET (1 .. n + 1))
        /\ active' \in 1 .. Len(branches')
        /\ \A b \in DOMAIN branches' : b # active' => branches'[b] \subseteq 1 .. n
        /\ branches'[active'] = rows \cup {n + 1}
        /\ Rebuilds(entry) => rows = Materialized(Base(entry))
        /\ ~Rebuilds(entry) => active # 0 /\ rows = branches[active]
  <2>1. CASE Rebuilds(entry)
    <3>. DEFINE rows == Materialized(Base(entry))
                b == Append(branches, rows \cup {n + 1})
    <3>1. branches' = b /\ active' = Len(branches) + 1
      BY <1>4, <2>1 DEF Commit, RecordBranch
    <3>2. rows \in SUBSET (1 .. n)
      BY <1>2 DEF Materialized
    <3>. HIDE DEF rows
    <3>3. 1 .. n \subseteq 1 .. n + 1 /\ n + 1 \in 1 .. n + 1
      BY <1>2
    <3>4. branches \in Seq(SUBSET (1 .. n + 1)) /\ rows \cup {n + 1} \in SUBSET (1 .. n + 1)
      <4>1. \A k \in 1 .. Len(branches) : branches[k] \in SUBSET (1 .. n + 1)
        BY <1>5, <3>3
      <4>2. branches \in Seq(SUBSET (1 .. n + 1))
        BY <1>5, <4>1
      <4>3. rows \cup {n + 1} \in SUBSET (1 .. n + 1)
        BY <3>2, <3>3
      <4>. QED
        BY <4>2, <4>3
    <3>5. /\ b \in Seq(SUBSET (1 .. n + 1)) /\ Len(b) = Len(branches) + 1
          /\ b[Len(branches) + 1] = rows \cup {n + 1}
          /\ \A k \in 1 .. Len(branches) : b[k] = branches[k]
          /\ DOMAIN b = 1 .. Len(branches) + 1
      BY <3>4, AppendProperties
    <3>. HIDE DEF b
    <3>6. /\ Len(branches) + 1 \in 1 .. Len(b)
          /\ \A k \in DOMAIN b : k # Len(branches) + 1 => b[k] \subseteq 1 .. n
      BY <1>5, <3>5
    <3>. QED
      BY <2>1, <3>1, <3>2, <3>5, <3>6 DEF rows
  <2>2. CASE ~Rebuilds(entry)
    <3>1. /\ branches' = [branches EXCEPT ![active] = @ \cup {n + 1}]
          /\ active' = active
      BY <1>4, <2>2 DEF Commit, RecordBranch
    <3>2. active \in 1 .. Len(branches)
      BY <1>5, <2>2 DEF Rebuilds
    <3>3. 1 .. n \subseteq 1 .. n + 1 /\ n + 1 \in 1 .. n + 1
      BY <1>2
    <3>4. PICK b : b = [branches EXCEPT ![active] = @ \cup {n + 1}]
      OBVIOUS
    <3>5. /\ DOMAIN b = 1 .. Len(branches)
          /\ b[active] = branches[active] \cup {n + 1}
          /\ \A k \in 1 .. Len(branches) : k # active => b[k] = branches[k]
          /\ b = [k \in 1 .. Len(branches) |-> b[k]]
      BY <1>5, <3>2, <3>4
    <3>6. \A k \in 1 .. Len(branches) : b[k] \in SUBSET (1 .. n + 1)
      <4>1. \A k \in 1 .. Len(branches) : branches[k] \subseteq 1 .. n + 1
        BY <1>5, <3>3
      <4>2. branches[active] \cup {n + 1} \subseteq 1 .. n + 1
        BY <3>2, <3>3, <4>1
      <4>. QED
        BY <3>5, <4>1, <4>2
    <3>7. b \in Seq(SUBSET (1 .. n + 1)) /\ Len(b) = Len(branches)
      BY <1>5, <3>5, <3>6
    <3>. QED
      BY <1>5, <2>2, <3>1, <3>2, <3>4, <3>5, <3>7
  <2>. QED
    BY <2>1, <2>2
<1>7. PICK rows \in SUBSET (1 .. n) :
        /\ branches' \in Seq(SUBSET (1 .. n + 1))
        /\ active' \in 1 .. Len(branches')
        /\ \A b \in DOMAIN branches' : b # active' => branches'[b] \subseteq 1 .. n
        /\ branches'[active'] = rows \cup {n + 1}
        /\ Rebuilds(entry) => rows = Materialized(Base(entry))
        /\ ~Rebuilds(entry) => active # 0 /\ rows = branches[active]
  BY <1>6
<1>8. Tables'
  BY <1>2, <1>3, <1>7 DEF Tables
<1>9. SqlReopenSame'
  <2>1. saved' = [leaf |-> leaf', totals |-> totals']
    BY DEF Commit, Push
  <2>2. DOMAIN branches' = 1 .. Len(branches')
    BY <1>7
  <2>3. \A b \in DOMAIN branches' : n + 1 \in branches'[b] <=> b = active'
    BY <1>2, <1>7
  <2>4. {b \in DOMAIN branches' : n + 1 \in branches'[b]} = {active'}
    BY <1>7, <2>2, <2>3
  <2>. QED
    BY <1>3, <2>1, <2>4 DEF SqlReopenSame, NewestBranches
<1>10. TotalsMatch'
  <2>1. PICK old : old = {p \in 1 .. n : Counts(log[p])}
    OBVIOUS
  <2>2. totals = Cardinality(old)
    BY <1>1, <1>2, <2>1 DEF TotalsMatch
  <2>3. IsFiniteSet(old) /\ n + 1 \notin old
    <3>1. IsFiniteSet(1 .. n) /\ old \subseteq 1 .. n
      BY <1>2, <2>1, FS_Interval
    <3>2. n + 1 \notin 1 .. n
      BY <1>2
    <3>. QED
      BY <3>1, <3>2, FS_Subset
  <2>4. PICK new : new = {p \in 1 .. n + 1 : Counts(log'[p])}
    OBVIOUS
  <2>5. totals' = totals + (IF Counts(entry) THEN 1 ELSE 0)
    BY DEF Commit, TotalsAfter
  <2>6. totals' = Cardinality(new)
    <3>1. CASE Counts(entry)
      <4>1. new = old \cup {n + 1}
        BY <1>2, <2>1, <2>4, <3>1
      <4>2. Cardinality(old \cup {n + 1}) = Cardinality(old) + 1
        BY <2>3, FS_AddElement
      <4>. QED
        BY <2>2, <2>5, <3>1, <4>1, <4>2
    <3>2. CASE ~Counts(entry)
      <4>1. new = old
        BY <1>2, <2>1, <2>4, <3>2
      <4>2. Cardinality(old) \in Nat
        BY <2>3, FS_CardinalityType
      <4>. QED
        BY <2>2, <2>5, <3>2, <4>1, <4>2
    <3>. QED
      BY <3>1, <3>2
  <2>. QED
    BY <1>2, <2>4, <2>6 DEF TotalsMatch
<1>. QED
  BY <1>7, <1>8, <1>9, <1>10 DEF n

\* The first entry of a log hangs on no other.
LEMMA RootHasChild == TreeInv /\ log # <<>> => HasChild(0)
<1>. SUFFICES ASSUME TreeInv, log # <<>> PROVE HasChild(0)
  OBVIOUS
<1>1. 1 \in DOMAIN log
  BY LogIsFinite DEF TreeInv, Shape
<1>2. log[1].parent = 0 \/ \E q \in 1 .. 1 - 1 : log[q].id = log[1].parent
  BY <1>1 DEF TreeInv, Rooted
<1>. QED
  BY <1>1, <1>2 DEF HasChild

\* The rows that an append leaves still show what the branch of the leaf shows.
LEMMA CommitShown ==
  ASSUME RowsInv, ReadInv', NEW entry, Push(entry), Commit(entry),
         entry.parent \in {0} \cup IdsIn(log),
         entry.kind = "leaf" =>
           /\ entry.parent = leaf /\ entry.ref \in {0} \cup IdsIn(log)
           /\ \A c \in Callers : draft'[c].kind # "compaction",
         entry.kind = "compaction" /\ ~orphaned /\ entry.ref \in IdsIn(ActivePath) =>
           entry.ref \in IdsIn(Branch(leaf)),
         \A c \in Callers : draft'[c].kind = "compaction" =>
           /\ draft[c].kind = "compaction" /\ draft'[c].ref = draft[c].ref
           /\ ~Compacts(entry)
  PROVE  Shown'
<1>. SUFFICES ASSUME ~orphaned'
              PROVE  /\ Covers(Branch(leaf), ActivePath)'
                     /\ Distinct(ActivePath)'
                     /\ \A c \in Callers :
                          draft'[c].kind = "compaction"
                            /\ draft'[c].ref \in IdsIn(ActivePath)' =>
                              draft'[c].ref \in IdsIn(Branch(leaf)')
  BY DEF Shown
<1>0. /\ TreeInv /\ Refs /\ RefsTyped /\ TreeInv' /\ Refs' /\ Tables /\ ReadInv
      /\ ~orphaned /\ ~LeftBehind(entry.parent)
      /\ Covers(Branch(leaf), ActivePath) /\ Distinct(ActivePath)
      /\ \A c \in Callers :
           draft[c].kind = "compaction" /\ draft[c].ref \in IdsIn(ActivePath) =>
             draft[c].ref \in IdsIn(Branch(leaf))
  BY RefsAreTyped DEF RowsInv, ReadInv, Shown, Commit
<1>1. /\ entry.id # 0 /\ entry.id \notin IdsIn(log)
      /\ entry.kind = "leaf" => Branch(leaf)' = Branch(entry.ref)
  BY <1>0, PushedBranch
<1>2. PICK rows \in SUBSET (1 .. Len(log)) :
        /\ branches'[active'] = rows \cup {Len(log) + 1}
        /\ Rebuilds(entry) => rows = Materialized(Base(entry))
        /\ ~Rebuilds(entry) => active # 0 /\ rows = branches[active]
  BY CommitTables
<1>3. PICK base : base = RowsOf(log, rows)
  OBVIOUS
<1>4. PICK T : T = Logged \cup {entry}
  OBVIOUS
<1>5. log \in Seq(Logged) /\ log \in Seq(T) /\ entry \in T
  BY <1>0, <1>4 DEF TreeInv, Shape, Logged
<1>6. /\ base \in Seq(Logged)
      /\ RowsOf(log', branches'[active']) = Extended(base, entry)
  <2>1. log' = Append(log, entry)
    BY DEF Push
  <2>2. RowsOf(Append(log, entry), branches'[active']) = Extended(RowsOf(log, rows), entry)
    <3>1. PICK more : more = branches'[active']
      OBVIOUS
    <3>2. rows \subseteq 1 .. Len(log) /\ more = rows \cup {Len(log) + 1}
      BY <1>2, <3>1
    <3>3. log \in Seq(T) /\ entry \in T
      BY <1>5
    <3>4. RowsOf(Append(log, entry), more) = Extended(RowsOf(log, rows), entry)
      BY <3>2, <3>3, RowsGrow
    <3>. QED
      BY <3>1, <3>4
  <2>3. PICK f : Shows(f, log, rows) /\ RowsOf(log, rows) = f[Len(log)]
    BY <1>5, RowsAre
  <2>4. RowsOf(log, rows) \in Seq(Logged)
    BY <1>5, <2>3, RowsShow
  <2>. QED
    BY <1>2, <1>3, <2>1, <2>2, <2>4
<1>7. ActivePath' = IF leaf' = 0 THEN <<>> ELSE Extended(base, entry)
  BY <1>6 DEF ActivePath, BranchRows
<1>8. CASE entry.kind = "leaf"
  <2>1. Rebuilds(entry) /\ Base(entry) = entry.ref
    BY <1>8 DEF Rebuilds, Base
  <2>2. base = Branch(entry.ref) /\ Distinct(base)
    BY <1>0, <1>2, <1>3, <1>8, <2>1, BranchIsPath
  <2>3. Extended(base, entry) = base
    BY <1>8 DEF Extended, IsNoMarker
  <2>4. leaf' = entry.ref
    BY <1>8 DEF Push, LeafAfter
  <2>5. Branch(0) = <<>>
    <3>1. CutFacts /\ PlaceFacts /\ 0 \in Stops
      BY <1>0, Facts DEF Stops
    <3>. QED
      BY <3>1 DEF CutFacts, PlaceFacts, Branch
  <2>6. ActivePath' = base /\ Branch(leaf)' = base
    BY <1>1, <1>7, <1>8, <2>2, <2>3, <2>4, <2>5
  <2>7. Covers(base, base)
    BY <1>6, CoversItself
  <2>. QED
    BY <1>8, <2>2, <2>6, <2>7
<1>9. CASE entry.kind # "leaf"
  <2>1. leaf' = entry.id
    BY <1>9 DEF Push, LeafAfter
  <2>2. ActivePath' = Append(base, entry)
    BY <1>1, <1>7, <1>9, <2>1 DEF Extended, IsNoMarker
  <2>3. PICK above : above = Cut[Position(entry.parent)][0]
    OBVIOUS
  <2>4. above = Branch(entry.parent)
    BY <2>3 DEF Branch
  <2>5. /\ Distinct(base) /\ Covers(above, base)
        /\ entry.kind = "compaction" /\ entry.ref \in IdsIn(base) =>
             entry.ref \in IdsIn(above)
        /\ \A c \in Callers : draft'[c].kind = "compaction" =>
             (draft'[c].ref \in IdsIn(base) => draft'[c].ref \in IdsIn(above))
    <3>1. CASE Rebuilds(entry)
      <4>1. Base(entry) = entry.parent
        BY <1>9 DEF Base
      <4>2. base = above /\ Distinct(base)
        BY <1>0, <1>2, <1>3, <2>4, <3>1, <4>1, BranchIsPath
      <4>3. Covers(base, base)
        BY <1>6, CoversItself
      <4>. QED
        BY <4>2, <4>3
    <3>2. CASE ~Rebuilds(entry)
      <4>1. ~HasChild(entry.parent) /\ active # 0 /\ rows = branches[active]
        BY <1>2, <3>2 DEF Rebuilds
      <4>2. entry.parent = leaf
        BY <1>0, <4>1 DEF LeftBehind, HasChild
      <4>3. leaf # 0
        <5>1. log # <<>>
          BY <1>0, <4>1 DEF Tables
        <5>. QED
          BY <1>0, <4>1, <4>2, <5>1, RootHasChild
      <4>4. base = ActivePath /\ above = Branch(leaf)
        BY <1>3, <2>4, <4>1, <4>2, <4>3 DEF ActivePath, BranchRows
      <4>. QED
        BY <1>0, <4>4
    <3>. QED
      BY <3>1, <3>2
  <2>6. /\ Covers(Branch(leaf)', Append(base, entry))
        /\ Distinct(Append(base, entry))
        /\ ~Compacts(entry) =>
              \A id \in {0} \cup IdsIn(log) :
                (id \in IdsIn(base) => id \in IdsIn(above)) =>
                  (id \in IdsIn(Append(base, entry)) => id \in IdsIn(Branch(leaf)'))
    BY <1>0, <1>6, <1>9, <2>3, <2>5, PathGrows
  <2>7. ASSUME NEW c \in Callers, draft'[c].kind = "compaction",
               draft'[c].ref \in IdsIn(Append(base, entry))
        PROVE  draft'[c].ref \in IdsIn(Branch(leaf)')
    <3>1. draft'[c].ref \in {0} \cup IdsIn(log) /\ ~Compacts(entry)
      BY <1>0, <2>7 DEF Refs
    <3>. QED
      BY <2>5, <2>6, <2>7, <3>1
  <2>. QED
    BY <2>2, <2>6, <2>7
<1>. QED
  BY <1>8, <1>9

\* A step that leaves log and rows alone.
LEMMA RowsStay ==
  ASSUME RowsInv, ReadInv', UNCHANGED <<log, leaf, sqlite>>,
         \A c \in Callers : draft'[c].kind = "compaction" =>
           \/ draft[c].kind = "compaction" /\ draft'[c].ref = draft[c].ref
           \/ draft'[c].ref \in {0} \cup IdsIn(Branch(leaf))
  PROVE  RowsInv'
<1>0. TreeInv /\ RefsTyped /\ TreeInv' /\ RefsTyped' /\ PlaceFacts
  BY RefsAreTyped, NextRefsAreTyped, Facts DEF RowsInv, ReadInv
<1>1. /\ Tables' /\ SqlReopenSame' /\ TotalsMatch'
      /\ ActivePath' = ActivePath
  BY DEF RowsInv, Tables, SqlReopenSame, NewestBranches, TotalsMatch, ActivePath,
         BranchRows, sqlite
<1>2. Branch(leaf)' = Branch(leaf)
  <2>1. Grows
    BY <1>0 DEF Grows, PlaceFacts
  <2>2. \A p \in 0 .. Len(log), stop \in Stops : Cut'[p][stop] = Cut[p][stop]
    BY <1>0, <2>1, CutStays
  <2>3. Position(leaf) \in 0 .. Len(log) /\ 0 \in Stops
    BY <1>0, BranchInLog DEF Stops
  <2>4. Position(leaf)' = Position(leaf)
    BY DEF Position
  <2>. QED
    BY <2>2, <2>3, <2>4 DEF Branch
<1>3. 0 \notin IdsIn(ActivePath)
  <2>1. IdsIn(ActivePath) \subseteq IdsIn(log)
    BY <1>0, ActiveIsTyped DEF RowsInv
  <2>. QED
    BY <1>0, <2>1 DEF PlaceFacts, IdsIn
<1>4. Shown'
  <2>1. orphaned' = orphaned
    BY DEF sqlite
  <2>. QED
    BY <1>1, <1>2, <1>3, <2>1 DEF RowsInv, Shown
<1>. QED
  BY <1>1, <1>4 DEF RowsInv

\* A new session has no rows.
LEMMA RowsInit == SqlInit => RowsInv
<1>. SUFFICES ASSUME SqlInit PROVE RowsInv
  OBVIOUS
<1>1. ReadInv
  BY ReadInit DEF SqlInit
<1>2. log = <<>> /\ leaf = 0 /\ DOMAIN log = {}
      /\ \A c \in Callers : draft[c].kind = "message"
  BY DEF SqlInit, Init, NoDraft, Entry
<1>3. /\ branches = <<>> /\ active = 0 /\ totals = 0
      /\ saved = [leaf |-> 0, totals |-> 0] /\ DOMAIN branches = {}
  BY DEF SqlInit
<1>4. Tables
  BY <1>2, <1>3 DEF Tables
<1>5. SqlReopenSame
  BY <1>2, <1>3 DEF SqlReopenSame, NewestBranches
<1>6. TotalsMatch
  <2>1. {p \in DOMAIN log : Counts(log[p])} = {}
    BY <1>2
  <2>. QED
    BY <1>3, <2>1, FS_EmptySet DEF TotalsMatch
<1>7. Shown
  <2>1. ActivePath = <<>>
    BY <1>2 DEF ActivePath
  <2>2. Branch(leaf) = <<>>
    <3>1. CutFacts /\ PlaceFacts /\ 0 \in Stops
      BY <1>1, RefsAreTyped, Facts DEF ReadInv, Stops
    <3>. QED
      BY <1>2, <3>1 DEF CutFacts, PlaceFacts, Branch
  <2>3. Covers(<<>>, <<>>) /\ Distinct(<<>>)
    BY DEF Covers, TailOf, Distinct
  <2>. QED
    BY <1>2, <2>1, <2>2, <2>3 DEF Shown
<1>. QED
  BY <1>1, <1>4, <1>5, <1>6, <1>7 DEF RowsInv

\* The steps of the SQLite storage are steps of the session.
LEMMA SqlIsNext == [SqlNext]_sqlVars => [Next]_vars
  BY DEF SqlNext, SqlAppendEntry, SqlMoveTo, Next, sqlVars

\* A transaction keeps the rows true, whether it commits or rolls back.
LEMMA RowsStep == RowsInv /\ [SqlNext]_sqlVars => RowsInv'
<1>. SUFFICES ASSUME RowsInv, [SqlNext]_sqlVars PROVE RowsInv'
  OBVIOUS
<1>1. ReadInv'
  BY SqlIsNext, ReadStep DEF RowsInv
<1>2. /\ TreeInv /\ Refs /\ Shape /\ PlaceFacts
  BY RefsAreTyped, Facts DEF RowsInv, ReadInv, TreeInv
<1>3. CASE UNCHANGED sqlVars
  BY <1>1, <1>3, RowsStay DEF sqlVars, vars
<1>4. ASSUME NEW c \in Callers, BeginAppend(c), UNCHANGED sqlite PROVE RowsInv'
  <2>1. PICK entry \in Drafts :
          draft' = [draft EXCEPT ![c] = entry] /\ UNCHANGED <<log, leaf>>
    BY <1>4 DEF BeginAppend, Draft
  <2>2. entry.kind = "compaction" => entry.ref \in {0} \cup IdsIn(Branch(leaf))
    BY DEF Drafts, Compactions, Entry
  <2>3. \A d \in Callers : draft'[d] = IF d = c THEN entry ELSE draft[d]
    BY <1>2, <2>1 DEF Shape
  <2>. QED
    BY <1>1, <1>4, <2>1, <2>2, <2>3, RowsStay
<1>5. ASSUME NEW c \in Callers, ReadParent(c) \/ SummaryId(c), UNCHANGED sqlite
      PROVE  RowsInv'
  <2>1. /\ \/ draft' = [draft EXCEPT ![c].parent = leaf]
           \/ draft' = [draft EXCEPT ![c].id = created']
        /\ UNCHANGED <<log, leaf>>
    BY <1>5 DEF ReadParent, SummaryId
  <2>2. \A d \in Callers : draft'[d].ref = draft[d].ref /\ draft'[d].kind = draft[d].kind
    BY <1>2, <2>1 DEF Shape, Entry
  <2>. QED
    BY <1>1, <1>5, <2>1, <2>2, RowsStay
<1>6. ASSUME NEW c \in Callers, SqlAppendEntry(c) PROVE RowsInv'
  <2>1. PICK entry : entry = draft[c]
    OBVIOUS
  <2>2. /\ pc[c] = "append"
        /\ draft' = [draft EXCEPT ![c] = NoDraft]
        /\ Push(entry) \/ UNCHANGED <<log, leaf>>
        /\ \/ log' # log /\ Commit(entry)
           \/ log' = log /\ UNCHANGED sqlite
    BY <1>6, <2>1 DEF SqlAppendEntry, AppendEntry, Draft, RollBack
  <2>3. \A d \in Callers : draft'[d] = IF d = c THEN NoDraft ELSE draft[d]
    BY <1>2, <2>2 DEF Shape
  <2>4. NoDraft.kind = "message"
    BY DEF NoDraft, Entry
  <2>5. CASE log' = log
    <3>1. ~Push(entry)
      <4>1. ASSUME Push(entry) PROVE FALSE
        <5>1. DOMAIN log' = 1 .. Len(log) + 1 /\ DOMAIN log = 1 .. Len(log)
              /\ Len(log) \in Nat
          BY <1>2, <4>1, Grown DEF Shape, Push, PlaceFacts
        <5>. QED
          BY <2>5, <5>1
      <4>. QED
        BY <4>1
    <3>. QED
      BY <1>1, <2>2, <2>3, <2>4, <2>5, <3>1, RowsStay
  <2>6. CASE log' # log
    <3>1. Push(entry) /\ Commit(entry)
      BY <2>2, <2>6
    <3>2. entry.kind # "leaf" /\ entry.parent \in {0} \cup IdsIn(log)
      BY <1>2, <2>1, <2>2 DEF Refs, TreeInv, KnownParents
    <3>3. entry.kind = "compaction" /\ ~orphaned /\ entry.ref \in IdsIn(ActivePath) =>
            entry.ref \in IdsIn(Branch(leaf))
      BY <2>1 DEF RowsInv, Shown
    <3>4. \A d \in Callers : draft'[d].kind = "compaction" =>
            /\ draft[d].kind = "compaction" /\ draft'[d].ref = draft[d].ref
            /\ ~Compacts(entry)
      BY <1>2, <2>1, <2>3, <2>4 DEF Refs, Compacts
    <3>5. Shown'
      BY <1>1, <3>1, <3>2, <3>3, <3>4, CommitShown
    <3>. QED
      BY <1>1, <3>1, <3>5, CommitTables DEF RowsInv
  <2>. QED
    BY <2>5, <2>6
<1>7. ASSUME NEW c \in Callers, SqlMoveTo(c) PROVE RowsInv'
  <2>1. PICK target \in Targets :
          /\ Exclusive
          /\ Push(Entry(created', leaf, "leaf", target))
          /\ \/ UNCHANGED draft
             \/ draft' = [draft EXCEPT ![c] = Entry(0, target, "branchSummary", target)]
    BY <1>7 DEF SqlMoveTo, MoveTo, SetLeaf, Draft
  <2>2. PICK marker : marker = Entry(created', leaf, "leaf", target)
    OBVIOUS
  <2>3. /\ marker.kind = "leaf" /\ marker.parent = leaf /\ marker.ref = target
        /\ Push(marker)
    BY <2>1, <2>2 DEF Entry
  <2>4. leaf' = target
    BY <2>3 DEF Push, LeafAfter
  <2>5. Commit(marker)
    BY <1>7, <2>2, <2>4 DEF SqlMoveTo
  <2>6. \A d \in Callers : draft'[d].kind # "compaction"
    BY <1>2, <2>1 DEF Shape, Exclusive, Entry
  <2>7. leaf \in {0} \cup IdsIn(log) /\ target \in {0} \cup IdsIn(log)
    BY <1>2 DEF TreeInv, Rooted, Targets
  <2>8. Shown'
    BY <1>1, <2>3, <2>5, <2>6, <2>7, CommitShown
  <2>. QED
    BY <1>1, <2>3, <2>5, <2>8, CommitTables DEF RowsInv
<1>. QED
  BY <1>3, <1>4, <1>5, <1>6, <1>7 DEF SqlNext

\* The invariant gives what is promised of the rows.
LEMMA RowsInvMirrors == RowsInv => MirrorsRows
<1>. SUFFICES ASSUME RowsInv PROVE MirrorsRows
  OBVIOUS
<1>1. TreeInv /\ RefsTyped /\ Tables
  BY RefsAreTyped DEF RowsInv, ReadInv
<1>2. ASSUME ~orphaned
      PROVE  ContextEntries(ActivePath) = ContextEntries(Branch(leaf))
  <2>1. Covers(Branch(leaf), ActivePath) /\ Distinct(ActivePath)
    BY <1>2 DEF RowsInv, Shown
  <2>2. ActivePath \in Seq(Logged) /\ Branch(leaf) \in Seq(Logged)
    BY <1>1, ActiveIsTyped, BranchInLog
  <2>. QED
    BY <2>1, <2>2, ContextOfTail
<1>. QED
  BY <1>2 DEF RowsInv, MirrorsRows, ActivePathSame

\* However the transactions of two clones interleave, commit and roll back, opening
\* the rows gives the leaf, the totals and the active branch of memory, and while no
\* append has landed under a childless former leaf, the rows of the active branch
\* give the context of the walk over the parents.
THEOREM AlwaysMirrorsRows == SqlSpec => []MirrorsRows
  BY RowsInit, RowsStep, RowsInvMirrors, PTL DEF SqlSpec
=============================================================================
