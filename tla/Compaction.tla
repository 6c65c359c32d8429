------------------------------- MODULE Compaction ------------------------------
(***************************************************************************)
(* The arithmetic of crates/ri-agent-core/src/harness/compaction.rs: where *)
(* the branch of a session is cut, what of it is summarised, and what the  *)
(* summary stands for.                                                     *)
(*                                                                         *)
(* An entry has an id, its depth in the tree, and a kind; a compaction     *)
(* also the entry it keeps first and the entries it covers, those whose    *)
(* content its summary was made of.                                        *)
(***************************************************************************)
EXTENDS Messages, FiniteSets, FiniteSetsExt

IsCompaction(entry) == entry.kind = "compaction"
IsMessage(entry) == entry.kind = "message"
RoleOf(entry) == IF IsMessage(entry) THEN entry.message.role ELSE "none"

\* The ids in a sequence of entries.
IdsOf(entries) == {entries[k].id : k \in DOMAIN entries}

\* estimate_entry_message_tokens, in parts; a call weighs no more than a text.
Tokens(entry) == IF IsMessage(entry) THEN Len(entry.message.parts) ELSE 0

\* The walk up ends at the entry kept first by the last compaction it met.
StopsAt(path, k) ==
  LET met == {l \in k + 1 .. Len(path) : IsCompaction(path[l])}
  IN met # {} /\ path[Min(met)].kept = k

BranchStart(path) == Max({1} \cup {k \in DOMAIN path : StopsAt(path, k)})

\* get_path_to_root_or_compaction
Branch(path) == SubSeq(path, BranchStart(path), Len(path))

LastCompaction(entries) ==
  Max({0} \cup {k \in DOMAIN entries : IsCompaction(entries[k])})

PlaceOf(id, entries) == CHOOSE k \in DOMAIN entries : entries[k].id = id

\* default_context_entry_transform
ContextEntries(entries) ==
  LET last == LastCompaction(entries)
  IN IF last = 0 THEN entries
     ELSE <<entries[last]>>
            \o SubSeq(entries, PlaceOf(entries[last].kept, entries), last - 1)
            \o SubSeq(entries, last + 1, Len(entries))

-----------------------------------------------------------------------------
(* Where to cut                                                            *)

\* find_valid_cut_points: results stay with their calls.
IsCutPoint(entry) ==
  \/ RoleOf(entry) \in {"user", "bash", "assistant"}
  \/ entry.kind \in {"custom", "branchSummary"}

\* find_entry_turn_start_index
StartsTurn(entry) ==
  RoleOf(entry) \in {"user", "bash"} \/ entry.kind \in {"custom", "branchSummary"}

TokensFrom(entries, k) ==
  LET Add(sum, entry) == sum + Tokens(entry)
  IN FoldLeft(Add, 0, SubSeq(entries, k, Len(entries)))

\* find_cut_point: the first cut after the newest messages that fill the budget,
\* or the first one of all, moved up over the entries that are no messages.
FindCutPoint(entries, start, keep) ==
  LET cuts == {k \in start .. Len(entries) : IsCutPoint(entries[k])}
      full == {k \in start .. Len(entries) :
                 IsMessage(entries[k]) /\ TokensFrom(entries, k) >= keep}
      after == IF full = {} THEN {} ELSE {k \in cuts : k >= Max(full)}
      cut == Min(IF after = {} THEN cuts ELSE after)
      first == Min({k \in start .. cut :
                      \A l \in k .. cut - 1 :
                        ~IsMessage(entries[l]) /\ ~IsCompaction(entries[l])})
      turns == {k \in start .. first : StartsTurn(entries[k])}
      isUser == RoleOf(entries[first]) = "user"
  IN IF cuts = {} THEN [first |-> start, turn |-> 0]
     ELSE [first |-> first,
           turn |-> IF isUser \/ turns = {} THEN 0 ELSE Max(turns)]

-----------------------------------------------------------------------------
(* What is summarised                                                      *)

\* get_message_from_entry_for_compaction
Summarised(entries, from, to) ==
  {entries[k].id : k \in {l \in from .. to : ~IsCompaction(entries[l])}}

\* prepare_compaction: the history before the turn that is cut, that turn's
\* prefix, and what the summary before covers.
Nothing == [kept |-> 0, history |-> {}, prefix |-> {}, split |-> FALSE,
            previous |-> {}]

PrepareCompaction(entries, keep) ==
  LET last == LastCompaction(entries)
      start == IF last = 0 THEN 1 ELSE PlaceOf(entries[last].kept, entries)
      point == FindCutPoint(entries, start, keep)
      split == point.turn # 0
  IN IF entries = <<>> \/ IsCompaction(Last(entries)) THEN Nothing
     ELSE [kept |-> entries[point.first].id,
           history |-> Summarised(entries, start,
                                  (IF split THEN point.turn ELSE point.first) - 1),
           prefix |-> IF split
                      THEN Summarised(entries, point.turn, point.first - 1)
                      ELSE {},
           split |-> split,
           previous |-> IF last = 0 THEN {} ELSE entries[last].covers]

\* compact asks for a summary of the history, and for one of the prefix of the
\* turn that is split.
SplitsTurn(prepared) == prepared.split /\ prepared.prefix # {}
AsksForHistory(prepared) == ~SplitsTurn(prepared) \/ prepared.history # {}

\* A mutation: the prefix of the split turn is not summarised.
ForgetPrefix(prepared) == prepared.history \cup prepared.previous

\* generate_summary is given the summary before; "No prior history." is not.
Covered(prepared) ==
  prepared.prefix
    \cup (IF AsksForHistory(prepared)
          THEN prepared.history \cup prepared.previous ELSE {})

-----------------------------------------------------------------------------
(* The summary of a branch                                                 *)

\* get_message_from_entry_for_branch_summary: results are told by their calls.
IsTold(entry) == RoleOf(entry) # "toolResult"

\* estimate_session_message_tokens, in parts; a summary or a custom message is one.
Weight(entry) == IF IsMessage(entry) THEN Len(entry.message.parts) ELSE 1

\* The weight of what is told from an entry on.
WeightFrom(entries, k) ==
  LET Add(sum, entry) == sum + IF IsTold(entry) THEN Weight(entry) ELSE 0
  IN FoldLeft(Add, 0, SubSeq(entries, k, Len(entries)))

\* A mutation: the newest are left out when not all fit.
OldestThatFit(entries, budget) ==
  LET told == SelectSeq(entries, IsTold)
      Oldest(k) == FoldLeft(LAMBDA sum, entry : sum + Weight(entry), 0, SubSeq(told, 1, k))
  IN {told[k].id : k \in {l \in DOMAIN told : budget = 0 \/ Oldest(l) <= budget}}

\* prepare_branch_entries: the newest entries that fit, where a budget of zero is
\* none, and one summary more while a tenth of the budget is free.
PrepareBranch(entries, budget) ==
  LET told == {k \in DOMAIN entries : IsTold(entries[k])}
      fits == {k \in told : budget = 0 \/ WeightFrom(entries, k) <= budget}
      first == Min({Len(entries) + 1} \cup fits)
      older == told \ first .. Len(entries)
      extra == {k \in older : /\ \A l \in older : l <= k
                             /\ entries[k].kind \in {"compaction", "branchSummary"}
                             /\ 10 * WeightFrom(entries, first) < 9 * budget}
  IN {entries[k].id : k \in (told \ older) \cup extra}
==============================================================================
