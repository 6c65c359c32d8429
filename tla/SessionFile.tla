------------------------------- MODULE SessionFile -----------------------------
(***************************************************************************)
(* JsonlSessionStorage and JsonlSessionRepo of                             *)
(* crates/ri-agent-core/src/harness/session.rs: a session is a file of     *)
(* lines, a header and then one line for each entry. An append writes the  *)
(* text of its line and then the newline, as two writes, and only then     *)
(* puts the entry into memory. Nothing locks a file: two processes may     *)
(* have one open, either may die, and any write may fail or be cut short.  *)
(*                                                                         *)
(* Opening a file reads every line; one that does not parse refuses it.    *)
(***************************************************************************)
EXTENDS Integers, Sequences, FiniteSets, TLC

CONSTANTS
  Handles,     \* the processes, each with at most one session open
  Paths,       \* the files
  NoPath,      \* the file of a handle that is closed
  MaxEntries,  \* bound: entries appended in a behaviour
  MaxFaults    \* bound: writes that fail or are cut short

ASSUME SessionFileAssumption ==
  /\ IsFiniteSet(Handles) /\ IsFiniteSet(Paths) /\ NoPath \notin Paths
  /\ MaxEntries \in Nat /\ MaxFaults \in Nat

VARIABLES
  files,    \* [Paths -> the pieces written to the file]
  names,    \* the paths whose file exists
  used,     \* the paths that were ever given to a session
  handles,  \* [Handles -> the session it has open]
  created,  \* entry ids created so far
  faults,   \* writes that failed so far
  acked,    \* [Paths -> the entries whose append succeeded]
  hurt,     \* the paths with a write that failed or a writer that died
  shared    \* the paths that two handles had open at once

vars == <<files, names, used, handles, created, faults, acked, hurt, shared>>

-----------------------------------------------------------------------------
(* Lines                                                                   *)

Entry(id, parent, kind, ref) ==
  [id |-> id, parent |-> parent, kind |-> kind, ref |-> ref]

\* A piece of the file: the text of a line, or as much of it as was written, or
\* the newline.
Text(entry, whole) == [entry |-> entry, whole |-> whole]
Newline == Text(Entry(0, 0, "newline", 0), TRUE)
Header == Entry(0, 0, "header", 0)

IsText(piece) == piece # Newline
Texts(file) ==
  LET Upto[k \in 0 .. Len(file)] ==
        IF k = 0 THEN <<>>
        ELSE IF IsText(file[k]) THEN Append(Upto[k - 1], file[k])
        ELSE Upto[k - 1]
  IN Upto[Len(file)]

\* parse_header_line and parse_entry_line refuse what is not the whole text of
\* their kind of line.
ParsesAsHeader(piece) == piece.whole /\ piece.entry = Header
ParsesAsEntry(piece) == piece.whole /\ piece.entry.kind \in {"message", "leaf"}

\* Two texts with no newline between them are one line.
OneTextPerLine(file) ==
  \A k \in 2 .. Len(file) : Newline \in {file[k - 1], file[k]}

\* load_jsonl_storage: a header, then entries; blank lines are skipped and the
\* last line may lack its newline.
Opens(p) ==
  LET texts == Texts(files[p])
  IN /\ p \in names
     /\ texts # <<>>
     /\ OneTextPerLine(files[p])
     /\ ParsesAsHeader(texts[1])
     /\ \A k \in 2 .. Len(texts) : ParsesAsEntry(texts[k])

\* The entries and the leaf that opening gives.
EntryOf(piece) == piece.entry
Loaded(p) ==
  LET texts == Texts(files[p])
  IN [k \in 1 .. Len(texts) - 1 |-> EntryOf(texts[k + 1])]

\* leaf_id_after_entry
LeafAfter(entry) == IF entry.kind = "leaf" THEN entry.ref ELSE entry.id
LeafOf(entries) ==
  IF entries = <<>> THEN 0 ELSE LeafAfter(entries[Len(entries)])

IdsIn(entries) == {entries[k].id : k \in DOMAIN entries}

Position(entries, id) == CHOOSE k \in DOMAIN entries : entries[k].id = id

\* get_path_to_root: the walk from an entry to its parent, as long as it is found.
Walk(entries, id) ==
  LET At[k \in 0 .. Len(entries)] ==
        IF k = 0 THEN id
        ELSE IF At[k - 1] \in IdsIn(entries)
        THEN entries[Position(entries, At[k - 1])].parent
        ELSE 0
  IN At

\* It has come to the root after n entries.
AtRoot(entries, walk, n) ==
  walk[n] = 0 /\ \A k \in 0 .. n - 1 : walk[k] \in IdsIn(entries)

HasPath(entries, id) ==
  LET walk == Walk(entries, id)
  IN \E n \in 0 .. Len(entries) : AtRoot(entries, walk, n)

PathTo(entries, id) ==
  LET walk == Walk(entries, id)
      n == CHOOSE m \in 0 .. Len(entries) : AtRoot(entries, walk, m)
  IN [k \in 1 .. n |-> entries[Position(entries, walk[n - k])]]

-----------------------------------------------------------------------------
(* Handles. "doing" is "closed", "idle", "newline" when the text of a line   *)
(* is written and its end is not, or "unlinked" when the file was removed in *)
(* between. "rest" is what a fork has yet to copy.                           *)

Closed == [path |-> NoPath, entries |-> <<>>, leaf |-> 0, doing |-> "closed",
           line |-> Header, rest |-> <<>>]

OpenAt(p, entries, rest) ==
  [Closed EXCEPT !.path = p, !.entries = entries, !.leaf = LeafOf(entries),
                 !.doing = "idle", !.rest = rest]

Set(h, handle) == handles' = [handles EXCEPT ![h] = handle]

IsOpen(p) == \E h \in Handles : handles[h].doing # "closed" /\ handles[h].path = p

Init ==
  /\ files = [p \in Paths |-> <<>>]
  /\ names = {} /\ used = {}
  /\ handles = [h \in Handles |-> Closed]
  /\ created = 0 /\ faults = 0
  /\ acked = [p \in Paths |-> {}]
  /\ hurt = {} /\ shared = {}

\* What a write that fails may have written of a text.
Cut(entry) == {<<>>, <<Text(entry, FALSE)>>, <<Text(entry, TRUE)>>}

Fault(p) ==
  /\ faults < MaxFaults
  /\ faults' = faults + 1
  /\ hurt' = hurt \cup {p}

\* create_with_metadata: the header and its newline in one write, to a path
\* with a new id in its name.
CreateFile(h, p, rest) ==
  /\ handles[h].doing = "closed"
  /\ p \notin used
  /\ used' = used \cup {p} /\ names' = names \cup {p}
  /\ \/ /\ files' = [files EXCEPT ![p] = <<Text(Header, TRUE), Newline>>]
        /\ Set(h, OpenAt(p, <<>>, rest))
        /\ UNCHANGED <<faults, hurt>>
     \/ \E written \in Cut(Header) :
          /\ Fault(p)
          /\ files' = [files EXCEPT ![p] = written]
          /\ UNCHANGED handles
  /\ UNCHANGED <<created, acked, shared>>

Create(h) == \E p \in Paths : CreateFile(h, p, <<>>)

Open(h) ==
  /\ handles[h].doing = "closed"
  /\ \E p \in names :
       /\ Opens(p)
       /\ Set(h, OpenAt(p, Loaded(p), <<>>))
       /\ shared' = IF IsOpen(p) THEN shared \cup {p} ELSE shared
  /\ UNCHANGED <<files, names, used, created, faults, acked, hurt>>

\* entries_to_fork: everything, the path to an entry, or the path to what a
\* message hangs on.
Forks(entries) ==
  LET at == IdsIn(entries)
      before == {entries[k].parent :
                   k \in {j \in DOMAIN entries : entries[j].kind = "message"}}
  IN {entries}
       \cup {PathTo(entries, id) : id \in {i \in at \cup before : HasPath(entries, i)}}

\* fork: the source is opened and read, then a new file takes the entries one
\* by one.
Fork(h) ==
  \E p \in names, q \in Paths :
    /\ Opens(p)
    /\ \E copied \in Forks(Loaded(p)) : CreateFile(h, q, copied)

-----------------------------------------------------------------------------
(* Appending                                                               *)

\* A mutation: a save writes the file anew from the handle's memory.
Rewritten(handle, pieces) ==
  LET Lines[k \in 0 .. Len(handle.entries)] ==
        IF k = 0 THEN <<Text(Header, TRUE), Newline>>
        ELSE Lines[k - 1] \o <<Text(handle.entries[k], TRUE), Newline>>
  IN Lines[Len(handle.entries)] \o pieces

\* The file is opened to append.
Written(handle, pieces) == files[handle.path] \o pieces

\* The first of the two writes of "writeln!".
WriteText(h, entry) ==
  LET p == handles[h].path
      written(pieces) ==
        /\ files' = [files EXCEPT ![p] = Written(handles[h], pieces)]
        /\ names' = names \cup {p}
  IN \/ /\ written(<<Text(entry, TRUE)>>)
        /\ Set(h, [handles[h] EXCEPT !.doing = "newline", !.line = entry])
        /\ UNCHANGED <<faults, hurt>>
     \/ /\ Fault(p)
        /\ \E pieces \in Cut(entry) : written(pieces)
        /\ handles' = IF handles[h].rest = <<>> THEN handles
                      ELSE [handles EXCEPT ![h] = Closed]

\* append_message and its like, under a leaf that is checked to exist, and
\* set_leaf_id, under one that is not.
AppendEntry(h) ==
  /\ handles[h].doing = "idle" /\ handles[h].rest = <<>>
  /\ created < MaxEntries
  /\ created' = created + 1
  /\ \/ /\ handles[h].leaf \in {0} \cup IdsIn(handles[h].entries)
        /\ WriteText(h, Entry(created', handles[h].leaf, "message", 0))
     \/ \E target \in {0} \cup IdsIn(handles[h].entries) :
          WriteText(h, Entry(created', handles[h].leaf, "leaf", target))
  /\ UNCHANGED <<used, acked, shared>>

\* The loop of fork.
CopyEntry(h) ==
  /\ handles[h].doing = "idle" /\ handles[h].rest # <<>>
  /\ WriteText(h, Head(handles[h].rest))
  /\ UNCHANGED <<used, created, acked, shared>>

\* A mutation: a marker is for the file alone.
Remembered(handle) ==
  [handle EXCEPT !.entries = Append(@, handle.line),
                 !.leaf = IF handle.line.kind = "leaf" THEN @ ELSE handle.line.id]

\* Memory after an append: append_entry and set_leaf_id.
Appended(handle) ==
  [handle EXCEPT !.entries = Append(@, handle.line),
                 !.leaf = LeafAfter(handle.line)]

\* The second write, and the entry in memory once it has succeeded; a fork gives
\* up at the first error.
EndLine(h) ==
  LET handle == handles[h]
      p == handle.path
      rest == IF handle.rest = <<>> THEN <<>> ELSE Tail(handle.rest)
      settled(after) ==
        [after EXCEPT !.doing = "idle", !.line = Header, !.rest = rest]
  IN /\ \/ /\ handle.doing = "newline"
           /\ files' = [files EXCEPT ![p] = Append(@, Newline)]
           /\ acked' = [acked EXCEPT ![p] = @ \cup {handle.line}]
           /\ Set(h, settled(Appended(handle)))
           /\ UNCHANGED <<faults, hurt>>
        \/ /\ handle.doing = "unlinked"
           /\ Set(h, settled(Appended(handle)))
           /\ UNCHANGED <<files, acked, faults, hurt>>
        \/ /\ handle.doing \in {"newline", "unlinked"}
           /\ Fault(p)
           /\ Set(h, IF handle.rest = <<>> THEN settled(handle) ELSE Closed)
           /\ UNCHANGED <<files, acked>>
     /\ UNCHANGED <<names, used, created, shared>>

\* The session is dropped, or its process dies, perhaps within an append.
Leave(h) ==
  /\ handles[h].doing # "closed"
  /\ Set(h, Closed)
  /\ hurt' = IF handles[h].doing \in {"newline", "unlinked"} THEN hurt \cup {handles[h].path}
             ELSE hurt
  /\ UNCHANGED <<files, names, used, created, faults, acked, shared>>

\* delete, whoever has the file open; what they append later goes to a new file
\* of the same name.
Delete(p) ==
  /\ p \in names
  /\ names' = names \ {p}
  /\ files' = [files EXCEPT ![p] = <<>>]
  /\ acked' = [acked EXCEPT ![p] = {}]
  /\ hurt' = hurt \cup {p}
  /\ handles' = [h \in Handles |->
                   IF handles[h].path = p /\ handles[h].doing = "newline"
                   THEN [handles[h] EXCEPT !.doing = "unlinked"] ELSE handles[h]]
  /\ UNCHANGED <<used, created, faults, shared>>

Next ==
  \/ \E h \in Handles :
       \/ Create(h) \/ Open(h) \/ Fork(h) \/ AppendEntry(h) \/ CopyEntry(h)
       \/ EndLine(h) \/ Leave(h)
  \/ \E p \in Paths : Delete(p)

Spec == Init /\ [][Next]_vars

-----------------------------------------------------------------------------
(* Properties                                                              *)

\* Opening a session gives the entries and the leaf of the handle that wrote it,
\* unless a write failed, a writer died within an append or another handle wrote
\* too; moves of the leaf and forks included.
ReopensAsWritten ==
  \A h \in Handles :
    LET p == handles[h].path
    IN handles[h].doing = "idle" /\ p \notin hurt \cup shared =>
         /\ Opens(p)
         /\ Loaded(p) = handles[h].entries
         /\ LeafOf(Loaded(p)) = handles[h].leaf

\* The file implements a log that loses nothing it acknowledged: it opens with
\* all of that, or it does not open (SessionLog).
StateOf(p) ==
  IF p \notin names THEN "absent" ELSE IF Opens(p) THEN "open" ELSE "lost"

Log == INSTANCE SessionLog
  WITH Paths <- Paths,
       state <- [p \in Paths |-> StateOf(p)],
       log <- [p \in Paths |-> IF Opens(p) THEN Loaded(p) ELSE <<>>],
       acked <- acked

IsSessionLog == Log!Spec

\* Processes are interchangeable, and files.
Interchangeable == Permutations(Handles) \cup Permutations(Paths)
=============================================================================
