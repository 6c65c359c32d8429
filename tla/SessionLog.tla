------------------------------- MODULE SessionLog ------------------------------
(***************************************************************************)
(* What the holder of a session file may rely on: a session that opens     *)
(* holds every entry that was acknowledged, in the order they were         *)
(* written; it grows by one entry at a time and loses none. A session that *)
(* does not open any more never opens again with less.                     *)
(***************************************************************************)
EXTENDS Integers, Sequences

CONSTANT Paths

VARIABLES
  state,   \* [Paths -> {"absent", "open", "lost"}]
  log,     \* [Paths -> what opening the session gives, nothing unless "open"]
  acked    \* [Paths -> the entries whose append succeeded]

vars == <<state, log, acked>>

Init ==
  /\ state = [p \in Paths |-> "absent"]
  /\ log = [p \in Paths |-> <<>>]
  /\ acked = [p \in Paths |-> {}]

Holds(entries, acknowledged) ==
  \A e \in acknowledged : \E k \in DOMAIN entries : entries[k] = e

\* An append: it may succeed, leave nothing, be there without having been
\* acknowledged, or be the end of the session.
Grow(p) ==
  /\ state[p] = "open" /\ state'[p] \in {"open", "lost"}
  /\ state'[p] = "open" =>
       /\ Len(log'[p]) \in {Len(log[p]), Len(log[p]) + 1}
       /\ SubSeq(log'[p], 1, Len(log[p])) = log[p]
       /\ Holds(log'[p], acked'[p])
  /\ acked[p] \subseteq acked'[p]

\* A new session is empty; an append to a file that is gone makes no session.
Create(p) ==
  /\ state[p] = "absent" /\ state'[p] \in {"open", "lost"}
  /\ log'[p] = <<>> /\ acked'[p] = {}

Delete(p) == state'[p] = "absent" /\ acked'[p] = {}

\* What is lost stays lost.
StaysLost(p) == state[p] = "lost" /\ state'[p] = "lost"

Next ==
  \E p \in Paths :
    /\ Grow(p) \/ Create(p) \/ Delete(p) \/ StaysLost(p)
    /\ state'[p] # "open" => log'[p] = <<>>
    /\ \A q \in Paths \ {p} :
         state'[q] = state[q] /\ log'[q] = log[q] /\ acked'[q] = acked[q]

Spec == Init /\ [][Next]_vars
=============================================================================
