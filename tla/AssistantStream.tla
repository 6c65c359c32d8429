---------------------------- MODULE AssistantStream ----------------------------
(***************************************************************************)
(* What the consumer of an AssistantMessageEventStream may rely on,        *)
(* whichever provider writes it: a reply that has started grows, block     *)
(* after block; a block that has ended changes no more; the stream ends    *)
(* once, with the reply in hand or with an error.                          *)
(***************************************************************************)
EXTENDS Integers, Sequences

VARIABLES
  started,  \* the start event has been seen
  shown,    \* the blocks the events have shown: [kind, lead, parts, open]
  outcome   \* "none", or how the stream ended

vars == <<started, shown, outcome>>

Outcomes == {"none", "done", "error", "aborted", "ended"}

Init == started = FALSE /\ shown = <<>> /\ outcome = "none"

\* A block that is open may grow or end; one that ended is settled.
Grows(old, new) ==
  /\ new.kind = old.kind
  /\ ~old.open => new = old
  /\ new.open => /\ new.lead = old.lead
                 /\ Len(old.parts) <= Len(new.parts)
                 /\ SubSeq(new.parts, 1, Len(old.parts)) = old.parts

Unfolds ==
  /\ Len(shown) <= Len(shown')
  /\ \A i \in DOMAIN shown : Grows(shown[i], shown'[i])

\* One handler of a provider may show several events.
Stream ==
  /\ outcome = "none"
  /\ started \/ shown = <<>>
  /\ started => started'
  /\ shown' # <<>> => started'
  /\ Unfolds
  /\ outcome' \in Outcomes

Spec == Init /\ [][Stream]_vars
=============================================================================
