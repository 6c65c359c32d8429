-------------------------------- MODULE MCLogin --------------------------------
(***************************************************************************)
(* Every login, with two applications that use the file beside it.         *)
(***************************************************************************)
EXTENDS Login

MCFlows == {"anthropic", "codex", "radius"} \cup Device

MCRequests ==
  LET good == [get |-> TRUE, path |-> TRUE, error |-> FALSE, code |-> TRUE,
               state |-> "mine"]
  IN {good, [good EXCEPT !.get = FALSE], [good EXCEPT !.error = TRUE],
      [good EXCEPT !.state = "other"]}

MCInputs ==
  {[kind |-> "error", code |-> "none", state |-> "none"],
   [kind |-> "empty", code |-> "none", state |-> "none"],
   [kind |-> "text", code |-> "none", state |-> "mine"],
   [kind |-> "text", code |-> "mine", state |-> "mine"],
   [kind |-> "text", code |-> "other", state |-> "other"],
   [kind |-> "text", code |-> "other", state |-> "none"],
   [kind |-> "text", code |-> "other", state |-> "mine"]}

MCIntervals == {Absent, 0, 2}
MCLifetimes == {0, 7}
=============================================================================
