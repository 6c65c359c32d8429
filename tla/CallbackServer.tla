----------------------------- MODULE CallbackServer ----------------------------
(***************************************************************************)
(* The local server a browser login waits for, in                          *)
(* crates/ri-llm-provider/src/anthropic_oauth.rs: one task that takes one  *)
(* connection at a time until a request brings a code with the state of    *)
(* this login, or until it is told to stop. What it found goes through a   *)
(* channel that holds one value.                                           *)
(*                                                                         *)
(* A code is named by the login it was made for: "mine" is this one's,     *)
(* "other" that of an earlier login whose page is still open.              *)
(***************************************************************************)
EXTENDS Naturals

CONSTANTS
  Requests,     \* requests a browser may send
  MaxRequests,  \* bound: connections in a behaviour
  MaxFaults     \* bound: failures of the network, of the files and of the parties

ASSUME CallbackServerAssumption ==
  /\ Requests \subseteq [get : BOOLEAN, path : BOOLEAN, error : BOOLEAN,
                         code : BOOLEAN, state : {"none", "mine", "other"}]
  /\ MaxRequests \in Nat /\ MaxFaults \in Nat

VARIABLES
  server,    \* [phase, request, arrived]: the task and its connection
  callback,  \* what the channel holds
  shutdown,  \* the shutdown sender was used or dropped
  faults     \* failures so far

serverVars == <<server, callback, shutdown>>

Unsent == "unsent"         \* nothing was sent yet
NoCallback == "none"       \* the server stopped without a code
CodeOf(state) == state     \* a code, named by the login it is for
NoRequest ==
  [get |-> FALSE, path |-> FALSE, error |-> FALSE, code |-> FALSE, state |-> "none"]

Fault == faults < MaxFaults /\ faults' = faults + 1

ServerInit ==
  /\ server = [phase |-> "off", request |-> NoRequest, arrived |-> 0]
  /\ callback = Unsent
  /\ shutdown = FALSE

-----------------------------------------------------------------------------

\* Mutation: the sender outlives the wait.
Leaks == UNCHANGED shutdown

\* The shutdown sender is used, or dropped with the wait that owns it.
Drops == shutdown' = TRUE

\* start_oauth_callback_server, once the port is bound.
Bound ==
  /\ server' = [server EXCEPT !.phase = "listening"]
  /\ UNCHANGED <<callback, shutdown>>

\* noop_oauth_callback_server: the channel holds its answer from the start.
Noop ==
  /\ server' = [server EXCEPT !.phase = "stopped"]
  /\ callback' = NoCallback
  /\ UNCHANGED shutdown

\* Mutation: the state is not compared with this login's.
SucceedsUnchecked(r) == r.get /\ r.path /\ ~r.error /\ r.code /\ r.state # "none"

\* A request is answered with the success page when it is a GET of the callback
\* path that carries no error and both a code and this login's state.
Succeeds(r) == r.get /\ r.path /\ ~r.error /\ r.code /\ r.state = "mine"

Accept ==
  /\ server.phase = "listening" /\ server.arrived < MaxRequests
  /\ \E r \in Requests :
       server' = [phase |-> "handling", request |-> r,
                  arrived |-> server.arrived + 1]
  /\ UNCHANGED <<callback, shutdown, faults>>

\* accept fails: the login is told that there will be no code.
AcceptFails ==
  /\ server.phase = "listening" /\ Fault
  /\ server' = [server EXCEPT !.phase = "stopped"]
  /\ callback' = NoCallback
  /\ UNCHANGED shutdown

\* The request was read and its page written.
Handle ==
  LET r == server.request
  IN /\ server.phase = "handling"
     /\ IF Succeeds(r)
        THEN /\ callback' = CodeOf(r.state)
             /\ server' = [server EXCEPT !.phase = "stopped", !.request = NoRequest]
        ELSE /\ server' = [server EXCEPT !.phase = "listening", !.request = NoRequest]
             /\ UNCHANGED callback
     /\ UNCHANGED <<shutdown, faults>>

\* The request does not come in five seconds, or the page cannot be written: the
\* connection is forgotten, with the code it may have brought.
HandleFails ==
  /\ server.phase = "handling" /\ Fault
  /\ server' = [server EXCEPT !.phase = "listening", !.request = NoRequest]
  /\ UNCHANGED <<callback, shutdown>>

\* The shutdown is seen between two connections, never during one.
Stop ==
  /\ server.phase = "listening" /\ shutdown
  /\ server' = [server EXCEPT !.phase = "stopped"]
  /\ callback' = NoCallback
  /\ UNCHANGED <<shutdown, faults>>

ServerNext == Accept \/ AcceptFails \/ Handle \/ HandleFails \/ Stop
=============================================================================
