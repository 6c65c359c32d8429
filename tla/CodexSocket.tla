------------------------------- MODULE CodexSocket -----------------------------
(***************************************************************************)
(* The WebSockets of crates/ri-llm-provider/src/openai_codex_responses.rs: *)
(* what it takes to open one, what a request on it says and what comes     *)
(* back. A request need not repeat the conversation: when it begins with   *)
(* what the socket's last reply ended, it names that reply and sends the   *)
(* rest. What the server makes of it is kept with the socket.              *)
(*                                                                         *)
(* An item of a conversation is a number. Everything else a request says   *)
(* (model, tools, instructions, effort) is its "settings". The frames      *)
(* that carry one message, pings and pongs between them included, arrive   *)
(* as that message or break off.                                           *)
(***************************************************************************)
EXTENDS EventStream

CONSTANTS
  Requests,    \* the requests of a behaviour, numbered in the order they begin
  Sessions,    \* session ids of the callers
  Plans,       \* who asks each request, how, and whether after those before it
  MaxItems,    \* bound: items of one reply
  MaxRunning   \* bound: requests under way at once

NoSession == "none"
Transports == {"auto", "websocketCached", "websocket", "sse"}

ASSUME CodexSocketAssumption ==
  /\ Requests \subseteq Nat \ {0} /\ IsFiniteSet(Sessions)
  /\ Plans \subseteq [Requests -> [session : Sessions \cup {NoSession},
                                   transport : Transports, account : Nat,
                                   settings : Nat, waits : BOOLEAN]]
  /\ MaxItems \in Nat /\ MaxRunning \in Nat

VARIABLES
  req,   \* the task of each request
  socks  \* the sockets; the number of one that is shut is free again

NoSocket == 0
NoReply == [prev |-> 0, settings |-> 0, input |-> <<>>, reply |-> <<>>]

\* Enough for the requests under way and the cached ones.
Sockets == 1 .. MaxRunning + Cardinality(Sessions)

\* A socket: for whom it was opened and how long ago, and, at its server, what was
\* asked last and the conversations it has replied to.
Socket(account) ==
  [state |-> "open", account |-> account, age |-> 0, heard |-> <<>>,
   memory |-> <<>>]

Nothing == [Socket(0) EXCEPT !.state = "none"]

Open(s) == socks[s].state = "open"

\* Closed with a close frame, or dropped with what owned it.
Shut(s) == [socks EXCEPT ![s] = Nothing]

NewSocket == CHOOSE s \in Sockets : socks[s] = Nothing

-----------------------------------------------------------------------------
(* The continuation and the request body                                   *)

\* build_openai_codex_cached_websocket_continuation: the payload, whole, and the
\* reply as the next request will repeat it. A reply without an id leaves none.
Continuation(r, reply, prev) ==
  IF prev = 0 THEN NoReply
  ELSE [prev |-> prev, settings |-> r.settings, input |-> r.input, reply |-> reply]

\* What the server must already have been told.
Baseline(c) == c.input \o c.reply

\* Mutation: an input that is long enough is taken to go on.
ContinuesByLength(r, c) ==
  /\ c # NoReply
  /\ c.settings = r.settings
  /\ Len(Baseline(c)) <= Len(r.input)

\* openai_codex_cached_websocket_input_delta: the same body beside the input, and
\* an input that begins with the baseline.
Continues(r, c) ==
  /\ c # NoReply
  /\ c.settings = r.settings
  /\ Len(Baseline(c)) <= Len(r.input)
  /\ SubSeq(r.input, 1, Len(Baseline(c))) = Baseline(c)

Delta(r, c) == SubSeq(r.input, Len(Baseline(c)) + 1, Len(r.input))

UsesCache(r) == r.transport \in {"auto", "websocketCached"}

\* build_openai_codex_cached_websocket_request_body
Body(r, c) ==
  IF UsesCache(r) /\ Continues(r, c)
  THEN [prev |-> c.prev, items |-> Delta(r, c)]
  ELSE [prev |-> 0, items |-> r.input]

\* The server's: the conversation it remembers under the id, and the rest.
Understood(s, body) ==
  (IF body.prev = 0 THEN <<>> ELSE socks[s].memory[body.prev]) \o body.items

-----------------------------------------------------------------------------
(* Opening a socket                                                        *)

Dialling(t) == req[t].pc \in {"dial", "tunnel", "upgrade"}

Goes(t, pc) == req' = [req EXCEPT ![t].pc = pc]

\* OpenAICodexWebSocket::connect, to the host or to the proxy the environment
\* names for it.
Dial(t) ==
  /\ req[t].pc = "dial"
  /\ \E proxied \in BOOLEAN : Goes(t, IF proxied THEN "tunnel" ELSE "upgrade")
  /\ UNCHANGED <<socks, out>>

\* connect_websocket_proxy_stream: CONNECT is answered with a status of success.
Tunnel(t) ==
  /\ req[t].pc = "tunnel"
  /\ Goes(t, "upgrade")
  /\ UNCHANGED <<socks, out>>

\* handshake: the server switches protocols, and has a socket.
Upgraded(t) == req[t].pc = "upgrade"

-----------------------------------------------------------------------------
(* The server and the network                                              *)

\* The server closes a socket, or the network loses it; the client has yet to
\* find out.
Cut(s) ==
  /\ Open(s)
  /\ socks' = [socks EXCEPT ![s] =
                 [@ EXCEPT !.state = "cut", !.heard = <<>>, !.memory = <<>>]]
  /\ UNCHANGED <<req, out>>

\* A message comes back on the request's socket, whole.
Receives(t) == req[t].pc = "read" /\ Open(req[t].sock)

\* The server has replied and remembers the conversation under a new id.
Remembers(s, reply) ==
  [socks EXCEPT ![s].memory = Append(@, socks[s].heard \o reply)]
=============================================================================
