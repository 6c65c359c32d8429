------------------------------ MODULE RelayedStream ----------------------------
(***************************************************************************)
(* The two adapters that read the events of another one: the pi-messages   *)
(* API (crates/ri-llm-provider/src/pi_messages.rs) and the proxy client    *)
(* (crates/ri-agent-core/src/proxy.rs). The events name the block by its   *)
(* place in the message. The end of a block comes whole on the first, bare *)
(* on the second, which keeps what the fragments added up to.              *)
(***************************************************************************)
EXTENDS HttpStream

\* Their own state is the text of the arguments, kept with the block here.
RelayedNew == [terminal |-> FALSE]

RelayedStart == ~out.started /\ Read(wire, Went(proc, PushStart(out)))

\* text_start, thinking_start, toolcall_start
RelayedBlockStart ==
  /\ out.started /\ CanOpen
  /\ \E kind \in Kinds : Read(Opened(kind), Went(proc, AddBlock(out, kind)))

\* text_delta, thinking_delta, toolcall_delta
RelayedDelta ==
  \E i \in Items :
    /\ CanGrow(i)
    /\ Read(Grown(i), Went(proc, Extend(out, i, wire.items[i].kind, i)))

\* text_end, thinking_end, toolcall_end
RelayedBlockEnd ==
  \E i \in OpenItems : Read(Closed(i), Went(proc, PushBlockEnd(out, i)))

\* done and error
RelayedTerminal ==
  /\ out.started /\ ~wire.stopped
  /\ \E reason \in {"stop", "length", "toolUse", "error", "aborted"} :
       LET told == [out EXCEPT !.reason = reason]
       IN IF reason \in {"error", "aborted"}
          THEN Read(Stopped, Ended([terminal |-> TRUE],
                                           PushError(told, reason)))
          ELSE /\ OpenItems = {}
               /\ Read(Stopped, Ended([terminal |-> TRUE], PushDone(told)))

\* The proxy goes on reading after the terminal event, to no effect; the body
\* that ends before one is an error of pi-messages, and the end of the stream,
\* with the message as it is, for the proxy.
RelayedEnds ==
  \/ api = "piMessages" /\ BodyEnds(Failed(proc, out))
  \/ api = "proxy" /\ BodyEnds(Ended(proc, End(out)))

\* A line the proxy cannot read.
RelayedGarbled == api = "proxy" /\ Read(wire, Failed(proc, out))

RelayedNext ==
  /\ api \in {"piMessages", "proxy"}
  /\ \/ RelayedStart \/ RelayedBlockStart \/ RelayedDelta \/ RelayedBlockEnd
     \/ RelayedTerminal \/ RelayedEnds \/ RelayedGarbled
=============================================================================
