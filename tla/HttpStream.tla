------------------------------- MODULE HttpStream ------------------------------
(***************************************************************************)
(* The task that makes one request to a provider and turns the answer into *)
(* the events of an assistant message: the stream_*_json functions of      *)
(* crates/ri-llm-provider/src/http_api_provider.rs and run_proxy_request   *)
(* of crates/ri-agent-core/src/proxy.rs. The modules of the adapters say   *)
(* what one event of the answer does; this one says when it is read.       *)
(*                                                                         *)
(* The user raises the abort flag, the consumer drops the stream, the      *)
(* network fails and the provider closes the body whenever they like.      *)
(***************************************************************************)
EXTENDS EventStream

CONSTANTS
  Apis,          \* the adapters of the run
  MaxItems,      \* bound: items of the provider's reply
  MaxFragments,  \* bound: fragments of an item
  MaxRetries,    \* options.max_retries
  Wrapped        \* the stream is forwarded by lazy_stream of models_runtime.rs

ASSUME HttpStreamAssumption ==
  /\ MaxItems \in Nat /\ MaxFragments \in Nat /\ MaxRetries \in Nat
  /\ Wrapped \in BOOLEAN

VARIABLES
  api,       \* which adapter reads the answer
  task,      \* "begin", "request" (sent), "reading" or "over"
  attempt,   \* requests that failed and were made again
  wire,      \* the provider's side: [items, stopped]
  proc,      \* the adapter's own state
  aborted,   \* options.abort_flag
  gone,      \* the consumer has dropped the stream and its result
  overread   \* an event was read for a consumer that had gone

netVars == <<api, attempt, aborted, gone>>

\* Which requests go through send_with_sdk_retries, which push the start event
\* with the response, and which look at the abort flag between chunks only.
Retrying == {"anthropic", "completions", "responses"}
StartsAtResponse == {"completions", "responses"}
ChecksPerChunk == {"piMessages", "proxy"}

\* A mutation: nobody looks for a consumer that has gone.
NeverAbandoned == FALSE

\* is_abandoned: what forwards the stream holds its receivers.
Abandoned == gone /\ ~Wrapped

\* push_abort_if_requested; proxy.rs looks at the flag alone.
StopSeen == aborted \/ (Abandoned /\ api # "proxy")

\* What a failure is called; proxy.rs looks at the flag once more.
FailReason == IF api = "proxy" /\ aborted THEN "aborted" ELSE "error"

Over(o) == /\ task' = "over"
           /\ out' = o

-----------------------------------------------------------------------------
(* The request                                                             *)

SendAborted ==
  /\ task = "begin" /\ StopSeen
  /\ Over(PushError(out, "aborted"))
  /\ UNCHANGED <<netVars, wire, proc, overread>>

Send ==
  /\ task = "begin" /\ ~StopSeen
  /\ task' = "request"
  /\ UNCHANGED <<netVars, out, wire, proc, overread>>

\* No answer, or one whose status says to try again after a while.
MayRetry == task = "request" /\ api \in Retrying /\ attempt < MaxRetries

SendAgain ==
  /\ MayRetry /\ ~aborted
  /\ attempt' = attempt + 1
  /\ UNCHANGED <<api, aborted, gone, task, out, wire, proc, overread>>

\* The wait before the next attempt sees the flag.
RetryAborted ==
  /\ MayRetry /\ aborted
  /\ Over(PushError(out, "aborted"))
  /\ UNCHANGED <<netVars, wire, proc, overread>>

\* No answer, an error status or a response hook that fails.
SendFails ==
  /\ task = "request"
  /\ Over(PushError(out, FailReason))
  /\ UNCHANGED <<netVars, wire, proc, overread>>

Responds ==
  /\ task = "request"
  /\ task' = "reading"
  /\ out' = IF api \in StartsAtResponse THEN PushStart(out) ELSE out
  /\ UNCHANGED <<netVars, wire, proc, overread>>

-----------------------------------------------------------------------------
(* The answer                                                              *)

\* What an event of the answer leaves: the adapter's state, the stream, and
\* whether the task goes on, fails or is done.
Went(p, o) == [proc |-> p, out |-> o, then |-> "on"]
Failed(p, o) == [proc |-> p, out |-> o, then |-> "fail"]
Ended(p, o) == [proc |-> p, out |-> o, then |-> "done"]

\* A mutation: an error the message bears is taken for one that was pushed.
ApplyUnlessBorne(step) ==
  /\ proc' = step.proc
  /\ out' = IF step.then = "fail" /\ step.out.reason # "error"
            THEN PushError(step.out, FailReason) ELSE step.out
  /\ task' = IF step.then = "on" THEN task ELSE "over"

\* The task's end: an error that was not pushed is pushed now, and one that was
\* finds the stream ended.
Apply(step) ==
  /\ proc' = step.proc
  /\ out' = IF step.then = "fail" THEN PushError(step.out, FailReason)
            ELSE step.out
  /\ task' = IF step.then = "on" THEN task ELSE "over"

\* An event is read, the first of its chunk or not, and leaves the provider's
\* side at w.
Read(w, step) ==
  /\ task = "reading"
  /\ \E first \in BOOLEAN :
       LET looks == first \/ api \notin ChecksPerChunk
       IN /\ looks => ~StopSeen
          /\ overread' = (overread \/ (gone /\ looks))
  /\ wire' = w
  /\ Apply(step)
  /\ UNCHANGED netVars

\* More of the answer arrives and the task sees that it should stop.
ReadAborted ==
  /\ task = "reading" /\ StopSeen
  /\ Over(PushError(out, "aborted"))
  /\ UNCHANGED <<netVars, wire, proc, overread>>

\* The connection breaks.
ReadFails ==
  /\ task = "reading" /\ ~StopSeen
  /\ Over(PushError(out, "error"))
  /\ UNCHANGED <<netVars, wire, proc, overread>>

\* The provider closes the body, after its last event or before.
BodyEnds(step) ==
  /\ task = "reading"
  /\ api # "piMessages" => ~StopSeen
  /\ Apply(step)
  /\ UNCHANGED <<netVars, wire, overread>>

-----------------------------------------------------------------------------
(* The caller and the provider                                             *)

RaiseAbort ==
  /\ task # "over" /\ ~aborted
  /\ aborted' = TRUE
  /\ UNCHANGED <<api, attempt, gone, task, out, wire, proc, overread>>

DropStream ==
  /\ task # "over" /\ ~gone
  /\ gone' = TRUE
  /\ UNCHANGED <<api, attempt, aborted, task, out, wire, proc, overread>>

\* An item of the reply: whether its start brought content that comes with no
\* delta, and the fragments that were sent.
Item(kind) == [kind |-> kind, brought |-> FALSE, sent |-> 0, open |-> TRUE]
Silence == [items |-> <<>>, stopped |-> FALSE]

Items == DOMAIN wire.items
OpenItems == {i \in Items : wire.items[i].open}
CanOpen == ~wire.stopped /\ Len(wire.items) < MaxItems
CanGrow(i) == i \in OpenItems /\ ~wire.stopped /\ wire.items[i].sent < MaxFragments

Opened(kind) == [wire EXCEPT !.items = Append(@, Item(kind))]
Grown(i) == [wire EXCEPT !.items[i].sent = @ + 1]
Closed(i) == [wire EXCEPT !.items[i].open = FALSE]
Stopped == [wire EXCEPT !.stopped = TRUE]

\* The item opened next, and an item opened with its first fragment or with
\* content of its own.
NextItem == Len(wire.items) + 1
OpenedWith(kind) ==
  [wire EXCEPT !.items = Append(@, [Item(kind) EXCEPT !.sent = 1])]
OpenedBringing(kind) ==
  [wire EXCEPT !.items = Append(@, [Item(kind) EXCEPT !.brought = TRUE])]

HttpInit ==
  /\ out = Silent
  /\ api \in Apis
  /\ task = "begin"
  /\ attempt = 0
  /\ wire = Silence
  /\ aborted = FALSE /\ gone = FALSE /\ overread = FALSE

HttpNext ==
  \/ SendAborted \/ Send \/ SendAgain \/ RetryAborted \/ SendFails \/ Responds
  \/ ReadAborted \/ ReadFails \/ RaiseAbort \/ DropStream
=============================================================================
