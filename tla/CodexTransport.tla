----------------------------- MODULE CodexTransport ----------------------------
(***************************************************************************)
(* Requests to the Codex backend: spawn_openai_codex_responses_request of  *)
(* crates/ri-llm-provider/src/http_api_provider.rs. Each request is a task *)
(* that takes its session's socket from the cache or opens one, asks, and  *)
(* reads the reply; it puts the socket back when the reply was good. If    *)
(* the socket fails before a word of the reply, the request is posted over *)
(* HTTP instead and the session stays with HTTP. Several requests of one   *)
(* session may run at once: a turn, a compaction, a branch summary.        *)
(***************************************************************************)
EXTENDS CodexSocket

CONSTANTS
  MaxAge,      \* OPENAI_CODEX_SESSION_WEBSOCKET_MAX_AGE_MS, in ticks
  IdleTtl,     \* OPENAI_CODEX_SESSION_WEBSOCKET_CACHE_TTL_MS, in ticks
  MaxRetries,  \* options.max_retries
  MaxEvents    \* bound: ticks of the clock, and what callers and network do

ASSUME CodexTransportAssumption ==
  /\ {MaxAge, IdleTtl, MaxRetries, MaxEvents} \subseteq Nat
  /\ MaxAge > 0

VARIABLES
  cache,    \* OPENAI_CODEX_WS_CACHE
  disabled, \* OPENAI_CODEX_WS_SSE_FALLBACK_SESSIONS
  events    \* the clock's ticks and what callers and network have done so far

vars == <<out, req, socks, cache, disabled, events>>

NoEntry == [sock |-> NoSocket, cont |-> NoReply, age |-> 0, idle |-> 0]

\* A request by plan p that has yet to begin.
Planned(p) ==
  [pc |-> "idle", session |-> p.session, transport |-> p.transport,
   account |-> p.account, settings |-> p.settings, waits |-> p.waits,
   input |-> <<>>, sent |-> <<>>, reply |-> <<>>, started |-> FALSE,
   limited |-> FALSE, sock |-> NoSocket, cont |-> NoReply, age |-> 0,
   attempt |-> 0, stop |-> "no"]

Running == {t \in Requests : req[t].pc \notin {"idle", "over"}}

\* push_abort_if_requested: the flag is up, or the consumer has gone.
StopSeen(t) == req[t].stop # "no"

-----------------------------------------------------------------------------
(* The end of a task                                                       *)

\* What is kept of a request that is over is what its caller goes on with: a
\* message that failed is left out of the next request.
Past(r, ended) ==
  [Planned(r) EXCEPT !.pc = "over", !.input = r.input,
                     !.reply = IF ended.outcome = "done" THEN r.reply ELSE <<>>]

\* What is kept of its stream: that it ended, and whether an event came out of
\* place.
Ended(o) ==
  [Silent EXCEPT !.outcome = IF o.outcome = "none" THEN "none" ELSE "ended",
                 !.broken = o.broken]

\* The task is over, and a socket it still holds goes with it.
Over(t, o) ==
  /\ out' = [out EXCEPT ![t] = Ended(o)]
  /\ req' = [req EXCEPT ![t] = Past(@, o)]

Drops(t) == IF req[t].sock = NoSocket THEN socks ELSE Shut(req[t].sock)

Fails(t, reason) ==
  /\ Over(t, PushError(out[t], reason))
  /\ socks' = Drops(t)

\* A session that is named stays with HTTP.
Disabled(t) == disabled \cup ({req[t].session} \ {NoSession})

\* Mutation: a reply that has begun is asked for again.
PostsAnyway(t) ==
  /\ req' = [req EXCEPT ![t].pc = "post", ![t].sock = NoSocket, ![t].age = 0]
  /\ socks' = Drops(t)
  /\ disabled' = Disabled(t)
  /\ UNCHANGED <<out, cache, events>>

\* A transport error: an error once the reply has begun, and HTTP before.
TransportFails(t) ==
  /\ disabled' = Disabled(t)
  /\ \/ /\ req[t].started
        /\ Fails(t, "error")
     \/ /\ ~req[t].started
        /\ req' = [req EXCEPT ![t].pc = "post", ![t].sock = NoSocket, ![t].age = 0]
        /\ socks' = Drops(t)
        /\ UNCHANGED out
  /\ UNCHANGED <<cache, events>>

-----------------------------------------------------------------------------
(* The callers                                                             *)

\* What the caller goes on from: a conversation of its session, cut where it
\* likes (a branch, a compaction), or nothing.
Bases(session) ==
  {<<>>} \cup
  UNION { {SubSeq(talk, 1, k) : k \in 1 .. Len(talk)} :
            talk \in {req[u].input \o req[u].reply :
                        u \in {v \in Requests : /\ req[v].pc = "over"
                                                /\ req[v].session = session}} }

\* The items of request t: its question and its reply's.
Question(t) == 10 * t
Answer(t, k) == 10 * t + k

Ask(t) ==
  /\ req[t].pc = "idle"
  /\ \A u \in Requests : u < t => req[u].pc # "idle"
  /\ Cardinality(Running) < MaxRunning
  /\ req[t].waits => Running = {}
  /\ \E base \in Bases(req[t].session) :
       req' = [req EXCEPT ![t].pc = "begin", ![t].input = Append(base, Question(t))]
  /\ UNCHANGED <<out, socks, cache, disabled, events>>

Event == events < MaxEvents /\ events' = events + 1

\* The abort flag is raised or the consumer drops the stream.
Stop(t) ==
  /\ t \in Running /\ req[t].stop = "no"
  /\ \E how \in {"abort", "gone"} : req' = [req EXCEPT ![t].stop = how]
  /\ Event
  /\ UNCHANGED <<out, socks, cache, disabled>>

\* cleanup_openai_codex_websocket_sessions
CleanUp(session) ==
  /\ cache[session] # NoEntry
  /\ socks' = Shut(cache[session].sock)
  /\ cache' = [cache EXCEPT ![session] = NoEntry]
  /\ Event
  /\ UNCHANGED <<out, req, disabled>>

\* reset_openai_codex_websocket_debug_stats
ResetStats(session) ==
  /\ session \in disabled
  /\ disabled' = disabled \ {session}
  /\ Event
  /\ UNCHANGED <<out, req, socks, cache>>

Older(age, limit) == IF age < limit THEN age + 1 ELSE age

\* Time passes for the sockets, and for what their owners know of them; what is
\* too old grows no older.
Tick ==
  /\ socks' = [s \in Sockets |->
                IF socks[s] = Nothing THEN Nothing
                ELSE [socks[s] EXCEPT !.age = Older(@, MaxAge)]]
  /\ req' = [t \in Requests |->
              IF req[t].sock = NoSocket THEN req[t]
              ELSE [req[t] EXCEPT !.age = Older(@, MaxAge)]]
  /\ cache' = [e \in Sessions |->
                IF cache[e] = NoEntry THEN NoEntry
                ELSE [cache[e] EXCEPT !.age = Older(@, MaxAge),
                                      !.idle = Older(@, IdleTtl)]]
  /\ <<socks', cache'>> # <<socks, cache>>
  /\ Event
  /\ UNCHANGED <<out, disabled>>

-----------------------------------------------------------------------------
(* A request over the socket                                               *)

Begin(t) ==
  /\ req[t].pc = "begin"
  /\ Goes(t, IF req[t].transport = "sse" \/ req[t].session \in disabled
             THEN "post" ELSE "acquire")
  /\ UNCHANGED <<out, socks, cache, disabled, events>>

\* The body is sent on socket s, which continues c and was opened age ticks ago.
Asks(t, s, c, age, opened) ==
  LET body == Body(req[t], c)
  IN /\ req' = [req EXCEPT ![t].pc = "read", ![t].sock = s, ![t].cont = c,
                           ![t].age = age, ![t].sent = body.items]
     /\ socks' = [opened EXCEPT
                    ![s].heard = IF opened[s].state = "open"
                                 THEN IF body.prev = 0 THEN body.items
                                      ELSE Understood(s, body)
                                 ELSE <<>>]

AcquireStopped(t) ==
  /\ req[t].pc = "acquire" /\ StopSeen(t)
  /\ Over(t, PushError(out[t], "aborted"))
  /\ UNCHANGED <<socks, cache, disabled, events>>

HasEntry(t) ==
  req[t].session # NoSession /\ cache[req[t].session] # NoEntry

Entry(t) == cache[req[t].session]

\* openai_codex_websocket_session_expired and _idle_expired
Expired(entry) ==
  \/ entry.age >= MaxAge
  \/ entry.idle >= IdleTtl

\* Mutation: the entry stays in the cache.
Shared(t) == cache

\* The entry leaves the cache with the request.
Taken(t) == [cache EXCEPT ![req[t].session] = NoEntry]

\* No socket is cached: one is opened.
AcquireNone(t) ==
  /\ req[t].pc = "acquire" /\ ~StopSeen(t) /\ ~HasEntry(t)
  /\ Goes(t, "dial")
  /\ UNCHANGED <<out, socks, cache, disabled, events>>

\* The cached one is too old, or was idle too long: it is closed.
AcquireExpired(t) ==
  /\ req[t].pc = "acquire" /\ ~StopSeen(t) /\ HasEntry(t) /\ Expired(Entry(t))
  /\ Goes(t, "dial")
  /\ socks' = Shut(Entry(t).sock)
  /\ cache' = Taken(t)
  /\ UNCHANGED <<out, disabled, events>>

\* The cached one serves.
AcquireCached(t) ==
  /\ req[t].pc = "acquire" /\ ~StopSeen(t) /\ HasEntry(t) /\ ~Expired(Entry(t))
  /\ Asks(t, Entry(t).sock, Entry(t).cont, Entry(t).age, socks)
  /\ cache' = Taken(t)
  /\ UNCHANGED <<out, disabled, events>>

Connect(t) == (Dial(t) \/ Tunnel(t)) /\ UNCHANGED <<cache, disabled, events>>

\* The socket is open and the request goes out on it.
Connected(t) ==
  /\ Upgraded(t)
  /\ LET s == NewSocket
     IN Asks(t, s, NoReply, 0, [socks EXCEPT ![s] = Socket(req[t].account)])
  /\ UNCHANGED <<out, cache, disabled, events>>

\* A step of the connection fails, or all of them take too long.
ConnectFails(t) == Dialling(t) /\ TransportFails(t)

\* The wait sees the flag, and a consumer that has gone only later.
ConnectAborted(t) ==
  /\ Dialling(t) /\ req[t].stop = "abort"
  /\ Over(t, PushError(out[t], "aborted"))
  /\ UNCHANGED <<socks, cache, disabled, events>>

\* The task looks before each message, and while it waits for the flag.
ReadStopped(t) ==
  /\ req[t].pc = "read" /\ StopSeen(t)
  /\ Fails(t, "aborted")
  /\ UNCHANGED <<cache, disabled, events>>

\* The write fails, the socket ends, a frame is broken or a close frame comes, an
\* event cannot be processed, or nothing comes for options.timeout_ms.
ReadFails(t) == req[t].pc = "read" /\ TransportFails(t)

\* A message that is no JSON, or an error message, which does not begin the reply.
ReadRefused(t) ==
  /\ Receives(t)
  /\ Fails(t, "error")
  /\ UNCHANGED <<cache, disabled, events>>

\* Mutation: no one notes that the request was made again.
RetriedUnnoted(t) ==
  req' = [req EXCEPT ![t].pc = "acquire", ![t].sock = NoSocket, ![t].age = 0]

\* websocket_connection_limit_reached: once, the request is made again.
Retried(t) ==
  req' = [req EXCEPT ![t].pc = "acquire", ![t].sock = NoSocket, ![t].age = 0,
                     ![t].limited = TRUE]

ReadLimit(t) ==
  /\ Receives(t)
  /\ \/ /\ ~req[t].started /\ ~req[t].limited
        /\ Retried(t)
        /\ socks' = Drops(t)
        /\ UNCHANGED <<out, cache, disabled, events>>
     \/ /\ req[t].started \/ req[t].limited
        /\ TransportFails(t)

\* What any other message does first.
Begun(t) == IF req[t].started THEN out[t] ELSE PushStart(out[t])

\* An event of the reply that shows nothing, such as response.created.
ReadOther(t) ==
  /\ Receives(t) /\ ~req[t].started
  /\ req' = [req EXCEPT ![t].started = TRUE]
  /\ out' = [out EXCEPT ![t] = Begun(t)]
  /\ UNCHANGED <<socks, cache, disabled, events>>

\* An item of the reply, from its first fragment to its last.
WithItem(o, item) ==
  LET i == Len(o.blocks) + 1
  IN EndBlocks(Extend(AddBlock(o, "text"), i, "text", item), {i})

NextAnswer(t) == Answer(t, Len(req[t].reply) + 1)

ReadItem(t) ==
  /\ Receives(t) /\ Len(req[t].reply) < MaxItems
  /\ req' = [req EXCEPT ![t].started = TRUE, ![t].reply = Append(@, NextAnswer(t))]
  /\ out' = [out EXCEPT ![t] = WithItem(Begun(t), NextAnswer(t))]
  /\ UNCHANGED <<socks, cache, disabled, events>>

\* Mutation: the socket counts as new.
NewAge(r) == 0

\* connection_created_at_ms stays that of the socket.
KeptAge(r) == r.age

\* response.completed or .incomplete: the socket goes back to the cache, where one
\* that another request of the session has put is dropped. The reply has an id
\* or not.
ReadDone(t) ==
  /\ Receives(t)
  /\ Over(t, PushDone(Begun(t)))
  /\ UNCHANGED <<disabled, events>>
  /\ \E named \in BOOLEAN :
       LET r == req[t]
           told == Remembers(r.sock, r.reply)
           prev == IF named THEN Len(told[r.sock].memory) ELSE 0
           cont == IF UsesCache(r) THEN Continuation(r, r.reply, prev) ELSE r.cont
           rested == [told EXCEPT ![r.sock].heard = <<>>]
       IN \/ /\ r.session = NoSession
             /\ socks' = Shut(r.sock)
             /\ UNCHANGED cache
          \/ /\ r.session # NoSession
             /\ socks' = IF HasEntry(t)
                         THEN [rested EXCEPT ![Entry(t).sock] = Nothing]
                         ELSE rested
             /\ cache' = [cache EXCEPT ![r.session] =
                            [sock |-> r.sock, cont |-> cont, age |-> KeptAge(r),
                             idle |-> 0]]

\* response.failed, or an event that does not fit the reply.
ReadFailed(t) ==
  /\ Receives(t)
  /\ Over(t, PushError(Begun(t), "error"))
  /\ socks' = Drops(t)
  /\ UNCHANGED <<cache, disabled, events>>

-----------------------------------------------------------------------------
(* A request over HTTP                                                     *)

PostStopped(t) ==
  /\ req[t].pc \in {"post", "wait", "body"} /\ StopSeen(t)
  /\ req[t].pc = "wait" => req[t].stop = "abort"
  /\ Over(t, PushError(out[t], "aborted"))
  /\ UNCHANGED <<socks, cache, disabled, events>>

Post(t) ==
  /\ req[t].pc = "post" /\ ~StopSeen(t)
  /\ Goes(t, "posted")
  /\ UNCHANGED <<out, socks, cache, disabled, events>>

PostedAborted(t) ==
  /\ req[t].pc = "posted" /\ req[t].stop = "abort"
  /\ Over(t, PushError(out[t], "aborted"))
  /\ UNCHANGED <<socks, cache, disabled, events>>

\* No answer, or a status that says to try again, while retries are left.
PostAgain(t) ==
  /\ req[t].pc = "posted" /\ req[t].attempt < MaxRetries
  /\ Goes(t, "wait")
  /\ UNCHANGED <<out, socks, cache, disabled, events>>

\* The pause is over.
PauseEnds(t) ==
  /\ req[t].pc = "wait"
  /\ req' = [req EXCEPT ![t].pc = "post", ![t].attempt = @ + 1]
  /\ UNCHANGED <<out, socks, cache, disabled, events>>

\* An error that is final, a response hook that fails, or a body that breaks off.
PostFails(t) ==
  /\ req[t].pc \in {"posted", "body"}
  /\ Over(t, PushError(out[t], "error"))
  /\ UNCHANGED <<socks, cache, disabled, events>>

Posted(t) ==
  /\ req[t].pc = "posted"
  /\ Goes(t, "body")
  /\ out' = [out EXCEPT ![t] = PushStart(@)]
  /\ UNCHANGED <<socks, cache, disabled, events>>

BodyItem(t) ==
  /\ req[t].pc = "body" /\ Len(req[t].reply) < MaxItems
  /\ req' = [req EXCEPT ![t].reply = Append(@, NextAnswer(t))]
  /\ out' = [out EXCEPT ![t] = WithItem(@, NextAnswer(t))]
  /\ UNCHANGED <<socks, cache, disabled, events>>

BodyDone(t) ==
  /\ req[t].pc = "body"
  /\ Over(t, PushDone(out[t]))
  /\ UNCHANGED <<socks, cache, disabled, events>>

-----------------------------------------------------------------------------

Init ==
  /\ \E plan \in Plans : req = [t \in Requests |-> Planned(plan[t])]
  /\ out = [t \in Requests |-> Silent]
  /\ socks = [s \in Sockets |-> Nothing]
  /\ cache = [s \in Sessions |-> NoEntry]
  /\ disabled = {}
  /\ events = 0

Socketed(t) ==
  \/ AcquireStopped(t) \/ AcquireNone(t) \/ AcquireExpired(t) \/ AcquireCached(t)
  \/ Connect(t) \/ Connected(t) \/ ConnectFails(t) \/ ConnectAborted(t)
  \/ ReadStopped(t) \/ ReadFails(t) \/ ReadRefused(t) \/ ReadLimit(t)
  \/ ReadOther(t) \/ ReadItem(t) \/ ReadDone(t) \/ ReadFailed(t)

OverHttp(t) ==
  \/ PostStopped(t) \/ Post(t) \/ PostedAborted(t) \/ PostAgain(t) \/ PauseEnds(t)
  \/ PostFails(t) \/ Posted(t) \/ BodyItem(t) \/ BodyDone(t)

Step(t) == Begin(t) \/ Socketed(t) \/ OverHttp(t)

Loses(s) == Cut(s) /\ Event /\ UNCHANGED <<cache, disabled>>

Next ==
  \/ \E t \in Requests : Ask(t) \/ Stop(t) \/ Step(t)
  \/ \E s \in Sockets : Loses(s)
  \/ \E s \in Sessions : CleanUp(s) \/ ResetStats(s)
  \/ Tick

Spec == Init /\ [][Next]_vars

\* The tasks run, and the server answers or breaks off.
FairSpec == Spec /\ WF_vars(\E t \in Requests : Step(t))

-----------------------------------------------------------------------------
(* Properties                                                              *)

\* The server answers the conversation the caller asked about: what it remembers
\* under the id of a continuation, with the items the request sends, is the
\* request's input, whatever the session's requests did to its sockets before
\* (build_openai_codex_cached_websocket_request_body).
WholeContext ==
  \A t \in Requests :
    req[t].pc = "read" /\ Open(req[t].sock) =>
      socks[req[t].sock].heard = req[t].input

\* A socket serves one request at a time: no two requests hold it, and one that
\* is held is not in the cache (stream_openai_codex_websocket_json takes the
\* entry out).
OneRequestPerSocket ==
  LET Holders(s) == {t \in Requests : req[t].pc = "read" /\ req[t].sock = s}
      Keepers(s) == {e \in Sessions : cache[e].sock = s}
  IN \A s \in Sockets : Cardinality(Holders(s)) + Cardinality(Keepers(s)) <= 1

\* No request is sent on a socket the server is about to close for its age, however
\* often it was put back and taken out (openai_codex_responses.rs:26).
AskedOnFresh ==
  [][\A t \in Requests :
       req[t].pc # "read" /\ req'[t].pc = "read" =>
         socks'[req'[t].sock].age < MaxAge]_vars

\* The sockets of a session: used by one request at a time, and never too old.
SocketsKept == []OneRequestPerSocket /\ AskedOnFresh

\* No event comes twice or out of place: a request that changes from the socket
\* to HTTP, or to another socket, has shown nothing before.
OneReplyShown == \A t \in Requests : ~out[t].broken

\* Every request ends, refused sockets, fallbacks and retries included.
RequestsEnd == []<>(Running = {})

-----------------------------------------------------------------------------
(* Three requests of one session, two of them at once at most, by plans in   *)
(* which the transport or the settings change on the way.                    *)

By(session, transport, settings, waits) ==
  [session |-> session, transport |-> transport, account |-> 1,
   settings |-> settings, waits |-> waits]

Turn == By("s", "auto", 1, TRUE)
Beside == By("s", "auto", 1, FALSE)

SmallPlans ==
  { <<Turn, Beside, Turn>>,
    <<Turn, By("s", "auto", 2, TRUE), Turn>>,
    <<Turn, By("s", "websocket", 1, TRUE), By("s", "websocketCached", 1, TRUE)>>,
    <<By(NoSession, "auto", 1, TRUE), By("s", "sse", 1, TRUE), Turn>> }
=============================================================================
