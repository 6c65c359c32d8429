------------------------------ MODULE CodexProofs ------------------------------
(***************************************************************************)
(* Theorems about CodexTransport, for every set of requests, sessions and  *)
(* plans, and for every bound.                                             *)
(*                                                                         *)
(* OneReplyShown: the invariant says what each place of the task has       *)
(* shown: nothing until the reply has begun, which `started` tells of a    *)
(* socket and the place itself of HTTP, and from then on a message whose   *)
(* blocks are all told.                                                    *)
(*                                                                         *)
(* WholeContext and SocketsKept rest on who owns a socket. A task that     *)
(* reads owns one and so does an entry of the cache; no two own the same,  *)
(* and what an owner believes of its socket is so: how old it is, what its *)
(* server was asked, and which conversation the server knows under the id  *)
(* of the continuation. That a request which opens a socket finds a free   *)
(* number is a count of the tasks under way and of the sessions.           *)
(***************************************************************************)
EXTENDS CodexTransport, SequenceTheorems, FiniteSetTheorems, TLAPS

Blocks == [kind : {"text"}, lead : Nat, parts : Seq(Int)]
ShownBlocks == [kind : {"text"}, lead : Nat, parts : Seq(Int), open : BOOLEAN]

Streams ==
  [blocks : Seq(Blocks), shown : Seq(ShownBlocks), started : BOOLEAN,
   outcome : {"none"}, reason : {"stop"}, broken : BOOLEAN]

\* A message under construction whose receiver has all of it.
Whole(o) ==
  /\ o \in Streams
  /\ o.started /\ ~o.broken
  /\ Len(o.blocks) = Len(o.shown)

Fits(o) == o = Silent \/ Whole(o)

Fields ==
  {"pc", "session", "transport", "account", "settings", "waits", "input", "sent",
   "reply", "started", "limited", "sock", "cont", "age", "attempt", "stop"}

Shape ==
  /\ DOMAIN out = Requests /\ DOMAIN req = Requests
  /\ \A t \in Requests : DOMAIN req[t] = Fields /\ req[t].reply \in Seq(Int)

QuietPcs ==
  {"idle", "begin", "acquire", "dial", "tunnel", "upgrade", "post", "posted", "wait"}

\* What a task has shown where it stands.
Shows(r, o) ==
  \/ r.pc \in QuietPcs /\ ~r.started /\ o = Silent
  \/ r.pc = "read" /\ ~r.started /\ o = Silent
  \/ r.pc = "read" /\ r.started /\ Whole(o)
  \/ r.pc = "body" /\ Whole(o)
  \/ r.pc = "over" /\ ~o.broken

StreamInv == Shape /\ \A t \in Requests : Shows(req[t], out[t])

-----------------------------------------------------------------------------
(* The events                                                              *)

\* The start of a reply makes a message of it.
LEMMA StartWhole == Whole(PushStart(Silent))
<1>1. PushStart(Silent) =
        [blocks |-> <<>>, shown |-> <<>>, started |-> TRUE, outcome |-> "none",
         reason |-> "stop", broken |-> FALSE]
  BY DEF PushStart, Push, Silent
<1>2. <<>> \in Seq(Blocks) /\ <<>> \in Seq(ShownBlocks)
  OBVIOUS
<1>. QED
  BY <1>1, <1>2 DEF Whole, Streams

OpenText == [kind |-> "text", lead |-> 0, parts |-> <<>>, open |-> TRUE]

\* A new block is told as it is added.
LEMMA Added ==
  ASSUME NEW o, Whole(o)
  PROVE  LET o1 == AddBlock(o, "text")
             n == Len(o.blocks) + 1
         IN /\ Whole(o1)
            /\ Len(o1.blocks) = n
            /\ o1.blocks[n] = Block("text") /\ o1.shown[n] = OpenText
<1>. DEFINE bs == Append(o.blocks, Block("text"))
            ss == Append(o.shown, OpenText)
            p == [o EXCEPT !.blocks = bs]
            n == Len(o.blocks) + 1
<1>1. /\ o \in Streams /\ o.started /\ ~o.broken
      /\ o.blocks \in Seq(Blocks) /\ o.shown \in Seq(ShownBlocks)
      /\ Len(o.blocks) \in Nat /\ n = Len(o.shown) + 1
      /\ o.outcome = "none"
  BY DEF Whole, Streams
<1>2. Block("text") \in Blocks /\ OpenText \in ShownBlocks
  BY DEF Block, Blocks, OpenText, ShownBlocks
<1>3. /\ bs \in Seq(Blocks) /\ Len(bs) = n /\ bs[n] = Block("text")
      /\ ss \in Seq(ShownBlocks) /\ Len(ss) = n /\ ss[n] = OpenText
  <2>1. bs \in Seq(Blocks) /\ Len(bs) = n /\ bs[n] = Block("text")
    BY <1>1, <1>2, AppendProperties
  <2>2. ss \in Seq(ShownBlocks) /\ Len(ss) = n /\ ss[n] = OpenText
    BY <1>1, <1>2, AppendProperties
  <2>. QED
    BY <2>1, <2>2
<1>. HIDE DEF bs, ss
<1>4. /\ p \in Streams /\ p.blocks = bs /\ p.shown = o.shown
      /\ p.started = o.started /\ p.broken = o.broken /\ p.outcome = "none"
  BY <1>1, <1>3 DEF Streams
<1>5. p.blocks[n].kind = "text"
  BY <1>3, <1>4 DEF Block
<1>6. AddBlock(o, "text") = [p EXCEPT !.shown = ss, !.broken = FALSE]
  <2>1. AddBlock(o, "text") =
          [p EXCEPT !.shown = Append(p.shown, [kind |-> p.blocks[n].kind, lead |-> 0,
                                         parts |-> <<>>, open |-> TRUE]),
                    !.broken = p.broken \/ ~p.started \/ n # Len(p.shown) + 1]
    BY <1>4 DEF AddBlock, PushBlockStart, Push, bs
  <2>2. Append(p.shown, [kind |-> p.blocks[n].kind, lead |-> 0,
                           parts |-> <<>>, open |-> TRUE]) = ss
    BY <1>4, <1>5 DEF ss, OpenText
  <2>3. (p.broken \/ ~p.started \/ n # Len(p.shown) + 1) = FALSE
    BY <1>1, <1>4
  <2>. QED
    BY <2>1, <2>2, <2>3
<1>. HIDE DEF p
<1>. QED
  BY <1>1, <1>3, <1>4, <1>6 DEF Whole, Streams

\* A fragment of the last block, which is open, is told.
LEMMA Extended ==
  ASSUME NEW o, Whole(o), NEW item \in Int, NEW n \in DOMAIN o.blocks,
         o.blocks[n].kind = "text", o.shown[n].kind = "text", o.shown[n].open
  PROVE  LET o1 == Extend(o, n, "text", item)
         IN /\ Whole(o1)
            /\ n \in DOMAIN o1.blocks
            /\ o1.blocks[n].kind = "text" /\ o1.shown[n].kind = "text"
            /\ o1.shown[n].open
<1>. DEFINE b == [o.blocks[n] EXCEPT !.parts = Append(@, item)]
            s == [o.shown[n] EXCEPT !.parts = Append(@, item)]
            bs == [o.blocks EXCEPT ![n] = b]
            ss == [o.shown EXCEPT ![n] = s]
            p == [o EXCEPT !.blocks = bs]
<1>1. /\ o \in Streams /\ o.started /\ ~o.broken
      /\ o.blocks \in Seq(Blocks) /\ o.shown \in Seq(ShownBlocks)
      /\ Len(o.blocks) = Len(o.shown) /\ n \in 1 .. Len(o.blocks)
      /\ o.outcome = "none"
  BY DEF Whole, Streams
<1>2. /\ o.blocks[n] \in Blocks /\ o.shown[n] \in ShownBlocks
  BY <1>1
<1>3. /\ b \in Blocks /\ b.kind = "text"
      /\ s \in ShownBlocks /\ s.kind = "text" /\ s.open
  <2>. DEFINE bp == Append(o.blocks[n].parts, item)
              sp == Append(o.shown[n].parts, item)
  <2>1. bp \in Seq(Int) /\ sp \in Seq(Int)
    <3>1. o.blocks[n].parts \in Seq(Int) /\ o.shown[n].parts \in Seq(Int)
      BY <1>2 DEF Blocks, ShownBlocks
    <3>. QED
      BY <3>1, AppendProperties
  <2>. HIDE DEF bp, sp
  <2>2. b = [o.blocks[n] EXCEPT !.parts = bp] /\ s = [o.shown[n] EXCEPT !.parts = sp]
    BY DEF b, s, bp, sp
  <2>. HIDE DEF b, s
  <2>3. b \in Blocks /\ b.kind = "text"
    BY <1>2, <2>1, <2>2 DEF Blocks
  <2>4. s \in ShownBlocks /\ s.kind = "text" /\ s.open
    BY <1>2, <2>1, <2>2 DEF ShownBlocks
  <2>. QED
    BY <2>3, <2>4
<1>. HIDE DEF b, s
<1>4. /\ bs \in Seq(Blocks) /\ Len(bs) = Len(o.blocks) /\ bs[n] = b
      /\ ss \in Seq(ShownBlocks) /\ Len(ss) = Len(o.shown) /\ ss[n] = s
  <2>1. bs \in Seq(Blocks) /\ Len(bs) = Len(o.blocks) /\ bs[n] = b
    BY <1>1, <1>3, ExceptSeq
  <2>2. ss \in Seq(ShownBlocks) /\ Len(ss) = Len(o.shown) /\ ss[n] = s
    BY <1>1, <1>3, ExceptSeq
  <2>. QED
    BY <2>1, <2>2
<1>5. [o EXCEPT !.blocks[n].parts = Append(@, item)] = p
  BY <1>1, <1>2 DEF b, Streams, Blocks
<1>. HIDE DEF bs, ss
<1>6. /\ p \in Streams /\ p.blocks = bs /\ p.shown = o.shown
      /\ p.started = o.started /\ p.broken = o.broken /\ p.outcome = "none"
  BY <1>1, <1>4 DEF Streams
<1>. HIDE DEF p
<1>7. Extend(o, n, "text", item) = PushDelta(p, n, "text", item)
  BY <1>5 DEF Extend
<1>8. Takes(p, n, "text")
  BY <1>1, <1>6 DEF Takes
<1>9. PushDelta(p, n, "text", item) = [p EXCEPT !.shown[n].parts = Append(@, item)]
  BY <1>6, <1>8 DEF PushDelta, Push
<1>10. [p EXCEPT !.shown[n].parts = Append(@, item)] = [p EXCEPT !.shown = ss]
  BY <1>1, <1>2, <1>6 DEF s, ss, Streams, ShownBlocks
<1>11. Extend(o, n, "text", item) = [p EXCEPT !.shown = ss]
  BY <1>7, <1>9, <1>10
<1>12. /\ [p EXCEPT !.shown = ss] \in Streams
       /\ [p EXCEPT !.shown = ss].blocks = bs /\ [p EXCEPT !.shown = ss].shown = ss
       /\ [p EXCEPT !.shown = ss].started /\ ~[p EXCEPT !.shown = ss].broken
  BY <1>1, <1>4, <1>6 DEF Streams
<1>13. Len(bs) = Len(ss) /\ n \in DOMAIN bs /\ bs[n].kind = "text"
       /\ ss[n].kind = "text" /\ ss[n].open
  BY <1>1, <1>3, <1>4
<1>. QED
  BY <1>11, <1>12, <1>13 DEF Whole

\* The end of an open block is told.
LEMMA BlockEnds ==
  ASSUME NEW o, Whole(o), NEW n \in DOMAIN o.blocks,
         o.blocks[n].kind = "text", o.shown[n].kind = "text", o.shown[n].open
  PROVE  Whole(EndBlocks(o, {n}))
<1>. DEFINE ss == [i \in DOMAIN o.shown |->
                    IF i = n THEN AsEnded(o.shown[i], o.blocks[i]) ELSE o.shown[i]]
<1>1. /\ o \in Streams /\ o.started /\ ~o.broken
      /\ o.blocks \in Seq(Blocks) /\ o.shown \in Seq(ShownBlocks)
      /\ Len(o.blocks) = Len(o.shown) /\ n \in 1 .. Len(o.blocks)
      /\ o.outcome = "none"
  BY DEF Whole, Streams
<1>2. \A i \in 1 .. Len(o.shown) :
        o.blocks[i] \in Blocks /\ o.shown[i] \in ShownBlocks
  BY <1>1
<1>3. \A i \in 1 .. Len(o.shown) :
        AsEnded(o.shown[i], o.blocks[i]) \in ShownBlocks
  <2>. SUFFICES ASSUME NEW i \in 1 .. Len(o.shown)
                PROVE  AsEnded(o.shown[i], o.blocks[i]) \in ShownBlocks
    OBVIOUS
  <2>1. o.shown[i] \in ShownBlocks /\ o.blocks[i].parts \in Seq(Int)
        /\ o.blocks[i].lead \in Nat
    BY <1>2 DEF Blocks
  <2>. DEFINE ps == o.blocks[i].parts
              l == o.blocks[i].lead
  <2>. HIDE DEF ps, l
  <2>2. [o.shown[i] EXCEPT !.lead = l, !.parts = ps, !.open = FALSE] \in ShownBlocks
    BY <2>1 DEF ShownBlocks, ps, l
  <2>. QED
    BY <2>2 DEF AsEnded, ps, l
<1>4. /\ ss \in Seq(ShownBlocks) /\ Len(ss) = Len(o.shown)
  <2>1. DOMAIN o.shown = 1 .. Len(o.shown) /\ Len(o.shown) \in Nat
    BY <1>1
  <2>2. ss \in [1 .. Len(o.shown) -> ShownBlocks]
    BY <2>1, <1>2, <1>3
  <2>. HIDE DEF ss
  <2>3. ss \in Seq(ShownBlocks)
    BY <2>1, <2>2, SeqDef
  <2>. QED
    BY <2>1, <2>2, <2>3, LenProperties
<1>5. Takes(o, n, o.blocks[n].kind)
  BY <1>1 DEF Takes
<1>6. EndBlocks(o, {n}) = [o EXCEPT !.shown = ss, !.broken = FALSE]
  <2>1. (o.broken \/ \E i \in {n} : ~Takes(o, i, o.blocks[i].kind)) = FALSE
    BY <1>1, <1>5
  <2>2. [i \in DOMAIN o.shown |->
           IF i \in {n} THEN AsEnded(o.shown[i], o.blocks[i])
           ELSE o.shown[i]] = ss
    OBVIOUS
  <2>3. EndBlocks(o, {n}) =
          [o EXCEPT
             !.shown = [i \in DOMAIN o.shown |->
                          IF i \in {n} THEN AsEnded(o.shown[i], o.blocks[i])
                          ELSE o.shown[i]],
             !.broken = o.broken \/ \E i \in {n} : ~Takes(o, i, o.blocks[i].kind)]
    BY <1>1 DEF EndBlocks, Push
  <2>. QED
    BY <2>1, <2>2, <2>3
<1>. HIDE DEF ss
<1>. QED
  BY <1>1, <1>4, <1>6 DEF Whole, Streams

\* An item, from its start to its end, leaves a message that is all told.
LEMMA ItemWhole ==
  ASSUME NEW o, Whole(o), NEW item \in Int
  PROVE  Whole(WithItem(o, item))
<1>. DEFINE n == Len(o.blocks) + 1
            o1 == AddBlock(o, "text")
            o2 == Extend(o1, n, "text", item)
<1>1. /\ Whole(o1) /\ Len(o1.blocks) = n
      /\ o1.blocks[n] = Block("text") /\ o1.shown[n] = OpenText
  BY Added
<1>2. n \in DOMAIN o1.blocks
  <2>1. o.blocks \in Seq(Blocks) /\ Len(o.blocks) \in Nat
    BY DEF Whole, Streams
  <2>2. o1.blocks \in Seq(Blocks)
    BY <1>1 DEF Whole, Streams
  <2>3. DOMAIN o1.blocks = 1 .. n
    BY <1>1, <2>2
  <2>. QED
    BY <2>1, <2>3
<1>3. o1.blocks[n].kind = "text" /\ o1.shown[n].kind = "text" /\ o1.shown[n].open
  BY <1>1 DEF Block, OpenText
<1>. HIDE DEF o1
<1>4. /\ Whole(o2) /\ n \in DOMAIN o2.blocks
      /\ o2.blocks[n].kind = "text" /\ o2.shown[n].kind = "text" /\ o2.shown[n].open
  BY <1>1, <1>2, <1>3, Extended
<1>. HIDE DEF o2
<1>5. Whole(EndBlocks(o2, {n}))
  BY <1>4, BlockEnds
<1>. QED
  BY <1>5 DEF WithItem, o1, o2

-----------------------------------------------------------------------------
(* The steps of a task                                                     *)

\* However a stream that fits is ended, its last event comes in place.
LEMMA EndsInPlace ==
  ASSUME NEW o, Fits(o), NEW reason
  PROVE  ~Ended(PushError(o, reason)).broken /\ ~Ended(PushDone(o)).broken
<1>1. /\ DOMAIN o = {"blocks", "shown", "started", "outcome", "reason", "broken"}
      /\ ~o.broken
  BY DEF Fits, Whole, Streams, Silent
<1>2. ~PushError(o, reason).broken
  BY <1>1 DEF PushError, Push
<1>3. ~PushDone(o).broken
  BY <1>1 DEF PushDone, Push
<1>4. \A p : Ended(p).broken = p.broken
  BY DEF Ended, Silent
<1>. QED
  BY <1>2, <1>3, <1>4

\* What a step of one task has to show.
LEMMA OneTask ==
  ASSUME StreamInv, NEW t \in Requests,
         DOMAIN req' = Requests, DOMAIN out' = Requests,
         \A u \in Requests \ {t} : req'[u] = req[u] /\ out'[u] = out[u],
         DOMAIN req'[t] = Fields, req'[t].reply \in Seq(Int),
         Shows(req'[t], out'[t])
  PROVE  StreamInv'
BY DEF StreamInv, Shape, Shows

\* A task that is over has shown what it has shown in place.
LEMMA OverKeeps ==
  ASSUME StreamInv, NEW t \in Requests, NEW o, ~Ended(o).broken, Over(t, o)
  PROVE  StreamInv'
<1>. DEFINE r == Past(req[t], o)
<1>1. /\ DOMAIN req = Requests /\ DOMAIN out = Requests /\ req[t].reply \in Seq(Int)
  BY DEF StreamInv, Shape
<1>2. DOMAIN r = Fields /\ r.pc = "over" /\ r.reply \in Seq(Int)
  BY <1>1 DEF Past, Planned, Fields
<1>. HIDE DEF r
<1>3. req' = [req EXCEPT ![t] = r] /\ out' = [out EXCEPT ![t] = Ended(o)]
  BY DEF Over, r
<1>4. Shows(r, Ended(o))
  BY <1>2 DEF Shows
<1>5. /\ DOMAIN req' = Requests /\ DOMAIN out' = Requests
      /\ req'[t] = r /\ out'[t] = Ended(o)
      /\ \A u \in Requests \ {t} : req'[u] = req[u] /\ out'[u] = out[u]
  BY <1>1, <1>3
<1>. QED
  BY <1>2, <1>4, <1>5, OneTask

\* What StreamInv says of a task that runs.
LEMMA WhileRunning ==
  ASSUME StreamInv, NEW t \in Requests, req[t].pc # "over"
  PROVE  /\ Fits(out[t])
         /\ req[t].pc \in QuietPcs => ~req[t].started /\ out[t] = Silent
         /\ req[t].pc = "body" => Whole(out[t])
         /\ req[t].pc = "read" => Whole(Begun(t))
         /\ req[t].pc = "read" /\ ~req[t].started => out[t] = Silent
BY StartWhole DEF StreamInv, Shows, Fits, Begun, QuietPcs

\* A step that shows nothing, of a task that has shown nothing.
LEMMA QuietKeeps ==
  ASSUME StreamInv, NEW t \in Requests, out[t] = Silent, UNCHANGED out,
         DOMAIN req' = Requests, \A u \in Requests \ {t} : req'[u] = req[u],
         DOMAIN req'[t] = Fields, req'[t].reply = req[t].reply,
         req'[t].pc \in QuietPcs \cup {"read"}, ~req'[t].started
  PROVE  StreamInv'
<1>1. DOMAIN out = Requests /\ req[t].reply \in Seq(Int)
  BY DEF StreamInv, Shape
<1>2. Shows(req'[t], out'[t])
  BY DEF Shows
<1>. QED
  BY <1>1, <1>2, OneTask

\* A step over which every task stands where it stood.
LEMMA NoTask ==
  ASSUME StreamInv, UNCHANGED out, DOMAIN req' = Requests,
         \A t \in Requests : /\ DOMAIN req'[t] = Fields
                             /\ req'[t].reply = req[t].reply
                             /\ req'[t].pc = req[t].pc
                             /\ req'[t].started = req[t].started
  PROVE  StreamInv'
BY DEF StreamInv, Shape, Shows

\* Goes, as every step of the dial and of the post makes it.
LEMMA GoesKeeps ==
  ASSUME StreamInv, NEW t \in Requests, NEW pc \in QuietPcs,
         req[t].pc \in QuietPcs, Goes(t, pc), UNCHANGED out
  PROVE  StreamInv'
<1>1. ~req[t].started /\ out[t] = Silent
  BY WhileRunning DEF QuietPcs
<1>2. DOMAIN req = Requests /\ DOMAIN req[t] = Fields
  BY DEF StreamInv, Shape
<1>3. /\ DOMAIN req' = Requests /\ \A u \in Requests \ {t} : req'[u] = req[u]
      /\ DOMAIN req'[t] = Fields /\ req'[t].reply = req[t].reply
      /\ req'[t].pc = pc /\ req'[t].started = req[t].started
  BY <1>2 DEF Goes, Fields
<1>. QED
  BY <1>1, <1>3, QuietKeeps

\* The end of a task with an error, or with its reply.
LEMMA ErrorKeeps ==
  ASSUME StreamInv, NEW t \in Requests, req[t].pc # "over", NEW reason,
         Over(t, PushError(out[t], reason))
  PROVE  StreamInv'
BY WhileRunning, EndsInPlace, OverKeeps

\* A task that turns to HTTP has shown nothing; one that has fails.
LEMMA TransportKeeps ==
  ASSUME StreamInv, NEW t \in Requests, req[t].pc \in QuietPcs \cup {"read"},
         TransportFails(t)
  PROVE  StreamInv'
<1>1. CASE req[t].started /\ Fails(t, "error")
  BY <1>1, ErrorKeeps DEF Fails, QuietPcs
<1>2. CASE /\ ~req[t].started
           /\ req' = [req EXCEPT ![t].pc = "post", ![t].sock = NoSocket, ![t].age = 0]
           /\ UNCHANGED out
  <2>1. out[t] = Silent
    BY <1>2, WhileRunning DEF QuietPcs
  <2>2. DOMAIN req = Requests /\ DOMAIN req[t] = Fields
    BY DEF StreamInv, Shape
  <2>3. /\ DOMAIN req' = Requests /\ \A u \in Requests \ {t} : req'[u] = req[u]
        /\ DOMAIN req'[t] = Fields /\ req'[t].reply = req[t].reply
        /\ req'[t].pc = "post" /\ req'[t].started = req[t].started
    BY <1>2, <2>2 DEF Fields
  <2>. QED
    BY <1>2, <2>1, <2>3, QuietKeeps DEF QuietPcs
<1>. QED
  BY <1>1, <1>2 DEF TransportFails

\* A request goes out, on the cached socket or on a new one.
LEMMA AsksKeeps ==
  ASSUME StreamInv, NEW t \in Requests, req[t].pc \in QuietPcs,
         NEW s, NEW c, NEW age, NEW opened, Asks(t, s, c, age, opened), UNCHANGED out
  PROVE  StreamInv'
<1>1. ~req[t].started /\ out[t] = Silent
  BY WhileRunning DEF QuietPcs
<1>2. DOMAIN req = Requests /\ DOMAIN req[t] = Fields
  BY DEF StreamInv, Shape
<1>. DEFINE items == Body(req[t], c).items
<1>3. req' = [req EXCEPT ![t].pc = "read", ![t].sock = s, ![t].cont = c,
                         ![t].age = age, ![t].sent = items]
  BY DEF Asks
<1>. HIDE DEF items
<1>4. /\ DOMAIN req' = Requests /\ \A u \in Requests \ {t} : req'[u] = req[u]
      /\ DOMAIN req'[t] = Fields /\ req'[t].reply = req[t].reply
      /\ req'[t].pc = "read" /\ req'[t].started = req[t].started
  BY <1>2, <1>3 DEF Fields
<1>. QED
  BY <1>1, <1>4, QuietKeeps

\* The steps over a socket keep the invariant.
LEMMA SocketKeeps ==
  ASSUME StreamInv, NEW t \in Requests, Socketed(t)
  PROVE  StreamInv'
<1>. USE DEF QuietPcs
<1>1. CASE AcquireStopped(t)
  BY <1>1, ErrorKeeps DEF AcquireStopped
<1>2. CASE AcquireNone(t)
  BY <1>2, GoesKeeps DEF AcquireNone
<1>3. CASE AcquireExpired(t)
  BY <1>3, GoesKeeps DEF AcquireExpired
<1>4. CASE AcquireCached(t)
  BY <1>4, AsksKeeps DEF AcquireCached
<1>5. CASE Connect(t)
  <2>1. CASE Dial(t)
    BY <2>1, GoesKeeps DEF Dial
  <2>2. CASE Tunnel(t)
    BY <2>2, GoesKeeps DEF Tunnel
  <2>. QED
    BY <1>5, <2>1, <2>2 DEF Connect
<1>6. CASE Connected(t)
  BY <1>6, AsksKeeps DEF Connected, Upgraded
<1>7. CASE ConnectFails(t)
  BY <1>7, TransportKeeps DEF ConnectFails, Dialling
<1>8. CASE ConnectAborted(t)
  BY <1>8, ErrorKeeps DEF ConnectAborted, Dialling
<1>9. CASE ReadStopped(t)
  BY <1>9, ErrorKeeps DEF ReadStopped, Fails
<1>10. CASE ReadFails(t)
  BY <1>10, TransportKeeps DEF ReadFails
<1>11. CASE ReadRefused(t)
  BY <1>11, ErrorKeeps DEF ReadRefused, Receives, Fails
<1>12. CASE ReadLimit(t)
  <2>1. CASE TransportFails(t)
    BY <1>12, <2>1, TransportKeeps DEF ReadLimit, Receives
  <2>2. CASE ~req[t].started /\ Retried(t) /\ UNCHANGED out
    <3>1. req[t].pc = "read" /\ out[t] = Silent
      BY <1>12, <2>2, WhileRunning DEF ReadLimit, Receives
    <3>2. DOMAIN req = Requests /\ DOMAIN req[t] = Fields
      BY DEF StreamInv, Shape
    <3>3. /\ DOMAIN req' = Requests /\ \A u \in Requests \ {t} : req'[u] = req[u]
          /\ DOMAIN req'[t] = Fields /\ req'[t].reply = req[t].reply
          /\ req'[t].pc = "acquire" /\ req'[t].started = req[t].started
      BY <2>2, <3>2 DEF Retried, Fields
    <3>. QED
      BY <2>2, <3>1, <3>3, QuietKeeps
  <2>. QED
    BY <1>12, <2>1, <2>2 DEF ReadLimit
<1>13. CASE ReadOther(t)
  <2>1. /\ DOMAIN req = Requests /\ DOMAIN req[t] = Fields /\ DOMAIN out = Requests
        /\ req[t].reply \in Seq(Int)
    BY DEF StreamInv, Shape
  <2>2. req[t].pc = "read" /\ Whole(Begun(t))
    BY <1>13, WhileRunning DEF ReadOther, Receives
  <2>3. /\ DOMAIN req' = Requests /\ \A u \in Requests \ {t} : req'[u] = req[u]
        /\ DOMAIN req'[t] = Fields /\ req'[t].reply = req[t].reply
        /\ req'[t].pc = "read" /\ req'[t].started
    BY <1>13, <2>1, <2>2 DEF ReadOther, Fields
  <2>4. /\ DOMAIN out' = Requests /\ \A u \in Requests \ {t} : out'[u] = out[u]
        /\ out'[t] = Begun(t)
    BY <1>13, <2>1 DEF ReadOther
  <2>5. Shows(req'[t], out'[t])
    BY <2>2, <2>3, <2>4 DEF Shows
  <2>. QED
    BY <2>1, <2>3, <2>4, <2>5, OneTask
<1>14. CASE ReadItem(t)
  <2>1. /\ DOMAIN req = Requests /\ DOMAIN req[t] = Fields /\ DOMAIN out = Requests
        /\ req[t].reply \in Seq(Int)
    BY DEF StreamInv, Shape
  <2>2. req[t].pc = "read" /\ Whole(Begun(t))
    BY <1>14, WhileRunning DEF ReadItem, Receives
  <2>3. NextAnswer(t) \in Int
    BY <2>1, CodexSocketAssumption DEF NextAnswer, Answer
  <2>4. /\ DOMAIN req' = Requests /\ \A u \in Requests \ {t} : req'[u] = req[u]
        /\ DOMAIN req'[t] = Fields
        /\ req'[t].reply = Append(req[t].reply, NextAnswer(t))
        /\ req'[t].pc = "read" /\ req'[t].started
    BY <1>14, <2>1, <2>2 DEF ReadItem, Fields
  <2>5. /\ DOMAIN out' = Requests /\ \A u \in Requests \ {t} : out'[u] = out[u]
        /\ out'[t] = WithItem(Begun(t), NextAnswer(t))
    BY <1>14, <2>1 DEF ReadItem
  <2>6. Shows(req'[t], out'[t])
    BY <2>2, <2>3, <2>4, <2>5, ItemWhole DEF Shows
  <2>7. req'[t].reply \in Seq(Int)
    BY <2>1, <2>3, <2>4, AppendProperties
  <2>. QED
    BY <2>4, <2>5, <2>6, <2>7, OneTask
<1>15. CASE ReadDone(t) \/ ReadFailed(t)
  <2>1. req[t].pc = "read" /\ Whole(Begun(t))
    BY <1>15, WhileRunning DEF ReadDone, ReadFailed, Receives
  <2>2. /\ ~Ended(PushDone(Begun(t))).broken
        /\ ~Ended(PushError(Begun(t), "error")).broken
    BY <2>1, EndsInPlace DEF Fits
  <2>. QED
    BY <1>15, <2>2, OverKeeps DEF ReadDone, ReadFailed
<1>. QED
  BY <1>1, <1>2, <1>3, <1>4, <1>5, <1>6, <1>7, <1>8, <1>9, <1>10, <1>11, <1>12,
     <1>13, <1>14, <1>15 DEF Socketed

\* The steps over HTTP keep the invariant.
LEMMA HttpKeeps ==
  ASSUME StreamInv, NEW t \in Requests, OverHttp(t)
  PROVE  StreamInv'
<1>. USE DEF QuietPcs
<1>0. /\ DOMAIN req = Requests /\ DOMAIN req[t] = Fields /\ DOMAIN out = Requests
      /\ req[t].reply \in Seq(Int)
  BY DEF StreamInv, Shape
<1>1. CASE PostStopped(t)
  BY <1>1, ErrorKeeps DEF PostStopped
<1>2. CASE Post(t)
  BY <1>2, GoesKeeps DEF Post
<1>3. CASE PostedAborted(t)
  BY <1>3, ErrorKeeps DEF PostedAborted
<1>4. CASE PostAgain(t)
  BY <1>4, GoesKeeps DEF PostAgain
<1>5. CASE PauseEnds(t)
  <2>1. ~req[t].started /\ out[t] = Silent
    BY <1>5, WhileRunning DEF PauseEnds
  <2>2. /\ DOMAIN req' = Requests /\ \A u \in Requests \ {t} : req'[u] = req[u]
        /\ DOMAIN req'[t] = Fields /\ req'[t].reply = req[t].reply
        /\ req'[t].pc = "post" /\ req'[t].started = req[t].started
    BY <1>0, <1>5 DEF PauseEnds, Fields
  <2>. QED
    BY <1>5, <2>1, <2>2, QuietKeeps DEF PauseEnds
<1>6. CASE PostFails(t)
  BY <1>6, ErrorKeeps DEF PostFails
<1>7. CASE Posted(t)
  <2>1. out[t] = Silent
    BY <1>7, WhileRunning DEF Posted
  <2>2. /\ DOMAIN req' = Requests /\ \A u \in Requests \ {t} : req'[u] = req[u]
        /\ DOMAIN req'[t] = Fields /\ req'[t].reply = req[t].reply
        /\ req'[t].pc = "body"
    BY <1>0, <1>7 DEF Posted, Goes, Fields
  <2>3. /\ DOMAIN out' = Requests /\ \A u \in Requests \ {t} : out'[u] = out[u]
        /\ out'[t] = PushStart(Silent)
    BY <1>0, <1>7, <2>1 DEF Posted
  <2>4. Shows(req'[t], out'[t])
    BY <2>2, <2>3, StartWhole DEF Shows
  <2>. QED
    BY <1>0, <2>2, <2>3, <2>4, OneTask
<1>8. CASE BodyItem(t)
  <2>1. Whole(out[t])
    BY <1>8, WhileRunning DEF BodyItem
  <2>2. NextAnswer(t) \in Int
    BY <1>0, CodexSocketAssumption DEF NextAnswer, Answer
  <2>3. /\ DOMAIN req' = Requests /\ \A u \in Requests \ {t} : req'[u] = req[u]
        /\ DOMAIN req'[t] = Fields
        /\ req'[t].reply = Append(req[t].reply, NextAnswer(t))
        /\ req'[t].pc = "body"
    BY <1>0, <1>8 DEF BodyItem, Fields
  <2>4. /\ DOMAIN out' = Requests /\ \A u \in Requests \ {t} : out'[u] = out[u]
        /\ out'[t] = WithItem(out[t], NextAnswer(t))
    BY <1>0, <1>8 DEF BodyItem
  <2>5. Shows(req'[t], out'[t])
    BY <2>1, <2>2, <2>3, <2>4, ItemWhole DEF Shows
  <2>6. req'[t].reply \in Seq(Int)
    BY <1>0, <2>2, <2>3, AppendProperties
  <2>. QED
    BY <2>3, <2>4, <2>5, <2>6, OneTask
<1>9. CASE BodyDone(t)
  BY <1>9, WhileRunning, EndsInPlace, OverKeeps DEF BodyDone
<1>. QED
  BY <1>1, <1>2, <1>3, <1>4, <1>5, <1>6, <1>7, <1>8, <1>9 DEF OverHttp

\* So does every step of the callers, the clock and the network.
LEMMA NextKeeps == StreamInv /\ [Next]_vars => StreamInv'
<1>. SUFFICES ASSUME StreamInv, [Next]_vars
              PROVE  StreamInv'
  OBVIOUS
<1>. USE DEF QuietPcs
<1>0. /\ DOMAIN req = Requests /\ DOMAIN out = Requests
      /\ \A t \in Requests : DOMAIN req[t] = Fields
  BY DEF StreamInv, Shape
<1>1. ASSUME NEW t \in Requests, Ask(t)
      PROVE  StreamInv'
  <2>1. ~req[t].started /\ out[t] = Silent
    BY <1>1, WhileRunning DEF Ask
  <2>2. PICK base : req' = [req EXCEPT ![t].pc = "begin",
                                       ![t].input = Append(base, Question(t))]
    BY <1>1 DEF Ask
  <2>3. /\ DOMAIN req' = Requests /\ \A u \in Requests \ {t} : req'[u] = req[u]
        /\ DOMAIN req'[t] = Fields /\ req'[t].reply = req[t].reply
        /\ req'[t].pc = "begin" /\ req'[t].started = req[t].started
    BY <1>0, <2>2 DEF Fields
  <2>. QED
    BY <1>1, <2>1, <2>3, QuietKeeps DEF Ask
<1>2. ASSUME NEW t \in Requests, Stop(t)
      PROVE  StreamInv'
  <2>1. PICK how : req' = [req EXCEPT ![t].stop = how]
    BY <1>2 DEF Stop
  <2>2. DOMAIN req' = Requests
    BY <1>0, <2>1
  <2>3. \A u \in Requests : /\ DOMAIN req'[u] = Fields
                            /\ req'[u].reply = req[u].reply
                            /\ req'[u].pc = req[u].pc
                            /\ req'[u].started = req[u].started
    BY <1>0, <2>1 DEF Fields
  <2>. QED
    BY <1>2, <2>2, <2>3, NoTask DEF Stop
<1>3. ASSUME NEW t \in Requests, Step(t)
      PROVE  StreamInv'
  <2>1. CASE Begin(t)
    BY <2>1, GoesKeeps DEF Begin
  <2>. QED
    BY <1>3, <2>1, SocketKeeps, HttpKeeps DEF Step
<1>4. CASE Tick
  <2>1. UNCHANGED out
    BY <1>4 DEF Tick
  <2>2. req' = [t \in Requests |->
                 IF req[t].sock = NoSocket THEN req[t]
                 ELSE [req[t] EXCEPT !.age = Older(@, MaxAge)]]
    BY <1>4 DEF Tick
  <2>3. \A u \in Requests : /\ DOMAIN req'[u] = Fields
                            /\ req'[u].reply = req[u].reply
                            /\ req'[u].pc = req[u].pc
                            /\ req'[u].started = req[u].started
    BY <1>0, <2>2 DEF Fields
  <2>. QED
    BY <1>0, <2>1, <2>2, <2>3, NoTask
<1>5. CASE UNCHANGED <<out, req>>
  BY <1>0, <1>5, NoTask
<1>6. ASSUME NEW s, Loses(s) \/ CleanUp(s) \/ ResetStats(s)
      PROVE  UNCHANGED <<out, req>>
  BY <1>6 DEF Loses, Cut, CleanUp, ResetStats
<1>. QED
  BY <1>1, <1>2, <1>3, <1>4, <1>5, <1>6 DEF Next, vars

\* A request that has yet to begin has shown nothing.
LEMMA InitKeeps == Init => StreamInv
<1>. SUFFICES ASSUME Init
              PROVE  StreamInv
  OBVIOUS
<1>1. PICK plan : req = [t \in Requests |-> Planned(plan[t])]
  BY DEF Init
<1>2. out = [t \in Requests |-> Silent]
  BY DEF Init
<1>3. \A t \in Requests : /\ DOMAIN req[t] = Fields /\ req[t].reply = <<>>
                          /\ req[t].pc = "idle" /\ ~req[t].started
  BY <1>1 DEF Planned, Fields
<1>4. DOMAIN req = Requests /\ DOMAIN out = Requests
  BY <1>1, <1>2
<1>5. \A t \in Requests : req[t].reply \in Seq(Int)
  <2>. <<>> \in Seq(Int)
    OBVIOUS
  <2>. QED
    BY <1>3
<1>6. \A t \in Requests : Shows(req[t], out[t])
  BY <1>2, <1>3 DEF Shows, QuietPcs
<1>. QED
  BY <1>3, <1>4, <1>5, <1>6 DEF StreamInv, Shape

\* No stream ever shows an event twice or out of place: a request that goes
\* from one socket to the next, or to HTTP, has shown nothing before
\* (spawn_openai_codex_responses_request).
THEOREM OneReply == Spec => []OneReplyShown
<1>1. StreamInv => OneReplyShown
  BY DEF StreamInv, Shows, Whole, Silent, OneReplyShown
<1>. QED
  BY <1>1, InitKeeps, NextKeeps, PTL DEF Spec

-----------------------------------------------------------------------------
(* The sockets and who holds them                                          *)

\* A socket is held by the task that reads from it, or by the cache under a
\* session; both know it by the same four things: its number, its age, what it
\* continues, and the conversation its server was asked about.
Task(t) == <<t, "task">>
Kept(e) == <<e, "cache">>
Owners == {Task(t) : t \in Requests} \cup {Kept(e) : e \in Sessions}

TaskView(t) ==
  [sock |-> req[t].sock, age |-> req[t].age, cont |-> req[t].cont,
   told |-> req[t].input]

KeptView(e) ==
  [sock |-> cache[e].sock, age |-> cache[e].age, cont |-> cache[e].cont,
   told |-> <<>>]

View(o) == IF o[2] = "task" THEN TaskView(o[1]) ELSE KeptView(o[1])

Conts == [prev : Nat, settings : Nat, input : Seq(Int), reply : Seq(Int)]

LiveSocks ==
  [state : {"open", "cut"}, account : Nat, age : Nat, heard : Seq(Int),
   memory : Seq(Seq(Int))]

\* The server remembers, under the id of a continuation, the conversation that
\* the continuation stands for.
Known(c, memory) ==
  c # NoReply => c.prev \in 1 .. Len(memory) /\ memory[c.prev] = Baseline(c)

\* What the owner believes of a socket is so.
True(v, x) ==
  /\ v.age = x.age
  /\ v.cont \in Conts
  /\ x.state = "open" => x.heard = v.told /\ Known(v.cont, x.memory)

Honest(v, opened) ==
  v.sock # NoSocket =>
    v.sock \in Sockets /\ opened[v.sock] \in LiveSocks /\ True(v, opened[v.sock])

\* An entry of the cache keeps a socket.
CacheInv ==
  /\ DOMAIN cache = Sessions
  /\ \A e \in Sessions : /\ DOMAIN cache[e] = {"sock", "cont", "age", "idle"}
                         /\ cache[e] # NoEntry => cache[e].sock # NoSocket

\* Every socket has one owner, who knows it; one that nobody holds is free again.
SocketInv ==
  /\ socks \in [Sockets -> LiveSocks \cup {Nothing}]
  /\ CacheInv
  /\ \A o \in Owners : Honest(View(o), socks)
  /\ \A o, p \in Owners :
       View(o).sock = View(p).sock /\ View(o).sock # NoSocket => o = p
  /\ \A s \in Sockets : socks[s] # Nothing => \E o \in Owners : View(o).sock = s

\* What a task is asked for, and that it holds a socket while it reads.
Tasked(r) ==
  /\ r.session \in Sessions \cup {NoSession}
  /\ r.account \in Nat /\ r.settings \in Nat
  /\ r.input \in Seq(Int)
  /\ r.sock # NoSocket <=> r.pc = "read"

TaskInv == \A t \in Requests : Tasked(req[t])

\* No more tasks run than may: there is a socket for each.
CountInv == IsFiniteSet(Running) /\ Cardinality(Running) <= MaxRunning

WireInv == TaskInv /\ SocketInv /\ CountInv

\* The step of AskedOnFresh.
FreshStep ==
  \A t \in Requests :
    req[t].pc # "read" /\ req'[t].pc = "read" =>
      socks'[req'[t].sock].age < MaxAge

LEMMA OwnersSplit ==
  /\ \A t \in Requests : Task(t) \in Owners /\ View(Task(t)) = TaskView(t)
  /\ \A e \in Sessions : Kept(e) \in Owners /\ View(Kept(e)) = KeptView(e)
  /\ \A o \in Owners : \/ \E t \in Requests : o = Task(t)
                       \/ \E e \in Sessions : o = Kept(e)
  /\ \A t, e : Task(t) # Kept(e)
  /\ \A t, u : Task(t) = Task(u) => t = u
  /\ \A d, e : Kept(d) = Kept(e) => d = e
BY DEF Owners, Task, Kept, View

\* A live socket is none that is free.
LEMMA LiveIsSomething == \A x \in LiveSocks : x # Nothing
BY DEF LiveSocks, Nothing, Socket

LEMMA SocketNumbers == NoSocket \notin Sockets
BY DEF NoSocket, Sockets

-----------------------------------------------------------------------------
(* How a socket changes hands                                              *)

\* An owner who holds no socket, before and after, or holds what it held.
Same(o) ==
  View(o)' = View(o) \/ (View(o).sock = NoSocket /\ View(o)'.sock = NoSocket)

\* An owner drops its socket, if it has one.
LEMMA Dropped ==
  ASSUME SocketInv, NEW o \in Owners, View(o)'.sock = NoSocket,
         \A p \in Owners \ {o} : Same(p),
         socks' = IF View(o).sock = NoSocket THEN socks ELSE Shut(View(o).sock),
         CacheInv'
  PROVE  SocketInv'
<1>. DEFINE h == View(o).sock
<1>1. h # NoSocket => h \in Sockets
  BY DEF SocketInv, Honest
<1>2. \A s \in Sockets : socks'[s] = IF s = h THEN Nothing ELSE socks[s]
  BY <1>1, SocketNumbers DEF SocketInv, Shut
<1>3. socks' \in [Sockets -> LiveSocks \cup {Nothing}]
  BY <1>1 DEF SocketInv, Shut
<1>4. \A p \in Owners : View(p)'.sock # NoSocket =>
        p # o /\ View(p)' = View(p) /\ View(p).sock # h
  BY DEF SocketInv, Same
<1>5. \A p \in Owners : Honest(View(p)', socks')
  BY <1>2, <1>4 DEF SocketInv, Honest
<1>6. \A p, q \in Owners :
        View(p)'.sock = View(q)'.sock /\ View(p)'.sock # NoSocket => p = q
  BY <1>4 DEF SocketInv
<1>7. \A s \in Sockets : socks'[s] # Nothing => \E p \in Owners : View(p)'.sock = s
  <2>. SUFFICES ASSUME NEW s \in Sockets, socks'[s] # Nothing
                PROVE  \E p \in Owners : View(p)'.sock = s
    OBVIOUS
  <2>1. s # h /\ socks[s] # Nothing
    BY <1>2
  <2>2. PICK p \in Owners : View(p).sock = s
    BY <2>1 DEF SocketInv
  <2>3. p # o /\ View(p).sock # NoSocket
    BY <2>1, <2>2, SocketNumbers
  <2>. QED
    BY <2>2, <2>3 DEF Same
<1>. QED
  BY <1>3, <1>5, <1>6, <1>7 DEF SocketInv

\* An owner gets socket s, from the one who had it or new, and drops its own.
LEMMA HandedOver ==
  ASSUME SocketInv, NEW o \in Owners, NEW s \in Sockets, NEW x \in LiveSocks,
         View(o).sock # s, View(o)'.sock = s, True(View(o)', x),
         \A p \in Owners \ {o} :
           IF View(p).sock = s THEN View(p)'.sock = NoSocket ELSE Same(p),
         socks' \in [Sockets -> LiveSocks \cup {Nothing}],
         \A k \in Sockets :
           socks'[k] = IF k = s THEN x
                       ELSE IF k = View(o).sock THEN Nothing ELSE socks[k],
         CacheInv'
  PROVE  SocketInv'
<1>. DEFINE h == View(o).sock
<1>1. \A p \in Owners \ {o} : View(p)'.sock # NoSocket =>
        View(p)' = View(p) /\ View(p).sock # h /\ View(p).sock # s
  BY DEF SocketInv, Same
<1>2. \A p \in Owners : Honest(View(p)', socks')
  <2>1. Honest(View(o)', socks')
    BY DEF Honest
  <2>2. \A p \in Owners \ {o} : Honest(View(p)', socks')
    BY <1>1 DEF SocketInv, Honest
  <2>. QED
    BY <2>1, <2>2
<1>3. \A p, q \in Owners :
        View(p)'.sock = View(q)'.sock /\ View(p)'.sock # NoSocket => p = q
  BY <1>1 DEF SocketInv
<1>4. \A k \in Sockets : socks'[k] # Nothing => \E p \in Owners : View(p)'.sock = k
  <2>. SUFFICES ASSUME NEW k \in Sockets, socks'[k] # Nothing, k # s
                PROVE  \E p \in Owners : View(p)'.sock = k
    OBVIOUS
  <2>1. k # h /\ socks[k] # Nothing
    OBVIOUS
  <2>2. PICK p \in Owners : View(p).sock = k
    BY <2>1 DEF SocketInv
  <2>3. p # o /\ View(p).sock # NoSocket /\ View(p).sock # s
    BY <2>1, <2>2, SocketNumbers
  <2>. QED
    BY <2>2, <2>3 DEF Same
<1>. QED
  BY <1>2, <1>3, <1>4 DEF SocketInv

\* Only what the sockets themselves know changes, and their owners know it too.
LEMMA Stayed ==
  ASSUME SocketInv, CacheInv',
         socks' \in [Sockets -> LiveSocks \cup {Nothing}],
         \A s \in Sockets : socks[s] = Nothing => socks'[s] = Nothing,
         \A s \in Sockets : socks[s] \in LiveSocks => socks'[s] \in LiveSocks,
         \A o \in Owners :
           IF View(o).sock = NoSocket THEN View(o)'.sock = NoSocket
           ELSE /\ View(o)'.sock = View(o).sock
                /\ True(View(o)', socks'[View(o).sock])
  PROVE  SocketInv'
<1>1. \A o \in Owners : View(o)'.sock = View(o).sock
  OBVIOUS
<1>2. \A o \in Owners : Honest(View(o)', socks')
  BY <1>1 DEF SocketInv, Honest
<1>3. \A o, p \in Owners :
        View(o)'.sock = View(p)'.sock /\ View(o)'.sock # NoSocket => o = p
  BY <1>1 DEF SocketInv
<1>4. \A s \in Sockets : socks'[s] # Nothing => \E o \in Owners : View(o)'.sock = s
  BY <1>1 DEF SocketInv
<1>. QED
  BY <1>2, <1>3, <1>4 DEF SocketInv

-----------------------------------------------------------------------------
(* What a request says                                                     *)

\* What a continuation names and the rest are the whole input: the server that
\* knows it understands all of it (openai_codex_cached_websocket_input_delta).
LEMMA WholeInput ==
  ASSUME NEW r, r.input \in Seq(Int), NEW c \in Conts, NEW s \in Sockets,
         Known(c, socks[s].memory)
  PROVE  LET body == Body(r, c)
         IN (IF body.prev = 0 THEN body.items ELSE Understood(s, body)) = r.input
<1>. DEFINE n == Len(Baseline(c))
<1>1. CASE ~(UsesCache(r) /\ Continues(r, c))
  <2>1. Body(r, c) = [prev |-> 0, items |-> r.input]
    BY <1>1 DEF Body
  <2>. QED
    BY <2>1
<1>2. CASE UsesCache(r) /\ Continues(r, c)
  <2>1. Body(r, c) = [prev |-> c.prev, items |-> Delta(r, c)]
    BY <1>2 DEF Body
  <2>2. /\ c.prev \in 1 .. Len(socks[s].memory)
        /\ socks[s].memory[c.prev] = Baseline(c)
    BY <1>2 DEF Continues, Known
  <2>3. Baseline(c) \in Seq(Int)
    BY ConcatProperties DEF Conts, Baseline
  <2>4. n \in Nat /\ Len(r.input) \in Nat /\ n <= Len(r.input)
        /\ SubSeq(r.input, 1, n) = Baseline(c)
    BY <1>2, <2>3 DEF Continues
  <2>5. Delta(r, c) = SubSeq(r.input, n + 1, Len(r.input))
    BY DEF Delta
  <2>. HIDE DEF n
  <2>6. SubSeq(r.input, 1, n) \o SubSeq(r.input, n + 1, Len(r.input))
          = SubSeq(r.input, 1, Len(r.input))
    <3>1. 1 \in 1 .. Len(r.input) + 1 /\ n \in 1 - 1 .. Len(r.input)
            /\ Len(r.input) \in n .. Len(r.input)
      BY <2>4
    <3>. QED
      BY <3>1, ConcatAdjacentSubSeq
  <2>7. SubSeq(r.input, 1, Len(r.input)) = r.input
    BY SubSeqFull
  <2>8. c.prev # 0
    BY <2>2 DEF Conts
  <2>. DEFINE b == Body(r, c)
  <2>9. b.prev = c.prev /\ b.items = Delta(r, c)
    BY <2>1
  <2>. HIDE DEF b
  <2>10. Understood(s, b) = Baseline(c) \o Delta(r, c)
    BY <2>2, <2>8, <2>9 DEF Understood
  <2>11. Understood(s, b) = r.input
    BY <2>4, <2>5, <2>6, <2>7, <2>10
  <2>12. (IF b.prev = 0 THEN b.items ELSE Understood(s, b)) = r.input
    BY <2>8, <2>9, <2>11
  <2>. QED
    BY <2>12 DEF b
<1>. QED
  BY <1>1, <1>2

\* The values of a function on a finite set.
LEMMA FewValues ==
  ASSUME NEW S, IsFiniteSet(S), NEW f, f = [x \in S |-> f[x]]
  PROVE  LET T == {f[x] : x \in S}
         IN IsFiniteSet(T) /\ Cardinality(T) <= Cardinality(S)
<1>. DEFINE T == {f[x] : x \in S}
<1>1. f \in Surjection(S, T)
  BY DEF Surjection
<1>. QED
  BY <1>1, FS_Surjection

\* A request that finds no socket in the cache finds one that is free: every
\* other is held by another task that runs, or under a session.
LEMMA FreeSocket ==
  ASSUME WireInv, NEW t \in Requests, req[t].pc = "upgrade"
  PROVE  NewSocket \in Sockets /\ socks[NewSocket] = Nothing
<1>1. SUFFICES ASSUME \A s \in Sockets : socks[s] # Nothing
               PROVE  FALSE
  BY DEF NewSocket
<1>. DEFINE Others == Running \ {t}
            Held == {req[u].sock : u \in Others}
            Cached == {cache[e].sock : e \in Sessions}
<1>2. t \in Running
  BY DEF Running
<1>3. IsFiniteSet(Others) /\ Cardinality(Others) <= MaxRunning - 1
  <2>1. IsFiniteSet(Running) /\ Cardinality(Running) <= MaxRunning
    BY DEF WireInv, CountInv
  <2>2. Cardinality(Running) \in Nat
    BY <2>1, FS_CardinalityType
  <2>3. IsFiniteSet(Others) /\ Cardinality(Others) = Cardinality(Running) - 1
    BY <1>2, <2>1, FS_RemoveElement
  <2>. QED
    BY <2>1, <2>2, <2>3, CodexSocketAssumption
<1>4. IsFiniteSet(Held) /\ Cardinality(Held) <= Cardinality(Others)
  <2>. DEFINE f == [u \in Others |-> req[u].sock]
  <2>1. {f[u] : u \in Others} = Held
    OBVIOUS
  <2>2. f = [u \in Others |-> f[u]]
    OBVIOUS
  <2>. HIDE DEF f
  <2>. QED
    BY <1>3, <2>1, <2>2, FewValues
<1>5. IsFiniteSet(Cached) /\ Cardinality(Cached) <= Cardinality(Sessions)
  <2>. DEFINE f == [e \in Sessions |-> cache[e].sock]
  <2>1. {f[e] : e \in Sessions} = Cached
    OBVIOUS
  <2>2. f = [e \in Sessions |-> f[e]]
    OBVIOUS
  <2>3. IsFiniteSet(Sessions)
    BY CodexSocketAssumption
  <2>. HIDE DEF f, Cached, Held, Others
  <2>. QED
    BY <2>1, <2>2, <2>3, FewValues
<1>6. Sockets \subseteq Held \cup Cached
  <2>. SUFFICES ASSUME NEW s \in Sockets
                PROVE  s \in Held \cup Cached
    OBVIOUS
  <2>1. PICK o \in Owners : View(o).sock = s
    BY <1>1 DEF WireInv, SocketInv
  <2>2. ASSUME NEW u \in Requests, o = Task(u)
        PROVE  s \in Held
    <3>1. req[u].sock = s /\ req[u].sock # NoSocket
      BY <2>1, <2>2, OwnersSplit, SocketNumbers DEF TaskView
    <3>2. req[u].pc = "read"
      BY <3>1 DEF WireInv, TaskInv, Tasked
    <3>. QED
      BY <3>1, <3>2 DEF Running
  <2>3. ASSUME NEW e \in Sessions, o = Kept(e)
        PROVE  s \in Cached
    BY <2>1, <2>3, OwnersSplit DEF KeptView
  <2>. QED
    BY <2>2, <2>3, OwnersSplit
<1>. HIDE DEF Held, Cached, Others
<1>7. /\ Cardinality(Others) \in Nat /\ Cardinality(Sessions) \in Nat
      /\ Cardinality(Held) \in Nat /\ Cardinality(Cached) \in Nat
      /\ Cardinality(Held \cap Cached) \in Nat
  <2>1. IsFiniteSet(Held \cap Cached)
    BY <1>4, FS_Subset
  <2>. QED
    BY <1>3, <1>4, <1>5, <2>1, FS_CardinalityType, CodexSocketAssumption
<1>8. /\ IsFiniteSet(Held \cup Cached)
      /\ Cardinality(Held \cup Cached)
           = Cardinality(Held) + Cardinality(Cached) - Cardinality(Held \cap Cached)
  BY <1>4, <1>5, FS_Union
<1>9. Cardinality(Sockets) <= Cardinality(Held \cup Cached)
  BY <1>6, <1>8, FS_Subset
<1>10. Cardinality(Sockets) = MaxRunning + Cardinality(Sessions)
  <2>1. MaxRunning \in Nat /\ MaxRunning + Cardinality(Sessions) \in Nat
    BY <1>7, CodexSocketAssumption
  <2>2. Cardinality(1 .. MaxRunning + Cardinality(Sessions))
          = MaxRunning + Cardinality(Sessions)
    BY <2>1, FS_Interval
  <2>. QED
    BY <2>2 DEF Sockets
<1>. QED
  BY <1>3, <1>4, <1>5, <1>7, <1>8, <1>9, <1>10, CodexSocketAssumption

-----------------------------------------------------------------------------
(* The steps of a task and its socket                                      *)

BothInv == StreamInv /\ WireInv

WireStep == WireInv' /\ FreshStep

\* A task that runs goes on, or is over: no more run than before.
LEMMA CountKept ==
  ASSUME CountInv,
         \A u \in Requests : req[u].pc \in {"idle", "over"} =>
                               req'[u].pc \in {"idle", "over"}
  PROVE  CountInv'
<1>1. Running' \in SUBSET Running
  BY DEF Running
<1>2. IsFiniteSet(Running') /\ Cardinality(Running') <= Cardinality(Running)
  BY <1>1, FS_Subset DEF CountInv
<1>3. Cardinality(Running) \in Nat /\ Cardinality(Running') \in Nat
  BY <1>2, FS_CardinalityType DEF CountInv
<1>. QED
  BY <1>2, <1>3, CodexSocketAssumption DEF CountInv

\* What a step of one task leaves to the others.
LEMMA OthersView ==
  ASSUME NEW t \in Requests, \A u \in Requests \ {t} : req'[u] = req[u],
         UNCHANGED cache
  PROVE  \A o \in Owners \ {Task(t)} : View(o)' = View(o)
<1>. SUFFICES ASSUME NEW o \in Owners \ {Task(t)}
              PROVE  View(o)' = View(o)
  OBVIOUS
<1>1. ASSUME NEW u \in Requests, o = Task(u)
      PROVE  View(o)' = View(o)
  BY <1>1 DEF View, Task, TaskView
<1>2. ASSUME NEW e \in Sessions, o = Kept(e)
      PROVE  View(o)' = View(o)
  BY <1>2 DEF View, Kept, KeptView
<1>. QED
  BY <1>1, <1>2, OwnersSplit

LEMMA TaskPrimed ==
  \A t \in Requests : View(Task(t))' = TaskView(t)'
BY DEF View, Task

LEMMA KeptPrimed ==
  \A e \in Sessions : View(Kept(e))' = KeptView(e)'
BY DEF View, Kept

\* A task that does not read any more, or did not before, has dropped what it
\* held.
LEMMA LetsGo ==
  ASSUME BothInv, NEW t \in Requests, t \in Running,
         \A u \in Requests \ {t} : req'[u] = req[u],
         Tasked(req'[t]), req'[t].pc # "read", socks' = Drops(t),
         UNCHANGED cache
  PROVE  WireStep
<1>1. CountInv'
  BY CountKept DEF BothInv, WireInv, Running
<1>2. TaskInv'
  BY DEF BothInv, WireInv, TaskInv
<1>3. FreshStep
  BY DEF FreshStep
<1>4. SocketInv'
  <2>1. Task(t) \in Owners /\ View(Task(t)) = TaskView(t)
    BY OwnersSplit
  <2>2. View(Task(t))'.sock = NoSocket
    BY TaskPrimed DEF TaskView, Tasked
  <2>3. \A o \in Owners \ {Task(t)} : Same(o)
    BY OthersView DEF Same
  <2>4. socks' = IF View(Task(t)).sock = NoSocket THEN socks
                 ELSE Shut(View(Task(t)).sock)
    BY <2>1 DEF Drops, TaskView
  <2>. QED
    BY <2>1, <2>2, <2>3, <2>4, Dropped DEF BothInv, WireInv, SocketInv, CacheInv
<1>. QED
  BY <1>1, <1>2, <1>3, <1>4 DEF WireStep, WireInv

\* A task that neither reads before nor after.
LEMMA KeepsOut ==
  ASSUME BothInv, NEW t \in Requests, t \in Running, req[t].pc # "read",
         \A u \in Requests \ {t} : req'[u] = req[u],
         Tasked(req'[t]), req'[t].pc # "read", UNCHANGED <<socks, cache>>
  PROVE  WireStep
<1>1. socks' = Drops(t)
  BY DEF Drops, BothInv, WireInv, TaskInv, Tasked
<1>. QED
  BY <1>1, LetsGo

\* A task that reads on.
LEMMA ReadsOn ==
  ASSUME BothInv, NEW t \in Requests, req[t].pc = "read",
         \A u \in Requests \ {t} : req'[u] = req[u],
         Tasked(req'[t]), req'[t].pc = "read",
         req'[t].sock = req[t].sock, req'[t].age = req[t].age,
         req'[t].cont = req[t].cont, req'[t].input = req[t].input,
         UNCHANGED <<socks, cache>>
  PROVE  WireStep
<1>1. CountInv'
  BY CountKept DEF BothInv, WireInv
<1>2. TaskInv'
  BY DEF BothInv, WireInv, TaskInv
<1>3. FreshStep
  BY DEF FreshStep
<1>4. SocketInv'
  <2>1. View(Task(t))' = View(Task(t))
    BY TaskPrimed, OwnersSplit DEF TaskView
  <2>2. \A o \in Owners : View(o)' = View(o)
    BY <2>1, OthersView
  <2>. QED
    BY <2>2, Stayed DEF BothInv, WireInv, SocketInv, CacheInv, Honest
<1>. QED
  BY <1>1, <1>2, <1>3, <1>4 DEF WireStep, WireInv

\* Goes, as every step of the dial and of the post makes it.
LEMMA GoesOut ==
  ASSUME BothInv, NEW t \in Requests, NEW pc, pc # "read",
         req[t].pc \notin {"idle", "over", "read"}, Goes(t, pc),
         UNCHANGED <<socks, cache>>
  PROVE  WireStep
<1>1. DOMAIN req = Requests /\ DOMAIN req[t] = Fields
  BY DEF BothInv, StreamInv, Shape
<1>2. /\ \A u \in Requests \ {t} : req'[u] = req[u]
      /\ req'[t] = [req[t] EXCEPT !.pc = pc]
  BY <1>1 DEF Goes
<1>3. Tasked(req'[t]) /\ req'[t].pc = pc
  BY <1>1, <1>2 DEF Fields, Tasked, BothInv, WireInv, TaskInv
<1>. QED
  BY <1>2, <1>3, KeepsOut DEF Running

\* A task that is over holds no socket.
LEMMA OverGoes ==
  ASSUME BothInv, NEW t \in Requests, t \in Running, NEW o, Over(t, o),
         socks' = Drops(t), UNCHANGED cache
  PROVE  WireStep
<1>. DEFINE r == Past(req[t], o)
<1>1. DOMAIN req = Requests
  BY DEF BothInv, StreamInv, Shape
<1>2. /\ r.session = req[t].session /\ r.account = req[t].account
      /\ r.settings = req[t].settings /\ r.input = req[t].input
      /\ r.pc = "over" /\ r.sock = NoSocket
  BY DEF Past, Planned
<1>. HIDE DEF r
<1>3. /\ \A u \in Requests \ {t} : req'[u] = req[u]
      /\ req'[t] = r
  BY <1>1 DEF Over, r
<1>4. Tasked(req'[t]) /\ req'[t].pc # "read"
  BY <1>2, <1>3 DEF Tasked, BothInv, WireInv, TaskInv
<1>. QED
  BY <1>3, <1>4, LetsGo

\* The same of a task that did not read.
LEMMA OverOut ==
  ASSUME BothInv, NEW t \in Requests, req[t].pc \notin {"idle", "over", "read"},
         NEW o, Over(t, o), UNCHANGED <<socks, cache>>
  PROVE  WireStep
<1>1. socks' = Drops(t)
  BY DEF Drops, BothInv, WireInv, TaskInv, Tasked
<1>. QED
  BY <1>1, OverGoes DEF Running

\* The request is made again, over HTTP or over another socket.
LEMMA AgainGoes ==
  ASSUME BothInv, NEW t \in Requests, t \in Running, NEW pc, pc # "read",
         \/ req' = [req EXCEPT ![t].pc = pc, ![t].sock = NoSocket, ![t].age = 0]
         \/ req' = [req EXCEPT ![t].pc = pc, ![t].sock = NoSocket, ![t].age = 0,
                               ![t].limited = TRUE],
         socks' = Drops(t), UNCHANGED cache
  PROVE  WireStep
<1>1. DOMAIN req = Requests /\ DOMAIN req[t] = Fields
  BY DEF BothInv, StreamInv, Shape
<1>2. /\ \A u \in Requests \ {t} : req'[u] = req[u]
      /\ req'[t].session = req[t].session /\ req'[t].account = req[t].account
      /\ req'[t].settings = req[t].settings /\ req'[t].input = req[t].input
      /\ req'[t].pc = pc /\ req'[t].sock = NoSocket
  BY <1>1 DEF Fields
<1>3. Tasked(req'[t])
  BY <1>2 DEF Tasked, BothInv, WireInv, TaskInv
<1>. QED
  BY <1>2, <1>3, LetsGo

LEMMA TransportGoes ==
  ASSUME BothInv, NEW t \in Requests, t \in Running, TransportFails(t)
  PROVE  WireStep
<1>1. CASE Fails(t, "error")
  BY <1>1, OverGoes DEF Fails, TransportFails
<1>2. CASE /\ req' = [req EXCEPT ![t].pc = "post", ![t].sock = NoSocket, ![t].age = 0]
           /\ socks' = Drops(t)
  BY <1>2, AgainGoes DEF TransportFails
<1>. QED
  BY <1>1, <1>2 DEF TransportFails

\* The cache forgets a session and its socket is shut; no task changes hands.
LEMMA Forgotten ==
  ASSUME BothInv, NEW e \in Sessions, cache[e] # NoEntry,
         socks' = Shut(cache[e].sock), cache' = [cache EXCEPT ![e] = NoEntry],
         \A u \in Requests : TaskView(u)' = TaskView(u)
  PROVE  SocketInv'
<1>1. Kept(e) \in Owners /\ View(Kept(e)) = KeptView(e)
  BY OwnersSplit
<1>2. DOMAIN cache = Sessions /\ CacheInv'
  BY DEF BothInv, WireInv, SocketInv, CacheInv, NoEntry
<1>3. View(Kept(e))'.sock = NoSocket
  BY <1>2, KeptPrimed DEF KeptView, NoEntry
<1>4. \A o \in Owners \ {Kept(e)} : Same(o)
  <2>. SUFFICES ASSUME NEW o \in Owners \ {Kept(e)}
                PROVE  View(o)' = View(o)
    BY DEF Same
  <2>1. ASSUME NEW u \in Requests, o = Task(u)
        PROVE  View(o)' = View(o)
    BY <2>1, TaskPrimed, OwnersSplit
  <2>2. ASSUME NEW d \in Sessions, o = Kept(d)
        PROVE  View(o)' = View(o)
    <3>1. d # e
      BY <2>2
    <3>2. cache'[d] = cache[d]
      BY <1>2, <3>1
    <3>3. KeptView(d)' = KeptView(d)
      BY <3>2 DEF KeptView
    <3>. QED
      BY <2>2, <3>3, KeptPrimed, OwnersSplit
  <2>. QED
    BY <2>1, <2>2, OwnersSplit
<1>5. cache[e].sock = View(Kept(e)).sock
  BY <1>1 DEF KeptView
<1>6. socks' = IF View(Kept(e)).sock = NoSocket THEN socks
               ELSE Shut(View(Kept(e)).sock)
  <2>1. CASE cache[e].sock # NoSocket
    BY <1>5, <2>1
  <2>2. CASE cache[e].sock = NoSocket
    BY <1>5, <2>2, SocketNumbers DEF Shut, BothInv, WireInv, SocketInv
  <2>. QED
    BY <2>1, <2>2
<1>. QED
  BY <1>1, <1>2, <1>3, <1>4, <1>6, Dropped DEF BothInv, WireInv

\* The cached socket of the request's session is too old: it goes.
LEMMA ExpiredGoes ==
  ASSUME BothInv, NEW t \in Requests, AcquireExpired(t)
  PROVE  WireStep
<1>. DEFINE e == req[t].session
<1>1. DOMAIN req = Requests /\ DOMAIN req[t] = Fields
  BY DEF BothInv, StreamInv, Shape
<1>2. e \in Sessions /\ cache[e] # NoEntry
  BY DEF BothInv, WireInv, TaskInv, Tasked, AcquireExpired, HasEntry
<1>3. /\ \A u \in Requests \ {t} : req'[u] = req[u]
      /\ req'[t] = [req[t] EXCEPT !.pc = "dial"]
  BY <1>1 DEF AcquireExpired, Goes
<1>4. Tasked(req'[t]) /\ req'[t].pc = "dial" /\ req[t].pc = "acquire"
  BY <1>1, <1>3 DEF AcquireExpired, Fields, Tasked, BothInv, WireInv, TaskInv
<1>5. \A u \in Requests : TaskView(u)' = TaskView(u)
  <2>1. TaskView(t)' = TaskView(t)
    BY <1>1, <1>3 DEF TaskView, Fields
  <2>2. \A u \in Requests \ {t} : TaskView(u)' = TaskView(u)
    BY <1>3 DEF TaskView
  <2>. QED
    BY <2>1, <2>2
<1>6. SocketInv'
  BY <1>2, <1>5, Forgotten DEF AcquireExpired, Entry, Taken
<1>7. CountInv'
  BY <1>3, <1>4, CountKept DEF BothInv, WireInv
<1>8. TaskInv' /\ FreshStep
  BY <1>3, <1>4 DEF BothInv, WireInv, TaskInv, FreshStep
<1>. QED
  BY <1>6, <1>7, <1>8 DEF WireStep, WireInv

\* What the body of a request makes of a live socket that the request knows:
\* the server understands the whole input.
LEMMA AskedSocket ==
  ASSUME BothInv, NEW t \in Requests, NEW s \in Sockets, NEW c, NEW age,
         NEW opened, opened \in [Sockets -> LiveSocks \cup {Nothing}],
         opened[s] \in LiveSocks, Asks(t, s, c, age, opened),
         age = opened[s].age, c \in Conts, opened = socks \/ c = NoReply,
         opened[s].state = "open" => Known(c, opened[s].memory)
  PROVE  LET x == socks'[s]
         IN /\ x \in LiveSocks /\ x.age = age
            /\ x.state = "open" => x.heard = req[t].input /\ Known(c, x.memory)
            /\ socks' = [opened EXCEPT ![s] = x]
<1>. DEFINE body == Body(req[t], c)
            told == IF opened[s].state = "open"
                    THEN IF body.prev = 0 THEN body.items ELSE Understood(s, body)
                    ELSE <<>>
<1>1. socks' = [opened EXCEPT ![s].heard = told]
  BY DEF Asks
<1>2. req[t].input \in Seq(Int)
  BY DEF BothInv, WireInv, TaskInv, Tasked
<1>3. opened[s].state = "open" => told = req[t].input
  <2>1. CASE opened = socks
    BY <1>2, <2>1, WholeInput
  <2>2. CASE c = NoReply
    <3>1. body = [prev |-> 0, items |-> req[t].input]
      BY <2>2 DEF Body, Continues
    <3>. QED
      BY <3>1
  <2>. QED
    BY <2>1, <2>2
<1>4. told \in Seq(Int)
  <2>1. <<>> \in Seq(Int)
    OBVIOUS
  <2>. QED
    BY <1>2, <1>3, <2>1
<1>. HIDE DEF told
<1>. DEFINE x == [opened[s] EXCEPT !.heard = told]
<1>5. socks' = [opened EXCEPT ![s] = x] /\ socks'[s] = x
  BY <1>1
<1>6. /\ x \in LiveSocks /\ x.age = opened[s].age /\ x.state = opened[s].state
      /\ x.memory = opened[s].memory /\ x.heard = told
  BY <1>4 DEF LiveSocks
<1>. HIDE DEF x
<1>. QED
  BY <1>3, <1>5, <1>6

\* What the request then holds.
LEMMA AsksShape ==
  ASSUME BothInv, NEW t \in Requests, req[t].pc \notin {"idle", "over", "read"},
         NEW s \in Sockets, NEW c, NEW age, NEW opened, Asks(t, s, c, age, opened)
  PROVE  /\ \A u \in Requests \ {t} : req'[u] = req[u]
         /\ req'[t].pc = "read" /\ req'[t].sock = s
         /\ TaskView(t)' = [sock |-> s, age |-> age, cont |-> c,
                            told |-> req[t].input]
         /\ Tasked(req'[t])
         /\ TaskInv' /\ CountInv'
<1>1. DOMAIN req = Requests /\ DOMAIN req[t] = Fields
  BY DEF BothInv, StreamInv, Shape
<1>. DEFINE items == Body(req[t], c).items
<1>2. req' = [req EXCEPT ![t].pc = "read", ![t].sock = s, ![t].cont = c,
                         ![t].age = age, ![t].sent = items]
  BY DEF Asks
<1>. HIDE DEF items
<1>3. /\ \A u \in Requests \ {t} : req'[u] = req[u]
      /\ req'[t].pc = "read" /\ req'[t].sock = s /\ req'[t].cont = c
      /\ req'[t].age = age /\ req'[t].input = req[t].input
      /\ req'[t].session = req[t].session /\ req'[t].account = req[t].account
      /\ req'[t].settings = req[t].settings
  BY <1>1, <1>2 DEF Fields
<1>4. Tasked(req'[t])
  BY <1>3, SocketNumbers DEF Tasked, BothInv, WireInv, TaskInv
<1>5. TaskInv'
  BY <1>3, <1>4 DEF BothInv, WireInv, TaskInv
<1>6. CountInv'
  BY <1>3, CountKept DEF BothInv, WireInv
<1>. QED
  BY <1>3, <1>4, <1>5, <1>6 DEF TaskView

\* A task begins to read on socket s, which it gets from the cache or opens.
LEMMA GetsSocket ==
  ASSUME BothInv, NEW t \in Requests, req[t].pc \notin {"idle", "over", "read"},
         NEW s \in Sockets, NEW c \in Conts, NEW age \in Nat, age < MaxAge,
         NEW opened, opened \in [Sockets -> LiveSocks \cup {Nothing}],
         opened[s] \in LiveSocks, Asks(t, s, c, age, opened),
         age = opened[s].age, opened = socks \/ c = NoReply,
         opened[s].state = "open" => Known(c, opened[s].memory),
         \A k \in Sockets \ {s} : opened[k] = socks[k],
         CacheInv',
         \A u \in Requests : req[u].sock # s,
         \A e \in Sessions : IF cache[e].sock = s THEN cache'[e] = NoEntry
                             ELSE cache'[e] = cache[e]
  PROVE  WireStep
<1>. DEFINE x == socks'[s]
<1>1. /\ x \in LiveSocks /\ x.age = age
      /\ x.state = "open" => x.heard = req[t].input /\ Known(c, x.memory)
      /\ socks' = [opened EXCEPT ![s] = x]
  BY AskedSocket
<1>2. /\ \A u \in Requests \ {t} : req'[u] = req[u]
      /\ req'[t].pc = "read" /\ req'[t].sock = s
      /\ TaskView(t)' = [sock |-> s, age |-> age, cont |-> c, told |-> req[t].input]
      /\ TaskInv' /\ CountInv'
  BY AsksShape
<1>. HIDE DEF x
<1>3. /\ Task(t) \in Owners /\ View(Task(t)) = TaskView(t)
      /\ View(Task(t))' = TaskView(t)'
  BY OwnersSplit, TaskPrimed
<1>4. View(Task(t)).sock = NoSocket /\ NoSocket \notin Sockets
  BY <1>3, SocketNumbers DEF TaskView, BothInv, WireInv, TaskInv, Tasked
<1>5. View(Task(t))'.sock = s /\ True(View(Task(t))', x)
  BY <1>1, <1>2, <1>3 DEF True
<1>6. \A o \in Owners \ {Task(t)} :
        IF View(o).sock = s THEN View(o)'.sock = NoSocket ELSE Same(o)
  <2>. SUFFICES ASSUME NEW o \in Owners \ {Task(t)}
                PROVE  IF View(o).sock = s THEN View(o)'.sock = NoSocket ELSE Same(o)
    OBVIOUS
  <2>1. ASSUME NEW u \in Requests, o = Task(u)
        PROVE  View(o).sock # s /\ View(o)' = View(o)
    <3>1. u # t /\ req'[u] = req[u]
      BY <1>2, <2>1
    <3>2. TaskView(u)' = TaskView(u) /\ TaskView(u).sock # s
      BY <3>1 DEF TaskView
    <3>. QED
      BY <2>1, <3>2, TaskPrimed, OwnersSplit
  <2>2. ASSUME NEW e \in Sessions, o = Kept(e)
        PROVE  IF View(o).sock = s THEN View(o)'.sock = NoSocket ELSE View(o)' = View(o)
    <3>1. View(o) = KeptView(e) /\ View(o)' = KeptView(e)'
      BY <2>2, OwnersSplit, KeptPrimed
    <3>2. CASE cache[e].sock = s
      <4>1. KeptView(e)'.sock = NoSocket /\ KeptView(e).sock = s
        BY <3>2 DEF KeptView, NoEntry
      <4>. QED
        BY <3>1, <4>1
    <3>3. CASE cache[e].sock # s
      <4>1. KeptView(e)' = KeptView(e) /\ KeptView(e).sock # s
        BY <3>3 DEF KeptView
      <4>. QED
        BY <3>1, <4>1
    <3>. QED
      BY <3>2, <3>3
  <2>. QED
    BY <2>1, <2>2, OwnersSplit DEF Same
<1>7. socks' \in [Sockets -> LiveSocks \cup {Nothing}]
  BY <1>1
<1>8. \A k \in Sockets :
        socks'[k] = IF k = s THEN x
                    ELSE IF k = View(Task(t)).sock THEN Nothing ELSE socks[k]
  BY <1>1, <1>4
<1>9. SocketInv /\ View(Task(t)).sock # s
  BY <1>4 DEF BothInv, WireInv
<1>10. SocketInv'
  BY <1>1, <1>3, <1>5, <1>6, <1>7, <1>8, <1>9, HandedOver
<1>11. FreshStep
  BY <1>1, <1>2 DEF FreshStep, x
<1>. QED
  BY <1>2, <1>10, <1>11 DEF WireStep, WireInv

\* No two tasks or entries share a socket.
LEMMA OneOwner ==
  ASSUME SocketInv
  PROVE  /\ \A t, u \in Requests :
              req[t].sock = req[u].sock /\ req[t].sock # NoSocket => t = u
         /\ \A d, e \in Sessions :
              cache[d].sock = cache[e].sock /\ cache[d].sock # NoSocket => d = e
         /\ \A t \in Requests, e \in Sessions :
              req[t].sock # NoSocket => req[t].sock # cache[e].sock
<1>1. /\ \A t \in Requests : Task(t) \in Owners /\ View(Task(t)).sock = req[t].sock
      /\ \A e \in Sessions : Kept(e) \in Owners /\ View(Kept(e)).sock = cache[e].sock
  BY OwnersSplit DEF TaskView, KeptView
<1>2. \A t, u \in Requests :
        req[t].sock = req[u].sock /\ req[t].sock # NoSocket => t = u
  BY <1>1, OwnersSplit DEF SocketInv
<1>3. \A d, e \in Sessions :
        cache[d].sock = cache[e].sock /\ cache[d].sock # NoSocket => d = e
  BY <1>1, OwnersSplit DEF SocketInv
<1>4. \A t \in Requests, e \in Sessions :
        req[t].sock # NoSocket => req[t].sock # cache[e].sock
  BY <1>1, OwnersSplit DEF SocketInv
<1>. QED
  BY <1>2, <1>3, <1>4

\* What an owner knows.
LEMMA Owned ==
  ASSUME SocketInv
  PROVE  /\ \A t \in Requests : Honest(TaskView(t), socks)
         /\ \A e \in Sessions : Honest(KeptView(e), socks)
BY OwnersSplit DEF SocketInv

\* The request takes the cached socket, which is not too old.
LEMMA CachedTaken ==
  ASSUME BothInv, NEW t \in Requests, AcquireCached(t)
  PROVE  WireStep
<1>. DEFINE e == req[t].session
            s == cache[e].sock
            c == cache[e].cont
            age == cache[e].age
<1>0. SocketInv /\ CacheInv
  BY DEF BothInv, WireInv, SocketInv
<1>1. /\ e \in Sessions /\ cache[e] # NoEntry /\ ~Expired(cache[e])
      /\ cache' = [cache EXCEPT ![e] = NoEntry]
      /\ Asks(t, s, c, age, socks)
  BY DEF BothInv, WireInv, TaskInv, Tasked, AcquireCached, HasEntry, Entry, Taken
<1>2. req[t].pc \notin {"idle", "over", "read"}
  BY DEF AcquireCached
<1>3. s # NoSocket
  BY <1>0, <1>1 DEF CacheInv
<1>4. Honest(KeptView(e), socks)
  BY <1>0, <1>1, Owned
<1>5. /\ s \in Sockets /\ socks[s] \in LiveSocks /\ age = socks[s].age /\ c \in Conts
      /\ socks[s].state = "open" => Known(c, socks[s].memory)
  BY <1>3, <1>4 DEF Honest, KeptView, True
<1>6. age \in Nat /\ age < MaxAge
  <2>1. age \in Nat
    BY <1>5 DEF LiveSocks
  <2>. QED
    BY <1>1, <2>1, CodexTransportAssumption DEF Expired
<1>7. CacheInv'
  BY <1>0, <1>1 DEF CacheInv, NoEntry
<1>8. \A u \in Requests : req[u].sock # s
  BY <1>0, <1>1, <1>3, OneOwner
<1>9. \A d \in Sessions : IF cache[d].sock = s THEN cache'[d] = NoEntry
                          ELSE cache'[d] = cache[d]
  BY <1>0, <1>1, <1>3, OneOwner DEF CacheInv
<1>10. socks \in [Sockets -> LiveSocks \cup {Nothing}]
  BY <1>0 DEF SocketInv
<1>. HIDE DEF s, c, age
<1>. QED
  BY <1>1, <1>2, <1>5, <1>6, <1>7, <1>8, <1>9, <1>10, GetsSocket

\* The request opens a socket, which is as new as can be.
LEMMA SocketOpened ==
  ASSUME BothInv, NEW t \in Requests, Connected(t)
  PROVE  WireStep
<1>. DEFINE s == NewSocket
            x == Socket(req[t].account)
            opened == [socks EXCEPT ![s] = x]
<1>0. SocketInv /\ CacheInv
  BY DEF BothInv, WireInv, SocketInv
<1>1. req[t].pc = "upgrade" /\ Asks(t, s, NoReply, 0, opened) /\ UNCHANGED cache
  BY DEF Connected, Upgraded
<1>2. s \in Sockets /\ socks[s] = Nothing
  BY <1>1, FreeSocket DEF BothInv
<1>. HIDE DEF s
<1>3. /\ x \in LiveSocks /\ x.age = 0
  <2>1. <<>> \in Seq(Int) /\ <<>> \in Seq(Seq(Int)) /\ req[t].account \in Nat
    BY DEF BothInv, WireInv, TaskInv, Tasked
  <2>. QED
    BY <2>1 DEF LiveSocks, Socket
<1>4. NoReply \in Conts /\ \A m : Known(NoReply, m)
  <2>1. <<>> \in Seq(Int)
    OBVIOUS
  <2>. QED
    BY <2>1 DEF NoReply, Conts, Known
<1>5. opened \in [Sockets -> LiveSocks \cup {Nothing}] /\ opened[s] = x
      /\ \A k \in Sockets \ {s} : opened[k] = socks[k]
  BY <1>0, <1>2, <1>3 DEF SocketInv
<1>6. /\ \A u \in Requests : req[u].sock # s
      /\ \A e \in Sessions : cache[e].sock # s
  BY <1>0, <1>2, Owned, SocketNumbers, LiveIsSomething
     DEF Honest, TaskView, KeptView
<1>7. CacheInv' /\ 0 \in Nat /\ 0 < MaxAge
  BY <1>0, <1>1, CodexTransportAssumption DEF CacheInv
<1>. HIDE DEF x, opened
<1>. QED
  BY <1>1, <1>2, <1>3, <1>4, <1>5, <1>6, <1>7, GetsSocket

\* What the server makes of a reply: it remembers the conversation, the input and
\* the reply, under the next id.
LEMMA Remembered ==
  ASSUME NEW x \in LiveSocks, x.state = "open", NEW r, r.input \in Seq(Int),
         r.reply \in Seq(Int), r.settings \in Nat, r.cont \in Conts,
         x.heard = r.input, Known(r.cont, x.memory), NEW named \in BOOLEAN
  PROVE  LET memory == Append(x.memory, x.heard \o r.reply)
             prev == IF named THEN Len(memory) ELSE 0
             cont == IF UsesCache(r) THEN Continuation(r, r.reply, prev) ELSE r.cont
         IN /\ memory \in Seq(Seq(Int))
            /\ cont \in Conts /\ Known(cont, memory)
<1>. DEFINE talk == x.heard \o r.reply
            memory == Append(x.memory, talk)
            prev == IF named THEN Len(memory) ELSE 0
            n == Len(x.memory)
<1>1. talk \in Seq(Int) /\ talk = r.input \o r.reply
  BY ConcatProperties
<1>2. x.memory \in Seq(Seq(Int)) /\ n \in Nat
  BY DEF LiveSocks
<1>. HIDE DEF talk
<1>3. /\ memory \in Seq(Seq(Int)) /\ Len(memory) = n + 1 /\ memory[n + 1] = talk
      /\ \A i \in 1 .. n : memory[i] = x.memory[i]
  <2>. DEFINE m == x.memory
  <2>1. m \in Seq(Seq(Int)) /\ talk \in Seq(Int) /\ n = Len(m)
    BY <1>1, <1>2
  <2>. HIDE DEF m, n
  <2>2. /\ Append(m, talk) \in Seq(Seq(Int)) /\ Len(Append(m, talk)) = Len(m) + 1
        /\ \A i \in 1 .. Len(m) : Append(m, talk)[i] = m[i]
        /\ Append(m, talk)[Len(m) + 1] = talk
    BY <2>1, AppendProperties
  <2>. QED
    BY <2>1, <2>2 DEF m
<1>. HIDE DEF memory
<1>4. CASE ~UsesCache(r)
  <2>. DEFINE c == r.cont
  <2>. HIDE DEF c
  <2>1. Known(c, memory)
    <3>1. CASE c # NoReply
      <4>1. c.prev \in 1 .. n /\ x.memory[c.prev] = Baseline(c)
        BY <3>1 DEF Known, c
      <4>2. c.prev \in 1 .. n + 1 /\ memory[c.prev] = Baseline(c)
        BY <1>2, <1>3, <4>1
      <4>. QED
        BY <1>3, <4>2 DEF Known
    <3>. QED
      BY <3>1 DEF Known
  <2>. QED
    BY <1>3, <1>4, <2>1 DEF memory, talk, c
<1>5. CASE UsesCache(r)
  <2>. DEFINE c == Continuation(r, r.reply, prev)
  <2>1. CASE prev = 0
    <3>1. c = NoReply
      BY <2>1 DEF Continuation
    <3>2. NoReply \in Conts /\ Known(NoReply, memory)
      <4>. <<>> \in Seq(Int)
        OBVIOUS
      <4>. QED
        BY DEF NoReply, Conts, Known
    <3>. HIDE DEF c
    <3>3. c \in Conts /\ Known(c, memory)
      BY <3>1, <3>2
    <3>. QED
      BY <1>3, <1>5, <3>3 DEF memory, talk, c
  <2>2. CASE prev # 0
    <3>1. prev = n + 1
      BY <1>3, <2>2
    <3>2. c = [prev |-> prev, settings |-> r.settings, input |-> r.input,
               reply |-> r.reply]
      BY <2>2 DEF Continuation
    <3>. HIDE DEF prev
    <3>3. c \in Conts
      BY <1>2, <3>1, <3>2 DEF Conts
    <3>4. Baseline(c) = talk /\ c.prev = n + 1
      <4>1. c.input = r.input /\ c.reply = r.reply /\ c.prev = prev
        BY <3>2
      <4>. HIDE DEF c
      <4>. QED
        BY <1>1, <3>1, <4>1 DEF Baseline
    <3>. HIDE DEF c
    <3>5. Known(c, memory)
      BY <1>2, <1>3, <3>4 DEF Known
    <3>. QED
      BY <1>3, <1>5, <3>3, <3>5 DEF memory, talk, c, prev
  <2>. QED
    BY <2>1, <2>2
<1>. QED
  BY <1>4, <1>5

\* A good reply: the socket goes back to the cache, with what the server knows.
LEMMA PutBack ==
  ASSUME BothInv, NEW t \in Requests, ReadDone(t)
  PROVE  WireStep
<1>. DEFINE r == req[t]
<1>e. PICK s, e : s = req[t].sock /\ e = req[t].session
  OBVIOUS
<1>0. SocketInv /\ CacheInv /\ CountInv /\ TaskInv
  BY DEF BothInv, WireInv, SocketInv
<1>1. r.pc = "read" /\ Open(s) /\ Over(t, PushDone(Begun(t)))
  BY <1>e DEF ReadDone, Receives
<1>2. PICK named \in BOOLEAN :
        LET told == Remembers(s, r.reply)
            prev == IF named THEN Len(told[s].memory) ELSE 0
            cont == IF UsesCache(r) THEN Continuation(r, r.reply, prev) ELSE r.cont
            rested == [told EXCEPT ![s].heard = <<>>]
        IN \/ /\ e = NoSession
              /\ socks' = Shut(s)
              /\ UNCHANGED cache
           \/ /\ e # NoSession
              /\ socks' = IF HasEntry(t) THEN [rested EXCEPT ![Entry(t).sock] = Nothing]
                          ELSE rested
              /\ cache' = [cache EXCEPT ![e] = [sock |-> s, cont |-> cont,
                                                age |-> r.age, idle |-> 0]]
  BY <1>e DEF ReadDone, KeptAge
<1>3. CASE e = NoSession
  <2>1. socks' = Drops(t)
    BY <1>e, <1>0, <1>1, <1>2, <1>3 DEF Drops, TaskInv, Tasked
  <2>. QED
    BY <1>1, <1>2, <1>3, <2>1, OverGoes DEF Running
<1>4. CASE e # NoSession
  <2>. DEFINE x == socks[s]
              memory == Append(x.memory, x.heard \o r.reply)
              y == [x EXCEPT !.memory = memory, !.heard = <<>>]
              prev == IF named THEN Len(memory) ELSE 0
              cont == IF UsesCache(r) THEN Continuation(r, r.reply, prev) ELSE r.cont
              old == cache[e].sock
  <2>1. /\ e \in Sessions /\ r.input \in Seq(Int) /\ r.settings \in Nat
        /\ s # NoSocket
    BY <1>e, <1>0, <1>1, <1>4 DEF TaskInv, Tasked
  <2>2. r.reply \in Seq(Int) /\ DOMAIN req = Requests
    BY DEF BothInv, StreamInv, Shape
  <2>3. /\ s \in Sockets /\ x \in LiveSocks /\ r.age = x.age /\ r.cont \in Conts
        /\ x.state = "open" /\ x.heard = r.input /\ Known(r.cont, x.memory)
    <3>1. Honest(TaskView(t), socks)
      BY <1>0, Owned
    <3>. QED
      BY <1>e, <1>1, <2>1, <3>1 DEF Honest, TaskView, True, Open
  <2>4. memory \in Seq(Seq(Int)) /\ cont \in Conts /\ Known(cont, memory)
    BY <2>1, <2>2, <2>3, Remembered
  <2>5. DOMAIN socks = Sockets
    BY <1>0 DEF SocketInv
  <2>6. DOMAIN x = {"state", "account", "age", "heard", "memory"}
    BY <2>3 DEF LiveSocks
  <2>. DEFINE told == Remembers(s, r.reply)
              rested == [told EXCEPT ![s].heard = <<>>]
  <2>7. told[s].memory = memory /\ rested = [socks EXCEPT ![s] = y]
    <3>1. told = [socks EXCEPT ![s] = [x EXCEPT !.memory = memory]]
      BY <2>3, <2>5 DEF Remembers
    <3>2. told[s] = [x EXCEPT !.memory = memory]
      BY <2>3, <2>5, <3>1
    <3>3. rested = [socks EXCEPT ![s] = [told[s] EXCEPT !.heard = <<>>]]
      BY <2>3, <2>5, <3>1
    <3>4. [told[s] EXCEPT !.heard = <<>>] = y
      BY <2>6, <3>2
    <3>. QED
      BY <2>6, <3>2, <3>3, <3>4
  <2>8. /\ socks' = IF HasEntry(t) THEN [rested EXCEPT ![old] = Nothing] ELSE rested
        /\ cache' = [cache EXCEPT ![e] = [sock |-> s, cont |-> cont,
                                          age |-> r.age, idle |-> 0]]
    BY <1>e, <1>2, <1>4, <2>7 DEF Entry
  <2>. HIDE DEF told, rested, cont, prev, r
  <2>9. /\ y \in LiveSocks /\ y.age = x.age /\ y.memory = memory /\ y.heard = <<>>
    <3>. <<>> \in Seq(Int)
      OBVIOUS
    <3>. HIDE DEF memory
    <3>. QED
      BY <2>3, <2>4 DEF LiveSocks
  <2>. HIDE DEF y, memory
  <2>10. old # s /\ (HasEntry(t) => old \in Sockets) /\ (~HasEntry(t) => old = NoSocket)
    <3>1. old # s
      BY <1>e, <1>0, <2>1, OneOwner
    <3>2. HasEntry(t) => old # NoSocket
      BY <1>e, <1>0, <2>1 DEF CacheInv, HasEntry
    <3>3. old # NoSocket => old \in Sockets
      BY <1>0, <2>1, Owned DEF Honest, KeptView
    <3>4. ~HasEntry(t) => old = NoSocket
      BY <1>e, <1>4 DEF HasEntry, NoEntry
    <3>. QED
      BY <3>1, <3>2, <3>3, <3>4
  <2>11. \A k \in Sockets :
           socks'[k] = IF k = s THEN y ELSE IF k = old THEN Nothing ELSE socks[k]
    BY <2>3, <2>5, <2>7, <2>8, <2>10, SocketNumbers
  <2>12. socks' \in [Sockets -> LiveSocks \cup {Nothing}]
    BY <1>0, <2>3, <2>7, <2>8, <2>9, <2>10 DEF SocketInv
  <2>13. DOMAIN cache = Sessions /\ CacheInv'
    BY <1>0, <2>1, <2>8 DEF CacheInv
  <2>14. /\ KeptView(e)' = [sock |-> s, age |-> r.age, cont |-> cont, told |-> <<>>]
         /\ \A d \in Sessions \ {e} : KeptView(d)' = KeptView(d)
    <3>1. cache'[e] = [sock |-> s, cont |-> cont, age |-> r.age, idle |-> 0]
      BY <2>1, <2>8, <2>13
    <3>2. \A d \in Sessions \ {e} : cache'[d] = cache[d]
      BY <2>8, <2>13
    <3>. QED
      BY <3>1, <3>2 DEF KeptView
  <2>15. /\ Kept(e) \in Owners /\ View(Kept(e)) = KeptView(e)
         /\ View(Kept(e))' = KeptView(e)' /\ KeptView(e).sock = old
    BY <2>1, OwnersSplit, KeptPrimed DEF KeptView
  <2>16. True(View(Kept(e))', y)
    BY <2>3, <2>4, <2>9, <2>14, <2>15 DEF True
  <2>17. /\ \A u \in Requests \ {t} : req'[u] = req[u]
         /\ req'[t].pc = "over" /\ req'[t].sock = NoSocket
         /\ Tasked(req'[t])
    <3>. DEFINE o == PushDone(Begun(t))
                q == Past(r, o)
    <3>1. /\ q.session = r.session /\ q.account = r.account
          /\ q.settings = r.settings /\ q.input = r.input
          /\ q.pc = "over" /\ q.sock = NoSocket
      BY DEF Past, Planned
    <3>. HIDE DEF q
    <3>2. (\A u \in Requests \ {t} : req'[u] = req[u]) /\ req'[t] = q
      BY <1>1, <2>2 DEF Over, q, r
    <3>. QED
      BY <1>0, <3>1, <3>2 DEF TaskInv, Tasked, r
  <2>18. \A o \in Owners \ {Kept(e)} :
           IF View(o).sock = s THEN View(o)'.sock = NoSocket ELSE Same(o)
    <3>. SUFFICES ASSUME NEW o \in Owners \ {Kept(e)}
                  PROVE  IF View(o).sock = s THEN View(o)'.sock = NoSocket ELSE Same(o)
      OBVIOUS
    <3>1. ASSUME NEW u \in Requests, o = Task(u), u # t
          PROVE  View(o).sock # s /\ Same(o)
      <4>1. req[u].sock # s
        BY <1>e, <1>0, <2>1, <3>1, OneOwner
      <4>2. TaskView(u)' = TaskView(u) /\ TaskView(u).sock # s
        BY <2>17, <3>1, <4>1 DEF TaskView
      <4>. QED
        BY <3>1, <4>2, TaskPrimed, OwnersSplit DEF Same
    <3>2. CASE o = Task(t)
      <4>1. TaskView(t)'.sock = NoSocket /\ TaskView(t).sock = s
        BY <1>e, <2>17 DEF TaskView
      <4>. QED
        BY <3>2, <4>1, TaskPrimed, OwnersSplit
    <3>3. ASSUME NEW d \in Sessions, o = Kept(d)
          PROVE  View(o).sock # s /\ Same(o)
      <4>1. d # e /\ KeptView(d).sock # s
        BY <1>e, <1>0, <2>1, <3>3, OneOwner DEF KeptView
      <4>2. View(o)' = View(o) /\ View(o) = KeptView(d)
        BY <2>14, <3>3, <4>1, KeptPrimed, OwnersSplit
      <4>. QED
        BY <4>1, <4>2 DEF Same
    <3>. QED
      BY <3>1, <3>2, <3>3, OwnersSplit
  <2>19. SocketInv'
    <3>1. View(Kept(e)).sock # s /\ View(Kept(e))'.sock = s
      BY <2>10, <2>14, <2>15
    <3>2. \A k \in Sockets :
            socks'[k] = IF k = s THEN y
                        ELSE IF k = View(Kept(e)).sock THEN Nothing ELSE socks[k]
      BY <2>11, <2>15
    <3>. HIDE DEF x, old
    <3>. QED
      BY <1>0, <2>3, <2>9, <2>12, <2>13, <2>15, <2>16, <2>18, <3>1, <3>2, HandedOver
  <2>20. TaskInv' /\ FreshStep
    BY <1>0, <2>17 DEF TaskInv, FreshStep
  <2>21. CountInv'
    BY <1>0, <2>17, CountKept
  <2>. QED
    BY <2>19, <2>20, <2>21 DEF WireStep, WireInv
<1>. QED
  BY <1>3, <1>4

-----------------------------------------------------------------------------
(* Every step                                                              *)

LEMMA SocketedStep ==
  ASSUME BothInv, NEW t \in Requests, Socketed(t)
  PROVE  WireStep
<1>0. DOMAIN req = Requests /\ DOMAIN req[t] = Fields
  BY DEF BothInv, StreamInv, Shape
<1>1. CASE AcquireStopped(t)
  BY <1>1, OverOut DEF AcquireStopped
<1>2. CASE AcquireNone(t)
  BY <1>2, GoesOut DEF AcquireNone
<1>3. CASE AcquireExpired(t)
  BY <1>3, ExpiredGoes
<1>4. CASE AcquireCached(t)
  BY <1>4, CachedTaken
<1>5. CASE Connect(t)
  <2>1. CASE Dial(t)
    BY <1>5, <2>1, GoesOut DEF Dial, Connect
  <2>2. CASE Tunnel(t)
    BY <1>5, <2>2, GoesOut DEF Tunnel, Connect
  <2>. QED
    BY <1>5, <2>1, <2>2 DEF Connect
<1>6. CASE Connected(t)
  BY <1>6, SocketOpened
<1>7. CASE ConnectFails(t)
  BY <1>7, TransportGoes DEF ConnectFails, Dialling, Running
<1>8. CASE ConnectAborted(t)
  BY <1>8, OverOut DEF ConnectAborted, Dialling
<1>9. CASE ReadStopped(t)
  BY <1>9, OverGoes DEF ReadStopped, Fails, Running
<1>10. CASE ReadFails(t)
  BY <1>10, TransportGoes DEF ReadFails, Running
<1>11. CASE ReadRefused(t)
  BY <1>11, OverGoes DEF ReadRefused, Receives, Fails, Running
<1>12. CASE ReadLimit(t)
  <2>1. t \in Running
    BY <1>12 DEF ReadLimit, Receives, Running
  <2>2. CASE TransportFails(t)
    BY <2>1, <2>2, TransportGoes
  <2>3. CASE Retried(t) /\ socks' = Drops(t) /\ UNCHANGED cache
    BY <2>1, <2>3, AgainGoes DEF Retried
  <2>. QED
    BY <1>12, <2>2, <2>3 DEF ReadLimit
<1>13. CASE ReadOther(t) \/ ReadItem(t)
  <2>1. req[t].pc = "read" /\ UNCHANGED <<socks, cache>>
    BY <1>13 DEF ReadOther, ReadItem, Receives
  <2>2. \/ req' = [req EXCEPT ![t].started = TRUE]
        \/ req' = [req EXCEPT ![t].started = TRUE, ![t].reply = Append(@, NextAnswer(t))]
    BY <1>13 DEF ReadOther, ReadItem
  <2>. DEFINE more == Append(req[t].reply, NextAnswer(t))
  <2>3. \/ req' = [req EXCEPT ![t] = [req[t] EXCEPT !.started = TRUE]]
        \/ req' = [req EXCEPT ![t] = [req[t] EXCEPT !.started = TRUE, !.reply = more]]
    BY <1>0, <2>2 DEF Fields
  <2>. HIDE DEF more
  <2>4. /\ \A u \in Requests \ {t} : req'[u] = req[u]
        /\ req'[t].pc = "read" /\ req'[t].sock = req[t].sock
        /\ req'[t].age = req[t].age /\ req'[t].cont = req[t].cont
        /\ req'[t].input = req[t].input /\ req'[t].session = req[t].session
        /\ req'[t].account = req[t].account /\ req'[t].settings = req[t].settings
    BY <1>0, <2>1, <2>3 DEF Fields
  <2>5. Tasked(req'[t])
    BY <2>1, <2>4 DEF Tasked, BothInv, WireInv, TaskInv
  <2>. QED
    BY <2>1, <2>4, <2>5, ReadsOn
<1>14. CASE ReadDone(t)
  BY <1>14, PutBack
<1>15. CASE ReadFailed(t)
  BY <1>15, OverGoes DEF ReadFailed, Receives, Running
<1>. QED
  BY <1>1, <1>2, <1>3, <1>4, <1>5, <1>6, <1>7, <1>8, <1>9, <1>10, <1>11, <1>12,
     <1>13, <1>14, <1>15 DEF Socketed

LEMMA HttpStep ==
  ASSUME BothInv, NEW t \in Requests, OverHttp(t)
  PROVE  WireStep
<1>0. DOMAIN req = Requests /\ DOMAIN req[t] = Fields
  BY DEF BothInv, StreamInv, Shape
<1>1. CASE PostStopped(t) \/ PostedAborted(t) \/ PostFails(t) \/ BodyDone(t)
  BY <1>1, OverOut DEF PostStopped, PostedAborted, PostFails, BodyDone
<1>2. CASE Post(t) \/ PostAgain(t) \/ Posted(t)
  BY <1>2, GoesOut DEF Post, PostAgain, Posted
<1>3. CASE PauseEnds(t) \/ BodyItem(t)
  <2>1. /\ req[t].pc \in {"wait", "body"} /\ UNCHANGED <<socks, cache>>
        /\ \/ req' = [req EXCEPT ![t].pc = "post", ![t].attempt = @ + 1]
           \/ req' = [req EXCEPT ![t].reply = Append(@, NextAnswer(t))]
    BY <1>3 DEF PauseEnds, BodyItem
  <2>. DEFINE more == Append(req[t].reply, NextAnswer(t))
              attempt == req[t].attempt + 1
  <2>2. \/ req' = [req EXCEPT ![t] = [req[t] EXCEPT !.pc = "post", !.attempt = attempt]]
        \/ req' = [req EXCEPT ![t] = [req[t] EXCEPT !.reply = more]]
    BY <1>0, <2>1 DEF Fields
  <2>. HIDE DEF more, attempt
  <2>3. /\ \A u \in Requests \ {t} : req'[u] = req[u]
        /\ req'[t].pc \in {"post", req[t].pc} /\ req'[t].sock = req[t].sock
        /\ req'[t].input = req[t].input /\ req'[t].session = req[t].session
        /\ req'[t].account = req[t].account /\ req'[t].settings = req[t].settings
    BY <1>0, <2>2 DEF Fields
  <2>4. Tasked(req'[t])
    BY <2>1, <2>3 DEF Tasked, BothInv, WireInv, TaskInv
  <2>. QED
    BY <2>1, <2>3, <2>4, KeepsOut DEF Running
<1>. QED
  BY <1>1, <1>2, <1>3 DEF OverHttp

\* One more task begins while there is room for it, with an input that goes on
\* from what its session has said.
LEMMA AskStep ==
  ASSUME BothInv, NEW t \in Requests, Ask(t)
  PROVE  WireStep
<1>0. DOMAIN req = Requests /\ DOMAIN req[t] = Fields
  BY DEF BothInv, StreamInv, Shape
<1>1. PICK base \in Bases(req[t].session) :
        req' = [req EXCEPT ![t].pc = "begin", ![t].input = Append(base, Question(t))]
  BY DEF Ask
<1>2. base \in Seq(Int)
  <2>1. <<>> \in Seq(Int)
    OBVIOUS
  <2>2. ASSUME NEW u \in Requests, NEW k \in 1 .. Len(req[u].input \o req[u].reply)
        PROVE  SubSeq(req[u].input \o req[u].reply, 1, k) \in Seq(Int)
    <3>. DEFINE talk == req[u].input \o req[u].reply
    <3>1. req[u].input \in Seq(Int) /\ req[u].reply \in Seq(Int)
      BY DEF BothInv, WireInv, TaskInv, Tasked, StreamInv, Shape
    <3>2. talk \in Seq(Int)
      BY <3>1, ConcatProperties
    <3>0. k \in 1 .. Len(talk)
      BY <2>2
    <3>. HIDE DEF talk
    <3>3. k \in Int /\ \A i \in 1 .. k : talk[i] \in Int
      BY <3>0, <3>2
    <3>4. SubSeq(talk, 1, k) \in Seq(Int)
      BY <3>3, SubSeqProperties
    <3>. QED
      BY <3>4 DEF talk
  <2>3. CASE base # <<>>
    <3>. DEFINE Talks == {req[u].input \o req[u].reply :
                            u \in {v \in Requests : /\ req[v].pc = "over"
                                                    /\ req[v].session = req[t].session}}
    <3>1. base \in UNION {{SubSeq(talk, 1, k) : k \in 1 .. Len(talk)} : talk \in Talks}
      BY <2>3 DEF Bases
    <3>. HIDE DEF Talks
    <3>2. PICK talk \in Talks : base \in {SubSeq(talk, 1, k) : k \in 1 .. Len(talk)}
      BY <3>1
    <3>3. PICK k \in 1 .. Len(talk) : base = SubSeq(talk, 1, k)
      BY <3>2
    <3>4. \E u \in Requests : talk = req[u].input \o req[u].reply
      BY <3>2 DEF Talks
    <3>. QED
      BY <2>2, <3>3, <3>4
  <2>. QED
    BY <2>1, <2>3
<1>. DEFINE input == Append(base, Question(t))
<1>3. input \in Seq(Int)
  <2>1. Question(t) \in Int
    BY CodexSocketAssumption DEF Question
  <2>. QED
    BY <1>2, <2>1, AppendProperties
<1>. HIDE DEF input
<1>4. req' = [req EXCEPT ![t].pc = "begin", ![t].input = input]
  BY <1>1 DEF input
<1>5. /\ \A u \in Requests \ {t} : req'[u] = req[u]
      /\ req'[t].pc = "begin" /\ req'[t].sock = req[t].sock
      /\ req'[t].input = input /\ req'[t].session = req[t].session
      /\ req'[t].account = req[t].account /\ req'[t].settings = req[t].settings
  BY <1>0, <1>4 DEF Fields
<1>6. req[t].pc = "idle" /\ UNCHANGED <<socks, cache>>
        /\ Cardinality(Running) < MaxRunning
  BY DEF Ask
<1>7. Tasked(req'[t])
  BY <1>3, <1>5, <1>6 DEF Tasked, BothInv, WireInv, TaskInv
<1>8. TaskInv' /\ FreshStep
  BY <1>5, <1>7 DEF BothInv, WireInv, TaskInv, FreshStep
<1>9. CountInv'
  <2>1. IsFiniteSet(Running) /\ t \notin Running
    BY <1>6 DEF BothInv, WireInv, CountInv, Running
  <2>2. Running' = Running \cup {t}
    BY <1>5, <1>6 DEF Running
  <2>3. IsFiniteSet(Running \cup {t})
          /\ Cardinality(Running \cup {t}) = Cardinality(Running) + 1
    BY <2>1, FS_AddElement
  <2>4. Cardinality(Running) \in Nat
    BY <2>1, FS_CardinalityType
  <2>. QED
    BY <1>6, <2>2, <2>3, <2>4, CodexSocketAssumption DEF CountInv
<1>10. SocketInv'
  <2>1. req[t].sock = NoSocket /\ req'[t].sock = NoSocket
    BY <1>5, <1>6 DEF BothInv, WireInv, TaskInv, Tasked
  <2>2. Task(t) \in Owners /\ View(Task(t)).sock = NoSocket
        /\ View(Task(t))'.sock = NoSocket
    BY <2>1, OwnersSplit, TaskPrimed DEF TaskView
  <2>3. \A o \in Owners \ {Task(t)} : Same(o)
    BY <1>5, <1>6, OthersView DEF Same
  <2>. QED
    BY <1>6, <2>2, <2>3, Dropped DEF BothInv, WireInv, SocketInv, CacheInv
<1>. QED
  BY <1>8, <1>9, <1>10 DEF WireStep, WireInv

\* The flag that is raised on a task moves no socket.
LEMMA StopStep ==
  ASSUME BothInv, NEW t \in Requests, Stop(t)
  PROVE  WireStep
<1>0. DOMAIN req = Requests /\ DOMAIN req[t] = Fields
  BY DEF BothInv, StreamInv, Shape
<1>1. PICK how : req' = [req EXCEPT ![t].stop = how]
  BY DEF Stop
<1>2. req' = [req EXCEPT ![t] = [req[t] EXCEPT !.stop = how]]
  BY <1>0, <1>1
<1>3. /\ \A u \in Requests \ {t} : req'[u] = req[u]
      /\ req'[t].pc = req[t].pc /\ req'[t].sock = req[t].sock
      /\ req'[t].age = req[t].age /\ req'[t].cont = req[t].cont
      /\ req'[t].input = req[t].input /\ req'[t].session = req[t].session
      /\ req'[t].account = req[t].account /\ req'[t].settings = req[t].settings
  BY <1>0, <1>2 DEF Fields
<1>4. Tasked(req'[t])
  BY <1>3 DEF Tasked, BothInv, WireInv, TaskInv
<1>5. t \in Running /\ UNCHANGED <<socks, cache>>
  BY DEF Stop
<1>. QED
  BY <1>3, <1>4, <1>5, ReadsOn, KeepsOut

\* A socket that is lost stays with its owner, who has yet to find out.
LEMMA LosesStep ==
  ASSUME BothInv, NEW s \in Sockets, Loses(s)
  PROVE  WireStep
<1>. DEFINE x == socks[s]
            y == [x EXCEPT !.state = "cut", !.heard = <<>>, !.memory = <<>>]
<1>0. SocketInv /\ CacheInv
  BY DEF BothInv, WireInv, SocketInv
<1>1. x.state = "open" /\ socks' = [socks EXCEPT ![s] = y] /\ UNCHANGED <<req, cache>>
  BY DEF Loses, Cut, Open
<1>2. x \in LiveSocks
  BY <1>0, <1>1 DEF SocketInv, Nothing, Socket
<1>. HIDE DEF x
<1>3. y \in LiveSocks /\ y.age = x.age /\ y.state = "cut"
  <2>. <<>> \in Seq(Int) /\ <<>> \in Seq(Seq(Int))
    OBVIOUS
  <2>. QED
    BY <1>2 DEF LiveSocks
<1>. HIDE DEF y
<1>4. \A o \in Owners : View(o)' = View(o)
  BY <1>1 DEF View, TaskView, KeptView
<1>5. /\ socks' \in [Sockets -> LiveSocks \cup {Nothing}]
      /\ socks'[s] = y /\ \A k \in Sockets \ {s} : socks'[k] = socks[k]
  BY <1>0, <1>1, <1>3 DEF SocketInv
<1>6. \A o \in Owners : View(o).sock # NoSocket =>
        True(View(o)', socks'[View(o).sock])
  <2>. SUFFICES ASSUME NEW o \in Owners, View(o).sock # NoSocket
                PROVE  True(View(o), socks'[View(o).sock])
    BY <1>4
  <2>1. View(o).sock \in Sockets /\ True(View(o), socks[View(o).sock])
    BY <1>0 DEF SocketInv, Honest
  <2>2. CASE View(o).sock = s
    BY <1>3, <1>5, <2>1, <2>2 DEF True, x
  <2>3. CASE View(o).sock # s
    BY <1>5, <2>1, <2>3
  <2>. QED
    BY <2>2, <2>3
<1>7. /\ \A k \in Sockets : socks[k] = Nothing => socks'[k] = Nothing
      /\ \A k \in Sockets : socks[k] \in LiveSocks => socks'[k] \in LiveSocks
  BY <1>2, <1>3, <1>5, LiveIsSomething DEF x
<1>8. CacheInv'
  BY <1>0, <1>1 DEF CacheInv
<1>9. SocketInv'
  BY <1>0, <1>4, <1>5, <1>6, <1>7, <1>8, Stayed
<1>10. TaskInv' /\ CountInv' /\ FreshStep
  BY <1>1, CountKept DEF BothInv, WireInv, TaskInv, FreshStep
<1>. QED
  BY <1>9, <1>10 DEF WireStep, WireInv

LEMMA CleanUpStep ==
  ASSUME BothInv, NEW e \in Sessions, CleanUp(e)
  PROVE  WireStep
<1>1. \A u \in Requests : TaskView(u)' = TaskView(u)
  BY DEF CleanUp, TaskView
<1>2. SocketInv'
  BY <1>1, Forgotten DEF CleanUp
<1>3. TaskInv' /\ CountInv' /\ FreshStep
  BY CountKept DEF CleanUp, BothInv, WireInv, TaskInv, FreshStep
<1>. QED
  BY <1>2, <1>3 DEF WireStep, WireInv

\* The clock makes a socket older for all who know of it.
LEMMA TickStep ==
  ASSUME BothInv, Tick
  PROVE  WireStep
<1>0. /\ SocketInv /\ CacheInv /\ DOMAIN req = Requests
      /\ \A t \in Requests : DOMAIN req[t] = Fields
  BY DEF BothInv, WireInv, SocketInv, StreamInv, Shape
<1>1. /\ \A s \in Sockets : socks[s] = Nothing => socks'[s] = Nothing
      /\ \A s \in Sockets : socks[s] # Nothing =>
           socks'[s] = [socks[s] EXCEPT !.age = Older(@, MaxAge)]
      /\ DOMAIN socks' = Sockets /\ socks' = [s \in Sockets |-> socks'[s]]
  BY DEF Tick
<1>2. \A age \in Nat : Older(age, MaxAge) \in Nat
  BY DEF Older
<1>3. \A s \in Sockets : socks[s] \in LiveSocks =>
        /\ socks'[s] \in LiveSocks
        /\ socks'[s].age = Older(socks[s].age, MaxAge)
        /\ socks'[s].state = socks[s].state /\ socks'[s].heard = socks[s].heard
        /\ socks'[s].memory = socks[s].memory
  <2>. SUFFICES ASSUME NEW s \in Sockets, socks[s] \in LiveSocks
                PROVE  /\ socks'[s] \in LiveSocks
                       /\ socks'[s].age = Older(socks[s].age, MaxAge)
                       /\ socks'[s].state = socks[s].state
                       /\ socks'[s].heard = socks[s].heard
                       /\ socks'[s].memory = socks[s].memory
    OBVIOUS
  <2>. DEFINE older == Older(socks[s].age, MaxAge)
  <2>1. older \in Nat
    BY <1>2 DEF LiveSocks
  <2>2. socks'[s] = [socks[s] EXCEPT !.age = older]
    BY <1>1, LiveIsSomething
  <2>. HIDE DEF older
  <2>3. /\ socks'[s] \in LiveSocks /\ socks'[s].age = older
        /\ socks'[s].state = socks[s].state /\ socks'[s].heard = socks[s].heard
        /\ socks'[s].memory = socks[s].memory
    BY <2>1, <2>2 DEF LiveSocks
  <2>. QED
    BY <2>3 DEF older
<1>4. \A t \in Requests :
        /\ req[t].sock = NoSocket => req'[t] = req[t]
        /\ req'[t].pc = req[t].pc /\ req'[t].sock = req[t].sock
        /\ req'[t].cont = req[t].cont /\ req'[t].input = req[t].input
        /\ req'[t].session = req[t].session /\ req'[t].account = req[t].account
        /\ req'[t].settings = req[t].settings
        /\ req[t].sock # NoSocket => req'[t].age = Older(req[t].age, MaxAge)
  <2>. SUFFICES ASSUME NEW t \in Requests
                PROVE  /\ req[t].sock = NoSocket => req'[t] = req[t]
                       /\ req'[t].pc = req[t].pc /\ req'[t].sock = req[t].sock
                       /\ req'[t].cont = req[t].cont /\ req'[t].input = req[t].input
                       /\ req'[t].session = req[t].session
                       /\ req'[t].account = req[t].account
                       /\ req'[t].settings = req[t].settings
                       /\ req[t].sock # NoSocket =>
                            req'[t].age = Older(req[t].age, MaxAge)
    OBVIOUS
  <2>. DEFINE older == Older(req[t].age, MaxAge)
  <2>1. req'[t] = IF req[t].sock = NoSocket THEN req[t]
                  ELSE [req[t] EXCEPT !.age = older]
    BY DEF Tick
  <2>. HIDE DEF older
  <2>2. /\ req[t].sock = NoSocket => req'[t] = req[t]
        /\ req'[t].pc = req[t].pc /\ req'[t].sock = req[t].sock
        /\ req'[t].cont = req[t].cont /\ req'[t].input = req[t].input
        /\ req'[t].session = req[t].session
        /\ req'[t].account = req[t].account
        /\ req'[t].settings = req[t].settings
        /\ req[t].sock # NoSocket => req'[t].age = older
    BY <1>0, <2>1 DEF Fields
  <2>. QED
    BY <2>2 DEF older
<1>5. DOMAIN cache' = Sessions /\ \A e \in Sessions :
        IF cache[e] = NoEntry THEN cache'[e] = NoEntry
        ELSE /\ cache'[e].sock = cache[e].sock /\ cache'[e].cont = cache[e].cont
             /\ cache'[e].age = Older(cache[e].age, MaxAge)
             /\ DOMAIN cache'[e] = DOMAIN cache[e]
  <2>1. cache' = [e \in Sessions |->
                    IF cache[e] = NoEntry THEN NoEntry
                    ELSE [cache[e] EXCEPT !.age = Older(@, MaxAge),
                                          !.idle = Older(@, IdleTtl)]]
    BY DEF Tick
  <2>. SUFFICES ASSUME NEW e \in Sessions
                PROVE  IF cache[e] = NoEntry THEN cache'[e] = NoEntry
                       ELSE /\ cache'[e].sock = cache[e].sock
                            /\ cache'[e].cont = cache[e].cont
                            /\ cache'[e].age = Older(cache[e].age, MaxAge)
                            /\ DOMAIN cache'[e] = DOMAIN cache[e]
    BY <2>1
  <2>. DEFINE older == Older(cache[e].age, MaxAge)
              idler == Older(cache[e].idle, IdleTtl)
  <2>2. cache'[e] = IF cache[e] = NoEntry THEN NoEntry
                    ELSE [cache[e] EXCEPT !.age = older, !.idle = idler]
    BY <1>0, <2>1 DEF CacheInv
  <2>. HIDE DEF older, idler
  <2>3. IF cache[e] = NoEntry THEN cache'[e] = NoEntry
        ELSE /\ cache'[e].sock = cache[e].sock /\ cache'[e].cont = cache[e].cont
             /\ cache'[e].age = older /\ DOMAIN cache'[e] = DOMAIN cache[e]
    BY <1>0, <2>2 DEF CacheInv
  <2>. QED
    BY <2>3 DEF older
<1>6. CacheInv'
  BY <1>0, <1>5 DEF CacheInv, NoEntry
<1>7. \A o \in Owners :
        /\ View(o)'.sock = View(o).sock
        /\ View(o).sock # NoSocket =>
             /\ View(o)'.cont = View(o).cont /\ View(o)'.told = View(o).told
             /\ View(o)'.age = Older(View(o).age, MaxAge)
  <2>1. ASSUME NEW t \in Requests
        PROVE  LET v == TaskView(t)
               IN /\ v'.sock = v.sock
                  /\ v.sock # NoSocket => /\ v'.cont = v.cont /\ v'.told = v.told
                                         /\ v'.age = Older(v.age, MaxAge)
    BY <1>4 DEF TaskView
  <2>2. ASSUME NEW e \in Sessions
        PROVE  LET v == KeptView(e)
               IN /\ v'.sock = v.sock
                  /\ v.sock # NoSocket => /\ v'.cont = v.cont /\ v'.told = v.told
                                         /\ v'.age = Older(v.age, MaxAge)
    <3>1. CASE cache[e] = NoEntry
      BY <1>5, <3>1 DEF KeptView, NoEntry
    <3>2. CASE cache[e] # NoEntry
      BY <1>5, <3>2 DEF KeptView
    <3>. QED
      BY <3>1, <3>2
  <2>. SUFFICES ASSUME NEW o \in Owners
                PROVE  /\ View(o)'.sock = View(o).sock
                       /\ View(o).sock # NoSocket =>
                            /\ View(o)'.cont = View(o).cont
                            /\ View(o)'.told = View(o).told
                            /\ View(o)'.age = Older(View(o).age, MaxAge)
    OBVIOUS
  <2>3. ASSUME NEW t \in Requests, o = Task(t)
        PROVE  View(o) = TaskView(t) /\ View(o)' = TaskView(t)'
    BY <2>3, TaskPrimed, OwnersSplit
  <2>4. ASSUME NEW e \in Sessions, o = Kept(e)
        PROVE  View(o) = KeptView(e) /\ View(o)' = KeptView(e)'
    BY <2>4, KeptPrimed, OwnersSplit
  <2>. QED
    BY <2>1, <2>2, <2>3, <2>4, OwnersSplit
<1>8. \A o \in Owners : View(o).sock # NoSocket =>
        True(View(o)', socks'[View(o).sock])
  <2>. SUFFICES ASSUME NEW o \in Owners, View(o).sock # NoSocket
                PROVE  True(View(o)', socks'[View(o).sock])
    OBVIOUS
  <2>1. /\ View(o).sock \in Sockets /\ socks[View(o).sock] \in LiveSocks
        /\ True(View(o), socks[View(o).sock])
    BY <1>0 DEF SocketInv, Honest
  <2>. QED
    BY <1>3, <1>7, <2>1 DEF True
<1>9. socks' \in [Sockets -> LiveSocks \cup {Nothing}]
  BY <1>0, <1>1, <1>3 DEF SocketInv
<1>10. \A s \in Sockets : socks[s] \in LiveSocks => socks'[s] \in LiveSocks
  BY <1>3
<1>11. \A s \in Sockets : socks[s] = Nothing => socks'[s] = Nothing
  BY <1>1
<1>12. SocketInv'
  BY <1>0, <1>6, <1>7, <1>8, <1>9, <1>10, <1>11, Stayed
<1>13. TaskInv' /\ CountInv' /\ FreshStep
  BY <1>4, CountKept DEF BothInv, WireInv, TaskInv, Tasked, FreshStep
<1>. QED
  BY <1>12, <1>13 DEF WireStep, WireInv

LEMMA WireKept == BothInv /\ [Next]_vars => WireStep
<1>. SUFFICES ASSUME BothInv, [Next]_vars
              PROVE  WireStep
  OBVIOUS
<1>1. ASSUME NEW t \in Requests, Begin(t)
      PROVE  WireStep
  BY <1>1, GoesOut DEF Begin
<1>2. ASSUME NEW t \in Requests, Step(t)
      PROVE  WireStep
  BY <1>1, <1>2, SocketedStep, HttpStep DEF Step
<1>3. CASE UNCHANGED <<req, socks, cache>>
  <2>1. \A o \in Owners : View(o)' = View(o)
    BY <1>3 DEF View, TaskView, KeptView
  <2>2. SocketInv /\ SocketInv'
    BY <1>3, <2>1, Stayed DEF BothInv, WireInv, SocketInv, CacheInv, Honest
  <2>3. TaskInv' /\ CountInv' /\ FreshStep
    BY <1>3, CountKept DEF BothInv, WireInv, TaskInv, FreshStep
  <2>. QED
    BY <2>2, <2>3 DEF WireStep, WireInv
<1>4. ASSUME NEW e \in Sessions, ResetStats(e)
      PROVE  WireStep
  BY <1>3, <1>4 DEF ResetStats
<1>. QED
  BY <1>2, <1>3, <1>4, AskStep, StopStep, LosesStep, CleanUpStep, TickStep
     DEF Next, vars

LEMMA WireInit == Init => WireInv
<1>. SUFFICES ASSUME Init
              PROVE  WireInv
  OBVIOUS
<1>1. PICK plan \in Plans : req = [t \in Requests |-> Planned(plan[t])]
  BY DEF Init
<1>2. \A t \in Requests : plan[t] \in [session : Sessions \cup {NoSession},
                                       transport : Transports, account : Nat,
                                       settings : Nat, waits : BOOLEAN]
  BY CodexSocketAssumption
<1>3. TaskInv
  <2>1. <<>> \in Seq(Int)
    OBVIOUS
  <2>. QED
    BY <1>1, <1>2, <2>1 DEF TaskInv, Tasked, Planned, NoSocket
<1>4. CountInv
  <2>1. Running = {}
    BY <1>1 DEF Running, Planned
  <2>. QED
    BY <2>1, FS_EmptySet, CodexSocketAssumption DEF CountInv
<1>5. SocketInv
  <2>1. socks = [s \in Sockets |-> Nothing] /\ cache = [e \in Sessions |-> NoEntry]
    BY DEF Init
  <2>2. CacheInv
    BY <2>1 DEF CacheInv, NoEntry
  <2>3. \A o \in Owners : View(o).sock = NoSocket
    BY <1>1, <2>1, OwnersSplit DEF TaskView, KeptView, Planned, NoEntry
  <2>. QED
    BY <2>1, <2>2, <2>3 DEF SocketInv, Honest
<1>. QED
  BY <1>3, <1>4, <1>5 DEF WireInv

\* The server answers the whole conversation that the caller asked about, though
\* the request names a part of it by the id of an earlier reply: whatever the
\* requests of the session did before, the socket that carries the id belongs
\* to whoever kept it, and its server remembers what the continuation says.
THEOREM WholeConversation == Spec => []WholeContext
<1>1. WireInv => WholeContext
  <2>. SUFFICES ASSUME WireInv, NEW t \in Requests, req[t].pc = "read",
                       Open(req[t].sock)
                PROVE  socks[req[t].sock].heard = req[t].input
    BY DEF WholeContext
  <2>1. Honest(TaskView(t), socks)
    BY Owned DEF WireInv
  <2>2. req[t].sock # NoSocket
    BY DEF WireInv, TaskInv, Tasked
  <2>. QED
    BY <2>1, <2>2 DEF Honest, TaskView, True, Open
<1>2. Init => BothInv
  BY InitKeeps, WireInit DEF BothInv
<1>3. BothInv /\ [Next]_vars => BothInv'
  BY NextKeeps, WireKept DEF BothInv, WireStep
<1>. QED
  BY <1>1, <1>2, <1>3, PTL DEF Spec, BothInv

\* A socket serves one request at a time, and none is asked on a socket that the
\* server is about to close for its age.
THEOREM SocketsAreKept == Spec => SocketsKept
<1>1. WireInv => OneRequestPerSocket
  <2>. SUFFICES ASSUME WireInv, NEW s \in Sockets
                PROVE  LET Holders == {t \in Requests : req[t].pc = "read"
                                                          /\ req[t].sock = s}
                           Keepers == {e \in Sessions : cache[e].sock = s}
                       IN Cardinality(Holders) + Cardinality(Keepers) <= 1
    BY DEF OneRequestPerSocket
  <2>. DEFINE Holders == {t \in Requests : req[t].pc = "read" /\ req[t].sock = s}
              Keepers == {e \in Sessions : cache[e].sock = s}
  <2>1. /\ \A t, u \in Holders : t = u
        /\ \A d, e \in Keepers : d = e
        /\ Holders = {} \/ Keepers = {}
    BY OneOwner, SocketNumbers DEF WireInv
  <2>. HIDE DEF Holders, Keepers
  <2>2. Cardinality({}) = 0 /\ \A x : Cardinality({x}) = 1
    BY FS_EmptySet, FS_Singleton
  <2>3. \A S : (\A x, y \in S : x = y) => S = {} \/ \E x : S = {x}
    OBVIOUS
  <2>4. Cardinality(Holders) \in {0, 1} /\ Cardinality(Keepers) \in {0, 1}
    BY <2>1, <2>2, <2>3
  <2>5. Cardinality(Holders) = 0 \/ Cardinality(Keepers) = 0
    BY <2>1, <2>2
  <2>6. Cardinality(Holders) + Cardinality(Keepers) <= 1
    BY <2>4, <2>5
  <2>. QED
    BY <2>6 DEF Holders, Keepers
<1>2. Init => BothInv
  BY InitKeeps, WireInit DEF BothInv
<1>3. BothInv /\ [Next]_vars => BothInv' /\ FreshStep
  BY NextKeeps, WireKept DEF BothInv, WireStep
<1>4. FreshStep => [\A t \in Requests :
                      req[t].pc # "read" /\ req'[t].pc = "read" =>
                        socks'[req'[t].sock].age < MaxAge]_vars
  BY DEF FreshStep
<1>5. Spec => []BothInv
  BY <1>2, <1>3, PTL DEF Spec
<1>6. Spec => []OneRequestPerSocket
  BY <1>1, <1>5, PTL DEF BothInv
<1>7. Spec => AskedOnFresh
  BY <1>3, <1>4, <1>5, PTL DEF Spec, AskedOnFresh
<1>. QED
  BY <1>6, <1>7, PTL DEF SocketsKept
=============================================================================
