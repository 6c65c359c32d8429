---------------------------- MODULE ProvidersProofs ----------------------------
(***************************************************************************)
(* What the streams of the adapters keep, for every number of items,       *)
(* fragments and retries.                                                  *)
(*                                                                         *)
(* While an answer is read, the message, what its receiver was shown and   *)
(* what the provider sent agree (Agree): block for item, fragment for      *)
(* fragment, and open together.  What each adapter remembers finds the     *)
(* block of the next fragment (ProcFits).  The lemmas on the events say    *)
(* that each keeps the agreement and only ever adds to what was shown      *)
(* (Follows), so that an event of the provider, which is a few of those,   *)
(* does so too: the refinement of AssistantStream comes with it.           *)
(***************************************************************************)
EXTENDS Providers, SequenceTheorems, FiniteSetTheorems, TLAPS

Blocks == [kind : Kinds, lead : Nat, parts : Seq(Int)]
ShownBlocks == [kind : Kinds, lead : Nat, parts : Seq(Int), open : BOOLEAN]
ItemRecords == [kind : Kinds, brought : BOOLEAN, sent : Nat, open : BOOLEAN]

Reasons == {"stop", "length", "toolUse", "error", "aborted"}

Streams ==
  [blocks : Seq(Blocks), shown : Seq(ShownBlocks), started : BOOLEAN,
   outcome : Abstract!Outcomes, reason : Reasons, broken : {FALSE}]

\* The receiver has been given every block, and all there is of it.
Told(o) ==
  /\ o \in Streams
  /\ Len(o.shown) = Len(o.blocks)
  /\ Len(o.shown) > 0 => o.started
  /\ \A i \in 1 .. Len(o.blocks) :
       /\ o.shown[i].kind = o.blocks[i].kind /\ o.shown[i].parts = o.blocks[i].parts
       /\ ~o.shown[i].open => o.shown[i].lead = o.blocks[i].lead

Wires ==
  {w \in [items : Seq(ItemRecords), stopped : BOOLEAN] : Len(w.items) <= MaxItems}

FragmentsOf(parts) == {k \in 1 .. Len(parts) : parts[k] # Separator}

\* What the start of item i brought and nothing else: LeadKept of Providers.
Leads(lead, item, i) ==
  /\ lead # 0 => lead = i /\ item.brought
  /\ item.brought /\ (item.kind = "toolCall" => api = "responses" /\ ~item.open)
       => lead = i

\* The fragments of item i, all of them; only thoughts are put in parts.
Bears(block, item, i) ==
  /\ block.kind = item.kind
  /\ Leads(block.lead, item, i)
  /\ \A k \in FragmentsOf(block.parts) : block.parts[k] = i
  /\ Cardinality(FragmentsOf(block.parts)) = item.sent
  /\ block.kind # "thinking" => FragmentsOf(block.parts) = 1 .. Len(block.parts)

Tells(o, w) ==
  /\ Len(o.blocks) = Len(w.items)
  /\ \A i \in 1 .. Len(w.items) : Bears(o.blocks[i], w.items[i], i)

\* A block is open while its item is.
OpenAlike(o, w) ==
  \A i \in 1 .. Len(w.items) : o.shown[i].open = w.items[i].open

Agree(o, w) ==
  /\ w \in Wires /\ Told(o) /\ Tells(o, w) /\ OpenAlike(o, w)
  /\ o.outcome = "none"

\* A block that is shown later: as Grows of AssistantStream.
Goes(old, new) ==
  /\ new.kind = old.kind
  /\ ~old.open => new = old
  /\ new.open => /\ new.lead = old.lead
                 /\ Len(old.parts) <= Len(new.parts)
                 /\ \A k \in 1 .. Len(old.parts) : new.parts[k] = old.parts[k]

Steps(o, p) ==
  /\ o.started => p.started
  /\ Len(o.shown) <= Len(p.shown)
  /\ \A i \in 1 .. Len(o.shown) : Goes(o.shown[i], p.shown[i])

\* From o to p, which agrees with w.
Follows(o, p, w) == Agree(p, w) /\ Steps(o, p)

SlotMaps == [1 .. MaxItems -> Nat]

\* The map of an adapter that keeps the blocks of the items under way.
Slots(at, w) ==
  /\ at \in SlotMaps
  /\ \A i \in 1 .. MaxItems :
       at[i] = IF i \in 1 .. Len(w.items) /\ w.items[i].open THEN i ELSE 0

AllEnded(w) == \A i \in 1 .. Len(w.items) : ~w.items[i].open

AnthropicFits(p, started, w) ==
  /\ p \in [started : BOOLEAN, at : SlotMaps, stopped : BOOLEAN]
  /\ p.started = started
  /\ Slots(p.at, w)
  /\ w.stopped => AllEnded(w)

ItemCalls(w) == {i \in 1 .. Len(w.items) : w.items[i].kind = "toolCall"}

CallNotes(w) ==
  [text : 0 .. Len(w.items), thinking : 0 .. Len(w.items), last : Nat,
   finished : BOOLEAN,
   byIndex : [0 .. MaxItems -> {0} \cup ItemCalls(w)],
   byId : [1 .. 2 * MaxItems -> {0} \cup ItemCalls(w)],
   ids : [1 .. MaxItems -> Nat]]

\* A block of each, and each call under its own id.
CompletionsFits(p, started, w) ==
  LET n == Len(w.items)
      calls == ItemCalls(w)
  IN /\ p \in CallNotes(w)
     /\ started
     /\ p.finished = w.stopped
     /\ \A i \in 1 .. n : /\ w.items[i].open
                          /\ w.items[i].kind = "text" <=> i = p.text
                          /\ w.items[i].kind = "thinking" <=> i = p.thinking
     /\ \A i \in calls : p.byId[i] = i /\ p.ids[i] = i
     /\ \A id \in n + 1 .. MaxItems : p.byId[id] = 0 /\ p.ids[id] = NoId

ResponsesFits(p, started, w) ==
  p \in [at : SlotMaps] /\ started /\ Slots(p.at, w) /\ ~w.stopped

GoogleFits(p, started, w) ==
  /\ p \in [started : BOOLEAN, active : 0 .. Len(w.items)]
  /\ p.started = started
  /\ \A i \in 1 .. Len(w.items) : w.items[i].open <=> i = p.active

MistralFits(p, started, w) ==
  /\ p \in [started : BOOLEAN, active : 0 .. Len(w.items), byKey : SlotMaps]
  /\ p.started = started
  /\ p.active # 0 => w.items[p.active].kind # "toolCall"
  /\ \A i \in 1 .. Len(w.items) :
       /\ w.items[i].open <=> i = p.active \/ w.items[i].kind = "toolCall"
       /\ w.items[i].kind = "toolCall" => p.byKey[i] = i

BedrockFits(p, started, w) ==
  /\ p \in [at : SlotMaps] /\ Slots(p.at, w)
  /\ w.stopped => AllEnded(w)

ProcFits(p, started, w) ==
  /\ api = "anthropic" => AnthropicFits(p, started, w)
  /\ api = "completions" => CompletionsFits(p, started, w)
  /\ api = "responses" => ResponsesFits(p, started, w)
  /\ api = "google" => GoogleFits(p, started, w)
  /\ api = "mistral" => MistralFits(p, started, w)
  /\ api = "bedrock" => BedrockFits(p, started, w)

\* What the end of a reply says.
Concluded(o, w) ==
  o.outcome = "done" =>
    /\ w.stopped => \A i \in 1 .. Len(o.shown) : ~o.shown[i].open
    /\ api \in {"completions", "responses", "piMessages", "proxy"} => w.stopped
    /\ api \in {"responses", "piMessages", "proxy"} => AllEnded(w)

StreamInv ==
  /\ wire \in Wires /\ Told(out) /\ Tells(out, wire)
  /\ task \in {"begin", "request"} =>
       out = Silent /\ wire = Silence /\ proc = NewProc(api)
  /\ task = "reading" => Agree(out, wire) /\ ProcFits(proc, out.started, wire)
  /\ task \in {"begin", "request", "reading", "over"}
  /\ task = "over" => Concluded(out, wire)

-----------------------------------------------------------------------------
(* The provider's side                                                     *)

WithItem(w, kind) == [w EXCEPT !.items = Append(@, Item(kind))]
Grow(w, i) == [w EXCEPT !.items[i].sent = @ + 1]
Close(w, i) == [w EXCEPT !.items[i].open = FALSE]
Stop(w) == [w EXCEPT !.stopped = TRUE]

\* What is known of two fields is known of the wire.
LEMMA AddItem ==
  ASSUME NEW w \in Wires, NEW kind \in Kinds, Len(w.items) < MaxItems
  PROVE  LET v == WithItem(w, kind)
             n == Len(w.items) + 1
         IN /\ v \in Wires /\ v.stopped = w.stopped
            /\ Len(v.items) = n /\ v.items[n] = Item(kind)
            /\ \A i \in 1 .. Len(w.items) : v.items[i] = w.items[i]
<1>. DEFINE its == Append(w.items, Item(kind))
            n == Len(w.items) + 1
<1>1. /\ w \in [items : Seq(ItemRecords), stopped : BOOLEAN]
      /\ w.items \in Seq(ItemRecords) /\ Len(w.items) \in Nat
  BY DEF Wires
<1>2. Item(kind) \in ItemRecords
  BY DEF Item, ItemRecords
<1>3. /\ its \in Seq(ItemRecords) /\ Len(its) = n /\ its[n] = Item(kind)
      /\ \A i \in 1 .. Len(w.items) : its[i] = w.items[i]
  BY <1>1, <1>2, AppendProperties
<1>4. WithItem(w, kind) = [w EXCEPT !.items = its]
  BY <1>1 DEF WithItem
<1>. HIDE DEF its
<1>5. n <= MaxItems
  BY <1>1, HttpStreamAssumption
<1>. QED
  BY <1>1, <1>3, <1>4, <1>5 DEF Wires

LEMMA GrowItem ==
  ASSUME NEW w \in Wires, NEW i \in 1 .. Len(w.items)
  PROVE  LET v == Grow(w, i)
         IN /\ v \in Wires /\ v.stopped = w.stopped
            /\ Len(v.items) = Len(w.items)
            /\ v.items[i].kind = w.items[i].kind
            /\ v.items[i].brought = w.items[i].brought
            /\ v.items[i].sent = w.items[i].sent + 1
            /\ v.items[i].open = w.items[i].open
            /\ \A j \in 1 .. Len(w.items) \ {i} : v.items[j] = w.items[j]
<1>. DEFINE it == [w.items[i] EXCEPT !.sent = @ + 1]
            its == [w.items EXCEPT ![i] = it]
<1>1. /\ w \in [items : Seq(ItemRecords), stopped : BOOLEAN]
      /\ w.items \in Seq(ItemRecords) /\ Len(w.items) \in Nat
      /\ w.items[i] \in ItemRecords /\ Len(w.items) <= MaxItems
  BY DEF Wires
<1>2. /\ it \in ItemRecords /\ it.kind = w.items[i].kind
      /\ it.brought = w.items[i].brought
      /\ it.sent = w.items[i].sent + 1 /\ it.open = w.items[i].open
  BY <1>1 DEF ItemRecords
<1>. HIDE DEF it
<1>3. /\ its \in Seq(ItemRecords) /\ Len(its) = Len(w.items) /\ its[i] = it
      /\ \A j \in 1 .. Len(w.items) \ {i} : its[j] = w.items[j]
  BY <1>1, <1>2, ExceptSeq
<1>4. Grow(w, i) = [w EXCEPT !.items = its]
  BY <1>1 DEF Grow, it
<1>. HIDE DEF its
<1>. QED
  BY <1>1, <1>2, <1>3, <1>4 DEF Wires

LEMMA CloseItem ==
  ASSUME NEW w \in Wires, NEW i \in 1 .. Len(w.items)
  PROVE  LET v == Close(w, i)
         IN /\ v \in Wires /\ v.stopped = w.stopped
            /\ Len(v.items) = Len(w.items)
            /\ v.items[i].kind = w.items[i].kind
            /\ v.items[i].brought = w.items[i].brought
            /\ v.items[i].sent = w.items[i].sent /\ v.items[i].open = FALSE
            /\ \A j \in 1 .. Len(w.items) \ {i} : v.items[j] = w.items[j]
<1>. DEFINE it == [w.items[i] EXCEPT !.open = FALSE]
            its == [w.items EXCEPT ![i] = it]
<1>1. /\ w \in [items : Seq(ItemRecords), stopped : BOOLEAN]
      /\ w.items \in Seq(ItemRecords) /\ Len(w.items) \in Nat
      /\ w.items[i] \in ItemRecords /\ Len(w.items) <= MaxItems
  BY DEF Wires
<1>2. /\ it \in ItemRecords /\ it.kind = w.items[i].kind
      /\ it.brought = w.items[i].brought
      /\ it.sent = w.items[i].sent /\ it.open = FALSE
  BY <1>1 DEF ItemRecords
<1>. HIDE DEF it
<1>3. /\ its \in Seq(ItemRecords) /\ Len(its) = Len(w.items) /\ its[i] = it
      /\ \A j \in 1 .. Len(w.items) \ {i} : its[j] = w.items[j]
  BY <1>1, <1>2, ExceptSeq
<1>4. Close(w, i) = [w EXCEPT !.items = its]
  BY <1>1 DEF Close, it
<1>. HIDE DEF its
<1>. QED
  BY <1>1, <1>2, <1>3, <1>4 DEF Wires

LEMMA StopWire ==
  ASSUME NEW w \in Wires
  PROVE  Stop(w) \in Wires /\ Stop(w).items = w.items /\ Stop(w).stopped = TRUE
BY DEF Stop, Wires

-----------------------------------------------------------------------------
(* The fragments of a block                                                *)

LEMMA FragmentsFinite ==
  ASSUME NEW parts \in Seq(Int)
  PROVE  IsFiniteSet(FragmentsOf(parts)) /\ Cardinality(FragmentsOf(parts)) \in Nat
<1>1. Len(parts) \in Nat
  OBVIOUS
<1>2. IsFiniteSet(1 .. Len(parts))
  BY <1>1, FS_Interval
<1>3. FragmentsOf(parts) \in SUBSET (1 .. Len(parts))
  BY DEF FragmentsOf
<1>4. IsFiniteSet(FragmentsOf(parts))
  BY <1>2, <1>3, FS_Subset
<1>. QED
  BY <1>4, FS_CardinalityType

\* The fragments after one more part.
LEMMA OneMore ==
  ASSUME NEW parts \in Seq(Int), NEW x \in Int
  PROVE  FragmentsOf(Append(parts, x)) =
           FragmentsOf(parts) \cup (IF x = Separator THEN {} ELSE {Len(parts) + 1})
<1>. DEFINE q == Append(parts, x)
            n == Len(parts) + 1
<1>1. /\ Len(parts) \in Nat /\ Len(q) = n /\ q[n] = x
      /\ \A k \in 1 .. Len(parts) : q[k] = parts[k]
  BY AppendProperties
<1>. HIDE DEF q
<1>2. \A k : k \in 1 .. n <=> k \in 1 .. Len(parts) \/ k = n
  BY <1>1
<1>3. \A k \in 1 .. Len(parts) : k # n
  BY <1>1
<1>. HIDE DEF n
<1>4. FragmentsOf(q) = FragmentsOf(parts) \cup (IF x = Separator THEN {} ELSE {n})
  BY <1>1, <1>2, <1>3 DEF FragmentsOf
<1>. QED
  BY <1>4 DEF q, n

\* A fragment of the item makes one more.
LEMMA FragmentCounts ==
  ASSUME NEW parts \in Seq(Int), NEW x \in Int \ {Separator}
  PROVE  Cardinality(FragmentsOf(Append(parts, x))) =
           Cardinality(FragmentsOf(parts)) + 1
<1>1. IsFiniteSet(FragmentsOf(parts))
  BY FragmentsFinite
<1>2. FragmentsOf(Append(parts, x)) = FragmentsOf(parts) \cup {Len(parts) + 1}
  BY OneMore
<1>3. Len(parts) + 1 \notin FragmentsOf(parts)
  BY DEF FragmentsOf
<1>. QED
  BY <1>1, <1>2, <1>3, FS_AddElement

LEMMA BearsNew ==
  ASSUME NEW kind \in Kinds, NEW i
  PROVE  Bears(Block(kind), Item(kind), i)
<1>. DEFINE b == Block(kind)
            it == Item(kind)
<1>1. /\ b.kind = kind /\ b.lead = 0 /\ b.parts = <<>>
      /\ it.kind = kind /\ it.brought = FALSE /\ it.sent = 0
  BY DEF Block, Item
<1>2. FragmentsOf(<<>>) = {} /\ 1 .. Len(<<>>) = {}
  BY DEF FragmentsOf
<1>3. Cardinality({}) = 0
  BY FS_EmptySet
<1>. HIDE DEF b, it
<1>4. Bears(b, it, i)
  BY <1>1, <1>2, <1>3 DEF Bears, Leads
<1>. QED
  BY <1>4 DEF b, it

LEMMA BearsMore ==
  ASSUME NEW block \in Blocks, NEW item, NEW i \in Nat \ {0}, Bears(block, item, i),
         NEW b, NEW it,
         b.kind = block.kind, b.lead = block.lead, b.parts = Append(block.parts, i),
         it.kind = item.kind, it.brought = item.brought, it.open = item.open,
         it.sent = item.sent + 1
  PROVE  Bears(b, it, i)
<1>1. block.parts \in Seq(Int) /\ Len(block.parts) \in Nat
  BY DEF Blocks
<1>2. i \in Int \ {Separator}
  BY DEF Separator
<1>. DEFINE q == Append(block.parts, i)
            n == Len(block.parts) + 1
<1>3. /\ Len(q) = n /\ q[n] = i
      /\ \A k \in 1 .. Len(block.parts) : q[k] = block.parts[k]
  BY <1>1, <1>2, AppendProperties
<1>4. FragmentsOf(q) = FragmentsOf(block.parts) \cup {n}
  BY <1>1, <1>2, OneMore
<1>5. Cardinality(FragmentsOf(q)) = item.sent + 1
  BY <1>1, <1>2, FragmentCounts DEF Bears
<1>6. 1 .. n = (1 .. Len(block.parts)) \cup {n}
  BY <1>1
<1>7. FragmentsOf(block.parts) \subseteq 1 .. Len(block.parts)
  BY DEF FragmentsOf
<1>. HIDE DEF q, n
<1>8. \A k \in FragmentsOf(q) : q[k] = i
  BY <1>3, <1>4, <1>7 DEF Bears
<1>9. block.kind # "thinking" => FragmentsOf(q) = 1 .. Len(q)
  BY <1>3, <1>4, <1>6 DEF Bears
<1>10. b.parts = q
  BY DEF q
<1>. QED
  BY <1>5, <1>8, <1>9, <1>10 DEF Bears, Leads

LEMMA BearsSeparated ==
  ASSUME NEW block \in Blocks, NEW item, NEW i, Bears(block, item, i),
         block.kind = "thinking", NEW b,
         b.kind = block.kind, b.lead = block.lead,
         b.parts = Append(block.parts, Separator)
  PROVE  Bears(b, item, i)
<1>1. block.parts \in Seq(Int) /\ Len(block.parts) \in Nat
  BY DEF Blocks
<1>2. Separator \in Int
  BY DEF Separator
<1>. DEFINE q == Append(block.parts, Separator)
<1>3. \A k \in 1 .. Len(block.parts) : q[k] = block.parts[k]
  BY <1>1, <1>2, AppendProperties
<1>4. FragmentsOf(q) = FragmentsOf(block.parts)
  BY <1>1, <1>2, OneMore
<1>5. FragmentsOf(block.parts) \subseteq 1 .. Len(block.parts)
  BY DEF FragmentsOf
<1>6. b.parts = q
  OBVIOUS
<1>. HIDE DEF q
<1>7. \A k \in FragmentsOf(q) : q[k] = i
  BY <1>3, <1>4, <1>5 DEF Bears
<1>. QED
  BY <1>4, <1>6, <1>7 DEF Bears

\* The item as a whole.
LEMMA BearsWhole ==
  ASSUME NEW b, NEW it, it.sent \in Nat, NEW i \in Nat \ {0},
         b.kind = it.kind, Leads(b.lead, it, i), b.parts = [k \in 1 .. it.sent |-> i]
  PROVE  Bears(b, it, i)
<1>. DEFINE n == it.sent
            q == [k \in 1 .. n |-> i]
<1>1. q \in Seq(Int) /\ Len(q) = n
  BY IsASeq
<1>2. FragmentsOf(q) = 1 .. n
  BY <1>1 DEF FragmentsOf, Separator
<1>3. Cardinality(1 .. n) = n
  <2>1. Cardinality(1 .. n) = IF 1 > n THEN 0 ELSE n - 1 + 1
    BY FS_Interval, SMTT(30)
  <2>. QED
    BY <2>1
<1>4. \A k \in 1 .. n : q[k] = i
  OBVIOUS
<1>5. b.parts = q
  OBVIOUS
<1>. HIDE DEF q, n
<1>. QED
  BY <1>1, <1>2, <1>3, <1>4, <1>5 DEF Bears, n

\* What is neither a thought nor in parts is its fragments.
LEMMA BearsAlone ==
  ASSUME NEW block \in Blocks, NEW item, NEW i, Bears(block, item, i),
         block.kind # "thinking"
  PROVE  /\ Len(block.parts) = item.sent
         /\ \A k \in 1 .. item.sent : block.parts[k] = i
<1>1. block.parts \in Seq(Int) /\ Len(block.parts) \in Nat
      /\ DOMAIN block.parts = 1 .. Len(block.parts)
  BY DEF Blocks
<1>2. FragmentsOf(block.parts) = 1 .. Len(block.parts)
  BY DEF Bears
<1>3. Cardinality(1 .. Len(block.parts)) = Len(block.parts)
  <2>1. Cardinality(1 .. Len(block.parts)) =
          IF 1 > Len(block.parts) THEN 0 ELSE Len(block.parts) - 1 + 1
    BY <1>1, FS_Interval, SMTT(30)
  <2>. QED
    BY <1>1, <2>1
<1>4. item.sent = Len(block.parts)
  BY <1>2, <1>3 DEF Bears
<1>5. \A k \in 1 .. Len(block.parts) : block.parts[k] = i
  BY <1>2 DEF Bears
<1>. QED
  BY <1>4, <1>5

-----------------------------------------------------------------------------
(* The events                                                              *)

LEMMA StepsSame ==
  ASSUME NEW o, NEW p, p.shown = o.shown, o.started => p.started,
         o.shown \in Seq(ShownBlocks)
  PROVE  Steps(o, p)
<1>1. ASSUME NEW i \in 1 .. Len(o.shown)
      PROVE  Len(o.shown[i].parts) \in Nat
  <2>1. o.shown[i] \in ShownBlocks
    OBVIOUS
  <2>. QED
    BY <2>1 DEF ShownBlocks
<1>2. Len(o.shown) \in Nat
  OBVIOUS
<1>. QED
  BY <1>1, <1>2 DEF Steps, Goes

LEMMA StepsOn ==
  ASSUME NEW o, NEW p, NEW q, Steps(o, p), Steps(p, q),
         o.shown \in Seq(ShownBlocks), p.shown \in Seq(ShownBlocks),
         q.shown \in Seq(ShownBlocks)
  PROVE  Steps(o, q)
<1>1. Len(o.shown) \in Nat /\ Len(p.shown) \in Nat /\ Len(q.shown) \in Nat
  OBVIOUS
<1>2. /\ o.started => q.started
      /\ Len(o.shown) <= Len(p.shown) /\ Len(p.shown) <= Len(q.shown)
  BY DEF Steps
<1>3. ASSUME NEW i \in 1 .. Len(o.shown)
      PROVE  Goes(o.shown[i], q.shown[i])
  <2>1. i \in 1 .. Len(p.shown) /\ i \in 1 .. Len(q.shown)
    BY <1>1, <1>2
  <2>. DEFINE a == o.shown[i]
              b == p.shown[i]
              c == q.shown[i]
  <2>2. Goes(a, b) /\ Goes(b, c)
    BY <2>1 DEF Steps
  <2>3. a \in ShownBlocks /\ b \in ShownBlocks /\ c \in ShownBlocks
    BY <2>1
  <2>. HIDE DEF a, b, c
  <2>8. Len(a.parts) \in Nat /\ Len(b.parts) \in Nat /\ Len(c.parts) \in Nat
    BY <2>3 DEF ShownBlocks
  <2>4. c.kind = a.kind
    BY <2>2 DEF Goes
  <2>5. ~a.open => c = a
    BY <2>2 DEF Goes
  <2>6. ASSUME c.open
        PROVE  /\ c.lead = a.lead
               /\ Len(a.parts) <= Len(c.parts)
               /\ \A k \in 1 .. Len(a.parts) : c.parts[k] = a.parts[k]
    <3>1. b.open
      BY <2>2, <2>6 DEF Goes
    <3>2. /\ b.lead = a.lead /\ c.lead = b.lead
          /\ Len(a.parts) <= Len(b.parts) /\ Len(b.parts) <= Len(c.parts)
          /\ \A k \in 1 .. Len(a.parts) : b.parts[k] = a.parts[k]
          /\ \A k \in 1 .. Len(b.parts) : c.parts[k] = b.parts[k]
      BY <2>2, <2>6, <3>1 DEF Goes
    <3>3. \A k \in 1 .. Len(a.parts) : k \in 1 .. Len(b.parts)
      BY <2>8, <3>2
    <3>. QED
      BY <2>8, <3>2, <3>3
  <2>7. Goes(a, c)
    BY <2>4, <2>5, <2>6 DEF Goes
  <2>. QED
    BY <2>7 DEF a, c
<1>. QED
  BY <1>1, <1>2, <1>3 DEF Steps

\* One event after another.
LEMMA FollowsOn ==
  ASSUME NEW o, NEW p, NEW q, NEW v, NEW w,
         Told(o), Follows(o, p, v), Follows(p, q, w)
  PROVE  Follows(o, q, w)
<1>1. /\ o.shown \in Seq(ShownBlocks) /\ p.shown \in Seq(ShownBlocks)
      /\ q.shown \in Seq(ShownBlocks)
  BY DEF Told, Streams, Follows, Agree
<1>. QED
  BY <1>1, StepsOn DEF Follows

\* No event at all.
LEMMA NothingFollows ==
  ASSUME NEW o, NEW w, Agree(o, w)
  PROVE  Follows(o, o, w)
BY StepsSame DEF Follows, Agree, Told, Streams

LEMMA StartFollows ==
  ASSUME NEW o, NEW w, Agree(o, w), ~o.started
  PROVE  Follows(o, PushStart(o), w) /\ PushStart(o).started
<1>. DEFINE p == PushStart(o)
<1>1. o \in Streams /\ o.outcome = "none"
  BY DEF Agree, Told
<1>2. p = [o EXCEPT !.started = TRUE, !.broken = FALSE]
  BY <1>1 DEF PushStart, Push, Streams
<1>3. /\ p \in Streams /\ p.blocks = o.blocks /\ p.shown = o.shown
      /\ p.started = TRUE /\ p.outcome = "none"
  BY <1>1, <1>2 DEF Streams
<1>. HIDE DEF p
<1>4. Told(p) /\ Tells(p, w) /\ OpenAlike(p, w)
  BY <1>3 DEF Agree, Told, Tells, OpenAlike
<1>5. o.shown \in Seq(ShownBlocks)
  BY <1>1 DEF Streams
<1>6. Steps(o, p)
  BY <1>3, <1>5, StepsSame
<1>7. Follows(o, p, w) /\ p.started
  BY <1>3, <1>4, <1>6 DEF Follows, Agree
<1>. QED
  BY <1>7 DEF p

\* The agreement, taken apart.
LEMMA AgreeFacts ==
  ASSUME NEW o, NEW w, Agree(o, w)
  PROVE  LET m == Len(o.blocks)
         IN /\ o \in Streams /\ ~o.broken /\ o.outcome = "none"
            /\ o.blocks \in Seq(Blocks) /\ o.shown \in Seq(ShownBlocks)
            /\ m \in Nat /\ Len(o.shown) = m /\ Len(w.items) = m
            /\ w \in Wires
            /\ \A i \in 1 .. m : /\ o.shown[i].kind = o.blocks[i].kind
                                 /\ o.shown[i].parts = o.blocks[i].parts
                                 /\ ~o.shown[i].open => o.shown[i].lead = o.blocks[i].lead
                                 /\ Bears(o.blocks[i], w.items[i], i)
                                 /\ o.shown[i].open = w.items[i].open
<1>1. o \in Streams /\ o.outcome = "none" /\ w \in Wires
  BY DEF Agree, Told
<1>2. ~o.broken /\ o.blocks \in Seq(Blocks) /\ o.shown \in Seq(ShownBlocks)
  BY <1>1 DEF Streams
<1>7. Len(o.blocks) \in Nat
  BY <1>2
<1>3. Len(o.shown) = Len(o.blocks) /\ Len(w.items) = Len(o.blocks)
  BY DEF Agree, Told, Tells
<1>4. \A i \in 1 .. Len(o.blocks) :
        /\ o.shown[i].kind = o.blocks[i].kind /\ o.shown[i].parts = o.blocks[i].parts
        /\ ~o.shown[i].open => o.shown[i].lead = o.blocks[i].lead
  BY DEF Agree, Told
<1>5. \A i \in 1 .. Len(o.blocks) : Bears(o.blocks[i], w.items[i], i)
  BY <1>3 DEF Agree, Tells
<1>6. \A i \in 1 .. Len(o.blocks) : o.shown[i].open = w.items[i].open
  BY <1>3 DEF Agree, OpenAlike
<1>. QED
  BY <1>1, <1>2, <1>3, <1>4, <1>5, <1>6, <1>7

OpenShown(kind) == [kind |-> kind, lead |-> 0, parts |-> <<>>, open |-> TRUE]

\* An item begins, as v has it: its block is shown.
LEMMA BlockBegins ==
  ASSUME NEW o, NEW w, Agree(o, w), o.started, NEW kind \in Kinds,
         NEW v \in Wires, Len(v.items) = Len(w.items) + 1,
         \A i \in 1 .. Len(w.items) : v.items[i] = w.items[i],
         v.items[Len(w.items) + 1].open,
         Bears(Block(kind), v.items[Len(w.items) + 1], Len(w.items) + 1)
  PROVE  Follows(o, AddBlock(o, kind), v)
<1>. DEFINE bs == Append(o.blocks, Block(kind))
            ss == Append(o.shown, OpenShown(kind))
            p == [o EXCEPT !.blocks = bs]
            q == AddBlock(o, kind)
            m == Len(o.blocks)
            n == m + 1
<1>1. /\ o \in Streams /\ ~o.broken /\ o.outcome = "none"
      /\ o.blocks \in Seq(Blocks) /\ o.shown \in Seq(ShownBlocks)
      /\ m \in Nat /\ Len(o.shown) = m /\ Len(w.items) = m
      /\ w \in Wires
      /\ \A i \in 1 .. m : /\ o.shown[i].kind = o.blocks[i].kind
                           /\ o.shown[i].parts = o.blocks[i].parts
                           /\ ~o.shown[i].open => o.shown[i].lead = o.blocks[i].lead
                           /\ Bears(o.blocks[i], w.items[i], i)
                           /\ o.shown[i].open = w.items[i].open
  BY AgreeFacts
<1>2. Block(kind) \in Blocks /\ OpenShown(kind) \in ShownBlocks
  BY DEF Block, Blocks, OpenShown, ShownBlocks
<1>3. /\ bs \in Seq(Blocks) /\ Len(bs) = n /\ bs[n] = Block(kind)
      /\ \A i \in 1 .. m : bs[i] = o.blocks[i]
  BY <1>1, <1>2, AppendProperties
<1>4. /\ ss \in Seq(ShownBlocks) /\ Len(ss) = n /\ ss[n] = OpenShown(kind)
      /\ \A i \in 1 .. m : ss[i] = o.shown[i]
  <2>1. /\ ss \in Seq(ShownBlocks) /\ Len(ss) = Len(o.shown) + 1
        /\ ss[Len(o.shown) + 1] = OpenShown(kind)
        /\ \A i \in 1 .. Len(o.shown) : ss[i] = o.shown[i]
    <3>1. o.shown \in Seq(ShownBlocks)
      BY <1>1
    <3>. QED
      BY <1>2, <3>1, AppendProperties
  <2>. QED
    BY <1>1, <2>1
<1>5. /\ v \in Wires /\ Len(v.items) = n /\ v.items[n].open
      /\ \A i \in 1 .. m : v.items[i] = w.items[i]
      /\ Bears(Block(kind), v.items[n], n)
  BY <1>1
<1>. HIDE DEF bs, ss
<1>6. /\ p \in Streams /\ p.blocks = bs /\ p.shown = o.shown
      /\ p.started = o.started /\ p.broken = FALSE /\ p.outcome = "none"
  BY <1>1, <1>3 DEF Streams
<1>7. p.blocks[n].kind = kind
  BY <1>3, <1>6 DEF Block
<1>8. q = [p EXCEPT !.shown = ss, !.broken = FALSE]
  <2>1. q = [p EXCEPT !.shown = Append(p.shown, [kind |-> p.blocks[n].kind, lead |-> 0,
                                               parts |-> <<>>, open |-> TRUE]),
                      !.broken = p.broken \/ ~p.started \/ n # Len(p.shown) + 1]
    BY <1>6 DEF AddBlock, PushBlockStart, Push, bs
  <2>2. Append(p.shown, [kind |-> p.blocks[n].kind, lead |-> 0,
                         parts |-> <<>>, open |-> TRUE]) = ss
    BY <1>6, <1>7 DEF ss, OpenShown
  <2>3. (p.broken \/ ~p.started \/ n # Len(p.shown) + 1) = FALSE
    BY <1>1, <1>6
  <2>. QED
    BY <2>1, <2>2, <2>3
<1>. HIDE DEF p, q
<1>9. /\ q \in Streams /\ q.blocks = bs /\ q.shown = ss
      /\ q.started = o.started /\ q.outcome = "none"
  BY <1>4, <1>6, <1>8 DEF Streams
<1>10. \A i \in 1 .. n : i \in 1 .. m \/ i = n
  BY <1>1
<1>11. ss[n].kind = kind /\ ss[n].parts = <<>> /\ ss[n].open = TRUE
  BY <1>4 DEF OpenShown
<1>12. bs[n].kind = kind /\ bs[n].parts = <<>>
  BY <1>3 DEF Block
<1>13. v.items[n].open = TRUE
  <2>1. v.items[n] \in ItemRecords
    BY <1>1, <1>5 DEF Wires
  <2>. QED
    BY <1>5, <2>1 DEF ItemRecords
<1>. HIDE DEF n
<1>14. Told(q)
  BY <1>1, <1>3, <1>4, <1>9, <1>10, <1>11, <1>12 DEF Told
<1>15. Tells(q, v)
  <2>1. Bears(bs[n], v.items[n], n)
    BY <1>3, <1>5
  <2>2. \A i \in 1 .. m : Bears(bs[i], v.items[i], i)
    BY <1>1, <1>3, <1>5
  <2>. QED
    BY <1>3, <1>5, <1>9, <1>10, <2>1, <2>2 DEF Tells
<1>16. OpenAlike(q, v)
  <2>1. q.shown[n].open = v.items[n].open
    BY <1>9, <1>11, <1>13
  <2>2. \A i \in 1 .. m : q.shown[i].open = v.items[i].open
    BY <1>1, <1>4, <1>5, <1>9
  <2>. QED
    BY <1>5, <1>10, <2>1, <2>2 DEF OpenAlike
<1>17. Steps(o, q)
  <2>1. \A i \in 1 .. m : Goes(o.shown[i], q.shown[i])
    <3>1. \A i \in 1 .. m : Len(o.shown[i].parts) \in Nat
      BY <1>1, SMTT(30) DEF ShownBlocks
    <3>. QED
      BY <1>4, <1>9, <3>1 DEF Goes
  <2>. QED
    BY <1>1, <1>4, <1>9, <2>1 DEF Steps, n
<1>18. Follows(o, q, v)
  BY <1>5, <1>9, <1>14, <1>15, <1>16, <1>17 DEF Follows, Agree
<1>. QED
  BY <1>18 DEF q

LEMMA BlockFollows ==
  ASSUME NEW o, NEW w, Agree(o, w), o.started,
         NEW kind \in Kinds, Len(w.items) < MaxItems
  PROVE  Follows(o, AddBlock(o, kind), WithItem(w, kind))
<1>. DEFINE v == WithItem(w, kind)
            n == Len(w.items) + 1
<1>1. /\ v \in Wires /\ Len(v.items) = n /\ v.items[n] = Item(kind)
      /\ \A i \in 1 .. Len(w.items) : v.items[i] = w.items[i]
  BY AddItem DEF Agree
<1>. HIDE DEF v
<1>2. Bears(Block(kind), v.items[n], n)
  BY <1>1, BearsNew
<1>3. v.items[n].open
  BY <1>1 DEF Item
<1>4. Follows(o, AddBlock(o, kind), v)
  BY <1>1, <1>2, <1>3, BlockBegins
<1>. QED
  BY <1>4 DEF v

\* A block begins with what the start of its item brought, or with nothing.
LEMMA LeadFollows ==
  ASSUME NEW o, NEW w, Agree(o, w), NEW i \in 1 .. Len(w.items), w.items[i].open,
         NEW lead \in Nat,
         NEW v \in Wires, Len(v.items) = Len(w.items),
         \A j \in 1 .. Len(w.items) \ {i} : v.items[j] = w.items[j],
         v.items[i].kind = w.items[i].kind, v.items[i].sent = w.items[i].sent,
         v.items[i].open = w.items[i].open, Leads(lead, v.items[i], i)
  PROVE  /\ Follows(o, LedBy(o, i, lead), v)
         /\ LedBy(o, i, lead).blocks[i].lead = lead
<1>. DEFINE b == [o.blocks[i] EXCEPT !.lead = lead]
            bs == [o.blocks EXCEPT ![i] = b]
            q == LedBy(o, i, lead)
            m == Len(o.blocks)
<1>1. /\ o \in Streams /\ ~o.broken /\ o.outcome = "none"
      /\ o.blocks \in Seq(Blocks) /\ o.shown \in Seq(ShownBlocks)
      /\ m \in Nat /\ Len(o.shown) = m /\ Len(w.items) = m
      /\ w \in Wires
      /\ \A j \in 1 .. m : /\ o.shown[j].kind = o.blocks[j].kind
                           /\ o.shown[j].parts = o.blocks[j].parts
                           /\ ~o.shown[j].open => o.shown[j].lead = o.blocks[j].lead
                           /\ Bears(o.blocks[j], w.items[j], j)
                           /\ o.shown[j].open = w.items[j].open
  BY AgreeFacts
<1>2. i \in 1 .. m /\ o.blocks[i] \in Blocks
  <2>1. i \in 1 .. m
    BY <1>1
  <2>. QED
    BY <1>1, <2>1
<1>3. /\ b \in Blocks /\ b.kind = o.blocks[i].kind /\ b.lead = lead
      /\ b.parts = o.blocks[i].parts
  BY <1>2 DEF Blocks
<1>4. /\ bs \in Seq(Blocks) /\ Len(bs) = m /\ bs[i] = b
      /\ \A j \in 1 .. m \ {i} : bs[j] = o.blocks[j]
  <2>. HIDE DEF b
  <2>. QED
    BY <1>1, <1>2, <1>3, ExceptSeq
<1>5. q = [o EXCEPT !.blocks = bs]
  BY <1>1, <1>2 DEF LedBy, Streams, Blocks
<1>. HIDE DEF b, bs, q
<1>6. /\ q \in Streams /\ q.blocks = bs /\ q.shown = o.shown
      /\ q.started = o.started /\ q.outcome = "none"
  BY <1>1, <1>4, <1>5 DEF Streams
<1>7. \A j \in 1 .. m : j = i \/ j \in 1 .. m \ {i}
  OBVIOUS
<1>8. o.shown[i].open /\ Bears(o.blocks[i], w.items[i], i)
  BY <1>1, <1>2
<1>9. Told(q)
  <2>1. ASSUME NEW j \in 1 .. m
        PROVE  /\ o.shown[j].kind = bs[j].kind /\ o.shown[j].parts = bs[j].parts
               /\ ~o.shown[j].open => o.shown[j].lead = bs[j].lead
    <3>1. CASE j = i
      BY <1>1, <1>3, <1>4, <1>8, <3>1
    <3>2. CASE j \in 1 .. m \ {i}
      BY <1>1, <1>4, <3>2
    <3>. QED
      BY <1>7, <3>1, <3>2
  <2>2. m > 0 => o.started
    BY <1>1 DEF Agree, Told
  <2>. QED
    BY <1>1, <1>4, <1>6, <2>1, <2>2 DEF Told
<1>10. Tells(q, v)
  <2>1. Bears(b, v.items[i], i)
    BY <1>3, <1>8 DEF Bears
  <2>2. \A j \in 1 .. m \ {i} : Bears(bs[j], v.items[j], j)
    BY <1>1, <1>4
  <2>. QED
    BY <1>1, <1>4, <1>6, <1>7, <2>1, <2>2 DEF Tells
<1>11. OpenAlike(q, v)
  <2>1. q.shown[i].open = v.items[i].open
    BY <1>1, <1>2, <1>6
  <2>2. \A j \in 1 .. m \ {i} : q.shown[j].open = v.items[j].open
    BY <1>1, <1>6
  <2>. QED
    BY <1>1, <1>7, <2>1, <2>2 DEF OpenAlike
<1>12. Steps(o, q)
  BY <1>1, <1>6, StepsSame
<1>13. Follows(o, q, v)
  BY <1>6, <1>9, <1>10, <1>11, <1>12 DEF Follows, Agree
<1>14. q.blocks[i].lead = lead
  BY <1>3, <1>4, <1>6
<1>. QED
  BY <1>13, <1>14 DEF q


\* A part for an open block.
LEMMA PartFollows ==
  ASSUME NEW o, NEW w, Agree(o, w), NEW i \in 1 .. Len(w.items), w.items[i].open,
         NEW kind, w.items[i].kind = kind, NEW x \in Int,
         NEW v \in Wires, Len(v.items) = Len(w.items),
         \A j \in 1 .. Len(w.items) \ {i} : v.items[j] = w.items[j],
         v.items[i].open = w.items[i].open,
         Bears([o.blocks[i] EXCEPT !.parts = Append(@, x)], v.items[i], i)
  PROVE  Follows(o, Extend(o, i, kind, x), v)
<1>. DEFINE b == [o.blocks[i] EXCEPT !.parts = Append(@, x)]
            s == [o.shown[i] EXCEPT !.parts = Append(@, x)]
            bs == [o.blocks EXCEPT ![i] = b]
            ss == [o.shown EXCEPT ![i] = s]
            p == [o EXCEPT !.blocks = bs]
            q == Extend(o, i, kind, x)
            m == Len(o.blocks)
<1>1. /\ o \in Streams /\ ~o.broken /\ o.outcome = "none"
      /\ o.blocks \in Seq(Blocks) /\ o.shown \in Seq(ShownBlocks)
      /\ m \in Nat /\ Len(o.shown) = m /\ Len(w.items) = m
      /\ w \in Wires
      /\ \A j \in 1 .. m : /\ o.shown[j].kind = o.blocks[j].kind
                           /\ o.shown[j].parts = o.blocks[j].parts
                           /\ ~o.shown[j].open => o.shown[j].lead = o.blocks[j].lead
                           /\ Bears(o.blocks[j], w.items[j], j)
                           /\ o.shown[j].open = w.items[j].open
  BY AgreeFacts
<1>2. /\ i \in 1 .. m /\ o.blocks[i] \in Blocks /\ o.shown[i] \in ShownBlocks
      /\ o.shown[i].open = w.items[i].open
      /\ o.shown[i].kind = o.blocks[i].kind /\ o.shown[i].parts = o.blocks[i].parts
  <2>1. i \in 1 .. m
    BY <1>1
  <2>2. o.blocks[i] \in Blocks /\ o.shown[i] \in ShownBlocks
    BY <1>1, <2>1
  <2>. QED
    BY <1>1, <2>1, <2>2
<1>3. o.blocks[i].kind = kind
  BY <1>1, <1>2 DEF Bears
<1>4. /\ b \in Blocks /\ b.kind = kind /\ b.lead = o.blocks[i].lead
      /\ b.parts = Append(o.blocks[i].parts, x)
      /\ s \in ShownBlocks /\ s.kind = kind /\ s.lead = o.shown[i].lead
      /\ s.parts = b.parts
      /\ s.open = o.shown[i].open
  <2>. DEFINE ps == Append(o.blocks[i].parts, x)
  <2>1. ps \in Seq(Int)
    <3>1. o.blocks[i].parts \in Seq(Int)
      BY <1>2 DEF Blocks
    <3>. QED
      BY <3>1, AppendProperties
  <2>2. b = [o.blocks[i] EXCEPT !.parts = ps] /\ s = [o.shown[i] EXCEPT !.parts = ps]
    BY <1>2
  <2>. HIDE DEF ps, b, s
  <2>3. b \in Blocks /\ b.kind = kind /\ b.lead = o.blocks[i].lead /\ b.parts = ps
    BY <1>2, <1>3, <2>1, <2>2 DEF Blocks
  <2>4. /\ s \in ShownBlocks /\ s.kind = kind /\ s.lead = o.shown[i].lead
        /\ s.parts = ps
        /\ s.open = o.shown[i].open
    BY <1>2, <1>3, <2>1, <2>2 DEF ShownBlocks
  <2>. QED
    BY <2>3, <2>4 DEF ps
<1>5. /\ Len(o.shown[i].parts) <= Len(s.parts)
      /\ \A k \in 1 .. Len(o.shown[i].parts) : s.parts[k] = o.shown[i].parts[k]
  <2>1. o.shown[i].parts \in Seq(Int)
    BY <1>2 DEF ShownBlocks
  <2>2. s.parts = Append(o.shown[i].parts, x)
    BY <1>2, <1>4
  <2>. HIDE DEF s
  <2>. DEFINE old == o.shown[i].parts
              n == Len(old) + 1
  <2>3. /\ Len(Append(old, x)) = n
        /\ \A k \in 1 .. Len(old) : Append(old, x)[k] = old[k]
    BY <2>1, AppendProperties
  <2>4. Len(old) <= n
    BY <2>1
  <2>. QED
    BY <2>2, <2>3, <2>4
<1>. HIDE DEF b, s
<1>6. /\ bs \in Seq(Blocks) /\ Len(bs) = m /\ bs[i] = b
      /\ \A j \in 1 .. m \ {i} : bs[j] = o.blocks[j]
  BY <1>1, <1>2, <1>4, ExceptSeq
<1>7. /\ ss \in Seq(ShownBlocks) /\ Len(ss) = m /\ ss[i] = s
      /\ \A j \in 1 .. m \ {i} : ss[j] = o.shown[j]
  BY <1>1, <1>2, <1>4, ExceptSeq
<1>8. [o EXCEPT !.blocks[i].parts = Append(@, x)] = p
  BY <1>1, <1>2 DEF b, Streams, Blocks
<1>. HIDE DEF bs
<1>9. /\ p \in Streams /\ p.blocks = bs /\ p.shown = o.shown
      /\ p.started = o.started /\ p.broken = o.broken /\ p.outcome = "none"
  BY <1>1, <1>6 DEF Streams
<1>10. q = PushDelta(p, i, kind, x)
  BY <1>3, <1>8 DEF Extend
<1>. HIDE DEF p
<1>11. Takes(p, i, kind)
  BY <1>1, <1>2, <1>3, <1>9 DEF Takes
<1>12. PushDelta(p, i, kind, x) = [p EXCEPT !.shown[i].parts = Append(@, x)]
  BY <1>9, <1>11 DEF PushDelta, Push
<1>13. [p EXCEPT !.shown[i].parts = Append(@, x)] = [p EXCEPT !.shown = ss]
  BY <1>1, <1>2, <1>9 DEF s, Streams, ShownBlocks
<1>. HIDE DEF ss
<1>14. q = [p EXCEPT !.shown = ss]
  BY <1>10, <1>12, <1>13
<1>. HIDE DEF q
<1>15. /\ q \in Streams /\ q.blocks = bs /\ q.shown = ss
       /\ q.started = o.started /\ q.outcome = "none"
  BY <1>7, <1>9, <1>14 DEF Streams
<1>16. \A j \in 1 .. m : j = i \/ j \in 1 .. m \ {i}
  OBVIOUS
<1>17. Told(q)
  <2>1. ASSUME NEW j \in 1 .. m
        PROVE  /\ ss[j].kind = bs[j].kind /\ ss[j].parts = bs[j].parts
               /\ ~ss[j].open => ss[j].lead = bs[j].lead
    <3>1. CASE j = i
      BY <1>2, <1>4, <1>6, <1>7, <3>1
    <3>2. CASE j \in 1 .. m \ {i}
      BY <1>1, <1>6, <1>7, <3>2
    <3>. QED
      BY <1>16, <3>1, <3>2
  <2>2. m > 0 => o.started
    BY <1>1 DEF Agree, Told
  <2>. QED
    BY <1>6, <1>7, <1>15, <2>1, <2>2 DEF Told
<1>18. Tells(q, v)
  <2>1. Bears(b, v.items[i], i)
    BY DEF b
  <2>2. \A j \in 1 .. m \ {i} : Bears(bs[j], v.items[j], j)
    BY <1>1, <1>6
  <2>. QED
    BY <1>1, <1>6, <1>15, <1>16, <2>1, <2>2 DEF Tells
<1>19. OpenAlike(q, v)
  <2>1. q.shown[i].open = v.items[i].open
    BY <1>2, <1>4, <1>7, <1>15
  <2>2. \A j \in 1 .. m \ {i} : q.shown[j].open = v.items[j].open
    BY <1>1, <1>7, <1>15
  <2>. QED
    BY <1>1, <1>16, <2>1, <2>2 DEF OpenAlike
<1>20. Steps(o, q)
  <2>1. Goes(o.shown[i], q.shown[i])
    BY <1>2, <1>3, <1>4, <1>5, <1>7, <1>15 DEF Goes
  <2>2. \A j \in 1 .. m \ {i} : Goes(o.shown[j], q.shown[j])
    <3>1. ASSUME NEW j \in 1 .. m
          PROVE  Len(o.shown[j].parts) \in Nat
      <4>1. o.shown[j] \in ShownBlocks
        BY <1>1
      <4>. QED
        BY <4>1 DEF ShownBlocks
    <3>2. ASSUME NEW j \in 1 .. m \ {i}
          PROVE  Goes(o.shown[j], q.shown[j])
      <4>1. q.shown[j] = o.shown[j]
        BY <1>7, <1>15
      <4>2. Goes(o.shown[j], o.shown[j])
        BY <3>1 DEF Goes
      <4>. QED
        BY <4>1, <4>2
    <3>. QED
      BY <3>2
  <2>. QED
    BY <1>1, <1>7, <1>15, <1>16, <2>1, <2>2 DEF Steps
<1>21. Follows(o, q, v)
  BY <1>15, <1>17, <1>18, <1>19, <1>20 DEF Follows, Agree
<1>. QED
  BY <1>21 DEF q

\* A fragment of an item under way.
LEMMA FragmentFollows ==
  ASSUME NEW o, NEW w, Agree(o, w), NEW i \in 1 .. Len(w.items), w.items[i].open,
         NEW kind, w.items[i].kind = kind
  PROVE  Follows(o, Extend(o, i, kind, i), Grow(w, i))
<1>. DEFINE v == Grow(w, i)
<1>1. /\ v \in Wires /\ Len(v.items) = Len(w.items)
      /\ v.items[i].kind = w.items[i].kind /\ v.items[i].brought = w.items[i].brought
      /\ v.items[i].sent = w.items[i].sent + 1
      /\ v.items[i].open = w.items[i].open
      /\ \A j \in 1 .. Len(w.items) \ {i} : v.items[j] = w.items[j]
  BY GrowItem DEF Agree
<1>2. i \in Nat \ {0} /\ i \in Int
  BY DEF Agree, Wires
<1>3. o.blocks[i] \in Blocks /\ Bears(o.blocks[i], w.items[i], i)
  BY AgreeFacts
<1>. HIDE DEF v
<1>. DEFINE b == [o.blocks[i] EXCEPT !.parts = Append(@, i)]
<1>6. /\ b.kind = o.blocks[i].kind /\ b.lead = o.blocks[i].lead
      /\ b.parts = Append(o.blocks[i].parts, i)
  BY <1>3 DEF Blocks
<1>. HIDE DEF b
<1>4. Bears(b, v.items[i], i)
  <2>. DEFINE block == o.blocks[i]
              item == w.items[i]
              it == v.items[i]
  <2>1. /\ block \in Blocks /\ Bears(block, item, i)
        /\ b.kind = block.kind /\ b.lead = block.lead
        /\ b.parts = Append(block.parts, i)
        /\ it.kind = item.kind /\ it.brought = item.brought /\ it.open = item.open
        /\ it.sent = item.sent + 1
    BY <1>1, <1>3, <1>6
  <2>. HIDE DEF block, item, it
  <2>2. Bears(b, it, i)
    BY <1>2, <2>1, BearsMore
  <2>. QED
    BY <2>2 DEF it
<1>5. Follows(o, Extend(o, i, kind, i), v)
  BY <1>1, <1>2, <1>4, PartFollows DEF b
<1>. QED
  BY <1>5 DEF v

\* A separator between two parts of a thought.
LEMMA SeparatorFollows ==
  ASSUME NEW o, NEW w, Agree(o, w), NEW i \in 1 .. Len(w.items), w.items[i].open,
         w.items[i].kind = "thinking"
  PROVE  Follows(o, Extend(o, i, "thinking", Separator), w)
<1>1. w \in Wires
  BY DEF Agree
<1>2. o.blocks[i] \in Blocks /\ Bears(o.blocks[i], w.items[i], i)
  BY AgreeFacts
<1>3. o.blocks[i].kind = "thinking"
  BY <1>2 DEF Bears
<1>. DEFINE b == [o.blocks[i] EXCEPT !.parts = Append(@, Separator)]
<1>6. /\ b.kind = o.blocks[i].kind /\ b.lead = o.blocks[i].lead
      /\ b.parts = Append(o.blocks[i].parts, Separator)
  BY <1>2 DEF Blocks
<1>. HIDE DEF b
<1>4. Bears(b, w.items[i], i)
  <2>. DEFINE block == o.blocks[i]
              item == w.items[i]
  <2>1. /\ block \in Blocks /\ Bears(block, item, i) /\ block.kind = "thinking"
        /\ b.kind = block.kind /\ b.lead = block.lead
        /\ b.parts = Append(block.parts, Separator)
    BY <1>2, <1>3, <1>6
  <2>. HIDE DEF block, item
  <2>2. Bears(b, item, i)
    BY <2>1, BearsSeparated
  <2>. QED
    BY <2>2 DEF item
<1>5. Separator \in Int
  BY DEF Separator
<1>. QED
  BY <1>1, <1>4, <1>5, PartFollows DEF b

\* The end of an open block, which is then as it is given.
LEMMA LastFollows ==
  ASSUME NEW o, NEW w, Agree(o, w), NEW i \in 1 .. Len(w.items), w.items[i].open,
         NEW parts \in Seq(Int),
         NEW v \in Wires, Len(v.items) = Len(w.items),
         \A j \in 1 .. Len(w.items) \ {i} : v.items[j] = w.items[j],
         v.items[i].open = FALSE,
         Bears([o.blocks[i] EXCEPT !.parts = parts], v.items[i], i)
  PROVE  Follows(o, PushBlockEnd([o EXCEPT !.blocks[i].parts = parts], i), v)
<1>. DEFINE b == [o.blocks[i] EXCEPT !.parts = parts]
            s == AsEnded(o.shown[i], b)
            bs == [o.blocks EXCEPT ![i] = b]
            ss == [o.shown EXCEPT ![i] = s]
            p == [o EXCEPT !.blocks = bs]
            q == PushBlockEnd([o EXCEPT !.blocks[i].parts = parts], i)
            m == Len(o.blocks)
<1>1. /\ o \in Streams /\ ~o.broken /\ o.outcome = "none"
      /\ o.blocks \in Seq(Blocks) /\ o.shown \in Seq(ShownBlocks)
      /\ m \in Nat /\ Len(o.shown) = m /\ Len(w.items) = m
      /\ w \in Wires
      /\ \A j \in 1 .. m : /\ o.shown[j].kind = o.blocks[j].kind
                           /\ o.shown[j].parts = o.blocks[j].parts
                           /\ ~o.shown[j].open => o.shown[j].lead = o.blocks[j].lead
                           /\ Bears(o.blocks[j], w.items[j], j)
                           /\ o.shown[j].open = w.items[j].open
  BY AgreeFacts
<1>2. /\ i \in 1 .. m /\ o.blocks[i] \in Blocks /\ o.shown[i] \in ShownBlocks
      /\ o.shown[i].open = w.items[i].open
      /\ o.shown[i].kind = o.blocks[i].kind
  <2>1. i \in 1 .. m
    BY <1>1
  <2>2. o.blocks[i] \in Blocks /\ o.shown[i] \in ShownBlocks
    BY <1>1, <2>1
  <2>. QED
    BY <1>1, <2>1, <2>2
<1>3. /\ b \in Blocks /\ b.kind = o.blocks[i].kind /\ b.lead = o.blocks[i].lead
      /\ b.parts = parts
  BY <1>2 DEF Blocks
<1>4. /\ s \in ShownBlocks /\ s.kind = o.blocks[i].kind
      /\ s.lead = o.blocks[i].lead /\ s.parts = parts /\ s.open = FALSE
  <2>1. o.blocks[i].lead \in Nat
    BY <1>2 DEF Blocks
  <2>. HIDE DEF b
  <2>. QED
    BY <1>2, <1>3, <2>1 DEF AsEnded, ShownBlocks
<1>. HIDE DEF b
<1>6. /\ bs \in Seq(Blocks) /\ Len(bs) = m /\ bs[i] = b
      /\ \A j \in 1 .. m \ {i} : bs[j] = o.blocks[j]
  BY <1>1, <1>2, <1>3, ExceptSeq
<1>7. /\ ss \in Seq(ShownBlocks) /\ Len(ss) = m /\ ss[i] = s
      /\ \A j \in 1 .. m \ {i} : ss[j] = o.shown[j]
  <2>. HIDE DEF s
  <2>. QED
    BY <1>1, <1>2, <1>4, ExceptSeq
<1>8. [o EXCEPT !.blocks[i].parts = parts] = p
  BY <1>1, <1>2 DEF b, Streams, Blocks
<1>. HIDE DEF bs
<1>9. /\ p \in Streams /\ p.blocks = bs /\ p.shown = o.shown
      /\ p.started = o.started /\ p.broken = o.broken /\ p.outcome = "none"
  BY <1>1, <1>6 DEF Streams
<1>10. q = PushBlockEnd(p, i)
  BY <1>8
<1>. HIDE DEF p
<1>11. /\ p.blocks[i] = b /\ p.blocks[i].kind = o.shown[i].kind /\ p.blocks[i].lead = o.blocks[i].lead
       /\ p.blocks[i].parts = parts
  BY <1>2, <1>3, <1>6, <1>9
<1>12. Takes(p, i, p.blocks[i].kind)
  BY <1>1, <1>2, <1>9, <1>11 DEF Takes
<1>13. PushBlockEnd(p, i) =
         [p EXCEPT !.shown[i] = AsEnded(@, p.blocks[i])]
  BY <1>9, <1>12 DEF PushBlockEnd, Push
<1>14. [p EXCEPT !.shown[i] = AsEnded(@, p.blocks[i])] = [p EXCEPT !.shown = ss]
  BY <1>9, <1>11
<1>. HIDE DEF ss, s
<1>15. q = [p EXCEPT !.shown = ss]
  BY <1>10, <1>13, <1>14
<1>. HIDE DEF q
<1>16. /\ q \in Streams /\ q.blocks = bs /\ q.shown = ss
       /\ q.started = o.started /\ q.outcome = "none"
  BY <1>7, <1>9, <1>15 DEF Streams
<1>17. \A j \in 1 .. m : j = i \/ j \in 1 .. m \ {i}
  BY ZenonT(30)
<1>18. Told(q)
  <2>1. ASSUME NEW j \in 1 .. m
        PROVE  /\ ss[j].kind = bs[j].kind /\ ss[j].parts = bs[j].parts
               /\ ~ss[j].open => ss[j].lead = bs[j].lead
    <3>1. CASE j = i
      BY <1>3, <1>4, <1>6, <1>7, <3>1
    <3>2. CASE j \in 1 .. m \ {i}
      BY <1>1, <1>6, <1>7, <3>2
    <3>. QED
      BY <1>17, <3>1, <3>2
  <2>2. m > 0 => o.started
    BY <1>1 DEF Agree, Told
  <2>. QED
    BY <1>6, <1>7, <1>16, <2>1, <2>2 DEF Told
<1>19. Tells(q, v)
  <2>1. Bears(b, v.items[i], i)
    BY DEF b
  <2>2. \A j \in 1 .. m \ {i} : Bears(bs[j], v.items[j], j)
    BY <1>1, <1>6
  <2>. QED
    BY <1>1, <1>6, <1>16, <1>17, <2>1, <2>2 DEF Tells
<1>20. OpenAlike(q, v)
  <2>1. q.shown[i].open = v.items[i].open
    BY <1>4, <1>7, <1>16
  <2>2. \A j \in 1 .. m \ {i} : q.shown[j].open = v.items[j].open
    BY <1>1, <1>7, <1>16
  <2>. QED
    BY <1>1, <1>17, <2>1, <2>2 DEF OpenAlike
<1>21. Steps(o, q)
  <2>1. Goes(o.shown[i], q.shown[i])
    BY <1>2, <1>4, <1>7, <1>16 DEF Goes
  <2>2. \A j \in 1 .. m \ {i} : Goes(o.shown[j], q.shown[j])
    <3>1. \A j \in 1 .. m : Len(o.shown[j].parts) \in Nat
      BY <1>1, SMTT(30) DEF ShownBlocks
    <3>. QED
      BY <1>7, <1>16, <3>1, SMTT(30) DEF Goes
  <2>. QED
    BY <1>1, <1>7, <1>16, <1>17, <2>1, <2>2 DEF Steps
<1>22. Follows(o, q, v)
  BY <1>16, <1>18, <1>19, <1>20, <1>21 DEF Follows, Agree
<1>. QED
  BY <1>22 DEF q

\* An item that has been sent as it was streamed.
LEMMA EndFollows ==
  ASSUME NEW o, NEW w, Agree(o, w), NEW i \in 1 .. Len(w.items), w.items[i].open,
         api # "responses"
  PROVE  Follows(o, PushBlockEnd(o, i), Close(w, i))
<1>. DEFINE v == Close(w, i)
            parts == o.blocks[i].parts
            p == [o EXCEPT !.blocks[i].parts = parts]
<1>1. /\ v \in Wires /\ Len(v.items) = Len(w.items)
      /\ v.items[i].kind = w.items[i].kind /\ v.items[i].brought = w.items[i].brought
      /\ v.items[i].sent = w.items[i].sent /\ v.items[i].open = FALSE
      /\ \A j \in 1 .. Len(w.items) \ {i} : v.items[j] = w.items[j]
  BY CloseItem DEF Agree
<1>2. /\ o \in Streams /\ o.blocks \in Seq(Blocks) /\ i \in 1 .. Len(o.blocks)
      /\ Bears(o.blocks[i], w.items[i], i)
  BY AgreeFacts
<1>3. o.blocks[i] \in Blocks
  BY <1>2
<1>4. parts \in Seq(Int)
  BY <1>3 DEF Blocks
<1>. HIDE DEF v
<1>. DEFINE b == [o.blocks[i] EXCEPT !.parts = parts]
<1>8. /\ b.kind = o.blocks[i].kind /\ b.lead = o.blocks[i].lead
      /\ b.parts = o.blocks[i].parts
  BY <1>3 DEF Blocks
<1>. HIDE DEF b
<1>5. Bears(b, v.items[i], i)
  <2>1. Leads(b.lead, v.items[i], i)
    BY <1>1, <1>2, <1>8 DEF Bears, Leads
  <2>. QED
    BY <1>1, <1>2, <1>8, <2>1 DEF Bears
<1>6. p = o
  <2>1. p = [o EXCEPT !.blocks = [o.blocks EXCEPT
                        ![i] = [o.blocks[i] EXCEPT !.parts = o.blocks[i].parts]]]
    BY <1>2, <1>3 DEF Streams, Blocks
  <2>2. [o.blocks[i] EXCEPT !.parts = o.blocks[i].parts] = o.blocks[i]
    BY <1>3 DEF Blocks
  <2>3. [o.blocks EXCEPT ![i] = o.blocks[i]] = o.blocks
    <3>1. /\ [o.blocks EXCEPT ![i] = o.blocks[i]] \in Seq(Blocks)
          /\ Len([o.blocks EXCEPT ![i] = o.blocks[i]]) = Len(o.blocks)
          /\ \A j \in 1 .. Len(o.blocks) :
               [o.blocks EXCEPT ![i] = o.blocks[i]][j] = o.blocks[j]
      BY <1>2, <1>3, ExceptSeq
    <3>. QED
      BY <1>2, <3>1, SeqEqual
  <2>4. [o EXCEPT !.blocks = o.blocks] = o
    BY <1>2 DEF Streams
  <2>. QED
    BY <2>1, <2>2, <2>3, <2>4
<1>. HIDE DEF parts
<1>7. Follows(o, PushBlockEnd(p, i), v)
  BY <1>1, <1>4, <1>5, LastFollows DEF b
<1>. QED
  BY <1>6, <1>7 DEF v

\* An item that comes as a whole when it is done, with what was not streamed.
LEMMA WholeFollows ==
  ASSUME NEW o, NEW w, Agree(o, w), NEW i \in 1 .. Len(w.items), w.items[i].open,
         NEW v \in Wires, Len(v.items) = Len(w.items),
         \A j \in 1 .. Len(w.items) \ {i} : v.items[j] = w.items[j],
         v.items[i].open = FALSE, v.items[i].kind = w.items[i].kind,
         v.items[i].sent >= w.items[i].sent, Leads(o.blocks[i].lead, v.items[i], i)
  PROVE  Follows(o, PushBlockEnd(Replaced(o, i, Whole(i, v)), i), v)
<1>. DEFINE n == v.items[i].sent
            whole == [k \in 1 .. n |-> i]
            old == o.blocks[i].parts
            parts == IF whole = <<>> THEN old ELSE whole
<1>1. /\ o \in Streams /\ o.blocks \in Seq(Blocks) /\ i \in 1 .. Len(o.blocks)
      /\ Bears(o.blocks[i], w.items[i], i)
  BY AgreeFacts
<1>2. o.blocks[i] \in Blocks /\ old \in Seq(Int)
  <2>1. o.blocks[i] \in Blocks
    BY <1>1
  <2>. QED
    BY <2>1 DEF Blocks
<1>3. i \in Nat \ {0}
  BY DEF Agree, Wires
<1>4. n \in Nat /\ w.items[i].sent \in Nat
  <2>1. v.items[i] \in ItemRecords /\ w.items[i] \in ItemRecords
    BY DEF Wires, Agree
  <2>. QED
    BY <2>1 DEF ItemRecords
<1>5. whole \in Seq(Int) /\ Len(whole) = n
  BY <1>3, <1>4, IsASeq
<1>6. whole = <<>> => w.items[i].sent = n
  BY <1>4, <1>5
<1>7. parts \in Seq(Int)
  BY <1>2, <1>5
<1>. DEFINE b == [o.blocks[i] EXCEPT !.parts = parts]
<1>12. b.kind = o.blocks[i].kind /\ b.lead = o.blocks[i].lead /\ b.parts = parts
  <2>. HIDE DEF parts
  <2>. QED
    BY <1>2, <1>7 DEF Blocks
<1>. HIDE DEF b
<1>8. Bears(b, v.items[i], i)
  <2>1. b.kind = v.items[i].kind /\ Leads(b.lead, v.items[i], i)
    BY <1>1, <1>12 DEF Bears
  <2>2. CASE whole = <<>>
    <3>1. b.parts = old /\ v.items[i].sent = w.items[i].sent
      BY <1>6, <1>12, <2>2
    <3>. QED
      BY <1>1, <1>12, <2>1, <3>1 DEF Bears
  <2>3. CASE whole # <<>>
    <3>1. b.parts = whole
      BY <1>12, <2>3
    <3>. QED
      BY <1>3, <1>4, <2>1, <3>1, BearsWhole
  <2>. QED
    BY <2>2, <2>3
<1>9. Whole(i, v) = whole
  BY DEF Whole
<1>10. Replaced(o, i, Whole(i, v)) = [o EXCEPT !.blocks[i].parts = parts]
  BY <1>1, <1>2, <1>9 DEF Replaced, Streams, Blocks
<1>. HIDE DEF parts
<1>11. Follows(o, PushBlockEnd([o EXCEPT !.blocks[i].parts = parts], i), v)
  BY <1>7, <1>8, LastFollows DEF b
<1>. QED
  BY <1>10, <1>11

\* The arguments of a call are all its fragments.
LEMMA ArgumentsWhole ==
  ASSUME NEW o, NEW w, Agree(o, w), NEW i \in 1 .. Len(w.items),
         w.items[i].kind = "toolCall"
  PROVE  /\ o.blocks[i].parts = Whole(i, w)
         /\ Replaced(o, i, Whole(i, w)) = o
<1>. DEFINE n == w.items[i].sent
            old == o.blocks[i].parts
<1>1. /\ o.blocks \in Seq(Blocks) /\ i \in 1 .. Len(o.blocks)
      /\ Bears(o.blocks[i], w.items[i], i) /\ o \in Streams
  BY AgreeFacts
<1>2. o.blocks[i] \in Blocks /\ o.blocks[i].kind = "toolCall"
  BY <1>1 DEF Bears
<1>3. i \in Nat \ {0} /\ n \in Nat
  <2>1. w.items[i] \in ItemRecords /\ i \in Nat \ {0}
    BY DEF Wires, Agree
  <2>. QED
    BY <2>1 DEF ItemRecords
<1>4. old = [k \in 1 .. n |-> i]
  <2>. DEFINE b == o.blocks[i]
              m == w.items[i]
              ps == o.blocks[i].parts
  <2>1. b \in Blocks /\ Bears(b, m, i) /\ b.kind # "thinking"
    BY <1>1, <1>2
  <2>2. ps \in Seq(Int)
    BY <1>2 DEF Blocks
  <2>. HIDE DEF b, m
  <2>3. Len(b.parts) = m.sent /\ \A k \in 1 .. m.sent : b.parts[k] = i
    BY <2>1, BearsAlone
  <2>4. Len(ps) = n /\ \A k \in 1 .. n : ps[k] = i
    BY <2>3 DEF b, m
  <2>. HIDE DEF ps, n
  <2>5. ps = [k \in 1 .. Len(ps) |-> ps[k]]
    BY <2>2
  <2>. QED
    BY <2>4, <2>5 DEF ps
<1>5. old = Whole(i, w)
  BY <1>4 DEF Whole
<1>. DEFINE parts == IF Whole(i, w) = <<>> THEN old ELSE Whole(i, w)
<1>6. parts = old
  BY <1>5
<1>7. Replaced(o, i, Whole(i, w)) = [o EXCEPT !.blocks[i].parts = parts]
  BY <1>1, <1>2 DEF Replaced, Streams, Blocks
<1>. HIDE DEF parts, n
<1>8. [o EXCEPT !.blocks[i].parts = old] = o
  BY <1>1, <1>2 DEF Streams, Blocks
<1>. QED
  BY <1>5, <1>6, <1>7, <1>8

\* Arguments that come as a whole are those that were streamed and the rest.
LEMMA ArgumentsExtend ==
  ASSUME NEW o, NEW w, Agree(o, w), NEW i \in 1 .. Len(w.items), w.items[i].open,
         w.items[i].kind = "toolCall"
  PROVE  PushDelta(Replaced(o, i, Whole(i, Grow(w, i))), i, "toolCall", i) =
           Extend(o, i, "toolCall", i)
<1>. DEFINE n == w.items[i].sent
            old == o.blocks[i].parts
            whole == Whole(i, Grow(w, i))
<1>1. /\ o.blocks \in Seq(Blocks) /\ i \in 1 .. Len(o.blocks)
      /\ Bears(o.blocks[i], w.items[i], i) /\ o \in Streams
  BY AgreeFacts
<1>2. o.blocks[i] \in Blocks /\ o.blocks[i].kind = "toolCall"
  BY <1>1 DEF Bears
<1>3. i \in Nat \ {0} /\ n \in Nat
  <2>1. w.items[i] \in ItemRecords /\ i \in Nat \ {0}
    BY DEF Wires, Agree
  <2>. QED
    BY <2>1 DEF ItemRecords
<1>4. old = [k \in 1 .. n |-> i]
  BY ArgumentsWhole DEF Whole
<1>5. Grow(w, i).items[i].sent = n + 1
  BY GrowItem DEF Agree
<1>6. whole = [k \in 1 .. n + 1 |-> i]
  BY <1>5 DEF Whole
<1>. DEFINE now == [k \in 1 .. n |-> i]
            next == [k \in 1 .. n + 1 |-> i]
<1>7. now \in Seq(Int) /\ Len(now) = n /\ next \in Seq(Int) /\ Len(next) = n + 1
  BY <1>3, IsASeq
<1>8. Append(now, i) = next
  <2>1. /\ Append(now, i) \in Seq(Int) /\ Len(Append(now, i)) = n + 1
        /\ Append(now, i)[n + 1] = i
        /\ \A k \in 1 .. n : Append(now, i)[k] = now[k]
    BY <1>3, <1>7, AppendProperties
  <2>2. \A k \in 1 .. n + 1 : Append(now, i)[k] = next[k]
    BY <1>3, <2>1
  <2>. QED
    <3>. DEFINE s == Append(now, i)
                t == next
    <3>1. s \in Seq(Int) /\ t \in Seq(Int) /\ Len(s) = Len(t)
      BY <1>7, <2>1
    <3>2. \A k \in 1 .. Len(s) : s[k] = t[k]
      BY <2>1, <2>2
    <3>. HIDE DEF s, t
    <3>3. s = t
      BY <3>1, <3>2, SeqEqual
    <3>. QED
      BY <3>3 DEF s, t
<1>9. whole # <<>>
  <2>1. Len(whole) # 0
    BY <1>3, <1>6, <1>7
  <2>. QED
    BY <2>1
<1>10. whole = Append(old, i)
  BY <1>4, <1>6, <1>8
<1>. HIDE DEF whole, old, n
<1>11. Replaced(o, i, whole) = [o EXCEPT !.blocks[i].parts = Append(old, i)]
  BY <1>9, <1>10 DEF Replaced
<1>12. [o EXCEPT !.blocks[i].parts = Append(@, i)] =
         [o EXCEPT !.blocks[i].parts = Append(old, i)]
  BY <1>1, <1>2 DEF old, Streams, Blocks
<1>13. Extend(o, i, "toolCall", i) =
         PushDelta([o EXCEPT !.blocks[i].parts = Append(@, i)], i, "toolCall", i)
  BY <1>2 DEF Extend
<1>14. PushDelta(Replaced(o, i, whole), i, "toolCall", i) = Extend(o, i, "toolCall", i)
  BY <1>11, <1>12, <1>13
<1>. QED
  BY <1>14 DEF whole

\* The reason of the stop is no event.
LEMMA ReasonFollows ==
  ASSUME NEW o, NEW w, NEW v \in Wires, Agree(o, w), v.items = w.items,
         NEW reason \in Reasons
  PROVE  Follows(o, [o EXCEPT !.reason = reason], v)
<1>. DEFINE p == [o EXCEPT !.reason = reason]
<1>1. o \in Streams /\ o.outcome = "none"
  BY DEF Agree, Told
<1>2. /\ p \in Streams /\ p.blocks = o.blocks /\ p.shown = o.shown
      /\ p.started = o.started /\ p.outcome = "none"
  BY <1>1 DEF Streams
<1>. HIDE DEF p
<1>3. Told(p) /\ Tells(p, v) /\ OpenAlike(p, v)
  BY <1>2 DEF Agree, Told, Tells, OpenAlike
<1>4. o.shown \in Seq(ShownBlocks)
  BY <1>1 DEF Streams
<1>5. Steps(o, p)
  BY <1>2, <1>4, StepsSame
<1>6. Follows(o, p, v)
  BY <1>2, <1>3, <1>5 DEF Follows, Agree
<1>. QED
  BY <1>6 DEF p

-----------------------------------------------------------------------------
(* How a stream ends                                                       *)

\* What holds of the message however the stream went on.
Leaves(o, p, w) == w \in Wires /\ Told(p) /\ Tells(p, w) /\ Steps(o, p)

LEMMA FollowsLeaves ==
  ASSUME NEW o, NEW p, NEW w, Follows(o, p, w)
  PROVE  Leaves(o, p, w)
BY DEF Follows, Agree, Leaves

\* A last event shows nothing more.
LEMMA LastLeaves ==
  ASSUME NEW o, NEW p, NEW w, Leaves(o, p, w),
         NEW q \in Streams, q.blocks = p.blocks, q.shown = p.shown,
         q.started = p.started
  PROVE  Leaves(o, q, w)
<1>1. Told(q) /\ Tells(q, w)
  BY DEF Leaves, Told, Tells
<1>2. Steps(o, q)
  BY DEF Leaves, Steps
<1>. QED
  BY <1>1, <1>2 DEF Leaves

LEMMA DoneLeaves ==
  ASSUME NEW o, NEW p, NEW w, Leaves(o, p, w)
  PROVE  Leaves(o, PushDone(p), w)
<1>. DEFINE q == PushDone(p)
<1>1. p \in Streams
  BY DEF Leaves, Told
<1>2. /\ q \in Streams /\ q.blocks = p.blocks /\ q.shown = p.shown
      /\ q.started = p.started
  BY <1>1 DEF PushDone, Push, Streams, Abstract!Outcomes
<1>. HIDE DEF q
<1>3. Leaves(o, q, w)
  BY <1>2, LastLeaves
<1>. QED
  BY <1>3 DEF q

LEMMA EndLeaves ==
  ASSUME NEW o, NEW p, NEW w, Leaves(o, p, w)
  PROVE  Leaves(o, End(p), w)
<1>. DEFINE q == End(p)
<1>1. p \in Streams
  BY DEF Leaves, Told
<1>2. /\ q \in Streams /\ q.blocks = p.blocks /\ q.shown = p.shown
      /\ q.started = p.started
  BY <1>1 DEF End, Streams, Abstract!Outcomes
<1>. HIDE DEF q
<1>3. Leaves(o, q, w)
  BY <1>2, LastLeaves
<1>. QED
  BY <1>3 DEF q

LEMMA ErrorLeaves ==
  ASSUME NEW o, NEW p, NEW w, Leaves(o, p, w), NEW reason \in {"error", "aborted"}
  PROVE  Leaves(o, PushError(p, reason), w)
<1>. DEFINE q == PushError(p, reason)
            f == [p EXCEPT !.reason = reason]
<1>1. p \in Streams
  BY DEF Leaves, Told
<1>2. /\ f \in Streams /\ f.blocks = p.blocks /\ f.shown = p.shown
      /\ f.started = p.started /\ f.outcome = p.outcome
  <2>1. reason \in Reasons
    BY DEF Reasons
  <2>. QED
    BY <1>1, <2>1 DEF Streams
<1>. HIDE DEF f
<1>3. q = IF f.outcome = "none" THEN [f EXCEPT !.outcome = reason] ELSE f
  BY DEF PushError, Push, f
<1>. HIDE DEF q
<1>4. /\ q \in Streams /\ q.blocks = p.blocks /\ q.shown = p.shown
      /\ q.started = p.started
  BY <1>2, <1>3 DEF Streams, Abstract!Outcomes
<1>5. Leaves(o, q, w)
  BY <1>4, LastLeaves
<1>. QED
  BY <1>5 DEF q

LEMMA LeavesOn ==
  ASSUME NEW o, NEW p, NEW q, NEW v, NEW w,
         Told(o), Follows(o, p, v), Leaves(p, q, w)
  PROVE  Leaves(o, q, w)
<1>1. /\ o.shown \in Seq(ShownBlocks) /\ p.shown \in Seq(ShownBlocks)
      /\ q.shown \in Seq(ShownBlocks)
  BY DEF Told, Streams, Follows, Leaves, Agree
<1>2. Steps(o, q)
  BY <1>1, StepsOn DEF Follows, Leaves
<1>. QED
  BY <1>2 DEF Leaves

\* The end of the stream ends the blocks I, which are open.
LEMMA BlocksLeave ==
  ASSUME NEW o, NEW w, Agree(o, w), NEW I \in SUBSET (1 .. Len(w.items)),
         \A i \in I : w.items[i].open
  PROVE  LET q == EndBlocks(o, I)
         IN /\ Leaves(o, q, w) /\ q.outcome = "none"
            /\ \A j \in 1 .. Len(q.shown) :
                 q.shown[j].open => j \in 1 .. Len(w.items) \ I /\ w.items[j].open
<1>. DEFINE m == Len(o.blocks)
            s(j) == IF j \in I THEN AsEnded(o.shown[j], o.blocks[j]) ELSE o.shown[j]
            ss == [j \in 1 .. m |-> s(j)]
            q == EndBlocks(o, I)
<1>1. /\ o \in Streams /\ ~o.broken /\ o.outcome = "none"
      /\ o.blocks \in Seq(Blocks) /\ o.shown \in Seq(ShownBlocks)
      /\ m \in Nat /\ Len(o.shown) = m /\ Len(w.items) = m
      /\ w \in Wires
      /\ \A j \in 1 .. m : /\ o.shown[j].kind = o.blocks[j].kind
                           /\ o.shown[j].parts = o.blocks[j].parts
                           /\ ~o.shown[j].open => o.shown[j].lead = o.blocks[j].lead
                           /\ Bears(o.blocks[j], w.items[j], j)
                           /\ o.shown[j].open = w.items[j].open
  BY AgreeFacts
<1>2. \A j \in 1 .. m : /\ o.blocks[j] \in Blocks /\ o.shown[j] \in ShownBlocks
                        /\ o.blocks[j].lead \in Nat
                        /\ o.blocks[j].parts \in Seq(Int)
  <2>1. \A j \in 1 .. m : o.blocks[j] \in Blocks /\ o.shown[j] \in ShownBlocks
    BY <1>1
  <2>. QED
    BY <2>1 DEF Blocks
<1>3. ASSUME NEW j \in 1 .. m
      PROVE  /\ s(j) \in ShownBlocks /\ s(j).kind = o.blocks[j].kind
             /\ s(j).parts = o.blocks[j].parts
             /\ ~s(j).open => s(j).lead = o.blocks[j].lead
             /\ s(j).open => j \notin I /\ w.items[j].open
             /\ Goes(o.shown[j], s(j))
  <2>. DEFINE ps == o.blocks[j].parts
              lead == o.blocks[j].lead
              b == AsEnded(o.shown[j], o.blocks[j])
  <2>1. /\ o.shown[j] \in ShownBlocks /\ ps \in Seq(Int) /\ lead \in Nat
        /\ o.shown[j].kind = o.blocks[j].kind /\ o.shown[j].parts = ps
        /\ ~o.shown[j].open => o.shown[j].lead = lead
        /\ o.shown[j].open = w.items[j].open
    BY <1>1, <1>2
  <2>. HIDE DEF ps, lead
  <2>2. /\ b \in ShownBlocks /\ b.kind = o.shown[j].kind /\ b.lead = lead
        /\ b.parts = ps /\ b.open = FALSE
    BY <2>1 DEF AsEnded, ShownBlocks, ps, lead
  <2>3. j \in I => s(j) = b
    OBVIOUS
  <2>4. j \notin I => s(j) = o.shown[j]
    OBVIOUS
  <2>. HIDE DEF s, b
  <2>5. CASE j \in I
    <3>1. Goes(o.shown[j], b)
      BY <2>1, <2>2, <2>5 DEF Goes
    <3>. QED
      BY <2>1, <2>2, <2>3, <2>5, <3>1 DEF ps, lead
  <2>6. CASE j \notin I
    <3>1. Len(o.shown[j].parts) \in Nat
      BY <2>1 DEF ShownBlocks
    <3>2. Goes(o.shown[j], o.shown[j])
      BY <3>1 DEF Goes
    <3>. QED
      BY <2>1, <2>4, <2>6, <3>2 DEF ps, lead
  <2>. QED
    BY <2>5, <2>6
<1>. HIDE DEF s
<1>4. ss \in Seq(ShownBlocks) /\ Len(ss) = m
  BY <1>1, <1>3, IsASeq
<1>5. \A i \in I : Takes(o, i, o.blocks[i].kind)
  BY <1>1 DEF Takes
<1>6. q = [o EXCEPT !.shown = ss, !.broken = FALSE]
  <2>1. (o.broken \/ \E i \in I : ~Takes(o, i, o.blocks[i].kind)) = FALSE
    BY <1>1, <1>5
  <2>2. [j \in DOMAIN o.shown |->
           IF j \in I THEN AsEnded(o.shown[j], o.blocks[j]) ELSE o.shown[j]] = ss
    BY <1>1 DEF s
  <2>3. q = [o EXCEPT
               !.shown = [j \in DOMAIN o.shown |->
                            IF j \in I THEN AsEnded(o.shown[j], o.blocks[j])
                            ELSE o.shown[j]],
               !.broken = o.broken \/ \E i \in I : ~Takes(o, i, o.blocks[i].kind)]
    <3>1. o.outcome = "none"
      BY <1>1
    <3>. QED
      BY <3>1 DEF EndBlocks, Push
  <2>. QED
    BY <2>1, <2>2, <2>3
<1>7. \A j \in 1 .. m : ss[j] = s(j)
  OBVIOUS
<1>. HIDE DEF ss, q
<1>8. /\ q \in Streams /\ q.blocks = o.blocks /\ q.shown = ss
      /\ q.started = o.started /\ q.outcome = "none"
  BY <1>1, <1>4, <1>6 DEF Streams
<1>9. Told(q)
  <2>1. \A j \in 1 .. m : /\ q.shown[j].kind = q.blocks[j].kind
                          /\ q.shown[j].parts = q.blocks[j].parts
                          /\ ~q.shown[j].open => q.shown[j].lead = q.blocks[j].lead
    BY <1>3, <1>7, <1>8
  <2>2. Len(q.blocks) = m /\ Len(q.shown) = m
    BY <1>4, <1>8
  <2>3. m > 0 => q.started
    BY <1>1, <1>8 DEF Agree, Told
  <2>. QED
    BY <1>8, <2>1, <2>2, <2>3 DEF Told
<1>10. Tells(q, w)
  BY <1>8 DEF Agree, Tells
<1>11. Steps(o, q)
  BY <1>1, <1>3, <1>4, <1>7, <1>8 DEF Steps
<1>12. Leaves(o, q, w)
  BY <1>1, <1>9, <1>10, <1>11 DEF Leaves
<1>13. \A j \in 1 .. Len(q.shown) :
         q.shown[j].open => j \in 1 .. Len(w.items) \ I /\ w.items[j].open
  BY <1>1, <1>3, <1>4, <1>7, <1>8
<1>. QED
  BY <1>8, <1>12, <1>13 DEF q

-----------------------------------------------------------------------------
(* The steps of the task                                                   *)

Moves == [Abstract!Stream]_(Abstract!vars)

\* What is shown goes on as AssistantStream says.
LEMMA StepsMove ==
  ASSUME Told(out), out.outcome = "none", Told(out'), Steps(out, out')
  PROVE  Moves
<1>1. /\ out.shown \in Seq(ShownBlocks) /\ out'.shown \in Seq(ShownBlocks)
      /\ out'.outcome \in Abstract!Outcomes /\ out.started \in BOOLEAN
      /\ out'.started \in BOOLEAN
  BY DEF Told, Streams
<1>2. /\ Len(out.shown) \in Nat /\ Len(out'.shown) \in Nat
      /\ DOMAIN out.shown = 1 .. Len(out.shown)
  BY <1>1
<1>3. out.started \/ out.shown = <<>>
  <2>1. CASE Len(out.shown) > 0
    BY <2>1 DEF Told
  <2>2. CASE Len(out.shown) = 0
    BY <1>1, <2>2, EmptySeq
  <2>. QED
    BY <1>2, <2>1, <2>2
<1>4. out'.shown # <<>> => out'.started
  <2>1. out'.shown # <<>> => Len(out'.shown) > 0
    BY <1>1, EmptySeq
  <2>. QED
    BY <2>1 DEF Told
<1>5. ASSUME NEW i \in DOMAIN out.shown
      PROVE  Abstract!Grows(out.shown[i], out'.shown[i])
  <2>. DEFINE a == out.shown[i]
              b == out'.shown[i]
  <2>1. i \in 1 .. Len(out.shown) /\ i \in 1 .. Len(out'.shown)
    BY <1>2 DEF Steps
  <2>2. a \in ShownBlocks /\ b \in ShownBlocks
    BY <1>1, <2>1
  <2>3. Goes(a, b)
    BY <2>1 DEF Steps
  <2>. SUFFICES Abstract!Grows(a, b)
    OBVIOUS
  <2>. HIDE DEF a, b
  <2>4. a.parts \in Seq(Int) /\ b.parts \in Seq(Int)
    BY <2>2 DEF ShownBlocks
  <2>. DEFINE s == a.parts
              t == b.parts
              u == SubSeq(t, 1, Len(s))
  <2>5. ASSUME b.open
        PROVE  b.lead = a.lead /\ Len(s) <= Len(t) /\ u = s
    <3>7. b.lead = a.lead
      BY <2>3, <2>5 DEF Goes
    <3>1. Len(s) <= Len(t) /\ \A k \in 1 .. Len(s) : t[k] = s[k]
      BY <2>3, <2>5 DEF Goes
    <3>. HIDE DEF s, t
    <3>2. s \in Seq(Int) /\ t \in Seq(Int) /\ Len(s) \in Nat /\ Len(t) \in Nat
      BY <2>4 DEF s, t
    <3>3. \A k \in 1 .. Len(s) : t[k] \in Int
      BY <3>1, <3>2
    <3>4. /\ u \in Seq(Int)
          /\ Len(u) = IF 1 <= Len(s) THEN Len(s) - 1 + 1 ELSE 0
          /\ \A k \in 1 .. Len(s) - 1 + 1 : u[k] = t[1 + k - 1]
      BY <3>2, <3>3, SubSeqProperties
    <3>. HIDE DEF u
    <3>5. Len(u) = Len(s) /\ \A k \in 1 .. Len(s) : u[k] = t[k]
      BY <3>2, <3>4
    <3>6. u = s
      BY <3>1, <3>2, <3>4, <3>5, SeqEqual
    <3>. QED
      BY <3>1, <3>6, <3>7
  <2>. QED
    BY <2>3, <2>5 DEF Goes, Abstract!Grows
<1>6. Abstract!Stream
  <2>1. out.started => out'.started
    BY DEF Steps
  <2>2. Len(out.shown) <= Len(out'.shown)
    BY DEF Steps
  <2>. QED
    BY <1>1, <1>3, <1>4, <1>5, <2>1, <2>2 DEF Abstract!Stream, Abstract!Unfolds
<1>. QED
  BY <1>6 DEF Moves

\* What an event of the answer may leave.
Fits(w, step) ==
  /\ Leaves(out, step.out, w)
  /\ step.then = "on" =>
       Agree(step.out, w) /\ ProcFits(step.proc, step.out.started, w)
  /\ step.then # "on" => Concluded(step.out, w)

\* An error is no conclusion of a reply.
LEMMA ErrorConcludes ==
  ASSUME NEW o \in Streams, NEW w, NEW reason \in {"error", "aborted"},
         Concluded(o, w)
  PROVE  Concluded(PushError(o, reason), w)
<1>. DEFINE q == PushError(o, reason)
            f == [o EXCEPT !.reason = reason]
<1>1. /\ f.shown = o.shown /\ f.outcome = o.outcome
      /\ DOMAIN f = {"blocks", "shown", "started", "outcome", "reason", "broken"}
  BY DEF Streams
<1>2. q = IF f.outcome = "none" THEN [f EXCEPT !.outcome = reason] ELSE f
  BY DEF PushError, Push
<1>. HIDE DEF f, q
<1>3. CASE f.outcome = "none"
  <2>1. q.outcome = reason
    BY <1>1, <1>2, <1>3
  <2>2. q.outcome # "done"
    BY <2>1
  <2>3. Concluded(q, w)
    BY <2>2 DEF Concluded
  <2>. QED
    BY <2>3 DEF q
<1>4. CASE f.outcome # "none"
  <2>1. q.outcome = o.outcome /\ q.shown = o.shown
    BY <1>1, <1>2, <1>4
  <2>2. Concluded(q, w)
    BY <2>1 DEF Concluded
  <2>. QED
    BY <2>2 DEF q
<1>. QED
  BY <1>3, <1>4

\* The task is over.
LEMMA OverKeeps ==
  ASSUME out' \in Streams, Leaves(out, out', wire'), Concluded(out', wire'),
         task' = "over", api' = api, Told(out), out.outcome = "none"
  PROVE  StreamInv' /\ Moves
<1>1. wire' \in Wires /\ Told(out') /\ Tells(out', wire')
  BY DEF Leaves
<1>2. Concluded(out, wire)'
  BY DEF Concluded
<1>5. Tells(out, wire)'
  BY <1>1 DEF Tells, Bears, Leads
<1>3. StreamInv'
  BY <1>1, <1>2, <1>5 DEF StreamInv
<1>4. Moves
  BY <1>1, StepsMove DEF Leaves
<1>. QED
  BY <1>3, <1>4

\* The task goes on.
LEMMA GoesOn ==
  ASSUME Leaves(out, out', wire'), Agree(out', wire'),
         ProcFits(proc', out'.started, wire'),
         task' = "reading", api' = api, Told(out), out.outcome = "none"
  PROVE  StreamInv' /\ Moves
<1>1. wire' \in Wires /\ Told(out') /\ Tells(out', wire')
  BY DEF Leaves
<1>2. ProcFits(proc, out.started, wire)'
  BY DEF ProcFits
<1>5. Tells(out, wire)' /\ Agree(out, wire)'
  BY <1>1 DEF Agree, Tells, Bears, Leads
<1>3. StreamInv'
  BY <1>1, <1>2, <1>5 DEF StreamInv
<1>4. Moves
  BY <1>1, StepsMove DEF Leaves
<1>. QED
  BY <1>3, <1>4

LEMMA ReadingFacts ==
  ASSUME StreamInv, task = "reading"
  PROVE  /\ Agree(out, wire) /\ ProcFits(proc, out.started, wire)
         /\ wire \in Wires /\ Told(out) /\ out.outcome = "none"
BY DEF StreamInv, Agree

\* An event of the answer, or its end, that fits.
LEMMA ApplyKeeps ==
  ASSUME StreamInv, task = "reading", NEW w, NEW step, Fits(w, step),
         wire' = w, Apply(step), api' = api
  PROVE  StreamInv' /\ Moves
<1>1. Agree(out, wire) /\ Told(out) /\ out.outcome = "none"
  BY ReadingFacts
<1>2. proc' = step.proc
  BY DEF Apply
<1>3. CASE step.then = "on"
  <2>1. out' = step.out /\ task' = "reading"
    BY <1>3 DEF Apply
  <2>2. /\ Leaves(out, out', wire') /\ Agree(out', wire')
        /\ ProcFits(proc', out'.started, wire')
    BY <1>2, <1>3, <2>1 DEF Fits
  <2>. QED
    BY <1>1, <2>1, <2>2, GoesOn
<1>4. CASE step.then # "on"
  <2>1. task' = "over" /\ Leaves(out, step.out, w) /\ Concluded(step.out, w)
    BY <1>4 DEF Apply, Fits
  <2>2. step.out \in Streams
    BY <2>1 DEF Leaves, Told
  <2>3. FailReason \in {"error", "aborted"}
    BY DEF FailReason
  <2>4. CASE step.then = "fail"
    <3>1. out' = PushError(step.out, FailReason)
      BY <2>4 DEF Apply
    <3>2. Leaves(out, out', wire') /\ Concluded(out', wire')
      BY <2>1, <2>2, <2>3, <3>1, ErrorLeaves, ErrorConcludes
    <3>3. out' \in Streams
      BY <3>2 DEF Leaves, Told
    <3>. QED
      BY <1>1, <2>1, <3>2, <3>3, OverKeeps
  <2>5. CASE step.then # "fail"
    <3>1. out' = step.out
      BY <2>5 DEF Apply
    <3>. QED
      BY <1>1, <2>1, <2>2, <3>1, OverKeeps
  <2>. QED
    BY <2>4, <2>5
<1>. QED
  BY <1>3, <1>4

LEMMA ReadKeeps ==
  ASSUME StreamInv, NEW w, NEW step, Read(w, step), Fits(w, step)
  PROVE  StreamInv' /\ Moves
<1>1. task = "reading" /\ wire' = w /\ Apply(step) /\ api' = api
  BY DEF Read, netVars
<1>. QED
  BY <1>1, ApplyKeeps

LEMMA BodyEndKeeps ==
  ASSUME StreamInv, NEW step, BodyEnds(step), Fits(wire, step)
  PROVE  StreamInv' /\ Moves
<1>1. task = "reading" /\ wire' = wire /\ Apply(step) /\ api' = api
  BY DEF BodyEnds, netVars
<1>. QED
  BY <1>1, ApplyKeeps

\* The steps of the result: it goes on, it fails, it is done.
LEMMA WentFits ==
  ASSUME NEW w, NEW p, NEW o, Follows(out, o, w), ProcFits(p, o.started, w)
  PROVE  Fits(w, Went(p, o))
BY FollowsLeaves DEF Fits, Went, Follows

LEMMA FailedFits ==
  ASSUME NEW w, NEW p, NEW o, Leaves(out, o, w), o.outcome # "done"
  PROVE  Fits(w, Failed(p, o))
BY DEF Fits, Failed, Concluded

LEMMA EndedFits ==
  ASSUME NEW w, NEW p, NEW o, Leaves(out, o, w), Concluded(o, w)
  PROVE  Fits(w, Ended(p, o))
BY DEF Fits, Ended

-----------------------------------------------------------------------------
(* The request, the network and the caller                                 *)

LEMMA SilentTold ==
  ASSUME out = Silent, wire = Silence
  PROVE  /\ wire \in Wires /\ Told(out) /\ Tells(out, wire)
         /\ Agree(out, wire) /\ out.started = FALSE
<1>1. /\ out = [blocks |-> <<>>, shown |-> <<>>, started |-> FALSE,
                outcome |-> "none", reason |-> "stop", broken |-> FALSE]
      /\ wire = [items |-> <<>>, stopped |-> FALSE]
  BY DEF Silent, Silence
<1>2. /\ <<>> \in Seq(Blocks) /\ <<>> \in Seq(ShownBlocks)
      /\ <<>> \in Seq(ItemRecords) /\ Len(<<>>) = 0
  BY EmptySeq
<1>3. out \in Streams
  BY <1>1, <1>2 DEF Streams, Abstract!Outcomes, Reasons
<1>4. wire \in Wires
  BY <1>1, <1>2, HttpStreamAssumption DEF Wires
<1>5. Told(out) /\ Tells(out, wire) /\ OpenAlike(out, wire)
  BY <1>1, <1>3 DEF Told, Tells, OpenAlike
<1>. QED
  BY <1>1, <1>4, <1>5 DEF Agree

\* The state of an adapter before the first event.
LEMMA NewFits ==
  ASSUME NEW started \in BOOLEAN, started <=> api \in StartsAtResponse
  PROVE  ProcFits(NewProc(api), started, Silence)
<1>1. Silence.items = <<>> /\ Silence.stopped = FALSE /\ Len(<<>>) = 0
  BY DEF Silence
<1>2. MaxItems \in Nat
  BY HttpStreamAssumption
<1>3. ASSUME NEW at, at = [i \in 1 .. MaxItems |-> 0]
      PROVE  Slots(at, Silence) /\ at \in SlotMaps
  BY <1>1, <1>3 DEF Slots, SlotMaps
<1>4. AllEnded(Silence)
  BY <1>1 DEF AllEnded
<1>5. api = "anthropic" => AnthropicFits(NewProc(api), started, Silence)
  <2>. SUFFICES ASSUME api = "anthropic"
                PROVE  AnthropicFits(NewProc(api), started, Silence)
    OBVIOUS
  <2>1. started = FALSE
    BY DEF StartsAtResponse
  <2>2. NewProc(api) = AnthropicNew
    BY DEF NewProc
  <2>3. AnthropicFits(AnthropicNew, FALSE, Silence)
    <3>. DEFINE at == [i \in 1 .. MaxItems |-> 0]
    <3>1. Slots(at, Silence) /\ at \in SlotMaps
      BY <1>3
    <3>. HIDE DEF at
    <3>. QED
      BY <1>1, <1>3, <1>4, <3>1 DEF AnthropicFits, AnthropicNew, at
  <2>. QED
    BY <2>1, <2>2, <2>3
<1>6. api = "completions" => CompletionsFits(NewProc(api), started, Silence)
  <2>. SUFFICES ASSUME api = "completions"
                PROVE  CompletionsFits(NewProc(api), started, Silence)
    OBVIOUS
  <2>1. started = TRUE
    BY DEF StartsAtResponse
  <2>2. NewProc(api) = CompletionsNew
    BY DEF NewProc
  <2>3. CompletionsFits(CompletionsNew, TRUE, Silence)
    <3>. DEFINE p == CompletionsNew
                n == Len(Silence.items)
                calls == ItemCalls(Silence)
                byIndex == [x \in 0 .. MaxItems |-> 0]
                byId == [id \in 1 .. 2 * MaxItems |-> 0]
                ids == [b \in 1 .. MaxItems |-> 0]
    <3>1. p = [text |-> 0, thinking |-> 0, last |-> 0, finished |-> FALSE,
               byIndex |-> byIndex, byId |-> byId, ids |-> ids]
      BY DEF CompletionsNew, NoId
    <3>2. n = 0 /\ 1 .. n = {} /\ calls = {}
      BY <1>1 DEF ItemCalls
    <3>3. /\ byIndex \in [0 .. MaxItems -> {0} \cup calls]
          /\ byId \in [1 .. 2 * MaxItems -> {0} \cup calls]
          /\ ids \in [1 .. MaxItems -> Nat]
      OBVIOUS
    <3>4. \A id \in n + 1 .. MaxItems : byId[id] = 0 /\ ids[id] = NoId
      BY <1>2, <3>2 DEF NoId
    <3>5. 0 \in 0 .. n
      BY <3>2
    <3>. HIDE DEF p, n, calls, byIndex, byId, ids
    <3>6. p \in CallNotes(Silence) /\ p.finished = FALSE
      BY <3>1, <3>3, <3>5 DEF CallNotes, n, calls
    <3>7. CompletionsFits(p, TRUE, Silence)
      BY <1>1, <3>1, <3>2, <3>4, <3>6 DEF CompletionsFits, n, calls
    <3>. QED
      BY <3>7 DEF p
  <2>. QED
    BY <2>1, <2>2, <2>3
<1>7. api = "responses" => ResponsesFits(NewProc(api), started, Silence)
  <2>. SUFFICES ASSUME api = "responses"
                PROVE  ResponsesFits(NewProc(api), started, Silence)
    OBVIOUS
  <2>1. started = TRUE
    BY DEF StartsAtResponse
  <2>2. NewProc(api) = ResponsesNew
    BY DEF NewProc
  <2>3. ResponsesFits(ResponsesNew, TRUE, Silence)
    <3>. DEFINE at == [i \in 1 .. MaxItems |-> 0]
    <3>1. Slots(at, Silence) /\ at \in SlotMaps
      BY <1>3
    <3>. HIDE DEF at
    <3>. QED
      BY <1>1, <1>3, <3>1 DEF ResponsesFits, ResponsesNew, at
  <2>. QED
    BY <2>1, <2>2, <2>3
<1>8. api = "google" => GoogleFits(NewProc(api), started, Silence)
  <2>. SUFFICES ASSUME api = "google"
                PROVE  GoogleFits(NewProc(api), started, Silence)
    OBVIOUS
  <2>1. started = FALSE
    BY DEF StartsAtResponse
  <2>2. NewProc(api) = GoogleNew
    BY DEF NewProc
  <2>3. GoogleFits(GoogleNew, FALSE, Silence)
      BY <1>1 DEF GoogleFits, GoogleNew
  <2>. QED
    BY <2>1, <2>2, <2>3
<1>9. api = "mistral" => MistralFits(NewProc(api), started, Silence)
  <2>. SUFFICES ASSUME api = "mistral"
                PROVE  MistralFits(NewProc(api), started, Silence)
    OBVIOUS
  <2>1. started = FALSE
    BY DEF StartsAtResponse
  <2>2. NewProc(api) = MistralNew
    BY DEF NewProc
  <2>3. MistralFits(MistralNew, FALSE, Silence)
    <3>. DEFINE at == [i \in 1 .. MaxItems |-> 0]
    <3>1. Slots(at, Silence) /\ at \in SlotMaps
      BY <1>3
    <3>. HIDE DEF at
    <3>. QED
      BY <1>1, <1>2, <3>1 DEF MistralFits, MistralNew, at
  <2>. QED
    BY <2>1, <2>2, <2>3
<1>10. api = "bedrock" => BedrockFits(NewProc(api), started, Silence)
  <2>. SUFFICES ASSUME api = "bedrock"
                PROVE  BedrockFits(NewProc(api), started, Silence)
    OBVIOUS
  <2>1. started = FALSE
    BY DEF StartsAtResponse
  <2>2. NewProc(api) = BedrockNew
    BY DEF NewProc
  <2>3. BedrockFits(BedrockNew, FALSE, Silence)
    <3>. DEFINE at == [i \in 1 .. MaxItems |-> 0]
    <3>1. Slots(at, Silence) /\ at \in SlotMaps
      BY <1>3
    <3>. HIDE DEF at
    <3>. QED
      BY <1>1, <1>3, <1>4, <3>1 DEF BedrockFits, BedrockNew, at
  <2>. QED
    BY <2>1, <2>2, <2>3
<1>. QED
  BY <1>5, <1>6, <1>7, <1>8, <1>9, <1>10 DEF ProcFits

LEMMA InitKeeps == Init => StreamInv
<1>. SUFFICES ASSUME Init PROVE StreamInv
  OBVIOUS
<1>1. out = Silent /\ wire = Silence /\ task = "begin" /\ proc = NewProc(api)
  BY DEF Init, HttpInit
<1>2. wire \in Wires /\ Told(out) /\ Tells(out, wire)
  BY <1>1, SilentTold
<1>. QED
  BY <1>1, <1>2 DEF StreamInv

\* A task that is not over has a stream that goes on.
LEMMA OnTheWay ==
  ASSUME StreamInv, task # "over"
  PROVE  Agree(out, wire) /\ Told(out) /\ out.outcome = "none"
<1>1. CASE task = "reading"
  BY <1>1, ReadingFacts
<1>2. CASE task \in {"begin", "request"}
  <2>1. out = Silent /\ wire = Silence
    BY <1>2 DEF StreamInv
  <2>. QED
    BY <2>1, SilentTold DEF Agree
<1>. QED
  BY <1>1, <1>2 DEF StreamInv

LEMMA BreakKeeps ==
  ASSUME StreamInv, task # "over", NEW reason \in {"error", "aborted"},
         Over(PushError(out, reason)), wire' = wire, api' = api
  PROVE  StreamInv' /\ Moves
<1>1. Agree(out, wire) /\ Told(out) /\ out.outcome = "none"
  BY OnTheWay
<1>2. Leaves(out, out, wire) /\ out \in Streams
  BY <1>1, NothingFollows, FollowsLeaves DEF Told
<1>3. Concluded(out, wire)
  BY <1>1 DEF Concluded
<1>4. out' = PushError(out, reason) /\ task' = "over"
  BY DEF Over
<1>5. Leaves(out, out', wire')
  BY <1>2, <1>4, ErrorLeaves
<1>6. Concluded(out', wire')
  BY <1>2, <1>3, <1>4, ErrorConcludes
<1>7. out' \in Streams
  BY <1>5 DEF Leaves, Told
<1>. QED
  BY <1>1, <1>4, <1>5, <1>6, <1>7, OverKeeps

\* Nothing that the stream depends on.
LEMMA AsideKeeps ==
  ASSUME StreamInv, UNCHANGED <<out, wire, proc, api>>,
         task' = task \/ (task \in {"begin", "request"} /\ task' = "request")
  PROVE  StreamInv' /\ Moves
<1>1. Concluded(out, wire)' <=> Concluded(out, wire)
  BY DEF Concluded
<1>2. ProcFits(proc, out.started, wire)' <=> ProcFits(proc, out.started, wire)
  BY DEF ProcFits
<1>3. NewProc(api)' = NewProc(api)
  OBVIOUS
<1>4. StreamInv'
  <2>1. Tells(out, wire)' <=> Tells(out, wire)
    BY DEF Tells, Bears, Leads
  <2>2. Agree(out, wire)' <=> Agree(out, wire)
    BY <2>1 DEF Agree
  <2>. QED
    BY <1>1, <1>2, <1>3, <2>1, <2>2 DEF StreamInv
<1>5. Moves
  BY DEF Moves, Abstract!vars
<1>. QED
  BY <1>4, <1>5

LEMMA HttpKeeps ==
  ASSUME StreamInv, HttpNext
  PROVE  StreamInv' /\ Moves
<1>1. CASE SendAborted
  <2>1. task # "over" /\ wire' = wire /\ api' = api
    BY <1>1 DEF SendAborted, netVars
  <2>2. Over(PushError(out, "aborted"))
    BY <1>1 DEF SendAborted
  <2>. QED
    BY <2>1, <2>2, BreakKeeps
<1>2. CASE Send
  BY <1>2, AsideKeeps DEF Send, netVars
<1>3. CASE SendAgain
  BY <1>3, AsideKeeps DEF SendAgain
<1>4. CASE RetryAborted
  <2>1. task # "over" /\ wire' = wire /\ api' = api
    BY <1>4 DEF RetryAborted, MayRetry, netVars
  <2>2. Over(PushError(out, "aborted"))
    BY <1>4 DEF RetryAborted
  <2>. QED
    BY <2>1, <2>2, BreakKeeps
<1>5. CASE SendFails
  <2>1. task # "over" /\ wire' = wire /\ api' = api
    BY <1>5 DEF SendFails, netVars
  <2>2. Over(PushError(out, FailReason)) /\ FailReason \in {"error", "aborted"}
    BY <1>5 DEF SendFails, FailReason
  <2>. QED
    BY <2>1, <2>2, BreakKeeps
<1>6. CASE Responds
  <2>1. /\ task = "request" /\ task' = "reading" /\ api' = api
        /\ wire' = wire /\ proc' = proc
        /\ out' = IF api \in StartsAtResponse THEN PushStart(out) ELSE out
    BY <1>6 DEF Responds, netVars
  <2>2. out = Silent /\ wire = Silence /\ proc = NewProc(api)
    BY <2>1 DEF StreamInv
  <2>3. Agree(out, wire) /\ Told(out) /\ out.outcome = "none" /\ out.started = FALSE
    BY <2>2, SilentTold DEF Agree
  <2>4. /\ Follows(out, out', wire)
        /\ out'.started <=> api \in StartsAtResponse
    <3>1. CASE api \in StartsAtResponse
      <4>1. Follows(out, PushStart(out), wire) /\ PushStart(out).started
        BY <2>3, StartFollows
      <4>. QED
        BY <2>1, <3>1, <4>1
    <3>2. CASE api \notin StartsAtResponse
      <4>1. out' = out /\ Follows(out, out, wire)
        BY <2>1, <2>3, <3>2, NothingFollows
      <4>. QED
        BY <2>3, <3>2, <4>1
    <3>. QED
      BY <3>1, <3>2
  <2>5. ProcFits(proc', out'.started, wire')
    <3>1. out'.started \in BOOLEAN
      BY <2>4 DEF Follows, Agree, Told, Streams
    <3>. QED
      BY <2>1, <2>2, <2>4, <3>1, NewFits
  <2>6. Leaves(out, out', wire') /\ Agree(out', wire')
    BY <2>1, <2>4, FollowsLeaves DEF Follows
  <2>. QED
    BY <2>1, <2>3, <2>5, <2>6, GoesOn
<1>7. CASE ReadAborted
  <2>1. task # "over" /\ wire' = wire /\ api' = api
    BY <1>7 DEF ReadAborted, netVars
  <2>2. Over(PushError(out, "aborted"))
    BY <1>7 DEF ReadAborted
  <2>. QED
    BY <2>1, <2>2, BreakKeeps
<1>8. CASE ReadFails
  <2>1. task # "over" /\ wire' = wire /\ api' = api
    BY <1>8 DEF ReadFails, netVars
  <2>2. Over(PushError(out, "error"))
    BY <1>8 DEF ReadFails
  <2>. QED
    BY <2>1, <2>2, BreakKeeps
<1>9. CASE RaiseAbort
  BY <1>9, AsideKeeps DEF RaiseAbort
<1>10. CASE DropStream
  BY <1>10, AsideKeeps DEF DropStream
<1>. QED
  BY <1>1, <1>2, <1>3, <1>4, <1>5, <1>6, <1>7, <1>8, <1>9, <1>10 DEF HttpNext

-----------------------------------------------------------------------------
(* What the adapters share                                                 *)

\* An item under way, and the block that its adapter keeps for it.
LEMMA SlotOf ==
  ASSUME NEW w \in Wires, NEW at, Slots(at, w), NEW i \in 1 .. Len(w.items),
         w.items[i].open
  PROVE  at[i] = i /\ at[i] # 0
<1>1. Len(w.items) \in Nat /\ Len(w.items) <= MaxItems /\ MaxItems \in Nat
  BY HttpStreamAssumption DEF Wires
<1>. QED
  BY <1>1 DEF Slots

\* Nothing opens and nothing ends.
LEMMA SlotsKept ==
  ASSUME NEW w, NEW v, NEW at, Slots(at, w), Len(v.items) = Len(w.items),
         \A i \in 1 .. Len(w.items) : v.items[i].open = w.items[i].open
  PROVE  Slots(at, v)
BY DEF Slots

LEMMA SlotsGrown ==
  ASSUME NEW w \in Wires, NEW at, Slots(at, w), NEW i \in 1 .. Len(w.items)
  PROVE  Slots(at, Grow(w, i))
<1>1. /\ Len(Grow(w, i).items) = Len(w.items)
      /\ \A j \in 1 .. Len(w.items) : Grow(w, i).items[j].open = w.items[j].open
  BY GrowItem
<1>. QED
  BY <1>1, SlotsKept

LEMMA SlotsBegun ==
  ASSUME NEW w \in Wires, NEW at, Slots(at, w), Len(w.items) < MaxItems,
         NEW v, Len(v.items) = Len(w.items) + 1,
         v.items[Len(w.items) + 1].open,
         \A i \in 1 .. Len(w.items) : v.items[i] = w.items[i]
  PROVE  Slots([at EXCEPT ![Len(w.items) + 1] = Len(w.items) + 1], v)
<1>. DEFINE n == Len(w.items) + 1
            a == [at EXCEPT ![n] = n]
<1>1. /\ Len(v.items) = n /\ v.items[n].open
      /\ \A i \in 1 .. Len(w.items) : v.items[i] = w.items[i]
  OBVIOUS
<1>2. Len(w.items) \in Nat /\ MaxItems \in Nat
  BY HttpStreamAssumption DEF Wires
<1>4. n \in 1 .. MaxItems /\ n \in Nat
  BY <1>2
<1>5. /\ a \in SlotMaps /\ a[n] = n
      /\ \A i \in 1 .. MaxItems \ {n} : a[i] = at[i]
  BY <1>4 DEF Slots, SlotMaps
<1>. HIDE DEF a
<1>6. \A i \in 1 .. MaxItems :
        a[i] = IF i \in 1 .. Len(v.items) /\ v.items[i].open THEN i ELSE 0
  <2>. TAKE i \in 1 .. MaxItems
  <2>1. CASE i = n
    BY <1>1, <1>2, <1>5, <1>4, <2>1
  <2>2. CASE i # n
    <3>1. i \in 1 .. Len(v.items) <=> i \in 1 .. Len(w.items)
      BY <1>1, <1>2, <2>2
    <3>2. i \in 1 .. Len(w.items) => v.items[i] = w.items[i]
      BY <1>1
    <3>3. a[i] = at[i]
      BY <1>5, <2>2
    <3>. QED
      BY <3>1, <3>2, <3>3 DEF Slots
  <2>. QED
    BY <2>1, <2>2
<1>7. Slots(a, v)
  BY <1>5, <1>6 DEF Slots
<1>. QED
  BY <1>7 DEF a

LEMMA SlotsOpened ==
  ASSUME NEW w \in Wires, NEW at, Slots(at, w), NEW kind \in Kinds,
         Len(w.items) < MaxItems
  PROVE  Slots([at EXCEPT ![Len(w.items) + 1] = Len(w.items) + 1], WithItem(w, kind))
<1>. DEFINE v == WithItem(w, kind)
            n == Len(w.items) + 1
<1>1. /\ v \in Wires /\ Len(v.items) = n /\ v.items[n] = Item(kind)
      /\ \A i \in 1 .. Len(w.items) : v.items[i] = w.items[i]
  BY AddItem
<1>2. v.items[n].open
  BY <1>1 DEF Item
<1>. HIDE DEF v
<1>3. Slots([at EXCEPT ![n] = n], v)
  BY <1>1, <1>2, SlotsBegun
<1>. QED
  BY <1>3 DEF v

LEMMA SlotsClosed ==
  ASSUME NEW w \in Wires, NEW at, Slots(at, w), NEW i \in 1 .. Len(w.items),
         NEW v, Len(v.items) = Len(w.items), v.items[i].open = FALSE,
         \A j \in 1 .. Len(w.items) \ {i} : v.items[j] = w.items[j]
  PROVE  Slots([at EXCEPT ![i] = 0], v)
<1>. DEFINE a == [at EXCEPT ![i] = 0]
<1>1. Len(w.items) \in Nat /\ Len(w.items) <= MaxItems /\ MaxItems \in Nat
  BY HttpStreamAssumption DEF Wires
<1>2. i \in 1 .. MaxItems
  BY <1>1
<1>3. a \in SlotMaps /\ a[i] = 0 /\ \A j \in 1 .. MaxItems \ {i} : a[j] = at[j]
  BY <1>2 DEF Slots, SlotMaps
<1>. HIDE DEF a
<1>4. \A j \in 1 .. MaxItems :
        a[j] = IF j \in 1 .. Len(v.items) /\ v.items[j].open THEN j ELSE 0
  BY <1>3 DEF Slots
<1>5. Slots(a, v)
  BY <1>3, <1>4 DEF Slots
<1>. QED
  BY <1>5 DEF a

\* An item that comes with something of it, or all.
LEMMA AppendIs ==
  ASSUME NEW w \in Wires, NEW it \in ItemRecords,
         NEW v \in Wires, v.stopped = w.stopped, Len(v.items) = Len(w.items) + 1,
         \A i \in 1 .. Len(w.items) : v.items[i] = w.items[i],
         v.items[Len(w.items) + 1] = it
  PROVE  [w EXCEPT !.items = Append(@, it)] = v
<1>. DEFINE s == Append(w.items, it)
            n == Len(w.items) + 1
<1>1. /\ w \in [items : Seq(ItemRecords), stopped : BOOLEAN]
      /\ w.items \in Seq(ItemRecords) /\ Len(w.items) \in Nat
      /\ v \in [items : Seq(ItemRecords), stopped : BOOLEAN]
      /\ v.items \in Seq(ItemRecords)
  BY DEF Wires
<1>2. [w EXCEPT !.items = Append(@, it)] = [w EXCEPT !.items = s]
  BY <1>1
<1>3. /\ s \in Seq(ItemRecords) /\ Len(s) = n /\ s[n] = it
      /\ \A i \in 1 .. Len(w.items) : s[i] = w.items[i]
  BY <1>1, AppendProperties
<1>. HIDE DEF s
<1>4. \A i \in 1 .. Len(s) : s[i] = v.items[i]
  <2>. TAKE i \in 1 .. Len(s)
  <2>1. i = n \/ i \in 1 .. Len(w.items)
    BY <1>1, <1>3
  <2>. QED
    BY <1>3, <2>1
<1>5. s = v.items
  BY <1>1, <1>3, <1>4, SeqEqual
<1>6. [w EXCEPT !.items = v.items] = v
  BY <1>1
<1>. QED
  BY <1>2, <1>5, <1>6

\* An item that begins with its first fragment.
LEMMA BegunItem ==
  ASSUME NEW w \in Wires, NEW kind \in Kinds, Len(w.items) < MaxItems
  PROVE  LET n == Len(w.items) + 1
             v == Grow(WithItem(w, kind), n)
         IN /\ v \in Wires /\ v.stopped = w.stopped /\ Len(v.items) = n
            /\ v.items[n].kind = kind /\ ~v.items[n].brought /\ v.items[n].sent = 1
            /\ v.items[n].open
            /\ \A i \in 1 .. Len(w.items) : v.items[i] = w.items[i]
<1>. DEFINE n == Len(w.items) + 1
            u == WithItem(w, kind)
            v == Grow(u, n)
<1>1. Len(w.items) \in Nat
  BY DEF Wires
<1>2. /\ u \in Wires /\ u.stopped = w.stopped /\ Len(u.items) = n
      /\ u.items[n] = Item(kind)
      /\ \A i \in 1 .. Len(w.items) : u.items[i] = w.items[i]
  BY AddItem
<1>3. /\ u.items[n].kind = kind /\ ~u.items[n].brought /\ u.items[n].open
      /\ u.items[n].sent = 0
  BY <1>2 DEF Item
<1>. HIDE DEF u
<1>4. u \in Wires /\ n \in 1 .. Len(u.items)
  BY <1>1, <1>2
<1>5. \A i \in 1 .. Len(w.items) : i \in 1 .. Len(u.items) \ {n}
  BY <1>1, <1>2
<1>6. /\ v \in Wires /\ v.stopped = u.stopped /\ Len(v.items) = Len(u.items)
      /\ v.items[n].kind = u.items[n].kind
      /\ v.items[n].brought = u.items[n].brought
      /\ v.items[n].sent = u.items[n].sent + 1
      /\ v.items[n].open = u.items[n].open
      /\ \A j \in 1 .. Len(u.items) \ {n} : v.items[j] = u.items[j]
  BY <1>4, GrowItem
<1>. HIDE DEF v
<1>7. /\ v \in Wires /\ v.stopped = w.stopped /\ Len(v.items) = n
      /\ v.items[n].kind = kind /\ ~v.items[n].brought /\ v.items[n].sent = 1
      /\ v.items[n].open
      /\ \A i \in 1 .. Len(w.items) : v.items[i] = w.items[i]
  BY <1>2, <1>3, <1>5, <1>6
<1>. QED
  BY <1>7 DEF v, u

LEMMA BegunIs ==
  ASSUME NEW w \in Wires, NEW kind \in Kinds, Len(w.items) < MaxItems
  PROVE  [w EXCEPT !.items = Append(@, [Item(kind) EXCEPT !.sent = 1])] =
           Grow(WithItem(w, kind), Len(w.items) + 1)
<1>. DEFINE n == Len(w.items) + 1
            v == Grow(WithItem(w, kind), n)
            it == v.items[n]
            first == [Item(kind) EXCEPT !.sent = 1]
<1>1. /\ v \in Wires /\ v.stopped = w.stopped /\ Len(v.items) = n
      /\ v.items[n].kind = kind /\ ~v.items[n].brought /\ v.items[n].sent = 1
      /\ v.items[n].open
      /\ \A i \in 1 .. Len(w.items) : v.items[i] = w.items[i]
  BY BegunItem
<1>. HIDE DEF v
<1>2. n \in 1 .. Len(v.items)
  BY <1>1 DEF Wires
<1>3. it \in ItemRecords /\ it.kind = kind /\ ~it.brought /\ it.sent = 1 /\ it.open
  BY <1>1, <1>2 DEF Wires
<1>4. /\ first \in ItemRecords /\ first.kind = kind /\ ~first.brought /\ first.sent = 1
      /\ first.open
  BY DEF Item, ItemRecords
<1>. HIDE DEF it, first
<1>5. it = first
  BY <1>3, <1>4 DEF ItemRecords
<1>6. v.items[n] = first
  BY <1>5 DEF it
<1>7. [w EXCEPT !.items = Append(@, first)] = v
  BY <1>1, <1>4, <1>6, AppendIs
<1>. QED
  BY <1>7 DEF first, v

LEMMA OpenedWithIs ==
  ASSUME wire \in Wires, NEW kind \in Kinds, Len(wire.items) < MaxItems
  PROVE  OpenedWith(kind) = Grow(WithItem(wire, kind), NextItem)
BY BegunIs DEF OpenedWith, NextItem

\* An item whose start brings content.
LEMMA BroughtItem ==
  ASSUME wire \in Wires, NEW kind \in Kinds, Len(wire.items) < MaxItems
  PROVE  LET v == OpenedBringing(kind)
             n == NextItem
         IN /\ v \in Wires /\ v.stopped = wire.stopped /\ Len(v.items) = n
            /\ v.items[n] \in ItemRecords
            /\ v.items[n].kind = kind /\ v.items[n].brought /\ v.items[n].sent = 0
            /\ v.items[n].open
            /\ \A i \in 1 .. Len(wire.items) : v.items[i] = wire.items[i]
<1>. DEFINE it == [Item(kind) EXCEPT !.brought = TRUE]
            its == Append(wire.items, it)
            n == NextItem
            v == OpenedBringing(kind)
<1>1. /\ wire \in [items : Seq(ItemRecords), stopped : BOOLEAN]
      /\ wire.items \in Seq(ItemRecords) /\ Len(wire.items) \in Nat
      /\ n = Len(wire.items) + 1
  BY DEF Wires, NextItem
<1>2. /\ it \in ItemRecords /\ it.kind = kind /\ it.brought /\ it.sent = 0 /\ it.open
  BY DEF Item, ItemRecords
<1>. HIDE DEF it, n
<1>3. /\ its \in Seq(ItemRecords) /\ Len(its) = n /\ its[n] = it
      /\ \A i \in 1 .. Len(wire.items) : its[i] = wire.items[i]
  BY <1>1, <1>2, AppendProperties
<1>4. v = [wire EXCEPT !.items = its]
  BY <1>1 DEF OpenedBringing, it
<1>. HIDE DEF its, v
<1>5. n <= MaxItems
  BY <1>1, HttpStreamAssumption
<1>6. v \in Wires /\ v.stopped = wire.stopped /\ v.items = its
  BY <1>1, <1>3, <1>4, <1>5 DEF Wires
<1>. QED
  BY <1>2, <1>3, <1>6 DEF v, n

\* The names of the model for what the provider does.
LEMMA WireNames ==
  /\ \A kind : Opened(kind) = WithItem(wire, kind)
  /\ \A i : Grown(i) = Grow(wire, i)
  /\ \A i : Closed(i) = Close(wire, i)
  /\ Stopped = Stop(wire)
BY DEF Opened, WithItem, Grown, Grow, Closed, Close, Stopped, Stop

LEMMA ItemFacts ==
  ASSUME wire \in Wires
  PROVE  /\ Items = 1 .. Len(wire.items) /\ Len(wire.items) \in Nat
         /\ \A i \in OpenItems : i \in 1 .. Len(wire.items) /\ wire.items[i].open
         /\ \A i : CanGrow(i) => /\ i \in 1 .. Len(wire.items) /\ wire.items[i].open
                                 /\ ~wire.stopped
         /\ CanOpen => Len(wire.items) < MaxItems /\ ~wire.stopped
         /\ OpenItems = {} => AllEnded(wire)
         /\ \A i \in 1 .. Len(wire.items) : wire.items[i] \in ItemRecords
<1>1. wire.items \in Seq(ItemRecords)
  BY DEF Wires
<1>2. Items = 1 .. Len(wire.items) /\ Len(wire.items) \in Nat
  BY <1>1 DEF Items
<1>. QED
  BY <1>1, <1>2 DEF OpenItems, CanGrow, CanOpen, AllEnded

\* An item that begins, with its block, and with its first fragment.
LEMMA BegunFollows ==
  ASSUME NEW o, Told(o), NEW s, NEW w, Follows(o, s, w), s.started,
         NEW kind \in Kinds, Len(w.items) < MaxItems
  PROVE  LET added == AddBlock(s, kind)
             n == Len(w.items) + 1
             more == Extend(added, n, kind, n)
         IN /\ Follows(o, added, WithItem(w, kind)) /\ added.started
            /\ Len(added.blocks) = n
            /\ Follows(o, more, Grow(WithItem(w, kind), n)) /\ more.started
<1>. DEFINE added == AddBlock(s, kind)
            v == WithItem(w, kind)
            n == Len(w.items) + 1
            more == Extend(added, n, kind, n)
<1>1. w \in Wires /\ Agree(s, w) /\ Len(w.items) \in Nat
  BY DEF Agree, Follows, Wires
<1>2. Follows(s, added, v)
  BY <1>1, BlockFollows
<1>3. v \in Wires /\ Len(v.items) = n /\ v.items[n] = Item(kind)
  BY <1>1, AddItem
<1>. HIDE DEF added, v
<1>4. Follows(o, added, v)
  BY <1>2, FollowsOn
<1>5. Agree(added, v)
  BY <1>2 DEF Follows
<1>6. Len(added.blocks) = n /\ n \in 1 .. Len(v.items)
  <2>1. Len(added.blocks) = Len(v.items)
    BY <1>5, AgreeFacts
  <2>. QED
    BY <1>1, <1>3, <2>1
<1>7. v.items[n].open /\ v.items[n].kind = kind
  BY <1>3 DEF Item
<1>8. Follows(added, more, Grow(v, n))
  BY <1>5, <1>6, <1>7, FragmentFollows
<1>. HIDE DEF more
<1>9. Follows(o, more, Grow(v, n))
  BY <1>4, <1>8, FollowsOn
<1>10. added.started /\ more.started
  BY <1>2, <1>8 DEF Follows, Steps
<1>. QED
  BY <1>4, <1>6, <1>9, <1>10 DEF added, v, more

LEMMA OpenedFollows ==
  ASSUME Agree(out, wire), Told(out), NEW s, Follows(out, s, wire), s.started,
         NEW kind \in Kinds, CanOpen
  PROVE  LET added == AddBlock(s, kind)
         IN /\ Follows(out, added, WithItem(wire, kind)) /\ added.started
            /\ Len(added.blocks) = NextItem
            /\ Follows(out, Extend(added, NextItem, kind, NextItem), OpenedWith(kind))
            /\ Extend(added, NextItem, kind, NextItem).started
<1>1. wire \in Wires
  BY DEF Agree
<1>2. Len(wire.items) < MaxItems
  BY <1>1, ItemFacts
<1>. QED
  BY <1>1, <1>2, BegunFollows, OpenedWithIs DEF NextItem

\* An item whose start brings content.
LEMMA BroughtFollows ==
  ASSUME Agree(out, wire), Told(out), NEW s, Follows(out, s, wire), s.started,
         NEW kind \in Kinds, CanOpen, NEW lead \in Nat,
         Leads(lead, OpenedBringing(kind).items[NextItem], NextItem)
  PROVE  LET added == AddBlock(s, kind)
             led == LedBy(added, NextItem, lead)
         IN /\ Len(added.blocks) = NextItem
            /\ Follows(out, led, OpenedBringing(kind)) /\ led.started
            /\ lead = 0 => Follows(out, added, OpenedBringing(kind)) /\ added.started
<1>. DEFINE added == AddBlock(s, kind)
            v == OpenedBringing(kind)
            u == WithItem(wire, kind)
            n == NextItem
            led == LedBy(added, n, lead)
<1>1. wire \in Wires /\ Agree(s, wire) /\ Len(wire.items) \in Nat
      /\ n = Len(wire.items) + 1
  BY DEF Agree, Follows, Wires, NextItem
<1>2. Len(wire.items) < MaxItems
  BY <1>1, ItemFacts
<1>3. /\ v \in Wires /\ Len(v.items) = n
      /\ v.items[n] \in ItemRecords /\ v.items[n].kind = kind /\ v.items[n].brought
      /\ v.items[n].sent = 0 /\ v.items[n].open
      /\ \A i \in 1 .. Len(wire.items) : v.items[i] = wire.items[i]
  BY <1>1, <1>2, BroughtItem
<1>4. Follows(s, added, u)
  BY <1>1, <1>2, BlockFollows
<1>5. u \in Wires /\ Len(u.items) = n /\ u.items[n] = Item(kind)
      /\ \A i \in 1 .. Len(wire.items) : u.items[i] = wire.items[i]
  BY <1>1, <1>2, AddItem
<1>6. u.items[n].kind = kind /\ u.items[n].sent = 0 /\ u.items[n].open
  BY <1>5 DEF Item
<1>7. Leads(lead, v.items[n], n)
  OBVIOUS
<1>. HIDE DEF added, u, v, n
<1>8. Agree(added, u) /\ Steps(s, added)
  BY <1>4 DEF Follows
<1>9. Len(added.blocks) = n /\ n \in 1 .. Len(u.items)
  <2>1. Len(added.blocks) = Len(u.items)
    BY <1>8, AgreeFacts
  <2>. QED
    BY <1>1, <1>5, <2>1
<1>10. \A j \in 1 .. Len(u.items) \ {n} : v.items[j] = u.items[j]
  <2>1. \A j \in 1 .. Len(u.items) \ {n} : j \in 1 .. Len(wire.items)
    BY <1>1, <1>5
  <2>. QED
    BY <1>3, <1>5, <2>1
<1>11. v.items[n].open = u.items[n].open
  <2>1. v.items[n].open = TRUE
    BY <1>3 DEF ItemRecords
  <2>2. u.items[n].open = TRUE
    BY <1>5 DEF Item
  <2>. QED
    BY <2>1, <2>2
<1>12. Follows(added, led, v)
  <2>1. Len(v.items) = Len(u.items) /\ u.items[n].open
    BY <1>3, <1>5, <1>6
  <2>2. v.items[n].kind = u.items[n].kind /\ v.items[n].sent = u.items[n].sent
    BY <1>3, <1>6
  <2>3. v \in Wires /\ Agree(added, u) /\ n \in 1 .. Len(u.items)
    BY <1>3, <1>8, <1>9
  <2>. HIDE DEF led
  <2>. QED
    BY <1>7, <1>10, <1>11, <2>1, <2>2, <2>3, LeadFollows, ZenonT(30) DEF led
<1>13. Follows(out, added, u)
  BY <1>4, FollowsOn
<1>. HIDE DEF led
<1>14. Follows(out, led, v) /\ led.started /\ added.started
  BY <1>8, <1>12, <1>13, FollowsOn DEF Follows, Steps
<1>15. lead = 0 => Follows(out, added, v)
  <2>. SUFFICES ASSUME lead = 0 PROVE Follows(out, added, v)
    OBVIOUS
  <2>1. Bears(Block(kind), v.items[n], n)
    <3>1. Bears(Block(kind), Item(kind), n)
      BY BearsNew
    <3>2. Block(kind).kind = kind /\ Block(kind).lead = 0
      BY DEF Block
    <3>3. Item(kind).sent = 0 /\ Item(kind).kind = kind
      BY DEF Item
    <3>. QED
      BY <1>3, <1>7, <3>1, <3>2, <3>3 DEF Bears
  <2>2. Follows(s, added, v)
    BY <1>1, <1>3, <2>1, BlockBegins DEF added
  <2>. QED
    BY <2>2, FollowsOn
<1>. QED
  BY <1>9, <1>14, <1>15 DEF added, led, v, n

\* What a block begins with.
LEMMA LedFollows ==
  ASSUME Agree(out, wire), Told(out), NEW s, Follows(out, s, wire),
         NEW i \in 1 .. Len(wire.items), wire.items[i].open,
         NEW lead \in Nat, Leads(lead, wire.items[i], i)
  PROVE  LET led == LedBy(s, i, lead)
         IN /\ Follows(out, led, wire) /\ (s.started => led.started)
            /\ led.blocks[i].lead = lead
<1>. DEFINE led == LedBy(s, i, lead)
<1>1. Agree(s, wire) /\ wire \in Wires
  BY DEF Follows, Agree
<1>2. Follows(s, led, wire) /\ led.blocks[i].lead = lead
  BY <1>1, LeadFollows
<1>. HIDE DEF led
<1>3. Follows(out, led, wire) /\ (s.started => led.started)
  BY <1>2, FollowsOn DEF Follows, Steps
<1>. QED
  BY <1>2, <1>3 DEF led

\* A fragment of an item under way, and its end.
LEMMA GrownFollows ==
  ASSUME Agree(out, wire), Told(out), NEW s, Follows(out, s, wire),
         NEW i \in 1 .. Len(wire.items), wire.items[i].open
  PROVE  LET more == Extend(s, i, wire.items[i].kind, i)
         IN Follows(out, more, Grow(wire, i)) /\ (s.started => more.started)
<1>. DEFINE more == Extend(s, i, wire.items[i].kind, i)
<1>1. Agree(s, wire)
  BY DEF Follows
<1>2. Follows(s, more, Grow(wire, i))
  BY <1>1, FragmentFollows
<1>. HIDE DEF more
<1>3. Follows(out, more, Grow(wire, i)) /\ (s.started => more.started)
  BY <1>2, FollowsOn DEF Follows, Steps
<1>. QED
  BY <1>3 DEF more

LEMMA ClosedFollows ==
  ASSUME Agree(out, wire), Told(out), NEW s, Follows(out, s, wire),
         NEW i \in 1 .. Len(wire.items), wire.items[i].open,
         api # "responses"
  PROVE  LET last == PushBlockEnd(s, i)
         IN Follows(out, last, Close(wire, i)) /\ (s.started => last.started)
<1>. DEFINE last == PushBlockEnd(s, i)
<1>1. Agree(s, wire)
  BY DEF Follows
<1>2. Follows(s, last, Close(wire, i))
  BY <1>1, EndFollows
<1>. HIDE DEF last
<1>3. Follows(out, last, Close(wire, i)) /\ (s.started => last.started)
  BY <1>2, FollowsOn DEF Follows, Steps
<1>. QED
  BY <1>3 DEF last

\* The reason comes with the end of the reply.
LEMMA StoppedFollows ==
  ASSUME Agree(out, wire), Told(out), NEW s, Follows(out, s, wire),
         NEW reason \in Reasons
  PROVE  LET told == [s EXCEPT !.reason = reason]
         IN Follows(out, told, Stop(wire)) /\ (s.started => told.started)
<1>. DEFINE told == [s EXCEPT !.reason = reason]
<1>1. Agree(s, wire) /\ wire \in Wires
  BY DEF Follows, Agree
<1>2. Stop(wire) \in Wires /\ Stop(wire).items = wire.items
  BY <1>1, StopWire
<1>3. Follows(s, told, Stop(wire))
  BY <1>1, <1>2, ReasonFollows
<1>. HIDE DEF told
<1>4. Follows(out, told, Stop(wire)) /\ (s.started => told.started)
  BY <1>3, FollowsOn DEF Follows, Steps
<1>. QED
  BY <1>4 DEF told

LEMMA NothingOn ==
  ASSUME StreamInv, task = "reading"
  PROVE  Follows(out, out, wire)
BY ReadingFacts, NothingFollows

\* The start event goes out with the first event of any kind.
LEMMA StartedFollows ==
  ASSUME Agree(out, wire), NEW started \in BOOLEAN, started <=> out.started
  PROVE  LET s == IF started THEN out ELSE PushStart(out)
         IN Follows(out, s, wire) /\ s.started
<1>1. CASE started
  BY <1>1, NothingFollows
<1>2. CASE ~started
  BY <1>2, StartFollows
<1>. QED
  BY <1>1, <1>2

\* What an event of the provider comes to.
LEMMA WentOn ==
  ASSUME StreamInv, NEW w, NEW p, NEW o, Read(w, Went(p, o)),
         Follows(out, o, w), ProcFits(p, o.started, w)
  PROVE  StreamInv' /\ Moves
BY WentFits, ReadKeeps

LEMMA HasFailed ==
  ASSUME StreamInv, NEW w, NEW p, NEW o, Read(w, Failed(p, o)),
         Leaves(out, o, w), o.outcome # "done"
  PROVE  StreamInv' /\ Moves
BY FailedFits, ReadKeeps

LEMMA HasEnded ==
  ASSUME StreamInv, NEW w, NEW p, NEW o, Read(w, Ended(p, o)),
         Leaves(out, o, w), Concluded(o, w)
  PROVE  StreamInv' /\ Moves
BY EndedFits, ReadKeeps

\* A body that ends, and the last event that its adapter then pushes.
LEMMA BodyFailed ==
  ASSUME StreamInv, NEW p, NEW o, BodyEnds(Failed(p, o)),
         Leaves(out, o, wire), o.outcome # "done"
  PROVE  StreamInv' /\ Moves
BY FailedFits, BodyEndKeeps

LEMMA BodyEnded ==
  ASSUME StreamInv, NEW p, NEW o, BodyEnds(Ended(p, o)),
         Leaves(out, o, wire), Concluded(o, wire)
  PROVE  StreamInv' /\ Moves
BY EndedFits, BodyEndKeeps

\* The first event marks the adapter as started.
LEMMA MarkedSteps ==
  ASSUME NEW p, NEW o
  PROVE  LET q == [p EXCEPT !.started = TRUE]
         IN /\ [Went(p, o) EXCEPT !.proc.started = TRUE] = Went(q, o)
            /\ [Failed(p, o) EXCEPT !.proc.started = TRUE] = Failed(q, o)
<1>. DEFINE q == [p EXCEPT !.started = TRUE]
<1>1. /\ [Went(p, o) EXCEPT !.proc.started = TRUE] = [Went(p, o) EXCEPT !.proc = q]
      /\ [Failed(p, o) EXCEPT !.proc.started = TRUE] = [Failed(p, o) EXCEPT !.proc = q]
  BY DEF Went, Failed
<1>. HIDE DEF q
<1>2. /\ [Went(p, o) EXCEPT !.proc = q] = Went(q, o)
      /\ [Failed(p, o) EXCEPT !.proc = q] = Failed(q, o)
  BY DEF Went, Failed
<1>. QED
  BY <1>1, <1>2 DEF q

-----------------------------------------------------------------------------
(* Anthropic                                                               *)

AnthropicStates == [started : BOOLEAN, at : SlotMaps, stopped : BOOLEAN]

LEMMA AnthropicGoes ==
  ASSUME StreamInv, api = "anthropic", NEW w, NEW p \in AnthropicStates, NEW o,
         AnthropicReads(w, Went(p, o)), Follows(out, o, w), o.started,
         Slots(p.at, w), w.stopped => AllEnded(w)
  PROVE  StreamInv' /\ Moves
<1>. DEFINE q == [p EXCEPT !.started = TRUE]
<1>1. Read(w, Went(q, o))
  BY MarkedSteps DEF AnthropicReads
<1>2. /\ q \in [started : BOOLEAN, at : SlotMaps, stopped : BOOLEAN]
      /\ q.started = TRUE /\ q.at = p.at
  BY DEF AnthropicStates
<1>3. o.started = TRUE
  BY DEF Follows, Agree, Told, Streams
<1>. HIDE DEF q
<1>4. ProcFits(q, o.started, w)
  BY <1>2, <1>3 DEF ProcFits, AnthropicFits
<1>. QED
  BY <1>1, <1>4, WentOn

LEMMA AnthropicFacts ==
  ASSUME StreamInv, api = "anthropic", task = "reading"
  PROVE  /\ Agree(out, wire) /\ Told(out) /\ wire \in Wires
         /\ out.outcome = "none"
         /\ proc \in AnthropicStates /\ Slots(proc.at, wire)
         /\ wire.stopped => AllEnded(wire)
         /\ Follows(out, AnthropicStarted, wire) /\ AnthropicStarted.started
<1>1. /\ Agree(out, wire) /\ AnthropicFits(proc, out.started, wire)
      /\ wire \in Wires /\ Told(out) /\ out.outcome = "none"
  BY ReadingFacts DEF ProcFits
<1>2. /\ proc \in AnthropicStates /\ Slots(proc.at, wire)
      /\ wire.stopped => AllEnded(wire)
      /\ proc.started = out.started /\ proc.started \in BOOLEAN
  BY <1>1 DEF AnthropicFits, AnthropicStates
<1>3. Follows(out, AnthropicStarted, wire) /\ AnthropicStarted.started
  BY <1>1, <1>2, StartedFollows DEF AnthropicStarted
<1>. QED
  BY <1>1, <1>2, <1>3

\* The arguments of a call lose what its start brought.
LEMMA ScratchedFollows ==
  ASSUME api = "anthropic", Agree(out, wire), Told(out),
         NEW s, Follows(out, s, wire), s.started,
         NEW i \in 1 .. Len(wire.items), wire.items[i].open
  PROVE  Follows(out, Scratched(s, i), wire) /\ Scratched(s, i).started
<1>1. CASE s.blocks[i].kind = "toolCall"
  <2>1. Agree(s, wire)
    BY DEF Follows
  <2>2. wire.items[i].kind = "toolCall"
    <3>1. Bears(s.blocks[i], wire.items[i], i)
      BY <2>1, AgreeFacts
    <3>. QED
      BY <1>1, <3>1 DEF Bears
  <2>3. Leads(0, wire.items[i], i)
    BY <2>2 DEF Leads
  <2>4. Scratched(s, i) = LedBy(s, i, 0)
    BY <1>1 DEF Scratched
  <2>. QED
    BY <2>3, <2>4, LedFollows
<1>2. CASE s.blocks[i].kind # "toolCall"
  BY <1>2 DEF Scratched
<1>. QED
  BY <1>1, <1>2

LEMMA AnthropicKeeps ==
  ASSUME StreamInv, AnthropicNext
  PROVE  StreamInv' /\ Moves
<1>1. api = "anthropic"
  BY DEF AnthropicNext
<1>2. task = "reading"
  BY DEF AnthropicNext, AnthropicOther, AnthropicBlockStart, AnthropicDelta,
         AnthropicBlockStop, AnthropicMessageDelta, AnthropicMessageStop,
         AnthropicEnds, AnthropicReads, Read, BodyEnds
<1>. DEFINE s == AnthropicStarted
<1>3. /\ Agree(out, wire) /\ Told(out) /\ wire \in Wires
      /\ out.outcome = "none"
      /\ proc \in AnthropicStates /\ Slots(proc.at, wire)
      /\ wire.stopped => AllEnded(wire)
      /\ Follows(out, s, wire) /\ s.started
  BY <1>1, <1>2, AnthropicFacts
<1>4. CASE AnthropicOther
  BY <1>1, <1>3, <1>4, AnthropicGoes DEF AnthropicOther
<1>5. CASE AnthropicBlockStart
  <2>. PICK kind \in Kinds, brings \in BOOLEAN :
         LET added == AddBlock(s, kind)
             i == Len(added.blocks)
             p == [proc EXCEPT !.at[NextItem] = i]
         IN \/ /\ ~brings
               /\ AnthropicReads(Opened(kind), Went(p, added))
            \/ /\ brings /\ kind = "text" /\ MaxFragments > 0
               /\ AnthropicReads(OpenedWith(kind),
                                 Went(p, Extend(added, i, kind, NextItem)))
            \/ /\ brings /\ kind # "text"
               /\ AnthropicReads(OpenedBringing(kind),
                                 Went(p, LedBy(added, i, NextItem)))
    BY <1>5 DEF AnthropicBlockStart
  <2>. DEFINE added == AddBlock(s, kind)
              more == Extend(added, NextItem, kind, NextItem)
              led == LedBy(added, NextItem, NextItem)
              at == [proc.at EXCEPT ![NextItem] = NextItem]
              p == [proc EXCEPT !.at = at]
              v == WithItem(wire, kind)
              u == OpenedBringing(kind)
  <2>1. CanOpen
    BY <1>5 DEF AnthropicBlockStart
  <2>2. /\ Follows(out, added, v) /\ added.started
        /\ Len(added.blocks) = NextItem
        /\ Follows(out, more, OpenedWith(kind)) /\ more.started
    BY <1>3, <2>1, OpenedFollows
  <2>3. Len(wire.items) < MaxItems /\ ~wire.stopped /\ Len(wire.items) \in Nat
    BY <1>3, <2>1, ItemFacts
  <2>4. Slots(at, v)
    BY <1>3, <2>3, SlotsOpened DEF NextItem
  <2>5. v \in Wires /\ v.stopped = wire.stopped /\ NextItem \in 1 .. Len(v.items)
    BY <1>3, <2>3, AddItem DEF NextItem
  <2>6. OpenedWith(kind) = Grow(v, NextItem)
    BY <1>3, <2>3, OpenedWithIs
  <2>7. Slots(at, OpenedWith(kind)) /\ OpenedWith(kind).stopped = wire.stopped
    BY <2>4, <2>5, <2>6, SlotsGrown, GrowItem
  <2>8. [proc EXCEPT !.at[NextItem] = NextItem] = p
    BY <1>3 DEF AnthropicStates
  <2>9. at \in SlotMaps
    BY <2>4 DEF Slots
  <2>14. /\ u \in Wires /\ u.stopped = wire.stopped /\ Len(u.items) = Len(wire.items) + 1
         /\ u.items[NextItem].brought /\ u.items[NextItem].open
         /\ \A i \in 1 .. Len(wire.items) : u.items[i] = wire.items[i]
    BY <1>3, <2>3, BroughtItem DEF NextItem
  <2>15. Slots(at, u)
    <3>. HIDE DEF u
    <3>. QED
      BY <1>3, <2>3, <2>14, SlotsBegun DEF NextItem
  <2>16. Follows(out, led, u) /\ led.started
    <3>1. Leads(NextItem, u.items[NextItem], NextItem) /\ NextItem \in Nat
      <4>. HIDE DEF u
      <4>. QED
        BY <2>3, <2>14 DEF Leads, NextItem
    <3>. QED
      BY <1>3, <2>1, <3>1, BroughtFollows
  <2>. HIDE DEF at
  <2>10. p \in AnthropicStates /\ p.at = at
    BY <1>3, <2>9 DEF AnthropicStates
  <2>11. Opened(kind) = v
    BY WireNames
  <2>. HIDE DEF s, added, more, led, p, v, u
  <2>12. CASE AnthropicReads(OpenedWith(kind), Went(p, more))
    BY <1>1, <2>2, <2>3, <2>7, <2>10, <2>12, AnthropicGoes
  <2>13. CASE AnthropicReads(v, Went(p, added))
    BY <1>1, <2>2, <2>3, <2>4, <2>5, <2>10, <2>13, AnthropicGoes
  <2>17. CASE AnthropicReads(u, Went(p, led))
    BY <1>1, <2>3, <2>10, <2>14, <2>15, <2>16, <2>17, AnthropicGoes
  <2>. QED
    BY <2>2, <2>8, <2>11, <2>12, <2>13, <2>17 DEF added, more, led, u, s
<1>6. CASE AnthropicDelta
  <2>. PICK i \in Items :
         /\ CanGrow(i)
         /\ AnthropicReads(Grown(i),
              Went(proc, IF proc.at[i] = 0 THEN s
                         ELSE Extend(Scratched(s, proc.at[i]), proc.at[i],
                                     wire.items[i].kind, i)))
    BY <1>6 DEF AnthropicDelta
  <2>. DEFINE c == Scratched(s, i)
              more == Extend(c, i, wire.items[i].kind, i)
  <2>1. i \in 1 .. Len(wire.items) /\ wire.items[i].open /\ ~wire.stopped
    BY <1>3, ItemFacts
  <2>2. proc.at[i] = i /\ proc.at[i] # 0
    BY <1>3, <2>1, SlotOf
  <2>3. AnthropicReads(Grow(wire, i), Went(proc, more))
    BY <2>2, WireNames
  <2>6. Follows(out, c, wire) /\ c.started
    BY <1>1, <1>3, <2>1, ScratchedFollows
  <2>. HIDE DEF c
  <2>4. Follows(out, more, Grow(wire, i)) /\ more.started
    BY <1>3, <2>1, <2>6, GrownFollows
  <2>5. Slots(proc.at, Grow(wire, i)) /\ Grow(wire, i).stopped = wire.stopped
    BY <1>3, <2>1, SlotsGrown, GrowItem
  <2>. HIDE DEF more
  <2>. QED
    BY <1>1, <1>3, <2>1, <2>3, <2>4, <2>5, AnthropicGoes
<1>7. CASE AnthropicBlockStop
  <2>. PICK i \in OpenItems :
         AnthropicReads(Closed(i),
           Went([proc EXCEPT !.at[i] = 0],
                IF proc.at[i] = 0 THEN s
                ELSE PushBlockEnd(Scratched(s, proc.at[i]), proc.at[i])))
    BY <1>7 DEF AnthropicBlockStop
  <2>. DEFINE c == Scratched(s, i)
              last == PushBlockEnd(c, i)
              at == [proc.at EXCEPT ![i] = 0]
              p == [proc EXCEPT !.at = at]
              v == Close(wire, i)
  <2>1. i \in 1 .. Len(wire.items) /\ wire.items[i].open
    BY <1>3, ItemFacts
  <2>2. proc.at[i] = i /\ proc.at[i] # 0
    BY <1>3, <2>1, SlotOf
  <2>3. [proc EXCEPT !.at[i] = 0] = p
    BY <1>3 DEF AnthropicStates
  <2>11. Follows(out, c, wire) /\ c.started
    BY <1>1, <1>3, <2>1, ScratchedFollows
  <2>6. AnthropicReads(v, Went(p, last))
    BY <2>2, <2>3, WireNames
  <2>. HIDE DEF c
  <2>4. Follows(out, last, v) /\ last.started
    BY <1>1, <1>3, <2>1, <2>11, ClosedFollows
  <2>5. /\ v.stopped = wire.stopped /\ Len(v.items) = Len(wire.items)
        /\ v.items[i].open = FALSE
        /\ \A j \in 1 .. Len(wire.items) \ {i} : v.items[j] = wire.items[j]
    BY <1>3, <2>1, CloseItem
  <2>. HIDE DEF v, last
  <2>7. Slots(at, v)
    BY <1>3, <2>1, <2>5, SlotsClosed
  <2>8. wire.stopped => AllEnded(v)
    BY <1>3, <2>5 DEF AllEnded
  <2>9. at \in SlotMaps
    BY <2>7 DEF Slots
  <2>. HIDE DEF at
  <2>10. p \in AnthropicStates /\ p.at = at
    BY <1>3, <2>9 DEF AnthropicStates
  <2>. HIDE DEF p
  <2>. QED
    BY <1>1, <2>4, <2>5, <2>6, <2>7, <2>8, <2>10, AnthropicGoes
<1>8. CASE AnthropicMessageDelta
  <2>. PICK reason \in {"stop", "length", "toolUse", "error"} :
         LET told == [s EXCEPT !.reason = reason]
         IN AnthropicReads(Stopped, IF reason = "error" THEN Failed(proc, told)
                                    ELSE Went(proc, told))
    BY <1>8 DEF AnthropicMessageDelta
  <2>. DEFINE told == [s EXCEPT !.reason = reason]
  <2>1. Follows(out, told, Stop(wire)) /\ told.started
    BY <1>3, StoppedFollows DEF Reasons
  <2>2. /\ Stop(wire).items = wire.items /\ Stop(wire).stopped = TRUE
        /\ AllEnded(wire)
    BY <1>3, <1>8, StopWire, ItemFacts DEF AnthropicMessageDelta
  <2>3. Slots(proc.at, Stop(wire)) /\ AllEnded(Stop(wire))
    BY <1>3, <2>2, SlotsKept DEF AllEnded
  <2>4. CASE reason = "error"
    <3>1. AnthropicReads(Stop(wire), Failed(proc, told))
      BY <2>4, WireNames
    <3>2. Read(Stop(wire), Failed([proc EXCEPT !.started = TRUE], told))
      BY <3>1, MarkedSteps DEF AnthropicReads
    <3>3. Leaves(out, told, Stop(wire)) /\ told.outcome # "done"
      BY <2>1, FollowsLeaves DEF Follows, Agree
    <3>. QED
      BY <3>2, <3>3, HasFailed
  <2>5. CASE reason # "error"
    <3>1. AnthropicReads(Stop(wire), Went(proc, told))
      BY <2>5, WireNames
    <3>. QED
      BY <1>1, <1>3, <2>1, <2>3, <3>1, AnthropicGoes
  <2>. QED
    BY <2>4, <2>5
<1>9. CASE AnthropicMessageStop
  <2>. DEFINE p == [proc EXCEPT !.stopped = TRUE]
  <2>1. AnthropicReads(wire, Went(p, s))
    BY <1>9 DEF AnthropicMessageStop
  <2>2. p \in AnthropicStates /\ p.at = proc.at
    BY <1>3 DEF AnthropicStates
  <2>. HIDE DEF p
  <2>. QED
    BY <1>1, <1>3, <2>1, <2>2, AnthropicGoes
<1>10. CASE AnthropicEnds
  <2>1. Follows(out, out, wire)
    BY <1>2, NothingOn
  <2>2. Leaves(out, PushDone(out), wire)
    BY <2>1, FollowsLeaves, DoneLeaves
  <2>3. Concluded(PushDone(out), wire)
    <3>1. /\ PushDone(out).shown = out.shown
          /\ \A i \in 1 .. Len(out.shown) : out.shown[i].open = wire.items[i].open
          /\ Len(out.shown) = Len(wire.items)
      <4>1. /\ out \in Streams /\ Len(out.shown) = Len(wire.items)
            /\ \A i \in 1 .. Len(out.shown) : out.shown[i].open = wire.items[i].open
        BY <1>3, AgreeFacts
      <4>2. PushDone(out).shown = out.shown
        BY <4>1 DEF PushDone, Push, Streams
      <4>. QED
        BY <4>1, <4>2
    <3>. QED
      BY <1>1, <1>3, <3>1 DEF Concluded, AllEnded
  <2>. QED
    BY <1>10, <2>2, <2>3, BodyEnded DEF AnthropicEnds
<1>. QED
  BY <1>4, <1>5, <1>6, <1>7, <1>8, <1>9, <1>10 DEF AnthropicNext

-----------------------------------------------------------------------------
(* Completions                                                             *)

Indexes == {NoIndex} \cup 0 .. MaxItems

LEMMA NotedFields ==
  ASSUME wire \in Wires, proc \in CallNotes(wire), NEW index \in Indexes,
         NEW id \in 0 .. 2 * MaxItems, NEW b \in 1 .. MaxItems
  PROVE  LET p == CallNoted(index, id, b)
         IN /\ p \in [text : {proc.text}, thinking : {proc.thinking}, last : {b},
                      finished : {proc.finished},
                      byIndex : {IF index = NoIndex THEN proc.byIndex
                                 ELSE [proc.byIndex EXCEPT ![index] = b]},
                      byId : {IF id = NoId THEN proc.byId
                              ELSE [proc.byId EXCEPT ![id] = b]},
                      ids : {[proc.ids EXCEPT
                                ![b] = IF @ = NoId THEN id ELSE @]}]
<1>. DEFINE indexes == IF index = NoIndex THEN proc.byIndex
                       ELSE [proc.byIndex EXCEPT ![index] = b]
            names == IF id = NoId THEN proc.byId ELSE [proc.byId EXCEPT ![id] = b]
            ids == [proc.ids EXCEPT ![b] = IF @ = NoId THEN id ELSE @]
            p1 == [proc EXCEPT !.byIndex = indexes, !.byId = names]
            p2 == [p1 EXCEPT !.last = b, !.ids = ids]
<1>1. CallNoted(index, id, b) = p2
  BY DEF CallNoted, CallNotes
<1>. HIDE DEF indexes, names, ids
<1>2. p1 \in [text : {proc.text}, thinking : {proc.thinking}, last : Nat,
              finished : {proc.finished}, byIndex : {indexes}, byId : {names},
              ids : [1 .. MaxItems -> Nat]]
  BY DEF CallNotes
<1>. HIDE DEF p1
<1>3. p2 \in [text : {proc.text}, thinking : {proc.thinking}, last : {b},
              finished : {proc.finished}, byIndex : {indexes}, byId : {names},
              ids : {ids}]
  BY <1>2
<1>. QED
  BY <1>1, <1>3 DEF indexes, names, ids

LEMMA NotedFits ==
  ASSUME wire \in Wires, CompletionsFits(proc, TRUE, wire),
         NEW v \in Wires, Len(wire.items) <= Len(v.items),
         NEW b \in 1 .. Len(v.items), v.items[b].kind = "toolCall",
         v.stopped = wire.stopped,
         \A i \in 1 .. Len(v.items) :
           /\ v.items[i].open
           /\ i \in 1 .. Len(wire.items) => v.items[i].kind = wire.items[i].kind
           /\ i \in 1 .. Len(wire.items) \/ i = b,
         NEW index \in Indexes, NEW id \in {NoId, b, MaxItems + b},
         id = b \/ b \in 1 .. Len(wire.items)
  PROVE  CompletionsFits(CallNoted(index, id, b), TRUE, v)
<1>. DEFINE n == Len(wire.items)
            m == Len(v.items)
            p == CallNoted(index, id, b)
<1>1. /\ n \in Nat /\ m \in Nat /\ n <= m /\ m <= MaxItems /\ MaxItems \in Nat
      /\ b \in 1 .. MaxItems /\ id \in 0 .. 2 * MaxItems
  BY HttpStreamAssumption DEF Wires, NoId
<1>2. /\ proc \in CallNotes(wire) /\ proc.finished = wire.stopped
      /\ \A i \in 1 .. n : /\ wire.items[i].open
                           /\ wire.items[i].kind = "text" <=> i = proc.text
                           /\ wire.items[i].kind = "thinking" <=> i = proc.thinking
      /\ \A i \in ItemCalls(wire) : proc.byId[i] = i /\ proc.ids[i] = i
      /\ \A k \in n + 1 .. MaxItems : proc.byId[k] = 0 /\ proc.ids[k] = NoId
  BY DEF CompletionsFits
<1>3. /\ proc.text \in 0 .. n /\ proc.thinking \in 0 .. n /\ proc.finished \in BOOLEAN
      /\ proc.byIndex \in [0 .. MaxItems -> {0} \cup ItemCalls(wire)]
      /\ proc.byId \in [1 .. 2 * MaxItems -> {0} \cup ItemCalls(wire)]
      /\ proc.ids \in [1 .. MaxItems -> Nat]
  BY <1>2 DEF CallNotes
<1>. DEFINE indexes == IF index = NoIndex THEN proc.byIndex
                       ELSE [proc.byIndex EXCEPT ![index] = b]
            names == IF id = NoId THEN proc.byId ELSE [proc.byId EXCEPT ![id] = b]
            ids == [proc.ids EXCEPT ![b] = IF @ = NoId THEN id ELSE @]
<1>4. p \in [text : {proc.text}, thinking : {proc.thinking}, last : {b},
             finished : {proc.finished}, byIndex : {indexes}, byId : {names},
             ids : {ids}]
  BY <1>1, <1>2, NotedFields
<1>5. /\ ItemCalls(wire) \subseteq ItemCalls(v) /\ b \in ItemCalls(v)
      /\ \A i \in ItemCalls(v) : i = b \/ i \in ItemCalls(wire)
  BY <1>1 DEF ItemCalls
<1>6. indexes \in [0 .. MaxItems -> {0} \cup ItemCalls(v)]
  <2>1. index # NoIndex => index \in 0 .. MaxItems
    BY DEF Indexes
  <2>. QED
    BY <1>3, <1>5, <2>1
<1>7. /\ names \in [1 .. 2 * MaxItems -> {0} \cup ItemCalls(v)]
      /\ \A k \in 1 .. 2 * MaxItems : k # id => names[k] = proc.byId[k]
      /\ id # NoId => names[id] = b
  <2>1. id # NoId => id \in 1 .. 2 * MaxItems
    BY <1>1 DEF NoId
  <2>. QED
    BY <1>3, <1>5, <2>1
<1>8. /\ ids \in [1 .. MaxItems -> Nat]
      /\ \A k \in 1 .. MaxItems : k # b => ids[k] = proc.ids[k]
      /\ ids[b] = IF proc.ids[b] = NoId THEN id ELSE proc.ids[b]
  BY <1>1, <1>3, SMTT(30)
<1>. HIDE DEF indexes, names, ids, p
<1>9. p \in CallNotes(v)
  <2>1. proc.text \in 0 .. m /\ proc.thinking \in 0 .. m /\ b \in Nat
    BY <1>1, <1>3
  <2>. QED
    BY <1>3, <1>4, <1>6, <1>7, <1>8, <2>1 DEF CallNotes
<1>10. /\ p.text = proc.text /\ p.thinking = proc.thinking
       /\ p.finished = proc.finished /\ p.byId = names /\ p.ids = ids
  BY <1>4
<1>11. \A i \in 1 .. m : /\ v.items[i].open
                         /\ v.items[i].kind = "text" <=> i = p.text
                         /\ v.items[i].kind = "thinking" <=> i = p.thinking
  <2>. TAKE i \in 1 .. m
  <2>1. CASE i \in 1 .. n
    BY <1>2, <1>10, <2>1
  <2>2. CASE i \notin 1 .. n
    <3>1. i = b /\ v.items[i].open /\ v.items[i].kind = "toolCall"
      BY <2>2
    <3>2. i # p.text /\ i # p.thinking
      BY <1>1, <1>3, <1>10, <2>2, <3>1
    <3>. QED
      BY <3>1, <3>2
  <2>. QED
    BY <2>1, <2>2
<1>12. \A i \in ItemCalls(v) : p.byId[i] = i /\ p.ids[i] = i
  <2>. TAKE i \in ItemCalls(v)
  <2>1. i \in 1 .. m /\ i \in 1 .. MaxItems /\ i \in 1 .. 2 * MaxItems
    BY <1>1 DEF ItemCalls
  <2>2. CASE i # b
    <3>1. i \in ItemCalls(wire) /\ i # id
      BY <1>1, <1>5, <2>1, <2>2 DEF NoId
    <3>. QED
      BY <1>2, <1>7, <1>8, <1>10, <2>1, <2>2, <3>1
  <2>3. CASE i = b
    <3>1. CASE b \in 1 .. n
      <4>1. b \in ItemCalls(wire)
        BY <3>1 DEF ItemCalls
      <4>2. proc.byId[b] = b /\ proc.ids[b] = b /\ b # NoId
        BY <1>1, <1>2, <4>1 DEF NoId
      <4>3. names[b] = b
        BY <1>7, <2>1, <2>3, <4>2
      <4>. QED
        BY <1>8, <1>10, <2>3, <4>2, <4>3
    <3>2. CASE b \notin 1 .. n
      <4>1. b \in n + 1 .. MaxItems /\ id = b /\ id # NoId
        BY <1>1, <3>2 DEF NoId
      <4>2. proc.ids[b] = NoId
        BY <1>2, <4>1
      <4>. QED
        BY <1>7, <1>8, <1>10, <2>3, <4>1, <4>2
    <3>. QED
      BY <3>1, <3>2
  <2>. QED
    BY <2>2, <2>3
<1>13. \A k \in m + 1 .. MaxItems : p.byId[k] = 0 /\ p.ids[k] = NoId
  <2>. TAKE k \in m + 1 .. MaxItems
  <2>1. /\ k \in n + 1 .. MaxItems /\ k # b /\ k # id
        /\ k \in 1 .. MaxItems /\ k \in 1 .. 2 * MaxItems
    BY <1>1 DEF NoId
  <2>. QED
    BY <1>2, <1>7, <1>8, <1>10, <2>1
<1>14. p.finished = v.stopped
  BY <1>2, <1>10
<1>15. CompletionsFits(p, TRUE, v)
  BY <1>9, <1>11, <1>12, <1>13, <1>14 DEF CompletionsFits
<1>. QED
  BY <1>15 DEF p

LEMMA GrownFits ==
  ASSUME wire \in Wires, NEW p, CompletionsFits(p, TRUE, wire),
         NEW i \in 1 .. Len(wire.items)
  PROVE  CompletionsFits(p, TRUE, Grow(wire, i))
<1>. DEFINE v == Grow(wire, i)
<1>1. /\ v.stopped = wire.stopped /\ Len(v.items) = Len(wire.items)
      /\ \A j \in 1 .. Len(wire.items) : /\ v.items[j].kind = wire.items[j].kind
                                         /\ v.items[j].open = wire.items[j].open
  BY GrowItem
<1>. HIDE DEF v
<1>2. ItemCalls(v) = ItemCalls(wire)
  BY <1>1 DEF ItemCalls
<1>3. CallNotes(v) = CallNotes(wire)
  BY <1>1, <1>2 DEF CallNotes
<1>4. CompletionsFits(p, TRUE, v)
  BY <1>1, <1>2, <1>3 DEF CompletionsFits
<1>. QED
  BY <1>4 DEF v

\* The first fragment of the text, or of the thinking.
LEMMA TextFits ==
  ASSUME wire \in Wires, CompletionsFits(proc, TRUE, wire),
         NEW kind \in {"text", "thinking"},
         (IF kind = "text" THEN proc.text ELSE proc.thinking) = 0,
         NEW v \in Wires, Len(v.items) = Len(wire.items) + 1,
         v.stopped = wire.stopped,
         \A i \in 1 .. Len(wire.items) : v.items[i] = wire.items[i],
         v.items[Len(v.items)].kind = kind, v.items[Len(v.items)].open
  PROVE  CompletionsFits(IF kind = "text" THEN [proc EXCEPT !.text = Len(v.items)]
                         ELSE [proc EXCEPT !.thinking = Len(v.items)], TRUE, v)
<1>. DEFINE n == Len(wire.items)
            m == Len(v.items)
            p == IF kind = "text" THEN [proc EXCEPT !.text = m]
                 ELSE [proc EXCEPT !.thinking = m]
<1>1. n \in Nat /\ m = n + 1 /\ m <= MaxItems /\ MaxItems \in Nat
  BY HttpStreamAssumption DEF Wires
<1>2. /\ proc \in CallNotes(wire) /\ proc.finished = wire.stopped
      /\ \A i \in 1 .. n : /\ wire.items[i].open
                           /\ wire.items[i].kind = "text" <=> i = proc.text
                           /\ wire.items[i].kind = "thinking" <=> i = proc.thinking
      /\ \A i \in ItemCalls(wire) : proc.byId[i] = i /\ proc.ids[i] = i
      /\ \A k \in n + 1 .. MaxItems : proc.byId[k] = 0 /\ proc.ids[k] = NoId
  BY DEF CompletionsFits
<1>3. ItemCalls(v) = ItemCalls(wire)
  <2>1. \A i \in 1 .. m : i = m \/ i \in 1 .. n
    BY <1>1
  <2>2. 1 .. n \subseteq 1 .. m /\ m \notin 1 .. n
    BY <1>1
  <2>. QED
    BY <2>1, <2>2 DEF ItemCalls
<1>4. p \in CallNotes(v)
  <2>1. 0 .. n \subseteq 0 .. m /\ m \in 0 .. m
    BY <1>1
  <2>2. CallNotes(wire) \subseteq CallNotes(v)
    BY <1>3, <2>1 DEF CallNotes
  <2>3. proc \in CallNotes(v)
    BY <1>2, <2>2
  <2>4. CASE kind = "text"
    BY <2>1, <2>3, <2>4 DEF CallNotes
  <2>5. CASE kind # "text"
    BY <2>1, <2>3, <2>5 DEF CallNotes
  <2>. QED
    BY <2>4, <2>5
<1>5. /\ p.finished = proc.finished /\ p.byId = proc.byId /\ p.ids = proc.ids
      /\ kind = "text" => p.text = m /\ p.thinking = proc.thinking
      /\ kind # "text" => p.text = proc.text /\ p.thinking = m
  BY <1>2 DEF CallNotes
<1>6. proc.text \in 0 .. n /\ proc.thinking \in 0 .. n
  BY <1>2 DEF CallNotes
<1>. HIDE DEF p
<1>7. \A i \in 1 .. m : /\ v.items[i].open
                        /\ v.items[i].kind = "text" <=> i = p.text
                        /\ v.items[i].kind = "thinking" <=> i = p.thinking
  <2>. TAKE i \in 1 .. m
  <2>1. CASE i \in 1 .. n
    <3>1. i # m /\ i # 0
      BY <1>1, <2>1
    <3>2. v.items[i] = wire.items[i]
      BY <2>1
    <3>. QED
      BY <1>2, <1>5, <2>1, <3>1, <3>2
  <2>2. CASE i \notin 1 .. n
    <3>1. i = m /\ i # proc.text /\ i # proc.thinking
      BY <1>1, <1>6, <2>2
    <3>. QED
      BY <1>5, <3>1
  <2>. QED
    BY <2>1, <2>2
<1>8. \A k \in m + 1 .. MaxItems : p.byId[k] = 0 /\ p.ids[k] = NoId
  <2>1. m + 1 .. MaxItems \subseteq n + 1 .. MaxItems
    BY <1>1
  <2>. QED
    BY <1>2, <1>5, <2>1
<1>9. \A i \in ItemCalls(v) : p.byId[i] = i /\ p.ids[i] = i
  BY <1>2, <1>3, <1>5
<1>10. p.finished = v.stopped
  BY <1>2, <1>5
<1>11. CompletionsFits(p, TRUE, v)
  BY <1>4, <1>7, <1>8, <1>9, <1>10 DEF CompletionsFits
<1>. QED
  BY <1>11 DEF p

\* A first fragment is taken for that of a new call, under its own index, under
\* that of another and under none.
LEMMA NewCall ==
  ASSUME wire \in Wires, CompletionsFits(proc, TRUE, wire),
         Len(wire.items) < MaxItems, NEW index \in Indexes
  PROVE  CallBlock(index, NextItem, TRUE) = 0
<1>1. /\ Len(wire.items) \in Nat /\ MaxItems \in Nat
      /\ NextItem = Len(wire.items) + 1 /\ NextItem # NoId
      /\ NextItem \in Len(wire.items) + 1 .. MaxItems
  BY HttpStreamAssumption DEF Wires, NextItem, NoId
<1>2. /\ proc \in CallNotes(wire)
      /\ \A i \in ItemCalls(wire) : proc.ids[i] = i
      /\ proc.byId[NextItem] = 0
  BY <1>1 DEF CompletionsFits
<1>3. \A b \in ItemCalls(wire) : b # NoId /\ b # NextItem /\ b \in Nat /\ b # 0
  BY <1>1 DEF ItemCalls, NoId
<1>4. index # NoIndex => proc.byIndex[index] \in {0} \cup ItemCalls(wire)
  BY <1>2 DEF CallNotes, Indexes
<1>5. ByIndex(index, NextItem, TRUE) = 0
  <2>. DEFINE b == IF index = NoIndex THEN 0 ELSE proc.byIndex[index]
  <2>1. b = 0 \/ b \in ItemCalls(wire)
    BY <1>4
  <2>2. ByIndex(index, NextItem, TRUE) =
          IF b # 0 /\ NextItem # NoId /\ TRUE /\ proc.ids[b] \notin {NoId, NextItem}
          THEN 0 ELSE b
    BY DEF ByIndex
  <2>. HIDE DEF b
  <2>. QED
    BY <1>1, <1>2, <1>3, <2>1, <2>2
<1>. QED
  BY <1>1, <1>2, <1>5 DEF CallBlock

\* A later fragment finds the block of its call.
LEMMA CallFound ==
  ASSUME wire \in Wires, CompletionsFits(proc, TRUE, wire),
         NEW j \in ItemCalls(wire), NEW index \in Indexes,
         NEW id \in {NoId, j, MaxItems + j},
         index # NoIndex => proc.byIndex[index] = j,
         index = NoIndex /\ id = NoId => proc.last = j,
         id > MaxItems => index # NoIndex
  PROVE  CallBlock(index, id, FALSE) = j
<1>1. /\ Len(wire.items) \in Nat /\ MaxItems \in Nat /\ j \in 1 .. MaxItems
      /\ j # 0 /\ j # NoId
  BY HttpStreamAssumption DEF Wires, ItemCalls, NoId
<1>2. proc.byId[j] = j
  BY DEF CompletionsFits
<1>3. ByIndex(index, id, FALSE) = IF index = NoIndex THEN 0 ELSE proc.byIndex[index]
  BY DEF ByIndex
<1>4. CASE index # NoIndex
  BY <1>1, <1>3, <1>4 DEF CallBlock
<1>5. CASE index = NoIndex /\ id = NoId
  BY <1>1, <1>3, <1>5 DEF CallBlock
<1>6. CASE index = NoIndex /\ id # NoId
  <2>1. id = j
    BY <1>1, <1>6
  <2>. QED
    BY <1>1, <1>2, <1>3, <1>6, <2>1 DEF CallBlock
<1>. QED
  BY <1>4, <1>5, <1>6

LEMMA CompletionsGoes ==
  ASSUME StreamInv, api = "completions", NEW w, NEW p, NEW o, Read(w, Went(p, o)),
         Follows(out, o, w), o.started, CompletionsFits(p, TRUE, w)
  PROVE  StreamInv' /\ Moves
<1>1. CompletionsFits(p, o.started, w)
  BY DEF CompletionsFits
<1>2. ProcFits(p, o.started, w)
  BY <1>1 DEF ProcFits
<1>. QED
  BY <1>2, WentOn

LEMMA CompletionsEndKeeps ==
  ASSUME StreamInv, api = "completions", task = "reading", CompletionsEnds
  PROVE  StreamInv' /\ Moves
<1>. DEFINE closed == EndBlocks(out, DOMAIN out.blocks)
<1>1. /\ Agree(out, wire) /\ wire \in Wires /\ Told(out) /\ out.outcome = "none"
      /\ CompletionsFits(proc, out.started, wire)
  BY ReadingFacts DEF ProcFits
<1>2. /\ proc.finished = wire.stopped
      /\ \A i \in 1 .. Len(wire.items) : wire.items[i].open
  BY <1>1 DEF CompletionsFits
<1>3. DOMAIN out.blocks = 1 .. Len(wire.items)
  BY <1>1, AgreeFacts
<1>4. /\ Leaves(out, closed, wire) /\ closed.outcome = "none"
      /\ \A j \in 1 .. Len(closed.shown) : ~closed.shown[j].open
  <2>. DEFINE I == 1 .. Len(wire.items)
              q == EndBlocks(out, I)
  <2>1. /\ Leaves(out, q, wire) /\ q.outcome = "none"
        /\ \A j \in 1 .. Len(q.shown) :
             q.shown[j].open => j \in 1 .. Len(wire.items) \ I /\ wire.items[j].open
    BY <1>1, <1>2, BlocksLeave
  <2>2. closed = q
    BY <1>3
  <2>. HIDE DEF closed, q
  <2>. QED
    BY <2>1, <2>2
<1>5. BodyEnds(IF ~proc.finished THEN Failed(proc, closed)
               ELSE IF out.reason = "error" THEN Failed(proc, closed)
               ELSE Ended(proc, PushDone(closed)))
  BY DEF CompletionsEnds, CompletionsFinished
<1>. HIDE DEF closed
<1>6. Leaves(out, PushDone(closed), wire)
  BY <1>4, DoneLeaves
<1>7. CASE BodyEnds(Failed(proc, closed))
  BY <1>4, <1>7, BodyFailed
<1>8. CASE proc.finished /\ BodyEnds(Ended(proc, PushDone(closed)))
  <2>1. PushDone(closed).shown = closed.shown
    BY <1>4 DEF PushDone, Push, Leaves, Told, Streams
  <2>2. Concluded(PushDone(closed), wire)
    BY <1>1, <1>2, <1>4, <1>8, <2>1 DEF Concluded
  <2>. QED
    BY <1>6, <1>8, <2>2, BodyEnded
<1>. QED
  BY <1>5, <1>7, <1>8

LEMMA CompletionsKeeps ==
  ASSUME StreamInv, CompletionsNext
  PROVE  StreamInv' /\ Moves
<1>1. api = "completions"
  BY DEF CompletionsNext
<1>2. task = "reading"
  BY DEF CompletionsNext, CompletionsOther, CompletionsText, CompletionsCallStart,
         CompletionsCallDelta, CompletionsFinishReason, CompletionsEnds,
         CallFragment, Read, BodyEnds
<1>3. /\ Agree(out, wire) /\ Told(out) /\ wire \in Wires /\ out.outcome = "none"
      /\ CompletionsFits(proc, out.started, wire)
  BY <1>1, <1>2, ReadingFacts DEF ProcFits
<1>4. /\ out.started /\ Follows(out, out, wire)
      /\ CompletionsFits(proc, TRUE, wire)
  BY <1>2, <1>3, NothingOn DEF CompletionsFits
<1>5. /\ proc \in CallNotes(wire) /\ proc.finished = wire.stopped
      /\ \A i \in 1 .. Len(wire.items) :
           /\ wire.items[i].open
           /\ wire.items[i].kind = "text" <=> i = proc.text
           /\ wire.items[i].kind = "thinking" <=> i = proc.thinking
      /\ \A i \in ItemCalls(wire) : proc.byId[i] = i /\ proc.ids[i] = i
  BY <1>4 DEF CompletionsFits
<1>6. CASE CompletionsOther
  BY <1>1, <1>4, <1>6, CompletionsGoes DEF CompletionsOther
<1>7. CASE CompletionsText
  <2>. PICK kind \in {"text", "thinking"} :
    LET there == IF kind = "text" THEN proc.text ELSE proc.thinking
        added == IF there = 0 THEN AddBlock(out, kind) ELSE out
        i == IF there = 0 THEN Len(added.blocks) ELSE there
        p == IF kind = "text" THEN [proc EXCEPT !.text = i]
             ELSE [proc EXCEPT !.thinking = i]
        item == IF there = 0 THEN NextItem
                ELSE CHOOSE j \in Items : wire.items[j].kind = kind
    IN /\ IF there = 0 THEN CanOpen ELSE CanGrow(item)
       /\ Read(IF there = 0 THEN OpenedWith(kind) ELSE Grown(item),
                           Went(p, Extend(added, i, kind, item)))
    BY <1>7 DEF CompletionsText
  <2>. DEFINE there == IF kind = "text" THEN proc.text ELSE proc.thinking
  <2>1. kind \in Kinds
    BY DEF Kinds
  <2>2. CASE there = 0
    <3>. DEFINE added == AddBlock(out, kind)
                p == IF kind = "text" THEN [proc EXCEPT !.text = NextItem]
                     ELSE [proc EXCEPT !.thinking = NextItem]
                more == Extend(added, NextItem, kind, NextItem)
                v == WithItem(wire, kind)
                w == Grow(v, NextItem)
    <3>1. CanOpen
      BY <2>2
    <3>2. /\ Len(added.blocks) = NextItem
          /\ Follows(out, more, OpenedWith(kind)) /\ more.started
      BY <1>3, <1>4, <2>1, <3>1, OpenedFollows
    <3>3. Len(wire.items) < MaxItems /\ Len(wire.items) \in Nat
      BY <1>3, <3>1, ItemFacts
    <3>4. OpenedWith(kind) = w
      BY <1>3, <2>1, <3>3, OpenedWithIs
    <3>5. Read(w, Went(p, more))
      BY <2>2, <3>2, <3>4
    <3>6. /\ v \in Wires /\ v.stopped = wire.stopped
          /\ Len(v.items) = NextItem /\ v.items[NextItem] = Item(kind)
          /\ \A i \in 1 .. Len(wire.items) : v.items[i] = wire.items[i]
      BY <1>3, <2>1, <3>3, AddItem DEF NextItem
    <3>7. /\ v.items[NextItem].kind = kind /\ v.items[NextItem].open
          /\ NextItem = Len(wire.items) + 1
          /\ NextItem \in 1 .. Len(v.items) /\ NextItem \notin 1 .. Len(wire.items)
      BY <3>3, <3>6 DEF Item, NextItem
    <3>. HIDE DEF v
    <3>8. /\ w \in Wires /\ w.stopped = v.stopped /\ Len(w.items) = Len(v.items)
          /\ w.items[NextItem].kind = kind /\ w.items[NextItem].open
          /\ \A i \in 1 .. Len(v.items) \ {NextItem} : w.items[i] = v.items[i]
      BY <3>6, <3>7, GrowItem, SMTT(30)
    <3>9. \A i \in 1 .. Len(wire.items) : w.items[i] = wire.items[i]
      BY <3>3, <3>6, <3>7, <3>8, SMTT(30)
    <3>. HIDE DEF w, more
    <3>10. CompletionsFits(p, TRUE, w)
      BY <1>3, <1>4, <2>2, <3>6, <3>7, <3>8, <3>9, TextFits
    <3>. HIDE DEF p
    <3>. QED
      BY <1>1, <3>2, <3>4, <3>5, <3>10, CompletionsGoes
  <2>3. CASE there # 0
    <3>. DEFINE item == CHOOSE j \in Items : wire.items[j].kind = kind
                more == Extend(out, there, wire.items[there].kind, there)
    <3>1. Items = 1 .. Len(wire.items) /\ Len(wire.items) \in Nat
      BY <1>3, ItemFacts
    <3>2. there \in 1 .. Len(wire.items)
      BY <1>5, <2>3, <3>1 DEF CallNotes
    <3>3. /\ wire.items[there].kind = kind
          /\ \A j \in 1 .. Len(wire.items) : wire.items[j].kind = kind => j = there
      <4>1. CASE kind = "text"
        BY <1>5, <3>2, <4>1
      <4>2. CASE kind = "thinking"
        BY <1>5, <3>2, <4>2
      <4>. QED
        BY <4>1, <4>2
    <3>4. item = there
      BY <3>1, <3>2, <3>3
    <3>5. (IF kind = "text" THEN [proc EXCEPT !.text = there]
           ELSE [proc EXCEPT !.thinking = there]) = proc
      BY <1>5 DEF CallNotes
    <3>. HIDE DEF item, there
    <3>6. Read(Grow(wire, there), Went(proc, more))
      <4>1. Read(Grown(item),
                 Went(IF kind = "text" THEN [proc EXCEPT !.text = there]
                      ELSE [proc EXCEPT !.thinking = there],
                      Extend(out, there, kind, item)))
        BY <2>3 DEF item, there
      <4>. QED
        BY <3>3, <3>4, <3>5, <4>1, WireNames
    <3>7. Follows(out, more, Grow(wire, there)) /\ more.started
      BY <1>3, <1>4, <1>5, <3>2, GrownFollows
    <3>8. CompletionsFits(proc, TRUE, Grow(wire, there))
      BY <1>3, <1>4, <3>2, GrownFits
    <3>. HIDE DEF more
    <3>. QED
      BY <1>1, <3>6, <3>7, <3>8, CompletionsGoes
  <2>. QED
    BY <2>2, <2>3
<1>8. CASE CompletionsCallStart
  <2>. PICK index \in IndexesOf(NextItem) \cup {NoIndex} :
         CallFragment(OpenedWith("toolCall"), NextItem, index, NextItem, TRUE)
    BY <1>8 DEF CompletionsCallStart
  <2>. DEFINE added == AddBlock(out, "toolCall")
              more == Extend(added, NextItem, "toolCall", NextItem)
              p == CallNoted(index, NextItem, NextItem)
              v == WithItem(wire, "toolCall")
              w == Grow(v, NextItem)
  <2>1. CanOpen /\ "toolCall" \in Kinds
    BY <1>8 DEF CompletionsCallStart, Kinds
  <2>2. /\ Len(wire.items) < MaxItems /\ Len(wire.items) \in Nat /\ MaxItems \in Nat
        /\ NextItem = Len(wire.items) + 1 /\ NextItem \in 1 .. MaxItems
    BY <1>3, <2>1, ItemFacts, HttpStreamAssumption DEF NextItem
  <2>3. index \in Indexes
    BY <2>2 DEF Indexes, IndexesOf
  <2>4. CallBlock(index, NextItem, TRUE) = 0
    BY <1>3, <1>4, <2>2, <2>3, NewCall
  <2>5. /\ Len(added.blocks) = NextItem
        /\ Follows(out, more, OpenedWith("toolCall")) /\ more.started
    BY <1>3, <1>4, <2>1, OpenedFollows
  <2>6. OpenedWith("toolCall") = w
    BY <1>3, <2>1, <2>2, OpenedWithIs
  <2>7. Read(w, Went(p, more))
    BY <2>4, <2>5, <2>6 DEF CallFragment
  <2>8. /\ v \in Wires /\ v.stopped = wire.stopped
        /\ Len(v.items) = NextItem /\ v.items[NextItem] = Item("toolCall")
        /\ \A i \in 1 .. Len(wire.items) : v.items[i] = wire.items[i]
    BY <1>3, <2>1, <2>2, AddItem
  <2>9. /\ v.items[NextItem].kind = "toolCall" /\ v.items[NextItem].open
        /\ NextItem \in 1 .. Len(v.items) /\ NextItem \notin 1 .. Len(wire.items)
    BY <2>2, <2>8 DEF Item
  <2>. HIDE DEF v
  <2>10. /\ w \in Wires /\ w.stopped = v.stopped /\ Len(w.items) = Len(v.items)
         /\ w.items[NextItem].kind = "toolCall" /\ w.items[NextItem].open
         /\ \A i \in 1 .. Len(v.items) \ {NextItem} : w.items[i] = v.items[i]
    BY <2>8, <2>9, GrowItem
  <2>. HIDE DEF w, more
  <2>11. \A i \in 1 .. Len(w.items) :
           /\ w.items[i].open
           /\ i \in 1 .. Len(wire.items) => w.items[i].kind = wire.items[i].kind
           /\ i \in 1 .. Len(wire.items) \/ i = NextItem
    <3>. TAKE i \in 1 .. Len(w.items)
    <3>1. CASE i = NextItem
      BY <2>9, <2>10, <3>1
    <3>2. CASE i # NextItem
      <4>1. i \in 1 .. Len(wire.items)
        BY <2>2, <2>8, <2>10, <3>2
      <4>2. w.items[i] = wire.items[i]
        BY <2>8, <2>10, <3>2, <4>1
      <4>. QED
        BY <1>5, <4>1, <4>2
    <3>. QED
      BY <3>1, <3>2
  <2>12. Len(wire.items) <= Len(w.items) /\ NextItem \in 1 .. Len(w.items)
    BY <2>2, <2>8, <2>9, <2>10
  <2>13. CompletionsFits(p, TRUE, w)
    BY <1>3, <1>4, <2>3, <2>8, <2>10, <2>11, <2>12, NotedFits
  <2>. HIDE DEF p
  <2>. QED
    BY <1>1, <2>5, <2>6, <2>7, <2>13, CompletionsGoes
<1>9. CASE CompletionsCallDelta
  <2>. PICK j \in Items :
         /\ CanGrow(j) /\ wire.items[j].kind = "toolCall"
         /\ \E index \in IndexesOf(j) \cup {NoIndex},
               id \in {NoId, j, MaxItems + j} :
              /\ index # NoIndex => proc.byIndex[index] = proc.byId[j]
              /\ index = NoIndex /\ id = NoId => proc.last = proc.byId[j]
              /\ id > MaxItems => index # NoIndex
              /\ CallFragment(Grown(j), j, index, id, FALSE)
    BY <1>9 DEF CompletionsCallDelta
  <2>. PICK index \in IndexesOf(j) \cup {NoIndex}, id \in {NoId, j, MaxItems + j} :
         /\ index # NoIndex => proc.byIndex[index] = proc.byId[j]
         /\ index = NoIndex /\ id = NoId => proc.last = proc.byId[j]
         /\ id > MaxItems => index # NoIndex
         /\ CallFragment(Grown(j), j, index, id, FALSE)
    OBVIOUS
  <2>. DEFINE more == Extend(out, j, wire.items[j].kind, j)
              p == CallNoted(index, id, j)
              w == Grow(wire, j)
  <2>1. /\ j \in 1 .. Len(wire.items) /\ Len(wire.items) \in Nat
        /\ j \in ItemCalls(wire) /\ j # 0
    BY <1>3, ItemFacts DEF ItemCalls
  <2>2. proc.byId[j] = j
    BY <1>5, <2>1
  <2>3. index \in Indexes
    <3>1. Len(wire.items) <= MaxItems /\ MaxItems \in Nat
      BY <1>3, HttpStreamAssumption DEF Wires
    <3>. QED
      BY <2>1, <3>1 DEF Indexes, IndexesOf
  <2>4. CallBlock(index, id, FALSE) = j
    <3>1. /\ index # NoIndex => proc.byIndex[index] = j
          /\ index = NoIndex /\ id = NoId => proc.last = j
          /\ id > MaxItems => index # NoIndex
      BY <2>2
    <3>. QED
      BY <1>3, <1>4, <2>1, <2>3, <3>1, CallFound
  <2>5. Read(w, Went(p, more))
    <3>1. CallFragment(Grown(j), j, index, id, FALSE)
      OBVIOUS
    <3>. QED
      BY <2>1, <2>4, <3>1, WireNames DEF CallFragment
  <2>6. Follows(out, more, w) /\ more.started
    BY <1>3, <1>4, <1>5, <2>1, GrownFollows
  <2>7. /\ w \in Wires /\ w.stopped = wire.stopped
        /\ Len(w.items) = Len(wire.items)
        /\ \A i \in 1 .. Len(wire.items) : /\ w.items[i].kind = wire.items[i].kind
                                           /\ w.items[i].open = wire.items[i].open
    BY <1>3, <2>1, GrowItem
  <2>. HIDE DEF w, more
  <2>8. Len(wire.items) <= Len(w.items) /\ w.items[j].kind = "toolCall"
    BY <2>1, <2>7
  <2>9. CompletionsFits(p, TRUE, w)
    BY <1>3, <1>4, <1>5, <2>1, <2>3, <2>7, <2>8, NotedFits
  <2>. HIDE DEF p
  <2>. QED
    BY <1>1, <2>5, <2>6, <2>9, CompletionsGoes
<1>10. CASE CompletionsFinishReason
  <2>. PICK reason \in {"stop", "length", "toolUse", "error"} :
         Read(Stopped, Went([proc EXCEPT !.finished = TRUE],
                            [out EXCEPT !.reason = reason]))
    BY <1>10 DEF CompletionsFinishReason
  <2>. DEFINE p == [proc EXCEPT !.finished = TRUE]
              told == [out EXCEPT !.reason = reason]
              v == Stop(wire)
  <2>1. Read(v, Went(p, told))
    BY WireNames
  <2>2. Follows(out, told, v) /\ told.started
    BY <1>3, <1>4, StoppedFollows DEF Reasons
  <2>3. v.items = wire.items /\ v.stopped = TRUE
    BY <1>3, StopWire
  <2>. HIDE DEF v
  <2>4. ItemCalls(v) = ItemCalls(wire)
    BY <2>3 DEF ItemCalls
  <2>5. CallNotes(v) = CallNotes(wire)
    BY <2>3, <2>4 DEF CallNotes
  <2>6. /\ p \in CallNotes(wire) /\ p.finished = TRUE /\ p.text = proc.text
        /\ p.thinking = proc.thinking /\ p.byId = proc.byId /\ p.ids = proc.ids
    BY <1>5 DEF CallNotes
  <2>. HIDE DEF p, told
  <2>7. p.finished = v.stopped
    BY <2>3, <2>6, Zenon
  <2>8. \A k \in Len(wire.items) + 1 .. MaxItems :
          proc.byId[k] = 0 /\ proc.ids[k] = NoId
    BY <1>4 DEF CompletionsFits
  <2>9. CompletionsFits(p, TRUE, v)
    BY <1>5, <2>3, <2>4, <2>5, <2>6, <2>7, <2>8 DEF CompletionsFits
  <2>. QED
    BY <1>1, <2>1, <2>2, <2>9, CompletionsGoes
<1>11. CASE CompletionsEnds
  BY <1>1, <1>2, <1>11, CompletionsEndKeeps
<1>. QED
  BY <1>6, <1>7, <1>8, <1>9, <1>10, <1>11 DEF CompletionsNext

-----------------------------------------------------------------------------
(* Responses                                                               *)

\* An item that is done, with a last fragment or none.
LEMMA DoneItem ==
  ASSUME NEW w \in Wires, NEW i \in 1 .. Len(w.items), NEW rest \in {0, 1}
  PROVE  LET v == [w EXCEPT !.items[i].sent = @ + rest, !.items[i].open = FALSE]
         IN /\ v \in Wires /\ v.stopped = w.stopped
            /\ Len(v.items) = Len(w.items)
            /\ v.items[i].kind = w.items[i].kind
            /\ v.items[i].brought = w.items[i].brought
            /\ v.items[i].sent = w.items[i].sent + rest
            /\ v.items[i].open = FALSE
            /\ \A j \in 1 .. Len(w.items) \ {i} : v.items[j] = w.items[j]
<1>. DEFINE more == [w.items[i] EXCEPT !.sent = @ + rest]
            its == [w.items EXCEPT ![i] = more]
            u == [w EXCEPT !.items = its]
<1>1. /\ w \in [items : Seq(ItemRecords), stopped : BOOLEAN]
      /\ w.items \in Seq(ItemRecords) /\ Len(w.items) \in Nat
      /\ w.items[i] \in ItemRecords /\ Len(w.items) <= MaxItems
  BY DEF Wires
<1>2. /\ more \in ItemRecords /\ more.kind = w.items[i].kind
      /\ more.brought = w.items[i].brought /\ more.sent = w.items[i].sent + rest
  BY <1>1 DEF ItemRecords
<1>3. [w EXCEPT !.items[i].sent = @ + rest, !.items[i].open = FALSE] = Close(u, i)
  BY <1>1 DEF Close
<1>. HIDE DEF more
<1>4. /\ its \in Seq(ItemRecords) /\ Len(its) = Len(w.items) /\ its[i] = more
      /\ \A j \in 1 .. Len(w.items) \ {i} : its[j] = w.items[j]
  BY <1>1, <1>2, ExceptSeq
<1>. HIDE DEF its
<1>5. u \in Wires /\ u.items = its /\ u.stopped = w.stopped
  BY <1>1, <1>4 DEF Wires
<1>. HIDE DEF u
<1>6. LET v == Close(u, i)
      IN /\ v \in Wires /\ v.stopped = u.stopped
         /\ Len(v.items) = Len(u.items)
         /\ v.items[i].kind = u.items[i].kind
         /\ v.items[i].brought = u.items[i].brought
         /\ v.items[i].sent = u.items[i].sent /\ v.items[i].open = FALSE
         /\ \A j \in 1 .. Len(u.items) \ {i} : v.items[j] = u.items[j]
  <2>1. u \in Wires /\ i \in 1 .. Len(u.items)
    BY <1>4, <1>5
  <2>. QED
    BY <2>1, CloseItem, ZenonT(30)
<1>. QED
  BY <1>2, <1>3, <1>4, <1>5, <1>6

LEMMA ReplacedLength ==
  ASSUME NEW o \in Streams, NEW b \in 1 .. Len(o.blocks), NEW parts \in Seq(Int)
  PROVE  Len(Replaced(o, b, parts).blocks) = Len(o.blocks)
<1>. DEFINE block == [o.blocks[b] EXCEPT !.parts = IF parts = <<>> THEN @ ELSE parts]
            blocks == [o.blocks EXCEPT ![b] = block]
<1>1. o.blocks \in Seq(Blocks) /\ o.blocks[b] \in Blocks
  BY DEF Streams
<1>2. block \in Blocks
  BY <1>1 DEF Blocks
<1>3. Replaced(o, b, parts).blocks = blocks
  BY DEF Replaced, Streams
<1>. HIDE DEF block
<1>4. Len(blocks) = Len(o.blocks)
  BY <1>1, <1>2, ExceptSeq
<1>. QED
  BY <1>3, <1>4

\* The slot of an item put into its block, which has what the item came with.
LEMMA UnslottedFollows ==
  ASSUME api = "responses", Agree(out, wire), Told(out), out.started,
         NEW i \in 1 .. Len(wire.items), wire.items[i].open, proc.at[i] = i
  PROVE  /\ Follows(out, Unslotted(i), wire) /\ Unslotted(i).started
         /\ Agree(Unslotted(i), wire)
         /\ Unslotted(i).blocks[i].lead = IF wire.items[i].brought THEN i ELSE 0
<1>. DEFINE lead == IF wire.items[i].brought THEN i ELSE 0
<1>1. lead \in Nat /\ i # 0
  BY DEF Agree, Wires
<1>2. Leads(lead, wire.items[i], i)
  BY <1>1 DEF Leads
<1>3. Unslotted(i) = LedBy(out, i, lead)
  BY DEF Unslotted
<1>. HIDE DEF lead
<1>4. Follows(out, out, wire)
  BY NothingFollows
<1>5. /\ Follows(out, LedBy(out, i, lead), wire) /\ LedBy(out, i, lead).started
      /\ LedBy(out, i, lead).blocks[i].lead = lead
  BY <1>1, <1>2, <1>4, LedFollows
<1>. QED
  BY <1>3, <1>5 DEF lead, Follows

LEMMA ResponsesGoes ==
  ASSUME StreamInv, api = "responses", NEW w, NEW p, NEW o, Read(w, Went(p, o)),
         Follows(out, o, w), o.started, p \in [at : SlotMaps], Slots(p.at, w),
         ~w.stopped
  PROVE  StreamInv' /\ Moves
<1>1. ResponsesFits(p, o.started, w)
  BY DEF ResponsesFits
<1>2. ProcFits(p, o.started, w)
  BY <1>1 DEF ProcFits
<1>. QED
  BY <1>2, WentOn, ZenonT(30)

LEMMA ResponsesItemKeeps ==
  ASSUME StreamInv, api = "responses", task = "reading", ResponsesItemDone
  PROVE  StreamInv' /\ Moves
<1>1. /\ Agree(out, wire) /\ Told(out) /\ wire \in Wires /\ out.outcome = "none"
      /\ ResponsesFits(proc, out.started, wire)
  BY ReadingFacts DEF ProcFits
<1>2. /\ out.started /\ Follows(out, out, wire)
      /\ proc \in [at : SlotMaps] /\ Slots(proc.at, wire) /\ ~wire.stopped
  BY <1>1, NothingOn DEF ResponsesFits
<1>3. ASSUME NEW i \in OpenItems, NEW rest \in {0, 1},
             LET w == [wire EXCEPT !.items[i].sent = @ + rest,
                                   !.items[i].open = FALSE]
                 whole == Replaced(Unslotted(i), proc.at[i], Whole(i, w))
             IN Read(w, Went([proc EXCEPT !.at[i] = 0],
                             PushBlockEnd(whole, proc.at[i])))
      PROVE  StreamInv' /\ Moves
  <2>. DEFINE w == [wire EXCEPT !.items[i].sent = @ + rest, !.items[i].open = FALSE]
              led == Unslotted(i)
              last == PushBlockEnd(Replaced(led, i, Whole(i, w)), i)
              at == [proc.at EXCEPT ![i] = 0]
              p == [proc EXCEPT !.at = at]
  <2>1. i \in 1 .. Len(wire.items) /\ wire.items[i].open
    BY <1>1, ItemFacts
  <2>2. proc.at[i] = i
    BY <1>1, <1>2, <2>1, SlotOf
  <2>3. [proc EXCEPT !.at[i] = 0] = p
    BY <1>2
  <2>4. Read(w, Went(p, last))
    BY <1>3, <2>2, <2>3
  <2>5. /\ w \in Wires /\ w.stopped = wire.stopped
        /\ Len(w.items) = Len(wire.items)
        /\ w.items[i].kind = wire.items[i].kind
        /\ w.items[i].brought = wire.items[i].brought
        /\ w.items[i].sent = wire.items[i].sent + rest
        /\ w.items[i].open = FALSE
        /\ \A j \in 1 .. Len(wire.items) \ {i} : w.items[j] = wire.items[j]
    BY <1>1, <2>1, DoneItem, ZenonT(30)
  <2>. HIDE DEF w
  <2>6. w.items[i].sent >= wire.items[i].sent
    <3>1. wire.items[i] \in ItemRecords
      BY <1>1, <2>1, ItemFacts
    <3>2. wire.items[i].sent \in Nat
      BY <3>1 DEF ItemRecords
    <3>. QED
      BY <2>5, <3>2
  <2>12. /\ Follows(out, led, wire) /\ Agree(led, wire)
         /\ led.blocks[i].lead = IF wire.items[i].brought THEN i ELSE 0
    BY <1>1, <1>2, <2>1, <2>2, UnslottedFollows
  <2>13. Leads(led.blocks[i].lead, w.items[i], i)
    BY <2>5, <2>12 DEF Leads
  <2>7. Follows(out, last, w)
    <3>. HIDE DEF led
    <3>1. Follows(led, PushBlockEnd(Replaced(led, i, Whole(i, w)), i), w)
      BY <2>1, <2>5, <2>6, <2>12, <2>13, WholeFollows
    <3>. QED
      BY <1>1, <2>12, <3>1, FollowsOn
  <2>8. Slots(at, w)
    BY <1>1, <1>2, <2>1, <2>5, SlotsClosed
  <2>9. at \in SlotMaps
    BY <2>8 DEF Slots
  <2>. HIDE DEF at, last
  <2>10. p \in [at : SlotMaps] /\ p.at = at
    BY <1>2, <2>9
  <2>11. last.started
    BY <1>2, <2>7 DEF Follows, Steps
  <2>. HIDE DEF p
  <2>. QED
    BY <1>2, <2>4, <2>5, <2>7, <2>8, <2>10, <2>11, ResponsesGoes
<1>4. ASSUME CanOpen, NEW kind \in Kinds,
             LET w == [OpenedWith(kind) EXCEPT !.items[NextItem].open = FALSE]
                 added == AddBlock(out, kind)
                 whole == Replaced(added, Len(added.blocks), Whole(NextItem, w))
             IN Read(w, Went(proc, PushBlockEnd(whole, Len(whole.blocks))))
      PROVE  StreamInv' /\ Moves
  <2>. DEFINE u == WithItem(wire, kind)
              g == Grow(u, NextItem)
              w == Close(g, NextItem)
              added == AddBlock(out, kind)
              whole == Replaced(added, NextItem, Whole(NextItem, w))
              last == PushBlockEnd(whole, NextItem)
  <2>1. Len(wire.items) < MaxItems /\ Len(wire.items) \in Nat
    BY <1>1, <1>4, ItemFacts
  <2>2. OpenedWith(kind) = g
    BY <1>1, <2>1, OpenedWithIs
  <2>3. [OpenedWith(kind) EXCEPT !.items[NextItem].open = FALSE] = w
    BY <2>2 DEF Close
  <2>4. Follows(out, added, u) /\ added.started /\ Len(added.blocks) = NextItem
    BY <1>1, <1>2, <1>4, OpenedFollows
  <2>5. /\ u \in Wires /\ u.stopped = wire.stopped /\ Len(u.items) = NextItem
        /\ u.items[NextItem] = Item(kind)
        /\ \A i \in 1 .. Len(wire.items) : u.items[i] = wire.items[i]
    BY <1>1, <2>1, AddItem DEF NextItem
  <2>. HIDE DEF u
  <2>6. /\ NextItem \in 1 .. Len(u.items) /\ u.items[NextItem].open
        /\ u.items[NextItem].sent = 0
    BY <2>1, <2>5 DEF Item, NextItem
  <2>7. /\ g \in Wires /\ g.stopped = u.stopped /\ Len(g.items) = Len(u.items)
        /\ g.items[NextItem].kind = u.items[NextItem].kind
        /\ g.items[NextItem].brought = u.items[NextItem].brought
        /\ g.items[NextItem].sent = u.items[NextItem].sent + 1
        /\ \A j \in 1 .. Len(u.items) \ {NextItem} : g.items[j] = u.items[j]
    BY <2>5, <2>6, GrowItem
  <2>. HIDE DEF g
  <2>8. /\ w \in Wires /\ w.stopped = g.stopped /\ Len(w.items) = Len(g.items)
        /\ w.items[NextItem].kind = g.items[NextItem].kind
        /\ w.items[NextItem].brought = g.items[NextItem].brought
        /\ w.items[NextItem].sent = g.items[NextItem].sent
        /\ w.items[NextItem].open = FALSE
        /\ \A j \in 1 .. Len(g.items) \ {NextItem} : w.items[j] = g.items[j]
    <3>1. NextItem \in 1 .. Len(g.items)
      BY <2>6, <2>7
    <3>. QED
      BY <2>7, <3>1, CloseItem
  <2>. HIDE DEF w, added
  <2>9. /\ Len(w.items) = Len(u.items) /\ w.items[NextItem].kind = u.items[NextItem].kind
        /\ w.items[NextItem].sent = 1
        /\ \A j \in 1 .. Len(u.items) \ {NextItem} : w.items[j] = u.items[j]
    BY <2>6, <2>7, <2>8
  <2>10. Agree(added, u) /\ added \in Streams
    BY <2>4 DEF Follows, Agree, Told
  <2>17. Leads(added.blocks[NextItem].lead, w.items[NextItem], NextItem)
    <3>1. Bears(added.blocks[NextItem], u.items[NextItem], NextItem)
      BY <2>6, <2>10, AgreeFacts
    <3>2. w.items[NextItem].brought = FALSE /\ u.items[NextItem].brought = FALSE
      BY <2>5, <2>7, <2>8 DEF Item
    <3>. QED
      BY <3>1, <3>2 DEF Bears, Leads
  <2>11. Follows(added, last, w)
    <3>1. w.items[NextItem].sent >= u.items[NextItem].sent
      BY <2>6, <2>9
    <3>2. w \in Wires /\ w.items[NextItem].open = FALSE
      BY <2>8
    <3>. QED
      BY <2>6, <2>9, <2>10, <2>17, <3>1, <3>2, WholeFollows
  <2>12. Whole(NextItem, w) \in Seq(Int)
    <3>1. Whole(NextItem, w) = [k \in 1 .. 1 |-> NextItem]
      BY <2>9 DEF Whole
    <3>2. NextItem \in Int
      BY <2>1 DEF NextItem
    <3>. QED
      BY <3>1, <3>2, IsASeq
  <2>13. Len(whole.blocks) = NextItem
    BY <2>4, <2>5, <2>6, <2>10, <2>12, ReplacedLength
  <2>14. Read(w, Went(proc, last))
    BY <1>4, <2>3, <2>4, <2>13 DEF added
  <2>. HIDE DEF whole, last
  <2>15. Follows(out, last, w) /\ last.started
    <3>1. Follows(out, last, w)
      BY <1>1, <2>4, <2>11, FollowsOn
    <3>. QED
      BY <1>2, <3>1 DEF Follows, Steps
  <2>16. Slots(proc.at, w)
    <3>1. proc.at \in SlotMaps /\ MaxItems \in Nat
      BY <1>2, HttpStreamAssumption DEF Slots
    <3>2. ASSUME NEW i \in 1 .. MaxItems
          PROVE  proc.at[i] = IF i \in 1 .. Len(w.items) /\ w.items[i].open
                              THEN i ELSE 0
      <4>1. CASE i = NextItem
        <5>1. i \notin 1 .. Len(wire.items)
          BY <2>1, <4>1 DEF NextItem
        <5>. QED
          BY <1>2, <2>8, <4>1, <5>1 DEF Slots
      <4>2. CASE i # NextItem
        <5>1. i \in 1 .. Len(w.items) <=> i \in 1 .. Len(wire.items)
          BY <2>1, <2>5, <2>9, <4>2 DEF NextItem
        <5>2. i \in 1 .. Len(wire.items) => w.items[i] = wire.items[i]
          BY <2>5, <2>9, <4>2, <5>1
        <5>. QED
          BY <1>2, <5>1, <5>2 DEF Slots
      <4>. QED
        BY <4>1, <4>2
    <3>. QED
      BY <3>1, <3>2 DEF Slots
  <2>. QED
    BY <1>2, <2>5, <2>7, <2>8, <2>14, <2>15, <2>16, ResponsesGoes
<1>. QED
  BY <1>3, <1>4 DEF ResponsesItemDone

LEMMA ResponsesKeeps ==
  ASSUME StreamInv, ResponsesNext
  PROVE  StreamInv' /\ Moves
<1>1. api = "responses"
  BY DEF ResponsesNext
<1>2. task = "reading"
  BY DEF ResponsesNext, ResponsesOther, ResponsesItemAdded, ResponsesDelta,
         ResponsesSummaryPart, ResponsesArguments, ResponsesItemDone,
         ResponsesCompleted, ResponsesError, ResponsesEnds, Read, BodyEnds
<1>3. /\ Agree(out, wire) /\ Told(out) /\ wire \in Wires /\ out.outcome = "none"
      /\ ResponsesFits(proc, out.started, wire)
  BY <1>1, <1>2, ReadingFacts DEF ProcFits
<1>4. /\ out.started /\ Follows(out, out, wire)
      /\ proc \in [at : SlotMaps] /\ Slots(proc.at, wire) /\ ~wire.stopped
  BY <1>2, <1>3, NothingOn DEF ResponsesFits
<1>5. Leaves(out, out, wire)
  BY <1>4, FollowsLeaves
<1>6. CASE ResponsesOther
  BY <1>1, <1>4, <1>6, ResponsesGoes DEF ResponsesOther
<1>7. CASE ResponsesItemAdded
  <2>. PICK kind \in Kinds, brings \in BOOLEAN :
         /\ brings => kind = "toolCall"
         /\ Read(IF brings THEN OpenedBringing(kind) ELSE Opened(kind), Slotted(kind))
    BY <1>7 DEF ResponsesItemAdded
  <2>. DEFINE added == AddBlock(out, kind)
              at == [proc.at EXCEPT ![NextItem] = NextItem]
              p == [proc EXCEPT !.at = at]
              v == IF brings THEN OpenedBringing(kind) ELSE WithItem(wire, kind)
  <2>1. CanOpen
    BY <1>7 DEF ResponsesItemAdded
  <2>3. Len(wire.items) < MaxItems /\ Len(wire.items) \in Nat
    BY <1>3, <2>1, ItemFacts
  <2>2. Follows(out, added, v) /\ added.started /\ Len(added.blocks) = NextItem
    <3>1. CASE ~brings
      <4>. v = WithItem(wire, kind)
        BY <3>1
      <4>. QED
        BY <1>3, <1>4, <2>1, OpenedFollows
    <3>2. CASE brings
      <4>1. v = OpenedBringing(kind) /\ kind = "toolCall"
        BY <3>2
      <4>2. /\ v.items[NextItem].kind = "toolCall" /\ v.items[NextItem].open
        BY <1>3, <2>3, <4>1, BroughtItem
      <4>3. Leads(0, v.items[NextItem], NextItem)
        BY <4>2 DEF Leads
      <4>. HIDE DEF v
      <4>. QED
        BY <1>3, <1>4, <2>1, <4>1, <4>3, BroughtFollows
    <3>. QED
      BY <3>1, <3>2
  <2>4. Slots(at, v) /\ v.stopped = wire.stopped
    <3>1. CASE ~brings
      <4>1. v = WithItem(wire, kind)
        BY <3>1
      <4>2. Slots(at, WithItem(wire, kind))
        BY <1>3, <1>4, <2>3, SlotsOpened DEF NextItem
      <4>3. WithItem(wire, kind).stopped = wire.stopped
        BY <1>3, <2>3, AddItem
      <4>. QED
        BY <4>1, <4>2, <4>3
    <3>2. CASE brings
      <4>1. v = OpenedBringing(kind)
        BY <3>2
      <4>. HIDE DEF v
      <4>2. /\ v.stopped = wire.stopped /\ Len(v.items) = Len(wire.items) + 1
            /\ v.items[Len(wire.items) + 1].open
            /\ \A i \in 1 .. Len(wire.items) : v.items[i] = wire.items[i]
        BY <1>3, <2>3, <4>1, BroughtItem DEF NextItem
      <4>3. Slots([proc.at EXCEPT ![Len(wire.items) + 1] = Len(wire.items) + 1], v)
        BY <1>3, <1>4, <2>3, <4>2, SlotsBegun
      <4>. QED
        BY <4>2, <4>3 DEF NextItem
    <3>. QED
      BY <3>1, <3>2
  <2>6. [proc EXCEPT !.at[NextItem] = NextItem] = p
    BY <1>4
  <2>7. Read(v, Went(p, added))
    BY <2>2, <2>6, WireNames DEF Slotted
  <2>8. at \in SlotMaps
    BY <2>4 DEF Slots
  <2>. HIDE DEF at, added, v
  <2>9. p \in [at : SlotMaps] /\ p.at = at
    BY <1>4, <2>8
  <2>. HIDE DEF p
  <2>. QED
    BY <1>1, <1>4, <2>2, <2>4, <2>7, <2>9, ResponsesGoes
<1>8. CASE ResponsesDelta
  <2>. PICK i \in Items :
         /\ CanGrow(i)
         /\ Read(Grown(i),
              Went(proc, Extend(Unslotted(i), proc.at[i], wire.items[i].kind, i)))
    BY <1>8 DEF ResponsesDelta
  <2>. DEFINE led == Unslotted(i)
              more == Extend(led, i, wire.items[i].kind, i)
  <2>1. i \in 1 .. Len(wire.items) /\ wire.items[i].open
    BY <1>3, ItemFacts
  <2>2. proc.at[i] = i
    BY <1>3, <1>4, <2>1, SlotOf
  <2>3. Read(Grow(wire, i), Went(proc, more))
    BY <2>2, WireNames
  <2>6. Follows(out, led, wire) /\ led.started
    BY <1>1, <1>3, <1>4, <2>1, <2>2, UnslottedFollows
  <2>4. Follows(out, more, Grow(wire, i)) /\ more.started
    BY <1>3, <2>1, <2>6, GrownFollows
  <2>5. Slots(proc.at, Grow(wire, i)) /\ Grow(wire, i).stopped = wire.stopped
    BY <1>3, <1>4, <2>1, SlotsGrown, GrowItem
  <2>. HIDE DEF more
  <2>. QED
    BY <1>1, <1>4, <2>3, <2>4, <2>5, ResponsesGoes
<1>9. CASE ResponsesSummaryPart
  <2>. PICK i \in OpenItems :
         /\ wire.items[i].kind = "thinking"
         /\ Read(wire, Went(proc, Extend(out, proc.at[i], "thinking", Separator)))
    BY <1>9 DEF ResponsesSummaryPart
  <2>. DEFINE more == Extend(out, i, "thinking", Separator)
  <2>1. i \in 1 .. Len(wire.items) /\ wire.items[i].open
    BY <1>3, ItemFacts
  <2>2. proc.at[i] = i
    BY <1>3, <1>4, <2>1, SlotOf
  <2>3. Read(wire, Went(proc, more))
    BY <2>2
  <2>4. Follows(out, more, wire)
    BY <1>3, <2>1, SeparatorFollows
  <2>5. more.started
    BY <1>4, <2>4 DEF Follows, Steps
  <2>. HIDE DEF more
  <2>. QED
    BY <1>1, <1>4, <2>3, <2>4, <2>5, ResponsesGoes
<1>10. CASE ResponsesArguments
  <2>. PICK i \in OpenItems :
         /\ wire.items[i].kind = "toolCall"
         /\ \/ Read(wire, Went(proc, Replaced(Unslotted(i), proc.at[i], Whole(i, wire))))
            \/ /\ CanGrow(i)
               /\ Read(Grown(i),
                    Went(proc,
                         PushDelta(Replaced(Unslotted(i), proc.at[i],
                                            Whole(i, Grown(i))),
                                   proc.at[i], "toolCall", i)))
    BY <1>10 DEF ResponsesArguments
  <2>. DEFINE led == Unslotted(i)
              more == Extend(led, i, wire.items[i].kind, i)
  <2>1. i \in 1 .. Len(wire.items) /\ wire.items[i].open
    BY <1>3, ItemFacts
  <2>2. proc.at[i] = i
    BY <1>3, <1>4, <2>1, SlotOf
  <2>3. Follows(out, led, wire) /\ led.started /\ Agree(led, wire)
    BY <1>1, <1>3, <1>4, <2>1, <2>2, UnslottedFollows
  <2>4. CASE Read(wire, Went(proc, Replaced(Unslotted(i), proc.at[i], Whole(i, wire))))
    <3>. HIDE DEF led
    <3>1. Replaced(led, i, Whole(i, wire)) = led
      BY <2>1, <2>3, ArgumentsWhole
    <3>2. Read(wire, Went(proc, led))
      BY <2>2, <2>4, <3>1 DEF led
    <3>. QED
      BY <1>1, <1>4, <2>3, <3>2, ResponsesGoes
  <2>5. CASE Read(Grown(i),
                  Went(proc,
                       PushDelta(Replaced(Unslotted(i), proc.at[i], Whole(i, Grown(i))),
                                 proc.at[i], "toolCall", i)))
    <3>1. PushDelta(Replaced(led, i, Whole(i, Grow(wire, i))), i, "toolCall", i) = more
      <4>. HIDE DEF led
      <4>. QED
        BY <2>1, <2>3, ArgumentsExtend
    <3>. HIDE DEF more
    <3>2. Read(Grow(wire, i), Went(proc, more))
      BY <2>2, <2>5, <3>1, WireNames
    <3>. HIDE DEF led
    <3>3. Follows(out, more, Grow(wire, i)) /\ more.started
      BY <1>3, <2>1, <2>3, GrownFollows DEF more
    <3>4. Slots(proc.at, Grow(wire, i)) /\ Grow(wire, i).stopped = wire.stopped
      BY <1>3, <1>4, <2>1, SlotsGrown, GrowItem
    <3>. QED
      BY <1>1, <1>4, <3>2, <3>3, <3>4, ResponsesGoes
  <2>. QED
    BY <2>4, <2>5
<1>11. CASE ResponsesItemDone
  BY <1>1, <1>2, <1>11, ResponsesItemKeeps
<1>12. CASE ResponsesCompleted
  <2>. PICK status \in {"stop", "length", "error"} :
         LET reason == IF status = "stop" /\ HasToolCall(out) THEN "toolUse"
                       ELSE status
             told == [out EXCEPT !.reason = reason]
         IN Read(Stopped, IF reason = "error" THEN Failed(proc, told)
                          ELSE Ended(proc, PushDone(told)))
    BY <1>12 DEF ResponsesCompleted
  <2>. DEFINE reason == IF status = "stop" /\ HasToolCall(out) THEN "toolUse"
                        ELSE status
              told == [out EXCEPT !.reason = reason]
              v == Stop(wire)
  <2>1. reason \in Reasons
    BY DEF Reasons
  <2>2. v = Stopped
    BY WireNames
  <2>3. v.items = wire.items /\ v.stopped = TRUE /\ AllEnded(wire)
    BY <1>3, <1>12, StopWire, ItemFacts DEF ResponsesCompleted
  <2>. HIDE DEF reason
  <2>4. Follows(out, told, v)
    BY <1>3, <1>4, <2>1, StoppedFollows
  <2>5. Leaves(out, told, v) /\ Leaves(out, PushDone(told), v)
    BY <2>4, FollowsLeaves, DoneLeaves
  <2>. HIDE DEF v, told
  <2>6. told.outcome = "none" /\ Agree(told, v)
    BY <2>4 DEF Follows, Agree
  <2>7. AllEnded(v)
    BY <2>3 DEF AllEnded
  <2>8. PushDone(told).shown = told.shown
    BY <2>6, AgreeFacts DEF PushDone, Push, Streams
  <2>9. \A i \in 1 .. Len(told.shown) : ~told.shown[i].open
    BY <2>6, <2>7, AgreeFacts DEF AllEnded
  <2>10. Concluded(PushDone(told), v)
    BY <2>3, <2>7, <2>8, <2>9 DEF Concluded
  <2>11. CASE Read(v, Failed(proc, told))
    BY <2>5, <2>6, <2>11, HasFailed
  <2>12. CASE Read(v, Ended(proc, PushDone(told)))
    BY <2>5, <2>10, <2>12, HasEnded
  <2>13. Read(v, IF reason = "error" THEN Failed(proc, told)
                 ELSE Ended(proc, PushDone(told)))
    BY <2>2 DEF told, reason
  <2>. QED
    BY <2>11, <2>12, <2>13
<1>13. CASE ResponsesError
  BY <1>3, <1>5, <1>13, HasFailed DEF ResponsesError
<1>14. CASE ResponsesEnds
  BY <1>3, <1>5, <1>14, BodyFailed DEF ResponsesEnds
<1>. QED
  BY <1>6, <1>7, <1>8, <1>9, <1>10, <1>11, <1>12, <1>13, <1>14 DEF ResponsesNext

-----------------------------------------------------------------------------
(* Bedrock                                                                 *)

LEMMA BedrockGoes ==
  ASSUME StreamInv, api = "bedrock", NEW w, NEW p, NEW o, Read(w, Went(p, o)),
         Follows(out, o, w), p \in [at : SlotMaps], Slots(p.at, w),
         w.stopped => AllEnded(w)
  PROVE  StreamInv' /\ Moves
<1>1. BedrockFits(p, o.started, w)
  BY DEF BedrockFits
<1>2. ProcFits(p, o.started, w)
  BY <1>1 DEF ProcFits
<1>. QED
  BY <1>2, WentOn

LEMMA BedrockKeeps ==
  ASSUME StreamInv, BedrockNext
  PROVE  StreamInv' /\ Moves
<1>1. api = "bedrock"
  BY DEF BedrockNext
<1>2. task = "reading"
  BY DEF BedrockNext, BedrockMessageStart, BedrockBlockStart, BedrockDelta,
         BedrockBlockStop, BedrockMessageStop, BedrockException, BedrockEnds,
         Read, BodyEnds
<1>3. /\ Agree(out, wire) /\ Told(out) /\ wire \in Wires /\ out.outcome = "none"
      /\ BedrockFits(proc, out.started, wire)
  BY <1>1, <1>2, ReadingFacts DEF ProcFits
<1>4. /\ Follows(out, out, wire)
      /\ proc \in [at : SlotMaps] /\ Slots(proc.at, wire)
      /\ wire.stopped => AllEnded(wire)
  BY <1>2, <1>3, NothingOn DEF BedrockFits
<1>5. Leaves(out, out, wire)
  BY <1>4, FollowsLeaves
<1>6. Leaves(out, PushError(out, "error"), wire)
  BY <1>5, ErrorLeaves
<1>7. PushError(out, "error").outcome # "done"
  BY <1>3, AgreeFacts DEF PushError, Push, Streams
\* A new item, with its slot.
<1>8. ASSUME NEW kind \in Kinds, CanOpen, out.started
      PROVE  LET added == AddBlock(out, kind)
                 at == [proc.at EXCEPT ![NextItem] = NextItem]
             IN /\ Follows(out, added, Opened(kind))
                /\ Follows(out, Extend(added, NextItem, kind, NextItem),
                           OpenedWith(kind))
                /\ Len(added.blocks) = NextItem
                /\ Slots(at, Opened(kind)) /\ Slots(at, OpenedWith(kind))
                /\ ~Opened(kind).stopped /\ ~OpenedWith(kind).stopped
                /\ [proc EXCEPT !.at[NextItem] = NextItem] \in [at : SlotMaps]
                /\ [proc EXCEPT !.at[NextItem] = NextItem].at = at
  <2>. DEFINE added == AddBlock(out, kind)
              at == [proc.at EXCEPT ![NextItem] = NextItem]
              v == WithItem(wire, kind)
  <2>1. Len(wire.items) < MaxItems /\ Len(wire.items) \in Nat /\ ~wire.stopped
    BY <1>3, <1>8, ItemFacts
  <2>2. /\ Follows(out, added, v) /\ Len(added.blocks) = NextItem
        /\ Follows(out, Extend(added, NextItem, kind, NextItem), OpenedWith(kind))
    BY <1>3, <1>4, <1>8, OpenedFollows
  <2>3. Slots(at, v)
    BY <1>3, <1>4, <2>1, SlotsOpened DEF NextItem
  <2>4. v \in Wires /\ v.stopped = wire.stopped /\ NextItem \in 1 .. Len(v.items)
    BY <1>3, <2>1, AddItem DEF NextItem
  <2>5. OpenedWith(kind) = Grow(v, NextItem) /\ Opened(kind) = v
    BY <1>3, <2>1, OpenedWithIs, WireNames
  <2>6. Slots(at, OpenedWith(kind)) /\ OpenedWith(kind).stopped = wire.stopped
    BY <2>3, <2>4, <2>5, SlotsGrown, GrowItem
  <2>7. at \in SlotMaps
    BY <2>3 DEF Slots
  <2>8. [proc EXCEPT !.at[NextItem] = NextItem] = [proc EXCEPT !.at = at]
    BY <1>4
  <2>. HIDE DEF at
  <2>9. [proc EXCEPT !.at = at] \in [at : SlotMaps] /\ [proc EXCEPT !.at = at].at = at
    BY <1>4, <2>7
  <2>. HIDE DEF added, v
  <2>10. /\ Slots(at, Opened(kind)) /\ Follows(out, added, Opened(kind))
         /\ ~Opened(kind).stopped /\ ~OpenedWith(kind).stopped
    BY <2>1, <2>2, <2>3, <2>4, <2>5, <2>6
  <2>. QED
    BY <2>2, <2>6, <2>8, <2>9, <2>10 DEF at, added
<1>9. CASE BedrockMessageStart
  <2>1. Follows(out, PushStart(out), wire)
    BY <1>3, <1>9, StartFollows DEF BedrockMessageStart
  <2>. QED
    BY <1>1, <1>4, <1>9, <2>1, BedrockGoes DEF BedrockMessageStart
<1>10. CASE BedrockBlockStart
  <2>. DEFINE added == AddBlock(out, "toolCall")
              p == [proc EXCEPT !.at[NextItem] = NextItem]
  <2>1. CanOpen /\ out.started /\ "toolCall" \in Kinds
    BY <1>10 DEF BedrockBlockStart, Kinds
  <2>2. /\ Follows(out, added, Opened("toolCall")) /\ Len(added.blocks) = NextItem
        /\ p \in [at : SlotMaps] /\ Slots(p.at, Opened("toolCall"))
        /\ ~Opened("toolCall").stopped
    BY <1>8, <2>1
  <2>3. Read(Opened("toolCall"), Went(p, added))
    BY <1>10, <2>2 DEF BedrockBlockStart
  <2>. HIDE DEF p, added
  <2>. QED
    BY <1>1, <2>2, <2>3, BedrockGoes
<1>11. CASE BedrockDelta
  <2>1. ASSUME NEW i \in Items, CanGrow(i),
               Read(Grown(i),
                    Went(proc, Extend(out, proc.at[i], wire.items[i].kind, i)))
        PROVE  StreamInv' /\ Moves
    <3>. DEFINE more == Extend(out, i, wire.items[i].kind, i)
    <3>1. i \in 1 .. Len(wire.items) /\ wire.items[i].open /\ ~wire.stopped
      BY <1>3, <2>1, ItemFacts
    <3>2. proc.at[i] = i
      BY <1>3, <1>4, <3>1, SlotOf
    <3>3. Read(Grow(wire, i), Went(proc, more))
      BY <2>1, <3>2, WireNames
    <3>4. Follows(out, more, Grow(wire, i))
      BY <1>3, <1>4, <3>1, GrownFollows
    <3>5. Slots(proc.at, Grow(wire, i)) /\ Grow(wire, i).stopped = wire.stopped
      BY <1>3, <1>4, <3>1, SlotsGrown, GrowItem
    <3>. HIDE DEF more
    <3>. QED
      BY <1>1, <1>4, <3>1, <3>3, <3>4, <3>5, BedrockGoes
  <2>2. ASSUME out.started, CanOpen, NEW kind \in {"text", "thinking"},
               LET added == AddBlock(out, kind)
                   b == Len(added.blocks)
               IN Read(OpenedWith(kind),
                    Went([proc EXCEPT !.at[NextItem] = b],
                         Extend(added, b, kind, NextItem)))
        PROVE  StreamInv' /\ Moves
    <3>. DEFINE added == AddBlock(out, kind)
                more == Extend(added, NextItem, kind, NextItem)
                p == [proc EXCEPT !.at[NextItem] = NextItem]
    <3>1. kind \in Kinds
      BY DEF Kinds
    <3>2. /\ Follows(out, more, OpenedWith(kind)) /\ Len(added.blocks) = NextItem
          /\ p \in [at : SlotMaps] /\ Slots(p.at, OpenedWith(kind))
          /\ ~OpenedWith(kind).stopped
      BY <1>8, <2>2, <3>1
    <3>3. Read(OpenedWith(kind), Went(p, more))
      BY <2>2, <3>2
    <3>. HIDE DEF p, more
    <3>. QED
      BY <1>1, <3>2, <3>3, BedrockGoes
  <2>. QED
    BY <1>11, <2>1, <2>2 DEF BedrockDelta
<1>12. CASE BedrockBlockStop
  <2>. PICK i \in OpenItems :
         Read(Closed(i),
           Went([proc EXCEPT !.at[i] = 0],
                IF proc.at[i] = 0 THEN out ELSE PushBlockEnd(out, proc.at[i])))
    BY <1>12 DEF BedrockBlockStop
  <2>. DEFINE last == PushBlockEnd(out, i)
              at == [proc.at EXCEPT ![i] = 0]
              p == [proc EXCEPT !.at = at]
              v == Close(wire, i)
  <2>1. i \in 1 .. Len(wire.items) /\ wire.items[i].open
    BY <1>3, ItemFacts
  <2>2. proc.at[i] = i /\ proc.at[i] # 0
    BY <1>3, <1>4, <2>1, SlotOf
  <2>3. [proc EXCEPT !.at[i] = 0] = p
    BY <1>4
  <2>4. Follows(out, last, v)
    BY <1>1, <1>3, <1>4, <2>1, ClosedFollows
  <2>5. /\ v.stopped = wire.stopped /\ Len(v.items) = Len(wire.items)
        /\ v.items[i].open = FALSE
        /\ \A j \in 1 .. Len(wire.items) \ {i} : v.items[j] = wire.items[j]
    BY <1>3, <2>1, CloseItem
  <2>6. Read(v, Went(p, last))
    BY <2>2, <2>3, WireNames
  <2>. HIDE DEF v, last
  <2>7. Slots(at, v)
    BY <1>3, <1>4, <2>1, <2>5, SlotsClosed
  <2>8. wire.stopped => AllEnded(v)
    BY <1>4, <2>5 DEF AllEnded
  <2>9. at \in SlotMaps
    BY <2>7 DEF Slots
  <2>. HIDE DEF at
  <2>10. p \in [at : SlotMaps] /\ p.at = at
    BY <1>4, <2>9
  <2>. HIDE DEF p
  <2>. QED
    BY <1>1, <2>4, <2>5, <2>6, <2>7, <2>8, <2>10, BedrockGoes
<1>13. CASE BedrockMessageStop
  <2>. PICK reason \in {"stop", "length", "toolUse", "error"} :
         Read(Stopped, Went(proc, [out EXCEPT !.reason = reason]))
    BY <1>13 DEF BedrockMessageStop
  <2>. DEFINE told == [out EXCEPT !.reason = reason]
              v == Stop(wire)
  <2>1. Follows(out, told, v)
    BY <1>3, <1>4, StoppedFollows DEF Reasons
  <2>2. v.items = wire.items /\ AllEnded(wire)
    BY <1>3, <1>13, StopWire, ItemFacts DEF BedrockMessageStop
  <2>3. Read(v, Went(proc, told))
    BY WireNames
  <2>. HIDE DEF v, told
  <2>4. Slots(proc.at, v) /\ AllEnded(v)
    BY <1>4, <2>2, SlotsKept DEF AllEnded
  <2>. QED
    BY <1>1, <1>4, <2>1, <2>3, <2>4, BedrockGoes
<1>14. CASE BedrockException
  BY <1>6, <1>7, <1>14, HasFailed DEF BedrockException
<1>15. CASE BedrockEnds
  <2>1. \/ BodyEnds(Failed(proc, PushError(out, "error")))
        \/ BodyEnds(Ended(proc, PushDone(out)))
    BY <1>15 DEF BedrockEnds
  <2>2. CASE BodyEnds(Failed(proc, PushError(out, "error")))
    BY <1>6, <1>7, <2>2, BodyFailed
  <2>3. CASE BodyEnds(Ended(proc, PushDone(out)))
    <3>1. Leaves(out, PushDone(out), wire)
      BY <1>5, DoneLeaves
    <3>2. /\ PushDone(out).shown = out.shown
          /\ \A i \in 1 .. Len(out.shown) : out.shown[i].open = wire.items[i].open
          /\ Len(out.shown) = Len(wire.items)
      <4>1. /\ out \in Streams /\ Len(out.shown) = Len(wire.items)
            /\ \A i \in 1 .. Len(out.shown) : out.shown[i].open = wire.items[i].open
        BY <1>3, AgreeFacts
      <4>2. PushDone(out).shown = out.shown
        BY <4>1 DEF PushDone, Push, Streams
      <4>. QED
        BY <4>1, <4>2
    <3>3. Concluded(PushDone(out), wire)
      BY <1>1, <1>4, <3>2 DEF Concluded, AllEnded
    <3>. QED
      BY <2>3, <3>1, <3>3, BodyEnded
  <2>. QED
    BY <2>1, <2>2, <2>3
<1>. QED
  BY <1>9, <1>10, <1>11, <1>12, <1>13, <1>14, <1>15 DEF BedrockNext

-----------------------------------------------------------------------------
(* The relayed streams                                                     *)

LEMMA RelayedKeeps ==
  ASSUME StreamInv, RelayedNext
  PROVE  StreamInv' /\ Moves
<1>1. api \in {"piMessages", "proxy"}
  BY DEF RelayedNext
<1>2. task = "reading"
  BY DEF RelayedNext, RelayedStart, RelayedBlockStart, RelayedDelta,
         RelayedBlockEnd, RelayedTerminal, RelayedEnds, RelayedGarbled, Read,
         BodyEnds
<1>3. /\ Agree(out, wire) /\ Told(out) /\ wire \in Wires /\ out.outcome = "none"
      /\ Follows(out, out, wire) /\ Leaves(out, out, wire) /\ out \in Streams
  BY <1>2, ReadingFacts, NothingOn, FollowsLeaves DEF Told
<1>4. ASSUME NEW w, NEW p, NEW o, Read(w, Went(p, o)), Follows(out, o, w)
      PROVE  StreamInv' /\ Moves
  <2>1. ProcFits(p, o.started, w)
    BY <1>1 DEF ProcFits
  <2>. QED
    BY <1>4, <2>1, WentOn
<1>5. CASE RelayedStart
  <2>1. Follows(out, PushStart(out), wire)
    BY <1>3, <1>5, StartFollows DEF RelayedStart
  <2>. QED
    BY <1>4, <1>5, <2>1 DEF RelayedStart
<1>6. CASE RelayedBlockStart
  <2>. PICK kind \in Kinds : Read(Opened(kind), Went(proc, AddBlock(out, kind)))
    BY <1>6 DEF RelayedBlockStart
  <2>1. CanOpen /\ out.started
    BY <1>6 DEF RelayedBlockStart
  <2>2. Follows(out, AddBlock(out, kind), WithItem(wire, kind))
    BY <1>3, <2>1, OpenedFollows
  <2>3. Follows(out, AddBlock(out, kind), Opened(kind))
    BY <2>2, WireNames
  <2>. QED
    BY <1>4, <2>3
<1>7. CASE RelayedDelta
  <2>. PICK i \in Items :
         /\ CanGrow(i)
         /\ Read(Grown(i), Went(proc, Extend(out, i, wire.items[i].kind, i)))
    BY <1>7 DEF RelayedDelta
  <2>1. i \in 1 .. Len(wire.items) /\ wire.items[i].open
    BY <1>3, ItemFacts
  <2>2. Follows(out, Extend(out, i, wire.items[i].kind, i), Grow(wire, i))
    BY <1>3, <2>1, GrownFollows
  <2>3. Follows(out, Extend(out, i, wire.items[i].kind, i), Grown(i))
    BY <2>2, WireNames
  <2>. QED
    BY <1>4, <2>3
<1>8. CASE RelayedBlockEnd
  <2>. PICK i \in OpenItems : Read(Closed(i), Went(proc, PushBlockEnd(out, i)))
    BY <1>8 DEF RelayedBlockEnd
  <2>1. i \in 1 .. Len(wire.items) /\ wire.items[i].open
    BY <1>3, ItemFacts
  <2>2. Follows(out, PushBlockEnd(out, i), Close(wire, i))
    BY <1>1, <1>3, <2>1, ClosedFollows
  <2>3. Follows(out, PushBlockEnd(out, i), Closed(i))
    BY <2>2, WireNames
  <2>. QED
    BY <1>4, <2>3
<1>9. CASE RelayedTerminal
  <2>. PICK reason \in {"stop", "length", "toolUse", "error", "aborted"} :
         LET told == [out EXCEPT !.reason = reason]
         IN IF reason \in {"error", "aborted"}
            THEN Read(Stopped, Ended([terminal |-> TRUE], PushError(told, reason)))
            ELSE /\ OpenItems = {}
                 /\ Read(Stopped, Ended([terminal |-> TRUE], PushDone(told)))
    BY <1>9 DEF RelayedTerminal
  <2>. DEFINE told == [out EXCEPT !.reason = reason]
              v == Stop(wire)
              p == [terminal |-> TRUE]
  <2>1. reason \in Reasons /\ v = Stopped
    BY WireNames DEF Reasons
  <2>2. v.items = wire.items /\ v.stopped = TRUE
    BY <1>3, StopWire
  <2>3. Follows(out, told, v)
    BY <1>3, <2>1, StoppedFollows
  <2>4. CASE reason \in {"error", "aborted"}
    <3>. DEFINE last == PushError(told, reason)
    <3>1. Read(v, Ended(p, last))
      BY <2>1, <2>4
    <3>. HIDE DEF told, v, p
    <3>2. told.outcome = "none" /\ told \in Streams
      BY <2>3 DEF Follows, Agree, Told
    <3>3. Leaves(out, last, v)
      BY <2>3, <2>4, FollowsLeaves, ErrorLeaves
    <3>4. last.outcome = reason
      BY <3>2 DEF PushError, Push, Streams
    <3>5. Concluded(last, v)
      BY <2>4, <3>4 DEF Concluded
    <3>. QED
      BY <3>1, <3>3, <3>5, HasEnded
  <2>5. CASE reason \notin {"error", "aborted"}
    <3>. DEFINE last == PushDone(told)
    <3>1. Read(v, Ended(p, last)) /\ OpenItems = {}
      BY <2>1, <2>5
    <3>. HIDE DEF told, v, p
    <3>2. told.outcome = "none" /\ told \in Streams /\ Agree(told, v)
      BY <2>3 DEF Follows, Agree, Told
    <3>3. Leaves(out, last, v)
      BY <2>3, FollowsLeaves, DoneLeaves
    <3>4. AllEnded(v)
      BY <1>3, <2>2, <3>1, ItemFacts DEF AllEnded
    <3>5. last.shown = told.shown
      BY <3>2 DEF PushDone, Push, Streams
    <3>6. \A i \in 1 .. Len(told.shown) : ~told.shown[i].open
      BY <3>2, <3>4, AgreeFacts DEF AllEnded
    <3>7. Concluded(last, v)
      BY <2>2, <3>4, <3>5, <3>6 DEF Concluded
    <3>. QED
      BY <3>1, <3>3, <3>7, HasEnded
  <2>. QED
    BY <2>4, <2>5
<1>10. CASE RelayedEnds
  <2>1. CASE BodyEnds(Failed(proc, out))
    BY <1>3, <2>1, BodyFailed
  <2>2. CASE BodyEnds(Ended(proc, End(out)))
    <3>1. Leaves(out, End(out), wire)
      BY <1>3, EndLeaves
    <3>2. End(out).outcome = "ended"
      BY <1>3 DEF End, Streams
    <3>3. Concluded(End(out), wire)
      BY <3>2 DEF Concluded
    <3>. QED
      BY <2>2, <3>1, <3>3, BodyEnded
  <2>. QED
    BY <1>10, <2>1, <2>2 DEF RelayedEnds
<1>11. CASE RelayedGarbled
  BY <1>3, <1>11, HasFailed DEF RelayedGarbled
<1>. QED
  BY <1>5, <1>6, <1>7, <1>8, <1>9, <1>10, <1>11 DEF RelayedNext

-----------------------------------------------------------------------------
(* The runs of Google and Mistral                                          *)

\* What was sent, with nothing under way but what is told.
RunEnded(w, active) == IF active = 0 THEN w ELSE Close(w, active)

LEMMA RunEndedFacts ==
  ASSUME NEW w \in Wires, NEW active \in 0 .. Len(w.items)
  PROVE  LET v == RunEnded(w, active)
         IN /\ v \in Wires /\ v.stopped = w.stopped
            /\ Len(v.items) = Len(w.items)
            /\ \A i \in 1 .. Len(w.items) :
                 /\ v.items[i].kind = w.items[i].kind
                 /\ v.items[i].brought = w.items[i].brought
                 /\ v.items[i].sent = w.items[i].sent
                 /\ v.items[i].open <=> i # active /\ w.items[i].open
<1>. DEFINE v == RunEnded(w, active)
<1>1. Len(w.items) \in Nat
  BY DEF Wires
<1>2. CASE active = 0
  <2>1. \A i \in 1 .. Len(w.items) : i # active
    BY <1>1, <1>2
  <2>. QED
    BY <1>2, <2>1 DEF RunEnded
<1>3. CASE active # 0
  <2>1. active \in 1 .. Len(w.items) /\ v = Close(w, active)
    BY <1>1, <1>3 DEF RunEnded
  <2>. HIDE DEF v
  <2>2. /\ v \in Wires /\ v.stopped = w.stopped
        /\ Len(v.items) = Len(w.items)
        /\ v.items[active].kind = w.items[active].kind
        /\ v.items[active].brought = w.items[active].brought
        /\ v.items[active].sent = w.items[active].sent
        /\ v.items[active].open = FALSE
        /\ \A j \in 1 .. Len(w.items) \ {active} : v.items[j] = w.items[j]
    BY <2>1, CloseItem
  <2>3. \A i \in 1 .. Len(w.items) :
          /\ v.items[i].kind = w.items[i].kind
          /\ v.items[i].brought = w.items[i].brought
          /\ v.items[i].sent = w.items[i].sent
          /\ v.items[i].open <=> i # active /\ w.items[i].open
    BY <2>2
  <2>. QED
    BY <2>2, <2>3 DEF v
<1>. QED
  BY <1>2, <1>3

LEMMA RunEndedIs ==
  ASSUME NEW w \in Wires, NEW active \in 0 .. Len(w.items),
         NEW its, its \in Seq(ItemRecords), Len(its) = Len(w.items),
         \A i \in 1 .. Len(w.items) :
           /\ its[i].kind = w.items[i].kind /\ its[i].sent = w.items[i].sent
           /\ its[i].brought = w.items[i].brought
           /\ its[i].open <=> i # active /\ w.items[i].open
  PROVE  [w EXCEPT !.items = its] = RunEnded(w, active)
<1>. DEFINE v == RunEnded(w, active)
<1>1. /\ w \in [items : Seq(ItemRecords), stopped : BOOLEAN]
      /\ w.items \in Seq(ItemRecords) /\ Len(w.items) \in Nat
  BY DEF Wires
<1>3. /\ v \in Wires /\ v.stopped = w.stopped /\ Len(v.items) = Len(w.items)
      /\ \A i \in 1 .. Len(w.items) :
           /\ v.items[i].kind = w.items[i].kind
           /\ v.items[i].brought = w.items[i].brought
           /\ v.items[i].sent = w.items[i].sent
           /\ v.items[i].open <=> i # active /\ w.items[i].open
  BY RunEndedFacts
<1>. HIDE DEF v
<1>4. /\ v \in [items : Seq(ItemRecords), stopped : BOOLEAN]
      /\ v.items \in Seq(ItemRecords)
  BY <1>3 DEF Wires
<1>5. \A i \in 1 .. Len(its) : its[i] = v.items[i]
  <2>. TAKE i \in 1 .. Len(its)
  <2>1. its[i] \in ItemRecords /\ v.items[i] \in ItemRecords
    BY <1>3, <1>4
  <2>. DEFINE x == its[i]
              y == v.items[i]
  <2>2. /\ x.kind = y.kind /\ x.brought = y.brought /\ x.sent = y.sent /\ (x.open <=> y.open)
        /\ x \in ItemRecords /\ y \in ItemRecords
    BY <1>3, <2>1
  <2>. HIDE DEF x, y
  <2>3. x = y
    BY <2>2 DEF ItemRecords
  <2>. QED
    BY <2>3 DEF x, y
<1>6. its = v.items
  BY <1>3, <1>4, <1>5, SeqEqual
<1>7. [w EXCEPT !.items = v.items] = v
  BY <1>1, <1>3, <1>4
<1>. QED
  BY <1>6, <1>7 DEF v

\* The end of the run, on both sides.
LEMMA RunFollows ==
  ASSUME Agree(out, wire), Told(out), NEW s, Follows(out, s, wire),
         NEW active \in 0 .. Len(wire.items),
         active # 0 => wire.items[active].open, api # "responses"
  PROVE  LET closed == IF active = 0 THEN s ELSE PushBlockEnd(s, active)
             v == RunEnded(wire, active)
         IN /\ Follows(out, closed, v) /\ (s.started => closed.started)
            /\ v \in Wires /\ v.stopped = wire.stopped
            /\ Len(v.items) = Len(wire.items)
            /\ \A i \in 1 .. Len(wire.items) :
                 /\ v.items[i].kind = wire.items[i].kind
                 /\ v.items[i].brought = wire.items[i].brought
                 /\ v.items[i].sent = wire.items[i].sent
                 /\ v.items[i].open <=> i # active /\ wire.items[i].open
<1>. DEFINE closed == IF active = 0 THEN s ELSE PushBlockEnd(s, active)
            v == RunEnded(wire, active)
<1>1. wire \in Wires /\ Len(wire.items) \in Nat
  BY DEF Agree, Wires
<1>2. /\ v \in Wires /\ v.stopped = wire.stopped
      /\ Len(v.items) = Len(wire.items)
      /\ \A i \in 1 .. Len(wire.items) :
           /\ v.items[i].kind = wire.items[i].kind
           /\ v.items[i].brought = wire.items[i].brought
           /\ v.items[i].sent = wire.items[i].sent
           /\ v.items[i].open <=> i # active /\ wire.items[i].open
  BY <1>1, RunEndedFacts
<1>3. Follows(out, closed, v) /\ (s.started => closed.started)
  <2>1. CASE active = 0
    BY <2>1 DEF RunEnded
  <2>2. CASE active # 0
    <3>1. active \in 1 .. Len(wire.items)
      BY <1>1, <2>2
    <3>. QED
      BY <2>2, <3>1, ClosedFollows DEF RunEnded
  <2>. QED
    BY <2>1, <2>2
<1>. QED
  BY <1>2, <1>3 DEF v, closed

\* What is told of a reply does not depend on which of its items are open.
LEMMA LeavesAlike ==
  ASSUME NEW o, NEW p, NEW v, NEW w \in Wires, Leaves(o, p, v), api # "responses",
         Len(v.items) = Len(w.items),
         \A i \in 1 .. Len(w.items) : /\ v.items[i].kind = w.items[i].kind
                                      /\ v.items[i].brought = w.items[i].brought
                                      /\ v.items[i].sent = w.items[i].sent
  PROVE  Leaves(o, p, w)
<1>1. Tells(p, v)
  BY DEF Leaves
<1>2. Tells(p, w)
  BY <1>1 DEF Tells, Bears, Leads
<1>. QED
  BY <1>2 DEF Leaves

-----------------------------------------------------------------------------
(* Google                                                                  *)

GoogleStates(w) == [started : BOOLEAN, active : 0 .. Len(w.items)]

LEMMA GoogleGoes ==
  ASSUME StreamInv, api = "google", NEW w, NEW p \in GoogleStates(w), NEW o,
         GoogleReads(w, Went(p, o)), Follows(out, o, w), o.started,
         \A i \in 1 .. Len(w.items) : w.items[i].open <=> i = p.active
  PROVE  StreamInv' /\ Moves
<1>. DEFINE q == [p EXCEPT !.started = TRUE]
<1>1. Read(w, Went(q, o))
  BY MarkedSteps DEF GoogleReads
<1>2. /\ q \in [started : BOOLEAN, active : 0 .. Len(w.items)]
      /\ q.started = TRUE /\ q.active = p.active
  BY DEF GoogleStates
<1>3. o.started = TRUE
  BY DEF Follows, Agree, Told, Streams
<1>. HIDE DEF q
<1>4. ProcFits(q, o.started, w)
  BY <1>2, <1>3 DEF ProcFits, GoogleFits
<1>. QED
  BY <1>1, <1>4, WentOn

LEMMA GoogleFacts ==
  ASSUME StreamInv, api = "google", task = "reading"
  PROVE  /\ Agree(out, wire) /\ Told(out) /\ wire \in Wires
         /\ out.outcome = "none"
         /\ proc \in GoogleStates(wire)
         /\ \A i \in 1 .. Len(wire.items) : wire.items[i].open <=> i = proc.active
         /\ Follows(out, GoogleStarted, wire) /\ GoogleStarted.started
<1>1. /\ Agree(out, wire) /\ GoogleFits(proc, out.started, wire)
      /\ wire \in Wires /\ Told(out) /\ out.outcome = "none"
  BY ReadingFacts DEF ProcFits
<1>2. /\ proc \in GoogleStates(wire)
      /\ \A i \in 1 .. Len(wire.items) : wire.items[i].open <=> i = proc.active
      /\ proc.started = out.started /\ proc.started \in BOOLEAN
  BY <1>1 DEF GoogleFits, GoogleStates
<1>3. Follows(out, GoogleStarted, wire) /\ GoogleStarted.started
  BY <1>1, <1>2, StartedFollows DEF GoogleStarted
<1>. QED
  BY <1>1, <1>2, <1>3

\* The active block is that of the item under way, and its end the run's.
LEMMA GoogleRun ==
  ASSUME StreamInv, api = "google", task = "reading"
  PROVE  LET closed == ActiveEnded(GoogleStarted)
         IN /\ Follows(out, closed, RunOver) /\ closed.started
            /\ RunOver \in Wires /\ RunOver.stopped = wire.stopped
            /\ Len(RunOver.items) = Len(wire.items)
            /\ \A i \in 1 .. Len(wire.items) :
                 /\ RunOver.items[i].kind = wire.items[i].kind
                 /\ RunOver.items[i].brought = wire.items[i].brought
                 /\ RunOver.items[i].sent = wire.items[i].sent
                 /\ ~RunOver.items[i].open
<1>. DEFINE s == GoogleStarted
            active == proc.active
            closed == ActiveEnded(s)
            its == [i \in Items |-> [wire.items[i] EXCEPT !.open = FALSE]]
<1>1. /\ Agree(out, wire) /\ Told(out) /\ wire \in Wires
      /\ proc \in GoogleStates(wire)
      /\ \A i \in 1 .. Len(wire.items) : wire.items[i].open <=> i = active
      /\ Follows(out, s, wire) /\ s.started
  BY GoogleFacts
<1>2. /\ active \in 0 .. Len(wire.items)
      /\ Items = 1 .. Len(wire.items) /\ Len(wire.items) \in Nat
      /\ \A i \in 1 .. Len(wire.items) : wire.items[i] \in ItemRecords
  BY <1>1, ItemFacts DEF GoogleStates
<1>3. active # 0 => wire.items[active].open
  BY <1>1, <1>2
<1>4. RunOver = [wire EXCEPT !.items = its]
  BY <1>1 DEF RunOver, Wires
<1>5. \A i \in 1 .. Len(wire.items) :
        /\ its[i] \in ItemRecords
        /\ its[i].kind = wire.items[i].kind /\ its[i].sent = wire.items[i].sent
        /\ its[i].brought = wire.items[i].brought
        /\ its[i].open = FALSE
  <2>. TAKE i \in 1 .. Len(wire.items)
  <2>1. its[i] = [wire.items[i] EXCEPT !.open = FALSE]
    BY <1>2
  <2>2. wire.items[i] \in ItemRecords
    BY <1>2
  <2>. QED
    BY <2>1, <2>2 DEF ItemRecords
<1>6. its \in Seq(ItemRecords) /\ Len(its) = Len(wire.items)
  <2>1. its = [i \in 1 .. Len(wire.items) |-> [wire.items[i] EXCEPT !.open = FALSE]]
    BY <1>2
  <2>2. \A i \in 1 .. Len(wire.items) :
          [wire.items[i] EXCEPT !.open = FALSE] \in ItemRecords
    BY <1>2 DEF ItemRecords
  <2>. QED
    BY <1>2, <2>1, <2>2, IsASeq
<1>. HIDE DEF its
<1>7. \A i \in 1 .. Len(wire.items) :
        /\ its[i].kind = wire.items[i].kind /\ its[i].sent = wire.items[i].sent
        /\ its[i].brought = wire.items[i].brought
        /\ its[i].open <=> i # active /\ wire.items[i].open
  BY <1>1, <1>5
<1>8. RunOver = RunEnded(wire, active)
  BY <1>1, <1>2, <1>4, <1>6, <1>7, RunEndedIs
<1>9. closed = IF active = 0 THEN s ELSE PushBlockEnd(s, active)
  BY DEF ActiveEnded
<1>. HIDE DEF closed, s
<1>10. /\ Follows(out, closed, RunOver) /\ (s.started => closed.started)
       /\ RunOver \in Wires /\ RunOver.stopped = wire.stopped
       /\ Len(RunOver.items) = Len(wire.items)
       /\ \A i \in 1 .. Len(wire.items) :
            /\ RunOver.items[i].kind = wire.items[i].kind
            /\ RunOver.items[i].brought = wire.items[i].brought
            /\ RunOver.items[i].sent = wire.items[i].sent
            /\ RunOver.items[i].open <=> i # active /\ wire.items[i].open
  BY <1>1, <1>2, <1>3, <1>8, <1>9, RunFollows
<1>11. closed.started
  BY <1>1, <1>10
<1>. QED
  BY <1>1, <1>10, <1>11 DEF closed, s

LEMMA GoogleKeeps ==
  ASSUME StreamInv, GoogleNext
  PROVE  StreamInv' /\ Moves
<1>1. api = "google"
  BY DEF GoogleNext
<1>2. task = "reading"
  BY DEF GoogleNext, GoogleOther, GoogleText, GoogleFunctionCall,
         GoogleFinishReason, GoogleEnds, GoogleReads, Read, BodyEnds
<1>. DEFINE s == GoogleStarted
            closed == ActiveEnded(s)
            v == RunOver
<1>3. /\ Agree(out, wire) /\ Told(out) /\ wire \in Wires /\ out.outcome = "none"
      /\ proc \in GoogleStates(wire)
      /\ \A i \in 1 .. Len(wire.items) : wire.items[i].open <=> i = proc.active
      /\ Follows(out, s, wire) /\ s.started
  BY <1>1, <1>2, GoogleFacts
<1>4. /\ Follows(out, closed, v) /\ closed.started
      /\ v \in Wires /\ v.stopped = wire.stopped
      /\ Len(v.items) = Len(wire.items)
      /\ \A i \in 1 .. Len(wire.items) : /\ v.items[i].kind = wire.items[i].kind
                                         /\ v.items[i].brought = wire.items[i].brought
                                         /\ v.items[i].sent = wire.items[i].sent
                                         /\ ~v.items[i].open
  BY <1>1, <1>2, GoogleRun
<1>5. /\ Len(wire.items) \in Nat /\ Len(out.blocks) = Len(wire.items)
      /\ NextItem = Len(v.items) + 1 /\ NextItem = Len(out.blocks) + 1
      /\ CanOpen => Len(v.items) < MaxItems
  BY <1>3, <1>4, ItemFacts, AgreeFacts DEF NextItem
<1>. HIDE DEF closed, v, s
\* The next item, after the run.
<1>6. ASSUME NEW kind \in Kinds, CanOpen
      PROVE  LET added == AddBlock(closed, kind)
                 more == Extend(added, NextItem, kind, NextItem)
                 w == Grow(WithItem(v, kind), NextItem)
             IN /\ Len(added.blocks) = NextItem
                /\ Follows(out, more, w) /\ more.started
                /\ w \in Wires /\ Len(w.items) = NextItem
                /\ w.items[NextItem].kind = kind /\ w.items[NextItem].open
                /\ w.items[NextItem].sent = 1 /\ ~w.items[NextItem].brought
                /\ w.stopped = v.stopped
                /\ \A i \in 1 .. Len(wire.items) : /\ ~w.items[i].open
                                                   /\ w.items[i] = v.items[i]
                /\ [v EXCEPT !.items = Append(@, [Item(kind) EXCEPT !.sent = 1])] = w
  <2>. DEFINE added == AddBlock(closed, kind)
              more == Extend(added, NextItem, kind, NextItem)
              u == WithItem(v, kind)
              w == Grow(u, NextItem)
  <2>1. Len(added.blocks) = NextItem /\ Follows(out, more, w) /\ more.started
    BY <1>3, <1>4, <1>5, <1>6, BegunFollows
  <2>2. [v EXCEPT !.items = Append(@, [Item(kind) EXCEPT !.sent = 1])] = w
    BY <1>4, <1>5, <1>6, BegunIs
  <2>3. /\ w \in Wires /\ Len(w.items) = NextItem /\ w.stopped = v.stopped
        /\ w.items[NextItem].kind = kind /\ w.items[NextItem].sent = 1
        /\ w.items[NextItem].open /\ ~w.items[NextItem].brought
        /\ \A i \in 1 .. Len(wire.items) : w.items[i] = v.items[i]
    BY <1>4, <1>5, <1>6, BegunItem
  <2>. HIDE DEF w
  <2>4. \A i \in 1 .. Len(wire.items) : ~w.items[i].open
    BY <1>4, <2>3
  <2>. QED
    BY <2>1, <2>2, <2>3, <2>4 DEF w
<1>7. CASE GoogleOther
  BY <1>1, <1>3, <1>7, GoogleGoes DEF GoogleOther, s
<1>8. CASE GoogleText
  <2>. PICK kind \in {"text", "thinking"} :
    LET continues == proc.active # 0 /\ out.blocks[proc.active].kind = kind
        added == AddBlock(ActiveEnded(GoogleStarted), kind)
        b == Len(out.blocks) + 1
        w == [RunOver EXCEPT !.items = Append(@, [Item(kind) EXCEPT !.sent = 1])]
    IN IF continues
       THEN \E i \in OpenItems :
              /\ CanGrow(i)
              /\ GoogleReads(Grown(i),
                   Went(proc, Extend(GoogleStarted, proc.active, kind, i)))
       ELSE /\ CanOpen
            /\ GoogleReads(w, Went([proc EXCEPT !.active = b],
                                   Extend(added, b, kind, NextItem)))
    BY <1>8 DEF GoogleText
  <2>1. CASE proc.active # 0 /\ out.blocks[proc.active].kind = kind
    <3>. PICK i \in OpenItems :
           GoogleReads(Grown(i),
                       Went(proc, Extend(GoogleStarted, proc.active, kind, i)))
      BY <2>1
    <3>. DEFINE more == Extend(s, i, wire.items[i].kind, i)
                w == Grow(wire, i)
    <3>1. i \in 1 .. Len(wire.items) /\ wire.items[i].open
      BY <1>3, ItemFacts
    <3>2. proc.active = i
      BY <1>3, <3>1
    <3>3. wire.items[i].kind = kind
      <4>1. Bears(out.blocks[i], wire.items[i], i)
        BY <1>3, <3>1, AgreeFacts
      <4>. QED
        BY <2>1, <3>2, <4>1 DEF Bears
    <3>4. GoogleReads(w, Went(proc, more))
      BY <3>2, <3>3, WireNames DEF s
    <3>5. Follows(out, more, w) /\ more.started
      BY <1>3, <3>1, GrownFollows
    <3>6. /\ Len(w.items) = Len(wire.items)
          /\ \A j \in 1 .. Len(wire.items) : w.items[j].open = wire.items[j].open
      BY <1>3, <3>1, GrowItem
    <3>. HIDE DEF more, w
    <3>7. proc \in GoogleStates(w)
      BY <1>3, <3>6 DEF GoogleStates
    <3>8. \A j \in 1 .. Len(w.items) : w.items[j].open <=> j = proc.active
      BY <1>3, <3>6
    <3>. QED
      BY <1>1, <3>4, <3>5, <3>7, <3>8, GoogleGoes
  <2>2. CASE ~(proc.active # 0 /\ out.blocks[proc.active].kind = kind)
    <3>. DEFINE added == AddBlock(closed, kind)
                more == Extend(added, NextItem, kind, NextItem)
                w == Grow(WithItem(v, kind), NextItem)
                p == [proc EXCEPT !.active = NextItem]
    <3>1. CanOpen /\ kind \in Kinds
      BY <2>2 DEF Kinds
    <3>2. /\ Follows(out, more, w) /\ more.started
          /\ Len(w.items) = NextItem /\ w.items[NextItem].open
          /\ \A i \in 1 .. Len(wire.items) : ~w.items[i].open
          /\ [v EXCEPT !.items = Append(@, [Item(kind) EXCEPT !.sent = 1])] = w
      BY <1>6, <3>1
    <3>3. GoogleReads(w, Went(p, more))
      BY <1>5, <2>2, <3>2 DEF closed, s, v
    <3>. HIDE DEF added, more, w
    <3>4. p \in GoogleStates(w) /\ p.active = NextItem
      BY <1>3, <1>4, <1>5, <3>2 DEF GoogleStates
    <3>. HIDE DEF p
    <3>5. \A i \in 1 .. Len(w.items) : w.items[i].open <=> i = p.active
      <4>. TAKE i \in 1 .. Len(w.items)
      <4>1. CASE i = NextItem
        BY <3>2, <3>4, <4>1
      <4>2. CASE i # NextItem
        <5>1. i \in 1 .. Len(wire.items)
          BY <1>4, <1>5, <3>2, <4>2
        <5>. QED
          BY <3>2, <3>4, <4>2, <5>1
      <4>. QED
        BY <4>1, <4>2
    <3>. QED
      BY <1>1, <3>2, <3>3, <3>4, <3>5, GoogleGoes
  <2>. QED
    BY <2>1, <2>2
<1>9. CASE GoogleFunctionCall
  <2>. DEFINE added == AddBlock(closed, "toolCall")
              more == Extend(added, NextItem, "toolCall", NextItem)
              last == PushBlockEnd(more, NextItem)
              g == Grow(WithItem(v, "toolCall"), NextItem)
              w == Close(g, NextItem)
              whole == [Item("toolCall") EXCEPT !.sent = 1, !.open = FALSE]
              p == [proc EXCEPT !.active = 0]
  <2>1. CanOpen /\ "toolCall" \in Kinds
    BY <1>9 DEF GoogleFunctionCall, Kinds
  <2>2. /\ Len(added.blocks) = NextItem
        /\ Follows(out, more, g) /\ more.started
        /\ g \in Wires /\ Len(g.items) = NextItem
        /\ g.items[NextItem].kind = "toolCall" /\ g.items[NextItem].open
        /\ g.items[NextItem].sent = 1 /\ ~g.items[NextItem].brought
        /\ g.stopped = v.stopped
        /\ \A i \in 1 .. Len(wire.items) : /\ ~g.items[i].open
                                           /\ g.items[i] = v.items[i]
        /\ [v EXCEPT !.items = Append(@, [Item("toolCall") EXCEPT !.sent = 1])] = g
    BY <1>6, <2>1, ZenonT(30)
  <2>3. [v EXCEPT !.items = Append(@, [Item("toolCall") EXCEPT !.sent = 1])] = g
    BY <2>2
  <2>4. /\ NextItem \in 1 .. Len(g.items)
        /\ \A i \in 1 .. Len(wire.items) : i \in 1 .. Len(g.items) \ {NextItem}
    BY <1>4, <1>5, <2>2
  <2>5. GoogleReads([v EXCEPT !.items = Append(@, whole)], Went(p, last))
    <3>. HIDE DEF p
    <3>. QED
      BY <1>9, <2>2 DEF GoogleFunctionCall, closed, s, v, p
  <2>. HIDE DEF added, more
  <2>6. Follows(more, last, w) /\ Follows(out, last, w) /\ last.started
    <3>1. Follows(more, last, w)
      BY <1>1, <2>2, <2>4, EndFollows DEF Follows
    <3>. HIDE DEF g, w, last
    <3>2. Follows(out, last, w)
      BY <1>3, <2>2, <3>1, FollowsOn
    <3>. QED
      BY <2>2, <3>1, <3>2 DEF Follows, Steps
  <2>7. /\ \A i \in 1 .. Len(wire.items) : g.items[i] = v.items[i]
        /\ g.stopped = v.stopped
    BY <2>2
  <2>. HIDE DEF g, last
  <2>8. /\ w \in Wires /\ w.stopped = g.stopped /\ Len(w.items) = Len(g.items)
        /\ w.items[NextItem].kind = "toolCall" /\ w.items[NextItem].sent = 1
        /\ ~w.items[NextItem].brought /\ w.items[NextItem].open = FALSE
        /\ \A i \in 1 .. Len(g.items) \ {NextItem} : w.items[i] = g.items[i]
    <3>1. w \in Wires /\ w.stopped = g.stopped /\ Len(w.items) = Len(g.items)
      BY <2>2, <2>4, CloseItem, ZenonT(30)
    <3>2. /\ w.items[NextItem].kind = g.items[NextItem].kind
          /\ w.items[NextItem].brought = g.items[NextItem].brought
          /\ w.items[NextItem].sent = g.items[NextItem].sent
          /\ w.items[NextItem].open = FALSE
          /\ \A i \in 1 .. Len(g.items) \ {NextItem} : w.items[i] = g.items[i]
      BY <2>2, <2>4, CloseItem, ZenonT(30)
    <3>. QED
      BY <2>2, <3>1, <3>2
  <2>. HIDE DEF w
  <2>9. w.items[NextItem] \in ItemRecords
    BY <2>2, <2>4, <2>8 DEF Wires
  <2>10. whole \in ItemRecords /\ w.items[NextItem] = whole
    <3>. DEFINE it == w.items[NextItem]
    <3>1. /\ it \in ItemRecords /\ it.kind = "toolCall" /\ it.sent = 1
          /\ it.brought = FALSE /\ it.open = FALSE
      BY <2>8, <2>9 DEF ItemRecords
    <3>2. /\ whole \in ItemRecords /\ whole.kind = "toolCall" /\ whole.sent = 1
          /\ whole.brought = FALSE /\ whole.open = FALSE
      BY <2>1 DEF ItemRecords, Item
    <3>. HIDE DEF it, whole
    <3>3. it = whole
      BY <3>1, <3>2 DEF ItemRecords
    <3>. QED
      BY <3>2, <3>3 DEF it
  <2>11. [v EXCEPT !.items = Append(@, whole)] = w
    <3>. HIDE DEF whole
    <3>1. \A i \in 1 .. Len(v.items) : w.items[i] = v.items[i]
      BY <1>4, <2>4, <2>7, <2>8
    <3>2. w.stopped = v.stopped /\ Len(w.items) = Len(v.items) + 1
      BY <1>5, <2>2, <2>7, <2>8
    <3>3. w.items[Len(v.items) + 1] = whole
      BY <1>5, <2>10
    <3>. QED
      BY <1>4, <2>8, <2>10, <3>1, <3>2, <3>3, AppendIs
  <2>12. GoogleReads(w, Went(p, last))
    BY <2>5, <2>11
  <2>13. p \in GoogleStates(w) /\ p.active = 0
    BY <1>3, <1>5, <2>2, <2>8 DEF GoogleStates
  <2>. HIDE DEF p
  <2>14. \A i \in 1 .. Len(w.items) : w.items[i].open <=> i = p.active
    <3>. TAKE i \in 1 .. Len(w.items)
    <3>1. i # p.active
      BY <1>5, <2>2, <2>8, <2>13
    <3>2. CASE i = NextItem
      BY <2>8, <3>1, <3>2
    <3>3. CASE i # NextItem
      <4>1. i \in 1 .. Len(wire.items)
        BY <1>4, <1>5, <2>2, <2>8, <3>3
      <4>. QED
        BY <2>2, <2>4, <2>8, <3>1, <4>1
    <3>. QED
      BY <3>2, <3>3
  <2>. QED
    BY <1>1, <2>6, <2>12, <2>13, <2>14, GoogleGoes
<1>10. CASE GoogleFinishReason
  <2>. PICK reason \in {"stop", "length", "error"} :
         GoogleReads(Stopped,
           Went(proc, [GoogleStarted EXCEPT
                         !.reason = IF HasToolCall(out) THEN "toolUse" ELSE reason]))
    BY <1>10 DEF GoogleFinishReason
  <2>. DEFINE why == IF HasToolCall(out) THEN "toolUse" ELSE reason
              told == [s EXCEPT !.reason = why]
              w == Stop(wire)
  <2>1. why \in Reasons
    BY DEF Reasons
  <2>2. GoogleReads(w, Went(proc, told))
    BY WireNames DEF s
  <2>. HIDE DEF why
  <2>3. Follows(out, told, w) /\ told.started
    BY <1>3, <2>1, StoppedFollows
  <2>4. w.items = wire.items
    BY <1>3, StopWire
  <2>. HIDE DEF told, w
  <2>5. proc \in GoogleStates(w)
    BY <1>3, <2>4 DEF GoogleStates
  <2>6. \A i \in 1 .. Len(w.items) : w.items[i].open <=> i = proc.active
    BY <1>3, <2>4
  <2>. QED
    BY <1>1, <2>2, <2>3, <2>5, <2>6, GoogleGoes
<1>11. CASE GoogleEnds
  <2>1. \/ BodyEnds(Failed(proc, closed))
        \/ BodyEnds(Ended(proc, PushDone(closed)))
    BY <1>11 DEF GoogleEnds, closed, s
  <2>2. Leaves(out, closed, wire)
    <3>1. Leaves(out, closed, v)
      BY <1>4, FollowsLeaves
    <3>. QED
      BY <1>1, <1>3, <1>4, <3>1, LeavesAlike
  <2>3. closed.outcome = "none" /\ closed \in Streams /\ Agree(closed, v)
    BY <1>4 DEF Follows, Agree, Told
  <2>4. CASE BodyEnds(Failed(proc, closed))
    BY <2>2, <2>3, <2>4, BodyFailed
  <2>5. CASE BodyEnds(Ended(proc, PushDone(closed)))
    <3>1. PushDone(closed).shown = closed.shown
      BY <2>3 DEF PushDone, Push, Streams
    <3>2. \A i \in 1 .. Len(closed.shown) : ~closed.shown[i].open
      BY <1>4, <2>3, AgreeFacts
    <3>3. Concluded(PushDone(closed), wire)
      BY <1>1, <3>1, <3>2 DEF Concluded
    <3>4. Leaves(out, PushDone(closed), wire)
      BY <2>2, DoneLeaves
    <3>. QED
      BY <2>5, <3>3, <3>4, BodyEnded
  <2>. QED
    BY <2>1, <2>4, <2>5
<1>. QED
  BY <1>7, <1>8, <1>9, <1>10, <1>11 DEF GoogleNext

-----------------------------------------------------------------------------
(* Mistral                                                                 *)

MistralStates(w) ==
  [started : BOOLEAN, active : 0 .. Len(w.items), byKey : SlotMaps]

\* Which items are under way, and where their blocks are.
MistralHolds(p, w) ==
  /\ p.active # 0 => w.items[p.active].kind # "toolCall"
  /\ \A i \in 1 .. Len(w.items) :
       /\ w.items[i].open <=> i = p.active \/ w.items[i].kind = "toolCall"
       /\ w.items[i].kind = "toolCall" => p.byKey[i] = i

LEMMA MistralGoes ==
  ASSUME StreamInv, api = "mistral", NEW w, NEW p \in MistralStates(w), NEW o,
         MistralReads(w, Went(p, o)), Follows(out, o, w), o.started,
         MistralHolds(p, w)
  PROVE  StreamInv' /\ Moves
<1>. DEFINE q == [p EXCEPT !.started = TRUE]
<1>1. Read(w, Went(q, o))
  BY MarkedSteps DEF MistralReads
<1>2. /\ q \in [started : BOOLEAN, active : 0 .. Len(w.items), byKey : SlotMaps]
      /\ q.started = TRUE /\ q.active = p.active /\ q.byKey = p.byKey
  BY DEF MistralStates
<1>3. o.started = TRUE
  BY DEF Follows, Agree, Told, Streams
<1>. HIDE DEF q
<1>4. ProcFits(q, o.started, w)
  BY <1>2, <1>3 DEF ProcFits, MistralFits, MistralHolds
<1>. QED
  BY <1>1, <1>4, WentOn

LEMMA MistralFacts ==
  ASSUME StreamInv, api = "mistral", task = "reading"
  PROVE  /\ Agree(out, wire) /\ Told(out) /\ wire \in Wires
         /\ out.outcome = "none"
         /\ proc \in MistralStates(wire) /\ MistralHolds(proc, wire)
         /\ Follows(out, MistralStarted, wire) /\ MistralStarted.started
<1>1. /\ Agree(out, wire) /\ MistralFits(proc, out.started, wire)
      /\ wire \in Wires /\ Told(out) /\ out.outcome = "none"
  BY ReadingFacts DEF ProcFits
<1>2. /\ proc \in MistralStates(wire) /\ MistralHolds(proc, wire)
      /\ proc.started = out.started /\ proc.started \in BOOLEAN
  BY <1>1 DEF MistralFits, MistralStates, MistralHolds
<1>3. Follows(out, MistralStarted, wire) /\ MistralStarted.started
  BY <1>1, <1>2, StartedFollows DEF MistralStarted
<1>. QED
  BY <1>1, <1>2, <1>3

\* The run ends, and the calls stay as they are.
LEMMA MistralRun ==
  ASSUME StreamInv, api = "mistral", task = "reading"
  PROVE  LET closed == MistralActiveEnded(MistralStarted)
             v == MistralRunOver
         IN /\ Follows(out, closed, v) /\ closed.started
            /\ v \in Wires /\ v.stopped = wire.stopped
            /\ Len(v.items) = Len(wire.items)
            /\ \A i \in 1 .. Len(wire.items) :
                 /\ v.items[i].kind = wire.items[i].kind
                 /\ v.items[i].brought = wire.items[i].brought
                 /\ v.items[i].sent = wire.items[i].sent
                 /\ v.items[i].open <=> wire.items[i].kind = "toolCall"
<1>. DEFINE s == MistralStarted
            active == proc.active
            closed == MistralActiveEnded(s)
            v == MistralRunOver
            its == [i \in Items |-> IF wire.items[i].kind = "toolCall"
                                   THEN wire.items[i]
                                   ELSE [wire.items[i] EXCEPT !.open = FALSE]]
<1>1. /\ Agree(out, wire) /\ Told(out) /\ wire \in Wires
      /\ proc \in MistralStates(wire) /\ MistralHolds(proc, wire)
      /\ Follows(out, s, wire) /\ s.started
  BY MistralFacts
<1>2. /\ active \in 0 .. Len(wire.items)
      /\ Items = 1 .. Len(wire.items) /\ Len(wire.items) \in Nat
      /\ \A i \in 1 .. Len(wire.items) : wire.items[i] \in ItemRecords
  BY <1>1, ItemFacts DEF MistralStates
<1>3. /\ active # 0 => /\ active \in 1 .. Len(wire.items)
                       /\ wire.items[active].kind # "toolCall"
      /\ \A i \in 1 .. Len(wire.items) :
           wire.items[i].open <=> i = active \/ wire.items[i].kind = "toolCall"
  BY <1>1, <1>2 DEF MistralHolds
<1>4. active # 0 => wire.items[active].open
  BY <1>3
<1>5. v = [wire EXCEPT !.items = its]
  BY <1>1 DEF MistralRunOver, Wires
<1>6. \A i \in 1 .. Len(wire.items) :
        /\ its[i] \in ItemRecords
        /\ its[i].kind = wire.items[i].kind /\ its[i].sent = wire.items[i].sent
        /\ its[i].brought = wire.items[i].brought
        /\ its[i].open <=> i # active /\ wire.items[i].open
  <2>. TAKE i \in 1 .. Len(wire.items)
  <2>. DEFINE it == wire.items[i]
              ended == [it EXCEPT !.open = FALSE]
  <2>1. its[i] = IF it.kind = "toolCall" THEN it ELSE ended
    BY <1>2
  <2>2. it \in ItemRecords
    BY <1>2
  <2>3. /\ ended \in ItemRecords /\ ended.kind = it.kind
        /\ ended.brought = it.brought /\ ended.sent = it.sent /\ ended.open = FALSE
    BY <2>2 DEF ItemRecords
  <2>4. /\ it.open <=> i = active \/ it.kind = "toolCall"
        /\ i = active => it.kind # "toolCall"
    BY <1>2, <1>3
  <2>. HIDE DEF it, ended
  <2>5. /\ its[i] \in ItemRecords /\ its[i].kind = it.kind
        /\ its[i].brought = it.brought
        /\ its[i].sent = it.sent
        /\ its[i].open <=> i # active /\ it.open
    <3>1. CASE it.kind = "toolCall"
      BY <2>1, <2>2, <2>4, <3>1
    <3>2. CASE it.kind # "toolCall"
      BY <2>1, <2>3, <2>4, <3>2
    <3>. QED
      BY <3>1, <3>2
  <2>. QED
    BY <2>5 DEF it
<1>7. its \in Seq(ItemRecords) /\ Len(its) = Len(wire.items)
  <2>1. its \in [1 .. Len(wire.items) -> ItemRecords]
    BY <1>2, <1>6
  <2>. HIDE DEF its
  <2>. QED
    BY <1>2, <2>1
<1>. HIDE DEF its, v
<1>8. v = RunEnded(wire, active)
  BY <1>1, <1>2, <1>5, <1>6, <1>7, RunEndedIs, SMTT(30)
<1>9. closed = IF active = 0 THEN s ELSE PushBlockEnd(s, active)
  BY DEF MistralActiveEnded
<1>. HIDE DEF closed, s
<1>10. /\ Follows(out, closed, v) /\ (s.started => closed.started)
       /\ v \in Wires /\ v.stopped = wire.stopped
       /\ Len(v.items) = Len(wire.items)
       /\ \A i \in 1 .. Len(wire.items) :
            /\ v.items[i].kind = wire.items[i].kind
            /\ v.items[i].brought = wire.items[i].brought
            /\ v.items[i].sent = wire.items[i].sent
            /\ v.items[i].open <=> i # active /\ wire.items[i].open
  BY <1>1, <1>2, <1>4, <1>8, <1>9, RunFollows, SMTT(30)
<1>11. \A i \in 1 .. Len(wire.items) :
         v.items[i].open <=> wire.items[i].kind = "toolCall"
  <2>. TAKE i \in 1 .. Len(wire.items)
  <2>1. i = active => wire.items[i].kind # "toolCall"
    BY <1>2, <1>3
  <2>. QED
    BY <1>3, <1>10, <2>1
<1>12. closed.started
  BY <1>1, <1>10
<1>. QED
  BY <1>1, <1>10, <1>11, <1>12 DEF closed, s, v

LEMMA MistralKeeps ==
  ASSUME StreamInv, MistralNext
  PROVE  StreamInv' /\ Moves
<1>1. api = "mistral"
  BY DEF MistralNext
<1>2. task = "reading"
  BY DEF MistralNext, MistralOther, MistralContent, MistralCallDelta,
         MistralFinishReason, MistralEnds, MistralReads, Read, BodyEnds
<1>. DEFINE s == MistralStarted
            closed == MistralActiveEnded(s)
            v == MistralRunOver
<1>3. /\ Agree(out, wire) /\ Told(out) /\ wire \in Wires /\ out.outcome = "none"
      /\ proc \in MistralStates(wire) /\ MistralHolds(proc, wire)
      /\ Follows(out, s, wire) /\ s.started
  BY <1>1, <1>2, MistralFacts
<1>4. /\ Follows(out, closed, v) /\ closed.started
      /\ v \in Wires /\ v.stopped = wire.stopped
      /\ Len(v.items) = Len(wire.items)
      /\ \A i \in 1 .. Len(wire.items) :
           /\ v.items[i].kind = wire.items[i].kind
           /\ v.items[i].brought = wire.items[i].brought
           /\ v.items[i].sent = wire.items[i].sent
           /\ v.items[i].open <=> wire.items[i].kind = "toolCall"
  BY <1>1, <1>2, MistralRun
<1>5. /\ Len(wire.items) \in Nat /\ Len(out.blocks) = Len(wire.items)
      /\ NextItem = Len(v.items) + 1 /\ NextItem = Len(out.blocks) + 1
      /\ CanOpen => Len(v.items) < MaxItems
  BY <1>3, <1>4, ItemFacts, AgreeFacts DEF NextItem
<1>6. /\ \A i \in 1 .. Len(wire.items) : wire.items[i].kind = "toolCall" =>
           proc.byKey[i] = i
      /\ proc.active \in 0 .. Len(wire.items) /\ proc.byKey \in SlotMaps
  BY <1>3 DEF MistralHolds, MistralStates
<1>. HIDE DEF closed, v, s
\* The next item, after the run.
<1>7. ASSUME NEW kind \in Kinds, CanOpen
      PROVE  LET added == AddBlock(closed, kind)
                 more == Extend(added, NextItem, kind, NextItem)
                 w == Grow(WithItem(v, kind), NextItem)
             IN /\ Len(added.blocks) = NextItem
                /\ Follows(out, more, w) /\ more.started
                /\ w \in Wires /\ Len(w.items) = NextItem
                /\ w.items[NextItem].kind = kind /\ w.items[NextItem].open
                /\ \A i \in 1 .. Len(wire.items) : w.items[i] = v.items[i]
                /\ [v EXCEPT !.items = Append(@, [Item(kind) EXCEPT !.sent = 1])] = w
  <2>. DEFINE added == AddBlock(closed, kind)
              more == Extend(added, NextItem, kind, NextItem)
              w == Grow(WithItem(v, kind), NextItem)
  <2>1. Len(added.blocks) = NextItem /\ Follows(out, more, w) /\ more.started
    BY <1>3, <1>4, <1>5, <1>7, BegunFollows
  <2>2. [v EXCEPT !.items = Append(@, [Item(kind) EXCEPT !.sent = 1])] = w
    BY <1>4, <1>5, <1>7, BegunIs
  <2>3. /\ w \in Wires /\ Len(w.items) = NextItem
        /\ w.items[NextItem].kind = kind /\ w.items[NextItem].open
        /\ \A i \in 1 .. Len(wire.items) : w.items[i] = v.items[i]
    BY <1>4, <1>5, <1>7, BegunItem
  <2>. QED
    BY <2>1, <2>2, <2>3
<1>8. CASE MistralOther
  BY <1>1, <1>3, <1>8, MistralGoes DEF MistralOther, s
<1>9. CASE MistralContent
  <2>. PICK kind \in {"text", "thinking"} :
    LET continues == proc.active # 0 /\ out.blocks[proc.active].kind = kind
        added == AddBlock(MistralActiveEnded(MistralStarted), kind)
        b == Len(out.blocks) + 1
        w == [MistralRunOver EXCEPT
                !.items = Append(@, [Item(kind) EXCEPT !.sent = 1])]
    IN IF continues
       THEN \E i \in OpenItems :
              /\ CanGrow(i) /\ wire.items[i].kind = kind
              /\ MistralReads(Grown(i),
                   Went(proc, Extend(MistralStarted, proc.active, kind, i)))
       ELSE /\ CanOpen
            /\ MistralReads(w, Went([proc EXCEPT !.active = b],
                                    Extend(added, b, kind, NextItem)))
    BY <1>9 DEF MistralContent
  <2>1. CASE proc.active # 0 /\ out.blocks[proc.active].kind = kind
    <3>. PICK i \in OpenItems :
           /\ wire.items[i].kind = kind
           /\ MistralReads(Grown(i),
                Went(proc, Extend(MistralStarted, proc.active, kind, i)))
      BY <2>1
    <3>. DEFINE more == Extend(s, i, wire.items[i].kind, i)
                w == Grow(wire, i)
    <3>1. i \in 1 .. Len(wire.items) /\ wire.items[i].open
      BY <1>3, ItemFacts
    <3>2. proc.active = i
      BY <1>3, <3>1 DEF MistralHolds
    <3>3. MistralReads(w, Went(proc, more))
      BY <3>2, WireNames DEF s
    <3>4. Follows(out, more, w) /\ more.started
      BY <1>3, <3>1, GrownFollows
    <3>5. /\ Len(w.items) = Len(wire.items)
          /\ \A j \in 1 .. Len(wire.items) : /\ w.items[j].open = wire.items[j].open
                                             /\ w.items[j].kind = wire.items[j].kind
      <4>1. wire \in Wires
        BY <1>3, ItemFacts
      <4>2. /\ Len(w.items) = Len(wire.items)
            /\ w.items[i].kind = wire.items[i].kind
            /\ w.items[i].open = wire.items[i].open
            /\ \A j \in 1 .. Len(wire.items) \ {i} : w.items[j] = wire.items[j]
        BY <3>1, <4>1, GrowItem
      <4>. HIDE DEF w
      <4>. QED
        BY <4>2
    <3>. HIDE DEF more, w
    <3>6. proc \in MistralStates(w)
      BY <1>3, <3>5 DEF MistralStates
    <3>7. MistralHolds(proc, w)
      BY <1>3, <3>1, <3>2, <3>5, SMTT(30) DEF MistralHolds
    <3>. QED
      BY <1>1, <3>3, <3>4, <3>6, <3>7, MistralGoes
  <2>2. CASE ~(proc.active # 0 /\ out.blocks[proc.active].kind = kind)
    <3>. DEFINE added == AddBlock(closed, kind)
                more == Extend(added, NextItem, kind, NextItem)
                w == Grow(WithItem(v, kind), NextItem)
                p == [proc EXCEPT !.active = NextItem]
    <3>1. CanOpen /\ kind \in Kinds
      BY <2>2 DEF Kinds
    <3>2. /\ Follows(out, more, w) /\ more.started
          /\ Len(w.items) = NextItem
          /\ w.items[NextItem].kind = kind /\ w.items[NextItem].open
          /\ \A i \in 1 .. Len(wire.items) : w.items[i] = v.items[i]
          /\ [v EXCEPT !.items = Append(@, [Item(kind) EXCEPT !.sent = 1])] = w
      BY <1>7, <3>1
    <3>3. MistralReads(w, Went(p, more))
      BY <1>5, <2>2, <3>2 DEF closed, s, v
    <3>. HIDE DEF added, more, w
    <3>4. /\ p \in MistralStates(w) /\ p.active = NextItem
          /\ p.byKey = proc.byKey
      BY <1>3, <1>4, <1>5, <3>2 DEF MistralStates
    <3>. HIDE DEF p
    <3>5. \A i \in 1 .. Len(w.items) :
            /\ w.items[i].open <=> i = p.active \/ w.items[i].kind = "toolCall"
            /\ w.items[i].kind = "toolCall" => p.byKey[i] = i
      <4>. TAKE i \in 1 .. Len(w.items)
      <4>1. CASE i = NextItem
        BY <3>2, <3>4, <4>1
      <4>2. CASE i # NextItem
        <5>1. i \in 1 .. Len(wire.items)
          BY <1>4, <1>5, <3>2, <4>2
        <5>. QED
          BY <1>4, <1>6, <3>2, <3>4, <4>2, <5>1
      <4>. QED
        BY <4>1, <4>2
    <3>6. MistralHolds(p, w)
      BY <3>2, <3>4, <3>5 DEF MistralHolds
    <3>. QED
      BY <1>1, <3>2, <3>3, <3>4, <3>6, MistralGoes
  <2>. QED
    BY <2>1, <2>2
<1>10. CASE MistralCallDelta
  <2>1. ASSUME CanOpen,
               LET added == AddBlock(closed, "toolCall")
                   b == Len(added.blocks)
                   w == [v EXCEPT
                           !.items = Append(@, [Item("toolCall") EXCEPT !.sent = 1])]
               IN MistralReads(w, Went([proc EXCEPT !.active = 0,
                                                    !.byKey[NextItem] = b],
                                       Extend(added, b, "toolCall", NextItem)))
        PROVE  StreamInv' /\ Moves
    <3>. DEFINE added == AddBlock(closed, "toolCall")
                more == Extend(added, NextItem, "toolCall", NextItem)
                w == Grow(WithItem(v, "toolCall"), NextItem)
                keys == [proc.byKey EXCEPT ![NextItem] = NextItem]
                p0 == [proc EXCEPT !.active = 0]
                p == [p0 EXCEPT !.byKey = keys]
    <3>1. "toolCall" \in Kinds
      BY DEF Kinds
    <3>2. /\ Len(added.blocks) = NextItem
          /\ Follows(out, more, w) /\ more.started
          /\ w \in Wires /\ Len(w.items) = NextItem
          /\ w.items[NextItem].kind = "toolCall" /\ w.items[NextItem].open
          /\ \A i \in 1 .. Len(wire.items) : w.items[i] = v.items[i]
          /\ [v EXCEPT !.items = Append(@, [Item("toolCall") EXCEPT !.sent = 1])] = w
      BY <1>7, <2>1, <3>1
    <3>3. [proc EXCEPT !.active = 0, !.byKey[NextItem] = NextItem] = p
      BY <1>3 DEF MistralStates
    <3>4. MistralReads(w, Went(p, more))
      <4>. DEFINE ww == [v EXCEPT
                          !.items = Append(@, [Item("toolCall") EXCEPT !.sent = 1])]
                  pp(b) == [proc EXCEPT !.active = 0, !.byKey[NextItem] = b]
                  mm(b) == Extend(added, b, "toolCall", NextItem)
      <4>1. MistralReads(ww, Went(pp(Len(added.blocks)), mm(Len(added.blocks))))
        BY <2>1
      <4>2. ww = w /\ Len(added.blocks) = NextItem
        BY <3>2
      <4>3. pp(NextItem) = p /\ mm(NextItem) = more
        BY <3>3
      <4>. HIDE DEF ww, pp, mm, w, p, more, added
      <4>. QED
        BY <4>1, <4>2, <4>3
    <3>5. NextItem \in 1 .. MaxItems /\ NextItem \in Nat
      BY <1>4, <1>5, <2>1, HttpStreamAssumption
    <3>6. /\ keys \in SlotMaps /\ keys[NextItem] = NextItem
          /\ \A i \in 1 .. Len(wire.items) : keys[i] = proc.byKey[i]
      <4>1. \A i \in 1 .. Len(wire.items) : i # NextItem /\ i \in 1 .. MaxItems
        BY <1>5, <3>5, HttpStreamAssumption DEF NextItem
      <4>. QED
        BY <1>6, <3>5, <4>1 DEF SlotMaps
    <3>. HIDE DEF added, more, w, keys
    <3>7. p0 \in MistralStates(w) /\ p0.active = 0
      BY <1>3, <1>5, <3>2 DEF MistralStates
    <3>. HIDE DEF p0
    <3>8. p \in MistralStates(w) /\ p.active = 0 /\ p.byKey = keys
      BY <3>6, <3>7 DEF MistralStates
    <3>. HIDE DEF p
    <3>9. \A i \in 1 .. Len(w.items) :
            /\ w.items[i].open <=> i = p.active \/ w.items[i].kind = "toolCall"
            /\ w.items[i].kind = "toolCall" => p.byKey[i] = i
      <4>. TAKE i \in 1 .. Len(w.items)
      <4>1. i # p.active
        BY <1>5, <3>2, <3>8
      <4>2. CASE i = NextItem
        BY <3>2, <3>6, <3>8, <4>2
      <4>3. CASE i # NextItem
        <5>1. i \in 1 .. Len(wire.items)
          BY <1>4, <1>5, <3>2, <4>3
        <5>. QED
          BY <1>4, <1>6, <3>2, <3>6, <3>8, <4>1, <5>1
      <4>. QED
        BY <4>2, <4>3
    <3>10. MistralHolds(p, w)
      BY <3>8, <3>9 DEF MistralHolds
    <3>. QED
      BY <1>1, <3>2, <3>4, <3>8, <3>10, MistralGoes
  <2>2. ASSUME NEW i \in Items, CanGrow(i), wire.items[i].kind = "toolCall",
               MistralReads([v EXCEPT !.items[i].sent = @ + 1],
                 Went([proc EXCEPT !.active = 0],
                      Extend(closed, proc.byKey[i], "toolCall", i)))
        PROVE  StreamInv' /\ Moves
    <3>. DEFINE more == Extend(closed, i, "toolCall", i)
                w == Grow(v, i)
                p == [proc EXCEPT !.active = 0]
    <3>1. i \in 1 .. Len(wire.items)
      BY <1>3, <2>2, ItemFacts
    <3>2. proc.byKey[i] = i
      BY <1>6, <2>2, <3>1
    <3>3. MistralReads(w, Went(p, more))
      BY <2>2, <3>2 DEF Grow
    <3>4. /\ i \in 1 .. Len(v.items) /\ v.items[i].open
          /\ v.items[i].kind = "toolCall" /\ Agree(closed, v)
      BY <1>4, <2>2, <3>1 DEF Follows
    <3>5. Follows(closed, more, w)
      BY <3>4, FragmentFollows
    <3>6. /\ Len(w.items) = Len(v.items)
          /\ \A j \in 1 .. Len(v.items) : /\ w.items[j].open = v.items[j].open
                                          /\ w.items[j].kind = v.items[j].kind
      BY <1>4, <3>4, GrowItem
    <3>. HIDE DEF more, w
    <3>7. Follows(out, more, w)
      BY <1>3, <1>4, <3>5, FollowsOn
    <3>8. more.started
      BY <1>4, <3>5 DEF Follows, Steps
    <3>9. p \in MistralStates(w) /\ p.active = 0 /\ p.byKey = proc.byKey
      BY <1>3, <1>4, <1>5, <3>6 DEF MistralStates
    <3>. HIDE DEF p
    <3>10. MistralHolds(p, w)
      <4>1. \A j \in 1 .. Len(w.items) : j # p.active
        BY <1>4, <1>5, <3>6, <3>9
      <4>. QED
        BY <1>4, <1>6, <3>6, <3>9, <4>1 DEF MistralHolds
    <3>. QED
      BY <1>1, <3>3, <3>7, <3>8, <3>9, <3>10, MistralGoes
  <2>. QED
    BY <1>10, <2>1, <2>2 DEF MistralCallDelta, closed, s, v
<1>11. CASE MistralFinishReason
  <2>. PICK reason \in {"stop", "length", "toolUse", "error"} :
         MistralReads(Stopped,
                      Went(proc, [MistralStarted EXCEPT !.reason = reason]))
    BY <1>11 DEF MistralFinishReason
  <2>. DEFINE told == [s EXCEPT !.reason = reason]
              w == Stop(wire)
  <2>1. MistralReads(w, Went(proc, told))
    BY WireNames DEF s
  <2>2. Follows(out, told, w) /\ told.started
    BY <1>3, StoppedFollows DEF Reasons
  <2>3. w.items = wire.items
    BY <1>3, StopWire
  <2>. HIDE DEF told, w
  <2>4. proc \in MistralStates(w) /\ MistralHolds(proc, w)
    BY <1>3, <2>3 DEF MistralStates, MistralHolds
  <2>. QED
    BY <1>1, <2>1, <2>2, <2>4, MistralGoes
<1>12. CASE MistralEnds
  <2>. DEFINE calls == {b \in DOMAIN out.blocks : out.blocks[b].kind = "toolCall"}
              ended == EndBlocks(closed, calls)
  <2>1. \/ BodyEnds(Failed(proc, ended))
        \/ BodyEnds(Ended(proc, PushDone(ended)))
    BY <1>12 DEF MistralEnds, MistralFinished, closed, s
  <2>2. /\ calls \in SUBSET (1 .. Len(v.items))
        /\ \A i \in 1 .. Len(v.items) : i \in calls <=> v.items[i].open
    <3>1. DOMAIN out.blocks = 1 .. Len(wire.items)
      BY <1>3, AgreeFacts
    <3>2. \A i \in 1 .. Len(wire.items) : out.blocks[i].kind = wire.items[i].kind
      <4>1. \A i \in 1 .. Len(wire.items) : Bears(out.blocks[i], wire.items[i], i)
        BY <1>3, <1>5, AgreeFacts
      <4>. QED
        BY <4>1 DEF Bears
    <3>. QED
      BY <1>4, <3>1, <3>2
  <2>. HIDE DEF calls
  <2>3. Agree(closed, v)
    BY <1>4 DEF Follows
  <2>4. /\ Leaves(closed, ended, v) /\ ended.outcome = "none"
        /\ \A j \in 1 .. Len(ended.shown) :
             ended.shown[j].open => j \in 1 .. Len(v.items) \ calls /\ v.items[j].open
    BY <2>2, <2>3, BlocksLeave
  <2>. HIDE DEF ended
  <2>5. \A j \in 1 .. Len(ended.shown) : ~ended.shown[j].open
    BY <2>2, <2>4
  <2>6. Leaves(out, ended, wire)
    <3>1. Leaves(out, ended, v)
      BY <1>3, <1>4, <2>4, LeavesOn
    <3>. QED
      BY <1>1, <1>3, <1>4, <3>1, LeavesAlike
  <2>7. CASE BodyEnds(Failed(proc, ended))
    BY <2>4, <2>6, <2>7, BodyFailed
  <2>8. CASE BodyEnds(Ended(proc, PushDone(ended)))
    <3>1. PushDone(ended).shown = ended.shown
      BY <2>4 DEF PushDone, Push, Leaves, Told, Streams
    <3>2. Concluded(PushDone(ended), wire)
      BY <1>1, <2>5, <3>1 DEF Concluded
    <3>3. Leaves(out, PushDone(ended), wire)
      BY <2>6, DoneLeaves
    <3>. QED
      BY <2>8, <3>2, <3>3, BodyEnded
  <2>. QED
    BY <2>1, <2>7, <2>8
<1>. QED
  BY <1>8, <1>9, <1>10, <1>11, <1>12 DEF MistralNext

-----------------------------------------------------------------------------
(* The theorems                                                            *)

LEMMA StreamKeeps ==
  ASSUME StreamInv, [Next]_vars
  PROVE  StreamInv' /\ Moves
<1>1. CASE UNCHANGED vars
  BY <1>1, AsideKeeps DEF vars
<1>2. CASE HttpNext
  BY <1>2, HttpKeeps
<1>3. CASE AnthropicNext
  BY <1>3, AnthropicKeeps
<1>4. CASE CompletionsNext
  BY <1>4, CompletionsKeeps
<1>5. CASE ResponsesNext
  BY <1>5, ResponsesKeeps
<1>6. CASE GoogleNext
  BY <1>6, GoogleKeeps
<1>7. CASE MistralNext
  BY <1>7, MistralKeeps
<1>8. CASE BedrockNext
  BY <1>8, BedrockKeeps
<1>9. CASE RelayedNext
  BY <1>9, RelayedKeeps
<1>. QED
  BY <1>1, <1>2, <1>3, <1>4, <1>5, <1>6, <1>7, <1>8, <1>9 DEF Next

\* Whatever the adapter and whatever the provider, the network, the caller and
\* the consumer do, the message, its events and the reply agree while the answer
\* is read, and the adapter finds the block of each fragment.
THEOREM StreamsAgree == Spec => []StreamInv
<1>1. Init => StreamInv
  BY InitKeeps
<1>2. StreamInv /\ [Next]_vars => StreamInv'
  BY StreamKeeps
<1>. QED
  BY <1>1, <1>2, PTL DEF Spec

LEMMA ReplyTold == StreamInv => MessageIsReply
<1>. SUFFICES ASSUME StreamInv PROVE MessageIsReply
  OBVIOUS
<1>1. wire \in Wires /\ Told(out) /\ Tells(out, wire)
  BY DEF StreamInv
<1>2. /\ Items = 1 .. Len(wire.items) /\ Len(out.blocks) = Len(wire.items)
      /\ out.blocks \in Seq(Blocks)
  BY <1>1, ItemFacts DEF Tells, Told, Streams
<1>3. ASSUME NEW i \in Items
      PROVE  /\ out.blocks[i].kind = wire.items[i].kind
             /\ \A k \in Fragments(i) : out.blocks[i].parts[k] = i
             /\ Cardinality(Fragments(i)) = wire.items[i].sent
             /\ LeadKept(i)
  <2>1. Bears(out.blocks[i], wire.items[i], i)
    BY <1>1, <1>2 DEF Tells
  <2>2. out.blocks[i] \in Blocks
    BY <1>2
  <2>3. out.blocks[i].parts \in Seq(Int)
    BY <2>2 DEF Blocks
  <2>4. Fragments(i) = FragmentsOf(out.blocks[i].parts)
    BY <2>3 DEF Fragments, FragmentsOf
  <2>5. LeadKept(i)
    BY <2>1 DEF Bears, Leads, LeadKept
  <2>. QED
    BY <2>1, <2>4, <2>5 DEF Bears
<1>. QED
  BY <1>2, <1>3 DEF MessageIsReply

LEMMA OverConcludes ==
  ASSUME StreamInv, out.outcome = "done"
  PROVE  Concluded(out, wire)
<1>1. task = "over"
  BY OnTheWay
<1>. QED
  BY <1>1 DEF StreamInv

LEMMA EventsTold == StreamInv => EventsTellMessage
<1>. SUFFICES ASSUME StreamInv PROVE EventsTellMessage
  OBVIOUS
<1>1. /\ out \in Streams /\ Len(out.shown) = Len(out.blocks)
      /\ \A i \in 1 .. Len(out.blocks) :
           /\ out.shown[i].parts = out.blocks[i].parts
           /\ ~out.shown[i].open => out.shown[i].lead = out.blocks[i].lead
  BY DEF StreamInv, Told
<1>2. /\ ~out.broken
      /\ DOMAIN out.blocks = 1 .. Len(out.blocks)
      /\ DOMAIN out.shown = 1 .. Len(out.shown)
  <2>1. /\ out.blocks \in Seq(Blocks) /\ out.shown \in Seq(ShownBlocks)
        /\ ~out.broken
    BY <1>1 DEF Streams
  <2>2. /\ DOMAIN out.blocks = 1 .. Len(out.blocks)
        /\ DOMAIN out.shown = 1 .. Len(out.shown)
    BY <2>1
  <2>. QED
    BY <2>1, <2>2
<1>3. out.outcome = "done" /\ wire.stopped =>
        \A i \in DOMAIN out.shown : ~out.shown[i].open
  BY <1>2, OverConcludes DEF Concluded
<1>. QED
  BY <1>1, <1>2, <1>3 DEF EventsTellMessage

\* What the caller gets is what the provider sent, as a message and as events:
\* block for item and fragment for fragment, for every number of items and of
\* fragments and every way to interleave and name them (the processors of the
\* eight adapters).
THEOREM RepliesAreTold == Spec => []MessageTold
<1>1. StreamInv => MessageTold
  BY ReplyTold, EventsTold DEF MessageTold
<1>. QED
  BY <1>1, StreamsAgree, PTL

\* A reply that was cut short is never done, for the adapters that can tell
\* (finish of openai_completions.rs, the ends of the bodies of the others).
THEOREM CutRepliesFail == Spec => []CutIsNoReply
<1>1. ASSUME StreamInv, out.outcome = "done",
             api \in {"completions", "responses", "piMessages", "proxy"}
      PROVE  wire.stopped /\ (api # "completions" => OpenItems = {})
  <2>1. wire.stopped /\ (api # "completions" => AllEnded(wire))
    BY <1>1, OverConcludes DEF Concluded
  <2>2. wire \in Wires
    BY <1>1 DEF StreamInv
  <2>3. AllEnded(wire) => OpenItems = {}
    BY <2>2, ItemFacts DEF AllEnded, OpenItems
  <2>. QED
    BY <2>1, <2>3
<1>2. StreamInv => CutIsNoReply
  BY <1>1 DEF CutIsNoReply
<1>. QED
  BY <1>2, StreamsAgree, PTL

\* The stream of every adapter is an assistant stream: it starts before it shows
\* a block, a block only grows until it ends, and nothing is shown after the
\* outcome, which is one (the refinement of AssistantStream, step by step).
THEOREM StreamsAreAssistantStreams == Spec => IsAssistantStream
<1>1. Init => Abstract!Init
  BY DEF Init, HttpInit, Silent, Abstract!Init
<1>2. StreamInv /\ [Next]_vars => [Abstract!Stream]_(Abstract!vars)
  BY StreamKeeps DEF Moves
<1>. QED
  BY <1>1, <1>2, StreamsAgree, PTL DEF Spec, IsAssistantStream, Abstract!Spec
=============================================================================
