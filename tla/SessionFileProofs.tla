-------------------------- MODULE SessionFileProofs --------------------------
(***************************************************************************)
(* A session file implements SessionLog, and reopens as its one writer has *)
(* it, for every set of processes and files and every bound.               *)
(*                                                                         *)
(* Both rest on what one more piece makes of a file: a newline changes     *)
(* nothing that is read, a text adds its entry or makes the file one that  *)
(* does not open, and a file that does not open never opens again. FileInv *)
(* says that the line of every acknowledged entry is in its file; SoleInv  *)
(* that a file with no failed write and one handle gives what the handle   *)
(* has in memory, up to a line whose end is still to be written.           *)
(***************************************************************************)
EXTENDS SessionFile, SequenceTheorems, FiniteSetTheorems, WellFoundedInduction,
        TLAPS

-----------------------------------------------------------------------------
(* The texts of a file                                                     *)

\* A set of numbers has a least one.
LEMMA Least ==
  ASSUME NEW S \in SUBSET Nat, S # {}
  PROVE  \E n \in S : \A m \in S : n <= m
<1>. DEFINE F == {1 .. n : n \in S}
<1>1. F \subseteq FiniteSubsetsOf(Nat) /\ F # {}
  <2>1. \A n \in S : IsFiniteSet(1 .. n) /\ 1 .. n \in SUBSET Nat
    BY FS_Interval
  <2>. QED
    BY <2>1 DEF FiniteSubsetsOf
<1>2. IsWellFoundedOn(StrictSubsetOrdering(Nat), FiniteSubsetsOf(Nat))
  BY FS_StrictSubsetOrderingWellFounded
<1>3. PICK x \in F : \A y \in F : <<y, x>> \notin StrictSubsetOrdering(Nat)
  BY <1>1, <1>2, WFMin
<1>4. PICK n \in S : x = 1 .. n
  BY <1>3
<1>5. ASSUME NEW m \in S, m < n PROVE FALSE
  <2>1. 1 .. m \in F
    BY <1>5
  <2>2. 1 .. m \subseteq 1 .. n /\ n \in 1 .. n /\ n \notin 1 .. m
    BY <1>5
  <2>3. <<1 .. m, x>> \in StrictSubsetOrdering(Nat)
    BY <2>2, <1>4 DEF StrictSubsetOrdering
  <2>. QED
    BY <2>1, <2>3, <1>3
<1>. QED
  BY <1>5

\* What holds of no piece, and of one more when it holds of those before, holds
\* of a whole file.
LEMMA Along ==
  ASSUME NEW n \in Nat, NEW Good, 0 \in Good,
         \A k \in 1 .. n : k - 1 \in Good => k \in Good
  PROVE  0 .. n \subseteq Good
<1>. DEFINE Bad == (0 .. n) \ Good
<1>1. SUFFICES ASSUME Bad # {} PROVE FALSE
  OBVIOUS
<1>2. PICK k \in Bad : \A m \in Bad : k <= m
  <2>1. Bad \in SUBSET Nat
    OBVIOUS
  <2>. QED
    BY <1>1, <2>1, Least
<1>3. k \in 1 .. n
  BY <1>2
<1>4. k - 1 \in Good
  <2>1. k - 1 \in 0 .. n
    BY <1>3
  <2>. QED
    BY <1>2, <1>3, <2>1
<1>. QED
  BY <1>2, <1>3, <1>4

\* f gives the texts of the first pieces of the file.
Collects(f, file, n) ==
  f = [k \in 0 .. n |->
         IF k = 0 THEN <<>>
         ELSE IF IsText(file[k]) THEN Append(f[k - 1], file[k])
         ELSE f[k - 1]]

\* There is such a function.
LEMMA Collected ==
  ASSUME NEW S, NEW file \in Seq(S)
  PROVE  \E f : Collects(f, file, Len(file))
<1>. DEFINE Good == {n \in 0 .. Len(file) : \E f : Collects(f, file, n)}
<1>1. Len(file) \in Nat
  OBVIOUS
<1>2. 0 \in Good
  <2>1. Collects([k \in 0 .. 0 |-> <<>>], file, 0)
    BY DEF Collects
  <2>. QED
    BY <1>1, <2>1
<1>3. ASSUME NEW n \in 1 .. Len(file), n - 1 \in Good PROVE n \in Good
  <2>1. PICK f : Collects(f, file, n - 1)
    BY <1>3
  <2>. DEFINE last == IF IsText(file[n]) THEN Append(f[n - 1], file[n]) ELSE f[n - 1]
              g == [k \in 0 .. n |-> IF k = n THEN last ELSE f[k]]
  <2>2. \A k \in 0 .. n - 1 : g[k] = f[k]
    BY <1>1
  <2>3. \A k \in 0 .. n - 1 :
          f[k] = IF k = 0 THEN <<>>
                 ELSE IF IsText(file[k]) THEN Append(f[k - 1], file[k])
                 ELSE f[k - 1]
    BY <2>1 DEF Collects
  <2>4. g[n] = last /\ n \in Nat /\ n # 0
    BY <1>1
  <2>. HIDE DEF last
  <2>5. ASSUME NEW k \in 0 .. n
        PROVE  g[k] = IF k = 0 THEN <<>>
                      ELSE IF IsText(file[k]) THEN Append(g[k - 1], file[k])
                      ELSE g[k - 1]
    <3>1. CASE k = n
      <4>1. k - 1 \in 0 .. n - 1
        BY <2>4, <3>1
      <4>. QED
        BY <2>2, <2>4, <3>1, <4>1 DEF last
    <3>2. CASE k # n
      <4>1. k \in 0 .. n - 1 /\ (k # 0 => k - 1 \in 0 .. n - 1)
        BY <2>4, <3>2
      <4>. QED
        BY <2>2, <2>3, <4>1
    <3>. QED
      BY <3>1, <3>2
  <2>6. g = [k \in 0 .. n |-> g[k]]
    OBVIOUS
  <2>. HIDE DEF g
  <2>7. Collects(g, file, n)
    BY <2>5, <2>6 DEF Collects
  <2>. QED
    BY <2>7
<1>4. 0 .. Len(file) \subseteq Good
  <2>. HIDE DEF Good
  <2>. QED
    BY <1>1, <1>2, <1>3, Along
<1>. QED
  BY <1>1, <1>4

\* ... and Texts is what it ends with.
LEMMA TextsAre ==
  ASSUME NEW S, NEW file \in Seq(S)
  PROVE  \E f : Collects(f, file, Len(file)) /\ Texts(file) = f[Len(file)]
<1>1. \E f : f = [k \in 0 .. Len(file) |->
                    IF k = 0 THEN <<>>
                    ELSE IF IsText(file[k]) THEN Append(f[k - 1], file[k])
                    ELSE f[k - 1]]
  BY Collected DEF Collects
<1>2. \E f : /\ f = [k \in 0 .. Len(file) |->
                       IF k = 0 THEN <<>>
                       ELSE IF IsText(file[k]) THEN Append(f[k - 1], file[k])
                       ELSE f[k - 1]]
             /\ Texts(file) = f[Len(file)]
  BY <1>1, Zenon DEF Texts
<1>. QED
  BY <1>2 DEF Collects

\* A piece more is a text more, or it is a newline.
LEMMA TextsGrow ==
  ASSUME NEW S, NEW file \in Seq(S), NEW piece
  PROVE  Texts(Append(file, piece)) =
           IF IsText(piece) THEN Append(Texts(file), piece) ELSE Texts(file)
<1>. DEFINE n == Len(file)
            longer == Append(file, piece)
<1>1. /\ longer \in Seq(S \cup {piece}) /\ Len(longer) = n + 1 /\ n \in Nat
      /\ longer[n + 1] = piece
      /\ \A k \in 1 .. n : longer[k] = file[k]
  BY AppendProperties
<1>. HIDE DEF longer
<1>2. PICK f : Collects(f, file, n) /\ Texts(file) = f[n]
  BY TextsAre
<1>3. PICK g : Collects(g, longer, n + 1) /\ Texts(longer) = g[n + 1]
  BY <1>1, TextsAre
<1>. HIDE DEF n
<1>4. \A k \in 0 .. n :
        f[k] = IF k = 0 THEN <<>>
               ELSE IF IsText(file[k]) THEN Append(f[k - 1], file[k])
               ELSE f[k - 1]
  BY <1>2 DEF Collects
<1>5. \A k \in 0 .. n + 1 :
        g[k] = IF k = 0 THEN <<>>
               ELSE IF IsText(longer[k]) THEN Append(g[k - 1], longer[k])
               ELSE g[k - 1]
  BY <1>3 DEF Collects
<1>. DEFINE Good == {k \in 0 .. n : f[k] = g[k]}
<1>6. 0 \in Good
  <2>1. 0 \in 0 .. n /\ 0 \in 0 .. n + 1
    BY <1>1
  <2>. QED
    BY <1>4, <1>5, <2>1
<1>7. ASSUME NEW k \in 1 .. n, k - 1 \in Good PROVE k \in Good
  <2>1. k \in 0 .. n /\ k \in 0 .. n + 1 /\ k # 0
    BY <1>1
  <2>2. f[k - 1] = g[k - 1] /\ longer[k] = file[k]
    BY <1>1, <1>7
  <2>. QED
    BY <1>4, <1>5, <2>1, <2>2
<1>8. 0 .. n \subseteq Good
  <2>. HIDE DEF Good
  <2>. QED
    BY <1>1, <1>6, <1>7, Along
<1>9. g[n + 1] = IF IsText(piece) THEN Append(g[n], piece) ELSE g[n]
  <2>1. n + 1 \in 0 .. n + 1 /\ n + 1 # 0 /\ (n + 1) - 1 = n
    BY <1>1
  <2>. QED
    BY <1>1, <1>5, <2>1
<1>10. f[n] = g[n]
  <2>1. n \in 0 .. n
    BY <1>1
  <2>. QED
    BY <1>8, <2>1
<1>. QED
  BY <1>2, <1>3, <1>9, <1>10 DEF longer

\* The texts of a file are pieces of it, in a sequence.
LEMMA TextsType ==
  ASSUME NEW S, NEW file \in Seq(S)
  PROVE  Texts(file) \in Seq(S)
<1>. DEFINE n == Len(file)
<1>1. PICK f : Collects(f, file, n) /\ Texts(file) = f[n]
  BY TextsAre
<1>2. n \in Nat /\ \A k \in 1 .. n : file[k] \in S
  OBVIOUS
<1>. HIDE DEF n
<1>3. \A k \in 0 .. n :
        f[k] = IF k = 0 THEN <<>>
               ELSE IF IsText(file[k]) THEN Append(f[k - 1], file[k])
               ELSE f[k - 1]
  BY <1>1 DEF Collects
<1>. DEFINE Good == {k \in 0 .. n : f[k] \in Seq(S)}
<1>4. 0 \in Good
  <2>1. 0 \in 0 .. n
    BY <1>2
  <2>2. f[0] = <<>>
    BY <1>3, <2>1
  <2>3. <<>> \in Seq(S)
    OBVIOUS
  <2>. QED
    BY <2>1, <2>2, <2>3
<1>5. ASSUME NEW k \in 1 .. n, k - 1 \in Good PROVE k \in Good
  <2>1. k \in 0 .. n /\ k # 0 /\ file[k] \in S /\ f[k - 1] \in Seq(S)
    BY <1>2, <1>5
  <2>2. f[k] = Append(f[k - 1], file[k]) \/ f[k] = f[k - 1]
    BY <1>3, <2>1
  <2>3. Append(f[k - 1], file[k]) \in Seq(S)
    BY <2>1
  <2>. QED
    BY <2>1, <2>2, <2>3
<1>6. 0 .. n \subseteq Good
  <2>. HIDE DEF Good
  <2>. QED
    BY <1>2, <1>4, <1>5, Along
<1>. QED
  BY <1>1, <1>2, <1>6

\* An empty file has no text.
LEMMA NoTexts == Texts(<<>>) = <<>>
<1>1. PICK f : Collects(f, <<>>, Len(<<>>)) /\ Texts(<<>>) = f[Len(<<>>)]
  <2>1. <<>> \in Seq({})
    OBVIOUS
  <2>. QED
    BY <2>1, TextsAre
<1>2. Len(<<>>) = 0
  OBVIOUS
<1>. QED
  BY <1>1, <1>2 DEF Collects

-----------------------------------------------------------------------------
(* What a file gives that opens                                            *)

EntryKinds == {"message", "leaf"}

\* Opens and Loaded, of the file alone.
Readable(file) ==
  LET texts == Texts(file)
  IN /\ texts # <<>>
     /\ OneTextPerLine(file)
     /\ ParsesAsHeader(texts[1])
     /\ \A k \in 2 .. Len(texts) : ParsesAsEntry(texts[k])

EntriesOf(file) == [k \in 1 .. Len(Texts(file)) - 1 |-> EntryOf(Texts(file)[k + 1])]

\* What opening reads hangs on the file alone.
LEMMA OpensReads ==
  ASSUME NEW p
  PROVE  /\ Opens(p) <=> p \in names /\ Readable(files[p])
         /\ Loaded(p) = EntriesOf(files[p])
  BY DEF Opens, Readable, Loaded, EntriesOf

\* The entries of a file that opens are entries.
LEMMA EntriesType ==
  ASSUME NEW S, NEW file \in Seq(S), Readable(file)
  PROVE  /\ \E E : EntriesOf(file) \in Seq(E)
         /\ \A k \in DOMAIN EntriesOf(file) : EntriesOf(file)[k].kind \in EntryKinds
<1>. DEFINE texts == Texts(file)
            n == Len(texts) - 1
            E == {texts[k].entry : k \in DOMAIN texts}
<1>1. texts \in Seq(S)
  BY TextsType
<1>2. texts # <<>> /\ \A k \in 2 .. Len(texts) : ParsesAsEntry(texts[k])
  BY DEF Readable
<1>. HIDE DEF texts
<1>3. n \in Nat /\ \A k \in 1 .. n : k + 1 \in 2 .. Len(texts) /\ k + 1 \in DOMAIN texts
  BY <1>1, <1>2
<1>4. EntriesOf(file) = [k \in 1 .. n |-> texts[k + 1].entry]
  BY DEF EntriesOf, EntryOf, texts
<1>5. [k \in 1 .. n |-> texts[k + 1].entry] \in Seq(E)
  <2>1. \A k \in 1 .. n : texts[k + 1].entry \in E
    BY <1>3
  <2>. HIDE DEF E, n
  <2>2. \A k \in 1 .. n : [j \in 1 .. n |-> texts[j + 1].entry][k] \in E
    BY <2>1
  <2>. QED
    BY <1>3, <2>1
<1>6. \A k \in 1 .. n : texts[k + 1].entry.kind \in EntryKinds
  BY <1>2, <1>3 DEF ParsesAsEntry, EntryKinds
<1>. QED
  BY <1>4, <1>5, <1>6

\* A newline changes nothing of what is read.
LEMMA NewlineReads ==
  ASSUME NEW S, NEW file \in Seq(S)
  PROVE  /\ Readable(Append(file, Newline)) <=> Readable(file)
         /\ EntriesOf(Append(file, Newline)) = EntriesOf(file)
<1>. DEFINE longer == Append(file, Newline)
<1>1. Texts(longer) = Texts(file)
  BY TextsGrow DEF IsText
<1>2. OneTextPerLine(longer) <=> OneTextPerLine(file)
  <2>1. /\ Len(longer) = Len(file) + 1 /\ Len(file) \in Nat
        /\ longer[Len(file) + 1] = Newline
        /\ \A k \in 1 .. Len(file) : longer[k] = file[k]
    BY AppendProperties
  <2>. HIDE DEF longer
  <2>2. ASSUME NEW k \in 2 .. Len(file)
        PROVE  /\ longer[k - 1] = file[k - 1] /\ longer[k] = file[k]
               /\ k \in 2 .. Len(longer)
    <3>1. k - 1 \in 1 .. Len(file) /\ k \in 1 .. Len(file)
      BY <2>1
    <3>. QED
      BY <2>1, <3>1
  <2>3. \A k \in 2 .. Len(longer) : k \in 2 .. Len(file) \/ longer[k] = Newline
    BY <2>1
  <2>. QED
    BY <2>2, <2>3 DEF OneTextPerLine
<1>. QED
  BY <1>1, <1>2 DEF Readable, EntriesOf

\* A text that makes a file that opens is a whole entry, behind what was read
\* before; and behind a newline a whole entry makes one.
LEMMA TextReads ==
  ASSUME NEW S, NEW file \in Seq(S), NEW entry, entry.kind \in EntryKinds,
         NEW whole \in BOOLEAN
  PROVE  /\ Readable(Append(file, Text(entry, whole))) =>
              /\ Readable(file)
              /\ EntriesOf(Append(file, Text(entry, whole)))
                   = Append(EntriesOf(file), entry)
         /\ Readable(file) /\ whole /\ file[Len(file)] = Newline =>
              Readable(Append(file, Text(entry, whole)))
<1>. DEFINE piece == Text(entry, whole)
            longer == Append(file, piece)
            texts == Texts(file)
            more == Texts(longer)
<1>1. IsText(piece) /\ ~ParsesAsHeader(piece) /\ piece.entry = entry
      /\ (ParsesAsEntry(piece) <=> whole)
  BY DEF IsText, Newline, Header, Entry, Text, ParsesAsHeader, ParsesAsEntry, EntryKinds
<1>2. more = Append(texts, piece)
  BY <1>1, TextsGrow
<1>3. texts \in Seq(S)
  BY TextsType
<1>4. /\ Len(longer) = Len(file) + 1 /\ Len(file) \in Nat
      /\ longer[Len(file) + 1] = piece
      /\ \A k \in 1 .. Len(file) : longer[k] = file[k]
  BY AppendProperties
<1>. HIDE DEF piece, longer
<1>5. /\ more \in Seq(S \cup {piece})
      /\ Len(more) = Len(texts) + 1 /\ Len(texts) \in Nat
      /\ more[Len(texts) + 1] = piece
      /\ \A k \in 1 .. Len(texts) : more[k] = texts[k]
  <2>. HIDE DEF texts, more
  <2>. QED
    BY <1>2, <1>3, AppendProperties
<1>6. /\ OneTextPerLine(longer) => OneTextPerLine(file)
      /\ OneTextPerLine(file) /\ file[Len(file)] = Newline => OneTextPerLine(longer)
  <2>1. ASSUME NEW k \in 2 .. Len(file)
        PROVE  /\ longer[k - 1] = file[k - 1] /\ longer[k] = file[k]
               /\ k \in 2 .. Len(longer)
    <3>1. k - 1 \in 1 .. Len(file) /\ k \in 1 .. Len(file)
      BY <1>4
    <3>. QED
      BY <1>4, <3>1
  <2>2. \A k \in 2 .. Len(longer) :
          k \in 2 .. Len(file) \/ (k - 1 = Len(file) /\ Len(file) \in 1 .. Len(file))
    BY <1>4
  <2>3. OneTextPerLine(longer) => OneTextPerLine(file)
    BY <2>1 DEF OneTextPerLine
  <2>4. ASSUME OneTextPerLine(file), file[Len(file)] = Newline PROVE OneTextPerLine(longer)
    <3>1. ASSUME NEW k \in 2 .. Len(longer) PROVE Newline \in {longer[k - 1], longer[k]}
      BY <1>4, <2>1, <2>2, <2>4 DEF OneTextPerLine
    <3>. QED
      BY <3>1 DEF OneTextPerLine
  <2>. QED
    BY <2>3, <2>4
<1>7. ASSUME Readable(longer)
      PROVE  Readable(file) /\ EntriesOf(longer) = Append(EntriesOf(file), entry)
  <2>1. /\ ParsesAsHeader(more[1]) /\ OneTextPerLine(file)
        /\ \A k \in 2 .. Len(more) : ParsesAsEntry(more[k])
    BY <1>6, <1>7 DEF Readable
  <2>. HIDE DEF more
  <2>2. Len(texts) # 0
    <3>1. Len(texts) = 0 => more[1] = piece
      BY <1>5
    <3>. QED
      BY <1>1, <2>1, <3>1
  <2>3. Readable(file)
    <3>. HIDE DEF texts
    <3>1. texts # <<>>
      BY <2>2
    <3>2. 1 \in 1 .. Len(texts) /\ \A k \in 2 .. Len(texts) : k \in 2 .. Len(more) /\ k \in 1 .. Len(texts)
      BY <1>5, <2>2
    <3>3. ParsesAsHeader(texts[1]) /\ \A k \in 2 .. Len(texts) : ParsesAsEntry(texts[k])
      BY <1>5, <2>1, <3>2
    <3>. QED
      BY <2>1, <3>1, <3>3 DEF Readable, texts
  <2>. DEFINE old == EntriesOf(file)
              new == EntriesOf(longer)
  <2>4. old = [k \in 1 .. Len(texts) - 1 |-> texts[k + 1].entry]
    BY DEF EntriesOf, EntryOf
  <2>5. new = [k \in 1 .. Len(texts) |-> more[k + 1].entry]
    <3>1. new = [k \in 1 .. Len(more) - 1 |-> more[k + 1].entry]
      BY DEF EntriesOf, EntryOf, more
    <3>2. Len(more) - 1 = Len(texts)
      <4>. HIDE DEF texts
      <4>. QED
        BY <1>5
    <3>. QED
      BY <3>1, <3>2
  <2>6. PICK E : old \in Seq(E)
    BY <2>3, EntriesType
  <2>. HIDE DEF old, new, texts
  <2>7. Len(old) = Len(texts) - 1 /\ Len(texts) - 1 \in Nat
    BY <1>5, <2>2, <2>4, <2>6
  <2>8. DOMAIN new = 1 .. Len(old) + 1
    BY <1>5, <2>5, <2>7
  <2>9. new[Len(old) + 1] = entry /\ \A k \in 1 .. Len(old) : new[k] = old[k]
    <3>1. Len(old) + 1 \in 1 .. Len(texts) /\ (Len(old) + 1) + 1 = Len(texts) + 1
      BY <1>5, <2>7
    <3>2. new[Len(old) + 1] = entry
      BY <1>1, <1>5, <2>5, <3>1
    <3>3. ASSUME NEW k \in 1 .. Len(old) PROVE new[k] = old[k]
      <4>1. k + 1 \in 1 .. Len(texts) /\ k \in 1 .. Len(texts) - 1 /\ k \in 1 .. Len(texts)
        BY <1>5, <2>7
      <4>. QED
        BY <1>5, <2>4, <2>5, <4>1
    <3>. QED
      BY <3>2, <3>3
  <2>10. new = Append(old, entry)
    <3>1. /\ Append(old, entry) \in Seq(E \cup {entry})
          /\ Len(Append(old, entry)) = Len(old) + 1
          /\ Append(old, entry)[Len(old) + 1] = entry
          /\ \A k \in 1 .. Len(old) : Append(old, entry)[k] = old[k]
      BY <2>6, AppendProperties
    <3>2. new = [k \in 1 .. Len(old) + 1 |-> new[k]]
      BY <2>5, <2>8
    <3>. DEFINE a == Append(old, entry)
    <3>3. DOMAIN a = 1 .. Len(old) + 1 /\ a = [k \in 1 .. Len(old) + 1 |-> a[k]]
      <4>1. a \in Seq(E \cup {entry}) /\ Len(a) = Len(old) + 1
        BY <3>1
      <4>. HIDE DEF a
      <4>2. \A t : a \in Seq(t) => DOMAIN a = 1 .. Len(a) /\ a = [k \in 1 .. Len(a) |-> a[k]]
        OBVIOUS
      <4>. QED
        BY <4>1, <4>2
    <3>4. \A k \in 1 .. Len(old) + 1 : new[k] = a[k]
      <4>1. \A k \in 1 .. Len(old) + 1 : k \in 1 .. Len(old) \/ k = Len(old) + 1
        BY <2>7
      <4>. QED
        BY <2>9, <3>1, <4>1
    <3>. HIDE DEF a
    <3>5. new = a
      BY <3>2, <3>3, <3>4
    <3>. QED
      BY <3>5 DEF a
  <2>. QED
    BY <2>3, <2>10 DEF old, new
<1>8. ASSUME Readable(file), whole, file[Len(file)] = Newline
      PROVE  Readable(longer)
  <2>1. /\ texts # <<>> /\ ParsesAsHeader(texts[1])
        /\ \A k \in 2 .. Len(texts) : ParsesAsEntry(texts[k])
        /\ OneTextPerLine(longer)
    BY <1>6, <1>8 DEF Readable
  <2>. HIDE DEF texts, more
  <2>2. Len(texts) >= 1
    BY <1>3, <2>1
  <2>3. more # <<>> /\ ParsesAsHeader(more[1])
    <3>1. 1 \in 1 .. Len(texts)
      BY <1>5, <2>2
    <3>. QED
      BY <1>5, <2>1, <3>1
  <2>4. \A k \in 2 .. Len(more) : ParsesAsEntry(more[k])
    <3>1. \A k \in 2 .. Len(more) :
            k = Len(texts) + 1 \/ (k \in 2 .. Len(texts) /\ k \in 1 .. Len(texts))
      BY <1>5
    <3>. QED
      BY <1>1, <1>5, <1>8, <2>1, <3>1
  <2>. QED
    BY <2>1, <2>3, <2>4 DEF Readable, more
<1>. QED
  BY <1>7, <1>8 DEF longer, piece

\* A file that holds a header at most gives no entry, and one that holds all of
\* it opens.
NewFiles == Cut(Header) \cup {<<Text(Header, TRUE), Newline>>}

LEMMA NewReads ==
  /\ \A file \in NewFiles : Readable(file) => EntriesOf(file) = <<>>
  /\ Readable(<<Text(Header, TRUE), Newline>>)
<1>. DEFINE whole == <<Text(Header, TRUE), Newline>>
<1>1. ASSUME NEW x, IsText(x) PROVE Texts(<<x>>) = <<x>> /\ Texts(<<x, Newline>>) = <<x>>
  <2>1. /\ <<>> \in Seq({}) /\ <<x>> \in Seq({x})
        /\ Append(<<>>, x) = <<x>> /\ Append(<<x>>, Newline) = <<x, Newline>>
    <3>1. /\ <<>> \in Seq({}) /\ <<x>> \in Seq({x})
          /\ Append(<<>>, x) = <<x>>
      OBVIOUS
    <3>2. ASSUME NEW y PROVE Append(<<x>>, y) = <<x, y>>
      <4>1. <<x>> \in Seq({x, y}) /\ <<x, y>> \in Seq({x, y})
        OBVIOUS
      <4>2. /\ Append(<<x>>, y) \in Seq({x, y}) /\ Len(Append(<<x>>, y)) = 2
            /\ Append(<<x>>, y)[1] = x /\ Append(<<x>>, y)[2] = y
        <5>1. /\ Append(<<x>>, y) \in Seq({x, y})
              /\ Len(Append(<<x>>, y)) = Len(<<x>>) + 1
              /\ \A k \in 1 .. Len(<<x>>) : Append(<<x>>, y)[k] = <<x>>[k]
              /\ Append(<<x>>, y)[Len(<<x>>) + 1] = y
          BY <4>1, AppendProperties
        <5>2. Len(<<x>>) = 1 /\ <<x>>[1] = x /\ 1 \in 1 .. 1
          OBVIOUS
        <5>. QED
          BY <5>1, <5>2
      <4>3. Len(<<x, y>>) = 2 /\ <<x, y>>[1] = x /\ <<x, y>>[2] = y
        OBVIOUS
      <4>4. \A k \in 1 .. 2 : k = 1 \/ k = 2
        OBVIOUS
      <4>. QED
        BY <4>1, <4>2, <4>3, <4>4, SeqEqual
    <3>. QED
      BY <3>1, <3>2
  <2>2. Texts(<<x>>) = <<x>>
    BY <1>1, <2>1, NoTexts, TextsGrow
  <2>. QED
    BY <2>1, <2>2, TextsGrow DEF IsText
<1>2. \A w \in BOOLEAN : IsText(Text(Header, w))
  BY DEF IsText, Text, Header, Newline, Entry
<1>3. ASSUME NEW file \in NewFiles, Readable(file) PROVE EntriesOf(file) = <<>>
  <2>1. file = <<>> \/ \E x : Texts(file) = <<x>>
    BY <1>1, <1>2, <1>3 DEF NewFiles, Cut
  <2>2. PICK x : Texts(file) = <<x>>
    BY <1>3, <2>1, NoTexts DEF Readable
  <2>3. EntriesOf(file) = [k \in 1 .. 0 |-> EntryOf(Texts(file)[k + 1])]
    BY <2>2 DEF EntriesOf
  <2>. QED
    BY <2>3
<1>4. Readable(whole)
  <2>1. Texts(whole) = <<Text(Header, TRUE)>>
    BY <1>1, <1>2
  <2>2. OneTextPerLine(whole)
    BY DEF OneTextPerLine
  <2>3. ParsesAsHeader(Text(Header, TRUE))
    BY DEF ParsesAsHeader, Text
  <2>4. \A x : <<x>> # <<>> /\ Len(<<x>>) = 1 /\ <<x>>[1] = x
    OBVIOUS
  <2>. HIDE DEF whole
  <2>5. /\ Texts(whole) # <<>> /\ Len(Texts(whole)) = 1
        /\ Texts(whole)[1] = Text(Header, TRUE)
    BY <2>1, <2>4
  <2>. DEFINE texts == Texts(whole)
  <2>6. /\ texts # <<>> /\ ParsesAsHeader(texts[1])
        /\ \A k \in 2 .. Len(texts) : ParsesAsEntry(texts[k])
    <3>1. texts # <<>> /\ Len(texts) = 1 /\ texts[1] = Text(Header, TRUE)
      BY <2>5
    <3>. HIDE DEF texts
    <3>2. 2 .. Len(texts) = {}
      BY <3>1
    <3>3. ParsesAsHeader(texts[1])
      BY <2>3, <3>1
    <3>. QED
      BY <3>1, <3>2, <3>3
  <2>. QED
    BY <2>2, <2>6 DEF Readable
<1>. QED
  BY <1>3, <1>4

-----------------------------------------------------------------------------
(* Nothing acknowledged is missing from the file                           *)

\* The whole line of an entry is in the file.
InFile(file, entry) ==
  /\ entry.kind \in EntryKinds
  /\ \E k \in DOMAIN Texts(file) : Texts(file)[k] = Text(entry, TRUE)

Fields == {"path", "entries", "leaf", "doing", "line", "rest"}

HandleShape ==
  /\ handles = [h \in Handles |-> handles[h]]
  /\ \A h \in Handles : DOMAIN handles[h] = Fields

\* What a handle is at, and what a fork has yet to copy.
HandleInv(h) ==
  /\ handles[h].doing \in {"closed", "idle", "newline", "unlinked"}
  /\ handles[h].doing # "closed" => handles[h].path \in used
  /\ handles[h].doing = "newline" =>
       handles[h].path \in names /\ InFile(files[handles[h].path], handles[h].line)
  /\ handles[h].doing = "unlinked" => handles[h].line.kind \in EntryKinds
  /\ \E E : handles[h].rest \in Seq(E)
  /\ \A k \in DOMAIN handles[h].rest : handles[h].rest[k].kind \in EntryKinds

FileShape ==
  /\ files = [p \in Paths |-> files[p]]
  /\ acked = [p \in Paths |-> acked[p]]
  /\ \A p \in Paths : \E S : files[p] \in Seq(S)
  /\ names \subseteq used /\ used \subseteq Paths

FileInv ==
  /\ FileShape
  /\ HandleShape
  /\ \A p \in Paths \ names : files[p] = <<>> /\ acked[p] = {}
  /\ \A p \in Paths : \A e \in acked[p] : InFile(files[p], e)
  /\ \A h \in Handles : HandleInv(h)

\* No file yet.
LEMMA FileInit == Init => FileInv
<1>. SUFFICES ASSUME Init PROVE FileInv
  OBVIOUS
<1>1. <<>> \in Seq({})
  OBVIOUS
<1>2. FileShape
  BY <1>1 DEF Init, FileShape
<1>3. handles = [h \in Handles |-> Closed]
  BY DEF Init
<1>4. HandleShape
  BY <1>3 DEF HandleShape, Closed, Fields
<1>5. ASSUME NEW h \in Handles PROVE HandleInv(h)
  <2>1. handles[h].doing = "closed" /\ handles[h].rest = <<>>
    BY <1>3 DEF Closed
  <2>2. <<>> \in Seq({}) /\ DOMAIN <<>> = {}
    OBVIOUS
  <2>. QED
    BY <2>1, <2>2 DEF HandleInv
<1>6. \A p \in Paths : files[p] = <<>> /\ acked[p] = {}
  BY DEF Init
<1>. QED
  BY <1>2, <1>4, <1>5, <1>6 DEF FileInv

\* An entry in a file that opens is one of those that opening gives.
LEMMA InLoaded ==
  ASSUME NEW S, NEW file \in Seq(S), Readable(file), NEW entry, InFile(file, entry)
  PROVE  \E k \in DOMAIN EntriesOf(file) : EntriesOf(file)[k] = entry
<1>. DEFINE texts == Texts(file)
<1>1. \E T : texts \in Seq(T)
  BY TextsType
<1>2. PICK k \in DOMAIN texts : texts[k] = Text(entry, TRUE)
  BY DEF InFile
<1>3. ParsesAsHeader(texts[1])
  BY DEF Readable
<1>4. k # 1
  BY <1>2, <1>3 DEF InFile, EntryKinds, ParsesAsHeader, Header, Entry, Text
<1>5. EntriesOf(file) = [j \in 1 .. Len(texts) - 1 |-> texts[j + 1].entry]
  BY DEF EntriesOf, EntryOf
<1>. HIDE DEF texts
<1>6. k - 1 \in 1 .. Len(texts) - 1 /\ (k - 1) + 1 = k
  BY <1>1, <1>2, <1>4
<1>7. Text(entry, TRUE).entry = entry
  BY DEF Text
<1>8. EntriesOf(file)[k - 1] = texts[k].entry
  BY <1>5, <1>6
<1>9. k - 1 \in DOMAIN EntriesOf(file)
  BY <1>5, <1>6
<1>. QED
  BY <1>2, <1>7, <1>8, <1>9

\* Opening a file that is shorter by one entry gives a prefix.
LEMMA PrefixOf ==
  ASSUME NEW E, NEW entries \in Seq(E), NEW entry
  PROVE  /\ Len(Append(entries, entry)) = Len(entries) + 1
         /\ SubSeq(Append(entries, entry), 1, Len(entries)) = entries
         /\ SubSeq(entries, 1, Len(entries)) = entries
<1>. DEFINE s == Append(entries, entry)
            n == Len(entries)
<1>1. /\ s \in Seq(E \cup {entry}) /\ Len(s) = n + 1 /\ n \in Nat
      /\ \A k \in 1 .. n : s[k] = entries[k] /\ s[k] \in E
      /\ DOMAIN entries = 1 .. n
  BY AppendProperties
<1>. HIDE DEF s, n
<1>2. ASSUME NEW t, \A k \in 1 .. n : t[k] = entries[k]
      PROVE  SubSeq(t, 1, n) = entries
  <2>1. \A k \in 1 .. n : t[k] \in E
    BY <1>1, <1>2
  <2>2. /\ SubSeq(t, 1, n) \in Seq(E)
        /\ Len(SubSeq(t, 1, n)) = IF 1 <= n THEN n - 1 + 1 ELSE 0
        /\ \A i \in 1 .. n - 1 + 1 : SubSeq(t, 1, n)[i] = t[1 + i - 1]
    BY <1>1, <2>1, SubSeqProperties
  <2>3. Len(SubSeq(t, 1, n)) = n
    BY <1>1, <2>2
  <2>4. \A i \in 1 .. n : SubSeq(t, 1, n)[i] = entries[i]
    <3>1. ASSUME NEW i \in 1 .. n PROVE 1 + i - 1 = i /\ i \in 1 .. n - 1 + 1
      BY <1>1
    <3>. QED
      BY <1>2, <2>2, <3>1
  <2>. QED
    BY <2>2, <2>3, <2>4, SeqEqual DEF n
<1>. QED
  BY <1>1, <1>2 DEF s, n

\* A file that gets no piece, a newline, or a text, cut or whole.
Gets(p) ==
  \/ files'[p] = files[p]
  \/ p \in names /\ files'[p] = Append(files[p], Newline)
  \/ \E entry : \E whole \in BOOLEAN :
       entry.kind \in EntryKinds /\ files'[p] = Append(files[p], Text(entry, whole))

\* What holds of the texts that a file had holds of those it has.
LEMMA StaysInFile ==
  ASSUME NEW p, \E S : files[p] \in Seq(S), Gets(p), NEW entry,
         InFile(files[p], entry)
  PROVE  InFile(files'[p], entry)
<1>1. PICK S : files[p] \in Seq(S)
  OBVIOUS
<1>2. PICK k \in DOMAIN Texts(files[p]) : Texts(files[p])[k] = Text(entry, TRUE)
  BY DEF InFile
<1>3. \/ Texts(files'[p]) = Texts(files[p])
      \/ \E piece : Texts(files'[p]) = Append(Texts(files[p]), piece)
  BY <1>1, TextsGrow DEF Gets
<1>4. k \in DOMAIN Texts(files'[p]) /\ Texts(files'[p])[k] = Text(entry, TRUE)
  <2>. DEFINE texts == Texts(files[p])
  <2>1. texts \in Seq(S)
    BY <1>1, TextsType
  <2>. HIDE DEF texts
  <2>2. ASSUME NEW piece
        PROVE  \A j \in DOMAIN texts :
                 j \in DOMAIN Append(texts, piece) /\ Append(texts, piece)[j] = texts[j]
    BY <2>1, AppendProperties
  <2>. QED
    BY <1>2, <1>3, <2>2 DEF texts
<1>. QED
  BY <1>4 DEF InFile

\* What a piece makes of the session: it opens as before or with one entry more,
\* or it does not open; and one that did not open does not now.
LEMMA PieceMoves ==
  ASSUME NEW p \in Paths, FileShape, FileShape', Gets(p), names' = names \cup {p},
         files[p] = <<>> \/ p \in names
  PROVE  /\ Opens(p)' =>
              /\ Opens(p)
              /\ \/ Loaded(p)' = Loaded(p)
                 \/ \E entry : Loaded(p)' = Append(Loaded(p), entry)
<1>. SUFFICES ASSUME Opens(p)'
              PROVE  /\ Opens(p)
                     /\ \/ Loaded(p)' = Loaded(p)
                        \/ \E entry : Loaded(p)' = Append(Loaded(p), entry)
  OBVIOUS
<1>1. PICK S : files[p] \in Seq(S)
  BY DEF FileShape
<1>2. Readable(files'[p]) /\ Loaded(p)' = EntriesOf(files'[p])
  BY DEF Opens, Readable, Loaded, EntriesOf
<1>3. /\ Readable(files[p])
      /\ \/ EntriesOf(files'[p]) = EntriesOf(files[p])
         \/ \E entry : EntriesOf(files'[p]) = Append(EntriesOf(files[p]), entry)
  <2>1. CASE files'[p] = files[p]
    BY <1>2, <2>1
  <2>2. CASE files'[p] = Append(files[p], Newline)
    BY <1>1, <1>2, <2>2, NewlineReads
  <2>3. ASSUME NEW entry, NEW whole \in BOOLEAN, entry.kind \in EntryKinds,
               files'[p] = Append(files[p], Text(entry, whole))
        PROVE  /\ Readable(files[p])
               /\ EntriesOf(files'[p]) = Append(EntriesOf(files[p]), entry)
    BY <1>1, <1>2, <2>3, TextReads
  <2>. QED
    BY <2>1, <2>2, <2>3 DEF Gets
<1>4. p \in names
  <2>1. files[p] # <<>>
    BY <1>3, NoTexts DEF Readable
  <2>. QED
    BY <2>1
<1>. QED
  BY <1>2, <1>3, <1>4, OpensReads

\* A step that adds to a file, which may be a file of a deleted name, is one of
\* the log.
LEMMA AppendMoves ==
  ASSUME FileInv, FileInv', NEW p \in Paths, Gets(p), names' = names \cup {p},
         acked[p] \subseteq acked'[p], p \notin names => acked'[p] = acked[p],
         \A q \in Paths \ {p} : files'[q] = files[q] /\ acked'[q] = acked[q]
  PROVE  Log!Next
<1>0. FileShape /\ FileShape' /\ (files[p] = <<>> \/ p \in names)
  BY DEF FileInv
<1>1. Opens(p)' => /\ Opens(p)
                   /\ \/ Loaded(p)' = Loaded(p)
                      \/ \E entry : Loaded(p)' = Append(Loaded(p), entry)
  BY <1>0, PieceMoves
<1>2. p \in names'
  OBVIOUS
<1>3. ASSUME NEW q \in Paths \ {p}
      PROVE  /\ StateOf(q)' = StateOf(q)
             /\ (IF Opens(q) THEN Loaded(q) ELSE <<>>)' = IF Opens(q) THEN Loaded(q) ELSE <<>>
  <2>1. (q \in names' <=> q \in names) /\ files'[q] = files[q]
    BY <1>3
  <2>2. (Opens(q)' <=> Opens(q)) /\ Loaded(q)' = Loaded(q)
    BY <2>1 DEF Opens, Loaded
  <2>. QED
    BY <2>1, <2>2 DEF StateOf
<1>4. CASE p \notin names
  <2>1. ~Opens(p) /\ ~Opens(p)' /\ acked[p] = {}
    BY <1>1, <1>4 DEF FileInv, Opens
  <2>2. Log!Create(p)
    BY <1>2, <1>4, <2>1 DEF Log!Create, StateOf
  <2>. QED
    BY <1>3, <2>1, <2>2 DEF Log!Next, StateOf
<1>5. CASE p \in names /\ ~Opens(p)
  <2>1. ~Opens(p)'
    BY <1>1, <1>5
  <2>2. Log!StaysLost(p)
    BY <1>2, <1>5, <2>1 DEF Log!StaysLost, StateOf
  <2>. QED
    BY <1>3, <2>1, <2>2 DEF Log!Next, StateOf
<1>6. CASE Opens(p)
  <2>1. p \in names
    BY <1>6 DEF Opens
  <2>2. ASSUME Opens(p)'
        PROVE  /\ Len(Loaded(p)') \in {Len(Loaded(p)), Len(Loaded(p)) + 1}
               /\ SubSeq(Loaded(p)', 1, Len(Loaded(p))) = Loaded(p)
               /\ Log!Holds(Loaded(p)', acked'[p])
    <3>1. PICK S : files[p] \in Seq(S)
      BY <1>0 DEF FileShape
    <3>2. PICK E : Loaded(p) \in Seq(E)
      BY <1>6, <3>1, OpensReads, EntriesType
    <3>3. /\ Len(Loaded(p)') \in {Len(Loaded(p)), Len(Loaded(p)) + 1}
          /\ SubSeq(Loaded(p)', 1, Len(Loaded(p))) = Loaded(p)
      <4>. DEFINE entries == Loaded(p)
      <4>1. Loaded(p)' = entries \/ \E entry : Loaded(p)' = Append(entries, entry)
        BY <1>1, <2>2
      <4>2. entries \in Seq(E)
        BY <3>2
      <4>. HIDE DEF entries
      <4>3. /\ Len(Loaded(p)') \in {Len(entries), Len(entries) + 1}
            /\ SubSeq(Loaded(p)', 1, Len(entries)) = entries
        BY <4>1, <4>2, PrefixOf
      <4>. QED
        BY <4>3 DEF entries
    <3>4. ASSUME NEW e \in acked'[p]
          PROVE  \E k \in DOMAIN Loaded(p)' : Loaded(p)'[k] = e
      <4>1. InFile(files'[p], e)
        BY <3>4 DEF FileInv
      <4>2. Readable(files'[p]) /\ Loaded(p)' = EntriesOf(files'[p])
        BY <2>2 DEF Opens, Readable, Loaded, EntriesOf
      <4>3. \E T : files'[p] \in Seq(T)
        BY <1>0 DEF FileShape
      <4>4. \E k \in DOMAIN EntriesOf(files'[p]) : EntriesOf(files'[p])[k] = e
        BY <4>1, <4>2, <4>3, InLoaded
      <4>. QED
        BY <4>2, <4>4
    <3>. QED
      BY <3>3, <3>4 DEF Log!Holds
  <2>3. Log!Grow(p)
    BY <1>2, <1>6, <2>1, <2>2 DEF Log!Grow, StateOf
  <2>. QED
    BY <1>3, <2>3 DEF Log!Next, StateOf
<1>. QED
  BY <1>4, <1>5, <1>6


\* A handle that is set, and those that are not.
LEMMA SetShape ==
  ASSUME HandleShape, NEW h \in Handles, NEW r, Set(h, r), DOMAIN r = Fields
  PROVE  /\ HandleShape'
         /\ handles'[h] = r
         /\ \A i \in Handles \ {h} : handles'[i] = handles[i]
<1>1. /\ handles'[h] = r
      /\ \A i \in Handles \ {h} : handles'[i] = handles[i]
      /\ handles' = [i \in Handles |-> handles'[i]]
  BY DEF HandleShape, Set
<1>. QED
  BY <1>1 DEF HandleShape

\* A handle that is left alone, whatever its file gets.
LEMMA HandleKept ==
  ASSUME FileInv, NEW i \in Handles, handles'[i] = handles[i], used \subseteq used',
         handles[i].doing = "newline" =>
           handles[i].path \in names' /\ Gets(handles[i].path)
  PROVE  HandleInv(i)'
<1>. DEFINE p == handles[i].path
<1>1. HandleInv(i) /\ FileShape
  BY DEF FileInv
<1>2. handles[i].doing = "newline" => p \in names' /\ InFile(files'[p], handles[i].line)
  <2>. SUFFICES ASSUME handles[i].doing = "newline" PROVE InFile(files'[p], handles[i].line)
    OBVIOUS
  <2>1. p \in Paths /\ InFile(files[p], handles[i].line)
    BY <1>1 DEF HandleInv, FileShape
  <2>2. \E S : files[p] \in Seq(S)
    BY <1>1, <2>1 DEF FileShape
  <2>3. Gets(p)
    OBVIOUS
  <2>. HIDE DEF p
  <2>. QED
    BY <2>1, <2>2, <2>3, StaysInFile
<1>. QED
  BY <1>1, <1>2 DEF HandleInv

\* What a path is copied from are the entries of the session.
LEMMA ForkType ==
  ASSUME NEW E, NEW entries \in Seq(E),
         \A k \in DOMAIN entries : entries[k].kind \in EntryKinds,
         NEW copied \in Forks(entries)
  PROVE  /\ \E T : copied \in Seq(T)
         /\ \A k \in DOMAIN copied : copied[k].kind \in EntryKinds
<1>1. CASE copied = entries
  BY <1>1
<1>2. ASSUME NEW id, HasPath(entries, id), copied = PathTo(entries, id)
      PROVE  /\ \E T : copied \in Seq(T)
             /\ \A k \in DOMAIN copied : copied[k].kind \in EntryKinds
  <2>. DEFINE walk == Walk(entries, id)
              n == CHOOSE m \in 0 .. Len(entries) : AtRoot(entries, walk, m)
  <2>1. n \in 0 .. Len(entries) /\ AtRoot(entries, walk, n)
    BY <1>2 DEF HasPath
  <2>2. copied = [k \in 1 .. n |-> entries[Position(entries, walk[n - k])]]
    BY <1>2 DEF PathTo
  <2>. HIDE DEF n, walk
  <2>3. ASSUME NEW k \in 1 .. n
        PROVE  Position(entries, walk[n - k]) \in DOMAIN entries
    <3>1. n - k \in 0 .. n - 1
      BY <2>1
    <3>2. walk[n - k] \in IdsIn(entries)
      BY <2>1, <3>1 DEF AtRoot
    <3>. QED
      BY <3>2 DEF IdsIn, Position
  <2>4. \A k \in 1 .. n : copied[k] \in E /\ copied[k].kind \in EntryKinds
    BY <2>2, <2>3
  <2>5. copied \in Seq(E)
    <3>1. n \in Nat
      BY <2>1
    <3>. QED
      BY <2>2, <2>4, <3>1
  <2>6. DOMAIN copied = 1 .. n
    BY <2>2
  <2>. QED
    BY <2>4, <2>5, <2>6
<1>. QED
  BY <1>1, <1>2 DEF Forks

\* What is said of the files at each step.
FilesAt(p) ==
  /\ files' = [q \in Paths |-> files'[q]]
  /\ \E S : files'[p] \in Seq(S)
  /\ \A q \in Paths \ {p} : files'[q] = files[q]

\* A new file.
LEMMA CreateGives ==
  ASSUME FileInv, NEW h \in Handles, NEW p \in Paths, NEW rest, CreateFile(h, p, rest)
  PROVE  /\ handles[h].doing = "closed" /\ p \notin used /\ files[p] = <<>>
         /\ names' = names \cup {p} /\ used' = used \cup {p}
         /\ FilesAt(p) /\ acked' = acked /\ acked[p] = {} /\ shared' = shared
         /\ \/ /\ files'[p] = <<Text(Header, TRUE), Newline>>
               /\ Set(h, OpenAt(p, <<>>, rest)) /\ hurt' = hurt
            \/ handles' = handles /\ hurt' = hurt \cup {p}
         /\ files'[p] \in NewFiles
<1>1. FileShape /\ p \notin used
  BY DEF FileInv, CreateFile
<1>2. p \notin names /\ files[p] = <<>> /\ acked[p] = {}
  BY <1>1 DEF FileInv, FileShape
<1>3. CASE /\ files' = [files EXCEPT ![p] = <<Text(Header, TRUE), Newline>>]
           /\ Set(h, OpenAt(p, <<>>, rest))
           /\ UNCHANGED <<faults, hurt>>
  <2>1. files'[p] = <<Text(Header, TRUE), Newline>>
    BY <1>1, <1>3 DEF FileShape
  <2>2. <<Text(Header, TRUE), Newline>> \in Seq({Text(Header, TRUE), Newline})
    OBVIOUS
  <2>3. FilesAt(p)
    BY <1>1, <1>3, <2>1, <2>2 DEF FilesAt, FileShape
  <2>. QED
    BY <1>1, <1>2, <1>3, <2>1, <2>3 DEF CreateFile, NewFiles
<1>4. ASSUME NEW written \in Cut(Header), Fault(p),
             files' = [files EXCEPT ![p] = written], UNCHANGED handles
      PROVE  FilesAt(p) /\ files'[p] \in NewFiles
  <2>1. files'[p] = written
    BY <1>1, <1>4 DEF FileShape
  <2>2. \E S : written \in Seq(S)
    <3>1. /\ <<>> \in Seq({})
          /\ \A x : <<x>> \in Seq({x})
      OBVIOUS
    <3>. QED
      BY <1>4, <3>1 DEF Cut
  <2>3. FilesAt(p)
    BY <1>1, <1>4, <2>1, <2>2 DEF FilesAt, FileShape
  <2>. QED
    BY <1>4, <2>1, <2>3 DEF NewFiles
<1>. QED
  BY <1>1, <1>2, <1>3, <1>4 DEF CreateFile, Fault

\* The text of a line.
LEMMA WriteGives ==
  ASSUME FileInv, NEW h \in Handles, handles[h].doing = "idle",
         NEW entry, entry.kind \in EntryKinds, WriteText(h, entry)
  PROVE  LET p == handles[h].path
         IN /\ p \in Paths /\ p \in used /\ names' = names \cup {p}
            /\ FilesAt(p) /\ Gets(p)
            /\ \/ /\ files'[p] = Append(files[p], Text(entry, TRUE))
                  /\ Set(h, [handles[h] EXCEPT !.doing = "newline", !.line = entry])
                  /\ hurt' = hurt
               \/ /\ hurt' = hurt \cup {p}
                  /\ handles' = handles \/ Set(h, Closed)
<1>. DEFINE p == handles[h].path
<1>1. FileShape /\ p \in used /\ p \in Paths
  BY DEF FileInv, FileShape, HandleInv
<1>2. PICK S : files[p] \in Seq(S)
  BY <1>1 DEF FileShape
<1>3. /\ files[p] \o <<>> = files[p]
      /\ \A x : /\ files[p] \o <<x>> = Append(files[p], x)
                /\ Append(files[p], x) \in Seq(S \cup {x})
  <2>1. files[p] \o <<>> = files[p]
    BY <1>2, ConcatEmptySeq
  <2>2. ASSUME NEW x
        PROVE  /\ files[p] \o <<x>> = Append(files[p], x)
               /\ Append(files[p], x) \in Seq(S \cup {x})
    <3>1. files[p] \in Seq(S \cup {x}) /\ x \in S \cup {x}
      BY <1>2
    <3>. HIDE DEF p
    <3>. QED
      BY <3>1, AppendIsConcat, AppendProperties
  <2>. QED
    BY <2>1, <2>2
<1>. HIDE DEF p
<1>4. ASSUME NEW pieces \in Cut(entry) \cup {<<Text(entry, TRUE)>>},
             files' = [files EXCEPT ![p] = Written(handles[h], pieces)]
      PROVE  /\ FilesAt(p) /\ Gets(p)
             /\ pieces = <<Text(entry, TRUE)>> =>
                  files'[p] = Append(files[p], Text(entry, TRUE))
  <2>1. files'[p] = files[p] \o pieces
    BY <1>1, <1>4 DEF Written, FileShape, p
  <2>2. \/ files'[p] = files[p]
        \/ \E whole \in BOOLEAN : files'[p] = Append(files[p], Text(entry, whole))
    BY <1>3, <1>4, <2>1 DEF Cut
  <2>3. \E T : files'[p] \in Seq(T)
    BY <1>2, <1>3, <2>2
  <2>4. FilesAt(p)
    BY <1>1, <1>4, <2>3 DEF FilesAt, FileShape
  <2>5. Gets(p)
    BY <2>2 DEF Gets
  <2>6. pieces = <<Text(entry, TRUE)>> =>
          files'[p] = Append(files[p], Text(entry, TRUE))
    BY <1>3, <2>1
  <2>. QED
    BY <2>4, <2>5, <2>6
<1>5. CASE /\ files' = [files EXCEPT ![p] = Written(handles[h], <<Text(entry, TRUE)>>)]
           /\ names' = names \cup {p}
           /\ Set(h, [handles[h] EXCEPT !.doing = "newline", !.line = entry])
           /\ UNCHANGED <<faults, hurt>>
  BY <1>1, <1>4, <1>5 DEF p
<1>6. CASE /\ Fault(p)
           /\ \E pieces \in Cut(entry) :
                /\ files' = [files EXCEPT ![p] = Written(handles[h], pieces)]
                /\ names' = names \cup {p}
           /\ handles' = IF handles[h].rest = <<>> THEN handles
                         ELSE [handles EXCEPT ![h] = Closed]
  <2>1. FilesAt(p) /\ Gets(p) /\ names' = names \cup {p}
    BY <1>4, <1>6
  <2>. QED
    BY <1>1, <1>6, <2>1 DEF p, Fault, Set
<1>. QED
  BY <1>5, <1>6 DEF WriteText, p

\* What is left of a copy when its first entry is written.
LEMMA RestType ==
  ASSUME FileInv, NEW h \in Handles, handles[h].rest # <<>>
  PROVE  /\ Head(handles[h].rest).kind \in EntryKinds
         /\ \E E : Tail(handles[h].rest) \in Seq(E)
         /\ \A k \in DOMAIN Tail(handles[h].rest) :
              Tail(handles[h].rest)[k].kind \in EntryKinds
<1>. DEFINE rest == handles[h].rest
<1>1. /\ \E E : rest \in Seq(E)
      /\ \A k \in DOMAIN rest : rest[k].kind \in EntryKinds
  BY DEF FileInv, HandleInv
<1>2. PICK E : rest \in Seq(E)
  BY <1>1
<1>3. rest # <<>>
  OBVIOUS
<1>. HIDE DEF rest
<1>4. Head(rest) = rest[1] /\ 1 \in DOMAIN rest
  BY <1>2, <1>3
<1>5. /\ Tail(rest) \in Seq(E)
      /\ \A k \in DOMAIN Tail(rest) : k + 1 \in DOMAIN rest /\ Tail(rest)[k] = rest[k + 1]
  BY <1>2, <1>3, HeadTailProperties
<1>. QED
  BY <1>1, <1>4, <1>5 DEF rest

\* A handle once the line is ended, or given up.
Settled(handle) ==
  [handle EXCEPT !.doing = "idle", !.line = Header,
                 !.rest = IF handle.rest = <<>> THEN <<>> ELSE Tail(handle.rest)]

\* The end of a line.
LEMMA EndGives ==
  ASSUME FileInv, NEW h \in Handles, EndLine(h)
  PROVE  LET handle == handles[h]
             p == handle.path
             after == Settled(Appended(handle))
         IN /\ p \in Paths /\ p \in used
            /\ names' = names /\ used' = used /\ shared' = shared
            /\ \/ /\ handle.doing = "newline" /\ p \in names
                  /\ FilesAt(p) /\ files'[p] = Append(files[p], Newline)
                  /\ acked' = [acked EXCEPT ![p] = @ \cup {handle.line}]
                  /\ Set(h, after) /\ hurt' = hurt
               \/ /\ handle.doing = "unlinked"
                  /\ UNCHANGED <<files, acked, hurt>>
                  /\ Set(h, after)
               \/ /\ UNCHANGED <<files, acked>> /\ hurt' = hurt \cup {p}
                  /\ Set(h, Settled(handle)) \/ Set(h, Closed)
<1>. DEFINE p == handles[h].path
<1>1. FileShape /\ HandleInv(h) /\ handles[h].doing \in {"newline", "unlinked"}
  BY DEF FileInv, EndLine
<1>2. p \in used /\ p \in Paths /\ (handles[h].doing = "newline" => p \in names)
  BY <1>1 DEF FileShape, HandleInv
<1>3. /\ Appended(handles[h]).rest = handles[h].rest
  BY <1>2 DEF Appended
<1>4. ASSUME files' = [files EXCEPT ![p] = Append(@, Newline)]
      PROVE  FilesAt(p) /\ files'[p] = Append(files[p], Newline)
  <2>1. files'[p] = Append(files[p], Newline)
    BY <1>1, <1>2, <1>4 DEF FileShape
  <2>2. \E S : Append(files[p], Newline) \in Seq(S)
    <3>1. PICK S : files[p] \in Seq(S)
      BY <1>1, <1>2 DEF FileShape
    <3>2. Append(files[p], Newline) \in Seq(S \cup {Newline})
      BY <3>1, AppendProperties
    <3>. QED
      BY <3>2
  <2>. QED
    BY <1>1, <1>4, <2>1, <2>2 DEF FilesAt, FileShape
<1>. QED
  BY <1>1, <1>2, <1>3, <1>4 DEF EndLine, Settled, Fault

\* A step that writes to one file leaves the files in shape.
LEMMA FilesKept ==
  ASSUME FileInv, NEW p \in Paths, FilesAt(p),
         acked' = [q \in Paths |-> acked'[q]], names' \subseteq used', used' \subseteq Paths
  PROVE  FileShape'
<1>1. ASSUME NEW q \in Paths PROVE \E S : files'[q] \in Seq(S)
  BY DEF FileInv, FileShape, FilesAt
<1>. QED
  BY <1>1 DEF FileShape, FilesAt

\* A closed handle is at nothing.
LEMMA ClosedInv ==
  ASSUME NEW h \in Handles, handles'[h] = Closed
  PROVE  HandleInv(h)'
<1>1. handles'[h].doing = "closed" /\ handles'[h].rest = <<>>
  BY DEF Closed
<1>2. <<>> \in Seq({}) /\ DOMAIN <<>> = {}
  OBVIOUS
<1>. QED
  BY <1>1, <1>2 DEF HandleInv

\* The fields of a handle that has just opened a file ...
LEMMA OpenAtIs ==
  ASSUME NEW p, NEW entries, NEW rest, NEW r, r = OpenAt(p, entries, rest)
  PROVE  /\ DOMAIN r = Fields
         /\ r.path = p /\ r.entries = entries /\ r.leaf = LeafOf(entries)
         /\ r.doing = "idle" /\ r.line = Header /\ r.rest = rest
<1>. DEFINE leaf == LeafOf(entries)
            line == Header
<1>1. r = [[path |-> NoPath, entries |-> <<>>, leaf |-> 0, doing |-> "closed",
            line |-> line, rest |-> <<>>] EXCEPT !.path = p, !.entries = entries,
              !.leaf = leaf, !.doing = "idle", !.rest = rest]
  BY DEF OpenAt, Closed
<1>. HIDE DEF leaf, line
<1>2. /\ DOMAIN r = Fields
      /\ r.path = p /\ r.entries = entries /\ r.leaf = leaf
      /\ r.doing = "idle" /\ r.line = line /\ r.rest = rest
  BY <1>1 DEF Fields
<1>. QED
  BY <1>2 DEF leaf, line

\* ... and of one that has ended a line, with the entry or without.
LEMMA SettledIs ==
  ASSUME HandleShape, NEW h \in Handles, NEW r
  PROVE  LET handle == handles[h]
             rest == IF handle.rest = <<>> THEN <<>> ELSE Tail(handle.rest)
         IN /\ r = Settled(handle) =>
                 /\ DOMAIN r = Fields
                 /\ r.path = handle.path /\ r.entries = handle.entries
                 /\ r.leaf = handle.leaf /\ r.doing = "idle" /\ r.rest = rest
            /\ r = Settled(Appended(handle)) =>
                 /\ DOMAIN r = Fields
                 /\ r.path = handle.path
                 /\ r.entries = Append(handle.entries, handle.line)
                 /\ r.leaf = LeafAfter(handle.line) /\ r.doing = "idle"
                 /\ r.rest = rest
<1>. DEFINE handle == handles[h]
            rest == IF handle.rest = <<>> THEN <<>> ELSE Tail(handle.rest)
            header == Header
            more == Append(handle.entries, handle.line)
            leaf == LeafAfter(handle.line)
<1>1. DOMAIN handle = Fields
  BY DEF HandleShape
<1>2. /\ Appended(handle) = [handle EXCEPT !.entries = more, !.leaf = leaf]
      /\ Appended(handle).rest = handle.rest
  BY <1>1 DEF Appended, Fields
<1>3. /\ Settled(handle) =
           [handle EXCEPT !.doing = "idle", !.line = header, !.rest = rest]
      /\ Settled(Appended(handle)) =
           [Appended(handle) EXCEPT !.doing = "idle", !.line = header, !.rest = rest]
  BY <1>2 DEF Settled
<1>. HIDE DEF handle, rest, header, more, leaf
<1>4. r = Settled(handle) =>
        /\ DOMAIN r = Fields
        /\ r.path = handle.path /\ r.entries = handle.entries
        /\ r.leaf = handle.leaf /\ r.doing = "idle" /\ r.rest = rest
  BY <1>1, <1>3 DEF Fields
<1>5. r = Settled(Appended(handle)) =>
        /\ DOMAIN r = Fields
        /\ r.path = handle.path /\ r.entries = more /\ r.leaf = leaf
        /\ r.doing = "idle" /\ r.rest = rest
  BY <1>1, <1>2, <1>3 DEF Fields
<1>. QED
  BY <1>4, <1>5 DEF handle, rest, more, leaf

\* A new file, of a new session or of a fork.
LEMMA CreateFiles ==
  ASSUME FileInv, NEW h \in Handles, NEW p \in Paths, NEW rest, CreateFile(h, p, rest),
         \E E : rest \in Seq(E), \A k \in DOMAIN rest : rest[k].kind \in EntryKinds
  PROVE  FileInv'
<1>1. /\ p \notin used /\ names' = names \cup {p} /\ used' = used \cup {p}
      /\ FilesAt(p) /\ acked' = acked /\ acked[p] = {}
      /\ \/ Set(h, OpenAt(p, <<>>, rest))
         \/ handles' = handles
  BY CreateGives
<1>2. FileShape'
  BY <1>1, FilesKept DEF FileInv, FileShape
<1>3. ASSUME NEW i \in Handles, handles'[i] = handles[i] PROVE HandleInv(i)'
  <2>1. handles[i].doing = "newline" =>
          handles[i].path \in names' /\ Gets(handles[i].path)
    BY <1>1 DEF FileInv, HandleInv, FileShape, FilesAt, Gets
  <2>. QED
    BY <1>1, <1>3, <2>1, HandleKept
<1>4. HandleShape' /\ \A i \in Handles : HandleInv(i)'
  <2>1. CASE handles' = handles
    BY <1>3, <2>1 DEF FileInv, HandleShape
  <2>2. CASE Set(h, OpenAt(p, <<>>, rest))
    <3>. DEFINE r == OpenAt(p, <<>>, rest)
    <3>1. /\ DOMAIN r = Fields /\ r.path = p /\ r.doing = "idle" /\ r.rest = rest
      BY OpenAtIs
    <3>. HIDE DEF r
    <3>2. /\ HandleShape' /\ handles'[h] = r
          /\ \A i \in Handles \ {h} : handles'[i] = handles[i]
      BY <2>2, <3>1, SetShape DEF FileInv, r
    <3>3. HandleInv(h)'
      BY <1>1, <3>1, <3>2 DEF HandleInv
    <3>. QED
      BY <1>3, <3>2, <3>3
  <2>. QED
    BY <1>1, <2>1, <2>2
<1>5. \A q \in Paths \ names' : files'[q] = <<>> /\ acked'[q] = {}
  BY <1>1 DEF FileInv, FilesAt
<1>6. \A q \in Paths : \A e \in acked'[q] : InFile(files'[q], e)
  BY <1>1 DEF FileInv, FilesAt
<1>. QED
  BY <1>2, <1>4, <1>5, <1>6 DEF FileInv

\* The text of a line.
LEMMA WriteFiles ==
  ASSUME FileInv, NEW h \in Handles, handles[h].doing = "idle",
         NEW entry, entry.kind \in EntryKinds, WriteText(h, entry),
         used' = used, acked' = acked
  PROVE  FileInv'
<1>. DEFINE p == handles[h].path
<1>1. /\ p \in Paths /\ p \in used /\ names' = names \cup {p}
      /\ FilesAt(p) /\ Gets(p)
      /\ \/ /\ files'[p] = Append(files[p], Text(entry, TRUE))
            /\ Set(h, [handles[h] EXCEPT !.doing = "newline", !.line = entry])
         \/ handles' = handles
         \/ Set(h, Closed)
  BY WriteGives
<1>2. FileShape'
  BY <1>1, FilesKept DEF FileInv, FileShape
<1>3. ASSUME NEW i \in Handles, handles'[i] = handles[i] PROVE HandleInv(i)'
  <2>1. handles[i].doing = "newline" =>
          handles[i].path \in names' /\ Gets(handles[i].path)
    BY <1>1 DEF FileInv, HandleInv, FileShape, FilesAt, Gets
  <2>. QED
    BY <1>3, <2>1, HandleKept
<1>4. HandleShape' /\ \A i \in Handles : HandleInv(i)'
  <2>1. CASE handles' = handles
    BY <1>3, <2>1 DEF FileInv, HandleShape
  <2>2. CASE Set(h, Closed)
    <3>1. /\ HandleShape' /\ handles'[h] = Closed
          /\ \A i \in Handles \ {h} : handles'[i] = handles[i]
      BY <2>2, SetShape DEF FileInv, Closed, Fields
    <3>. QED
      BY <1>3, <3>1, ClosedInv
  <2>3. CASE /\ files'[p] = Append(files[p], Text(entry, TRUE))
             /\ Set(h, [handles[h] EXCEPT !.doing = "newline", !.line = entry])
    <3>. DEFINE r == [handles[h] EXCEPT !.doing = "newline", !.line = entry]
    <3>1. /\ DOMAIN r = Fields /\ r.path = p /\ r.doing = "newline"
          /\ r.line = entry /\ r.rest = handles[h].rest
      <4>1. HandleShape /\ r = [handles[h] EXCEPT !.doing = "newline", !.line = entry]
        BY DEF FileInv
      <4>. HIDE DEF r
      <4>. QED
        BY <4>1 DEF HandleShape, Fields
    <3>. HIDE DEF r
    <3>2. /\ HandleShape' /\ handles'[h] = r
          /\ \A i \in Handles \ {h} : handles'[i] = handles[i]
      BY <2>3, <3>1, SetShape DEF FileInv, r
    <3>3. InFile(files'[p], entry)
      <4>1. PICK S : files[p] \in Seq(S)
        BY <1>1 DEF FileInv, FileShape
      <4>. DEFINE texts == Texts(files[p])
      <4>2. texts \in Seq(S)
        BY <4>1, TextsType
      <4>3. IsText(Text(entry, TRUE))
        BY DEF IsText, Text, Newline, Entry, EntryKinds
      <4>4. Texts(files'[p]) = Append(texts, Text(entry, TRUE))
        BY <2>3, <4>1, <4>3, TextsGrow
      <4>. HIDE DEF texts
      <4>5. /\ Len(texts) + 1 \in DOMAIN Append(texts, Text(entry, TRUE))
            /\ Append(texts, Text(entry, TRUE))[Len(texts) + 1] = Text(entry, TRUE)
        <5>. DEFINE piece == Text(entry, TRUE)
                    more == Append(texts, piece)
        <5>. HIDE DEF piece
        <5>1. /\ more \in Seq(S \cup {piece})
              /\ Len(more) = Len(texts) + 1 /\ Len(texts) \in Nat
              /\ more[Len(texts) + 1] = piece
          BY <4>2, AppendProperties
        <5>. HIDE DEF more
        <5>2. Len(texts) + 1 \in DOMAIN more
          BY <5>1
        <5>. QED
          BY <5>1, <5>2 DEF more, piece
      <4>. QED
        BY <4>4, <4>5 DEF InFile
    <3>4. HandleInv(h)'
      <4>1. HandleInv(h)
        BY DEF FileInv
      <4>2. /\ handles'[h].path = p /\ handles'[h].doing = "newline"
            /\ handles'[h].line = entry /\ handles'[h].rest = handles[h].rest
        BY <3>1, <3>2
      <4>. QED
        BY <1>1, <3>3, <4>1, <4>2 DEF HandleInv
    <3>. QED
      BY <1>3, <3>2, <3>4
  <2>. QED
    BY <1>1, <2>1, <2>2, <2>3
<1>5. \A q \in Paths \ names' : files'[q] = <<>> /\ acked'[q] = {}
  BY <1>1 DEF FileInv, FilesAt
<1>6. ASSUME NEW q \in Paths, NEW e \in acked'[q] PROVE InFile(files'[q], e)
  <2>1. InFile(files[q], e) /\ \E S : files[q] \in Seq(S)
    BY <1>6 DEF FileInv, FileShape
  <2>2. Gets(q)
    BY <1>1 DEF FilesAt, Gets
  <2>. QED
    BY <2>1, <2>2, StaysInFile
<1>. QED
  BY <1>2, <1>4, <1>5, <1>6 DEF FileInv

\* The end of a line: its entry, the one in the file that is acknowledged.
LEMMA EndFiles ==
  ASSUME FileInv, NEW h \in Handles, EndLine(h)
  PROVE  FileInv'
<1>. DEFINE p == handles[h].path
            after == Settled(Appended(handles[h]))
<1>0. FileShape /\ HandleShape /\ HandleInv(h)
  BY DEF FileInv
<1>1. /\ p \in Paths /\ p \in used
      /\ names' = names /\ used' = used
      /\ \/ /\ handles[h].doing = "newline" /\ p \in names
            /\ FilesAt(p) /\ files'[p] = Append(files[p], Newline)
            /\ acked' = [acked EXCEPT ![p] = @ \cup {handles[h].line}]
         \/ UNCHANGED <<files, acked>>
      /\ Set(h, after) \/ Set(h, Settled(handles[h])) \/ Set(h, Closed)
  BY EndGives
<1>2. FilesAt(p) /\ \A q \in Paths : Gets(q)
  BY <1>0, <1>1 DEF FileShape, FilesAt, Gets
<1>3. acked' = [q \in Paths |-> acked'[q]]
  BY <1>0, <1>1 DEF FileShape
<1>4. FileShape'
  BY <1>0, <1>1, <1>2, <1>3, FilesKept DEF FileShape
<1>5. ASSUME NEW i \in Handles, handles'[i] = handles[i] PROVE HandleInv(i)'
  <2>1. handles[i].doing = "newline" => handles[i].path \in names
    BY DEF FileInv, HandleInv
  <2>2. handles[i].doing = "newline" =>
          handles[i].path \in names' /\ Gets(handles[i].path)
    BY <1>0, <1>1, <1>2, <2>1 DEF FileShape
  <2>. QED
    BY <1>1, <1>5, <2>2, HandleKept
<1>6. HandleShape' /\ HandleInv(h)' /\ \A i \in Handles \ {h} : handles'[i] = handles[i]
  <2>1. CASE Set(h, Closed)
    <3>1. /\ HandleShape' /\ handles'[h] = Closed
          /\ \A i \in Handles \ {h} : handles'[i] = handles[i]
      BY <1>0, <2>1, SetShape DEF Closed, Fields
    <3>. QED
      BY <3>1, ClosedInv
  <2>2. ASSUME NEW r, r = after \/ r = Settled(handles[h]), Set(h, r)
        PROVE  /\ HandleShape' /\ HandleInv(h)'
               /\ \A i \in Handles \ {h} : handles'[i] = handles[i]
    <3>. DEFINE rest == IF handles[h].rest = <<>> THEN <<>> ELSE Tail(handles[h].rest)
    <3>1. DOMAIN r = Fields /\ r.path = p /\ r.doing = "idle" /\ r.rest = rest
      BY <1>0, <2>2, SettledIs
    <3>2. /\ \E E : rest \in Seq(E)
          /\ \A k \in DOMAIN rest : rest[k].kind \in EntryKinds
      <4>1. CASE handles[h].rest = <<>>
        <5>1. <<>> \in Seq({}) /\ DOMAIN <<>> = {}
          OBVIOUS
        <5>. QED
          BY <4>1, <5>1
      <4>2. CASE handles[h].rest # <<>>
        BY <4>2, RestType
      <4>. QED
        BY <4>1, <4>2
    <3>3. /\ HandleShape' /\ handles'[h] = r
          /\ \A i \in Handles \ {h} : handles'[i] = handles[i]
      BY <1>0, <2>2, <3>1, SetShape
    <3>. HIDE DEF rest
    <3>4. HandleInv(h)'
      BY <1>1, <3>1, <3>2, <3>3 DEF HandleInv
    <3>. QED
      BY <3>3, <3>4
  <2>. QED
    BY <1>1, <2>1, <2>2
<1>7. \A q \in Paths \ names' : files'[q] = <<>> /\ acked'[q] = {}
  BY <1>0, <1>1, <1>2 DEF FileInv, FileShape, FilesAt
<1>8. ASSUME NEW q \in Paths, NEW e \in acked'[q] PROVE InFile(files'[q], e)
  <2>1. \E S : files[q] \in Seq(S)
    BY <1>0 DEF FileShape
  <2>2. e \in acked[q] \/ (q = p /\ handles[h].doing = "newline" /\ e = handles[h].line)
    <3>1. CASE UNCHANGED acked
      BY <1>8, <3>1
    <3>2. CASE /\ handles[h].doing = "newline"
               /\ acked' = [acked EXCEPT ![p] = @ \cup {handles[h].line}]
      <4>1. acked'[q] = IF q = p THEN acked[q] \cup {handles[h].line} ELSE acked[q]
        BY <1>0, <3>2 DEF FileShape
      <4>. QED
        BY <1>8, <3>2, <4>1
    <3>. QED
      BY <1>1, <3>1, <3>2
  <2>3. InFile(files[q], e)
    BY <1>0, <2>2 DEF FileInv, HandleInv
  <2>. QED
    BY <1>2, <2>1, <2>3, StaysInFile
<1>. QED
  BY <1>4, <1>5, <1>6, <1>7, <1>8 DEF FileInv

\* A session that is opened, and one that is dropped.
LEMMA OpenFiles ==
  ASSUME FileInv, NEW h \in Handles, NEW r, Set(h, r), DOMAIN r = Fields,
         UNCHANGED <<files, names, used, acked>>,
         \/ r = Closed
         \/ r.path \in names /\ r.doing = "idle" /\ r.rest = <<>>
  PROVE  FileInv'
<1>1. FileShape /\ HandleShape
  BY DEF FileInv
<1>2. /\ HandleShape' /\ handles'[h] = r
      /\ \A i \in Handles \ {h} : handles'[i] = handles[i]
  BY <1>1, SetShape
<1>3. FileShape'
  BY <1>1 DEF FileShape
<1>4. HandleInv(h)'
  <2>1. CASE r = Closed
    BY <1>2, <2>1, ClosedInv
  <2>2. CASE r.path \in names /\ r.doing = "idle" /\ r.rest = <<>>
    <3>1. <<>> \in Seq({}) /\ DOMAIN <<>> = {}
      OBVIOUS
    <3>. QED
      BY <1>1, <1>2, <2>2, <3>1 DEF HandleInv, FileShape
  <2>. QED
    BY <2>1, <2>2
<1>5. \A i \in Handles \ {h} : HandleInv(i)'
  BY <1>2 DEF FileInv, HandleInv
<1>. QED
  BY <1>2, <1>3, <1>4, <1>5 DEF FileInv

\* A file that is removed, with whatever a handle had written of a line.
LEMMA DeleteFiles ==
  ASSUME FileInv, NEW p \in Paths, Delete(p)
  PROVE  FileInv'
<1>0. FileShape /\ HandleShape
  BY DEF FileInv
<1>1. /\ names' = names \ {p} /\ used' = used
      /\ files' = [files EXCEPT ![p] = <<>>] /\ acked' = [acked EXCEPT ![p] = {}]
  BY DEF Delete
<1>2. FilesAt(p) /\ files'[p] = <<>>
  <2>1. <<>> \in Seq({})
    OBVIOUS
  <2>. QED
    BY <1>0, <1>1, <2>1 DEF FileShape, FilesAt
<1>3. FileShape'
  BY <1>0, <1>1, <1>2, FilesKept DEF FileShape
<1>4. ASSUME NEW h \in Handles
      PROVE  DOMAIN handles'[h] = Fields /\ HandleInv(h)'
  <2>1. DOMAIN handles[h] = Fields /\ HandleInv(h)
    BY <1>0 DEF FileInv, HandleShape
  <2>2. CASE handles[h].path = p /\ handles[h].doing = "newline"
    <3>1. handles'[h] = [handles[h] EXCEPT !.doing = "unlinked"]
      BY <2>2 DEF Delete
    <3>2. /\ DOMAIN handles'[h] = Fields
          /\ handles'[h].path = handles[h].path /\ handles'[h].doing = "unlinked"
          /\ handles'[h].line = handles[h].line /\ handles'[h].rest = handles[h].rest
      BY <2>1, <3>1 DEF Fields
    <3>. QED
      BY <1>1, <2>1, <2>2, <3>2 DEF HandleInv, InFile
  <2>3. CASE ~(handles[h].path = p /\ handles[h].doing = "newline")
    <3>1. handles'[h] = handles[h]
      BY <2>3 DEF Delete
    <3>2. handles[h].doing = "newline" =>
            handles[h].path \in names' /\ Gets(handles[h].path)
      BY <1>0, <1>1, <1>2, <2>1, <2>3 DEF HandleInv, FileShape, FilesAt, Gets
    <3>. QED
      BY <1>1, <2>1, <3>1, <3>2, HandleKept
  <2>. QED
    BY <2>2, <2>3
<1>5. HandleShape'
  BY <1>4 DEF HandleShape, Delete
<1>6. \A q \in Paths \ names' : files'[q] = <<>> /\ acked'[q] = {}
  BY <1>0, <1>1, <1>2 DEF FileInv, FileShape, FilesAt
<1>7. \A q \in Paths : \A e \in acked'[q] : InFile(files'[q], e)
  BY <1>0, <1>1, <1>2 DEF FileInv, FileShape, FilesAt
<1>. QED
  BY <1>3, <1>4, <1>5, <1>6, <1>7 DEF FileInv

\* What a fork is to copy.
LEMMA ForkCopies ==
  ASSUME FileInv, NEW p \in Paths, Opens(p), NEW copied \in Forks(Loaded(p))
  PROVE  /\ \E T : copied \in Seq(T)
         /\ \A k \in DOMAIN copied : copied[k].kind \in EntryKinds
<1>. DEFINE entries == Loaded(p)
<1>1. PICK S : files[p] \in Seq(S)
  BY DEF FileInv, FileShape
<1>2. /\ \E E : entries \in Seq(E)
      /\ \A k \in DOMAIN entries : entries[k].kind \in EntryKinds
  BY <1>1, OpensReads, EntriesType
<1>3. copied \in Forks(entries)
  OBVIOUS
<1>. HIDE DEF entries
<1>. QED
  BY <1>2, <1>3, ForkType

\* What an append writes.
LEMMA AppendWrites ==
  ASSUME NEW h \in Handles, AppendEntry(h)
  PROVE  /\ handles[h].doing = "idle"
         /\ \E entry : entry.kind \in EntryKinds /\ WriteText(h, entry)
         /\ UNCHANGED <<used, acked, shared>>
<1>1. \A id, parent, ref :
        /\ Entry(id, parent, "message", ref).kind \in EntryKinds
        /\ Entry(id, parent, "leaf", ref).kind \in EntryKinds
  BY DEF Entry, EntryKinds
<1>2. \/ WriteText(h, Entry(created', handles[h].leaf, "message", 0))
      \/ \E target : WriteText(h, Entry(created', handles[h].leaf, "leaf", target))
  BY DEF AppendEntry
<1>. QED
  BY <1>1, <1>2 DEF AppendEntry

\* Every step keeps the invariant.
LEMMA FileStep == FileInv /\ [Next]_vars => FileInv'
<1>. SUFFICES ASSUME FileInv, [Next]_vars PROVE FileInv'
  OBVIOUS
<1>0. FileShape /\ HandleShape
  BY DEF FileInv
<1>1. CASE UNCHANGED vars
  BY <1>1 DEF FileInv, FileShape, HandleShape, HandleInv, vars
<1>2. ASSUME NEW h \in Handles, Create(h) PROVE FileInv'
  <2>1. <<>> \in Seq({}) /\ DOMAIN <<>> = {}
    OBVIOUS
  <2>. QED
    BY <1>2, <2>1, CreateFiles DEF Create
<1>3. ASSUME NEW h \in Handles, Open(h) PROVE FileInv'
  <2>1. PICK p \in names : Set(h, OpenAt(p, Loaded(p), <<>>))
    BY <1>3 DEF Open
  <2>. DEFINE r == OpenAt(p, Loaded(p), <<>>)
  <2>2. /\ DOMAIN r = Fields /\ r.path = p /\ r.doing = "idle" /\ r.rest = <<>>
    BY OpenAtIs
  <2>3. UNCHANGED <<files, names, used, acked>>
    BY <1>3 DEF Open
  <2>4. Set(h, r)
    BY <2>1
  <2>. HIDE DEF r
  <2>. QED
    BY <2>2, <2>3, <2>4, OpenFiles
<1>4. ASSUME NEW h \in Handles, Fork(h) PROVE FileInv'
  <2>1. PICK p \in names, q \in Paths :
          Opens(p) /\ \E copied \in Forks(Loaded(p)) : CreateFile(h, q, copied)
    BY <1>4 DEF Fork
  <2>2. PICK copied \in Forks(Loaded(p)) : CreateFile(h, q, copied)
    BY <2>1
  <2>3. p \in Paths
    BY <1>0 DEF FileShape
  <2>. QED
    BY <2>1, <2>2, <2>3, ForkCopies, CreateFiles
<1>5. ASSUME NEW h \in Handles, AppendEntry(h) PROVE FileInv'
  BY <1>5, AppendWrites, WriteFiles
<1>6. ASSUME NEW h \in Handles, CopyEntry(h) PROVE FileInv'
  <2>1. Head(handles[h].rest).kind \in EntryKinds
    BY <1>6, RestType DEF CopyEntry
  <2>. QED
    BY <1>6, <2>1, WriteFiles DEF CopyEntry
<1>7. ASSUME NEW h \in Handles, EndLine(h) PROVE FileInv'
  BY <1>7, EndFiles
<1>8. ASSUME NEW h \in Handles, Leave(h) PROVE FileInv'
  <2>1. DOMAIN Closed = Fields
    BY DEF Closed, Fields
  <2>. QED
    BY <1>8, <2>1, OpenFiles DEF Leave
<1>9. ASSUME NEW p \in Paths, Delete(p) PROVE FileInv'
  BY <1>9, DeleteFiles
<1>. QED
  BY <1>1, <1>2, <1>3, <1>4, <1>5, <1>6, <1>7, <1>8, <1>9 DEF Next

-----------------------------------------------------------------------------
(* The file implements the log                                             *)

\* The log as the file gives it.
LogAt(p) == IF Opens(p) THEN Loaded(p) ELSE <<>>

\* A step that leaves the files alone leaves the log alone.
LEMMA LogStays ==
  ASSUME UNCHANGED <<files, names, acked>>
  PROVE  UNCHANGED Log!vars
<1>1. \A p \in Paths : /\ Opens(p)' <=> Opens(p)
                       /\ Loaded(p)' = Loaded(p)
  BY DEF Opens, Loaded
<1>. QED
  BY <1>1 DEF Log!vars, StateOf

\* At first there is no file and no log.
LEMMA LogInit == Init => Log!Init
<1>. SUFFICES ASSUME Init PROVE Log!Init
  OBVIOUS
<1>1. \A p \in Paths : p \notin names /\ ~Opens(p)
  BY DEF Init, Opens
<1>. QED
  BY <1>1 DEF Init, Log!Init, StateOf

\* A new file is an empty log, or a lost one.
LEMMA CreateMoves ==
  ASSUME FileInv, NEW h \in Handles, NEW p \in Paths, NEW rest, CreateFile(h, p, rest)
  PROVE  Log!Next
<1>1. /\ p \notin used /\ names' = names \cup {p}
      /\ FilesAt(p) /\ acked' = acked /\ acked[p] = {} /\ files'[p] \in NewFiles
  BY CreateGives
<1>2. p \notin names
  BY <1>1 DEF FileInv, FileShape
<1>3. LogAt(p)' = <<>>
  <2>1. Opens(p)' => Readable(files'[p]) /\ Loaded(p)' = EntriesOf(files'[p])
    BY DEF Opens, Readable, Loaded, EntriesOf
  <2>. QED
    BY <1>1, <2>1, NewReads DEF LogAt
<1>4. ASSUME NEW q \in Paths \ {p}
      PROVE  StateOf(q)' = StateOf(q) /\ LogAt(q)' = LogAt(q)
  <2>1. (q \in names' <=> q \in names) /\ files'[q] = files[q]
    BY <1>1 DEF FilesAt
  <2>2. (Opens(q)' <=> Opens(q)) /\ Loaded(q)' = Loaded(q)
    BY <2>1 DEF Opens, Loaded
  <2>. QED
    BY <2>1, <2>2 DEF StateOf, LogAt
<1>5. StateOf(p) = "absent" /\ StateOf(p)' \in {"open", "lost"}
  BY <1>1, <1>2 DEF StateOf
<1>. QED
  BY <1>1, <1>3, <1>4, <1>5 DEF Log!Next, Log!Create, LogAt

\* A text, or its newline.
LEMMA LineMoves ==
  ASSUME FileInv, FileInv', NEW h \in Handles,
         \/ EndLine(h)
         \/ /\ handles[h].doing = "idle" /\ UNCHANGED acked
            /\ \E entry : entry.kind \in EntryKinds /\ WriteText(h, entry)
  PROVE  Log!Next \/ UNCHANGED Log!vars
<1>. DEFINE p == handles[h].path
<1>0. FileShape
  BY DEF FileInv
<1>1. CASE EndLine(h)
  <2>1. /\ p \in Paths /\ names' = names
        /\ \/ /\ p \in names
              /\ FilesAt(p) /\ files'[p] = Append(files[p], Newline)
              /\ acked' = [acked EXCEPT ![p] = @ \cup {handles[h].line}]
           \/ UNCHANGED <<files, acked>>
    BY <1>1, EndGives
  <2>2. CASE UNCHANGED <<files, acked>>
    BY <2>1, <2>2, LogStays
  <2>3. CASE /\ p \in names
             /\ FilesAt(p) /\ files'[p] = Append(files[p], Newline)
             /\ acked' = [acked EXCEPT ![p] = @ \cup {handles[h].line}]
    <3>1. Gets(p) /\ names' = names \cup {p}
      BY <2>1, <2>3 DEF Gets
    <3>2. /\ acked[p] \subseteq acked'[p]
          /\ \A q \in Paths \ {p} : files'[q] = files[q] /\ acked'[q] = acked[q]
      BY <1>0, <2>1, <2>3 DEF FileShape, FilesAt
    <3>. HIDE DEF p
    <3>. QED
      BY <2>1, <2>3, <3>1, <3>2, AppendMoves
  <2>. QED
    BY <2>1, <2>2, <2>3
<1>2. ASSUME handles[h].doing = "idle", UNCHANGED acked,
             NEW entry, entry.kind \in EntryKinds, WriteText(h, entry)
      PROVE  Log!Next
  <2>1. p \in Paths /\ names' = names \cup {p} /\ FilesAt(p) /\ Gets(p)
    BY <1>2, WriteGives
  <2>2. \A q \in Paths \ {p} : files'[q] = files[q] /\ acked'[q] = acked[q]
    BY <1>2, <2>1 DEF FilesAt
  <2>3. acked'[p] = acked[p]
    BY <1>2
  <2>. HIDE DEF p
  <2>. QED
    BY <2>1, <2>2, <2>3, AppendMoves
<1>. QED
  BY <1>1, <1>2

\* A file that is removed.
LEMMA DeleteMoves ==
  ASSUME FileInv, NEW p \in Paths, Delete(p)
  PROVE  Log!Next
<1>1. /\ names' = names \ {p} /\ acked'[p] = {}
      /\ \A q \in Paths \ {p} : files'[q] = files[q] /\ acked'[q] = acked[q]
  BY DEF FileInv, FileShape, Delete
<1>2. StateOf(p)' = "absent" /\ LogAt(p)' = <<>>
  BY <1>1 DEF StateOf, Opens, LogAt
<1>3. ASSUME NEW q \in Paths \ {p}
      PROVE  StateOf(q)' = StateOf(q) /\ LogAt(q)' = LogAt(q)
  <2>1. (q \in names' <=> q \in names) /\ files'[q] = files[q]
    BY <1>1
  <2>2. (Opens(q)' <=> Opens(q)) /\ Loaded(q)' = Loaded(q)
    BY <2>1 DEF Opens, Loaded
  <2>. QED
    BY <2>1, <2>2 DEF StateOf, LogAt
<1>. QED
  BY <1>1, <1>2, <1>3 DEF Log!Next, Log!Delete, LogAt

\* Every step is one of the log, or leaves it alone.
LEMMA LogStep == FileInv /\ FileInv' /\ [Next]_vars => [Log!Next]_Log!vars
<1>. SUFFICES ASSUME FileInv, FileInv', [Next]_vars
              PROVE  Log!Next \/ UNCHANGED Log!vars
  OBVIOUS
<1>1. CASE UNCHANGED vars
  BY <1>1, LogStays DEF vars
<1>2. ASSUME NEW h \in Handles, Create(h) \/ Fork(h) PROVE Log!Next
  BY <1>2, CreateMoves DEF Create, Fork
<1>3. ASSUME NEW h \in Handles, Open(h) \/ Leave(h) PROVE UNCHANGED Log!vars
  <2>1. UNCHANGED <<files, names, acked>>
    BY <1>3 DEF Open, Leave
  <2>. QED
    BY <2>1, LogStays
<1>4. ASSUME NEW h \in Handles, AppendEntry(h) PROVE Log!Next \/ UNCHANGED Log!vars
  BY <1>4, AppendWrites, LineMoves
<1>5. ASSUME NEW h \in Handles, CopyEntry(h) PROVE Log!Next \/ UNCHANGED Log!vars
  <2>1. Head(handles[h].rest).kind \in EntryKinds
    BY <1>5, RestType DEF CopyEntry
  <2>. QED
    BY <1>5, <2>1, LineMoves DEF CopyEntry
<1>6. ASSUME NEW h \in Handles, EndLine(h) PROVE Log!Next \/ UNCHANGED Log!vars
  BY <1>6, LineMoves
<1>7. ASSUME NEW p \in Paths, Delete(p) PROVE Log!Next
  BY <1>7, DeleteMoves
<1>. QED
  BY <1>1, <1>2, <1>3, <1>4, <1>5, <1>6, <1>7 DEF Next

\* A session file is a log that loses nothing it acknowledged: whatever processes
\* append to it, die or are cut short, it opens with all of that or not at all
\* (append_entry and load_jsonl_storage).
THEOREM ImplementsLog == Spec => IsSessionLog
<1>1. Spec => []FileInv
  BY FileInit, FileStep, PTL DEF Spec
<1>. QED
  BY <1>1, LogInit, LogStep, PTL DEF Spec, IsSessionLog, Log!Spec

-----------------------------------------------------------------------------
(* The file of a handle that is alone reopens as the handle has it         *)

\* No write to the file failed and one handle at a time had it open.
Sound(p) == p \notin hurt \cup shared

At(h, p) == handles[h].doing # "closed" /\ handles[h].path = p

\* A handle and its file give the same entries and leaf, up to a line whose end
\* is not written yet.
Mirrors(h) ==
  LET handle == handles[h]
      file == files[handle.path]
  IN /\ handle.path \in names
     /\ handle.doing \in {"idle", "newline"}
     /\ \E E : handle.entries \in Seq(E)
     /\ handle.leaf = LeafOf(handle.entries)
     /\ EntriesOf(file) = IF handle.doing = "idle" THEN handle.entries
                          ELSE Append(handle.entries, handle.line)

\* A sound file has one handle at most, opens, and ends in a newline but for the
\* line that the handle is at.
SoundAt(p) ==
  /\ \A h, i \in Handles : At(h, p) /\ At(i, p) => h = i
  /\ p \in names =>
       /\ Readable(files[p])
       /\ \/ files[p][Len(files[p])] = Newline
          \/ \E h \in Handles : At(h, p) /\ handles[h].doing = "newline"
  /\ \A h \in Handles : At(h, p) => Mirrors(h)

SoleInv == \A p \in Paths : Sound(p) => SoundAt(p)

\* At first no file is open.
LEMMA SoleInit == Init => SoleInv
<1>. SUFFICES ASSUME Init PROVE SoleInv
  OBVIOUS
<1>1. names = {} /\ \A h \in Handles : handles[h].doing = "closed"
  BY DEF Init, Closed
<1>. QED
  BY <1>1 DEF SoleInv, SoundAt, At

\* What the step of another file leaves alone.
LEMMA SoundStays ==
  ASSUME SoleInv, NEW p \in Paths, hurt \subseteq hurt', shared \subseteq shared',
         Sound(p)', files'[p] = files[p], p \in names' <=> p \in names,
         \A h \in Handles : At(h, p)' => handles'[h] = handles[h],
         \A h \in Handles : At(h, p) /\ handles[h].doing = "newline" =>
                              handles'[h] = handles[h]
  PROVE  SoundAt(p)'
<1>1. SoundAt(p)
  BY DEF SoleInv, Sound
<1>2. \A h \in Handles : At(h, p)' => At(h, p) /\ Mirrors(h)
  BY <1>1 DEF SoundAt, At
<1>3. ASSUME NEW h \in Handles, At(h, p)' PROVE Mirrors(h)'
  <2>1. handles'[h] = handles[h] /\ Mirrors(h) /\ handles[h].path = p
    BY <1>2, <1>3 DEF At
  <2>. QED
    BY <2>1 DEF Mirrors
<1>4. \A h \in Handles : At(h, p) /\ handles[h].doing = "newline" =>
                           At(h, p)' /\ handles'[h].doing = "newline"
  BY DEF At
<1>. QED
  BY <1>1, <1>2, <1>3, <1>4 DEF SoundAt

\* A new file.
LEMMA CreateSole ==
  ASSUME FileInv, SoleInv, NEW h \in Handles, NEW p \in Paths, NEW rest,
         CreateFile(h, p, rest)
  PROVE  SoleInv'
<1>. DEFINE r == OpenAt(p, <<>>, rest)
<1>1. /\ p \notin used /\ names' = names \cup {p} /\ FilesAt(p) /\ shared' = shared
      /\ \/ /\ files'[p] = <<Text(Header, TRUE), Newline>>
            /\ Set(h, r) /\ hurt' = hurt
         \/ handles' = handles /\ hurt' = hurt \cup {p}
      /\ files'[p] \in NewFiles
  BY CreateGives
<1>2. /\ DOMAIN r = Fields /\ r.path = p /\ r.entries = <<>>
      /\ r.leaf = LeafOf(<<>>) /\ r.doing = "idle"
  BY OpenAtIs
<1>. HIDE DEF r
<1>3. Set(h, r) => handles'[h] = r /\ \A i \in Handles \ {h} : handles'[i] = handles[i]
  BY <1>2, SetShape DEF FileInv
<1>4. \A i \in Handles : ~At(i, p)
  BY <1>1 DEF FileInv, HandleInv, At
<1>5. ASSUME NEW q \in Paths, q # p, Sound(q)' PROVE SoundAt(q)'
  <2>1. files'[q] = files[q] /\ (q \in names' <=> q \in names)
    BY <1>1, <1>5 DEF FilesAt
  <2>2. \A i \in Handles : At(i, q)' => handles'[i] = handles[i]
    BY <1>1, <1>2, <1>3, <1>5 DEF At
  <2>3. handles[h].doing = "closed"
    BY CreateGives
  <2>4. \A i \in Handles : At(i, q) => handles'[i] = handles[i]
    BY <1>1, <1>3, <2>3 DEF At
  <2>. QED
    BY <1>1, <1>5, <2>1, <2>2, <2>4, SoundStays
<1>6. ASSUME Sound(p)' PROVE SoundAt(p)'
  <2>1. files'[p] = <<Text(Header, TRUE), Newline>> /\ Set(h, r)
    BY <1>1, <1>6 DEF Sound
  <2>2. Readable(files'[p]) /\ EntriesOf(files'[p]) = <<>>
    BY <1>1, <2>1, NewReads
  <2>3. files'[p][Len(files'[p])] = Newline
    <3>1. \A x, y : <<x, y>>[Len(<<x, y>>)] = y
      OBVIOUS
    <3>. QED
      BY <2>1, <3>1
  <2>4. \A i \in Handles : At(i, p)' => i = h
    BY <1>3, <1>4, <2>1 DEF At
  <2>5. Mirrors(h)'
    <3>1. <<>> \in Seq({})
      OBVIOUS
    <3>. QED
      BY <1>1, <1>2, <1>3, <2>1, <2>2, <3>1 DEF Mirrors
  <2>. QED
    BY <2>2, <2>3, <2>4, <2>5 DEF SoundAt
<1>. QED
  BY <1>5, <1>6 DEF SoleInv

\* A file that is opened: a second handle makes it shared.
LEMMA OpenSole ==
  ASSUME FileInv, SoleInv, NEW h \in Handles, Open(h)
  PROVE  SoleInv'
<1>1. PICK p \in names :
        /\ Opens(p)
        /\ Set(h, OpenAt(p, Loaded(p), <<>>))
        /\ shared' = IF IsOpen(p) THEN shared \cup {p} ELSE shared
  BY DEF Open
<1>2. /\ handles[h].doing = "closed"
      /\ files' = files /\ names' = names /\ hurt' = hurt
  BY DEF Open
<1>. DEFINE r == OpenAt(p, Loaded(p), <<>>)
<1>3. /\ DOMAIN r = Fields /\ r.path = p /\ r.entries = Loaded(p)
      /\ r.leaf = LeafOf(Loaded(p)) /\ r.doing = "idle"
  BY OpenAtIs
<1>4. Set(h, r)
  BY <1>1
<1>. HIDE DEF r
<1>5. handles'[h] = r /\ \A i \in Handles \ {h} : handles'[i] = handles[i]
  BY <1>3, <1>4, SetShape DEF FileInv
<1>6. ASSUME NEW q \in Paths, q # p, Sound(q)' PROVE SoundAt(q)'
  <2>1. \A i \in Handles : At(i, q)' => handles'[i] = handles[i]
    BY <1>3, <1>5, <1>6 DEF At
  <2>2. \A i \in Handles : At(i, q) => handles'[i] = handles[i]
    BY <1>2, <1>5 DEF At
  <2>. QED
    BY <1>1, <1>2, <1>6, <2>1, <2>2, SoundStays
<1>7. ASSUME Sound(p)' PROVE SoundAt(p)'
  <2>0. p \in Paths
    BY DEF FileInv, FileShape
  <2>1. \A i \in Handles : ~At(i, p)
    BY <1>1, <1>7 DEF Sound, IsOpen, At
  <2>2. SoundAt(p)
    BY <1>1, <1>2, <1>7, <2>0 DEF SoleInv, Sound
  <2>3. \A i \in Handles : At(i, p)' => i = h
    BY <1>5, <2>1 DEF At
  <2>4. Mirrors(h)'
    <3>1. PICK S : files[p] \in Seq(S)
      BY <2>0 DEF FileInv, FileShape
    <3>2. Loaded(p) = EntriesOf(files[p]) /\ \E E : Loaded(p) \in Seq(E)
      BY <1>1, <3>1, OpensReads, EntriesType
    <3>. QED
      BY <1>2, <1>3, <1>5, <3>2 DEF Mirrors
  <2>. QED
    BY <1>2, <2>1, <2>2, <2>3, <2>4 DEF SoundAt
<1>. QED
  BY <1>6, <1>7 DEF SoleInv

\* The text of a line, behind the newline of the one before.
LEMMA WriteSole ==
  ASSUME FileInv, SoleInv, NEW h \in Handles, handles[h].doing = "idle",
         NEW entry, entry.kind \in EntryKinds, WriteText(h, entry), shared' = shared
  PROVE  SoleInv'
<1>0. PICK p : p = handles[h].path
  OBVIOUS
<1>. DEFINE r == [handles[h] EXCEPT !.doing = "newline", !.line = entry]
<1>1. /\ p \in Paths /\ names' = names \cup {p} /\ FilesAt(p)
      /\ \/ /\ files'[p] = Append(files[p], Text(entry, TRUE))
            /\ Set(h, r) /\ hurt' = hurt
         \/ /\ hurt' = hurt \cup {p}
            /\ handles' = handles \/ Set(h, Closed)
  BY <1>0, WriteGives
<1>2. HandleShape
  BY DEF FileInv
<1>3. /\ DOMAIN r = Fields /\ r.path = p /\ r.entries = handles[h].entries
      /\ r.leaf = handles[h].leaf /\ r.doing = "newline" /\ r.line = entry
  BY <1>0, <1>2 DEF HandleShape, Fields
<1>4. DOMAIN Closed = Fields /\ Closed.doing = "closed"
  BY DEF Closed, Fields
<1>. HIDE DEF r
<1>5. /\ \A i \in Handles \ {h} : handles'[i] = handles[i]
      /\ handles'[h] = handles[h] \/ handles'[h] = r \/ handles'[h] = Closed
      /\ Set(h, r) => handles'[h] = r
  BY <1>1, <1>2, <1>3, <1>4, SetShape
<1>6. ASSUME NEW q \in Paths, q # p, Sound(q)' PROVE SoundAt(q)'
  <2>1. files'[q] = files[q] /\ (q \in names' <=> q \in names)
    BY <1>1, <1>6 DEF FilesAt
  <2>2. \A i \in Handles : At(i, q)' => i # h
    BY <1>0, <1>3, <1>4, <1>5, <1>6 DEF At
  <2>3. \A i \in Handles : At(i, q) => i # h
    BY <1>0, <1>6 DEF At
  <2>. QED
    BY <1>1, <1>5, <1>6, <2>1, <2>2, <2>3, SoundStays
<1>7. ASSUME Sound(p)' PROVE SoundAt(p)'
  <2>1. files'[p] = Append(files[p], Text(entry, TRUE)) /\ Set(h, r) /\ hurt' = hurt
    BY <1>1, <1>7 DEF Sound
  <2>2. SoundAt(p)
    BY <1>1, <1>7, <2>1 DEF SoleInv, Sound
  <2>3. At(h, p) /\ \A i \in Handles : At(i, p) => i = h
    BY <1>0, <2>2 DEF At, SoundAt
  <2>4. Mirrors(h)
    BY <2>2, <2>3 DEF SoundAt
  <2>5. /\ p \in names /\ EntriesOf(files[p]) = handles[h].entries
        /\ handles[h].leaf = LeafOf(handles[h].entries)
        /\ \E E : handles[h].entries \in Seq(E)
    BY <1>0, <2>4 DEF Mirrors
  <2>6. Readable(files[p]) /\ files[p][Len(files[p])] = Newline
    BY <2>2, <2>3, <2>5 DEF SoundAt
  <2>7. PICK S : files[p] \in Seq(S)
    BY <1>1 DEF FileInv, FileShape
  <2>8. /\ Readable(files'[p])
        /\ EntriesOf(files'[p]) = Append(handles[h].entries, entry)
    <3>. DEFINE file == files[p]
    <3>1. file \in Seq(S) /\ Readable(file) /\ file[Len(file)] = Newline
      BY <2>6, <2>7
    <3>. HIDE DEF file
    <3>2. ASSUME NEW whole \in BOOLEAN, whole
          PROVE  /\ Readable(Append(file, Text(entry, whole)))
                 /\ EntriesOf(Append(file, Text(entry, whole))) = Append(EntriesOf(file), entry)
      BY <3>1, <3>2, TextReads
    <3>3. /\ Readable(Append(file, Text(entry, TRUE)))
          /\ EntriesOf(Append(file, Text(entry, TRUE))) = Append(EntriesOf(file), entry)
      BY <3>2
    <3>. QED
      BY <2>1, <2>5, <3>3 DEF file
  <2>9. \A i \in Handles : At(i, p)' => i = h
    BY <1>5, <2>3 DEF At
  <2>10. Mirrors(h)'
    BY <1>1, <1>3, <1>5, <2>1, <2>5, <2>8 DEF Mirrors
  <2>11. At(h, p)' /\ handles'[h].doing = "newline"
    BY <1>3, <1>5, <2>1 DEF At
  <2>. QED
    BY <2>8, <2>9, <2>10, <2>11 DEF SoundAt
<1>. QED
  BY <1>6, <1>7 DEF SoleInv

\* The end of a line.
LEMMA EndSole ==
  ASSUME FileInv, SoleInv, NEW h \in Handles, EndLine(h)
  PROVE  SoleInv'
<1>0. PICK p : p = handles[h].path
  OBVIOUS
<1>. DEFINE r == Settled(Appended(handles[h]))
            s == Settled(handles[h])
<1>1. /\ p \in Paths /\ names' = names /\ shared' = shared
      /\ \/ /\ handles[h].doing = "newline"
            /\ FilesAt(p) /\ files'[p] = Append(files[p], Newline)
            /\ Set(h, r) /\ hurt' = hurt
         \/ /\ handles[h].doing = "unlinked"
            /\ UNCHANGED <<files, hurt>> /\ Set(h, r)
         \/ /\ UNCHANGED files /\ hurt' = hurt \cup {p}
            /\ Set(h, s) \/ Set(h, Closed)
  BY <1>0, EndGives
<1>2. HandleShape
  BY DEF FileInv
<1>3. /\ DOMAIN r = Fields /\ r.path = p
      /\ r.entries = Append(handles[h].entries, handles[h].line)
      /\ r.leaf = LeafAfter(handles[h].line) /\ r.doing = "idle"
      /\ DOMAIN s = Fields /\ s.path = p
  BY <1>0, <1>2, SettledIs
<1>4. DOMAIN Closed = Fields /\ Closed.doing = "closed"
  BY DEF Closed, Fields
<1>. HIDE DEF r, s
<1>5. /\ \A i \in Handles \ {h} : handles'[i] = handles[i]
      /\ handles'[h] = s \/ handles'[h] = r \/ handles'[h] = Closed
      /\ Set(h, r) => handles'[h] = r
  BY <1>1, <1>2, <1>3, <1>4, SetShape
<1>6. ASSUME NEW q \in Paths, q # p, Sound(q)' PROVE SoundAt(q)'
  <2>1. files'[q] = files[q]
    BY <1>1, <1>6 DEF FilesAt
  <2>2. \A i \in Handles : At(i, q)' => i # h
    BY <1>0, <1>3, <1>4, <1>5, <1>6 DEF At
  <2>3. \A i \in Handles : At(i, q) => i # h
    BY <1>0, <1>6 DEF At
  <2>. QED
    BY <1>1, <1>5, <1>6, <2>1, <2>2, <2>3, SoundStays
<1>7. ASSUME Sound(p)' PROVE SoundAt(p)'
  <2>1. SoundAt(p)
    BY <1>1, <1>7 DEF SoleInv, Sound
  <2>2. At(h, p) /\ \A i \in Handles : At(i, p) => i = h
    BY <1>0, <2>1 DEF At, SoundAt, EndLine
  <2>3. Mirrors(h)
    BY <2>1, <2>2 DEF SoundAt
  <2>4. /\ files'[p] = Append(files[p], Newline) /\ Set(h, r)
        /\ handles[h].doing = "newline"
    BY <1>1, <1>7, <2>3 DEF Sound, Mirrors
  <2>5. /\ p \in names /\ \E E : handles[h].entries \in Seq(E)
        /\ EntriesOf(files[p]) = Append(handles[h].entries, handles[h].line)
    BY <1>0, <2>3, <2>4 DEF Mirrors
  <2>6. PICK S : files[p] \in Seq(S)
    BY <1>1 DEF FileInv, FileShape
  <2>7. /\ Readable(files'[p]) /\ EntriesOf(files'[p]) = r.entries
        /\ files'[p][Len(files'[p])] = Newline
    <3>1. Readable(files[p])
      BY <2>1, <2>5 DEF SoundAt
    <3>. DEFINE file == files[p]
    <3>2. /\ Len(Append(file, Newline)) = Len(file) + 1
          /\ Append(file, Newline)[Len(file) + 1] = Newline
      BY <2>6, AppendProperties
    <3>3. Readable(Append(file, Newline)) /\ EntriesOf(Append(file, Newline)) = EntriesOf(file)
      BY <2>6, <3>1, NewlineReads
    <3>. HIDE DEF file
    <3>4. files'[p] = Append(file, Newline) /\ EntriesOf(file) = r.entries
      BY <1>3, <2>4, <2>5 DEF file
    <3>. QED
      BY <3>2, <3>3, <3>4
  <2>8. r.leaf = LeafOf(r.entries) /\ \E E : r.entries \in Seq(E)
    <3>. DEFINE entries == handles[h].entries
                line == handles[h].line
    <3>1. PICK E : entries \in Seq(E)
      BY <2>5
    <3>. HIDE DEF entries, line
    <3>2. /\ Append(entries, line) \in Seq(E \cup {line})
          /\ Append(entries, line) # <<>>
          /\ Append(entries, line)[Len(Append(entries, line))] = line
      <4>1. /\ Append(entries, line) \in Seq(E \cup {line}) /\ Len(entries) \in Nat
            /\ Append(entries, line) # <<>>
            /\ Len(Append(entries, line)) = Len(entries) + 1
            /\ Append(entries, line)[Len(entries) + 1] = line
        BY <3>1, AppendProperties
      <4>. QED
        BY <4>1
    <3>3. LeafOf(Append(entries, line)) = LeafAfter(line)
      BY <3>2 DEF LeafOf
    <3>. QED
      BY <1>3, <3>2, <3>3 DEF entries, line
  <2>9. \A i \in Handles : At(i, p)' => i = h
    BY <1>5, <2>2 DEF At
  <2>10. Mirrors(h)'
    BY <1>1, <1>3, <1>5, <2>4, <2>5, <2>7, <2>8 DEF Mirrors
  <2>. QED
    BY <2>7, <2>9, <2>10 DEF SoundAt
<1>. QED
  BY <1>6, <1>7 DEF SoleInv

\* Every step keeps the invariant.
LEMMA SoleStep == FileInv /\ SoleInv /\ [Next]_vars => SoleInv'
<1>. SUFFICES ASSUME FileInv, SoleInv, [Next]_vars PROVE SoleInv'
  OBVIOUS
<1>0. FileShape /\ HandleShape
  BY DEF FileInv
<1>1. CASE UNCHANGED vars
  BY <1>1, SoundStays DEF vars, SoleInv
<1>2. ASSUME NEW h \in Handles, Create(h) \/ Fork(h) PROVE SoleInv'
  BY <1>2, CreateSole DEF Create, Fork
<1>3. ASSUME NEW h \in Handles, Open(h) PROVE SoleInv'
  BY <1>3, OpenSole
<1>4. ASSUME NEW h \in Handles, AppendEntry(h) PROVE SoleInv'
  BY <1>4, AppendWrites, WriteSole
<1>5. ASSUME NEW h \in Handles, CopyEntry(h) PROVE SoleInv'
  <2>1. Head(handles[h].rest).kind \in EntryKinds
    BY <1>5, RestType DEF CopyEntry
  <2>. QED
    BY <1>5, <2>1, WriteSole DEF CopyEntry
<1>6. ASSUME NEW h \in Handles, EndLine(h) PROVE SoleInv'
  BY <1>6, EndSole
<1>7. ASSUME NEW h \in Handles, Leave(h), NEW p \in Paths, Sound(p)' PROVE SoundAt(p)'
  <2>1. DOMAIN Closed = Fields /\ Closed.doing = "closed"
    BY DEF Closed, Fields
  <2>2. /\ handles'[h] = Closed
        /\ \A i \in Handles \ {h} : handles'[i] = handles[i]
    BY <1>0, <1>7, <2>1, SetShape DEF Leave
  <2>3. \A i \in Handles : At(i, p)' => handles'[i] = handles[i]
    BY <2>1, <2>2 DEF At
  <2>4. \A i \in Handles : At(i, p) /\ handles[i].doing = "newline" =>
                             handles'[i] = handles[i]
    BY <1>7, <2>2 DEF Leave, At, Sound
  <2>5. hurt \subseteq hurt' /\ shared' = shared /\ files' = files /\ names' = names
    BY <1>7 DEF Leave
  <2>. QED
    BY <1>7, <2>3, <2>4, <2>5, SoundStays
<1>8. ASSUME NEW q \in Paths, Delete(q), NEW p \in Paths, Sound(p)' PROVE SoundAt(p)'
  <2>1. p # q /\ hurt \subseteq hurt' /\ shared' = shared
    BY <1>8 DEF Delete, Sound
  <2>2. files'[p] = files[p] /\ (p \in names' <=> p \in names)
    BY <1>0, <1>8, <2>1 DEF Delete, FileShape
  <2>3. ASSUME NEW h \in Handles PROVE handles'[h] = handles[h] \/ (~At(h, p) /\ ~At(h, p)')
    <3>1. CASE handles[h].path = q /\ handles[h].doing = "newline"
      <4>1. handles'[h] = [handles[h] EXCEPT !.doing = "unlinked"]
        BY <1>8, <3>1 DEF Delete
      <4>2. handles'[h].path = q
        BY <1>0, <3>1, <4>1 DEF HandleShape, Fields
      <4>. QED
        BY <2>1, <3>1, <4>2 DEF At
    <3>2. CASE ~(handles[h].path = q /\ handles[h].doing = "newline")
      <4>1. handles'[h] = handles[h]
        BY <1>8, <3>2 DEF Delete
      <4>. QED
        BY <4>1
    <3>. QED
      BY <3>1, <3>2
  <2>. QED
    BY <1>8, <2>1, <2>2, <2>3, SoundStays
<1>9. ASSUME NEW h \in Handles, Leave(h) PROVE SoleInv'
  BY <1>7, <1>9 DEF SoleInv
<1>10. ASSUME NEW q \in Paths, Delete(q) PROVE SoleInv'
  BY <1>8, <1>10 DEF SoleInv
<1>. QED
  BY <1>1, <1>2, <1>3, <1>4, <1>5, <1>6, <1>9, <1>10 DEF Next

\* The invariant gives what is promised.
LEMMA SoleReopens == FileInv /\ SoleInv => ReopensAsWritten
<1>. SUFFICES ASSUME FileInv, SoleInv,
                     NEW h \in Handles, handles[h].doing = "idle",
                     handles[h].path \notin hurt \cup shared
              PROVE  /\ Opens(handles[h].path)
                     /\ Loaded(handles[h].path) = handles[h].entries
                     /\ LeafOf(Loaded(handles[h].path)) = handles[h].leaf
  BY DEF ReopensAsWritten
<1>. DEFINE p == handles[h].path
<1>1. p \in Paths
  BY DEF FileInv, FileShape, HandleInv
<1>2. SoundAt(p) /\ At(h, p)
  BY <1>1 DEF SoleInv, Sound, At
<1>3. Mirrors(h)
  BY <1>2 DEF SoundAt
<1>4. /\ p \in names /\ EntriesOf(files[p]) = handles[h].entries
      /\ handles[h].leaf = LeafOf(handles[h].entries)
  BY <1>3 DEF Mirrors
<1>5. Readable(files[p])
  BY <1>2, <1>4 DEF SoundAt
<1>6. Opens(p) /\ Loaded(p) = EntriesOf(files[p])
  <2>. HIDE DEF p
  <2>. QED
    BY <1>4, <1>5, OpensReads
<1>. QED
  BY <1>4, <1>6

\* Opening a session gives the entries and the leaf of the handle that wrote it,
\* moves of the leaf and forks included, unless a write failed, a writer died
\* within an append or another handle had the file open too.
THEOREM AlwaysReopensAsWritten == Spec => []ReopensAsWritten
  BY FileInit, FileStep, SoleInit, SoleStep, SoleReopens, PTL DEF Spec

=============================================================================
