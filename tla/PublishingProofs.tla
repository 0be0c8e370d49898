-------------------------- MODULE PublishingProofs --------------------------
(***************************************************************************)
(* Proofs about what is shipped: how the lines of a list are kept, what    *)
(* the tools that make the lists leave behind, and what a publication      *)
(* leaves on the release.  They hold for lists of every length, for any    *)
(* names and numbers of lists, bundles and runs.  The release job has a    *)
(* module of its own, and the last theorem is of the four together.        *)
(***************************************************************************)
EXTENDS MCPublishing, ReleaseJobProofs, FiniteSetTheorems, TLAPS

-----------------------------------------------------------------------------
(* How a list is read (Directives). *)

\* The lines up to n that open a block which is still open there, how many blocks are
\* open inside that of line j, and how often it was turned.
Openers(n) == {j \in 1..n : OpenAfter(j, n)}
Depth(j, n) == Count("if", j + 1, n) - Count("endif", j + 1, n)
Elses(j, n) == Cardinality({k \in (j + 1)..n : ElseOf(j, k)})

\* What the tool knows of a block is what the text says of it.
Tells(b, j, n) ==
  /\ b.known <=> text[j].value # "unknown"
  /\ b.discard <=> (text[j].value = "false" <=> Elses(j, n) % 2 = 0)

\* The tool has just the open blocks on its stack, the outermost first.
Stacked(n) ==
  /\ \A j \in Openers(n) : /\ Depth(j, n) \in 0..(Len(blocks) - 1)
                           /\ Tells(blocks[Len(blocks) - Depth(j, n)], j, n)
  /\ \A i \in 1..Len(blocks) : \E j \in Openers(n) : i = Len(blocks) - Depth(j, n)
StackIsRight == Stacked(Len(text))

DirectivesInv ==
  DirectivesTypeOK /\ StackIsRight /\ (discarding <=> ShouldDiscard(blocks)) /\ PrunedAsUbo

\* A line is read.
Reads(line) == text \in Seq(Lines) /\ line \in Lines /\ text' = Append(text, line)

LEMMA ReadText ==
  ASSUME NEW line, Reads(line)
  PROVE  /\ Len(text) \in Nat /\ Len(text') = Len(text) + 1
         /\ text'[Len(text) + 1] = line
         /\ \A i \in 1..Len(text) : text'[i] = text[i]
  BY DEF Reads

LEMMA NothingCounted ==
  ASSUME NEW k, NEW a \in Int, NEW b \in Int, b < a
  PROVE  Count(k, a, b) = 0 /\ Count(k, a, b)' = 0
<1>1. {i \in a..b : text[i].kind = k} = {} /\ {i \in a..b : text'[i].kind = k} = {}
  OBVIOUS
<1> QED
  BY <1>1, FS_EmptySet DEF Count

LEMMA CountStays ==
  ASSUME NEW line, Reads(line), NEW k, NEW a \in Nat \ {0}, NEW b \in 0..Len(text)
  PROVE  Count(k, a, b)' = Count(k, a, b)
<1>1. {i \in a..b : text'[i].kind = k} = {i \in a..b : text[i].kind = k}
  BY ReadText
<1> QED
  BY <1>1 DEF Count

LEMMA CountGrows ==
  ASSUME NEW line, Reads(line), NEW n, NEW p, n = Len(text), p = n + 1, NEW k, NEW a \in 1..p
  PROVE  /\ Count(k, a, p)' = IF line.kind = k THEN Count(k, a, n) + 1 ELSE Count(k, a, n)
         /\ Count(k, a, n) \in Nat /\ Count(k, a, p)' \in Nat
<1> DEFINE Old == {i \in a..n : text[i].kind = k}
           New == {i \in a..p : text'[i].kind = k}
<1>1. n \in Nat /\ a \in 1..p /\ text'[p] = line /\ \A i \in 1..n : text'[i] = text[i]
  BY ReadText
<1>2. Count(k, a, p)' = Cardinality(New) /\ Count(k, a, n) = Cardinality(Old)
  BY DEF Count
<1>3. New = IF line.kind = k THEN Old \cup {p} ELSE Old
  BY <1>1
<1>4. IsFiniteSet(Old) /\ p \notin Old
  <2>1. IsFiniteSet(a..n) /\ Old \subseteq a..n
    BY <1>1, FS_Interval
  <2>2. p \notin a..n
    BY <1>1
  <2> QED
    BY <2>1, <2>2, FS_Subset
<1> HIDE DEF Old, New
<1>5. Cardinality(New) = IF line.kind = k THEN Cardinality(Old) + 1 ELSE Cardinality(Old)
  BY <1>3, <1>4, FS_AddElement
<1>6. Cardinality(Old) \in Nat
  BY <1>4, FS_CardinalityType
<1> QED
  BY <1>2, <1>5, <1>6

\* What is behind a line that was read does not change what is so up to it.
LEMMA OpenStays ==
  ASSUME NEW line, Reads(line), NEW m \in 0..Len(text), NEW j \in 1..m
  PROVE  OpenAfter(j, m)' <=> OpenAfter(j, m)
<1>1. text'[j] = text[j] /\ j + 1 \in Nat \ {0} /\ m \in Nat
  BY ReadText
<1>2. \A k \in (j + 1)..m : k \in 0..Len(text)
  BY ReadText
<1>3. \A k \in (j + 1)..m : /\ Count("if", j + 1, k)' = Count("if", j + 1, k)
                            /\ Count("endif", j + 1, k)' = Count("endif", j + 1, k)
  BY <1>1, <1>2, CountStays
<1> QED
  BY <1>1, <1>3 DEF OpenAfter

LEMMA ElseStays ==
  ASSUME NEW line, Reads(line), NEW m \in 0..Len(text), NEW j \in 1..m, NEW k \in (j + 1)..m
  PROVE  ElseOf(j, k)' <=> ElseOf(j, k)
<1>1. text'[k] = text[k] /\ j + 1 \in Nat \ {0} /\ k \in 0..Len(text) /\ j \in 1..k
  BY ReadText
<1>2. /\ Count("if", j + 1, k)' = Count("if", j + 1, k)
      /\ Count("endif", j + 1, k)' = Count("endif", j + 1, k)
  BY <1>1, CountStays
<1>3. OpenAfter(j, k)' <=> OpenAfter(j, k)
  BY <1>1, OpenStays
<1> QED
  BY <1>1, <1>2, <1>3 DEF ElseOf

LEMMA DropStays ==
  ASSUME NEW line, Reads(line), NEW m \in 0..Len(text)
  PROVE  DroppedAfter(m)' <=> DroppedAfter(m)
<1>1. ASSUME NEW j \in 1..m
      PROVE  {k \in (j + 1)..m : ElseOf(j, k)'} = {k \in (j + 1)..m : ElseOf(j, k)}
  BY ElseStays
<1>2. \A j \in 1..m : OpenAfter(j, m)' <=> OpenAfter(j, m)
  BY OpenStays
<1>3. \A j \in 1..m : text'[j] = text[j]
  BY ReadText
<1> QED
  BY <1>1, <1>2, <1>3 DEF DroppedAfter

LEMMA DepthGrows ==
  ASSUME NEW line, Reads(line), NEW n, NEW p, n = Len(text), p = n + 1, NEW j \in 1..n
  PROVE  /\ Depth(j, n) \in Int
         /\ line.kind = "if" => Depth(j, p)' = Depth(j, n) + 1
         /\ line.kind = "endif" => Depth(j, p)' = Depth(j, n) - 1
         /\ line.kind \notin {"if", "endif"} => Depth(j, p)' = Depth(j, n)
<1>1. n \in Nat /\ j + 1 \in 1..p
  BY ReadText
<1>2. Count("if", j + 1, n) \in Nat /\ Count("endif", j + 1, n) \in Nat
  BY <1>1, CountGrows
<1>3. /\ Count("if", j + 1, p)' =
           IF line.kind = "if" THEN Count("if", j + 1, n) + 1 ELSE Count("if", j + 1, n)
      /\ Count("endif", j + 1, p)' =
           IF line.kind = "endif" THEN Count("endif", j + 1, n) + 1 ELSE Count("endif", j + 1, n)
  BY <1>1, CountGrows
<1> QED
  BY <1>2, <1>3 DEF Depth

LEMMA OpenGrows ==
  ASSUME NEW line, Reads(line), NEW n, NEW p, n = Len(text), p = n + 1, NEW j \in 1..n
  PROVE  OpenAfter(j, p)' <=> OpenAfter(j, n) /\ Depth(j, p)' >= 0
<1>1. n \in Nat /\ text'[j] = text[j]
  BY ReadText
<1>2. OpenAfter(j, n)' <=> OpenAfter(j, n)
  BY <1>1, OpenStays
<1>3. Count("if", j + 1, p)' \in Nat /\ Count("endif", j + 1, p)' \in Nat
  <2>1. j + 1 \in 1..p
    BY <1>1
  <2> QED
    BY <2>1, CountGrows
<1>4. OpenAfter(j, p)' <=> /\ OpenAfter(j, n)'
                               /\ Count("if", j + 1, p)' >= Count("endif", j + 1, p)'
  BY <1>1 DEF OpenAfter
<1> QED
  BY <1>2, <1>3, <1>4 DEF Depth

LEMMA ElsesGrow ==
  ASSUME NEW line, Reads(line), NEW n, NEW p, n = Len(text), p = n + 1, NEW j \in 1..n
  PROVE  /\ Elses(j, n) \in Nat
         /\ Elses(j, p)' = IF ElseOf(j, p)' THEN Elses(j, n) + 1 ELSE Elses(j, n)
<1> DEFINE Old == {k \in (j + 1)..n : ElseOf(j, k)}
           New == {k \in (j + 1)..p : ElseOf(j, k)'}
<1>1. n \in Nat /\ n \in 0..Len(text) /\ j \in 1..n
  BY ReadText
<1>2. \A k \in (j + 1)..n : ElseOf(j, k)' <=> ElseOf(j, k)
  BY <1>1, ElseStays
<1>3. New = IF ElseOf(j, p)' THEN Old \cup {p} ELSE Old
  BY <1>1, <1>2
<1>4. IsFiniteSet(Old) /\ p \notin Old
  <2>1. j + 1 \in Int /\ n \in Int
    BY <1>1
  <2>2. IsFiniteSet((j + 1)..n)
    BY <2>1, FS_Interval
  <2>3. Old \subseteq (j + 1)..n
    OBVIOUS
  <2>4. p \notin (j + 1)..n
    BY <1>1
  <2> QED
    BY <2>2, <2>3, <2>4, FS_Subset
<1>5. Elses(j, p)' = Cardinality(New) /\ Elses(j, n) = Cardinality(Old)
  BY DEF Elses
<1> HIDE DEF Old, New
<1>6. Cardinality(Old) \in Nat
  BY <1>4, FS_CardinalityType
<1>7. Cardinality(New) = IF ElseOf(j, p)' THEN Cardinality(Old) + 1 ELSE Cardinality(Old)
  BY <1>3, <1>4, FS_AddElement
<1> QED
  BY <1>5, <1>6, <1>7

\* A line turns the block that it is the "!#else" of: the innermost.
LEMMA TurnsInnermost ==
  ASSUME NEW line, Reads(line), NEW n, NEW p, n = Len(text), p = n + 1,
         NEW j \in Openers(n), Depth(j, n) \in Nat
  PROVE  ElseOf(j, p)' <=> line.kind = "else" /\ Depth(j, n) = 0
<1>1. n \in Nat /\ j \in 1..n /\ OpenAfter(j, n) /\ text'[p] = line
  BY ReadText DEF Openers
<1>2. CASE line.kind # "else"
  BY <1>1, <1>2 DEF ElseOf
<1>3. CASE line.kind = "else"
  <2>1. Depth(j, p)' = Depth(j, n)
    BY <1>1, <1>3, DepthGrows
  <2>2. OpenAfter(j, p)'
    BY <1>1, <2>1, OpenGrows
  <2>3. Count("if", j + 1, p)' \in Nat /\ Count("endif", j + 1, p)' \in Nat
    <3>1. j + 1 \in 1..p
      BY <1>1
    <3> QED
      BY <3>1, CountGrows
  <2>4. ElseOf(j, p)' <=>
          Count("if", j + 1, p)' = Count("endif", j + 1, p)'
    BY <1>1, <1>3, <2>2 DEF ElseOf
  <2>5. Depth(j, p)' = Count("if", j + 1, p)' - Count("endif", j + 1, p)'
    BY DEF Depth
  <2> QED
    BY <1>3, <2>1, <2>3, <2>4, <2>5
<1> QED
  BY <1>2, <1>3

-----------------------------------------------------------------------------

BlockType == [known : BOOLEAN, discard : BOOLEAN]

\* What is dropped after the last line is what the tool goes by.
LEMMA DroppedNow ==
  text \in Seq(Lines) /\ blocks \in Seq(BlockType) /\ StackIsRight =>
    (DroppedAfter(Len(text)) <=> ShouldDiscard(blocks))
<1> SUFFICES ASSUME text \in Seq(Lines), blocks \in Seq(BlockType), StackIsRight
             PROVE  DroppedAfter(Len(text)) <=> ShouldDiscard(blocks)
  OBVIOUS
<1> DEFINE n == Len(text)
           Left(j) == /\ OpenAfter(j, n) /\ text[j].value # "unknown"
                      /\ (text[j].value = "false" <=> Elses(j, n) % 2 = 0)
<1>1. DroppedAfter(n) <=> \E j \in 1..n : Left(j)
  BY DEF DroppedAfter, Elses
<1>2. ASSUME NEW j \in 1..n, Left(j) PROVE ShouldDiscard(blocks)
  <2> DEFINE i == Len(blocks) - Depth(j, n)
  <2>1. j \in Openers(n)
    BY <1>2 DEF Openers
  <2>2. Depth(j, n) \in 0..(Len(blocks) - 1) /\ Tells(blocks[i], j, n)
    BY <2>1 DEF StackIsRight, Stacked
  <2>3. i \in 1..Len(blocks)
    BY <2>2
  <2>4. Discards(blocks[i])
    BY <1>2, <2>2 DEF Tells, Discards
  <2> HIDE DEF i
  <2> QED
    BY <2>3, <2>4 DEF ShouldDiscard
<1>3. ASSUME NEW i \in 1..Len(blocks), Discards(blocks[i]) PROVE \E j \in 1..n : Left(j)
  <2>1. PICK j \in Openers(n) : i = Len(blocks) - Depth(j, n)
    BY <1>3 DEF StackIsRight, Stacked
  <2>2. Tells(blocks[i], j, n)
    BY <2>1 DEF StackIsRight, Stacked
  <2>3. Left(j)
    BY <1>3, <2>1, <2>2 DEF Tells, Discards, Openers
  <2> QED
    BY <2>1, <2>3 DEF Openers
<1>4. ShouldDiscard(blocks) <=> \E i \in 1..Len(blocks) : Discards(blocks[i])
  BY DEF ShouldDiscard
<1> HIDE DEF Left, n
<1>5. DroppedAfter(n) <=> ShouldDiscard(blocks)
  BY <1>1, <1>2, <1>3, <1>4
<1> QED
  BY <1>5 DEF n

LEMMA DroppedNext ==
  ASSUME NEW n, Len(text') = n, text' \in Seq(Lines), blocks' \in Seq(BlockType), StackIsRight'
  PROVE  DroppedAfter(n)' <=> ShouldDiscard(blocks')
<1>1. (text \in Seq(Lines) /\ blocks \in Seq(BlockType) /\ StackIsRight =>
          (DroppedAfter(Len(text)) <=> ShouldDiscard(blocks)))'
  BY DroppedNow, PTL
<1> QED
  BY <1>1

\* What the text says of a block stays as it is, or turns with its "!#else".
LEMMA TellsStay ==
  ASSUME NEW line, Reads(line), NEW n, NEW p, n = Len(text), p = n + 1,
         NEW j \in Openers(n), Depth(j, n) \in Nat,
         NEW b, Tells(b, j, n), ~(line.kind = "else" /\ Depth(j, n) = 0)
  PROVE  Tells(b, j, p)'
<1>1. j \in 1..n /\ text'[j] = text[j]
  BY ReadText DEF Openers
<1>2. Elses(j, p)' = Elses(j, n)
  BY <1>1, TurnsInnermost, ElsesGrow
<1> QED
  BY <1>1, <1>2 DEF Tells

LEMMA TellsTurn ==
  ASSUME NEW line, Reads(line), NEW n, NEW p, n = Len(text), p = n + 1,
         NEW j \in Openers(n), Depth(j, n) = 0,
         NEW b \in BlockType, Tells(b, j, n), line.kind = "else"
  PROVE  Tells([b EXCEPT !.discard = ~@], j, p)'
<1>1. j \in 1..n /\ text'[j] = text[j]
  BY ReadText DEF Openers
<1>2. Elses(j, p)' = Elses(j, n) + 1 /\ Elses(j, n) \in Nat
  BY <1>1, TurnsInnermost, ElsesGrow
<1>3. (Elses(j, n) + 1) % 2 = 0 <=> ~(Elses(j, n) % 2 = 0)
  BY <1>2
<1>4. /\ [b EXCEPT !.discard = ~@].known = b.known
      /\ [b EXCEPT !.discard = ~@].discard = ~b.discard
  BY DEF BlockType
<1> QED
  BY <1>1, <1>2, <1>3, <1>4 DEF Tells

\* A line leaves the properties as they are if the stack is right after it.
LEMMA KeepsRight ==
  ASSUME NEW line \in Lines, NEW n, NEW p, n = Len(text), p = n + 1,
         NEW now \in BOOLEAN, DirectivesInv,
         Keep(line, now), blocks' \in Seq(BlockType), Stacked(p)',
         now <=> ShouldDiscard(blocks')
  PROVE  DirectivesInv'
<1>1. Reads(line) /\ text' \in Seq(Lines)
  BY DEF DirectivesInv, DirectivesTypeOK, Keep, Reads
<1>2. n \in Nat /\ Len(text') = p /\ DOMAIN text = 1..n /\ DOMAIN text' = 1..p
  BY <1>1, ReadText DEF Reads
<1>3. /\ keptLines' \in Seq(BOOLEAN) /\ Len(keptLines') = p
      /\ keptLines'[p] = (~discarding /\ ~now)
      /\ \A i \in 1..n : keptLines'[i] = keptLines[i]
  BY <1>2 DEF DirectivesInv, DirectivesTypeOK, Keep
<1>4. discarding' = now
  BY DEF Keep
<1>5. DirectivesTypeOK'
  BY <1>1, <1>2, <1>3, <1>4 DEF DirectivesTypeOK, BlockType
<1>6. StackIsRight'
  BY <1>2 DEF StackIsRight
<1>7. DroppedAfter(n)' <=> discarding
  <2>1. DroppedAfter(n) <=> ShouldDiscard(blocks)
    BY DroppedNow DEF DirectivesInv, DirectivesTypeOK, BlockType
  <2>2. n \in 0..Len(text)
    BY <1>2
  <2>3. DroppedAfter(n)' <=> DroppedAfter(n)
    BY <1>1, <2>2, DropStays
  <2> QED
    BY <2>1, <2>3 DEF DirectivesInv
<1>8. DroppedAfter(p)' <=> now
  BY <1>1, <1>2, <1>6, DroppedNext
<1>9. PrunedAsUbo'
  <2>1. SUFFICES ASSUME NEW i \in 1..p
                 PROVE  keptLines'[i] = (~DroppedAfter(i - 1)' /\ ~DroppedAfter(i)')
    BY <1>1, <1>2 DEF PrunedAsUbo
  <2>2. CASE i = p
    BY <1>2, <1>3, <1>7, <1>8, <2>2
  <2>3. CASE i \in 1..n
    <3>1. i - 1 \in 0..Len(text) /\ i \in 0..Len(text) /\ i \in 1..Len(text)
      BY <1>2, <2>3
    <3>2. (DroppedAfter(i)' <=> DroppedAfter(i)) /\ (DroppedAfter(i - 1)' <=> DroppedAfter(i - 1))
      BY <1>1, <3>1, DropStays
    <3>3. keptLines[i] = (~DroppedAfter(i - 1) /\ ~DroppedAfter(i))
      BY <1>2, <2>3 DEF DirectivesInv, PrunedAsUbo
    <3> QED
      BY <1>3, <2>3, <3>2, <3>3
  <2> QED
    BY <1>2, <2>2, <2>3
<1> QED
  BY <1>4, <1>5, <1>6, <1>9 DEF DirectivesInv

-----------------------------------------------------------------------------
(* The lines, kind by kind. *)

\* The stack after a line that was read.
Follows(n, m) ==
  /\ \A j \in Openers(n)' : \E d \in 0..(m - 1) : \E b :
       d = Depth(j, n)' /\ b = blocks'[m - d] /\ Tells(b, j, n)'
  /\ \A i \in 1..m : \E j \in Openers(n)' : i = m - Depth(j, n)'

LEMMA StacksUp ==
  ASSUME NEW n, NEW m \in Nat, Len(blocks') = m, Follows(n, m)
  PROVE  Stacked(n)'
<1>1. ASSUME NEW j \in Openers(n)'
      PROVE  (/\ Depth(j, n) \in 0..(Len(blocks) - 1)
              /\ Tells(blocks[Len(blocks) - Depth(j, n)], j, n))'
  <2>1. PICK d, b : /\ d \in 0..(m - 1) /\ d = Depth(j, n)'
                   /\ b = blocks'[m - d] /\ Tells(b, j, n)'
    BY <1>1 DEF Follows
  <2> QED
    BY <2>1 DEF Tells
<1> QED
  BY <1>1 DEF Stacked, Follows

LEMMA IfKeeps == ASSUME NEW v \in Values, DirectivesInv, ReadIf(v) PROVE DirectivesInv'
<1> DEFINE b == [known |-> v # "unknown", discard |-> v = "false"]
           line == If(v)
<1>1. PICK n, p : n = Len(text) /\ p = n + 1
  OBVIOUS
<1>2. PICK m, q : m = Len(blocks) /\ q = m + 1
  OBVIOUS
<1>3. /\ blocks' = Append(blocks, b) /\ Keep(line, discarding \/ Discards(b))
      /\ blocks \in Seq(BlockType) /\ b \in BlockType /\ line \in Lines
      /\ line.kind = "if" /\ line.value = v
  BY DEF ReadIf, DirectivesInv, DirectivesTypeOK, BlockType, Lines, If
<1>4. Reads(line)
  BY <1>3 DEF DirectivesInv, DirectivesTypeOK, Keep, Reads
<1>5. /\ n \in Nat /\ p = n + 1 /\ text'[p] = line /\ \A i \in 1..n : text'[i] = text[i]
      /\ m \in Nat /\ q = m + 1 /\ blocks' \in Seq(BlockType) /\ Len(blocks') = q
      /\ blocks'[q] = b /\ \A i \in 1..m : blocks'[i] = blocks[i]
  BY <1>1, <1>2, <1>3, <1>4, ReadText
<1>6. Stacked(n)
  BY <1>1 DEF DirectivesInv, StackIsRight
<1> HIDE DEF b, line
\* The block that this line opens.
<1>7. p \in Openers(p)' /\ Depth(p, p)' = 0 /\ Tells(b, p, p)'
  <2>1. OpenAfter(p, p)'
    BY <1>3, <1>5 DEF OpenAfter
  <2>2. Depth(p, p)' = 0
    BY <1>5, NothingCounted DEF Depth
  <2>3. Elses(p, p)' = 0
    <3>1. {k \in (p + 1)..p : ElseOf(p, k)'} = {}
      BY <1>5
    <3> QED
      BY <3>1, FS_EmptySet DEF Elses
  <2>4. Elses(p, p)' % 2 = 0
    BY <2>3
  <2>5. (b.known <=> v # "unknown") /\ (b.discard <=> v = "false") /\ text'[p].value = v
    BY <1>3, <1>5 DEF b
  <2>6. Tells(b, p, p)'
    BY <2>4, <2>5 DEF Tells
  <2>7. p \in Openers(p)'
    BY <1>5, <2>1 DEF Openers
  <2> QED
    BY <2>2, <2>6, <2>7
\* The blocks around it.
<1>8. ASSUME NEW j \in 1..n
      PROVE  /\ j \in Openers(p)' <=> j \in Openers(n)
             /\ j \in Openers(n) => /\ Depth(j, p)' = Depth(j, n) + 1
                                    /\ Depth(j, n) \in 0..(m - 1)
                                    /\ \A c : c = blocks[m - Depth(j, n)] => Tells(c, j, p)'
  <2>1. Depth(j, p)' = Depth(j, n) + 1 /\ Depth(j, n) \in Int
    BY <1>1, <1>3, <1>4, DepthGrows
  <2>2. j \in Openers(n) => /\ Depth(j, n) \in 0..(m - 1)
                            /\ Tells(blocks[m - Depth(j, n)], j, n)
    BY <1>2, <1>6 DEF Stacked
  <2>3. j \in Openers(p)' <=> j \in Openers(n)
    <3>1. OpenAfter(j, p)' <=> OpenAfter(j, n) /\ Depth(j, p)' >= 0
      BY <1>1, <1>4, OpenGrows
    <3>2. OpenAfter(j, n) => Depth(j, n) >= 0
      BY <1>5, <2>2 DEF Openers
    <3> QED
      BY <1>5, <2>1, <3>1, <3>2 DEF Openers
  <2>4. ASSUME j \in Openers(n), NEW c, c = blocks[m - Depth(j, n)] PROVE Tells(c, j, p)'
    <3>1. Depth(j, n) \in Nat /\ Tells(c, j, n)
      BY <1>5, <2>2, <2>4
    <3> QED
      BY <1>1, <1>3, <1>4, <2>4, <3>1, TellsStay
  <2> QED
    BY <2>1, <2>2, <2>3, <2>4
<1>9. \A j \in Openers(p)' : j \in Openers(n) \/ j = p
  BY <1>5, <1>8 DEF Openers
<1>10. \A j \in Openers(n) : j \in 1..n
  BY DEF Openers
<1>11. Stacked(p)'
  <2>1. ASSUME NEW j \in Openers(p)'
        PROVE  \E d \in 0..(q - 1) : \E c : /\ d = Depth(j, p)' /\ c = blocks'[q - d]
                                    /\ Tells(c, j, p)'
    <3>1. CASE j = p
      <4>1. q - 0 = q /\ 0 \in 0..(q - 1)
        BY <1>5
      <4>2. PICK c : c = b
        OBVIOUS
      <4>3. Tells(c, p, p)'
        BY <1>7, <4>2 DEF Tells
      <4> QED
        BY <1>5, <1>7, <3>1, <4>1, <4>2, <4>3
    <3>2. CASE j \in Openers(n)
      <4>1. PICK d \in 0..(m - 1) : d = Depth(j, n)
        BY <1>8, <1>10, <3>2
      <4>2. PICK c : c = blocks[m - d]
        OBVIOUS
      <4>3. Depth(j, p)' = d + 1 /\ Tells(c, j, p)'
        BY <1>8, <1>10, <3>2, <4>1, <4>2
      <4>4. q - (d + 1) = m - d /\ m - d \in 1..m
        BY <1>5, <4>1
      <4>5. blocks'[q - (d + 1)] = c
        BY <1>5, <4>2, <4>4
      <4>6. d + 1 \in 0..(q - 1)
        BY <1>5, <4>1
      <4> QED
        BY <4>3, <4>5, <4>6
    <3> QED
      BY <1>9, <2>1, <3>1, <3>2
  <2>2. ASSUME NEW i \in 1..q
        PROVE  \E j \in Openers(p)' : i = q - Depth(j, p)'
    <3>1. CASE i = q
      BY <1>5, <1>7, <3>1
    <3>2. CASE i \in 1..m
      <4>1. PICK j \in Openers(n) : i = m - Depth(j, n)
        BY <1>2, <1>6, <3>2 DEF Stacked
      <4>2. j \in Openers(p)' /\ Depth(j, p)' = Depth(j, n) + 1 /\ Depth(j, n) \in 0..(m - 1)
        BY <1>8, <1>10, <4>1
      <4>3. i = q - Depth(j, p)'
        BY <1>5, <4>1, <4>2
      <4> QED
        BY <4>2, <4>3
    <3> QED
      BY <1>5, <3>1, <3>2
  <2>3. Follows(p, q)
    BY <2>1, <2>2, Zenon DEF Follows
  <2> QED
    BY <1>5, <2>3, StacksUp
<1>12. discarding \/ Discards(b) <=> ShouldDiscard(blocks')
  <2>1. discarding <=> \E i \in 1..m : Discards(blocks[i])
    BY <1>2, <1>3 DEF DirectivesInv, ShouldDiscard
  <2>2. ShouldDiscard(blocks') <=> \E i \in 1..q : Discards(blocks'[i])
    BY <1>5 DEF ShouldDiscard
  <2> QED
    BY <1>5, <2>1, <2>2
<1>13. (discarding \/ Discards(b)) \in BOOLEAN
  BY DEF Discards
<1> QED
  BY <1>1, <1>3, <1>5, <1>11, <1>12, <1>13, KeepsRight

\* Of the other lines none opens a block, and those around stay if they are deep enough.
LEMMA OpensNone ==
  ASSUME NEW line, Reads(line), NEW n, NEW p, n = Len(text), p = n + 1, line.kind # "if",
         Stacked(n), NEW j \in Openers(p)'
  PROVE  j \in Openers(n) /\ j \in 1..n /\ Depth(j, p)' >= 0
<1>1. n \in Nat /\ text'[p] = line
  BY ReadText
<1>2. j \in 1..p /\ OpenAfter(j, p)'
  BY DEF Openers
<1>3. j # p
  BY <1>1, <1>2 DEF OpenAfter
<1>4. j \in 1..n
  BY <1>1, <1>2, <1>3
<1> QED
  BY <1>2, <1>4, OpenGrows DEF Openers

LEMMA StaysOpen ==
  ASSUME NEW line, Reads(line), NEW n, NEW p, n = Len(text), p = n + 1,
         NEW j \in Openers(n), Depth(j, p)' >= 0
  PROVE  j \in Openers(p)'
<1>1. n \in Nat /\ j \in 1..n /\ OpenAfter(j, n)
  BY ReadText DEF Openers
<1>2. OpenAfter(j, p)'
  BY <1>1, OpenGrows
<1> QED
  BY <1>1, <1>2 DEF Openers

LEMMA EndifKeeps == ASSUME DirectivesInv, ReadEndif PROVE DirectivesInv'
<1> DEFINE line == Plain("endif")
<1>1. PICK n, p : n = Len(text) /\ p = n + 1
  OBVIOUS
<1>2. PICK m, q : m = Len(blocks) /\ q = m - 1
  OBVIOUS
<1>3. /\ blocks # <<>> /\ blocks' = Outer /\ Keep(line, discarding /\ ShouldDiscard(Outer))
      /\ blocks \in Seq(BlockType) /\ line \in Lines /\ line.kind = "endif"
  BY DEF ReadEndif, DirectivesInv, DirectivesTypeOK, BlockType, Lines, Plain
<1>4. Reads(line) /\ line.kind = "endif" /\ line \in Lines
  BY <1>3 DEF DirectivesInv, DirectivesTypeOK, Keep, Reads
<1>5. /\ n \in Nat /\ p = n + 1 /\ m \in Nat /\ m # 0 /\ q = m - 1 /\ q \in Nat
      /\ blocks' \in Seq(BlockType) /\ Len(blocks') = q
      /\ \A i \in 1..q : blocks'[i] = blocks[i]
  BY <1>1, <1>2, <1>3, <1>4, ReadText DEF Outer
<1>6. Stacked(n)
  BY <1>1 DEF DirectivesInv, StackIsRight
<1> HIDE DEF line
<1>7. ASSUME NEW j \in Openers(n)
      PROVE  /\ Depth(j, p)' = Depth(j, n) - 1 /\ Depth(j, n) \in 0..(m - 1)
             /\ \A c : c = blocks[m - Depth(j, n)] => Tells(c, j, p)'
  <2>1. j \in 1..n
    BY DEF Openers
  <2>2. Depth(j, p)' = Depth(j, n) - 1
    BY <1>1, <1>4, <2>1, DepthGrows
  <2>3. Depth(j, n) \in 0..(m - 1) /\ Tells(blocks[m - Depth(j, n)], j, n)
    BY <1>2, <1>6 DEF Stacked
  <2>4. ASSUME NEW c, c = blocks[m - Depth(j, n)] PROVE Tells(c, j, p)'
    BY <1>1, <1>4, <1>5, <2>3, <2>4, TellsStay
  <2> QED
    BY <2>2, <2>3, <2>4
<1>8. Stacked(p)'
  <2>1. ASSUME NEW j \in Openers(p)'
        PROVE  \E d \in 0..(q - 1) : \E c : /\ d = Depth(j, p)' /\ c = blocks'[q - d]
                                            /\ Tells(c, j, p)'
    <3>1. j \in Openers(n) /\ Depth(j, p)' >= 0
      BY <1>1, <1>4, <1>6, <2>1, OpensNone
    <3>2. PICK d \in 0..(m - 1) : d = Depth(j, n)
      BY <1>7, <3>1
    <3>3. PICK c : c = blocks[m - d]
      OBVIOUS
    <3>4. Depth(j, p)' = d - 1 /\ Tells(c, j, p)'
      BY <1>7, <3>1, <3>2, <3>3
    <3>5. d - 1 \in 0..(q - 1) /\ q - (d - 1) = m - d /\ m - d \in 1..q
      BY <1>5, <3>1, <3>2, <3>4
    <3>6. blocks'[q - (d - 1)] = c
      BY <1>5, <3>3, <3>5
    <3> QED
      BY <3>4, <3>5, <3>6
  <2>2. ASSUME NEW i \in 1..q
        PROVE  \E j \in Openers(p)' : i = q - Depth(j, p)'
    <3>0. i \in 1..m
      BY <1>5
    <3>1. PICK j \in Openers(n) : i = m - Depth(j, n)
      BY <1>2, <1>6, <3>0 DEF Stacked
    <3>2. Depth(j, p)' = Depth(j, n) - 1 /\ Depth(j, n) \in 0..(m - 1)
      BY <1>7, <3>1
    <3>3. Depth(j, p)' >= 0 /\ i = q - Depth(j, p)'
      BY <1>5, <3>1, <3>2
    <3>4. j \in Openers(p)'
      BY <1>1, <1>4, <3>3, StaysOpen
    <3> QED
      BY <3>3, <3>4
  <2>3. Follows(p, q)
    BY <2>1, <2>2, Zenon DEF Follows
  <2> QED
    BY <1>5, <2>3, StacksUp
<1>9. discarding /\ ShouldDiscard(Outer) <=> ShouldDiscard(blocks')
  <2>1. discarding <=> \E i \in 1..m : Discards(blocks[i])
    BY <1>2, <1>3 DEF DirectivesInv, ShouldDiscard
  <2>2. ShouldDiscard(blocks') <=> \E i \in 1..q : Discards(blocks'[i])
    BY <1>5 DEF ShouldDiscard
  <2>3. ShouldDiscard(Outer) <=> ShouldDiscard(blocks')
    BY <1>3
  <2> QED
    BY <1>5, <2>1, <2>2, <2>3
<1>10. (discarding /\ ShouldDiscard(Outer)) \in BOOLEAN
  BY DEF ShouldDiscard
<1> QED
  BY <1>1, <1>3, <1>5, <1>8, <1>9, <1>10, KeepsRight

LEMMA ElseKeeps == ASSUME DirectivesInv, ReadElse PROVE DirectivesInv'
<1> DEFINE line == Plain("else")
<1>1. PICK n, p : n = Len(text) /\ p = n + 1
  OBVIOUS
<1>2. PICK m, b : m = Len(blocks) /\ b = blocks[Len(blocks)]
  OBVIOUS
<1>3. /\ blocks # <<>> /\ blocks' = Append(Outer, Flipped)
      /\ Keep(line, (discarding /\ ShouldDiscard(Outer)) \/ Discards(Flipped))
      /\ blocks \in Seq(BlockType) /\ line \in Lines /\ line.kind = "else"
  BY DEF ReadElse, DirectivesInv, DirectivesTypeOK, BlockType, Lines, Plain
<1>4. Reads(line) /\ line.kind = "else" /\ line \in Lines
  BY <1>3 DEF DirectivesInv, DirectivesTypeOK, Keep, Reads
<1>5. /\ n \in Nat /\ p = n + 1 /\ m \in Nat /\ m # 0
      /\ b = blocks[m] /\ b \in BlockType /\ Flipped = [b EXCEPT !.discard = ~@]
  BY <1>1, <1>2, <1>3, <1>4, ReadText DEF Flipped
<1>6. /\ Outer \in Seq(BlockType) /\ Len(Outer) = m - 1
      /\ \A i \in 1..(m - 1) : Outer[i] = blocks[i]
  BY <1>2, <1>3, <1>5 DEF Outer
<1>7. /\ blocks' \in Seq(BlockType) /\ Len(blocks') = m
      /\ blocks'[m] = Flipped /\ \A i \in 1..(m - 1) : blocks'[i] = blocks[i]
  <2>1. Flipped \in BlockType
    BY <1>5 DEF BlockType
  <2> QED
    BY <1>3, <1>5, <1>6, <2>1
<1>8. Stacked(n)
  BY <1>1 DEF DirectivesInv, StackIsRight
<1> HIDE DEF line
<1>9. ASSUME NEW j \in Openers(n)
      PROVE  /\ Depth(j, p)' = Depth(j, n) /\ Depth(j, n) \in 0..(m - 1)
             /\ \A c : c = blocks'[m - Depth(j, n)] => Tells(c, j, p)'
  <2>1. j \in 1..n
    BY DEF Openers
  <2>2. Depth(j, p)' = Depth(j, n)
    BY <1>1, <1>4, <2>1, DepthGrows
  <2>3. Depth(j, n) \in 0..(m - 1) /\ Tells(blocks[m - Depth(j, n)], j, n)
    BY <1>2, <1>8 DEF Stacked
  <2>4. ASSUME NEW c, c = blocks'[m - Depth(j, n)] PROVE Tells(c, j, p)'
    <3>1. CASE Depth(j, n) = 0
      <4>1. Tells(b, j, n) /\ c = [b EXCEPT !.discard = ~@]
        BY <1>5, <1>7, <2>3, <2>4, <3>1
      <4>2. PICK f : f = [b EXCEPT !.discard = ~@]
        OBVIOUS
      <4>3. Tells([b EXCEPT !.discard = ~@], j, p)'
        BY <1>1, <1>4, <1>5, <3>1, <4>1, TellsTurn
      <4> QED
        BY <4>1, <4>3
    <3>2. CASE Depth(j, n) # 0
      <4>1. m - Depth(j, n) \in 1..(m - 1) /\ Depth(j, n) \in Nat
        BY <1>5, <2>3, <3>2
      <4>2. c = blocks[m - Depth(j, n)]
        BY <1>7, <2>4, <4>1
      <4>3. Tells(c, j, n)
        BY <2>3, <4>2
      <4> QED
        BY <1>1, <1>4, <3>2, <4>1, <4>3, TellsStay
    <3> QED
      BY <3>1, <3>2
  <2> QED
    BY <2>2, <2>3, <2>4
<1>10. Stacked(p)'
  <2>1. ASSUME NEW j \in Openers(p)'
        PROVE  \E d \in 0..(m - 1) : \E c : /\ d = Depth(j, p)' /\ c = blocks'[m - d]
                                            /\ Tells(c, j, p)'
    <3>1. j \in Openers(n)
      BY <1>1, <1>4, <1>8, <2>1, OpensNone
    <3>2. PICK d \in 0..(m - 1) : d = Depth(j, n)
      BY <1>9, <3>1
    <3>3. PICK c : c = blocks'[m - d]
      OBVIOUS
    <3>4. Depth(j, p)' = d /\ Tells(c, j, p)'
      BY <1>9, <3>1, <3>2, <3>3
    <3> QED
      BY <3>3, <3>4
  <2>2. ASSUME NEW i \in 1..m
        PROVE  \E j \in Openers(p)' : i = m - Depth(j, p)'
    <3>1. PICK j \in Openers(n) : i = m - Depth(j, n)
      BY <1>2, <1>8 DEF Stacked
    <3>2. Depth(j, p)' = Depth(j, n) /\ Depth(j, p)' >= 0
      BY <1>9, <3>1
    <3>3. j \in Openers(p)'
      BY <1>1, <1>4, <3>2, StaysOpen
    <3> QED
      BY <3>1, <3>2, <3>3
  <2>3. Follows(p, m)
    BY <2>1, <2>2, Zenon DEF Follows
  <2> QED
    BY <1>5, <1>7, <2>3, StacksUp
<1>11. (discarding /\ ShouldDiscard(Outer)) \/ Discards(Flipped) <=> ShouldDiscard(blocks')
  <2>1. discarding <=> \E i \in 1..m : Discards(blocks[i])
    BY <1>2, <1>3 DEF DirectivesInv, ShouldDiscard
  <2>2. ShouldDiscard(blocks') <=> \E i \in 1..m : Discards(blocks'[i])
    BY <1>7 DEF ShouldDiscard
  <2>3. ShouldDiscard(Outer) <=> \E i \in 1..(m - 1) : Discards(blocks[i])
    BY <1>6 DEF ShouldDiscard
  <2> QED
    BY <1>5, <1>7, <2>1, <2>2, <2>3
<1>12. ((discarding /\ ShouldDiscard(Outer)) \/ Discards(Flipped)) \in BOOLEAN
  BY DEF ShouldDiscard
<1> QED
  BY <1>1, <1>3, <1>4, <1>7, <1>10, <1>11, <1>12, KeepsRight

\* A rule changes nothing around it, and neither does a directive outside all blocks.
LEMMA PlainKeeps ==
  ASSUME NEW k \in {"rule", "else", "endif"}, DirectivesInv, ReadPlain(k) PROVE DirectivesInv'
<1> DEFINE line == Plain(k)
<1>1. PICK n, p : n = Len(text) /\ p = n + 1
  OBVIOUS
<1>2. PICK m : m = Len(blocks)
  OBVIOUS
<1>3. /\ blocks' = blocks /\ Keep(line, discarding)
      /\ blocks \in Seq(BlockType) /\ line \in Lines /\ line.kind = k
  BY DEF ReadPlain, DirectivesInv, DirectivesTypeOK, BlockType, Lines, Plain
<1>4. Reads(line) /\ line.kind = k /\ line \in Lines
  BY <1>3 DEF DirectivesInv, DirectivesTypeOK, Keep, Reads
<1>5. n \in Nat /\ p = n + 1 /\ m \in Nat /\ Len(blocks') = m
  BY <1>1, <1>2, <1>3, <1>4, ReadText
<1>6. Stacked(n)
  BY <1>1 DEF DirectivesInv, StackIsRight
<1> HIDE DEF line
<1>7. ASSUME NEW j \in Openers(n)
      PROVE  /\ Depth(j, p)' = Depth(j, n) /\ Depth(j, n) \in 0..(m - 1)
             /\ \A c : c = blocks'[m - Depth(j, n)] => Tells(c, j, p)'
  <2>1. j \in 1..n
    BY DEF Openers
  <2>2. Depth(j, n) \in 0..(m - 1) /\ Tells(blocks[m - Depth(j, n)], j, n)
    BY <1>2, <1>6 DEF Stacked
  <2>3. k = "rule"
    <3>1. m # 0
      BY <1>5, <2>2
    <3> QED
      BY <1>2, <3>1 DEF ReadPlain
  <2>4. Depth(j, p)' = Depth(j, n)
    BY <1>1, <1>4, <2>1, <2>3, DepthGrows
  <2>5. ASSUME NEW c, c = blocks'[m - Depth(j, n)] PROVE Tells(c, j, p)'
    <3>1. Tells(c, j, n) /\ Depth(j, n) \in Nat
      BY <1>3, <1>5, <2>2, <2>5
    <3> QED
      BY <1>1, <1>4, <2>3, <3>1, TellsStay
  <2> QED
    BY <2>2, <2>4, <2>5
<1>8. Stacked(p)'
  <2>1. ASSUME NEW j \in Openers(p)'
        PROVE  \E d \in 0..(m - 1) : \E c : /\ d = Depth(j, p)' /\ c = blocks'[m - d]
                                            /\ Tells(c, j, p)'
    <3>1. j \in Openers(n)
      BY <1>1, <1>4, <1>6, <2>1, OpensNone
    <3>2. PICK d \in 0..(m - 1) : d = Depth(j, n)
      BY <1>7, <3>1
    <3>3. PICK c : c = blocks'[m - d]
      OBVIOUS
    <3>4. Depth(j, p)' = d /\ Tells(c, j, p)'
      BY <1>7, <3>1, <3>2, <3>3
    <3> QED
      BY <3>3, <3>4
  <2>2. ASSUME NEW i \in 1..m
        PROVE  \E j \in Openers(p)' : i = m - Depth(j, p)'
    <3>1. PICK j \in Openers(n) : i = m - Depth(j, n)
      BY <1>2, <1>6 DEF Stacked
    <3>2. Depth(j, p)' = Depth(j, n) /\ Depth(j, p)' >= 0
      BY <1>7, <3>1
    <3>3. j \in Openers(p)'
      BY <1>1, <1>4, <3>2, StaysOpen
    <3> QED
      BY <3>1, <3>2, <3>3
  <2>3. Follows(p, m)
    BY <2>1, <2>2, Zenon DEF Follows
  <2> QED
    BY <1>5, <2>3, StacksUp
<1>9. discarding <=> ShouldDiscard(blocks')
  BY <1>3 DEF DirectivesInv
<1>10. discarding \in BOOLEAN
  BY DEF DirectivesInv, DirectivesTypeOK
<1> QED
  BY <1>1, <1>3, <1>4, <1>8, <1>9, <1>10, KeepsRight

LEMMA DirectivesInvInit == DirectivesInit => DirectivesInv
<1> SUFFICES ASSUME DirectivesInit PROVE DirectivesInv
  OBVIOUS
<1>1. text = <<>> /\ blocks = <<>> /\ keptLines = <<>> /\ discarding = FALSE
  BY DEF DirectivesInit
<1>2. Len(text) = 0 /\ Len(blocks) = 0 /\ DOMAIN text = {} /\ DOMAIN blocks = {}
  BY <1>1
<1>3. DirectivesTypeOK
  <2>1. discarding \in BOOLEAN
    BY <1>1
  <2> QED
    BY <1>1, <1>2, <2>1 DEF DirectivesTypeOK
<1>4. Openers(0) = {}
  BY DEF Openers
<1>5. StackIsRight
  BY <1>2, <1>4 DEF StackIsRight, Stacked
<1>6. ~ShouldDiscard(blocks) /\ PrunedAsUbo
  BY <1>2 DEF ShouldDiscard, PrunedAsUbo
<1> QED
  BY <1>1, <1>3, <1>5, <1>6 DEF DirectivesInv

LEMMA DirectivesInvNext == DirectivesInv /\ [DirectivesNext]_directiveVars => DirectivesInv'
<1> SUFFICES ASSUME DirectivesInv, [DirectivesNext]_directiveVars PROVE DirectivesInv'
  OBVIOUS
<1>1. CASE UNCHANGED directiveVars
  <2>1. text' = text /\ blocks' = blocks /\ discarding' = discarding /\ keptLines' = keptLines
    BY <1>1 DEF directiveVars
  <2>2. \A k, a, b : Count(k, a, b)' = Count(k, a, b)
    BY <2>1 DEF Count
  <2>3. \A j, n : OpenAfter(j, n)' <=> OpenAfter(j, n)
    BY <2>1, <2>2 DEF OpenAfter
  <2>4. \A j, k : ElseOf(j, k)' <=> ElseOf(j, k)
    BY <2>1, <2>2, <2>3 DEF ElseOf
  <2>5. \A j, n : Elses(j, n)' = Elses(j, n)
    BY <2>4 DEF Elses
  <2>6. \A n : DroppedAfter(n)' <=> DroppedAfter(n)
    <3>1. ASSUME NEW n
          PROVE  DroppedAfter(n) <=>
                   \E j \in 1..n : /\ OpenAfter(j, n) /\ text[j].value # "unknown"
                                   /\ (text[j].value = "false") = (Elses(j, n) % 2 = 0)
      BY DEF DroppedAfter, Elses
    <3>2. ASSUME NEW n
          PROVE  DroppedAfter(n)' <=>
                   \E j \in 1..n : /\ OpenAfter(j, n)' /\ text'[j].value # "unknown"
                                   /\ (text'[j].value = "false") = (Elses(j, n)' % 2 = 0)
      BY DEF DroppedAfter, Elses
    <3> QED
      BY <2>1, <2>3, <2>5, <3>1, <3>2
  <2>7. StackIsRight'
    <3>1. PICK n : n = Len(text)
      OBVIOUS
    <3>2. Stacked(n)
      BY <3>1 DEF DirectivesInv, StackIsRight
    <3>3. Openers(n)' = Openers(n)
      BY <2>3 DEF Openers
    <3>4. \A j : Depth(j, n)' = Depth(j, n)
      BY <2>2 DEF Depth
    <3>5. \A b, j : Tells(b, j, n)' <=> Tells(b, j, n)
      BY <2>1, <2>5 DEF Tells
    <3>6. Stacked(n)'
      BY <2>1, <3>2, <3>3, <3>4, <3>5 DEF Stacked
    <3> QED
      BY <2>1, <3>1, <3>6 DEF StackIsRight
  <2>8. PrunedAsUbo'
    BY <2>1, <2>6 DEF DirectivesInv, PrunedAsUbo
  <2> QED
    BY <2>1, <2>7, <2>8 DEF DirectivesInv, DirectivesTypeOK, ShouldDiscard
<1> QED
  BY <1>1, IfKeeps, ElseKeeps, EndifKeeps, PlainKeeps DEF DirectivesNext

\* However long a list is and however deep its blocks lie in each other, the tool keeps
\* just the lines that apply.
THEOREM ListsArePrunedAsUbo == DirectivesSpec => []PrunedAsUbo
<1>1. DirectivesInv => PrunedAsUbo
  BY DEF DirectivesInv
<1> QED
  BY <1>1, DirectivesInvInit, DirectivesInvNext, PTL DEF DirectivesSpec

\* The lines, the blocks and the line in hand keep their types, for lists of every length.
THEOREM DirectivesTypeCorrect == DirectivesSpec => []DirectivesTypeOK
<1>1. DirectivesInv => DirectivesTypeOK
  BY DEF DirectivesInv
<1> QED
  BY <1>1, DirectivesInvInit, DirectivesInvNext, PTL DEF DirectivesSpec

-----------------------------------------------------------------------------
(* How the lists are written (ListFeeds). *)

Tasks == {"idle", "easylist", "fetch", "lists", "remove", "sources", "write"}
ToolType ==
  [at : Tasks, name : {"none", "full", "noregional", "scamlist", "resources"},
   todo : SUBSET (Whole \cup Regional), built : SUBSET (Whole \cup Regional),
   regional : SUBSET Regional, lists : [Described -> Contents], failed : BOOLEAN]

\* Type correctness, with what the tool in hand is.
FeedsTyped ==
  /\ FeedsTypeOK
  /\ tool \in ToolType
  /\ tool.at # "idle" => feedRuns # 0
  /\ tool.at = "write" <=> tool.name \in {"scamlist", "resources"}
  /\ tool.todo \subseteq tool.built
  /\ tool.at # "lists" => tool.todo = {}

\* A list has the bytes that it is said to have, and its notice.
Good(l, said) == file[l] \in 1..MaxFeedRuns /\ notice[l] = file[l] /\ said[l] = file[l]
GoodEasylist(said) == file["easylist"] \in 1..MaxFeedRuns /\ said["easylist"] = file["easylist"]

\* What a run of get_filterlists.py with all its lists has written so far, if nothing
\* failed: it writes all it has built, and removes what it has not.
RunIsRight ==
  tool.name = "full" /\ ~tool.failed =>
    /\ tool.at \notin {"idle", "easylist"} => GoodEasylist(tool.lists)
    /\ tool.at \in {"lists", "remove", "sources"} =>
         /\ tool.built = Whole \cup tool.regional
         /\ \A l \in tool.built \ tool.todo : Good(l, tool.lists)
    /\ tool.at \in {"remove", "sources"} => \A r \in Lingering : file[r] = NoFile
    /\ tool.at = "sources" =>
         (\A r \in Lingering : notice[r] = NoFile) /\ index = Regional \cap tool.built

\* What it leaves, and what the two other tools add to that.
FilterListsRight ==
  /\ sources # Cut /\ GoodEasylist(sources)
  /\ \A l \in Whole : Good(l, sources)
  /\ \A r \in Regional : IF r \in index THEN Good(r, sources)
                         ELSE file[r] = NoFile /\ notice[r] = NoFile
  /\ index \in SUBSET Regional
ScamListRight == file["scamlist"] \in 1..MaxFeedRuns /\ notice["scamlist"] = file["scamlist"]

\* No tool but the two that follow runs over what a release has so far.
FreshIsRight ==
  /\ tool.at \notin {"idle", "write"} => fresh = 0
  /\ fresh >= 1 => FilterListsRight
  /\ fresh >= 2 => ScamListRight
  /\ fresh = 3 => Good("resources", sources)

FeedsInv == FeedsTyped /\ RunIsRight /\ FreshIsRight

LEMMA Names ==
  /\ Whole \cup Regional \subseteq Described \cap Noticed
  /\ "easylist" \in Described /\ "resources" \in Described \cap Noticed
  /\ "scamlist" \in Noticed /\ Described \subseteq FeedFiles /\ Noticed \subseteq FeedFiles
  /\ \A l \in Whole \cup Regional : l # "easylist" /\ l # "scamlist" /\ l # "resources"
  BY FeedsAssumption DEF Described, Noticed, FeedFiles, FilterLists

LEMMA MineIsContent ==
  ASSUME FeedsTyped, feedRuns # 0
  PROVE  Mine \in 1..MaxFeedRuns /\ Mine \in Contents
  BY FeedsAssumption DEF FeedsTyped, FeedsTypeOK, Mine, Contents

LEMMA SourcesReadTyped == ASSUME FeedsTyped PROVE SourcesRead \in [Described -> Contents]
  BY DEF FeedsTyped, FeedsTypeOK, SourcesRead, NothingSaid, Contents

LEMMA IdleTyped ==
  /\ Idle \in ToolType
  /\ Idle.at = "idle" /\ Idle.name = "none" /\ Idle.todo = {} /\ Idle.built = {}
<1>1. NothingSaid \in [Described -> Contents]
  BY DEF NothingSaid, Contents
<1> QED
  BY <1>1 DEF Idle, ToolType, Tasks

\* What is done once a tool has ended.
LEMMA StopsTyped ==
  ASSUME FeedsTyped, tool' = Idle, fresh' \in 0..3,
         file' \in [FeedFiles -> Contents], notice' \in [Noticed -> Contents],
         index' \in (SUBSET Regional) \cup {Cut}, sources' \in [Described -> Contents] \cup {Cut},
         feedRuns' = feedRuns
  PROVE  FeedsTyped' /\ RunIsRight' /\ tool'.at = "idle"
<1>1. RunIsRight'
  BY IdleTyped DEF RunIsRight
<1>2. tool' \in ToolType /\ tool'.at = "idle" /\ tool'.name = "none" /\ tool'.todo = {}
  BY IdleTyped
<1>3. FeedsTypeOK'
  BY <1>2 DEF FeedsTyped, FeedsTypeOK
<1>4. FeedsTyped'
  BY <1>2, <1>3 DEF FeedsTyped
<1> QED
  BY <1>1, <1>2, <1>4

LEMMA NotFresh == ASSUME fresh' = 0 PROVE FreshIsRight'
  BY DEF FreshIsRight

\* A tool goes on to a task.
LEMMA GoesOnTyped ==
  ASSUME FeedsTyped, tool.at # "idle", tool.at # "write", tool' \in ToolType,
         tool'.at \in Tasks \ {"idle", "write"}, tool'.name = tool.name,
         tool'.todo \subseteq tool'.built, tool'.at # "lists" => tool'.todo = {},
         file' \in [FeedFiles -> Contents], notice' \in [Noticed -> Contents],
         index' \in (SUBSET Regional) \cup {Cut}, UNCHANGED <<sources, feedRuns, fresh>>
  PROVE  FeedsTyped'
<1>1. FeedsTypeOK'
  BY DEF FeedsTyped, FeedsTypeOK, Tasks
<1> QED
  BY <1>1 DEF FeedsTyped

LEMMA FeedsInvInit == FeedsInit => FeedsInv
<1> SUFFICES ASSUME FeedsInit PROVE FeedsInv
  OBVIOUS
<1>1. tool = Idle /\ fresh = 0 /\ feedRuns = 0 /\ index = {}
  BY DEF FeedsInit
<1>2. tool \in ToolType /\ tool.at = "idle" /\ tool.name = "none" /\ tool.todo = {}
  BY <1>1, IdleTyped
<1>3. FeedsTypeOK
  <2>1. file \in [FeedFiles -> Contents] /\ notice \in [Noticed -> Contents]
    BY DEF FeedsInit, Contents
  <2>2. sources \in [Described -> Contents]
    BY DEF FeedsInit, NothingSaid, Contents
  <2>3. index \in SUBSET Regional
    BY <1>1
  <2> QED
    BY <1>1, <1>2, <2>1, <2>2, <2>3, FeedsAssumption DEF FeedsTypeOK
<1>4. RunIsRight /\ FreshIsRight
  BY <1>1, <1>2 DEF RunIsRight, FreshIsRight
<1>5. tool.at # "write" /\ tool.name \notin {"scamlist", "resources"}
  BY <1>2
<1> QED
  BY <1>2, <1>3, <1>4, <1>5 DEF FeedsInv, FeedsTyped

LEMMA StartFilterListsKeeps ==
  ASSUME FeedsInv, NEW regional \in SUBSET Regional, NEW all \in BOOLEAN,
         StartFilterLists(regional, all)
  PROVE  FeedsInv'
<1>0. PICK name, regs, said :
        /\ name \in {"full", "noregional"} /\ regs \in SUBSET Regional
        /\ name = (IF all THEN "full" ELSE "noregional")
        /\ regs = (IF all THEN regional ELSE {})
        /\ said = SourcesRead
  OBVIOUS
<1>1. /\ fresh' = 0 /\ feedRuns' = feedRuns + 1 /\ feedRuns < MaxFeedRuns
      /\ tool' = [Idle EXCEPT !.at = "easylist", !.name = name, !.regional = regs, !.lists = said]
      /\ UNCHANGED <<file, notice, index, sources>>
  BY <1>0 DEF StartFilterLists
<1>2. said \in [Described -> Contents]
  BY <1>0, SourcesReadTyped DEF FeedsInv
<1>3. /\ tool' \in ToolType /\ tool'.at = "easylist" /\ tool'.name \in {"full", "noregional"}
      /\ tool'.todo = {}
  <2>1. Idle \in ToolType /\ Idle.todo = {}
    BY IdleTyped
  <2>2. name \in {"full", "noregional"} /\ regs \in SUBSET Regional
    BY <1>0
  <2>3. tool' \in ToolType
    BY <1>1, <1>2, <2>1, <2>2 DEF ToolType, Tasks
  <2>4. tool'.at = "easylist" /\ tool'.name = name /\ tool'.todo = Idle.todo
    BY <1>1, <2>1 DEF ToolType
  <2> QED
    BY <2>1, <2>2, <2>3, <2>4
<1>4. feedRuns' \in 0..MaxFeedRuns /\ feedRuns' # 0
  BY <1>1, FeedsAssumption DEF FeedsInv, FeedsTyped, FeedsTypeOK
<1>5. FeedsTyped'
  BY <1>1, <1>3, <1>4 DEF FeedsInv, FeedsTyped, FeedsTypeOK
<1>6. RunIsRight'
  BY <1>3 DEF RunIsRight
<1> QED
  BY <1>1, <1>5, <1>6, NotFresh DEF FeedsInv

LEMMA BuildEasylistKeeps ==
  ASSUME FeedsInv, NEW healthy \in BOOLEAN, BuildEasylist(healthy) PROVE FeedsInv'
<1> DEFINE said == IF healthy THEN [tool.lists EXCEPT !["easylist"] = Mine] ELSE tool.lists
<1>1. /\ tool.at = "easylist" /\ UNCHANGED <<notice, index, sources, feedRuns, fresh>>
      /\ file' = IF healthy THEN [file EXCEPT !["easylist"] = Mine] ELSE file
      /\ tool' = [tool EXCEPT !.at = "fetch", !.failed = ~healthy, !.lists = said]
  BY DEF BuildEasylist
<1>2. FeedsTyped /\ tool \in ToolType /\ tool.lists \in [Described -> Contents]
  BY DEF FeedsInv, FeedsTyped, ToolType
<1>3. Mine \in 1..MaxFeedRuns /\ Mine \in Contents
  BY <1>1, <1>2, MineIsContent DEF FeedsTyped
<1>4. said \in [Described -> Contents]
  BY <1>2, <1>3
<1>5. healthy => said["easylist"] = Mine
  BY <1>2, Names
<1>6. file' \in [FeedFiles -> Contents] /\ (healthy => file'["easylist"] = Mine)
  BY <1>1, <1>2, <1>3, Names DEF FeedsTyped, FeedsTypeOK
<1> HIDE DEF said
<1>7. /\ tool' \in ToolType /\ tool'.at = "fetch" /\ tool'.name = tool.name
      /\ tool'.todo = tool.todo /\ tool'.failed = ~healthy /\ tool'.lists = said
  BY <1>1, <1>2, <1>4 DEF ToolType, Tasks
<1>8. tool.todo = {}
  BY <1>1, <1>2 DEF FeedsTyped
<1>9. FeedsTyped'
  BY <1>1, <1>2, <1>6, <1>7, <1>8, GoesOnTyped DEF FeedsTyped, FeedsTypeOK, Tasks
<1>10. RunIsRight'
  BY <1>3, <1>5, <1>6, <1>7 DEF RunIsRight, GoodEasylist
<1>11. FreshIsRight'
  BY <1>1, NotFresh DEF FeedsInv, FreshIsRight
<1> QED
  BY <1>9, <1>10, <1>11 DEF FeedsInv

LEMMA FetchListsKeeps ==
  ASSUME FeedsInv, NEW complete \in SUBSET (Whole \cup Regional), FetchLists(complete)
  PROVE  FeedsInv'
<1> DEFINE fails == tool.failed \/ complete # Whole \cup tool.regional
<1>1. /\ tool.at = "fetch" /\ UNCHANGED <<file, notice, index, sources, feedRuns, fresh>>
      /\ tool' = [tool EXCEPT !.at = "lists", !.todo = complete, !.built = complete,
                              !.failed = fails]
  BY DEF FetchLists
<1>2. FeedsTyped /\ tool \in ToolType
  BY DEF FeedsInv, FeedsTyped
<1>3. fails \in BOOLEAN
  BY <1>2 DEF ToolType
<1>4. ~fails => ~tool.failed /\ complete = Whole \cup tool.regional
  OBVIOUS
<1> HIDE DEF fails
<1>5. /\ tool' \in ToolType /\ tool'.at = "lists" /\ tool'.name = tool.name
      /\ tool'.todo = complete /\ tool'.built = complete
      /\ tool'.failed = fails /\ tool'.lists = tool.lists /\ tool'.regional = tool.regional
  BY <1>1, <1>2, <1>3 DEF ToolType, Tasks
<1>6. FeedsTyped'
  BY <1>1, <1>2, <1>5, GoesOnTyped DEF FeedsTyped, FeedsTypeOK, Tasks
<1>7. RunIsRight'
  BY <1>1, <1>4, <1>5 DEF FeedsInv, RunIsRight, GoodEasylist
<1>8. FreshIsRight'
  BY <1>1, NotFresh DEF FeedsInv, FreshIsRight
<1> QED
  BY <1>6, <1>7, <1>8 DEF FeedsInv

LEMMA WriteListKeeps ==
  ASSUME FeedsInv, NEW l \in Whole \cup Regional, WriteList(l) PROVE FeedsInv'
<1>0. PICK said : said = [tool.lists EXCEPT ![l] = Mine]
  OBVIOUS
<1>1. /\ tool.at = "lists" /\ l \in tool.todo /\ UNCHANGED <<index, sources, feedRuns, fresh>>
      /\ file' = [file EXCEPT ![l] = Mine] /\ notice' = [notice EXCEPT ![l] = Mine]
      /\ tool' = [tool EXCEPT !.todo = @ \ {l}, !.lists = said]
  BY <1>0 DEF WriteList
<1>2. FeedsTyped /\ tool \in ToolType /\ tool.lists \in [Described -> Contents]
  BY DEF FeedsInv, FeedsTyped, ToolType
<1>3. Mine \in 1..MaxFeedRuns /\ Mine \in Contents
  BY <1>1, <1>2, MineIsContent DEF FeedsTyped
<1>4. /\ said \in [Described -> Contents] /\ said[l] = Mine
      /\ \A k \in Described : k # l => said[k] = tool.lists[k]
  BY <1>0, <1>2, <1>3, Names
<1>5. /\ file' \in [FeedFiles -> Contents] /\ notice' \in [Noticed -> Contents]
      /\ file'[l] = Mine /\ notice'[l] = Mine
      /\ \A k \in FeedFiles : k # l => file'[k] = file[k]
      /\ \A k \in Noticed : k # l => notice'[k] = notice[k]
  BY <1>1, <1>2, <1>3, Names DEF FeedsTyped, FeedsTypeOK
<1>6. /\ tool' \in ToolType /\ tool'.at = "lists" /\ tool'.name = tool.name
      /\ tool'.todo = tool.todo \ {l} /\ tool'.built = tool.built
      /\ tool'.failed = tool.failed /\ tool'.lists = said /\ tool'.regional = tool.regional
  BY <1>1, <1>2, <1>4 DEF ToolType, Tasks
<1>7. FeedsTyped'
  BY <1>1, <1>2, <1>5, <1>6, GoesOnTyped DEF FeedsTyped, FeedsTypeOK, Tasks
<1>8. RunIsRight'
  <2>1. SUFFICES ASSUME tool.name = "full", ~tool.failed
                 PROVE  /\ GoodEasylist(said)' /\ tool.built = Whole \cup tool.regional
                        /\ \A k \in tool.built \ (tool.todo \ {l}) : Good(k, said)'
    BY <1>6 DEF RunIsRight, Good, GoodEasylist
  <2>2. /\ GoodEasylist(tool.lists) /\ tool.built = Whole \cup tool.regional
        /\ \A k \in tool.built \ tool.todo : Good(k, tool.lists)
    BY <1>1, <2>1 DEF FeedsInv, RunIsRight
  <2>3. GoodEasylist(said)'
    BY <1>4, <1>5, <2>2, Names DEF GoodEasylist
  <2>4. ASSUME NEW k \in tool.built \ (tool.todo \ {l}) PROVE Good(k, said)'
    <3>1. CASE k = l
      BY <1>3, <1>4, <1>5, <3>1 DEF Good
    <3>2. CASE k # l
      <4>1. k \in Whole \cup Regional /\ Good(k, tool.lists)
        BY <1>2, <2>2, <2>4, <3>2 DEF ToolType
      <4>2. k \in Described /\ k \in FeedFiles /\ k \in Noticed
        BY <4>1, Names
      <4> QED
        BY <1>4, <1>5, <3>2, <4>1, <4>2 DEF Good
    <3> QED
      BY <3>1, <3>2
  <2> QED
    BY <2>2, <2>3, <2>4
<1>9. FreshIsRight'
  BY <1>1, NotFresh DEF FeedsInv, FreshIsRight
<1> QED
  BY <1>7, <1>8, <1>9 DEF FeedsInv

LEMMA RemoveLingeringKeeps == ASSUME FeedsInv, RemoveLingering PROVE FeedsInv'
<1>0. PICK said : said = [l \in Described |-> IF l \in Lingering /\ file[l] # NoFile THEN NoFile
                                              ELSE tool.lists[l]]
  OBVIOUS
<1>1. /\ tool.at = "lists" /\ tool.todo = {}
      /\ UNCHANGED <<notice, index, sources, feedRuns, fresh>>
      /\ file' = Without(Lingering)
      /\ tool' = [tool EXCEPT !.at = "remove", !.lists = said]
  BY <1>0 DEF RemoveLingering
<1>2. FeedsTyped /\ tool \in ToolType /\ tool.lists \in [Described -> Contents]
  BY DEF FeedsInv, FeedsTyped, ToolType
<1>3. /\ said \in [Described -> Contents]
      /\ \A k \in Described : k \notin Lingering => said[k] = tool.lists[k]
  BY <1>0, <1>2 DEF Contents
<1>4. /\ file' \in [FeedFiles -> Contents]
      /\ \A k \in FeedFiles : file'[k] = IF k \in Lingering THEN NoFile ELSE file[k]
  BY <1>1, <1>2 DEF Without, FeedsTyped, FeedsTypeOK, Contents
<1>5. /\ tool' \in ToolType /\ tool'.at = "remove" /\ tool'.name = tool.name
      /\ tool'.todo = {} /\ tool'.built = tool.built
      /\ tool'.failed = tool.failed /\ tool'.lists = said /\ tool'.regional = tool.regional
  BY <1>1, <1>2, <1>3 DEF ToolType, Tasks
<1>6. FeedsTyped'
  BY <1>1, <1>2, <1>4, <1>5, GoesOnTyped DEF FeedsTyped, FeedsTypeOK, Tasks
<1>7. /\ Lingering' = Lingering
      /\ \A k \in Lingering : k \in Regional /\ k \in FeedFiles /\ k \notin tool.built
  BY <1>5, Names DEF Lingering
<1>8. RunIsRight'
  <2>1. SUFFICES ASSUME tool.name = "full", ~tool.failed
                 PROVE  /\ GoodEasylist(said)' /\ tool.built = Whole \cup tool.regional
                        /\ \A k \in tool.built : Good(k, said)'
                        /\ \A r \in Lingering : file'[r] = NoFile
    BY <1>5, <1>7 DEF RunIsRight, Good, GoodEasylist
  <2>2. /\ GoodEasylist(tool.lists) /\ tool.built = Whole \cup tool.regional
        /\ \A k \in tool.built : Good(k, tool.lists)
    BY <1>1, <2>1 DEF FeedsInv, RunIsRight
  <2>3. GoodEasylist(said)'
    <3>1. "easylist" \in Described /\ "easylist" \in FeedFiles /\ "easylist" \notin Lingering
      BY <1>7, Names
    <3> QED
      BY <1>3, <1>4, <2>2, <3>1 DEF GoodEasylist
  <2>4. ASSUME NEW k \in tool.built PROVE Good(k, said)'
    <3>1. k \in Described /\ k \in FeedFiles /\ k \notin Lingering
      BY <1>2, <1>7, Names DEF ToolType
    <3> QED
      BY <1>1, <1>3, <1>4, <2>2, <3>1 DEF Good
  <2> QED
    BY <1>4, <1>7, <2>2, <2>3, <2>4
<1>9. FreshIsRight'
  BY <1>1, NotFresh DEF FeedsInv, FreshIsRight
<1> QED
  BY <1>6, <1>8, <1>9 DEF FeedsInv

LEMMA WriteIndexKeeps == ASSUME FeedsInv, WriteIndex PROVE FeedsInv'
<1>1. /\ tool.at = "remove" /\ UNCHANGED <<file, sources, feedRuns, fresh>>
      /\ notice' = [l \in Noticed |-> IF l \in Lingering THEN NoFile ELSE notice[l]]
      /\ index' = Regional \cap tool.built /\ tool' = [tool EXCEPT !.at = "sources"]
  BY DEF WriteIndex
<1>2. FeedsTyped /\ tool \in ToolType /\ tool.todo = {}
  BY <1>1 DEF FeedsInv, FeedsTyped
<1>3. /\ notice' \in [Noticed -> Contents]
      /\ \A k \in Noticed : notice'[k] = IF k \in Lingering THEN NoFile ELSE notice[k]
  BY <1>1, <1>2 DEF FeedsTyped, FeedsTypeOK, Contents
<1>4. /\ tool' \in ToolType /\ tool'.at = "sources" /\ tool'.name = tool.name
      /\ tool'.todo = {} /\ tool'.built = tool.built
      /\ tool'.failed = tool.failed /\ tool'.lists = tool.lists /\ tool'.regional = tool.regional
  BY <1>1, <1>2 DEF ToolType, Tasks
<1>5. FeedsTyped'
  BY <1>1, <1>2, <1>3, <1>4, GoesOnTyped DEF FeedsTyped, FeedsTypeOK, Tasks
<1>6. /\ Lingering' = Lingering
      /\ \A k \in Lingering : k \in Noticed /\ k \notin tool.built
  BY <1>4, Names DEF Lingering
<1>7. RunIsRight'
  <2>1. SUFFICES ASSUME tool.name = "full", ~tool.failed
                 PROVE  /\ GoodEasylist(tool.lists) /\ tool.built = Whole \cup tool.regional
                        /\ \A k \in tool.built : notice'[k] = notice[k] /\ Good(k, tool.lists)
                        /\ \A r \in Lingering : file[r] = NoFile /\ notice'[r] = NoFile
    BY <1>1, <1>4, <1>6 DEF RunIsRight, Good, GoodEasylist
  <2>2. /\ GoodEasylist(tool.lists) /\ tool.built = Whole \cup tool.regional
        /\ \A k \in tool.built : Good(k, tool.lists)
        /\ \A r \in Lingering : file[r] = NoFile
    BY <1>1, <1>2, <2>1 DEF FeedsInv, RunIsRight
  <2>3. \A k \in tool.built : k \in Noticed /\ k \notin Lingering
    BY <1>2, <1>6, Names DEF ToolType
  <2> QED
    BY <1>3, <1>6, <2>2, <2>3
<1>8. FreshIsRight'
  BY <1>1, NotFresh DEF FeedsInv, FreshIsRight
<1> QED
  BY <1>5, <1>7, <1>8 DEF FeedsInv

LEMMA WriteSourcesKeeps == ASSUME FeedsInv, WriteSources PROVE FeedsInv'
<1>0. PICK ok \in BOOLEAN : ok <=> tool.name = "full" /\ ~tool.failed
  OBVIOUS
<1>1. /\ tool.at = "sources" \/ (tool.at = "lists" /\ tool.name = "noregional" /\ tool.todo = {})
      /\ sources' = tool.lists /\ Stops(ok, 1) /\ UNCHANGED <<file, notice, index, feedRuns>>
  BY <1>0 DEF WriteSources, Stops
<1>2. FeedsTyped /\ tool \in ToolType /\ tool.lists \in [Described -> Contents]
  BY DEF FeedsInv, FeedsTyped, ToolType
<1>3. FeedsTyped' /\ RunIsRight' /\ tool'.at = "idle"
  <2>1. tool' = Idle /\ fresh' \in 0..3
    BY <1>1 DEF Stops
  <2>2. /\ file' \in [FeedFiles -> Contents] /\ notice' \in [Noticed -> Contents]
        /\ index' \in (SUBSET Regional) \cup {Cut}
        /\ sources' \in [Described -> Contents] \cup {Cut}
    BY <1>1, <1>2 DEF FeedsTyped, FeedsTypeOK
  <2> QED
    BY <1>1, <1>2, <2>1, <2>2, StopsTyped
<1>4. fresh' = 0 \/ (ok /\ fresh' = 1)
  BY <1>1 DEF Stops
<1>5. CASE fresh' = 0
  BY <1>3, <1>5, NotFresh DEF FeedsInv
<1>6. CASE ok /\ fresh' = 1
  <2>1. /\ tool.at = "sources" /\ tool.todo = {} /\ GoodEasylist(tool.lists)
        /\ tool.built = Whole \cup tool.regional
        /\ \A k \in tool.built : Good(k, tool.lists)
        /\ \A r \in Lingering : file[r] = NoFile /\ notice[r] = NoFile
        /\ index = Regional \cap tool.built
    <3>1. tool.name = "full" /\ ~tool.failed /\ tool.at = "sources"
      BY <1>0, <1>1, <1>6
    <3> QED
      BY <1>2, <3>1 DEF FeedsInv, FeedsTyped, RunIsRight
  <2>2. sources' # Cut
    BY <1>1, <1>2, FeedsAssumption
  <2>3. GoodEasylist(sources)' /\ \A k \in tool.built : Good(k, sources)'
    BY <1>1, <2>1 DEF GoodEasylist, Good
  <2>4. \A r \in Regional : IF r \in index' THEN Good(r, sources)'
                            ELSE file'[r] = NoFile /\ notice'[r] = NoFile
    BY <1>1, <2>1, <2>3 DEF Lingering
  <2>5. FilterListsRight'
    BY <1>1, <2>1, <2>2, <2>3, <2>4 DEF FilterListsRight
  <2> QED
    BY <1>3, <1>6, <2>5 DEF FeedsInv, FreshIsRight
<1> QED
  BY <1>4, <1>5, <1>6

LEMMA StartFeedKeeps ==
  ASSUME FeedsInv, NEW name \in {"scamlist", "resources"}, StartFeed(name) PROVE FeedsInv'
<1>1. /\ tool.at = "idle" /\ feedRuns < MaxFeedRuns /\ feedRuns' = feedRuns + 1
      /\ tool' = [Idle EXCEPT !.at = "write", !.name = name]
      /\ UNCHANGED <<file, notice, index, sources, fresh>>
  BY DEF StartFeed
<1>2. /\ tool' \in ToolType /\ tool'.at = "write" /\ tool'.name = name
      /\ tool'.todo = {} /\ tool'.built = {}
  BY <1>1, IdleTyped DEF ToolType, Tasks
<1>3. feedRuns' \in 0..MaxFeedRuns /\ feedRuns' # 0
  BY <1>1, FeedsAssumption DEF FeedsInv, FeedsTyped, FeedsTypeOK
<1>4. FeedsTypeOK'
  BY <1>1, <1>2, <1>3 DEF FeedsInv, FeedsTyped, FeedsTypeOK
<1>5. FeedsTyped'
  BY <1>2, <1>3, <1>4 DEF FeedsTyped
<1>6. RunIsRight'
  BY <1>2 DEF RunIsRight
<1>7. FreshIsRight'
  BY <1>1, <1>2
  DEF FeedsInv, FreshIsRight, FilterListsRight, ScamListRight, Good, GoodEasylist
<1> QED
  BY <1>5, <1>6, <1>7 DEF FeedsInv

\* What the two other tools leave alone.
LEMMA FilterListsStay ==
  ASSUME FilterListsRight, sources' # Cut, index' = index,
         \A k \in FilterLists : file'[k] = file[k] /\ sources'[k] = sources[k],
         \A k \in Whole \cup Regional : notice'[k] = notice[k]
  PROVE  FilterListsRight'
  BY DEF FilterListsRight, FilterLists, Good, GoodEasylist

LEMMA FeedFailsKeeps == ASSUME FeedsInv, FeedFails PROVE FeedsInv'
<1>1. Stops(FALSE, 0) /\ UNCHANGED <<file, notice, index, sources, feedRuns>>
  BY DEF FeedFails
<1>2. tool' = Idle /\ fresh' = 0 /\ FeedsTyped
  BY <1>1 DEF Stops, FeedsInv
<1>3. /\ file' \in [FeedFiles -> Contents] /\ notice' \in [Noticed -> Contents]
      /\ index' \in (SUBSET Regional) \cup {Cut} /\ sources' \in [Described -> Contents] \cup {Cut}
  BY <1>1, <1>2 DEF FeedsTyped, FeedsTypeOK
<1>4. FeedsTyped' /\ RunIsRight'
  BY <1>1, <1>2, <1>3, StopsTyped
<1> QED
  BY <1>2, <1>4, NotFresh DEF FeedsInv

LEMMA WriteScamListKeeps == ASSUME FeedsInv, WriteScamList PROVE FeedsInv'
<1>1. /\ tool.at = "write" /\ Stops(TRUE, 2) /\ UNCHANGED <<index, sources, feedRuns>>
      /\ file' = [file EXCEPT !["scamlist"] = Mine]
      /\ notice' = [notice EXCEPT !["scamlist"] = Mine]
  BY DEF WriteScamList
<1>2. FeedsTyped /\ Mine \in 1..MaxFeedRuns /\ Mine \in Contents
  BY <1>1, MineIsContent DEF FeedsInv, FeedsTyped
<1>3. "scamlist" \in FeedFiles /\ "scamlist" \in Noticed
  BY Names
<1>4. /\ file' \in [FeedFiles -> Contents] /\ notice' \in [Noticed -> Contents]
      /\ file'["scamlist"] = Mine /\ notice'["scamlist"] = Mine
      /\ \A k \in FeedFiles : k # "scamlist" => file'[k] = file[k]
      /\ \A k \in Noticed : k # "scamlist" => notice'[k] = notice[k]
  BY <1>1, <1>2, <1>3 DEF FeedsTyped, FeedsTypeOK
<1>5. FeedsTyped' /\ RunIsRight' /\ tool'.at = "idle"
  <2>1. tool' = Idle /\ fresh' \in 0..3
    BY <1>1 DEF Stops
  <2>2. /\ file' \in [FeedFiles -> Contents] /\ notice' \in [Noticed -> Contents]
        /\ index' \in (SUBSET Regional) \cup {Cut}
        /\ sources' \in [Described -> Contents] \cup {Cut}
    BY <1>1, <1>2, <1>4 DEF FeedsTyped, FeedsTypeOK
  <2> QED
    BY <1>1, <1>2, <2>1, <2>2, StopsTyped
<1>6. fresh' = 0 \/ (fresh = 1 /\ fresh' = 2)
  BY <1>1 DEF Stops
<1>7. CASE fresh' = 0
  BY <1>5, <1>7, NotFresh DEF FeedsInv
<1>8. CASE fresh = 1 /\ fresh' = 2
  <2>1. FilterListsRight
    BY <1>8 DEF FeedsInv, FreshIsRight
  <2>2. \A k \in FilterLists : file'[k] = file[k]
    <3>1. \A k \in FilterLists : k \in FeedFiles /\ k # "scamlist"
      BY Names DEF FilterLists, FeedFiles
    <3> QED
      BY <1>4, <3>1
  <2>3. \A k \in Whole \cup Regional : notice'[k] = notice[k]
    BY <1>4, Names
  <2>4. FilterListsRight'
    BY <1>1, <2>1, <2>2, <2>3, FilterListsStay DEF FilterListsRight
  <2>5. ScamListRight'
    BY <1>2, <1>4 DEF ScamListRight
  <2> QED
    BY <1>5, <1>8, <2>4, <2>5 DEF FeedsInv, FreshIsRight
<1> QED
  BY <1>6, <1>7, <1>8

LEMMA WriteResourcesKeeps == ASSUME FeedsInv, WriteResources PROVE FeedsInv'
<1>1. /\ tool.at = "write" /\ Stops(TRUE, 3) /\ UNCHANGED <<index, feedRuns>>
      /\ file' = [file EXCEPT !["resources"] = Mine]
      /\ notice' = [notice EXCEPT !["resources"] = Mine]
      /\ sources' = [SourcesRead EXCEPT !["resources"] = Mine]
  BY DEF WriteResources
<1>2. FeedsTyped /\ Mine \in 1..MaxFeedRuns /\ Mine \in Contents
  BY <1>1, MineIsContent DEF FeedsInv, FeedsTyped
<1>3. "resources" \in FeedFiles /\ "resources" \in Noticed /\ "resources" \in Described
  BY Names
<1>4. /\ file' \in [FeedFiles -> Contents] /\ notice' \in [Noticed -> Contents]
      /\ file'["resources"] = Mine /\ notice'["resources"] = Mine
      /\ \A k \in FeedFiles : k # "resources" => file'[k] = file[k]
      /\ \A k \in Noticed : k # "resources" => notice'[k] = notice[k]
  BY <1>1, <1>2, <1>3 DEF FeedsTyped, FeedsTypeOK
<1>5. /\ sources' \in [Described -> Contents] /\ sources'["resources"] = Mine
      /\ \A k \in Described : k # "resources" => sources'[k] = SourcesRead[k]
  BY <1>1, <1>2, <1>3, SourcesReadTyped
<1>6. FeedsTyped' /\ RunIsRight' /\ tool'.at = "idle"
  <2>1. tool' = Idle /\ fresh' \in 0..3
    BY <1>1 DEF Stops
  <2>2. /\ file' \in [FeedFiles -> Contents] /\ notice' \in [Noticed -> Contents]
        /\ index' \in (SUBSET Regional) \cup {Cut}
        /\ sources' \in [Described -> Contents] \cup {Cut}
    BY <1>1, <1>2, <1>4, <1>5 DEF FeedsTyped, FeedsTypeOK
  <2> QED
    BY <1>1, <1>2, <2>1, <2>2, StopsTyped
<1>7. fresh' = 0 \/ (fresh = 2 /\ fresh' = 3)
  BY <1>1 DEF Stops
<1>8. CASE fresh' = 0
  BY <1>6, <1>8, NotFresh DEF FeedsInv
<1>9. CASE fresh = 2 /\ fresh' = 3
  <2>1. FilterListsRight /\ ScamListRight /\ sources # Cut /\ SourcesRead = sources
    BY <1>9 DEF FeedsInv, FreshIsRight, FilterListsRight, SourcesRead
  <2>2. \A k \in FilterLists : k \in FeedFiles /\ k \in Described /\ k # "resources"
    BY Names DEF FilterLists, FeedFiles
  <2>3. \A k \in FilterLists : file'[k] = file[k] /\ sources'[k] = sources[k]
    BY <1>4, <1>5, <2>1, <2>2
  <2>4. \A k \in Whole \cup Regional : notice'[k] = notice[k]
    BY <1>4, Names
  <2>5. sources' # Cut
    BY <1>5, FeedsAssumption
  <2>6. FilterListsRight'
    BY <1>1, <2>1, <2>3, <2>4, <2>5, FilterListsStay
  <2>7. ScamListRight'
    BY <1>4, <2>1, Names DEF ScamListRight
  <2>8. Good("resources", sources)'
    BY <1>2, <1>4, <1>5 DEF Good
  <2> QED
    BY <1>6, <1>9, <2>6, <2>7, <2>8 DEF FeedsInv, FreshIsRight
<1> QED
  BY <1>7, <1>8, <1>9

LEMMA KilledKeeps == ASSUME FeedsInv, Killed PROVE FeedsInv'
<1>1. Stops(FALSE, 0) /\ feedRuns' = feedRuns /\ tool.at # "idle"
  BY DEF Killed
<1>2. /\ FeedsTyped /\ tool \in ToolType
      /\ Mine \in Contents /\ Cut \in Contents /\ NoFile \in Contents
  BY <1>1, MineIsContent DEF FeedsInv, FeedsTyped, Contents
<1>3. /\ file \in [FeedFiles -> Contents] /\ notice \in [Noticed -> Contents]
      /\ index \in (SUBSET Regional) \cup {Cut} /\ sources \in [Described -> Contents] \cup {Cut}
  BY <1>2 DEF FeedsTyped, FeedsTypeOK
<1>4. /\ file' \in [FeedFiles -> Contents] /\ notice' \in [Noticed -> Contents]
      /\ index' \in (SUBSET Regional) \cup {Cut} /\ sources' \in [Described -> Contents] \cup {Cut}
  <2>1. CASE UNCHANGED <<file, notice, index, sources>>
    BY <1>3, <2>1
  <2>2. CASE CutFile
    <3>1. Without(Lingering) \in [FeedFiles -> Contents]
          /\ \A ls \in SUBSET Lingering : Without(ls) \in [FeedFiles -> Contents]
      BY <1>2, <1>3 DEF Without
    <3>2. \A l : [file EXCEPT ![l] = Cut] \in [FeedFiles -> Contents]
      BY <1>2, <1>3
    <3>3. file' \in [FeedFiles -> Contents]
      BY <2>2, <3>1, <3>2 DEF CutFile
    <3> QED
      BY <1>3, <2>2, <3>3 DEF CutFile
  <2>3. CASE FileWithoutNotice
    <3>1. \A l : [file EXCEPT ![l] = Mine] \in [FeedFiles -> Contents]
      BY <1>2, <1>3
    <3>2. \A l : /\ [notice EXCEPT ![l] = Mine] \in [Noticed -> Contents]
                 /\ [notice EXCEPT ![l] = Cut] \in [Noticed -> Contents]
      BY <1>2, <1>3
    <3> QED
      BY <1>3, <2>3, <3>1, <3>2 DEF FileWithoutNotice
  <2>4. CASE CutIndex
    <3>1. index' = Cut /\ UNCHANGED <<file, notice, sources>>
      BY <2>4 DEF CutIndex
    <3>2. index' \in (SUBSET Regional) \cup {Cut}
      BY <3>1
    <3> QED
      BY <1>3, <3>1, <3>2
  <2>5. CASE CutSources
    <3>1. sources' = Cut /\ UNCHANGED <<file, notice, index>>
      BY <2>5 DEF CutSources
    <3>2. sources' \in [Described -> Contents] \cup {Cut}
      BY <3>1
    <3> QED
      BY <1>3, <3>1, <3>2
  <2> QED
    BY <2>1, <2>2, <2>3, <2>4, <2>5 DEF Killed
<1>5. tool' = Idle /\ fresh' = 0
  BY <1>1 DEF Stops
<1>6. FeedsTyped' /\ RunIsRight'
  BY <1>1, <1>2, <1>4, <1>5, StopsTyped
<1> QED
  BY <1>5, <1>6, NotFresh DEF FeedsInv

LEMMA FeedsInvNext == FeedsInv /\ [FeedsNext]_feedVars => FeedsInv'
<1> SUFFICES ASSUME FeedsInv, [FeedsNext]_feedVars PROVE FeedsInv'
  OBVIOUS
<1>1. CASE UNCHANGED feedVars
  <2>1. /\ file' = file /\ notice' = notice /\ index' = index /\ sources' = sources
        /\ tool' = tool /\ feedRuns' = feedRuns /\ fresh' = fresh
    BY <1>1 DEF feedVars
  <2>2. FeedsTyped'
    BY <2>1 DEF FeedsInv, FeedsTyped, FeedsTypeOK
  <2>3. RunIsRight'
    BY <2>1 DEF FeedsInv, RunIsRight, Good, GoodEasylist, Lingering
  <2>4. FreshIsRight'
    BY <2>1 DEF FeedsInv, FreshIsRight, FilterListsRight, ScamListRight, Good, GoodEasylist
  <2> QED
    BY <2>2, <2>3, <2>4 DEF FeedsInv
<1>2. CASE \E regional \in SUBSET Regional, all \in BOOLEAN : StartFilterLists(regional, all)
  BY <1>2, StartFilterListsKeeps
<1>3. CASE \E healthy \in BOOLEAN : BuildEasylist(healthy)
  BY <1>3, BuildEasylistKeeps
<1>4. CASE \E complete \in SUBSET (Whole \cup Regional) : FetchLists(complete)
  BY <1>4, FetchListsKeeps
<1>5. CASE \E l \in Whole \cup Regional : WriteList(l)
  BY <1>5, WriteListKeeps
<1>6. CASE RemoveLingering \/ WriteIndex \/ WriteSources
  BY <1>6, RemoveLingeringKeeps, WriteIndexKeeps, WriteSourcesKeeps
<1>7. CASE \E name \in {"scamlist", "resources"} : StartFeed(name)
  BY <1>7, StartFeedKeeps
<1>8. CASE FeedFails \/ WriteScamList \/ WriteResources \/ Killed
  BY <1>8, FeedFailsKeeps, WriteScamListKeeps, WriteResourcesKeeps, KilledKeeps
<1> QED
  BY <1>1, <1>2, <1>3, <1>4, <1>5, <1>6, <1>7, <1>8 DEF FeedsNext

\* What comes after the last of the three tools: every file is whole, described by what
\* is there, and none is left over.
LEMMA RightIsDescribed == FeedsInv => SourcesDescribeLists
<1> SUFFICES ASSUME FeedsInv, fresh = 3
             PROVE  /\ \A l \in Described : file[l] # NoFile => sources[l] = file[l]
                    /\ \A l \in Noticed : notice[l] = file[l]
                    /\ index = {r \in Regional : file[r] # NoFile}
                    /\ \A l \in FeedFiles : file[l] # Cut /\ (l \notin Regional => file[l] # NoFile)
  BY DEF SourcesDescribeLists
<1>1. FilterListsRight /\ ScamListRight /\ Good("resources", sources)
  BY DEF FeedsInv, FreshIsRight
<1>2. \A k \in 1..MaxFeedRuns : k # NoFile /\ k # Cut
  BY FeedsAssumption
<1>3. \A l \in FeedFiles : \/ l \in Whole \/ l \in Regional
                           \/ l \in {"easylist", "scamlist", "resources"}
  BY DEF FeedFiles, FilterLists
<1>4. \A l \in Described : file[l] # NoFile => sources[l] = file[l]
  BY <1>1, <1>3 DEF FilterListsRight, Good, GoodEasylist, Described
<1>5. \A l \in Noticed : notice[l] = file[l]
  BY <1>1, <1>3 DEF FilterListsRight, ScamListRight, Good, Noticed
<1>6. index = {r \in Regional : file[r] # NoFile}
  BY <1>1, <1>2 DEF FilterListsRight, Good
<1>7. \A l \in FeedFiles : file[l] # Cut /\ (l \notin Regional => file[l] # NoFile)
  BY <1>1, <1>2, <1>3, FeedsAssumption
  DEF FilterListsRight, ScamListRight, Good, GoodEasylist
<1> QED
  BY <1>4, <1>5, <1>6, <1>7

\* However many runs of the three tools come before, killed anywhere or without their
\* sources, a release that has run them packs lists that are whole and described.
THEOREM SourcesAreRight == FeedsSpec => []SourcesDescribeLists
  BY FeedsInvInit, FeedsInvNext, RightIsDescribed, PTL DEF FeedsSpec

\* The files of the lists, what is said of them and the tool in hand keep their types.
THEOREM FeedsTypeCorrect == FeedsSpec => []FeedsTypeOK
<1>1. FeedsInv => FeedsTypeOK
  BY DEF FeedsInv, FeedsTyped
<1> QED
  BY <1>1, FeedsInvInit, FeedsInvNext, PTL DEF FeedsSpec

-----------------------------------------------------------------------------
(* How the bundle of lists is published (Publisher). *)

\* What the proof needs of the types.
Shape ==
  /\ DOMAIN asset = Assets
  /\ job = [at |-> job.at, of |-> job.of, todo |-> job.todo]
  /\ \A n, a : <<n, a>> \in damage => a \in BundleLists

\* The bytes of the bundle in hand were found whole, and of the assets those that
\* are done are its own: the lists first, then the ends.
UploadIsOwn ==
  /\ job.at \notin {"lists", "ends"} => job.todo = {}
  /\ job.at \in {"lists", "ends"} => \A a : <<job.of, a>> \notin damage
  /\ job.at = "lists" =>
       /\ job.todo \subseteq BundleLists
       /\ \A a \in BundleLists \ job.todo : asset[a] = job.of
  /\ job.at = "ends" =>
       /\ job.todo \subseteq Ends
       /\ \A a \in Assets \ job.todo : asset[a] = job.of

PubInv == Shape /\ UploadIsOwn /\ PublishedIsWhole

LEMMA PubInvInit == PublisherInit => PubInv
  BY DEF PublisherInit, PubInv, Shape, UploadIsOwn, PublishedIsWhole, NoRun

\* A bundle is built between two uploads.
LEMMA BuildKeeps ==
  ASSUME PubInv, NEW e1, NEW e2, NEW u, NEW version,
         NEW staged \in SUBSET BundleLists, NEW moved \in SUBSET BundleLists,
         Build(e1, e2, u, version, staged, moved)
  PROVE  PubInv'
<1> DEFINE n == Cardinality(Built) + 1
<1>1. damage' = damage \cup {n} \X (staged \cup moved)
  BY DEF Build
<1>2. /\ job' = [at |-> "approval", of |-> n, todo |-> {}]
      /\ UNCHANGED <<asset, whole, settled>>
  BY DEF Build
<1> HIDE DEF n
<1>3. Shape'
  BY <1>1, <1>2 DEF PubInv, Shape
<1>4. UploadIsOwn'
  BY <1>2 DEF UploadIsOwn
<1>5. PublishedIsWhole'
  BY <1>2 DEF PubInv, PublishedIsWhole
<1> QED
  BY <1>3, <1>4, <1>5 DEF PubInv

\* Of what is signed nothing is damaged.
LEMMA SignKeeps == PubInv /\ Sign => PubInv'
<1> SUFFICES ASSUME PubInv, Sign PROVE PubInv'
  OBVIOUS
<1>1. /\ job' = [at |-> "lists", of |-> job.of, todo |-> BundleLists]
      /\ UNCHANGED <<asset, damage, whole, settled>>
  BY DEF Sign, PubInv, Shape
<1>2. \A a : <<job.of, a>> \notin damage
  BY DEF Sign, Confirmed, DamageOf, PubInv, Shape
<1> QED
  BY <1>1, <1>2 DEF PubInv, Shape, UploadIsOwn, PublishedIsWhole

LEMMA RemoveKeeps ==
  ASSUME PubInv, NEW a \in Assets, RemoveAsset(a)
  PROVE  PubInv'
<1>1. /\ a \in job.todo
      /\ DOMAIN asset' = Assets
      /\ \A b \in Assets \ {a} : asset'[b] = asset[b]
      /\ settled' = FALSE
      /\ UNCHANGED <<damage, job>>
  BY DEF RemoveAsset, PubInv, Shape
<1> QED
  BY <1>1 DEF PubInv, Shape, UploadIsOwn, PublishedIsWhole, Assets

\* What is uploaded is the bundle's own.
LEMMA UploadKeeps ==
  ASSUME PubInv, NEW a \in Assets, UploadAsset(a)
  PROVE  PubInv'
<1>1. /\ a \in job.todo
      /\ job' = [at |-> job.at, of |-> job.of, todo |-> job.todo \ {a}]
      /\ settled' = FALSE
      /\ UNCHANGED damage
  BY DEF UploadAsset, PubInv, Shape
<1>2. job.at \in {"lists", "ends"}
  BY <1>1 DEF PubInv, UploadIsOwn
<1>3. <<job.of, a>> \notin damage
  BY <1>2 DEF PubInv, UploadIsOwn
<1>4. /\ DOMAIN asset' = Assets
      /\ asset'[a] = job.of
      /\ \A b \in Assets \ {a} : asset'[b] = asset[b]
  BY <1>3 DEF UploadAsset, PubInv, Shape
<1>5. Shape'
  BY <1>1, <1>4 DEF PubInv, Shape
<1>6. UploadIsOwn'
  BY <1>1, <1>2, <1>4 DEF PubInv, UploadIsOwn, Assets
<1> QED
  BY <1>1, <1>5, <1>6 DEF PubInv, PublishedIsWhole

\* With the lists up, all but the ends is the bundle's.
LEMMA UploadEndsKeeps == PubInv /\ UploadEnds => PubInv'
<1> SUFFICES ASSUME PubInv, UploadEnds PROVE PubInv'
  OBVIOUS
<1>1. /\ job' = [at |-> "ends", of |-> job.of, todo |-> Ends]
      /\ job.at = "lists" /\ job.todo = {}
      /\ UNCHANGED <<asset, damage, whole, settled>>
  BY DEF UploadEnds, PubInv, Shape
<1> QED
  BY <1>1 DEF PubInv, Shape, UploadIsOwn, PublishedIsWhole, Assets

LEMMA PublishedKeeps == PubInv /\ Published => PubInv'
<1> SUFFICES ASSUME PubInv, Published PROVE PubInv'
  OBVIOUS
<1>1. /\ job.at = "ends" /\ job.todo = {}
      /\ job' = [at |-> "idle", of |-> 0, todo |-> {}]
      /\ whole' = job.of
      /\ UNCHANGED <<asset, damage>>
  BY DEF Published, NoRun
<1> QED
  BY <1>1 DEF PubInv, Shape, UploadIsOwn, PublishedIsWhole

\* The run ends or begins without touching the release.
LEMMA RestKeeps ==
  ASSUME PubInv, Rejected \/ PublishFails \/ \E n \in Built : RunAgain(n)
  PROVE  PubInv'
<1>1. /\ job' = [at |-> job'.at, of |-> job'.of, todo |-> {}]
      /\ job'.at \notin {"lists", "ends"}
      /\ UNCHANGED <<asset, damage, whole, settled>>
  BY DEF Rejected, PublishFails, RunAgain, NoRun
<1> QED
  BY <1>1 DEF PubInv, Shape, UploadIsOwn, PublishedIsWhole

LEMMA PubInvNext == PubInv /\ [PublisherNext]_pubVars => PubInv'
<1> SUFFICES ASSUME PubInv, [PublisherNext]_pubVars PROVE PubInv'
  OBVIOUS
<1>1. CASE \E e1, e2 \in EasySizes \cup {0}, u \in UboSizes, version \in 1..MaxVersion,
             staged, moved \in SUBSET Fragile : Build(e1, e2, u, version, staged, moved)
  BY <1>1, BuildKeeps, PublisherAssumption DEF BundleLists
<1>2. CASE Rejected \/ PublishFails \/ \E n \in Built : RunAgain(n)
  BY <1>2, RestKeeps
<1>3. CASE Sign
  BY <1>3, SignKeeps
<1>4. CASE UploadEnds
  BY <1>4, UploadEndsKeeps
<1>5. CASE Published
  BY <1>5, PublishedKeeps
<1>6. CASE \E a \in Assets : RemoveAsset(a) \/ UploadAsset(a)
  BY <1>6, RemoveKeeps, UploadKeeps
<1>7. CASE UNCHANGED pubVars
  BY <1>7 DEF pubVars, PubInv, Shape, UploadIsOwn, PublishedIsWhole
<1> QED
  BY <1>1, <1>2, <1>3, <1>4, <1>5, <1>6, <1>7 DEF PublisherNext

\* For lists of every size and any number of bundles, what a publication that came
\* to its end leaves on the release is one bundle, byte for byte, whatever uploads
\* were cut off before it and however often a failed one was run again.
THEOREM OneBundleIsPublished == PublisherSpec => []PublishedIsWhole
<1>1. PubInv => PublishedIsWhole
  BY DEF PubInv
<1> QED
  BY <1>1, PubInvInit, PubInvNext, PTL DEF PublisherSpec

-----------------------------------------------------------------------------
(* How far a bundle may be from the one before it. *)

Bundle == [easylist : Nat, ubo : Nat, degraded : BOOLEAN, version : Nat,
           base : Nat, clean : BOOLEAN]

BundleShape ==
  /\ \E k \in Nat : bundle \in [1..k -> Bundle]
  /\ whole \in Built \cup {0}
  /\ settled \in BOOLEAN
  /\ failed \subseteq Built
  /\ job.at # "idle" => job.of \in Built

\* Every bundle that was built over one that was published whole, and untouched,
\* is a small step from that one.
Grown(to) ==
  to.base # 0 /\ to.clean => to.base \in Built /\ IsSmallStep(bundle[to.base], to)

AllGrown == \A n \in Built : Grown(bundle[n])

StepInv == PubInv /\ BundleShape /\ AllGrown

LEMMA StepInvInit == PublisherInit => StepInv
<1> SUFFICES ASSUME PublisherInit PROVE StepInv
  OBVIOUS
<1>1. bundle \in [1..0 -> Bundle] /\ Built = {}
  BY DEF PublisherInit, Built
<1>2. BundleShape
  BY <1>1 DEF PublisherInit, BundleShape, NoRun
<1>3. AllGrown
  BY <1>1 DEF AllGrown
<1> QED
  BY <1>2, <1>3, PubInvInit DEF StepInv

LEMMA CoversAtLeast ==
  ASSUME NEW l, NEW entries, NEW degraded, NEW p \in Nat, PreviousEntries(l) = p,
         Covers(l, entries, degraded)
  PROVE  entries >= ShrinkFloor(p, ShareOf(l, degraded))
  BY DEF Covers, Unknown

\* What is published whole and untouched is what a new bundle is held against.
LEMMA BuildIsSmall ==
  ASSUME StepInv, settled, whole # 0,
         NEW e1 \in Nat, NEW e2 \in Nat, NEW u \in Nat, NEW version \in Nat,
         NEW degraded \in BOOLEAN, NEW to \in Bundle,
         to.easylist = e1 + e2, to.ubo = u, to.version = version,
         to.degraded = degraded,
         Covers("easylist", e1 + e2, degraded), Covers("ubo", u, FALSE),
         ~IsBelow(version)
  PROVE  IsSmallStep(bundle[whole], to)
<1>1. whole \in Built /\ bundle[whole] \in Bundle
  BY DEF StepInv, BundleShape, Built
<1>2. \A a \in Assets : asset[a] = whole
  BY DEF StepInv, PubInv, PublishedIsWhole
<1>3. \A l \in BundleLists : PreviousEntries(l) = bundle[whole][l]
  BY <1>1, <1>2 DEF PreviousEntries, Assets, Ends
<1>4. \A l \in BundleLists : bundle[whole][l] \in Nat
  BY <1>1 DEF Bundle, BundleLists
<1>5. to.version >= bundle[whole].version
  BY <1>1, <1>2 DEF IsBelow, Assets, Ends, Bundle
<1>6. e1 + e2 >= ShrinkFloor(bundle[whole]["easylist"], ShareOf("easylist", degraded))
  BY <1>3, <1>4, CoversAtLeast DEF BundleLists
<1>7. u >= ShrinkFloor(bundle[whole]["ubo"], ShareOf("ubo", FALSE))
  BY <1>3, <1>4, CoversAtLeast DEF BundleLists
<1>8. ShareOf("ubo", FALSE) = ShareOf("ubo", degraded)
  BY DEF ShareOf
<1> QED
  BY <1>5, <1>6, <1>7, <1>8 DEF IsSmallStep, BundleLists

LEMMA BuildGrows ==
  ASSUME StepInv, NEW e1 \in Nat, NEW e2 \in Nat, NEW u \in Nat, NEW version \in Nat,
         NEW staged \in SUBSET BundleLists, NEW moved \in SUBSET BundleLists,
         Build(e1, e2, u, version, staged, moved)
  PROVE  StepInv'
<1> DEFINE degraded == (e1 = 0) # (e2 = 0)
           new == [easylist |-> e1 + e2, ubo |-> u, degraded |-> degraded,
                   version |-> version, base |-> whole, clean |-> settled]
<1>1. PICK k \in Nat : bundle \in [1..k -> Bundle]
  BY DEF StepInv, BundleShape
<1>2. Built = 1..k /\ Cardinality(Built) = k
  BY <1>1, FS_Interval DEF Built
<1>3. /\ bundle' = [i \in 1..(k + 1) |-> IF i = k + 1 THEN new ELSE bundle[i]]
      /\ job'.of = k + 1
      /\ whole' = whole /\ settled' = settled /\ failed' = failed
  BY <1>2 DEF Build
<1>4. whole \in Nat /\ settled \in BOOLEAN
  BY <1>2 DEF StepInv, BundleShape, Build
<1>5. new \in Bundle
  BY <1>4 DEF Bundle
<1>6. bundle' \in [1..(k + 1) -> Bundle] /\ Built' = 1..(k + 1)
  BY <1>1, <1>3, <1>5 DEF Built
<1>7. BundleShape'
  BY <1>2, <1>3, <1>6 DEF StepInv, BundleShape
<1>8. AllGrown'
  <2> SUFFICES ASSUME NEW n \in 1..(k + 1), bundle'[n].base # 0, bundle'[n].clean
               PROVE  /\ bundle'[n].base \in Built'
                      /\ IsSmallStep(bundle'[bundle'[n].base], bundle'[n])
    BY <1>6 DEF AllGrown, Grown, IsSmallStep, ShrinkFloor, ShareOf
  <2>1. CASE n = k + 1
    <3>1. bundle'[n] = new /\ whole # 0 /\ settled /\ whole \in 1..k
      BY <2>1, <1>2, <1>3 DEF StepInv, BundleShape
    <3>2. bundle'[whole] = bundle[whole]
      BY <1>3, <3>1
    <3>3. IsSmallStep(bundle[whole], new)
      BY <3>1, <1>5, BuildIsSmall DEF Build
    <3> QED
      BY <3>1, <3>2, <3>3, <1>6
  <2>2. CASE n \in 1..k
    <3>1. bundle'[n] = bundle[n]
      BY <2>2, <1>3
    <3>2. bundle[n].base \in 1..k /\ IsSmallStep(bundle[bundle[n].base], bundle[n])
      BY <2>2, <3>1, <1>2 DEF StepInv, AllGrown, Grown
    <3>3. bundle'[bundle[n].base] = bundle[bundle[n].base]
      BY <3>2, <1>3
    <3> QED
      BY <3>1, <3>2, <3>3, <1>6
  <2> QED
    BY <2>1, <2>2
<1>9. PubInv'
  BY BuildKeeps DEF StepInv
<1> QED
  BY <1>7, <1>8, <1>9 DEF StepInv

\* Every other action leaves the bundles as they are.
LEMMA OtherSteps ==
  ASSUME StepInv,
         \/ Rejected \/ Sign \/ UploadEnds \/ Published \/ PublishFails
         \/ \E a \in Assets : RemoveAsset(a) \/ UploadAsset(a)
         \/ \E n \in Built : RunAgain(n)
  PROVE  BundleShape' /\ AllGrown'
<1>1. UNCHANGED bundle
  BY DEF Rejected, Sign, UploadEnds, Published, PublishFails, RemoveAsset, UploadAsset,
         RunAgain
<1>2. whole' \in Built \cup {0} /\ settled' \in BOOLEAN /\ failed' \subseteq Built
  BY DEF StepInv, BundleShape, Rejected, Sign, UploadEnds, Published, PublishFails,
         RemoveAsset, UploadAsset, RunAgain
<1>3. job'.at # "idle" => job'.of \in Built
  <2>1. CASE Rejected \/ Published \/ PublishFails
    BY <2>1 DEF Rejected, Published, PublishFails, NoRun
  <2>2. CASE Sign
    <3>1. job.at # "idle" /\ job' = [at |-> "lists", of |-> job.of, todo |-> BundleLists]
      BY <2>2 DEF Sign, StepInv, PubInv, Shape
    <3> QED
      BY <3>1 DEF StepInv, BundleShape
  <2>3. CASE UploadEnds
    <3>1. job.at # "idle" /\ job' = [at |-> "ends", of |-> job.of, todo |-> Ends]
      BY <2>3 DEF UploadEnds, StepInv, PubInv, Shape
    <3> QED
      BY <3>1 DEF StepInv, BundleShape
  <2>4. ASSUME NEW a \in Assets, RemoveAsset(a) \/ UploadAsset(a)
        PROVE  job'.at # "idle" => job'.of \in Built
    <3>1. job'.at = job.at /\ job'.of = job.of
      BY <2>4 DEF RemoveAsset, UploadAsset, StepInv, PubInv, Shape
    <3> QED
      BY <3>1 DEF StepInv, BundleShape
  <2>5. ASSUME NEW n \in Built, RunAgain(n)
        PROVE  job'.at # "idle" => job'.of \in Built
    BY <2>5 DEF RunAgain
  <2> QED
    BY <2>1, <2>2, <2>3, <2>4, <2>5
<1> QED
  BY <1>1, <1>2, <1>3 DEF StepInv, BundleShape, AllGrown, Grown, Built, IsSmallStep,
     ShrinkFloor, ShareOf

LEMMA StepInvNext == StepInv /\ [PublisherNext]_pubVars => StepInv'
<1> SUFFICES ASSUME StepInv, [PublisherNext]_pubVars PROVE StepInv'
  OBVIOUS
<1>1. CASE \E e1, e2 \in EasySizes \cup {0}, u \in UboSizes, version \in 1..MaxVersion,
             staged, moved \in SUBSET Fragile : Build(e1, e2, u, version, staged, moved)
  BY <1>1, BuildGrows, PublisherAssumption DEF BundleLists
<1>2. CASE \/ Rejected \/ Sign \/ UploadEnds \/ Published \/ PublishFails
           \/ \E a \in Assets : RemoveAsset(a) \/ UploadAsset(a)
           \/ \E n \in Built : RunAgain(n)
  BY <1>2, OtherSteps, PubInvNext DEF StepInv
<1>3. CASE UNCHANGED pubVars
  BY <1>3, PubInvNext DEF pubVars, StepInv, BundleShape, AllGrown, Grown, Built,
     IsSmallStep, ShrinkFloor, ShareOf
<1> QED
  BY <1>1, <1>2, <1>3 DEF PublisherNext

\* For lists of every size and any number of bundles, from one bundle that browsers
\* could take to the next no list loses more than the limits allow and the version
\* does not go back, unless an upload had touched the release between them.
THEOREM StepsStaySmall == PublisherSpec => StepsAreSmall
<1>1. StepInv /\ [PublisherNext]_pubVars =>
        [LET to == bundle[whole'] IN
         whole' > whole /\ whole # 0 /\ to.base = whole /\ to.clean
           => IsSmallStep(bundle[whole], to)]_pubVars
  <2> SUFFICES ASSUME StepInv, [PublisherNext]_pubVars, whole' > whole, whole # 0,
                      bundle[whole'].base = whole, bundle[whole'].clean
               PROVE  IsSmallStep(bundle[whole], bundle[whole'])
    OBVIOUS
  <2>1. StepInv'
    BY StepInvNext
  <2>2. whole' # whole
    BY DEF StepInv, BundleShape, Built
  <2>3. Published
    <3>1. ASSUME NEW e1, NEW e2, NEW u, NEW version, NEW staged, NEW moved,
                 Build(e1, e2, u, version, staged, moved)
          PROVE  whole' = whole
      BY <3>1 DEF Build
    <3>2. ASSUME Rejected \/ Sign \/ UploadEnds \/ PublishFails
          PROVE  whole' = whole
      BY <3>2 DEF Rejected, Sign, UploadEnds, PublishFails
    <3>3. ASSUME NEW a, RemoveAsset(a) \/ UploadAsset(a)
          PROVE  whole' = whole
      BY <3>3 DEF RemoveAsset, UploadAsset
    <3>4. ASSUME NEW n, RunAgain(n)
          PROVE  whole' = whole
      BY <3>4 DEF RunAgain
    <3>5. UNCHANGED pubVars => whole' = whole
      BY DEF pubVars
    <3> QED
      BY <2>2, <3>1, <3>2, <3>3, <3>4, <3>5 DEF PublisherNext
  <2>4. whole' = job.of /\ job.of \in Built
    BY <2>3 DEF Published, StepInv, BundleShape
  <2> QED
    BY <2>4 DEF StepInv, AllGrown, Grown
<1> QED
  BY <1>1, StepInvInit, StepInvNext, PTL DEF PublisherSpec, StepsAreSmall

\* What the types say besides.
PubTyped ==
  /\ asset \in [Assets -> Pubs \cup {NoAsset, Bad}]
  /\ \E n \in 0..MaxPubs : bundle \in [1..n -> Bundle]
  /\ \A n \in Built : bundle[n].version <= MaxVersion /\ bundle[n].base <= MaxPubs
  /\ damage \subseteq Built \X BundleLists
  /\ job \in [at : {"idle", "approval", "lists", "ends"}, of : Built \cup {0},
              todo : SUBSET Assets]

LEMMA PubTypedInit == PublisherInit => PubTyped
<1> SUFFICES ASSUME PublisherInit PROVE PubTyped
  OBVIOUS
<1>1. bundle \in [1..0 -> Bundle] /\ Built = {}
  BY DEF PublisherInit, Built
<1>2. 0 \in 0..MaxPubs
  BY PublisherAssumption
<1> QED
  BY <1>1, <1>2 DEF PublisherInit, PubTyped, NoRun

LEMMA BuildIsTyped ==
  ASSUME StepInv, PubTyped,
         NEW e1 \in Nat, NEW e2 \in Nat, NEW u \in Nat, NEW version \in 1..MaxVersion,
         NEW staged \in SUBSET BundleLists, NEW moved \in SUBSET BundleLists,
         Build(e1, e2, u, version, staged, moved)
  PROVE  PubTyped'
<1> DEFINE degraded == (e1 = 0) # (e2 = 0)
           new == [easylist |-> e1 + e2, ubo |-> u, degraded |-> degraded,
                   version |-> version, base |-> whole, clean |-> settled]
<1>1. PICK k \in 0..MaxPubs : bundle \in [1..k -> Bundle]
  BY DEF PubTyped
<1>2. Built = 1..k /\ Cardinality(Built) = k /\ k \in Nat /\ MaxPubs \in Nat
  BY <1>1, FS_Interval, PublisherAssumption DEF Built
<1>3. /\ bundle' = [i \in 1..(k + 1) |-> IF i = k + 1 THEN new ELSE bundle[i]]
      /\ damage' = damage \cup {k + 1} \X (staged \cup moved)
      /\ job' = [at |-> "approval", of |-> k + 1, todo |-> {}]
      /\ k + 1 <= MaxPubs
      /\ UNCHANGED asset
  BY <1>2 DEF Build
<1>4. whole \in 0..k /\ settled \in BOOLEAN
  BY <1>2 DEF StepInv, BundleShape
<1>5. new \in Bundle /\ new.version <= MaxVersion /\ new.base <= MaxPubs
  BY <1>2, <1>4, PublisherAssumption DEF Bundle
<1> HIDE DEF new
<1>6. bundle' \in [1..(k + 1) -> Bundle] /\ Built' = 1..(k + 1)
  BY <1>1, <1>2, <1>3, <1>5 DEF Built
<1>7. \E n \in 0..MaxPubs : bundle' \in [1..n -> Bundle]
  BY <1>2, <1>3, <1>6
<1>8. \A n \in Built' : bundle'[n].version <= MaxVersion /\ bundle'[n].base <= MaxPubs
  <2> SUFFICES ASSUME NEW n \in 1..(k + 1)
               PROVE  bundle'[n].version <= MaxVersion /\ bundle'[n].base <= MaxPubs
    BY <1>6
  <2>1. CASE n = k + 1
    BY <2>1, <1>3, <1>5
  <2>2. CASE n \in 1..k
    BY <2>2, <1>2, <1>3 DEF PubTyped
  <2> QED
    BY <2>1, <2>2, <1>2
<1>9. damage' \subseteq Built' \X BundleLists
  BY <1>2, <1>3, <1>6 DEF PubTyped
<1>10. job' \in [at : {"idle", "approval", "lists", "ends"}, of : Built' \cup {0},
                todo : SUBSET Assets]
  BY <1>2, <1>3, <1>6
<1>11. asset' \in [Assets -> Pubs \cup {NoAsset, Bad}]
  BY <1>3 DEF PubTyped, Pubs
<1> QED
  BY <1>7, <1>8, <1>9, <1>10, <1>11 DEF PubTyped

LEMMA OtherStepsAreTyped ==
  ASSUME StepInv, PubTyped,
         \/ Rejected \/ Sign \/ UploadEnds \/ Published \/ PublishFails
         \/ \E a \in Assets : RemoveAsset(a) \/ UploadAsset(a)
         \/ \E n \in Built : RunAgain(n)
  PROVE  PubTyped'
<1> DEFINE RunTypes == [at : {"idle", "approval", "lists", "ends"}, of : Built \cup {0},
                    todo : SUBSET Assets]
<1>1. bundle' = bundle /\ damage' = damage
  BY DEF Rejected, Sign, UploadEnds, Published, PublishFails, RemoveAsset, UploadAsset,
         RunAgain
<1>2. Built' = Built
  BY <1>1 DEF Built
<1>3. job' \in RunTypes
  <2>1. CASE Rejected \/ Published \/ PublishFails
    BY <2>1 DEF Rejected, Published, PublishFails, NoRun
  <2>2. CASE Sign \/ UploadEnds
    BY <2>2 DEF Sign, UploadEnds, PubTyped, Assets
  <2>3. CASE \E a \in Assets : RemoveAsset(a) \/ UploadAsset(a)
    BY <2>3 DEF RemoveAsset, UploadAsset, PubTyped
  <2>4. CASE \E n \in Built : RunAgain(n)
    BY <2>4 DEF RunAgain
  <2> QED
    BY <2>1, <2>2, <2>3, <2>4
<1>4. asset' \in [Assets -> Pubs \cup {NoAsset, Bad}]
  <2>1. CASE \/ Rejected \/ Sign \/ UploadEnds \/ Published \/ PublishFails
             \/ \E n \in Built : RunAgain(n)
    BY <2>1 DEF Rejected, Sign, UploadEnds, Published, PublishFails, RunAgain, PubTyped, Pubs
  <2>2. ASSUME NEW a \in Assets, RemoveAsset(a)
        PROVE  asset' \in [Assets -> Pubs \cup {NoAsset, Bad}]
    BY <2>2 DEF RemoveAsset, PubTyped
  <2>3. ASSUME NEW a \in Assets, UploadAsset(a)
        PROVE  asset' \in [Assets -> Pubs \cup {NoAsset, Bad}]
    <3>1. job.of \in Built
      BY <2>3 DEF UploadAsset, StepInv, PubInv, UploadIsOwn, BundleShape
    <3>2. Built \subseteq Pubs
      BY PublisherAssumption DEF PubTyped, Built, Pubs
    <3> QED
      BY <2>3, <3>1, <3>2 DEF UploadAsset, PubTyped
  <2> QED
    BY <2>1, <2>2, <2>3
<1> QED
  BY <1>1, <1>2, <1>3, <1>4 DEF PubTyped

LEMMA PubTypedNext == StepInv /\ PubTyped /\ [PublisherNext]_pubVars => PubTyped'
<1> SUFFICES ASSUME StepInv, PubTyped, [PublisherNext]_pubVars PROVE PubTyped'
  OBVIOUS
<1>1. CASE \E e1, e2 \in EasySizes \cup {0}, u \in UboSizes, version \in 1..MaxVersion,
             staged, moved \in SUBSET Fragile : Build(e1, e2, u, version, staged, moved)
  BY <1>1, BuildIsTyped, PublisherAssumption DEF BundleLists
<1>2. CASE \/ Rejected \/ Sign \/ UploadEnds \/ Published \/ PublishFails
           \/ \E a \in Assets : RemoveAsset(a) \/ UploadAsset(a)
           \/ \E n \in Built : RunAgain(n)
  BY <1>2, OtherStepsAreTyped
<1>3. CASE UNCHANGED pubVars
  BY <1>3 DEF pubVars, PubTyped, Built, Pubs
<1> QED
  BY <1>1, <1>2, <1>3 DEF PublisherNext

LEMMA PublisherIsTyped == StepInv /\ PubTyped => PublisherTypeOK
<1> SUFFICES ASSUME StepInv, PubTyped PROVE PublisherTypeOK
  OBVIOUS
<1> DEFINE Record == [easylist : Nat, ubo : Nat, degraded : BOOLEAN,
                      version : 0..MaxVersion, base : 0..MaxPubs, clean : BOOLEAN]
<1>1. PICK k \in 0..MaxPubs : bundle \in [1..k -> Bundle]
  BY DEF PubTyped
<1>2. ASSUME NEW n \in 1..k PROVE bundle[n] \in Record
  <2>1. bundle[n] \in Bundle /\ bundle[n].version <= MaxVersion /\ bundle[n].base <= MaxPubs
    BY <1>1 DEF PubTyped, Built
  <2>2. bundle[n].version \in 0..MaxVersion /\ bundle[n].base \in 0..MaxPubs
    BY <2>1, PublisherAssumption DEF Bundle
  <2> QED
    BY <2>1, <2>2 DEF Bundle
<1>3. bundle \in [1..k -> Record]
  BY <1>1, <1>2
<1> QED
  BY <1>3 DEF StepInv, BundleShape, PubTyped, PublisherTypeOK

\* The variables of the publisher keep their types and their bounds.
THEOREM PublisherTypeCorrect == PublisherSpec => []PublisherTypeOK
<1> QED
  BY StepInvInit, StepInvNext, PubTypedInit, PubTypedNext, PublisherIsTyped, PTL
     DEF PublisherSpec

-----------------------------------------------------------------------------
(* The four together *)

\* Type correctness of the run that composes them: whoever moves leaves the state of
\* the other three alone.
THEOREM PublishingTypeCorrect == MCSpec => []TypeOK
<1> DEFINE Moved == DirectivesMove \/ FeedsMove \/ PublisherMoves \/ ReleaseMoves
           Inv == /\ DirectivesInv /\ FeedsInv /\ StepInv /\ PubTyped
                  /\ ReleaseInv /\ Bounds
<1>1. MCInit => Inv
  BY DirectivesInvInit, FeedsInvInit, StepInvInit, PubTypedInit, ReleaseInvInit, BoundsInit
  DEF MCInit
<1>2. ASSUME [Moved]_vars
      PROVE  /\ [DirectivesNext]_directiveVars /\ [FeedsNext]_feedVars
             /\ [PublisherNext]_pubVars /\ [ReleaseNext]_releaseVars
  BY <1>2 DEF DirectivesMove, FeedsMove, PublisherMoves, ReleaseMoves, vars
<1>3. ASSUME Inv, [Moved]_vars
      PROVE  Inv'
  BY <1>2, <1>3, DirectivesInvNext, FeedsInvNext, StepInvNext, PubTypedNext,
     ReleaseInvNext, BoundsNext
<1>4. Inv => TypeOK
  BY PublisherIsTyped, ReleaseIsTyped DEF DirectivesInv, FeedsInv, FeedsTyped, TypeOK
<1> QED
  BY <1>1, <1>3, <1>4, PTL DEF MCSpec
=============================================================================
