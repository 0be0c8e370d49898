------------------------------ MODULE Directives ------------------------------
(***************************************************************************)
(* What "!#if", "!#else" and "!#endif" leave of a filter list:             *)
(* prune_directives() of tools/get_filterlists.py, which reads a list line *)
(* by line and has to drop what uBlock Origin would drop.                  *)
(***************************************************************************)
EXTENDS Integers, Sequences, FiniteSets

CONSTANT MaxLines  \* bound on the lines of a list

VARIABLES
  text,        \* the lines read
  blocks,      \* the blocks that are open: whether known, whether discarding
  discarding,
  keptLines    \* for every line whether it is kept

directiveVars == <<text, blocks, discarding, keptLines>>

\* An expression that cannot be evaluated is "unknown"; its block is kept.
Values == {"true", "false", "unknown"}
If(v) == [kind |-> "if", value |-> v]
Plain(k) == [kind |-> k, value |-> "true"]
Lines == {If(v) : v \in Values} \cup {Plain("else"), Plain("endif"), Plain("rule")}

DirectivesInit ==
  /\ text = <<>>
  /\ blocks = <<>>
  /\ discarding = FALSE
  /\ keptLines = <<>>

Discards(b) == b.known /\ b.discard
\* should_discard(), of the blocks that are left.
ShouldDiscard(bs) == \E i \in DOMAIN bs : Discards(bs[i])
Outer == SubSeq(blocks, 1, Len(blocks) - 1)
\* A bug for the checks: "!#else" leaves the block as it is.
NotFlipped == blocks[Len(blocks)]
\* The block is open again behind its "!#else".
Flipped == [blocks[Len(blocks)] EXCEPT !.discard = ~@]

\* A bug for the checks: a line that is dropped leaves no mark.
KeepUnmarked(line, now) ==
  /\ text' = Append(text, line)
  /\ discarding' = now
  /\ keptLines' = IF discarding THEN keptLines ELSE Append(keptLines, ~now)
\* `now' is whether lines are discarded after this one.
Keep(line, now) ==
  /\ text' = Append(text, line)
  /\ discarding' = now
  /\ keptLines' = Append(keptLines, ~discarding /\ ~now)

ReadIf(v) ==
  LET b == [known |-> v # "unknown", discard |-> v = "false"] IN
  /\ blocks' = Append(blocks, b)
  /\ Keep(If(v), discarding \/ Discards(b))

ReadElse ==
  /\ blocks # <<>>
  /\ blocks' = Append(Outer, Flipped)
  /\ Keep(Plain("else"), (discarding /\ ShouldDiscard(Outer)) \/ Discards(Flipped))

ReadEndif ==
  /\ blocks # <<>>
  /\ blocks' = Outer
  /\ Keep(Plain("endif"), discarding /\ ShouldDiscard(Outer))

\* A rule, a comment, an include; and a stray "!#else" or "!#endif".
ReadPlain(k) ==
  /\ k = "rule" \/ blocks = <<>>
  /\ UNCHANGED blocks
  /\ Keep(Plain(k), discarding)

DirectivesNext ==
  /\ Len(text) < MaxLines
  /\ \/ \E v \in Values : ReadIf(v)
     \/ ReadElse
     \/ ReadEndif
     \/ \E k \in {"rule", "else", "endif"} : ReadPlain(k)

DirectivesSpec == DirectivesInit /\ [][DirectivesNext]_directiveVars

DirectivesTypeOK ==
  /\ text \in Seq(Lines)
  /\ blocks \in Seq([known : BOOLEAN, discard : BOOLEAN])
  /\ discarding \in BOOLEAN
  /\ keptLines \in Seq(BOOLEAN) /\ Len(keptLines) = Len(text)

-----------------------------------------------------------------------------
(* Which lines apply, from the text alone. *)

Count(k, a, b) == Cardinality({i \in a..b : text[i].kind = k})

\* The block that line j opens is still open after line n.
OpenAfter(j, n) ==
  /\ text[j].kind = "if"
  /\ \A k \in (j + 1)..n : Count("if", j + 1, k) >= Count("endif", j + 1, k)

\* Line k is the "!#else" of the block that line j opens.
ElseOf(j, k) ==
  /\ text[k].kind = "else"
  /\ OpenAfter(j, k)
  /\ Count("if", j + 1, k) = Count("endif", j + 1, k)

DroppedAfter(n) ==
  \E j \in 1..n :
    /\ OpenAfter(j, n)
    /\ text[j].value # "unknown"
    /\ LET elses == Cardinality({k \in (j + 1)..n : ElseOf(j, k)}) IN
       (text[j].value = "false") = (elses % 2 = 0)

\* A line is kept just when no block around it, however deep, is excluded
\* here, and a directive when that is so on both sides of it.
PrunedAsUbo ==
  \A i \in DOMAIN text :
    keptLines[i] = (~DroppedAfter(i - 1) /\ ~DroppedAfter(i))
=============================================================================
