----------------------------- MODULE ContextBudget -----------------------------
(***************************************************************************)
(* The Context Adequacy Gate's arithmetic (adequacy.go): which blocks of   *)
(* context fit the character budget, and whether every mandatory one is    *)
(* among them.  A block is [key, task, mandatory, score, size]; its size   *)
(* is the length of its JSON, and a comma separates it from the previous.  *)
(***************************************************************************)
EXTENDS Naturals, Sequences, SequencesExt, Collections

\* sort.SliceStable: mandatory blocks first, then by score, then as they came.
Before(blocks, i, j) ==
  \/ blocks[i].mandatory /\ ~blocks[j].mandatory
  \/ /\ blocks[i].mandatory = blocks[j].mandatory
     /\ \/ blocks[i].score > blocks[j].score
        \/ blocks[i].score = blocks[j].score /\ i < j

Ordered(blocks) ==
  LET places == DOMAIN blocks
      order  == SortedBy(places, {p \in places \X places : Before(blocks, p[1], p[2])})
  IN  [k \in places |-> blocks[order[k]]]

\* fitBlocks: a block that does not fit is skipped, not the end of the list.
Fit(blocks, room) ==
  LET Take(taken, b) ==
        LET cost == b.size + IF taken.kept = <<>> THEN 0 ELSE 1
        IN  IF taken.used + cost > room THEN taken
            ELSE [used |-> taken.used + cost, kept |-> Append(taken.kept, b)]
  IN  FoldLeft(Take, [used |-> 0, kept |-> <<>>], Ordered(blocks)).kept

\* The gate without its check.
Mutant_AnythingFits(blocks, fitted) == TRUE

\* allMandatoryBlocksFit compares keys, not blocks.
AllMandatoryFit(blocks, fitted) ==
  \A i \in DOMAIN blocks : blocks[i].mandatory =>
    \E j \in DOMAIN fitted : fitted[j].key = blocks[i].key
=============================================================================
