------------------------------- MODULE Selection -------------------------------
(***************************************************************************)
(* The domain selector (snapshot/selector.go): runs ask it, at once, for   *)
(* the documents of a snapshot that fit a mention; each looks the index of *)
(* the snapshot up in the shared cache, or builds it (SnapshotCache), and  *)
(* then ranks the documents.  Texts are sequences of normalised words; a   *)
(* document is [type, identity, name, note, folder, body], where note is   *)
(* its description and body the other words of its JSON.                   *)
(***************************************************************************)
EXTENDS SnapshotCache, FiniteSets, SequencesExt, Collections

CONSTANTS
  Alphabet,     \* the words of the model, in the order of strings (no
                \* document has both a word and one that contains it)
  Letters,      \* Letters[w]: the length of w
  Near,         \* Near[<<a, b>>]: edits from text a to text b, where few enough
  Index,        \* Index[k]: the documents of the snapshot k
  Foreign,      \* snapshots of another kind or schema
  Inputs,       \* selections a run may ask for
  DefaultLimit  \* AI_DOMAIN_CONTEXT_MAX_RESULTS

Word == ToSet(Alphabet)

ASSUME SelectionAssumption ==
  /\ Foreign \subseteq Keys \ Malformed
  /\ Keys \ (Malformed \cup Foreign) \subseteq DOMAIN Index
  /\ DefaultLimit \in Nat \ {0}
  /\ \A in \in Inputs : in.said \in Seq(Word) /\ in.limit \in Nat

ASSUME DocumentsAssumption ==
  /\ Alphabet \in Seq(STRING)
  /\ \A pair \in DOMAIN Near : Near[pair] \in Nat
  /\ \A k \in DOMAIN Index : IsFiniteSet(Index[k]) /\ \A d \in Index[k] :
       /\ {d.type, d.identity} \subseteq Word
       /\ {d.name, d.note, d.body} \subseteq Seq(Word)
       \* Identities are unique within a collection.
       /\ \A e \in Index[k] : d.type = e.type /\ d.identity = e.identity => d = e

VARIABLES
  asked,  \* what a run selects
  found   \* what a selection has just returned; None after any other step

selectorVars == <<cache, order, wanted, pc, got, asked, found>>

-----------------------------------------------------------------------------
(* The score of a document. *)

Header(d) == <<d.type, d.identity>> \o d.name \o d.note

SearchText(d) == Header(d) \o d.body

HasPhrase(text, a, b) == \E i \in 1 .. (Len(text) - 1) : text[i] = a /\ text[i + 1] = b

PhraseScore(d, a, b) ==
  IF HasPhrase(Header(d), a, b) THEN 24 ELSE IF HasPhrase(SearchText(d), a, b) THEN 8 ELSE 0

WordScore(d, w) ==
  IF Contains(Header(d), w) THEN 10 ELSE IF Contains(SearchText(d), w) THEN 2 ELSE 0

Length(text) == FoldLeft(LAMBDA n, w : n + Letters[w], Len(text) - 1, text)

\* Neither too short to be compared by letters, nor further apart than allowed.
Fuzzy(said, text) ==
  IF Length(said) < 4 \/ Length(text) < 4 THEN 0
  ELSE IF said = text THEN 12
  ELSE IF <<said, text>> \in DOMAIN Near THEN 12 - 2 * Near[<<said, text>>]
  ELSE 0

\* A word said twice counts twice.
Score(d, said) ==
  LET words   == Total([i \in DOMAIN said |-> WordScore(d, said[i])])
      phrases == Total([i \in 1 .. (Len(said) - 1) |-> PhraseScore(d, said[i], said[i + 1])])
  IN  Max({words + phrases, Fuzzy(said, <<d.identity>>), Fuzzy(said, d.name)})

-----------------------------------------------------------------------------
(* The selection. *)

Place(w) == CHOOSE i \in DOMAIN Alphabet : Alphabet[i] = w

\* sort.SliceStable by the score, then by type and identity.
Ahead(scored) ==
  {pair \in scored \X scored :
     LET a == pair[1]
         b == pair[2]
     IN  \/ a.score > b.score
         \/ a.score = b.score /\ Place(a.doc.type) < Place(b.doc.type)
         \/ a.score = b.score /\ a.doc.type = b.doc.type
                             /\ Place(a.doc.identity) < Place(b.doc.identity)}

Ranked(scored) ==
  LET sorted == SortedBy(scored, Ahead(scored)) IN [i \in DOMAIN sorted |-> sorted[i].doc]

\* Type and folder are restricted before anything is ranked.
InScope(docs, in) ==
  {d \in docs : /\ in.types = {} \/ d.type \in in.types
                /\ in.folder = None \/ d.folder = in.folder}

DirectScore(d, in) == LET s == Score(d, in.said) IN IF in.all /\ s = 0 THEN 1 ELSE s

Direct(docs, in) ==
  Ranked({s \in {[doc |-> d, score |-> DirectScore(d, in)] : d \in docs} : s.score > 0})

MaxMatches(in) == IF in.limit < 1 THEN DefaultLimit ELSE in.limit

\* Two thirds of the matches, rounded up, are kept for direct ones.
PrimaryLimit(in) ==
  IF MaxMatches(in) > 1 THEN (2 * MaxMatches(in) + 2) \div 3 ELSE MaxMatches(in)

Take(s, n) == SubSeq(s, 1, Min({n, Len(s)}))

\* The identities a document may refer to another by (normalizeReference).
References(docs) == {d.identity : d \in {d \in docs : Letters[d.identity] >= 3}}

Mentioned(d, primary) == Cardinality(References(primary) \cap ToSet(SearchText(d)))

\* Direct matches are related as well.
Mutant_RelatedAgain(docs, in, primary) ==
  Ranked({s \in {[doc |-> d, score |-> Mentioned(d, primary)] : d \in docs} : s.score > 0})

\* Documents that are no match themselves and mention one, by how many.
Related(docs, in, primary) ==
  LET others == docs \ ToSet(Direct(docs, in))
  IN  Ranked({s \in {[doc |-> d, score |-> Mentioned(d, primary)] : d \in others} : s.score > 0})

\* Room that related documents leave is not given back to direct ones.
Mutant_NoFill(direct, primary, room) == <<>>

\* One direct match too many is skipped.
Mutant_FillSkipsOne(direct, primary, room) ==
  Take(SubSeq(direct, Len(primary) + 2, Len(direct)), room)

\* The direct matches after the primary ones, as far as there is room.
Fill(direct, primary, room) ==
  Take(SubSeq(direct, Len(primary) + 1, Len(direct)), room)

Match(d, kind) == [doc |-> d, kind |-> kind]

Selected(docs, in) ==
  LET scope   == InScope(docs, in)
      direct  == Direct(scope, in)
      primary == Take(direct, PrimaryLimit(in))
      related == Take(Related(scope, in, ToSet(primary)), MaxMatches(in) - Len(primary))
      rest    == Fill(direct, primary, MaxMatches(in) - Len(primary) - Len(related))
      matches(s, kind) == [i \in DOMAIN s |-> Match(s[i], kind)]
  IN  matches(primary, "direct") \o matches(related, "related") \o matches(rest, "direct")

-----------------------------------------------------------------------------
(* The runs: SnapshotCache's steps look the index up, then it is used. *)

\* Select begins with the look-up of its index.
Select(c) ==
  /\ asked[c] = None
  /\ Hit(c) \/ Miss(c)
  /\ \E in \in Inputs : asked' = [asked EXCEPT ![c] = in]
  /\ found' = None

Indexes(c) ==
  /\ DecodeFails(c) \/ Build(c) \/ Store(c)
  /\ found' = None
  /\ UNCHANGED asked

\* What a run receives: nothing of a snapshot it cannot read.
Selection(index, key, in) ==
  [key |-> key, in |-> in,
   matches |-> IF index \in Foreign \cup {"error"} THEN None ELSE Selected(Index[index], in)]

Return(c) ==
  /\ asked[c] # None
  /\ pc[c] = "idle"
  /\ found' = Selection(got[c], wanted[c], asked[c])
  /\ asked' = [asked EXCEPT ![c] = None]
  /\ UNCHANGED vars

SelectorInit ==
  /\ Init
  /\ asked = [c \in Callers |-> None]
  /\ found = None

SelectorNext == \E c \in Callers : Select(c) \/ Indexes(c) \/ Return(c)

SelectorSpec == SelectorInit /\ [][SelectorNext]_selectorVars

-----------------------------------------------------------------------------
(* Properties: TypeOK, OrderListsTheCache and StoredSnapshotIsServed of the *)
(* cache, and what a selection is.                                          *)

Selections == IF found = None \/ found.matches = None THEN {} ELSE {found}

Documents(s) == {s.matches[i].doc : i \in DOMAIN s.matches}
OfKind(s, kind) == {s.matches[i].doc : i \in {i \in DOMAIN s.matches : s.matches[i].kind = kind}}

ExactMatches(docs, said) == {d \in docs : said = <<d.identity>> \/ (said = d.name /\ said # <<>>)}

\* A selection is of the snapshot asked for, within its scope and its limit,
\* names no document twice, and has every exact match unless it is full: what
\* preparation relies on (preparation/coordinator.go:108, resolver.go:36).
ExactMatchIsFoundUnlessFull ==
  \A s \in Selections :
    LET scope == InScope(Index[s.key], s.in) IN
    /\ Documents(s) \subseteq scope
    /\ Cardinality(Documents(s)) = Len(s.matches)
    /\ Len(s.matches) <= MaxMatches(s.in)
    /\ ExactMatches(scope, s.in.said) \subseteq Documents(s) \/ Len(s.matches) = MaxMatches(s.in)

\* Related documents take the place of direct ones only below all that are kept:
\* no direct match that is left out scores higher than one that is not
\* (selector.go:137, 183).
NothingOutranksWhatIsKept ==
  \A s \in Selections :
    \A d \in OfKind(s, "direct") : \A e \in InScope(Index[s.key], s.in) \ Documents(s) :
      DirectScore(e, s.in) <= DirectScore(d, s.in)

\* A related document is no direct match, and mentions one that the same
\* selection has: what it is related to is never cut off by the limit
\* (selector.go:149).
RelatedToWhatIsKept ==
  \A s \in Selections : \A d \in OfKind(s, "related") :
    /\ DirectScore(d, s.in) = 0
    /\ \E e \in OfKind(s, "direct") : Contains(SearchText(d), e.identity)
=============================================================================
