------------------------------- MODULE Knowledge -------------------------------
(***************************************************************************)
(* The documentation search (bundle/retriever.go): the bundle is loaded    *)
(* whole or not at all, and a query is scored against each of its chunks   *)
(* by the words they share.  Texts are sequences of normalised words;      *)
(* stems, aliases, anchors and concepts of words are constants.  A chunk   *)
(* is [id, title, heading, content, size]; a bundle lists its chunks by    *)
(* path and ordinal; a line that is no chunk is one without content.       *)
(***************************************************************************)
EXTENDS Naturals, Sequences, FiniteSets, SequencesExt, Collections

CONSTANTS
  Words,
  StopWords,   \* words of no meaning for a search, and single letters
  Stem,        \* Stem[w]: w without its ending
  Aliases,     \* Aliases[w]: English names of a Russian term
  Anchors,     \* words that read like an identifier (isTechnicalAnchor)
  Concepts,    \* Concepts[w], for w = defineSomething: something
  MaxResults   \* AI_KNOWLEDGE_MAX_RESULTS

ASSUME WordsAreSane ==
  /\ StopWords \subseteq Words /\ Anchors \subseteq Words
  /\ Stem \in [Words -> Words]
  /\ Aliases \in [Words -> SUBSET Words]
  /\ \A w \in Words : IsFiniteSet(Aliases[w])
  /\ DOMAIN Concepts \subseteq Words
  /\ MaxResults \in Nat \ {0}

\* A line of the bundle, and a bundle as it is found on disk.
Line   == [id : STRING, title : Seq(Words), heading : Seq(Words), content : Seq(Words), size : Nat]
Bundle == [verified : BOOLEAN, lines : Seq(Line)]

\* NewRetriever and load: the path is set, the manifest and the checksum are as
\* they should be, and every line is a chunk.  Otherwise nothing is kept.
Loads(bundle) ==
  /\ bundle.verified
  /\ bundle.lines # <<>>
  /\ \A i \in DOMAIN bundle.lines : bundle.lines[i].content # <<>>

Chunks(bundle) == IF Loads(bundle) THEN bundle.lines ELSE <<>>

-----------------------------------------------------------------------------
(* The query. *)

\* Distinct words that mean something, in the order they were said.
WithTerm(terms, w) ==
  IF Contains(terms, w) \/ w \in StopWords THEN terms ELSE Append(terms, w)

Terms(said) == FoldLeft(WithTerm, <<>>, said)

\* Stems and aliases of the terms.
ExpandedTerms(said) ==
  LET terms == ToSet(Terms(said))
  IN  (UNION {{Stem[t]} \cup Aliases[t] : t \in terms}) \ terms

Phrases(said) ==
  LET terms == Terms(said) IN {<<terms[i], terms[i + 1]>> : i \in 1 .. (Len(terms) - 1)}

-----------------------------------------------------------------------------
(* The score of a chunk. *)

Text(chunk) == chunk.title \o chunk.heading \o chunk.content

SearchTokens(chunk) ==
  ToSet(Text(chunk)) \cup {Stem[Text(chunk)[i]] : i \in DOMAIN Text(chunk)}

\* A text contains a word also as the beginning of a longer one.
Mentions(text, w) == \E i \in DOMAIN text : w \in {text[i], Stem[text[i]]}

MentionsPhrase(text, p) ==
  \E i \in 1 .. (Len(text) - 1) : text[i] = p[1] /\ p[2] \in {text[i + 1], Stem[text[i + 1]]}

PhraseScore(chunk, p) ==
  IF MentionsPhrase(chunk.title, p) THEN 40
  ELSE IF MentionsPhrase(chunk.heading, p) THEN 25
  ELSE IF MentionsPhrase(Text(chunk), p) THEN 10
  ELSE 0

PlaceScore(chunk, t) ==
  IF chunk.title = <<t>> THEN 30
  ELSE IF Mentions(chunk.title, t) THEN 24
  ELSE IF Mentions(chunk.heading, t) THEN 12
  ELSE 3

\* The page of a concept counts even when it does not name defineSomething.
ConceptScore(chunk, t) ==
  IF t \notin DOMAIN Concepts \/ chunk.title # <<Concepts[t]>> THEN 0
  ELSE IF chunk.heading = chunk.title THEN 120 ELSE 70

TermScore(chunk, t) ==
  ConceptScore(chunk, t) +
  IF t \notin SearchTokens(chunk) THEN 0
  ELSE PlaceScore(chunk, t) + (IF t \in DOMAIN Concepts THEN 30 ELSE 0)
                            + (IF t \in Anchors THEN 50 ELSE 0)

Score(chunk, said) ==
  LET terms == ToSet(Terms(said)) \cup ExpandedTerms(said) IN
  Total([p \in Phrases(said) |-> PhraseScore(chunk, p)]) + Total([t \in terms |-> TermScore(chunk, t)])

-----------------------------------------------------------------------------
(* The search. *)

\* The share of the terms the best match has, as a pair.
QueryCoverage(chunk, said) ==
  LET terms == ToSet(Terms(said)) IN
  IF terms = {} THEN <<1, 1>>
  ELSE <<Cardinality({t \in terms : {t, Stem[t]} \cap SearchTokens(chunk) # {}}),
         Cardinality(terms)>>

Less(a, b) == a[1] * b[2] < b[1] * a[2]

\* Chunks with a score, best first, then as in the bundle.
Scored(chunks, said) ==
  {s \in {[at |-> i, score |-> Score(chunks[i], said)] : i \in DOMAIN chunks} : s.score > 0}

Better == {pair \in [at : Nat, score : Nat] \X [at : Nat, score : Nat] :
             \/ pair[1].score > pair[2].score
             \/ pair[1].score = pair[2].score /\ pair[1].at < pair[2].at}

Ranked(chunks, said) == SortedBy(Scored(chunks, said), Better)

\* The best MaxResults of them are the matches.
Result(chunks, said, ranked) ==
  [said     |-> said,
   matches  |-> [k \in {k \in DOMAIN ranked : k <= MaxResults} |->
                   [chunk |-> chunks[ranked[k].at].id, score |-> ranked[k].score,
                    size |-> chunks[ranked[k].at].size]],
   best     |-> IF ranked = <<>> THEN 0 ELSE ranked[1].score,
   coverage |-> IF ranked = <<>> THEN <<0, 1>> ELSE QueryCoverage(chunks[ranked[1].at], said)]

Retrieve(chunks, said) == Result(chunks, said, Ranked(chunks, said))
=============================================================================
