---------------------------- MODULE SelectionProofs ----------------------------
(***************************************************************************)
(* The cache of indexed snapshots never exceeds its limit and its order    *)
(* lists it exactly, for every number of runs and every limit; and a       *)
(* selection is what preparation takes it for, for every snapshot, text    *)
(* and limit.                                                              *)
(***************************************************************************)
EXTENDS Selection, DataInduction

-----------------------------------------------------------------------------
(* The cache. *)

Inv == TypeOK /\ OrderListsTheCache

\* Appending a key that is not in the sequence keeps its entries distinct and
\* adds just that key.
LEMMA AppendFresh ==
  ASSUME NEW s \in Seq(Keys), NEW k \in Keys, k \notin {s[i] : i \in DOMAIN s},
         \A i, j \in DOMAIN s : s[i] = s[j] => i = j
  PROVE  /\ Append(s, k) \in Seq(Keys)
         /\ Len(Append(s, k)) = Len(s) + 1
         /\ {Append(s, k)[i] : i \in DOMAIN Append(s, k)} = {s[i] : i \in DOMAIN s} \cup {k}
         /\ \A i, j \in DOMAIN Append(s, k) : Append(s, k)[i] = Append(s, k)[j] => i = j
<1> DEFINE u == Append(s, k)
<1>1. u \in Seq(Keys) /\ Len(u) = Len(s) + 1 /\ DOMAIN u = 1 .. (Len(s) + 1) /\ DOMAIN s = 1 .. Len(s)
  OBVIOUS
<1>2. \A i \in 1 .. Len(s) : u[i] = s[i]
  OBVIOUS
<1>3. u[Len(s) + 1] = k
  OBVIOUS
<1> HIDE DEF u
<1>4. {u[i] : i \in DOMAIN u} = {s[i] : i \in DOMAIN s} \cup {k}
  <2>1. ASSUME NEW x \in {u[i] : i \in DOMAIN u} PROVE x \in {s[i] : i \in DOMAIN s} \cup {k}
    BY <1>1, <1>2, <1>3
  <2>2. ASSUME NEW i \in DOMAIN s PROVE s[i] \in {u[j] : j \in DOMAIN u}
    BY <1>1, <1>2
  <2>3. k \in {u[j] : j \in DOMAIN u}
    BY <1>1, <1>3
  <2>4. \A x \in {s[i] : i \in DOMAIN s} : x \in {u[j] : j \in DOMAIN u}
    BY <2>2
  <2> QED BY <2>1, <2>3, <2>4
<1>5. \A i, j \in DOMAIN u : u[i] = u[j] => i = j
  BY <1>1, <1>2, <1>3
<1> QED BY <1>1, <1>4, <1>5 DEF u

\* Dropping the head of a sequence without repetitions drops that entry only.
LEMMA TailDropsHead ==
  ASSUME NEW s \in Seq(Keys), s # <<>>,
         \A i, j \in DOMAIN s : s[i] = s[j] => i = j
  PROVE  /\ Tail(s) \in Seq(Keys)
         /\ Len(Tail(s)) = Len(s) - 1
         /\ {Tail(s)[i] : i \in DOMAIN Tail(s)} = {s[i] : i \in DOMAIN s} \ {Head(s)}
         /\ \A i, j \in DOMAIN Tail(s) : Tail(s)[i] = Tail(s)[j] => i = j
<1> DEFINE u == Tail(s)
<1>1. /\ u \in Seq(Keys) /\ Len(u) = Len(s) - 1 /\ Len(s) \in Nat \ {0}
      /\ DOMAIN u = 1 .. (Len(s) - 1) /\ DOMAIN s = 1 .. Len(s) /\ Head(s) = s[1]
  OBVIOUS
<1>2. \A i \in 1 .. (Len(s) - 1) : u[i] = s[i + 1]
  OBVIOUS
<1> HIDE DEF u
<1>3. {u[i] : i \in DOMAIN u} = {s[i] : i \in DOMAIN s} \ {Head(s)}
  <2>1. ASSUME NEW i \in DOMAIN u PROVE u[i] \in {s[j] : j \in DOMAIN s} /\ u[i] # Head(s)
    <3>1. i + 1 \in DOMAIN s /\ i + 1 # 1 /\ 1 \in DOMAIN s /\ u[i] = s[i + 1]
      BY <1>1, <1>2
    <3> QED BY <3>1, <1>1
  <2>2. ASSUME NEW j \in DOMAIN s, s[j] # Head(s) PROVE s[j] \in {u[i] : i \in DOMAIN u}
    <3>1. j - 1 \in DOMAIN u /\ u[j - 1] = s[j]
      BY <1>1, <1>2, <2>2
    <3> QED BY <3>1
  <2> QED BY <2>1, <2>2
<1>4. ASSUME NEW i \in DOMAIN u, NEW j \in DOMAIN u, u[i] = u[j] PROVE i = j
  <2>1. /\ i + 1 \in DOMAIN s /\ j + 1 \in DOMAIN s
        /\ u[i] = s[i + 1] /\ u[j] = s[j + 1] /\ i \in Nat /\ j \in Nat
    BY <1>1, <1>2
  <2>2. i + 1 = j + 1
    BY <1>4, <2>1
  <2> QED BY <2>1, <2>2
<1> QED BY <1>1, <1>3, <1>4 DEF u

\* Entering a key that is not cached keeps order and cache in step.
LEMMA EnterKeepsOrder ==
  ASSUME Inv, NEW k \in Keys, k \notin cache, Enter(k)
  PROVE  /\ cache' \subseteq Keys
         /\ order' \in Seq(Keys)
         /\ OrderListsTheCache'
         /\ k \in cache'
<1> DEFINE u == Append(order, k)
<1> USE CacheAssumption
<1>0. order \in Seq(Keys) /\ cache = {order[i] : i \in DOMAIN order} /\ Len(order) <= Limit
      /\ (\A i, j \in DOMAIN order : order[i] = order[j] => i = j) /\ cache \subseteq Keys
  BY DEF Inv, TypeOK, OrderListsTheCache
<1>1. /\ u \in Seq(Keys) /\ Len(u) = Len(order) + 1
      /\ {u[i] : i \in DOMAIN u} = cache \cup {k}
      /\ \A i, j \in DOMAIN u : u[i] = u[j] => i = j
  BY <1>0, AppendFresh
<1>2. CASE Len(order) < Limit
  <2>1. cache' = cache \cup {k} /\ order' = u
    BY <1>2 DEF Enter
  <2>2. Len(u) <= Limit
    BY <1>0, <1>1, <1>2
  <2> HIDE DEF u
  <2> QED BY <1>0, <1>1, <2>1, <2>2 DEF OrderListsTheCache
<1>3. CASE ~(Len(order) < Limit)
  <2>1. cache' = (cache \cup {k}) \ {Head(u)} /\ order' = Tail(u)
    BY <1>3 DEF Enter
  <2>2. Len(order) = Limit /\ order # <<>> /\ u # <<>>
    BY <1>0, <1>1, <1>3
  <2>3. Head(u) = order[1] /\ 1 \in DOMAIN order
    BY <1>0, <2>2
  <2>4. Head(u) # k
    BY <1>0, <2>3
  <2>5. /\ Tail(u) \in Seq(Keys) /\ Len(Tail(u)) = Len(u) - 1
        /\ {Tail(u)[i] : i \in DOMAIN Tail(u)} = (cache \cup {k}) \ {Head(u)}
        /\ \A i, j \in DOMAIN Tail(u) : Tail(u)[i] = Tail(u)[j] => i = j
    BY <1>1, <2>2, TailDropsHead
  <2>6. Len(Tail(u)) <= Limit
    BY <1>0, <1>1, <2>2, <2>5
  <2> HIDE DEF u
  <2> QED BY <1>0, <2>1, <2>4, <2>5, <2>6 DEF OrderListsTheCache
<1> QED BY <1>2, <1>3

LEMMA Initially == Init => Inv
<1> SUFFICES ASSUME Init PROVE Inv
  OBVIOUS
<1>1. TypeOK
  BY DEF Init, TypeOK
<1>2. OrderListsTheCache
  BY CacheAssumption DEF Init, OrderListsTheCache
<1> QED BY <1>1, <1>2 DEF Inv

LEMMA StepKeeps == Inv /\ [Next]_vars => Inv'
<1> SUFFICES ASSUME Inv, [Next]_vars PROVE Inv'
  OBVIOUS
<1> USE CacheAssumption DEF Inv
<1>1. CASE UNCHANGED vars
  BY <1>1 DEF vars, TypeOK, OrderListsTheCache
<1>2. ASSUME NEW c \in Callers, Hit(c) PROVE Inv'
  BY <1>2 DEF Hit, TypeOK, OrderListsTheCache
<1>3. ASSUME NEW c \in Callers, Miss(c) PROVE Inv'
  BY <1>3 DEF Miss, TypeOK, OrderListsTheCache
<1>4. ASSUME NEW c \in Callers, DecodeFails(c) PROVE Inv'
  BY <1>4 DEF DecodeFails, TypeOK, OrderListsTheCache
<1>5. ASSUME NEW c \in Callers, Build(c) PROVE Inv'
  BY <1>5 DEF Build, TypeOK, OrderListsTheCache
<1>6. ASSUME NEW c \in Callers, Store(c) PROVE Inv'
  <2>1. wanted[c] \in Keys
    BY <1>6 DEF Store, TypeOK
  <2>2. cache' \subseteq Keys /\ order' \in Seq(Keys) /\ OrderListsTheCache'
    <3>1. CASE StillMissing(wanted[c])
      BY <1>6, <2>1, <3>1, EnterKeepsOrder DEF Store, StillMissing
    <3>2. CASE ~StillMissing(wanted[c])
      BY <1>6, <3>2 DEF Store, TypeOK, OrderListsTheCache
    <3> QED BY <3>1, <3>2
  <2>3. TypeOK'
    BY <1>6, <2>1, <2>2 DEF Store, TypeOK
  <2> QED BY <2>2, <2>3
<1> QED BY <1>1, <1>2, <1>3, <1>4, <1>5, <1>6 DEF Next

\* Types are respected (Selector.index).
THEOREM CacheTypeCorrect == Spec => []TypeOK
<1>1. Inv => TypeOK
  BY DEF Inv
<1> QED BY Initially, StepKeeps, <1>1, PTL DEF Spec

\* The eviction order lists the cached keys exactly, each once, and never more
\* than the limit: two runs that index one snapshot at once do not enter it
\* twice (selector.go:230).
THEOREM OrderAlwaysListsTheCache == Spec => []OrderListsTheCache
<1>1. Inv => OrderListsTheCache
  BY DEF Inv
<1> QED BY Initially, StepKeeps, <1>1, PTL DEF Spec

\* A snapshot a run has just indexed is in the cache when the run leaves it
\* (selector.go:233).
THEOREM StoredIsServed == Spec => StoredSnapshotIsServed
<1>1. Inv /\ [Next]_vars => [\A c \in Callers : Store(c) => wanted[c] \in cache']_vars
  <2> SUFFICES ASSUME Inv, NEW c \in Callers, Store(c) PROVE wanted[c] \in cache'
    OBVIOUS
  <2>1. wanted[c] \in Keys
    BY DEF Store, Inv, TypeOK
  <2>2. CASE StillMissing(wanted[c])
    BY <2>1, <2>2, EnterKeepsOrder DEF Store, StillMissing
  <2>3. CASE ~StillMissing(wanted[c])
    BY <2>3 DEF Store, StillMissing
  <2> QED BY <2>2, <2>3
<1> QED BY Initially, StepKeeps, <1>1, PTL DEF Spec, StoredSnapshotIsServed

-----------------------------------------------------------------------------
(* The selector uses its cache as module SnapshotCache says. *)

\* A step of a selection is a step of the cache, or leaves it alone
\* (selector.go:70).
THEOREM SelectorUsesTheCache == SelectorSpec => Spec
<1>1. SelectorInit => Init
  BY DEF SelectorInit
<1>2. [SelectorNext]_selectorVars => [Next]_vars
  <2> SUFFICES ASSUME [SelectorNext]_selectorVars PROVE [Next]_vars
    OBVIOUS
  <2>1. CASE UNCHANGED selectorVars
    BY <2>1 DEF selectorVars, vars
  <2>2. ASSUME NEW c \in Callers, Select(c) PROVE Next
    BY <2>2 DEF Select, Next
  <2>3. ASSUME NEW c \in Callers, Indexes(c) PROVE Next
    BY <2>3 DEF Indexes, Next
  <2>4. ASSUME NEW c \in Callers, Return(c) PROVE UNCHANGED vars
    BY <2>4 DEF Return
  <2> QED
    BY <2>1, <2>2, <2>3, <2>4 DEF SelectorNext
<1> QED
  BY <1>1, <1>2, PTL DEF SelectorSpec, Spec

\* The map of indexed snapshots and its eviction order agree, whatever runs
\* select at once (selector.go:230).
THEOREM SelectorsOrderListsItsCache == SelectorSpec => []OrderListsTheCache
BY SelectorUsesTheCache, OrderAlwaysListsTheCache, PTL

\* What a selection has just indexed is in the cache when the selection goes on
\* with it (selector.go:233).
THEOREM SelectorServesWhatItStored == SelectorSpec => StoredSnapshotIsServed
BY SelectorUsesTheCache, StoredIsServed

-----------------------------------------------------------------------------
(* The score. *)

\* What the documents of a snapshot are like.
Sane(docs) ==
  /\ IsFiniteSet(docs)
  /\ \A d \in docs :
       /\ d.type \in Word /\ d.identity \in Word
       /\ d.name \in Seq(Word) /\ d.note \in Seq(Word) /\ d.body \in Seq(Word)
       /\ \A e \in docs : d.type = e.type /\ d.identity = e.identity => d = e

LEMMA MaxOfThree ==
  ASSUME NEW a \in Int, NEW b \in Int, NEW c \in Int
  PROVE  Max({a, b, c}) \in Int /\ Max({a, b, c}) >= a
<1>1. \E x \in {a, b, c} : \A y \in {a, b, c} : x >= y
  OBVIOUS
<1>2. Max({a, b, c}) \in {a, b, c} /\ \A y \in {a, b, c} : Max({a, b, c}) >= y
  BY <1>1 DEF Max
<1> QED
  BY <1>2

LEMMA FuzzyIsANumber ==
  ASSUME NEW said, NEW text
  PROVE  Fuzzy(said, text) \in Int
BY DocumentsAssumption DEF Fuzzy

LEMMA PartsOfScore ==
  ASSUME NEW d
  PROVE  /\ \A w : WordScore(d, w) \in Nat
         /\ \A w : Contains(Header(d), w) => WordScore(d, w) = 10
         /\ \A a, b : PhraseScore(d, a, b) \in Nat
BY DEF WordScore, PhraseScore

\* Every word counts.
LEMMA ScoreOfWords ==
  ASSUME NEW d, NEW said \in Seq(Word)
  PROVE  /\ Score(d, said) \in Nat
         /\ \A i \in DOMAIN said : WordScore(d, said[i]) <= Score(d, said)
<1> DEFINE W == DOMAIN said
           P == 1 .. (Len(said) - 1)
           ws == [i \in W |-> WordScore(d, said[i])]
           ps == [i \in P |-> PhraseScore(d, said[i], said[i + 1])]
           x == Total(ws) + Total(ps)
           y == Fuzzy(said, <<d.identity>>)
           z == Fuzzy(said, d.name)
<1>1. Len(said) \in Nat /\ W = 1 .. Len(said)
  OBVIOUS
<1>2. IsFiniteSet(W) /\ IsFiniteSet(P)
  <2>1. 1 \in Int /\ Len(said) \in Int /\ Len(said) - 1 \in Int
    BY <1>1
  <2> QED
    BY <1>1, <2>1, FS_Interval
<1>3. ws \in [W -> Nat] /\ ps \in [P -> Nat] /\ \A i \in W : ws[i] = WordScore(d, said[i])
  BY PartsOfScore
<1>4. y \in Int /\ z \in Int
  BY FuzzyIsANumber
<1>5. Score(d, said) = Max({x, y, z})
  BY Zenon DEF Score
<1> HIDE DEF W, P, ws, ps, y, z
<1>6. Total(ws) \in Nat /\ Total(ps) \in Nat /\ \A i \in W : ws[i] <= Total(ws)
  BY <1>2, <1>3, TotalIsNat
<1>7. x \in Nat
  BY <1>6
<1> HIDE DEF x
<1>8. Max({x, y, z}) \in Int /\ Max({x, y, z}) >= x
  BY <1>4, <1>7, MaxOfThree
<1>9. \A i \in W : ws[i] <= x
  <2> SUFFICES ASSUME NEW i \in W PROVE ws[i] <= x
    OBVIOUS
  <2>1. ws[i] \in Nat /\ ws[i] <= Total(ws)
    BY <1>3, <1>6
  <2> QED
    BY <1>6, <2>1 DEF x
<1>10. \A i \in W : WordScore(d, said[i]) <= Score(d, said)
  <2> SUFFICES ASSUME NEW i \in W PROVE WordScore(d, said[i]) <= Score(d, said)
    OBVIOUS
  <2>1. ws[i] \in Nat /\ ws[i] <= x /\ ws[i] = WordScore(d, said[i])
    BY <1>3, <1>9
  <2> QED
    BY <1>5, <1>7, <1>8, <2>1
<1>11. Score(d, said) \in Nat
  <2> DEFINE v == Max({x, y, z})
  <2>1. v \in Int /\ v >= x
    BY <1>8
  <2> HIDE DEF v
  <2>2. v \in Nat
    BY <1>7, <2>1
  <2> QED
    BY <1>5, <2>2 DEF v
<1> QED
  BY <1>10, <1>11 DEF W

LEMMA ThreeParts ==
  ASSUME NEW W, NEW s \in Seq(W), NEW t \in Seq(W), NEW u \in Seq(W)
  PROVE  /\ s \o t \o u \in Seq(W)
         /\ Len(s \o t \o u) = Len(s) + Len(t) + Len(u)
         /\ \A i \in 1 .. Len(s) : (s \o t \o u)[i] = s[i]
         /\ \A i \in 1 .. Len(t) : (s \o t \o u)[Len(s) + i] = t[i]
OBVIOUS

LEMMA BeginningOfText ==
  ASSUME NEW W, NEW a \in W, NEW b \in W, NEW n \in Seq(W), NEW m \in Seq(W)
  PROVE  \A h : h = <<a, b>> \o n \o m =>
         /\ Len(h) = 2 + Len(n) + Len(m)
         /\ h[2] = b
         /\ n # <<>> => h[3] = n[1]
<1>1. \A p \in Seq(W) :
         /\ Len(p \o n \o m) = Len(p) + Len(n) + Len(m)
         /\ 2 \in 1 .. Len(p) => (p \o n \o m)[2] = p[2]
         /\ n # <<>> => (p \o n \o m)[Len(p) + 1] = n[1]
  <2>1. n # <<>> => 1 \in 1 .. Len(n)
    OBVIOUS
  <2> QED BY <2>1, ThreeParts
<1>2. <<a, b>> \in Seq(W) /\ Len(<<a, b>>) = 2 /\ <<a, b>>[2] = b
  OBVIOUS
<1>3. 2 \in 1 .. 2 /\ 2 + 1 = 3
  OBVIOUS
<1>4. \A p : p \in Seq(W) /\ Len(p) = 2 /\ p[2] = b =>
         /\ Len(p \o n \o m) = 2 + Len(n) + Len(m)
         /\ (p \o n \o m)[2] = b
         /\ n # <<>> => (p \o n \o m)[2 + 1] = n[1]
  BY <1>1, <1>3, Zenon
<1> QED
  BY <1>2, <1>4, <1>3, Zenon

LEMMA DirectScoreIs ==
  ASSUME NEW d, NEW in, in.said \in Seq(Word)
  PROVE  DirectScore(d, in) \in Nat /\ Score(d, in.said) <= DirectScore(d, in)
<1>1. Score(d, in.said) \in Nat
  BY ScoreOfWords
<1> QED
  BY <1>1 DEF DirectScore

\* Whoever says an identity or a name finds the document by it.
LEMMA ExactMatchesScore ==
  ASSUME NEW docs, Sane(docs), NEW in, in.said \in Seq(Word), NEW d \in ExactMatches(docs, in.said)
  PROVE  d \in docs /\ DirectScore(d, in) > 0
<1> DEFINE said == in.said
<1>1. d \in docs /\ said \in Seq(Word)
  BY DEF ExactMatches
<1>2. said = <<d.identity>> \/ (said = d.name /\ said # <<>>)
  BY DEF ExactMatches
<1>3. d.type \in Word /\ d.identity \in Word /\ d.name \in Seq(Word) /\ d.note \in Seq(Word)
  BY <1>1 DEF Sane
<1> HIDE DEF said
<1>4. 1 \in DOMAIN said
  BY <1>1, <1>2
<1>5. Contains(Header(d), said[1])
  <2> DEFINE h == Header(d)
  <2>0. h = <<d.type, d.identity>> \o d.name \o d.note
    BY DEF Header
  <2> HIDE DEF h
  <2>01. /\ Len(h) = 2 + Len(d.name) + Len(d.note)
         /\ h[2] = d.identity
         /\ d.name # <<>> => h[3] = d.name[1]
    <3>1. \A a, b \in Word : \A n, m \in Seq(Word) : \A g : g = <<a, b>> \o n \o m =>
            /\ Len(g) = 2 + Len(n) + Len(m)
            /\ g[2] = b
            /\ n # <<>> => g[3] = n[1]
      BY BeginningOfText
    <3> DEFINE ty == d.type
               id == d.identity
               nm == d.name
               nt == d.note
    <3>2. ty \in Word /\ id \in Word /\ nm \in Seq(Word) /\ nt \in Seq(Word)
          /\ h = <<ty, id>> \o nm \o nt
      BY <1>3, <2>0
    <3> HIDE DEF ty, id, nm, nt
    <3>3. /\ Len(h) = 2 + Len(nm) + Len(nt)
          /\ h[2] = id
          /\ nm # <<>> => h[3] = nm[1]
      BY <3>1, <3>2
    <3> QED
      BY <3>3 DEF ty, id, nm, nt
  <2>1. /\ Len(h) \in Nat
        /\ 2 \in 1 .. Len(h) /\ h[2] = d.identity
        /\ d.name # <<>> => 3 \in 1 .. Len(h) /\ h[3] = d.name[1]
    <3>1. Len(d.name) \in Nat /\ Len(d.note) \in Nat /\ (d.name # <<>> => Len(d.name) > 0)
      BY <1>3
    <3>2. Len(h) = 2 + Len(d.name) + Len(d.note)
      BY <2>01
    <3>3. Len(h) \in Nat /\ 2 \in 1 .. Len(h) /\ (Len(d.name) > 0 => 3 \in 1 .. Len(h))
      <4>1. \A x, y, z \in Nat : x = 2 + y + z => 2 \in 1 .. x /\ (y > 0 => 3 \in 1 .. x)
        OBVIOUS
      <4>2. \A y, z \in Nat : 2 + y + z \in Nat
        OBVIOUS
      <4> QED
        BY <3>1, <3>2, <4>1, <4>2, Zenon
    <3> QED
      BY <2>01, <3>1, <3>3, Zenon
  <2>2. \E i \in 1 .. Len(h) : h[i] = said[1]
    <3>1. CASE said = <<d.identity>>
      <4>1. said[1] = d.identity
        BY <3>1
      <4> QED
        BY <2>1, <4>1
    <3>2. CASE said = d.name /\ said # <<>>
      BY <2>1, <3>2
    <3> QED
      BY <1>2, <3>1, <3>2
  <2> QED
    BY <2>2 DEF Contains, h
<1>6. WordScore(d, said[1]) = 10
  BY <1>5, PartsOfScore
<1>7. 10 <= Score(d, said)
  BY <1>1, <1>4, <1>6, ScoreOfWords
<1>8. Score(d, said) \in Nat /\ DirectScore(d, in) \in Nat /\ Score(d, said) <= DirectScore(d, in)
  BY <1>1, ScoreOfWords, DirectScoreIs DEF said
<1> QED
  BY <1>1, <1>7, <1>8

-----------------------------------------------------------------------------
(* The ranking. *)

Lists(r, D) ==
  /\ r \in Seq(D)
  /\ \A i, j \in DOMAIN r : r[i] = r[j] => i = j
  /\ \A d \in D : \E i \in DOMAIN r : r[i] = d

Falls(r, f) == \A i, j \in DOMAIN r : i < j => f[r[j]] <= f[r[i]]

LEMMA PlacesDiffer ==
  /\ \A w \in Word : Place(w) \in Nat
  /\ \A v, w \in Word : Place(v) = Place(w) => v = w
<1>1. \A w \in Word : \E i \in DOMAIN Alphabet : Alphabet[i] = w
  BY DEF Word, ToSet
<1>2. \A w \in Word : Place(w) \in DOMAIN Alphabet /\ Alphabet[Place(w)] = w
  BY <1>1, Zenon DEF Place
<1>3. DOMAIN Alphabet \subseteq Nat
  BY DocumentsAssumption
<1> QED
  BY <1>2, <1>3, Zenon

\* Candidates are in order: by score, type and identity no two of them tie.
LEMMA AheadOrders ==
  ASSUME NEW docs, Sane(docs), NEW S,
         \A s \in S : s.doc \in docs /\ s.score \in Nat,
         \A s, t \in S : s.doc = t.doc => s = t
  PROVE  Orders(S, Ahead(S))
<1> DEFINE ty(s) == Place(s.doc.type)
           id(s) == Place(s.doc.identity)
<1>1. \A s \in S : ty(s) \in Nat /\ id(s) \in Nat /\ s.score \in Nat
  BY PlacesDiffer DEF Sane
<1>2. \A s, t \in S : s.doc.type = t.doc.type <=> ty(s) = ty(t)
  BY PlacesDiffer DEF Sane
<1>3. \A s, t \in S : ty(s) = ty(t) /\ id(s) = id(t) => s = t
  <2> SUFFICES ASSUME NEW s \in S, NEW t \in S, ty(s) = ty(t), id(s) = id(t) PROVE s = t
    OBVIOUS
  <2>1. s.doc \in docs /\ t.doc \in docs
    OBVIOUS
  <2>2. s.doc.type = t.doc.type /\ s.doc.identity = t.doc.identity
    BY <2>1, PlacesDiffer DEF Sane
  <2>3. s.doc = t.doc
    BY <2>1, <2>2 DEF Sane
  <2> QED
    BY <2>3
<1>4. \A s, t \in S : <<s, t>> \in Ahead(S) <=>
        \/ s.score > t.score
        \/ s.score = t.score /\ ty(s) < ty(t)
        \/ s.score = t.score /\ ty(s) = ty(t) /\ id(s) < id(t)
  <2> SUFFICES ASSUME NEW s \in S, NEW t \in S
               PROVE  <<s, t>> \in Ahead(S) <=>
                        \/ s.score > t.score
                        \/ s.score = t.score /\ ty(s) < ty(t)
                        \/ s.score = t.score /\ s.doc.type = t.doc.type /\ id(s) < id(t)
    BY <1>2
  <2> QED
    BY Zenon DEF Ahead
<1> HIDE DEF ty, id
<1>5. \A s \in S : <<s, s>> \notin Ahead(S)
  BY <1>1, <1>4
<1>6. \A s, t, u \in S : <<s, t>> \in Ahead(S) /\ <<t, u>> \in Ahead(S) => <<s, u>> \in Ahead(S)
  <2> SUFFICES ASSUME NEW s \in S, NEW t \in S, NEW u \in S,
                      <<s, t>> \in Ahead(S), <<t, u>> \in Ahead(S)
               PROVE  \/ s.score > u.score
                      \/ s.score = u.score /\ ty(s) < ty(u)
                      \/ s.score = u.score /\ ty(s) = ty(u) /\ id(s) < id(u)
    BY <1>4
  <2>1. \/ s.score > t.score
        \/ s.score = t.score /\ ty(s) < ty(t)
        \/ s.score = t.score /\ ty(s) = ty(t) /\ id(s) < id(t)
    BY <1>4
  <2>2. \/ t.score > u.score
        \/ t.score = u.score /\ ty(t) < ty(u)
        \/ t.score = u.score /\ ty(t) = ty(u) /\ id(t) < id(u)
    BY <1>4
  <2> QED
    BY <1>1, <2>1, <2>2
<1>7. \A s, t \in S : s # t => <<s, t>> \in Ahead(S) \/ <<t, s>> \in Ahead(S)
  BY <1>1, <1>3, <1>4
<1> QED
  BY <1>5, <1>6, <1>7 DEF Orders

InOrder(S, R, s) ==
  /\ s \in [1 .. Cardinality(S) -> S]
  /\ \A i, j \in 1 .. Cardinality(S) : i < j => <<s[i], s[j]>> \in R
  /\ \A x \in S : \E i \in 1 .. Cardinality(S) : s[i] = x

LEMMA SortedIsInOrder ==
  ASSUME NEW S, IsFiniteSet(S), NEW R, Orders(S, R)
  PROVE  Cardinality(S) \in Nat /\ InOrder(S, R, SortedBy(S, R))
<1>1. /\ Cardinality(S) \in Nat
      /\ SortedBy(S, R) \in [1 .. Cardinality(S) -> S]
      /\ \A i, j \in 1 .. Cardinality(S) : i < j => <<SortedBy(S, R)[i], SortedBy(S, R)[j]>> \in R
      /\ \A x \in S : \E i \in 1 .. Cardinality(S) : SortedBy(S, R)[i] = x
  BY SortedInOrder
<1> QED
  BY <1>1, Zenon DEF InOrder

\* The ranking lists what has a score, higher scores first.
LEMMA RankedLists ==
  ASSUME NEW docs, Sane(docs), NEW D \in SUBSET docs, NEW f \in [D -> Nat], NEW S,
         S = {s \in {[doc |-> d, score |-> f[d]] : d \in D} : s.score > 0}
  PROVE  Lists(Ranked(S), {d \in D : f[d] > 0}) /\ Falls(Ranked(S), f)
<1> DEFINE K == {d \in D : f[d] > 0}
           g == [d \in K |-> [doc |-> d, score |-> f[d]]]
           sorted == SortedBy(S, Ahead(S))
           n == Cardinality(S)
           r == Ranked(S)
<1>1. \A s \in S : s.doc \in K /\ s = g[s.doc] /\ s.score = f[s.doc]
  OBVIOUS
<1>2. S = {g[d] : d \in K} /\ \A d \in K : g[d] \in S /\ g[d].doc = d
  <2>1. ASSUME NEW d \in K PROVE g[d] \in S /\ g[d].doc = d
    OBVIOUS
  <2> HIDE DEF g
  <2>2. S \subseteq {g[d] : d \in K}
    BY <1>1
  <2> QED
    BY <2>1, <2>2
<1>3. IsFiniteSet(S)
  <2>1. IsFiniteSet(K)
    BY FS_Subset DEF Sane
  <2>2. DOMAIN g = K
    OBVIOUS
  <2> HIDE DEF g, K
  <2> QED
    BY <1>2, <2>1, <2>2, FiniteImage
<1>4. Orders(S, Ahead(S))
  <2>1. (\A s \in S : s.doc \in docs /\ s.score \in Nat) /\ \A s, t \in S : s.doc = t.doc => s = t
    BY <1>1
  <2> QED
    BY <2>1, AheadOrders
<1>5. /\ n \in Nat /\ sorted \in [1 .. n -> S]
      /\ \A i, j \in 1 .. n : i < j => <<sorted[i], sorted[j]>> \in Ahead(S)
      /\ \A s \in S : \E i \in 1 .. n : sorted[i] = s
  <2>1. Cardinality(S) \in Nat /\ InOrder(S, Ahead(S), SortedBy(S, Ahead(S)))
    <3> HIDE DEF K, g, sorted, n, r
    <3> QED
      BY <1>3, <1>4, SortedIsInOrder
  <2> QED
    BY <2>1, Zenon DEF InOrder
<1>6. r = [i \in 1 .. n |-> sorted[i].doc]
  <2>1. DOMAIN sorted = 1 .. n
    BY <1>5
  <2> QED
    BY <2>1 DEF Ranked
<1> HIDE DEF n, sorted, r, g, K
<1>7. r \in [1 .. n -> K] /\ \A i \in 1 .. n : r[i] = sorted[i].doc /\ sorted[i] \in S
  BY <1>1, <1>5, <1>6
<1>8. r \in Seq(K) /\ DOMAIN r = 1 .. n
  BY <1>5, <1>7
<1>9. \A i, j \in 1 .. n : i < j => f[r[j]] <= f[r[i]]
  <2> SUFFICES ASSUME NEW i \in 1 .. n, NEW j \in 1 .. n, i < j PROVE f[r[j]] <= f[r[i]]
    OBVIOUS
  <2>1. <<sorted[i], sorted[j]>> \in Ahead(S)
    BY <1>5
  <2>2. sorted[i].score >= sorted[j].score
    <3>1. sorted[i].score > sorted[j].score \/ sorted[i].score = sorted[j].score
      BY <2>1, Zenon DEF Ahead
    <3>2. sorted[i].score \in Nat /\ sorted[j].score \in Nat
      BY <1>1, <1>7 DEF K
    <3> QED
      BY <3>1, <3>2
  <2> QED
    BY <1>1, <1>7, <2>2
<1>10. \A i, j \in 1 .. n : r[i] = r[j] => i = j
  <2> SUFFICES ASSUME NEW i \in 1 .. n, NEW j \in 1 .. n, r[i] = r[j], i # j PROVE FALSE
    OBVIOUS
  <2>1. sorted[i] = sorted[j] /\ sorted[i] \in S
    BY <1>1, <1>7
  <2>2. i < j \/ j < i
    BY <1>5
  <2>3. <<sorted[i], sorted[i]>> \in Ahead(S)
    BY <1>5, <2>1, <2>2
  <2> QED
    BY <1>4, <2>1, <2>3 DEF Orders
<1>11. \A d \in K : \E i \in 1 .. n : r[i] = d
  <2> SUFFICES ASSUME NEW d \in K PROVE \E i \in 1 .. n : r[i] = d
    OBVIOUS
  <2>1. g[d] \in S /\ g[d].doc = d
    BY <1>2
  <2>2. PICK i \in 1 .. n : sorted[i] = g[d]
    BY <1>5, <2>1
  <2> QED
    BY <1>7, <2>1, <2>2
<1> QED
  BY <1>8, <1>9, <1>10, <1>11 DEF Lists, Falls, r, K

\* The direct matches: all that score, higher scores first.
LEMMA DirectLists ==
  ASSUME NEW docs, Sane(docs), NEW in, in.said \in Seq(Word)
  PROVE  /\ Lists(Direct(docs, in), {d \in docs : DirectScore(d, in) > 0})
         /\ Falls(Direct(docs, in), [d \in docs |-> DirectScore(d, in)])
<1> DEFINE f == [d \in docs |-> DirectScore(d, in)]
           S == {s \in {[doc |-> d, score |-> DirectScore(d, in)] : d \in docs} : s.score > 0}
<1>1. f \in [docs -> Nat]
  BY DirectScoreIs
<1>2. S = {s \in {[doc |-> d, score |-> f[d]] : d \in docs} : s.score > 0}
  OBVIOUS
<1>3. {d \in docs : f[d] > 0} = {d \in docs : DirectScore(d, in) > 0}
  OBVIOUS
<1>4. Direct(docs, in) = Ranked(S)
  BY Zenon DEF Direct
<1> HIDE DEF f, S
<1>5. docs \in SUBSET docs
  OBVIOUS
<1>6. Lists(Ranked(S), {d \in docs : f[d] > 0}) /\ Falls(Ranked(S), f)
  BY <1>1, <1>2, <1>5, RankedLists
<1>7. f = [d \in docs |-> DirectScore(d, in)]
  BY DEF f
<1> QED
  BY <1>3, <1>4, <1>6, <1>7, Zenon

LEMMA MentionsAreCounted ==
  ASSUME NEW docs, Sane(docs), NEW primary \in SUBSET docs, NEW d
  PROVE  /\ Mentioned(d, primary) \in Nat
         /\ Mentioned(d, primary) > 0 =>
              \E e \in primary : Contains(SearchText(d), e.identity)
<1> DEFINE K == {e \in primary : Letters[e.identity] >= 3}
           g == [e \in K |-> e.identity]
           M == References(primary) \cap ToSet(SearchText(d))
<1>1. IsFiniteSet(K)
  <2>1. K \in SUBSET docs
    OBVIOUS
  <2> QED
    BY <2>1, FS_Subset DEF Sane
<1>2. References(primary) = {g[e] : e \in K} /\ DOMAIN g = K
  BY DEF References
<1>3. Mentioned(d, primary) = Cardinality(M)
  BY DEF Mentioned
<1>4. \A w \in References(primary) : \E e \in primary : w = e.identity
  BY DEF References
<1> HIDE DEF K, g
<1>5. IsFiniteSet(References(primary))
  BY <1>1, <1>2, FiniteImage
<1>6. IsFiniteSet(M)
  BY <1>5, FS_Subset
<1>7. Cardinality(M) \in Nat /\ (Cardinality(M) > 0 => M # {})
  BY <1>6, FS_CardinalityType, FS_EmptySet
<1>8. \A w \in M : \E e \in primary : w = e.identity /\ Contains(SearchText(d), w)
  BY <1>4 DEF Contains, ToSet
<1> HIDE DEF M
<1>9. ASSUME Mentioned(d, primary) > 0
      PROVE  \E e \in primary : Contains(SearchText(d), e.identity)
  <2>1. PICK w \in M : TRUE
    BY <1>3, <1>7, <1>9
  <2>2. PICK e \in primary : w = e.identity /\ Contains(SearchText(d), w)
    BY <1>8
  <2> QED
    BY <2>2
<1> QED
  BY <1>3, <1>7, <1>9

\* The related documents: those that mention a primary match, and are none.
LEMMA RelatedLists ==
  ASSUME NEW docs, Sane(docs), NEW in, NEW primary \in SUBSET docs
  PROVE  Lists(Related(docs, in, primary),
               {d \in docs \ ToSet(Direct(docs, in)) : Mentioned(d, primary) > 0})
<1> DEFINE others == docs \ ToSet(Direct(docs, in))
           f == [d \in others |-> Mentioned(d, primary)]
           S == {s \in {[doc |-> d, score |-> Mentioned(d, primary)] : d \in others} : s.score > 0}
<1>1. f \in [others -> Nat]
  BY MentionsAreCounted
<1>2. S = {s \in {[doc |-> d, score |-> f[d]] : d \in others} : s.score > 0}
  OBVIOUS
<1>3. {d \in others : f[d] > 0} = {d \in others : Mentioned(d, primary) > 0}
  OBVIOUS
<1>4. Related(docs, in, primary) = Ranked(S)
  BY Zenon DEF Related
<1>5. others \in SUBSET docs
  OBVIOUS
<1> HIDE DEF f, S, others
<1>6. Lists(Ranked(S), {d \in others : f[d] > 0})
  BY <1>1, <1>2, <1>5, RankedLists
<1> QED
  BY <1>3, <1>4, <1>6, Zenon DEF others

-----------------------------------------------------------------------------
(* The selection. *)

LEMMA TakeIs ==
  ASSUME NEW W, NEW s \in Seq(W), NEW n \in Nat
  PROVE  /\ Take(s, n) \in Seq(W)
         /\ Len(Take(s, n)) <= n /\ Len(Take(s, n)) <= Len(s)
         /\ Len(Take(s, n)) = n \/ Len(Take(s, n)) = Len(s)
         /\ \A i \in 1 .. Len(Take(s, n)) : Take(s, n)[i] = s[i]
<1>1. /\ Min({n, Len(s)}) \in {n, Len(s)}
      /\ Min({n, Len(s)}) <= n /\ Min({n, Len(s)}) <= Len(s)
  <2>1. \E x \in {n, Len(s)} : \A y \in {n, Len(s)} : x <= y
    OBVIOUS
  <2> QED
    BY <2>1 DEF Min
<1>2. PICK k \in Nat : k = Min({n, Len(s)})
  BY <1>1
<1>3. Take(s, n) = SubSeq(s, 1, k)
  BY <1>2 DEF Take
<1>4. k <= Len(s) /\ k <= n /\ (k = n \/ k = Len(s))
  BY <1>1, <1>2
<1> QED
  BY <1>3, <1>4

Filled(t, s, k, room, W) ==
  /\ t \in Seq(W)
  /\ Len(t) <= room /\ k + Len(t) <= Len(s)
  /\ Len(t) = room \/ k + Len(t) = Len(s)
  /\ \A i \in 1 .. Len(t) : t[i] = s[k + i]

LEMMA FillIs ==
  ASSUME NEW W, NEW s \in Seq(W), NEW p, Len(p) \in 0 .. Len(s), NEW room \in Nat
  PROVE  Filled(Fill(s, p, room), s, Len(p), room, W)
<1> DEFINE k == Len(p)
           u == SubSeq(s, k + 1, Len(s))
<1>1. k \in Nat /\ k <= Len(s)
  OBVIOUS
<1> HIDE DEF k
<1>2. u \in Seq(W) /\ Len(u) = Len(s) - k /\ \A i \in 1 .. Len(u) : u[i] = s[k + i]
  BY <1>1
<1>3. Fill(s, p, room) = Take(u, room)
  BY DEF Fill, k
<1> HIDE DEF u
<1>4. /\ Take(u, room) \in Seq(W)
      /\ Len(Take(u, room)) <= room /\ Len(Take(u, room)) <= Len(u)
      /\ Len(Take(u, room)) = room \/ Len(Take(u, room)) = Len(u)
      /\ \A i \in 1 .. Len(Take(u, room)) : Take(u, room)[i] = u[i]
  BY <1>2, TakeIs
<1> DEFINE t == Take(u, room)
<1> HIDE DEF t
<1>5. /\ t \in Seq(W)
      /\ Len(t) <= room /\ k + Len(t) <= Len(s)
      /\ Len(t) = room \/ k + Len(t) = Len(s)
      /\ \A i \in 1 .. Len(t) : t[i] = s[k + i]
  BY <1>1, <1>2, <1>4 DEF t
<1> QED
  BY <1>3, <1>5, Zenon DEF Filled, t, k

InputIsSane(in) == in.said \in Seq(Word) /\ in.limit \in Nat

LEMMA LimitsAre ==
  ASSUME NEW in, InputIsSane(in)
  PROVE  /\ MaxMatches(in) \in Nat /\ MaxMatches(in) >= 1
         /\ PrimaryLimit(in) \in Nat /\ PrimaryLimit(in) <= MaxMatches(in)
<1>1. MaxMatches(in) \in Nat /\ MaxMatches(in) >= 1
  BY SelectionAssumption DEF MaxMatches, InputIsSane
<1>2. \A m \in Nat : m > 1 => (2 * m + 2) \div 3 \in Nat /\ (2 * m + 2) \div 3 <= m
  OBVIOUS
<1> QED
  BY <1>1, <1>2 DEF PrimaryLimit

\* How a selection q is put together: the first p direct matches, r related
\* documents, the next f direct matches.
Assembled(q, direct, rel, p, r, f) ==
  /\ Len(q) = p + r + f
  /\ DOMAIN q = 1 .. (p + r + f)
  /\ p + f <= Len(direct)
  /\ \A i \in 1 .. p : q[i] = Match(direct[i], "direct")
  /\ \A i \in 1 .. r : q[p + i] = Match(rel[i], "related")
  /\ \A i \in 1 .. f : q[p + r + i] = Match(direct[p + i], "direct")

Lifted(x, s, k, M) ==
  x \in Seq(M) /\ Len(x) = Len(s) /\ \A i \in 1 .. Len(s) : x[i] = Match(s[i], k)

LEMMA MatchesOf ==
  ASSUME NEW W, NEW s \in Seq(W), NEW k, NEW M, \A d \in W : Match(d, k) \in M
  PROVE  Lifted([i \in DOMAIN s |-> Match(s[i], k)], s, k, M)
BY DEF Lifted

Joined(q, s, t, u, W) ==
  /\ q \in Seq(W)
  /\ Len(q) = Len(s) + Len(t) + Len(u)
  /\ \A i \in 1 .. Len(s) : q[i] = s[i]
  /\ \A i \in 1 .. Len(t) : q[Len(s) + i] = t[i]
  /\ \A i \in 1 .. Len(u) : q[Len(s) + Len(t) + i] = u[i]

LEMMA JoinedIs ==
  ASSUME NEW W, NEW s \in Seq(W), NEW t \in Seq(W), NEW u \in Seq(W)
  PROVE  Joined(s \o t \o u, s, t, u, W)
<1>1. \A i \in 1 .. Len(u) : (s \o t \o u)[Len(s) + Len(t) + i] = u[i]
  OBVIOUS
<1> QED
  BY <1>1, ThreeParts DEF Joined

LEMMA Assembling ==
  ASSUME NEW W, NEW direct \in Seq(W), NEW a \in Seq(W), NEW b \in Seq(W), NEW c \in Seq(W),
         Len(a) + Len(c) <= Len(direct),
         \A i \in 1 .. Len(a) : a[i] = direct[i],
         \A i \in 1 .. Len(c) : c[i] = direct[Len(a) + i]
  PROVE  Assembled([i \in DOMAIN a |-> Match(a[i], "direct")] \o
                   [i \in DOMAIN b |-> Match(b[i], "related")] \o
                   [i \in DOMAIN c |-> Match(c[i], "direct")],
                   direct, b, Len(a), Len(b), Len(c))
<1> DEFINE x == [i \in DOMAIN a |-> Match(a[i], "direct")]
           y == [i \in DOMAIN b |-> Match(b[i], "related")]
           z == [i \in DOMAIN c |-> Match(c[i], "direct")]
           M == {Match(d, k) : d \in W, k \in {"direct", "related"}}
<1>1. \A d \in W : Match(d, "direct") \in M /\ Match(d, "related") \in M
  OBVIOUS
<1> HIDE DEF M
<1>2. Lifted(x, a, "direct", M)
  BY <1>1, MatchesOf
<1>3. Lifted(y, b, "related", M)
  BY <1>1, MatchesOf
<1>4. Lifted(z, c, "direct", M)
  BY <1>1, MatchesOf
<1> HIDE DEF x, y, z
<1>5. /\ x \in Seq(M) /\ y \in Seq(M) /\ z \in Seq(M)
      /\ Len(x) = Len(a) /\ Len(y) = Len(b) /\ Len(z) = Len(c)
      /\ Len(a) \in Nat /\ Len(b) \in Nat /\ Len(c) \in Nat
  BY <1>2, <1>3, <1>4 DEF Lifted
<1> DEFINE q == x \o y \o z
<1>6. Joined(q, x, y, z, M)
  BY <1>5, JoinedIs
<1> HIDE DEF q
<1>7. DOMAIN q = 1 .. (Len(a) + Len(b) + Len(c)) /\ Len(q) = Len(a) + Len(b) + Len(c)
  BY <1>5, <1>6 DEF Joined
<1>8. /\ \A i \in 1 .. Len(a) : q[i] = Match(direct[i], "direct")
      /\ \A i \in 1 .. Len(b) : q[Len(a) + i] = Match(b[i], "related")
  BY <1>2, <1>3, <1>5, <1>6 DEF Joined, Lifted
<1>9. \A i \in 1 .. Len(c) : q[Len(a) + Len(b) + i] = Match(direct[Len(a) + i], "direct")
  BY <1>4, <1>5, <1>6 DEF Joined, Lifted
<1>10. Assembled(q, direct, b, Len(a), Len(b), Len(c))
  BY <1>7, <1>8, <1>9 DEF Assembled
<1> QED
  BY <1>10 DEF q, x, y, z

\* The parts of a selection: it is full, or has every direct match; what is
\* related is no direct match, and mentions a primary one.
Composed(docs, in, p, r, f, rel) ==
  LET scope   == InScope(docs, in)
      direct  == Direct(scope, in)
      primary == {direct[i] : i \in 1 .. p}
  IN  /\ Assembled(Selected(docs, in), direct, rel, p, r, f)
      /\ p + r + f <= MaxMatches(in)
      /\ p + r + f = MaxMatches(in) \/ p + f = Len(direct)
      /\ \A i \in 1 .. r : /\ rel[i] \in scope \ ToSet(direct)
                          /\ Mentioned(rel[i], primary) > 0
                          /\ \A j \in 1 .. r : rel[i] = rel[j] => i = j

LEMMA SelectedIs ==
  ASSUME NEW docs, NEW in, Sane(InScope(docs, in)), InputIsSane(in)
  PROVE  \E p, r, f \in Nat : \E rel : Composed(docs, in, p, r, f, rel)
<1> DEFINE scope   == InScope(docs, in)
           direct  == Direct(scope, in)
           m       == MaxMatches(in)
           limit   == PrimaryLimit(in)
           a       == Take(direct, limit)
           all     == Related(scope, in, ToSet(a))
           b       == Take(all, m - Len(a))
           c       == Fill(direct, a, m - Len(a) - Len(b))
           prim    == {direct[i] : i \in 1 .. Len(a)}
<1>1. Selected(docs, in) = [i \in DOMAIN a |-> Match(a[i], "direct")] \o
                           [i \in DOMAIN b |-> Match(b[i], "related")] \o
                           [i \in DOMAIN c |-> Match(c[i], "direct")]
  BY Zenon DEF Selected
<1>2. m \in Nat /\ limit \in Nat /\ limit <= m
  BY LimitsAre
<1>3. Sane(scope) /\ in.said \in Seq(Word)
  BY DEF InputIsSane
<1> HIDE DEF scope, m, limit
<1>4. direct \in Seq(scope)
  <2>1. Lists(direct, {d \in scope : DirectScore(d, in) > 0})
    BY <1>3, DirectLists, Zenon
  <2> HIDE DEF direct
  <2>2. direct \in Seq({d \in scope : DirectScore(d, in) > 0})
    BY <2>1, Zenon DEF Lists
  <2> QED
    BY <2>2
<1> HIDE DEF direct
<1>5. /\ a \in Seq(scope) /\ Len(a) <= limit /\ Len(a) <= Len(direct)
      /\ \A i \in 1 .. Len(a) : a[i] = direct[i]
  BY <1>2, <1>4, TakeIs
<1> HIDE DEF a
<1>6. Len(a) \in Nat /\ m - Len(a) \in Nat /\ Len(direct) \in Nat /\ ToSet(a) = prim
  BY <1>2, <1>4, <1>5 DEF ToSet
<1>7. ToSet(a) \in SUBSET scope
  BY <1>5 DEF ToSet
<1> DEFINE others == {d \in scope \ ToSet(direct) : Mentioned(d, ToSet(a)) > 0}
<1>8. Lists(all, others)
  BY <1>3, <1>7, RelatedLists, Zenon DEF direct
<1>9. others \subseteq scope
  OBVIOUS
<1> HIDE DEF all, prim
<1>10. \A d \in others : d \in scope \ ToSet(direct) /\ Mentioned(d, prim) > 0
  BY <1>6
<1> HIDE DEF others
<1>11. all \in Seq(others) /\ \A i, j \in DOMAIN all : all[i] = all[j] => i = j
  BY <1>8, Zenon DEF Lists
<1>12. /\ b \in Seq(others) /\ Len(b) <= m - Len(a) /\ Len(b) <= Len(all)
       /\ \A i \in 1 .. Len(b) : b[i] = all[i]
  BY <1>6, <1>11, TakeIs
<1> HIDE DEF b
<1>13. \A i \in 1 .. Len(b) : b[i] \in others /\ \A j \in 1 .. Len(b) : b[i] = b[j] => i = j
  BY <1>11, <1>12
<1>14. b \in Seq(scope) /\ Len(b) \in Nat /\ m - Len(a) - Len(b) \in Nat
  BY <1>2, <1>6, <1>9, <1>12
<1>15. /\ c \in Seq(scope)
       /\ Len(c) <= m - Len(a) - Len(b) /\ Len(a) + Len(c) <= Len(direct)
       /\ Len(c) = m - Len(a) - Len(b) \/ Len(a) + Len(c) = Len(direct)
       /\ \A i \in 1 .. Len(c) : c[i] = direct[Len(a) + i]
  <2>1. Len(a) \in 0 .. Len(direct)
    BY <1>5, <1>6
  <2> DEFINE room == m - Len(a) - Len(b)
  <2>2. c = Fill(direct, a, room) /\ room \in Nat
    BY <1>14
  <2> HIDE DEF c, room
  <2>3. Filled(Fill(direct, a, room), direct, Len(a), room, scope)
    BY <1>4, <2>1, <2>2, FillIs
  <2> QED
    BY <2>2, <2>3, Zenon DEF Filled, room
<1> HIDE DEF c
<1>16. Assembled(Selected(docs, in), direct, b, Len(a), Len(b), Len(c))
  BY <1>1, <1>4, <1>5, <1>14, <1>15, Assembling
<1>17. /\ Len(c) \in Nat
       /\ Len(a) + Len(b) + Len(c) <= m
       /\ Len(a) + Len(b) + Len(c) = m \/ Len(a) + Len(c) = Len(direct)
  BY <1>2, <1>6, <1>14, <1>15
<1>18. \A i \in 1 .. Len(b) :
          /\ b[i] \in scope \ ToSet(direct)
          /\ Mentioned(b[i], prim) > 0
          /\ \A j \in 1 .. Len(b) : b[i] = b[j] => i = j
  BY <1>10, <1>13
<1>19. Len(a) \in Nat /\ Len(b) \in Nat /\ Len(c) \in Nat
  BY <1>6, <1>14, <1>17
<1>20. Composed(docs, in, Len(a), Len(b), Len(c), b)
  BY <1>16, <1>17, <1>18, Zenon DEF Composed, scope, direct, m, prim
<1> QED
  BY <1>19, <1>20

\* The documents a selection names, by kind.
DocumentsAt(q, direct, rel, p, r, f) ==
  /\ {q[i].doc : i \in DOMAIN q} = {direct[i] : i \in 1 .. (p + f)} \cup {rel[i] : i \in 1 .. r}
  /\ {q[i].doc : i \in {i \in DOMAIN q : q[i].kind = "direct"}} = {direct[i] : i \in 1 .. (p + f)}
  /\ {q[i].doc : i \in {i \in DOMAIN q : q[i].kind = "related"}} = {rel[i] : i \in 1 .. r}

Places(i, p, r, f) ==
  \/ i \in 1 .. p
  \/ \E j \in 1 .. r : i = p + j
  \/ \E j \in 1 .. f : i = p + r + j

LEMMA EveryPlace ==
  ASSUME NEW p \in Nat, NEW r \in Nat, NEW f \in Nat
  PROVE  /\ \A i \in 1 .. (p + r + f) : Places(i, p, r, f)
         /\ \A i \in 1 .. p : i \in 1 .. (p + r + f)
         /\ \A j \in 1 .. r : p + j \in 1 .. (p + r + f)
         /\ \A j \in 1 .. f : p + r + j \in 1 .. (p + r + f) /\ p + j \in 1 .. (p + f)
         /\ \A i \in 1 .. (p + f) : i \in 1 .. p \/ \E j \in 1 .. f : i = p + j
<1>1. ASSUME NEW i \in 1 .. (p + r + f) PROVE Places(i, p, r, f)
  <2>1. CASE i <= p
    BY <2>1 DEF Places
  <2>2. CASE p < i /\ i <= p + r
    <3>1. i - p \in 1 .. r /\ i = p + (i - p)
      BY <2>2
    <3> QED
      BY <3>1 DEF Places
  <2>3. CASE p + r < i
    <3>1. i - (p + r) \in 1 .. f /\ i = p + r + (i - (p + r))
      BY <2>3
    <3> QED
      BY <3>1 DEF Places
  <2> QED
    BY <2>1, <2>2, <2>3
<1>2. ASSUME NEW i \in 1 .. (p + f) PROVE i \in 1 .. p \/ \E j \in 1 .. f : i = p + j
  <2>1. CASE i <= p
    BY <2>1
  <2>2. CASE p < i
    <3>1. i - p \in 1 .. f /\ i = p + (i - p)
      BY <2>2
    <3> QED
      BY <3>1
  <2> QED
    BY <2>1, <2>2
<1> QED
  BY <1>1, <1>2

LEMMA MatchIs == \A d, k : Match(d, k).doc = d /\ Match(d, k).kind = k
BY DEF Match

\* What stands at each place.
Standing(q, direct, rel, p, r, f) ==
  /\ \A i \in 1 .. p : q[i].doc = direct[i] /\ q[i].kind = "direct"
  /\ \A j \in 1 .. r : q[p + j].doc = rel[j] /\ q[p + j].kind = "related"
  /\ \A j \in 1 .. f : q[p + r + j].doc = direct[p + j] /\ q[p + r + j].kind = "direct"

LEMMA StandingIs ==
  ASSUME NEW q, NEW direct, NEW rel, NEW p \in Nat, NEW r \in Nat, NEW f \in Nat,
         Assembled(q, direct, rel, p, r, f)
  PROVE  Standing(q, direct, rel, p, r, f)
<1>1. \A i \in 1 .. p : q[i].doc = direct[i] /\ q[i].kind = "direct"
  BY MatchIs DEF Assembled
<1>2. \A j \in 1 .. r : q[p + j].doc = rel[j] /\ q[p + j].kind = "related"
  <2> SUFFICES ASSUME NEW j \in 1 .. r
               PROVE  q[p + j].doc = rel[j] /\ q[p + j].kind = "related"
    OBVIOUS
  <2>1. q[p + j] = Match(rel[j], "related")
    BY DEF Assembled
  <2> QED
    BY <2>1, MatchIs
<1>3. \A j \in 1 .. f : q[p + r + j].doc = direct[p + j] /\ q[p + r + j].kind = "direct"
  <2> SUFFICES ASSUME NEW j \in 1 .. f
               PROVE  q[p + r + j].doc = direct[p + j] /\ q[p + r + j].kind = "direct"
    OBVIOUS
  <2>1. q[p + r + j] = Match(direct[p + j], "direct")
    BY DEF Assembled
  <2> QED
    BY <2>1, MatchIs
<1> QED
  BY <1>1, <1>2, <1>3 DEF Standing

LEMMA DocumentsAre ==
  ASSUME NEW q, NEW direct, NEW rel, NEW p \in Nat, NEW r \in Nat, NEW f \in Nat,
         Assembled(q, direct, rel, p, r, f)
  PROVE  DocumentsAt(q, direct, rel, p, r, f)
<1> DEFINE D == {direct[i] : i \in 1 .. (p + f)}
           R == {rel[i] : i \in 1 .. r}
           N == 1 .. (p + r + f)
<1>1. Standing(q, direct, rel, p, r, f)
  BY StandingIs
<1>2. DOMAIN q = N
  BY DEF Assembled
<1>3. ASSUME NEW i \in N
      PROVE  \/ q[i].doc \in D /\ q[i].kind = "direct"
             \/ q[i].doc \in R /\ q[i].kind = "related"
  <2>1. Places(i, p, r, f)
    BY EveryPlace
  <2>2. CASE i \in 1 .. p
    BY <1>1, <2>2 DEF Standing
  <2>3. CASE \E j \in 1 .. r : i = p + j
    BY <1>1, <2>3 DEF Standing
  <2>4. CASE \E j \in 1 .. f : i = p + r + j
    <3>1. PICK j \in 1 .. f : i = p + r + j
      BY <2>4
    <3>2. p + j \in 1 .. (p + f)
      BY EveryPlace
    <3>3. q[i].doc = direct[p + j] /\ q[i].kind = "direct"
      BY <1>1, <3>1 DEF Standing
    <3> QED
      BY <3>2, <3>3
  <2> QED
    BY <2>1, <2>2, <2>3, <2>4 DEF Places
<1>4. ASSUME NEW d \in D PROVE \E i \in N : q[i].doc = d /\ q[i].kind = "direct"
  <2>1. PICK i \in 1 .. (p + f) : d = direct[i]
    OBVIOUS
  <2>2. CASE i \in 1 .. p
    BY <1>1, <2>1, <2>2 DEF Standing
  <2>3. CASE \E j \in 1 .. f : i = p + j
    <3>1. PICK j \in 1 .. f : i = p + j
      BY <2>3
    <3>2. p + r + j \in N
      BY EveryPlace
    <3> QED
      BY <1>1, <2>1, <3>1, <3>2 DEF Standing
  <2>4. i \in 1 .. p \/ \E j \in 1 .. f : i = p + j
    BY EveryPlace
  <2> QED
    BY <2>2, <2>3, <2>4
<1>5. ASSUME NEW d \in R PROVE \E i \in N : q[i].doc = d /\ q[i].kind = "related"
  <2>1. PICK j \in 1 .. r : d = rel[j]
    OBVIOUS
  <2>2. p + j \in N
    BY EveryPlace
  <2> QED
    BY <1>1, <2>1, <2>2 DEF Standing
<1> HIDE DEF D, R, N
<1>6. {q[i].doc : i \in N} = D \cup R
  BY <1>3, <1>4, <1>5
<1>7. {q[i].doc : i \in {i \in N : q[i].kind = "direct"}} = D
  BY <1>3, <1>4
<1>8. {q[i].doc : i \in {i \in N : q[i].kind = "related"}} = R
  BY <1>3, <1>5
<1> QED
  BY <1>2, <1>6, <1>7, <1>8, Zenon DEF DocumentsAt, D, R

Distinct(direct, rel, r) ==
  /\ DOMAIN direct = 1 .. Len(direct) /\ Len(direct) \in Nat
  /\ \A i, j \in DOMAIN direct : direct[i] = direct[j] => i = j
  /\ \A i \in 1 .. r : rel[i] \notin ToSet(direct) /\ \A j \in 1 .. r : rel[i] = rel[j] => i = j

\* No document is named twice, so there are as many documents as matches.
LEMMA DocumentsAreCounted ==
  ASSUME NEW q, NEW direct, NEW rel, NEW p \in Nat, NEW r \in Nat, NEW f \in Nat,
         Assembled(q, direct, rel, p, r, f), Distinct(direct, rel, r)
  PROVE  Cardinality({q[i].doc : i \in DOMAIN q}) = Len(q)
<1> DEFINE n == p + r + f
           g == [i \in 1 .. n |-> q[i].doc]
           S == {q[i].doc : i \in DOMAIN q}
<1>0. Standing(q, direct, rel, p, r, f)
  BY StandingIs
<1>1. DOMAIN q = 1 .. n /\ Len(q) = n /\ n \in Nat
  BY DEF Assembled
<1>2. DOMAIN direct = 1 .. Len(direct) /\ Len(direct) \in Nat /\ p + f <= Len(direct)
  BY DEF Assembled, Distinct
<1>3. \A i \in 1 .. r : \A j \in 1 .. Len(direct) : rel[i] # direct[j]
  BY <1>2 DEF ToSet, Distinct
<1>4. ASSUME NEW i \in 1 .. n, NEW j \in 1 .. n, q[i].doc = q[j].doc PROVE i = j
  <2> DEFINE At(k, x) == /\ q[k].doc = direct[x]
                         /\ x \in 1 .. Len(direct)
                         /\ k = IF x <= p THEN x ELSE r + x
             Rel(k, x) == /\ q[k].doc = rel[x]
                          /\ x \in 1 .. r
                          /\ k = p + x
  <2>1. ASSUME NEW k \in 1 .. n PROVE (\E x : At(k, x)) \/ \E x : Rel(k, x)
    <3>1. Places(k, p, r, f)
      BY EveryPlace
    <3>2. CASE k \in 1 .. p
      <4>1. At(k, k)
        <5>1. q[k].doc = direct[k]
          BY <1>0, <3>2 DEF Standing
        <5>2. k \in 1 .. Len(direct) /\ k <= p
          BY <1>2, <3>2
        <5> QED
          BY <5>1, <5>2
      <4> QED
        BY <4>1
    <3>3. CASE \E x \in 1 .. r : k = p + x
      <4>1. PICK x \in 1 .. r : k = p + x
        BY <3>3
      <4>2. Rel(k, x)
        BY <1>0, <4>1 DEF Standing
      <4> QED
        BY <4>2
    <3>4. CASE \E x \in 1 .. f : k = p + r + x
      <4>1. PICK x \in 1 .. f : k = p + r + x
        BY <3>4
      <4>2. q[k].doc = direct[p + x]
        BY <1>0, <4>1 DEF Standing
      <4>3. p + x \in 1 .. Len(direct) /\ p + x > p /\ k = r + (p + x)
        BY <1>2, <4>1
      <4>4. At(k, p + x)
        BY <4>2, <4>3
      <4> QED
        BY <4>4
    <3> QED
      BY <3>1, <3>2, <3>3, <3>4 DEF Places
  <2>2. ASSUME NEW x, NEW y, At(i, x), At(j, y) PROVE i = j
    BY <1>2, <1>4, <2>2 DEF Distinct
  <2>3. ASSUME NEW x, NEW y, Rel(i, x), Rel(j, y) PROVE i = j
    BY <1>4, <2>3 DEF Distinct
  <2>4. ASSUME NEW x, NEW y, (At(i, x) /\ Rel(j, y)) \/ (Rel(i, y) /\ At(j, x)) PROVE FALSE
    BY <1>3, <1>4, <2>4
  <2> HIDE DEF At, Rel
  <2>5. (\E x : At(i, x)) \/ \E x : Rel(i, x)
    BY <2>1
  <2>6. (\E x : At(j, x)) \/ \E x : Rel(j, x)
    BY <2>1
  <2> QED
    BY <2>2, <2>3, <2>4, <2>5, <2>6, Zenon
<1>5. g \in [1 .. n -> S] /\ \A i \in 1 .. n : g[i] = q[i].doc
  BY <1>1
<1>6. \A d \in S : \E i \in 1 .. n : g[i] = d
  BY <1>1
<1> HIDE DEF g, S, n
<1>7. g \in Bijection(1 .. n, S)
  BY <1>4, <1>5, <1>6 DEF Bijection, Injection, Surjection, IsInjective
<1>8. ExistsBijection(1 .. n, S)
  BY <1>7 DEF ExistsBijection
<1> QED
  BY <1>1, <1>8, FS_CountingElements DEF S

-----------------------------------------------------------------------------
(* What a selection is. *)

Finding(s) ==
  \E k \in DOMAIN Index, in \in Inputs :
    s = [key |-> k, in |-> in, matches |-> Selected(Index[k], in)]

LEMMA InputsAreSane ==
  ASSUME NEW k \in DOMAIN Index, NEW in \in Inputs
  PROVE  InputIsSane(in) /\ Sane(InScope(Index[k], in))
<1>1. InputIsSane(in)
  BY SelectionAssumption DEF InputIsSane
<1>2. IsFiniteSet(Index[k]) /\ InScope(Index[k], in) \in SUBSET Index[k]
  BY DocumentsAssumption DEF InScope
<1>3. IsFiniteSet(InScope(Index[k], in))
  BY <1>2, FS_Subset
<1>4. \A d \in Index[k] :
        /\ d.type \in Word /\ d.identity \in Word
        /\ d.name \in Seq(Word) /\ d.note \in Seq(Word) /\ d.body \in Seq(Word)
        /\ \A e \in Index[k] : d.type = e.type /\ d.identity = e.identity => d = e
  BY DocumentsAssumption
<1> QED
  BY <1>1, <1>2, <1>3, <1>4 DEF Sane

\* A selection's parts, with what its direct matches are.
Known(s, direct, rel, p, r, f) ==
  /\ Assembled(s.matches, direct, rel, p, r, f)
  /\ p + r + f <= MaxMatches(s.in)
  /\ p + r + f = MaxMatches(s.in) \/ p + f = Len(direct)
  /\ direct \in Seq(InScope(Index[s.key], s.in))
  /\ \A i, j \in DOMAIN direct : direct[i] = direct[j] => i = j
  /\ \A d \in InScope(Index[s.key], s.in) :
       DirectScore(d, s.in) \in Nat /\ (DirectScore(d, s.in) > 0 <=> d \in ToSet(direct))
  /\ \A i, j \in DOMAIN direct : i < j => DirectScore(direct[j], s.in) <= DirectScore(direct[i], s.in)
  /\ \A i \in 1 .. r :
       /\ rel[i] \in InScope(Index[s.key], s.in) \ ToSet(direct)
       /\ \E j \in 1 .. p : Contains(SearchText(rel[i]), direct[j].identity)
       /\ \A j \in 1 .. r : rel[i] = rel[j] => i = j

LEMMA FindingIs ==
  ASSUME NEW s, Finding(s)
  PROVE  /\ s.key \in DOMAIN Index /\ s.in \in Inputs
         /\ \E p, r, f \in Nat : \E direct, rel : Known(s, direct, rel, p, r, f)
<1>1. PICK k \in DOMAIN Index, in \in Inputs :
             s = [key |-> k, in |-> in, matches |-> Selected(Index[k], in)]
  BY DEF Finding
<1> DEFINE scope == InScope(Index[k], in)
           direct == Direct(scope, in)
           score == [d \in scope |-> DirectScore(d, in)]
<1>2. s.key = k /\ s.in = in /\ s.matches = Selected(Index[k], in)
  BY <1>1
<1>3. InputIsSane(in) /\ Sane(scope)
  BY InputsAreSane
<1>4. PICK p \in Nat, r \in Nat, f \in Nat : \E rel : Composed(Index[k], in, p, r, f, rel)
  BY <1>3, SelectedIs
<1>5. PICK rel : Composed(Index[k], in, p, r, f, rel)
  BY <1>4
<1> DEFINE primary == {direct[i] : i \in 1 .. p}
<1>6. /\ Assembled(Selected(Index[k], in), direct, rel, p, r, f)
      /\ p + r + f <= MaxMatches(in)
      /\ p + r + f = MaxMatches(in) \/ p + f = Len(direct)
      /\ \A i \in 1 .. r : /\ rel[i] \in scope \ ToSet(direct)
                           /\ Mentioned(rel[i], primary) > 0
                           /\ \A j \in 1 .. r : rel[i] = rel[j] => i = j
  BY <1>5, Zenon DEF Composed
<1>7. \A d \in scope : DirectScore(d, in) \in Nat
  BY <1>3, DirectScoreIs DEF InputIsSane
<1> HIDE DEF scope
<1>8. /\ Lists(direct, {d \in scope : DirectScore(d, in) > 0})
      /\ Falls(direct, score)
  BY <1>3, DirectLists, Zenon DEF InputIsSane
<1> HIDE DEF direct, score
<1>9. /\ direct \in Seq({d \in scope : DirectScore(d, in) > 0})
      /\ \A i, j \in DOMAIN direct : direct[i] = direct[j] => i = j
      /\ \A d \in scope : DirectScore(d, in) > 0 => \E i \in DOMAIN direct : direct[i] = d
  BY <1>8 DEF Lists
<1>10. direct \in Seq(scope) /\ \A i \in DOMAIN direct : direct[i] \in scope /\ DirectScore(direct[i], in) > 0
  BY <1>9
<1>11. \A d \in scope : DirectScore(d, in) > 0 <=> d \in ToSet(direct)
  BY <1>9, <1>10 DEF ToSet
<1>12. \A i, j \in DOMAIN direct : i < j => DirectScore(direct[j], in) <= DirectScore(direct[i], in)
  <2>1. \A i, j \in DOMAIN direct : i < j => score[direct[j]] <= score[direct[i]]
    BY <1>8 DEF Falls
  <2>2. \A i \in DOMAIN direct : score[direct[i]] = DirectScore(direct[i], in)
    BY <1>10 DEF score
  <2> QED
    BY <2>1, <2>2
<1>13. primary \in SUBSET scope
  <2>1. p + f <= Len(direct)
    BY <1>6 DEF Assembled
  <2>2. Len(direct) \in Nat /\ DOMAIN direct = 1 .. Len(direct)
    BY <1>9
  <2>3. \A i \in 1 .. p : i \in DOMAIN direct
    BY <2>1, <2>2
  <2> QED
    BY <1>10, <2>3
<1>14. \A i \in 1 .. r : \E j \in 1 .. p : Contains(SearchText(rel[i]), direct[j].identity)
  <2> SUFFICES ASSUME NEW i \in 1 .. r
               PROVE  \E j \in 1 .. p : Contains(SearchText(rel[i]), direct[j].identity)
    OBVIOUS
  <2>1. Mentioned(rel[i], primary) > 0
    BY <1>6
  <2> HIDE DEF primary
  <2>2. PICK e \in primary : Contains(SearchText(rel[i]), e.identity)
    BY <1>3, <1>13, <2>1, MentionsAreCounted
  <2> QED
    BY <2>2 DEF primary
<1>15. Known(s, direct, rel, p, r, f)
  BY <1>2, <1>6, <1>7, <1>9, <1>10, <1>11, <1>12, <1>14 DEF Known, scope
<1>16. s.key \in DOMAIN Index /\ s.in \in Inputs
  BY <1>2
<1> QED
  BY <1>15, <1>16

\* The three properties, of one selection.
ExactIn(s) ==
  LET scope == InScope(Index[s.key], s.in) IN
  /\ Documents(s) \subseteq scope
  /\ Cardinality(Documents(s)) = Len(s.matches)
  /\ Len(s.matches) <= MaxMatches(s.in)
  /\ ExactMatches(scope, s.in.said) \subseteq Documents(s) \/ Len(s.matches) = MaxMatches(s.in)

HighestIn(s) ==
  \A d \in OfKind(s, "direct") : \A e \in InScope(Index[s.key], s.in) \ Documents(s) :
    DirectScore(e, s.in) <= DirectScore(d, s.in)

RelatedIn(s) ==
  \A d \in OfKind(s, "related") :
    /\ DirectScore(d, s.in) = 0
    /\ \E e \in OfKind(s, "direct") : Contains(SearchText(d), e.identity)

LEMMA FindingIsRight ==
  ASSUME NEW s, Finding(s)
  PROVE  ExactIn(s) /\ HighestIn(s) /\ RelatedIn(s)
<1>1. PICK p \in Nat, r \in Nat, f \in Nat : \E direct, rel : Known(s, direct, rel, p, r, f)
  BY FindingIs
<1>2. PICK direct, rel : Known(s, direct, rel, p, r, f)
  BY <1>1
<1> DEFINE q == s.matches
           scope == InScope(Index[s.key], s.in)
           D == {direct[i] : i \in 1 .. (p + f)}
           R == {rel[i] : i \in 1 .. r}
           sc(d) == DirectScore(d, s.in)
           m == MaxMatches(s.in)
<1>3. /\ Assembled(q, direct, rel, p, r, f)
      /\ p + r + f <= m
      /\ p + r + f = m \/ p + f = Len(direct)
      /\ direct \in Seq(scope)
      /\ \A i, j \in DOMAIN direct : direct[i] = direct[j] => i = j
  BY <1>2 DEF Known
<1>4. \A d \in scope : sc(d) \in Nat /\ (sc(d) > 0 <=> d \in ToSet(direct))
  BY <1>2 DEF Known
<1>5. \A i, j \in DOMAIN direct : i < j => sc(direct[j]) <= sc(direct[i])
  BY <1>2 DEF Known
<1>6. \A i \in 1 .. r :
        /\ rel[i] \in scope \ ToSet(direct)
        /\ \E j \in 1 .. p : Contains(SearchText(rel[i]), direct[j].identity)
        /\ \A j \in 1 .. r : rel[i] = rel[j] => i = j
  BY <1>2 DEF Known
<1>7. Documents(s) = D \cup R /\ OfKind(s, "direct") = D /\ OfKind(s, "related") = R
  <2>1. DocumentsAt(q, direct, rel, p, r, f)
    <3> HIDE DEF q
    <3> QED
      BY <1>3, DocumentsAre
  <2> QED
    BY <2>1, Zenon DEF DocumentsAt, Documents, OfKind
<1>8. Len(q) = p + r + f /\ p + f <= Len(direct)
  BY <1>3 DEF Assembled
<1>9. Len(direct) \in Nat /\ DOMAIN direct = 1 .. Len(direct)
  BY <1>3
<1>10. s.in.said \in Seq(Word) /\ Sane(scope)
  BY FindingIs, InputsAreSane DEF InputIsSane
<1>11. Cardinality(Documents(s)) = Len(q)
  <2>1. Distinct(direct, rel, r)
    BY <1>3, <1>6, <1>9 DEF Distinct
  <2>2. Cardinality({q[i].doc : i \in DOMAIN q}) = Len(q)
    <3> HIDE DEF q, scope
    <3> QED
      BY <1>3, <2>1, DocumentsAreCounted
  <2> QED
    BY <2>2, Zenon DEF Documents
<1>12. \A d \in ToSet(direct) : \E i \in 1 .. Len(direct) : direct[i] = d
  BY <1>9 DEF ToSet
<1> HIDE DEF q, scope, sc, m
<1>13. \A i \in 1 .. (p + f) : i \in DOMAIN direct /\ direct[i] \in scope
  <2>1. \A i \in 1 .. (p + f) : i \in DOMAIN direct
    BY <1>8, <1>9
  <2>2. \A i \in DOMAIN direct : direct[i] \in scope
    BY <1>3
  <2> QED
    BY <2>1, <2>2
<1>14. D \subseteq scope /\ R \subseteq scope
  BY <1>6, <1>13
<1>15. ExactMatches(scope, s.in.said) \subseteq Documents(s) \/ Len(q) = m
  <2>1. CASE p + r + f = m
    BY <1>8, <2>1
  <2>2. CASE p + f = Len(direct)
    <3> SUFFICES ASSUME NEW d \in ExactMatches(scope, s.in.said) PROVE d \in D
      BY <1>7
    <3>1. d \in scope /\ sc(d) > 0
      BY <1>10, ExactMatchesScore DEF sc
    <3>2. PICK i \in 1 .. Len(direct) : direct[i] = d
      BY <1>4, <1>12, <3>1
    <3> QED
      BY <2>2, <3>2
  <2> QED
    BY <1>3, <2>1, <2>2
<1>16. ExactIn(s)
  BY <1>3, <1>7, <1>8, <1>11, <1>14, <1>15, Zenon DEF ExactIn, q, scope, m
<1>17. HighestIn(s)
  <2> SUFFICES ASSUME NEW d \in D, NEW e \in scope, e \notin D PROVE sc(e) <= sc(d)
    BY <1>7, Zenon DEF HighestIn, scope, sc
  <2>1. PICK i \in 1 .. (p + f) : d = direct[i]
    OBVIOUS
  <2>2. d \in scope /\ i \in DOMAIN direct
    BY <1>13, <2>1
  <2>3. CASE sc(e) = 0
    BY <1>4, <2>2, <2>3
  <2>4. CASE sc(e) # 0
    <3>1. sc(e) > 0
      BY <1>4, <2>4
    <3>2. PICK j \in 1 .. Len(direct) : direct[j] = e
      BY <1>4, <1>12, <3>1
    <3>3. j > p + f
      BY <1>9, <3>2
    <3> QED
      BY <1>5, <1>9, <2>1, <2>2, <3>2, <3>3
  <2> QED
    BY <2>3, <2>4
<1>18. RelatedIn(s)
  <2> SUFFICES ASSUME NEW d \in R
               PROVE  sc(d) = 0 /\ \E e \in D : Contains(SearchText(d), e.identity)
    BY <1>7, Zenon DEF RelatedIn, sc
  <2>1. PICK i \in 1 .. r : d = rel[i]
    OBVIOUS
  <2>2. d \in scope /\ d \notin ToSet(direct)
    BY <1>6, <2>1
  <2>3. sc(d) = 0
    BY <1>4, <2>2
  <2>4. PICK j \in 1 .. p : Contains(SearchText(rel[i]), direct[j].identity)
    BY <1>6
  <2>5. direct[j] \in D
    OBVIOUS
  <2> QED
    BY <2>1, <2>3, <2>4, <2>5
<1> QED
  BY <1>16, <1>17, <1>18

-----------------------------------------------------------------------------
(* The runs. *)

\* A run that goes on with an index goes on with that of the snapshot it asked
\* for, and only one that could be decoded; what was found is a selection of it.
Reading ==
  /\ cache \cap Malformed = {}
  /\ asked \in [Callers -> Inputs \cup {None}]
  /\ \A c \in Callers :
       /\ pc[c] = "storing" => wanted[c] \notin Malformed
       /\ asked[c] # None /\ pc[c] = "idle" =>
            got[c] = "error" \/ (got[c] = wanted[c] /\ got[c] \in Keys \ Malformed)
  /\ \A s \in Selections : Finding(s)

LEMMA ReadingInitially == SelectorInit => Reading
BY DEF SelectorInit, Init, Reading, Selections

LEMMA ReadingKept == TypeOK /\ Reading /\ [SelectorNext]_selectorVars => Reading'
<1> SUFFICES ASSUME TypeOK, Reading, [SelectorNext]_selectorVars PROVE Reading'
  OBVIOUS
<1> USE CacheAssumption
<1>1. CASE UNCHANGED selectorVars
  BY <1>1 DEF selectorVars, Reading, Selections, Finding
<1>2. ASSUME NEW c \in Callers, Select(c) PROVE Reading'
  <2>1. Selections' = {}
    BY <1>2 DEF Select, Selections
  <2>2. PICK in \in Inputs : asked' = [asked EXCEPT ![c] = in]
    BY <1>2 DEF Select
  <2>3. asked' \in [Callers -> Inputs \cup {None}]
    BY <2>2 DEF Reading
  <2>4. cache' = cache
    BY <1>2 DEF Select, Hit, Miss
  <2>5. ASSUME NEW d \in Callers
        PROVE  /\ pc'[d] = "storing" => wanted'[d] \notin Malformed
               /\ asked'[d] # None /\ pc'[d] = "idle" =>
                    got'[d] = "error" \/ (got'[d] = wanted'[d] /\ got'[d] \in Keys \ Malformed)
    <3>1. CASE d = c /\ Hit(c)
      <4>1. PICK k \in cache : wanted' = [wanted EXCEPT ![c] = k] /\ got' = [got EXCEPT ![c] = k]
        BY <3>1 DEF Hit
      <4>2. wanted'[c] = k /\ got'[c] = k /\ k \in Keys \ Malformed
        BY <4>1 DEF TypeOK, Reading
      <4>3. pc'[c] = "idle"
        BY <3>1 DEF Hit
      <4> QED
        BY <3>1, <4>2, <4>3
    <3>2. CASE d = c /\ Miss(c)
      <4>1. pc'[c] = "building"
        BY <3>2 DEF Miss, TypeOK
      <4> QED
        BY <3>2, <4>1
    <3>3. CASE d # c
      <4>1. asked'[d] = asked[d]
        BY <2>2, <3>3 DEF Reading
      <4>2. pc'[d] = pc[d] /\ wanted'[d] = wanted[d] /\ got'[d] = got[d]
        BY <1>2, <3>3 DEF Select, Hit, Miss, TypeOK
      <4> QED
        BY <4>1, <4>2 DEF Reading
    <3> QED
      BY <1>2, <3>1, <3>2, <3>3 DEF Select
  <2> QED
    BY <2>1, <2>3, <2>4, <2>5 DEF Reading
<1>3. ASSUME NEW c \in Callers, Indexes(c) PROVE Reading'
  <2>1. Selections' = {} /\ asked' = asked
    BY <1>3 DEF Indexes, Selections
  <2>2. wanted' = wanted
    BY <1>3 DEF Indexes, DecodeFails, Build, Store
  <2>3. pc[c] = "storing" => wanted[c] \in Keys \ Malformed
    BY DEF TypeOK, Reading
  <2>4. cache' \cap Malformed = {}
    <3>1. CASE cache' = cache
      BY <3>1 DEF Reading
    <3>2. CASE pc[c] = "storing" /\ Enter(wanted[c])
      BY <2>3, <3>2 DEF Enter, Reading
    <3> QED
      BY <1>3, <3>1, <3>2 DEF Indexes, DecodeFails, Build, Store
  <2>5. ASSUME NEW d \in Callers
        PROVE  /\ pc'[d] = "storing" => wanted'[d] \notin Malformed
               /\ asked'[d] # None /\ pc'[d] = "idle" =>
                    got'[d] = "error" \/ (got'[d] = wanted'[d] /\ got'[d] \in Keys \ Malformed)
    <3>1. CASE d # c
      <4>1. pc'[d] = pc[d] /\ got'[d] = got[d]
        BY <1>3, <3>1 DEF Indexes, DecodeFails, Build, Store, TypeOK
      <4> QED
        BY <2>1, <2>2, <4>1 DEF Reading
    <3>2. CASE d = c /\ DecodeFails(c)
      BY <3>2 DEF DecodeFails, TypeOK
    <3>3. CASE d = c /\ Build(c)
      <4>1. pc'[c] = "storing" /\ wanted[c] \notin Malformed
        BY <3>3 DEF Build, TypeOK
      <4> QED
        BY <2>2, <3>3, <4>1
    <3>4. CASE d = c /\ Store(c)
      <4>1. pc'[c] = "idle" /\ got'[c] = wanted[c] /\ pc[c] = "storing"
        BY <3>4 DEF Store, TypeOK
      <4> QED
        BY <2>2, <2>3, <3>4, <4>1
    <3> QED
      BY <1>3, <3>1, <3>2, <3>3, <3>4 DEF Indexes
  <2> QED
    BY <2>1, <2>4, <2>5 DEF Reading
<1>4. ASSUME NEW c \in Callers, Return(c) PROVE Reading'
  <2>1. UNCHANGED vars /\ asked[c] # None /\ pc[c] = "idle"
    BY <1>4 DEF Return
  <2>2. asked[c] \in Inputs /\ asked' = [asked EXCEPT ![c] = None]
    BY <1>4, <2>1 DEF Return, Reading
  <2>3. got[c] = "error" \/ (got[c] = wanted[c] /\ got[c] \in Keys \ Malformed)
    BY <2>1 DEF Reading
  <2>4. found' = Selection(got[c], wanted[c], asked[c])
    BY <1>4 DEF Return
  <2>5. ASSUME NEW s \in Selections' PROVE Finding(s)
    <3>1. s = found' /\ found'.matches # None
      BY DEF Selections
    <3>2. got[c] \notin Foreign \cup {"error"}
      BY <2>4, <3>1 DEF Selection
    <3>3. got[c] = wanted[c] /\ wanted[c] \in DOMAIN Index
      BY <2>3, <3>2, SelectionAssumption
    <3>4. s = [key |-> wanted[c], in |-> asked[c],
               matches |-> Selected(Index[wanted[c]], asked[c])]
      BY <2>4, <3>1, <3>2, <3>3, Zenon DEF Selection
    <3> QED
      BY <2>2, <3>3, <3>4, Zenon DEF Finding
  <2>6. cache' = cache /\ pc' = pc /\ wanted' = wanted /\ got' = got
    BY <2>1 DEF vars
  <2>7. \A d \in Callers : asked'[d] = IF d = c THEN None ELSE asked[d]
    BY <2>2 DEF Reading
  <2>8. asked' \in [Callers -> Inputs \cup {None}]
    BY <2>2 DEF Reading
  <2>9. \A s \in Selections' : Finding(s)'
    BY <2>5 DEF Finding
  <2> QED
    BY <2>6, <2>7, <2>8, <2>9 DEF Reading
<1> QED
  BY <1>1, <1>2, <1>3, <1>4 DEF SelectorNext

LEMMA AlwaysReading == SelectorSpec => []Reading
<1>1. SelectorSpec => []TypeOK
  BY SelectorUsesTheCache, CacheTypeCorrect, PTL
<1> QED
  BY <1>1, ReadingInitially, ReadingKept, PTL DEF SelectorSpec

\* A run is given a selection within its scope and its limit, of distinct
\* documents, with every document named exactly as it said unless the selection
\* is full, whichever run built the index and whatever the cache evicts
\* meanwhile (selector.go:112).
THEOREM ExactMatchesAreFound == SelectorSpec => []ExactMatchIsFoundUnlessFull
<1>1. Reading => ExactMatchIsFoundUnlessFull
  BY FindingIsRight, Zenon DEF Reading, ExactMatchIsFoundUnlessFull, ExactIn
<1> QED
  BY <1>1, AlwaysReading, PTL

\* No direct match that a selection leaves out scores higher than one that it
\* keeps (selector.go:137, 183).
THEOREM TheHighestAreKept == SelectorSpec => []NothingOutranksWhatIsKept
<1>1. Reading => NothingOutranksWhatIsKept
  BY FindingIsRight, Zenon DEF Reading, NothingOutranksWhatIsKept, HighestIn
<1> QED
  BY <1>1, AlwaysReading, PTL

\* A related document scores nothing itself and mentions a direct match of the
\* same selection (selector.go:149).
THEOREM RelatedMentionWhatIsKept == SelectorSpec => []RelatedToWhatIsKept
<1>1. Reading => RelatedToWhatIsKept
  BY FindingIsRight, Zenon DEF Reading, RelatedToWhatIsKept, RelatedIn
<1> QED
  BY <1>1, AlwaysReading, PTL
==============================================================================
