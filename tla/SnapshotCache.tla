----------------------------- MODULE SnapshotCache -----------------------------
(***************************************************************************)
(* The selector's cache of indexed workspace snapshots (Selector.index),   *)
(* shared by all runs of the process.  The mutex is held for the look-up   *)
(* and for the store, and not while a snapshot is decoded and indexed, so  *)
(* several runs may index one snapshot at once.  A key names workspace,    *)
(* generation and hash of the snapshot.                                    *)
(***************************************************************************)
EXTENDS Naturals, Sequences

CONSTANTS
  Keys,
  Malformed,  \* keys of snapshots that cannot be decoded
  Callers,    \* runs that select from a snapshot
  Limit,      \* 8 in the code
  None

ASSUME CacheAssumption ==
  /\ Malformed \subseteq Keys
  /\ Limit \in Nat \ {0}
  /\ None \notin Keys

VARIABLES
  cache,   \* keys of s.cache
  order,   \* s.cacheOrder, oldest first
  wanted,  \* the key a caller is busy with, None between calls
  pc,      \* where a caller is
  got      \* what its last call returned: a key (its index), or "error"

vars == <<cache, order, wanted, pc, got>>

\* The index of the key is cached.
Hit(c) ==
  /\ pc[c] = "idle"
  /\ \E k \in cache :
       /\ wanted' = [wanted EXCEPT ![c] = k]
       /\ got' = [got EXCEPT ![c] = k]
  /\ UNCHANGED <<cache, order, pc>>

\* The key is built for the look-up alone.
Mutant_KeyNotKept(c) ==
  /\ pc[c] = "idle"
  /\ \E k \in Keys : k \notin cache
  /\ pc' = [pc EXCEPT ![c] = "building"]
  /\ UNCHANGED <<cache, order, wanted, got>>

Miss(c) ==
  /\ pc[c] = "idle"
  /\ \E k \in Keys \ cache : wanted' = [wanted EXCEPT ![c] = k]
  /\ pc' = [pc EXCEPT ![c] = "building"]
  /\ UNCHANGED <<cache, order, got>>

\* The snapshot is decoded and indexed, or cannot be: then nothing is stored.
DecodeFails(c) ==
  /\ pc[c] = "building"
  /\ wanted[c] \in Malformed
  /\ pc' = [pc EXCEPT ![c] = "idle"]
  /\ got' = [got EXCEPT ![c] = "error"]
  /\ UNCHANGED <<cache, order, wanted>>

Build(c) ==
  /\ pc[c] = "building"
  /\ wanted[c] \notin Malformed
  /\ pc' = [pc EXCEPT ![c] = "storing"]
  /\ UNCHANGED <<cache, order, wanted, got>>

\* No second look: a key another caller stored meanwhile is entered twice.
Mutant_StoresAgain(k) == TRUE

\* The second look under the lock, after indexing.
StillMissing(k) == k \notin cache

\* The key just entered is the one that goes.
Mutant_EvictNewest(k) ==
  IF Len(order) < Limit
  THEN cache' = cache \cup {k} /\ order' = Append(order, k)
  ELSE UNCHANGED <<cache, order>>

\* Room for one more: the oldest entry goes.
Enter(k) ==
  IF Len(order) < Limit
  THEN /\ cache' = cache \cup {k}
       /\ order' = Append(order, k)
  ELSE /\ cache' = (cache \cup {k}) \ {Head(Append(order, k))}
       /\ order' = Tail(Append(order, k))

Store(c) ==
  /\ pc[c] = "storing"
  /\ IF StillMissing(wanted[c]) THEN Enter(wanted[c]) ELSE UNCHANGED <<cache, order>>
  /\ pc' = [pc EXCEPT ![c] = "idle"]
  /\ got' = [got EXCEPT ![c] = wanted[c]]
  /\ UNCHANGED wanted

Init ==
  /\ cache = {}
  /\ order = <<>>
  /\ wanted = [c \in Callers |-> None]
  /\ pc = [c \in Callers |-> "idle"]
  /\ got = [c \in Callers |-> None]

Next == \E c \in Callers : Hit(c) \/ Miss(c) \/ DecodeFails(c) \/ Build(c) \/ Store(c)

Spec == Init /\ [][Next]_vars

-----------------------------------------------------------------------------
TypeOK ==
  /\ cache \subseteq Keys
  /\ order \in Seq(Keys)
  /\ wanted \in [Callers -> Keys \cup {None}]
  /\ pc \in [Callers -> {"idle", "building", "storing"}]
  /\ got \in [Callers -> Keys \cup {None, "error"}]
  /\ \A c \in Callers : pc[c] # "idle" => wanted[c] \in Keys

\* The order lists every cached key once, and no other: eviction always removes
\* an entry of the map, and never one that was entered again since
\* (selector.go:230).
OrderListsTheCache ==
  /\ cache = {order[i] : i \in DOMAIN order}
  /\ \A i, j \in DOMAIN order : order[i] = order[j] => i = j
  /\ Len(order) <= Limit

\* What a caller has just indexed is in the cache when it leaves, however full
\* the cache was and whoever stored it meanwhile (selector.go:233).
StoredSnapshotIsServed == [][\A c \in Callers : Store(c) => wanted[c] \in cache']_vars
=============================================================================
