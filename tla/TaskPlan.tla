------------------------------- MODULE TaskPlan -------------------------------
(***************************************************************************)
(* The plan of an interaction (entities.TaskPlan): its validation, the     *)
(* folder a task inherits from the tasks it depends on, and the patch an   *)
(* answer makes to it.  A task is identified by its position, so that task *)
(* ids are present and distinct by construction; everything else           *)
(* validatePlan asks for is in ValidPlan.                                  *)
(***************************************************************************)
EXTENDS Naturals, Sequences

CONSTANTS
  Types,      \* collections of the workspace export (exact, as in the registry)
  Names,      \* normalised identities, display names and mentions
  Documents,  \* versions of documents: records of the shape below
  Snapshots,  \* workspace snapshots, named by their sha256
  None

Intents == {"explain_documentation", "find_entity", "inspect_entity",
            "list_entities", "unsupported"}
Sources == {"documentation", "domain", "mixed", "conversation", "none"}

\* What the selector indexes of a document; size is the length of its JSON.
Document == [type : Types, identity : Names, name : Names,
             folder : Names \cup {None}, size : Nat]

ASSUME DocumentsAreDocuments == Documents \subseteq Document

\* The resolved entity of a task: a document as some snapshot had it.
Entity == [doc : Documents, from : Snapshots]

ASSUME NoneIsNoEntity == None \notin Entity

Task == [intent : Intents, source : Sources, mention : Names \cup {None},
         expects : SUBSET Types, deps : Seq(Nat), scoped : BOOLEAN,
         entity : Entity \cup {None}]

UsesDocumentation(t) == t.source \in {"documentation", "mixed"}
UsesDomain(t)        == t.source \in {"domain", "mixed"}

\* Dependencies are known, in any order.
Mutant_AnyOrder(p) ==
  /\ p # <<>>
  /\ \A i \in DOMAIN p : \A k \in DOMAIN p[i].deps : p[i].deps[k] \in DOMAIN p \ {i}

\* Dependencies are known and precede the task; this excludes cycles.
ValidPlan(p) ==
  /\ p # <<>>
  /\ \A i \in DOMAIN p :
       /\ p[i].intent \in Intents
       /\ p[i].source \in Sources
       /\ p[i].expects \subseteq Types
       /\ \A k \in DOMAIN p[i].deps : p[i].deps[k] \in 1 .. (i - 1)

Unsupported(p) == \E i \in DOMAIN p : p[i].intent = "unsupported"

\* Positions in t.deps of the dependencies with an entity.
ResolvedDeps(p, t) == {k \in DOMAIN t.deps : p[t.deps[k]].entity # None}

\* The folder a selection is restricted to: that of the FIRST resolved
\* dependency (resolvedFolderIdentity).
Scope(p, t) ==
  IF ResolvedDeps(p, t) = {} THEN None
  ELSE LET first == CHOOSE k \in ResolvedDeps(p, t) :
                      \A l \in ResolvedDeps(p, t) : k <= l
       IN  p[t.deps[first]].entity.doc.identity

\* The folder a listing is filtered by: that of the LAST resolved dependency
\* (matchesFolderScope).
ListScope(p, t) ==
  IF ResolvedDeps(p, t) = {} THEN None
  ELSE LET last == CHOOSE k \in ResolvedDeps(p, t) :
                     \A l \in ResolvedDeps(p, t) : k >= l
       IN  p[t.deps[last]].entity.doc.identity

\* The tasks invalidateDependents reaches from task i: one pass over the plan
\* per round, until a round changes nothing (at most one round per task).
Dependents(p, i) ==
  LET Widen(S) == S \cup {j \in DOMAIN p : \E k \in DOMAIN p[j].deps : p[j].deps[k] \in S}
      round[n \in 0 .. Len(p)] == IF n = 0 THEN {i} ELSE Widen(round[n - 1])
  IN  round[Len(p)] \ {i}

\* A patch that forgets only the direct dependents.
Mutant_PatchOneLevel(p, i, t) ==
  [j \in DOMAIN p |->
     IF j = i THEN t
     ELSE IF \E k \in DOMAIN p[j].deps : p[j].deps[k] = i
          THEN [p[j] EXCEPT !.entity = None]
     ELSE p[j]]

\* applyClarification: task i becomes t, and what depends on it is forgotten.
Patch(p, i, t) ==
  [j \in DOMAIN p |->
     IF j = i THEN t
     ELSE IF j \in Dependents(p, i) THEN [p[j] EXCEPT !.entity = None]
     ELSE p[j]]
=============================================================================
