------------------------------ MODULE Preparation ------------------------------
(***************************************************************************)
(* The preparation of one interaction, over the turns of its dialogue:     *)
(* plan the request, then for every task retrieve documentation and        *)
(* resolve an entity of the workspace, then check that the context is      *)
(* adequate; ask the user when something is missing, patch the plan with   *)
(* the answer and prepare again, on the snapshot the answer came with.     *)
(*                                                                         *)
(* One turn is one run: it is sequential, so its steps are those at which  *)
(* something outside decides: a model's reply, what a retrieval finds, the *)
(* user's answer.  What the store keeps between turns is the plan and the  *)
(* snapshot hash written when the interaction was created (stored):        *)
(* CreateClarification saves the plan only.                                *)
(***************************************************************************)
EXTENDS TaskPlan, Planner, Knowledge, ContextBudget, FiniteSets, Functions

CONSTANTS
  Content,        \* Content[s]: the documents of snapshot s
  Requests,       \* first requests of a dialogue
  Replies,        \* plans the planning model may reply with, valid or not
  Bundles,        \* documentation bundles a deployment may have
  WordsOf,        \* WordsOf[n]: the words of a name or a mention
  Prompts,        \* what a whole prompt may say, in words
  Expansions,     \* what up to five queries of the expander may say, in words
  CallLimits,     \* values of Preparation.MaxModelCalls
  MaxCandidates,  \* Preparation.MaxCandidates
  SelectorLimit,  \* Context.DomainMaxResults
  MaxChars,       \* Context.ModelMaxChars
  BaseChars,      \* request without context and without resolved documents
  DocumentChars,  \* domainDocumentMaxChars: at most half of MaxChars
  MaxTurns        \* bound of the model: turns of one dialogue

\* What a planner makes: TaskPlanSchema has no field for an entity.
UnresolvedTask == {t \in Task : t.entity = None}

ASSUME ConstantsAreSane ==
  /\ Content \in [Snapshots -> SUBSET Documents]
  /\ Requests \subseteq Request
  /\ Replies \subseteq Seq(UnresolvedTask)
  /\ Bundles \subseteq Bundle
  /\ WordsOf \in [Names -> Seq(Words)]
  /\ Prompts \cup Expansions \subseteq Seq(Words)
  /\ CallLimits \cup {MaxCandidates, MaxChars, BaseChars, DocumentChars, MaxTurns} \subseteq Nat
  /\ SelectorLimit \in Nat \ {0}
  /\ 2 * DocumentChars <= MaxChars

VARIABLES
  pc,        \* where Prepare is, or how the turn ended
  stored,    \* interactions.workspace_snapshot_sha256
  snap,      \* the snapshot of this turn's request
  given,     \* the request, the call limit and the bundle of the dialogue
  plan,      \* interaction.Plan; <<>> before planning
  at,        \* the task being prepared
  used,      \* calls counted by Prepare's own budget
  calls,     \* calls counted by the budget of the run's context
  blocks,    \* trace.Blocks
  fitted,    \* the blocks of the assembled request
  question,  \* the open clarification
  answer,    \* what this turn's user said to it
  turns

vars == <<pc, stored, snap, given, plan, at, used, calls, blocks, fitted,
          question, answer, turns>>

T == plan[at]

MaxCalls == given.calls

-----------------------------------------------------------------------------
(* Model calls. *)

\* invokeStructured: both budgets must have room; Prepare's own is charged
\* first, and stays charged when the other refuses.
CallRefused ==
  \/ used >= MaxCalls /\ UNCHANGED <<used, calls>>
  \/ /\ used < MaxCalls
     /\ calls >= MaxCalls
     /\ used' = used + 1
     /\ UNCHANGED calls

\* Only Prepare's own budget is asked.
Mutant_OwnBudgetOnly ==
  /\ used < MaxCalls
  /\ used' = used + 1
  /\ calls' = calls + 1

CallMade ==
  /\ used < MaxCalls
  /\ calls < MaxCalls
  /\ used' = used + 1
  /\ calls' = calls + 1

-----------------------------------------------------------------------------
(* Planning. *)

Planned(p) ==
  /\ plan' = p
  /\ at' = 1
  /\ pc' = IF Unsupported(p) THEN "unsupported" ELSE "documentation"

\* What planning falls back on.
Draft == DeterministicPlan(given.request)

\* A plan of one task without references to the history needs no model.
PlanDirectly ==
  /\ pc = "planning"
  /\ ~NeedsPlanner(given.request)
  /\ Planned(Draft)
  /\ UNCHANGED <<stored, snap, given, used, calls, blocks, fitted, question, answer, turns>>

\* The planning model: no reply, a valid plan, or one to be repaired.
CallPlanner ==
  /\ pc = "planning"
  /\ NeedsPlanner(given.request)
  /\ \/ CallRefused /\ Planned(Draft)
     \/ /\ CallMade
        /\ \/ Planned(Draft)
           \/ \E reply \in Replies :
                IF ValidPlan(reply) THEN Planned(reply)
                ELSE pc' = "repairing" /\ UNCHANGED <<plan, at>>
  /\ UNCHANGED <<stored, snap, given, blocks, fitted, question, answer, turns>>

\* One attempt to repair the reply; then the deterministic plan.
RepairPlan ==
  /\ pc = "repairing"
  /\ \/ CallRefused /\ Planned(Draft)
     \/ /\ CallMade
        /\ \E reply \in Replies \cup {Draft} :
             Planned(IF ValidPlan(reply) THEN reply ELSE Draft)
  /\ UNCHANGED <<stored, snap, given, blocks, fitted, question, answer, turns>>

-----------------------------------------------------------------------------
(* One task: its documentation. *)

SkipDocumentation ==
  /\ pc = "documentation"
  /\ ~UsesDocumentation(T)
  /\ pc' = "domain"
  /\ UNCHANGED <<stored, snap, given, plan, at, used, calls, blocks, fitted, question, answer, turns>>

\* The first match of a task is mandatory, the others are not.
DocumentationBlocks(found) ==
  [k \in DOMAIN found |->
     [key |-> <<"documentation", found[k].chunk>>, task |-> at, mandatory |-> k = 1,
      score |-> found[k].score, size |-> found[k].size]]

\* The words a task is searched by: its mention, or else the prompt of the turn.
Searches(t) == IF t.mention = None THEN Prompts ELSE {WordsOf[t.mention]}

Search(said) == Retrieve(Chunks(given.bundle), said)

\* knowledgeNeedsExpansion
Weak(found) ==
  \/ found.matches = <<>>
  \/ found.best < 20
  \/ found.best < 35 /\ Less(found.coverage, <<1, 2>>)

Expands(found) == Weak(found) /\ Loads(given.bundle)

\* The expander's queries are searched alone.
Mutant_QueriesAlone(said, queries) == queries

\* The expander's queries are added to what was searched for.
ExpandedQuery(said, queries) == said \o queries

Improves(expanded, found) ==
  expanded.best > found.best \/ Less(found.coverage, expanded.coverage)

Retrieval(found) == blocks' = blocks \o DocumentationBlocks(found.matches)

\* A weak result is expanded by the model when a call is left; without a usable
\* reply, or when the expanded search is no better, the first one stands.
RetrieveDocumentation ==
  /\ pc = "documentation"
  /\ UsesDocumentation(T)
  /\ \E found \in {Search(said) : said \in Searches(T)} :
       \/ /\ ~Expands(found)
          /\ Retrieval(found)
          /\ UNCHANGED <<used, calls>>
       \/ Expands(found) /\ CallRefused /\ Retrieval(found)
       \/ Expands(found) /\ CallMade /\ Retrieval(found)
       \/ /\ Expands(found) /\ CallMade
          /\ \E expanded \in {Search(ExpandedQuery(found.said, q)) : q \in Expansions} :
               Improves(expanded, found) /\ Retrieval(expanded)
  /\ pc' = "domain"
  /\ UNCHANGED <<stored, snap, given, plan, at, fitted, question, answer, turns>>

-----------------------------------------------------------------------------
(* One task: its entity. *)

\* The loop does not end at the last task.
Mutant_NextTaskAlways == pc' = "documentation" /\ at' = at + 1

NextTask ==
  IF at = Len(plan) THEN pc' = "gate" /\ UNCHANGED at
                    ELSE pc' = "documentation" /\ at' = at + 1

SkipDomain ==
  /\ pc = "domain"
  /\ ~UsesDomain(T)
  /\ NextTask
  /\ UNCHANGED <<stored, snap, given, plan, used, calls, blocks, fitted, question, answer, turns>>

DomainBlock(key, size) ==
  [key |-> <<"domain", key>>, task |-> at, mandatory |-> TRUE, score |-> 100, size |-> size]

\* compactDomainSnapshot: the longest its result may be.
CompactedSize(doc) == IF doc.size <= DocumentChars THEN doc.size ELSE DocumentChars

\* addDomainBlocks: the document itself, compacted, for an inspection; its
\* summary otherwise (one unit).
EntityBlock(doc) ==
  DomainBlock(<<doc.type, doc.identity>>,
              IF T.intent = "inspect_entity" THEN CompactedSize(doc) ELSE 1)

\* Every turn looks everything up again.
Mutant_NeverReusable(t) == FALSE

\* The entity of an earlier turn is kept on an unchanged snapshot.
Reusable(t) == t.entity # None /\ stored = snap

ReuseEntity ==
  /\ pc = "domain"
  /\ UsesDomain(T)
  /\ Reusable(T)
  /\ blocks' = Append(blocks, EntityBlock(T.entity.doc))
  /\ NextTask
  /\ UNCHANGED <<stored, snap, given, plan, used, calls, fitted, question, answer, turns>>

\* The folder is not passed to the selector.
Mutant_AnyFolder(t) == {d \in Content[snap] : t.expects = {} \/ d.type \in t.expects}

\* The documents the selector and the resolver may take for the task.
Candidates(t) ==
  {d \in Content[snap] :
     /\ t.expects = {} \/ d.type \in t.expects
     /\ Scope(plan, t) = None \/ d.folder = Scope(plan, t)}

\* Every document in scope is a match of a list task, up to the limit.
Inventories(t) ==
  {found \in SUBSET Candidates(t) :
     Cardinality(found) = IF Cardinality(Candidates(t)) <= SelectorLimit
                          THEN Cardinality(Candidates(t)) ELSE SelectorLimit}

\* A list task needs no entity: one block with a line per match in its folder.
Listed(found, t) ==
  {d \in found : t.scoped => ListScope(plan, t) # None /\ d.folder = ListScope(plan, t)}

ListEntities ==
  /\ pc = "domain"
  /\ UsesDomain(T)
  /\ ~Reusable(T)
  /\ T.intent = "list_entities"
  /\ \E found \in Inventories(T) :
       blocks' = Append(blocks, DomainBlock(<<"list", at>>, 1 + Cardinality(Listed(found, T))))
  /\ NextTask
  /\ UNCHANGED <<stored, snap, given, plan, used, calls, fitted, question, answer, turns>>

\* What the task looks for: an entity it has already is looked up again by its
\* identity, whatever the task mentions.
Sought(t) == IF t.entity # None THEN t.entity.doc.identity ELSE t.mention

ExactMatches(docs, name) == {d \in docs : d.identity = name \/ d.name = name}

\* What Select may return: ranking finds the exact matches, unless as many
\* others as the limit rank no lower (module Selection).
Selections(t) ==
  {found \in SUBSET Candidates(t) :
     /\ Cardinality(found) <= SelectorLimit
     /\ \/ ExactMatches(Candidates(t), Sought(t)) \subseteq found
        \/ Cardinality(found) = SelectorLimit}

\* At most MaxCandidates of them; which ones is a matter of ranking.
Shortlists(docs) ==
  {short \in SUBSET docs :
     Cardinality(short) = IF Cardinality(docs) <= MaxCandidates THEN Cardinality(docs)
                          ELSE MaxCandidates}

Resolved(doc) ==
  /\ plan' = [plan EXCEPT ![at].entity = [doc |-> doc, from |-> snap]]
  /\ blocks' = Append(blocks, EntityBlock(doc))
  /\ NextTask
  /\ UNCHANGED question

Ask(task, slot, candidates) ==
  /\ question' = [task |-> task, slot |-> slot, candidates |-> candidates, from |-> snap]
  /\ pc' = "asking"
  /\ UNCHANGED at

AskWhich(docs) ==
  /\ \E short \in Shortlists(docs) : Ask(at, "entity", short)
  /\ UNCHANGED <<plan, blocks>>

\* Resolve: the one exact match; a question among several, or when nothing was
\* found; otherwise the reranker may choose from a closed list.
ResolveEntity ==
  /\ pc = "domain"
  /\ UsesDomain(T)
  /\ ~Reusable(T)
  /\ T.intent # "list_entities"
  /\ \E found \in Selections(T) :
       LET exact == ExactMatches(found, Sought(T)) IN
       \/ /\ Cardinality(exact) = 1
          /\ \E doc \in exact : Resolved(doc)
          /\ UNCHANGED <<used, calls>>
       \/ /\ Cardinality(exact) > 1
          /\ AskWhich(exact)
          /\ UNCHANGED <<used, calls>>
       \/ /\ found = {}
          /\ AskWhich({})
          /\ UNCHANGED <<used, calls>>
       \/ /\ found # {} /\ exact = {}
          /\ \/ CallRefused /\ AskWhich(found)
             \/ CallMade /\ AskWhich(found)
             \/ CallMade /\ \E short \in Shortlists(found) : \E doc \in short : Resolved(doc)
  /\ UNCHANGED <<stored, snap, given, fitted, answer, turns>>

-----------------------------------------------------------------------------
(* The Context Adequacy Gate. *)

\* Tasks that need context and have no block at all.
Starved ==
  {i \in DOMAIN plan :
     /\ plan[i].source \notin {"conversation", "none"}
     /\ \A k \in DOMAIN blocks : blocks[k].task # i}

\* OverheadChars renders the whole plan: the full document of every resolved
\* entity is in it.
Overhead ==
  FoldFunction(LAMBDA t, n : n + IF t.entity = None THEN 0 ELSE t.entity.doc.size,
               BaseChars, plan)

Room == IF Overhead > MaxChars THEN 0 ELSE MaxChars - Overhead

AskForContext ==
  /\ pc = "gate"
  /\ Starved # {}
  /\ \E i \in Starved : (\A j \in Starved : i <= j) /\ Ask(i, "context", {})
  /\ UNCHANGED <<stored, snap, given, plan, used, calls, blocks, fitted, answer, turns>>

AskToNarrow ==
  /\ pc = "gate"
  /\ Starved = {}
  /\ ~AllMandatoryFit(blocks, Fit(blocks, Room))
  /\ Ask(1, "context_budget", {})
  /\ UNCHANGED <<stored, snap, given, plan, used, calls, blocks, fitted, answer, turns>>

Assemble ==
  /\ pc = "gate"
  /\ Starved = {}
  /\ AllMandatoryFit(blocks, Fit(blocks, Room))
  /\ fitted' = Fit(blocks, Room)
  /\ pc' = "ready"
  /\ UNCHANGED <<stored, snap, given, plan, at, used, calls, blocks, question, answer, turns>>

-----------------------------------------------------------------------------
(* The next turn: the answer of the user, on the snapshot it comes with. *)

NextTurn ==
  /\ pc = "asking"
  /\ turns < MaxTurns
  /\ turns' = turns + 1
  /\ snap' \in Snapshots
  /\ pc' = "documentation"
  /\ at' = 1
  /\ used' = 0
  /\ blocks' = <<>>
  /\ question' = None
  /\ UNCHANGED <<stored, given, fitted>>

\* The candidates an answer in words names (candidateFromFreeText).
Named(name) == ExactMatches(question.candidates, name)

\* A candidate chosen from the list, or the only one an answer names: no call.
PickCandidate ==
  /\ NextTurn
  /\ calls' = 0
  /\ \E doc \in question.candidates :
       LET t == [plan[question.task] EXCEPT !.entity = [doc |-> doc, from |-> question.from]] IN
       /\ plan' = Patch(plan, question.task, t)
       /\ answer' = [task |-> question.task, slot |-> question.slot, picked |-> t.entity, said |-> None]

\* Any other words: the classifier is called, then they become the mention of
\* the task.  Without a call for the classifier the run fails, and leaves plan
\* and question as they are.
AnswerInWords ==
  /\ NextTurn
  /\ MaxCalls > 0
  /\ calls' = 1
  /\ \E name \in Names :
       /\ Cardinality(Named(name)) # 1
       /\ plan' = Patch(plan, question.task, [plan[question.task] EXCEPT !.mention = name])
       /\ answer' = [task |-> question.task, slot |-> question.slot, picked |-> None, said |-> name]

\* "cancel" or a new question: this interaction is over.
LeaveDialogue ==
  /\ pc = "asking"
  /\ pc' = "left"
  /\ UNCHANGED <<stored, snap, given, plan, at, used, calls, blocks, fitted, question, answer, turns>>

\* The dialogue is over, or the model's bound on turns is reached.
Rest ==
  /\ \/ pc \in {"ready", "unsupported", "left"}
     \/ pc = "asking" /\ turns = MaxTurns
  /\ UNCHANGED vars

Init ==
  /\ pc = "planning"
  /\ snap \in Snapshots
  /\ stored = snap
  /\ given \in [request : Requests, calls : CallLimits, bundle : Bundles]
  /\ plan = <<>>
  /\ at = 1
  /\ used = 0
  /\ calls = 0
  /\ blocks = <<>>
  /\ fitted = <<>>
  /\ question = None
  /\ answer = None
  /\ turns = 1

Next ==
  \/ PlanDirectly \/ CallPlanner \/ RepairPlan
  \/ SkipDocumentation \/ RetrieveDocumentation
  \/ SkipDomain \/ ReuseEntity \/ ListEntities \/ ResolveEntity
  \/ AskForContext \/ AskToNarrow \/ Assemble
  \/ PickCandidate \/ AnswerInWords \/ LeaveDialogue
  \/ Rest

Spec == Init /\ [][Next]_vars

-----------------------------------------------------------------------------
(* Properties. *)

Answer == [task : Nat, slot : {"entity", "context", "context_budget"},
           picked : Entity \cup {None}, said : Names \cup {None}]
Question == [task : Nat, slot : {"entity", "context", "context_budget"},
             candidates : SUBSET Documents, from : Snapshots]

\* Types, and that questions, answers and blocks are about tasks of the plan.
TypeOK ==
  /\ pc \in {"planning", "repairing", "documentation", "domain", "gate",
            "asking", "ready", "unsupported", "left"}
  /\ {stored, snap} \subseteq Snapshots
  /\ given \in [request : Requests, calls : CallLimits, bundle : Bundles]
  /\ plan \in Seq(Task)
  /\ plan # <<>> => ValidPlan(plan) /\ at \in DOMAIN plan
  /\ at \in Nat /\ used \in Nat /\ calls \in Nat
  /\ turns \in Nat
  /\ question \in Question \cup {None}
  /\ question # None => question.task \in DOMAIN plan
  /\ answer \in Answer \cup {None}
  /\ answer # None => answer.task \in DOMAIN plan
  /\ \A k \in DOMAIN blocks : blocks[k].task \in DOMAIN plan

\* A turn makes at most MaxCalls model calls, the classifier of the answer
\* included, although Prepare counts its own calls from zero (run.go:22,
\* model_calls.go:38).
CallsShareOneBudget == calls <= MaxCalls /\ used <= MaxCalls

\* When a task is looked up, the folder tasks it depends on have their entity:
\* the plan orders dependencies first, an unresolved task ends the turn, and an
\* answer forgets no task it does not depend on (coordinator.go:80).
DependenciesAreResolved ==
  pc = "domain" =>
    \A k \in DOMAIN T.deps :
      LET d == plan[T.deps[k]]
      IN  UsesDomain(d) /\ d.intent # "list_entities" => d.entity # None

\* An entity the user picked is what the answer is about: nothing replaces it
\* and nothing asks for it again while the workspace is the one the interaction
\* began with (coordinator.go:98).
PickHolds ==
  answer # None /\ stored = snap =>
    (answer.picked # None =>
      /\ plan[answer.task].entity = answer.picked
      /\ question # None /\ question.slot = "entity" => question.task # answer.task)

\* The request goes out only when every task that needs context has a block of
\* its source in it (adequacy.go:16).
ReadyIsGrounded ==
  pc = "ready" =>
    \A i \in DOMAIN plan : plan[i].source \notin {"conversation", "none"} =>
      \E k \in DOMAIN blocks : blocks[k].task = i /\
        \E j \in DOMAIN fitted : fitted[j].key = blocks[k].key

\* Entities of one snapshot respect the folder scope of the final plan: a task
\* that depends on a folder never keeps a document of another one
\* (coordinator.go:104, interaction/coordinator.go:241).
ScopeIsKept ==
  pc = "ready" /\ (\A i \in DOMAIN plan : plan[i].entity # None => plan[i].entity.from = snap) =>
    \A i \in DOMAIN plan :
      plan[i].entity # None /\ Scope(plan, plan[i]) # None =>
        plan[i].entity.doc.folder = Scope(plan, plan[i])

\* Task i depends on task j, however indirectly: it is in every set that has j and
\* whatever depends on a task in the set.
Closed(p, S) == \A i \in DOMAIN p : \A k \in DOMAIN p[i].deps : p[i].deps[k] \in S => i \in S

DependsOn(p, i, j) == \A S \in SUBSET DOMAIN p : j \in S /\ Closed(p, S) => i \in S

\* An answer forgets the entity of every task that depends on the one asked
\* about, however indirectly, and touches no other branch of the plan
\* (interaction/coordinator.go:241, coordinator_test.go:39).
AnswersPatchOneBranch ==
  [][PickCandidate \/ AnswerInWords =>
       \A i \in DOMAIN plan : i # question.task =>
         plan'[i] = IF DependsOn(plan, i, question.task)
                    THEN [plan[i] EXCEPT !.entity = None] ELSE plan[i]]_vars

\* Expansion never loses the best match: the search a task is given scores its
\* best match at least as high as the search for its own words, although an
\* expanded one may be taken for its coverage alone (coordinator.go:176).
ExpansionKeepsTheBest ==
  [][RetrieveDocumentation /\ T.mention # None =>
       LET best == Search(WordsOf[T.mention]).best
       IN  best > 0 => /\ Len(blocks') > Len(blocks)
                       /\ blocks'[Len(blocks) + 1].score >= best]_vars

\* What the tests and the documentation say, and the code does not do:

\* A candidate the user picked settles the question it answers, on the snapshot
\* it was picked from (coordinator_test.go:57).
PickSettlesItsTask ==
  pc = "asking" /\ question.slot = "entity" /\ answer # None =>
    (answer.picked # None => answer.picked.from # snap \/ question.task # answer.task)

\* A name given in answer to "clarify its name or identity" is what is looked
\* up (resolver.go:44).
AnswerIsSought ==
  pc = "domain" /\ UsesDomain(T) /\ answer # None =>
    (answer.task = at /\ answer.slot = "entity" /\ answer.said # None =>
       ~Reusable(T) /\ Sought(T) = answer.said)

\* Mandatory context is in the request (docs/architecture.md:56).
MandatoryContextIsSent ==
  pc = "ready" =>
    \A k \in DOMAIN blocks : blocks[k].mandatory =>
      \E j \in DOMAIN fitted : fitted[j] = blocks[k]

MandatorySize ==
  FoldFunction(LAMBDA b, n : n + IF b.mandatory THEN b.size ELSE 0, 0, blocks)

\* A document too large for the request is compacted rather than asked about:
\* the user is asked to narrow the request only when what is mandatory in it,
\* compacted, does not fit (docs/architecture.md:56).
OversizedDocumentsAreCompacted ==
  pc = "asking" /\ question.slot = "context_budget" =>
    BaseChars + MandatorySize + Len(blocks) > MaxChars
=============================================================================
