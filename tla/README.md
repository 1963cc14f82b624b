# Verification of the AI workbench service

TLA+ specifications of `service-ai-workbench`, the TLC configurations that check
them and the TLAPS proofs about them. File and line references are to `src/`.

1. [The system](#1-the-system)
2. [Modules](#2-modules)
3. [Runs](#3-runs)
4. [Proofs](#4-proofs)
5. [What the code does that its documents do not say](#5-what-the-code-does-that-its-documents-do-not-say)
6. [Only model-checked, and not modelled](#6-only-model-checked-and-not-modelled)
7. [Plan](#7-plan)

## 1. The system

A gRPC server answers questions about a workspace. The client sends a prompt with a
snapshot of the workspace; the service stores the prompt, prepares a request for a
language model (plan, documentation, entities of the snapshot), may ask the user a
question first, generates, validates and stores the answer.

| Component | State | Operations | Correct when |
| --- | --- | --- | --- |
| conversation and run store (`repo/postgres/{workbench,run,message}_repository.go`) | conversations, messages, runs | create, reset, update model, start, complete and fail a run, two paginated lists | one active conversation per actor and workspace, one running run per conversation, a run's outcome is final, history is append-only and can be paged through, nothing happens in an archived conversation |
| interaction and clarification store (`{interaction,clarification}_repository.go`) | interactions with a versioned plan, clarifications | create, save, supersede, attach, complete, fail; ask and answer a question | an open question can be answered, an interaction never waits for nothing, closed interactions stay closed |
| run handler (`usecase/workbench/run.go`) | the run's id, its copy of the interaction | the sequence of calls of one run, with a fail closure at every exit | every exit ends the run; nothing that was stored is undone; what the client was told is what was stored |
| interaction coordinator (`usecase/interaction/coordinator.go`) | none of its own | resume, answer, cancel or supersede the active interaction; patch the plan with an answer | answers go to the question they were given for and change one branch of the plan |
| preparation (`usecase/preparation/*`) | plan, trace, call count (in memory) | plan and repair, retrieve, resolve, gate, assemble | a request is grounded for every task, scopes are kept, the budgets of calls and characters hold, answers settle questions |
| response validation (`response_validator.go`, `citations.go`) | none | check, repair once, cut citations, render | a stored answer cites and claims only what its context confirms |
| domain selector (`adapters/domain/snapshot/selector.go`) | a cache of eight indexed snapshots, shared by all runs | index, score, select | map and eviction order agree, whatever runs at once; ranking loses no exact match |
| knowledge retriever (`adapters/knowledge/bundle/retriever.go`) | the bundle, loaded once | search | an expanded search is never worse than the one it replaces |
| model adapters (`adapters/llm`) | none | a stream or a structured reply | limits are exact, every call ends |
| configuration and start-up (`config/config.go`, `bootstrap/grpc.go`) | settings, read once | load, refuse to start | the service runs guarded as its environment requires |
| gRPC API | none | the Run call: events and status | a client learns the outcome once |
| HTTP, prompt catalog, debug recorder | none that the workbench reads | conversions, files | - |

**How they interact.** A run is one goroutine: `UseCase.Run` calls the store, the
coordinator, the preparation and a generator in turn, and emits events on the gRPC
stream. Runs share PostgreSQL, the selector's cache, and nothing else. The database is
the only place where two runs, a run and a reset, or a run and a client reading history
meet; there is no queue, no worker and no job that repairs anything later.

**What is hard.** (a) Between two calls of a handler other handlers and resets commit;
what it read may be stale when it writes, most of all after the seconds a model takes.
(b) Every call can fail, can be applied and lose its reply, or be cut off by the client;
each of about a dozen exits has to end the run by itself. (c) A process can die between
any two calls, and start-up recovers nothing. (d) Exclusion rests on row locks that no
comment names: `upsertProjections` updates the actor's row and thereby serialises
everything that starts or resets. (e) PostgreSQL evaluates sub-selects on the statement's
snapshot, before the locks it waits for. (f) `now()` and sequence numbers are taken before
a transaction can be seen. (g) Preparation spans several runs with the user in between, and
the snapshot may differ in each of them. (h) Deltas reach the client before the answer is
stored, and a failure is told by an event or by the status of the call, depending on where
it happens.

The list of hazards, each at its line and with the properties that cover it, is in
`PROJECT.json`.

## 2. Modules

| Module | What it is |
| --- | --- |
| `Workbench` | the store and all handlers: repository, run handler, coordinator |
| `ConversationHistory` | what the message store promises a reader; implemented by `Workbench` |
| `WorkbenchInvariant` | the inductive invariants `IInv` and `OutcomeInv` |
| `WorkbenchTypeProofs`, `WorkbenchProofs`, `WorkbenchOutcomeProofs` | proofs about `Workbench` |
| `TaskPlan`, `ContextBudget` | plans, their validation and patch; fitting blocks into a budget |
| `Planner` | the deterministic planner: from the signals in a request to a plan |
| `Knowledge` | the documentation search: loading, query, score, ranking |
| `Preparation`, `PreparationProofs` | the dialogue of one interaction; EXTENDS the four above; proofs |
| `Configuration`, `ProviderStream` | the settings and what is refused at start; one call of a model provider, byte by byte where the limits are |
| `AnswerCheck` | the validation of an answer, its repair, its citations and its rendering |
| `Answering`, `AnsweringProofs` | one run as its client sees it, from settings to events; EXTENDS the three above; proofs |
| `Listings`, `ListingsProofs` | paging through conversations and messages while they are written; proofs |
| `SnapshotCache` | the selector's cache |
| `Selection`, `SelectionProofs` | whole selections over that cache: index, score, rank, relate; proofs about both |
| `Collections`, `DataInduction` | sums and sorting in forms the provers can unfold; lemmas about them, folds and induction |
| `MCWorkbench`, `MCPreparation`, `MCAnswering`, `MCListings`, `MCSelection` | instances for TLC |

`Workbench`, `Preparation` and `Answering` are three views of one run that share its calls:
`Workbench` has the rows and every interleaving, and leaves to chance what preparation and
the model return; `Preparation` has what one dialogue decides; `Answering` has what is sent
and told, with its run as one row. Each leaves open what another one settles.

Definitions called `Mutant_...` are not part of a model: each is the definition that
follows it with a bug it could have, and `PROJECT.json` says which property detects it.

### Workbench

*State.* Tables are functions of the request that made the row: a request identifies its
run (so that `request_id` is unique is given and not shown), that run's user message, the
interaction rooted at the message and the question the run may ask. `conv, model` are conversations, `messages` their
messages in sequence order, `run, runConv, runModel, attached` runs, `interaction, version`
interactions, `clarification, asksFor, askedAt` clarifications. A handler is `pc` (the call
it is about to make), `reply` (the ids in its request), `copy` (the interaction it holds in
memory), `verdict` (what the fail closure was called with) and `connected`.

*Steps.* One repository transaction is one action, with the guards of its SQL: status
filters and row counts (`Applies`, `Refused`), plan versions, and the unique indexes
(`MayActivate` is `interactions_one_active_idx`, `RunningIn(c) = {}` is
`runs_one_active_idx`). That is sound because each statement that decides something does
so on rows it locks or through an index. Two statements do not, and are two actions
each: `ResetBegin` reads which conversations are busy and `ResetCommit` writes, with the
actor's row locked in between; `UpdateModelBegin` evaluates `NOT EXISTS (messages)` on the
statement's snapshot and `UpdateModelEnd` writes, with nothing locked.

*Failures.* `CallFails(r)` is a call that was not applied. `Acknowledged` lets a call that was
applied lose its reply, so that the handler sees an error. `Disconnect` cancels the request
context, after which calls made with it fail; the fail closure uses a context of its own.
`Fail` is the closure: `FailInteraction` when the handler holds an interaction, else `FailRun`.
`FailIsLost` is its discarded error, `Crash` the death of the process. `pc = "leftOpen"` marks a
handler that has returned and left its run running, which the code does on three paths: the
reply of `StartRun` is lost, `CompleteRun` fails on the cancellation path (`run.go:75`), or the
fail closure's own error is discarded (`run.go:47`). The classifier, the preparation and the generator are
choices here.

### Preparation

One behaviour is the dialogue of one interaction: a turn prepares (one run), asks, and the
next turn starts with the answer and a snapshot that may have changed. The steps are those
at which something outside decides: a model's reply (`CallPlanner`, `RepairPlan`,
`ResolveEntity`), what a search finds (`RetrieveDocumentation`), the answer (`PickCandidate`,
`AnswerInWords`, `LeaveDialogue`). `NextTurn` is what the store gives the next turn: the plan
is saved with a question, the snapshot hash is not (`clarification_repository.go:71`), so
`stored` is that of the first turn. `used` and `calls` are the two budgets: `Prepare` counts its
calls from zero, the run's context also counts the classifier's.

Data is reduced to what the properties tell apart: a document is type, identity, display
name, folder and length; a block is its key, task, length, priority and whether it is
mandatory. A request is a sequence of parts with the signals, collections and names found in
their words; `Planner` applies the code's rules to them. A text to search by is a sequence of
words, and `Knowledge` scores it: stems, aliases, anchors and concepts of words are constants.
Assumed of the outside: replies follow `TaskPlanSchema` (no field for an entity), task ids are
distinct (a task is its position), and identities are unique per collection.

What the selector may return is a set here (`Selections`): all exact matches, unless the
limit is reached. `Selection` shows that this is what ranking does; in the code a limit full of
documents that rank no lower can push an exact match out.

### Answering

The run of one request against a provider: `Init` picks an environment the service starts in
(`Load`, `Guarded`) and a connection; the handler's steps are the calls of `run.go`; the provider
sends objects of any size in `Objects`, may never end, fail or break. A call under the request's
context fails when the client is gone or, up to `MaxFaults`, by itself, applied or not. The
decoder reads ahead (`ahead` in `Receive`), which is what the byte limit has to survive.
`verdict.tells` is the difference between the two ways a failure is reported: by an event and
status OK, or by the status alone (`server.go:120`). An event is sent in one step and the status
returned in a later one: `Close` is the fail closure's update, `EmitFailed`, `EmitCompleted` and
`EmitClarification` send the last event, `EndCall` ends the call. A process may die between any
two of them (`Crash`), and then the client has a beginning of what was sent and the status
`Unavailable`.

Preparation is a choice among `Preparations`: the plan's entities, the blocks collected and those
that fit. The schema in the model's request is made from the plan and the blocks the assembler
is given (`Schema`), the context an answer is checked against from the result `Prepare`
returns (`Traced`); they are two variables, `schema` and `context`, and nothing in the validation
reads the first.

### Listings

Writers are transactions with the time of their `now()`, the locks they wait for and the
sequence number they have drawn; clients walk page by page with a cursor. Locks are
PostgreSQL's: the actor's row, `FOR UPDATE` on the conversation in `StartRun`, and the
`FOR KEY SHARE` lock a message's foreign key takes on its conversation.

### SnapshotCache and Selection

`Selector.index` in three steps, since the mutex is held for the look-up and for the store
but not while the snapshot is decoded and indexed. `Selection` adds the rest of `Select`: the
documents in scope, the score of each, the cut, and the documents related to those kept.
Ranks are sorted with `SortedBy` (`Collections`), the sort of the code for the total orders it is
used with. Words, their lengths and the pairs of near words are constants; normalisation is not.

## 3. Runs

| Run | Checks | Bounds, and why they are enough | Distinct states |
| --- | --- | --- | --- |
| `core_safety` | state properties of `Workbench`, `IInv`, refinement of `ConversationHistory` | 2 conversations of one scope (a reset needs an old and a new one), 3 requests (a question, its answer and a third that interferes), one fault anywhere | 459,830 |
| `outcomes` | `RunsEnd`, finality of outcomes | 1 conversation, 2 requests, one fault and one client that goes away | 50,268 |
| `preparation` | `Preparation` | 3 turns (question, answer, question again), 2 snapshots that differ in where a document is, 6 documents with one shared identity and two shared names, call limits 0 and 2, 8 requests, 5 model plans (two of them invalid), 2 bundles; budgets small enough that each block can be the one that does not fit | 72,888 |
| `answering` | `Answering` | 21 environments at the ends of the accepted ranges and past them, 5 connections, objects whose sizes meet both limits exactly and by one, 7 answers, 2 outcomes of preparation in each of which a block did not fit, one fault, a client that goes away | 1,047,388 |
| `selection` | `Selection` over the cache | 2 runs, a cache of one, 4 snapshots (one malformed, one of another kind), 6 documents (one without a display name), limits 0 to 3 | 400,555 |
| `history_pages` | message pages of `Listings` | 2 conversations, 2 transactions at once, 6 transactions, 4 messages, one row per page: a boundary everywhere | 262,988 |
| `model_race`, `picked_again`, `answer_ignored`, `mandatory_dropped`, `document_not_narrowed`, `conversation_skipped` | one property each that the code violates, see section 5 | | |

What the passing runs show:

- `OpenClarificationIsCurrent`, `AwaitingHasOpenClarification`,
  `OneOpenClarificationPerConversation`: questions and interactions stay paired through
  answers, supersession, resets, late failures and lost replies, although the index
  allows one question per interaction only and `plan_version` is computed twice.
- `ArchivedConversationIsQuiet`: the reset's several statements are as good as one.
- `NewQuestionIsNeverRefused`, `QuestionWaitsForItsAnswer`: what a handler read before a
  slow call still holds when it writes, interactions left by failures included.
- `CompletedRunClosedItsInteraction`, `RunOutcomeIsFinal`, `InteractionOutcomeIsFinal`: no
  retry, no late failure and no lost reply undoes an outcome. `failed` is not final for an
  interaction: a late `FailInteraction` can meet one that another run has just resumed, and
  that run's `SaveInteraction` sets it going again.
- `ImplementsHistory`: a turn opens with one user message and closes with at most one
  assistant message right after it. That every answer follows the question of its own run is
  then a theorem (section 4). It does not show that a repeated `request_id` is refused, see
  section 2.
- `RunsEnd`: every run ends, or is one of the runs the code leaves running (`leftOpen`,
  `crashed`): those it records and does not catch, it shows that there are no others. *Fairness* (`FairSpec`) is weak fairness of each handler: a goroutine that can
  take its next step takes one, and calls end because they have timeouts. Nothing is assumed
  of clients, resets or faults.
- `CallsShareOneBudget`, `DependenciesAreResolved`, `PickHolds`, `ReadyIsGrounded`, `ScopeIsKept`,
  `AnswersPatchOneBranch`: the preparation's promises over a dialogue. `PickHolds` and
  `ScopeIsKept` hold with a hypothesis on snapshots, since only the first one's hash is stored.
- `ExpansionKeepsTheBest`: a search expanded by the model is taken for its score or for its
  coverage alone, and still never finds less than the words it replaces.
- `ToldIsStored`, `OneOutcome`: the deltas of a run told to be complete are the stored answer, no
  completed run is told to have failed, and a client that stays learns the outcome once, as an
  event or as a status. The exception is the process that dies: its client sees `Unavailable`,
  and may have had the last event before, sent at `server.go:109` when the status of
  `server.go:120` was still to come. What that event said is then stored all the same.
- `AnswerIsConfirmed`, `CitationsWereOffered`: what is stored was checked against the context,
  through one repair; and although that context is not the schema the model was given, an
  identity is refused exactly when it was not offered, and documentation is cut from the
  citations, and said to be, exactly when it was not.
- `SizeLimitIsExact`, `GuardedWhereItRuns`: the limits hold to the byte although the decoder reads
  ahead, and no accepted environment opens a connection its stage forbids.
- `AnswerEnds`: a started run ends although the provider may never answer. *Fairness* is weak
  fairness of `Handler`, what `Run` does by itself; that a silent provider is left after
  `requestTimeout` is its step `StreamEnds` (`adapter.go:98`). The provider is not assumed fair.
- `MessagesAppearInOrder`, `HistoryIsReadWhole`: paging back while runs write loses and repeats
  no message.
- `OrderListsTheCache`, `StoredSnapshotIsServed`: two runs that index one snapshot at once
  leave the cache consistent.
- `ExactMatchIsFoundUnlessFull`, `NothingOutranksWhatIsKept`, `RelatedToWhatIsKept`: a selection is
  within its scope and limit, and related documents never cost a better direct one.

Deadlock is checked in `preparation`, `answering`, `history_pages` and `selection`, where an ended
run stutters (`Rest`) and nothing else may stop; in `Workbench` a state without successors is one
in which all requests were served and the bounds on faults are used up, so those runs do not
check it. Symmetry is used in safety runs only, over conversations of one scope, requests
and writers, none of which is named by a property.

## 4. Proofs

Theorems about `Workbench` hold for every set of conversations, scopes, requests and models and
for every bound on faults and disconnects; `MaxFaults` and `MaxDisconnects` bound nothing a proof
uses. The others hold for every value of their modules' constants, within the assumptions named;
TLC evaluates each assumption in the runs. Every safety property, action property and
refinement that a passing run checks is a theorem.

**Workbench** (assumption: `ConstantsAssumption`, that ids of absent rows are not ids).
`Invariance` proves `Spec => []IInv`, and from `IInv` follow `TypeCorrect`,
`OpenQuestionsAreCurrent`, `WaitingInteractionsHaveAQuestion`, `OneQuestionPerConversation`,
`ArchivedConversationsAreQuiet`, `NewQuestionsAreServed` and `AnswersFindTheirQuestion`.

The properties are not inductive by themselves: that an open question stays current
depends on who may write to its interaction. `IInv` adds what makes it so. `HandlerInv` says
of each handler that works that its run is running, that it holds an interaction of its own
conversation, and, by where it is, that the question it read is open, that its copy has the
current version, or that no other interaction is active. `StoreInv` has the unique indexes
and `ResetSeesRuns`: while a reset holds the actor's row, every running run is one it has
seen. The argument is ownership: a working handler's run is the only running one of its
conversation (`OneRunningRun`), so no other handler there works, no reset archives the
conversation, and all other writes are guarded by the status they replace. Hence most steps
are covered by one lemma (`OthersKeepInv`: other handlers keep `HandlerInv` when the store
changes only in the mover's conversation), and each action adds a lemma for its own row
changes. `WorkbenchTypeProofs` has type correctness, one lemma per action.

`WorkbenchOutcomeProofs` adds `OutcomeInv` for the three theorems about outcomes
(`RunOutcomesAreFinal`, `CompletedRunsCloseTheirInteraction`, `InteractionOutcomesAreFinal`): by
where a handler is, what status its copy has (`HeldStatus`), that the store has the same or
`failed` (`HeldIsCurrent`), that its run is attached to it (`HeldIsAttached`), and that a fail
closure that meets an ended run can only fail it (`LateFailure`). Completing a run then
completes the interaction it is attached to, and no later write can reach either.

`StoreImplementsHistory` is the refinement: with the running run of a conversation as its open
turn, every step of `Workbench` asks, answers or abandons a turn of `ConversationHistory`, or
leaves the history alone (`StepImplements`). It needs `OneRunningRun`, since otherwise an answer
would leave a second turn open, and `SpokenByRuns`, that every message is of a run that exists:
the run of a new request has then said nothing before. `MessagesFollowTheirQuestion` states
what a reader gains, `AnswersFollowQuestions` of the abstract module, in terms of the store; it
follows from the refinement and `QuestionIsLast`, that the newest message of a conversation
with a running run is that run's prompt.

**Preparation** (assumptions: `ConstantsAreSane`, the types of the constants; `WordsAreSane`, the
same for words; `FoldersAreACollection`, `DocumentsAreDocuments`, `NoneIsNoEntity`).
`CallsNeverExceedTheBudget`: `used` and `calls` stay within the limit although they count
different calls. `TasksFindTheirDependencies` and `PicksHold` rest on `PlanInv`: every task before
`at` that needs an entity has one, dependencies of a valid plan come before it, an answer is
about a task of the plan, and on the stored snapshot a picked entity makes its task
`Reusable`, so that neither a look-up nor a question reaches it again. That what the
deterministic planner makes of any request is a valid plan is a lemma (`DraftIsAPlan`), and so is that an
answer's patch leaves one valid (`PatchKeepsPlan`). `DialogueTypes` adds questions and blocks.

- `ReadyRequestsAreGrounded` rests on `BlockInv`: a task that has blocks has a mandatory one,
  because whoever adds blocks for a task adds a mandatory one first. The gate asks for the key
  of each mandatory block among those that fit, and so each task keeps a block of one of its keys
  (not necessarily its own block, see `mandatory_dropped`).
- `ReadyEntitiesAreInScope` rests on `ScopeInv`: an answer reaches all tasks that depend on its
  own, so that no entity found in a folder survives a change of that folder, and on another
  snapshot than the first everything is looked up anew.
- `AnswersKeepToTheirBranch`: the code invalidates dependents in rounds until one changes
  nothing, which reaches the least set closed under dependency, because a plan lists a task
  after what it depends on.
- `ExpansionsKeepTheBest`: the expanded query begins with the words of the first one and a
  chunk's score grows with the words of the query (`TotalsGrow`), so the best match of the new
  ranking scores no less, whichever of its two criteria accepted it.

**Answering** (assumptions: `AnsweringAssumption`, `StreamAssumption`, and `LimitsAreNumbers`, which
follows from `Bounds` and is evaluated by TLC because the provers cannot expand intervals
that wide). `TheSizeLimitIsExact` and `ItIsGuardedWhereItRuns` follow from `ProviderInv`: what was
read never exceeds what was sent, an answer's content is within the buffer while the stream
goes on, and a stream that is read passed `Endpoint` and `Dialled`. `StoredAnswersAreConfirmed`
follows from `AnswerInv`: the first answer is the one judged until it is sent for repair, and
only one without a fatal error is. `AnswersCiteWhatWasOffered` adds `Offered`:
from the step that prepares both, the schema offers what the context allows. `OutcomesAreToldOnce`
follows from `EventInv`: while the handler works no event was the last one; once it returns
there is one such event or an error, or both when the event is that of the failure; and what
arrives when the process dies is a beginning of the events (`Arrived`), which has the last one
only if it has all. The proof uses nothing about the text of events. `WhatIsToldIsStored` does: `TextInv`
says that the deltas told so far, put together, are the text up to the end of the last piece
sent, so that after the last piece they are the text; it holds for pieces of any size.
`ReturnsStored` carries that from the last event to the status. `RowInv`, `PendingInv` and
`PlaceInv` relate the handler's place to the stored row and to the reply it waits for, and with
them `AnsweringTypes`.

**Listings** (assumption: `ListingsAssumption`). `OrderIsTheOrderOfCommits` rests on
`NumbersInv`, that a number drawn and not committed is larger than every message of its
conversation, and that on `LocksInv`: two transactions never hold numbers of one conversation,
since a message is inserted under its conversation's row lock, and a start under the
actor's. `PagesMissNothing` adds `ReadingInv`: the cursor and the newest message read are
messages of the conversation, so that messages which commit later are above both.
`TypesHold` includes that a conversation with a running run is active, which a reset cannot
undercut between the check of a starting run and its commit.

**Selection** (assumptions: `CacheAssumption`, `SelectionAssumption`, `DocumentsAssumption`: the limit
is at least one, texts are words, identities are unique in their collection). About the cache
alone, for any number of runs and snapshots and any limit: `CacheTypeCorrect`,
`OrderAlwaysListsTheCache` and `StoredIsServed`; the invariant is `TypeOK /\ OrderListsTheCache`, and
two lemmas say what `Append` and `Tail` do to a sequence without repetitions.
`SelectorUsesTheCache` shows that a selection's steps are steps of the cache or leave it alone
(`SelectorSpec => Spec`), whatever is indexed and matched; `SelectorsOrderListsItsCache` and
`SelectorServesWhatItStored` carry the cache's theorems over.

`ExactMatchesAreFound`, `TheHighestAreKept` and `RelatedMentionWhatIsKept` say that what is
selected is right, for every snapshot, text and limit. They are first shown of one ranking
(`FindingIsRight`): the direct matches are all documents in scope that score, exact ones among
them, each once and in order (`SortedInOrder`); and a selection is a prefix of them, then related
documents, then the next direct matches while there is room. The invariant `Reading` then says that a selection ranks the snapshot its run asked
for, through look-ups, evictions and stores by other runs in between.

**Induction over data.** The library's induction theorems take operators as parameters, which
the provers cannot instantiate. `DataInduction` states induction for sets instead
(`NatInductionSet`: a set with 0 and every successor has all numbers; `SubsetInduction` for the
subsets of a finite set) and proves it from the well-foundedness of `<` on numbers. From
these follow what the folds of the community modules compute, one element at a time
(`FoldOfAppend`, `FoldOfConcat`), that a total is a number and grows with its set (`TotalIsNat`,
`TotalsGrow`), and that sorting lists each element once, in order.

## 5. What the code does that its documents do not say

Each is a run that TLC ends with a counterexample; details and quotations are in `PROJECT.json`.

- `model_race`: a model update that began before the first message can commit after it
  (`workbench_repository.go:146`); later runs of the conversation are refused.
- `picked_again`: a question's turn does not store the snapshot hash it was asked on
  (`clarification_repository.go:71`). After the workspace has changed once, an entity the user
  picked is looked up again, and if its identity is ambiguous the same question returns.
- `answer_ignored`: an answer in words leaves a previous entity in the task
  (`interaction/coordinator.go:232`), whose identity is looked up instead of the answer.
- `mandatory_dropped`: two tasks about one entity make blocks with one key, and the gate
  compares keys (`adequacy.go:62`): a mandatory document can be missing from the request.
- `conversation_skipped`: conversations are paged by `updated_at` alone (`workbench_repository.go:38`)
  and a reset gives two of them the same one: the second is skipped at a page boundary.
- `document_not_narrowed`: the plan in the request carries the full document of each resolved
  entity (`assembler.go:38`), so that for an oversized document the gate asks to narrow the
  request, and no answer helps.

Seen while modelling and not stated as a property:

- With two folder dependencies a selection is scoped by the first and a listing by the last
  (`coordinator.go:413`, `:441`).
- A question is an assistant message of a run that did not complete, which
  `docs/architecture.md:35` does not mention.
- A quoted name is taken for the folder too, whatever it names (`planner.go:282`); a
  documentation question that names a folder and another collection makes a folder task.
- A task without a mention is searched by the prompt of the turn, which in later turns is the
  user's answer.
- An exact match can be cut by the selector's limit when as many other documents rank no lower
  (`selector.go:117`); documents without an identity that share a display name share a key.
- A stream that is cancelled or overdue after its first byte is recorded as a failed generation
  rather than a cancelled one (`adapter.go:130`), and the reply of a repair is not held to
  `AI_RESPONSE_BUFFER_MAX_BYTES`.
- A process that dies after the last event and before the status leaves its client with the
  outcome and `Unavailable` (`server.go:109`, `:120`): an error status does not say that the
  outcome was not told.
- Claims of a change are looked for in the answer, not in its limitations
  (`docs/architecture.md:59`).
- `AI_RERANKER_MIN_CONFIDENCE=NaN` passes the range check; a staging service may run without
  TLS and identity.
- With `AI_PREPARATION_MAX_MODEL_CALLS=0` an answer in words ends the run, so that a question
  without candidates can only be left.

## 6. Only model-checked, and not modelled

Only model-checked: liveness (`RunsEnd`, `AnswerEnds`), since the proof system does not prove
fairness arguments; and the six properties of section 5, which the code violates.

Not modelled:

- Word lists, regular expressions and Unicode normalisation (`normalizer.go`,
  `entity_registry.go`): words are units, and what the code finds in them is a constant or a choice.
  Where `retriever.go:244` and the selector look for one text in another, `Knowledge` and
  `Selection` count words; no property turns on the difference.
- Prompt rendering, the wording of questions and traces: no property is about them.
- Redaction of credential-like fields in documents (`selector.go`): no other operation reads them.
- Conversions between messages and entities, the unary calls that add nothing to the use case,
  HTTP, prompt templates, the debug recorder (files that nothing reads back), logging, generated
  code.
- `run.go:36`, the branch without a preparation pipeline: start-up always wires one.
- Format checks of `validRun` and of the cursors.

One scope has one actor in one workspace; that scopes do not see each other's rows is in every
SQL statement's `WHERE` and is not a property here. `ListMessages` reads its page and the open
question in two statements (`conversations.go:62`): a question committed in between is returned
without its message. No document says that the two belong together.

## 7. Plan

Done, in order of importance: the store and the handlers with their invariants and proofs;
preparation with planner and documentation search; the answer from the settings to the
client's events; selections over the shared cache; the listings; proofs of every property
that is not liveness.

What could follow:

1. *An abstract dialogue* (a task is settled, asked about or dropped) which `Preparation` implements
   and `Workbench`'s choice in `Prepare` refines, so that the snapshot hash is written by one
   action of both.
2. *Normalisation and word rules* as pure operators against a reference definition.
