------------------------------ MODULE Workbench ------------------------------
(***************************************************************************)
(* The conversation store and the run handlers of the AI workbench.        *)
(*                                                                         *)
(* Each row group of PostgreSQL is a function; a transaction of            *)
(* internal/repo/postgres is one action, because every statement that      *)
(* decides something is guarded by a row it locks or by a unique index.    *)
(* The two statements whose subquery is evaluated on the statement's       *)
(* snapshot, before the row lock is obtained (the NOT EXISTS of            *)
(* ResetConversation and of UpdateConversationModel), are two actions.     *)
(*                                                                         *)
(* A handler is one call of UseCase.Run: a program counter, the            *)
(* coordinator included, that makes one repository call per step, keeps    *)
(* its in-memory copy of the interaction, and may lose its client, lose    *)
(* the reply of a call that was applied, or die with the process.          *)
(*                                                                         *)
(* Definitions named Mutant_... are no part of the model: each is the      *)
(* definition below it with a bug it could have, which a property detects. *)
(*                                                                         *)
(* A request identifies its run (request_id is UNIQUE), the run's user     *)
(* message, the interaction rooted at that message (root_message_id is     *)
(* UNIQUE) and the clarification the run asks (a run asks at most one).    *)
(***************************************************************************)
EXTENDS Naturals, Sequences

CONSTANTS
  Convs,          \* conversation ids, those not inserted yet included
  Scopes,         \* actor and workspace pairs
  ScopeOf,        \* [Convs -> Scopes]: the owner of each conversation
  Requests,       \* request ids
  Models,         \* model snapshots
  None,           \* no such row
  MaxFaults,      \* bound: calls or processes that fail
  MaxDisconnects  \* bound: clients that go away

ASSUME ConstantsAssumption ==
  /\ ScopeOf \in [Convs -> Scopes]
  /\ None \notin Convs \cup Requests \cup Models
  /\ MaxFaults \in Nat
  /\ MaxDisconnects \in Nat

VARIABLES
  conv,          \* conversations: "absent", "active" or "archived"
  model,         \* conversations: the stored model snapshot
  messages,      \* messages of each conversation, by sequence
  run,           \* runs.status
  runConv,       \* runs.conversation_id
  runModel,      \* runs.model_profile_id
  attached,      \* runs.interaction_id
  interaction,   \* interactions.status
  version,       \* interactions.plan_version
  clarification, \* clarifications.status
  asksFor,       \* clarifications.interaction_id
  askedAt,       \* clarifications.plan_version
  pc,            \* handlers: the call each one is about to make
  reply,         \* handlers: the request's ReplyToClarificationID and InteractionID
  copy,          \* handlers: the interaction value held in memory
  verdict,       \* handlers: the status the fail closure was called with
  connected,     \* handlers: the request context is not cancelled
  resetting,     \* scopes: a reset transaction in flight
  updating,      \* conversations: a model update in flight
  faults, disconnects

runs           == <<run, runConv, runModel, attached>>
interactions   == <<interaction, version>>
clarifications == <<clarification, asksFor, askedAt>>
conversations  == <<conv, model>>
store          == <<conversations, messages, runs, interactions, clarifications>>
handlers       == <<pc, reply, copy, verdict, connected>>
transactions   == <<resetting, updating>>
vars           == <<store, handlers, transactions, faults, disconnects>>

-----------------------------------------------------------------------------
RunStatus == {"absent", "running", "completed", "clarification_required",
              "failed", "cancelled"}

(***************************************************************************)
(* What FailInteraction still closes: an interaction that waits for an     *)
(* answer is left to its question.                                         *)
(***************************************************************************)
Mutant_FailWaiting == {"planning", "resolving", "awaiting_clarification", "ready", "generating"}
Failable           == {"planning", "resolving", "ready", "generating"}

(***************************************************************************)
(* The statuses interactions_one_active_idx and its readers know.          *)
(***************************************************************************)
Mutant_WaitingIsIdle == {"planning", "resolving", "ready", "generating"}
ActiveInteraction == {"planning", "resolving", "awaiting_clarification",
                      "ready", "generating"}
ClosedInteraction == {"completed", "failed", "cancelled", "superseded"}
InteractionStatus == {"absent"} \cup ActiveInteraction \cup ClosedInteraction
ClarificationStatus == {"absent", "open", "answered", "cancelled", "superseded"}

Message == [role : {"user", "assistant"}, run : Requests]
Reply   == [clarification : Requests \cup {None},
            interaction   : Requests \cup {None}]
Copy    == [id : Requests \cup {None}, status : InteractionStatus, version : Nat]
Reset   == [current : Convs \cup {None}, busy : SUBSET Convs]

NoReply  == [clarification |-> None, interaction |-> None]
NoCopy   == [id |-> None, status |-> "absent", version |-> 0]

ConvsOf(s)   == {c \in Convs : ScopeOf[c] = s}
Mutant_NoRunIndex(c) == {}
RunningIn(c) == {r \in Requests : run[r] = "running" /\ runConv[r] = c}
ActiveIn(c)  == {i \in Requests : interaction[i] \in ActiveInteraction /\ runConv[i] = c}
OpenFor(i)   == {k \in Requests : clarification[k] = "open" /\ asksFor[k] = i}
OpenIn(c)    == {k \in Requests : clarification[k] = "open" /\ runConv[asksFor[k]] = c}

(***************************************************************************)
(* interactions_one_active_idx: i may hold an active status only while no  *)
(* other interaction of its conversation does.                             *)
(***************************************************************************)
MayActivate(i) == ActiveIn(runConv[i]) \subseteq {i}

(***************************************************************************)
(* upsertProjections updates the actor's row first in every transaction    *)
(* that starts a run, creates or resets a conversation, and so keeps that  *)
(* row locked until the transaction ends.                                  *)
(***************************************************************************)
Mutant_NoActorRow(s) == TRUE
ActorRowFree(s) == resetting[s] = None

(***************************************************************************)
(* The message is the conversation's newest: sequence numbers appear in    *)
(* the order in which transactions commit (see Listings).                  *)
(***************************************************************************)
Mutant_SaysBefore(c, who, r) ==
  messages' = [messages EXCEPT ![c] = <<[role |-> who, run |-> r]>> \o @]
Says(c, who, r) ==
  messages' = [messages EXCEPT ![c] = Append(@, [role |-> who, run |-> r])]

(***************************************************************************)
(* The status a run has after FailRun or FailInteraction.                  *)
(***************************************************************************)
Mutant_FailAnyRun(status, v) == v
AfterFail(status, v) == IF status = "running" THEN v ELSE status

-----------------------------------------------------------------------------
Init ==
  /\ conv = [c \in Convs |-> "absent"]
  /\ model \in [Convs -> Models]
  /\ messages = [c \in Convs |-> <<>>]
  /\ run = [r \in Requests |-> "absent"]
  /\ runConv = [r \in Requests |-> None]
  /\ runModel = [r \in Requests |-> None]
  /\ attached = [r \in Requests |-> None]
  /\ interaction = [r \in Requests |-> "absent"]
  /\ version = [r \in Requests |-> 0]
  /\ clarification = [r \in Requests |-> "absent"]
  /\ asksFor = [r \in Requests |-> None]
  /\ askedAt = [r \in Requests |-> 0]
  /\ pc = [r \in Requests |-> "unsent"]
  /\ reply = [r \in Requests |-> NoReply]
  /\ copy = [r \in Requests |-> NoCopy]
  /\ verdict = [r \in Requests |-> "none"]
  /\ connected = [r \in Requests |-> TRUE]
  /\ resetting = [s \in Scopes |-> None]
  /\ updating = [c \in Convs |-> None]
  /\ faults = 0
  /\ disconnects = 0

-----------------------------------------------------------------------------
(***************************************************************************)
(* Conversations.                                                          *)
(***************************************************************************)
CreateConversation(c, m) ==
  /\ ActorRowFree(ScopeOf[c])
  /\ conv[c] = "absent"
  /\ \A d \in ConvsOf(ScopeOf[c]) : conv[d] # "active"
  /\ conv' = [conv EXCEPT ![c] = "active"]
  /\ model' = [model EXCEPT ![c] = m]
  /\ UNCHANGED <<messages, runs, interactions, clarifications, handlers,
                 transactions, faults, disconnects>>

(***************************************************************************)
(* The reset transaction locks the actor's row and evaluates the NOT       *)
(* EXISTS (running run) of its archiving UPDATE.  current is None for an   *)
(* empty current_conversation_id: every active conversation of the scope.  *)
(***************************************************************************)
ResetBegin(s, current) ==
  /\ ActorRowFree(s)
  /\ current \in ConvsOf(s) \cup {None}
  /\ resetting' = [resetting EXCEPT ![s] =
       [current |-> current, busy |-> {c \in ConvsOf(s) : RunningIn(c) # {}}]]
  /\ UNCHANGED <<store, handlers, updating, faults, disconnects>>

InReset(s, c) ==
  /\ ScopeOf[c] = s
  /\ resetting[s].current \in {None, c}

Archives(s, c) ==
  /\ InReset(s, c)
  /\ conv[c] = "active"
  /\ c \notin resetting[s].busy

(***************************************************************************)
(* The rest of the transaction: archive, supersede the open clarifications *)
(* and the active interactions, insert the next conversation.  A named     *)
(* conversation that is not archived, and an active one that is left for   *)
(* the unique index to find, end it without effect (ResetAbort).           *)
(***************************************************************************)
ResetCommit(s, next, m) ==
  /\ resetting[s] # None
  /\ next \in ConvsOf(s)
  /\ conv[next] = "absent"
  /\ resetting[s].current # None => Archives(s, resetting[s].current)
  /\ \A c \in ConvsOf(s) : conv[c] = "active" => Archives(s, c)
  /\ conv' = [c \in Convs |-> IF c = next THEN "active"
                              ELSE IF Archives(s, c) THEN "archived" ELSE conv[c]]
  /\ model' = [model EXCEPT ![next] = m]
  /\ clarification' = [k \in Requests |->
       IF clarification[k] = "open" /\ \E c \in Convs : InReset(s, c) /\ runConv[asksFor[k]] = c
       THEN "superseded" ELSE clarification[k]]
  /\ interaction' = [i \in Requests |->
       IF \E c \in Convs : InReset(s, c) /\ i \in ActiveIn(c)
       THEN "superseded" ELSE interaction[i]]
  /\ resetting' = [resetting EXCEPT ![s] = None]
  /\ UNCHANGED <<messages, runs, version, asksFor, askedAt, handlers, updating,
                 faults, disconnects>>

ResetAbort(s) ==
  /\ resetting[s] # None
  /\ resetting' = [resetting EXCEPT ![s] = None]
  /\ UNCHANGED <<store, handlers, updating, faults, disconnects>>

(***************************************************************************)
(* UpdateConversationModel is one UPDATE outside any transaction: it finds *)
(* the row and evaluates NOT EXISTS (messages) on its snapshot, and writes *)
(* the row once it has its lock, when only archived_at is read again.      *)
(***************************************************************************)
UpdateModelBegin(c, m) ==
  /\ updating[c] = None
  /\ conv[c] = "active"
  /\ messages[c] = <<>>
  /\ updating' = [updating EXCEPT ![c] = m]
  /\ UNCHANGED <<store, handlers, resetting, faults, disconnects>>

UpdateModelEnd(c) ==
  /\ updating[c] # None
  /\ model' = IF conv[c] = "active" THEN [model EXCEPT ![c] = updating[c]] ELSE model
  /\ updating' = [updating EXCEPT ![c] = None]
  /\ UNCHANGED <<conv, messages, runs, interactions, clarifications, handlers,
                 resetting, faults, disconnects>>

-----------------------------------------------------------------------------
(***************************************************************************)
(* How a repository call ends for the handler that made it.                *)
(***************************************************************************)
Goto(r, next, held) ==
  /\ pc' = [pc EXCEPT ![r] = next]
  /\ copy' = [copy EXCEPT ![r] = held]

(***************************************************************************)
(* The call returns an error.  CompleteRun on the cancellation path is the *)
(* one call whose error returns at once; every other error reaches FailRun *)
(* or the fail closure.  A failed SaveInteraction has overwritten the      *)
(* handler's interaction with the empty value, and an error inside         *)
(* StartOrResume never assigned it: both leave no interaction to fail.     *)
(***************************************************************************)
ReturnsError(r) ==
  /\ pc' = [pc EXCEPT ![r] = IF pc[r] = "closing" THEN "leftOpen" ELSE "failing"]
  /\ copy' = [copy EXCEPT ![r] = IF pc[r] \in {"asking", "completing"} THEN @ ELSE NoCopy]
  /\ verdict' = [verdict EXCEPT ![r] = "failed"]

(***************************************************************************)
(* The call's reply is lost: the context was cancelled, or the connection  *)
(* or the server failed, before or after the call was applied.             *)
(***************************************************************************)
Interrupted(r) ==
  \/ ~connected[r] /\ UNCHANGED faults
  \/ faults < MaxFaults /\ faults' = faults + 1

Acknowledged(r, next, held) ==
  \/ Goto(r, next, held) /\ UNCHANGED <<verdict, faults>>
  \/ Interrupted(r) /\ ReturnsError(r)

ContextCalls == {"getActive", "superseding", "creating", "getInteraction",
  "getClarification", "answering", "cancelling", "attaching", "closing", "asking",
  "savingReady", "savingUnsupported", "savingGenerating", "completing"}

ProgramCounter == ContextCalls \cup
  {"unsent", "classifying", "starting", "preparing", "generating", "streaming", "failing",
   "returned", "leftOpen", "crashed"}

CallFails(r) ==
  /\ pc[r] \in ContextCalls
  /\ Interrupted(r)
  /\ ReturnsError(r)
  /\ UNCHANGED <<store, reply, connected, transactions, disconnects>>

(***************************************************************************)
(* A step of the handler between two repository calls that gives up and    *)
(* calls the fail closure with status v.                                   *)
(***************************************************************************)
Mutant_GivesUpUnnamed(r, v) ==
  /\ pc' = [pc EXCEPT ![r] = "failing"]
  /\ UNCHANGED <<verdict, copy>>
Mutant_JustReturns(r, v) ==
  /\ pc' = [pc EXCEPT ![r] = "returned"]
  /\ UNCHANGED <<verdict, copy>>
GivesUp(r, v) ==
  /\ pc' = [pc EXCEPT ![r] = "failing"]
  /\ verdict' = [verdict EXCEPT ![r] = v]
  /\ UNCHANGED copy

Continues(r, next) ==
  /\ pc' = [pc EXCEPT ![r] = next]
  /\ UNCHANGED <<copy, verdict>>

(***************************************************************************)
(* The WHERE clauses, row counts and unique indexes of the call r is about *)
(* to make.  A clarification's plan_version never changes, so the base     *)
(* version the handler read always matches it.                             *)
(***************************************************************************)
Applies(r) ==
  LET i == copy[r].id
      k == reply[r].clarification
  IN CASE pc[r] = "creating" -> run[r] = "running" /\ ActiveIn(runConv[r]) = {}
       [] pc[r] = "getInteraction" ->
            LET j == reply[r].interaction
            IN j # None /\ interaction[j] # "absent" /\ runConv[j] = runConv[r]
       [] pc[r] = "getClarification" -> k \in OpenIn(runConv[r]) /\ asksFor[k] = i
       [] pc[r] = "answering" ->
            k \in OpenFor(i) /\ version[i] = copy[r].version /\ MayActivate(i)
       [] pc[r] = "cancelling" -> k \in OpenFor(i) /\ version[i] = copy[r].version
       [] pc[r] \in {"attaching", "closing"} -> run[r] = "running"
       [] pc[r] = "asking" ->
            /\ OpenFor(i) = {}
            /\ version[i] = copy[r].version
            /\ MayActivate(i)
            /\ run[r] = "running"
       [] pc[r] \in {"savingReady", "savingUnsupported", "savingGenerating"} ->
            version[i] = copy[r].version /\ MayActivate(i)
       [] pc[r] = "completing" ->
            run[r] = "running" /\ interaction[i] \in {"ready", "generating", "resolving"}
       [] OTHER -> TRUE

Refused(r) ==
  /\ pc[r] \in ContextCalls
  /\ ~Applies(r)
  /\ ReturnsError(r)
  /\ UNCHANGED <<store, reply, connected, transactions, faults, disconnects>>

-----------------------------------------------------------------------------
(***************************************************************************)
(* StartRun waits for the actor's row, so it never falls inside a reset;   *)
(* the conversation row, FOR UPDATE, orders it with a model update's write *)
(* but not with that update's snapshot.  validRun has refused a reply that *)
(* names no interaction.                                                   *)
(***************************************************************************)
StartRun(r, c, m, answer) ==
  /\ pc[r] = "unsent"
  /\ ActorRowFree(ScopeOf[c])
  /\ conv[c] = "active"
  /\ model[c] = m
  /\ answer.clarification # None => answer.interaction # None
  /\ RunningIn(c) = {}
  /\ run' = [run EXCEPT ![r] = "running"]
  /\ runConv' = [runConv EXCEPT ![r] = c]
  /\ runModel' = [runModel EXCEPT ![r] = m]
  /\ Says(c, "user", r)
  /\ reply' = [reply EXCEPT ![r] = answer]
  /\ \/ /\ pc' = [pc EXCEPT ![r] = IF answer.clarification = None THEN "getActive"
                                   ELSE "getInteraction"]
        /\ UNCHANGED faults
     \/ /\ Interrupted(r)
        /\ pc' = [pc EXCEPT ![r] = "leftOpen"]
  /\ UNCHANGED <<conversations, attached, interactions, clarifications, copy, verdict,
                 connected, transactions, disconnects>>

(***************************************************************************)
(* StartOrResume without a clarification id.                               *)
(***************************************************************************)
Mutant_IgnoresActive(r) ==
  /\ pc[r] = "getActive"
  /\ Goto(r, "creating", NoCopy)
  /\ UNCHANGED <<store, reply, verdict, connected, transactions, faults, disconnects>>
GetActiveInteraction(r) ==
  /\ pc[r] = "getActive"
  /\ \/ /\ ActiveIn(runConv[r]) = {}
        /\ Goto(r, "creating", NoCopy)
     \/ \E i \in ActiveIn(runConv[r]) :
          Goto(r, "superseding", [id |-> i, status |-> interaction[i], version |-> version[i]])
  /\ UNCHANGED <<store, reply, verdict, connected, transactions, faults, disconnects>>

SupersedeInteraction(r) ==
  /\ pc[r] = "superseding"
  /\ interaction' = [interaction EXCEPT ![copy[r].id] =
       IF @ \in ActiveInteraction THEN "superseded" ELSE @]
  /\ clarification' = [k \in Requests |->
       IF k \in OpenFor(copy[r].id) THEN "superseded" ELSE clarification[k]]
  /\ Acknowledged(r, "creating", NoCopy)
  /\ UNCHANGED <<conversations, messages, runs, version, asksFor, askedAt, reply, connected,
                 transactions, disconnects>>

CreateInteraction(r) ==
  /\ pc[r] = "creating"
  /\ Applies(r)
  /\ interaction' = [interaction EXCEPT ![r] = "planning"]
  /\ version' = [version EXCEPT ![r] = 1]
  /\ attached' = [attached EXCEPT ![r] = r]
  /\ Acknowledged(r, "starting", [id |-> r, status |-> "planning", version |-> 1])
  /\ UNCHANGED <<conversations, messages, run, runConv, runModel, clarifications, reply,
                 connected, transactions, disconnects>>

(***************************************************************************)
(* StartOrResume with a clarification id.                                  *)
(***************************************************************************)
GetInteraction(r) ==
  /\ pc[r] = "getInteraction"
  /\ Applies(r)
  /\ LET i == reply[r].interaction
     IN Goto(r, "getClarification",
             [id |-> i, status |-> interaction[i], version |-> version[i]])
  /\ UNCHANGED <<store, reply, verdict, connected, transactions, faults, disconnects>>

GetOpenClarification(r) ==
  /\ pc[r] = "getClarification"
  /\ Applies(r)
  /\ Continues(r, "classifying")
  /\ UNCHANGED <<store, reply, connected, transactions, faults, disconnects>>

(***************************************************************************)
(* A selected candidate of the closed set is an answer, one outside it a   *)
(* conflict; a text is a cancellation, a new request or an answer, by its  *)
(* words or by the classifier model.                                       *)
(***************************************************************************)
Classify(r) ==
  /\ pc[r] = "classifying"
  /\ \/ \E next \in {"answering", "cancelling", "superseding"} : Continues(r, next)
     \/ ReturnsError(r)
  /\ UNCHANGED <<store, reply, connected, transactions, faults, disconnects>>

ApplyClarification(r) ==
  LET i == copy[r].id
      status == IF pc[r] = "answering" THEN "resolving" ELSE "cancelled"
  IN /\ pc[r] \in {"answering", "cancelling"}
     /\ Applies(r)
     /\ clarification' = [clarification EXCEPT ![reply[r].clarification] =
          IF pc[r] = "answering" THEN "answered" ELSE "cancelled"]
     /\ interaction' = [interaction EXCEPT ![i] = status]
     /\ version' = [version EXCEPT ![i] = @ + 1]
     /\ Acknowledged(r, "attaching",
                     [id |-> i, status |-> status, version |-> copy[r].version + 1])
     /\ UNCHANGED <<conversations, messages, runs, asksFor, askedAt, reply, connected,
                    transactions, disconnects>>

Mutant_NotAttached(r) ==
  /\ pc[r] = "attaching"
  /\ Acknowledged(r, "starting", copy[r])
  /\ UNCHANGED <<store, reply, connected, transactions, disconnects>>
AttachRunInteraction(r) ==
  /\ pc[r] = "attaching"
  /\ Applies(r)
  /\ attached' = [attached EXCEPT ![r] = copy[r].id]
  /\ Acknowledged(r, "starting", copy[r])
  /\ UNCHANGED <<conversations, messages, run, runConv, runModel, interactions,
                 clarifications, reply, connected, transactions, disconnects>>

-----------------------------------------------------------------------------
(***************************************************************************)
(* The rest of UseCase.Run.  Reading the previous messages cannot stop it. *)
(***************************************************************************)
Mutant_PreparesCancelled(r) ==
  /\ pc[r] = "starting"
  /\ Continues(r, "preparing")
  /\ UNCHANGED <<store, reply, connected, transactions, faults, disconnects>>
EmitStarted(r) ==
  /\ pc[r] = "starting"
  /\ \/ Continues(r, IF copy[r].status = "cancelled" THEN "closing" ELSE "preparing")
     \/ ~connected[r] /\ GivesUp(r, "cancelled")
  /\ UNCHANGED <<store, reply, connected, transactions, faults, disconnects>>

CompleteRun(r) ==
  /\ pc[r] = "closing"
  /\ Applies(r)
  /\ Says(runConv[r], "assistant", r)
  /\ run' = [run EXCEPT ![r] = "completed"]
  /\ Acknowledged(r, "returned", NoCopy)
  /\ UNCHANGED <<conversations, runConv, runModel, attached, interactions, clarifications,
                 reply, connected, transactions, disconnects>>

Prepare(r) ==
  /\ pc[r] = "preparing"
  /\ \/ \E next \in {"asking", "savingReady", "savingUnsupported"} : Continues(r, next)
     \/ GivesUp(r, "failed")
  /\ UNCHANGED <<store, reply, connected, transactions, faults, disconnects>>

CreateClarification(r) ==
  LET i == copy[r].id
  IN /\ pc[r] = "asking"
     /\ Applies(r)
     /\ Says(runConv[i], "assistant", r)
     /\ clarification' = [clarification EXCEPT ![r] = "open"]
     /\ asksFor' = [asksFor EXCEPT ![r] = i]
     /\ askedAt' = [askedAt EXCEPT ![r] = copy[r].version + 1]
     /\ interaction' = [interaction EXCEPT ![i] = "awaiting_clarification"]
     /\ version' = [version EXCEPT ![i] = @ + 1]
     /\ run' = [run EXCEPT ![r] = "clarification_required"]
     /\ Acknowledged(r, "returned", NoCopy)
     /\ UNCHANGED <<conversations, runConv, runModel, attached, reply, connected,
                    transactions, disconnects>>

SaveInteraction(r) ==
  LET i == copy[r].id
      status == IF pc[r] = "savingGenerating" THEN "generating" ELSE "ready"
      next == CASE pc[r] = "savingReady"       -> "savingGenerating"
                [] pc[r] = "savingGenerating"  -> "generating"
                [] pc[r] = "savingUnsupported" -> "streaming"
  IN /\ pc[r] \in {"savingReady", "savingUnsupported", "savingGenerating"}
     /\ Applies(r)
     /\ interaction' = [interaction EXCEPT ![i] = status]
     /\ version' = [version EXCEPT ![i] = @ + 1]
     /\ Acknowledged(r, next, [id |-> i, status |-> status, version |-> copy[r].version + 1])
     /\ UNCHANGED <<conversations, messages, runs, clarifications, reply, connected,
                    transactions, disconnects>>

(***************************************************************************)
(* The buffered model call, its validation and its rendering.              *)
(***************************************************************************)
Generate(r) ==
  /\ pc[r] = "generating"
  /\ \/ Continues(r, "streaming")
     \/ GivesUp(r, "failed")
     \/ ~connected[r] /\ GivesUp(r, "cancelled")
  /\ UNCHANGED <<store, reply, connected, transactions, faults, disconnects>>

EmitDeltas(r) ==
  /\ pc[r] = "streaming"
  /\ \/ Continues(r, "completing")
     \/ ~connected[r] /\ GivesUp(r, "cancelled")
  /\ UNCHANGED <<store, reply, connected, transactions, faults, disconnects>>

CompleteInteractionRun(r) ==
  /\ pc[r] = "completing"
  /\ Applies(r)
  /\ Says(runConv[r], "assistant", r)
  /\ run' = [run EXCEPT ![r] = "completed"]
  /\ interaction' = [interaction EXCEPT ![copy[r].id] = "completed"]
  /\ Acknowledged(r, "returned", NoCopy)
  /\ UNCHANGED <<conversations, runConv, runModel, attached, version, clarifications, reply,
                 connected, transactions, disconnects>>

(***************************************************************************)
(* FailRun, and FailInteraction when the handler still knows one.  Their   *)
(* context cannot be cancelled and their errors are ignored.               *)
(***************************************************************************)
Fail(r) ==
  /\ pc[r] = "failing"
  /\ run' = [run EXCEPT ![r] = AfterFail(@, verdict[r])]
  /\ interaction' = [i \in Requests |->
       IF i = copy[r].id /\ interaction[i] \in Failable
       THEN verdict[r] ELSE interaction[i]]
  /\ Goto(r, "returned", NoCopy)
  /\ verdict' = [verdict EXCEPT ![r] = "none"]
  /\ UNCHANGED <<conversations, messages, runConv, runModel, attached, version, clarifications,
                 reply, connected, transactions, faults, disconnects>>

FailIsLost(r) ==
  /\ pc[r] = "failing"
  /\ faults < MaxFaults
  /\ faults' = faults + 1
  /\ Goto(r, "leftOpen", NoCopy)
  /\ verdict' = [verdict EXCEPT ![r] = "none"]
  /\ UNCHANGED <<store, reply, connected, transactions, disconnects>>

-----------------------------------------------------------------------------
(***************************************************************************)
(* The environment.  A process that dies takes every call in flight with   *)
(* it; PostgreSQL rolls their transactions back.  Nothing at start-up      *)
(* looks for runs that were left running.                                  *)
(***************************************************************************)
Ended == {"returned", "leftOpen", "crashed"}

Disconnect(r) ==
  /\ pc[r] \notin Ended
  /\ connected[r]
  /\ disconnects < MaxDisconnects
  /\ disconnects' = disconnects + 1
  /\ connected' = [connected EXCEPT ![r] = FALSE]
  /\ UNCHANGED <<store, pc, reply, copy, verdict, transactions, faults>>

Crash ==
  /\ faults < MaxFaults
  /\ faults' = faults + 1
  /\ pc' = [r \in Requests |-> IF pc[r] \in Ended \cup {"unsent"} THEN pc[r] ELSE "crashed"]
  /\ copy' = [r \in Requests |-> NoCopy]
  /\ verdict' = [r \in Requests |-> "none"]
  /\ resetting' = [s \in Scopes |-> None]
  /\ updating' = [c \in Convs |-> None]
  /\ UNCHANGED <<store, reply, connected, disconnects>>

Handle(r) ==
  \/ GetActiveInteraction(r)
  \/ SupersedeInteraction(r)
  \/ CreateInteraction(r)
  \/ GetInteraction(r)
  \/ GetOpenClarification(r)
  \/ Classify(r)
  \/ ApplyClarification(r)
  \/ AttachRunInteraction(r)
  \/ EmitStarted(r)
  \/ CompleteRun(r)
  \/ Prepare(r)
  \/ CreateClarification(r)
  \/ SaveInteraction(r)
  \/ Generate(r)
  \/ EmitDeltas(r)
  \/ CompleteInteractionRun(r)
  \/ Fail(r)
  \/ FailIsLost(r)
  \/ CallFails(r)
  \/ Refused(r)

(***************************************************************************)
(* What a client sends as the clarification it replies to: the id of one   *)
(* it was asked, whatever its state by now, with the interaction id it     *)
(* believes it belongs to.                                                 *)
(***************************************************************************)
Replies ==
  {NoReply} \cup
  [clarification : {k \in Requests : clarification[k] # "absent"},
   interaction   : {i \in Requests : interaction[i] # "absent"} \cup {None}]

Next ==
  \/ \E c \in Convs, m \in Models : CreateConversation(c, m)
  \/ \E s \in Scopes, current \in Convs \cup {None} : ResetBegin(s, current)
  \/ \E s \in Scopes, next \in Convs, m \in Models : ResetCommit(s, next, m)
  \/ \E s \in Scopes : ResetAbort(s)
  \/ \E c \in Convs, m \in Models : UpdateModelBegin(c, m)
  \/ \E c \in Convs : UpdateModelEnd(c)
  \/ \E r \in Requests, c \in Convs, m \in Models, answer \in Replies :
       StartRun(r, c, m, answer)
  \/ \E r \in Requests : Handle(r)
  \/ \E r \in Requests : Disconnect(r)
  \/ Crash

(***************************************************************************)
(* A handler keeps running: every call it makes returns (the database's    *)
(* and the provider's clients have timeouts).  Clients, faults and resets  *)
(* owe nothing.                                                            *)
(***************************************************************************)
Fairness == \A r \in Requests : WF_vars(Handle(r))

Spec == Init /\ [][Next]_vars
FairSpec == Spec /\ Fairness

-----------------------------------------------------------------------------
TypeOK ==
  /\ conv \in [Convs -> {"absent", "active", "archived"}]
  /\ model \in [Convs -> Models]
  /\ messages \in [Convs -> Seq(Message)]
  /\ run \in [Requests -> RunStatus]
  /\ runConv \in [Requests -> Convs \cup {None}]
  /\ runModel \in [Requests -> Models \cup {None}]
  /\ attached \in [Requests -> Requests \cup {None}]
  /\ interaction \in [Requests -> InteractionStatus]
  /\ version \in [Requests -> Nat]
  /\ clarification \in [Requests -> ClarificationStatus]
  /\ asksFor \in [Requests -> Requests \cup {None}]
  /\ askedAt \in [Requests -> Nat]
  /\ pc \in [Requests -> ProgramCounter]
  /\ reply \in [Requests -> Reply]
  /\ copy \in [Requests -> Copy]
  /\ verdict \in [Requests -> {"none", "failed", "cancelled"}]
  /\ connected \in [Requests -> BOOLEAN]
  /\ resetting \in [Scopes -> Reset \cup {None}]
  /\ updating \in [Convs -> Models \cup {None}]
  /\ faults \in 0..MaxFaults
  /\ disconnects \in 0..MaxDisconnects

(***************************************************************************)
(* A question that is open can be answered: its interaction waits for it   *)
(* at the very plan version the question was asked for, and the run that   *)
(* asked has ended asking.  (ApplyClarification would refuse the answer    *)
(* for ever otherwise.)                                                    *)
(***************************************************************************)
OpenClarificationIsCurrent ==
  \A k \in Requests : clarification[k] = "open" =>
    /\ interaction[asksFor[k]] = "awaiting_clarification"
    /\ version[asksFor[k]] = askedAt[k]
    /\ run[k] = "clarification_required"

(***************************************************************************)
(* An interaction that waits has a question open: no answer, reset,        *)
(* supersession or late failure leaves one waiting for nothing.            *)
(***************************************************************************)
AwaitingHasOpenClarification ==
  \A i \in Requests : interaction[i] = "awaiting_clarification" => OpenFor(i) # {}

(***************************************************************************)
(* At most one open clarification per conversation.  The index only says   *)
(* per interaction; ListMessages and GetOpenClarification show just one.   *)
(***************************************************************************)
OneOpenClarificationPerConversation ==
  \A c \in Convs : \A k, l \in OpenIn(c) : k = l

(***************************************************************************)
(* Nothing is in progress in an archived conversation, and nothing starts  *)
(* in it: ResetConversation archives only between runs and closes what     *)
(* the runs left behind, and no handler writes to it afterwards.           *)
(***************************************************************************)
ArchivedConversationIsQuiet ==
  \A c \in Convs : conv[c] = "archived" =>
    RunningIn(c) = {} /\ ActiveIn(c) = {} /\ OpenIn(c) = {}

(***************************************************************************)
(* A completed run ended the interaction it is attached to: completed it,  *)
(* or confirmed its cancellation.                                          *)
(***************************************************************************)
CompletedRunClosedItsInteraction ==
  \A r \in Requests : run[r] = "completed" =>
    attached[r] # None /\ interaction[attached[r]] \in {"completed", "cancelled"}

(***************************************************************************)
(* A new question always gets its interaction: what GetActiveInteraction   *)
(* saw and SupersedeInteraction closed is still all there is when          *)
(* CreateInteraction meets the unique index, interactions that earlier     *)
(* failures left active included.                                          *)
(***************************************************************************)
NewQuestionIsNeverRefused ==
  \A r \in Requests : pc[r] = "creating" => Applies(r)

(***************************************************************************)
(* Nobody takes the question away, or changes its plan, while the handler  *)
(* that read it waits for the classifier model: the answer it then writes  *)
(* never conflicts.                                                        *)
(***************************************************************************)
QuestionWaitsForItsAnswer ==
  \A r \in Requests : pc[r] \in {"classifying", "answering", "cancelling"} =>
    /\ reply[r].clarification \in OpenFor(copy[r].id)
    /\ version[copy[r].id] = copy[r].version

(***************************************************************************)
(* The outcome of a run is final: a call that is repeated, or that fails   *)
(* after it was applied, never turns an answer, a question or a failure    *)
(* into something else.                                                    *)
(***************************************************************************)
RunOutcomeIsFinal ==
  [][\A r \in Requests :
       run[r] \notin {"absent", "running"} => run'[r] = run[r]]_vars

(***************************************************************************)
(* An interaction that completed, was cancelled or was superseded stays    *)
(* so, although SaveInteraction does not look at the status it overwrites. *)
(***************************************************************************)
InteractionOutcomeIsFinal ==
  [][\A i \in Requests :
       interaction[i] \in {"completed", "cancelled", "superseded"} =>
         interaction'[i] = interaction[i]]_vars

(***************************************************************************)
(* The conversation's model is the model of all its runs, past ones        *)
(* included: a model can only be changed before the first message.         *)
(***************************************************************************)
RunsUseTheConversationsModel ==
  \A r \in Requests : run[r] # "absent" => runModel[r] = model[runConv[r]]

(***************************************************************************)
(* Every run ends, unless its handler left it running: its start was not   *)
(* acknowledged, its cancellation or its failure could not be saved, or    *)
(* its process died.                                                       *)
(***************************************************************************)
RunsEnd ==
  \A r \in Requests :
    run[r] = "running" ~> (run[r] # "running" \/ pc[r] \in {"leftOpen", "crashed"})

(***************************************************************************)
(* The promise to the reader of a conversation.                            *)
(***************************************************************************)
History == INSTANCE ConversationHistory WITH
  log <- messages, turn <- [c \in Convs |-> RunningIn(c)]

ImplementsHistory == History!Spec
=============================================================================
