-------------------------- MODULE WorkbenchInvariant --------------------------
(***************************************************************************)
(* The inductive invariant behind the safety properties of Workbench: what *)
(* every handler may rely on (HandlerInv), and what the rows of the store  *)
(* are to each other (StoreInv).                                           *)
(*                                                                         *)
(* What makes it inductive is that a handler that still works owns its     *)
(* conversation: its run is the only running one there, a reset cannot     *)
(* have found the conversation idle, and every write goes to interactions  *)
(* of that conversation.  A handler that gives up late owns nothing any    *)
(* more, and only makes writes guarded by the status they replace.         *)
(***************************************************************************)
EXTENDS Workbench

Working == ContextCalls \cup {"classifying", "starting", "preparing", "generating", "streaming"}

(***************************************************************************)
(* StartOrResume has resumed or created the interaction the handler holds. *)
(***************************************************************************)
Resumed == {"attaching", "starting", "preparing", "closing", "asking", "savingReady",
            "savingUnsupported", "savingGenerating", "generating", "streaming", "completing"}
Holding == Resumed \cup {"superseding", "getClarification", "classifying", "answering", "cancelling"}

-----------------------------------------------------------------------------
UnsentHasNoRun(r) == pc[r] = "unsent" <=> run[r] = "absent"

WorkingRunIsRunning(r) == pc[r] \in Working => run[r] = "running"

FailingHasVerdict(r) == pc[r] = "failing" => verdict[r] # "none"

HoldsInteraction(r) ==
  pc[r] \in Holding =>
    /\ copy[r].id \in Requests
    /\ interaction[copy[r].id] # "absent"
    /\ runConv[copy[r].id] = runConv[r]

(***************************************************************************)
(* Once it has resumed the interaction, only the handler asks about it.    *)
(***************************************************************************)
NothingAskedMeanwhile(r) == pc[r] \in Resumed => OpenFor(copy[r].id) = {}

ReadIsFresh(r) ==
  pc[r] \in {"getClarification", "classifying", "answering", "cancelling"} =>
    version[copy[r].id] = copy[r].version

QuestionIsOpen(r) ==
  pc[r] \in {"classifying", "answering", "cancelling"} =>
    reply[r].clarification \in OpenFor(copy[r].id)

SupersedesTheActiveOne(r) ==
  pc[r] = "superseding" => ActiveIn(runConv[r]) \subseteq {copy[r].id}

CreatesWhenIdle(r) == pc[r] = "creating" => ActiveIn(runConv[r]) = {}

HandlerInv(r) ==
  /\ UnsentHasNoRun(r)
  /\ WorkingRunIsRunning(r)
  /\ FailingHasVerdict(r)
  /\ HoldsInteraction(r)
  /\ NothingAskedMeanwhile(r)
  /\ ReadIsFresh(r)
  /\ QuestionIsOpen(r)
  /\ SupersedesTheActiveOne(r)
  /\ CreatesWhenIdle(r)

-----------------------------------------------------------------------------
RowsOfRequest ==
  \A r \in Requests :
    /\ run[r] = "absent" <=> runConv[r] = None
    /\ run[r] = "absent" => interaction[r] = "absent" /\ clarification[r] = "absent"

OneRunningRun ==
  \A r, q \in Requests :
    run[r] = "running" /\ run[q] = "running" /\ runConv[r] = runConv[q] => r = q

OneActiveInteraction ==
  \A i, j \in Requests :
    /\ interaction[i] \in ActiveInteraction
    /\ interaction[j] \in ActiveInteraction
    /\ runConv[i] = runConv[j]
    => i = j

OneOpenClarification ==
  \A k, l \in Requests :
    clarification[k] = "open" /\ clarification[l] = "open" /\ asksFor[k] = asksFor[l] => k = l

OpenAsksForInteraction ==
  \A k \in Requests : clarification[k] = "open" => asksFor[k] \in Requests

(***************************************************************************)
(* Runs and interactions are in progress in active conversations only.     *)
(***************************************************************************)
ProgressIsInActiveConversation ==
  \A r \in Requests :
    run[r] = "running" \/ interaction[r] \in ActiveInteraction => conv[runConv[r]] = "active"

(***************************************************************************)
(* While a reset holds the actor's row, a conversation it found idle stays *)
(* idle.                                                                   *)
(***************************************************************************)
ResetSeesRuns ==
  \A r \in Requests : run[r] = "running" =>
    \/ resetting[ScopeOf[runConv[r]]] = None
    \/ runConv[r] \in resetting[ScopeOf[runConv[r]]].busy

StoreInv ==
  /\ RowsOfRequest
  /\ OneRunningRun
  /\ OneActiveInteraction
  /\ OneOpenClarification
  /\ OpenAsksForInteraction
  /\ OpenClarificationIsCurrent
  /\ AwaitingHasOpenClarification
  /\ ProgressIsInActiveConversation
  /\ ResetSeesRuns

IInv ==
  /\ TypeOK
  /\ StoreInv
  /\ \A r \in Requests : HandlerInv(r)

-----------------------------------------------------------------------------
(***************************************************************************)
(* The invariant behind the finality of outcomes, on top of IInv: a        *)
(* handler that writes a status knows the one it overwrites.  Only a       *)
(* handler of an earlier run that gives up late can have changed it, and   *)
(* then to "failed".                                                       *)
(***************************************************************************)
BeforeCreation == {"unsent", "getActive", "superseding", "creating", "getInteraction",
                   "getClarification", "classifying", "answering", "cancelling"}

NotCreatedYet(r) == pc[r] \in BeforeCreation => interaction[r] = "absent"

HeldStatus(r) ==
  /\ pc[r] \in {"attaching", "starting"} => copy[r].status \in {"planning", "resolving", "cancelled"}
  /\ pc[r] \in {"preparing", "asking", "savingReady", "savingUnsupported"} =>
       copy[r].status \in {"planning", "resolving"}
  /\ pc[r] \in {"savingGenerating", "generating", "streaming", "completing"} =>
       copy[r].status \in {"ready", "generating"}
  /\ pc[r] = "closing" => copy[r].status = "cancelled"

HeldIsCurrent(r) ==
  pc[r] \in Resumed =>
    \/ interaction[copy[r].id] = copy[r].status
    \/ copy[r].status # "cancelled" /\ interaction[copy[r].id] = "failed"

HeldIsAttached(r) == pc[r] \in Resumed \ {"attaching"} => attached[r] = copy[r].id

LateFailure(r) ==
  pc[r] = "failing" =>
    /\ run[r] # "running" => verdict[r] = "failed"
    /\ copy[r].id # None => runConv[copy[r].id] = runConv[r]

KnowsItsInteraction(r) ==
  NotCreatedYet(r) /\ HeldStatus(r) /\ HeldIsCurrent(r) /\ HeldIsAttached(r) /\ LateFailure(r)

OutcomeInv ==
  /\ CompletedRunClosedItsInteraction
  /\ \A r \in Requests : KnowsItsInteraction(r)
=============================================================================
