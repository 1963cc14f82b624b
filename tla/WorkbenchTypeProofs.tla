------------------------- MODULE WorkbenchTypeProofs -------------------------
(***************************************************************************)
(* Type correctness of Workbench, for every value of its constants: one    *)
(* lemma per operation that changes the store.  The types alone are not    *)
(* inductive: a handler's copy and verdict have to be what its program     *)
(* counter says, so the invariant is assumed before each step.             *)
(***************************************************************************)
EXTENDS WorkbenchInvariant, TLAPS

-----------------------------------------------------------------------------
(***************************************************************************)
(* What the common endings of a call do to a handler's variables is stated *)
(* once; each action then adds what it does to the store.                  *)
(***************************************************************************)
HandlerOK ==
  /\ pc \in [Requests -> ProgramCounter]
  /\ copy \in [Requests -> Copy]
  /\ verdict \in [Requests -> {"none", "failed", "cancelled"}]
  /\ faults \in 0..MaxFaults

LEMMA NoCopyType == NoCopy \in Copy
BY DEF NoCopy, Copy, InteractionStatus

LEMMA InterruptedType ==
  ASSUME NEW r \in Requests, TypeOK, Interrupted(r)
  PROVE  faults' \in 0..MaxFaults
BY ConstantsAssumption DEF TypeOK, Interrupted

LEMMA ReturnsErrorType ==
  ASSUME NEW r \in Requests, TypeOK, ReturnsError(r)
  PROVE  /\ pc' \in [Requests -> ProgramCounter]
         /\ copy' \in [Requests -> Copy]
         /\ verdict' \in [Requests -> {"none", "failed", "cancelled"}]
BY NoCopyType DEF TypeOK, ReturnsError, ProgramCounter

LEMMA AcknowledgedType ==
  ASSUME NEW r \in Requests, NEW next \in ProgramCounter, NEW held \in Copy,
         TypeOK, Acknowledged(r, next, held)
  PROVE  HandlerOK'
<1>1. CASE Goto(r, next, held) /\ UNCHANGED <<verdict, faults>>
  BY <1>1 DEF TypeOK, Goto, HandlerOK
<1>2. CASE Interrupted(r) /\ ReturnsError(r)
  BY <1>2, ReturnsErrorType, InterruptedType DEF HandlerOK
<1> QED
  BY <1>1, <1>2 DEF Acknowledged

LEMMA ContinuesType ==
  ASSUME NEW r \in Requests, NEW next \in ProgramCounter, TypeOK, Continues(r, next), UNCHANGED faults
  PROVE  HandlerOK'
BY DEF TypeOK, Continues, HandlerOK

LEMMA GivesUpType ==
  ASSUME NEW r \in Requests, NEW v \in {"failed", "cancelled"}, TypeOK, GivesUp(r, v), UNCHANGED faults
  PROVE  HandlerOK'
BY DEF TypeOK, GivesUp, HandlerOK, ProgramCounter

LEMMA InitTypeOK == Init => TypeOK
<1> SUFFICES ASSUME Init PROVE TypeOK
  OBVIOUS
<1> USE ConstantsAssumption DEF Init, TypeOK, NoReply, NoCopy, Reply, Copy, RunStatus,
        InteractionStatus, ClarificationStatus, ProgramCounter
<1>1. messages \in [Convs -> Seq(Message)]
  OBVIOUS
<1>2. faults \in 0..MaxFaults /\ disconnects \in 0..MaxDisconnects
  OBVIOUS
<1> QED
  BY <1>1, <1>2

LEMMA StoreStepType ==
  ASSUME NEW r \in Requests, TypeOK, HandlerOK', UNCHANGED <<store, reply, connected, transactions, disconnects>>
  PROVE  TypeOK'
BY DEF TypeOK, HandlerOK, store, conversations, runs, interactions, clarifications, transactions

LEMMA StartRunType ==
  ASSUME TypeOK, NEW r \in Requests, NEW c \in Convs, NEW m \in Models,
         NEW answer \in Replies, StartRun(r, c, m, answer)
  PROVE  TypeOK'
<1> USE DEF TypeOK
<1>1. answer \in Reply
  BY DEF Replies, Reply, NoReply
<1>2. messages' \in [Convs -> Seq(Message)]
  <2>1. [role |-> "user", run |-> r] \in Message
    BY DEF Message
  <2>2. messages' = [messages EXCEPT ![c] = Append(@, [role |-> "user", run |-> r])]
    BY DEF StartRun, Says
  <2> QED
    BY <2>1, <2>2
<1>3. faults' \in 0..MaxFaults
  <2>1. CASE UNCHANGED faults
    BY <2>1
  <2>2. CASE Interrupted(r)
    BY <2>2, InterruptedType
  <2> QED
    BY <2>1, <2>2 DEF StartRun
<1>4. /\ run' \in [Requests -> RunStatus]
      /\ runConv' \in [Requests -> Convs \cup {None}]
      /\ runModel' \in [Requests -> Models \cup {None}]
      /\ reply' \in [Requests -> Reply]
  BY <1>1 DEF StartRun, RunStatus
<1>5. pc' \in [Requests -> ProgramCounter]
  <2>1. \E next \in ProgramCounter : pc' = [pc EXCEPT ![r] = next]
    BY DEF StartRun, ProgramCounter, ContextCalls
  <2> QED
    BY <2>1
<1>6. verdict' \in [Requests -> {"none", "failed", "cancelled"}]
  BY DEF StartRun
<1> QED
  BY <1>2, <1>3, <1>4, <1>5, <1>6
  DEF StartRun, conversations, interactions, clarifications, transactions

LEMMA SupersedeInteractionType ==
  ASSUME TypeOK, NEW r \in Requests, SupersedeInteraction(r)
  PROVE  TypeOK'
<1>1. HandlerOK'
  BY AcknowledgedType, NoCopyType DEF SupersedeInteraction, ProgramCounter, ContextCalls
<1>2. interaction' \in [Requests -> InteractionStatus]
  BY DEF TypeOK, SupersedeInteraction, InteractionStatus, ClosedInteraction
<1>3. clarification' \in [Requests -> ClarificationStatus]
  BY DEF TypeOK, SupersedeInteraction, ClarificationStatus
<1> QED
  BY <1>1, <1>2, <1>3
  DEF TypeOK, HandlerOK, SupersedeInteraction, conversations, runs, transactions

LEMMA CreateInteractionType ==
  ASSUME TypeOK, NEW r \in Requests, CreateInteraction(r)
  PROVE  TypeOK'
<1>1. HandlerOK'
  <2>1. [id |-> r, status |-> "planning", version |-> 1] \in Copy
    BY DEF Copy, InteractionStatus, ActiveInteraction
  <2> QED
    BY <2>1, AcknowledgedType DEF CreateInteraction, ProgramCounter
<1>2. /\ interaction' \in [Requests -> InteractionStatus]
      /\ version' \in [Requests -> Nat]
      /\ attached' \in [Requests -> Requests \cup {None}]
  BY DEF TypeOK, CreateInteraction, InteractionStatus, ActiveInteraction
<1> QED
  BY <1>1, <1>2 DEF TypeOK, HandlerOK, CreateInteraction, conversations, clarifications, transactions

LEMMA ApplyClarificationType ==
  ASSUME TypeOK, NEW r \in Requests, copy[r].id \in Requests, ApplyClarification(r)
  PROVE  TypeOK'
<1> DEFINE status == IF pc[r] = "answering" THEN "resolving" ELSE "cancelled"
<1>1. status \in InteractionStatus
  BY DEF InteractionStatus, ActiveInteraction, ClosedInteraction
<1>2. HandlerOK'
  <2>1. [id |-> copy[r].id, status |-> status, version |-> copy[r].version + 1] \in Copy
    BY <1>1 DEF TypeOK, Copy
  <2>2. Acknowledged(r, "attaching",
          [id |-> copy[r].id, status |-> status, version |-> copy[r].version + 1])
    BY DEF ApplyClarification
  <2> QED
    BY <2>1, <2>2, AcknowledgedType DEF ProgramCounter, ContextCalls
<1>3. clarification' \in [Requests -> ClarificationStatus]
  BY DEF TypeOK, ApplyClarification, ClarificationStatus
<1>4. /\ interaction' \in [Requests -> InteractionStatus]
      /\ version' \in [Requests -> Nat]
  BY <1>1 DEF TypeOK, ApplyClarification
<1> QED
  BY <1>2, <1>3, <1>4 DEF TypeOK, HandlerOK, ApplyClarification, conversations, runs, transactions

LEMMA AttachRunInteractionType ==
  ASSUME TypeOK, NEW r \in Requests, AttachRunInteraction(r)
  PROVE  TypeOK'
<1>1. HandlerOK'
  <2>1. copy[r] \in Copy
    BY DEF TypeOK
  <2> QED
    BY <2>1, AcknowledgedType DEF AttachRunInteraction, ProgramCounter
<1>2. attached' \in [Requests -> Requests \cup {None}]
  BY DEF TypeOK, Copy, AttachRunInteraction
<1> QED
  BY <1>1, <1>2 DEF TypeOK, HandlerOK, AttachRunInteraction, conversations, interactions, clarifications, transactions

(***************************************************************************)
(* An assistant message appended to a conversation leaves logs of messages.*)
(***************************************************************************)
LEMMA AppendType ==
  ASSUME TypeOK, NEW r \in Requests, NEW c,
         messages' = [messages EXCEPT ![c] = Append(@, [role |-> "assistant", run |-> r])]
  PROVE  messages' \in [Convs -> Seq(Message)]
<1>1. [role |-> "assistant", run |-> r] \in Message
  BY DEF Message
<1>2. messages \in [Convs -> Seq(Message)]
  BY DEF TypeOK
<1>3. CASE c \in Convs
  BY <1>1, <1>2, <1>3
<1>4. CASE c \notin Convs
  BY <1>2, <1>4
<1> QED
  BY <1>3, <1>4

LEMMA CompleteRunType ==
  ASSUME TypeOK, NEW r \in Requests, CompleteRun(r)
  PROVE  TypeOK'
<1>1. HandlerOK'
  BY AcknowledgedType, NoCopyType DEF CompleteRun, ProgramCounter
<1>2. messages' \in [Convs -> Seq(Message)]
  BY AppendType DEF CompleteRun, Says
<1>3. run' \in [Requests -> RunStatus]
  BY DEF TypeOK, CompleteRun, RunStatus
<1> QED
  BY <1>1, <1>2, <1>3 DEF TypeOK, HandlerOK, CompleteRun, conversations, interactions, clarifications, transactions

LEMMA CreateClarificationType ==
  ASSUME TypeOK, NEW r \in Requests, copy[r].id \in Requests, CreateClarification(r)
  PROVE  TypeOK'
<1>1. HandlerOK'
  BY AcknowledgedType, NoCopyType DEF CreateClarification, ProgramCounter
<1>2. messages' \in [Convs -> Seq(Message)]
  BY AppendType DEF CreateClarification, Says
<1>3. /\ run' \in [Requests -> RunStatus]
      /\ clarification' \in [Requests -> ClarificationStatus]
      /\ asksFor' \in [Requests -> Requests \cup {None}]
  BY DEF TypeOK, CreateClarification, RunStatus, ClarificationStatus
<1>4. /\ askedAt' \in [Requests -> Nat]
      /\ version' \in [Requests -> Nat]
      /\ interaction' \in [Requests -> InteractionStatus]
  BY DEF TypeOK, CreateClarification, Copy, InteractionStatus, ActiveInteraction
<1> QED
  BY <1>1, <1>2, <1>3, <1>4 DEF TypeOK, HandlerOK, CreateClarification, conversations, transactions

LEMMA SaveInteractionType ==
  ASSUME TypeOK, NEW r \in Requests, copy[r].id \in Requests, SaveInteraction(r)
  PROVE  TypeOK'
<1> DEFINE status == IF pc[r] = "savingGenerating" THEN "generating" ELSE "ready"
<1>1. status \in InteractionStatus
  BY DEF InteractionStatus, ActiveInteraction
<1>2. PICK next \in ProgramCounter :
        Acknowledged(r, next, [id |-> copy[r].id, status |-> status, version |-> copy[r].version + 1])
  BY DEF SaveInteraction, ProgramCounter, ContextCalls
<1>3. HandlerOK'
  <2>1. [id |-> copy[r].id, status |-> status, version |-> copy[r].version + 1] \in Copy
    BY <1>1 DEF TypeOK, Copy
  <2> QED
    BY <1>2, <2>1, AcknowledgedType
<1>4. /\ interaction' \in [Requests -> InteractionStatus]
      /\ version' \in [Requests -> Nat]
  BY <1>1 DEF TypeOK, SaveInteraction
<1> QED
  BY <1>3, <1>4 DEF TypeOK, HandlerOK, SaveInteraction, conversations, runs, clarifications, transactions

LEMMA CompleteInteractionRunType ==
  ASSUME TypeOK, NEW r \in Requests, CompleteInteractionRun(r)
  PROVE  TypeOK'
<1>1. HandlerOK'
  BY AcknowledgedType, NoCopyType DEF CompleteInteractionRun, ProgramCounter
<1>2. messages' \in [Convs -> Seq(Message)]
  BY AppendType DEF CompleteInteractionRun, Says
<1>3. /\ run' \in [Requests -> RunStatus]
      /\ interaction' \in [Requests -> InteractionStatus]
  BY DEF TypeOK, CompleteInteractionRun, RunStatus, InteractionStatus, ClosedInteraction
<1> QED
  BY <1>1, <1>2, <1>3 DEF TypeOK, HandlerOK, CompleteInteractionRun, conversations, clarifications, transactions

LEMMA FailType ==
  ASSUME TypeOK, NEW r \in Requests, verdict[r] # "none", Fail(r)
  PROVE  TypeOK'
<1>1. HandlerOK'
  BY NoCopyType DEF TypeOK, HandlerOK, Fail, Goto, ProgramCounter
<1>2. verdict[r] \in {"failed", "cancelled"}
  BY DEF TypeOK
<1>3. run' \in [Requests -> RunStatus]
  BY <1>2 DEF TypeOK, Fail, AfterFail, Failable, RunStatus
<1>4. interaction' \in [Requests -> InteractionStatus]
  BY <1>2 DEF TypeOK, Fail, InteractionStatus, ClosedInteraction
<1> QED
  BY <1>1, <1>3, <1>4 DEF TypeOK, HandlerOK, Fail, conversations, clarifications, transactions

(***************************************************************************)
(* The steps that touch no row.                                            *)
(***************************************************************************)
LEMMA CallFailsType ==
  ASSUME TypeOK, NEW r \in Requests, CallFails(r) \/ Refused(r)
  PROVE  TypeOK'
<1>1. CASE CallFails(r)
  <2>1. HandlerOK'
    BY <1>1, ReturnsErrorType, InterruptedType DEF CallFails, HandlerOK
  <2> QED
    BY <1>1, <2>1, StoreStepType DEF CallFails
<1>2. CASE Refused(r)
  <2>1. HandlerOK'
    BY <1>2, ReturnsErrorType DEF Refused, HandlerOK, TypeOK
  <2> QED
    BY <1>2, <2>1, StoreStepType DEF Refused
<1> QED
  BY <1>1, <1>2

LEMMA ReadType ==
  ASSUME TypeOK, NEW r \in Requests, GetActiveInteraction(r) \/ GetInteraction(r)
  PROVE  TypeOK'
<1>1. CASE GetActiveInteraction(r)
  <2>1. PICK held \in Copy, next \in {"creating", "superseding"} : Goto(r, next, held)
    <3>1. CASE Goto(r, "creating", NoCopy)
      BY <3>1, NoCopyType
    <3>2. CASE \E i \in ActiveIn(runConv[r]) :
                 Goto(r, "superseding", [id |-> i, status |-> interaction[i], version |-> version[i]])
      BY <3>2 DEF ActiveIn, Copy, TypeOK
    <3> QED
      BY <1>1, <3>1, <3>2 DEF GetActiveInteraction
  <2>2. HandlerOK'
    BY <1>1, <2>1 DEF GetActiveInteraction, Goto, HandlerOK, TypeOK, ProgramCounter, ContextCalls
  <2> QED
    BY <1>1, <2>2, StoreStepType DEF GetActiveInteraction
<1>2. CASE GetInteraction(r)
  <2>1. reply[r].interaction \in Requests
    BY <1>2 DEF GetInteraction, Applies, TypeOK, Reply
  <2>2. PICK held \in Copy : Goto(r, "getClarification", held)
    BY <1>2, <2>1 DEF GetInteraction, Copy, TypeOK
  <2>3. HandlerOK'
    BY <1>2, <2>2 DEF GetInteraction, Goto, HandlerOK, TypeOK, ProgramCounter, ContextCalls
  <2> QED
    BY <1>2, <2>3, StoreStepType DEF GetInteraction
<1> QED
  BY <1>1, <1>2

LEMMA GoOnType ==
  ASSUME TypeOK, NEW r \in Requests,
         \/ GetOpenClarification(r) \/ Classify(r) \/ EmitStarted(r)
         \/ Prepare(r) \/ Generate(r) \/ EmitDeltas(r)
  PROVE  TypeOK'
<1>1. /\ UNCHANGED <<store, reply, connected, transactions, faults, disconnects>>
      /\ \/ \E next \in ProgramCounter : Continues(r, next)
         \/ \E v \in {"failed", "cancelled"} : GivesUp(r, v)
         \/ ReturnsError(r)
  BY DEF GetOpenClarification, Classify, EmitStarted, Prepare, Generate, EmitDeltas,
         ProgramCounter, ContextCalls
<1>2. HandlerOK'
  <2>1. CASE \E next \in ProgramCounter : Continues(r, next)
    BY <1>1, <2>1, ContinuesType
  <2>2. CASE \E v \in {"failed", "cancelled"} : GivesUp(r, v)
    BY <1>1, <2>2, GivesUpType
  <2>3. CASE ReturnsError(r)
    BY <1>1, <2>3, ReturnsErrorType DEF HandlerOK, TypeOK
  <2> QED
    BY <1>1, <2>1, <2>2, <2>3
<1> QED
  BY <1>1, <1>2, StoreStepType

LEMMA FailIsLostType ==
  ASSUME TypeOK, NEW r \in Requests, FailIsLost(r)
  PROVE  TypeOK'
<1>1. HandlerOK'
  BY NoCopyType, ConstantsAssumption DEF TypeOK, HandlerOK, FailIsLost, Goto, ProgramCounter
<1> QED
  BY <1>1, StoreStepType DEF FailIsLost

LEMMA ConversationStepType ==
  ASSUME TypeOK, NEW c \in Convs,
         \/ \E m \in Models : CreateConversation(c, m) \/ UpdateModelBegin(c, m)
         \/ UpdateModelEnd(c)
  PROVE  TypeOK'
<1>1. ASSUME NEW m \in Models, CreateConversation(c, m) PROVE TypeOK'
  BY <1>1 DEF TypeOK, CreateConversation, runs, interactions, clarifications, handlers, transactions
<1>2. ASSUME NEW m \in Models, UpdateModelBegin(c, m) PROVE TypeOK'
  BY <1>2 DEF TypeOK, UpdateModelBegin, store, conversations, runs, interactions, clarifications, handlers
<1>3. CASE UpdateModelEnd(c)
  BY <1>3 DEF TypeOK, UpdateModelEnd, runs, interactions, clarifications, handlers
<1> QED
  BY <1>1, <1>2, <1>3

LEMMA ResetStepType ==
  ASSUME TypeOK, NEW s \in Scopes,
         \/ \E current \in Convs \cup {None} : ResetBegin(s, current)
         \/ \E next \in Convs, m \in Models : ResetCommit(s, next, m)
         \/ ResetAbort(s)
  PROVE  TypeOK'
<1>1. ASSUME NEW current \in Convs \cup {None}, ResetBegin(s, current) PROVE TypeOK'
  BY <1>1 DEF TypeOK, ResetBegin, Reset, ConvsOf, store, conversations, runs, interactions,
              clarifications, handlers
<1>2. ASSUME NEW next \in Convs, NEW m \in Models, ResetCommit(s, next, m) PROVE TypeOK'
  BY <1>2 DEF TypeOK, ResetCommit, runs, handlers, InteractionStatus, ClosedInteraction,
              ClarificationStatus
<1>3. CASE ResetAbort(s)
  BY <1>3 DEF TypeOK, ResetAbort, store, conversations, runs, interactions, clarifications, handlers
<1> QED
  BY <1>1, <1>2, <1>3

LEMMA EnvironmentType ==
  ASSUME TypeOK, Crash \/ \E r \in Requests : Disconnect(r)
  PROVE  TypeOK'
<1>1. CASE Crash
  <2>1. /\ pc' \in [Requests -> ProgramCounter]
        /\ copy' \in [Requests -> Copy]
    BY <1>1, NoCopyType DEF TypeOK, Crash, ProgramCounter
  <2>2. faults' \in 0..MaxFaults
    BY <1>1, ConstantsAssumption DEF TypeOK, Crash
  <2> QED
    BY <1>1, <2>1, <2>2 DEF TypeOK, Crash, store, conversations, runs, interactions, clarifications
<1>2. ASSUME NEW r \in Requests, Disconnect(r) PROVE TypeOK'
  BY <1>2, ConstantsAssumption DEF TypeOK, Disconnect, store, conversations, runs, interactions,
     clarifications, transactions
<1> QED
  BY <1>1, <1>2

(***************************************************************************)
(* Every step of Workbench keeps its variables well typed.                 *)
(***************************************************************************)
LEMMA NextTypeOK ==
  ASSUME IInv, [Next]_vars
  PROVE  TypeOK'
<1> USE DEF IInv
<1>1. ASSUME NEW r \in Requests, Handle(r) PROVE TypeOK'
  <2>1. HoldsInteraction(r) /\ FailingHasVerdict(r)
    BY DEF HandlerInv
  <2>2. CASE ApplyClarification(r)
    BY <2>1, <2>2, ApplyClarificationType DEF HoldsInteraction, Holding, ApplyClarification
  <2>3. CASE CreateClarification(r)
    BY <2>1, <2>3, CreateClarificationType DEF HoldsInteraction, Holding, Resumed, CreateClarification
  <2>4. CASE SaveInteraction(r)
    BY <2>1, <2>4, SaveInteractionType DEF HoldsInteraction, Holding, Resumed, SaveInteraction
  <2>5. CASE Fail(r)
    BY <2>1, <2>5, FailType DEF FailingHasVerdict, Fail
  <2> QED
    BY <1>1, <2>2, <2>3, <2>4, <2>5, SupersedeInteractionType, CreateInteractionType,
       AttachRunInteractionType, CompleteRunType, CompleteInteractionRunType, CallFailsType,
       ReadType, GoOnType, FailIsLostType
    DEF Handle
<1>2. CASE UNCHANGED vars
  BY <1>2 DEF TypeOK, vars, store, conversations, runs, interactions, clarifications, handlers,
              transactions
<1>3. ASSUME NEW r \in Requests, NEW c \in Convs, NEW m \in Models, NEW answer \in Replies,
             StartRun(r, c, m, answer)
      PROVE  TypeOK'
  BY <1>3, StartRunType
<1> QED
  BY <1>1, <1>2, <1>3, ConversationStepType, ResetStepType, EnvironmentType DEF Next
=============================================================================
