------------------------- MODULE WorkbenchOutcomeProofs -------------------------
(***************************************************************************)
(* Outcomes are final, for every value of the constants: of runs by IInv   *)
(* alone, of interactions by what a handler knows of the one it holds. At  *)
(* the end, what comes out of it for a reader: the message store           *)
(* implements ConversationHistory, and every answer follows its question.  *)
(***************************************************************************)
EXTENDS WorkbenchProofs

Final == {"completed", "cancelled", "superseded"}

(***************************************************************************)
(* Every call that changes the status of a run finds it running, or not    *)
(* there yet.                                                              *)
(***************************************************************************)
LEMMA RunChanges ==
  ASSUME IInv, [Next]_vars, NEW r \in Requests, run'[r] # run[r]
  PROVE  \/ run[r] = "absent" /\ \E c \in Convs, m \in Models, answer \in Replies : StartRun(r, c, m, answer)
         \/ /\ run[r] = "running"
            /\ CompleteRun(r) \/ CreateClarification(r) \/ CompleteInteractionRun(r) \/ Fail(r)
<1> USE DEF IInv
<1>1. ASSUME NEW q \in Requests, NEW c \in Convs, NEW m \in Models, NEW answer \in Replies,
             StartRun(q, c, m, answer)
      PROVE  q = r /\ run[r] = "absent"
  BY <1>1 DEF StartRun, TypeOK, HandlerInv, UnsentHasNoRun
<1>2. ASSUME NEW q \in Requests, Handle(q)
      PROVE  /\ q = r /\ run[r] = "running"
             /\ CompleteRun(r) \/ CreateClarification(r) \/ CompleteInteractionRun(r) \/ Fail(r)
  <2>1. \/ CompleteRun(q) \/ CreateClarification(q) \/ CompleteInteractionRun(q) \/ Fail(q)
        \/ UNCHANGED run
    BY <1>2 DEF Handle, GetActiveInteraction, SupersedeInteraction, CreateInteraction, GetInteraction,
       GetOpenClarification, Classify, ApplyClarification, AttachRunInteraction, EmitStarted, Prepare,
       SaveInteraction, Generate, EmitDeltas, FailIsLost, CallFails, Refused, store, runs
  <2>2. CompleteRun(q) \/ CreateClarification(q) \/ CompleteInteractionRun(q) => q = r /\ run[r] = "running"
    BY DEF CompleteRun, CreateClarification, CompleteInteractionRun, Applies, TypeOK
  <2>3. Fail(q) => q = r /\ run[r] = "running"
    BY DEF Fail, AfterFail, TypeOK
  <2> QED
    BY <2>1, <2>2, <2>3
<1>3. \/ \E q \in Requests : Handle(q)
      \/ \E q \in Requests, c \in Convs, m \in Models, answer \in Replies : StartRun(q, c, m, answer)
      \/ UNCHANGED run
  BY DEF Next, CreateConversation, ResetBegin, ResetCommit, ResetAbort, UpdateModelBegin,
     UpdateModelEnd, Disconnect, Crash, vars, store, runs
<1> QED
  BY <1>1, <1>2, <1>3

(***************************************************************************)
(* The outcome of a run is final.                                          *)
(***************************************************************************)
THEOREM RunOutcomesAreFinal == Spec => RunOutcomeIsFinal
<1>1. ASSUME IInv, [Next]_vars
      PROVE  [\A r \in Requests : run[r] \notin {"absent", "running"} => run'[r] = run[r]]_vars
  BY <1>1, RunChanges
<1> QED
  BY <1>1, Invariance, PTL DEF Spec, RunOutcomeIsFinal

-----------------------------------------------------------------------------
(***************************************************************************)
(* What a working handler holds is its own: nobody else who still has to   *)
(* write holds it.                                                         *)
(***************************************************************************)
LEMMA HeldIsOwn ==
  ASSUME IInv, OutcomeInv, NEW r \in Requests, pc[r] \in Working,
         NEW q \in Requests \ {r}, pc[q] \in Resumed
  PROVE  /\ copy[q].id \in Requests
         /\ runConv[copy[q].id] = runConv[q]
         /\ runConv[q] # runConv[r]
<1>1. pc[q] \in Working /\ pc[q] \in Holding
  BY DEF Resumed, Holding, Working, ContextCalls
<1>2. run[r] = "running" /\ run[q] = "running"
  BY <1>1, MoverFacts
<1>3. HandlerInv(q)
  BY DEF IInv
<1> QED
  BY <1>1, <1>2, <1>3 DEF IInv, StoreInv, OneRunningRun, HandlerInv, HoldsInteraction

(***************************************************************************)
(* A step disturbs no handler but the one that moves when it leaves that   *)
(* handler's interaction alone, or fails it late.                          *)
(***************************************************************************)
LEMMA OthersKnow ==
  ASSUME IInv, OutcomeInv, NEW q \in Requests, Still(q), attached'[q] = attached[q],
         \A i \in Requests : run[i] # "absent" => runConv'[i] = runConv[i],
         interaction[q] = "absent" => interaction'[q] = "absent" \/ pc[q] \notin BeforeCreation,
         pc[q] \in Resumed =>
           \/ interaction'[copy[q].id] = interaction[copy[q].id]
           \/ copy[q].status # "cancelled" /\ interaction'[copy[q].id] = "failed"
  PROVE  KnowsItsInteraction(q)'
<1>1. KnowsItsInteraction(q)
  BY DEF OutcomeInv
<1>2. NotCreatedYet(q)' /\ HeldStatus(q)' /\ HeldIsCurrent(q)' /\ HeldIsAttached(q)'
  BY <1>1 DEF KnowsItsInteraction, NotCreatedYet, HeldStatus, HeldIsCurrent, HeldIsAttached, Still
<1>3. LateFailure(q)'
  <2> SUFFICES ASSUME pc[q] = "failing"
               PROVE  LateFailure(q)'
    BY DEF LateFailure, Still
  <2>1. run[q] # "absent" /\ runConv[q] # None
    BY DEF IInv, HandlerInv, UnsentHasNoRun, StoreInv, RowsOfRequest
  <2>2. copy[q].id # None =>
          copy[q].id \in Requests /\ runConv[copy[q].id] = runConv[q] /\ run[copy[q].id] # "absent"
    BY <1>1, <2>1 DEF KnowsItsInteraction, LateFailure, IInv, TypeOK, Copy, StoreInv, RowsOfRequest
  <2> QED
    BY <1>1, <2>1, <2>2 DEF KnowsItsInteraction, LateFailure, Still
<1> QED
  BY <1>2, <1>3 DEF KnowsItsInteraction

(***************************************************************************)
(* A handler that has ended, or gives up, has nothing more to know.        *)
(***************************************************************************)
LEMMA GivingUpKnows ==
  ASSUME IInv, NEW r \in Requests, UNCHANGED runConv,
         \/ pc'[r] \in Ended
         \/ /\ pc'[r] = "failing"
            /\ verdict'[r] = "failed" \/ run'[r] = "running"
            /\ copy'[r] = NoCopy \/ (copy'[r] = copy[r] /\ pc[r] \in Holding)
  PROVE  KnowsItsInteraction(r)'
<1>1. pc[r] \in Holding => runConv[copy[r].id] = runConv[r]
  BY DEF IInv, HandlerInv, HoldsInteraction
<1> QED
  BY <1>1 DEF KnowsItsInteraction, NotCreatedYet, HeldStatus, HeldIsCurrent, HeldIsAttached,
     LateFailure, Ended, Resumed, BeforeCreation, NoCopy

LEMMA ReturnsErrorCopy ==
  ASSUME TypeOK, NEW r \in Requests, ReturnsError(r)
  PROVE  /\ pc'[r] \in {"failing", "leftOpen"} /\ verdict'[r] = "failed"
         /\ copy'[r] = NoCopy \/ (copy'[r] = copy[r] /\ pc[r] \in Holding)
BY DEF TypeOK, ReturnsError, Holding, Resumed

LEMMA ReturningKnows ==
  ASSUME IInv, NEW r \in Requests, ReturnsError(r), UNCHANGED runConv
  PROVE  KnowsItsInteraction(r)'
BY ReturnsErrorCopy, GivingUpKnows DEF IInv, Ended

(***************************************************************************)
(* The reply of a call: it is enough to look at the call that succeeded.   *)
(***************************************************************************)
LEMMA AcknowledgedKnows ==
  ASSUME IInv, NEW r \in Requests, NEW next, NEW held, Acknowledged(r, next, held), UNCHANGED runConv,
         pc'[r] = next /\ copy'[r] = held => KnowsItsInteraction(r)'
  PROVE  KnowsItsInteraction(r)'
<1>1. CASE Goto(r, next, held) /\ UNCHANGED <<verdict, faults>>
  BY <1>1 DEF Goto, IInv, TypeOK
<1>2. CASE ReturnsError(r)
  BY <1>2, ReturningKnows
<1> QED
  BY <1>1, <1>2 DEF Acknowledged

(***************************************************************************)
(* Steps of a handler that touch no row.                                   *)
(***************************************************************************)
LEMMA LocalKnows ==
  ASSUME IInv, OutcomeInv, NEW r \in Requests, UNCHANGED <<store, reply>>, KnowsItsInteraction(r)',
         \A q \in Requests \ {r} : pc'[q] = pc[q] /\ copy'[q] = copy[q] /\ verdict'[q] = verdict[q]
  PROVE  \A q \in Requests : KnowsItsInteraction(q)'
<1> SUFFICES ASSUME NEW q \in Requests \ {r} PROVE KnowsItsInteraction(q)'
  OBVIOUS
<1> QED
  BY OthersKnow DEF Still, store, runs, interactions

LEMMA GivesUpKnows ==
  ASSUME IInv, OutcomeInv, NEW r \in Requests,
         \/ CallFails(r) \/ Refused(r) \/ FailIsLost(r)
         \/ /\ Classify(r) \/ EmitStarted(r) \/ Prepare(r) \/ Generate(r) \/ EmitDeltas(r)
            /\ ReturnsError(r) \/ \E v \in {"failed", "cancelled"} : GivesUp(r, v)
  PROVE  \A q \in Requests : KnowsItsInteraction(q)'
<1>1. TypeOK
  BY DEF IInv
<1>2. UNCHANGED <<store, reply>> /\ runConv' = runConv /\ run' = run
  BY DEF CallFails, Refused, FailIsLost, Classify, EmitStarted, Prepare, Generate, EmitDeltas, store, runs
<1>3. CASE ReturnsError(r)
  BY <1>1, <1>2, <1>3, ReturningKnows, ReturnsErrorOutcome, LocalKnows
<1>4. CASE FailIsLost(r)
  <2>1. /\ pc'[r] \in Ended
        /\ \A q \in Requests \ {r} : pc'[q] = pc[q] /\ copy'[q] = copy[q] /\ verdict'[q] = verdict[q]
    BY <1>1, <1>4 DEF FailIsLost, Goto, Ended, TypeOK
  <2> QED
    BY <1>2, <2>1, GivingUpKnows, LocalKnows
<1>5. ASSUME NEW v \in {"failed", "cancelled"}, GivesUp(r, v),
             Classify(r) \/ EmitStarted(r) \/ Prepare(r) \/ Generate(r) \/ EmitDeltas(r)
      PROVE  \A q \in Requests : KnowsItsInteraction(q)'
  <2>1. /\ pc'[r] = "failing" /\ copy'[r] = copy[r]
        /\ \A q \in Requests \ {r} : pc'[q] = pc[q] /\ copy'[q] = copy[q] /\ verdict'[q] = verdict[q]
    BY <1>1, <1>5 DEF GivesUp, TypeOK
  <2>2. pc[r] \in Holding /\ pc[r] \in Working
    BY <1>5 DEF Classify, EmitStarted, Prepare, Generate, EmitDeltas, Holding, Resumed, Working
  <2>3. run'[r] = "running"
    BY <1>2, <2>2, MoverFacts
  <2> QED
    BY <1>2, <2>1, <2>2, <2>3, GivingUpKnows, LocalKnows
<1> QED
  BY <1>3, <1>4, <1>5 DEF CallFails, Refused

LEMMA ReadKnows ==
  ASSUME IInv, OutcomeInv, NEW r \in Requests,
         \/ GetActiveInteraction(r) \/ GetInteraction(r) \/ GetOpenClarification(r)
         \/ Classify(r) /\ \E next \in {"answering", "cancelling", "superseding"} : Continues(r, next)
  PROVE  \A q \in Requests : KnowsItsInteraction(q)'
<1>1. pc[r] \in BeforeCreation /\ UNCHANGED <<store, reply>> /\ interaction' = interaction
  BY DEF GetActiveInteraction, GetInteraction, GetOpenClarification, Classify, BeforeCreation, store,
     interactions
<1>2. /\ pc'[r] \in {"superseding", "creating", "getClarification", "classifying", "answering", "cancelling"}
      /\ \A q \in Requests \ {r} : pc'[q] = pc[q] /\ copy'[q] = copy[q] /\ verdict'[q] = verdict[q]
  BY DEF IInv, TypeOK, GetActiveInteraction, GetInteraction, GetOpenClarification, Classify, Goto, Continues
<1>3. KnowsItsInteraction(r)'
  BY <1>1, <1>2 DEF OutcomeInv, KnowsItsInteraction, NotCreatedYet, HeldStatus, HeldIsCurrent,
     HeldIsAttached, LateFailure, Resumed, BeforeCreation
<1> QED
  BY <1>1, <1>2, <1>3, LocalKnows

LEMMA GoOnKnows ==
  ASSUME IInv, OutcomeInv, NEW r \in Requests,
         \/ /\ EmitStarted(r)
            /\ Continues(r, IF copy[r].status = "cancelled" THEN "closing" ELSE "preparing")
         \/ Prepare(r) /\ \E next \in {"asking", "savingReady", "savingUnsupported"} : Continues(r, next)
         \/ Generate(r) /\ Continues(r, "streaming")
         \/ EmitDeltas(r) /\ Continues(r, "completing")
  PROVE  \A q \in Requests : KnowsItsInteraction(q)'
<1>1. /\ pc[r] \in Resumed \ {"attaching"}
      /\ UNCHANGED <<store, reply>> /\ interaction' = interaction /\ attached' = attached
  BY DEF EmitStarted, Prepare, Generate, EmitDeltas, Resumed, store, runs, interactions
<1>2. /\ \/ pc[r] = "starting" /\ pc'[r] = "closing" /\ copy[r].status = "cancelled"
         \/ pc[r] = "starting" /\ pc'[r] = "preparing" /\ copy[r].status # "cancelled"
         \/ pc[r] = "preparing" /\ pc'[r] \in {"asking", "savingReady", "savingUnsupported"}
         \/ pc[r] = "generating" /\ pc'[r] = "streaming"
         \/ pc[r] = "streaming" /\ pc'[r] = "completing"
      /\ copy'[r] = copy[r]
      /\ \A q \in Requests \ {r} : pc'[q] = pc[q] /\ copy'[q] = copy[q] /\ verdict'[q] = verdict[q]
  BY DEF IInv, TypeOK, EmitStarted, Prepare, Generate, EmitDeltas, Continues
<1>3. KnowsItsInteraction(r)
  BY DEF OutcomeInv
<1>4. HeldStatus(r)'
  BY <1>2, <1>3 DEF KnowsItsInteraction, HeldStatus
<1>5. KnowsItsInteraction(r)'
  BY <1>1, <1>2, <1>3, <1>4 DEF KnowsItsInteraction, NotCreatedYet, HeldIsCurrent,
     HeldIsAttached, LateFailure, Resumed, BeforeCreation
<1> QED
  BY <1>1, <1>2, <1>5, LocalKnows

-----------------------------------------------------------------------------
(***************************************************************************)
(* Steps of a handler that write.                                          *)
(***************************************************************************)
LEMMA WriterKnows ==
  ASSUME IInv, OutcomeInv, NEW r \in Requests, pc[r] \in Working, KnowsItsInteraction(r)',
         UNCHANGED <<runConv, reply>>,
         \A q \in Requests \ {r} :
           /\ pc'[q] = pc[q] /\ copy'[q] = copy[q] /\ verdict'[q] = verdict[q]
           /\ run'[q] = run[q] /\ attached'[q] = attached[q],
         \A i \in Requests :
           \/ interaction'[i] = interaction[i]
           \/ runConv[i] = runConv[r] /\ (i = r \/ interaction[i] # "absent")
  PROVE  \A q \in Requests : KnowsItsInteraction(q)'
<1> SUFFICES ASSUME NEW q \in Requests \ {r} PROVE KnowsItsInteraction(q)'
  OBVIOUS
<1>1. pc[q] \in Resumed => interaction'[copy[q].id] = interaction[copy[q].id]
  BY HeldIsOwn
<1> QED
  BY <1>1, OthersKnow DEF Still

LEMMA SupersedeKnows ==
  ASSUME IInv, OutcomeInv, NEW r \in Requests, SupersedeInteraction(r)
  PROVE  \A q \in Requests : KnowsItsInteraction(q)'
<1> USE DEF IInv
<1>1. /\ pc[r] = "superseding" /\ pc[r] \in Working
      /\ UNCHANGED <<runConv, reply, run, attached>>
      /\ Acknowledged(r, "creating", NoCopy)
  BY DEF SupersedeInteraction, Working, ContextCalls, runs
<1>2. copy[r].id \in Requests /\ runConv[copy[r].id] = runConv[r]
  BY <1>1 DEF HandlerInv, HoldsInteraction, Holding
<1>3. \A i \in Requests :
        \/ interaction'[i] = interaction[i]
        \/ runConv[i] = runConv[r] /\ interaction[i] \in ActiveInteraction
  BY <1>2 DEF SupersedeInteraction, TypeOK
<1>4. interaction[r] = "absent"
  BY <1>1 DEF OutcomeInv, KnowsItsInteraction, NotCreatedYet, BeforeCreation
<1>5. KnowsItsInteraction(r)'
  <2>1. pc'[r] = "creating" => KnowsItsInteraction(r)'
    BY <1>3, <1>4 DEF KnowsItsInteraction, NotCreatedYet, HeldStatus, HeldIsCurrent,
       HeldIsAttached, LateFailure, Resumed, BeforeCreation, ActiveInteraction
  <2> QED
    BY <1>1, <2>1, AcknowledgedKnows
<1> QED
  BY <1>1, <1>3, <1>5, AcknowledgedOutcome, WriterKnows DEF ActiveInteraction

LEMMA CreateKnows ==
  ASSUME IInv, OutcomeInv, NEW r \in Requests, CreateInteraction(r)
  PROVE  \A q \in Requests : KnowsItsInteraction(q)'
<1> USE DEF IInv
<1> DEFINE held == [id |-> r, status |-> "planning", version |-> 1]
<1>1. /\ pc[r] = "creating" /\ pc[r] \in Working
      /\ UNCHANGED <<runConv, reply, run>>
      /\ attached' = [attached EXCEPT ![r] = r]
      /\ interaction' = [interaction EXCEPT ![r] = "planning"]
      /\ Acknowledged(r, "starting", held)
  BY DEF CreateInteraction, Working, ContextCalls
<1>2. /\ attached'[r] = r /\ interaction'[r] = "planning"
      /\ \A q \in Requests \ {r} : attached'[q] = attached[q] /\ interaction'[q] = interaction[q]
  BY <1>1 DEF TypeOK
<1>3. KnowsItsInteraction(r)'
  <2>1. pc'[r] = "starting" /\ copy'[r] = held => KnowsItsInteraction(r)'
    BY <1>2 DEF KnowsItsInteraction, NotCreatedYet, HeldStatus, HeldIsCurrent,
       HeldIsAttached, LateFailure, Resumed, BeforeCreation
  <2> HIDE DEF held
  <2> QED
    BY <1>1, <2>1, AcknowledgedKnows
<1> HIDE DEF held
<1> QED
  BY <1>1, <1>2, <1>3, AcknowledgedOutcome, WriterKnows

LEMMA ApplyKnows ==
  ASSUME IInv, OutcomeInv, NEW r \in Requests, ApplyClarification(r)
  PROVE  \A q \in Requests : KnowsItsInteraction(q)'
<1> USE DEF IInv
<1> DEFINE i == copy[r].id
           status == IF pc[r] = "answering" THEN "resolving" ELSE "cancelled"
           held == [id |-> i, status |-> status, version |-> copy[r].version + 1]
<1>1. /\ pc[r] \in {"answering", "cancelling"} /\ pc[r] \in Working
      /\ UNCHANGED <<runConv, reply, run, attached>>
      /\ interaction' = [interaction EXCEPT ![i] = status]
      /\ Acknowledged(r, "attaching", held)
  BY DEF ApplyClarification, Working, ContextCalls, runs
<1>2. i \in Requests /\ runConv[i] = runConv[r] /\ interaction[i] # "absent"
  BY <1>1 DEF HandlerInv, HoldsInteraction, Holding
<1>3. interaction'[i] = status /\ \A j \in Requests \ {i} : interaction'[j] = interaction[j]
  BY <1>1, <1>2 DEF TypeOK
<1>4. KnowsItsInteraction(r)'
  <2>1. held.id = i /\ held.status = status /\ status \in {"resolving", "cancelled"}
    OBVIOUS
  <2> HIDE DEF held, status
  <2>2. pc'[r] = "attaching" /\ copy'[r] = held => KnowsItsInteraction(r)'
    BY <1>1, <1>3, <2>1 DEF KnowsItsInteraction, NotCreatedYet, HeldStatus, HeldIsCurrent,
       HeldIsAttached, LateFailure, Resumed, BeforeCreation
  <2> QED
    BY <1>1, <2>2, AcknowledgedKnows
<1> HIDE DEF held
<1> QED
  BY <1>1, <1>2, <1>3, <1>4, AcknowledgedOutcome, WriterKnows

LEMMA AttachKnows ==
  ASSUME IInv, OutcomeInv, NEW r \in Requests, AttachRunInteraction(r)
  PROVE  \A q \in Requests : KnowsItsInteraction(q)'
<1> USE DEF IInv
<1>1. /\ pc[r] = "attaching" /\ pc[r] \in Working
      /\ UNCHANGED <<runConv, reply, run, interaction>>
      /\ attached' = [attached EXCEPT ![r] = copy[r].id]
      /\ Acknowledged(r, "starting", copy[r])
  BY DEF AttachRunInteraction, Working, ContextCalls, interactions
<1>2. attached'[r] = copy[r].id /\ \A q \in Requests \ {r} : attached'[q] = attached[q]
  BY <1>1 DEF TypeOK
<1>3. KnowsItsInteraction(r)
  BY DEF OutcomeInv
<1>4. KnowsItsInteraction(r)'
  <2>1. pc'[r] = "starting" /\ copy'[r] = copy[r] => KnowsItsInteraction(r)'
    BY <1>1, <1>2, <1>3 DEF KnowsItsInteraction, NotCreatedYet, HeldStatus, HeldIsCurrent,
       HeldIsAttached, LateFailure, Resumed, BeforeCreation
  <2> QED
    BY <1>1, <2>1, AcknowledgedKnows
<1> QED
  BY <1>1, <1>2, <1>4, AcknowledgedOutcome, WriterKnows

LEMMA SaveKnows ==
  ASSUME IInv, OutcomeInv, NEW r \in Requests, SaveInteraction(r)
  PROVE  \A q \in Requests : KnowsItsInteraction(q)'
<1> USE DEF IInv
<1> DEFINE i == copy[r].id
           status == IF pc[r] = "savingGenerating" THEN "generating" ELSE "ready"
           next == CASE pc[r] = "savingReady"       -> "savingGenerating"
                     [] pc[r] = "savingGenerating"  -> "generating"
                     [] pc[r] = "savingUnsupported" -> "streaming"
           held == [id |-> i, status |-> status, version |-> copy[r].version + 1]
<1>1. /\ pc[r] \in {"savingReady", "savingUnsupported", "savingGenerating"}
      /\ pc[r] \in Working
      /\ UNCHANGED <<runConv, reply, run, attached>>
      /\ interaction' = [interaction EXCEPT ![i] = status]
      /\ Acknowledged(r, next, held)
  BY DEF SaveInteraction, Working, ContextCalls, runs
<1>2. i \in Requests /\ runConv[i] = runConv[r] /\ interaction[i] # "absent"
  BY <1>1 DEF HandlerInv, HoldsInteraction, Holding, Resumed
<1>3. interaction'[i] = status /\ \A j \in Requests \ {i} : interaction'[j] = interaction[j]
  BY <1>1, <1>2 DEF TypeOK
<1>4. attached[r] = i
  BY <1>1 DEF OutcomeInv, KnowsItsInteraction, HeldIsAttached, Resumed
<1>5. KnowsItsInteraction(r)'
  <2>1. /\ held.id = i /\ held.status = status /\ status \in {"ready", "generating"}
        /\ next \in {"savingGenerating", "generating", "streaming"}
    BY <1>1
  <2> HIDE DEF held, status, next
  <2>2. pc'[r] = next /\ copy'[r] = held => KnowsItsInteraction(r)'
    BY <1>1, <1>3, <1>4, <2>1 DEF KnowsItsInteraction, NotCreatedYet, HeldStatus, HeldIsCurrent,
       HeldIsAttached, LateFailure, Resumed, BeforeCreation
  <2> QED
    BY <1>1, <2>2, AcknowledgedKnows
<1> HIDE DEF held, next
<1> QED
  BY <1>1, <1>2, <1>3, <1>5, AcknowledgedOutcome, WriterKnows

LEMMA LastWriteKnows ==
  ASSUME IInv, OutcomeInv, NEW r \in Requests,
         CompleteRun(r) \/ CreateClarification(r) \/ CompleteInteractionRun(r)
  PROVE  \A q \in Requests : KnowsItsInteraction(q)'
<1> USE DEF IInv
<1> DEFINE i == copy[r].id
<1>1. /\ pc[r] \in {"closing", "asking", "completing"} /\ pc[r] \in Working
      /\ UNCHANGED <<runConv, reply, attached>>
      /\ Acknowledged(r, "returned", NoCopy)
      /\ \A q \in Requests \ {r} : run'[q] = run[q]
      /\ \A j \in Requests \ {i} : interaction'[j] = interaction[j]
  BY DEF CompleteRun, CreateClarification, CompleteInteractionRun, Working, ContextCalls, interactions, TypeOK
<1>2. i \in Requests /\ runConv[i] = runConv[r] /\ interaction[i] # "absent"
  BY <1>1 DEF HandlerInv, HoldsInteraction, Holding, Resumed
<1>3. KnowsItsInteraction(r)'
  <2>1. pc'[r] = "returned" /\ copy'[r] = NoCopy => KnowsItsInteraction(r)'
    BY <1>1, GivingUpKnows DEF Ended
  <2> QED
    BY <1>1, <2>1, AcknowledgedKnows
<1> QED
  BY <1>1, <1>2, <1>3, AcknowledgedOutcome, WriterKnows

(***************************************************************************)
(* A late failure: whatever still works on the interaction belongs to a    *)
(* later run, so this one has ended and can only say "failed".             *)
(***************************************************************************)
LEMMA FailKnows ==
  ASSUME IInv, OutcomeInv, NEW r \in Requests, Fail(r)
  PROVE  \A q \in Requests : KnowsItsInteraction(q)'
<1> USE DEF IInv
<1>1. /\ pc[r] = "failing" /\ pc'[r] = "returned"
      /\ UNCHANGED <<runConv, reply, attached>>
      /\ \A q \in Requests \ {r} :
           pc'[q] = pc[q] /\ copy'[q] = copy[q] /\ verdict'[q] = verdict[q] /\ run'[q] = run[q]
      /\ \A i \in Requests :
           \/ interaction'[i] = interaction[i]
           \/ i = copy[r].id /\ interaction[i] \in Failable /\ interaction'[i] = verdict[r]
  BY DEF Fail, Goto, TypeOK
<1>2. KnowsItsInteraction(r)'
  BY <1>1, GivingUpKnows DEF Ended
<1>3. ASSUME NEW q \in Requests \ {r} PROVE KnowsItsInteraction(q)'
  <2>1. KnowsItsInteraction(q) /\ KnowsItsInteraction(r) /\ HandlerInv(q)
    BY DEF OutcomeInv
  <2>2. ASSUME pc[q] \in Resumed, interaction'[copy[q].id] # interaction[copy[q].id]
        PROVE  copy[q].status # "cancelled" /\ interaction'[copy[q].id] = "failed"
    <3>1. /\ copy[q].id \in Requests /\ runConv[copy[q].id] = runConv[q]
          /\ pc[q] \in Working
      BY <2>1, <2>2 DEF HandlerInv, HoldsInteraction, Holding, Resumed, Working, ContextCalls
    <3>2. /\ copy[r].id = copy[q].id /\ interaction[copy[q].id] \in Failable
          /\ interaction'[copy[q].id] = verdict[r]
      BY <1>1, <2>2, <3>1
    <3>3. runConv[r] = runConv[q]
      BY <1>1, <2>1, <3>1, <3>2, ConstantsAssumption DEF KnowsItsInteraction, LateFailure
    <3>4. run[r] # "running"
      BY <3>1, <3>3, MoverFacts DEF StoreInv, OneRunningRun
    <3>5. verdict[r] = "failed"
      BY <1>1, <2>1, <3>4 DEF KnowsItsInteraction, LateFailure
    <3> QED
      BY <2>1, <2>2, <3>2, <3>5 DEF KnowsItsInteraction, HeldIsCurrent, Failable
  <2>3. interaction[q] = "absent" => interaction'[q] = "absent"
    BY <1>1 DEF Failable
  <2> QED
    BY <1>1, <2>2, <2>3, OthersKnow DEF Still
<1> QED
  BY <1>2, <1>3

LEMMA HandleKnows ==
  ASSUME IInv, OutcomeInv, NEW r \in Requests, Handle(r)
  PROVE  \A q \in Requests : KnowsItsInteraction(q)'
<1>1. CASE Classify(r) \/ EmitStarted(r) \/ Prepare(r) \/ Generate(r) \/ EmitDeltas(r)
  BY <1>1, GivesUpKnows, ReadKnows, GoOnKnows DEF Classify, EmitStarted, Prepare, Generate, EmitDeltas
<1> QED
  BY <1>1, GivesUpKnows, ReadKnows, SupersedeKnows, CreateKnows, ApplyKnows, AttachKnows, SaveKnows,
     LastWriteKnows, FailKnows DEF Handle

-----------------------------------------------------------------------------
(***************************************************************************)
(* Everything else.                                                        *)
(***************************************************************************)
LEMMA StartRunKnows ==
  ASSUME IInv, OutcomeInv, NEW r \in Requests, NEW c \in Convs, NEW m \in Models,
         NEW answer \in Replies, StartRun(r, c, m, answer)
  PROVE  \A q \in Requests : KnowsItsInteraction(q)'
<1> USE DEF IInv
<1>1. /\ run[r] = "absent" /\ interaction[r] = "absent" /\ pc[r] = "unsent"
      /\ UNCHANGED <<interaction, attached, copy, verdict>>
      /\ \A q \in Requests \ {r} :
           pc'[q] = pc[q] /\ reply'[q] = reply[q] /\ run'[q] = run[q] /\ runConv'[q] = runConv[q]
      /\ pc'[r] \in {"getActive", "getInteraction", "leftOpen"}
  BY DEF StartRun, interactions, TypeOK, HandlerInv, UnsentHasNoRun, StoreInv, RowsOfRequest
<1>2. KnowsItsInteraction(r)'
  BY <1>1 DEF KnowsItsInteraction, NotCreatedYet, HeldStatus, HeldIsCurrent, HeldIsAttached,
     LateFailure, Resumed, BeforeCreation
<1>3. ASSUME NEW q \in Requests \ {r} PROVE KnowsItsInteraction(q)'
  BY <1>1, OthersKnow DEF Still
<1> QED
  BY <1>2, <1>3

LEMMA ResetCommitKnows ==
  ASSUME IInv, OutcomeInv, NEW s \in Scopes, NEW next \in Convs, NEW m \in Models,
         ResetCommit(s, next, m)
  PROVE  \A q \in Requests : KnowsItsInteraction(q)'
<1> USE DEF IInv
<1>1. UNCHANGED <<runs, handlers>>
  BY DEF ResetCommit
<1>2. \A i \in Requests :
        \/ interaction'[i] = interaction[i]
        \/ /\ interaction[i] \in ActiveInteraction
           /\ runConv[i] \in Convs /\ ScopeOf[runConv[i]] = s
  BY DEF ResetCommit, InReset, ActiveIn
<1>3. \A r \in Requests : run[r] = "running" => ScopeOf[runConv[r]] # s
  <2> SUFFICES ASSUME NEW r \in Requests, run[r] = "running", ScopeOf[runConv[r]] = s PROVE FALSE
    OBVIOUS
  <2>1. runConv[r] \in Convs /\ conv[runConv[r]] = "active"
    BY DEF StoreInv, RowsOfRequest, ProgressIsInActiveConversation, TypeOK
  <2>2. resetting[s] # None /\ runConv[r] \notin resetting[s].busy
    BY <2>1 DEF ResetCommit, ConvsOf, Archives
  <2> QED
    BY <2>2 DEF StoreInv, ResetSeesRuns
<1>4. ASSUME NEW q \in Requests, pc[q] \in Resumed
      PROVE  interaction'[copy[q].id] = interaction[copy[q].id]
  <2>1. /\ copy[q].id \in Requests /\ runConv[copy[q].id] = runConv[q]
        /\ run[q] = "running"
    BY <1>4 DEF HandlerInv, HoldsInteraction, WorkingRunIsRunning, Holding, Resumed, Working, ContextCalls
  <2> QED
    BY <1>2, <1>3, <2>1
<1> QED
  BY <1>1, <1>2, <1>4, OthersKnow DEF Still, runs, handlers, ActiveInteraction

LEMMA OtherStepsKnow ==
  ASSUME IInv, OutcomeInv,
         \/ \E c \in Convs, m \in Models : CreateConversation(c, m)
         \/ \E s \in Scopes, current \in Convs \cup {None} : ResetBegin(s, current)
         \/ \E s \in Scopes : ResetAbort(s)
         \/ \E c \in Convs, m \in Models : UpdateModelBegin(c, m)
         \/ \E c \in Convs : UpdateModelEnd(c)
         \/ \E r \in Requests : Disconnect(r)
         \/ Crash
         \/ UNCHANGED vars
  PROVE  \A q \in Requests : KnowsItsInteraction(q)'
<1>1. UNCHANGED <<runs, interactions, reply>>
  BY DEF CreateConversation, ResetBegin, ResetAbort, UpdateModelBegin, UpdateModelEnd, Disconnect, Crash,
         vars, store, handlers
<1>2. CASE Crash
  <2> SUFFICES ASSUME NEW q \in Requests PROVE KnowsItsInteraction(q)'
    OBVIOUS
  <2>1. KnowsItsInteraction(q)
    BY DEF OutcomeInv
  <2>2. pc'[q] \in Ended \/ (pc'[q] = "unsent" /\ pc[q] = "unsent")
    BY <1>2 DEF Crash, Ended
  <2> QED
    BY <1>1, <2>1, <2>2 DEF KnowsItsInteraction, NotCreatedYet, HeldStatus, HeldIsCurrent,
       HeldIsAttached, LateFailure, Resumed, BeforeCreation, Ended, interactions
<1>3. CASE ~Crash
  <2>1. UNCHANGED <<pc, copy, verdict>>
    BY <1>3 DEF CreateConversation, ResetBegin, ResetAbort, UpdateModelBegin, UpdateModelEnd,
       Disconnect, vars, handlers
  <2> QED
    BY <1>1, <2>1, OthersKnow DEF Still, runs, interactions
<1> QED
  BY <1>2, <1>3

LEMMA NextKnows ==
  ASSUME IInv, OutcomeInv, [Next]_vars
  PROVE  \A q \in Requests : KnowsItsInteraction(q)'
BY HandleKnows, StartRunKnows, ResetCommitKnows, OtherStepsKnow DEF Next

-----------------------------------------------------------------------------
(***************************************************************************)
(* No step reopens an interaction: what a handler saves over is the status *)
(* it knows, or a late failure.                                            *)
(***************************************************************************)
LEMMA FinalStays ==
  ASSUME IInv, OutcomeInv, [Next]_vars, NEW i \in Requests, interaction[i] \in Final
  PROVE  interaction'[i] = interaction[i]
<1> USE DEF IInv, Final
<1>1. ASSUME NEW r \in Requests, Handle(r)
      PROVE  interaction'[i] = interaction[i]
  <2>0. KnowsItsInteraction(r) /\ HandlerInv(r)
    BY DEF OutcomeInv
  <2>1. CASE SupersedeInteraction(r)
    BY <2>1 DEF SupersedeInteraction, ActiveInteraction, TypeOK
  <2>2. CASE CreateInteraction(r)
    BY <2>0, <2>2 DEF CreateInteraction, KnowsItsInteraction, NotCreatedYet, BeforeCreation, TypeOK
  <2>3. CASE ApplyClarification(r)
    <3>1. interaction[copy[r].id] = "awaiting_clarification"
      BY <2>3 DEF ApplyClarification, Applies, OpenFor, StoreInv, OpenClarificationIsCurrent
    <3> QED
      BY <2>3, <3>1 DEF ApplyClarification, TypeOK
  <2>4. CASE CreateClarification(r) \/ SaveInteraction(r)
    <3>1. /\ pc[r] \in {"asking", "savingReady", "savingUnsupported", "savingGenerating"}
          /\ i # copy[r].id => interaction'[i] = interaction[i]
      BY <2>4 DEF CreateClarification, SaveInteraction, TypeOK
    <3>2. interaction[copy[r].id] \in {"planning", "resolving", "ready", "generating", "failed"}
      BY <2>0, <3>1 DEF KnowsItsInteraction, HeldStatus, HeldIsCurrent, Resumed
    <3> QED
      BY <3>1, <3>2
  <2>5. CASE CompleteInteractionRun(r)
    BY <2>5 DEF CompleteInteractionRun, Applies, TypeOK
  <2>6. CASE Fail(r)
    BY <2>6 DEF Fail, Failable
  <2>7. CASE UNCHANGED interaction
    BY <2>7
  <2> QED
    BY <1>1, <2>1, <2>2, <2>3, <2>4, <2>5, <2>6, <2>7 DEF Handle, GetActiveInteraction,
       GetInteraction, GetOpenClarification, Classify, AttachRunInteraction, EmitStarted, CompleteRun,
       Prepare, Generate, EmitDeltas, FailIsLost, CallFails, Refused, store, interactions
<1>2. ASSUME NEW s \in Scopes, NEW next \in Convs, NEW m \in Models, ResetCommit(s, next, m)
      PROVE  interaction'[i] = interaction[i]
  BY <1>2 DEF ResetCommit, ActiveIn, ActiveInteraction
<1>3. \/ \E r \in Requests : Handle(r)
      \/ \E s \in Scopes, next \in Convs, m \in Models : ResetCommit(s, next, m)
      \/ UNCHANGED interaction
  BY DEF Next, StartRun, CreateConversation, ResetBegin, ResetAbort, UpdateModelBegin,
     UpdateModelEnd, Disconnect, Crash, vars, store, interactions
<1> QED
  BY <1>1, <1>2, <1>3

(***************************************************************************)
(* A run that completes ends the interaction it is attached to, and stays  *)
(* attached to it.                                                         *)
(***************************************************************************)
LEMMA CompletedStays ==
  ASSUME IInv, OutcomeInv, [Next]_vars
  PROVE  CompletedRunClosedItsInteraction'
<1> USE DEF IInv
<1> SUFFICES ASSUME NEW r \in Requests, run'[r] = "completed"
             PROVE  attached'[r] # None /\ interaction'[attached'[r]] \in {"completed", "cancelled"}
  BY DEF CompletedRunClosedItsInteraction
<1>1. CASE run[r] = "completed"
  <2>1. attached[r] \in Requests /\ interaction[attached[r]] \in {"completed", "cancelled"}
    BY <1>1 DEF OutcomeInv, CompletedRunClosedItsInteraction, TypeOK
  <2>2. ASSUME NEW q \in Requests, CreateInteraction(q) \/ AttachRunInteraction(q)
        PROVE  attached'[r] = attached[r]
    BY <1>1, <2>2 DEF CreateInteraction, AttachRunInteraction, Applies, TypeOK
  <2>3. \/ \E q \in Requests : CreateInteraction(q) \/ AttachRunInteraction(q)
        \/ attached' = attached
    <3>1. ASSUME NEW q \in Requests,
                 \/ GetActiveInteraction(q) \/ SupersedeInteraction(q) \/ GetInteraction(q)
                 \/ GetOpenClarification(q) \/ Classify(q) \/ ApplyClarification(q)
          PROVE  attached' = attached
      BY <3>1 DEF GetActiveInteraction, SupersedeInteraction, GetInteraction,
         GetOpenClarification, Classify, ApplyClarification, store, runs
    <3>2. ASSUME NEW q \in Requests,
                 \/ EmitStarted(q) \/ CompleteRun(q) \/ Prepare(q) \/ CreateClarification(q)
                 \/ SaveInteraction(q) \/ Generate(q)
          PROVE  attached' = attached
      BY <3>2 DEF EmitStarted, CompleteRun, Prepare, CreateClarification, SaveInteraction,
         Generate, store, runs
    <3>3. ASSUME NEW q \in Requests,
                 \/ EmitDeltas(q) \/ CompleteInteractionRun(q) \/ Fail(q)
                 \/ FailIsLost(q) \/ CallFails(q) \/ Refused(q) \/ Disconnect(q)
          PROVE  attached' = attached
      BY <3>3 DEF EmitDeltas, CompleteInteractionRun, Fail, FailIsLost, CallFails, Refused,
         Disconnect, store, runs
    <3>4. ASSUME \/ \E c \in Convs, m \in Models : CreateConversation(c, m)
                 \/ \E s \in Scopes, current \in Convs \cup {None} : ResetBegin(s, current)
                 \/ \E s \in Scopes, next \in Convs, m \in Models : ResetCommit(s, next, m)
                 \/ \E s \in Scopes : ResetAbort(s)
          PROVE  attached' = attached
      BY <3>4 DEF CreateConversation, ResetBegin, ResetCommit, ResetAbort, store, runs
    <3>5. ASSUME \/ \E c \in Convs, m \in Models : UpdateModelBegin(c, m)
                 \/ \E c \in Convs : UpdateModelEnd(c)
                 \/ \E q \in Requests, c \in Convs, m \in Models, answer \in Replies :
                      StartRun(q, c, m, answer)
                 \/ Crash \/ UNCHANGED vars
          PROVE  attached' = attached
      BY <3>5 DEF UpdateModelBegin, UpdateModelEnd, StartRun, Crash, vars, store, runs
    <3> QED
      BY <3>1, <3>2, <3>3, <3>4, <3>5 DEF Next, Handle
  <2>4. interaction'[attached[r]] = interaction[attached[r]]
    BY <2>1, FinalStays DEF Final
  <2>5. attached'[r] = attached[r]
    BY <2>2, <2>3
  <2> QED
    BY <2>1, <2>4, <2>5, ConstantsAssumption
<1>2. CASE run[r] # "completed"
  <2>1. KnowsItsInteraction(r) /\ HandlerInv(r)
    BY DEF OutcomeInv
  <2>2. CompleteRun(r) \/ CompleteInteractionRun(r)
    <3>1. \/ \E c \in Convs, m \in Models, answer \in Replies : StartRun(r, c, m, answer)
          \/ CompleteRun(r) \/ CreateClarification(r) \/ CompleteInteractionRun(r) \/ Fail(r)
      BY <1>2, RunChanges
    <3> QED
      BY <1>2, <3>1 DEF StartRun, CreateClarification, Fail, AfterFail, TypeOK
  <2>3. /\ pc[r] \in {"closing", "completing"} /\ attached' = attached
        /\ copy[r].id \in Requests /\ attached[r] = copy[r].id
    BY <2>1, <2>2 DEF CompleteRun, CompleteInteractionRun, HandlerInv, HoldsInteraction, Holding,
       KnowsItsInteraction, HeldIsAttached, Resumed
  <2>4. CASE CompleteRun(r)
    BY <2>1, <2>3, <2>4, ConstantsAssumption DEF CompleteRun, KnowsItsInteraction, HeldStatus,
       HeldIsCurrent, Resumed, interactions
  <2>5. CASE CompleteInteractionRun(r)
    BY <2>3, <2>5, ConstantsAssumption DEF CompleteInteractionRun, TypeOK
  <2> QED
    BY <2>2, <2>4, <2>5
<1> QED
  BY <1>1, <1>2

LEMMA InitOutcome == Init => OutcomeInv
BY DEF Init, OutcomeInv, CompletedRunClosedItsInteraction, KnowsItsInteraction, NotCreatedYet, HeldStatus,
       HeldIsCurrent, HeldIsAttached, LateFailure, Resumed

LEMMA OutcomeInvariance == Spec => [](IInv /\ OutcomeInv)
<1>1. IInv /\ OutcomeInv /\ [Next]_vars => OutcomeInv'
  BY NextKnows, CompletedStays DEF OutcomeInv
<1> QED
  BY <1>1, InitOutcome, Invariance, PTL DEF Spec

(***************************************************************************)
(* A completed run has ended its interaction, for good.                    *)
(***************************************************************************)
THEOREM CompletedRunsCloseTheirInteraction == Spec => []CompletedRunClosedItsInteraction
<1>1. OutcomeInv => CompletedRunClosedItsInteraction
  BY DEF OutcomeInv
<1> QED
  BY <1>1, OutcomeInvariance, PTL

(***************************************************************************)
(* An interaction that was completed, cancelled or superseded is never     *)
(* reopened, although SaveInteraction looks at the version alone.          *)
(***************************************************************************)
THEOREM InteractionOutcomesAreFinal == Spec => InteractionOutcomeIsFinal
<1>1. ASSUME IInv, OutcomeInv, [Next]_vars
      PROVE  [\A i \in Requests : interaction[i] \in {"completed", "cancelled", "superseded"} =>
                interaction'[i] = interaction[i]]_vars
  BY <1>1, FinalStays DEF Final
<1> QED
  BY <1>1, OutcomeInvariance, PTL DEF Spec, InteractionOutcomeIsFinal


-----------------------------------------------------------------------------
(***************************************************************************)
(* The history.  A step of the workbench asks, answers or abandons a turn, *)
(* or leaves messages and running runs as they are.                        *)
(***************************************************************************)
SpokenByRuns ==
  \A c \in Convs : \A n \in 1 .. Len(messages[c]) : run[messages[c][n].run] # "absent"

LEMMA RunningAfter ==
  ASSUME IInv, NEW r \in Requests, NEW st \in RunStatus, NEW c \in Convs, runConv[r] = c,
         run[r] = "running", run' = [run EXCEPT ![r] = st], UNCHANGED runConv,
         st # "running"
  PROVE  \A d \in Convs : RunningIn(d)' = IF d = c THEN {} ELSE RunningIn(d)
<1>1. \A q \in Requests : run'[q] = IF q = r THEN st ELSE run[q]
  BY DEF IInv, TypeOK
<1>2. \A q \in Requests : run[q] = "running" /\ runConv[q] = c => q = r
  BY DEF IInv, StoreInv, OneRunningRun
<1> QED
  BY <1>1, <1>2 DEF RunningIn

(***************************************************************************)
(* A call that ends a run with a message closes the turn of the run.       *)
(***************************************************************************)
LEMMA Answers ==
  ASSUME IInv, NEW r \in Requests, NEW st \in RunStatus \ {"running"}, run[r] = "running",
         Says(runConv[r], "assistant", r), run' = [run EXCEPT ![r] = st], UNCHANGED runConv
  PROVE  \E c \in Convs : History!Answer(c, r)
<1> DEFINE c == runConv[r]
<1>1. c \in Convs /\ r \in RunningIn(c)
  BY DEF IInv, TypeOK, StoreInv, RowsOfRequest, RunningIn
<1>2. \A d \in Convs : RunningIn(d)' = IF d = c THEN {} ELSE RunningIn(d)
  BY <1>1, RunningAfter
<1> HIDE DEF c
<1>3. [d \in Convs |-> RunningIn(d)]' = [[d \in Convs |-> RunningIn(d)] EXCEPT ![c] = {}]
  BY <1>2
<1>4. messages' = [messages EXCEPT ![c] = Append(@, [role |-> "assistant", run |-> r])]
  BY DEF Says, c
<1>5. History!Answer(c, r)
  BY <1>1, <1>3, <1>4 DEF History!Answer
<1> QED
  BY <1>1, <1>5

LEMMA StepImplements ==
  ASSUME IInv, SpokenByRuns, [Next]_vars
  PROVE  [History!Next]_(History!vars)
<1> DEFINE turns == [c \in Convs |-> RunningIn(c)]
<1>1. CASE UNCHANGED <<messages, run, runConv>>
  BY <1>1 DEF RunningIn, History!vars
<1>2. ASSUME NEW r \in Requests, NEW c \in Convs, NEW m \in Models, NEW answer \in Replies,
             StartRun(r, c, m, answer)
      PROVE  History!Next
  <2>1. run[r] = "absent" /\ RunningIn(c) = {}
    BY <1>2 DEF StartRun, IInv, HandlerInv, UnsentHasNoRun
  <2>2. ~History!Asked(r)
    BY <2>1 DEF SpokenByRuns, History!Asked
  <2>3. \A q \in Requests : /\ run'[q] = IF q = r THEN "running" ELSE run[q]
                            /\ runConv'[q] = IF q = r THEN c ELSE runConv[q]
    BY <1>2 DEF StartRun, IInv, TypeOK
  <2>4. \A d \in Convs : RunningIn(d)' = IF d = c THEN {r} ELSE RunningIn(d)
    BY <2>1, <2>3 DEF RunningIn
  <2>5. turns' = [turns EXCEPT ![c] = {r}]
    BY <2>4
  <2>6. turns[c] = {}
    BY <2>1
  <2>7. messages' = [messages EXCEPT ![c] = Append(@, [role |-> "user", run |-> r])]
    BY <1>2 DEF StartRun, Says
  <2>8. History!Ask(c, r)
    BY <2>2, <2>5, <2>6, <2>7 DEF History!Ask
  <2> QED
    BY <2>8 DEF History!Next
<1>3. ASSUME NEW r \in Requests, CompleteRun(r) \/ CompleteInteractionRun(r) \/ CreateClarification(r)
      PROVE  History!Next
  <2>1. pc[r] \in Holding /\ run[r] = "running"
    BY <1>3 DEF CompleteRun, CompleteInteractionRun, CreateClarification, IInv, HandlerInv,
       WorkingRunIsRunning, Working, ContextCalls, Holding, Resumed
  <2>2. runConv[copy[r].id] = runConv[r]
    BY <2>1 DEF IInv, HandlerInv, HoldsInteraction
  <2>3. UNCHANGED runConv /\ Says(runConv[r], "assistant", r)
    BY <1>3, <2>2 DEF CompleteRun, CompleteInteractionRun, CreateClarification, runs
  <2>4. \E st \in RunStatus \ {"running"} : run' = [run EXCEPT ![r] = st]
    BY <1>3 DEF CompleteRun, CompleteInteractionRun, CreateClarification, RunStatus
  <2> QED
    BY <2>1, <2>3, <2>4, Answers DEF History!Next
<1>4. ASSUME NEW r \in Requests, Fail(r)
      PROVE  [History!Next]_(History!vars)
  <2>1. UNCHANGED <<messages, runConv>> /\ run' = [run EXCEPT ![r] = AfterFail(@, verdict[r])]
    BY <1>4 DEF Fail
  <2>2. CASE run[r] = "running"
    <3>1. verdict[r] \in RunStatus /\ verdict[r] # "running"
      BY <1>4 DEF Fail, IInv, TypeOK, HandlerInv, FailingHasVerdict, RunStatus
    <3>2. run' = [run EXCEPT ![r] = verdict[r]]
      BY <2>1, <2>2 DEF AfterFail, IInv, TypeOK
    <3>3. PICK c \in Convs : c = runConv[r] /\ r \in RunningIn(c)
      BY <2>2 DEF IInv, TypeOK, StoreInv, RowsOfRequest, RunningIn
    <3>4. \A d \in Convs : RunningIn(d)' = IF d = c THEN {} ELSE RunningIn(d)
      BY <2>1, <2>2, <3>1, <3>2, <3>3, RunningAfter
    <3>5. turns' = [turns EXCEPT ![c] = {}]
      BY <3>4
    <3>6. History!Abandon(c, r)
      BY <2>1, <3>3, <3>5 DEF History!Abandon
    <3> QED
      BY <3>6 DEF History!Next
  <2>3. CASE run[r] # "running"
    <3>1. run' = run
      BY <2>1, <2>3 DEF AfterFail, IInv, TypeOK
    <3> QED
      BY <1>1, <2>1, <3>1
  <2> QED
    BY <2>2, <2>3
<1>5. ASSUME NEW r \in Requests, Handle(r)
      PROVE  \/ UNCHANGED <<messages, run, runConv>>
             \/ CompleteRun(r) \/ CompleteInteractionRun(r) \/ CreateClarification(r) \/ Fail(r)
  BY <1>5 DEF Handle, GetActiveInteraction, SupersedeInteraction, CreateInteraction, GetInteraction,
     GetOpenClarification, Classify, ApplyClarification, AttachRunInteraction, EmitStarted, Prepare,
     SaveInteraction, Generate, EmitDeltas, FailIsLost, CallFails, Refused, store, runs
<1>6. CASE UNCHANGED vars
  BY <1>1, <1>6 DEF vars, store, runs
<1>7. CASE Next
  <2>1. ASSUME NEW c \in Convs, NEW m \in Models, CreateConversation(c, m) \/ UpdateModelBegin(c, m)
        PROVE  UNCHANGED <<messages, run, runConv>>
    BY <2>1 DEF CreateConversation, UpdateModelBegin, store, runs
  <2>2. ASSUME NEW s \in Scopes, NEW next \in Convs, NEW m \in Models, ResetCommit(s, next, m)
        PROVE  UNCHANGED <<messages, run, runConv>>
    BY <2>2 DEF ResetCommit, runs
  <2>3. ASSUME NEW s \in Scopes, ResetAbort(s) \/ \E current \in Convs \cup {None} : ResetBegin(s, current)
        PROVE  UNCHANGED <<messages, run, runConv>>
    BY <2>3 DEF ResetAbort, ResetBegin, store, runs
  <2>4. ASSUME NEW c \in Convs, UpdateModelEnd(c)
        PROVE  UNCHANGED <<messages, run, runConv>>
    BY <2>4 DEF UpdateModelEnd, runs
  <2>5. ASSUME Crash \/ \E r \in Requests : Disconnect(r)
        PROVE  UNCHANGED <<messages, run, runConv>>
    BY <2>5 DEF Crash, Disconnect, store, runs
  <2> QED
    BY <1>1, <1>2, <1>3, <1>4, <1>5, <1>7, <2>1, <2>2, <2>3, <2>4, <2>5 DEF Next
<1> QED
  BY <1>6, <1>7

LEMMA RunsStay ==
  ASSUME IInv, [Next]_vars, NEW r \in Requests, run[r] # "absent"
  PROVE  run'[r] # "absent"
<1>1. CASE run'[r] = run[r]
  BY <1>1
<1>2. CASE run'[r] # run[r]
  <2>1. run[r] = "running" /\ (CompleteRun(r) \/ CreateClarification(r) \/ CompleteInteractionRun(r) \/ Fail(r))
    BY <1>2, RunChanges
  <2>2. ASSUME Fail(r) PROVE run'[r] # "absent"
    BY <2>1, <2>2 DEF Fail, AfterFail, IInv, TypeOK
  <2> QED
    BY <2>1, <2>2 DEF CompleteRun, CreateClarification, CompleteInteractionRun, IInv, TypeOK
<1> QED
  BY <1>1, <1>2

LEMMA SpokenInitially == Init => SpokenByRuns
BY DEF Init, SpokenByRuns

LEMMA SpokenKept == IInv /\ SpokenByRuns /\ [Next]_vars => SpokenByRuns'
<1> SUFFICES ASSUME IInv, SpokenByRuns, [Next]_vars PROVE SpokenByRuns'
  OBVIOUS
<1>1. \A q \in Requests : run[q] # "absent" => run'[q] # "absent"
  BY RunsStay
<1>2. messages \in [Convs -> Seq(Message)]
  BY DEF IInv, TypeOK
<1>9. \A d \in Convs : \A k \in 1 .. Len(messages[d]) : run'[messages[d][k].run] # "absent"
  <2> SUFFICES ASSUME NEW d \in Convs, NEW k \in 1 .. Len(messages[d])
               PROVE  run'[messages[d][k].run] # "absent"
    OBVIOUS
  <2>1. messages[d] \in Seq(Message)
    BY <1>2
  <2>2. messages[d][k] \in Message
    BY <2>1
  <2>3. messages[d][k].run \in Requests
    BY <2>2 DEF Message
  <2> QED
    BY <1>1, <2>3 DEF SpokenByRuns
<1>3. ASSUME UNCHANGED messages PROVE SpokenByRuns'
  BY <1>9, <1>3 DEF SpokenByRuns
<1>4. ASSUME NEW c \in Convs, NEW r \in Requests, NEW who, run'[r] # "absent",
             messages' = [messages EXCEPT ![c] = Append(@, [role |-> who, run |-> r])]
      PROVE  SpokenByRuns'
  <2> SUFFICES ASSUME NEW d \in Convs, NEW n \in 1 .. Len(messages'[d])
               PROVE  run'[messages'[d][n].run] # "absent"
    BY DEF SpokenByRuns
  <2>1. ASSUME NEW k \in 1 .. Len(messages[d]) PROVE run'[messages[d][k].run] # "absent"
    BY <1>9
  <2>2. CASE d # c
    BY <1>2, <1>4, <2>1, <2>2
  <2>3. CASE d = c
    <3> DEFINE s == messages[c]
               e == [role |-> who, run |-> r]
    <3>1. s \in Seq(Message) /\ messages'[d] = Append(s, e)
      BY <1>2, <1>4, <2>3
    <3>2. e.run = r
      OBVIOUS
    <3> HIDE DEF s, e
    <3>3. n \in 1 .. (Len(s) + 1) /\ (n <= Len(s) => Append(s, e)[n] = s[n])
          /\ Append(s, e)[Len(s) + 1] = e
      BY <3>1
    <3>4. CASE n = Len(s) + 1
      BY <1>4, <3>1, <3>2, <3>3, <3>4
    <3>5. CASE n # Len(s) + 1
      <4>1. n \in 1 .. Len(s)
        BY <3>1, <3>3, <3>5
      <4> QED
        BY <2>1, <2>3, <3>1, <3>3, <4>1 DEF s
    <3> QED
      BY <3>4, <3>5
  <2> QED
    BY <2>2, <2>3
<1>5. [History!Next]_(History!vars)
  BY StepImplements
<1>6. ASSUME NEW c \in Convs, NEW r \in Requests, History!Ask(c, r) PROVE SpokenByRuns'
  <2>1. r \in RunningIn(c)'
    BY <1>6 DEF History!Ask
  <2> QED
    BY <1>4, <1>6, <2>1 DEF History!Ask, RunningIn
<1>7. ASSUME NEW c \in Convs, NEW r \in Requests, History!Answer(c, r) PROVE SpokenByRuns'
  <2>1. r \in RunningIn(c)
    BY <1>7 DEF History!Answer
  <2>2. run'[r] # "absent"
    BY <1>1, <2>1 DEF RunningIn
  <2> QED
    BY <1>4, <1>7, <2>2 DEF History!Answer
<1>8. ASSUME NEW c \in Convs, NEW r \in Requests, History!Abandon(c, r) PROVE SpokenByRuns'
  BY <1>3, <1>8 DEF History!Abandon
<1> QED
  BY <1>3, <1>5, <1>6, <1>7, <1>8 DEF History!Next, History!vars

LEMMA SpokenInvariance == Spec => [](IInv /\ SpokenByRuns)
BY SpokenInitially, SpokenKept, Invariance, PTL DEF Spec

(***************************************************************************)
(* The message store keeps its promise to the reader: whatever handlers,   *)
(* resets, lost replies and crashes do, a conversation is a sequence of    *)
(* turns, each opened by one request that was never asked before, and      *)
(* closed by one message or none (run_repository.go:24).                   *)
(***************************************************************************)
THEOREM StoreImplementsHistory == Spec => ImplementsHistory
<1>1. Init => History!Init
  BY DEF Init, History!Init, RunningIn
<1>2. IInv /\ SpokenByRuns /\ [Next]_vars => [History!Next]_(History!vars)
  BY StepImplements
<1> QED
  BY <1>1, <1>2, SpokenInvariance, PTL DEF Spec, ImplementsHistory, History!Spec

-----------------------------------------------------------------------------
(***************************************************************************)
(* The open turn's question is the newest message.                         *)
(***************************************************************************)
QuestionIsLast ==
  \A c \in Convs : \A r \in RunningIn(c) :
    /\ Len(messages[c]) > 0
    /\ messages[c][Len(messages[c])] = [role |-> "user", run |-> r]

Conversing == QuestionIsLast /\ History!AnswersFollowQuestions

LEMMA ConversingKept ==
  TypeOK /\ TypeOK' /\ Conversing /\ [History!Next]_(History!vars) => Conversing'
<1> SUFFICES ASSUME TypeOK, TypeOK', Conversing, [History!Next]_(History!vars) PROVE Conversing'
  OBVIOUS
<1> DEFINE turns == [c \in Convs |-> RunningIn(c)]
<1>1. messages \in [Convs -> Seq(Message)]
  BY DEF TypeOK
<1>2. \A c \in Convs : turns[c] = RunningIn(c) /\ turns'[c] = RunningIn(c)'
  OBVIOUS
<1>3. CASE UNCHANGED History!vars
  BY <1>2, <1>3 DEF History!vars, Conversing, QuestionIsLast, History!AnswersFollowQuestions
<1>4. ASSUME NEW c \in Convs, NEW m,
             messages' = [messages EXCEPT ![c] = Append(@, m)],
             m.role = "assistant" => QuestionIsLast /\ m.run \in RunningIn(c)
      PROVE  /\ History!AnswersFollowQuestions'
             /\ messages'[c][Len(messages'[c])] = m /\ Len(messages'[c]) > 0
  <2> DEFINE s == messages[c]
  <2>1. s \in Seq(Message) /\ messages'[c] = Append(s, m)
    BY <1>1, <1>4
  <2>2. m.role = "assistant" => Len(s) > 0 /\ s[Len(s)] = [role |-> "user", run |-> m.run]
    BY <1>4 DEF QuestionIsLast
  <2>3. \A n \in 1 .. Len(s) : s[n].role = "assistant" =>
          n > 1 /\ s[n - 1] = [role |-> "user", run |-> s[n].run]
    BY DEF Conversing, History!AnswersFollowQuestions
  <2> HIDE DEF s
  <2>4. /\ Len(Append(s, m)) = Len(s) + 1 /\ Len(s) \in Nat
        /\ Append(s, m)[Len(s) + 1] = m
        /\ \A n \in 1 .. Len(s) : Append(s, m)[n] = s[n]
    BY <2>1
  <2>5. ASSUME NEW n \in 1 .. Len(messages'[c]), messages'[c][n].role = "assistant"
        PROVE  n > 1 /\ messages'[c][n - 1] = [role |-> "user", run |-> messages'[c][n].run]
    <3>1. CASE n = Len(s) + 1
      <4>1. m.role = "assistant" /\ messages'[c][n] = m
        BY <2>1, <2>4, <2>5, <3>1
      <4>2. Len(s) > 0 /\ n - 1 = Len(s) /\ n > 1
        BY <2>2, <2>4, <3>1, <4>1
      <4>3. messages'[c][n - 1] = s[Len(s)]
        BY <2>1, <2>4, <4>2
      <4> QED
        BY <2>2, <4>1, <4>2, <4>3
    <3>2. CASE n # Len(s) + 1
      <4>1. n \in 1 .. Len(s)
        BY <2>1, <2>4, <3>2
      <4>2. messages'[c][n] = s[n]
        BY <2>1, <2>4, <4>1
      <4>3. n > 1 /\ s[n - 1] = [role |-> "user", run |-> s[n].run]
        BY <2>3, <2>5, <4>1, <4>2
      <4>4. messages'[c][n - 1] = s[n - 1]
        BY <2>1, <2>4, <4>1, <4>3
      <4> QED
        BY <4>2, <4>3, <4>4
    <3> QED
      BY <3>1, <3>2
  <2>6. \A d \in Convs \ {c} : messages'[d] = messages[d]
    BY <1>1, <1>4
  <2>7. ASSUME NEW d \in Convs, NEW n \in 1 .. Len(messages'[d]), messages'[d][n].role = "assistant"
        PROVE  n > 1 /\ messages'[d][n - 1] = [role |-> "user", run |-> messages'[d][n].run]
    <3>1. CASE d = c
      BY <2>5, <2>7, <3>1
    <3>2. CASE d # c
      BY <2>6, <2>7, <3>2 DEF Conversing, History!AnswersFollowQuestions
    <3> QED
      BY <3>1, <3>2
  <2>8. History!AnswersFollowQuestions'
    BY <2>7 DEF History!AnswersFollowQuestions
  <2> QED
    BY <2>1, <2>4, <2>8
<1>5. ASSUME NEW c \in Convs, NEW r \in Requests, History!Ask(c, r) PROVE Conversing'
  <2> DEFINE m == [role |-> "user", run |-> r]
  <2>1. messages' = [messages EXCEPT ![c] = Append(@, m)] /\ m.role # "assistant"
    BY <1>5 DEF History!Ask
  <2>2. turns' = [turns EXCEPT ![c] = {r}]
    BY <1>5 DEF History!Ask
  <2>3. \A d \in Convs : RunningIn(d)' = IF d = c THEN {r} ELSE RunningIn(d)
    BY <1>2, <2>2
  <2>4. \A d \in Convs \ {c} : messages'[d] = messages[d]
    BY <1>1, <2>1
  <2> HIDE DEF turns
  <2>5. /\ History!AnswersFollowQuestions'
        /\ messages'[c][Len(messages'[c])] = m /\ Len(messages'[c]) > 0
    <3> HIDE DEF m
    <3> QED
      BY <1>4, <2>1
  <2>6. ASSUME NEW d \in Convs, NEW q \in RunningIn(d)'
        PROVE  /\ Len(messages'[d]) > 0
               /\ messages'[d][Len(messages'[d])] = [role |-> "user", run |-> q]
    <3>1. CASE d = c
      BY <2>3, <2>5, <2>6, <3>1
    <3>2. CASE d # c
      BY <2>3, <2>4, <2>6, <3>2 DEF Conversing, QuestionIsLast
    <3> QED
      BY <3>1, <3>2
  <2>7. QuestionIsLast'
    BY <2>6 DEF QuestionIsLast
  <2> QED
    BY <2>5, <2>7 DEF Conversing
<1>6. ASSUME NEW c \in Convs, NEW r \in Requests, History!Answer(c, r) PROVE Conversing'
  <2> DEFINE m == [role |-> "assistant", run |-> r]
  <2>1. messages' = [messages EXCEPT ![c] = Append(@, m)] /\ m.run \in RunningIn(c)
    BY <1>2, <1>6 DEF History!Answer
  <2>2. turns' = [turns EXCEPT ![c] = {}]
    BY <1>6 DEF History!Answer
  <2>3. \A d \in Convs : RunningIn(d)' = IF d = c THEN {} ELSE RunningIn(d)
    BY <1>2, <2>2
  <2>4. \A d \in Convs \ {c} : messages'[d] = messages[d]
    BY <1>1, <2>1
  <2> HIDE DEF turns
  <2>5. History!AnswersFollowQuestions'
    <3> HIDE DEF m
    <3> QED
      BY <1>4, <2>1 DEF Conversing
  <2>6. QuestionIsLast'
    <3> SUFFICES ASSUME NEW d \in Convs, NEW q \in RunningIn(d)'
                 PROVE  /\ Len(messages'[d]) > 0
                        /\ messages'[d][Len(messages'[d])] = [role |-> "user", run |-> q]
      BY DEF QuestionIsLast
    <3>1. d # c /\ q \in RunningIn(d)
      BY <2>3
    <3> QED
      BY <2>4, <3>1 DEF Conversing, QuestionIsLast
  <2> QED
    BY <2>5, <2>6 DEF Conversing
<1>7. ASSUME NEW c \in Convs, NEW r \in Requests, History!Abandon(c, r) PROVE Conversing'
  <2>1. turns' = [turns EXCEPT ![c] = {}] /\ messages' = messages
    BY <1>7 DEF History!Abandon
  <2>2. \A d \in Convs : RunningIn(d)' \subseteq RunningIn(d)
    BY <1>2, <2>1
  <2> HIDE DEF turns
  <2> QED
    BY <2>1, <2>2 DEF Conversing, QuestionIsLast, History!AnswersFollowQuestions
<1> QED
  BY <1>3, <1>5, <1>6, <1>7 DEF History!Next

(***************************************************************************)
(* Every assistant message, an answer or a question, directly follows the  *)
(* user message of its own run: no run answers another's question, however *)
(* runs, retries and failures interleave (interaction_repository.go:131).  *)
(***************************************************************************)
THEOREM MessagesFollowTheirQuestion == Spec => []History!AnswersFollowQuestions
<1>1. Init => Conversing
  BY DEF Init, Conversing, QuestionIsLast, RunningIn, History!AnswersFollowQuestions
<1>2. IInv => TypeOK
  BY DEF IInv
<1>3. IInv /\ SpokenByRuns /\ [Next]_vars => [History!Next]_(History!vars)
  BY StepImplements
<1>4. Conversing => History!AnswersFollowQuestions
  BY DEF Conversing
<1> QED
  BY <1>1, <1>2, <1>3, <1>4, ConversingKept, SpokenInvariance, PTL DEF Spec
=============================================================================
