--------------------------- MODULE WorkbenchProofs ---------------------------
(***************************************************************************)
(* The safety properties of Workbench, for every value of its constants.   *)
(* Each step is shown to keep three things: the invariant of the handlers  *)
(* that do not move, the invariant of the one that does, and the relations *)
(* between the rows.                                                       *)
(***************************************************************************)
EXTENDS WorkbenchTypeProofs

LEMMA InitInv == Init => IInv
<1> SUFFICES ASSUME Init PROVE IInv
  OBVIOUS
<1>1. TypeOK
  BY InitTypeOK
<1>2. StoreInv
  BY DEF Init, StoreInv, RowsOfRequest, OneRunningRun, OneActiveInteraction, OneOpenClarification,
         OpenAsksForInteraction, OpenClarificationIsCurrent, AwaitingHasOpenClarification,
         ProgressIsInActiveConversation, ResetSeesRuns, ActiveInteraction
<1>3. ASSUME NEW r \in Requests PROVE HandlerInv(r)
  BY DEF Init, HandlerInv, UnsentHasNoRun, WorkingRunIsRunning, FailingHasVerdict, HoldsInteraction,
         NothingAskedMeanwhile, ReadIsFresh, QuestionIsOpen, SupersedesTheActiveOne, CreatesWhenIdle,
         Working, ContextCalls, Holding, Resumed
<1> QED
  BY <1>1, <1>2, <1>3 DEF IInv

-----------------------------------------------------------------------------
(***************************************************************************)
(* The handlers that do not move.                                          *)
(***************************************************************************)
Still(q) ==
  /\ pc'[q] = pc[q]
  /\ copy'[q] = copy[q]
  /\ reply'[q] = reply[q]
  /\ verdict'[q] = verdict[q]
  /\ run'[q] = run[q]

(***************************************************************************)
(* A step of a working handler that writes only to interactions of its own *)
(* conversation does not disturb any other handler: one that works has     *)
(* another conversation.                                                   *)
(***************************************************************************)
LEMMA OthersKeepInv ==
  ASSUME IInv, NEW r \in Requests, NEW q \in Requests, r # q, pc[r] \in Working, Still(q),
         UNCHANGED runConv,
         \A i \in Requests : runConv[i] # runConv[r] =>
           interaction'[i] = interaction[i] /\ version'[i] = version[i] /\ OpenFor(i)' = OpenFor(i)
  PROVE  HandlerInv(q)'
<1> USE DEF IInv
<1>1. HandlerInv(q) /\ HandlerInv(r)
  OBVIOUS
<1>2. CASE pc[q] \in Working
  <2>1. runConv[q] # runConv[r]
    BY <1>1, <1>2 DEF StoreInv, OneRunningRun, HandlerInv, WorkingRunIsRunning
  <2>2. ActiveIn(runConv[q])' = ActiveIn(runConv[q])
    BY <2>1 DEF ActiveIn
  <2>3. Holding \subseteq Working
    BY DEF Holding, Resumed, Working, ContextCalls
  <2>4. pc[q] \in Holding => /\ copy[q].id \in Requests
                            /\ runConv[copy[q].id] # runConv[r]
    BY <1>1, <2>1 DEF HandlerInv, HoldsInteraction
  <2>5. UnsentHasNoRun(q)' /\ WorkingRunIsRunning(q)' /\ FailingHasVerdict(q)'
    BY <1>1 DEF HandlerInv, UnsentHasNoRun, WorkingRunIsRunning, FailingHasVerdict, Still
  <2>6. HoldsInteraction(q)'
    BY <1>1, <2>4 DEF HandlerInv, HoldsInteraction, Still
  <2>7. NothingAskedMeanwhile(q)'
    BY <1>1, <2>4 DEF HandlerInv, NothingAskedMeanwhile, Still, Holding
  <2>8. ReadIsFresh(q)'
    BY <1>1, <2>4 DEF HandlerInv, ReadIsFresh, Still, Holding
  <2>9. QuestionIsOpen(q)'
    BY <1>1, <2>4 DEF HandlerInv, QuestionIsOpen, Still, Holding
  <2>10. SupersedesTheActiveOne(q)' /\ CreatesWhenIdle(q)'
    BY <1>1, <2>2 DEF HandlerInv, SupersedesTheActiveOne, CreatesWhenIdle, Still
  <2> QED
    BY <2>5, <2>6, <2>7, <2>8, <2>9, <2>10 DEF HandlerInv
<1>3. CASE pc[q] \notin Working
  <2>1. UnsentHasNoRun(q)' /\ FailingHasVerdict(q)'
    BY <1>1 DEF HandlerInv, UnsentHasNoRun, FailingHasVerdict, Still
  <2> QED
    BY <1>3, <2>1 DEF HandlerInv, WorkingRunIsRunning, HoldsInteraction, NothingAskedMeanwhile,
       ReadIsFresh, QuestionIsOpen, SupersedesTheActiveOne, CreatesWhenIdle, Still, Working,
       ContextCalls, Holding, Resumed
<1> QED
  BY <1>2, <1>3

(***************************************************************************)
(* A handler that has given up or ended relies on nothing.                 *)
(***************************************************************************)
LEMMA EndedInv ==
  ASSUME NEW r \in Requests, run'[r] # "absent",
         \/ pc'[r] \in Ended
         \/ pc'[r] = "failing" /\ verdict'[r] # "none"
  PROVE  HandlerInv(r)'
BY DEF Ended, HandlerInv, UnsentHasNoRun, WorkingRunIsRunning, FailingHasVerdict, HoldsInteraction,
       NothingAskedMeanwhile, ReadIsFresh, QuestionIsOpen, SupersedesTheActiveOne, CreatesWhenIdle,
       Working, ContextCalls, Holding, Resumed

(***************************************************************************)
(* How the reply of a call moves the handlers.                             *)
(***************************************************************************)
LEMMA ReturnsErrorOutcome ==
  ASSUME TypeOK, NEW r \in Requests, ReturnsError(r)
  PROVE  /\ pc'[r] \in {"failing", "leftOpen"} /\ verdict'[r] = "failed"
         /\ \A q \in Requests \ {r} :
              pc'[q] = pc[q] /\ copy'[q] = copy[q] /\ verdict'[q] = verdict[q]
BY DEF TypeOK, ReturnsError

LEMMA AcknowledgedOutcome ==
  ASSUME TypeOK, NEW r \in Requests, NEW next, NEW held, Acknowledged(r, next, held)
  PROVE  /\ \/ pc'[r] = next /\ copy'[r] = held
            \/ pc'[r] \in {"failing", "leftOpen"} /\ verdict'[r] = "failed"
         /\ \A q \in Requests \ {r} :
              pc'[q] = pc[q] /\ copy'[q] = copy[q] /\ verdict'[q] = verdict[q]
<1>1. CASE Goto(r, next, held) /\ UNCHANGED <<verdict, faults>>
  BY <1>1 DEF TypeOK, Goto
<1>2. CASE ReturnsError(r)
  BY <1>2, ReturnsErrorOutcome
<1> QED
  BY <1>1, <1>2 DEF Acknowledged

-----------------------------------------------------------------------------
(***************************************************************************)
(* The steps that touch no row.                                            *)
(***************************************************************************)
LEMMA SameStoreInv ==
  ASSUME StoreInv, UNCHANGED <<store, resetting>>
  PROVE  StoreInv'
BY DEF StoreInv, RowsOfRequest, OneRunningRun, OneActiveInteraction, OneOpenClarification,
       OpenAsksForInteraction, OpenClarificationIsCurrent, AwaitingHasOpenClarification,
       ProgressIsInActiveConversation, ResetSeesRuns, OpenFor, store, conversations, runs,
       interactions, clarifications

LEMMA SameStoreOthers ==
  ASSUME IInv, NEW q \in Requests, Still(q), UNCHANGED store
  PROVE  HandlerInv(q)'
BY DEF IInv, HandlerInv, UnsentHasNoRun, WorkingRunIsRunning, FailingHasVerdict, HoldsInteraction,
       NothingAskedMeanwhile, ReadIsFresh, QuestionIsOpen, SupersedesTheActiveOne, CreatesWhenIdle,
       OpenFor, ActiveIn, Still, store, conversations, runs, interactions, clarifications

LEMMA LocalStep ==
  ASSUME IInv, NEW r \in Requests, UNCHANGED <<store, resetting, reply>>, HandlerInv(r)',
         \A q \in Requests \ {r} : pc'[q] = pc[q] /\ copy'[q] = copy[q] /\ verdict'[q] = verdict[q]
  PROVE  StoreInv' /\ \A q \in Requests : HandlerInv(q)'
<1>1. StoreInv'
  BY SameStoreInv DEF IInv
<1>2. ASSUME NEW q \in Requests \ {r} PROVE HandlerInv(q)'
  <2>1. Still(q)
    BY DEF Still, store, runs
  <2> QED
    BY <2>1, SameStoreOthers
<1> QED
  BY <1>1, <1>2

LEMMA CallFailsInv ==
  ASSUME IInv, NEW r \in Requests, CallFails(r) \/ Refused(r) \/ FailIsLost(r)
  PROVE  StoreInv' /\ \A q \in Requests : HandlerInv(q)'
<1> USE DEF IInv
<1>1. pc[r] # "unsent" /\ UNCHANGED <<store, resetting, reply>>
  BY DEF CallFails, Refused, FailIsLost, ContextCalls, transactions
<1>2. /\ \/ pc'[r] \in Ended
         \/ pc'[r] = "failing" /\ verdict'[r] # "none"
      /\ \A q \in Requests \ {r} : pc'[q] = pc[q] /\ copy'[q] = copy[q] /\ verdict'[q] = verdict[q]
  <2>1. CASE FailIsLost(r)
    BY <2>1 DEF FailIsLost, Goto, Ended, TypeOK
  <2>2. CASE ReturnsError(r)
    BY <2>2, ReturnsErrorOutcome DEF Ended
  <2> QED
    BY <2>1, <2>2 DEF CallFails, Refused
<1>3. run'[r] # "absent"
  BY <1>1 DEF HandlerInv, UnsentHasNoRun, store, runs
<1>4. HandlerInv(r)'
  BY <1>2, <1>3, EndedInv
<1> QED
  BY <1>1, <1>2, <1>4, LocalStep

LEMMA ReadInv ==
  ASSUME IInv, NEW r \in Requests, GetActiveInteraction(r) \/ GetInteraction(r)
  PROVE  StoreInv' /\ \A q \in Requests : HandlerInv(q)'
<1> USE DEF IInv
<1>1. /\ HandlerInv(r) /\ run[r] = "running"
      /\ UNCHANGED <<store, resetting, reply>>
  BY DEF HandlerInv, WorkingRunIsRunning, Working, ContextCalls, GetActiveInteraction, GetInteraction,
         transactions
<1>2. /\ ActiveIn(runConv[r])' = ActiveIn(runConv[r])
      /\ run'[r] = "running" /\ runConv' = runConv /\ interaction' = interaction /\ version' = version
  BY <1>1 DEF ActiveIn, store, runs, interactions
<1>3. CASE GetActiveInteraction(r) /\ ActiveIn(runConv[r]) = {} /\ Goto(r, "creating", NoCopy)
  <2>1. /\ pc'[r] = "creating"
        /\ \A q \in Requests \ {r} : pc'[q] = pc[q] /\ copy'[q] = copy[q] /\ verdict'[q] = verdict[q]
    BY <1>3 DEF Goto, GetActiveInteraction, TypeOK
  <2>2. HandlerInv(r)'
    BY <1>2, <1>3, <2>1 DEF HandlerInv, UnsentHasNoRun, WorkingRunIsRunning, FailingHasVerdict,
       HoldsInteraction, NothingAskedMeanwhile, ReadIsFresh, QuestionIsOpen, SupersedesTheActiveOne,
       CreatesWhenIdle, Holding, Resumed
  <2> QED
    BY <1>1, <2>1, <2>2, LocalStep
<1>4. ASSUME GetActiveInteraction(r), NEW i \in ActiveIn(runConv[r]),
             Goto(r, "superseding", [id |-> i, status |-> interaction[i], version |-> version[i]])
      PROVE  StoreInv' /\ \A q \in Requests : HandlerInv(q)'
  <2>1. /\ pc'[r] = "superseding" /\ copy'[r].id = i
        /\ \A q \in Requests \ {r} : pc'[q] = pc[q] /\ copy'[q] = copy[q] /\ verdict'[q] = verdict[q]
    BY <1>4 DEF Goto, GetActiveInteraction, TypeOK
  <2>2. /\ i \in Requests /\ interaction[i] # "absent" /\ runConv[i] = runConv[r]
        /\ ActiveIn(runConv[r]) \subseteq {i}
    BY <1>4 DEF ActiveIn, StoreInv, OneActiveInteraction, ActiveInteraction
  <2>3. HandlerInv(r)'
    BY <1>2, <2>1, <2>2 DEF HandlerInv, UnsentHasNoRun, WorkingRunIsRunning, FailingHasVerdict,
       HoldsInteraction, NothingAskedMeanwhile, ReadIsFresh, QuestionIsOpen, SupersedesTheActiveOne,
       CreatesWhenIdle, Holding, Resumed
  <2> QED
    BY <1>1, <2>1, <2>3, LocalStep
<1>5. CASE GetInteraction(r)
  <2> DEFINE i == reply[r].interaction
  <2>1. /\ pc'[r] = "getClarification" /\ copy'[r].id = i /\ copy'[r].version = version[i]
        /\ \A q \in Requests \ {r} : pc'[q] = pc[q] /\ copy'[q] = copy[q] /\ verdict'[q] = verdict[q]
    BY <1>5 DEF Goto, GetInteraction, TypeOK
  <2>2. i \in Requests /\ interaction[i] # "absent" /\ runConv[i] = runConv[r]
    BY <1>5 DEF GetInteraction, Applies, TypeOK, Reply
  <2>3. HandlerInv(r)'
    BY <1>2, <2>1, <2>2 DEF HandlerInv, UnsentHasNoRun, WorkingRunIsRunning, FailingHasVerdict,
       HoldsInteraction, NothingAskedMeanwhile, ReadIsFresh, QuestionIsOpen, SupersedesTheActiveOne,
       CreatesWhenIdle, Holding, Resumed
  <2> QED
    BY <1>1, <2>1, <2>3, LocalStep
<1> QED
  BY <1>3, <1>4, <1>5 DEF GetActiveInteraction

LEMMA GoOnInv ==
  ASSUME IInv, NEW r \in Requests,
         \/ GetOpenClarification(r) \/ Classify(r) \/ EmitStarted(r)
         \/ Prepare(r) \/ Generate(r) \/ EmitDeltas(r)
  PROVE  StoreInv' /\ \A q \in Requests : HandlerInv(q)'
<1> USE DEF IInv
<1>1. /\ HandlerInv(r) /\ run[r] = "running"
      /\ UNCHANGED <<store, resetting, reply>>
  BY DEF HandlerInv, WorkingRunIsRunning, Working, ContextCalls, GetOpenClarification, Classify,
         EmitStarted, Prepare, Generate, EmitDeltas, transactions
<1>2. /\ ActiveIn(runConv[r])' = ActiveIn(runConv[r])
      /\ \A i \in Requests : OpenFor(i)' = OpenFor(i)
      /\ reply' = reply
      /\ run'[r] = "running" /\ runConv' = runConv /\ interaction' = interaction /\ version' = version
  BY <1>1 DEF ActiveIn, OpenFor, store, runs, interactions, clarifications
<1>3. CASE ReturnsError(r) \/ \E v \in {"failed", "cancelled"} : GivesUp(r, v)
  <2>1. /\ pc'[r] \in {"failing", "leftOpen"} /\ verdict'[r] # "none"
        /\ \A q \in Requests \ {r} : pc'[q] = pc[q] /\ copy'[q] = copy[q] /\ verdict'[q] = verdict[q]
    BY <1>3, ReturnsErrorOutcome DEF GivesUp, TypeOK
  <2>2. HandlerInv(r)'
    BY <1>2, <2>1, EndedInv DEF Ended
  <2> QED
    BY <1>1, <2>1, <2>2, LocalStep
<1>4. CASE \/ GetOpenClarification(r) /\ Continues(r, "classifying")
           \/ Classify(r) /\ \E next \in {"answering", "cancelling", "superseding"} : Continues(r, next)
           \/ pc[r] \in Resumed /\ \E next \in Resumed : Continues(r, next)
  <2>1. /\ copy' = copy /\ verdict' = verdict
        /\ \A q \in Requests \ {r} : pc'[q] = pc[q]
    BY <1>4 DEF Continues, TypeOK
  <2> USE DEF UnsentHasNoRun, WorkingRunIsRunning, FailingHasVerdict, HoldsInteraction,
              NothingAskedMeanwhile, ReadIsFresh, QuestionIsOpen, SupersedesTheActiveOne,
              CreatesWhenIdle, Holding, Resumed
  <2>2. CASE GetOpenClarification(r) /\ Continues(r, "classifying")
    <3>1. pc[r] = "getClarification" /\ pc'[r] = "classifying"
      BY <2>2 DEF Continues, GetOpenClarification, TypeOK
    <3>2. reply[r].clarification \in OpenFor(copy[r].id)
      BY <2>2, <3>1 DEF GetOpenClarification, Applies, OpenIn, OpenFor
    <3>3. HandlerInv(r)'
      BY <1>1, <1>2, <2>1, <3>1, <3>2 DEF HandlerInv
    <3> QED
      BY <1>1, <2>1, <3>3, LocalStep
  <2>3. CASE Classify(r) /\ \E next \in {"answering", "cancelling", "superseding"} : Continues(r, next)
    <3>1. pc[r] = "classifying" /\ pc'[r] \in {"answering", "cancelling", "superseding"}
      BY <2>3 DEF Continues, Classify, TypeOK
    <3>2. /\ reply[r].clarification \in OpenFor(copy[r].id)
          /\ version[copy[r].id] = copy[r].version
          /\ copy[r].id \in Requests /\ runConv[copy[r].id] = runConv[r]
      BY <1>1, <3>1 DEF HandlerInv
    <3>3. interaction[copy[r].id] = "awaiting_clarification"
      BY <3>2 DEF OpenFor, StoreInv, OpenClarificationIsCurrent
    <3>4. ActiveIn(runConv[r]) \subseteq {copy[r].id}
      BY <3>2, <3>3 DEF StoreInv, OneActiveInteraction, ActiveIn, ActiveInteraction
    <3>5. HandlerInv(r)'
      BY <1>1, <1>2, <2>1, <3>1, <3>2, <3>4 DEF HandlerInv
    <3> QED
      BY <1>1, <2>1, <3>5, LocalStep
  <2>4. CASE pc[r] \in Resumed /\ \E next \in Resumed : Continues(r, next)
    <3>1. pc[r] \in Resumed /\ pc'[r] \in Resumed
      BY <2>4 DEF Continues, TypeOK
    <3>2. HandlerInv(r)'
      BY <1>1, <1>2, <2>1, <3>1 DEF HandlerInv
    <3> QED
      BY <1>1, <2>1, <3>2, LocalStep
  <2> QED
    BY <1>4, <2>2, <2>3, <2>4
<1> QED
  BY <1>3, <1>4 DEF GetOpenClarification, Classify, EmitStarted, Prepare, Generate, EmitDeltas, Resumed

-----------------------------------------------------------------------------
(***************************************************************************)
(* The steps that write, one lemma per operation.                          *)
(***************************************************************************)
LEMMA MoverFacts ==
  ASSUME IInv, NEW r \in Requests, pc[r] \in Working
  PROVE  /\ run[r] = "running"
         /\ runConv[r] \in Convs
         /\ conv[runConv[r]] = "active"
         /\ \A c \in Convs : RunningIn(c) \subseteq Requests
BY DEF IInv, TypeOK, StoreInv, RowsOfRequest, ProgressIsInActiveConversation, HandlerInv,
       WorkingRunIsRunning, RunningIn

(***************************************************************************)
(* The last write of a run: the run ends, and with it the handler.         *)
(***************************************************************************)
LEMMA LastWrite ==
  ASSUME IInv, NEW r \in Requests, pc[r] \in Working, NEW st, st # "absent",
         run' = [run EXCEPT ![r] = st], Acknowledged(r, "returned", NoCopy), reply' = reply
  PROVE  /\ HandlerInv(r)'
         /\ \A q \in Requests \ {r} : Still(q)
<1>1. TypeOK
  BY DEF IInv
<1>2. run'[r] # "absent" /\ \A q \in Requests \ {r} : run'[q] = run[q]
  BY <1>1 DEF TypeOK
<1>3. /\ pc'[r] = "returned" \/ (pc'[r] \in {"failing", "leftOpen"} /\ verdict'[r] = "failed")
      /\ \A q \in Requests \ {r} : pc'[q] = pc[q] /\ copy'[q] = copy[q] /\ verdict'[q] = verdict[q]
  BY <1>1, AcknowledgedOutcome
<1>4. HandlerInv(r)'
  BY <1>2, <1>3, EndedInv DEF Ended
<1> QED
  BY <1>2, <1>3, <1>4 DEF Still

LEMMA CompleteRunInv ==
  ASSUME IInv, NEW r \in Requests, CompleteRun(r)
  PROVE  StoreInv' /\ \A q \in Requests : HandlerInv(q)'
<1> USE DEF IInv
<1>1. pc[r] \in Working /\ UNCHANGED <<conv, runConv, interactions, clarifications, reply, resetting>>
  BY DEF CompleteRun, Working, ContextCalls, conversations, transactions
<1>2. HandlerInv(r)' /\ \A q \in Requests \ {r} : Still(q)
  BY <1>1, LastWrite DEF CompleteRun
<1>3. ASSUME NEW q \in Requests \ {r} PROVE HandlerInv(q)'
  BY <1>1, <1>2, <1>3, OthersKeepInv DEF interactions, clarifications, OpenFor
<1>4. run' = [run EXCEPT ![r] = "completed"] /\ run[r] = "running"
  BY <1>1, MoverFacts DEF CompleteRun
<1>5. StoreInv'
  BY <1>1, <1>4 DEF StoreInv, RowsOfRequest, OneRunningRun, OneActiveInteraction,
     OneOpenClarification, OpenAsksForInteraction, OpenClarificationIsCurrent,
     AwaitingHasOpenClarification, ProgressIsInActiveConversation, ResetSeesRuns, OpenFor,
     interactions, clarifications, TypeOK
<1> QED
  BY <1>2, <1>3, <1>5

LEMMA CompleteInteractionRunInv ==
  ASSUME IInv, NEW r \in Requests, CompleteInteractionRun(r)
  PROVE  StoreInv' /\ \A q \in Requests : HandlerInv(q)'
<1> USE DEF IInv
<1> DEFINE i == copy[r].id
<1>1. pc[r] = "completing" /\ pc[r] \in Working
      /\ UNCHANGED <<conv, runConv, version, clarifications, reply, resetting>>
  BY DEF CompleteInteractionRun, Working, ContextCalls, conversations, transactions
<1>2. HandlerInv(r)' /\ \A q \in Requests \ {r} : Still(q)
  BY <1>1, LastWrite DEF CompleteInteractionRun
<1>3. /\ i \in Requests /\ runConv[i] = runConv[r] /\ interaction[i] # "absent"
      /\ OpenFor(i) = {}
  BY <1>1 DEF HandlerInv, HoldsInteraction, NothingAskedMeanwhile, Holding, Resumed
<1>4. /\ interaction' = [interaction EXCEPT ![i] = "completed"]
      /\ run' = [run EXCEPT ![r] = "completed"] /\ run[r] = "running"
  BY <1>1, MoverFacts DEF CompleteInteractionRun
<1>5. ASSUME NEW q \in Requests \ {r} PROVE HandlerInv(q)'
  <2>1. \A j \in Requests : runConv[j] # runConv[r] =>
          interaction'[j] = interaction[j] /\ version'[j] = version[j] /\ OpenFor(j)' = OpenFor(j)
    BY <1>1, <1>3, <1>4 DEF clarifications, OpenFor, TypeOK
  <2> QED
    BY <1>1, <1>2, <2>1, OthersKeepInv
<1>6. StoreInv'
  <2>1. \A j \in Requests : OpenFor(j)' = OpenFor(j)
    BY <1>1 DEF clarifications, OpenFor
  <2>2. \A k \in Requests : clarification[k] = "open" => asksFor[k] # i /\ k # r
    BY <1>3, <1>4 DEF OpenFor, StoreInv, OpenClarificationIsCurrent
  <2> QED
    BY <1>1, <1>3, <1>4, <2>1, <2>2 DEF StoreInv, RowsOfRequest, OneRunningRun, OneActiveInteraction,
       OneOpenClarification, OpenAsksForInteraction, OpenClarificationIsCurrent,
       AwaitingHasOpenClarification, ProgressIsInActiveConversation, ResetSeesRuns,
       clarifications, TypeOK, ActiveInteraction
<1> QED
  BY <1>2, <1>5, <1>6

LEMMA AttachRunInteractionInv ==
  ASSUME IInv, NEW r \in Requests, AttachRunInteraction(r)
  PROVE  StoreInv' /\ \A q \in Requests : HandlerInv(q)'
<1> USE DEF IInv
<1>1. /\ pc[r] = "attaching" /\ pc[r] \in Working /\ run[r] = "running"
      /\ UNCHANGED <<conversations, run, runConv, interactions, clarifications, reply, resetting>>
  BY MoverFacts DEF AttachRunInteraction, Working, ContextCalls, transactions
<1>2. /\ \/ pc'[r] = "starting" /\ copy'[r] = copy[r]
         \/ pc'[r] \in {"failing", "leftOpen"} /\ verdict'[r] = "failed"
      /\ \A q \in Requests \ {r} : Still(q)
  BY <1>1, AcknowledgedOutcome DEF AttachRunInteraction, Still
<1>3. \A j \in Requests : OpenFor(j)' = OpenFor(j)
  BY <1>1 DEF clarifications, OpenFor
<1>4. ASSUME NEW q \in Requests \ {r} PROVE HandlerInv(q)'
  BY <1>1, <1>2, <1>3, OthersKeepInv DEF interactions
<1>5. HandlerInv(r)'
  <2>1. CASE pc'[r] = "starting" /\ copy'[r] = copy[r]
    BY <1>1, <1>3, <2>1 DEF HandlerInv, UnsentHasNoRun, WorkingRunIsRunning, FailingHasVerdict,
       HoldsInteraction, NothingAskedMeanwhile, ReadIsFresh, QuestionIsOpen, SupersedesTheActiveOne,
       CreatesWhenIdle, Holding, Resumed, interactions
  <2>2. CASE pc'[r] \in {"failing", "leftOpen"} /\ verdict'[r] = "failed"
    BY <1>1, <2>2, EndedInv DEF Ended
  <2> QED
    BY <1>2, <2>1, <2>2
<1>6. StoreInv'
  BY <1>1, <1>3 DEF StoreInv, RowsOfRequest, OneRunningRun, OneActiveInteraction,
     OneOpenClarification, OpenAsksForInteraction, OpenClarificationIsCurrent,
     AwaitingHasOpenClarification, ProgressIsInActiveConversation, ResetSeesRuns,
     conversations, interactions, clarifications
<1> QED
  BY <1>4, <1>5, <1>6

(***************************************************************************)
(* What SaveInteraction, ApplyClarification and CreateInteraction have in  *)
(* common: the mover's interaction takes an active status while it is the  *)
(* only active one of its conversation, and then no question is open.      *)
(***************************************************************************)
LEMMA SaveInteractionInv ==
  ASSUME IInv, NEW r \in Requests, SaveInteraction(r)
  PROVE  StoreInv' /\ \A q \in Requests : HandlerInv(q)'
<1> USE DEF IInv
<1> DEFINE i == copy[r].id
           status == IF pc[r] = "savingGenerating" THEN "generating" ELSE "ready"
           next == CASE pc[r] = "savingReady"       -> "savingGenerating"
                     [] pc[r] = "savingGenerating"  -> "generating"
                     [] pc[r] = "savingUnsupported" -> "streaming"
           held == [id |-> i, status |-> status, version |-> copy[r].version + 1]
<1>1. /\ pc[r] \in {"savingReady", "savingUnsupported", "savingGenerating"}
      /\ pc[r] \in Working
      /\ UNCHANGED <<conversations, runs, clarifications, reply, resetting>>
      /\ interaction' = [interaction EXCEPT ![i] = status]
      /\ version' = [version EXCEPT ![i] = @ + 1]
      /\ Acknowledged(r, next, held)
      /\ MayActivate(i)
  BY DEF SaveInteraction, Working, ContextCalls, transactions, Applies
<1>2. /\ i \in Requests /\ runConv[i] = runConv[r] /\ interaction[i] # "absent"
      /\ OpenFor(i) = {} /\ run[r] = "running" /\ conv[runConv[r]] = "active"
  BY <1>1, MoverFacts DEF HandlerInv, HoldsInteraction, NothingAskedMeanwhile, Holding, Resumed
<1>3. /\ \/ pc'[r] = next /\ copy'[r] = held
         \/ pc'[r] \in {"failing", "leftOpen"} /\ verdict'[r] = "failed"
      /\ \A q \in Requests \ {r} : pc'[q] = pc[q] /\ copy'[q] = copy[q] /\ verdict'[q] = verdict[q]
  <2> HIDE DEF next, held
  <2> QED BY <1>1, AcknowledgedOutcome
<1>4. \A j \in Requests : OpenFor(j)' = OpenFor(j)
  BY <1>1 DEF clarifications, OpenFor
<1>5. ASSUME NEW q \in Requests \ {r} PROVE HandlerInv(q)'
  <2>1. \A j \in Requests : runConv[j] # runConv[r] =>
          interaction'[j] = interaction[j] /\ version'[j] = version[j]
    BY <1>1, <1>2 DEF TypeOK
  <2>2. Still(q)
    BY <1>1, <1>3 DEF Still, runs
  <2> QED
    BY <1>1, <1>4, <2>1, <2>2, OthersKeepInv DEF runs
<1>6. HandlerInv(r)'
  <2>1. CASE pc'[r] = next /\ copy'[r] = held
    <3>1. pc'[r] \in {"savingGenerating", "generating", "streaming"} /\ copy'[r].id = i
      BY <1>1, <2>1
    <3>2. interaction'[i] # "absent" /\ UNCHANGED <<run, runConv>>
      BY <1>1, <1>2 DEF TypeOK, runs
    <3> QED
      BY <1>2, <1>4, <3>1, <3>2 DEF HandlerInv, UnsentHasNoRun, WorkingRunIsRunning, FailingHasVerdict,
         HoldsInteraction, NothingAskedMeanwhile, ReadIsFresh, QuestionIsOpen,
         SupersedesTheActiveOne, CreatesWhenIdle, Holding, Resumed
  <2>2. CASE pc'[r] \in {"failing", "leftOpen"} /\ verdict'[r] = "failed"
    BY <1>1, <1>2, <2>2, EndedInv DEF Ended, runs
  <2> QED
    BY <1>3, <2>1, <2>2
<1>7. StoreInv'
  <2>1. \A k \in Requests : clarification[k] = "open" => asksFor[k] # i
    BY <1>2 DEF OpenFor
  <2>2. status \in ActiveInteraction /\ status # "awaiting_clarification"
    BY DEF ActiveInteraction
  <2>3. \A j \in Requests : interaction'[j] = (IF j = i THEN status ELSE interaction[j])
                         /\ (j # i => version'[j] = version[j])
    BY <1>1, <1>2 DEF TypeOK
  <2>4. \A j \in Requests : interaction[j] \in ActiveInteraction /\ runConv[j] = runConv[i] => j = i
    BY <1>1 DEF MayActivate, ActiveIn
  <2> HIDE DEF status
  <2>5. UNCHANGED <<conv, run, runConv, resetting, clarification, asksFor, askedAt>>
    BY <1>1 DEF conversations, runs, clarifications
  <2>6. RowsOfRequest' /\ OneOpenClarification' /\ OpenAsksForInteraction' /\ ResetSeesRuns'
    BY <1>2, <2>3, <2>5 DEF StoreInv, RowsOfRequest, OneOpenClarification, OpenAsksForInteraction,
       ResetSeesRuns
  <2>7. OneRunningRun'
    BY <2>5 DEF StoreInv, OneRunningRun
  <2>8. OneActiveInteraction'
    BY <1>2, <2>3, <2>4, <2>5 DEF StoreInv, OneActiveInteraction
  <2>9. OpenClarificationIsCurrent' /\ AwaitingHasOpenClarification'
    BY <1>4, <2>1, <2>2, <2>3, <2>5 DEF StoreInv, OpenClarificationIsCurrent,
       AwaitingHasOpenClarification, OpenAsksForInteraction
  <2>10. ProgressIsInActiveConversation'
    BY <1>2, <2>3, <2>5 DEF StoreInv, ProgressIsInActiveConversation
  <2> QED
    BY <2>6, <2>7, <2>8, <2>9, <2>10 DEF StoreInv
<1> QED
  BY <1>5, <1>6, <1>7

LEMMA CreateInteractionInv ==
  ASSUME IInv, NEW r \in Requests, CreateInteraction(r)
  PROVE  StoreInv' /\ \A q \in Requests : HandlerInv(q)'
<1> USE DEF IInv
<1> DEFINE held == [id |-> r, status |-> "planning", version |-> 1]
<1>1. /\ pc[r] \in Working
      /\ UNCHANGED <<conv, run, runConv, clarification, asksFor, askedAt, reply, resetting>>
      /\ interaction' = [interaction EXCEPT ![r] = "planning"]
      /\ version' = [version EXCEPT ![r] = 1]
      /\ Acknowledged(r, "starting", held)
      /\ run[r] = "running" /\ ActiveIn(runConv[r]) = {}
  BY DEF CreateInteraction, Working, ContextCalls, transactions, Applies, conversations, clarifications
<1>2. conv[runConv[r]] = "active"
  BY <1>1, MoverFacts
<1>3. /\ \/ pc'[r] = "starting" /\ copy'[r] = held
         \/ pc'[r] \in {"failing", "leftOpen"} /\ verdict'[r] = "failed"
      /\ \A q \in Requests \ {r} : pc'[q] = pc[q] /\ copy'[q] = copy[q] /\ verdict'[q] = verdict[q]
  <2> HIDE DEF held
  <2> QED BY <1>1, AcknowledgedOutcome
<1>4. \A j \in Requests : OpenFor(j)' = OpenFor(j)
  BY <1>1 DEF OpenFor
<1>5. \A j \in Requests : /\ interaction'[j] = (IF j = r THEN "planning" ELSE interaction[j])
                          /\ j # r => version'[j] = version[j]
  BY <1>1 DEF TypeOK
<1>6. \A j \in Requests : interaction[j] \in ActiveInteraction => runConv[j] # runConv[r]
  BY <1>1 DEF ActiveIn
<1>7. interaction[r] # "awaiting_clarification" /\ OpenFor(r) = {}
  BY <1>6 DEF ActiveInteraction, OpenFor, StoreInv, OpenClarificationIsCurrent
<1>8. ASSUME NEW q \in Requests \ {r} PROVE HandlerInv(q)'
  <2>1. Still(q)
    BY <1>1, <1>3 DEF Still
  <2> QED
    BY <1>1, <1>4, <1>5, <2>1, OthersKeepInv
<1>9. HandlerInv(r)'
  <2>1. CASE pc'[r] = "starting" /\ copy'[r] = held
    BY <1>1, <1>4, <1>5, <1>7, <2>1 DEF HandlerInv, UnsentHasNoRun, WorkingRunIsRunning,
       FailingHasVerdict, HoldsInteraction, NothingAskedMeanwhile, ReadIsFresh, QuestionIsOpen,
       SupersedesTheActiveOne, CreatesWhenIdle, Holding, Resumed
  <2>2. CASE pc'[r] \in {"failing", "leftOpen"} /\ verdict'[r] = "failed"
    BY <1>1, <2>2, EndedInv DEF Ended
  <2> QED
    BY <1>3, <2>1, <2>2
<1>10. StoreInv'
  <2>1. \A k \in Requests : clarification[k] = "open" => asksFor[k] # r
    BY <1>7 DEF OpenFor
  <2>2. RowsOfRequest' /\ OneOpenClarification' /\ OpenAsksForInteraction' /\ ResetSeesRuns'
    BY <1>1, <1>5 DEF StoreInv, RowsOfRequest, OneOpenClarification, OpenAsksForInteraction,
       ResetSeesRuns
  <2>3. OneRunningRun'
    BY <1>1 DEF StoreInv, OneRunningRun
  <2>4. OneActiveInteraction'
    BY <1>1, <1>5, <1>6 DEF StoreInv, OneActiveInteraction
  <2>5. OpenClarificationIsCurrent' /\ AwaitingHasOpenClarification'
    BY <1>1, <1>4, <1>5, <2>1 DEF StoreInv, OpenClarificationIsCurrent,
       AwaitingHasOpenClarification, OpenAsksForInteraction
  <2>6. ProgressIsInActiveConversation'
    BY <1>1, <1>2, <1>5 DEF StoreInv, ProgressIsInActiveConversation
  <2> QED
    BY <2>2, <2>3, <2>4, <2>5, <2>6 DEF StoreInv
<1> QED
  BY <1>8, <1>9, <1>10

LEMMA ApplyClarificationInv ==
  ASSUME IInv, NEW r \in Requests, ApplyClarification(r)
  PROVE  StoreInv' /\ \A q \in Requests : HandlerInv(q)'
<1> USE DEF IInv
<1> DEFINE i == copy[r].id
           k == reply[r].clarification
           status == IF pc[r] = "answering" THEN "resolving" ELSE "cancelled"
           outcome == IF pc[r] = "answering" THEN "answered" ELSE "cancelled"
           held == [id |-> i, status |-> status, version |-> copy[r].version + 1]
<1>1. /\ pc[r] \in {"answering", "cancelling"} /\ pc[r] \in Working
      /\ UNCHANGED <<conv, run, runConv, asksFor, askedAt, reply, resetting>>
      /\ clarification' = [clarification EXCEPT ![k] = outcome]
      /\ interaction' = [interaction EXCEPT ![i] = status]
      /\ version' = [version EXCEPT ![i] = @ + 1]
      /\ Acknowledged(r, "attaching", held)
      /\ k \in OpenFor(i)
  BY DEF ApplyClarification, Working, ContextCalls, transactions, Applies, conversations, runs
<1>2. /\ i \in Requests /\ runConv[i] = runConv[r] /\ interaction[i] # "absent"
      /\ run[r] = "running" /\ conv[runConv[r]] = "active"
  BY <1>1, MoverFacts DEF HandlerInv, HoldsInteraction, Holding
<1>3. /\ k \in Requests /\ clarification[k] = "open" /\ asksFor[k] = i
      /\ \A l \in Requests : clarification[l] = "open" /\ asksFor[l] = i => l = k
      /\ interaction[i] = "awaiting_clarification"
      /\ run[k] # "absent"
  BY <1>1 DEF OpenFor, StoreInv, OneOpenClarification, OpenClarificationIsCurrent
<1>4. /\ \/ pc'[r] = "attaching" /\ copy'[r] = held
         \/ pc'[r] \in {"failing", "leftOpen"} /\ verdict'[r] = "failed"
      /\ \A q \in Requests \ {r} : pc'[q] = pc[q] /\ copy'[q] = copy[q] /\ verdict'[q] = verdict[q]
  <2> HIDE DEF held
  <2> QED BY <1>1, AcknowledgedOutcome
<1>5. /\ outcome # "open" /\ status # "awaiting_clarification" /\ status # "absent"
      /\ outcome # "absent"
  BY <1>1
<1> HIDE DEF outcome, status
<1>6. /\ \A j \in Requests : /\ interaction'[j] = (IF j = i THEN status ELSE interaction[j])
                             /\ j # i => version'[j] = version[j]
      /\ \A l \in Requests : clarification'[l] = (IF l = k THEN outcome ELSE clarification[l])
  BY <1>1, <1>2, <1>3 DEF TypeOK
<1>7. \A j \in Requests : OpenFor(j)' = (IF j = i THEN {} ELSE OpenFor(j))
  BY <1>1, <1>3, <1>5, <1>6 DEF OpenFor
<1>8. ASSUME NEW q \in Requests \ {r} PROVE HandlerInv(q)'
  <2>1. Still(q)
    BY <1>1, <1>4 DEF Still
  <2> QED
    BY <1>1, <1>2, <1>6, <1>7, <2>1, OthersKeepInv
<1>9. HandlerInv(r)'
  <2>1. CASE pc'[r] = "attaching" /\ copy'[r] = held
    BY <1>1, <1>2, <1>5, <1>6, <1>7, <2>1 DEF HandlerInv, UnsentHasNoRun, WorkingRunIsRunning,
       FailingHasVerdict, HoldsInteraction, NothingAskedMeanwhile, ReadIsFresh, QuestionIsOpen,
       SupersedesTheActiveOne, CreatesWhenIdle, Holding, Resumed
  <2>2. CASE pc'[r] \in {"failing", "leftOpen"} /\ verdict'[r] = "failed"
    BY <1>1, <1>2, <2>2, EndedInv DEF Ended
  <2> QED
    BY <1>4, <2>1, <2>2
<1>10. StoreInv'
  <2>1. interaction[i] \in ActiveInteraction
    BY <1>3 DEF ActiveInteraction
  <2>2. RowsOfRequest'
    BY <1>1, <1>2, <1>3, <1>6 DEF StoreInv, RowsOfRequest
  <2>3. OneRunningRun' /\ ResetSeesRuns'
    BY <1>1 DEF StoreInv, OneRunningRun, ResetSeesRuns
  <2>4. OneActiveInteraction'
    BY <1>1, <1>6, <2>1 DEF StoreInv, OneActiveInteraction
  <2>5. OneOpenClarification' /\ OpenAsksForInteraction'
    BY <1>1, <1>5, <1>6 DEF StoreInv, OneOpenClarification, OpenAsksForInteraction
  <2>6. OpenClarificationIsCurrent' /\ AwaitingHasOpenClarification'
    BY <1>1, <1>3, <1>5, <1>6, <1>7 DEF StoreInv, OpenClarificationIsCurrent,
       AwaitingHasOpenClarification, OpenAsksForInteraction
  <2>7. ProgressIsInActiveConversation'
    BY <1>1, <1>2, <1>6 DEF StoreInv, ProgressIsInActiveConversation
  <2> QED
    BY <2>2, <2>3, <2>4, <2>5, <2>6, <2>7 DEF StoreInv
<1> QED
  BY <1>8, <1>9, <1>10

LEMMA SupersedeInteractionInv ==
  ASSUME IInv, NEW r \in Requests, SupersedeInteraction(r)
  PROVE  StoreInv' /\ \A q \in Requests : HandlerInv(q)'
<1> USE DEF IInv
<1> DEFINE i == copy[r].id
<1>1. /\ pc[r] = "superseding" /\ pc[r] \in Working /\ run[r] = "running"
      /\ UNCHANGED <<conv, run, runConv, version, asksFor, askedAt, reply, resetting>>
      /\ Acknowledged(r, "creating", NoCopy)
  BY MoverFacts DEF SupersedeInteraction, Working, ContextCalls, transactions, conversations, runs
<1>2. /\ i \in Requests /\ runConv[i] = runConv[r] /\ interaction[i] # "absent"
      /\ ActiveIn(runConv[r]) \subseteq {i}
  BY <1>1 DEF HandlerInv, HoldsInteraction, SupersedesTheActiveOne, Holding
<1>3. /\ \/ pc'[r] = "creating" /\ copy'[r] = NoCopy
         \/ pc'[r] \in {"failing", "leftOpen"} /\ verdict'[r] = "failed"
      /\ \A q \in Requests \ {r} : pc'[q] = pc[q] /\ copy'[q] = copy[q] /\ verdict'[q] = verdict[q]
  BY <1>1, AcknowledgedOutcome
<1>4. /\ \A j \in Requests \ {i} : interaction'[j] = interaction[j]
      /\ interaction'[i] \notin ActiveInteraction /\ interaction'[i] # "absent"
      /\ \A k \in Requests : clarification'[k] =
           (IF k \in OpenFor(i) THEN "superseded" ELSE clarification[k])
  BY <1>2 DEF SupersedeInteraction, TypeOK, ActiveInteraction
<1>5. \A j \in Requests : OpenFor(j)' = (IF j = i THEN {} ELSE OpenFor(j))
  BY <1>1, <1>4 DEF OpenFor
<1>6. ActiveIn(runConv[r])' = {}
  BY <1>1, <1>2, <1>4 DEF ActiveIn
<1>7. ASSUME NEW q \in Requests \ {r} PROVE HandlerInv(q)'
  <2>1. Still(q)
    BY <1>1, <1>3 DEF Still
  <2> QED
    BY <1>1, <1>2, <1>4, <1>5, <2>1, OthersKeepInv
<1>8. HandlerInv(r)'
  <2>1. CASE pc'[r] = "creating" /\ copy'[r] = NoCopy
    BY <1>1, <1>6, <2>1 DEF HandlerInv, UnsentHasNoRun, WorkingRunIsRunning, FailingHasVerdict,
       HoldsInteraction, NothingAskedMeanwhile, ReadIsFresh, QuestionIsOpen, SupersedesTheActiveOne,
       CreatesWhenIdle, Holding, Resumed
  <2>2. CASE pc'[r] \in {"failing", "leftOpen"} /\ verdict'[r] = "failed"
    BY <1>1, <2>2, EndedInv DEF Ended
  <2> QED
    BY <1>3, <2>1, <2>2
<1>9. StoreInv'
  <2>1. RowsOfRequest'
    BY <1>1, <1>2, <1>4 DEF StoreInv, RowsOfRequest, OpenFor
  <2>2. OneRunningRun' /\ ResetSeesRuns'
    BY <1>1 DEF StoreInv, OneRunningRun, ResetSeesRuns
  <2>3. OneActiveInteraction'
    BY <1>1, <1>4 DEF StoreInv, OneActiveInteraction
  <2>4. OneOpenClarification' /\ OpenAsksForInteraction'
    BY <1>1, <1>4 DEF StoreInv, OneOpenClarification, OpenAsksForInteraction
  <2>5. OpenClarificationIsCurrent' /\ AwaitingHasOpenClarification'
    BY <1>1, <1>2, <1>4, <1>5 DEF StoreInv, OpenClarificationIsCurrent,
       AwaitingHasOpenClarification, OpenAsksForInteraction, OpenFor, ActiveInteraction
  <2>6. ProgressIsInActiveConversation'
    BY <1>1, <1>4 DEF StoreInv, ProgressIsInActiveConversation
  <2> QED
    BY <2>1, <2>2, <2>3, <2>4, <2>5, <2>6 DEF StoreInv
<1> QED
  BY <1>7, <1>8, <1>9

LEMMA CreateClarificationInv ==
  ASSUME IInv, NEW r \in Requests, CreateClarification(r)
  PROVE  StoreInv' /\ \A q \in Requests : HandlerInv(q)'
<1> USE DEF IInv
<1> DEFINE i == copy[r].id
<1>1. /\ pc[r] = "asking" /\ pc[r] \in Working
      /\ UNCHANGED <<conv, runConv, reply, resetting>>
      /\ clarification' = [clarification EXCEPT ![r] = "open"]
      /\ asksFor' = [asksFor EXCEPT ![r] = i]
      /\ askedAt' = [askedAt EXCEPT ![r] = copy[r].version + 1]
      /\ interaction' = [interaction EXCEPT ![i] = "awaiting_clarification"]
      /\ version' = [version EXCEPT ![i] = @ + 1]
      /\ run' = [run EXCEPT ![r] = "clarification_required"]
      /\ OpenFor(i) = {} /\ version[i] = copy[r].version /\ MayActivate(i) /\ run[r] = "running"
  BY DEF CreateClarification, Working, ContextCalls, transactions, conversations, Applies
<1>2. /\ i \in Requests /\ runConv[i] = runConv[r] /\ interaction[i] # "absent"
      /\ conv[runConv[r]] = "active"
  BY <1>1, MoverFacts DEF HandlerInv, HoldsInteraction, Holding, Resumed
<1>3. HandlerInv(r)' /\ \A q \in Requests \ {r} : Still(q)
  BY <1>1, LastWrite DEF CreateClarification
<1>4. clarification[r] # "open"
  BY <1>1 DEF StoreInv, OpenClarificationIsCurrent
<1>5. \A j \in Requests :
        /\ interaction'[j] = (IF j = i THEN "awaiting_clarification" ELSE interaction[j])
        /\ version'[j] = (IF j = i THEN version[j] + 1 ELSE version[j])
        /\ clarification'[j] = (IF j = r THEN "open" ELSE clarification[j])
        /\ asksFor'[j] = (IF j = r THEN i ELSE asksFor[j])
        /\ askedAt'[j] = (IF j = r THEN copy[r].version + 1 ELSE askedAt[j])
        /\ run'[j] = (IF j = r THEN "clarification_required" ELSE run[j])
  BY <1>1, <1>2 DEF TypeOK
<1>6. \A j \in Requests : OpenFor(j)' = (IF j = i THEN {r} ELSE OpenFor(j))
  BY <1>1, <1>4, <1>5 DEF OpenFor
<1>7. ASSUME NEW q \in Requests \ {r} PROVE HandlerInv(q)'
  BY <1>1, <1>2, <1>3, <1>5, <1>6, OthersKeepInv
<1>8. StoreInv'
  <2>1. \A j \in Requests : interaction[j] \in ActiveInteraction /\ runConv[j] = runConv[i] => j = i
    BY <1>1 DEF MayActivate, ActiveIn
  <2>2. \A k \in Requests : clarification[k] = "open" => asksFor[k] # i
    BY <1>1 DEF OpenFor
  <2>3. RowsOfRequest'
    BY <1>1, <1>2, <1>5 DEF StoreInv, RowsOfRequest
  <2>4. OneRunningRun' /\ ResetSeesRuns'
    BY <1>1, <1>5 DEF StoreInv, OneRunningRun, ResetSeesRuns
  <2>5. OneActiveInteraction'
    BY <1>1, <1>5, <2>1 DEF StoreInv, OneActiveInteraction
  <2>6. OneOpenClarification' /\ OpenAsksForInteraction'
    BY <1>2, <1>5, <2>2 DEF StoreInv, OneOpenClarification, OpenAsksForInteraction
  <2>7. OpenClarificationIsCurrent' /\ AwaitingHasOpenClarification'
    BY <1>1, <1>2, <1>5, <1>6, <2>2 DEF StoreInv, OpenClarificationIsCurrent,
       AwaitingHasOpenClarification, OpenAsksForInteraction
  <2>8. ProgressIsInActiveConversation'
    BY <1>1, <1>2, <1>5 DEF StoreInv, ProgressIsInActiveConversation
  <2> QED
    BY <2>3, <2>4, <2>5, <2>6, <2>7, <2>8 DEF StoreInv
<1> QED
  BY <1>3, <1>7, <1>8

(***************************************************************************)
(* The late write of a handler that owns nothing: harmless, because it     *)
(* only closes what nobody waits for.                                      *)
(***************************************************************************)
LEMMA FailInv ==
  ASSUME IInv, NEW r \in Requests, Fail(r)
  PROVE  StoreInv' /\ \A q \in Requests : HandlerInv(q)'
<1> USE DEF IInv
<1>1. /\ pc[r] = "failing" /\ verdict[r] \in {"failed", "cancelled"} /\ run[r] # "absent"
      /\ UNCHANGED <<conv, runConv, version, clarification, asksFor, askedAt, reply, resetting>>
  BY DEF Fail, HandlerInv, FailingHasVerdict, UnsentHasNoRun, TypeOK, transactions, conversations,
         clarifications
<1>2. /\ \A q \in Requests : run'[q] = IF q = r /\ run[q] = "running" THEN verdict[r] ELSE run[q]
      /\ pc'[r] = "returned"
      /\ \A q \in Requests \ {r} : pc'[q] = pc[q] /\ copy'[q] = copy[q] /\ verdict'[q] = verdict[q]
  BY DEF Fail, AfterFail, Goto, TypeOK
<1>3. \A i \in Requests :
        \/ interaction'[i] = interaction[i]
        \/ /\ interaction'[i] \in {"failed", "cancelled"}
           /\ interaction[i] \in {"planning", "resolving", "ready", "generating"}
  BY <1>1 DEF Fail, Failable
<1>4. /\ \A i \in Requests : OpenFor(i)' = OpenFor(i)
      /\ \A c \in Convs : ActiveIn(c)' \subseteq ActiveIn(c)
  BY <1>1, <1>3 DEF OpenFor, ActiveIn, ActiveInteraction
<1>5. HandlerInv(r)'
  BY <1>1, <1>2, EndedInv DEF Ended
<1>6. ASSUME NEW q \in Requests \ {r} PROVE HandlerInv(q)'
  <2>1. HandlerInv(q) /\ Still(q)
    BY <1>1, <1>2 DEF Still
  <2>2. pc[q] \in Working => runConv[q] \in Convs
    BY MoverFacts
  <2>3. Holding \subseteq Working
    BY DEF Holding, Resumed, Working, ContextCalls
  <2>4. UnsentHasNoRun(q)' /\ WorkingRunIsRunning(q)' /\ FailingHasVerdict(q)'
    BY <2>1 DEF HandlerInv, UnsentHasNoRun, WorkingRunIsRunning, FailingHasVerdict, Still
  <2>5. HoldsInteraction(q)'
    BY <1>1, <1>3, <2>1 DEF HandlerInv, HoldsInteraction, Still
  <2>6. NothingAskedMeanwhile(q)' /\ ReadIsFresh(q)' /\ QuestionIsOpen(q)'
    BY <1>1, <1>4, <2>1 DEF HandlerInv, HoldsInteraction, NothingAskedMeanwhile, ReadIsFresh,
       QuestionIsOpen, Still, Holding
  <2>7. SupersedesTheActiveOne(q)' /\ CreatesWhenIdle(q)'
    BY <1>1, <1>4, <2>1, <2>2 DEF HandlerInv, SupersedesTheActiveOne, CreatesWhenIdle, Still, Working,
       ContextCalls
  <2> QED
    BY <2>4, <2>5, <2>6, <2>7 DEF HandlerInv
<1>7. StoreInv'
  <2>1. RowsOfRequest'
    BY <1>1, <1>2, <1>3 DEF StoreInv, RowsOfRequest
  <2>2. OneRunningRun' /\ ResetSeesRuns'
    BY <1>1, <1>2 DEF StoreInv, OneRunningRun, ResetSeesRuns
  <2>3. OneActiveInteraction'
    BY <1>1, <1>3 DEF StoreInv, OneActiveInteraction, ActiveInteraction
  <2>4. OneOpenClarification' /\ OpenAsksForInteraction'
    BY <1>1 DEF StoreInv, OneOpenClarification, OpenAsksForInteraction
  <2>5. OpenClarificationIsCurrent' /\ AwaitingHasOpenClarification'
    BY <1>1, <1>2, <1>3, <1>4 DEF StoreInv, OpenClarificationIsCurrent,
       AwaitingHasOpenClarification, OpenAsksForInteraction
  <2>6. ProgressIsInActiveConversation'
    BY <1>1, <1>2, <1>3 DEF StoreInv, ProgressIsInActiveConversation, ActiveInteraction
  <2> QED
    BY <2>1, <2>2, <2>3, <2>4, <2>5, <2>6 DEF StoreInv
<1> QED
  BY <1>5, <1>6, <1>7

LEMMA StartRunInv ==
  ASSUME IInv, NEW r \in Requests, NEW c \in Convs, NEW m \in Models, NEW answer \in Replies,
         StartRun(r, c, m, answer)
  PROVE  StoreInv' /\ \A q \in Requests : HandlerInv(q)'
<1> USE DEF IInv
<1>1. /\ run[r] = "absent" /\ interaction[r] = "absent" /\ clarification[r] = "absent"
      /\ resetting[ScopeOf[c]] = None /\ conv[c] = "active" /\ RunningIn(c) = {}
      /\ UNCHANGED <<conv, interaction, version, clarification, asksFor, askedAt, copy, resetting>>
  BY DEF StartRun, ActorRowFree, StoreInv, RowsOfRequest, HandlerInv, UnsentHasNoRun, conversations,
         interactions, clarifications, transactions
<1>2. /\ \A q \in Requests :
           /\ run'[q] = (IF q = r THEN "running" ELSE run[q])
           /\ runConv'[q] = (IF q = r THEN c ELSE runConv[q])
      /\ \A q \in Requests \ {r} : reply'[q] = reply[q] /\ pc'[q] = pc[q] /\ verdict'[q] = verdict[q]
  BY DEF StartRun, TypeOK
<1>3. pc'[r] \in {"getActive", "getInteraction", "leftOpen"}
  BY DEF StartRun, TypeOK
<1>4. /\ \A i \in Requests : OpenFor(i)' = OpenFor(i)
      /\ \A d \in Convs : ActiveIn(d)' = ActiveIn(d)
  BY <1>1, <1>2 DEF OpenFor, ActiveIn, ActiveInteraction
<1>5. HandlerInv(r)'
  BY <1>2, <1>3 DEF HandlerInv, UnsentHasNoRun, WorkingRunIsRunning, FailingHasVerdict,
     HoldsInteraction, NothingAskedMeanwhile, ReadIsFresh, QuestionIsOpen, SupersedesTheActiveOne,
     CreatesWhenIdle, Holding, Resumed
<1>6. ASSUME NEW q \in Requests \ {r} PROVE HandlerInv(q)'
  <2>1. HandlerInv(q) /\ Still(q) /\ runConv'[q] = runConv[q]
    BY <1>1, <1>2 DEF Still
  <2>2. pc[q] \in Working => runConv[q] \in Convs
    BY MoverFacts
  <2>3. UnsentHasNoRun(q)' /\ WorkingRunIsRunning(q)' /\ FailingHasVerdict(q)'
    BY <2>1 DEF HandlerInv, UnsentHasNoRun, WorkingRunIsRunning, FailingHasVerdict, Still
  <2>4. HoldsInteraction(q)'
    BY <1>1, <1>2, <2>1 DEF HandlerInv, HoldsInteraction, Still
  <2>5. NothingAskedMeanwhile(q)' /\ ReadIsFresh(q)' /\ QuestionIsOpen(q)'
    BY <1>1, <1>4, <2>1 DEF HandlerInv, HoldsInteraction, NothingAskedMeanwhile, ReadIsFresh,
       QuestionIsOpen, Still, Holding
  <2>6. SupersedesTheActiveOne(q)' /\ CreatesWhenIdle(q)'
    BY <1>1, <1>4, <2>1, <2>2 DEF HandlerInv, SupersedesTheActiveOne, CreatesWhenIdle, Still, Working,
       ContextCalls
  <2> QED
    BY <2>3, <2>4, <2>5, <2>6 DEF HandlerInv
<1>7. StoreInv'
  <2>1. RowsOfRequest'
    BY <1>1, <1>2, ConstantsAssumption DEF StoreInv, RowsOfRequest
  <2>2. OneRunningRun' /\ ResetSeesRuns'
    BY <1>1, <1>2 DEF StoreInv, OneRunningRun, ResetSeesRuns, RunningIn
  <2>3. OneActiveInteraction'
    BY <1>1, <1>2 DEF StoreInv, OneActiveInteraction, ActiveInteraction
  <2>4. OneOpenClarification' /\ OpenAsksForInteraction'
    BY <1>1 DEF StoreInv, OneOpenClarification, OpenAsksForInteraction
  <2>5. OpenClarificationIsCurrent' /\ AwaitingHasOpenClarification'
    BY <1>1, <1>2, <1>4 DEF StoreInv, OpenClarificationIsCurrent, AwaitingHasOpenClarification
  <2>6. ProgressIsInActiveConversation'
    BY <1>1, <1>2 DEF StoreInv, ProgressIsInActiveConversation, ActiveInteraction
  <2> QED
    BY <2>1, <2>2, <2>3, <2>4, <2>5, <2>6 DEF StoreInv
<1> QED
  BY <1>5, <1>6, <1>7

-----------------------------------------------------------------------------
(***************************************************************************)
(* Resets, model updates and the environment.                              *)
(***************************************************************************)
LEMMA ResetCommitInv ==
  ASSUME IInv, NEW s \in Scopes, NEW next \in Convs, NEW m \in Models, ResetCommit(s, next, m)
  PROVE  StoreInv' /\ \A q \in Requests : HandlerInv(q)'
<1> USE DEF IInv
<1>1. /\ resetting[s] # None /\ resetting'[s] = None
      /\ \A t \in Scopes \ {s} : resetting'[t] = resetting[t]
      /\ UNCHANGED <<run, runConv, version, asksFor, askedAt, pc, reply, copy, verdict>>
  BY DEF ResetCommit, TypeOK, runs, handlers
<1>2. \A r \in Requests : run[r] # "absent" => runConv[r] \in Convs /\ ScopeOf[runConv[r]] \in Scopes
  BY ConstantsAssumption DEF TypeOK, StoreInv, RowsOfRequest
<1>3. \A c \in Convs : conv[c] = "active" /\ ScopeOf[c] = s => InReset(s, c) /\ c \notin resetting[s].busy
  BY DEF ResetCommit, ConvsOf, Archives
<1>4. \A r \in Requests : run[r] = "running" => ScopeOf[runConv[r]] # s
  BY <1>1, <1>2, <1>3 DEF StoreInv, ProgressIsInActiveConversation, ResetSeesRuns
<1>5. \A c \in Convs : InReset(s, c) => ScopeOf[c] = s
  BY DEF InReset
<1>6. \A c \in Convs : conv'[c] = (IF c = next THEN "active"
                                   ELSE IF Archives(s, c) THEN "archived" ELSE conv[c])
  BY DEF ResetCommit
<1>7. \A i \in Requests :
        interaction'[i] = (IF InReset(s, runConv[i]) /\ runConv[i] \in Convs
                              /\ interaction[i] \in ActiveInteraction
                           THEN "superseded" ELSE interaction[i])
  BY DEF ResetCommit, ActiveIn
<1>8. \A k \in Requests :
        clarification'[k] = (IF clarification[k] = "open" /\ runConv[asksFor[k]] \in Convs
                                /\ InReset(s, runConv[asksFor[k]])
                             THEN "superseded" ELSE clarification[k])
  BY DEF ResetCommit
<1>9. \A i \in Requests :
        OpenFor(i)' = (IF runConv[i] \in Convs /\ InReset(s, runConv[i]) THEN {} ELSE OpenFor(i))
  BY <1>1, <1>8 DEF OpenFor
<1>10. \A c \in Convs : ~InReset(s, c) => ActiveIn(c)' = ActiveIn(c)
  BY <1>1, <1>7 DEF ActiveIn
<1>11. ASSUME NEW q \in Requests PROVE HandlerInv(q)'
  <2>1. HandlerInv(q) /\ Still(q)
    BY <1>1 DEF Still
  <2>2. pc[q] \in Working => runConv[q] \in Convs /\ ~InReset(s, runConv[q])
    BY <1>2, <1>4, <1>5, <2>1, MoverFacts
  <2>3. UnsentHasNoRun(q)' /\ WorkingRunIsRunning(q)' /\ FailingHasVerdict(q)'
    BY <2>1 DEF HandlerInv, UnsentHasNoRun, WorkingRunIsRunning, FailingHasVerdict, Still
  <2>4. HoldsInteraction(q)'
    BY <1>1, <1>7, <2>1 DEF HandlerInv, HoldsInteraction, Still
  <2>5. pc[q] \in Holding => copy[q].id \in Requests /\ OpenFor(copy[q].id)' = OpenFor(copy[q].id)
    <3> SUFFICES ASSUME pc[q] \in Holding
                 PROVE  copy[q].id \in Requests /\ OpenFor(copy[q].id)' = OpenFor(copy[q].id)
      OBVIOUS
    <3>1. copy[q].id \in Requests /\ runConv[copy[q].id] = runConv[q] /\ copy'[q] = copy[q]
      BY <2>1 DEF HandlerInv, HoldsInteraction, Still
    <3>2. ~InReset(s, runConv[copy[q].id])
      BY <2>2, <3>1 DEF Holding, Resumed, Working, ContextCalls
    <3> QED
      BY <1>1, <1>8, <3>1, <3>2 DEF OpenFor
  <2>6. NothingAskedMeanwhile(q)' /\ ReadIsFresh(q)' /\ QuestionIsOpen(q)'
    BY <1>1, <2>1, <2>5 DEF HandlerInv, NothingAskedMeanwhile, ReadIsFresh, QuestionIsOpen, Still,
       Holding
  <2>7. SupersedesTheActiveOne(q)' /\ CreatesWhenIdle(q)'
    BY <1>1, <1>10, <2>1, <2>2 DEF HandlerInv, SupersedesTheActiveOne, CreatesWhenIdle, Still, Working,
       ContextCalls
  <2> QED
    BY <2>3, <2>4, <2>6, <2>7 DEF HandlerInv
<1>12. StoreInv'
  <2>1. RowsOfRequest'
    BY <1>1, <1>7, <1>8 DEF StoreInv, RowsOfRequest, ActiveInteraction
  <2>2. OneRunningRun'
    BY <1>1 DEF StoreInv, OneRunningRun
  <2>3. OneActiveInteraction'
    BY <1>1, <1>7 DEF StoreInv, OneActiveInteraction, ActiveInteraction
  <2>4. OneOpenClarification' /\ OpenAsksForInteraction'
    BY <1>1, <1>8 DEF StoreInv, OneOpenClarification, OpenAsksForInteraction
  <2>5. OpenClarificationIsCurrent'
    BY <1>1, <1>7, <1>8 DEF StoreInv, OpenClarificationIsCurrent, OpenAsksForInteraction
  <2>6. AwaitingHasOpenClarification'
    BY <1>1, <1>7, <1>9 DEF StoreInv, AwaitingHasOpenClarification, ActiveInteraction
  <2>7. ProgressIsInActiveConversation'
    <3> SUFFICES ASSUME NEW r \in Requests,
                        (run[r] = "running" \/ interaction[r] \in ActiveInteraction)',
                        (conv[runConv[r]] # "active")'
                 PROVE  FALSE
      BY DEF ProgressIsInActiveConversation
    <3>1. run[r] = "running" \/ interaction[r] \in ActiveInteraction
      BY <1>1, <1>7 DEF ActiveInteraction
    <3>2. runConv[r] \in Convs /\ conv[runConv[r]] = "active"
      BY <1>2, <3>1 DEF StoreInv, RowsOfRequest, ProgressIsInActiveConversation, ActiveInteraction
    <3>3. Archives(s, runConv[r])
      BY <1>1, <1>6, <3>2
    <3>4. InReset(s, runConv[r]) /\ run[r] # "running"
      BY <1>4, <1>5, <3>2, <3>3 DEF Archives
    <3> QED
      BY <1>1, <1>7, <3>2, <3>4 DEF ActiveInteraction
  <2>8. ResetSeesRuns'
    BY <1>1, <1>2 DEF StoreInv, ResetSeesRuns
  <2> QED
    BY <2>1, <2>2, <2>3, <2>4, <2>5, <2>6, <2>7, <2>8 DEF StoreInv
<1> QED
  BY <1>11, <1>12

(***************************************************************************)
(* Steps that write neither runs, interactions nor clarifications, end no  *)
(* conversation, and leave each handler alone or stop it.                  *)
(***************************************************************************)
LEMMA EnvironmentInv ==
  ASSUME IInv, UNCHANGED <<runs, interactions, clarifications, reply>>,
         \A c \in Convs : conv[c] = "active" => conv'[c] = "active",
         \A q \in Requests : Still(q) \/ (pc'[q] \in Ended /\ run[q] # "absent")
                             \/ (pc'[q] = "unsent" /\ pc[q] = "unsent"),
         ResetSeesRuns'
  PROVE  StoreInv' /\ \A q \in Requests : HandlerInv(q)'
<1> USE DEF IInv
<1>1. UNCHANGED <<run, runConv, interaction, version, clarification, asksFor, askedAt, reply>>
  BY DEF runs, interactions, clarifications
<1>2. /\ \A i \in Requests : OpenFor(i)' = OpenFor(i)
      /\ \A c \in Convs : ActiveIn(c)' = ActiveIn(c)
  BY <1>1 DEF OpenFor, ActiveIn
<1>3. ASSUME NEW q \in Requests PROVE HandlerInv(q)'
  <2>1. CASE Still(q)
    BY <1>1, <1>2, <2>1 DEF HandlerInv, UnsentHasNoRun, WorkingRunIsRunning, FailingHasVerdict,
       HoldsInteraction, NothingAskedMeanwhile, ReadIsFresh, QuestionIsOpen, SupersedesTheActiveOne,
       CreatesWhenIdle, Still, OpenFor, ActiveIn
  <2>2. CASE pc'[q] \in Ended /\ run[q] # "absent"
    BY <1>1, <2>2, EndedInv
  <2>3. CASE pc'[q] = "unsent" /\ pc[q] = "unsent"
    BY <1>1, <2>3 DEF HandlerInv, UnsentHasNoRun, WorkingRunIsRunning, FailingHasVerdict,
       HoldsInteraction, NothingAskedMeanwhile, ReadIsFresh, QuestionIsOpen, SupersedesTheActiveOne,
       CreatesWhenIdle, Working, ContextCalls, Holding, Resumed
  <2> QED
    BY <2>1, <2>2, <2>3
<1>4. StoreInv'
  <2>1. \A r \in Requests : run[r] # "absent" => runConv[r] \in Convs
    BY DEF TypeOK, StoreInv, RowsOfRequest
  <2>2. ProgressIsInActiveConversation'
    BY <1>1, <2>1 DEF StoreInv, RowsOfRequest, ProgressIsInActiveConversation, ActiveInteraction
  <2> QED
    BY <1>1, <1>2, <2>2 DEF StoreInv, RowsOfRequest, OneRunningRun, OneActiveInteraction,
       OneOpenClarification, OpenAsksForInteraction, OpenClarificationIsCurrent,
       AwaitingHasOpenClarification
<1> QED
  BY <1>3, <1>4

LEMMA ScopeOfRun ==
  ASSUME IInv, NEW r \in Requests, run[r] = "running"
  PROVE  ScopeOf[runConv[r]] \in Scopes /\ runConv[r] \in Convs
BY ConstantsAssumption DEF IInv, TypeOK, StoreInv, RowsOfRequest

LEMMA ResetBeginInv ==
  ASSUME IInv, NEW s \in Scopes, NEW current \in Convs \cup {None}, ResetBegin(s, current)
  PROVE  StoreInv' /\ \A q \in Requests : HandlerInv(q)'
<1>1. UNCHANGED <<runs, interactions, clarifications, conv, handlers>>
  BY DEF ResetBegin, store, conversations
<1>2. ResetSeesRuns'
  <2> SUFFICES ASSUME NEW r \in Requests, run[r] = "running"
               PROVE  \/ resetting'[ScopeOf[runConv[r]]] = None
                      \/ runConv[r] \in resetting'[ScopeOf[runConv[r]]].busy
    BY <1>1 DEF ResetSeesRuns, runs
  <2>1. CASE ScopeOf[runConv[r]] = s
    <3>1. runConv[r] \in {c \in ConvsOf(s) : RunningIn(c) # {}}
      BY <2>1, ScopeOfRun DEF ConvsOf, RunningIn
    <3>2. resetting'[s].busy = {c \in ConvsOf(s) : RunningIn(c) # {}}
      BY DEF ResetBegin, IInv, TypeOK
    <3> QED
      BY <2>1, <3>1, <3>2
  <2>2. CASE ScopeOf[runConv[r]] # s
    BY <2>2, ScopeOfRun DEF ResetBegin, IInv, TypeOK, StoreInv, ResetSeesRuns
  <2> QED
    BY <2>1, <2>2
<1> QED
  BY <1>1, <1>2, EnvironmentInv DEF Still, handlers, runs

LEMMA OtherStepsInv ==
  ASSUME IInv,
         \/ \E c \in Convs, m \in Models : CreateConversation(c, m)
         \/ \E s \in Scopes : ResetAbort(s)
         \/ \E c \in Convs, m \in Models : UpdateModelBegin(c, m)
         \/ \E c \in Convs : UpdateModelEnd(c)
         \/ \E r \in Requests : Disconnect(r)
         \/ Crash
         \/ UNCHANGED vars
  PROVE  StoreInv' /\ \A q \in Requests : HandlerInv(q)'
<1> USE DEF IInv
<1>1. UNCHANGED <<runs, interactions, clarifications, reply>>
  BY DEF CreateConversation, ResetAbort, UpdateModelBegin, UpdateModelEnd, Disconnect, Crash, vars,
         store, handlers
<1>2. \A c \in Convs : conv[c] = "active" => conv'[c] = "active"
  BY DEF CreateConversation, ResetAbort, UpdateModelBegin, UpdateModelEnd, Disconnect, Crash, vars,
         store, conversations, TypeOK
<1>3. \A q \in Requests : Still(q) \/ (pc'[q] \in Ended /\ run[q] # "absent")
                          \/ (pc'[q] = "unsent" /\ pc[q] = "unsent")
  <2>1. CASE Crash
    <3> SUFFICES ASSUME NEW q \in Requests
                 PROVE  \/ pc'[q] \in Ended /\ run[q] # "absent"
                        \/ pc'[q] = "unsent" /\ pc[q] = "unsent"
      OBVIOUS
    <3>1. HandlerInv(q)
      OBVIOUS
    <3> QED
      BY <2>1, <3>1 DEF Crash, Ended, HandlerInv, UnsentHasNoRun
  <2>2. CASE ~Crash
    BY <1>1, <2>2 DEF CreateConversation, ResetAbort, UpdateModelBegin, UpdateModelEnd, Disconnect, vars,
       store, handlers, Still, runs
  <2> QED
    BY <2>1, <2>2
<1>4. ResetSeesRuns'
  <2>1. \A s \in Scopes : resetting'[s] \in {None, resetting[s]}
    BY DEF CreateConversation, ResetAbort, UpdateModelBegin, UpdateModelEnd, Disconnect, Crash, vars,
           transactions, TypeOK
  <2> QED
    BY <1>1, <2>1, ScopeOfRun DEF StoreInv, ResetSeesRuns, runs
<1> QED
  BY <1>1, <1>2, <1>3, <1>4, EnvironmentInv

-----------------------------------------------------------------------------
LEMMA NextInv ==
  ASSUME IInv, [Next]_vars
  PROVE  IInv'
<1>1. TypeOK'
  BY NextTypeOK
<1>2. ASSUME NEW r \in Requests, Handle(r)
      PROVE  StoreInv' /\ \A q \in Requests : HandlerInv(q)'
  BY <1>2, CallFailsInv, ReadInv, GoOnInv, SupersedeInteractionInv, CreateInteractionInv,
     ApplyClarificationInv, AttachRunInteractionInv, CompleteRunInv, CreateClarificationInv,
     SaveInteractionInv, CompleteInteractionRunInv, FailInv DEF Handle
<1>3. StoreInv' /\ \A q \in Requests : HandlerInv(q)'
  BY <1>2, StartRunInv, ResetBeginInv, ResetCommitInv, OtherStepsInv DEF Next
<1> QED
  BY <1>1, <1>3 DEF IInv

(***************************************************************************)
(* Every reachable state satisfies the invariant the handlers rely on.     *)
(***************************************************************************)
THEOREM Invariance == Spec => []IInv
BY InitInv, NextInv, PTL DEF Spec

(***************************************************************************)
(* Every variable of the store and of the handlers keeps its type.         *)
(***************************************************************************)
THEOREM TypeCorrect == Spec => []TypeOK
<1>1. IInv => TypeOK
  BY DEF IInv
<1> QED
  BY <1>1, Invariance, PTL

(***************************************************************************)
(* An open question can be answered, in every reachable state: its         *)
(* interaction waits for it at the plan version it was asked for.          *)
(***************************************************************************)
THEOREM OpenQuestionsAreCurrent == Spec => []OpenClarificationIsCurrent
<1>1. IInv => OpenClarificationIsCurrent
  BY DEF IInv, StoreInv
<1> QED
  BY <1>1, Invariance, PTL

(***************************************************************************)
(* No interaction ever waits for a question that is not open.              *)
(***************************************************************************)
THEOREM WaitingInteractionsHaveAQuestion == Spec => []AwaitingHasOpenClarification
<1>1. IInv => AwaitingHasOpenClarification
  BY DEF IInv, StoreInv
<1> QED
  BY <1>1, Invariance, PTL

(***************************************************************************)
(* A conversation has at most one open question, although only the         *)
(* interaction has an index that says so.                                  *)
(***************************************************************************)
THEOREM OneQuestionPerConversation == Spec => []OneOpenClarificationPerConversation
<1>1. IInv => OneOpenClarificationPerConversation
  <2> SUFFICES ASSUME IInv, NEW c \in Convs, NEW k \in OpenIn(c), NEW l \in OpenIn(c)
               PROVE  k = l
    BY DEF OneOpenClarificationPerConversation
  <2> USE DEF IInv, StoreInv
  <2>1. /\ asksFor[k] \in Requests /\ interaction[asksFor[k]] \in ActiveInteraction
        /\ asksFor[l] \in Requests /\ interaction[asksFor[l]] \in ActiveInteraction
    BY DEF OpenIn, OpenAsksForInteraction, OpenClarificationIsCurrent, ActiveInteraction
  <2>2. asksFor[k] = asksFor[l]
    BY <2>1 DEF OpenIn, OneActiveInteraction
  <2> QED
    BY <2>2 DEF OpenIn, OneOpenClarification
<1> QED
  BY <1>1, Invariance, PTL

(***************************************************************************)
(* An archived conversation has no run, interaction or question open, ever *)
(* after: resets and runs exclude each other.                              *)
(***************************************************************************)
THEOREM ArchivedConversationsAreQuiet == Spec => []ArchivedConversationIsQuiet
<1>1. IInv => ArchivedConversationIsQuiet
  <2> SUFFICES ASSUME IInv, NEW c \in Convs, conv[c] = "archived"
               PROVE  RunningIn(c) = {} /\ ActiveIn(c) = {} /\ OpenIn(c) = {}
    BY DEF ArchivedConversationIsQuiet
  <2> USE DEF IInv, StoreInv
  <2>1. RunningIn(c) = {} /\ ActiveIn(c) = {}
    BY DEF RunningIn, ActiveIn, ProgressIsInActiveConversation
  <2>2. OpenIn(c) = {}
    BY <2>1 DEF OpenIn, ActiveIn, OpenAsksForInteraction, OpenClarificationIsCurrent, ActiveInteraction
  <2> QED
    BY <2>1, <2>2
<1> QED
  BY <1>1, Invariance, PTL

(***************************************************************************)
(* A new question never meets the unique index on active interactions.     *)
(***************************************************************************)
THEOREM NewQuestionsAreServed == Spec => []NewQuestionIsNeverRefused
<1>1. IInv => NewQuestionIsNeverRefused
  BY DEF IInv, HandlerInv, WorkingRunIsRunning, CreatesWhenIdle, NewQuestionIsNeverRefused, Applies,
         Working, ContextCalls
<1> QED
  BY <1>1, Invariance, PTL

(***************************************************************************)
(* The question a handler is answering stays open, at the version it read, *)
(* for as long as the classifier takes.                                    *)
(***************************************************************************)
THEOREM AnswersFindTheirQuestion == Spec => []QuestionWaitsForItsAnswer
<1>1. IInv => QuestionWaitsForItsAnswer
  BY DEF IInv, HandlerInv, ReadIsFresh, QuestionIsOpen, QuestionWaitsForItsAnswer
<1> QED
  BY <1>1, Invariance, PTL
=============================================================================
