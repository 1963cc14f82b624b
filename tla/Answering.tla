------------------------------- MODULE Answering -------------------------------
(***************************************************************************)
(* One run as its client sees it: the events of the stream, the status the *)
(* call ends with, and what the store has been told (Server.Run and        *)
(* UseCase.Run), from the service's settings to the provider's bytes.      *)
(* Workbench has the rows of the store and their interleavings; here the   *)
(* run is one row, its message the text that was stored, and preparation a *)
(* choice among its outcomes, with the context an answer is checked        *)
(* against.  Reading the history and the debug record change nothing and   *)
(* cannot end a run: they are left out.                                    *)
(***************************************************************************)
EXTENDS ProviderStream, AnswerCheck, SequencesExt

CONSTANTS
  Settings,    \* environments the service may be started in
  Accesses,    \* provider connections of requests
  Preparations, \* what preparation may end with
  Replies,     \* what the model may say
  FixedReply,  \* the Anthropic adapter's reply to every answer and repair
  DeltaSize,   \* 512 characters in the code
  MaxFaults    \* bound: repository calls or processes that fail

ASSUME AnsweringAssumption ==
  /\ Accesses \subseteq Access
  /\ Preparations \subseteq Prepared
  /\ Replies \subseteq Reply /\ FixedReply \in Reply
  /\ DeltaSize \in Nat \ {0}
  /\ MaxFaults \in Nat

\* A consequence of Bounds, asked of the instance because the provers cannot
\* expand intervals this wide.
ASSUME LimitsAreNumbers ==
  \A s \in Settings : Load(s) => {Value(s, "bytes"), Value(s, "buffer")} \subseteq Nat

VARIABLES
  pc,         \* where Run is
  schema,     \* prepared.ModelRequest.ResponseFormat: the citations it offers
  context,    \* prepared.Plan and prepared.Trace.Blocks
  first,      \* the model's answer; None before
  reply,      \* the same, or its repair
  leaving,    \* the request cancelled its interaction
  content,    \* the text to send and store
  sent,       \* deltas sent
  run,        \* runs.status
  stored,     \* the assistant message of the run
  verdict,    \* the fail closure's arguments, the error Run returns, and whether it tells
  events,     \* what was sent to the client; after a crash, what of it has arrived
  rpc,        \* the status the client's call ended with
  connected,  \* the client is there
  faults

NoReply   == [json |-> FALSE, arrays |-> FALSE, answer |-> "empty",
              entities |-> {}, docs |-> {}, limits |-> 0]
NoSchema  == [entities |-> {}, docs |-> {}]
NoContext == [resolved |-> {}, blocks |-> {}]

provider == <<config, access, stream>>
answer   == <<schema, context, first, reply, content>>
row      == <<run, stored>>
client   == <<events, rpc, connected>>
vars     == <<provider, pc, answer, leaving, sent, row, verdict, client, faults>>

-----------------------------------------------------------------------------
(* How steps end. *)

\* mapError.
Status(error) ==
  CASE error = "none"     -> "OK"
    [] error = "invalid"  -> "InvalidArgument"
    [] error = "notfound" -> "NotFound"
    [] error = "conflict" -> "FailedPrecondition"
    [] error = "canceled" -> "Canceled"
    [] error = "deadline" -> "DeadlineExceeded"
    [] error = "internal" -> "Internal"

\* Every error becomes the call's status.
Mutant_StatusOfError(error, told) == Status(error)

\* Server.Run: an error the client was told of in the stream is not told again.
Outcome(error, told) == IF error # "none" /\ told THEN "OK" ELSE Status(error)

\* UseCase.Run returns without calling the fail closure; the call is not over yet.
Returns(error) ==
  /\ pc' = "returning"
  /\ verdict' = [status |-> "none", error |-> error, tells |-> FALSE]

\* A repository call under the request's context may fail, applied or not.
Interrupted(error) ==
  \/ ~connected /\ error \in {"canceled", "deadline"} /\ UNCHANGED faults
  \/ faults < MaxFaults /\ error = "internal" /\ faults' = faults + 1

\* The call's error is what Run returns.
CallErrors == {"canceled", "deadline", "internal"}
LostReply == \E error \in CallErrors : Interrupted(error) /\ Returns(error)

\* The fail closure is called next, and then the client is told or not.
Fail(status, error, tells) ==
  /\ pc' = "failing"
  /\ verdict' = [status |-> status, error |-> error, tells |-> tells]

\* A call that ends the run when it fails: its reply is lost, or it finds a row
\* that is not as the handler left it.
Lost    == \E error \in CallErrors : Interrupted(error) /\ Fail("failed", error, FALSE)
Refused == Fail("failed", "conflict", FALSE) /\ UNCHANGED faults

Event(type, text) == [type |-> type, text |-> text]

\* Send fails once the client is gone.
Emit(type, text) ==
  /\ connected
  /\ events' = Append(events, Event(type, text))

\* An event that cannot be sent before the answer is stored cancels the run.
EmitFails ==
  /\ ~connected
  /\ Fail("cancelled", "internal", FALSE)

\* A run that has ended is ended again.
Mutant_FailAnyRun(status, v) == v

\* What the fail closure's UPDATE does to the run.
AfterFail(status, v) == IF status = "running" THEN v ELSE status

-----------------------------------------------------------------------------
(* The request. *)

\* validRun, the snapshot's hash, the adapter, and StartRun's own checks.
Reject ==
  /\ pc = "request"
  /\ \E error \in {"invalid", "notfound", "conflict"} : Returns(error)
  /\ UNCHANGED <<provider, answer, leaving, sent, row, client, faults>>

StartRun ==
  /\ pc = "request"
  /\ run' = "running"
  /\ \/ pc' = "resuming" /\ UNCHANGED <<verdict, faults>>
     \/ LostReply
  /\ UNCHANGED <<provider, answer, leaving, sent, stored, client>>

\* StartOrResume: the interaction, perhaps one the request has just cancelled.
StartOrResume ==
  /\ pc = "resuming"
  /\ \/ /\ leaving' \in BOOLEAN
        /\ pc' = "announcing"
        /\ UNCHANGED <<verdict, faults>>
     \/ \E error \in {"notfound", "conflict", "invalid"} :
          Fail("failed", error, FALSE) /\ UNCHANGED <<leaving, faults>>
     \/ Lost /\ UNCHANGED leaving
  /\ UNCHANGED <<provider, answer, sent, row, client>>

EmitStarted ==
  /\ pc = "announcing"
  /\ \/ /\ Emit("started", <<>>)
        /\ pc' = IF leaving THEN "leaving" ELSE "preparing"
        /\ UNCHANGED verdict
     \/ EmitFails /\ UNCHANGED events
  /\ UNCHANGED <<provider, answer, leaving, sent, row, rpc, connected, faults>>

-----------------------------------------------------------------------------
(* A cancelled interaction: its run completes with a fixed text. *)

LeavingText == <<"cancelled">>

\* The one call whose error is returned without closing the run.
CompleteRun ==
  /\ pc = "leaving"
  /\ \/ /\ run' = "completed" /\ stored' = LeavingText /\ content' = LeavingText
        /\ (pc' = "left" /\ UNCHANGED <<verdict, faults>>) \/ LostReply
     \/ UNCHANGED <<row, content>> /\ LostReply
     \/ UNCHANGED <<row, content, faults>> /\ Returns("conflict")
  /\ UNCHANGED <<provider, schema, context, first, reply, leaving, sent, client>>

\* The one event whose error is dropped.
EmitLeft ==
  /\ pc = "left"
  /\ pc' = "completed"
  /\ \/ Emit("delta", LeavingText) /\ sent' = 1
     \/ ~connected /\ UNCHANGED <<sent, events>>
  /\ UNCHANGED <<provider, answer, leaving, row, verdict, rpc, connected, faults>>

-----------------------------------------------------------------------------
(* Preparation, and its outcomes that need no model. *)

PreparationFails ==
  /\ pc = "preparing"
  /\ \E error \in CallErrors :
       /\ connected => error # "canceled"
       /\ Fail("failed", error, TRUE)
  /\ UNCHANGED <<provider, answer, leaving, sent, row, client, faults>>

Prepare ==
  /\ pc = "preparing"
  /\ \/ pc' = "asking" /\ UNCHANGED <<schema, context, content>>
     \/ pc' = "saving" /\ content' = <<"unsupported">> /\ UNCHANGED <<schema, context>>
     \/ /\ pc' = "saving" /\ UNCHANGED content
        /\ \E p \in Preparations : schema' = Schema(p) /\ context' = Traced(p)
  /\ UNCHANGED <<provider, first, reply, leaving, sent, row, verdict, client, faults>>

\* CreateClarification: the question is the run's message.
CreateClarification ==
  /\ pc = "asking"
  /\ \/ /\ run' = "clarification_required" /\ stored' = <<"question">>
        /\ (pc' = "asked" /\ UNCHANGED <<verdict, faults>>) \/ Lost
     \/ UNCHANGED row /\ (Lost \/ Refused)
  /\ UNCHANGED <<provider, answer, leaving, sent, client>>

EmitClarification ==
  /\ pc = "asked"
  /\ \/ Emit("clarification", <<"question">>) /\ Returns("none")
     \/ ~connected /\ Returns("internal") /\ UNCHANGED events
  /\ UNCHANGED <<provider, answer, leaving, sent, row, rpc, connected, faults>>

\* SaveInteraction as ready: a request the pipeline does not support has its
\* text already and is not generated.
SaveReady ==
  /\ pc = "saving"
  /\ \/ /\ pc' = IF content = <<>> THEN "savingGenerating" ELSE "streaming"
        /\ UNCHANGED <<verdict, faults>>
     \/ Lost \/ Refused
  /\ UNCHANGED <<provider, answer, leaving, sent, row, client>>

SaveGenerating ==
  /\ pc = "savingGenerating"
  /\ \/ /\ pc' = "generating"
        /\ stream' = Called("answer")
        /\ UNCHANGED <<verdict, faults>>
     \/ UNCHANGED stream /\ (Lost \/ Refused)
  /\ UNCHANGED <<config, access, answer, leaving, sent, row, client>>

-----------------------------------------------------------------------------
(* Generation and validation. *)

Calls == pc \in {"generating", "repairing"}

\* The client's context is the request's: the call can be cancelled or overdue
\* while it waits for a response.
CallProvider ==
  /\ Calls
  /\ \/ ReplyAtOnce \/ SendFails \/ SendSucceeds \/ SendInterrupted("deadline")
     \/ ~connected /\ SendInterrupted("canceled")
  /\ UNCHANGED <<config, access, pc, answer, leaving, sent, row, verdict, client, faults>>

ReceiveObject ==
  /\ Calls
  /\ Receive \/ ProviderError
  /\ UNCHANGED <<config, access, pc, answer, leaving, sent, row, verdict, client, faults>>

\* A stream that has begun is waited for until the provider ends it.
Mutant_WaitForProvider ==
  /\ Calls
  /\ stream.objects > 0
  /\ StreamBreaks
  /\ UNCHANGED <<config, access, pc, answer, leaving, sent, row, verdict, client, faults>>

StreamEnds ==
  /\ Calls
  /\ StreamBreaks
  /\ UNCHANGED <<config, access, pc, answer, leaving, sent, row, verdict, client, faults>>

SaidBy(adapter) == IF adapter = "anthropic" THEN {FixedReply} ELSE Replies

\* generateBuffered returned.
Generated ==
  /\ pc = "generating"
  /\ stream.step = "ended"
  /\ IF stream.result = "ok"
     THEN /\ first' \in SaidBy(access.adapter)
          /\ reply' = first'
          /\ pc' = "judging"
          /\ UNCHANGED verdict
     ELSE /\ IF stream.result = "canceled" THEN Fail("cancelled", "canceled", FALSE)
             ELSE IF stream.result = "deadline" THEN Fail("failed", "deadline", TRUE)
             ELSE Fail("failed", "internal", TRUE)
          /\ UNCHANGED <<first, reply>>
  /\ UNCHANGED <<provider, schema, context, leaving, content, sent, row, client, faults>>

\* Any rejected answer is sent for repair.
Mutant_RepairAnything ==
  /\ pc = "judging"
  /\ stream.purpose = "answer"
  /\ Errors(reply, context) # {}
  /\ stream' = Called("repair")
  /\ pc' = "repairing"
  /\ UNCHANGED <<config, access, answer, leaving, sent, row, verdict, client, faults>>

\* Validate: one repair, of an answer that cannot be read, with a call budget of
\* its own.
Repair ==
  /\ pc = "judging"
  /\ stream.purpose = "answer"
  /\ Repairable(Errors(reply, context))
  /\ stream' = Called("repair")
  /\ pc' = "repairing"
  /\ UNCHANGED <<config, access, answer, leaving, sent, row, verdict, client, faults>>

Accept ==
  /\ pc = "judging"
  /\ Errors(reply, context) = {}
  /\ content' = Rendered(Response(reply, context))
  /\ pc' = "streaming"
  /\ UNCHANGED <<provider, schema, context, first, reply, leaving, sent, row, verdict, client, faults>>

Refuse ==
  /\ pc = "judging"
  /\ Errors(reply, context) # {}
  /\ stream.purpose = "repair" \/ ~Repairable(Errors(reply, context))
  /\ Fail("failed", "internal", TRUE)
  /\ UNCHANGED <<provider, answer, leaving, sent, row, client, faults>>

Repaired ==
  /\ pc = "repairing"
  /\ stream.step = "ended"
  /\ IF stream.result = "ok"
     THEN /\ reply' \in SaidBy(access.adapter)
          /\ pc' = "judging"
          /\ UNCHANGED verdict
     ELSE /\ Fail("failed", IF stream.result \in {"canceled", "deadline"}
                            THEN stream.result ELSE "internal", TRUE)
          /\ UNCHANGED reply
  /\ UNCHANGED <<provider, schema, context, first, leaving, content, sent, row, client, faults>>

-----------------------------------------------------------------------------
(* The answer is sent, and then stored. *)

Deltas == Pieces(content, DeltaSize)

SendDelta ==
  /\ pc = "streaming"
  /\ sent < Len(Deltas)
  /\ \/ /\ Emit("delta", Deltas[sent + 1])
        /\ sent' = sent + 1
        /\ UNCHANGED <<pc, verdict>>
     \/ EmitFails /\ UNCHANGED <<sent, events>>
  /\ UNCHANGED <<provider, answer, leaving, row, rpc, connected, faults>>

\* The answer is reported before its storage is known.
Mutant_CompletesAnyway ==
  /\ pc = "streaming"
  /\ sent = Len(Deltas)
  /\ \/ run' = "completed" /\ stored' = content /\ UNCHANGED faults
     \/ (\E error \in CallErrors : Interrupted(error)) /\ UNCHANGED row
  /\ pc' = "completed"
  /\ UNCHANGED <<provider, answer, leaving, sent, verdict, client>>

\* CompleteInteractionRun: message, run and interaction in one transaction.
CompleteInteractionRun ==
  /\ pc = "streaming"
  /\ sent = Len(Deltas)
  /\ \/ /\ run' = "completed" /\ stored' = content
        /\ (pc' = "completed" /\ UNCHANGED <<verdict, faults>>) \/ Lost
     \/ UNCHANGED row /\ (Lost \/ Refused)
  /\ UNCHANGED <<provider, answer, leaving, sent, client>>

EmitCompleted ==
  /\ pc = "completed"
  /\ \/ Emit("completed", <<>>) /\ Returns("none")
     \/ ~connected /\ Returns("internal") /\ UNCHANGED events
  /\ UNCHANGED <<provider, answer, leaving, sent, row, rpc, connected, faults>>

-----------------------------------------------------------------------------
(* Failure, and the end of the call. *)

\* The fail closure runs whether or not the client is there, its own error is
\* dropped, and it ends a run that is still running only.
Close ==
  /\ pc = "failing"
  /\ \/ run' = AfterFail(run, verdict.status) /\ UNCHANGED faults
     \/ faults < MaxFaults /\ faults' = faults + 1 /\ UNCHANGED run
  /\ pc' = IF verdict.tells THEN "telling" ELSE "returning"
  /\ UNCHANGED <<provider, answer, leaving, sent, stored, verdict, client>>

\* The failures that are told in the stream; that they could not be is dropped.
EmitFailed ==
  /\ pc = "telling"
  /\ pc' = "returning"
  /\ Emit("failed", <<>>) \/ (~connected /\ UNCHANGED events)
  /\ UNCHANGED <<provider, answer, leaving, sent, row, verdict, rpc, connected, faults>>

Told(type) == {i \in DOMAIN events : events[i].type = type}

\* Server.Run returns the status: failedSent is that the event of a failure was
\* sent.
EndCall ==
  /\ pc = "returning"
  /\ pc' = "ended"
  /\ rpc' = Outcome(verdict.error, Told("failed") # {})
  /\ UNCHANGED <<provider, answer, leaving, sent, row, verdict, events, connected, faults>>

\* The process dies: the client sees the connection go, and may not have received
\* the last of what was sent.
Crash ==
  /\ pc \notin {"request", "ended"}
  /\ faults < MaxFaults
  /\ faults' = faults + 1
  /\ pc' = "ended"
  /\ rpc' = "Unavailable"
  /\ \E n \in 0 .. Len(events) : events' = SubSeq(events, 1, n)
  /\ UNCHANGED <<provider, answer, leaving, sent, row, verdict, connected>>

Disconnect ==
  /\ pc \notin {"request", "ended"}
  /\ connected
  /\ connected' = FALSE
  /\ UNCHANGED <<provider, pc, answer, leaving, sent, row, verdict, events, rpc, faults>>

\* The call is over.
Rest ==
  /\ pc = "ended"
  /\ UNCHANGED vars

Init ==
  /\ \E s \in Settings : Load(s) /\ Guarded(s) /\ s.grpc /\ config = Kept(s)
  /\ access \in Accesses
  /\ stream = NoCall
  /\ pc = "request"
  /\ schema = NoSchema
  /\ context = NoContext
  /\ first = NoReply
  /\ reply = NoReply
  /\ leaving = FALSE
  /\ content = <<>>
  /\ sent = 0
  /\ run = "absent"
  /\ stored = <<>>
  /\ verdict = [status |-> "none", error |-> "none", tells |-> FALSE]
  /\ events = <<>>
  /\ rpc = "pending"
  /\ connected = TRUE
  /\ faults = 0

\* What Run does by itself, and what the request's timeout does for it.
Handler ==
  \/ StartOrResume \/ EmitStarted \/ CompleteRun \/ EmitLeft
  \/ Prepare \/ PreparationFails \/ CreateClarification \/ EmitClarification
  \/ SaveReady \/ SaveGenerating \/ CallProvider \/ StreamEnds
  \/ Generated \/ Repair \/ Accept \/ Refuse \/ Repaired
  \/ SendDelta \/ CompleteInteractionRun \/ EmitCompleted
  \/ Close \/ EmitFailed \/ EndCall

Next ==
  \/ Reject \/ StartRun \/ Handler \/ ReceiveObject
  \/ Crash \/ Disconnect \/ Rest

Spec == Init /\ [][Next]_vars /\ WF_vars(Handler)

-----------------------------------------------------------------------------
(* Properties. *)

Error == {"none", "invalid", "notfound", "conflict", "canceled", "deadline", "internal"}

\* The text of the deltas the client has received.
ShownBy(es) == FoldLeft(LAMBDA text, e : IF e.type = "delta" THEN text \o e.text ELSE text, <<>>, es)

Shown == ShownBy(events)

TypeOK ==
  /\ access \in Accesses
  /\ stream \in StreamType
  /\ pc \in {"request", "resuming", "announcing", "leaving", "left", "preparing", "asking",
             "asked", "saving", "savingGenerating", "generating", "judging", "repairing",
             "streaming", "completed", "failing", "telling", "returning", "ended"}
  /\ schema \in [entities : SUBSET Entities, docs : SUBSET Chunks]
  /\ context \in Context
  /\ {first, reply} \subseteq Replies \cup {FixedReply, NoReply}
  /\ sent \in 0 .. Len(Deltas)
  /\ run \in {"absent", "running", "completed", "clarification_required", "failed", "cancelled"}
  /\ verdict \in [status : {"none", "failed", "cancelled"}, error : Error, tells : BOOLEAN]
  /\ (pc = "ended") = (rpc # "pending")
  /\ (stored # <<>>) = (run \in {"completed", "clarification_required"})
  /\ faults \in 0 .. MaxFaults

\* What the client was told agrees with what the store was told: a completed
\* run's deltas are the stored text, nobody is told that a completed run failed,
\* and a call that ends well having shown an answer has stored it, although the
\* deltas go out before the store is asked (run.go:162, run.go:71, run.go:109).
ToldIsStored ==
  /\ Told("completed") # {} => run = "completed" /\ stored = Shown
  /\ Told("failed") # {} => run # "completed"
  /\ rpc = "OK" /\ Shown # <<>> /\ Told("failed") = {} => run = "completed" /\ stored = Shown

\* No event follows one that ends a run, and a client that stays learns the
\* outcome once: with the status OK there was such an event, with the status of
\* an error there was none.  Only when the process dies does the status not say:
\* the last event may have been sent before (server.go:109, server.go:120).
OneOutcome ==
  LET last == Told("completed") \cup Told("failed") \cup Told("clarification")
  IN  /\ last \subseteq {Len(events)}
      /\ pc = "ended" /\ connected /\ rpc # "Unavailable" => (rpc = "OK") = (last # {})

\* An answer of the model that was completed cites nothing the context does not
\* confirm, claims no change, and says so when documentation was cut from its
\* citations; an answer that was read and refused for one of the first two is
\* not given a second try (response_validator.go:28).
AnswerIsConfirmed ==
  run = "completed" /\ first # NoReply =>
    /\ ~Fatal(Errors(first, context))
    /\ reply.entities \subseteq AllowedEntities(context.resolved, context.blocks)
    /\ reply.answer = "text"
    /\ ~(reply.docs \subseteq AllowedDocs(context.blocks)) =>
         \E i \in DOMAIN stored : stored[i] = "citations removed"

\* What the model was offered decides, although the answer is checked against
\* what Prepare returned and not against the schema the model was given: an
\* identity is refused exactly when it was not offered, a stored answer cites no
\* other, and it says that documentation was cut from its citations exactly when
\* some was not offered (coordinator.go:136, assembler.go:65,
\* response_validator.go:74).
CitationsWereOffered ==
  /\ pc = "judging" /\ Readable(reply) =>
       ("unconfirmed_identity" \in Errors(reply, context)) = ~(reply.entities \subseteq schema.entities)
  /\ run = "completed" /\ first # NoReply =>
       /\ reply.entities \subseteq schema.entities
       /\ (\E i \in DOMAIN stored : stored[i] = "citations removed") = ~(reply.docs \subseteq schema.docs)

\* Every run that was started ends, although the provider may never answer: the
\* timeout of the request sees to it (adapter.go:98).
AnswerEnds == (pc = "resuming") ~> (pc = "ended")
=============================================================================
