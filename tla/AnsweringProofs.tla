---------------------------- MODULE AnsweringProofs ----------------------------
(***************************************************************************)
(* What holds of one run as its client sees it, for every environment the  *)
(* service may start in, every connection, stream and answer of a model,   *)
(* and any number of faults.                                               *)
(***************************************************************************)
EXTENDS Answering, DataInduction

-----------------------------------------------------------------------------
(* The settings and the stream. *)

ConfigInv ==
  /\ config.bytes \in Nat /\ config.buffer \in Nat
  /\ config.env = "production" => config.secured
  /\ config.env # "development" => ~config.private /\ ~config.http

\* What the service starts with.
LEMMA StartedWith == Init => ConfigInv
<1> SUFFICES ASSUME NEW s \in Settings, Load(s), Guarded(s), s.grpc, config = Kept(s)
             PROVE  ConfigInv
  BY DEF Init
<1>1. config.bytes \in Nat /\ config.buffer \in Nat
  BY LimitsAreNumbers DEF Kept, AtLeast
<1>2. config.env = s.env /\ config.secured = (s.identity /\ s.tls)
      /\ config.private = Value(s, "private") /\ config.http = Value(s, "http")
  BY DEF Kept
<1>3. s.env # "development" => ~Value(s, "private") /\ ~Value(s, "http")
  BY DEF Load
<1>4. s.env = "production" => s.identity /\ s.tls
  BY DEF Guarded
<1> QED
  BY <1>1, <1>2, <1>3, <1>4 DEF ConfigInv

\* What the adapter has read and the provider has sent: the limits hold of a
\* stream that goes on, and are exact for one that has ended.
StreamInv ==
  /\ stream \in [step : {"none", "calling", "reading", "ended"},
                 purpose : {"none", "answer", "repair"},
                 sent : Nat, read : Nat, objects : 0 .. MaxObjects, content : Nat,
                 result : {"none", "ok", "failed", "size", "empty", "buffer", "canceled", "deadline"}]
  /\ stream.read <= stream.sent
  /\ stream.step # "ended" => stream.result = "none"
  /\ stream.step \in {"calling", "reading"} /\ stream.purpose = "answer" =>
       stream.content <= config.buffer
  /\ stream.step = "reading" => access.adapter = "ollama" /\ Endpoint /\ Dialled
  /\ SizeLimitIsExact

LEMMA CallKeepsStream ==
  ASSUME ConfigInv, NEW purpose \in {"answer", "repair"},
         UNCHANGED <<config, access>>, stream' = Called(purpose)
  PROVE  StreamInv'
<1>1. stream' = [step |-> "calling", purpose |-> purpose, sent |-> 0, read |-> 0,
                 objects |-> 0, content |-> 0, result |-> "none"]
  BY DEF Called, NoCall
<1>2. 0 \in 0 .. MaxObjects
  BY StreamAssumption
<1> QED
  BY <1>1, <1>2 DEF ConfigInv, StreamInv, SizeLimitIsExact

LEMMA EndKeepsStream ==
  ASSUME ConfigInv, StreamInv, UNCHANGED <<config, access>>,
         NEW result \in {"ok", "failed", "size", "canceled", "deadline"},
         stream' = Ended(result),
         result = "ok" => access.adapter = "anthropic",
         result = "size" => stream.sent > config.bytes
  PROVE  StreamInv'
<1>1. access.adapter = "anthropic" => access.adapter # "ollama"
  OBVIOUS
<1> QED
  BY <1>1 DEF StreamInv, SizeLimitIsExact, Ended

LEMMA ReceiveKeepsStream ==
  ASSUME ConfigInv, StreamInv, UNCHANGED <<config, access>>, Receive
  PROVE  StreamInv'
<1>1. PICK o \in Objects, done \in BOOLEAN, trailing \in 0 .. 1, ahead \in 0 .. 1 :
        ahead <= trailing /\ stream' = Received(o, done, trailing, ahead)
  BY DEF Receive
<1>2. o.size \in Nat /\ o.content \in Nat
  BY StreamAssumption
<1>3. /\ stream.step = "reading" /\ stream.objects < MaxObjects
      /\ MaxObjects \in Nat /\ config.bytes \in Nat /\ config.buffer \in Nat
  BY StreamAssumption DEF Receive, ConfigInv
<1> DEFINE sent0    == stream.sent + o.size + trailing
           end      == stream.read + o.size
           content0 == stream.content + o.content
           read0    == Least(end + ahead, Window)
           next     == [stream EXCEPT !.sent = sent0, !.read = read0,
                                      !.objects = @ + 1, !.content = content0]
<1>4. /\ sent0 \in Nat /\ end \in Nat /\ content0 \in Nat /\ read0 \in Nat
      /\ read0 <= sent0 /\ end <= sent0
      /\ read0 = Window \/ read0 < Window
      /\ Window = config.bytes + 1
  BY <1>1, <1>2, <1>3 DEF StreamInv, Least, Window
<1>5. stream' =
        IF end > Window
        THEN [next EXCEPT !.content = stream.content, !.step = "ended", !.result = "size"]
        ELSE IF o.content > 0 /\ OverBuffer(content0)
        THEN [next EXCEPT !.step = "ended", !.result = "buffer"]
        ELSE IF done THEN [next EXCEPT !.step = "ended", !.result = Finished(next)]
        ELSE next
  BY <1>1 DEF Received
<1>6. o.content = 0 => content0 = stream.content
  BY <1>2 DEF StreamInv
<1> HIDE DEF sent0, end, content0, read0
<1>7. stream.objects + 1 \in 0 .. MaxObjects
  BY <1>3 DEF StreamInv
<1>8. CASE end > Window
  <2>1. stream' = [stream EXCEPT !.sent = sent0, !.read = read0, !.objects = @ + 1,
                                 !.step = "ended", !.result = "size"]
    BY <1>5, <1>8 DEF StreamInv
  <2>2. /\ stream'.step = "ended" /\ stream'.result = "size"
        /\ stream'.sent = sent0 /\ stream'.read = read0 /\ stream'.content = stream.content
        /\ stream'.purpose = stream.purpose /\ stream'.objects = stream.objects + 1
    BY <2>1 DEF StreamInv
  <2>3. sent0 > config.bytes
    BY <1>3, <1>4, <1>8
  <2> QED
    BY <1>4, <1>7, <2>1, <2>2, <2>3 DEF StreamInv, SizeLimitIsExact
<1>9. CASE ~(end > Window) /\ o.content > 0 /\ OverBuffer(content0)
  BY <1>3, <1>4, <1>5, <1>7, <1>9 DEF StreamInv, SizeLimitIsExact, OverBuffer
<1>10. CASE ~(end > Window) /\ ~(o.content > 0 /\ OverBuffer(content0))
  <2>1. stream.purpose = "answer" => content0 <= config.buffer
    BY <1>2, <1>3, <1>4, <1>6, <1>10 DEF StreamInv, OverBuffer
  <2>2. next.read = read0 /\ next.content = content0
    BY DEF StreamInv
  <2>3. CASE done
    <3>1. stream' = [next EXCEPT !.step = "ended", !.result = Finished(next)]
      BY <1>5, <1>10, <2>3
    <3>2. /\ Finished(next) \in {"size", "empty", "ok"}
          /\ Finished(next) = "size" => sent0 > config.bytes
          /\ Finished(next) = "ok" => read0 <= config.bytes /\ content0 > 0
      BY <1>3, <1>4, <2>2 DEF Finished, Exhausted
    <3> HIDE DEF next
    <3>3. next = [stream EXCEPT !.sent = sent0, !.read = read0,
                                !.objects = @ + 1, !.content = content0]
      BY DEF next
    <3> QED
      BY <1>3, <1>4, <1>7, <2>1, <3>1, <3>2, <3>3 DEF StreamInv, SizeLimitIsExact
  <2>4. CASE ~done
    BY <1>3, <1>4, <1>5, <1>7, <1>10, <2>1, <2>4
       DEF StreamInv, SizeLimitIsExact, Endpoint, Dialled
  <2> QED
    BY <2>3, <2>4
<1> QED
  BY <1>8, <1>9, <1>10

ProviderInv == ConfigInv /\ StreamInv

LEMMA ProviderStarts == Init => ProviderInv
BY StartedWith, StreamAssumption
   DEF Init, ProviderInv, StreamInv, NoCall, SizeLimitIsExact, ConfigInv

LEMMA SameProvider == ASSUME ProviderInv, UNCHANGED provider PROVE ProviderInv'
BY DEF ProviderInv, ConfigInv, StreamInv, SizeLimitIsExact, provider, Endpoint, Dialled

LEMMA ProviderKeeps == ASSUME ProviderInv, [Next]_vars PROVE ProviderInv'
<1>1. CASE SaveGenerating
  <2>1. CASE UNCHANGED stream
    BY <1>1, <2>1, SameProvider DEF SaveGenerating, provider
  <2>2. CASE stream' = Called("answer")
    BY <1>1, <2>2, CallKeepsStream DEF SaveGenerating, ProviderInv, ConfigInv
  <2> QED
    BY <1>1, <2>1, <2>2 DEF SaveGenerating
<1>2. CASE Repair
  BY <1>2, CallKeepsStream DEF Repair, ProviderInv, ConfigInv
<1>3. CASE CallProvider
  <2>1. UNCHANGED <<config, access>>
    BY <1>3 DEF CallProvider
  <2>2. CASE ReplyAtOnce \/ SendFails \/ SendInterrupted("deadline") \/ SendInterrupted("canceled")
    BY <2>1, <2>2, EndKeepsStream
       DEF ProviderInv, ConfigInv, ReplyAtOnce, SendFails, SendInterrupted
  <2>3. CASE SendSucceeds
    BY <2>1, <2>3 DEF ProviderInv, ConfigInv, StreamInv, SizeLimitIsExact, SendSucceeds,
                      Endpoint, Dialled
  <2> QED
    BY <1>3, <2>2, <2>3 DEF CallProvider
<1>4. CASE ReceiveObject
  <2>1. UNCHANGED <<config, access>>
    BY <1>4 DEF ReceiveObject
  <2>2. CASE Receive
    BY <2>1, <2>2, ReceiveKeepsStream DEF ProviderInv, ConfigInv
  <2>3. CASE ProviderError
    BY <2>1, <2>3, EndKeepsStream DEF ProviderInv, ConfigInv, ProviderError
  <2> QED
    BY <1>4, <2>2, <2>3 DEF ReceiveObject
<1>5. CASE StreamEnds
  <2>1. Exhausted(stream) => stream.sent > config.bytes
    BY DEF ProviderInv, ConfigInv, StreamInv, Exhausted, Window
  <2>2. UNCHANGED <<config, access>>
    BY <1>5 DEF StreamEnds
  <2>3. CASE Exhausted(stream)
    BY <1>5, <2>1, <2>2, <2>3, EndKeepsStream
       DEF ProviderInv, ConfigInv, StreamEnds, StreamBreaks
  <2>4. CASE ~Exhausted(stream)
    BY <1>5, <2>2, <2>4, EndKeepsStream DEF ProviderInv, ConfigInv, StreamEnds, StreamBreaks
  <2> QED
    BY <2>3, <2>4
<1>6. CASE Reject \/ StartRun \/ StartOrResume \/ EmitStarted \/ CompleteRun \/ EmitLeft
  BY <1>6, SameProvider DEF Reject, StartRun, StartOrResume, EmitStarted, CompleteRun, EmitLeft
<1>7. CASE \/ Prepare \/ PreparationFails \/ CreateClarification \/ EmitClarification \/ SaveReady
           \/ Generated \/ Accept \/ Refuse \/ Repaired
  BY <1>7, SameProvider
     DEF Prepare, PreparationFails, CreateClarification, EmitClarification, SaveReady,
         Generated, Accept, Refuse, Repaired
<1>8. CASE \/ SendDelta \/ CompleteInteractionRun \/ EmitCompleted \/ Close \/ EmitFailed \/ EndCall
           \/ Crash \/ Disconnect \/ Rest \/ UNCHANGED vars
  BY <1>8, SameProvider
     DEF SendDelta, CompleteInteractionRun, EmitCompleted, Close, EmitFailed, EndCall,
         Crash, Disconnect, Rest, vars
<1> QED
  BY <1>1, <1>2, <1>3, <1>4, <1>5, <1>6, <1>7, <1>8 DEF Next, Handler

LEMMA ProviderIsKept == Spec => []ProviderInv
BY ProviderStarts, ProviderKeeps, PTL DEF Spec

\* No response within the limit is refused for its size and none past it is
\* taken, whatever the sizes of its objects (adapter.go:121).
THEOREM TheSizeLimitIsExact == Spec => []SizeLimitIsExact
<1>1. ProviderInv => SizeLimitIsExact
  BY DEF ProviderInv, StreamInv
<1> QED
  BY <1>1, ProviderIsKept, PTL

\* Whatever the environment says, a service that starts calls models and serves
\* callers as the environment it runs in requires (config.go:146, grpc.go:40).
THEOREM ItIsGuardedWhereItRuns == Spec => []GuardedWhereItRuns
<1>1. ProviderInv => GuardedWhereItRuns
  BY DEF ProviderInv, ConfigInv, StreamInv, GuardedWhereItRuns, Endpoint, Dialled
<1> QED
  BY <1>1, ProviderIsKept, PTL

-----------------------------------------------------------------------------
(* The answer. *)

\* What may be stored of an answer of the model, given in c.
Confirmed(c) ==
  /\ ~Fatal(Errors(first, context))
  /\ reply.entities \subseteq AllowedEntities(context.resolved, context.blocks)
  /\ reply.answer = "text"
  /\ (\E i \in DOMAIN c : c[i] = "citations removed") = ~(reply.docs \subseteq AllowedDocs(context.blocks))

StoredIsConfirmed == run = "completed" /\ first # NoReply => Confirmed(stored)

\* The request offers what the trace allows: both were made from the blocks that
\* fit.
Offered ==
  schema = [entities |-> AllowedEntities(context.resolved, context.blocks),
            docs     |-> AllowedDocs(context.blocks)]

BeforeAnswer == {"request", "resuming", "announcing", "leaving", "left", "preparing", "asking",
                 "asked", "saving", "savingGenerating", "generating"}

\* The first answer is the one judged until it is sent for repair, which only
\* an answer without a fatal error is.
AnswerInv ==
  /\ first \in Reply /\ reply \in Reply
  /\ pc \in BeforeAnswer => first = NoReply
  /\ pc = "generating" => stream.purpose = "answer"
  /\ pc = "repairing" => stream.purpose = "repair" /\ ~Fatal(Errors(first, context))
  /\ pc = "judging" =>
       \/ stream.purpose = "answer" /\ reply = first
       \/ stream.purpose = "repair" /\ ~Fatal(Errors(first, context))
  /\ pc = "streaming" /\ first # NoReply => Confirmed(content)
  /\ run = "completed" => pc \in {"left", "completed", "failing", "telling", "returning", "ended"}
  /\ Offered
  /\ StoredIsConfirmed

\* A text has a line.
States(text, line) == \E i \in DOMAIN text : text[i] = line

LEMMA LastIsStated ==
  ASSUME NEW S, NEW a \in S, NEW b \in S, NEW stated \in Seq(S)
  PROVE  States(<<a>> \o (stated \o <<b>>), b)
<1> DEFINE n == Len(stated)
<1>0. n \in Nat
  OBVIOUS
<1> DEFINE limits == stated \o <<b>>
           text   == <<a>> \o limits
<1>1. limits \in Seq(S) /\ Len(limits) = n + 1 /\ limits[n + 1] = b
  <2>1. <<b>> \in Seq(S) /\ Len(<<b>>) = 1 /\ <<b>>[1] = b
    OBVIOUS
  <2> QED
    BY <1>0, <2>1
<1> HIDE DEF limits, n
<1>2. text \in Seq(S) /\ Len(text) = n + 2 /\ text[n + 2] = b
  <2>1. <<a>> \in Seq(S) /\ Len(<<a>>) = 1
    OBVIOUS
  <2> QED
    BY <1>0, <1>1, <2>1
<1> HIDE DEF text
<1>3. n + 2 \in DOMAIN text
  BY <1>0, <1>2
<1>4. States(text, b)
  BY <1>2, <1>3 DEF States
<1> QED
  BY <1>4 DEF text, limits

LEMMA NothingElseIsStated ==
  ASSUME NEW a, NEW b, NEW c, a # b, c # b, NEW n \in Nat
  PROVE  ~States(<<a>> \o ([i \in 1 .. n |-> c] \o <<>>), b)
<1> DEFINE stated == [i \in 1 .. n |-> c]
           S      == {a, c}
           text   == <<a>> \o (stated \o <<>>)
<1>1. stated \in Seq(S)
  OBVIOUS
<1>2. <<a>> \in Seq(S) /\ stated \o <<>> \in Seq(S)
  BY <1>1
<1>3. text \in Seq(S)
  BY <1>2
<1> HIDE DEF text
<1>4. \A i \in DOMAIN text : text[i] \in S
  BY <1>3
<1>5. b \notin S
  OBVIOUS
<1> QED
  BY <1>4, <1>5 DEF States, text

\* A reply without errors is confirmed, and the cut of its citations is said.
LEMMA AcceptedIsConfirmed ==
  ASSUME reply \in Reply, Errors(reply, context) = {}, ~Fatal(Errors(first, context))
  PROVE  Confirmed(Rendered(Response(reply, context)))
<1> DEFINE docs   == AllowedDocs(context.blocks)
           stated == [i \in 1 .. reply.limits |-> "limitation"]
           cut    == IF reply.docs \subseteq docs THEN <<>> ELSE <<"citations removed">>
           text   == Rendered(Response(reply, context))
<1>1. Readable(reply) /\ reply.answer \in Answers /\ reply.limits \in Nat
  BY DEF Errors, Reply
<1>2. /\ reply.entities \subseteq AllowedEntities(context.resolved, context.blocks)
      /\ reply.answer # "empty" /\ reply.answer # "claim"
  BY <1>1 DEF Errors
<1>3. reply.answer = "text"
  BY <1>1, <1>2 DEF Answers
<1>4. text = <<reply.answer>> \o (stated \o cut)
  BY DEF Rendered, Response
<1>5. ASSUME ~(reply.docs \subseteq docs)
      PROVE  States(text, "citations removed")
  <2> DEFINE S == {"text", "limitation", "citations removed"}
  <2>1. stated \in Seq(S)
    <3> DEFINE n == reply.limits
    <3>1. n \in Nat
      BY <1>1
    <3>2. "limitation" \in S
      OBVIOUS
    <3> HIDE DEF n, S
    <3>3. [i \in 1 .. n |-> "limitation"] \in Seq(S)
      BY <3>1, <3>2
    <3> QED
      BY <3>3 DEF n
  <2>2. cut = <<"citations removed">>
    BY <1>5
  <2>3. text = <<reply.answer>> \o (stated \o <<"citations removed">>)
    BY <1>4, <2>2
  <2>4. reply.answer \in S /\ "citations removed" \in S
    BY <1>3
  <2> DEFINE a == reply.answer  b == "citations removed"
  <2>5. a \in S /\ b \in S /\ stated \in Seq(S) /\ text = <<a>> \o (stated \o <<b>>)
    BY <2>1, <2>3, <2>4
  <2> HIDE DEF stated, cut, text, S, a, b
  <2>6. States(<<a>> \o (stated \o <<b>>), b)
    BY <2>5, LastIsStated
  <2>7. States(text, b)
    BY <2>5, <2>6
  <2> QED
    BY <2>7 DEF b
<1>6. ASSUME reply.docs \subseteq docs
      PROVE  ~States(text, "citations removed")
  <2> DEFINE a == reply.answer  b == "citations removed"  c == "limitation"  n == reply.limits
  <2>1. text = <<a>> \o ([i \in 1 .. n |-> c] \o <<>>)
    BY <1>4, <1>6
  <2>2. a # b /\ c # b /\ n \in Nat
    BY <1>1, <1>3
  <2> HIDE DEF text, a, b, c, n
  <2>3. ~States(<<a>> \o ([i \in 1 .. n |-> c] \o <<>>), b)
    BY <2>2, NothingElseIsStated
  <2>4. ~States(text, b)
    BY <2>1, <2>3
  <2> QED
    BY <2>4 DEF b
<1>7. (\E i \in DOMAIN text : text[i] = "citations removed") = ~(reply.docs \subseteq docs)
  <2> HIDE DEF text
  <2> QED BY <1>5, <1>6 DEF States
<1> QED
  BY <1>2, <1>3, <1>7 DEF Confirmed

LEMMA AnswerStarts == Init => AnswerInv
<1>1. NoReply \in Reply
  BY DEF NoReply, Reply, Answers
<1>2. AllowedEntities({}, {}) = {} /\ AllowedDocs({}) = {}
  <2>1. \A P : {x \in {} : x.kind = P} = {}
    OBVIOUS
  <2>2. {b.names : b \in {}} = {} /\ {b.chunk : b \in {}} = {}
    OBVIOUS
  <2> QED
    BY <2>1, <2>2 DEF AllowedEntities, AllowedDocs
<1>3. Init => Offered
  <2>1. Init => /\ schema = [entities |-> {}, docs |-> {}]
                /\ context.resolved = {} /\ context.blocks = {}
    BY DEF Init, NoSchema, NoContext
  <2> QED
    BY <1>2, <2>1 DEF Offered
<1> QED
  BY <1>1, <1>3 DEF Init, AnswerInv, BeforeAnswer, StoredIsConfirmed

\* Nothing of an answer changes, and the handler moves among the places where it
\* does not matter.
LEMMA SameAnswer ==
  ASSUME AnswerInv, UNCHANGED <<schema, context, first, reply>>,
         run' = "completed" => run = "completed",
         run = "completed" => UNCHANGED stored,
         \/ pc' \in BeforeAnswer \ {"generating"} /\ pc \in BeforeAnswer /\ run # "completed"
         \/ pc' \in {"failing", "telling", "returning", "ended"}
         \/ pc' = pc /\ UNCHANGED <<stream, content>>
  PROVE  AnswerInv'
BY DEF AnswerInv, BeforeAnswer, Confirmed, StoredIsConfirmed, Offered

\* The fail closure is never called without an error, nor to complete a run.
FailInv ==
  /\ pc \in {"failing", "telling"} =>
       /\ verdict.status \in {"failed", "cancelled"}
       /\ verdict.error \in Error \ {"none"}
  /\ pc = "telling" => verdict.tells
  /\ pc = "returning" => verdict.error \in Error

LEMMA FailKeeps == ASSUME FailInv, [Next]_vars PROVE FailInv'
<1>1. pc' \notin {"failing", "telling", "returning"} => FailInv'
  BY DEF FailInv
<1>2. CASE pc' = pc /\ UNCHANGED verdict
  BY <1>2 DEF FailInv
<1>3. CASE \E status \in {"failed", "cancelled"}, tells \in BOOLEAN, error \in Error \ {"none"} :
                Fail(status, error, tells)
  BY <1>3 DEF FailInv, Fail
<1>a. CASE \E error \in Error : Returns(error)
  BY <1>a DEF FailInv, Returns
<1> USE DEF Error
<1>4. CASE Reject \/ StartRun \/ EmitLeft \/ CompleteRun \/ EmitClarification \/ EmitCompleted
  BY <1>1, <1>a, <1>4
     DEF Reject, StartRun, EmitLeft, CompleteRun, EmitClarification, EmitCompleted,
         LostReply, CallErrors
<1>b. CASE Close
  BY <1>b DEF Close, FailInv
<1>c. CASE EmitFailed
  BY <1>c DEF EmitFailed, FailInv
<1>5. CASE StartOrResume \/ EmitStarted \/ PreparationFails \/ CreateClarification
  BY <1>1, <1>3, <1>5
     DEF StartOrResume, EmitStarted, PreparationFails, CreateClarification,
         Lost, Refused, EmitFails, CallErrors
<1>6. CASE SaveReady \/ SaveGenerating \/ SendDelta \/ CompleteInteractionRun
  BY <1>1, <1>2, <1>3, <1>6
     DEF SaveReady, SaveGenerating, SendDelta, CompleteInteractionRun,
         Lost, Refused, EmitFails, CallErrors
<1>7. CASE Generated \/ Refuse \/ Repaired
  BY <1>1, <1>3, <1>7 DEF Generated, Refuse, Repaired
<1>8. CASE Prepare \/ Repair \/ Accept \/ EndCall \/ Crash
  BY <1>1, <1>8 DEF Prepare, Repair, Accept, EndCall, Crash
<1>9. CASE CallProvider \/ StreamEnds \/ ReceiveObject \/ Disconnect \/ Rest \/ UNCHANGED vars
  BY <1>2, <1>9 DEF CallProvider, StreamEnds, ReceiveObject, Disconnect, Rest, vars
<1> QED
  BY <1>4, <1>b, <1>c, <1>5, <1>6, <1>7, <1>8, <1>9 DEF Next, Handler

\* A call of the provider goes on, for the purpose it was made for.
LEMMA CallKeepsPurpose ==
  ASSUME ProviderInv, CallProvider \/ ReceiveObject \/ StreamEnds
  PROVE  stream'.purpose = stream.purpose
<1>1. /\ stream = [stream EXCEPT !.step = stream.step]
      /\ \A result : Ended(result).purpose = stream.purpose
  BY DEF ProviderInv, StreamInv, Ended
<1>2. CASE CallProvider
  BY <1>1, <1>2
     DEF CallProvider, ReplyAtOnce, SendFails, SendSucceeds, SendInterrupted,
         ProviderInv, StreamInv
<1>3. CASE ReceiveObject
  <2>1. CASE ProviderError
    BY <1>1, <2>1 DEF ProviderError
  <2>2. CASE Receive
    BY <2>2 DEF Receive, Received, ProviderInv, StreamInv
  <2> QED
    BY <1>3, <2>1, <2>2 DEF ReceiveObject
<1>4. CASE StreamEnds
  BY <1>1, <1>4 DEF StreamEnds, StreamBreaks
<1> QED
  BY <1>2, <1>3, <1>4

LEMMA AnswerKeeps ==
  ASSUME ProviderInv, FailInv, AnswerInv, [Next]_vars
  PROVE  AnswerInv'
<1>1. CASE Reject \/ StartRun \/ StartOrResume \/ EmitStarted \/ PreparationFails
  BY <1>1, SameAnswer
     DEF Reject, StartRun, StartOrResume, EmitStarted, PreparationFails, BeforeAnswer, AnswerInv,
         answer, row, Returns, LostReply, Lost, Fail, EmitFails
<1>2. CASE CreateClarification \/ EmitClarification
  BY <1>2, SameAnswer
     DEF CreateClarification, EmitClarification, BeforeAnswer, AnswerInv,
         answer, row, Returns, Lost, Refused, Fail
<1>3. CASE SaveReady \/ SaveGenerating
  BY <1>3 DEF SaveReady, SaveGenerating, Called, NoCall, BeforeAnswer, AnswerInv, StoredIsConfirmed,
              Confirmed, Offered, answer, row, Lost, Refused, Fail
<1>4. CASE Prepare
  <2>1. /\ pc = "preparing" /\ pc' \in {"asking", "saving"} /\ UNCHANGED <<first, reply, run, stored>>
        /\ first = NoReply /\ run # "completed"
    BY <1>4 DEF Prepare, BeforeAnswer, AnswerInv, row
  <2>2. Offered'
    BY <1>4 DEF Prepare, AnswerInv, Offered, Schema, Traced
  <2> QED
    BY <2>1, <2>2 DEF BeforeAnswer, AnswerInv, StoredIsConfirmed
<1>5. CASE CompleteRun \/ EmitLeft
  BY <1>5 DEF CompleteRun, EmitLeft, BeforeAnswer, AnswerInv, StoredIsConfirmed, Offered, answer, row,
              Returns, LostReply
<1>6. CASE CallProvider \/ ReceiveObject \/ StreamEnds
  <2>1. stream'.purpose = stream.purpose
    BY <1>6, CallKeepsPurpose
  <2>2. UNCHANGED <<pc, answer, row>>
    BY <1>6 DEF CallProvider, ReceiveObject, StreamEnds
  <2> QED
    BY <2>1, <2>2 DEF AnswerInv, StoredIsConfirmed, Offered, Confirmed, answer, row
<1>7. CASE Generated
  <2>1. pc = "generating" /\ run # "completed" /\ UNCHANGED <<provider, schema, context, row>>
    BY <1>7 DEF Generated, AnswerInv, BeforeAnswer
  <2>2. CASE pc' = "judging"
    <3>1. first' \in Reply /\ reply' = first'
      BY <1>7, <2>2, AnsweringAssumption DEF Generated, SaidBy, Fail
    <3> QED
      BY <2>1, <2>2, <3>1 DEF AnswerInv, StoredIsConfirmed, Offered, provider, row, BeforeAnswer
  <2>3. CASE pc' = "failing"
    BY <1>7, <2>1, <2>3 DEF Generated, AnswerInv, StoredIsConfirmed, Offered, row, BeforeAnswer
  <2> QED
    BY <1>7, <2>2, <2>3 DEF Generated, Fail
<1>8. CASE Repair
  BY <1>8 DEF Repair, Repairable, Called, NoCall, AnswerInv, StoredIsConfirmed, Offered, BeforeAnswer,
              answer, row
<1>9. CASE Accept
  <2>1. /\ pc = "judging" /\ pc' = "streaming" /\ Errors(reply, context) = {}
        /\ content' = Rendered(Response(reply, context))
        /\ UNCHANGED <<schema, context, first, reply, run, stored>>
    BY <1>9 DEF Accept, row
  <2>2. ~Fatal(Errors(first, context))
    BY <2>1 DEF AnswerInv, Fatal
  <2>3. Confirmed(content')
    BY <2>1, <2>2, AcceptedIsConfirmed DEF AnswerInv
  <2> QED
    BY <2>1, <2>3 DEF AnswerInv, StoredIsConfirmed, Offered, BeforeAnswer, Confirmed
<1>10. CASE Refuse
  BY <1>10, SameAnswer DEF Refuse, Fail, answer, row
<1>11. CASE Repaired
  <2>1. /\ pc = "repairing" /\ run # "completed"
        /\ UNCHANGED <<provider, schema, context, first, row>>
        /\ pc' \in {"judging", "failing"} /\ reply' \in Reply
    BY <1>11, AnsweringAssumption DEF Repaired, AnswerInv, BeforeAnswer, SaidBy, Fail
  <2> QED
    BY <2>1 DEF AnswerInv, StoredIsConfirmed, Offered, BeforeAnswer, provider, row
<1>12. CASE SendDelta
  BY <1>12, SameAnswer DEF SendDelta, EmitFails, Fail, answer, row, provider
<1>13. CASE CompleteInteractionRun
  BY <1>13 DEF CompleteInteractionRun, AnswerInv, StoredIsConfirmed, Offered, Confirmed, BeforeAnswer,
               Lost, Refused, Fail, answer, row
<1>14. CASE EmitCompleted \/ Close \/ EmitFailed \/ EndCall \/ Crash
  <2>1. run' = "completed" => run = "completed"
    BY <1>14 DEF EmitCompleted, Close, EmitFailed, EndCall, Crash, AfterFail, FailInv, row
  <2> QED
    BY <1>14, <2>1, SameAnswer DEF EmitCompleted, Close, EmitFailed, EndCall, Crash, Returns, answer, row
<1>15. CASE Disconnect \/ Rest \/ UNCHANGED vars
  BY <1>15, SameAnswer DEF Disconnect, Rest, vars, answer, row, provider
<1> QED
  BY <1>1, <1>2, <1>3, <1>4, <1>5, <1>6, <1>7, <1>8, <1>9, <1>10, <1>11, <1>12, <1>13, <1>14, <1>15
     DEF Next, Handler

LEMMA AnswerIsKept == Spec => []AnswerInv
<1>1. Init => FailInv
  BY DEF Init, FailInv
<1> QED
  BY <1>1, AnswerStarts, AnswerKeeps, FailKeeps, ProviderIsKept, PTL DEF Spec

\* An answer that is stored was judged against the context it was given, and no
\* repair has passed a citation or a claim that was refused (response_validator.go:28).
THEOREM StoredAnswersAreConfirmed == Spec => []AnswerIsConfirmed
<1>1. AnswerInv => AnswerIsConfirmed
  BY DEF AnswerInv, StoredIsConfirmed, Confirmed, AnswerIsConfirmed
<1> QED
  BY <1>1, AnswerIsKept, PTL

\* What the model was offered decides which citations are refused, stored and cut,
\* although the validation never sees the schema (coordinator.go:136).
THEOREM AnswersCiteWhatWasOffered == Spec => []CitationsWereOffered
<1>1. AnswerInv => CitationsWereOffered
  <2> SUFFICES ASSUME AnswerInv PROVE CitationsWereOffered
    OBVIOUS
  <2>1. /\ schema.entities = AllowedEntities(context.resolved, context.blocks)
        /\ schema.docs = AllowedDocs(context.blocks)
    BY DEF AnswerInv, Offered
  <2>2. Readable(reply) => ("unconfirmed_identity" \in Errors(reply, context))
                             = ~(reply.entities \subseteq schema.entities)
    BY <2>1 DEF Errors
  <2>3. run = "completed" /\ first # NoReply => Confirmed(stored)
    BY DEF AnswerInv, StoredIsConfirmed
  <2> QED
    BY <2>1, <2>2, <2>3 DEF Confirmed, CitationsWereOffered
<1> QED
  BY <1>1, AnswerIsKept, PTL

-----------------------------------------------------------------------------
(* What the client is told. *)

LastTypes == {"completed", "failed", "clarification"}

\* The last events among es.
LastOf(es) == {i \in DOMAIN es : es[i].type \in LastTypes}

\* The last event is there when the handler returns without an error; with one it
\* is that of a failure or not there.
EventInv ==
  /\ \E S : events \in Seq(S)
  /\ pc \notin {"returning", "ended"} => LastOf(events) = {}
  /\ pc = "returning" =>
       IF verdict.error = "none" THEN LastOf(events) = {Len(events)}
       ELSE \/ LastOf(events) = {}
            \/ LastOf(events) = {Len(events)} /\ Told("failed") = {Len(events)}
  /\ OneOutcome

LEMMA LastIsLastOf == Told("completed") \cup Told("failed") \cup Told("clarification") = LastOf(events)
BY DEF Told, LastOf, LastTypes

LEMMA Appended ==
  ASSUME NEW es, \E S : es \in Seq(S), NEW e
  PROVE  /\ \E S : Append(es, e) \in Seq(S)
         /\ Len(Append(es, e)) \in DOMAIN Append(es, e)
         /\ Append(es, e)[Len(Append(es, e))] = e
         /\ \A i \in DOMAIN Append(es, e) :
              \/ i = Len(Append(es, e))
              \/ i \in DOMAIN es /\ Append(es, e)[i] = es[i]
         /\ \A i \in DOMAIN es : /\ i \in DOMAIN Append(es, e) /\ Append(es, e)[i] = es[i]
                                 /\ i # Len(Append(es, e))
<1>1. PICK S : es \in Seq(S)
  OBVIOUS
<1> DEFINE All == S \cup {e}
           next == Append(es, e)
<1>2. es \in Seq(All) /\ e \in All
  BY <1>1
<1> HIDE DEF All
<1>3. /\ next \in Seq(All) /\ Len(next) = Len(es) + 1 /\ Len(es) \in Nat
      /\ next[Len(es) + 1] = e
      /\ \A i \in 1 .. Len(es) : next[i] = es[i]
  BY <1>2
<1>4. DOMAIN next = 1 .. Len(es) + 1 /\ DOMAIN es = 1 .. Len(es)
  BY <1>2, <1>3
<1> HIDE DEF next
<1>5. \A i \in DOMAIN es : i \in DOMAIN next /\ next[i] = es[i] /\ i # Len(next)
  BY <1>3, <1>4
<1>6. \A i \in DOMAIN next : i = Len(next) \/ (i \in DOMAIN es /\ next[i] = es[i])
  BY <1>3, <1>4
<1> QED
  BY <1>3, <1>4, <1>5, <1>6 DEF next

\* One more event is the last, or not.
LEMMA LastOfAppend ==
  ASSUME NEW es, \E S : es \in Seq(S), NEW e
  PROVE  LastOf(Append(es, e)) = IF e.type \in LastTypes THEN LastOf(es) \cup {Len(Append(es, e))}
                                                         ELSE LastOf(es)
<1> DEFINE next == Append(es, e)
<1>1. /\ Len(next) \in DOMAIN next /\ next[Len(next)] = e
      /\ \A i \in DOMAIN next : i = Len(next) \/ (i \in DOMAIN es /\ next[i] = es[i])
      /\ \A i \in DOMAIN es : i \in DOMAIN next /\ next[i] = es[i] /\ i # Len(next)
  BY Appended
<1> HIDE DEF next
<1>2. CASE e.type \in LastTypes
  BY <1>1, <1>2 DEF LastOf, next
<1>3. CASE e.type \notin LastTypes
  BY <1>1, <1>3 DEF LastOf, next
<1> QED
  BY <1>2, <1>3

\* What arrives of a sequence is the beginning of it.
LEMMA Arrived ==
  ASSUME NEW S, NEW es \in Seq(S), NEW n \in 0 .. Len(es)
  PROVE  /\ SubSeq(es, 1, n) \in Seq(S) /\ Len(SubSeq(es, 1, n)) = n
         /\ \A i \in DOMAIN SubSeq(es, 1, n) : i \in DOMAIN es /\ SubSeq(es, 1, n)[i] = es[i] /\ i <= n
         /\ n = Len(es) => SubSeq(es, 1, n) = es
<1> DEFINE few == SubSeq(es, 1, n)
<1>1. few \in Seq(S) /\ Len(few) = n /\ \A i \in 1 .. n : few[i] = es[i]
  OBVIOUS
<1>2. DOMAIN few = 1 .. n /\ DOMAIN es = 1 .. Len(es) /\ n \in Nat /\ Len(es) \in Nat
  BY <1>1
<1> HIDE DEF few
<1>3. n = Len(es) => few = es
  BY <1>1, <1>2
<1>4. \A i \in DOMAIN few : i \in DOMAIN es /\ few[i] = es[i] /\ i <= n
  BY <1>1, <1>2
<1> QED
  BY <1>1, <1>3, <1>4 DEF few

\* An event that is not the last leaves the handler at work.
LEMMA ToldMore ==
  ASSUME EventInv, pc \notin {"returning", "ended"}, pc' \notin {"returning", "ended"},
         \/ UNCHANGED events
         \/ \E type, text : type \notin LastTypes /\ events' = Append(events, Event(type, text))
  PROVE  EventInv'
<1>1. CASE UNCHANGED events
  BY <1>1 DEF EventInv, OneOutcome, Told
<1>2. CASE \E type, text : type \notin LastTypes /\ events' = Append(events, Event(type, text))
  <2>1. PICK type, text : type \notin LastTypes /\ events' = Append(events, Event(type, text))
    BY <1>2
  <2>2. Event(type, text).type = type
    BY DEF Event
  <2>3. (\E S : events \in Seq(S)) /\ LastOf(events) = {}
    BY DEF EventInv
  <2>4. (\E S : events' \in Seq(S)) /\ LastOf(events') = {}
    <3> DEFINE e == Event(type, text)
    <3>1. events' = Append(events, e) /\ e.type \notin LastTypes
      BY <2>1, <2>2
    <3> HIDE DEF e
    <3>2. \E S : Append(events, e) \in Seq(S)
      BY <2>3, Appended
    <3>3. LastOf(Append(events, e)) = LastOf(events)
      BY <2>3, <3>1, LastOfAppend
    <3> QED
      BY <2>3, <3>1, <3>2, <3>3
  <2>5. OneOutcome'
    BY <2>4, LastIsLastOf DEF OneOutcome, LastOf, Told, LastTypes
  <2> QED
    BY <2>4, <2>5 DEF EventInv
<1> QED
  BY <1>1, <1>2

\* The handler returns: with its last event, or with an error and without one.
LEMMA ToldLast ==
  ASSUME EventInv, pc \notin {"returning", "ended"}, pc' = "returning",
         \/ UNCHANGED events /\ verdict'.error # "none"
         \/ \E type, text :
              /\ type \in LastTypes
              /\ events' = Append(events, Event(type, text))
              /\ verdict'.error = "none" \/ type = "failed"
  PROVE  EventInv'
<1>1. (\E S : events \in Seq(S)) /\ LastOf(events) = {}
  BY DEF EventInv
<1>2. CASE UNCHANGED events /\ verdict'.error # "none"
  <2>1. LastOf(events') = {}
    BY <1>1, <1>2
  <2>2. OneOutcome'
    BY <2>1 DEF OneOutcome, LastOf, Told, LastTypes
  <2> QED
    BY <1>1, <1>2, <2>1, <2>2 DEF EventInv
<1>3. CASE \E type, text :
              /\ type \in LastTypes
              /\ events' = Append(events, Event(type, text))
              /\ verdict'.error = "none" \/ type = "failed"
  <2>1. PICK type, text :
              /\ type \in LastTypes
              /\ events' = Append(events, Event(type, text))
              /\ verdict'.error = "none" \/ type = "failed"
    BY <1>3
  <2>2. Event(type, text).type = type
    BY DEF Event
  <2>3. /\ \E S : events' \in Seq(S)
        /\ Len(events') \in DOMAIN events' /\ events'[Len(events')] = Event(type, text)
        /\ LastOf(events') = {Len(events')}
    <3> DEFINE e == Event(type, text)
    <3>1. events' = Append(events, e) /\ e.type \in LastTypes
      BY <2>1, <2>2
    <3> HIDE DEF e
    <3>2. /\ \E S : Append(events, e) \in Seq(S)
          /\ Len(Append(events, e)) \in DOMAIN Append(events, e)
          /\ Append(events, e)[Len(Append(events, e))] = e
      BY <1>1, Appended
    <3>3. LastOf(Append(events, e)) = LastOf(events) \cup {Len(Append(events, e))}
      BY <1>1, <3>1, LastOfAppend
    <3> QED
      BY <1>1, <3>1, <3>2, <3>3 DEF e
  <2>4. OneOutcome'
    BY <2>3 DEF OneOutcome, LastOf, Told, LastTypes
  <2>5. type = "failed" => Told("failed")' = {Len(events')}
    BY <2>2, <2>3 DEF Told, LastOf, LastTypes
  <2> QED
    BY <2>1, <2>3, <2>4, <2>5 DEF EventInv
<1> QED
  BY <1>2, <1>3

LEMMA EventsKeep ==
  ASSUME FailInv, EventInv, [Next]_vars
  PROVE  EventInv'
<1> USE DEF LastTypes
<1>1. CASE Reject \/ StartRun \/ CompleteRun
  <2>1. pc \notin {"returning", "ended"} /\ UNCHANGED events /\ pc' # "ended"
    BY <1>1 DEF Reject, StartRun, CompleteRun, client, LostReply, Returns
  <2>2. CASE pc' # "returning"
    BY <2>1, <2>2, ToldMore
  <2>3. CASE pc' = "returning"
    <3>1. verdict'.error # "none"
      BY <1>1, <2>3 DEF Reject, StartRun, CompleteRun, LostReply, CallErrors, Returns
    <3> QED
      BY <2>1, <2>3, <3>1, ToldLast
  <2> QED
    BY <2>2, <2>3
<1>2. CASE StartOrResume \/ PreparationFails \/ Prepare \/ CreateClarification \/ SaveReady
           \/ SaveGenerating \/ CompleteInteractionRun
  <2>1. pc \notin {"returning", "ended"} /\ pc' \notin {"returning", "ended"} /\ UNCHANGED events
    BY <1>2 DEF StartOrResume, PreparationFails, Prepare, CreateClarification, SaveReady,
                SaveGenerating, CompleteInteractionRun, client, Lost, Refused, Fail
  <2> QED
    BY <2>1, ToldMore
<1>3. CASE CallProvider \/ ReceiveObject \/ StreamEnds \/ Generated \/ Repair \/ Accept \/ Refuse
           \/ Repaired
  <2>1. pc \notin {"returning", "ended"} /\ pc' \notin {"returning", "ended"} /\ UNCHANGED events
    BY <1>3 DEF CallProvider, ReceiveObject, StreamEnds, Generated, Repair, Accept, Refuse,
                Repaired, Calls, client, Fail
  <2> QED
    BY <2>1, ToldMore
<1>4. CASE EmitStarted \/ EmitLeft
  <2>1. pc \notin {"returning", "ended"} /\ pc' \notin {"returning", "ended"}
    BY <1>4 DEF EmitStarted, EmitLeft, EmitFails, Fail
  <2>2. \/ UNCHANGED events
        \/ events' = Append(events, Event("started", <<>>))
        \/ events' = Append(events, Event("delta", LeavingText))
    BY <1>4 DEF EmitStarted, EmitLeft, Emit
  <2> QED
    BY <2>1, <2>2, ToldMore
<1>5. CASE SendDelta
  <2>1. pc \notin {"returning", "ended"} /\ pc' \notin {"returning", "ended"}
    BY <1>5 DEF SendDelta, EmitFails, Fail
  <2>2. UNCHANGED events \/ events' = Append(events, Event("delta", Deltas[sent + 1]))
    BY <1>5 DEF SendDelta, Emit
  <2> QED
    BY <2>1, <2>2, ToldMore
<1>6. CASE EmitClarification \/ EmitCompleted
  <2>1. pc \notin {"returning", "ended"} /\ pc' = "returning"
    BY <1>6 DEF EmitClarification, EmitCompleted, Returns
  <2>2. \/ UNCHANGED events /\ verdict'.error # "none"
        \/ \E type, text : /\ type \in LastTypes
                            /\ events' = Append(events, Event(type, text))
                            /\ verdict'.error = "none"
    BY <1>6 DEF EmitClarification, EmitCompleted, Emit, Returns
  <2> QED
    BY <2>1, <2>2, ToldLast
<1>7. CASE Close
  <2>1. pc = "failing" /\ UNCHANGED <<events, verdict>> /\ verdict.error # "none"
        /\ pc' \in {"telling", "returning"}
    BY <1>7 DEF Close, client, FailInv
  <2> QED
    BY <2>1, ToldMore, ToldLast
<1>8. CASE EmitFailed
  <2>1. pc = "telling" /\ pc' = "returning" /\ UNCHANGED verdict /\ verdict.error # "none"
    BY <1>8 DEF EmitFailed, FailInv
  <2>2. UNCHANGED events \/ events' = Append(events, Event("failed", <<>>))
    BY <1>8 DEF EmitFailed, Emit
  <2> QED
    BY <2>1, <2>2, ToldLast
<1>9. CASE EndCall
  <2>1. /\ pc = "returning" /\ pc' = "ended" /\ UNCHANGED events
        /\ rpc' = Outcome(verdict.error, Told("failed") # {}) /\ verdict.error \in Error
    BY <1>9 DEF EndCall, FailInv
  <2>2. (rpc' = "OK") = (LastOf(events) # {})
    <3>1. CASE verdict.error = "none"
      BY <2>1, <3>1 DEF EventInv, Outcome, Status
    <3>2. CASE verdict.error # "none" /\ Told("failed") # {}
      <4>1. LastOf(events) # {}
        BY <3>2 DEF Told, LastOf
      <4> QED
        BY <2>1, <3>2, <4>1 DEF Outcome
    <3>3. CASE verdict.error # "none" /\ Told("failed") = {}
      <4>1. LastOf(events) = {}
        BY <2>1, <3>3 DEF EventInv
      <4>2. rpc' # "OK"
        BY <2>1, <3>3 DEF Outcome, Status, Error
      <4> QED
        BY <4>1, <4>2
    <3> QED
      BY <3>1, <3>2, <3>3
  <2>3. LastOf(events) \subseteq {Len(events)}
    BY LastIsLastOf DEF EventInv, OneOutcome
  <2>4. OneOutcome'
    BY <2>1, <2>2, <2>3 DEF OneOutcome, LastOf, Told
  <2> QED
    BY <2>1, <2>4 DEF EventInv
<1>10. CASE Crash
  <2>1. PICK n \in 0 .. Len(events) : events' = SubSeq(events, 1, n)
    BY <1>10 DEF Crash
  <2>2. PICK S : events \in Seq(S)
    BY DEF EventInv
  <2>3. /\ events' \in Seq(S) /\ Len(events') = n
        /\ \A i \in DOMAIN events' : i \in DOMAIN events /\ events'[i] = events[i] /\ i <= n
    BY <2>1, <2>2, Arrived
  <2>4. LastOf(events) \subseteq {Len(events)}
    BY LastIsLastOf DEF EventInv, OneOutcome
  <2>5. \A i \in LastOf(events') : i = Len(events')
    <3> SUFFICES ASSUME NEW i \in LastOf(events') PROVE i = Len(events')
      OBVIOUS
    <3>1. i \in LastOf(events) /\ i <= n
      BY <2>3 DEF LastOf
    <3>2. Len(events) \in Nat /\ n \in 0 .. Len(events) /\ i = Len(events)
      BY <2>2, <2>4, <3>1
    <3> QED
      BY <2>3, <3>1, <3>2
  <2>6. OneOutcome'
    BY <1>10, <2>5 DEF Crash, OneOutcome, LastOf, Told
  <2> QED
    BY <1>10, <2>3, <2>6 DEF Crash, EventInv
<1>11. CASE Disconnect
  <2>1. UNCHANGED <<pc, events, verdict, rpc>> /\ pc # "ended"
    BY <1>11 DEF Disconnect
  <2> QED
    BY <2>1 DEF EventInv, OneOutcome, Told
<1>12. CASE Rest \/ UNCHANGED vars
  <2>1. UNCHANGED <<pc, events, verdict, rpc, connected>>
    BY <1>12 DEF Rest, vars, client
  <2> QED
    BY <2>1 DEF EventInv, OneOutcome, Told
<1> QED
  BY <1>1, <1>2, <1>3, <1>4, <1>5, <1>6, <1>7, <1>8, <1>9, <1>10, <1>11, <1>12 DEF Next, Handler

\* A client that stays has the event that ends its run exactly when the call ends
\* well, and nothing after it; only the status of a process that died leaves it
\* open (server.go:120).
THEOREM OutcomesAreToldOnce == Spec => []OneOutcome
<1>1. Init => FailInv
  BY DEF Init, FailInv
<1>2. Init => EventInv
  <2> SUFFICES ASSUME Init PROVE EventInv
    OBVIOUS
  <2>1. events = <<>> /\ pc = "request"
    BY DEF Init
  <2>2. events \in Seq({}) /\ DOMAIN events = {}
    BY <2>1
  <2> QED
    BY <2>1, <2>2 DEF EventInv, OneOutcome, LastOf, Told
<1>3. EventInv => OneOutcome
  BY DEF EventInv
<1> QED
  BY <1>1, <1>2, <1>3, EventsKeep, FailKeeps, PTL DEF Spec

-----------------------------------------------------------------------------
(* What the client has read. *)

Words == Answers \cup {"limitation", "citations removed", "unsupported", "cancelled", "question"}
Text == Seq(Words)

EventTypes == {"started", "delta", "completed", "failed", "clarification"}
EventRecord == [type : EventTypes, text : Text]

\* What an event adds to the text that is shown.
Adds == [p \in Text \X EventRecord |-> IF p[2].type = "delta" THEN p[1] \o p[2].text ELSE p[1]]

LEMMA AddsIsAStep == Adds \in [Text \X EventRecord -> Text]
<1> SUFFICES ASSUME NEW text \in Text, NEW e \in EventRecord
             PROVE  (IF e.type = "delta" THEN text \o e.text ELSE text) \in Text
  BY DEF Adds
<1>1. e.text \in Text
  BY DEF EventRecord
<1> QED BY <1>1 DEF Text

LEMMA ShownFolds ==
  ASSUME NEW es \in Seq(EventRecord)
  PROVE  FoldsTo(Text, <<>>, Adds, es, ShownBy(es))
<1> DEFINE Table(iter) ==
             iter = [S \in SUBSET DOMAIN es |->
                       IF S = {} THEN <<>>
                       ELSE IF es[Max(S)].type = "delta"
                            THEN iter[S \ {Max(S)}] \o es[Max(S)].text
                            ELSE iter[S \ {Max(S)}]]
<1>1. ShownBy(es) = (CHOOSE iter : Table(iter))[DOMAIN es]
  BY Zenon DEF ShownBy, FoldLeft, MapThenFoldSet
<1>2. <<>> \in Text
  BY DEF Text
<1>3. \A S \in SUBSET DOMAIN es : S # {} => Max(S) \in DOMAIN es /\ es[Max(S)] \in EventRecord
  <2> SUFFICES ASSUME NEW S \in SUBSET DOMAIN es, S # {}
               PROVE  Max(S) \in DOMAIN es /\ es[Max(S)] \in EventRecord
    OBVIOUS
  <2>1. S \in SUBSET (0 .. Len(es)) /\ Len(es) \in Nat
    OBVIOUS
  <2>2. Max(S) \in S
    BY <2>1, MaxIsGreatest
  <2> QED BY <2>2
<1>4. \A text \in Text, e \in EventRecord :
        Adds[<<text, e>>] = IF e.type = "delta" THEN text \o e.text ELSE text
  BY DEF Adds
<1>5. \E iter : Table(iter)
  <2>0. PICK iter : Tabulates(Text, <<>>, Adds, es, iter)
    BY <1>2, AddsIsAStep, TableExists
  <2>1. /\ iter \in [SUBSET DOMAIN es -> Text]
        /\ \A S \in SUBSET DOMAIN es :
             iter[S] = IF S = {} THEN <<>> ELSE Adds[<<iter[S \ {Max(S)}], es[Max(S)]>>]
    BY <2>0 DEF Tabulates
  <2>2. \A S \in SUBSET DOMAIN es :
          S # {} => Adds[<<iter[S \ {Max(S)}], es[Max(S)]>>]
                    = IF es[Max(S)].type = "delta"
                      THEN iter[S \ {Max(S)}] \o es[Max(S)].text
                      ELSE iter[S \ {Max(S)}]
    BY <1>3, <1>4, <2>1
  <2>3. iter = [S \in SUBSET DOMAIN es |-> iter[S]]
    BY <2>1
  <2>4. \A S \in SUBSET DOMAIN es :
          iter[S] = IF S = {} THEN <<>>
                    ELSE IF es[Max(S)].type = "delta"
                         THEN iter[S \ {Max(S)}] \o es[Max(S)].text
                         ELSE iter[S \ {Max(S)}]
    BY <2>1, <2>2, Zenon
  <2>5. Table(iter)
    BY <2>3, <2>4, Zenon
  <2> QED BY <2>5
<1> DEFINE table == CHOOSE iter : Table(iter)
<1>6. Table(table)
  BY <1>5
<1> HIDE DEF table
<1>7. table[{}] = <<>>
  BY <1>6
<1>8. \A S \in SUBSET DOMAIN es :
        S # {} /\ table[S \ {Max(S)}] \in Text =>
          table[S] = Adds[<<table[S \ {Max(S)}], es[Max(S)]>>]
  <2> SUFFICES ASSUME NEW S \in SUBSET DOMAIN es, S # {}, table[S \ {Max(S)}] \in Text
               PROVE  table[S] = Adds[<<table[S \ {Max(S)}], es[Max(S)]>>]
    OBVIOUS
  <2>1. table[S] = IF es[Max(S)].type = "delta"
                   THEN table[S \ {Max(S)}] \o es[Max(S)].text
                   ELSE table[S \ {Max(S)}]
    BY <1>6
  <2> QED BY <1>3, <1>4, <2>1, Zenon
<1>9. FoldsTo(Text, <<>>, Adds, es, table[DOMAIN es])
  BY <1>2, <1>7, <1>8, AddsIsAStep, TableWalks
<1> QED BY <1>1, <1>9 DEF table

LEMMA ShownAtFirst == ShownBy(<<>>) = <<>>
<1>1. <<>> \in Seq(EventRecord)
  OBVIOUS
<1> QED BY <1>1, ShownFolds, FoldOfNothing

LEMMA ShownNext ==
  ASSUME NEW es \in Seq(EventRecord), NEW e \in EventRecord
  PROVE  /\ Append(es, e) \in Seq(EventRecord)
         /\ ShownBy(es) \in Text
         /\ ShownBy(Append(es, e)) = IF e.type = "delta" THEN ShownBy(es) \o e.text ELSE ShownBy(es)
<1>1. FoldsTo(Text, <<>>, Adds, es, ShownBy(es)) /\ <<>> \in Text
  BY ShownFolds DEF Text
<1>2. ShownBy(es) \in Text /\ FoldsTo(Text, <<>>, Adds, Append(es, e), Adds[<<ShownBy(es), e>>])
  BY <1>1, AddsIsAStep, FoldOfAppend
<1>3. Append(es, e) \in Seq(EventRecord)
  OBVIOUS
<1>4. FoldsTo(Text, <<>>, Adds, Append(es, e), ShownBy(Append(es, e)))
  BY <1>3, ShownFolds
<1>5. \A v, w : FoldsTo(Text, <<>>, Adds, Append(es, e), v)
                /\ FoldsTo(Text, <<>>, Adds, Append(es, e), w) => v = w
  BY <1>1, <1>3, AddsIsAStep, FoldIsUnique
<1>6. ShownBy(Append(es, e)) = Adds[<<ShownBy(es), e>>]
  BY <1>2, <1>4, <1>5
<1> QED BY <1>2, <1>3, <1>6 DEF Adds

-----------------------------------------------------------------------------
(* The deltas are the text, piece by piece. *)

\* The number of characters in the first k pieces.
Cut(text, k) == IF k * DeltaSize < Len(text) THEN k * DeltaSize ELSE Len(text)

LEMMA RoundedUp ==
  ASSUME NEW n \in Nat
  PROVE  LET pieces == (n + DeltaSize - 1) \div DeltaSize IN
         pieces \in Nat /\ pieces * DeltaSize >= n /\ \A k \in 0 .. pieces - 1 : k * DeltaSize < n
<1> DEFINE pieces == (n + DeltaSize - 1) \div DeltaSize
<1>0. DeltaSize \in Nat \ {0}
  BY AnsweringAssumption
<1>1. /\ pieces \in Int /\ pieces * DeltaSize <= n + DeltaSize - 1
      /\ n + DeltaSize - 1 < pieces * DeltaSize + DeltaSize
  BY <1>0
<1> HIDE DEF pieces
<1>2. pieces >= 0
  <2> SUFFICES ASSUME pieces <= -1 PROVE FALSE
    BY <1>1
  <2>1. pieces * DeltaSize <= (-1) * DeltaSize
    BY <1>0, <1>1
  <2> QED BY <1>0, <1>1, <2>1
<1>3. ASSUME NEW k \in 0 .. pieces - 1 PROVE k * DeltaSize < n
  <2>1. (k + 1) * DeltaSize <= pieces * DeltaSize
    BY <1>0, <1>1
  <2>2. /\ (k + 1) * DeltaSize = k * DeltaSize + DeltaSize
        /\ k * DeltaSize \in Int /\ pieces * DeltaSize \in Int
    BY <1>0, <1>1
  <2> QED BY <1>0, <1>1, <2>1, <2>2
<1>4. pieces * DeltaSize >= n
  <2>1. pieces * DeltaSize \in Int
    BY <1>0, <1>1
  <2> QED BY <1>0, <1>1, <2>1
<1> QED BY <1>1, <1>2, <1>3, <1>4 DEF pieces

LEMMA TwoParts ==
  ASSUME NEW W, NEW text \in Seq(W), NEW a \in 0 .. Len(text), NEW b \in a .. Len(text)
  PROVE  /\ SubSeq(text, a + 1, b) \in Seq(W)
         /\ SubSeq(text, 1, a) \o SubSeq(text, a + 1, b) = SubSeq(text, 1, b)
<1> DEFINE x == SubSeq(text, 1, a)
           y == SubSeq(text, a + 1, b)
           z == SubSeq(text, 1, b)
<1>1. x \in Seq(W) /\ Len(x) = a /\ \A i \in 1 .. a : x[i] = text[i]
  OBVIOUS
<1>2. y \in Seq(W) /\ Len(y) = b - a /\ \A i \in 1 .. b - a : y[i] = text[a + i]
  OBVIOUS
<1>3. z \in Seq(W) /\ Len(z) = b /\ \A i \in 1 .. b : z[i] = text[i]
  OBVIOUS
<1> HIDE DEF x, y, z
<1>0. a \in Nat /\ b \in Nat /\ a <= b
  OBVIOUS
<1>4. /\ x \o y \in Seq(W) /\ Len(x \o y) = b
      /\ \A i \in 1 .. b : (x \o y)[i] = IF i <= a THEN x[i] ELSE y[i - a]
  <2>1. x \o y \in Seq(W) /\ Len(x \o y) = a + (b - a)
    BY <1>1, <1>2
  <2>2. \A i \in 1 .. a + (b - a) : (x \o y)[i] = IF i <= a THEN x[i] ELSE y[i - a]
    BY <1>1, <1>2
  <2>3. a + (b - a) = b
    BY <1>0
  <2> QED BY <2>1, <2>2, <2>3
<1>5. ASSUME NEW i \in 1 .. b PROVE (x \o y)[i] = z[i]
  <2>1. CASE i <= a
    BY <1>0, <1>1, <1>3, <1>4, <2>1
  <2>2. CASE ~(i <= a)
    <3>1. i - a \in 1 .. b - a /\ a + (i - a) = i
      BY <1>0, <2>2
    <3> QED BY <1>2, <1>3, <1>4, <2>2, <3>1
  <2> QED BY <2>1, <2>2
<1>6. x \o y = z
  BY <1>3, <1>4, <1>5
<1> QED BY <1>2, <1>6 DEF x, y, z

\* splitResponse loses nothing, repeats nothing and keeps the order.
LEMMA PiecesAreTheText ==
  ASSUME NEW W, NEW text \in Seq(W)
  PROVE  LET pieces == Pieces(text, DeltaSize) IN
         /\ Len(pieces) \in Nat
         /\ SubSeq(text, 1, Cut(text, 0)) = <<>>
         /\ SubSeq(text, 1, Cut(text, Len(pieces))) = text
         /\ \A k \in 0 .. Len(pieces) - 1 :
              /\ pieces[k + 1] \in Seq(W)
              /\ SubSeq(text, 1, Cut(text, k)) \o pieces[k + 1] = SubSeq(text, 1, Cut(text, k + 1))
<1> DEFINE n == Len(text)
           count == (n + DeltaSize - 1) \div DeltaSize
           pieces == Pieces(text, DeltaSize)
<1>0. n \in Nat /\ DeltaSize \in Nat \ {0}
  BY AnsweringAssumption
<1>1. count \in Nat /\ count * DeltaSize >= n /\ \A k \in 0 .. count - 1 : k * DeltaSize < n
  BY <1>0, RoundedUp
<1>2. /\ pieces = [k \in 1 .. count |->
                     SubSeq(text, (k - 1) * DeltaSize + 1, IF k * DeltaSize < n THEN k * DeltaSize ELSE n)]
  BY DEF Pieces
<1> HIDE DEF count, pieces
<1>3. Len(pieces) = count
  BY <1>1, <1>2
<1>4. SubSeq(text, 1, Cut(text, 0)) = <<>>
  <2>1. 0 * DeltaSize = 0
    BY <1>0
  <2>2. Cut(text, 0) = 0
    BY <1>0, <2>1 DEF Cut
  <2> QED BY <2>2
<1>5. SubSeq(text, 1, Cut(text, count)) = text
  <2>1. count * DeltaSize \in Nat
    BY <1>0, <1>1
  <2>2. Cut(text, count) = n
    BY <1>0, <1>1, <2>1 DEF Cut
  <2>3. SubSeq(text, 1, n) = text
    OBVIOUS
  <2> QED BY <2>2, <2>3
<1>6. ASSUME NEW k \in 0 .. count - 1
      PROVE  /\ pieces[k + 1] \in Seq(W)
             /\ SubSeq(text, 1, Cut(text, k)) \o pieces[k + 1] = SubSeq(text, 1, Cut(text, k + 1))
  <2>1. k \in Nat /\ k + 1 \in 1 .. count /\ (k + 1) - 1 = k
    BY <1>1
  <2>2. pieces[k + 1] = SubSeq(text, ((k + 1) - 1) * DeltaSize + 1, Cut(text, k + 1))
    BY <1>2, <2>1 DEF Cut
  <2>3. /\ k * DeltaSize \in Nat /\ (k + 1) * DeltaSize \in Nat
        /\ (k + 1) * DeltaSize = k * DeltaSize + DeltaSize /\ k * DeltaSize < n
    BY <1>0, <1>1, <2>1
  <2> DEFINE a == k * DeltaSize
             b == Cut(text, k + 1)
  <2>4. Cut(text, k) = a
    BY <2>3 DEF Cut
  <2>5. a \in 0 .. n /\ b \in a .. n
    BY <1>0, <2>3 DEF Cut
  <2>6. pieces[k + 1] = SubSeq(text, a + 1, b)
    BY <2>1, <2>2
  <2> HIDE DEF a, b, n
  <2>7. /\ SubSeq(text, a + 1, b) \in Seq(W)
        /\ SubSeq(text, 1, a) \o SubSeq(text, a + 1, b) = SubSeq(text, 1, b)
    BY <2>5, TwoParts DEF n
  <2> QED BY <2>4, <2>6, <2>7 DEF b
<1> QED
  BY <1>1, <1>3, <1>4, <1>5, <1>6 DEF pieces

-----------------------------------------------------------------------------
(* What the client is told is what the store is told. *)

\* Until the deltas nothing is sent; then what is shown is the pieces sent, and
\* the text of an answer does not change between the first and its storing.
TextInv ==
  /\ content \in Text /\ stored \in Text /\ events \in Seq(EventRecord)
  /\ pc \in BeforeAnswer \cup {"judging", "repairing"} => sent = 0
  /\ pc \in {"streaming", "completed"} => content # <<>>
  /\ sent \in 0 .. Len(Deltas)
  /\ pc # "ended" => ShownBy(events) = SubSeq(content, 1, Cut(content, sent))

\* Where the run's row is when the handler is where it is.
RowInv ==
  /\ run \in {"absent", "running", "completed", "clarification_required", "failed", "cancelled"}
  /\ (stored # <<>>) = (run \in {"completed", "clarification_required"})
  /\ pc = "request" => run = "absent"
  /\ pc = "left" => run = "completed" /\ stored = content /\ content = LeavingText
  /\ pc = "completed" => run = "completed" /\ stored = content /\ (connected => sent = Len(Deltas))
  /\ (pc = "failing" /\ verdict.tells) \/ pc = "telling" => run # "completed"

LEMMA FixedTexts ==
  /\ <<>> \in Text /\ LeavingText \in Text /\ <<"unsupported">> \in Text /\ <<"question">> \in Text
  /\ LeavingText # <<>> /\ <<"unsupported">> # <<>> /\ <<"question">> # <<>>
<1>1. "cancelled" \in Words /\ "unsupported" \in Words /\ "question" \in Words
  BY DEF Words
<1> QED
  BY <1>1 DEF Text, LeavingText

LEMMA OnePiece ==
  ASSUME NEW text \in Text, Len(text) = 1
  PROVE  Len(Pieces(text, DeltaSize)) = 1 /\ SubSeq(text, 1, Cut(text, 1)) = text
<1> DEFINE count == (1 + DeltaSize - 1) \div DeltaSize
<1>0. DeltaSize \in Nat \ {0}
  BY AnsweringAssumption
<1>1. count \in Nat /\ count * DeltaSize >= 1 /\ \A k \in 0 .. count - 1 : k * DeltaSize < 1
  BY RoundedUp
<1>2. DOMAIN Pieces(text, DeltaSize) = 1 .. count
  BY DEF Pieces
<1> HIDE DEF count
<1>3. count # 0
  BY <1>0, <1>1
<1>4. ~(count >= 2)
  <2> SUFFICES ASSUME count >= 2 PROVE FALSE
    OBVIOUS
  <2>1. 1 * DeltaSize < 1
    BY <1>1
  <2> QED
    BY <1>0, <2>1
<1>5. count = 1
  BY <1>1, <1>3, <1>4
<1>6. Len(Pieces(text, DeltaSize)) = 1
  <2>1. \E n \in Nat : DOMAIN Pieces(text, DeltaSize) = 1 .. n
    BY <1>1, <1>2
  <2> QED
    BY <1>2, <1>5, <2>1
<1> QED
  BY <1>6, PiecesAreTheText DEF Text

LEMMA SentencesAreText ==
  ASSUME NEW S
  PROVE  \A a \in S, b \in S, c \in S, n \in Nat : \A cut \in {<<>>, <<c>>} :
           /\ <<a>> \o ([i \in 1 .. n |-> b] \o cut) \in Seq(S)
           /\ <<a>> \o ([i \in 1 .. n |-> b] \o cut) # <<>>
<1> SUFFICES ASSUME NEW a \in S, NEW b \in S, NEW c \in S, NEW n \in Nat, NEW cut \in {<<>>, <<c>>}
             PROVE  /\ <<a>> \o ([i \in 1 .. n |-> b] \o cut) \in Seq(S)
                    /\ <<a>> \o ([i \in 1 .. n |-> b] \o cut) # <<>>
  OBVIOUS
<1>1. [i \in 1 .. n |-> b] \in Seq(S)
  OBVIOUS
<1>2. cut \in Seq(S)
  <2>1. <<>> \in Seq(S) /\ <<c>> \in Seq(S)
    OBVIOUS
  <2> QED BY <2>1
<1>3. <<a>> \in Seq(S) /\ Len(<<a>>) = 1
  OBVIOUS
<1> DEFINE rest == [i \in 1 .. n |-> b] \o cut
<1>4. rest \in Seq(S)
  BY <1>1, <1>2
<1> HIDE DEF rest
<1>5. <<a>> \o rest \in Seq(S) /\ Len(<<a>> \o rest) >= 1
  BY <1>3, <1>4
<1>6. <<a>> \o rest # <<>>
  BY <1>5
<1> QED BY <1>5, <1>6 DEF rest

LEMMA RenderedIsText ==
  ASSUME reply \in Reply
  PROVE  /\ Rendered(Response(reply, context)) \in Text
         /\ Rendered(Response(reply, context)) # <<>>
<1> DEFINE n    == reply.limits
           cut  == IF reply.docs \subseteq AllowedDocs(context.blocks)
                   THEN <<>> ELSE <<"citations removed">>
           said == reply.answer
<1>1. n \in Nat /\ said \in Words /\ "limitation" \in Words /\ "citations removed" \in Words
  BY DEF Reply, Words
<1>2. Rendered(Response(reply, context)) = <<said>> \o ([i \in 1 .. n |-> "limitation"] \o cut)
  BY DEF Rendered, Response
<1>3. cut \in {<<>>, <<"citations removed">>}
  OBVIOUS
<1> DEFINE b == "limitation"  c == "citations removed"
<1>4. /\ n \in Nat /\ said \in Words /\ b \in Words /\ c \in Words /\ cut \in {<<>>, <<c>>}
      /\ Rendered(Response(reply, context)) = <<said>> \o ([i \in 1 .. n |-> b] \o cut)
  BY <1>1, <1>2, <1>3
<1> HIDE DEF n, cut, said, b, c
<1>5. \A x \in Words, y \in Words, z \in Words, m \in Nat : \A k \in {<<>>, <<z>>} :
           /\ <<x>> \o ([i \in 1 .. m |-> y] \o k) \in Seq(Words)
           /\ <<x>> \o ([i \in 1 .. m |-> y] \o k) # <<>>
  BY SentencesAreText, Zenon
<1>6. /\ <<said>> \o ([i \in 1 .. n |-> b] \o cut) \in Seq(Words)
      /\ <<said>> \o ([i \in 1 .. n |-> b] \o cut) # <<>>
  BY <1>4, <1>5, Zenon
<1> QED BY <1>4, <1>6 DEF Text

\* A choice of text, of which nothing has been sent.
LEMMA NothingIsSent ==
  ASSUME NEW text \in Text
  PROVE  /\ 0 \in 0 .. Len(Pieces(text, DeltaSize))
         /\ SubSeq(text, 1, Cut(text, 0)) = <<>>
<1>1. Len(Pieces(text, DeltaSize)) \in Nat /\ SubSeq(text, 1, Cut(text, 0)) = <<>>
  BY PiecesAreTheText DEF Text
<1> QED BY <1>1

LEMMA RowsKeep ==
  ASSUME AnswerInv, FailInv, TextInv, RowInv, [Next]_vars
  PROVE  RowInv'
<1> USE DEF RowInv
<1>1. CASE Reject \/ StartRun
  BY <1>1 DEF Reject, StartRun, row, Returns, LostReply
<1>2. CASE StartOrResume
  BY <1>2 DEF StartOrResume, row, Lost, Fail
<1>3. CASE EmitStarted
  BY <1>3 DEF EmitStarted, row, Fail, EmitFails
<1>4. CASE CompleteRun
  BY <1>4, FixedTexts DEF CompleteRun, row, Returns, LostReply
<1>5. CASE EmitLeft
  <2>1. /\ pc = "left" /\ pc' = "completed" /\ UNCHANGED <<content, row>>
        /\ (connected /\ sent' = 1) \/ ~connected
        /\ UNCHANGED connected
    BY <1>5 DEF EmitLeft, Emit, answer
  <2>2. Len(Deltas) = 1
    BY <2>1, FixedTexts, OnePiece DEF Deltas, LeavingText
  <2>3. Deltas' = Deltas
    BY <2>1 DEF Deltas
  <2> QED
    BY <2>1, <2>2, <2>3 DEF row
<1>6. CASE Prepare \/ PreparationFails \/ EmitClarification \/ EmitCompleted
  BY <1>6 DEF Prepare, PreparationFails, EmitClarification, EmitCompleted, AnswerInv, row, Returns, Fail
<1>7. CASE CreateClarification
  BY <1>7, FixedTexts DEF CreateClarification, row, Lost, Refused, Fail
<1>8. CASE SaveReady \/ SaveGenerating
  BY <1>8 DEF SaveReady, SaveGenerating, row, Lost, Refused, Fail
<1>9. CASE CallProvider \/ ReceiveObject \/ StreamEnds \/ Repair \/ Accept
  BY <1>9 DEF CallProvider, ReceiveObject, StreamEnds, Calls, Repair, Accept, row
<1>10. CASE Generated \/ Repaired \/ Refuse
  BY <1>10 DEF Generated, Repaired, Refuse, AnswerInv, row, Fail
<1>11. CASE SendDelta
  BY <1>11 DEF SendDelta, EmitFails, Fail, row
<1>12. CASE CompleteInteractionRun
  BY <1>12 DEF CompleteInteractionRun, TextInv, Deltas, answer, row, Lost, Refused, Fail
<1>13. CASE Close
  BY <1>13 DEF Close, AfterFail, FailInv, row
<1>14. CASE EmitFailed \/ EndCall \/ Crash
  BY <1>14 DEF EmitFailed, EndCall, Crash, row
<1>15. CASE Disconnect \/ Rest \/ UNCHANGED vars
  BY <1>15 DEF Disconnect, Rest, vars, row, client, answer, Deltas
<1> QED
  BY <1>1, <1>2, <1>3, <1>4, <1>5, <1>6, <1>7, <1>8, <1>9, <1>10, <1>11, <1>12, <1>13, <1>14, <1>15
     DEF Next, Handler

Unsent == BeforeAnswer \cup {"judging", "repairing"}

\* Nothing is sent and the text is the same.
LEMMA SameText ==
  ASSUME TextInv, UNCHANGED <<content, sent, events>>, stored' \in Text,
         pc' # "ended" => pc # "ended",
         pc' \in Unsent => pc \in Unsent,
         pc' \in {"streaming", "completed"} => content # <<>>
  PROVE  TextInv'
BY DEF TextInv, Unsent, Deltas

\* Nothing is sent and the call is over or the event shows nothing.
LEMMA EventWithoutText ==
  ASSUME TextInv, UNCHANGED <<content, sent>>, stored' \in Text,
         NEW e \in EventRecord, events' = Append(events, e),
         pc' # "ended" => pc # "ended" /\ e.type # "delta",
         pc' \in Unsent => pc \in Unsent,
         pc' \in {"streaming", "completed"} => content # <<>>
  PROVE  TextInv'
<1>1. events \in Seq(EventRecord)
  BY DEF TextInv
<1>2. /\ Append(events, e) \in Seq(EventRecord)
      /\ ShownBy(Append(events, e)) = IF e.type = "delta" THEN ShownBy(events) \o e.text ELSE ShownBy(events)
  BY <1>1, ShownNext
<1> QED
  BY <1>2 DEF TextInv, Unsent, Deltas

\* A text is chosen when nothing has been sent.
LEMMA TextIsChosen ==
  ASSUME TextInv, NEW text \in Text, content' = text, text # <<>>, sent = 0, UNCHANGED <<sent, events>>,
         stored' \in Text, pc # "ended"
  PROVE  TextInv'
<1>1. SubSeq(content, 1, Cut(content, 0)) = <<>>
  BY NothingIsSent DEF TextInv
<1>2. ShownBy(events) = <<>>
  BY <1>1 DEF TextInv
<1>3. 0 \in 0 .. Len(Pieces(text, DeltaSize)) /\ SubSeq(text, 1, Cut(text, 0)) = <<>>
  BY NothingIsSent
<1> QED
  BY <1>2, <1>3 DEF TextInv, Deltas

LEMMA EventIsRecord ==
  ASSUME NEW type \in EventTypes, NEW text \in Text
  PROVE  Event(type, text) \in EventRecord /\ Event(type, text).type = type /\ Event(type, text).text = text
BY DEF Event, EventRecord

LEMMA DeltaKeepsText == ASSUME TextInv, SendDelta PROVE TextInv'
<1>1. /\ pc = "streaming" /\ sent < Len(Deltas) /\ UNCHANGED <<content, stored>>
      /\ \/ Emit("delta", Deltas[sent + 1]) /\ sent' = sent + 1 /\ UNCHANGED pc
         \/ UNCHANGED <<sent, events>> /\ pc' = "failing"
  BY DEF SendDelta, answer, row, EmitFails, Fail
<1>2. CASE UNCHANGED <<sent, events>> /\ pc' = "failing"
  BY <1>1, <1>2, SameText DEF TextInv, Unsent, BeforeAnswer
<1>3. CASE Emit("delta", Deltas[sent + 1]) /\ sent' = sent + 1 /\ UNCHANGED pc
  <2>1. /\ Len(Deltas) \in Nat /\ sent \in 0 .. Len(Deltas) - 1
        /\ Deltas[sent + 1] \in Text
        /\ SubSeq(content, 1, Cut(content, sent)) \o Deltas[sent + 1] = SubSeq(content, 1, Cut(content, sent + 1))
    <3>1. content \in Seq(Words)
      BY DEF TextInv, Text
    <3>2. /\ Len(Deltas) \in Nat
          /\ \A k \in 0 .. Len(Deltas) - 1 :
               /\ Deltas[k + 1] \in Seq(Words)
               /\ SubSeq(content, 1, Cut(content, k)) \o Deltas[k + 1]
                    = SubSeq(content, 1, Cut(content, k + 1))
      BY <3>1, PiecesAreTheText DEF Deltas
    <3>3. sent \in 0 .. Len(Deltas) - 1
      BY <1>1, <3>2 DEF TextInv
    <3> QED BY <3>2, <3>3 DEF Text
  <2> DEFINE e == Event("delta", Deltas[sent + 1])
  <2>2. e \in EventRecord /\ e.type = "delta" /\ e.text = Deltas[sent + 1]
    BY <2>1, EventIsRecord DEF EventTypes
  <2>3. events' = Append(events, e)
    BY <1>3 DEF Emit
  <2> HIDE DEF e
  <2>4. /\ events' \in Seq(EventRecord)
        /\ ShownBy(events') = ShownBy(events) \o e.text
    BY <2>2, <2>3, ShownNext DEF TextInv
  <2>5. ShownBy(events') = SubSeq(content, 1, Cut(content, sent + 1))
    BY <1>1, <2>1, <2>2, <2>4 DEF TextInv
  <2>6. sent + 1 \in 0 .. Len(Deltas)
    BY <2>1
  <2>7. Deltas' = Deltas
    BY <1>1 DEF Deltas
  <2> QED
    BY <1>1, <1>3, <2>4, <2>5, <2>6, <2>7 DEF TextInv, BeforeAnswer
<1> QED BY <1>1, <1>2, <1>3

\* The text of an interaction that was left is one delta.
LEMMA LeavingKeepsText ==
  ASSUME TextInv, RowInv, EmitLeft
  PROVE  TextInv'
<1>1. /\ pc = "left" /\ pc' = "completed" /\ UNCHANGED <<content, stored>>
      /\ content = LeavingText /\ content # <<>> /\ stored' \in Text
      /\ sent = 0
  BY FixedTexts DEF EmitLeft, RowInv, TextInv, answer, row, BeforeAnswer
<1>2. CASE ~connected
  <2>1. UNCHANGED <<sent, events>>
    BY <1>2 DEF EmitLeft, Emit
  <2> QED
    BY <1>1, <2>1, SameText DEF Unsent, BeforeAnswer
<1>3. CASE connected
  <2> DEFINE e == Event("delta", LeavingText)
  <2>1. e \in EventRecord /\ e.type = "delta" /\ e.text = LeavingText
    BY FixedTexts, EventIsRecord DEF EventTypes
  <2>2. events' = Append(events, e) /\ sent' = 1
    BY <1>3 DEF EmitLeft, Emit
  <2> HIDE DEF e
  <2>3. ShownBy(events) = <<>> /\ events \in Seq(EventRecord)
    BY <1>1, FixedTexts, NothingIsSent DEF TextInv
  <2>4. /\ events' \in Seq(EventRecord)
        /\ ShownBy(events') = <<>> \o LeavingText
    BY <2>1, <2>2, <2>3, ShownNext
  <2>5. ShownBy(events') = LeavingText
    BY <2>4, FixedTexts DEF Text
  <2>6. Len(Deltas') = 1 /\ SubSeq(content', 1, Cut(content', 1)) = LeavingText
    BY <1>1, FixedTexts, OnePiece DEF Deltas, LeavingText
  <2> QED
    BY <1>1, <2>2, <2>4, <2>5, <2>6 DEF TextInv, BeforeAnswer
<1> QED
  BY <1>2, <1>3

LEMMA TextKeeps ==
  ASSUME AnswerInv, FailInv, TextInv, RowInv, [Next]_vars
  PROVE  TextInv'
<1>1. CASE Reject \/ StartRun
  BY <1>1, SameText DEF Reject, StartRun, answer, row, client, Returns, LostReply, TextInv, Unsent, BeforeAnswer
<1>2. CASE StartOrResume
  BY <1>2, SameText DEF StartOrResume, answer, row, client, Lost, Fail, TextInv, Unsent, BeforeAnswer
<1>3. CASE EmitStarted
  <2>1. pc = "announcing" /\ UNCHANGED <<content, sent, stored>> /\ pc' \in {"leaving", "preparing", "failing"}
    BY <1>3 DEF EmitStarted, answer, row, EmitFails, Fail
  <2>2. UNCHANGED events \/ events' = Append(events, Event("started", <<>>))
    BY <1>3 DEF EmitStarted, Emit
  <2>3. Event("started", <<>>) \in EventRecord /\ Event("started", <<>>).type = "started"
    BY FixedTexts, EventIsRecord DEF EventTypes
  <2>4. stored' \in Text /\ pc \in Unsent
    BY <2>1 DEF TextInv, Unsent, BeforeAnswer
  <2>5. CASE UNCHANGED events
    BY <2>1, <2>4, <2>5, SameText
  <2>6. CASE events' = Append(events, Event("started", <<>>))
    BY <2>1, <2>3, <2>4, <2>6, EventWithoutText
  <2> QED BY <2>2, <2>5, <2>6
<1>4. CASE CompleteRun
  <2>1. /\ pc = "leaving" /\ sent = 0 /\ UNCHANGED <<sent, events>>
        /\ stored' \in Text /\ pc' \in {"left", "returning"}
    BY <1>4, FixedTexts DEF CompleteRun, row, client, Returns, LostReply, TextInv, BeforeAnswer
  <2>2. CASE UNCHANGED content
    BY <2>1, <2>2, SameText DEF Unsent, BeforeAnswer
  <2>3. CASE content' = LeavingText
    BY <2>1, <2>3, FixedTexts, TextIsChosen
  <2> QED
    BY <1>4, <2>2, <2>3 DEF CompleteRun
<1>5. CASE EmitLeft
  BY <1>5, LeavingKeepsText
<1>6. CASE Prepare
  <2>1. pc = "preparing" /\ pc' # "ended" /\ UNCHANGED <<sent, stored, events>>
    BY <1>6 DEF Prepare, row, client
  <2>2. CASE UNCHANGED content
    BY <1>6, <2>1, <2>2, SameText DEF Prepare, TextInv, Unsent, BeforeAnswer
  <2>3. CASE content' = <<"unsupported">>
    BY <2>1, <2>3, FixedTexts, TextIsChosen DEF TextInv, BeforeAnswer
  <2> QED BY <1>6, <2>2, <2>3 DEF Prepare
<1>7. CASE PreparationFails
  BY <1>7, SameText DEF PreparationFails, answer, row, client, Fail, TextInv, Unsent, BeforeAnswer
<1>8. CASE CreateClarification
  BY <1>8, SameText, FixedTexts
     DEF CreateClarification, answer, row, client, Lost, Refused, Fail, TextInv, Unsent, BeforeAnswer
<1>9. CASE EmitClarification \/ EmitCompleted
  <2>1. pc' = "returning" /\ UNCHANGED <<content, sent, stored>> /\ pc # "ended"
    BY <1>9 DEF EmitClarification, EmitCompleted, Returns, answer, row
  <2>2. \/ UNCHANGED events
        \/ \E type \in EventTypes \ {"delta"}, text \in Text : events' = Append(events, Event(type, text))
    BY <1>9, FixedTexts DEF EmitClarification, EmitCompleted, Emit, EventTypes
  <2>3. stored' \in Text
    BY <2>1 DEF TextInv
  <2>4. CASE UNCHANGED events
    BY <2>1, <2>3, <2>4, SameText DEF Unsent, BeforeAnswer
  <2>5. ASSUME NEW type \in EventTypes \ {"delta"}, NEW text \in Text, events' = Append(events, Event(type, text))
        PROVE  TextInv'
    BY <2>1, <2>3, <2>5, EventIsRecord, EventWithoutText DEF Unsent, BeforeAnswer
  <2> QED BY <2>2, <2>4, <2>5
<1>10. CASE SaveReady \/ SaveGenerating
  BY <1>10, SameText
     DEF SaveReady, SaveGenerating, answer, row, client, Lost, Refused, Fail, TextInv, Unsent, BeforeAnswer
<1>11. CASE CallProvider \/ ReceiveObject \/ StreamEnds
  BY <1>11, SameText
     DEF CallProvider, ReceiveObject, StreamEnds, answer, row, client, TextInv
<1>12. CASE Generated \/ Repaired
  BY <1>12, SameText DEF Generated, Repaired, row, client, Fail, TextInv, Unsent, BeforeAnswer
<1>13. CASE Repair \/ Refuse
  BY <1>13, SameText DEF Repair, Refuse, answer, row, client, Fail, TextInv, Unsent, BeforeAnswer
<1>14. CASE Accept
  <2>1. /\ pc = "judging" /\ content' = Rendered(Response(reply, context))
        /\ UNCHANGED <<sent, stored, events>>
    BY <1>14 DEF Accept, row, client
  <2>2. content' \in Text /\ content' # <<>>
    BY <2>1, RenderedIsText DEF AnswerInv
  <2> QED
    BY <2>1, <2>2, TextIsChosen DEF TextInv, BeforeAnswer
<1>15. CASE SendDelta
  BY <1>15, DeltaKeepsText
<1>16. CASE CompleteInteractionRun
  BY <1>16, SameText
     DEF CompleteInteractionRun, answer, row, client, Lost, Refused, Fail, TextInv, Unsent, BeforeAnswer
<1>17. CASE Close \/ EndCall
  <2>1. UNCHANGED <<content, sent, stored, events>> /\ pc # "ended"
        /\ pc' \in {"telling", "returning", "ended"}
    BY <1>17 DEF Close, EndCall, answer, row, client
  <2> QED
    BY <2>1, SameText DEF TextInv, Unsent, BeforeAnswer
<1>18. CASE EmitFailed
  <2>1. pc' = "returning" /\ UNCHANGED <<content, sent, stored>> /\ pc # "ended"
    BY <1>18 DEF EmitFailed, answer, row
  <2>2. UNCHANGED events \/ events' = Append(events, Event("failed", <<>>))
    BY <1>18 DEF EmitFailed, Emit
  <2>3. Event("failed", <<>>) \in EventRecord /\ Event("failed", <<>>).type = "failed"
    BY FixedTexts, EventIsRecord DEF EventTypes
  <2>4. stored' \in Text
    BY <2>1 DEF TextInv
  <2>5. CASE UNCHANGED events
    BY <2>1, <2>4, <2>5, SameText DEF Unsent, BeforeAnswer
  <2>6. CASE events' = Append(events, Event("failed", <<>>))
    BY <2>1, <2>3, <2>4, <2>6, EventWithoutText DEF Unsent, BeforeAnswer
  <2> QED BY <2>2, <2>5, <2>6
<1>19. CASE Crash
  <2>1. PICK n \in 0 .. Len(events) : events' = SubSeq(events, 1, n)
    BY <1>19 DEF Crash
  <2>2. events' \in Seq(EventRecord)
    BY <2>1, Arrived DEF TextInv
  <2> QED
    BY <1>19, <2>2 DEF Crash, TextInv, Deltas, answer, row, BeforeAnswer
<1>20. CASE Disconnect \/ Rest \/ UNCHANGED vars
  BY <1>20, SameText DEF Disconnect, Rest, vars, answer, row, client, TextInv, Unsent, BeforeAnswer
<1> QED
  BY <1>1, <1>2, <1>3, <1>4, <1>5, <1>6, <1>7, <1>8, <1>9, <1>10, <1>11, <1>12, <1>13, <1>14, <1>15,
     <1>16, <1>17, <1>18, <1>19, <1>20 DEF Next, Handler

\* Nothing is said of a run whose last event is not there.
LEMMA LastIsTold ==
  /\ LastOf(events) = {} => Told("completed") = {} /\ Told("failed") = {}
  /\ Told("completed") \subseteq LastOf(events) /\ Told("failed") \subseteq LastOf(events)
BY DEF LastOf, Told, LastTypes

\* What the status of a call that ends well will say of the text that was shown.
ReturnsStored ==
  pc = "returning" /\ verdict.error = "none" /\ Shown # <<>> => run = "completed" /\ stored = Shown

\* The handler is at work, or returns an error without its last event.
LEMMA NoMoreIsTold ==
  ASSUME LastOf(events)' = {}, rpc' # "OK", pc' = "returning" => verdict'.error # "none"
  PROVE  ToldIsStored' /\ ReturnsStored'
<1>1. Told("completed")' = {} /\ Told("failed")' = {}
  BY LastIsTold DEF LastOf, Told, LastTypes
<1> QED BY <1>1 DEF ToldIsStored, ReturnsStored

\* The last event agrees with the row.
LEMMA LastIsTrue ==
  ASSUME EventInv, TextInv, pc \notin {"returning", "ended"}, rpc' # "OK",
         NEW e \in EventRecord, events' = Append(events, e), e.type \in LastTypes,
         e.type = "completed" => run' = "completed" /\ stored' = ShownBy(events),
         e.type = "failed" => run' # "completed" /\ verdict'.error # "none",
         e.type = "clarification" => ShownBy(events) = <<>>
  PROVE  ToldIsStored' /\ ReturnsStored'
<1>1. LastOf(events) = {} /\ events \in Seq(EventRecord)
  BY DEF EventInv, TextInv
<1> DEFINE next == Append(events, e)
<1>2. /\ Len(next) \in DOMAIN next /\ next[Len(next)] = e
      /\ LastOf(next) = {Len(next)}
  BY <1>1, Appended, LastOfAppend
<1>3. ShownBy(next) = ShownBy(events)
  <2>1. e.type # "delta"
    BY DEF LastTypes
  <2> QED BY <1>1, <2>1, ShownNext
<1> HIDE DEF next
<1>4. events' = next
  BY DEF next
<1>5. \A i \in DOMAIN next : next[i].type \in LastTypes => next[i] = e
  BY <1>2 DEF LastOf
<1>6. /\ Told("completed")' # {} => e.type = "completed"
      /\ Told("failed")' # {} => e.type = "failed"
  BY <1>4, <1>5 DEF Told, LastTypes
<1>7. Shown' = ShownBy(events)
  BY <1>3, <1>4 DEF Shown
<1> QED
  BY <1>6, <1>7 DEF ToldIsStored, ReturnsStored, LastTypes

ToldInv == EventInv /\ TextInv /\ RowInv /\ ToldIsStored /\ ReturnsStored

LEMMA SameTold ==
  ASSUME ToldIsStored, ReturnsStored, UNCHANGED <<pc, verdict, events, run, stored, rpc>>
  PROVE  ToldIsStored' /\ ReturnsStored'
<1>1. Shown' = Shown /\ Told("completed")' = Told("completed") /\ Told("failed")' = Told("failed")
  BY DEF Shown, Told
<1> QED BY <1>1 DEF ToldIsStored, ReturnsStored

\* While the handler is at work the client has no status.
PendingInv == (pc = "ended") = (rpc # "pending")

LEMMA PendingKeeps ==
  ASSUME FailInv, PendingInv, [Next]_vars
  PROVE  PendingInv'
<1>1. pc' # "ended" /\ pc # "ended" /\ UNCHANGED rpc => PendingInv'
  BY DEF PendingInv
<1>2. CASE Reject \/ StartRun \/ CompleteRun \/ EmitLeft \/ EmitClarification \/ EmitCompleted
  BY <1>1, <1>2 DEF Reject, StartRun, CompleteRun, EmitLeft, EmitClarification, EmitCompleted,
                    LostReply, Returns, client
<1>3. CASE StartOrResume \/ EmitStarted \/ CreateClarification
  BY <1>1, <1>3 DEF StartOrResume, EmitStarted, CreateClarification, client, EmitFails, Lost, Refused, Fail
<1>4. CASE Prepare \/ PreparationFails \/ SaveReady \/ SaveGenerating
  BY <1>1, <1>4 DEF Prepare, PreparationFails, SaveReady, SaveGenerating, client, Lost, Refused, Fail
<1>5. CASE CallProvider \/ ReceiveObject \/ StreamEnds
  BY <1>1, <1>5 DEF CallProvider, ReceiveObject, StreamEnds, Calls, client
<1>6. CASE Generated \/ Repair \/ Accept \/ Refuse \/ Repaired
  BY <1>1, <1>6 DEF Generated, Repair, Accept, Refuse, Repaired, client, Fail
<1>7. CASE SendDelta \/ CompleteInteractionRun
  BY <1>1, <1>7 DEF SendDelta, CompleteInteractionRun, client, EmitFails, Lost, Refused, Fail
<1>8. CASE Close \/ EmitFailed
  BY <1>1, <1>8 DEF Close, EmitFailed, client
<1>9. CASE EndCall
  <2>1. verdict.error \in Error /\ pc' = "ended" /\ rpc' = Outcome(verdict.error, Told("failed") # {})
    BY <1>9 DEF EndCall, FailInv
  <2>2. rpc' # "pending"
    BY <2>1 DEF Error, Outcome, Status
  <2> QED
    BY <2>1, <2>2 DEF PendingInv
<1>10. CASE Crash
  BY <1>10 DEF Crash, PendingInv
<1>11. CASE Disconnect \/ Rest \/ UNCHANGED vars
  BY <1>11 DEF Disconnect, Rest, vars, client, PendingInv
<1> QED
  BY <1>2, <1>3, <1>4, <1>5, <1>6, <1>7, <1>8, <1>9, <1>10, <1>11 DEF Next, Handler

LEMMA ToldKeeps ==
  ASSUME AnswerInv, FailInv, PendingInv, ToldInv, EventInv', PendingInv', [Next]_vars
  PROVE  ToldIsStored' /\ ReturnsStored'
<1> USE DEF ToldInv
<1>a. pc' \notin {"returning", "ended"} => ToldIsStored' /\ ReturnsStored'
  BY NoMoreIsTold DEF EventInv, PendingInv
<1>b. pc \notin {"returning", "ended"} /\ pc' = "returning" /\ UNCHANGED events /\ verdict'.error # "none"
      => ToldIsStored' /\ ReturnsStored'
  <2> SUFFICES ASSUME pc \notin {"returning", "ended"}, pc' = "returning", UNCHANGED events,
                      verdict'.error # "none"
               PROVE  ToldIsStored' /\ ReturnsStored'
    OBVIOUS
  <2>1. LastOf(events)' = {} /\ rpc' # "OK"
    BY DEF EventInv, PendingInv, LastOf
  <2> QED BY <2>1, NoMoreIsTold
<1>1. CASE Reject \/ StartRun \/ CompleteRun
  <2>1. /\ pc \notin {"returning", "ended"} /\ pc' # "ended" /\ UNCHANGED events
        /\ pc' = "returning" => verdict'.error # "none"
    BY <1>1 DEF Reject, StartRun, CompleteRun, client, LostReply, CallErrors, Returns
  <2> QED BY <1>a, <1>b, <2>1
<1>2. CASE \/ StartOrResume \/ EmitStarted \/ EmitLeft \/ PreparationFails \/ Prepare \/ CreateClarification
           \/ SaveReady \/ SaveGenerating \/ SendDelta \/ CompleteInteractionRun
  BY <1>2, <1>a DEF StartOrResume, EmitStarted, EmitLeft, PreparationFails, Prepare, CreateClarification,
                    SaveReady, SaveGenerating, SendDelta, CompleteInteractionRun, EmitFails, Lost, Refused, Fail
<1>3. CASE \/ CallProvider \/ ReceiveObject \/ StreamEnds \/ Generated \/ Repair \/ Accept \/ Refuse
           \/ Repaired
  BY <1>3, <1>a DEF CallProvider, ReceiveObject, StreamEnds, Calls, Generated, Repair, Accept, Refuse,
                    Repaired, Fail
<1>4. CASE EmitClarification
  <2>1. /\ pc = "asked" /\ pc' = "returning" /\ ShownBy(events) = <<>> /\ rpc' # "OK"
    <3>1. pc = "asked" /\ pc' = "returning"
      BY <1>4 DEF EmitClarification, Returns
    <3>2. ShownBy(events) = SubSeq(content, 1, Cut(content, 0)) /\ content \in Text
      BY <3>1 DEF TextInv, BeforeAnswer
    <3>3. ShownBy(events) = <<>>
      BY <3>2, NothingIsSent
    <3> QED BY <3>1, <3>3 DEF PendingInv
  <2>2. CASE ~connected
    BY <1>4, <1>b, <2>1, <2>2 DEF EmitClarification, Emit, Returns
  <2>3. CASE connected
    <3> DEFINE e == Event("clarification", <<"question">>)
    <3>1. e.type = "clarification" /\ e \in EventRecord
      BY FixedTexts, EventIsRecord DEF EventTypes
    <3>2. events' = Append(events, e)
      BY <1>4, <2>3 DEF EmitClarification, Emit
    <3> HIDE DEF e
    <3> QED BY <2>1, <3>1, <3>2, LastIsTrue DEF LastTypes
  <2> QED BY <2>2, <2>3
<1>5. CASE EmitCompleted
  <2>1. pc = "completed" /\ pc' = "returning" /\ rpc' # "OK" /\ UNCHANGED <<run, stored>>
    BY <1>5 DEF EmitCompleted, Returns, PendingInv, row
  <2>2. CASE ~connected
    BY <1>5, <1>b, <2>1, <2>2 DEF EmitCompleted, Emit, Returns
  <2>3. CASE connected
    <3>1. run = "completed" /\ stored = content /\ sent = Len(Deltas)
      BY <2>1, <2>3 DEF RowInv
    <3>2. ShownBy(events) = SubSeq(content, 1, Cut(content, Len(Deltas))) /\ content \in Seq(Words)
      BY <2>1, <3>1 DEF TextInv, Text
    <3>3. stored = ShownBy(events)
      BY <3>1, <3>2, PiecesAreTheText DEF Deltas
    <3> DEFINE e == Event("completed", <<>>)
    <3>4. e.type = "completed" /\ e \in EventRecord
      BY FixedTexts, EventIsRecord DEF EventTypes
    <3>5. events' = Append(events, e)
      BY <1>5, <2>3 DEF EmitCompleted, Emit
    <3> HIDE DEF e
    <3> QED BY <2>1, <3>1, <3>3, <3>4, <3>5, LastIsTrue DEF LastTypes
  <2> QED BY <2>2, <2>3
<1>6. CASE Close
  <2>1. /\ pc = "failing" /\ pc' \in {"telling", "returning"} /\ UNCHANGED <<events, verdict>>
        /\ verdict.error # "none"
    BY <1>6 DEF Close, client, FailInv
  <2> QED BY <1>a, <1>b, <2>1
<1>7. CASE EmitFailed
  <2>1. /\ pc = "telling" /\ pc' = "returning" /\ UNCHANGED <<run, verdict>> /\ rpc' # "OK"
        /\ verdict.error # "none" /\ run # "completed"
    BY <1>7 DEF EmitFailed, row, FailInv, RowInv, PendingInv
  <2>2. CASE UNCHANGED events
    BY <1>b, <2>1, <2>2
  <2>3. CASE events' = Append(events, Event("failed", <<>>))
    <3> DEFINE e == Event("failed", <<>>)
    <3>1. e.type = "failed" /\ e \in EventRecord /\ events' = Append(events, e)
      BY <2>3, FixedTexts, EventIsRecord DEF EventTypes
    <3> HIDE DEF e
    <3> QED BY <2>1, <3>1, LastIsTrue DEF LastTypes
  <2> QED BY <1>7, <2>2, <2>3 DEF EmitFailed, Emit
<1>8. CASE EndCall
  <2>1. /\ pc = "returning" /\ pc' = "ended" /\ UNCHANGED <<events, run, stored>>
        /\ rpc' = Outcome(verdict.error, Told("failed") # {}) /\ verdict.error \in Error
    BY <1>8 DEF EndCall, FailInv, row
  <2>2. rpc' = "OK" /\ Told("failed") = {} => verdict.error = "none"
    BY <2>1 DEF Outcome, Status, Error
  <2>3. Shown' = Shown /\ Told("completed")' = Told("completed") /\ Told("failed")' = Told("failed")
    BY <2>1 DEF Shown, Told
  <2> QED BY <2>1, <2>2, <2>3 DEF ToldIsStored, ReturnsStored
<1>9. CASE Crash
  <2>1. PICK n \in 0 .. Len(events) : events' = SubSeq(events, 1, n)
    BY <1>9 DEF Crash
  <2>2. rpc' = "Unavailable" /\ pc' = "ended" /\ UNCHANGED <<run, stored>>
    BY <1>9 DEF Crash, row
  <2>3. /\ events \in Seq(EventRecord)
        /\ \A i \in DOMAIN events' : i \in DOMAIN events /\ events'[i] = events[i] /\ i <= n
        /\ n = Len(events) => events' = events
    BY <2>1, Arrived DEF TextInv
  <2>4. LastOf(events) \subseteq {Len(events)} /\ Len(events) \in Nat /\ n <= Len(events)
    BY <2>3, LastIsLastOf DEF EventInv, OneOutcome
  <2>5. LastOf(events)' # {} => events' = events
    <3> SUFFICES ASSUME NEW i \in LastOf(events)' PROVE events' = events
      OBVIOUS
    <3>1. i \in LastOf(events) /\ i <= n
      BY <2>3 DEF LastOf
    <3> QED BY <2>3, <2>4, <3>1
  <2>6. CASE events' = events
    <3>1. Shown' = Shown /\ Told("completed")' = Told("completed") /\ Told("failed")' = Told("failed")
      BY <2>6 DEF Shown, Told
    <3> QED BY <2>2, <3>1 DEF ToldIsStored, ReturnsStored
  <2>7. CASE LastOf(events)' = {}
    BY <2>2, <2>7, NoMoreIsTold
  <2> QED BY <2>5, <2>6, <2>7
<1>10. CASE Disconnect \/ Rest \/ UNCHANGED vars
  BY <1>10, SameTold DEF Disconnect, Rest, vars, row, client
<1> QED
  BY <1>1, <1>2, <1>3, <1>4, <1>5, <1>6, <1>7, <1>8, <1>9, <1>10 DEF Next, Handler

\* The types the other invariants do not give.
PlaceInv ==
  /\ access \in Accesses
  /\ pc \in {"request", "resuming", "announcing", "leaving", "left", "preparing", "asking",
             "asked", "saving", "savingGenerating", "generating", "judging", "repairing",
             "streaming", "completed", "failing", "telling", "returning", "ended"}
  /\ schema \in [entities : SUBSET Entities, docs : SUBSET Chunks]
  /\ context \in Context
  /\ {first, reply} \subseteq Replies \cup {FixedReply, NoReply}
  /\ verdict \in [status : {"none", "failed", "cancelled"}, error : Error, tells : BOOLEAN]
  /\ faults \in 0 .. MaxFaults

TypesOf(p) ==
  /\ Schema(p) \in [entities : SUBSET Entities, docs : SUBSET Chunks]
  /\ Traced(p) \in Context

LEMMA PreparedTypes ==
  ASSUME NEW p \in Preparations
  PROVE  TypesOf(p)
<1>1. /\ p.resolved \subseteq Entities /\ p.blocks \subseteq Block /\ p.fitted \subseteq p.blocks
  BY AnsweringAssumption DEF Prepared
<1>2. \A b \in p.fitted : b.names \subseteq Entities /\ b.chunk \subseteq Chunks
  BY <1>1 DEF Block
<1>3. AllowedEntities(p.resolved, p.fitted) \subseteq Entities
  BY <1>1, <1>2 DEF AllowedEntities
<1>4. AllowedDocs(p.fitted) \subseteq Chunks
  BY <1>2 DEF AllowedDocs
<1>5. Schema(p) \in [entities : SUBSET Entities, docs : SUBSET Chunks]
  BY <1>3, <1>4 DEF Schema
<1>6. Traced(p) \in Context
  BY <1>1 DEF Traced, Context
<1> QED
  BY <1>5, <1>6 DEF TypesOf

LEMMA PlacesKeep == ASSUME PlaceInv, [Next]_vars PROVE PlaceInv'
<1> USE DEF PlaceInv
<1>a. \A error \in CallErrors : Interrupted(error) => faults' \in 0 .. MaxFaults
  BY AnsweringAssumption DEF Interrupted
<1>b. faults < MaxFaults /\ faults' = faults + 1 => faults' \in 0 .. MaxFaults
  BY AnsweringAssumption
<1>c. \A status \in {"failed", "cancelled"}, error \in Error, tells \in BOOLEAN :
        Fail(status, error, tells) =>
          /\ pc' = "failing"
          /\ verdict' \in [status : {"none", "failed", "cancelled"}, error : Error, tells : BOOLEAN]
  BY DEF Fail
<1>d. CallErrors \subseteq Error /\ {"conflict", "notfound", "invalid", "internal", "canceled", "deadline"} \subseteq Error
  BY DEF CallErrors, Error
<1>e. \A error \in Error :
        Returns(error) =>
          /\ pc' = "returning"
          /\ verdict' \in [status : {"none", "failed", "cancelled"}, error : Error, tells : BOOLEAN]
  BY DEF Returns
<1>f. "none" \in Error
  BY DEF Error
<1>1. CASE Reject \/ EmitLeft
  BY <1>1, <1>d, <1>e DEF Reject, EmitLeft, provider, answer
<1>s. CASE StartRun \/ CompleteRun
  <2>1. /\ UNCHANGED <<access, schema, context, first, reply>>
        /\ \/ pc' \in {"resuming", "left"} /\ UNCHANGED <<verdict, faults>>
           \/ LostReply
           \/ Returns("conflict") /\ UNCHANGED faults
    BY <1>s DEF StartRun, CompleteRun, provider, answer
  <2>2. CASE LostReply
    <3>1. PICK error \in CallErrors : Interrupted(error) /\ Returns(error)
      BY <2>2 DEF LostReply
    <3> QED BY <2>1, <3>1, <1>a, <1>d, <1>e
  <2>3. CASE Returns("conflict") /\ UNCHANGED faults
    BY <2>1, <2>3, <1>d, <1>e
  <2> QED BY <2>1, <2>2, <2>3
<1>2. CASE StartOrResume
  BY <1>2, <1>a, <1>c, <1>d DEF StartOrResume, Lost, Fail, provider, answer
<1>3. CASE EmitStarted \/ SendDelta
  BY <1>3, <1>c, <1>d DEF EmitStarted, SendDelta, EmitFails, Fail, provider, answer
<1>4. CASE PreparationFails
  BY <1>4, <1>c, <1>d DEF PreparationFails, Fail, provider, answer
<1>p. CASE Prepare
  <2>1. ASSUME NEW p \in Preparations PROVE TypesOf(p)
    BY <2>1, PreparedTypes
  <2>2. /\ UNCHANGED <<access, first, reply, verdict, faults>> /\ pc' \in {"asking", "saving"}
        /\ UNCHANGED <<schema, context>> \/ \E p \in Preparations : schema' = Schema(p) /\ context' = Traced(p)
    BY <1>p DEF Prepare, provider
  <2> QED
    BY <2>1, <2>2 DEF TypesOf
<1>5. CASE CreateClarification
  BY <1>5, <1>a, <1>c, <1>d DEF CreateClarification, Lost, Refused, Fail, provider, answer
<1>6. CASE EmitClarification \/ EmitCompleted
  BY <1>6, <1>d, <1>e, <1>f DEF EmitClarification, EmitCompleted, provider, answer
<1>7. CASE SaveReady
  BY <1>7, <1>a, <1>c, <1>d DEF SaveReady, Lost, Refused, Fail, provider, answer
<1>8. CASE SaveGenerating
  BY <1>8, <1>a, <1>c, <1>d DEF SaveGenerating, Lost, Refused, Fail, provider, answer
<1>9. CASE CallProvider \/ ReceiveObject \/ StreamEnds
  BY <1>9 DEF CallProvider, ReceiveObject, StreamEnds, answer
<1>10. CASE Generated
  <2>1. UNCHANGED <<access, context, faults>>
    BY <1>10 DEF Generated, provider
  <2>2. CASE stream.result = "ok"
    BY <1>10, <2>1, <2>2 DEF Generated, SaidBy
  <2>3. CASE stream.result # "ok"
    BY <1>10, <2>1, <2>3, <1>c, <1>d DEF Generated, Fail
  <2> QED BY <2>2, <2>3
<1>11. CASE Repaired
  <2>1. UNCHANGED <<access, context, faults, first>>
    BY <1>11 DEF Repaired, provider
  <2>2. CASE stream.result = "ok"
    BY <1>11, <2>1, <2>2 DEF Repaired, SaidBy
  <2>3. CASE stream.result # "ok"
    <3>1. (IF stream.result \in {"canceled", "deadline"} THEN stream.result ELSE "internal") \in Error
      BY DEF Error
    <3> QED BY <1>11, <2>1, <2>3, <3>1, <1>c DEF Repaired, Fail
  <2> QED BY <2>2, <2>3
<1>12. CASE Repair \/ Accept \/ Refuse
  BY <1>12, <1>c, <1>d DEF Repair, Accept, Refuse, Fail, provider, answer
<1>13. CASE CompleteInteractionRun
  BY <1>13, <1>a, <1>c, <1>d DEF CompleteInteractionRun, Lost, Refused, Fail, provider, answer
<1>14. CASE Close \/ EmitFailed \/ EndCall \/ Crash
  BY <1>14, <1>b DEF Close, EmitFailed, EndCall, Crash, provider, answer
<1>15. CASE Disconnect \/ Rest \/ UNCHANGED vars
  BY <1>15 DEF Disconnect, Rest, vars, provider, answer
<1> QED
  BY <1>1, <1>2, <1>3, <1>4, <1>5, <1>6, <1>7, <1>8, <1>9, <1>10, <1>11, <1>12, <1>13, <1>14, <1>15,
     <1>p, <1>s DEF Next, Handler

HandlerInv ==
  /\ AnswerInv /\ FailInv /\ EventInv /\ TextInv /\ RowInv /\ PendingInv /\ PlaceInv
  /\ ToldIsStored /\ ReturnsStored

LEMMA HandlerStarts == Init => HandlerInv
<1> SUFFICES ASSUME Init PROVE HandlerInv
  OBVIOUS
<1>1. AnswerInv
  BY AnswerStarts
<1>2. FailInv /\ PendingInv
  BY DEF Init, FailInv, PendingInv
<1>3. events = <<>> /\ pc = "request" /\ content = <<>> /\ stored = <<>> /\ sent = 0 /\ run = "absent"
      /\ rpc = "pending"
  BY DEF Init
<1>4. EventInv
  <2>1. events \in Seq({}) /\ DOMAIN events = {}
    BY <1>3
  <2>2. LastOf(events) = {}
    BY <2>1 DEF LastOf
  <2>3. OneOutcome
    BY <1>3, <2>2, LastIsLastOf DEF OneOutcome
  <2> QED BY <1>3, <2>1, <2>2, <2>3 DEF EventInv
<1>5. TextInv
  <2>1. /\ 0 \in 0 .. Len(Pieces(content, DeltaSize))
        /\ SubSeq(content, 1, Cut(content, 0)) = <<>>
    BY <1>3, FixedTexts, NothingIsSent
  <2>2. ShownBy(events) = <<>>
    BY <1>3, ShownAtFirst
  <2>3. events \in Seq(EventRecord)
    BY <1>3
  <2> QED BY <1>3, <2>1, <2>2, <2>3, FixedTexts DEF TextInv, Deltas
<1>6. RowInv
  BY <1>3 DEF RowInv
<1>7. PlaceInv
  BY AnsweringAssumption DEF Init, PlaceInv, Error, NoSchema, NoContext, Context
<1>8. ToldIsStored /\ ReturnsStored
  <2>1. Told("completed") = {} /\ Told("failed") = {}
    BY <1>3 DEF Told
  <2> QED BY <1>3, <2>1 DEF ToldIsStored, ReturnsStored
<1> QED BY <1>1, <1>2, <1>4, <1>5, <1>6, <1>7, <1>8 DEF HandlerInv

LEMMA HandlerIsKept == Spec => []HandlerInv
<1>1. ASSUME ProviderInv, HandlerInv, [Next]_vars PROVE HandlerInv'
  <2>1. AnswerInv' /\ FailInv' /\ EventInv'
    BY <1>1, AnswerKeeps, FailKeeps, EventsKeep DEF HandlerInv
  <2>2. TextInv' /\ RowInv' /\ PendingInv' /\ PlaceInv'
    BY <1>1, TextKeeps, RowsKeep, PendingKeeps, PlacesKeep DEF HandlerInv
  <2>3. ToldIsStored' /\ ReturnsStored'
    BY <1>1, <2>1, <2>2, ToldKeeps DEF HandlerInv, ToldInv
  <2> QED BY <2>1, <2>2, <2>3 DEF HandlerInv
<1> QED
  BY <1>1, HandlerStarts, ProviderIsKept, PTL DEF Spec

\* Everything that is told, stored, streamed and returned has its type; a run's
\* message is there exactly when the run has an answer or a question
\* (run_repository.go:99).
THEOREM AnsweringTypes == Spec => []TypeOK
<1>1. ProviderInv /\ HandlerInv => TypeOK
  BY DEF ProviderInv, StreamInv, StreamType, HandlerInv, TextInv, RowInv, PendingInv, PlaceInv, TypeOK
<1> QED
  BY <1>1, ProviderIsKept, HandlerIsKept, PTL

\* The deltas of a completed run, put together, are the text that was stored,
\* for pieces of any size and texts of any length; nobody is told that a
\* completed run failed (run.go:162, run.go:71).
THEOREM WhatIsToldIsStored == Spec => []ToldIsStored
<1>1. HandlerInv => ToldIsStored
  BY DEF HandlerInv
<1> QED
  BY <1>1, HandlerIsKept, PTL
=============================================================================
