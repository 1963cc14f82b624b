----------------------------- MODULE ProviderStream -----------------------------
(***************************************************************************)
(* A call of the model provider (Generator.Generate): the answer, buffered *)
(* by generateBuffered, or a structured call made through Registry.Invoke, *)
(* which has no buffer limit.  The Ollama adapter posts one request and    *)
(* reads a stream of JSON objects through a LimitedReader of bytes + 1     *)
(* bytes; the decoder reads ahead, so after the last object some of the    *)
(* bytes that follow it may have been read or not.                         *)
(***************************************************************************)
EXTENDS Configuration

CONSTANTS
  Objects,     \* objects the provider may send: [size, content], in bytes
  MaxObjects   \* bound of the model: objects per stream

ASSUME StreamAssumption ==
  /\ Objects \subseteq [size : Nat, content : Nat]
  /\ MaxObjects \in Nat

\* What a provider connection is: the parts of its base URL that matter, and
\* whether its host resolves to a private or reserved address.
Access == [adapter : {"anthropic", "ollama"}, valid : BOOLEAN,
           scheme : {"https", "http"}, private : BOOLEAN]

VARIABLES
  config,   \* Kept(s) of the settings the service started with
  access,   \* the request's provider access
  stream    \* the provider call in flight

NoCall == [step |-> "none", purpose |-> "none", sent |-> 0, read |-> 0, objects |-> 0,
           content |-> 0, result |-> "none"]

Called(purpose) == [NoCall EXCEPT !.step = "calling", !.purpose = purpose]

Ended(result) == [stream EXCEPT !.step = "ended", !.result = result]

\* chatEndpoint: a host, no user, query or fragment; https, or http where allowed.
Endpoint == access.valid /\ (access.scheme = "https" \/ config.http)

\* DialContext: no address of the host may be private or reserved.
Dialled == ~access.private \/ config.private

-----------------------------------------------------------------------------
\* The Anthropic adapter replies at once with a fixed text.
ReplyAtOnce ==
  /\ stream.step = "calling"
  /\ access.adapter = "anthropic"
  /\ stream' = Ended("ok")

\* The request is not sent, or the response is not 2xx: redirects are not
\* followed.
SendFails ==
  /\ stream.step = "calling"
  /\ access.adapter = "ollama"
  /\ stream' = Ended("failed")

\* The context of the request ended before a response came: only here does the
\* error say so.
SendInterrupted(why) ==
  /\ stream.step = "calling"
  /\ access.adapter = "ollama"
  /\ Endpoint
  /\ stream' = Ended(why)

SendSucceeds ==
  /\ stream.step = "calling"
  /\ access.adapter = "ollama"
  /\ Endpoint
  /\ Dialled
  /\ stream' = [stream EXCEPT !.step = "reading"]

-----------------------------------------------------------------------------
\* The reader ends with the last byte it allows.
Mutant_NoExtraByte == config.bytes

\* The reader's N: one byte more than the limit, so that reading it shows the
\* limit was crossed.
Window == config.bytes + 1

Least(a, b) == IF a < b THEN a ELSE b

Exhausted(s) == s.read >= Window

\* generateBuffered refuses content past its limit; Invoke takes all of it.
OverBuffer(content) == stream.purpose = "answer" /\ content > config.buffer

\* After the object that is marked done.
Finished(s) ==
  IF Exhausted(s) THEN "size" ELSE IF s.content = 0 THEN "empty" ELSE "ok"

\* After one object, whole or cut by the window.
Received(o, done, trailing, ahead) ==
  LET sent    == stream.sent + o.size + trailing
      end     == stream.read + o.size
      content == stream.content + o.content
      next    == [stream EXCEPT !.sent = sent, !.read = Least(end + ahead, Window),
                                !.objects = @ + 1, !.content = content]
  IN  IF end > Window
      THEN [next EXCEPT !.content = stream.content, !.step = "ended", !.result = "size"]
      ELSE IF o.content > 0 /\ OverBuffer(content)
      THEN [next EXCEPT !.step = "ended", !.result = "buffer"]
      ELSE IF done THEN [next EXCEPT !.step = "ended", !.result = Finished(next)]
      ELSE next

\* After the last object the provider may send more, which the decoder may have
\* read.
Receive ==
  /\ stream.step = "reading"
  /\ stream.objects < MaxObjects
  /\ \E o \in Objects, done \in BOOLEAN, trailing \in 0 .. 1, ahead \in 0 .. 1 :
       /\ trailing > 0 => done
       /\ ahead <= trailing
       /\ stream' = Received(o, done, trailing, ahead)

\* The provider reports an error in an object.
ProviderError ==
  /\ stream.step = "reading"
  /\ stream' = Ended("failed")

\* The stream ends, breaks, or the request's time is over: no error of these
\* names the context, so all are decode errors, or the lack of an end.
StreamBreaks ==
  /\ stream.step = "reading"
  /\ stream' = Ended(IF Exhausted(stream) THEN "size" ELSE "failed")

-----------------------------------------------------------------------------
StreamType ==
  [step : {"none", "calling", "reading", "ended"},
   purpose : {"none", "answer", "repair"},
   sent : Nat, read : Nat, objects : 0 .. MaxObjects, content : Nat,
   result : {"none", "ok", "failed", "size", "empty", "buffer", "canceled", "deadline"}]

\* The limit on the bytes of a response is exact: a response that is within it
\* is never refused for its size, and one whose content or end lies past it is
\* never taken, whatever the decoder had read ahead; the buffer's limit is exact
\* for the answer (adapter.go:121, run.go:173).
SizeLimitIsExact ==
  /\ stream.result = "size" => stream.sent > config.bytes
  /\ stream.result = "buffer" => stream.content > config.buffer
  /\ stream.result = "ok" /\ access.adapter = "ollama" =>
       /\ stream.read <= config.bytes
       /\ 0 < stream.content
       /\ stream.purpose = "answer" => stream.content <= config.buffer

\* Outside development the service calls a model over https and at a public
\* address only, and in production it serves only callers it has identified,
\* over TLS (config.go:146, grpc.go:40).
GuardedWhereItRuns ==
  /\ config.env = "production" => config.secured
  /\ config.env # "development" /\ access.adapter = "ollama" /\ stream.step = "reading" =>
       access.scheme = "https" /\ ~access.private
=============================================================================
