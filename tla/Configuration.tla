----------------------------- MODULE Configuration -----------------------------
(***************************************************************************)
(* What the service reads from its environment (config.Load), when it      *)
(* refuses to start, and what it then runs with.  A setting is a number,   *)
(* Unset, or Unparsable; a boolean, Unset or Unparsable.  Times are in     *)
(* seconds, the confidence of the reranker in hundredths.                  *)
(***************************************************************************)
EXTENDS Integers

CONSTANTS Unset, Unparsable,
          NaN   \* strconv.ParseFloat reads it, and every comparison with it fails

\* The ranges Load accepts, ends included.
Bounds == [results    |-> 1 .. 20,         documents |-> 1 .. 50,
          messages   |-> 1 .. 50,         chars     |-> 4000 .. 500000,
          calls      |-> 0 .. 3,          candidates |-> 1 .. 5,
          confidence |-> 50 .. 100,       buffer    |-> 65536 .. 16777216,
          timeout    |-> 1 .. 1800,       bytes     |-> 65536 .. 67108864]

Default == [results |-> 8, documents |-> 20, messages |-> 10, chars |-> 24000,
            calls |-> 3, candidates |-> 5, confidence |-> 80, buffer |-> 2097152,
            timeout |-> 120, bytes |-> 8388608,
            debug |-> FALSE, private |-> FALSE, http |-> FALSE]

Numbers == DOMAIN Bounds
Flags   == {"debug", "private", "http"}

\* intFromEnv, floatFromEnv, durationFromEnv and boolFromEnv.
Value(s, name) == IF s[name] = Unset THEN Default[name] ELSE s[name]

\* Load refuses what is below or above: NaN is neither.
Accepted(s, name) ==
  \/ Value(s, name) \in Bounds[name]
  \/ name = "confidence" /\ s[name] = NaN

\* A flag of the development environment is taken anywhere.
Mutant_LoadsAnywhere(s) ==
  /\ \A name \in Numbers : Accepted(s, name)
  /\ \A name \in Flags : s[name] # Unparsable

Load(s) ==
  /\ \A name \in Numbers : Accepted(s, name)
  /\ \A name \in Flags : s[name] # Unparsable
  /\ s.env # "development" => ~Value(s, "private") /\ ~Value(s, "http")

\* newGRPCServer: in production the RPC server is on, it knows its callers, and
\* it speaks TLS.
Guarded(s) == s.env = "production" => s.grpc /\ s.identity /\ s.tls

\* NewUseCase and ollama.New replace what makes no sense by a default.
AtLeast(least, value, default) == IF value < least THEN default ELSE value

\* The settings a run depends on.
Kept(s) ==
  [env     |-> s.env,
   secured |-> s.identity /\ s.tls,
   calls   |-> AtLeast(0, Value(s, "calls"), 3),
   buffer  |-> AtLeast(1, Value(s, "buffer"), 2097152),
   bytes   |-> AtLeast(1, Value(s, "bytes"), 8388608),
   private |-> Value(s, "private"),
   http    |-> Value(s, "http")]
=============================================================================
