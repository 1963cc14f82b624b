------------------------------ MODULE MCAnswering ------------------------------
(***************************************************************************)
(* Environments at the ends of what Load accepts and just past them, the   *)
(* two adapters with base URLs of every kind, and object sizes that reach  *)
(* both byte limits exactly and by one.                                    *)
(***************************************************************************)
EXTENDS Answering, TLC

\* The environment of the compose file, then a thing or two changed at a time.
Plain(env) ==
  [env |-> env, grpc |-> TRUE, identity |-> TRUE, tls |-> TRUE,
   results |-> Unset, documents |-> Unset, messages |-> Unset, chars |-> Unset,
   calls |-> Unset, candidates |-> Unset, confidence |-> Unset,
   buffer |-> 65536, timeout |-> Unset, bytes |-> 65536,
   debug |-> Unset, private |-> Unset, http |-> Unset]

With(s, name, value) == [s EXCEPT ![name] = value]

MCSettings ==
  LET dev == Plain("development")  prod == Plain("production")  test == Plain("staging")
  IN  { dev, test, prod,
        With(dev, "http", TRUE), With(With(dev, "http", TRUE), "private", TRUE),
        With(prod, "http", TRUE), With(test, "private", TRUE), With(test, "http", TRUE),
        With(With(dev, "bytes", 131072), "calls", 0), With(test, "tls", FALSE),
        With(prod, "tls", FALSE), With(prod, "identity", FALSE), With(prod, "grpc", FALSE),
        With(dev, "bytes", 65535), With(dev, "buffer", 65535), With(dev, "calls", 4),
        With(dev, "calls", -1), With(dev, "confidence", NaN),
        With(dev, "confidence", 49), With(dev, "debug", Unparsable), With(dev, "results", 21) }

Via(valid, scheme, private) ==
  [adapter |-> "ollama", valid |-> valid, scheme |-> scheme, private |-> private]

MCAccesses ==
  { [adapter |-> "anthropic", valid |-> FALSE, scheme |-> "https", private |-> FALSE],
    Via(TRUE, "https", FALSE), Via(TRUE, "http", FALSE), Via(TRUE, "https", TRUE),
    Via(FALSE, "https", FALSE) }

\* Two of the first three are 65536 bytes or one more; two of the last carry
\* 65536 bytes of content.
MCObjects ==
  { [size |-> 32768, content |-> 32704], [size |-> 32769, content |-> 0],
    [size |-> 32832, content |-> 32768], [size |-> 65, content |-> 1] }

Domain(names) == [kind |-> "domain", chunk |-> {}, names |-> names]
Doc(chunk)    == [kind |-> "documentation", chunk |-> {chunk}, names |-> {}]

Made(resolved, fitted, dropped) ==
  [resolved |-> resolved, blocks |-> fitted \cup dropped, fitted |-> fitted]

\* Documentation that did not fit, and a domain block that did not.
MCPreparations ==
  { Made({"e1"}, {Domain({"e1"}), Doc("c1")}, {Doc("c2")}),
    Made({}, {Domain({"e1", "e2"})}, {Domain({"e3"})}) }

Said(what, entities, docs, limits) ==
  [json |-> TRUE, arrays |-> TRUE, answer |-> what, entities |-> entities,
   docs |-> docs, limits |-> limits]

MCFixedReply == Said("text", {}, {}, 1)

MCReplies ==
  { Said("text", {"e1"}, {"c1"}, 0), Said("text", {"e2"}, {"c1", "c2"}, 2),
    Said("text", {"e3"}, {}, 0), Said("empty", {}, {}, 0), Said("claim", {}, {}, 0),
    [Said("claim", {"e3"}, {}, 0) EXCEPT !.arrays = FALSE],
    [Said("text", {}, {}, 0) EXCEPT !.json = FALSE] }
=============================================================================
