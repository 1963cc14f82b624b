-------------------------------- MODULE Planner --------------------------------
(***************************************************************************)
(* The deterministic planner (planner.go): which intent and which source a *)
(* part of the request gets from the signals in its words, and the plan    *)
(* made of the parts.  A request is [parts, refers]: it is split where a   *)
(* sentence ends or "then" stands, and refers to the history when it has a *)
(* reference token (or joins its parts by "then").  Of a part's words the  *)
(* model has the signals found in them, the collections they name, and the *)
(* names selectMention and selectFolderMention could pick.                 *)
(***************************************************************************)
EXTENDS TaskPlan, FiniteSets, SequencesExt

ASSUME FoldersAreACollection == "folders" \in Types

Signals == {"mutation", "instruction", "documentation", "domain",
            "list", "find", "inspect", "explain"}

Part == [signals : SUBSET Signals, types : SUBSET Types,
         quoted   : Names \cup {None},   \* the first quoted name in the part
         identity : Names \cup {None},   \* the first word that looks like an identity
         concept  : Names \cup {None},   \* the first defineSomething
         rest     : Names \cup {None},   \* the words that are no command and no filler
         folder   : Names \cup {None}]   \* the words after "folder"

Request == [parts : Seq(Part), refers : BOOLEAN]

FirstNamed(names) ==
  LET first == SelectInSeq(names, LAMBDA n : n # None)
  IN  IF first = 0 THEN None ELSE names[first]

SelectMention(part, intent) ==
  FirstNamed(<<part.quoted, part.identity,
               IF intent = "explain_documentation" THEN part.concept ELSE None, part.rest>>)

\* A quoted name is taken for the folder too, whatever it names.
SelectFolderMention(part) == FirstNamed(<<part.quoted, part.folder>>)

\* classifyIntent: the first rule that applies.
Rules(part) ==
  LET has(signal) == signal \in part.signals
      typed == part.types # {}
      rule(when, intent, source) == [when |-> when, intent |-> intent, source |-> source]
  IN  << rule(has("mutation") /\ ~has("instruction"), "unsupported", "none"),
         rule(has("list") /\ typed, "list_entities", "domain"),
         rule(has("find") /\ typed, "find_entity", "domain"),
         rule(has("inspect") /\ typed, "inspect_entity", "domain"),
         rule(has("explain") /\ has("domain") /\ typed, "explain_documentation", "mixed"),
         rule(has("explain") \/ has("documentation"), "explain_documentation", "documentation"),
         rule(typed, "inspect_entity", "domain"),
         rule(TRUE, "unsupported", "none") >>

ClassifyIntent(part) == Rules(part)[SelectInSeq(Rules(part), LAMBDA r : r.when)]

\* The task a folder is looked up by.
FolderTask(part) ==
  [intent |-> "find_entity", source |-> "domain", mention |-> SelectFolderMention(part),
   expects |-> {"folders"}, deps |-> <<>>, scoped |-> FALSE, entity |-> None]

PartTask(part) ==
  LET rule == ClassifyIntent(part)
      refused == rule.intent = "unsupported"
  IN  [intent |-> rule.intent, source |-> rule.source,
       mention |-> IF refused THEN None ELSE SelectMention(part, rule.intent),
       expects |-> IF refused THEN {} ELSE part.types,
       deps |-> <<>>, scoped |-> FALSE, entity |-> None]

\* A part that names a folder and something else: two tasks, the folder first.
AppendPart(tasks, part) ==
  LET t == PartTask(part) IN
  IF "folders" \in t.expects /\ Cardinality(t.expects) > 1
  THEN tasks \o
       << FolderTask(part),
          [t EXCEPT !.expects = @ \ {"folders"},
                    !.deps = <<Len(tasks) + 1>>,
                    !.scoped = SelectFolderMention(part) # None,
                    !.mention = IF t.intent = "list_entities" THEN None ELSE @] >>
  ELSE Append(tasks, t)

NothingAsked == [intent |-> "unsupported", source |-> "none", mention |-> None,
                 expects |-> {}, deps |-> <<>>, scoped |-> FALSE, entity |-> None]

DeterministicPlan(request) ==
  IF request.parts = <<>> THEN <<NothingAsked>>
  ELSE FoldLeft(AppendPart, <<>>, request.parts)

NeedsPlanner(request) == Len(DeterministicPlan(request)) > 1 \/ request.refers
=============================================================================
