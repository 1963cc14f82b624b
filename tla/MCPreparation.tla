----------------------------- MODULE MCPreparation -----------------------------
(***************************************************************************)
(* A small workspace for Preparation: two folders and four documents, some *)
(* of which share an identity or a display name, in two snapshots that     *)
(* differ in where a document is; and a documentation of three pages.      *)
(***************************************************************************)
EXTENDS Preparation, TLC

Doc(type, identity, name, folder, size) ==
  [type |-> type, identity |-> identity, name |-> name, folder |-> folder, size |-> size]

FolderF == Doc("folders", "f", "f", None, 1)
FolderG == Doc("folders", "g", "f", None, 1)
Page    == Doc("pages", "a", "n", "f", 6)
View    == Doc("views", "a", "n", "f", 2)
Moved   == Doc("views", "b", "n", "g", 2)
Nested  == Doc("pages", "c", "c", "a", 2)

MCTypes     == {"folders", "pages", "views"}
MCNames     == {"f", "g", "a", "b", "c", "n"}
MCDocuments == {FolderF, FolderG, Page, View, Moved, Nested}
MCContent   == ("s0" :> {FolderF, Page, View, Nested}) @@ ("s1" :> {FolderF, FolderG, Page, View, Moved})

-----------------------------------------------------------------------------
(* What the first request may be, and what a planning model may reply. *)

MCPart(signals, types, quoted, rest, folder) ==
  [signals |-> signals, types |-> types, quoted |-> quoted, identity |-> None,
   concept |-> None, rest |-> rest, folder |-> folder]

ShowN      == MCPart({"inspect"}, {"pages", "views"}, "n", None, None)
ShowA      == MCPart({"inspect"}, {"pages"}, None, "a", None)
FindA      == MCPart({"find"}, {"pages"}, None, "a", None)
ShowInF    == MCPart({"inspect"}, {"folders", "pages", "views"}, None, "n", "f")
ListInF    == MCPart({"list"}, {"folders", "pages", "views"}, None, None, "f")
ExplainN   == MCPart({"explain"}, {}, None, "n", None)
ExplainOur == MCPart({"explain", "domain"}, {"pages"}, None, "b", None)
RemoveA    == MCPart({"mutation"}, {"pages"}, None, "a", None)

Asks(parts) == [parts |-> parts, refers |-> FALSE]
MCRequests  == {Asks(<<ShowN>>), Asks(<<ShowInF>>), Asks(<<ListInF>>), Asks(<<FindA, ShowA>>),
                Asks(<<ExplainN>>), Asks(<<ExplainOur>>), Asks(<<RemoveA>>), Asks(<<>>)}

PlannedTask(intent, source, mention, expects, deps, scoped) ==
  [intent |-> intent, source |-> source, mention |-> mention, expects |-> expects,
   deps |-> deps, scoped |-> scoped, entity |-> None]

FindFolder     == PlannedTask("find_entity", "domain", "f", {"folders"}, <<>>, FALSE)
InspectIn(i)   == PlannedTask("inspect_entity", "domain", "n", {"pages", "views"}, <<i>>, TRUE)
InspectC       == PlannedTask("inspect_entity", "domain", "c", {"pages"}, <<2>>, TRUE)
ListIn(deps)   == PlannedTask("list_entities", "domain", None, {"pages", "views"}, deps, TRUE)
Discuss        == PlannedTask("explain_documentation", "conversation", None, {}, <<>>, FALSE)
Explain        == PlannedTask("explain_documentation", "documentation", None, {}, <<>>, FALSE)

MCReplies == {<<FindFolder, InspectIn(1), InspectC>>,
              <<FindFolder, InspectIn(1), ListIn(<<1, 2>>), Discuss>>,
              <<InspectIn(2), FindFolder>>, <<FindFolder, ListIn(<<2>>)>>,
              <<Explain>>}

-----------------------------------------------------------------------------
(* The documentation. *)

MCWords == {"data", "rows", "grid", "info", "the", "view", "filter", "filters", "store", "defineview"}
MCStem  == [w \in MCWords |-> IF w = "filters" THEN "filter" ELSE w]
MCAliases  == [w \in MCWords |-> IF w = "grid" THEN {"rows"} ELSE {}]
MCConcepts == "defineview" :> "view"

Chunk(id, title, heading, content, size) ==
  [id |-> id, title |-> <<title>>, heading |-> <<heading>>, content |-> content, size |-> size]

Pages == << Chunk("c", "filter", "data", <<"view">>, 2),
            Chunk("d", "view", "view", <<"filter", "data">>, 1),
            Chunk("e", "store", "store", <<"the", "info">>, 18) >>

MCBundles == {[verified |-> TRUE, lines |-> Pages],
              [verified |-> TRUE, lines |-> Append(Pages, Chunk("g", "grid", "grid", <<>>, 0))]}

MCWordsOf == [n \in MCNames |->
                CASE n = "n" -> <<"data", "rows", "grid">>
                  [] n = "b" -> <<"the", "info">>
                  [] n = "c" -> <<"view", "data">>
                  [] OTHER   -> <<"grid">>]
MCPrompts    == {<<"the">>, <<"filters">>}
MCExpansions == {<<"info">>, <<"filters", "defineview">>}
=============================================================================
