------------------------------ MODULE MCSelection ------------------------------
(***************************************************************************)
(* Two runs, a cache of one and four snapshots: two of sales reports, one  *)
(* of a foreign kind and one that cannot be decoded.                       *)
(***************************************************************************)
EXTENDS Selection, TLC

MCAlphabet == <<"actions", "map", "old", "page", "report", "reports", "sales", "sheets", "sum", "view">>

MCLetters == [w \in {MCAlphabet[i] : i \in DOMAIN MCAlphabet} |->
                CASE w \in {"map", "old", "sum"}          -> 3
                  [] w \in {"page", "view"}               -> 4
                  [] w = "sales"                          -> 5
                  [] w \in {"report", "sheets"}           -> 6
                  [] OTHER                                -> 7]

MCNear == <<<<"report">>, <<"reports">>>> :> 1

Doc(type, identity, name, note, folder, body) ==
  [type |-> type, identity |-> identity, name |-> name, note |-> note, folder |-> folder, body |-> body]

Sales   == Doc("sheets", "view", <<"sales", "report">>, <<>>, "home", <<>>)
Old     == Doc("sheets", "old", <<"old", "sales", "report">>, <<>>, "home", <<"page">>)
Archive == Doc("sheets", "map", <<>>, <<"old", "sales", "report">>, None, <<>>)
Summary == Doc("actions", "sum", <<"sum">>, <<>>, "home", <<"view", "sales", "report">>)
Opens   == Doc("actions", "page", <<"page">>, <<"old">>, "home", <<"view", "map">>)
Reports == Doc("actions", "reports", <<"reports">>, <<>>, None, <<"old">>)

MCIndex == ("k1" :> {Sales, Old, Archive, Summary, Opens, Reports}) @@
           ("k2" :> {Sales, Opens, Reports})

In(said, types, folder, all, limit) ==
  [said |-> said, types |-> types, folder |-> folder, all |-> all, limit |-> limit]

MCInputs ==
  {In(<<"sales", "report">>, {}, None, FALSE, limit) : limit \in {0, 1, 2, 3}} \cup
  {In(said, {}, None, FALSE, 0) : said \in {<<"report">>, <<"page">>, <<"map">>, <<>>}} \cup
  {In(<<"old">>, {}, None, FALSE, 3),
   In(<<"report">>, {"sheets"}, "home", FALSE, 0),
   In(<<>>, {"actions"}, None, TRUE, 3)}
=============================================================================
