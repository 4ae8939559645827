------------------------------- MODULE MCStartup -------------------------------
(* Finite instance of Startup: events whose outcomes are listed in order, in *)
(* the other order, encoded, not at all, in part, without an id and beside   *)
(* an element that is no text, and the events that update_market refuses.    *)
EXTENDS Startup

MCAssets == {"btc", "eth"}

MCAnswers ==
  {Failed, Missing,
   Event("list", <<"Up", "Down">>, <<"Up", "Down">>, FALSE),
   Event("list", <<"No", "Yes">>, <<"No", "Yes">>, TRUE),
   Event("list", <<"Up", "Down">>, << >>, FALSE),
   Event("list", <<"Up", "Down">>, <<"not a string", "Down">>, TRUE),
   Event("list", <<"Draw", "Down", "Up">>, <<"not a string", "Down", "Up">>, FALSE),
   Event("list", <<"Down", "Up">>, <<"Draw", "Down", "Up">>, FALSE),
   Event("list", <<"Up">>, <<"Up">>, FALSE),
   Event("malformed", << >>, << >>, FALSE),
   Event("empty", << >>, << >>, FALSE)}
=============================================================================
