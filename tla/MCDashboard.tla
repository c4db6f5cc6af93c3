------------------------------ MODULE MCDashboard ------------------------------
(***************************************************************************)
(* Two READMEs: a block that is an image only, before one with a word in   *)
(* two cases, once across an end of emphasis and once across HTML; a word  *)
(* only typos knows, twice in its block, with the end of a line between    *)
(* two pieces of another; a word only codespell knows, and a rule rejects. *)
(***************************************************************************)
EXTENDS Dashboard

Text(s)   == [type |-> "text", text |-> s]
Markup(k) == [type |-> k, text |-> <<>>]

MCReadme == {"a", "b"}
MCBlocks == [r \in MCReadme |->
    IF r = "a"
    THEN << [line |-> 1, children |-> <<Markup("image")>>],
            [line |-> 3, children |->
                << Text(<<"Te">>), Markup("marker"), Text(<<"h", " ">>), Markup("code_inline"),
                   Text(<<" ", "te">>), Markup("html_inline"), Text(<<"h", " ">>) >>] >>
    ELSE << [line |-> 1, children |-> 
                << Text(<<"cat", " ", "cat", " ", "te">>), Markup("break"), Text(<<"h">>) >>],
            [line |-> 4, children |-> <<Text(<<"TE", "h">>)>>] >>]
MCPiece == {"Te", "te", "TE", "h", "cat"}
MCLower == [p \in MCPiece |-> IF p \in {"Te", "TE"} THEN "te" ELSE p]
MCKnows == [codespell |-> {<<"Te", "h">>, <<"te", "h">>, <<"TE", "h">>},
            typos     |-> {<<"te", "h">>, <<"Te", "h">>, <<"cat">>}]
MCNoise == {<<"TE", "h">>}
MCOrg   == {"x", "y"}
MCOrgOf == [r \in MCReadme |-> IF r = "a" THEN "x" ELSE "y"]
=============================================================================
