--------------------------- MODULE MCFindingStore ---------------------------
(***************************************************************************)
(* Three READMEs and four findings.  The second README holds two findings  *)
(* of different scores.  The rules cover the interesting cases: a finding  *)
(* whose whole line is noise but whose 300 characters are not, one for     *)
(* which it is the other way round, one that always passes, and one that a *)
(* rule about the token rejects.                                           *)
(***************************************************************************)
EXTENDS FindingStore, TLC

CONSTANTS wil, teh, aks, hve

MCSymmetry == Permutations(Proc)

MCSnapshot == 1 .. 3
MCFinding  == {wil, teh, aks, hve}
MCSnapOf   == (wil :> 1) @@ (teh :> 2) @@ (aks :> 2) @@ (hve :> 3)
MCScore    == (wil :> 1) @@ (teh :> 2) @@ (aks :> 1) @@ (hve :> 2)

MCToken    == {"w", "t"}
MCTokenOf  == (wil :> "w") @@ (teh :> "t") @@ (aks :> "t") @@ (hve :> "w")

MCContextRule ==
    (wil :> "fragment") @@ (teh :> "none") @@ (aks :> "token") @@ (hve :> "none")
MCSnippetRule ==
    (wil :> "none") @@ (teh :> "none") @@ (aks :> "token") @@ (hve :> "fragment")

\* The same with two READMEs and three findings
MCSnapshot2    == 1 .. 2
MCFinding2     == {wil, teh, aks}
MCSnapOf2      == [f \in MCFinding2 |-> MCSnapOf[f]]
MCScore2       == [f \in MCFinding2 |-> MCScore[f]]
MCTokenOf2     == [f \in MCFinding2 |-> MCTokenOf[f]]
MCContextRule2 == [f \in MCFinding2 |-> MCContextRule[f]]
MCSnippetRule2 == [f \in MCFinding2 |-> MCSnippetRule[f]]
=============================================================================
