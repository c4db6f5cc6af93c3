-------------------------- MODULE FindingLifecycle --------------------------
(***************************************************************************)
(* What a reader of the dashboard may see happen to a finding.  It comes   *)
(* up once, either visible ("unverified") or rejected by the rules; the    *)
(* LLM judges unverified findings, each once; the rules may be run again   *)
(* over all but the confirmed ones; and a reset takes every judgement back *)
(* at once.                                                                *)
(***************************************************************************)
CONSTANT Finding

VARIABLES
    shown,   \* what the dashboard shows of each finding
    judged   \* those the LLM has judged

life == <<shown, judged>>

TypeOK ==
    /\ shown \in [Finding -> {"absent", "rejected", "unverified", "unsure", "confirmed"}]
    /\ judged \subseteq Finding

In(what) == {f \in Finding : shown[f] \in what}

\* The findings of F, and no others, are given a state out of "to".
Change(F, to) == \E new \in [F -> to] :
    shown' = [f \in Finding |-> IF f \in F THEN new[f] ELSE shown[f]]

Init == shown = [f \in Finding |-> "absent"] /\ judged = {}

\* A check reports new findings.
Record ==
    /\ \E F \in SUBSET In({"absent"}) : Change(F, {"unverified", "rejected"})
    /\ UNCHANGED judged

\* The LLM judges findings that are unverified, and that it has not judged before.
Judge ==
    \E F \in SUBSET (In({"unverified"}) \ judged) :
        /\ Change(F, {"confirmed", "rejected", "unsure"})
        /\ judged' = judged \cup F

\* The rules run again over everything not confirmed.  They do not make the LLM
\* unsure of what it has not judged, nor make it forget that it was.
Refilter ==
    \E F \in SUBSET In({"unverified", "unsure", "rejected"}) :
        /\ Change(F, {"unverified", "unsure", "rejected"})
        /\ \A f \in F : /\ shown'[f] = "unsure" => f \in judged
                       /\ shown[f] = "unsure" => shown'[f] # "unverified"
        /\ UNCHANGED judged

\* Every finding that has been judged goes back to unverified, whatever the rules
\* have said of it since; no other does, a rejection by the rules least of all.
Reset ==
    /\ shown' = [f \in Finding |-> IF f \in judged THEN "unverified" ELSE shown[f]]
    /\ judged' = {}

Next == Record \/ Judge \/ Refilter \/ Reset

Spec == Init /\ [][Next]_life
=============================================================================
