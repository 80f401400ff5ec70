------------------------------ MODULE Decision ------------------------------
(***************************************************************************)
(* Code that only decides: a function of what it was given and has read.   *)
(* Every small question is an initial state and one step answers it, so    *)
(* that an invariant relates the two.                                      *)
(***************************************************************************)
VARIABLES question, answer  \* answer = {} until the step
asked == <<question, answer>>

Decide(topic, outcomes) ==
    /\ question.about = topic
    /\ answer = {}
    /\ answer' = outcomes
    /\ UNCHANGED question

About(topic) == question.about = topic /\ answer # {}
=============================================================================
