---------------------------- MODULE MCDecisions ----------------------------
(***************************************************************************)
(* The decisions the controller takes on what it has read, each compared   *)
(* with a definition that does not follow the code.  Every small question  *)
(* is an initial state, and one step answers it.  A topic has a module of  *)
(* its own with its questions and its properties.                          *)
(*                                                                         *)
(* Where nothing is asked, the ring buffer is used instead, in any number  *)
(* of steps.                                                               *)
(***************************************************************************)
EXTENDS RingBuffer, ScopeDecision, AttributionDecision, StatusDecision, FlowDecision, IstioDecision,
        RuleDecision, LearningDecision, TLSDecision

Init ==
    /\ \/ question \in ScopeQuestions
       \/ question \in ViolationQuestions
       \/ question \in StatusQuestions
       \/ question \in FlowQuestions("hubble")
       \/ question \in FlowQuestions("goldmane")
       \/ question \in MeshQuestions
       \/ question \in EventQuestions
       \/ question \in MeshEventQuestions
       \/ question \in EditQuestions
       \/ question \in MeshEditQuestions
       \/ question \in ClearQuestions
       \/ question \in TLSQuestions
       \/ question = [about |-> "buffer"]
    /\ answer = {}
    /\ EmptyBuffer

Answer ==
    \/ Judge
    \/ Correlate
    \/ Recompute
    \/ ParseHubble
    \/ ParseGoldmane
    \/ Handle
    \/ LearnEvents
    \/ LearnMeshEvents
    \/ LearnIntoEdited
    \/ LearnIntoEditedMesh
    \/ Clear
    \/ Connect

Next ==
    \/ Answer /\ UNCHANGED buffer
    \/ question.about = "buffer" /\ UseBuffer /\ UNCHANGED asked

Spec == Init /\ [][Next]_<<asked, buffer>>
=============================================================================
