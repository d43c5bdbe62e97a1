---------------------------- MODULE MCDecisionSink ----------------------------
(* Instances of DecisionSink: three events through a channel of one or two  *)
(* places, one of them large, or one that json cannot encode.               *)
EXTENDS DecisionSink

CONSTANTS e1, e2, e3, bad

Three == {e1, e2, e3}
ThreeWithBad == {e1, e3, bad}
NoneBad == {}
OneBad == {bad}

Small == [e \in Events |-> 1]
OneLarge == [e \in Events |-> IF e = e3 THEN 2 ELSE 1]

=============================================================================
