------------------------------ MODULE MCTracker ------------------------------
(* Instances of Tracker.                                                   *)
EXTENDS Tracker, TLC

(* An inbound whose tag the panel may withdraw and configure again.        *)
Withdrawn == {[t \in {"a"} |-> "in1"], [t \in {"a"} |-> None]}

(* Connections and units are alike.                                        *)
Symmetry == Permutations(Conns) \cup Permutations(Bytes)
=============================================================================
