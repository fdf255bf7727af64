---------------------------- MODULE MCNodeConfig ----------------------------
(***************************************************************************)
(* The circumstances NodeConfig is checked in: every fault of the state    *)
(* and the panel; faults after which the node must converge, with and      *)
(* without a revision that waits for an operator; binary updates that      *)
(* fail.                                                                   *)
(***************************************************************************)
EXTENDS NodeConfig

Circumstances(waiting, failing, lists, trouble) ==
  [manual |-> waiting, updates |-> failing, users |-> lists, faults |-> trouble]

MCSettings ==
  {Circumstances({}, 0, 2, {"fetch", "create", "save", "crash"}),
   Circumstances({}, 0, 1, {"fetch", "create", "crash"}),
   Circumstances({2}, 0, 1, {"fetch", "create", "crash"}),
   Circumstances({}, 2, 2, {"create", "crash"}),
   Circumstances({}, 1, 1, {"save", "crash"})}

(* Two user lists, and nothing goes wrong. *)
MCRaceSettings == {Circumstances({}, 0, 2, {})}
=============================================================================
