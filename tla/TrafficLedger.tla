---------------------------- MODULE TrafficLedger ----------------------------
(***************************************************************************)
(* What the traffic pipeline promises: a byte is counted, then journaled,  *)
(* then settled with the panel (accepted, or set aside for an operator),   *)
(* and never moves back; only bytes that are not yet journaled die with    *)
(* the process.  The one way out is that of an inbound the node no longer  *)
(* has: a report leaves its bytes out, and what a report left out may be   *)
(* given up.                                                               *)
(***************************************************************************)
CONSTANT Bytes

VARIABLES counting, journal, settled, dead,
          mapped,   \* the bytes of inbounds that the node has
          skipped,  \* the bytes the report last staged left out
          dropped   \* the bytes given up

vars == <<counting, journal, settled, dead, mapped, skipped, dropped>>

Init ==
  /\ journal \in SUBSET Bytes
  /\ counting = {} /\ settled = {} /\ dead = {}
  /\ mapped = {} /\ skipped = {} /\ dropped = {}

Count(b) ==
  /\ b \notin counting \cup journal \cup settled \cup dead \cup dropped
  /\ counting' = counting \cup {b}
  /\ UNCHANGED <<journal, settled, dead, mapped, skipped, dropped>>

Remap ==
  /\ mapped' \in SUBSET Bytes
  /\ UNCHANGED <<counting, journal, settled, dead, skipped, dropped>>

Stage ==
  /\ skipped' = counting \ mapped
  /\ UNCHANGED <<counting, journal, settled, dead, mapped, dropped>>

(* Traffic becomes durable: for sending, or for an operator to look at.    *)
Journal(S) ==
  /\ S \cap skipped = {}
  /\ counting' = counting \ S
  /\ \/ journal' = journal \cup S /\ UNCHANGED settled
     \/ settled' = settled \cup S /\ UNCHANGED journal
  /\ UNCHANGED <<dead, mapped, skipped, dropped>>

GiveUp ==
  /\ counting' = counting \ skipped
  /\ dropped' = dropped \cup skipped
  /\ skipped' = {}
  /\ UNCHANGED <<journal, settled, dead, mapped>>

Settle(S) ==
  /\ journal' = journal \ S
  /\ settled' = settled \cup S
  /\ UNCHANGED <<counting, dead, mapped, skipped, dropped>>

ProcessEnds ==
  /\ counting' = {} /\ mapped' = {} /\ skipped' = {}
  /\ dead' = dead \cup counting
  /\ UNCHANGED <<journal, settled, dropped>>

Next ==
  \/ \E b \in Bytes : Count(b)
  \/ \E S \in SUBSET counting : Journal(S)
  \/ \E S \in SUBSET journal : Settle(S)
  \/ Remap \/ Stage \/ GiveUp \/ ProcessEnds

Spec == Init /\ [][Next]_vars
=============================================================================
