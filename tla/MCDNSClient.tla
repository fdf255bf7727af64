---------------------------- MODULE MCDNSClient ----------------------------
(* Instances of DNSClient for TLC. *)
EXTENDS DNSClient

Scn(stale, loops, rules, first, changes, n) ==
    [optimistic |-> stale, nested |-> loops, filtered |-> rules,
     start |-> first, moves |-> changes, exchanges |-> n]

MCScenario ==
    {Scn(FALSE, FALSE, FALSE, 1, 2, 3),   \* the network changes
     Scn(FALSE, FALSE, FALSE, 0, 1, 4),   \* it is identified late
     Scn(TRUE, FALSE, FALSE, 1, 1, 3),    \* stale answers
     Scn(TRUE, FALSE, TRUE, 0, 0, 2),     \* stale answers, address filters
     Scn(FALSE, TRUE, TRUE, 0, 0, 3)}     \* a transport that needs itself
=============================================================================
