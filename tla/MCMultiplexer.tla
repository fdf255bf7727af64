--------------------------- MODULE MCMultiplexer ---------------------------
(***************************************************************************)
(* Two goroutine slots for exchanges, and the transports of the repository *)
(* that use the multiplexer: UDP never probes and never retries, TCP and   *)
(* TLS do both.  Each scenario concentrates on one kind of trouble.        *)
(***************************************************************************)
EXTENDS Multiplexer

Scn(stream, ids, n, trouble, swaps, close) ==
    [probeReuse |-> stream, retryReadError |-> stream, ids |-> ids,
     exchanges |-> n, faults |-> trouble, resets |-> swaps,
     closes |-> close]

MCScenario ==
    {Scn(FALSE, 1, 2, 2, 0, FALSE),   \* one query id
     Scn(FALSE, 2, 2, 1, 0, TRUE),    \* Close
     Scn(FALSE, 2, 2, 0, 1, FALSE),   \* Reset
     Scn(FALSE, 2, 1, 0, 1, TRUE),    \* Reset and Close
     Scn(TRUE, 2, 3, 1, 0, FALSE),    \* a connection dies under its queries
     Scn(TRUE, 2, 2, 1, 1, FALSE)}    \* Reset while a probe runs
=============================================================================
