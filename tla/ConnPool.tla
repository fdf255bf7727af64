------------------------------ MODULE ConnPool ------------------------------
(***************************************************************************)
(* The connection pool of the DNS transports in ConnPoolSingle mode, the   *)
(* only mode a caller of the repository asks for                           *)
(* (dns/transport/conn_pool.go).  One shared connection serves every       *)
(* caller; the first caller that finds none starts a dial in a goroutine,  *)
(* the others wait for it.  Reset replaces the pool state and Close ends   *)
(* it; both close the old state only after they released the lock.         *)
(*                                                                         *)
(* This module holds the pool's state and its critical sections, as        *)
(* conjuncts of the actions of the module that extends it (Multiplexer).   *)
(*                                                                         *)
(* A connection and the dial that makes it have the same number.  In       *)
(* Single mode a state tracks exactly its shared connection, so "all" is   *)
(* not a variable of its own.                                              *)
(***************************************************************************)
EXTENDS Naturals, FiniteSets

CONSTANTS MaxConns,   \* connections that can be referred to at one time
          MaxResets,  \* calls of Reset
          None        \* the nil of the pointers of the code

Conn  == 1 .. MaxConns
Epoch == 0 .. MaxResets     \* the successive values of p.state

ASSUME PoolAssumption ==
    /\ MaxConns \in Nat /\ MaxResets \in Nat
    /\ None \notin Conn /\ None \notin Epoch
    /\ None \notin {"read", "error", "ctx"}

VARIABLES closed,      \* ConnPool.closed
          current,     \* ConnPool.state
          shared,      \* current.shared, or None when hasShared is false
          claimed,     \* current.sharedClaimed
          connecting,  \* current.connecting: the dial in progress, or None
          stateDone,   \* states whose context is cancelled
          closing,     \* states that Reset or Close has yet to close
          dial,        \* the connectSingle goroutines
          open,        \* connections not closed on this side
          cause        \* what cancelled the context of a shared connection:
                       \* "read", "error" or "ctx", None while it is live

poolVars == <<closed, current, shared, claimed, connecting, stateDone,
              closing, dial, open, cause>>

(* pc: "dialing", or "done" once the channel done is closed; err is        *)
(* connPoolConnect.err, owner the exchange whose context the dial runs in. *)
Unused == [pc |-> "unused", state |-> 0, owner |-> None, err |-> None]

PoolInit ==
    /\ closed = FALSE
    /\ current = 0
    /\ shared = None
    /\ claimed = FALSE
    /\ connecting = None
    /\ stateDone = {}
    /\ closing = {}
    /\ dial = [c \in Conn |-> Unused]
    /\ open = {}
    /\ cause = [c \in Conn |-> None]

(* _, tracked := state.all[conn] *)
Tracked(c) == ~closed /\ shared = c

(* context.Cause of the context handed out with a shared connection: the   *)
(* cause given to removeConn, or the one the state's context was closed    *)
(* with.                                                                   *)
ConnCause(c) ==
    IF cause[c] # None THEN cause[c]
    ELSE IF dial[c].state \in stateDone THEN "error" ELSE None

BugRemoveConn(c, why) ==
    /\ shared' = None
    /\ UNCHANGED claimed
    /\ cause' = [cause EXCEPT ![c] = why]

removeConn(c, why) ==
    /\ shared' = None
    /\ claimed' = FALSE
    /\ cause' = [cause EXCEPT ![c] = why]

(* An untracked connection is left alone: whoever untracked it closes it. *)
Invalidate(c, why) ==
    /\ IF Tracked(c) THEN removeConn(c, why)
                     ELSE UNCHANGED <<shared, claimed, cause>>
    /\ open' = IF closed \/ Tracked(c) THEN open \ {c} ELSE open
    /\ UNCHANGED <<closed, current, connecting, stateDone, closing, dial>>

(* Every caller passes reuse = TRUE and a connection that IsAlive accepts. *)
Release(c) ==
    /\ open' = IF Tracked(c) THEN open ELSE open \ {c}
    /\ UNCHANGED <<closed, current, shared, claimed, connecting, stateDone,
                   closing, dial, cause>>

-----------------------------------------------------------------------------
(* Reset and Close swap the state under the lock ... *)
poolReset ==
    /\ IF closed
         THEN UNCHANGED <<current, shared, claimed, connecting, closing>>
         ELSE /\ current' = current + 1
              /\ closing' = closing \cup {[state |-> current, conn |-> shared]}
              /\ shared' = None
              /\ claimed' = FALSE
              /\ connecting' = None
    /\ UNCHANGED <<closed, stateDone, dial, open, cause>>

poolClose ==
    /\ ~closed
    /\ closed' = TRUE
    /\ closing' = closing \cup {[state |-> current, conn |-> shared]}
    /\ shared' = None
    /\ claimed' = FALSE
    /\ connecting' = None
    /\ UNCHANGED <<current, stateDone, dial, open, cause>>

BugCloseState(old) ==
    /\ old \in closing
    /\ closing' = closing \ {old}
    /\ open' = open \ {old.conn}
    /\ UNCHANGED <<closed, current, shared, claimed, connecting, stateDone,
                   dial, cause>>

(* ... and close the old one after it: its context, then its connection. *)
closeState(old) ==
    /\ old \in closing
    /\ closing' = closing \ {old}
    /\ stateDone' = stateDone \cup {old.state}
    /\ open' = open \ {old.conn}
    /\ UNCHANGED <<closed, current, shared, claimed, connecting, dial, cause>>

-----------------------------------------------------------------------------
BugConnectSingle(c, err, cancelled) ==
    LET gone == closed \/ dial[c].state # current
    IN /\ dial[c].pc = "dialing"
       /\ dial' = [dial EXCEPT
            ![c].pc = "done", ![c].owner = None,
            ![c].err = IF err = None /\ gone THEN "error" ELSE err]
       /\ open' = IF err = None THEN open \cup {c} ELSE open
       /\ shared' = IF err = None /\ ~gone THEN c ELSE shared
       /\ connecting' = IF gone THEN connecting ELSE None
       /\ UNCHANGED <<closed, current, claimed, stateDone, closing, cause>>

(* connectSingle: the dial returns err (None for a connection) while       *)
(* cancelled says whether the starter's own context is done.  A connection *)
(* obtained under a cancelled context, or for a state that is gone, is     *)
(* closed, never installed.  Closing done is part of the step.             *)
connectSingle(c, err, cancelled) ==
    LET gone == closed \/ dial[c].state # current
        done == {e \in {"ctx", "error"} :
                   \/ e = "ctx" /\ cancelled
                   \/ e = "error" /\ dial[c].state \in stateDone}
    IN /\ dial[c].pc = "dialing"
       /\ \E dialErr \in IF done # {} THEN done ELSE {err} :
            /\ dial' = [dial EXCEPT
                 ![c].pc = "done", ![c].owner = None,
                 ![c].err = IF dialErr = None /\ gone THEN "error"
                                                      ELSE dialErr]
            /\ IF dialErr = None /\ ~gone
                 THEN shared' = c /\ open' = open \cup {c}
                 ELSE UNCHANGED <<shared, open>>
       /\ connecting' = IF gone THEN connecting ELSE None
       /\ UNCHANGED <<closed, current, claimed, stateDone, closing, cause>>
=============================================================================
