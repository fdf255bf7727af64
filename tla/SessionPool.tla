---------------------------- MODULE SessionPool ----------------------------
(***************************************************************************)
(* The client sessions of the Noisy-Shuttle outbound                       *)
(* (protocol/noisyshuttle/session.go): a pool of at most one session that  *)
(* streams are opened on one after another.  Callers open and close        *)
(* streams; the background loop of a session closes it when it is too old  *)
(* or idle, or when a keepalive fails.                                     *)
(*                                                                         *)
(* The mutexes are not reentrant.  That of a session is only held for      *)
(* straight-line code and is not modelled; the pool's is the variable mu,  *)
(* because session.close takes it (pool.remove) and is called with and     *)
(* without it.  Time is two flags per session: it has reached max_age, it  *)
(* has been without activity for idle_timeout.                             *)
(***************************************************************************)
EXTENDS Naturals

CONSTANTS Caller,      \* the goroutines that use the outbound
          MaxSessions, \* bound: sessions dialed
          MaxStreams,  \* what the server grants a session (maxStreams)
          None

Session == 1 .. MaxSessions

VARIABLES mu,      \* SessionPool.mu: who holds it, or None
          session, \* SessionPool.session
          sess,    \* the clientSessions
          pc, mine,  \* every caller: where it is, the session it has
          loop       \* the background loops: "none", "run", "ping",
                     \* "remove"

vars == <<mu, session, sess, pc, mine, loop>>

Undialed == [closed |-> FALSE, active |-> FALSE, streamCount |-> 0,
             old |-> FALSE, idle |-> FALSE, conn |-> "none"]

Init ==
    /\ mu = None
    /\ session = None
    /\ sess = [s \in Session |-> Undialed]
    /\ pc = [c \in Caller |-> "idle"]
    /\ mine = [c \in Caller |-> None]
    /\ loop = [s \in Session |-> "none"]

Goto(c, label) == pc' = [pc EXCEPT ![c] = label]

(* canOpenLocked, for a server that grants CapabilityReuse and an outbound *)
(* without max_requests.                                                   *)
canOpen(s) ==
    /\ ~sess[s].closed /\ ~sess[s].active
    /\ sess[s].streamCount < MaxStreams
    /\ ~sess[s].old /\ ~sess[s].idle

(* What tryAcquire makes of a session that can be opened. *)
Acquired(x) == [x EXCEPT !.active = TRUE, !.streamCount = @ + 1,
                         !.idle = FALSE]

-----------------------------------------------------------------------------
OpenStream(c) ==
    /\ pc[c] = "idle"
    /\ Goto(c, "lookup")
    /\ UNCHANGED <<mu, session, sess, mine, loop>>

(* The first critical section of OpenStream.  A pooled session that cannot *)
(* be used is closed inside it; unless it was closed already, its close    *)
(* goes on to pool.remove, with the lock held.                             *)
lookup(c) ==
    /\ pc[c] = "lookup"
    /\ mu = None
    /\ \/ /\ session = None
          /\ Goto(c, "dial")
          /\ UNCHANGED <<mu, session, sess, mine>>
       \/ /\ session # None /\ canOpen(session)
          /\ sess' = [sess EXCEPT ![session] = Acquired(@)]
          /\ mine' = [mine EXCEPT ![c] = session]
          /\ Goto(c, "stream")
          /\ UNCHANGED <<mu, session>>
       \/ /\ session # None /\ canOpen(session)   \* but not in tryAcquire
          /\ \/ sess' = [sess EXCEPT ![session].old = TRUE]
             \/ sess' = [sess EXCEPT ![session].idle = TRUE]
          /\ Goto(c, "dial")
          /\ UNCHANGED <<mu, session, mine>>
       \/ /\ session # None /\ ~canOpen(session)
          /\ session' = None
          /\ sess' = [sess EXCEPT ![session].closed = TRUE]
          /\ IF sess[session].closed
               THEN Goto(c, "dial") /\ UNCHANGED <<mu, mine>>
               ELSE /\ mu' = c
                    /\ mine' = [mine EXCEPT ![c] = session]
                    /\ Goto(c, "removeLocked")
    /\ UNCHANGED loop

(* s.pool.remove(s) and s.conn.Close(), for whoever has marked s closed. *)
remove(s) ==
    /\ mu = None
    /\ session' = IF session = s THEN None ELSE session
    /\ sess' = [sess EXCEPT ![s].conn = "closed"]

(* The same from inside lookup, which then unlocks and dials. *)
removeLocked(c) ==
    /\ pc[c] = "removeLocked"
    /\ remove(mine[c])
    /\ mu' = None
    /\ mine' = [mine EXCEPT ![c] = None]
    /\ Goto(c, "dial")
    /\ UNCHANGED loop

(* dialSession: the handshake may fail. *)
dialSession(c) ==
    /\ pc[c] = "dial"
    /\ \/ /\ Goto(c, "idle")
          /\ UNCHANGED <<sess, mine>>
       \/ \E s \in Session :
            /\ sess[s].conn = "none"
            /\ \A r \in 1 .. s - 1 : sess[r].conn # "none"
            /\ sess' = [sess EXCEPT ![s].conn = "open"]
            /\ mine' = [mine EXCEPT ![c] = s]
            /\ Goto(c, "install")
    /\ UNCHANGED <<mu, session, loop>>

(* The second critical section.  A session that another caller is using is *)
(* replaced.  A new session that lost the race, or can no longer be used   *)
(* (then it is in the pool), is closed, and the loop begins again.         *)
install(c) ==
    LET new == mine[c]
    IN /\ pc[c] = "install"
       /\ mu = None
       /\ \/ /\ session # None => ~canOpen(session)
             /\ session' = new
             /\ loop' = [loop EXCEPT ![new] = "run"]
             /\ IF canOpen(new)
                  THEN /\ sess' = [sess EXCEPT ![new] = Acquired(@)]
                       /\ Goto(c, "stream")
                  ELSE /\ sess' = [sess EXCEPT ![new].closed = TRUE]
                       /\ Goto(c, "discard")
             /\ UNCHANGED mine
          \/ /\ session # None /\ canOpen(session)
             /\ sess' = [sess EXCEPT ![new].closed = TRUE,
                                     ![new].conn = "closed"]
             /\ mine' = [mine EXCEPT ![c] = None]
             /\ Goto(c, "lookup")
             /\ UNCHANGED <<session, loop>>
       /\ UNCHANGED mu

(* newSession.close() for one that was put into the pool. *)
discard(c) ==
    /\ pc[c] = "discard"
    /\ remove(mine[c])
    /\ mine' = [mine EXCEPT ![c] = None]
    /\ Goto(c, "lookup")
    /\ UNCHANGED <<mu, loop>>

-----------------------------------------------------------------------------
(* The stream is closed: clientSession.release. *)
release(c) ==
    LET s == mine[c]
        free == [sess EXCEPT ![s].active = FALSE, ![s].idle = FALSE]
        usable == /\ ~sess[s].closed /\ ~sess[s].old
                  /\ sess[s].streamCount < MaxStreams
    IN /\ pc[c] = "stream"
       /\ IF usable \/ sess[s].closed
            THEN /\ sess' = free
                 /\ mine' = [mine EXCEPT ![c] = None]
                 /\ Goto(c, "idle")
            ELSE /\ sess' = [free EXCEPT ![s].closed = TRUE]
                 /\ Goto(c, "close")
                 /\ UNCHANGED mine
       /\ UNCHANGED <<mu, session, loop>>

close(c) ==
    /\ pc[c] = "close"
    /\ remove(mine[c])
    /\ mine' = [mine EXCEPT ![c] = None]
    /\ Goto(c, "idle")
    /\ UNCHANGED <<mu, loop>>

(* A tick of backgroundLoop: checkLifecycle, then, for a session no stream *)
(* is using, sendKeepalive.                                                *)
backgroundLoop(s) ==
    /\ loop[s] = "run"
    /\ \/ /\ sess[s].closed
          /\ loop' = [loop EXCEPT ![s] = "none"]
          /\ UNCHANGED sess
       \/ /\ ~sess[s].closed
          /\ sess[s].old \/ (sess[s].idle /\ ~sess[s].active)
          /\ sess' = [sess EXCEPT ![s].closed = TRUE]
          /\ loop' = [loop EXCEPT ![s] = "remove"]
       \/ /\ ~sess[s].closed /\ ~sess[s].active
          /\ ~sess[s].old /\ ~sess[s].idle
          /\ loop' = [loop EXCEPT ![s] = "ping"]
          /\ UNCHANGED sess
    /\ UNCHANGED <<mu, session, pc, mine>>

(* The answer comes, or is missing or wrong; by then a stream may be using *)
(* the session.                                                            *)
sendKeepalive(s) ==
    /\ loop[s] = "ping"
    /\ \/ /\ sess' = [sess EXCEPT ![s].idle = FALSE]
          /\ loop' = [loop EXCEPT ![s] = "run"]
       \/ /\ sess' = [sess EXCEPT ![s].closed = TRUE]
          /\ loop' = [loop EXCEPT ![s] = IF sess[s].closed THEN "none"
                                                          ELSE "remove"]
    /\ UNCHANGED <<mu, session, pc, mine>>

backgroundRemove(s) ==
    /\ loop[s] = "remove"
    /\ remove(s)
    /\ loop' = [loop EXCEPT ![s] = "none"]
    /\ UNCHANGED <<mu, pc, mine>>

timePasses(s) ==
    /\ sess[s].conn = "open"
    /\ \/ sess' = [sess EXCEPT ![s].old = TRUE]
       \/ sess' = [sess EXCEPT ![s].idle = TRUE]
    /\ UNCHANGED <<mu, session, pc, mine, loop>>

-----------------------------------------------------------------------------
opening(c) ==
    \/ lookup(c) \/ removeLocked(c) \/ dialSession(c) \/ install(c)
    \/ discard(c)

Next ==
    \/ \E c \in Caller : OpenStream(c) \/ opening(c) \/ release(c) \/ close(c)
    \/ \E s \in Session :
          \/ backgroundLoop(s) \/ sendKeepalive(s) \/ backgroundRemove(s)
          \/ timePasses(s)

(* A caller inside OpenStream runs, and its dial returns (auth_timeout);   *)
(* whoever closes a session gets the lock while it is free now and then.   *)
Fairness ==
    /\ \A c \in Caller : SF_vars(opening(c)) /\ SF_vars(close(c))
    /\ \A s \in Session : SF_vars(backgroundRemove(s))

FairSpec == Init /\ [][Next]_vars /\ Fairness

-----------------------------------------------------------------------------
(* A caller that asks for a stream gets one, or the error of a dial: the   *)
(* documentation promises several concurrent streams per session           *)
(* (session.max_streams), and a new session once max_age is reached.       *)
OpenStreamReturns ==
    \A c \in Caller : pc[c] = "lookup" ~> pc[c] \in {"stream", "idle"}
=============================================================================
