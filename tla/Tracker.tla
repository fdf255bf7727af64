------------------------------ MODULE Tracker ------------------------------
(***************************************************************************)
(* The traffic tracker of the panel adapter (traffic/tracker.go): counter  *)
(* objects that connections keep a pointer to for life, the table of live  *)
(* counters by key, the staged snapshot and its subtraction.               *)
(*                                                                         *)
(* A key is an inbound tag and a user.  A unit of traffic is an element of *)
(* Bytes with a direction, so that a counter's value is a number of such   *)
(* units; the units behind the value are history, which lets the           *)
(* properties say what a subtraction of numbers really removed.            *)
(*                                                                         *)
(* Counters are atomic integers that connections add to without the        *)
(* tracker's lock; the methods of the tracker hold it.  StageForReport and *)
(* ResetLiveCountersWhenJournaled are single steps: an addition between    *)
(* two of their loads has the effect of one before or after the method.    *)
(* Their caller is any caller, in any order; module Reporter has the one   *)
(* the adapter has.                                                        *)
(***************************************************************************)
EXTENDS Integers, FiniteSets

CONSTANTS
  Tags, Users,  \* inbound tags and users
  Inbounds,     \* panel inbound ids
  Mappings,     \* the tag to inbound id mappings the panel may configure
  Conns,        \* connections, packet connections and flows
  Bytes,        \* units of traffic
  None          \* Go's nil

Keys == Tags \X Users

Directions == {"up", "down"}

ASSUME ConstantsAssumption ==
  /\ None \notin Conns /\ None \notin Inbounds /\ None # "ignored"
  /\ None \notin Keys /\ None \notin Bytes \X Directions
  /\ Mappings \subseteq [Tags -> Inbounds \cup {None}] /\ Mappings # {}

VARIABLES
  inboundMapping,  \* tag to inbound id
  live,            \* key to counter object; an object is named after the
                   \* connection it was made for
  value, active,   \* the fields of the counter objects
  staged,          \* the staged snapshot
  conn,            \* the life of a connection
  connKey, counter, \* what a connection holds: its key and its counter object
  reading,         \* units a connection has moved and not yet counted
  \* history: the units behind each counter's value, those counted after
  \* their connection was closed, the connection that moved each unit and
  \* the inbound it was reported for
  units, late, carrier, billed

connVars == <<conn, connKey, counter, reading>>
history  == <<units, late, carrier, billed>>
vars == <<inboundMapping, live, value, active, staged, connVars, history>>

Zero == [d \in Directions |-> 0]

TypeOK ==
  /\ inboundMapping \in Mappings
  /\ live \in [Keys -> Conns \cup {None}]
  /\ value \in [Conns -> [Directions -> Int]]
  /\ active \in [Conns -> Nat]
  /\ staged = None \/
       /\ DOMAIN staged.values = DOMAIN staged.units
       /\ DOMAIN staged.values \subseteq Keys
       /\ staged.mapping \in Mappings /\ staged.confirmed \in BOOLEAN
  /\ conn \in [Conns -> {"new", "open", "releasing", "closed", "untracked"}]
  /\ connKey \in [Conns -> Keys \cup {None}]
  /\ counter \in [Conns -> Conns \cup {None}]
  /\ reading \in [Conns -> Bytes \X Directions \cup {None}]
  /\ units \in [Conns -> SUBSET (Bytes \X Directions)]
  /\ late \subseteq Bytes
  /\ carrier \in [Bytes -> Conns \cup {None}]
  /\ billed \in [Bytes -> Inbounds \cup {None, "ignored"}]

(***************************************************************************)
(* Connections.                                                            *)
(***************************************************************************)

(* RoutedConnection, RoutedPacketConnection and RoutedFlow: a connection   *)
(* of an unmapped inbound is not wrapped.                                  *)
TrackConnection(c, k) ==
  /\ conn[c] = "new"
  /\ \/ /\ inboundMapping[k[1]] = None
        /\ conn' = [conn EXCEPT ![c] = "untracked"]
        /\ UNCHANGED <<live, active, connKey, counter>>
     \/ /\ inboundMapping[k[1]] # None
        /\ LET obj == IF live[k] = None THEN c ELSE live[k]
           IN /\ live' = [live EXCEPT ![k] = obj]
              /\ active' = [active EXCEPT ![obj] = @ + 1]
              /\ counter' = [counter EXCEPT ![c] = obj]
        /\ conn' = [conn EXCEPT ![c] = "open"]
        /\ connKey' = [connKey EXCEPT ![c] = k]
  /\ UNCHANGED <<inboundMapping, value, staged, reading, history>>

(* A read or write of the wrapped connection moves a unit, and calls the   *)
(* count function after it.                                                *)
Transfer(c, b, d) ==
  /\ conn[c] = "open" /\ reading[c] = None
  /\ carrier[b] = None
  /\ reading' = [reading EXCEPT ![c] = <<b, d>>]
  /\ carrier' = [carrier EXCEPT ![b] = c]
  /\ UNCHANGED <<inboundMapping, live, value, active, staged, conn, connKey,
                 counter, units, late, billed>>

CountFunc(c) ==
  /\ reading[c] # None
  /\ value' = [value EXCEPT ![counter[c]][reading[c][2]] = @ + 1]
  /\ units' = [units EXCEPT ![counter[c]] = @ \cup {reading[c]}]
  /\ late' = IF conn[c] = "open" THEN late ELSE late \cup {reading[c][1]}
  /\ reading' = [reading EXCEPT ![c] = None]
  /\ UNCHANGED <<inboundMapping, live, active, staged, conn, connKey,
                 counter, carrier, billed>>

(* Close, once; another goroutine may still be between the transfer of its *)
(* last unit and its count function.                                       *)
Close(c) ==
  /\ conn[c] = "open"
  /\ conn' = [conn EXCEPT ![c] = "releasing"]
  /\ active' = [active EXCEPT ![counter[c]] = @ - 1]
  /\ UNCHANGED <<inboundMapping, live, value, staged, connKey, counter,
                 reading, history>>

(* Mutant: only the use count is looked at. *)
BugIdleUnused(obj, v) == active[obj] = 0

(* A counter that may be dropped: nobody holds it and it counts nothing.   *)
Idle(obj, v) == active[obj] = 0 /\ v = Zero

releaseCounters(c) ==
  /\ conn[c] = "releasing"
  /\ conn' = [conn EXCEPT ![c] = "closed"]
  /\ LET k == connKey[c]
         drop == live[k] = counter[c] /\ Idle(counter[c], value[counter[c]])
     IN live' = IF drop THEN [live EXCEPT ![k] = None] ELSE live
  /\ UNCHANGED <<inboundMapping, value, active, staged, connKey, counter,
                 reading, history>>

(***************************************************************************)
(* The methods the reporter and the configuration poll call.               *)
(***************************************************************************)
UpdateInboundMapping(m) ==
  /\ inboundMapping' = m
  /\ UNCHANGED <<live, value, active, staged, connVars, history>>

LiveKeys == {k \in Keys : live[k] # None}

(* The snapshot has every live key, the records only those of mapped tags. *)
StageForReport ==
  /\ staged' = [values    |-> [k \in LiveKeys |-> value[live[k]]],
                units     |-> [k \in LiveKeys |-> units[live[k]]],
                mapping   |-> inboundMapping,
                confirmed |-> FALSE]
  /\ UNCHANGED <<inboundMapping, live, value, active, connVars, history>>

(* ConfirmJournaled and ConfirmAccepted. *)
Confirm ==
  /\ staged # None
  /\ staged' = [staged EXCEPT !.confirmed = TRUE]
  /\ UNCHANGED <<inboundMapping, live, value, active, connVars, history>>

(* The units a snapshot was taken of, and the inbound they are billed to:  *)
(* the one their tag was mapped to when it was taken.                      *)
Snapped(b) == {k \in DOMAIN staged.units : \E d \in Directions : <<b, d>> \in staged.units[k]}

BilledTo(b) ==
  IF Snapped(b) = {} THEN billed[b]
  ELSE LET id == staged.mapping[(CHOOSE k \in Snapped(b) : TRUE)[1]]
       IN IF id = None THEN "ignored" ELSE id

(* Mutant: the counters are set to zero. *)
BugHardReset ==
  /\ staged # None /\ staged.confirmed
  /\ value' = [obj \in Conns |-> Zero]
  /\ units' = [obj \in Conns |-> {}]
  /\ billed' = [b \in Bytes |-> BilledTo(b)]
  /\ staged' = None
  /\ UNCHANGED <<inboundMapping, live, active, connVars, late, carrier>>

(* The snapshot's values are subtracted from the counters that are live    *)
(* under its keys now, and those left idle are dropped.                    *)
ResetLiveCountersWhenJournaled ==
  /\ staged # None /\ staged.confirmed
  /\ LET K == DOMAIN staged.values
         InSnapshot(obj) == connKey[obj] \in K /\ live[connKey[obj]] = obj
     IN /\ value' = [obj \in Conns |->
                       IF ~InSnapshot(obj) THEN value[obj]
                       ELSE [d \in Directions |->
                               value[obj][d] - staged.values[connKey[obj]][d]]]
        /\ units' = [obj \in Conns |->
                       IF ~InSnapshot(obj) THEN units[obj]
                       ELSE units[obj] \ staged.units[connKey[obj]]]
        /\ live' = [k \in Keys |->
                      IF k \in K /\ live[k] # None /\ Idle(live[k], value'[live[k]])
                      THEN None ELSE live[k]]
  /\ billed' = [b \in Bytes |-> BilledTo(b)]
  /\ staged' = None
  /\ UNCHANGED <<inboundMapping, active, connVars, late, carrier>>

Init ==
  /\ inboundMapping \in Mappings
  /\ live = [k \in Keys |-> None]
  /\ value = [c \in Conns |-> Zero]
  /\ active = [c \in Conns |-> 0]
  /\ staged = None
  /\ conn = [c \in Conns |-> "new"]
  /\ connKey = [c \in Conns |-> None]
  /\ counter = [c \in Conns |-> None]
  /\ reading = [c \in Conns |-> None]
  /\ units = [c \in Conns |-> {}]
  /\ late = {}
  /\ carrier = [b \in Bytes |-> None]
  /\ billed = [b \in Bytes |-> None]

Next ==
  \/ \E c \in Conns :
       \/ \E k \in Keys : TrackConnection(c, k)
       \/ \E b \in Bytes, d \in Directions : Transfer(c, b, d)
       \/ CountFunc(c) \/ Close(c) \/ releaseCounters(c)
  \/ \E m \in Mappings : UpdateInboundMapping(m)
  \/ StageForReport \/ Confirm \/ ResetLiveCountersWhenJournaled

Spec == Init /\ [][Next]_vars
-----------------------------------------------------------------------------
(* The counter of an open connection is the live one of its key, however   *)
(* often the key's counters were dropped and made again: what it counts is *)
(* seen by the next snapshot.                                              *)
OpenIsLive == \A c \in Conns : conn[c] = "open" => live[connKey[c]] = counter[c]

(* A counter's value is the number of the units counted and not yet        *)
(* reported: a subtraction never takes a snapshot off another counter than *)
(* the one it was taken of, and no value becomes negative.                 *)
ValueIsUnits ==
  \A c \in Conns, d \in Directions :
    value[c][d] = Cardinality({u \in units[c] : u[2] = d})

(* Units in a counter that no snapshot will see again were all counted     *)
(* after the connection that moved them was closed.                        *)
InvisibleIsLate ==
  \A c \in Conns :
    (\A k \in Keys : live[k] # c) => {u[1] : u \in units[c]} \subseteq late

(* A counted unit is in one counter or was billed, and never both: what a  *)
(* confirmed snapshot took is not counted again by the next one.           *)
CountedOnce ==
  \A b \in Bytes :
    LET in == {c \in Conns : \E d \in Directions : <<b, d>> \in units[c]}
    IN /\ Cardinality(in) <= 1
       /\ billed[b] # None => in = {}
       /\ carrier[b] # None /\ (\A c \in Conns : reading[c] = None \/ reading[c][1] # b)
            => in # {} \/ billed[b] # None
=============================================================================
