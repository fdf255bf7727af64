--------------------------- MODULE TrackerProofs ---------------------------
(***************************************************************************)
(* The safety properties of Tracker for any number of connections, keys,   *)
(* mappings and units.  The first half is about counter objects: their     *)
(* types, their keys, their use counts, and that the object of an open     *)
(* connection is live.  The second half follows the units.                 *)
(***************************************************************************)
EXTENDS Tracker, FiniteSetTheorems, TLAPS

Units == Bytes \X Directions

Of(S, d) == {u \in S : u[2] = d}

Tracked == {"open", "releasing", "closed"}

(* The snapshot is a record of functions over the keys it was taken of.    *)
StagedInv ==
  staged # None =>
    /\ staged = [values |-> staged.values, units |-> staged.units,
                 mapping |-> staged.mapping, confirmed |-> staged.confirmed]
    /\ staged.mapping \in Mappings /\ staged.confirmed \in BOOLEAN
    /\ DOMAIN staged.values \subseteq Keys
    /\ staged.values \in [DOMAIN staged.values -> [Directions -> Int]]
    /\ staged.units \in [DOMAIN staged.values -> SUBSET Units]

(* A counter object serves the connections of one key and is live under    *)
(* that key only.  A connection that is not tracked has none.              *)
ObjectInv ==
  /\ \A k \in Keys : live[k] # None => connKey[live[k]] = k
  /\ \A c \in Conns :
       IF conn[c] \in Tracked
       THEN /\ counter[c] \in Conns /\ connKey[c] \in Keys
            /\ connKey[counter[c]] = connKey[c]
       ELSE /\ counter[c] = None /\ connKey[c] = None
            /\ reading[c] = None /\ units[c] = {}

(* The use count of an object counts the open connections that hold it.    *)
Holders(o) == {c \in Conns : conn[c] = "open" /\ counter[c] = o}

ActiveInv ==
  \A o \in Conns :
    IsFiniteSet(Holders(o)) /\ active[o] = Cardinality(Holders(o))

(* Every unit is where one step put it: with the connection that reads it, *)
(* in one counter or in a bill.                                            *)
PlaceInv ==
  /\ \A b \in Bytes : carrier[b] = None => billed[b] = None
  /\ \A c \in Conns : reading[c] # None =>
       /\ carrier[reading[c][1]] = c /\ billed[reading[c][1]] = None
       /\ \A o \in Conns, d \in Directions : <<reading[c][1], d>> \notin units[o]
  /\ \A o \in Conns, b \in Bytes, d \in Directions :
       <<b, d>> \in units[o] => carrier[b] # None /\ billed[b] = None
  /\ \A o, p \in Conns, b \in Bytes, d, e \in Directions :
       <<b, d>> \in units[o] /\ <<b, e>> \in units[p] => o = p /\ d = e
  /\ \A b \in Bytes :
       \/ carrier[b] = None \/ billed[b] # None
       \/ \E c \in Conns : reading[c] # None /\ reading[c][1] = b
       \/ \E o \in Conns, d \in Directions : <<b, d>> \in units[o]

ValueInv == ValueIsUnits /\ \A c \in Conns : IsFiniteSet(units[c])

(* What the snapshot holds of a key is still in the counter that is live   *)
(* under the key, and is counted as in it.  A counter that was dropped and *)
(* made again since had nothing in the snapshot.                           *)
SnapshotInv ==
  staged # None =>
    \A k \in DOMAIN staged.values :
      /\ staged.units[k] # {} => live[k] # None /\ staged.units[k] \subseteq units[live[k]]
      /\ IsFiniteSet(staged.units[k])
      /\ \A d \in Directions : staged.values[k][d] = Cardinality(Of(staged.units[k], d))

IInv ==
  /\ TypeOK /\ StagedInv /\ ObjectInv /\ ActiveInv /\ OpenIsLive
  /\ PlaceInv /\ ValueInv /\ SnapshotInv /\ InvisibleIsLate

(* Nothing is counted in the initial state. *)
LEMMA InitIInv == Init => IInv
<1> SUFFICES ASSUME Init PROVE IInv
  BY Zenon
<1> USE ConstantsAssumption DEF Init
<1>1. TypeOK /\ StagedInv
  BY DEF TypeOK, StagedInv, Zero
<1>2. ObjectInv /\ OpenIsLive /\ SnapshotInv /\ InvisibleIsLate
  BY Zenon DEF ObjectInv, OpenIsLive, SnapshotInv, InvisibleIsLate, Tracked
<1>3. ActiveInv
  <2>1. \A o \in Conns : Holders(o) = {}
    BY Zenon DEF Holders
  <2> QED
    BY Zenon, <2>1, FS_EmptySet DEF ActiveInv
<1>4. PlaceInv
  BY Zenon DEF PlaceInv
<1>5. ValueInv
  <2>1. \A c \in Conns, d \in Directions : {u \in units[c] : u[2] = d} = {}
    BY Zenon
  <2> QED
    BY Zenon, <2>1, FS_EmptySet DEF ValueInv, ValueIsUnits, Zero
<1> QED
  BY Zenon, <1>1, <1>2, <1>3, <1>4, <1>5 DEF IInv

(* The counter of an open connection is in use. *)
LEMMA HeldIsActive ==
  ASSUME IInv, NEW c \in Conns, conn[c] = "open"
  PROVE  active[counter[c]] \in Nat \ {0}
<1> USE DEF IInv
<1>1. counter[c] \in Conns
  BY Zenon DEF ObjectInv, Tracked
<1>2. c \in Holders(counter[c])
  BY Zenon DEF Holders
<1>3. Cardinality(Holders(counter[c])) # 0
  BY Zenon, <1>1, <1>2, FS_EmptySet DEF ActiveInv
<1> QED
  BY Zenon, <1>1, <1>3 DEF ActiveInv, TypeOK

(* The types, whatever step is taken. *)
LEMMA TypeStep == IInv /\ [Next]_vars => TypeOK' /\ StagedInv'
<1> SUFFICES ASSUME IInv, [Next]_vars PROVE TypeOK' /\ StagedInv'
  BY Zenon
<1> USE ConstantsAssumption DEF IInv, TypeOK, StagedInv
<1>1. ASSUME NEW c \in Conns, NEW k \in Keys, TrackConnection(c, k)
      PROVE  TypeOK' /\ StagedInv'
  <2>1. CASE inboundMapping[k[1]] = None
    BY Zenon, <1>1, <2>1 DEF TrackConnection, history
  <2>2. CASE inboundMapping[k[1]] # None
    <3> DEFINE obj == IF live[k] = None THEN c ELSE live[k]
    <3>1. obj \in Conns
      BY Zenon
    <3>2. active' = [active EXCEPT ![obj] = @ + 1]
      BY Zenon, <1>1, <2>2 DEF TrackConnection
    <3>3. active' \in [Conns -> Nat]
      BY <3>1, <3>2
    <3>7. live' = [live EXCEPT ![k] = obj] /\ counter' = [counter EXCEPT ![c] = obj]
      BY Zenon, <1>1, <2>2 DEF TrackConnection
    <3>4. live' \in [Keys -> Conns \cup {None}] /\ counter' \in [Conns -> Conns \cup {None}]
      BY Zenon, <3>1, <3>7
    <3>5. conn' = [conn EXCEPT ![c] = "open"] /\ connKey' = [connKey EXCEPT ![c] = k]
      BY Zenon, <1>1, <2>2 DEF TrackConnection
    <3>6. UNCHANGED <<inboundMapping, value, staged, reading, history>>
      BY Zenon, <1>1 DEF TrackConnection
    <3> QED
      BY Zenon, <3>3, <3>4, <3>5, <3>6 DEF history
  <2> QED
    BY Zenon, <2>1, <2>2
<1>2. ASSUME NEW c \in Conns, NEW b \in Bytes, NEW d \in Directions, Transfer(c, b, d)
      PROVE  TypeOK' /\ StagedInv'
  BY Zenon, <1>2 DEF Transfer
<1>3. ASSUME NEW c \in Conns, CountFunc(c) PROVE TypeOK' /\ StagedInv'
  BY <1>3 DEF CountFunc, ObjectInv, Tracked
<1>4. ASSUME NEW c \in Conns, Close(c) PROVE TypeOK' /\ StagedInv'
  <2>1. conn[c] = "open" /\ counter[c] \in Conns
    BY Zenon, <1>4 DEF Close, ObjectInv, Tracked
  <2>2. active[counter[c]] \in Nat \ {0}
    BY ONLY Zenon, IInv, <2>1, c \in Conns, HeldIsActive
  <2>3. active[counter[c]] - 1 \in Nat
    BY <2>2
  <2> QED
    BY Zenon, <1>4, <2>1, <2>3 DEF Close, history
<1>5. ASSUME NEW c \in Conns, releaseCounters(c) PROVE TypeOK' /\ StagedInv'
  BY Zenon, <1>5 DEF releaseCounters, history
<1>6. ASSUME NEW m \in Mappings, UpdateInboundMapping(m) PROVE TypeOK' /\ StagedInv'
  BY Zenon, <1>6 DEF UpdateInboundMapping, connVars, history
<1>7. CASE StageForReport
  <2> DEFINE V == [k \in LiveKeys |-> value[live[k]]]
             U == [k \in LiveKeys |-> units[live[k]]]
             snap == [values |-> V, units |-> U, mapping |-> inboundMapping,
                      confirmed |-> FALSE]
  <2>1. staged' = snap
    BY Zenon, <1>7 DEF StageForReport
  <2>2. LiveKeys \subseteq Keys /\ \A k \in LiveKeys : live[k] \in Conns
    BY Zenon DEF LiveKeys
  <2>3. V \in [LiveKeys -> [Directions -> Int]] /\ U \in [LiveKeys -> SUBSET Units]
    BY Zenon, <2>2 DEF Units
  <2>4. UNCHANGED <<inboundMapping, live, value, active, connVars, history>>
    BY Zenon, <1>7 DEF StageForReport
  <2>5. /\ snap.values = V /\ snap.units = U /\ DOMAIN V = LiveKeys /\ DOMAIN U = LiveKeys
        /\ snap.mapping = inboundMapping /\ snap.confirmed = FALSE
    BY Zenon
  <2> HIDE DEF V, U
  <2>6. StagedInv'
    BY Zenon, <2>1, <2>2, <2>3, <2>4, <2>5
  <2> QED
    BY Zenon, <2>1, <2>2, <2>3, <2>4, <2>5, <2>6 DEF connVars, history
<1>8. CASE Confirm
  BY Zenon, <1>8 DEF Confirm, connVars, history
<1>9. CASE ResetLiveCountersWhenJournaled
  <2> DEFINE K == DOMAIN staged.values
             InSnapshot(obj) == connKey[obj] \in K /\ live[connKey[obj]] = obj
  <2>1. value' \in [Conns -> [Directions -> Int]]
    <3>1. \A obj \in Conns, d \in Directions : InSnapshot(obj) =>
            value[obj][d] - staged.values[connKey[obj]][d] \in Int
      BY <1>9 DEF ResetLiveCountersWhenJournaled
    <3> QED
      BY Zenon, <1>9, <3>1 DEF ResetLiveCountersWhenJournaled
  <2>2. units' \in [Conns -> SUBSET (Bytes \X Directions)]
    BY Zenon, <1>9 DEF ResetLiveCountersWhenJournaled
  <2>3. live' \in [Keys -> Conns \cup {None}]
    BY Zenon, <1>9 DEF ResetLiveCountersWhenJournaled
  <2>4. billed' \in [Bytes -> Inbounds \cup {None, "ignored"}]
    <3>1. ASSUME NEW b \in Bytes PROVE BilledTo(b) \in Inbounds \cup {None, "ignored"}
      <4>1. CASE Snapped(b) = {}
        BY Zenon, <4>1 DEF BilledTo
      <4>2. CASE Snapped(b) # {}
        <5> DEFINE k == CHOOSE k \in Snapped(b) : TRUE
        <5>1. k \in Snapped(b)
          BY Zenon, <4>2
        <5>2. k \in Keys
          BY Zenon, <1>9, <5>1 DEF Snapped, ResetLiveCountersWhenJournaled
        <5> HIDE DEF k
        <5>3. staged.mapping[k[1]] \in Inbounds \cup {None}
          BY <1>9, <5>2 DEF ResetLiveCountersWhenJournaled, Keys
        <5> QED
          BY Zenon, <4>2, <5>3 DEF BilledTo, k
      <4> QED
        BY Zenon, <4>1, <4>2
    <3> QED
      BY Zenon, <1>9, <3>1 DEF ResetLiveCountersWhenJournaled
  <2>5. staged' = None /\ UNCHANGED <<inboundMapping, active, connVars, late, carrier>>
    BY Zenon, <1>9 DEF ResetLiveCountersWhenJournaled
  <2> QED
    BY Zenon, <2>1, <2>2, <2>3, <2>4, <2>5 DEF connVars
<1>10. CASE UNCHANGED vars
  BY Zenon, <1>10 DEF vars, connVars, history
<1> QED
  BY Zenon, <1>1, <1>2, <1>3, <1>4, <1>5, <1>6, <1>7, <1>8, <1>9, <1>10 DEF Next

(* A tracked connection gets the live counter of its key, or makes it. *)
LEMMA TrackEffect ==
  ASSUME IInv, NEW c \in Conns, NEW k \in Keys, TrackConnection(c, k),
         inboundMapping[k[1]] # None
  PROVE  \E obj \in Conns :
           /\ \/ live[k] = None /\ obj = c
              \/ live[k] = obj /\ obj # c
           /\ live' = [live EXCEPT ![k] = obj]
           /\ active' = [active EXCEPT ![obj] = @ + 1]
           /\ counter' = [counter EXCEPT ![c] = obj]
           /\ conn' = [conn EXCEPT ![c] = "open"]
           /\ connKey' = [connKey EXCEPT ![c] = k]
<1> DEFINE obj == IF live[k] = None THEN c ELSE live[k]
<1>1. /\ live' = [live EXCEPT ![k] = obj]
      /\ active' = [active EXCEPT ![obj] = @ + 1]
      /\ counter' = [counter EXCEPT ![c] = obj]
      /\ conn' = [conn EXCEPT ![c] = "open"]
      /\ connKey' = [connKey EXCEPT ![c] = k]
  BY Zenon DEF TrackConnection
<1>2. obj \in Conns
  BY Zenon, ConstantsAssumption DEF IInv, TypeOK
<1>3. live[k] # c
  BY SMTT(30), ConstantsAssumption DEF IInv, TypeOK, ObjectInv, TrackConnection, Tracked
<1> QED
  BY Zenon, <1>1, <1>2, <1>3

(* What the subtraction of a snapshot does to the tables. *)
LEMMA ResetEffect ==
  ASSUME IInv, ResetLiveCountersWhenJournaled
  PROVE  /\ staged # None /\ staged' = None
         /\ UNCHANGED <<inboundMapping, active, conn, connKey, counter, reading,
                        late, carrier>>
         /\ billed' = [b \in Bytes |-> BilledTo(b)]
         /\ \A k \in Keys :
              \/ live'[k] = live[k]
              \/ /\ live[k] # None /\ live'[k] = None
                 /\ active[live[k]] = 0 /\ value'[live[k]] = Zero
         /\ \A o \in Conns :
              \/ /\ \A k \in DOMAIN staged.values : live[k] # o
                 /\ value'[o] = value[o] /\ units'[o] = units[o]
              \/ \E k \in DOMAIN staged.values :
                   /\ live[k] = o
                   /\ units'[o] = units[o] \ staged.units[k]
                   /\ \A d \in Directions :
                        value'[o][d] = value[o][d] - staged.values[k][d]
<1> DEFINE K == DOMAIN staged.values
           InSnapshot(obj) == connKey[obj] \in K /\ live[connKey[obj]] = obj
<1> USE ConstantsAssumption DEF ResetLiveCountersWhenJournaled
<1>1. /\ staged # None /\ staged' = None
      /\ UNCHANGED <<inboundMapping, active, conn, connKey, counter, reading,
                     late, carrier>>
      /\ billed' = [b \in Bytes |-> BilledTo(b)]
  BY Zenon DEF connVars
<1>2. \A k \in Keys :
        \/ live'[k] = live[k]
        \/ /\ live[k] # None /\ live'[k] = None
           /\ active[live[k]] = 0 /\ value'[live[k]] = Zero
  BY Zenon DEF Idle
<1>3. K \subseteq Keys
  BY Zenon DEF IInv, StagedInv
<1>4. ASSUME NEW o \in Conns
      PROVE  \/ /\ \A k \in DOMAIN staged.values : live[k] # o
                /\ value'[o] = value[o] /\ units'[o] = units[o]
             \/ \E k \in DOMAIN staged.values :
                  /\ live[k] = o
                  /\ units'[o] = units[o] \ staged.units[k]
                  /\ \A d \in Directions :
                       value'[o][d] = value[o][d] - staged.values[k][d]
  <2>1. CASE InSnapshot(o)
    BY Zenon, <2>1
  <2>2. CASE ~InSnapshot(o)
    <3>1. value'[o] = value[o] /\ units'[o] = units[o]
      BY Zenon, <2>2
    <3>2. \A k \in K : live[k] # o
      BY <2>2, <1>3 DEF IInv, ObjectInv
    <3> QED
      BY Zenon, <3>1, <3>2
  <2> QED
    BY Zenon, <2>1, <2>2
<1> QED
  BY ZenonT(60), <1>1, <1>2, <1>4

(* Counter objects keep to their key. *)
LEMMA ObjectStep == IInv /\ [Next]_vars => ObjectInv'
<1> SUFFICES ASSUME IInv, [Next]_vars PROVE ObjectInv'
  BY Zenon
<1> USE ConstantsAssumption DEF Tracked
<1>t. TypeOK /\ ObjectInv
  BY Zenon DEF IInv
<1>1. ASSUME NEW c \in Conns, NEW k \in Keys, TrackConnection(c, k)
      PROVE  ObjectInv'
  <2>1. CASE inboundMapping[k[1]] = None
    BY <1>1, <1>t, <2>1 DEF TrackConnection, history, ObjectInv, TypeOK
  <2>2. CASE inboundMapping[k[1]] # None
    <3>1. PICK obj \in Conns :
            /\ \/ live[k] = None /\ obj = c
               \/ live[k] = obj /\ obj # c
            /\ live' = [live EXCEPT ![k] = obj]
            /\ counter' = [counter EXCEPT ![c] = obj]
            /\ conn' = [conn EXCEPT ![c] = "open"]
            /\ connKey' = [connKey EXCEPT ![c] = k]
      BY <1>1, <2>2, TrackEffect
    <3>2. connKey[c] = None /\ counter[c] = None /\ UNCHANGED <<reading, units>>
      BY Zenon, <1>1, <1>t DEF TrackConnection, history, ObjectInv
    <3>3. \A j \in Keys : live'[j] # None => connKey'[live'[j]] = j
      BY <1>t, <3>1, <3>2 DEF ObjectInv, TypeOK
    <3>4. ASSUME NEW a \in Conns
          PROVE  IF conn'[a] \in Tracked
                 THEN /\ counter'[a] \in Conns /\ connKey'[a] \in Keys
                      /\ connKey'[counter'[a]] = connKey'[a]
                 ELSE /\ counter'[a] = None /\ connKey'[a] = None
                      /\ reading'[a] = None /\ units'[a] = {}
      <4>1. CASE a = c
        <5>1. connKey'[obj] = k
          BY Zenon, <1>t, <3>1 DEF ObjectInv, TypeOK
        <5> QED
          BY Zenon, <1>t, <3>1, <4>1, <5>1 DEF TypeOK
      <4>2. CASE a # c
        BY <1>t, <3>1, <3>2, <4>2 DEF ObjectInv, TypeOK
      <4> QED
        BY Zenon, <4>1, <4>2
    <3> QED
      BY Zenon, <3>3, <3>4 DEF ObjectInv
  <2> QED
    BY Zenon, <2>1, <2>2
<1>2. ASSUME NEW c \in Conns, NEW b \in Bytes, NEW d \in Directions, Transfer(c, b, d)
      PROVE  ObjectInv'
  BY Zenon, <1>t, <1>2 DEF Transfer, ObjectInv, TypeOK
<1>3. ASSUME NEW c \in Conns, CountFunc(c) PROVE ObjectInv'
  <2>1. conn[c] \in Tracked /\ conn[counter[c]] \in Tracked /\ counter[c] \in Conns
    BY <1>t, <1>3 DEF CountFunc, ObjectInv, TypeOK
  <2>2. \A a \in Conns : a # counter[c] => units'[a] = units[a]
    BY Zenon, <1>t, <1>3 DEF CountFunc, TypeOK
  <2>3. \A a \in Conns : a # c => reading'[a] = reading[a]
    BY Zenon, <1>t, <1>3 DEF CountFunc, TypeOK
  <2>4. UNCHANGED <<live, conn, connKey, counter>>
    BY Zenon, <1>3 DEF CountFunc
  <2> QED
    BY <1>t, <2>1, <2>2, <2>3, <2>4 DEF ObjectInv
<1>4. ASSUME NEW c \in Conns, Close(c) PROVE ObjectInv'
  BY Zenon, <1>t, <1>4 DEF Close, history, ObjectInv, TypeOK
<1>5. ASSUME NEW c \in Conns, releaseCounters(c) PROVE ObjectInv'
  BY Zenon, <1>t, <1>5 DEF releaseCounters, history, ObjectInv, TypeOK
<1>6. ASSUME NEW m \in Mappings, UpdateInboundMapping(m) PROVE ObjectInv'
  BY Zenon, <1>t, <1>6 DEF UpdateInboundMapping, connVars, history, ObjectInv
<1>7. CASE StageForReport
  BY Zenon, <1>t, <1>7 DEF StageForReport, connVars, history, ObjectInv
<1>8. CASE Confirm
  BY Zenon, <1>t, <1>8 DEF Confirm, connVars, history, ObjectInv
<1>9. CASE ResetLiveCountersWhenJournaled
  <2>1. \A k \in Keys : live'[k] \in {live[k], None}
    BY Zenon, <1>9, ResetEffect
  <2>2. UNCHANGED <<conn, connKey, counter, reading>>
    BY Zenon, <1>9, ResetEffect
  <2>3. \A o \in Conns : units[o] = {} => units'[o] = {}
    BY <1>9, ResetEffect
  <2> QED
    BY Zenon, <1>t, <2>1, <2>2, <2>3 DEF ObjectInv
<1>10. CASE UNCHANGED vars
  BY Zenon, <1>t, <1>10 DEF vars, connVars, history, ObjectInv
<1> QED
  BY Zenon, <1>1, <1>2, <1>3, <1>4, <1>5, <1>6, <1>7, <1>8, <1>9, <1>10 DEF Next

(* Use counts count. *)
LEMMA ActiveStep == IInv /\ [Next]_vars => ActiveInv'
<1> SUFFICES ASSUME IInv, [Next]_vars PROVE ActiveInv'
  BY Zenon
<1> USE ConstantsAssumption
<1>t. TypeOK /\ ObjectInv /\ ActiveInv
  BY Zenon DEF IInv
<1>s. ASSUME UNCHANGED active, \A o \in Conns : Holders(o)' = Holders(o)
      PROVE  ActiveInv'
  BY Zenon, <1>t, <1>s DEF ActiveInv
<1>1. ASSUME NEW c \in Conns, NEW k \in Keys, TrackConnection(c, k)
      PROVE  ActiveInv'
  <2>1. CASE inboundMapping[k[1]] = None
    <3>1. \A o \in Conns : Holders(o)' = Holders(o)
      BY <1>1, <1>t, <2>1 DEF TrackConnection, Holders, TypeOK
    <3> QED
      BY Zenon, <1>1, <1>s, <2>1, <3>1 DEF TrackConnection
  <2>2. CASE inboundMapping[k[1]] # None
    <3>1. PICK obj \in Conns :
            /\ active' = [active EXCEPT ![obj] = @ + 1]
            /\ counter' = [counter EXCEPT ![c] = obj]
            /\ conn' = [conn EXCEPT ![c] = "open"]
      BY <1>1, <2>2, TrackEffect
    <3>2. conn[c] # "open"
      BY Zenon, <1>1 DEF TrackConnection
    <3>3. Holders(obj)' = Holders(obj) \cup {c} /\ c \notin Holders(obj)
      BY <1>t, <3>1, <3>2 DEF Holders, TypeOK
    <3>4. \A o \in Conns : o # obj => Holders(o)' = Holders(o)
      BY Zenon, <1>t, <3>1, <3>2 DEF Holders, TypeOK
    <3>5. /\ IsFiniteSet(Holders(obj)')
          /\ Cardinality(Holders(obj)') = Cardinality(Holders(obj)) + 1
      BY <1>t, <3>3, FS_AddElement DEF ActiveInv
    <3>6. active'[obj] = active[obj] + 1 /\ \A o \in Conns : o # obj => active'[o] = active[o]
      BY Zenon, <1>t, <3>1 DEF TypeOK
    <3> QED
      BY Zenon, <1>t, <3>4, <3>5, <3>6 DEF ActiveInv
  <2> QED
    BY Zenon, <2>1, <2>2
<1>2. ASSUME NEW c \in Conns, NEW b \in Bytes, NEW d \in Directions, Transfer(c, b, d)
      PROVE  ActiveInv'
  BY Zenon, <1>s, <1>2 DEF Transfer, Holders
<1>3. ASSUME NEW c \in Conns, CountFunc(c) PROVE ActiveInv'
  BY Zenon, <1>s, <1>3 DEF CountFunc, Holders
<1>4. ASSUME NEW c \in Conns, Close(c) PROVE ActiveInv'
  <2>1. PICK obj \in Conns : obj = counter[c] /\ conn[c] = "open"
    BY Zenon, <1>4, <1>t DEF Close, ObjectInv, Tracked
  <2>2. Holders(obj)' = Holders(obj) \ {c} /\ c \in Holders(obj)
    BY Zenon, <1>4, <1>t, <2>1 DEF Close, Holders, TypeOK
  <2>3. \A o \in Conns : o # obj => Holders(o)' = Holders(o)
    BY Zenon, <1>4, <1>t, <2>1 DEF Close, Holders, TypeOK
  <2>4. /\ IsFiniteSet(Holders(obj)')
        /\ Cardinality(Holders(obj)') = Cardinality(Holders(obj)) - 1
    BY <1>t, <2>1, <2>2, FS_RemoveElement DEF ActiveInv
  <2>5. active'[obj] = active[obj] - 1 /\ \A o \in Conns : o # obj => active'[o] = active[o]
    BY Zenon, <1>t, <1>4, <2>1 DEF Close, TypeOK
  <2> QED
    BY Zenon, <1>t, <2>1, <2>3, <2>4, <2>5 DEF ActiveInv
<1>5. ASSUME NEW c \in Conns, releaseCounters(c) PROVE ActiveInv'
  <2>1. \A o \in Conns : Holders(o)' = Holders(o)
    BY Zenon, <1>t, <1>5 DEF releaseCounters, Holders, TypeOK
  <2> QED
    BY Zenon, <1>s, <1>5, <2>1 DEF releaseCounters
<1>6. ASSUME NEW m \in Mappings, UpdateInboundMapping(m) PROVE ActiveInv'
  BY Zenon, <1>s, <1>6 DEF UpdateInboundMapping, connVars, Holders
<1>7. CASE StageForReport
  BY Zenon, <1>s, <1>7 DEF StageForReport, connVars, Holders
<1>8. CASE Confirm
  BY Zenon, <1>s, <1>8 DEF Confirm, connVars, Holders
<1>9. CASE ResetLiveCountersWhenJournaled
  BY Zenon, <1>s, <1>9 DEF ResetLiveCountersWhenJournaled, connVars, Holders
<1>10. CASE UNCHANGED vars
  BY Zenon, <1>s, <1>10 DEF vars, connVars, Holders
<1> QED
  BY Zenon, <1>1, <1>2, <1>3, <1>4, <1>5, <1>6, <1>7, <1>8, <1>9, <1>10 DEF Next

(* No counter is dropped while an open connection counts in it. *)
LEMMA LiveStep == IInv /\ [Next]_vars => OpenIsLive'
<1> SUFFICES ASSUME IInv, [Next]_vars PROVE OpenIsLive'
  BY Zenon
<1> USE ConstantsAssumption
<1>t. TypeOK /\ ObjectInv /\ OpenIsLive
  BY Zenon DEF IInv
<1>a. \A a \in Conns : conn[a] = "open" => active[counter[a]] # 0 /\ counter[a] # None
  BY Zenon, <1>t, HeldIsActive DEF ObjectInv, Tracked
<1>1. ASSUME NEW c \in Conns, NEW k \in Keys, TrackConnection(c, k)
      PROVE  OpenIsLive'
  <2>1. CASE inboundMapping[k[1]] = None
    BY Zenon, <1>1, <1>t, <2>1 DEF TrackConnection, OpenIsLive, TypeOK
  <2>2. CASE inboundMapping[k[1]] # None
    <3>1. PICK obj \in Conns :
            /\ \/ live[k] = None /\ obj = c
               \/ live[k] = obj /\ obj # c
            /\ live' = [live EXCEPT ![k] = obj]
            /\ counter' = [counter EXCEPT ![c] = obj]
            /\ conn' = [conn EXCEPT ![c] = "open"]
            /\ connKey' = [connKey EXCEPT ![c] = k]
      BY <1>1, <2>2, TrackEffect
    <3> QED
      BY SMTT(30), <1>t, <1>a, <3>1 DEF OpenIsLive, TypeOK, ObjectInv, Tracked
  <2> QED
    BY Zenon, <2>1, <2>2
<1>2. ASSUME NEW c \in Conns, NEW b \in Bytes, NEW d \in Directions, Transfer(c, b, d)
      PROVE  OpenIsLive'
  BY Zenon, <1>t, <1>2 DEF Transfer, OpenIsLive
<1>3. ASSUME NEW c \in Conns, CountFunc(c) PROVE OpenIsLive'
  BY Zenon, <1>t, <1>3 DEF CountFunc, OpenIsLive
<1>4. ASSUME NEW c \in Conns, Close(c) PROVE OpenIsLive'
  BY Zenon, <1>t, <1>4 DEF Close, OpenIsLive, TypeOK
<1>5. ASSUME NEW c \in Conns, releaseCounters(c) PROVE OpenIsLive'
  <2> SUFFICES ASSUME NEW a \in Conns, conn'[a] = "open"
               PROVE  live'[connKey'[a]] = counter'[a]
    BY Zenon DEF OpenIsLive
  <2>1. conn[a] = "open" /\ UNCHANGED <<connKey, counter>>
    BY Zenon, <1>5, <1>t DEF releaseCounters, TypeOK
  <2>2. live[connKey[a]] = counter[a] /\ active[counter[a]] # 0 /\ connKey[a] \in Keys
    BY Zenon, <1>a, <1>t, <2>1 DEF OpenIsLive, ObjectInv, Tracked
  <2> QED
    BY <1>5, <1>t, <2>1, <2>2 DEF releaseCounters, Idle, TypeOK
<1>6. ASSUME NEW m \in Mappings, UpdateInboundMapping(m) PROVE OpenIsLive'
  BY Zenon, <1>t, <1>6 DEF UpdateInboundMapping, connVars, OpenIsLive
<1>7. CASE StageForReport
  BY Zenon, <1>t, <1>7 DEF StageForReport, connVars, OpenIsLive
<1>8. CASE Confirm
  BY Zenon, <1>t, <1>8 DEF Confirm, connVars, OpenIsLive
<1>9. CASE ResetLiveCountersWhenJournaled
  <2> SUFFICES ASSUME NEW a \in Conns, conn'[a] = "open"
               PROVE  live'[connKey'[a]] = counter'[a]
    BY Zenon DEF OpenIsLive
  <2>1. conn[a] = "open" /\ UNCHANGED <<connKey, counter>>
    BY Zenon, <1>9, ResetEffect
  <2>2. live[connKey[a]] = counter[a] /\ active[counter[a]] # 0 /\ connKey[a] \in Keys
    BY Zenon, <1>a, <1>t, <2>1 DEF OpenIsLive, ObjectInv, Tracked
  <2> QED
    BY <1>9, <2>1, <2>2, ResetEffect
<1>10. CASE UNCHANGED vars
  BY Zenon, <1>t, <1>10 DEF vars, connVars, OpenIsLive
<1> QED
  BY Zenon, <1>1, <1>2, <1>3, <1>4, <1>5, <1>6, <1>7, <1>8, <1>9, <1>10 DEF Next

-----------------------------------------------------------------------------
(* The units of one direction, as a counter with one more and one with     *)
(* fewer of them has.                                                      *)
LEMMA OfFinite ==
  ASSUME NEW S, IsFiniteSet(S), NEW d
  PROVE  IsFiniteSet(Of(S, d)) /\ Cardinality(Of(S, d)) \in Nat
BY Zenon, FS_Subset, FS_CardinalityType DEF Of

LEMMA OfAdded ==
  ASSUME NEW S, IsFiniteSet(S), NEW u, u \notin S, NEW d
  PROVE  Cardinality(Of(S \cup {u}, d)) =
           IF u[2] = d THEN Cardinality(Of(S, d)) + 1 ELSE Cardinality(Of(S, d))
<1>1. CASE u[2] = d
  <2>1. Of(S \cup {u}, d) = Of(S, d) \cup {u} /\ u \notin Of(S, d)
    BY Zenon, <1>1 DEF Of
  <2> QED
    BY ZenonT(60), <1>1, <2>1, OfFinite, FS_AddElement
<1>2. CASE u[2] # d
  <2>1. Of(S \cup {u}, d) = Of(S, d)
    BY Zenon, <1>2 DEF Of
  <2> QED
    BY Zenon, <1>2, <2>1
<1> QED
  BY Zenon, <1>1, <1>2

LEMMA OfRemoved ==
  ASSUME NEW S, IsFiniteSet(S), NEW T \in SUBSET S, NEW d
  PROVE  Cardinality(Of(S \ T, d)) = Cardinality(Of(S, d)) - Cardinality(Of(T, d))
<1>1. Of(S \ T, d) = Of(S, d) \ Of(T, d) /\ Of(S, d) \cap Of(T, d) = Of(T, d)
  BY Zenon DEF Of
<1> QED
  BY ZenonT(60), <1>1, OfFinite, FS_Difference

(* A counter whose value is zero has no units. *)
LEMMA ZeroIsEmpty ==
  ASSUME NEW S \in SUBSET Units, IsFiniteSet(S),
         \A d \in Directions : Cardinality(Of(S, d)) = 0
  PROVE  S = {}
<1>1. \A d \in Directions : Of(S, d) = {}
  BY Zenon, OfFinite, FS_EmptySet
<1>2. \A u \in S : u[2] \in Directions
  BY Zenon DEF Units
<1> QED
  BY Zenon, <1>1, <1>2 DEF Of

(* The value of every counter is the number of its units. *)
LEMMA ValueStep == IInv /\ [Next]_vars => ValueInv'
<1> SUFFICES ASSUME IInv, [Next]_vars PROVE ValueInv'
  BY Zenon
<1> USE ConstantsAssumption
<1>t. TypeOK /\ ObjectInv /\ ValueInv /\ SnapshotInv /\ StagedInv
  BY Zenon DEF IInv
<1>v. \A o \in Conns, d \in Directions : value[o][d] = Cardinality(Of(units[o], d))
  BY Zenon, <1>t DEF ValueInv, ValueIsUnits, Of
<1>s. ASSUME UNCHANGED <<value, units>> PROVE ValueInv'
  BY Zenon, <1>t, <1>s DEF ValueInv, ValueIsUnits
<1>1. ASSUME NEW c \in Conns, NEW k \in Keys, TrackConnection(c, k) PROVE ValueInv'
  BY Zenon, <1>1, <1>s DEF TrackConnection, history
<1>2. ASSUME NEW c \in Conns, NEW b \in Bytes, NEW d \in Directions, Transfer(c, b, d)
      PROVE  ValueInv'
  BY Zenon, <1>2, <1>s DEF Transfer
<1>3. ASSUME NEW c \in Conns, CountFunc(c) PROVE ValueInv'
  <2>1. PICK obj \in Conns, b \in Bytes, d \in Directions :
          counter[c] = obj /\ reading[c] = <<b, d>>
    BY <1>3, <1>t DEF CountFunc, ObjectInv, Tracked, TypeOK
  <2>2. <<b, d>> \notin units[obj]
    BY <2>1 DEF IInv, PlaceInv
  <2>3. /\ units'[obj] = units[obj] \cup {<<b, d>>}
        /\ \A o \in Conns : o # obj => units'[o] = units[o] /\ value'[o] = value[o]
        /\ \A e \in Directions :
             value'[obj][e] = IF e = d THEN value[obj][e] + 1 ELSE value[obj][e]
    BY <1>3, <1>t, <2>1 DEF CountFunc, TypeOK
  <2>4. IsFiniteSet(units[obj]) /\ IsFiniteSet(units'[obj])
    BY ZenonT(60), <1>t, <2>3, FS_AddElement DEF ValueInv
  <2>5. \A e \in Directions : value'[obj][e] = Cardinality(Of(units'[obj], e))
    BY <1>v, <2>2, <2>3, <2>4, OfAdded
  <2>6. \A o \in Conns, e \in Directions : value'[o][e] = Cardinality(Of(units'[o], e))
    BY ZenonT(60), <1>v, <2>3, <2>5
  <2>7. \A o \in Conns : IsFiniteSet(units'[o])
    BY Zenon, <1>t, <2>3, <2>4 DEF ValueInv
  <2> QED
    BY Zenon, <2>6, <2>7 DEF ValueInv, ValueIsUnits, Of
<1>4. ASSUME NEW c \in Conns, Close(c) PROVE ValueInv'
  BY Zenon, <1>4, <1>s DEF Close, history
<1>5. ASSUME NEW c \in Conns, releaseCounters(c) PROVE ValueInv'
  BY Zenon, <1>5, <1>s DEF releaseCounters, history
<1>6. ASSUME NEW m \in Mappings, UpdateInboundMapping(m) PROVE ValueInv'
  BY Zenon, <1>6, <1>s DEF UpdateInboundMapping, history
<1>7. CASE StageForReport
  BY Zenon, <1>7, <1>s DEF StageForReport, history
<1>8. CASE Confirm
  BY Zenon, <1>8, <1>s DEF Confirm, history
<1>9. CASE ResetLiveCountersWhenJournaled
  <2>1. ASSUME NEW o \in Conns
        PROVE  /\ IsFiniteSet(units'[o])
               /\ \A d \in Directions : value'[o][d] = Cardinality(Of(units'[o], d))
    <3>1. CASE value'[o] = value[o] /\ units'[o] = units[o]
      BY Zenon, <1>t, <1>v, <3>1 DEF ValueInv
    <3>2. CASE ~(value'[o] = value[o] /\ units'[o] = units[o])
      <4>1. PICK k \in DOMAIN staged.values :
              /\ live[k] = o
              /\ units'[o] = units[o] \ staged.units[k]
              /\ \A d \in Directions : value'[o][d] = value[o][d] - staged.values[k][d]
        BY Zenon, <1>9, <3>2, ResetEffect
      <4>2. staged # None
        BY Zenon, <1>9 DEF ResetLiveCountersWhenJournaled
      <4>3. staged.units[k] \subseteq units[o]
        BY Zenon, <1>t, <4>1, <4>2 DEF SnapshotInv
      <4>4. \A d \in Directions : staged.values[k][d] = Cardinality(Of(staged.units[k], d))
        BY Zenon, <1>t, <4>2 DEF SnapshotInv
      <4>5. IsFiniteSet(units[o])
        BY Zenon, <1>t DEF ValueInv
      <4>6. IsFiniteSet(units'[o])
        <5>1. IsFiniteSet(units[o] \ staged.units[k])
          BY Zenon, <4>5, FS_Difference
        <5> QED
          BY Zenon, <4>1, <5>1
      <4>7. ASSUME NEW d \in Directions
            PROVE  value'[o][d] = Cardinality(Of(units'[o], d))
        <5>1. Cardinality(Of(units'[o], d)) =
                Cardinality(Of(units[o], d)) - Cardinality(Of(staged.units[k], d))
          BY <4>1, <4>3, <4>5, OfRemoved
        <5> QED
          BY Zenon, <1>v, <4>1, <4>4, <5>1
      <4> QED
        BY Zenon, <4>6, <4>7
    <3> QED
      BY Zenon, <3>1, <3>2
  <2> QED
    BY Zenon, <2>1 DEF ValueInv, ValueIsUnits, Of
<1>10. CASE UNCHANGED vars
  BY Zenon, <1>10, <1>s DEF vars, history
<1> QED
  BY Zenon, <1>1, <1>2, <1>3, <1>4, <1>5, <1>6, <1>7, <1>8, <1>9, <1>10 DEF Next

(* What is in the snapshot stays in its counter until it is subtracted. *)
LEMMA SnapshotStep == IInv /\ [Next]_vars => SnapshotInv'
<1> SUFFICES ASSUME IInv, [Next]_vars PROVE SnapshotInv'
  BY Zenon
<1> USE ConstantsAssumption
<1>t. TypeOK /\ StagedInv /\ ObjectInv /\ ValueInv /\ SnapshotInv
  BY Zenon DEF IInv
<1>s. ASSUME UNCHANGED staged,
             \A k \in Keys : live[k] # None /\ units[live[k]] # {} =>
               live'[k] = live[k] /\ units[live[k]] \subseteq units'[live[k]]
      PROVE  SnapshotInv'
  BY ZenonT(60), <1>t, <1>s DEF SnapshotInv, StagedInv
<1>1. ASSUME NEW c \in Conns, NEW k \in Keys, TrackConnection(c, k) PROVE SnapshotInv'
  <2>1. UNCHANGED <<staged, units>>
    BY Zenon, <1>1 DEF TrackConnection, history
  <2>2. \A j \in Keys : live[j] # None => live'[j] = live[j]
    BY <1>1, <1>t DEF TrackConnection, TypeOK
  <2> QED
    BY Zenon, <1>s, <2>1, <2>2
<1>2. ASSUME NEW c \in Conns, NEW b \in Bytes, NEW d \in Directions, Transfer(c, b, d)
      PROVE  SnapshotInv'
  BY Zenon, <1>2, <1>s DEF Transfer
<1>3. ASSUME NEW c \in Conns, CountFunc(c) PROVE SnapshotInv'
  <2>1. UNCHANGED <<staged, live>> /\ \A o \in Conns : units[o] \subseteq units'[o]
    BY Zenon, <1>3, <1>t DEF CountFunc, TypeOK
  <2> QED
    BY Zenon, <1>s, <1>t, <2>1 DEF TypeOK
<1>4. ASSUME NEW c \in Conns, Close(c) PROVE SnapshotInv'
  BY Zenon, <1>4, <1>s DEF Close, history
<1>5. ASSUME NEW c \in Conns, releaseCounters(c) PROVE SnapshotInv'
  <2>1. UNCHANGED <<staged, units>>
    BY Zenon, <1>5 DEF releaseCounters, history
  <2>2. ASSUME NEW k \in Keys, live[k] # None, live'[k] # live[k]
        PROVE  units[live[k]] = {}
    <3>1. value[live[k]] = Zero /\ live[k] \in Conns
      BY Zenon, <1>5, <1>t, <2>2 DEF releaseCounters, Idle, TypeOK
    <3>2. \A d \in Directions : Cardinality(Of(units[live[k]], d)) = 0
      BY <1>t, <3>1 DEF ValueInv, ValueIsUnits, Of, Zero
    <3> QED
      BY Zenon, <1>t, <3>1, <3>2, ZeroIsEmpty DEF ValueInv, TypeOK, Units
  <2> QED
    BY Zenon, <1>s, <2>1, <2>2
<1>6. ASSUME NEW m \in Mappings, UpdateInboundMapping(m) PROVE SnapshotInv'
  BY Zenon, <1>6, <1>s DEF UpdateInboundMapping, history
<1>7. CASE StageForReport
  <2>1. LiveKeys \subseteq Keys /\ \A k \in LiveKeys : live[k] # None /\ live[k] \in Conns
    BY Zenon, <1>t DEF LiveKeys, TypeOK
  <2>2. /\ DOMAIN staged'.values = LiveKeys
        /\ \A k \in LiveKeys : staged'.values[k] = value[live[k]] /\ staged'.units[k] = units[live[k]]
    BY Zenon, <1>7 DEF StageForReport
  <2>3. UNCHANGED <<live, units, value>>
    BY Zenon, <1>7 DEF StageForReport, history
  <2>4. \A k \in LiveKeys : IsFiniteSet(units[live[k]])
    BY Zenon, <1>t, <2>1 DEF ValueInv
  <2>5. \A k \in LiveKeys, d \in Directions : value[live[k]][d] = Cardinality(Of(units[live[k]], d))
    BY Zenon, <1>t, <2>1 DEF ValueInv, ValueIsUnits, Of
  <2> QED
    BY <2>1, <2>2, <2>3, <2>4, <2>5 DEF SnapshotInv
<1>8. CASE Confirm
  <2>1. staged # None /\ staged'.values = staged.values /\ staged'.units = staged.units
    BY Zenon, <1>8, <1>t DEF Confirm, StagedInv
  <2>2. UNCHANGED <<live, units>>
    BY Zenon, <1>8 DEF Confirm, history
  <2> QED
    BY Zenon, <1>t, <2>1, <2>2 DEF SnapshotInv
<1>9. CASE ResetLiveCountersWhenJournaled
  BY ZenonT(60), <1>9 DEF ResetLiveCountersWhenJournaled, SnapshotInv
<1>10. CASE UNCHANGED vars
  BY Zenon, <1>10, <1>s DEF vars, history
<1> QED
  BY Zenon, <1>1, <1>2, <1>3, <1>4, <1>5, <1>6, <1>7, <1>8, <1>9, <1>10 DEF Next

(* Units move from a reading to one counter and from there to a bill. *)
LEMMA PlaceStep == IInv /\ [Next]_vars => PlaceInv'
<1> SUFFICES ASSUME IInv, [Next]_vars PROVE PlaceInv'
  BY Zenon
<1> USE ConstantsAssumption
<1>t. TypeOK /\ StagedInv /\ ObjectInv /\ PlaceInv /\ SnapshotInv
  BY Zenon DEF IInv
<1>p. \A b \in Bytes :
        \/ carrier[b] = None \/ billed[b] # None
        \/ \E c \in Conns : reading[c] # None /\ reading[c][1] = b
        \/ \E o \in Conns, d \in Directions : <<b, d>> \in units[o]
  BY Zenon, <1>t DEF PlaceInv
<1>s. ASSUME UNCHANGED <<reading, units, carrier, billed>> PROVE PlaceInv'
  BY <1>t, <1>s DEF PlaceInv
<1>1. ASSUME NEW c \in Conns, NEW k \in Keys, TrackConnection(c, k) PROVE PlaceInv'
  BY Zenon, <1>1, <1>s DEF TrackConnection, history
<1>2. ASSUME NEW c \in Conns, NEW b \in Bytes, NEW d \in Directions, Transfer(c, b, d)
      PROVE  PlaceInv'
  <2>1. /\ carrier[b] = None /\ reading[c] = None /\ UNCHANGED <<units, billed>>
        /\ reading'[c] = <<b, d>> /\ \A a \in Conns : a # c => reading'[a] = reading[a]
        /\ carrier'[b] = c /\ \A x \in Bytes : x # b => carrier'[x] = carrier[x]
    BY Zenon, <1>2, <1>t DEF Transfer, TypeOK
  <2>2. billed[b] = None /\ \A o \in Conns, e \in Directions : <<b, e>> \notin units[o]
    BY Zenon, <1>t, <2>1 DEF PlaceInv
  <2>3. \A a \in Conns : reading[a] # None => reading[a][1] \in Bytes /\ reading[a][1] # b
    BY SMTT(30), <1>t, <2>1 DEF PlaceInv, TypeOK
  <2>4. \A a \in Conns : reading'[a] # None =>
          /\ carrier'[reading'[a][1]] = a /\ billed'[reading'[a][1]] = None
          /\ \A o \in Conns, e \in Directions : <<reading'[a][1], e>> \notin units'[o]
    BY <1>t, <2>1, <2>2, <2>3 DEF PlaceInv
  <2>5. \A x \in Bytes :
          \/ carrier'[x] = None \/ billed'[x] # None
          \/ \E a \in Conns : reading'[a] # None /\ reading'[a][1] = x
          \/ \E o \in Conns, e \in Directions : <<x, e>> \in units'[o]
    <3>1. reading'[c] # None /\ reading'[c][1] = b
      BY <2>1
    <3>2. \A a \in Conns : reading[a] # None => reading'[a] = reading[a]
      BY Zenon, <2>1
    <3> QED
      BY <1>t, <2>1, <3>1, <3>2 DEF PlaceInv
  <2> QED
    BY <1>t, <2>1, <2>2, <2>4, <2>5 DEF PlaceInv
<1>3. ASSUME NEW c \in Conns, CountFunc(c) PROVE PlaceInv'
  <2>1. PICK obj \in Conns, b \in Bytes, d \in Directions :
          counter[c] = obj /\ reading[c] = <<b, d>> /\ reading[c] # None
    BY <1>3, <1>t DEF CountFunc, ObjectInv, Tracked, TypeOK
  <2>2. /\ units'[obj] = units[obj] \cup {<<b, d>>}
        /\ \A o \in Conns : o # obj => units'[o] = units[o]
        /\ reading'[c] = None /\ \A a \in Conns : a # c => reading'[a] = reading[a]
        /\ UNCHANGED <<carrier, billed>>
    BY Zenon, <1>3, <1>t, <2>1 DEF CountFunc, TypeOK
  <2>3. /\ carrier[b] = c /\ billed[b] = None
        /\ \A o \in Conns, e \in Directions : <<b, e>> \notin units[o]
    <3>1. reading[c][1] = b /\ reading[c] # None
      BY <2>1
    <3> QED
      BY Zenon, <1>t, <3>1 DEF PlaceInv
  <2>4. \A a \in Conns : a # c /\ reading[a] # None => reading[a][1] # b
    BY Zenon, <1>t, <2>3 DEF PlaceInv
  <2>5. \A o \in Conns, x \in Bytes, e \in Directions :
          <<x, e>> \in units'[o] <=> <<x, e>> \in units[o] \/ (x = b /\ e = d /\ o = obj)
    BY <2>2
  <2>6. \A a \in Conns : reading'[a] # None =>
          /\ carrier'[reading'[a][1]] = a /\ billed'[reading'[a][1]] = None
          /\ \A o \in Conns, e \in Directions : <<reading'[a][1], e>> \notin units'[o]
    BY <1>t, <2>2, <2>4 DEF PlaceInv
  <2>7. \A o \in Conns, x \in Bytes, e \in Directions :
          <<x, e>> \in units'[o] => carrier'[x] # None /\ billed'[x] = None
    BY <1>t, <2>2, <2>3, <2>5 DEF PlaceInv
  <2>8. \A o, p \in Conns, x \in Bytes, e, f \in Directions :
          <<x, e>> \in units'[o] /\ <<x, f>> \in units'[p] => o = p /\ e = f
    BY <1>t, <2>3, <2>5 DEF PlaceInv
  <2>9. \A x \in Bytes :
          \/ carrier'[x] = None \/ billed'[x] # None
          \/ \E a \in Conns : reading'[a] # None /\ reading'[a][1] = x
          \/ \E o \in Conns, e \in Directions : <<x, e>> \in units'[o]
    <3>1. ASSUME NEW x \in Bytes, NEW a \in Conns, reading[a] # None, reading[a][1] = x
          PROVE  \/ \E z \in Conns : reading'[z] # None /\ reading'[z][1] = x
                 \/ \E o \in Conns, e \in Directions : <<x, e>> \in units'[o]
      BY <2>1, <2>2, <2>5, <3>1
    <3>2. \A x \in Bytes, o \in Conns, e \in Directions :
            <<x, e>> \in units[o] => <<x, e>> \in units'[o]
      BY Zenon, <2>5
    <3> QED
      BY <1>p, <2>2, <3>1, <3>2
  <2> QED
    BY ZenonT(60), <1>t, <2>2, <2>6, <2>7, <2>8, <2>9 DEF PlaceInv
<1>4. ASSUME NEW c \in Conns, Close(c) PROVE PlaceInv'
  BY Zenon, <1>4, <1>s DEF Close, history
<1>5. ASSUME NEW c \in Conns, releaseCounters(c) PROVE PlaceInv'
  BY Zenon, <1>5, <1>s DEF releaseCounters, history
<1>6. ASSUME NEW m \in Mappings, UpdateInboundMapping(m) PROVE PlaceInv'
  BY Zenon, <1>6, <1>s DEF UpdateInboundMapping, connVars, history
<1>7. CASE StageForReport
  BY Zenon, <1>7, <1>s DEF StageForReport, connVars, history
<1>8. CASE Confirm
  BY Zenon, <1>8, <1>s DEF Confirm, connVars, history
<1>9. CASE ResetLiveCountersWhenJournaled
  <2>1. /\ staged # None /\ UNCHANGED <<reading, carrier>>
        /\ \A b \in Bytes : billed'[b] = BilledTo(b)
    BY ZenonT(60), <1>9, ResetEffect
  <2>2. \A o \in Conns : units'[o] \subseteq units[o]
    BY <1>9, ResetEffect
  <2>3. ASSUME NEW b \in Bytes, Snapped(b) = {}
        PROVE  /\ billed'[b] = billed[b]
               /\ \A o \in Conns, d \in Directions : <<b, d>> \in units[o] => <<b, d>> \in units'[o]
    <3>1. billed'[b] = billed[b]
      BY Zenon, <2>1, <2>3 DEF BilledTo
    <3>2. \A k \in DOMAIN staged.values, d \in Directions : <<b, d>> \notin staged.units[k]
      BY Zenon, <1>t, <2>1, <2>3 DEF Snapped, StagedInv
    <3> QED
      BY <1>9, <3>1, <3>2, ResetEffect
  <2>4. ASSUME NEW b \in Bytes, Snapped(b) # {}
        PROVE  /\ billed'[b] # None /\ carrier[b] # None
               /\ \A o \in Conns, d \in Directions : <<b, d>> \notin units'[o]
               /\ \A c \in Conns : reading[c] # None => reading[c][1] # b
    <3>1. PICK k \in DOMAIN staged.values, d \in Directions : <<b, d>> \in staged.units[k]
      BY ZenonT(60), <1>t, <2>1, <2>4 DEF Snapped, StagedInv
    <3>2. k \in Keys /\ live[k] \in Conns /\ <<b, d>> \in units[live[k]]
      BY <1>t, <2>1, <3>1 DEF SnapshotInv, StagedInv, TypeOK
    <3>3. \A o \in Conns, e \in Directions : <<b, e>> \in units[o] => o = live[k] /\ e = d
      BY Zenon, <1>t, <3>2 DEF PlaceInv
    <3>4. carrier[b] # None /\ \A c \in Conns : reading[c] # None => reading[c][1] # b
      BY Zenon, <1>t, <3>2 DEF PlaceInv
    <3>5. <<b, d>> \notin units'[live[k]]
      <4>1. PICK j \in DOMAIN staged.values :
              live[j] = live[k] /\ units'[live[k]] = units[live[k]] \ staged.units[j]
        BY Zenon, <1>9, <3>1, <3>2, ResetEffect
      <4>2. j = k
        BY <1>t, <2>1, <3>2, <4>1 DEF ObjectInv, StagedInv
      <4> QED
        BY Zenon, <3>1, <4>1, <4>2
    <3>6. billed'[b] # None
      <4> DEFINE q == CHOOSE j \in Snapped(b) : TRUE
      <4>1. q \in Keys
        BY Zenon, <1>t, <2>1, <2>4 DEF Snapped, StagedInv
      <4>2. staged.mapping[q[1]] \in Inbounds \cup {None}
        BY <1>t, <2>1, <4>1 DEF StagedInv, Keys
      <4>3. BilledTo(b) = IF staged.mapping[q[1]] = None THEN "ignored" ELSE staged.mapping[q[1]]
        BY Zenon, <2>4 DEF BilledTo
      <4> QED
        BY Zenon, <2>1, <4>2, <4>3
    <3> QED
      BY Zenon, <2>2, <3>3, <3>4, <3>5, <3>6
  <2>5. \A b \in Bytes : carrier'[b] = None => billed'[b] = None
    BY ZenonT(60), <1>t, <2>1, <2>3, <2>4 DEF PlaceInv
  <2>6. \A c \in Conns : reading'[c] # None =>
          /\ carrier'[reading'[c][1]] = c /\ billed'[reading'[c][1]] = None
          /\ \A o \in Conns, d \in Directions : <<reading'[c][1], d>> \notin units'[o]
    <3>1. \A c \in Conns : reading[c] # None => reading[c][1] \in Bytes
      BY Zenon, <1>t DEF TypeOK
    <3> QED
      BY <1>t, <2>1, <2>2, <2>3, <2>4, <3>1 DEF PlaceInv
  <2>7. \A o \in Conns, b \in Bytes, d \in Directions :
          <<b, d>> \in units'[o] => carrier'[b] # None /\ billed'[b] = None
    BY <1>t, <2>1, <2>2, <2>3, <2>4 DEF PlaceInv
  <2>8. \A o, p \in Conns, b \in Bytes, d, e \in Directions :
          <<b, d>> \in units'[o] /\ <<b, e>> \in units'[p] => o = p /\ d = e
    BY <1>t, <2>2 DEF PlaceInv
  <2>9. \A b \in Bytes :
          \/ carrier'[b] = None \/ billed'[b] # None
          \/ \E c \in Conns : reading'[c] # None /\ reading'[c][1] = b
          \/ \E o \in Conns, d \in Directions : <<b, d>> \in units'[o]
    <3> SUFFICES ASSUME NEW b \in Bytes, carrier'[b] # None, billed'[b] = None
                 PROVE  \/ \E c \in Conns : reading'[c] # None /\ reading'[c][1] = b
                        \/ \E o \in Conns, d \in Directions : <<b, d>> \in units'[o]
      BY Zenon
    <3>1. Snapped(b) = {} /\ billed[b] = None /\ carrier[b] # None
      BY Zenon, <2>1, <2>3, <2>4
    <3>2. \/ \E c \in Conns : reading[c] # None /\ reading[c][1] = b
          \/ \E o \in Conns, d \in Directions : <<b, d>> \in units[o]
      BY Zenon, <1>p, <3>1
    <3> QED
      BY Zenon, <2>1, <2>3, <3>1, <3>2
  <2> QED
    BY Zenon, <2>5, <2>6, <2>7, <2>8, <2>9 DEF PlaceInv
<1>10. CASE UNCHANGED vars
  BY Zenon, <1>10, <1>s DEF vars, connVars, history
<1> QED
  BY Zenon, <1>1, <1>2, <1>3, <1>4, <1>5, <1>6, <1>7, <1>8, <1>9, <1>10 DEF Next

(* Only late units get into a counter nobody will read. *)
LEMMA LateStep == IInv /\ [Next]_vars => InvisibleIsLate'
<1> SUFFICES ASSUME IInv, [Next]_vars PROVE InvisibleIsLate'
  BY Zenon
<1> USE ConstantsAssumption
<1>t. TypeOK /\ StagedInv /\ ObjectInv /\ OpenIsLive /\ ValueInv /\ InvisibleIsLate
  BY Zenon DEF IInv
<1>s. ASSUME UNCHANGED <<units, late>>,
             \A k \in Keys : live[k] # None => live'[k] = live[k] \/ units[live[k]] = {}
      PROVE  InvisibleIsLate'
  BY Zenon, <1>t, <1>s DEF InvisibleIsLate
<1>1. ASSUME NEW c \in Conns, NEW k \in Keys, TrackConnection(c, k) PROVE InvisibleIsLate'
  <2>1. UNCHANGED <<units, late>>
    BY Zenon, <1>1 DEF TrackConnection, history
  <2>2. \A j \in Keys : live[j] # None => live'[j] = live[j]
    BY <1>1, <1>t DEF TrackConnection, TypeOK
  <2> QED
    BY Zenon, <1>s, <2>1, <2>2
<1>2. ASSUME NEW c \in Conns, NEW b \in Bytes, NEW d \in Directions, Transfer(c, b, d)
      PROVE  InvisibleIsLate'
  BY ZenonT(60), <1>2, <1>s DEF Transfer
<1>3. ASSUME NEW c \in Conns, CountFunc(c) PROVE InvisibleIsLate'
  <2> SUFFICES ASSUME NEW o \in Conns, \A k \in Keys : live'[k] # o,
                      NEW u \in units'[o]
               PROVE  u[1] \in late'
    BY Zenon DEF InvisibleIsLate
  <2>1. UNCHANGED live /\ late \subseteq late' /\ counter[c] \in Conns
    BY Zenon, <1>3, <1>t DEF CountFunc, ObjectInv, Tracked, TypeOK
  <2>2. CASE u \in units[o]
    BY Zenon, <1>t, <2>1, <2>2 DEF InvisibleIsLate
  <2>3. CASE u \notin units[o]
    <3>1. o = counter[c] /\ u = reading[c]
      BY Zenon, <1>3, <1>t, <2>1, <2>3 DEF CountFunc, TypeOK
    <3>2. conn[c] # "open"
      BY Zenon, <1>t, <2>1, <3>1 DEF OpenIsLive, ObjectInv, Tracked
    <3> QED
      BY Zenon, <1>3, <3>1, <3>2 DEF CountFunc
  <2> QED
    BY Zenon, <2>2, <2>3
<1>4. ASSUME NEW c \in Conns, Close(c) PROVE InvisibleIsLate'
  BY ZenonT(60), <1>4, <1>s DEF Close, history
<1>5. ASSUME NEW c \in Conns, releaseCounters(c) PROVE InvisibleIsLate'
  <2>1. UNCHANGED <<late, units>>
    BY Zenon, <1>5 DEF releaseCounters, history
  <2>2. ASSUME NEW k \in Keys, live[k] # None, live'[k] # live[k]
        PROVE  units[live[k]] = {}
    <3>1. value[live[k]] = Zero /\ live[k] \in Conns
      BY Zenon, <1>5, <1>t, <2>2 DEF releaseCounters, Idle, TypeOK
    <3>2. \A d \in Directions : Cardinality(Of(units[live[k]], d)) = 0
      BY <1>t, <3>1 DEF ValueInv, ValueIsUnits, Of, Zero
    <3> QED
      BY Zenon, <1>t, <3>1, <3>2, ZeroIsEmpty DEF ValueInv, TypeOK, Units
  <2> QED
    BY ZenonT(60), <1>s, <2>1, <2>2
<1>6. ASSUME NEW m \in Mappings, UpdateInboundMapping(m) PROVE InvisibleIsLate'
  BY Zenon, <1>6, <1>s DEF UpdateInboundMapping, history
<1>7. CASE StageForReport
  BY Zenon, <1>7, <1>s DEF StageForReport, history
<1>8. CASE Confirm
  BY Zenon, <1>8, <1>s DEF Confirm, history
<1>9. CASE ResetLiveCountersWhenJournaled
  <2> SUFFICES ASSUME NEW o \in Conns, \A k \in Keys : live'[k] # o,
                      NEW u \in units'[o]
               PROVE  u[1] \in late'
    BY Zenon DEF InvisibleIsLate
  <2>1. u \in units[o] /\ UNCHANGED late
    BY Zenon, <1>9, ResetEffect
  <2>2. CASE \A k \in Keys : live[k] # o
    BY Zenon, <1>t, <2>1, <2>2 DEF InvisibleIsLate
  <2>3. ASSUME NEW k \in Keys, live[k] = o PROVE FALSE
    <3>1. value'[o] = Zero
      BY Zenon, <1>9, <2>3, ResetEffect
    <3>2. \A d \in Directions : Cardinality(Of(units'[o], d)) = 0
      BY Zenon, <3>1, ValueStep DEF ValueInv, ValueIsUnits, Of, Zero
    <3>3. units'[o] \in SUBSET Units /\ IsFiniteSet(units'[o])
      BY Zenon, TypeStep, ValueStep DEF TypeOK, ValueInv, Units
    <3> QED
      BY Zenon, <3>2, <3>3, ZeroIsEmpty
  <2> QED
    BY Zenon, <2>2, <2>3
<1>10. CASE UNCHANGED vars
  BY Zenon, <1>10, <1>s DEF vars, history
<1> QED
  BY Zenon, <1>1, <1>2, <1>3, <1>4, <1>5, <1>6, <1>7, <1>8, <1>9, <1>10 DEF Next

(* Every reachable state satisfies the inductive invariant. *)
THEOREM Invariance == Spec => []IInv
<1>1. IInv /\ [Next]_vars => IInv'
  BY Zenon, TypeStep, ObjectStep, ActiveStep, LiveStep, ValueStep, SnapshotStep, PlaceStep, LateStep
     DEF IInv
<1> QED
  BY <1>1, InitIInv, PTL DEF Spec

(* Every reachable state is well typed; no use count becomes negative. *)
THEOREM TypeCorrect == Spec => []TypeOK
<1>1. IInv => TypeOK
  BY Zenon DEF IInv
<1> QED
  BY <1>1, Invariance, PTL

(* The counter of an open connection is always the one the next snapshot   *)
(* reads.                                                                  *)
THEOREM OpenCountersAreLive == Spec => []OpenIsLive
<1>1. IInv => OpenIsLive
  BY Zenon DEF IInv
<1> QED
  BY <1>1, Invariance, PTL

(* The numbers a snapshot takes and a report subtracts are those of units: *)
(* no value becomes negative, and what ResetLiveCountersWhenJournaled      *)
(* subtracts was counted in the counter it is subtracted from.             *)
THEOREM CountersCount == Spec => []ValueIsUnits
<1>1. IInv => ValueIsUnits
  BY Zenon DEF IInv, ValueInv
<1> QED
  BY <1>1, Invariance, PTL

(* Traffic escapes the reports only if it was counted after its connection *)
(* had been closed.                                                        *)
THEOREM OnlyLateEscapes == Spec => []InvisibleIsLate
<1>1. IInv => InvisibleIsLate
  BY Zenon DEF IInv
<1> QED
  BY <1>1, Invariance, PTL

(* No unit is in two counters, or in a counter and in a bill, and none     *)
(* that was counted is gone.                                               *)
THEOREM UnitsCountedOnce == Spec => []CountedOnce
<1>1. ASSUME IInv, NEW b \in Bytes
      PROVE  LET in == {c \in Conns : \E d \in Directions : <<b, d>> \in units[c]}
             IN /\ Cardinality(in) <= 1
                /\ billed[b] # None => in = {}
                /\ carrier[b] # None /\ (\A c \in Conns : reading[c] = None \/ reading[c][1] # b)
                     => in # {} \/ billed[b] # None
  <2> DEFINE in == {c \in Conns : \E d \in Directions : <<b, d>> \in units[c]}
  <2>1. PlaceInv
    BY Zenon, <1>1 DEF IInv
  <2>2. \A o, p \in in : o = p
    BY Zenon, <2>1 DEF PlaceInv
  <2>3. in = {} \/ \E o \in in : in = {o}
    BY Zenon, <2>2
  <2>4. Cardinality(in) <= 1
    <3> HIDE DEF in
    <3>1. CASE in = {}
      BY <3>1, FS_EmptySet
    <3>2. ASSUME NEW o \in in, in = {o} PROVE Cardinality(in) <= 1
      <4>1. Cardinality({o}) = 1
        BY Zenon, FS_Singleton
      <4> QED
        BY <3>2, <4>1
    <3> QED
      BY Zenon, <2>3, <3>1, <3>2
  <2>5. billed[b] # None => in = {}
    BY ZenonT(60), <2>1 DEF PlaceInv
  <2>6. carrier[b] # None /\ (\A c \in Conns : reading[c] = None \/ reading[c][1] # b)
          => in # {} \/ billed[b] # None
    BY Zenon, <2>1 DEF PlaceInv
  <2> QED
    BY Zenon, <2>4, <2>5, <2>6
<1>2. IInv => CountedOnce
  BY Zenon, <1>1 DEF CountedOnce
<1> QED
  BY <1>2, Invariance, PTL
=============================================================================
