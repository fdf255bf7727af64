------------------------ MODULE TokenRotationProofs ------------------------
(***************************************************************************)
(* The safety properties of TokenRotation for any number of tokens,        *)
(* failures, crashes, reloads and edits.                                   *)
(***************************************************************************)
EXTENDS TokenRotation, TLAPS

(* What every rotation keeps.  Tokens only move forward: the file is never *)
(* ahead of the panel, and a pending token is the newest one, so the next  *)
(* Rename is never a step back.                                            *)
Order ==
    /\ file.token <= issued
    /\ token <= file.token
    /\ pending # None => pending = issued
    /\ rotation = "request" => pending = None
    /\ rotation = "activate" => pending = file.token
    /\ reload # None => reload <= file.token

(* Between a Rename and its activation, or while a reload overlaps it, the *)
(* client may be behind the file; nowhere else.                            *)
Agreement ==
    ~overlap =>
      /\ reload # None => reload = file.token
      /\ reload = None /\ rotation # "activate" => token = file.token

(* What UpdateNodeToken holds is what the file holds, unless an edit came  *)
(* in between.                                                             *)
Edits ==
    ~raced => file.edits = edits /\ (copy # None => copy = edits)

IInv == TypeOK /\ Order /\ Agreement /\ TokensAccounted /\ Edits

(* The initial state, in which nothing has been issued. *)
LEMMA InitIInv == Init => IInv
<1> SUFFICES ASSUME Init PROVE IInv
  BY Zenon
<1> USE Bounds, NoneIsNoToken DEF Init
<1>1. TypeOK
  <2>1. file \in [token : 0 .. MaxTokens, edits : 0 .. MaxReloads]
    OBVIOUS
  <2>2. overlap \in BOOLEAN /\ raced \in BOOLEAN
    BY Zenon
  <2>3. lost \subseteq 1 .. issued
    BY Zenon
  <2> QED
    BY Zenon, <2>1, <2>2, <2>3 DEF TypeOK
<1>2. Order /\ Agreement /\ Edits
  BY DEF Order, Agreement, Edits
<1>3. TokensAccounted
  BY DEF TokensAccounted
<1> QED
  BY Zenon, <1>1, <1>2, <1>3 DEF IInv

(* The types, whatever step is taken. *)
LEMMA TypeStep == IInv /\ [Next]_vars => TypeOK'
<1> SUFFICES ASSUME IInv, [Next]_vars PROVE TypeOK'
  BY Zenon
<1> USE Bounds, NoneIsNoToken DEF IInv, TypeOK
<1>1. CASE timer
  BY Zenon, <1>1 DEF timer
<1>2. CASE RotateToken
  BY <1>2 DEF RotateToken
<1>3. CASE UpdateNodeToken
  BY <1>3 DEF UpdateNodeToken
<1>4. CASE Rename
  BY <1>4 DEF Rename
<1>5. CASE Activate
  BY <1>5 DEF Activate
<1>6. CASE RotateTokenFails
  <2>1. issued' \in 0 .. MaxTokens /\ issued <= issued'
    BY <1>6 DEF RotateTokenFails
  <2>2. lost' \subseteq 1 .. issued'
    <3>1. CASE UNCHANGED <<issued, lost>>
      BY Zenon, <3>1
    <3>2. CASE issued' = issued + 1 /\ lost' = lost \cup {issued + 1}
      <4>1. issued \in Nat /\ \A t \in lost : t \in 1 .. issued
        OBVIOUS
      <4>2. \A t \in lost' : t \in 1 .. issued'
        BY <3>2, <4>1
      <4> QED
        BY Zenon, <4>2
    <3> QED
      BY Zenon, <1>6, <3>1, <3>2 DEF RotateTokenFails
  <2>3. /\ rotation' = "sleep"
        /\ UNCHANGED <<file, token, pending, copy, reload, reloads, edits,
                       overlap, raced>>
        /\ rotation = "request"
    BY Zenon, <1>6 DEF RotateTokenFails
  <2> QED
    BY Zenon, <2>1, <2>2, <2>3
<1>7. CASE PersistFails
  BY Zenon, <1>7 DEF PersistFails
<1>8. CASE SIGHUP
  BY Zenon, <1>8 DEF SIGHUP
<1>9. CASE ReloadToken
  BY Zenon, <1>9 DEF ReloadToken
<1>10. CASE Edit
  BY <1>10 DEF Edit
<1>11. CASE Crash
  <2>1. lost' \subseteq 1 .. issued'
    BY <1>11 DEF Crash, Order
  <2> QED
    BY Zenon, <1>11, <2>1 DEF Crash
<1>12. CASE UNCHANGED vars
  BY Zenon, <1>12 DEF vars
<1> QED
  BY Zenon, <1>1, <1>2, <1>3, <1>4, <1>5, <1>6, <1>7, <1>8, <1>9, <1>10, <1>11,
     <1>12 DEF Next, rotationStep

(* The order of the tokens, and the agreement of client and file. *)
LEMMA OrderStep == IInv /\ [Next]_vars => Order' /\ Agreement'
<1> SUFFICES ASSUME IInv, [Next]_vars PROVE Order' /\ Agreement'
  BY Zenon
<1> USE Bounds, NoneIsNoToken DEF IInv, TypeOK, Order, Agreement
<1>1. CASE timer
  BY Zenon, <1>1 DEF timer
<1>2. CASE RotateToken
  BY <1>2 DEF RotateToken
<1>3. CASE UpdateNodeToken
  BY Zenon, <1>3 DEF UpdateNodeToken
<1>4. CASE Rename
  <2>1. Order'
    BY <1>4 DEF Rename
  <2>2. ~overlap' => reload' = None
    BY Zenon, <1>4 DEF Rename
  <2>3. rotation' = "activate"
    BY Zenon, <1>4 DEF Rename
  <2> QED
    BY Zenon, <2>1, <2>2, <2>3
<1>5. CASE Activate
  BY Zenon, <1>5 DEF Activate
<1>6. CASE RotateTokenFails
  BY <1>6 DEF RotateTokenFails
<1>7. CASE PersistFails
  BY Zenon, <1>7 DEF PersistFails
<1>8. CASE SIGHUP
  BY <1>8 DEF SIGHUP
<1>9. CASE ReloadToken
  BY Zenon, <1>9 DEF ReloadToken
<1>10. CASE Edit
  BY Zenon, <1>10 DEF Edit
<1>11. CASE Crash
  BY <1>11 DEF Crash
<1>12. CASE UNCHANGED vars
  BY Zenon, <1>12 DEF vars
<1> QED
  BY Zenon, <1>1, <1>2, <1>3, <1>4, <1>5, <1>6, <1>7, <1>8, <1>9, <1>10, <1>11,
     <1>12 DEF Next, rotationStep

(* Every token issued stays accounted for, and so do the operator's edits. *)
LEMMA AccountStep == IInv /\ [Next]_vars => TokensAccounted' /\ Edits'
<1> SUFFICES ASSUME IInv, [Next]_vars PROVE TokensAccounted' /\ Edits'
  BY Zenon
<1> USE Bounds, NoneIsNoToken DEF IInv, TypeOK, Order, TokensAccounted, Edits
<1>1. CASE timer
  BY Zenon, <1>1 DEF timer
<1>2. CASE RotateToken
  BY <1>2 DEF RotateToken
<1>3. CASE UpdateNodeToken
  BY Zenon, <1>3 DEF UpdateNodeToken
<1>4. CASE Rename
  BY <1>4 DEF Rename
<1>5. CASE Activate
  BY Zenon, <1>5 DEF Activate
<1>6. CASE RotateTokenFails
  BY <1>6 DEF RotateTokenFails
<1>7. CASE PersistFails
  BY Zenon, <1>7 DEF PersistFails
<1>8. CASE SIGHUP
  BY Zenon, <1>8 DEF SIGHUP
<1>9. CASE ReloadToken
  BY Zenon, <1>9 DEF ReloadToken
<1>10. CASE Edit
  BY Zenon, <1>10 DEF Edit
<1>11. CASE Crash
  BY Zenon, <1>11 DEF Crash
<1>12. CASE UNCHANGED vars
  BY Zenon, <1>12 DEF vars
<1> QED
  BY Zenon, <1>1, <1>2, <1>3, <1>4, <1>5, <1>6, <1>7, <1>8, <1>9, <1>10, <1>11,
     <1>12 DEF Next, rotationStep

(* The inductive invariant holds in every reachable state. *)
LEMMA Inductive == Spec => []IInv
<1>1. IInv /\ [Next]_vars => IInv'
  BY Zenon, TypeStep, OrderStep, AccountStep DEF IInv
<1> QED
  BY InitIInv, <1>1, PTL DEF Spec

(* No crash takes the only copy of a token in use. *)
THEOREM ActiveTokenIsPersisted == Spec => []PersistedBeforeActive
<1>1. IInv => PersistedBeforeActive
  BY Zenon DEF IInv, Order, PersistedBeforeActive
<1> QED
  BY Inductive, <1>1, PTL

(* A token the panel issued is forgotten only with a lost response or with *)
(* the process.                                                            *)
THEOREM NoTokenForgotten == Spec => []TokensAccounted
<1>1. IInv => TokensAccounted
  BY Zenon DEF IInv
<1> QED
  BY Inductive, <1>1, PTL

(* At rest the client uses the token of the file, unless a reload          *)
(* overlapped the last Rename.                                             *)
THEOREM RestAgrees == Spec => []ActiveIsPersisted
<1>1. IInv => ActiveIsPersisted
  BY Zenon DEF IInv, TypeOK, Agreement, ActiveIsPersisted
<1> QED
  BY Inductive, <1>1, PTL

(* A rotation overwrites an edit of the file only when the edit falls      *)
(* between UpdateNodeToken's Load and Rename.                              *)
THEOREM RotationKeepsEdits == Spec => []EditsSurvive
<1>1. IInv => EditsSurvive
  BY Zenon DEF IInv, TypeOK, Edits, EditsSurvive
<1> QED
  BY Inductive, <1>1, PTL
=============================================================================
