--------------------------- MODULE TokenRotation ---------------------------
(***************************************************************************)
(* The node token of the panel adapter: the rotation goroutine and the     *)
(* SIGHUP reload (cmd/sing-box-panel-adapter/main.go), the local           *)
(* configuration file (internal/paneladapter/config) and the token of the  *)
(* panel client (internal/paneladapter/client).                            *)
(*                                                                         *)
(* Tokens are numbered in the order the panel issues them.  The panel is   *)
(* external; nothing is assumed of how long it honours an old token.  The  *)
(* operator edits other fields of the file, each edit in one write.        *)
(***************************************************************************)
EXTENDS Naturals

CONSTANTS MaxTokens,    \* bound: tokens issued
          MaxTroubles,  \* bound: lost responses, failed writes, crashes
          MaxReloads,   \* bound: SIGHUPs, and edits of the file
          None

ASSUME Bounds == /\ MaxTokens \in Nat \ {0}
                 /\ MaxTroubles \in Nat /\ MaxReloads \in Nat

ASSUME NoneIsNoToken == None \notin Nat

VARIABLES file,     \* the configuration file: token, and edits of the rest
          token,    \* the client's token
          rotation, \* the goroutine: sleep, request, load, rename, activate
          pending,  \* the token received and not yet persisted and active
          copy,     \* edits, as UpdateNodeToken loaded them
          reload,   \* the token a SIGHUP loaded and is about to set
          issued, lost, troubles, reloads, edits,
          overlap,  \* history: a rename came between a reload's load and
                    \* its SetToken, and no other reload followed
          raced     \* history: the last edit fell between UpdateNodeToken's
                    \* Load and its Rename

vars == <<file, token, rotation, pending, copy, reload, issued, lost,
          troubles, reloads, edits, overlap, raced>>

Init ==
    /\ file = [token |-> 0, edits |-> 0]
    /\ token = 0
    /\ rotation = "sleep" /\ pending = None /\ copy = None
    /\ reload = None
    /\ issued = 0 /\ lost = {} /\ troubles = 0 /\ reloads = 0 /\ edits = 0
    /\ overlap = FALSE /\ raced = FALSE

-----------------------------------------------------------------------------
BugNoRetry ==
    /\ rotation = "sleep" /\ pending = None
    /\ rotation' = "request"
    /\ UNCHANGED <<file, token, pending, copy, reload, issued, lost, troubles,
                   reloads, edits, overlap, raced>>

(* The timer of runTokenRotationWithRetry fires. *)
timer ==
    /\ rotation = "sleep"
    /\ rotation' = IF pending = None THEN "request" ELSE "load"
    /\ UNCHANGED <<file, token, pending, copy, reload, issued, lost, troubles,
                   reloads, edits, overlap, raced>>

(* RotateToken: the panel answers. *)
RotateToken ==
    /\ rotation = "request" /\ issued < MaxTokens
    /\ issued' = issued + 1
    /\ pending' = issued + 1
    /\ rotation' = "load"
    /\ UNCHANGED <<file, token, copy, reload, lost, troubles, reloads, edits,
                   overlap, raced>>

(* RotateToken fails; the panel may have issued a token all the same. *)
RotateTokenFails ==
    /\ rotation = "request" /\ troubles < MaxTroubles
    /\ \/ UNCHANGED <<issued, lost>>
       \/ /\ issued < MaxTokens
          /\ issued' = issued + 1
          /\ lost' = lost \cup {issued + 1}
    /\ troubles' = troubles + 1
    /\ rotation' = "sleep"
    /\ UNCHANGED <<file, token, pending, copy, reload, reloads, edits,
                   overlap, raced>>

BugUpdateNodeToken ==
    /\ rotation = "load"
    /\ copy' = 0
    /\ rotation' = "rename"
    /\ UNCHANGED <<file, token, pending, reload, issued, lost, troubles,
                   reloads, edits, overlap, raced>>

(* UpdateNodeToken: Load, and what it writes to the temporary file. *)
UpdateNodeToken ==
    /\ rotation = "load"
    /\ copy' = file.edits
    /\ rotation' = "rename"
    /\ UNCHANGED <<file, token, pending, reload, issued, lost, troubles,
                   reloads, edits, overlap, raced>>

(* os.Rename *)
Rename ==
    /\ rotation = "rename"
    /\ file' = [token |-> pending, edits |-> copy]
    /\ copy' = None
    /\ overlap' = (reload # None)
    /\ rotation' = "activate"
    /\ UNCHANGED <<token, pending, reload, issued, lost, troubles, reloads,
                   edits, raced>>

BugPersistFails ==
    /\ rotation \in {"load", "rename"} /\ troubles < MaxTroubles
    /\ troubles' = troubles + 1
    /\ copy' = None /\ pending' = None
    /\ rotation' = "sleep"
    /\ UNCHANGED <<file, token, reload, issued, lost, reloads, edits, overlap,
                   raced>>

(* UpdateNodeToken fails: the token stays pending, the file as it was. *)
PersistFails ==
    /\ rotation \in {"load", "rename"} /\ troubles < MaxTroubles
    /\ troubles' = troubles + 1
    /\ copy' = None
    /\ rotation' = "sleep"
    /\ UNCHANGED <<file, token, pending, reload, issued, lost, reloads, edits,
                   overlap, raced>>

BugActivate ==
    /\ rotation = "activate"
    /\ pending' = None
    /\ rotation' = "sleep"
    /\ UNCHANGED <<file, token, copy, reload, issued, lost, troubles, reloads,
                   edits, overlap, raced>>

(* SetToken in the rotation goroutine. *)
Activate ==
    /\ rotation = "activate"
    /\ token' = pending
    /\ pending' = None
    /\ rotation' = "sleep"
    /\ UNCHANGED <<file, copy, reload, issued, lost, troubles, reloads, edits,
                   overlap, raced>>

-----------------------------------------------------------------------------
(* SIGHUP: config.Load, then SetToken, in the signal loop. *)
SIGHUP ==
    /\ reload = None /\ reloads < MaxReloads
    /\ reloads' = reloads + 1
    /\ reload' = file.token
    /\ overlap' = FALSE
    /\ UNCHANGED <<file, token, rotation, pending, copy, issued, lost,
                   troubles, edits, raced>>

ReloadToken ==
    /\ reload # None
    /\ token' = reload
    /\ reload' = None
    /\ UNCHANGED <<file, rotation, pending, copy, issued, lost, troubles,
                   reloads, edits, overlap, raced>>

(* The operator changes something else in the file. *)
Edit ==
    /\ edits < MaxReloads
    /\ edits' = edits + 1
    /\ raced' = (rotation = "rename")
    /\ file' = [file EXCEPT !.edits = edits + 1]
    /\ UNCHANGED <<token, rotation, pending, copy, reload, issued, lost,
                   troubles, reloads, overlap>>

(* The process ends at any point and starts again from the file. *)
Crash ==
    /\ troubles < MaxTroubles
    /\ troubles' = troubles + 1
    /\ token' = file.token
    /\ rotation' = "sleep" /\ pending' = None /\ copy' = None
    /\ reload' = None
    /\ overlap' = FALSE
    /\ lost' = IF pending = None \/ pending <= file.token THEN lost
               ELSE lost \cup {pending}
    /\ UNCHANGED <<file, issued, reloads, edits, raced>>

rotationStep == timer \/ RotateToken \/ UpdateNodeToken \/ Rename \/ Activate

Next ==
    \/ rotationStep \/ RotateTokenFails \/ PersistFails
    \/ SIGHUP \/ ReloadToken \/ Edit \/ Crash

Spec == Init /\ [][Next]_vars

(* The timer fires, the goroutine and the signal loop run. *)
FairSpec == Spec /\ WF_vars(rotationStep) /\ WF_vars(ReloadToken)

-----------------------------------------------------------------------------
TypeOK ==
    /\ file \in [token : 0 .. MaxTokens, edits : 0 .. MaxReloads]
    /\ token \in 0 .. MaxTokens
    /\ rotation \in {"sleep", "request", "load", "rename", "activate"}
    /\ rotation \in {"load", "rename", "activate"} => pending # None
    /\ pending \in 1 .. MaxTokens \cup {None}
    /\ (copy # None) <=> (rotation = "rename")
    /\ reload \in 0 .. MaxTokens \cup {None}
    /\ issued \in 0 .. MaxTokens /\ lost \subseteq 1 .. issued
    /\ edits \in 0 .. MaxReloads
    /\ copy \in 0 .. MaxReloads \cup {None}
    /\ overlap \in BOOLEAN /\ raced \in BOOLEAN

(* A token is in use only once it is in the file, so that no crash, at     *)
(* whatever point of a rotation or a reload, takes the only copy of a      *)
(* token the panel already knows as the node's.                            *)
PersistedBeforeActive == token <= file.token

(* No token the panel issued is forgotten: it is in the file or was        *)
(* followed by one that is, or it is pending; unless its response never    *)
(* came or the process ended while it was pending.  In particular a failed *)
(* write is retried with the same token and asks for no other one.         *)
TokensAccounted ==
    \A t \in 1 .. issued : t <= file.token \/ t = pending \/ t \in lost

(* With no rotation and no reload under way the client uses the token of   *)
(* the file.  Except: a reload that loaded the file before the rename and  *)
(* sets the token after the activation puts the old token back, until the  *)
(* next reload or rotation.                                                *)
ActiveIsPersisted ==
    rotation = "sleep" /\ pending = None /\ reload = None =>
      token = file.token \/ overlap

(* A rotation leaves the operator's last edit of the file in place.        *)
(* Except: an edit between UpdateNodeToken's Load and its Rename is        *)
(* overwritten by what was loaded.                                         *)
EditsSurvive == file.edits = edits \/ raced

(* Whatever fails and whenever the process dies: a token that was received *)
(* is persisted and in use in the end, or lost with the process.           *)
PendingSettles ==
    []<>(pending = None)
=============================================================================
