----------------------------- MODULE MCReporter -----------------------------
(* Instances of Reporter for TLC. *)
EXTENDS Reporter, TLC

CONSTANTS b1, b2, g1, g2, w1, w2, bad

OneByte == {b1}
TwoBytes == {b1, b2}

OneTag == [b \in Bytes |-> g1]
TwoTags == [b \in Bytes |-> IF b = b1 THEN g1 ELSE g2]

(* The second inbound comes and goes. *)
MCMappings == {{g1}, {g1, g2}}

OneMapping == {{g1}}

(* What an older version may have left: nothing; an entry without a body;  *)
(* one whose window is not positive; one to resend.                        *)
MCLegacy ==
  LET entry(B, w, h) == [bytes |-> B, window |-> w, body |-> h]
  IN {{}, {entry({}, w1, FALSE)}, {entry({b1}, bad, TRUE)},
      {entry({b1}, w1, TRUE), entry({}, w1, FALSE)}}

NoLegacy == {{}}
=============================================================================
