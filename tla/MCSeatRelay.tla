------------------------------ MODULE MCSeatRelay ------------------------------
(***************************************************************************)
(* Small instances of SeatRelay.                                           *)
(***************************************************************************)
EXTENDS SeatRelay

CONSTANTS a, ret, shiftL, shiftR, super, \* keys
          shift, mod4,                   \* modifier bits
          c1, c2                         \* keyboards

\* Shift and Super set a bit each, both Shift keys the same one.
BitOf == [k \in Modifiers |-> IF k = super THEN mod4 ELSE shift]
=============================================================================
