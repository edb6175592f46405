SPECIFICATION LiveSpec
CONSTANTS
  a = a  ret = ret  shiftL = shiftL  shiftR = shiftR  super = super
  shift = shift  mod4 = mod4  c1 = c1  c2 = c2  NoKey = NoKey
  Keys = {a, ret, shiftL, super}
  Modifiers = {shiftL, super}
  Bits = {shift, mod4}
  Bit <- BitOf
  Super = super
  Return = ret
  Keyboards = {c1, c2}
  WorldMay = {"chord"}
INVARIANTS
  KeysFaithful
  Sensible
PROPERTIES
  PendingDelivered
