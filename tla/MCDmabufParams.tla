---------------------------- MODULE MCDmabufParams -----------------------------
(***************************************************************************)
(* Small instances of DmabufParams: words of 7 bits.                       *)
(***************************************************************************)
EXTENDS DmabufParams, TLC

\* Objects of a kind are alike.
Alike == Permutations(Params) \cup Permutations(Surfaces) \cup Permutations(Fds)

Plane(o, s, m) == [offset |-> o, stride |-> s, modifier |-> m]
Image(w, h, f, fl) == [width |-> w, height |-> h, format |-> f, flags |-> fl]

\* Strides of no byte, of one and of many pixels, the last offset, and a
\* modifier that is not listed.
SomePlanes ==
  {Plane(0, 0, "LINEAR"), Plane(0, 4, "LINEAR"), Plane(Word - 1, 64, "LINEAR"),
   Plane(0, 64, "other")}

\* What the feedback lists, what it does not, and a size of nothing;
\* rows of Word \div 4 pixels have no byte in 32 bits, one more have 4; of 16
\* pixels an int has a negative number of bytes, and ftruncate refuses their
\* pool; of 8 pixels the pool's size is more than an int.
SomeImages ==
  {Image(1, 2, "ARGB8888", 0), Image(1, 1, "other", 0), Image(1, 1, "XRGB8888", 1),
   Image(0, 1, "XRGB8888", 0)}
  \cup {Image(s[1], s[2], "XRGB8888", 0) : s \in {<<1, 2>>, <<8, 2>>, <<16, 1>>, <<32, 2>>, <<33, 2>>}}

\* Not more than two rules are broken in one behaviour (a bound).
FewBroken == Cardinality(broken) <= 2
=============================================================================
