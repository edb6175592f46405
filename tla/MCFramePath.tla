------------------------------ MODULE MCFramePath ------------------------------
(***************************************************************************)
(* Small instances of FramePath.                                           *)
(***************************************************************************)
EXTENDS FramePath, TLC

CONSTANTS b1, b2, b3, s1, s2,   \* buffers and surfaces
          large, small,         \* two sizes of the desktop
          argb                  \* a format

Large == [size |-> large, format |-> argb]
Small == [size |-> small, format |-> argb]

\* Every buffer has the one geometry.
OneGeometry == [b \in Buffers |-> Large]

\* A client that resizes: its last buffer is smaller.
TwoSizes == [b \in Buffers |-> IF b = b3 THEN Small ELSE Large]

\* Surfaces are interchangeable.
SurfaceSymmetry == Permutations(Surfaces)

\* And so are the two larger buffers of the client that resizes.
ResizeSymmetry == Permutations(Surfaces) \cup Permutations({b1, b2})

\* No guard and no property of the runs on a resize reads the frame callbacks or
\* the frame committed last: states that differ only in them are one state.
WithoutCallbacks ==
  <<poolVars, slotVars, queued, queuedSurface, bufVars,
    surfState, acked, pending, confVars, session>>
=============================================================================
