---------------------------- MODULE MCClientObjects ----------------------------
(***************************************************************************)
(* Small instances of ClientObjects.                                       *)
(***************************************************************************)
EXTENDS ClientObjects

CONSTANTS hypr, tool,  \* the compositor and a diagnostic client
          k1, k2       \* callbacks

\* Both callbacks are the compositor's: it can ask for one frame too many.
Owners == [k \in Callbacks |-> hypr]
=============================================================================
