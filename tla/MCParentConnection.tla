-------------------------- MODULE MCParentConnection ---------------------------
(***************************************************************************)
(* Small instances of ParentConnection.                                    *)
(***************************************************************************)
EXTENDS ParentConnection

\* A parent newer than the bridge expects, older ones, one without a seat and
\* one that lacks a global.
Offer(compositor, shm, xdg, seats) ==
  [wl_compositor |-> compositor, wl_shm |-> shm, xdg_wm_base |-> xdg, wl_seat |-> seats]
OldAndNewParents ==
  {Offer(6, 2, 6, 9), Offer(4, 1, 1, 4), Offer(3, 1, 1, 1), Offer(4, 1, 1, 0), Offer(4, 1, 0, 7)}
=============================================================================
