---------------------------- MODULE MCClientWire -------------------------------
(***************************************************************************)
(* Small instances of ClientWire.                                          *)
(***************************************************************************)
EXTENDS ClientWire

\* The versions at which a table or a handler changes what it does.
TurningVersions ==
  [wl_compositor |-> {1, 6}, wl_seat |-> {1, 5, 8}, xdg_wm_base |-> {1, 5},
   dmabuf |-> {1, 4}]
=============================================================================
