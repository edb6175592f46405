------------------------------- MODULE MCQualify -------------------------------
(***************************************************************************)
(* The instance of Qualify that main is.                                   *)
(***************************************************************************)
EXTENDS Qualify

BothFormats == <<"XRGB8888", "ARGB8888">>
=============================================================================
