---------------------------- MODULE MCNightlyCrawl ----------------------------
(***************************************************************************)
(* Two repositories, enough to be on different levels; the configurations  *)
(* choose what may go wrong.                                               *)
(***************************************************************************)
EXTENDS NightlyCrawl
=============================================================================
