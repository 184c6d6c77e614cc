----------------------------- MODULE MCReleases -----------------------------
(***************************************************************************)
(* Releases on a small instance: the configurations give every constant.   *)
(***************************************************************************)
EXTENDS Releases
=============================================================================
