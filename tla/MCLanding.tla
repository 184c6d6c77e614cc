----------------------------- MODULE MCLanding -----------------------------
(***************************************************************************)
(* Landing for TLC: which locks may be outlived by their holder.           *)
(***************************************************************************)
EXTENDS Landing

Timely == {}
SlowMerge == {"merge"}

=============================================================================
