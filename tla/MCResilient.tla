---------------------------- MODULE MCResilient ----------------------------
(***************************************************************************)
(* Instances of module Resilient for TLC.  A delay doubles from 1 to 3, so  *)
(* that both the doubling and the cap apply.                                *)
(***************************************************************************)
EXTENDS Resilient
=============================================================================
