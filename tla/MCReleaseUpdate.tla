-------------------------- MODULE MCReleaseUpdate --------------------------
(***************************************************************************)
(* Two updaters at one instance.                                           *)
(***************************************************************************)
EXTENDS ReleaseUpdate

CONSTANTS u1, u2
=============================================================================
