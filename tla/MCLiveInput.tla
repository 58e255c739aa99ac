---------------------------- MODULE MCLiveInput ----------------------------
(* Small instances of LiveInput. *)
EXTENDS LiveInput

CONSTANTS r1, r2

OneReply   == {r1}
TwoReplies == {r1, r2}
=============================================================================
