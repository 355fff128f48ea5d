---------------------------- MODULE MCLiveInbox ----------------------------
(* Small instances of LiveInbox: two conversations, messages in both. *)
EXTENDS LiveInbox, TLC

CONSTANTS m1, m2, m3, a, b

TwoConvs == (m1 :> a) @@ (m2 :> a) @@ (m3 :> b)
One == {a}
=============================================================================
