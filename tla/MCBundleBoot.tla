---------------------------- MODULE MCBundleBoot ----------------------------
(* BundleBoot for TLC: two clients of one process, one of them called by   *)
(* two at once, and the four parts of a bundle its loaders tell apart.     *)
EXTENDS BundleBoot

CONSTANTS a1, a2, b1, a, b

MCOwner == [c \in {a1, a2, b1} |-> IF c = b1 THEN b ELSE a]
MCParts == {"kameleon", "accounts", "chunk", "chat"}
=============================================================================
