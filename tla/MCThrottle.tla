------------------------------ MODULE MCThrottle -------------------------------
(* Throttle with two overlapping rules: a specific one with a floor of 3, and a *)
(* general one with a floor of 2 and one burst token.                           *)
EXTENDS Throttle

CONSTANTS add, sync

MCUrls == {add, sync}
MCMatches == <<{add}, {add, sync}>>
MCMinInterval == <<3, 2>>
MCBurst == <<0, 1>>
================================================================================
