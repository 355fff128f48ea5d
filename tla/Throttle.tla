------------------------------- MODULE Throttle --------------------------------
(* The gate of createThrottle, shared by every client that was handed it: per   *)
(* rule a burst allowance, then a floor since the rule last fired.  One gate,   *)
(* any number of concurrent requests, one clock.                                *)
EXTENDS Naturals

CONSTANTS
    Callers,      \* requests that can be in the gate at once
    Urls,
    NumRules,     \* config.rules.length
    Matches,      \* Matches[r]: the urls rule r matches
    MinInterval,  \* minIntervalMs
    Burst,        \* burst, 0 when undefined
    Epoch,        \* Date.now() when the gate is built
    MaxTime       \* bound: the last instant of the clock

Rules == 1..NumRules

ASSUME RuleAssumption ==
    /\ NumRules \in Nat
    /\ Matches \in [Rules -> SUBSET Urls]
    /\ MinInterval \in [Rules -> Nat]
    /\ Burst \in [Rules -> Nat]

\* lastFiredAt starts at 0, decades before the epoch of any real clock.
ASSUME ClockAssumption ==
    /\ Epoch \in Nat /\ MaxTime \in Nat
    /\ Epoch > 0
    /\ \A r \in Rules : MinInterval[r] <= Epoch

NoRule == 0

VARIABLES
    now,          \* Date.now()
    lastFiredAt,  \* by rule
    burstUsed,    \* by rule
    asleep,       \* [rule, until] of a request in setTimeout, NoRule when none
    passed,       \* history: when the caller last passed each rule, 0 never
    ownGap        \* history: the least time, by rule, between a paced request
                  \* and the one before it of the same caller

vars == <<now, lastFiredAt, burstUsed, asleep, passed, ownGap>>

Awake == [rule |-> NoRule, until |-> 0]

\* states.find: the first rule that matches, in the order of the config.
FirstMatch(u, r) == /\ u \in Matches[r]
                    /\ \A q \in 1..(r - 1) : u \notin Matches[q]

InBurst(r) == burstUsed[r] < Burst[r]

\* Mutant: the floor is measured in the wrong direction.
WaitElapsed(r) == LET elapsed == now - lastFiredAt[r]
                  IN  IF elapsed < MinInterval[r] THEN elapsed ELSE 0

\* Math.max(0, minIntervalMs - elapsed)
Wait(r) == LET elapsed == now - lastFiredAt[r]
           IN  IF elapsed < MinInterval[r] THEN MinInterval[r] - elapsed ELSE 0

\* The request goes out under rule r.
Fire(c, r) == /\ lastFiredAt' = [lastFiredAt EXCEPT ![r] = now]
              /\ passed' = [passed EXCEPT ![c][r] = now]

Gap(c, r) == LET gap == now - passed[c][r]
             IN  ownGap' = [ownGap EXCEPT ![r] = IF gap < @ THEN gap ELSE @]

FirePaced(c, r) == Fire(c, r) /\ Gap(c, r)

-------------------------------------------------------------------------------
Init ==
    /\ now = Epoch
    /\ lastFiredAt = [r \in Rules |-> 0]
    /\ burstUsed = [r \in Rules |-> 0]
    /\ asleep = [c \in Callers |-> Awake]
    /\ passed = [c \in Callers |-> [r \in Rules |-> 0]]
    /\ ownGap = [r \in Rules |-> Epoch]

\* A burst token is taken in the call itself.
CallInBurst(c, r) ==
    /\ InBurst(r)
    /\ burstUsed' = [burstUsed EXCEPT ![r] = @ + 1]
    /\ Fire(c, r)
    /\ UNCHANGED <<now, asleep, ownGap>>

\* The floor is already behind: no await, the stamp is set in the call.
CallPaced(c, r) ==
    /\ ~InBurst(r)
    /\ Wait(r) = 0
    /\ FirePaced(c, r)
    /\ UNCHANGED <<now, burstUsed, asleep>>

\* Everything the wait depends on is read here; lastFiredAt is stamped on waking.
CallWaits(c, r) ==
    /\ ~InBurst(r)
    /\ Wait(r) > 0
    /\ asleep' = [asleep EXCEPT ![c] = [rule |-> r, until |-> now + Wait(r)]]
    /\ UNCHANGED <<now, lastFiredAt, burstUsed, passed, ownGap>>

\* gate(url), up to its await.  An unmatched url passes and leaves no trace.
Call(c, u) ==
    /\ asleep[c] = Awake
    /\ \E r \in Rules :
        /\ FirstMatch(u, r)
        /\ now + MinInterval[r] <= MaxTime
        /\ CallInBurst(c, r) \/ CallPaced(c, r) \/ CallWaits(c, r)

\* Mutant: a timer that is not looked at on the instant is missed.
WakeOnTheDot(c) ==
    /\ asleep[c] # Awake
    /\ now = asleep[c].until
    /\ FirePaced(c, asleep[c].rule)
    /\ asleep' = [asleep EXCEPT ![c] = Awake]
    /\ UNCHANGED <<now, burstUsed>>

\* setTimeout fires at its time or later.
Wake(c) ==
    /\ asleep[c] # Awake
    /\ now >= asleep[c].until
    /\ FirePaced(c, asleep[c].rule)
    /\ asleep' = [asleep EXCEPT ![c] = Awake]
    /\ UNCHANGED <<now, burstUsed>>

ClockTick ==
    /\ now < MaxTime
    /\ now' = now + 1
    /\ UNCHANGED <<lastFiredAt, burstUsed, asleep, passed, ownGap>>

Next ==
    \/ \E c \in Callers : Wake(c) \/ \E u \in Urls : Call(c, u)
    \/ ClockTick

Spec == Init /\ [][Next]_vars

\* Time passes and timers fire.
Fairness == WF_vars(ClockTick) /\ \A c \in Callers : WF_vars(Wake(c))

FairSpec == Spec /\ Fairness

-------------------------------------------------------------------------------
(* Properties.                                                                 *)

\* Every variable keeps its shape, and no burst token is taken twice.
TypeOK ==
    /\ now \in Nat
    /\ lastFiredAt \in [Rules -> Nat]
    /\ burstUsed \in [Rules -> Nat] /\ \A r \in Rules : burstUsed[r] <= Burst[r]
    /\ asleep \in [Callers -> [rule : Rules \cup {NoRule}, until : Nat]]
    /\ passed \in [Callers -> [Rules -> Nat]]
    /\ ownGap \in [Rules -> Nat]

\* throttle.ts:222-225: whatever the others do, one caller's consecutive requests
\* under a rule are minIntervalMs apart once the burst is spent.  So no more than
\* one request per caller goes out under a rule in any shorter window.
FloorPerCaller == \A r \in Rules : ownGap[r] >= MinInterval[r]

\* A request never sleeps longer than the floor of its rule: it waits out the
\* rest of one interval, not a queue.
OneIntervalAtMost ==
    \A c \in Callers : asleep[c] # Awake =>
        asleep[c].until <= now + MinInterval[asleep[c].rule]

\* Nobody is held in the gate for good.
EveryCallPasses == \A c \in Callers : asleep[c] # Awake ~> asleep[c] = Awake

-------------------------------------------------------------------------------
(* What the documentation says and the code does not keep; see the README.     *)

\* throttle.ts:110, 234-237: "Floor between consecutive matching requests", of
\* all clients together.
AggregateFloor ==
    [][\A c \in Callers, r \in Rules :
            passed'[c][r] # passed[c][r] /\ burstUsed' = burstUsed
                => now - lastFiredAt[r] >= MinInterval[r]]_vars
================================================================================
