--------------------------- MODULE Requests_proofs ---------------------------
(* Proofs about the gate, for every set of callers, every list of rules and    *)
(* every clock bound.                                                          *)
EXTENDS Throttle, WebRequests, TLAPS

\* Stamps are in the past, and no caller has passed a rule after its last stamp.
Stamps ==
    /\ now >= Epoch
    /\ \A r \in Rules : lastFiredAt[r] <= now
    /\ \A c \in Callers, r \in Rules : passed[c][r] <= lastFiredAt[r]

\* A sleeper wakes a floor after its own last request at the earliest: that
\* request is no later than the stamp the wait was computed from, and a sleeper
\* makes no request.
Sleepers ==
    \A c \in Callers : asleep[c] # Awake =>
        /\ asleep[c].rule \in Rules
        /\ asleep[c].until >= passed[c][asleep[c].rule] + MinInterval[asleep[c].rule]

IInv == TypeOK /\ Stamps /\ Sleepers /\ OneIntervalAtMost /\ FloorPerCaller

\* The time a gate waits, and when it does not.
LEMMA WaitFacts ==
    ASSUME TypeOK, Stamps, NEW r \in Rules
    PROVE  /\ Wait(r) \in Nat
           /\ Wait(r) <= MinInterval[r]
           /\ Wait(r) = 0 => now - lastFiredAt[r] >= MinInterval[r]
           /\ Wait(r) > 0 => now + Wait(r) = lastFiredAt[r] + MinInterval[r]
<1> MinInterval[r] \in Nat /\ now \in Nat /\ lastFiredAt[r] \in Nat
    BY RuleAssumption DEF TypeOK
<1> QED BY DEF Wait, Stamps

\* A paced request that goes out a floor after its caller's last one keeps the
\* stamps, the types and the floor of every caller.
LEMMA PacedKeeps ==
    ASSUME TypeOK, Stamps, FloorPerCaller,
           NEW c \in Callers, NEW r \in Rules,
           now >= passed[c][r] + MinInterval[r],
           FirePaced(c, r), now' = now
    PROVE  /\ lastFiredAt' \in [Rules -> Nat]
           /\ passed' \in [Callers -> [Rules -> Nat]]
           /\ ownGap' \in [Rules -> Nat]
           /\ Stamps'
           /\ FloorPerCaller'
           /\ \A d \in Callers \ {c} : passed'[d] = passed[d]
<1>1. /\ now \in Nat /\ Epoch \in Nat /\ \A q \in Rules : MinInterval[q] \in Nat
      /\ \A q \in Rules : lastFiredAt[q] \in Nat /\ ownGap[q] \in Nat
      /\ \A d \in Callers, q \in Rules : passed[d][q] \in Nat
    BY RuleAssumption, ClockAssumption DEF TypeOK
<1>2. /\ lastFiredAt' = [lastFiredAt EXCEPT ![r] = now]
      /\ passed' = [passed EXCEPT ![c][r] = now]
    BY DEF FirePaced, Fire
<1>3. /\ lastFiredAt' \in [Rules -> Nat]
      /\ passed' \in [Callers -> [Rules -> Nat]]
    BY <1>1, <1>2 DEF TypeOK
<1>4. \A q \in Rules : lastFiredAt'[q] = IF q = r THEN now ELSE lastFiredAt[q]
    BY <1>2 DEF TypeOK
<1>5. \A d \in Callers, q \in Rules :
        passed'[d][q] = IF d = c /\ q = r THEN now ELSE passed[d][q]
    BY <1>2 DEF TypeOK
<1>6. \A d \in Callers \ {c} : passed'[d] = passed[d]
    BY <1>2 DEF TypeOK
<1>7. Stamps'
    BY <1>1, <1>4, <1>5 DEF Stamps
<1> DEFINE gap == now - passed[c][r]
<1>8. gap \in Nat /\ gap >= MinInterval[r]
    BY <1>1
<1>9. ownGap' = [ownGap EXCEPT ![r] = IF gap < @ THEN gap ELSE @]
    BY DEF FirePaced, Gap
<1>10. ownGap' \in [Rules -> Nat]
    BY <1>8, <1>9 DEF TypeOK
<1>11. \A q \in Rules : ownGap'[q] = ownGap[q] \/ (q = r /\ ownGap'[q] = gap)
    BY <1>9 DEF TypeOK
<1>12. FloorPerCaller'
    BY <1>8, <1>11 DEF FloorPerCaller
<1> QED BY <1>3, <1>6, <1>7, <1>10, <1>12

LEMMA InitIInv == Init => IInv
<1> SUFFICES ASSUME Init PROVE IInv OBVIOUS
<1> USE RuleAssumption, ClockAssumption
<1>1. TypeOK BY DEF Init, TypeOK, Awake
<1>2. Stamps BY DEF Init, Stamps
<1>3. Sleepers /\ OneIntervalAtMost BY DEF Init, Sleepers, OneIntervalAtMost
<1>4. FloorPerCaller BY DEF Init, FloorPerCaller
<1> QED BY <1>1, <1>2, <1>3, <1>4 DEF IInv

LEMMA StepIInv == IInv /\ [Next]_vars => IInv'
<1> SUFFICES ASSUME IInv, [Next]_vars PROVE IInv' OBVIOUS
<1> USE DEF IInv
<1>1. /\ now \in Nat /\ Epoch \in Nat
      /\ \A q \in Rules : MinInterval[q] \in Nat /\ lastFiredAt[q] \in Nat
      /\ \A d \in Callers, q \in Rules : passed[d][q] \in Nat
      /\ \A d \in Callers : asleep[d].until \in Nat
    BY RuleAssumption, ClockAssumption DEF TypeOK
<1>2. ASSUME NEW c \in Callers, NEW r \in Rules, asleep[c] = Awake, CallInBurst(c, r)
      PROVE  IInv'
    <2>1. /\ burstUsed' = [burstUsed EXCEPT ![r] = @ + 1]
          /\ lastFiredAt' = [lastFiredAt EXCEPT ![r] = now]
          /\ passed' = [passed EXCEPT ![c][r] = now]
          /\ UNCHANGED <<now, asleep, ownGap>>
        BY <1>2 DEF CallInBurst, Fire
    <2>2. burstUsed[r] < Burst[r]
        BY <1>2 DEF CallInBurst, InBurst
    <2>3. burstUsed' \in [Rules -> Nat] /\ \A q \in Rules : burstUsed'[q] <= Burst[q]
      <3>1. burstUsed' \in [Rules -> Nat]
        BY <2>1 DEF TypeOK
      <3>2. \A q \in Rules : burstUsed'[q] = IF q = r THEN burstUsed[q] + 1 ELSE burstUsed[q]
        BY <2>1 DEF TypeOK
      <3>3. \A q \in Rules : burstUsed[q] \in Nat /\ Burst[q] \in Nat
        BY RuleAssumption DEF TypeOK
      <3>4. \A q \in Rules : burstUsed[q] <= Burst[q]
        BY DEF TypeOK
      <3> QED BY <2>2, <3>1, <3>2, <3>3, <3>4
    <2>4. TypeOK'
        BY <2>1, <2>3 DEF TypeOK
    <2>5. \A q \in Rules : lastFiredAt'[q] = IF q = r THEN now ELSE lastFiredAt[q]
        BY <2>1 DEF TypeOK
    <2>6. \A d \in Callers, q \in Rules :
            passed'[d][q] = IF d = c /\ q = r THEN now ELSE passed[d][q]
        BY <2>1 DEF TypeOK
    <2>7. Stamps'
        BY <1>1, <2>1, <2>5, <2>6 DEF Stamps
    <2>8. Sleepers'
        BY <1>2, <2>1, <2>6 DEF Sleepers
    <2>9. OneIntervalAtMost' /\ FloorPerCaller'
        BY <2>1 DEF OneIntervalAtMost, FloorPerCaller
    <2> QED BY <2>4, <2>7, <2>8, <2>9
<1>3. ASSUME NEW c \in Callers, NEW r \in Rules, asleep[c] = Awake, CallPaced(c, r)
      PROVE  IInv'
    <2>1. FirePaced(c, r) /\ UNCHANGED <<now, burstUsed, asleep>>
        BY <1>3 DEF CallPaced
    <2>2. now - lastFiredAt[r] >= MinInterval[r]
        BY <1>3, WaitFacts DEF CallPaced
    <2>3. now >= passed[c][r] + MinInterval[r]
        BY <1>1, <2>2 DEF Stamps
    <2>4. /\ lastFiredAt' \in [Rules -> Nat]
          /\ passed' \in [Callers -> [Rules -> Nat]]
          /\ ownGap' \in [Rules -> Nat]
          /\ Stamps' /\ FloorPerCaller'
          /\ \A d \in Callers \ {c} : passed'[d] = passed[d]
        BY <2>1, <2>3, PacedKeeps
    <2>5. TypeOK'
        BY <2>1, <2>4 DEF TypeOK
    <2>6. Sleepers'
        BY <1>3, <2>1, <2>4 DEF Sleepers
    <2>7. OneIntervalAtMost'
        BY <2>1 DEF OneIntervalAtMost
    <2> QED BY <2>4, <2>5, <2>6, <2>7
<1>4. ASSUME NEW c \in Callers, NEW r \in Rules, asleep[c] = Awake, CallWaits(c, r)
      PROVE  IInv'
    <2> DEFINE sleeper == [rule |-> r, until |-> now + Wait(r)]
    <2>1. /\ asleep' = [asleep EXCEPT ![c] = sleeper]
          /\ UNCHANGED <<now, lastFiredAt, burstUsed, passed, ownGap>>
        BY <1>4 DEF CallWaits
    <2>2. /\ Wait(r) \in Nat
          /\ Wait(r) <= MinInterval[r]
          /\ now + Wait(r) = lastFiredAt[r] + MinInterval[r]
        BY <1>4, WaitFacts DEF CallWaits
    <2>3. /\ sleeper \in [rule : Rules \cup {NoRule}, until : Nat]
          /\ sleeper.until >= passed[c][r] + MinInterval[r]
          /\ sleeper.until <= now + MinInterval[r]
        BY <1>1, <2>2 DEF Stamps
    <2>4. \A d \in Callers : asleep'[d] = IF d = c THEN sleeper ELSE asleep[d]
        BY <2>1 DEF TypeOK
    <2>5. TypeOK'
        BY <2>1, <2>3 DEF TypeOK
    <2>6. Sleepers' /\ OneIntervalAtMost'
        BY <2>1, <2>3, <2>4 DEF Sleepers, OneIntervalAtMost
    <2>7. Stamps' /\ FloorPerCaller'
        BY <2>1 DEF Stamps, FloorPerCaller
    <2> QED BY <2>5, <2>6, <2>7
<1>5. ASSUME NEW c \in Callers, NEW u \in Urls, Call(c, u)
      PROVE  IInv'
    BY <1>2, <1>3, <1>4, <1>5 DEF Call
<1>6. ASSUME NEW c \in Callers, Wake(c)
      PROVE  IInv'
    <2> DEFINE r == asleep[c].rule
    <2>1. /\ asleep[c] # Awake
          /\ now >= asleep[c].until
          /\ FirePaced(c, r)
          /\ asleep' = [asleep EXCEPT ![c] = Awake]
          /\ UNCHANGED <<now, burstUsed>>
        BY <1>6 DEF Wake
    <2>2. r \in Rules /\ asleep[c].until >= passed[c][r] + MinInterval[r]
        BY <2>1 DEF Sleepers
    <2>3. now >= passed[c][r] + MinInterval[r]
        BY <1>1, <2>1, <2>2
    <2>4. /\ lastFiredAt' \in [Rules -> Nat]
          /\ passed' \in [Callers -> [Rules -> Nat]]
          /\ ownGap' \in [Rules -> Nat]
          /\ Stamps' /\ FloorPerCaller'
          /\ \A d \in Callers \ {c} : passed'[d] = passed[d]
        BY <2>1, <2>2, <2>3, PacedKeeps
    <2>5. \A d \in Callers : asleep'[d] = IF d = c THEN Awake ELSE asleep[d]
        BY <2>1 DEF TypeOK
    <2>6. TypeOK'
        BY <2>1, <2>4 DEF TypeOK, Awake
    <2>7. Sleepers' /\ OneIntervalAtMost'
        BY <2>1, <2>4, <2>5 DEF Sleepers, OneIntervalAtMost
    <2> QED BY <2>4, <2>6, <2>7
<1>7. ASSUME ClockTick PROVE IInv'
    <2>1. now' = now + 1 /\ UNCHANGED <<lastFiredAt, burstUsed, asleep, passed, ownGap>>
        BY <1>7 DEF ClockTick
    <2>2. TypeOK' BY <2>1 DEF TypeOK
    <2>3. Stamps' BY <1>1, <2>1 DEF Stamps
    <2>4. Sleepers' /\ FloorPerCaller' BY <2>1 DEF Sleepers, FloorPerCaller
    <2>5. OneIntervalAtMost' BY <1>1, <2>1 DEF OneIntervalAtMost, Sleepers
    <2> QED BY <2>2, <2>3, <2>4, <2>5
<1>8. ASSUME UNCHANGED vars PROVE IInv'
    BY <1>8 DEF vars, TypeOK, Stamps, Sleepers, OneIntervalAtMost, FloorPerCaller
<1> QED BY <1>5, <1>6, <1>7, <1>8 DEF Next

\* The invariant the theorems below read their property from.
LEMMA Inductive == Spec => []IInv
BY InitIInv, StepIInv, PTL DEF Spec

\* createThrottle's state keeps its shape and no burst token is taken twice.
THEOREM TypeCorrect == Spec => []TypeOK
<1>1. IInv => TypeOK BY DEF IInv
<1> QED BY <1>1, Inductive, PTL

\* However many requests share the gate and however late a timer fires, one
\* caller's own paced requests under a rule are minIntervalMs apart.
THEOREM CallerIsPaced == Spec => []FloorPerCaller
<1>1. IInv => FloorPerCaller BY DEF IInv
<1> QED BY <1>1, Inductive, PTL

\* A request sleeps out at most one interval of its rule, whoever else waits.
THEOREM WaitIsBounded == Spec => []OneIntervalAtMost
<1>1. IInv => OneIntervalAtMost BY DEF IInv
<1> QED BY <1>1, Inductive, PTL

-----------------------------------------------------------------------------
(* The shape of the state, with every field of a call and of an object.    *)
CallRecord ==
    [at : Waiting \cup Settled, attach : BOOLEAN, absorb : BOOLEAN, signal : BOOLEAN,
     carries : Jar, knew : Jar, sets : SUBSET Cookies, wrote : 0 .. MaxWrites,
     size : 0 .. MaxChunks, chunks : Seq(Nat)]

ReadyStates == 0 .. 4
FinalEvents == {"abort", "error", "load"}

ObjectRecord ==
    [readyState : ReadyStates, aborted : BOOLEAN, moz : BOOLEAN, response : Seq(Nat),
     shown : Seq(Nat), size : 0 .. MaxChunks, ends : Seq(FinalEvents)]

WebShape ==
    /\ jar \in Jar /\ stored \in Jar /\ seen \in Jar
    /\ writes \in 0 .. MaxWrites /\ made \in 0 .. MaxCalls
    /\ byHost \subseteq 1 .. MaxWrites
    /\ objects \in [Xhrs -> ObjectRecord]
    /\ calls \in [Calls -> CallRecord]

\* How far the owner of an object has seen the body its call receives.
Follows(o, k) ==
    /\ k.chunks = [n \in 1 .. Len(k.chunks) |-> n]
    /\ k.at \in {"gate", "sent", "answered", "reading", "eof"} => o.shown = k.chunks
    /\ k.at = "chunk" => k.chunks = Append(o.shown, Len(o.shown) + 1)
    /\ k.at \in {"reading", "chunk", "eof", "broken"} => o.size = k.size
    /\ k.at = "eof" => Len(k.chunks) = k.size

\* A `load` is the last thing a call does, and what it comes with.
Loaded(o, k) ==
    \A i \in DOMAIN o.ends : o.ends[i] = "load" =>
        /\ k.at \notin Waiting
        /\ o.shown = [n \in 1 .. o.size |-> n]
        /\ ~o.moz => o.response = o.shown

ObjectsFollow ==
    \A x \in Xhrs : Follows(objects[x], calls[x]) /\ Loaded(objects[x], calls[x])

WebInv == WebShape /\ ObjectsFollow

LEMMA EmptyIsJar == Empty \in Jar
BY RequestAssumption DEF Empty, Jar

LEMMA NoCallRecord ==
    /\ NoCall \in CallRecord
    /\ NoCall.at = "idle" /\ NoCall.chunks = <<>> /\ NoCall.sets = {} /\ NoCall.wrote = 0
    /\ NoCall.attach = FALSE /\ NoCall.knew = Empty
BY EmptyIsJar, RequestAssumption DEF NoCall, CallRecord, Waiting, Settled

LEMMA ReadyStateNumbers == {0, 1, 2, 3, 4} \subseteq ReadyStates
BY DEF ReadyStates

LEMMA NoObjectRecord ==
    /\ NoObject \in ObjectRecord
    /\ NoObject.shown = <<>> /\ NoObject.ends = <<>>
BY RequestAssumption, ReadyStateNumbers DEF NoObject, ObjectRecord

LEMMA FreshFollows ==
    /\ Follows(NoObject, NoCall) /\ Loaded(NoObject, NoCall)
BY DEF Follows, Loaded, NoObject, NoCall

LEMMA InitWebInv == WebInit => WebInv
BY EmptyIsJar, NoCallRecord, NoObjectRecord, FreshFollows, RequestAssumption
   DEF WebInit, WebInv, WebShape, ObjectsFollow, Calls, Shimmed

(* A step of one call that leaves its object alone, or changes it with it. *)
LEMMA OneCall ==
    ASSUME WebInv, NEW r \in Calls, NEW k \in CallRecord, calls' = [calls EXCEPT ![r] = k],
           NEW o \in ObjectRecord,
           \/ r \in Xhrs /\ objects' = [objects EXCEPT ![r] = o] /\ Follows(o, k) /\ Loaded(o, k)
           \/ r \notin Xhrs /\ objects' = objects
    PROVE  calls' \in [Calls -> CallRecord] /\ objects' \in [Xhrs -> ObjectRecord] /\ ObjectsFollow'
<1>1. calls' \in [Calls -> CallRecord] /\ objects' \in [Xhrs -> ObjectRecord]
    BY DEF WebInv, WebShape
<1>2. ASSUME NEW x \in Xhrs
      PROVE  Follows(objects'[x], calls'[x]) /\ Loaded(objects'[x], calls'[x])
  <2>1. x \in Calls
      BY DEF Calls, Shimmed
  <2>2. CASE x = r
    <3>1. objects'[x] = o /\ calls'[x] = k
        BY <2>1, <2>2 DEF WebInv, WebShape
    <3> QED BY <2>2, <3>1
  <2>3. CASE x # r
    <3>1. objects'[x] = objects[x] /\ calls'[x] = calls[x]
        BY <2>1, <2>3 DEF WebInv, WebShape
    <3> QED BY <3>1 DEF WebInv, ObjectsFollow
  <2> QED BY <2>2, <2>3
<1> QED BY <1>1, <1>2 DEF ObjectsFollow

LEMMA LandWrites ==
    ASSUME WebShape, NEW cs \in SUBSET Cookies, Land(cs)
    PROVE  /\ writes' = writes + 1 /\ writes' \in 0 .. MaxWrites /\ writes' \in 1 .. MaxWrites
           /\ jar' \in Jar
           /\ \A c \in Cookies : jar'[c] = IF c \in cs THEN writes' ELSE jar[c]
<1>1. writes' = writes + 1 /\ writes' \in 0 .. MaxWrites /\ writes' \in 1 .. MaxWrites
    BY RequestAssumption DEF WebShape, Land
<1>2. jar' = [c \in Cookies |-> IF c \in cs THEN writes' ELSE jar[c]]
    BY <1>1 DEF Land
<1> QED BY <1>1, <1>2 DEF WebShape, Jar

LEMMA AbsorbShape ==
    ASSUME WebShape, NEW r, NEW ok \in SUBSET Cookies, Absorb(r, ok)
    PROVE  jar' \in Jar /\ stored' \in Jar /\ writes' \in 0 .. MaxWrites /\ byHost' = byHost
BY LandWrites DEF Absorb, PersistJar, WebShape

LEMMA ShowsShape ==
    ASSUME WebShape, NEW ok, NEW n \in 0 .. MaxWrites, Shows(ok, n)
    PROVE  seen' \in Jar
BY RequestAssumption DEF Shows, Later, WebShape, Jar

(* What the network does to a call.                                        *)
LEMMA NetWebInv ==
    ASSUME WebInv, NEW r \in Calls, NetStep(r) \/ GateOpens(r) \/ StreamStep(r)
    PROVE  WebInv'
<1> DEFINE k == calls[r]
<1>1. k \in CallRecord /\ UNCHANGED <<JarSide, objects, made, seen>>
    BY DEF WebInv, WebShape, NetStep, StreamStep, Answers, Fails, GateOpens, ChunkArrives,
           BodyEnds, BodyBreaks, JarSide
<1>2. ASSUME NEW k2 \in CallRecord, calls' = [calls EXCEPT ![r] = k2],
             r \in Xhrs => Follows(objects[r], k2) /\ Loaded(objects[r], k2)
      PROVE  WebInv'
  <2>1. CASE r \in Xhrs
    <3>1. objects[r] \in ObjectRecord /\ objects' = [objects EXCEPT ![r] = objects[r]]
        BY <1>1, <2>1 DEF WebInv, WebShape
    <3>2. calls' \in [Calls -> CallRecord] /\ objects' \in [Xhrs -> ObjectRecord] /\ ObjectsFollow'
        BY <1>2, <2>1, <3>1, OneCall
    <3> QED BY <1>1, <3>2 DEF WebInv, WebShape, JarSide
  <2>2. CASE r \notin Xhrs
    <3>1. calls' \in [Calls -> CallRecord] /\ objects' \in [Xhrs -> ObjectRecord] /\ ObjectsFollow'
        BY <1>1, <1>2, <2>2, NoObjectRecord, OneCall
    <3> QED BY <1>1, <3>1 DEF WebInv, WebShape, JarSide
  <2> QED BY <2>1, <2>2
<1>3. r \in Xhrs => Follows(objects[r], k) /\ Loaded(objects[r], k) /\ objects[r] \in ObjectRecord
    BY DEF WebInv, WebShape, ObjectsFollow
<1>4. CASE Answers(r)
  <2>1. PICK sets \in SUBSET Cookies, n \in 0 .. MaxChunks :
          calls' = [calls EXCEPT ![r].at = "answered", ![r].sets = sets, ![r].size = n]
      BY <1>4 DEF Answers
  <2> DEFINE k2 == [k EXCEPT !.at = "answered", !.sets = sets, !.size = n]
  <2>2. calls' = [calls EXCEPT ![r] = k2] /\ k2 \in CallRecord /\ k2.at = "answered"
        /\ k2.chunks = k.chunks
      BY <1>1, <2>1 DEF CallRecord, WebInv, WebShape, Waiting
  <2>3. k.at = "sent"
      BY <1>4 DEF Answers
  <2> HIDE DEF k2
  <2>4. r \in Xhrs => Follows(objects[r], k2) /\ Loaded(objects[r], k2)
      BY <1>3, <2>2, <2>3 DEF Follows, Loaded, Waiting
  <2> QED BY <1>2, <2>2, <2>4
<1>5. CASE Fails(r)
  <2> DEFINE k2 == [k EXCEPT !.at = "failed"]
  <2>1. calls' = [calls EXCEPT ![r] = k2] /\ k2 \in CallRecord /\ k2.at = "failed"
        /\ k2.chunks = k.chunks
      BY <1>1, <1>5 DEF Fails, CallRecord, WebInv, WebShape, Waiting
  <2>2. k.at = "sent"
      BY <1>5 DEF Fails
  <2> HIDE DEF k2
  <2>3. r \in Xhrs => Follows(objects[r], k2) /\ Loaded(objects[r], k2)
      BY <1>3, <2>1, <2>2 DEF Follows, Loaded, Waiting
  <2> QED BY <1>2, <2>1, <2>3
<1>6. CASE GateOpens(r)
  <2> DEFINE k2 == [k EXCEPT !.at = IF calls[r].signal THEN "failed" ELSE "sent",
                             !.attach = FALSE, !.carries = Empty, !.knew = Empty]
  <2>1. calls' = [calls EXCEPT ![r] = k2] /\ k2 \in CallRecord /\ k2.at \in {"failed", "sent"}
        /\ k2.chunks = k.chunks
      BY <1>1, <1>6, EmptyIsJar DEF GateOpens, CallRecord, WebInv, WebShape, Waiting
  <2>2. k.at = "gate"
      BY <1>6 DEF GateOpens
  <2> HIDE DEF k2
  <2>3. r \in Xhrs => Follows(objects[r], k2) /\ Loaded(objects[r], k2)
      BY <1>3, <2>1, <2>2 DEF Follows, Loaded, Waiting
  <2> QED BY <1>2, <2>1, <2>3
<1>7. CASE ChunkArrives(r)
  <2> DEFINE k2 == [k EXCEPT !.at = "chunk", !.chunks = Append(@, Len(@) + 1)]
  <2>1. k.chunks \in Seq(Nat) /\ Len(k.chunks) \in Nat
      BY <1>1 DEF CallRecord
  <2>2. calls' = [calls EXCEPT ![r] = k2] /\ k2 \in CallRecord /\ k2.at = "chunk"
        /\ k2.chunks = Append(k.chunks, Len(k.chunks) + 1) /\ k2.size = k.size
    <3>1. Append(k.chunks, Len(k.chunks) + 1) \in Seq(Nat)
        BY <2>1
    <3>2. calls' = [calls EXCEPT ![r] = k2]
        BY <1>1, <1>7 DEF ChunkArrives, WebInv, WebShape
    <3> QED BY <1>1, <3>1, <3>2 DEF CallRecord, Waiting
  <2>3. k.at = "reading"
      BY <1>7 DEF ChunkArrives, Flows
  <2>4. ASSUME k.chunks = [n \in 1 .. Len(k.chunks) |-> n]
        PROVE  k2.chunks = [n \in 1 .. Len(k2.chunks) |-> n]
    <3> HIDE DEF k2
    <3>1. Len(k2.chunks) = Len(k.chunks) + 1 /\ k2.chunks \in Seq(Nat)
        BY <2>1, <2>2
    <3> DEFINE c == k2.chunks
    <3>2. \A n \in 1 .. Len(k2.chunks) : k2.chunks[n] = n
      <4> SUFFICES ASSUME NEW n \in 1 .. Len(k2.chunks) PROVE k2.chunks[n] = n
          OBVIOUS
      <4>1. CASE n = Len(k.chunks) + 1
          BY <2>1, <2>2, <4>1
      <4>2. CASE n # Len(k.chunks) + 1
        <5>1. n \in 1 .. Len(k.chunks)
            BY <2>1, <3>1, <4>2
        <5>2. k2.chunks[n] = k.chunks[n]
            BY <2>1, <2>2, <5>1
        <5>3. k.chunks[n] = n
            BY <2>4, <5>1
        <5> QED BY <5>2, <5>3
      <4> QED BY <4>1, <4>2
    <3>3. c \in Seq(Nat) /\ \A n \in 1 .. Len(c) : c[n] = n
        BY <3>1, <3>2
    <3> HIDE DEF c
    <3>4. c = [n \in 1 .. Len(c) |-> n]
        BY <3>3
    <3> QED BY <3>4 DEF c
  <2> HIDE DEF k2
  <2>5. r \in Xhrs => Follows(objects[r], k2) /\ Loaded(objects[r], k2)
      BY <1>3, <2>2, <2>3, <2>4 DEF Follows, Loaded, Waiting
  <2> QED BY <1>2, <2>2, <2>5
<1>8. CASE BodyEnds(r) \/ BodyBreaks(r)
  <2> DEFINE to == calls'[r].at
  <2> DEFINE k2 == [k EXCEPT !.at = to]
  <2>1. calls' = [calls EXCEPT ![r] = k2] /\ k2 \in CallRecord /\ k2.at \in {"eof", "broken"}
        /\ k2.chunks = k.chunks /\ k2.size = k.size
        /\ (k2.at = "eof" => Len(k.chunks) = k.size)
      BY <1>1, <1>8, ZenonT(60) DEF BodyEnds, BodyBreaks, Flows, CallRecord, WebInv, WebShape, Waiting
  <2>2. k.at = "reading"
      BY <1>8 DEF BodyEnds, BodyBreaks, Flows
  <2> HIDE DEF k2
  <2>3. r \in Xhrs => Follows(objects[r], k2)
      BY <1>3, <2>1, <2>2 DEF Follows
  <2>4. r \in Xhrs => Loaded(objects[r], k2)
      BY <1>3, <2>1, <2>2 DEF Loaded, Waiting
  <2> QED BY <1>2, <2>1, <2>3, <2>4
<1> QED BY <1>4, <1>5, <1>6, <1>7, <1>8 DEF NetStep, StreamStep

LEMMA OverRecord ==
    Over \in CallRecord /\ Over.at = "over" /\ Over.chunks = <<>> /\ Over.attach = FALSE
    /\ Over.knew = Empty /\ Over.sets = {} /\ Over.wrote = 0
BY NoCallRecord DEF Over, CallRecord, Settled

\* A call that is over asks nothing of its object but what a `load` came with.
LEMMA OverFollows ==
    ASSUME NEW o, \A i \in DOMAIN o.ends : o.ends[i] = "load" =>
                    /\ o.shown = [n \in 1 .. o.size |-> n]
                    /\ ~o.moz => o.response = o.shown
    PROVE  Follows(o, Over) /\ Loaded(o, Over)
BY DEF Follows, Loaded, Over, NoCall, Waiting

(* One turn of an XMLHttpRequest: what is left to show of each.            *)
LEMMA XhrTurn ==
    ASSUME WebInv, NEW x \in Xhrs, NEW k \in CallRecord, NEW o \in ObjectRecord,
           calls' = [calls EXCEPT ![x] = k], objects' = [objects EXCEPT ![x] = o],
           Follows(o, k), Loaded(o, k), made' \in 0 .. MaxCalls,
           jar' \in Jar, stored' \in Jar, seen' \in Jar, writes' \in 0 .. MaxWrites,
           byHost' = byHost
    PROVE  WebInv'
<1>1. x \in Calls
    BY DEF Calls, Shimmed
<1>2. calls' \in [Calls -> CallRecord] /\ objects' \in [Xhrs -> ObjectRecord] /\ ObjectsFollow'
    BY <1>1, OneCall
<1> QED BY <1>2 DEF WebInv, WebShape

LEMMA XhrOwnerWebInv ==
    ASSUME WebInv, NEW x \in Xhrs,
           XhrAbort(x) \/ \E moz, withCredentials \in BOOLEAN : XhrSend(x, moz, withCredentials)
    PROVE  WebInv'
<1> DEFINE k == calls[x]
           o == objects[x]
<1>1. x \in Calls /\ k \in CallRecord /\ o \in ObjectRecord /\ Follows(o, k) /\ Loaded(o, k)
    BY DEF Calls, Shimmed, WebInv, WebShape, ObjectsFollow
<1>2. CASE XhrAbort(x)
  <2> DEFINE k2 == [k EXCEPT !.signal = k.at \notin Settled]
             o2 == [o EXCEPT !.aborted = TRUE, !.readyState = 4, !.ends = Append(@, "abort")]
  <2>1. calls' = [calls EXCEPT ![x] = k2] /\ objects' = [objects EXCEPT ![x] = o2]
      BY <1>2, <1>1 DEF XhrAbort, WebInv, WebShape
  <2>2. /\ k2 \in CallRecord /\ o2 \in ObjectRecord
        /\ k2.at = k.at /\ k2.chunks = k.chunks /\ k2.size = k.size
        /\ o2.shown = o.shown /\ o2.size = o.size /\ o2.moz = o.moz
        /\ o2.response = o.response /\ o2.ends = Append(o.ends, "abort")
    <3>1. o.ends \in Seq(FinalEvents)
        BY <1>1 DEF ObjectRecord
    <3>2. Append(o.ends, "abort") \in Seq(FinalEvents)
        BY <3>1 DEF FinalEvents
    <3>3. o2 \in ObjectRecord
        BY <1>1, <3>2, ReadyStateNumbers DEF ObjectRecord
    <3>4. k2 \in CallRecord
        BY <1>1 DEF CallRecord
    <3> QED BY <1>1, <3>3, <3>4 DEF CallRecord, ObjectRecord
  <2> HIDE DEF k2, o2
  <2>3. Follows(o2, k2)
      BY <1>1, <2>2 DEF Follows
  <2>4. ASSUME NEW i \in DOMAIN o2.ends, o2.ends[i] = "load"
        PROVE  i \in DOMAIN o.ends /\ o.ends[i] = "load"
      BY <1>1, <2>2, <2>4 DEF ObjectRecord
  <2>5. Loaded(o2, k2)
      BY <1>1, <2>2, <2>4 DEF Loaded
  <2>6. UNCHANGED <<jar, stored, writes, byHost, made, seen>>
      BY <1>2 DEF XhrAbort, JarSide
  <2> QED BY <2>1, <2>2, <2>3, <2>5, <2>6, XhrTurn DEF WebInv, WebShape
<1>3. ASSUME NEW moz \in BOOLEAN, NEW withCredentials \in BOOLEAN,
             XhrSend(x, moz, withCredentials)
      PROVE  WebInv'
  <2> DEFINE k2 == [NoCall EXCEPT !.at = "gate", !.attach = withCredentials,
                     !.absorb = withCredentials, !.carries = CookieHeader(withCredentials),
                     !.knew = seen]
             o2 == [NoObject EXCEPT !.readyState = 1, !.moz = moz]
  <2>1. calls' = [calls EXCEPT ![x] = k2] /\ objects' = [objects EXCEPT ![x] = o2]
      BY <1>3 DEF XhrSend, NewCall
  <2>2. k2 \in CallRecord /\ k2.at = "gate" /\ k2.chunks = <<>>
    <3>1. CookieHeader(withCredentials) \in Jar /\ seen \in Jar
        BY EmptyIsJar DEF CookieHeader, WebInv, WebShape
    <3> QED BY <3>1, NoCallRecord DEF CallRecord, Waiting
  <2>3. o2 \in ObjectRecord /\ o2.shown = <<>> /\ o2.ends = <<>>
      BY NoObjectRecord, ReadyStateNumbers DEF ObjectRecord
  <2> HIDE DEF k2, o2
  <2>4. Follows(o2, k2) /\ Loaded(o2, k2)
      BY <2>2, <2>3 DEF Follows, Loaded
  <2>5. made' \in 0 .. MaxCalls /\ UNCHANGED <<jar, stored, writes, byHost, seen>>
    <3>1. made < MaxCalls /\ made' = made + 1
        BY <1>3 DEF XhrSend, NewCall
    <3>2. UNCHANGED <<jar, stored, writes, byHost, seen>>
        BY <1>3 DEF XhrSend, JarSide
    <3> QED BY <3>1, <3>2, RequestAssumption DEF WebInv, WebShape
  <2> QED BY <2>1, <2>2, <2>3, <2>4, <2>5, XhrTurn DEF WebInv, WebShape
<1> QED BY <1>2, <1>3

LEMMA XhrWebInv ==
    ASSUME WebInv, NEW x \in Xhrs, XhrStep(x)
    PROVE  WebInv'
<1> DEFINE k == calls[x]
           o == objects[x]
<1>1. x \in Calls /\ k \in CallRecord /\ o \in ObjectRecord /\ Follows(o, k) /\ Loaded(o, k)
    BY DEF Calls, Shimmed, WebInv, WebShape, ObjectsFollow
<1>2. CASE XhrReturns(x)
  <2>1. Follows(o, Over) /\ Loaded(o, Over)
      BY <1>1, OverFollows DEF Loaded
  <2>2. calls' = [calls EXCEPT ![x] = Over] /\ objects' = [objects EXCEPT ![x] = o]
        /\ UNCHANGED <<jar, stored, writes, byHost, made, seen>>
      BY <1>1, <1>2 DEF XhrReturns, JarSide, WebInv, WebShape
  <2> QED BY <1>1, <2>1, <2>2, OverRecord, XhrTurn DEF WebInv, WebShape
<1>3. CASE XhrFails(x)
  <2> DEFINE o2 == [o EXCEPT !.readyState = 4, !.ends = Append(@, "error")]
  <2>1. calls' = [calls EXCEPT ![x] = Over] /\ objects' = [objects EXCEPT ![x] = o2]
        /\ UNCHANGED <<jar, stored, writes, byHost, made, seen>>
      BY <1>1, <1>3 DEF XhrFails, XhrEnd, JarSide, WebInv, WebShape
  <2>2. o2 \in ObjectRecord /\ o2.ends = Append(o.ends, "error") /\ o2.shown = o.shown
        /\ o2.size = o.size /\ o2.moz = o.moz /\ o2.response = o.response
    <3>1. o.ends \in Seq(FinalEvents)
        BY <1>1 DEF ObjectRecord
    <3>2. Append(o.ends, "error") \in Seq(FinalEvents)
        BY <3>1 DEF FinalEvents
    <3>3. o2 \in ObjectRecord
        BY <1>1, <3>2, ReadyStateNumbers DEF ObjectRecord
    <3> QED BY <1>1, <3>3 DEF ObjectRecord
  <2>3. k.at \in Waiting
      BY <1>3 DEF XhrFails, Waiting
  <2> HIDE DEF o2
  <2>4. ASSUME NEW i \in DOMAIN o2.ends PROVE o2.ends[i] # "load"
    <3>1. \A j \in DOMAIN o.ends : o.ends[j] # "load"
        BY <1>1, <2>3 DEF Loaded
    <3> QED BY <1>1, <2>2, <3>1 DEF ObjectRecord
  <2>5. Follows(o2, Over) /\ Loaded(o2, Over)
      BY <2>4, OverFollows
  <2> QED BY <2>1, <2>2, <2>5, OverRecord, XhrTurn DEF WebInv, WebShape
<1>4. CASE XhrOnResponse(x)
  <2> DEFINE k2 == [k EXCEPT !.at = "reading"]
             o2 == [o EXCEPT !.readyState = 2, !.size = k.size]
  <2>1. PICK ok \in SUBSET k.sets : Absorb(x, ok) /\ Shows(Taken(x, ok), writes')
      BY <1>4 DEF XhrOnResponse
  <2>2. jar' \in Jar /\ stored' \in Jar /\ writes' \in 0 .. MaxWrites /\ byHost' = byHost
      BY <1>1, <2>1, AbsorbShape DEF WebInv, CallRecord
  <2>3. seen' \in Jar
      BY <2>1, <2>2, ShowsShape DEF WebInv
  <2>4. calls' = [calls EXCEPT ![x] = k2] /\ objects' = [objects EXCEPT ![x] = o2]
        /\ made' = made /\ k.at = "answered"
      BY <1>1, <1>4 DEF XhrOnResponse, WebInv, WebShape
  <2>5. /\ k2 \in CallRecord /\ o2 \in ObjectRecord
        /\ k2.at = "reading" /\ k2.chunks = k.chunks /\ k2.size = k.size
        /\ o2.size = k.size /\ o2.ends = o.ends /\ o2.shown = o.shown
    <3>1. k2 \in CallRecord /\ k2.at = "reading" /\ k2.chunks = k.chunks /\ k2.size = k.size
        BY <1>1 DEF CallRecord, Waiting
    <3>2. k.size \in 0 .. MaxChunks
        BY <1>1 DEF CallRecord
    <3> QED BY <1>1, <3>1, <3>2, ReadyStateNumbers DEF ObjectRecord
  <2> HIDE DEF k2, o2
  <2>6. Follows(o2, k2)
      BY <1>1, <2>4, <2>5 DEF Follows
  <2>7. Loaded(o2, k2)
      BY <1>1, <2>4, <2>5 DEF Loaded, Waiting
  <2> QED BY <2>2, <2>3, <2>4, <2>5, <2>6, <2>7, XhrTurn DEF WebInv, WebShape
<1>5. CASE XhrOnChunk(x)
  <2> DEFINE latest == <<Len(k.chunks)>>
             k2 == [k EXCEPT !.at = "reading"]
             o2 == [o EXCEPT !.readyState = 3, !.shown = @ \o latest,
                             !.response = IF o.moz THEN latest ELSE @]
  <2>1. /\ calls' = [calls EXCEPT ![x] = k2] /\ objects' = [objects EXCEPT ![x] = o2]
        /\ UNCHANGED <<jar, stored, writes, byHost, made, seen>> /\ k.at = "chunk"
      BY <1>1, <1>5 DEF XhrOnChunk, JarSide, WebInv, WebShape
  <2>2. Len(k.chunks) \in Nat /\ latest \in Seq(Nat) /\ o.shown \in Seq(Nat)
      BY <1>1 DEF CallRecord, ObjectRecord
  <2>3. /\ k2 \in CallRecord /\ k2.at = "reading" /\ k2.chunks = k.chunks /\ k2.size = k.size
      BY <1>1 DEF CallRecord, Waiting
  <2>4. o.shown \o latest \in Seq(Nat)
      BY <2>2
  <2>5. o2 \in ObjectRecord /\ o2.size = o.size /\ o2.ends = o.ends /\ o2.shown = o.shown \o latest
    <3>1. o.response \in Seq(Nat) /\ (IF o.moz THEN latest ELSE o.response) \in Seq(Nat)
        BY <1>1, <2>2 DEF ObjectRecord
    <3> HIDE DEF latest
    <3> QED BY <1>1, <2>4, <3>1, ReadyStateNumbers DEF ObjectRecord
  <2>6. k.chunks = Append(o.shown, Len(o.shown) + 1)
      BY <1>1, <2>1 DEF Follows
  <2>7. o.shown \o latest = k.chunks
    <3>1. Len(k.chunks) = Len(o.shown) + 1
        BY <2>2, <2>6
    <3>2. o.shown \o <<Len(o.shown) + 1>> = Append(o.shown, Len(o.shown) + 1)
        BY <2>2
    <3> QED BY <2>6, <3>1, <3>2
  <2> HIDE DEF k2, o2, latest
  <2>8. Follows(o2, k2)
      BY <1>1, <2>1, <2>3, <2>5, <2>7 DEF Follows
  <2>9. Loaded(o2, k2)
      BY <1>1, <2>1, <2>3, <2>5 DEF Loaded, Waiting
  <2> QED BY <2>1, <2>3, <2>5, <2>8, <2>9, XhrTurn DEF WebInv, WebShape
<1>6. CASE XhrOnEnd(x)
  <2> DEFINE o2 == [o EXCEPT !.readyState = 4, !.ends = Append(@, "load"),
                             !.response = IF o.moz THEN @ ELSE k.chunks]
  <2>1. /\ calls' = [calls EXCEPT ![x] = Over] /\ objects' = [objects EXCEPT ![x] = o2]
        /\ UNCHANGED <<jar, stored, writes, byHost, made, seen>> /\ k.at = "eof"
      BY <1>1, <1>6 DEF XhrOnEnd, JarSide, WebInv, WebShape
  <2>2. o2 \in ObjectRecord /\ o2.shown = o.shown /\ o2.size = o.size /\ o2.moz = o.moz
        /\ (~o.moz => o2.response = k.chunks)
    <3>1. Append(o.ends, "load") \in Seq(FinalEvents)
      <4>1. o.ends \in Seq(FinalEvents)
          BY <1>1 DEF ObjectRecord
      <4> QED BY <4>1 DEF FinalEvents
    <3>2. (IF o.moz THEN o.response ELSE k.chunks) \in Seq(Nat)
        BY <1>1 DEF ObjectRecord, CallRecord
    <3> QED BY <1>1, <3>1, <3>2, ReadyStateNumbers DEF ObjectRecord
  <2>3. o.shown = k.chunks /\ o.size = Len(k.chunks) /\ k.chunks = [n \in 1 .. Len(k.chunks) |-> n]
      BY <1>1, <2>1 DEF Follows
  <2> HIDE DEF o2
  <2>4. o2.shown = [n \in 1 .. o2.size |-> n] /\ (~o2.moz => o2.response = o2.shown)
      BY <2>2, <2>3
  <2>5. Follows(o2, Over) /\ Loaded(o2, Over)
      BY <2>4, OverFollows
  <2> QED BY <2>1, <2>2, <2>5, OverRecord, XhrTurn DEF WebInv, WebShape
<1> QED BY <1>2, <1>3, <1>4, <1>5, <1>6 DEF XhrStep

(* One turn of a fetch or of a host's call.                                *)
LEMMA PlainTurn ==
    ASSUME WebInv, NEW r \in Fetches \cup Hosts, calls' \in [Calls -> CallRecord],
           \A q \in Calls \ {r} : calls'[q] = calls[q], objects' = objects,
           made' \in 0 .. MaxCalls, jar' \in Jar, stored' \in Jar, seen' \in Jar,
           writes' \in 0 .. MaxWrites, byHost' \subseteq 1 .. MaxWrites
    PROVE  WebInv'
<1>1. \A x \in Xhrs : x # r /\ x \in Calls
    BY RequestAssumption DEF Calls, Shimmed
<1>2. ObjectsFollow'
    BY <1>1 DEF WebInv, ObjectsFollow
<1> QED BY <1>2 DEF WebInv, WebShape

LEMMA FetchWebInv ==
    ASSUME WebInv, NEW f \in Fetches, FetchStart(f) \/ FetchAbort(f) \/ FetchStep(f)
    PROVE  WebInv'
<1> DEFINE k == calls[f]
<1>1. f \in Calls /\ f \in Fetches \cup Hosts /\ k \in CallRecord
    BY DEF Calls, Shimmed, WebInv, WebShape
<1>2. objects' = objects /\ byHost' \subseteq 1 .. MaxWrites
    BY DEF FetchStart, FetchAbort, FetchStep, FetchUnpacked, FetchRejects, FetchOnResponse,
           FetchOnChunk, FetchResolves, JarSide, WebInv, WebShape, Absorb
<1>3. CASE FetchStart(f)
  <2>1. /\ calls' = [calls EXCEPT ![f] = [NoCall EXCEPT !.at = "unpack", !.knew = seen]]
        /\ made' \in 0 .. MaxCalls /\ UNCHANGED <<jar, stored, writes, byHost, seen>>
      BY <1>3, RequestAssumption DEF FetchStart, JarSide, WebInv, WebShape
  <2>2. [NoCall EXCEPT !.at = "unpack", !.knew = seen] \in CallRecord
      BY NoCallRecord DEF CallRecord, WebInv, WebShape, Waiting
  <2> QED BY <1>1, <1>2, <2>1, <2>2, PlainTurn DEF WebInv, WebShape
<1>4. CASE FetchAbort(f) \/ FetchOnChunk(f) \/ FetchRejects(f)
  <2>1. UNCHANGED <<jar, stored, writes, byHost, made, seen>>
      BY <1>4 DEF FetchAbort, FetchOnChunk, FetchRejects, JarSide
  <2>2. calls' \in [Calls -> CallRecord] /\ \A q \in Calls \ {f} : calls'[q] = calls[q]
    <3>1. [NoCall EXCEPT !.at = "rejected"] \in CallRecord
        BY NoCallRecord DEF CallRecord, Settled
    <3>2. [k EXCEPT !.signal = TRUE] \in CallRecord /\ [k EXCEPT !.at = "reading"] \in CallRecord
        BY <1>1 DEF CallRecord, Waiting
    <3> QED BY <1>1, <1>4, <3>1, <3>2 DEF FetchAbort, FetchOnChunk, FetchRejects, WebInv, WebShape
  <2> QED BY <1>1, <1>2, <2>1, <2>2, PlainTurn DEF WebInv, WebShape
<1>5. CASE FetchUnpacked(f)
  <2>1. PICK credentials \in {"omit", "include", "same-origin"}, snap \in BOOLEAN :
         calls' = [calls EXCEPT ![f].at = "gate",
                     ![f].attach = Attaches(credentials, snap),
                     ![f].absorb = credentials # "omit",
                     ![f].carries = CookieHeader(Attaches(credentials, snap))]
      BY <1>5 DEF FetchUnpacked
  <2> DEFINE attach == Attaches(credentials, snap)
  <2>2. attach \in BOOLEAN
      BY DEF Attaches
  <2>3. CookieHeader(attach) \in Jar
      BY EmptyIsJar DEF CookieHeader, WebInv, WebShape
  <2> HIDE DEF attach
  <2>4. [k EXCEPT !.at = "gate", !.attach = attach, !.absorb = credentials # "omit",
                  !.carries = CookieHeader(attach)] \in CallRecord
      BY <1>1, <2>2, <2>3 DEF CallRecord, Waiting
  <2>5. calls' = [calls EXCEPT ![f] = [k EXCEPT !.at = "gate", !.attach = attach,
                    !.absorb = credentials # "omit", !.carries = CookieHeader(attach)]]
      BY <1>1, <2>1 DEF WebInv, WebShape, attach
  <2>6. UNCHANGED <<jar, stored, writes, byHost, made, seen>>
      BY <1>5 DEF FetchUnpacked, JarSide
  <2> QED BY <1>1, <1>2, <2>4, <2>5, <2>6, PlainTurn DEF WebInv, WebShape
<1>6. CASE FetchOnResponse(f)
  <2>1. PICK ok \in SUBSET k.sets :
          /\ Absorb(f, ok)
          /\ calls' = [calls EXCEPT ![f].at = "reading", ![f].sets = Taken(f, ok),
                                    ![f].wrote = writes']
      BY <1>6 DEF FetchOnResponse
  <2>2. jar' \in Jar /\ stored' \in Jar /\ writes' \in 0 .. MaxWrites /\ byHost' = byHost
      BY <1>1, <2>1, AbsorbShape DEF WebInv, CallRecord
  <2>3. Taken(f, ok) \in SUBSET Cookies
      BY <1>1, <2>1 DEF Taken, CallRecord
  <2>4. [k EXCEPT !.at = "reading", !.sets = Taken(f, ok), !.wrote = writes'] \in CallRecord
      BY <1>1, <2>2, <2>3 DEF CallRecord, Waiting
  <2>5. calls' = [calls EXCEPT ![f] = [k EXCEPT !.at = "reading", !.sets = Taken(f, ok),
                                               !.wrote = writes']]
      BY <1>1, <2>1 DEF WebInv, WebShape
  <2>6. made' = made /\ seen' = seen
      BY <1>6 DEF FetchOnResponse
  <2> QED BY <1>1, <1>2, <2>2, <2>4, <2>5, <2>6, PlainTurn DEF WebInv, WebShape
<1>7. CASE FetchResolves(f)
  <2> DEFINE body == IF k.at = "eof" THEN k.chunks ELSE <<>>
  <2>1. body \in Seq(Nat)
      BY <1>1 DEF CallRecord
  <2>2. calls' = [calls EXCEPT ![f] = [NoCall EXCEPT !.at = "resolved", !.size = k.size,
                                                   !.chunks = body]]
      BY <1>7 DEF FetchResolves
  <2> HIDE DEF body
  <2>3. [NoCall EXCEPT !.at = "resolved", !.size = k.size, !.chunks = body] \in CallRecord
      BY <1>1, <2>1, NoCallRecord DEF CallRecord, Settled
  <2>4. seen' \in Jar
      BY <1>1, <1>7, ShowsShape DEF FetchResolves, WebInv, CallRecord
  <2>5. UNCHANGED <<jar, stored, writes, byHost, made>>
      BY <1>7 DEF FetchResolves, JarSide
  <2> QED BY <1>1, <1>2, <2>2, <2>3, <2>4, <2>5, PlainTurn DEF WebInv, WebShape
<1> QED BY <1>3, <1>4, <1>5, <1>6, <1>7 DEF FetchStep

LEMMA HostWebInv ==
    ASSUME WebInv, NEW h \in Hosts, HostFetch(h) \/ HostStep(h)
    PROVE  WebInv'
<1>1. h \in Calls /\ h \in Fetches \cup Hosts
    BY DEF Calls, Shimmed
<1>2. CASE HostFetch(h)
  <2>1. [NoCall EXCEPT !.at = "gate", !.attach = TRUE, !.absorb = TRUE,
                       !.carries = CookieHeader(TRUE), !.knew = seen] \in CallRecord
      BY NoCallRecord DEF CookieHeader, CallRecord, WebInv, WebShape, Waiting
  <2>2. /\ calls' \in [Calls -> CallRecord] /\ \A q \in Calls \ {h} : calls'[q] = calls[q]
        /\ made' \in 0 .. MaxCalls /\ UNCHANGED <<jar, stored, writes, byHost, seen, objects>>
    <3>1. made < MaxCalls /\ made' = made + 1
        BY <1>2 DEF HostFetch, NewCall
    <3>2. made' \in 0 .. MaxCalls
        BY <3>1, RequestAssumption DEF WebInv, WebShape
    <3>3. UNCHANGED <<jar, stored, writes, byHost, seen, objects>>
        BY <1>2 DEF HostFetch, JarSide
    <3> QED BY <1>2, <2>1, <3>2, <3>3 DEF HostFetch, NewCall, WebInv, WebShape
  <2> QED BY <1>1, <2>2, PlainTurn DEF WebInv, WebShape
<1>3. CASE HostRejects(h)
  <2>1. [NoCall EXCEPT !.at = "rejected"] \in CallRecord
      BY NoCallRecord DEF CallRecord, Settled
  <2>2. /\ calls' \in [Calls -> CallRecord] /\ \A q \in Calls \ {h} : calls'[q] = calls[q]
        /\ UNCHANGED <<jar, stored, writes, byHost, seen, objects, made>>
      BY <1>3, <2>1 DEF HostRejects, JarSide, WebInv, WebShape
  <2> QED BY <1>1, <2>2, PlainTurn DEF WebInv, WebShape
<1>4. CASE HostOnResponse(h)
  <2>1. [NoCall EXCEPT !.at = "resolved"] \in CallRecord
      BY NoCallRecord DEF CallRecord, Settled
  <2>2. PICK ok \in SUBSET calls[h].sets :
          /\ IF ok = {} THEN UNCHANGED <<jar, writes, byHost>>
             ELSE Land(ok) /\ byHost' = byHost \cup {writes + 1}
          /\ calls' = [calls EXCEPT ![h] = [NoCall EXCEPT !.at = "resolved"]]
      BY <1>4 DEF HostOnResponse
  <2>3. ok \in SUBSET Cookies
      BY <1>1, <2>2 DEF WebInv, WebShape, CallRecord
  <2>4. jar' \in Jar /\ writes' \in 0 .. MaxWrites /\ byHost' \subseteq 1 .. MaxWrites
    <3>1. CASE ok = {}
        BY <2>2, <3>1 DEF WebInv, WebShape
    <3>2. CASE ok # {}
        BY <2>2, <2>3, <3>2, LandWrites DEF WebInv, WebShape
    <3> QED BY <3>1, <3>2
  <2>5. /\ calls' \in [Calls -> CallRecord] /\ \A q \in Calls \ {h} : calls'[q] = calls[q]
        /\ UNCHANGED <<stored, seen, objects, made>>
      BY <1>4, <2>1, <2>2 DEF HostOnResponse, WebInv, WebShape
  <2> QED BY <1>1, <2>4, <2>5, PlainTurn DEF WebInv, WebShape
<1> QED BY <1>2, <1>3, <1>4 DEF HostStep

LEMMA NextWebInv == WebInv /\ [WebNext]_webVars => WebInv'
<1> SUFFICES ASSUME WebInv, [WebNext]_webVars PROVE WebInv'
    OBVIOUS
<1>1. ASSUME NEW cs \in SUBSET Cookies, Land(cs), WrittenByPage PROVE WebInv'
  <2>1. /\ jar' \in Jar /\ writes' \in 0 .. MaxWrites /\ stored' = jar'
        /\ UNCHANGED <<objects, calls, made, seen, byHost>>
      BY <1>1, LandWrites DEF WrittenByPage, PersistJar, WebInv
  <2> QED BY <2>1 DEF WebInv, WebShape, ObjectsFollow
<1>2. ASSUME NEW c \in Cookies, SetDocumentCookie(c) PROVE WebInv'
    BY <1>1, <1>2 DEF SetDocumentCookie
<1>3. ASSUME NEW cs \in SUBSET Cookies, AddCookies(cs) PROVE WebInv'
    BY <1>1, <1>3 DEF AddCookies
<1>4. CASE Restart
  <2>1. jar' \in Jar /\ objects' = [x \in Xhrs |-> NoObject] /\ calls' = [r \in Calls |-> NoCall]
        /\ UNCHANGED <<stored, writes, made, seen, byHost>>
      BY <1>4, EmptyIsJar DEF Restart, WebInv, WebShape
  <2>2. calls' \in [Calls -> CallRecord] /\ objects' \in [Xhrs -> ObjectRecord]
      BY <2>1, NoCallRecord, NoObjectRecord
  <2>3. \A x \in Xhrs : objects'[x] = NoObject /\ calls'[x] = NoCall
      BY <2>1 DEF Calls, Shimmed
  <2>4. ObjectsFollow'
      BY <2>3, FreshFollows DEF ObjectsFollow
  <2> QED BY <2>1, <2>2, <2>4 DEF WebInv, WebShape
<1>5. CASE UNCHANGED webVars
    BY <1>5 DEF webVars, WebInv, WebShape, ObjectsFollow
<1>6. \A r \in Shimmed : r \in Calls
    BY DEF Calls, Shimmed
<1> QED BY <1>2, <1>3, <1>4, <1>5, <1>6, NetWebInv, XhrOwnerWebInv, XhrWebInv, FetchWebInv,
           HostWebInv DEF WebNext

LEMMA WebInductive == WebSpec => []WebInv
BY InitWebInv, NextWebInv, PTL DEF WebSpec

\* The jar, the calls and the objects keep their shape.
THEOREM RequestTypeCorrect == WebSpec => []WebTypeOK
<1>1. WebInv => WebTypeOK
    BY DEF WebInv, WebShape, WebTypeOK, ObjectRecord, CallRecord, ReadyStates
<1> QED BY <1>1, WebInductive, PTL

\* However chunks, aborts and restarts interleave, a `load` comes with the
\* whole body, for bodies and jars of every size.
THEOREM WholeAtLoad == WebSpec => []LoadIsWhole
<1>1. WebInv => LoadIsWhole
    BY DEF WebInv, ObjectsFollow, Loaded, LoadIsWhole
<1> QED BY <1>1, WebInductive, PTL

-----------------------------------------------------------------------------
(* What was shown is stored and what is stored is in the jar, in the order *)
(* of the writes.                                                          *)
JarOrder ==
    \A c \in Cookies : seen[c] <= stored[c] /\ stored[c] <= jar[c] /\ jar[c] <= writes

\* What a call took along is no older than what was shown when it was made, and
\* what it has put in the jar is stored.
InOrder(k, shown, kept) ==
    /\ \A c \in Cookies : k.knew[c] <= shown[c]
    /\ k.attach => \A c \in Cookies : k.knew[c] <= k.carries[c]
    /\ \A c \in k.sets : k.wrote <= kept[c]
    /\ k.at \in {"unpack", "gate", "sent"} => k.wrote = 0

CallsInOrder == \A r \in Calls : InOrder(calls[r], seen, stored)

JarInv == WebShape /\ JarOrder /\ StoredIsJar /\ CallsInOrder

LEMMA InitJarInv == WebInit => JarInv
<1> SUFFICES ASSUME WebInit PROVE JarInv
    OBVIOUS
<1>1. WebShape
    BY InitWebInv DEF WebInv
<1>2. JarOrder /\ StoredIsJar
    BY DEF WebInit, JarOrder, StoredIsJar, Empty
<1>3. InOrder(NoCall, Empty, Empty)
    BY DEF InOrder, NoCall, Empty
<1> QED BY <1>1, <1>2, <1>3 DEF WebInit, CallsInOrder, JarInv

(* A write that is persisted: everything stored is the jar, and nothing    *)
(* stored has become older.                                                *)
LEMMA PersistedWrite ==
    ASSUME JarInv, NEW cs \in SUBSET Cookies, Land(cs), PersistJar
    PROVE  /\ \A c \in Cookies : /\ stored'[c] = jar'[c] /\ jar'[c] <= writes'
                                 /\ jar[c] <= jar'[c] /\ stored[c] <= stored'[c]
           /\ \A c \in cs : stored'[c] = writes'
<1>1. /\ writes' = writes + 1 /\ writes \in Nat /\ stored' = jar'
      /\ \A c \in Cookies : jar'[c] = IF c \in cs THEN writes' ELSE jar[c]
    BY LandWrites DEF JarInv, WebShape, PersistJar
<1>2. \A c \in Cookies : jar[c] \in Nat /\ stored[c] \in Nat /\ stored[c] <= jar[c] /\ jar[c] <= writes
    BY DEF JarInv, JarOrder, WebShape, Jar
<1> QED BY <1>1, <1>2

LEMMA AbsorbOrder ==
    ASSUME JarInv, NEW r, NEW ok \in SUBSET Cookies, Absorb(r, ok)
    PROVE  /\ \A c \in Cookies : /\ stored[c] <= stored'[c] /\ stored'[c] <= jar'[c]
                                 /\ jar'[c] <= writes'
           /\ StoredIsJar'
           /\ \A c \in Taken(r, ok) : stored'[c] = writes'
<1>1. CASE ~calls[r].absorb \/ ok = {}
  <2>1. UNCHANGED <<jar, stored, writes, byHost>> /\ Taken(r, ok) = {}
      BY <1>1 DEF Absorb, Taken
  <2> QED BY <2>1 DEF JarInv, JarOrder, StoredIsJar, WebShape, Jar
<1>2. CASE calls[r].absorb /\ ok # {}
  <2>1. Land(ok) /\ PersistJar
      BY <1>2 DEF Absorb
  <2> QED BY <1>2, <2>1, PersistedWrite, LandWrites DEF StoredIsJar, Taken, JarInv, Jar
<1> QED BY <1>1, <1>2

(* Calls stay in order while more is shown and newer cookies are stored.   *)
LEMMA OrderKept ==
    ASSUME WebShape, WebShape', NEW k \in CallRecord, InOrder(k, seen, stored),
           \A c \in Cookies : seen[c] <= seen'[c] /\ stored[c] <= stored'[c]
    PROVE  InOrder(k, seen', stored')
<1>1. \A c \in Cookies : /\ seen[c] \in Nat /\ seen'[c] \in Nat /\ stored[c] \in Nat
                         /\ stored'[c] \in Nat /\ k.knew[c] \in Nat
    BY DEF WebShape, CallRecord, Jar
<1>2. k.wrote \in Nat /\ k.sets \subseteq Cookies
    BY RequestAssumption DEF CallRecord
<1>3. \A c \in Cookies : k.knew[c] <= seen'[c]
    BY <1>1 DEF InOrder
<1>4. \A c \in k.sets : k.wrote <= stored'[c]
    BY <1>1, <1>2 DEF InOrder
<1> QED BY <1>3, <1>4 DEF InOrder

(* A step of one call: what is left to show of it.                         *)
LEMMA OrderTurn ==
    ASSUME JarInv, WebShape', NEW r \in Calls, \A q \in Calls \ {r} : calls'[q] = calls[q],
           \A c \in Cookies : /\ seen[c] <= seen'[c] /\ seen'[c] <= stored'[c]
                              /\ stored[c] <= stored'[c] /\ stored'[c] <= jar'[c]
                              /\ jar'[c] <= writes',
           StoredIsJar', InOrder(calls'[r], seen', stored')
    PROVE  JarInv'
<1>1. ASSUME NEW q \in Calls, q # r PROVE InOrder(calls'[q], seen', stored')
  <2>1. calls'[q] = calls[q] /\ calls[q] \in CallRecord /\ InOrder(calls[q], seen, stored)
      BY <1>1 DEF JarInv, WebShape, CallsInOrder
  <2> QED BY <2>1, OrderKept DEF JarInv
<1>2. CallsInOrder'
    BY <1>1 DEF CallsInOrder
<1>3. JarOrder'
    BY DEF JarOrder
<1> QED BY <1>2, <1>3 DEF JarInv

\* The same for a call that leaves the jar, its copy and what was shown alone.
LEMMA QuietTurn ==
    ASSUME JarInv, WebShape', NEW r \in Calls, \A q \in Calls \ {r} : calls'[q] = calls[q],
           UNCHANGED <<jar, stored, seen, writes, byHost>>, InOrder(calls'[r], seen, stored)
    PROVE  JarInv'
<1>1. \A c \in Cookies : /\ seen[c] <= seen'[c] /\ seen'[c] <= stored'[c]
                         /\ stored[c] <= stored'[c] /\ stored'[c] <= jar'[c]
                         /\ jar'[c] <= writes'
    BY DEF JarInv, JarOrder, WebShape, Jar
<1>2. StoredIsJar'
    BY DEF JarInv, StoredIsJar
<1> QED BY <1>1, <1>2, OrderTurn

\* A call without a response: only what it carries and knew matters.
LEMMA PlainOrder ==
    ASSUME JarInv, NEW k, k.sets = {}, k.attach = FALSE, k.knew = Empty, k.wrote = 0
    PROVE  InOrder(k, seen, stored)
BY DEF JarInv, WebShape, Jar, InOrder, Empty

LEMMA NetJarInv ==
    ASSUME JarInv, WebShape', NEW r \in Calls, NetStep(r) \/ GateOpens(r) \/ StreamStep(r)
    PROVE  JarInv'
<1> DEFINE k == calls[r]
<1>1. k \in CallRecord /\ InOrder(k, seen, stored)
      /\ UNCHANGED <<jar, stored, seen, writes, byHost>>
      /\ \A q \in Calls \ {r} : calls'[q] = calls[q]
    BY DEF JarInv, CallsInOrder, WebShape, NetStep, StreamStep, Answers, Fails, GateOpens,
           ChunkArrives, BodyEnds, BodyBreaks, JarSide
<1>2. \A c \in Cookies : stored[c] \in Nat /\ seen[c] \in Nat /\ 0 <= stored[c] /\ 0 <= seen[c]
    BY DEF JarInv, WebShape, Jar
<1>3. CASE Answers(r)
  <2>1. PICK sets \in SUBSET Cookies, n \in 0 .. MaxChunks :
          calls' = [calls EXCEPT ![r].at = "answered", ![r].sets = sets, ![r].size = n]
      BY <1>3 DEF Answers
  <2>2. /\ calls'[r].at = "answered" /\ calls'[r].sets = sets /\ calls'[r].wrote = k.wrote
        /\ calls'[r].attach = k.attach /\ calls'[r].knew = k.knew /\ calls'[r].carries = k.carries
      BY <2>1 DEF JarInv, WebShape, CallRecord
  <2>3. k.wrote = 0
      BY <1>1, <1>3 DEF Answers, InOrder
  <2>4. InOrder(calls'[r], seen, stored)
      BY <1>1, <1>2, <2>2, <2>3 DEF InOrder
  <2> QED BY <1>1, <2>4, QuietTurn
<1>4. CASE Fails(r) \/ ChunkArrives(r) \/ BodyEnds(r) \/ BodyBreaks(r)
  <2>1. /\ calls'[r].at \in {"failed", "chunk", "eof", "broken"}
        /\ calls'[r].sets = k.sets /\ calls'[r].wrote = k.wrote
        /\ calls'[r].attach = k.attach /\ calls'[r].knew = k.knew /\ calls'[r].carries = k.carries
      BY <1>4 DEF Fails, ChunkArrives, BodyEnds, BodyBreaks, JarInv, WebShape, CallRecord
  <2>2. InOrder(calls'[r], seen, stored)
      BY <1>1, <2>1 DEF InOrder
  <2> QED BY <1>1, <2>2, QuietTurn
<1>5. CASE GateOpens(r)
  <2>1. /\ calls'[r].at \in {"failed", "sent"} /\ calls'[r].sets = k.sets
        /\ calls'[r].wrote = k.wrote /\ calls'[r].attach = FALSE /\ calls'[r].knew = Empty
        /\ k.at = "gate"
      BY <1>5 DEF GateOpens, JarInv, WebShape, CallRecord
  <2>2. InOrder(calls'[r], seen, stored)
      BY <1>1, <1>2, <2>1 DEF InOrder, Empty
  <2> QED BY <1>1, <2>2, QuietTurn
<1> QED BY <1>3, <1>4, <1>5 DEF NetStep, StreamStep

(* What a call reads from the jar is no older than anything shown.         *)
LEMMA ReadsInOrder ==
    ASSUME JarInv, NEW k \in CallRecord, k.sets = {}, k.wrote = 0, NEW attach \in BOOLEAN,
           k.attach = attach, k.carries = CookieHeader(attach),
           \A c \in Cookies : k.knew[c] <= seen[c]
    PROVE  InOrder(k, seen, stored)
<1>1. attach => \A c \in Cookies : k.knew[c] <= k.carries[c]
  <2>1. \A c \in Cookies : /\ k.knew[c] \in Nat /\ seen[c] \in Nat /\ stored[c] \in Nat
                           /\ jar[c] \in Nat /\ seen[c] <= stored[c] /\ stored[c] <= jar[c]
      BY DEF JarInv, JarOrder, WebShape, CallRecord, Jar
  <2> QED BY <2>1 DEF CookieHeader
<1> QED BY <1>1 DEF InOrder

\* A call made now has all that was shown before it.
LEMMA NewCallInOrder ==
    ASSUME JarInv, NEW r \in Calls, NEW attach \in BOOLEAN, NEW absorb \in BOOLEAN,
           NewCall(r, attach, absorb)
    PROVE  InOrder(calls'[r], seen, stored) /\ \A q \in Calls \ {r} : calls'[q] = calls[q]
<1> DEFINE k2 == [NoCall EXCEPT !.at = "gate", !.attach = attach, !.absorb = absorb,
                    !.carries = CookieHeader(attach), !.knew = seen]
<1>1. calls'[r] = k2 /\ \A q \in Calls \ {r} : calls'[q] = calls[q]
    BY DEF NewCall, JarInv, WebShape
<1>2. CookieHeader(attach) \in Jar /\ seen \in Jar
    BY EmptyIsJar DEF CookieHeader, JarInv, WebShape
<1>3. /\ k2 \in CallRecord /\ k2.sets = {} /\ k2.wrote = 0 /\ k2.attach = attach
      /\ k2.carries = CookieHeader(attach) /\ k2.knew = seen
    BY <1>2, NoCallRecord DEF CallRecord, Waiting
<1>4. \A c \in Cookies : seen[c] <= seen[c]
    BY <1>2 DEF Jar
<1> HIDE DEF k2
<1> QED BY <1>1, <1>3, <1>4, ReadsInOrder

\* What was shown stays behind what is stored when a response's write is shown.
LEMMA ShowsOrder ==
    ASSUME WebShape, WebShape', NEW cs, NEW n \in Nat, Shows(cs, n),
           \A c \in Cookies : seen[c] <= stored'[c],
           \A c \in cs \cap Cookies : n <= stored'[c]
    PROVE  \A c \in Cookies : seen[c] <= seen'[c] /\ seen'[c] <= stored'[c]
<1> SUFFICES ASSUME NEW c \in Cookies PROVE seen[c] <= seen'[c] /\ seen'[c] <= stored'[c]
    OBVIOUS
<1>1. seen'[c] = IF c \in cs THEN Later(seen[c], n) ELSE seen[c]
    BY DEF Shows
<1>2. seen[c] \in Nat /\ stored'[c] \in Nat
    BY DEF WebShape, Jar
<1> QED BY <1>1, <1>2 DEF Later

LEMMA XhrJarInv ==
    ASSUME JarInv, WebShape', NEW x \in Xhrs,
           XhrAbort(x) \/ XhrStep(x)
             \/ \E moz, withCredentials \in BOOLEAN : XhrSend(x, moz, withCredentials)
    PROVE  JarInv'
<1> DEFINE k == calls[x]
<1>1. x \in Calls /\ k \in CallRecord /\ InOrder(k, seen, stored)
    BY DEF Calls, Shimmed, JarInv, WebShape, CallsInOrder
<1>2. CASE XhrAbort(x)
  <2>1. /\ calls'[x].at = k.at /\ calls'[x].sets = k.sets /\ calls'[x].wrote = k.wrote
        /\ calls'[x].attach = k.attach /\ calls'[x].knew = k.knew /\ calls'[x].carries = k.carries
        /\ \A q \in Calls \ {x} : calls'[q] = calls[q]
        /\ UNCHANGED <<jar, stored, seen, writes, byHost>>
      BY <1>1, <1>2 DEF XhrAbort, JarInv, WebShape, CallRecord, JarSide
  <2>2. InOrder(calls'[x], seen, stored)
      BY <1>1, <2>1 DEF InOrder
  <2> QED BY <1>1, <2>1, <2>2, QuietTurn
<1>3. ASSUME NEW moz \in BOOLEAN, NEW withCredentials \in BOOLEAN,
             XhrSend(x, moz, withCredentials)
      PROVE  JarInv'
  <2>1. InOrder(calls'[x], seen, stored) /\ \A q \in Calls \ {x} : calls'[q] = calls[q]
      BY <1>1, <1>3, NewCallInOrder DEF XhrSend
  <2>2. UNCHANGED <<jar, stored, seen, writes, byHost>>
      BY <1>3 DEF XhrSend, JarSide
  <2> QED BY <1>1, <2>1, <2>2, QuietTurn
<1>4. CASE XhrReturns(x) \/ XhrFails(x) \/ XhrOnEnd(x)
  <2>1. /\ calls'[x] = Over /\ \A q \in Calls \ {x} : calls'[q] = calls[q]
        /\ UNCHANGED <<jar, stored, seen, writes, byHost>>
      BY <1>1, <1>4 DEF XhrReturns, XhrFails, XhrEnd, XhrOnEnd, JarSide, JarInv, WebShape
  <2>2. InOrder(Over, seen, stored)
      BY OverRecord, PlainOrder
  <2> QED BY <1>1, <2>1, <2>2, QuietTurn
<1>5. CASE XhrOnChunk(x)
  <2>1. /\ calls'[x].at = "reading" /\ calls'[x].sets = k.sets /\ calls'[x].wrote = k.wrote
        /\ calls'[x].attach = k.attach /\ calls'[x].knew = k.knew /\ calls'[x].carries = k.carries
        /\ \A q \in Calls \ {x} : calls'[q] = calls[q]
        /\ UNCHANGED <<jar, stored, seen, writes, byHost>>
      BY <1>1, <1>5 DEF XhrOnChunk, JarInv, WebShape, CallRecord, JarSide
  <2>2. InOrder(calls'[x], seen, stored)
      BY <1>1, <2>1 DEF InOrder
  <2> QED BY <1>1, <2>1, <2>2, QuietTurn
<1>6. CASE XhrOnResponse(x)
  <2>1. PICK ok \in SUBSET k.sets : Absorb(x, ok) /\ Shows(Taken(x, ok), writes')
      BY <1>6 DEF XhrOnResponse
  <2>2. ok \in SUBSET Cookies
      BY <1>1, <2>1 DEF CallRecord
  <2>3. /\ \A c \in Cookies : /\ stored[c] <= stored'[c] /\ stored'[c] <= jar'[c]
                              /\ jar'[c] <= writes'
        /\ StoredIsJar' /\ \A c \in Taken(x, ok) : stored'[c] = writes'
      BY <2>1, <2>2, AbsorbOrder
  <2>4. \A c \in Cookies : seen[c] <= seen'[c] /\ seen'[c] <= stored'[c]
    <3>1. \A c \in Cookies : seen[c] <= stored'[c]
        BY <2>3 DEF JarInv, JarOrder, WebShape, Jar
    <3>2. \A c \in Taken(x, ok) \cap Cookies : writes' <= stored'[c]
        BY <2>3 DEF WebShape
    <3>3. writes' \in Nat
        BY DEF WebShape
    <3> QED BY <2>1, <3>1, <3>2, <3>3, ShowsOrder DEF JarInv
  <2>5. /\ calls'[x].at = "reading" /\ calls'[x].sets = k.sets /\ calls'[x].wrote = k.wrote
        /\ calls'[x].attach = k.attach /\ calls'[x].knew = k.knew /\ calls'[x].carries = k.carries
        /\ \A q \in Calls \ {x} : calls'[q] = calls[q]
      BY <1>1, <1>6 DEF XhrOnResponse, JarInv, WebShape, CallRecord
  <2>6. InOrder(calls'[x], seen', stored')
    <3>1. InOrder(k, seen', stored')
        BY <1>1, <2>3, <2>4, OrderKept DEF JarInv
    <3> QED BY <2>5, <3>1 DEF InOrder
  <2> QED BY <1>1, <2>3, <2>4, <2>5, <2>6, OrderTurn
<1> QED BY <1>2, <1>3, <1>4, <1>5, <1>6 DEF XhrStep

LEMMA FetchJarInv ==
    ASSUME JarInv, WebShape', NEW f \in Fetches, FetchStart(f) \/ FetchAbort(f) \/ FetchStep(f)
    PROVE  JarInv'
<1> DEFINE k == calls[f]
<1>1. f \in Calls /\ k \in CallRecord /\ InOrder(k, seen, stored)
    BY DEF Calls, Shimmed, JarInv, WebShape, CallsInOrder
<1>2. CASE FetchStart(f)
  <2> DEFINE k2 == [NoCall EXCEPT !.at = "unpack", !.knew = seen]
  <2>1. /\ calls'[f] = k2 /\ \A q \in Calls \ {f} : calls'[q] = calls[q]
        /\ UNCHANGED <<jar, stored, seen, writes, byHost>>
      BY <1>1, <1>2 DEF FetchStart, JarSide, JarInv, WebShape
  <2>2. k2.sets = {} /\ k2.wrote = 0 /\ k2.attach = FALSE /\ k2.knew = seen
      BY NoCallRecord DEF CallRecord
  <2>3. \A c \in Cookies : seen[c] <= seen[c]
      BY DEF JarInv, WebShape, Jar
  <2> HIDE DEF k2
  <2>4. InOrder(k2, seen, stored)
      BY <2>2, <2>3 DEF InOrder
  <2> QED BY <1>1, <2>1, <2>4, QuietTurn
<1>3. CASE FetchAbort(f) \/ FetchOnChunk(f)
  <2>1. /\ calls'[f].at \in {k.at, "reading"} /\ calls'[f].sets = k.sets
        /\ calls'[f].wrote = k.wrote /\ calls'[f].attach = k.attach
        /\ calls'[f].knew = k.knew /\ calls'[f].carries = k.carries
        /\ \A q \in Calls \ {f} : calls'[q] = calls[q]
        /\ UNCHANGED <<jar, stored, seen, writes, byHost>>
      BY <1>1, <1>3 DEF FetchAbort, FetchOnChunk, JarInv, WebShape, CallRecord, JarSide
  <2>2. InOrder(calls'[f], seen, stored)
      BY <1>1, <2>1 DEF InOrder
  <2> QED BY <1>1, <2>1, <2>2, QuietTurn
<1>4. CASE FetchRejects(f)
  <2>1. /\ calls'[f] = [NoCall EXCEPT !.at = "rejected"]
        /\ \A q \in Calls \ {f} : calls'[q] = calls[q]
        /\ UNCHANGED <<jar, stored, seen, writes, byHost>>
      BY <1>1, <1>4 DEF FetchRejects, JarSide, JarInv, WebShape
  <2>2. calls'[f].sets = {} /\ calls'[f].attach = FALSE /\ calls'[f].knew = Empty
        /\ calls'[f].wrote = 0
      BY <2>1, NoCallRecord DEF CallRecord
  <2>3. InOrder(calls'[f], seen, stored)
      BY <2>2, PlainOrder
  <2> QED BY <1>1, <2>1, <2>3, QuietTurn
<1>5. CASE FetchUnpacked(f)
  <2>1. PICK credentials \in {"omit", "include", "same-origin"}, snap \in BOOLEAN :
         calls' = [calls EXCEPT ![f].at = "gate",
                     ![f].attach = Attaches(credentials, snap),
                     ![f].absorb = credentials # "omit",
                     ![f].carries = CookieHeader(Attaches(credentials, snap))]
      BY <1>5 DEF FetchUnpacked
  <2> DEFINE attach == Attaches(credentials, snap)
  <2>2. attach \in BOOLEAN
      BY DEF Attaches
  <2>3. CookieHeader(attach) \in Jar
      BY EmptyIsJar DEF CookieHeader, JarInv, WebShape
  <2>4. k.at = "unpack" /\ k.wrote = 0
      BY <1>1, <1>5 DEF FetchUnpacked, InOrder
  <2>5. \A c \in Cookies : /\ k.knew[c] \in Nat /\ seen[c] \in Nat /\ stored[c] \in Nat
                           /\ jar[c] \in Nat /\ k.knew[c] <= seen[c] /\ seen[c] <= stored[c]
                           /\ stored[c] <= jar[c]
      BY <1>1 DEF JarInv, JarOrder, WebShape, CallRecord, Jar, InOrder
  <2>6. attach => \A c \in Cookies : k.knew[c] <= CookieHeader(attach)[c]
      BY <2>5 DEF CookieHeader
  <2> HIDE DEF attach
  <2>7. /\ calls'[f].at = "gate" /\ calls'[f].sets = k.sets /\ calls'[f].wrote = k.wrote
        /\ calls'[f].attach = attach /\ calls'[f].knew = k.knew
        /\ calls'[f].carries = CookieHeader(attach)
        /\ \A q \in Calls \ {f} : calls'[q] = calls[q]
      BY <1>1, <2>1 DEF JarInv, WebShape, CallRecord, attach
  <2>8. InOrder(calls'[f], seen, stored)
      BY <1>1, <2>4, <2>6, <2>7 DEF InOrder
  <2>9. UNCHANGED <<jar, stored, seen, writes, byHost>>
      BY <1>5 DEF FetchUnpacked, JarSide
  <2> QED BY <1>1, <2>7, <2>8, <2>9, QuietTurn
<1>6. CASE FetchOnResponse(f)
  <2>1. PICK ok \in SUBSET k.sets :
          /\ Absorb(f, ok)
          /\ calls' = [calls EXCEPT ![f].at = "reading", ![f].sets = Taken(f, ok),
                                    ![f].wrote = writes']
      BY <1>6 DEF FetchOnResponse
  <2>2. ok \in SUBSET Cookies /\ Taken(f, ok) \in SUBSET Cookies
      BY <1>1, <2>1 DEF CallRecord, Taken
  <2>3. /\ \A c \in Cookies : /\ stored[c] <= stored'[c] /\ stored'[c] <= jar'[c]
                              /\ jar'[c] <= writes'
        /\ StoredIsJar' /\ \A c \in Taken(f, ok) : stored'[c] = writes'
      BY <2>1, <2>2, AbsorbOrder
  <2>4. seen' = seen
      BY <1>6 DEF FetchOnResponse
  <2>5. \A c \in Cookies : seen[c] <= seen'[c] /\ seen'[c] <= stored'[c]
      BY <2>3, <2>4 DEF JarInv, JarOrder, WebShape, Jar
  <2>6. /\ calls'[f].at = "reading" /\ calls'[f].sets = Taken(f, ok) /\ calls'[f].wrote = writes'
        /\ calls'[f].attach = k.attach /\ calls'[f].knew = k.knew /\ calls'[f].carries = k.carries
        /\ \A q \in Calls \ {f} : calls'[q] = calls[q]
      BY <1>1, <2>1 DEF JarInv, WebShape, CallRecord
  <2>7. InOrder(calls'[f], seen', stored')
    <3>1. writes' \in Nat
        BY DEF WebShape
    <3>2. \A c \in calls'[f].sets : calls'[f].wrote <= stored'[c]
        BY <2>3, <2>6, <3>1
    <3> QED BY <1>1, <2>4, <2>6, <3>2 DEF InOrder
  <2> QED BY <1>1, <2>3, <2>5, <2>6, <2>7, OrderTurn
<1>7. CASE FetchResolves(f)
  <2>1. Shows(k.sets, k.wrote) /\ UNCHANGED <<jar, stored, writes, byHost>>
        /\ calls' = [calls EXCEPT ![f] = [NoCall EXCEPT !.at = "resolved", !.size = calls[f].size,
                   !.chunks = IF calls[f].at = "eof" THEN calls[f].chunks ELSE <<>>]]
      BY <1>7 DEF FetchResolves, JarSide
  <2>2. calls'[f].sets = {} /\ calls'[f].attach = FALSE /\ calls'[f].knew = Empty
        /\ calls'[f].wrote = 0 /\ \A q \in Calls \ {f} : calls'[q] = calls[q]
      BY <1>1, <2>1, NoCallRecord DEF CallRecord, JarInv, WebShape
  <2>3. \A c \in Cookies : seen[c] <= seen'[c] /\ seen'[c] <= stored'[c]
    <3>1. k.wrote \in Nat /\ \A c \in k.sets : k.wrote <= stored'[c]
        BY <1>1, <2>1, RequestAssumption DEF InOrder, CallRecord
    <3>2. \A c \in Cookies : seen[c] <= stored'[c]
        BY <2>1 DEF JarInv, JarOrder
    <3> QED BY <2>1, <3>1, <3>2, ShowsOrder DEF JarInv
  <2>4. /\ \A c \in Cookies : stored[c] <= stored'[c] /\ stored'[c] <= jar'[c] /\ jar'[c] <= writes'
        /\ StoredIsJar'
      BY <2>1 DEF JarInv, JarOrder, StoredIsJar, WebShape, Jar
  <2>5. InOrder(calls'[f], seen', stored')
      BY <2>2, <2>3 DEF InOrder, Empty, WebShape, Jar
  <2> QED BY <1>1, <2>2, <2>3, <2>4, <2>5, OrderTurn
<1> QED BY <1>2, <1>3, <1>4, <1>5, <1>6, <1>7 DEF FetchStep

LEMMA HostJarInv ==
    ASSUME JarInv, WebShape', NEW h \in Hosts, HostFetch(h) \/ HostStep(h)
    PROVE  JarInv'
<1>1. h \in Calls
    BY DEF Calls
<1>2. CASE HostFetch(h)
  <2>1. InOrder(calls'[h], seen, stored) /\ \A q \in Calls \ {h} : calls'[q] = calls[q]
      BY <1>1, <1>2, NewCallInOrder DEF HostFetch
  <2>2. UNCHANGED <<jar, stored, seen, writes, byHost>>
      BY <1>2 DEF HostFetch, JarSide
  <2> QED BY <1>1, <2>1, <2>2, QuietTurn
<1>3. CASE HostStep(h)
  <2>1. PICK at \in {"rejected", "resolved"} : calls' = [calls EXCEPT ![h] = [NoCall EXCEPT !.at = at]]
      BY <1>3 DEF HostStep, HostRejects, HostOnResponse
  <2>2. calls'[h].sets = {} /\ calls'[h].attach = FALSE /\ calls'[h].knew = Empty
        /\ calls'[h].wrote = 0 /\ \A q \in Calls \ {h} : calls'[q] = calls[q]
      BY <1>1, <2>1, NoCallRecord DEF CallRecord, JarInv, WebShape
  <2>3. UNCHANGED <<stored, seen>> /\ InOrder(calls'[h], seen, stored)
      BY <1>3, <2>2, PlainOrder DEF HostStep, HostRejects, HostOnResponse, JarSide
  <2>4. CASE UNCHANGED <<jar, writes, byHost>>
      BY <1>1, <2>2, <2>3, <2>4, QuietTurn
  <2>5. ASSUME NEW ok \in SUBSET calls[h].sets, Land(ok), byHost' = byHost \cup {writes + 1}
        PROVE  JarInv'
    <3>1. ok \in SUBSET Cookies
        BY <1>1 DEF JarInv, WebShape, CallRecord
    <3>2. /\ writes' = writes + 1 /\ writes' \in 1 .. MaxWrites
          /\ \A c \in Cookies : jar'[c] = IF c \in ok THEN writes' ELSE jar[c]
        BY <2>5, <3>1, LandWrites DEF JarInv
    <3>3. StoredIsJar'
        BY <2>3, <2>5, <3>2 DEF JarInv, StoredIsJar
    <3>4. \A c \in Cookies : /\ seen[c] \in Nat /\ stored[c] \in Nat /\ jar[c] \in Nat
                             /\ seen[c] <= stored[c] /\ stored[c] <= jar[c] /\ jar[c] <= writes
        BY DEF JarInv, JarOrder, WebShape, Jar
    <3>5. writes \in Nat
        BY DEF JarInv, WebShape
    <3>6. \A c \in Cookies : /\ seen[c] <= seen'[c] /\ seen'[c] <= stored'[c]
                             /\ stored[c] <= stored'[c] /\ stored'[c] <= jar'[c]
                             /\ jar'[c] <= writes'
        BY <2>3, <3>2, <3>4, <3>5
    <3> QED BY <1>1, <2>2, <2>3, <3>3, <3>6, OrderTurn
  <2> QED BY <1>3, <2>4, <2>5 DEF HostStep, HostRejects, HostOnResponse, JarSide
<1> QED BY <1>2, <1>3

(* A restart keeps the order because the store can be read in full before  *)
(* the first call.                                                         *)
LEMMA RestartJarInv ==
    ASSUME JarInv, WebShape', SyncStore, Restart
    PROVE  JarInv'
<1>1. /\ jar' = stored /\ calls' = [r \in Calls |-> NoCall]
      /\ UNCHANGED <<stored, writes, seen>>
    BY DEF Restart
<1>2. JarOrder' /\ StoredIsJar'
    BY <1>1 DEF JarInv, JarOrder, StoredIsJar, WebShape, Jar
<1>3. InOrder(NoCall, seen, stored)
    BY NoCallRecord, PlainOrder
<1>4. CallsInOrder'
    BY <1>1, <1>3 DEF CallsInOrder
<1> QED BY <1>2, <1>4 DEF JarInv

LEMMA NextJarInv ==
    ASSUME JarInv, WebShape', SyncStore, [WebNext]_webVars
    PROVE  JarInv'
<1>1. ASSUME NEW cs \in SUBSET Cookies, Land(cs), WrittenByPage PROVE JarInv'
  <2>1. PersistJar /\ UNCHANGED <<calls, seen>>
      BY <1>1 DEF WrittenByPage
  <2>2. \A c \in Cookies : /\ stored'[c] = jar'[c] /\ jar'[c] <= writes'
                           /\ stored[c] <= stored'[c]
      BY <1>1, <2>1, PersistedWrite
  <2>3. \A c \in Cookies : /\ seen[c] \in Nat /\ stored[c] \in Nat /\ stored'[c] \in Nat
                           /\ seen[c] <= stored[c]
      BY DEF JarInv, JarOrder, WebShape, Jar
  <2>4. JarOrder' /\ StoredIsJar'
      BY <2>1, <2>2, <2>3 DEF JarOrder, StoredIsJar
  <2>5. \A c \in Cookies : seen[c] <= seen'[c] /\ stored[c] <= stored'[c]
      BY <2>1, <2>2, <2>3
  <2>6. CallsInOrder'
    <3>1. ASSUME NEW r \in Calls PROVE InOrder(calls'[r], seen', stored')
      <4>1. calls[r] \in CallRecord /\ InOrder(calls[r], seen, stored)
          BY DEF JarInv, WebShape, CallsInOrder
      <4> QED BY <2>1, <2>5, <4>1, OrderKept DEF JarInv
    <3> QED BY <3>1 DEF CallsInOrder
  <2> QED BY <2>4, <2>6 DEF JarInv
<1>2. ASSUME NEW c \in Cookies, SetDocumentCookie(c) PROVE JarInv'
    BY <1>1, <1>2 DEF SetDocumentCookie
<1>3. ASSUME NEW cs \in SUBSET Cookies, AddCookies(cs) PROVE JarInv'
    BY <1>1, <1>3 DEF AddCookies
<1>4. CASE UNCHANGED webVars
    BY <1>4 DEF webVars, JarInv, JarOrder, StoredIsJar, CallsInOrder, WebShape
<1>5. \A r \in Shimmed : r \in Calls
    BY DEF Calls, Shimmed
<1> QED BY <1>2, <1>3, <1>4, <1>5, NetJarInv, XhrJarInv, FetchJarInv, HostJarInv, RestartJarInv
        DEF WebNext

LEMMA JarInductive == SyncStore => (WebSpec => []JarInv)
<1> SUFFICES ASSUME SyncStore PROVE WebSpec => []JarInv
    OBVIOUS
<1>1. WebInv' => WebShape'
    BY DEF WebInv
<1>2. JarInv /\ WebInv' /\ [WebNext]_webVars => JarInv'
    BY <1>1, NextJarInv
<1>3. WebSpec => WebInit /\ [][WebNext]_webVars
    BY DEF WebSpec
<1> QED BY <1>2, <1>3, InitJarInv, WebInductive, PTL

\* With a synchronous store, what a host call wrote is all that the DataStore
\* can be missing, for any number of requests half-way and any restarts.
THEOREM StoreKeepsJar == SyncStore => (WebSpec => []StoredIsJar)
<1>1. JarInv => StoredIsJar
    BY DEF JarInv
<1> QED BY <1>1, JarInductive, PTL

\* A request carries at least what the responses shown before it was made had
\* set, whichever client made either and over a restart in between.
THEOREM CarriesWhatWasShown == SyncStore => (WebSpec => []CarriesWhatWasSeen)
<1>1. JarInv => CarriesWhatWasSeen
  <2> SUFFICES ASSUME JarInv, NEW r \in Calls, calls[r].attach, NEW c \in Cookies
               PROVE  calls[r].carries[c] >= calls[r].knew[c]
      BY DEF CarriesWhatWasSeen
  <2>1. calls[r].knew[c] <= calls[r].carries[c]
      BY DEF JarInv, CallsInOrder, InOrder
  <2> QED BY <2>1
<1> QED BY <1>1, JarInductive, PTL
================================================================================
