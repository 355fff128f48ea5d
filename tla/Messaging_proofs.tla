--------------------------- MODULE Messaging_proofs ---------------------------
(***************************************************************************)
(* Theorems about MessagingSession, for any callers and messages and any   *)
(* number of attempts: however calls, failures and retries interleave, one *)
(* bring-up runs at a time and the promise cell holds it, and a caller     *)
(* whose ensureSession resolved has a session that is alive.               *)
(***************************************************************************)
EXTENDS MessagingSession, LiveInbox, FiniteSetTheorems, TLAPS

Stages == UnderWay \cup {"up", "failed"}

(* The shape of what the theorems are about.                               *)
Shape ==
    /\ boot \in {"none", "booting", "up"}
    /\ stage \in Seq(Stages)
    /\ cell \in 0..Len(stage)
    /\ session \in 0..Len(stage)
    /\ place \in [Callers -> {"idle", "awaiting", "ready"}]
    /\ await \in [Callers -> 0..Len(stage)]

(* A caller awaits an attempt.                                             *)
AwaitsOne == \A c \in Callers : place[c] = "awaiting" => await[c] # 0

(* Once an attempt is up there is a session, of an attempt that is up, and *)
(* it is alive; nobody is told before.                                     *)
SessionStands ==
    /\ (\E a \in Attempt : stage[a] = "up") => session # 0
    /\ session # 0 => stage[session] = "up" /\ \E s \in live : s.attempt = session
    /\ \A c \in Callers : place[c] = "ready" => session # 0

IInv == Shape /\ AwaitsOne /\ SessionStands /\ CellIsCurrent

LEMMA InitIInv == Init => IInv
<1> SUFFICES ASSUME Init PROVE IInv OBVIOUS
<1>1. Shape
    BY DEF Init, Shape, Stages
<1>2. AwaitsOne /\ SessionStands /\ CellIsCurrent
    BY DEF Init, AwaitsOne, SessionStands, CellIsCurrent, Running, Attempt
<1> QED BY <1>1, <1>2 DEF IInv

(* A step that leaves the attempts, the cell and the session alone.        *)
LEMMA Aside ==
    ASSUME IInv, UNCHANGED <<cell, stage, session, callers>>,
           boot' \in {"none", "booting", "up"}, live \subseteq live'
    PROVE  IInv'
<1>1. Shape' /\ AwaitsOne' /\ CellIsCurrent'
    BY DEF IInv, Shape, AwaitsOne, CellIsCurrent, Running, Attempt, callers
<1>2. SessionStands'
    BY DEF IInv, SessionStands, Attempt, callers
<1> QED BY <1>1, <1>2 DEF IInv

(* The one attempt under way goes on, or fails and leaves the cell.        *)
LEMMA AttemptMoves ==
    ASSUME IInv, NEW a \in Attempt, stage[a] \in UnderWay,
           NEW s \in UnderWay \cup {"failed"}, To(a, s),
           cell' = IF s = "failed" THEN Drop(a) ELSE cell,
           UNCHANGED <<boot, live, session, callers>>
    PROVE  IInv'
<1>1. /\ stage \in Seq(Stages) /\ Len(stage) \in Nat /\ a \in 1..Len(stage)
      /\ s \in Stages /\ a \in Running /\ cell = a
    BY DEF IInv, Shape, Stages, Attempt, Running, CellIsCurrent
<1>2. /\ stage' \in Seq(Stages) /\ Len(stage') = Len(stage)
      /\ stage'[a] = s /\ \A b \in Attempt \ {a} : stage'[b] = stage[b]
      /\ Attempt' = Attempt
    BY <1>1 DEF To, Attempt
<1>3. cell' \in 0..Len(stage') /\ (s = "failed" => cell' = 0) /\ (s # "failed" => cell' = a)
    BY <1>1, <1>2 DEF Drop
<1>4. Shape' /\ AwaitsOne'
    BY <1>2, <1>3 DEF IInv, Shape, AwaitsOne, callers
<1>5. CellIsCurrent'
  <2>1. \A b \in Attempt \ {a} : stage[b] \notin UnderWay
      BY <1>1 DEF IInv, CellIsCurrent, Running
  <2>2. s = "failed" => s \notin UnderWay
      BY DEF UnderWay
  <2>3. \A b \in Attempt : stage'[b] \in UnderWay => b = a /\ s # "failed"
      BY <1>2, <2>1, <2>2
  <2> QED BY <1>2, <1>3, <2>3 DEF CellIsCurrent, Running
<1>6. SessionStands'
  <2>1. s # "up" /\ stage[a] # "up"
      BY DEF UnderWay
  <2>2. session = 0 \/ session \in Attempt \ {a}
      BY <2>1 DEF IInv, Shape, SessionStands, Attempt
  <2> QED BY <1>2, <2>1, <2>2 DEF IInv, SessionStands, callers
<1> QED BY <1>4, <1>5, <1>6 DEF IInv

(* The attempt that awaits the boot fails with it; there is one at most.   *)
LEMMA BootFailsIInv == ASSUME IInv, BootFails PROVE IInv'
<1>1. /\ Len(stage) \in Nat /\ stage \in Seq(Stages)
      /\ stage' = [b \in Attempt |-> IF stage[b] = "booting" THEN "failed" ELSE stage[b]]
      /\ UNCHANGED <<live, session, place, await>> /\ boot' = "none"
    BY DEF BootFails, IInv, Shape, engine, callers
<1>2. /\ stage' \in Seq(Stages) /\ Len(stage') = Len(stage) /\ Attempt' = Attempt
      /\ \A b \in Attempt :
            stage'[b] = IF stage[b] = "booting" THEN "failed" ELSE stage[b]
    BY <1>1 DEF Attempt, Stages
<1>3. CASE \E b \in Attempt : stage[b] = "booting"
  <2>1. cell \in Attempt /\ stage[cell] = "booting" /\ cell' = 0
      BY <1>3 DEF IInv, CellIsCurrent, Running, UnderWay, BootFails, Drop, Attempt
  <2>2. \A b \in Attempt : stage'[b] \notin UnderWay
      BY <1>2, <2>1 DEF IInv, CellIsCurrent, Running, UnderWay
  <2>3. CellIsCurrent'
      BY <1>2, <2>1, <2>2 DEF CellIsCurrent, Running
  <2>4. Shape' /\ AwaitsOne'
    <3>1. cell' \in 0..Len(stage')
      <4>1. cell' = 0
          BY <2>1
      <4>2. Len(stage') \in Nat
          BY <1>1, <1>2
      <4> QED BY ONLY <4>1, <4>2
    <3>2. boot' \in {"none", "booting", "up"}
        BY <1>1
    <3> QED BY <1>1, <1>2, <3>1, <3>2 DEF IInv, Shape, AwaitsOne
  <2>5. SessionStands'
    <3>1. \A b \in Attempt : stage'[b] = "up" <=> stage[b] = "up"
        BY <1>2
    <3>2. session = 0 \/ session \in Attempt
        BY DEF IInv, Shape, Attempt
    <3> QED BY <1>1, <1>2, <3>1, <3>2 DEF IInv, SessionStands
  <2> QED BY <2>3, <2>4, <2>5 DEF IInv
<1>4. CASE \A b \in Attempt : stage[b] # "booting"
  <2>1. \A b \in Attempt : stage'[b] = stage[b]
      BY <1>2, <1>4
  <2>2. cell' = cell
      BY <1>4 DEF BootFails, IInv, Shape, Attempt
  <2>3. CellIsCurrent'
      BY <1>2, <2>1, <2>2 DEF IInv, Shape, CellIsCurrent, Running, Attempt
  <2>4. Shape' /\ AwaitsOne'
      BY <1>1, <1>2, <2>2 DEF IInv, Shape, AwaitsOne
  <2>5. SessionStands'
      BY <1>1, <1>2, <2>1 DEF IInv, Shape, SessionStands, Attempt
  <2> QED BY <2>3, <2>4, <2>5 DEF IInv
<1> QED BY <1>3, <1>4

LEMMA CreatedIInv ==
    ASSUME IInv, NEW a \in Attempt, Created(a)
    PROVE  IInv'
<1>1. /\ stage \in Seq(Stages) /\ Len(stage) \in Nat /\ a \in 1..Len(stage)
      /\ stage[a] = "creating" /\ a \in Running /\ cell = a
      /\ stage' = [stage EXCEPT ![a] = "up"] /\ session' = a
      /\ live' = live \cup {Alive(a)} /\ UNCHANGED <<boot, cell, place, await>>
    BY DEF Created, To, IInv, Shape, Attempt, Running, UnderWay, CellIsCurrent, callers
<1>2. /\ stage' \in Seq(Stages) /\ Len(stage') = Len(stage) /\ Attempt' = Attempt
      /\ stage'[a] = "up" /\ \A b \in Attempt \ {a} : stage'[b] = stage[b]
    BY <1>1 DEF Stages, Attempt
<1>3. Shape' /\ AwaitsOne'
    BY <1>1, <1>2 DEF IInv, Shape, AwaitsOne
<1>4. CellIsCurrent'
    BY <1>1, <1>2 DEF IInv, CellIsCurrent, Running, UnderWay
<1>5. SessionStands'
  <2>1. a # 0 /\ Alive(a).attempt = a /\ Alive(a) \in live'
      BY <1>1 DEF Alive
  <2> QED BY <1>1, <1>2, <2>1 DEF SessionStands
<1> QED BY <1>3, <1>4, <1>5 DEF IInv

LEMMA EnsureIInv ==
    ASSUME IInv, NEW c \in Callers, Ensure(c)
    PROVE  IInv'
<1>1. /\ place[c] = "idle" /\ place' = [place EXCEPT ![c] = "awaiting"]
      /\ place' \in [Callers -> {"idle", "awaiting", "ready"}]
      /\ UNCHANGED <<live, session>>
    BY DEF Ensure, engine, IInv, Shape
<1>2. CASE InFlight /\ await' = [await EXCEPT ![c] = cell] /\ UNCHANGED <<boot, cell, stage>>
  <2>1. Shape' /\ AwaitsOne'
      BY <1>1, <1>2 DEF IInv, Shape, AwaitsOne, InFlight
  <2>2. CellIsCurrent' /\ SessionStands'
      BY <1>1, <1>2 DEF IInv, Shape, CellIsCurrent, Running, Attempt, SessionStands
  <2> QED BY <2>1, <2>2 DEF IInv
<1>3. CASE /\ ~InFlight /\ stage' = Append(stage, "booting") /\ cell' = Len(stage) + 1
           /\ await' = [await EXCEPT ![c] = Len(stage) + 1] /\ Boot
  <2>0. PICK n \in Nat : n = Len(stage) + 1
      BY DEF IInv, Shape
  <2>1. /\ cell = 0 /\ n # 0 /\ Len(stage) \in Nat
        /\ stage' \in Seq(Stages) /\ Len(stage') = n
        /\ stage'[n] = "booting" /\ \A b \in Attempt : stage'[b] = stage[b] /\ b # n
        /\ Attempt' = Attempt \cup {n}
      BY <1>3, <2>0 DEF IInv, Shape, InFlight, Stages, UnderWay, Attempt
  <2>2. 0..Len(stage) \subseteq 0..n /\ n \in 0..n
      BY <2>0, <2>1
  <2>3. await' \in [Callers -> 0..n] /\ await'[c] = n /\ cell' = n
        /\ \A d \in Callers \ {c} : await'[d] = await[d]
    <3>1. await \in [Callers -> 0..n]
        BY <2>2 DEF IInv, Shape
    <3> QED BY <1>3, <2>0, <2>2, <3>1
  <2>4. boot' \in {"none", "booting", "up"}
      BY <1>3 DEF Boot, IInv, Shape
  <2>5. session' \in 0..n
      BY <1>1, <2>2 DEF IInv, Shape
  <2>6. Shape'
      BY <1>1, <2>1, <2>2, <2>3, <2>4, <2>5 DEF Shape
  <2>7. AwaitsOne'
      BY <1>1, <2>1, <2>3 DEF IInv, Shape, AwaitsOne
  <2>8. CellIsCurrent'
    <3>1. \A b \in Attempt : stage[b] \notin UnderWay
        BY <2>1 DEF IInv, CellIsCurrent, Running, Attempt
    <3> QED BY <2>1, <2>3, <3>1 DEF CellIsCurrent, Running
  <2>9. SessionStands'
    <3>1. session = 0 \/ session \in Attempt
        BY DEF IInv, Shape, Attempt
    <3>2. \A d \in Callers : place'[d] = "ready" => place[d] = "ready"
        BY <1>1 DEF IInv, Shape
    <3> QED BY <1>1, <2>1, <3>1, <3>2 DEF IInv, SessionStands
  <2> QED BY <2>6, <2>7, <2>8, <2>9 DEF IInv
<1> QED BY <1>2, <1>3 DEF Ensure

LEMMA SettleIInv ==
    ASSUME IInv, NEW c \in Callers, Settle(c)
    PROVE  IInv'
<1>1. /\ place[c] = "awaiting" /\ UNCHANGED <<boot, cell, stage, live, session, await>>
      /\ place' = [place EXCEPT ![c] = IF stage[await[c]] = "up" THEN "ready" ELSE "idle"]
    BY DEF Settle, engine
<1>2. await[c] \in Attempt
    BY <1>1 DEF IInv, Shape, AwaitsOne, Attempt
<1>3. Shape' /\ AwaitsOne'
    BY <1>1 DEF IInv, Shape, AwaitsOne
<1>4. CellIsCurrent'
    BY <1>1 DEF IInv, CellIsCurrent, Running, Attempt
<1>5. SessionStands'
    BY <1>1, <1>2 DEF IInv, Shape, SessionStands, Attempt
<1> QED BY <1>3, <1>4, <1>5 DEF IInv

LEMMA NextIInv == IInv /\ [Next]_vars => IInv'
<1> SUFFICES ASSUME IInv, [Next]_vars PROVE IInv' OBVIOUS
<1> USE DEF UnderWay
<1>0. boot \in {"none", "booting", "up"}
    BY DEF IInv, Shape
<1>1. CASE UNCHANGED vars
    BY <1>0, <1>1, Aside DEF vars, engine
<1>2. CASE Kickoff \/ BootUp
    BY <1>0, <1>2, Aside DEF Kickoff, BootUp, Boot, engine
<1>3. ASSUME NEW a \in Attempt,
             Booted(a) \/ UserIdLands(a) \/ Listed(a) \/ Wire(a)
      PROVE  IInv'
  <2>1. CASE Booted(a)
      BY <2>1, AttemptMoves DEF Booted, engine
  <2>2. CASE UserIdLands(a)
      BY <2>2, AttemptMoves DEF UserIdLands, engine
  <2>3. CASE Listed(a)
      BY <2>3, AttemptMoves DEF Listed, engine
  <2>4. CASE Wire(a)
      BY <2>4, AttemptMoves DEF Wire, engine
  <2> QED BY <1>3, <2>1, <2>2, <2>3, <2>4
<1>4. ASSUME NEW a \in Attempt,
             UserIdMissing(a) \/ WiringThrows(a) \/ CreateTimesOut(a) \/ CreateRejects(a)
      PROVE  IInv'
  <2>1. stage[a] \in UnderWay /\ Fail(a) /\ UNCHANGED <<boot, live, session, callers>>
      BY <1>4 DEF UserIdMissing, WiringThrows, CreateTimesOut, CreateRejects, engine
  <2> QED BY <2>1, AttemptMoves DEF Fail
<1>5. ASSUME NEW a \in Attempt, CreatedLate(a) PROVE IInv'
    BY <1>0, <1>5, Aside DEF CreatedLate
<1>6. ASSUME NEW m \in Msgs, Arrive(m) PROVE IInv'
    BY <1>0, <1>6, Aside DEF Arrive
<1> QED BY <1>1, <1>2, <1>3, <1>4, <1>5, <1>6, EnsureIInv, SettleIInv, BootFailsIInv,
           CreatedIInv DEF Next, Progress, Engine

(* The invariant of the attempts, the cell and the session.                 *)
THEOREM Invariance == Spec => []IInv
BY InitIInv, NextIInv, PTL DEF Spec

(* ensureSession (bringup.ts): the cell always holds the bring-up that     *)
(* runs, so that one runs at a time and is shared, and never a failed one. *)
THEOREM OneBringUpRuns == Spec => []CellIsCurrent
<1>1. IInv => CellIsCurrent
    BY DEF IInv
<1> QED BY <1>1, Invariance, PTL

(* Whoever's ensureSession resolved finds a session that is alive, of an   *)
(* attempt that succeeded.                                                 *)
THEOREM ResolvedHasSession == Spec => []ReadyHasSession
<1>1. IInv => ReadyHasSession
    BY DEF IInv, SessionStands, ReadyHasSession
<1> QED BY <1>1, Invariance, PTL

-----------------------------------------------------------------------------
(* The messages that have been fetched for.                                *)
Asked == {m \in Inbound : asked[m] > 0}

\* The frames and the events, and what bounds them.
InboxShape ==
    /\ captured \in BOOLEAN
    /\ fetching \in [Convs -> Nat]
    /\ arrived \subseteq Inbound
    /\ pushed \in [Inbound -> 0..MaxPushes]
    /\ delivered \in [Inbound -> Nat]
    /\ missed \subseteq Convs
    /\ \A m \in Inbound : delivered[m] > 0 => m \in arrived

\* The dedupe set holds, once each, messages that were fetched for.
SeenOnce ==
    /\ seen \in Seq(Inbound) /\ Len(seen) <= Cap
    /\ \A i, j \in 1 .. Len(seen) : seen[i] = seen[j] => i = j
    /\ \A i \in 1 .. Len(seen) : asked[seen[i]] > 0

\* A message that the set has dropped was followed by Cap others.
DroppedForOthers ==
    \A m \in Inbound : asked[m] > 0 /\ m \notin ToSet(seen) => Cardinality(Asked \ {m}) >= Cap

InboxInv ==
    /\ asked \in [Inbound -> Nat] /\ IsFiniteSet(Asked)
    /\ SeenOnce /\ DroppedForOthers /\ FetchedOnce

LEMMA InitInbox == InboxInit => InboxShape /\ InboxInv
<1> SUFFICES ASSUME InboxInit PROVE InboxShape /\ InboxInv
    OBVIOUS
<1>1. asked = [m \in Inbound |-> 0] /\ seen = <<>>
    BY DEF InboxInit
<1>2. Asked = {}
    BY <1>1 DEF Asked
<1>3. IsFiniteSet(Asked)
    BY <1>2, FS_EmptySet
<1>4. SeenOnce
    BY <1>1, InboxAssumption DEF SeenOnce
<1>5. DroppedForOthers /\ FetchedOnce
    BY <1>1 DEF DroppedForOthers, FetchedOnce
<1>6. InboxShape
  <2>1. /\ captured = FALSE /\ arrived = {} /\ missed = {}
        /\ fetching = [v \in Convs |-> 0] /\ pushed = [m \in Inbound |-> 0]
        /\ delivered = [m \in Inbound |-> 0]
      BY DEF InboxInit
  <2>2. 0 \in Nat /\ 0 \in 0 .. MaxPushes
      BY InboxAssumption
  <2>3. fetching \in [Convs -> Nat] /\ delivered \in [Inbound -> Nat]
      BY <2>1
  <2>4. pushed \in [Inbound -> 0 .. MaxPushes]
      BY <2>1, <2>2
  <2>5. \A m \in Inbound : ~(delivered[m] > 0)
      BY <2>1
  <2> QED BY <2>1, <2>3, <2>4, <2>5 DEF InboxShape
<1> QED BY <1>1, <1>3, <1>4, <1>5, <1>6 DEF InboxInv

(* A sequence without repetition is no longer than a set that holds it.    *)
LEMMA DistinctBound ==
    ASSUME NEW S, IsFiniteSet(S), NEW s \in Seq(S),
           \A i, j \in 1 .. Len(s) : s[i] = s[j] => i = j
    PROVE  Len(s) <= Cardinality(S)
<1>1. Len(s) \in Nat /\ s \in [1 .. Len(s) -> S]
    OBVIOUS
<1>2. s \in Injection(1 .. Len(s), S)
    BY <1>1 DEF Injection, IsInjective
<1>3. Cardinality(1 .. Len(s)) <= Cardinality(S)
    BY <1>2, FS_Injection
<1>4. Cardinality(1 .. Len(s)) = Len(s)
    BY <1>1, FS_Interval
<1> QED BY <1>3, <1>4

\* Of two finite sets the one that holds the other is no smaller.
LEMMA LargerSet ==
    ASSUME NEW S, NEW T, IsFiniteSet(T), S \subseteq T
    PROVE  /\ IsFiniteSet(S) /\ Cardinality(S) \in Nat /\ Cardinality(T) \in Nat
           /\ Cardinality(S) <= Cardinality(T)
BY FS_Subset, FS_CardinalityType

(* What Remember makes of a set without m.                                 *)
LEMMA RememberFacts ==
    ASSUME SeenOnce, NEW m \in Inbound, ~Fetched(m), seen' = Remember(seen, m)
    PROVE  /\ seen' \in Seq(Inbound) /\ Len(seen') <= Cap
           /\ \A i, j \in 1 .. Len(seen') : seen'[i] = seen'[j] => i = j
           /\ \A i \in 1 .. Len(seen') : seen'[i] \in ToSet(seen) \cup {m}
           /\ \A n \in (ToSet(seen) \cup {m}) \ ToSet(seen') :
                Len(seen') = Cap /\ \A i \in 1 .. Cap : seen'[i] # n
<1> DEFINE t == Append(seen, m)
<1>1. /\ seen \in Seq(Inbound) /\ Len(seen) \in Nat /\ Cap \in Nat /\ Cap > 0 /\ Len(seen) <= Cap
      /\ \A i \in 1 .. Len(seen) : seen[i] # m
      /\ \A n : n \in ToSet(seen) <=> \E i \in 1 .. Len(seen) : n = seen[i]
    BY InboxAssumption DEF SeenOnce, Fetched, ToSet
<1>2. /\ t \in Seq(Inbound) /\ Len(t) = Len(seen) + 1 /\ t[Len(seen) + 1] = m
      /\ \A i \in 1 .. Len(seen) : t[i] = seen[i]
    BY <1>1
<1>3. \A i, j \in 1 .. Len(t) : t[i] = t[j] => i = j
  <2> SUFFICES ASSUME NEW i \in 1 .. Len(t), NEW j \in 1 .. Len(t), t[i] = t[j] PROVE i = j
      OBVIOUS
  <2>1. i \in 1 .. Len(seen) \/ i = Len(seen) + 1
      BY <1>1, <1>2
  <2>2. j \in 1 .. Len(seen) \/ j = Len(seen) + 1
      BY <1>1, <1>2
  <2> HIDE DEF t
  <2> QED BY <1>1, <1>2, <2>1, <2>2 DEF SeenOnce
<1>4. \A n : n \in ToSet(seen) \cup {m} <=> \E i \in 1 .. Len(t) : n = t[i]
  <2>1. ASSUME NEW i \in 1 .. Len(t) PROVE i \in 1 .. Len(seen) \/ i = Len(seen) + 1
      BY <1>1, <1>2
  <2>2. Len(seen) + 1 \in 1 .. Len(t) /\ \A i \in 1 .. Len(seen) : i \in 1 .. Len(t)
      BY <1>1, <1>2
  <2> HIDE DEF t
  <2> QED BY <1>1, <1>2, <2>1, <2>2
<1>5. seen' = IF Len(t) > Cap THEN Tail(t) ELSE t
    BY DEF Remember
<1> HIDE DEF t
<1>6. CASE Len(t) <= Cap
  <2>1. seen' = t
      BY <1>1, <1>2, <1>5, <1>6
  <2>2. \A n : n \in ToSet(seen') <=> \E i \in 1 .. Len(t) : n = t[i]
      BY <1>2, <2>1 DEF ToSet
  <2> QED BY <1>2, <1>3, <1>4, <1>6, <2>1, <2>2
<1>7. CASE Len(t) > Cap
  <2>1. Len(t) = Cap + 1 /\ seen' = Tail(t)
      BY <1>1, <1>2, <1>5, <1>7
  <2>2. seen' \in Seq(Inbound) /\ Len(seen') = Cap
      BY <1>1, <1>2, <2>1
  <2>3. \A i \in 1 .. Cap : seen'[i] = t[i + 1] /\ i + 1 \in 1 .. Len(t)
      BY <1>1, <1>2, <2>1
  <2>4. \A i, j \in 1 .. Cap : seen'[i] = seen'[j] => i = j
      BY <1>1, <1>3, <2>3
  <2>5. \A i \in 1 .. Cap : seen'[i] \in ToSet(seen) \cup {m}
      BY <1>4, <2>3
  <2>6. ASSUME NEW n, n \notin ToSet(seen') PROVE \A i \in 1 .. Cap : seen'[i] # n
      BY <2>2, <2>6 DEF ToSet
  <2> QED BY <1>1, <2>2, <2>4, <2>5, <2>6
<1> QED BY <1>1, <1>2, <1>6, <1>7

(* A fetch for m: m was not in the set, so either it is new or Cap others  *)
(* were fetched for since it was dropped.                                  *)
LEMMA FetchKeeps ==
    ASSUME InboxInv, NEW m \in Inbound, PushFetches(m)
    PROVE  InboxInv'
<1>1. /\ ~Fetched(m) /\ seen' = Remember(seen, m)
      /\ asked' = [asked EXCEPT ![m] = @ + 1]
    BY DEF PushFetches
<1>2. /\ asked' \in [Inbound -> Nat]
      /\ \A n \in Inbound : asked'[n] = IF n = m THEN asked[n] + 1 ELSE asked[n]
      /\ \A n \in Inbound : asked[n] \in Nat
    BY <1>1 DEF InboxInv
<1>3. Asked' = Asked \cup {m}
    BY <1>2 DEF Asked
<1>4. IsFiniteSet(Asked')
    BY <1>3, FS_AddElement DEF InboxInv
<1>5. \A n \in Inbound : /\ Cardinality(Asked \ {n}) \in Nat /\ Cardinality(Asked' \ {n}) \in Nat
                         /\ Cardinality(Asked \ {n}) <= Cardinality(Asked' \ {n})
  <2> TAKE n \in Inbound
  <2>1. IsFiniteSet(Asked' \ {n})
      BY <1>4, FS_RemoveElement
  <2>2. Asked \ {n} \subseteq Asked' \ {n}
      BY <1>3
  <2> QED BY <2>1, <2>2, LargerSet
<1>6. /\ seen' \in Seq(Inbound) /\ Len(seen') <= Cap
      /\ \A i, j \in 1 .. Len(seen') : seen'[i] = seen'[j] => i = j
      /\ \A i \in 1 .. Len(seen') : seen'[i] \in ToSet(seen) \cup {m}
      /\ \A n \in (ToSet(seen) \cup {m}) \ ToSet(seen') :
           Len(seen') = Cap /\ \A i \in 1 .. Cap : seen'[i] # n
    BY <1>1, RememberFacts DEF InboxInv
<1>7. ToSet(seen) \subseteq Asked
    BY DEF InboxInv, SeenOnce, ToSet, Asked
<1>8. SeenOnce'
  <2>1. \A n \in Asked' : asked'[n] > 0
      BY <1>2 DEF Asked
  <2>2. \A i \in 1 .. Len(seen') : asked'[seen'[i]] > 0
      BY <1>3, <1>6, <1>7, <2>1
  <2> QED BY <1>6, <2>2 DEF SeenOnce
<1>9. DroppedForOthers'
  <2> SUFFICES ASSUME NEW n \in Inbound, asked'[n] > 0, n \notin ToSet(seen')
               PROVE  Cardinality(Asked' \ {n}) >= Cap
      BY DEF DroppedForOthers
  <2>1. CASE n \in ToSet(seen) \cup {m}
    <3>1. Len(seen') = Cap /\ \A i \in 1 .. Cap : seen'[i] # n
        BY <1>6, <2>1
    <3>2. \A i \in 1 .. Len(seen') : seen'[i] \in Asked' \ {n}
        BY <1>3, <1>6, <1>7, <3>1
    <3>3. seen' \in Seq(Asked' \ {n})
        BY <1>6, <3>2
    <3>4. IsFiniteSet(Asked' \ {n})
        BY <1>4, FS_RemoveElement
    <3>5. Len(seen') <= Cardinality(Asked' \ {n})
        BY <1>6, <3>3, <3>4, DistinctBound
    <3> QED BY <1>5, <3>1, <3>5, InboxAssumption
  <2>2. CASE n \notin ToSet(seen) \cup {m}
    <3>1. asked[n] > 0
        BY <1>2, <2>2
    <3>2. Cardinality(Asked \ {n}) >= Cap
        BY <2>2, <3>1 DEF InboxInv, DroppedForOthers
    <3> QED BY <1>5, <3>2, InboxAssumption
  <2> QED BY <2>1, <2>2
<1>10. FetchedOnce'
  <2> SUFFICES ASSUME NEW n \in Inbound, asked'[n] > 1
               PROVE  Cardinality({q \in Inbound \ {n} : asked'[q] > 0}) >= Cap
      BY DEF FetchedOnce
  <2>1. {q \in Inbound \ {n} : asked'[q] > 0} = Asked' \ {n}
      BY DEF Asked
  <2>2. CASE n = m
    <3>1. asked[m] > 0 /\ m \notin ToSet(seen)
        BY <1>1, <1>2, <2>2 DEF Fetched
    <3>2. Cardinality(Asked \ {n}) >= Cap
        BY <2>2, <3>1 DEF InboxInv, DroppedForOthers
    <3> QED BY <1>5, <2>1, <3>2, InboxAssumption
  <2>3. CASE n # m
    <3>1. asked[n] > 1
        BY <1>2, <2>3
    <3>2. {q \in Inbound \ {n} : asked[q] > 0} = Asked \ {n}
        BY DEF Asked
    <3>3. Cardinality(Asked \ {n}) >= Cap
        BY <3>1, <3>2 DEF InboxInv, FetchedOnce
    <3> QED BY <1>5, <2>1, <3>3, InboxAssumption
  <2> QED BY <2>2, <2>3
<1> QED BY <1>2, <1>4, <1>8, <1>9, <1>10 DEF InboxInv

LEMMA NextInboxInv == InboxInv /\ [InboxNext]_inboxVars => InboxInv'
<1> SUFFICES ASSUME InboxInv, [InboxNext]_inboxVars PROVE InboxInv'
    OBVIOUS
<1>1. CASE UNCHANGED <<seen, asked>>
    BY <1>1 DEF InboxInv, SeenOnce, DroppedForOthers, FetchedOnce, Asked, ToSet
<1>2. ASSUME NEW m \in Inbound, PushFetches(m) PROVE InboxInv'
    BY <1>2, FetchKeeps
<1> QED BY <1>1, <1>2 DEF InboxNext, PushWithContent, PushDropped, Capture, FetchDone, FetchFails,
           inboxVars

LEMMA NextInboxShape == InboxShape /\ [InboxNext]_inboxVars => InboxShape'
<1> SUFFICES ASSUME InboxShape, [InboxNext]_inboxVars PROVE InboxShape'
    OBVIOUS
<1>1. ASSUME NEW m \in Inbound PROVE ConvOf[m] \in Convs
    BY DEF Convs
<1>2. ASSUME NEW m \in Inbound, Frame(m)
      PROVE  /\ pushed' \in [Inbound -> 0..MaxPushes]
             /\ arrived' = arrived \cup {m} /\ arrived' \subseteq Inbound
    BY <1>2, InboxAssumption DEF Frame, InboxShape
<1>3. ASSUME NEW m \in Inbound, PushWithContent(m) PROVE InboxShape'
    BY <1>2, <1>3 DEF PushWithContent, InboxShape
<1>4. ASSUME NEW m \in Inbound, PushDropped(m) PROVE InboxShape'
    BY <1>2, <1>4 DEF PushDropped, InboxShape
<1>5. ASSUME NEW m \in Inbound, PushFetches(m) PROVE InboxShape'
    BY <1>1, <1>2, <1>5 DEF PushFetches, InboxShape
<1>6. CASE Capture
    BY <1>6 DEF Capture, Pump, InboxShape
<1>7. ASSUME NEW v \in Convs, FetchDone(v) PROVE InboxShape'
  <2>1. fetching' \in [Convs -> Nat]
      BY <1>7 DEF FetchDone, InboxShape
  <2>2. delivered' \in [Inbound -> Nat]
      BY <1>7 DEF FetchDone, InboxShape
  <2>3. \A m \in Inbound : delivered'[m] > 0 => m \in arrived
      BY <1>7 DEF FetchDone, InboxShape
  <2> QED BY <1>7, <2>1, <2>2, <2>3 DEF FetchDone, InboxShape
<1>8. ASSUME NEW v \in Convs, FetchFails(v) PROVE InboxShape'
    BY <1>8 DEF FetchFails, InboxShape
<1>9. CASE UNCHANGED inboxVars
    BY <1>9 DEF inboxVars, InboxShape
<1> QED BY <1>3, <1>4, <1>5, <1>6, <1>7, <1>8, <1>9 DEF InboxNext

\* The inbox keeps its shape: the dedupe set never outgrows its cap, and only
\* what has arrived is emitted.
THEOREM InboxTypeCorrect == InboxSpec => []InboxTypeOK
<1>1. InboxShape /\ InboxInv => InboxTypeOK
    BY DEF InboxShape, InboxInv, SeenOnce, InboxTypeOK
<1> QED BY <1>1, InitInbox, NextInboxShape, NextInboxInv, PTL DEF InboxSpec

\* A message is fetched for again only when at least Cap others have been
\* fetched for, for any number of messages and any cap.
THEOREM OneFetchWhileRemembered == InboxSpec => []FetchedOnce
<1>1. InboxInv => FetchedOnce
    BY DEF InboxInv
<1> QED BY <1>1, InitInbox, NextInboxInv, PTL DEF InboxSpec
================================================================================
