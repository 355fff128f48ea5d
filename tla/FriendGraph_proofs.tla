-------------------------- MODULE FriendGraph_proofs ---------------------------
(* Theorems about FriendGraph for any set of users, any number of concurrent   *)
(* reads and of saves in flight, and both kinds of store.                      *)
EXTENDS FriendGraph, TLAPS

-------------------------------------------------------------------------------
(* Saving.                                                                     *)

\* What one access of a save may do to its task.
LEMMA SaveStepType ==
    ASSUME save \in [Savers -> SaveState], stored \in Graph \cup {NoCache},
           NEW p \in Savers, NEW g \in Graph, NEW step, SaveStep(p, step, g)
    PROVE  /\ save' \in [Savers -> SaveState]
           /\ stored' \in Graph \cup {NoCache}
<1>1. Empty \in Graph
  BY DEF Empty, Graph
<1>2. Idle \in SaveState /\ [Idle EXCEPT !.step = "resolved"] \in SaveState
  BY <1>1 DEF Idle, SaveState
<1>3. [step |-> "set", snap |-> g] \in SaveState
  BY DEF SaveState
<1>4. Resolve(p) => save' \in [Savers -> SaveState]
  BY <1>2 DEF Resolve
<1> QED
  BY <1>3, <1>4 DEF SaveStep

LEMMA BeginSaveType ==
    ASSUME save \in [Savers -> SaveState], stored \in Graph \cup {NoCache},
           NEW p \in Savers, NEW g \in Graph, BeginSave(p, g)
    PROVE  /\ save' \in [Savers -> SaveState]
           /\ stored' \in Graph \cup {NoCache}
<1> DEFINE first == IF IsEmptyGraphSnapshot(g) THEN "load" ELSE "set"
<1>1. CASE Prompt
  <2>1. SaveStep(p, first, g)
    BY <1>1 DEF BeginSave
  <2> QED
    BY <2>1, SaveStepType
<1>2. CASE ~Prompt
  <2>1. [step |-> first, snap |-> g] \in SaveState
    BY DEF SaveState
  <2> QED
    BY <1>2, <2>1 DEF BeginSave
<1> QED
  BY <1>1, <1>2

LEMMA SaverMembers ==
    /\ "bridge" \in Savers
    /\ \A t \in Ticks : t \in Savers
    /\ \A r \in Readers : r \in Savers
BY DEF Savers

LEMMA ServerGraphType == ServerGraph \in Graph
BY DEF ServerGraph, Graph

LEMMA FanOutType ==
    ASSUME TypeOK, NEW c \in Graph, FanOut(c)
    PROVE  /\ view' \in [mutuals : SUBSET Users, incoming : SUBSET Users]
           /\ prior' \in Graph
           /\ reported' \in SUBSET Graph
<1>1. Heard(view, prior, c) \in [mutuals : SUBSET Users, incoming : SUBSET Users]
  BY DEF TypeOK, Heard, Added, Removed, Graph
<1> QED
  BY <1>1 DEF TypeOK, FanOut

-------------------------------------------------------------------------------
(* Type correctness.                                                           *)

LEMMA SetSliceType ==
    ASSUME TypeOK, NEW g \in Graph, SetSlice(g)
    PROVE  TypeOK'
<1>1. /\ view' \in [mutuals : SUBSET Users, incoming : SUBSET Users]
      /\ prior' \in Graph
      /\ reported' \in SUBSET Graph
      /\ save' \in [Savers -> SaveState]
      /\ stored' \in Graph \cup {NoCache}
  <2>1. CASE Tick(g)
    <3>1. PICK t \in Ticks : BeginSave(t, g)
      BY <2>1 DEF Tick
    <3>2. save' \in [Savers -> SaveState] /\ stored' \in Graph \cup {NoCache}
      BY <3>1, SaverMembers, BeginSaveType DEF TypeOK
    <3> QED
      BY <2>1, <3>2, FanOutType DEF Tick
  <2>2. CASE UNCHANGED <<prior, store, history>>
    BY <2>2 DEF TypeOK, store, history
  <2> QED
    BY <2>1, <2>2 DEF SetSlice
<1> QED
  BY <1>1 DEF SetSlice, TypeOK, world, life

\* TypeOK holds in every reachable state: whatever the interleaving, the watcher
\* diffs graphs and nothing else, and the cache holds a graph or nothing.
THEOREM TypeCorrect == Spec => []TypeOK
<1>1. Init => TypeOK
  <2> SUFFICES ASSUME Init PROVE TypeOK
    OBVIOUS
  <2>1. Empty \in Graph /\ Idle \in SaveState
    BY DEF Empty, Graph, Idle, SaveState
  <2>2. view \in [mutuals : SUBSET Users, incoming : SUBSET Users]
    BY DEF Init, Watched, Empty
  <2> QED
    BY <2>1, <2>2 DEF Init, TypeOK
<1>2. TypeOK /\ [Next]_vars => TypeOK'
  <2> SUFFICES ASSUME TypeOK, [Next]_vars PROVE TypeOK'
    OBVIOUS
  <2> USE DEF world, store, history, life
  <2>1. ASSUME NEW u \in Users, NEW to \in Relations, Move(u, to) PROVE TypeOK'
    <3>1. server' \in [Users -> Relations]
      BY <2>1 DEF Move, TypeOK
    <3>2. past' \in SUBSET ({"unfriended", "accepted"} \X Users)
      BY <2>1 DEF Move, TypeOK
    <3>3. moves' \in Nat
      BY <2>1 DEF Move, TypeOK
    <3> QED
      BY <2>1, <3>1, <3>2, <3>3 DEF Move, TypeOK
  <2>2. CASE BringUp
    BY <2>2 DEF BringUp, TypeOK
  <2>3. CASE SyncFriendData
    <3>1. [ServerGraph EXCEPT !.incoming = slice.incoming] \in Graph
      BY ServerGraphType DEF TypeOK, Graph
    <3> QED
      BY <2>3, <3>1, SetSliceType DEF SyncFriendData
  <2>4. CASE IncomingFriendSync
    <3>1. [slice EXCEPT !.incoming = ServerGraph.incoming] \in Graph
      BY ServerGraphType DEF TypeOK, Graph
    <3> QED
      BY <2>4, <3>1, SetSliceType DEF IncomingFriendSync
  <2>5. CASE Subscribe
    BY <2>5 DEF Subscribe, TypeOK
  <2>6. CASE LoadCache
    <3>1. Watched(prior') \in [mutuals : SUBSET Users, incoming : SUBSET Users]
      BY <2>6 DEF LoadCache, TypeOK, Watched, Graph
    <3> QED
      BY <2>6, <3>1 DEF LoadCache, TypeOK
  <2>7. CASE BridgeThrows
    BY <2>7 DEF BridgeThrows, TypeOK
  <2>8. CASE SeedBaseline
    <3>1. save' \in [Savers -> SaveState] /\ stored' \in Graph \cup {NoCache}
      BY <2>8, SaverMembers, BeginSaveType DEF SeedBaseline, TypeOK
    <3>2. Watched(slice) \in [mutuals : SUBSET Users, incoming : SUBSET Users]
      BY DEF TypeOK, Watched, Graph
    <3> QED
      BY <2>8, <3>1, <3>2 DEF SeedBaseline, TypeOK
  <2>9. CASE InitialReplay
    <3>1. save' \in [Savers -> SaveState] /\ stored' \in Graph \cup {NoCache}
      BY <2>9, SaverMembers, BeginSaveType DEF InitialReplay, TypeOK
    <3>2. /\ view' \in [mutuals : SUBSET Users, incoming : SUBSET Users]
          /\ prior' \in Graph
          /\ reported' \in SUBSET Graph
      BY <2>9, FanOutType DEF InitialReplay, TypeOK
    <3> QED
      BY <2>9, <3>1, <3>2 DEF InitialReplay, TypeOK
  <2>10. CASE GoLive
    BY <2>10 DEF GoLive, TypeOK, Idle, SaveState, Empty, Graph
  <2>11. ASSUME NEW p \in Savers, ContinueSave(p) PROVE TypeOK'
    <3>1. save[p].snap \in Graph
      BY DEF TypeOK, SaveState
    <3>2. save' \in [Savers -> SaveState] /\ stored' \in Graph \cup {NoCache}
      BY <2>11, <3>1, SaveStepType DEF ContinueSave, TypeOK
    <3> QED
      BY <2>11, <3>2 DEF ContinueSave, TypeOK
  <2>12. ASSUME NEW r \in Readers, StartRead(r) PROVE TypeOK'
    <3>1. save' \in [Savers -> SaveState] /\ stored' \in Graph \cup {NoCache}
      BY <2>12, SaverMembers, BeginSaveType DEF StartRead, TypeOK
    <3> QED
      BY <2>12, <3>1 DEF StartRead, TypeOK
  <2>13. ASSUME NEW r \in Readers, ReadSynced(r) PROVE TypeOK'
    <3>1. save' \in [Savers -> SaveState] /\ stored' \in Graph \cup {NoCache}
      BY <2>13, SaverMembers, BeginSaveType DEF ReadSynced, TypeOK
    <3> QED
      BY <2>13, <3>1 DEF ReadSynced, TypeOK
  <2>14. ASSUME NEW r \in Readers, EndRead(r) PROVE TypeOK'
    BY <2>14 DEF EndRead, TypeOK, Idle, SaveState, Empty, Graph
  <2>15. CASE Restart
    <3>1. clean' \in BOOLEAN
      BY <2>15, Zenon DEF Restart
    <3>2. boots' \in Nat
      BY <2>15 DEF Restart, TypeOK
    <3>3. Empty \in Graph /\ Idle \in SaveState
      BY DEF Empty, Graph, Idle, SaveState
    <3> QED
      BY <2>15, <3>1, <3>2, <3>3 DEF Restart, TypeOK
  <2>16. CASE UNCHANGED vars
    BY <2>16 DEF vars, TypeOK
  <2> QED
    BY <2>1, <2>2, <2>3, <2>4, <2>5, <2>6, <2>7, <2>8, <2>9, <2>10, <2>11, <2>12,
       <2>13, <2>14, <2>15, <2>16 DEF Next, BridgeStep, ReadStep
<1> QED
  BY <1>1, <1>2, PTL DEF Spec

-------------------------------------------------------------------------------
(* The baseline of the previous run.                                           *)

\* Why the guard works although its load and its set are two accesses: while the
\* cache is populated no save of an empty graph gets past its load, so none is
\* on its way to the store.  It says nothing of a cache first populated in this
\* very run, where NeverClobbered fails.
BaselineInv ==
    Populated(atBoot) =>
        /\ Populated(stored)
        /\ \A p \in Savers : save[p].step = "set" => Populated(save[p].snap)

LEMMA GraphPopulated ==
    ASSUME NEW g \in Graph
    PROVE  Populated(g) <=> ~IsEmptyGraphSnapshot(g)
BY NoCacheAssumption DEF Populated

LEMMA SaveStepBaseline ==
    ASSUME TypeOK, BaselineInv, NEW p \in Savers, NEW g \in Graph,
           NEW step \in {"load", "set"}, step = "set" => Populated(g),
           SaveStep(p, step, g), atBoot' = atBoot
    PROVE  BaselineInv'
<1> SUFFICES ASSUME Populated(atBoot)
             PROVE  /\ Populated(stored')
                    /\ \A q \in Savers : save'[q].step = "set" => Populated(save'[q].snap)
  BY DEF BaselineInv, Populated
<1>1. /\ Populated(stored)
      /\ \A q \in Savers : save[q].step = "set" => Populated(save[q].snap)
  BY DEF BaselineInv
<1>2. Resolve(p) /\ Populated(stored')
  BY <1>1 DEF SaveStep
<1>3. save'[p].step # "set"
  BY <1>2 DEF Resolve, Idle, TypeOK
<1>4. \A q \in Savers : q # p => save'[q] = save[q]
  BY <1>2 DEF Resolve, TypeOK
<1> QED
  BY <1>1, <1>2, <1>3, <1>4

LEMMA BeginSaveBaseline ==
    ASSUME TypeOK, BaselineInv, NEW p \in Savers, NEW g \in Graph,
           BeginSave(p, g), atBoot' = atBoot
    PROVE  BaselineInv'
<1> DEFINE first == IF IsEmptyGraphSnapshot(g) THEN "load" ELSE "set"
<1>1. first \in {"load", "set"} /\ (first = "set" => Populated(g))
  BY GraphPopulated
<1>2. CASE Prompt
  BY <1>1, <1>2, SaveStepBaseline DEF BeginSave
<1>3. CASE ~Prompt
  <2>1. /\ save' = [save EXCEPT ![p] = [step |-> first, snap |-> g]]
        /\ stored' = stored
    BY <1>3 DEF BeginSave
  <2> QED
    BY <1>1, <2>1 DEF BaselineInv, TypeOK, Populated
<1> QED
  BY <1>2, <1>3

LEMMA SetSliceBaseline ==
    ASSUME TypeOK, BaselineInv, NEW g \in Graph, SetSlice(g)
    PROVE  BaselineInv'
<1>1. atBoot' = atBoot
  BY DEF SetSlice, life
<1>2. CASE Tick(g)
  BY <1>1, <1>2, SaverMembers, BeginSaveBaseline DEF Tick
<1>3. CASE UNCHANGED <<prior, store, history>>
  BY <1>1, <1>3 DEF store, BaselineInv, Populated
<1> QED
  BY <1>2, <1>3 DEF SetSlice

\* The guard of saveGraphCacheGuarded keeps the baseline of the previous run
\* through the empty boot-time slice, for any number of concurrent savers.
THEOREM BaselineSurvives == Spec => []BaselineSurvivesBoot
<1>1. Init => BaselineInv
  BY DEF Init, BaselineInv, Populated
<1>2. TypeOK /\ BaselineInv /\ [Next]_vars => BaselineInv'
  <2> SUFFICES ASSUME TypeOK, BaselineInv, [Next]_vars PROVE BaselineInv'
    OBVIOUS
  <2>1. CASE UNCHANGED <<stored, save, atBoot>>
    BY <2>1 DEF BaselineInv, Populated
  <2>2. CASE SyncFriendData \/ IncomingFriendSync
    <3>1. /\ [ServerGraph EXCEPT !.incoming = slice.incoming] \in Graph
          /\ [slice EXCEPT !.incoming = ServerGraph.incoming] \in Graph
      BY ServerGraphType DEF TypeOK, Graph
    <3> QED
      BY <2>2, <3>1, SetSliceBaseline DEF SyncFriendData, IncomingFriendSync
  <2>3. CASE SeedBaseline \/ InitialReplay
    <3>1. slice \in Graph /\ BeginSave("bridge", slice) /\ atBoot' = atBoot
      BY <2>3 DEF SeedBaseline, InitialReplay, life, TypeOK
    <3> QED
      BY <3>1, SaverMembers, BeginSaveBaseline
  <2>4. ASSUME NEW p \in Savers, save' = [save EXCEPT ![p] = Idle],
               UNCHANGED <<stored, atBoot>>
        PROVE  BaselineInv'
    BY <2>4 DEF BaselineInv, Populated, Idle, TypeOK
  <2>5. CASE GoLive
    BY <2>4, <2>5, SaverMembers DEF GoLive, life
  <2>6. ASSUME NEW p \in Savers, ContinueSave(p) PROVE BaselineInv'
    <3>1. save[p].snap \in Graph /\ save[p].step \in {"load", "set"}
      BY <2>6 DEF TypeOK, SaveState, ContinueSave
    <3>2. CASE Populated(atBoot)
      <4>1. save[p].step = "set" => Populated(save[p].snap)
        BY <3>2 DEF BaselineInv
      <4> QED
        BY <2>6, <3>1, <4>1, SaveStepBaseline DEF ContinueSave, life
    <3>3. CASE ~Populated(atBoot)
      BY <2>6, <3>3 DEF ContinueSave, life, BaselineInv, Populated
    <3> QED
      BY <3>2, <3>3
  <2>7. ASSUME NEW r \in Readers, StartRead(r) \/ ReadSynced(r) PROVE BaselineInv'
    <3>1. slice \in Graph /\ atBoot' = atBoot
      BY <2>7 DEF StartRead, ReadSynced, life, TypeOK
    <3>2. CASE BeginSave(r, slice)
      BY <3>1, <3>2, SaverMembers, BeginSaveBaseline
    <3>3. CASE UNCHANGED store
      BY <3>1, <3>3, <2>1 DEF store
    <3> QED
      BY <2>7, <3>2, <3>3 DEF StartRead, ReadSynced
  <2>8. ASSUME NEW r \in Readers, EndRead(r) PROVE BaselineInv'
    BY <2>4, <2>8, SaverMembers DEF EndRead, life
  <2>9. CASE Restart
    BY <2>9 DEF Restart, BaselineInv, Populated, Idle
  <2>10. ASSUME NEW u \in Users, NEW to \in Relations, Move(u, to) PROVE BaselineInv'
    BY <2>1, <2>10 DEF Move, store, life
  <2>11. CASE BringUp \/ Subscribe \/ LoadCache \/ BridgeThrows
    BY <2>1, <2>11 DEF BringUp, Subscribe, LoadCache, BridgeThrows, store, life
  <2>12. CASE UNCHANGED vars
    BY <2>1, <2>12 DEF vars
  <2> QED
    BY <2>2, <2>3, <2>5, <2>6, <2>7, <2>8, <2>9, <2>10, <2>11, <2>12
       DEF Next, BridgeStep, ReadStep
<1>3. BaselineInv => BaselineSurvivesBoot
  BY DEF BaselineInv, BaselineSurvivesBoot
<1> QED
  BY <1>1, <1>2, <1>3, TypeCorrect, PTL DEF Spec

-------------------------------------------------------------------------------
(* Accepted requests.                                                          *)

\* Nobody is a friend and a pending outgoing request at once: the server keeps
\* one relation per user, and both slots come in one response.
Coherent(g) == g.mutuals \cap g.outgoing = {}

CoherentInv ==
    /\ Coherent(slice) /\ Coherent(prior)
    /\ stored # NoCache => Coherent(stored)
    /\ \A p \in Savers : Coherent(save[p].snap)

LEMMA SaveStepCoherent ==
    ASSUME TypeOK, CoherentInv, NEW p \in Savers, NEW g, Coherent(g), NEW step,
           SaveStep(p, step, g)
    PROVE  /\ stored' # NoCache => Coherent(stored')
           /\ \A q \in Savers : Coherent(save'[q].snap)
<1>1. Coherent(Empty)
  BY DEF Coherent, Empty
<1>2. stored' # NoCache => Coherent(stored')
  BY DEF SaveStep, CoherentInv
<1>3. Resolve(p) \/ save' = [save EXCEPT ![p] = [step |-> "set", snap |-> g]]
  BY DEF SaveStep
<1>4. save'[p].snap \in {g, Empty} /\ \A q \in Savers : q # p => save'[q] = save[q]
  BY <1>3 DEF Resolve, Idle, TypeOK
<1> QED
  BY <1>1, <1>2, <1>4 DEF CoherentInv

LEMMA BeginSaveCoherent ==
    ASSUME TypeOK, CoherentInv, NEW p \in Savers, NEW g, Coherent(g), BeginSave(p, g)
    PROVE  /\ stored' # NoCache => Coherent(stored')
           /\ \A q \in Savers : Coherent(save'[q].snap)
<1>1. CASE Prompt
  BY <1>1, SaveStepCoherent DEF BeginSave
<1>2. CASE ~Prompt
  <2>1. /\ stored' = stored
        /\ save'[p].snap = g
        /\ \A q \in Savers : q # p => save'[q] = save[q]
    BY <1>2 DEF BeginSave, TypeOK
  <2> QED
    BY <2>1 DEF CoherentInv
<1> QED
  BY <1>1, <1>2

LEMMA SetSliceCoherent ==
    ASSUME TypeOK, CoherentInv, NEW g, Coherent(g), SetSlice(g)
    PROVE  CoherentInv'
<1>1. CASE Tick(g)
  <2>1. PICK t \in Ticks : BeginSave(t, g)
    BY <1>1 DEF Tick
  <2>2. slice' = g /\ prior' = g
    BY <1>1 DEF Tick, FanOut, SetSlice
  <2> QED
    BY <2>1, <2>2, SaverMembers, BeginSaveCoherent DEF CoherentInv
<1>2. CASE UNCHANGED <<prior, store, history>>
  BY <1>2 DEF store, CoherentInv, SetSlice
<1> QED
  BY <1>1, <1>2 DEF SetSlice

LEMMA CoherentStep ==
    ASSUME TypeOK, CoherentInv, [Next]_vars
    PROVE  CoherentInv'
<1> USE DEF store
<1>1. Coherent(Empty) /\ Coherent(ServerGraph)
  BY DEF Coherent, Empty, ServerGraph
<1>2. CASE UNCHANGED <<slice, prior, stored, save>>
  BY <1>2 DEF CoherentInv
<1>3. CASE SyncFriendData \/ IncomingFriendSync
  <2>1. /\ Coherent([ServerGraph EXCEPT !.incoming = slice.incoming])
        /\ Coherent([slice EXCEPT !.incoming = ServerGraph.incoming])
    BY <1>1 DEF CoherentInv, Coherent, ServerGraph, TypeOK, Graph
  <2> QED
    BY <1>3, <2>1, SetSliceCoherent DEF SyncFriendData, IncomingFriendSync
<1>4. CASE SeedBaseline \/ InitialReplay
  <2>1. BeginSave("bridge", slice) /\ slice' = slice /\ prior' = slice
    BY <1>4 DEF SeedBaseline, InitialReplay, FanOut
  <2> QED
    BY <2>1, SaverMembers, BeginSaveCoherent DEF CoherentInv
<1>5. CASE LoadCache
  BY <1>5 DEF LoadCache, CoherentInv
<1>6. CASE GoLive
  BY <1>1, <1>6, SaverMembers DEF GoLive, CoherentInv, Idle, TypeOK
<1>7. ASSUME NEW p \in Savers, ContinueSave(p) PROVE CoherentInv'
  <2>1. SaveStep(p, save[p].step, save[p].snap) /\ slice' = slice /\ prior' = prior
    BY <1>7 DEF ContinueSave
  <2> QED
    BY <2>1, SaveStepCoherent DEF CoherentInv
<1>8. ASSUME NEW r \in Readers, StartRead(r) \/ ReadStep(r) PROVE CoherentInv'
  <2>1. slice' = slice /\ prior' = prior
    BY <1>8 DEF StartRead, ReadStep, ReadSynced, EndRead
  <2>2. CASE BeginSave(r, slice)
    BY <2>1, <2>2, SaverMembers, BeginSaveCoherent DEF CoherentInv
  <2>3. CASE UNCHANGED <<stored, save>>
    BY <2>1, <2>3 DEF CoherentInv
  <2>4. CASE EndRead(r)
    BY <1>1, <2>1, <2>4, SaverMembers DEF EndRead, CoherentInv, Idle, TypeOK
  <2> QED
    BY <1>8, <2>2, <2>3, <2>4 DEF StartRead, ReadStep, ReadSynced
<1>9. CASE Restart
  BY <1>1, <1>9 DEF Restart, CoherentInv, Idle
<1>10. ASSUME NEW u \in Users, NEW to \in Relations, Move(u, to) PROVE CoherentInv'
  BY <1>2, <1>10 DEF Move
<1>11. CASE BringUp \/ Subscribe \/ BridgeThrows
  BY <1>2, <1>11 DEF BringUp, Subscribe, BridgeThrows
<1>12. CASE UNCHANGED vars
  BY <1>2, <1>12 DEF vars
<1> QED
  BY <1>3, <1>4, <1>5, <1>6, <1>7, <1>8, <1>9, <1>10, <1>11, <1>12 DEF Next, BridgeStep

\* request:accepted never names somebody friend:added does not name in the same
\* pass, with any number of reads, saves and restarts in between.
THEOREM AcceptedAreFriends == Spec => AcceptedIsAdded
<1>1. Init => CoherentInv
  BY DEF Init, CoherentInv, Coherent, Empty, Idle
<1>2. TypeOK /\ CoherentInv /\ [Next]_vars => CoherentInv'
  BY CoherentStep
<1>3. CoherentInv =>
        [FannedOut => AcceptedRequests(prior, prior') \subseteq Added(prior, prior').mutuals]_vars
  BY DEF CoherentInv, Coherent, AcceptedRequests, Added
<1> QED
  BY <1>1, <1>2, <1>3, TypeCorrect, PTL DEF Spec, AcceptedIsAdded

-------------------------------------------------------------------------------
(* Reported before saved.  Readers = {}: snapshotFriends saves graphs nobody   *)
(* was told of, as a read right after a login shows.                       *)

\* Whatever is saved or on its way to the store was reported.
ReportInv ==
    /\ stored # NoCache => stored \in reported
    /\ \A p \in Savers : save[p].step \in {"load", "set"} => save[p].snap \in reported

LEMMA SaveStepReported ==
    ASSUME TypeOK, ReportInv, NEW p \in Savers, NEW g \in reported', NEW step,
           SaveStep(p, step, g), reported \subseteq reported'
    PROVE  ReportInv'
<1>1. /\ stored' # NoCache => stored' \in reported'
      /\ Resolve(p) \/ save' = [save EXCEPT ![p] = [step |-> "set", snap |-> g]]
  BY DEF SaveStep, ReportInv
<1>2. save'[p].step \in {"load", "set"} => save'[p].snap \in reported'
  BY <1>1 DEF Resolve, Idle, TypeOK
<1>3. \A q \in Savers : q # p => save'[q] = save[q]
  BY <1>1 DEF Resolve, TypeOK
<1> QED
  BY <1>1, <1>2, <1>3 DEF ReportInv

LEMMA BeginSaveReported ==
    ASSUME TypeOK, ReportInv, NEW p \in Savers, NEW g \in reported',
           BeginSave(p, g), reported \subseteq reported'
    PROVE  ReportInv'
<1> DEFINE first == IF IsEmptyGraphSnapshot(g) THEN "load" ELSE "set"
<1>1. CASE Prompt
  BY <1>1, SaveStepReported DEF BeginSave
<1>2. CASE ~Prompt
  <2>1. /\ save' = [save EXCEPT ![p] = [step |-> first, snap |-> g]]
        /\ stored' = stored
    BY <1>2 DEF BeginSave
  <2> QED
    BY <2>1 DEF ReportInv, TypeOK
<1> QED
  BY <1>1, <1>2

LEMMA SetSliceReported ==
    ASSUME TypeOK, ReportInv, NEW g, SetSlice(g)
    PROVE  ReportInv'
<1>1. CASE Tick(g)
  <2>1. g \in reported' /\ reported \subseteq reported'
    BY <1>1 DEF Tick, FanOut
  <2> QED
    BY <1>1, <2>1, SaverMembers, BeginSaveReported DEF Tick
<1>2. CASE UNCHANGED <<prior, store, history>>
  BY <1>2 DEF store, history, ReportInv
<1> QED
  BY <1>1, <1>2 DEF SetSlice

\* The induction step, also used by the two theorems below.
LEMMA ReportStep ==
    ASSUME Readers = {}, TypeOK, ReportInv, [Next]_vars
    PROVE  ReportInv'
<1>1. CASE UNCHANGED <<stored, save, reported>>
  BY <1>1 DEF ReportInv
<1>2. CASE SyncFriendData \/ IncomingFriendSync
  BY <1>2, SetSliceReported DEF SyncFriendData, IncomingFriendSync
<1>3. CASE SeedBaseline \/ InitialReplay
  <2>1. /\ BeginSave("bridge", slice)
        /\ slice \in reported' /\ reported \subseteq reported'
    BY <1>3 DEF SeedBaseline, InitialReplay, FanOut
  <2> QED
    BY <2>1, SaverMembers, BeginSaveReported
<1>4. CASE GoLive
  BY <1>4, SaverMembers DEF GoLive, ReportInv, history, Idle, TypeOK
<1>5. ASSUME NEW p \in Savers, ContinueSave(p) PROVE ReportInv'
  <2>1. save[p].snap \in reported' /\ reported' = reported
    BY <1>5 DEF ContinueSave, ReportInv, history
  <2> QED
    BY <1>5, <2>1, SaveStepReported DEF ContinueSave
<1>6. CASE Restart
  BY <1>6 DEF Restart, ReportInv, history, Idle
<1>7. ASSUME NEW u \in Users, NEW to \in Relations, Move(u, to) PROVE ReportInv'
  BY <1>1, <1>7 DEF Move, store, history
<1>8. CASE BringUp \/ Subscribe \/ LoadCache \/ BridgeThrows
  BY <1>1, <1>8 DEF BringUp, Subscribe, LoadCache, BridgeThrows, store, history
<1>9. CASE UNCHANGED vars
  BY <1>1, <1>9 DEF vars
<1> QED
  BY <1>2, <1>3, <1>4, <1>5, <1>6, <1>7, <1>8, <1>9 DEF Next, BridgeStep

LEMMA ReportInit == Init => ReportInv
BY DEF Init, ReportInv, Idle

\* A crash at any point leaves a baseline the consumer was brought to, with any
\* number of saves in flight and whatever the order they land in.
THEOREM ReportedBeforeSaved == Readers = {} => (Spec => []BaselineReported)
<1> SUFFICES ASSUME Readers = {} PROVE Spec => []BaselineReported
  OBVIOUS
<1>1. TypeOK /\ ReportInv /\ [Next]_vars => ReportInv'
  BY ReportStep
<1>2. ReportInv => BaselineReported
  BY DEF ReportInv, BaselineReported
<1> QED
  BY <1>1, <1>2, ReportInit, TypeCorrect, PTL DEF Spec

\* Every step of the watcher is a step of the abstract feed or leaves it alone.
LEMMA FeedStep ==
    ASSUME Readers = {}, TypeOK, ReportInv, ReportInv', [Next]_vars
    PROVE  [Feed!Next]_<<reported, stored>>
<1>1. \/ reported' = reported
      \/ \E g \in Graph : reported' = reported \cup {g}
  <2>1. slice \in Graph
    BY DEF TypeOK
  <2>2. /\ [ServerGraph EXCEPT !.incoming = slice.incoming] \in Graph
        /\ [slice EXCEPT !.incoming = ServerGraph.incoming] \in Graph
    BY ServerGraphType DEF TypeOK, Graph
  <2>3. ASSUME NEW g \in Graph, SetSlice(g)
        PROVE  reported' = reported \/ reported' = reported \cup {g}
    BY <2>3 DEF SetSlice, Tick, FanOut, history
  <2>4. CASE SyncFriendData \/ IncomingFriendSync
    BY <2>2, <2>3, <2>4 DEF SyncFriendData, IncomingFriendSync
  <2>5. CASE SeedBaseline \/ InitialReplay
    BY <2>1, <2>5 DEF SeedBaseline, InitialReplay, FanOut
  <2>6. CASE LoadCache \/ BridgeThrows \/ GoLive \/ BringUp \/ Subscribe \/ Restart
    BY <2>6 DEF LoadCache, BridgeThrows, GoLive, BringUp, Subscribe, Restart, history
  <2>7. ASSUME NEW u \in Users, NEW to \in Relations, Move(u, to)
        PROVE  reported' = reported
    BY <2>7 DEF Move, history
  <2>8. ASSUME NEW p \in Savers, ContinueSave(p) PROVE reported' = reported
    BY <2>8 DEF ContinueSave, history
  <2>9. CASE UNCHANGED vars
    BY <2>9 DEF vars
  <2> QED
    BY <2>4, <2>5, <2>6, <2>7, <2>8, <2>9 DEF Next, BridgeStep
<1>2. stored' = stored \/ stored' \in reported'
  <2>1. CASE stored' # NoCache
    BY <2>1 DEF ReportInv
  <2>2. CASE stored' = NoCache
    <3>1. ASSUME NEW p \in Savers, NEW g \in Graph, NEW step, SaveStep(p, step, g)
          PROVE  stored' = stored
      BY <2>2, <3>1, NoCacheAssumption DEF SaveStep
    <3>2. ASSUME NEW p \in Savers, NEW g \in Graph, BeginSave(p, g)
          PROVE  stored' = stored
      BY <3>1, <3>2 DEF BeginSave
    <3>3. slice \in Graph /\ \A p \in Savers : save[p].snap \in Graph
      BY DEF TypeOK, SaveState
    <3>4. ASSUME NEW g \in Graph, SetSlice(g) PROVE stored' = stored
      BY <3>2, <3>4, SaverMembers DEF SetSlice, Tick, store
    <3>5. /\ [ServerGraph EXCEPT !.incoming = slice.incoming] \in Graph
          /\ [slice EXCEPT !.incoming = ServerGraph.incoming] \in Graph
      BY ServerGraphType DEF TypeOK, Graph
    <3>6. CASE SyncFriendData \/ IncomingFriendSync
      BY <3>4, <3>5, <3>6 DEF SyncFriendData, IncomingFriendSync
    <3>7. CASE SeedBaseline \/ InitialReplay
      BY <3>2, <3>3, <3>7, SaverMembers DEF SeedBaseline, InitialReplay
    <3>8. ASSUME NEW p \in Savers, ContinueSave(p) PROVE stored' = stored
      BY <3>1, <3>3, <3>8 DEF ContinueSave
    <3>9. CASE LoadCache \/ BridgeThrows \/ GoLive \/ BringUp \/ Subscribe \/ Restart
      BY <3>9 DEF LoadCache, BridgeThrows, GoLive, BringUp, Subscribe, Restart, store
    <3>10. ASSUME NEW u \in Users, NEW to \in Relations, Move(u, to)
           PROVE  stored' = stored
      BY <3>10 DEF Move, store
    <3>11. CASE UNCHANGED vars
      BY <3>11 DEF vars
    <3> QED
      BY <3>6, <3>7, <3>8, <3>9, <3>10, <3>11 DEF Next, BridgeStep
  <2> QED
    BY <2>1, <2>2
<1> QED
  BY <1>1, <1>2 DEF Feed!Next, Feed!Tell, Feed!Save

\* The watcher implements the abstract feed.
THEOREM WatcherImplementsFeed == Readers = {} => (Spec => ImplementsFeed)
<1> SUFFICES ASSUME Readers = {} PROVE Spec => Feed!Spec
  BY DEF ImplementsFeed
<1>1. Init => Feed!Init
  BY DEF Init, Feed!Init
<1>2. TypeOK /\ ReportInv /\ [Next]_vars => ReportInv'
  BY ReportStep
<1>3. TypeOK /\ ReportInv /\ ReportInv' /\ [Next]_vars => [Feed!Next]_<<reported, stored>>
  BY FeedStep
<1> QED
  BY <1>1, <1>2, <1>3, ReportInit, TypeCorrect, PTL DEF Spec, Feed!Spec

-------------------------------------------------------------------------------
(* The replay of the offline window.                                           *)

\* diffGraph is exact: a consumer that holds p and hears the events of the diff
\* of p and c holds c.
LEMMA DiffExact ==
    ASSUME NEW p \in Graph, NEW c \in Graph
    PROVE  Heard(Watched(p), p, c) = Watched(c)
<1>1. (p.mutuals \cup (c.mutuals \ p.mutuals)) \ (p.mutuals \ c.mutuals) = c.mutuals
  OBVIOUS
<1>2. (p.incoming \cup (c.incoming \ p.incoming)) \ (p.incoming \ c.incoming) = c.incoming
  OBVIOUS
<1> QED
  BY <1>1, <1>2 DEF Heard, Watched, Added, Removed

Replaying == {"seed", "initial", "live"}

\* What carries a consumer's copy from one process to the next: before this
\* process has reported anything the copy is the cached graph, and no save is in
\* flight that could move the cache away from it; afterwards it is `prior`.
ReplayInv ==
    /\ bridge \notin Replaying => \A p \in Savers : save[p] = Idle
    /\ bridge = "hit" => prior = stored
    /\ clean /\ bridge \notin Replaying /\ stored # NoCache => view = Watched(stored)
    /\ clean /\ bridge \in Replaying => view = Watched(prior)

LEMMA FanOutExact ==
    ASSUME TypeOK, NEW g \in Graph, FanOut(g), view = Watched(prior)
    PROVE  view' = Watched(prior')
BY DiffExact DEF FanOut, TypeOK

LEMMA SetSliceReplay ==
    ASSUME TypeOK, ReplayInv, NEW g \in Graph, SetSlice(g)
    PROVE  ReplayInv'
<1>1. bridge' = bridge /\ clean' = clean
  BY DEF SetSlice, life
<1>2. CASE Tick(g)
  BY <1>1, <1>2, FanOutExact DEF Tick, ReplayInv, Replaying
<1>3. CASE UNCHANGED <<prior, store, history>>
  BY <1>1, <1>3 DEF store, history, ReplayInv
<1> QED
  BY <1>2, <1>3 DEF SetSlice

\* Adding up the events of all runs gives the watcher's graph, for any number of
\* restarts between which the last graph was saved.  The events of the offline
\* window are neither lost nor invented.
THEOREM ReplayIsExact == Readers = {} => (Spec => []OfflineReplay)
<1> SUFFICES ASSUME Readers = {} PROVE Spec => []OfflineReplay
  OBVIOUS
<1>1. Init => ReplayInv
  BY DEF Init, ReplayInv, Replaying
<1>2. TypeOK /\ ReportInv /\ ReplayInv /\ [Next]_vars => ReplayInv'
  <2> SUFFICES ASSUME TypeOK, ReportInv, ReplayInv, [Next]_vars PROVE ReplayInv'
    OBVIOUS
  <2>1. CASE UNCHANGED <<bridge, prior, stored, save, view, clean>>
    BY <2>1 DEF ReplayInv
  <2>2. CASE SyncFriendData \/ IncomingFriendSync
    <3>1. /\ [ServerGraph EXCEPT !.incoming = slice.incoming] \in Graph
          /\ [slice EXCEPT !.incoming = ServerGraph.incoming] \in Graph
      BY ServerGraphType DEF TypeOK, Graph
    <3> QED
      BY <2>2, <3>1, SetSliceReplay DEF SyncFriendData, IncomingFriendSync
  <2>3. CASE Subscribe
    BY <2>3 DEF Subscribe, store, history, life, ReplayInv, Replaying
  <2>4. CASE LoadCache
    <3>1. view' = view
      BY <2>4 DEF LoadCache, ReportInv
    <3> QED
      BY <2>4, <3>1 DEF LoadCache, store, life, ReplayInv, Replaying
  <2>5. CASE BridgeThrows
    BY <2>5 DEF BridgeThrows, store, history, life, ReplayInv, Replaying
  <2>6. CASE SeedBaseline
    BY <2>6 DEF SeedBaseline, ReplayInv, Replaying, life
  <2>7. CASE InitialReplay
    <3>1. clean => view = Watched(prior)
      <4>1. CASE bridge = "hit"
        BY <4>1, NoCacheAssumption DEF ReplayInv, Replaying, TypeOK
      <4>2. CASE bridge = "seed"
        BY <4>2 DEF ReplayInv, Replaying
      <4> QED
        BY <2>7, <4>1, <4>2 DEF InitialReplay
    <3>2. slice \in Graph /\ FanOut(slice) /\ clean' = clean /\ bridge' = "initial"
      BY <2>7 DEF InitialReplay, life, TypeOK
    <3>3. clean' => view' = Watched(prior')
      BY <3>1, <3>2, FanOutExact
    <3> QED
      BY <3>2, <3>3 DEF ReplayInv, Replaying
  <2>8. CASE GoLive
    BY <2>8 DEF GoLive, history, life, ReplayInv, Replaying
  <2>9. ASSUME NEW p \in Savers, ContinueSave(p) PROVE ReplayInv'
    <3>1. bridge \in Replaying
      BY <2>9 DEF ContinueSave, ReplayInv, Idle
    <3> QED
      BY <2>9, <3>1 DEF ContinueSave, ReplayInv, history, life, Replaying
  <2>10. CASE Restart
    <3>1. clean' => clean /\ (bridge \in Replaying => stored = prior)
      BY <2>10, Zenon DEF Restart, Replaying
    <3>2. clean' /\ stored' # NoCache => view' = Watched(stored')
      BY <2>10, <3>1 DEF Restart, ReplayInv, history
    <3> QED
      BY <2>10, <3>2 DEF Restart, ReplayInv, Replaying
  <2>11. CASE BringUp
    BY <2>1, <2>11 DEF BringUp, store, history, life
  <2>12. ASSUME NEW u \in Users, NEW to \in Relations, Move(u, to) PROVE ReplayInv'
    BY <2>1, <2>12 DEF Move, store, history, life
  <2>13. CASE UNCHANGED vars
    BY <2>1, <2>13 DEF vars
  <2> QED
    BY <2>2, <2>3, <2>4, <2>5, <2>6, <2>7, <2>8, <2>9, <2>10, <2>11, <2>12, <2>13
       DEF Next, BridgeStep
<1>3. TypeOK /\ ReportInv /\ [Next]_vars => ReportInv'
  BY ReportStep
<1>4. ReplayInv => OfflineReplay
  BY DEF ReplayInv, OfflineReplay, Replaying
<1> QED
  BY <1>1, <1>2, <1>3, <1>4, ReportInit, TypeCorrect, PTL DEF Spec

-------------------------------------------------------------------------------
(* Removed friends.                                                            *)

Unfriended(u) == <<"unfriended", u>> \in past

\* Why a running watcher reports no removal that did not happen, although its
\* baseline may be older than the slice by everything that landed between the
\* replay and the subscription: the slice names a friend only if the server did,
\* and what the slice has lost since the baseline the server had lost.
RemovalInv ==
    /\ \A u \in slice.mutuals : server[u] = "friend" \/ Unfriended(u)
    /\ bridge \in Replaying => \A u \in prior.mutuals \ slice.mutuals : Unfriended(u)

LEMMA SetSliceRemoval ==
    ASSUME TypeOK, RemovalInv, NEW g \in Graph, SetSlice(g),
           g.mutuals = ServerGraph.mutuals \/ g.mutuals = slice.mutuals
    PROVE  /\ RemovalInv'
           /\ bridge = "live" => \A u \in Removed(prior, prior').mutuals : Unfriended(u)
<1>1. slice' = g /\ UNCHANGED <<server, past, bridge>>
  BY DEF SetSlice, world
<1>2. \A u \in g.mutuals : server[u] = "friend" \/ Unfriended(u)
  BY DEF RemovalInv, ServerGraph
<1>3. bridge \in Replaying => \A u \in prior.mutuals \ g.mutuals : Unfriended(u)
  <2>1. \A u \in prior.mutuals : u \in Users
    BY DEF TypeOK, Graph
  <2> QED
    BY <2>1 DEF RemovalInv, ServerGraph
<1>4. CASE Tick(g)
  <2>1. prior' = g /\ bridge = "live"
    BY <1>4 DEF Tick, FanOut
  <2> QED
    BY <1>1, <1>2, <1>3, <2>1 DEF RemovalInv, Unfriended, Removed, Added, Replaying
<1>5. CASE bridge # "live" /\ prior' = prior
  BY <1>1, <1>2, <1>3, <1>5 DEF RemovalInv, Unfriended
<1> QED
  BY <1>4, <1>5 DEF SetSlice

LEMMA RemovalStep ==
    ASSUME TypeOK, RemovalInv, [Next]_vars
    PROVE  /\ RemovalInv'
           /\ FannedOut /\ bridge = "live" =>
                  \A u \in Removed(prior, prior').mutuals : Unfriended(u)
<1>1. CASE SyncFriendData \/ IncomingFriendSync
  <2> DEFINE all == [ServerGraph EXCEPT !.incoming = slice.incoming]
             rest == [slice EXCEPT !.incoming = ServerGraph.incoming]
  <2>1. /\ all \in Graph /\ all.mutuals = ServerGraph.mutuals
        /\ rest \in Graph /\ rest.mutuals = slice.mutuals
    BY ServerGraphType DEF TypeOK, Graph
  <2>2. SetSlice(all) \/ SetSlice(rest)
    BY <1>1 DEF SyncFriendData, IncomingFriendSync
  <2> HIDE DEF all, rest
  <2> QED
    BY <2>1, <2>2, SetSliceRemoval
<1>2. ASSUME UNCHANGED <<server, past, slice, prior>>, bridge' \in Replaying => bridge \in Replaying
      PROVE  RemovalInv'
  BY <1>2 DEF RemovalInv, Unfriended
<1>3. ASSUME SeedBaseline \/ InitialReplay PROVE RemovalInv'
  BY <1>3 DEF SeedBaseline, InitialReplay, FanOut, RemovalInv, Unfriended, world
<1>4. ASSUME NEW u \in Users, NEW to \in Relations, Move(u, to) PROVE RemovalInv'
  <2>1. UNCHANGED <<slice, bridge, prior>> /\ server' = [server EXCEPT ![u] = to]
    BY <1>4 DEF Move
  <2>2. /\ \A v : Unfriended(v) => Unfriended(v)'
        /\ server[u] = "friend" => Unfriended(u)'
    <3>1. CASE server[u] = "friend"
      <4>1. past' = past \cup {<<"unfriended", u>>}
        <5>1. to # "asked"
          BY <1>4, <3>1 DEF Move, Moves
        <5> QED
          BY <1>4, <3>1, <5>1 DEF Move
      <4> QED
        BY <4>1 DEF Unfriended
    <3>2. CASE server[u] # "friend"
      <4>1. \A v : <<"unfriended", v>> # <<"accepted", u>>
        OBVIOUS
      <4>2. past' \in {past \cup {<<"accepted", u>>}, past \ {<<"accepted", u>>}, past}
        BY <1>4, <3>2 DEF Move
      <4> QED
        BY <3>2, <4>1, <4>2 DEF Unfriended
    <3> QED
      BY <3>1, <3>2
  <2> QED
    BY <2>1, <2>2 DEF RemovalInv, TypeOK
<1>5. ASSUME LoadCache PROVE RemovalInv'
  BY <1>5 DEF LoadCache, RemovalInv, Unfriended, Replaying, world
<1>6. ASSUME Restart PROVE RemovalInv'
  <2>1. slice'.mutuals = {} /\ bridge' \notin Replaying
    BY <1>6 DEF Restart, Empty, Replaying
  <2> QED
    BY <2>1 DEF RemovalInv
<1>7. ASSUME BringUp \/ Subscribe \/ BridgeThrows \/ GoLive PROVE RemovalInv'
  <2>1. UNCHANGED <<server, past, slice, prior>>
    BY <1>7 DEF BringUp, Subscribe, BridgeThrows, GoLive, world
  <2>2. bridge' \in Replaying => bridge \in Replaying
    BY <1>7 DEF BringUp, Subscribe, BridgeThrows, GoLive, Replaying
  <2> QED
    BY <1>2, <2>1, <2>2
<1>8. ASSUME NEW p \in Savers, ContinueSave(p) PROVE RemovalInv' /\ prior' = prior
  BY <1>2, <1>8 DEF ContinueSave, world
<1>9. ASSUME NEW r \in Readers, StartRead(r) \/ ReadStep(r) PROVE RemovalInv' /\ prior' = prior
  BY <1>2, <1>9 DEF StartRead, ReadStep, ReadSynced, EndRead, world
<1>10. ASSUME UNCHANGED vars PROVE RemovalInv'
  <2>1. UNCHANGED <<server, past, slice, prior>> /\ bridge' = bridge
    BY <1>10 DEF vars
  <2> QED
    BY <1>2, <2>1
<1>11. \/ prior' = prior \/ bridge # "live" \/ bridge' \notin {"initial", "live"}
       \/ SyncFriendData \/ IncomingFriendSync
  BY <1>8, <1>9 DEF Next, vars, BridgeStep, Move, BringUp, Subscribe, LoadCache, BridgeThrows,
     SeedBaseline, InitialReplay, GoLive, Restart
<1>12. RemovalInv'
  BY <1>1, <1>3, <1>4, <1>5, <1>6, <1>7, <1>8, <1>9, <1>10 DEF Next, BridgeStep
<1>13. CASE FannedOut /\ bridge = "live"
  <2>1. SyncFriendData \/ IncomingFriendSync
    BY <1>11, <1>13 DEF FannedOut
  <2> QED
    BY <1>1, <2>1
<1> QED
  BY <1>12, <1>13

\* friend:removed of a running watcher means unfriend or block, with any number of
\* syncs between its replay and its subscription, reads, saves and restarts.
THEOREM RemovalsAreReal == Spec => RemovedMeansUnfriended
<1>1. Init => RemovalInv
  BY DEF Init, RemovalInv, Empty, Replaying
<1>2. TypeOK /\ RemovalInv /\ [Next]_vars =>
        /\ RemovalInv'
        /\ [FannedOut /\ bridge = "live" =>
              \A u \in Removed(prior, prior').mutuals : <<"unfriended", u>> \in past]_vars
  BY RemovalStep DEF Unfriended
<1> QED
  BY <1>1, <1>2, TypeCorrect, PTL DEF Spec, RemovedMeansUnfriended
================================================================================
