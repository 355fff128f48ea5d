------------------------------ MODULE FriendGraph ------------------------------
(* The friend-graph watcher behind friend:added, friend:removed,               *)
(* request:received, request:cancelled and request:accepted: one process life  *)
(* after another of bridgeUserSliceToGraphDiff, the guarded cache it shares    *)
(* with the read path (snapshotFriends), the bundle's user slice it watches,   *)
(* and the Snap server the slice is synced from.                               *)
(*                                                                             *)
(* Each action is the code between two awaits.  Ids stand for themselves;      *)
(* timestamps, names and the legacy cache key are abstracted away.             *)
EXTENDS Naturals, FiniteSets

CONSTANTS
    Users,       \* user ids of other people
    Readers,     \* concurrent snapshotFriends() calls, authenticate()'s included
    Ticks,       \* bound: fire-and-forget saves of ticks in flight at once
    Prompt,      \* TRUE: the store applies a set inside the call (File, Memory)
    NoCache,     \* loadGraphCache's undefined
    MaxMoves,    \* bound: moves on the server
    MaxBoots     \* bound: process lives

ASSUME PromptAssumption == Prompt \in BOOLEAN
ASSUME BoundAssumption == MaxMoves \in Nat /\ MaxBoots \in Nat

Graph == [mutuals : SUBSET Users, outgoing : SUBSET Users, incoming : SUBSET Users]

ASSUME NoCacheAssumption == NoCache \notin Graph

Empty == [mutuals |-> {}, outgoing |-> {}, incoming |-> {}]

Savers == {"bridge"} \cup Readers \cup Ticks
ASSUME SaverAssumption == /\ "bridge" \notin Readers \cup Ticks
                          /\ Readers \cap Ticks = {}

VARIABLES
    server,      \* each user's relation to us, as the server has it
    up,          \* the chat bundle is loaded in this process
    slice,       \* state.user of the bundle's store
    bridge,      \* where bridgeUserSliceToGraphDiff stands
    prior,       \* its `prior`
    stored,      \* the value under FRIEND_GRAPH_CACHE_KEY
    save,        \* saveGraphCacheGuarded calls, by caller
    reader,      \* snapshotFriends calls
    view,        \* history: the mutuals and requests a consumer derives from events
    reported,    \* history: graphs the consumer was brought to
    past,        \* history: <<"unfriended", u>> and <<"accepted", u>> facts
    atBoot,      \* history: the cache this process life started with
    clean,       \* history: every earlier life ended with `prior` saved
    late,        \* history: somebody subscribed in this life after bring-up
    moves, boots

store == <<stored, save>>
history == <<view, reported>>
world == <<server, past, moves>>
life == <<boots, atBoot, clean>>
vars == <<server, up, slice, bridge, prior, stored, save, reader, view, reported,
          past, atBoot, clean, late, moves, boots>>

-------------------------------------------------------------------------------
(* The graph, its diff and what a consumer makes of the diff.                  *)

IsEmptyGraphSnapshot(g) == g.mutuals = {} /\ g.outgoing = {} /\ g.incoming = {}

Populated(cached) == cached # NoCache /\ ~IsEmptyGraphSnapshot(cached)

Added(p, c) == [mutuals  |-> c.mutuals \ p.mutuals,
                outgoing |-> c.outgoing \ p.outgoing,
                incoming |-> c.incoming \ p.incoming]

\* Mutant of Removed: the graphs are taken the wrong way round.
RemovedSwapped(p, c) == Added(p, c)

Removed(p, c) == Added(c, p)

\* Mutant: a request that left the outgoing slot is taken for accepted.
AcceptedOrWithdrawn(p, c) == p.outgoing \ c.outgoing

AcceptedRequests(p, c) == p.outgoing \cap c.mutuals

\* The consumer's own copy after fanOut has emitted the diff of p and c.
Heard(v, p, c) ==
    [mutuals  |-> (v.mutuals \cup Added(p, c).mutuals) \ Removed(p, c).mutuals,
     incoming |-> (v.incoming \cup Added(p, c).incoming) \ Removed(p, c).incoming]

Watched(g) == [mutuals |-> g.mutuals, incoming |-> g.incoming]

\* fanOut(current) followed by prior = current.
FanOut(c) == /\ view' = Heard(view, prior, c)
             /\ prior' = c
             /\ reported' = reported \cup {c}

-------------------------------------------------------------------------------
(* saveGraphCacheGuarded: an empty snapshot first loads the cache and gives up  *)
(* when that is populated; everything else is written.                         *)

Idle == [step |-> "idle", snap |-> Empty]

\* The call has resolved: a tick dropped the promise, the others still await it.
Resolve(p) ==
    save' = [save EXCEPT ![p] = IF p \in Ticks THEN Idle ELSE [Idle EXCEPT !.step = "resolved"]]

\* Mutant: the guard is gone, as before the fix its comment describes.
UnguardedStep(p, step, g) == /\ stored' = g
                             /\ Resolve(p)

SaveStep(p, step, g) ==
    \/ /\ step = "load"
       /\ Populated(stored)
       /\ Resolve(p)
       /\ UNCHANGED stored
    \/ /\ step = "load"
       /\ ~Populated(stored)
       /\ save' = [save EXCEPT ![p] = [step |-> "set", snap |-> g]]
       /\ UNCHANGED stored
    \/ /\ step = "set"
       /\ stored' = g
       /\ Resolve(p)

\* The synchronous head of the call; a Prompt store does its first access in it.
BeginSave(p, g) ==
    LET first == IF IsEmptyGraphSnapshot(g) THEN "load" ELSE "set"
    IN  IF Prompt THEN SaveStep(p, first, g)
        ELSE /\ save' = [save EXCEPT ![p] = [step |-> first, snap |-> g]]
             /\ UNCHANGED stored

ContinueSave(p) ==
    /\ save[p].step \in {"load", "set"}
    /\ SaveStep(p, save[p].step, save[p].snap)
    /\ UNCHANGED <<world, up, slice, bridge, prior, reader, history, life, late>>

-------------------------------------------------------------------------------
(* The server and the bundle: external.                                        *)

Relations == {"none", "sent", "asked", "friend"}

Moves == {<<"none", "sent">>, <<"none", "asked">>, <<"sent", "friend">>,
          <<"sent", "none">>, <<"asked", "friend">>, <<"asked", "none">>,
          <<"friend", "none">>}

ServerGraph == [mutuals  |-> {u \in Users : server[u] = "friend"},
                outgoing |-> {u \in Users : server[u] = "sent"},
                incoming |-> {u \in Users : server[u] = "asked"}]

\* A relation changes, from this account on any device or from the other side.
Move(u, to) ==
    /\ moves < MaxMoves
    /\ <<server[u], to>> \in Moves
    /\ server' = [server EXCEPT ![u] = to]
    /\ past' = CASE server[u] = "friend" -> past \cup {<<"unfriended", u>>}
                 [] server[u] = "asked" /\ to = "friend" -> past \cup {<<"accepted", u>>}
                 [] to = "asked" -> past \ {<<"accepted", u>>}
                 [] OTHER -> past
    /\ moves' = moves + 1
    /\ UNCHANGED <<up, slice, bridge, prior, store, reader, history, life, late>>

\* bringUp: the store exists, its user slice still empty.
BringUp ==
    /\ ~up
    /\ up' = TRUE
    /\ UNCHANGED <<world, slice, bridge, prior, store, reader, history, life, late>>

\* Mutant: a tick saves first and reports only what changes the mutuals.
SaveBeforeReport(g) ==
    /\ bridge = "live"
    /\ \E t \in Ticks : save[t] = Idle /\ BeginSave(t, g)
    /\ prior' = g
    /\ IF prior.mutuals = g.mutuals THEN UNCHANGED history
       ELSE /\ view' = Heard(view, prior, g)
            /\ reported' = reported \cup {g}

\* Mutant: the composite equality watches the mutuals slot only.
WatchMutualsOnly(g) ==
    /\ bridge = "live"
    /\ IF g.mutuals = slice.mutuals THEN UNCHANGED <<prior, store, history>>
       ELSE /\ FanOut(g)
            /\ \E t \in Ticks : save[t] = Idle /\ BeginSave(t, g)

\* The watcher's listener: fan out, advance prior, save without waiting.
Tick(g) ==
    /\ bridge = "live"
    /\ FanOut(g)
    /\ \E t \in Ticks : save[t] = Idle /\ BeginSave(t, g)

\* The bundle replaces slots of its slice; the listeners run inside setState.
SetSlice(g) ==
    /\ up
    /\ slice' = g
    /\ \/ Tick(g)
       \/ bridge # "live" /\ UNCHANGED <<prior, store, history>>
    /\ UNCHANGED <<world, up, bridge, reader, life, late>>

\* SyncFriendData carries mutuals and outgoing requests, IncomingFriendSync,
\* which the bundle cascades into, the incoming ones.  Fresh arrays each time.
SyncFriendData ==
    SetSlice([ServerGraph EXCEPT !.incoming = slice.incoming])

IncomingFriendSync ==
    SetSlice([slice EXCEPT !.incoming = ServerGraph.incoming])

-------------------------------------------------------------------------------
(* The watcher.                                                                *)

\* on(event): the first diff-style subscription starts the watcher, the later
\* ones only register on the bus.
Subscribe ==
    /\ bridge' = IF bridge = "off" THEN "ctx" ELSE bridge
    /\ late' = (late \/ up)
    /\ UNCHANGED <<world, up, slice, prior, store, reader, history, life>>

\* loadGraphCache reads the store once the context is there.  A consumer that
\* never heard of the graph before starts from what is loaded.
LoadCache ==
    /\ bridge = "ctx"
    /\ \/ /\ stored # NoCache
          /\ bridge' = "hit"
          /\ prior' = stored
          /\ view' = IF reported = {} THEN Watched(stored) ELSE view
       \/ /\ stored = NoCache
          /\ bridge' = "miss"
          /\ UNCHANGED <<prior, view>>
    /\ UNCHANGED <<world, up, slice, store, reader, reported, life, late>>

\* userSlice() throws before bring-up: the un-awaited bridge promise rejects
\* and #graphDiffInstalled stays set.
BridgeThrows ==
    /\ bridge \in {"hit", "miss"}
    /\ ~up
    /\ bridge' = "dead"
    /\ UNCHANGED <<world, up, slice, prior, store, reader, history, life, late>>

\* No cache: the live slice is the baseline, saved before anything else.
SeedBaseline ==
    /\ bridge = "miss"
    /\ up
    /\ prior' = slice
    /\ view' = Watched(slice)
    /\ reported' = reported \cup {slice}
    /\ BeginSave("bridge", slice)
    /\ bridge' = "seed"
    /\ UNCHANGED <<world, up, slice, reader, life, late>>

\* Mutant: the initial replay is left to the first tick.
SkipReplay ==
    /\ up
    /\ \/ bridge = "hit"
       \/ bridge = "seed" /\ save["bridge"].step = "resolved"
    /\ prior' = slice
    /\ BeginSave("bridge", slice)
    /\ bridge' = "initial"
    /\ UNCHANGED <<world, up, slice, reader, history, life, late>>

\* The diff of the baseline with the slice of this moment, then its save.
InitialReplay ==
    /\ up
    /\ \/ bridge = "hit"
       \/ bridge = "seed" /\ save["bridge"].step = "resolved"
    /\ FanOut(slice)
    /\ BeginSave("bridge", slice)
    /\ bridge' = "initial"
    /\ UNCHANGED <<world, up, slice, reader, life, late>>

\* subscribeUserSlice primes itself from the slice of now, without a callback.
GoLive ==
    /\ bridge = "initial"
    /\ save["bridge"].step = "resolved"
    /\ bridge' = "live"
    /\ save' = [save EXCEPT !["bridge"] = Idle]
    /\ UNCHANGED <<world, up, slice, prior, stored, reader, history, life, late>>

-------------------------------------------------------------------------------
(* The read path.                                                              *)

\* ensureSynced: an empty mutuals slot makes the read wait for a syncFriends().
StartRead(r) ==
    /\ up
    /\ reader[r] = "idle"
    /\ \/ /\ slice.mutuals # {}
          /\ reader' = [reader EXCEPT ![r] = "saving"]
          /\ BeginSave(r, slice)
       \/ /\ slice.mutuals = {}
          /\ reader' = [reader EXCEPT ![r] = "syncing"]
          /\ UNCHANGED store
    /\ UNCHANGED <<world, up, slice, bridge, prior, history, life, late>>

\* syncFriends() settled, by a landed sync or a swallowed failure; the incoming
\* requests it cascades into may not be there yet.
ReadSynced(r) ==
    /\ reader[r] = "syncing"
    /\ reader' = [reader EXCEPT ![r] = "saving"]
    /\ BeginSave(r, slice)
    /\ UNCHANGED <<world, up, slice, bridge, prior, history, life, late>>

EndRead(r) ==
    /\ reader[r] = "saving"
    /\ save[r].step = "resolved"
    /\ reader' = [reader EXCEPT ![r] = "idle"]
    /\ save' = [save EXCEPT ![r] = Idle]
    /\ UNCHANGED <<world, up, slice, bridge, prior, stored, history, life, late>>

-------------------------------------------------------------------------------
\* The process ends, anywhere: what is in flight and in memory is gone.
Restart ==
    /\ boots < MaxBoots
    /\ boots' = boots + 1
    /\ up' = FALSE
    /\ slice' = Empty
    /\ bridge' = "off"
    /\ prior' = Empty
    /\ save' = [p \in Savers |-> Idle]
    /\ reader' = [r \in Readers |-> "idle"]
    /\ late' = FALSE
    /\ atBoot' = stored
    /\ clean' = (clean /\ (bridge \in {"seed", "initial", "live"} => stored = prior))
    /\ UNCHANGED <<world, stored, history>>

Init ==
    /\ server \in [Users -> Relations]
    /\ up = FALSE
    /\ slice = Empty
    /\ bridge = "off"
    /\ prior = Empty
    /\ stored = NoCache
    /\ save = [p \in Savers |-> Idle]
    /\ reader = [r \in Readers |-> "idle"]
    /\ view = Watched(Empty)
    /\ reported = {}
    /\ past = {}
    /\ atBoot = NoCache
    /\ clean = TRUE
    /\ late = FALSE
    /\ moves = 0
    /\ boots = 0

BridgeStep == LoadCache \/ BridgeThrows \/ SeedBaseline \/ InitialReplay \/ GoLive

ReadStep(r) == ReadSynced(r) \/ EndRead(r)

Next ==
    \/ \E u \in Users, to \in Relations : Move(u, to)
    \/ BringUp
    \/ SyncFriendData
    \/ IncomingFriendSync
    \/ Subscribe
    \/ BridgeStep
    \/ \E p \in Savers : ContinueSave(p)
    \/ \E r \in Readers : StartRead(r) \/ ReadStep(r)
    \/ Restart

Spec == Init /\ [][Next]_vars

\* Promises settle; authenticate() is called; the consumer keeps refreshing.
\* The syncs are strongly fair because the bound Ticks can hold one back while
\* the other one's save is in flight.
Fairness ==
    /\ WF_vars(BringUp)
    /\ SF_vars(SyncFriendData)
    /\ SF_vars(IncomingFriendSync)
    /\ WF_vars(BridgeStep)
    /\ \A p \in Savers : WF_vars(ContinueSave(p))
    /\ \A r \in Readers : WF_vars(ReadStep(r))

FairSpec == Spec /\ Fairness

-------------------------------------------------------------------------------
(* Properties.                                                                 *)

SaveState == [step : {"idle", "load", "set", "resolved"}, snap : Graph]

\* Every variable keeps its shape; in particular `prior` is always a graph,
\* never loadGraphCache's undefined.
TypeOK ==
    /\ server \in [Users -> Relations]
    /\ up \in BOOLEAN
    /\ slice \in Graph
    /\ bridge \in {"off", "ctx", "hit", "miss", "seed", "initial", "live", "dead"}
    /\ prior \in Graph
    /\ stored \in Graph \cup {NoCache}
    /\ save \in [Savers -> SaveState]
    /\ reader \in [Readers -> {"idle", "syncing", "saving"}]
    /\ view \in [mutuals : SUBSET Users, incoming : SUBSET Users]
    /\ reported \in SUBSET Graph
    /\ past \in SUBSET ({"unfriended", "accepted"} \X Users)
    /\ atBoot \in Graph \cup {NoCache}
    /\ clean \in BOOLEAN
    /\ late \in BOOLEAN
    /\ moves \in Nat
    /\ boots \in Nat

\* events.ts:46-52: deltas of the offline window are replayed.  When every
\* earlier process ended with its last graph saved, a consumer that only adds up
\* the events of all runs holds exactly the watcher's graph once the watcher has
\* replayed.
OfflineReplay ==
    clean /\ bridge \in {"initial", "live"} => view = Watched(prior)

\* subscriptions.ts reports before it saves: a graph the consumer was never
\* brought to is never the persisted baseline, whenever the process dies and in
\* whatever order the saves of the bridge and of its ticks land.
BaselineReported == stored # NoCache => stored \in reported

\* The same, as a refinement: the watcher implements the abstract feed.
Feed == INSTANCE FriendGraphFeed WITH Graphs <- Graph, told <- reported, saved <- stored
ImplementsFeed == Feed!Spec

\* snapshot-builders.ts:58-61: the empty slice of a booting bundle never wipes
\* the baseline left by the previous run, whoever saves it and however the loads
\* and sets of concurrent saves interleave.
BaselineSurvivesBoot == Populated(atBoot) => Populated(stored)

\* Once the server stops changing and the consumer keeps refreshing, a watcher
\* that came up has reported exactly the server's graph.
EventuallyReported ==
    <>[](bridge \in {"off", "dead", "live"} /\ (bridge = "live" => prior = ServerGraph))

\* A step that emits events.
FannedOut == bridge' \in {"initial", "live"} /\ reader' = reader /\ prior' # prior

\* events.ts:36-40: whoever request:accepted names is announced by friend:added
\* in the same pass, whatever the cached, seeded or live graph it is diffed with.
AcceptedIsAdded ==
    [][FannedOut => AcceptedRequests(prior, prior') \subseteq Added(prior, prior').mutuals]_vars

\* events.ts:41-42: friend:removed means unfriend or block, for every delta a
\* running watcher reports.
RemovedMeansUnfriended ==
    [][FannedOut /\ bridge = "live" =>
        \A u \in Removed(prior, prior').mutuals : <<"unfriended", u>> \in past]_vars

-------------------------------------------------------------------------------
(* What the documentation says and the code does not keep; see the README.     *)

\* events.ts:41-42, of the replay against a booting slice as well.
ReplayedRemovalIsReal ==
    [][FannedOut => \A u \in Removed(prior, prior').mutuals : <<"unfriended", u>> \in past]_vars

\* snapshot-builders.ts:56-57: saving never clobbers a previously good cache
\* with an empty snapshot.
NeverClobbered == [][Populated(stored) => Populated(stored')]_stored

\* subscriptions.ts:140-142: a delta does not wait for the next bundle tick,
\* which may never come.
LiveIsCurrent == bridge = "live" => prior = slice

\* events.ts:30-32: request:cancelled means the request went without us having
\* accepted it.
CancelledMeansRevoked ==
    [][FannedOut => \A u \in Removed(prior, prior').incoming : <<"accepted", u>> \notin past]_vars

\* bundle/register/subscribe.ts:59-60: subscribing again after authenticate()
\* brings real events.
ResubscribeWorks == late ~> (bridge = "live" \/ ~late)
================================================================================
