---------------------------- MODULE FriendGraphFeed ----------------------------
(* What the diff-style friend events promise about their persisted baseline,   *)
(* whatever the DataStore does: a graph may be saved only after it was         *)
(* reported, so a process that dies right after a save never skips an event    *)
(* on its next run.  Abstract specification of FriendGraph.                    *)
(* Source: src/src/api/friends/subscriptions.ts, events.ts.                    *)
CONSTANTS Graphs,      \* every friend graph a snapshot can hold
          NoCache      \* the cache key is absent

VARIABLES told,        \* graphs the consumer has been brought to, over all runs
          saved        \* the graph under FRIEND_GRAPH_CACHE_KEY

Init == /\ told = {}
        /\ saved = NoCache

\* The consumer is brought to one more graph, by events or as first baseline.
Tell == \E g \in Graphs : told' = told \cup {g}

\* A graph the consumer already knows (or learns in this very step) is saved.
Save == saved' \in told'

Next == /\ Tell \/ UNCHANGED told
        /\ Save \/ UNCHANGED saved

Spec == Init /\ [][Next]_<<told, saved>>
================================================================================
