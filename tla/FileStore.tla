------------------------------- MODULE FileStore -------------------------------
(* FileDataStore: a map in memory, one JSON file, and one flush per write.  A   *)
(* flush serialises the whole map in the call, awaits mkdir, then writes the    *)
(* file.  The values are abstracted to the number of the write that made them.  *)
EXTENDS Naturals

CONSTANTS
    Keys,
    Fifo,         \* TRUE: overlapping mkdir calls complete in the order made
    TornWrites,   \* TRUE: the process can be killed inside writeFileSync
    MaxOps        \* bound: writes over all process lives

ASSUME StoreAssumption == /\ Fifo \in BOOLEAN
                          /\ TornWrites \in BOOLEAN
                          /\ MaxOps \in Nat

\* ver is the write that put the entry there or deleted it, 0 for none.
Entry == [ver : Nat, there : BOOLEAN]
Map == [Keys -> Entry]
Fresh == [k \in Keys |-> [ver |-> 0, there |-> FALSE]]

Kinds == {"set", "setSync", "delete"}
Flush == [id : Nat, key : Keys, kind : Kinds, out : Map]

VARIABLES
    cache,        \* the Map in memory
    disk,         \* what loadSync makes of the file
    pending,      \* flushes whose mkdir is outstanding
    ops,          \* writes made
    acked,        \* history: by key, the last set whose promise resolved
    gone,         \* history: by key, the last delete whose promise resolved
    failedLast    \* history: the flush of the last write was rejected

vars == <<cache, disk, pending, ops, acked, gone, failedLast>>

Later(i, j) == IF i < j THEN j ELSE i

\* flush(): `out` is the map as it is in the call.
StartFlush(k, kind) ==
    pending' = pending \cup {[id |-> ops', key |-> k, kind |-> kind, out |-> cache']}

Write(k, there) ==
    /\ ops < MaxOps
    /\ ops' = ops + 1
    /\ cache' = [cache EXCEPT ![k] = [ver |-> ops + 1, there |-> there]]
    /\ failedLast' = FALSE
    /\ UNCHANGED disk

-------------------------------------------------------------------------------
Init ==
    /\ cache = Fresh
    /\ disk = Fresh
    /\ pending = {}
    /\ ops = 0
    /\ acked = [k \in Keys |-> 0]
    /\ gone = [k \in Keys |-> 0]
    /\ failedLast = FALSE

\* Mutant: set() drops the promise of its flush, as setSync does.
SetUnawaited(k) ==
    /\ Write(k, TRUE)
    /\ StartFlush(k, "setSync")
    /\ acked' = [acked EXCEPT ![k] = ops + 1]
    /\ UNCHANGED gone

Set(k) ==
    /\ Write(k, TRUE)
    /\ StartFlush(k, "set")
    /\ UNCHANGED <<acked, gone>>

SetSync(k) ==
    /\ Write(k, TRUE)
    /\ StartFlush(k, "setSync")
    /\ UNCHANGED <<acked, gone>>

\* A key that is not in the map resolves at once, without a flush.
Delete(k) ==
    \/ /\ cache[k].there
       /\ Write(k, FALSE)
       /\ StartFlush(k, "delete")
       /\ UNCHANGED <<acked, gone>>
    \/ /\ ~cache[k].there
       /\ gone' = [gone EXCEPT ![k] = Later(@, cache[k].ver)]
       /\ UNCHANGED <<cache, disk, pending, ops, acked, failedLast>>

InTurn(f) == Fifo => \A g \in pending : f.id <= g.id

\* mkdir is back, writeFileSync replaces the file and the promise resolves.
FlushLands(f) ==
    /\ InTurn(f)
    /\ disk' = f.out
    /\ pending' = pending \ {f}
    /\ acked' = IF f.kind = "set" THEN [acked EXCEPT ![f.key] = Later(@, f.id)] ELSE acked
    /\ gone' = IF f.kind = "delete" THEN [gone EXCEPT ![f.key] = Later(@, f.id)] ELSE gone
    /\ UNCHANGED <<cache, ops, failedLast>>

\* mkdir or the write is refused: the promise rejects and the map stays ahead.
FlushFails(f) ==
    /\ InTurn(f)
    /\ pending' = pending \ {f}
    /\ failedLast' = (failedLast \/ f.id = ops)
    /\ UNCHANGED <<cache, disk, ops, acked, gone>>

\* The process ends with its flushes and another constructs the store.  Killed
\* between truncation and write, it leaves a file that does not parse.
Restart ==
    /\ \/ disk' = disk
       \/ TornWrites /\ pending # {} /\ disk' = Fresh
    /\ cache' = disk'
    /\ pending' = {}
    /\ failedLast' = FALSE
    /\ UNCHANGED <<ops, acked, gone>>

Next ==
    \/ \E k \in Keys : Set(k) \/ SetSync(k) \/ Delete(k)
    \/ \E f \in pending : FlushLands(f) \/ FlushFails(f)
    \/ Restart

Spec == Init /\ [][Next]_vars

-------------------------------------------------------------------------------
(* Properties.                                                                 *)

\* Every variable keeps its shape, and a write is flushed once.
TypeOK ==
    /\ cache \in Map /\ disk \in Map
    /\ pending \in SUBSET Flush
    /\ \A f, g \in pending : f.id = g.id => f = g
    /\ ops \in Nat
    /\ acked \in [Keys -> Nat] /\ gone \in [Keys -> Nat]
    /\ failedLast \in BOOLEAN

\* data-store.ts:61-62: once set() has resolved, the file holds its entry or a
\* later one of the key, through any number of other writes, failed flushes and
\* restarts.
SetIsDurable == \A k \in Keys : acked[k] <= disk[k].ver

\* data-store.ts:83-84: a store with nothing outstanding, whose last flush was
\* not refused, has in its file what it has in memory: an eager flush on every
\* write leaves no residue.
Converged == pending = {} /\ ~failedLast => disk = cache

-------------------------------------------------------------------------------
(* What the documentation says and the code does not keep; see the README.     *)

\* data-store.ts:70: once delete() has resolved, the entry it found or found
\* missing is not in the file to come back from.
DeleteIsDurable == \A k \in Keys : disk[k].there => disk[k].ver > gone[k]
================================================================================
