--------------------------- MODULE Storage_proofs ----------------------------
(* Proofs about the file store and the browser's storage over it, for every    *)
(* set of keys, calls and programs and every number of writes.  Durability is  *)
(* proved for an orderly file system: flushes land in the order they were      *)
(* started and no write of the file is torn.                                   *)
EXTENDS BrowserStorage, FiniteSetTheorems, TLAPS

\* The file system the theorems are about.
Orderly == Fifo /\ ~TornWrites

-----------------------------------------------------------------------------
(* FileStore, on any file system.                                            *)

\* No map, in memory, in the file or under way, has a write that was not made.
Bounded ==
    /\ \A k \in Keys : disk[k].ver <= ops /\ cache[k].ver <= ops
    /\ \A f \in pending : f.id <= ops /\ \A k \in Keys : f.out[k].ver <= ops

ShapeInv == TypeOK /\ Bounded

LEMMA InitShape == Init => ShapeInv
<1> SUFFICES ASSUME Init PROVE ShapeInv OBVIOUS
<1>1. Fresh \in Map /\ \A k \in Keys : Fresh[k].ver = 0
    BY DEF Fresh, Map, Entry
<1>2. TypeOK
    BY <1>1 DEF Init, TypeOK
<1>3. /\ pending = {} /\ ops = 0 /\ 0 <= 0
      /\ \A k \in Keys : disk[k].ver = 0 /\ cache[k].ver = 0
    BY <1>1 DEF Init
<1> QED BY <1>2, <1>3 DEF ShapeInv, Bounded

LEMMA WriteShape ==
    ASSUME ShapeInv, NEW k \in Keys, NEW there \in BOOLEAN, NEW kind \in Kinds,
           Write(k, there), StartFlush(k, kind), UNCHANGED <<acked, gone>>
    PROVE  ShapeInv'
<1> DEFINE new == [id |-> ops', key |-> k, kind |-> kind, out |-> cache']
<1>1. /\ ops \in Nat /\ ops' = ops + 1 /\ disk' = disk /\ failedLast' = FALSE
      /\ cache' = [cache EXCEPT ![k] = [ver |-> ops + 1, there |-> there]]
      /\ pending' = pending \cup {new}
    BY DEF Write, StartFlush, ShapeInv, TypeOK
<1>2. cache \in Map /\ cache' \in Map
    BY <1>1 DEF ShapeInv, TypeOK, Map, Entry
<1>3. \A j \in Keys : cache'[j].ver \in Nat /\ cache'[j].ver <= ops'
    BY <1>1, <1>2 DEF ShapeInv, Bounded, Map, Entry
<1>4. new \in Flush
    BY <1>1, <1>2 DEF Flush
<1>5. \A f \in pending : /\ f \in Flush /\ f.id <= ops /\ f.id # new.id
                        /\ \A j \in Keys : f.out[j].ver <= ops' /\ f.id <= ops'
    BY <1>1 DEF ShapeInv, TypeOK, Bounded, Flush, Map, Entry
<1>6. \A f, g \in pending' : f.id = g.id => f = g
  <2>1. \A f, g \in pending : f.id = g.id => f = g
      BY DEF ShapeInv, TypeOK
  <2> HIDE DEF new
  <2> QED BY <1>1, <1>5, <2>1
<1>7. TypeOK'
  <2>1. pending' \in SUBSET Flush
      BY <1>1, <1>4 DEF ShapeInv, TypeOK
  <2>2. disk' \in Map /\ acked' \in [Keys -> Nat] /\ gone' \in [Keys -> Nat]
      BY <1>1 DEF ShapeInv, TypeOK
  <2>3. ops' \in Nat
      BY <1>1
  <2>4. failedLast' \in BOOLEAN
      BY <1>1
  <2> QED BY <1>2, <1>6, <2>1, <2>2, <2>3, <2>4 DEF TypeOK
<1>8. \A f \in pending' : f.id <= ops' /\ \A j \in Keys : f.out[j].ver <= ops'
  <2>1. new.id <= ops' /\ \A j \in Keys : new.out[j].ver <= ops'
      BY <1>1, <1>3
  <2>2. \A f \in pending : f.id <= ops' /\ \A j \in Keys : f.out[j].ver <= ops'
      BY <1>1, <1>5 DEF Flush
  <2> HIDE DEF new
  <2> QED BY <1>1, <2>1, <2>2
<1>9. \A j \in Keys : disk'[j].ver <= ops'
    BY <1>1 DEF ShapeInv, TypeOK, Bounded, Map, Entry
<1> QED BY <1>3, <1>7, <1>8, <1>9 DEF ShapeInv, Bounded

LEMMA NextShape == ShapeInv /\ [Next]_vars => ShapeInv'
<1> SUFFICES ASSUME ShapeInv, [Next]_vars PROVE ShapeInv'
    OBVIOUS
<1>1. ASSUME NEW k \in Keys, Set(k) \/ SetSync(k) PROVE ShapeInv'
    BY <1>1, WriteShape DEF Set, SetSync, Kinds
<1>2. ASSUME NEW k \in Keys, Delete(k) PROVE ShapeInv'
  <2>1. CASE Write(k, FALSE) /\ StartFlush(k, "delete") /\ UNCHANGED <<acked, gone>>
      BY <2>1, WriteShape DEF Kinds
  <2>2. CASE /\ gone' = [gone EXCEPT ![k] = Later(@, cache[k].ver)]
             /\ UNCHANGED <<cache, disk, pending, ops, acked, failedLast>>
    <3>1. gone' \in [Keys -> Nat]
        BY <2>2 DEF ShapeInv, TypeOK, Map, Entry, Later
    <3> QED BY <2>2, <3>1 DEF ShapeInv, TypeOK, Bounded
  <2> QED BY <1>2, <2>1, <2>2 DEF Delete
<1>3. ASSUME NEW f \in pending, FlushLands(f) PROVE ShapeInv'
  <2>1. /\ disk' = f.out /\ pending' = pending \ {f}
        /\ acked' = IF f.kind = "set" THEN [acked EXCEPT ![f.key] = Later(@, f.id)] ELSE acked
        /\ gone' = IF f.kind = "delete" THEN [gone EXCEPT ![f.key] = Later(@, f.id)] ELSE gone
        /\ UNCHANGED <<cache, ops, failedLast>>
      BY <1>3 DEF FlushLands
  <2>2. f \in Flush
      BY DEF ShapeInv, TypeOK
  <2>3. acked' \in [Keys -> Nat] /\ gone' \in [Keys -> Nat]
      BY <2>1, <2>2 DEF ShapeInv, TypeOK, Flush, Later
  <2> QED BY <2>1, <2>2, <2>3 DEF ShapeInv, TypeOK, Bounded, Flush
<1>4. ASSUME NEW f \in pending, FlushFails(f) PROVE ShapeInv'
  <2>1. failedLast' \in BOOLEAN
      BY <1>4 DEF FlushFails, ShapeInv, TypeOK
  <2> QED BY <1>4, <2>1 DEF FlushFails, ShapeInv, TypeOK, Bounded
<1>5. CASE Restart
  <2>1. Fresh \in Map /\ \A k \in Keys : Fresh[k].ver = 0
      BY DEF Fresh, Map, Entry
  <2>2. disk' \in Map /\ cache' = disk' /\ ops' = ops /\ pending' = {}
        /\ UNCHANGED <<acked, gone>> /\ failedLast' = FALSE
      BY <1>5, <2>1 DEF Restart, ShapeInv, TypeOK
  <2>3. \A k \in Keys : disk'[k].ver <= ops
      BY <1>5, <2>1 DEF Restart, ShapeInv, TypeOK, Bounded
  <2> QED BY <2>2, <2>3 DEF ShapeInv, TypeOK, Bounded
<1>6. CASE UNCHANGED vars
    BY <1>6 DEF vars, ShapeInv, TypeOK, Bounded
<1> QED BY <1>1, <1>2, <1>3, <1>4, <1>5, <1>6 DEF Next

\* The store's state keeps its shape and a write is flushed once, in whatever
\* order flushes land and even if a write of the file is torn.
THEOREM TypeCorrect == Spec => []TypeOK
<1>1. ShapeInv => TypeOK
    BY DEF ShapeInv
<1> QED BY <1>1, InitShape, NextShape, PTL DEF Spec

-----------------------------------------------------------------------------
(* FileStore, on an orderly file system.                                     *)

\* What is older is behind what is newer: file, then flushes by id, then memory.
Ordered ==
    /\ \A k \in Keys : disk[k].ver <= cache[k].ver /\ cache[k].ver <= ops
    /\ \A f \in pending : f.id <= ops /\ f.out[f.key].ver = f.id
    /\ \A f \in pending, k \in Keys :
        disk[k].ver <= f.out[k].ver /\ f.out[k].ver <= cache[k].ver
    /\ \A f, g \in pending : f.id < g.id =>
        \A k \in Keys : f.out[k].ver <= g.out[k].ver

\* The newest flush is of the map as it is, and the last to be outstanding.
Newest ==
    \/ failedLast
    \/ pending = {} /\ disk = cache
    \/ \E f \in pending : f.id = ops /\ f.out = cache

IInv == TypeOK /\ Ordered /\ Newest /\ SetIsDurable

LEMMA InitIInv == Init => IInv
<1> SUFFICES ASSUME Init PROVE IInv OBVIOUS
<1>1. Fresh \in Map /\ \A k \in Keys : Fresh[k].ver = 0
    BY DEF Fresh, Map, Entry
<1>2. TypeOK
    BY <1>1 DEF Init, TypeOK
<1>3. Ordered
    BY <1>1 DEF Init, Ordered
<1>4. Newest
    BY DEF Init, Newest
<1>5. SetIsDurable
  <2>1. \A k \in Keys : disk[k].ver = 0 /\ acked[k] = 0
      BY <1>1 DEF Init
  <2>2. 0 <= 0
      OBVIOUS
  <2> QED BY <2>1, <2>2 DEF SetIsDurable
<1> QED BY <1>2, <1>3, <1>4, <1>5 DEF IInv

\* A write with its flush puts memory and the new flush ahead of everything.
LEMMA WriteKeeps ==
    ASSUME IInv, NEW k \in Keys, NEW there \in BOOLEAN, NEW kind \in Kinds,
           Write(k, there), StartFlush(k, kind), UNCHANGED <<acked, gone>>
    PROVE  IInv'
<1> USE DEF IInv
<1> DEFINE new == [id |-> ops', key |-> k, kind |-> kind, out |-> cache']
<1>1. /\ ops' = ops + 1
      /\ cache' = [cache EXCEPT ![k] = [ver |-> ops + 1, there |-> there]]
      /\ failedLast' = FALSE
      /\ disk' = disk
      /\ pending' = pending \cup {new}
    BY DEF Write, StartFlush
<1>2. cache' \in Map
    BY <1>1 DEF TypeOK, Map, Entry
<1>3. \A j \in Keys : cache'[j].ver = IF j = k THEN ops + 1 ELSE cache[j].ver
    BY <1>1 DEF TypeOK, Map
<1>4. new \in Flush
    BY <1>1, <1>2 DEF TypeOK, Flush
<1>5. \A f \in pending : f.id \in Nat /\ f.id < new.id
    BY <1>1 DEF TypeOK, Flush, Ordered
<1>6. TypeOK'
  <2>1. disk' \in Map /\ pending' \in SUBSET Flush /\ ops' \in Nat
      BY <1>1, <1>4 DEF TypeOK
  <2>2. \A f \in pending : f.id # new.id
      BY <1>4, <1>5 DEF Flush
  <2>3. \A f, g \in pending' : f.id = g.id => f = g
    <3>1. \A f, g \in pending : f.id = g.id => f = g
        BY DEF TypeOK
    <3> HIDE DEF new
    <3> QED BY <1>1, <2>2, <3>1
  <2>4. acked' \in [Keys -> Nat] /\ gone' \in [Keys -> Nat] /\ failedLast' \in BOOLEAN
      BY <1>1 DEF TypeOK
  <2> QED BY <1>2, <2>1, <2>3, <2>4 DEF TypeOK
<1>7. \A f \in pending, j \in Keys : f.out[j].ver \in Nat
    BY DEF TypeOK, Flush, Map, Entry
<1>8. \A j \in Keys : disk[j].ver \in Nat /\ cache[j].ver \in Nat
    BY DEF TypeOK, Map, Entry
<1>9. \A j \in Keys : cache[j].ver <= cache'[j].ver /\ cache'[j].ver <= ops'
    BY <1>1, <1>3, <1>8 DEF Ordered, TypeOK
<1>10. \A f \in pending, j \in Keys : f.out[j].ver <= cache'[j].ver
  <2>1. \A f \in pending, j \in Keys : f.out[j].ver <= cache[j].ver
      BY DEF Ordered
  <2>2. \A j \in Keys : cache'[j].ver \in Nat
      BY <1>2 DEF Map, Entry
  <2> QED BY <2>1, <2>2, <1>7, <1>8, <1>9
<1>11. new.out[new.key].ver = new.id
    BY <1>1, <1>3
<1>12. \A j \in Keys : disk[j].ver <= cache'[j].ver
  <2>1. \A j \in Keys : disk[j].ver <= cache[j].ver
      BY DEF Ordered
  <2>2. \A j \in Keys : cache'[j].ver \in Nat
      BY <1>2 DEF Map, Entry
  <2> QED BY <2>1, <2>2, <1>8, <1>9
<1>13. Ordered'
    <2>1. \A j \in Keys : disk'[j].ver <= cache'[j].ver /\ cache'[j].ver <= ops'
        BY <1>1, <1>9, <1>12
    <2>2. \A f \in pending' : f.id <= ops' /\ f.out[f.key].ver = f.id
        BY <1>1, <1>5, <1>11, <1>6 DEF Ordered, TypeOK
    <2>3. \A f \in pending', j \in Keys :
            disk'[j].ver <= f.out[j].ver /\ f.out[j].ver <= cache'[j].ver
      <3>1. \A f \in pending, j \in Keys :
              disk'[j].ver <= f.out[j].ver /\ f.out[j].ver <= cache'[j].ver
          BY <1>1, <1>10 DEF Ordered
      <3>2. \A j \in Keys : cache'[j].ver \in Nat
          BY <1>2 DEF Map, Entry
      <3>3. \A j \in Keys :
              disk'[j].ver <= new.out[j].ver /\ new.out[j].ver <= cache'[j].ver
          BY <1>1, <1>12, <3>2
      <3> QED BY <1>1, <3>1, <3>3
    <2>4. \A f, g \in pending' : f.id < g.id =>
            \A j \in Keys : f.out[j].ver <= g.out[j].ver
      <3> SUFFICES ASSUME NEW f \in pending', NEW g \in pending', f.id < g.id,
                          NEW j \in Keys
                   PROVE  f.out[j].ver <= g.out[j].ver
          OBVIOUS
      <3>1. CASE g = new
        <4>1. f \in pending
            BY <1>1, <3>1, <1>4 DEF Flush
        <4> QED BY <3>1, <4>1, <1>10
      <3>2. CASE g \in pending
        <4>1. f \in pending
          <5>1. g.id < new.id /\ g.id \in Nat /\ new.id \in Nat
              BY <3>2, <1>5, <1>4 DEF Flush
          <5>2. f # new
              BY <5>1
          <5> QED BY <1>1, <5>2
        <4> QED BY <3>2, <4>1 DEF Ordered
      <3> QED BY <1>1, <3>1, <3>2
    <2> QED BY <2>1, <2>2, <2>3, <2>4 DEF Ordered
<1>14. Newest'
  <2>1. new \in pending' /\ new.id = ops' /\ new.out = cache'
      BY <1>1
  <2> QED BY <2>1 DEF Newest
<1>15. SetIsDurable'
    BY <1>1 DEF SetIsDurable
<1> QED BY <1>6, <1>13, <1>14, <1>15

LEMMA StepIInv ==
    ASSUME Orderly, IInv, [Next]_vars
    PROVE  IInv'
<1> USE DEF IInv
<1>1. ASSUME NEW k \in Keys, Set(k) PROVE IInv'
    BY <1>1, WriteKeeps DEF Set, Kinds
<1>2. ASSUME NEW k \in Keys, SetSync(k) PROVE IInv'
    BY <1>2, WriteKeeps DEF SetSync, Kinds
<1>3. ASSUME NEW k \in Keys, Delete(k) PROVE IInv'
  <2>1. CASE Write(k, FALSE) /\ StartFlush(k, "delete") /\ UNCHANGED <<acked, gone>>
      BY <2>1, WriteKeeps DEF Kinds
  <2>2. CASE /\ gone' = [gone EXCEPT ![k] = Later(@, cache[k].ver)]
             /\ UNCHANGED <<cache, disk, pending, ops, acked, failedLast>>
    <3>1. gone' \in [Keys -> Nat]
        BY <2>2 DEF TypeOK, Map, Entry, Later
    <3> QED BY <2>2, <3>1 DEF TypeOK, Ordered, Newest, SetIsDurable
  <2> QED BY <1>3, <2>1, <2>2 DEF Delete
<1>4. ASSUME NEW f \in pending, FlushLands(f) PROVE IInv'
  <2>1. /\ disk' = f.out /\ pending' = pending \ {f}
        /\ acked' = IF f.kind = "set" THEN [acked EXCEPT ![f.key] = Later(@, f.id)] ELSE acked
        /\ gone' = IF f.kind = "delete" THEN [gone EXCEPT ![f.key] = Later(@, f.id)] ELSE gone
        /\ UNCHANGED <<cache, ops, failedLast>>
      BY <1>4 DEF FlushLands
  <2>2. f \in Flush /\ \A g \in pending : g \in Flush
      BY DEF TypeOK
  <2>3. \A g \in pending' : f.id < g.id
      BY <1>4, <2>1, <2>2 DEF Orderly, FlushLands, InTurn, TypeOK, Flush
  <2>4. acked' \in [Keys -> Nat] /\ gone' \in [Keys -> Nat]
      BY <2>1, <2>2 DEF TypeOK, Flush, Later
  <2>5. TypeOK'
      BY <2>1, <2>2, <2>4 DEF TypeOK, Flush
  <2>6. Ordered'
    <3>1. \A k \in Keys : disk'[k].ver <= cache'[k].ver /\ cache'[k].ver <= ops'
        BY <2>1 DEF Ordered
    <3>2. \A g \in pending', k \in Keys :
            disk'[k].ver <= g.out[k].ver /\ g.out[k].ver <= cache'[k].ver
        BY <2>1, <2>3 DEF Ordered
    <3> QED BY <2>1, <3>1, <3>2 DEF Ordered
  <2>7. Newest'
    <3>1. CASE failedLast
        BY <2>1, <3>1 DEF Newest
    <3>2. CASE f.id = ops
      <4>1. \A g \in pending : g.id \in Nat /\ g.id <= ops
          BY <2>2 DEF Ordered, Flush
      <4>2. ops \in Nat
          BY DEF TypeOK
      <4>3. pending' = {}
        <5> SUFFICES ASSUME NEW g \in pending' PROVE FALSE OBVIOUS
        <5>1. g.id \in Nat /\ g.id <= ops
            BY <4>1, <2>1
        <5> QED BY <2>3, <3>2, <4>2, <5>1
      <4>4. \A h \in pending : h.id = ops => h = f
          BY <3>2 DEF TypeOK
      <4>5. failedLast \/ f.out = cache
          BY <4>4 DEF Newest
      <4> QED BY <2>1, <4>3, <4>5 DEF Newest
    <3>3. CASE ~failedLast /\ f.id # ops
      <4>1. PICK h \in pending : h.id = ops /\ h.out = cache
          BY <3>3 DEF Newest
      <4>2. h \in pending'
          BY <2>1, <3>3, <4>1
      <4> QED BY <2>1, <4>1, <4>2 DEF Newest
    <3> QED BY <3>1, <3>2, <3>3
  <2>8. SetIsDurable'
    <3> SUFFICES ASSUME NEW k \in Keys PROVE acked'[k] <= disk'[k].ver
        BY DEF SetIsDurable
    <3>1. /\ acked[k] <= disk[k].ver /\ disk[k].ver <= f.out[k].ver
          /\ f.out[f.key].ver = f.id
        BY DEF SetIsDurable, Ordered
    <3>2. acked[k] \in Nat /\ disk[k].ver \in Nat /\ f.out[k].ver \in Nat /\ f.id \in Nat
        BY <2>2 DEF TypeOK, Flush, Map, Entry
    <3>3. acked'[k] = acked[k] \/ (k = f.key /\ acked'[k] = Later(acked[k], f.id))
        BY <2>1 DEF TypeOK
    <3> QED BY <2>1, <3>1, <3>2, <3>3 DEF Later
  <2> QED BY <2>5, <2>6, <2>7, <2>8
<1>5. ASSUME NEW f \in pending, FlushFails(f) PROVE IInv'
  <2>1. /\ pending' = pending \ {f}
        /\ failedLast' = (failedLast \/ f.id = ops)
        /\ UNCHANGED <<cache, disk, ops, acked, gone>>
      BY <1>5 DEF FlushFails
  <2>2. TypeOK'
    <3>1. failedLast' \in BOOLEAN
        BY <2>1 DEF TypeOK
    <3> QED BY <2>1, <3>1 DEF TypeOK
  <2>3. Ordered' /\ SetIsDurable'
      BY <2>1 DEF Ordered, SetIsDurable
  <2>4. Newest'
    <3>1. CASE failedLast \/ f.id = ops
        BY <2>1, <3>1 DEF Newest
    <3>2. CASE ~failedLast /\ f.id # ops
      <4>1. PICK h \in pending : h.id = ops /\ h.out = cache
          BY <3>2 DEF Newest
      <4>2. h \in pending'
          BY <2>1, <3>2, <4>1
      <4> QED BY <2>1, <4>1, <4>2 DEF Newest
    <3> QED BY <3>1, <3>2
  <2> QED BY <2>2, <2>3, <2>4
<1>6. ASSUME Restart PROVE IInv'
  <2>1. /\ disk' = disk /\ cache' = disk /\ pending' = {} /\ failedLast' = FALSE
        /\ UNCHANGED <<ops, acked, gone>>
      BY <1>6 DEF Orderly, Restart
  <2>2. TypeOK'
      BY <2>1 DEF TypeOK
  <2>3. \A k \in Keys : disk[k].ver <= disk[k].ver /\ disk[k].ver <= ops
    <3>1. \A k \in Keys : disk[k].ver \in Nat /\ cache[k].ver \in Nat /\ ops \in Nat
        BY DEF TypeOK, Map, Entry
    <3>2. \A k \in Keys : disk[k].ver <= cache[k].ver /\ cache[k].ver <= ops
        BY DEF Ordered
    <3> QED BY <3>1, <3>2
  <2>4. Ordered'
      BY <2>1, <2>3 DEF Ordered
  <2>5. Newest' /\ SetIsDurable'
      BY <2>1 DEF Newest, SetIsDurable
  <2> QED BY <2>2, <2>4, <2>5
<1>7. ASSUME UNCHANGED vars PROVE IInv'
    BY <1>7 DEF vars, TypeOK, Ordered, Newest, SetIsDurable
<1> QED BY <1>1, <1>2, <1>3, <1>4, <1>5, <1>6, <1>7 DEF Next

\* The invariant the theorems below read their property from.
LEMMA Inductive ==
    ASSUME Orderly
    PROVE  Spec => []IInv
<1>1. IInv /\ [Next]_vars => IInv'
    BY StepIInv
<1> QED BY <1>1, InitIInv, PTL DEF Spec

\* A set that has resolved survives every later write, failed flush and restart.
THEOREM SetSurvives ==
    ASSUME Orderly
    PROVE  Spec => []SetIsDurable
<1>1. IInv => SetIsDurable BY DEF IInv
<1>2. Spec => []IInv
    BY Inductive
<1> QED BY <1>1, <1>2, PTL

\* When no flush is outstanding and the last was not refused, file and memory
\* hold the same map.
THEOREM QuietStoreIsSaved ==
    ASSUME Orderly
    PROVE  Spec => []Converged
<1>1. IInv => Converged BY DEF IInv, Newest, Converged
<1>2. Spec => []IInv
    BY Inductive
<1> QED BY <1>1, <1>2, PTL

-----------------------------------------------------------------------------
(* BrowserStorage: its shape, and that whatever its shims do they use the    *)
(* store as FileStore says.                                                  *)
TxKinds == {"open", "run", "tick", "answer", "callback", "complete", "drop", "dropped"}
CallKinds == {"open", "named", "opened", "put", "body", "list", "add", "delete", "remove", "meta",
              "rest", "wipe", "wiping", "next", "wipeBody", "unname", "unnamed", "done"}
TaskSet == [who : Txs \cup Cachers, what : TxKinds \cup CallKinds, ok : BOOLEAN]
WaitSet == [task : TaskSet, ids : SUBSET Nat]

TxFields == {"at", "prog", "next", "fresh", "pending", "hadOp", "completed", "todo", "ids",
             "seen", "error", "refused", "puts", "settled"}
CallFields == {"at", "do", "ref", "names", "idx"}

TxShape(tx) ==
    /\ DOMAIN tx = TxFields
    /\ tx.prog \in Seq(Op) /\ tx.next \in Nat \ {0}
    /\ tx.pending \in Int /\ tx.seen \in Nat
    /\ tx.todo \subseteq AllRecords /\ tx.ids \subseteq Nat
CallShape(call) ==
    /\ DOMAIN call = CallFields
    /\ call.do \in {"put", "delete", "wipe"}
    /\ call.idx \subseteq Requests

\* Every map there is: in memory, in the file and under way to it.
Maps == {cache, disk} \cup {f.out : f \in pending}
\* The index that a map holds is a list of requests.
ListsRequests(map) ==
    map[IndexKey].there => /\ map[IndexKey].ver \in DOMAIN says
                           /\ says[map[IndexKey].ver] \subseteq Requests

\* The tasks of a call: queued, or waiting for a flush.
Tasks(p) == {e \in {micro[i] : i \in DOMAIN micro} \cup {w.task : w \in waiting} : e.who = p}

\* Who issues requests, or deletes the keys of a database, has the turn.
HasTurn(t) ==
    txs[t].at = "issuing" \/ txs[t].todo # {} =>
        /\ txs[t].at \in {"issuing", "dropping"}
        /\ Turn(t, IF txs[t].at = "dropping" THEN "drop" ELSE "run")

ShimShape ==
    /\ micro \in Seq(TaskSet) /\ waiting \subseteq WaitSet
    /\ DOMAIN txs = Txs /\ \A t \in Txs : TxShape(txs[t]) /\ HasTurn(t)
    /\ DOMAIN cachers = Cachers /\ \A x \in Cachers : CallShape(cachers[x])
    /\ \A x \in Cachers : Tasks(x) # {} => cachers[x].ref \in Requests
    /\ DOMAIN says = 1 .. MaxOps
    /\ \A map \in Maps : ListsRequests(map)

StorageShape == ShapeInv /\ ShimShape

\* The keys of the shims are keys of the store, and no two of them are the same.
LEMMA KeysApart ==
    /\ \A a \in Records : Rec(a) \in Keys /\ Rec(a) # IndexKey /\ Rec(a) # NamesKey
    /\ \A i \in Items : Item(i) \in Keys /\ Item(i) # IndexKey
    /\ \A r \in Requests : /\ Meta(r) \in Keys /\ Body(r) \in Keys
                           /\ Meta(r) # IndexKey /\ Body(r) # IndexKey
    /\ NamesKey \in Keys /\ IndexKey \in Keys /\ NamesKey # IndexKey
<1>1. /\ \A a \in Records : Rec(a) \in Keys
      /\ \A i \in Items : Item(i) \in Keys
      /\ \A r \in Requests : Meta(r) \in Keys /\ Body(r) \in Keys
      /\ NamesKey \in Keys /\ IndexKey \in Keys
    BY StorageAssumption
<1>2. \A a, b : Rec(a) # <<"cache:name", b>> /\ Rec(a) # <<"cache", b>>
    BY DEF Rec
<1>3. \A a, b : Item(a) # <<"cache:name", b>> /\ Meta(a) # <<"cache:name", b>>
                /\ Body(a) # <<"cache:name", b>>
    BY DEF Item, Meta, Body
<1>4. NamesKey # IndexKey
    BY DEF NamesKey, IndexKey
<1> QED BY <1>1, <1>2, <1>3, <1>4 DEF NamesKey, IndexKey

LEMMA RecordsAreKeys == AllRecords \subseteq Keys /\ IndexKey \notin AllRecords
BY KeysApart DEF AllRecords

\* The request a transaction issues next is of its program.
LEMMA RequestFacts ==
    ASSUME StorageShape, NEW t \in Txs, NEW kinds, Issuing(t, kinds)
    PROVE  /\ Request(t) \in Op /\ Request(t).do \in kinds /\ Rec(Request(t).key) \in AllRecords
           /\ Request(t).key \in Records
<1>1. txs[t].prog \in Seq(Op) /\ txs[t].next \in Nat \ {0} /\ txs[t].next <= Len(txs[t].prog)
    BY DEF StorageShape, ShimShape, TxShape, Issuing
<1>2. txs[t].prog[txs[t].next] \in Op
    BY <1>1
<1> QED BY <1>2 DEF Request, Issuing, Op, AllRecords

\* A task at the head of the queue is one of its call.
LEMMA HeadIsTask ==
    ASSUME StorageShape, NEW p, micro # <<>>, Head(micro).who = p
    PROVE  Head(micro) \in Tasks(p) /\ Head(micro) \in TaskSet
<1>1. micro \in Seq(TaskSet) /\ 1 \in DOMAIN micro /\ Head(micro) = micro[1]
    BY DEF StorageShape, ShimShape
<1> QED BY <1>1 DEF Tasks

LEMMA CallRef ==
    ASSUME StorageShape, NEW x \in Cachers, micro # <<>>, Head(micro).who = x
    PROVE  Call(x).ref \in Requests /\ Call(x).idx \subseteq Requests
BY HeadIsTask DEF StorageShape, ShimShape, CallShape, Call

\* Every step of the shims uses the store as FileStore allows, or leaves it alone.
LEMMA TxUsesStore ==
    ASSUME StorageShape, NEW t \in Txs, DatabaseTask(t) \/ DropDatabase(t)
    PROVE  [Next]_vars
<1>1. CASE Put(t)
  <2>1. Set(Rec(Request(t).key)) /\ Rec(Request(t).key) \in Keys
      BY <1>1, RequestFacts, KeysApart DEF Put
  <2> QED BY <2>1 DEF Next
<1>2. CASE EraseOne(t)
  <2>1. PICK k \in txs[t].todo : Delete(k)
      BY <1>2 DEF EraseOne
  <2>2. k \in Keys
      BY RecordsAreKeys DEF StorageShape, ShimShape, TxShape
  <2> QED BY <2>1, <2>2 DEF Next
<1>3. CASE ~Put(t) /\ ~EraseOne(t)
    BY <1>3 DEF DatabaseTask, DropDatabase, OnOpen, NewTransaction, EndTurn, Get, GetAll, Read,
           ReadKeys, PutBad, Erase, OnTick, OnAnswer, OnCallback, OnComplete, OnDropped, StoreQuiet
<1> QED BY <1>1, <1>2, <1>3

LEMMA CallUsesStore ==
    ASSUME StorageShape, NEW x \in Cachers, CacheTask(x)
    PROVE  [Next]_vars
<1>1. Head(micro).who = x /\ micro # <<>>
    BY DEF CacheTask, Open, Named, Opened, PutMeta, PutBody, ReadIndex, AddToIndex,
           RemoveFromIndex, DeleteEntry, Wipe, WipeBegins, WipeEntry, WipeIndex, Unname, Settle,
           Step, Turn
<1>2. Call(x).ref \in Requests /\ Call(x).idx \subseteq Requests
    BY <1>1, CallRef
<1>3. /\ NamesKey \in Keys /\ IndexKey \in Keys
      /\ \A r \in Requests : Meta(r) \in Keys /\ Body(r) \in Keys
    BY KeysApart
<1>4. ASSUME NEW k \in Keys, Set(k) \/ Delete(k) PROVE [Next]_vars
    BY <1>4 DEF Next
<1>5. ASSUME StoreQuiet PROVE [Next]_vars
    BY <1>5 DEF StoreQuiet
<1>6. ASSUME NEW what, Resume(x, what) PROVE [Next]_vars
    BY <1>5, <1>6 DEF Resume
<1>7. ASSUME NEW k \in Keys, NEW what, SetThen(x, k, what) \/ DeleteThen(x, k, what)
      PROVE  [Next]_vars
    BY <1>4, <1>7 DEF SetThen, DeleteThen
<1>8. ASSUME NEW k \in Keys, NEW what, NEW list, WriteIndex(x, k, list, what)
      PROVE  [Next]_vars
    BY <1>7, <1>8 DEF WriteIndex
<1>9. CASE Open(x) \/ Opened(x) \/ ReadIndex(x) \/ Wipe(x)
    BY <1>6, <1>9 DEF Open, Opened, ReadIndex, Wipe
<1>10. CASE Named(x) \/ AddToIndex(x) \/ RemoveFromIndex(x) \/ Unname(x)
    BY <1>3, <1>6, <1>8, <1>10 DEF Named, AddToIndex, RemoveFromIndex, Unname
<1>11. CASE PutMeta(x) \/ PutBody(x) \/ DeleteEntry(x) \/ WipeIndex(x)
    BY <1>2, <1>3, <1>7, <1>11 DEF PutMeta, PutBody, DeleteEntry, WipeIndex
<1>12. CASE WipeBegins(x)
    BY <1>6, <1>12 DEF WipeBegins
<1>13. CASE WipeEntry(x)
    BY <1>2, <1>3, <1>7, <1>13 DEF WipeEntry
<1>14. CASE Settle(x)
    BY <1>5, <1>14 DEF Settle
<1> QED BY <1>9, <1>10, <1>11, <1>12, <1>13, <1>14 DEF CacheTask

LEMMA StorageUsesStore == StorageShape /\ [StorageNext]_storageVars => [Next]_vars
<1> SUFFICES ASSUME StorageShape, [StorageNext]_storageVars PROVE [Next]_vars
    OBVIOUS
<1>1. ASSUME NEW t \in Txs, NEW prog \in Programs, OpenDatabase(t, prog) PROVE [Next]_vars
    BY <1>1 DEF OpenDatabase, StoreQuiet
<1>2. ASSUME NEW x \in Cachers, NEW r, NEW do, CallCache(x, do, r) PROVE [Next]_vars
    BY <1>2 DEF CallCache, StoreQuiet
<1>3. ASSUME NEW i \in Items, SetItem(i) \/ RemoveItem(i) PROVE [Next]_vars
    BY <1>3, KeysApart DEF SetItem, RemoveItem, Next
<1>4. ASSUME NEW f \in pending, StoreAnswers(f) PROVE [Next]_vars
    BY <1>4 DEF StoreAnswers, Next
<1>5. CASE StorageRestart
    BY <1>5 DEF StorageRestart, Next
<1>6. CASE UNCHANGED storageVars
    BY <1>6 DEF storageVars
<1> QED BY <1>1, <1>2, <1>3, <1>4, <1>5, <1>6, TxUsesStore, CallUsesStore DEF StorageNext

-----------------------------------------------------------------------------
(* What a step of one call does to the queue and to what waits.              *)
TaskOf(q) == {e \in TaskSet : e.who = q}

\* n is m with at most two tasks of q behind it.
Longer(m, n, q) ==
    \/ n = m
    \/ \E a \in TaskOf(q) : n = Append(m, a)
    \/ \E a, b \in TaskOf(q) : n = Append(Append(m, a), b)
QueueStep(q) ==
    \/ Longer(micro, micro', q)
    \/ micro # <<>> /\ Head(micro).who = q /\ Longer(Tail(micro), micro', q)
WaitStep(q) ==
    waiting \subseteq waiting' /\ \A w \in waiting' \ waiting : w \in WaitSet /\ w.task.who = q

\* Tasks behind a queue, written as the model writes them.
LEMMA Behind ==
    ASSUME NEW m \in Seq(TaskSet)
    PROVE  /\ m \o <<>> = m
           /\ \A a \in TaskSet : m \o <<a>> = Append(m, a)
           /\ \A a, b \in TaskSet : m \o (<<a>> \o <<b>>) = Append(Append(m, a), b)
           /\ \A a \in TaskSet : Append(m, a) \in Seq(TaskSet) /\ m \o (<<a>> \o <<>>) = Append(m, a)
           /\ m # <<>> => Tail(m) \in Seq(TaskSet)
OBVIOUS

LEMMA TaskFacts ==
    ASSUME NEW p \in Txs \cup Cachers, NEW what \in TxKinds \cup CallKinds
    PROVE  /\ Task(p, what) \in TaskOf(p) /\ [Task(p, what) EXCEPT !.ok = FALSE] \in TaskOf(p)
           /\ Task(p, what).what = what /\ Task(p, what).ok = TRUE
BY DEF Task, TaskOf, TaskSet

LEMMA TxTasks ==
    ASSUME NEW t \in Txs
    PROVE  /\ Task(t, "open") \in TaskOf(t) /\ Task(t, "run") \in TaskOf(t)
           /\ Task(t, "tick") \in TaskOf(t) /\ Task(t, "answer") \in TaskOf(t)
           /\ Task(t, "callback") \in TaskOf(t) /\ Task(t, "complete") \in TaskOf(t)
           /\ Task(t, "drop") \in TaskOf(t) /\ Task(t, "dropped") \in TaskOf(t)
           /\ [Task(t, "callback") EXCEPT !.ok = FALSE] \in TaskOf(t)
BY TaskFacts DEF TxKinds

\* The same for the head of the queue under another name.
LEMMA HeadTask ==
    ASSUME StorageShape, NEW p, NEW what \in TxKinds \cup CallKinds, micro # <<>>, Head(micro).who = p
    PROVE  [Head(micro) EXCEPT !.what = what] \in TaskOf(p) /\ Head(micro) \in TaskSet
<1>1. Head(micro) \in TaskSet
    BY HeadIsTask
<1> QED BY <1>1 DEF TaskOf, TaskSet

LEMMA CompletionFacts ==
    ASSUME NEW t \in Txs, NEW left
    PROVE  \/ Completion(t, left) = <<>>
           \/ Completion(t, left) = <<Task(t, "complete")>>
BY DEF Completion

LEMMA OneWait ==
    ASSUME StorageShape, NEW p \in Txs \cup Cachers, NEW what \in TxKinds \cup CallKinds,
           NEW ids \in SUBSET Nat
    PROVE  /\ [task |-> Task(p, what), ids |-> ids] \in WaitSet
           /\ [task |-> Task(p, what), ids |-> ids].task.who = p
BY TaskFacts DEF WaitSet, TaskOf, Task

\* A turn of q: its task leaves the head, and others of its come to the end.
LEMMA TurnMoves ==
    ASSUME StorageShape, NEW q \in Txs \cup Cachers, micro # <<>>, Head(micro).who = q,
           \/ micro' = Tail(micro) \o <<>>
           \/ \E a \in TaskOf(q) : micro' = Tail(micro) \o <<a>>
           \/ \E a \in TaskOf(q) : micro' = Tail(micro) \o (<<a>> \o <<>>)
           \/ \E a, b \in TaskOf(q) : micro' = Tail(micro) \o (<<a>> \o <<b>>)
    PROVE  QueueStep(q)
<1>1. Tail(micro) \in Seq(TaskSet)
    BY DEF StorageShape, ShimShape
<1>2. \A a \in TaskOf(q) : a \in TaskSet
    BY DEF TaskOf
<1>3. CASE micro' = Tail(micro) \o <<>>
  <2>1. micro' = Tail(micro)
      BY <1>1, <1>3, Behind
  <2> QED BY <2>1 DEF QueueStep, Longer
<1>4. ASSUME NEW a \in TaskOf(q),
             micro' = Tail(micro) \o <<a>> \/ micro' = Tail(micro) \o (<<a>> \o <<>>)
      PROVE  QueueStep(q)
  <2>1. micro' = Append(Tail(micro), a)
      BY <1>1, <1>2, <1>4, Behind
  <2> QED BY <2>1 DEF QueueStep, Longer
<1>5. ASSUME NEW a \in TaskOf(q), NEW b \in TaskOf(q),
             micro' = Tail(micro) \o (<<a>> \o <<b>>)
      PROVE  QueueStep(q)
  <2>1. micro' = Append(Append(Tail(micro), a), b)
      BY <1>1, <1>2, <1>5, Behind, ZenonT(60)
  <2> QED BY <2>1 DEF QueueStep, Longer
<1> QED BY <1>3, <1>4, <1>5

LEMMA AppendMoves ==
    ASSUME NEW q, NEW a \in TaskOf(q), micro' = Append(micro, a)
    PROVE  QueueStep(q)
BY DEF QueueStep, Longer

LEMMA TxQueue ==
    ASSUME StorageShape, NEW t \in Txs,
           DatabaseTask(t) \/ DropDatabase(t) \/ \E prog \in Programs : OpenDatabase(t, prog)
    PROVE  QueueStep(t) /\ WaitStep(t)
<1>1. micro \in Seq(TaskSet) /\ ops \in Nat /\ txs[t].ids \subseteq Nat
    BY DEF StorageShape, ShimShape, TxShape, ShapeInv, TypeOK
<1>2. ASSUME waiting' = waiting PROVE WaitStep(t)
    BY <1>2 DEF WaitStep
<1>3. CASE DropDatabase(t) \/ \E prog \in Programs : OpenDatabase(t, prog)
  <2>1. \/ micro' = Append(micro, Task(t, "open")) \/ micro' = Append(micro, Task(t, "drop"))
        \/ micro' = Append(micro, Task(t, "dropped"))
      BY <1>3 DEF DropDatabase, OpenDatabase, Queue
  <2>2. waiting' = waiting
      BY <1>3 DEF DropDatabase, OpenDatabase, StoreQuiet
  <2> QED BY <1>2, <2>1, <2>2, TxTasks, AppendMoves
<1>4. CASE OnOpen(t) \/ EndTurn(t) \/ OnCallback(t) \/ OnComplete(t)
  <2>1. micro # <<>> /\ Head(micro).who = t /\ waiting' = waiting
      BY <1>4 DEF OnOpen, EndTurn, OnCallback, OnComplete, Turn, StoreQuiet
  <2>2. micro' = Tail(micro) \o <<>> \/ micro' = Tail(micro) \o <<Task(t, "run")>>
      BY <1>4 DEF OnOpen, EndTurn, OnCallback, OnComplete, Then
  <2> QED BY <1>2, <2>1, <2>2, TxTasks, TurnMoves
<1>5. CASE NewTransaction(t) \/ Get(t) \/ GetAll(t) \/ PutBad(t)
  <2>1. \/ micro' = Append(micro, Task(t, "tick")) \/ micro' = Append(micro, Task(t, "answer"))
        \/ micro' = Append(micro, [Task(t, "callback") EXCEPT !.ok = FALSE])
      BY <1>5 DEF NewTransaction, Get, GetAll, Read, PutBad, Queue
  <2>2. waiting' = waiting
      BY <1>5 DEF NewTransaction, Get, GetAll, Read, PutBad, StoreQuiet
  <2> QED BY <1>2, <2>1, <2>2, TxTasks, AppendMoves
<1>6. CASE ReadKeys(t)
  <2>1. waiting' = waiting
      BY <1>6 DEF ReadKeys, StoreQuiet
  <2>2. micro' = Append(micro, Task(t, "callback")) \o Completion(t, txs[t].pending)
      BY <1>6 DEF ReadKeys
  <2>3. Task(t, "callback") \in TaskSet /\ Task(t, "complete") \in TaskSet
      BY TxTasks DEF TaskOf
  <2>4. Append(micro, Task(t, "callback")) \in Seq(TaskSet)
      BY <1>1, <2>3
  <2>5. \/ micro' = Append(micro, Task(t, "callback"))
        \/ micro' = Append(Append(micro, Task(t, "callback")), Task(t, "complete"))
    <3> DEFINE m == Append(micro, Task(t, "callback"))
    <3>1. m \in Seq(TaskSet) /\ (micro' = m \o <<>> \/ micro' = m \o <<Task(t, "complete")>>)
        BY <2>2, <2>4, CompletionFacts
    <3> HIDE DEF m
    <3>2. micro' = m \/ micro' = Append(m, Task(t, "complete"))
        BY <2>3, <3>1, Behind
    <3> QED BY <3>2 DEF m
  <2> QED BY <1>2, <2>1, <2>5, TxTasks DEF QueueStep, Longer
<1>7. CASE Put(t)
  <2>1. /\ micro' = micro
        /\ waiting' = waiting \cup {[task |-> Task(t, "answer"), ids |-> {ops + 1}]}
      BY <1>7 DEF Put
  <2>2. [task |-> Task(t, "answer"), ids |-> {ops + 1}] \in WaitSet
        /\ [task |-> Task(t, "answer"), ids |-> {ops + 1}].task.who = t
    <3>1. "answer" \in TxKinds \cup CallKinds /\ {ops + 1} \in SUBSET Nat
        BY <1>1 DEF TxKinds
    <3> QED BY <3>1, OneWait
  <2> QED BY <2>1, <2>2 DEF QueueStep, Longer, WaitStep
<1>8. CASE Erase(t)
  <2>1. micro' = micro \/ micro' = Append(micro, Task(t, "answer"))
      BY <1>8 DEF Erase, Queue
  <2>2. waiting' = waiting
      BY <1>8 DEF Erase, StoreQuiet
  <2> QED BY <1>2, <2>1, <2>2, TxTasks DEF QueueStep, Longer
<1>9. CASE EraseOne(t)
  <2> DEFINE ids == txs[t].ids \cup {ops + 1}
             what == IF txs[t].at = "dropping" THEN "dropped" ELSE "answer"
             new == [task |-> Task(t, what), ids |-> ids]
  <2>1. /\ waiting' = waiting \cup {new} \/ waiting' = waiting
        /\ micro' = Tail(micro) \o <<>> \/ micro' = micro
        /\ txs[t].todo # {}
      BY <1>9 DEF EraseOne, Then
  <2>2. new \in WaitSet /\ new.task.who = t
    <3>1. what \in TxKinds \cup CallKinds /\ ids \in SUBSET Nat
        BY <1>1 DEF TxKinds
    <3> HIDE DEF what, ids
    <3> QED BY <3>1, OneWait
  <2>3. micro # <<>> /\ Head(micro).who = t
      BY <2>1 DEF StorageShape, ShimShape, HasTurn, Turn
  <2> HIDE DEF new
  <2>4. WaitStep(t)
      BY <2>1, <2>2 DEF WaitStep
  <2>5. CASE micro' = Tail(micro) \o <<>>
      BY <2>3, <2>4, <2>5, TurnMoves
  <2> QED BY <2>1, <2>4, <2>5 DEF QueueStep, Longer
<1>10. CASE OnTick(t)
  <2>1. waiting' = waiting /\ micro # <<>> /\ Head(micro).who = t
      BY <1>10 DEF OnTick, StoreQuiet, Turn
  <2>2. micro' = Tail(micro) \o <<>> \/ micro' = Tail(micro) \o <<Task(t, "complete")>>
      BY <1>10, CompletionFacts DEF OnTick, Then
  <2> QED BY <1>2, <2>1, <2>2, TxTasks, TurnMoves
<1>11. CASE OnAnswer(t)
  <2> DEFINE head == [Head(micro) EXCEPT !.what = "callback"]
  <2>1. waiting' = waiting /\ micro # <<>> /\ Head(micro).who = t
      BY <1>11 DEF OnAnswer, StoreQuiet, Turn
  <2>2. head \in TaskOf(t)
    <3>1. "callback" \in TxKinds \cup CallKinds
        BY DEF TxKinds
    <3> QED BY <2>1, <3>1, HeadTask
  <2>3. micro' = Tail(micro) \o (<<head>> \o Completion(t, txs[t].pending - 1))
      BY <1>11 DEF OnAnswer, Then
  <2> HIDE DEF head
  <2>4. \/ micro' = Tail(micro) \o (<<head>> \o <<>>)
        \/ micro' = Tail(micro) \o (<<head>> \o <<Task(t, "complete")>>)
      BY <2>3, CompletionFacts
  <2> QED BY <1>2, <2>1, <2>2, <2>4, TxTasks, TurnMoves
<1>12. CASE OnDropped(t)
  <2> DEFINE head == [Head(micro) EXCEPT !.what = "complete"]
  <2>1. waiting' = waiting /\ micro # <<>> /\ Head(micro).who = t
      BY <1>12 DEF OnDropped, StoreQuiet, Turn
  <2>2. micro' = Tail(micro) \o <<head>>
      BY <1>12 DEF OnDropped, Then
  <2>3. head \in TaskOf(t)
    <3>1. "complete" \in TxKinds \cup CallKinds
        BY DEF TxKinds
    <3> QED BY <2>1, <3>1, HeadTask
  <2> HIDE DEF head
  <2> QED BY <1>2, <2>1, <2>2, <2>3, TurnMoves
<1> QED BY <1>3, <1>4, <1>5, <1>6, <1>7, <1>8, <1>9, <1>10, <1>11, <1>12 DEF DatabaseTask

\* A turn is kept while others queue their tasks.
LEMMA OthersTurn ==
    ASSUME StorageShape, NEW u \in Txs, NEW q, q # u, QueueStep(q), txs'[u] = txs[u]
    PROVE  HasTurn(u)'
<1> SUFFICES ASSUME txs[u].at = "issuing" \/ txs[u].todo # {}
             PROVE  micro' # <<>> /\ Head(micro') = Head(micro)
    BY DEF StorageShape, ShimShape, HasTurn, Turn
<1>1. micro \in Seq(TaskSet) /\ micro # <<>> /\ Head(micro).who = u
    BY DEF StorageShape, ShimShape, HasTurn, Turn
<1>2. Longer(micro, micro', q)
    BY <1>1 DEF QueueStep
<1>3. \A a \in TaskOf(q) : a \in TaskSet
    BY DEF TaskOf
<1>4. \A m \in Seq(TaskSet), a \in TaskSet :
          m # <<>> => /\ Append(m, a) \in Seq(TaskSet) /\ Append(m, a) # <<>>
                      /\ Head(Append(m, a)) = Head(m)
    OBVIOUS
<1> QED BY <1>1, <1>2, <1>3, <1>4 DEF Longer

TxStep(t) == DatabaseTask(t) \/ DropDatabase(t) \/ \E prog \in Programs : OpenDatabase(t, prog)

\* A step of a transaction is of that transaction alone, and keeps its shape.
LEMMA TxStepShape ==
    ASSUME StorageShape, NEW t \in Txs, TxStep(t)
    PROVE  /\ DOMAIN txs' = Txs /\ \A u \in Txs \ {t} : txs'[u] = txs[u]
           /\ TxShape(txs'[t]) /\ HasTurn(t)'
           /\ cachers' = cachers /\ says' = says
<1>1. DOMAIN txs = Txs /\ TxShape(txs[t]) /\ HasTurn(t) /\ micro \in Seq(TaskSet)
    BY DEF StorageShape, ShimShape
<1>2. ASSUME NEW tx, txs' = [txs EXCEPT ![t] = tx], DOMAIN tx = TxFields,
             tx.prog \in Seq(Op), tx.next \in Nat \ {0}, tx.pending \in Int, tx.seen \in Nat,
             tx.todo \subseteq AllRecords, tx.ids \subseteq Nat
      PROVE  /\ DOMAIN txs' = Txs /\ \A u \in Txs \ {t} : txs'[u] = txs[u]
             /\ TxShape(txs'[t]) /\ txs'[t] = tx
    BY <1>1, <1>2 DEF TxShape
<1>3. ASSUME txs'[t].at # "issuing", txs'[t].todo = {} PROVE HasTurn(t)'
    BY <1>3 DEF HasTurn
<1>4. ASSUME NEW a \in TaskSet, micro # <<>>, micro' = Append(micro, a)
      PROVE  micro' # <<>> /\ Head(micro') = Head(micro)
    BY <1>1, <1>4
<1>5. cachers' = cachers /\ says' = says
    BY DEF TxStep, DatabaseTask, DropDatabase, OpenDatabase, OnOpen, NewTransaction, EndTurn, Get,
           GetAll, Read, ReadKeys, Put, PutBad, Erase, EraseOne, OnTick, OnAnswer, OnCallback,
           OnComplete, OnDropped, CacheSide
<1>6. CASE \E prog \in Programs : OpenDatabase(t, prog)
  <2>1. PICK prog \in Programs : OpenDatabase(t, prog)
      BY <1>6
  <2> DEFINE tx == [NoTx EXCEPT !.at = "opening", !.prog = prog, !.fresh = ~known]
  <2>2. txs' = [txs EXCEPT ![t] = tx]
      BY <2>1 DEF OpenDatabase
  <2>3. /\ DOMAIN tx = TxFields /\ tx.at = "opening" /\ tx.prog = prog /\ tx.next = 1
        /\ tx.pending = 0 /\ tx.seen = 0 /\ tx.todo = {} /\ tx.ids = {}
      BY DEF NoTx, TxFields
  <2> HIDE DEF tx
  <2>4. prog \in Seq(Op) /\ tx.next \in Nat \ {0} /\ tx.pending \in Int /\ tx.seen \in Nat
      BY <2>3, StorageAssumption
  <2>5. /\ DOMAIN txs' = Txs /\ \A u \in Txs \ {t} : txs'[u] = txs[u]
        /\ TxShape(txs'[t]) /\ txs'[t] = tx
      BY <1>2, <2>2, <2>3, <2>4
  <2>6. HasTurn(t)'
      BY <1>3, <2>3, <2>5
  <2> QED BY <1>5, <2>5, <2>6
<1>7. CASE DropDatabase(t)
  <2> DEFINE found == Found(AllRecords)
             tx == [NoTx EXCEPT !.at = "dropping", !.todo = found]
  <2>1. /\ micro = <<>> /\ txs' = [txs EXCEPT ![t] = tx]
        /\ micro' = Append(micro, Task(t, IF found = {} THEN "dropped" ELSE "drop"))
      BY <1>7 DEF DropDatabase, Queue
  <2>2. found \subseteq AllRecords
      BY DEF Found
  <2> HIDE DEF found
  <2>3. /\ DOMAIN tx = TxFields /\ tx.at = "dropping" /\ tx.prog = <<>> /\ tx.next = 1
        /\ tx.pending = 0 /\ tx.seen = 0 /\ tx.todo = found /\ tx.ids = {}
      BY DEF NoTx, TxFields
  <2> HIDE DEF tx
  <2>4. tx.prog \in Seq(Op) /\ tx.next \in Nat \ {0} /\ tx.pending \in Int /\ tx.seen \in Nat
      BY <2>3
  <2>5. /\ DOMAIN txs' = Txs /\ \A u \in Txs \ {t} : txs'[u] = txs[u]
        /\ TxShape(txs'[t]) /\ txs'[t] = tx
      BY <1>2, <2>1, <2>2, <2>3, <2>4
  <2>6. CASE found = {}
      BY <1>3, <1>5, <2>3, <2>5, <2>6
  <2>7. CASE found # {}
    <3>1. micro' = <<Task(t, "drop")>>
        BY <2>1, <2>7
    <3>2. Turn(t, "drop")'
        BY <3>1 DEF Turn, Task
    <3> QED BY <1>5, <2>3, <2>5, <3>2 DEF HasTurn
  <2> QED BY <2>6, <2>7
<1>8. ASSUME DOMAIN txs' = Txs, \A u \in Txs \ {t} : txs'[u] = txs[u],
             DOMAIN txs'[t] = TxFields, txs'[t].prog = txs[t].prog,
             txs'[t].next \in {txs[t].next, txs[t].next + 1},
             txs'[t].pending \in Int, txs'[t].seen \in Nat,
             txs'[t].todo \subseteq AllRecords, txs'[t].ids \subseteq Nat
      PROVE  TxShape(txs'[t])
    BY <1>1, <1>8 DEF TxShape
\* Outside of its turn a transaction has nothing to delete and issues nothing.
<1>9. CASE OnOpen(t) \/ OnTick(t) \/ OnAnswer(t) \/ OnCallback(t) \/ OnComplete(t) \/ OnDropped(t)
  <2>1. txs[t].at # "issuing" /\ txs[t].todo = {}
    <3>1. micro # <<>> /\ Head(micro).what \notin {"run", "drop"}
        BY <1>9 DEF OnOpen, OnTick, OnAnswer, OnCallback, OnComplete, OnDropped, Turn
    <3> QED BY <1>1, <3>1 DEF HasTurn, Turn
  <2>2. ASSUME DOMAIN txs' = Txs, \A u \in Txs \ {t} : txs'[u] = txs[u],
               DOMAIN txs'[t] = TxFields, txs'[t].prog = txs[t].prog,
               txs'[t].next = txs[t].next, txs'[t].pending \in Int, txs'[t].seen \in Nat,
               txs'[t].todo = txs[t].todo, txs'[t].ids = txs[t].ids,
               txs'[t].at \in {txs[t].at, "opened", "done"}
        PROVE  TxShape(txs'[t]) /\ HasTurn(t)'
    <3>1. TxShape(txs'[t])
        BY <1>1, <1>8, <2>2 DEF TxShape
    <3> QED BY <1>3, <2>1, <2>2, <3>1
  <2>3. CASE OnOpen(t)
    <3>1. txs' = [txs EXCEPT ![t].at = "opened"]
        BY <2>3 DEF OnOpen
    <3> QED BY <1>1, <1>5, <2>2, <3>1 DEF TxShape, TxFields
  <2>4. CASE OnTick(t)
    <3>1. txs' = txs \/ txs' = [txs EXCEPT ![t].completed = TRUE]
        BY <2>4 DEF OnTick
    <3> QED BY <1>1, <1>5, <2>2, <3>1 DEF TxShape, TxFields
  <2>5. CASE OnAnswer(t)
    <3>1. PICK refused, completed :
              txs' = [txs EXCEPT ![t].pending = txs[t].pending - 1, ![t].refused = refused,
                                 ![t].completed = completed]
        BY <2>5 DEF OnAnswer
    <3> QED BY <1>1, <1>5, <2>2, <3>1 DEF TxShape, TxFields
  <2>6. CASE OnCallback(t)
    <3>1. PICK error : txs' = [txs EXCEPT ![t].seen = @ + 1, ![t].error = error]
        BY <2>6 DEF OnCallback
    <3> QED BY <1>1, <1>5, <2>2, <3>1 DEF TxShape, TxFields
  <2>7. CASE OnComplete(t)
    <3>1. PICK settled : txs' = [txs EXCEPT ![t].at = "done", ![t].settled = settled, ![t].puts = {}]
        BY <2>7 DEF OnComplete
    <3> QED BY <1>1, <1>5, <2>2, <3>1 DEF TxShape, TxFields
  <2>8. CASE OnDropped(t)
    <3>1. PICK bad : txs' = [txs EXCEPT ![t].refused = bad, ![t].error = bad]
        BY <2>8 DEF OnDropped
    <3> QED BY <1>1, <1>5, <2>2, <3>1 DEF TxShape, TxFields
  <2> QED BY <1>9, <2>3, <2>4, <2>5, <2>6, <2>7, <2>8
\* In its turn it issues its requests one by one, and the turn stays its own.
<1>10. ASSUME Turn(t, "run"), micro' = micro \/ \E a \in TaskSet : micro' = Append(micro, a)
                              \/ \E b, c \in TaskSet : micro' = Append(Append(micro, b), c)
      PROVE  Turn(t, "run")'
  <2>1. micro # <<>> /\ Head(micro).who = t /\ Head(micro).what = "run"
      BY <1>10 DEF Turn
  <2>2. \A m \in Seq(TaskSet), a \in TaskSet :
            m # <<>> => /\ Append(m, a) \in Seq(TaskSet) /\ Append(m, a) # <<>>
                        /\ Head(Append(m, a)) = Head(m)
      OBVIOUS
  <2>3. micro' # <<>> /\ Head(micro') = Head(micro)
      BY <1>1, <1>10, <2>1, <2>2
  <2> QED BY <2>1, <2>3 DEF Turn
<1>11. \A a \in TaskOf(t) : a \in TaskSet
    BY DEF TaskOf
<1>12. ASSUME Turn(t, "run")', txs'[t].at = "issuing" PROVE HasTurn(t)'
    BY <1>12 DEF HasTurn
<1>13. CASE NewTransaction(t)
  <2>1. /\ Turn(t, "run") /\ txs' = [txs EXCEPT ![t].at = "issuing"]
        /\ micro' = Append(micro, Task(t, "tick"))
      BY <1>13 DEF NewTransaction, Queue
  <2>2. /\ DOMAIN txs' = Txs /\ \A u \in Txs \ {t} : txs'[u] = txs[u]
        /\ TxShape(txs'[t]) /\ txs'[t].at = "issuing"
      BY <1>1, <2>1 DEF TxShape, TxFields
  <2>3. Turn(t, "run")'
      BY <1>10, <1>11, <2>1, TxTasks
  <2> QED BY <1>5, <1>12, <2>2, <2>3
<1>14. ASSUME Turn(t, "run"), txs[t].at = "issuing",
              DOMAIN txs' = Txs, \A u \in Txs \ {t} : txs'[u] = txs[u],
              DOMAIN txs'[t] = TxFields, txs'[t].prog = txs[t].prog,
              txs'[t].next = txs[t].next + 1, txs'[t].pending \in Int,
              txs'[t].seen = txs[t].seen,
              txs'[t].todo \subseteq AllRecords, txs'[t].ids = txs[t].ids,
              txs'[t].at = txs[t].at,
              micro' = micro \/ \E a \in TaskOf(t) : micro' = Append(micro, a)
                             \/ \E b, c \in TaskOf(t) : micro' = Append(Append(micro, b), c)
       PROVE  TxShape(txs'[t]) /\ HasTurn(t)'
  <2>1. TxShape(txs'[t])
      BY <1>1, <1>8, <1>14 DEF TxShape
  <2>2. Turn(t, "run")'
      BY <1>10, <1>11, <1>14
  <2> QED BY <1>12, <1>14, <2>1, <2>2
<1>15. ASSUME NEW kinds, Issuing(t, kinds)
       PROVE  Turn(t, "run") /\ txs[t].at = "issuing" /\ txs[t].todo = {} /\ txs[t].seen \in Nat
    BY <1>1, <1>15 DEF Issuing, TxShape
<1>16. CASE Get(t) \/ GetAll(t)
  <2>1. txs' = [txs EXCEPT ![t] = OpStart(Issued(@))] /\ micro' = Append(micro, Task(t, "answer"))
      BY <1>16 DEF Get, GetAll, Read, Queue
  <2>2. Turn(t, "run") /\ txs[t].at = "issuing"
      BY <1>15, <1>16 DEF Get, GetAll
  <2>3. /\ DOMAIN txs' = Txs /\ \A u \in Txs \ {t} : txs'[u] = txs[u]
        /\ DOMAIN txs'[t] = TxFields /\ txs'[t].prog = txs[t].prog
        /\ txs'[t].next = txs[t].next + 1 /\ txs'[t].pending = txs[t].pending + 1
        /\ txs'[t].seen = txs[t].seen /\ txs'[t].todo = txs[t].todo
        /\ txs'[t].ids = txs[t].ids /\ txs'[t].at = txs[t].at
      BY <1>1, <2>1 DEF OpStart, Issued, TxShape, TxFields
  <2>4. txs'[t].pending \in Int /\ txs'[t].todo \subseteq AllRecords
      BY <1>1, <2>3 DEF TxShape
  <2>5. TxShape(txs'[t]) /\ HasTurn(t)'
      BY <1>14, <2>1, <2>2, <2>3, <2>4, TxTasks
  <2> QED BY <1>5, <2>3, <2>5
<1>17. CASE ReadKeys(t)
  <2> DEFINE done == txs[t].completed \/ Ends(txs[t], txs[t].pending)
  <2>1. /\ txs' = [txs EXCEPT ![t] = [Issued(txs[t]) EXCEPT !.hadOp = TRUE, !.completed = done]]
        /\ micro' = Append(micro, Task(t, "callback")) \o Completion(t, txs[t].pending)
      BY <1>17 DEF ReadKeys
  <2> HIDE DEF done
  <2>2. Turn(t, "run") /\ txs[t].at = "issuing"
      BY <1>15, <1>17 DEF ReadKeys
  <2>3. /\ DOMAIN txs' = Txs /\ \A u \in Txs \ {t} : txs'[u] = txs[u]
        /\ DOMAIN txs'[t] = TxFields /\ txs'[t].prog = txs[t].prog
        /\ txs'[t].next = txs[t].next + 1 /\ txs'[t].pending = txs[t].pending
        /\ txs'[t].seen = txs[t].seen /\ txs'[t].todo = txs[t].todo
        /\ txs'[t].ids = txs[t].ids /\ txs'[t].at = txs[t].at
      BY <1>1, <2>1 DEF Issued, TxShape, TxFields
  <2>4. txs'[t].pending \in Int /\ txs'[t].todo \subseteq AllRecords
      BY <1>1, <2>3 DEF TxShape
  <2>5. \/ micro' = Append(micro, Task(t, "callback"))
        \/ micro' = Append(Append(micro, Task(t, "callback")), Task(t, "complete"))
    <3> DEFINE m == Append(micro, Task(t, "callback"))
    <3>1. m \in Seq(TaskSet) /\ (micro' = m \o <<>> \/ micro' = m \o <<Task(t, "complete")>>)
      <4>1. m \in Seq(TaskSet)
        <5>1. Task(t, "callback") \in TaskSet
            BY <1>11, TxTasks
        <5> QED BY <1>1, <5>1
      <4>2. micro' = m \o Completion(t, txs[t].pending)
          BY <2>1
      <4> HIDE DEF m
      <4> QED BY <4>1, <4>2, CompletionFacts
    <3> HIDE DEF m
    <3>2. micro' = m \/ micro' = Append(m, Task(t, "complete"))
        BY <1>11, <3>1, TxTasks, Behind
    <3> QED BY <3>2 DEF m
  <2>6. TxShape(txs'[t]) /\ HasTurn(t)'
      BY <1>14, <2>2, <2>3, <2>4, <2>5, TxTasks
  <2> QED BY <1>5, <2>3, <2>6
<1>18. CASE Put(t)
  <2>1. txs' = [txs EXCEPT ![t] = OpStart(Issued(PutRecorded(@)))] /\ micro' = micro
      BY <1>18 DEF Put
  <2>2. Turn(t, "run") /\ txs[t].at = "issuing"
      BY <1>15, <1>18 DEF Put
  <2>3. /\ DOMAIN txs' = Txs /\ \A u \in Txs \ {t} : txs'[u] = txs[u]
        /\ DOMAIN txs'[t] = TxFields /\ txs'[t].prog = txs[t].prog
        /\ txs'[t].next = txs[t].next + 1 /\ txs'[t].pending = txs[t].pending + 1
        /\ txs'[t].seen = txs[t].seen /\ txs'[t].todo = txs[t].todo
        /\ txs'[t].ids = txs[t].ids /\ txs'[t].at = txs[t].at
      BY <1>1, <2>1 DEF OpStart, Issued, PutRecorded, TxShape, TxFields
  <2>4. txs'[t].pending \in Int /\ txs'[t].todo \subseteq AllRecords
      BY <1>1, <2>3 DEF TxShape
  <2>5. TxShape(txs'[t]) /\ HasTurn(t)'
      BY <1>14, <2>1, <2>2, <2>3, <2>4
  <2> QED BY <1>5, <2>3, <2>5
<1>19. CASE PutBad(t)
  <2>1. /\ txs' = [txs EXCEPT ![t] = [Issued(@) EXCEPT !.refused = TRUE]]
        /\ micro' = Append(micro, [Task(t, "callback") EXCEPT !.ok = FALSE])
      BY <1>19 DEF PutBad, Queue
  <2>2. Turn(t, "run") /\ txs[t].at = "issuing"
      BY <1>15, <1>19 DEF PutBad
  <2>3. /\ DOMAIN txs' = Txs /\ \A u \in Txs \ {t} : txs'[u] = txs[u]
        /\ DOMAIN txs'[t] = TxFields /\ txs'[t].prog = txs[t].prog
        /\ txs'[t].next = txs[t].next + 1 /\ txs'[t].pending = txs[t].pending
        /\ txs'[t].seen = txs[t].seen /\ txs'[t].todo = txs[t].todo
        /\ txs'[t].ids = txs[t].ids /\ txs'[t].at = txs[t].at
      BY <1>1, <2>1 DEF Issued, TxShape, TxFields
  <2>4. txs'[t].pending \in Int /\ txs'[t].todo \subseteq AllRecords
      BY <1>1, <2>3 DEF TxShape
  <2>5. TxShape(txs'[t]) /\ HasTurn(t)'
      BY <1>14, <2>1, <2>2, <2>3, <2>4, TxTasks
  <2> QED BY <1>5, <2>3, <2>5
<1>20. CASE Erase(t)
  <2>1. PICK found \in SUBSET AllRecords :
            /\ txs' = [txs EXCEPT ![t] = [OpStart(Issued(@)) EXCEPT !.todo = found]]
            /\ micro' = micro \/ micro' = Append(micro, Task(t, "answer"))
    <3> DEFINE found == Found(IF Request(t).do = "clear" THEN AllRecords
                              ELSE {Rec(Request(t).key)})
    <3>1. /\ txs' = [txs EXCEPT ![t] = [OpStart(Issued(@)) EXCEPT !.todo = found]]
          /\ micro' = micro \/ micro' = Append(micro, Task(t, "answer"))
        BY <1>20 DEF Erase, Queue
    <3>2. found \subseteq AllRecords
        BY <1>20, RequestFacts DEF Erase, Found
    <3> HIDE DEF found
    <3> QED BY <3>1, <3>2
  <2>2. Turn(t, "run") /\ txs[t].at = "issuing"
      BY <1>15, <1>20 DEF Erase
  <2>3. /\ DOMAIN txs' = Txs /\ \A u \in Txs \ {t} : txs'[u] = txs[u]
        /\ DOMAIN txs'[t] = TxFields /\ txs'[t].prog = txs[t].prog
        /\ txs'[t].next = txs[t].next + 1 /\ txs'[t].pending = txs[t].pending + 1
        /\ txs'[t].seen = txs[t].seen /\ txs'[t].todo = found
        /\ txs'[t].ids = txs[t].ids /\ txs'[t].at = txs[t].at
      BY <1>1, <2>1 DEF OpStart, Issued, TxShape, TxFields
  <2>4. txs'[t].pending \in Int /\ txs'[t].todo \subseteq AllRecords
      BY <1>1, <2>1, <2>3 DEF TxShape
  <2>5. TxShape(txs'[t]) /\ HasTurn(t)'
      BY <1>14, <2>1, <2>2, <2>3, <2>4, TxTasks
  <2> QED BY <1>5, <2>3, <2>5
<1>21. CASE EndTurn(t)
  <2>1. /\ txs' = [txs EXCEPT ![t].at = "running"] /\ txs[t].todo = {}
      BY <1>21 DEF EndTurn
  <2>2. /\ DOMAIN txs' = Txs /\ \A u \in Txs \ {t} : txs'[u] = txs[u]
        /\ TxShape(txs'[t]) /\ txs'[t].at = "running" /\ txs'[t].todo = {}
      BY <1>1, <2>1 DEF TxShape, TxFields
  <2> QED BY <1>3, <1>5, <2>2
<1>22. CASE EraseOne(t)
  <2>1. PICK k \in txs[t].todo :
        LET last == txs[t].todo = {k}
            ids == txs[t].ids \cup {ops + 1}
        IN  /\ txs' = [txs EXCEPT ![t].todo = @ \ {k}, ![t].ids = IF last THEN {} ELSE ids]
            /\ IF last /\ txs[t].at = "dropping" THEN Then(<<>>) ELSE UNCHANGED micro
      BY <1>22 DEF EraseOne
  <2> DEFINE todo == txs[t].todo \ {k}
             ids == IF txs[t].todo = {k} THEN {} ELSE txs[t].ids \cup {ops + 1}
  <2>2. txs' = [txs EXCEPT ![t].todo = todo, ![t].ids = ids]
      BY <2>1
  <2>3. ids \subseteq Nat /\ todo \subseteq AllRecords
      BY <1>1 DEF TxShape, StorageShape, ShapeInv, TypeOK
  <2>4. todo = {} \/ micro' = micro
      BY <2>1
  <2>5. todo = {} /\ txs[t].at = "issuing" => micro' = micro
      BY <2>1
  <2> HIDE DEF todo, ids
  <2>6. /\ DOMAIN txs' = Txs /\ \A u \in Txs \ {t} : txs'[u] = txs[u]
        /\ TxShape(txs'[t]) /\ txs'[t].at = txs[t].at /\ txs'[t].todo = todo
      BY <1>1, <2>2, <2>3 DEF TxShape, TxFields
  <2>7. HasTurn(t)'
      BY <1>1, <2>1, <2>4, <2>5, <2>6 DEF HasTurn, Turn
  <2> QED BY <1>5, <2>6, <2>7
<1> QED BY <1>6, <1>7, <1>9, <1>13, <1>16, <1>17, <1>18, <1>19, <1>20, <1>21, <1>22
        DEF TxStep, DatabaseTask

\* The two ways on from an await: at once, or when the write has landed.
LEMMA GoesOn ==
    ASSUME StorageShape, NEW x \in Cachers, NEW what \in CallKinds, micro # <<>>,
           Head(micro).who = x
    PROVE  /\ Resume(x, what) => /\ QueueStep(x) /\ WaitStep(x) /\ waiting' = waiting
                                 /\ micro' = Append(Tail(micro), Task(x, what)) /\ UNCHANGED vars
           /\ Await(x, what) /\ Then(<<>>) =>
                  /\ QueueStep(x) /\ WaitStep(x) /\ micro' = Tail(micro)
                  /\ waiting' = waiting \cup {[task |-> Task(x, what), ids |-> {ops + 1}]}
<1>1. /\ Tail(micro) \in Seq(TaskSet) /\ ops \in Nat
    BY DEF StorageShape, ShimShape, ShapeInv, TypeOK
<1>2. Task(x, what) \in TaskOf(x) /\ Task(x, what) \in TaskSet
    BY TaskFacts DEF TaskOf
<1>3. ASSUME Resume(x, what)
      PROVE  /\ QueueStep(x) /\ WaitStep(x) /\ waiting' = waiting
             /\ micro' = Append(Tail(micro), Task(x, what)) /\ UNCHANGED vars
  <2>1. micro' = Tail(micro) \o <<Task(x, what)>> /\ waiting' = waiting /\ UNCHANGED vars
      BY <1>3 DEF Resume, Then, StoreQuiet
  <2>2. QueueStep(x)
      BY <1>2, <2>1, TurnMoves
  <2>3. micro' = Append(Tail(micro), Task(x, what))
      BY <1>1, <1>2, <2>1, Behind
  <2> QED BY <2>1, <2>2, <2>3 DEF WaitStep
<1>4. ASSUME Await(x, what), Then(<<>>)
      PROVE  /\ QueueStep(x) /\ WaitStep(x) /\ micro' = Tail(micro)
             /\ waiting' = waiting \cup {[task |-> Task(x, what), ids |-> {ops + 1}]}
  <2> DEFINE new == [task |-> Task(x, what), ids |-> {ops + 1}]
  <2>1. micro' = Tail(micro) \o <<>> /\ waiting' = waiting \cup {new}
      BY <1>4 DEF Await, Then
  <2>2. QueueStep(x)
      BY <2>1, TurnMoves
  <2>3. micro' = Tail(micro)
      BY <1>1, <2>1, Behind
  <2>4. new \in WaitSet /\ new.task.who = x
      BY <1>1, OneWait
  <2> HIDE DEF new
  <2>5. WaitStep(x)
      BY <2>1, <2>4 DEF WaitStep
  <2> QED BY <2>1, <2>2, <2>3, <2>5 DEF new
<1> QED BY <1>3, <1>4

\* A task goes on from an await to another, whatever it does to the store.
Proceeds(x, what) ==
    /\ Resume(x, what) \/ (Await(x, what) /\ Then(<<>>))
           \/ (Then(<<Task(x, what)>>) /\ UNCHANGED waiting)

CallStep(x) ==
    CacheTask(x) \/ \E r \in Requests, do \in {"put", "delete", "wipe"} : CallCache(x, do, r)

LEMMA ProceedMoves ==
    ASSUME StorageShape, NEW x \in Cachers, NEW what \in CallKinds, micro # <<>>,
           Head(micro).who = x, Proceeds(x, what)
    PROVE  /\ QueueStep(x) /\ WaitStep(x)
           /\ \/ /\ micro' = Append(Tail(micro), Task(x, what)) /\ waiting' = waiting
              \/ /\ micro' = Tail(micro)
                 /\ waiting' = waiting \cup {[task |-> Task(x, what), ids |-> {ops + 1}]}
<1>1. CASE Then(<<Task(x, what)>>) /\ UNCHANGED waiting
  <2>1. micro' = Tail(micro) \o <<Task(x, what)>> /\ waiting' = waiting
      BY <1>1 DEF Then
  <2>2. Task(x, what) \in TaskOf(x) /\ Task(x, what) \in TaskSet
      BY TaskFacts DEF TaskOf
  <2>3. QueueStep(x) /\ WaitStep(x)
      BY <2>1, <2>2, TurnMoves DEF WaitStep
  <2>4. Tail(micro) \in Seq(TaskSet)
      BY DEF StorageShape, ShimShape
  <2>5. micro' = Append(Tail(micro), Task(x, what))
      BY <2>1, <2>2, <2>4, Behind
  <2> QED BY <2>1, <2>3, <2>5
<1>2. CASE Resume(x, what) \/ (Await(x, what) /\ Then(<<>>))
    BY <1>2, GoesOn
<1> QED BY <1>1, <1>2 DEF Proceeds

LEMMA CallHasHead ==
    ASSUME NEW x, CacheTask(x)
    PROVE  micro # <<>> /\ Head(micro).who = x
BY DEF CacheTask, Open, Named, Opened, PutMeta, PutBody, ReadIndex, AddToIndex, RemoveFromIndex,
       DeleteEntry, Wipe, WipeBegins, WipeEntry, WipeIndex, Unname, Settle, Step, Turn

LEMMA CallProceeds ==
    ASSUME StorageShape, NEW x \in Cachers, CacheTask(x), ~Settle(x)
    PROVE  \E what \in CallKinds : Proceeds(x, what)
<1>1. Call(x).do \in CallKinds
    BY DEF StorageShape, ShimShape, CallShape, Call, CallKinds
<1>2. ASSUME NEW what \in CallKinds, Resume(x, what) PROVE \E w \in CallKinds : Proceeds(x, w)
    BY <1>2 DEF Proceeds
<1>3. ASSUME NEW what \in CallKinds, NEW k, SetThen(x, k, what) \/ DeleteThen(x, k, what)
                                     \/ \E list : WriteIndex(x, k, list, what)
      PROVE \E w \in CallKinds : Proceeds(x, w)
    BY <1>3 DEF Proceeds, SetThen, DeleteThen, WriteIndex
<1>4. CASE Open(x)
  <2> DEFINE what == IF opened THEN Call(x).do ELSE "named"
  <2>1. Resume(x, what)
      BY <1>4 DEF Open
  <2>2. what \in CallKinds
      BY <1>1 DEF CallKinds
  <2> QED BY <1>2, <2>1, <2>2
<1>5. CASE Named(x)
    BY <1>1, <1>2, <1>3, <1>5 DEF Named, CallKinds
<1>6. CASE Opened(x)
    BY <1>1, <1>2, <1>6 DEF Opened
<1>7. CASE PutMeta(x) \/ PutBody(x)
    BY <1>3, <1>7 DEF PutMeta, PutBody, CallKinds
<1>8. CASE ReadIndex(x)
  <2> DEFINE what == IF Call(x).do = "put" THEN "add" ELSE "remove"
  <2>1. Resume(x, what)
      BY <1>8 DEF ReadIndex
  <2>2. what \in CallKinds
      BY DEF CallKinds
  <2> QED BY <1>2, <2>1, <2>2
<1>9. CASE AddToIndex(x) \/ RemoveFromIndex(x)
    BY <1>2, <1>3, <1>9 DEF AddToIndex, RemoveFromIndex, CallKinds
<1>10. CASE DeleteEntry(x) \/ WipeEntry(x) \/ WipeIndex(x) \/ Unname(x)
    BY <1>3, <1>10 DEF DeleteEntry, WipeEntry, WipeIndex, Unname, CallKinds
<1>11. CASE Wipe(x) \/ WipeBegins(x)
    BY <1>2, <1>11 DEF Wipe, WipeBegins, CallKinds
<1> QED BY <1>4, <1>5, <1>6, <1>7, <1>8, <1>9, <1>10, <1>11 DEF CacheTask

LEMMA CallQueue ==
    ASSUME StorageShape, NEW x \in Cachers, CallStep(x)
    PROVE  QueueStep(x) /\ WaitStep(x) /\ txs' = txs
<1>1. CASE CacheTask(x) /\ ~Settle(x)
  <2>1. txs' = txs
      BY <1>1 DEF CacheTask, Open, Named, Opened, PutMeta, PutBody, ReadIndex, AddToIndex,
             RemoveFromIndex, DeleteEntry, Wipe, WipeBegins, WipeEntry, WipeIndex, Unname,
             DatabaseSide
  <2> QED BY <1>1, <2>1, CallHasHead, CallProceeds, ProceedMoves
<1>2. CASE Settle(x)
  <2>1. micro # <<>> /\ Head(micro).who = x
      BY <1>2 DEF Settle, Turn
  <2>2. micro' = Tail(micro) \o <<>> /\ waiting' = waiting /\ txs' = txs
      BY <1>2 DEF Settle, Then, StoreQuiet, DatabaseSide
  <2> QED BY <2>1, <2>2, TurnMoves DEF WaitStep
<1>3. CASE \E r \in Requests, do \in {"put", "delete", "wipe"} : CallCache(x, do, r)
  <2>1. /\ micro' = Append(micro, Task(x, "wipe")) \/ micro' = Append(micro, Task(x, "open"))
        /\ waiting' = waiting /\ txs' = txs
      BY <1>3 DEF CallCache, Queue, StoreQuiet, DatabaseSide
  <2>2. Task(x, "wipe") \in TaskOf(x) /\ Task(x, "open") \in TaskOf(x)
      BY TaskFacts DEF CallKinds
  <2> QED BY <2>1, <2>2, AppendMoves DEF WaitStep
<1> QED BY <1>1, <1>2, <1>3 DEF CallStep

LEMMA CallStepShape ==
    ASSUME StorageShape, NEW x \in Cachers, CallStep(x)
    PROVE  /\ DOMAIN cachers' = Cachers /\ \A y \in Cachers \ {x} : cachers'[y] = cachers[y]
           /\ CallShape(cachers'[x]) /\ cachers'[x].ref \in Requests
<1>1. DOMAIN cachers = Cachers /\ CallShape(cachers[x])
    BY DEF StorageShape, ShimShape
<1>2. Listed(cache, IndexKey) \subseteq Requests
    BY DEF StorageShape, ShimShape, Maps, ListsRequests, Listed
<1>3. CASE CacheTask(x)
  <2>1. Call(x).ref \in Requests /\ Call(x).idx \subseteq Requests
      BY <1>3, CallHasHead, CallRef
  <2>2. \/ cachers' = cachers
        \/ \E list : cachers' = [cachers EXCEPT ![x].names = list]
        \/ \E list \in SUBSET Requests : cachers' = [cachers EXCEPT ![x].idx = list]
        \/ \E r \in Requests, list \in SUBSET Requests :
               cachers' = [cachers EXCEPT ![x].ref = r, ![x].idx = list]
        \/ cachers' = [cachers EXCEPT ![x].at = "done"]
    <3>1. CASE Open(x) \/ Wipe(x)
        BY <3>1 DEF Open, Wipe, Saw
    <3>2. CASE Named(x) \/ Opened(x) \/ PutMeta(x) \/ PutBody(x) \/ AddToIndex(x)
               \/ RemoveFromIndex(x) \/ DeleteEntry(x) \/ WipeIndex(x) \/ Unname(x)
        BY <3>2 DEF Named, Opened, PutMeta, PutBody, AddToIndex, RemoveFromIndex, DeleteEntry,
               WipeIndex, Unname
    <3>3. CASE ReadIndex(x) \/ WipeBegins(x)
        BY <1>2, <3>3 DEF ReadIndex, WipeBegins, Saw
    <3>4. CASE WipeEntry(x)
      <4>1. CASE cachers' = cachers
          BY <4>1
      <4>2. CASE cachers' # cachers
        <5>1. PICK r \in Call(x).idx : cachers' = [cachers EXCEPT ![x].ref = r, ![x].idx = @ \ {r}]
            BY <3>4, <4>2 DEF WipeEntry
        <5> DEFINE list == cachers[x].idx \ {r}
        <5>2. cachers' = [cachers EXCEPT ![x].ref = r, ![x].idx = list]
            BY <5>1
        <5>3. r \in Requests /\ list \in SUBSET Requests
            BY <2>1, <5>1 DEF Call
        <5> HIDE DEF list
        <5> QED BY <5>2, <5>3
      <4> QED BY <4>1, <4>2
    <3>5. CASE Settle(x)
        BY <3>5 DEF Settle
    <3> QED BY <1>3, <3>1, <3>2, <3>3, <3>4, <3>5 DEF CacheTask
  <2>3. ASSUME NEW field \in {"names", "at"}, NEW value,
               cachers' = [cachers EXCEPT ![x][field] = value]
        PROVE  /\ DOMAIN cachers' = Cachers /\ \A y \in Cachers \ {x} : cachers'[y] = cachers[y]
               /\ CallShape(cachers'[x]) /\ cachers'[x].ref = cachers[x].ref
      BY <1>1, <2>3 DEF CallShape, CallFields
  <2>4. ASSUME NEW list \in SUBSET Requests, cachers' = [cachers EXCEPT ![x].idx = list]
        PROVE  /\ DOMAIN cachers' = Cachers /\ \A y \in Cachers \ {x} : cachers'[y] = cachers[y]
               /\ CallShape(cachers'[x]) /\ cachers'[x].ref = cachers[x].ref
      BY <1>1, <2>4 DEF CallShape, CallFields
  <2>5. ASSUME NEW r \in Requests, NEW list \in SUBSET Requests,
               cachers' = [cachers EXCEPT ![x].ref = r, ![x].idx = list]
        PROVE  /\ DOMAIN cachers' = Cachers /\ \A y \in Cachers \ {x} : cachers'[y] = cachers[y]
               /\ CallShape(cachers'[x]) /\ cachers'[x].ref = r
      BY <1>1, <2>5 DEF CallShape, CallFields
  <2> QED BY <1>1, <2>1, <2>2, <2>3, <2>4, <2>5 DEF Call
<1>4. CASE \E r \in Requests, do \in {"put", "delete", "wipe"} : CallCache(x, do, r)
  <2>1. PICK r \in Requests, do \in {"put", "delete", "wipe"} :
            cachers' = [cachers EXCEPT ![x] = [NoCall EXCEPT !.at = "running", !.do = do, !.ref = r]]
      BY <1>4 DEF CallCache
  <2> QED BY <1>1, <2>1 DEF CallShape, CallFields, NoCall
<1> QED BY <1>3, <1>4 DEF CallStep

-----------------------------------------------------------------------------
(* The indexes that the maps of the store hold.                              *)

\* Where the maps of a step come from, and what it writes.
LEMMA MapsMove ==
    ASSUME ShapeInv, [Next]_vars, NEW map \in Maps'
    PROVE  map \in Maps \/ map = cache' \/ map = Fresh
<1>1. ASSUME NEW k, Set(k) \/ SetSync(k) \/ Delete(k) PROVE map \in Maps \/ map = cache'
    BY <1>1 DEF Set, SetSync, Delete, Write, StartFlush, Maps
<1>2. ASSUME NEW f \in pending, FlushLands(f) \/ FlushFails(f) PROVE map \in Maps
    BY <1>2 DEF FlushLands, FlushFails, Maps
<1>3. CASE Restart
    BY <1>3 DEF Restart, Maps
<1>4. CASE UNCHANGED vars
    BY <1>4 DEF vars, Maps
<1> QED BY <1>1, <1>2, <1>3, <1>4 DEF Next

LEMMA MapFacts ==
    ASSUME ShapeInv, NEW map \in Maps, NEW k \in Keys
    PROVE  map \in Map /\ map[k].ver \in Nat /\ map[k].ver <= ops /\ map[k].ver # ops + 1
<1>1. map \in Map /\ map[k].ver <= ops /\ ops \in Nat
    BY DEF ShapeInv, TypeOK, Bounded, Maps, Flush
<1>2. map[k].ver \in Nat
    BY <1>1 DEF Map, Entry
<1> QED BY <1>1, <1>2

LEMMA FreshFacts ==
    ASSUME NEW k \in Keys
    PROVE  Fresh[k].there = FALSE /\ Fresh[k].ver = 0
BY DEF Fresh

\* A write of one key.
LEMMA WriteFacts ==
    ASSUME ShapeInv, NEW k \in Keys, NEW there \in BOOLEAN, Write(k, there)
    PROVE  /\ ops' = ops + 1 /\ ops + 1 \in 1 .. MaxOps
           /\ cache'[k].ver = ops + 1 /\ cache'[k].there = there
           /\ \A j \in Keys \ {k} : cache'[j] = cache[j]
<1>1. cache \in Map /\ ops \in Nat /\ MaxOps \in Nat
    BY StoreAssumption DEF ShapeInv, TypeOK
<1> QED BY <1>1 DEF Write, Map

Recorded == says' = says \/ \E list : says' = [says EXCEPT ![ops + 1] = list]

\* What a step may do to the index of the cache in memory.
IndexStep ==
    /\ Recorded
    /\ \/ UNCHANGED vars
       \/ \E k \in Keys : Set(k) \/ SetSync(k) \/ Delete(k)
       \/ \E f \in pending : FlushLands(f) \/ FlushFails(f)
       \/ Restart
    /\ \/ cache'[IndexKey].there = FALSE
       \/ says' = says /\ cache' \in Maps
       \/ cache'[IndexKey] = cache[IndexKey]
       \/ /\ cache'[IndexKey].ver = ops + 1 /\ ops + 1 \in 1 .. MaxOps
          /\ \E list \in SUBSET Requests : says' = [says EXCEPT ![ops + 1] = list]

LEMMA ListsKeep ==
    ASSUME StorageShape, IndexStep
    PROVE  DOMAIN says' = 1 .. MaxOps /\ \A map \in Maps' : ListsRequests(map)'
<1>1. ShapeInv /\ DOMAIN says = 1 .. MaxOps /\ \A map \in Maps : ListsRequests(map)
    BY DEF StorageShape, ShimShape
<1>2. DOMAIN says' = 1 .. MaxOps
    BY <1>1 DEF IndexStep, Recorded
<1>3. [Next]_vars
    BY DEF IndexStep, Next
<1>4. IndexKey \in Keys
    BY KeysApart
<1>5. \A map \in Maps : ListsRequests(map)'
  <2> SUFFICES ASSUME NEW map \in Maps, map[IndexKey].there
               PROVE  map[IndexKey].ver \in DOMAIN says' /\ says'[map[IndexKey].ver] \subseteq Requests
      BY DEF ListsRequests
  <2>1. map[IndexKey].ver \in DOMAIN says /\ says[map[IndexKey].ver] \subseteq Requests
      BY <1>1 DEF ListsRequests
  <2>2. map[IndexKey].ver # ops + 1
      BY <1>1, <1>4, MapFacts
  <2> QED BY <1>1, <1>2, <2>1, <2>2 DEF IndexStep, Recorded
<1>6. /\ cache'[IndexKey].there =>
          /\ cache'[IndexKey].ver \in DOMAIN says'
          /\ says'[cache'[IndexKey].ver] \subseteq Requests
  <2> SUFFICES ASSUME cache'[IndexKey].there
               PROVE  /\ cache'[IndexKey].ver \in DOMAIN says'
                      /\ says'[cache'[IndexKey].ver] \subseteq Requests
      OBVIOUS
  <2>1. CASE cache' \in Maps
      BY <1>5, <2>1 DEF ListsRequests
  <2>2. CASE cache'[IndexKey] = cache[IndexKey]
    <3>1. cache \in Maps
        BY DEF Maps
    <3> QED BY <1>5, <2>2, <3>1 DEF ListsRequests
  <2>3. CASE /\ cache'[IndexKey].ver = ops + 1 /\ ops + 1 \in 1 .. MaxOps
             /\ \E list \in SUBSET Requests : says' = [says EXCEPT ![ops + 1] = list]
      BY <1>1, <1>2, <2>3
  <2> QED BY <2>1, <2>2, <2>3 DEF IndexStep
<1>7. ASSUME NEW map \in Maps' PROVE ListsRequests(map)'
    BY <1>1, <1>3, <1>4, <1>5, <1>6, <1>7, MapsMove, FreshFacts DEF ListsRequests
<1> QED BY <1>2, <1>7

\* A step on another key, or on the store's own behalf, leaves the index alone.
LEMMA OtherKey ==
    ASSUME StorageShape, Recorded,
           \/ UNCHANGED vars
           \/ \E k \in Keys \ {IndexKey} : Set(k) \/ SetSync(k) \/ Delete(k)
    PROVE  IndexStep /\ cache'[IndexKey] = cache[IndexKey]
<1>1. ShapeInv /\ IndexKey \in Keys
    BY KeysApart DEF StorageShape
<1>2. CASE UNCHANGED vars
    BY <1>2 DEF IndexStep, vars
<1>3. ASSUME NEW k \in Keys \ {IndexKey}, Set(k) \/ SetSync(k) \/ Delete(k)
      PROVE  cache'[IndexKey] = cache[IndexKey]
  <2>1. CASE \E there \in BOOLEAN : Write(k, there)
      BY <1>1, <2>1, WriteFacts
  <2>2. CASE cache' = cache
      BY <2>2
  <2> QED BY <1>3, <2>1, <2>2 DEF Set, SetSync, Delete
<1> QED BY <1>2, <1>3 DEF IndexStep

LEMMA TxIndex ==
    ASSUME StorageShape, NEW t \in Txs, TxStep(t)
    PROVE  IndexStep /\ cache'[IndexKey] = cache[IndexKey]
<1>1. Recorded
    BY TxStepShape DEF Recorded
<1>2. CASE UNCHANGED vars
    BY <1>1, <1>2, OtherKey
<1>3. CASE Put(t)
  <2>1. Set(Rec(Request(t).key)) /\ Rec(Request(t).key) \in Keys \ {IndexKey}
      BY <1>3, RequestFacts, KeysApart DEF Put
  <2> QED BY <1>1, <2>1, OtherKey
<1>4. CASE EraseOne(t)
  <2>1. PICK k \in txs[t].todo : Delete(k)
      BY <1>4 DEF EraseOne
  <2>2. k \in Keys \ {IndexKey}
      BY RecordsAreKeys DEF StorageShape, ShimShape, TxShape
  <2> QED BY <1>1, <2>1, <2>2, OtherKey
<1>5. CASE ~Put(t) /\ ~EraseOne(t)
  <2>1. UNCHANGED vars
      BY <1>5 DEF TxStep, OpenDatabase, DatabaseTask, DropDatabase, OnOpen, NewTransaction,
             EndTurn, Get, GetAll, Read, ReadKeys, PutBad, Erase, OnTick, OnAnswer, OnCallback,
             OnComplete, OnDropped, StoreQuiet
  <2> QED BY <1>2, <2>1
<1> QED BY <1>3, <1>4, <1>5

\* An index that a call writes.
LEMMA WritesIndex ==
    ASSUME StorageShape, NEW x, NEW list \in SUBSET Requests, NEW what,
           WriteIndex(x, IndexKey, list, what)
    PROVE  IndexStep
<1>1. ShapeInv /\ IndexKey \in Keys
    BY KeysApart DEF StorageShape
<1>2. Set(IndexKey) /\ Write(IndexKey, TRUE) /\ says' = [says EXCEPT ![ops + 1] = list]
    BY DEF WriteIndex, SetThen, Set
<1>3. cache'[IndexKey].ver = ops + 1 /\ ops + 1 \in 1 .. MaxOps
    BY <1>1, <1>2, WriteFacts
<1> QED BY <1>1, <1>2, <1>3 DEF IndexStep, Recorded

\* An index that a call deletes.
LEMMA DropsIndex ==
    ASSUME StorageShape, Delete(IndexKey), says' = says
    PROVE  IndexStep /\ cache'[IndexKey].there = FALSE
<1>1. ShapeInv /\ IndexKey \in Keys
    BY KeysApart DEF StorageShape
<1>2. cache'[IndexKey].there = FALSE
  <2>1. CASE Write(IndexKey, FALSE)
      BY <1>1, <2>1, WriteFacts
  <2>2. CASE ~cache[IndexKey].there /\ cache' = cache
    <3>1. cache[IndexKey].there \in BOOLEAN
        BY <1>1 DEF ShapeInv, TypeOK, Map, Entry
    <3> QED BY <2>2, <3>1
  <2> QED BY <2>1, <2>2 DEF Delete
<1> QED BY <1>1, <1>2 DEF IndexStep, Recorded

LEMMA CallIndex ==
    ASSUME StorageShape, NEW x \in Cachers, CallStep(x)
    PROVE  IndexStep
<1>1. ASSUME UNCHANGED vars, says' = says PROVE IndexStep
    BY <1>1, OtherKey DEF Recorded
<1>2. ASSUME NEW k \in Keys \ {IndexKey}, NEW what, says' = says,
             SetThen(x, k, what) \/ DeleteThen(x, k, what)
      PROVE  IndexStep
    BY <1>2, OtherKey DEF Recorded, SetThen, DeleteThen
<1>3. CASE \E r \in Requests, do \in {"put", "delete", "wipe"} : CallCache(x, do, r)
    BY <1>1, <1>3 DEF CallCache, StoreQuiet
<1>4. CASE CacheTask(x)
  <2>1. Call(x).ref \in Requests /\ Call(x).idx \subseteq Requests
      BY <1>4, CallHasHead, CallRef
  <2>2. /\ NamesKey \in Keys \ {IndexKey} /\ IndexKey \in Keys
        /\ \A r \in Requests : Meta(r) \in Keys \ {IndexKey} /\ Body(r) \in Keys \ {IndexKey}
      BY KeysApart
  <2>3. ASSUME NEW list, NEW what, WriteIndex(x, NamesKey, list, what) PROVE IndexStep
      BY <2>2, <2>3, OtherKey DEF Recorded, WriteIndex, SetThen
  <2>4. CASE Open(x) \/ Opened(x) \/ ReadIndex(x) \/ Wipe(x) \/ WipeBegins(x) \/ Settle(x)
      BY <1>1, <2>4 DEF Open, Opened, ReadIndex, Wipe, WipeBegins, Settle, Resume, StoreQuiet
  <2>5. CASE Named(x) \/ Unname(x)
      BY <1>1, <2>3, <2>5 DEF Named, Unname, Resume, StoreQuiet
  <2>6. CASE PutMeta(x) \/ PutBody(x) \/ DeleteEntry(x)
      BY <1>2, <2>1, <2>2, <2>6 DEF PutMeta, PutBody, DeleteEntry
  <2>7. CASE AddToIndex(x)
    <3>1. Call(x).idx \cup {Call(x).ref} \in SUBSET Requests
        BY <2>1
    <3> QED BY <1>1, <2>7, <3>1, WritesIndex DEF AddToIndex, Resume, StoreQuiet
  <2>8. CASE RemoveFromIndex(x)
    <3>1. Call(x).idx \ {Call(x).ref} \in SUBSET Requests
        BY <2>1
    <3> QED BY <1>1, <2>8, <3>1, WritesIndex DEF RemoveFromIndex, Resume, StoreQuiet
  <2>9. CASE WipeEntry(x)
      BY <1>2, <2>1, <2>2, <2>9 DEF WipeEntry
  <2>10. CASE WipeIndex(x)
      BY <2>10, DropsIndex DEF WipeIndex, DeleteThen
  <2> QED BY <1>4, <2>4, <2>5, <2>6, <2>7, <2>8, <2>9, <2>10 DEF CacheTask
<1> QED BY <1>3, <1>4 DEF CallStep

-----------------------------------------------------------------------------
(* The shape is kept, and the storage is the store.                          *)
LEMMA WakeFacts ==
    ASSUME StorageShape, micro = <<>>, NEW f \in pending, NEW ok \in BOOLEAN, Wakes(f, ok)
    PROVE  \/ micro' = <<>> /\ waiting' = waiting /\ \A v \in waiting : f.id \notin v.ids
           \/ \E w \in waiting :
                 /\ f.id \in w.ids
                 /\ \/ /\ ok /\ w.ids \ {f.id} # {} /\ micro' = <<>>
                       /\ waiting' = (waiting \ {w}) \cup {[w EXCEPT !.ids = w.ids \ {f.id}]}
                    \/ /\ ok => w.ids = {f.id}
                       /\ waiting' = waiting \ {w} /\ micro' = <<[w.task EXCEPT !.ok = ok]>>
<1>1. CASE \A v \in waiting : f.id \notin v.ids
    BY <1>1 DEF Wakes
<1>2. CASE ~ \A v \in waiting : f.id \notin v.ids
  <2> DEFINE w == CHOOSE v \in waiting : f.id \in v.ids
  <2>1. w \in waiting /\ f.id \in w.ids
      BY <1>2
  <2>2. IF ok /\ w.ids \ {f.id} # {}
        THEN /\ waiting' = (waiting \ {w}) \cup {[w EXCEPT !.ids = w.ids \ {f.id}]}
             /\ UNCHANGED micro
        ELSE waiting' = waiting \ {w} /\ micro' = Append(micro, [w.task EXCEPT !.ok = ok])
      BY <1>2 DEF Wakes, Queue
  <2> HIDE DEF w
  <2>3. CASE ok /\ w.ids \ {f.id} # {}
      BY <2>1, <2>2, <2>3
  <2>4. CASE ~(ok /\ w.ids \ {f.id} # {})
    <3>1. [w.task EXCEPT !.ok = ok] \in TaskSet
        BY <2>1 DEF StorageShape, ShimShape, WaitSet, TaskSet
    <3>2. micro' = <<[w.task EXCEPT !.ok = ok]>>
        BY <2>2, <2>4, <3>1
    <3>3. ok => w.ids = {f.id}
        BY <2>1, <2>4
    <3> QED BY <2>1, <2>2, <2>4, <3>2, <3>3
  <2> QED BY <2>3, <2>4
<1> QED BY <1>1, <1>2

\* A step of one call leaves the tasks of the others where they are.
LEMMA OthersTasks ==
    ASSUME StorageShape, NEW p, NEW q, p # q, QueueStep(q), WaitStep(q)
    PROVE  Tasks(p)' \subseteq Tasks(p)
<1>1. micro \in Seq(TaskSet)
    BY DEF StorageShape, ShimShape
<1>2. \A w \in waiting' : w.task.who = p => w \in waiting
    BY DEF WaitStep
<1>3. \A a \in TaskOf(q) : a \in TaskSet /\ a.who # p
    BY DEF TaskOf
<1>4. \A m \in Seq(TaskSet), a \in TaskSet :
          /\ Append(m, a) \in Seq(TaskSet)
          /\ \A i \in DOMAIN Append(m, a) : Append(m, a)[i] = a \/ (i \in DOMAIN m /\ Append(m, a)[i] = m[i])
    OBVIOUS
<1>5. ASSUME NEW m \in Seq(TaskSet), NEW n, Longer(m, n, q), NEW i \in DOMAIN n, n[i].who = p
      PROVE  i \in DOMAIN m /\ n[i] = m[i]
    BY <1>3, <1>4, <1>5 DEF Longer
<1>6. \A i \in DOMAIN micro' : micro'[i].who = p => \E j \in DOMAIN micro : micro'[i] = micro[j]
  <2>1. CASE Longer(micro, micro', q)
      BY <1>1, <1>5, <2>1
  <2>2. CASE micro # <<>> /\ Head(micro).who = q /\ Longer(Tail(micro), micro', q)
    <3>1. /\ Tail(micro) \in Seq(TaskSet)
          /\ \A i \in DOMAIN Tail(micro) : i + 1 \in DOMAIN micro /\ Tail(micro)[i] = micro[i + 1]
        BY <1>1, <2>2
    <3> QED BY <1>5, <2>2, <3>1
  <2> QED BY <2>1, <2>2 DEF QueueStep
<1> QED BY <1>2, <1>6 DEF Tasks

LEMMA QueueShape ==
    ASSUME StorageShape, NEW q, QueueStep(q), WaitStep(q)
    PROVE  micro' \in Seq(TaskSet) /\ waiting' \subseteq WaitSet
<1>1. micro \in Seq(TaskSet) /\ waiting \subseteq WaitSet
    BY DEF StorageShape, ShimShape
<1>2. \A a \in TaskOf(q) : a \in TaskSet
    BY DEF TaskOf
<1>3. \A m \in Seq(TaskSet), a \in TaskSet : Append(m, a) \in Seq(TaskSet)
    OBVIOUS
<1>4. micro # <<>> => Tail(micro) \in Seq(TaskSet)
    BY <1>1
<1> QED BY <1>1, <1>2, <1>3, <1>4 DEF QueueStep, Longer, WaitStep

LEMMA InitStorageShape == StorageInit => StorageShape
<1> SUFFICES ASSUME StorageInit PROVE StorageShape
    OBVIOUS
<1>1. ShapeInv
    BY InitShape DEF StorageInit
<1>2. /\ DOMAIN NoTx = TxFields /\ NoTx.at = "idle" /\ NoTx.prog = <<>> /\ NoTx.next = 1
      /\ NoTx.pending = 0 /\ NoTx.seen = 0 /\ NoTx.todo = {} /\ NoTx.ids = {}
    BY DEF NoTx, TxFields
<1>3. TxShape(NoTx)
  <2>1. NoTx.prog \in Seq(Op) /\ NoTx.next \in Nat \ {0} /\ NoTx.pending \in Int /\ NoTx.seen \in Nat
      BY <1>2
  <2> QED BY <1>2, <2>1 DEF TxShape
<1>4. DOMAIN txs = Txs /\ \A t \in Txs : TxShape(txs[t]) /\ HasTurn(t)
    BY <1>2, <1>3 DEF StorageInit, HasTurn
<1>5. DOMAIN cachers = Cachers /\ \A x \in Cachers : CallShape(cachers[x])
    BY DEF StorageInit, NoCall, CallShape, CallFields
<1>6. micro = <<>> /\ waiting = {} /\ DOMAIN says = 1 .. MaxOps
    BY DEF StorageInit
<1>7. \A x : Tasks(x) = {}
    BY <1>6 DEF Tasks
<1>8. \A map \in Maps : ListsRequests(map)
  <2>1. \A map \in Maps : map = Fresh
      BY DEF StorageInit, Init, Maps
  <2> QED BY <2>1, KeysApart, FreshFacts DEF ListsRequests
<1>9. micro \in Seq(TaskSet) /\ waiting \subseteq WaitSet
    BY <1>6
<1> QED BY <1>1, <1>4, <1>5, <1>6, <1>7, <1>8, <1>9 DEF StorageShape, ShimShape

LEMMA NextStorageShape == StorageShape /\ [StorageNext]_storageVars => StorageShape'
<1> SUFFICES ASSUME StorageShape, [StorageNext]_storageVars PROVE StorageShape'
    OBVIOUS
<1>1. ShapeInv'
    BY StorageUsesStore, NextShape DEF StorageShape
<1>2. /\ DOMAIN txs = Txs /\ DOMAIN cachers = Cachers /\ micro \in Seq(TaskSet)
      /\ waiting \subseteq WaitSet
      /\ \A t \in Txs : TxShape(txs[t]) /\ HasTurn(t)
      /\ \A x \in Cachers : CallShape(cachers[x]) /\ (Tasks(x) # {} => cachers[x].ref \in Requests)
    BY DEF StorageShape, ShimShape
<1>3. \A t \in Txs, x \in Cachers : t # x
    BY StorageAssumption
<1>4. ASSUME NEW t \in Txs, TxStep(t) PROVE StorageShape'
  <2>1. QueueStep(t) /\ WaitStep(t)
      BY <1>4, TxQueue DEF TxStep
  <2>2. micro' \in Seq(TaskSet) /\ waiting' \subseteq WaitSet
      BY <2>1, QueueShape
  <2>3. /\ DOMAIN txs' = Txs /\ \A u \in Txs \ {t} : txs'[u] = txs[u]
        /\ TxShape(txs'[t]) /\ HasTurn(t)' /\ cachers' = cachers
      BY <1>4, TxStepShape
  <2>4. \A u \in Txs : TxShape(txs'[u])
      BY <1>2, <2>3
  <2>5. \A u \in Txs : HasTurn(u)'
      BY <2>1, <2>3, OthersTurn
  <2>6. \A x \in Cachers : CallShape(cachers'[x]) /\ (Tasks(x)' # {} => cachers'[x].ref \in Requests)
      BY <1>2, <1>3, <2>1, <2>3, OthersTasks
  <2>7. DOMAIN says' = 1 .. MaxOps /\ \A map \in Maps' : ListsRequests(map)'
      BY <1>4, TxIndex, ListsKeep
  <2> QED BY <1>1, <1>2, <2>2, <2>3, <2>4, <2>5, <2>6, <2>7 DEF StorageShape, ShimShape
<1>5. ASSUME NEW x \in Cachers, CallStep(x) PROVE StorageShape'
  <2>1. QueueStep(x) /\ WaitStep(x) /\ txs' = txs
      BY <1>5, CallQueue
  <2>2. micro' \in Seq(TaskSet) /\ waiting' \subseteq WaitSet
      BY <2>1, QueueShape
  <2>3. \A u \in Txs : TxShape(txs'[u]) /\ HasTurn(u)'
      BY <1>2, <1>3, <2>1, OthersTurn
  <2>4. /\ DOMAIN cachers' = Cachers /\ \A y \in Cachers \ {x} : cachers'[y] = cachers[y]
        /\ CallShape(cachers'[x]) /\ cachers'[x].ref \in Requests
      BY <1>5, CallStepShape
  <2>5. \A y \in Cachers : CallShape(cachers'[y]) /\ (Tasks(y)' # {} => cachers'[y].ref \in Requests)
      BY <1>2, <2>1, <2>4, OthersTasks
  <2>6. DOMAIN says' = 1 .. MaxOps /\ \A map \in Maps' : ListsRequests(map)'
      BY <1>5, CallIndex, ListsKeep
  <2> QED BY <1>1, <1>2, <2>1, <2>2, <2>3, <2>4, <2>5, <2>6 DEF StorageShape, ShimShape
<1>6. ASSUME NEW f \in pending, StoreAnswers(f) PROVE StorageShape'
  <2>1. micro = <<>> /\ UNCHANGED <<txs, cachers, says>> /\ (Wakes(f, TRUE) \/ Wakes(f, FALSE))
        /\ (FlushLands(f) \/ FlushFails(f)) /\ cache' = cache
      BY <1>6 DEF StoreAnswers, FlushLands, FlushFails
  <2>2. \/ micro' = <<>> /\ waiting' = waiting
        \/ \E w \in waiting :
              \/ /\ micro' = <<>>
                 /\ waiting' = (waiting \ {w}) \cup {[w EXCEPT !.ids = w.ids \ {f.id}]}
              \/ \E ok \in BOOLEAN : /\ waiting' = waiting \ {w}
                                     /\ micro' = <<[w.task EXCEPT !.ok = ok]>>
      BY <2>1, WakeFacts
  <2>3. /\ micro' \in Seq(TaskSet) /\ waiting' \subseteq WaitSet
        /\ \A x : Tasks(x)' # {} => Tasks(x) # {}
    <3>1. CASE micro' = <<>> /\ waiting' = waiting
        BY <1>2, <2>1, <3>1 DEF Tasks
    <3>2. ASSUME NEW w \in waiting, micro' = <<>>,
                 waiting' = (waiting \ {w}) \cup {[w EXCEPT !.ids = w.ids \ {f.id}]}
          PROVE  /\ micro' \in Seq(TaskSet) /\ waiting' \subseteq WaitSet
                 /\ \A x : Tasks(x)' # {} => Tasks(x) # {}
      <4>1. w \in WaitSet
          BY <1>2
      <4>2. [w EXCEPT !.ids = w.ids \ {f.id}] \in WaitSet
            /\ [w EXCEPT !.ids = w.ids \ {f.id}].task = w.task
          BY <4>1 DEF WaitSet
      <4> QED BY <1>2, <2>1, <3>2, <4>2 DEF Tasks
    <3>3. ASSUME NEW w \in waiting, NEW ok \in BOOLEAN, waiting' = waiting \ {w},
                 micro' = <<[w.task EXCEPT !.ok = ok]>>
          PROVE  /\ micro' \in Seq(TaskSet) /\ waiting' \subseteq WaitSet
                 /\ \A x : Tasks(x)' # {} => Tasks(x) # {}
      <4>1. w \in WaitSet
          BY <1>2
      <4>2. [w.task EXCEPT !.ok = ok] \in TaskSet /\ [w.task EXCEPT !.ok = ok].who = w.task.who
          BY <4>1 DEF WaitSet, TaskSet
      <4>3. micro' \in Seq(TaskSet) /\ \A i \in DOMAIN micro' : micro'[i].who = w.task.who
        <5> DEFINE task == [w.task EXCEPT !.ok = ok]
        <5>1. micro' = <<task>> /\ task \in TaskSet /\ task.who = w.task.who
            BY <3>3, <4>2
        <5> HIDE DEF task
        <5> QED BY <5>1
      <4>4. waiting' \subseteq WaitSet
          BY <1>2, <3>3
      <4> QED BY <2>1, <3>3, <4>3, <4>4 DEF Tasks
    <3> QED BY <2>2, <3>1, <3>2, <3>3
  <2>4. \A t \in Txs : HasTurn(t)'
      BY <1>2, <2>1 DEF HasTurn, Turn
  <2>5. IndexStep
      BY <2>1 DEF IndexStep, Recorded
  <2> QED BY <1>1, <1>2, <2>1, <2>3, <2>4, <2>5, ListsKeep DEF StorageShape, ShimShape
<1>7. ASSUME NEW i \in Items, SetItem(i) \/ RemoveItem(i) PROVE StorageShape'
  <2>1. /\ UNCHANGED <<micro, waiting, txs, cachers, says>>
        /\ SetSync(Item(i)) \/ Delete(Item(i))
      BY <1>7 DEF SetItem, RemoveItem, ShimsIdle
  <2>2. Item(i) \in Keys \ {IndexKey}
      BY KeysApart
  <2>3. IndexStep
      BY <2>1, <2>2, OtherKey DEF Recorded
  <2> QED BY <1>1, <1>2, <2>1, <2>3, ListsKeep DEF StorageShape, ShimShape, HasTurn, Turn, Tasks
<1>8. CASE StorageRestart
  <2>1. /\ micro' = <<>> /\ waiting' = {} /\ says' = says
        /\ txs' = [t \in Txs |-> NoTx] /\ cachers' = [x \in Cachers |-> NoCall] /\ Restart
      BY <1>8 DEF StorageRestart
  <2>2. /\ DOMAIN NoTx = TxFields /\ NoTx.at = "idle" /\ NoTx.prog = <<>> /\ NoTx.next = 1
        /\ NoTx.pending = 0 /\ NoTx.seen = 0 /\ NoTx.todo = {} /\ NoTx.ids = {}
      BY DEF NoTx, TxFields
  <2>3. NoTx.prog \in Seq(Op) /\ NoTx.next \in Nat \ {0} /\ NoTx.pending \in Int /\ NoTx.seen \in Nat
      BY <2>2
  <2>4. \A t \in Txs : TxShape(txs'[t]) /\ HasTurn(t)'
      BY <2>1, <2>2, <2>3 DEF TxShape, HasTurn
  <2>5. \A x \in Cachers : CallShape(cachers'[x])
      BY <2>1 DEF NoCall, CallShape, CallFields
  <2>6. \A x : Tasks(x)' = {}
      BY <2>1 DEF Tasks
  <2>7. IndexStep
    <3>1. cache' = disk \/ cache' = Fresh
        BY <2>1 DEF Restart
    <3> QED BY <2>1, <3>1, KeysApart, FreshFacts DEF IndexStep, Recorded, Maps
  <2>8. micro' \in Seq(TaskSet) /\ waiting' \subseteq WaitSet
      BY <2>1
  <2> QED BY <1>1, <2>1, <2>4, <2>5, <2>6, <2>7, <2>8, ListsKeep DEF StorageShape, ShimShape
<1>9. CASE UNCHANGED storageVars
    BY <1>1, <1>2, <1>9 DEF StorageShape, ShimShape, storageVars, vars, shimVars, HasTurn, Turn,
           Tasks, Maps, ListsRequests
<1> QED BY <1>4, <1>5, <1>6, <1>7, <1>8, <1>9 DEF StorageNext, TxStep, CallStep

\* The queue, the calls and the lists of the indexes keep their shape.
THEOREM StorageTypeCorrect == StorageSpec => []StorageShape
BY InitStorageShape, NextStorageShape, PTL DEF StorageSpec

\* IndexedDB, the Cache API and localStorage, interleaved, use the data store as
\* any of its callers: what FileStore promises holds under them.
THEOREM StorageIsStore == StorageSpec => Spec
<1>1. StorageInit => Init
    BY DEF StorageInit
<1> QED BY <1>1, StorageUsesStore, StorageTypeCorrect, PTL DEF StorageSpec, Spec

\* A set of a shim that has resolved survives what the other shims write.
THEOREM SharedSetSurvives ==
    ASSUME Orderly
    PROVE  StorageSpec => []SetIsDurable
<1>1. Spec => []SetIsDurable
    BY SetSurvives
<1> QED BY <1>1, StorageIsStore, PTL

-----------------------------------------------------------------------------
(* The Cache API, with one call on the cache at a time: an entry that is     *)
(* listed is stored.                                                         *)
OneCaller == \A x, y \in Cachers : x = y

\* Whatever a map lists it holds, in memory, in the file and under way to it.
WholeMap(map) ==
    \A r \in Listed(map, IndexKey) : map[Meta(r)].there /\ map[Body(r)].there
MapsAreWhole == ~wiped => \A map \in Maps : WholeMap(map)

\* A call on the cache is at one await at a time.
Single(x) ==
    /\ \A i, j \in DOMAIN micro : micro[i].who = x /\ micro[j].who = x => i = j
    /\ \A v, w \in waiting : v.task.who = x /\ w.task.who = x => v = w
    /\ \A i \in DOMAIN micro, w \in waiting : ~(micro[i].who = x /\ w.task.who = x)
    /\ Free(Call(x)) => Tasks(x) = {}

\* What a call has done, or knows, at each await.
CallFacts(x, what) ==
    /\ what \in {"put", "body", "list", "add"} => Call(x).do = "put"
    /\ what \in {"delete", "remove"} => Call(x).do = "delete"
    /\ what \in {"body", "list", "add"} => cache[Meta(Call(x).ref)].there
    /\ what \in {"list", "add"} => cache[Body(Call(x).ref)].there
    /\ what \in {"add", "remove"} => Call(x).idx = Listed(cache, IndexKey)
    /\ what \in {"meta", "rest"} => Call(x).ref \notin Listed(cache, IndexKey)
    /\ what \in {"next", "wipeBody", "unname", "unnamed"} => wiped
    /\ what \in {"unname", "unnamed"} => ~cache[IndexKey].there

\* When the names of a wiped cache are written, the index is gone from the file.
Unnaming(x) ==
    /\ \A i \in DOMAIN micro :
        micro[i].who = x /\ micro[i].what = "unnamed" /\ micro[i].ok =>
            \A map \in Maps : ~map[IndexKey].there
    /\ \A w \in waiting : w.task.who = x =>
        /\ w.task.ok /\ \E n \in w.ids : w.ids = {n}
        /\ w.task.what = "unnamed" =>
             \A n \in w.ids, f \in pending : n <= f.id => ~f.out[IndexKey].there

CallInv(x) == Single(x) /\ (\A e \in Tasks(x) : CallFacts(x, e.what)) /\ Unnaming(x)
WholeInv == MapsAreWhole /\ \A x \in Cachers : CallInv(x)

\* What a step does to the maps is what it does to the one in memory.
LEMMA WholeKeeps ==
    ASSUME StorageShape, [Next]_vars, Recorded, MapsAreWhole,
           ~wiped' => ~wiped /\ WholeMap(cache)'
    PROVE  MapsAreWhole'
<1> SUFFICES ASSUME ~wiped', NEW map \in Maps' PROVE WholeMap(map)'
    BY DEF MapsAreWhole
<1>1. IndexKey \in Keys /\ ShapeInv /\ DOMAIN says = 1 .. MaxOps
    BY KeysApart DEF StorageShape, ShimShape
<1>2. CASE map \in Maps
  <2>1. WholeMap(map) /\ ListsRequests(map)
      BY <1>2 DEF MapsAreWhole, StorageShape, ShimShape
  <2>2. Listed(map, IndexKey)' = Listed(map, IndexKey)
    <3>1. map[IndexKey].ver # ops + 1
        BY <1>1, <1>2, MapFacts
    <3> QED BY <1>1, <2>1, <3>1 DEF Listed, ListsRequests, Recorded
  <2> QED BY <2>1, <2>2 DEF WholeMap
<1>3. CASE map = cache'
    BY <1>3 DEF WholeMap
<1>4. CASE map = Fresh
  <2>1. Listed(map, IndexKey)' = {}
      BY <1>1, <1>4, FreshFacts DEF Listed
  <2> QED BY <2>1 DEF WholeMap
<1> QED BY <1>1, <1>2, <1>3, <1>4, MapsMove

\* The keys of the cache's entries, apart from each other and from the rest.
LEMMA EntriesApart ==
    ASSUME NEW r \in Requests
    PROVE  /\ Meta(r) \in Keys /\ Body(r) \in Keys /\ Meta(r) # Body(r)
           /\ \A q \in Requests : /\ Meta(r) # Body(q)
                                  /\ Meta(r) = Meta(q) => r = q
                                  /\ Body(r) = Body(q) => r = q
           /\ Meta(r) \notin AllRecords /\ Body(r) \notin AllRecords
           /\ \A i \in Items : Meta(r) # Item(i) /\ Body(r) # Item(i)
           /\ Meta(r) # NamesKey /\ Body(r) # NamesKey
           /\ Meta(r) # IndexKey /\ Body(r) # IndexKey
<1>1. \A q : /\ Meta(r) # Body(q) /\ (Meta(r) = Meta(q) => r = q) /\ (Body(r) = Body(q) => r = q)
             /\ Meta(r) # Rec(q) /\ Body(r) # Rec(q) /\ Meta(r) # Item(q) /\ Body(r) # Item(q)
    BY DEF Meta, Body, Rec, Item
<1>2. Meta(r) # NamesKey /\ Body(r) # NamesKey
    BY DEF Meta, Body, NamesKey
<1> QED BY <1>1, <1>2, KeysApart DEF AllRecords

\* Where the tasks of a call are after a step of somebody else.
LEMMA OthersPlaces ==
    ASSUME StorageShape, NEW p, NEW q, p # q, QueueStep(q)
    PROVE  \E d \in {0, 1} : \A i \in DOMAIN micro' :
               micro'[i].who = p => i + d \in DOMAIN micro /\ micro'[i] = micro[i + d]
<1>1. micro \in Seq(TaskSet)
    BY DEF StorageShape, ShimShape
<1>2. \A a \in TaskOf(q) : a \in TaskSet /\ a.who # p
    BY DEF TaskOf
<1>3. \A m \in Seq(TaskSet), a \in TaskSet :
          /\ Append(m, a) \in Seq(TaskSet)
          /\ \A i \in DOMAIN Append(m, a) :
                 Append(m, a)[i] = a \/ (i \in DOMAIN m /\ Append(m, a)[i] = m[i])
    OBVIOUS
<1>4. ASSUME NEW m \in Seq(TaskSet), NEW n, Longer(m, n, q), NEW i \in DOMAIN n, n[i].who = p
      PROVE  i \in DOMAIN m /\ n[i] = m[i]
    BY <1>2, <1>3, <1>4, SMTT(30) DEF Longer
<1>5. CASE Longer(micro, micro', q)
  <2>1. \A i \in DOMAIN micro' : micro'[i].who = p => i \in DOMAIN micro /\ micro'[i] = micro[i]
      BY <1>1, <1>4, <1>5
  <2>2. \A i \in DOMAIN micro : i + 0 = i
      BY <1>1
  <2> QED BY <2>1, <2>2
<1>6. CASE micro # <<>> /\ Head(micro).who = q /\ Longer(Tail(micro), micro', q)
  <2>1. /\ Tail(micro) \in Seq(TaskSet)
        /\ \A i \in DOMAIN Tail(micro) : i + 1 \in DOMAIN micro /\ Tail(micro)[i] = micro[i + 1]
      BY <1>1, <1>6
  <2>2. \A i \in DOMAIN micro' : micro'[i].who = p => i \in DOMAIN Tail(micro) /\ micro'[i] = Tail(micro)[i]
      BY <1>4, <1>6, <2>1
  <2> QED BY <2>1, <2>2
<1> QED BY <1>5, <1>6 DEF QueueStep

LEMMA OthersSingle ==
    ASSUME StorageShape, NEW x \in Cachers, NEW q, q # x, QueueStep(q), WaitStep(q), Single(x),
           cachers' = cachers
    PROVE  Single(x)'
<1>1. PICK d \in {0, 1} : \A i \in DOMAIN micro' :
              micro'[i].who = x => i + d \in DOMAIN micro /\ micro'[i] = micro[i + d]
    BY OthersPlaces
<1>2. \A w \in waiting' : w.task.who = x => w \in waiting
    BY DEF WaitStep
<1>3. micro' \in Seq(TaskSet) /\ DOMAIN micro' \subseteq Nat
    BY QueueShape
<1>4. \A i, j \in DOMAIN micro' : micro'[i].who = x /\ micro'[j].who = x => i = j
  <2> SUFFICES ASSUME NEW i \in DOMAIN micro', NEW j \in DOMAIN micro', micro'[i].who = x,
                      micro'[j].who = x
               PROVE  i = j
      OBVIOUS
  <2>1. i + d = j + d
      BY <1>1 DEF Single
  <2> QED BY <1>3, <2>1
<1>5. \A i \in DOMAIN micro', w \in waiting' : ~(micro'[i].who = x /\ w.task.who = x)
    BY <1>1, <1>2 DEF Single
<1>6. Tasks(x)' \subseteq Tasks(x)
    BY OthersTasks
<1> QED BY <1>2, <1>4, <1>5, <1>6 DEF Single, Call

\* A call that goes on is at the one await it goes on to.
LEMMA OwnTask ==
    ASSUME StorageShape, NEW x \in Cachers, NEW what \in CallKinds, Single(x), micro # <<>>,
           Head(micro).who = x, Proceeds(x, what), ~Free(Call(x))'
    PROVE  /\ Single(x)' /\ \A e \in Tasks(x)' : e = Task(x, what)
           /\ \A i \in DOMAIN micro' : micro'[i].who = x => micro'[i] = Task(x, what)
           /\ \A w \in waiting' :
                 w.task.who = x => w = [task |-> Task(x, what), ids |-> {ops + 1}]
<1> DEFINE new == [task |-> Task(x, what), ids |-> {ops + 1}]
           task == Task(x, what)
<1>1. micro \in Seq(TaskSet) /\ micro[1].who = x /\ 1 \in DOMAIN micro /\ Head(micro) = micro[1]
    BY DEF StorageShape, ShimShape
<1>2. \A i \in DOMAIN micro : micro[i].who = x => i = 1
    BY <1>1 DEF Single
<1>3. \A w \in waiting : w.task.who # x
    BY <1>1 DEF Single
<1>4. task \in TaskSet /\ task.who = x /\ new.task = task
    BY TaskFacts DEF TaskOf
<1>5. /\ Tail(micro) \in Seq(TaskSet) /\ DOMAIN Tail(micro) = 1 .. Len(Tail(micro))
      /\ \A i \in DOMAIN Tail(micro) : Tail(micro)[i].who # x
  <2>1. /\ Tail(micro) \in Seq(TaskSet) /\ DOMAIN Tail(micro) = 1 .. Len(Tail(micro))
        /\ \A i \in DOMAIN Tail(micro) : i + 1 \in DOMAIN micro /\ i + 1 # 1
                                         /\ Tail(micro)[i] = micro[i + 1]
      BY <1>1
  <2> QED BY <1>2, <2>1
<1>6. \/ micro' = Append(Tail(micro), task) /\ waiting' = waiting
      \/ micro' = Tail(micro) /\ waiting' = waiting \cup {new}
    BY ProceedMoves
<1>7. QED
  <2> HIDE DEF new, task
  <2>1. CASE micro' = Append(Tail(micro), task) /\ waiting' = waiting
    <3>1. \A i \in DOMAIN micro' : \/ i = Len(Tail(micro)) + 1 /\ micro'[i] = task
                                   \/ micro'[i].who # x
        BY <1>4, <1>5, <2>1
    <3>2. \A i \in DOMAIN micro' : micro'[i].who = x => micro'[i] = task
        BY <3>1
    <3>3. \A w \in waiting' : w.task.who # x
        BY <1>3, <2>1
    <3>4. Single(x)'
        BY <3>1, <3>3 DEF Single
    <3> QED BY <3>2, <3>3, <3>4 DEF Tasks, new, task
  <2>2. CASE micro' = Tail(micro) /\ waiting' = waiting \cup {new}
    <3>1. \A i \in DOMAIN micro' : micro'[i].who # x
        BY <1>5, <2>2
    <3>2. \A w \in waiting' : w.task.who = x => w = new
        BY <1>3, <2>2
    <3>3. Single(x)'
        BY <3>1, <3>2 DEF Single
    <3> QED BY <1>4, <3>1, <3>2, <3>3 DEF Tasks, new, task
  <2> QED BY <1>6, <2>1, <2>2

\* What a write of one key leaves of the others, and of the index.
LEMMA CacheKeeps ==
    ASSUME StorageShape, NEW k \in Keys, Set(k) \/ SetSync(k) \/ Delete(k)
    PROVE  /\ \A j \in Keys \ {k} : cache'[j] = cache[j]
           /\ Set(k) => cache'[k].there
           /\ Delete(k) => ~cache'[k].there
<1>1. ShapeInv
    BY DEF StorageShape
<1>2. \A j \in Keys \ {k} : cache'[j] = cache[j]
  <2>1. CASE \E there \in BOOLEAN : Write(k, there)
      BY <1>1, <2>1, WriteFacts
  <2>2. CASE cache' = cache
      BY <2>2
  <2> QED BY <2>1, <2>2 DEF Set, SetSync, Delete
<1>3. Set(k) => cache'[k].there
    BY <1>1, WriteFacts DEF Set
<1>4. Delete(k) => ~cache'[k].there
  <2>1. CASE Write(k, FALSE)
      BY <1>1, <2>1, WriteFacts
  <2>2. CASE ~cache[k].there /\ cache' = cache
      BY <2>2
  <2> QED BY <2>1, <2>2 DEF Delete
<1> QED BY <1>2, <1>3, <1>4

LEMMA ListedKeeps ==
    ASSUME StorageShape, Recorded, cache'[IndexKey] = cache[IndexKey]
    PROVE  Listed(cache, IndexKey)' = Listed(cache, IndexKey)
<1>1. IndexKey \in Keys /\ ShapeInv /\ DOMAIN says = 1 .. MaxOps /\ cache \in Maps
    BY KeysApart DEF StorageShape, ShimShape, Maps
<1>2. cache[IndexKey].ver # ops + 1
    BY <1>1, MapFacts
<1>3. ListsRequests(cache)
    BY <1>1 DEF StorageShape, ShimShape
<1> QED BY <1>1, <1>2, <1>3 DEF Listed, ListsRequests, Recorded

\* A step of the one call goes on to `what` with what `what` may count on.
LEMMA GoesOnWhole ==
    ASSUME StorageShape, WholeInv, OneCaller, NEW x \in Cachers, NEW what \in CallKinds,
           micro # <<>>, Head(micro).who = x, Proceeds(x, what),
           DOMAIN cachers' = Cachers, cachers'[x].at = cachers[x].at,
           CallFacts(x, what)', MapsAreWhole',
           what = "unnamed" => /\ Await(x, what) /\ Then(<<>>)
                               /\ \A f \in pending' : ops + 1 <= f.id => ~f.out[IndexKey].there
    PROVE  WholeInv'
<1>1. Single(x)
    BY DEF WholeInv, CallInv
<1>2. ~Free(Call(x))'
  <2>1. Head(micro) \in Tasks(x)
      BY DEF StorageShape, ShimShape, Tasks
  <2> QED BY <1>1, <2>1 DEF Single, Free, Call
<1>3. /\ Single(x)' /\ \A e \in Tasks(x)' : e = Task(x, what)
      /\ \A i \in DOMAIN micro' : micro'[i].who = x => micro'[i] = Task(x, what)
      /\ \A w \in waiting' : w.task.who = x => w = [task |-> Task(x, what), ids |-> {ops + 1}]
    BY <1>1, <1>2, OwnTask
<1>4. Task(x, what).what = what /\ Task(x, what).ok
    BY TaskFacts, ZenonT(60)
<1>5. \A e \in Tasks(x)' : CallFacts(x, e.what)'
    BY <1>3, <1>4
<1>6. \A w \in waiting' : w.task.who = x =>
          /\ w.task.ok /\ w.task.what = what /\ w.ids = {ops + 1} /\ \E n \in w.ids : w.ids = {n}
    BY <1>3, <1>4
<1>7. Unnaming(x)'
  <2>1. CASE what = "unnamed"
    <3>1. micro' = Tail(micro)
        BY <2>1, GoesOn
    <3>2. \A i \in DOMAIN micro' : micro'[i].who # x
      <4>1. /\ micro \in Seq(TaskSet) /\ micro[1].who = x
            /\ \A i \in DOMAIN Tail(micro) : i + 1 \in DOMAIN micro /\ i + 1 # 1
                                             /\ Tail(micro)[i] = micro[i + 1]
          BY DEF StorageShape, ShimShape
      <4>2. \A i \in DOMAIN Tail(micro) : Tail(micro)[i].who # x
          BY <1>1, <4>1 DEF Single
      <4> QED BY <3>1, <4>2
    <3> QED BY <1>6, <2>1, <3>2 DEF Unnaming
  <2>2. CASE what # "unnamed"
      BY <1>3, <1>4, <1>6, <2>2 DEF Unnaming
  <2> QED BY <2>1, <2>2
<1>8. CallInv(x)'
    BY <1>3, <1>5, <1>7 DEF CallInv
<1>9. \A y \in Cachers : y = x
    BY DEF OneCaller
<1> QED BY <1>8, <1>9 DEF WholeInv

\* The memory keeps what it lists, so every map does.
LEMMA CallKeepsMaps ==
    ASSUME StorageShape, MapsAreWhole, NEW x \in Cachers, CacheTask(x),
           wiped' \/ (~wiped /\ WholeMap(cache)')
    PROVE  MapsAreWhole'
<1>1. [Next]_vars
    BY CallUsesStore, CallHasHead
<1>2. Recorded
    BY CallIndex DEF CallStep, IndexStep
<1> QED BY <1>1, <1>2, WholeKeeps

\* A step that only reads.
LEMMA ReadsWhole ==
    ASSUME StorageShape, MapsAreWhole, UNCHANGED <<vars, says>>
    PROVE  /\ ~wiped => WholeMap(cache)'
           /\ cache' = cache /\ Listed(cache, IndexKey)' = Listed(cache, IndexKey)
<1>1. cache' = cache /\ says' = says /\ cache \in Maps
    BY DEF vars, Maps
<1>2. Listed(cache, IndexKey)' = Listed(cache, IndexKey)
    BY <1>1 DEF Listed
<1> QED BY <1>1, <1>2 DEF MapsAreWhole, WholeMap

LEMMA OpensWhole ==
    ASSUME StorageShape, WholeInv, OneCaller, NEW x \in Cachers, CacheTask(x),
           Open(x) \/ Named(x) \/ Opened(x)
    PROVE  WholeInv'
<1>1. micro # <<>> /\ Head(micro).who = x
    BY CallHasHead
<1>2. /\ DOMAIN cachers = Cachers /\ DOMAIN Call(x) = CallFields
      /\ Call(x).do \in {"put", "delete", "wipe"} /\ Call(x).do \in CallKinds
    BY DEF StorageShape, ShimShape, CallShape, Call, CallKinds
<1>3. /\ DOMAIN cachers' = Cachers /\ cachers'[x].at = cachers[x].at
      /\ cachers'[x].do = Call(x).do /\ wiped' = wiped
    BY <1>2 DEF Open, Named, Opened, Saw, Call, CallFields
<1>4. ASSUME NEW what, Resume(x, what), says' = says, what = Call(x).do \/ what = "named"
      PROVE  WholeInv'
  <2>1. UNCHANGED <<vars, says>>
      BY <1>4 DEF Resume, StoreQuiet
  <2>2. MapsAreWhole'
      BY <1>3, <2>1, ReadsWhole, CallKeepsMaps DEF WholeInv
  <2>3. what \in CallKinds /\ CallFacts(x, what)' /\ Proceeds(x, what) /\ what # "unnamed"
      BY <1>2, <1>3, <1>4 DEF CallFacts, Call, Proceeds, CallKinds
  <2> QED BY <1>1, <1>3, <2>2, <2>3, GoesOnWhole
<1>5. ASSUME NEW list, WriteIndex(x, NamesKey, list, "opened") PROVE WholeInv'
  <2>1. Set(NamesKey) /\ Proceeds(x, "opened") /\ "opened" \in CallKinds
      BY <1>5 DEF WriteIndex, SetThen, Proceeds, CallKinds
  <2>2. NamesKey \in Keys /\ NamesKey # IndexKey /\ IndexKey \in Keys
      BY KeysApart
  <2>3. \A j \in Keys \ {NamesKey} : cache'[j] = cache[j]
      BY <2>1, <2>2, CacheKeeps
  <2>4. Recorded
      BY <1>5 DEF WriteIndex, Recorded
  <2>5. Listed(cache, IndexKey)' = Listed(cache, IndexKey)
      BY <2>2, <2>3, <2>4, ListedKeeps
  <2>6. Listed(cache, IndexKey) \subseteq Requests
      BY DEF StorageShape, ShimShape, Maps, ListsRequests, Listed
  <2>7. ~wiped => WholeMap(cache)'
    <3>1. ~wiped => WholeMap(cache)
        BY DEF WholeInv, MapsAreWhole, Maps
    <3> QED BY <2>3, <2>5, <2>6, <3>1, EntriesApart DEF WholeMap
  <2>8. MapsAreWhole'
      BY <1>3, <2>7, CallKeepsMaps DEF WholeInv
  <2>9. CallFacts(x, "opened")'
      BY DEF CallFacts
  <2> QED BY <1>1, <1>3, <2>1, <2>8, <2>9, GoesOnWhole
<1>6. CASE Open(x)
  <2> DEFINE what == IF opened THEN Call(x).do ELSE "named"
  <2>1. Resume(x, what) /\ says' = says
      BY <1>6 DEF Open
  <2>2. what = Call(x).do \/ what = "named"
      OBVIOUS
  <2> HIDE DEF what
  <2> QED BY <1>4, <2>1, <2>2
<1> QED BY <1>4, <1>5, <1>6 DEF Named, Opened

\* A write of one key that is not the index, and deletes nothing that is listed.
LEMMA WritesWhole ==
    ASSUME StorageShape, MapsAreWhole, NEW k \in Keys \ {IndexKey}, Set(k) \/ Delete(k), Recorded,
           Set(k) \/ \A r \in Listed(cache, IndexKey) : k # Meta(r) /\ k # Body(r)
    PROVE  /\ ~wiped => WholeMap(cache)'
           /\ Listed(cache, IndexKey)' = Listed(cache, IndexKey)
<1>1. \A j \in Keys \ {k} : cache'[j] = cache[j]
    BY CacheKeeps
<1>2. Set(k) => cache'[k].there
    BY CacheKeeps
<1>3. IndexKey \in Keys
    BY KeysApart
<1>4. Listed(cache, IndexKey)' = Listed(cache, IndexKey)
    BY <1>1, <1>3, ListedKeeps
<1>5. Listed(cache, IndexKey) \subseteq Requests
    BY DEF StorageShape, ShimShape, Maps, ListsRequests, Listed
<1>6. ASSUME ~wiped PROVE WholeMap(cache)'
  <2>1. WholeMap(cache)
      BY <1>6 DEF MapsAreWhole, Maps
  <2>2. ASSUME NEW r \in Listed(cache, IndexKey)
        PROVE  cache'[Meta(r)].there /\ cache'[Body(r)].there
      BY <1>1, <1>2, <1>5, <2>1, <2>2, EntriesApart DEF WholeMap
  <2> QED BY <1>4, <2>2 DEF WholeMap
<1> QED BY <1>4, <1>6

\* put() and delete(), up to the index.
LEMMA PutsWhole ==
    ASSUME StorageShape, WholeInv, OneCaller, NEW x \in Cachers, CacheTask(x),
           PutMeta(x) \/ PutBody(x) \/ ReadIndex(x)
    PROVE  WholeInv'
<1>1. micro # <<>> /\ Head(micro).who = x
    BY CallHasHead
<1>2. /\ DOMAIN cachers = Cachers /\ DOMAIN Call(x) = CallFields
      /\ Call(x).do \in {"put", "delete", "wipe"} /\ Call(x).ref \in Requests
      /\ CallFacts(x, Head(micro).what)
    BY <1>1, CallRef, HeadIsTask DEF StorageShape, ShimShape, CallShape, Call, WholeInv, CallInv
<1>3. Meta(Call(x).ref) \in Keys \ {IndexKey} /\ Body(Call(x).ref) \in Keys \ {IndexKey}
      /\ Meta(Call(x).ref) # Body(Call(x).ref)
    BY <1>2, EntriesApart
<1>4. CASE PutMeta(x)
  <2>1. /\ Head(micro).what = "put" /\ SetThen(x, Meta(Call(x).ref), "body")
        /\ cachers' = cachers /\ says' = says /\ wiped' = wiped
      BY <1>4 DEF PutMeta, Step, Turn
  <2>2. Set(Meta(Call(x).ref)) /\ Proceeds(x, "body") /\ "body" \in CallKinds
      BY <2>1 DEF SetThen, Proceeds, CallKinds
  <2>3. ~wiped => WholeMap(cache)'
      BY <1>3, <2>1, <2>2, WritesWhole DEF WholeInv, Recorded
  <2>4. cache'[Meta(Call(x).ref)].there
      BY <1>3, <2>2, CacheKeeps
  <2>5. CallFacts(x, "body")'
      BY <1>2, <2>1, <2>4 DEF CallFacts, Call
  <2>6. MapsAreWhole'
      BY <2>1, <2>3, CallKeepsMaps DEF WholeInv
  <2> QED BY <1>1, <1>2, <2>1, <2>2, <2>5, <2>6, GoesOnWhole
<1>5. CASE PutBody(x)
  <2>1. /\ Head(micro).what = "body" /\ SetThen(x, Body(Call(x).ref), "list")
        /\ cachers' = cachers /\ says' = says /\ wiped' = wiped
      BY <1>5 DEF PutBody, Step, Turn
  <2>2. Set(Body(Call(x).ref)) /\ Proceeds(x, "list") /\ "list" \in CallKinds
      BY <2>1 DEF SetThen, Proceeds, CallKinds
  <2>3. ~wiped => WholeMap(cache)'
      BY <1>3, <2>1, <2>2, WritesWhole DEF WholeInv, Recorded
  <2>4. cache'[Body(Call(x).ref)].there /\ cache'[Meta(Call(x).ref)] = cache[Meta(Call(x).ref)]
      BY <1>3, <2>2, CacheKeeps
  <2>5. CallFacts(x, "list")'
      BY <1>2, <2>1, <2>4 DEF CallFacts, Call
  <2>6. MapsAreWhole'
      BY <2>1, <2>3, CallKeepsMaps DEF WholeInv
  <2> QED BY <1>1, <1>2, <2>1, <2>2, <2>5, <2>6, GoesOnWhole
<1>6. CASE ReadIndex(x)
  <2>0. PICK what : /\ Resume(x, what)
                    /\ \/ what = "add" /\ Call(x).do = "put"
                       \/ what = "remove" /\ Call(x).do # "put"
      BY <1>6 DEF ReadIndex
  <2>1. /\ Head(micro).what \in {"list", "delete"}
        /\ cachers' = [cachers EXCEPT ![x].idx = Listed(cache, IndexKey)]
        /\ says' = says /\ wiped' = wiped
      BY <1>6 DEF ReadIndex, Step, Turn, Saw
  <2>2. /\ DOMAIN cachers' = Cachers /\ cachers'[x].at = cachers[x].at
        /\ cachers'[x].do = Call(x).do /\ cachers'[x].ref = Call(x).ref
        /\ cachers'[x].idx = Listed(cache, IndexKey)
      BY <1>2, <2>1 DEF Call, CallFields
  <2>3. UNCHANGED <<vars, says>> /\ Proceeds(x, what) /\ what \in CallKinds /\ what # "unnamed"
    <3>1. what \in CallKinds /\ what # "unnamed"
        BY <2>0 DEF CallKinds
    <3>2. UNCHANGED <<vars, says>> /\ Proceeds(x, what)
        BY <2>0, <2>1 DEF Resume, StoreQuiet, Proceeds
    <3> QED BY <3>1, <3>2
  <2>4. /\ ~wiped => WholeMap(cache)'
        /\ cache' = cache /\ Listed(cache, IndexKey)' = Listed(cache, IndexKey)
      BY <2>3, ReadsWhole DEF WholeInv
  <2>5. CallFacts(x, what)'
      BY <1>2, <2>0, <2>1, <2>2, <2>4 DEF CallFacts, Call
  <2>6. MapsAreWhole'
      BY <2>1, <2>4, CallKeepsMaps DEF WholeInv
  <2> QED BY <1>1, <2>2, <2>3, <2>5, <2>6, GoesOnWhole
<1> QED BY <1>4, <1>5, <1>6

\* An index that is written lists what it was written with.
LEMMA ListsWhatWasWritten ==
    ASSUME StorageShape, NEW x, NEW list, NEW what, WriteIndex(x, IndexKey, list, what)
    PROVE  /\ Listed(cache, IndexKey)' = list
           /\ \A j \in Keys \ {IndexKey} : cache'[j] = cache[j]
<1>1. IndexKey \in Keys /\ ShapeInv /\ DOMAIN says = 1 .. MaxOps
    BY KeysApart DEF StorageShape, ShimShape
<1>2. Set(IndexKey) /\ Write(IndexKey, TRUE) /\ says' = [says EXCEPT ![ops + 1] = list]
    BY DEF WriteIndex, SetThen, Set
<1>3. cache'[IndexKey].ver = ops + 1 /\ cache'[IndexKey].there /\ ops + 1 \in 1 .. MaxOps
    BY <1>1, <1>2, WriteFacts
<1>4. Listed(cache, IndexKey)' = list
    BY <1>1, <1>2, <1>3 DEF Listed
<1> QED BY <1>1, <1>2, <1>4, CacheKeeps

LEMMA IndexesWhole ==
    ASSUME StorageShape, WholeInv, OneCaller, NEW x \in Cachers, CacheTask(x),
           AddToIndex(x) \/ RemoveFromIndex(x)
    PROVE  WholeInv'
<1>1. micro # <<>> /\ Head(micro).who = x
    BY CallHasHead
<1>2. /\ DOMAIN cachers = Cachers /\ Call(x).ref \in Requests /\ CallFacts(x, Head(micro).what)
      /\ cachers' = cachers /\ wiped' = wiped
    BY <1>1, CallRef, HeadIsTask
       DEF StorageShape, ShimShape, WholeInv, CallInv, AddToIndex, RemoveFromIndex
<1>3. /\ Call(x).idx = Listed(cache, IndexKey) /\ Listed(cache, IndexKey) \subseteq Requests
      /\ AddToIndex(x) => /\ cache[Meta(Call(x).ref)].there /\ cache[Body(Call(x).ref)].there
  <2>1. Head(micro).what \in {"add", "remove"} /\ (AddToIndex(x) => Head(micro).what = "add")
      BY DEF AddToIndex, RemoveFromIndex, Step, Turn
  <2> QED BY <1>2, <2>1
          DEF CallFacts, StorageShape, ShimShape, Maps, ListsRequests, Listed
<1>4. ASSUME Resume(x, "done"), says' = says PROVE WholeInv'
  <2>1. UNCHANGED <<vars, says>> /\ Proceeds(x, "done") /\ "done" \in CallKinds
      BY <1>4 DEF Resume, StoreQuiet, Proceeds, CallKinds
  <2>2. MapsAreWhole'
      BY <1>2, <2>1, ReadsWhole, CallKeepsMaps DEF WholeInv
  <2>3. CallFacts(x, "done")'
      BY DEF CallFacts
  <2> QED BY <1>1, <1>2, <2>1, <2>2, <2>3, GoesOnWhole
<1>5. ASSUME NEW list, list \subseteq Requests, NEW what \in {"done", "meta"},
             WriteIndex(x, IndexKey, list, what),
             ~wiped => \A r \in list : cache[Meta(r)].there /\ cache[Body(r)].there,
             what = "meta" => Call(x).ref \notin list
      PROVE  WholeInv'
  <2>1. /\ Listed(cache, IndexKey)' = list
        /\ \A j \in Keys \ {IndexKey} : cache'[j] = cache[j]
      BY <1>5, ListsWhatWasWritten
  <2>2. ~wiped => WholeMap(cache)'
      BY <1>5, <2>1, EntriesApart DEF WholeMap
  <2>3. MapsAreWhole'
      BY <1>2, <2>2, CallKeepsMaps DEF WholeInv
  <2>4. Proceeds(x, what) /\ what \in CallKinds /\ what # "unnamed"
      BY <1>5 DEF WriteIndex, SetThen, Proceeds, CallKinds
  <2>5. CallFacts(x, what)'
      BY <1>2, <1>5, <2>1 DEF CallFacts, Call
  <2> QED BY <1>1, <1>2, <2>3, <2>4, <2>5, GoesOnWhole
<1>6. ~wiped => \A r \in Listed(cache, IndexKey) : cache[Meta(r)].there /\ cache[Body(r)].there
    BY DEF WholeInv, MapsAreWhole, Maps, WholeMap
<1>7. CASE AddToIndex(x)
  <2>1. Call(x).idx \cup {Call(x).ref} \subseteq Requests
      BY <1>2, <1>3
  <2>2. ~wiped => \A r \in Call(x).idx \cup {Call(x).ref} :
                      cache[Meta(r)].there /\ cache[Body(r)].there
      BY <1>3, <1>6, <1>7
  <2>3. PICK list : list = Call(x).idx \cup {Call(x).ref}
      OBVIOUS
  <2>4. (Resume(x, "done") /\ says' = says) \/ WriteIndex(x, IndexKey, list, "done")
      BY <1>7, <2>3 DEF AddToIndex
  <2> QED BY <1>4, <1>5, <2>1, <2>2, <2>3, <2>4
<1>8. CASE RemoveFromIndex(x)
  <2>1. PICK list : list = Call(x).idx \ {Call(x).ref}
      OBVIOUS
  <2>2. (Resume(x, "done") /\ says' = says) \/ WriteIndex(x, IndexKey, list, "meta")
      BY <1>8, <2>1 DEF RemoveFromIndex
  <2>3. list \subseteq Requests /\ Call(x).ref \notin list /\ list \subseteq Listed(cache, IndexKey)
      BY <1>3, <2>1
  <2> QED BY <1>4, <1>5, <1>6, <2>2, <2>3
<1> QED BY <1>7, <1>8

LEMMA DeletesWhole ==
    ASSUME StorageShape, WholeInv, OneCaller, NEW x \in Cachers, CacheTask(x), DeleteEntry(x)
    PROVE  WholeInv'
<1>1. micro # <<>> /\ Head(micro).who = x
    BY CallHasHead
<1>2. /\ DOMAIN cachers = Cachers /\ Call(x).ref \in Requests /\ CallFacts(x, Head(micro).what)
      /\ cachers' = cachers /\ wiped' = wiped /\ says' = says
    BY <1>1, CallRef, HeadIsTask DEF StorageShape, ShimShape, WholeInv, CallInv, DeleteEntry
<1>3. PICK k, what : /\ DeleteThen(x, k, what)
                     /\ \/ k = Meta(Call(x).ref) /\ what = "rest"
                        \/ k = Body(Call(x).ref) /\ what = "done"
    BY DEF DeleteEntry
<1>4. Call(x).ref \notin Listed(cache, IndexKey)
  <2>1. Head(micro).what \in {"meta", "rest"}
      BY DEF DeleteEntry, Step, Turn
  <2> QED BY <1>2, <2>1 DEF CallFacts
<1>5. Listed(cache, IndexKey) \subseteq Requests
    BY DEF StorageShape, ShimShape, Maps, ListsRequests, Listed
<1>6. /\ k \in Keys \ {IndexKey}
      /\ \A r \in Listed(cache, IndexKey) : k # Meta(r) /\ k # Body(r)
    BY <1>2, <1>3, <1>4, <1>5, EntriesApart
<1>7. Delete(k) /\ Proceeds(x, what)
    BY <1>3 DEF DeleteThen, Proceeds
<1>8. /\ ~wiped => WholeMap(cache)'
      /\ Listed(cache, IndexKey)' = Listed(cache, IndexKey)
    BY <1>2, <1>6, <1>7, WritesWhole DEF WholeInv, Recorded
<1>9. MapsAreWhole'
    BY <1>2, <1>8, CallKeepsMaps DEF WholeInv
<1>10. what \in CallKinds /\ what # "unnamed" /\ CallFacts(x, what)'
    BY <1>2, <1>3, <1>4, <1>8 DEF CallFacts, Call, CallKinds
<1> QED BY <1>1, <1>2, <1>7, <1>9, <1>10, GoesOnWhole

LEMMA WipesWhole ==
    ASSUME StorageShape, WholeInv, OneCaller, NEW x \in Cachers, CacheTask(x),
           Wipe(x) \/ WipeBegins(x) \/ WipeEntry(x) \/ WipeIndex(x) \/ Unname(x)
    PROVE  WholeInv'
<1>1. micro # <<>> /\ Head(micro).who = x
    BY CallHasHead
<1>2. /\ DOMAIN cachers = Cachers /\ DOMAIN Call(x) = CallFields
      /\ Call(x).ref \in Requests /\ Call(x).idx \subseteq Requests
      /\ CallFacts(x, Head(micro).what)
    BY <1>1, CallRef, HeadIsTask DEF StorageShape, ShimShape, CallShape, Call, WholeInv, CallInv
<1>3. DOMAIN cachers' = Cachers /\ cachers'[x].at = cachers[x].at
    BY <1>2, ZenonT(60) DEF Wipe, WipeBegins, WipeEntry, WipeIndex, Unname, Saw, Call, CallFields
<1>4. CASE Wipe(x) \/ (WipeBegins(x) /\ "name" \notin Call(x).names)
  <2>1. PICK what \in {"wiping", "done"} : Resume(x, what)
      BY <1>4 DEF Wipe, WipeBegins
  <2>2. UNCHANGED <<vars, says>> /\ wiped' = wiped
      BY <1>4, <2>1 DEF Wipe, WipeBegins, Resume, StoreQuiet
  <2>3. MapsAreWhole'
      BY <2>2, ReadsWhole, CallKeepsMaps DEF WholeInv
  <2>4. what \in CallKinds /\ what # "unnamed" /\ Proceeds(x, what) /\ CallFacts(x, what)'
      BY <2>1 DEF CallKinds, Proceeds, CallFacts
  <2> QED BY <1>1, <1>3, <2>3, <2>4, GoesOnWhole
<1>5. CASE WipeBegins(x) /\ "name" \in Call(x).names
  <2>1. wiped' /\ Resume(x, "next")
      BY <1>5 DEF WipeBegins
  <2>2. MapsAreWhole'
      BY <2>1 DEF MapsAreWhole
  <2>3. "next" \in CallKinds /\ Proceeds(x, "next") /\ CallFacts(x, "next")'
      BY <2>1 DEF CallKinds, Proceeds, CallFacts
  <2> QED BY <1>1, <1>3, <2>2, <2>3, GoesOnWhole
<1>6. CASE WipeEntry(x) \/ WipeIndex(x) \/ Unname(x)
  <2>1. Head(micro).what \in {"next", "wipeBody", "unname"} /\ wiped' = wiped
      BY <1>6 DEF WipeEntry, WipeIndex, Unname, Step, Turn
  <2>2. wiped'
      BY <1>2, <2>1 DEF CallFacts
  <2>3. MapsAreWhole'
      BY <2>2 DEF MapsAreWhole
  <2>4. CASE WipeEntry(x)
    <3>0. \E k : DeleteThen(x, k, "wipeBody") \/ DeleteThen(x, k, "next")
        BY <2>4 DEF WipeEntry
    <3>1. PICK k, what : DeleteThen(x, k, what) /\ what \in {"wipeBody", "next"}
        BY <3>0
    <3>2. what \in CallKinds /\ what # "unnamed" /\ Proceeds(x, what) /\ CallFacts(x, what)'
        BY <2>2, <3>1 DEF CallKinds, Proceeds, DeleteThen, CallFacts
    <3> QED BY <1>1, <1>3, <2>3, <3>2, GoesOnWhole
  <2>5. CASE WipeIndex(x)
    <3>1. DeleteThen(x, IndexKey, "unname") /\ Delete(IndexKey)
        BY <2>5 DEF WipeIndex, DeleteThen
    <3>2. ~cache'[IndexKey].there
        BY <3>1, KeysApart, CacheKeeps
    <3>3. "unname" \in CallKinds /\ Proceeds(x, "unname") /\ CallFacts(x, "unname")'
        BY <2>2, <3>1, <3>2 DEF CallKinds, Proceeds, DeleteThen, CallFacts
    <3> QED BY <1>1, <1>3, <2>3, <3>3, GoesOnWhole
  <2>6. CASE Unname(x)
    <3>1. /\ Set(NamesKey) /\ Await(x, "unnamed") /\ Then(<<>>) /\ Head(micro).what = "unname"
        BY <2>6 DEF Unname, Step, Turn, WriteIndex, SetThen
    <3>2. NamesKey \in Keys /\ IndexKey \in Keys \ {NamesKey}
        BY KeysApart
    <3>3. ~cache'[IndexKey].there
        BY <1>2, <3>1, <3>2, CacheKeeps DEF CallFacts
    <3>4. \A f \in pending' : ops + 1 <= f.id => ~f.out[IndexKey].there
      <4>1. pending' = pending \cup {[id |-> ops + 1, key |-> NamesKey, kind |-> "set", out |-> cache']}
          BY <3>1 DEF Set, Write, StartFlush
      <4>2. \A f \in pending : f.id \in Nat /\ f.id <= ops /\ ops \in Nat
          BY DEF StorageShape, ShapeInv, TypeOK, Bounded, Flush
      <4>3. \A f \in pending : ~(ops + 1 <= f.id)
          BY <4>2
      <4> QED BY <3>3, <4>1, <4>3
    <3>5. "unnamed" \in CallKinds /\ Proceeds(x, "unnamed") /\ CallFacts(x, "unnamed")'
        BY <2>2, <3>1, <3>3 DEF CallKinds, Proceeds, CallFacts
    <3> QED BY <1>1, <1>3, <2>3, <3>1, <3>4, <3>5, GoesOnWhole
  <2> QED BY <1>6, <2>4, <2>5, <2>6
<1> QED BY <1>4, <1>5, <1>6

\* A call that has gone on has no task left.
LEMMA SettleWhole ==
    ASSUME StorageShape, WholeInv, OneCaller, NEW x \in Cachers, Settle(x)
    PROVE  WholeInv'
<1>1. micro # <<>> /\ Head(micro).who = x /\ CacheTask(x)
    BY CallHasHead DEF CacheTask
<1>2. /\ micro \in Seq(TaskSet) /\ micro[1].who = x /\ 1 \in DOMAIN micro /\ Head(micro) = micro[1]
    BY <1>1 DEF StorageShape, ShimShape
<1>3. Single(x) /\ Unnaming(x)
    BY DEF WholeInv, CallInv
<1>4. micro' = Tail(micro) /\ UNCHANGED <<vars, says, waiting>>
    BY <1>2, Behind DEF Settle, Then, StoreQuiet
<1>5. \A w \in waiting' : w.task.who # x
    BY <1>2, <1>3, <1>4 DEF Single
<1>6. \A i \in DOMAIN micro' : micro'[i].who # x
  <2>1. \A i \in DOMAIN Tail(micro) : i + 1 \in DOMAIN micro /\ i + 1 # 1
                                     /\ Tail(micro)[i] = micro[i + 1]
      BY <1>2
  <2> QED BY <1>2, <1>3, <1>4, <2>1 DEF Single
<1>7. CallInv(x)'
  <2>1. Tasks(x)' = {}
      BY <1>5, <1>6 DEF Tasks
  <2>2. Single(x)'
      BY <1>5, <1>6, <2>1 DEF Single
  <2>3. Unnaming(x)'
      BY <1>5, <1>6 DEF Unnaming
  <2> QED BY <2>1, <2>2, <2>3 DEF CallInv
<1>8. MapsAreWhole'
  <2>1. CASE wiped' <=> wiped
      BY <1>1, <1>4, <2>1, ReadsWhole, CallKeepsMaps DEF WholeInv
  <2>2. CASE ~(wiped' <=> wiped)
    <3>1. Turn(x, "unnamed") /\ Ok
        BY <2>2 DEF Settle
    <3>2. \A map \in Maps : ~map[IndexKey].there
        BY <1>2, <1>3, <3>1 DEF Unnaming, Turn, Ok
    <3>3. \A map \in Maps' : ~map[IndexKey].there
        BY <1>4, <3>2 DEF Maps, vars
    <3> QED BY <3>3 DEF MapsAreWhole, WholeMap, Listed
  <2> QED BY <2>1, <2>2
<1>9. \A y \in Cachers : y = x
    BY DEF OneCaller
<1> QED BY <1>7, <1>8, <1>9 DEF WholeInv

\* A new call: the one there can be has no task.
LEMMA CallsWhole ==
    ASSUME StorageShape, WholeInv, OneCaller, NEW x \in Cachers, NEW r \in Requests,
           NEW do \in {"put", "delete", "wipe"}, CallCache(x, do, r)
    PROVE  WholeInv'
<1>1. Tasks(x) = {}
    BY DEF WholeInv, CallInv, Single, CallCache
<1>2. PICK what \in {"wipe", "open"} : micro' = Append(micro, Task(x, what))
    BY DEF CallCache, Queue
<1>3. UNCHANGED <<vars, says, waiting, wiped>>
    BY DEF CallCache, StoreQuiet
<1>4. Task(x, what) \in TaskSet /\ Task(x, what).who = x /\ Task(x, what).what = what
  <2>1. what \in TxKinds \cup CallKinds
      BY <1>2 DEF CallKinds
  <2>2. Task(x, what) \in TaskOf(x) /\ Task(x, what).what = what
      BY <2>1, TaskFacts
  <2> QED BY <2>2 DEF TaskOf
<1>5. micro \in Seq(TaskSet) /\ DOMAIN cachers = Cachers
    BY DEF StorageShape, ShimShape
<1>6. /\ \A i \in DOMAIN micro : micro[i].who # x
      /\ \A w \in waiting' : w.task.who # x
    BY <1>1, <1>3 DEF Tasks
<1>7. \A i \in DOMAIN micro' : \/ i = Len(micro) + 1 /\ micro'[i] = Task(x, what)
                               \/ micro'[i].who # x
    BY <1>2, <1>4, <1>5, <1>6
<1>8. ~Free(Call(x))'
    BY <1>5 DEF CallCache, Free, Call, NoCall
<1>9. Single(x)' /\ Unnaming(x)'
    BY <1>4, <1>6, <1>7, <1>8 DEF Single, Unnaming
<1>10. \A e \in Tasks(x)' : e = Task(x, what)
    BY <1>6, <1>7 DEF Tasks
<1>11. \A e \in Tasks(x)' : CallFacts(x, e.what)'
    BY <1>4, <1>10 DEF CallFacts
<1>12. MapsAreWhole'
    BY <1>3 DEF WholeInv, MapsAreWhole, WholeMap, Listed, Maps, vars
<1>13. \A y \in Cachers : y = x
    BY DEF OneCaller
<1> QED BY <1>9, <1>11, <1>12, <1>13 DEF WholeInv, CallInv

\* A step of the store's other users leaves the cache's keys and calls alone.
LEMMA OthersWhole ==
    ASSUME StorageShape, WholeInv, cachers' = cachers, wiped' = wiped, Recorded,
           \/ UNCHANGED vars
           \/ \E k \in AllRecords \cup {Item(i) : i \in Items} : Set(k) \/ SetSync(k) \/ Delete(k),
           \A x \in Cachers : /\ Single(x)' /\ Tasks(x)' \subseteq Tasks(x)
                              /\ \A w \in waiting' : w.task.who = x => w \in waiting
                              /\ \A i \in DOMAIN micro' : micro'[i].who = x =>
                                     \E j \in DOMAIN micro : micro'[i] = micro[j]
    PROVE  WholeInv'
<1>1. /\ Listed(cache, IndexKey)' = Listed(cache, IndexKey) /\ cache'[IndexKey] = cache[IndexKey]
      /\ \A r \in Requests : cache'[Meta(r)] = cache[Meta(r)] /\ cache'[Body(r)] = cache[Body(r)]
      /\ [Next]_vars
  <2>1. CASE UNCHANGED vars
    <3>1. cache' = cache
        BY <2>1 DEF vars
    <3> QED BY <2>1, <3>1, ListedKeeps
  <2>2. ASSUME NEW k \in AllRecords \cup {Item(i) : i \in Items}, Set(k) \/ SetSync(k) \/ Delete(k)
        PROVE  /\ cache'[IndexKey] = cache[IndexKey]
               /\ \A r \in Requests : cache'[Meta(r)] = cache[Meta(r)] /\ cache'[Body(r)] = cache[Body(r)]
               /\ [Next]_vars
    <3>1. k \in Keys /\ IndexKey \in Keys /\ k # IndexKey
        BY KeysApart, RecordsAreKeys
    <3>2. \A j \in Keys \ {k} : cache'[j] = cache[j]
        BY <2>2, <3>1, CacheKeeps
    <3>3. \A r \in Requests : Meta(r) \in Keys \ {k} /\ Body(r) \in Keys \ {k}
        BY EntriesApart
    <3>4. [Next]_vars
        BY <2>2, <3>1 DEF Next
    <3> QED BY <3>1, <3>2, <3>3, <3>4
  <2> QED BY <2>1, <2>2, ListedKeeps
<1>2. Listed(cache, IndexKey) \subseteq Requests
    BY DEF StorageShape, ShimShape, Maps, ListsRequests, Listed
<1>3. ~wiped => WholeMap(cache)'
  <2>1. ~wiped => WholeMap(cache)
      BY DEF WholeInv, MapsAreWhole, Maps
  <2> QED BY <1>1, <1>2, <2>1 DEF WholeMap
<1>4. MapsAreWhole'
    BY <1>1, <1>3, WholeKeeps DEF WholeInv
<1>5. ASSUME NEW x \in Cachers PROVE CallInv(x)'
  <2>1. \A e \in Tasks(x)' : CallFacts(x, e.what)'
    <3> SUFFICES ASSUME NEW e \in Tasks(x)' PROVE CallFacts(x, e.what)'
        OBVIOUS
    <3>1. e \in Tasks(x)
        BY <1>5
    <3>2. CallFacts(x, e.what) /\ Call(x).ref \in Requests
        BY <3>1 DEF WholeInv, CallInv, StorageShape, ShimShape, Call
    <3>3. PICK what : what = e.what
        OBVIOUS
    <3>4. CallFacts(x, what)'
        BY <1>1, <3>2, <3>3 DEF CallFacts, Call
    <3> QED BY <3>3, <3>4
  <2>2. Unnaming(x)'
    <3>1. Unnaming(x)
        BY DEF WholeInv, CallInv
    <3>2. \A map \in Maps' : map \in Maps \/ map = cache' \/ map = Fresh
        BY <1>1, MapsMove DEF StorageShape
    <3>3. ASSUME NEW i \in DOMAIN micro', micro'[i].who = x, micro'[i].what = "unnamed", micro'[i].ok,
                 NEW map \in Maps'
          PROVE  ~map[IndexKey].there
      <4>1. \A old \in Maps : ~old[IndexKey].there
          BY <1>5, <3>1, <3>3 DEF Unnaming
      <4>2. cache \in Maps /\ IndexKey \in Keys
          BY KeysApart DEF Maps
      <4> QED BY <1>1, <3>2, <4>1, <4>2, FreshFacts
    <3>4. ASSUME NEW w \in waiting', w.task.who = x
          PROVE  /\ w.task.ok /\ \E n \in w.ids : w.ids = {n}
                 /\ w.task.what = "unnamed" =>
                      \A n \in w.ids, f \in pending' : n <= f.id => ~f.out[IndexKey].there
      <4>1. w \in waiting /\ w.task \in Tasks(x)
          BY <1>5, <3>4 DEF Tasks
      <4>2. w.task.what = "unnamed" => ~cache'[IndexKey].there
          BY <1>1, <4>1 DEF WholeInv, CallInv, CallFacts
      <4>3. \A f \in pending' : f \in pending \/ f.out = cache'
        <5>1. CASE UNCHANGED vars
            BY <5>1 DEF vars
        <5>2. ASSUME NEW k, Set(k) \/ SetSync(k) \/ Delete(k)
              PROVE  \A f \in pending' : f \in pending \/ f.out = cache'
          <6>1. pending' = pending \/ \E kind : StartFlush(k, kind)
              BY <5>2 DEF Set, SetSync, Delete
          <6>2. ASSUME NEW kind, StartFlush(k, kind)
                PROVE  \A f \in pending' : f \in pending \/ f.out = cache'
              BY <6>2 DEF StartFlush
          <6> QED BY <6>1, <6>2
        <5> QED BY <5>1, <5>2
      <4> QED BY <3>1, <3>4, <4>1, <4>2, <4>3 DEF Unnaming
    <3> QED BY <3>3, <3>4 DEF Unnaming
  <2> QED BY <1>5, <2>1, <2>2 DEF CallInv
<1> QED BY <1>4, <1>5 DEF WholeInv

\* A flush that lands brings the file no further than an older one: what waits for
\* the names of a wiped cache resolves when no map has the index any more.
LEMMA AnswersWhole ==
    ASSUME Orderly, StorageShape, WholeInv, NEW f \in pending, StoreAnswers(f)
    PROVE  WholeInv'
<1>1. /\ micro = <<>> /\ UNCHANGED <<txs, cachers, says, wiped, cache>> /\ Recorded
      /\ disk' = disk \/ disk' = f.out
      /\ pending' = pending \ {f}
      /\ [Next]_vars
    BY DEF StoreAnswers, FlushLands, FlushFails, Recorded, Next
<1>2. Listed(cache, IndexKey)' = Listed(cache, IndexKey)
    BY <1>1 DEF Listed
<1>3. ~wiped' => ~wiped /\ WholeMap(cache)'
    BY <1>1, <1>2 DEF WholeInv, MapsAreWhole, Maps, WholeMap
<1>4. MapsAreWhole'
    BY <1>1, <1>3, WholeKeeps DEF WholeInv
<1>5. ASSUME NEW x \in Cachers PROVE CallInv(x)'
  <2>1. Single(x) /\ Unnaming(x) /\ \A e \in Tasks(x) : CallFacts(x, e.what)
      BY DEF WholeInv, CallInv
  <2>2. ASSUME NEW e \in Tasks(x), NEW d, d.what = e.what PROVE CallFacts(x, d.what)'
    <3>1. CallFacts(x, d.what)
        BY <2>1, <2>2
    <3>2. PICK what : what = d.what
        OBVIOUS
    <3>3. CallFacts(x, what)'
        BY <1>1, <1>2, <3>1, <3>2 DEF CallFacts, Call
    <3> QED BY <3>2, <3>3
  <2>3. CASE /\ micro' = <<>>
             /\ \A w \in waiting' : w.task.who = x => w \in waiting
    <3>1. Single(x)' /\ Tasks(x)' \subseteq Tasks(x)
        BY <1>1, <2>1, <2>3 DEF Single, Tasks, Call
    <3>2. Unnaming(x)'
        BY <1>1, <2>1, <2>3 DEF Unnaming
    <3> QED BY <2>2, <3>1, <3>2 DEF CallInv
  <2>4. ASSUME NEW w \in waiting, NEW ok \in BOOLEAN, f.id \in w.ids, ok => w.ids = {f.id},
               ok => FlushLands(f),
               waiting' = waiting \ {w}, micro' = <<[w.task EXCEPT !.ok = ok]>>
        PROVE  CallInv(x)'
    <3> DEFINE task == [w.task EXCEPT !.ok = ok]
    <3>1. task.who = w.task.who /\ task.what = w.task.what /\ task.ok = ok
        BY DEF StorageShape, ShimShape, WaitSet, TaskSet
    <3>2. micro' = <<task>>
        BY <2>4
    <3> HIDE DEF task
    <3>3. DOMAIN micro' = {1} /\ micro'[1] = task
        BY <3>2
    <3>4. CASE w.task.who # x
      <4>1. Single(x)' /\ Tasks(x)' \subseteq Tasks(x)
          BY <1>1, <2>1, <2>4, <3>1, <3>3, <3>4 DEF Single, Tasks, Call
      <4>2. Unnaming(x)'
          BY <1>1, <2>1, <2>4, <3>1, <3>3, <3>4 DEF Unnaming
      <4> QED BY <2>2, <4>1, <4>2 DEF CallInv
    <3>5. CASE w.task.who = x
      <4>1. w.task \in Tasks(x)
          BY <3>5 DEF Tasks
      <4>2. \A v \in waiting' : v.task.who # x
          BY <2>1, <2>4, <3>5 DEF Single
      <4>3. Tasks(x)' = {task}
          BY <3>1, <3>3, <3>5, <4>2 DEF Tasks
      <4>4. Single(x)'
          BY <1>1, <2>1, <3>3, <4>1, <4>2 DEF Single, Call
      <4>5. CallFacts(x, task.what)'
          BY <2>2, <3>1, <4>1
      <4>6. Unnaming(x)'
        <5> SUFFICES ASSUME task.what = "unnamed", ok, NEW map \in Maps' PROVE ~map[IndexKey].there
            BY <3>1, <3>3, <4>2 DEF Unnaming
        <5>1. w.ids = {f.id} /\ disk' = f.out /\ \A g \in pending : f.id <= g.id
            BY <2>4 DEF FlushLands, InTurn, Orderly
        <5>2. \A g \in pending : ~g.out[IndexKey].there
            BY <2>1, <3>1, <3>5, <5>1 DEF Unnaming
        <5>3. ~cache[IndexKey].there
            BY <2>1, <3>1, <4>1 DEF CallFacts
        <5> QED BY <1>1, <5>1, <5>2, <5>3 DEF Maps
      <4> QED BY <4>3, <4>4, <4>5, <4>6 DEF CallInv
    <3> QED BY <3>4, <3>5
  <2>5. ASSUME NEW ok \in BOOLEAN, Wakes(f, ok), ok => FlushLands(f) PROVE CallInv(x)'
    <3>1. CASE micro' = <<>> /\ waiting' = waiting
        BY <2>3, <3>1
    <3>2. ASSUME NEW w \in waiting, f.id \in w.ids, w.ids \ {f.id} # {}, micro' = <<>>,
                 waiting' = (waiting \ {w}) \cup {[w EXCEPT !.ids = w.ids \ {f.id}]}
          PROVE  CallInv(x)'
      <4>1. w.task.who # x
          BY <2>1, <3>2 DEF Unnaming
      <4>2. [w EXCEPT !.ids = w.ids \ {f.id}].task = w.task
          BY DEF StorageShape, ShimShape, WaitSet
      <4> QED BY <2>3, <3>2, <4>1, <4>2
    <3> QED BY <1>1, <2>4, <2>5, <3>1, <3>2, WakeFacts
  <2> QED BY <2>5 DEF StoreAnswers
<1> QED BY <1>4, <1>5 DEF WholeInv

LEMMA InitWhole == StorageInit => WholeInv
<1> SUFFICES ASSUME StorageInit PROVE WholeInv
    OBVIOUS
<1>1. /\ micro = <<>> /\ waiting = {} /\ \A map \in Maps : map = Fresh
      /\ \A x \in Cachers : Tasks(x) = {}
    BY DEF StorageInit, Init, Maps, Tasks
<1>2. MapsAreWhole
    BY <1>1, KeysApart, FreshFacts DEF MapsAreWhole, WholeMap, Listed
<1>3. \A x \in Cachers : CallInv(x)
    BY <1>1 DEF CallInv, Single, Unnaming
<1> QED BY <1>2, <1>3 DEF WholeInv

LEMMA NextWhole ==
    ASSUME Orderly, OneCaller, StorageShape, WholeInv, [StorageNext]_storageVars
    PROVE  WholeInv'
<1>1. \A t \in Txs, x \in Cachers : t # x
    BY StorageAssumption
<1>2. ASSUME NEW q, QueueStep(q), WaitStep(q), NEW x \in Cachers, q # x, cachers' = cachers
      PROVE  /\ Single(x)' /\ Tasks(x)' \subseteq Tasks(x)
             /\ \A w \in waiting' : w.task.who = x => w \in waiting
             /\ \A i \in DOMAIN micro' : micro'[i].who = x =>
                    \E j \in DOMAIN micro : micro'[i] = micro[j]
  <2>1. Single(x)' /\ Tasks(x)' \subseteq Tasks(x)
      BY <1>2, OthersSingle, OthersTasks DEF WholeInv, CallInv
  <2>2. \A i \in DOMAIN micro' : micro'[i].who = x => \E j \in DOMAIN micro : micro'[i] = micro[j]
      BY <1>2, OthersPlaces
  <2>3. \A w \in waiting' : w.task.who = x => w \in waiting
      BY <1>2 DEF WaitStep
  <2> QED BY <2>1, <2>2, <2>3
<1>3. ASSUME NEW t \in Txs, TxStep(t) PROVE WholeInv'
  <2>1. QueueStep(t) /\ WaitStep(t) /\ cachers' = cachers
      BY <1>3, TxQueue, TxStepShape DEF TxStep
  <2>2. /\ \/ UNCHANGED vars
           \/ \E k \in AllRecords : Set(k) \/ SetSync(k) \/ Delete(k)
        /\ Recorded
    <3>1. CASE Put(t)
        BY <1>3, <3>1, RequestFacts, TxIndex DEF Put, IndexStep
    <3>2. CASE EraseOne(t)
        BY <1>3, <3>2, TxIndex DEF EraseOne, IndexStep, StorageShape, ShimShape, TxShape
    <3>3. CASE ~Put(t) /\ ~EraseOne(t)
      <4>1. UNCHANGED vars
          BY <1>3, <3>3 DEF TxStep, OpenDatabase, DatabaseTask, DropDatabase, OnOpen,
                 NewTransaction, EndTurn, Get, GetAll, Read, ReadKeys, PutBad, Erase, OnTick,
                 OnAnswer, OnCallback, OnComplete, OnDropped, StoreQuiet
      <4> QED BY <1>3, <4>1, TxIndex DEF IndexStep
    <3> QED BY <3>1, <3>2, <3>3
  <2>3. wiped' = wiped
      BY <1>3 DEF TxStep, OpenDatabase, DatabaseTask, DropDatabase, OnOpen,
             NewTransaction, EndTurn, Get, GetAll, Read, ReadKeys, PutBad, Erase, OnTick,
             OnAnswer, OnCallback, OnComplete, OnDropped, Put, EraseOne, CacheSide
  <2> QED BY <1>1, <1>2, <2>1, <2>2, <2>3, OthersWhole
<1>4. ASSUME NEW x \in Cachers, CallStep(x) PROVE WholeInv'
    BY <1>4, OpensWhole, PutsWhole, IndexesWhole, DeletesWhole, WipesWhole, SettleWhole, CallsWhole
       DEF CallStep, CacheTask
<1>5. ASSUME NEW f \in pending, StoreAnswers(f) PROVE WholeInv'
    BY <1>5, AnswersWhole
<1>6. ASSUME NEW i \in Items, SetItem(i) \/ RemoveItem(i) PROVE WholeInv'
  <2>1. /\ UNCHANGED <<micro, waiting, txs, cachers, says, wiped>>
        /\ SetSync(Item(i)) \/ Delete(Item(i))
      BY <1>6 DEF SetItem, RemoveItem, ShimsIdle
  <2>2. \A x \in Cachers : /\ Single(x)' /\ Tasks(x)' \subseteq Tasks(x)
                           /\ \A w \in waiting' : w.task.who = x => w \in waiting
                           /\ \A j \in DOMAIN micro' : micro'[j].who = x =>
                                  \E l \in DOMAIN micro : micro'[j] = micro[l]
      BY <2>1 DEF WholeInv, CallInv, Single, Tasks, Call
  <2> QED BY <2>1, <2>2, OthersWhole DEF Recorded
<1>7. CASE StorageRestart
  <2>1. /\ micro' = <<>> /\ waiting' = {} /\ says' = says /\ wiped' = wiped
        /\ cachers' = [x \in Cachers |-> NoCall] /\ Restart /\ cache' = disk
      BY <1>7 DEF StorageRestart, Restart, Orderly
  <2>2. \A x \in Cachers : CallInv(x)'
    <3>1. \A x \in Cachers : Tasks(x)' = {}
        BY <2>1 DEF Tasks
    <3> QED BY <2>1, <3>1 DEF CallInv, Single, Unnaming
  <2>3. ~wiped' => ~wiped /\ WholeMap(cache)'
      BY <2>1 DEF WholeInv, MapsAreWhole, Maps, WholeMap, Listed
  <2>4. MapsAreWhole'
      BY <2>1, <2>3, WholeKeeps DEF WholeInv, Recorded, Next
  <2> QED BY <2>2, <2>4 DEF WholeInv
<1>8. CASE UNCHANGED storageVars
  <2>1. /\ UNCHANGED <<vars, micro, waiting, cachers, says, wiped>> /\ Maps' = Maps
        /\ UNCHANGED <<cache, disk, pending>>
      BY <1>8 DEF storageVars, shimVars, vars, Maps
  <2> QED BY <2>1 DEF WholeInv, MapsAreWhole, WholeMap, Listed, CallInv, Single, Unnaming,
             CallFacts, Tasks, Call
<1> QED BY <1>3, <1>4, <1>5, <1>6, <1>7, <1>8 DEF StorageNext, TxStep, CallStep

\* An entry that the index in the file lists has its metadata and body in the file,
\* wherever the process died or a flush failed.
THEOREM ListedEntriesAreStored ==
    ASSUME Orderly, OneCaller
    PROVE  StorageSpec => []ListedIsStored
<1>1. WholeInv => ListedIsStored
    BY DEF WholeInv, MapsAreWhole, Maps, WholeMap, ListedIsStored
<1> QED BY <1>1, InitWhole, NextWhole, StorageTypeCorrect, PTL DEF StorageSpec

-----------------------------------------------------------------------------
(* IndexedDB: a transaction's requests are accounted for until it settles.   *)

\* A getAllKeys that is not the last request comes after one that the store has
\* to answer: alone it ends its operation, and the transaction, in the call
\* (indexed-db.ts:235-243).  runOp issues one request, so its programs are of this kind.
KeysEndNothing ==
    \A p \in Programs : \A i \in DOMAIN p :
        p[i].do = "getAllKeys" /\ i < Len(p) =>
            \E j \in 1 .. (i - 1) : p[j].do \notin {"getAllKeys", "putBad"}

\* How many tasks of S a queue holds; those of a call by what they are.
Places(q, S) == {i \in DOMAIN q : q[i] \in S}
Count(q, S) == Cardinality(Places(q, S))
All(q, t) == Count(q, TaskOf(t))
Queued(q, t, what) == Count(q, {e \in TaskOf(t) : e.what = what})
Refusals(q, t, what) == Count(q, {e \in TaskOf(t) : e.what = what /\ ~e.ok})
Aliens(q, t, kinds) == Count(q, {e \in TaskOf(t) : e.what \notin kinds})
Waits(t) == {w \in waiting : w.task.who = t}

\* A completion is the last of the tasks of its transaction.
CompleteIsLast(q, t) ==
    \A i, j \in DOMAIN q :
        q[i] \in TaskOf(t) /\ q[i].what = "complete" /\ q[j] \in TaskOf(t) => j <= i

\* Nothing has been issued.
Blank(tx) ==
    /\ tx.next = 1 /\ tx.seen = 0 /\ tx.pending = 0
    /\ ~tx.hadOp /\ ~tx.completed /\ ~tx.error /\ ~tx.refused
    /\ tx.todo = {} /\ tx.ids = {} /\ tx.puts = {}

Active == {"issuing", "running"}

\* Before and after its requests a call has one task at most.
Alone(t, n, kinds) ==
    /\ All(micro, t) + Cardinality(Waits(t)) = n
    /\ Aliens(micro, t, kinds) = 0
    /\ \A w \in Waits(t) : w.task.what \in kinds

Phase(t) ==
    LET tx == txs[t] IN
    /\ tx.at \in {"idle", "opening", "opened", "dropping", "done"} \cup Active
    /\ Free(tx) => Alone(t, 0, {})
    /\ tx.at = "opening" => Alone(t, 1, {"open"}) /\ Blank(tx) /\ tx.prog \in Programs
    /\ tx.at = "opened" => Alone(t, 1, {"run"}) /\ Blank(tx) /\ tx.prog \in Programs
    /\ tx.at = "dropping" =>
        /\ Alone(t, 1, {"drop", "dropped", "complete"})
        /\ tx.prog = <<>> /\ tx.seen = 0 /\ tx.pending = 0 /\ (tx.refused <=> tx.error)
    /\ tx.at = "done" =>
        /\ tx.pending = 0 /\ tx.seen = Len(tx.prog)
        /\ tx.settled = "rejected" <=> tx.refused
    /\ tx.at \notin Active => tx.puts = {}

\* What has been issued is pending, about to call back, or has called back.
Book(t) ==
    LET tx == txs[t] IN
    /\ tx.prog \in Programs
    /\ Aliens(micro, t, {"run", "tick", "answer", "callback", "complete"}) = 0
    /\ \A w \in Waits(t) : w.task.what = "answer"
    /\ tx.pending = Queued(micro, t, "answer") + Cardinality(Waits(t))
                    + (IF tx.todo = {} THEN 0 ELSE 1)
    /\ tx.next = 1 + tx.seen + Queued(micro, t, "callback") + tx.pending
    /\ tx.next <= Len(tx.prog) + 1
    /\ tx.at = "running" => tx.next > Len(tx.prog) /\ tx.todo = {}
    /\ tx.refused <=> tx.error \/ Refusals(micro, t, "callback") > 0
    /\ ~tx.hadOp => tx.pending = 0
    /\ tx.completed => tx.pending = 0 /\ tx.next > Len(tx.prog)
    /\ Queued(micro, t, "complete") > 0 => tx.completed
    /\ CompleteIsLast(micro, t)
    /\ tx.at = "issuing" =>
        \A j \in 1 .. (tx.next - 1) :
            tx.prog[j].do \notin {"getAllKeys", "putBad"} => tx.pending > 0

\* The writes that are waited for are made, and each is waited for once.
WaitIds ==
    /\ IsFiniteSet(waiting)
    /\ \A w \in waiting : w.ids # {} /\ \A n \in w.ids : n <= ops
    /\ \A v, w \in waiting : v # w => v.ids \cap w.ids = {}
    /\ \A t \in Txs : /\ \A n \in txs[t].ids : n <= ops
                      /\ txs[t].todo = {} => txs[t].ids = {}
                      /\ \A w \in waiting : txs[t].ids \cap w.ids = {}
                      /\ \A k \in txs[t].todo : cache[k].there

BookInv == WaitIds /\ \A t \in Txs : Phase(t) /\ (txs[t].at \in Active => Book(t))

\* Counting the tasks of a queue.
LEMMA CountFacts ==
    ASSUME NEW q \in Seq(TaskSet), NEW S
    PROVE  /\ IsFiniteSet(Places(q, S)) /\ Count(q, S) \in Nat
           /\ Count(q, S) = 0 <=> \A i \in DOMAIN q : q[i] \notin S
           /\ \A T : S \subseteq T => Count(q, S) <= Count(q, T)
<1>1. IsFiniteSet(DOMAIN q)
  <2>1. DOMAIN q = 1 .. Len(q) /\ Len(q) \in Int
      OBVIOUS
  <2> QED BY <2>1, FS_Interval
<1>2. \A T : IsFiniteSet(Places(q, T))
    BY <1>1, FS_Subset DEF Places
<1>3. Count(q, S) \in Nat
    BY <1>2, FS_CardinalityType DEF Count
<1>4. Count(q, S) = 0 <=> Places(q, S) = {}
    BY <1>2, FS_EmptySet DEF Count
<1>5. ASSUME NEW T, S \subseteq T PROVE Count(q, S) <= Count(q, T)
  <2>1. Places(q, S) \in SUBSET Places(q, T)
      BY <1>5 DEF Places
  <2> QED BY <1>2, <2>1, FS_Subset DEF Count
<1> QED BY <1>2, <1>3, <1>4, <1>5 DEF Places

LEMMA CountAppend ==
    ASSUME NEW q \in Seq(TaskSet), NEW e \in TaskSet, NEW S
    PROVE  Count(Append(q, e), S) = Count(q, S) + (IF e \in S THEN 1 ELSE 0)
<1>1. /\ DOMAIN Append(q, e) = DOMAIN q \cup {Len(q) + 1} /\ Len(q) + 1 \notin DOMAIN q
      /\ Append(q, e)[Len(q) + 1] = e
      /\ \A i \in DOMAIN q : Append(q, e)[i] = q[i]
    OBVIOUS
<1>2. Places(Append(q, e), S) = Places(q, S) \cup (IF e \in S THEN {Len(q) + 1} ELSE {})
    BY <1>1 DEF Places
<1>3. IsFiniteSet(Places(q, S)) /\ Len(q) + 1 \notin Places(q, S)
    BY <1>1, CountFacts DEF Places
<1>4. Cardinality(Places(q, S) \cup {Len(q) + 1}) = Cardinality(Places(q, S)) + 1
    BY <1>3, FS_AddElement
<1>5. Cardinality(Places(q, S)) \in Nat
    BY <1>3, FS_CardinalityType
<1>6. CASE e \in S
  <2>1. Places(Append(q, e), S) = Places(q, S) \cup {Len(q) + 1}
      BY <1>2, <1>6
  <2> QED BY <1>4, <1>6, <2>1 DEF Count
<1>7. CASE e \notin S
  <2>1. Places(Append(q, e), S) = Places(q, S)
      BY <1>2, <1>7
  <2> QED BY <1>5, <1>7, <2>1 DEF Count
<1> QED BY <1>6, <1>7

LEMMA CountTail ==
    ASSUME NEW q \in Seq(TaskSet), q # <<>>, NEW S
    PROVE  Count(Tail(q), S) = Count(q, S) - (IF Head(q) \in S THEN 1 ELSE 0)
<1>1. /\ DOMAIN q = 1 .. Len(q) /\ Len(q) \in Nat \ {0} /\ Head(q) = q[1]
      /\ DOMAIN Tail(q) = 1 .. (Len(q) - 1)
      /\ \A i \in DOMAIN Tail(q) : Tail(q)[i] = q[i + 1]
    OBVIOUS
<1>2. IsFiniteSet(Places(q, S)) /\ Cardinality(Places(q, S)) \in Nat
    BY CountFacts, FS_CardinalityType
<1>3. IsFiniteSet(Places(q, S) \ {1})
      /\ Cardinality(Places(q, S) \ {1}) =
            Cardinality(Places(q, S)) - (IF Head(q) \in S THEN 1 ELSE 0)
  <2>1. 1 \in Places(q, S) <=> Head(q) \in S
      BY <1>1 DEF Places
  <2>2. /\ IsFiniteSet(Places(q, S) \ {1})
        /\ Cardinality(Places(q, S) \ {1}) = IF 1 \in Places(q, S)
             THEN Cardinality(Places(q, S)) - 1 ELSE Cardinality(Places(q, S))
      BY <1>2, FS_RemoveElement
  <2> QED BY <1>2, <2>1, <2>2
<1>4. ExistsBijection(Places(q, S) \ {1}, Places(Tail(q), S))
  <2> DEFINE f == [i \in Places(q, S) \ {1} |-> i - 1]
  <2>1. \A i \in Places(q, S) \ {1} : i - 1 \in Places(Tail(q), S)
      BY <1>1 DEF Places
  <2>2. f \in [Places(q, S) \ {1} -> Places(Tail(q), S)]
      BY <2>1
  <2>3. \A i, j \in Places(q, S) \ {1} : f[i] = f[j] => i = j
      BY <1>1 DEF Places
  <2>4. \A j \in Places(Tail(q), S) : \E i \in Places(q, S) \ {1} : f[i] = j
    <3> SUFFICES ASSUME NEW j \in Places(Tail(q), S)
                 PROVE  \E i \in Places(q, S) \ {1} : f[i] = j
        OBVIOUS
    <3>1. j + 1 \in Places(q, S) \ {1} /\ j \in Nat
        BY <1>1 DEF Places
    <3>2. f[j + 1] = (j + 1) - 1
        BY <3>1
    <3> QED BY <3>1, <3>2
  <2>5. f \in Injection(Places(q, S) \ {1}, Places(Tail(q), S))
      BY <2>2, <2>3 DEF Injection, IsInjective
  <2>6. f \in Surjection(Places(q, S) \ {1}, Places(Tail(q), S))
      BY <2>2, <2>4 DEF Surjection
  <2> QED BY <2>5, <2>6 DEF ExistsBijection, Bijection
<1>5. Cardinality(Places(Tail(q), S)) = Cardinality(Places(q, S) \ {1})
    BY <1>3, <1>4, FS_Bijection
<1> QED BY <1>3, <1>5 DEF Count

\* The same for the tasks of one call, when one is queued or has its turn.
LEMMA CountTypes ==
    ASSUME NEW q \in Seq(TaskSet), NEW t
    PROVE  /\ All(q, t) \in Nat
           /\ \A k : /\ Queued(q, t, k) \in Nat /\ Refusals(q, t, k) \in Nat
                     /\ Queued(q, t, k) <= All(q, t) /\ Refusals(q, t, k) <= Queued(q, t, k)
           /\ \A W : Aliens(q, t, W) \in Nat /\ Aliens(q, t, W) <= All(q, t)
<1>1. \A S : Count(q, S) \in Nat /\ \A T : S \subseteq T => Count(q, S) <= Count(q, T)
    BY CountFacts
<1>2. \A k : Refusals(q, t, k) \in Nat /\ Queued(q, t, k) \in Nat /\ Queued(q, t, k) <= All(q, t)
    BY <1>1 DEF Queued, Refusals, All
<1>3. \A k : Refusals(q, t, k) <= Queued(q, t, k)
  <2> SUFFICES ASSUME NEW k PROVE Refusals(q, t, k) <= Queued(q, t, k)
      OBVIOUS
  <2>1. {e \in TaskOf(t) : e.what = k /\ ~e.ok} \subseteq {e \in TaskOf(t) : e.what = k}
      OBVIOUS
  <2> QED BY <1>1, <2>1 DEF Queued, Refusals
<1>4. \A W : Aliens(q, t, W) \in Nat /\ Aliens(q, t, W) <= All(q, t)
    BY <1>1 DEF Aliens, All
<1> QED BY <1>1, <1>2, <1>3, <1>4 DEF All

LEMMA Enqueues ==
    ASSUME NEW q \in Seq(TaskSet), NEW t, NEW e \in TaskOf(t)
    PROVE  /\ Append(q, e) \in Seq(TaskSet)
           /\ All(Append(q, e), t) = All(q, t) + 1
           /\ \A k : /\ Queued(Append(q, e), t, k) = Queued(q, t, k) + (IF e.what = k THEN 1 ELSE 0)
                     /\ Refusals(Append(q, e), t, k)
                            = Refusals(q, t, k) + (IF e.what = k /\ ~e.ok THEN 1 ELSE 0)
           /\ \A W : Aliens(Append(q, e), t, W)
                            = Aliens(q, t, W) + (IF e.what \notin W THEN 1 ELSE 0)
<1>1. e \in TaskSet /\ Append(q, e) \in Seq(TaskSet)
    BY DEF TaskOf
<1>2. \A S : Count(Append(q, e), S) = Count(q, S) + (IF e \in S THEN 1 ELSE 0)
    BY <1>1, CountAppend
<1>3. All(Append(q, e), t) = All(q, t) + 1
    BY <1>2 DEF All
<1>4. ASSUME NEW k
      PROVE  /\ Queued(Append(q, e), t, k) = Queued(q, t, k) + (IF e.what = k THEN 1 ELSE 0)
             /\ Refusals(Append(q, e), t, k)
                    = Refusals(q, t, k) + (IF e.what = k /\ ~e.ok THEN 1 ELSE 0)
  <2>1. e \in {d \in TaskOf(t) : d.what = k} <=> e.what = k
      OBVIOUS
  <2>2. e \in {d \in TaskOf(t) : d.what = k /\ ~d.ok} <=> e.what = k /\ ~e.ok
      OBVIOUS
  <2> QED BY <1>2, <2>1, <2>2 DEF Queued, Refusals
<1>5. ASSUME NEW W
      PROVE  Aliens(Append(q, e), t, W) = Aliens(q, t, W) + (IF e.what \notin W THEN 1 ELSE 0)
  <2>1. e \in {d \in TaskOf(t) : d.what \notin W} <=> e.what \notin W
      OBVIOUS
  <2> QED BY <1>2, <2>1 DEF Aliens
<1> QED BY <1>1, <1>3, <1>4, <1>5

LEMMA Dequeues ==
    ASSUME NEW q \in Seq(TaskSet), NEW t, q # <<>>, Head(q).who = t
    PROVE  /\ Tail(q) \in Seq(TaskSet) /\ Head(q) \in TaskOf(t) /\ Head(q).ok \in BOOLEAN
           /\ All(Tail(q), t) = All(q, t) - 1
           /\ \A k : /\ Queued(Tail(q), t, k) = Queued(q, t, k) - (IF Head(q).what = k THEN 1 ELSE 0)
                     /\ Refusals(Tail(q), t, k)
                            = Refusals(q, t, k) - (IF Head(q).what = k /\ ~Head(q).ok THEN 1 ELSE 0)
           /\ \A W : Aliens(Tail(q), t, W)
                            = Aliens(q, t, W) - (IF Head(q).what \notin W THEN 1 ELSE 0)
<1>1. Head(q) \in TaskSet /\ Tail(q) \in Seq(TaskSet)
    OBVIOUS
<1>2. PICK e \in TaskOf(t) : e = Head(q)
    BY <1>1 DEF TaskOf
<1>3. \A S : Count(Tail(q), S) = Count(q, S) - (IF e \in S THEN 1 ELSE 0)
    BY <1>2, CountTail
<1>4. All(Tail(q), t) = All(q, t) - 1
    BY <1>3 DEF All
<1>5. ASSUME NEW k
      PROVE  /\ Queued(Tail(q), t, k) = Queued(q, t, k) - (IF e.what = k THEN 1 ELSE 0)
             /\ Refusals(Tail(q), t, k) = Refusals(q, t, k) - (IF e.what = k /\ ~e.ok THEN 1 ELSE 0)
  <2>1. e \in {d \in TaskOf(t) : d.what = k} <=> e.what = k
      OBVIOUS
  <2>2. e \in {d \in TaskOf(t) : d.what = k /\ ~d.ok} <=> e.what = k /\ ~e.ok
      OBVIOUS
  <2> QED BY <1>3, <2>1, <2>2 DEF Queued, Refusals
<1>6. ASSUME NEW W
      PROVE  Aliens(Tail(q), t, W) = Aliens(q, t, W) - (IF e.what \notin W THEN 1 ELSE 0)
  <2>1. e \in {d \in TaskOf(t) : d.what \notin W} <=> e.what \notin W
      OBVIOUS
  <2> QED BY <1>3, <2>1 DEF Aliens
<1>7. e.ok \in BOOLEAN
    BY <1>1, <1>2 DEF TaskSet
<1> QED BY <1>1, <1>2, <1>4, <1>5, <1>6, <1>7

LEMMA DequeuesKind ==
    ASSUME NEW q \in Seq(TaskSet), NEW t, q # <<>>, Head(q).who = t, NEW k
    PROVE  /\ Queued(Tail(q), t, k) = Queued(q, t, k) - (IF Head(q).what = k THEN 1 ELSE 0)
           /\ Refusals(Tail(q), t, k)
                  = Refusals(q, t, k) - (IF Head(q).what = k /\ ~Head(q).ok THEN 1 ELSE 0)
<1>1. PICK e \in TaskOf(t) : e = Head(q)
    BY DEF TaskOf
<1>2. \A S : Count(Tail(q), S) = Count(q, S) - (IF e \in S THEN 1 ELSE 0)
    BY <1>1, CountTail
<1>3. e \in {d \in TaskOf(t) : d.what = k} <=> e.what = k
    BY <1>1
<1>4. e \in {d \in TaskOf(t) : d.what = k /\ ~d.ok} <=> e.what = k /\ ~e.ok
    BY <1>1
<1> QED BY <1>1, <1>2, <1>3, <1>4 DEF Queued, Refusals

\* The place of a completion.
LEMMA LastAppend ==
    ASSUME NEW q \in Seq(TaskSet), NEW t, NEW e \in TaskSet, CompleteIsLast(q, t),
           e \in TaskOf(t) => Queued(q, t, "complete") = 0
    PROVE  CompleteIsLast(Append(q, e), t)
<1>1. /\ DOMAIN Append(q, e) = DOMAIN q \cup {Len(q) + 1} /\ Append(q, e)[Len(q) + 1] = e
      /\ \A i \in DOMAIN q : Append(q, e)[i] = q[i] /\ i <= Len(q) + 1
      /\ Len(q) + 1 \in Nat
    OBVIOUS
<1>2. e \in TaskOf(t) => \A i \in DOMAIN q : ~(q[i] \in TaskOf(t) /\ q[i].what = "complete")
  <2>1. e \in TaskOf(t) => \A i \in DOMAIN q : q[i] \notin {d \in TaskOf(t) : d.what = "complete"}
      BY CountFacts DEF Queued
  <2> QED BY <2>1
<1> QED BY <1>1, <1>2 DEF CompleteIsLast

LEMMA LastTail ==
    ASSUME NEW q \in Seq(TaskSet), q # <<>>, NEW t, CompleteIsLast(q, t)
    PROVE  /\ CompleteIsLast(Tail(q), t)
           /\ Head(q) \in TaskOf(t) /\ Head(q).what = "complete" => All(Tail(q), t) = 0
<1>1. /\ Tail(q) \in Seq(TaskSet) /\ 1 \in DOMAIN q /\ Head(q) = q[1]
      /\ \A i \in DOMAIN Tail(q) : /\ i \in Nat \ {0} /\ i + 1 \in DOMAIN q
                                   /\ Tail(q)[i] = q[i + 1]
    OBVIOUS
<1>2. CompleteIsLast(Tail(q), t)
  <2> SUFFICES ASSUME NEW i \in DOMAIN Tail(q), NEW j \in DOMAIN Tail(q),
                      q[i + 1] \in TaskOf(t), q[i + 1].what = "complete", q[j + 1] \in TaskOf(t)
               PROVE  j <= i
      BY <1>1 DEF CompleteIsLast
  <2>1. j + 1 <= i + 1
      BY <1>1 DEF CompleteIsLast
  <2> QED BY <1>1, <2>1
<1>3. ASSUME Head(q) \in TaskOf(t), Head(q).what = "complete" PROVE All(Tail(q), t) = 0
  <2>1. \A j \in DOMAIN q : q[j] \in TaskOf(t) => j <= 1
      BY <1>1, <1>3 DEF CompleteIsLast
  <2>2. \A j \in DOMAIN Tail(q) : Tail(q)[j] \notin TaskOf(t)
      BY <1>1, <2>1
  <2> QED BY <1>1, <2>2, CountFacts DEF All
<1> QED BY <1>2, <1>3

\* The task that has its turn is of a kind its call may have.
LEMMA HeadKinds ==
    ASSUME NEW q \in Seq(TaskSet), NEW t, q # <<>>, Head(q).who = t, NEW kinds, Aliens(q, t, kinds) = 0
    PROVE  Head(q).what \in kinds /\ All(q, t) >= 1
<1>1. /\ Tail(q) \in Seq(TaskSet) /\ All(Tail(q), t) = All(q, t) - 1
      /\ Aliens(Tail(q), t, kinds)
             = Aliens(q, t, kinds) - (IF Head(q).what \notin kinds THEN 1 ELSE 0)
    BY Dequeues, SMTT(30)
<1>2. All(Tail(q), t) \in Nat /\ Aliens(Tail(q), t, kinds) \in Nat /\ All(q, t) \in Nat
    BY <1>1, CountTypes
<1> QED BY <1>1, <1>2

\* What stands for the calls of others moves nothing of a transaction.
SameQueue(t) ==
    /\ \A S \in SUBSET TaskOf(t) : Count(micro', S) = Count(micro, S)
    /\ CompleteIsLast(micro, t) => CompleteIsLast(micro', t)

LEMMA OthersCount ==
    ASSUME StorageShape, NEW t, NEW p, p # t, QueueStep(p), WaitStep(p)
    PROVE  SameQueue(t) /\ Waits(t)' = Waits(t)
<1>1. micro \in Seq(TaskSet)
    BY DEF StorageShape, ShimShape
<1>2. \A a \in TaskOf(p) : a \in TaskSet /\ a \notin TaskOf(t)
    BY DEF TaskOf
<1>3. ASSUME NEW m \in Seq(TaskSet), NEW n, Longer(m, n, p)
      PROVE  /\ \A S \in SUBSET TaskOf(t) : Count(n, S) = Count(m, S)
             /\ CompleteIsLast(m, t) => CompleteIsLast(n, t)
  <2>1. ASSUME NEW k \in Seq(TaskSet), NEW a \in TaskOf(p)
        PROVE  /\ Append(k, a) \in Seq(TaskSet)
               /\ \A S \in SUBSET TaskOf(t) : Count(Append(k, a), S) = Count(k, S)
               /\ CompleteIsLast(k, t) => CompleteIsLast(Append(k, a), t)
    <3>1. \A S \in SUBSET TaskOf(t) : Count(k, S) \in Nat /\ Count(Append(k, a), S) = Count(k, S) + 0
        BY <1>2, CountAppend, CountFacts
    <3>2. Append(k, a) \in Seq(TaskSet)
        BY <1>2
    <3>3. CompleteIsLast(k, t) => CompleteIsLast(Append(k, a), t)
        BY <1>2, LastAppend
    <3> QED BY <3>1, <3>2, <3>3
  <2>2. CASE n = m
      BY <2>2
  <2>3. ASSUME NEW a \in TaskOf(p), n = Append(m, a)
        PROVE  /\ \A S \in SUBSET TaskOf(t) : Count(n, S) = Count(m, S)
               /\ CompleteIsLast(m, t) => CompleteIsLast(n, t)
      BY <2>1, <2>3
  <2>4. ASSUME NEW a \in TaskOf(p), NEW b \in TaskOf(p), n = Append(Append(m, a), b)
        PROVE  /\ \A S \in SUBSET TaskOf(t) : Count(n, S) = Count(m, S)
               /\ CompleteIsLast(m, t) => CompleteIsLast(n, t)
    <3>1. PICK k \in Seq(TaskSet) : k = Append(m, a)
        BY <2>1
    <3>2. /\ \A S \in SUBSET TaskOf(t) : Count(k, S) = Count(m, S)
          /\ CompleteIsLast(m, t) => CompleteIsLast(k, t)
        BY <2>1, <3>1
    <3>3. /\ \A S \in SUBSET TaskOf(t) : Count(n, S) = Count(k, S)
          /\ CompleteIsLast(k, t) => CompleteIsLast(n, t)
        BY <2>1, <2>4, <3>1
    <3> QED BY <3>2, <3>3
  <2> QED BY <1>3, <2>2, <2>3, <2>4 DEF Longer
<1>0. PICK m, n : m = micro /\ n = micro'
    OBVIOUS
<1>6. Waits(t)' = Waits(t)
    BY DEF WaitStep, Waits
<1>4. CASE Longer(micro, micro', p)
  <2>1. m \in Seq(TaskSet) /\ Longer(m, n, p)
      BY <1>0, <1>1, <1>4
  <2>2. /\ \A S \in SUBSET TaskOf(t) : Count(n, S) = Count(m, S)
        /\ CompleteIsLast(m, t) => CompleteIsLast(n, t)
      BY <1>3, <2>1
  <2> QED BY <1>0, <1>6, <2>2 DEF SameQueue
<1>5. CASE micro # <<>> /\ Head(micro).who = p /\ Longer(Tail(micro), micro', p)
  <2>0. Tail(micro) \in Seq(TaskSet)
      BY <1>1, <1>5
  <2>1. PICK k \in Seq(TaskSet) : k = Tail(micro)
      BY <2>0
  <2>2. \A S \in SUBSET TaskOf(t) : Head(micro) \notin S
      BY <1>5 DEF TaskOf
  <2>3. \A S \in SUBSET TaskOf(t) : Count(micro, S) \in Nat /\ Count(k, S) = Count(micro, S) - 0
      BY <1>1, <1>5, <2>1, <2>2, CountTail, CountFacts
  <2>4. CompleteIsLast(micro, t) => CompleteIsLast(k, t)
      BY <1>1, <1>5, <2>1, LastTail
  <2>5. Longer(k, n, p)
      BY <1>0, <1>5, <2>1
  <2>6. /\ \A S \in SUBSET TaskOf(t) : Count(n, S) = Count(k, S)
        /\ CompleteIsLast(k, t) => CompleteIsLast(n, t)
      BY <1>3, <2>5
  <2>7. \A S \in SUBSET TaskOf(t) : Count(n, S) = Count(micro, S)
      BY <2>3, <2>6
  <2>8. CompleteIsLast(micro, t) => CompleteIsLast(n, t)
      BY <2>4, <2>6
  <2> QED BY <1>0, <1>6, <2>7, <2>8 DEF SameQueue
<1> QED BY <1>4, <1>5 DEF QueueStep

Booked(t) == Phase(t) /\ (txs[t].at \in Active => Book(t))

LEMMA SameCounts ==
    ASSUME NEW t, SameQueue(t)
    PROVE  /\ All(micro', t) = All(micro, t)
           /\ \A k : Queued(micro', t, k) = Queued(micro, t, k)
           /\ \A k : Refusals(micro', t, k) = Refusals(micro, t, k)
           /\ \A W : Aliens(micro', t, W) = Aliens(micro, t, W)
<1>1. \A S \in SUBSET TaskOf(t) : Count(micro', S) = Count(micro, S)
    BY DEF SameQueue
<1>2. /\ TaskOf(t) \in SUBSET TaskOf(t)
      /\ \A k : {e \in TaskOf(t) : e.what = k} \in SUBSET TaskOf(t)
      /\ \A k : {e \in TaskOf(t) : e.what = k /\ ~e.ok} \in SUBSET TaskOf(t)
      /\ \A W : {e \in TaskOf(t) : e.what \notin W} \in SUBSET TaskOf(t)
    OBVIOUS
<1>3. All(micro', t) = All(micro, t)
    BY <1>1, <1>2 DEF All
<1>4. \A k : Queued(micro', t, k) = Queued(micro, t, k)
    BY <1>1, <1>2 DEF Queued
<1>5. \A k : Refusals(micro', t, k) = Refusals(micro, t, k)
    BY <1>1, <1>2 DEF Refusals
<1>6. \A W : Aliens(micro', t, W) = Aliens(micro, t, W)
    BY <1>1, <1>2 DEF Aliens
<1> QED BY <1>3, <1>4, <1>5, <1>6

LEMMA OthersBooked ==
    ASSUME NEW t \in Txs, SameQueue(t), Waits(t)' = Waits(t), txs'[t] = txs[t], Booked(t)
    PROVE  Booked(t)'
<1>1. /\ All(micro', t) = All(micro, t)
      /\ \A k : Queued(micro', t, k) = Queued(micro, t, k)
      /\ \A k : Refusals(micro', t, k) = Refusals(micro, t, k)
      /\ \A W : Aliens(micro', t, W) = Aliens(micro, t, W)
      /\ CompleteIsLast(micro, t) => CompleteIsLast(micro', t)
    BY SameCounts DEF SameQueue
<1>2. \A n, kinds : Alone(t, n, kinds)' <=> Alone(t, n, kinds)
    BY <1>1 DEF Alone
<1>3. Phase(t)'
    BY <1>2 DEF Booked, Phase, Blank, Free
<1>4. txs'[t].at \in Active => Book(t)'
  <2> SUFFICES ASSUME txs'[t].at \in Active PROVE Book(t)'
      OBVIOUS
  <2>1. Book(t)
      BY DEF Booked
  <2> QED BY <1>1, <2>1 DEF Book
<1> QED BY <1>3, <1>4 DEF Booked

LEMMA WaitsAreCounted ==
    ASSUME WaitIds, NEW t
    PROVE  /\ IsFiniteSet(Waits(t)) /\ Cardinality(Waits(t)) \in Nat
           /\ Cardinality(Waits(t)) = 0 <=> Waits(t) = {}
<1>1. Waits(t) \in SUBSET waiting
    BY DEF Waits
<1>2. IsFiniteSet(Waits(t))
    BY <1>1, FS_Subset DEF WaitIds
<1> QED BY <1>2, FS_CardinalityType, FS_EmptySet

\* A call that is not made yet, or is over, has nothing queued and awaits nothing.
LEMMA AloneFacts ==
    ASSUME StorageShape, WaitIds, NEW t, NEW n \in {0, 1}, NEW kinds, Alone(t, n, kinds)
    PROVE  /\ n = 0 => All(micro, t) = 0 /\ Waits(t) = {} /\ Cardinality(Waits(t)) = 0
           /\ micro # <<>> /\ Head(micro).who = t =>
                /\ n = 1 /\ Head(micro).what \in kinds
                /\ All(micro, t) = 1 /\ Waits(t) = {} /\ Cardinality(Waits(t)) = 0
<1>1. /\ micro \in Seq(TaskSet) /\ All(micro, t) \in Nat /\ Aliens(micro, t, kinds) = 0
      /\ Cardinality(Waits(t)) \in Nat /\ All(micro, t) + Cardinality(Waits(t)) = n
      /\ Cardinality(Waits(t)) = 0 <=> Waits(t) = {}
    BY CountTypes, WaitsAreCounted DEF StorageShape, ShimShape, Alone
<1>2. ASSUME micro # <<>>, Head(micro).who = t
      PROVE  Head(micro).what \in kinds /\ All(micro, t) >= 1
    BY <1>1, <1>2, HeadKinds
<1> QED BY <1>1, <1>2

LEMMA StartsBooked ==
    ASSUME StorageShape, WaitIds, NEW t \in Txs, Booked(t),
           DropDatabase(t) \/ \E prog \in Programs : OpenDatabase(t, prog)
    PROVE  Booked(t)'
<1>1. micro \in Seq(TaskSet) /\ Free(txs[t]) /\ DOMAIN txs = Txs /\ waiting' = waiting
    BY DEF StorageShape, ShimShape, DropDatabase, OpenDatabase, StoreQuiet
<1>2. All(micro, t) = 0 /\ Waits(t) = {} /\ Cardinality(Waits(t)) = 0 /\ Waits(t)' = {}
  <2>1. Alone(t, 0, {})
      BY <1>1 DEF Booked, Phase
  <2>2. All(micro, t) = 0 /\ Waits(t) = {} /\ Cardinality(Waits(t)) = 0
      BY <2>1, AloneFacts
  <2> QED BY <1>1, <2>2 DEF Waits
<1>3. ASSUME NEW what \in {"open", "drop", "dropped"}, micro' = Append(micro, Task(t, what))
      PROVE  \A W : what \in W => Alone(t, 1, W)'
  <2>1. Task(t, what) \in TaskOf(t) /\ Task(t, what).what = what
      BY TxTasks DEF Task
  <2>2. /\ All(micro', t) = All(micro, t) + 1
        /\ \A W : what \in W => Aliens(micro', t, W) = Aliens(micro, t, W) + 0
      BY <1>1, <1>3, <2>1, Enqueues
  <2>3. \A W : Aliens(micro, t, W) = 0
    <3>1. \A W : Aliens(micro, t, W) \in Nat /\ Aliens(micro, t, W) <= 0
        BY <1>1, <1>2, CountTypes
    <3> QED BY <3>1
  <2> QED BY <1>2, <2>2, <2>3 DEF Alone
<1>4. ASSUME NEW prog \in Programs, OpenDatabase(t, prog) PROVE Booked(t)'
  <2>1. /\ txs'[t].at = "opening" /\ txs'[t].prog = prog /\ Blank(txs'[t])
        /\ micro' = Append(micro, Task(t, "open"))
      BY <1>1, <1>4 DEF OpenDatabase, NoTx, Blank, Queue
  <2>2. Alone(t, 1, {"open"})'
      BY <1>3, <2>1
  <2> QED BY <2>1, <2>2 DEF Booked, Phase, Free, Active, Blank
<1>5. CASE DropDatabase(t)
  <2>1. /\ txs'[t].at = "dropping" /\ txs'[t].prog = <<>> /\ txs'[t].seen = 0 /\ txs'[t].pending = 0
        /\ ~txs'[t].refused /\ ~txs'[t].error /\ txs'[t].puts = {}
        /\ micro' = Append(micro, Task(t, "drop")) \/ micro' = Append(micro, Task(t, "dropped"))
      BY <1>1, <1>5 DEF DropDatabase, NoTx, Queue
  <2>2. Alone(t, 1, {"drop", "dropped", "complete"})'
      BY <1>3, <2>1
  <2> QED BY <2>1, <2>2 DEF Booked, Phase, Free, Active
<1> QED BY <1>4, <1>5

\* Where a transaction stands when one of its tasks has its turn.
LEMMA TurnSays ==
    ASSUME StorageShape, WaitIds, NEW t \in Txs, Booked(t), NEW what, Turn(t, what)
    PROVE  /\ what = "open" => txs[t].at = "opening"
           /\ what \in {"drop", "dropped"} => txs[t].at = "dropping"
           /\ what \in {"tick", "answer", "callback"} => txs[t].at = "running"
           /\ what = "complete" => txs[t].at \in {"running", "dropping"}
           /\ what = "run" => txs[t].at \in {"opened"} \cup Active
           /\ txs[t].at \notin Active =>
                All(micro, t) = 1 /\ Waits(t) = {} /\ Cardinality(Waits(t)) = 0
           /\ micro \in Seq(TaskSet) /\ micro # <<>> /\ Head(micro).who = t /\ Head(micro).what = what
<1>1. /\ micro \in Seq(TaskSet) /\ micro # <<>> /\ Head(micro).who = t /\ Head(micro).what = what
      /\ HasTurn(t)
    BY DEF StorageShape, ShimShape, Turn
<1>2. ASSUME NEW n \in {0, 1}, NEW kinds, Alone(t, n, kinds)
      PROVE  n = 1 /\ what \in kinds /\ All(micro, t) = 1 /\ Waits(t) = {} /\ Cardinality(Waits(t)) = 0
    BY <1>1, <1>2, AloneFacts
<1>3. CASE txs[t].at \in {"idle", "done"}
  <2>1. Alone(t, 0, {})
      BY <1>3 DEF Booked, Phase, Free
  <2> QED BY <1>2, <2>1
<1>4. CASE txs[t].at = "opening"
  <2>1. Alone(t, 1, {"open"})
      BY <1>4 DEF Booked, Phase
  <2> QED BY <1>1, <1>2, <1>4, <2>1 DEF Active
<1>5. CASE txs[t].at = "opened"
  <2>1. Alone(t, 1, {"run"})
      BY <1>5 DEF Booked, Phase
  <2> QED BY <1>1, <1>2, <1>5, <2>1 DEF Active
<1>6. CASE txs[t].at = "dropping"
  <2>1. Alone(t, 1, {"drop", "dropped", "complete"})
      BY <1>6 DEF Booked, Phase
  <2> QED BY <1>1, <1>2, <1>6, <2>1 DEF Active
<1>7. CASE txs[t].at \in Active
  <2>1. what \in {"run", "tick", "answer", "callback", "complete"}
    <3>0. PICK W : W = {"run", "tick", "answer", "callback", "complete"}
        OBVIOUS
    <3>1. Aliens(micro, t, W) = 0
        BY <1>7, <3>0 DEF Booked, Book
    <3>5. what \in W
        BY <1>1, <3>1, HeadKinds
    <3> QED BY <3>0, <3>5
  <2>2. txs[t].at = "issuing" => what = "run"
      BY <1>1 DEF HasTurn, Turn
  <2> QED BY <1>1, <1>7, <2>1, <2>2 DEF Active
<1> QED BY <1>3, <1>4, <1>5, <1>6, <1>7 DEF Booked, Phase

LEMMA OpensBooked ==
    ASSUME StorageShape, WaitIds, NEW t \in Txs, Booked(t), OnOpen(t) \/ NewTransaction(t)
    PROVE  Booked(t)'
<1>1. PICK q \in Seq(TaskSet) : q = micro
    BY DEF StorageShape, ShimShape
<1>2. waiting' = waiting /\ DOMAIN txs = Txs /\ DOMAIN txs[t] = TxFields
    BY DEF StorageShape, ShimShape, TxShape, OnOpen, NewTransaction, StoreQuiet
<1>3. CASE OnOpen(t)
  <2>1. txs[t].at = "opening" /\ All(q, t) = 1 /\ Waits(t) = {} /\ q # <<>> /\ Head(q).who = t
    <3>1. Turn(t, "open")
        BY <1>3 DEF OnOpen
    <3> QED BY <1>1, <3>1, TurnSays DEF Active
  <2>2. /\ txs'[t].at = "opened" /\ txs'[t].prog = txs[t].prog
        /\ Blank(txs[t]) => Blank(txs'[t])
      BY <1>2, <1>3 DEF OnOpen, Blank, TxFields
  <2>3. micro' = Append(Tail(q), Task(t, "run"))
    <3>1. micro' = Tail(q) \o <<Task(t, "run")>> /\ Task(t, "run") \in TaskSet
        BY <1>1, <1>3, TxTasks DEF OnOpen, Then, TaskOf
    <3> QED BY <1>1, <2>1, <3>1, Behind
  <2>4. Tail(q) \in Seq(TaskSet) /\ All(Tail(q), t) = 0
      BY <1>1, <2>1, Dequeues
  <2>5. Aliens(Tail(q), t, {"run"}) = 0
    <3>1. Aliens(Tail(q), t, {"run"}) \in Nat /\ Aliens(Tail(q), t, {"run"}) <= 0
        BY <2>4, CountTypes
    <3> QED BY <3>1
  <2>6. All(micro', t) = 1 /\ Aliens(micro', t, {"run"}) = 0
    <3>1. Task(t, "run") \in TaskOf(t) /\ Task(t, "run").what = "run"
        BY TxTasks DEF Task
    <3>2. PICK m \in Seq(TaskSet) : m = Tail(q)
        BY <2>4
    <3>3. /\ All(Append(m, Task(t, "run")), t) = All(m, t) + 1
          /\ Aliens(Append(m, Task(t, "run")), t, {"run"}) = Aliens(m, t, {"run"}) + 0
        BY <3>1, Enqueues
    <3> QED BY <2>3, <2>4, <2>5, <3>2, <3>3
  <2>7. Alone(t, 1, {"run"})'
    <3>1. Waits(t)' = {}
        BY <1>2, <2>1 DEF Waits
    <3> QED BY <2>6, <3>1, FS_EmptySet DEF Alone
  <2>8. Blank(txs[t]) /\ txs[t].prog \in Programs
      BY <2>1 DEF Booked, Phase
  <2> QED BY <2>2, <2>7, <2>8 DEF Booked, Phase, Free, Active, Blank
<1>4. CASE NewTransaction(t)
  <2>1. txs[t].at = "opened" /\ All(q, t) = 1 /\ Waits(t) = {} /\ q # <<>> /\ Head(q).who = t
        /\ Head(q).what = "run"
    <3>1. Turn(t, "run") /\ txs[t].at = "opened"
        BY <1>4 DEF NewTransaction
    <3> QED BY <1>1, <3>1, TurnSays DEF Active
  <2>2. Blank(txs[t]) /\ txs[t].prog \in Programs /\ Aliens(q, t, {"run"}) = 0
      BY <1>1, <2>1 DEF Booked, Phase, Alone
  <2>3. /\ txs'[t].at = "issuing" /\ txs'[t].prog = txs[t].prog /\ Blank(txs'[t])
      BY <1>2, <1>4, <2>2 DEF NewTransaction, Blank, TxFields
  <2>4. micro' = Append(q, Task(t, "tick"))
        /\ Task(t, "tick") \in TaskOf(t) /\ Task(t, "tick").what = "tick"
      BY <1>1, <1>4, TxTasks DEF NewTransaction, Queue, Task
  <2>5. \A k : Queued(q, t, k) \in Nat /\ Refusals(q, t, k) \in Nat /\ Refusals(q, t, k) <= Queued(q, t, k)
      BY CountTypes
  <2>6. \A k : k # "run" => Queued(q, t, k) = 0
    <3>1. \A k : k # "run" => Queued(q, t, k) <= Aliens(q, t, {"run"})
      <4> SUFFICES ASSUME NEW k, k # "run" PROVE Queued(q, t, k) <= Aliens(q, t, {"run"})
          OBVIOUS
      <4>1. {e \in TaskOf(t) : e.what = k} \subseteq {e \in TaskOf(t) : e.what \notin {"run"}}
          OBVIOUS
      <4> QED BY <4>1, CountFacts DEF Queued, Aliens
    <3> QED BY <2>2, <2>5, <3>1
  <2>7. \A k : k \notin {"run", "tick"} => Queued(micro', t, k) = 0 /\ Refusals(micro', t, k) = 0
    <3>1. \A k : k # "tick" => /\ Queued(micro', t, k) = Queued(q, t, k) + 0
                               /\ Refusals(micro', t, k) = Refusals(q, t, k) + 0
        BY <2>4, Enqueues
    <3> QED BY <2>5, <2>6, <3>1
  <2>8. Aliens(micro', t, {"run", "tick", "answer", "callback", "complete"}) = 0
    <3> DEFINE W == {"run", "tick", "answer", "callback", "complete"}
    <3>1. "tick" \in W /\ {e \in TaskOf(t) : e.what \notin W} \subseteq {e \in TaskOf(t) : e.what \notin {"run"}}
        OBVIOUS
    <3> HIDE DEF W
    <3>2. Aliens(q, t, W) \in Nat /\ Aliens(q, t, W) <= Aliens(q, t, {"run"})
        BY <3>1, CountFacts DEF Aliens
    <3>3. Aliens(micro', t, W) = Aliens(q, t, W) + 0
        BY <2>4, <3>1, Enqueues
    <3>4. Aliens(micro', t, W) = 0
        BY <2>2, <3>2, <3>3
    <3> QED BY <3>4 DEF W
  <2>9. CompleteIsLast(micro', t)
    <3>1. \A i \in DOMAIN micro' : micro'[i] \notin {e \in TaskOf(t) : e.what = "complete"}
      <4>1. micro' \in Seq(TaskSet)
          BY <2>4, Enqueues
      <4>2. PICK m \in Seq(TaskSet) : m = micro'
          BY <4>1
      <4>3. Count(m, {e \in TaskOf(t) : e.what = "complete"}) = 0
          BY <2>7, <4>2 DEF Queued
      <4>4. \A i \in DOMAIN m : m[i] \notin {e \in TaskOf(t) : e.what = "complete"}
          BY <4>3, CountFacts
      <4> QED BY <4>2, <4>4
    <3> QED BY <3>1 DEF CompleteIsLast
  <2>10. Waits(t)' = {} /\ Cardinality(Waits(t)') = 0
      BY <1>2, <2>1, FS_EmptySet DEF Waits
  <2>11. Book(t)'
    <3>1. txs'[t].prog \in Programs /\ Len(txs'[t].prog) \in Nat
        BY <2>2, <2>3, StorageAssumption
    <3> QED BY <2>3, <2>7, <2>8, <2>9, <2>10, <3>1 DEF Book, Blank
  <2> QED BY <2>3, <2>11 DEF Booked, Phase, Free, Active
<1> QED BY <1>3, <1>4

BookKinds == {"run", "tick", "answer", "callback", "complete"}

\* The figures of an open transaction are numbers.
LEMMA BookNumbers ==
    ASSUME StorageShape, WaitIds, NEW t \in Txs, Book(t)
    PROVE  /\ micro \in Seq(TaskSet) /\ Aliens(micro, t, BookKinds) = 0
           /\ txs[t].pending \in Nat /\ txs[t].seen \in Nat /\ txs[t].next \in Nat
           /\ Len(txs[t].prog) \in Nat
           /\ \A k : /\ Queued(micro, t, k) \in Nat /\ Refusals(micro, t, k) \in Nat
                     /\ Refusals(micro, t, k) <= Queued(micro, t, k)
           /\ IsFiniteSet(Waits(t)) /\ Cardinality(Waits(t)) \in Nat
           /\ txs[t].pending = 0 <=> /\ Queued(micro, t, "answer") = 0
                                     /\ Waits(t) = {} /\ txs[t].todo = {}
<1>1. micro \in Seq(TaskSet) /\ txs[t].seen \in Nat /\ txs[t].next \in Nat /\ txs[t].prog \in Seq(Op)
    BY DEF StorageShape, ShimShape, TxShape
<1>2. \A k : /\ Queued(micro, t, k) \in Nat /\ Refusals(micro, t, k) \in Nat
             /\ Refusals(micro, t, k) <= Queued(micro, t, k)
    BY <1>1, CountTypes
<1>3. IsFiniteSet(Waits(t)) /\ Cardinality(Waits(t)) \in Nat /\ (Cardinality(Waits(t)) = 0 <=> Waits(t) = {})
    BY WaitsAreCounted
<1>4. txs[t].pending = Queued(micro, t, "answer") + Cardinality(Waits(t))
                     + (IF txs[t].todo = {} THEN 0 ELSE 1)
      /\ Aliens(micro, t, BookKinds) = 0
    BY DEF Book, BookKinds
<1>5. Queued(micro, t, "answer") \in Nat
    BY <1>2
<1>6. txs[t].pending \in Nat
      /\ (txs[t].pending = 0 <=> /\ Queued(micro, t, "answer") = 0
                                 /\ Waits(t) = {} /\ txs[t].todo = {})
    BY <1>3, <1>4, <1>5
<1>7. Len(txs[t].prog) \in Nat
    BY <1>1
<1> QED BY <1>1, <1>2, <1>3, <1>4, <1>6, <1>7

\* A transaction that issues a request has not completed, nor queued that it has.
LEMMA IssueFacts ==
    ASSUME StorageShape, WaitIds, NEW t \in Txs, Booked(t), NEW kinds, Issuing(t, kinds)
    PROVE  /\ Book(t) /\ txs[t].at = "issuing" /\ txs[t].todo = {} /\ txs[t].next <= Len(txs[t].prog)
           /\ ~txs[t].completed /\ Queued(micro, t, "complete") = 0
           /\ Request(t).do \in kinds
<1>1. /\ txs[t].at = "issuing" /\ txs[t].todo = {} /\ txs[t].next <= Len(txs[t].prog)
      /\ Request(t).do \in kinds
    BY DEF Issuing, Request
<1>2. Book(t)
    BY <1>1 DEF Booked, Active
<1>3. txs[t].next \in Nat /\ Len(txs[t].prog) \in Nat /\ Queued(micro, t, "complete") \in Nat
    BY <1>2, BookNumbers
<1>4. ~txs[t].completed
    BY <1>1, <1>2, <1>3 DEF Book
<1>5. Queued(micro, t, "complete") = 0
    BY <1>2, <1>3, <1>4 DEF Book
<1> QED BY <1>1, <1>2, <1>4, <1>5

\* A request that the store has to answer is pending once it is issued.
LEMMA StoredBooked ==
    ASSUME StorageShape, WaitIds, NEW t \in Txs, Booked(t), NEW kinds, Issuing(t, kinds),
           kinds \cap {"getAllKeys", "putBad"} = {},
           txs'[t].at = "issuing", txs'[t].prog = txs[t].prog, txs'[t].next = txs[t].next + 1,
           txs'[t].seen = txs[t].seen, txs'[t].pending = txs[t].pending + 1, txs'[t].hadOp,
           txs'[t].completed = txs[t].completed, txs'[t].error = txs[t].error,
           txs'[t].refused = txs[t].refused,
           \/ /\ micro' = Append(micro, Task(t, "answer")) /\ Waits(t)' = Waits(t)
              /\ txs'[t].todo = {}
           \/ /\ micro' = micro /\ txs'[t].todo = {}
              /\ \E w : w \notin Waits(t) /\ w.task.what = "answer" /\ Waits(t)' = Waits(t) \cup {w}
           \/ micro' = micro /\ Waits(t)' = Waits(t) /\ txs'[t].todo # {}
    PROVE  Booked(t)'
<1>1. /\ Book(t) /\ txs[t].at = "issuing" /\ txs[t].todo = {} /\ txs[t].next <= Len(txs[t].prog)
      /\ ~txs[t].completed /\ Queued(micro, t, "complete") = 0
    BY IssueFacts
<1>2. /\ micro \in Seq(TaskSet) /\ Aliens(micro, t, BookKinds) = 0
      /\ txs[t].pending \in Nat /\ txs[t].seen \in Nat /\ txs[t].next \in Nat
      /\ Len(txs[t].prog) \in Nat
      /\ \A k : /\ Queued(micro, t, k) \in Nat /\ Refusals(micro, t, k) \in Nat
      /\ IsFiniteSet(Waits(t)) /\ Cardinality(Waits(t)) \in Nat
    BY <1>1, BookNumbers
<1>3. /\ Queued(micro', t, "answer") + Cardinality(Waits(t)') + (IF txs'[t].todo = {} THEN 0 ELSE 1)
            = Queued(micro, t, "answer") + Cardinality(Waits(t)) + 1
      /\ Queued(micro', t, "callback") = Queued(micro, t, "callback")
      /\ Queued(micro', t, "complete") = 0
      /\ Refusals(micro', t, "callback") = Refusals(micro, t, "callback")
      /\ Aliens(micro', t, BookKinds) = 0
      /\ CompleteIsLast(micro', t)
      /\ \A w \in Waits(t)' : w.task.what = "answer"
  <2>0. /\ Queued(micro, t, "answer") \in Nat /\ Queued(micro, t, "callback") \in Nat
        /\ Queued(micro, t, "complete") \in Nat /\ Refusals(micro, t, "callback") \in Nat
        /\ Cardinality(Waits(t)) \in Nat
      BY <1>2
  <2>1. CompleteIsLast(micro, t) /\ \A w \in Waits(t) : w.task.what = "answer"
      BY <1>1 DEF Book
  <2>2. CASE micro' = Append(micro, Task(t, "answer")) /\ Waits(t)' = Waits(t) /\ txs'[t].todo = {}
    <3>1. Task(t, "answer") \in TaskOf(t) /\ Task(t, "answer") \in TaskSet
          /\ Task(t, "answer").what = "answer"
        BY TxTasks DEF Task, TaskOf
    <3>2. /\ Queued(micro', t, "answer") = Queued(micro, t, "answer") + 1
          /\ Queued(micro', t, "callback") = Queued(micro, t, "callback") + 0
          /\ Queued(micro', t, "complete") = Queued(micro, t, "complete") + 0
          /\ Refusals(micro', t, "callback") = Refusals(micro, t, "callback") + 0
          /\ Aliens(micro', t, BookKinds) = Aliens(micro, t, BookKinds) + 0
        BY <1>2, <2>2, <3>1, Enqueues DEF BookKinds
    <3>3. CompleteIsLast(micro', t)
        BY <1>1, <1>2, <2>1, <2>2, <3>1, LastAppend
    <3>4. /\ Queued(micro', t, "answer") + Cardinality(Waits(t)') + 0
                = Queued(micro, t, "answer") + Cardinality(Waits(t)) + 1
          /\ Queued(micro', t, "callback") = Queued(micro, t, "callback")
          /\ Refusals(micro', t, "callback") = Refusals(micro, t, "callback")
          /\ Queued(micro', t, "complete") = 0 /\ Aliens(micro', t, BookKinds) = 0
      <4>1. Queued(micro, t, "complete") = 0 /\ Aliens(micro, t, BookKinds) = 0
          BY <1>1, <1>2
      <4> QED BY <2>0, <2>2, <3>2, <4>1, SMTT(30)
    <3> QED BY <2>1, <2>2, <3>3, <3>4
  <2>3. CASE /\ micro' = micro /\ txs'[t].todo = {}
             /\ \E w : w \notin Waits(t) /\ w.task.what = "answer" /\ Waits(t)' = Waits(t) \cup {w}
    <3>1. Cardinality(Waits(t)') = Cardinality(Waits(t)) + 1
        BY <1>2, <2>3, FS_AddElement, ZenonT(60)
    <3>2. Queued(micro, t, "answer") + Cardinality(Waits(t)') + 0
            = Queued(micro, t, "answer") + Cardinality(Waits(t)) + 1
        BY <2>0, <3>1
    <3>3. \A w \in Waits(t)' : w.task.what = "answer"
        BY <2>1, <2>3
    <3> QED BY <1>1, <1>2, <2>1, <2>3, <3>2, <3>3
  <2>4. CASE micro' = micro /\ Waits(t)' = Waits(t) /\ txs'[t].todo # {}
      BY <1>1, <1>2, <2>0, <2>1, <2>4
  <2> QED BY <2>2, <2>3, <2>4
<1>4. Queued(micro, t, "callback") \in Nat
    BY <1>2
<1>5. Book(t)'
  <2>1. txs'[t].pending = Queued(micro', t, "answer") + Cardinality(Waits(t)')
                        + (IF txs'[t].todo = {} THEN 0 ELSE 1)
    <3>1. txs[t].pending = Queued(micro, t, "answer") + Cardinality(Waits(t)) + 0
        BY <1>1 DEF Book
    <3>2. Queued(micro, t, "answer") \in Nat /\ Cardinality(Waits(t)) \in Nat
        BY <1>2
    <3>3. txs'[t].pending = Queued(micro, t, "answer") + Cardinality(Waits(t)) + 1
        BY <3>1, <3>2
    <3> QED BY <1>3, <3>3
  <2>2. txs'[t].next = 1 + txs'[t].seen + Queued(micro', t, "callback") + txs'[t].pending
        /\ txs'[t].next <= Len(txs'[t].prog) + 1
    <3>1. txs[t].next = 1 + txs[t].seen + Queued(micro, t, "callback") + txs[t].pending
        BY <1>1 DEF Book
    <3>2. txs'[t].next = 1 + txs'[t].seen + Queued(micro, t, "callback") + txs'[t].pending
      <4>1. txs[t].seen \in Nat /\ txs[t].pending \in Nat
          BY <1>2
      <4> QED BY <1>4, <3>1, <4>1, SMTT(30)
    <3>3. txs'[t].next <= Len(txs'[t].prog) + 1
        BY <1>1, <1>2
    <3> QED BY <1>3, <3>2, <3>3
  <2>3. txs'[t].prog \in Programs /\ (txs'[t].refused <=> txs'[t].error \/ Refusals(micro', t, "callback") > 0)
      BY <1>1, <1>3 DEF Book
  <2>4. txs'[t].pending > 0
      BY <1>2
  <2> QED BY <1>1, <1>3, <2>1, <2>2, <2>3, <2>4 DEF Book, BookKinds
<1>6. Phase(t)'
    BY DEF Phase, Active, Free
<1> QED BY <1>5, <1>6 DEF Booked

\* Who waits for a write that is made now has not waited before.
LEMMA NewWait ==
    ASSUME StorageShape, WaitIds, NEW t \in Txs, NEW ids, NEW what, ops + 1 \in ids,
           waiting' = waiting \cup {[task |-> Task(t, what), ids |-> ids]}
    PROVE  \E w : /\ w \notin Waits(t) /\ w.task.what = what /\ w.task.who = t /\ w.ids = ids
                  /\ Waits(t)' = Waits(t) \cup {w}
<1> DEFINE w == [task |-> Task(t, what), ids |-> ids]
<1>1. w.task.what = what /\ w.task.who = t /\ w.ids = ids
    BY DEF Task
<1>2. ops \in Nat
    BY DEF StorageShape, ShapeInv, TypeOK
<1>3. \A v \in waiting : ops + 1 \notin v.ids
  <2>1. \A v \in waiting : \A n \in v.ids : n <= ops
      BY DEF WaitIds
  <2> QED BY <1>2, <2>1
<1> HIDE DEF w
<1>4. w \notin waiting
    BY <1>1, <1>3
<1>5. waiting' = waiting \cup {w}
    BY DEF w
<1>6. Waits(t)' = Waits(t) \cup {w} /\ w \notin Waits(t)
    BY <1>1, <1>4, <1>5 DEF Waits
<1> QED BY <1>1, <1>6

LEMMA RequestsBooked ==
    ASSUME StorageShape, WaitIds, NEW t \in Txs, Booked(t), Get(t) \/ GetAll(t) \/ Put(t) \/ Erase(t)
    PROVE  Booked(t)'
<1>1. DOMAIN txs = Txs /\ DOMAIN txs[t] = TxFields
    BY DEF StorageShape, ShimShape, TxShape
<1>2. PICK kinds : Issuing(t, kinds) /\ kinds \cap {"getAllKeys", "putBad"} = {}
    BY DEF Get, GetAll, Put, Erase
<1>3. txs[t].at = "issuing" /\ txs[t].todo = {}
    BY <1>2, IssueFacts
<1>4. CASE Get(t) \/ GetAll(t)
  <2>1. /\ txs'[t].at = "issuing" /\ txs'[t].prog = txs[t].prog /\ txs'[t].next = txs[t].next + 1
        /\ txs'[t].seen = txs[t].seen /\ txs'[t].pending = txs[t].pending + 1 /\ txs'[t].hadOp
        /\ txs'[t].completed = txs[t].completed /\ txs'[t].error = txs[t].error
        /\ txs'[t].refused = txs[t].refused /\ txs'[t].todo = {}
      BY <1>1, <1>3, <1>4, ZenonT(60) DEF Get, GetAll, Read, OpStart, Issued, TxFields
  <2>2. micro' = Append(micro, Task(t, "answer")) /\ waiting' = waiting
      BY <1>4 DEF Get, GetAll, Read, Queue, StoreQuiet
  <2>3. Waits(t)' = Waits(t)
      BY <2>2 DEF Waits
  <2> QED BY <1>2, <2>1, <2>2, <2>3, StoredBooked
<1>5. CASE Put(t)
  <2>1. /\ txs'[t].at = "issuing" /\ txs'[t].prog = txs[t].prog /\ txs'[t].next = txs[t].next + 1
        /\ txs'[t].seen = txs[t].seen /\ txs'[t].pending = txs[t].pending + 1 /\ txs'[t].hadOp
        /\ txs'[t].completed = txs[t].completed /\ txs'[t].error = txs[t].error
        /\ txs'[t].refused = txs[t].refused /\ txs'[t].todo = {}
      BY <1>1, <1>3, <1>5 DEF Put, OpStart, Issued, PutRecorded, TxFields
  <2>2. micro' = micro /\ waiting' = waiting \cup {[task |-> Task(t, "answer"), ids |-> {ops + 1}]}
      BY <1>5 DEF Put
  <2>3. \E w : w \notin Waits(t) /\ w.task.what = "answer" /\ Waits(t)' = Waits(t) \cup {w}
    <3>1. PICK ids : ids = {ops + 1}
        OBVIOUS
    <3>2. ops + 1 \in ids /\ waiting' = waiting \cup {[task |-> Task(t, "answer"), ids |-> ids]}
        BY <2>2, <3>1
    <3> QED BY <3>2, NewWait
  <2> QED BY <1>2, <2>1, <2>2, <2>3, StoredBooked
<1>6. CASE Erase(t)
  <2>1. PICK found : /\ txs' = [txs EXCEPT ![t] = [OpStart(Issued(@)) EXCEPT !.todo = found]]
                     /\ IF found = {} THEN Queue(Task(t, "answer")) ELSE UNCHANGED micro
      BY <1>6 DEF Erase
  <2>2. /\ txs'[t].at = "issuing" /\ txs'[t].prog = txs[t].prog /\ txs'[t].next = txs[t].next + 1
        /\ txs'[t].seen = txs[t].seen /\ txs'[t].pending = txs[t].pending + 1 /\ txs'[t].hadOp
        /\ txs'[t].completed = txs[t].completed /\ txs'[t].error = txs[t].error
        /\ txs'[t].refused = txs[t].refused /\ txs'[t].todo = found
      BY <1>1, <1>3, <2>1 DEF OpStart, Issued, TxFields
  <2>3. Waits(t)' = Waits(t)
      BY <1>6 DEF Erase, StoreQuiet, Waits
  <2>4. IF found = {} THEN micro' = Append(micro, Task(t, "answer")) ELSE micro' = micro
      BY <2>1 DEF Queue
  <2> QED BY <1>2, <2>2, <2>3, <2>4, StoredBooked
<1> QED BY <1>4, <1>5, <1>6

\* A put of a value that has no JSON calls back without having been pending.
LEMMA PutBadBooked ==
    ASSUME StorageShape, WaitIds, NEW t \in Txs, Booked(t), PutBad(t)
    PROVE  Booked(t)'
<1>1. DOMAIN txs = Txs /\ DOMAIN txs[t] = TxFields
    BY DEF StorageShape, ShimShape, TxShape
<1>2. Issuing(t, {"putBad"})
    BY DEF PutBad
<1>3. /\ Book(t) /\ txs[t].at = "issuing" /\ txs[t].todo = {} /\ txs[t].next <= Len(txs[t].prog)
      /\ ~txs[t].completed /\ Queued(micro, t, "complete") = 0 /\ Request(t).do = "putBad"
    BY <1>2, IssueFacts
<1>4. /\ micro \in Seq(TaskSet) /\ Aliens(micro, t, BookKinds) = 0
      /\ txs[t].pending \in Nat /\ txs[t].seen \in Nat /\ txs[t].next \in Nat
      /\ Len(txs[t].prog) \in Nat /\ Cardinality(Waits(t)) \in Nat
      /\ Queued(micro, t, "answer") \in Nat /\ Queued(micro, t, "callback") \in Nat
      /\ Refusals(micro, t, "callback") \in Nat
    BY <1>3, BookNumbers
<1>5. /\ txs'[t].at = "issuing" /\ txs'[t].prog = txs[t].prog /\ txs'[t].next = txs[t].next + 1
      /\ txs'[t].seen = txs[t].seen /\ txs'[t].pending = txs[t].pending /\ txs'[t].hadOp = txs[t].hadOp
      /\ txs'[t].completed = txs[t].completed /\ txs'[t].error = txs[t].error
      /\ txs'[t].refused /\ txs'[t].todo = {}
    BY <1>1, <1>3 DEF PutBad, Issued, TxFields
<1>6. Waits(t)' = Waits(t)
    BY DEF PutBad, StoreQuiet, Waits
<1>7. PICK e : e = [Task(t, "callback") EXCEPT !.ok = FALSE]
    OBVIOUS
<1>8. e \in TaskOf(t) /\ e \in TaskSet /\ e.what = "callback" /\ ~e.ok /\ micro' = Append(micro, e)
    BY <1>7, TxTasks DEF Task, TaskOf, PutBad, Queue
<1>9. /\ Queued(micro', t, "answer") = Queued(micro, t, "answer") + 0
      /\ Queued(micro', t, "callback") = Queued(micro, t, "callback") + 1
      /\ Queued(micro', t, "complete") = Queued(micro, t, "complete") + 0
      /\ Refusals(micro', t, "callback") = Refusals(micro, t, "callback") + 1
      /\ Aliens(micro', t, BookKinds) = Aliens(micro, t, BookKinds) + 0
    BY <1>4, <1>8, Enqueues DEF BookKinds
<1>10. CompleteIsLast(micro', t)
    BY <1>3, <1>4, <1>8, LastAppend DEF Book
<1>11. Book(t)'
  <2>1. txs'[t].pending = Queued(micro', t, "answer") + Cardinality(Waits(t)')
                        + (IF txs'[t].todo = {} THEN 0 ELSE 1)
      BY <1>3, <1>4, <1>5, <1>6, <1>9 DEF Book
  <2>2. txs'[t].next = 1 + txs'[t].seen + Queued(micro', t, "callback") + txs'[t].pending
        /\ txs'[t].next <= Len(txs'[t].prog) + 1
    <3>1. txs[t].next = 1 + txs[t].seen + Queued(micro, t, "callback") + txs[t].pending
        BY <1>3 DEF Book
    <3>2. txs'[t].next = 1 + txs'[t].seen + Queued(micro', t, "callback") + txs'[t].pending
      <4>1. PICK n, s, c, m : /\ n = txs[t].next /\ s = txs[t].seen /\ m = txs[t].pending
                              /\ c = Queued(micro, t, "callback")
          OBVIOUS
      <4>2. n \in Nat /\ s \in Nat /\ c \in Nat /\ m \in Nat /\ n = 1 + s + c + m
          BY <1>4, <3>1, <4>1
      <4>3. n + 1 = 1 + s + (c + 1) + m
          BY <4>2
      <4> QED BY <1>5, <1>9, <4>1, <4>3
    <3>3. txs'[t].next <= Len(txs'[t].prog) + 1
        BY <1>3, <1>4, <1>5
    <3> QED BY <3>2, <3>3
  <2>3. txs'[t].prog \in Programs /\ Refusals(micro', t, "callback") > 0
        /\ Aliens(micro', t, BookKinds) = 0 /\ Queued(micro', t, "complete") = 0
      BY <1>3, <1>4, <1>5, <1>9 DEF Book
  <2>4. \A j \in 1 .. (txs'[t].next - 1) :
            txs'[t].prog[j].do \notin {"getAllKeys", "putBad"} => txs'[t].pending > 0
    <3> SUFFICES ASSUME NEW j \in 1 .. txs[t].next, txs[t].prog[j].do \notin {"getAllKeys", "putBad"}
                 PROVE  txs[t].pending > 0
        BY <1>4, <1>5
    <3>1. j # txs[t].next
        BY <1>3 DEF Request
    <3>2. j \in 1 .. (txs[t].next - 1)
        BY <1>4, <3>1
    <3> QED BY <1>3, <3>2 DEF Book
  <2>5. \A w \in Waits(t)' : w.task.what = "answer"
      BY <1>3, <1>6 DEF Book
  <2>6. ~txs'[t].hadOp => txs'[t].pending = 0
      BY <1>3, <1>5 DEF Book
  <2> QED BY <1>3, <1>5, <1>10, <2>1, <2>2, <2>3, <2>4, <2>5, <2>6 DEF Book, BookKinds
<1>12. Phase(t)'
    BY <1>5 DEF Phase, Active, Free
<1> QED BY <1>11, <1>12 DEF Booked

\* A completion that is queued adds itself to the tasks, and comes last.
LEMMA Completes ==
    ASSUME NEW t \in Txs, NEW m \in Seq(TaskSet), NEW n, CompleteIsLast(m, t),
           n = m \/ (n = Append(m, Task(t, "complete")) /\ Queued(m, t, "complete") = 0)
    PROVE  /\ n \in Seq(TaskSet)
           /\ \A k : k # "complete" => /\ Queued(n, t, k) = Queued(m, t, k)
                                       /\ Refusals(n, t, k) = Refusals(m, t, k)
           /\ Queued(n, t, "complete") = 0 \/ n # m \/ Queued(m, t, "complete") # 0
           /\ Aliens(n, t, BookKinds) = Aliens(m, t, BookKinds)
           /\ CompleteIsLast(n, t)
<1>0. \A k : Queued(m, t, k) \in Nat /\ Refusals(m, t, k) \in Nat
      /\ Aliens(m, t, BookKinds) \in Nat
    BY CountTypes
<1>1. CASE n = m
    BY <1>0, <1>1
<1>2. CASE n # m
  <2>1. PICK e : e = Task(t, "complete")
      OBVIOUS
  <2>2. /\ e \in TaskOf(t) /\ e \in TaskSet /\ e.what = "complete" /\ n = Append(m, e)
        /\ Queued(m, t, "complete") = 0 /\ "complete" \in BookKinds
      BY <1>2, <2>1, TxTasks DEF Task, TaskOf, BookKinds
  <2>3. \A k : /\ Queued(Append(m, e), t, k) = Queued(m, t, k) + (IF e.what = k THEN 1 ELSE 0)
               /\ Refusals(Append(m, e), t, k)
                      = Refusals(m, t, k) + (IF e.what = k /\ ~e.ok THEN 1 ELSE 0)
      BY <2>2, Enqueues
  <2>4. Append(m, e) \in Seq(TaskSet)
        /\ Aliens(Append(m, e), t, BookKinds)
              = Aliens(m, t, BookKinds) + (IF e.what \notin BookKinds THEN 1 ELSE 0)
      BY <2>2, Enqueues
  <2>5. CompleteIsLast(Append(m, e), t)
      BY <2>2, LastAppend
  <2> QED BY <1>0, <1>2, <2>2, <2>3, <2>4, <2>5
<1> QED BY <1>1, <1>2

\* getAllKeys ends its operation in the call; it may end the transaction only as
\* its last request.
LEMMA ReadKeysBooked ==
    ASSUME KeysEndNothing, StorageShape, WaitIds, NEW t \in Txs, Booked(t), ReadKeys(t)
    PROVE  Booked(t)'
<1>1. DOMAIN txs = Txs /\ DOMAIN txs[t] = TxFields
    BY DEF StorageShape, ShimShape, TxShape
<1>2. Issuing(t, {"getAllKeys"})
    BY DEF ReadKeys
<1>3. /\ Book(t) /\ txs[t].at = "issuing" /\ txs[t].todo = {} /\ txs[t].next <= Len(txs[t].prog)
      /\ ~txs[t].completed /\ Queued(micro, t, "complete") = 0 /\ Request(t).do = "getAllKeys"
    BY <1>2, IssueFacts
<1>4. /\ micro \in Seq(TaskSet) /\ Aliens(micro, t, BookKinds) = 0
      /\ txs[t].pending \in Nat /\ txs[t].seen \in Nat /\ txs[t].next \in Nat
      /\ Len(txs[t].prog) \in Nat /\ Cardinality(Waits(t)) \in Nat
      /\ Queued(micro, t, "answer") \in Nat /\ Queued(micro, t, "callback") \in Nat
      /\ Refusals(micro, t, "callback") \in Nat
    BY <1>3, BookNumbers
<1>5. PICK b \in BOOLEAN : b <=> txs[t].pending = 0
    OBVIOUS
<1>6. /\ txs'[t].at = "issuing" /\ txs'[t].prog = txs[t].prog /\ txs'[t].next = txs[t].next + 1
      /\ txs'[t].seen = txs[t].seen /\ txs'[t].pending = txs[t].pending /\ txs'[t].hadOp
      /\ txs'[t].completed <=> b
      /\ txs'[t].error = txs[t].error /\ txs'[t].refused = txs[t].refused /\ txs'[t].todo = {}
    BY <1>1, <1>3, <1>5 DEF ReadKeys, Issued, Ends, TxFields
<1>7. Waits(t)' = Waits(t)
    BY DEF ReadKeys, StoreQuiet, Waits
<1>8. PICK e : e = Task(t, "callback")
    OBVIOUS
<1>9. e \in TaskOf(t) /\ e \in TaskSet /\ e.what = "callback" /\ e.ok
    BY <1>8, TxTasks DEF Task, TaskOf
<1>10. PICK m : m = Append(micro, e)
    OBVIOUS
<1>11. /\ m \in Seq(TaskSet)
       /\ Queued(m, t, "answer") = Queued(micro, t, "answer") + 0
       /\ Queued(m, t, "callback") = Queued(micro, t, "callback") + 1
       /\ Queued(m, t, "complete") = Queued(micro, t, "complete") + 0
       /\ Refusals(m, t, "callback") = Refusals(micro, t, "callback") + 0
       /\ Aliens(m, t, BookKinds) = Aliens(micro, t, BookKinds) + 0
       /\ CompleteIsLast(m, t)
    BY <1>3, <1>4, <1>9, <1>10, Enqueues, LastAppend, SMTT(30) DEF BookKinds, Book
<1>12. micro' = IF b THEN Append(m, Task(t, "complete")) ELSE m
  <2>1. micro' = m \o (IF b THEN <<Task(t, "complete")>> ELSE <<>>)
      BY <1>3, <1>5, <1>8, <1>10 DEF ReadKeys, Completion, Ends
  <2> QED BY <1>11, <2>1, TxTasks, Behind DEF TaskOf
<1>13. /\ Queued(micro', t, "answer") = Queued(m, t, "answer")
       /\ Queued(micro', t, "callback") = Queued(m, t, "callback")
       /\ Refusals(micro', t, "callback") = Refusals(m, t, "callback")
       /\ Queued(micro', t, "complete") = 0 \/ b
       /\ Aliens(micro', t, BookKinds) = Aliens(m, t, BookKinds)
       /\ CompleteIsLast(micro', t)
  <2>1. m \in Seq(TaskSet) /\ CompleteIsLast(m, t) /\ Queued(m, t, "complete") = 0
      BY <1>3, <1>11
  <2>2. PICK n : n = micro'
      OBVIOUS
  <2>3. n = m \/ n = Append(m, Task(t, "complete"))
      BY <1>12, <2>2
  <2>4. /\ \A k : k # "complete" => /\ Queued(n, t, k) = Queued(m, t, k)
                                     /\ Refusals(n, t, k) = Refusals(m, t, k)
        /\ Queued(n, t, "complete") = 0 \/ n # m
        /\ Aliens(n, t, BookKinds) = Aliens(m, t, BookKinds)
        /\ CompleteIsLast(n, t)
      BY <2>1, <2>3, Completes
  <2> QED BY <1>12, <2>2, <2>4
<1>14. \A j \in 1 .. (txs[t].next - 1) :
           txs[t].prog[j].do \notin {"getAllKeys", "putBad"} => txs[t].pending > 0
    BY <1>3 DEF Book
<1>15. b => txs[t].next = Len(txs[t].prog)
  <2> SUFFICES ASSUME b, txs[t].next # Len(txs[t].prog) PROVE FALSE
      OBVIOUS
  <2>1. txs[t].prog \in Programs /\ txs[t].next \in DOMAIN txs[t].prog /\ txs[t].next < Len(txs[t].prog)
    <3>1. txs[t].prog \in Programs /\ txs[t].prog \in Seq(Op) /\ txs[t].next \in Nat \ {0}
        BY <1>3 DEF Book, StorageShape, ShimShape, TxShape
    <3> QED BY <1>3, <1>4, <3>1
  <2>2. PICK j \in 1 .. (txs[t].next - 1) : txs[t].prog[j].do \notin {"getAllKeys", "putBad"}
      BY <1>3, <2>1 DEF KeysEndNothing, Request
  <2> QED BY <1>5, <1>14, <2>2
<1>16. Book(t)'
  <2>1. txs'[t].pending = Queued(micro', t, "answer") + Cardinality(Waits(t)')
                        + (IF txs'[t].todo = {} THEN 0 ELSE 1)
      BY <1>3, <1>4, <1>6, <1>7, <1>11, <1>13 DEF Book
  <2>2. txs'[t].next = 1 + txs'[t].seen + Queued(micro', t, "callback") + txs'[t].pending
        /\ txs'[t].next <= Len(txs'[t].prog) + 1
    <3>1. txs[t].next = 1 + txs[t].seen + Queued(micro, t, "callback") + txs[t].pending
        BY <1>3 DEF Book
    <3>2. PICK n, s, c, p : /\ n = txs[t].next /\ s = txs[t].seen /\ p = txs[t].pending
                            /\ c = Queued(micro, t, "callback")
        OBVIOUS
    <3>3. n \in Nat /\ s \in Nat /\ c \in Nat /\ p \in Nat /\ n = 1 + s + c + p
        BY <1>4, <3>1, <3>2
    <3>4. n + 1 = 1 + s + (c + 1) + p
        BY <3>3
    <3>5. txs'[t].next <= Len(txs'[t].prog) + 1
        BY <1>3, <1>4, <1>6
    <3> QED BY <1>6, <1>11, <1>13, <3>2, <3>4, <3>5
  <2>3. /\ txs'[t].prog \in Programs
        /\ txs'[t].refused <=> txs'[t].error \/ Refusals(micro', t, "callback") > 0
        /\ Aliens(micro', t, BookKinds) = 0
        /\ Queued(micro', t, "complete") > 0 => txs'[t].completed
    <3>1. Aliens(micro', t, BookKinds) = 0
          /\ Refusals(micro', t, "callback") = Refusals(micro, t, "callback")
        BY <1>4, <1>11, <1>13
    <3>2. Queued(micro', t, "complete") > 0 => txs'[t].completed
        BY <1>3, <1>6, <1>11, <1>13
    <3>3. txs[t].prog \in Programs /\ (txs[t].refused <=> txs[t].error \/ Refusals(micro, t, "callback") > 0)
        BY <1>3 DEF Book
    <3> QED BY <1>6, <3>1, <3>2, <3>3
  <2>4. txs'[t].completed => txs'[t].pending = 0 /\ txs'[t].next > Len(txs'[t].prog)
      BY <1>4, <1>5, <1>6, <1>15
  <2>5. \A j \in 1 .. (txs'[t].next - 1) :
            txs'[t].prog[j].do \notin {"getAllKeys", "putBad"} => txs'[t].pending > 0
    <3> SUFFICES ASSUME NEW j \in 1 .. txs[t].next, txs[t].prog[j].do \notin {"getAllKeys", "putBad"}
                 PROVE  txs[t].pending > 0
        BY <1>4, <1>6
    <3>1. j # txs[t].next
        BY <1>3 DEF Request
    <3>2. j \in 1 .. (txs[t].next - 1)
        BY <1>4, <3>1
    <3> QED BY <1>14, <3>2
  <2>6. \A w \in Waits(t)' : w.task.what = "answer"
      BY <1>3, <1>7 DEF Book
  <2> QED BY <1>6, <1>13, <2>1, <2>2, <2>3, <2>4, <2>5, <2>6 DEF Book, BookKinds
<1>17. Phase(t)'
    BY <1>6 DEF Phase, Active, Free
<1> QED BY <1>16, <1>17 DEF Booked

\* What is left in the queue of an open transaction when one of its tasks has run.
LEMMA HeadTaken ==
    ASSUME NEW q \in Seq(TaskSet), NEW t, NEW kinds, q # <<>>, Head(q).who = t,
           Aliens(q, t, kinds) = 0, CompleteIsLast(q, t)
    PROVE  /\ Tail(q) \in Seq(TaskSet) /\ Aliens(Tail(q), t, kinds) = 0
           /\ CompleteIsLast(Tail(q), t)
           /\ Head(q).what = "complete" => All(Tail(q), t) = 0
           /\ Head(q).ok \in BOOLEAN /\ Head(q) \in TaskOf(t)
<1>1. Tail(q) \in Seq(TaskSet) /\ Head(q) \in TaskOf(t) /\ Head(q).ok \in BOOLEAN
    BY Dequeues
<1>2. Aliens(Tail(q), t, kinds)
             = Aliens(q, t, kinds) - (IF Head(q).what \notin kinds THEN 1 ELSE 0)
    BY Dequeues, SMTT(30)
<1>3. Aliens(Tail(q), t, kinds) \in Nat
    BY <1>1, CountTypes
<1>4. Aliens(Tail(q), t, kinds) = 0
    BY <1>2, <1>3
<1>5. /\ CompleteIsLast(Tail(q), t)
      /\ Head(q) \in TaskOf(t) /\ Head(q).what = "complete" => All(Tail(q), t) = 0
    BY LastTail
<1> QED BY <1>1, <1>4, <1>5

LEMMA TurnTaken ==
    ASSUME StorageShape, WaitIds, NEW t \in Txs, Book(t), NEW what, Turn(t, what)
    PROVE  /\ Tail(micro) \in Seq(TaskSet)
           /\ \A k : /\ Queued(Tail(micro), t, k) \in Nat /\ Refusals(Tail(micro), t, k) \in Nat
                     /\ Queued(Tail(micro), t, k)
                            = Queued(micro, t, k) - (IF what = k THEN 1 ELSE 0)
                     /\ Refusals(Tail(micro), t, k)
                            = Refusals(micro, t, k) - (IF what = k /\ ~Ok THEN 1 ELSE 0)
           /\ Aliens(Tail(micro), t, BookKinds) = 0
           /\ CompleteIsLast(Tail(micro), t)
           /\ what = "complete" => All(Tail(micro), t) = 0
           /\ Ok \in BOOLEAN /\ Head(micro) \in TaskOf(t)
<1>1. /\ micro \in Seq(TaskSet) /\ micro # <<>> /\ Head(micro).who = t /\ Head(micro).what = what
    BY DEF StorageShape, ShimShape, Turn
<1>2. Aliens(micro, t, BookKinds) = 0 /\ CompleteIsLast(micro, t)
    BY DEF Book, BookKinds
<1>3. PICK kinds : kinds = BookKinds
    OBVIOUS
<1>4. PICK q \in Seq(TaskSet) : q = micro
    BY <1>1
<1>5. q \in Seq(TaskSet) /\ q # <<>> /\ Head(q).who = t /\ Aliens(q, t, kinds) = 0 /\ CompleteIsLast(q, t)
    BY <1>1, <1>2, <1>3, <1>4
<1>6. /\ Tail(q) \in Seq(TaskSet) /\ Aliens(Tail(q), t, kinds) = 0
      /\ CompleteIsLast(Tail(q), t)
      /\ Head(q).what = "complete" => All(Tail(q), t) = 0
      /\ Head(q).ok \in BOOLEAN /\ Head(q) \in TaskOf(t)
    BY <1>5, HeadTaken
<1>7. ASSUME NEW k
      PROVE  /\ Queued(Tail(q), t, k) \in Nat /\ Refusals(Tail(q), t, k) \in Nat
             /\ Queued(Tail(q), t, k) = Queued(q, t, k) - (IF Head(q).what = k THEN 1 ELSE 0)
             /\ Refusals(Tail(q), t, k)
                    = Refusals(q, t, k) - (IF Head(q).what = k /\ ~Head(q).ok THEN 1 ELSE 0)
  <2>1. /\ Queued(Tail(q), t, k) = Queued(q, t, k) - (IF Head(q).what = k THEN 1 ELSE 0)
        /\ Refusals(Tail(q), t, k)
               = Refusals(q, t, k) - (IF Head(q).what = k /\ ~Head(q).ok THEN 1 ELSE 0)
      BY <1>5, DequeuesKind, ZenonT(60)
  <2>2. Queued(Tail(q), t, k) \in Nat /\ Refusals(Tail(q), t, k) \in Nat
      BY <1>6, CountTypes
  <2> QED BY <2>1, <2>2
<1> QED BY <1>1, <1>3, <1>4, <1>6, <1>7 DEF Ok

\* The turn in which the requests are issued ends, or a callback runs.
LEMMA EndTurnBooked ==
    ASSUME StorageShape, WaitIds, NEW t \in Txs, Booked(t), EndTurn(t)
    PROVE  Booked(t)'
<1>1. DOMAIN txs = Txs /\ DOMAIN txs[t] = TxFields
    BY DEF StorageShape, ShimShape, TxShape
<1>2. /\ Turn(t, "run") /\ txs[t].at = "issuing" /\ txs[t].todo = {}
      /\ txs[t].next > Len(txs[t].prog) /\ waiting' = waiting
    BY DEF EndTurn, StoreQuiet
<1>3. Book(t)
    BY <1>2 DEF Booked, Active
<1>4. /\ Tail(micro) \in Seq(TaskSet)
      /\ \A k : Queued(Tail(micro), t, k) = Queued(micro, t, k) - (IF "run" = k THEN 1 ELSE 0)
      /\ \A k : Refusals(Tail(micro), t, k)
                       = Refusals(micro, t, k) - (IF "run" = k /\ ~Ok THEN 1 ELSE 0)
      /\ Aliens(Tail(micro), t, BookKinds) = 0
      /\ CompleteIsLast(Tail(micro), t)
    BY <1>2, <1>3, TurnTaken
<1>5. micro' = Tail(micro)
  <2>1. micro' = Tail(micro) \o <<>>
      BY DEF EndTurn, Then
  <2> QED BY <1>4, <2>1, Behind
<1>6. /\ Queued(micro, t, "answer") \in Nat /\ Queued(micro, t, "callback") \in Nat
      /\ Queued(micro, t, "complete") \in Nat /\ Refusals(micro, t, "callback") \in Nat
    BY <1>3, BookNumbers
<1>7. /\ Queued(micro', t, "answer") = Queued(micro, t, "answer")
      /\ Queued(micro', t, "callback") = Queued(micro, t, "callback")
      /\ Queued(micro', t, "complete") = Queued(micro, t, "complete")
      /\ Refusals(micro', t, "callback") = Refusals(micro, t, "callback")
      /\ Aliens(micro', t, BookKinds) = 0 /\ CompleteIsLast(micro', t)
    BY <1>4, <1>5, <1>6
<1>8. /\ txs'[t].at = "running" /\ txs'[t].prog = txs[t].prog /\ txs'[t].next = txs[t].next
      /\ txs'[t].seen = txs[t].seen /\ txs'[t].pending = txs[t].pending /\ txs'[t].hadOp = txs[t].hadOp
      /\ txs'[t].completed = txs[t].completed /\ txs'[t].error = txs[t].error
      /\ txs'[t].refused = txs[t].refused /\ txs'[t].todo = txs[t].todo
    BY <1>1 DEF EndTurn, TxFields
<1>9. Waits(t)' = Waits(t)
    BY <1>2 DEF Waits
<1>10. Book(t)'
    BY <1>2, <1>3, <1>7, <1>8, <1>9 DEF Book, BookKinds
<1>11. Phase(t)'
    BY <1>8 DEF Phase, Active, Free
<1> QED BY <1>10, <1>11 DEF Booked

LEMMA CallbackBooked ==
    ASSUME StorageShape, WaitIds, NEW t \in Txs, Booked(t), OnCallback(t)
    PROVE  Booked(t)'
<1>1. DOMAIN txs = Txs /\ DOMAIN txs[t] = TxFields
    BY DEF StorageShape, ShimShape, TxShape
<1>2. Turn(t, "callback") /\ waiting' = waiting
    BY DEF OnCallback, StoreQuiet
<1>3. txs[t].at = "running" /\ Book(t)
  <2>1. txs[t].at = "running"
      BY <1>2, TurnSays
  <2> QED BY <2>1 DEF Booked, Active
<1>4. /\ Tail(micro) \in Seq(TaskSet)
      /\ \A k : Queued(Tail(micro), t, k) = Queued(micro, t, k) - (IF "callback" = k THEN 1 ELSE 0)
      /\ \A k : Refusals(Tail(micro), t, k)
                       = Refusals(micro, t, k) - (IF "callback" = k /\ ~Ok THEN 1 ELSE 0)
      /\ \A k : Queued(Tail(micro), t, k) \in Nat /\ Refusals(Tail(micro), t, k) \in Nat
      /\ Aliens(Tail(micro), t, BookKinds) = 0
      /\ CompleteIsLast(Tail(micro), t) /\ Ok \in BOOLEAN
    BY <1>2, <1>3, TurnTaken
<1>5. micro' = Tail(micro)
  <2>1. micro' = Tail(micro) \o <<>>
      BY DEF OnCallback, Then
  <2> QED BY <1>4, <2>1, Behind
<1>6. /\ Queued(micro, t, "answer") \in Nat /\ Queued(micro, t, "callback") \in Nat
      /\ Queued(micro, t, "complete") \in Nat /\ Refusals(micro, t, "callback") \in Nat
      /\ txs[t].pending \in Nat /\ txs[t].seen \in Nat /\ txs[t].next \in Nat
    BY <1>3, BookNumbers
<1>7. /\ Queued(micro', t, "answer") = Queued(micro, t, "answer")
      /\ Queued(micro', t, "callback") = Queued(micro, t, "callback") - 1
      /\ Queued(micro', t, "complete") = Queued(micro, t, "complete")
      /\ Refusals(micro', t, "callback") = Refusals(micro, t, "callback") - (IF ~Ok THEN 1 ELSE 0)
      /\ Refusals(micro', t, "callback") \in Nat
      /\ Aliens(micro', t, BookKinds) = 0 /\ CompleteIsLast(micro', t)
    BY <1>4, <1>5, <1>6, SMTT(30)
<1>8. /\ txs'[t].at = "running" /\ txs'[t].prog = txs[t].prog /\ txs'[t].next = txs[t].next
      /\ txs'[t].seen = txs[t].seen + 1 /\ txs'[t].pending = txs[t].pending /\ txs'[t].hadOp = txs[t].hadOp
      /\ txs'[t].completed = txs[t].completed /\ (txs'[t].error <=> txs[t].error \/ ~Ok)
      /\ txs'[t].refused = txs[t].refused /\ txs'[t].todo = txs[t].todo
    BY <1>1, <1>3 DEF OnCallback, TxFields
<1>9. Waits(t)' = Waits(t)
    BY <1>2 DEF Waits
<1>10. txs'[t].refused <=> txs'[t].error \/ Refusals(micro', t, "callback") > 0
  <2>1. txs[t].refused <=> txs[t].error \/ Refusals(micro, t, "callback") > 0
      BY <1>3 DEF Book
  <2>2. Refusals(micro, t, "callback") > 0 <=> ~Ok \/ Refusals(micro', t, "callback") > 0
      BY <1>6, <1>7
  <2> QED BY <1>8, <2>1, <2>2
<1>11. txs'[t].next = 1 + txs'[t].seen + Queued(micro', t, "callback") + txs'[t].pending
  <2>1. txs[t].next = 1 + txs[t].seen + Queued(micro, t, "callback") + txs[t].pending
      BY <1>3 DEF Book
  <2>2. PICK n, s, c, p : /\ n = txs[t].next /\ s = txs[t].seen /\ p = txs[t].pending
                          /\ c = Queued(micro, t, "callback")
      OBVIOUS
  <2>3. n \in Nat /\ s \in Nat /\ c \in Nat /\ p \in Nat /\ n = 1 + s + c + p
      BY <1>6, <2>1, <2>2
  <2>4. n = 1 + (s + 1) + (c - 1) + p
      BY <2>3
  <2> QED BY <1>7, <1>8, <2>2, <2>4
<1>12. Book(t)'
  <2>1. txs'[t].pending = Queued(micro', t, "answer") + Cardinality(Waits(t)')
                        + (IF txs'[t].todo = {} THEN 0 ELSE 1)
      BY <1>3, <1>7, <1>8, <1>9 DEF Book
  <2> QED BY <1>3, <1>7, <1>8, <1>9, <1>10, <1>11, <2>1 DEF Book, BookKinds
<1>13. Phase(t)'
    BY <1>8 DEF Phase, Active, Free
<1> QED BY <1>12, <1>13 DEF Booked

\* The tick ends a transaction that issued nothing.
LEMMA TickBooked ==
    ASSUME StorageShape, WaitIds, NEW t \in Txs, Booked(t), OnTick(t)
    PROVE  Booked(t)'
<1>1. DOMAIN txs = Txs /\ DOMAIN txs[t] = TxFields
    BY DEF StorageShape, ShimShape, TxShape
<1>2. Turn(t, "tick") /\ waiting' = waiting
    BY DEF OnTick, StoreQuiet
<1>3. txs[t].at = "running" /\ Book(t)
  <2>1. txs[t].at = "running"
      BY <1>2, TurnSays
  <2> QED BY <2>1 DEF Booked, Active
<1>4. /\ Tail(micro) \in Seq(TaskSet)
      /\ \A k : Queued(Tail(micro), t, k) = Queued(micro, t, k) - (IF "tick" = k THEN 1 ELSE 0)
      /\ \A k : Refusals(Tail(micro), t, k)
                       = Refusals(micro, t, k) - (IF "tick" = k /\ ~Ok THEN 1 ELSE 0)
      /\ Aliens(Tail(micro), t, BookKinds) = 0
      /\ CompleteIsLast(Tail(micro), t)
    BY <1>2, <1>3, TurnTaken
<1>5. PICK m : m = Tail(micro)
    OBVIOUS
<1>6. /\ Queued(micro, t, "answer") \in Nat /\ Queued(micro, t, "callback") \in Nat
      /\ Queued(micro, t, "complete") \in Nat /\ Refusals(micro, t, "callback") \in Nat
    BY <1>3, BookNumbers
<1>7. /\ m \in Seq(TaskSet)
      /\ Queued(m, t, "answer") = Queued(micro, t, "answer")
      /\ Queued(m, t, "callback") = Queued(micro, t, "callback")
      /\ Queued(m, t, "complete") = Queued(micro, t, "complete")
      /\ Refusals(m, t, "callback") = Refusals(micro, t, "callback")
      /\ Aliens(m, t, BookKinds) = 0 /\ CompleteIsLast(m, t)
    BY <1>4, <1>5, <1>6
<1>8. PICK b \in BOOLEAN : b <=> ~txs[t].hadOp /\ ~txs[t].completed
    OBVIOUS
<1>9. micro' = IF b THEN Append(m, Task(t, "complete")) ELSE m
  <2>1. micro' = m \o (IF b THEN <<Task(t, "complete")>> ELSE <<>>)
      BY <1>5, <1>8 DEF OnTick, Then, Completion, Ends
  <2> QED BY <1>7, <2>1, TxTasks, Behind DEF TaskOf
<1>10. ~txs[t].completed => Queued(m, t, "complete") = 0
    BY <1>3, <1>6, <1>7 DEF Book
<1>11. /\ Queued(micro', t, "answer") = Queued(m, t, "answer")
       /\ Queued(micro', t, "callback") = Queued(m, t, "callback")
       /\ Refusals(micro', t, "callback") = Refusals(m, t, "callback")
       /\ Queued(micro', t, "complete") = Queued(m, t, "complete") \/ b
       /\ Aliens(micro', t, BookKinds) = Aliens(m, t, BookKinds)
       /\ CompleteIsLast(micro', t)
  <2>1. PICK n : n = micro'
      OBVIOUS
  <2>2. n = m \/ (n = Append(m, Task(t, "complete")) /\ Queued(m, t, "complete") = 0)
      BY <1>8, <1>9, <1>10, <2>1
  <2>3. /\ \A k : k # "complete" => /\ Queued(n, t, k) = Queued(m, t, k)
                                     /\ Refusals(n, t, k) = Refusals(m, t, k)
        /\ Aliens(n, t, BookKinds) = Aliens(m, t, BookKinds)
        /\ CompleteIsLast(n, t)
      BY <1>7, <2>2, Completes
  <2>4. n = m \/ b
      BY <1>9, <2>1
  <2> QED BY <2>1, <2>3, <2>4
<1>12. /\ txs'[t].at = "running" /\ txs'[t].prog = txs[t].prog /\ txs'[t].next = txs[t].next
       /\ txs'[t].seen = txs[t].seen /\ txs'[t].pending = txs[t].pending /\ txs'[t].hadOp = txs[t].hadOp
       /\ (txs'[t].completed <=> txs[t].completed \/ ~txs[t].hadOp) /\ txs'[t].error = txs[t].error
       /\ txs'[t].refused = txs[t].refused /\ txs'[t].todo = txs[t].todo
    BY <1>1, <1>3 DEF OnTick, TxFields
<1>13. Waits(t)' = Waits(t)
    BY <1>2 DEF Waits
<1>14. Book(t)'
  <2>1. txs'[t].pending = Queued(micro', t, "answer") + Cardinality(Waits(t)')
                        + (IF txs'[t].todo = {} THEN 0 ELSE 1)
      BY <1>3, <1>7, <1>11, <1>12, <1>13 DEF Book
  <2>2. txs'[t].completed => txs'[t].pending = 0 /\ txs'[t].next > Len(txs'[t].prog)
      BY <1>3, <1>12 DEF Book
  <2>3. Queued(micro', t, "complete") > 0 => txs'[t].completed
      BY <1>3, <1>7, <1>8, <1>11, <1>12 DEF Book
  <2>4. /\ txs'[t].prog \in Programs /\ txs'[t].next <= Len(txs'[t].prog) + 1
        /\ txs'[t].next = 1 + txs'[t].seen + Queued(micro', t, "callback") + txs'[t].pending
        /\ txs'[t].refused <=> txs'[t].error \/ Refusals(micro', t, "callback") > 0
        /\ Aliens(micro', t, BookKinds) = 0
        /\ \A w \in Waits(t)' : w.task.what = "answer"
        /\ txs'[t].next > Len(txs'[t].prog) /\ txs'[t].todo = {}
        /\ ~txs'[t].hadOp => txs'[t].pending = 0
      BY <1>3, <1>7, <1>11, <1>12, <1>13 DEF Book
  <2> QED BY <1>11, <1>12, <2>1, <2>2, <2>3, <2>4 DEF Book, BookKinds
<1>15. Phase(t)'
    BY <1>12 DEF Phase, Active, Free
<1> QED BY <1>14, <1>15 DEF Booked

\* The store's answer to a request becomes its callback, and behind the last of
\* the answers comes the completion.
LEMMA AnswerBooked ==
    ASSUME StorageShape, WaitIds, NEW t \in Txs, Booked(t), OnAnswer(t)
    PROVE  Booked(t)'
<1>1. DOMAIN txs = Txs /\ DOMAIN txs[t] = TxFields
    BY DEF StorageShape, ShimShape, TxShape
<1>2. Turn(t, "answer") /\ waiting' = waiting
    BY DEF OnAnswer, StoreQuiet
<1>3. txs[t].at = "running" /\ Book(t)
  <2>1. txs[t].at = "running"
      BY <1>2, TurnSays
  <2> QED BY <2>1 DEF Booked, Active
<1>4. /\ Tail(micro) \in Seq(TaskSet)
      /\ \A k : Queued(Tail(micro), t, k) = Queued(micro, t, k) - (IF "answer" = k THEN 1 ELSE 0)
      /\ \A k : Refusals(Tail(micro), t, k)
                       = Refusals(micro, t, k) - (IF "answer" = k /\ ~Ok THEN 1 ELSE 0)
      /\ \A k : Queued(Tail(micro), t, k) \in Nat
      /\ Aliens(Tail(micro), t, BookKinds) = 0
      /\ CompleteIsLast(Tail(micro), t) /\ Ok \in BOOLEAN
    BY <1>2, <1>3, TurnTaken
<1>5. PICK l : l = Tail(micro)
    OBVIOUS
<1>6. /\ Queued(micro, t, "answer") \in Nat /\ Queued(micro, t, "callback") \in Nat
      /\ Queued(micro, t, "complete") \in Nat /\ Refusals(micro, t, "callback") \in Nat
      /\ txs[t].pending \in Nat /\ txs[t].seen \in Nat /\ txs[t].next \in Nat
      /\ Cardinality(Waits(t)) \in Nat
      /\ txs[t].pending = 0 => Queued(micro, t, "answer") = 0
    BY <1>3, BookNumbers
<1>7. /\ l \in Seq(TaskSet)
      /\ Queued(l, t, "answer") = Queued(micro, t, "answer") - 1 /\ Queued(l, t, "answer") \in Nat
      /\ Queued(l, t, "callback") = Queued(micro, t, "callback")
      /\ Queued(l, t, "complete") = Queued(micro, t, "complete")
      /\ Refusals(l, t, "callback") = Refusals(micro, t, "callback")
      /\ Aliens(l, t, BookKinds) = 0 /\ CompleteIsLast(l, t)
    BY <1>4, <1>5, <1>6, SMTT(30)
<1>8. txs[t].pending > 0 /\ ~txs[t].completed /\ Queued(l, t, "complete") = 0
  <2>1. txs[t].pending > 0
      BY <1>6, <1>7
  <2>2. ~txs[t].completed
      BY <1>3, <1>6, <2>1 DEF Book
  <2> QED BY <1>3, <1>6, <1>7, <2>1, <2>2 DEF Book
<1>9. PICK b \in BOOLEAN : b <=> txs[t].pending - 1 = 0
    OBVIOUS
<1>10. PICK e : e = [Head(micro) EXCEPT !.what = "callback"]
    OBVIOUS
<1>11. e \in TaskOf(t) /\ e \in TaskSet /\ e.what = "callback" /\ e.ok = Ok
  <2>1. Head(micro) \in TaskSet /\ micro # <<>> /\ Head(micro).who = t
      BY <1>2, HeadIsTask DEF Turn
  <2>2. "callback" \in TxKinds \cup CallKinds
      BY DEF TxKinds
  <2>3. e \in TaskOf(t)
      BY <1>10, <2>1, <2>2, HeadTask
  <2> QED BY <1>10, <2>1, <2>3 DEF TaskOf, TaskSet, Ok
<1>12. PICK m : m = Append(l, e)
    OBVIOUS
<1>13. micro' = IF b THEN Append(m, Task(t, "complete")) ELSE m
  <2>1. micro' = l \o (<<e>> \o (IF b THEN <<Task(t, "complete")>> ELSE <<>>))
      BY <1>5, <1>8, <1>9, <1>10 DEF OnAnswer, Then, Completion, Ends
  <2>2. /\ l \o (<<e>> \o <<>>) = Append(l, e)
        /\ l \o (<<e>> \o <<Task(t, "complete")>>) = Append(Append(l, e), Task(t, "complete"))
      BY <1>7, <1>11, TxTasks, Behind DEF TaskOf
  <2> QED BY <1>12, <2>1, <2>2
<1>14. /\ m \in Seq(TaskSet)
       /\ Queued(m, t, "answer") = Queued(l, t, "answer")
       /\ Queued(m, t, "callback") = Queued(l, t, "callback") + 1
       /\ Queued(m, t, "complete") = 0
       /\ Refusals(m, t, "callback") = Refusals(l, t, "callback") + (IF ~Ok THEN 1 ELSE 0)
       /\ Aliens(m, t, BookKinds) = 0
       /\ CompleteIsLast(m, t)
  <2>1. /\ m \in Seq(TaskSet)
        /\ Queued(m, t, "answer") = Queued(l, t, "answer") + 0
        /\ Queued(m, t, "callback") = Queued(l, t, "callback") + 1
        /\ Queued(m, t, "complete") = Queued(l, t, "complete") + 0
        /\ Refusals(m, t, "callback") = Refusals(l, t, "callback") + (IF ~e.ok THEN 1 ELSE 0)
        /\ Aliens(m, t, BookKinds) = Aliens(l, t, BookKinds) + 0
      BY <1>7, <1>11, <1>12, Enqueues DEF BookKinds
  <2>2. CompleteIsLast(m, t)
      BY <1>7, <1>8, <1>11, <1>12, LastAppend
  <2> QED BY <1>7, <1>8, <1>11, <2>1, <2>2
<1>15. /\ Queued(micro', t, "answer") = Queued(m, t, "answer")
       /\ Queued(micro', t, "callback") = Queued(m, t, "callback")
       /\ Refusals(micro', t, "callback") = Refusals(m, t, "callback")
       /\ Queued(micro', t, "complete") = 0 \/ b
       /\ Aliens(micro', t, BookKinds) = 0
       /\ CompleteIsLast(micro', t)
  <2>1. PICK n : n = micro'
      OBVIOUS
  <2>2. n = m \/ (n = Append(m, Task(t, "complete")) /\ Queued(m, t, "complete") = 0)
      BY <1>9, <1>13, <1>14, <2>1
  <2>3. /\ \A k : k # "complete" => /\ Queued(n, t, k) = Queued(m, t, k)
                                     /\ Refusals(n, t, k) = Refusals(m, t, k)
        /\ Aliens(n, t, BookKinds) = Aliens(m, t, BookKinds)
        /\ CompleteIsLast(n, t)
      BY <1>14, <2>2, Completes
  <2>4. n = m \/ b
      BY <1>9, <1>13, <2>1
  <2> QED BY <1>14, <2>1, <2>3, <2>4
<1>16. /\ txs'[t].at = "running" /\ txs'[t].prog = txs[t].prog /\ txs'[t].next = txs[t].next
       /\ txs'[t].seen = txs[t].seen /\ txs'[t].pending = txs[t].pending - 1 /\ txs'[t].hadOp = txs[t].hadOp
       /\ (txs'[t].completed <=> b) /\ txs'[t].error = txs[t].error
       /\ (txs'[t].refused <=> txs[t].refused \/ ~Ok) /\ txs'[t].todo = txs[t].todo
    BY <1>1, <1>3, <1>8, <1>9 DEF OnAnswer, Ends, TxFields
<1>17. Waits(t)' = Waits(t)
    BY <1>2 DEF Waits
<1>18. Refusals(micro', t, "callback") = Refusals(micro, t, "callback") + (IF ~Ok THEN 1 ELSE 0)
       /\ Queued(micro', t, "callback") = Queued(micro, t, "callback") + 1
       /\ Queued(micro', t, "answer") = Queued(micro, t, "answer") - 1
    BY <1>7, <1>14, <1>15
<1>19. txs'[t].refused <=> txs'[t].error \/ Refusals(micro', t, "callback") > 0
  <2>1. txs[t].refused <=> txs[t].error \/ Refusals(micro, t, "callback") > 0
      BY <1>3 DEF Book
  <2>2. Refusals(micro', t, "callback") > 0 <=> ~Ok \/ Refusals(micro, t, "callback") > 0
      BY <1>6, <1>18
  <2> QED BY <1>16, <2>1, <2>2
<1>20. txs'[t].next = 1 + txs'[t].seen + Queued(micro', t, "callback") + txs'[t].pending
  <2>1. txs[t].next = 1 + txs[t].seen + Queued(micro, t, "callback") + txs[t].pending
      BY <1>3 DEF Book
  <2>2. PICK n, s, c, p : /\ n = txs[t].next /\ s = txs[t].seen /\ p = txs[t].pending
                          /\ c = Queued(micro, t, "callback")
      OBVIOUS
  <2>3. n \in Nat /\ s \in Nat /\ c \in Nat /\ p \in Nat /\ n = 1 + s + c + p
      BY <1>6, <2>1, <2>2
  <2>4. n = 1 + s + (c + 1) + (p - 1)
      BY <2>3
  <2> QED BY <1>16, <1>18, <2>2, <2>4
<1>21. txs'[t].pending = Queued(micro', t, "answer") + Cardinality(Waits(t)')
                       + (IF txs'[t].todo = {} THEN 0 ELSE 1)
  <2>1. txs[t].todo = {}
      BY <1>3 DEF Book
  <2>2. txs[t].pending = Queued(micro, t, "answer") + Cardinality(Waits(t)) + 0
      BY <1>3, <2>1 DEF Book
  <2>3. txs[t].pending - 1 = (Queued(micro, t, "answer") - 1) + Cardinality(Waits(t)) + 0
      BY <1>6, <2>2
  <2> QED BY <1>16, <1>17, <1>18, <2>1, <2>3
<1>22. Book(t)'
  <2>1. /\ txs'[t].prog \in Programs /\ txs'[t].next <= Len(txs'[t].prog) + 1
        /\ txs'[t].next > Len(txs'[t].prog) /\ txs'[t].todo = {}
        /\ \A w \in Waits(t)' : w.task.what = "answer"
      BY <1>3, <1>16, <1>17 DEF Book
  <2>2. txs'[t].completed => txs'[t].pending = 0
      BY <1>9, <1>16
  <2>3. txs'[t].hadOp
      BY <1>3, <1>8, <1>16 DEF Book
  <2>4. Queued(micro', t, "complete") > 0 => txs'[t].completed
      BY <1>15, <1>16
  <2> QED BY <1>15, <1>16, <1>19, <1>20, <1>21, <2>1, <2>2, <2>3, <2>4 DEF Book, BookKinds
<1>23. Phase(t)'
    BY <1>16 DEF Phase, Active, Free
<1> QED BY <1>22, <1>23 DEF Booked

\* A call that is over has nothing left behind it.
LEMMA DoneBooked ==
    ASSUME NEW t \in Txs, micro' \in Seq(TaskSet), All(micro', t) = 0,
           Waits(t) = {}, waiting' = waiting,
           txs'[t].at = "done", txs'[t].puts = {}, txs'[t].pending = 0,
           txs'[t].seen = Len(txs'[t].prog), txs'[t].settled = "rejected" <=> txs'[t].refused
    PROVE  Booked(t)'
<1>1. Waits(t)' = {} /\ Cardinality(Waits(t)') = 0
    BY FS_EmptySet DEF Waits
<1>2. Aliens(micro', t, {}) = 0
  <2>1. PICK W : W = {}
      OBVIOUS
  <2>2. PICK q \in Seq(TaskSet) : q = micro'
      OBVIOUS
  <2>3. Aliens(q, t, W) \in Nat /\ Aliens(q, t, W) <= All(q, t)
      BY <2>2, CountTypes
  <2> QED BY <2>1, <2>2, <2>3
<1>3. Alone(t, 0, {})'
    BY <1>1, <1>2 DEF Alone
<1> QED BY <1>3 DEF Booked, Phase, Active, Free

LEMMA CompleteBooked ==
    ASSUME StorageShape, WaitIds, NEW t \in Txs, Booked(t), OnComplete(t)
    PROVE  Booked(t)'
<1>1. DOMAIN txs = Txs /\ DOMAIN txs[t] = TxFields
    BY DEF StorageShape, ShimShape, TxShape
<1>2. Turn(t, "complete") /\ waiting' = waiting
    BY DEF OnComplete, StoreQuiet
<1>3. /\ txs'[t].at = "done" /\ txs'[t].puts = {} /\ txs'[t].pending = txs[t].pending
      /\ txs'[t].seen = txs[t].seen /\ txs'[t].prog = txs[t].prog /\ txs'[t].refused = txs[t].refused
      /\ txs'[t].settled = IF txs[t].error THEN "rejected" ELSE "resolved"
    BY <1>1 DEF OnComplete, TxFields
<1>4. /\ micro \in Seq(TaskSet) /\ micro # <<>> /\ Head(micro).who = t
      /\ txs[t].at \in {"running", "dropping"}
      /\ txs[t].at \notin Active => All(micro, t) = 1 /\ Waits(t) = {}
    BY <1>2, TurnSays
<1>5. Tail(micro) \in Seq(TaskSet) /\ micro' = Tail(micro)
  <2>1. micro' = Tail(micro) \o <<>> /\ Tail(micro) \in Seq(TaskSet)
      BY <1>4 DEF OnComplete, Then
  <2> QED BY <2>1, Behind
<1>6. CASE txs[t].at = "running"
  <2>1. Book(t)
      BY <1>6 DEF Booked, Active
  <2>2. /\ All(Tail(micro), t) = 0
        /\ Queued(Tail(micro), t, "callback") = Queued(micro, t, "callback") - 0
        /\ Queued(Tail(micro), t, "complete") = Queued(micro, t, "complete") - 1
        /\ Queued(Tail(micro), t, "complete") \in Nat
      BY <1>2, <2>1, TurnTaken
  <2>3. /\ txs[t].pending \in Nat /\ txs[t].seen \in Nat /\ txs[t].next \in Nat
        /\ Len(txs[t].prog) \in Nat
        /\ Queued(micro, t, "callback") \in Nat /\ Queued(micro, t, "complete") \in Nat
        /\ Refusals(micro, t, "callback") \in Nat
        /\ Refusals(micro, t, "callback") <= Queued(micro, t, "callback")
        /\ txs[t].pending = 0 => Waits(t) = {}
      BY <2>1, BookNumbers
  <2>4. Queued(micro, t, "callback") = 0
    <3>1. Queued(Tail(micro), t, "callback") \in Nat /\ Queued(Tail(micro), t, "callback") <= 0
        BY <1>5, <2>2, CountTypes
    <3> QED BY <2>2, <2>3, <3>1
  <2>5. txs[t].pending = 0 /\ txs[t].next > Len(txs[t].prog)
    <3>1. txs[t].completed
        BY <2>1, <2>2, <2>3 DEF Book
    <3> QED BY <2>1, <3>1 DEF Book
  <2>6. txs[t].seen = Len(txs[t].prog)
    <3>1. txs[t].next = 1 + txs[t].seen + Queued(micro, t, "callback") + txs[t].pending
          /\ txs[t].next <= Len(txs[t].prog) + 1
        BY <2>1 DEF Book
    <3>2. txs[t].next = 1 + txs[t].seen
        BY <2>3, <2>4, <2>5, <3>1
    <3> QED BY <2>3, <2>5, <3>1, <3>2
  <2>7. txs[t].refused <=> txs[t].error
    <3>1. ~(Refusals(micro, t, "callback") > 0)
        BY <2>3, <2>4
    <3> QED BY <2>1, <3>1 DEF Book
  <2> QED BY <1>2, <1>3, <1>5, <2>2, <2>3, <2>5, <2>6, <2>7, DoneBooked
<1>7. CASE txs[t].at = "dropping"
  <2>1. All(micro, t) = 1 /\ Waits(t) = {}
      BY <1>4, <1>7 DEF Active
  <2>2. All(Tail(micro), t) = 0
      BY <1>4, <2>1, Dequeues
  <2>3. /\ txs[t].prog = <<>> /\ txs[t].seen = 0 /\ txs[t].pending = 0
        /\ txs[t].refused <=> txs[t].error
      BY <1>7 DEF Booked, Phase
  <2>4. Len(<<>>) = 0
      OBVIOUS
  <2> QED BY <1>2, <1>3, <1>5, <2>1, <2>2, <2>3, <2>4, DoneBooked
<1> QED BY <1>4, <1>6, <1>7

\* A database whose keys are deleted is told so.
LEMMA DroppedBooked ==
    ASSUME StorageShape, WaitIds, NEW t \in Txs, Booked(t), OnDropped(t)
    PROVE  Booked(t)'
<1>1. DOMAIN txs = Txs /\ DOMAIN txs[t] = TxFields
    BY DEF StorageShape, ShimShape, TxShape
<1>2. Turn(t, "dropped") /\ waiting' = waiting
    BY DEF OnDropped, StoreQuiet
<1>3. /\ micro \in Seq(TaskSet) /\ micro # <<>> /\ Head(micro).who = t /\ Head(micro) \in TaskSet
      /\ txs[t].at = "dropping"
    BY <1>2, TurnSays, HeadIsTask
<1>4. All(micro, t) = 1 /\ Waits(t) = {}
    BY <1>2, <1>3, TurnSays DEF Active
<1>5. /\ txs'[t].at = "dropping" /\ txs'[t].puts = txs[t].puts /\ txs'[t].pending = txs[t].pending
      /\ txs'[t].seen = txs[t].seen /\ txs'[t].prog = txs[t].prog
      /\ txs'[t].refused = ~Ok /\ txs'[t].error = ~Ok
    BY <1>1, <1>3 DEF OnDropped, TxFields
<1>6. PICK e : e = [Head(micro) EXCEPT !.what = "complete"]
    OBVIOUS
<1>7. e \in TaskOf(t) /\ e \in TaskSet /\ e.what = "complete"
  <2>1. "complete" \in TxKinds \cup CallKinds
      BY DEF TxKinds
  <2>2. e \in TaskOf(t)
      BY <1>3, <1>6, <2>1, HeadTask
  <2> QED BY <1>3, <1>6, <2>2 DEF TaskOf, TaskSet
<1>8. PICK m : m = Tail(micro)
    OBVIOUS
<1>9. m \in Seq(TaskSet) /\ All(m, t) = 0
  <2>1. m \in Seq(TaskSet) /\ All(m, t) = All(micro, t) - 1
      BY <1>3, <1>8, Dequeues
  <2> QED BY <1>4, <2>1
<1>10. micro' = Append(m, e)
  <2>1. micro' = m \o <<e>>
      BY <1>6, <1>8 DEF OnDropped, Then
  <2> QED BY <1>7, <1>9, <2>1, Behind
<1>11. Alone(t, 1, {"drop", "dropped", "complete"})'
  <2>1. PICK W : W = {"drop", "dropped", "complete"}
      OBVIOUS
  <2>2. All(Append(m, e), t) = 1
      BY <1>7, <1>9, Enqueues
  <2>3. Aliens(Append(m, e), t, W) = 0
    <3>1. Aliens(m, t, W) \in Nat /\ Aliens(m, t, W) <= 0
        BY <1>9, CountTypes
    <3>2. Aliens(Append(m, e), t, W) = Aliens(m, t, W) + (IF e.what \notin W THEN 1 ELSE 0)
        BY <1>7, <1>9, Enqueues
    <3>3. e.what \in W
        BY <1>7, <2>1
    <3> QED BY <3>1, <3>2, <3>3
  <2>4. Waits(t)' = {}
      BY <1>2, <1>4 DEF Waits
  <2> QED BY <1>10, <2>1, <2>2, <2>3, <2>4, FS_EmptySet DEF Alone
<1>12. /\ txs[t].prog = <<>> /\ txs[t].seen = 0 /\ txs[t].pending = 0 /\ txs[t].puts = {}
    BY <1>3 DEF Booked, Phase, Active
<1> QED BY <1>5, <1>11, <1>12 DEF Booked, Phase, Active, Free

\* While the keys are deleted the request is pending; then its answer is awaited.
LEMMA EraseBooked ==
    ASSUME StorageShape, WaitIds, NEW t \in Txs, Booked(t), EraseOne(t)
    PROVE  Booked(t)'
<1>1. DOMAIN txs = Txs /\ DOMAIN txs[t] = TxFields
    BY DEF StorageShape, ShimShape, TxShape
<1>2. PICK k \in txs[t].todo : LET last == txs[t].todo = {k}
               ids == txs[t].ids \cup {ops + 1}
               what == IF txs[t].at = "dropping" THEN "dropped" ELSE "answer"
           IN
            /\ txs' = [txs EXCEPT ![t].todo = @ \ {k}, ![t].ids = IF last THEN {} ELSE ids]
            /\ waiting' = IF last THEN waiting \cup {[task |-> Task(t, what), ids |-> ids]}
                          ELSE waiting
            /\ IF last /\ txs[t].at = "dropping" THEN Then(<<>>) ELSE UNCHANGED micro
    BY DEF EraseOne
<1>3. k \in txs[t].todo /\ txs[t].todo # {}
    BY <1>2
<1>4. PICK ids : ids = txs[t].ids \cup {ops + 1}
    OBVIOUS
<1>5. PICK what : what = IF txs[t].at = "dropping" THEN "dropped" ELSE "answer"
    OBVIOUS
<1>6. /\ txs'[t].at = txs[t].at /\ txs'[t].prog = txs[t].prog /\ txs'[t].next = txs[t].next
      /\ txs'[t].seen = txs[t].seen /\ txs'[t].pending = txs[t].pending /\ txs'[t].hadOp = txs[t].hadOp
      /\ txs'[t].completed = txs[t].completed /\ txs'[t].error = txs[t].error
      /\ txs'[t].refused = txs[t].refused /\ txs'[t].todo = txs[t].todo \ {k}
      /\ txs'[t].puts = txs[t].puts
    BY <1>1, <1>2 DEF TxFields
<1>7. waiting' = IF txs[t].todo = {k} THEN waiting \cup {[task |-> Task(t, what), ids |-> ids]}
                 ELSE waiting
    BY <1>2, <1>4, <1>5
<1>8. IF txs[t].todo = {k} /\ txs[t].at = "dropping" THEN micro' = Tail(micro) \o <<>> ELSE micro' = micro
    BY <1>2 DEF Then
<1>9. /\ txs[t].at \in {"issuing", "dropping"}
      /\ Turn(t, IF txs[t].at = "dropping" THEN "drop" ELSE "run")
    BY <1>3 DEF StorageShape, ShimShape, HasTurn
<1>10. CASE txs[t].todo # {k}
  <2>1. micro' = micro /\ waiting' = waiting /\ Waits(t)' = Waits(t) /\ txs'[t].todo # {}
      BY <1>3, <1>6, <1>7, <1>8, <1>10 DEF Waits
  <2>2. CASE txs[t].at = "issuing"
    <3>1. Book(t)
        BY <2>2 DEF Booked, Active
    <3>2. Book(t)'
        BY <1>3, <1>6, <2>1, <2>2, <3>1 DEF Book
    <3>3. Phase(t)'
        BY <1>6, <2>2 DEF Phase, Active, Free
    <3> QED BY <3>2, <3>3 DEF Booked
  <2>3. CASE txs[t].at = "dropping"
    <3>1. \A n, kinds : Alone(t, n, kinds)' <=> Alone(t, n, kinds)
        BY <2>1 DEF Alone
    <3> QED BY <1>6, <2>3, <3>1 DEF Booked, Phase, Active, Free
  <2> QED BY <1>9, <2>2, <2>3
<1>11. CASE txs[t].todo = {k}
  <2>1. txs'[t].todo = {}
      BY <1>6, <1>11
  <2>2. PICK w : /\ w \notin Waits(t) /\ w.task.what = what /\ w.task.who = t /\ w.ids = ids
                 /\ Waits(t)' = Waits(t) \cup {w}
    <3>1. waiting' = waiting \cup {[task |-> Task(t, what), ids |-> ids]} /\ ops + 1 \in ids
        BY <1>4, <1>7, <1>11
    <3> QED BY <3>1, NewWait
  <2>3. IsFiniteSet(Waits(t)) /\ Cardinality(Waits(t)) \in Nat
        /\ Cardinality(Waits(t)') = Cardinality(Waits(t)) + 1
      BY <2>2, WaitsAreCounted, FS_AddElement, ZenonT(60)
  <2>4. CASE txs[t].at = "issuing"
    <3>1. Book(t) /\ what = "answer" /\ micro' = micro
        BY <1>5, <1>8, <2>4 DEF Booked, Active
    <3>2. txs'[t].pending = Queued(micro', t, "answer") + Cardinality(Waits(t)')
                          + (IF txs'[t].todo = {} THEN 0 ELSE 1)
      <4>1. txs[t].pending = Queued(micro, t, "answer") + Cardinality(Waits(t)) + 1
          BY <1>3, <3>1 DEF Book
      <4>2. Queued(micro, t, "answer") \in Nat
          BY <3>1, BookNumbers
      <4>3. txs[t].pending = Queued(micro, t, "answer") + (Cardinality(Waits(t)) + 1) + 0
          BY <2>3, <4>1, <4>2
      <4> QED BY <1>6, <2>1, <2>3, <3>1, <4>3
    <3>3. \A v \in Waits(t)' : v.task.what = "answer"
        BY <2>2, <3>1 DEF Book
    <3>4. Book(t)'
        BY <1>6, <2>1, <2>4, <3>1, <3>2, <3>3 DEF Book
    <3>5. Phase(t)'
        BY <1>6, <2>4 DEF Phase, Active, Free
    <3> QED BY <3>4, <3>5 DEF Booked
  <2>5. CASE txs[t].at = "dropping"
    <3>1. what = "dropped" /\ micro' = Tail(micro) \o <<>> /\ Turn(t, "drop")
        BY <1>5, <1>8, <1>9, <1>11, <2>5
    <3>2. /\ micro \in Seq(TaskSet) /\ micro # <<>> /\ Head(micro).who = t
          /\ All(micro, t) = 1 /\ Waits(t) = {} /\ Cardinality(Waits(t)) = 0
        BY <2>5, <3>1, TurnSays DEF Active
    <3>3. PICK m : m = Tail(micro)
        OBVIOUS
    <3>4. m \in Seq(TaskSet) /\ All(m, t) = 0
      <4>1. m \in Seq(TaskSet) /\ All(m, t) = All(micro, t) - 1
          BY <3>2, <3>3, Dequeues
      <4> QED BY <3>2, <4>1
    <3>5. micro' = m
        BY <3>1, <3>3, <3>4, Behind
    <3>6. PICK W : W = {"drop", "dropped", "complete"}
        OBVIOUS
    <3>7. Aliens(m, t, W) = 0
      <4>1. Aliens(m, t, W) \in Nat /\ Aliens(m, t, W) <= 0
          BY <3>4, CountTypes
      <4> QED BY <4>1
    <3>8. Waits(t)' = {w} /\ w.task.what \in W /\ Cardinality(Waits(t)') = 1
        BY <2>2, <2>3, <3>1, <3>2, <3>6
    <3>9. Alone(t, 1, W)'
        BY <3>4, <3>5, <3>7, <3>8 DEF Alone
    <3> QED BY <1>6, <2>5, <3>6, <3>9 DEF Booked, Phase, Active, Free
  <2> QED BY <1>9, <2>4, <2>5
<1> QED BY <1>10, <1>11

LEMMA TxBooked ==
    ASSUME KeysEndNothing, StorageShape, WaitIds, NEW t \in Txs, Booked(t), TxStep(t)
    PROVE  Booked(t)'
BY StartsBooked, OpensBooked, RequestsBooked, PutBadBooked, ReadKeysBooked, EraseBooked,
   EndTurnBooked, CallbackBooked, TickBooked, AnswerBooked, CompleteBooked, DroppedBooked
   DEF TxStep, DatabaseTask

\* Who waits for the flush of a write that a step makes, if anybody does.
WaitsFor(p, ids) ==
    \/ waiting' = waiting
    \/ /\ ops' = ops + 1
       /\ \E what : waiting' = waiting \cup {[task |-> Task(p, what), ids |-> ids]}

LEMMA OpsStep ==
    ASSUME StorageShape, [StorageNext]_storageVars
    PROVE  ops \in Nat /\ (ops' = ops \/ ops' = ops + 1)
<1>1. [Next]_vars /\ ops \in Nat
    BY StorageUsesStore DEF StorageShape, ShapeInv, TypeOK
<1> QED BY <1>1 DEF Next, Set, SetSync, Delete, Write, FlushLands, FlushFails, Restart, vars

LEMMA CallWaits ==
    ASSUME NEW x \in Cachers, CallStep(x)
    PROVE  WaitsFor(x, {ops + 1})
<1>1. ASSUME NEW what, Resume(x, what) PROVE WaitsFor(x, {ops + 1})
    BY <1>1 DEF Resume, StoreQuiet, WaitsFor
<1>2. ASSUME NEW k, NEW what, SetThen(x, k, what) PROVE WaitsFor(x, {ops + 1})
    BY <1>2 DEF SetThen, Set, Write, Await, WaitsFor
<1>3. ASSUME NEW k, NEW what, DeleteThen(x, k, what) PROVE WaitsFor(x, {ops + 1})
  <2>1. CASE cache[k].there
      BY <1>3, <2>1 DEF DeleteThen, Delete, Write, Await, WaitsFor
  <2>2. CASE ~cache[k].there
      BY <1>3, <2>2 DEF DeleteThen, WaitsFor
  <2> QED BY <2>1, <2>2
<1>4. ASSUME NEW k, NEW list, NEW what, WriteIndex(x, k, list, what) PROVE WaitsFor(x, {ops + 1})
    BY <1>2, <1>4 DEF WriteIndex
<1>5. CASE Open(x) \/ Opened(x) \/ ReadIndex(x) \/ Wipe(x) \/ WipeBegins(x)
    BY <1>1, <1>5 DEF Open, Opened, ReadIndex, Wipe, WipeBegins
<1>6. CASE Named(x) \/ AddToIndex(x) \/ RemoveFromIndex(x) \/ Unname(x)
    BY <1>1, <1>4, <1>6 DEF Named, AddToIndex, RemoveFromIndex, Unname
<1>7. CASE PutMeta(x) \/ PutBody(x)
    BY <1>2, <1>7 DEF PutMeta, PutBody
<1>8. CASE DeleteEntry(x) \/ WipeEntry(x) \/ WipeIndex(x)
    BY <1>3, <1>8 DEF DeleteEntry, WipeEntry, WipeIndex
<1>9. CASE Settle(x) \/ \E r \in Requests, do \in {"put", "delete", "wipe"} : CallCache(x, do, r)
    BY <1>9 DEF Settle, CallCache, StoreQuiet, WaitsFor
<1> QED BY <1>5, <1>6, <1>7, <1>8, <1>9 DEF CallStep, CacheTask

\* Only the transaction that has the turn has keys to delete.
LEMMA NoneErasing ==
    ASSUME StorageShape, WaitIds, NEW t \in Txs, micro = <<>> \/ Head(micro).who # t
    PROVE  txs[t].todo = {} /\ txs[t].ids = {}
<1>1. txs[t].todo = {}
    BY DEF StorageShape, ShimShape, HasTurn, Turn
<1> QED BY <1>1 DEF WaitIds

\* Writes stay apart when one is added to those that are waited for.
LEMMA WaitsStayApart ==
    ASSUME StorageShape, WaitIds, NEW p, NEW ids \in SUBSET Nat, WaitsFor(p, ids),
           ops' = ops \/ ops' = ops + 1,
           ops + 1 \in ids, \A n \in ids : n <= ops + 1,
           waiting' # waiting =>
                /\ \A w \in waiting : ids \cap w.ids = {}
                /\ \A t \in Txs : ids \cap txs'[t].ids = {},
           \A t \in Txs :
               /\ \A n \in txs'[t].ids : n <= ops'
               /\ txs'[t].todo = {} => txs'[t].ids = {}
               /\ \A w \in waiting : txs'[t].ids \cap w.ids = {}
               /\ \A k \in txs'[t].todo : cache'[k].there
    PROVE  WaitIds'
<1>1. /\ ops \in Nat /\ waiting \subseteq WaitSet /\ IsFiniteSet(waiting)
      /\ \A w \in waiting : w.ids # {} /\ w.ids \subseteq Nat /\ \A n \in w.ids : n <= ops
      /\ \A v, w \in waiting : v # w => v.ids \cap w.ids = {}
    BY DEF StorageShape, ShapeInv, TypeOK, ShimShape, WaitIds, WaitSet
<1>2. \A w \in waiting : \A n \in w.ids : n <= ops'
    BY <1>1
<1>3. CASE waiting' = waiting
    BY <1>1, <1>2, <1>3 DEF WaitIds
<1>4. ASSUME NEW v, v.ids = ids, ops' = ops + 1, waiting' = waiting \cup {v} PROVE WaitIds'
  <2>1. IsFiniteSet(waiting')
      BY <1>1, <1>4, FS_AddElement
  <2>2. v \notin waiting
      BY <1>1, <1>4
  <2>3. \A w \in waiting' : w.ids # {} /\ \A n \in w.ids : n <= ops'
      BY <1>1, <1>2, <1>4
  <2>4. waiting' # waiting
      BY <1>4, <2>2
  <2>5. \A a, b \in waiting' : a # b => a.ids \cap b.ids = {}
      BY <1>1, <1>4, <2>4
  <2>6. \A t \in Txs : \A w \in waiting' : txs'[t].ids \cap w.ids = {}
      BY <1>4, <2>4
  <2> QED BY <2>1, <2>3, <2>5, <2>6 DEF WaitIds
<1>5. CASE ops' = ops + 1 /\ \E what : waiting' = waiting \cup {[task |-> Task(p, what), ids |-> ids]}
  <2>1. PICK what : waiting' = waiting \cup {[task |-> Task(p, what), ids |-> ids]}
      BY <1>5
  <2>2. PICK v : v = [task |-> Task(p, what), ids |-> ids]
      OBVIOUS
  <2>3. v.ids = ids /\ waiting' = waiting \cup {v}
      BY <2>1, <2>2
  <2> QED BY <1>4, <1>5, <2>3
<1> QED BY <1>3, <1>5 DEF WaitsFor

LEMMA QuietWaits ==
    ASSUME StorageShape, WaitIds, NEW t \in Txs, TxStep(t), ~Put(t), ~EraseOne(t)
    PROVE  WaitIds'
<1>1. DOMAIN txs = Txs /\ DOMAIN txs[t] = TxFields
    BY DEF StorageShape, ShimShape, TxShape
<1>2. UNCHANGED <<ops, cache, waiting>>
    BY DEF TxStep, OpenDatabase, DatabaseTask, DropDatabase, OnOpen, NewTransaction, EndTurn, Get,
           GetAll, Read, ReadKeys, PutBad, Erase, OnTick, OnAnswer, OnCallback, OnComplete,
           OnDropped, StoreQuiet, vars
<1>3. \/ txs'[t].ids = txs[t].ids /\ txs'[t].todo = txs[t].todo
      \/ txs'[t].ids = {} /\ \A k \in txs'[t].todo : cache[k].there
  <2>1. CASE DropDatabase(t) \/ \E prog \in Programs : OpenDatabase(t, prog)
    <3>1. NoTx.todo = {} /\ NoTx.ids = {}
        BY DEF NoTx
    <3>2. CASE DropDatabase(t)
      <4>1. PICK found : found = Found(AllRecords)
          OBVIOUS
      <4>2. txs' = [txs EXCEPT ![t] = [NoTx EXCEPT !.at = "dropping", !.todo = found]]
          BY <3>2, <4>1 DEF DropDatabase
      <4>3. txs'[t].ids = {} /\ txs'[t].todo = found
          BY <1>1, <4>2 DEF NoTx
      <4> QED BY <4>1, <4>3 DEF Found
    <3>3. CASE \E prog \in Programs : OpenDatabase(t, prog)
      <4>1. txs'[t].ids = {} /\ txs'[t].todo = {}
          BY <1>1, <3>3 DEF OpenDatabase, NoTx
      <4> QED BY <4>1
    <3> QED BY <2>1, <3>2, <3>3
  <2>2. CASE Erase(t)
    <3>1. txs[t].todo = {} /\ txs[t].ids = {}
        BY <2>2 DEF Erase, Issuing, WaitIds
    <3>2. PICK found : /\ \A k \in found : cache[k].there
                       /\ txs' = [txs EXCEPT ![t] = [OpStart(Issued(@)) EXCEPT !.todo = found]]
      <4>1. \A keys : \A k \in Found(keys) : cache[k].there
          BY DEF Found
      <4> QED BY <2>2, <4>1 DEF Erase
    <3>3. txs'[t].todo = found /\ txs'[t].ids = {}
        BY <1>1, <3>1, <3>2 DEF OpStart, Issued, TxFields
    <3> QED BY <3>2, <3>3
  <2>3. CASE /\ ~Erase(t) /\ ~DropDatabase(t)
             /\ ~ \E prog \in Programs : OpenDatabase(t, prog)
    <3>1. CASE OnOpen(t) \/ NewTransaction(t) \/ EndTurn(t) \/ OnCallback(t) \/ OnComplete(t) \/ OnDropped(t)
        BY <1>1, <3>1 DEF OnOpen, NewTransaction, EndTurn, OnCallback, OnComplete, OnDropped, TxFields
    <3>2. CASE Get(t) \/ GetAll(t) \/ PutBad(t) \/ ReadKeys(t)
        BY <1>1, <3>2 DEF Get, GetAll, Read, PutBad, ReadKeys, OpStart, Issued, TxFields
    <3>3. CASE OnTick(t) \/ OnAnswer(t)
        BY <1>1, <3>3 DEF OnTick, OnAnswer, TxFields
    <3> QED BY <2>3, <3>1, <3>2, <3>3 DEF TxStep, DatabaseTask
  <2> QED BY <2>1, <2>2, <2>3
<1>4. \A u \in Txs \ {t} : txs'[u] = txs[u]
    BY TxStepShape
<1>5. ASSUME NEW u \in Txs
      PROVE  /\ \A n \in txs'[u].ids : n <= ops
             /\ txs'[u].todo = {} => txs'[u].ids = {}
             /\ \A w \in waiting : txs'[u].ids \cap w.ids = {}
             /\ \A k \in txs'[u].todo : cache[k].there
  <2>1. /\ \A n \in txs[u].ids : n <= ops
        /\ txs[u].todo = {} => txs[u].ids = {}
        /\ \A w \in waiting : txs[u].ids \cap w.ids = {}
        /\ \A k \in txs[u].todo : cache[k].there
      BY DEF WaitIds
  <2>2. CASE u # t
      BY <1>4, <2>1, <2>2
  <2>3. CASE u = t
      BY <1>3, <2>1, <2>3
  <2> QED BY <2>2, <2>3
<1>6. /\ IsFiniteSet(waiting)
      /\ \A w \in waiting : w.ids # {} /\ \A n \in w.ids : n <= ops
      /\ \A v, w \in waiting : v # w => v.ids \cap w.ids = {}
    BY DEF WaitIds
<1> QED BY <1>2, <1>5, <1>6 DEF WaitIds

LEMMA PutWaits ==
    ASSUME StorageShape, WaitIds, NEW t \in Txs, Put(t)
    PROVE  WaitIds'
<1>1. DOMAIN txs = Txs /\ DOMAIN txs[t] = TxFields /\ ops \in Nat
    BY DEF StorageShape, ShimShape, TxShape, ShapeInv, TypeOK
<1>2. PICK ids : ids = {ops + 1}
    OBVIOUS
<1>3. /\ ops' = ops + 1 /\ waiting' = waiting \cup {[task |-> Task(t, "answer"), ids |-> ids]}
      /\ Issuing(t, {"put"})
    BY <1>2 DEF Put, Set, Write
<1>4. txs'[t].todo = {} /\ txs'[t].ids = {}
  <2>1. txs[t].todo = {} /\ txs[t].ids = {}
      BY <1>3 DEF Issuing, WaitIds
  <2> QED BY <1>1, <2>1 DEF Put, OpStart, Issued, PutRecorded, TxFields
<1>5. \A u \in Txs \ {t} : txs'[u].todo = {} /\ txs'[u].ids = {}
  <2>1. \A u \in Txs \ {t} : txs'[u] = txs[u]
      BY TxStepShape DEF TxStep, DatabaseTask
  <2>2. Head(micro).who = t
      BY <1>3 DEF Issuing, Turn
  <2> QED BY <2>1, <2>2, NoneErasing
<1>6. WaitsFor(t, ids)
    BY <1>3 DEF WaitsFor
<1>7. \A w \in waiting : ids \cap w.ids = {}
  <2>1. \A w \in waiting : \A n \in w.ids : n <= ops
      BY DEF WaitIds
  <2> QED BY <1>1, <1>2, <2>1
<1>8. ids \in SUBSET Nat /\ ops + 1 \in ids /\ \A n \in ids : n <= ops + 1
    BY <1>1, <1>2
<1>9. \A u \in Txs : txs'[u].ids = {} /\ txs'[u].todo = {}
    BY <1>4, <1>5
<1> QED BY <1>3, <1>6, <1>7, <1>8, <1>9, WaitsStayApart

LEMMA EraseWaits ==
    ASSUME StorageShape, WaitIds, NEW t \in Txs, EraseOne(t)
    PROVE  WaitIds'
<1>1. /\ DOMAIN txs = Txs /\ DOMAIN txs[t] = TxFields /\ ops \in Nat
      /\ txs[t].ids \subseteq Nat /\ txs[t].todo \subseteq AllRecords
    BY DEF StorageShape, ShimShape, TxShape, ShapeInv, TypeOK
<1>2. PICK ids : ids = txs[t].ids \cup {ops + 1}
    OBVIOUS
<1>3. PICK k \in txs[t].todo :
            /\ Delete(k)
            /\ txs' = [txs EXCEPT ![t].todo = @ \ {k}, ![t].ids = IF txs[t].todo = {k} THEN {} ELSE ids]
            /\ \E what : waiting' = IF txs[t].todo = {k}
                                    THEN waiting \cup {[task |-> Task(t, what), ids |-> ids]}
                                    ELSE waiting
    BY <1>2 DEF EraseOne
<1>4. /\ cache[k].there /\ k \in Keys /\ k \in txs[t].todo
      /\ \A j \in txs[t].todo : cache[j].there /\ j \in Keys
    BY <1>1, <1>3, RecordsAreKeys DEF WaitIds
<1>5. ops' = ops + 1 /\ \A j \in Keys \ {k} : cache'[j] = cache[j]
    BY <1>3, <1>4, WriteFacts DEF Delete, StorageShape
<1>6. /\ txs'[t].todo = txs[t].todo \ {k}
      /\ txs'[t].ids = IF txs[t].todo = {k} THEN {} ELSE ids
    BY <1>1, <1>3 DEF TxFields
<1>7. \A u \in Txs \ {t} : txs'[u].todo = {} /\ txs'[u].ids = {}
  <2>1. \A u \in Txs \ {t} : txs'[u] = txs[u]
      BY TxStepShape DEF TxStep, DatabaseTask
  <2>2. Head(micro).who = t /\ micro # <<>>
      BY <1>4 DEF StorageShape, ShimShape, HasTurn, Turn
  <2> QED BY <2>1, <2>2, NoneErasing
<1>8. WaitsFor(t, ids)
    BY <1>3, <1>5 DEF WaitsFor
<1>9. \A w \in waiting : ids \cap w.ids = {}
  <2>1. \A w \in waiting : (\A n \in w.ids : n <= ops) /\ txs[t].ids \cap w.ids = {}
      BY DEF WaitIds
  <2> QED BY <1>1, <1>2, <2>1
<1>10. ids \in SUBSET Nat /\ ops + 1 \in ids /\ \A n \in ids : n <= ops + 1
  <2>1. \A n \in txs[t].ids : n <= ops
      BY DEF WaitIds
  <2> QED BY <1>1, <1>2, <2>1
<1>11. waiting' # waiting => \A u \in Txs : txs'[u].ids = {}
    BY <1>3, <1>6, <1>7
<1>12. ASSUME NEW u \in Txs
       PROVE  /\ \A n \in txs'[u].ids : n <= ops'
              /\ txs'[u].todo = {} => txs'[u].ids = {}
              /\ \A w \in waiting : txs'[u].ids \cap w.ids = {}
              /\ \A j \in txs'[u].todo : cache'[j].there
  <2>1. CASE u # t
      BY <1>7, <2>1
  <2>2. CASE u = t
    <3>1. txs'[t].todo = {} => txs'[t].ids = {}
        BY <1>4, <1>6
    <3>2. \A j \in txs'[t].todo : cache'[j].there
        BY <1>4, <1>5, <1>6
    <3> QED BY <1>5, <1>6, <1>9, <1>10, <2>2, <3>1, <3>2
  <2> QED BY <2>1, <2>2
<1> QED BY <1>5, <1>8, <1>9, <1>10, <1>11, <1>12, WaitsStayApart

LEMMA CallKeepsWaits ==
    ASSUME StorageShape, WaitIds, NEW x \in Cachers, CallStep(x), [StorageNext]_storageVars
    PROVE  WaitIds'
<1>1. ops \in Nat /\ (ops' = ops \/ ops' = ops + 1) /\ txs' = txs /\ x \notin Txs
    BY OpsStep, CallQueue, StorageAssumption
<1>2. CASE CacheTask(x)
  <2>1. Head(micro).who = x
      BY <1>2, CallHasHead
  <2>2. \A t \in Txs : txs'[t].todo = {} /\ txs'[t].ids = {}
      BY <1>1, <2>1, NoneErasing
  <2>3. PICK ids : ids = {ops + 1}
      OBVIOUS
  <2>4. WaitsFor(x, ids)
      BY <2>3, CallWaits
  <2>5. \A w \in waiting : ids \cap w.ids = {}
    <3>1. \A w \in waiting : \A n \in w.ids : n <= ops
        BY DEF WaitIds
    <3> QED BY <1>1, <2>3, <3>1
  <2>6. ids \in SUBSET Nat /\ ops + 1 \in ids /\ \A n \in ids : n <= ops + 1
      BY <1>1, <2>3
  <2>7. ops' = ops \/ ops' = ops + 1
      BY <1>1
  <2> QED BY <2>2, <2>4, <2>5, <2>6, <2>7, WaitsStayApart
<1>3. CASE \E r \in Requests, do \in {"put", "delete", "wipe"} : CallCache(x, do, r)
  <2>1. UNCHANGED <<ops, cache, waiting, txs>>
      BY <1>1, <1>3 DEF CallCache, StoreQuiet, vars
  <2> QED BY <2>1 DEF WaitIds
<1> QED BY <1>2, <1>3 DEF CallStep

LEMMA ItemKeepsWaits ==
    ASSUME StorageShape, WaitIds, NEW i \in Items, SetItem(i) \/ RemoveItem(i),
           [StorageNext]_storageVars
    PROVE  WaitIds'
<1>1. ops \in Nat /\ (ops' = ops \/ ops' = ops + 1)
    BY OpsStep
<1>2. micro = <<>> /\ UNCHANGED <<txs, waiting>>
    BY DEF SetItem, RemoveItem, ShimsIdle
<1>3. \A t \in Txs : txs'[t].todo = {} /\ txs'[t].ids = {}
    BY <1>2, NoneErasing
<1>4. /\ IsFiniteSet(waiting) /\ waiting \subseteq WaitSet
      /\ \A w \in waiting : w.ids # {} /\ \A n \in w.ids : n <= ops
      /\ \A v, w \in waiting : v # w => v.ids \cap w.ids = {}
    BY DEF WaitIds, StorageShape, ShimShape
<1>5. \A w \in waiting : \A n \in w.ids : n <= ops'
    BY <1>1, <1>4 DEF WaitSet
<1> QED BY <1>2, <1>3, <1>4, <1>5 DEF WaitIds

\* A flush that lands or is refused moves a call from those that wait to the queue.
Waker(f, w, ok) ==
    /\ f.id \in w.ids /\ (ok => FlushLands(f))
    /\ \/ /\ ok /\ w.ids \ {f.id} # {} /\ micro' = <<>>
          /\ waiting' = (waiting \ {w}) \cup {[w EXCEPT !.ids = w.ids \ {f.id}]}
       \/ /\ ok => w.ids = {f.id}
          /\ waiting' = waiting \ {w} /\ micro' = <<[w.task EXCEPT !.ok = ok]>>

LEMMA AnswerWakes ==
    ASSUME StorageShape, NEW f \in pending, StoreAnswers(f)
    PROVE  /\ micro = <<>> /\ UNCHANGED <<txs, ops, cache>>
           /\ \/ micro' = <<>> /\ waiting' = waiting /\ \A v \in waiting : f.id \notin v.ids
              \/ \E w \in waiting, ok \in BOOLEAN : Waker(f, w, ok)
<1>1. micro = <<>> /\ UNCHANGED <<txs, ops, cache>>
    BY DEF StoreAnswers, FlushLands, FlushFails
<1>2. ASSUME NEW ok \in BOOLEAN, Wakes(f, ok), ok => FlushLands(f)
      PROVE  \/ micro' = <<>> /\ waiting' = waiting /\ \A v \in waiting : f.id \notin v.ids
             \/ \E w \in waiting, b \in BOOLEAN : Waker(f, w, b)
  <2>1. \/ micro' = <<>> /\ waiting' = waiting /\ \A v \in waiting : f.id \notin v.ids
        \/ \E w \in waiting :
                 /\ f.id \in w.ids
                 /\ \/ /\ ok /\ w.ids \ {f.id} # {} /\ micro' = <<>>
                       /\ waiting' = (waiting \ {w}) \cup {[w EXCEPT !.ids = w.ids \ {f.id}]}
                    \/ /\ ok => w.ids = {f.id}
                       /\ waiting' = waiting \ {w} /\ micro' = <<[w.task EXCEPT !.ok = ok]>>
      BY <1>1, <1>2, WakeFacts
  <2>2. ASSUME NEW w \in waiting, f.id \in w.ids,
               \/ /\ ok /\ w.ids \ {f.id} # {} /\ micro' = <<>>
                  /\ waiting' = (waiting \ {w}) \cup {[w EXCEPT !.ids = w.ids \ {f.id}]}
               \/ /\ ok => w.ids = {f.id}
                  /\ waiting' = waiting \ {w} /\ micro' = <<[w.task EXCEPT !.ok = ok]>>
        PROVE  \E v \in waiting, b \in BOOLEAN : Waker(f, v, b)
    <3>1. Waker(f, w, ok)
        BY <1>2, <2>2 DEF Waker
    <3> QED BY <3>1
  <2> QED BY <2>1, <2>2
<1> QED BY <1>1, <1>2 DEF StoreAnswers

LEMMA WakerFacts ==
    ASSUME StorageShape, WaitIds, NEW f \in pending, NEW w \in waiting, NEW ok \in BOOLEAN,
           Waker(f, w, ok)
    PROVE  \/ /\ ok /\ micro' = <<>>
              /\ \E v : /\ v.task = w.task /\ v.ids = w.ids \ {f.id} /\ v.ids # {}
                        /\ v \notin waiting /\ waiting' = (waiting \ {w}) \cup {v}
           \/ /\ ok => w.ids = {f.id}
              /\ waiting' = waiting \ {w}
              /\ \E e \in TaskSet : /\ e.who = w.task.who /\ e.what = w.task.what /\ e.ok = ok
                                    /\ micro' = Append(<<>>, e)
<1>1. w \in WaitSet /\ f.id \in w.ids /\ \A v \in waiting : v # w => v.ids \cap w.ids = {}
    BY DEF StorageShape, ShimShape, WaitIds, Waker
<1>2. CASE /\ ok /\ w.ids \ {f.id} # {} /\ micro' = <<>>
           /\ waiting' = (waiting \ {w}) \cup {[w EXCEPT !.ids = w.ids \ {f.id}]}
  <2>1. PICK v : v = [w EXCEPT !.ids = w.ids \ {f.id}]
      OBVIOUS
  <2>2. v.task = w.task /\ v.ids = w.ids \ {f.id} /\ v.ids # {}
      BY <1>1, <1>2, <2>1 DEF WaitSet
  <2>3. v \notin waiting
      BY <1>1, <2>2
  <2> QED BY <1>2, <2>1, <2>2, <2>3
<1>3. CASE /\ ok => w.ids = {f.id}
           /\ waiting' = waiting \ {w} /\ micro' = <<[w.task EXCEPT !.ok = ok]>>
  <2>1. PICK e : e = [w.task EXCEPT !.ok = ok]
      OBVIOUS
  <2>2. e \in TaskSet /\ e.who = w.task.who /\ e.what = w.task.what /\ e.ok = ok
      BY <1>1, <2>1 DEF WaitSet, TaskSet
  <2>3. micro' = Append(<<>>, e)
      BY <1>3, <2>1
  <2> QED BY <1>3, <2>2, <2>3
<1> QED BY <1>2, <1>3 DEF Waker

LEMMA AnswerKeepsWaits ==
    ASSUME StorageShape, WaitIds, NEW f \in pending, StoreAnswers(f)
    PROVE  WaitIds'
<1>1. /\ micro = <<>> /\ UNCHANGED <<txs, ops, cache>>
      /\ IsFiniteSet(waiting)
      /\ \A w \in waiting : w.ids # {} /\ \A n \in w.ids : n <= ops
      /\ \A v, w \in waiting : v # w => v.ids \cap w.ids = {}
    BY AnswerWakes DEF WaitIds
<1>2. \A t \in Txs : txs'[t].todo = {} /\ txs'[t].ids = {}
    BY <1>1, NoneErasing
<1>3. ASSUME IsFiniteSet(waiting'), \A v \in waiting' : v.ids # {} /\ \A n \in v.ids : n <= ops,
             \A v, u \in waiting' : v # u => v.ids \cap u.ids = {}
      PROVE  WaitIds'
    BY <1>1, <1>2, <1>3 DEF WaitIds
<1>4. CASE waiting' = waiting
    BY <1>1, <1>3, <1>4
<1>5. ASSUME NEW w \in waiting, NEW ok \in BOOLEAN, Waker(f, w, ok) PROVE WaitIds'
  <2>1. IsFiniteSet(waiting \ {w})
      BY <1>1, FS_RemoveElement
  <2>2. CASE waiting' = waiting \ {w}
      BY <1>1, <1>3, <2>1, <2>2
  <2>3. CASE \E v : /\ v.ids = w.ids \ {f.id} /\ v.ids # {} /\ waiting' = (waiting \ {w}) \cup {v}
    <3>1. PICK v : v.ids = w.ids \ {f.id} /\ v.ids # {} /\ waiting' = (waiting \ {w}) \cup {v}
        BY <2>3
    <3>2. IsFiniteSet(waiting')
        BY <2>1, <3>1, FS_AddElement
    <3>3. \A u \in waiting' : u.ids # {} /\ \A n \in u.ids : n <= ops
        BY <1>1, <1>5, <3>1
    <3>4. \A u, u2 \in waiting' : u # u2 => u.ids \cap u2.ids = {}
        BY <1>1, <1>5, <3>1
    <3> QED BY <1>3, <3>2, <3>3, <3>4
  <2> QED BY <1>5, <2>2, <2>3, WakerFacts
<1>6. (micro' = <<>> /\ waiting' = waiting) \/ \E w \in waiting, ok \in BOOLEAN : Waker(f, w, ok)
    BY AnswerWakes
<1> QED BY <1>4, <1>5, <1>6

LEMMA AnswerBooks ==
    ASSUME StorageShape, WaitIds, NEW f \in pending, StoreAnswers(f), NEW t \in Txs, Booked(t)
    PROVE  Booked(t)'
<1>1. micro = <<>> /\ txs' = txs
    BY AnswerWakes
<1>2. CASE micro' = <<>> /\ waiting' = waiting
  <2>1. SameQueue(t) /\ Waits(t)' = Waits(t)
      BY <1>1, <1>2 DEF SameQueue, Waits
  <2> QED BY <1>1, <2>1, OthersBooked
<1>3. ASSUME NEW w \in waiting, NEW v, micro' = <<>>, v.task = w.task, v \notin waiting,
             waiting' = (waiting \ {w}) \cup {v}
      PROVE  Booked(t)'
  <2>1. CASE w.task.who # t
    <3>1. SameQueue(t) /\ Waits(t)' = Waits(t)
        BY <1>1, <1>3, <2>1 DEF SameQueue, Waits
    <3> QED BY <1>1, <3>1, OthersBooked
  <2>2. CASE w.task.who = t
    <3>1. w \in Waits(t) /\ v \notin Waits(t) /\ Waits(t)' = (Waits(t) \ {w}) \cup {v}
        BY <1>3, <2>2 DEF Waits
    <3>2. Cardinality(Waits(t)') = Cardinality(Waits(t))
      <4>1. IsFiniteSet(Waits(t)) /\ Cardinality(Waits(t)) \in Nat
          BY WaitsAreCounted
      <4>2. IsFiniteSet(Waits(t) \ {w}) /\ Cardinality(Waits(t) \ {w}) = Cardinality(Waits(t)) - 1
          BY <3>1, <4>1, FS_RemoveElement
      <4>3. Cardinality((Waits(t) \ {w}) \cup {v}) = Cardinality(Waits(t) \ {w}) + 1
          BY <3>1, <4>2, FS_AddElement
      <4> QED BY <3>1, <4>1, <4>2, <4>3
    <3>3. \A kinds : (\A u \in Waits(t) : u.task.what \in kinds) => \A u \in Waits(t)' : u.task.what \in kinds
        BY <1>3, <3>1
    <3>4. \A n, kinds : Alone(t, n, kinds) => Alone(t, n, kinds)'
        BY <1>1, <1>3, <3>2, <3>3 DEF Alone
    <3>5. Phase(t)'
        BY <1>1, <3>4 DEF Booked, Phase, Free, Blank
    <3>6. ASSUME txs'[t].at \in Active PROVE Book(t)'
      <4>1. Book(t)
          BY <1>1, <3>6 DEF Booked
      <4>2. \A u \in Waits(t)' : u.task.what = "answer"
          BY <1>3, <3>1, <4>1 DEF Book
      <4> QED BY <1>1, <1>3, <3>2, <4>1, <4>2 DEF Book
    <3> QED BY <3>5, <3>6 DEF Booked
  <2> QED BY <2>1, <2>2
<1>4. ASSUME NEW w \in waiting, NEW e \in TaskSet, e.who = w.task.who, e.what = w.task.what,
             micro' = Append(<<>>, e), waiting' = waiting \ {w}
      PROVE  Booked(t)'
  <2>0. PICK q \in Seq(TaskSet) : q = micro
      BY DEF StorageShape, ShimShape
  <2>1. micro' = Append(q, e) /\ \A i \in DOMAIN q : FALSE
      BY <1>1, <1>4, <2>0
  <2>2. CASE w.task.who # t
    <3>1. e \notin TaskOf(t) /\ \A S \in SUBSET TaskOf(t) : e \notin S
        BY <1>4, <2>2 DEF TaskOf
    <3>2. \A S \in SUBSET TaskOf(t) : Count(q, S) \in Nat /\ Count(Append(q, e), S) = Count(q, S) + 0
        BY <3>1, <1>4, <2>0, CountAppend, CountFacts
    <3>3. CompleteIsLast(q, t) => CompleteIsLast(Append(q, e), t)
        BY <3>1, <1>4, <2>0, LastAppend
    <3>4. SameQueue(t)
        BY <2>0, <2>1, <3>2, <3>3 DEF SameQueue
    <3>5. Waits(t)' = Waits(t)
        BY <1>4, <2>2 DEF Waits
    <3> QED BY <1>1, <3>4, <3>5, OthersBooked
  <2>3. CASE w.task.who = t
    <3>1. w \in Waits(t) /\ Waits(t)' = Waits(t) \ {w} /\ e \in TaskOf(t)
        BY <1>4, <2>3 DEF Waits, TaskOf
    <3>2. /\ Cardinality(Waits(t)) \in Nat
          /\ Cardinality(Waits(t)') = Cardinality(Waits(t)) - 1
      <4>1. IsFiniteSet(Waits(t)) /\ Cardinality(Waits(t)) \in Nat
          BY WaitsAreCounted
      <4>2. Cardinality(Waits(t) \ {w}) = Cardinality(Waits(t)) - 1
          BY <3>1, <4>1, FS_RemoveElement
      <4> QED BY <3>1, <4>1, <4>2
    <3>3. /\ All(q, t) \in Nat
          /\ All(Append(q, e), t) = All(q, t) + 1
          /\ \A W : Aliens(Append(q, e), t, W) = Aliens(q, t, W) + (IF e.what \notin W THEN 1 ELSE 0)
          /\ \A W : Aliens(q, t, W) \in Nat
        BY <2>0, <3>1, CountTypes, Enqueues
    <3>4. ASSUME NEW n \in {0, 1}, NEW kinds, Alone(t, n, kinds) PROVE Alone(t, n, kinds)'
      <4>1. All(q, t) + Cardinality(Waits(t)) = n /\ Aliens(q, t, kinds) = 0
            /\ \A u \in Waits(t) : u.task.what \in kinds
          BY <2>0, <3>4 DEF Alone
      <4>2. e.what \in kinds
          BY <1>4, <3>1, <4>1
      <4>3. All(Append(q, e), t) + Cardinality(Waits(t)') = n
          BY <3>2, <3>3, <4>1
      <4>4. Aliens(Append(q, e), t, kinds) = 0
          BY <3>3, <4>1, <4>2
      <4> QED BY <2>1, <3>1, <4>1, <4>3, <4>4 DEF Alone
    <3>5. Phase(t)'
        BY <1>1, <3>4 DEF Booked, Phase, Free, Blank
    <3>6. ASSUME txs'[t].at \in Active PROVE Book(t)'
      <4>1. Book(t)
          BY <1>1, <3>6 DEF Booked
      <4>2. e.what = "answer" /\ \A u \in Waits(t)' : u.task.what = "answer"
          BY <1>4, <3>1, <4>1 DEF Book
      <4>3. /\ Queued(q, t, "answer") \in Nat /\ Queued(q, t, "callback") \in Nat
            /\ Queued(q, t, "complete") \in Nat /\ Refusals(q, t, "callback") \in Nat
          BY <2>0, CountTypes
      <4>4. /\ Queued(micro', t, "answer") = Queued(micro, t, "answer") + 1
            /\ Queued(micro', t, "callback") = Queued(micro, t, "callback")
            /\ Queued(micro', t, "complete") = Queued(micro, t, "complete")
            /\ Refusals(micro', t, "callback") = Refusals(micro, t, "callback")
        <5>1. /\ Queued(Append(q, e), t, "answer") = Queued(q, t, "answer") + 1
              /\ Queued(Append(q, e), t, "callback") = Queued(q, t, "callback") + 0
              /\ Queued(Append(q, e), t, "complete") = Queued(q, t, "complete") + 0
              /\ Refusals(Append(q, e), t, "callback") = Refusals(q, t, "callback") + 0
            BY <2>0, <3>1, <4>2, Enqueues
        <5> QED BY <2>0, <2>1, <4>3, <5>1
      <4>5. PICK W : W = {"run", "tick", "answer", "callback", "complete"}
          OBVIOUS
      <4>6. Aliens(micro', t, W) = 0
        <5>1. Aliens(q, t, W) = 0 /\ e.what \in W
            BY <2>0, <4>1, <4>2, <4>5 DEF Book
        <5> QED BY <2>1, <3>3, <5>1
      <4>7. CompleteIsLast(micro', t)
        <5>1. CompleteIsLast(q, t) /\ Queued(q, t, "complete") = 0
          <6>1. \A i \in DOMAIN q : q[i] \notin {d \in TaskOf(t) : d.what = "complete"}
              BY <2>1
          <6> QED BY <2>0, <2>1, <6>1, CountFacts DEF CompleteIsLast, Queued
        <5> QED BY <2>0, <2>1, <5>1, LastAppend
      <4>8. txs'[t].pending = Queued(micro', t, "answer") + Cardinality(Waits(t)')
                            + (IF txs'[t].todo = {} THEN 0 ELSE 1)
        <5>1. Queued(micro, t, "answer") + Cardinality(Waits(t))
                  = (Queued(micro, t, "answer") + 1) + (Cardinality(Waits(t)) - 1)
            BY <2>0, <3>2, <4>3
        <5>2. txs[t].pending = Queued(micro, t, "answer") + Cardinality(Waits(t))
                             + (IF txs[t].todo = {} THEN 0 ELSE 1)
            BY <4>1 DEF Book
        <5> QED BY <1>1, <3>2, <4>4, <5>1, <5>2
      <4> QED BY <1>1, <4>1, <4>2, <4>4, <4>5, <4>6, <4>7, <4>8 DEF Book
    <3> QED BY <3>5, <3>6 DEF Booked
  <2> QED BY <2>2, <2>3
<1>5. (micro' = <<>> /\ waiting' = waiting) \/ \E w \in waiting, ok \in BOOLEAN : Waker(f, w, ok)
    BY AnswerWakes
<1>6. ASSUME NEW w \in waiting, NEW ok \in BOOLEAN, Waker(f, w, ok) PROVE Booked(t)'
  <2>1. CASE micro' = <<>> /\ \E v : /\ v.task = w.task /\ v \notin waiting
                                    /\ waiting' = (waiting \ {w}) \cup {v}
    <3>1. PICK v : v.task = w.task /\ v \notin waiting /\ waiting' = (waiting \ {w}) \cup {v}
        BY <2>1
    <3> QED BY <1>3, <2>1, <3>1
  <2>2. CASE waiting' = waiting \ {w} /\ \E e \in TaskSet : /\ e.who = w.task.who /\ e.what = w.task.what
                                                         /\ micro' = Append(<<>>, e)
    <3>1. PICK e \in TaskSet : /\ e.who = w.task.who /\ e.what = w.task.what
                              /\ micro' = Append(<<>>, e)
        BY <2>2
    <3> QED BY <1>4, <2>2, <3>1
  <2> QED BY <1>6, <2>1, <2>2, WakerFacts
<1> QED BY <1>2, <1>5, <1>6

\* A process that begins has no transaction.
LEMMA NoneBooked ==
    /\ StorageInit => BookInv
    /\ StorageShape /\ StorageRestart => BookInv'
<1>1. \A S : Count(<<>>, S) = 0
  <2>1. \A S : Places(<<>>, S) = {}
      BY DEF Places
  <2> QED BY <2>1, FS_EmptySet DEF Count
<1>2. /\ NoTx.at = "idle" /\ NoTx.puts = {} /\ NoTx.todo = {} /\ NoTx.ids = {}
      /\ IsFiniteSet({}) /\ Cardinality({}) = 0
    BY FS_EmptySet DEF NoTx
<1>3. ASSUME StorageInit PROVE BookInv
  <2>1. micro = <<>> /\ waiting = {} /\ \A t \in Txs : txs[t] = NoTx
      BY <1>3 DEF StorageInit
  <2>2. WaitIds
      BY <1>2, <2>1 DEF WaitIds
  <2>3. \A t \in Txs : Waits(t) = {} /\ All(micro, t) = 0 /\ Aliens(micro, t, {}) = 0
      BY <1>1, <2>1 DEF Waits, All, Aliens
  <2>4. \A t \in Txs : Alone(t, 0, {})
      BY <1>2, <2>3 DEF Alone
  <2> QED BY <1>2, <2>1, <2>2, <2>4 DEF BookInv, Phase, Free, Active
<1>4. ASSUME StorageShape, StorageRestart PROVE BookInv'
  <2>1. micro' = <<>> /\ waiting' = {} /\ \A t \in Txs : txs'[t] = NoTx
      BY <1>4 DEF StorageRestart
  <2>2. WaitIds'
      BY <1>2, <2>1 DEF WaitIds
  <2>3. \A t \in Txs : Waits(t)' = {} /\ All(micro', t) = 0 /\ Aliens(micro', t, {}) = 0
      BY <1>1, <2>1 DEF Waits, All, Aliens
  <2>4. \A t \in Txs : Alone(t, 0, {})'
      BY <1>2, <2>3 DEF Alone
  <2> QED BY <1>2, <2>1, <2>2, <2>4 DEF BookInv, Phase, Free, Active
<1> QED BY <1>3, <1>4

LEMMA NextBook ==
    ASSUME KeysEndNothing, StorageShape, BookInv, [StorageNext]_storageVars
    PROVE  BookInv'
<1>1. WaitIds /\ \A t \in Txs : Booked(t)
    BY DEF BookInv, Booked
<1>2. ASSUME WaitIds', \A t \in Txs : Booked(t)' PROVE BookInv'
    BY <1>2 DEF BookInv, Booked
<1>3. ASSUME NEW t \in Txs, TxStep(t) PROVE BookInv'
  <2>1. WaitIds'
      BY <1>1, <1>3, QuietWaits, PutWaits, EraseWaits
  <2>2. Booked(t)'
      BY <1>1, <1>3, TxBooked
  <2>3. QueueStep(t) /\ WaitStep(t) /\ \A u \in Txs \ {t} : txs'[u] = txs[u]
      BY <1>3, TxQueue, TxStepShape DEF TxStep
  <2>4. ASSUME NEW u \in Txs, u # t PROVE Booked(u)'
      BY <1>1, <2>3, <2>4, OthersCount, OthersBooked
  <2> QED BY <1>2, <2>1, <2>2, <2>4
<1>4. ASSUME NEW x \in Cachers, CallStep(x) PROVE BookInv'
  <2>1. WaitIds'
      BY <1>1, <1>4, CallKeepsWaits
  <2>2. QueueStep(x) /\ WaitStep(x) /\ txs' = txs /\ \A t \in Txs : t # x
      BY <1>4, CallQueue, StorageAssumption
  <2>3. ASSUME NEW t \in Txs PROVE Booked(t)'
      BY <1>1, <2>2, OthersCount, OthersBooked
  <2> QED BY <1>2, <2>1, <2>3
<1>5. ASSUME NEW f \in pending, StoreAnswers(f) PROVE BookInv'
    BY <1>1, <1>2, <1>5, AnswerKeepsWaits, AnswerBooks
<1>6. ASSUME UNCHANGED <<micro, waiting, txs>>, WaitIds' PROVE BookInv'
  <2>1. ASSUME NEW t \in Txs PROVE Booked(t)'
    <3>1. SameQueue(t) /\ Waits(t)' = Waits(t)
        BY <1>6 DEF SameQueue, Waits
    <3> QED BY <1>1, <1>6, <3>1, OthersBooked
  <2> QED BY <1>2, <1>6, <2>1
<1>7. ASSUME NEW i \in Items, SetItem(i) \/ RemoveItem(i) PROVE BookInv'
  <2>1. WaitIds'
      BY <1>1, <1>7, ItemKeepsWaits
  <2> QED BY <1>6, <1>7, <2>1 DEF SetItem, RemoveItem, ShimsIdle
<1>8. CASE UNCHANGED storageVars
  <2>1. UNCHANGED <<micro, waiting, txs, ops, cache>>
      BY <1>8 DEF storageVars, shimVars, vars
  <2>2. WaitIds'
      BY <1>1, <2>1 DEF WaitIds
  <2> QED BY <1>6, <2>1, <2>2
<1> QED BY <1>3, <1>4, <1>5, <1>7, <1>8, NoneBooked DEF StorageNext, TxStep, CallStep

\* A helper's promise settles after all the callbacks of its requests, and is rejected
\* exactly if one of them was refused.
THEOREM SettlesAsItWent ==
    ASSUME KeysEndNothing
    PROVE  StorageSpec => []SettlesWithOutcome
<1>1. BookInv => SettlesWithOutcome
    BY DEF BookInv, Phase, SettlesWithOutcome
<1>2. StorageInit => BookInv
    BY NoneBooked
<1> QED BY <1>1, <1>2, NextBook, StorageTypeCorrect, PTL DEF StorageSpec

-----------------------------------------------------------------------------
(* What a helper that resolved has put is in the file.                       *)

\* A put of t whose flush was refused is about to hear of it.
RefusedAnswer(q, t) ==
    \E i \in DOMAIN q : q[i].who = t /\ q[i].what = "answer" /\ ~q[i].ok

\* A put is in the file, awaited, or refused; of those of a record one is the last.
PutStands(t, p) ==
    \/ p.id <= disk[Rec(p.key)].ver
    \/ \E w \in Waits(t) : p.id \in w.ids
    \/ RefusedAnswer(micro, t)
    \/ txs[t].refused
PutIsMade(p) ==
    /\ p.key \in Records /\ p.id \in Nat /\ p.id <= ops
    /\ \A f \in pending : f.id = p.id => f.key = Rec(p.key)
LastOfRecord(puts) ==
    \A p \in puts : \E q \in puts :
        q.key = p.key /\ \A r \in puts : r.key = p.key => r.id <= q.id
Puts(t) ==
    /\ \A p \in txs[t].puts : PutIsMade(p) /\ PutStands(t, p)
    /\ LastOfRecord(txs[t].puts)
PutsInv == /\ DOMAIN promised = Records /\ \A a \in Records : promised[a] \in Nat
           /\ PutIsDurable
           /\ \A t \in Txs : Puts(t)

\* On an orderly file system the file of a record only goes forward, and a flush
\* that begins is of the write that is made.
LEMMA StoreAdvances ==
    ASSUME Orderly, IInv, [Next]_vars
    PROVE  /\ \A k \in Keys : /\ disk[k].ver \in Nat /\ disk'[k].ver \in Nat
                              /\ disk[k].ver <= disk'[k].ver
           /\ ops \in Nat /\ ops' \in Nat /\ ops <= ops'
           /\ \A f \in pending' : f \in pending \/ f.id = ops + 1
           /\ \A f \in pending : f.id \in Nat /\ f.id <= ops
<1>1. IInv'
    BY StepIInv
<1>2. /\ ops \in Nat /\ disk \in Map /\ disk' \in Map /\ ops' \in Nat
      /\ \A f \in pending : f \in Flush
    BY <1>1 DEF IInv, TypeOK
<1>3. \A k \in Keys : disk[k].ver \in Nat /\ disk'[k].ver \in Nat
    BY <1>2 DEF Map, Entry
<1>4. \A f \in pending : f.id \in Nat /\ f.id <= ops
    BY <1>2 DEF IInv, Ordered, Flush
<1>5. ASSUME NEW k \in Keys, Set(k) \/ SetSync(k) \/ Delete(k)
      PROVE  /\ disk' = disk /\ (ops' = ops \/ ops' = ops + 1)
             /\ \A f \in pending' : f \in pending \/ f.id = ops + 1
    BY <1>5 DEF Set, SetSync, Delete, Write, StartFlush
<1>6. ASSUME NEW f \in pending, FlushLands(f) \/ FlushFails(f)
      PROVE  /\ disk' = disk \/ disk' = f.out
             /\ ops' = ops /\ pending' \subseteq pending
    BY <1>6 DEF FlushLands, FlushFails
<1>7. CASE Restart
  <2>1. disk' = disk /\ ops' = ops /\ pending' = {}
      BY <1>7 DEF Restart, Orderly
  <2> QED BY <1>2, <1>3, <1>4, <2>1
<1>8. CASE UNCHANGED vars
    BY <1>2, <1>3, <1>4, <1>8 DEF vars
<1>9. ASSUME NEW k \in Keys, NEW f \in pending, disk' = f.out PROVE disk[k].ver <= disk'[k].ver
    BY <1>9 DEF IInv, Ordered
<1>10. CASE \E k \in Keys : Set(k) \/ SetSync(k) \/ Delete(k)
    BY <1>2, <1>3, <1>4, <1>5, <1>10
<1>11. CASE \E f \in pending : FlushLands(f) \/ FlushFails(f)
    BY <1>2, <1>3, <1>4, <1>6, <1>9, <1>11
<1> QED BY <1>7, <1>8, <1>10, <1>11 DEF Next

\* A step of q moves the tasks of its queue and takes none but the head.
LEMMA RefusalStays ==
    ASSUME StorageShape, NEW q, NEW t, QueueStep(q), RefusedAnswer(micro, t),
           ~(Head(micro).who = t /\ Head(micro).what = "answer" /\ ~Head(micro).ok)
    PROVE  RefusedAnswer(micro', t)
<1>1. PICK m \in Seq(TaskSet) : m = micro
    BY DEF StorageShape, ShimShape
<1>2. PICK i \in DOMAIN m : m[i].who = t /\ m[i].what = "answer" /\ ~m[i].ok
    BY <1>1 DEF RefusedAnswer
<1>3. m # <<>> /\ i # 1
    BY <1>1, <1>2
<1>4. Tail(m) \in Seq(TaskSet) /\ i - 1 \in DOMAIN Tail(m) /\ Tail(m)[i - 1] = m[i]
    BY <1>1, <1>2, <1>3
<1>5. ASSUME NEW n \in Seq(TaskSet), NEW j \in DOMAIN n, n[j] = m[i], Longer(n, micro', q)
      PROVE  RefusedAnswer(micro', t)
  <2>1. j \in DOMAIN micro' /\ micro'[j] = m[i]
    <3>1. \A a \in TaskSet : /\ Append(n, a) \in Seq(TaskSet)
                             /\ j \in DOMAIN Append(n, a) /\ Append(n, a)[j] = n[j]
        BY <1>5
    <3>2. ASSUME NEW a \in TaskSet, NEW b \in TaskSet
          PROVE  j \in DOMAIN Append(Append(n, a), b) /\ Append(Append(n, a), b)[j] = n[j]
        BY <1>5, <3>1
    <3> QED BY <1>5, <3>1, <3>2 DEF Longer, TaskOf
  <2> QED BY <1>2, <2>1 DEF RefusedAnswer
<1> QED BY <1>1, <1>2, <1>4, <1>5 DEF QueueStep

\* What keeps the puts of a transaction standing.
LEMMA PutsKeep ==
    ASSUME Orderly, IInv, [Next]_vars, NEW t, Puts(t), txs'[t].puts = txs[t].puts,
           \A p \in txs[t].puts : PutStands(t, p) => PutStands(t, p)'
    PROVE  Puts(t)'
<1>1. /\ ops \in Nat /\ ops' \in Nat /\ ops <= ops'
      /\ \A f \in pending' : f \in pending \/ f.id = ops + 1
    BY StoreAdvances
<1>2. \A p \in txs[t].puts : PutIsMade(p) => PutIsMade(p)'
    BY <1>1 DEF PutIsMade
<1> QED BY <1>2 DEF Puts

LEMMA StandsStill ==
    ASSUME Orderly, IInv, [Next]_vars, NEW t, Puts(t), txs'[t].puts = txs[t].puts,
           txs[t].refused => txs'[t].refused, Waits(t) \subseteq Waits(t)',
           RefusedAnswer(micro, t) => RefusedAnswer(micro', t) \/ txs'[t].refused
    PROVE  Puts(t)'
<1>1. \A k \in Keys : /\ disk[k].ver \in Nat /\ disk'[k].ver \in Nat
                      /\ disk[k].ver <= disk'[k].ver
    BY StoreAdvances
<1>2. ASSUME NEW p \in txs[t].puts, PutStands(t, p) PROVE PutStands(t, p)'
  <2>1. Rec(p.key) \in Keys /\ p.id \in Nat
      BY <1>2, KeysApart DEF Puts, PutIsMade
  <2>2. p.id <= disk[Rec(p.key)].ver => p.id <= disk'[Rec(p.key)].ver
      BY <1>1, <2>1
  <2> QED BY <1>2, <2>2 DEF PutStands
<1> QED BY <1>2, PutsKeep

\* A transaction without puts.
LEMMA NoPuts ==
    ASSUME NEW t, txs'[t].puts = {}
    PROVE  Puts(t)'
BY DEF Puts, LastOfRecord

\* The steps of a transaction that put nothing.
LEMMA QuietPuts ==
    ASSUME Orderly, StorageShape, IInv, BookInv, [StorageNext]_storageVars, NEW t \in Txs, Puts(t),
           TxStep(t), ~Put(t), ~OnComplete(t)
    PROVE  Puts(t)'
<1>1. /\ DOMAIN txs = Txs /\ DOMAIN txs[t] = TxFields /\ HasTurn(t)
      /\ WaitIds /\ Booked(t) /\ [Next]_vars
    BY StorageUsesStore DEF StorageShape, ShimShape, TxShape, BookInv, Booked
<1>2. QueueStep(t) /\ WaitStep(t)
    BY TxQueue DEF TxStep
<1>3. Waits(t) \subseteq Waits(t)'
    BY <1>2 DEF WaitStep, Waits
<1>4. CASE DropDatabase(t) \/ \E prog \in Programs : OpenDatabase(t, prog)
  <2>1. txs'[t].puts = {}
      BY <1>1, <1>4 DEF DropDatabase, OpenDatabase, NoTx
  <2> QED BY <2>1, NoPuts
<1>5. CASE OnDropped(t)
  <2>1. Turn(t, "dropped") /\ txs'[t].puts = txs[t].puts
      BY <1>1, <1>5 DEF OnDropped, TxFields
  <2>2. txs[t].at = "dropping"
      BY <1>1, <2>1, TurnSays
  <2>3. txs[t].puts = {}
      BY <1>1, <2>2 DEF Booked, Phase, Active
  <2> QED BY <2>1, <2>3, NoPuts
<1>6. CASE OnAnswer(t)
  <2>1. txs'[t].puts = txs[t].puts /\ txs'[t].refused = (txs[t].refused \/ ~Ok)
      BY <1>1, <1>6 DEF OnAnswer, TxFields
  <2>2. RefusedAnswer(micro, t) => RefusedAnswer(micro', t) \/ txs'[t].refused
      BY <1>2, <2>1, RefusalStays DEF Ok
  <2> QED BY <1>1, <1>3, <2>1, <2>2, StandsStill
<1>7. CASE \/ OnOpen(t) \/ NewTransaction(t) \/ EndTurn(t) \/ Get(t) \/ GetAll(t) \/ ReadKeys(t)
           \/ PutBad(t) \/ Erase(t) \/ EraseOne(t) \/ OnTick(t) \/ OnCallback(t)
  <2>1. txs'[t].puts = txs[t].puts /\ (txs[t].refused => txs'[t].refused)
    <3>1. CASE OnOpen(t) \/ NewTransaction(t) \/ EndTurn(t) \/ OnTick(t) \/ OnCallback(t)
        BY <1>1, <3>1 DEF OnOpen, NewTransaction, EndTurn, OnTick, OnCallback, TxFields
    <3>2. CASE Get(t) \/ GetAll(t) \/ ReadKeys(t)
        BY <1>1, <3>2, ZenonT(60) DEF Get, GetAll, Read, ReadKeys, Issued, OpStart, TxFields
    <3>3. CASE PutBad(t) \/ Erase(t)
        BY <1>1, <3>3, ZenonT(60) DEF PutBad, Erase, Issued, OpStart, TxFields
    <3>4. CASE EraseOne(t)
      <4>1. \E todo, ids : txs' = [txs EXCEPT ![t].todo = todo, ![t].ids = ids]
          BY <3>4 DEF EraseOne
      <4> QED BY <1>1, <4>1 DEF TxFields
    <3> QED BY <1>7, <3>1, <3>2, <3>3, <3>4
  <2>2. Head(micro).what # "answer"
    <3>1. CASE EraseOne(t)
        BY <1>1, <3>1 DEF EraseOne, HasTurn, Turn
    <3>2. CASE ~EraseOne(t)
        BY <1>7, <3>2 DEF OnOpen, NewTransaction, EndTurn, Get, GetAll, ReadKeys, PutBad, Erase,
               OnTick, OnCallback, Issuing, Turn
    <3> QED BY <3>1, <3>2
  <2> QED BY <1>1, <1>2, <1>3, <2>1, <2>2, RefusalStays, StandsStill
<1> QED BY <1>4, <1>5, <1>6, <1>7 DEF TxStep, DatabaseTask

\* A put waits for the flush it has started, the last of its record.
LEMMA PutPuts ==
    ASSUME Orderly, StorageShape, IInv, [StorageNext]_storageVars, NEW t \in Txs, Puts(t), Put(t)
    PROVE  Puts(t)'
<1>1. /\ DOMAIN txs = Txs /\ DOMAIN txs[t] = TxFields /\ [Next]_vars
    BY StorageUsesStore DEF StorageShape, ShimShape, TxShape
<1>2. PICK new : new = [key |-> Request(t).key, id |-> ops + 1]
    OBVIOUS
<1>3. /\ txs'[t].puts = txs[t].puts \cup {new} /\ txs'[t].refused = txs[t].refused
      /\ ops' = ops + 1 /\ waiting \subseteq waiting'
      /\ pending' = pending \cup {[id |-> ops', key |-> Rec(new.key), kind |-> "set", out |-> cache']}
      /\ new.key \in Records /\ new.id = ops + 1
  <2>1. txs'[t].puts = txs[t].puts \cup {new} /\ txs'[t].refused = txs[t].refused
      BY <1>1, <1>2 DEF Put, PutRecorded, OpStart, Issued, Request, TxFields
  <2>2. /\ ops' = ops + 1 /\ waiting \subseteq waiting'
        /\ pending' = pending \cup {[id |-> ops', key |-> Rec(new.key), kind |-> "set", out |-> cache']}
      BY <1>2 DEF Put, Set, Write, StartFlush
  <2>3. Request(t).key \in Records
      BY RequestFacts DEF Put
  <2> QED BY <1>2, <2>1, <2>2, <2>3
<1>4. /\ ops \in Nat /\ \A f \in pending : f.id \in Nat /\ f.id <= ops
      /\ disk' = disk
    BY <1>1, StoreAdvances DEF Put, Set, Write
<1>5. PutIsMade(new)'
    BY <1>3, <1>4 DEF PutIsMade
<1>6. \A p \in txs[t].puts : PutIsMade(p)'
    BY <1>3, <1>4 DEF Puts, PutIsMade
<1>7. PutStands(t, new)'
  <2>0. PICK w : w = [task |-> Task(t, "answer"), ids |-> {ops + 1}]
      OBVIOUS
  <2>1. w \in waiting' /\ w.task.who = t /\ new.id \in w.ids
      BY <1>3, <2>0 DEF Put, Task
  <2> QED BY <2>1 DEF PutStands, Waits
<1>8. \A p \in txs[t].puts : PutStands(t, p)'
  <2>1. micro' = micro /\ Waits(t) \subseteq Waits(t)'
      BY <1>3 DEF Put, Waits
  <2> QED BY <1>3, <1>4, <2>1 DEF Puts, PutStands
<1>9. LastOfRecord(txs'[t].puts)
  <2>1. \A p \in txs[t].puts : p.id \in Nat /\ p.id <= ops
      BY DEF Puts, PutIsMade
  <2>2. ASSUME NEW p \in txs'[t].puts
        PROVE  \E q \in txs'[t].puts :
                  q.key = p.key /\ \A r \in txs'[t].puts : r.key = p.key => r.id <= q.id
    <3>1. CASE p.key = new.key
      <4>1. \A r \in txs'[t].puts : r.id <= new.id
          BY <1>3, <1>4, <2>1
      <4> QED BY <1>3, <3>1, <4>1
    <3>2. CASE p.key # new.key
      <4>1. PICK q \in txs[t].puts : q.key = p.key /\ \A r \in txs[t].puts : r.key = p.key => r.id <= q.id
          BY <1>3, <3>2 DEF Puts, LastOfRecord
      <4> QED BY <1>3, <3>2, <4>1
    <3> QED BY <3>1, <3>2
  <2> QED BY <2>2 DEF LastOfRecord
<1> QED BY <1>3, <1>5, <1>6, <1>7, <1>8, <1>9 DEF Puts

\* A flush that lands brings to the file the put that waited for it, and one that is
\* refused is told to the transaction.
LEMMA AnswerPuts ==
    ASSUME Orderly, StorageShape, IInv, BookInv, [StorageNext]_storageVars, NEW f \in pending,
           StoreAnswers(f), NEW t \in Txs, Puts(t)
    PROVE  Puts(t)'
<1>1. [Next]_vars /\ WaitIds /\ Booked(t)
    BY StorageUsesStore DEF BookInv, Booked
<1>2. micro = <<>> /\ txs' = txs
    BY AnswerWakes
<1>3. ~RefusedAnswer(micro, t)
    BY <1>2 DEF RefusedAnswer
<1>4. CASE micro' = <<>> /\ waiting' = waiting
    BY <1>1, <1>2, <1>3, <1>4, StandsStill DEF Waits
<1>5. ASSUME NEW w \in waiting, NEW ok \in BOOLEAN, Waker(f, w, ok)
      PROVE  Puts(t)'
  <2>1. \A k \in Keys : /\ disk[k].ver \in Nat /\ disk'[k].ver \in Nat
                        /\ disk[k].ver <= disk'[k].ver
      BY <1>1, StoreAdvances
  <2>2. ok => disk' = f.out /\ f.out[f.key].ver = f.id
      BY <1>5 DEF Waker, FlushLands, IInv, Ordered
  <2>3. \A v \in waiting : v # w => v \in waiting'
      BY <1>1, <1>5, WakerFacts
  <2>4. ASSUME NEW p \in txs[t].puts, PutStands(t, p) PROVE PutStands(t, p)'
    <3>1. /\ p.id \in Nat /\ Rec(p.key) \in Keys /\ (f.id = p.id => f.key = Rec(p.key))
        BY <2>4, KeysApart DEF Puts, PutIsMade
    <3>2. CASE p.id <= disk[Rec(p.key)].ver
      <4>1. p.id <= disk'[Rec(p.key)].ver
          BY <2>1, <3>1, <3>2
      <4> QED BY <4>1 DEF PutStands
    <3>3. CASE \E v \in Waits(t) : v # w /\ p.id \in v.ids
        BY <2>3, <3>3 DEF PutStands, Waits
    <3>4. CASE w \in Waits(t) /\ p.id \in w.ids
      <4>1. CASE ok /\ p.id = f.id
        <5>1. p.id <= disk'[Rec(p.key)].ver
            BY <2>2, <3>1, <4>1
        <5> QED BY <5>1 DEF PutStands
      <4>2. CASE p.id # f.id /\ \E v : /\ v.task = w.task /\ v.ids = w.ids \ {f.id}
                                     /\ waiting' = (waiting \ {w}) \cup {v}
          BY <3>4, <4>2 DEF PutStands, Waits
      <4>3. CASE ~ok /\ \E e \in TaskSet : /\ e.who = w.task.who /\ e.what = w.task.what /\ e.ok = ok
                                         /\ micro' = Append(<<>>, e)
        <5>1. PICK e \in TaskSet : /\ e.who = w.task.who /\ e.what = w.task.what /\ e.ok = ok
                                 /\ micro' = Append(<<>>, e)
            BY <4>3
        <5>2. w.task.who = t /\ w.task.what = "answer"
          <6>1. Book(t)
              BY <1>1, <2>4 DEF Booked, Phase
          <6> QED BY <3>4, <6>1 DEF Book, Waits
        <5>3. 1 \in DOMAIN micro' /\ micro'[1] = e
            BY <5>1
        <5>4. RefusedAnswer(micro', t)
            BY <4>3, <5>1, <5>2, <5>3 DEF RefusedAnswer
        <5> QED BY <5>4 DEF PutStands
      <4> QED BY <1>1, <1>5, <3>4, <4>1, <4>2, <4>3, WakerFacts
    <3>5. CASE txs[t].refused
        BY <1>2, <3>5 DEF PutStands
    <3> QED BY <1>3, <2>4, <3>2, <3>3, <3>4, <3>5 DEF PutStands
  <2> QED BY <1>1, <1>2, <2>4, PutsKeep
<1>6. (micro' = <<>> /\ waiting' = waiting) \/ \E w \in waiting, ok \in BOOLEAN : Waker(f, w, ok)
    BY AnswerWakes
<1> QED BY <1>4, <1>5, <1>6

\* When a transaction completes without an error its puts are in the file.
LEMMA CompletedPuts ==
    ASSUME StorageShape, BookInv, NEW t \in Txs, Puts(t), OnComplete(t), ~txs[t].error,
           NEW p \in txs[t].puts
    PROVE  p.id <= disk[Rec(p.key)].ver
<1>1. WaitIds /\ Booked(t) /\ Turn(t, "complete")
    BY DEF BookInv, Booked, OnComplete
<1>2. /\ micro \in Seq(TaskSet) /\ micro # <<>> /\ Head(micro).what = "complete"
      /\ txs[t].at \in {"running", "dropping"}
    BY <1>1, TurnSays
<1>3. txs[t].at = "running" /\ Book(t)
    BY <1>1, <1>2 DEF Booked, Phase, Active
<1>4. PICK l \in Seq(TaskSet) : l = Tail(micro)
  <2>1. Tail(micro) \in Seq(TaskSet)
      BY <1>2, Behind
  <2> QED BY <2>1
<1>5. /\ All(l, t) = 0
      /\ Queued(l, t, "callback") = Queued(micro, t, "callback") - 0
      /\ Queued(l, t, "complete") = Queued(micro, t, "complete") - 1
      /\ Queued(l, t, "complete") \in Nat
    BY <1>1, <1>3, <1>4, TurnTaken
<1>6. /\ Queued(micro, t, "callback") \in Nat /\ Queued(micro, t, "complete") \in Nat
      /\ Refusals(micro, t, "callback") \in Nat
      /\ Refusals(micro, t, "callback") <= Queued(micro, t, "callback")
      /\ txs[t].pending = 0 => Waits(t) = {}
    BY <1>1, <1>3, BookNumbers
<1>7. Queued(micro, t, "callback") = 0
  <2>1. Queued(l, t, "callback") \in Nat /\ Queued(l, t, "callback") <= 0
      BY <1>4, <1>5, CountTypes
  <2> QED BY <1>5, <1>6, <2>1
<1>8. Waits(t) = {}
  <2>1. txs[t].completed
      BY <1>3, <1>5, <1>6 DEF Book
  <2> QED BY <1>3, <1>6, <2>1 DEF Book
<1>9. ~txs[t].refused
  <2>1. ~(Refusals(micro, t, "callback") > 0)
      BY <1>6, <1>7
  <2> QED BY <1>3, <2>1 DEF Book
<1>10. ~RefusedAnswer(micro, t)
  <2> SUFFICES ASSUME RefusedAnswer(micro, t) PROVE FALSE
      OBVIOUS
  <2>1. PICK m \in Seq(TaskSet) : m = micro
      BY <1>2
  <2>2. PICK i \in DOMAIN m : m[i].who = t /\ m[i].what = "answer"
      BY <2>1 DEF RefusedAnswer
  <2>3. i # 1
      BY <1>2, <2>1, <2>2
  <2>4. i - 1 \in DOMAIN l /\ l[i - 1] = m[i] /\ m[i] \in TaskSet
      BY <1>4, <2>1, <2>2, <2>3
  <2>5. \A j \in DOMAIN l : l[j] \notin TaskOf(t)
      BY <1>4, <1>5, CountFacts DEF All
  <2> QED BY <2>2, <2>4, <2>5 DEF TaskOf
<1> QED BY <1>8, <1>9, <1>10 DEF Puts, PutStands

LEMMA CompletePromises ==
    ASSUME Orderly, StorageShape, IInv, BookInv, PutsInv, [StorageNext]_storageVars,
           NEW t \in Txs, OnComplete(t)
    PROVE  /\ DOMAIN promised' = Records
           /\ \A a \in Records : promised'[a] \in Nat /\ promised'[a] <= disk'[Rec(a)].ver
<1>1. /\ DOMAIN promised = Records /\ Puts(t) /\ disk' = disk
      /\ \A a \in Records : promised[a] \in Nat /\ promised[a] <= disk[Rec(a)].ver
    BY DEF PutsInv, PutIsDurable, OnComplete, StoreQuiet, vars
<1>2. CASE txs[t].error
  <2>1. promised' = promised
      BY <1>2 DEF OnComplete
  <2> QED BY <1>1, <2>1
<1>3. CASE ~txs[t].error
  <2> DEFINE Ids(a) == {p.id : p \in {q \in txs[t].puts : q.key = a}}
             Max(a) == CHOOSE i \in Ids(a) : \A j \in Ids(a) : j <= i
  <2>1. promised' = [a \in Records |-> IF Ids(a) = {} THEN promised[a] ELSE Later(promised[a], Max(a))]
      BY <1>3 DEF OnComplete
  <2>2. ASSUME NEW a \in Records, Ids(a) # {}
        PROVE  Max(a) \in Nat /\ Max(a) <= disk[Rec(a)].ver
    <3>1. PICK p \in txs[t].puts : p.key = a
        BY <2>2
    <3>2. PICK q \in txs[t].puts : q.key = p.key /\ \A r \in txs[t].puts : r.key = p.key => r.id <= q.id
        BY <1>1 DEF Puts, LastOfRecord
    <3>3. q.id \in Ids(a) /\ \A j \in Ids(a) : j <= q.id
        BY <3>1, <3>2
    <3>4. Max(a) \in Ids(a)
        BY <3>3
    <3>5. PICK r \in txs[t].puts : r.key = a /\ r.id = Max(a)
        BY <3>4
    <3>6. r.id \in Nat /\ r.id <= disk[Rec(r.key)].ver
        BY <1>1, <1>3, CompletedPuts DEF Puts, PutIsMade
    <3> QED BY <3>5, <3>6
  <2> HIDE DEF Ids, Max
  <2>3. ASSUME NEW a \in Records
        PROVE  promised'[a] = promised[a] \/ (promised'[a] = Max(a) /\ Ids(a) # {})
    <3>1. promised'[a] = IF Ids(a) = {} THEN promised[a] ELSE Later(promised[a], Max(a))
        BY <2>1
    <3> QED BY <3>1 DEF Later
  <2>4. DOMAIN promised' = Records
      BY <2>1
  <2> QED BY <1>1, <2>2, <2>3, <2>4
<1> QED BY <1>2, <1>3

LEMMA NextPuts ==
    ASSUME Orderly, StorageShape, IInv, BookInv, PutsInv, [StorageNext]_storageVars
    PROVE  PutsInv'
<1>1. /\ [Next]_vars /\ DOMAIN promised = Records
      /\ \A a \in Records : promised[a] \in Nat /\ promised[a] <= disk[Rec(a)].ver
      /\ \A t \in Txs : Puts(t)
    BY StorageUsesStore DEF PutsInv, PutIsDurable
<1>2. \A k \in Keys : /\ disk[k].ver \in Nat /\ disk'[k].ver \in Nat
                      /\ disk[k].ver <= disk'[k].ver
    BY <1>1, StoreAdvances
<1>3. ASSUME promised' = promised, \A t \in Txs : Puts(t)' PROVE PutsInv'
  <2>1. \A a \in Records : promised[a] <= disk'[Rec(a)].ver
      BY <1>1, <1>2, KeysApart
  <2> QED BY <1>1, <1>3, <2>1 DEF PutsInv, PutIsDurable
<1>4. ASSUME NEW t, Puts(t), txs' = txs, QueueStep(t) \/ micro' = micro, Waits(t) \subseteq Waits(t)',
             RefusedAnswer(micro, t) => RefusedAnswer(micro', t)
      PROVE  Puts(t)'
    BY <1>1, <1>4, StandsStill
<1>5. ASSUME NEW q, QueueStep(q), WaitStep(q), NEW t \in Txs, t # q, txs'[t] = txs[t]
      PROVE  Puts(t)'
  <2>1. Waits(t) \subseteq Waits(t)'
      BY <1>5 DEF WaitStep, Waits
  <2>2. RefusedAnswer(micro, t) => RefusedAnswer(micro', t)
    <3>1. CASE Head(micro).who = t
      <4>1. Longer(micro, micro', q)
          BY <1>5, <3>1 DEF QueueStep
      <4>2. PICK m \in Seq(TaskSet) : m = micro
          BY DEF StorageShape, ShimShape
      <4>3. ASSUME NEW i \in DOMAIN m, NEW a \in TaskSet, NEW b \in TaskSet
            PROVE  /\ i \in DOMAIN Append(m, a) /\ Append(m, a)[i] = m[i]
                   /\ i \in DOMAIN Append(Append(m, a), b) /\ Append(Append(m, a), b)[i] = m[i]
        <5>1. Append(m, a) \in Seq(TaskSet) /\ i \in DOMAIN Append(m, a) /\ Append(m, a)[i] = m[i]
            BY <4>2, <4>3
        <5> QED BY <5>1
      <4> QED BY <4>1, <4>2, <4>3 DEF RefusedAnswer, Longer, TaskOf
    <3> QED BY <1>5, <3>1, RefusalStays
  <2> QED BY <1>1, <1>5, <2>1, <2>2, StandsStill
<1>6. ASSUME NEW t \in Txs, TxStep(t) PROVE PutsInv'
  <2>1. QueueStep(t) /\ WaitStep(t) /\ DOMAIN txs = Txs /\ DOMAIN txs[t] = TxFields
        /\ \A u \in Txs \ {t} : txs'[u] = txs[u]
      BY <1>6, TxQueue, TxStepShape DEF TxStep, StorageShape, ShimShape, TxShape
  <2>2. \A u \in Txs \ {t} : Puts(u)'
      BY <1>5, <2>1
  <2>3. CASE OnComplete(t)
    <3>1. txs'[t].puts = {}
        BY <2>1, <2>3 DEF OnComplete, TxFields
    <3>2. Puts(t)'
        BY <3>1, NoPuts
    <3> QED BY <2>2, <2>3, <3>2, CompletePromises DEF PutsInv, PutIsDurable
  <2>4. CASE ~OnComplete(t)
    <3>1. Puts(t)'
        BY <1>1, <1>6, <2>4, PutPuts, QuietPuts
    <3>2. promised' = promised
        BY <1>6, <2>4 DEF TxStep, OpenDatabase, DatabaseTask, DropDatabase, OnOpen, NewTransaction,
               EndTurn, Get, GetAll, Read, ReadKeys, Put, PutBad, Erase, EraseOne, OnTick, OnAnswer,
               OnCallback, OnDropped
    <3> QED BY <1>3, <2>2, <3>1, <3>2
  <2> QED BY <2>3, <2>4
<1>7. ASSUME NEW x \in Cachers, CallStep(x) PROVE PutsInv'
  <2>1. QueueStep(x) /\ WaitStep(x) /\ txs' = txs /\ \A t \in Txs : t # x
      BY <1>7, CallQueue, StorageAssumption
  <2>2. promised' = promised
      BY <1>7 DEF CallStep, CallCache, CacheTask, Open, Named, Opened, PutMeta, PutBody, ReadIndex,
             AddToIndex, RemoveFromIndex, DeleteEntry, Wipe, WipeBegins, WipeEntry, WipeIndex,
             Unname, Settle, DatabaseSide
  <2> QED BY <1>3, <1>5, <2>1, <2>2
<1>8. ASSUME NEW f \in pending, StoreAnswers(f) PROVE PutsInv'
  <2>1. promised' = promised
      BY <1>8 DEF StoreAnswers
  <2> QED BY <1>1, <1>3, <1>8, <2>1, AnswerPuts
<1>9. ASSUME UNCHANGED <<micro, waiting, txs, promised>> PROVE PutsInv'
  <2>1. ASSUME NEW t \in Txs PROVE Puts(t)'
    <3>1. Waits(t)' = Waits(t)
        BY <1>9 DEF Waits
    <3> QED BY <1>1, <1>9, <3>1, StandsStill
  <2> QED BY <1>3, <1>9, <2>1
<1>10. ASSUME NEW i \in Items, SetItem(i) \/ RemoveItem(i) PROVE PutsInv'
    BY <1>9, <1>10 DEF SetItem, RemoveItem, ShimsIdle
<1>11. CASE StorageRestart
  <2>1. promised' = promised /\ \A t \in Txs : txs'[t].puts = {}
      BY <1>11 DEF StorageRestart, NoTx
  <2> QED BY <1>3, <2>1, NoPuts
<1>12. CASE UNCHANGED storageVars
    BY <1>9, <1>12 DEF storageVars, shimVars
<1> QED BY <1>6, <1>7, <1>8, <1>10, <1>11, <1>12 DEF StorageNext, TxStep, CallStep

\* What a put that resolved has written, or something later, is in the file, over
\* failed flushes and restarts and whatever the other shims write.
THEOREM ResolvedPutsStay ==
    ASSUME Orderly, KeysEndNothing
    PROVE  StorageSpec => []PutIsDurable
<1>1. StorageInit => PutsInv
  <2> SUFFICES ASSUME StorageInit PROVE PutsInv
      OBVIOUS
  <2>1. /\ DOMAIN promised = Records /\ \A a \in Records : promised[a] = 0
        /\ disk = Fresh /\ \A t \in Txs : txs[t].puts = {}
      BY DEF StorageInit, Init, NoTx
  <2>2. \A t \in Txs : Puts(t)
      BY <2>1 DEF Puts, LastOfRecord
  <2>3. \A a \in Records : promised[a] <= disk[Rec(a)].ver
    <3> SUFFICES ASSUME NEW a \in Records PROVE promised[a] <= disk[Rec(a)].ver
        OBVIOUS
    <3>1. PICK k \in Keys : k = Rec(a)
        BY KeysApart
    <3>2. promised[a] = 0 /\ disk = Fresh /\ Fresh[k].ver = 0
        BY <2>1, FreshFacts
    <3> QED BY <3>1, <3>2
  <2> QED BY <2>1, <2>2, <2>3 DEF PutsInv, PutIsDurable
<1>2. StorageInit => BookInv
    BY NoneBooked
<1>3. StorageSpec => []IInv
    BY Inductive, StorageIsStore, PTL
<1>4. PutsInv => PutIsDurable
    BY DEF PutsInv
<1> QED BY <1>1, <1>2, <1>3, <1>4, NextBook, NextPuts, StorageTypeCorrect, PTL DEF StorageSpec
================================================================================
