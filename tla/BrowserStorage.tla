----------------------------- MODULE BrowserStorage -----------------------------
(* IndexedDB, the Cache API and localStorage of the sandbox, all over one        *)
(* FileStore.  `micro` is the event loop's microtask queue: its head runs to the *)
(* end before anything else does, and a flush lands only when it is empty.  A    *)
(* promise of the store is an entry of `waiting` that becomes a microtask.       *)
(* There is one database with one object store, and one named cache.             *)
EXTENDS FileStore, Sequences

CONSTANTS
    Txs,          \* calls on IndexedDB that can overlap
    Cachers,      \* calls on the Cache API that can overlap
    Records,      \* keys of the object store
    Requests,     \* requests the cache is asked for
    Items,        \* keys of localStorage
    Programs,     \* what a transaction issues in one turn: sequences of Op
    MaxStarts     \* bound: calls over all process lives

Op == [do : {"get", "put", "putBad", "delete", "clear", "getAll", "getAllKeys"},
       key : Records]

Rec(a) == <<"indexdb", a>>
Meta(r) == <<"meta", r>>
Body(r) == <<"body", r>>
Item(i) == <<"local", i>>
NamesKey == <<"cache", "_index">>
IndexKey == <<"cache:name", "_index">>

ASSUME StorageAssumption ==
    /\ Keys = {Rec(a) : a \in Records} \cup {Item(i) : i \in Items}
              \cup {Meta(r) : r \in Requests} \cup {Body(r) : r \in Requests}
              \cup {NamesKey, IndexKey}
    /\ Programs \subseteq Seq(Op)
    /\ Txs \cap Cachers = {}
    /\ MaxStarts \in Nat

VARIABLES
    known,        \* IDBFactoryShim.versions has the database
    opened,       \* CacheStorageImpl.opened has the cache
    txs,          \* IndexedDB calls
    cachers,      \* Cache API calls
    micro,        \* the microtask queue
    waiting,      \* continuations, with the writes they wait for
    says,         \* by write: the list an index was written with
    starts,       \* calls made
    promised,     \* history: by record, the last put whose helper resolved
    wiped         \* history: a caches.delete has begun and not returned

shimVars == <<known, opened, txs, cachers, micro, waiting, says, starts, promised, wiped>>
storageVars == <<vars, shimVars>>

\* A call of openDb and runOp.  `fresh`: open() saw no version; `next`: the
\* request to issue; `todo`, `ids`: keys still to delete and the writes that
\* deleted the others; `error`: opErr; `refused`, `puts`: history.
NoTx == [at |-> "idle", prog |-> <<>>, next |-> 1, fresh |-> FALSE, pending |-> 0,
         hadOp |-> FALSE, completed |-> FALSE, todo |-> {}, ids |-> {}, seen |-> 0,
         error |-> FALSE, refused |-> FALSE, puts |-> {}, settled |-> "no"]

\* A call on the cache: `names` and `idx` are the lists it has read.
NoCall == [at |-> "idle", do |-> "put", ref |-> NamesKey, names |-> {}, idx |-> {}]

Task(who, what) == [who |-> who, what |-> what, ok |-> TRUE]
Turn(who, what) ==
    micro # <<>> /\ Head(micro).who = who /\ Head(micro).what = what
Ok == Head(micro).ok
Queue(task) == micro' = Append(micro, task)
Then(tasks) == micro' = Tail(micro) \o tasks

Free(call) == call.at \in {"idle", "done"}

\* Calls are made in a turn of the event loop, several of them in one if it likes.
CallersTurn == \A i \in DOMAIN micro : micro[i].what \in {"open", "wipe"}
Start == CallersTurn /\ starts < MaxStarts /\ starts' = starts + 1

\* parseJson of the index at key k, [] for none.
Listed(map, k) == IF map[k].there THEN says[map[k].ver] ELSE {}

StorageInit ==
    /\ Init
    /\ known = FALSE /\ opened = FALSE
    /\ txs = [t \in Txs |-> NoTx]
    /\ cachers = [x \in Cachers |-> NoCall]
    /\ micro = <<>> /\ waiting = {}
    /\ says = [n \in 1 .. MaxOps |-> {}]
    /\ starts = 0
    /\ promised = [a \in Records |-> 0]
    /\ wiped = FALSE

StoreQuiet == UNCHANGED <<vars, waiting>>

-------------------------------------------------------------------------------
(* IndexedDB: the helpers' openDb and runOp, the factory, the transaction and   *)
(* its requests.                                                                *)

CacheSide == UNCHANGED <<opened, cachers, says, wiped>>

\* openDb: open() compares the version in the call, the callbacks come later.
OpenDatabase(t, prog) ==
    /\ Free(txs[t]) /\ Start
    /\ txs' = [txs EXCEPT ![t] = [NoTx EXCEPT !.at = "opening", !.prog = prog,
                                              !.fresh = ~known]]
    /\ Queue(Task(t, "open"))
    /\ StoreQuiet /\ CacheSide /\ UNCHANGED <<known, promised>>

\* onupgradeneeded if the version is new, then onsuccess, which resolves openDb.
OnOpen(t) ==
    /\ Turn(t, "open")
    /\ known' = (known \/ txs[t].fresh)
    /\ txs' = [txs EXCEPT ![t].at = "opened"]
    /\ Then(<<Task(t, "run")>>)
    /\ StoreQuiet /\ CacheSide /\ UNCHANGED <<starts, promised>>

\* The constructor queues the tick that completes a transaction without requests.
NewTransaction(t) ==
    /\ Turn(t, "run") /\ txs[t].at = "opened"
    /\ txs' = [txs EXCEPT ![t].at = "issuing"]
    /\ Queue(Task(t, "tick"))
    /\ StoreQuiet /\ CacheSide /\ UNCHANGED <<known, starts, promised>>

Issuing(t, kinds) ==
    /\ Turn(t, "run") /\ txs[t].at = "issuing" /\ txs[t].todo = {}
    /\ txs[t].next <= Len(txs[t].prog)
    /\ txs[t].prog[txs[t].next].do \in kinds
Request(t) == txs[t].prog[txs[t].next]

Issued(tx) == [tx EXCEPT !.next = @ + 1]
OpStart(tx) == [tx EXCEPT !.hadOp = TRUE, !.pending = @ + 1]
\* _tryComplete: what the transaction queues when it comes to have `left` pending.
Ends(tx, left) == left = 0 /\ ~tx.completed
Completion(t, left) == IF Ends(txs[t], left) THEN <<Task(t, "complete")>> ELSE <<>>

\* get() and getAll(): the store has the answer in the call.
Read(t) ==
    /\ txs' = [txs EXCEPT ![t] = OpStart(Issued(@))]
    /\ Queue(Task(t, "answer"))
    /\ StoreQuiet /\ CacheSide /\ UNCHANGED <<known, starts, promised>>
Get(t) == Issuing(t, {"get"}) /\ Read(t)
GetAll(t) == Issuing(t, {"getAll"}) /\ Read(t)

\* getAllKeys() ends its operation in the call: succeed(), then _opEnd().
ReadKeys(t) ==
    /\ Issuing(t, {"getAllKeys"})
    /\ LET tx == txs[t] IN
        txs' = [txs EXCEPT ![t] = [Issued(tx) EXCEPT
                 !.hadOp = TRUE, !.completed = tx.completed \/ Ends(tx, tx.pending)]]
    /\ micro' = Append(micro, Task(t, "callback")) \o Completion(t, txs[t].pending)
    /\ StoreQuiet /\ CacheSide /\ UNCHANGED <<known, starts, promised>>

PutRecorded(tx) == [tx EXCEPT !.puts = @ \cup {[key |-> tx.prog[tx.next].key, id |-> ops + 1]}]

\* Mutant: put() hands the store the value and does not wait for the flush.
PutUnawaited(t) ==
    /\ Issuing(t, {"put"})
    /\ SetSync(Rec(Request(t).key))
    /\ txs' = [txs EXCEPT ![t] = OpStart(Issued(PutRecorded(@)))]
    /\ Queue(Task(t, "answer"))
    /\ CacheSide /\ UNCHANGED <<known, waiting, starts, promised>>

Put(t) ==
    /\ Issuing(t, {"put"})
    /\ Set(Rec(Request(t).key))
    /\ txs' = [txs EXCEPT ![t] = OpStart(Issued(PutRecorded(@)))]
    /\ waiting' = waiting \cup {[task |-> Task(t, "answer"), ids |-> {ops + 1}]}
    /\ CacheSide /\ UNCHANGED <<known, micro, starts, promised>>

\* A value that JSON cannot encode: the request fails without an operation.
PutBad(t) ==
    /\ Issuing(t, {"putBad"})
    /\ txs' = [txs EXCEPT ![t] = [Issued(@) EXCEPT !.refused = TRUE]]
    /\ Queue([Task(t, "callback") EXCEPT !.ok = FALSE])
    /\ StoreQuiet /\ CacheSide /\ UNCHANGED <<known, starts, promised>>

\* delete() and clear(): the keys of the store that are there.
Found(keys) == {k \in keys : cache[k].there}
AllRecords == {Rec(a) : a \in Records}
Erase(t) ==
    /\ Issuing(t, {"delete", "clear"})
    /\ LET found == Found(IF Request(t).do = "clear" THEN AllRecords
                          ELSE {Rec(Request(t).key)}) IN
        /\ txs' = [txs EXCEPT ![t] = [OpStart(Issued(@)) EXCEPT !.todo = found]]
        /\ IF found = {} THEN Queue(Task(t, "answer")) ELSE UNCHANGED micro
    /\ StoreQuiet /\ CacheSide /\ UNCHANGED <<known, starts, promised>>

\* One of the deletes; after the last, Promise.all waits for the flushes of all.
EraseOne(t) ==
    /\ \E k \in txs[t].todo :
        /\ Delete(k)
        /\ LET last == txs[t].todo = {k}
               ids == txs[t].ids \cup {ops + 1}
               what == IF txs[t].at = "dropping" THEN "dropped" ELSE "answer"
           IN
            /\ txs' = [txs EXCEPT ![t].todo = @ \ {k}, ![t].ids = IF last THEN {} ELSE ids]
            /\ waiting' = IF last THEN waiting \cup {[task |-> Task(t, what), ids |-> ids]}
                          ELSE waiting
            /\ IF last /\ txs[t].at = "dropping" THEN Then(<<>>) ELSE UNCHANGED micro
    /\ CacheSide /\ UNCHANGED <<known, starts, promised>>

\* runOp has set its handlers and returns to the event loop.
EndTurn(t) ==
    /\ Turn(t, "run") /\ txs[t].at = "issuing" /\ txs[t].todo = {}
    /\ txs[t].next > Len(txs[t].prog)
    /\ txs' = [txs EXCEPT ![t].at = "running"]
    /\ Then(<<>>)
    /\ StoreQuiet /\ CacheSide /\ UNCHANGED <<known, starts, promised>>

\* Mutant: the tick completes a transaction whether or not it has requests.
TickCompletes(t) ==
    /\ Turn(t, "tick")
    /\ txs' = [txs EXCEPT ![t].completed = TRUE]
    /\ Then(Completion(t, 0))
    /\ StoreQuiet /\ CacheSide /\ UNCHANGED <<known, starts, promised>>

OnTick(t) ==
    /\ Turn(t, "tick")
    /\ IF txs[t].hadOp THEN UNCHANGED txs /\ Then(<<>>)
       ELSE /\ txs' = [txs EXCEPT ![t].completed = TRUE]
            /\ Then(Completion(t, 0))
    /\ StoreQuiet /\ CacheSide /\ UNCHANGED <<known, starts, promised>>

\* Mutant: a refusal calls back but does not end the operation.
OnAnswerUnended(t) ==
    /\ Turn(t, "answer")
    /\ LET left == txs[t].pending - (IF Ok THEN 1 ELSE 0) IN
        /\ txs' = [txs EXCEPT ![t].pending = left, ![t].refused = @ \/ ~Ok,
                              ![t].completed = @ \/ Ends(txs[t], left)]
        /\ Then(<<[Head(micro) EXCEPT !.what = "callback"]>> \o Completion(t, left))
    /\ StoreQuiet /\ CacheSide /\ UNCHANGED <<known, starts, promised>>

\* The store's answer: succeed() or fail() queues the callback, then _opEnd().
OnAnswer(t) ==
    /\ Turn(t, "answer")
    /\ LET left == txs[t].pending - 1 IN
        /\ txs' = [txs EXCEPT ![t].pending = left, ![t].refused = @ \/ ~Ok,
                              ![t].completed = @ \/ Ends(txs[t], left)]
        /\ Then(<<[Head(micro) EXCEPT !.what = "callback"]>> \o Completion(t, left))
    /\ StoreQuiet /\ CacheSide /\ UNCHANGED <<known, starts, promised>>

\* onsuccess and onerror as runOp sets them: opResult, opErr.
OnCallback(t) ==
    /\ Turn(t, "callback")
    /\ txs' = [txs EXCEPT ![t].seen = @ + 1, ![t].error = @ \/ ~Ok]
    /\ Then(<<>>)
    /\ StoreQuiet /\ CacheSide /\ UNCHANGED <<known, starts, promised>>

\* oncomplete settles the helper's promise.
OnComplete(t) ==
    /\ Turn(t, "complete")
    /\ txs' = [txs EXCEPT ![t].at = "done",
                 ![t].settled = IF txs[t].error THEN "rejected" ELSE "resolved",
                 ![t].puts = {}]
    /\ promised' = IF txs[t].error THEN promised
                   ELSE [a \in Records |->
                           LET ids == {p.id : p \in {q \in txs[t].puts : q.key = a}} IN
                           IF ids = {} THEN promised[a]
                           ELSE Later(promised[a], CHOOSE i \in ids : \A j \in ids : j <= i)]
    /\ Then(<<>>)
    /\ StoreQuiet /\ CacheSide /\ UNCHANGED <<known, starts>>

\* deleteDatabase(): the keys are listed and deleted in the call.
DropDatabase(t) ==
    /\ Free(txs[t]) /\ micro = <<>> /\ Start
    /\ LET found == Found(AllRecords) IN
        /\ txs' = [txs EXCEPT ![t] = [NoTx EXCEPT !.at = "dropping", !.todo = found]]
        /\ Queue(Task(t, IF found = {} THEN "dropped" ELSE "drop"))
    /\ StoreQuiet /\ CacheSide /\ UNCHANGED <<known, promised>>

\* The version is forgotten when every delete has resolved.
OnDropped(t) ==
    /\ Turn(t, "dropped")
    /\ known' = (known /\ ~Ok)
    /\ txs' = [txs EXCEPT ![t].refused = ~Ok, ![t].error = ~Ok]
    /\ Then(<<[Head(micro) EXCEPT !.what = "complete"]>>)
    /\ StoreQuiet /\ CacheSide /\ UNCHANGED <<starts, promised>>

-------------------------------------------------------------------------------
(* The Cache API: a call runs from await to await.                              *)

DatabaseSide == UNCHANGED <<known, txs, promised>>
Step(x, what) == Turn(x, what) /\ Ok
Resume(x, what) == Then(<<Task(x, what)>>) /\ StoreQuiet
Await(x, what) == waiting' = waiting \cup {[task |-> Task(x, what), ids |-> {ops + 1}]}

\* await store.set(k, value), and what follows it.
SetThen(x, k, what) == Set(k) /\ Await(x, what) /\ Then(<<>>)
WriteIndex(x, k, list, what) == SetThen(x, k, what) /\ says' = [says EXCEPT ![ops + 1] = list]

\* await store.delete(k): a key that is not there needs no flush.
DeleteThen(x, k, what) ==
    /\ Delete(k)
    /\ IF cache[k].there THEN Await(x, what) /\ Then(<<>>)
       ELSE Then(<<Task(x, what)>>) /\ UNCHANGED waiting

Call(x) == cachers[x]
Saw(x, field, list) == cachers' = [cachers EXCEPT ![x][field] = list]

\* caches.open(name) and a call on the cache, or caches.delete(name).
CallCache(x, do, r) ==
    /\ Free(Call(x)) /\ Start
    /\ cachers' = [cachers EXCEPT ![x] = [NoCall EXCEPT !.at = "running", !.do = do, !.ref = r]]
    /\ Queue(Task(x, IF do = "wipe" THEN "wipe" ELSE "open"))
    /\ StoreQuiet /\ DatabaseSide /\ UNCHANGED <<opened, says, wiped>>

Open(x) ==
    /\ Step(x, "open")
    /\ Saw(x, "names", Listed(cache, NamesKey))
    /\ Resume(x, IF opened THEN Call(x).do ELSE "named")
    /\ DatabaseSide /\ UNCHANGED <<opened, says, starts, wiped>>

Named(x) ==
    /\ Step(x, "named")
    /\ IF "name" \in Call(x).names
       THEN opened' = TRUE /\ Resume(x, Call(x).do) /\ UNCHANGED says
       ELSE WriteIndex(x, NamesKey, Call(x).names \cup {"name"}, "opened") /\ UNCHANGED opened
    /\ DatabaseSide /\ UNCHANGED <<cachers, starts, wiped>>

Opened(x) ==
    /\ Step(x, "opened")
    /\ opened' = TRUE
    /\ Resume(x, Call(x).do)
    /\ DatabaseSide /\ UNCHANGED <<cachers, says, starts, wiped>>

\* put(): the metadata, the body, then the index.
PutMeta(x) ==
    /\ Step(x, "put")
    /\ SetThen(x, Meta(Call(x).ref), "body")
    /\ DatabaseSide /\ UNCHANGED <<opened, cachers, says, starts, wiped>>

\* Mutant: an empty body is not stored.
PutBodyUnlessEmpty(x) ==
    /\ Step(x, "body")
    /\ \/ SetThen(x, Body(Call(x).ref), "list")
       \/ Resume(x, "list")
    /\ DatabaseSide /\ UNCHANGED <<opened, cachers, says, starts, wiped>>

PutBody(x) ==
    /\ Step(x, "body")
    /\ SetThen(x, Body(Call(x).ref), "list")
    /\ DatabaseSide /\ UNCHANGED <<opened, cachers, says, starts, wiped>>

\* addToIndex and removeFromIndex read the index, await, and write it.
ReadIndex(x) ==
    /\ Step(x, "list") \/ Step(x, "delete")
    /\ Saw(x, "idx", Listed(cache, IndexKey))
    /\ Resume(x, IF Call(x).do = "put" THEN "add" ELSE "remove")
    /\ DatabaseSide /\ UNCHANGED <<opened, says, starts, wiped>>

AddToIndex(x) ==
    /\ Step(x, "add")
    /\ IF Call(x).ref \in Call(x).idx THEN Resume(x, "done") /\ UNCHANGED says
       ELSE WriteIndex(x, IndexKey, Call(x).idx \cup {Call(x).ref}, "done")
    /\ DatabaseSide /\ UNCHANGED <<opened, cachers, starts, wiped>>

\* delete(): the index first, then the entry.
RemoveFromIndex(x) ==
    /\ Step(x, "remove")
    /\ IF Call(x).ref \notin Call(x).idx THEN Resume(x, "done") /\ UNCHANGED says
       ELSE WriteIndex(x, IndexKey, Call(x).idx \ {Call(x).ref}, "meta")
    /\ DatabaseSide /\ UNCHANGED <<opened, cachers, starts, wiped>>

DeleteEntry(x) ==
    /\ \/ Step(x, "meta") /\ DeleteThen(x, Meta(Call(x).ref), "rest")
       \/ Step(x, "rest") /\ DeleteThen(x, Body(Call(x).ref), "done")
    /\ DatabaseSide /\ UNCHANGED <<opened, cachers, says, starts, wiped>>

\* caches.delete(): the names, then _deleteAll over the index it reads.
Wipe(x) ==
    /\ Step(x, "wipe")
    /\ Saw(x, "names", Listed(cache, NamesKey))
    /\ Resume(x, "wiping")
    /\ DatabaseSide /\ UNCHANGED <<opened, says, starts, wiped>>

WipeBegins(x) ==
    /\ Step(x, "wiping")
    /\ IF "name" \in Call(x).names
       THEN /\ wiped' = TRUE
            /\ Saw(x, "idx", Listed(cache, IndexKey))
            /\ Resume(x, "next")
       ELSE Resume(x, "done") /\ UNCHANGED <<cachers, wiped>>
    /\ DatabaseSide /\ UNCHANGED <<opened, says, starts>>

WipeEntry(x) ==
    /\ \/ /\ Step(x, "next")
          /\ \E r \in Call(x).idx :
                /\ cachers' = [cachers EXCEPT ![x].ref = r, ![x].idx = @ \ {r}]
                /\ DeleteThen(x, Meta(r), "wipeBody")
       \/ /\ Step(x, "wipeBody")
          /\ DeleteThen(x, Body(Call(x).ref), "next")
          /\ UNCHANGED cachers
    /\ DatabaseSide /\ UNCHANGED <<opened, says, starts, wiped>>

WipeIndex(x) ==
    /\ Step(x, "next") /\ Call(x).idx = {}
    /\ DeleteThen(x, IndexKey, "unname")
    /\ DatabaseSide /\ UNCHANGED <<opened, cachers, says, starts, wiped>>

Unname(x) ==
    /\ Step(x, "unname")
    /\ opened' = FALSE
    /\ WriteIndex(x, NamesKey, Call(x).names \ {"name"}, "unnamed")
    /\ DatabaseSide /\ UNCHANGED <<cachers, starts, wiped>>

\* The call's promise resolves, or rejects with what a step threw.
Settle(x) ==
    /\ Turn(x, "done") \/ Turn(x, "unnamed") \/ (micro # <<>> /\ Head(micro).who = x /\ ~Ok)
    /\ cachers' = [cachers EXCEPT ![x].at = "done"]
    /\ wiped' = (wiped /\ ~(Turn(x, "unnamed") /\ Ok))
    /\ Then(<<>>)
    /\ StoreQuiet /\ DatabaseSide /\ UNCHANGED <<opened, says, starts>>

-------------------------------------------------------------------------------
(* localStorage over a store with getSync, and the store's own steps.           *)

ShimsIdle == UNCHANGED <<known, opened, txs, cachers, micro, waiting, says, promised, wiped>>

SetItem(i) == micro = <<>> /\ Start /\ SetSync(Item(i)) /\ ShimsIdle

\* removeItem(), and clear() key by key: nobody waits for these deletes.
RemoveItem(i) == micro = <<>> /\ Start /\ Delete(Item(i)) /\ ShimsIdle

\* A flush lands or is refused, and who waits for it goes on.
Wakes(f, ok) ==
    LET w == CHOOSE v \in waiting : f.id \in v.ids
        left == w.ids \ {f.id}
    IN
    IF \A v \in waiting : f.id \notin v.ids THEN UNCHANGED <<micro, waiting>>
    ELSE IF ok /\ left # {}
    THEN waiting' = (waiting \ {w}) \cup {[w EXCEPT !.ids = left]} /\ UNCHANGED micro
    ELSE waiting' = waiting \ {w} /\ Queue([w.task EXCEPT !.ok = ok])

StoreAnswers(f) ==
    /\ micro = <<>>
    /\ \/ FlushLands(f) /\ Wakes(f, TRUE)
       \/ FlushFails(f) /\ Wakes(f, FALSE)
    /\ UNCHANGED <<known, opened, txs, cachers, says, starts, promised, wiped>>

\* The process ends and the next one's shims start empty.  Between microtasks
\* nothing reaches the disk, so it is enough to stop where there are none.
StorageRestart ==
    /\ micro = <<>>
    /\ Restart
    /\ known' = FALSE /\ opened' = FALSE
    /\ txs' = [t \in Txs |-> NoTx]
    /\ cachers' = [x \in Cachers |-> NoCall]
    /\ waiting' = {}
    /\ UNCHANGED <<micro, says, starts, promised, wiped>>

DatabaseTask(t) ==
    \/ OnOpen(t) \/ NewTransaction(t) \/ EndTurn(t)
    \/ Get(t) \/ GetAll(t) \/ ReadKeys(t) \/ Put(t) \/ PutBad(t) \/ Erase(t) \/ EraseOne(t)
    \/ OnTick(t) \/ OnAnswer(t) \/ OnCallback(t) \/ OnComplete(t) \/ OnDropped(t)

CacheTask(x) ==
    \/ Open(x) \/ Named(x) \/ Opened(x)
    \/ PutMeta(x) \/ PutBody(x) \/ ReadIndex(x) \/ AddToIndex(x)
    \/ RemoveFromIndex(x) \/ DeleteEntry(x)
    \/ Wipe(x) \/ WipeBegins(x) \/ WipeEntry(x) \/ WipeIndex(x) \/ Unname(x)
    \/ Settle(x)

StorageNext ==
    \/ \E t \in Txs, prog \in Programs : OpenDatabase(t, prog)
    \/ \E t \in Txs : DropDatabase(t) \/ DatabaseTask(t)
    \/ \E x \in Cachers, r \in Requests, do \in {"put", "delete", "wipe"} : CallCache(x, do, r)
    \/ \E x \in Cachers : CacheTask(x)
    \/ \E i \in Items : SetItem(i) \/ RemoveItem(i)
    \/ \E f \in pending : StoreAnswers(f)
    \/ StorageRestart

\* Microtasks run, and a flush comes to an end.
StorageFairness ==
    /\ \A t \in Txs : WF_storageVars(DatabaseTask(t))
    /\ \A x \in Cachers : WF_storageVars(CacheTask(x))
    /\ WF_storageVars(\E f \in pending : StoreAnswers(f))

StorageSpec == StorageInit /\ [][StorageNext]_storageVars
FairStorageSpec == StorageSpec /\ StorageFairness

-------------------------------------------------------------------------------
(* Properties.                                                                 *)

\* idb-utils.ts:118-126, indexed-db.ts:262-276: a transaction completes after the
\* callbacks of all its requests, so the helper's promise is rejected exactly if
\* one of them was refused, whatever else runs between issue and answer.
SettlesWithOutcome ==
    \A t \in Txs : txs[t].at = "done" =>
        /\ txs[t].pending = 0 /\ txs[t].seen = Len(txs[t].prog)
        /\ txs[t].settled = "rejected" <=> txs[t].refused

\* idb-utils.ts:182-191: what an idbPut that resolved has written, or something
\* later, is in the file, over failed flushes and restarts.
PutIsDurable == \A a \in Records : promised[a] <= disk[Rec(a)].ver

\* cache-storage.ts:170-172, 216-221: an entry that the index in the file lists has
\* its metadata and body there, wherever the process died or a flush failed; for
\* one call on the cache at a time, and unless a caches.delete was cut short.
ListedIsStored ==
    ~wiped => \A r \in Listed(disk, IndexKey) :
                 disk[Meta(r)].there /\ disk[Body(r)].there

\* A call on a database or a cache settles, unless the process ends.
EveryStorageCallSettles ==
    /\ \A t \in Txs : ~Free(txs[t]) ~> Free(txs[t])
    /\ \A x \in Cachers : ~Free(cachers[x]) ~> Free(cachers[x])

-------------------------------------------------------------------------------
(* What the documentation says and the code does not keep; see the README.     *)

\* indexed-db.ts:367-370: "so upgradeneeded fires once per name".
UpgradeOnce ==
    [][\A t \in Txs : txs[t].at = "opening" /\ txs'[t].at = "opened" /\ txs[t].fresh
                      => ~known]_storageVars

\* cache-storage.ts:3-5: a stored response is whole: match() answers with the body
\* that was put.
StoredIsWhole == \A r \in Requests : disk[Meta(r)].there => disk[Body(r)].there
================================================================================
