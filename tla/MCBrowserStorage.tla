---------------------------- MODULE MCBrowserStorage ----------------------------
(* BrowserStorage with the keys spelled out and the transactions a run tries.   *)
EXTENDS BrowserStorage

AllKeys == {Rec(a) : a \in Records} \cup {Item(i) : i \in Items}
           \cup {Meta(r) : r \in Requests} \cup {Body(r) : r \in Requests}
           \cup {NamesKey, IndexKey}

Do(do, a) == [do |-> do, key |-> a]

SomePrograms ==
    {<<Do("get", "a"), Do("putBad", "a")>>,
     <<Do("getAll", "a"), Do("put", "a"), Do("put", "b")>>,
     <<Do("clear", "a"), Do("getAllKeys", "a")>>}
================================================================================
