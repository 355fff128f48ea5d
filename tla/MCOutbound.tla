------------------------------ MODULE MCOutbound ------------------------------
(* Outbound with two digits of varint, ids of four bytes and a server that holds *)
(* a conversation of two, one with oneself, or both in either order.             *)
EXTENDS Outbound

Me == <<1, 2, 3, 7>>
Friend == <<4, 0, 5, 1>>
Dm == [id |-> <<6, 6, 0, 1>>, type |-> 13, participants |-> <<Me, Friend>>, idFirst |-> FALSE,
       messages |-> <<[id |-> 5, sender |-> Friend], [id |-> 4, sender |-> Me]>>]
Notes == [id |-> <<7, 1, 1, 1>>, type |-> 4, participants |-> <<Me>>, idFirst |-> TRUE,
          messages |-> <<[id |-> 6, sender |-> Me]>>]
SomeIds == <<1, 2, 1>>
SmallMailboxes == {<<Dm>>, <<Notes, Dm>>, <<>>}
=============================================================================
