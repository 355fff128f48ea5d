--------------------------- MODULE PresenceBridge ---------------------------
(***************************************************************************)
(* The duplex bridge createPresenceBridge (bundle/presence-bridge.ts)      *)
(* builds between the bundle's presence layer and the messaging engine En. *)
(*                                                                         *)
(* En.registerDuplexHandler is external and may answer with a promise, so  *)
(* a registration is outstanding for a while; it may also throw at once.   *)
(* A registration is its number in `regs', the channels En was asked for;  *)
(* its handle bears the same number.                                       *)
(***************************************************************************)
EXTENDS Naturals, Sequences, SequencesExt, FiniteSets

CONSTANTS
    Channels,
    MaxRegs,     \* bound: registrations asked of En
    MaxCalls,    \* bound: calls of the presence layer
    None         \* no send

ASSUME BridgeAssumption ==
    /\ MaxRegs \in Nat /\ MaxCalls \in Nat

VARIABLES
    handles,     \* closure: channel -> handle, in insertion order
    pending,     \* closure: the outstanding registration of a channel, or 0
    rejected,    \* channels whose entry in `pending' is a rejected promise
    regs,        \* registrations asked of En
    live,        \* registrations En delivers frames to
    wanted,      \* channels the presence layer registered last, not unregistered
    failed,      \* those whose last registerHandler En has refused
    last,        \* the last send: its channel, its handle, was one outstanding
    calls

closure == <<handles, pending, rejected>>
vars == <<closure, regs, live, wanted, failed, last, calls>>

Reg == 1..Len(regs)
Cached(c) == \E i \in DOMAIN handles : handles[i].channel = c
Entry(c) == CHOOSE i \in DOMAIN handles : handles[i].channel = c
HandleOf(c) == handles[Entry(c)].reg
Busy(c) == pending[c] # 0 \/ c \in rejected

Init ==
    /\ handles = <<>>
    /\ pending = [c \in Channels |-> 0]
    /\ rejected = {}
    /\ regs = <<>>
    /\ live = {}
    /\ wanted = {}
    /\ failed = {}
    /\ last = None
    /\ calls = 0

Call == calls < MaxCalls /\ calls' = calls + 1

-----------------------------------------------------------------------------
(* Mutant of Known: a registration under way is not looked for. *)
KnownHandleOnly(c) == Cached(c)

(* ensureHandle answers from its maps. *)
Known(c) == Cached(c) \/ Busy(c)

(* registerHandler on a channel with a handle or a promise: the handler is *)
(* left where it is and En is not asked.                                   *)
RegisterKnown(c) ==
    /\ Call
    /\ Known(c)
    /\ wanted' = wanted \cup {c}
    /\ failed' = failed \ {c}
    /\ UNCHANGED <<closure, regs, live, last>>

(* registerHandler asks En, which has the handler from now on. *)
Register(c) ==
    /\ Call
    /\ ~Known(c)
    /\ Len(regs) < MaxRegs
    /\ regs' = Append(regs, c)
    /\ pending' = [pending EXCEPT ![c] = Len(regs) + 1]
    /\ live' = live \cup {Len(regs) + 1}
    /\ wanted' = wanted \cup {c}
    /\ failed' = failed \ {c}
    /\ UNCHANGED <<handles, rejected, last>>

(* En throws before it returns: `finally' deletes an entry that is only    *)
(* set afterwards, and the rejected promise stays in the map.              *)
RegisterThrows(c) ==
    /\ Call
    /\ ~Known(c)
    /\ rejected' = rejected \cup {c}
    /\ wanted' = wanted \cup {c}
    /\ failed' = failed \cup {c}
    /\ UNCHANGED <<handles, pending, regs, live, last>>

(* En's promise resolves: the handle is cached, the promise forgotten. *)
Resolve(c) ==
    /\ pending[c] # 0
    /\ handles' = Append(handles, [channel |-> c, reg |-> pending[c]])
    /\ pending' = [pending EXCEPT ![c] = 0]
    /\ UNCHANGED <<rejected, regs, live, wanted, failed, last, calls>>

(* Mutant of Reject: the promise stays in the map. *)
RejectKept(c) ==
    /\ pending[c] # 0
    /\ live' = live \ {pending[c]}
    /\ failed' = failed \cup {c}
    /\ UNCHANGED <<handles, pending, rejected, regs, wanted, last, calls>>

(* En's promise rejects: En has dropped the handler. *)
Reject(c) ==
    /\ pending[c] # 0
    /\ live' = live \ {pending[c]}
    /\ failed' = failed \cup {c}
    /\ pending' = [pending EXCEPT ![c] = 0]
    /\ UNCHANGED <<handles, rejected, regs, wanted, last, calls>>

(* unregisterHandler: the cached handle, if there is one, is dropped. *)
Unregister(c) ==
    /\ Call
    /\ wanted' = wanted \ {c}
    /\ IF Cached(c)
       THEN handles' = RemoveAt(handles, Entry(c)) /\ live' = live \ {HandleOf(c)}
       ELSE UNCHANGED <<handles, live>>
    /\ UNCHANGED <<pending, rejected, regs, failed, last>>

(* The handle a send goes by: its own channel's, else the oldest, else     *)
(* none, which is answered with onError("UNAVAILABLE").                    *)
SendBy(c) ==
    CASE Cached(c) -> HandleOf(c)
      [] ~Cached(c) /\ handles # <<>> -> handles[1].reg
      [] OTHER -> 0

Send(c) ==
    /\ Call
    /\ last' = [channel |-> c, by |-> SendBy(c), outstanding |-> pending[c] # 0]
    /\ UNCHANGED <<closure, regs, live, wanted, failed>>

Next ==
    \E c \in Channels :
        \/ RegisterKnown(c) \/ Register(c) \/ RegisterThrows(c)
        \/ Resolve(c) \/ Reject(c) \/ Unregister(c) \/ Send(c)

Spec == Init /\ [][Next]_vars

-----------------------------------------------------------------------------
(* The shape of the state: one handle per channel, in the order they came. *)
TypeOK ==
    /\ handles \in Seq([channel : Channels, reg : Reg])
    /\ \A i, j \in DOMAIN handles : handles[i].channel = handles[j].channel => i = j
    /\ pending \in [Channels -> 0..Len(regs)]
    /\ rejected \subseteq Channels
    /\ regs \in Seq(Channels)
    /\ live \subseteq Reg
    /\ wanted \subseteq Channels /\ failed \subseteq Channels
    /\ last = None \/ last \in [channel : Channels, by : 0..Len(regs), outstanding : BOOLEAN]
    /\ calls \in 0..MaxCalls

(* En and the bridge agree: what En delivers to is what the bridge can     *)
(* still drop or send by, and every handle it sends by is registered.      *)
EngineAgrees ==
    live = ({h.reg : h \in Range(handles)} \cup {pending[c] : c \in Channels}) \ {0}

(* En never has two registrations of a channel, whatever the presence      *)
(* layer does while one is outstanding: no frame is heard twice.           *)
OnePerChannel ==
    \A r, s \in live : regs[r] = regs[s] => r = s

(* A channel the presence layer asked for is registered or about to be,    *)
(* unless En has refused the last request, or threw: a refusal that comes  *)
(* by promise does not stop a retry.                                       *)
WantedIsServed ==
    \A c \in wanted \ (failed \cup rejected) : \E r \in live : regs[r] = c

-----------------------------------------------------------------------------
(* What the documentation says and the code does not keep; see the README. *)

(* "unregisterHandler - drop the channel registration": a channel the      *)
(* presence layer left has no registration once nothing is outstanding.    *)
UnregisterDrops ==
    \A c \in Channels \ wanted : pending[c] = 0 => \A r \in live : regs[r] # c

(* "We resolve once and replay any sends queued during the resolution      *)
(* window": a send while a registration is outstanding is not refused.     *)
SendsAwaitTheHandle == last # None /\ last.outstanding => last.by # 0

(* A retry is possible also after En threw before it returned a promise.   *)
ThrowIsRetried ==
    \A c \in wanted \ failed : \E r \in live : regs[r] = c
=============================================================================
