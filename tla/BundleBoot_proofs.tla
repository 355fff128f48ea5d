------------------------- MODULE BundleBoot_proofs --------------------------
(***************************************************************************)
(* Theorems about BundleBoot, for any clients, callers, parts of a bundle  *)
(* and number of calls: its typing, that no interleaving of bring-ups and  *)
(* WASM boots evaluates the chat main twice in a sandbox, that the facade  *)
(* has a class behind it, and that a bringUp resolves after the boot.      *)
(***************************************************************************)
EXTENDS BundleBoot, TLAPS

Places == {"idle", "kameleon", "codecs", "store", "wasm", "polling"} \cup Settled

(* The flag is the count of evaluations.                                   *)
LoadedIsEvaluated == \A k \in Clients : evals[k] = IF loaded[k] THEN 1 ELSE 0

(* A boot that has resolved has found the classes, and so has the facade.  *)
ClassesBehind ==
    \A k \in Clients : facade[k] \/ at[k] = "resolved" => em[k] = "classes"

(* A caller in the chat bundle has kameleon and the location behind it,    *)
(* and a client that is marked has its boot behind it too.                 *)
PastKameleon ==
    \A c \in Callers : at[c] \in {"codecs", "store", "wasm"} =>
        kameleon[Owner[c]] = "up" /\ located[Owner[c]]
DoneAfterBoot ==
    \A k \in Clients : done[k] =>
        kameleon[k] = "up" /\ located[k] /\ at[k] \in Settled

IInv ==
    /\ TypeOK /\ LoadedIsEvaluated /\ ClassesBehind
    /\ PastKameleon /\ DoneAfterBoot /\ ResolvedAfterBoot

LEMMA InitIInv == Init => IInv
<1> SUFFICES ASSUME Init PROVE IInv OBVIOUS
<1>1. TypeOK
  <2>1. disk \subseteq Parts /\ moved \subseteq {"login", "runtime", "main"}
      BY DEF Init
  <2>2. calls \in 0..MaxCalls
      BY BootAssumption DEF Init
  <2> QED BY <2>1, <2>2 DEF Init, TypeOK
<1>2. LoadedIsEvaluated /\ ClassesBehind /\ DoneAfterBoot
    BY DEF Init, LoadedIsEvaluated, ClassesBehind, DoneAfterBoot, Actors
<1>3. PastKameleon /\ ResolvedAfterBoot
    BY DEF Init, PastKameleon, ResolvedAfterBoot, Actors
<1> QED BY <1>1, <1>2, <1>3 DEF IInv

(* A step of the download or of the accounts bundle touches neither the    *)
(* sandbox nor the callers, and a kameleon that is up stays up.            *)
LEMMA KameleonSteps ==
    ASSUME IInv, disk' \subseteq Parts, ensured' \in BOOLEAN,
           UNCHANGED <<moved, sandbox, facade, done, at, calls>>,
           kameleon' \in [Clients -> {"none", "downloading", "evaluating",
                                      "instantiating", "up", "rejected"}],
           \A k \in Clients : kameleon[k] = "up" => kameleon'[k] = "up"
    PROVE  IInv'
<1> USE BootAssumption DEF IInv, sandbox
<1>1. TypeOK'
    BY DEF TypeOK
<1>2. LoadedIsEvaluated' /\ ClassesBehind'
    BY DEF LoadedIsEvaluated, ClassesBehind
<1>3. PastKameleon' /\ DoneAfterBoot' /\ ResolvedAfterBoot'
    BY DEF PastKameleon, DoneAfterBoot, ResolvedAfterBoot
<1> QED BY <1>1, <1>2, <1>3

(* A step that moves one actor on, and of the sandboxes' state only what   *)
(* no part of the invariant reads; ResolvedAfterBoot and PastKameleon are  *)
(* the mover's to show.                                                    *)
LEMMA ActorMoves ==
    ASSUME IInv, NEW x \in Actors, NEW place \in Places, Goes(x, place),
           UNCHANGED <<disk, moved, ensured, kameleon, loaded, evals, em>>,
           runtime' \in [Clients -> BOOLEAN], wreq' \in [Clients -> BOOLEAN],
           codecs' \in [Clients -> BOOLEAN], store' \in [Clients -> BOOLEAN],
           located' \in [Clients -> BOOLEAN],
           \A k \in Clients : located[k] => located'[k],
           UNCHANGED <<facade, done, calls>>,
           at[x] \notin Settled,
           x \in Clients /\ place = "resolved" => em[x] = "classes",
           x \in Callers => place # "resolved",
           x \in Callers /\ place \in {"codecs", "store", "wasm"} =>
               kameleon[Owner[x]] = "up" /\ located'[Owner[x]]
    PROVE  IInv'
<1> USE BootAssumption DEF IInv
<1>1. /\ at' \in [Actors -> Places]
      /\ at'[x] = place /\ \A y \in Actors \ {x} : at'[y] = at[y]
      /\ \A y \in Actors : at[y] \in Settled => at'[y] = at[y]
    BY DEF TypeOK, Goes, Places
<1>2. TypeOK'
    BY <1>1 DEF TypeOK, Places
<1>3. LoadedIsEvaluated' /\ ClassesBehind'
    BY <1>1 DEF LoadedIsEvaluated, ClassesBehind, Actors
<1>4. DoneAfterBoot'
    BY <1>1 DEF DoneAfterBoot, Actors
<1>5. PastKameleon'
    BY <1>1 DEF PastKameleon, Actors
<1>6. ResolvedAfterBoot'
    BY <1>1 DEF ResolvedAfterBoot, Actors
<1> QED BY <1>2, <1>3, <1>4, <1>5, <1>6

(* The head of ensureChatBundle, by an actor of client k that is about to  *)
(* load the bundle.                                                        *)
LEMMA Ensures ==
    ASSUME IInv, NEW x \in Actors, NEW k \in Clients, EnsureChatBundle(x, k),
           UNCHANGED <<disk, moved, ensured, kameleon, codecs, store, em, facade, done, calls>>,
           located' \in [Clients -> BOOLEAN],
           \A j \in Clients : located[j] => located'[j],
           at[x] \notin Settled,
           x \in Callers => kameleon[Owner[x]] = "up" /\ located'[Owner[x]]
    PROVE  IInv'
<1> USE BootAssumption DEF IInv
<1>1. /\ runtime' \in [Clients -> BOOLEAN] /\ wreq' \in [Clients -> BOOLEAN]
    BY ZenonT(60) DEF EnsureChatBundle, EnsureChatRuntime, TypeOK
<1>2. PICK place \in {"wasm", "polling", "rejected", "codecs"} :
          Goes(x, place) /\ (place = "codecs" \/ UNCHANGED <<loaded, evals>>)
    BY DEF EnsureChatBundle, Ends, Throws
<1>3. CASE UNCHANGED <<loaded, evals>>
  <2>1. place \in Places /\ place # "resolved" /\ Goes(x, place)
    <3> HIDE DEF IInv
    <3> QED BY <1>2 DEF Places, Settled
  <2>2. codecs' \in [Clients -> BOOLEAN] /\ store' \in [Clients -> BOOLEAN]
      BY DEF TypeOK
  <2>3. /\ UNCHANGED <<disk, moved, ensured, kameleon, loaded, evals, em>>
        /\ UNCHANGED <<facade, done, calls>>
      BY <1>3
  <2> HIDE DEF IInv
  <2> QED BY <1>1, <2>1, <2>2, <2>3, ActorMoves
<1>4. CASE ~loaded[k] /\ MainEvaluated(k)
  <2>1. /\ at' \in [Actors -> Places]
        /\ at'[x] = place /\ \A y \in Actors \ {x} : at'[y] = at[y]
        /\ \A y \in Actors : at[y] \in Settled => at'[y] = at[y]
      BY <1>2 DEF TypeOK, Goes, Places, Settled
  <2>2. /\ evals' \in [Clients -> Nat] /\ loaded' \in [Clients -> BOOLEAN]
        /\ LoadedIsEvaluated'
      BY <1>4 DEF TypeOK, MainEvaluated, LoadedIsEvaluated
  <2>3. TypeOK'
      BY <1>1, <2>1, <2>2 DEF TypeOK, Places
  <2>4. ClassesBehind' /\ DoneAfterBoot'
      BY <1>2, <2>1 DEF ClassesBehind, DoneAfterBoot, Actors, Settled
  <2>5. PastKameleon'
      BY <1>2, <2>1 DEF PastKameleon, Actors
  <2>6. ResolvedAfterBoot'
      BY <1>2, <2>1 DEF ResolvedAfterBoot, Actors
  <2> QED BY <2>2, <2>3, <2>4, <2>5, <2>6
<1> QED BY <1>3, <1>4 DEF EnsureChatBundle

LEMMA LoaderIInv ==
    ASSUME IInv, NEW k \in Clients, Loader(k)
    PROVE  IInv'
<1> USE DEF IInv
<1>1. CASE ScriptEnds(k)
    BY <1>1, KameleonSteps DEF ScriptEnds, TypeOK
<1>2. CASE EvaluateAccounts(k)
    BY <1>2, KameleonSteps DEF EvaluateAccounts, TypeOK
<1>3. CASE Instantiated(k)
    BY <1>3, KameleonSteps DEF Instantiated, TypeOK
<1>4. CASE PollFinds(k)
  <2>1. k \notin Callers /\ k \in Actors
      BY BootAssumption DEF Actors
  <2> QED BY <1>4, <2>1, ActorMoves DEF PollFinds, Captured, CanCreate, sandbox, TypeOK, Places, Settled
<1>5. CASE PollTimesOut(k)
  <2>1. k \notin Callers /\ k \in Actors
      BY BootAssumption DEF Actors
  <2> QED BY <1>5, <2>1, ActorMoves DEF PollTimesOut, sandbox, TypeOK, Places, Settled
<1> QED BY <1>1, <1>2, <1>3, <1>4, <1>5 DEF Loader

LEMMA PrimeIInv ==
    ASSUME IInv, NEW x \in Actors, Prime(x)
    PROVE  IInv'
<1> USE BootAssumption DEF IInv
<1>1. x \in Callers => kameleon[Owner[x]] = "up" /\ located[Owner[x]]
    BY DEF Prime, PrimeCodecs, PrimeStore, PastKameleon
<1>2. Of(x) \in Clients
    BY DEF Of, Actors
<1>3. CASE PrimeCodecs(x)
  <2>1. codecs' \in [Clients -> BOOLEAN]
      BY <1>2, <1>3 DEF PrimeCodecs, TypeOK
  <2> QED BY <1>1, <1>3, <2>1, ActorMoves DEF PrimeCodecs, TypeOK, Places, Settled
<1>4. CASE PrimeStore(x)
  <2>1. store' \in [Clients -> BOOLEAN]
      BY <1>2, <1>4 DEF PrimeStore, TypeOK
  <2>2. PICK place \in {"wasm", "polling", "rejected"} : Goes(x, place)
      BY <1>4 DEF PrimeStore, Ends, Throws
  <2> QED BY <1>1, <1>4, <2>1, <2>2, ActorMoves DEF PrimeStore, TypeOK, Places, Settled
<1> QED BY <1>3, <1>4 DEF Prime

LEMMA CallIInv ==
    ASSUME IInv, NEW c \in Callers, Call(c)
    PROVE  IInv'
<1> USE BootAssumption DEF IInv
<1>1. c \in Actors /\ Owner[c] \in Clients /\ calls' \in 0..MaxCalls
    BY DEF Call, Actors, TypeOK
<1>2. /\ UNCHANGED <<disk, moved, facade, located, runtime, wreq, loaded, evals,
                     codecs, store, em>>
      /\ done' = done
    BY DEF Call, MarkDone, sandbox, TypeOK
<1>3. /\ at' \in [Actors -> Places]
      /\ at'[c] \in {"kameleon", "resolved"}
      /\ at'[c] = "resolved" => done[Owner[c]]
      /\ \A y \in Actors \ {c} : at'[y] = at[y]
  <2>1. PICK place \in {"kameleon", "resolved"} :
            Goes(c, place) /\ (place = "resolved" => done[Owner[c]])
      BY DEF Call
  <2>2. at \in [Actors -> Places] /\ place \in Places
      BY DEF TypeOK, Places, Settled
  <2> HIDE DEF IInv
  <2> QED BY <1>1, <2>1, <2>2 DEF Goes
<1>4. /\ ensured' \in BOOLEAN
      /\ kameleon' \in [Clients -> {"none", "downloading", "evaluating",
                                    "instantiating", "up", "rejected"}]
      /\ \A k \in Clients : kameleon[k] = "up" => kameleon'[k] = "up"
  <2>1. CASE UNCHANGED <<ensured, kameleon>>
      BY <2>1 DEF TypeOK
  <2>2. CASE kameleon[Owner[c]] = "none" /\ BootKameleon(Owner[c])
      BY <1>1, <2>2, ZenonT(60) DEF BootKameleon, TypeOK
  <2> QED BY <2>1, <2>2 DEF Call
<1>5. TypeOK'
    BY <1>1, <1>2, <1>3, <1>4 DEF TypeOK, Places
<1>6. LoadedIsEvaluated' /\ ClassesBehind' /\ DoneAfterBoot'
    BY <1>2, <1>3, <1>4 DEF LoadedIsEvaluated, ClassesBehind, DoneAfterBoot, Actors
<1>7. PastKameleon'
    BY <1>1, <1>2, <1>3, <1>4 DEF PastKameleon, Actors
<1>8. ResolvedAfterBoot'
    BY <1>1, <1>2, <1>3, <1>4 DEF ResolvedAfterBoot, DoneAfterBoot, Actors
<1> QED BY <1>5, <1>6, <1>7, <1>8

LEMMA CallerIInv ==
    ASSUME IInv, NEW c \in Callers, CallerStep(c)
    PROVE  IInv'
<1> USE BootAssumption DEF IInv
<1>0. c \in Actors /\ Owner[c] \in Clients /\ Owner[c] \in Actors /\ Owner[c] \notin Callers
    BY DEF Actors
<1>1. CASE KameleonFails(c)
    BY <1>0, <1>1, ActorMoves DEF KameleonFails, sandbox, TypeOK, Places, Settled
<1>2. CASE KameleonIsUp(c)
  <2>1. /\ located' \in [Clients -> BOOLEAN] /\ located'[Owner[c]]
        /\ \A j \in Clients : located[j] => located'[j]
      BY <1>0, <1>2 DEF KameleonIsUp, TypeOK
  <2> QED BY <1>0, <1>2, <2>1, Ensures DEF KameleonIsUp, Settled
<1>3. CASE BootChatWasm(c)
    BY <1>0, <1>3, Ensures DEF BootChatWasm, TypeOK, Settled
<1>4. CASE Finish(c)
  <2>1. /\ at' \in [Actors -> Places] /\ at'[c] = "resolved"
        /\ \A y \in Actors \ {c} : at'[y] = at[y]
      BY <1>0, <1>4 DEF Finish, Goes, TypeOK, Places, Settled
  <2>2. /\ facade' \in [Clients -> BOOLEAN]
        /\ \A k \in Clients : facade'[k] => facade[k] \/ (k = Owner[c] /\ at[k] = "resolved")
      BY <1>0, <1>4 DEF Finish, TypeOK
  <2>3. /\ done' \in [Clients -> BOOLEAN]
        /\ \A k \in Clients : done'[k] => done[k] \/ k = Owner[c]
      BY <1>0, <1>4 DEF Finish, MarkDone, TypeOK
  <2>4. kameleon[Owner[c]] = "up" /\ located[Owner[c]] /\ at[Owner[c]] \in Settled
      BY <1>4 DEF Finish, PastKameleon
  <2>5. UNCHANGED <<disk, moved, ensured, kameleon, located, runtime, wreq, loaded,
                    evals, codecs, store, em, calls>>
      BY <1>4 DEF Finish, sandbox
  <2>6. TypeOK'
      BY <2>1, <2>2, <2>3, <2>5 DEF TypeOK, Places
  <2>7. LoadedIsEvaluated' /\ ClassesBehind'
      BY <1>0, <2>1, <2>2, <2>5 DEF LoadedIsEvaluated, ClassesBehind, Actors
  <2>8. DoneAfterBoot'
      BY <1>0, <2>1, <2>3, <2>4, <2>5 DEF DoneAfterBoot, Actors
  <2>9. PastKameleon' /\ ResolvedAfterBoot'
      BY <1>0, <2>1, <2>4, <2>5 DEF PastKameleon, ResolvedAfterBoot, Actors
  <2> QED BY <2>6, <2>7, <2>8, <2>9
<1> QED BY <1>1, <1>2, <1>3, <1>4 DEF CallerStep

LEMMA NextIInv == IInv /\ [Next]_vars => IInv'
<1> SUFFICES ASSUME IInv, [Next]_vars PROVE IInv' OBVIOUS
<1>1. ASSUME NEW part \in Parts, PartLands(part) PROVE IInv'
    BY <1>1, KameleonSteps DEF PartLands, IInv, TypeOK
<1>2. ASSUME NEW k \in Clients, Loader(k) PROVE IInv'
    BY <1>2, LoaderIInv
<1>3. ASSUME NEW k \in Clients, EmStep(k) PROVE IInv'
  <2>1. /\ em' \in [Clients -> {"none", "building", "classes"}]
        /\ \A j \in Clients : em[j] = "classes" => em'[j] = "classes"
      BY <1>3 DEF EmStep, EmAfter, IInv, TypeOK
  <2>2. UNCHANGED <<disk, moved, ensured, kameleon, located, runtime, wreq, loaded,
                    evals, codecs, store, facade, done, at, calls>>
      BY <1>3 DEF EmStep
  <2>3. TypeOK'
      BY <2>1, <2>2 DEF IInv, TypeOK
  <2>4. LoadedIsEvaluated' /\ ClassesBehind' /\ PastKameleon' /\ DoneAfterBoot'
        /\ ResolvedAfterBoot'
      BY <2>1, <2>2 DEF IInv, LoadedIsEvaluated, ClassesBehind, PastKameleon,
                        DoneAfterBoot, ResolvedAfterBoot
  <2> QED BY <2>3, <2>4 DEF IInv
<1>4. ASSUME NEW x \in Actors, Prime(x) PROVE IInv'
    BY <1>4, PrimeIInv
<1>5. ASSUME NEW c \in Callers, Call(c) PROVE IInv'
    BY <1>5, CallIInv
<1>6. ASSUME NEW c \in Callers, CallerStep(c) PROVE IInv'
    BY <1>6, CallerIInv
<1>7. CASE UNCHANGED vars
    BY <1>7 DEF vars, sandbox, IInv, TypeOK, LoadedIsEvaluated, ClassesBehind, PastKameleon,
                DoneAfterBoot, ResolvedAfterBoot, Captured, CanCreate
<1> QED BY <1>1, <1>2, <1>3, <1>4, <1>5, <1>6, <1>7 DEF Next

LEMMA Invariance == Spec => []IInv
BY InitIInv, NextIInv, PTL DEF Spec

(* Type correctness: bringUp, the loaders and the priming keep the shape   *)
(* of their state.                                                         *)
THEOREM TypeCorrect == Spec => []TypeOK
<1>1. IInv => TypeOK BY DEF IInv
<1> QED BY <1>1, Invariance, PTL

(* However many bring-ups and boots overlap in ensureChatBundle, a sandbox *)
(* evaluates the chat main at most once.                                   *)
THEOREM EvaluatedOnce == Spec => []MainEvaluatedOnce
<1>1. IInv => MainEvaluatedOnce BY DEF IInv, LoadedIsEvaluated, MainEvaluatedOnce
<1> QED BY <1>1, Invariance, PTL

(* The facade bringUp puts into the store always has its class.            *)
THEOREM FacadeHasClass == Spec => []FacadeFollowsBoot
<1>1. IInv => FacadeFollowsBoot BY DEF IInv, ClassesBehind, FacadeFollowsBoot, CanCreate
<1> QED BY <1>1, Invariance, PTL

(* A bringUp resolves only after kameleon is up, the location patched and  *)
(* the boot of the WASM over.                                              *)
THEOREM BootIsBehind == Spec => []ResolvedAfterBoot
<1>1. IInv => ResolvedAfterBoot BY DEF IInv
<1> QED BY <1>1, Invariance, PTL
=============================================================================
