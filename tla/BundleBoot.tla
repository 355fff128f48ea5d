----------------------------- MODULE BundleBoot -----------------------------
(***************************************************************************)
(* How a client's bundles come up: bringUp (api/auth/bringup.ts), which    *)
(* boots kameleon over a bundle that may have to be downloaded first       *)
(* (bundle/accounts-loader.ts, download.ts), evaluates and primes the chat *)
(* bundle (chat-loader.ts, prime.ts), waits for its messaging WASM         *)
(* (chat-wasm-boot.ts) and gives the chat store the facade through which   *)
(* the bundle makes its session (worker-proxy-facade.ts).                  *)
(*                                                                         *)
(* Every client has a sandbox of its own; the disk and the flag `ensured'  *)
(* are the process's.  Any number of callers of one client may be in       *)
(* bringUp at once, and the boot of the WASM, which loads the chat bundle  *)
(* too, is an actor like them: it goes by the name of its client.  What    *)
(* Snap's code does when it is evaluated is external.                      *)
(***************************************************************************)
EXTENDS Naturals, FiniteSets

CONSTANTS
    Clients,    \* SnapcapClients of the process
    Callers,    \* authenticate() calls that may run at once
    Owner,      \* the client each caller belongs to
    Parts,      \* what the download brings, see Usable
    MaxCalls    \* bound: calls of bringUp

ASSUME BootAssumption ==
    /\ Owner \in [Callers -> Clients]
    /\ Clients \cap Callers = {}
    /\ MaxCalls \in Nat

VARIABLES
    disk,      \* parts of the bundle that are in bundleDir
    moved,     \* source-patch sites this version of the bundle lacks
    ensured,   \* download.ts's flag
    kameleon,  \* sandbox.kameleonBoot: its stage; "none" before there is one
    located,   \* the sandbox's location is patched
    runtime,   \* sandbox.chatRuntimeLoaded
    wreq,      \* globalThis.__snapcap_chat_p is there
    loaded,    \* sandbox.chatBundleLoaded
    evals,     \* evaluations of the chat main in the sandbox
    codecs,    \* module 10409's globals are there
    store,     \* module 94704's M.getState is callable
    em,        \* __SNAPCAP_CHAT_MODULE: "none", "building", "classes"
    facade,    \* state.wasm.workerProxy is the facade
    done,      \* ctx._bundlesLoaded
    at,        \* where every caller, and every client's WASM boot, is
    calls      \* calls of bringUp so far

sandbox == <<located, runtime, wreq, loaded, evals, codecs, store, em>>
vars == <<disk, moved, ensured, kameleon, sandbox, facade, done, at, calls>>

Actors == Callers \cup Clients

(* The client in whose sandbox an actor works. *)
Of(x) == IF x \in Callers THEN Owner[x] ELSE x

Settled == {"resolved", "rejected"}

Init ==
    /\ disk \in {{}, Parts}
    /\ moved \in {{}, {"login"}, {"runtime"}, {"main"}}
    /\ ensured = FALSE
    /\ kameleon = [k \in Clients |-> "none"]
    /\ located = [k \in Clients |-> FALSE]
    /\ runtime = [k \in Clients |-> FALSE]
    /\ wreq = [k \in Clients |-> FALSE]
    /\ loaded = [k \in Clients |-> FALSE]
    /\ evals = [k \in Clients |-> 0]
    /\ codecs = [k \in Clients |-> FALSE]
    /\ store = [k \in Clients |-> FALSE]
    /\ em = [k \in Clients |-> "none"]
    /\ facade = [k \in Clients |-> FALSE]
    /\ done = [k \in Clients |-> FALSE]
    /\ at = [x \in Actors |-> "idle"]
    /\ calls = 0

Goes(x, place) == at' = [at EXCEPT ![x] = place]

-----------------------------------------------------------------------------
(* download.ts and accounts-loader.ts. *)

(* hasUsableBundle: a kameleon.*.wasm, and some large script of the chat   *)
(* bundle - one of its chunks, or one of the runtime and main ("chat").    *)
Usable == "kameleon" \in disk /\ {"chunk", "chat"} \cap disk # {}

(* getKameleon, first call: bootKameleonOnce up to its first await.  Where *)
(* nothing usable is on disk the download script is run, if it is found.   *)
BootKameleon(k) ==
    \/ /\ ensured \/ Usable
       /\ ensured' = TRUE
       /\ kameleon' = [kameleon EXCEPT ![k] = "evaluating"]
    \/ /\ ~ensured /\ ~Usable
       /\ \E stage \in {"downloading", "rejected"} :
            kameleon' = [kameleon EXCEPT ![k] = stage]
       /\ UNCHANGED ensured

(* A script brings one more part. *)
PartLands(part) ==
    /\ \E k \in Clients : kameleon[k] = "downloading"
    /\ part \notin disk
    /\ disk' = disk \cup {part}
    /\ UNCHANGED <<moved, ensured, kameleon, sandbox, facade, done, at, calls>>

(* The script ends: with an error, or leaving nothing usable, or well. *)
ScriptEnds(k) ==
    /\ kameleon[k] = "downloading"
    /\ \/ /\ kameleon' = [kameleon EXCEPT ![k] = "rejected"]
          /\ UNCHANGED ensured
       \/ /\ Usable
          /\ ensured' = TRUE
          /\ kameleon' = [kameleon EXCEPT ![k] = "evaluating"]
    /\ UNCHANGED <<disk, moved, sandbox, facade, done, at, calls>>

(* The accounts chunks are evaluated, what they throw tolerated, and the   *)
(* Emscripten factory is called; a file or a patch site may be missing.    *)
EvaluateAccounts(k) ==
    /\ kameleon[k] = "evaluating"
    /\ kameleon' = [kameleon EXCEPT ![k] =
         IF {"accounts", "kameleon"} \subseteq disk /\ "login" \notin moved
         THEN "instantiating" ELSE "rejected"]
    /\ UNCHANGED <<disk, moved, ensured, sandbox, facade, done, at, calls>>

Instantiated(k) ==
    /\ kameleon[k] = "instantiating"
    /\ \E stage \in {"up", "rejected"} : kameleon' = [kameleon EXCEPT ![k] = stage]
    /\ UNCHANGED <<disk, moved, ensured, sandbox, facade, done, at, calls>>

-----------------------------------------------------------------------------
(* chat-loader.ts: ensureChatBundle by an actor x; `ends' and `throws' are *)
(* where x goes on after it.                                               *)

Ends(x) == IF x \in Callers THEN "wasm" ELSE "polling"
Throws(x) == IF x \in Callers THEN "wasm" ELSE "rejected"

(* ensureChatRuntime: the runtime is evaluated once, and what it throws    *)
(* tolerated: it may not have come as far as exposing its require.         *)
RuntimeReads == "chat" \in disk /\ "runtime" \notin moved
EnsureChatRuntime(k) ==
    IF runtime[k] THEN UNCHANGED <<runtime, wreq>>
    ELSE /\ runtime' = [runtime EXCEPT ![k] = TRUE]
         /\ \E there \in BOOLEAN : wreq' = [wreq EXCEPT ![k] = there]

(* The patches of the main: its file and all their sites must be there. *)
MainPatched == "chat" \in disk /\ "main" \notin moved

(* Mutant of MainEvaluated: the flag waits for the priming. *)
FlagLater(k) == evals' = [evals EXCEPT ![k] = @ + 1] /\ UNCHANGED loaded

(* The main is evaluated, what it throws tolerated, its chunks merged into *)
(* the require's module map, and the flag set, in one turn.                *)
MainEvaluated(k) ==
    /\ evals' = [evals EXCEPT ![k] = @ + 1]
    /\ loaded' = [loaded EXCEPT ![k] = TRUE]

(* The head of ensureChatBundle, up to the first await of the priming. *)
EnsureChatBundle(x, k) ==
    \/ /\ loaded[k]
       /\ Goes(x, Ends(x))
       /\ UNCHANGED <<runtime, wreq, loaded, evals>>
    \/ /\ ~loaded[k] /\ ~runtime[k] /\ ~RuntimeReads
       /\ Goes(x, Throws(x))
       /\ UNCHANGED <<runtime, wreq, loaded, evals>>
    \/ /\ ~loaded[k] /\ (runtime[k] \/ RuntimeReads)
       /\ EnsureChatRuntime(k)
       /\ IF MainPatched
          THEN MainEvaluated(k) /\ Goes(x, "codecs")
          ELSE Goes(x, Throws(x)) /\ UNCHANGED <<loaded, evals>>

(* primeModule10409: up to twenty runs of its factory, 10 ms apart, until  *)
(* its globals are there; that the require is missing is tolerated.        *)
PrimeCodecs(x) ==
    /\ at[x] = "codecs"
    /\ \E lands \in {codecs[Of(x)], codecs[Of(x)] \/ wreq[Of(x)]} :
         codecs' = [codecs EXCEPT ![Of(x)] = lands]
    /\ Goes(x, "store")
    /\ UNCHANGED <<disk, moved, ensured, kameleon, located, runtime, wreq, loaded,
                   evals, store, em, facade, done, calls>>

(* primeAuthStoreModule: up to six runs, 25 ms apart; it throws where the  *)
(* require is missing and gives up in silence.                             *)
PrimeStore(x) ==
    /\ at[x] = "store"
    /\ IF wreq[Of(x)]
       THEN /\ \E lands \in {store[Of(x)], TRUE} : store' = [store EXCEPT ![Of(x)] = lands]
            /\ Goes(x, Ends(x))
       ELSE Goes(x, Throws(x)) /\ UNCHANGED store
    /\ UNCHANGED <<disk, moved, ensured, kameleon, located, runtime, wreq, loaded,
                   evals, codecs, em, facade, done, calls>>

(* The Emscripten factory that the main calls: its Module is captured, its *)
(* classes are registered, by run() at the latest.  Nothing says it gets   *)
(* that far.                                                               *)
EmAfter == [none |-> "building", building |-> "classes"]
EmStep(k) ==
    /\ evals[k] > 0
    /\ em[k] # "classes"
    /\ em' = [em EXCEPT ![k] = EmAfter[@]]
    /\ UNCHANGED <<disk, moved, ensured, kameleon, located, runtime, wreq, loaded,
                   evals, codecs, store, facade, done, at, calls>>

-----------------------------------------------------------------------------
(* chat-wasm-boot.ts: the boot of client k is the actor k. *)

(* createMessagingSession of the facade has a class to forward to. *)
CanCreate(k) == em[k] = "classes"

(* Mutant of Captured: any Module that was captured will do. *)
CapturedEarly(k) == em[k] # "none"

(* The poll's test: calledRun, or the class itself. *)
Captured(k) == CanCreate(k)

PollFinds(k) ==
    /\ at[k] = "polling"
    /\ Captured(k)
    /\ Goes(k, "resolved")
    /\ UNCHANGED <<disk, moved, ensured, kameleon, sandbox, facade, done, calls>>

(* Mutant of PollTimesOut: the poll has no end. *)
PollForever(k) == FALSE /\ UNCHANGED vars

(* 30 s are over. *)
PollTimesOut(k) ==
    /\ at[k] = "polling"
    /\ ~Captured(k)
    /\ Goes(k, "rejected")
    /\ UNCHANGED <<disk, moved, ensured, kameleon, sandbox, facade, done, calls>>

-----------------------------------------------------------------------------
(* bringUp. *)

(* Mutant of MarkDone: the mark is set when the call begins. *)
MarkAtOnce(k, began) == done' = [done EXCEPT ![k] = TRUE]

(* _bundlesLoaded is the last thing bringUp sets. *)
MarkDone(k, began) == done' = [done EXCEPT ![k] = @ \/ ~began]

(* A caller whose client is up returns at once; any other awaits kameleon, *)
(* whose promise is made by the first and kept, rejected or not.           *)
Call(c) ==
    /\ at[c] \in {"idle"} \cup Settled
    /\ calls < MaxCalls
    /\ calls' = calls + 1
    /\ IF done[Owner[c]]
       THEN Goes(c, "resolved") /\ UNCHANGED <<ensured, kameleon, done>>
       ELSE /\ Goes(c, "kameleon")
            /\ MarkDone(Owner[c], TRUE)
            /\ IF kameleon[Owner[c]] = "none" THEN BootKameleon(Owner[c])
               ELSE UNCHANGED <<ensured, kameleon>>
    /\ UNCHANGED <<disk, moved, sandbox, facade>>

KameleonFails(c) ==
    /\ at[c] = "kameleon"
    /\ kameleon[Owner[c]] = "rejected"
    /\ Goes(c, "rejected")
    /\ UNCHANGED <<disk, moved, ensured, kameleon, sandbox, facade, done, calls>>

(* kameleon is up: patchSandboxLocationToWeb, and the chat bundle. *)
KameleonIsUp(c) ==
    /\ at[c] = "kameleon"
    /\ kameleon[Owner[c]] = "up"
    /\ located' = [located EXCEPT ![Owner[c]] = TRUE]
    /\ EnsureChatBundle(c, Owner[c])
    /\ UNCHANGED <<disk, moved, ensured, kameleon, codecs, store, em, facade, done, calls>>

(* bootChatWasm: its promise too is made once and kept. *)
BootChatWasm(c) ==
    /\ at[c] = "wasm"
    /\ at[Owner[c]] = "idle"
    /\ EnsureChatBundle(Owner[c], Owner[c])
    /\ UNCHANGED <<disk, moved, ensured, kameleon, located, codecs, store, em, facade,
                   done, calls>>

(* The boot is awaited.  If it is up the facade goes into the store, where *)
(* there is one; that it fails is a warning, and the client is up.         *)
Finish(c) ==
    /\ at[c] = "wasm"
    /\ at[Owner[c]] \in Settled
    /\ facade' = [facade EXCEPT ![Owner[c]] =
         @ \/ (at[Owner[c]] = "resolved" /\ wreq[Owner[c]] /\ store[Owner[c]])]
    /\ MarkDone(Owner[c], FALSE)
    /\ Goes(c, "resolved")
    /\ UNCHANGED <<disk, moved, ensured, kameleon, sandbox, calls>>

(* Steps of the loaders that their code, a file or a timer brings about. *)
Loader(k) ==
    \/ ScriptEnds(k) \/ EvaluateAccounts(k) \/ Instantiated(k)
    \/ PollFinds(k) \/ PollTimesOut(k)
Prime(x) == PrimeCodecs(x) \/ PrimeStore(x)
CallerStep(c) == KameleonFails(c) \/ KameleonIsUp(c) \/ BootChatWasm(c) \/ Finish(c)

Next ==
    \/ \E part \in Parts : PartLands(part)
    \/ \E k \in Clients : Loader(k) \/ EmStep(k)
    \/ \E x \in Actors : Prime(x)
    \/ \E c \in Callers : Call(c) \/ CallerStep(c)

Spec == Init /\ [][Next]_vars

(* The script ends, instantiation settles, timers fire; how far Snap's     *)
(* Module gets is nobody's promise.                                        *)
Fairness ==
    /\ \A k \in Clients : WF_vars(Loader(k))
    /\ \A x \in Actors : WF_vars(Prime(x))
    /\ \A c \in Callers : WF_vars(CallerStep(c))
FairSpec == Spec /\ Fairness

-----------------------------------------------------------------------------
(* The shape of the state. *)
TypeOK ==
    /\ disk \subseteq Parts
    /\ moved \subseteq {"login", "runtime", "main"}
    /\ ensured \in BOOLEAN
    /\ kameleon \in [Clients -> {"none", "downloading", "evaluating", "instantiating",
                                 "up", "rejected"}]
    /\ located \in [Clients -> BOOLEAN] /\ runtime \in [Clients -> BOOLEAN]
    /\ wreq \in [Clients -> BOOLEAN] /\ loaded \in [Clients -> BOOLEAN]
    /\ codecs \in [Clients -> BOOLEAN] /\ store \in [Clients -> BOOLEAN]
    /\ facade \in [Clients -> BOOLEAN] /\ done \in [Clients -> BOOLEAN]
    /\ evals \in [Clients -> Nat]
    /\ em \in [Clients -> {"none", "building", "classes"}]
    /\ at \in [Actors -> {"idle", "kameleon", "codecs", "store", "wasm", "polling"} \cup Settled]
    /\ calls \in 0..MaxCalls

(* However callers overlap, and although the WASM's boot loads the bundle  *)
(* as well, a sandbox evaluates the main once: a second evaluation would   *)
(* register every Embind class again and abort.                            *)
MainEvaluatedOnce == \A k \in Clients : evals[k] <= 1

(* The facade the bundle finds in the store can make a session: the class  *)
(* it forwards to is registered.                                           *)
FacadeFollowsBoot == \A k \in Clients : facade[k] => CanCreate(k)

(* No bringUp that overlaps another resolves before the boot they share    *)
(* has ended: authenticate() goes on to the bundle's own calls.            *)
ResolvedAfterBoot ==
    \A c \in Callers : at[c] = "resolved" =>
        kameleon[Owner[c]] = "up" /\ located[Owner[c]] /\ at[Owner[c]] \in Settled

(* Every bringUp settles, whether or not the download, the patches or the  *)
(* WASM come to anything.                                                  *)
EveryBringUpSettles ==
    \A c \in Callers : at[c] \notin ({"idle"} \cup Settled) ~> at[c] \in Settled

-----------------------------------------------------------------------------
(* What the documentation says and the code does not keep; see the README. *)

(* "Load + prime chat bundle ... both required for any register.ts getter  *)
(* to work": a caller that resolves finds a primed bundle.                 *)
ResolvedIsPrimed ==
    \A c \in Callers : at[c] = "resolved" /\ loaded[Owner[c]] =>
        ~\E x \in Actors : Of(x) = Owner[c] /\ at[x] \in {"codecs", "store"}

(* "so the bundle's own messaging.initializeClient finds something to      *)
(* call": once the client is up and its Module runs, the facade is there.  *)
WorkerProxyIsThere ==
    \A k \in Clients : done[k] /\ at[k] = "resolved" => facade[k]

(* "If both exist, we assume the rest is in place": what is loaded from is *)
(* whole.                                                                  *)
UsableIsWhole ==
    \A k \in Clients : kameleon[k] \in {"evaluating", "instantiating", "up"} => disk = Parts

(* A bundle that is whole, with every site in place, can be brought up by  *)
(* a later call.                                                           *)
RetryCanSucceed ==
    \A k \in Clients : disk = Parts /\ moved = {} /\ ensured => kameleon[k] # "rejected"
=============================================================================
