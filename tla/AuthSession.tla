---------------------------- MODULE AuthSession ----------------------------
(***************************************************************************)
(* SnapcapClient.authenticate and logout (client.ts, api/auth/), the       *)
(* cookie jar all realms share (shims/cookie-jar.ts) and the Fidelius      *)
(* kickoff (kickoff-messaging.ts), over process restarts.                  *)
(*                                                                         *)
(* A session is the number of the login that made it: it stands for the    *)
(* cookie __Host-sc-a-auth-session, for the bearer minted from it and for  *)
(* what the server knows of it; 0 is none.  An identity is the number of   *)
(* its key; key 1 is one that another device of the account registered.    *)
(***************************************************************************)
EXTENDS Naturals, FiniteSets

CONSTANTS
    Callers,      \* consumers of the client; one call at a time each
    Sync,         \* the DataStore offers getSync and setSync
    Forced,       \* logout(true)
    MaxCalls,     \* bound: calls made
    MaxRestarts   \* bound: restarts of the process

ASSUME AuthAssumption ==
    /\ Sync \in BOOLEAN /\ Forced \in BOOLEAN
    /\ MaxCalls \in Nat /\ MaxRestarts \in Nat

VARIABLES
    granted,    \* server: sessions granted so far
    valid,      \* server: sessions it honours
    identity,   \* server: the account's registered key, or 0
    disk,       \* DataStore["cookie_jar"]: the session in it, or 0
    uds,        \* DataStore["local_uds.e2eeIdentityKey.shared"], or 0
    jar,        \* the session in the jar that getOrCreateJar shares
    promise,    \* cached promises: _ctxPromise and sandbox.kameleonBoot
    slice,      \* state.auth: the session of its bearer, 0 when logged out
    pc,         \* each caller's place
    warm,       \* callers on the warm path
    own,        \* the session or key a caller's request carries or brought
    minted,     \* keys minted so far, key 1 included
    left,       \* history: logout has been called
    calls, restarts

server == <<granted, valid, identity>>
store == <<disk, uds>>
caller == <<pc, warm, own>>
vars == <<server, store, jar, promise, slice, caller, minted, left, calls, restarts>>

Stages == {"idle", "ctx", "kameleon", "probe", "sso", "visit", "initialize",
           "login", "granted", "landed", "kickoff", "register", "persist",
           "leaveCtx", "leave", "forget", "resolved", "rejected"}
Session == 0..granted

Go(c, stage) == pc' = [pc EXCEPT ![c] = stage]

Init ==
    /\ granted = 0
    /\ valid = {}
    /\ identity \in {0, 1}
    /\ disk = 0
    /\ uds = 0
    /\ jar = 0
    /\ promise = [p \in {"ctx", "kameleon"} |-> "none"]
    /\ slice = 0
    /\ pc = [c \in Callers |-> "idle"]
    /\ warm = {}
    /\ own = [c \in Callers |-> 0]
    /\ minted = 1
    /\ left = FALSE
    /\ calls = 0
    /\ restarts = 0

-----------------------------------------------------------------------------
(* Cached promises: the first caller starts the work, all await it, and a  *)
(* rejection is kept.                                                      *)
Await(p) == promise' = [promise EXCEPT ![p] = IF @ = "none" THEN "pending" ELSE @]

Settle(p) ==
    /\ promise[p] = "pending"
    /\ \E r \in {"up", "rejected"} : promise' = [promise EXCEPT ![p] = r]
    /\ UNCHANGED <<server, store, jar, slice, caller, minted, left, calls, restarts>>

(* authenticate() with credentials: the context first. *)
Authenticate(c) ==
    /\ pc[c] \in {"idle", "resolved", "rejected"}
    /\ calls < MaxCalls
    /\ calls' = calls + 1
    /\ Await("ctx")
    /\ Go(c, "ctx")
    /\ UNCHANGED <<server, store, jar, slice, warm, own, minted, left, restarts>>

(* ... then bringUp: kameleon; the chat bundle and WASM may fail freely. *)
BringUp(c) ==
    /\ pc[c] = "ctx"
    /\ promise["ctx"] = "up"
    /\ Await("kameleon")
    /\ Go(c, "kameleon")
    /\ UNCHANGED <<server, store, jar, slice, warm, own, minted, left, calls, restarts>>

BroughtUp(c) ==
    /\ pc[c] = "kameleon"
    /\ promise["kameleon"] = "up"
    /\ Go(c, "probe")
    /\ UNCHANGED <<server, store, jar, promise, slice, warm, own, minted, left, calls, restarts>>

(* Mutant of BringUpFails: the failure of the work is not passed on. *)
BringUpHangs(c) == FALSE /\ UNCHANGED vars

(* The awaited promise is rejected, or was in an earlier call. *)
BringUpFails(c) ==
    /\ pc[c] \in {"ctx", "kameleon"}
    /\ promise[pc[c]] = "rejected"
    /\ Go(c, "rejected")
    /\ UNCHANGED <<server, store, jar, promise, slice, warm, own, minted, left, calls, restarts>>

-----------------------------------------------------------------------------
(* tryMintFromExistingCookies: the warm path when the jar has a session. *)
Probe(c) ==
    /\ pc[c] = "probe"
    /\ Go(c, IF jar # 0 THEN "sso" ELSE "login")
    /\ warm' = IF jar # 0 THEN warm \cup {c} ELSE warm
    /\ own' = [own EXCEPT ![c] = jar]
    /\ UNCHANGED <<server, store, jar, promise, slice, minted, left, calls, restarts>>

(* The SSO endpoint redirects with a ticket if it honours the cookie. *)
Ticket(c) ==
    /\ pc[c] = "sso"
    /\ own[c] \in valid
    /\ Go(c, "visit")
    /\ UNCHANGED <<server, store, jar, promise, slice, warm, own, minted, left, calls, restarts>>

(* www.snapchat.com is visited for its cookies, which stay in memory. *)
Visit(c) ==
    /\ pc[c] = "visit"
    /\ Go(c, "initialize")
    /\ UNCHANGED <<server, store, jar, promise, slice, warm, own, minted, left, calls, restarts>>

(* state.auth.initialize with the ticket. *)
Initialize(c) ==
    /\ pc[c] = "initialize"
    /\ slice' = own[c]
    /\ warm' = warm \ {c}
    /\ Go(c, "kickoff")
    /\ UNCHANGED <<server, store, jar, promise, own, minted, left, calls, restarts>>

(* Mutant of MintFails: the warm path's failure counts as a success. *)
MintFailsOn(c) ==
    /\ pc[c] \in {"sso", "visit", "initialize"}
    /\ Go(c, IF c \in warm THEN "kickoff" ELSE "rejected")
    /\ warm' = warm \ {c}
    /\ UNCHANGED <<server, store, jar, promise, slice, own, minted, left, calls, restarts>>

(* No ticket, or a request or initialize throws: the warm path falls back  *)
(* to the password, the cold one rejects.                                  *)
MintFails(c) ==
    /\ pc[c] \in {"sso", "visit", "initialize"}
    /\ Go(c, IF c \in warm THEN "login" ELSE "rejected")
    /\ warm' = warm \ {c}
    /\ UNCHANGED <<server, store, jar, promise, slice, own, minted, left, calls, restarts>>

(* fullLogin: the server accepts the password and grants a session ... *)
LoginGranted(c) ==
    /\ pc[c] = "login"
    /\ granted' = granted + 1
    /\ valid' = valid \cup {granted + 1}
    /\ own' = [own EXCEPT ![c] = granted + 1]
    /\ Go(c, "granted")
    /\ UNCHANGED <<identity, store, jar, promise, slice, warm, minted, left, calls, restarts>>

(* Mutant of LoginLands: the jar is not persisted. *)
LoginLandsInMemory(c) ==
    /\ pc[c] = "granted"
    /\ jar' = own[c]
    /\ Go(c, "landed")
    /\ UNCHANGED <<server, store, promise, slice, warm, own, minted, left, calls, restarts>>

(* ... whose cookie the XHR shim puts in the jar and persists. *)
LoginLands(c) ==
    /\ pc[c] = "granted"
    /\ jar' = own[c]
    /\ disk' = own[c]
    /\ Go(c, "landed")
    /\ UNCHANGED <<server, uds, promise, slice, warm, own, minted, left, calls, restarts>>

LoginFails(c) ==
    /\ pc[c] \in {"login", "granted"}
    /\ Go(c, "rejected")
    /\ UNCHANGED <<server, store, jar, promise, slice, warm, own, minted, left, calls, restarts>>

(* The session cookie is in the jar; mintAndInitialize reads it there. *)
MintCold(c) ==
    /\ pc[c] = "landed"
    /\ jar # 0
    /\ own' = [own EXCEPT ![c] = jar]
    /\ Go(c, "sso")
    /\ UNCHANGED <<server, store, jar, promise, slice, warm, minted, left, calls, restarts>>

-----------------------------------------------------------------------------
(* kickoffMessagingSession: nothing to do with a cached identity. *)
KickoffCached(c) ==
    /\ pc[c] = "kickoff"
    /\ uds # 0
    /\ Go(c, "resolved")
    /\ UNCHANGED <<server, store, jar, promise, slice, warm, own, minted, left, calls, restarts>>

(* Else the WASM mints a key, if it boots and the slice has a bearer. *)
KickoffMints(c) ==
    /\ pc[c] = "kickoff"
    /\ uds = 0
    /\ slice # 0
    /\ minted' = minted + 1
    /\ own' = [own EXCEPT ![c] = minted + 1]
    /\ Go(c, "register")
    /\ UNCHANGED <<server, store, jar, promise, slice, warm, left, calls, restarts>>

(* The boot fails, or the registration: a request or its answer is lost.   *)
KickoffFails(c) ==
    /\ \/ pc[c] = "kickoff" /\ uds = 0
       \/ pc[c] \in {"register", "persist"}
    /\ Go(c, "rejected")
    /\ UNCHANGED <<server, store, jar, promise, slice, warm, own, minted, left, calls, restarts>>

(* InitializeWebKey: the account had no identity, now it has this one. *)
Registers(c) ==
    /\ pc[c] = "register"
    /\ identity = 0
    /\ identity' = own[c]
    /\ Go(c, "persist")
    /\ UNCHANGED <<granted, valid, store, jar, promise, slice, warm, own, minted,
                   left, calls, restarts>>

(* A 401: an account with an identity, but a bearer that is no longer      *)
(* honoured is taken for one too.  A warning, nothing persisted.           *)
AlreadyRegistered(c) ==
    /\ pc[c] = "register"
    /\ identity # 0 \/ slice \notin valid
    /\ Go(c, "resolved")
    /\ UNCHANGED <<server, store, jar, promise, slice, warm, own, minted, left, calls, restarts>>

Persist(c) ==
    /\ pc[c] = "persist"
    /\ uds' = own[c]
    /\ Go(c, "resolved")
    /\ UNCHANGED <<server, disk, jar, promise, slice, warm, own, minted, left, calls, restarts>>

-----------------------------------------------------------------------------
(* logout(): the bundle's part only if there is a context. *)
Logout(c) ==
    /\ pc[c] \in {"idle", "resolved", "rejected"}
    /\ calls < MaxCalls
    /\ calls' = calls + 1
    /\ left' = TRUE
    /\ Go(c, IF promise["ctx"] = "none" THEN "forget" ELSE "leaveCtx")
    /\ UNCHANGED <<server, store, jar, promise, slice, warm, own, minted, restarts>>

LeaveCtx(c) ==
    /\ pc[c] = "leaveCtx"
    /\ promise["ctx"] \in {"up", "rejected"}
    /\ Go(c, IF promise["ctx"] = "up" THEN "leave" ELSE "forget")
    /\ UNCHANGED <<server, store, jar, promise, slice, warm, own, minted, left, calls, restarts>>

(* state.auth.logout clears the slice and may revoke the session. *)
Leave(c) ==
    /\ pc[c] = "leave"
    /\ promise["kameleon"] = "up"
    /\ slice' = 0
    /\ valid' \in {valid, valid \ {slice}}
    /\ Go(c, "forget")
    /\ UNCHANGED <<granted, identity, store, jar, promise, warm, own, minted,
                   left, calls, restarts>>

(* It throws: there is no slice yet, or the revocation failed and the      *)
(* logout was not forced.  The exception is swallowed.                     *)
LeaveThrows(c) ==
    /\ pc[c] = "leave"
    /\ ~Forced \/ slice = 0
    /\ Go(c, "forget")
    /\ UNCHANGED <<server, store, jar, promise, slice, warm, own, minted, left, calls, restarts>>

(* The persisted jar is deleted. *)
Forget(c) ==
    /\ pc[c] = "forget"
    /\ disk' = 0
    /\ Go(c, "resolved")
    /\ UNCHANGED <<server, uds, jar, promise, slice, warm, own, minted, left, calls, restarts>>

-----------------------------------------------------------------------------
(* Any response to the bundle that sets a cookie persists the shared jar. *)
Traffic ==
    /\ promise["kameleon"] = "up"
    /\ disk' = jar
    /\ UNCHANGED <<server, uds, jar, promise, slice, caller, minted, left, calls, restarts>>

(* The server drops a session: expiry, password change. *)
Revoke(s) ==
    /\ valid' = valid \ {s}
    /\ UNCHANGED <<granted, identity, store, jar, promise, slice, caller, minted,
                   left, calls, restarts>>

(* What getOrCreateJar hydrates from the store. *)
Hydrated == IF Sync THEN disk ELSE 0

(* The process dies and another starts. *)
Restart ==
    /\ restarts < MaxRestarts
    /\ restarts' = restarts + 1
    /\ jar' = Hydrated
    /\ promise' = [p \in DOMAIN promise |-> "none"]
    /\ slice' = 0
    /\ pc' = [c \in Callers |-> "idle"]
    /\ warm' = {}
    /\ own' = [c \in Callers |-> 0]
    /\ UNCHANGED <<server, store, minted, left, calls>>

(* One step of a call that is under way. *)
Step(c) ==
    \/ BringUp(c) \/ BroughtUp(c) \/ BringUpFails(c)
    \/ Probe(c) \/ Ticket(c) \/ Visit(c) \/ Initialize(c) \/ MintFails(c)
    \/ LoginGranted(c) \/ LoginLands(c) \/ LoginFails(c) \/ MintCold(c)
    \/ KickoffCached(c) \/ KickoffMints(c) \/ KickoffFails(c)
    \/ Registers(c) \/ AlreadyRegistered(c) \/ Persist(c)
    \/ LeaveCtx(c) \/ Leave(c) \/ LeaveThrows(c) \/ Forget(c)

Next ==
    \/ \E c \in Callers : Authenticate(c) \/ Logout(c) \/ Step(c)
    \/ \E p \in {"ctx", "kameleon"} : Settle(p)
    \/ Traffic \/ Restart
    \/ \E s \in valid : Revoke(s)

Spec == Init /\ [][Next]_vars

(* Requests are answered or fail, and boots end one way or the other. *)
Fairness ==
    /\ \A c \in Callers : WF_vars(Step(c))
    /\ \A p \in {"ctx", "kameleon"} : WF_vars(Settle(p))
FairSpec == Spec /\ Fairness

-----------------------------------------------------------------------------
(* The shape of the state. *)
TypeOK ==
    /\ granted \in Nat
    /\ valid \subseteq Session \ {0}
    /\ identity \in 0..minted /\ uds \in 0..minted
    /\ disk \in Session /\ jar \in Session /\ slice \in Session
    /\ promise \in [{"ctx", "kameleon"} -> {"none", "pending", "up", "rejected"}]
    /\ pc \in [Callers -> Stages]
    /\ warm \subseteq Callers
    /\ own \in [Callers -> Nat]
    /\ \A c \in warm : pc[c] \in {"sso", "visit", "initialize"}
    /\ minted \in Nat \ {0}
    /\ left \in BOOLEAN
    /\ calls \in 0..MaxCalls /\ restarts \in 0..MaxRestarts

(* Without a logout, a logged-in process has a session in the store: a     *)
(* crash at any moment leaves the next process something to restore from.  *)
LoggedInIsDurable == ~left /\ slice # 0 => disk # 0

(* The persisted identity is the one the server has registered, whatever   *)
(* authenticate calls race and wherever the process died: never a          *)
(* placeholder, never a key the server refused.                            *)
CachedIsRegistered == uds # 0 => uds = identity

(* "Resolves when the auth slice reports LoggedIn", concurrent calls and   *)
(* fallbacks from the warm path included (without a logout).               *)
ResolvesLoggedIn ==
    \A c \in Callers : ~left /\ pc[c] = "resolved" => slice # 0

(* "Subsequent process boots with restored cookies short-circuit through   *)
(* the warm path": without a logout no password is sent while the store    *)
(* has a session that was not tried.                                       *)
SessionIsTried ==
    [][\A c \in Callers :
        ~left /\ pc[c] = "probe" /\ pc'[c] = "login" => disk = 0]_vars

(* Every call resolves or rejects. *)
EveryCallSettles ==
    \A c \in Callers :
        pc[c] \notin {"idle", "resolved", "rejected"} ~>
            pc[c] \in {"idle", "resolved", "rejected"}

-----------------------------------------------------------------------------
(* What the documentation says and the code does not keep; see the README. *)

(* "Deletes the persisted cookie jar": after a logout only a login puts a  *)
(* session back in the store.                                              *)
LogoutSticks == [][disk = 0 /\ disk' # 0 => \E c \in Callers : pc[c] = "granted"]_vars

(* "Resolves when local auth state has been cleared." *)
LogoutClears ==
    [][\A c \in Callers : pc[c] = "forget" /\ pc'[c] = "resolved" => slice' = 0]_vars

(* "Mints + registers a Fidelius identity (non-fatal if it fails)": an     *)
(* authenticate that rejects has not logged in.                            *)
KickoffIsNotFatal ==
    [][\A c \in Callers : pc[c] \in {"kickoff", "register", "persist"} =>
          pc'[c] # "rejected"]_vars

(* "On success (or on the already-registered 401), persist the envelope":  *)
(* a call that resolves leaves a cached identity.                          *)
ResolvesWithIdentity ==
    [][\A c \in Callers : pc[c] \in {"kickoff", "register", "persist"} /\
          pc'[c] = "resolved" => uds' # 0]_vars
=============================================================================
