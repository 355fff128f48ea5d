------------------------- MODULE AuthSession_proofs -------------------------
(***************************************************************************)
(* Theorems about AuthSession, for any callers, calls and restarts: its    *)
(* typing, that the persisted identity is always the registered one, and,  *)
(* for a store with synchronous access and no logout, that an authenticate *)
(* which resolves is logged in and that what it logged in with is durable. *)
(***************************************************************************)
EXTENDS AuthSession, TLAPS

(* What a caller carries is a session until the login is over, and a key   *)
(* of its own once the kickoff has minted one.                             *)
CarriesSession ==
    \A c \in Callers : pc[c] \in {"sso", "visit", "initialize", "granted"} =>
        own[c] \in Session \ {0}
CarriesKey ==
    \A c \in Callers : pc[c] \in {"register", "persist"} => own[c] \in 1..minted

(* A caller about to persist a key has registered it: the account takes    *)
(* one registration, so no other caller is about to persist another.       *)
PersistsRegistered == \A c \in Callers : pc[c] = "persist" => own[c] = identity

IInv ==
    /\ TypeOK /\ CarriesSession /\ CarriesKey
    /\ PersistsRegistered /\ CachedIsRegistered

LEMMA InitIInv == Init => IInv
<1> SUFFICES ASSUME Init PROVE IInv OBVIOUS
<1>1. left \in BOOLEAN
    BY Zenon DEF Init
<1>2. TypeOK
  <2>1. /\ granted \in Nat /\ valid \subseteq Session \ {0}
        /\ identity \in 0..minted /\ uds \in 0..minted /\ minted \in Nat \ {0}
        /\ disk \in Session /\ jar \in Session /\ slice \in Session
        /\ calls \in 0..MaxCalls /\ restarts \in 0..MaxRestarts
      BY AuthAssumption DEF Init, Session
  <2>2. /\ promise \in [{"ctx", "kameleon"} -> {"none", "pending", "up", "rejected"}]
        /\ pc \in [Callers -> Stages] /\ warm \subseteq Callers
        /\ own \in [Callers -> Nat]
        /\ \A c \in warm : pc[c] \in {"sso", "visit", "initialize"}
      BY DEF Init, Stages
  <2> QED BY <1>1, <2>1, <2>2 DEF TypeOK
<1>3. CarriesSession /\ CarriesKey /\ PersistsRegistered /\ CachedIsRegistered
    BY DEF Init, CarriesSession, CarriesKey, PersistsRegistered, CachedIsRegistered
<1> QED BY <1>2, <1>3 DEF IInv

(* A step that only moves a caller on, to a place where it carries nothing *)
(* or still carries what it did.                                           *)
LEMMA Moves ==
    ASSUME IInv, NEW c \in Callers, NEW stage \in Stages, Go(c, stage),
           UNCHANGED <<server, store, jar, minted, own>>,
           slice' \in Session, left' \in BOOLEAN, calls' \in 0..MaxCalls,
           restarts' = restarts,
           promise' \in [{"ctx", "kameleon"} -> {"none", "pending", "up", "rejected"}],
           warm' \subseteq Callers, \A d \in warm' : pc'[d] \in {"sso", "visit", "initialize"},
           stage \in {"sso", "visit", "initialize", "granted"} =>
               own[c] \in Session \ {0},
           stage \notin {"register", "persist"}
    PROVE  IInv'
<1> USE DEF IInv
<1>1. pc' = [pc EXCEPT ![c] = stage] /\ pc' \in [Callers -> Stages]
    BY DEF Go, TypeOK
<1>2. TypeOK'
    BY <1>1 DEF TypeOK, server, store, Session
<1>3. CarriesSession' /\ CarriesKey' /\ PersistsRegistered'
    BY <1>1 DEF TypeOK, CarriesSession, CarriesKey, PersistsRegistered, server, Session
<1>4. CachedIsRegistered'
    BY DEF CachedIsRegistered, server, store
<1> QED BY <1>2, <1>3, <1>4

(* Every step of the callers, of the promises and of the server keeps the  *)
(* invariant.                                                              *)
LEMMA NextIInv == IInv /\ [Next]_vars => IInv'
<1> SUFFICES ASSUME IInv, [Next]_vars PROVE IInv' OBVIOUS
<1> USE DEF IInv
<1>0. /\ 0 \in Session /\ jar \in Session /\ slice \in Session /\ granted \in Nat
      /\ \A c \in Callers : pc[c] \in Stages
    BY DEF TypeOK, Session
<1>1. ASSUME NEW c \in Callers, Authenticate(c) PROVE IInv'
  <2>1. calls' \in 0..MaxCalls
      BY <1>1, AuthAssumption DEF Authenticate, TypeOK
  <2>2. promise' \in [{"ctx", "kameleon"} -> {"none", "pending", "up", "rejected"}]
      BY <1>1 DEF Authenticate, Await, TypeOK
  <2>3. \A d \in warm' : pc'[d] \in {"sso", "visit", "initialize"}
      BY <1>1 DEF Authenticate, Go, TypeOK
  <2> QED BY <1>0, <1>1, <2>1, <2>2, <2>3, Moves DEF Authenticate, Stages, TypeOK
<1>2. ASSUME NEW c \in Callers, BringUp(c) PROVE IInv'
  <2>1. promise' \in [{"ctx", "kameleon"} -> {"none", "pending", "up", "rejected"}]
      BY <1>2 DEF BringUp, Await, TypeOK
  <2>2. \A d \in warm' : pc'[d] \in {"sso", "visit", "initialize"}
      BY <1>2 DEF BringUp, Go, TypeOK
  <2> QED BY <1>0, <1>2, <2>1, <2>2, Moves DEF BringUp, Stages, TypeOK
<1>3. ASSUME NEW c \in Callers,
             BroughtUp(c) \/ BringUpFails(c) \/ LoginFails(c) \/ KickoffFails(c)
             \/ KickoffCached(c) \/ AlreadyRegistered(c) \/ LeaveCtx(c) \/ LeaveThrows(c)
      PROVE  IInv'
  <2>1. PICK stage \in {"probe", "rejected", "resolved", "leave", "forget"} : Go(c, stage)
      BY <1>3 DEF BroughtUp, BringUpFails, LoginFails, KickoffFails, KickoffCached,
                  AlreadyRegistered, LeaveCtx, LeaveThrows
  <2>2. UNCHANGED <<server, store, jar, promise, slice, warm, own, minted,
                    left, calls, restarts>>
      BY <1>3 DEF BroughtUp, BringUpFails, LoginFails, KickoffFails, KickoffCached,
                  AlreadyRegistered, LeaveCtx, LeaveThrows
  <2>3. pc[c] \notin {"sso", "visit", "initialize"}
      BY <1>3 DEF BroughtUp, BringUpFails, LoginFails, KickoffFails, KickoffCached,
                  AlreadyRegistered, LeaveCtx, LeaveThrows
  <2>4. \A d \in warm' : pc'[d] \in {"sso", "visit", "initialize"}
      BY <2>1, <2>2, <2>3 DEF Go, TypeOK
  <2> QED BY <2>1, <2>2, <2>4, Moves DEF Stages, TypeOK
<1>4. ASSUME NEW c \in Callers, Ticket(c) \/ Visit(c) PROVE IInv'
  <2>1. PICK stage \in {"visit", "initialize"} : Go(c, stage)
      BY <1>4 DEF Ticket, Visit
  <2>2. \A d \in warm' : pc'[d] \in {"sso", "visit", "initialize"}
      BY <1>4, <2>1 DEF Ticket, Visit, Go, TypeOK
  <2>3. own[c] \in Session \ {0}
      BY <1>4 DEF Ticket, Visit, CarriesSession
  <2> QED BY <1>4, <2>1, <2>2, <2>3, Moves DEF Ticket, Visit, Stages, TypeOK
<1>5. ASSUME NEW c \in Callers, Initialize(c) PROVE IInv'
  <2>1. own[c] \in Session
      BY <1>5 DEF Initialize, CarriesSession
  <2>2. \A d \in warm' : pc'[d] \in {"sso", "visit", "initialize"}
      BY <1>5 DEF Initialize, Go, TypeOK
  <2> QED BY <1>5, <2>1, <2>2, Moves DEF Initialize, Stages, TypeOK
<1>6. ASSUME NEW c \in Callers, MintFails(c) PROVE IInv'
  <2>1. \A d \in warm' : pc'[d] \in {"sso", "visit", "initialize"}
      BY <1>6 DEF MintFails, Go, TypeOK
  <2> QED BY <1>6, <2>1, Moves DEF MintFails, Stages, TypeOK
<1>7. ASSUME NEW c \in Callers, Probe(c) \/ MintCold(c) PROVE IInv'
  <2>1. pc' \in [Callers -> Stages] /\ own' = [own EXCEPT ![c] = jar]
        /\ own' \in [Callers -> Nat]
      BY <1>0, <1>7 DEF Probe, MintCold, Go, Stages, TypeOK, Session
  <2>2. /\ \A d \in Callers \ {c} : pc'[d] = pc[d] /\ own'[d] = own[d]
        /\ pc'[c] \in {"login", "sso"} /\ own'[c] = jar
        /\ pc'[c] = "sso" => jar # 0
      BY <1>0, <1>7, <2>1 DEF Probe, MintCold, Go, TypeOK
  <2>3. warm' \subseteq Callers /\ \A d \in warm' : pc'[d] \in {"sso", "visit", "initialize"}
      BY <1>7 DEF Probe, MintCold, Go, TypeOK
  <2>4. UNCHANGED <<granted, valid, identity, store, jar, promise, slice, minted,
                    left, calls, restarts>>
      BY <1>7 DEF Probe, MintCold, server
  <2>5. TypeOK'
      BY <2>1, <2>3, <2>4 DEF TypeOK, Session, store
  <2>6. CarriesSession' /\ CarriesKey' /\ PersistsRegistered' /\ CachedIsRegistered'
      BY <1>0, <2>2, <2>4
      DEF CarriesSession, CarriesKey, PersistsRegistered, CachedIsRegistered, Session, store
  <2> QED BY <2>5, <2>6
<1>8. ASSUME NEW c \in Callers, LoginGranted(c) PROVE IInv'
  <2>1. granted' \in Nat /\ granted + 1 \in Session' \ {0} /\ Session \subseteq Session'
      BY <1>0, <1>8 DEF LoginGranted, Session
  <2>2. TypeOK'
      BY <1>8, <2>1 DEF LoginGranted, Go, Stages, TypeOK, store, Session
  <2>3. CarriesSession' /\ CarriesKey' /\ PersistsRegistered' /\ CachedIsRegistered'
      BY <1>8, <2>1 DEF LoginGranted, Go, TypeOK, CarriesSession, CarriesKey,
                        PersistsRegistered, CachedIsRegistered, store
  <2> QED BY <2>2, <2>3
<1>9. ASSUME NEW c \in Callers, LoginLands(c) PROVE IInv'
  <2>1. own[c] \in Session
      BY <1>9 DEF LoginLands, CarriesSession
  <2>2. TypeOK'
      BY <1>9, <2>1 DEF LoginLands, Go, Stages, TypeOK, server, Session
  <2>3. CarriesSession' /\ CarriesKey' /\ PersistsRegistered' /\ CachedIsRegistered'
      BY <1>9 DEF LoginLands, Go, TypeOK, CarriesSession, CarriesKey,
                  PersistsRegistered, CachedIsRegistered, server, Session
  <2> QED BY <2>2, <2>3
<1>10. ASSUME NEW c \in Callers, KickoffMints(c) PROVE IInv'
  <2>1. minted' \in Nat \ {0} /\ minted + 1 \in 1..minted' /\ 0..minted \subseteq 0..minted'
        /\ 1..minted \subseteq 1..minted'
      BY <1>10 DEF KickoffMints, TypeOK
  <2>2. TypeOK'
      BY <1>10, <2>1 DEF KickoffMints, Go, Stages, TypeOK, server, store, Session
  <2>3. CarriesSession' /\ CarriesKey' /\ PersistsRegistered' /\ CachedIsRegistered'
      BY <1>10, <2>1 DEF KickoffMints, Go, TypeOK, CarriesSession, CarriesKey,
                         PersistsRegistered, CachedIsRegistered, server, store, Session
  <2> QED BY <2>2, <2>3
<1>11. ASSUME NEW c \in Callers, Registers(c) PROVE IInv'
  <2>1. own[c] \in 1..minted /\ own[c] \in 0..minted
      BY <1>11 DEF Registers, CarriesKey, TypeOK
  <2>2. TypeOK'
      BY <1>11, <2>1 DEF Registers, Go, Stages, TypeOK, store, Session
  <2>3. \A d \in Callers : pc[d] # "persist"
      BY <1>11 DEF Registers, PersistsRegistered, CarriesKey, TypeOK
  <2>4. CarriesSession' /\ CarriesKey' /\ PersistsRegistered'
      BY <1>11, <2>1, <2>3 DEF Registers, Go, TypeOK, CarriesSession, CarriesKey,
                               PersistsRegistered, Session
  <2>5. uds = 0 /\ CachedIsRegistered'
      BY <1>11 DEF Registers, CachedIsRegistered, store
  <2> QED BY <2>2, <2>4, <2>5
<1>12. ASSUME NEW c \in Callers, Persist(c) PROVE IInv'
  <2>1. own[c] = identity /\ own[c] \in 0..minted
      BY <1>12 DEF Persist, PersistsRegistered, CarriesKey, TypeOK
  <2>2. TypeOK'
      BY <1>12, <2>1 DEF Persist, Go, Stages, TypeOK, server, Session
  <2>3. CarriesSession' /\ CarriesKey' /\ PersistsRegistered' /\ CachedIsRegistered'
      BY <1>12, <2>1 DEF Persist, Go, TypeOK, CarriesSession, CarriesKey,
                         PersistsRegistered, CachedIsRegistered, server, Session
  <2> QED BY <2>2, <2>3
<1>13. ASSUME NEW c \in Callers, Logout(c) PROVE IInv'
  <2>1. calls' \in 0..MaxCalls
      BY <1>13, AuthAssumption DEF Logout, TypeOK
  <2>2. \A d \in warm' : pc'[d] \in {"sso", "visit", "initialize"}
      BY <1>13 DEF Logout, Go, TypeOK
  <2> QED BY <1>13, <2>1, <2>2, Moves DEF Logout, Stages, TypeOK
<1>14. ASSUME NEW c \in Callers, Leave(c) PROVE IInv'
  <2>1. TypeOK'
      BY <1>0, <1>14 DEF Leave, Go, Stages, TypeOK, store, Session
  <2>2. CarriesSession' /\ CarriesKey' /\ PersistsRegistered' /\ CachedIsRegistered'
      BY <1>14 DEF Leave, Go, TypeOK, CarriesSession, CarriesKey,
                   PersistsRegistered, CachedIsRegistered, store, Session
  <2> QED BY <2>1, <2>2
<1>15. ASSUME NEW c \in Callers, Forget(c) PROVE IInv'
  <2>1. TypeOK'
      BY <1>0, <1>15 DEF Forget, Go, Stages, TypeOK, server, Session
  <2>2. CarriesSession' /\ CarriesKey' /\ PersistsRegistered' /\ CachedIsRegistered'
      BY <1>15 DEF Forget, Go, TypeOK, CarriesSession, CarriesKey,
                   PersistsRegistered, CachedIsRegistered, server, Session
  <2> QED BY <2>1, <2>2
<1>16. ASSUME NEW p \in {"ctx", "kameleon"}, Settle(p) PROVE IInv'
  <2>1. TypeOK'
      BY <1>16 DEF Settle, TypeOK, server, store, caller, Session
  <2>2. CarriesSession' /\ CarriesKey' /\ PersistsRegistered' /\ CachedIsRegistered'
      BY <1>16 DEF Settle, CarriesSession, CarriesKey, PersistsRegistered,
                   CachedIsRegistered, server, store, caller, Session
  <2> QED BY <2>1, <2>2
<1>17. CASE Traffic \/ (\E s \in valid : Revoke(s)) \/ UNCHANGED vars
  <2>1. TypeOK'
      BY <1>0, <1>17 DEF Traffic, Revoke, vars, TypeOK, server, store, caller, Session
  <2>2. CarriesSession' /\ CarriesKey' /\ PersistsRegistered' /\ CachedIsRegistered'
      BY <1>17 DEF Traffic, Revoke, vars, CarriesSession, CarriesKey, PersistsRegistered,
                   CachedIsRegistered, server, store, caller, Session
  <2> QED BY <2>1, <2>2
<1>18. CASE Restart
  <2>1. Hydrated \in Session /\ restarts' \in 0..MaxRestarts
      BY <1>0, <1>18, AuthAssumption DEF Restart, Hydrated, TypeOK
  <2>2. TypeOK'
      BY <1>0, <1>18, <2>1 DEF Restart, TypeOK, server, store, Session, Stages
  <2>3. CarriesSession' /\ CarriesKey' /\ PersistsRegistered' /\ CachedIsRegistered'
      BY <1>18 DEF Restart, CarriesSession, CarriesKey, PersistsRegistered,
                   CachedIsRegistered, server, store
  <2> QED BY <2>2, <2>3
<1> QED
    BY <1>1, <1>2, <1>3, <1>4, <1>5, <1>6, <1>7, <1>8, <1>9, <1>10, <1>11, <1>12,
       <1>13, <1>14, <1>15, <1>16, <1>17, <1>18 DEF Next, Step

LEMMA Inductive == Spec => []IInv
    BY InitIInv, NextIInv, PTL DEF Spec

(* The shape of the state. *)
THEOREM TypeCorrect == Spec => []TypeOK
<1>1. IInv => TypeOK
    BY DEF IInv
<1> QED BY <1>1, Inductive, PTL

(* Whatever calls race, wherever the process dies and whatever the server  *)
(* revokes, the store holds no identity but the registered one.            *)
THEOREM CachedIdentityIsRegistered == Spec => []CachedIsRegistered
<1>1. IInv => CachedIsRegistered
    BY DEF IInv
<1> QED BY <1>1, Inductive, PTL

-----------------------------------------------------------------------------
(* With a store that has synchronous access, and as long as nobody logs    *)
(* out: the jar is what the store has; from the moment a caller holds a    *)
(* session the jar never loses one, and from initialize on the slice has   *)
(* a bearer.                                                               *)
Places == {"sso", "visit", "initialize", "landed"}
LoggedInInv ==
    ~left =>
        /\ jar = disk
        /\ slice # 0 => jar # 0
        /\ \A c \in Callers :
            /\ pc[c] \in Places => jar # 0
            /\ pc[c] \in {"kickoff", "register", "persist", "resolved"} => slice # 0
            /\ pc[c] \notin {"leaveCtx", "leave", "forget"}

LEMMA LoggedInStep ==
    ASSUME Sync, IInv, LoggedInInv, [Next]_vars
    PROVE  LoggedInInv'
<1> USE DEF IInv
<1>1. ASSUME NEW c \in Callers,
             \/ Authenticate(c) \/ BringUp(c) \/ BroughtUp(c) \/ BringUpFails(c)
             \/ Ticket(c) \/ Visit(c) \/ MintFails(c) \/ LoginFails(c)
      PROVE  LoggedInInv'
    BY <1>1 DEF Authenticate, BringUp, BroughtUp, BringUpFails, Ticket, Visit, MintFails,
                LoginFails, Go, TypeOK, LoggedInInv, Places, store
<1>2. ASSUME NEW c \in Callers, Probe(c) \/ MintCold(c) PROVE LoggedInInv'
    BY <1>2 DEF Probe, MintCold, Go, TypeOK, LoggedInInv, Places, store
<1>3. ASSUME NEW c \in Callers, Initialize(c) PROVE LoggedInInv'
  <2>1. own[c] # 0
      BY <1>3 DEF Initialize, CarriesSession
  <2> QED BY <1>3, <2>1 DEF Initialize, Go, TypeOK, LoggedInInv, Places, store
<1>4. ASSUME NEW c \in Callers, LoginGranted(c) PROVE LoggedInInv'
    BY <1>4 DEF LoginGranted, Go, TypeOK, LoggedInInv, Places, store
<1>5. ASSUME NEW c \in Callers, LoginLands(c) PROVE LoggedInInv'
  <2>1. own[c] # 0
      BY <1>5 DEF LoginLands, CarriesSession
  <2> QED BY <1>5, <2>1 DEF LoginLands, Go, TypeOK, LoggedInInv, Places
<1>6. ASSUME NEW c \in Callers,
             \/ KickoffCached(c) \/ KickoffMints(c) \/ KickoffFails(c)
             \/ Registers(c) \/ AlreadyRegistered(c) \/ Persist(c)
      PROVE  LoggedInInv'
    BY <1>6 DEF KickoffCached, KickoffMints, KickoffFails, Registers, AlreadyRegistered,
                Persist, Go, TypeOK, LoggedInInv, Places, store
<1>7. ASSUME NEW c \in Callers,
             Logout(c) \/ LeaveCtx(c) \/ Leave(c) \/ LeaveThrows(c) \/ Forget(c)
      PROVE  LoggedInInv'
    BY <1>7 DEF Logout, LeaveCtx, Leave, LeaveThrows, Forget, LoggedInInv
<1>8. ASSUME NEW p \in {"ctx", "kameleon"}, Settle(p) PROVE LoggedInInv'
    BY <1>8 DEF Settle, LoggedInInv, store, caller
<1>9. CASE Traffic \/ (\E s \in valid : Revoke(s)) \/ UNCHANGED vars
    BY <1>9 DEF Traffic, Revoke, vars, LoggedInInv, store, caller
<1>10. CASE Restart
    BY <1>10 DEF Restart, Hydrated, LoggedInInv, Places, store
<1> QED
    BY <1>1, <1>2, <1>3, <1>4, <1>5, <1>6, <1>7, <1>8, <1>9, <1>10 DEF Next, Step

LEMMA LoggedInInductive ==
    ASSUME Sync
    PROVE  Spec => []LoggedInInv
<1>1. Init => LoggedInInv
    BY DEF Init, LoggedInInv, Places
<1>2. IInv /\ LoggedInInv /\ [Next]_vars => LoggedInInv'
    BY LoggedInStep
<1> QED BY <1>1, <1>2, Inductive, PTL DEF Spec

(* Without a logout, what a process is logged in with is in the store: a   *)
(* crash at any moment leaves the next process a session to restore from.  *)
THEOREM LoginIsDurable ==
    ASSUME Sync
    PROVE  Spec => []LoggedInIsDurable
<1>1. LoggedInInv => LoggedInIsDurable
    BY DEF LoggedInInv, LoggedInIsDurable
<1>2. Spec => []LoggedInInv
    BY LoggedInInductive
<1> QED BY <1>1, <1>2, PTL

(* An authenticate that resolves is logged in, whatever other calls did to *)
(* the jar and the slice meanwhile.                                        *)
THEOREM ResolvedIsLoggedIn ==
    ASSUME Sync
    PROVE  Spec => []ResolvesLoggedIn
<1>1. LoggedInInv => ResolvesLoggedIn
    BY DEF LoggedInInv, ResolvesLoggedIn
<1>2. Spec => []LoggedInInv
    BY LoggedInInductive
<1> QED BY <1>1, <1>2, PTL

(* No password is sent while the store has a session that was not tried.   *)
THEOREM PasswordIsLastResort ==
    ASSUME Sync
    PROVE  Spec => SessionIsTried
<1>1. IInv /\ LoggedInInv /\ [Next]_vars =>
          [\A c \in Callers : ~left /\ pc[c] = "probe" /\ pc'[c] = "login" => disk = 0]_vars
  <2> SUFFICES ASSUME IInv, LoggedInInv, Next, NEW c \in Callers,
                      ~left, pc[c] = "probe", pc'[c] = "login"
               PROVE  disk = 0
      OBVIOUS
  <2>1. ASSUME NEW d \in Callers, Authenticate(d) \/ Logout(d) \/ Step(d)
        PROVE  d = c /\ Probe(c)
    <3>1. PICK stage : pc' = [pc EXCEPT ![d] = stage]
        BY <2>1 DEF Authenticate, Logout, Step, BringUp, BroughtUp, BringUpFails, Probe,
                    Ticket, Visit, Initialize, MintFails, LoginGranted, LoginLands,
                    LoginFails, MintCold, KickoffCached, KickoffMints, KickoffFails,
                    Registers, AlreadyRegistered, Persist, LeaveCtx, Leave, LeaveThrows,
                    Forget, Go
    <3>2. d = c
        BY <3>1 DEF IInv, TypeOK
    <3> QED
        BY <2>1, <3>2
        DEF Authenticate, Logout, Step, BringUp, BroughtUp, BringUpFails, Ticket, Visit,
            Initialize, MintFails, LoginGranted, LoginLands, LoginFails, MintCold,
            KickoffCached, KickoffMints, KickoffFails, Registers, AlreadyRegistered,
            Persist, LeaveCtx, Leave, LeaveThrows, Forget
  <2>2. CASE \E d \in Callers : Authenticate(d) \/ Logout(d) \/ Step(d)
    <3>1. Probe(c)
        BY <2>1, <2>2
    <3> QED BY <3>1 DEF Probe, Go, IInv, TypeOK, LoggedInInv
  <2>3. ~ \/ \E p \in {"ctx", "kameleon"} : Settle(p)
          \/ Traffic \/ Restart \/ \E s \in valid : Revoke(s)
      BY DEF Settle, Traffic, Restart, Revoke, caller
  <2> QED BY <2>2, <2>3 DEF Next
<1>2. Spec => []LoggedInInv
    BY LoggedInInductive
<1> QED BY <1>1, <1>2, Inductive, PTL DEF Spec, SessionIsTried
=============================================================================
