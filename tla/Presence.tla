------------------------------ MODULE Presence ------------------------------
(***************************************************************************)
(* setTyping and setViewing (api/messaging/set-typing.ts, presence-out.ts) *)
(* and ensurePresenceForConv with its seeding of the messaging slice       *)
(* (presence-bridge-init.ts).  The bundle has ONE presence session at a    *)
(* time; calls to any conversation share it, and every await in a call     *)
(* lets the others and the bundle run.                                     *)
(*                                                                         *)
(* A session is its number in `sessions', the conversations that           *)
(* createPresenceSession was called for; 0 is no session.  The bundle is   *)
(* external: a creation lands in the slot some time after it was asked     *)
(* for, once the conversation is in the messaging slice, and the session   *)
(* it replaces is disposed, which hides it.                                *)
(***************************************************************************)
EXTENDS Naturals, Sequences, FiniteSets

CONSTANTS
    Convs,       \* conversations
    Typists,     \* callers of setTyping, one call at a time each
    Viewers,     \* callers of setViewing
    MaxBegun,    \* bound: calls made in a run
    MaxPolls,    \* looks at the slot before a call gives up (50 in the code)
    NoConv       \* no conversation

ASSUME PresenceAssumption ==
    /\ MaxBegun \in Nat
    /\ MaxPolls \in Nat \ {0}
    /\ NoConv \notin Convs
    /\ Typists \cap Viewers = {}

Callers == Typists \cup Viewers

VARIABLES
    initialized, \* internal.presenceInitialized
    inits,       \* how often initializePresenceServiceTs succeeded
    cache,       \* internal.presenceSessions: a session per conversation
    records,     \* state.messaging.conversations: "none", "seed" or the bundle's "rich"
    sessions,    \* the conversation of every session asked for
    landing,     \* sessions asked for that may still arrive
    slot,        \* state.presence.presenceSession
    visible,     \* sessions in chat_visible
    entered,     \* conversations the conversation manager was told to enter
    pc, conv, held, polls,   \* each caller's place, conversation, session, looks
    begun        \* calls of setTyping and setViewing so far

bundle == <<records, sessions, landing, slot, visible, entered>>
call == <<pc, conv, held, polls, begun>>
presenceVars == <<initialized, inits, cache, bundle, call>>

Stages == {"idle", "entering", "seeding", "resolving", "creating", "polling",
           "held", "showing"}
Session == 0..Len(sessions)

Go(c, stage) == pc' = [pc EXCEPT ![c] = stage]

(* ensurePresenceForConv returns s to its caller. *)
Return(c, s) == /\ Go(c, "held")
                /\ held' = [held EXCEPT ![c] = s]

PresenceInit ==
    /\ initialized = FALSE
    /\ inits = 0
    /\ cache = [v \in Convs |-> 0]
    /\ records = [v \in Convs |-> "none"]
    /\ sessions = <<>>
    /\ landing = {}
    /\ slot = 0
    /\ visible = {}
    /\ entered = {}
    /\ pc = [c \in Callers |-> "idle"]
    /\ conv = [c \in Callers |-> NoConv]
    /\ held = [c \in Callers |-> 0]
    /\ polls = [c \in Callers |-> 0]
    /\ begun = 0

-----------------------------------------------------------------------------
(* The consumer calls setTyping or setViewing; the messaging session is up. *)
Begin(c) ==
    /\ pc[c] = "idle"
    /\ begun < MaxBegun
    /\ begun' = begun + 1
    /\ \E v \in Convs : conv' = [conv EXCEPT ![c] = v]
    /\ Go(c, "entering")
    /\ UNCHANGED <<initialized, inits, cache, bundle, held, polls>>

(* The first call's initializePresenceServiceTs throws; the call goes on   *)
(* without a session.                                                      *)
InitThrows(c) ==
    /\ pc[c] = "entering"
    /\ ~initialized
    /\ Return(c, 0)
    /\ UNCHANGED <<initialized, inits, cache, bundle, conv, polls, begun>>

(* Between two awaits: initialise once, then the cached session when the   *)
(* slot still holds it, else forget it and make another.                   *)
Enter(c) ==
    /\ pc[c] = "entering"
    /\ initialized' = TRUE
    /\ inits' = IF initialized THEN inits ELSE inits + 1
    /\ \/ /\ cache[conv[c]] # 0
          /\ cache[conv[c]] = slot
          /\ Return(c, slot)
          /\ UNCHANGED cache
       \/ /\ cache[conv[c]] = 0 \/ cache[conv[c]] # slot
          /\ cache' = [cache EXCEPT ![conv[c]] = 0]
          /\ Go(c, "seeding")
          /\ UNCHANGED held
    /\ UNCHANGED <<bundle, conv, polls, begun>>

(* seedMessagingConversation looks for the conversation ... *)
SeedCheck(c) ==
    /\ pc[c] = "seeding"
    /\ Go(c, IF records[conv[c]] = "none" THEN "resolving" ELSE "creating")
    /\ UNCHANGED <<initialized, inits, cache, bundle, conv, held, polls, begun>>

(* ... and, the user id and the participants fetched, writes a record. *)
SeedWrite(c) ==
    /\ pc[c] = "resolving"
    /\ records' = [records EXCEPT ![conv[c]] = "seed"]
    /\ Go(c, "creating")
    /\ UNCHANGED <<initialized, inits, cache, sessions, landing, slot, visible,
                   entered, conv, held, polls, begun>>

(* The user id does not resolve: logged, no record. *)
SeedThrows(c) ==
    /\ pc[c] = "resolving"
    /\ Go(c, "creating")
    /\ UNCHANGED <<initialized, inits, cache, bundle, conv, held, polls, begun>>

-----------------------------------------------------------------------------
(* Mutant of Lands: whatever session is in the slot is taken. *)
LandsAny(v) == slot # 0

(* What the poll accepts: the slot's session, if it is the conversation's. *)
Lands(v) == slot # 0 /\ sessions[slot] = v

(* Mutant of Look: a look that finds nothing is not counted. *)
LookUncounted(c, n) ==
    \/ /\ Lands(conv[c])
       /\ Return(c, slot)
       /\ UNCHANGED <<cache, polls>>
    \/ /\ ~Lands(conv[c])
       /\ Go(c, "polling")
       /\ UNCHANGED <<cache, held, polls>>

(* One look at the slot by a caller that has looked n times before. *)
Look(c, n) ==
    \/ /\ Lands(conv[c])
       /\ cache' = [cache EXCEPT ![conv[c]] = slot]
       /\ Return(c, slot)
       /\ polls' = [polls EXCEPT ![c] = 0]
    \/ /\ ~Lands(conv[c])
       /\ n + 1 < MaxPolls
       /\ polls' = [polls EXCEPT ![c] = n + 1]
       /\ Go(c, "polling")
       /\ UNCHANGED <<cache, held>>
    \/ /\ ~Lands(conv[c])
       /\ n + 1 >= MaxPolls
       /\ polls' = [polls EXCEPT ![c] = 0]
       /\ Return(c, 0)
       /\ UNCHANGED cache

(* createPresenceSession, and the first look in the same breath. *)
Create(c) ==
    /\ pc[c] = "creating"
    /\ sessions' = Append(sessions, conv[c])
    /\ landing' = landing \cup {Len(sessions) + 1}
    /\ Look(c, 0)
    /\ UNCHANGED <<initialized, inits, records, slot, visible, entered, conv, begun>>

(* createPresenceSession throws: the call goes on without a session. *)
CreateThrows(c) ==
    /\ pc[c] = "creating"
    /\ Return(c, 0)
    /\ UNCHANGED <<initialized, inits, cache, bundle, conv, polls, begun>>

Poll(c) ==
    /\ pc[c] = "polling"
    /\ Look(c, polls[c])
    /\ UNCHANGED <<initialized, inits, bundle, conv, begun>>

(* chatVisible on the session the call holds; a disposed session shows     *)
(* nothing.  setViewing also enters the conversation.                      *)
Show(c) ==
    /\ pc[c] = "held"
    /\ visible' = visible \cup (({held[c]} \cap {slot}) \ {0})
    /\ entered' = entered \cup (IF c \in Viewers THEN {conv[c]} ELSE {})
    /\ Go(c, "showing")
    /\ UNCHANGED <<initialized, inits, cache, records, sessions, landing, slot,
                   conv, held, polls, begun>>

(* Mutant of Finish: setViewing does not leave the conversation. *)
FinishEntered(c) ==
    /\ pc[c] = "showing"
    /\ visible' = visible \ {held[c]}
    /\ pc' = [pc EXCEPT ![c] = "idle"]
    /\ held' = [held EXCEPT ![c] = 0]
    /\ conv' = [conv EXCEPT ![c] = NoConv]
    /\ UNCHANGED <<initialized, inits, cache, records, sessions, landing, slot,
                   entered, polls, begun>>

(* The finally block: chatHidden, and setViewing leaves the conversation. *)
Finish(c) ==
    /\ pc[c] = "showing"
    /\ visible' = visible \ {held[c]}
    /\ entered' = entered \ (IF c \in Viewers THEN {conv[c]} ELSE {})
    /\ pc' = [pc EXCEPT ![c] = "idle"]
    /\ held' = [held EXCEPT ![c] = 0]
    /\ conv' = [conv EXCEPT ![c] = NoConv]
    /\ UNCHANGED <<initialized, inits, cache, records, sessions, landing, slot,
                   polls, begun>>

-----------------------------------------------------------------------------
(* The bundle puts a session it was asked for in the slot. *)
Land(i) ==
    /\ i \in landing
    /\ records[sessions[i]] # "none"
    /\ landing' = landing \ {i}
    /\ slot' = i
    /\ visible' = visible \ {slot}
    /\ UNCHANGED <<initialized, inits, cache, records, sessions, entered, call>>

(* The bundle's own actions write the conversation's full record. *)
BundleWrites(v) ==
    /\ records[v] # "rich"
    /\ records' = [records EXCEPT ![v] = "rich"]
    /\ UNCHANGED <<initialized, inits, cache, sessions, landing, slot, visible,
                   entered, call>>

(* One step of a call that is under way. *)
Step(c) ==
    \/ InitThrows(c) \/ Enter(c)
    \/ SeedCheck(c) \/ SeedWrite(c) \/ SeedThrows(c)
    \/ Create(c) \/ CreateThrows(c) \/ Poll(c)
    \/ Show(c) \/ Finish(c)

PresenceNext ==
    \/ \E c \in Callers : Begin(c) \/ Step(c)
    \/ \E i \in landing : Land(i)
    \/ \E v \in Convs : BundleWrites(v)

PresenceSpec == PresenceInit /\ [][PresenceNext]_presenceVars

(* The awaits of a call settle and its timers fire. *)
PresenceFairness == \A c \in Callers : WF_presenceVars(Step(c))
FairPresenceSpec == PresenceSpec /\ PresenceFairness

-----------------------------------------------------------------------------
(* The shape of the state. *)
PresenceTypeOK ==
    /\ initialized \in BOOLEAN
    /\ inits \in Nat
    /\ sessions \in Seq(Convs)
    /\ cache \in [Convs -> Session]
    /\ records \in [Convs -> {"none", "seed", "rich"}]
    /\ landing \subseteq Session \ {0}
    /\ slot \in Session
    /\ visible \subseteq Session \ {0}
    /\ entered \subseteq Convs
    /\ pc \in [Callers -> Stages]
    /\ conv \in [Callers -> Convs \cup {NoConv}]
    /\ held \in [Callers -> Session]
    /\ polls \in [Callers -> 0..MaxPolls]
    /\ begun \in 0..MaxBegun

(* No call ever drives, and no cache entry ever holds, the session of      *)
(* another conversation, although all calls share one slot: the candidate  *)
(* check of the poll and the cache check on the way in suffice.            *)
OwnConversation ==
    /\ \A c \in Callers : held[c] # 0 => sessions[held[c]] = conv[c]
    /\ \A v \in Convs : cache[v] # 0 => sessions[cache[v]] = v

(* The presence service is initialised once however many calls race, and   *)
(* before any session is created.                                          *)
InitOnce ==
    /\ inits <= 1
    /\ sessions # <<>> => inits = 1

(* "No peer ever sees a stale typing dot": an indicator that shows is      *)
(* owned by a call that is still running and will hide it, through every   *)
(* order of calls, late sessions and failures.                             *)
IndicatorsAreOwned ==
    /\ \A i \in visible : \E c \in Callers : pc[c] = "showing" /\ held[c] = i
    /\ \A v \in entered : \E c \in Viewers : pc[c] = "showing" /\ conv[c] = v

(* Every call comes back, whether or not the bundle ever gives a session. *)
EveryCallEnds == \A c \in Callers : pc[c] # "idle" ~> pc[c] = "idle"

-----------------------------------------------------------------------------
(* What the documentation says and the code does not keep; see the README. *)

(* The contract of setTyping and setViewing: while a call that has a       *)
(* session is in its window, the indicator of its conversation shows.      *)
ShownForTheDuration ==
    \A c \in Callers : pc[c] = "showing" /\ held[c] # 0 => held[c] \in visible

(* "Our cache is correct only as long as we don't interleave convs": with  *)
(* one conversation the cached session is the slot's.                      *)
CacheMatchesSlot == \A v \in Convs : cache[v] # 0 => cache[v] = slot

(* Seeding skips a conversation already in the slice "so we don't clobber  *)
(* a richer record the bundle's own action wrote".                         *)
RichRecordSurvives ==
    [][\A v \in Convs : records[v] = "rich" => records'[v] = "rich"]_presenceVars
=============================================================================
