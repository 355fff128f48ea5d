-------------------------- MODULE MessagingSession --------------------------
(***************************************************************************)
(* The messaging session's bring-up: ensureSession and bringUpSession      *)
(* (api/messaging/bringup.ts), setupBundleSession with its 15 s race and   *)
(* the wrap of messaging_Session.create (bundle/chat/standalone/session),  *)
(* and the WASM boot that it shares with authenticate()'s Fidelius kickoff *)
(* (bundle/chat/standalone/realm.ts).                                      *)
(*                                                                         *)
(* An attempt is one run of bringUpSession, numbered from 1.  The realm    *)
(* outlives attempts: what an attempt wraps in it stays wrapped.  The      *)
(* engine's createMessagingSession is external: it may resolve, reject or  *)
(* stay silent, and a session it makes late is alive although nobody holds *)
(* it.                                                                     *)
(***************************************************************************)
EXTENDS Naturals, Sequences, SequencesExt, FiniteSets, FiniteSetsExt

CONSTANTS
    Callers,      \* consumers of ensureSession: on(), sends, typing
    Msgs,         \* messages that reach the account
    MaxAttempts   \* bound: runs of bringUpSession

ASSUME SessionAssumption == MaxAttempts \in Nat \ {0}

VARIABLES
    boot,      \* sandbox.fideliusMintBoot: "none", "booting" or "up"
    cell,      \* promiseCell: the attempt whose promise it holds, or 0
    stage,     \* the stage of every attempt
    hooks,     \* attempts whose delegate hook is wrapped round Sess.create
    late,      \* attempts that lost the race, their engine call still open
    live,      \* sessions alive in the WASM: attempt, and hooks they call
    session,   \* internal.session: the attempt whose session it is, or 0
    place,     \* each caller's await
    await,     \* the attempt each caller awaits
    emitted    \* `message' events emitted for each message that arrived

engine == <<hooks, late, live, emitted>>
callers == <<place, await>>
vars == <<boot, cell, stage, engine, session, callers>>

Attempt == 1..Len(stage)
UnderWay == {"booting", "polling", "listing", "wiring", "creating"}
Running == {a \in Attempt : stage[a] \in UnderWay}

Init ==
    /\ boot = "none"
    /\ cell = 0
    /\ stage = <<>>
    /\ hooks = <<>>
    /\ late = {}
    /\ live = {}
    /\ session = 0
    /\ place = [c \in Callers |-> "idle"]
    /\ await = [c \in Callers |-> 0]
    /\ emitted = [m \in Msgs |-> 0]

To(a, s) == stage' = [stage EXCEPT ![a] = s]

(* Mutant of Drop: a failed attempt's promise stays in the cell. *)
DropNothing(a) == cell

(* ensureSession's catch: the cell is emptied for the next call. *)
Drop(a) == IF cell = a THEN 0 ELSE cell

(* Attempt a throws. *)
Fail(a) == To(a, "failed") /\ cell' = Drop(a)

(* bootStandaloneMintWasm is started unless it runs or has run. *)
Boot == boot' = IF boot = "none" THEN "booting" ELSE boot

-----------------------------------------------------------------------------
(* ensureSession has a promise to hand out. *)
InFlight == cell # 0

(* ensureSession: the promise in the cell, or a new attempt's. *)
Ensure(c) ==
    /\ place[c] = "idle"
    /\ place' = [place EXCEPT ![c] = "awaiting"]
    /\ \/ /\ InFlight
          /\ await' = [await EXCEPT ![c] = cell]
          /\ UNCHANGED <<boot, cell, stage>>
       \/ /\ ~InFlight
          /\ Len(stage) < MaxAttempts
          /\ stage' = Append(stage, "booting")
          /\ cell' = Len(stage) + 1
          /\ await' = [await EXCEPT ![c] = Len(stage) + 1]
          /\ Boot
    /\ UNCHANGED <<engine, session>>

(* The caller's await settles; it may call again. *)
Settle(c) ==
    /\ place[c] = "awaiting"
    /\ stage[await[c]] \in {"up", "failed"}
    /\ place' = [place EXCEPT ![c] = IF stage[await[c]] = "up" THEN "ready" ELSE "idle"]
    /\ UNCHANGED <<boot, cell, stage, engine, session, await>>

(* authenticate()'s kickoff mints an identity and so boots the WASM too. *)
Kickoff ==
    /\ boot = "none"
    /\ Boot
    /\ UNCHANGED <<cell, stage, engine, session, callers>>

BootUp ==
    /\ boot = "booting"
    /\ boot' = "up"
    /\ UNCHANGED <<cell, stage, engine, session, callers>>

(* The boot rejects: it is forgotten, and the attempt that awaits it fails. *)
BootFails ==
    /\ boot = "booting"
    /\ boot' = "none"
    /\ stage' = [a \in Attempt |-> IF stage[a] = "booting" THEN "failed" ELSE stage[a]]
    /\ cell' = IF cell # 0 /\ stage[cell] = "booting" THEN Drop(cell) ELSE cell
    /\ UNCHANGED <<engine, session, callers>>

(* The realm is there; then the auth slice is polled for the user id. *)
Booted(a) ==
    /\ stage[a] = "booting"
    /\ boot = "up"
    /\ To(a, "polling")
    /\ UNCHANGED <<boot, cell, engine, session, callers>>

UserIdLands(a) ==
    /\ stage[a] = "polling"
    /\ To(a, "listing")
    /\ UNCHANGED <<boot, cell, engine, session, callers>>

(* No user id after 30 s, or no bearer. *)
UserIdMissing(a) ==
    /\ stage[a] = "polling"
    /\ Fail(a)
    /\ UNCHANGED <<boot, engine, session, callers>>

(* listConversations, whose failure is tolerated. *)
Listed(a) ==
    /\ stage[a] = "listing"
    /\ To(a, "wiring")
    /\ UNCHANGED <<boot, cell, engine, session, callers>>

(* setupBundleSession throws before it wraps anything. *)
WiringThrows(a) ==
    /\ stage[a] = "wiring"
    /\ Fail(a)
    /\ UNCHANGED <<boot, engine, session, callers>>

(* The chunk is evaluated, Sess.create wrapped, the engine called. *)
Wire(a) ==
    /\ stage[a] = "wiring"
    /\ hooks' = Append(hooks, a)
    /\ To(a, "creating")
    /\ UNCHANGED <<boot, cell, late, live, emitted, session, callers>>

(* A session of the engine calls every hook wrapped so far. *)
Alive(a) == [attempt |-> a, hooks |-> ToSet(hooks)]

(* Mutant of Created: the session is not handed out before the promise     *)
(* resolves.                                                               *)
CreatedUnheld(a) ==
    /\ stage[a] = "creating"
    /\ live' = live \cup {Alive(a)}
    /\ To(a, "up")
    /\ UNCHANGED <<boot, cell, hooks, late, emitted, session, callers>>

(* createMessagingSession resolves in time: onSession, wake, pump. *)
Created(a) ==
    /\ stage[a] = "creating"
    /\ live' = live \cup {Alive(a)}
    /\ session' = a
    /\ To(a, "up")
    /\ UNCHANGED <<boot, cell, hooks, late, emitted, callers>>

CreateRejects(a) ==
    /\ stage[a] = "creating"
    /\ Fail(a)
    /\ UNCHANGED <<boot, engine, session, callers>>

(* Mutant of CreateTimesOut: the engine is awaited without the race. *)
CreateAwaited(a) == FALSE /\ UNCHANGED vars

(* The race's 15 s are over; the engine's call goes on. *)
CreateTimesOut(a) ==
    /\ stage[a] = "creating"
    /\ Fail(a)
    /\ late' = late \cup {a}
    /\ UNCHANGED <<boot, hooks, live, emitted, session, callers>>

(* ... and may make its session after all. *)
CreatedLate(a) ==
    /\ a \in late
    /\ late' = late \ {a}
    /\ live' = live \cup {Alive(a)}
    /\ UNCHANGED <<boot, cell, stage, hooks, emitted, session, callers>>

(* A message is decrypted: every session alive calls its hooks, and every  *)
(* hook emits `message'.                                                   *)
Arrive(m) ==
    /\ emitted[m] = 0
    /\ live # {}
    /\ emitted' = [emitted EXCEPT ![m] = MapThenSumSet(LAMBDA s : Cardinality(s.hooks), live)]
    /\ UNCHANGED <<boot, cell, stage, hooks, late, live, session, callers>>

(* Steps of bring-up that code or a timer of the code takes. *)
Progress ==
    \/ BootUp \/ BootFails
    \/ \E a \in Attempt :
        \/ Booted(a) \/ UserIdLands(a) \/ UserIdMissing(a) \/ Listed(a)
        \/ WiringThrows(a) \/ Wire(a) \/ CreateTimesOut(a)

(* Answers of the engine and traffic. *)
Engine ==
    \/ \E a \in Attempt : Created(a) \/ CreateRejects(a) \/ CreatedLate(a)
    \/ \E m \in Msgs : Arrive(m)

Next ==
    \/ \E c \in Callers : Ensure(c) \/ Settle(c)
    \/ Kickoff
    \/ Progress
    \/ Engine

Spec == Init /\ [][Next]_vars

(* Promises settle and timers fire; the engine owes nothing. *)
Fairness == WF_vars(Progress) /\ \A c \in Callers : WF_vars(Settle(c))
FairSpec == Spec /\ Fairness

-----------------------------------------------------------------------------
(* The shape of the state. *)
TypeOK ==
    /\ boot \in {"none", "booting", "up"}
    /\ stage \in Seq(UnderWay \cup {"up", "failed"})
    /\ cell \in 0..Len(stage)
    /\ hooks \in Seq(Attempt) /\ IsInjective(hooks)
    /\ late \subseteq Attempt
    /\ live \subseteq [attempt : Attempt, hooks : SUBSET Attempt]
    /\ session \in 0..Len(stage)
    /\ place \in [Callers -> {"idle", "awaiting", "ready"}]
    /\ await \in [Callers -> 0..Len(stage)]
    /\ emitted \in [Msgs -> Nat]

(* However callers, failures and retries interleave, the cell always holds *)
(* the bring-up that runs, so that one runs at a time - two would evaluate *)
(* the chunk over each other in one realm - and is shared; and it never    *)
(* holds a failed one, so a later call can retry.                          *)
CellIsCurrent ==
    /\ cell # 0 => stage[cell] # "failed"
    /\ \A a \in Running : cell = a

(* A caller whose ensureSession resolved finds a session, alive, of a      *)
(* bring-up that succeeded.                                                *)
ReadyHasSession ==
    \A c \in Callers : place[c] = "ready" =>
        /\ session # 0
        /\ stage[session] = "up"
        /\ \E s \in live : s.attempt = session

(* Every ensureSession settles although the engine may never answer. *)
CallersSettle == \A c \in Callers : place[c] = "awaiting" ~> place[c] # "awaiting"

-----------------------------------------------------------------------------
(* What the documentation says and the code does not keep; see the README. *)

(* `message' - "A decrypted plaintext message arrived": one event each. *)
OneEventPerMessage == \A m \in Msgs : emitted[m] <= 1

(* "Multiple calls share one bring-up": the account has one session. *)
OneSession == Cardinality(live) <= 1
=============================================================================
