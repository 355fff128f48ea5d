----------------------------- MODULE LiveInbox -----------------------------
(***************************************************************************)
(* Inbound messages of one messaging session: the wrapped delegate         *)
(* (wrap-session-create.ts), createPushHandler with its dedupe set         *)
(* (push-handler.ts), the history pump (inbox-pump.ts), deliverPlaintext   *)
(* and the order setupBundleSession runs them in (setup.ts).               *)
(*                                                                         *)
(* The WASM is external.  It calls the delegate for a message with its     *)
(* content, or, for a live push, without: then the conversation has to be  *)
(* fetched, which answers with all that has arrived in it.  A push frame   *)
(* may be repeated, and a fetch may fail.                                  *)
(***************************************************************************)
EXTENDS Naturals, Sequences, SequencesExt, FiniteSets

CONSTANTS
    Inbound,          \* messages that reach the account while it is online
    ConvOf,        \* the conversation of each message
    Enumerated,    \* conversations listConversations returned at bring-up
    Cap,           \* size of the dedupe set (5000 in the code)
    MaxPushes      \* bound: frames per message

Convs == {ConvOf[m] : m \in Inbound}

ASSUME InboxAssumption == Cap \in Nat \ {0} /\ MaxPushes \in Nat

VARIABLES
    captured,     \* pushHandler has the session
    seen,         \* fetchedAnalyticsIds, oldest first
    fetching,     \* conversations with a fetch outstanding, how many each
    arrived,      \* messages the WASM has received
    pushed,       \* frames handed to the delegate, per message
    asked,        \* fetches started for each message
    delivered,    \* `message' events for each message
    missed        \* history: conversations a fetch of which has failed

inboxVars == <<captured, seen, fetching, arrived, pushed, asked, delivered, missed>>

InboxInit ==
    /\ captured = FALSE
    /\ seen = <<>>
    /\ fetching = [v \in Convs |-> 0]
    /\ arrived = {}
    /\ pushed = [m \in Inbound |-> 0]
    /\ asked = [m \in Inbound |-> 0]
    /\ delivered = [m \in Inbound |-> 0]
    /\ missed = {}

-----------------------------------------------------------------------------
(* The dedupe set with m added, the oldest id dropped beyond the cap. *)
Remember(s, m) == LET t == Append(s, m) IN IF Len(t) > Cap THEN Tail(t) ELSE t

(* Mutant of Fetched: a repeated frame is never recognised. *)
FetchedNever(m) == FALSE

(* The dedupe set knows m. *)
Fetched(m) == m \in ToSet(seen)

Frame(m) == /\ pushed[m] < MaxPushes
            /\ pushed' = [pushed EXCEPT ![m] = @ + 1]
            /\ arrived' = arrived \cup {m}

(* The delegate is called with content: delivered as it is. *)
PushWithContent(m) ==
    /\ Frame(m)
    /\ delivered' = [delivered EXCEPT ![m] = @ + 1]
    /\ UNCHANGED <<captured, seen, fetching, asked, missed>>

(* An empty frame before setSession, or of a known id, is dropped. *)
PushDropped(m) ==
    /\ Frame(m)
    /\ ~captured \/ Fetched(m)
    /\ UNCHANGED <<captured, seen, fetching, asked, delivered, missed>>

(* fetchPushBody: the id is remembered, then the conversation fetched. *)
PushFetches(m) ==
    /\ Frame(m)
    /\ captured
    /\ ~Fetched(m)
    /\ seen' = Remember(seen, m)
    /\ asked' = [asked EXCEPT ![m] = @ + 1]
    /\ fetching' = [fetching EXCEPT ![ConvOf[m]] = @ + 1]
    /\ UNCHANGED <<captured, delivered, missed>>

(* Mutant of Pump: the inbox is not pumped. *)
PumpNothing == fetching

(* pumpInbox fetches every conversation the caller listed. *)
Pump == [v \in Convs |-> fetching[v] + (IF v \in Enumerated THEN 1 ELSE 0)]

(* createMessagingSession has resolved: setSession, then pumpInbox. *)
Capture ==
    /\ ~captured
    /\ captured' = TRUE
    /\ fetching' = Pump
    /\ UNCHANGED <<seen, arrived, pushed, asked, delivered, missed>>

(* A fetch completes: every message of the conversation is delivered,      *)
(* those delivered before included.                                        *)
FetchDone(v) ==
    /\ fetching[v] > 0
    /\ fetching' = [fetching EXCEPT ![v] = @ - 1]
    /\ delivered' = [m \in Inbound |->
           delivered[m] + (IF m \in arrived /\ ConvOf[m] = v THEN 1 ELSE 0)]
    /\ UNCHANGED <<captured, seen, arrived, pushed, asked, missed>>

(* A fetch ends in onError, which is logged. *)
FetchFails(v) ==
    /\ fetching[v] > 0
    /\ fetching' = [fetching EXCEPT ![v] = @ - 1]
    /\ missed' = missed \cup {v}
    /\ UNCHANGED <<captured, seen, arrived, pushed, asked, delivered>>

InboxNext ==
    \/ \E m \in Inbound : PushWithContent(m) \/ PushDropped(m) \/ PushFetches(m)
    \/ Capture
    \/ \E v \in Convs : FetchDone(v) \/ FetchFails(v)

InboxSpec == InboxInit /\ [][InboxNext]_inboxVars

(* The bring-up completes and every fetch is answered. *)
InboxFairness == WF_inboxVars(Capture) /\ \A v \in Convs : WF_inboxVars(FetchDone(v) \/ FetchFails(v))
InboxFairSpec == InboxSpec /\ InboxFairness

-----------------------------------------------------------------------------
(* The shape of the state; the dedupe set never outgrows its cap. *)
InboxTypeOK ==
    /\ captured \in BOOLEAN
    /\ seen \in Seq(Inbound) /\ Len(seen) <= Cap
    /\ fetching \in [Convs -> Nat]
    /\ arrived \subseteq Inbound
    /\ pushed \in [Inbound -> 0..MaxPushes]
    /\ asked \in [Inbound -> Nat]
    /\ delivered \in [Inbound -> Nat]
    /\ missed \subseteq Convs
    /\ \A m \in Inbound : delivered[m] > 0 => m \in arrived

(* "WS retry frames don't fan out into repeated fetches": a message is     *)
(* fetched for again only when at least Cap others have been fetched for.  *)
FetchedOnce ==
    \A m \in Inbound : asked[m] > 1 =>
        Cardinality({n \in Inbound \ {m} : asked[n] > 0}) >= Cap

(* A message that reaches the account is emitted in the end, also one      *)
(* whose push came while the session was being set up, if its conversation *)
(* is one listConversations returned and no fetch of it failed.            *)
EventuallyDelivered ==
    \A m \in Inbound : ConvOf[m] \in Enumerated =>
        (m \in arrived ~> delivered[m] > 0 \/ ConvOf[m] \in missed)

-----------------------------------------------------------------------------
(* What the documentation says and the code does not keep; see the README. *)

(* `message' - "A decrypted plaintext message arrived", and only a restart *)
(* is said to repeat one: a fetch does not emit what was emitted before.   *)
EmittedOnce ==
    [][\A m \in Inbound :
        delivered'[m] # delivered[m] /\ arrived' = arrived => delivered[m] = 0]_inboxVars

(* "We deduplicate so the WS retry frames don't fire repeated fetches":    *)
(* the retry frame of a message whose fetch failed does start one.         *)
RetryFrameFetches ==
    [][\A m \in Inbound :
        pushed'[m] # pushed[m] /\ captured /\ delivered'[m] = 0 =>
            fetching'[ConvOf[m]] > 0]_inboxVars

(* An empty conversation list "still works (live frames only)": a message  *)
(* is emitted whether or not its conversation was enumerated.              *)
LiveFramesDelivered ==
    \A m \in Inbound : m \in arrived ~> delivered[m] > 0 \/ ConvOf[m] \in missed
=============================================================================
