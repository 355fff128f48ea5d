------------------------------ MODULE Sockets -------------------------------
(***************************************************************************)
(* The WebSocket classes the SDK hands to Snap's code, both wrappers of    *)
(* one `ws' socket: the sandbox's (shims/websocket.ts), which reads the    *)
(* jar when it is constructed, and the messaging session's (session/       *)
(* ws-shim.ts), made once per bring-up with the cookies of that moment.    *)
(*                                                                         *)
(* One socket at a time is followed, of a class chosen at the start.  The  *)
(* `ws' socket (inner) and the code that holds the wrapper are external;   *)
(* readyState is the wrapper's own copy.                                   *)
(***************************************************************************)
EXTENDS Naturals

CONSTANTS
    MaxJar,       \* bound: versions of the jar's cookies
    MaxSockets    \* bound: sockets constructed

ASSUME SocketAssumption == MaxJar \in Nat \ {0} /\ MaxSockets \in Nat

VARIABLES
    class,    \* "sandbox" or "session"
    jar,      \* version of the cookies in the jar
    bound,    \* the session class's preboundCookies; 0 before there is one
    sock,     \* the wrapper: readyState, the ws socket's state, the cookies sent;
              \* heard: readyState at the last message passed on, NoMessage before
    opened    \* sockets constructed so far

socket == <<class, jar, bound, sock, opened>>

CONNECTING == 0
OPEN == 1
CLOSING == 2
CLOSED == 3
NoMessage == 4

SocketInit ==
    /\ class \in {"sandbox", "session"}
    /\ jar = 1
    /\ bound = 0
    /\ sock = [ready |-> CLOSED, inner |-> "none", cookies |-> 0, heard |-> NoMessage]
    /\ opened = 0

(* An event of the ws socket: its state, and what the wrapper makes of it. *)
Event(from, inner, ready) ==
    /\ sock.inner \in from
    /\ sock' = [sock EXCEPT !.inner = inner, !.ready = ready]
    /\ UNCHANGED <<class, jar, bound, opened>>

(* A response sets a cookie. *)
JarTurns ==
    /\ jar < MaxJar
    /\ jar' = jar + 1
    /\ UNCHANGED <<class, bound, sock, opened>>

(* createWebSocketShim, once per setupBundleSession. *)
CreateWebSocketShim ==
    /\ class = "session" /\ bound = 0
    /\ bound' = jar
    /\ UNCHANGED <<class, jar, sock, opened>>

(* The Cookie header of an upgrade. *)
Upgrade == IF class = "session" THEN bound ELSE jar

(* new WebSocket: the last one is over, or given up after a refusal. *)
Construct ==
    /\ class = "session" => bound # 0
    /\ sock.inner \in {"none", "closed", "refused"}
    /\ opened < MaxSockets
    /\ sock' = [ready |-> CONNECTING, inner |-> "connecting", cookies |-> Upgrade,
                 heard |-> NoMessage]
    /\ opened' = opened + 1
    /\ UNCHANGED <<class, jar, bound>>

OnOpen == Event({"connecting"}, "open", OPEN)

(* A message is passed on, whatever readyState says; a string as it is,    *)
(* bytes as an ArrayBuffer of the sandbox's realm.                         *)
OnMessage ==
    /\ sock.inner \in {"open", "closing"}
    /\ sock' = [sock EXCEPT !.heard = sock.ready]
    /\ UNCHANGED <<class, jar, bound, opened>>

(* The handshake is answered with another status: an error event, no more. *)
OnUnexpectedResponse == Event({"connecting"}, "refused", sock.ready)

(* The peer's close frame is answered by ws, without an event. *)
PeerCloses == Event({"open"}, "closing", sock.ready)

(* Mutant of OnClose: the wrapper's copy is not brought up to date. *)
OnCloseUnseen(from) == Event(from, "closed", sock.ready)

(* The close event, after an error or a close handshake. *)
OnClose(from) == Event(from, "closed", CLOSED)

(* Mutant of Close: the wrapper does not wait for the handshake. *)
CloseAtOnce ==
    /\ sock.inner # "none"
    /\ sock' = [sock EXCEPT !.ready = CLOSED,
                            !.inner = IF @ = "closed" THEN @ ELSE "closing"]
    /\ UNCHANGED <<class, jar, bound, opened>>

(* close(): ws closes, or aborts the handshake; on a socket that is closed *)
(* it does nothing, but the wrapper's copy is set all the same.            *)
Close ==
    /\ sock.inner # "none"
    /\ sock' = [sock EXCEPT !.ready = CLOSING,
                            !.inner = IF @ = "closed" THEN @ ELSE "closing"]
    /\ UNCHANGED <<class, jar, bound, opened>>

Life ==
    \/ Construct \/ OnOpen \/ OnMessage \/ OnUnexpectedResponse \/ Close
    \/ OnClose({"connecting", "open"}) \/ OnClose({"closing"})

SandboxWebSocket == class = "sandbox" /\ Life
SessionWebSocket == class = "session" /\ Life

(* ws ends a close handshake, by a timer of its own if the peer does not. *)
SocketFairness == WF_socket(OnClose({"closing"}))

-----------------------------------------------------------------------------
SocketTypeOK ==
    /\ class \in {"sandbox", "session"}
    /\ jar \in 1..MaxJar /\ bound \in 0..MaxJar
    /\ sock \in [ready : CONNECTING..CLOSED, cookies : 0..MaxJar, heard : 0..NoMessage,
                 inner : {"none", "connecting", "refused", "open", "closing", "closed"}]
    /\ opened \in 0..MaxSockets

(* readyState is a copy, but it never says open of a socket that has not   *)
(* opened or is gone, nor closed of one that still may deliver; no message *)
(* is heard before the open event or after the close event.                *)
StateFollowsSocket ==
    /\ sock.ready = OPEN => sock.inner \in {"open", "closing"}
    /\ sock.ready = CLOSED => sock.inner \in {"none", "closed"}
    /\ sock.heard \in {OPEN, CLOSING, NoMessage}

(* A socket that its holder closes while it is not yet closed comes to say *)
(* that it is: whoever reconnects when it does gets to.                    *)
ClosingEnds ==
    sock.ready = CLOSING /\ sock.inner = "closing" ~> sock.ready # CLOSING

-----------------------------------------------------------------------------
(* What the documentation says and the code does not keep; see the README. *)

(* "Browser-shaped WebSocket": nothing is heard from a socket that was     *)
(* closed, ...                                                             *)
SilentOnceClosing == sock.heard # CLOSING

(* ... a closed socket stays closed, ...                                   *)
ClosedStaysClosed == [][sock.ready = CLOSED => sock'.ready # CLOSING]_socket

(* ... and one whose handshake is refused is closed. *)
RefusalCloses == sock.inner = "refused" ~> sock.inner # "refused"

(* The upgrade carries the jar's cookies, also that of a reconnection.     *)
UpgradeIsCurrent == [][opened' # opened => sock'.cookies = jar]_socket
=============================================================================
