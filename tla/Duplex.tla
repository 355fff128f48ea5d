------------------------------- MODULE Duplex --------------------------------
(***************************************************************************)
(* The presence layer's frames on their way out: PresenceBridge over the   *)
(* session's WebSocket (Sockets), with the tracing wrapper round the       *)
(* engine's registerDuplexHandler (register-duplex-trace.ts) between them. *)
(* The engine is external: it puts a frame on a socket that says it is     *)
(* open and holds it otherwise.                                            *)
(***************************************************************************)
EXTENDS PresenceBridge, Sockets

VARIABLES
    ready,      \* a stream listener has been told READY
    carried     \* what became of the last send's frame

duplex == <<vars, socket, ready, carried>>

DuplexInit ==
    /\ Init
    /\ SocketInit
    /\ ready = FALSE
    /\ carried = "none"

(* The engine's session runs over a socket of the session's class. *)
Bridged == class = "session" /\ bound # 0

Registers(c) ==
    /\ RegisterKnown(c) \/ Register(c) \/ RegisterThrows(c)
       \/ Resolve(c) \/ Reject(c) \/ Unregister(c)
    /\ UNCHANGED carried

(* The handle's send, traced, and WebSocketShim.send: ws drops a frame it  *)
(* is given while it closes, without a word.                               *)
Carries ==
    CASE sock.ready # OPEN -> "held"
      [] sock.ready = OPEN /\ sock.inner = "open" -> "wire"
      [] OTHER -> "lost"

Sends(c) ==
    /\ Send(c)
    /\ carried' = IF SendBy(c) = 0 THEN "refused" ELSE Carries

(* addStreamListener: READY at once, and never anything else. *)
AddStreamListener == ready' = TRUE /\ UNCHANGED <<vars, carried>>

Bridge ==
    /\ Bridged
    /\ \/ (\E c \in Channels : Registers(c) \/ Sends(c)) /\ UNCHANGED ready
       \/ AddStreamListener
    /\ UNCHANGED socket

Wires ==
    /\ JarTurns \/ CreateWebSocketShim \/ PeerCloses \/ SandboxWebSocket \/ SessionWebSocket
    /\ UNCHANGED <<vars, ready, carried>>

DuplexNext == Bridge \/ Wires

DuplexSpec == DuplexInit /\ [][DuplexNext]_duplex
DuplexFairSpec == DuplexSpec /\ SocketFairness

-----------------------------------------------------------------------------
(* What the documentation says and the code does not keep; see the README. *)

(* "Real status changes don't propagate ... but the WS lifecycle in the    *)
(* standalone realm is process-lifetime so this matches reality": where a  *)
(* listener was told READY the socket is up.                               *)
ReadyIsReal == ready => sock.inner = "open"

(* A send that is answered with onSend is on the wire or still to be put   *)
(* there.                                                                  *)
SentIsCarried == carried # "lost"
=============================================================================
