------------------------------ MODULE WebRequests ------------------------------
(* Every way a request leaves the process: XMLHttpRequest and fetch of the       *)
(* sandbox, the host's makeJarFetch; and the one cookie jar of a DataStore they  *)
(* share with document.cookie and happy-dom's cookie container.  A step is one   *)
(* turn of the event loop or one thing the network does.  A cookie is the number *)
(* of the write that put it in the jar, a body the numbers of its chunks.        *)
EXTENDS Naturals, Sequences

CONSTANTS
    Xhrs,         \* XMLHttpRequest objects
    Fetches,      \* calls of the sandbox's fetch that can overlap
    Hosts,        \* calls of a makeJarFetch over the jar itself
    Cookies,      \* cookie names the servers and the page write
    SyncStore,    \* the DataStore has getSync and setSync
    MaxChunks,    \* bound: chunks of a body
    MaxWrites,    \* bound: writes to the jar
    MaxCalls      \* bound: calls made

Calls == Xhrs \cup Fetches \cup Hosts
Shimmed == Xhrs \cup Fetches

ASSUME RequestAssumption ==
    /\ Xhrs \cap Fetches = {} /\ Shimmed \cap Hosts = {}
    /\ SyncStore \in BOOLEAN
    /\ MaxChunks \in Nat /\ MaxWrites \in Nat /\ MaxCalls \in Nat

VARIABLES
    jar,          \* getOrCreateJar(store): by cookie, the write, 0 for none
    stored,       \* the serialised jar in the DataStore
    writes,       \* writes to the jar
    objects,      \* XMLHttpRequest: what its owner sees
    calls,        \* runRequest, sandboxFetch or jarFetch
    made,         \* calls made
    seen,         \* history: by cookie, the latest write that a response of the
                  \* sandbox has shown its caller
    byHost        \* history: the writes of host calls

webVars == <<jar, stored, writes, objects, calls, made, seen, byHost>>

Jar == [Cookies -> 0 .. MaxWrites]
Empty == [c \in Cookies |-> 0]

\* `shown`: the responses of the progress events; `ends`: the final events.
NoObject == [readyState |-> 0, aborted |-> FALSE, moz |-> FALSE,
             response |-> <<>>, shown |-> <<>>, size |-> 0, ends |-> <<>>]

\* `signal`: its AbortController has been told; `carries`: the Cookie header;
\* `knew`: history, `seen` when the call was made; `sets`: the Set-Cookie lines,
\* then those the jar took in its write `wrote`.
NoCall == [at |-> "idle", attach |-> FALSE, absorb |-> FALSE, signal |-> FALSE,
           carries |-> Empty, knew |-> Empty, sets |-> {}, wrote |-> 0,
           size |-> 0, chunks |-> <<>>]

Over == [NoCall EXCEPT !.at = "over"]

Waiting == {"gate", "sent", "answered", "failed", "reading", "chunk", "eof",
            "broken", "unpack"}
Settled == {"idle", "over", "resolved", "rejected"}

WebTypeOK ==
    /\ jar \in Jar /\ stored \in Jar /\ seen \in Jar
    /\ writes \in 0 .. MaxWrites /\ made \in 0 .. MaxCalls
    /\ byHost \subseteq 1 .. MaxWrites
    /\ \A x \in Xhrs : objects[x].readyState \in 0 .. 4
    /\ \A r \in Calls : calls[r].at \in Waiting \cup Settled

Later(i, j) == IF i < j THEN j ELSE i

-------------------------------------------------------------------------------
(* The jar.  *)

\* getCookieStringSync: what the jar has for the url, nothing without credentials.
CookieHeader(attach) == IF attach THEN jar ELSE Empty

\* setCookieSync of each cookie the jar accepts.
Land(cs) ==
    /\ writes < MaxWrites
    /\ writes' = writes + 1
    /\ jar' = [c \in Cookies |-> IF c \in cs THEN writes + 1 ELSE jar[c]]

\* persistJar: the whole jar, over whatever the DataStore has.
PersistJar == stored' = jar'

\* Mutant: cookies are put in the jar and not persisted.
AbsorbInMemory(r, ok) ==
    IF ~calls[r].absorb \/ ok = {} THEN UNCHANGED <<jar, stored, writes, byHost>>
    ELSE Land(ok) /\ UNCHANGED <<stored, byHost>>

\* absorbSetCookies, and the same loop in sandboxFetch.
Absorb(r, ok) ==
    IF ~calls[r].absorb \/ ok = {} THEN UNCHANGED <<jar, stored, writes, byHost>>
    ELSE Land(ok) /\ PersistJar /\ UNCHANGED byHost

WrittenByPage == PersistJar /\ UNCHANGED <<objects, calls, made, seen, byHost>>

\* document.cookie = "...", and CookieContainer.addCookies of the window.
SetDocumentCookie(c) == Land({c}) /\ WrittenByPage
AddCookies(cs) == cs # {} /\ Land(cs) /\ WrittenByPage

\* What a caller learns from a response whose cookies `ok` were write n.
Shows(ok, n) ==
    seen' = [c \in Cookies |-> IF c \in ok THEN Later(seen[c], n) ELSE seen[c]]
Taken(r, ok) == IF calls[r].absorb THEN ok ELSE {}

JarSide == <<jar, stored, writes, byHost>>

-------------------------------------------------------------------------------
(* The network under nativeFetch.  *)

\* One answer: its Set-Cookie lines and the length of its body.
Answers(r) ==
    /\ calls[r].at = "sent" /\ ~calls[r].signal
    /\ \E sets \in SUBSET Cookies, n \in 0 .. MaxChunks :
         calls' = [calls EXCEPT ![r].at = "answered", ![r].sets = sets, ![r].size = n]
    /\ UNCHANGED <<JarSide, objects, made, seen>>

\* A network error, or the AbortError of a signal.
Fails(r) ==
    /\ calls[r].at = "sent"
    /\ calls' = [calls EXCEPT ![r].at = "failed"]
    /\ UNCHANGED <<JarSide, objects, made, seen>>

Flows(r) == calls[r].at = "reading" /\ ~calls[r].signal

ChunkArrives(r) ==
    /\ Flows(r) /\ Len(calls[r].chunks) < calls[r].size
    /\ calls' = [calls EXCEPT ![r].at = "chunk",
                              ![r].chunks = Append(@, Len(@) + 1)]
    /\ UNCHANGED <<JarSide, objects, made, seen>>

BodyEnds(r) ==
    /\ Flows(r) /\ Len(calls[r].chunks) = calls[r].size
    /\ calls' = [calls EXCEPT ![r].at = "eof"]
    /\ UNCHANGED <<JarSide, objects, made, seen>>

\* The connection is lost, or the signal errors the stream.
BodyBreaks(r) ==
    /\ calls[r].at = "reading"
    /\ calls' = [calls EXCEPT ![r].at = "broken"]
    /\ UNCHANGED <<JarSide, objects, made, seen>>

\* throttleGate resolves and the header goes out; nativeFetch rejects at once for an aborted signal.
GateOpens(r) ==
    /\ calls[r].at = "gate"
    /\ calls' = [calls EXCEPT ![r].at = IF calls[r].signal THEN "failed" ELSE "sent",
                              ![r].attach = FALSE, ![r].carries = Empty, ![r].knew = Empty]
    /\ UNCHANGED <<JarSide, objects, made, seen>>

NewCall(r, attach, absorb) ==
    /\ calls[r].at \in Settled
    /\ made < MaxCalls /\ made' = made + 1
    /\ calls' = [calls EXCEPT ![r] = [NoCall EXCEPT !.at = "gate", !.attach = attach,
                   !.absorb = absorb, !.carries = CookieHeader(attach), !.knew = seen]]

-------------------------------------------------------------------------------
(* XMLHttpRequest.  The bundle's transport makes an object per request: none is  *)
(* opened or sent again before runRequest has returned.                          *)

\* open(), the headers and send() in one turn; the cookies are read here, before
\* the gate.
XhrSend(x, moz, withCredentials) ==
    /\ NewCall(x, withCredentials, withCredentials)
    /\ objects' = [objects EXCEPT ![x] = [NoObject EXCEPT !.readyState = 1, !.moz = moz]]
    /\ UNCHANGED <<JarSide, seen>>

\* abort() has no regard for readyState.
XhrAbort(x) ==
    /\ ~objects[x].aborted
    /\ objects' = [objects EXCEPT ![x].aborted = TRUE, ![x].readyState = 4,
                                  ![x].ends = Append(@, "abort")]
    /\ calls' = [calls EXCEPT ![x].signal = calls[x].at \notin Settled]
    /\ UNCHANGED <<JarSide, made, seen>>

XhrEnd(x, event) ==
    /\ objects' = [objects EXCEPT ![x].readyState = 4, ![x].ends = Append(@, event)]
    /\ calls' = [calls EXCEPT ![x] = Over]

\* The turns of runRequest that abort() makes return without an event.
XhrReturns(x) ==
    /\ objects[x].aborted
    /\ calls[x].at \in {"failed", "answered", "chunk", "broken"}
    /\ calls' = [calls EXCEPT ![x] = Over]
    /\ UNCHANGED <<JarSide, objects, made, seen>>

\* Mutant: the rejection of nativeFetch is taken for an abort.
XhrFailsSilently(x) ==
    /\ calls[x].at \in {"failed", "broken"} /\ ~objects[x].aborted
    /\ calls' = [calls EXCEPT ![x] = Over]
    /\ UNCHANGED <<JarSide, objects, made, seen>>

\* dispatchError.
XhrFails(x) ==
    /\ calls[x].at \in {"failed", "broken"} /\ ~objects[x].aborted
    /\ XhrEnd(x, "error")
    /\ UNCHANGED <<JarSide, made, seen>>

\* HEADERS_RECEIVED, with the cookies in the jar and in the DataStore.
XhrOnResponse(x) ==
    /\ calls[x].at = "answered" /\ ~objects[x].aborted
    /\ \E ok \in SUBSET calls[x].sets : Absorb(x, ok) /\ Shows(Taken(x, ok), writes')
    /\ objects' = [objects EXCEPT ![x].readyState = 2, ![x].size = calls[x].size]
    /\ calls' = [calls EXCEPT ![x].at = "reading"]
    /\ UNCHANGED made

\* moz-chunked-arraybuffer: `response` is the chunk, otherwise it waits for DONE.
XhrOnChunk(x) ==
    /\ calls[x].at = "chunk" /\ ~objects[x].aborted
    /\ LET latest == <<Len(calls[x].chunks)>>
       IN  objects' = [objects EXCEPT ![x].readyState = 3, ![x].shown = @ \o latest,
                         ![x].response = IF objects[x].moz THEN latest ELSE @]
    /\ calls' = [calls EXCEPT ![x].at = "reading"]
    /\ UNCHANGED <<JarSide, made, seen>>

\* Mutant: the response is the last chunk whatever the response type.
XhrOnEndLastChunk(x) ==
    /\ calls[x].at = "eof"
    /\ objects' = [objects EXCEPT ![x].readyState = 4, ![x].ends = Append(@, "load"),
                     ![x].response = <<Len(calls[x].chunks)>>]
    /\ calls' = [calls EXCEPT ![x] = Over]
    /\ UNCHANGED <<JarSide, made, seen>>

\* finalizeBody, which does not look at `aborted`.
XhrOnEnd(x) ==
    /\ calls[x].at = "eof"
    /\ objects' = [objects EXCEPT ![x].readyState = 4, ![x].ends = Append(@, "load"),
                     ![x].response = IF objects[x].moz THEN @ ELSE calls[x].chunks]
    /\ calls' = [calls EXCEPT ![x] = Over]
    /\ UNCHANGED <<JarSide, made, seen>>

-------------------------------------------------------------------------------
(* fetch of the sandbox.  *)

\* unpackInput waits for the body of a Request; the cookies are read after it.
FetchStart(f) ==
    /\ calls[f].at \in Settled /\ made < MaxCalls
    /\ made' = made + 1
    /\ calls' = [calls EXCEPT ![f] = [NoCall EXCEPT !.at = "unpack", !.knew = seen]]
    /\ UNCHANGED <<JarSide, objects, seen>>

\* shouldAttachCookies: `snap` says whether the url is the page's or Snap's.
Attaches(credentials, snap) ==
    credentials = "include" \/ (credentials = "same-origin" /\ snap)

FetchUnpacked(f) ==
    /\ calls[f].at = "unpack"
    /\ \E credentials \in {"omit", "include", "same-origin"}, snap \in BOOLEAN :
         calls' = [calls EXCEPT ![f].at = "gate",
                     ![f].attach = Attaches(credentials, snap),
                     ![f].absorb = credentials # "omit",
                     ![f].carries = CookieHeader(Attaches(credentials, snap))]
    /\ UNCHANGED <<JarSide, objects, made, seen>>

\* The caller's signal; bridgeSignal passes it on, or finds it aborted.
FetchAbort(f) ==
    /\ calls[f].at \notin Settled /\ ~calls[f].signal
    /\ calls' = [calls EXCEPT ![f].signal = TRUE]
    /\ UNCHANGED <<JarSide, objects, made, seen>>

FetchRejects(f) ==
    /\ calls[f].at = "failed"
    /\ calls' = [calls EXCEPT ![f] = [NoCall EXCEPT !.at = "rejected"]]
    /\ UNCHANGED <<JarSide, objects, made, seen>>

\* The caller is shown the response only when the body has been drained.
FetchOnResponse(f) ==
    /\ calls[f].at = "answered"
    /\ \E ok \in SUBSET calls[f].sets :
         /\ Absorb(f, ok)
         /\ calls' = [calls EXCEPT ![f].at = "reading", ![f].sets = Taken(f, ok),
                                   ![f].wrote = writes']
    /\ UNCHANGED <<objects, made, seen>>

FetchOnChunk(f) ==
    /\ calls[f].at = "chunk"
    /\ calls' = [calls EXCEPT ![f].at = "reading"]
    /\ UNCHANGED <<JarSide, objects, made, seen>>

\* Whatever breaks the stream, the promise resolves: with an empty body.
FetchResolves(f) ==
    /\ calls[f].at \in {"eof", "broken"}
    /\ calls' = [calls EXCEPT ![f] = [NoCall EXCEPT !.at = "resolved", !.size = calls[f].size,
                   !.chunks = IF calls[f].at = "eof" THEN calls[f].chunks ELSE <<>>]]
    /\ Shows(calls[f].sets, calls[f].wrote)
    /\ UNCHANGED <<JarSide, objects, made>>

-------------------------------------------------------------------------------
(* makeJarFetch over the jar: no gate, no signal, and no flush.  *)

HostFetch(h) ==
    /\ NewCall(h, TRUE, TRUE)
    /\ UNCHANGED <<JarSide, objects, seen>>

HostRejects(h) ==
    /\ calls[h].at = "failed"
    /\ calls' = [calls EXCEPT ![h] = [NoCall EXCEPT !.at = "rejected"]]
    /\ UNCHANGED <<JarSide, objects, made, seen>>

HostOnResponse(h) ==
    /\ calls[h].at = "answered"
    /\ \E ok \in SUBSET calls[h].sets :
         /\ IF ok = {} THEN UNCHANGED <<jar, writes, byHost>>
            ELSE Land(ok) /\ byHost' = byHost \cup {writes + 1}
         /\ calls' = [calls EXCEPT ![h] = [NoCall EXCEPT !.at = "resolved"]]
    /\ UNCHANGED <<stored, objects, made, seen>>

-------------------------------------------------------------------------------
WebInit ==
    /\ jar = Empty /\ stored = Empty /\ writes = 0
    /\ objects = [x \in Xhrs |-> NoObject]
    /\ calls = [r \in Calls |-> NoCall]
    /\ made = 0
    /\ seen = Empty /\ byHost = {}

\* Mutant: the jar of a new process starts empty.
RestartForgets ==
    /\ jar' = Empty
    /\ objects' = [x \in Xhrs |-> NoObject]
    /\ calls' = [r \in Calls |-> NoCall]
    /\ UNCHANGED <<stored, writes, made, seen, byHost>>

\* The process is killed; loadJar of the next one reads a synchronous store only.
Restart ==
    /\ jar' = IF SyncStore THEN stored ELSE Empty
    /\ objects' = [x \in Xhrs |-> NoObject]
    /\ calls' = [r \in Calls |-> NoCall]
    /\ UNCHANGED <<stored, writes, made, seen, byHost>>

NetStep(r) == Answers(r) \/ Fails(r)
StreamStep(r) == ChunkArrives(r) \/ BodyEnds(r) \/ BodyBreaks(r)

XhrStep(x) == XhrReturns(x) \/ XhrFails(x) \/ XhrOnResponse(x) \/ XhrOnChunk(x)
              \/ XhrOnEnd(x)
FetchStep(f) == FetchUnpacked(f) \/ FetchRejects(f) \/ FetchOnResponse(f)
                \/ FetchOnChunk(f) \/ FetchResolves(f)
HostStep(h) == HostRejects(h) \/ HostOnResponse(h)

WebNext ==
    \/ \E c \in Cookies : SetDocumentCookie(c)
    \/ \E cs \in SUBSET Cookies : AddCookies(cs)
    \/ \E r \in Calls : NetStep(r) \/ GateOpens(r)
    \/ \E r \in Shimmed : StreamStep(r)
    \/ \E x \in Xhrs, moz, withCredentials \in BOOLEAN : XhrSend(x, moz, withCredentials)
    \/ \E x \in Xhrs : XhrAbort(x) \/ XhrStep(x)
    \/ \E f \in Fetches : FetchStart(f) \/ FetchAbort(f) \/ FetchStep(f)
    \/ \E h \in Hosts : HostFetch(h) \/ HostStep(h)
    \/ Restart

WebFairness ==
    /\ \A x \in Xhrs : WF_webVars(NetStep(x) \/ GateOpens(x) \/ StreamStep(x) \/ XhrStep(x))
    /\ \A f \in Fetches : WF_webVars(NetStep(f) \/ GateOpens(f) \/ StreamStep(f) \/ FetchStep(f))
    /\ \A h \in Hosts : WF_webVars(NetStep(h) \/ GateOpens(h) \/ HostStep(h))

WebSpec == WebInit /\ [][WebNext]_webVars /\ WebFairness

-------------------------------------------------------------------------------
\* The DataStore and the shared jar differ only in what a host call wrote, whose
\* makeJarFetch has no flush: every other writer of the jar persists all of it in
\* the turn of its write, whichever others are half-way.
StoredIsJar == \A c \in Cookies : stored[c] # jar[c] => jar[c] \in byHost

\* A request waiting at the gate carries, for each cookie, a write no older than
\* any that a response had shown when the request was made, whichever of the three
\* clients made either, and over a restart in between.
CarriesWhatWasSeen ==
    \A r \in Calls : calls[r].attach => \A c \in Cookies : calls[r].carries[c] >= calls[r].knew[c]

\* A `load` comes with every chunk of the body, in order: in `response`, or one
\* by one in the progress events when the type is moz-chunked-arraybuffer.
LoadIsWhole ==
    \A x \in Xhrs : \A i \in DOMAIN objects[x].ends : objects[x].ends[i] = "load" =>
        /\ objects[x].shown = [n \in 1 .. objects[x].size |-> n]
        /\ ~objects[x].moz => objects[x].response = objects[x].shown

\* Every request that was sent reaches DONE and every fetch settles, with the
\* network and the gate answering; nobody waits for an event that never comes.
EveryRequestEnds ==
    /\ \A x \in Xhrs : (objects[x].readyState = 1) ~> (objects[x].readyState \in {0, 4})
    /\ \A r \in Fetches \cup Hosts : (calls[r].at \in Waiting) ~> (calls[r].at \in Settled)

\* xml-http-request.ts:182 says of an abort and a finalize that race: "shouldn't
\* happen".  The abort may come between the stream's end and its reader's turn.
AbortIsFinal ==
    \A x \in Xhrs : \A i, j \in DOMAIN objects[x].ends :
        i < j /\ objects[x].ends[i] = "abort" => objects[x].ends[j] # "load"

\* fetch.ts:440 says of errors, "network, abort": they "propagate as-is".  One that
\* comes after the headers resolves the call with an empty body.
FetchIsWhole == \A f \in Fetches : calls[f].at = "resolved" => Len(calls[f].chunks) = calls[f].size

\* full-login.ts:151 says the jar is persisted on every write; the ticket's
\* makeJarFetch is given the jar itself and has nothing to flush.
JarIsStored == stored = jar

=============================================================================
