-------------------------------- MODULE Outbound --------------------------------
(* What a user of the SDK calls to send and to read: sendText, sendImage with    *)
(* its upload, sendSnap and Stories.post with the capture of the message id,     *)
(* listConversations followed by fetchEncryptedMessages, and the calls about     *)
(* people: getUsers, search and the friend actions.  The servers' answers to the *)
(* gRPC calls are bytes, which Wire reads.                                       *)
EXTENDS Wire, FiniteSets

CONSTANTS
    Senders,      \* calls that can overlap
    Kinds,        \* what is called: "text", "image", "captioned", "snap", "story", "read",
                  \* "users", "search", "action", and the "unary" and "stream" calls
                  \* of the bundle's GrpcManager
    Self,         \* the user's id
    Wanted,       \* the ids getUsers is given
    Mailboxes,    \* what the server may hold: sequences of conversations
    MaxLooks,     \* the 20 looks at the auth slice
    MaxSends      \* bound: calls made

ASSUME OutboundAssumption == MaxLooks \in Nat /\ MaxSends \in Nat /\ Self \in Seq(Nat)
                             /\ Wanted \in Seq(Nat)

VARIABLES
    sends,        \* calls
    made,         \* calls made
    locations,    \* upload locations given out
    blobs,        \* what S3 holds: [location, key]
    delivered,    \* messages the server has taken
    owed,         \* messages handed to the bundle and not yet sent
    pushes,       \* outbound messages on their way back over the duplex
    listening,    \* sends with a listener on their event bus
    story,        \* Stories: the bring-up its #sessionPromise stands for
    looked,       \* looks of that bring-up at the auth slice
    slice         \* the auth slice has a userId and a bearer

outboundVars == <<sends, made, locations, blobs, delivered, owed, pushes, listening, story,
          looked, slice>>

\* `n` is also the random key and IV of the send; `loc`: its upload location;
\* `kept` and `had`: the ids getUsers took, and could have taken, from the cache;
\* `got`: the id its capture resolved with, 0 none, n + MaxSends the fallback.
NoSend == [at |-> "idle", kind |-> "text", n |-> 0, loc |-> 0, got |-> 0,
           box |-> <<>>, cut |-> FALSE, result |-> <<>>, events |-> <<>>,
           kept |-> {}, had |-> {}]

Settled == {"idle", "resolved", "rejected"}
Message(s, kind) == [kind |-> kind, by |-> sends[s].n, loc |-> sends[s].loc, key |-> sends[s].n]
Bus(kind) == IF kind = "story" THEN "stories" ELSE "messaging"
Fallback(s) == sends[s].n + MaxSends

To(s, at) == sends' = [sends EXCEPT ![s].at = at]
\* A step of one call that touches nothing else.
Alone == UNCHANGED <<made, locations, blobs, delivered, owed, pushes, listening,
                     story, looked, slice>>
At(s, at) == sends[s].at = at

Fail(s) == To(s, "rejected") /\ Alone

-------------------------------------------------------------------------------
Call(s, kind) ==
    /\ sends[s].at \in Settled /\ made < MaxSends
    /\ made' = made + 1
    /\ sends' = [sends EXCEPT ![s] = [NoSend EXCEPT !.kind = kind, !.n = made + 1,
                   !.at = CASE kind \in {"image", "captioned"} -> "file"
                            [] kind = "read" -> "list"
                            [] kind = "story" -> "poster"
                            [] kind \in {"unary", "stream", "users", "search", "action"} -> kind
                            [] OTHER -> "session"]]
    /\ UNCHANGED <<locations, blobs, delivered, owed, pushes, listening, story, looked, slice>>

\* internal.ensureSession of Messaging, which is MessagingSession's subject.
SessionAnswers(s) ==
    /\ At(s, "session")
    /\ \/ To(s, IF sends[s].kind = "snap" THEN "lookup" ELSE "pn") /\ Alone
       \/ Fail(s)

-------------------------------------------------------------------------------
(* sendImage and sendImageDirect.  *)

\* The file, the userId of the auth slice, the dimensions: each may throw.
ReadImage(s) ==
    /\ At(s, "file")
    /\ \/ slice /\ To(s, "locate") /\ Alone
       \/ Fail(s)

\* The server's side of getUploadLocations.
WriteLocation(n) ==
    FieldBytes(1, FieldBytes(1, <<n>>) \o FieldBytes(4, FieldBytes(3,
        FieldBytes(1, <<n, 1>>) \o FieldBytes(2, FieldBytes(2, <<n>>)))))
WriteNoToken(n) == FieldBytes(1, FieldBytes(1, <<n>>))

\* Such an answer is one frame.
ASSUME LocationsAssumption ==
    \A n \in 1 .. MaxSends : Fits(Len(WriteLocation(n))) /\ Fits(Len(WriteNoToken(n)))

\* What the n-th answer may be read as: a location, an incomplete one, or none.
UploadLocations ==
    [n \in 1 .. MaxSends |->
        {UploadLocation(GrpcWebPost(reply)) : reply \in
            {Frame(0, WriteLocation(n)) \o Frame(Radix, <<0>>),
             Frame(0, WriteNoToken(n)), Frame(Radix, <<1>>)}}]

\* Mutant: a location is kept for the next image.
GetUploadLocationOnce(s) ==
    /\ At(s, "locate") /\ locations < MaxSends
    /\ locations' = locations + 1
    /\ \E loc \in UploadLocations[1] :
         sends' = IF Complete(loc)
                  THEN [sends EXCEPT ![s].at = "put", ![s].loc = loc.idBase[1]]
                  ELSE [sends EXCEPT ![s].at = "rejected"]
    /\ UNCHANGED <<made, blobs, delivered, owed, pushes, listening, story, looked, slice>>

GetUploadLocations(s) ==
    /\ At(s, "locate") /\ locations < MaxSends
    /\ locations' = locations + 1
    /\ \E loc \in UploadLocations[locations + 1] :
         sends' = IF Complete(loc)
                  THEN [sends EXCEPT ![s].at = "put", ![s].loc = loc.idBase[1]]
                  ELSE [sends EXCEPT ![s].at = "rejected"]
    /\ UNCHANGED <<made, blobs, delivered, owed, pushes, listening, story, looked, slice>>
RequestLost(s) == sends[s].at \in {"locate", "list", "fetch", "lookup"} /\ Fail(s)

Blob(s) == [location |-> sends[s].loc, key |-> sends[s].n]

\* Mutant: the upload is not awaited.
UploadUnawaited(s) ==
    /\ At(s, "put")
    /\ \E landed \in BOOLEAN : blobs' = IF landed THEN blobs \cup {Blob(s)} ELSE blobs
    /\ To(s, "create")
    /\ UNCHANGED <<made, locations, delivered, owed, pushes, listening, story, looked, slice>>

\* encryptMedia and uploadEncrypted: S3 may take the blob and its answer be lost.
UploadEncrypted(s) ==
    /\ At(s, "put")
    /\ \E landed \in BOOLEAN, ok \in BOOLEAN :
         /\ ok => landed
         /\ blobs' = IF landed THEN blobs \cup {Blob(s)} ELSE blobs
         /\ To(s, IF ok THEN "create" ELSE "rejected")
    /\ UNCHANGED <<made, locations, delivered, owed, pushes, listening, story, looked, slice>>

\* CreateContentMessage: the message carries the location and the key.  A refusal
\* in the trailer passes grpcWebPost, one in the HTTP status does not.
CreateContentMessage(s) ==
    /\ At(s, "create")
    /\ \E taken \in BOOLEAN, answer \in {"ok", "trailer", "error"} :
         /\ answer = "ok" => taken
         /\ answer = "trailer" => ~taken
         /\ delivered' = IF taken THEN delivered \cup {Message(s, "image")} ELSE delivered
         /\ To(s, IF answer = "error" THEN "rejected"
                  ELSE IF sends[s].kind = "captioned" THEN "session" ELSE "resolved")
    /\ UNCHANGED <<made, locations, blobs, owed, pushes, listening, story, looked, slice>>

-------------------------------------------------------------------------------
(* sendText, and the caption of an image.  *)

\* pn() is called and the race begins.
CallPn(s) ==
    /\ At(s, "pn")
    /\ \/ /\ To(s, "racing")
          /\ owed' = owed \cup {Message(s, "text")}
          /\ UNCHANGED <<made, locations, blobs, delivered, pushes, listening, story, looked, slice>>
       \/ Fail(s)

\* pn() has settled either way, or three seconds have passed.
TextEnds(s) == At(s, "racing") /\ To(s, "resolved") /\ Alone

-------------------------------------------------------------------------------
(* sendSnap, Stories.post and sendMediaViaSession.  *)

\* TypedEventBus: a listener for as long as its signal is not aborted, and who
\* hears what is emitted on a bus.
On(s) == listening' = listening \cup {s}
Emit(bus) == {s \in listening : Bus(sends[s].kind) = bus}

\* createOutboundCapture listens before the bundle is called; a missing export or
\* a throw of the bundle runs the finally in the same turn.
MediaBegins(s) ==
    /\ At(s, "media")
    /\ \/ /\ To(s, "dispatching")
          /\ owed' = owed \cup {Message(s, sends[s].kind)}
          /\ On(s)
          /\ UNCHANGED <<made, locations, blobs, delivered, pushes, story, looked, slice>>
       \/ Fail(s)

\* The bundle sends a message, and it will be pushed back; or it gives it up.
BundleSends(m) ==
    /\ m \in owed /\ owed' = owed \ {m}
    /\ delivered' = delivered \cup {m}
    /\ pushes' = pushes \cup {m}
    /\ UNCHANGED <<sends, made, locations, blobs, listening, story, looked, slice>>
BundleDrops(m) ==
    /\ m \in owed /\ owed' = owed \ {m}
    /\ UNCHANGED <<sends, made, locations, blobs, delivered, pushes, listening, story, looked, slice>>

\* waitForOutbound: only from here on can the capture resolve.
MediaSent(s) ==
    /\ At(s, "dispatching") /\ Message(s, sends[s].kind) \notin owed
    /\ To(s, "waiting")
    /\ Alone

\* Mutant: the listener is removed only when an id was captured.
MediaFailsListening(s) ==
    /\ At(s, "dispatching")
    /\ To(s, "rejected")
    /\ Alone

Cleanup(s) == listening' = listening \ {s}
MediaFails(s) ==
    /\ At(s, "dispatching")
    /\ To(s, "rejected")
    /\ Cleanup(s)
    /\ UNCHANGED <<made, locations, blobs, delivered, owed, pushes, story, looked, slice>>

\* A message of ours arrives, with an id the capture can read or without: every
\* listener of its bus hears it, whoever sent the message.
PushArrives(m) ==
    /\ m \in pushes /\ pushes' = pushes \ {m}
    /\ \E readable \in BOOLEAN :
         sends' = [s \in Senders |->
                     IF s \in Emit(Bus(m.kind)) /\ At(s, "waiting") /\ sends[s].got = 0
                     THEN [sends[s] EXCEPT !.got = IF readable THEN m.by ELSE Fallback(s)]
                     ELSE sends[s]]
    /\ UNCHANGED <<made, locations, blobs, delivered, owed, listening, story, looked, slice>>
PushLost(m) ==
    /\ m \in pushes /\ pushes' = pushes \ {m}
    /\ UNCHANGED <<sends, made, locations, blobs, delivered, owed, listening, story, looked, slice>>

\* The timer of waitForOutbound.
WaitTimesOut(s) ==
    /\ At(s, "waiting") /\ sends[s].got = 0
    /\ sends' = [sends EXCEPT ![s].got = Fallback(s)]
    /\ Alone

MediaEnds(s) ==
    /\ At(s, "waiting") /\ sends[s].got # 0
    /\ To(s, "resolved")
    /\ Cleanup(s)
    /\ UNCHANGED <<made, locations, blobs, delivered, owed, pushes, story, looked, slice>>

-------------------------------------------------------------------------------
(* Stories: the single flight of #ensureSession and #bringUpSession.  *)

StoryQuiet == UNCHANGED <<made, locations, blobs, delivered, owed, pushes, listening, slice>>
Posters == {s \in Senders : At(s, "waitsStory")}

\* post() takes the promise there is, or starts a bring-up.
Post(s) ==
    /\ At(s, "poster")
    /\ To(s, IF story = "up" THEN "media" ELSE "waitsStory")
    /\ story' = IF story = "none" THEN "boot" ELSE story
    /\ looked' = IF story = "none" THEN 0 ELSE looked
    /\ StoryQuiet

\* The context, the identity, the realm.
StoryBoots ==
    /\ story = "boot" /\ story' = "poll"
    /\ UNCHANGED <<sends, looked>> /\ StoryQuiet

StoryPolls ==
    /\ story = "poll" /\ looked < MaxLooks
    /\ IF slice THEN story' = "setup" /\ UNCHANGED looked
       ELSE looked' = looked + 1 /\ UNCHANGED story
    /\ UNCHANGED sends /\ StoryQuiet

\* Mutant: a failed bring-up stays in #sessionPromise, and new posts wait on it.
StoryFailsKept ==
    /\ story \in {"boot", "setup"} \/ (story = "poll" /\ looked = MaxLooks)
    /\ story' = "failed"
    /\ sends' = [s \in Senders |-> IF s \in Posters THEN [sends[s] EXCEPT !.at = "rejected"]
                                   ELSE sends[s]]
    /\ UNCHANGED looked /\ StoryQuiet

\* Every waiting post rejects with the one promise, which is forgotten.
StoryFails ==
    /\ story \in {"boot", "setup"} \/ (story = "poll" /\ looked = MaxLooks)
    /\ story' = "none"
    /\ sends' = [s \in Senders |-> IF s \in Posters THEN [sends[s] EXCEPT !.at = "rejected"]
                                   ELSE sends[s]]
    /\ UNCHANGED looked /\ StoryQuiet

StoryIsUp ==
    /\ story = "setup" /\ story' = "up"
    /\ sends' = [s \in Senders |-> IF s \in Posters THEN [sends[s] EXCEPT !.at = "media"]
                                   ELSE sends[s]]
    /\ UNCHANGED looked /\ StoryQuiet

\* The login of the client, and its logout.
SliceChanges ==
    /\ slice' = ~slice
    /\ UNCHANGED <<sends, made, locations, blobs, delivered, owed, pushes, listening, story, looked>>

-------------------------------------------------------------------------------
(* listConversations and fetchEncryptedMessages.  *)

\* What the server holds: a conversation, its members, and its messages, whose
\* block says whose they are before them or after.
Sent == [id : Nat, sender : UUIDs]
Conversation == [id : UUIDs, type : Nat, participants : Seq(UUIDs), idFirst : BOOLEAN,
                 messages : Seq(Sent)]

\* The server's side: its conversations, and the messages of those asked for.
WriteId(id) == FieldBytes(1, id)
WriteConversation(c) ==
    FieldBytes(1, FieldBytes(1, FieldBytes(1, WriteId(c.id)) \o FieldVarint(2, c.type))
                  \o FlatMap(LAMBDA p : FieldBytes(7, WriteId(p)), c.participants))
WriteMessage(m) ==
    FieldBytes(4, FieldVarint(1, m.id) \o FieldBytes(2, WriteId(m.sender))
                  \o FieldBytes(3, <<m.id>>) \o FieldBytes(6, FieldVarint(1, m.id)))
WriteBlock(c) ==
    LET meta == FieldBytes(6, FieldBytes(1, FieldBytes(1, WriteId(c.id))))
        body == FlatMap(WriteMessage, c.messages)
    IN  FieldBytes(1, FieldBytes(1, IF c.idFirst THEN meta \o body ELSE body \o meta))

\* An answer is one frame.
ASSUME MailboxesAssumption ==
    \A box \in Mailboxes : /\ box \in Seq(Conversation)
                           /\ Fits(Len(FlatMap(WriteConversation, box)))
                           /\ Fits(Len(FlatMap(WriteBlock, box)))

\* The request of fetchEncryptedMessages, and the conversations it asks for.
Other(c) == LET others == Where(c.participants, LAMBDA p : p # Self)
            IN  IF others = <<>> THEN Self ELSE others[1]
FetchRequest(convs) ==
    Flatten(MapSeq(LAMBDA c : FieldBytes(1, FieldBytes(2, WriteId(c.id))
                \o FieldBytes(4, WriteId(Self)) \o FieldBytes(6, WriteId(Other(c)))
                \o FieldVarint(7, 1)), convs))
Asked(request) ==
    LET ids == Ids(Within(Subs(request, 1), 2), 1) IN {ids[i] : i \in DOMAIN ids}

\* What comes back of `data`: a body that ends inside the data frame, or a
\* refusal in the trailer, which grpcCall throws.
Hows == {"whole", "cut", "refused"}
Reply(data, how) ==
    CASE how = "whole" -> Frame(0, data) \o Frame(Radix, <<0>>)
      [] how = "cut" -> Take(Frame(0, data), 1, 4 + Len(data))
      [] how = "refused" -> Frame(0, data) \o Frame(Radix, <<1>>)

\* The two answers of a server that holds `box`, as the calls read them.
Listed ==
    [box \in Mailboxes |-> [how \in Hows |->
        LET reply == GrpcCall(Reply(FlatMap(WriteConversation, box), how))
        IN  [status |-> reply.status, value |-> SyncConversations(reply.data)]]]
Held ==
    [box \in Mailboxes |->
        LET asked == Asked(FetchRequest(Listed[box]["whole"].value))
        IN  Where(box, LAMBDA c : c.id \in asked)]
Fetched ==
    [box \in Mailboxes |-> [how \in Hows |->
        LET reply == GrpcCall(Reply(FlatMap(WriteBlock, Held[box]), how))
        IN  [status |-> reply.status, value |-> BatchDeltaSync(reply.data)]]]

ListAnswers(s) ==
    /\ At(s, "list")
    /\ \E box \in Mailboxes, how \in {"whole", "refused"} : \E answer \in {Listed[box][how]} :
         sends' = IF answer.status # 0 THEN [sends EXCEPT ![s].at = "rejected"]
                      ELSE [sends EXCEPT ![s].at = "fetch", ![s].box = box]
    /\ Alone

FetchAnswers(s) ==
    /\ At(s, "fetch")
    /\ \E how \in Hows : \E answer \in {Fetched[sends[s].box][how]} :
         sends' = IF answer.status # 0 THEN [sends EXCEPT ![s].at = "rejected"]
                      ELSE [sends EXCEPT ![s].at = "resolved", ![s].cut = (how = "cut"),
                                         ![s].result = answer.value]
    /\ Alone

-------------------------------------------------------------------------------
(* The web factory the bundle's GrpcManager is given for the Fidelius gateway.   *)

Event(status, data) == [status |-> status, data |-> data]

\* What onEvent is told of a body: its trailer, its data, or the lack of data.
UnaryEvent(buf) ==
    LET reply == GrpcCall(buf)
    IN  CASE reply.status # 0 -> Event(reply.status, <<>>)
          [] reply.status = 0 /\ HasData(buf) -> Event(0, reply.data)
          [] OTHER -> Event(13, <<>>)

\* The server answers the n-th call with its number, or with nothing but a trailer;
\* or the HTTP status is an error, or the request is lost.
UnaryHows == Hows \cup {"bare", "http", "lost"}
UnaryAnswer ==
    [n \in 1 .. MaxSends |-> [how \in UnaryHows |->
        CASE how \in Hows -> UnaryEvent(Reply(<<n>>, how))
          [] how = "bare" -> UnaryEvent(Frame(Radix, <<0>>))
          [] how = "http" -> Event(12, <<>>)
          [] how = "lost" -> Event(13, <<>>)]]

\* A callback that throws is caught with the rest, and told so.
UnaryEnds(s) ==
    /\ At(s, "unary")
    /\ \E how \in UnaryHows, throws \in BOOLEAN : \E told \in {UnaryAnswer[sends[s].n][how]} :
         sends' = [sends EXCEPT ![s].at = "resolved", ![s].cut = (how # "whole"),
                       ![s].events = IF throws THEN <<told, Event(13, <<>>)>> ELSE <<told>>]
    /\ Alone

\* serverStreamingCall and bidiStreamingCall: not implemented, after a timer.
StreamRefused(s) ==
    /\ At(s, "stream")
    /\ sends' = [sends EXCEPT ![s].at = "resolved", ![s].events = <<Event(12, <<>>)>>]
    /\ Alone

-------------------------------------------------------------------------------
(* People.  getCtx may reject, as every call that awaits it.                     *)

Asking == {Wanted[i] : i \in DOMAIN Wanted}

\* In the order of the input: what the server knows, what the cache had, no more.
Users(known, kept) ==
    [i \in DOMAIN Wanted |-> CASE Wanted[i] \in known -> "fetched"
                               [] Wanted[i] \in kept -> "cached"
                               [] OTHER -> "notFound"]

\* The bundle's publicUsers has any of them; `refresh` passes it over.
GetUsers(s) ==
    /\ At(s, "users")
    /\ \/ Fail(s)
       \/ /\ \E cached \in SUBSET Asking, refresh \in BOOLEAN :
               LET kept == IF refresh THEN {} ELSE cached
               IN  sends' = [sends EXCEPT ![s].kept = kept, ![s].had = cached,
                               ![s].at = IF kept = Asking THEN "resolved" ELSE "info",
                               ![s].result = IF kept = Asking THEN Users({}, kept) ELSE <<>>]
          /\ Alone

\* Mutant: a lost request is not caught.
InfoUncaught(s) ==
    /\ At(s, "info")
    /\ \/ Fail(s)
       \/ /\ \E known \in SUBSET (Asking \ sends[s].kept) :
               sends' = [sends EXCEPT ![s].at = "resolved",
                                      ![s].result = Users(known, sends[s].kept)]
          /\ Alone

\* GetSnapchatterPublicInfo for the others: the server may leave any out, and a
\* lost request is taken for an answer without one.
InfoAnswers(s) ==
    /\ At(s, "info")
    /\ \E known \in SUBSET (Asking \ sends[s].kept) :
         sends' = [sends EXCEPT ![s].at = "resolved",
                                ![s].result = Users(known, sends[s].kept)]
    /\ Alone

\* The search reads its section of the response, and of that the users with an id
\* and a name; any HTTP error is a response without sections.
Hits == {<<>>, <<"user", "group">>, <<"nameless", "user">>}
SearchUsers(s) ==
    /\ At(s, "search")
    /\ \/ Fail(s)
       \/ /\ \E hits \in Hits :
               sends' = [sends EXCEPT ![s].at = "resolved",
                           ![s].result = SelectSeq(hits, LAMBDA hit : hit = "user")]
          /\ Alone

\* Add, Remove, Block, Unblock, Ignore: one request of the bundle's client, whose
\* outcome is the call's; what it does to the graph is FriendGraph's subject.
FriendAction(s) ==
    /\ At(s, "action")
    /\ (To(s, "resolved") /\ Alone) \/ Fail(s)

-------------------------------------------------------------------------------
\* lookupConversation: a conversation that is not listed is taken for a DM, and
\* the type is not used further on.
LookupAnswers(s) == At(s, "lookup") /\ To(s, "media") /\ Alone

-------------------------------------------------------------------------------
OutboundInit ==
    /\ sends = [s \in Senders |-> NoSend]
    /\ made = 0 /\ locations = 0
    /\ blobs = {} /\ delivered = {} /\ owed = {} /\ pushes = {}
    /\ listening = {}
    /\ story = "none" /\ looked = 0 /\ slice = FALSE

ImageStep(s) == ReadImage(s) \/ GetUploadLocations(s) \/ UploadEncrypted(s)
                \/ CreateContentMessage(s)
MediaStep(s) == MediaBegins(s) \/ MediaSent(s) \/ MediaEnds(s)
ReadStep(s) == ListAnswers(s) \/ FetchAnswers(s) \/ LookupAnswers(s)
SendStep(s) == SessionAnswers(s) \/ ImageStep(s) \/ CallPn(s) \/ TextEnds(s) \/ Post(s)
           \/ MediaStep(s) \/ ReadStep(s) \/ UnaryEnds(s) \/ StreamRefused(s)
           \/ GetUsers(s) \/ InfoAnswers(s) \/ SearchUsers(s) \/ FriendAction(s)
StoryStep == StoryBoots \/ StoryPolls \/ StoryFails \/ StoryIsUp
BundleStep(m) == BundleSends(m) \/ BundleDrops(m)

OutboundNext ==
    \/ \E s \in Senders, kind \in Kinds : Call(s, kind)
    \/ \E s \in Senders : SendStep(s) \/ RequestLost(s) \/ MediaFails(s)
                          \/ WaitTimesOut(s)
    \/ \E m \in owed : BundleStep(m)
    \/ \E m \in pushes : PushArrives(m) \/ PushLost(m)
    \/ StoryStep \/ SliceChanges

\* The servers and the bundle answer in the end, and timers fire.
OutboundFairness ==
    /\ \A s \in Senders : WF_outboundVars(SendStep(s)) /\ WF_outboundVars(WaitTimesOut(s))
    /\ WF_outboundVars(\E m \in owed : BundleStep(m))
    /\ WF_outboundVars(StoryStep)

OutboundSpec == OutboundInit /\ [][OutboundNext]_outboundVars /\ OutboundFairness

-------------------------------------------------------------------------------
\* A recipient can open every image message: the blob it names is in S3, under
\* the key the message carries, and no upload of another image has replaced it,
\* whatever uploads and posts overlap or fail.
DeliveredHasBlob ==
    \A m \in delivered : m.kind = "image" =>
        /\ [location |-> m.loc, key |-> m.key] \in blobs
        /\ \A b \in blobs : b.location = m.loc => b.key = m.key

\* The event buses hold a listener for the media sends that are under way and for
\* no other, whichever way the bundle, the push and the timer end a send.
ListenersAreSends == listening = {s \in Senders : sends[s].at \in {"dispatching", "waiting"}}

\* What a mailbox is read as.
Expected(box) ==
    Flatten(MapSeq(LAMBDA c : MapSeq(LAMBDA m :
        [conv |-> c.id, id |-> m.id, sender |-> m.sender, at |-> m.id, envelope |-> <<m.id>>],
        c.messages), box))

\* Every message of every listed conversation, under the id of its own conversation,
\* whatever the order of the fields; none if the body was cut inside the data frame.
ReadIsWhole(s) ==
    sends[s].kind = "read" /\ At(s, "resolved") =>
        sends[s].result = IF sends[s].cut THEN <<>> ELSE Expected(sends[s].box)

\* Success when the server's message came whole and was not refused, and never else.
UnaryIsTold(s) ==
    sends[s].kind = "unary" /\ At(s, "resolved") =>
        sends[s].events[1] \in IF sends[s].cut THEN {Event(e, <<>>) : e \in {1, 12, 13}}
                               ELSE {Event(0, <<sends[s].n>>)}

\* What getUsers had from the cache, whatever becomes of the request for the others.
CachedIsKept(s) ==
    sends[s].kind = "users" /\ sends[s].kept # {} =>
        /\ ~At(s, "rejected")
        /\ At(s, "resolved") => \A i \in DOMAIN Wanted :
              Wanted[i] \in sends[s].kept => sends[s].result[i] = "cached"

\* What a call resolves with is what the servers sent, in its place.
ReadsWhatWasSent == \A s \in Senders : ReadIsWhole(s) /\ UnaryIsTold(s) /\ CachedIsKept(s)

\* Every call settles: no send waits for an echo that is late or lost, or for a
\* story bring-up that has failed.
EverySendEnds == \A s \in Senders : (sends[s].at \notin Settled) ~> (sends[s].at \in Settled)

\* _media_send.ts:451: grpcWebPost throws "If the HTTP layer or gRPC trailer signals
\* failure".  It does not read the trailer, so sendImage resolves for an image the
\* server has refused.
ResolvedIsDelivered ==
    \A s \in Senders : sends[s].kind = "image" /\ At(s, "resolved") =>
        Message(s, "image") \in delivered

\* send.ts:148: sendSnap returns "the message ID assigned by the bundle's send
\* pipeline".  A capture takes any outbound message of the bus for its own.
IdIsOwn ==
    \A s \in Senders : sends[s].kind \in {"snap", "story"} /\ At(s, "resolved") =>
        sends[s].got \in {sends[s].n, Fallback(s)}

\* get-users.ts:63-64: "Cache-hit IDs are already in `resolved` and remain useful".
\* With `refresh` none is, and a lost request makes every one of them notFound.
CachedIsFound ==
    \A s \in Senders : sends[s].kind = "users" /\ At(s, "resolved") =>
        \A i \in DOMAIN Wanted : Wanted[i] \in sends[s].had => sends[s].result[i] # "notFound"

\* A unary call is answered once.  The catch around the whole call also catches what
\* the callback throws, and calls it again.
AnsweredOnce ==
    \A s \in Senders : sends[s].kind = "unary" => Len(sends[s].events) <= 1

=============================================================================
