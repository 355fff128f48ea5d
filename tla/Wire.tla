---------------------------------- MODULE Wire ----------------------------------
(* The protobuf writer and readers, gRPC-Web frames, and what the messaging      *)
(* calls make of a response.  A byte is a number below 2 * Radix: Radix is 128   *)
(* in the code, and 16 its IdLength.  Only data: no VARIABLE is declared here.   *)
EXTENDS Naturals, Sequences

CONSTANTS
    Radix,        \* a byte below it ends a varint
    IdLength      \* bytes of a UUID

ASSUME WireAssumption == Radix \in Nat \ {0, 1} /\ IdLength \in Nat \ {0}

\* Places in a buffer.
Places == Nat \ {0}

Least(i, j) == IF i < j THEN i ELSE j
\* The elements of s from place i, those that fit in n.
Take(s, i, n) == SubSeq(s, i, Least(i + n - 1, Len(s)))

Flatten(seqs) ==
    LET upTo[n \in 0 .. Len(seqs)] == IF n = 0 THEN <<>> ELSE upTo[n - 1] \o seqs[n]
    IN  upTo[Len(seqs)]
MapSeq(Op(_), s) == [i \in DOMAIN s |-> Op(s[i])]
FlatMap(Op(_), s) == Flatten(MapSeq(Op, s))
\* SelectSeq, by a definition the provers can expand.
Where(s, Test(_)) == FlatMap(LAMBDA x : IF Test(x) THEN <<x>> ELSE <<>>, s)
LastElse(s, default) == IF s = <<>> THEN default ELSE s[Len(s)]

-------------------------------------------------------------------------------
(* ProtoWriter.  *)

Varint(v) ==
    LET digits[n \in Nat] == IF n < Radix THEN <<n>>
                             ELSE <<(n % Radix) + Radix>> \o digits[n \div Radix]
    IN  digits[v]

FieldVarint(f, v) == Varint(8 * f) \o Varint(v)
FieldBytes(f, b) == Varint(8 * f + 2) \o Varint(Len(b)) \o b

-------------------------------------------------------------------------------
(* ProtoReader.  *)

\* varint(): the value from place p, and the place after it.
ReadVarint(buf, p) ==
    LET read[q \in Places] ==
          IF q > Len(buf) THEN [v |-> 0, next |-> q]
          ELSE IF buf[q] < Radix THEN [v |-> buf[q], next |-> q + 1]
          ELSE LET rest == read[q + 1]
               IN  [v |-> buf[q] - Radix + Radix * rest.v, next |-> rest.next]
    IN  read[p]

\* bytes(): subarray stops at the end of the buffer, the position does not.
ReadBytes(buf, p) ==
    LET len == ReadVarint(buf, p)
    IN  [b |-> Take(buf, len.next, len.v), next |-> len.next + len.v]

\* next(), with skip() for what the caller does not want: the field at place p, if it
\* is one, and the place after it.  A group (3, 4) or an unknown wire type has no
\* body: `stop` ends the loop at one.
FieldAt(buf, p, stop) ==
    LET tag == ReadVarint(buf, p)
        f == tag.v \div 8
        wt == tag.v % 8
        int == ReadVarint(buf, tag.next)
        str == ReadBytes(buf, tag.next)
    IN  CASE wt = 0 -> [is |-> <<[field |-> f, wire |-> 0, v |-> int.v, b |-> <<>>]>>,
                        next |-> int.next]
          [] wt = 2 -> [is |-> <<[field |-> f, wire |-> 2, v |-> 0, b |-> str.b]>>,
                        next |-> str.next]
          [] wt = 1 -> [is |-> <<>>, next |-> tag.next + 8]
          [] wt = 5 -> [is |-> <<>>, next |-> tag.next + 4]
          [] OTHER -> [is |-> <<>>, next |-> IF stop THEN Len(buf) + 1 ELSE tag.next]

\* The fields of a buffer: one, and those from where it ends.
FieldsFrom(field, from) == field.is \o from[field.next]
FieldsOf(buf, stop) ==
    LET from[p \in Places] ==
          IF p > Len(buf) THEN <<>>
          ELSE FieldsFrom(FieldAt(buf, p, stop), from)
    IN  from[1]
Fields(buf) == FieldsOf(buf, FALSE)

IsField(x, f, wire) == x.field = f /\ x.wire = wire
Ints(buf, f) == FlatMap(LAMBDA x : IF IsField(x, f, 0) THEN <<x.v>> ELSE <<>>, Fields(buf))
Subs(buf, f) == FlatMap(LAMBDA x : IF IsField(x, f, 2) THEN <<x.b>> ELSE <<>>, Fields(buf))

\* The messages at field f of each of `bufs`, and the ids at the end of a path.
Within(bufs, f) == FlatMap(LAMBDA b : Subs(b, f), bufs)
IsId(b) == Len(b) = IdLength
UUIDs == {b \in Seq(Nat) : IsId(b)}
Ids(bufs, f) == Where(Within(bufs, f), IsId)

-------------------------------------------------------------------------------
(* gRPC-Web frames: a flag, four bytes of length, the payload.  *)

Base == 2 * Radix
Header(flag, n) == <<flag, (n \div (Base * Base * Base)) % Base, (n \div (Base * Base)) % Base,
                     (n \div Base) % Base, n % Base>>
\* The lengths four bytes can say.
Fits(n) == n < Base * Base * Base * Base
Frame(flag, payload) == Header(flag, Len(payload)) \o payload

Frames(buf) ==
    LET from[p \in Places] ==
          IF p + 4 > Len(buf) THEN <<>>
          ELSE LET len == buf[p + 4] + Base * (buf[p + 3] + Base * (buf[p + 2] + Base * buf[p + 1]))
               IN  <<[flag |-> buf[p], payload |-> Take(buf, p + 5, len),
                      whole |-> p + 4 + len <= Len(buf)]>> \o from[p + 5 + len]
    IN  from[1]

\* grpcCall: whole frames only, and the trailer's status with the last data frame.
GrpcCall(buf) ==
    LET whole == Where(Frames(buf), LAMBDA x : x.whole)
        data == Where(whole, LAMBDA x : x.flag < Radix)
        trailers == Where(whole, LAMBDA x : x.flag >= Radix /\ x.payload # <<>>)
    IN  [status |-> IF trailers = <<>> THEN 0 ELSE trailers[Len(trailers)].payload[1],
         data |-> IF data = <<>> THEN <<>> ELSE data[Len(data)].payload]

HasData(buf) == \E i \in DOMAIN Frames(buf) : Frames(buf)[i].whole /\ Frames(buf)[i].flag < Radix

\* grpcWebPost: the last frame with flag 0, as much of it as there is.
GrpcWebPost(buf) ==
    LET data == Where(Frames(buf), LAMBDA x : x.flag = 0)
    IN  IF data = <<>> THEN <<>> ELSE data[Len(data)].payload

-------------------------------------------------------------------------------
(* Responses.  *)

\* parseUploadLocationsResponse, over walkProto: the first of a field counts, and
\* a group ends the walk.  "" is no location.
FirstSub(bufs, f) ==
    IF bufs = <<>> THEN <<>>
    ELSE Take(MapSeq(LAMBDA x : x.b,
                     Where(FieldsOf(bufs[1], TRUE), LAMBDA x : IsField(x, f, 2))), 1, 1)
UploadLocation(buf) ==
    LET top == FirstSub(<<buf>>, 1)
        token == FirstSub(FirstSub(top, 4), 3)
        Text(s) == IF s = <<>> THEN <<>> ELSE s[1]
    IN  [putUrl |-> Text(FirstSub(top, 1)), idToken |-> Text(FirstSub(token, 1)),
         idBase |-> Text(FirstSub(FirstSub(token, 2), 2))]
Complete(loc) == loc.putUrl # <<>> /\ loc.idToken # <<>> /\ loc.idBase # <<>>

\* parseSyncConversations: <<>> stands for the conversation without an id.
OneConversation(buf) ==
    LET head == Subs(buf, 1)
    IN  [id |-> LastElse(Ids(Within(head, 1), 1), <<>>),
         type |-> LastElse(FlatMap(LAMBDA b : Ints(b, 2), head), 0),
         participants |-> Ids(Subs(buf, 7), 1)]
SyncConversations(buf) ==
    Where(MapSeq(OneConversation, Subs(buf, 1)), LAMBDA c : c.id # <<>>)

\* parseContentMessage: the encryption envelope wins over the content envelope.
ContentMessage(buf, conv) ==
    LET eel == LastElse(Subs(buf, 4), <<>>)
    IN  [conv |-> conv, id |-> LastElse(Ints(buf, 1), 0),
         sender |-> LastElse(Ids(Subs(buf, 2), 1), <<>>),
         at |-> LastElse(FlatMap(LAMBDA b : Ints(b, 1), Subs(buf, 6)), 0),
         envelope |-> IF eel = <<>> THEN LastElse(Subs(buf, 3), <<>>) ELSE eel]

\* Mutant: a message keeps the id that was known when it was read.
SyncedConversationAsRead(buf) ==
    LET fs == Fields(buf)
        known[i \in 0 .. Len(fs)] ==
          IF i = 0 THEN <<>>
          ELSE IF ~IsField(fs[i], 6, 2) THEN known[i - 1]
          ELSE LastElse(Ids(Within(Subs(fs[i].b, 1), 1), 1), known[i - 1])
        read == [i \in DOMAIN fs |-> IF IsField(fs[i], 4, 2)
                                     THEN <<ContentMessage(fs[i].b, known[i])>> ELSE <<>>]
    IN  Where(Flatten(read), LAMBDA m : m.sender # <<>>)

\* parseSyncedConversation: each message has the id read before it, or, without
\* one, the last of the block.
SyncedConversation(buf) ==
    LET fs == Fields(buf)
        known[i \in 0 .. Len(fs)] ==
          IF i = 0 THEN <<>>
          ELSE IF ~IsField(fs[i], 6, 2) THEN known[i - 1]
          ELSE LastElse(Ids(Within(Subs(fs[i].b, 1), 1), 1), known[i - 1])
        Owner(i) == IF known[i] = <<>> THEN known[Len(fs)] ELSE known[i]
        read == [i \in DOMAIN fs |-> IF IsField(fs[i], 4, 2)
                                     THEN <<ContentMessage(fs[i].b, Owner(i))>> ELSE <<>>]
    IN  Where(Flatten(read), LAMBDA m : m.sender # <<>>)
BatchDeltaSync(buf) ==
    FlatMap(SyncedConversation, Within(Subs(buf, 1), 1))

=============================================================================
