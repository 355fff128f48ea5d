SPECIFICATION OutboundSpec
CONSTANTS
    Radix = 4
    IdLength = 4
    Senders = {s1, s2}
    Kinds = {"text", "image", "captioned", "snap", "story", "read", "unary", "stream", "users", "search",
             "action"}
    Self <- Me
    Wanted <- SomeIds
    Mailboxes <- SmallMailboxes
    MaxLooks = 2
    MaxSends = 2
INVARIANTS DeliveredHasBlob ListenersAreSends ReadsWhatWasSent
 
CHECK_DEADLOCK FALSE
