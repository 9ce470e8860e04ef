\* Packets of many tokens, well-formed and not, on one channel.
SPECIFICATION Spec
CONSTANTS
    port = port  ch0 = ch0  ch1 = ch1  punks = punks
    t1 = t1  t2 = t2  alice = alice  u1 = u1  u2 = u2
    s1 = s1  s2 = s2  a1 = a1  a2 = a2  gov = gov
    None = None  Empty = Empty  Garbage = Garbage
    Bridge = Bridge  BadAddr = BadAddr
    Ports = {port}
    Channels = {ch0}
    Collections = {punks}
    Port = port
    Remote <- AllCh0
    Tokens = {t1, t2}
    Users = {alice}
    Uris = {u1, u2, Empty}
    Natives <- OneNative
    Offers <- AnyPacket
    Careful = {}
    Accounts = {gov}
    MaxHops = 1
    Slots = {s1}
    Arrivals = {a1}
INVARIANTS TypeOK SentPacketsValid QueriesAnswer
PROPERTIES ReceiptMeetsReference RefusedForCause
