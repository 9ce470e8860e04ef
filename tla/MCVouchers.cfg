\* A foreign token whose vouchers go back and on, on two channels, one of them
\* with a careful counterparty.
SPECIFICATION Spec
CONSTANTS
    port = port  ch0 = ch0  ch1 = ch1  punks = punks
    t1 = t1  t2 = t2  alice = alice  u1 = u1  u2 = u2
    s1 = s1  s2 = s2  a1 = a1  a2 = a2  gov = gov
    None = None  Empty = Empty  Garbage = Garbage
    Bridge = Bridge  BadAddr = BadAddr
    Ports = {port}
    Channels = {ch0, ch1}
    Collections = {punks}
    Port = port
    Remote <- AllCh0
    Tokens = {t1}
    Users = {alice}
    Uris = {u1}
    Natives <- NoNative
    Offers <- Foreign
    Careful = {ch0}
    Accounts = {}
    MaxHops = 1
    Slots = {s1, s2}
    Arrivals = {a1}
SYMMETRY Symmetry
INVARIANT LendingShape
PROPERTY RefusedForCause
CHECK_DEADLOCK FALSE
