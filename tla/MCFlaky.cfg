\* One channel, a collection whose TransferNft may fail.
SPECIFICATION Spec
CONSTANTS
    juno = juno  stars = stars  osmo = osmo
    port = port  ch0 = ch0  ch1 = ch1  punks = punks
    t1 = t1  alice = alice  bob = bob  uri1 = uri1
    v1 = v1  v2 = v2  v3 = v3  v4 = v4
    s1 = s1  s2 = s2  gov = gov  prox = prox
    None = None  Bridge = Bridge  BadAddr = BadAddr
    Chains = {juno, stars}
    Ports = {port}
    Channels = {ch0}
    Collections = {punks}
    Port <- SamePort
    Peer <- OneChannel
    VoucherAddrs = {v1, v2, v3, v4}
    Flaky = {punks}
    Tokens = {t1}
    Users = {alice}
    Accounts = {}
    Proxies = {}
    Uris = {uri1}
    NativeNfts <- OneNative
    Slots = {s1, s2}
    MaxHops = 2
SYMMETRY Symmetry
INVARIANT OneClaim
PROPERTY ImplementsNftTransfer
