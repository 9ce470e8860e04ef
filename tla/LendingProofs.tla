---------------------------- MODULE LendingProofs ----------------------------
(***************************************************************************)
(* What PacketReceive promises to those whose tokens the bridge holds,     *)
(* whatever packets arrive: the inductive invariant and its proof.         *)
(***************************************************************************)
EXTENDS PacketReceiveProofs

ReceiveInv == TypeOK /\ WorldShape(world) /\ LendingShape

(***************************************************************************)
(* The world, step by step: types and WorldShape.                          *)
(***************************************************************************)
LEMMA EmptyWorld ==
    ASSUME NEW w, w = [nfts |-> Natives, nftContract |-> EmptyMap,
                       nftClass |-> EmptyMap, classes |-> EmptyMap,
                       metadata |-> EmptyMap]
    PROVE  WorldType(w) /\ WorldShape(w)
<1>1. DOMAIN EmptyMap = {} /\ EmptyMap = [k \in DOMAIN EmptyMap |-> EmptyMap[k]]
  BY DEF EmptyMap
<1>2. /\ Natives = [k \in DOMAIN Natives |-> Natives[k]]
      /\ DOMAIN Natives \subseteq Collections \X Tokens
      /\ \A k \in DOMAIN Natives : Natives[k] \in [owner : Users, uri : Uris \cup {None}]
  BY ReceiveAssumption DEF IsMap
<1>3. DOMAIN Natives \subseteq Contracts \X Tokens
  BY <1>2 DEF Contracts
<1>4. \A k \in DOMAIN Natives : Natives[k] \in Nft
  BY <1>2 DEF Nft
<1>5. WorldType(w)
  BY <1>1, <1>2, <1>3, <1>4 DEF WorldType, IsMap
<1>6. \A kt \in DOMAIN Natives : kt[1] \in Collections
  BY <1>2
<1>7. WorldShape(w)
  BY <1>1, <1>6 DEF WorldShape, RegistryInverse, ContractsNamed, TokensKnown
<1> QED BY <1>5, <1>7

\* Tokens that change hands, or go.
LEMMA NftsChange ==
    ASSUME NEW w, WorldType(w), WorldShape(w), NEW f, f = [kt \in DOMAIN f |-> f[kt]],
           DOMAIN f \subseteq DOMAIN w.nfts, \A kt \in DOMAIN f : f[kt] \in Nft
    PROVE  WorldType(WithNfts(w, f)) /\ WorldShape(WithNfts(w, f))
<1> DEFINE v == WithNfts(w, f)
<1>1. /\ v.nfts = f /\ v.nftContract = w.nftContract /\ v.nftClass = w.nftClass
      /\ v.classes = w.classes /\ v.metadata = w.metadata
      /\ v = [nfts |-> v.nfts, nftContract |-> v.nftContract, nftClass |-> v.nftClass,
              classes |-> v.classes, metadata |-> v.metadata]
  BY DEF WithNfts
<1> HIDE DEF v
<1>2. WorldType(v)
  BY <1>1 DEF WorldType, IsMap
<1>3. WorldShape(v)
  BY <1>1 DEF WorldShape, RegistryInverse, ContractsNamed, TokensKnown
<1> QED BY <1>2, <1>3 DEF v

LEMMA TransferKeeps ==
    ASSUME NEW w, WorldType(w), WorldShape(w), NEW k, NEW t, NEW from,
           NEW to \in Users \cup {Bridge}, OwnedBy(w, k, t, from)
    PROVE  LET v == Cw721Transfer(w, k, t, from, to) IN
           /\ v # Error /\ WorldType(v) /\ WorldShape(v)
           /\ v.nftContract = w.nftContract /\ v.nftClass = w.nftClass
           /\ v.classes = w.classes /\ v.metadata = w.metadata
           /\ DOMAIN v.nfts = DOMAIN w.nfts
           /\ \A kt \in DOMAIN w.nfts : kt # <<k, t>> => v.nfts[kt] = w.nfts[kt]
           /\ OwnedBy(v, k, t, to)
<1> DEFINE key == <<k, t>>
           f == [kt \in DOMAIN w.nfts |-> IF kt = <<k, t>> THEN WithOwner(w.nfts[kt], to)
                                          ELSE w.nfts[kt]]
           v == Cw721Transfer(w, k, t, from, to)
<1>1. key \in DOMAIN w.nfts
  BY DEF OwnedBy, Exists, Has
<1>2. /\ w.nfts = [kt \in DOMAIN w.nfts |-> w.nfts[kt]]
      /\ \A kt \in DOMAIN w.nfts : w.nfts[kt] \in Nft
  BY DEF WorldType, IsMap
<1>3. IsWorld(w)
  BY WorldIsWorld
<1>4. v = WithNfts(w, f)
  BY <1>1, <1>2, <1>3, TransferIs
<1>5. \A kt \in DOMAIN w.nfts : WithOwner(w.nfts[kt], to) \in Nft
  BY <1>2 DEF WithOwner, Nft
<1>6. /\ DOMAIN f = DOMAIN w.nfts /\ \A kt \in DOMAIN f : f[kt] \in Nft
      /\ f[key].owner = to
      /\ \A kt \in DOMAIN w.nfts : kt # <<k, t>> => f[kt] = w.nfts[kt]
  <2>1. f[key] = WithOwner(w.nfts[key], to)
    BY <1>1
  <2>2. f[key].owner = to
    BY <2>1 DEF WithOwner
  <2> QED BY <1>2, <1>5, <2>2
<1>7. f = [kt \in DOMAIN f |-> f[kt]]
  OBVIOUS
<1> HIDE DEF f, v
<1>8. WorldType(v) /\ WorldShape(v)
  BY <1>4, <1>6, <1>7, NftsChange
<1>9. /\ v.nfts = f /\ v.nftContract = w.nftContract /\ v.nftClass = w.nftClass
      /\ v.classes = w.classes /\ v.metadata = w.metadata
  BY <1>4 DEF WithNfts
<1>10. v # Error
  BY <1>8, WorldIsWorld, WorldNotError
<1>11. OwnedBy(v, k, t, to)
  BY <1>1, <1>6, <1>9 DEF OwnedBy, Exists, Has
<1> QED BY <1>6, <1>8, <1>9, <1>10, <1>11 DEF v

LEMMA BurnKeeps ==
    ASSUME NEW w, WorldType(w), WorldShape(w), NEW k, NEW t, NEW a, OwnedBy(w, k, t, a)
    PROVE  LET v == Cw721Burn(w, k, t, a) IN
           /\ v # Error /\ WorldType(v) /\ WorldShape(v)
           /\ v.nftContract = w.nftContract /\ v.nftClass = w.nftClass
           /\ v.classes = w.classes /\ v.metadata = w.metadata
           /\ DOMAIN v.nfts = DOMAIN w.nfts \ {<<k, t>>}
           /\ \A kt \in DOMAIN w.nfts : kt # <<k, t>> => v.nfts[kt] = w.nfts[kt]
<1> DEFINE f == Remove(w.nfts, <<k, t>>)
           v == Cw721Burn(w, k, t, a)
<1>1. IsWorld(w) /\ \A kt \in DOMAIN w.nfts : w.nfts[kt] \in Nft
  BY WorldIsWorld DEF WorldType, IsMap
<1>2. v = WithNfts(w, f)
  BY <1>1, BurnIs
<1>3. /\ DOMAIN f = DOMAIN w.nfts \ {<<k, t>>} /\ f = [kt \in DOMAIN f |-> f[kt]]
      /\ \A kt \in DOMAIN f : f[kt] = w.nfts[kt]
  BY DEF Remove
<1> HIDE DEF f, v
<1>4. WorldType(v) /\ WorldShape(v)
  BY <1>1, <1>2, <1>3, NftsChange
<1>5. /\ v.nfts = f /\ v.nftContract = w.nftContract /\ v.nftClass = w.nftClass
      /\ v.classes = w.classes /\ v.metadata = w.metadata
  BY <1>2 DEF WithNfts
<1>6. v # Error
  BY <1>4, WorldIsWorld, WorldNotError
<1> QED BY <1>3, <1>4, <1>5, <1>6 DEF v

\* The acknowledgement of a token that went back: the burn, and its metadata.
LEMMA ReturnKeeps ==
    ASSUME NEW w, WorldType(w), WorldShape(w), NEW x, NEW t, Has(w.nftContract, x),
           OwnedBy(w, w.nftContract[x], t, Bridge)
    PROVE  LET k == w.nftContract[x]
               v == Cw721Burn([w EXCEPT !.metadata = Remove(@, <<x, t>>)], k, t, Bridge)
           IN  /\ v # Error /\ WorldType(v) /\ WorldShape(v)
               /\ v.nftContract = w.nftContract /\ v.nftClass = w.nftClass
               /\ v.classes = w.classes
               /\ DOMAIN v.nfts = DOMAIN w.nfts \ {<<k, t>>}
               /\ \A kt \in DOMAIN w.nfts : kt # <<k, t>> => v.nfts[kt] = w.nfts[kt]
<1> DEFINE k == w.nftContract[x]
           m == Remove(w.metadata, <<x, t>>)
           u == [w EXCEPT !.metadata = m]
           f == Remove(w.nfts, <<k, t>>)
           v == Cw721Burn(u, k, t, Bridge)
<1>1. IsWorld(w)
  BY WorldIsWorld
<1>2. u = WithMetadata(w, m)
  <2> HIDE DEF m
  <2> QED BY <1>1, ExceptMetadata
<1> HIDE DEF u
<1>3. IsWorld(u) /\ u.nfts = w.nfts
  BY <1>2 DEF IsWorld, WithMetadata, WithNfts
<1>4. OwnedBy(u, k, t, Bridge)
  BY <1>3 DEF OwnedBy, Exists
<1>5. v = WithNfts(u, f)
  <2> HIDE DEF k
  <2>1. v = WithNfts(u, Remove(u.nfts, <<k, t>>))
    BY <1>3, <1>4, BurnIs
  <2> QED BY <1>3, <2>1
<1> HIDE DEF v
<1>6. /\ DOMAIN f = DOMAIN w.nfts \ {<<k, t>>} /\ f = [kt \in DOMAIN f |-> f[kt]]
      /\ \A kt \in DOMAIN f : f[kt] = w.nfts[kt]
  BY DEF Remove
<1>7. /\ DOMAIN m = DOMAIN w.metadata \ {<<x, t>>} /\ m = [key \in DOMAIN m |-> m[key]]
      /\ \A key \in DOMAIN m : m[key] = w.metadata[key]
  BY DEF Remove
<1> HIDE DEF f, m
<1>8. /\ v.nfts = f /\ v.nftContract = w.nftContract /\ v.nftClass = w.nftClass
      /\ v.classes = w.classes /\ v.metadata = m
      /\ v = [nfts |-> v.nfts, nftContract |-> v.nftContract, nftClass |-> v.nftClass,
              classes |-> v.classes, metadata |-> v.metadata]
  BY <1>2, <1>5 DEF WithNfts, WithMetadata
<1>9. WorldType(v)
  <2>1. \A kt \in DOMAIN f : f[kt] \in Nft
    BY <1>6 DEF WorldType, IsMap
  <2>2. \A key \in DOMAIN m : m[key] \in Uris \cup {None}
    BY <1>7 DEF WorldType, IsMap
  <2>3. DOMAIN f \subseteq Contracts \X Tokens /\ DOMAIN m \subseteq ClassTokens
    BY <1>6, <1>7 DEF WorldType, IsMap
  <2> QED BY <1>6, <1>7, <1>8, <2>1, <2>2, <2>3 DEF WorldType, IsMap
<1>10. WorldShape(v)
  <2>1. ASSUME NEW kt \in DOMAIN f, kt[1] \notin Collections
        PROVE  kt[1] \in DOMAIN w.nftClass /\ <<w.nftClass[kt[1]], kt[2]>> \in DOMAIN m
    <3>1. kt \in DOMAIN w.nfts /\ kt # <<k, t>> /\ kt = <<kt[1], kt[2]>>
      BY <1>6, <2>1 DEF WorldType, IsMap
    <3>2. /\ kt[1] \in DOMAIN w.nftClass
          /\ <<w.nftClass[kt[1]], kt[2]>> \in DOMAIN w.metadata
      BY <2>1, <3>1 DEF WorldShape, TokensKnown
    <3>3. w.nftContract[w.nftClass[kt[1]]] = kt[1]
      BY <3>2 DEF WorldShape, RegistryInverse
    <3>4. <<w.nftClass[kt[1]], kt[2]>> # <<x, t>>
      BY <3>1, <3>3
    <3> QED BY <1>7, <3>2, <3>4
  <2>2. TokensKnown(v)
    BY <1>7, <1>8, <2>1 DEF WorldShape, TokensKnown
  <2> QED BY <1>8, <2>2 DEF WorldShape, RegistryInverse, ContractsNamed
<1>11. v # Error
  BY <1>9, WorldIsWorld, WorldNotError
<1> QED BY <1>6, <1>8, <1>9, <1>10, <1>11 DEF v, u, m

\* The registration of a collection when a token of it is first sent.
LEMMA RegisteredKeeps ==
    ASSUME NEW k, NEW t, WorldType(world), WorldShape(world), Exists(world, k, t)
    PROVE  LET class == ClassOfContract(k)
               v == Registered(world, k, class)
           IN  /\ class \in ClassInfo
               /\ WorldType(v) /\ WorldShape(v)
               /\ v.nfts = world.nfts /\ v.metadata = world.metadata
               /\ Has(v.nftContract, class.id) /\ v.nftContract[class.id] = k
               /\ \A x \in DOMAIN world.nftContract :
                    Has(v.nftContract, x) /\ v.nftContract[x] = world.nftContract[x]
               /\ \A y \in DOMAIN v.nftClass :
                    \/ y \in DOMAIN world.nftClass /\ v.nftClass[y] = world.nftClass[y]
                    \/ y = k /\ v.nftClass[y] = LocalClass(k)
               /\ \/ Has(world.nftClass, k) /\ world.nftClass[k] = class.id
                  \/ class.id = LocalClass(k)
<1> DEFINE class == ClassOfContract(k)
           v == Registered(world, k, class)
           x == LocalClass(k)
<1>1. CASE Has(world.nftClass, k)
  <2>1. v = world /\ class = world.classes[world.nftClass[k]]
    BY <1>1 DEF Registered, ClassOfContract
  <2>2. /\ world.nftClass[k] \in DOMAIN world.nftContract
        /\ world.nftContract[world.nftClass[k]] = k
        /\ world.nftClass[k] \in DOMAIN world.classes
        /\ class.id = world.nftClass[k]
    BY <1>1, <2>1 DEF WorldShape, RegistryInverse, Has
  <2>3. class \in ClassInfo
    BY <2>1, <2>2 DEF WorldType, IsMap
  <2> HIDE DEF class, v
  <2> QED BY <1>1, <2>1, <2>2, <2>3 DEF Has, class, v
<1>2. CASE ~Has(world.nftClass, k)
  <2>1. k \in Collections
    <3>1. <<k, t>> \in DOMAIN world.nfts /\ <<k, t>>[1] = k
      BY DEF Exists, Has
    <3> QED BY <1>2, <3>1 DEF WorldShape, TokensKnown, Has
  <2>2. x \in ClassId /\ x.path = << >> /\ x.base = k
    BY <2>1 DEF LocalClass, ClassId
  <2>3. x \notin DOMAIN world.nftContract
    <3> SUFFICES ASSUME x \in DOMAIN world.nftContract PROVE FALSE
      OBVIOUS
    <3>1. world.nftContract[x] = k
      BY <2>2 DEF WorldShape, ContractsNamed
    <3> QED BY <1>2, <3>1 DEF WorldShape, RegistryInverse, Has
  <2>4. class = [id |-> x, uri |-> None, data |-> None]
    BY <1>2 DEF ClassOfContract
  <2>5. class.id = x /\ class \in ClassInfo
    BY <2>2, <2>4 DEF ClassInfo, Metadata
  <2> HIDE DEF class, x
  <2> DEFINE l2 == Save(world.nftClass, k, x)
             c2 == Save(world.nftContract, x, k)
             s2 == Save(world.classes, x, class)
  <2>6. v = [world EXCEPT !.nftClass = l2, !.nftContract = c2, !.classes = s2]
    BY <1>2, <2>5 DEF Registered
  <2>7. /\ DOMAIN l2 = DOMAIN world.nftClass \cup {k} /\ l2[k] = x
        /\ \A y \in DOMAIN world.nftClass : l2[y] = world.nftClass[y]
        /\ l2 = [y \in DOMAIN l2 |-> l2[y]]
    BY <1>2 DEF Save, Has
  <2>8. /\ DOMAIN c2 = DOMAIN world.nftContract \cup {x} /\ c2[x] = k
        /\ \A y \in DOMAIN world.nftContract : c2[y] = world.nftContract[y]
        /\ c2 = [y \in DOMAIN c2 |-> c2[y]]
    BY <2>3 DEF Save
  <2>9. /\ DOMAIN s2 = DOMAIN world.classes \cup {x} /\ s2[x] = class
        /\ \A y \in DOMAIN world.classes : y # x => s2[y] = world.classes[y]
        /\ s2 = [y \in DOMAIN s2 |-> s2[y]]
    BY DEF Save
  <2> HIDE DEF l2, c2, s2, v
  <2>10. /\ v.nfts = world.nfts /\ v.nftContract = c2 /\ v.nftClass = l2
         /\ v.classes = s2 /\ v.metadata = world.metadata
         /\ v = [nfts |-> v.nfts, nftContract |-> v.nftContract,
                 nftClass |-> v.nftClass, classes |-> v.classes,
                 metadata |-> v.metadata]
    <3>0. IsWorld(world)
      BY WorldIsWorld
    <3>1. /\ v = [y \in DOMAIN v |-> v[y]]
          /\ DOMAIN v = {"nfts", "nftContract", "nftClass", "classes", "metadata"}
      BY <2>6, <3>0 DEF IsWorld, WithNfts
    <3>2. /\ v.nfts = world.nfts /\ v.nftContract = c2 /\ v.nftClass = l2
          /\ v.classes = s2 /\ v.metadata = world.metadata
      BY <2>6, <3>0 DEF IsWorld, WithNfts
    <3> QED BY <3>1, <3>2
  <2>11. k \in Contracts
    BY <2>1 DEF Contracts
  <2>12. WorldType(v)
    BY <2>2, <2>5, <2>7, <2>8, <2>9, <2>10, <2>11 DEF WorldType, IsMap
  <2>13. RegistryInverse(v)
    BY <1>2, <2>3, <2>5, <2>7, <2>8, <2>9, <2>10 DEF WorldShape, RegistryInverse, Has
  <2>14. ContractsNamed(v)
    BY <2>2, <2>8, <2>10 DEF WorldShape, ContractsNamed
  <2>15. TokensKnown(v)
    BY <2>7, <2>8, <2>10 DEF WorldShape, TokensKnown
  <2>16. WorldShape(v)
    BY <2>13, <2>14, <2>15 DEF WorldShape
  <2> QED BY <2>5, <2>7, <2>8, <2>10, <2>12, <2>16 DEF Has, class, v, x
<1> QED BY <1>1, <1>2

\* The world after a packet.
LEMMA ReceivedKeeps ==
    ASSUME NEW p, Readable(p), WorldType(world), WorldShape(world),
           NEW v, Received(p, v)
    PROVE  /\ WorldType(v) /\ WorldShape(v)
           /\ \A x \in DOMAIN world.nftContract :
                Has(v.nftContract, x) /\ v.nftContract[x] = world.nftContract[x]
           /\ CreatedAt(p) # {} =>
                /\ Has(v.nftContract, VoucherClass(p))
                /\ v.nftContract[VoucherClass(p)] = VoucherAddr(VoucherClass(p))
                /\ v.classes[VoucherClass(p)] = Class(VoucherClass(p), p.data)
<1> DEFINE z == VoucherClass(p)
           k == VoucherAddr(z)
           class == Class(z, p.data)
           new == NftsOf(k, CreatedTokens(p))
           newKeys == NftsOf(z, CreatedTokens(p))
           f == v.nfts
           m == v.metadata
           rcv == p.data.receiver
<1>1. /\ z \in ClassId /\ z.path # << >> /\ class \in ClassInfo /\ class.id = z
      /\ rcv \in Users \cup {Bridge}
  BY ReadableTypes DEF Readable, Class
<1>2. k \in VoucherAddrs /\ k \in Contracts /\ k \notin Collections
  BY <1>1, ReceiveAssumption DEF VoucherAddrs, VoucherAddr, Contracts
<1>3. /\ v = [nfts |-> v.nfts, nftContract |-> v.nftContract, nftClass |-> v.nftClass,
              classes |-> v.classes, metadata |-> v.metadata]
      /\ ReceivedNfts(p, f) /\ ReceivedMetadata(p, m)
  BY DEF Received, IsWorld, WithNfts
<1>4. \A i \in CreatedAt(p) : TokenAt(p, i) \in Token /\ p.data.token_ids[i] \in Tokens
  BY TokenAtType, ReadableTypes DEF CreatedAt
<1>5. CreatedTokens(p) \subseteq Tokens /\ (CreatedAt(p) = {} => CreatedTokens(p) = {})
  BY <1>4 DEF CreatedTokens
<1>6. IsMap(f, Contracts \X Tokens, Nft)
  <2>1. DOMAIN f \subseteq Contracts \X Tokens
    BY <1>2, <1>3, <1>5 DEF ReceivedNfts, NftsOf, WorldType, IsMap
  <2>2. ASSUME NEW kt \in DOMAIN f PROVE f[kt] \in Nft
    <3>1. CASE kt \in DOMAIN world.nfts
      <4>1. world.nfts[kt] \in Nft /\ WithOwner(world.nfts[kt], rcv) \in Nft
        BY <1>1, <3>1 DEF WorldType, IsMap, WithOwner, Nft
      <4> QED BY <1>3, <3>1, <4>1 DEF ReceivedNfts
    <3>2. CASE kt \notin DOMAIN world.nfts
      <4>1. PICK i \in CreatedAt(p) : kt = <<k, p.data.token_ids[i]>>
        BY <1>3, <2>2, <3>2 DEF ReceivedNfts, NftsOf, CreatedTokens
      <4>2. f[kt] = [owner |-> rcv, uri |-> At(p.data.token_uris, i)]
        BY <1>3, <4>1 DEF ReceivedNfts
      <4>3. At(p.data.token_uris, i) \in Uris \cup {None}
        BY <1>4 DEF TokenAt, Token
      <4> QED BY <1>1, <4>2, <4>3 DEF Nft
    <3> QED BY <3>1, <3>2
  <2> QED BY <1>3, <2>1, <2>2 DEF IsMap, ReceivedNfts
<1>7. IsMap(m, ClassTokens, Uris \cup {None})
  <2>1. DOMAIN m \subseteq ClassTokens
    BY <1>1, <1>3, <1>5 DEF ReceivedMetadata, NftsOf, WorldType, IsMap, ClassTokens
  <2>2. ASSUME NEW key \in DOMAIN m PROVE m[key] \in Uris \cup {None}
    <3>1. CASE key \in newKeys
      <4>1. PICK i \in CreatedAt(p) : key = <<z, p.data.token_ids[i]>>
        BY <3>1 DEF NftsOf, CreatedTokens
      <4>2. m[key] = At(p.data.token_data, i)
        BY <1>3, <4>1 DEF ReceivedMetadata
      <4> QED BY <1>4, <4>2 DEF TokenAt, Token
    <3>2. CASE key \notin newKeys
      BY <1>3, <2>2, <3>2 DEF ReceivedMetadata, WorldType, IsMap
    <3> QED BY <3>1, <3>2
  <2> QED BY <1>3, <2>1, <2>2 DEF IsMap, ReceivedMetadata
<1>8. CASE CreatedAt(p) = {}
  <2>1. /\ v.nftContract = world.nftContract /\ v.nftClass = world.nftClass
        /\ v.classes = world.classes
    BY <1>8 DEF Received
  <2>2. WorldType(v)
    BY <1>3, <1>6, <1>7, <2>1 DEF WorldType
  <2>3. DOMAIN f = DOMAIN world.nfts /\ DOMAIN m = DOMAIN world.metadata
    BY <1>3, <1>5, <1>8 DEF ReceivedNfts, ReceivedMetadata, NftsOf
  <2>4. WorldShape(v)
    BY <2>1, <2>3 DEF WorldShape, RegistryInverse, ContractsNamed, TokensKnown
  <2> QED BY <1>8, <2>1, <2>2, <2>4 DEF Has
<1>9. CASE CreatedAt(p) # {}
  <2> DEFINE ready == Ready(world, z, class)
  <2>1. /\ v.nftContract = ready.nftContract /\ v.nftClass = ready.nftClass
        /\ v.classes = ready.classes
    BY <1>9 DEF Received
  <2>2. /\ ready.nftContract = (IF Has(world.nftContract, z) THEN world.nftContract
                                ELSE Save(world.nftContract, z, k))
        /\ ready.nftClass = (IF Has(world.nftContract, z) THEN world.nftClass
                             ELSE Save(world.nftClass, k, z))
        /\ ready.classes = Save(world.classes, z, class)
    BY DEF Ready
  <2>3. Has(world.nftContract, z) => world.nftContract[z] = k
    BY <1>1 DEF WorldShape, ContractsNamed, Has
  <2>4. Has(world.nftContract, z) <=> k \in DOMAIN world.nftClass
    <3>1. Has(world.nftContract, z) => k \in DOMAIN world.nftClass
      BY <2>3 DEF WorldShape, RegistryInverse, Has
    <3>2. ASSUME k \in DOMAIN world.nftClass PROVE Has(world.nftContract, z)
      <4> DEFINE x == world.nftClass[k]
      <4>1. x \in DOMAIN world.nftContract /\ world.nftContract[x] = k /\ x \in ClassId
        BY <3>2 DEF WorldShape, RegistryInverse, WorldType, IsMap
      <4>2. x.path # << >>
        BY <1>2, <4>1 DEF WorldShape, ContractsNamed, ClassId
      <4>3. VoucherAddr(x) = VoucherAddr(z)
        BY <4>1, <4>2 DEF WorldShape, ContractsNamed
      <4>4. VoucherAddr(x).voucher = x /\ VoucherAddr(z).voucher = z
        BY DEF VoucherAddr
      <4> QED BY <4>1, <4>3, <4>4 DEF Has
    <3> QED BY <3>1, <3>2
  <2> HIDE DEF ready
  <2>5. /\ DOMAIN v.nftContract = DOMAIN world.nftContract \cup {z}
        /\ v.nftContract[z] = k
        /\ \A y \in DOMAIN world.nftContract : v.nftContract[y] = world.nftContract[y]
        /\ v.nftContract = [y \in DOMAIN v.nftContract |-> v.nftContract[y]]
    <3>1. CASE Has(world.nftContract, z)
      BY <2>1, <2>2, <2>3, <3>1 DEF Has, WorldType, IsMap
    <3>2. CASE ~Has(world.nftContract, z)
      <4> HIDE DEF z, k
      <4> QED BY <2>1, <2>2, <3>2 DEF Save, Has
    <3> QED BY <3>1, <3>2
  <2>6. /\ DOMAIN v.nftClass = DOMAIN world.nftClass \cup {k}
        /\ v.nftClass[k] = z
        /\ \A y \in DOMAIN world.nftClass : v.nftClass[y] = world.nftClass[y]
        /\ v.nftClass = [y \in DOMAIN v.nftClass |-> v.nftClass[y]]
    <3>1. CASE Has(world.nftContract, z)
      BY <2>1, <2>2, <2>3, <2>4, <3>1 DEF Has, WorldType, IsMap, WorldShape, RegistryInverse
    <3>2. CASE ~Has(world.nftContract, z)
      BY <2>1, <2>2, <2>4, <3>2 DEF Save
    <3> QED BY <3>1, <3>2
  <2>7. /\ DOMAIN v.classes = DOMAIN world.classes \cup {z} /\ v.classes[z] = class
        /\ \A y \in DOMAIN world.classes : y # z => v.classes[y] = world.classes[y]
        /\ v.classes = [y \in DOMAIN v.classes |-> v.classes[y]]
    BY <2>1, <2>2 DEF Save
  <2> HIDE DEF z, k, class
  <2>8. WorldType(v)
    <3>1. IsMap(v.nftContract, ClassId, Contracts)
      BY <1>1, <1>2, <2>5 DEF WorldType, IsMap
    <3>2. IsMap(v.nftClass, Contracts, ClassId)
      BY <1>1, <1>2, <2>6 DEF WorldType, IsMap
    <3>3. IsMap(v.classes, ClassId, ClassInfo)
      BY <1>1, <2>7 DEF WorldType, IsMap
    <3> QED BY <1>3, <1>6, <1>7, <3>1, <3>2, <3>3 DEF WorldType
  <2>9. RegistryInverse(v)
    <3>1. \A x \in DOMAIN v.nftContract : /\ v.nftContract[x] \in DOMAIN v.nftClass
                                          /\ v.nftClass[v.nftContract[x]] = x
      BY <2>5, <2>6 DEF WorldShape, RegistryInverse
    <3>2. \A y \in DOMAIN v.nftClass : /\ v.nftClass[y] \in DOMAIN v.nftContract
                                       /\ v.nftContract[v.nftClass[y]] = y
                                       /\ v.nftClass[y] \in DOMAIN v.classes
      BY <2>5, <2>6, <2>7 DEF WorldShape, RegistryInverse
    <3>3. \A x \in DOMAIN v.classes : v.classes[x].id = x
      BY <1>1, <2>7 DEF WorldShape, RegistryInverse
    <3> QED BY <3>1, <3>2, <3>3 DEF RegistryInverse
  <2>10. ContractsNamed(v)
    BY <1>1, <2>5 DEF WorldShape, ContractsNamed, k
  <2>11. TokensKnown(v)
    <3>1. \A key \in DOMAIN m : key[1] \in DOMAIN v.nftContract
      BY <1>3, <2>5 DEF WorldShape, TokensKnown, ReceivedMetadata, NftsOf, z
    <3>2. ASSUME NEW kt \in DOMAIN f, kt[1] \notin Collections
          PROVE  /\ kt[1] \in DOMAIN v.nftClass
                 /\ <<v.nftClass[kt[1]], kt[2]>> \in DOMAIN m
      <4>1. CASE kt \in DOMAIN world.nfts
        BY <1>3, <2>6, <3>2, <4>1 DEF WorldShape, TokensKnown, ReceivedMetadata
      <4>2. CASE kt \notin DOMAIN world.nfts
        <5>1. PICK t \in CreatedTokens(p) : kt = <<k, t>>
          BY <1>3, <3>2, <4>2 DEF ReceivedNfts, NftsOf, k, z
        <5>2. <<z, t>> \in DOMAIN m
          BY <1>3 DEF ReceivedMetadata, NftsOf, z
        <5> QED BY <2>6, <5>1, <5>2
      <4> QED BY <4>1, <4>2
    <3> QED BY <3>1, <3>2 DEF TokensKnown
  <2>12. WorldShape(v)
    BY <2>9, <2>10, <2>11 DEF WorldShape
  <2> QED BY <2>5, <2>7, <2>8, <2>12 DEF Has, z, k, class
<1> QED BY <1>8, <1>9

(***************************************************************************)
(* What a step leaves alone.                                               *)
(***************************************************************************)
ContractsKept ==
    \A x \in DOMAIN world.nftContract :
      Has(world'.nftContract, x) /\ world'.nftContract[x] = world.nftContract[x]

\* Only tokens of K change hands or go.
OwnersKept(K) ==
    \A kt \in DOMAIN world.nfts : kt \notin K =>
      kt \in DOMAIN world'.nfts /\ world'.nfts[kt].owner = world.nfts[kt].owner

LEMMA HeldKept ==
    ASSUME ContractsKept, NEW K, OwnersKept(K), NEW x, NEW t, Held(x, t),
           <<world.nftContract[x], t>> \notin K
    PROVE  Held(x, t)'
BY DEF ContractsKept, OwnersKept, Held, OwnedBy, Exists, Has

LEMMA SlotKept ==
    ASSUME NEW s, sent'[s] = sent[s]
    PROVE  (Settles(s)' <=> Settles(s)) /\ TokenOf(s)' = TokenOf(s)
BY DEF Settles, TokenOf, SentToken

\* What a packet says of its token while it has not been exposed.
LEMMA PacketTells ==
    ASSUME NEW s, PacketHolds(s), sent[s] # None
    PROVE  /\ TokenOf(s) = <<sent[s].data.class_id, SentToken(sent[s])>>
           /\ TokenOf(s)[1] = sent[s].data.class_id
           /\ TokenOf(s) = <<TokenOf(s)[1], TokenOf(s)[2]>>
           /\ TokenOf(s)[1] \in DOMAIN world.nftContract
           /\ sent[s].phase # "ok" => Settles(s)
           /\ TokenOf(s) \notin exposed =>
                /\ Settles(s) => Held(TokenOf(s)[1], TokenOf(s)[2])
                /\ sent[s].phase = "sent" => Has(outgoing, TokenOf(s))
BY DEF PacketHolds, Settles, TokenOf, Has

LEMMA PacketKept ==
    ASSUME NEW s, PacketHolds(s), sent'[s] = sent[s], exposed \subseteq exposed',
           ContractsKept, NEW K, OwnersKept(K),
           sent[s] # None /\ TokenOf(s) \notin exposed' =>
             /\ Settles(s) => <<world.nftContract[TokenOf(s)[1]], TokenOf(s)[2]>> \notin K
             /\ sent[s].phase = "sent" => /\ Has(outgoing', TokenOf(s))
                                          /\ outgoing'[TokenOf(s)] = outgoing[TokenOf(s)]
    PROVE  PacketHolds(s)'
<1> SUFFICES ASSUME sent[s] # None PROVE PacketHolds(s)'
  BY DEF PacketHolds
<1> DEFINE p == sent[s]
<1>1. PICK x, t : x = p.data.class_id /\ t = SentToken(p)
  OBVIOUS
<1>2. TokenOf(s) = <<x, t>> /\ TokenOf(s)[1] = x /\ TokenOf(s)[2] = t
  BY <1>1 DEF TokenOf
<1>3. /\ x \in ClassId /\ p.data.token_ids = <<t>> /\ Has(world.nftContract, x)
      /\ <<x, t>> \notin exposed =>
           /\ p.channel \in Careful
           /\ Settles(s) => Held(x, t)
           /\ p.phase = "sent" => /\ Has(outgoing, <<x, t>>)
                                  /\ outgoing[<<x, t>>] = p.channel
  BY <1>1, <1>2 DEF PacketHolds
<1>4. Has(world'.nftContract, x)
  BY <1>3 DEF ContractsKept, Has
<1>5. <<x, t>> \notin exposed' /\ Settles(s) => Held(x, t)'
  BY <1>2, <1>3, HeldKept
<1>6. Settles(s)' <=> Settles(s)
  BY SlotKept
<1>7. <<x, t>> \notin exposed' /\ p.phase = "sent" =>
        Has(outgoing', <<x, t>>) /\ outgoing'[<<x, t>>] = p.channel
  BY <1>2, <1>3
<1>8. sent'[s] = p /\ x = sent'[s].data.class_id /\ t = SentToken(sent'[s])
  BY <1>1 DEF SentToken
<1>9. <<x, t>> \notin exposed' => p.channel \in Careful
  BY <1>3
<1> HIDE DEF p
<1> QED BY <1>3, <1>4, <1>5, <1>6, <1>7, <1>8, <1>9 DEF PacketHolds, TokenOf, Held

LEMMA LentKept ==
    ASSUME NEW l, LentHeld(l), ContractsKept, NEW K, OwnersKept(K),
           <<world.nftContract[l[2]], l[3]>> \notin K,
           \A s \in Slots : Settles(s)' => TokenOf(s)' # <<l[2], l[3]>>,
           Has(outgoing', <<l[2], l[3]>>),
           outgoing'[<<l[2], l[3]>>] = outgoing[<<l[2], l[3]>>]
    PROVE  LentHeld(l)'
<1>1. Held(l[2], l[3])'
  BY HeldKept DEF LentHeld
<1> QED BY <1>1 DEF LentHeld

\* What is lent is of a class that has a contract.
LEMMA LentTells ==
    ASSUME ReceiveInv, NEW l \in lent, <<l[2], l[3]>> \notin exposed
    PROVE  /\ LentHeld(l) /\ l = <<l[1], l[2], l[3]>>
           /\ l[2] \in DOMAIN world.nftContract
           /\ Held(l[2], l[3]) /\ Has(outgoing, <<l[2], l[3]>>)
<1>1. LentHeld(l) /\ l = <<l[1], l[2], l[3]>>
  BY DEF ReceiveInv, LendingShape, TypeOK, NetworkType
<1> QED BY <1>1 DEF LentHeld, Held, Has

LEMMA OutgoingKept ==
    ASSUME OutgoingKnown, ContractsKept, exposed \subseteq exposed',
           \A key \in DOMAIN outgoing' :
             key \in DOMAIN outgoing /\ outgoing'[key] = outgoing[key]
    PROVE  OutgoingKnown'
BY DEF OutgoingKnown, ContractsKept, Has

LEMMA ArrivalsKept ==
    ASSUME CarefulArrivals, lent \subseteq lent',
           \A i \in Arrivals : arriving'[i] = arriving[i] \/ arriving'[i] = None
    PROVE  CarefulArrivals'
<1> SUFFICES ASSUME NEW i \in Arrivals, arriving'[i] # None,
                    arriving'[i].channel \in Careful, Claims(arriving'[i]) # {}
             PROVE  /\ GivenBack(arriving'[i]) \subseteq lent'
                    /\ SeqExt!IsInjective(arriving'[i].data.token_ids)
                    /\ \A j \in Arrivals \ {i} :
                         arriving'[j] # None /\ arriving'[j].channel = arriving'[i].channel =>
                           Claims(arriving'[j]) \cap Claims(arriving'[i]) = {}
  BY DEF CarefulArrivals
<1>1. PICK p : p = arriving[i] /\ p = arriving'[i]
  OBVIOUS
<1>2. /\ GivenBack(p) \subseteq lent
      /\ SeqExt!IsInjective(p.data.token_ids)
      /\ \A j \in Arrivals \ {i} :
           arriving[j] # None /\ arriving[j].channel = p.channel =>
             Claims(arriving[j]) \cap Claims(p) = {}
  BY <1>1 DEF CarefulArrivals
<1>3. ASSUME NEW j \in Arrivals \ {i}, arriving'[j] # None, arriving'[j].channel = p.channel
      PROVE  Claims(arriving'[j]) \cap Claims(p) = {}
  BY <1>2, <1>3
<1> QED BY <1>1, <1>2, <1>3

\* Steps that leave the bridge and what is owed by it alone.
LEMMA QuietStep ==
    ASSUME ReceiveInv, UNCHANGED <<bridgeState, sent, history>>, CarefulArrivals'
    PROVE  WorldShape(world)' /\ LendingShape'
<1>1. /\ world' = world /\ outgoing' = outgoing /\ incoming' = incoming
      /\ sent' = sent /\ lent' = lent /\ exposed' = exposed
  BY DEF bridgeState, history
<1>2. WorldShape(world)'
  BY <1>1 DEF ReceiveInv
<1>3. ContractsKept /\ OwnersKept({})
  BY <1>1 DEF ContractsKept, OwnersKept, Has
<1>4. ASSUME NEW s \in Slots PROVE PacketHolds(s)'
  <2>1. PacketHolds(s)
    BY DEF ReceiveInv, LendingShape
  <2>2. sent[s] # None /\ TokenOf(s) \notin exposed /\ sent[s].phase = "sent"
          => Has(outgoing, TokenOf(s))
    BY <2>1, PacketTells
  <2> QED BY <1>1, <1>3, <2>1, <2>2, PacketKept
<1>5. \A s : (Settles(s)' <=> Settles(s)) /\ TokenOf(s)' = TokenOf(s)
  BY <1>1, SlotKept
<1>6. SettledOnce'
  BY <1>1, <1>5 DEF ReceiveInv, LendingShape, SettledOnce
<1>7. ASSUME NEW l \in lent, <<l[2], l[3]>> \notin exposed PROVE LentHeld(l)'
  <2>1. LentHeld(l) /\ Has(outgoing, <<l[2], l[3]>>)
    BY <1>7, LentTells
  <2>2. \A s \in Slots : Settles(s)' => TokenOf(s)' # <<l[2], l[3]>>
    BY <1>5, <2>1 DEF LentHeld
  <2> QED BY <1>1, <1>3, <2>1, <2>2, LentKept
<1>8. IncomingNamed' /\ OutgoingKnown'
  BY <1>1 DEF ReceiveInv, LendingShape, IncomingNamed, OutgoingKnown
<1> QED BY <1>1, <1>2, <1>4, <1>6, <1>7, <1>8 DEF LendingShape

(***************************************************************************)
(* Receiving.                                                              *)
(***************************************************************************)
LEMMA MapsAfter ==
    ASSUME NEW p, Readable(p),
           outgoing = [key \in DOMAIN outgoing |-> outgoing[key]],
           incoming = [key \in DOMAIN incoming |-> incoming[key]]
    PROVE  LET out == Selected(p).outgoing
               in == Selected(p).incoming
           IN  /\ out = [key \in DOMAIN outgoing \ Redeemed(p) |-> outgoing[key]]
               /\ in = [key \in DOMAIN incoming \cup Created(p) |->
                          IF key \in Created(p) THEN p.channel ELSE incoming[key]]
<1> DEFINE n == Len(p.data.token_ids)
           x == Unprefixed(p.data.class_id)
           z == VoucherClass(p)
<1>1. p.data.token_ids \in Seq(Tokens) /\ validate(p.data) /\ n \in Nat
      /\ DOMAIN p.data.token_ids = 1 .. n
  BY ReadableTypes DEF Readable, Data
<1>2. Selected(p) = SelectedAfter(p, n)
  BY <1>1, SelectedIs, Zenon
<1>3. RedeemedAt(p) \cap (1 .. n) = RedeemedAt(p) /\ CreatedAt(p) \cap (1 .. n) = CreatedAt(p)
  BY <1>1 DEF RedeemedAt, CreatedAt
<1>4. RedeemedKeys(p, n) = Redeemed(p)
  <2>1. RedeemedKeys(p, n) = NftsOf(x, {p.data.token_ids[j] : j \in RedeemedAt(p)})
    BY <1>3 DEF RedeemedKeys, NftsOf
  <2>2. RedeemedKeys(p, n) = NftsOf(x, RedeemedBy(p))
    BY <2>1, RedeemedFirst
  <2> QED BY <2>2 DEF NftsOf, Redeemed
<1>5. CreatedKeys(p, n) = Created(p)
  BY <1>3 DEF CreatedKeys, Created
<1> QED BY <1>2, <1>4, <1>5 DEF SelectedAfter, OutgoingAfter, IncomingAfter

LEMMA AcceptedReadable ==
    ASSUME TypeOK, NEW i \in Arrivals, arriving[i] # None, Accepts(arriving[i])
    PROVE  Readable(arriving[i])
<1>0. PICK p : p = arriving[i]
  OBVIOUS
<1>1. p \in ArrivingPacket /\ Accepts(p)
  BY <1>0 DEF TypeOK, NetworkType
<1>2. p.channel \in Channels /\ p.data \in Data /\ validate(p.data)
      /\ p.data.receiver # BadAddr
  BY <1>1 DEF Accepts, ArrivingPacket
<1>3. p.data.receiver \in Users \cup {Bridge}
  BY <1>2 DEF Data
<1> QED BY <1>0, <1>2, <1>3 DEF Readable

\* What a packet returns was sent out on its channel.  If it has not been
\* exposed, it is lent to the sender, which is a careful one.
LEMMA RedeemedLent ==
    ASSUME ReceiveInv, NEW i \in Arrivals, NEW p, p = arriving[i], p # None,
           p.data # Garbage, NEW t \in RedeemedBy(p)
    PROVE  LET x == Unprefixed(p.data.class_id) IN
           /\ Has(world.nftContract, x) /\ <<x, t>> \in Claims(p)
           /\ <<x, t>> \in Redeemed(p)
           /\ outgoing[<<x, t>>] = p.channel
           /\ <<x, t>> \notin exposed =>
                /\ p.channel \in Careful
                /\ <<p.channel, x, t>> \in lent /\ LentHeld(<<p.channel, x, t>>)
                /\ Held(x, t)
<1> DEFINE x == Unprefixed(p.data.class_id)
           l == <<p.channel, x, t>>
           key == <<x, t>>
<1>1. /\ ClaimsSource(p) /\ key \in DOMAIN outgoing /\ t \in SeqExt!ToSet(p.data.token_ids)
      /\ outgoing[key] = p.channel
  BY DEF RedeemedBy, Has
<1>2. key \in Claims(p) /\ key \in Redeemed(p)
  BY <1>1 DEF Claims, Redeemed
<1>3. Has(world.nftContract, key[1]) /\ (key \in exposed \/ p.channel \in Careful)
  BY <1>1 DEF ReceiveInv, LendingShape, OutgoingKnown
<1>4. ASSUME key \notin exposed
      PROVE  p.channel \in Careful /\ l \in lent /\ LentHeld(l) /\ Held(x, t)
  <2>1. p.channel \in Careful
    BY <1>3, <1>4
  <2>2. GivenBack(p) \subseteq lent
    BY <1>2, <2>1 DEF ReceiveInv, LendingShape, CarefulArrivals
  <2>3. <<p.channel, key[1], key[2]>> \in lent
    <3> HIDE DEF key
    <3> QED BY <1>2, <2>2 DEF GivenBack
  <2>4. l \in lent /\ <<l[2], l[3]>> = key
    BY <2>3
  <2>5. LentHeld(l) /\ Held(l[2], l[3])
    BY <1>4, <2>4, LentTells
  <2> QED BY <2>1, <2>4, <2>5
<1> QED BY <1>1, <1>2, <1>3, <1>4

LEMMA ArrivingOutcome ==
    ASSUME ReceiveInv, NEW i \in Arrivals, NEW p, p = arriving[i], p # None, Accepts(p)
    PROVE  /\ Readable(p)
           /\ \/ Outcome(p) = Error /\ (Duplicates(p) \/ ReturnsExposed(p))
              \/ Outcome(p) # Error /\ Received(p, Outcome(p))
<1> DEFINE x == Unprefixed(p.data.class_id)
<1>1. Readable(p)
  BY AcceptedReadable DEF ReceiveInv
<1>2. p.data # Garbage
  BY DEF Accepts
<1>3. RedeemedKnown(p)
  BY <1>2, RedeemedLent DEF RedeemedKnown
<1>4. /\ WorldType(world) /\ WorldShape(world)
      /\ outgoing = [key \in DOMAIN outgoing |-> outgoing[key]]
      /\ incoming = [key \in DOMAIN incoming |-> incoming[key]]
  BY DEF ReceiveInv, TypeOK, IsMap
<1>5. \/ Outcome(p) = Error /\ (Duplicates(p) \/ ~RedeemedHeld(p))
      \/ Outcome(p) # Error /\ RedeemedHeld(p) /\ Received(p, Outcome(p))
  BY <1>1, <1>3, <1>4, OutcomeLaw
<1>6. ASSUME ~RedeemedHeld(p) PROVE ReturnsExposed(p)
  <2>1. PICK t \in RedeemedBy(p) : ~Held(x, t)
    BY <1>6 DEF RedeemedHeld
  <2> DEFINE key == <<x, t>>
  <2>2. Has(world.nftContract, x) /\ key \in Redeemed(p) /\ key \in exposed
    BY <1>2, <2>1, RedeemedLent
  <2>3. ~OwnedBy(world, world.nftContract[key[1]], key[2], Bridge)
    BY <2>1, <2>2 DEF Held
  <2> HIDE DEF key
  <2> QED BY <2>2, <2>3 DEF ReturnsExposed
<1> QED BY <1>1, <1>5, <1>6

\* A packet of a careful counterparty that claims tokens, none of them exposed,
\* is never refused for what it asks for.
LEMMA CarefulDelivered ==
    ASSUME ReceiveInv, NEW i \in Arrivals, NEW p, p = arriving[i], p # None, Accepts(p),
           p.channel \in Careful, Claims(p) # {}, Claims(p) \cap exposed = {}
    PROVE  Outcome(p) # Error
<1> DEFINE ids == p.data.token_ids
           x == Unprefixed(p.data.class_id)
<1>1. GivenBack(p) \subseteq lent /\ SeqExt!IsInjective(ids)
  BY DEF ReceiveInv, LendingShape, CarefulArrivals
<1>2. p.data # Garbage /\ ClaimsSource(p)
  BY DEF Claims
<1>3. ASSUME NEW a \in DOMAIN ids PROVE a \notin CreatedAt(p)
  <2> DEFINE l == <<p.channel, x, ids[a]>>
             key == <<x, ids[a]>>
  <2>1. ids[a] \in SeqExt!ToSet(ids)
    BY DEF SeqExt!ToSet
  <2>2. key \in Claims(p) /\ key \notin exposed
    BY <1>2, <2>1 DEF Claims
  <2>3. <<p.channel, key[1], key[2]>> \in lent
    <3> HIDE DEF key
    <3> QED BY <1>1, <2>2 DEF GivenBack
  <2>4. l \in lent /\ <<l[2], l[3]>> = key /\ l[1] = p.channel
    BY <2>3
  <2>5. LentHeld(l)
    BY <2>2, <2>4, LentTells
  <2>6. Has(outgoing, key) /\ outgoing[key] = p.channel
    <3> HIDE DEF l, key
    <3> QED BY <2>4, <2>5 DEF LentHeld
  <2>7. ids[a] \in RedeemedBy(p)
    BY <1>2, <2>1, <2>6 DEF RedeemedBy
  <2>8. DOMAIN ids = 1 .. Len(ids) /\ Len(ids) \in Nat
    BY AcceptedReadable, ReadableTypes DEF ReceiveInv
  <2>9. \A j \in 1 .. a - 1 : ids[j] # ids[a]
    BY <1>1, <2>8 DEF SeqExt!IsInjective
  <2> QED BY <2>7, <2>9 DEF CreatedAt
<1>4. CreatedAt(p) = {}
  BY <1>3 DEF CreatedAt
<1>5. ~Duplicates(p)
  BY <1>4 DEF Duplicates
<1>6. ~ReturnsExposed(p)
  <2>1. Redeemed(p) \subseteq Claims(p)
    BY <1>2 DEF Redeemed, RedeemedBy, Claims
  <2> QED BY <2>1 DEF ReturnsExposed
<1> QED BY <1>5, <1>6, ArrivingOutcome

\* When a packet fails, what it returns has been exposed.
LEMMA FailureExposes ==
    ASSUME ReceiveInv, NEW i \in Arrivals, NEW p, p = arriving[i], p # None, Accepts(p),
           Outcome(p) = Error
    PROVE  Redeemed(p) \subseteq exposed \cup Risks(p)
<1> SUFFICES ASSUME NEW key \in Redeemed(p), key \notin exposed
             PROVE  key \in Risks(p)
  OBVIOUS
<1>1. PICK t \in RedeemedBy(p) : key = <<Unprefixed(p.data.class_id), t>>
  BY DEF Redeemed
<1>2. p.channel \in Careful /\ key \in Claims(p)
  BY <1>1, RedeemedLent DEF Accepts
<1>3. Claims(p) \cap exposed # {}
  BY <1>2, CarefulDelivered
<1> QED BY <1>3 DEF Risks

\* Two classes do not share a contract.
LEMMA ContractUnique ==
    ASSUME WorldShape(world), NEW x \in DOMAIN world.nftContract,
           NEW y \in DOMAIN world.nftContract,
           world.nftContract[x] = world.nftContract[y]
    PROVE  x = y
BY DEF WorldShape, RegistryInverse

LEMMA HandleStep ==
    ASSUME ReceiveInv, NEW i \in Arrivals, arriving[i] # None, HandlePacket(arriving[i]),
           arriving' = [arriving EXCEPT ![i] = None], UNCHANGED <<po, open, sent>>
    PROVE  ReceiveInv'
<1>0. PICK p : p = arriving[i]
  OBVIOUS
<1> DEFINE x == Unprefixed(p.data.class_id)
           z == VoucherClass(p)
           ok == Outcome(p) # Error
<1>1. /\ Accepts(p) /\ p.data # Garbage /\ p # None
      /\ outgoing' = Selected(p).outgoing /\ incoming' = Selected(p).incoming
      /\ ok => world' = Outcome(p) /\ lent' = lent \ GivenBack(p) /\ exposed' = exposed
      /\ ~ok => world' = world /\ lent' = lent /\ exposed' = exposed \cup Risks(p)
  BY <1>0 DEF HandlePacket, Acknowledgement, Accepts
<1>2. Readable(p) /\ (ok => Received(p, world'))
  BY <1>0, <1>1, ArrivingOutcome
<1>3. /\ WorldType(world) /\ WorldShape(world)
      /\ outgoing = [key \in DOMAIN outgoing |-> outgoing[key]]
      /\ incoming = [key \in DOMAIN incoming |-> incoming[key]]
  BY DEF ReceiveInv, TypeOK, IsMap
<1>4. /\ outgoing' = [key \in DOMAIN outgoing \ Redeemed(p) |-> outgoing[key]]
      /\ incoming' = [key \in DOMAIN incoming \cup Created(p) |->
                        IF key \in Created(p) THEN p.channel ELSE incoming[key]]
  BY <1>1, <1>2, <1>3, MapsAfter
<1>5. exposed \subseteq exposed' /\ lent' \subseteq lent
  BY <1>1
<1>6. ~ok => Redeemed(p) \subseteq exposed'
  BY <1>0, <1>1, FailureExposes
<1>7. /\ WorldType(world)' /\ WorldShape(world)' /\ ContractsKept
  BY <1>1, <1>2, <1>3, ReceivedKeeps DEF ContractsKept, Has
<1>8. OwnersKept(RedeemedNfts(p))
  BY <1>1, <1>2 DEF OwnersKept, Received, ReceivedNfts
<1> HIDE DEF ok
\* What is returned and has not been exposed is lent: no packet settles it.
<1>9. ASSUME NEW key \in Redeemed(p), key \notin exposed'
      PROVE  /\ \A s \in Slots : Settles(s) => TokenOf(s) # key
             /\ ok /\ key \in Claims(p) /\ outgoing[key] = p.channel
  <2>1. PICK t \in RedeemedBy(p) : key = <<x, t>>
    BY DEF Redeemed
  <2> DEFINE l == <<p.channel, x, t>>
  <2>2. /\ LentHeld(l) /\ key \in Claims(p) /\ outgoing[key] = p.channel
    BY <1>0, <1>1, <1>5, <1>9, <2>1, RedeemedLent
  <2>3. l[2] = x /\ l[3] = t
    OBVIOUS
  <2> HIDE DEF l, x
  <2>4. \A s \in Slots : Settles(s) => TokenOf(s) # key
    BY <2>1, <2>2, <2>3 DEF LentHeld
  <2> QED BY <1>6, <1>9, <2>2, <2>4
\* A token that is not returned is not affected, whatever class it is of.
<1>10. ASSUME NEW y \in DOMAIN world.nftContract, NEW t,
              <<world.nftContract[y], t>> \in RedeemedNfts(p)
       PROVE  <<y, t>> \in Redeemed(p)
  <2>1. PICK u \in RedeemedBy(p) : <<world.nftContract[y], t>> = <<world.nftContract[x], u>>
    BY <1>10 DEF RedeemedNfts
  <2>2. x \in DOMAIN world.nftContract
    BY <1>0, <1>1, <2>1, RedeemedLent DEF Has
  <2>3. y = x
    BY <1>3, <2>1, <2>2, ContractUnique
  <2> QED BY <2>1, <2>3 DEF Redeemed
<1>11. \A key : /\ Has(outgoing', key) => Has(outgoing, key) /\ outgoing'[key] = outgoing[key]
                /\ Has(outgoing, key) /\ key \notin Redeemed(p) => Has(outgoing', key)
  BY <1>4 DEF Has
<1>12. ASSUME NEW s \in Slots PROVE PacketHolds(s)'
  <2>1. PacketHolds(s)
    BY DEF ReceiveInv, LendingShape
  <2>2. ASSUME sent[s] # None, TokenOf(s) \notin exposed'
        PROVE  /\ Settles(s) => <<world.nftContract[TokenOf(s)[1]], TokenOf(s)[2]>>
                                  \notin RedeemedNfts(p)
               /\ sent[s].phase = "sent" => /\ Has(outgoing', TokenOf(s))
                                            /\ outgoing'[TokenOf(s)] = outgoing[TokenOf(s)]
    <3>1. /\ TokenOf(s)[1] \in DOMAIN world.nftContract
          /\ TokenOf(s) = <<TokenOf(s)[1], TokenOf(s)[2]>>
          /\ sent[s].phase = "sent" => Settles(s)
          /\ sent[s].phase = "sent" => Has(outgoing, TokenOf(s))
      BY <1>5, <2>1, <2>2, PacketTells
    <3>2. Settles(s) => TokenOf(s) \notin Redeemed(p)
      BY <1>9, <2>2
    <3>3. Settles(s) => <<world.nftContract[TokenOf(s)[1]], TokenOf(s)[2]>>
                          \notin RedeemedNfts(p)
      BY <1>10, <3>1, <3>2
    <3> QED BY <1>11, <3>1, <3>2, <3>3
  <2> QED BY <1>5, <1>7, <1>8, <2>1, <2>2, PacketKept
<1>13. \A s : (Settles(s)' <=> Settles(s)) /\ TokenOf(s)' = TokenOf(s)
  BY SlotKept
<1>14. SettledOnce'
  BY <1>5, <1>13 DEF ReceiveInv, LendingShape, SettledOnce
<1>15. ASSUME NEW l \in lent', <<l[2], l[3]>> \notin exposed' PROVE LentHeld(l)'
  <2> DEFINE key == <<l[2], l[3]>>
  <2>1. /\ LentHeld(l) /\ l = <<l[1], l[2], l[3]>> /\ l[2] \in DOMAIN world.nftContract
        /\ Has(outgoing, key)
    BY <1>5, <1>15, LentTells
  \* If it were returned, the sender would have had it and given it back.
  <2>2. key \notin Redeemed(p)
    <3> SUFFICES ASSUME key \in Redeemed(p) PROVE FALSE
      OBVIOUS
    <3>1. ok /\ key \in Claims(p) /\ outgoing[key] = p.channel
      BY <1>9, <1>15
    <3>2. l[1] = p.channel
      BY <2>1, <3>1 DEF LentHeld
    <3>3. key[1] = l[2] /\ key[2] = l[3]
      OBVIOUS
    <3> HIDE DEF key
    <3>4. <<p.channel, key[1], key[2]>> \in GivenBack(p)
      BY <3>1 DEF GivenBack
    <3>5. l \in GivenBack(p)
      BY <2>1, <3>2, <3>3, <3>4
    <3> QED BY <1>1, <1>15, <3>1, <3>5
  <2>3. <<world.nftContract[l[2]], l[3]>> \notin RedeemedNfts(p)
    BY <1>10, <2>1, <2>2
  <2>4. \A s \in Slots : Settles(s)' => TokenOf(s)' # key
    BY <1>13, <2>1 DEF LentHeld
  <2>5. Has(outgoing', key) /\ outgoing'[key] = outgoing[key]
    BY <1>11, <2>1, <2>2
  <2> QED BY <1>7, <1>8, <2>1, <2>3, <2>4, <2>5, LentKept
<1>16. IncomingNamed'
  <2> SUFFICES ASSUME NEW key \in DOMAIN incoming'
               PROVE  HasPrefix(Here(incoming'[key]), key[1])
    BY DEF IncomingNamed
  <2>1. CASE key \in Created(p)
    <3>1. key[1] = z /\ incoming'[key] = p.channel
      BY <1>4, <2>1 DEF Created
    <3>2. HasPrefix(Here(p.channel), z)
      BY <1>2, ReadableTypes
    <3> QED BY <3>1, <3>2
  <2>2. CASE key \notin Created(p)
    <3>1. key \in DOMAIN incoming /\ incoming'[key] = incoming[key]
      BY <1>4, <2>2
    <3> QED BY <3>1 DEF ReceiveInv, LendingShape, IncomingNamed
  <2> QED BY <2>1, <2>2
<1>17. OutgoingKnown'
  <2>1. \A key \in DOMAIN outgoing' : key \in DOMAIN outgoing /\ outgoing'[key] = outgoing[key]
    BY <1>11 DEF Has
  <2> QED BY <1>5, <1>7, <2>1, OutgoingKept DEF ReceiveInv, LendingShape
<1>18. /\ arriving'[i] = None /\ \A j \in Arrivals : j # i => arriving'[j] = arriving[j]
       /\ arriving' \in [Arrivals -> ArrivingPacket \cup {None}]
  BY DEF ReceiveInv, TypeOK, NetworkType
<1>19. CarefulArrivals'
  <2> SUFFICES ASSUME NEW j \in Arrivals, arriving'[j] # None,
                      arriving'[j].channel \in Careful, Claims(arriving'[j]) # {}
               PROVE  /\ GivenBack(arriving'[j]) \subseteq lent'
                      /\ SeqExt!IsInjective(arriving'[j].data.token_ids)
                      /\ \A a \in Arrivals \ {j} :
                           arriving'[a] # None
                           /\ arriving'[a].channel = arriving'[j].channel =>
                             Claims(arriving'[a]) \cap Claims(arriving'[j]) = {}
    BY DEF CarefulArrivals
  <2>1. PICK q : q = arriving[j] /\ q = arriving'[j] /\ j # i
    BY <1>18
  <2>2. /\ GivenBack(q) \subseteq lent
        /\ SeqExt!IsInjective(q.data.token_ids)
        /\ \A a \in Arrivals \ {j} :
             arriving[a] # None /\ arriving[a].channel = q.channel =>
               Claims(arriving[a]) \cap Claims(q) = {}
    BY <2>1 DEF ReceiveInv, LendingShape, CarefulArrivals
  <2>3. p.channel = q.channel => Claims(p) \cap Claims(q) = {}
    BY <1>0, <1>1, <2>1, <2>2
  <2>4. ASSUME NEW l \in GivenBack(q) PROVE l \in lent'
    <3>1. PICK key \in Claims(q) : l = <<q.channel, key[1], key[2]>>
      BY DEF GivenBack
    <3>2. ASSUME l \in GivenBack(p) PROVE FALSE
      <4>1. PICK b \in Claims(p) : l = <<p.channel, b[1], b[2]>>
        BY <3>2 DEF GivenBack
      <4>2. /\ key = <<key[1], key[2]>> /\ b = <<b[1], b[2]>>
        BY DEF Claims
      <4>3. p.channel = q.channel /\ b = key
        BY <3>1, <4>1, <4>2
      <4> QED BY <2>3, <4>3
    <3> QED BY <1>1, <2>2, <3>2
  <2>5. ASSUME NEW a \in Arrivals \ {j}, arriving'[a] # None, arriving'[a].channel = q.channel
        PROVE  Claims(arriving'[a]) \cap Claims(q) = {}
    <3>1. arriving'[a] = arriving[a]
      BY <1>18, <2>5
    <3> QED BY <2>2, <2>5, <3>1
  <2> QED BY <2>1, <2>2, <2>4, <2>5
<1>20. LendingShape'
  BY <1>12, <1>14, <1>15, <1>16, <1>17, <1>19 DEF LendingShape
<1>21. TypeOK'
  <2>1. IsMap(outgoing', ClassTokens, Channels)
    BY <1>4 DEF ReceiveInv, TypeOK, IsMap
  <2>2. IsMap(incoming', ClassTokens, Channels)
    <3>1. z \in ClassId /\ p.channel \in Channels
          /\ \A a \in CreatedAt(p) : p.data.token_ids[a] \in Tokens
      BY <1>2, ReadableTypes DEF CreatedAt, Readable
    <3>2. Created(p) \subseteq ClassTokens
      BY <3>1 DEF Created, ClassTokens
    <3> QED BY <1>4, <3>1, <3>2 DEF ReceiveInv, TypeOK, IsMap
  <2>3. exposed' \subseteq ClassTokens
    <3>1. Redeemed(p) \subseteq DOMAIN outgoing
      BY DEF Redeemed, RedeemedBy, Has
    <3>2. Redeemed(p) \subseteq ClassTokens
      BY <3>1 DEF ReceiveInv, TypeOK, IsMap
    <3>3. Risks(p) \subseteq ClassTokens
      BY <3>2 DEF Risks
    <3> QED BY <1>1, <3>3 DEF ReceiveInv, TypeOK, NetworkType
  <2> QED BY <1>5, <1>7, <1>18, <2>1, <2>2, <2>3 DEF ReceiveInv, TypeOK, NetworkType
<1> QED BY <1>7, <1>20, <1>21 DEF ReceiveInv

(***************************************************************************)
(* The other steps.                                                        *)
(***************************************************************************)
LEMMA InitReceive ==
    ASSUME Init
    PROVE  ReceiveInv
<1>1. WorldType(world) /\ WorldShape(world)
  BY EmptyWorld DEF Init
<1>2. DOMAIN EmptyMap = {} /\ EmptyMap = [k \in DOMAIN EmptyMap |-> EmptyMap[k]]
  BY DEF EmptyMap
<1>3. /\ outgoing = EmptyMap /\ incoming = EmptyMap /\ open = Channels
      /\ \A s \in Slots : sent[s] = None
      /\ sent \in [Slots -> SentPacket \cup {None}]
      /\ \A i \in Arrivals : arriving[i] = None
      /\ arriving \in [Arrivals -> ArrivingPacket \cup {None}]
      /\ lent = {} /\ exposed = {}
  BY DEF Init
<1>4. po \in PauseState
  BY DEF Init, set_pauser, PauseState
<1>5. TypeOK
  BY <1>1, <1>2, <1>3, <1>4 DEF TypeOK, NetworkType, IsMap
<1>6. \A s \in Slots : PacketHolds(s) /\ ~Settles(s)
  BY <1>3 DEF PacketHolds, Settles
<1>7. IncomingNamed /\ OutgoingKnown /\ CarefulArrivals
  BY <1>2, <1>3 DEF IncomingNamed, OutgoingKnown, CarefulArrivals
<1>8. LendingShape
  BY <1>3, <1>6, <1>7 DEF LendingShape, SettledOnce
<1> QED BY <1>1, <1>5, <1>8 DEF ReceiveInv

\* An answer takes at most the token that its packet settles, and what it
\* takes, unless it has been exposed, is neither lent nor settled by another
\* packet.
LEMMA AnswerStep ==
    ASSUME ReceiveInv, NEW s \in Slots, sent' = [sent EXCEPT ![s] = None],
           ContractsKept, NEW K, OwnersKept(K),
           \A y \in DOMAIN world.nftContract : \A u :
             <<world.nftContract[y], u>> \in K => Settles(s) /\ TokenOf(s) = <<y, u>>,
           \A key \in DOMAIN outgoing' :
             key \in DOMAIN outgoing /\ outgoing'[key] = outgoing[key],
           \A key \in DOMAIN outgoing :
             key \in DOMAIN outgoing' \/ (Settles(s) /\ TokenOf(s) = key),
           \A key \in DOMAIN incoming' :
             key \in DOMAIN incoming /\ incoming'[key] = incoming[key],
           UNCHANGED <<arriving, history>>
    PROVE  LendingShape'
<1>0. exposed' = exposed /\ lent' = lent /\ arriving' = arriving
  BY DEF history
<1>1. sent'[s] = None /\ \A r \in Slots : r # s => sent'[r] = sent[r]
  BY DEF ReceiveInv, TypeOK, NetworkType
<1>2. /\ ~Settles(s)'
      /\ \A r \in Slots : r # s =>
           (Settles(r)' <=> Settles(r)) /\ TokenOf(r)' = TokenOf(r)
  BY <1>1, SlotKept DEF Settles
<1>3. ASSUME NEW r \in Slots, r # s, Settles(r), TokenOf(r) \notin exposed
      PROVE  ~(Settles(s) /\ TokenOf(s) = TokenOf(r))
  BY <1>3 DEF ReceiveInv, LendingShape, SettledOnce
<1>4. ASSUME NEW r \in Slots PROVE PacketHolds(r)'
  <2>1. CASE r = s
    BY <1>1, <2>1 DEF PacketHolds
  <2>2. CASE r # s
    <3>1. PacketHolds(r)
      BY DEF ReceiveInv, LendingShape
    <3>2. ASSUME sent[r] # None, TokenOf(r) \notin exposed
          PROVE  /\ Settles(r) => <<world.nftContract[TokenOf(r)[1]], TokenOf(r)[2]>> \notin K
                 /\ sent[r].phase = "sent" => /\ Has(outgoing', TokenOf(r))
                                              /\ outgoing'[TokenOf(r)] = outgoing[TokenOf(r)]
      <4>1. /\ TokenOf(r)[1] \in DOMAIN world.nftContract
            /\ TokenOf(r) = <<TokenOf(r)[1], TokenOf(r)[2]>>
            /\ sent[r].phase = "sent" => Settles(r) /\ Has(outgoing, TokenOf(r))
        BY <3>1, <3>2, PacketTells
      <4>2. Settles(r) => <<world.nftContract[TokenOf(r)[1]], TokenOf(r)[2]>> \notin K
        BY <1>3, <2>2, <3>2, <4>1
      <4>3. sent[r].phase = "sent" => Has(outgoing', TokenOf(r))
        BY <1>3, <2>2, <3>2, <4>1 DEF Has
      <4> QED BY <4>2, <4>3 DEF Has
    <3>3. sent'[r] = sent[r]
      BY <1>1, <2>2
    <3> QED BY <1>0, <3>1, <3>2, <3>3, PacketKept
  <2> QED BY <2>1, <2>2
<1>5. SettledOnce'
  BY <1>0, <1>2 DEF ReceiveInv, LendingShape, SettledOnce
<1>6. ASSUME NEW l \in lent, <<l[2], l[3]>> \notin exposed PROVE LentHeld(l)'
  <2> DEFINE key == <<l[2], l[3]>>
  <2>1. LentHeld(l) /\ l[2] \in DOMAIN world.nftContract /\ Has(outgoing, key)
    BY <1>6, LentTells
  <2>2. ~(Settles(s) /\ TokenOf(s) = key)
    BY <2>1 DEF LentHeld
  <2>3. <<world.nftContract[l[2]], l[3]>> \notin K
    BY <2>1, <2>2
  <2>4. \A r \in Slots : Settles(r)' => TokenOf(r)' # key
    BY <1>2, <2>1 DEF LentHeld
  <2>5. Has(outgoing', key) /\ outgoing'[key] = outgoing[key]
    <3> HIDE DEF key
    <3> QED BY <2>1, <2>2 DEF Has
  <2> QED BY <2>1, <2>3, <2>4, <2>5, LentKept
<1>7. IncomingNamed'
  BY DEF ReceiveInv, LendingShape, IncomingNamed
<1>8. OutgoingKnown'
  BY <1>0, OutgoingKept DEF ReceiveInv, LendingShape
<1>9. CarefulArrivals'
  BY <1>0, ArrivalsKept DEF ReceiveInv, LendingShape
<1> QED BY <1>0, <1>4, <1>5, <1>6, <1>7, <1>8, <1>9 DEF LendingShape

LEMMA ForgetType ==
    ASSUME TypeOK, NEW s \in Slots, sent' = [sent EXCEPT ![s] = None],
           WorldType(world)', UNCHANGED <<po, open, arriving, history>>,
           NEW key, outgoing' = outgoing \/ outgoing' = Remove(outgoing, key),
           incoming' = incoming \/ incoming' = Remove(incoming, key)
    PROVE  TypeOK'
<1>1. IsMap(outgoing', ClassTokens, Channels)
  <2>1. CASE outgoing' = outgoing
    BY <2>1 DEF TypeOK
  <2>2. CASE outgoing' = Remove(outgoing, key)
    BY <2>2 DEF TypeOK, IsMap, Remove
  <2> QED BY <2>1, <2>2
<1>2. IsMap(incoming', ClassTokens, Channels)
  <2>1. CASE incoming' = incoming
    BY <2>1 DEF TypeOK
  <2>2. CASE incoming' = Remove(incoming, key)
    BY <2>2 DEF TypeOK, IsMap, Remove
  <2> QED BY <2>1, <2>2
<1>3. sent' \in [Slots -> SentPacket \cup {None}]
  BY DEF TypeOK, NetworkType
<1> QED BY <1>1, <1>2, <1>3 DEF TypeOK, NetworkType, history

\* handle_packet_fail: the token goes back to the sender.  If the bridge no
\* longer has it, the answer cannot be processed.
LEMMA FailStep ==
    ASSUME ReceiveInv, NEW s \in Slots, sent[s] # None, sent[s].phase # "ok",
           handle_packet_fail(s), Forget(s), UNCHANGED <<po, open, arriving, history>>
    PROVE  ReceiveInv'
<1>1. PICK p : p = sent[s]
  OBVIOUS
<1> DEFINE x == p.data.class_id
           t == SentToken(p)
           k == world.nftContract[x]
<1>2. /\ world' = Cw721Transfer(world, k, t, Bridge, p.sender)
      /\ Cw721Transfer(world, k, t, Bridge, p.sender) # Error
      /\ Has(world.nftContract, x)
      /\ outgoing' = Remove(outgoing, <<x, t>>) /\ incoming' = incoming
      /\ sent' = [sent EXCEPT ![s] = None]
  BY <1>1 DEF handle_packet_fail, Forget
<1>3. p.sender \in Users
  <2>1. p \in SentPacket
    BY <1>1 DEF ReceiveInv, TypeOK, NetworkType
  <2> QED BY <2>1 DEF SentPacket
<1>4. /\ Settles(s) /\ TokenOf(s) = <<x, t>> /\ OwnedBy(world, k, t, Bridge)
  <2>1. OwnedBy(world, k, t, Bridge)
    BY <1>2 DEF Cw721Transfer
  <2> QED BY <1>1, <2>1 DEF Settles, TokenOf
<1> HIDE DEF x, t
<1>5. WorldType(world) /\ WorldShape(world)
  BY DEF ReceiveInv, TypeOK
<1>6. /\ WorldType(world') /\ WorldShape(world')
      /\ world'.nftContract = world.nftContract
      /\ DOMAIN world'.nfts = DOMAIN world.nfts
      /\ \A kt \in DOMAIN world.nfts : kt # <<k, t>> => world'.nfts[kt] = world.nfts[kt]
  BY <1>2, <1>3, <1>4, <1>5, TransferKeeps
<1>7. ContractsKept /\ OwnersKept({<<k, t>>})
  BY <1>6 DEF ContractsKept, OwnersKept, Has
<1>8. ASSUME NEW y \in DOMAIN world.nftContract, NEW u,
             <<world.nftContract[y], u>> \in {<<k, t>>}
      PROVE  Settles(s) /\ TokenOf(s) = <<y, u>>
  BY <1>2, <1>4, <1>5, <1>8, ContractUnique DEF Has
<1>9. /\ \A key \in DOMAIN outgoing' :
           key \in DOMAIN outgoing /\ outgoing'[key] = outgoing[key]
      /\ \A key \in DOMAIN outgoing :
           key \in DOMAIN outgoing' \/ (Settles(s) /\ TokenOf(s) = key)
  BY <1>2, <1>4 DEF Remove
<1>10. LendingShape'
  BY <1>2, <1>7, <1>8, <1>9, AnswerStep
<1>11. TypeOK'
  BY <1>2, <1>6, ForgetType DEF ReceiveInv
<1> QED BY <1>6, <1>10, <1>11 DEF ReceiveInv

LEMMA TimeoutStep ==
    ASSUME ReceiveInv, NEW s \in Slots, ibc_packet_timeout(s)
    PROVE  ReceiveInv'
BY FailStep DEF ibc_packet_timeout

\* The acknowledgement of a success: the voucher that went back is burned.
LEMMA AckStep ==
    ASSUME ReceiveInv, NEW s \in Slots, ibc_packet_ack(s)
    PROVE  ReceiveInv'
<1>1. /\ sent[s] # None /\ sent[s].phase # "sent" /\ Forget(s)
      /\ UNCHANGED <<po, open, arriving, history>>
      /\ IF sent[s].phase = "fail" THEN handle_packet_fail(s) ELSE AckSuccess(s)
  BY DEF ibc_packet_ack
<1>2. CASE sent[s].phase = "fail"
  BY <1>1, <1>2, FailStep
<1>3. CASE sent[s].phase # "fail"
  <2>1. PICK p : p = sent[s]
    OBVIOUS
  <2> DEFINE x == p.data.class_id
             t == SentToken(p)
             k == world.nftContract[x]
             v == Cw721Burn([world EXCEPT !.metadata = Remove(@, <<x, t>>)], k, t, Bridge)
  <2>2. /\ Has(world.nftContract, x) /\ outgoing' = outgoing
        /\ sent' = [sent EXCEPT ![s] = None]
        /\ ReturnedToSource(p) =>
             v # Error /\ world' = v /\ incoming' = Remove(incoming, <<x, t>>)
        /\ ~ReturnedToSource(p) => world' = world /\ incoming' = incoming
    BY <1>1, <1>3, <2>1 DEF AckSuccess, Forget
  <2>3. WorldType(world) /\ WorldShape(world)
    BY DEF ReceiveInv, TypeOK
  <2>4. /\ \A key \in DOMAIN outgoing' :
             key \in DOMAIN outgoing /\ outgoing'[key] = outgoing[key]
        /\ \A key \in DOMAIN outgoing :
             key \in DOMAIN outgoing' \/ (Settles(s) /\ TokenOf(s) = key)
        /\ \A key \in DOMAIN incoming' :
             key \in DOMAIN incoming /\ incoming'[key] = incoming[key]
    <3> HIDE DEF v
    <3> QED BY <2>2 DEF Remove
  <2>5. CASE ReturnedToSource(p)
    <3>1. Settles(s) /\ TokenOf(s) = <<x, t>>
      <4>1. Has(incoming, <<x, t>>) /\ incoming[<<x, t>>] = p.channel
        BY <2>5 DEF ReturnedToSource
      <4>2. HasPrefix(Here(p.channel), <<x, t>>[1])
        BY <4>1 DEF ReceiveInv, LendingShape, IncomingNamed, Has
      <4> QED BY <1>1, <2>1, <4>2 DEF Settles, TokenOf
    <3>2. OwnedBy(world, k, t, Bridge)
      <4> DEFINE m == Remove(world.metadata, <<x, t>>)
                 u == [world EXCEPT !.metadata = m]
      <4>1. OwnedBy(u, k, t, Bridge)
        <5> HIDE DEF k, u
        <5> QED BY <2>2, <2>5 DEF Cw721Burn, u
      <4>2. u.nfts = world.nfts
        <5> HIDE DEF m
        <5>1. IsWorld(world)
          BY <2>3, WorldIsWorld
        <5> QED BY <5>1, ExceptMetadata DEF WithMetadata
      <4> HIDE DEF u, k
      <4> QED BY <4>1, <4>2 DEF OwnedBy, Exists
    <3> HIDE DEF x, t
    <3>3. /\ WorldType(world') /\ WorldShape(world')
          /\ world'.nftContract = world.nftContract
          /\ DOMAIN world'.nfts = DOMAIN world.nfts \ {<<k, t>>}
          /\ \A kt \in DOMAIN world.nfts : kt # <<k, t>> => world'.nfts[kt] = world.nfts[kt]
      <4>1. /\ WorldType(v) /\ WorldShape(v)
            /\ v.nftContract = world.nftContract
            /\ DOMAIN v.nfts = DOMAIN world.nfts \ {<<k, t>>}
            /\ \A kt \in DOMAIN world.nfts : kt # <<k, t>> => v.nfts[kt] = world.nfts[kt]
        BY <2>2, <2>3, <3>2, ReturnKeeps
      <4>2. world' = v
        BY <2>2, <2>5
      <4> HIDE DEF v
      <4> QED BY <4>1, <4>2
    <3>4. ContractsKept /\ OwnersKept({<<k, t>>})
      BY <3>3 DEF ContractsKept, OwnersKept, Has
    <3>5. ASSUME NEW y \in DOMAIN world.nftContract, NEW u,
                 <<world.nftContract[y], u>> \in {<<k, t>>}
          PROVE  Settles(s) /\ TokenOf(s) = <<y, u>>
      BY <2>2, <2>3, <3>1, <3>5, ContractUnique DEF Has
    <3>6. LendingShape'
      BY <1>1, <2>2, <2>4, <3>4, <3>5, AnswerStep
    <3>7. TypeOK'
      BY <1>1, <2>2, <2>5, <3>3, ForgetType DEF ReceiveInv
    <3> QED BY <3>3, <3>6, <3>7 DEF ReceiveInv
  <2>6. CASE ~ReturnedToSource(p)
    <3>1. world' = world /\ incoming' = incoming
      BY <2>2, <2>6
    <3>2. ContractsKept /\ OwnersKept({})
      BY <3>1 DEF ContractsKept, OwnersKept, Has
    <3>3. LendingShape'
      BY <1>1, <2>2, <2>4, <3>1, <3>2, AnswerStep
    <3>4. WorldType(world)' /\ WorldShape(world)'
      BY <2>3, <3>1
    <3>5. TypeOK'
      BY <1>1, <2>2, <3>1, <3>4, ForgetType DEF ReceiveInv
    <3> QED BY <3>3, <3>4, <3>5 DEF ReceiveInv
  <2> QED BY <2>5, <2>6
<1> QED BY <1>2, <1>3

\* A token that is sent was its owner's: unless it has
\* been exposed, no answer or counterparty waits for it.
LEMMA SendStep ==
    ASSUME ReceiveInv, NEW ch \in Channels, NEW k, NEW t, <<k, t>> \in DOMAIN world.nfts,
           NEW u \in Users, NEW r \in Users, NEW s \in Slots,
           receive_nft(ch, k, t, u, r, s)
    PROVE  ReceiveInv' /\ (SentPacketsValid => SentPacketsValid')
<1>1. PICK class, data, w : /\ class = ClassOfContract(k)
                            /\ data = OutgoingData(class, k, t, r)
                            /\ w = Registered(world, k, class)
  OBVIOUS
<1> DEFINE x == class.id
           key == <<x, t>>
           p == [channel |-> ch, sender |-> u, phase |-> "sent", data |-> data]
<1>2. /\ OwnedBy(world, k, t, u) /\ sent[s] = None
      /\ world' = Cw721Transfer(w, k, t, u, Bridge)
      /\ outgoing' = Save(outgoing, key, ch)
      /\ sent' = [sent EXCEPT ![s] = p]
      /\ exposed' = IF ch \in Careful THEN exposed ELSE exposed \cup {key}
      /\ UNCHANGED <<incoming, po, open, arriving, lent>>
  BY <1>1 DEF receive_nft
<1>3. WorldType(world) /\ WorldShape(world) /\ Exists(world, k, t)
  BY <1>2 DEF ReceiveInv, TypeOK, OwnedBy
<1>4. /\ class \in ClassInfo /\ WorldType(w) /\ WorldShape(w)
      /\ w.nfts = world.nfts /\ w.metadata = world.metadata
      /\ Has(w.nftContract, x) /\ w.nftContract[x] = k
      /\ \A y \in DOMAIN world.nftContract :
           Has(w.nftContract, y) /\ w.nftContract[y] = world.nftContract[y]
  BY <1>1, <1>3, RegisteredKeeps
<1>5. OwnedBy(w, k, t, u)
  BY <1>2, <1>4 DEF OwnedBy, Exists
<1>6. /\ WorldType(world') /\ WorldShape(world')
      /\ world'.nftContract = w.nftContract
      /\ DOMAIN world'.nfts = DOMAIN world.nfts
      /\ \A kt \in DOMAIN world.nfts : kt # <<k, t>> => world'.nfts[kt] = world.nfts[kt]
      /\ OwnedBy(world', k, t, Bridge)
  BY <1>2, <1>4, <1>5, TransferKeeps
<1>7. ContractsKept /\ OwnersKept({<<k, t>>})
  BY <1>4, <1>6 DEF ContractsKept, OwnersKept
<1>8. x \in ClassId /\ t \in Tokens /\ key \in ClassTokens
  BY <1>3, <1>4 DEF ClassInfo, ClassTokens, WorldType, IsMap, Exists, Has
\* The bridge did not hold it.
<1>9. ASSUME NEW y, NEW v, Held(y, v)
      PROVE  <<world.nftContract[y], v>> # <<k, t>> /\ <<y, v>> # key
  <2>1. <<world.nftContract[y], v>> # <<k, t>>
    BY <1>2, <1>9, ReceiveAssumption DEF Held, OwnedBy
  <2>2. world.nftContract[y] = w.nftContract[y]
    BY <1>4, <1>9 DEF Held, Has
  <2> QED BY <1>4, <2>1, <2>2
<1>10. /\ data.class_id = x /\ data.class_uri = class.uri /\ data.class_data = class.data
       /\ data.token_ids = <<t>>
       /\ data.token_uris \in Seq(Uris) \cup {None}
       /\ data.token_data \in Seq(Uris) \cup {None}
       /\ data.token_uris # None => Len(data.token_uris) = 1
       /\ data.token_data # None => Len(data.token_data) = 1
       /\ data \in Data
  <2> DEFINE a == world.nfts[<<k, t>>].uri
             b == IF Has(world.metadata, key) THEN world.metadata[key] ELSE None
  <2>1. /\ data.class_id = x /\ data.class_uri = class.uri /\ data.class_data = class.data
        /\ data.token_ids = <<t>> /\ data.receiver = r
        /\ data.token_uris = One(a) /\ data.token_data = One(b)
        /\ data = [class_id |-> data.class_id, class_uri |-> data.class_uri,
                   class_data |-> data.class_data, token_ids |-> data.token_ids,
                   token_uris |-> data.token_uris, token_data |-> data.token_data,
                   receiver |-> data.receiver]
    BY <1>1 DEF OutgoingData
  <2>2. a \in Uris \cup {None}
    <3>1. world.nfts[<<k, t>>] \in Nft
      BY <1>3 DEF WorldType, IsMap
    <3> QED BY <3>1 DEF Nft
  <2>3. b \in Uris \cup {None}
    BY <1>3 DEF WorldType, IsMap, Has
  <2> HIDE DEF a, b
  <2>4. /\ One(a) \in Seq(Uris) \cup {None} /\ (One(a) # None => Len(One(a)) = 1)
        /\ One(b) \in Seq(Uris) \cup {None} /\ (One(b) # None => Len(One(b)) = 1)
    BY <2>2, <2>3 DEF One
  <2>5. class.uri \in Uris \cup {None} /\ class.data \in Uris \cup {None}
    BY <1>4 DEF ClassInfo, Metadata
  <2>6. <<t>> \in Seq(Tokens)
    BY <1>8
  <2> HIDE DEF x
  <2>7. data \in Data
    BY <1>8, <2>1, <2>4, <2>5, <2>6 DEF Data
  <2> QED BY <2>1, <2>4, <2>7 DEF x
<1>11. p \in SentPacket
  BY <1>10 DEF SentPacket
<1>12. sent'[s] = p /\ \A q \in Slots : q # s => sent'[q] = sent[q]
  BY <1>2 DEF ReceiveInv, TypeOK, NetworkType
<1>13. p.data = data /\ p.phase = "sent" /\ p.channel = ch
  OBVIOUS
<1> HIDE DEF p
<1>14. SentToken(p) = t
  BY <1>10, <1>13 DEF SentToken
<1>15. TokenOf(s)' = key /\ ~Settles(s)
  BY <1>2, <1>10, <1>12, <1>13, <1>14 DEF Settles, TokenOf, SentToken
<1>16. \A q \in Slots : q # s => (Settles(q)' <=> Settles(q)) /\ TokenOf(q)' = TokenOf(q)
  BY <1>12, SlotKept
<1>17. \A y : /\ y # key => (Has(outgoing', y) <=> Has(outgoing, y))
              /\ y # key /\ Has(outgoing, y) => outgoing'[y] = outgoing[y]
              /\ Has(outgoing', key) /\ outgoing'[key] = ch
  <2> HIDE DEF key
  <2> QED BY <1>2 DEF Save, Has
<1>18. /\ exposed \subseteq exposed' /\ exposed' \subseteq ClassTokens
       /\ key \notin exposed' => ch \in Careful
  <2> HIDE DEF key
  <2> QED BY <1>2, <1>8 DEF ReceiveInv, TypeOK, NetworkType
<1>18b. ASSUME NEW q \in Slots, Settles(q), TokenOf(q) \notin exposed
       PROVE  /\ TokenOf(q) # key
              /\ <<world.nftContract[TokenOf(q)[1]], TokenOf(q)[2]>> # <<k, t>>
  <2>1. sent[q] # None /\ PacketHolds(q)
    BY <1>18b DEF ReceiveInv, LendingShape, Settles
  <2>2. /\ Held(TokenOf(q)[1], TokenOf(q)[2])
        /\ TokenOf(q) = <<TokenOf(q)[1], TokenOf(q)[2]>>
    BY <1>18b, <2>1, PacketTells
  <2> QED BY <1>9, <2>2
<1>19. ASSUME NEW q \in Slots PROVE PacketHolds(q)'
  <2>1. CASE q = s
    <3>1. Has(world'.nftContract, x) /\ world'.nftContract[x] = k
      BY <1>4, <1>6
    <3>2. Held(x, t)'
      BY <1>6, <3>1 DEF Held
    <3> QED BY <1>8, <1>10, <1>12, <1>13, <1>14, <1>15, <1>17, <1>18, <2>1, <3>1, <3>2
            DEF PacketHolds, TokenOf, SentToken
  <2>2. CASE q # s
    <3>1. PacketHolds(q)
      BY DEF ReceiveInv, LendingShape
    <3>2. ASSUME sent[q] # None, TokenOf(q) \notin exposed'
          PROVE  /\ Settles(q) => <<world.nftContract[TokenOf(q)[1]], TokenOf(q)[2]>>
                                    \notin {<<k, t>>}
                 /\ sent[q].phase = "sent" => /\ Has(outgoing', TokenOf(q))
                                              /\ outgoing'[TokenOf(q)] = outgoing[TokenOf(q)]
      <4>1. /\ TokenOf(q) \notin exposed
            /\ sent[q].phase = "sent" => Settles(q) /\ Has(outgoing, TokenOf(q))
        BY <1>18, <3>1, <3>2, PacketTells
      <4> QED BY <1>17, <1>18b, <4>1
    <3>4. sent'[q] = sent[q]
      BY <1>12, <2>2
    <3> QED BY <1>7, <1>18, <3>1, <3>2, <3>4, PacketKept
  <2> QED BY <2>1, <2>2
<1>20. SettledOnce'
  BY <1>15, <1>16, <1>18, <1>18b DEF ReceiveInv, LendingShape, SettledOnce
<1>21. ASSUME NEW l \in lent, <<l[2], l[3]>> \notin exposed' PROVE LentHeld(l)'
  <2>1. LentHeld(l) /\ Held(l[2], l[3]) /\ Has(outgoing, <<l[2], l[3]>>)
    BY <1>18, <1>21, LentTells
  <2>2. <<world.nftContract[l[2]], l[3]>> \notin {<<k, t>>} /\ <<l[2], l[3]>> # key
    BY <1>9, <2>1
  <2>3. \A q \in Slots : Settles(q)' => TokenOf(q)' # <<l[2], l[3]>>
    BY <1>15, <1>16, <2>1, <2>2 DEF LentHeld
  <2> QED BY <1>7, <1>17, <2>1, <2>2, <2>3, LentKept
<1>22. IncomingNamed'
  BY <1>2 DEF ReceiveInv, LendingShape, IncomingNamed
<1>23. OutgoingKnown'
  <2> SUFFICES ASSUME NEW y \in DOMAIN outgoing'
               PROVE  /\ Has(world'.nftContract, y[1])
                      /\ y \in exposed' \/ outgoing'[y] \in Careful
    BY DEF OutgoingKnown
  <2>1. CASE y = key
    <3>1. y[1] = x
      BY <2>1
    <3> QED BY <1>4, <1>6, <1>17, <1>18, <2>1, <3>1
  <2>2. CASE y # key
    <3>1. y \in DOMAIN outgoing /\ outgoing'[y] = outgoing[y]
      BY <1>17, <2>2 DEF Has
    <3>2. Has(world.nftContract, y[1]) /\ (y \in exposed \/ outgoing[y] \in Careful)
      BY <3>1 DEF ReceiveInv, LendingShape, OutgoingKnown
    <3> QED BY <1>7, <1>18, <3>1, <3>2 DEF ContractsKept, Has
  <2> QED BY <2>1, <2>2
<1>24. CarefulArrivals'
  BY <1>2, ArrivalsKept DEF ReceiveInv, LendingShape
<1>25. LendingShape'
  BY <1>2, <1>19, <1>20, <1>21, <1>22, <1>23, <1>24 DEF LendingShape
<1>26. TypeOK'
  <2>1. IsMap(outgoing', ClassTokens, Channels)
    <3>1. IsMap(outgoing, ClassTokens, Channels)
      BY DEF ReceiveInv, TypeOK
    <3> HIDE DEF key
    <3> QED BY <1>2, <1>8, <3>1 DEF IsMap, Save
  <2>2. sent' \in [Slots -> SentPacket \cup {None}]
    BY <1>2, <1>11 DEF ReceiveInv, TypeOK, NetworkType
  <2> QED BY <1>2, <1>6, <1>18, <2>1, <2>2 DEF ReceiveInv, TypeOK, NetworkType
<1>27. ASSUME SentPacketsValid PROVE SentPacketsValid'
  <2>1. Empty \notin {x.base, class.uri, class.data}
    <3>1. x.base # Empty
      BY <1>8, ReceiveAssumption DEF ClassId
    <3>2. class.uri # Empty /\ class.data # Empty
      BY <1>4, NoneAssumption DEF ClassInfo, Metadata
    <3> QED BY <3>1, <3>2
  <2>2. Len(data.token_ids) = 1
    BY <1>10
  <2>3. sent'[s].data = data
    BY <1>12, <1>13
  <2>4. ASSUME NEW q \in Slots, sent'[q] # None
        PROVE  /\ Empty \notin {sent'[q].data.class_id.base, sent'[q].data.class_uri,
                                sent'[q].data.class_data}
               /\ \A list \in {sent'[q].data.token_uris, sent'[q].data.token_data} :
                    list # None => Len(list) = Len(sent'[q].data.token_ids)
    <3>1. CASE q = s
      BY <1>10, <2>1, <2>2, <2>3, <3>1
    <3>2. CASE q # s
      BY <1>12, <1>27, <2>4, <3>2 DEF SentPacketsValid
    <3> QED BY <3>1, <3>2
  <2> QED BY <2>4 DEF SentPacketsValid
<1> QED BY <1>6, <1>25, <1>26, <1>27 DEF ReceiveInv

\* What a counterparty accepts of the bridge's own is lent to it from then on.
LEMMA AnsweredStep ==
    ASSUME ReceiveInv, NEW s \in Slots, NEW result \in {"ok", "fail"},
           NEW copies \in BOOLEAN, CounterpartyAnswers(s, result, copies)
    PROVE  ReceiveInv'
<1>1. PICK p : p = sent[s]
  OBVIOUS
<1> DEFINE x == p.data.class_id
           t == SentToken(p)
           key == <<x, t>>
           new == <<p.channel, x, t>>
           back == HasPrefix(Here(p.channel), x)
<1>2. /\ p # None /\ p.phase = "sent" /\ sent' = [sent EXCEPT ![s].phase = result]
      /\ lent' = IF result = "ok" /\ p.channel \in Careful /\ (back => copies)
                 THEN lent \cup {new} ELSE lent
      /\ exposed' = IF copies THEN exposed \cup {key} ELSE exposed
      /\ UNCHANGED <<bridgeState, po, open, arriving>>
  BY <1>1 DEF CounterpartyAnswers
<1>3. world' = world /\ outgoing' = outgoing /\ incoming' = incoming
  BY <1>2 DEF bridgeState
<1>4. p \in SentPacket
  BY <1>1, <1>2 DEF ReceiveInv, TypeOK, NetworkType
<1>5. PICK q : q = [p EXCEPT !.phase = result]
  OBVIOUS
<1>6. /\ q \in SentPacket /\ q.phase = result /\ q.channel = p.channel
      /\ q.data = p.data
  BY <1>4, <1>5 DEF SentPacket
<1>7. sent'[s] = q /\ \A r \in Slots : r # s => sent'[r] = sent[r]
  BY <1>1, <1>2, <1>5 DEF ReceiveInv, TypeOK, NetworkType
<1>8. /\ Settles(s) /\ TokenOf(s) = key /\ TokenOf(s)' = key
      /\ Settles(s)' => result # "ok" \/ back
      /\ SentToken(q) = t
  BY <1>1, <1>2, <1>6, <1>7 DEF Settles, TokenOf, SentToken
<1>9. \A r \in Slots : r # s => (Settles(r)' <=> Settles(r)) /\ TokenOf(r)' = TokenOf(r)
  BY <1>7, SlotKept
<1>10. ContractsKept /\ OwnersKept({}) /\ exposed \subseteq exposed' /\ lent \subseteq lent'
  BY <1>2, <1>3 DEF ContractsKept, OwnersKept, Has
<1>11. /\ x \in ClassId /\ p.data.token_ids = <<t>> /\ Has(world.nftContract, x)
       /\ key \notin exposed =>
            /\ p.channel \in Careful /\ Held(x, t)
            /\ Has(outgoing, key) /\ outgoing[key] = p.channel
  BY <1>1, <1>2, <1>8 DEF ReceiveInv, LendingShape, PacketHolds
<1> HIDE DEF x, t, back
<1>12. key \notin exposed' => Held(x, t)'
  BY <1>3, <1>10, <1>11 DEF Held
<1>13. ASSUME NEW r \in Slots PROVE PacketHolds(r)'
  <2>1. CASE r = s
    <3>1. sent'[r].data.class_id = x /\ SentToken(sent'[r]) = t /\ TokenOf(r)' = key
          /\ sent'[r].channel = p.channel /\ sent'[r].data.token_ids = <<t>>
      BY <1>6, <1>7, <1>8, <1>11, <2>1 DEF x
    <3>2. Has(world'.nftContract, x) /\ x \in ClassId
      BY <1>3, <1>11
    <3>3. key \notin exposed' => p.channel \in Careful /\ Held(x, t)'
                                 /\ Has(outgoing', key) /\ outgoing'[key] = p.channel
      BY <1>3, <1>10, <1>11, <1>12
    <3> HIDE DEF key
    <3> QED BY <3>1, <3>2, <3>3 DEF PacketHolds
  <2>2. CASE r # s
    <3>1. PacketHolds(r) /\ sent'[r] = sent[r]
      BY <1>7, <2>2 DEF ReceiveInv, LendingShape
    <3>2. sent[r] # None /\ TokenOf(r) \notin exposed' /\ sent[r].phase = "sent" =>
            Has(outgoing, TokenOf(r))
      BY <1>10, <3>1, PacketTells
    <3> QED BY <1>3, <1>10, <3>1, <3>2, PacketKept
  <2> QED BY <2>1, <2>2
<1>14. SettledOnce'
  BY <1>8, <1>9, <1>10 DEF ReceiveInv, LendingShape, SettledOnce
<1>15. ASSUME NEW l \in lent, <<l[2], l[3]>> \notin exposed' PROVE LentHeld(l)'
  <2>1. LentHeld(l) /\ Has(outgoing, <<l[2], l[3]>>)
    BY <1>10, <1>15, LentTells
  <2>2. \A r \in Slots : Settles(r)' => TokenOf(r)' # <<l[2], l[3]>>
    BY <1>8, <1>9, <2>1 DEF LentHeld
  <2> QED BY <1>3, <1>10, <2>1, <2>2, LentKept
<1>16. ASSUME new \in lent', new \notin lent, key \notin exposed' PROVE LentHeld(new)'
  <2>1. new[1] = p.channel /\ new[2] = x /\ new[3] = t /\ <<new[2], new[3]>> = key
    OBVIOUS
  <2>0. result = "ok" /\ ~back /\ key \notin exposed
    BY <1>2, <1>10, <1>16
  <2>2. \A r \in Slots : Settles(r)' => TokenOf(r)' # key
    <3> SUFFICES ASSUME NEW r \in Slots, Settles(r)' PROVE TokenOf(r)' # key
      OBVIOUS
    <3>1. r # s
      BY <1>8, <2>0
    <3>2. Settles(r) /\ TokenOf(r)' = TokenOf(r)
      BY <1>9, <3>1
    <3> HIDE DEF key
    <3> QED BY <1>8, <2>0, <3>1, <3>2 DEF ReceiveInv, LendingShape, SettledOnce
  <2>3. /\ Held(x, t)' /\ Has(outgoing', key) /\ outgoing'[key] = p.channel
    BY <1>3, <1>11, <1>12, <1>16, <2>0
  <2> HIDE DEF new, key
  <2> QED BY <2>1, <2>2, <2>3 DEF LentHeld
<1>17. ASSUME NEW l \in lent', <<l[2], l[3]>> \notin exposed' PROVE LentHeld(l)'
  <2>1. CASE l \in lent
    BY <1>15, <1>17, <2>1
  <2>2. CASE l \notin lent
    <3>1. l = new
      BY <1>2, <1>17, <2>2
    <3>2. <<new[2], new[3]>> = key
      OBVIOUS
    <3> HIDE DEF new, key
    <3>3. LentHeld(new)'
      BY <1>16, <1>17, <2>2, <3>1, <3>2
    <3> QED BY <3>1, <3>3
  <2> QED BY <2>1, <2>2
<1>18. IncomingNamed'
  BY <1>3 DEF ReceiveInv, LendingShape, IncomingNamed
<1>19. OutgoingKnown'
  BY <1>3, <1>10, OutgoingKept DEF ReceiveInv, LendingShape
<1>20. CarefulArrivals'
  BY <1>2, <1>10, ArrivalsKept DEF ReceiveInv, LendingShape
<1>21. LendingShape'
  BY <1>13, <1>14, <1>17, <1>18, <1>19, <1>20 DEF LendingShape
<1>22. TypeOK'
  <2>1. t \in Tokens
    <3>1. p.data \in Data
      BY <1>4 DEF SentPacket
    <3>2. p.data.token_ids \in Seq(Tokens)
      BY <3>1 DEF Data
    <3> QED BY <1>11, <3>2
  <2>2. lent' \subseteq Careful \X ClassId \X Tokens
    <3>1. p.channel \in Careful => new \in Careful \X ClassId \X Tokens
      BY <1>11, <2>1
    <3> HIDE DEF new
    <3> QED BY <1>2, <3>1 DEF ReceiveInv, TypeOK, NetworkType
  <2>3. sent' \in [Slots -> SentPacket \cup {None}]
    BY <1>1, <1>2, <1>5, <1>6 DEF ReceiveInv, TypeOK, NetworkType
  <2>4. exposed' \subseteq ClassTokens
    <3>1. key \in ClassTokens
      BY <1>11, <2>1 DEF ClassTokens
    <3> HIDE DEF key
    <3> QED BY <1>2, <3>1 DEF ReceiveInv, TypeOK, NetworkType
  <2> QED BY <1>2, <1>3, <2>2, <2>3, <2>4 DEF ReceiveInv, TypeOK, NetworkType
<1> QED BY <1>3, <1>21, <1>22 DEF ReceiveInv

LEMMA SendsStep ==
    ASSUME ReceiveInv, NEW i \in Arrivals, NEW ch \in Channels, NEW data \in Offers,
           CounterpartySends(i, ch, data)
    PROVE  ReceiveInv'
<1>1. PICK p : p = [channel |-> ch, data |-> data]
  OBVIOUS
<1>2. /\ arriving[i] = None /\ (ch \in Careful => CarefulOffer(p))
      /\ arriving' = [arriving EXCEPT ![i] = p]
      /\ UNCHANGED <<bridgeState, po, open, sent, history>>
  BY <1>1 DEF CounterpartySends
<1>3. p.channel = ch /\ p.data = data /\ p \in ArrivingPacket
  <2>1. data \in Data \cup {Garbage}
    BY ReceiveAssumption
  <2> QED BY <1>1, <2>1 DEF ArrivingPacket
<1>4. arriving \in [Arrivals -> ArrivingPacket \cup {None}]
  BY DEF ReceiveInv, TypeOK, NetworkType
<1>5. /\ arriving'[i] = p /\ \A j \in Arrivals : j # i => arriving'[j] = arriving[j]
      /\ arriving' \in [Arrivals -> ArrivingPacket \cup {None}]
  BY <1>2, <1>3, <1>4
<1>6. lent' = lent
  BY <1>2 DEF history
<1>7. CarefulArrivals'
  <2> SUFFICES ASSUME NEW j \in Arrivals, arriving'[j] # None,
                      arriving'[j].channel \in Careful, Claims(arriving'[j]) # {}
               PROVE  /\ GivenBack(arriving'[j]) \subseteq lent'
                      /\ SeqExt!IsInjective(arriving'[j].data.token_ids)
                      /\ \A a \in Arrivals \ {j} :
                           arriving'[a] # None
                           /\ arriving'[a].channel = arriving'[j].channel =>
                             Claims(arriving'[a]) \cap Claims(arriving'[j]) = {}
    BY DEF CarefulArrivals
  <2>0. ch \in Careful /\ Claims(p) # {} =>
          /\ GivenBack(p) \subseteq lent
          /\ SeqExt!IsInjective(p.data.token_ids)
          /\ \A a \in Arrivals : arriving[a] # None /\ arriving[a].channel = ch =>
               Claims(arriving[a]) \cap Claims(p) = {}
    BY <1>2, <1>3 DEF CarefulOffer
  <2>1. CASE j = i
    <3>1. ASSUME NEW a \in Arrivals \ {j}, arriving'[a] # None,
                 arriving'[a].channel = ch
          PROVE  Claims(arriving'[a]) \cap Claims(p) = {}
      BY <1>3, <1>5, <2>0, <2>1, <3>1
    <3> QED BY <1>3, <1>5, <1>6, <2>0, <2>1, <3>1
  <2>2. CASE j # i
    <3>1. PICK q : q = arriving[j] /\ q = arriving'[j]
      BY <1>5, <2>2
    <3>2. /\ GivenBack(q) \subseteq lent
          /\ SeqExt!IsInjective(q.data.token_ids)
          /\ \A a \in Arrivals \ {j} :
               arriving[a] # None /\ arriving[a].channel = q.channel =>
                 Claims(arriving[a]) \cap Claims(q) = {}
      BY <3>1 DEF ReceiveInv, LendingShape, CarefulArrivals
    <3>3. ASSUME NEW a \in Arrivals \ {j}, arriving'[a] # None,
                 arriving'[a].channel = q.channel
          PROVE  Claims(arriving'[a]) \cap Claims(q) = {}
      <4>1. CASE a = i
        <5>1. arriving'[a] = p /\ ch \in Careful /\ q.channel = ch
          BY <1>3, <1>5, <3>1, <3>3, <4>1
        <5>2. Claims(p) # {} => Claims(q) \cap Claims(p) = {}
          BY <2>0, <3>1, <5>1
        <5> QED BY <5>1, <5>2
      <4>2. CASE a # i
        BY <1>5, <3>2, <3>3, <4>2
      <4> QED BY <4>1, <4>2
    <3> QED BY <1>6, <3>1, <3>2, <3>3
  <2> QED BY <2>1, <2>2
<1>8. WorldShape(world)' /\ LendingShape'
  BY <1>2, <1>7, QuietStep
<1>9. TypeOK'
  BY <1>2, <1>5 DEF ReceiveInv, TypeOK, NetworkType, bridgeState, history
<1> QED BY <1>8, <1>9 DEF ReceiveInv

\* Packets that are lost on their way.
LEMMA ArrivalsLost ==
    ASSUME ReceiveInv, UNCHANGED <<bridgeState, po, sent, history>>, open' \subseteq open,
           arriving' = [i \in Arrivals |-> arriving'[i]],
           \A i \in Arrivals : arriving'[i] = arriving[i] \/ arriving'[i] = None
    PROVE  ReceiveInv'
<1>1. lent' = lent /\ exposed' = exposed
  BY DEF history
<1>2. CarefulArrivals'
  BY <1>1, ArrivalsKept DEF ReceiveInv, LendingShape
<1>3. WorldShape(world)' /\ LendingShape'
  BY <1>2, QuietStep
<1>4. \A i \in Arrivals : arriving'[i] \in ArrivingPacket \cup {None}
  BY DEF ReceiveInv, TypeOK, NetworkType
<1>5. arriving' \in [Arrivals -> ArrivingPacket \cup {None}]
  BY <1>4
<1>6. TypeOK'
  BY <1>1, <1>5 DEF ReceiveInv, TypeOK, NetworkType, bridgeState
<1> QED BY <1>3, <1>6 DEF ReceiveInv

LEMMA TimesOutStep ==
    ASSUME ReceiveInv, NEW i \in Arrivals, CounterpartyTimesOut(i)
    PROVE  ReceiveInv'
<1>1. /\ arriving' = [arriving EXCEPT ![i] = None]
      /\ UNCHANGED <<bridgeState, po, open, sent, history>>
  BY DEF CounterpartyTimesOut
<1>2. arriving = [j \in Arrivals |-> arriving[j]]
  BY DEF ReceiveInv, TypeOK, NetworkType
<1> QED BY <1>1, <1>2, ArrivalsLost

LEMMA CloseStep ==
    ASSUME ReceiveInv, NEW ch \in Channels, ibc_channel_close(ch)
    PROVE  ReceiveInv'
<1>1. /\ open' = open \ {ch} /\ UNCHANGED <<bridgeState, po, sent, history>>
      /\ arriving' = [i \in Arrivals |->
                        IF arriving[i] # None /\ arriving[i].channel = ch THEN None
                        ELSE arriving[i]]
  BY DEF ibc_channel_close
<1>2. /\ \A i \in Arrivals : arriving'[i] = arriving[i] \/ arriving'[i] = None
      /\ arriving' = [i \in Arrivals |-> arriving'[i]]
  BY <1>1
<1> QED BY <1>1, <1>2, ArrivalsLost

LEMMA GovernanceStep ==
    ASSUME ReceiveInv, po' \in PauseState, UNCHANGED <<bridgeState, network, history>>
    PROVE  ReceiveInv'
<1>1. UNCHANGED <<bridgeState, open, sent, arriving, lent, exposed>>
  BY DEF network, history
<1>2. CarefulArrivals'
  BY <1>1, ArrivalsKept DEF ReceiveInv, LendingShape
<1>3. WorldShape(world)' /\ LendingShape'
  BY <1>1, <1>2, QuietStep
<1>4. TypeOK'
  BY <1>1 DEF ReceiveInv, TypeOK, NetworkType, bridgeState
<1> QED BY <1>3, <1>4 DEF ReceiveInv

LEMMA PauseStep ==
    ASSUME ReceiveInv, (\E a \in Accounts : execute_pause(a))
                       \/ (\E a \in Accounts \cup {None} : migrate(a))
    PROVE  ReceiveInv'
<1>1. po \in PauseState
  BY DEF ReceiveInv, TypeOK
<1>2. ASSUME NEW a \in Accounts, execute_pause(a) PROVE ReceiveInv'
  <2>1. po' = [po EXCEPT !.pauser = None, !.paused = TRUE]
    BY <1>2 DEF execute_pause, pause
  <2>2. po' \in PauseState
    BY <1>1, <2>1 DEF PauseState
  <2> QED BY <1>2, <2>2, GovernanceStep DEF execute_pause
<1>3. ASSUME NEW a \in Accounts \cup {None}, migrate(a) PROVE ReceiveInv'
  <2>1. po' \in PauseState
    BY <1>3 DEF migrate, set_pauser, PauseState
  <2> QED BY <1>3, <2>1, GovernanceStep DEF migrate
<1> QED BY <1>2, <1>3

\* Nobody but the bridge burns what the bridge holds.
LEMMA BurnStep ==
    ASSUME ReceiveInv, NEW k, NEW t, NEW u \in Users, Burn(k, t, u)
    PROVE  ReceiveInv'
<1>1. /\ OwnedBy(world, k, t, u) /\ world' = Cw721Burn(world, k, t, u)
      /\ UNCHANGED <<outgoing, incoming, po, open, sent, arriving, lent, exposed>>
  BY DEF Burn, network, history
<1>2. WorldType(world) /\ WorldShape(world)
  BY DEF ReceiveInv, TypeOK
<1>3. /\ WorldType(world') /\ WorldShape(world')
      /\ world'.nftContract = world.nftContract
      /\ DOMAIN world'.nfts = DOMAIN world.nfts \ {<<k, t>>}
      /\ \A kt \in DOMAIN world.nfts : kt # <<k, t>> => world'.nfts[kt] = world.nfts[kt]
  BY <1>1, <1>2, BurnKeeps
<1>4. ContractsKept /\ OwnersKept({<<k, t>>})
  BY <1>3 DEF ContractsKept, OwnersKept, Has
<1>5. ASSUME NEW y, NEW v, Held(y, v)
      PROVE  <<world.nftContract[y], v>> \notin {<<k, t>>}
  BY <1>1, <1>5, ReceiveAssumption DEF Held, OwnedBy
<1>6. ASSUME NEW s \in Slots PROVE PacketHolds(s)'
  <2>1. PacketHolds(s)
    BY DEF ReceiveInv, LendingShape
  <2>2. sent[s] # None /\ TokenOf(s) \notin exposed =>
          /\ Settles(s) => Held(TokenOf(s)[1], TokenOf(s)[2])
          /\ sent[s].phase = "sent" => Has(outgoing, TokenOf(s))
    BY <2>1, PacketTells
  <2> QED BY <1>1, <1>4, <1>5, <2>1, <2>2, PacketKept
<1>7. \A s : (Settles(s)' <=> Settles(s)) /\ TokenOf(s)' = TokenOf(s)
  BY <1>1, SlotKept
<1>8. SettledOnce'
  BY <1>1, <1>7 DEF ReceiveInv, LendingShape, SettledOnce
<1>9. ASSUME NEW l \in lent, <<l[2], l[3]>> \notin exposed PROVE LentHeld(l)'
  <2>1. LentHeld(l) /\ Held(l[2], l[3]) /\ Has(outgoing, <<l[2], l[3]>>)
    BY <1>9, LentTells
  <2>2. /\ \A s \in Slots : Settles(s)' => TokenOf(s)' # <<l[2], l[3]>>
        /\ <<world.nftContract[l[2]], l[3]>> \notin {<<k, t>>}
    BY <1>5, <1>7, <2>1 DEF LentHeld
  <2> QED BY <1>1, <1>4, <2>1, <2>2, LentKept
<1>10. IncomingNamed'
  BY <1>1 DEF ReceiveInv, LendingShape, IncomingNamed
<1>11. OutgoingKnown' /\ CarefulArrivals'
  BY <1>1, <1>4, OutgoingKept, ArrivalsKept DEF ReceiveInv, LendingShape
<1>12. LendingShape'
  BY <1>1, <1>6, <1>8, <1>9, <1>10, <1>11 DEF LendingShape
<1>13. TypeOK'
  BY <1>1, <1>3 DEF ReceiveInv, TypeOK, NetworkType
<1> QED BY <1>3, <1>12, <1>13 DEF ReceiveInv

LEMMA ReceiveStep ==
    ASSUME ReceiveInv, NEW i \in Arrivals, ibc_packet_receive(i)
    PROVE  ReceiveInv'
<1>1. CASE RejectPacket(arriving[i])
  <2>1. /\ UNCHANGED <<bridgeState, po, open, sent, history>>
        /\ arriving' = [arriving EXCEPT ![i] = None]
    BY <1>1 DEF RejectPacket, ibc_packet_receive
  <2>2. arriving = [j \in Arrivals |-> arriving[j]]
    BY DEF ReceiveInv, TypeOK, NetworkType
  <2> QED BY <2>1, <2>2, ArrivalsLost
<1>2. CASE HandlePacket(arriving[i])
  BY <1>2, HandleStep DEF ibc_packet_receive
<1> QED BY <1>1, <1>2 DEF ibc_packet_receive

LEMMA NextReceive ==
    ASSUME ReceiveInv, [Next]_vars
    PROVE  ReceiveInv'
<1>1. ASSUME NEW i \in Arrivals, ibc_packet_receive(i) \/ CounterpartyTimesOut(i)
      PROVE  ReceiveInv'
  BY <1>1, ReceiveStep, TimesOutStep
<1>2. ASSUME NEW ch \in Channels, NEW kt \in DOMAIN world.nfts, NEW u \in Users,
             NEW r \in Users, NEW s \in Slots, receive_nft(ch, kt[1], kt[2], u, r, s)
      PROVE  ReceiveInv'
  <2>1. <<kt[1], kt[2]>> \in DOMAIN world.nfts
    BY DEF ReceiveInv, TypeOK, WorldType, IsMap
  <2>2. PICK k, t : k = kt[1] /\ t = kt[2]
    OBVIOUS
  <2> QED BY <1>2, <2>1, <2>2, SendStep
<1>3. ASSUME NEW s \in Slots, ibc_packet_ack(s) \/ ibc_packet_timeout(s)
      PROVE  ReceiveInv'
  BY <1>3, AckStep, TimeoutStep
<1>4. ASSUME NEW ch \in Channels, ibc_channel_close(ch) PROVE ReceiveInv'
  BY <1>4, CloseStep
<1>5. ASSUME NEW i \in Arrivals, NEW ch \in Channels, NEW data \in Offers,
             CounterpartySends(i, ch, data)
      PROVE  ReceiveInv'
  BY <1>5, SendsStep
<1>6. ASSUME NEW s \in Slots, NEW result \in {"ok", "fail"}, NEW copies \in BOOLEAN,
             CounterpartyAnswers(s, result, copies)
      PROVE  ReceiveInv'
  BY <1>6, AnsweredStep
<1>7. ASSUME (\E a \in Accounts : execute_pause(a))
             \/ (\E a \in Accounts \cup {None} : migrate(a))
      PROVE  ReceiveInv'
  BY <1>7, PauseStep
<1>8. ASSUME NEW kt \in DOMAIN world.nfts, NEW u \in Users, Burn(kt[1], kt[2], u)
      PROVE  ReceiveInv'
  <2>1. PICK k, t : k = kt[1] /\ t = kt[2]
    OBVIOUS
  <2> QED BY <1>8, <2>1, BurnStep
<1>9. CASE UNCHANGED vars
  <2>1. UNCHANGED <<bridgeState, network, history>> /\ po' = po
    BY <1>9 DEF vars
  <2> QED BY <2>1, GovernanceStep DEF ReceiveInv, TypeOK
<1> QED BY <1>1, <1>2, <1>3, <1>4, <1>5, <1>6, <1>7, <1>8, <1>9 DEF Next

(***************************************************************************)
(* The theorems.                                                           *)
(***************************************************************************)
LEMMA ReceiveInvariant == Spec => []ReceiveInv
<1>1. Init => ReceiveInv
  BY InitReceive
<1>2. ReceiveInv /\ [Next]_vars => ReceiveInv'
  BY NextReceive
<1> QED BY <1>1, <1>2, PTL DEF Spec

\* The storage items and the packets have their types whatever arrives: what
\* is stored of a class is never an empty string, since ibc_packet_receive
\* validates before anything is saved.
THEOREM ReceiveTypeCorrect == Spec => []TypeOK
<1>1. ReceiveInv => TypeOK
  BY DEF ReceiveInv
<1> QED BY <1>1, ReceiveInvariant, PTL

\* Of a token that the bridge holds and that has not been exposed there is at
\* most one of a packet whose answer will take it and a careful counterparty
\* that it is lent to, for any number of channels, of tokens per packet and of
\* packets that are on their way to the bridge and from it.
THEOREM LendingShapeCorrect == Spec => []LendingShape
<1>1. ReceiveInv => LendingShape
  BY DEF ReceiveInv
<1> QED BY <1>1, ReceiveInvariant, PTL

\* What a careful counterparty has been lent, receive_ibc_packet can give back,
\* whatever the others send and however late it arrives, unless the token has
\* been exposed: sent to one of the others, burned after the home of the
\* voucher had lost track of it, or returned in one packet with such a token.
THEOREM LentCorrect == Spec => []LentBacked
<1>1. ReceiveInv => LentBacked
  BY DEF ReceiveInv, LendingShape, LentHeld, Held, LentBacked
<1> QED BY <1>1, ReceiveInvariant, PTL

\* ibc_packet_ack and ibc_packet_timeout find the contract of the class and,
\* unless the token has been exposed, the token to refund or to burn in the
\* hands of the bridge.
THEOREM AnswersCorrect == Spec => []AnswersProcessable
<1>1. ASSUME ReceiveInv, NEW s \in Slots, sent[s] # None
      PROVE  LET p == sent[s] IN
             /\ Has(world.nftContract, p.data.class_id)
             /\ /\ TokenOf(s) \notin exposed
                /\ p.phase # "ok" \/ ReturnedToSource(p)
                => OwnedBy(world, world.nftContract[p.data.class_id], SentToken(p), Bridge)
  <2> DEFINE p == sent[s]
             key == <<p.data.class_id, SentToken(p)>>
  <2>1. PacketHolds(s)
    BY <1>1 DEF ReceiveInv, LendingShape
  <2>2. ASSUME ReturnedToSource(p) PROVE Settles(s)
    <3>1. key \in DOMAIN incoming /\ incoming[key] = p.channel
      BY <2>2 DEF ReturnedToSource, Has
    <3>2. HasPrefix(Here(p.channel), key[1])
      BY <1>1, <3>1 DEF ReceiveInv, LendingShape, IncomingNamed
    <3> QED BY <1>1, <3>2 DEF Settles
  <2>3. p.phase # "ok" => Settles(s)
    BY <1>1 DEF Settles
  <2> QED BY <1>1, <2>1, <2>2, <2>3 DEF PacketHolds, Held
<1>2. ReceiveInv => AnswersProcessable
  BY <1>1 DEF AnswersProcessable
<1> QED BY <1>2, ReceiveInvariant, PTL

\* The debug_assert! of query_token_metadata never fails, and the queries agree
\* with each other and answer for every voucher there is.
THEOREM QueriesCorrect == Spec => []QueriesAnswer
<1>1. ASSUME ReceiveInv PROVE QueriesAnswer
  <2>1. WorldType(world) /\ WorldShape(world)
    BY <1>1 DEF ReceiveInv, TypeOK
  <2>2. \A x \in DOMAIN world.nftContract : world.nftContract[x] # None
    BY <2>1, NoneAssumption DEF WorldType, IsMap
  <2>3. \A key \in DOMAIN world.metadata :
          query_nft_contract_for_class_id(key[1]) # None
    BY <2>1, <2>2 DEF WorldShape, TokensKnown, query_nft_contract_for_class_id, MayLoad, Has
  <2>4. ASSUME NEW x \in DOMAIN world.nftContract
        PROVE  LET k == query_nft_contract_for_class_id(x) IN
               /\ query_class_id_for_nft_contract(k) = x
               /\ query_class_metadata(x) # None /\ query_class_metadata(x).id = x
               /\ x.path # << >> => \A t \in Tokens : Exists(world, k, t) =>
                    /\ query_token_metadata(x, t) \notin {None, Error}
                    /\ query_owner(x, t) # Error
    <3>1. PICK k : k = world.nftContract[x]
      OBVIOUS
    <3>2. query_nft_contract_for_class_id(x) = k
      BY <3>1 DEF query_nft_contract_for_class_id, MayLoad, Has
    <3>3. /\ k \in DOMAIN world.nftClass /\ world.nftClass[k] = x
          /\ x \in DOMAIN world.classes /\ world.classes[x].id = x
      BY <2>1, <3>1 DEF WorldShape, RegistryInverse
    <3>4. query_class_id_for_nft_contract(k) = x
      BY <3>3 DEF query_class_id_for_nft_contract, MayLoad, Has
    <3>5. query_class_metadata(x) = world.classes[x] /\ world.classes[x] # None
      BY <2>1, <3>3, NoneAssumption DEF query_class_metadata, MayLoad, Has, WorldType, IsMap
    <3>6. ASSUME x.path # << >>, NEW t \in Tokens, Exists(world, k, t)
          PROVE  /\ query_token_metadata(x, t) \notin {None, Error}
                 /\ query_owner(x, t) # Error
      <4>1. k \notin Collections
        <5>1. k = VoucherAddr(x) /\ x \in ClassId
          BY <2>1, <3>1, <3>6 DEF WorldShape, ContractsNamed, WorldType, IsMap
        <5> QED BY <5>1, ReceiveAssumption DEF VoucherAddr, VoucherAddrs
      <4>2. <<x, t>> \in DOMAIN world.metadata
        <5>1. <<k, t>> \in DOMAIN world.nfts /\ <<k, t>>[1] = k /\ <<k, t>>[2] = t
          BY <3>6 DEF Exists, Has
        <5> QED BY <2>1, <3>3, <4>1, <5>1 DEF WorldShape, TokensKnown
      <4>3. /\ world.metadata[<<x, t>>] \in Uris \cup {None}
            /\ world.nfts[<<k, t>>] \in Nft
        BY <2>1, <3>6, <4>2 DEF WorldType, IsMap, Exists, Has
      <4> DEFINE q == [id |-> t, uri |-> world.nfts[<<k, t>>].uri,
                       data |-> world.metadata[<<x, t>>]]
      <4>4. query_token_metadata(x, t) = q
        BY <3>1, <3>6, <4>2 DEF query_token_metadata, Has
      <4>5. q \in Token
        BY <4>3 DEF Token, Nft
      <4>6. q # None
        BY <4>5, NoneAssumption
      <4>7. q # Error
        <5>1. "id" \in DOMAIN q /\ "id" \notin DOMAIN Error
          BY DEF Error
        <5> QED BY <5>1
      <4>8. query_owner(x, t) = world.nfts[<<k, t>>].owner
        BY <3>1, <3>6 DEF query_owner, Has
      <4>9. world.nfts[<<k, t>>].owner \in Users \cup {Bridge}
        BY <4>3 DEF Nft
      <4> HIDE DEF q
      <4> QED BY <4>4, <4>6, <4>7, <4>8, <4>9, NoneAssumption
    <3> QED BY <3>2, <3>3, <3>4, <3>5, <3>6
  <2> QED BY <2>3, <2>4 DEF QueriesAnswer
<1> QED BY <1>1, ReceiveInvariant, PTL

\* Only receive_nft puts a packet into a slot; what happens to it afterwards
\* does not change what it says.
LEMMA SentDataKept ==
    ASSUME SentPacketsValid,
           \A s \in Slots : sent'[s] # None =>
             sent[s] # None /\ sent'[s].data = sent[s].data
    PROVE  SentPacketsValid'
<1> SUFFICES ASSUME NEW s \in Slots, sent'[s] # None
             PROVE  LET data == sent'[s].data IN
                    /\ Empty \notin {data.class_id.base, data.class_uri, data.class_data}
                    /\ \A list \in {data.token_uris, data.token_data} :
                         list # None => Len(list) = Len(data.token_ids)
  BY DEF SentPacketsValid
<1>1. PICK data : data = sent[s].data /\ data = sent'[s].data
  OBVIOUS
<1> QED BY <1>1 DEF SentPacketsValid

\* What receive_nft sends, it would accept: it forwards only what
\* receive_ibc_packet has validated, or what it has made up itself.
THEOREM SentPacketsCorrect == Spec => []SentPacketsValid
<1>1. Init => SentPacketsValid
  BY DEF Init, SentPacketsValid
<1>2. ASSUME ReceiveInv, SentPacketsValid, [Next]_vars
      PROVE  SentPacketsValid'
  <2>0. sent = [s \in Slots |-> sent[s]]
    BY <1>2 DEF ReceiveInv, TypeOK, NetworkType
  <2>1. ASSUME NEW ch \in Channels, NEW kt \in DOMAIN world.nfts, NEW u \in Users,
               NEW r \in Users, NEW s \in Slots, receive_nft(ch, kt[1], kt[2], u, r, s)
        PROVE  SentPacketsValid'
    <3>1. <<kt[1], kt[2]>> \in DOMAIN world.nfts
      BY <1>2 DEF ReceiveInv, TypeOK, WorldType, IsMap
    <3>2. PICK k, t : k = kt[1] /\ t = kt[2]
      OBVIOUS
    <3> QED BY <1>2, <2>1, <3>1, <3>2, SendStep
  <2>2. ASSUME NEW s \in Slots, ibc_packet_ack(s) \/ ibc_packet_timeout(s)
        PROVE  SentPacketsValid'
    <3>1. sent' = [sent EXCEPT ![s] = None]
      BY <2>2 DEF ibc_packet_ack, ibc_packet_timeout, Forget
    <3> QED BY <1>2, <2>0, <3>1, SentDataKept
  <2>3. ASSUME NEW s \in Slots, NEW result \in {"ok", "fail"},
               NEW copies \in BOOLEAN, CounterpartyAnswers(s, result, copies)
        PROVE  SentPacketsValid'
    <3>1. sent[s] # None /\ sent' = [sent EXCEPT ![s].phase = result]
      BY <2>3 DEF CounterpartyAnswers
    <3>2. sent[s] \in SentPacket
      BY <1>2, <3>1 DEF ReceiveInv, TypeOK, NetworkType
    <3>3. PICK q : q = [sent[s] EXCEPT !.phase = result]
      OBVIOUS
    <3>4. q.data = sent[s].data
      BY <3>2, <3>3 DEF SentPacket
    <3>5. sent'[s] = q /\ \A r \in Slots : r # s => sent'[r] = sent[r]
      BY <2>0, <3>1, <3>3
    <3> QED BY <1>2, <3>1, <3>4, <3>5, SentDataKept
  <2>4. CASE sent' = sent
    BY <1>2, <2>4, SentDataKept
  <2>5. \/ sent' = sent
        \/ \E ch \in Channels, kt \in DOMAIN world.nfts, u, r \in Users,
              s \in Slots : receive_nft(ch, kt[1], kt[2], u, r, s)
        \/ \E s \in Slots : ibc_packet_ack(s) \/ ibc_packet_timeout(s)
        \/ \E s \in Slots, result \in {"ok", "fail"}, copies \in BOOLEAN :
              CounterpartyAnswers(s, result, copies)
    BY <1>2 DEF Next, vars, network, ibc_packet_receive, ibc_channel_close,
                CounterpartySends, CounterpartyTimesOut, execute_pause, migrate, Burn
  <2> QED BY <2>1, <2>2, <2>3, <2>4, <2>5
<1> QED BY <1>1, <1>2, ReceiveInvariant, PTL DEF Spec

\* A packet is refused only because the bridge is paused, the packet is
\* malformed, the receiver is no address, a voucher would be minted twice, or
\* it returns an exposed token that the bridge no longer has.
THEOREM RefusalsCorrect == Spec => RefusedForCause
<1>1. ASSUME ReceiveInv, NEW i \in Arrivals, NEW p, p = arriving[i],
             ibc_packet_receive(i), Acknowledgement(p) = "fail"
      PROVE  \/ po.paused \/ p.data = Garbage
             \/ ~validate(p.data) \/ p.data.receiver = BadAddr
             \/ Duplicates(p) \/ ReturnsExposed(p)
  <2>1. CASE ~Accepts(p)
    BY <2>1 DEF Accepts, NotPaused
  <2>2. CASE Accepts(p)
    <3>1. Outcome(p) = Error
      BY <1>1, <2>2 DEF Acknowledgement
    <3>2. p # None
      BY <1>1 DEF ibc_packet_receive
    <3> QED BY <1>1, <2>2, <3>1, <3>2, ArrivingOutcome
  <2> QED BY <2>1, <2>2
<1>2. ReceiveInv => RefusesForCause
  BY <1>1 DEF RefusesForCause
<1> QED BY <1>2, ReceiveInvariant, PTL DEF RefusedForCause

LEMMA ExceptOwner ==
    ASSUME NEW nft \in Nft, NEW a
    PROVE  [nft EXCEPT !.owner = a] = WithOwner(nft, a)
<1> DEFINE q == [nft EXCEPT !.owner = a]
<1>1. /\ q = [f \in DOMAIN q |-> q[f]] /\ DOMAIN q = {"owner", "uri"}
      /\ q.owner = a /\ q.uri = nft.uri
  BY DEF Nft
<1> HIDE DEF q
<1>2. q = WithOwner(nft, a)
  BY <1>1 DEF WithOwner
<1> QED BY <1>2 DEF q

\* What Outcome makes of the world is what the packet asks for.
LEMMA AcceptedDelivered ==
    ASSUME ReceiveInv, NEW i \in Arrivals, NEW p, p = arriving[i], p # None,
           HandlePacket(p), Acknowledgement(p) = "ok"
    PROVE  Delivered(p)
<1> DEFINE z == VoucherClass(p)
           k == VoucherAddr(z)
<1>1. Accepts(p) /\ Outcome(p) # Error /\ world' = Outcome(p)
  BY DEF HandlePacket, Acknowledgement
<1>2. Readable(p) /\ Received(p, world')
  BY <1>1, ArrivingOutcome
<1>3. WorldType(world) /\ WorldShape(world)
  BY DEF ReceiveInv, TypeOK
<1>6. CreatedAt(p) # {} =>
        /\ Has(world'.nftContract, z) /\ world'.nftContract[z] = k
        /\ world'.classes[z] = Class(z, p.data)
  BY <1>2, <1>3, ReceivedKeeps
<1>7. ReceivedNfts(p, world'.nfts) /\ ReceivedMetadata(p, world'.metadata)
  BY <1>2 DEF Received
<1>8. CreatedNfts(p) = NftsOf(k, CreatedTokens(p))
  <2> HIDE DEF k, z
  <2>1. CASE CreatedAt(p) = {}
    BY <2>1 DEF CreatedNfts, NftsOf, CreatedTokens
  <2>2. CASE CreatedAt(p) # {}
    BY <1>6, <2>2 DEF CreatedNfts, NftsOf, CreatedTokens, z
  <2> QED BY <2>1, <2>2
<1>9. /\ DOMAIN world'.nfts = DOMAIN world.nfts \cup CreatedNfts(p)
      /\ CreatedNfts(p) \cap DOMAIN world.nfts = {}
  BY <1>7, <1>8 DEF ReceivedNfts
<1>10. ASSUME NEW kt \in DOMAIN world.nfts
       PROVE  world'.nfts[kt] = IF kt \in RedeemedNfts(p)
                                THEN [world.nfts[kt] EXCEPT !.owner = p.data.receiver]
                                ELSE world.nfts[kt]
  <2>1. world.nfts[kt] \in Nft
    BY <1>3 DEF WorldType, IsMap
  <2>2. [world.nfts[kt] EXCEPT !.owner = p.data.receiver]
          = WithOwner(world.nfts[kt], p.data.receiver)
    BY <2>1, ExceptOwner
  <2> QED BY <1>7, <2>2 DEF ReceivedNfts
<1>11. ASSUME NEW a \in CreatedAt(p)
       PROVE  LET t == p.data.token_ids[a] IN
              /\ world'.nfts[<<world'.nftContract[z], t>>]
                   = [owner |-> p.data.receiver, uri |-> At(p.data.token_uris, a)]
              /\ world'.metadata[<<z, t>>] = At(p.data.token_data, a)
  <2> DEFINE t == p.data.token_ids[a]
  <2>1. world'.nftContract[z] = k
    BY <1>6
  <2>2. world'.nfts[<<k, t>>]
          = [owner |-> p.data.receiver, uri |-> At(p.data.token_uris, a)]
    BY <1>7 DEF ReceivedNfts
  <2>3. world'.metadata[<<z, t>>] = At(p.data.token_data, a)
    BY <1>7 DEF ReceivedMetadata
  <2> QED BY <2>1, <2>2, <2>3
<1> QED BY <1>6, <1>9, <1>10, <1>11 DEF Delivered

\* A packet that is acknowledged as a success has had its effect for every one
\* of its tokens and on nothing else.  One that fails has changed no contract,
\* but the outgoing entries of what it returns are gone and the incoming
\* entries are there, unless it was refused at once.
THEOREM ReceiptsCorrect == Spec => ReceiptMeetsReference
<1>1. ASSUME ReceiveInv, NEW i \in Arrivals, NEW p, p = arriving[i], ibc_packet_receive(i)
      PROVE  /\ IF Accepts(p) THEN EntriesMoved(p) ELSE UNCHANGED <<outgoing, incoming>>
             /\ IF Acknowledgement(p) = "ok" THEN Delivered(p) ELSE UNCHANGED world
  <2>0. p # None /\ (RejectPacket(p) \/ HandlePacket(p))
    BY <1>1 DEF ibc_packet_receive
  <2>1. CASE RejectPacket(p)
    BY <2>1 DEF RejectPacket, Acknowledgement, bridgeState
  <2>2. CASE HandlePacket(p)
    <3>1. Accepts(p) /\ outgoing' = Selected(p).outgoing /\ incoming' = Selected(p).incoming
      BY <2>2 DEF HandlePacket
    <3>2. Readable(p)
      BY <1>1, <2>0, <3>1, ArrivingOutcome
    <3>3. /\ outgoing = [key \in DOMAIN outgoing |-> outgoing[key]]
          /\ incoming = [key \in DOMAIN incoming |-> incoming[key]]
      BY <1>1 DEF ReceiveInv, TypeOK, IsMap
    <3>4. EntriesMoved(p)
      BY <3>1, <3>2, <3>3, MapsAfter DEF EntriesMoved
    <3>5. CASE Acknowledgement(p) = "ok"
      BY <1>1, <2>0, <2>2, <3>1, <3>4, <3>5, AcceptedDelivered
    <3>6. CASE Acknowledgement(p) # "ok"
      BY <2>2, <3>1, <3>4, <3>6 DEF HandlePacket
    <3> QED BY <3>5, <3>6
  <2> QED BY <2>0, <2>1, <2>2
<1>2. ReceiveInv => ReceivesByReference
  BY <1>1 DEF ReceivesByReference
<1> QED BY <1>2, ReceiveInvariant, PTL DEF ReceiptMeetsReference
============================================================================
