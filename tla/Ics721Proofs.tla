---------------------------- MODULE Ics721Proofs ---------------------------
(***************************************************************************)
(* Theorems about Ics721, for every network of bridges, every set of users *)
(* and tokens and any number of unfinished packets.                        *)
(***************************************************************************)
EXTENDS Ics721, TLAPS

(***************************************************************************)
(* The storage maps and the class IDs.                                     *)
(***************************************************************************)

\* Map::new, Map::save and Map::remove return maps of the same type.
LEMMA MapTypes ==
    ASSUME NEW K, NEW V
    PROVE  /\ IsMap(EmptyMap, K, V)
           /\ \A map, k, v : IsMap(map, K, V) /\ k \in K /\ v \in V =>
                IsMap(Save(map, k, v), K, V)
           /\ \A map, k : IsMap(map, K, V) => IsMap(Remove(map, k), K, V)
BY DEF IsMap, EmptyMap, Save, Remove

\* Prefixing a class ID gives a class ID that is not local.
LEMMA PrefixedType ==
    ASSUME NEW prefix \in Prefixes, NEW x \in ClassId
    PROVE  /\ Prefixed(prefix, x) \in ClassId
           /\ Prefixed(prefix, x).path # << >>
<1>1. x.path \in Seq(Prefixes) /\ x.base \in Collections
  BY DEF ClassId
<1>2. /\ <<prefix>> \o x.path \in Seq(Prefixes)
      /\ Len(<<prefix>> \o x.path) > 0
  BY <1>1
<1>3. <<prefix>> \o x.path # << >>
  BY <1>2
<1> QED BY <1>1, <1>2, <1>3 DEF Prefixed, ClassId

\* The prefix that an arriving token is given comes off again: what
\* receive_ibc_packet looks up on the way back is what receive_nft saved.
LEMMA PrefixRoundTrip ==
    ASSUME NEW prefix \in Prefixes, NEW x \in ClassId
    PROVE  /\ HasPrefix(prefix, Prefixed(prefix, x))
           /\ Unprefixed(Prefixed(prefix, x)) = x
<1>1. x.path \in Seq(Prefixes) /\ x = [path |-> x.path, base |-> x.base]
  BY DEF ClassId
<1>2. /\ Head(<<prefix>> \o x.path) = prefix
      /\ Tail(<<prefix>> \o x.path) = x.path
  BY <1>1
<1>3. Prefixed(prefix, x).path # << >>
  BY PrefixedType
<1> QED BY <1>1, <1>2, <1>3 DEF Prefixed, Unprefixed, HasPrefix

\* Popping a prefix that is there leaves a class ID.
LEMMA UnprefixedType ==
    ASSUME NEW prefix, NEW x \in ClassId, HasPrefix(prefix, x)
    PROVE  Unprefixed(x) \in ClassId
<1>1. x.path \in Seq(Prefixes) /\ x.base \in Collections /\ x.path # << >>
  BY DEF ClassId, HasPrefix
<1>2. Tail(x.path) \in Seq(Prefixes)
  BY <1>1
<1> QED BY <1>1, <1>2 DEF Unprefixed, ClassId

\* The class ID of a collection on its home chain.
LEMMA LocalClassType ==
    ASSUME NEW k \in Collections
    PROVE  LocalClass(k) \in ClassId /\ LocalClass(k).path = << >>
                                     /\ LocalClass(k).base = k
BY DEF LocalClass, ClassId

\* The prefix of a channel end is made of its port and its channel.
LEMMA PrefixOfType ==
    ASSUME NEW e \in Endpoints
    PROVE  /\ PrefixOf(e) \in Prefixes
           /\ e.chain \in Chains /\ e.channel \in Channels
           /\ Peer[e] \in Endpoints
BY NetworkAssumption DEF PrefixOf, get_endpoint_prefix, Prefixes

\* A map of one chain is replaced by another of its type.
LEMMA MapUpdate ==
    ASSUME NEW f, NEW g, NEW K, NEW V, NEW c \in Chains, NEW m,
           PerChain(f), \A x \in Chains : IsMap(f[x], K, V),
           IsMap(m, K, V), g = [f EXCEPT ![c] = m]
    PROVE  PerChain(g) /\ \A x \in Chains : IsMap(g[x], K, V)
<1>1. PerChain(g) /\ g[c] = m /\ \A x \in Chains : x # c => g[x] = f[x]
  BY DEF PerChain
<1> QED BY <1>1

(***************************************************************************)
(* The ledgers: what mint, transfer and burn of cw721-base preserve.       *)
(***************************************************************************)

\* TransferNft of an existing token changes its owner and nothing else.
LEMMA TransferFacts ==
    ASSUME LedgerType, NEW c \in Chains, NEW k, NEW t,
           NEW r \in Users \cup {Bridge},
           Exists(c, k, t), Cw721Transfer(c, k, t, r)
    PROVE  /\ LedgerType'
           /\ \A x \in Chains : DOMAIN ledger'[x] = DOMAIN ledger[x]
<1>1. /\ PerChain(ledger) /\ IsMap(ledger[c], Contracts \X Tokens, Nft)
      /\ <<k, t>> \in DOMAIN ledger[c]
  BY DEF LedgerType, Exists
<1>2. ledger' = [ledger EXCEPT ![c] =
                   [ledger[c] EXCEPT ![<<k, t>>] =
                      [ledger[c][<<k, t>>] EXCEPT !.owner = r]]]
  BY DEF Cw721Transfer
<1>3. [ledger[c][<<k, t>>] EXCEPT !.owner = r] \in Nft
  BY <1>1 DEF IsMap, Nft
<1>4. /\ IsMap(ledger'[c], Contracts \X Tokens, Nft)
      /\ DOMAIN ledger'[c] = DOMAIN ledger[c]
  BY <1>1, <1>2, <1>3 DEF IsMap, PerChain
<1>5. /\ PerChain(ledger')
      /\ \A x \in Chains : x # c => ledger'[x] = ledger[x]
  BY <1>1, <1>2 DEF PerChain
<1> QED BY <1>4, <1>5 DEF LedgerType, PerChain

\* ... and gives it to the recipient.
LEMMA TransferOwner ==
    ASSUME LedgerType, NEW c \in Chains, NEW k, NEW t, NEW r,
           Exists(c, k, t), Cw721Transfer(c, k, t, r)
    PROVE  /\ ledger'[c][<<k, t>>].owner = r
           /\ \A kt \in DOMAIN ledger[c] :
                kt # <<k, t>> => ledger'[c][kt] = ledger[c][kt]
<1> DEFINE key == <<k, t>>
           nft == ledger[c][key]
<1>1. /\ PerChain(ledger) /\ key \in DOMAIN ledger[c]
      /\ ledger[c] = [x \in DOMAIN ledger[c] |-> ledger[c][x]]
      /\ nft \in Nft
  BY DEF LedgerType, Exists, IsMap
<1>2. [nft EXCEPT !.owner = r].owner = r
  BY <1>1 DEF Nft
<1>3. ledger' = [ledger EXCEPT ![c] =
                   [ledger[c] EXCEPT ![key] = [nft EXCEPT !.owner = r]]]
  BY DEF Cw721Transfer
<1> DEFINE new == [nft EXCEPT !.owner = r]
<1>4. ledger' = [ledger EXCEPT ![c] = [ledger[c] EXCEPT ![key] = new]]
  BY <1>3
<1>5. new.owner = r
  BY <1>2
<1> HIDE DEF new
<1>6. /\ ledger'[c][key] = new
      /\ \A kt \in DOMAIN ledger[c] : kt # key => ledger'[c][kt] = ledger[c][kt]
  BY <1>1, <1>4 DEF PerChain
<1> QED BY <1>5, <1>6

\* Burning leaves the other tokens as they are.
LEMMA BurnOthers ==
    ASSUME LedgerType, NEW c \in Chains, NEW k, NEW t, Cw721Burn(c, k, t)
    PROVE  \A kt \in DOMAIN ledger'[c] : ledger'[c][kt] = ledger[c][kt]
<1>1. ledger'[c] = Remove(ledger[c], <<k, t>>)
  BY DEF LedgerType, PerChain, Cw721Burn
<1> QED BY <1>1 DEF Remove

\* Minting adds one token.
LEMMA MintFacts ==
    ASSUME LedgerType, NEW c \in Chains, NEW k \in Contracts, NEW t \in Tokens,
           NEW r \in Users \cup {Bridge}, NEW uri \in Uris \cup {None},
           Cw721Mint(c, k, t, r, uri)
    PROVE  /\ LedgerType'
           /\ DOMAIN ledger'[c] = DOMAIN ledger[c] \cup {<<k, t>>}
           /\ \A x \in Chains : x # c => ledger'[x] = ledger[x]
<1>1. /\ PerChain(ledger) /\ IsMap(ledger[c], Contracts \X Tokens, Nft)
      /\ [owner |-> r, uri |-> uri] \in Nft
  BY DEF LedgerType, Nft
<1>2. /\ ledger'[c] = Save(ledger[c], <<k, t>>, [owner |-> r, uri |-> uri])
      /\ PerChain(ledger')
      /\ \A x \in Chains : x # c => ledger'[x] = ledger[x]
  BY <1>1 DEF Cw721Mint, PerChain
<1>3. IsMap(ledger'[c], Contracts \X Tokens, Nft)
  BY <1>1, <1>2, MapTypes
<1>4. LedgerType'
  BY <1>2, <1>3 DEF LedgerType, PerChain
<1> QED BY <1>2, <1>4 DEF Save

\* Burning removes one.
LEMMA BurnFacts ==
    ASSUME LedgerType, NEW c \in Chains, NEW k, NEW t, Cw721Burn(c, k, t)
    PROVE  /\ LedgerType'
           /\ \A x \in Chains : DOMAIN ledger'[x] \subseteq DOMAIN ledger[x]
<1>1. PerChain(ledger) /\ IsMap(ledger[c], Contracts \X Tokens, Nft)
  BY DEF LedgerType
<1>2. /\ ledger'[c] = Remove(ledger[c], <<k, t>>)
      /\ PerChain(ledger')
      /\ \A x \in Chains : x # c => ledger'[x] = ledger[x]
  BY <1>1 DEF Cw721Burn, PerChain
<1>3. IsMap(ledger'[c], Contracts \X Tokens, Nft)
  BY <1>1, <1>2, MapTypes
<1>4. LedgerType'
  BY <1>2, <1>3 DEF LedgerType, PerChain
<1>5. DOMAIN ledger'[c] \subseteq DOMAIN ledger[c]
  BY <1>2 DEF Remove
<1> QED BY <1>2, <1>4, <1>5

(***************************************************************************)
(* Who owns a token, and what it shows: mint, transfer and burn change     *)
(* this for one token and leave all others alone.                          *)
(***************************************************************************)
Who(c, k, t) == IF Exists(c, k, t) THEN ledger[c][<<k, t>>].owner ELSE None

Shows(c, k, t) == ledger[c][<<k, t>>].uri

\* The token t of contract k on chain c, and only this one, is now owned by w.
OwnerBecomes(c, k, t, w) ==
    \A x \in Chains : \A y, z :
      Who(x, y, z)' = IF x = c /\ y = k /\ z = t THEN w ELSE Who(x, y, z)

\* What was there and still is shows what it showed.
ShowsKept ==
    \A x \in Chains : \A y, z :
      Exists(x, y, z) /\ Exists(x, y, z)' => Shows(x, y, z)' = Shows(x, y, z)

LEMMA TransferPoint ==
    ASSUME LedgerType, NEW c \in Chains, NEW k, NEW t, NEW r,
           Exists(c, k, t), Cw721Transfer(c, k, t, r)
    PROVE  /\ OwnerBecomes(c, k, t, r) /\ ShowsKept
           /\ \A x \in Chains : DOMAIN ledger'[x] = DOMAIN ledger[x]
<1> DEFINE key == <<k, t>>
           nft == ledger[c][key]
           new == [nft EXCEPT !.owner = r]
<1>1. /\ PerChain(ledger) /\ key \in DOMAIN ledger[c]
      /\ ledger[c] = [x \in DOMAIN ledger[c] |-> ledger[c][x]]
      /\ nft \in Nft
  BY DEF LedgerType, Exists, IsMap
<1>2. new.owner = r /\ new.uri = nft.uri
  BY <1>1 DEF Nft
<1>3. ledger' = [ledger EXCEPT ![c] = [ledger[c] EXCEPT ![key] = new]]
  BY DEF Cw721Transfer
<1> HIDE DEF new, nft, key
<1>4. /\ \A x \in Chains : x # c => ledger'[x] = ledger[x]
      /\ ledger'[c] = [ledger[c] EXCEPT ![key] = new]
  BY <1>1, <1>3 DEF PerChain
<1>5. /\ DOMAIN ledger'[c] = DOMAIN ledger[c]
      /\ ledger'[c][key] = new
      /\ \A kt \in DOMAIN ledger[c] : kt # key => ledger'[c][kt] = ledger[c][kt]
  BY <1>1, <1>4
<1>6. \A x \in Chains : DOMAIN ledger'[x] = DOMAIN ledger[x]
  BY <1>4, <1>5
<1>7. ASSUME NEW x \in Chains, NEW y, NEW z, Exists(x, y, z)
      PROVE  IF x = c /\ y = k /\ z = t
             THEN ledger'[x][<<y, z>>] = new
             ELSE ledger'[x][<<y, z>>] = ledger[x][<<y, z>>]
  BY <1>4, <1>5, <1>7 DEF key, Exists
<1>8. OwnerBecomes(c, k, t, r)
  BY <1>2, <1>6, <1>7 DEF OwnerBecomes, Who, Exists
<1>9. ShowsKept
  BY <1>2, <1>7 DEF ShowsKept, Shows, nft, key
<1> QED BY <1>6, <1>8, <1>9

LEMMA MintPoint ==
    ASSUME LedgerType, NEW c \in Chains, NEW k, NEW t, NEW r, NEW uri,
           ~Exists(c, k, t), Cw721Mint(c, k, t, r, uri)
    PROVE  /\ OwnerBecomes(c, k, t, r) /\ ShowsKept
           /\ Exists(c, k, t)' /\ Shows(c, k, t)' = uri
<1> DEFINE key == <<k, t>>
           new == [owner |-> r, uri |-> uri]
<1>1. /\ ledger'[c] = Save(ledger[c], key, new)
      /\ \A x \in Chains : x # c => ledger'[x] = ledger[x]
  BY DEF Cw721Mint, LedgerType, PerChain
<1>2. new.owner = r /\ new.uri = uri
  OBVIOUS
<1> HIDE DEF new, key
<1>3. /\ DOMAIN ledger'[c] = DOMAIN ledger[c] \cup {key}
      /\ ledger'[c][key] = new
      /\ \A kt \in DOMAIN ledger[c] : kt # key => ledger'[c][kt] = ledger[c][kt]
  BY <1>1 DEF Save
<1>4. OwnerBecomes(c, k, t, r)
  BY <1>1, <1>2, <1>3 DEF OwnerBecomes, Who, Exists, key
<1>5. ShowsKept
  BY <1>1, <1>3 DEF ShowsKept, Shows, Exists, key
<1> QED BY <1>2, <1>3, <1>4, <1>5 DEF Exists, Shows, key

LEMMA BurnPoint ==
    ASSUME LedgerType, NEW c \in Chains, NEW k, NEW t, Cw721Burn(c, k, t)
    PROVE  OwnerBecomes(c, k, t, None) /\ ShowsKept
<1> DEFINE key == <<k, t>>
<1>1. /\ ledger'[c] = Remove(ledger[c], key)
      /\ \A x \in Chains : x # c => ledger'[x] = ledger[x]
  BY DEF Cw721Burn, LedgerType, PerChain
<1>2. /\ DOMAIN ledger'[c] = DOMAIN ledger[c] \ {key}
      /\ \A kt \in DOMAIN ledger'[c] : ledger'[c][kt] = ledger[c][kt]
  BY <1>1 DEF Remove
<1>3. OwnerBecomes(c, k, t, None)
  BY <1>1, <1>2 DEF OwnerBecomes, Who, Exists
<1>4. ShowsKept
  BY <1>1, <1>2 DEF ShowsKept, Shows, Exists
<1> QED BY <1>3, <1>4

(***************************************************************************)
(* The registry.                                                           *)
(***************************************************************************)

\* Entering a new class together with a new contract keeps the two maps
\* inverse to each other: what receive_nft and reply have in common.
LEMMA RegisterFacts ==
    ASSUME RegistryType, RegistryInverse, LocalNames,
           NEW c \in Chains, NEW k \in Contracts, NEW class \in ClassId,
           k \notin DOMAIN nftClass[c], class \notin DOMAIN nftContract[c],
           IF class.path = << >> THEN k = class.base ELSE k \in VoucherAddrs,
           nftContract' = [nftContract EXCEPT ![c] = Save(@, class, k)],
           nftClass' = [nftClass EXCEPT ![c] = Save(@, k, class)],
           classes' = [classes EXCEPT ![c] = @ \cup {class}]
    PROVE  /\ RegistryType' /\ RegistryInverse' /\ LocalNames'
           /\ k \in DOMAIN nftClass'[c]
           /\ \A x \in Chains : DOMAIN nftClass[x] \subseteq DOMAIN nftClass'[x]
<1>a. /\ nftContract'[c] = Save(nftContract[c], class, k)
      /\ PerChain(nftContract')
      /\ \A x \in Chains : x # c => nftContract'[x] = nftContract[x]
  BY DEF RegistryType, PerChain
<1>b. /\ nftClass'[c] = Save(nftClass[c], k, class)
      /\ PerChain(nftClass')
      /\ \A x \in Chains : x # c => nftClass'[x] = nftClass[x]
  BY DEF RegistryType, PerChain
<1>c. /\ classes'[c] = classes[c] \cup {class}
      /\ PerChain(classes')
      /\ \A x \in Chains : x # c => classes'[x] = classes[x]
  BY DEF RegistryType, PerChain
<1>2. /\ IsMap(nftContract'[c], ClassId, Contracts)
      /\ IsMap(nftClass'[c], Contracts, ClassId)
  BY <1>a, <1>b, MapTypes DEF RegistryType
<1>3. RegistryType'
  BY <1>a, <1>b, <1>c, <1>2 DEF RegistryType, PerChain
<1>4. /\ DOMAIN nftContract'[c] = DOMAIN nftContract[c] \cup {class}
      /\ nftContract'[c][class] = k
      /\ \A x \in DOMAIN nftContract[c] : nftContract'[c][x] = nftContract[c][x]
  BY <1>a DEF Save
<1>5. /\ DOMAIN nftClass'[c] = DOMAIN nftClass[c] \cup {k}
      /\ nftClass'[c][k] = class
      /\ \A x \in DOMAIN nftClass[c] : nftClass'[c][x] = nftClass[c][x]
  BY <1>b DEF Save
<1>6. RegistryInverse'
  BY <1>a, <1>b, <1>c, <1>4, <1>5 DEF RegistryInverse
<1>7. LocalNames'
  BY <1>a, <1>4 DEF LocalNames
<1> QED BY <1>b, <1>3, <1>5, <1>6, <1>7

\* Saving the class again changes nothing in the two maps.
LEMMA ClassesFacts ==
    ASSUME RegistryType, RegistryInverse, LocalNames,
           NEW c \in Chains, NEW class \in ClassId,
           classes' = [classes EXCEPT ![c] = @ \cup {class}],
           UNCHANGED <<nftContract, nftClass>>
    PROVE  RegistryType' /\ RegistryInverse' /\ LocalNames'
<1>1. /\ PerChain(classes') /\ classes'[c] = classes[c] \cup {class}
      /\ \A x \in Chains : x # c => classes'[x] = classes[x]
  BY DEF RegistryType, PerChain
<1> QED BY <1>1 DEF RegistryType, RegistryInverse, LocalNames, PerChain

(***************************************************************************)
(* The routing maps and the packets.                                       *)
(***************************************************************************)
LEMMA OutgoingFacts ==
    ASSUME RouteType, UNCHANGED <<incoming, tokenMetadata>>,
           NEW c \in Chains, NEW key,
           \/ \E ch \in Channels :
                /\ key \in ClassTokens
                /\ outgoing' = [outgoing EXCEPT ![c] = Save(@, key, ch)]
           \/ outgoing' = [outgoing EXCEPT ![c] = Remove(@, key)]
    PROVE  RouteType'
<1>1. PICK m : /\ IsMap(m, ClassTokens, Channels)
               /\ outgoing' = [outgoing EXCEPT ![c] = m]
  BY MapTypes DEF RouteType
<1>2. /\ PerChain(outgoing')
      /\ \A x \in Chains : IsMap(outgoing'[x], ClassTokens, Channels)
  BY <1>1, MapUpdate DEF RouteType
<1> QED BY <1>2 DEF RouteType, PerChain

LEMMA IncomingFacts ==
    ASSUME RouteType, UNCHANGED outgoing, NEW c \in Chains, NEW key,
           \/ \E ch \in Channels :
                /\ key \in ClassTokens
                /\ incoming' = [incoming EXCEPT ![c] = Save(@, key, ch)]
           \/ incoming' = [incoming EXCEPT ![c] = Remove(@, key)],
           \/ UNCHANGED tokenMetadata
           \/ \E keys \in SUBSET ClassTokens :
                tokenMetadata' = [tokenMetadata EXCEPT ![c] = keys]
    PROVE  RouteType'
<1>1. PICK m : /\ IsMap(m, ClassTokens, Channels)
               /\ incoming' = [incoming EXCEPT ![c] = m]
  BY MapTypes DEF RouteType
<1>2. /\ PerChain(incoming')
      /\ \A x \in Chains : IsMap(incoming'[x], ClassTokens, Channels)
  BY <1>1, MapUpdate DEF RouteType
<1>3. /\ PerChain(tokenMetadata')
      /\ \A x \in Chains : tokenMetadata'[x] \subseteq ClassTokens
  BY DEF RouteType, PerChain
<1> QED BY <1>2, <1>3 DEF RouteType, PerChain

\* The parts of a packet, and where it comes from and goes to.
LEMMA PacketFacts ==
    ASSUME PacketType, NEW s \in Slots, packets[s] # NoPacket
    PROVE  LET p == packets[s] IN
           /\ p \in Packet
           /\ p.src \in Endpoints /\ p.src.chain \in Chains
           /\ p.src.channel \in Channels
           /\ Dest(p) \in Endpoints /\ Dest(p).chain \in Chains
           /\ Dest(p).channel \in Channels
           /\ p.class \in ClassId /\ p.token \in Tokens
           /\ p.uri \in Uris \cup {None} /\ p.sender \in Users
           /\ p.receiver \in Users \cup {Bridge, BadAddr}
<1>1. packets[s] \in Packet
  BY DEF PacketType
<1>2. packets[s].src \in Endpoints
  BY <1>1 DEF Packet
<1> QED BY <1>1, <1>2, PrefixOfType DEF Packet, Dest

\* Acknowledging or forgetting a packet.
LEMMA AckFacts ==
    ASSUME PacketType, NEW s \in Slots, packets[s] # NoPacket,
           \/ WriteAck(s, "ok") \/ WriteAck(s, "fail")
           \/ Forget(s)
    PROVE  PacketType'
<1>1. packets[s] \in Packet
  BY PacketFacts
<1>2. /\ [packets[s] EXCEPT !.phase = "ok"] \in Packet
      /\ [packets[s] EXCEPT !.phase = "fail"] \in Packet
  BY <1>1 DEF Packet
<1> QED BY <1>2 DEF PacketType, WriteAck, Forget

\* The packets other than s stay as they are.
OthersKept(s) == \A r \in Slots : r # s => packets'[r] = packets[r]

\* Packet s stays as it is, but for its phase.
PhaseBecomes(s, result) ==
    /\ packets'[s] # NoPacket /\ packets'[s].phase = result
    /\ packets'[s].src = packets[s].src
    /\ packets'[s].class = packets[s].class
    /\ packets'[s].token = packets[s].token
    /\ packets'[s].uri = packets[s].uri
    /\ packets'[s].sender = packets[s].sender
    /\ packets'[s].receiver = packets[s].receiver

\* What writing an acknowledgement, and forgetting a packet, do to it.
LEMMA AckPoint ==
    ASSUME PacketType, NEW s \in Slots, packets[s] # NoPacket,
           NEW result \in {"ok", "fail"}, WriteAck(s, result)
    PROVE  OthersKept(s) /\ PhaseBecomes(s, result)
<1>1. packets[s] \in Packet
  BY PacketFacts
<1>2. OthersKept(s) /\ packets'[s] = [packets[s] EXCEPT !.phase = result]
  BY DEF PacketType, WriteAck, OthersKept
<1> DEFINE p == packets[s]
           q == packets'[s]
<1>3. /\ q.src = p.src /\ q.sender = p.sender /\ q.receiver = p.receiver
      /\ q.class = p.class /\ q.token = p.token /\ q.uri = p.uri
      /\ q.phase = result /\ q \in Packet
  BY <1>1, <1>2 DEF Packet
<1>4. q # NoPacket
  BY <1>3, PacketAssumption
<1> QED BY <1>2, <1>3, <1>4 DEF PhaseBecomes

LEMMA ForgetPoint ==
    ASSUME PacketType, NEW s \in Slots, Forget(s)
    PROVE  packets'[s] = NoPacket /\ OthersKept(s)
BY DEF PacketType, Forget, OthersKept

(***************************************************************************)
(* The actions preserve RegistryInv.                                       *)
(***************************************************************************)
LEMMA RegistryInvInit == Init => RegistryInv
<1> SUFFICES ASSUME Init PROVE RegistryInv
  OBVIOUS
<1>1. LedgerType /\ TokensRegistered
  <2>1. /\ PerChain(ledger)
        /\ \A c \in Chains : ledger[c] =
             [kt \in NativeKeys(c) |-> NativeNfts[<<c, kt[1], kt[2]>>]]
    BY DEF Init, PerChain
  <2>2. ASSUME NEW c \in Chains
        PROVE  /\ IsMap(ledger[c], Contracts \X Tokens, Nft)
               /\ DOMAIN ledger[c] \subseteq Collections \X Tokens
    <3>1. NativeKeys(c) \subseteq Collections \X Tokens
      BY DEF NativeKeys
    <3>2. \A kt \in NativeKeys(c) : NativeNfts[<<c, kt[1], kt[2]>>] \in Nft
      BY NativesAssumption DEF NativeKeys, Nft
    <3>3. Collections \X Tokens \subseteq Contracts \X Tokens
      BY DEF Contracts
    <3>4. DOMAIN ledger[c] = NativeKeys(c)
      BY <2>1
    <3>5. \A kt \in NativeKeys(c) : ledger[c][kt] \in Nft
      BY <2>1, <3>2
    <3>6. ledger[c] = [kt \in DOMAIN ledger[c] |-> ledger[c][kt]]
      BY <2>1
    <3> QED BY <3>1, <3>3, <3>4, <3>5, <3>6 DEF IsMap
  <2>3. \A c \in Chains : \A kt \in DOMAIN ledger[c] : kt[1] \in Collections
    BY <2>2
  <2> QED BY <2>1, <2>2, <2>3 DEF LedgerType, TokensRegistered
<1>2. /\ RegistryType /\ RouteType
  <2>1. /\ PerChain(nftContract) /\ PerChain(nftClass) /\ PerChain(classes)
        /\ PerChain(outgoing) /\ PerChain(incoming) /\ PerChain(tokenMetadata)
        /\ \A c \in Chains :
             /\ nftContract[c] = EmptyMap /\ nftClass[c] = EmptyMap
             /\ outgoing[c] = EmptyMap /\ incoming[c] = EmptyMap
             /\ classes[c] = {} /\ tokenMetadata[c] = {}
    BY DEF Init, PerChain
  <2> QED BY <2>1, MapTypes DEF RegistryType, RouteType
<1>3. RegistryInverse /\ LocalNames
  BY DEF Init, EmptyMap, RegistryInverse, LocalNames
<1>4. GovernanceType /\ PacketType
  BY DEF Init, GovernanceType, PauseState, set_pauser, PacketType
<1> QED BY <1>1, <1>2, <1>3, <1>4 DEF RegistryInv, TypeOK, RegistryShape

LEMMA ReceiveNftStep ==
    ASSUME RegistryInv,
           NEW e \in Endpoints, NEW k \in Contracts, NEW t \in Tokens,
           NEW u \in Users, NEW r \in Users \cup {Bridge, BadAddr}, NEW s \in Slots,
           OwnedBy(e.chain, k, t, u), receive_nft(e, k, t, u, r, s)
    PROVE  RegistryInv'
<1> DEFINE c == e.chain
           class == ClassOfContract(c, k)
<1>1. /\ c \in Chains /\ e.channel \in Channels /\ Exists(c, k, t)
      /\ LedgerType /\ RegistryType /\ RouteType /\ GovernanceType /\ PacketType
      /\ RegistryInverse /\ LocalNames /\ TokensRegistered
  BY PrefixOfType DEF OwnedBy, RegistryInv, TypeOK, RegistryShape
<1>2. /\ Cw721Transfer(c, k, t, Bridge) /\ RegisterLocal(c, k)
      /\ outgoing' = [outgoing EXCEPT ![c] = Save(@, <<class, t>>, e.channel)]
      /\ packets' = [packets EXCEPT ![s] = OutgoingPacket(e, k, t, u, r)]
      /\ UNCHANGED <<incoming, tokenMetadata, governance>>
  BY DEF receive_nft
<1>3. /\ LedgerType'
      /\ \A x \in Chains : DOMAIN ledger'[x] = DOMAIN ledger[x]
  BY <1>1, <1>2, TransferFacts
<1>4. ~Has(nftClass[c], k) => k \in Collections
  BY <1>1 DEF Exists, TokensRegistered, Has
<1>5. class \in ClassId
  BY <1>1, <1>4, LocalClassType DEF ClassOfContract, RegistryType, IsMap, Has
<1>6. /\ RegistryType' /\ RegistryInverse' /\ LocalNames'
      /\ \A x \in Chains : DOMAIN nftClass[x] \subseteq DOMAIN nftClass'[x]
  <2>1. CASE Has(nftClass[c], k)
    BY <1>1, <1>2, <2>1
       DEF RegisterLocal, registry, RegistryType, RegistryInverse, LocalNames,
           PerChain
  <2>2. CASE ~Has(nftClass[c], k)
    <3>1. /\ k \in Collections /\ LocalClass(k) \in ClassId
          /\ LocalClass(k).path = << >> /\ LocalClass(k).base = k
      BY <1>4, <2>2, LocalClassType
    <3>2. /\ k \notin DOMAIN nftClass[c]
          /\ LocalClass(k) \notin DOMAIN nftContract[c]
      BY <1>1, <2>2, <3>1 DEF Has, RegistryInverse, LocalNames
    <3>3. /\ nftContract' = [nftContract EXCEPT ![c] = Save(@, LocalClass(k), k)]
          /\ nftClass' = [nftClass EXCEPT ![c] = Save(@, k, LocalClass(k))]
          /\ classes' = [classes EXCEPT ![c] = @ \cup {LocalClass(k)}]
      BY <1>2, <2>2 DEF RegisterLocal
    <3> QED BY <1>1, <3>1, <3>2, <3>3, RegisterFacts
  <2> QED BY <2>1, <2>2
<1>7. TokensRegistered'
  BY <1>1, <1>3, <1>6 DEF TokensRegistered
<1>8. RouteType'
  <2>1. <<class, t>> \in ClassTokens
    BY <1>5 DEF ClassTokens
  <2> QED BY <1>1, <1>2, <2>1, OutgoingFacts
<1>9. PacketType'
  <2>1. ledger[c][<<k, t>>].uri \in Uris \cup {None}
    BY <1>1 DEF LedgerType, IsMap, Exists, Nft
  <2>2. OutgoingPacket(e, k, t, u, r) \in Packet
    BY <1>5, <2>1 DEF OutgoingPacket, Packet
  <2> QED BY <1>1, <1>2, <2>2 DEF PacketType
<1>10. GovernanceType'
  BY <1>1, <1>2 DEF GovernanceType, governance
<1> QED BY <1>3, <1>6, <1>7, <1>8, <1>9, <1>10
        DEF RegistryInv, TypeOK, RegistryShape

\* Steps that leave the registry alone and make no token.
LEMMA RegistryUntouched ==
    ASSUME RegistryInv, UNCHANGED registry,
           \A x \in Chains : DOMAIN ledger'[x] \subseteq DOMAIN ledger[x]
    PROVE  RegistryType' /\ RegistryInverse' /\ RegistryShape'
BY DEF RegistryInv, TypeOK, registry, RegistryType, RegistryInverse,
       RegistryShape, LocalNames, TokensRegistered, PerChain

LEMMA RedeemVoucherStep ==
    ASSUME RegistryInv, NEW s \in Slots, packets[s] # NoPacket,
           RedeemVoucher(s)
    PROVE  RegistryInv'
<1> DEFINE p == packets[s]
           d == Dest(p).chain
           class == Unprefixed(p.class)
           k == nftContract[d][class]
<1>1. /\ LedgerType /\ RouteType /\ GovernanceType /\ PacketType
  BY DEF RegistryInv, TypeOK
<1>2. d \in Chains /\ p.receiver \in Users \cup {Bridge, BadAddr}
  BY <1>1, PacketFacts
<1>3. /\ p.receiver # BadAddr
      /\ outgoing' = [outgoing EXCEPT ![d] = Remove(@, <<class, p.token>>)]
      /\ \/ /\ CanRedeem(d, class, p.token)
            /\ Cw721Transfer(d, k, p.token, p.receiver)
            /\ WriteAck(s, "ok")
         \/ /\ WriteAck(s, "fail")
            /\ UNCHANGED ledger
      /\ UNCHANGED <<registry, incoming, tokenMetadata, governance>>
  BY DEF RedeemVoucher, Accepts
<1>4. /\ LedgerType'
      /\ \A x \in Chains : DOMAIN ledger'[x] = DOMAIN ledger[x]
  <2>1. CASE CanRedeem(d, class, p.token) /\ Cw721Transfer(d, k, p.token, p.receiver)
    <3>1. Exists(d, k, p.token) /\ p.receiver \in Users \cup {Bridge}
      BY <1>2, <1>3, <2>1 DEF CanRedeem, OwnedBy
    <3> QED BY <1>1, <1>2, <2>1, <3>1, TransferFacts
  <2>2. CASE UNCHANGED ledger
    BY <1>1, <2>2 DEF LedgerType, PerChain
  <2> QED BY <1>3, <2>1, <2>2
<1>5. RouteType'
  BY <1>1, <1>2, <1>3, OutgoingFacts
<1>6. PacketType'
  BY <1>1, <1>3, AckFacts
<1>7. GovernanceType'
  BY <1>1, <1>3 DEF GovernanceType, governance
<1>8. RegistryType' /\ RegistryInverse' /\ RegistryShape'
  BY <1>3, <1>4, RegistryUntouched
<1> QED BY <1>4, <1>5, <1>6, <1>7, <1>8 DEF RegistryInv, TypeOK

LEMMA CreateVoucherStep ==
    ASSUME RegistryInv, NEW s \in Slots, packets[s] # NoPacket,
           CreateVoucher(s)
    PROVE  RegistryInv'
<1> DEFINE p == packets[s]
           d == Dest(p).chain
           class == Prefixed(PrefixOf(Dest(p)), p.class)
           key == <<class, p.token>>
<1>1. /\ LedgerType /\ RegistryType /\ RouteType /\ GovernanceType /\ PacketType
      /\ RegistryInverse /\ LocalNames /\ TokensRegistered
  BY DEF RegistryInv, TypeOK, RegistryShape
<1>2. /\ d \in Chains /\ Dest(p) \in Endpoints /\ Dest(p).channel \in Channels
      /\ p.class \in ClassId /\ p.token \in Tokens
      /\ p.uri \in Uris \cup {None} /\ p.receiver \in Users \cup {Bridge, BadAddr}
  BY <1>1, PacketFacts
<1>3. class \in ClassId /\ class.path # << >> /\ key \in ClassTokens
  BY <1>2, PrefixOfType, PrefixedType DEF ClassTokens
<1>4. /\ p.receiver \in Users \cup {Bridge}
      /\ incoming' = [incoming EXCEPT ![d] = Save(@, key, Dest(p).channel)]
      /\ \/ callback_create_vouchers(d, class, p) /\ WriteAck(s, "ok")
         \/ WriteAck(s, "fail") /\ UNCHANGED <<ledger, registry, tokenMetadata>>
      /\ UNCHANGED <<outgoing, governance>>
  BY <1>2 DEF CreateVoucher, Accepts
<1>5. PacketType' /\ GovernanceType'
  <2>1. PacketType'
    BY <1>1, <1>4, AckFacts
  <2>2. GovernanceType'
    BY <1>1, <1>4 DEF GovernanceType, governance
  <2> QED BY <2>1, <2>2
<1>6. ASSUME NEW k \in Contracts, callback_mint(d, class, k, p),
             k \in DOMAIN nftClass'[d],
             \A x \in Chains : DOMAIN nftClass[x] \subseteq DOMAIN nftClass'[x]
      PROVE  LedgerType' /\ RouteType' /\ TokensRegistered'
  <2>1. /\ Cw721Mint(d, k, p.token, p.receiver, p.uri)
        /\ tokenMetadata' = [tokenMetadata EXCEPT ![d] = @ \cup {key}]
    BY <1>6 DEF callback_mint
  <2>2. /\ LedgerType'
        /\ DOMAIN ledger'[d] = DOMAIN ledger[d] \cup {<<k, p.token>>}
        /\ \A x \in Chains : x # d => ledger'[x] = ledger[x]
    BY <1>1, <1>2, <1>4, <2>1, MintFacts
  <2>3. TokensRegistered'
    BY <1>1, <1>6, <2>2 DEF TokensRegistered
  <2>4. tokenMetadata[d] \cup {key} \in SUBSET ClassTokens
    BY <1>1, <1>2, <1>3 DEF RouteType
  <2>5. RouteType'
    BY <1>1, <1>2, <1>3, <1>4, <2>1, <2>4, IncomingFacts
  <2> QED BY <2>2, <2>3, <2>5
<1>7. CASE callback_create_vouchers(d, class, p) /\ Has(nftContract[d], class)
  <2>1. /\ callback_mint(d, class, nftContract[d][class], p)
        /\ classes' = [classes EXCEPT ![d] = @ \cup {class}]
        /\ UNCHANGED <<nftContract, nftClass>>
    BY <1>7 DEF callback_create_vouchers
  <2>2. /\ nftContract[d][class] \in Contracts
        /\ nftContract[d][class] \in DOMAIN nftClass'[d]
    BY <1>1, <1>2, <1>7, <2>1 DEF Has, RegistryType, IsMap, RegistryInverse
  <2>3. LedgerType' /\ RouteType' /\ TokensRegistered'
    BY <1>6, <2>1, <2>2
  <2>4. RegistryType' /\ RegistryInverse' /\ LocalNames'
    BY <1>1, <1>2, <1>3, <2>1, ClassesFacts
  <2> QED BY <1>5, <2>3, <2>4 DEF RegistryInv, TypeOK, RegistryShape
<1>8. CASE callback_create_vouchers(d, class, p) /\ ~Has(nftContract[d], class)
  <2>1. PICK k \in VoucherAddrs \ DOMAIN nftClass[d] :
          /\ reply_instantiate_cw721(d, class, k)
          /\ callback_mint(d, class, k, p)
    BY <1>8 DEF callback_create_vouchers
  <2>2. /\ nftContract' = [nftContract EXCEPT ![d] = Save(@, class, k)]
        /\ nftClass' = [nftClass EXCEPT ![d] = Save(@, k, class)]
        /\ classes' = [classes EXCEPT ![d] = @ \cup {class}]
        /\ k \in Contracts /\ class \notin DOMAIN nftContract[d]
    BY <1>8, <2>1
       DEF reply_instantiate_cw721, callback_create_vouchers, Contracts, Has
  <2>3. /\ RegistryType' /\ RegistryInverse' /\ LocalNames'
        /\ k \in DOMAIN nftClass'[d]
        /\ \A x \in Chains : DOMAIN nftClass[x] \subseteq DOMAIN nftClass'[x]
    BY <1>1, <1>2, <1>3, <2>1, <2>2, RegisterFacts
  <2>4. LedgerType' /\ RouteType' /\ TokensRegistered'
    BY <1>6, <2>1, <2>2, <2>3
  <2> QED BY <1>5, <2>3, <2>4 DEF RegistryInv, TypeOK, RegistryShape
<1>9. CASE UNCHANGED <<ledger, registry, tokenMetadata>>
  <2>1. RouteType'
    BY <1>1, <1>2, <1>3, <1>4, <1>9, IncomingFacts
  <2>2. LedgerType'
    BY <1>1, <1>9 DEF LedgerType, PerChain
  <2>3. RegistryType' /\ RegistryInverse' /\ RegistryShape'
    BY <1>9, RegistryUntouched
  <2> QED BY <1>5, <2>1, <2>2, <2>3 DEF RegistryInv, TypeOK
<1> QED BY <1>4, <1>7, <1>8, <1>9

LEMMA PacketFailStep ==
    ASSUME RegistryInv, NEW s \in Slots, packets[s] # NoPacket,
           handle_packet_fail(s)
    PROVE  RegistryInv'
<1> DEFINE p == packets[s]
           c == p.src.chain
           k == nftContract[c][p.class]
<1>1. /\ LedgerType /\ RouteType /\ GovernanceType /\ PacketType
  BY DEF RegistryInv, TypeOK
<1>2. c \in Chains /\ p.sender \in Users
  BY <1>1, PacketFacts
<1>3. /\ Exists(c, k, p.token)
      /\ outgoing' = [outgoing EXCEPT ![c] = Remove(@, <<p.class, p.token>>)]
      /\ Cw721Transfer(c, k, p.token, p.sender)
      /\ Forget(s)
      /\ UNCHANGED <<registry, incoming, tokenMetadata, governance>>
  BY DEF handle_packet_fail, OwnedBy
<1>4. /\ LedgerType'
      /\ \A x \in Chains : DOMAIN ledger'[x] = DOMAIN ledger[x]
  BY <1>1, <1>2, <1>3, TransferFacts
<1>5. RouteType'
  BY <1>1, <1>2, <1>3, OutgoingFacts
<1>6. PacketType'
  BY <1>1, <1>3, AckFacts
<1>7. GovernanceType'
  BY <1>1, <1>3 DEF GovernanceType, governance
<1>8. RegistryType' /\ RegistryInverse' /\ RegistryShape'
  BY <1>3, <1>4, RegistryUntouched
<1> QED BY <1>4, <1>5, <1>6, <1>7, <1>8 DEF RegistryInv, TypeOK

LEMMA AckSuccessStep ==
    ASSUME RegistryInv, NEW s \in Slots, packets[s] # NoPacket,
           AckSuccess(s)
    PROVE  RegistryInv'
<1> DEFINE p == packets[s]
           c == p.src.chain
           k == nftContract[c][p.class]
           key == <<p.class, p.token>>
<1>1. /\ LedgerType /\ RouteType /\ GovernanceType /\ PacketType
  BY DEF RegistryInv, TypeOK
<1>2. c \in Chains
  BY <1>1, PacketFacts
<1>3. /\ \/ /\ incoming' = [incoming EXCEPT ![c] = Remove(@, key)]
            /\ tokenMetadata' = [tokenMetadata EXCEPT ![c] = @ \ {key}]
            /\ Cw721Burn(c, k, p.token)
         \/ UNCHANGED <<ledger, incoming, tokenMetadata>>
      /\ Forget(s)
      /\ UNCHANGED <<registry, outgoing, governance>>
  BY DEF AckSuccess
<1>4. /\ LedgerType'
      /\ \A x \in Chains : DOMAIN ledger'[x] \subseteq DOMAIN ledger[x]
  <2>1. CASE Cw721Burn(c, k, p.token)
    BY <1>1, <1>2, <2>1, BurnFacts
  <2>2. CASE UNCHANGED ledger
    BY <1>1, <2>2 DEF LedgerType, PerChain
  <2> QED BY <1>3, <2>1, <2>2
<1>5. RouteType'
  <2>1. CASE UNCHANGED <<incoming, tokenMetadata>>
    BY <1>1, <1>3, <2>1 DEF RouteType, PerChain
  <2>2. CASE /\ incoming' = [incoming EXCEPT ![c] = Remove(@, key)]
             /\ tokenMetadata' = [tokenMetadata EXCEPT ![c] = @ \ {key}]
    <3>1. tokenMetadata[c] \ {key} \in SUBSET ClassTokens
      BY <1>1, <1>2 DEF RouteType
    <3> QED BY <1>1, <1>2, <1>3, <2>2, <3>1, IncomingFacts
  <2> QED BY <1>3, <2>1, <2>2
<1>6. PacketType'
  BY <1>1, <1>3, AckFacts
<1>7. GovernanceType'
  BY <1>1, <1>3 DEF GovernanceType, governance
<1>8. RegistryType' /\ RegistryInverse' /\ RegistryShape'
  BY <1>3, <1>4, RegistryUntouched
<1> QED BY <1>4, <1>5, <1>6, <1>7, <1>8 DEF RegistryInv, TypeOK

\* What a relayer delivers.
LEMMA RelayStep ==
    ASSUME RegistryInv, NEW s \in Slots, Relay(s)
    PROVE  RegistryInv'
<1>1. packets[s] # NoPacket
  BY DEF Relay, ibc_packet_receive, ibc_packet_ack, ibc_packet_timeout
<1>2. CASE RejectPacket(s)
  <2>1. /\ WriteAck(s, "fail") /\ UNCHANGED <<ledger, bridgeState, governance>>
        /\ LedgerType /\ RouteType /\ GovernanceType /\ PacketType
    BY <1>2 DEF RejectPacket, RegistryInv, TypeOK
  <2>2. PacketType'
    BY <1>1, <2>1, AckFacts
  <2>3. LedgerType' /\ RouteType' /\ GovernanceType'
    BY <2>1 DEF bridgeState, governance, LedgerType, RouteType,
                GovernanceType, PerChain
  <2>4. RegistryType' /\ RegistryInverse' /\ RegistryShape'
    BY <2>1, RegistryUntouched DEF bridgeState
  <2> QED BY <2>2, <2>3, <2>4 DEF RegistryInv, TypeOK
<1>3. CASE RedeemVoucher(s)
  BY <1>1, <1>3, RedeemVoucherStep
<1>4. CASE CreateVoucher(s)
  BY <1>1, <1>4, CreateVoucherStep
<1>5. CASE handle_packet_fail(s)
  BY <1>1, <1>5, PacketFailStep
<1>6. CASE AckSuccess(s)
  BY <1>1, <1>6, AckSuccessStep
<1> QED BY <1>2, <1>3, <1>4, <1>5, <1>6
        DEF Relay, ibc_packet_receive, ibc_packet_ack, ibc_packet_timeout

\* What owners do with their tokens.
LEMMA OwnStep == RegistryInv /\ Own => RegistryInv'
<1> SUFFICES ASSUME RegistryInv, NEW c \in Chains, NEW k, NEW t,
                    \/ \E u, v \in Users : TransferNft(c, k, t, u, v)
                    \/ \E u \in Users : Burn(c, k, t, u)
             PROVE  RegistryInv'
  BY DEF Own
<1>1. /\ LedgerType'
      /\ \A x \in Chains : DOMAIN ledger'[x] \subseteq DOMAIN ledger[x]
      /\ UNCHANGED <<bridgeState, governance, packets>>
  <2>1. LedgerType
    BY DEF RegistryInv, TypeOK
  <2>2. ASSUME NEW u \in Users, NEW v \in Users, TransferNft(c, k, t, u, v)
        PROVE  <1>1!:
    BY <2>1, <2>2, TransferFacts DEF TransferNft, OwnedBy
  <2>3. ASSUME NEW u \in Users, Burn(c, k, t, u)
        PROVE  <1>1!:
    BY <2>1, <2>3, BurnFacts DEF Burn
  <2> QED BY <2>2, <2>3
<1>2. RouteType' /\ GovernanceType' /\ PacketType'
  BY <1>1 DEF RegistryInv, TypeOK, bridgeState, governance, RouteType,
              GovernanceType, PacketType, PerChain
<1>3. RegistryType' /\ RegistryInverse' /\ RegistryShape'
  BY <1>1, RegistryUntouched DEF bridgeState
<1> QED BY <1>1, <1>2, <1>3 DEF RegistryInv, TypeOK

\* Pausing and migrating touch nothing but the governance items.
LEMMA GovernStep == RegistryInv /\ Govern => RegistryInv'
<1> SUFFICES ASSUME RegistryInv, Govern PROVE RegistryInv'
  OBVIOUS
<1>1. UNCHANGED <<ledger, bridgeState, packets>>
  BY DEF Govern, execute_pause, migrate
<1>2. LedgerType' /\ RouteType' /\ PacketType'
  BY <1>1 DEF RegistryInv, TypeOK, bridgeState, LedgerType, RouteType,
              PacketType, PerChain
<1>3. RegistryType' /\ RegistryInverse' /\ RegistryShape'
  BY <1>1, RegistryUntouched DEF bridgeState
<1>4. GovernanceType'
  <2>1. po \in [Chains -> PauseState] /\ proxy \in [Chains -> Proxies \cup {None}]
    BY DEF RegistryInv, TypeOK, GovernanceType
  <2>2. ASSUME NEW c \in Chains, NEW a \in Accounts, execute_pause(c, a)
        PROVE  GovernanceType'
    <3>1. [po[c] EXCEPT !.pauser = None, !.paused = TRUE] \in PauseState
      BY <2>1 DEF PauseState
    <3> QED BY <2>1, <2>2, <3>1 DEF execute_pause, pause, GovernanceType
  <2>3. ASSUME NEW c \in Chains, NEW a \in Accounts \cup {None},
               NEW x \in Proxies \cup {None}, migrate(c, a, x)
        PROVE  GovernanceType'
    <3>1. set_pauser(a) \in PauseState
      BY DEF PauseState, set_pauser
    <3> QED BY <2>1, <2>3, <3>1 DEF migrate, GovernanceType
  <2> QED BY <2>2, <2>3 DEF Govern
<1> QED BY <1>2, <1>3, <1>4 DEF RegistryInv, TypeOK

LEMMA RegistryInvStep == RegistryInv /\ [Next]_vars => RegistryInv'
<1> SUFFICES ASSUME RegistryInv, [Next]_vars PROVE RegistryInv'
  OBVIOUS
<1>1. CASE Send
  BY <1>1, ReceiveNftStep
     DEF Send, execute_receive_nft, execute_receive_proxy_nft
<1>2. CASE \E s \in Slots : Relay(s)
  BY <1>2, RelayStep
<1>3. CASE Own
  BY <1>3, OwnStep
<1>4. CASE Govern
  BY <1>4, GovernStep
<1>5. CASE UNCHANGED vars
  BY <1>5 DEF vars, bridgeState, registry, governance, RegistryInv, TypeOK,
              LedgerType, RegistryType, RouteType, GovernanceType, PacketType,
              RegistryInverse, RegistryShape, LocalNames, TokensRegistered,
              PerChain
<1> QED BY <1>1, <1>2, <1>3, <1>4, <1>5 DEF Next

\* Every storage item of every bridge, every cw721 ledger and every packet
\* keeps its type, in every network and for any number of packets.
THEOREM TypeCorrect == Spec => []TypeOK
<1>1. RegistryInv => TypeOK
  BY DEF RegistryInv
<1> QED BY RegistryInvInit, RegistryInvStep, <1>1, PTL DEF Spec

\* The maps between class IDs and NFT contracts are inverse to each other in
\* every reachable state: receive_nft never takes over the class of another
\* contract, and reply never that of an existing one.
THEOREM RegistryCorrect == Spec => []RegistryInverse
<1>1. RegistryInv => RegistryInverse
  BY DEF RegistryInv
<1> QED BY RegistryInvInit, RegistryInvStep, <1>1, PTL DEF Spec

\* Class IDs without prefixes name the collections of the chain itself, the
\* others name contracts that its bridge has instantiated, and no contract of
\* a bridge has tokens before it is registered.
THEOREM ShapeCorrect == Spec => []RegistryShape
<1>1. RegistryInv => RegistryShape
  BY DEF RegistryInv
<1> QED BY RegistryInvInit, RegistryInvStep, <1>1, PTL DEF Spec

(***************************************************************************)
(* The pause.                                                              *)
(***************************************************************************)

\* A step that keeps the owners of chain c's tokens and adds none.
LEMMA SameOwners ==
    ASSUME NEW c \in Chains, ledger'[c] = ledger[c]
    PROVE  /\ DOMAIN ledger'[c] \subseteq DOMAIN ledger[c]
           /\ ReleasesOnlyRefunds(c)
BY DEF ReleasesOnlyRefunds

LEMMA OtherChains ==
    ASSUME LedgerType, NEW c \in Chains, NEW x \in Chains, c # x, NEW y,
           ledger' = [ledger EXCEPT ![x] = y]
    PROVE  ledger'[c] = ledger[c]
BY DEF LedgerType, PerChain

\* Receiving, acknowledging and forgetting sends nothing.
LEMMA SendsNothingFacts ==
    ASSUME PacketType, NEW c, NEW s \in Slots, packets[s] # NoPacket,
           \/ WriteAck(s, "ok") \/ WriteAck(s, "fail") \/ Forget(s)
    PROVE  SendsNothing(c)
BY DEF SendsNothing, PacketType, WriteAck, Forget

LEMMA PausedSend ==
    ASSUME RegistryInv, NEW c \in Chains, po[c].paused,
           NEW e \in Endpoints, NEW k, NEW t, NEW u, NEW r, NEW s \in Slots,
           NotPaused(po[e.chain]), receive_nft(e, k, t, u, r, s)
    PROVE  SendsNothing(c) /\ ledger'[c] = ledger[c]
<1>1. /\ LedgerType /\ PacketType /\ e.chain \in Chains /\ c # e.chain
  BY PrefixOfType DEF RegistryInv, TypeOK, NotPaused
<1>2. ledger'[c] = ledger[c]
  BY <1>1, OtherChains DEF receive_nft, Cw721Transfer
<1>3. /\ packets' = [packets EXCEPT ![s] = OutgoingPacket(e, k, t, u, r)]
      /\ OutgoingPacket(e, k, t, u, r).src = e
  BY DEF receive_nft, OutgoingPacket
<1>4. SendsNothing(c)
  BY <1>1, <1>3 DEF SendsNothing, PacketType
<1> QED BY <1>2, <1>4

LEMMA PausedReceive ==
    ASSUME RegistryInv, NEW c \in Chains, po[c].paused,
           NEW s \in Slots, ibc_packet_receive(s)
    PROVE  SendsNothing(c) /\ ledger'[c] = ledger[c]
<1> DEFINE p == packets[s]
           d == Dest(p).chain
<1>1. LedgerType /\ PacketType /\ packets[s] # NoPacket
  BY DEF RegistryInv, TypeOK, ibc_packet_receive
<1>2. d \in Chains
  BY <1>1, PacketFacts
<1>3. SendsNothing(c)
  BY <1>1, SendsNothingFacts
     DEF ibc_packet_receive, RejectPacket, RedeemVoucher, CreateVoucher
<1>4. CASE ledger' = ledger
  BY <1>3, <1>4
<1>5. CASE Accepts(p)
  <2>1. c # d
    BY <1>5 DEF Accepts, NotPaused
  <2>2. ledger' = ledger \/ \E y : ledger' = [ledger EXCEPT ![d] = y]
    BY <1>5 DEF ibc_packet_receive, RejectPacket, RedeemVoucher, CreateVoucher,
                callback_create_vouchers, callback_mint, Cw721Mint,
                Cw721Transfer
  <2> QED BY <1>1, <1>2, <1>3, <2>1, <2>2, OtherChains
<1> QED BY <1>4, <1>5
        DEF ibc_packet_receive, RejectPacket, RedeemVoucher, CreateVoucher

LEMMA PausedFail ==
    ASSUME RegistryInv, NEW c \in Chains,
           NEW s \in Slots, packets[s] # NoPacket, handle_packet_fail(s)
    PROVE  /\ SendsNothing(c)
           /\ DOMAIN ledger'[c] \subseteq DOMAIN ledger[c]
           /\ ReleasesOnlyRefunds(c)
<1> DEFINE p == packets[s]
           x == p.src.chain
           k == nftContract[x][p.class]
<1>1. /\ LedgerType /\ PacketType /\ x \in Chains /\ p.sender \in Users
  BY PacketFacts DEF RegistryInv, TypeOK
<1>2. /\ Exists(x, k, p.token) /\ Cw721Transfer(x, k, p.token, p.sender)
      /\ Forget(s)
  BY DEF handle_packet_fail, OwnedBy
<1>3. SendsNothing(c)
  BY <1>1, <1>2, SendsNothingFacts
<1>4. \A y \in Chains : DOMAIN ledger'[y] = DOMAIN ledger[y]
  BY <1>1, <1>2, TransferFacts
<1>5. CASE c # x
  <2>1. ledger'[c] = ledger[c]
    BY <1>1, <1>2, <1>5, OtherChains DEF Cw721Transfer
  <2> QED BY <1>3, <2>1, SameOwners
<1>6. CASE c = x
  <2>1. /\ ledger'[x][<<k, p.token>>].owner = p.sender
        /\ \A kt \in DOMAIN ledger[x] :
             kt # <<k, p.token>> => ledger'[x][kt] = ledger[x][kt]
    <3> DEFINE t == p.token
               u == p.sender
    <3>1. /\ LedgerType /\ x \in Chains
          /\ Exists(x, k, t) /\ Cw721Transfer(x, k, t, u)
      BY <1>1, <1>2
    <3> HIDE DEF k, x, p, t, u
    <3>2. /\ ledger'[x][<<k, t>>].owner = u
          /\ \A kt \in DOMAIN ledger[x] :
               kt # <<k, t>> => ledger'[x][kt] = ledger[x][kt]
      BY <3>1, TransferOwner
    <3> QED BY <3>2 DEF t, u
  <2>2. packets'[s] = NoPacket
    BY <1>1, <1>2 DEF Forget, PacketType
  <2>3. ReleasesOnlyRefunds(c)
    BY <1>4, <1>6, <2>1, <2>2 DEF ReleasesOnlyRefunds
  <2> QED BY <1>3, <1>4, <2>3
<1> QED BY <1>5, <1>6

LEMMA PausedAckSuccess ==
    ASSUME RegistryInv, NEW c \in Chains,
           NEW s \in Slots, packets[s] # NoPacket, AckSuccess(s)
    PROVE  /\ SendsNothing(c)
           /\ DOMAIN ledger'[c] \subseteq DOMAIN ledger[c]
           /\ ReleasesOnlyRefunds(c)
<1> DEFINE p == packets[s]
           x == p.src.chain
           k == nftContract[x][p.class]
<1>1. LedgerType /\ PacketType /\ x \in Chains
  BY PacketFacts DEF RegistryInv, TypeOK
<1>2. /\ Forget(s)
      /\ Cw721Burn(x, k, p.token) \/ ledger' = ledger
  BY DEF AckSuccess
<1>3. SendsNothing(c)
  BY <1>1, <1>2, SendsNothingFacts
<1>4. CASE ledger' = ledger
  BY <1>3, <1>4, SameOwners
<1>5. CASE Cw721Burn(x, k, p.token)
  <2>1. CASE c # x
    <3>1. ledger'[c] = ledger[c]
      BY <1>1, <1>5, <2>1, OtherChains DEF Cw721Burn
    <3> QED BY <1>3, <3>1, SameOwners
  <2>2. CASE c = x
    <3>1. \A kt \in DOMAIN ledger'[c] : ledger'[c][kt] = ledger[c][kt]
      BY <1>1, <1>5, <2>2, BurnOthers
    <3>2. DOMAIN ledger'[c] \subseteq DOMAIN ledger[c]
      BY <1>1, <1>5, BurnFacts
    <3> QED BY <1>3, <3>1, <3>2 DEF ReleasesOnlyRefunds
  <2> QED BY <2>1, <2>2
<1> QED BY <1>2, <1>4, <1>5

LEMMA PausedOwn ==
    ASSUME RegistryInv, NEW c \in Chains, NEW x \in Chains, NEW k, NEW t,
           NEW u \in Users,
           Burn(x, k, t, u) \/ \E v \in Users : TransferNft(x, k, t, u, v)
    PROVE  /\ SendsNothing(c)
           /\ DOMAIN ledger'[c] \subseteq DOMAIN ledger[c]
           /\ ReleasesOnlyRefunds(c)
<1>1. /\ LedgerType /\ OwnedBy(x, k, t, u) /\ packets' = packets
      /\ Exists(x, k, t) /\ ledger[x][<<k, t>>].owner # Bridge
  BY AddrsAssumption DEF RegistryInv, TypeOK, Burn, TransferNft, OwnedBy
<1>2. SendsNothing(c)
  BY <1>1 DEF SendsNothing
<1>3. CASE Burn(x, k, t, u)
  <2>1. Cw721Burn(x, k, t)
    BY <1>3 DEF Burn
  <2>2. CASE c # x
    <3>1. ledger'[c] = ledger[c]
      BY <1>1, <2>1, <2>2, OtherChains DEF Cw721Burn
    <3> QED BY <1>2, <3>1, SameOwners
  <2>3. CASE c = x
    <3>1. \A kt \in DOMAIN ledger'[c] : ledger'[c][kt] = ledger[c][kt]
      BY <1>1, <2>1, <2>3, BurnOthers
    <3>2. DOMAIN ledger'[c] \subseteq DOMAIN ledger[c]
      BY <1>1, <2>1, BurnFacts
    <3> QED BY <1>2, <3>1, <3>2 DEF ReleasesOnlyRefunds
  <2> QED BY <2>2, <2>3
<1>4. ASSUME NEW v \in Users, TransferNft(x, k, t, u, v)
      PROVE  /\ DOMAIN ledger'[c] \subseteq DOMAIN ledger[c]
             /\ ReleasesOnlyRefunds(c)
  <2>1. Cw721Transfer(x, k, t, v)
    BY <1>4 DEF TransferNft
  <2>2. CASE c # x
    <3>1. ledger'[c] = ledger[c]
      BY <1>1, <2>1, <2>2, OtherChains DEF Cw721Transfer
    <3> QED BY <3>1, SameOwners
  <2>3. CASE c = x
    <3>1. \A kt \in DOMAIN ledger[c] :
            kt # <<k, t>> => ledger'[c][kt] = ledger[c][kt]
      BY <1>1, <2>1, <2>3, TransferOwner
    <3>2. DOMAIN ledger'[c] = DOMAIN ledger[c]
      BY <1>1, <2>1, TransferFacts
    <3> QED BY <1>1, <2>3, <3>1, <3>2 DEF ReleasesOnlyRefunds
  <2> QED BY <2>2, <2>3
<1> QED BY <1>2, <1>3, <1>4

LEMMA PausedStepHolds == RegistryInv /\ [Next]_vars => [PausedStep]_vars
<1> SUFFICES ASSUME RegistryInv, Next, NEW c \in Chains, po[c].paused
             PROVE  /\ SendsNothing(c)
                    /\ DOMAIN ledger'[c] \subseteq DOMAIN ledger[c]
                    /\ ReleasesOnlyRefunds(c)
  BY DEF PausedStep
<1>1. CASE Send
  BY <1>1, PausedSend, SameOwners
     DEF Send, execute_receive_nft, execute_receive_proxy_nft
<1>2. ASSUME NEW s \in Slots, ibc_packet_receive(s)
      PROVE  /\ SendsNothing(c)
             /\ DOMAIN ledger'[c] \subseteq DOMAIN ledger[c]
             /\ ReleasesOnlyRefunds(c)
  BY <1>2, PausedReceive, SameOwners
<1>3. ASSUME NEW s \in Slots, ibc_packet_ack(s) \/ ibc_packet_timeout(s)
      PROVE  /\ SendsNothing(c)
             /\ DOMAIN ledger'[c] \subseteq DOMAIN ledger[c]
             /\ ReleasesOnlyRefunds(c)
  BY <1>3, PausedFail, PausedAckSuccess DEF ibc_packet_ack, ibc_packet_timeout
<1>4. CASE Own
  BY <1>4, PausedOwn DEF Own
<1>5. CASE Govern
  <2>1. ledger' = ledger /\ packets' = packets
    BY <1>5 DEF Govern, execute_pause, migrate
  <2> QED BY <2>1, SameOwners DEF SendsNothing
<1> QED BY <1>1, <1>2, <1>3, <1>4, <1>5 DEF Next, Relay

\* A paused bridge opens no new debt and pays out none: in every network, all
\* it does until it is migrated is settle the packets it has sent.
THEOREM PauseCorrect == Spec => PausedOnlySettles
BY RegistryInvInit, RegistryInvStep, PausedStepHolds, PTL
   DEF Spec, PausedOnlySettles
============================================================================
