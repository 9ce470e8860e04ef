---------------------------- MODULE EscrowProofs ---------------------------
(***************************************************************************)
(* For every network of bridges whose collections transfer what they are   *)
(* asked to transfer: vouchers are backed by escrow, packets can be        *)
(* settled, and escrow is accounted for.  For every network, faulty        *)
(* collections included: vouchers have their entries.                      *)
(***************************************************************************)
EXTENDS Ics721Proofs

EscrowInv ==
    RegistryInv /\ EscrowShape /\ MetadataTracksVouchers

(***************************************************************************)
(* Class IDs.                                                              *)
(***************************************************************************)

\* A popped prefix can be put back.
LEMMA UnprefixRoundTrip ==
    ASSUME NEW prefix, NEW x \in ClassId, HasPrefix(prefix, x)
    PROVE  Prefixed(prefix, Unprefixed(x)) = x
<1>1. /\ x.path \in Seq(Prefixes) /\ x.path # << >>
      /\ Head(x.path) = prefix /\ x = [path |-> x.path, base |-> x.base]
  BY DEF ClassId, HasPrefix
<1>2. <<Head(x.path)>> \o Tail(x.path) = x.path
  BY <1>1
<1> QED BY <1>1, <1>2 DEF Prefixed, Unprefixed

\* A class that has the prefix of e arrived through e.
LEMMA EntryByPrefix ==
    ASSUME NEW e \in Endpoints, NEW x, HasPrefix(PrefixOf(e), x)
    PROVE  EntryOf(e.chain, x) = e
<1>1. e = [chain |-> e.chain, channel |-> e.channel]
  BY NetworkAssumption
<1>2. Head(x.path)[2] = e.channel
  BY DEF HasPrefix, PrefixOf, get_endpoint_prefix
<1> QED BY <1>1, <1>2 DEF EntryOf

\* Two ends of one chain that have the same prefix are one.
LEMMA PrefixNamesEnd ==
    ASSUME NEW e \in Endpoints, NEW f \in Endpoints,
           e.chain = f.chain, PrefixOf(e) = PrefixOf(f)
    PROVE  e = f
<1>1. /\ e = [chain |-> e.chain, channel |-> e.channel]
      /\ f = [chain |-> f.chain, channel |-> f.channel]
  BY NetworkAssumption
<1>2. e.channel = f.channel
  BY DEF PrefixOf, get_endpoint_prefix
<1> QED BY <1>1, <1>2

(***************************************************************************)
(* What a step does, token by token.  A token is named by its chain, its   *)
(* class and its ID; each handler changes things for one token, so its     *)
(* effect is an update at one point of the predicates that the invariant   *)
(* is made of.                                                             *)
(***************************************************************************)

\* Registered contracts stay registered.
RegistryGrows ==
    \A c \in Chains : \A x \in DOMAIN nftContract[c] :
      x \in DOMAIN nftContract'[c] /\ nftContract'[c][x] = nftContract[c][x]

Same(d, y, z, c, x, t) == d = c /\ y = x /\ z = t

HeldBecomes(c, x, t, b) ==
    \A d \in Chains : \A y, z :
      CanRedeem(d, y, z)' <=> IF Same(d, y, z, c, x, t) THEN b
                              ELSE CanRedeem(d, y, z)

VoucherBecomes(c, x, t, b) ==
    \A d \in Chains : \A y, z :
      IsVoucher(d, y, z)' <=> IF Same(d, y, z, c, x, t) THEN b
                              ELSE IsVoucher(d, y, z)

\* What is held or a voucher, before and after, shows the same URI.
UrisKept ==
    \A d \in Chains : \A y, z :
      /\ CanRedeem(d, y, z) \/ IsVoucher(d, y, z)
      /\ CanRedeem(d, y, z)' \/ IsVoucher(d, y, z)'
      => UriOf(d, y, z)' = UriOf(d, y, z)

LEMMA ByWho ==
    ASSUME LedgerType, LedgerType'
    PROVE  \A c \in Chains : \A k, t :
             /\ Exists(c, k, t) <=> Who(c, k, t) # None
             /\ Exists(c, k, t)' <=> Who(c, k, t)' # None
             /\ OwnedBy(c, k, t, Bridge) <=> Who(c, k, t) = Bridge
             /\ OwnedBy(c, k, t, Bridge)' <=> Who(c, k, t)' = Bridge
             /\ Exists(c, k, t) => t \in Tokens
<1>1. ASSUME NEW c \in Chains, NEW k, NEW t
      PROVE  /\ Exists(c, k, t) => ledger[c][<<k, t>>].owner # None
             /\ Exists(c, k, t)' => ledger'[c][<<k, t>>].owner # None
             /\ Exists(c, k, t) => t \in Tokens
  <2>1. None \notin Users \cup {Bridge}
    BY AddrsAssumption
  <2>2. /\ Exists(c, k, t) => ledger[c][<<k, t>>] \in Nft
        /\ Exists(c, k, t)' => ledger'[c][<<k, t>>] \in Nft
        /\ Exists(c, k, t) => <<k, t>> \in Contracts \X Tokens
    BY DEF LedgerType, IsMap, Exists
  <2> QED BY <2>1, <2>2 DEF Nft
<1>2. None # Bridge
  BY AddrsAssumption
<1> QED BY <1>1, <1>2 DEF Who, OwnedBy

\* The owner of a token of a registered class changes.
LEMMA ClassPoint ==
    ASSUME RegistryInv, RegistryInv', EscrowRegistered, RegistryGrows,
           NEW c \in Chains, NEW x, NEW k, NEW t, NEW w,
           x \in DOMAIN nftContract'[c], nftContract'[c][x] = k,
           OwnerBecomes(c, k, t, w), ShowsKept
    PROVE  /\ EscrowRegistered' /\ UrisKept
           /\ HeldBecomes(c, x, t, w = Bridge)
           /\ VoucherBecomes(c, x, t, x.path # << >> /\ w # None)
<1>1. /\ LedgerType /\ LedgerType' /\ RegistryInverse /\ RegistryInverse'
      /\ LocalNames' /\ TokensRegistered
  BY DEF RegistryInv, TypeOK, RegistryShape
<1>2. \A d \in Chains : \A j \in DOMAIN nftClass[d] :
        /\ j \in DOMAIN nftClass'[d]
        /\ nftClass'[d][j] = nftClass[d][j]
        /\ nftClass[d][j] \in DOMAIN nftContract[d]
  BY <1>1 DEF RegistryInverse, RegistryGrows
<1>3. ASSUME NEW d \in Chains, NEW y \in DOMAIN nftContract'[d], NEW z, NEW j,
             j = nftContract'[d][y], ~Same(d, y, z, c, x, t)
      PROVE  Who(d, j, z)' = Who(d, j, z)
  <2>1. ~(d = c /\ j = k /\ z = t)
    BY <1>1, <1>3 DEF RegistryInverse, Same
  <2> QED BY <2>1 DEF OwnerBecomes
<1>4. ASSUME NEW d \in Chains, NEW j, NEW z, Who(d, j, z) = Bridge
      PROVE  j \in DOMAIN nftClass[d]
  <2>1. OwnedBy(d, j, z, Bridge)
    BY <1>1, <1>4, ByWho
  <2> QED BY <2>1 DEF OwnedBy, Exists, EscrowRegistered
<1>5. HeldBecomes(c, x, t, w = Bridge)
  <2> SUFFICES ASSUME NEW d \in Chains, NEW y, NEW z
               PROVE  CanRedeem(d, y, z)' <=>
                        IF Same(d, y, z, c, x, t) THEN w = Bridge
                        ELSE CanRedeem(d, y, z)
    BY DEF HeldBecomes
  <2>0. PICK j : j = nftContract'[d][y]
    OBVIOUS
  <2>1. /\ CanRedeem(d, y, z)' <=>
             y \in DOMAIN nftContract'[d] /\ Who(d, j, z)' = Bridge
        /\ CanRedeem(d, y, z) <=>
             y \in DOMAIN nftContract[d] /\ Who(d, j, z) = Bridge
    BY <2>0, AddrsAssumption
       DEF CanRedeem, Has, OwnedBy, Exists, Who, RegistryGrows
  <2>2. CASE Same(d, y, z, c, x, t)
    BY <2>0, <2>1, <2>2 DEF Same, OwnerBecomes
  <2>3. CASE ~Same(d, y, z, c, x, t) /\ y \in DOMAIN nftContract[d]
    BY <1>3, <2>0, <2>1, <2>3 DEF RegistryGrows
  <2>4. CASE /\ ~Same(d, y, z, c, x, t)
             /\ y \notin DOMAIN nftContract[d] /\ y \in DOMAIN nftContract'[d]
    <3>1. j \notin DOMAIN nftClass[d]
      BY <1>1, <1>2, <2>0, <2>4 DEF RegistryInverse
    <3> QED BY <1>3, <1>4, <2>0, <2>1, <2>4, <3>1
  <2>5. CASE ~Same(d, y, z, c, x, t) /\ y \notin DOMAIN nftContract'[d]
    BY <2>1, <2>5 DEF RegistryGrows
  <2> QED BY <2>2, <2>3, <2>4, <2>5
<1>6. VoucherBecomes(c, x, t, x.path # << >> /\ w # None)
  <2> SUFFICES ASSUME NEW d \in Chains, NEW y, NEW z
               PROVE  IsVoucher(d, y, z)' <=>
                        IF Same(d, y, z, c, x, t)
                        THEN x.path # << >> /\ w # None
                        ELSE IsVoucher(d, y, z)
    BY DEF VoucherBecomes
  <2>0. PICK j : j = nftContract'[d][y]
    OBVIOUS
  <2>1. /\ IsVoucher(d, y, z)' <=>
             /\ y.path # << >> /\ y \in DOMAIN nftContract'[d]
             /\ Exists(d, j, z)'
        /\ IsVoucher(d, y, z) <=>
             /\ y.path # << >> /\ y \in DOMAIN nftContract[d]
             /\ Exists(d, j, z)
    BY <2>0 DEF IsVoucher, Has, Exists, RegistryGrows
  <2>a. /\ Exists(d, j, z)' <=> Who(d, j, z)' # None
        /\ Exists(d, j, z) <=> Who(d, j, z) # None
    BY <1>1, ByWho
  <2>2. CASE Same(d, y, z, c, x, t)
    BY <2>0, <2>1, <2>a, <2>2 DEF Same, OwnerBecomes
  <2>3. CASE ~Same(d, y, z, c, x, t) /\ y \in DOMAIN nftContract[d]
    BY <1>3, <2>0, <2>1, <2>a, <2>3 DEF RegistryGrows
  <2>4. CASE /\ ~Same(d, y, z, c, x, t) /\ y.path # << >>
             /\ y \notin DOMAIN nftContract[d] /\ y \in DOMAIN nftContract'[d]
    <3>1. j \notin DOMAIN nftClass[d]
      BY <1>1, <1>2, <2>0, <2>4 DEF RegistryInverse
    <3>2. j \notin Collections
      BY <1>1, <2>0, <2>4, AddrsAssumption DEF LocalNames
    <3>3. ~Exists(d, j, z)
      BY <1>1, <3>1, <3>2 DEF TokensRegistered, Exists
    <3> QED BY <1>3, <2>0, <2>1, <2>a, <2>4, <3>3
  <2>5. CASE ~Same(d, y, z, c, x, t) /\ y \notin DOMAIN nftContract'[d]
    BY <2>1, <2>5 DEF RegistryGrows
  <2>6. CASE ~Same(d, y, z, c, x, t) /\ y.path = << >>
    BY <2>1, <2>6
  <2> QED BY <2>2, <2>3, <2>4, <2>5, <2>6
<1>7. UrisKept
  <2> SUFFICES ASSUME NEW d \in Chains, NEW y, NEW z,
                      CanRedeem(d, y, z) \/ IsVoucher(d, y, z),
                      CanRedeem(d, y, z)' \/ IsVoucher(d, y, z)'
               PROVE  UriOf(d, y, z)' = UriOf(d, y, z)
    BY DEF UrisKept
  <2>1. PICK j : j = nftContract[d][y]
    OBVIOUS
  <2>2. y \in DOMAIN nftContract[d] /\ Exists(d, j, z)
    BY <2>1 DEF CanRedeem, IsVoucher, OwnedBy, Has
  <2>3. nftContract'[d][y] = j
    BY <2>1, <2>2 DEF RegistryGrows
  <2>4. Exists(d, j, z)'
    BY <2>3 DEF CanRedeem, IsVoucher, OwnedBy, Exists
  <2>5. Shows(d, j, z)' = Shows(d, j, z)
    BY <2>2, <2>4 DEF ShowsKept
  <2> QED BY <2>1, <2>3, <2>5 DEF UriOf, Shows
<1>8. EscrowRegistered'
  <2> SUFFICES ASSUME NEW d \in Chains, NEW kt \in DOMAIN ledger'[d],
                      ledger'[d][kt].owner = Bridge
               PROVE  kt[1] \in DOMAIN nftClass'[d]
    BY DEF EscrowRegistered
  <2>0. kt \in Contracts \X Tokens
    BY <1>1 DEF LedgerType, IsMap
  <2>1. PICK j, z : kt = <<j, z>>
    BY <2>0
  <2>2. Who(d, j, z)' = Bridge
    BY <2>1 DEF Who, Exists
  <2>3. CASE d = c /\ j = k /\ z = t
    BY <1>1, <2>1, <2>3 DEF RegistryInverse
  <2>4. CASE ~(d = c /\ j = k /\ z = t)
    <3>1. Who(d, j, z) = Bridge
      BY <2>2, <2>4 DEF OwnerBecomes
    <3> QED BY <1>2, <1>4, <2>1, <3>1
  <2> QED BY <2>3, <2>4
<1> QED BY <1>5, <1>6, <1>7, <1>8


(***************************************************************************)
(* What is true of the tokens that a step does not touch stays true.       *)
(***************************************************************************)
Minted(c, x, t) == <<x, t>> \in tokenMetadata[c]

Arrived(c, x, t) == Has(incoming[c], <<x, t>>)

\* All that the invariant says about the tokens outside of D stays the same.
Frame(D) ==
    \A c \in Chains : \A x, t : <<c, x, t>> \notin D =>
      /\ CanRedeem(c, x, t)' <=> CanRedeem(c, x, t)
      /\ IsVoucher(c, x, t)' <=> IsVoucher(c, x, t)
      /\ \A h : SentOutOn(c, h, x, t)' <=> SentOutOn(c, h, x, t)
      /\ Pending(c, x, t)' <=> Pending(c, x, t)
      /\ OnTheWay(c, x, t)' <=> OnTheWay(c, x, t)
      /\ Redeemed(c, x, t)' <=> Redeemed(c, x, t)
      /\ Minted(c, x, t)' <=> Minted(c, x, t)
      /\ Arrived(c, x, t)' <=> Arrived(c, x, t)

TokenOf(s) == <<packets[s].src.chain, packets[s].class, packets[s].token>>

\* What a voucher stands for, and what stands for a token sent out through e.
Parent(c, x, t) == <<Peer[EntryOf(c, x)].chain, Unprefixed(x), t>>

Child(e, x, t) == <<Peer[e].chain, Prefixed(PrefixOf(Peer[e]), x), t>>

\* PacketsHold and SentOut, of one packet.
PacketFine(s) ==
    packets[s] # NoPacket =>
      LET p == packets[s] IN
      /\ Has(nftContract[p.src.chain], p.class)
      /\ Settles(s) => CanRedeem(p.src.chain, p.class, p.token)
      /\ p.phase = "sent" =>
           /\ SentOutOn(p.src.chain, p.src.channel, p.class, p.token)
           /\ p.uri = UriOf(p.src.chain, p.class, p.token)

LEMMA PacketsFine ==
    /\ PacketsHold /\ SentOut <=> \A s \in Slots : PacketFine(s)
    /\ PacketsHold' /\ SentOut' <=> \A s \in Slots : PacketFine(s)'
BY DEF PacketsHold, SentOut, PacketFine

LEMMA PacketKept ==
    ASSUME PacketType, RegistryGrows, UrisKept, NEW D, Frame(D),
           NEW s \in Slots, PacketFine(s), packets'[s] = packets[s],
           Settles(s) => TokenOf(s) \notin D
    PROVE  PacketFine(s)'
<1> SUFFICES ASSUME packets[s] # NoPacket PROVE PacketFine(s)'
  BY DEF PacketFine
<1>1. PICK c, x, t, h, u :
        /\ c = packets[s].src.chain /\ x = packets[s].class
        /\ t = packets[s].token /\ h = packets[s].src.channel
        /\ u = packets[s].uri
  OBVIOUS
<1>2. c \in Chains
  BY <1>1, PacketFacts
<1>3. /\ x \in DOMAIN nftContract[c]
      /\ Settles(s) => CanRedeem(c, x, t)
      /\ packets[s].phase = "sent" =>
           SentOutOn(c, h, x, t) /\ u = UriOf(c, x, t)
  BY <1>1 DEF PacketFine, Has
<1>4. x \in DOMAIN nftContract'[c]
  BY <1>2, <1>3 DEF RegistryGrows
<1>5. Settles(s)' <=> Settles(s)
  BY DEF Settles
<1>6. Settles(s) => CanRedeem(c, x, t)'
  BY <1>1, <1>2, <1>3 DEF Frame, TokenOf
<1>7. packets[s].phase = "sent" => SentOutOn(c, h, x, t)' /\ u = UriOf(c, x, t)'
  <2> SUFFICES ASSUME packets[s].phase = "sent"
               PROVE  SentOutOn(c, h, x, t)' /\ u = UriOf(c, x, t)'
    OBVIOUS
  <2>1. Settles(s)
    BY DEF Settles
  <2>2. SentOutOn(c, h, x, t)'
    BY <1>1, <1>2, <1>3, <2>1 DEF Frame, TokenOf
  <2>3. UriOf(c, x, t)' = UriOf(c, x, t)
    BY <1>2, <1>3, <1>6, <2>1 DEF UrisKept
  <2> QED BY <1>3, <2>2, <2>3
<1>8. /\ packets'[s] # NoPacket
      /\ packets'[s].src.chain = c /\ packets'[s].class = x
      /\ packets'[s].token = t /\ packets'[s].src.channel = h
      /\ packets'[s].uri = u /\ packets'[s].phase = packets[s].phase
  BY <1>1
<1> QED BY <1>4, <1>5, <1>6, <1>7, <1>8
        DEF PacketFine, Has, CanRedeem, SentOutOn, UriOf, OwnedBy, Exists

\* The vouchers, wherever they may be.
LEMMA AllVouchers ==
    ASSUME RegistryInv, NEW c \in Chains, NEW x, NEW t, IsVoucher(c, x, t)
    PROVE  x \in DOMAIN nftContract[c] /\ x \in ClassId /\ t \in Tokens
<1>1. /\ x \in DOMAIN nftContract[c] /\ Exists(c, nftContract[c][x], t)
  BY DEF IsVoucher, Has
<1>2. /\ IsMap(nftContract[c], ClassId, Contracts)
      /\ IsMap(ledger[c], Contracts \X Tokens, Nft)
  BY DEF RegistryInv, TypeOK, RegistryType, LedgerType
<1>3. <<nftContract[c][x], t>> \in Contracts \X Tokens
  BY <1>1, <1>2 DEF IsMap, Exists
<1> QED BY <1>1, <1>2, <1>3 DEF IsMap

LEMMA BackedKept ==
    ASSUME UrisKept, NEW D, Frame(D), NEW c \in Chains, NEW x, NEW t,
           IsVoucher(c, x, t), IsVoucher(c, x, t)', Backed(c, x, t),
           EntryOf(c, x) \in Endpoints, Parent(c, x, t) \notin D
    PROVE  Backed(c, x, t)'
<1>1. PICK d, h, y : /\ d = Peer[EntryOf(c, x)].chain
                     /\ h = Peer[EntryOf(c, x)].channel
                     /\ y = Unprefixed(x)
  OBVIOUS
<1>2. d \in Chains /\ <<d, y, t>> \notin D
  BY <1>1, PrefixOfType DEF Parent
<1>3. /\ CanRedeem(d, y, t) /\ SentOutOn(d, h, y, t) /\ ~Pending(d, y, t)
      /\ UriOf(c, x, t) = UriOf(d, y, t)
  BY <1>1 DEF Backed
<1>4. /\ CanRedeem(d, y, t)' /\ SentOutOn(d, h, y, t)' /\ ~Pending(d, y, t)'
  BY <1>2, <1>3 DEF Frame
<1>5. UriOf(c, x, t)' = UriOf(d, y, t)'
  BY <1>2, <1>3, <1>4 DEF UrisKept
<1> QED BY <1>1, <1>4, <1>5 DEF Backed

\* There is someone to claim the token: it is not stranded.
Accounted(c, x, t) ==
    \/ OnTheWay(c, x, t) \/ Redeemed(c, x, t)
    \/ \E e \in Endpoints :
         e.chain = c /\ EscrowedFor(c, e.channel, x, t) /\ Claimed(e, x, t)

\* Only the tokens of K may be stranded.
AllAccounted(K) ==
    \A c \in Chains : \A x, t :
      CanRedeem(c, x, t) => Accounted(c, x, t) \/ <<c, x, t>> \in K

LEMMA AccountedKept ==
    ASSUME NEW D, Frame(D), NEW c \in Chains, NEW x, NEW t,
           Accounted(c, x, t), CanRedeem(c, x, t)', <<c, x, t>> \notin D,
           \A e \in Endpoints :
             e.chain = c /\ Claimed(e, x, t) /\ Child(e, x, t) \in D =>
               Claimed(e, x, t)'
    PROVE  Accounted(c, x, t)'
<1>1. CASE OnTheWay(c, x, t) \/ Redeemed(c, x, t)
  BY <1>1 DEF Frame, Accounted
<1>2. ASSUME NEW e \in Endpoints, e.chain = c,
             EscrowedFor(c, e.channel, x, t), Claimed(e, x, t)
      PROVE  Accounted(c, x, t)'
  <2>1. EscrowedFor(c, e.channel, x, t)'
    BY <1>2 DEF Frame, EscrowedFor
  <2>2. PICK d, y : d = Peer[e].chain /\ y = Prefixed(PrefixOf(Peer[e]), x)
    OBVIOUS
  <2>3. d \in Chains
    BY <2>2, PrefixOfType
  <2>4. Claimed(e, x, t) <=> Minted(d, y, t) /\ ~Redeemed(d, y, t)
    BY <2>2 DEF Claimed, Minted
  <2>5. Claimed(e, x, t)' <=> Minted(d, y, t)' /\ ~Redeemed(d, y, t)'
    BY <2>2 DEF Claimed, Minted
  <2>6. Claimed(e, x, t)'
    <3>1. CASE Child(e, x, t) \in D
      BY <1>2, <3>1
    <3>2. CASE Child(e, x, t) \notin D
      <4>1. <<d, y, t>> \notin D
        BY <2>2, <3>2 DEF Child
      <4> QED BY <1>2, <2>3, <2>4, <2>5, <4>1 DEF Frame
    <3> QED BY <3>1, <3>2
  <2> QED BY <1>2, <2>1, <2>6 DEF Accounted
<1> QED BY <1>1, <1>2 DEF Accounted

\* The metadata and the incoming entries of the vouchers.
AllMetadata ==
    /\ \A c \in Chains : \A key \in tokenMetadata[c] : Has(nftContract[c], key[1])
    /\ \A c \in Chains : \A x, t :
         IsVoucher(c, x, t) => Minted(c, x, t) /\ Arrived(c, x, t)

\* An incoming entry can only name the channel of its class.
LEMMA MetadataByClass ==
    RegistryInv /\ VoucherNames => (MetadataTracksVouchers <=> AllMetadata)
<1> SUFFICES ASSUME RegistryInv, VoucherNames
             PROVE  MetadataTracksVouchers <=> AllMetadata
  OBVIOUS
<1>1. ASSUME MetadataTracksVouchers PROVE AllMetadata
  BY <1>1, AllVouchers DEF MetadataTracksVouchers, AllMetadata, Minted, Arrived
<1>2. ASSUME AllMetadata PROVE MetadataTracksVouchers
  <2>1. ASSUME NEW c \in Chains, NEW class \in DOMAIN nftContract[c],
               NEW t \in Tokens, IsVoucher(c, class, t)
        PROVE  /\ <<class, t>> \in tokenMetadata[c]
               /\ Has(incoming[c], <<class, t>>)
               /\ incoming[c][<<class, t>>] = EntryOf(c, class).channel
    <3>1. <<class, t>> \in tokenMetadata[c] /\ <<class, t>> \in DOMAIN incoming[c]
      BY <1>2, <2>1 DEF AllMetadata, Minted, Arrived, Has
    <3>2. HasPrefix(<<Port[c], incoming[c][<<class, t>>]>>, class)
      BY <3>1 DEF VoucherNames, get_endpoint_prefix
    <3>3. Head(class.path)[2] = incoming[c][<<class, t>>]
      BY <3>2 DEF HasPrefix
    <3> QED BY <3>1, <3>3 DEF EntryOf, Has
  <2> QED BY <1>2, <2>1 DEF MetadataTracksVouchers, AllMetadata
<1> QED BY <1>1, <1>2

\* The vouchers are backed, wherever they are.
AllBacked ==
    \A c \in Chains : \A x, t :
      IsVoucher(c, x, t) => Redeemed(c, x, t) \/ Backed(c, x, t)

LEMMA BackedByClass == RegistryInv => (Backing <=> AllBacked)
<1> SUFFICES ASSUME RegistryInv PROVE Backing <=> AllBacked
  OBVIOUS
<1> QED BY AllVouchers DEF Backing, AllBacked

\* EscrowInv, token by token, and only tokens of K are stranded.
TokenInv(K) ==
    /\ RegistryInv /\ EscrowRegistered /\ VoucherNames
    /\ SettledOnce /\ \A s \in Slots : PacketFine(s)
    /\ AllBacked /\ AllMetadata /\ AllAccounted(K)

LEMMA TokenByToken == \A K : TokenInv(K) <=> EscrowInv /\ AllAccounted(K)
BY PacketsFine, BackedByClass, MetadataByClass
   DEF EscrowInv, EscrowShape, TokenInv

\* A voucher class is named after an end of a channel of its chain.
LEMMA VoucherEntry ==
    ASSUME VoucherNames, NEW c \in Chains, NEW x, NEW t, IsVoucher(c, x, t)
    PROVE  /\ EntryOf(c, x) \in Endpoints /\ EntryOf(c, x).chain = c
           /\ HasPrefix(PrefixOf(EntryOf(c, x)), x)
<1>1. x \in DOMAIN nftContract[c] /\ x.path # << >>
  BY DEF IsVoucher, Has
<1> QED BY <1>1 DEF VoucherNames, EntryOf, HasPrefix

\* It remains to look at the tokens that a step touches, at the vouchers that
\* stand for them and at the tokens that they stand for.
LEMMA FrameStep ==
    ASSUME NEW K, TokenInv(K), RegistryInv', EscrowRegistered', VoucherNames', SettledOnce',
           RegistryGrows, UrisKept, NEW D, Frame(D),
           \A s \in Slots :
             \/ packets'[s] = packets[s] /\ (Settles(s) => TokenOf(s) \notin D)
             \/ PacketFine(s)',
           \A c \in Chains : \A x, t :
             /\ IsVoucher(c, x, t)'
             /\ <<c, x, t>> \in D \/ Parent(c, x, t) \in D
             => Redeemed(c, x, t)' \/ Backed(c, x, t)',
           \A c \in Chains : \A x, t :
             IsVoucher(c, x, t)' /\ <<c, x, t>> \in D =>
               Minted(c, x, t)' /\ Arrived(c, x, t)',
           \A c \in Chains : \A key \in tokenMetadata'[c] :
             key \in tokenMetadata[c] \/ key[1] \in DOMAIN nftContract'[c],
           \A c \in Chains : \A x, t :
             CanRedeem(c, x, t)' /\ <<c, x, t>> \in D =>
               Accounted(c, x, t)' \/ <<c, x, t>> \in K,
           \A e \in Endpoints : \A x, t :
             /\ Child(e, x, t) \in D /\ <<e.chain, x, t>> \notin D
             /\ Claimed(e, x, t) /\ CanRedeem(e.chain, x, t)
             => Claimed(e, x, t)'
    PROVE  TokenInv(K)'
<1>1. ASSUME NEW s \in Slots PROVE PacketFine(s)'
  <2>1. CASE packets'[s] = packets[s] /\ (Settles(s) => TokenOf(s) \notin D)
    <3>1. PacketType /\ PacketFine(s)
      BY DEF TokenInv, RegistryInv, TypeOK
    <3> QED BY <2>1, <3>1, PacketKept
  <2> QED BY <2>1
<1>2. AllBacked'
  <2> SUFFICES ASSUME NEW c \in Chains, NEW x, NEW t, IsVoucher(c, x, t)',
                      <<c, x, t>> \notin D, Parent(c, x, t) \notin D
               PROVE  Redeemed(c, x, t)' \/ Backed(c, x, t)'
    BY DEF AllBacked
  <2>1. IsVoucher(c, x, t)
    BY DEF Frame
  <2>2. EntryOf(c, x) \in Endpoints
    BY <2>1, VoucherEntry DEF TokenInv
  <2>3. CASE Redeemed(c, x, t)
    BY <2>3 DEF Frame
  <2>4. CASE Backed(c, x, t)
    BY <2>1, <2>2, <2>4, BackedKept
  <2> QED BY <2>1, <2>3, <2>4 DEF TokenInv, AllBacked
<1>3. AllMetadata'
  <2>1. ASSUME NEW c \in Chains, NEW x, NEW t, IsVoucher(c, x, t)'
        PROVE  Minted(c, x, t)' /\ Arrived(c, x, t)'
    <3>1. CASE <<c, x, t>> \in D
      BY <2>1, <3>1
    <3>2. CASE <<c, x, t>> \notin D
      BY <2>1, <3>2 DEF Frame, TokenInv, AllMetadata
    <3> QED BY <3>1, <3>2
  <2>2. ASSUME NEW c \in Chains, NEW key \in tokenMetadata'[c]
        PROVE  key[1] \in DOMAIN nftContract'[c]
    BY <2>2 DEF TokenInv, AllMetadata, Has, RegistryGrows
  <2> QED BY <2>1, <2>2 DEF AllMetadata, Has
<1>4. AllAccounted(K)'
  <2> SUFFICES ASSUME NEW c \in Chains, NEW x, NEW t, CanRedeem(c, x, t)',
                      <<c, x, t>> \notin D, <<c, x, t>> \notin K
               PROVE  Accounted(c, x, t)'
    BY DEF AllAccounted
  <2>1. CanRedeem(c, x, t)
    BY DEF Frame
  <2>2. Accounted(c, x, t)
    BY <2>1 DEF TokenInv, AllAccounted
  <2> QED BY <2>1, <2>2, AccountedKept
<1> QED BY <1>1, <1>2, <1>3, <1>4 DEF TokenInv

(***************************************************************************)
(* The routing entries and the packets, token by token.                    *)
(***************************************************************************)
SentOutElsewhere(c, x, t) ==
    \A d \in Chains : \A y, z, h : ~Same(d, y, z, c, x, t) =>
      (SentOutOn(d, h, y, z)' <=> SentOutOn(d, h, y, z))

LEMMA SentOutPoint ==
    ASSUME RouteType, NEW c \in Chains, NEW x, NEW t,
           \/ outgoing' = outgoing
           \/ \E h : outgoing' = [outgoing EXCEPT ![c] = Save(@, <<x, t>>, h)]
           \/ outgoing' = [outgoing EXCEPT ![c] = Remove(@, <<x, t>>)]
    PROVE  SentOutElsewhere(c, x, t)
<1> SUFFICES ASSUME NEW d \in Chains, NEW y, NEW z, NEW h,
                    ~Same(d, y, z, c, x, t)
             PROVE  SentOutOn(d, h, y, z)' <=> SentOutOn(d, h, y, z)
  BY DEF SentOutElsewhere
<1>1. \A b \in Chains : b # c => outgoing'[b] = outgoing[b]
  BY DEF RouteType, PerChain
<1>2. CASE d # c
  BY <1>1, <1>2 DEF SentOutOn
<1>3. CASE d = c
  <2>1. <<y, z>> # <<x, t>>
    BY <1>3 DEF Same
  <2>2. \/ outgoing'[c] = outgoing[c]
        \/ \E v : outgoing'[c] = Save(outgoing[c], <<x, t>>, v)
        \/ outgoing'[c] = Remove(outgoing[c], <<x, t>>)
    BY DEF RouteType, PerChain
  <2>3. /\ <<y, z>> \in DOMAIN outgoing'[c] <=> <<y, z>> \in DOMAIN outgoing[c]
        /\ <<y, z>> \in DOMAIN outgoing[c] =>
             outgoing'[c][<<y, z>>] = outgoing[c][<<y, z>>]
    BY <2>1, <2>2 DEF Save, Remove
  <2> QED BY <1>3, <2>3 DEF SentOutOn, Has
<1> QED BY <1>2, <1>3

EntriesElsewhere(c, x, t) ==
    \A d \in Chains : \A y, z : ~Same(d, y, z, c, x, t) =>
      /\ Minted(d, y, z)' <=> Minted(d, y, z)
      /\ Arrived(d, y, z)' <=> Arrived(d, y, z)

LEMMA EntriesPoint ==
    ASSUME RouteType, NEW c \in Chains, NEW x, NEW t,
           \/ incoming' = incoming
           \/ \E h : incoming' = [incoming EXCEPT ![c] = Save(@, <<x, t>>, h)]
           \/ incoming' = [incoming EXCEPT ![c] = Remove(@, <<x, t>>)],
           \/ tokenMetadata' = tokenMetadata
           \/ tokenMetadata' = [tokenMetadata EXCEPT ![c] = @ \cup {<<x, t>>}]
           \/ tokenMetadata' = [tokenMetadata EXCEPT ![c] = @ \ {<<x, t>>}]
    PROVE  EntriesElsewhere(c, x, t)
<1> SUFFICES ASSUME NEW d \in Chains, NEW y, NEW z, ~Same(d, y, z, c, x, t)
             PROVE  /\ Minted(d, y, z)' <=> Minted(d, y, z)
                    /\ Arrived(d, y, z)' <=> Arrived(d, y, z)
  BY DEF EntriesElsewhere
<1>1. \A b \in Chains : b # c =>
        incoming'[b] = incoming[b] /\ tokenMetadata'[b] = tokenMetadata[b]
  BY DEF RouteType, PerChain
<1>2. CASE d # c
  BY <1>1, <1>2 DEF Minted, Arrived
<1>3. CASE d = c
  <2>1. <<y, z>> # <<x, t>>
    BY <1>3 DEF Same
  <2>2. \/ incoming'[c] = incoming[c]
        \/ \E v : incoming'[c] = Save(incoming[c], <<x, t>>, v)
        \/ incoming'[c] = Remove(incoming[c], <<x, t>>)
    BY DEF RouteType, PerChain
  <2>3. <<y, z>> \in DOMAIN incoming'[c] <=> <<y, z>> \in DOMAIN incoming[c]
    BY <2>1, <2>2 DEF Save, Remove
  <2>4. <<y, z>> \in tokenMetadata'[c] <=> <<y, z>> \in tokenMetadata[c]
    BY <2>1 DEF RouteType, PerChain
  <2> QED BY <1>3, <2>3, <2>4 DEF Minted, Arrived, Has
<1> QED BY <1>2, <1>3

PacketsElsewhere(c, x, t) ==
    \A d \in Chains : \A y, z : ~Same(d, y, z, c, x, t) =>
      /\ Pending(d, y, z)' <=> Pending(d, y, z)
      /\ OnTheWay(d, y, z)' <=> OnTheWay(d, y, z)
      /\ Redeemed(d, y, z)' <=> Redeemed(d, y, z)

\* Whether a packet carries a token, and what this means for the token.
Redeems(s) ==
    /\ packets[s] # NoPacket /\ packets[s].phase = "ok"
    /\ HasPrefix(PrefixOf(packets[s].src), packets[s].class)

LEMMA ByTokenOf ==
    \A c, x, t :
      /\ Pending(c, x, t) <=>
           \E s \in Slots : Settles(s) /\ TokenOf(s) = <<c, x, t>>
      /\ Pending(c, x, t)' <=>
           \E s \in Slots : Settles(s)' /\ TokenOf(s)' = <<c, x, t>>
      /\ OnTheWay(c, x, t) <=>
           \E s \in Slots : InTransit(s) /\ TokenOf(s) = <<c, x, t>>
      /\ OnTheWay(c, x, t)' <=>
           \E s \in Slots : InTransit(s)' /\ TokenOf(s)' = <<c, x, t>>
      /\ Redeemed(c, x, t) <=>
           \E s \in Slots : Redeems(s) /\ TokenOf(s) = <<c, x, t>>
      /\ Redeemed(c, x, t)' <=>
           \E s \in Slots : Redeems(s)' /\ TokenOf(s)' = <<c, x, t>>
BY DEF Pending, OnTheWay, Redeemed, Carries, TokenOf, Redeems

LEMMA SettlesCases ==
    ASSUME PacketType
    PROVE  \A s \in Slots : Settles(s) <=> InTransit(s) \/ Redeems(s)
BY PacketFacts DEF Settles, InTransit, Redeems, Packet

LEMMA OthersSame ==
    ASSUME NEW s, OthersKept(s)
    PROVE  \A r \in Slots : r # s =>
             /\ Settles(r)' <=> Settles(r)
             /\ InTransit(r)' <=> InTransit(r)
             /\ Redeems(r)' <=> Redeems(r)
             /\ TokenOf(r)' = TokenOf(r)
BY DEF OthersKept, Settles, InTransit, Redeems, TokenOf

LEMMA PacketsPoint ==
    ASSUME NEW s \in Slots, OthersKept(s), NEW c, NEW x, NEW t,
           packets[s] # NoPacket => TokenOf(s) = <<c, x, t>>,
           packets'[s] # NoPacket => TokenOf(s)' = <<c, x, t>>
    PROVE  PacketsElsewhere(c, x, t)
<1> SUFFICES ASSUME NEW d \in Chains, NEW y, NEW z, ~Same(d, y, z, c, x, t)
             PROVE  /\ Pending(d, y, z)' <=> Pending(d, y, z)
                    /\ OnTheWay(d, y, z)' <=> OnTheWay(d, y, z)
                    /\ Redeemed(d, y, z)' <=> Redeemed(d, y, z)
  BY DEF PacketsElsewhere
<1>1. <<d, y, z>> # <<c, x, t>>
  BY DEF Same
<1>2. /\ Settles(s) \/ InTransit(s) \/ Redeems(s) => TokenOf(s) # <<d, y, z>>
      /\ Settles(s)' \/ InTransit(s)' \/ Redeems(s)' => TokenOf(s)' # <<d, y, z>>
  BY <1>1 DEF Settles, InTransit, Redeems
<1>3. Pending(d, y, z)' <=> Pending(d, y, z)
  BY <1>2, OthersSame, ByTokenOf
<1>4. OnTheWay(d, y, z)' <=> OnTheWay(d, y, z)
  BY <1>2, OthersSame, ByTokenOf
<1>5. Redeemed(d, y, z)' <=> Redeemed(d, y, z)
  BY <1>2, OthersSame, ByTokenOf
<1> QED BY <1>3, <1>4, <1>5

\* No packet other than s will take the token.
Alone(s, c, x, t) ==
    \A r \in Slots : r # s /\ Settles(r) => TokenOf(r) # <<c, x, t>>

LEMMA PacketsAtPoint ==
    ASSUME PacketType, NEW s \in Slots, OthersKept(s),
           NEW c, NEW x, NEW t, Alone(s, c, x, t),
           packets'[s] # NoPacket => TokenOf(s)' = <<c, x, t>>
    PROVE  /\ Pending(c, x, t)' <=> Settles(s)'
           /\ OnTheWay(c, x, t)' <=> InTransit(s)'
           /\ Redeemed(c, x, t)' <=> Redeems(s)'
<1>1. /\ Settles(s)' => TokenOf(s)' = <<c, x, t>>
      /\ InTransit(s)' => TokenOf(s)' = <<c, x, t>>
      /\ Redeems(s)' => TokenOf(s)' = <<c, x, t>>
  BY DEF Settles, InTransit, Redeems
<1>2. \A r \in Slots : r # s /\ (Settles(r)' \/ InTransit(r)' \/ Redeems(r)') =>
        TokenOf(r)' # <<c, x, t>>
  BY OthersSame, SettlesCases DEF Alone
<1> QED BY <1>1, <1>2, ByTokenOf

LEMMA SettledOnceAfter ==
    ASSUME SettledOnce, NEW s \in Slots, OthersKept(s),
           NEW c, NEW x, NEW t, Alone(s, c, x, t),
           Settles(s)' => TokenOf(s)' = <<c, x, t>>
    PROVE  SettledOnce'
<1>1. \A r, q \in Slots :
        Settles(r) /\ Settles(q) /\ TokenOf(r) = TokenOf(q) => r = q
  BY DEF SettledOnce, Carries, TokenOf
<1>2. \A r, q \in Slots :
        Settles(r)' /\ Settles(q)' /\ TokenOf(r)' = TokenOf(q)' => r = q
  BY <1>1, OthersSame DEF Alone
<1> QED BY <1>2 DEF SettledOnce, Carries, TokenOf

\* A packet that will take a token is alone with it.
LEMMA AloneFacts ==
    ASSUME SettledOnce, NEW s \in Slots, Settles(s),
           NEW c, NEW x, NEW t, TokenOf(s) = <<c, x, t>>
    PROVE  Alone(s, c, x, t)
BY DEF SettledOnce, Carries, TokenOf, Alone

(***************************************************************************)
(* What the invariant says about the tokens that a step touches.           *)
(***************************************************************************)

\* What a voucher stands for is on another chain.
LEMMA ParentElsewhere ==
    ASSUME NEW c, NEW x, NEW t,
           EntryOf(c, x) \in Endpoints, EntryOf(c, x).chain = c
    PROVE  /\ Peer[EntryOf(c, x)] \in Endpoints
           /\ Peer[EntryOf(c, x)].chain \in Chains
           /\ Peer[EntryOf(c, x)].chain # c
BY NetworkAssumption, PrefixOfType

\* A packet takes what the bridge holds, and nothing that nobody will take is
\* on its way or redeemed.
LEMMA PendingHeld ==
    ASSUME NEW K, TokenInv(K), NEW c, NEW x, NEW t
    PROVE  /\ Pending(c, x, t) => CanRedeem(c, x, t)
           /\ OnTheWay(c, x, t) \/ Redeemed(c, x, t) => Pending(c, x, t)
<1>1. ASSUME NEW s \in Slots, Settles(s), TokenOf(s) = <<c, x, t>>
      PROVE  CanRedeem(c, x, t)
  <2>1. PacketFine(s) /\ packets[s] # NoPacket
    BY <1>1 DEF TokenInv, Settles
  <2>2. /\ packets[s].src.chain = c /\ packets[s].class = x
        /\ packets[s].token = t
    BY <1>1 DEF TokenOf
  <2> QED BY <1>1, <2>1, <2>2 DEF PacketFine
<1>2. PacketType
  BY DEF TokenInv, RegistryInv, TypeOK
<1> QED BY <1>1, <1>2, ByTokenOf, SettlesCases

\* A token that a user holds, or that a packet will take, has no voucher that
\* is still good.
LEMMA NoVoucherFor ==
    ASSUME NEW K, TokenInv(K), NEW c, NEW x, NEW t,
           ~CanRedeem(c, x, t) \/ Pending(c, x, t),
           NEW d \in Chains, NEW y, NEW z,
           IsVoucher(d, y, z), Parent(d, y, z) = <<c, x, t>>
    PROVE  Redeemed(d, y, z)
<1>1. Redeemed(d, y, z) \/ Backed(d, y, z)
  BY DEF TokenInv, AllBacked
<1>2. /\ Peer[EntryOf(d, y)].chain = c /\ Unprefixed(y) = x /\ z = t
  BY DEF Parent
<1> QED BY <1>1, <1>2 DEF Backed

\* A voucher that stays one and was not redeemed stays backed, if the step
\* does not touch what it stands for.
LEMMA StaysBacked ==
    ASSUME NEW K, TokenInv(K), UrisKept, NEW D, Frame(D), NEW c \in Chains, NEW x, NEW t,
           IsVoucher(c, x, t), IsVoucher(c, x, t)', ~Redeemed(c, x, t),
           Parent(c, x, t) \notin D
    PROVE  Backed(c, x, t)'
<1>1. EntryOf(c, x) \in Endpoints
  BY VoucherEntry DEF TokenInv
<1>2. Backed(c, x, t)
  BY DEF TokenInv, AllBacked
<1> QED BY <1>1, <1>2, BackedKept

\* The steps that touch a single token, one without a good voucher.
LEMMA OneToken ==
    ASSUME NEW K, TokenInv(K), RegistryInv', EscrowRegistered', VoucherNames', SettledOnce',
           RegistryGrows, UrisKept, NEW c \in Chains, NEW x, NEW t,
           Frame({<<c, x, t>>}),
           ~CanRedeem(c, x, t) \/ Pending(c, x, t),
           \A s \in Slots :
             \/ /\ packets'[s] = packets[s]
                /\ Settles(s) => TokenOf(s) # <<c, x, t>>
             \/ PacketFine(s)',
           IsVoucher(c, x, t)' =>
             /\ IsVoucher(c, x, t) /\ ~Redeemed(c, x, t)
             /\ Minted(c, x, t)' /\ Arrived(c, x, t)',
           CanRedeem(c, x, t)' => OnTheWay(c, x, t)',
           Minted(c, x, t) /\ ~Redeemed(c, x, t) =>
             Minted(c, x, t)' /\ ~Redeemed(c, x, t)',
           \A d \in Chains : tokenMetadata'[d] \subseteq tokenMetadata[d]
    PROVE  TokenInv(K)'
<1> DEFINE D == {<<c, x, t>>}
<1>1. \A s \in Slots :
        \/ packets'[s] = packets[s] /\ (Settles(s) => TokenOf(s) \notin D)
        \/ PacketFine(s)'
  OBVIOUS
<1>2. ASSUME NEW d \in Chains, NEW y, NEW z, IsVoucher(d, y, z)',
             <<d, y, z>> \in D \/ Parent(d, y, z) \in D
      PROVE  Redeemed(d, y, z)' \/ Backed(d, y, z)'
  <2>1. CASE <<d, y, z>> \in D
    <3>1. d = c /\ y = x /\ z = t
      BY <2>1
    <3>2. IsVoucher(c, x, t) /\ IsVoucher(c, x, t)' /\ ~Redeemed(c, x, t)
      BY <1>2, <3>1
    <3>3. EntryOf(c, x) \in Endpoints /\ EntryOf(c, x).chain = c
      BY <3>2, VoucherEntry DEF TokenInv
    <3>4. Parent(c, x, t) \notin D
      BY <3>3, ParentElsewhere DEF Parent
    <3>5. Backed(c, x, t)'
      BY <3>2, <3>4, StaysBacked
    <3> QED BY <3>1, <3>5
  <2>2. CASE <<d, y, z>> \notin D /\ Parent(d, y, z) \in D
    <3>1. IsVoucher(d, y, z)
      BY <1>2, <2>2 DEF Frame
    <3>2. Parent(d, y, z) = <<c, x, t>>
      BY <2>2
    <3>3. Redeemed(d, y, z)
      BY <3>1, <3>2, NoVoucherFor
    <3> QED BY <2>2, <3>3 DEF Frame
  <2> QED BY <1>2, <2>1, <2>2
<1>3. \A d \in Chains : \A y, z :
        IsVoucher(d, y, z)' /\ <<d, y, z>> \in D =>
          Minted(d, y, z)' /\ Arrived(d, y, z)'
  OBVIOUS
<1>4. \A d \in Chains : \A y, z :
        CanRedeem(d, y, z)' /\ <<d, y, z>> \in D => Accounted(d, y, z)'
  BY DEF Accounted
<1>5. ASSUME NEW e \in Endpoints, NEW y, NEW z, Child(e, y, z) \in D,
             Claimed(e, y, z)
      PROVE  Claimed(e, y, z)'
  <2>1. Peer[e].chain = c /\ Prefixed(PrefixOf(Peer[e]), y) = x /\ z = t
    BY <1>5 DEF Child
  <2>2. Minted(c, x, t) /\ ~Redeemed(c, x, t)
    BY <1>5, <2>1 DEF Claimed, Minted
  <2>3. Minted(c, x, t)' /\ ~Redeemed(c, x, t)'
    BY <2>2
  <2> QED BY <2>1, <2>3 DEF Claimed, Minted
<1>6. \A d \in Chains : \A key \in tokenMetadata'[d] :
        key \in tokenMetadata[d] \/ key[1] \in DOMAIN nftContract'[d]
  OBVIOUS
<1> HIDE DEF D
<1>7. Frame(D)
  BY DEF D
<1> QED BY <1>1, <1>2, <1>3, <1>4, <1>5, <1>6, <1>7, FrameStep

\* The steps that touch none.
LEMMA NoToken ==
    ASSUME NEW K, TokenInv(K), RegistryInv', EscrowRegistered', VoucherNames', SettledOnce',
           RegistryGrows, UrisKept, Frame({}),
           \A s \in Slots : packets'[s] = packets[s] \/ PacketFine(s)',
           UNCHANGED tokenMetadata
    PROVE  TokenInv(K)'
<1> DEFINE D == {}
<1>1. Frame(D) /\ \A y : y \notin D
  OBVIOUS
<1> HIDE DEF D
<1> QED BY <1>1, FrameStep

\* Steps that leave the ledgers and the registries alone.
LEMMA LedgersKept ==
    ASSUME EscrowRegistered, UNCHANGED <<ledger, nftContract, nftClass>>
    PROVE  /\ EscrowRegistered' /\ RegistryGrows /\ UrisKept
           /\ \A c, x, t : /\ CanRedeem(c, x, t)' <=> CanRedeem(c, x, t)
                           /\ IsVoucher(c, x, t)' <=> IsVoucher(c, x, t)
<1>1. EscrowRegistered'
  BY DEF EscrowRegistered
<1>2. RegistryGrows
  BY DEF RegistryGrows
<1>3. UrisKept
  BY DEF UrisKept, UriOf
<1>4. \A c, x, t : /\ CanRedeem(c, x, t)' <=> CanRedeem(c, x, t)
                   /\ IsVoucher(c, x, t)' <=> IsVoucher(c, x, t)
  BY DEF CanRedeem, IsVoucher, OwnedBy, Exists
<1> QED BY <1>1, <1>2, <1>3, <1>4

\* A packet whose token is on its way fails: its token stays where it is.
LEMMA FailKeeps ==
    ASSUME NEW K, TokenInv(K), NEW s \in Slots, InTransit(s), OthersKept(s),
           PhaseBecomes(s, "fail")
    PROVE  /\ SettledOnce'
           /\ \A c, x, t :
                /\ Pending(c, x, t)' <=> Pending(c, x, t)
                /\ OnTheWay(c, x, t)' <=> OnTheWay(c, x, t)
                /\ Redeemed(c, x, t)' <=> Redeemed(c, x, t)
<1>1. /\ Settles(s) /\ Settles(s)' /\ InTransit(s)'
      /\ ~Redeems(s) /\ ~Redeems(s)'
  BY DEF PhaseBecomes, Settles, InTransit, Redeems
<1>2. TokenOf(s)' = TokenOf(s)
  BY DEF PhaseBecomes, TokenOf
<1>3. \A r \in Slots : /\ Settles(r)' <=> Settles(r)
                       /\ InTransit(r)' <=> InTransit(r)
                       /\ Redeems(r)' <=> Redeems(r)
                       /\ TokenOf(r)' = TokenOf(r)
  BY <1>1, <1>2, OthersSame
<1>4. PICK c, x, t : TokenOf(s) = <<c, x, t>>
  BY DEF TokenOf
<1>5. SettledOnce'
  BY <1>1, <1>2, <1>4, AloneFacts, SettledOnceAfter DEF TokenInv
<1>6. ASSUME NEW d, NEW y, NEW z
      PROVE  /\ Pending(d, y, z)' <=> Pending(d, y, z)
             /\ OnTheWay(d, y, z)' <=> OnTheWay(d, y, z)
             /\ Redeemed(d, y, z)' <=> Redeemed(d, y, z)
  BY <1>3, ByTokenOf
<1> QED BY <1>5, <1>6

\* ... and the packet can still be settled.
LEMMA FailFine ==
    ASSUME NEW K, TokenInv(K), NEW s \in Slots, InTransit(s), PhaseBecomes(s, "fail"),
           UNCHANGED <<ledger, nftContract, nftClass>>
    PROVE  PacketFine(s)'
<1>1. PICK c, x, t : /\ c = packets[s].src.chain /\ x = packets[s].class
                     /\ t = packets[s].token
  OBVIOUS
<1>2. Has(nftContract[c], x) /\ CanRedeem(c, x, t)
  BY <1>1 DEF TokenInv, PacketFine, InTransit, Settles
<1>3. Has(nftContract[c], x)' /\ CanRedeem(c, x, t)'
  BY <1>2, LedgersKept DEF TokenInv
<1>4. /\ packets'[s].src.chain = c /\ packets'[s].class = x
      /\ packets'[s].token = t /\ packets'[s].phase = "fail"
  BY <1>1 DEF PhaseBecomes
<1> QED BY <1>3, <1>4 DEF PacketFine, Has, CanRedeem, OwnedBy, Exists

LEMMA RejectPacketKeeps ==
    ASSUME NEW K, TokenInv(K), RegistryInv', NEW s \in Slots,
           packets[s] # NoPacket, packets[s].phase = "sent", RejectPacket(s)
    PROVE  TokenInv(K)'
<1>1. /\ WriteAck(s, "fail")
      /\ UNCHANGED <<ledger, nftContract, nftClass, outgoing, incoming,
                     tokenMetadata>>
  BY DEF RejectPacket, bridgeState, registry
<1>2. InTransit(s) /\ PacketType
  BY DEF InTransit, TokenInv, RegistryInv, TypeOK
<1>3. OthersKept(s) /\ PhaseBecomes(s, "fail")
  BY <1>1, <1>2, AckPoint
<1>4. Frame({})
  BY <1>1, <1>2, <1>3, FailKeeps, LedgersKept
     DEF Frame, TokenInv, SentOutOn, Minted, Arrived
<1>5. VoucherNames'
  BY <1>1 DEF TokenInv, VoucherNames
<1>6. PacketFine(s)'
  BY <1>1, <1>2, <1>3, FailFine
<1> QED BY <1>1, <1>2, <1>3, <1>4, <1>5, <1>6, NoToken, FailKeeps, LedgersKept
        DEF TokenInv, OthersKept

\* Pausing, migrating and doing nothing.
LEMMA GovernKeeps ==
    ASSUME NEW K, TokenInv(K), RegistryInv', UNCHANGED <<ledger, bridgeState, packets>>
    PROVE  TokenInv(K)'
<1>1. UNCHANGED <<ledger, nftContract, nftClass, outgoing, incoming,
                  tokenMetadata, packets>>
  BY DEF bridgeState, registry
<1>2. VoucherNames' /\ SettledOnce'
  BY <1>1 DEF TokenInv, VoucherNames, SettledOnce, Settles, Carries
<1>3. \A c, x, t : /\ Pending(c, x, t)' <=> Pending(c, x, t)
                   /\ OnTheWay(c, x, t)' <=> OnTheWay(c, x, t)
                   /\ Redeemed(c, x, t)' <=> Redeemed(c, x, t)
  BY <1>1 DEF Pending, OnTheWay, Redeemed, Settles, InTransit, Carries
<1>4. Frame({})
  BY <1>1, <1>3, LedgersKept
     DEF Frame, TokenInv, SentOutOn, Minted, Arrived
<1> QED BY <1>1, <1>2, <1>4, NoToken, LedgersKept DEF TokenInv

\* The effect of a step on one token, put together.
LEMMA FrameAt ==
    ASSUME NEW c, NEW x, NEW t, NEW b, NEW v,
           HeldBecomes(c, x, t, b), VoucherBecomes(c, x, t, v),
           SentOutElsewhere(c, x, t), EntriesElsewhere(c, x, t),
           PacketsElsewhere(c, x, t)
    PROVE  Frame({<<c, x, t>>})
<1> SUFFICES ASSUME NEW d \in Chains, NEW y, NEW z,
                    <<d, y, z>> \notin {<<c, x, t>>}
             PROVE  /\ CanRedeem(d, y, z)' <=> CanRedeem(d, y, z)
                    /\ IsVoucher(d, y, z)' <=> IsVoucher(d, y, z)
                    /\ \A h : SentOutOn(d, h, y, z)' <=> SentOutOn(d, h, y, z)
                    /\ Pending(d, y, z)' <=> Pending(d, y, z)
                    /\ OnTheWay(d, y, z)' <=> OnTheWay(d, y, z)
                    /\ Redeemed(d, y, z)' <=> Redeemed(d, y, z)
                    /\ Minted(d, y, z)' <=> Minted(d, y, z)
                    /\ Arrived(d, y, z)' <=> Arrived(d, y, z)
  BY DEF Frame
<1>1. ~Same(d, y, z, c, x, t)
  BY DEF Same
<1> QED BY <1>1 DEF HeldBecomes, VoucherBecomes, SentOutElsewhere,
                    EntriesElsewhere, PacketsElsewhere

\* handle_packet_fail: an unacknowledged or rejected token goes back.
LEMMA PacketFailKeeps ==
    ASSUME NEW K, TokenInv(K), RegistryInv', NEW s \in Slots, InTransit(s),
           handle_packet_fail(s)
    PROVE  TokenInv(K)'
<1>1. PICK c, x, t, k, u :
        /\ c = packets[s].src.chain /\ x = packets[s].class
        /\ t = packets[s].token /\ k = nftContract[c][x]
        /\ u = packets[s].sender
  OBVIOUS
<1>2. /\ x \in DOMAIN nftContract[c] /\ OwnedBy(c, k, t, Bridge)
      /\ outgoing' = [outgoing EXCEPT ![c] = Remove(@, <<x, t>>)]
      /\ Cw721Transfer(c, k, t, u)
      /\ Forget(s)
      /\ UNCHANGED <<nftContract, nftClass, incoming, tokenMetadata>>
  BY <1>1 DEF handle_packet_fail, Has, registry
<1>3. /\ LedgerType /\ RouteType /\ PacketType /\ RegistryInv
      /\ EscrowRegistered /\ VoucherNames /\ SettledOnce
      /\ packets[s] # NoPacket
  BY DEF TokenInv, RegistryInv, TypeOK, InTransit
<1>4. c \in Chains /\ u # Bridge /\ u # None
  BY <1>1, <1>3, PacketFacts, AddrsAssumption
<1>5. OwnerBecomes(c, k, t, u) /\ ShowsKept
  BY <1>2, <1>3, <1>4, TransferPoint DEF OwnedBy
<1>6. RegistryGrows /\ x \in DOMAIN nftContract'[c] /\ nftContract'[c][x] = k
  BY <1>1, <1>2 DEF RegistryGrows
<1>7. /\ EscrowRegistered' /\ UrisKept
      /\ HeldBecomes(c, x, t, u = Bridge)
      /\ VoucherBecomes(c, x, t, x.path # << >> /\ u # None)
  BY <1>3, <1>4, <1>5, <1>6, ClassPoint
<1>8. packets'[s] = NoPacket /\ OthersKept(s)
  BY <1>2, <1>3, ForgetPoint
<1>9. TokenOf(s) = <<c, x, t>> /\ Settles(s)
  BY <1>1 DEF TokenOf, Settles, InTransit
<1>10. Alone(s, c, x, t)
  BY <1>3, <1>9, AloneFacts
<1>11. /\ ~Settles(s)' /\ ~InTransit(s)' /\ ~Redeems(s)'
  BY <1>8 DEF Settles, InTransit, Redeems
<1>12. ~Pending(c, x, t)' /\ ~OnTheWay(c, x, t)' /\ ~Redeemed(c, x, t)'
  BY <1>3, <1>8, <1>10, <1>11, PacketsAtPoint
<1>13. SettledOnce'
  BY <1>3, <1>8, <1>10, <1>11, SettledOnceAfter
<1>14. Frame({<<c, x, t>>})
  <2>1. SentOutElsewhere(c, x, t)
    BY <1>2, <1>3, <1>4, SentOutPoint
  <2>2. EntriesElsewhere(c, x, t)
    BY <1>2, <1>3, <1>4, EntriesPoint
  <2>3. PacketsElsewhere(c, x, t)
    BY <1>8, <1>9, PacketsPoint
  <2> QED BY <1>7, <2>1, <2>2, <2>3, FrameAt
<1>15. VoucherNames'
  BY <1>2, <1>3 DEF VoucherNames
<1>16. Pending(c, x, t)
  BY <1>9, ByTokenOf
<1>17. \A r \in Slots :
         \/ packets'[r] = packets[r] /\ (Settles(r) => TokenOf(r) # <<c, x, t>>)
         \/ PacketFine(r)'
  BY <1>8, <1>10 DEF OthersKept, Alone, PacketFine
<1>18. IsVoucher(c, x, t)' =>
         /\ IsVoucher(c, x, t) /\ ~Redeemed(c, x, t)
         /\ Minted(c, x, t)' /\ Arrived(c, x, t)'
  <2> SUFFICES ASSUME IsVoucher(c, x, t)'
               PROVE  /\ IsVoucher(c, x, t) /\ ~Redeemed(c, x, t)
                      /\ Minted(c, x, t)' /\ Arrived(c, x, t)'
    OBVIOUS
  <2>1. IsVoucher(c, x, t)
    BY <1>1, <1>2 DEF IsVoucher, Has, OwnedBy
  <2>2. Minted(c, x, t) /\ Arrived(c, x, t)
    BY <1>4, <2>1 DEF TokenInv, AllMetadata
  <2>3. ~Redeemed(c, x, t)
    <3>1. ~Redeems(s)
      BY DEF InTransit, Redeems
    <3> QED BY <1>3, <1>10, <3>1, ByTokenOf, SettlesCases DEF Alone
  <2> QED BY <1>2, <2>1, <2>2, <2>3 DEF Minted, Arrived
<1>19. ~CanRedeem(c, x, t)'
  BY <1>4, <1>7 DEF HeldBecomes, Same
<1>20. Minted(c, x, t) => Minted(c, x, t)'
  BY <1>2 DEF Minted
<1>21. \A d \in Chains : tokenMetadata'[d] \subseteq tokenMetadata[d]
  BY <1>2
<1> QED BY <1>4, <1>6, <1>7, <1>12, <1>13, <1>14, <1>15, <1>16, <1>17, <1>18,
           <1>19, <1>20, <1>21, OneToken

\* ibc_packet_ack takes a token for a returned voucher exactly when it is one.
LEMMA ReturnedFacts ==
    ASSUME NEW K, TokenInv(K), NEW s \in Slots,
           packets[s] # NoPacket, packets[s].phase = "ok"
    PROVE  ReturnedToSource(packets[s]) <=> Redeems(s)
<1>1. PICK e, c, x, t : /\ e = packets[s].src /\ c = e.chain
                        /\ x = packets[s].class /\ t = packets[s].token
  OBVIOUS
<1>2. PacketType /\ VoucherNames
  BY DEF TokenInv, RegistryInv, TypeOK
<1>3. e \in Endpoints /\ c \in Chains /\ e.channel \in Channels
  BY <1>1, <1>2, PacketFacts
<1>4. /\ ReturnedToSource(packets[s]) <=>
           /\ <<x, t>> \in DOMAIN incoming[c]
           /\ incoming[c][<<x, t>>] = e.channel
      /\ Redeems(s) <=> HasPrefix(PrefixOf(e), x)
  BY <1>1 DEF ReturnedToSource, Has, Redeems
<1>5. ASSUME ReturnedToSource(packets[s]) PROVE Redeems(s)
  <2>1. HasPrefix(get_endpoint_prefix(Port[c], incoming[c][<<x, t>>]), x)
    BY <1>2, <1>3, <1>4, <1>5 DEF VoucherNames
  <2> QED BY <1>1, <1>4, <1>5, <2>1 DEF PrefixOf
<1>6. ASSUME Redeems(s) PROVE ReturnedToSource(packets[s])
  <2>1. HasPrefix(PrefixOf(e), x)
    BY <1>4, <1>6
  <2>2. Settles(s)
    BY <1>1, <2>1 DEF Settles
  <2>3. CanRedeem(c, x, t)
    BY <1>1, <2>2 DEF TokenInv, PacketFine
  <2>4. IsVoucher(c, x, t)
    BY <2>1, <2>3 DEF IsVoucher, CanRedeem, OwnedBy, HasPrefix
  <2>5. <<x, t>> \in DOMAIN incoming[c]
    BY <1>3, <2>4 DEF TokenInv, AllMetadata, Arrived, Has
  <2>6. HasPrefix(<<Port[c], incoming[c][<<x, t>>]>>, x)
    BY <1>2, <1>3, <2>5 DEF VoucherNames, get_endpoint_prefix
  <2>7. incoming[c][<<x, t>>] = e.channel
    BY <2>1, <2>6 DEF HasPrefix, PrefixOf, get_endpoint_prefix
  <2> QED BY <1>4, <2>5, <2>7
<1> QED BY <1>5, <1>6

\* The acknowledgement of a token that has arrived settles nothing here.
LEMMA AckForgets ==
    ASSUME NEW K, TokenInv(K), RegistryInv', NEW s \in Slots, packets[s] # NoPacket,
           packets[s].phase = "ok", AckSuccess(s), ~Redeems(s)
    PROVE  TokenInv(K)'
<1>1. /\ Forget(s)
      /\ UNCHANGED <<ledger, nftContract, nftClass, outgoing, incoming,
                     tokenMetadata>>
  BY ReturnedFacts DEF AckSuccess, registry
<1>2. PacketType /\ SettledOnce
  BY DEF TokenInv, RegistryInv, TypeOK
<1>3. packets'[s] = NoPacket /\ OthersKept(s)
  BY <1>1, <1>2, ForgetPoint
<1>4. /\ ~InTransit(s) /\ ~Settles(s)
      /\ ~InTransit(s)' /\ ~Redeems(s)' /\ ~Settles(s)'
  BY <1>3 DEF InTransit, Redeems, Settles
<1>5. \A r \in Slots :
        /\ Settles(r)' <=> Settles(r)
        /\ InTransit(r)' <=> InTransit(r)
        /\ Redeems(r)' <=> Redeems(r)
        /\ r # s => TokenOf(r)' = TokenOf(r)
  BY <1>3, <1>4, OthersSame
<1>6. ASSUME NEW d, NEW y, NEW z
      PROVE  /\ Pending(d, y, z)' <=> Pending(d, y, z)
             /\ OnTheWay(d, y, z)' <=> OnTheWay(d, y, z)
             /\ Redeemed(d, y, z)' <=> Redeemed(d, y, z)
  BY <1>4, <1>5, ByTokenOf
<1>7. SettledOnce'
  <2>1. \A r, q \in Slots :
          Settles(r) /\ Settles(q) /\ TokenOf(r) = TokenOf(q) => r = q
    BY <1>2 DEF SettledOnce, Carries, TokenOf
  <2>2. \A r, q \in Slots :
          Settles(r)' /\ Settles(q)' /\ TokenOf(r)' = TokenOf(q)' => r = q
    BY <1>4, <1>5, <2>1
  <2> QED BY <2>2 DEF SettledOnce, Carries, TokenOf
<1>8. Frame({})
  BY <1>1, <1>6, LedgersKept
     DEF Frame, TokenInv, SentOutOn, Minted, Arrived
<1>9. VoucherNames'
  BY <1>1 DEF TokenInv, VoucherNames
<1>10. PacketFine(s)'
  BY <1>3 DEF PacketFine
<1> QED BY <1>1, <1>3, <1>7, <1>8, <1>9, <1>10, NoToken, LedgersKept
        DEF TokenInv, OthersKept

\* The acknowledgement of a redeemed voucher burns it.
LEMMA AckBurns ==
    ASSUME NEW K, TokenInv(K), RegistryInv', NEW s \in Slots, packets[s] # NoPacket,
           packets[s].phase = "ok", AckSuccess(s), Redeems(s)
    PROVE  TokenInv(K)'
<1>1. PICK c, x, t, k :
        /\ c = packets[s].src.chain /\ x = packets[s].class
        /\ t = packets[s].token /\ k = nftContract[c][x]
  OBVIOUS
<1>2. /\ x \in DOMAIN nftContract[c]
      /\ incoming' = [incoming EXCEPT ![c] = Remove(@, <<x, t>>)]
      /\ tokenMetadata' = [tokenMetadata EXCEPT ![c] = @ \ {<<x, t>>}]
      /\ Cw721Burn(c, k, t)
      /\ Forget(s)
      /\ UNCHANGED <<nftContract, nftClass, outgoing>>
  BY <1>1, ReturnedFacts DEF AckSuccess, Has, registry
<1>3. /\ LedgerType /\ RouteType /\ PacketType /\ RegistryInv
      /\ EscrowRegistered /\ VoucherNames /\ SettledOnce
  BY DEF TokenInv, RegistryInv, TypeOK
<1>4. c \in Chains /\ None # Bridge
  BY <1>1, <1>3, PacketFacts, AddrsAssumption
<1>5. OwnerBecomes(c, k, t, None) /\ ShowsKept
  BY <1>2, <1>3, <1>4, BurnPoint
<1>6. RegistryGrows /\ x \in DOMAIN nftContract'[c] /\ nftContract'[c][x] = k
  BY <1>1, <1>2 DEF RegistryGrows
<1>7. /\ EscrowRegistered' /\ UrisKept
      /\ HeldBecomes(c, x, t, None = Bridge)
      /\ VoucherBecomes(c, x, t, x.path # << >> /\ None # None)
  BY <1>3, <1>4, <1>5, <1>6, ClassPoint
<1>8. packets'[s] = NoPacket /\ OthersKept(s)
  BY <1>2, <1>3, ForgetPoint
<1>9. TokenOf(s) = <<c, x, t>> /\ Settles(s)
  BY <1>1 DEF TokenOf, Settles, Redeems
<1>10. Alone(s, c, x, t)
  BY <1>3, <1>9, AloneFacts
<1>11. ~Settles(s)'
  BY <1>8 DEF Settles
<1>12. SettledOnce'
  BY <1>3, <1>8, <1>10, <1>11, SettledOnceAfter
<1>13. Frame({<<c, x, t>>})
  <2>1. SentOutElsewhere(c, x, t)
    BY <1>2, <1>3, <1>4, SentOutPoint
  <2>2. EntriesElsewhere(c, x, t)
    BY <1>2, <1>3, <1>4, EntriesPoint
  <2>3. PacketsElsewhere(c, x, t)
    BY <1>8, <1>9, PacketsPoint
  <2> QED BY <1>7, <2>1, <2>2, <2>3, FrameAt
<1>14. \A d \in Chains :
         /\ tokenMetadata'[d] \subseteq tokenMetadata[d]
         /\ \A key \in DOMAIN incoming'[d] :
              /\ key \in DOMAIN incoming[d]
              /\ incoming'[d][key] = incoming[d][key]
  <2>1. /\ tokenMetadata'[c] \subseteq tokenMetadata[c]
        /\ incoming'[c] = Remove(incoming[c], <<x, t>>)
        /\ \A d \in Chains : d # c =>
             incoming'[d] = incoming[d] /\ tokenMetadata'[d] = tokenMetadata[d]
    BY <1>2, <1>3, <1>4 DEF RouteType, PerChain
  <2> QED BY <2>1 DEF Remove
<1>15. VoucherNames'
  BY <1>2, <1>3, <1>14 DEF VoucherNames, EntryOf
<1>16. Pending(c, x, t) /\ Redeemed(c, x, t)
  BY <1>9, ByTokenOf
<1>17. \A r \in Slots :
         \/ packets'[r] = packets[r] /\ (Settles(r) => TokenOf(r) # <<c, x, t>>)
         \/ PacketFine(r)'
  BY <1>8, <1>10 DEF OthersKept, Alone, PacketFine
<1>18. ~CanRedeem(c, x, t)' /\ ~IsVoucher(c, x, t)'
  BY <1>4, <1>7 DEF HeldBecomes, VoucherBecomes, Same
<1> QED BY <1>4, <1>6, <1>7, <1>12, <1>13, <1>14, <1>15, <1>16, <1>17, <1>18,
           OneToken

\* Nothing is said of a contract that the bridge has not seen.
LEMMA UnregisteredPoint ==
    ASSUME RegistryInv, EscrowRegistered, RegistryInv',
           UNCHANGED <<nftContract, nftClass>>,
           NEW c \in Chains, NEW k, NEW t, NEW w, k \notin DOMAIN nftClass[c],
           w # Bridge, OwnerBecomes(c, k, t, w), ShowsKept
    PROVE  /\ EscrowRegistered' /\ UrisKept
           /\ \A d \in Chains : \A y, z :
                /\ CanRedeem(d, y, z)' <=> CanRedeem(d, y, z)
                /\ IsVoucher(d, y, z)' <=> IsVoucher(d, y, z)
<1>1. LedgerType /\ LedgerType' /\ RegistryInverse
  BY DEF RegistryInv, TypeOK
<1>2. ASSUME NEW d \in Chains, NEW y \in DOMAIN nftContract[d], NEW z, NEW j,
             j = nftContract[d][y]
      PROVE  /\ Exists(d, j, z)' <=> Exists(d, j, z)
             /\ OwnedBy(d, j, z, Bridge)' <=> OwnedBy(d, j, z, Bridge)
  <2>1. ~(d = c /\ j = k)
    BY <1>1, <1>2 DEF RegistryInverse
  <2>2. Who(d, j, z)' = Who(d, j, z)
    BY <2>1 DEF OwnerBecomes
  <2> QED BY <1>1, <2>2, ByWho
<1>3. ASSUME NEW d \in Chains, NEW y, NEW z
      PROVE  /\ CanRedeem(d, y, z)' <=> CanRedeem(d, y, z)
             /\ IsVoucher(d, y, z)' <=> IsVoucher(d, y, z)
  <2>1. PICK j : j = nftContract[d][y]
    OBVIOUS
  <2>2. /\ CanRedeem(d, y, z) <=>
             y \in DOMAIN nftContract[d] /\ OwnedBy(d, j, z, Bridge)
        /\ CanRedeem(d, y, z)' <=>
             y \in DOMAIN nftContract[d] /\ OwnedBy(d, j, z, Bridge)'
    BY <2>1 DEF CanRedeem, Has, OwnedBy, Exists
  <2>3. /\ IsVoucher(d, y, z) <=>
             y.path # << >> /\ y \in DOMAIN nftContract[d] /\ Exists(d, j, z)
        /\ IsVoucher(d, y, z)' <=>
             y.path # << >> /\ y \in DOMAIN nftContract[d] /\ Exists(d, j, z)'
    BY <2>1 DEF IsVoucher, Has, Exists
  <2> QED BY <1>2, <2>1, <2>2, <2>3
<1>4. UrisKept
  <2> SUFFICES ASSUME NEW d \in Chains, NEW y, NEW z,
                      CanRedeem(d, y, z) \/ IsVoucher(d, y, z),
                      CanRedeem(d, y, z)' \/ IsVoucher(d, y, z)'
               PROVE  UriOf(d, y, z)' = UriOf(d, y, z)
    BY DEF UrisKept
  <2>1. PICK j : j = nftContract[d][y]
    OBVIOUS
  <2>2. Exists(d, j, z) /\ Exists(d, j, z)'
    BY <2>1 DEF CanRedeem, IsVoucher, OwnedBy, Exists
  <2> QED BY <2>1, <2>2 DEF ShowsKept, Shows, UriOf
<1>5. EscrowRegistered'
  <2> SUFFICES ASSUME NEW d \in Chains, NEW kt \in DOMAIN ledger'[d],
                      ledger'[d][kt].owner = Bridge
               PROVE  kt[1] \in DOMAIN nftClass'[d]
    BY DEF EscrowRegistered
  <2>0. kt \in Contracts \X Tokens
    BY <1>1 DEF LedgerType, IsMap
  <2>1. PICK j, z : kt = <<j, z>>
    BY <2>0
  <2>2. Who(d, j, z)' = Bridge
    BY <2>1 DEF Who, Exists
  <2>3. Who(d, j, z) = Bridge
    BY <2>2 DEF OwnerBecomes
  <2>4. OwnedBy(d, j, z, Bridge)
    BY <1>1, <2>3, ByWho
  <2> QED BY <1>1, <2>1, <2>4 DEF OwnedBy, Exists, EscrowRegistered
<1> QED BY <1>3, <1>4, <1>5

\* An owner gives a token away, or burns it.
LEMMA OwnerActs ==
    ASSUME NEW K, TokenInv(K), RegistryInv', NEW c \in Chains, NEW k, NEW t,
           NEW u \in Users, NEW w \in Users \cup {None},
           OwnedBy(c, k, t, u), OwnerBecomes(c, k, t, w), ShowsKept,
           UNCHANGED <<bridgeState, packets>>
    PROVE  TokenInv(K)'
<1>1. LedgerType /\ RouteType /\ PacketType /\ RegistryInv /\ EscrowRegistered
  BY DEF TokenInv, RegistryInv, TypeOK
<1>2. UNCHANGED <<nftContract, nftClass, outgoing, incoming, tokenMetadata,
                  packets>>
  BY DEF bridgeState, registry
<1>3. u # Bridge /\ w # Bridge
  BY AddrsAssumption
<1>4. VoucherNames' /\ SettledOnce' /\ RegistryGrows
  BY <1>2 DEF TokenInv, VoucherNames, SettledOnce, Settles, Carries, RegistryGrows
<1>5. \A d, y, z : /\ Pending(d, y, z)' <=> Pending(d, y, z)
                   /\ OnTheWay(d, y, z)' <=> OnTheWay(d, y, z)
                   /\ Redeemed(d, y, z)' <=> Redeemed(d, y, z)
                   /\ Minted(d, y, z)' <=> Minted(d, y, z)
                   /\ Arrived(d, y, z)' <=> Arrived(d, y, z)
                   /\ \A h : SentOutOn(d, h, y, z)' <=> SentOutOn(d, h, y, z)
  BY <1>2 DEF Pending, OnTheWay, Redeemed, Settles, InTransit, Carries, Minted,
              Arrived, SentOutOn
<1>6. CASE k \notin DOMAIN nftClass[c]
  <2>1. /\ EscrowRegistered' /\ UrisKept
        /\ \A d \in Chains : \A y, z :
             /\ CanRedeem(d, y, z)' <=> CanRedeem(d, y, z)
             /\ IsVoucher(d, y, z)' <=> IsVoucher(d, y, z)
    BY <1>1, <1>2, <1>3, <1>6, UnregisteredPoint
  <2>2. Frame({})
    BY <1>5, <2>1 DEF Frame
  <2> QED BY <1>2, <1>4, <2>1, <2>2, NoToken
<1>7. CASE k \in DOMAIN nftClass[c]
  <2>1. PICK x : x = nftClass[c][k]
    OBVIOUS
  <2>2. x \in DOMAIN nftContract[c] /\ nftContract[c][x] = k
    BY <1>1, <1>7, <2>1 DEF RegistryInv, RegistryInverse
  <2>3. x \in DOMAIN nftContract'[c] /\ nftContract'[c][x] = k
    BY <1>2, <2>2
  <2>4. /\ EscrowRegistered' /\ UrisKept
        /\ HeldBecomes(c, x, t, w = Bridge)
        /\ VoucherBecomes(c, x, t, x.path # << >> /\ w # None)
    BY <1>1, <1>2, <1>4, <2>3, ClassPoint
  <2>5. Frame({<<c, x, t>>})
    BY <1>5, <2>4, FrameAt
       DEF SentOutElsewhere, EntriesElsewhere, PacketsElsewhere
  <2>6. ~CanRedeem(c, x, t) /\ ~CanRedeem(c, x, t)'
    BY <1>2, <1>3, <2>2, <2>4 DEF CanRedeem, OwnedBy, HeldBecomes, Same
  <2>7. ~Pending(c, x, t) /\ ~Redeemed(c, x, t)
    BY <2>6, PendingHeld
  <2>8. \A s \in Slots : Settles(s) => TokenOf(s) # <<c, x, t>>
    BY <2>7, ByTokenOf
  <2>9. IsVoucher(c, x, t)' =>
          IsVoucher(c, x, t) /\ Minted(c, x, t)' /\ Arrived(c, x, t)'
    <3> SUFFICES ASSUME IsVoucher(c, x, t)'
                 PROVE  IsVoucher(c, x, t) /\ Minted(c, x, t)' /\ Arrived(c, x, t)'
      OBVIOUS
    <3>1. IsVoucher(c, x, t)
      BY <1>2, <2>2 DEF IsVoucher, OwnedBy, Has
    <3>2. Minted(c, x, t) /\ Arrived(c, x, t)
      BY <3>1 DEF TokenInv, AllMetadata
    <3> QED BY <1>5, <3>1, <3>2
  <2> QED BY <1>2, <1>4, <1>5, <2>4, <2>5, <2>6, <2>7, <2>8, <2>9, OneToken
<1> QED BY <1>6, <1>7

\* What owners do with their tokens is their business.
LEMMA OwnKeeps ==
    ASSUME NEW K, TokenInv(K), RegistryInv', Own
    PROVE  TokenInv(K)'
<1>1. LedgerType
  BY DEF TokenInv, RegistryInv, TypeOK
<1>2. PICK c \in Chains, k \in Contracts, t \in Tokens, u \in Users :
        \/ \E v \in Users : TransferNft(c, k, t, u, v)
        \/ Burn(c, k, t, u)
  BY DEF Own
<1>3. ASSUME NEW v \in Users, TransferNft(c, k, t, u, v)
      PROVE  TokenInv(K)'
  <2>1. /\ OwnedBy(c, k, t, u) /\ OwnerBecomes(c, k, t, v) /\ ShowsKept
        /\ UNCHANGED <<bridgeState, packets>>
    BY <1>1, <1>3, TransferPoint DEF TransferNft, OwnedBy
  <2> QED BY <2>1, OwnerActs
<1>4. CASE Burn(c, k, t, u)
  <2>1. /\ OwnedBy(c, k, t, u) /\ OwnerBecomes(c, k, t, None) /\ ShowsKept
        /\ UNCHANGED <<bridgeState, packets>>
    BY <1>1, <1>4, BurnPoint DEF Burn
  <2> QED BY <2>1, OwnerActs
<1> QED BY <1>2, <1>3, <1>4

\* The registration of a collection adds a class without a prefix.
LEMMA RegisterPoint ==
    ASSUME RegistryInv, VoucherNames, NEW c \in Chains, NEW k, NEW t, Exists(c, k, t),
           RegisterLocal(c, k), UNCHANGED incoming
    PROVE  LET x == ClassOfContract(c, k) IN
           /\ RegistryGrows /\ VoucherNames'
           /\ x \in DOMAIN nftContract'[c] /\ nftContract'[c][x] = k
           /\ x.path # << >> => x \in DOMAIN nftContract[c]
           /\ x \in DOMAIN nftContract[c] => nftContract[c][x] = k
<1>1. /\ RegistryType /\ RegistryInverse /\ LocalNames /\ TokensRegistered
  BY DEF RegistryInv, TypeOK, RegistryShape
<1>2. CASE Has(nftClass[c], k)
  <2>1. UNCHANGED nftContract /\ ClassOfContract(c, k) = nftClass[c][k]
    BY <1>2 DEF RegisterLocal, registry, ClassOfContract
  <2>2. RegistryGrows /\ VoucherNames'
    BY <1>1, <2>1 DEF RegistryGrows, VoucherNames
  <2> QED BY <1>1, <1>2, <2>1, <2>2 DEF RegistryInverse, Has
<1>3. CASE ~Has(nftClass[c], k)
  <2>1. PICK x : x = LocalClass(k)
    OBVIOUS
  <2>2. /\ ClassOfContract(c, k) = x
        /\ nftContract' = [nftContract EXCEPT ![c] = Save(@, x, k)]
    BY <1>3, <2>1 DEF RegisterLocal, ClassOfContract
  <2>3. k \in Collections
    BY <1>1, <1>3 DEF Exists, TokensRegistered, Has
  <2>4. x.path = << >> /\ x.base = k
    BY <2>1, <2>3, LocalClassType
  <2>5. x \notin DOMAIN nftContract[c]
    BY <1>1, <1>3, <2>4 DEF Has, RegistryInverse, LocalNames
  <2>6. /\ nftContract'[c] = Save(nftContract[c], x, k)
        /\ \A d \in Chains : d # c => nftContract'[d] = nftContract[d]
    BY <1>1, <2>2 DEF RegistryType, PerChain
  <2>7. /\ DOMAIN nftContract'[c] = DOMAIN nftContract[c] \cup {x}
        /\ nftContract'[c][x] = k
        /\ \A y \in DOMAIN nftContract[c] : nftContract'[c][y] = nftContract[c][y]
    BY <2>5, <2>6 DEF Save
  <2>8. RegistryGrows
    BY <2>6, <2>7 DEF RegistryGrows
  <2>9. VoucherNames'
    BY <1>1, <2>4, <2>6, <2>7 DEF VoucherNames, EntryOf
  <2> QED BY <2>2, <2>4, <2>5, <2>7, <2>8, <2>9
<1> QED BY <1>2, <1>3

\* receive_nft: a token that a user held goes out.
LEMMA SendKeeps ==
    ASSUME NEW K, TokenInv(K), RegistryInv',
           NEW e \in Endpoints, NEW k, NEW t \in Tokens, NEW u \in Users,
           NEW r \in Users \cup {Bridge, BadAddr}, NEW s \in Slots,
           OwnedBy(e.chain, k, t, u), receive_nft(e, k, t, u, r, s)
    PROVE  TokenInv(K)'
<1>1. PICK c, x, h, v : /\ c = e.chain /\ x = ClassOfContract(c, k)
                        /\ h = e.channel /\ v = ledger[c][<<k, t>>].uri
  OBVIOUS
<1>2. /\ packets[s] = NoPacket
      /\ Cw721Transfer(c, k, t, Bridge) /\ RegisterLocal(c, k)
      /\ outgoing' = [outgoing EXCEPT ![c] = Save(@, <<x, t>>, h)]
      /\ packets' = [packets EXCEPT ![s] = OutgoingPacket(e, k, t, u, r)]
      /\ UNCHANGED <<incoming, tokenMetadata>>
  BY <1>1 DEF receive_nft
<1>3. /\ LedgerType /\ RouteType /\ PacketType /\ RegistryInv
      /\ EscrowRegistered /\ VoucherNames /\ SettledOnce /\ PacketType'
  BY DEF TokenInv, RegistryInv, TypeOK
<1>4. c \in Chains /\ u # Bridge /\ Bridge # None /\ Exists(c, k, t)
  BY <1>1, PrefixOfType, AddrsAssumption DEF OwnedBy
<1>5. OwnerBecomes(c, k, t, Bridge) /\ ShowsKept
  BY <1>2, <1>3, <1>4, TransferPoint
<1>6. /\ RegistryGrows /\ VoucherNames'
      /\ x \in DOMAIN nftContract'[c] /\ nftContract'[c][x] = k
      /\ x.path # << >> => x \in DOMAIN nftContract[c]
      /\ x \in DOMAIN nftContract[c] => nftContract[c][x] = k
  BY <1>1, <1>2, <1>3, <1>4, RegisterPoint
<1>7. /\ EscrowRegistered' /\ UrisKept
      /\ HeldBecomes(c, x, t, Bridge = Bridge)
      /\ VoucherBecomes(c, x, t, x.path # << >> /\ Bridge # None)
  BY <1>3, <1>4, <1>5, <1>6, ClassPoint
<1>8. /\ packets'[s] = OutgoingPacket(e, k, t, u, r) /\ OthersKept(s)
  BY <1>2, <1>3 DEF PacketType, OthersKept
<1>9. /\ packets'[s].src = e /\ packets'[s].class = x /\ packets'[s].token = t
      /\ packets'[s].uri = v /\ packets'[s].phase = "sent"
  BY <1>1, <1>8 DEF OutgoingPacket
<1>10. packets'[s] # NoPacket
  <2>1. x \in ClassId
    BY <1>4, <1>6 DEF RegistryInv, TypeOK, RegistryType, IsMap
  <2>2. v \in Uris \cup {None}
    BY <1>1, <1>3, <1>4 DEF LedgerType, IsMap, Exists, Nft
  <2>3. OutgoingPacket(e, k, t, u, r) \in Packet
    BY <1>1, <2>1, <2>2 DEF OutgoingPacket, Packet
  <2> QED BY <1>8, <2>3, PacketAssumption
<1>11. TokenOf(s)' = <<c, x, t>>
  BY <1>1, <1>9 DEF TokenOf
<1>12. ~CanRedeem(c, x, t) /\ CanRedeem(c, x, t)'
  <2>1. ~CanRedeem(c, x, t)
    BY <1>1, <1>4, <1>6 DEF CanRedeem, Has, OwnedBy
  <2> QED BY <1>4, <1>7, <2>1 DEF HeldBecomes, Same
<1>13. ~Pending(c, x, t) /\ ~Redeemed(c, x, t)
  BY <1>12, PendingHeld
<1>14. Alone(s, c, x, t)
  BY <1>13, ByTokenOf DEF Alone
<1>15. Settles(s)' /\ InTransit(s)' /\ ~Redeems(s)'
  BY <1>9, <1>10 DEF Settles, InTransit, Redeems
<1>16. OnTheWay(c, x, t)' /\ ~Redeemed(c, x, t)'
  BY <1>3, <1>8, <1>11, <1>14, <1>15, PacketsAtPoint
<1>17. SettledOnce'
  BY <1>3, <1>8, <1>11, <1>14, SettledOnceAfter
<1>18. Frame({<<c, x, t>>})
  <2>1. SentOutElsewhere(c, x, t)
    BY <1>2, <1>3, <1>4, SentOutPoint
  <2>2. EntriesElsewhere(c, x, t)
    BY <1>2, <1>3, <1>4, EntriesPoint
  <2>3. PacketsElsewhere(c, x, t)
    BY <1>2, <1>8, <1>11, PacketsPoint
  <2> QED BY <1>7, <2>1, <2>2, <2>3, FrameAt
<1>19. PacketFine(s)'
  <2>1. SentOutOn(c, h, x, t)'
    <3>1. outgoing'[c] = Save(outgoing[c], <<x, t>>, h)
      BY <1>2, <1>3, <1>4 DEF RouteType, PerChain
    <3> QED BY <3>1 DEF SentOutOn, Has, Save
  <2>2. UriOf(c, x, t)' = v
    <3>1. Exists(c, k, t)'
      BY <1>6, <1>12 DEF CanRedeem, OwnedBy, Exists
    <3>2. Shows(c, k, t)' = Shows(c, k, t)
      BY <1>4, <1>5, <3>1 DEF ShowsKept
    <3> QED BY <1>1, <1>6, <3>2 DEF UriOf, Shows
  <2>3. x \in DOMAIN nftContract'[c] /\ CanRedeem(c, x, t)'
    BY <1>6, <1>12
  <2>4. packets'[s].src.chain = c /\ packets'[s].src.channel = h
    BY <1>1, <1>9
  <2> QED BY <1>9, <2>1, <2>2, <2>3, <2>4
          DEF PacketFine, Has, CanRedeem, SentOutOn, UriOf, OwnedBy, Exists
<1>20. \A q \in Slots :
         \/ packets'[q] = packets[q] /\ (Settles(q) => TokenOf(q) # <<c, x, t>>)
         \/ PacketFine(q)'
  BY <1>8, <1>14, <1>19 DEF OthersKept, Alone
<1>21. IsVoucher(c, x, t)' =>
         IsVoucher(c, x, t) /\ Minted(c, x, t)' /\ Arrived(c, x, t)'
  <2> SUFFICES ASSUME IsVoucher(c, x, t)'
               PROVE  IsVoucher(c, x, t) /\ Minted(c, x, t)' /\ Arrived(c, x, t)'
    OBVIOUS
  <2>1. x.path # << >>
    BY DEF IsVoucher
  <2>2. IsVoucher(c, x, t)
    BY <1>4, <1>6, <2>1 DEF IsVoucher, Has
  <2>3. Minted(c, x, t) /\ Arrived(c, x, t)
    BY <1>4, <2>2 DEF TokenInv, AllMetadata
  <2> QED BY <1>2, <2>2, <2>3 DEF Minted, Arrived
<1>22. Minted(c, x, t) => Minted(c, x, t)'
  BY <1>2 DEF Minted
<1>23. \A d \in Chains : tokenMetadata'[d] \subseteq tokenMetadata[d]
  BY <1>2
<1> QED BY <1>4, <1>6, <1>7, <1>12, <1>13, <1>16, <1>17, <1>18, <1>20, <1>21,
           <1>22, <1>23, OneToken

\* A voucher that comes back can be redeemed: receive_ibc_packet recognizes
\* it, and the bridge still holds what it stands for.
LEMMA ReturningBacked ==
    ASSUME NEW K, TokenInv(K), NEW s \in Slots, packets[s] # NoPacket,
           packets[s].phase = "sent",
           HasPrefix(PrefixOf(packets[s].src), packets[s].class)
    PROVE  LET p == packets[s]
               e == Dest(p)
               y == Unprefixed(p.class)
           IN /\ ReturningHere(p)
              /\ IsVoucher(p.src.chain, p.class, p.token)
              /\ CanRedeem(e.chain, y, p.token)
              /\ SentOutOn(e.chain, e.channel, y, p.token)
              /\ ~Pending(e.chain, y, p.token)
<1>1. PICK f, c, x, t, e, y :
        /\ f = packets[s].src /\ c = f.chain /\ x = packets[s].class
        /\ t = packets[s].token /\ e = Peer[f] /\ y = Unprefixed(x)
  OBVIOUS
<1>2. PacketType /\ SettledOnce
  BY DEF TokenInv, RegistryInv, TypeOK
<1>3. f \in Endpoints /\ c \in Chains
  BY <1>1, <1>2, PacketFacts
<1>4. Settles(s) /\ TokenOf(s) = <<c, x, t>> /\ ~Redeems(s)
  BY <1>1 DEF Settles, TokenOf, Redeems
<1>5. CanRedeem(c, x, t)
  BY <1>1, <1>4 DEF TokenInv, PacketFine
<1>6. IsVoucher(c, x, t)
  BY <1>1, <1>5 DEF IsVoucher, CanRedeem, OwnedBy, HasPrefix
<1>7. ~Redeemed(c, x, t)
  <2>1. Alone(s, c, x, t)
    BY <1>2, <1>4, AloneFacts
  <2> QED BY <1>2, <1>4, <2>1, ByTokenOf, SettlesCases DEF Alone
<1>8. Backed(c, x, t)
  BY <1>3, <1>6, <1>7 DEF TokenInv, AllBacked
<1>9. EntryOf(c, x) = f
  BY <1>1, <1>3, EntryByPrefix
<1>10. /\ CanRedeem(e.chain, y, t) /\ SentOutOn(e.chain, e.channel, y, t)
       /\ ~Pending(e.chain, y, t)
  BY <1>1, <1>8, <1>9 DEF Backed
<1>11. ReturningHere(packets[s])
  BY <1>1, <1>10 DEF ReturningHere, SentOutOn, Dest
<1> QED BY <1>1, <1>6, <1>10, <1>11 DEF Dest

\* Of a token that was sent out, one voucher at most is still good.
LEMMA OneVoucher ==
    ASSUME NEW K, TokenInv(K), NEW e \in Endpoints, NEW y, NEW t,
           SentOutOn(e.chain, e.channel, y, t),
           NEW c \in Chains, NEW x, IsVoucher(c, x, t), ~Redeemed(c, x, t),
           Parent(c, x, t) = <<e.chain, y, t>>
    PROVE  c = Peer[e].chain /\ x = Prefixed(PrefixOf(Peer[e]), y)
<1>1. PICK f : f = EntryOf(c, x)
  OBVIOUS
<1>2. /\ f \in Endpoints /\ f.chain = c /\ HasPrefix(PrefixOf(f), x)
  BY <1>1, VoucherEntry DEF TokenInv
<1>3. Peer[f].chain = e.chain /\ Unprefixed(x) = y
  BY <1>1 DEF Parent
<1>4. SentOutOn(e.chain, Peer[f].channel, y, t)
  BY <1>1, <1>3 DEF TokenInv, AllBacked, Backed
<1>5. Peer[f].channel = e.channel
  BY <1>4 DEF SentOutOn
<1>6. Peer[f] = e
  <2>1. /\ Peer[f] = [chain |-> Peer[f].chain, channel |-> Peer[f].channel]
        /\ e = [chain |-> e.chain, channel |-> e.channel]
    BY <1>2, NetworkAssumption
  <2> QED BY <1>3, <1>5, <2>1
<1>7. Peer[e] = f
  BY <1>2, <1>6, NetworkAssumption
<1>8. x \in ClassId
  BY AllVouchers DEF TokenInv
<1>9. Prefixed(PrefixOf(f), y) = x
  BY <1>2, <1>3, <1>8, UnprefixRoundTrip
<1> QED BY <1>2, <1>7, <1>9

\* What a voucher was made for.
LEMMA ChildFacts ==
    ASSUME NEW e \in Endpoints, NEW f \in Endpoints,
           NEW y \in ClassId, NEW t, NEW x, NEW z,
           HasPrefix(PrefixOf(f), x), Child(e, y, t) = <<f.chain, x, z>>
    PROVE  e = Peer[f] /\ y = Unprefixed(x) /\ t = z
<1>1. /\ Peer[e].chain = f.chain /\ Prefixed(PrefixOf(Peer[e]), y) = x /\ t = z
  BY DEF Child
<1>2. Peer[e] \in Endpoints /\ PrefixOf(Peer[e]) \in Prefixes
  BY PrefixOfType
<1>3. HasPrefix(PrefixOf(Peer[e]), x) /\ Unprefixed(x) = y
  BY <1>1, <1>2, PrefixRoundTrip
<1>4. PrefixOf(Peer[e]) = PrefixOf(f)
  BY <1>3 DEF HasPrefix
<1>5. Peer[e] = f
  BY <1>1, <1>2, <1>4, PrefixNamesEnd
<1> QED BY <1>1, <1>3, <1>5, NetworkAssumption

\* A voucher that was minted before cannot be minted again: the rejected
\* packet leaves the incoming entry as it was.
LEMMA CreateClashKeeps ==
    ASSUME NEW K, TokenInv(K), RegistryInv', NEW s \in Slots,
           packets[s] # NoPacket, packets[s].phase = "sent",
           LET e == Dest(packets[s])
               z == Prefixed(PrefixOf(e), packets[s].class)
               t == packets[s].token
           IN /\ MintClashes(e.chain, z, t)
              /\ incoming' = [incoming EXCEPT
                                ![e.chain] = Save(@, <<z, t>>, e.channel)],
           WriteAck(s, "fail"),
           UNCHANGED <<ledger, nftContract, nftClass, outgoing, tokenMetadata>>
    PROVE  TokenInv(K)'
<1>1. PICK e, d, z, t, h :
        /\ e = Dest(packets[s]) /\ d = e.chain /\ h = e.channel
        /\ z = Prefixed(PrefixOf(e), packets[s].class) /\ t = packets[s].token
  OBVIOUS
<1>2. /\ MintClashes(d, z, t)
      /\ incoming' = [incoming EXCEPT ![d] = Save(@, <<z, t>>, h)]
  BY <1>1
<1>3. InTransit(s) /\ PacketType /\ RouteType /\ VoucherNames
  BY DEF InTransit, TokenInv, RegistryInv, TypeOK
<1>4. OthersKept(s) /\ PhaseBecomes(s, "fail")
  BY <1>3, AckPoint
<1>5. e \in Endpoints /\ d \in Chains /\ packets[s].class \in ClassId
  BY <1>1, <1>3, PacketFacts
<1>6. HasPrefix(PrefixOf(e), z)
  BY <1>1, <1>5, PrefixOfType, PrefixRoundTrip
<1>7. IsVoucher(d, z, t)
  BY <1>2, <1>6 DEF MintClashes, IsVoucher, HasPrefix
<1>8. <<z, t>> \in DOMAIN incoming[d]
  BY <1>5, <1>7 DEF TokenInv, AllMetadata, Arrived, Has
<1>9. /\ incoming'[d] = Save(incoming[d], <<z, t>>, h)
      /\ \A b \in Chains : b # d => incoming'[b] = incoming[b]
  BY <1>2, <1>3, <1>5 DEF RouteType, PerChain
<1>10. /\ DOMAIN incoming'[d] = DOMAIN incoming[d]
       /\ incoming'[d][<<z, t>>] = h
       /\ \A key \in DOMAIN incoming[d] :
            key # <<z, t>> => incoming'[d][key] = incoming[d][key]
  BY <1>8, <1>9 DEF Save
<1>11. VoucherNames'
  <2>1. HasPrefix(get_endpoint_prefix(Port[d], h), z)
    BY <1>1, <1>6 DEF PrefixOf
  <2> QED BY <1>3, <1>9, <1>10, <2>1 DEF VoucherNames, EntryOf
<1>12. \A b \in Chains : \A y, w : Arrived(b, y, w)' <=> Arrived(b, y, w)
  BY <1>9, <1>10 DEF Arrived, Has
<1>13. Frame({})
  BY <1>3, <1>4, <1>12, FailKeeps, LedgersKept
     DEF Frame, TokenInv, SentOutOn, Minted
<1>14. PacketFine(s)'
  BY <1>3, <1>4, FailFine
<1> QED BY <1>3, <1>4, <1>11, <1>13, <1>14, NoToken, FailKeeps, LedgersKept
        DEF TokenInv, OthersKept

\* A voucher comes back and what it stands for is released.
LEMMA RedeemKeeps ==
    ASSUME NEW K, TokenInv(K), RegistryInv', NEW s \in Slots,
           packets[s] # NoPacket, packets[s].phase = "sent",
           HasPrefix(PrefixOf(packets[s].src), packets[s].class),
           packets[s].receiver # BadAddr,
           LET d == Dest(packets[s]).chain
               y == Unprefixed(packets[s].class)
               t == packets[s].token
           IN /\ outgoing' = [outgoing EXCEPT ![d] = Remove(@, <<y, t>>)]
              /\ Cw721Transfer(d, nftContract[d][y], t, packets[s].receiver)
              /\ packets[s].receiver = Bridge => <<d, y, t>> \in K,
           WriteAck(s, "ok"),
           UNCHANGED <<nftContract, nftClass, incoming, tokenMetadata>>
    PROVE  TokenInv(K)'
<1>1. PICK f, c, x, t, e, d, y, k, w :
        /\ f = packets[s].src /\ c = f.chain /\ x = packets[s].class
        /\ t = packets[s].token /\ e = Peer[f] /\ d = e.chain
        /\ y = Unprefixed(x) /\ k = nftContract[d][y]
        /\ w = packets[s].receiver
  OBVIOUS
<1>2. /\ outgoing' = [outgoing EXCEPT ![d] = Remove(@, <<y, t>>)]
      /\ Cw721Transfer(d, k, t, w) /\ HasPrefix(PrefixOf(f), x)
      /\ w = Bridge => <<d, y, t>> \in K
  BY <1>1 DEF Dest
<1>3. /\ LedgerType /\ RouteType /\ PacketType /\ RegistryInv
      /\ EscrowRegistered /\ VoucherNames /\ SettledOnce
  BY DEF TokenInv, RegistryInv, TypeOK
<1>4. /\ f \in Endpoints /\ c \in Chains /\ e \in Endpoints /\ d \in Chains
      /\ x \in ClassId /\ w # None
  BY <1>1, <1>3, PacketFacts, AddrsAssumption DEF Dest
<1>5. d # c
  BY <1>1, <1>4, NetworkAssumption
<1>6. /\ IsVoucher(c, x, t) /\ CanRedeem(d, y, t)
      /\ SentOutOn(e.chain, e.channel, y, t) /\ ~Pending(d, y, t)
  BY <1>1, ReturningBacked DEF Dest
<1>7. y \in DOMAIN nftContract[d] /\ Exists(d, k, t)
  BY <1>1, <1>6 DEF CanRedeem, Has, OwnedBy
<1>8. OwnerBecomes(d, k, t, w) /\ ShowsKept
  BY <1>2, <1>3, <1>4, <1>7, TransferPoint
<1>9. RegistryGrows /\ y \in DOMAIN nftContract'[d] /\ nftContract'[d][y] = k
  BY <1>1, <1>7 DEF RegistryGrows
<1>10. /\ EscrowRegistered' /\ UrisKept
       /\ HeldBecomes(d, y, t, w = Bridge)
       /\ VoucherBecomes(d, y, t, y.path # << >> /\ w # None)
  BY <1>3, <1>4, <1>8, <1>9, ClassPoint
<1>11. OthersKept(s) /\ PhaseBecomes(s, "ok")
  BY <1>3, AckPoint
<1>12. /\ TokenOf(s) = <<c, x, t>> /\ TokenOf(s)' = <<c, x, t>> /\ Settles(s)
  BY <1>1, <1>11 DEF TokenOf, Settles, PhaseBecomes
<1>13. Alone(s, c, x, t)
  BY <1>3, <1>12, AloneFacts
<1>14. Settles(s)' /\ Redeems(s)' /\ ~Redeems(s)
  BY <1>1, <1>2, <1>11 DEF Settles, Redeems, PhaseBecomes
<1>15. /\ Redeemed(c, x, t)' /\ ~Redeemed(c, x, t) /\ Pending(c, x, t)
  BY <1>3, <1>11, <1>12, <1>13, <1>14, PacketsAtPoint, ByTokenOf, SettlesCases
     DEF Alone
<1>16. SettledOnce'
  BY <1>3, <1>11, <1>12, <1>13, SettledOnceAfter
<1>17. /\ SentOutElsewhere(d, y, t) /\ PacketsElsewhere(c, x, t)
  BY <1>2, <1>3, <1>4, <1>11, <1>12, SentOutPoint, PacketsPoint
<1> DEFINE D == {<<c, x, t>>, <<d, y, t>>}
<1>18. Frame(D)
  <2> SUFFICES ASSUME NEW b \in Chains, NEW v, NEW z, <<b, v, z>> \notin D
               PROVE  /\ CanRedeem(b, v, z)' <=> CanRedeem(b, v, z)
                      /\ IsVoucher(b, v, z)' <=> IsVoucher(b, v, z)
                      /\ \A h : SentOutOn(b, h, v, z)' <=> SentOutOn(b, h, v, z)
                      /\ Pending(b, v, z)' <=> Pending(b, v, z)
                      /\ OnTheWay(b, v, z)' <=> OnTheWay(b, v, z)
                      /\ Redeemed(b, v, z)' <=> Redeemed(b, v, z)
                      /\ Minted(b, v, z)' <=> Minted(b, v, z)
                      /\ Arrived(b, v, z)' <=> Arrived(b, v, z)
    BY DEF Frame
  <2>1. ~Same(b, v, z, c, x, t) /\ ~Same(b, v, z, d, y, t)
    BY DEF Same
  <2>2. /\ Minted(b, v, z)' <=> Minted(b, v, z)
        /\ Arrived(b, v, z)' <=> Arrived(b, v, z)
    BY DEF Minted, Arrived
  <2> QED BY <1>10, <1>17, <2>1, <2>2
          DEF HeldBecomes, VoucherBecomes, SentOutElsewhere, PacketsElsewhere
<1>19. /\ ~Same(c, x, t, d, y, t) /\ ~Same(d, y, t, c, x, t)
  BY <1>5 DEF Same
<1>20. /\ CanRedeem(c, x, t)' /\ (CanRedeem(d, y, t)' <=> w = Bridge)
       /\ ~Redeemed(d, y, t) /\ ~Redeemed(d, y, t)'
  <2>1. CanRedeem(c, x, t)
    BY <1>15, PendingHeld
  <2>2. ~Redeemed(d, y, t)
    BY <1>6, PendingHeld
  <2> QED BY <1>4, <1>10, <1>17, <1>19, <2>1, <2>2
          DEF HeldBecomes, PacketsElsewhere, Same
<1>21. PacketFine(s)'
  <2>1. x \in DOMAIN nftContract'[c]
    BY <1>20 DEF CanRedeem, Has
  <2>2. /\ packets'[s].src.chain = c /\ packets'[s].class = x
        /\ packets'[s].token = t /\ packets'[s].phase = "ok"
    BY <1>1, <1>11 DEF PhaseBecomes
  <2> QED BY <1>20, <2>1, <2>2 DEF PacketFine, Has, CanRedeem, OwnedBy, Exists
<1>22. \A q \in Slots :
         \/ packets'[q] = packets[q] /\ (Settles(q) => TokenOf(q) \notin D)
         \/ PacketFine(q)'
  <2>1. \A q \in Slots : Settles(q) => TokenOf(q) # <<d, y, t>>
    BY <1>6, ByTokenOf
  <2> QED BY <1>11, <1>13, <1>21, <2>1 DEF OthersKept, Alone
<1>23. ASSUME NEW b \in Chains, NEW v, NEW z, IsVoucher(b, v, z)',
              <<b, v, z>> \in D \/ Parent(b, v, z) \in D
       PROVE  Redeemed(b, v, z)' \/ Backed(b, v, z)'
  <2>1. CASE <<b, v, z>> = <<c, x, t>>
    BY <1>15, <2>1
  <2>2. CASE <<b, v, z>> = <<d, y, t>>
    <3>1. b = d /\ v = y /\ z = t
      BY <2>2
    <3>2. IsVoucher(d, y, t)' /\ IsVoucher(d, y, t)
      BY <1>1, <1>7, <1>23, <3>1 DEF IsVoucher, Has
    <3>3. EntryOf(d, y) \in Endpoints /\ EntryOf(d, y).chain = d
      BY <1>4, <3>2, VoucherEntry DEF TokenInv
    <3>4. Parent(d, y, t) # <<d, y, t>>
      BY <3>3, ParentElsewhere DEF Parent
    <3>5. Parent(d, y, t) # <<c, x, t>>
      BY <1>4, <1>15, <1>20, <3>2, NoVoucherFor
    <3>6. Backed(d, y, t)'
      BY <1>4, <1>10, <1>18, <1>20, <3>2, <3>4, <3>5, StaysBacked
    <3> QED BY <3>1, <3>6
  <2>3. CASE <<b, v, z>> \notin D
    <3>1. IsVoucher(b, v, z)
      BY <1>18, <1>23, <2>3 DEF Frame
    <3>2. CASE Redeemed(b, v, z)
      BY <1>18, <2>3, <3>2 DEF Frame
    <3>3. CASE ~Redeemed(b, v, z) /\ Parent(b, v, z) = <<c, x, t>>
      BY <1>15, <3>1, <3>3, NoVoucherFor
    <3>4. CASE ~Redeemed(b, v, z) /\ Parent(b, v, z) = <<d, y, t>>
      <4>0. z = t
        BY <3>4 DEF Parent
      <4>1. b = Peer[e].chain /\ v = Prefixed(PrefixOf(Peer[e]), y)
        BY <1>1, <1>4, <1>6, <3>1, <3>4, <4>0, OneVoucher
      <4>2. Peer[e] = f
        BY <1>1, <1>4, NetworkAssumption
      <4>3. v = x
        BY <1>1, <1>2, <1>4, <4>1, <4>2, UnprefixRoundTrip
      <4> QED BY <1>1, <2>3, <4>0, <4>1, <4>2, <4>3
    <3> QED BY <1>23, <2>3, <3>2, <3>3, <3>4
  <2> QED BY <2>1, <2>2, <2>3
<1>24. ASSUME NEW b \in Chains, NEW v, NEW z, IsVoucher(b, v, z)',
              <<b, v, z>> \in D
       PROVE  Minted(b, v, z)' /\ Arrived(b, v, z)'
  <2>1. IsVoucher(b, v, z)
    <3>1. CASE <<b, v, z>> = <<c, x, t>>
      BY <1>6, <3>1
    <3>2. CASE <<b, v, z>> = <<d, y, t>>
      BY <1>1, <1>7, <1>24, <3>2 DEF IsVoucher, Has
    <3> QED BY <1>24, <3>1, <3>2
  <2>2. Minted(b, v, z) /\ Arrived(b, v, z)
    BY <2>1 DEF TokenInv, AllMetadata
  <2> QED BY <2>2 DEF Minted, Arrived
<1>25. \A b \in Chains : \A v, z :
         CanRedeem(b, v, z)' /\ <<b, v, z>> \in D =>
           Accounted(b, v, z)' \/ <<b, v, z>> \in K
  BY <1>2, <1>15, <1>20 DEF Accounted
<1>26. ASSUME NEW g \in Endpoints, NEW v, NEW z, Child(g, v, z) \in D,
              <<g.chain, v, z>> \notin D, Claimed(g, v, z),
              CanRedeem(g.chain, v, z)
       PROVE  Claimed(g, v, z)'
  <2>1. v \in ClassId
    BY <1>3, <1>26, PrefixOfType
       DEF CanRedeem, Has, RegistryInv, TypeOK, RegistryType, IsMap
  <2>2. CASE Child(g, v, z) = <<c, x, t>>
    <3>1. /\ f \in Endpoints /\ HasPrefix(PrefixOf(f), x)
          /\ Child(g, v, z) = <<f.chain, x, t>>
      BY <1>1, <1>2, <1>4, <2>2
    <3>2. g = Peer[f] /\ v = Unprefixed(x) /\ z = t
      BY <2>1, <3>1, ChildFacts
    <3> QED BY <1>1, <1>26, <3>2
  <2>3. CASE Child(g, v, z) = <<d, y, t>>
    <3>1. /\ Peer[g].chain = d /\ Prefixed(PrefixOf(Peer[g]), v) = y /\ z = t
      BY <2>3 DEF Child
    <3>2. Minted(d, y, t)
      BY <1>26, <3>1 DEF Claimed, Minted
    <3>3. Minted(d, y, t)'
      BY <3>2 DEF Minted
    <3> QED BY <1>20, <3>1, <3>3 DEF Claimed, Minted
  <2> QED BY <1>26, <2>2, <2>3
<1>27. VoucherNames'
  BY <1>3 DEF VoucherNames
<1>28. \A b \in Chains : \A key \in tokenMetadata'[b] :
         key \in tokenMetadata[b] \/ key[1] \in DOMAIN nftContract'[b]
  OBVIOUS
<1> HIDE DEF D
<1> QED BY <1>9, <1>10, <1>16, <1>18, <1>22, <1>23, <1>24, <1>25, <1>26, <1>27,
           <1>28, FrameStep

\* callback_create_vouchers: the class has a contract, which mints.
LEMMA CreatePoint ==
    ASSUME RegistryInv, VoucherNames, NEW e \in Endpoints, NEW z, NEW t, NEW p,
           HasPrefix(PrefixOf(e), z), t = p.token,
           callback_create_vouchers(e.chain, z, p),
           incoming' = [incoming EXCEPT
                          ![e.chain] = Save(@, <<z, t>>, e.channel)]
    PROVE  /\ RegistryGrows /\ VoucherNames' /\ Arrived(e.chain, z, t)'
           /\ z \in DOMAIN nftContract'[e.chain]
           /\ callback_mint(e.chain, z, nftContract'[e.chain][z], p)
<1>1. PICK d : d = e.chain
  OBVIOUS
<1>2. d \in Chains /\ e = [chain |-> d, channel |-> e.channel]
  BY <1>1, NetworkAssumption, PrefixOfType
<1>3. RegistryType /\ RouteType
  BY DEF RegistryInv, TypeOK
<1>4. PICK k :
        /\ RegistryGrows /\ z \in DOMAIN nftContract'[d]
        /\ nftContract'[d][z] = k /\ callback_mint(d, z, k, p)
        /\ \A b \in Chains : \A y \in DOMAIN nftContract'[b] :
             y \in DOMAIN nftContract[b] \/ (b = d /\ y = z)
  <2>1. CASE Has(nftContract[d], z)
    <3>1. /\ callback_mint(d, z, nftContract[d][z], p) /\ UNCHANGED nftContract
      BY <1>1, <2>1 DEF callback_create_vouchers
    <3> QED BY <2>1, <3>1 DEF RegistryGrows, Has
  <2>2. CASE ~Has(nftContract[d], z)
    <3>1. PICK k \in VoucherAddrs \ DOMAIN nftClass[d] :
            reply_instantiate_cw721(d, z, k) /\ callback_mint(d, z, k, p)
      BY <1>1, <2>2 DEF callback_create_vouchers
    <3>2. /\ nftContract'[d] = Save(nftContract[d], z, k)
          /\ \A b \in Chains : b # d => nftContract'[b] = nftContract[b]
      BY <1>2, <1>3, <3>1 DEF reply_instantiate_cw721, RegistryType, PerChain
    <3>3. /\ DOMAIN nftContract'[d] = DOMAIN nftContract[d] \cup {z}
          /\ nftContract'[d][z] = k
          /\ \A y \in DOMAIN nftContract[d] : nftContract'[d][y] = nftContract[d][y]
      BY <2>2, <3>2 DEF Save, Has
    <3>4. RegistryGrows
      BY <3>2, <3>3 DEF RegistryGrows
    <3>5. \A b \in Chains : \A y \in DOMAIN nftContract'[b] :
            y \in DOMAIN nftContract[b] \/ (b = d /\ y = z)
      BY <3>2, <3>3
    <3> QED BY <3>1, <3>3, <3>4, <3>5
  <2> QED BY <2>1, <2>2
<1>5. /\ incoming'[d] = Save(incoming[d], <<z, t>>, e.channel)
      /\ \A b \in Chains : b # d => incoming'[b] = incoming[b]
  BY <1>1, <1>2, <1>3 DEF RouteType, PerChain
<1>6. /\ DOMAIN incoming'[d] = DOMAIN incoming[d] \cup {<<z, t>>}
      /\ incoming'[d][<<z, t>>] = e.channel
      /\ \A key \in DOMAIN incoming[d] :
           key # <<z, t>> => incoming'[d][key] = incoming[d][key]
  BY <1>5 DEF Save
<1>7. VoucherNames'
  <2>1. HasPrefix(get_endpoint_prefix(Port[d], e.channel), z)
    BY <1>1 DEF PrefixOf
  <2>2. EntryOf(d, z) = e /\ PrefixOf(e) = Head(z.path)
    BY <1>1, EntryByPrefix DEF HasPrefix
  <2>3. \A b \in Chains : \A y \in DOMAIN nftContract'[b] : y.path # << >> =>
          EntryOf(b, y) \in Endpoints /\ PrefixOf(EntryOf(b, y)) = Head(y.path)
    BY <1>3, <1>4, <2>2 DEF VoucherNames
  <2>4. \A b \in Chains : \A key \in DOMAIN incoming'[b] :
          HasPrefix(get_endpoint_prefix(Port[b], incoming'[b][key]), key[1])
    <3>1. ASSUME NEW b \in Chains, NEW key \in DOMAIN incoming'[b]
          PROVE  HasPrefix(get_endpoint_prefix(Port[b], incoming'[b][key]), key[1])
      <4>1. CASE b = d /\ key = <<z, t>>
        BY <1>6, <2>1, <4>1
      <4>2. CASE ~(b = d /\ key = <<z, t>>)
        <5>1. key \in DOMAIN incoming[b] /\ incoming'[b][key] = incoming[b][key]
          BY <1>5, <1>6, <3>1, <4>2
        <5> QED BY <1>3, <5>1 DEF VoucherNames
      <4> QED BY <4>1, <4>2
    <3> QED BY <3>1
  <2> QED BY <2>3, <2>4 DEF VoucherNames, EntryOf
<1>8. Arrived(d, z, t)'
  BY <1>6 DEF Arrived, Has
<1> QED BY <1>1, <1>4, <1>7, <1>8

\* A token arrives that was not sent out from here, and a voucher is made.
LEMMA CreateKeeps ==
    ASSUME NEW K, TokenInv(K), RegistryInv', NEW s \in Slots,
           packets[s] # NoPacket, packets[s].phase = "sent",
           ~HasPrefix(PrefixOf(packets[s].src), packets[s].class),
           packets[s].receiver # BadAddr,
           LET e == Dest(packets[s])
               z == Prefixed(PrefixOf(e), packets[s].class)
           IN /\ callback_create_vouchers(e.chain, z, packets[s])
              /\ incoming' = [incoming EXCEPT ![e.chain] =
                                Save(@, <<z, packets[s].token>>, e.channel)]
              /\ packets[s].receiver = Bridge =>
                   <<e.chain, z, packets[s].token>> \in K,
           WriteAck(s, "ok"),
           UNCHANGED outgoing
    PROVE  TokenInv(K)'
<1>1. PICK f, c, x, t, e, d, z, k, w, u :
        /\ f = packets[s].src /\ c = f.chain /\ x = packets[s].class
        /\ t = packets[s].token /\ e = Peer[f] /\ d = e.chain
        /\ z = Prefixed(PrefixOf(e), x) /\ k = nftContract'[d][z]
        /\ w = packets[s].receiver /\ u = packets[s].uri
  OBVIOUS
<1>2. /\ callback_create_vouchers(d, z, packets[s])
      /\ incoming' = [incoming EXCEPT ![d] = Save(@, <<z, t>>, e.channel)]
      /\ ~HasPrefix(PrefixOf(f), x) /\ (w = Bridge => <<d, z, t>> \in K)
  BY <1>1 DEF Dest
<1>3. /\ LedgerType /\ RouteType /\ PacketType /\ RegistryInv
      /\ EscrowRegistered /\ VoucherNames /\ SettledOnce /\ RouteType'
  BY DEF TokenInv, RegistryInv, TypeOK
<1>4. /\ f \in Endpoints /\ c \in Chains /\ e \in Endpoints /\ d \in Chains
      /\ x \in ClassId /\ w # None
  BY <1>1, <1>3, PacketFacts, AddrsAssumption DEF Dest
<1>5. d # c /\ Peer[e] = f
  BY <1>1, <1>4, NetworkAssumption
<1>6. HasPrefix(PrefixOf(e), z) /\ Unprefixed(z) = x /\ z.path # << >>
  BY <1>1, <1>4, PrefixOfType, PrefixRoundTrip DEF HasPrefix
<1>7. /\ RegistryGrows /\ VoucherNames' /\ Arrived(d, z, t)'
      /\ z \in DOMAIN nftContract'[d] /\ callback_mint(d, z, k, packets[s])
  BY <1>1, <1>2, <1>3, <1>4, <1>6, CreatePoint
<1>8. /\ ~Exists(d, k, t) /\ Cw721Mint(d, k, t, w, u)
      /\ tokenMetadata' = [tokenMetadata EXCEPT ![d] = @ \cup {<<z, t>>}]
  BY <1>1, <1>7 DEF callback_mint
<1>9. /\ OwnerBecomes(d, k, t, w) /\ ShowsKept
      /\ Exists(d, k, t)' /\ Shows(d, k, t)' = u
  BY <1>3, <1>4, <1>8, MintPoint
<1>10. /\ EscrowRegistered' /\ UrisKept
       /\ HeldBecomes(d, z, t, w = Bridge)
       /\ VoucherBecomes(d, z, t, z.path # << >> /\ w # None)
  <2>1. /\ nftContract'[d][z] = k /\ z \in DOMAIN nftContract'[d]
        /\ RegistryGrows /\ RegistryInv /\ EscrowRegistered /\ d \in Chains
    BY <1>1, <1>3, <1>4, <1>7
  <2>2. OwnerBecomes(d, k, t, w) /\ ShowsKept
    BY <1>9
  <2> QED BY <2>1, <2>2, ClassPoint
<1>11. OthersKept(s) /\ PhaseBecomes(s, "ok")
  BY <1>3, AckPoint
<1>12. /\ TokenOf(s) = <<c, x, t>> /\ TokenOf(s)' = <<c, x, t>>
       /\ Settles(s) /\ ~Redeems(s)
  BY <1>1, <1>11 DEF TokenOf, Settles, Redeems, PhaseBecomes
<1>13. Alone(s, c, x, t)
  BY <1>3, <1>12, AloneFacts
<1>14. ~Settles(s)' /\ ~InTransit(s)' /\ ~Redeems(s)'
  BY <1>1, <1>2, <1>11 DEF Settles, InTransit, Redeems, PhaseBecomes
<1>15. /\ ~Redeemed(c, x, t) /\ Pending(c, x, t) /\ CanRedeem(c, x, t)
       /\ ~Redeemed(c, x, t)' /\ ~Pending(c, x, t)' /\ ~OnTheWay(c, x, t)'
  <2>1. ~Redeemed(c, x, t) /\ Pending(c, x, t)
    BY <1>3, <1>12, <1>13, ByTokenOf, SettlesCases DEF Alone
  <2>2. ~Redeemed(c, x, t)' /\ ~Pending(c, x, t)' /\ ~OnTheWay(c, x, t)'
    BY <1>3, <1>11, <1>12, <1>13, <1>14, PacketsAtPoint
  <2> QED BY <2>1, <2>2, PendingHeld
<1>16. SettledOnce'
  BY <1>3, <1>11, <1>13, <1>14, SettledOnceAfter
<1>17. EntriesElsewhere(d, z, t) /\ PacketsElsewhere(c, x, t)
  BY <1>2, <1>3, <1>4, <1>8, <1>11, <1>12, EntriesPoint, PacketsPoint
<1> DEFINE D == {<<c, x, t>>, <<d, z, t>>}
<1>18. Frame(D)
  <2> SUFFICES ASSUME NEW b \in Chains, NEW v, NEW y, <<b, v, y>> \notin D
               PROVE  /\ CanRedeem(b, v, y)' <=> CanRedeem(b, v, y)
                      /\ IsVoucher(b, v, y)' <=> IsVoucher(b, v, y)
                      /\ \A h : SentOutOn(b, h, v, y)' <=> SentOutOn(b, h, v, y)
                      /\ Pending(b, v, y)' <=> Pending(b, v, y)
                      /\ OnTheWay(b, v, y)' <=> OnTheWay(b, v, y)
                      /\ Redeemed(b, v, y)' <=> Redeemed(b, v, y)
                      /\ Minted(b, v, y)' <=> Minted(b, v, y)
                      /\ Arrived(b, v, y)' <=> Arrived(b, v, y)
    BY DEF Frame
  <2>1. ~Same(b, v, y, c, x, t) /\ ~Same(b, v, y, d, z, t)
    BY DEF Same
  <2>2. \A h : SentOutOn(b, h, v, y)' <=> SentOutOn(b, h, v, y)
    BY DEF SentOutOn
  <2> QED BY <1>10, <1>17, <2>1, <2>2
          DEF HeldBecomes, VoucherBecomes, EntriesElsewhere, PacketsElsewhere
<1>19. /\ ~Same(c, x, t, d, z, t) /\ ~Same(d, z, t, c, x, t)
  BY <1>5 DEF Same
<1>20. /\ CanRedeem(c, x, t)' /\ (IsVoucher(c, x, t)' <=> IsVoucher(c, x, t))
       /\ IsVoucher(d, z, t)' /\ (CanRedeem(d, z, t)' <=> w = Bridge)
       /\ ~IsVoucher(d, z, t) /\ ~CanRedeem(d, z, t)
  <2>1. ~IsVoucher(d, z, t) /\ ~CanRedeem(d, z, t)
    BY <1>1, <1>4, <1>7, <1>8
       DEF IsVoucher, CanRedeem, Has, OwnedBy, RegistryGrows
  <2> QED BY <1>4, <1>6, <1>10, <1>15, <1>19, <2>1
          DEF HeldBecomes, VoucherBecomes, Same
<1>21. ~Pending(d, z, t) /\ ~Redeemed(d, z, t) /\ ~Redeemed(d, z, t)'
  <2>1. ~Pending(d, z, t) /\ ~Redeemed(d, z, t)
    BY <1>20, PendingHeld
  <2> QED BY <1>4, <1>17, <1>19, <2>1 DEF PacketsElsewhere
<1>22. \A q \in Slots :
         \/ packets'[q] = packets[q] /\ (Settles(q) => TokenOf(q) \notin D)
         \/ PacketFine(q)'
  <2>1. \A q \in Slots : Settles(q) => TokenOf(q) # <<d, z, t>>
    BY <1>21, ByTokenOf
  <2>2. PacketFine(s)'
    <3>1. x \in DOMAIN nftContract'[c]
      BY <1>20 DEF CanRedeem, Has
    <3>2. /\ packets'[s].src.chain = c /\ packets'[s].class = x
          /\ packets'[s].phase = "ok"
      BY <1>1, <1>11 DEF PhaseBecomes
    <3> QED BY <1>14, <3>1, <3>2 DEF PacketFine, Has
  <2> QED BY <1>11, <1>13, <2>1, <2>2 DEF OthersKept, Alone
<1>23. /\ SentOutOn(c, f.channel, x, t) /\ u = UriOf(c, x, t)
       /\ SentOutOn(c, f.channel, x, t)' /\ u = UriOf(c, x, t)'
  <2>1. SentOutOn(c, f.channel, x, t) /\ u = UriOf(c, x, t)
    BY <1>1 DEF TokenInv, PacketFine
  <2>2. UriOf(c, x, t)' = UriOf(c, x, t)
    BY <1>4, <1>10, <1>15, <1>20 DEF UrisKept
  <2>3. SentOutOn(c, f.channel, x, t)'
    BY <2>1 DEF SentOutOn
  <2> QED BY <2>1, <2>2, <2>3
<1>24. Backed(d, z, t)'
  <2>1. EntryOf(d, z) = e
    BY <1>1, <1>4, <1>6, EntryByPrefix
  <2>2. UriOf(d, z, t)' = u
    BY <1>1, <1>9 DEF UriOf, Shows
  <2>3. /\ Peer[EntryOf(d, z)].chain = c /\ Unprefixed(z) = x
        /\ Peer[EntryOf(d, z)].channel = f.channel
    BY <1>1, <1>5, <1>6, <2>1
  <2>4. PICK h : h = f.channel
    OBVIOUS
  <2>5. SentOutOn(c, h, x, t)'
    BY <1>23, <2>4 DEF SentOutOn
  <2>6. Peer[EntryOf(d, z)].channel = h
    BY <2>3, <2>4
  <2> QED BY <1>15, <1>20, <1>23, <2>2, <2>3, <2>5, <2>6 DEF Backed
<1>25. ASSUME NEW b \in Chains, NEW v, NEW y, IsVoucher(b, v, y)',
              <<b, v, y>> \in D \/ Parent(b, v, y) \in D
       PROVE  Redeemed(b, v, y)' \/ Backed(b, v, y)'
  <2>1. CASE <<b, v, y>> = <<c, x, t>>
    <3>1. b = c /\ v = x /\ y = t
      BY <2>1
    <3>2. IsVoucher(c, x, t)' /\ IsVoucher(c, x, t)
      BY <1>20, <1>25, <3>1
    <3>3. EntryOf(c, x) \in Endpoints /\ EntryOf(c, x).chain = c
      BY <1>4, <3>2, VoucherEntry DEF TokenInv
    <3>4. Parent(c, x, t) # <<c, x, t>>
      BY <3>3, ParentElsewhere DEF Parent
    <3>5. Parent(c, x, t) # <<d, z, t>>
      BY <1>4, <1>15, <1>20, <3>2, NoVoucherFor
    <3>6. Backed(c, x, t)'
      BY <1>4, <1>10, <1>15, <1>18, <3>2, <3>4, <3>5, StaysBacked
    <3> QED BY <3>1, <3>6
  <2>2. CASE <<b, v, y>> = <<d, z, t>>
    BY <1>24, <2>2
  <2>3. CASE <<b, v, y>> \notin D
    <3>1. IsVoucher(b, v, y)
      BY <1>18, <1>25, <2>3 DEF Frame
    <3>2. Redeemed(b, v, y)
      <4>1. CASE Parent(b, v, y) = <<c, x, t>>
        BY <1>15, <3>1, <4>1, NoVoucherFor
      <4>2. CASE Parent(b, v, y) = <<d, z, t>>
        BY <1>20, <3>1, <4>2, NoVoucherFor
      <4> QED BY <1>25, <2>3, <4>1, <4>2
    <3> QED BY <1>18, <2>3, <3>2 DEF Frame
  <2> QED BY <2>1, <2>2, <2>3
<1>26. tokenMetadata'[d] = tokenMetadata[d] \cup {<<z, t>>}
  BY <1>3, <1>4, <1>8 DEF RouteType, PerChain
<1>27. Minted(d, z, t)'
  BY <1>26 DEF Minted
<1>28. (Minted(c, x, t)' <=> Minted(c, x, t)) /\ (Arrived(c, x, t)' <=> Arrived(c, x, t))
  BY <1>4, <1>17, <1>19 DEF EntriesElsewhere
<1>29. ASSUME NEW b \in Chains, NEW v, NEW y, IsVoucher(b, v, y)',
              <<b, v, y>> \in D
       PROVE  Minted(b, v, y)' /\ Arrived(b, v, y)'
  <2>1. CASE <<b, v, y>> = <<c, x, t>>
    <3>1. b = c /\ v = x /\ y = t
      BY <2>1
    <3>2. IsVoucher(c, x, t)
      BY <1>20, <1>29, <3>1
    <3>3. Minted(c, x, t) /\ Arrived(c, x, t)
      BY <1>4, <3>2 DEF TokenInv, AllMetadata
    <3> QED BY <1>28, <3>1, <3>3
  <2>2. CASE <<b, v, y>> = <<d, z, t>>
    BY <1>7, <1>27, <2>2
  <2> QED BY <1>29, <2>1, <2>2
<1>30. ASSUME NEW b \in Chains, NEW v, NEW y, CanRedeem(b, v, y)',
              <<b, v, y>> \in D, <<b, v, y>> \notin K
       PROVE  Accounted(b, v, y)'
  <2>1. b = c /\ v = x /\ y = t
    BY <1>2, <1>20, <1>30
  <2>2. PICK h : h = f.channel
    OBVIOUS
  <2>3. EscrowedFor(c, h, x, t)'
    BY <1>15, <1>20, <1>23, <2>2 DEF EscrowedFor, SentOutOn
  <2>4. Claimed(f, x, t)'
    BY <1>1, <1>21, <1>27 DEF Claimed, Minted
  <2>5. Accounted(c, x, t)'
    BY <1>1, <1>4, <2>2, <2>3, <2>4 DEF Accounted
  <2> QED BY <2>1, <2>5
<1>31. ASSUME NEW g \in Endpoints, NEW v, NEW y, Child(g, v, y) \in D,
              Claimed(g, v, y)
       PROVE  Claimed(g, v, y)'
  <2>1. CASE Child(g, v, y) = <<c, x, t>>
    <3>1. Peer[g].chain = c /\ Prefixed(PrefixOf(Peer[g]), v) = x /\ y = t
      BY <2>1 DEF Child
    <3>2. Minted(c, x, t)
      BY <1>31, <3>1 DEF Claimed, Minted
    <3> QED BY <1>15, <1>28, <3>1, <3>2 DEF Claimed, Minted
  <2>2. CASE Child(g, v, y) = <<d, z, t>>
    <3>1. Peer[g].chain = d /\ Prefixed(PrefixOf(Peer[g]), v) = z /\ y = t
      BY <2>2 DEF Child
    <3> QED BY <1>21, <1>27, <3>1 DEF Claimed, Minted
  <2> QED BY <1>31, <2>1, <2>2
<1>32. \A b \in Chains : \A key \in tokenMetadata'[b] :
         key \in tokenMetadata[b] \/ key[1] \in DOMAIN nftContract'[b]
  <2>1. \A b \in Chains : b # d => tokenMetadata'[b] = tokenMetadata[b]
    BY <1>3, <1>8 DEF RouteType, PerChain
  <2> QED BY <1>7, <1>26, <2>1
<1> HIDE DEF D
<1> QED BY <1>7, <1>10, <1>16, <1>18, <1>22, <1>25, <1>29, <1>30, <1>31, <1>32,
           FrameStep

(***************************************************************************)
(* The invariant holds.                                                    *)
(***************************************************************************)
LEMMA EscrowInit == ASSUME NEW K, Init PROVE TokenInv(K)
<1>1. RegistryInv
  BY RegistryInvInit
<1>2. \A c \in Chains : /\ DOMAIN nftContract[c] = {}
                        /\ DOMAIN incoming[c] = {} /\ tokenMetadata[c] = {}
  BY DEF Init, EmptyMap
<1>3. \A s \in Slots : packets[s] = NoPacket
  BY DEF Init
<1>4. \A c \in Chains : \A x, t : ~CanRedeem(c, x, t) /\ ~IsVoucher(c, x, t)
  BY <1>2 DEF CanRedeem, IsVoucher, Has
<1>5. VoucherNames /\ AllBacked /\ AllMetadata /\ AllAccounted(K)
  BY <1>2, <1>4 DEF VoucherNames, AllBacked, AllMetadata, AllAccounted
<1>6. SettledOnce /\ \A s \in Slots : PacketFine(s)
  BY <1>3 DEF SettledOnce, Settles, PacketFine
<1>7. EscrowRegistered
  <2> SUFFICES ASSUME NEW c \in Chains, NEW kt \in DOMAIN ledger[c]
               PROVE  ledger[c][kt].owner # Bridge
    BY DEF EscrowRegistered
  <2>1. ledger[c] = [key \in NativeKeys(c) |-> NativeNfts[<<c, key[1], key[2]>>]]
    BY DEF Init
  <2>2. kt \in NativeKeys(c) /\ ledger[c][kt] = NativeNfts[<<c, kt[1], kt[2]>>]
    BY <2>1
  <2>3. <<c, kt[1], kt[2]>> \in DOMAIN NativeNfts
    BY <2>2 DEF NativeKeys
  <2>4. NativeNfts[<<c, kt[1], kt[2]>>].owner \in Users
    BY <2>3, NativesAssumption
  <2> QED BY <2>2, <2>4, AddrsAssumption
<1> QED BY <1>1, <1>5, <1>6, <1>7 DEF TokenInv

\* A packet arrives.  Without faulty collections a redemption succeeds.
LEMMA ReceiveKeeps ==
    ASSUME Flaky = {}, NEW K, TokenInv(K), RegistryInv', NEW s \in Slots,
           ibc_packet_receive(s),
           \A c, x, t : NamesBridge(c, x, t) => <<c, x, t>> \in K
    PROVE  TokenInv(K)'
<1>1. packets[s] # NoPacket /\ packets[s].phase = "sent"
  BY DEF ibc_packet_receive
<1>9. ASSUME packets[s].receiver = Bridge, WriteAck(s, "ok"), NEW x,
             x = ArrivesAs(packets[s])
      PROVE  <<Dest(packets[s]).chain, x, packets[s].token>> \in K
  <2>1. packets'[s] = [packets[s] EXCEPT !.phase = "ok"]
    BY <1>9 DEF WriteAck, TokenInv, RegistryInv, TypeOK, PacketType
  <2>2. PICK d, t : d = Dest(packets[s]).chain /\ t = packets[s].token
    OBVIOUS
  <2>3. NamesBridge(d, x, t)
    BY <1>1, <1>9, <2>1, <2>2 DEF NamesBridge
  <2> QED BY <2>2, <2>3
<1>2. CASE RejectPacket(s)
  BY <1>1, <1>2, RejectPacketKeeps
<1>3. CASE RedeemVoucher(s)
  <2> DEFINE p == packets[s]
             d == Dest(p).chain
             y == Unprefixed(p.class)
  <2>1. /\ p.receiver # BadAddr /\ HasPrefix(PrefixOf(p.src), p.class)
        /\ outgoing' = [outgoing EXCEPT ![d] = Remove(@, <<y, p.token>>)]
        /\ UNCHANGED <<nftContract, nftClass, incoming, tokenMetadata>>
    BY <1>3 DEF RedeemVoucher, Accepts, ReturningHere, registry
  <2>2. CanRedeem(d, y, p.token)
    BY <1>1, <2>1, ReturningBacked
  <2>3. ~MayFailToRedeem(d, y, p.token)
    BY <2>2 DEF MayFailToRedeem
  <2>4. /\ Cw721Transfer(d, nftContract[d][y], p.token, p.receiver)
        /\ WriteAck(s, "ok")
    BY <1>3, <2>3 DEF RedeemVoucher
  <2>5. ArrivesAs(p) = y
    BY <1>3 DEF RedeemVoucher, ArrivesAs
  <2>6. p.receiver = Bridge => <<d, y, p.token>> \in K
    BY <1>9, <2>4, <2>5
  <2> QED BY <1>1, <2>1, <2>4, <2>6, RedeemKeeps
<1>4. CASE CreateVoucher(s)
  <2> DEFINE p == packets[s]
             e == Dest(p)
             z == Prefixed(PrefixOf(e), p.class)
  <2>1. /\ p.receiver # BadAddr /\ ~ReturningHere(p)
        /\ incoming' = [incoming EXCEPT
                          ![e.chain] = Save(@, <<z, p.token>>, e.channel)]
        /\ \/ /\ callback_create_vouchers(e.chain, z, p)
              /\ WriteAck(s, "ok")
           \/ /\ MintClashes(e.chain, z, p.token)
              /\ WriteAck(s, "fail")
              /\ UNCHANGED <<ledger, nftContract, nftClass, tokenMetadata>>
        /\ UNCHANGED outgoing
    BY <1>4 DEF CreateVoucher, Accepts, registry
  <2>2. ~HasPrefix(PrefixOf(p.src), p.class)
    BY <1>1, <2>1, ReturningBacked
  <2>3. CASE callback_create_vouchers(e.chain, z, p) /\ WriteAck(s, "ok")
    <3>1. p.receiver = Bridge => <<e.chain, z, p.token>> \in K
      BY <1>9, <2>1, <2>3 DEF ArrivesAs
    <3> QED BY <1>1, <2>1, <2>2, <2>3, <3>1, CreateKeeps
  <2>4. CASE /\ MintClashes(e.chain, z, p.token)
             /\ WriteAck(s, "fail")
             /\ UNCHANGED <<ledger, nftContract, nftClass, tokenMetadata>>
    BY <1>1, <2>1, <2>4, CreateClashKeeps
  <2> QED BY <2>1, <2>3, <2>4
<1> QED BY <1>2, <1>3, <1>4 DEF ibc_packet_receive

\* No step strands a token but the one that gives it to the bridge.
LEMMA EscrowStep ==
    ASSUME Flaky = {}, NEW K, TokenInv(K), [Next]_vars,
           \A c, x, t : NamesBridge(c, x, t) => <<c, x, t>> \in K
    PROVE  TokenInv(K)'
<1>1. RegistryInv /\ PacketType
  BY DEF TokenInv, RegistryInv, TypeOK
<1>2. RegistryInv'
  BY <1>1, RegistryInvStep
<1>3. CASE Send
  BY <1>2, <1>3, SendKeeps
     DEF Send, execute_receive_nft, execute_receive_proxy_nft
<1>4. ASSUME NEW s \in Slots, Relay(s) PROVE TokenInv(K)'
  <2>1. CASE ibc_packet_receive(s)
    BY <1>2, <2>1, ReceiveKeeps
  <2>2. CASE ibc_packet_ack(s)
    <3>1. packets[s] # NoPacket /\ packets[s].phase \in {"ok", "fail"}
      BY <2>2 DEF ibc_packet_ack
    <3>2. CASE packets[s].phase = "fail"
      BY <1>2, <2>2, <3>1, <3>2, PacketFailKeeps
         DEF ibc_packet_ack, AckError, InTransit
    <3>3. CASE packets[s].phase = "ok"
      BY <1>2, <2>2, <3>1, <3>3, AckForgets, AckBurns
         DEF ibc_packet_ack, AckError
    <3> QED BY <3>1, <3>2, <3>3
  <2>3. CASE ibc_packet_timeout(s)
    BY <1>2, <2>3, PacketFailKeeps DEF ibc_packet_timeout, InTransit
  <2> QED BY <1>4, <2>1, <2>2, <2>3 DEF Relay
<1>5. CASE Own
  BY <1>2, <1>5, OwnKeeps
<1>6. CASE Govern
  BY <1>2, <1>6, GovernKeeps DEF Govern, execute_pause, migrate
<1>7. CASE UNCHANGED vars
  BY <1>2, <1>7, GovernKeeps DEF vars
<1> QED BY <1>3, <1>4, <1>5, <1>6, <1>7 DEF Next

\* A token that a bridge can hold or be given.
LEMMA TokensTyped ==
    ASSUME RegistryInv, NEW c \in Chains, NEW x, NEW t, CanRedeem(c, x, t)
    PROVE  x \in DOMAIN nftContract[c] /\ x \in ClassId /\ t \in Tokens
<1>1. RegistryType /\ LedgerType
  BY DEF RegistryInv, TypeOK
<1>2. x \in DOMAIN nftContract[c] /\ OwnedBy(c, nftContract[c][x], t, Bridge)
  BY DEF CanRedeem, Has
<1>3. x \in ClassId
  BY <1>1, <1>2 DEF RegistryType, IsMap
<1>4. t \in Tokens
  BY <1>1, <1>2 DEF LedgerType, IsMap, OwnedBy, Exists
<1> QED BY <1>2, <1>3, <1>4

LEMMA GivenTyped ==
    ASSUME PacketType, NEW c, NEW x, NEW t, NamesBridge(c, x, t)
    PROVE  c \in Chains /\ x \in ClassId /\ t \in Tokens
<1>1. PICK s \in Slots :
        /\ packets[s] # NoPacket /\ c = Dest(packets[s]).chain
        /\ x = ArrivesAs(packets[s]) /\ t = packets[s].token
  BY DEF NamesBridge
<1>2. /\ packets[s].class \in ClassId /\ c \in Chains /\ t \in Tokens
      /\ Dest(packets[s]) \in Endpoints
  BY <1>1, PacketFacts
<1>3. PrefixOf(Dest(packets[s])) \in Prefixes
  BY <1>2, PrefixOfType
<1>4. CASE ReturningHere(packets[s])
  <2>1. packets[s].class.path # << >>
    BY <1>4 DEF ReturningHere, HasPrefix
  <2> QED BY <1>1, <1>2, <1>4, <2>1 DEF ArrivesAs, ClassId, Unprefixed
<1>5. CASE ~ReturningHere(packets[s])
  <2>1. Prefixed(PrefixOf(Dest(packets[s])), packets[s].class) \in ClassId
    BY <1>2, <1>3 DEF Prefixed, ClassId
  <2> QED BY <1>1, <1>2, <1>5, <2>1 DEF ArrivesAs
<1> QED BY <1>2, <1>4, <1>5

LEMMA TokenInvAfter == ASSUME NEW K PROVE TokenInv(K)' => EscrowInv'
<1>1. TokenInv(K) => EscrowInv
  BY TokenByToken
<1> QED BY <1>1, PTL

\* With no eye to the stranded tokens, the invariant is inductive.
LEMMA EscrowInvStep ==
    ASSUME Flaky = {}, EscrowInv, [Next]_vars PROVE EscrowInv'
<1> DEFINE K == Chains \X ClassId \X Tokens
<1>1. RegistryInv /\ PacketType
  BY DEF EscrowInv, RegistryInv, TypeOK
<1>2. AllAccounted(K)
  BY <1>1, TokensTyped DEF AllAccounted
<1>3. \A c, x, t : NamesBridge(c, x, t) => <<c, x, t>> \in K
  BY <1>1, GivenTyped
<1> HIDE DEF K
<1>4. TokenInv(K)
  BY <1>2, TokenByToken
<1>5. TokenInv(K)'
  BY <1>3, <1>4, EscrowStep
<1> QED BY <1>5, TokenInvAfter

LEMMA EscrowInvInit == Init => EscrowInv
BY EscrowInit, TokenByToken

\* What makes the properties below inductive: no two packets will take the
\* same token from a bridge, and as long as a voucher has not been redeemed no
\* packet of the bridge that it came from will take what it stands for.
THEOREM EscrowShapeCorrect == ASSUME Flaky = {} PROVE Spec => []EscrowShape
<1>1. EscrowInv => EscrowShape
  BY DEF EscrowInv
<1>2. EscrowInv /\ [Next]_vars => EscrowInv'
  BY EscrowInvStep
<1> QED BY EscrowInvInit, <1>1, <1>2, PTL DEF Spec

LEMMA EscrowInvFacts ==
    EscrowInv => VouchersBacked /\ VoucherIsReplica /\ AcksProcessable
<1> SUFFICES ASSUME EscrowInv
             PROVE  VouchersBacked /\ VoucherIsReplica /\ AcksProcessable
  OBVIOUS
<1>1. PICK K : TokenInv(K)
  <2> DEFINE K == Chains \X ClassId \X Tokens
  <2>1. AllAccounted(K)
    BY TokensTyped DEF AllAccounted, EscrowInv
  <2> QED BY <2>1, TokenByToken
<1>2. ASSUME NEW c \in Chains, NEW x, NEW t, IsVoucher(c, x, t),
             ~Redeemed(c, x, t)
      PROVE  Backed(c, x, t)
  BY <1>1, <1>2 DEF TokenInv, AllBacked
<1>3. VouchersBacked
  <2> SUFFICES ASSUME NEW c \in Chains, NEW x \in DOMAIN nftContract[c],
                      NEW t \in Tokens, IsVoucher(c, x, t), ~Redeemed(c, x, t)
               PROVE  LET e == EntryOf(c, x) IN
                      /\ e \in Endpoints /\ PrefixOf(e) = Head(x.path)
                      /\ EscrowedFor(Peer[e].chain, Peer[e].channel,
                                     Unprefixed(x), t)
    BY DEF VouchersBacked
  <2>1. PICK e, y : e = EntryOf(c, x) /\ y = Unprefixed(x)
    OBVIOUS
  <2>2. e \in Endpoints /\ PrefixOf(e) = Head(x.path)
    BY <1>1, <2>1, VoucherEntry DEF TokenInv, HasPrefix
  <2>3. /\ CanRedeem(Peer[e].chain, y, t)
        /\ SentOutOn(Peer[e].chain, Peer[e].channel, y, t)
        /\ ~Pending(Peer[e].chain, y, t)
    BY <1>2, <2>1 DEF Backed
  <2>4. ~OnTheWay(Peer[e].chain, y, t)
    BY <1>1, <2>3, PendingHeld
  <2> QED BY <2>1, <2>2, <2>3, <2>4 DEF EscrowedFor
<1>4. VoucherIsReplica
  BY <1>2 DEF VoucherIsReplica, Backed
<1>5. AcksProcessable
  <2> SUFFICES ASSUME NEW s \in Slots, packets[s] # NoPacket
               PROVE  LET p == packets[s]
                          c == p.src.chain
                      IN /\ Has(nftContract[c], p.class)
                         /\ InTransit(s) \/ ReturnedToSource(p) =>
                              OwnedBy(c, nftContract[c][p.class], p.token, Bridge)
    BY DEF AcksProcessable
  <2>1. PacketFine(s) /\ VoucherNames /\ PacketType
    BY <1>1 DEF TokenInv, RegistryInv, TypeOK
  <2>2. ReturnedToSource(packets[s]) => Settles(s)
    <3>1. PICK e, c, x, t : /\ e = packets[s].src /\ c = e.chain
                            /\ x = packets[s].class /\ t = packets[s].token
      OBVIOUS
    <3>2. c \in Chains
      BY <2>1, <3>1, PacketFacts
    <3>3. ASSUME <<x, t>> \in DOMAIN incoming[c],
                 incoming[c][<<x, t>>] = e.channel
          PROVE  HasPrefix(PrefixOf(e), x)
      <4>1. HasPrefix(get_endpoint_prefix(Port[c], incoming[c][<<x, t>>]), x)
        BY <2>1, <3>2, <3>3 DEF VoucherNames
      <4> QED BY <3>1, <3>3, <4>1 DEF PrefixOf
    <3> QED BY <3>1, <3>3 DEF ReturnedToSource, Settles, Has
  <2>3. InTransit(s) => Settles(s)
    BY DEF InTransit, Settles
  <2> QED BY <2>1, <2>2, <2>3 DEF PacketFine, CanRedeem
<1> QED BY <1>3, <1>4, <1>5

\* The right of the holder of a voucher (README.md): in every network without
\* faulty collections, a voucher that has not been redeemed stands for a token
\* that the bridge it came from holds and has down as sent out on that channel,
\* so that redeeming it cannot fail.
THEOREM BackedCorrect == ASSUME Flaky = {} PROVE Spec => []VouchersBacked
<1>1. EscrowInv /\ [Next]_vars => EscrowInv'
  BY EscrowInvStep
<1> QED BY EscrowInvInit, EscrowInvFacts, <1>1, PTL DEF Spec

\* A voucher shows the URI of the token it stands for, whatever route it took:
\* receive_nft reads it from the NFT contract, callback_mint hands it on, and
\* nothing changes it while the token is in escrow.
THEOREM ReplicaCorrect == ASSUME Flaky = {} PROVE Spec => []VoucherIsReplica
<1>1. EscrowInv /\ [Next]_vars => EscrowInv'
  BY EscrowInvStep
<1> QED BY EscrowInvInit, EscrowInvFacts, <1>1, PTL DEF Spec

\* ibc_packet_ack and ibc_packet_timeout never fail for good: the class of an
\* unfinished packet has a contract, and what is to be handed back or burned is
\* in the hands of the bridge.
THEOREM AcksCorrect == ASSUME Flaky = {} PROVE Spec => []AcksProcessable
<1>1. EscrowInv /\ [Next]_vars => EscrowInv'
  BY EscrowInvStep
<1> QED BY EscrowInvInit, EscrowInvFacts, <1>1, PTL DEF Spec

\* A token that is not stranded is accounted for.
LEMMA StrandedMeans ==
    \A c, x, t :
      /\ Stranded(c, x, t) <=> CanRedeem(c, x, t) /\ ~Accounted(c, x, t)
      /\ Stranded(c, x, t)' <=> CanRedeem(c, x, t)' /\ ~Accounted(c, x, t)'
BY DEF Stranded, Accounted

\* A bridge keeps nothing for itself unless it is told to: the only step that
\* leaves it with a token that is neither on its way, nor a redeemed voucher
\* about to be burned, nor owed to the holder of a voucher at the other end of
\* the channel that its outgoing entry names, is one that accepts a packet
\* whose receiver is the bridge's own address.
THEOREM AccountedCorrect == ASSUME Flaky = {} PROVE Spec => EscrowAccounted
<1>1. EscrowInv /\ [Next]_vars => [StrandsOnlyGifts]_vars
  <2> SUFFICES ASSUME EscrowInv, [Next]_vars,
                      NEW c \in Chains, NEW x \in DOMAIN nftContract'[c],
                      NEW t \in Tokens,
                      Stranded(c, x, t)', ~Stranded(c, x, t),
                      ~NamesBridge(c, x, t)
               PROVE  FALSE
    BY DEF StrandsOnlyGifts
  <2> DEFINE K == (Chains \X ClassId \X Tokens) \ {<<c, x, t>>}
  <2>1. RegistryInv /\ PacketType
    BY DEF EscrowInv, RegistryInv, TypeOK
  <2>2. AllAccounted(K)
    BY <2>1, TokensTyped, StrandedMeans DEF AllAccounted
  <2>3. \A b, y, z : NamesBridge(b, y, z) => <<b, y, z>> \in K
    BY <2>1, GivenTyped
  <2>4. <<c, x, t>> \notin K
    OBVIOUS
  <2> HIDE DEF K
  <2>5. TokenInv(K)'
    BY <2>2, <2>3, TokenByToken, EscrowStep
  <2> QED BY <2>4, <2>5, StrandedMeans DEF TokenInv, AllAccounted
<1>2. EscrowInv /\ [Next]_vars => EscrowInv'
  BY EscrowInvStep
<1> QED BY EscrowInvInit, <1>1, <1>2, PTL DEF Spec, EscrowAccounted

(***************************************************************************)
(* The entries of the vouchers.  They do not depend on the escrow, so that *)
(* faulty collections do them no harm.                                     *)
(***************************************************************************)
EntriesInv == RegistryInv /\ EscrowRegistered /\ VoucherNames /\ AllMetadata

\* One token becomes a voucher, stays one or ceases to be one.
LEMMA EntriesStep ==
    ASSUME EntriesInv, RegistryInv', EscrowRegistered', VoucherNames',
           RegistryGrows, NEW c \in Chains, NEW x, NEW t, NEW v,
           VoucherBecomes(c, x, t, v), EntriesElsewhere(c, x, t),
           v => Minted(c, x, t)' /\ Arrived(c, x, t)',
           \A d \in Chains : \A key \in tokenMetadata'[d] :
             key \in tokenMetadata[d] \/ key[1] \in DOMAIN nftContract'[d]
    PROVE  EntriesInv'
<1>1. ASSUME NEW d \in Chains, NEW y, NEW z, IsVoucher(d, y, z)'
      PROVE  Minted(d, y, z)' /\ Arrived(d, y, z)'
  <2>1. CASE Same(d, y, z, c, x, t)
    BY <1>1, <2>1 DEF VoucherBecomes, Same
  <2>2. CASE ~Same(d, y, z, c, x, t)
    BY <1>1, <2>2 DEF VoucherBecomes, EntriesElsewhere, EntriesInv, AllMetadata
  <2> QED BY <2>1, <2>2
<1>2. ASSUME NEW d \in Chains, NEW key \in tokenMetadata'[d]
      PROVE  key[1] \in DOMAIN nftContract'[d]
  BY <1>2 DEF EntriesInv, AllMetadata, Has, RegistryGrows
<1> QED BY <1>1, <1>2 DEF EntriesInv, AllMetadata, Has

\* Nothing changes for any voucher.
LEMMA EntriesSame ==
    ASSUME EntriesInv, RegistryInv', EscrowRegistered', VoucherNames',
           UNCHANGED <<nftContract, tokenMetadata>>,
           \A d \in Chains : \A y, z :
             /\ IsVoucher(d, y, z)' <=> IsVoucher(d, y, z)
             /\ Arrived(d, y, z)' <=> Arrived(d, y, z)
    PROVE  EntriesInv'
<1>1. \A d \in Chains : \A y, z : Minted(d, y, z)' <=> Minted(d, y, z)
  BY DEF Minted
<1> QED BY <1>1 DEF EntriesInv, AllMetadata, Has

\* A token that exists changes hands, or is burned by its owner.
LEMMA EntriesOwner ==
    ASSUME EntriesInv, RegistryInv', NEW c \in Chains, NEW k, NEW t, NEW w,
           Exists(c, k, t), OwnerBecomes(c, k, t, w), ShowsKept,
           w = Bridge => k \in DOMAIN nftClass[c],
           UNCHANGED <<nftContract, nftClass, incoming, tokenMetadata>>
    PROVE  EntriesInv'
<1>1. RegistryInv /\ RegistryInverse /\ EscrowRegistered
  BY DEF EntriesInv, RegistryInv
<1>2. VoucherNames' /\ RegistryGrows
  BY DEF EntriesInv, VoucherNames, RegistryGrows
<1>3. CASE k \notin DOMAIN nftClass[c]
  <2>1. /\ EscrowRegistered'
        /\ \A d \in Chains : \A y, z : IsVoucher(d, y, z)' <=> IsVoucher(d, y, z)
    BY <1>1, <1>3, UnregisteredPoint
  <2>2. \A d \in Chains : \A y, z : Arrived(d, y, z)' <=> Arrived(d, y, z)
    BY DEF Arrived
  <2> QED BY <1>2, <2>1, <2>2, EntriesSame
<1>4. CASE k \in DOMAIN nftClass[c]
  <2>1. PICK x : x = nftClass[c][k]
    OBVIOUS
  <2>2. x \in DOMAIN nftContract[c] /\ nftContract[c][x] = k
    BY <1>1, <1>4, <2>1 DEF RegistryInverse
  <2>3. EscrowRegistered' /\ VoucherBecomes(c, x, t, x.path # << >> /\ w # None)
    BY <1>1, <1>2, <2>2, ClassPoint
  <2>4. EntriesElsewhere(c, x, t)
    BY DEF EntriesElsewhere, Minted, Arrived
  <2>5. ASSUME x.path # << >> PROVE Minted(c, x, t)' /\ Arrived(c, x, t)'
    <3>1. IsVoucher(c, x, t)
      BY <2>2, <2>5 DEF IsVoucher, Has
    <3>2. Minted(c, x, t) /\ Arrived(c, x, t)
      BY <3>1 DEF EntriesInv, AllMetadata
    <3> QED BY <3>2 DEF Minted, Arrived
  <2> QED BY <1>2, <2>3, <2>4, <2>5, EntriesStep
<1> QED BY <1>3, <1>4

\* The ledgers, the registries and the metadata are left alone.
LEMMA EntriesUntouched ==
    ASSUME EntriesInv, RegistryInv', VoucherNames',
           UNCHANGED <<ledger, nftContract, nftClass, tokenMetadata>>,
           \A d \in Chains : \A y, z : Arrived(d, y, z)' <=> Arrived(d, y, z)
    PROVE  EntriesInv'
BY LedgersKept, EntriesSame DEF EntriesInv

LEMMA EntriesSend ==
    ASSUME EntriesInv, RegistryInv',
           NEW e \in Endpoints, NEW k, NEW t, NEW u, NEW r, NEW s \in Slots,
           OwnedBy(e.chain, k, t, u), receive_nft(e, k, t, u, r, s)
    PROVE  EntriesInv'
<1>1. PICK c, x : c = e.chain /\ x = ClassOfContract(c, k)
  OBVIOUS
<1>2. /\ Cw721Transfer(c, k, t, Bridge) /\ RegisterLocal(c, k)
      /\ UNCHANGED <<incoming, tokenMetadata>>
  BY <1>1 DEF receive_nft
<1>3. RegistryInv /\ LedgerType /\ EscrowRegistered /\ VoucherNames
  BY DEF EntriesInv, RegistryInv, TypeOK
<1>4. c \in Chains /\ Exists(c, k, t)
  BY <1>1, PrefixOfType DEF OwnedBy
<1>5. OwnerBecomes(c, k, t, Bridge) /\ ShowsKept
  BY <1>2, <1>3, <1>4, TransferPoint
<1>6. /\ RegistryGrows /\ VoucherNames'
      /\ x \in DOMAIN nftContract'[c] /\ nftContract'[c][x] = k
      /\ x.path # << >> => x \in DOMAIN nftContract[c]
      /\ x \in DOMAIN nftContract[c] => nftContract[c][x] = k
  BY <1>1, <1>2, <1>3, <1>4, RegisterPoint
<1>7. EscrowRegistered' /\ VoucherBecomes(c, x, t, x.path # << >> /\ Bridge # None)
  BY <1>3, <1>4, <1>5, <1>6, ClassPoint
<1>8. EntriesElsewhere(c, x, t)
  BY <1>2 DEF EntriesElsewhere, Minted, Arrived
<1>9. ASSUME x.path # << >> PROVE Minted(c, x, t)' /\ Arrived(c, x, t)'
  <2>1. IsVoucher(c, x, t)
    BY <1>4, <1>6, <1>9 DEF IsVoucher, Has
  <2>2. Minted(c, x, t) /\ Arrived(c, x, t)
    BY <1>4, <2>1 DEF EntriesInv, AllMetadata
  <2> QED BY <1>2, <2>2 DEF Minted, Arrived
<1> QED BY <1>2, <1>4, <1>6, <1>7, <1>8, <1>9, EntriesStep

LEMMA EntriesRedeem ==
    ASSUME EntriesInv, RegistryInv', NEW s \in Slots, packets[s] # NoPacket,
           RedeemVoucher(s)
    PROVE  EntriesInv'
<1>1. PICK d, y, t, k, w :
        /\ d = Dest(packets[s]).chain /\ y = Unprefixed(packets[s].class)
        /\ t = packets[s].token /\ k = nftContract[d][y]
        /\ w = packets[s].receiver
  OBVIOUS
<1>2. /\ \/ CanRedeem(d, y, t) /\ Cw721Transfer(d, k, t, w)
         \/ UNCHANGED ledger
      /\ UNCHANGED <<nftContract, nftClass, incoming, tokenMetadata>>
  BY <1>1 DEF RedeemVoucher, registry
<1>3. LedgerType /\ PacketType /\ RegistryInverse
  BY DEF EntriesInv, RegistryInv, TypeOK
<1>4. d \in Chains
  BY <1>1, <1>3, PacketFacts
<1>5. CASE CanRedeem(d, y, t) /\ Cw721Transfer(d, k, t, w)
  <2>1. y \in DOMAIN nftContract[d] /\ Exists(d, k, t)
    BY <1>1, <1>5 DEF CanRedeem, Has, OwnedBy
  <2>2. OwnerBecomes(d, k, t, w) /\ ShowsKept
    BY <1>3, <1>4, <1>5, <2>1, TransferPoint
  <2>3. k \in DOMAIN nftClass[d]
    BY <1>1, <1>3, <1>4, <2>1 DEF RegistryInverse
  <2> QED BY <1>2, <1>4, <2>1, <2>2, <2>3, EntriesOwner
<1>6. CASE UNCHANGED ledger
  <2>1. VoucherNames'
    BY <1>2 DEF EntriesInv, VoucherNames
  <2> QED BY <1>2, <1>6, <2>1, EntriesUntouched DEF Arrived
<1> QED BY <1>2, <1>5, <1>6

LEMMA EntriesClash ==
    ASSUME EntriesInv, RegistryInv', NEW e \in Endpoints, NEW z, NEW t,
           HasPrefix(PrefixOf(e), z), MintClashes(e.chain, z, t),
           incoming' = [incoming EXCEPT
                          ![e.chain] = Save(@, <<z, t>>, e.channel)],
           UNCHANGED <<ledger, nftContract, nftClass, tokenMetadata>>
    PROVE  EntriesInv'
<1>1. PICK d, h : d = e.chain /\ h = e.channel
  OBVIOUS
<1>2. RouteType /\ VoucherNames
  BY DEF EntriesInv, RegistryInv, TypeOK
<1>3. d \in Chains
  BY <1>1, PrefixOfType
<1>4. IsVoucher(d, z, t)
  BY <1>1 DEF MintClashes, IsVoucher, HasPrefix
<1>5. <<z, t>> \in DOMAIN incoming[d]
  BY <1>3, <1>4 DEF EntriesInv, AllMetadata, Arrived, Has
<1>6. /\ incoming'[d] = Save(incoming[d], <<z, t>>, h)
      /\ \A b \in Chains : b # d => incoming'[b] = incoming[b]
  BY <1>1, <1>2, <1>3 DEF RouteType, PerChain
<1>7. /\ DOMAIN incoming'[d] = DOMAIN incoming[d]
      /\ incoming'[d][<<z, t>>] = h
      /\ \A key \in DOMAIN incoming[d] :
           key # <<z, t>> => incoming'[d][key] = incoming[d][key]
  BY <1>5, <1>6 DEF Save
<1>8. VoucherNames'
  <2>1. HasPrefix(get_endpoint_prefix(Port[d], h), z)
    BY <1>1 DEF PrefixOf
  <2> QED BY <1>2, <1>6, <1>7, <2>1 DEF VoucherNames, EntryOf
<1>9. \A b \in Chains : \A y, w : Arrived(b, y, w)' <=> Arrived(b, y, w)
  BY <1>6, <1>7 DEF Arrived, Has
<1> QED BY <1>8, <1>9, EntriesUntouched

LEMMA EntriesCreate ==
    ASSUME EntriesInv, RegistryInv', NEW s \in Slots, packets[s] # NoPacket,
           CreateVoucher(s)
    PROVE  EntriesInv'
<1>1. PICK p, e, d, z, t, k, w :
        /\ p = packets[s] /\ e = Dest(p) /\ d = e.chain
        /\ z = Prefixed(PrefixOf(e), p.class) /\ t = p.token
        /\ k = nftContract'[d][z] /\ w = p.receiver
  OBVIOUS
<1>2. /\ p.receiver # BadAddr
      /\ incoming' = [incoming EXCEPT ![d] = Save(@, <<z, t>>, e.channel)]
      /\ \/ callback_create_vouchers(d, z, p)
         \/ /\ MintClashes(d, z, t)
            /\ UNCHANGED <<ledger, nftContract, nftClass, tokenMetadata>>
  BY <1>1 DEF CreateVoucher, Accepts, registry
<1>3. /\ LedgerType /\ RouteType /\ PacketType /\ RegistryInv
      /\ EscrowRegistered /\ VoucherNames
  BY DEF EntriesInv, RegistryInv, TypeOK
<1>4. /\ e \in Endpoints /\ d \in Chains /\ p.class \in ClassId
      /\ w # None
  BY <1>1, <1>2, <1>3, PacketFacts, AddrsAssumption
<1>5. HasPrefix(PrefixOf(e), z)
  BY <1>1, <1>4, PrefixOfType, PrefixRoundTrip
<1>6. CASE callback_create_vouchers(d, z, p)
  <2>1. /\ RegistryGrows /\ VoucherNames' /\ Arrived(d, z, t)'
        /\ z \in DOMAIN nftContract'[d] /\ callback_mint(d, z, k, p)
    BY <1>1, <1>2, <1>3, <1>4, <1>5, <1>6, CreatePoint
  <2>2. /\ ~Exists(d, k, t) /\ Cw721Mint(d, k, t, w, p.uri)
        /\ tokenMetadata' = [tokenMetadata EXCEPT ![d] = @ \cup {<<z, t>>}]
    BY <1>1, <2>1 DEF callback_mint
  <2>3. OwnerBecomes(d, k, t, w) /\ ShowsKept
    BY <1>3, <1>4, <2>2, MintPoint
  <2>4. EscrowRegistered' /\ VoucherBecomes(d, z, t, z.path # << >> /\ w # None)
    <3>1. nftContract'[d][z] = k
      BY <1>1
    <3> QED BY <1>3, <1>4, <2>1, <2>3, <3>1, ClassPoint
  <2>5. EntriesElsewhere(d, z, t)
    BY <1>2, <1>3, <1>4, <2>2, EntriesPoint
  <2>6. /\ tokenMetadata'[d] = tokenMetadata[d] \cup {<<z, t>>}
        /\ \A b \in Chains : b # d => tokenMetadata'[b] = tokenMetadata[b]
    BY <1>3, <1>4, <2>2 DEF RouteType, PerChain
  <2>7. Minted(d, z, t)'
    BY <2>6 DEF Minted
  <2>8. \A b \in Chains : \A key \in tokenMetadata'[b] :
          key \in tokenMetadata[b] \/ key[1] \in DOMAIN nftContract'[b]
    BY <2>1, <2>6
  <2> QED BY <1>4, <2>1, <2>4, <2>5, <2>7, <2>8, EntriesStep
<1>7. CASE /\ MintClashes(d, z, t)
           /\ UNCHANGED <<ledger, nftContract, nftClass, tokenMetadata>>
  BY <1>1, <1>2, <1>4, <1>5, <1>7, EntriesClash
<1> QED BY <1>2, <1>6, <1>7

LEMMA EntriesFail ==
    ASSUME EntriesInv, RegistryInv', NEW s \in Slots, packets[s] # NoPacket,
           handle_packet_fail(s)
    PROVE  EntriesInv'
<1>1. PICK c, x, t, k, u :
        /\ c = packets[s].src.chain /\ x = packets[s].class
        /\ t = packets[s].token /\ k = nftContract[c][x]
        /\ u = packets[s].sender
  OBVIOUS
<1>2. /\ x \in DOMAIN nftContract[c] /\ Exists(c, k, t)
      /\ Cw721Transfer(c, k, t, u)
      /\ UNCHANGED <<nftContract, nftClass, incoming, tokenMetadata>>
  BY <1>1 DEF handle_packet_fail, Has, OwnedBy, registry
<1>3. LedgerType /\ PacketType /\ RegistryInverse
  BY DEF EntriesInv, RegistryInv, TypeOK
<1>4. c \in Chains
  BY <1>1, <1>3, PacketFacts
<1>5. OwnerBecomes(c, k, t, u) /\ ShowsKept
  BY <1>2, <1>3, <1>4, TransferPoint
<1>6. k \in DOMAIN nftClass[c]
  BY <1>1, <1>2, <1>3, <1>4 DEF RegistryInverse
<1> QED BY <1>2, <1>4, <1>5, <1>6, EntriesOwner

LEMMA EntriesAck ==
    ASSUME EntriesInv, RegistryInv', NEW s \in Slots, packets[s] # NoPacket,
           AckSuccess(s)
    PROVE  EntriesInv'
<1>1. PICK c, x, t, k :
        /\ c = packets[s].src.chain /\ x = packets[s].class
        /\ t = packets[s].token /\ k = nftContract[c][x]
  OBVIOUS
<1>2. /\ x \in DOMAIN nftContract[c]
      /\ \/ /\ incoming' = [incoming EXCEPT ![c] = Remove(@, <<x, t>>)]
            /\ tokenMetadata' = [tokenMetadata EXCEPT ![c] = @ \ {<<x, t>>}]
            /\ Cw721Burn(c, k, t)
         \/ UNCHANGED <<ledger, incoming, tokenMetadata>>
      /\ UNCHANGED <<nftContract, nftClass>>
  BY <1>1 DEF AckSuccess, Has, registry
<1>3. /\ LedgerType /\ RouteType /\ PacketType /\ RegistryInv
      /\ EscrowRegistered /\ VoucherNames
  BY DEF EntriesInv, RegistryInv, TypeOK
<1>4. c \in Chains
  BY <1>1, <1>3, PacketFacts
<1>5. CASE /\ incoming' = [incoming EXCEPT ![c] = Remove(@, <<x, t>>)]
           /\ tokenMetadata' = [tokenMetadata EXCEPT ![c] = @ \ {<<x, t>>}]
           /\ Cw721Burn(c, k, t)
  <2>1. OwnerBecomes(c, k, t, None) /\ ShowsKept
    BY <1>3, <1>4, <1>5, BurnPoint
  <2>2. RegistryGrows /\ x \in DOMAIN nftContract'[c] /\ nftContract'[c][x] = k
    BY <1>1, <1>2 DEF RegistryGrows
  <2>3. /\ EscrowRegistered'
        /\ VoucherBecomes(c, x, t, x.path # << >> /\ None # None)
    BY <1>3, <1>4, <2>1, <2>2, ClassPoint
  <2>4. EntriesElsewhere(c, x, t)
    BY <1>3, <1>4, <1>5, EntriesPoint
  <2>5. \A d \in Chains :
          /\ tokenMetadata'[d] \subseteq tokenMetadata[d]
          /\ \A key \in DOMAIN incoming'[d] :
               /\ key \in DOMAIN incoming[d]
               /\ incoming'[d][key] = incoming[d][key]
    <3>1. /\ tokenMetadata'[c] \subseteq tokenMetadata[c]
          /\ incoming'[c] = Remove(incoming[c], <<x, t>>)
          /\ \A d \in Chains : d # c =>
               incoming'[d] = incoming[d] /\ tokenMetadata'[d] = tokenMetadata[d]
      BY <1>3, <1>4, <1>5 DEF RouteType, PerChain
    <3> QED BY <3>1 DEF Remove
  <2>6. VoucherNames'
    BY <1>2, <1>3, <2>5 DEF VoucherNames, EntryOf
  <2> QED BY <1>4, <2>2, <2>3, <2>4, <2>5, <2>6, EntriesStep
<1>6. CASE UNCHANGED <<ledger, incoming, tokenMetadata>>
  <2>1. VoucherNames'
    BY <1>2, <1>3, <1>6 DEF VoucherNames
  <2> QED BY <1>2, <1>6, <2>1, EntriesUntouched DEF Arrived
<1> QED BY <1>2, <1>5, <1>6

LEMMA EntriesOwn ==
    ASSUME EntriesInv, RegistryInv', Own
    PROVE  EntriesInv'
<1>1. LedgerType
  BY DEF EntriesInv, RegistryInv, TypeOK
<1>2. PICK c \in Chains, k \in Contracts, t \in Tokens, u \in Users :
        \/ \E v \in Users : TransferNft(c, k, t, u, v)
        \/ Burn(c, k, t, u)
  BY DEF Own
<1>3. ASSUME NEW v \in Users, TransferNft(c, k, t, u, v)
      PROVE  EntriesInv'
  <2>1. /\ Exists(c, k, t) /\ OwnerBecomes(c, k, t, v) /\ ShowsKept
        /\ UNCHANGED <<nftContract, nftClass, incoming, tokenMetadata>>
    BY <1>1, <1>3, TransferPoint DEF TransferNft, OwnedBy, bridgeState, registry
  <2>2. v # Bridge
    BY AddrsAssumption
  <2> QED BY <2>1, <2>2, EntriesOwner
<1>4. CASE Burn(c, k, t, u)
  <2>1. /\ Exists(c, k, t) /\ OwnerBecomes(c, k, t, None) /\ ShowsKept
        /\ UNCHANGED <<nftContract, nftClass, incoming, tokenMetadata>>
    BY <1>1, <1>4, BurnPoint DEF Burn, OwnedBy, bridgeState, registry
  <2>2. None # Bridge
    BY AddrsAssumption
  <2> QED BY <2>1, <2>2, EntriesOwner
<1> QED BY <1>2, <1>3, <1>4

\* The bridges store nothing and the ledgers stay as they are.
LEMMA EntriesIdle ==
    ASSUME EntriesInv, RegistryInv', UNCHANGED <<ledger, bridgeState>>
    PROVE  EntriesInv'
<1>1. UNCHANGED <<ledger, nftContract, nftClass, incoming, tokenMetadata>>
  BY DEF bridgeState, registry
<1>2. VoucherNames'
  BY <1>1 DEF EntriesInv, VoucherNames
<1> QED BY <1>1, <1>2, EntriesUntouched DEF Arrived

LEMMA EntriesNext == EntriesInv /\ [Next]_vars => EntriesInv'
<1> SUFFICES ASSUME EntriesInv, [Next]_vars PROVE EntriesInv'
  OBVIOUS
<1>1. RegistryInv'
  BY RegistryInvStep DEF EntriesInv
<1>2. CASE Send
  BY <1>1, <1>2, EntriesSend
     DEF Send, execute_receive_nft, execute_receive_proxy_nft
<1>3. ASSUME NEW s \in Slots, Relay(s) PROVE EntriesInv'
  <2>1. packets[s] # NoPacket
    BY <1>3 DEF Relay, ibc_packet_receive, ibc_packet_ack, ibc_packet_timeout
  <2>2. CASE RejectPacket(s)
    BY <1>1, <2>2, EntriesIdle DEF RejectPacket
  <2>3. CASE RedeemVoucher(s) \/ CreateVoucher(s)
    BY <1>1, <2>1, <2>3, EntriesRedeem, EntriesCreate
  <2>4. CASE handle_packet_fail(s) \/ AckSuccess(s)
    BY <1>1, <2>1, <2>4, EntriesFail, EntriesAck
  <2> QED BY <1>3, <2>2, <2>3, <2>4
          DEF Relay, ibc_packet_receive, ibc_packet_ack, ibc_packet_timeout
<1>4. CASE Own
  BY <1>1, <1>4, EntriesOwn
<1>5. CASE Govern
  BY <1>1, <1>5, EntriesIdle DEF Govern, execute_pause, migrate
<1>6. CASE UNCHANGED vars
  BY <1>1, <1>6, EntriesIdle DEF vars
<1> QED BY <1>2, <1>3, <1>4, <1>5, <1>6 DEF Next

\* TOKEN_METADATA has an entry for every voucher and only entries of classes
\* that have a contract, which is what query_token_metadata asserts, and every
\* voucher has the incoming entry that makes ibc_packet_ack burn it once it has
\* gone back: in every network, with faulty collections or without.
THEOREM MetadataCorrect == Spec => []MetadataTracksVouchers
<1>1. Init => EntriesInv
  BY EscrowInit DEF TokenInv, EntriesInv
<1>2. EntriesInv => MetadataTracksVouchers
  BY MetadataByClass DEF EntriesInv
<1> QED BY EntriesNext, <1>1, <1>2, PTL DEF Spec
============================================================================
