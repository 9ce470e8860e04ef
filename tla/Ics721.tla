------------------------------- MODULE Ics721 ------------------------------
(***************************************************************************)
(* A network of cw-ics721-bridge contracts, one per chain, connected by    *)
(* IBC channels and moving cw721 NFTs.                                     *)
(*                                                                         *)
(* Every transaction of a chain is one step: CosmWasm runs a message and   *)
(* its submessages atomically, and a transaction that returns an error     *)
(* leaves no trace, so its error conditions are the guards of its action.  *)
(* The exception is ibc_packet_receive, which never returns an error: what *)
(* it wrote before its submessage failed is kept, and an error             *)
(* acknowledgement is written (reply, ACK_AND_DO_NOTHING).                 *)
(*                                                                         *)
(* The bridge sends exactly one token per packet (contract.rs:188), so in  *)
(* a network of bridges the loops over token_ids run once and a packet     *)
(* carries one token.  Class and token metadata are None for cw721 NFTs    *)
(* and are forwarded unread: CLASS_ID_TO_CLASS and TOKEN_METADATA are      *)
(* represented by the sets of keys they hold.                              *)
(***************************************************************************)
EXTENDS Storage, ClassIds, PauseOrchestrator

CONSTANTS
    Chains,
    Port,           \* [Chains -> Ports], the port of the bridge of a chain
    Peer,           \* the other end of a channel end; its domain: all ends
    VoucherAddrs,   \* addresses of contracts instantiated by a bridge
    Flaky,          \* the collections whose TransferNft may return an error
    Tokens,
    Users,          \* the accounts of a chain that hold NFTs
    Bridge,         \* the address of the bridge on its own chain
    BadAddr,        \* a string that no chain accepts as an address
    Proxies,        \* addresses of cw721-proxy contracts
    Uris,           \* token URIs; None is the absence of one
    NativeNfts,     \* [<<chain, collection, token>> -> [owner, uri]]
    Slots,          \* identities of unfinished packets: bounds their number
    MaxHops         \* bound: a class is sent further only below this length

Endpoints == DOMAIN Peer

ASSUME AddrsAssumption ==
    /\ Collections \cap VoucherAddrs = {}
    /\ Bridge \notin Users /\ BadAddr \notin Users /\ None \notin Users
    /\ None \notin Proxies /\ None \notin Accounts /\ None \notin Uris
    /\ Bridge \notin {None, BadAddr}
    /\ Flaky \subseteq Collections

ASSUME NetworkAssumption ==
    /\ Port \in [Chains -> Ports]
    /\ Endpoints \subseteq [chain : Chains, channel : Channels]
    /\ Peer \in [Endpoints -> Endpoints]
    /\ \A e \in Endpoints : Peer[Peer[e]] = e /\ Peer[e].chain # e.chain
    /\ None \notin Channels

ASSUME NativesAssumption ==
    /\ DOMAIN NativeNfts \subseteq Chains \X Collections \X Tokens
    /\ NativeNfts \in [DOMAIN NativeNfts ->
                         [owner : Users, uri : Uris \cup {None}]]

ASSUME MaxHopsAssumption == MaxHops \in Nat

VARIABLES
    ledger,         \* the cw721 contracts: (contract, token) -> owner, uri
    nftContract,    \* CLASS_ID_TO_NFT_CONTRACT
    nftClass,       \* NFT_CONTRACT_TO_CLASS_ID
    classes,        \* the keys of CLASS_ID_TO_CLASS
    outgoing,       \* OUTGOING_CLASS_TOKEN_TO_CHANNEL
    incoming,       \* INCOMING_CLASS_TOKEN_TO_CHANNEL
    tokenMetadata,  \* the keys of TOKEN_METADATA
    po,             \* PO, the pause orchestrator
    proxy,          \* PROXY
    packets         \* [Slots -> Packet or None], the unfinished packets

registry == <<nftContract, nftClass, classes>>
bridgeState == <<registry, outgoing, incoming, tokenMetadata>>
governance == <<po, proxy>>
vars == <<ledger, bridgeState, governance, packets>>

(***************************************************************************)
(* Packets.  "sent": committed by the source chain and neither received    *)
(* nor timed out; "ok" and "fail": received, the acknowledgement written   *)
(* and not yet delivered to the source chain.                              *)
(***************************************************************************)
Packet ==
    [src : Endpoints, class : ClassId, token : Tokens, uri : Uris \cup {None},
     sender : Users, receiver : Users \cup {Bridge, BadAddr},
     phase : {"sent", "ok", "fail"}]

NoPacket == None

ASSUME PacketAssumption == NoPacket \notin Packet

Dest(p) == Peer[p.src]

PrefixOf(e) == get_endpoint_prefix(Port[e.chain], e.channel)

Contracts == Collections \cup VoucherAddrs

(***************************************************************************)
(* cw721-base, as the bridge and the users call it (external).             *)
(***************************************************************************)
Exists(c, k, t) == <<k, t>> \in DOMAIN ledger[c]

OwnedBy(c, k, t, a) == Exists(c, k, t) /\ ledger[c][<<k, t>>].owner = a

Cw721Mint(c, k, t, owner, uri) ==
    ledger' = [ledger EXCEPT
                 ![c] = Save(@, <<k, t>>, [owner |-> owner, uri |-> uri])]

Cw721Transfer(c, k, t, recipient) ==
    ledger' = [ledger EXCEPT ![c][<<k, t>>].owner = recipient]

Cw721Burn(c, k, t) == ledger' = [ledger EXCEPT ![c] = Remove(@, <<k, t>>)]

(***************************************************************************)
(* Sending (contract.rs).                                                  *)
(***************************************************************************)

\* The class that receive_nft finds, or makes up, for an NFT contract.
ClassOfContract(c, k) ==
    IF Has(nftClass[c], k) THEN nftClass[c][k] ELSE LocalClass(k)

\* First sight of a collection records only the way back (a mutation).
RegisterLocalOneWay(c, k) ==
    /\ nftClass' = [nftClass EXCEPT ![c] = Save(@, k, ClassOfContract(c, k))]
    /\ classes' = [classes EXCEPT ![c] = @ \cup {ClassOfContract(c, k)}]
    /\ UNCHANGED nftContract

\* receive_nft on a contract it has no class for records both mappings and
\* the class; on a known contract it loads the class, which must be there.
RegisterLocal(c, k) ==
    IF Has(nftClass[c], k)
    THEN /\ nftClass[c][k] \in classes[c]
         /\ UNCHANGED registry
    ELSE LET class == LocalClass(k) IN
         /\ nftClass' = [nftClass EXCEPT ![c] = Save(@, k, class)]
         /\ nftContract' = [nftContract EXCEPT ![c] = Save(@, class, k)]
         /\ classes' = [classes EXCEPT ![c] = @ \cup {class}]

\* The token URI is not asked for (a mutation).
PacketWithoutUri(e, k, t, sender, receiver) ==
    [src |-> e, class |-> ClassOfContract(e.chain, k), token |-> t,
     uri |-> None, sender |-> sender, receiver |-> receiver, phase |-> "sent"]

\* The packet receive_nft builds; the URI comes from the NFT contract.
OutgoingPacket(e, k, t, sender, receiver) ==
    [src |-> e, class |-> ClassOfContract(e.chain, k), token |-> t,
     uri |-> ledger[e.chain][<<k, t>>].uri,
     sender |-> sender, receiver |-> receiver, phase |-> "sent"]

\* receive_nft.  SendNft of the cw721 has moved the token to the bridge in
\* the same transaction; IBC refuses a channel that is not the bridge's.
receive_nft(e, k, t, sender, receiver, s) ==
    LET c == e.chain
        class == ClassOfContract(c, k)
    IN /\ packets[s] = NoPacket
       /\ Len(class.path) < MaxHops \/ HasPrefix(PrefixOf(e), class)
       /\ Cw721Transfer(c, k, t, Bridge)
       /\ RegisterLocal(c, k)
       /\ outgoing' = [outgoing EXCEPT ![c] = Save(@, <<class, t>>, e.channel)]
       /\ packets' = [packets EXCEPT
                        ![s] = OutgoingPacket(e, k, t, sender, receiver)]
       /\ UNCHANGED <<incoming, tokenMetadata, governance>>

\* ExecuteMsg::ReceiveNft: an owner calls SendNft with the bridge.
execute_receive_nft(e, k, t, sender, receiver, s) ==
    /\ OwnedBy(e.chain, k, t, sender)
    /\ NotPaused(po[e.chain])
    /\ proxy[e.chain] = None
    /\ receive_nft(e, k, t, sender, receiver, s)

\* ExecuteMsg::ReceiveProxyNft: an owner calls SendNft with a proxy, which
\* hands the token and the message on to the bridge.
execute_receive_proxy_nft(e, k, t, sender, receiver, via, s) ==
    /\ OwnedBy(e.chain, k, t, sender)
    /\ NotPaused(po[e.chain])
    /\ proxy[e.chain] # None /\ via = proxy[e.chain]
    /\ receive_nft(e, k, t, sender, receiver, s)

(***************************************************************************)
(* Receiving (ibc_packet_receive.rs, and the callbacks in contract.rs that *)
(* run as its submessage).                                                 *)
(***************************************************************************)

\* The reply acknowledges an error whatever the result (a mutation).
WriteAckError(s, result) == packets' = [packets EXCEPT ![s].phase = "fail"]

\* ack_success / ack_fail: the acknowledgement becomes part of the packet.
WriteAck(s, result) == packets' = [packets EXCEPT ![s].phase = result]

\* The pause check is forgotten (a mutation).
AcceptsUnpaused(p) == p.receiver # BadAddr

\* receive_ibc_packet gets past its early returns.
Accepts(p) == NotPaused(po[Dest(p).chain]) /\ p.receiver # BadAddr

\* The prefix of the wrong end of the channel is popped (a mutation).
ReturningByOwnPrefix(p) ==
    LET key == <<Unprefixed(p.class), p.token>>
        out == outgoing[Dest(p).chain]
    IN /\ HasPrefix(PrefixOf(Dest(p)), p.class)
       /\ Has(out, key)
       /\ out[key] = Dest(p).channel

\* returning_to_source of receive_ibc_packet: the class ID starts with the
\* prefix of the sending endpoint and the rest of it was sent out here.
ReturningHere(p) ==
    LET key == <<Unprefixed(p.class), p.token>>
        out == outgoing[Dest(p).chain]
    IN /\ HasPrefix(PrefixOf(p.src), p.class)
       /\ Has(out, key)
       /\ out[key] = Dest(p).channel

\* callback_redeem_vouchers does not return an error: the contract of the
\* class is known and its TransferNft, called by the bridge, succeeds.
CanRedeem(d, class, t) ==
    /\ Has(nftContract[d], class)
    /\ OwnedBy(d, nftContract[d][class], t, Bridge)

\* It may return an error also when the collection itself is at fault.
MayFailToRedeem(d, class, t) ==
    CanRedeem(d, class, t) => nftContract[d][class] \in Flaky

\* A token that was sent out from here comes back.  The outgoing entry goes
\* before the submessage runs, and stays gone when the submessage fails.
RedeemVoucher(s) ==
    LET p == packets[s]
        d == Dest(p).chain
        class == Unprefixed(p.class)
    IN /\ Accepts(p) /\ ReturningHere(p)
       /\ outgoing' = [outgoing EXCEPT ![d] = Remove(@, <<class, p.token>>)]
       /\ \/ /\ CanRedeem(d, class, p.token)
             /\ Cw721Transfer(d, nftContract[d][class], p.token, p.receiver)
             /\ WriteAck(s, "ok")
          \/ /\ MayFailToRedeem(d, class, p.token)
             /\ WriteAck(s, "fail")
             /\ UNCHANGED ledger
       /\ UNCHANGED <<registry, incoming, tokenMetadata, governance>>

\* reply(INSTANTIATE_CW721_REPLY_ID) saves only the forward map (a mutation).
ReplySavesForwardOnly(d, class, k) ==
    /\ nftContract' = [nftContract EXCEPT ![d] = Save(@, class, k)]
    /\ UNCHANGED nftClass

\* reply(INSTANTIATE_CW721_REPLY_ID): the new contract's name is the class.
reply_instantiate_cw721(d, class, k) ==
    /\ nftContract' = [nftContract EXCEPT ![d] = Save(@, class, k)]
    /\ nftClass' = [nftClass EXCEPT ![d] = Save(@, k, class)]

\* The metadata entry is not written (a mutation).
MintWithoutMetadata(d, class, k, p) ==
    /\ ~Exists(d, k, p.token)
    /\ Cw721Mint(d, k, p.token, p.receiver, p.uri)
    /\ UNCHANGED tokenMetadata

\* callback_mint; cw721-base refuses to mint a token that exists.
callback_mint(d, class, k, p) ==
    /\ ~Exists(d, k, p.token)
    /\ tokenMetadata' = [tokenMetadata EXCEPT ![d] = @ \cup {<<class, p.token>>}]
    /\ Cw721Mint(d, k, p.token, p.receiver, p.uri)

\* callback_create_vouchers, which instantiates a contract for a class it
\* has none for, and mints.
callback_create_vouchers(d, class, p) ==
    /\ classes' = [classes EXCEPT ![d] = @ \cup {class}]
    /\ IF Has(nftContract[d], class)
       THEN /\ callback_mint(d, class, nftContract[d][class], p)
            /\ UNCHANGED <<nftContract, nftClass>>
       ELSE \E k \in VoucherAddrs \ DOMAIN nftClass[d] :
              /\ reply_instantiate_cw721(d, class, k)
              /\ callback_mint(d, class, k, p)

\* callback_create_vouchers returns an error: the token was minted already.
MintClashes(d, class, t) ==
    Has(nftContract[d], class) /\ Exists(d, nftContract[d][class], t)

\* A token that was not sent out from here arrives.  The incoming entry is
\* saved before the submessage runs and stays when the submessage fails.
CreateVoucher(s) ==
    LET p == packets[s]
        d == Dest(p).chain
        class == Prefixed(PrefixOf(Dest(p)), p.class)
    IN /\ Accepts(p) /\ ~ReturningHere(p)
       /\ incoming' = [incoming EXCEPT
                         ![d] = Save(@, <<class, p.token>>, Dest(p).channel)]
       /\ \/ /\ callback_create_vouchers(d, class, p)
             /\ WriteAck(s, "ok")
          \/ /\ MintClashes(d, class, p.token)
             /\ WriteAck(s, "fail")
             /\ UNCHANGED <<ledger, registry, tokenMetadata>>
       /\ UNCHANGED <<outgoing, governance>>

\* Paused, or the receiver is not an address: an error acknowledgement.
RejectPacket(s) ==
    /\ ~Accepts(packets[s])
    /\ WriteAck(s, "fail")
    /\ UNCHANGED <<ledger, bridgeState, governance>>

\* ibc_packet_receive: IBC delivers a packet at most once, in any order.
ibc_packet_receive(s) ==
    /\ packets[s] # NoPacket /\ packets[s].phase = "sent"
    /\ RejectPacket(s) \/ RedeemVoucher(s) \/ CreateVoucher(s)

(***************************************************************************)
(* Acknowledgements and timeouts, back on the source chain (ibc.rs).       *)
(***************************************************************************)
Forget(s) == packets' = [packets EXCEPT ![s] = NoPacket]

\* handle_packet_fail hands the token to the account that has the name of
\* the receiver, on the source chain (a mutation).
RefundReceiver(s) ==
    LET p == packets[s]
        c == p.src.chain
        k == nftContract[c][p.class]
    IN /\ Has(nftContract[c], p.class)
       /\ OwnedBy(c, k, p.token, Bridge)
       /\ outgoing' = [outgoing EXCEPT ![c] = Remove(@, <<p.class, p.token>>)]
       /\ Cw721Transfer(c, k, p.token, p.receiver)
       /\ Forget(s)
       /\ UNCHANGED <<registry, incoming, tokenMetadata, governance>>

\* A paused bridge refunds nothing (a mutation).
RefundUnlessPaused(s) ==
    LET p == packets[s]
        c == p.src.chain
        k == nftContract[c][p.class]
    IN /\ NotPaused(po[c])
       /\ Has(nftContract[c], p.class)
       /\ OwnedBy(c, k, p.token, Bridge)
       /\ outgoing' = [outgoing EXCEPT ![c] = Remove(@, <<p.class, p.token>>)]
       /\ Cw721Transfer(c, k, p.token, p.sender)
       /\ Forget(s)
       /\ UNCHANGED <<registry, incoming, tokenMetadata, governance>>

\* handle_packet_fail: the escrowed token goes back to its sender.  Without
\* a contract, or if its TransferNft fails, the transaction fails.
handle_packet_fail(s) ==
    LET p == packets[s]
        c == p.src.chain
        k == nftContract[c][p.class]
    IN /\ Has(nftContract[c], p.class)
       /\ OwnedBy(c, k, p.token, Bridge)
       /\ outgoing' = [outgoing EXCEPT ![c] = Remove(@, <<p.class, p.token>>)]
       /\ Cw721Transfer(c, k, p.token, p.sender)
       /\ Forget(s)
       /\ UNCHANGED <<registry, incoming, tokenMetadata, governance>>

\* Every acknowledged token counts as a returned voucher (a mutation).
ReturnedWhenever(p) ==
    Has(incoming[p.src.chain], <<p.class, p.token>>)

\* No acknowledged token counts as a returned voucher (a mutation).
NeverReturned(p) == FALSE

\* returning_to_source of ibc_packet_ack: the token had arrived here on the
\* channel it has now left on.
ReturnedToSource(p) ==
    LET key == <<p.class, p.token>>
        in == incoming[p.src.chain]
    IN Has(in, key) /\ in[key] = p.src.channel

\* ibc_packet_ack on a success: a returned voucher is burned.
AckSuccess(s) ==
    LET p == packets[s]
        c == p.src.chain
        k == nftContract[c][p.class]
        key == <<p.class, p.token>>
    IN /\ Has(nftContract[c], p.class)
       /\ IF ReturnedToSource(p)
          THEN /\ OwnedBy(c, k, p.token, Bridge)
               /\ incoming' = [incoming EXCEPT ![c] = Remove(@, key)]
               /\ tokenMetadata' = [tokenMetadata EXCEPT ![c] = @ \ {key}]
               /\ Cw721Burn(c, k, p.token)
          ELSE UNCHANGED <<ledger, incoming, tokenMetadata>>
       /\ Forget(s)
       /\ UNCHANGED <<registry, outgoing, governance>>

\* An error acknowledgement is taken for a success (a mutation).
IgnoresAckError(p) == FALSE

\* try_get_ack_error
AckError(p) == p.phase = "fail"

ibc_packet_ack(s) ==
    /\ packets[s] # NoPacket /\ packets[s].phase \in {"ok", "fail"}
    /\ IF AckError(packets[s]) THEN handle_packet_fail(s) ELSE AckSuccess(s)

\* IBC proves to the source chain that the packet was not received and will
\* not be.
ibc_packet_timeout(s) ==
    /\ packets[s] # NoPacket /\ packets[s].phase = "sent"
    /\ handle_packet_fail(s)

(***************************************************************************)
(* Governance.                                                             *)
(***************************************************************************)
execute_pause(c, sender) ==
    /\ PauseAllowed(po[c], sender)
    /\ po' = [po EXCEPT ![c] = pause(@)]
    /\ UNCHANGED <<ledger, bridgeState, proxy, packets>>

\* migrate(WithUpdate): sets pauser and proxy, and thereby unpauses.
migrate(c, newPauser, newProxy) ==
    /\ proxy' = [proxy EXCEPT ![c] = newProxy]
    /\ po' = [po EXCEPT ![c] = set_pauser(newPauser)]
    /\ UNCHANGED <<ledger, bridgeState, packets>>

(***************************************************************************)
(* What owners do with a cw721 token themselves (external).                *)
(***************************************************************************)
TransferNft(c, k, t, u, v) ==
    /\ OwnedBy(c, k, t, u)
    /\ Cw721Transfer(c, k, t, v)
    /\ UNCHANGED <<bridgeState, governance, packets>>

Burn(c, k, t, u) ==
    /\ OwnedBy(c, k, t, u)
    /\ Cw721Burn(c, k, t)
    /\ UNCHANGED <<bridgeState, governance, packets>>

(***************************************************************************)
(* The specification.  Init is the state after instantiate (and the reply  *)
(* to the instantiation of a proxy) of every bridge.                       *)
(***************************************************************************)
NativeKeys(c) ==
    {kt \in Collections \X Tokens : <<c, kt[1], kt[2]>> \in DOMAIN NativeNfts}

Init ==
    /\ ledger = [c \in Chains |->
                   [kt \in NativeKeys(c) |-> NativeNfts[<<c, kt[1], kt[2]>>]]]
    /\ nftContract = [c \in Chains |-> EmptyMap]
    /\ nftClass = [c \in Chains |-> EmptyMap]
    /\ classes = [c \in Chains |-> {}]
    /\ outgoing = [c \in Chains |-> EmptyMap]
    /\ incoming = [c \in Chains |-> EmptyMap]
    /\ tokenMetadata = [c \in Chains |-> {}]
    /\ \E a \in Accounts \cup {None} : po = [c \in Chains |-> set_pauser(a)]
    /\ \E x \in Proxies \cup {None} : proxy = [c \in Chains |-> x]
    /\ packets = [s \in Slots |-> NoPacket]

Send ==
    \E e \in Endpoints, k \in Contracts, t \in Tokens, u \in Users,
       r \in Users \cup {Bridge, BadAddr}, s \in Slots :
       \/ execute_receive_nft(e, k, t, u, r, s)
       \/ \E via \in Proxies : execute_receive_proxy_nft(e, k, t, u, r, via, s)

Relay(s) == ibc_packet_receive(s) \/ ibc_packet_ack(s) \/ ibc_packet_timeout(s)

Own ==
    \E c \in Chains, k \in Contracts, t \in Tokens, u \in Users :
       \/ \E v \in Users : TransferNft(c, k, t, u, v)
       \/ Burn(c, k, t, u)

Govern ==
    \E c \in Chains :
       \/ \E a \in Accounts : execute_pause(c, a)
       \/ \E a \in Accounts \cup {None}, x \in Proxies \cup {None} :
            migrate(c, a, x)

Next == Send \/ (\E s \in Slots : Relay(s)) \/ Own \/ Govern

Spec == Init /\ [][Next]_vars

\* A relayer is running: a packet is eventually received or timed out, and
\* a written acknowledgement is eventually delivered.
RelayFairness == \A s \in Slots : WF_vars(Relay(s))

FairSpec == Spec /\ RelayFairness

(***************************************************************************)
(* Properties.                                                             *)
(***************************************************************************)

Nft == [owner : Users \cup {Bridge}, uri : Uris \cup {None}]

ClassTokens == ClassId \X Tokens

PerChain(f) == f = [c \in Chains |-> f[c]]

LedgerType ==
    /\ PerChain(ledger)
    /\ \A c \in Chains : IsMap(ledger[c], Contracts \X Tokens, Nft)

RegistryType ==
    /\ PerChain(nftContract) /\ PerChain(nftClass) /\ PerChain(classes)
    /\ \A c \in Chains :
         /\ IsMap(nftContract[c], ClassId, Contracts)
         /\ IsMap(nftClass[c], Contracts, ClassId)
         /\ classes[c] \subseteq ClassId

RouteType ==
    /\ PerChain(outgoing) /\ PerChain(incoming) /\ PerChain(tokenMetadata)
    /\ \A c \in Chains :
         /\ IsMap(outgoing[c], ClassTokens, Channels)
         /\ IsMap(incoming[c], ClassTokens, Channels)
         /\ tokenMetadata[c] \subseteq ClassTokens

GovernanceType ==
    /\ po \in [Chains -> PauseState]
    /\ proxy \in [Chains -> Proxies \cup {None}]

PacketType == packets \in [Slots -> Packet \cup {NoPacket}]

\* The types of the cw721 ledgers, of the storage items of the bridges and
\* of the packets (state.rs; NonFungibleTokenPacketData in ibc.rs).
TypeOK ==
    LedgerType /\ RegistryType /\ RouteType /\ GovernanceType /\ PacketType

\* The two maps between class IDs and NFT contracts stay inverse to each
\* other, and every class they name has a CLASS_ID_TO_CLASS entry, through
\* registrations of local collections (receive_nft) and instantiations of
\* voucher collections (callback_create_vouchers, reply).
RegistryInverse ==
    \A c \in Chains :
      /\ \A x \in DOMAIN nftContract[c] :
           /\ nftContract[c][x] \in DOMAIN nftClass[c]
           /\ nftClass[c][nftContract[c][x]] = x
      /\ \A k \in DOMAIN nftClass[c] :
           /\ nftClass[c][k] \in DOMAIN nftContract[c]
           /\ nftContract[c][nftClass[c][k]] = k
           /\ nftClass[c][k] \in classes[c]

LocalNames ==
    \A c \in Chains : \A x \in DOMAIN nftContract[c] :
      IF x.path = << >> THEN nftContract[c][x] = x.base
                        ELSE nftContract[c][x] \in VoucherAddrs

TokensRegistered ==
    \A c \in Chains : \A kt \in DOMAIN ledger[c] :
      kt[1] \in Collections \cup DOMAIN nftClass[c]

\* A local class has the address of its collection for a name, the other
\* classes have contracts of the bridge's making, and only collections and
\* contracts that a bridge has made and registered have tokens: what makes
\* TypeOK and RegistryInverse inductive.
RegistryShape == LocalNames /\ TokensRegistered

RegistryInv == TypeOK /\ RegistryInverse /\ RegistryShape

\* The token of a packet is between two owners: on its way, or rejected.
InTransit(s) == packets[s] # NoPacket /\ packets[s].phase \in {"sent", "fail"}

Carries(s, c, class, t) ==
    /\ packets[s].src.chain = c
    /\ packets[s].class = class
    /\ packets[s].token = t

OnTheWay(c, class, t) == \E s \in Slots : InTransit(s) /\ Carries(s, c, class, t)

\* The outgoing entry of the token names this channel.
SentOutOn(c, channel, class, t) ==
    Has(outgoing[c], <<class, t>>) /\ outgoing[c][<<class, t>>] = channel

UriOf(c, class, t) == ledger[c][<<nftContract[c][class], t>>].uri

\* A voucher that has been redeemed on the chain it came from, and that the
\* acknowledgement of this will burn.
Redeemed(c, class, t) ==
    \E s \in Slots :
      /\ packets[s] # NoPacket /\ packets[s].phase = "ok"
      /\ Carries(s, c, class, t)
      /\ HasPrefix(PrefixOf(packets[s].src), class)

\* The bridge of chain c holds the token for whoever holds the voucher for
\* it at the other end of the channel.
EscrowedFor(c, channel, class, t) ==
    /\ CanRedeem(c, class, t)
    /\ SentOutOn(c, channel, class, t)
    /\ ~OnTheWay(c, class, t)

IsVoucher(c, class, t) ==
    /\ class.path # << >>
    /\ Has(nftContract[c], class)
    /\ Exists(c, nftContract[c][class], t)

\* The end of a channel that a voucher class arrived through.
EntryOf(c, class) == [chain |-> c, channel |-> Head(class.path)[2]]

\* "Possession of that debt-voucher on the receiving chain gives the holder
\* the right to redeem it for the original NFT" (README.md): as long as a
\* voucher is not redeemed, the bridge it came from holds the token it
\* stands for and has it down as sent out on that channel, which is what
\* receive_ibc_packet looks at when the voucher comes back.
VouchersBacked ==
    \A c \in Chains : \A class \in DOMAIN nftContract[c] : \A t \in Tokens :
      IsVoucher(c, class, t) =>
        \/ Redeemed(c, class, t)
        \/ LET e == EntryOf(c, class) IN
           /\ e \in Endpoints /\ PrefixOf(e) = Head(class.path)
           /\ EscrowedFor(Peer[e].chain, Peer[e].channel, Unprefixed(class), t)

\* A voucher shows what the token it stands for shows: its URI is that of the
\* escrowed token, whatever route it took (receive_nft asks the NFT contract,
\* callback_mint hands the URI of the packet to the voucher).
VoucherIsReplica ==
    \A c \in Chains : \A class \in DOMAIN nftContract[c] : \A t \in Tokens :
      IsVoucher(c, class, t) /\ ~Redeemed(c, class, t) =>
        UriOf(c, class, t)
          = UriOf(Peer[EntryOf(c, class)].chain, Unprefixed(class), t)

\* ibc_packet_ack and ibc_packet_timeout can always be carried out: the class
\* of an unfinished packet has a contract, and the token to hand back or to
\* burn is in the hands of the bridge.  A relayer retries a transaction that
\* fails, but one that always fails would lock the token for good.
AcksProcessable ==
    \A s \in Slots : packets[s] # NoPacket =>
      LET p == packets[s]
          c == p.src.chain
      IN /\ Has(nftContract[c], p.class)
         /\ InTransit(s) \/ ReturnedToSource(p) =>
              OwnedBy(c, nftContract[c][p.class], p.token, Bridge)

\* "Token metadata is set unconditionaly on mint" (query_token_metadata): a
\* voucher has a metadata entry and a metadata entry has a contract, which
\* the query asserts; and the voucher has the incoming entry that makes
\* ibc_packet_ack burn it once it has gone back.
MetadataTracksVouchers ==
    \A c \in Chains :
      /\ \A key \in tokenMetadata[c] : Has(nftContract[c], key[1])
      /\ \A class \in DOMAIN nftContract[c] : \A t \in Tokens :
           IsVoucher(c, class, t) =>
             /\ <<class, t>> \in tokenMetadata[c]
             /\ Has(incoming[c], <<class, t>>)
             /\ incoming[c][<<class, t>>] = EntryOf(c, class).channel

\* A voucher for the token was made at the other end of e, and has not been
\* given back (its owner may have burned it).
Claimed(e, class, t) ==
    LET d == Peer[e].chain
        child == Prefixed(PrefixOf(Peer[e]), class)
    IN <<child, t>> \in tokenMetadata[d] /\ ~Redeemed(d, child, t)

\* A token that the bridge holds for nobody: it is not on its way, is not a
\* voucher about to be burned, and is not owed to the owner of a voucher at the
\* other end of the channel that its outgoing entry names.
Stranded(c, class, t) ==
    /\ CanRedeem(c, class, t)
    /\ ~OnTheWay(c, class, t)
    /\ ~Redeemed(c, class, t)
    /\ ~\E e \in Endpoints :
          /\ e.chain = c
          /\ EscrowedFor(c, e.channel, class, t)
          /\ Claimed(e, class, t)

\* What a packet is at the other end: the token that was sent out from there,
\* or else a voucher.
ArrivesAs(p) ==
    IF ReturningHere(p) THEN Unprefixed(p.class)
    ELSE Prefixed(PrefixOf(Dest(p)), p.class)

\* The token is given to the bridge of c itself: a packet for it is accepted
\* that names the bridge as the receiver.
NamesBridge(c, class, t) ==
    \E s \in Slots :
      /\ packets[s] # NoPacket /\ packets[s].phase = "sent"
      /\ packets[s].receiver = Bridge
      /\ <<Dest(packets[s]).chain, ArrivesAs(packets[s]), packets[s].token>>
           = <<c, class, t>>
      /\ packets'[s] = [packets[s] EXCEPT !.phase = "ok"]

StrandsOnlyGifts ==
    \A c \in Chains : \A class \in DOMAIN nftContract'[c] : \A t \in Tokens :
      Stranded(c, class, t)' /\ ~Stranded(c, class, t) =>
        NamesBridge(c, class, t)

\* The bridge keeps nothing for itself unless it is told to: a token comes to
\* be in its hands with nobody to claim it (at first there is none) only in a
\* step that accepts a packet with the bridge's own address for a receiver,
\* which addr_validate lets pass.  No order of packets, acknowledgements,
\* timeouts and burns leaves one behind.
EscrowAccounted == [][StrandsOnlyGifts]_vars

\* A packet whose end will take a token from the bridge that sent it: back to
\* the sender, or, if it is a voucher that goes back, to be burned.
Settles(s) ==
    /\ packets[s] # NoPacket
    /\ \/ packets[s].phase \in {"sent", "fail"}
       \/ HasPrefix(PrefixOf(packets[s].src), packets[s].class)

Pending(c, class, t) == \E s \in Slots : Settles(s) /\ Carries(s, c, class, t)

\* What a packet will take is in the hands of the bridge, ...
PacketsHold ==
    \A s \in Slots : packets[s] # NoPacket =>
      LET p == packets[s] IN
      /\ Has(nftContract[p.src.chain], p.class)
      /\ Settles(s) => CanRedeem(p.src.chain, p.class, p.token)

\* ... no two packets will take the same token, ...
SettledOnce ==
    \A s, r \in Slots :
      /\ Settles(s) /\ Settles(r)
      /\ Carries(s, packets[r].src.chain, packets[r].class, packets[r].token)
      => s = r

\* ... and as long as it is on its way, the outgoing entry names its channel
\* and the token shows what it says.
SentOut ==
    \A s \in Slots : packets[s] # NoPacket /\ packets[s].phase = "sent" =>
      LET p == packets[s] IN
      /\ SentOutOn(p.src.chain, p.src.channel, p.class, p.token)
      /\ p.uri = UriOf(p.src.chain, p.class, p.token)

\* A class of vouchers is named after an end of a channel of its chain, and an
\* incoming entry names the channel that the class is named after.
VoucherNames ==
    \A c \in Chains :
      /\ \A class \in DOMAIN nftContract[c] : class.path # << >> =>
           LET e == EntryOf(c, class) IN
           e \in Endpoints /\ PrefixOf(e) = Head(class.path)
      /\ \A key \in DOMAIN incoming[c] :
           HasPrefix(get_endpoint_prefix(Port[c], incoming[c][key]), key[1])

\* The bridge at the other end holds what the voucher stands for, has it down
\* as sent out on this channel, and has no packet that will take it.
Backed(c, class, t) ==
    LET e == Peer[EntryOf(c, class)]
        parent == Unprefixed(class)
    IN /\ CanRedeem(e.chain, parent, t)
       /\ SentOutOn(e.chain, e.channel, parent, t)
       /\ ~Pending(e.chain, parent, t)
       /\ UriOf(c, class, t) = UriOf(e.chain, parent, t)

Backing ==
    \A c \in Chains : \A class \in DOMAIN nftContract[c] : \A t \in Tokens :
      IsVoucher(c, class, t) => Redeemed(c, class, t) \/ Backed(c, class, t)

\* A bridge holds tokens of registered contracts only.
EscrowRegistered ==
    \A c \in Chains : \A kt \in DOMAIN ledger[c] :
      ledger[c][kt].owner = Bridge => kt[1] \in DOMAIN nftClass[c]

\* What makes VouchersBacked, VoucherIsReplica and AcksProcessable inductive in
\* a network without faulty collections.  At its heart: of a token in escrow,
\* at any time, there is at most one of the packet that carries it, the voucher
\* that stands for it, and the packet that will burn it.
EscrowShape ==
    /\ PacketsHold /\ SettledOnce /\ SentOut /\ VoucherNames
    /\ Backing /\ EscrowRegistered

\* A step in which the bridge of chain c sends no packet, ...
SendsNothing(c) ==
    \A s \in Slots :
      packets[s] = NoPacket /\ packets'[s] # NoPacket =>
        packets'[s].src.chain # c

\* ... and in which a token leaves its hands only to be burned or to go back
\* to the sender of a packet that this step settles.
ReleasesOnlyRefunds(c) ==
    \A kt \in DOMAIN ledger'[c] :
      ledger[c][kt].owner = Bridge /\ ledger'[c][kt].owner # Bridge =>
        \E s \in Slots :
          /\ packets[s] # NoPacket /\ packets'[s] = NoPacket
          /\ packets[s].src.chain = c
          /\ packets[s].sender = ledger'[c][kt].owner

PausedStep ==
    \A c \in Chains : po[c].paused =>
      /\ SendsNothing(c)
      /\ DOMAIN ledger'[c] \subseteq DOMAIN ledger[c]
      /\ ReleasesOnlyRefunds(c)

\* What a paused bridge may still do (error_if_paused in execute and in
\* receive_ibc_packet, but in neither ibc_packet_ack nor ibc_packet_timeout):
\* it sends no packet, mints no voucher, and lets go of an escrowed token
\* only to burn it or to hand it back to the sender of one of its packets.
PausedOnlySettles == [][PausedStep]_vars

\* An unfinished packet can be taken further at any time, also while either
\* bridge is paused, has another pauser or is behind another proxy: one that was
\* sent is received or times out, and its acknowledgement is delivered.
\* (ibc_packet_ack and ibc_packet_timeout ask for none of this, and
\* ibc_packet_receive turns every error into an acknowledgement.)
AlwaysSettleable ==
    \A s \in Slots : packets[s] # NoPacket =>
      IF packets[s].phase = "sent"
      THEN ENABLED ibc_packet_receive(s) /\ ENABLED ibc_packet_timeout(s)
      ELSE ENABLED ibc_packet_ack(s)

\* "if the receiver does not process the packet correctly, the NFT sent to
\* the bridge is returned": with a relayer running, every packet is settled.
EveryTransferEnds ==
    \A s \in Slots : packets[s] # NoPacket ~> packets[s] = NoPacket
============================================================================
