--------------------------- MODULE PacketReceive ----------------------------
(***************************************************************************)
(* One bridge and its channels, at the other ends of which is any          *)
(* implementation of ICS-721: packets carry any number of tokens, with or  *)
(* without URIs, token data and class metadata, well-formed or not.        *)
(* (Ics721 has bridges at both ends, and one token per packet.)            *)
(*                                                                         *)
(* A transaction is one step.  What the submessage of receive_ibc_packet   *)
(* may change is held in one variable, world, so that rolling it back is   *)
(* leaving world as it was; the two maps that receive_ibc_packet writes to *)
(* itself are outside of it.  The proxy in front of the bridge is left to  *)
(* Ics721.                                                                 *)
(***************************************************************************)
EXTENDS PacketData, PauseOrchestrator

CONSTANTS
    Port,           \* the port of the bridge
    Remote,         \* [Channels -> Prefixes]: port and channel of the other end
    Tokens, Users,
    Bridge,         \* its own address
    BadAddr,        \* a string that is not an address
    Uris,           \* URIs and data of tokens and classes
    Natives,        \* [<<collection, token>> -> [owner, uri]]
    Offers,         \* the packet data that counterparties send
    Garbage,        \* packet data that from_binary does not parse
    Careful,        \* the channels whose counterparty keeps to CarefulOffer
    Slots,          \* identities of the bridge's unfinished packets: a bound
    Arrivals,       \* identities of packets on their way to the bridge: a bound
    MaxHops         \* bound: a class is sent further only up to this length

\* Result::Err, whatever it says.
Error == [error |-> TRUE]

\* Addresses of the contracts that the bridge instantiates, one per class.
VoucherAddrs == [voucher : ClassId]

Contracts == Collections \cup VoucherAddrs

Nft == [owner : Users \cup {Bridge}, uri : Uris \cup {None}]

\* NonFungibleTokenPacketData as it is parsed: nothing is checked yet, the lists
\* may be of any length and the class ID may be empty.
Data ==
    [class_id : ClassId \cup {LocalClass(Empty)},
     class_uri : Uris \cup {None}, class_data : Uris \cup {None},
     token_ids : Seq(Tokens), token_uris : Seq(Uris) \cup {None},
     token_data : Seq(Uris) \cup {None}, receiver : Users \cup {Bridge, BadAddr}]

ASSUME ReceiveAssumption ==
    /\ Remote \in [Channels -> Prefixes] /\ Port \in Ports
    /\ Careful \subseteq Channels
    /\ Bridge \notin Users /\ BadAddr \notin Users \cup {Bridge}
    /\ Empty \notin Collections /\ MaxHops \in Nat
    /\ \A k \in Collections : k \notin VoucherAddrs
    /\ IsMap(Natives, Collections \X Tokens, [owner : Users, uri : Uris \cup {None}])
    /\ Offers \subseteq Data \cup {Garbage}

VARIABLES
    world,          \* cw721 contracts and the maps that callbacks write to
    outgoing,       \* OUTGOING_CLASS_TOKEN_TO_CHANNEL
    incoming,       \* INCOMING_CLASS_TOKEN_TO_CHANNEL
    po,             \* PO
    open,           \* the channels that are not closed
    sent,           \* [Slots -> packet or None]: sent by the bridge, unfinished
    arriving,       \* [Arrivals -> packet or None]: on their way to the bridge
    lent,           \* history: <<channel, class, token>> that a careful
                    \* counterparty has accepted and not given back
    exposed         \* history: <<class, token>> that a counterparty which is
                    \* not careful may have claimed, see Risks

bridgeState == <<world, outgoing, incoming>>
history == <<lent, exposed>>
network == <<open, sent, arriving>>
vars == <<bridgeState, po, network, history>>

Here(ch) == get_endpoint_prefix(Port, ch)

(***************************************************************************)
(* cw721-base (external).  Every operator gives the new world, or Error,   *)
(* and Error for a world that is Error.                                    *)
(***************************************************************************)
Exists(w, k, t) == Has(w.nfts, <<k, t>>)

OwnedBy(w, k, t, a) == Exists(w, k, t) /\ w.nfts[<<k, t>>].owner = a

Cw721Transfer(w, k, t, from, to) ==
    IF w = Error \/ ~OwnedBy(w, k, t, from) THEN Error
    ELSE [w EXCEPT !.nfts[<<k, t>>].owner = to]

Cw721Mint(w, k, t, owner, uri) ==
    IF w = Error \/ Exists(w, k, t) THEN Error
    ELSE [w EXCEPT !.nfts = Save(@, <<k, t>>, [owner |-> owner, uri |-> uri])]

Cw721Burn(w, k, t, owner) ==
    IF ~OwnedBy(w, k, t, owner) THEN Error
    ELSE [w EXCEPT !.nfts = Remove(@, <<k, t>>)]

(***************************************************************************)
(* The callbacks, as functions of the world (contract.rs).                 *)
(***************************************************************************)
callback_redeem_vouchers(w, receiver, redeem) ==
    IF receiver = BadAddr \/ ~Has(w.nftContract, redeem.class.id) THEN Error
    ELSE LET k == w.nftContract[redeem.class.id] IN
         SeqExt!FoldLeft(LAMBDA v, t : Cw721Transfer(v, k, t, Bridge, receiver),
                         w, redeem.token_ids)

\* Metadata is saved only where there is some (a mutation).
SaveSomeMetadata(w, class_id, tokens) ==
    SeqExt!FoldLeft(
      LAMBDA v, tk :
        IF tk.data = None THEN v
        ELSE [v EXCEPT !.metadata = Save(@, <<class_id, tk.id>>, tk.data)],
      w, tokens)

\* TOKEN_METADATA is saved for every token, be it None.
SaveMetadata(w, class_id, tokens) ==
    SeqExt!FoldLeft(
      LAMBDA v, tk :
        [v EXCEPT !.metadata = Save(@, <<class_id, tk.id>>, tk.data)],
      w, tokens)

\* callback_mint: the metadata first, then one mint message per token.
callback_mint(w, class_id, tokens, receiver) ==
    LET k == w.nftContract[class_id] IN
    IF receiver = BadAddr THEN Error
    ELSE SeqExt!FoldLeft(
           LAMBDA v, tk : Cw721Mint(v, k, tk.id, receiver, tk.uri),
           SaveMetadata(w, class_id, tokens), tokens)

\* The fresh address of the contract instantiated for a class.  The chain
\* chooses it, and a class is instantiated once (Ics721 leaves the choice open).
VoucherAddr(class_id) == [voucher |-> class_id]

\* The instantiation of a voucher contract and reply to it: both maps.
InstantiateCw721(w, class_id) ==
    LET k == VoucherAddr(class_id) IN
    [w EXCEPT !.nftContract = Save(@, class_id, k),
              !.nftClass = Save(@, k, class_id)]

\* callback_create_vouchers.  The metadata of the class replaces what it was.
callback_create_vouchers(w, receiver, create) ==
    LET id == create.class.id
        saved == [w EXCEPT !.classes = Save(@, id, create.class)]
        ready == IF Has(w.nftContract, id) THEN saved
                 ELSE InstantiateCw721(saved, id)
    IN callback_mint(ready, id, create.tokens, receiver)

\* execute checks for a pause before a callback too; a packet that is handled
\* has got past that check in the same transaction.
execute_callback(w, msg) ==
    IF w = Error THEN Error
    ELSE IF msg.callback = "RedeemVouchers"
    THEN callback_redeem_vouchers(w, msg.receiver, msg.redeem)
    ELSE callback_create_vouchers(w, msg.receiver, msg.create)

\* CallbackMsg::Conjunction: all messages, in order, or an error.
Conjunction(w, operands) == SeqExt!FoldLeft(execute_callback, w, operands)

(***************************************************************************)
(* Receiving.                                                              *)
(***************************************************************************)

\* receive_ibc_packet gets past its early returns.
Accepts(p) ==
    /\ NotPaused(po)
    /\ p.data # Garbage /\ validate(p.data)
    /\ p.data.receiver # BadAddr

Selected(p) ==
    select_actions(p.data, outgoing, incoming,
                   Remote[p.channel], Here(p.channel), p.channel)

Submessage(p) ==
    into_submessage(Aggregate(Selected(p).actions, p.data), p.data.receiver)

ClaimsSource(p) == HasPrefix(Remote[p.channel], p.data.class_id)

\* The tokens from here that the packet says it brings back.
Claims(p) ==
    IF p.data # Garbage /\ ClaimsSource(p)
    THEN {<<Unprefixed(p.data.class_id), t>> : t \in SeqExt!ToSet(p.data.token_ids)}
    ELSE {}

\* The tokens that p returns: those that the bridge has down as sent out on
\* the channel that p comes in on.
RedeemedBy(p) ==
    {t \in SeqExt!ToSet(p.data.token_ids) :
       /\ ClaimsSource(p)
       /\ LET key == <<Unprefixed(p.data.class_id), t>> IN
          Has(outgoing, key) /\ outgoing[key] = p.channel}

Redeemed(p) == {<<Unprefixed(p.data.class_id), t>> : t \in RedeemedBy(p)}

\* What the submessage makes of the world: Error if it is rolled back.
Outcome(p) == Conjunction(world, Submessage(p))

\* The acknowledgement written: ack_fail by ibc_packet_receive for a packet
\* refused at once, or by the reply to the submessage.
Acknowledgement(p) ==
    IF Accepts(p) /\ Outcome(p) # Error THEN "ok" ELSE "fail"

\* ibc_packet_receive of a packet that is refused at once.
RejectPacket(p) ==
    /\ ~Accepts(p)
    /\ UNCHANGED <<bridgeState, history>>

\* What a careful counterparty gives back is lent no longer.
GivenBack(p) == {<<p.channel, key[1], key[2]>> : key \in Claims(p)}

\* One exposed token among those that a packet returns can make it fail, and
\* then the outgoing entries of all of them are gone.
Risks(p) == IF Claims(p) \cap exposed # {} THEN Redeemed(p) ELSE {}

\* A failed submessage takes the changes to the two maps with it (a mutation).
HandleOrRollBack(p) ==
    /\ Accepts(p)
    /\ IF Acknowledgement(p) = "ok"
       THEN /\ outgoing' = Selected(p).outgoing
            /\ incoming' = Selected(p).incoming
            /\ world' = Outcome(p)
            /\ lent' = lent \ GivenBack(p)
            /\ UNCHANGED exposed
       ELSE UNCHANGED <<bridgeState, history>>

\* ... and of one that is handled: the two maps are kept, the submessage is
\* rolled back if it fails.
HandlePacket(p) ==
    /\ Accepts(p)
    /\ outgoing' = Selected(p).outgoing
    /\ incoming' = Selected(p).incoming
    /\ IF Acknowledgement(p) = "ok"
       THEN /\ world' = Outcome(p)
            /\ lent' = lent \ GivenBack(p)
            /\ UNCHANGED exposed
       ELSE /\ exposed' = exposed \cup Risks(p)
            /\ UNCHANGED <<world, lent>>

\* Channels are unordered: the packets on their way come in in any order.
ibc_packet_receive(i) ==
    /\ arriving[i] # None
    /\ arriving' = [arriving EXCEPT ![i] = None]
    /\ UNCHANGED <<po, open, sent>>
    /\ RejectPacket(arriving[i]) \/ HandlePacket(arriving[i])

(***************************************************************************)
(* Sending, and the answers to what was sent.                              *)
(***************************************************************************)

\* The class receive_nft finds, or makes up, for an NFT contract.
ClassOfContract(k) ==
    IF Has(world.nftClass, k) THEN world.classes[world.nftClass[k]]
    ELSE [id |-> LocalClass(k), uri |-> None, data |-> None]

Registered(w, k, class) ==
    IF Has(w.nftClass, k) THEN w
    ELSE [w EXCEPT !.nftClass = Save(@, k, class.id),
                   !.nftContract = Save(@, class.id, k),
                   !.classes = Save(@, class.id, class)]

One(x) == IF x = None THEN None ELSE <<x>>

\* The packet of receive_nft: always one token.
OutgoingData(class, k, t, receiver) ==
    LET key == <<class.id, t>> IN
    [class_id |-> class.id, class_uri |-> class.uri, class_data |-> class.data,
     token_ids |-> <<t>>,
     token_uris |-> One(world.nfts[<<k, t>>].uri),
     token_data |-> One(IF Has(world.metadata, key) THEN world.metadata[key]
                        ELSE None),
     receiver |-> receiver]

\* ExecuteMsg::ReceiveNft, after SendNft by the owner of a token.
receive_nft(ch, k, t, sender, receiver, s) ==
    LET class == ClassOfContract(k) IN
    /\ OwnedBy(world, k, t, sender)
    /\ NotPaused(po)
    /\ ch \in open /\ sent[s] = None /\ Len(class.id.path) <= MaxHops
    /\ world' = Cw721Transfer(Registered(world, k, class), k, t, sender, Bridge)
    /\ outgoing' = Save(outgoing, <<class.id, t>>, ch)
    /\ sent' = [sent EXCEPT
                  ![s] = [channel |-> ch, sender |-> sender, phase |-> "sent",
                          data |-> OutgoingData(class, k, t, receiver)]]
    /\ exposed' = IF ch \in Careful THEN exposed ELSE exposed \cup {<<class.id, t>>}
    /\ UNCHANGED <<incoming, po, open, arriving, lent>>

SentToken(p) == Head(p.data.token_ids)

\* The channel a token came in on is not compared (a mutation).
CameFromAnywhere(p) == Has(incoming, <<p.data.class_id, SentToken(p)>>)

\* ibc_packet_ack of a success burns a token that came in on this channel.
ReturnedToSource(p) ==
    LET key == <<p.data.class_id, SentToken(p)>> IN
    Has(incoming, key) /\ incoming[key] = p.channel

Forget(s) == sent' = [sent EXCEPT ![s] = None]

AckSuccess(s) ==
    LET p == sent[s]
        key == <<p.data.class_id, SentToken(p)>>
        k == world.nftContract[p.data.class_id]
        after == Cw721Burn([world EXCEPT !.metadata = Remove(@, key)],
                           k, SentToken(p), Bridge)
    IN /\ Has(world.nftContract, p.data.class_id)
       /\ IF ReturnedToSource(p)
          THEN /\ after # Error
               /\ world' = after
               /\ incoming' = Remove(incoming, key)
          ELSE UNCHANGED <<world, incoming>>
       /\ UNCHANGED outgoing

handle_packet_fail(s) ==
    LET p == sent[s]
        k == world.nftContract[p.data.class_id]
        after == Cw721Transfer(world, k, SentToken(p), Bridge, p.sender)
    IN /\ Has(world.nftContract, p.data.class_id)
       /\ after # Error
       /\ world' = after
       /\ outgoing' = Remove(outgoing, <<p.data.class_id, SentToken(p)>>)
       /\ UNCHANGED incoming

\* Core IBC delivers acknowledgements on open channels only.
ibc_packet_ack(s) ==
    /\ sent[s] # None /\ sent[s].phase # "sent"
    /\ sent[s].channel \in open
    /\ IF sent[s].phase = "fail" THEN handle_packet_fail(s) ELSE AckSuccess(s)
    /\ Forget(s)
    /\ UNCHANGED <<po, open, arriving, history>>

\* A packet can time out on a closed channel too.
ibc_packet_timeout(s) ==
    /\ sent[s] # None /\ sent[s].phase = "sent"
    /\ handle_packet_fail(s)
    /\ Forget(s)
    /\ UNCHANGED <<po, open, arriving, history>>

\* ibc_channel_close: CloseConfirm is accepted and changes no state of the
\* bridge; core IBC delivers no packet on a closed channel.
ibc_channel_close(ch) ==
    /\ ch \in open
    /\ open' = open \ {ch}
    /\ arriving' = [i \in Arrivals |->
                      IF arriving[i] # None /\ arriving[i].channel = ch THEN None
                      ELSE arriving[i]]
    /\ UNCHANGED <<bridgeState, po, sent, history>>

(***************************************************************************)
(* The counterparties (external).  Any of them may send any packet at any  *)
(* time, but for the careful ones, which do what a bridge whose own escrow *)
(* is in order does.                                                       *)
(***************************************************************************)

\* A careful one claims only what it has been lent and has not yet claimed in
\* a packet that is still on its way, and names it once.
CarefulOffer(p) ==
    Claims(p) # {} =>
      /\ GivenBack(p) \subseteq lent
      /\ SeqExt!IsInjective(p.data.token_ids)
      /\ \A i \in Arrivals : arriving[i] # None /\ arriving[i].channel = p.channel =>
           Claims(arriving[i]) \cap Claims(p) = {}

CounterpartySends(i, ch, data) ==
    LET p == [channel |-> ch, data |-> data] IN
    /\ arriving[i] = None
    /\ ch \in open
    /\ ch \in Careful => CarefulOffer(p)
    /\ arriving' = [arriving EXCEPT ![i] = p]
    /\ UNCHANGED <<bridgeState, po, open, sent, history>>

\* A packet that times out does not reach the bridge.
CounterpartyTimesOut(i) ==
    /\ arriving[i] # None
    /\ arriving' = [arriving EXCEPT ![i] = None]
    /\ UNCHANGED <<bridgeState, po, open, sent, history>>

\* The answer to a packet of the bridge.  What a careful counterparty accepts
\* it has been lent, unless it is a token of its own that comes back.  But a
\* counterparty that has lost its own entry for such a token takes it for a new
\* one ("copies"), so that the bridge burns what it will be asked for.
CounterpartyAnswers(s, result, copies) ==
    LET p == sent[s]
        class == p.data.class_id
        returns == HasPrefix(Here(p.channel), class)
    IN /\ p # None /\ p.phase = "sent" /\ p.channel \in open
       /\ copies => result = "ok" /\ returns
       /\ sent' = [sent EXCEPT ![s].phase = result]
       /\ lent' = IF result = "ok" /\ p.channel \in Careful /\ (returns => copies)
                  THEN lent \cup {<<p.channel, class, SentToken(p)>>} ELSE lent
       /\ exposed' = IF copies THEN exposed \cup {<<class, SentToken(p)>>}
                     ELSE exposed
       /\ UNCHANGED <<bridgeState, po, open, arriving>>

(***************************************************************************)
(* Governance and owners.                                                  *)
(***************************************************************************)
execute_pause(sender) ==
    /\ PauseAllowed(po, sender)
    /\ po' = pause(po)
    /\ UNCHANGED <<bridgeState, network, history>>

migrate(newPauser) ==
    /\ po' = set_pauser(newPauser)
    /\ UNCHANGED <<bridgeState, network, history>>

Burn(k, t, u) ==
    /\ OwnedBy(world, k, t, u)
    /\ world' = Cw721Burn(world, k, t, u)
    /\ UNCHANGED <<outgoing, incoming, po, network, history>>

(***************************************************************************)
(* Queries (contract.rs).                                                  *)
(***************************************************************************)
MayLoad(map, key) == IF Has(map, key) THEN map[key] ELSE None

query_class_id_for_nft_contract(k) == MayLoad(world.nftClass, k)

query_nft_contract_for_class_id(class_id) == MayLoad(world.nftContract, class_id)

query_class_metadata(class_id) == MayLoad(world.classes, class_id)

\* The branch that debug_assert! guards is an Error here.
query_token_metadata(class_id, t) ==
    IF ~Has(world.metadata, <<class_id, t>>) THEN None
    ELSE IF ~Has(world.nftContract, class_id) THEN Error
    ELSE LET k == world.nftContract[class_id] IN
         IF ~Exists(world, k, t) THEN Error
         ELSE [id |-> t, uri |-> world.nfts[<<k, t>>].uri,
               data |-> world.metadata[<<class_id, t>>]]

query_owner(class_id, t) ==
    IF ~Has(world.nftContract, class_id) THEN Error
    ELSE LET k == world.nftContract[class_id] IN
         IF Exists(world, k, t) THEN world.nfts[<<k, t>>].owner ELSE Error

(***************************************************************************)
(* The specification.                                                      *)
(***************************************************************************)
Init ==
    /\ world = [nfts |-> Natives, nftContract |-> EmptyMap,
                nftClass |-> EmptyMap, classes |-> EmptyMap,
                metadata |-> EmptyMap]
    /\ outgoing = EmptyMap /\ incoming = EmptyMap
    /\ \E a \in Accounts \cup {None} : po = set_pauser(a)
    /\ open = Channels
    /\ sent = [s \in Slots |-> None]
    /\ arriving = [i \in Arrivals |-> None]
    /\ lent = {} /\ exposed = {}

Next ==
    \/ \E i \in Arrivals : ibc_packet_receive(i) \/ CounterpartyTimesOut(i)
    \/ \E ch \in Channels, kt \in DOMAIN world.nfts, u, r \in Users,
          s \in Slots : receive_nft(ch, kt[1], kt[2], u, r, s)
    \/ \E s \in Slots : ibc_packet_ack(s) \/ ibc_packet_timeout(s)
    \/ \E ch \in Channels : ibc_channel_close(ch)
    \/ \E i \in Arrivals, ch \in Channels, data \in Offers :
         CounterpartySends(i, ch, data)
    \/ \E s \in Slots, result \in {"ok", "fail"}, copies \in BOOLEAN :
         CounterpartyAnswers(s, result, copies)
    \/ \E a \in Accounts : execute_pause(a)
    \/ \E a \in Accounts \cup {None} : Accounts # {} /\ migrate(a)
    \/ \E kt \in DOMAIN world.nfts, u \in Users : Burn(kt[1], kt[2], u)

Spec == Init /\ [][Next]_vars

(***************************************************************************)
(* Properties.                                                             *)
(***************************************************************************)
ClassTokens == ClassId \X Tokens

Metadata == (Uris \ {Empty}) \cup {None}

\* What a validated packet has to say about a class.
ClassInfo == [id : ClassId, uri : Metadata, data : Metadata]

\* The items of ActionAggregator, and what CreateVouchers says of a token.
Token == [id : Tokens, uri : Uris \cup {None}, data : Uris \cup {None}]

VoucherRedemption == [class : ClassInfo, token_ids : Seq(Tokens)]

VoucherCreation == [class : ClassInfo, tokens : Seq(Token)]

\* None is no value of the types that the code makes optional (Some of an empty
\* string is not None), and an error is no address.
ASSUME NoneAssumption ==
    /\ None \notin Contracts /\ None \notin ClassInfo /\ None \notin Token
    /\ None \notin VoucherRedemption /\ None \notin VoucherCreation
    /\ None # Empty /\ Error \notin Users \cup {Bridge}

WorldType(w) ==
    /\ w = [nfts |-> w.nfts, nftContract |-> w.nftContract,
            nftClass |-> w.nftClass, classes |-> w.classes,
            metadata |-> w.metadata]
    /\ IsMap(w.nfts, Contracts \X Tokens, Nft)
    /\ IsMap(w.nftContract, ClassId, Contracts)
    /\ IsMap(w.nftClass, Contracts, ClassId)
    /\ IsMap(w.classes, ClassId, ClassInfo)
    /\ IsMap(w.metadata, ClassTokens, Uris \cup {None})

SentPacket ==
    [channel : Channels, sender : Users, phase : {"sent", "ok", "fail"},
     data : Data]

ArrivingPacket == [channel : Channels, data : Data \cup {Garbage}]

NetworkType ==
    /\ open \subseteq Channels
    /\ sent \in [Slots -> SentPacket \cup {None}]
    /\ arriving \in [Arrivals -> ArrivingPacket \cup {None}]
    /\ lent \subseteq Careful \X ClassId \X Tokens
    /\ exposed \subseteq ClassTokens

\* The types of the storage items, of the cw721 ledgers and of the packets.
\* Where a class has a URI or data, they are not empty: "Must be non-empty if
\* provided" (NonFungibleTokenPacketData), which only validate sees to.
TypeOK ==
    /\ WorldType(world)
    /\ IsMap(outgoing, ClassTokens, Channels)
    /\ IsMap(incoming, ClassTokens, Channels)
    /\ po \in PauseState
    /\ NetworkType

\* The positions of the tokens that p creates: the others, and those that
\* repeat an earlier position.
CreatedAt(p) ==
    {i \in DOMAIN p.data.token_ids :
       \/ p.data.token_ids[i] \notin RedeemedBy(p)
       \/ \E j \in 1 .. i - 1 : p.data.token_ids[j] = p.data.token_ids[i]}

VoucherClass(p) == Prefixed(Here(p.channel), p.data.class_id)

RedeemedNfts(p) ==
    {<<world.nftContract[Unprefixed(p.data.class_id)], t>> : t \in RedeemedBy(p)}

CreatedNfts(p) ==
    {<<world'.nftContract[VoucherClass(p)], p.data.token_ids[i]>> :
       i \in CreatedAt(p)}

Created(p) == {<<VoucherClass(p), p.data.token_ids[i]>> : i \in CreatedAt(p)}

\* The two maps that receive_ibc_packet writes to before its submessage runs:
\* what is returned is taken off the one, what is new is put on the other.
EntriesMoved(p) ==
    /\ outgoing' = [key \in DOMAIN outgoing \ Redeemed(p) |-> outgoing[key]]
    /\ incoming' = [key \in DOMAIN incoming \cup Created(p) |->
                      IF key \in Created(p) THEN p.channel ELSE incoming[key]]

\* Everything that the accepted packet p asks for, and nothing else.
Delivered(p) ==
    /\ CreatedAt(p) # {} =>
         /\ Has(world'.nftContract, VoucherClass(p))
         /\ world'.classes[VoucherClass(p)] = Class(VoucherClass(p), p.data)
    /\ DOMAIN world'.nfts = DOMAIN world.nfts \cup CreatedNfts(p)
    /\ CreatedNfts(p) \cap DOMAIN world.nfts = {}
    /\ \A kt \in DOMAIN world.nfts :
         world'.nfts[kt] = IF kt \in RedeemedNfts(p)
                           THEN [world.nfts[kt] EXCEPT !.owner = p.data.receiver]
                           ELSE world.nfts[kt]
    /\ \A i \in CreatedAt(p) :
         LET t == p.data.token_ids[i]
             class == VoucherClass(p)
         IN /\ world'.nfts[<<world'.nftContract[class], t>>]
                 = [owner |-> p.data.receiver, uri |-> At(p.data.token_uris, i)]
            /\ world'.metadata[<<class, t>>] = At(p.data.token_data, i)

ReceivesByReference ==
    \A i \in Arrivals : ibc_packet_receive(i) =>
      LET p == arriving[i] IN
      /\ IF Accepts(p) THEN EntriesMoved(p) ELSE UNCHANGED <<outgoing, incoming>>
      /\ IF Acknowledgement(p) = "ok" THEN Delivered(p) ELSE UNCHANGED world

\* A packet of many tokens that is acknowledged as a success has had its
\* effect for every one of them: each token sent out on this channel has gone
\* to the receiver, each other one and each repetition is a new voucher with
\* the URI and the data at its own position and the class's URI and data, no
\* token is dropped or shifted by the zips, and no other token is touched.
\* One that is acknowledged as a failure has changed no contract and no
\* metadata; but unless it was refused at once, the outgoing entries of the
\* tokens it returns are gone, and the incoming entries are there, as after a
\* success.
ReceiptMeetsReference == [][ReceivesByReference]_vars

\* A voucher that p would create twice, or that is there already.
Duplicates(p) ==
    \/ \E i, j \in CreatedAt(p) :
         i # j /\ p.data.token_ids[i] = p.data.token_ids[j]
    \/ /\ Has(world.nftContract, VoucherClass(p))
       /\ \E i \in CreatedAt(p) :
            Exists(world, world.nftContract[VoucherClass(p)], p.data.token_ids[i])

\* It returns a token that the bridge no longer has: one that has been exposed.
ReturnsExposed(p) ==
    \E key \in Redeemed(p) \cap exposed :
      ~OwnedBy(world, world.nftContract[key[1]], key[2], Bridge)

RefusesForCause ==
    \A i \in Arrivals :
      LET p == arriving[i] IN
      ibc_packet_receive(i) /\ Acknowledgement(p) = "fail" =>
        \/ po.paused \/ p.data = Garbage
        \/ ~validate(p.data) \/ p.data.receiver = BadAddr
        \/ Duplicates(p) \/ ReturnsExposed(p)

\* A packet is refused only for what its sender can see or has done: the
\* bridge is paused, the packet is malformed, the receiver is no address, it
\* creates a voucher twice, or it returns a token which the bridge does not
\* have and which has been exposed.  So no redemption fails of a token that has
\* only been sent to careful counterparties: not when it is repeated in the
\* packet, and not because of what was sent, refused or burned before.
RefusedForCause == [][RefusesForCause]_vars

\* What a careful counterparty has been lent, it can give back: the bridge
\* owns the token and has it down as sent out on that channel, whatever
\* arrives on the other channels and however late, also from counterparties
\* that claim what they do not have and call their ends by the same names, and
\* even after channels have been closed (returning_to_source in
\* receive_ibc_packet).  Such a counterparty can only harm the tokens that have
\* been sent to it, and those that are returned in one packet with them.
LentBacked ==
    \A l \in lent : <<l[2], l[3]>> \notin exposed =>
      /\ Has(outgoing, <<l[2], l[3]>>) /\ outgoing[<<l[2], l[3]>>] = l[1]
      /\ Has(world.nftContract, l[2])
      /\ OwnedBy(world, world.nftContract[l[2]], l[3], Bridge)

TokenOf(s) == <<sent[s].data.class_id, SentToken(sent[s])>>

\* ibc_packet_ack and ibc_packet_timeout find the contract of every packet
\* that the bridge has sent and, if the token has not been exposed, the token
\* to refund or to burn in the bridge's own hands, whatever was received since
\* on any channel: an acknowledgement that could not be processed would lock
\* the token for good.
AnswersProcessable ==
    \A s \in Slots : sent[s] # None =>
      LET p == sent[s] IN
      /\ Has(world.nftContract, p.data.class_id)
      /\ /\ TokenOf(s) \notin exposed
         /\ p.phase # "ok" \/ ReturnedToSource(p)
         => OwnedBy(world, world.nftContract[p.data.class_id], SentToken(p), Bridge)

\* What the bridge forwards of a class that came in, with its URI and data, is
\* what NonFungibleTokenPacketData asks for ("Must be non-empty if provided",
\* lists of the same length), so that no bridge refuses it: receive_nft does
\* not validate the packet it sends, and relies on what receive_ibc_packet let
\* in and on what the callbacks made of it.
SentPacketsValid ==
    \A s \in Slots : sent[s] # None =>
      LET data == sent[s].data IN
      /\ Empty \notin {data.class_id.base, data.class_uri, data.class_data}
      /\ \A list \in {data.token_uris, data.token_data} :
           list # None => Len(list) = Len(data.token_ids)

\* "token_metadata != None => token_contract != None" (the debug_assert! of
\* query_token_metadata), the queries for the contract of a class and the
\* class of a contract are inverse to each other and agree with the class
\* metadata, and the metadata and the owner of every voucher that has not
\* been burned can be queried.
QueriesAnswer ==
    /\ \A key \in DOMAIN world.metadata :
         query_nft_contract_for_class_id(key[1]) # None
    /\ \A class \in DOMAIN world.nftContract :
         LET k == query_nft_contract_for_class_id(class) IN
         /\ query_class_id_for_nft_contract(k) = class
         /\ query_class_metadata(class) # None
         /\ query_class_metadata(class).id = class
         /\ class.path # << >> => \A t \in Tokens : Exists(world, k, t) =>
              /\ query_token_metadata(class, t) \notin {None, Error}
              /\ query_owner(class, t) # Error

(***************************************************************************)
(* What makes these properties inductive.  First, of the world alone.      *)
(***************************************************************************)
RegistryInverse(w) ==
    /\ \A x \in DOMAIN w.nftContract :
         /\ w.nftContract[x] \in DOMAIN w.nftClass
         /\ w.nftClass[w.nftContract[x]] = x
    /\ \A k \in DOMAIN w.nftClass :
         /\ w.nftClass[k] \in DOMAIN w.nftContract
         /\ w.nftContract[w.nftClass[k]] = k
         /\ w.nftClass[k] \in DOMAIN w.classes
    /\ \A x \in DOMAIN w.classes : w.classes[x].id = x

\* A local class has the address of its collection for a name, any other one the
\* contract that was made for it.
ContractsNamed(w) ==
    \A x \in DOMAIN w.nftContract :
      w.nftContract[x] = IF x.path = << >> THEN x.base ELSE VoucherAddr(x)

\* Metadata is of registered classes, tokens are of native collections or of
\* registered contracts, and those of the latter have metadata.
TokensKnown(w) ==
    /\ \A key \in DOMAIN w.metadata : key[1] \in DOMAIN w.nftContract
    /\ \A kt \in DOMAIN w.nfts : kt[1] \notin Collections =>
         /\ kt[1] \in DOMAIN w.nftClass
         /\ <<w.nftClass[kt[1]], kt[2]>> \in DOMAIN w.metadata

WorldShape(w) == RegistryInverse(w) /\ ContractsNamed(w) /\ TokensKnown(w)

(***************************************************************************)
(* Then, of the tokens that the bridge holds.                              *)
(***************************************************************************)
Held(class, t) ==
    /\ Has(world.nftContract, class)
    /\ OwnedBy(world, world.nftContract[class], t, Bridge)

\* A packet whose answer will take a token from the bridge: back to the sender,
\* or, if it is a voucher that went back, to be burned.
Settles(s) ==
    /\ sent[s] # None
    /\ \/ sent[s].phase # "ok"
       \/ HasPrefix(Here(sent[s].channel), sent[s].data.class_id)

\* A packet of the bridge is of one token, whose class has a contract.  If the
\* token has not been exposed, the channel has a careful counterparty, the
\* bridge holds the token as long as the answer will take it, and while it is
\* on its way the outgoing entry names its channel.
PacketHolds(s) ==
    sent[s] # None =>
      LET p == sent[s] IN
      /\ p.data.class_id \in ClassId /\ p.data.token_ids = <<SentToken(p)>>
      /\ Has(world.nftContract, p.data.class_id)
      /\ TokenOf(s) \notin exposed =>
           /\ p.channel \in Careful
           /\ Settles(s) => Held(p.data.class_id, SentToken(p))
           /\ p.phase = "sent" => /\ Has(outgoing, TokenOf(s))
                                  /\ outgoing[TokenOf(s)] = p.channel

SettledOnce ==
    \A s, r \in Slots :
      /\ Settles(s) /\ Settles(r) /\ TokenOf(s) = TokenOf(r)
      /\ TokenOf(s) \notin exposed
      => s = r

\* A lent token is held, no answer will take it, and it is down as sent out on
\* the channel of the counterparty that has it.
LentHeld(l) ==
    LET key == <<l[2], l[3]>> IN
    /\ Held(l[2], l[3])
    /\ \A s \in Slots : Settles(s) => TokenOf(s) # key
    /\ Has(outgoing, key) /\ outgoing[key] = l[1]

\* A token that is down as sent out is of a class with a contract, and has been
\* exposed if it went out to a counterparty that is not careful.
OutgoingKnown ==
    \A key \in DOMAIN outgoing :
      /\ Has(world.nftContract, key[1])
      /\ key \in exposed \/ outgoing[key] \in Careful

IncomingNamed ==
    \A key \in DOMAIN incoming : HasPrefix(Here(incoming[key]), key[1])

\* A packet of a careful counterparty claims what is lent as long as it is on
\* its way, and no two of them claim the same token.
CarefulArrivals ==
    \A i \in Arrivals :
      LET p == arriving[i] IN
      p # None /\ p.channel \in Careful /\ Claims(p) # {} =>
        /\ GivenBack(p) \subseteq lent
        /\ SeqExt!IsInjective(p.data.token_ids)
        /\ \A j \in Arrivals \ {i} :
             arriving[j] # None /\ arriving[j].channel = p.channel =>
               Claims(arriving[j]) \cap Claims(p) = {}

\* What makes LentBacked and AnswersProcessable inductive.  At its heart: of a
\* token that the bridge holds and that has not been exposed there is at most
\* one of a packet whose answer will take it and a counterparty that it is
\* lent to.
LendingShape ==
    /\ \A s \in Slots : PacketHolds(s)
    /\ SettledOnce
    /\ \A l \in lent : <<l[2], l[3]>> \notin exposed => LentHeld(l)
    /\ OutgoingKnown /\ IncomingNamed /\ CarefulArrivals
=============================================================================
