# A TLA+ model of the ICS-721 bridge

This directory models `cw-ics721-bridge`, a CosmWasm contract that moves NFTs
between chains over IBC, and the packages it is built from. An NFT that is sent
away is locked in the bridge of its chain; the bridge of the other chain mints a
*debt-voucher* for it, itself an NFT, which can be sent on or back. Sent back, it
is burned and the original released.

Line numbers below are those of `contracts/cw-ics721-bridge/src/` unless another
directory is named.

## 1. Inventory

| Component | State | Operations | Hard behaviour | Correct if |
|---|---|---|---|---|
| Sending (`contract.rs`) | `CLASS_ID_TO_NFT_CONTRACT`, `NFT_CONTRACT_TO_CLASS_ID`, `CLASS_ID_TO_CLASS`, `OUTGOING_CLASS_TOKEN_TO_CHANNEL` | `execute_receive_nft`, `execute_receive_proxy_nft`, both through `receive_nft` | a token may be sent again while the answer to its last journey is outstanding | the token is locked, and its entry says where it went |
| Receiving (`ibc_packet_receive.rs`, callbacks in `contract.rs`, `reply` in `ibc.rs`) | `INCOMING_CLASS_TOKEN_TO_CHANNEL`, `TOKEN_METADATA`, and the above | `ibc_packet_receive`, `callback_create_vouchers`, `callback_mint`, `callback_redeem_vouchers`, the instantiation reply | what is written before the submessage survives the submessage's failure | a token is released only for its voucher, a voucher is minted only for a locked token |
| Answers (`ibc.rs`) | the same maps | `ibc_packet_ack`, `ibc_packet_timeout`, `handle_packet_fail` | unordered channels: answers in any order, timeouts | a returned voucher is burned, a failed transfer refunded, both always possible |
| Class IDs (`ibc_helpers.rs`, `token_types.rs`) | none | `get_endpoint_prefix`, `try_pop_source_prefix` | names are local: two chains may use the same ones | a voucher's class leads back to the original |
| Pause (`packages/cw-pause-once`) | `pauser`, `paused` | `set_pauser`, `pause`, `error_if_paused` | governance and pauser take turns | one pause per appointment; a paused bridge only settles |
| Instantiate, migrate, proxy (`contract.rs`) | `PROXY`, `PO` | `instantiate`, `migrate`, the proxy reply | reconfiguration while packets are on their way | what is escrowed stays redeemable |
| Handshake and closing (`ibc.rs`) | none in the contract | `ibc_channel_open`, `_connect`, `_close` | the counterparty's version is known in two of four steps; a counterparty may close with tokens out | only unordered `ics721-1` channels open; no channel between bridges closes |
| Packets of many tokens (`ibc_packet_receive.rs`, `token_types.rs`, `validate`, `packages/zip-optional`) | the maps, read and written token by token | the fold over the tokens, `ActionAggregator`, `Conjunction` | repeated tokens, lists of unequal length, one message of two failing | a packet has its effect for every token or for none |
| Queries (`contract.rs`) | none | class, contract, metadata, owner | they join maps that different handlers write | what exists can be queried |
| Bridge tester (`contracts/cw-ics721-bridge-tester`) | `ACK_MODE`, `LAST_ACK` | set mode, send, receive, ack, timeout, close | | answers as told |
| `cw-cii` | none | a conversion | | |

Components interact by messages only. Users call `SendNft` on a cw721 contract,
which calls the bridge (directly or through a proxy); the bridge emits a packet;
a relayer takes it to the bridge at the other end of the channel, and takes the
acknowledgement, or a proof that there is none, back. Within one chain
everything happens in transactions; concurrency is between chains.
`PROJECT.json` lists the hazards, each at the line where it bites.

## 2. Modules

| Module | What it models |
|---|---|
| `Storage`, `Options` | maps of cw-storage-plus (external), Rust's `None` |
| `ClassIds` | class IDs as sequences of prefixes and an address |
| `PauseOrchestrator` | the operations of cw-pause-once, as operators |
| `PauseOnce`, `PauseOnceProofs` | a contract governed by them, with counters; proofs |
| `Ics721` | a network of bridges, their cw721 contracts and packets |
| `Ics721Proofs` | proofs: types, the class and contract maps, what a paused bridge does |
| `EscrowProofs` | proofs: vouchers are backed, escrow is accounted for, answers can be carried out |
| `NftTransfer` | the abstract specification: an NFT is in one place |
| `Ics721Refinement` | the mapping from `Ics721` to `NftTransfer` |
| `Ics721RefinementProofs` | proofs: an NFT has one claim, and the refinement |
| `MCIcs721` | small networks for TLC |
| `Channels`, `ChannelsProofs` | the handshake and the closing of channels; proofs |
| `ZipOptional` | `packages/zip-optional` |
| `PacketData`, `PacketDataProofs` | validation, choice of actions and aggregation, as operators on packet data; a proof |
| `PacketReceive` | one bridge and its channels to counterparties of any implementation |
| `PacketReceiveProofs` | lemmas: what the loops over the tokens of a packet do, with the loops gone |
| `LendingProofs` | proofs: the properties of `PacketReceive` |
| `MCPacketReceive` | packets for TLC |
| `BridgeTester` | the tester contract |

`Ics721` and `PacketReceive` model the same contract from two sides. `Ics721` has
the bridge at both ends of every channel, one token per packet, and properties of
the whole network. `PacketReceive` has one bridge, and at the other ends whatever
speaks ICS-721: packets of many tokens, metadata, malformed packets, channels
that close. It uses `PacketData` for what happens to a packet before an NFT is
touched, and `PacketData` uses `ZipOptional` and `ClassIds`.

### How `Ics721` corresponds to the code

*State.* One function per storage item of `state.rs`, from chains to maps;
`ledger` holds owner and URI of every token of every cw721 contract of a chain;
`packets` holds the unfinished packets. `CW721_CODE_ID` never changes and is left
out. Class metadata and token metadata are `None` for cw721 NFTs and are copied
unread by the bridge, so of `CLASS_ID_TO_CLASS` and `TOKEN_METADATA` only the keys
are kept.

*Steps.* CosmWasm runs a message and all its submessages atomically and rolls
back a transaction that returns an error, so one transaction is one step and its
error conditions are guards. `ibc_packet_receive` never returns an error. What
`receive_ibc_packet` writes itself (an outgoing entry removed, line 78, an
incoming entry saved, line 90) is kept even when its `reply_always` submessage
fails and the reply writes an error acknowledgement; `RedeemVoucher` and
`CreateVoucher` have a branch for that.

| Action | Code |
|---|---|
| `execute_receive_nft`, `execute_receive_proxy_nft` | `contract.rs` 97-131 with `receive_nft` 138-214 |
| `ibc_packet_receive` = `RejectPacket` / `RedeemVoucher` / `CreateVoucher` | `ibc.rs` 124-140, `ibc_packet_receive.rs` 44-125, callbacks `contract.rs` 216-338, `reply` |
| `ibc_packet_ack` | `ibc.rs` 142-190 |
| `ibc_packet_timeout`, `handle_packet_fail` | `ibc.rs` 192-237 |
| `execute_pause`, `migrate` | `contract.rs` 133-136, 427-442 |
| `TransferNft`, `Burn` | what owners do with cw721 tokens (external) |

*Packets.* A bridge sends one token per packet (`contract.rs:188`), so in a network
of bridges the loops over tokens run once. IBC delivers a packet at most once, in
any order (channels are unordered), and a timeout excludes a reception.

*Environment.* The cw721 contracts behave like cw721-base: an owner moves and
burns its tokens, minting an existing token fails. Members of `Flaky` are
collections whose `TransferNft` may fail, like `contracts/cw721-tester`. Owners
hand tokens to users; a token handed to the bridge's address without `SendNft`
is not modelled, no code of the bridge sees it. The receiver of a packet is a user,
a string that is no address, or the bridge's own address, which `addr_validate`
accepts: then the token that is redeemed, or the voucher that is minted, is the
bridge's and nobody's claim. `NftTransfer` has the step `Vanish` for it.

### How `Channels` corresponds to the code

The steps `ChanOpenInit` to `ChanCloseConfirm` are those of core IBC; each is guarded
by what the contract that owns the end answers: `ibc_channel_open` for `OpenInit`
(counterparty version unknown) and `OpenTry` (known), `ibc_channel_connect` for
`OpenAck` (known) and `OpenConfirm` (unknown), `ibc_channel_close` for the two
steps of closing. Ends of `Bridges` and `Testers` run the checks of this
repository (the tester has a copy of them); ends of `Others` accept anything and
may answer with a version of their own. Several ends may answer one `OpenInit`.
Crossing `OpenInit`s, which core IBC has dropped, are left out.

### How `PacketReceive` corresponds to the code

*State.* `world` holds what a submessage can change: the cw721 ledgers and the maps
that callbacks and replies write. `outgoing` and `incoming` are written by
`receive_ibc_packet` itself and keep what it wrote when the submessage fails. The
callbacks are functions from worlds to worlds or `Error`, folded over the messages
as `Conjunction` runs them; rolling back is leaving `world` alone.

| Definition | Code |
|---|---|
| `validate`, `Items`, `zip_optional` | `ibc_helpers.rs` 123-165, `ibc_packet_receive.rs` 58-63, `zip-optional` |
| `select_actions`, `returning_to_source`, `Redeem`, `Create` | the `try_fold`, `ibc_packet_receive.rs` 58-105 |
| `add_action` (`AddRedemption`, `AddCreation`), `Aggregate`, `into_submessage` | `ActionAggregator`, 106-111, 188-247 |
| `Data`, `Token`, `VoucherRedemption`, `VoucherCreation` | the types of the same names, `ibc.rs` 35-68, `token_types.rs` 15-57 |
| `callback_*`, `execute_callback`, `Conjunction` | `contract.rs` 70-95, 216-338 |
| `ibc_packet_receive` = `RejectPacket` / `HandlePacket`, `Acknowledgement` | `ibc.rs` 124-140, 279-291 |
| `receive_nft`, `ibc_packet_ack`, `ibc_packet_timeout` | as in `Ics721`, with class and token metadata |
| `ibc_channel_close` | `ibc.rs` 94-122, `CloseConfirm` |
| `query_*` | `contract.rs` 362-425 |

*Abstractions.* URIs and data are members of `Uris`, one of them empty. Memo and
sender of a packet are not looked at. The address of a voucher contract is a
function of its class: a class is instantiated once, and `Ics721`, which leaves the
choice of fresh addresses open, checks that this holds. The proxy is left to `Ics721`.

*Counterparties* (external). Any counterparty may send any packet of `Offers` at any
time, also one that claims, with a class ID that carries the counterparty's prefix, a
token it does not have, has given back already, or has not been told of yet. Any number
of packets are on their way to the bridge (`Arrivals`); they come in in any order, and
are lost by timeouts or when the channel closes. Core IBC delivers packets and
acknowledgements on open channels only; timeouts also on closed ones. Only the
counterparties in `Careful` are assumed to do what a bridge does whose escrow is in
order (`CarefulOffer`): they claim what they have been lent, not in two packets at once,
and name a token once in a packet.

`receive_ibc_packet` compares a claim with the outgoing entry and with nothing else: it
does not know whether its own packet with the token has been answered, nor whether the
voucher it is asked for has been burned. So a counterparty that is not careful can take
a token that is on its way to it, and the answer to that packet then finds nothing to
refund. Even a bridge may ask for a burned voucher: having lost its outgoing entry
in a failed redemption it takes its own token for a new one (`copies` in
`CounterpartyAnswers`), this bridge burns the voucher on the success and keeps the entry.
Two history variables say which tokens this can happen to. `lent` holds what careful
counterparties have accepted and not given back. `exposed` holds the tokens that were
sent to a counterparty that is not careful, or were copied, or were returned in a
packet that failed and claimed such a token too (`Risks`): one failure removes the
entries of all tokens in the packet. A token stays exposed for good. The guarantees
below on lending are for the others, and neither variable occurs in a guard of the bridge.

*Mutations.* Definitions marked "(a mutation)" are not part of the specification:
each is a plausible mistake in the definition that follows it, and `PROJECT.json`
says which property notices it.

## 3. Properties

* `VouchersBacked`: as long as a voucher is not redeemed, the bridge it came from
  holds the token it stands for, has it down as sent out on that very channel,
  and no packet is about to give it to someone else. This is the right to
  redeem that the repository's README promises.
* `EscrowAccounted`: the converse, as a property of steps. What the bridge holds is on
  its way, about to be burned, or owed to the holder of a voucher; a step leaves a token
  in the bridge without any of these only by accepting a packet that names the bridge
  itself as the receiver.
* `OneClaim` and `ImplementsNftTransfer`: over all chains an NFT has one owner
  or is on its way; it arrives with the receiver or returns to the sender. Sent to a
  bridge's own address, it is gone.
* `VoucherIsReplica`: a voucher shows the URI of what it stands for.
* `AcksProcessable`: the ack and timeout handlers find the contract and the token that
  they need.
* `AlwaysSettleable`: every unfinished packet can be received and timed out, or
  its acknowledgement processed, in every state: the actions are enabled, with whatever
  guards they have, also on a bridge that is paused, migrated or behind another proxy.
* `MetadataTracksVouchers`: what `query_token_metadata` asserts.
* `EscrowShape`: what makes the above inductive without faulty collections. Of a
  token in escrow there is at most one of the packet that carries it, the voucher
  that stands for it and the packet that will burn it.
* `RegistryInverse`, `RegistryShape`: the class and contract maps.
* `PausedOnlySettles`: what a paused bridge may do.
* `EveryTransferEnds`: every packet is settled.
* `PausesEarned`: one pause per appointment.
* `OpenSpeaksIcs721`, `BridgesStayConnected`: which channels a bridge opens, and that
  none between bridges closes; `HandshakeEnds`, `CloseFollows`: the checks are in
  nobody's way, neither when a handshake finishes nor when the other side closes.
* `ReceiptMeetsReference`: the reference says, without loop and without zips, which
  tokens of a packet return (`RedeemedBy`), which positions are new (`CreatedAt`), and
  what each token and its class have to look like afterwards. A packet acknowledged as a
  success does exactly that. One acknowledged as a failure changes no contract and no
  metadata, but if it got as far as the submessage the outgoing and incoming entries have
  moved as after a success (`EntriesMoved`).
* `RefusedForCause`: the complete list of reasons for a refusal. A failed redemption is
  among them only of an exposed token which the bridge no longer has.
* `SentPacketsValid`: what the bridge forwards of what it was told passes `validate`.
* `LentBacked`: what a careful counterparty has been lent, and is not exposed, stays
  redeemable, whatever happens on other channels.
* `AnswersProcessable`: `AcksProcessable`, in the presence of arbitrary packets: of every
  packet the contract is found, and of a token that is not exposed the token too.
* `LendingShape`: what makes the two inductive. Of a token that the bridge holds, and that
  is not exposed, there is at most one of a packet whose answer will take it and a
  counterparty that it is lent to.
* `QueriesAnswer`: what the queries promise, with the `debug_assert!` of
  `query_token_metadata`.

## 4. Runs

| Run | Instance | Shows |
|---|---|---|
| `crossed` | two chains, two channels with swapped names, one token, 3 hops | invariants, with prefixes that do not tell chains apart |
| `line` | three chains in a line, namesake tokens on two | vouchers of vouchers stay backed, nothing is stranded |
| `replica` | one channel, two users, two namesake tokens | refinement of `NftTransfer` |
| `govern` | one channel, a fair relayer, pausers and proxies that come and go | `PausedOnlySettles`, `AlwaysSettleable`, `EveryTransferEnds` |
| `flaky` | a collection whose `TransferNft` may fail | no NFT is duplicated even so |
| `failed_redemption` | the same | **violation**, see below |
| `pause_once` | three accounts, two appointments each | `PauseInv`, `PausesEarned` |
| `tester_ack_mode` | the tester | **violation**, see below |
| `channels` | two ends of bridges, one of the tester, two of other applications, two versions, both orders | the handshake and the closing |
| `receipts` | one channel, packets of up to three tokens, with and without metadata, well-formed and malformed, pauses and migrations | the fold and the submessage against the reference, queries, forwarding |
| `lending` | a native token, two channels whose other ends have the same name, one of them careful, two unfinished packets and two on their way to the bridge | `LentBacked`, `AnswersProcessable` |
| `vouchers` | a foreign token, the same channels, vouchers that go back, go on and are copied | `LendingShape`, `RefusedForCause` |

*Bounds.* `Slots` (2) bounds the unfinished packets: the races of the code are
between two packets for the same token, one of them received and not yet
acknowledged. `MaxHops` (2 or 3) bounds how far a class is sent on; returning is
not bounded. Two hops already make vouchers of vouchers and returns that are not
to the home chain, three a class that visits the same chain twice as a voucher.
`VoucherAddrs` (4) bounds the contracts a bridge makes; when they run out a
packet can only be refused or time out. `MaxAppointments` and `MaxInFlight` bound
counters. In `PacketReceive`, two tokens in a packet are enough for a repetition, for
a mix of redemption and creation and for lists that are too short or too long; `MaxHops`
(1) lets vouchers be sent on, and back, once. `Arrivals` bounds the packets on their way to
the bridge: two in `lending`, where what matters is a claim that is overtaken by
another one; one, which may be delayed past any number of sends and answers, in `vouchers`
and `receipts`. That one exposed token exposes those it is returned with needs two
lent tokens in one packet, and is left to the proof. In `Channels`, two answers to one `OpenInit` need three ends of which one is a bridge's;
there are five. `channels`, `lending` and `vouchers` may stop: when every end is closed and
every token burned there is nothing left to do. The runs have between 729 (`pause_once`) and
449,280 (`receipts`) distinct states. Packet slots and voucher addresses are interchangeable, which the
safety runs use as a symmetry; `govern`, which checks liveness, does not.

*Fairness.* `RelayFairness`: for every unfinished packet some relayer eventually
delivers it, its timeout or its acknowledgement. The repository's README asks
users to relay their own packets; a transaction stays enabled until it is
relayed. Nothing is assumed of users, pausers or governance. `govern`
has no `Flaky` collection: a collection that refuses every transfer out of the
bridge also refuses the refund, as the README's errata says. `FairSpec` of `Channels` assumes a
relayer for the two steps that tell an end what its peer has done, `OpenConfirm` and
`CloseConfirm`; opening and closing themselves are nobody's duty.

### What the violations show

* `failed_redemption`. A voucher is sent back and the `TransferNft` of the
  redemption fails. The packet is acknowledged with an error and the voucher
  refunded, but the outgoing entry was removed before the submessage ran
  (`ibc_packet_receive.rs:78`) and is not restored. From then on the voucher is
  not recognised when it comes back: a voucher of the voucher is made and the
  original stays locked. The README says a failed transfer is "as if the transfer
  had never happened". `flaky` shows that no NFT is duplicated by this.
* `tester_ack_mode`. `ACK_MODE` and `LAST_ACK` have the same storage key, so an
  acknowledgement received by the tester changes the acknowledgements it gives.

## 5. Proofs

TLAPS checks the following for every network of chains and channels, every set of
users and tokens and any number of packets. The assumptions are those of the
modules, which TLC evaluates in every run: `AddrsAssumption` (the kinds of addresses
are told apart, and `None` is none of them), `NetworkAssumption` (a channel has two
ends, on different chains), `NativesAssumption`, `PacketAssumption` (an empty slot is
not a packet), `MaxHopsAssumption`, `PauseOnceAssumption`, `ChannelsAssumption`; and,
for `PacketReceive`, `ReceiveAssumption` (what counterparties offer are packets, of
any length, or garbage; native collections, voucher contracts, users and the bridge are
told apart) and `NoneAssumption` (`None` is not a value of the types the code makes
optional, an error not an address). What is assumed of counterparties is in the guard
of `CounterpartySends`: `CarefulOffer`, for members of `Careful`, any set of channels, the
empty one included. Of the others nothing is assumed.

| Theorem | Statement | Collections |
|---|---|---|
| `Ics721Proofs!TypeCorrect` | `Spec => []TypeOK` | any |
| `Ics721Proofs!RegistryCorrect`, `ShapeCorrect` | `Spec => []RegistryInverse`, `[]RegistryShape` | any |
| `Ics721Proofs!PauseCorrect` | `Spec => PausedOnlySettles` | any |
| `Ics721RefinementProofs!OneClaimCorrect` | `Spec => []OneClaim` | any |
| `Ics721RefinementProofs!RefinementCorrect` | `Spec => ImplementsNftTransfer` | any |
| `EscrowProofs!MetadataCorrect` | `Spec => []MetadataTracksVouchers` | any |
| `EscrowProofs!EscrowShapeCorrect` | `Spec => []EscrowShape` | `Flaky = {}` |
| `EscrowProofs!BackedCorrect` | `Spec => []VouchersBacked` | `Flaky = {}` |
| `EscrowProofs!ReplicaCorrect` | `Spec => []VoucherIsReplica` | `Flaky = {}` |
| `EscrowProofs!AcksCorrect` | `Spec => []AcksProcessable` | `Flaky = {}` |
| `EscrowProofs!AccountedCorrect` | `Spec => EscrowAccounted` | `Flaky = {}` |
| `PauseOnceProofs!PauseOnceCorrect`, `PauseInvCorrect` | `Spec => []PausesEarned`, `[]PauseInv` | |
| `ChannelsProofs!TypeCorrect`, `HandshakeCorrect`, `ClosingCorrect` | `Spec => []TypeOK`, `[]OpenSpeaksIcs721`, `[]BridgesStayConnected` | |
| `LendingProofs!ReceiveTypeCorrect` | `Spec => []TypeOK`, of `PacketReceive` | |
| `LendingProofs!ReceiptsCorrect` | `Spec => ReceiptMeetsReference` | |
| `LendingProofs!RefusalsCorrect` | `Spec => RefusedForCause` | |
| `LendingProofs!LendingShapeCorrect` | `Spec => []LendingShape` | |
| `LendingProofs!LentCorrect`, `AnswersCorrect` | `Spec => []LentBacked`, `[]AnswersProcessable` | |
| `LendingProofs!QueriesCorrect`, `SentPacketsCorrect` | `Spec => []QueriesAnswer`, `[]SentPacketsValid` | |
| `PacketDataProofs!ValidPacketsLoseNothing` | in a packet that passes `validate`, of any length, the two zips keep every token and give it the URI and the data of its own position | |

**The registry.** All theorems about `Ics721` rest on the inductive invariant
`RegistryInv` = `TypeOK`, `RegistryInverse` and `RegistryShape`. The last part is
needed because `receive_nft` makes up a class ID from an address: it must not be one
that is already taken, which holds because a class without prefixes always belongs
to the collection it is named after, and because the contracts that are not yet
registered and have tokens are native collections. There is one lemma per action
(`ReceiveNftStep`, `RedeemVoucherStep`, `CreateVoucherStep`, `PacketFailStep`,
`AckSuccessStep`, `OwnStep`, `GovernStep`), built on lemmas about the maps, the
class IDs (`PrefixRoundTrip`: the prefix given on arrival comes off on return),
the ledgers and the registry. `PauseCorrect` goes through the same cases:
everything a bridge does to a token in escrow happens either on a chain that is
not paused or in `handle_packet_fail` or `AckSuccess`.

**One claim, and the refinement.** `OneClaim` is inductive together with
`RegistryInv` (as `SingleClaim`, which avoids cardinalities). A step of a bridge
either leaves every holding and carrier of every NFT where it is, or moves one of
them; `OneMove` and the lemmas `TransitEnds`, `HeldToTransit`, `HeldToHeld` turn that
into a step of `NftTransfer`, and there is one lemma per action that says which:
`SendIsDepart`, `RedeemIsArrive`, `CreateIsArrive`, `FailIsReturn`, `OwnIsGiveOrBurn`,
and stuttering for the others. What makes a redemption an arrival of the *same* NFT
is that the way back along a class ID ends at the same chain whether the prefix is
on or off (`HomeReturning`, `HomePrefixed`). The way back is a recursive function of
the path; that it exists and has one value is proved by looking at a shortest path
for which it fails (`LeastNat`). No assumption on the collections is needed: a failed
redemption loses the escrow, never the claim.

**The escrow.** `TokenInv` is `EscrowShape` with `RegistryInv` and
`MetadataTracksVouchers`, rephrased token by token. `VouchersBacked` alone is not
inductive. It has to be known that no packet of the bridge that a voucher came from
will take the token away (`Backed`), that no two packets will take the same
token (`SettledOnce`, a packet that will burn a voucher counted among them), that a
packet on its way has its outgoing entry, under its channel, and the token's URI
(`SentOut`), and that a class of vouchers is named after the end it came through
(`VoucherNames`). Each handler touches one token, or, when a packet is received, one
token at each end; lemmas such as `ClassPoint`, `SentOutPoint`, `EntriesPoint` and
`PacketsPoint` reduce it to an update of the predicates at that point, `FrameStep`
takes care of every other token, and `OneToken` of the handlers that touch one. What
remains per action is the argument about the code: a voucher that comes back is
recognised and its redemption succeeds (`ReturningBacked`), an acknowledgement takes
a token for a returned voucher exactly when it is one (`ReturnedFacts`), and a token
that arrives, and is not recognised, is of a class that has not gone through this end
before (`CreateKeeps`), or meets the old voucher and is refused (`CreateClashKeeps`).
`EscrowAccounted` speaks of two states. For it the invariant has a parameter, a set `K` of
tokens that need not be accounted for, and a step keeps `TokenInv(K)` if every token that it
may hand to the bridge itself is in `K` (`EscrowStep`). With `K` all tokens but one that is
accounted for, and not handed over, this gives `EscrowAccounted`; with `K` all tokens it gives
`EscrowShape` and what follows from it.

The five theorems that assume `Flaky = {}` are false without it, and TLC finds
the counterexamples on the instance of `flaky`: `failed_redemption` is that of
`VouchersBacked`; for `VoucherIsReplica`, the token a voucher stands for is gone. `MetadataTracksVouchers` does survive, and is proved again for any
collections from an invariant of its own, `EntriesInv`.

**Pausing.** `PausesEarned` becomes inductive as `PauseInv`, which counts the pause a
pauser in office has in hand.

**Channels.** The theorems rest on `ChannelsInv`: besides `TypeOK`, every end of a
bridge that has begun a handshake has the right order and version (`BridgesValid`),
and an end that has answered has the order of its peer, while one that has opened is
known to its peer, which has agreed on the version too (`PeersAgree`). The second
part says what an end that opens at `OpenConfirm`, without being told a version, can
rely on: the check its peer passed at `OpenAck`.

**Packets of many tokens.** The code goes over the tokens of a packet in six loops: the
`try_fold` of `receive_ibc_packet`, the aggregation, the `Conjunction`, and those of the
callbacks that transfer, save metadata and mint. In the model each is a `FoldLeft`.
`PacketReceiveProofs` puts what the six do with one item into one operator, `Step`, and
shows once that the intermediate results exist and determine the fold (`IterExists`,
`LoopOfIter`; induction is a search for the least position that fails, `UpTo`). What a loop
has done after `i` items is then stated without a loop and shown to be kept by one
more: `SelectedIs` (the entries removed and added, the actions in order), `AggregateIs`
(the redemption lists the positions of `RedeemedAt`, the creation those of `CreatedAt`),
`RedemptionIs`, `SaveMetadataIs`, `MintingIs`. Together they give `OutcomeLaw`: either
the submessage fails, and the packet returns a token that is not the bridge's or mints
a voucher twice, or `world` becomes what `Received` says.

`LendingProofs` shows whose tokens those can be. The inductive invariant is
`ReceiveInv` = `TypeOK`, `WorldShape` (the class and contract maps are inverse, a contract
has the name of its class, vouchers have metadata) and `LendingShape`. An outgoing entry of a
token that is not exposed names a careful channel (`OutgoingKnown`). A packet that redeems
such a token therefore comes from a careful counterparty, which was lent it when the
packet was sent and still is when it comes in (`CarefulArrivals`; `RedeemedLent`). A lent
token is held by the bridge, and no answer that is still to come will take it
(`LentHeld`), because no two packets settle the same token (`SettledOnce`) and a success
that is not a return turns the packet's claim into the counterparty's (`AnsweredStep`).
The entry of a careful counterparty survives its own packets: a packet of tokens that
are not exposed is not refused for what it returns (`CarefulDelivered`), and one that is
refused exposes all it returns (`FailureExposes`). There is one lemma per action;
`AnswerStep` covers acknowledgements and timeouts. `ReceiptsCorrect` and `RefusalsCorrect`
follow from `OutcomeLaw` and `MapsAfter`.

**Only model-checked.** Liveness (`EveryTransferEnds`, `HandshakeEnds`, `CloseFollows`) and
`AlwaysSettleable`, which is stated with `ENABLED`; both are out of TLAPS's reach. Every other
property of a passing run is a theorem.

## 6. Not modelled

`cw-cii` (a pure conversion without state); the proxy contract (external); the
`Pauser`, `Paused` and `Proxy` queries, which return a variable; attributes and memos;
the error acknowledgement that the SDK itself writes when an event attribute is empty
(to the sender an error like any other); the gas a redemption may use up;
`cw721-virus` (a demonstration of a hostile collection: the properties here are about
collections that implement cw721); the end-to-end tests.

## 7. Plan

1. What still holds of escrow and answers with faulty collections, after a failed
   redemption: `flaky` extended by an invariant, and its proof.
2. The proofs of `PacketReceive` with the address of a voucher contract left open, as in
   `Ics721`.
