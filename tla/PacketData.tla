----------------------------- MODULE PacketData -----------------------------
(***************************************************************************)
(* What receive_ibc_packet makes of a packet of any number of tokens,      *)
(* before it touches an NFT: validation, the choice of an action for every *)
(* token, and the aggregation of the actions into one submessage           *)
(* (ibc_helpers.rs, ibc_packet_receive.rs, token_types.rs).                *)
(*                                                                         *)
(* Packet data is a record with the fields of NonFungibleTokenPacketData.  *)
(* Memo and sender are not looked at by the receiver.                      *)
(***************************************************************************)
EXTENDS Storage, ClassIds, ZipOptional

CONSTANT Empty          \* the empty string and the empty Binary

SeqExt == INSTANCE SequencesExt

\* The empty optionals get through (a mutation).
ValidateLengthsOnly(data) ==
    /\ data.class_id # LocalClass(Empty)
    /\ Len(data.token_ids) > 0
    /\ data.token_data # None => Len(data.token_data) = Len(data.token_ids)
    /\ data.token_uris # None => Len(data.token_uris) = Len(data.token_ids)

\* The lists need not have the same length (a mutation).
ValidateNoLengths(data) ==
    /\ data.class_id # LocalClass(Empty)
    /\ data.class_uri # Empty /\ data.class_data # Empty
    /\ Len(data.token_ids) > 0

\* NonFungibleTokenPacketData::validate returns Ok.
validate(data) ==
    /\ data.class_id # LocalClass(Empty)
    /\ data.class_uri # Empty /\ data.class_data # Empty
    /\ Len(data.token_ids) > 0
    /\ data.token_data # None => Len(data.token_data) = Len(data.token_ids)
    /\ data.token_uris # None => Len(data.token_uris) = Len(data.token_ids)

\* The items of the loop in receive_ibc_packet: <<<<id, uri>>, data>>.
Items(data) ==
    zip_optional(zip_optional(data.token_ids, data.token_uris), data.token_data)

\* The channel a token went out on is not compared (a mutation).
ReturningFromAnywhere(outgoing, class_id, token_id, src, channel) ==
    /\ HasPrefix(src, class_id)
    /\ Has(outgoing, <<Unprefixed(class_id), token_id>>)

\* returning_to_source of receive_ibc_packet.  src is the prefix of the
\* sending endpoint, channel the receiving one.
returning_to_source(outgoing, class_id, token_id, src, channel) ==
    LET key == <<Unprefixed(class_id), token_id>> IN
    /\ HasPrefix(src, class_id)
    /\ Has(outgoing, key) /\ outgoing[key] = channel

Redemption(class_id, token_id) ==
    [action |-> "Redemption", class_id |-> class_id, token_id |-> token_id]

Creation(class_id, token_id, uri, data) ==
    [action |-> "Creation", class_id |-> class_id,
     token |-> [id |-> token_id, uri |-> uri, data |-> data]]

\* A redeemed token keeps its entry (a mutation).
RedeemKeepingEntry(acc, class_id, token_id) ==
    [acc EXCEPT
       !.actions = Append(@, Redemption(Unprefixed(class_id), token_id))]

\* A token sent out on this channel comes back: it is taken off the map.
Redeem(acc, class_id, token_id) ==
    LET local == Unprefixed(class_id) IN
    [acc EXCEPT !.outgoing = Remove(@, <<local, token_id>>),
                !.actions = Append(@, Redemption(local, token_id))]

\* Any other token: it is put down as having come in on this channel.
Create(acc, class_id, dest, channel, token_id, uri, data) ==
    LET local == Prefixed(dest, class_id) IN
    [acc EXCEPT !.incoming = Save(@, <<local, token_id>>, channel),
                !.actions = Append(@, Creation(local, token_id, uri, data))]

\* The loop of receive_ibc_packet.  acc holds the two maps it writes to and
\* the actions so far; an item sees what the items before it have written.
select_actions(data, outgoing, incoming, src, dest, channel) ==
    SeqExt!FoldLeft(
      LAMBDA acc, item :
        LET id == item[1][1] IN
        IF returning_to_source(acc.outgoing, data.class_id, id, src, channel)
        THEN Redeem(acc, data.class_id, id)
        ELSE Create(acc, data.class_id, dest, channel, id, item[1][2], item[2]),
      [outgoing |-> outgoing, incoming |-> incoming, actions |-> << >>],
      Items(data))

Class(id, data) == [id |-> id, uri |-> data.class_uri, data |-> data.class_data]

\* ActionAggregator::add_action; the class is that of the first action.
AddRedemption(r, act, data) ==
    IF r = None THEN [class |-> Class(act.class_id, data),
                      token_ids |-> <<act.token_id>>]
    ELSE [r EXCEPT !.token_ids = Append(@, act.token_id)]

AddCreation(c, act, data) ==
    IF c = None THEN [class |-> Class(act.class_id, data), tokens |-> <<act.token>>]
    ELSE [c EXCEPT !.tokens = Append(@, act.token)]

add_action(agg, act, data) ==
    IF act.action = "Redemption"
    THEN [agg EXCEPT !.redemption = AddRedemption(@, act, data)]
    ELSE [agg EXCEPT !.creation = AddCreation(@, act, data)]

Aggregate(actions, data) ==
    SeqExt!FoldLeft(LAMBDA agg, act : add_action(agg, act, data),
                    [redemption |-> None, creation |-> None], actions)

RedeemVouchers(receiver, redeem) ==
    [callback |-> "RedeemVouchers", receiver |-> receiver, redeem |-> redeem]

CreateVouchers(receiver, create) ==
    [callback |-> "CreateVouchers", receiver |-> receiver, create |-> create]

\* Only the first of two messages is dispatched (a mutation).
FirstMessageOnly(agg, receiver) ==
    IF agg.redemption # None
    THEN <<RedeemVouchers(receiver, agg.redemption)>>
    ELSE <<CreateVouchers(receiver, agg.creation)>>

\* ActionAggregator::into_submessage: the operands of a Conjunction, which for
\* a single one is the message itself.
into_submessage(agg, receiver) ==
    (IF agg.redemption = None THEN << >>
     ELSE <<RedeemVouchers(receiver, agg.redemption)>>)
    \o
    (IF agg.creation = None THEN << >>
     ELSE <<CreateVouchers(receiver, agg.creation)>>)
=============================================================================
