---------------------------- MODULE BridgeTester ---------------------------
(***************************************************************************)
(* cw-ics721-bridge-tester, the counterparty the tests put at the other    *)
(* end of a channel: it answers every packet with the acknowledgement it   *)
(* was told to give, sends packets of its own and remembers how the last   *)
(* of them was acknowledged.                                               *)
(*                                                                         *)
(* The two storage items of state.rs are made with the same key, so both   *)
(* names below stand for one cell of the storage.                          *)
(***************************************************************************)
EXTENDS Storage, Naturals

CONSTANT MaxInFlight        \* bound on the tester's unfinished packets

AckMode == {"Error", "Success"}

\* Item::new(..) of state.rs
ACK_MODE == "ack_mode"
LAST_ACK == "ack_mode"

VARIABLES storage,          \* the contract's key-value store
          inFlight,         \* packets sent and neither acknowledged nor lost
          chosen            \* history: the mode that was asked for last

vars == <<storage, inFlight, chosen>>

instantiate(mode) ==
    /\ storage = Save(EmptyMap, ACK_MODE, mode)
    /\ inFlight = 0
    /\ chosen = mode

execute_set_ack_mode(mode) ==
    /\ storage' = Save(storage, ACK_MODE, mode)
    /\ chosen' = mode
    /\ UNCHANGED inFlight

execute_send_packet ==
    /\ inFlight < MaxInFlight
    /\ inFlight' = inFlight + 1
    /\ UNCHANGED <<storage, chosen>>

\* The counterparty's answer, whichever it is.
ibc_packet_ack(result) ==
    /\ inFlight > 0
    /\ inFlight' = inFlight - 1
    /\ storage' = Save(storage, LAST_ACK, result)
    /\ UNCHANGED chosen

ibc_packet_timeout ==
    /\ inFlight > 0
    /\ inFlight' = inFlight - 1
    /\ UNCHANGED <<storage, chosen>>

\* ibc_packet_receive writes this acknowledgement and changes no state.
ReceiveAck == storage[ACK_MODE]

Init == \E mode \in AckMode : instantiate(mode)

Next ==
    \/ \E mode \in AckMode : execute_set_ack_mode(mode)
    \/ execute_send_packet
    \/ \E result \in AckMode : ibc_packet_ack(result)
    \/ ibc_packet_timeout

Spec == Init /\ [][Next]_vars

\* "Gets the current ack mode" (msg.rs): the tester answers packets, and the
\* AckMode query, with the mode last set by instantiate or SetAckMode.
AnswersAsChosen == ReceiveAck = chosen
============================================================================
