------------------------------ MODULE Channels ------------------------------
(***************************************************************************)
(* Opening and closing the channels of bridges (ibc.rs, ibc_helpers.rs).   *)
(*                                                                         *)
(* The steps are those of core IBC (external), as ICS-4 describes them: a  *)
(* relayer takes each of them, and the contract that owns the channel end  *)
(* may refuse it.  A new end takes part in one handshake; several ends may *)
(* answer the same INIT, and the OpenAck then picks one of them.  Ends of  *)
(* bridges and of testers run the code of this repository; the others are  *)
(* those of any IBC application, with any version and order.               *)
(***************************************************************************)
CONSTANTS Bridges,          \* channel ends that belong to a bridge
          Testers,          \* ... to cw-ics721-bridge-tester
          Others,           \* ... to any other application
          Versions, None

Ends == Bridges \cup Testers \cup Others

\* IBC_VERSION
IBC_VERSION == "ics721-1"

ASSUME ChannelsAssumption ==
    /\ Bridges \cap (Testers \cup Others) = {} /\ Testers \cap Others = {}
    /\ IBC_VERSION \in Versions
    /\ None \notin Versions /\ None \notin Ends

Orders == {"ordered", "unordered"}

ChannelEnd ==
    [state : {"none", "init", "tryopen", "open", "closed"},
     order : Orders, version : Versions, peer : Ends \cup {None}]

VARIABLE chan               \* [Ends -> ChannelEnd]

(***************************************************************************)
(* The contracts' part.                                                    *)
(***************************************************************************)

\* The counterparty's version is not looked at (a mutation).
ValidateOwnVersionOnly(order, version, counterparty) ==
    order = "unordered" /\ version = IBC_VERSION

\* An absent counterparty version counts as a wrong one (a mutation).
ValidateRequiresVersion(order, version, counterparty) ==
    /\ order = "unordered"
    /\ version = IBC_VERSION
    /\ counterparty = IBC_VERSION

\* validate_order_and_version returns Ok; counterparty is None where the
\* counterparty's version is not known.
validate_order_and_version(order, version, counterparty) ==
    /\ order = "unordered"
    /\ version = IBC_VERSION
    /\ counterparty # None => counterparty = IBC_VERSION

\* ibc_channel_open returns Ok (OpenInit and OpenTry).
ibc_channel_open(e, order, version, counterparty) ==
    e \notin Others => validate_order_and_version(order, version, counterparty)

\* The absence of a version is taken for the version (a mutation).
RespondsWithNone(e, proposed) == IF e \in Others THEN Versions ELSE {None}

\* It returns Ok(None): the proposed version stands.
OpenResponse(e, proposed) == IF e \in Others THEN Versions ELSE {proposed}

\* ibc_channel_connect returns Ok (OpenAck and OpenConfirm).
ibc_channel_connect(e, order, version, counterparty) ==
    e \notin Others => validate_order_and_version(order, version, counterparty)

\* A bridge closes its channel when asked to (a mutation).
CloseWheneverAsked(e, msg) == TRUE

\* A bridge refuses whatever would close its channel (a mutation).
NeverClose(e, msg) == e \notin Bridges

\* ibc_channel_close returns Ok: a bridge refuses to close a channel, but
\* not to learn that it was closed.
ibc_channel_close(e, msg) == e \in Bridges => msg = "CloseConfirm"

(***************************************************************************)
(* The steps of core IBC.                                                  *)
(***************************************************************************)
ChanOpenInit(e, order, version) ==
    /\ chan[e].state = "none"
    /\ ibc_channel_open(e, order, version, None)
    /\ chan' = [chan EXCEPT ![e] = [state |-> "init", order |-> order,
                                    version |-> version, peer |-> None]]

ChanOpenTry(e, f) ==
    /\ e # f /\ chan[e].state = "none" /\ chan[f].state = "init"
    /\ ibc_channel_open(e, chan[f].order, chan[f].version, chan[f].version)
    /\ \E v \in OpenResponse(e, chan[f].version) :
         chan' = [chan EXCEPT ![e] = [state |-> "tryopen",
                                      order |-> chan[f].order,
                                      version |-> v, peer |-> f]]

ChanOpenAck(e, f) ==
    /\ chan[e].state = "init"
    /\ chan[f].state = "tryopen" /\ chan[f].peer = e
    /\ ibc_channel_connect(e, chan[e].order, chan[e].version, chan[f].version)
    /\ chan' = [chan EXCEPT ![e] = [@ EXCEPT !.state = "open", !.peer = f,
                                             !.version = chan[f].version]]

ChanOpenConfirm(e) ==
    /\ chan[e].state = "tryopen"
    /\ chan[chan[e].peer].state = "open" /\ chan[chan[e].peer].peer = e
    /\ ibc_channel_connect(e, chan[e].order, chan[e].version, None)
    /\ chan' = [chan EXCEPT ![e].state = "open"]

\* At the wish of the contract (execute_close_channel of the tester) or of
\* anyone else.
ChanCloseInit(e) ==
    /\ chan[e].state \notin {"none", "closed"}
    /\ ibc_channel_close(e, "CloseInit")
    /\ chan' = [chan EXCEPT ![e].state = "closed"]

ChanCloseConfirm(e) ==
    /\ chan[e].state \in {"tryopen", "open"}
    /\ chan[chan[e].peer].state = "closed" /\ chan[chan[e].peer].peer = e
    /\ ibc_channel_close(e, "CloseConfirm")
    /\ chan' = [chan EXCEPT ![e].state = "closed"]

Init ==
    \E v \in Versions :
      chan = [e \in Ends |-> [state |-> "none", order |-> "unordered",
                              version |-> v, peer |-> None]]

Next ==
    \E e \in Ends :
      \/ \E order \in Orders, v \in Versions : ChanOpenInit(e, order, v)
      \/ \E f \in Ends : ChanOpenTry(e, f) \/ ChanOpenAck(e, f)
      \/ ChanOpenConfirm(e) \/ ChanCloseInit(e) \/ ChanCloseConfirm(e)

Spec == Init /\ [][Next]_chan

\* A relayer finishes the steps that a counterparty has already taken.
FairSpec ==
    Spec /\ \A e \in Ends : WF_chan(ChanOpenConfirm(e) \/ ChanCloseConfirm(e))

(***************************************************************************)
(* Properties.                                                             *)
(***************************************************************************)

\* A channel end is always a well-formed IbcChannel.
TypeOK == chan \in [Ends -> ChannelEnd]

\* The end e has agreed with its peer on a channel.
Paired(e) ==
    LET f == chan[e].peer IN
    /\ f # None /\ chan[f].peer = e
    /\ chan[f].order = chan[e].order /\ chan[f].version = chan[e].version

\* "Make sure that we're talking with a counterparty who speaks the same
\* protocol as us" (validate_order_and_version): an open channel of a bridge
\* is unordered and leads to an end that has agreed, with this very end, on
\* ics721-1, although OpenInit and OpenConfirm do not tell the contract the
\* counterparty's version and several ends may answer one OpenInit.
OpenSpeaksIcs721 ==
    \A e \in Bridges : chan[e].state = "open" =>
      /\ chan[e].order = "unordered" /\ chan[e].version = IBC_VERSION
      /\ Paired(e)

\* "This contract will never close an IBC channel between itself and another
\* bridge" (README.md; ibc_channel_close).
BridgesStayConnected ==
    \A e \in Bridges : chan[e].state = "closed" => chan[e].peer \notin Bridges

\* "erroring here would prevent our side of the channel closing"
\* (ibc_channel_close): the end of a bridge follows a peer that has closed.
CloseFollows ==
    \A e \in Bridges :
      (chan[e].state = "open" /\ chan[chan[e].peer].state = "closed")
        ~> chan[e].state = "closed"

\* Once the other side of its handshake has opened, a bridge's end opens too,
\* or follows it in closing: OpenConfirm passes the checks of
\* ibc_channel_connect without the counterparty's version.
HandshakeEnds ==
    \A e \in Bridges :
      (/\ chan[e].state = "tryopen"
       /\ chan[chan[e].peer].state = "open" /\ chan[chan[e].peer].peer = e)
        ~> chan[e].state \in {"open", "closed"}
=============================================================================
