--------------------------- MODULE ChannelsProofs ---------------------------
(***************************************************************************)
(* What the handshake of a bridge guarantees, for any number of channel    *)
(* ends, of bridges and of other applications, and any set of versions.    *)
(***************************************************************************)
EXTENDS Channels, TLAPS

\* What validate_order_and_version has checked stays true of the channel ends
\* of bridges: OpenAck replaces the version by one that it has checked.
BridgesValid ==
    \A e \in Bridges : chan[e].state # "none" =>
      chan[e].order = "unordered" /\ chan[e].version = IBC_VERSION

\* An end that has answered or opened knows its peer; the two have the same
\* order; and an end that has opened is known to its peer, which has agreed
\* on the version.  The last is not true of an end that has only answered:
\* the INIT it answered may be given to another end by OpenAck.
PeersAgree ==
    \A e \in Ends :
      LET f == chan[e].peer IN
      /\ chan[e].state \in {"tryopen", "open"} =>
           /\ f \in Ends /\ f # e
           /\ chan[f].state # "none" /\ chan[f].order = chan[e].order
      /\ chan[e].state = "open" =>
           /\ chan[f].peer = e /\ chan[f].version = chan[e].version
           /\ chan[f].state \in {"tryopen", "open", "closed"}
      /\ chan[e].state \in {"none", "init"} => f = None

ChannelsInv == TypeOK /\ BridgesValid /\ PeersAgree

LEMMA InitInv == Init => ChannelsInv
  BY ChannelsAssumption
     DEF Init, ChannelsInv, TypeOK, BridgesValid, PeersAgree, ChannelEnd,
         Orders, Ends

\* Every step changes one end.  The lemmas below say so of each step, and what
\* the end becomes; the invariant follows from that.
LEMMA OpenInitStep ==
  ASSUME NEW e \in Ends, NEW order \in Orders, NEW v \in Versions,
         ChannelsInv, ChanOpenInit(e, order, v)
  PROVE  ChannelsInv'
  <1> DEFINE new == [state |-> "init", order |-> order, version |-> v,
                     peer |-> None]
  <1>1. chan' = [chan EXCEPT ![e] = new] /\ chan[e].state = "none"
    BY DEF ChanOpenInit
  <1>2. TypeOK'
    BY <1>1 DEF ChannelsInv, TypeOK, ChannelEnd
  <1>3. BridgesValid'
    <2>1. e \in Bridges => order = "unordered" /\ v = IBC_VERSION
      BY ChannelsAssumption
         DEF ChanOpenInit, ibc_channel_open, validate_order_and_version, Ends
    <2> QED BY <1>1, <2>1 DEF ChannelsInv, TypeOK, BridgesValid, Ends
  <1>4. PeersAgree'
    BY <1>1, ChannelsAssumption DEF ChannelsInv, TypeOK, PeersAgree, ChannelEnd
  <1> QED BY <1>2, <1>3, <1>4 DEF ChannelsInv

LEMMA OpenTryStep ==
  ASSUME NEW e \in Ends, NEW f \in Ends, ChannelsInv, ChanOpenTry(e, f)
  PROVE  ChannelsInv'
  <1>1. PICK v \in OpenResponse(e, chan[f].version) :
          chan' = [chan EXCEPT ![e] = [state |-> "tryopen",
                                       order |-> chan[f].order,
                                       version |-> v, peer |-> f]]
    BY DEF ChanOpenTry
  <1>2. e # f /\ chan[e].state = "none" /\ chan[f].state = "init"
    BY DEF ChanOpenTry
  <1>3. v \in Versions
    BY <1>1 DEF OpenResponse, ChannelsInv, TypeOK, ChannelEnd
  <1>4. TypeOK'
    BY <1>1, <1>3 DEF ChannelsInv, TypeOK, ChannelEnd
  <1>5. BridgesValid'
    <2>1. e \in Bridges => chan[f].order = "unordered" /\ v = IBC_VERSION
      BY <1>1, ChannelsAssumption
         DEF ChanOpenTry, ibc_channel_open, validate_order_and_version,
             OpenResponse, Ends
    <2> QED BY <1>1, <2>1 DEF ChannelsInv, TypeOK, BridgesValid, Ends
  <1>6. PeersAgree'
    BY <1>1, <1>2, ChannelsAssumption
       DEF ChannelsInv, TypeOK, PeersAgree, ChannelEnd
  <1> QED BY <1>4, <1>5, <1>6 DEF ChannelsInv

LEMMA OpenAckStep ==
  ASSUME NEW e \in Ends, NEW f \in Ends, ChannelsInv, ChanOpenAck(e, f)
  PROVE  ChannelsInv'
  <1> DEFINE new == [chan[e] EXCEPT !.state = "open", !.peer = f,
                                    !.version = chan[f].version]
  <1>1. /\ chan' = [chan EXCEPT ![e] = new]
        /\ chan[e].state = "init"
        /\ chan[f].state = "tryopen" /\ chan[f].peer = e
    BY DEF ChanOpenAck
  <1>2. /\ chan[e] \in ChannelEnd /\ chan[f] \in ChannelEnd
        /\ new.state = "open" /\ new.order = chan[e].order
        /\ new.version = chan[f].version /\ new.peer = f
        /\ new \in ChannelEnd
    BY DEF ChannelsInv, TypeOK, ChannelEnd
  <1>3. e # f /\ chan[f].order = chan[e].order
    BY <1>1 DEF ChannelsInv, PeersAgree
  <1> HIDE DEF new
  <1>4. TypeOK'
    BY <1>1, <1>2 DEF ChannelsInv, TypeOK
  <1>5. BridgesValid'
    <2>1. e \in Bridges => chan[e].order = "unordered"
                            /\ chan[f].version = IBC_VERSION
      <3>1. chan[f].version # None
        BY <1>2, ChannelsAssumption DEF ChannelEnd
      <3> QED BY <3>1, ChannelsAssumption
              DEF ChanOpenAck, ibc_channel_connect,
                  validate_order_and_version, Ends
    <2> QED BY <1>1, <1>2, <2>1 DEF ChannelsInv, TypeOK, BridgesValid, Ends
  <1>6. PeersAgree'
    BY <1>1, <1>2, <1>3, ChannelsAssumption
       DEF ChannelsInv, TypeOK, PeersAgree
  <1> QED BY <1>4, <1>5, <1>6 DEF ChannelsInv

\* OpenConfirm, CloseInit and CloseConfirm change nothing but the state of an
\* end, to open or to closed.
LEMMA StateStep ==
  ASSUME NEW e \in Ends, NEW st \in {"open", "closed"}, ChannelsInv,
         chan[e].state # "none",
         st = "open" =>
           /\ chan[e].state = "tryopen" /\ chan[chan[e].peer].state = "open"
           /\ chan[chan[e].peer].peer = e,
         chan' = [chan EXCEPT ![e].state = st]
  PROVE  ChannelsInv'
  <1> DEFINE new == [chan[e] EXCEPT !.state = st]
  <1>1. chan' = [chan EXCEPT ![e] = new]
    BY DEF ChannelsInv, TypeOK
  <1>2. /\ chan[e] \in ChannelEnd
        /\ new.state = st /\ new.order = chan[e].order
        /\ new.version = chan[e].version /\ new.peer = chan[e].peer
        /\ new \in ChannelEnd
    BY DEF ChannelsInv, TypeOK, ChannelEnd
  <1> HIDE DEF new
  <1>3. TypeOK'
    BY <1>1, <1>2 DEF ChannelsInv, TypeOK
  <1>4. BridgesValid'
    BY <1>1, <1>2 DEF ChannelsInv, TypeOK, BridgesValid, Ends
  <1>5. PeersAgree'
    BY <1>1, <1>2, ChannelsAssumption DEF ChannelsInv, TypeOK, PeersAgree
  <1> QED BY <1>3, <1>4, <1>5 DEF ChannelsInv

LEMMA StepInv == ChannelsInv /\ [Next]_chan => ChannelsInv'
  <1> SUFFICES ASSUME ChannelsInv, [Next]_chan PROVE ChannelsInv'
    OBVIOUS
  <1>1. CASE UNCHANGED chan
    BY <1>1 DEF ChannelsInv, TypeOK, BridgesValid, PeersAgree
  <1>2. CASE \E e \in Ends, order \in Orders, v \in Versions :
               ChanOpenInit(e, order, v)
    BY <1>2, OpenInitStep
  <1>3. CASE \E e \in Ends, f \in Ends : ChanOpenTry(e, f)
    BY <1>3, OpenTryStep
  <1>4. CASE \E e \in Ends, f \in Ends : ChanOpenAck(e, f)
    BY <1>4, OpenAckStep
  <1>5. CASE \E e \in Ends : ChanOpenConfirm(e)
    BY <1>5, StateStep DEF ChanOpenConfirm
  <1>6. CASE \E e \in Ends : ChanCloseInit(e)
    BY <1>6, StateStep DEF ChanCloseInit
  <1>7. CASE \E e \in Ends : ChanCloseConfirm(e)
    BY <1>7, StateStep DEF ChanCloseConfirm
  <1> QED BY <1>1, <1>2, <1>3, <1>4, <1>5, <1>6, <1>7 DEF Next

\* Every end of a channel is a well-formed IbcChannel at every point of every
\* handshake, whoever is at the other end.
THEOREM TypeCorrect == Spec => []TypeOK
  <1>1. ChannelsInv => TypeOK
    BY DEF ChannelsInv
  <1> QED BY <1>1, InitInv, StepInv, PTL DEF Spec

\* An open channel of a bridge is unordered and leads to an end that has
\* agreed with it on ics721-1, however many ends answered its OpenInit
\* (validate_order_and_version in ibc_channel_open and ibc_channel_connect).
THEOREM HandshakeCorrect == Spec => []OpenSpeaksIcs721
  <1>1. ChannelsInv => OpenSpeaksIcs721
    BY ChannelsAssumption
       DEF ChannelsInv, TypeOK, BridgesValid, PeersAgree, OpenSpeaksIcs721,
           Paired, Ends
  <1> QED BY <1>1, InitInv, StepInv, PTL DEF Spec

\* A channel between two bridges is never closed (ibc_channel_close): the
\* first of the two ends to close would have to follow the other.
THEOREM ClosingCorrect == Spec => []BridgesStayConnected
  <1>1. Init => BridgesStayConnected
    BY DEF Init, BridgesStayConnected, Ends
  <1>2. ChannelsInv /\ BridgesStayConnected /\ [Next]_chan
          => BridgesStayConnected'
    <2> SUFFICES ASSUME ChannelsInv, BridgesStayConnected, [Next]_chan,
                        NEW e \in Bridges, (chan[e].state = "closed")'
                 PROVE  (chan[e].peer \notin Bridges)'
      BY DEF BridgesStayConnected
    <2>0. e \in Ends /\ Bridges \subseteq Ends
      BY DEF Ends
    <2>1. CASE chan[e].state = "closed"
      <3>1. chan'[e].peer = chan[e].peer
        BY <2>0, <2>1
           DEF Next, ChanOpenInit, ChanOpenTry, ChanOpenAck, ChanOpenConfirm,
               ChanCloseInit, ChanCloseConfirm, ChannelsInv, TypeOK, ChannelEnd
      <3> QED BY <2>1, <3>1 DEF BridgesStayConnected
    <2>2. CASE chan[e].state # "closed"
      <3>1. PICK x \in Ends : chan' # chan /\
              \/ \E order \in Orders, v \in Versions :
                   ChanOpenInit(x, order, v)
              \/ \E f \in Ends : ChanOpenTry(x, f) \/ ChanOpenAck(x, f)
              \/ ChanOpenConfirm(x) \/ ChanCloseInit(x) \/ ChanCloseConfirm(x)
        BY <2>0, <2>2 DEF Next
      <3>2. x = e
        BY <2>0, <2>2, <3>1
           DEF ChanOpenInit, ChanOpenTry, ChanOpenAck, ChanOpenConfirm,
               ChanCloseInit, ChanCloseConfirm, ChannelsInv, TypeOK
      <3>3. chan \in [Ends -> ChannelEnd]
        BY DEF ChannelsInv, TypeOK
      <3>4. ChanCloseConfirm(e)
        <4>1. ASSUME NEW order, NEW v PROVE ~ChanOpenInit(e, order, v)
          BY <2>0, <3>3 DEF ChanOpenInit
        <4>2. ASSUME NEW f PROVE ~ChanOpenTry(e, f)
          BY <2>0, <3>3 DEF ChanOpenTry
        <4>3. ASSUME NEW f PROVE ~ChanOpenAck(e, f)
          BY <2>0, <3>3 DEF ChanOpenAck, ChannelEnd
        <4>4. ~ChanOpenConfirm(e)
          BY <2>0, <3>3 DEF ChanOpenConfirm, ChannelEnd
        <4>5. ~ChanCloseInit(e)
          BY DEF ChanCloseInit, ibc_channel_close
        <4> QED BY <3>1, <3>2, <4>1, <4>2, <4>3, <4>4, <4>5
      <3>5. chan'[e].peer = chan[e].peer
        BY <2>0, <3>3, <3>4 DEF ChanCloseConfirm, ChannelEnd
      <3>6. chan[chan[e].peer].state = "closed" /\ chan[chan[e].peer].peer = e
        BY <3>4 DEF ChanCloseConfirm
      <3> QED BY <3>5, <3>6 DEF BridgesStayConnected
    <2> QED BY <2>1, <2>2
  <1> QED BY <1>1, <1>2, InitInv, StepInv, PTL DEF Spec
=============================================================================
