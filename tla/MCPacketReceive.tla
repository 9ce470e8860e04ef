-------------------------- MODULE MCPacketReceive ---------------------------
(***************************************************************************)
(* A small bridge for TLC.  Its own channels and those of its              *)
(* counterparties all have the same names and ports.                       *)
(***************************************************************************)
EXTENDS PacketReceive, TLC

CONSTANTS port, ch0, ch1, punks, t1, t2, alice,
          u1, u2,                     \* URIs, and data
          s1, s2, a1, a2, gov

\* The other end of every channel is called ch0.
AllCh0 == [ch \in Channels |-> <<port, ch0>>]

OneNative == <<punks, t1>> :> [owner |-> alice, uri |-> u1]

NoNative == EmptyMap

Packet(class, ids, uris, data, classUri, classData, receiver) ==
    [class_id |-> class, class_uri |-> classUri, class_data |-> classData,
     token_ids |-> ids, token_uris |-> uris, token_data |-> data,
     receiver |-> receiver]

Plain(class, ids, receiver) == Packet(class, ids, None, None, None, None, receiver)

Native == LocalClass(punks)

\* A token from here coming back, and one that merely looks like it.
Back == Prefixed(<<port, ch0>>, Native)

\* A voucher of this bridge coming back, and one that looks like it.
BackAgain == Prefixed(<<port, ch0>>, Back)

\* A token that is lent, repeated, after one that is made up; foreign tokens;
\* and a token for the bridge itself.
WellFormed ==
    {Plain(Back, <<t2, t1, t1>>, alice),
     Packet(Native, <<t1, t2>>, <<u1, u2>>, <<u2, Empty>>, u1, u2, alice),
     Plain(Back, <<t1>>, Bridge)}

\* Fewer URIs than tokens, more data than tokens, and the like.
Malformed ==
    {Plain(LocalClass(Empty), <<t1>>, alice),
     Plain(Native, << >>, alice),
     Packet(Native, <<t1>>, None, None, Empty, None, alice),
     Packet(Native, <<t1>>, None, None, None, Empty, alice),
     Packet(Native, <<t1, t2>>, <<u1>>, None, None, None, alice),
     Packet(Native, <<t1>>, None, <<u1, u2>>, None, None, alice),
     Plain(Back, <<t1>>, BadAddr),
     Garbage}

AnyPacket == WellFormed \cup Malformed

\* The token of OneNative coming back, or claimed by who does not have it.
Returned == {Plain(Back, <<t1>>, r) : r \in {alice, Bridge}}

\* A token from elsewhere, and the voucher for it coming back.
Foreign == {Plain(class, <<t1>>, alice) : class \in {Native, BackAgain}}

Symmetry == Permutations(Slots) \cup Permutations(Arrivals)
=============================================================================
