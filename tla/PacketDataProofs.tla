-------------------------- MODULE PacketDataProofs --------------------------
(***************************************************************************)
(* zip_optional ends with the shorter of its lists and says nothing of the *)
(* rest.  Proved here, for lists of any length: after validate there is    *)
(* nothing to lose.                                                        *)
(***************************************************************************)
EXTENDS PacketData, TLAPS

\* zip_optional of an absent list, or of one of the same length, has every item
\* of the first list and pairs it with the item at its own position.
LEMMA ZipAligned ==
    \A a, b : Len(a) \in Nat /\ (b = None \/ Len(b) = Len(a)) =>
      /\ Len(zip_optional(a, b)) = Len(a)
      /\ \A i \in 1 .. Len(a) : zip_optional(a, b)[i] = <<a[i], At(b, i)>>
<1> SUFFICES ASSUME NEW a, NEW b, Len(a) \in Nat, b = None \/ Len(b) = Len(a)
             PROVE  /\ Len(zip_optional(a, b)) = Len(a)
                    /\ \A i \in 1 .. Len(a) :
                         zip_optional(a, b)[i] = <<a[i], At(b, i)>>
  OBVIOUS
<1>1. CASE b = None
  BY <1>1 DEF zip_optional, At
<1>2. CASE b # None
  <2>1. Shorter(Len(a), Len(b)) = Len(a)
    BY <1>2 DEF Shorter
  <2> QED BY <1>2, <2>1 DEF zip_optional, At
<1> QED BY <1>1, <1>2

\* The loop of receive_ibc_packet over a packet that passes validate meets
\* every token of the packet, in order, with the URI and the data that the
\* packet has at the same position: none is dropped by the two zips, and none
\* is given the metadata of another.
THEOREM ValidPacketsLoseNothing ==
    ASSUME NEW S, NEW data, data.token_ids \in Seq(S), validate(data)
    PROVE  /\ Len(Items(data)) = Len(data.token_ids)
           /\ \A i \in 1 .. Len(data.token_ids) :
                Items(data)[i] = <<<<data.token_ids[i], At(data.token_uris, i)>>,
                                   At(data.token_data, i)>>
<1> DEFINE ids == data.token_ids
           uris == data.token_uris
           tdata == data.token_data
           named == zip_optional(ids, uris)
<1>1. /\ Len(ids) \in Nat
      /\ uris = None \/ Len(uris) = Len(ids)
      /\ tdata = None \/ Len(tdata) = Len(ids)
  BY DEF validate
<1>2. Items(data) = zip_optional(named, tdata)
  BY DEF Items
<1> HIDE DEF ids, uris, tdata
<1>3. /\ Len(named) = Len(ids)
      /\ \A i \in 1 .. Len(ids) : named[i] = <<ids[i], At(uris, i)>>
  BY <1>1, ZipAligned
<1> HIDE DEF named
<1>4. /\ Len(zip_optional(named, tdata)) = Len(named)
      /\ \A i \in 1 .. Len(named) :
           zip_optional(named, tdata)[i] = <<named[i], At(tdata, i)>>
  BY <1>1, <1>3, ZipAligned
<1>5. /\ Len(Items(data)) = Len(ids)
      /\ \A i \in 1 .. Len(ids) :
           Items(data)[i] = <<<<ids[i], At(uris, i)>>, At(tdata, i)>>
  BY <1>2, <1>3, <1>4
<1> QED BY <1>5 DEF ids, uris, tdata
=============================================================================
