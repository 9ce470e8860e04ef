---------------------------- MODULE NftTransfer ----------------------------
(***************************************************************************)
(* What an ICS-721 bridge promises to the owner of an NFT: wherever the    *)
(* NFT goes, there is exactly one of it.  It is held by one account of one *)
(* chain, or on its way from one account to another, until someone burns   *)
(* it or sends it to an account that never acts.  Escrow, vouchers, class  *)
(* IDs and acknowledgements do not show.                                   *)
(***************************************************************************)
CONSTANTS Nfts, Users,
          Receivers,    \* what a sender may name as the receiver ...
          Vaults,       \* ... and the accounts among them that never act
          Links,        \* the pairs of chains that a channel connects
          HomeOf(_),    \* the chain an NFT was minted on ...
          FirstOwner(_) \* ... and who owns it first

VARIABLE whereabouts

Held(chain, owner) == [state |-> "held", chain |-> chain, owner |-> owner]

Transit(link, sender, receiver) ==
    [state |-> "transit", link |-> link, sender |-> sender,
     receiver |-> receiver]

Gone == [state |-> "gone"]

Move(n, place) == whereabouts' = [whereabouts EXCEPT ![n] = place]

Init == whereabouts = [n \in Nfts |-> Held(HomeOf(n), FirstOwner(n))]

Give(n) ==
    /\ whereabouts[n].state = "held"
    /\ \E v \in Users : Move(n, Held(whereabouts[n].chain, v))

Depart(n) ==
    /\ whereabouts[n].state = "held"
    /\ \E link \in Links, r \in Receivers :
         /\ link[1] = whereabouts[n].chain
         /\ Move(n, Transit(link, whereabouts[n].owner, r))

Arrive(n) ==
    /\ whereabouts[n].state = "transit"
    /\ whereabouts[n].receiver \in Users
    /\ Move(n, Held(whereabouts[n].link[2], whereabouts[n].receiver))

\* What is sent to a vault is out of everyone's hands.
Vanish(n) ==
    /\ whereabouts[n].state = "transit"
    /\ whereabouts[n].receiver \in Vaults
    /\ Move(n, Gone)

\* "as if the transfer had never happened"
Return(n) ==
    /\ whereabouts[n].state = "transit"
    /\ Move(n, Held(whereabouts[n].link[1], whereabouts[n].sender))

Burn(n) == whereabouts[n].state = "held" /\ Move(n, Gone)

Next ==
    \E n \in Nfts :
      Give(n) \/ Depart(n) \/ Arrive(n) \/ Vanish(n) \/ Return(n) \/ Burn(n)

Spec == Init /\ [][Next]_whereabouts
============================================================================
