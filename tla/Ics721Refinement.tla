-------------------------- MODULE Ics721Refinement -------------------------
(***************************************************************************)
(* The network of bridges implements NftTransfer: seen from outside, an    *)
(* NFT and the vouchers for it, on whatever chains, are one NFT.           *)
(***************************************************************************)
EXTENDS Ics721, FiniteSets

\* Every prefix of a class ID is the end of the channel that the token came in
\* through: it leads back from one chain to another ...
Hop(chain, prefix) == Peer[[chain |-> chain, channel |-> prefix[2]]].chain

\* ... and the prefixes, read on chain c, back along the route it has taken.
Route(c, path) ==
    LET route[i \in 0 .. Len(path)] ==
          IF i = 0 THEN c ELSE Hop(route[i - 1], path[i])
    IN route

Home(c, class) == Route(c, class.path)[Len(class.path)]

StandsFor(c, class, t, n) ==
    n = <<Home(c, class), class.base, t>>

\* The tokens, native or vouchers, that stand for n and that a user owns.
Holdings(n) ==
    {ck \in Chains \X Contracts :
       /\ Exists(ck[1], ck[2], n[3])
       /\ ledger[ck[1]][<<ck[2], n[3]>>].owner \in Users
       /\ StandsFor(ck[1], ClassOfContract(ck[1], ck[2]), n[3], n)}

\* The packets that carry it between two owners.
Carriers(n) ==
    {s \in Slots :
       /\ InTransit(s)
       /\ StandsFor(packets[s].src.chain, packets[s].class,
                    packets[s].token, n)}

\* An NFT is never in two hands: over all chains, it has at most one owner,
\* counting the vouchers for it and the packets on their way.  It takes every
\* handler of the bridge to keep it so, and every order of delivery to lose it.
OneClaim ==
    \A n \in DOMAIN NativeNfts :
      Cardinality(Holdings(n)) + Cardinality(Carriers(n)) <= 1

Links == {<<e.chain, Peer[e].chain>> : e \in Endpoints}

HomeOf(n) == n[1]
FirstOwner(n) == NativeNfts[n].owner

Whereabouts(n) ==
    IF Holdings(n) # {}
    THEN LET h == CHOOSE x \in Holdings(n) : TRUE IN
         [state |-> "held", chain |-> h[1],
          owner |-> ledger[h[1]][<<h[2], n[3]>>].owner]
    ELSE IF Carriers(n) # {}
    THEN LET p == packets[CHOOSE x \in Carriers(n) : TRUE] IN
         [state |-> "transit", link |-> <<p.src.chain, Dest(p).chain>>,
          sender |-> p.sender, receiver |-> p.receiver]
    ELSE [state |-> "gone"]

Abstract ==
    INSTANCE NftTransfer WITH
      Nfts <- DOMAIN NativeNfts,
      Receivers <- Users \cup {Bridge, BadAddr},
      Vaults <- {Bridge},
      whereabouts <- [n \in DOMAIN NativeNfts |-> Whereabouts(n)]

\* Every step of the bridges moves an NFT the way NftTransfer allows, or not
\* at all: it arrives with the receiver or returns to the sender, is never in
\* two places, and is gone only when its holder burns it or has sent it to a
\* bridge itself.
ImplementsNftTransfer == Abstract!Spec
============================================================================
