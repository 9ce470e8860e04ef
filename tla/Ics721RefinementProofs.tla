------------------------ MODULE Ics721RefinementProofs -----------------------
(***************************************************************************)
(* For every network of bridges, whatever its collections do: an NFT is in *)
(* one hand at a time, and the bridges implement NftTransfer.              *)
(***************************************************************************)
EXTENDS Ics721Refinement, Ics721Proofs, FiniteSetTheorems, WellFoundedInduction

(***************************************************************************)
(* The way back.  A class ID leads to one chain, and giving a token a      *)
(* prefix, or taking one off, does not change where that is.               *)
(***************************************************************************)

\* g goes back along the first n prefixes of a path.
IsWalk(g, c, path, n) ==
    /\ g = [i \in 0 .. n |-> g[i]]
    /\ g[0] = c
    /\ \A i \in 1 .. n : g[i] = Hop(g[i - 1], path[i])

\* A set of numbers that is not empty has a least one: induction, for provers that
\* cannot be given a predicate.
LEMMA LeastNat ==
    ASSUME NEW T \in SUBSET Nat, T # {}
    PROVE  \E x \in T : \A y \in T : x <= y
<1>1. \E x \in T : \A y \in T : <<y, x>> \notin OpToRel(<, Nat)
  BY NatLessThanWellFounded, WFMin, Zenon
<1>2. PICK x \in T : \A y \in T : <<y, x>> \notin OpToRel(<, Nat)
  BY <1>1, Zenon
<1>3. \A y \in T : ~(y < x)
  BY <1>2, Zenon DEF OpToRel
<1> QED BY <1>3

\* There is one for every path: a shortest path without one would have a walk up
\* to its last prefix, which can be continued.
LEMMA WalkExists ==
    ASSUME NEW c, NEW path, NEW n \in Nat
    PROVE  \E g : IsWalk(g, c, path, n)
<1> DEFINE T == {m \in Nat : ~\E g : IsWalk(g, c, path, m)}
<1> SUFFICES ASSUME T # {} PROVE FALSE
  OBVIOUS
<1>1. PICK m \in T : \A y \in T : m <= y
  BY LeastNat
<1>2. m # 0
  <2>1. IsWalk([i \in 0 .. 0 |-> c], c, path, 0)
    BY DEF IsWalk
  <2> QED BY <2>1
<1>3. m - 1 \in Nat /\ m - 1 \notin T
  BY <1>1, <1>2
<1>4. PICK g : IsWalk(g, c, path, m - 1)
  BY <1>3
<1> DEFINE h == [i \in 0 .. m |-> IF i = m THEN Hop(g[m - 1], path[m]) ELSE g[i]]
<1>5. IsWalk(h, c, path, m)
  <2>1. h = [i \in 0 .. m |-> h[i]] /\ h[0] = c
    BY <1>2, <1>3, <1>4 DEF IsWalk
  <2>2. ASSUME NEW i \in 1 .. m PROVE h[i] = Hop(h[i - 1], path[i])
    <3>1. h[i - 1] = g[i - 1]
      BY <1>3
    <3>2. CASE i = m
      BY <3>1, <3>2
    <3>3. CASE i # m
      <4>1. i \in 1 .. m - 1 /\ h[i] = g[i]
        BY <1>3, <3>3
      <4> QED BY <1>4, <3>1, <4>1 DEF IsWalk
    <3> QED BY <3>2, <3>3
  <2> QED BY <2>1, <2>2 DEF IsWalk
<1> QED BY <1>5

\* There is only one: two would have a first chain at which they part.
LEMMA WalkUnique ==
    ASSUME NEW c, NEW path, NEW n \in Nat, NEW g, NEW h,
           IsWalk(g, c, path, n), IsWalk(h, c, path, n)
    PROVE  g = h
<1> DEFINE T == {m \in 0 .. n : g[m] # h[m]}
<1>1. CASE T # {}
  <2>a. T \in SUBSET Nat
    OBVIOUS
  <2> HIDE DEF T
  <2>1. PICK m \in T : \A y \in T : m <= y
    BY <1>1, <2>a, LeastNat
  <2> USE DEF T
  <2>2. m # 0
    BY DEF IsWalk
  <2>3. m - 1 \in 0 .. n /\ m - 1 \notin T /\ m \in 1 .. n
    BY <2>1, <2>2
  <2>4. g[m] = Hop(g[m - 1], path[m]) /\ h[m] = Hop(h[m - 1], path[m])
    BY <2>3 DEF IsWalk
  <2> QED BY <2>3, <2>4
<1>2. CASE T = {}
  BY <1>2 DEF IsWalk
<1> QED BY <1>1, <1>2

\* Route, which is defined by recursion, is the walk.
LEMMA RouteWalks ==
    ASSUME NEW c, NEW S, NEW path \in Seq(S)
    PROVE  IsWalk(Route(c, path), c, path, Len(path))
<1> DEFINE F(g) == [i \in 0 .. Len(path) |-> IF i = 0 THEN c ELSE Hop(g[i - 1], path[i])]
<1>a. Len(path) \in Nat
  OBVIOUS
<1>1. PICK g : IsWalk(g, c, path, Len(path))
  BY <1>a, WalkExists
<1>2. g = F(g)
  BY <1>1 DEF IsWalk
<1>3. Route(c, path) = CHOOSE r : r = F(r)
  BY DEF Route
<1>4. Route(c, path) = F(Route(c, path))
  BY <1>2, <1>3
<1> QED BY <1>4 DEF IsWalk

\* A route goes on where its first prefix leads.
LEMMA RouteStep ==
    ASSUME NEW c, NEW S, NEW path \in Seq(S), path # << >>
    PROVE  Route(c, path)[Len(path)]
             = Route(Hop(c, Head(path)), Tail(path))[Len(Tail(path))]
<1> DEFINE r == Route(c, path)
           n == Len(path)
           d == Hop(c, Head(path))
           g == [i \in 0 .. n - 1 |-> r[i + 1]]
<1>1. /\ n \in Nat /\ n # 0 /\ Tail(path) \in Seq(S) /\ Len(Tail(path)) = n - 1
      /\ Head(path) = path[1] /\ \A i \in 1 .. n - 1 : Tail(path)[i] = path[i + 1]
  OBVIOUS
<1>2. IsWalk(r, c, path, n)
  BY RouteWalks
<1>3. r[1] = d
  BY <1>1, <1>2 DEF IsWalk
<1>4. ASSUME NEW i \in 1 .. n - 1
      PROVE  g[i] = Hop(g[i - 1], Tail(path)[i])
  <2>1. i + 1 \in 1 .. n /\ (i + 1) - 1 = i /\ (i - 1) + 1 = i
        /\ i - 1 \in 0 .. n - 1 /\ i \in 0 .. n - 1
    BY <1>1
  <2>2. r[i + 1] = Hop(r[(i + 1) - 1], path[i + 1])
    BY <1>2, <2>1 DEF IsWalk
  <2>3. g[i] = r[i + 1] /\ g[i - 1] = r[i]
    BY <2>1
  <2> QED BY <1>1, <2>1, <2>2, <2>3
<1>5. IsWalk(g, d, Tail(path), n - 1)
  <2>1. g = [i \in 0 .. n - 1 |-> g[i]] /\ g[0] = d
    BY <1>1, <1>3
  <2> QED BY <1>4, <2>1 DEF IsWalk
<1>6. IsWalk(Route(d, Tail(path)), d, Tail(path), n - 1)
  BY <1>1, RouteWalks
<1>7. n - 1 \in Nat
  BY <1>1
<1> HIDE DEF n, d, g, r
<1>8. Route(d, Tail(path)) = g
  BY <1>5, <1>6, <1>7, WalkUnique
<1>9. g[n - 1] = r[n]
  BY <1>1 DEF g
<1> QED BY <1>1, <1>8, <1>9 DEF n, r, d

\* A class without prefixes is at home.
LEMMA HomeLocal ==
    ASSUME NEW c, NEW x \in ClassId, x.path = << >>
    PROVE  Home(c, x) = c
<1>1. x.path \in Seq(Prefixes) /\ Len(x.path) = 0
  BY DEF ClassId
<1>2. IsWalk(Route(c, x.path), c, x.path, Len(x.path))
  BY <1>1, RouteWalks
<1> QED BY <1>1, <1>2 DEF Home, IsWalk

\* The prefix of e, read on the chain of e, leads to the other end of e.
LEMMA HomeReturning ==
    ASSUME NEW e \in Endpoints, NEW x \in ClassId, HasPrefix(PrefixOf(e), x)
    PROVE  Home(e.chain, x) = Home(Peer[e].chain, Unprefixed(x))
<1>1. x.path \in Seq(Prefixes) /\ x.path # << >> /\ Head(x.path) = PrefixOf(e)
  BY DEF ClassId, HasPrefix
<1>2. e = [chain |-> e.chain, channel |-> e.channel]
  BY NetworkAssumption
<1>3. Hop(e.chain, PrefixOf(e)) = Peer[e].chain
  BY <1>2 DEF Hop, PrefixOf, get_endpoint_prefix
<1>4. Home(e.chain, x)
        = Route(Peer[e].chain, Tail(x.path))[Len(Tail(x.path))]
  BY <1>1, <1>3, RouteStep DEF Home
<1> QED BY <1>4 DEF Home, Unprefixed

LEMMA HomePrefixed ==
    ASSUME NEW e \in Endpoints, NEW x \in ClassId
    PROVE  Home(e.chain, Prefixed(PrefixOf(e), x)) = Home(Peer[e].chain, x)
<1>1. PrefixOf(e) \in Prefixes
  BY PrefixOfType
<1>2. /\ Prefixed(PrefixOf(e), x) \in ClassId
      /\ HasPrefix(PrefixOf(e), Prefixed(PrefixOf(e), x))
      /\ Unprefixed(Prefixed(PrefixOf(e), x)) = x
  BY <1>1, PrefixedType, PrefixRoundTrip
<1> QED BY <1>2, HomeReturning

(***************************************************************************)
(* Claims.  How what a step does to the owner of one token and to one      *)
(* packet shows in Holdings and Carriers.                                  *)
(***************************************************************************)

\* The NFT that a token of this class stands for.
NftOf(c, class, t) == <<Home(c, class), class.base, t>>

\* The contracts that have tokens keep their classes.
StillNamed ==
    \A x \in Chains : \A y, z :
      Exists(x, y, z) => ClassOfContract(x, y)' = ClassOfContract(x, y)

LEMMA NamesUnchanged == UNCHANGED nftClass => StillNamed
BY DEF StillNamed, ClassOfContract

\* A contract that is entered under the name it has anyway, or that has no
\* tokens yet, keeps the others as they are.
LEMMA NamesRegistered ==
    ASSUME RegistryInv, NEW c \in Chains, NEW k, NEW class,
           k \notin DOMAIN nftClass[c],
           k \in Collections => class = LocalClass(k),
           nftClass' = [nftClass EXCEPT ![c] = Save(@, k, class)]
    PROVE  StillNamed /\ ClassOfContract(c, k)' = class
<1>1. /\ nftClass'[c] = Save(nftClass[c], k, class)
      /\ \A x \in Chains : x # c => nftClass'[x] = nftClass[x]
  BY DEF RegistryInv, TypeOK, RegistryType, PerChain
<1>2. /\ DOMAIN nftClass'[c] = DOMAIN nftClass[c] \cup {k}
      /\ nftClass'[c][k] = class
      /\ \A y \in DOMAIN nftClass[c] : y # k => nftClass'[c][y] = nftClass[c][y]
  BY <1>1 DEF Save
<1>3. \A y, z : Exists(c, y, z) => y \in Collections \cup DOMAIN nftClass[c]
  BY DEF RegistryInv, RegistryShape, TokensRegistered, Exists
<1>4. ClassOfContract(c, k)' = class
  BY <1>2 DEF ClassOfContract, Has
<1>5. ASSUME NEW x \in Chains, NEW y, NEW z, Exists(x, y, z)
      PROVE  ClassOfContract(x, y)' = ClassOfContract(x, y)
  <2>1. CASE x # c
    BY <1>1, <2>1 DEF ClassOfContract
  <2>2. CASE x = c /\ y = k
    <3>1. y \in Collections
      BY <1>3, <1>5, <2>2
    <3> QED BY <1>4, <2>2, <3>1 DEF ClassOfContract, Has
  <2>3. CASE x = c /\ y # k
    BY <1>2, <2>3 DEF ClassOfContract, Has
  <2> QED BY <2>1, <2>2, <2>3
<1> QED BY <1>4, <1>5 DEF StillNamed

LEMMA HoldingsWho ==
    \A n, ck :
      /\ ck \in Holdings(n) <=>
           /\ ck \in Chains \X Contracts
           /\ Who(ck[1], ck[2], n[3]) \in Users
           /\ n = NftOf(ck[1], ClassOfContract(ck[1], ck[2]), n[3])
      /\ ck \in Holdings(n)' <=>
           /\ ck \in Chains \X Contracts
           /\ Who(ck[1], ck[2], n[3])' \in Users
           /\ n = NftOf(ck[1], ClassOfContract(ck[1], ck[2])', n[3])
BY AddrsAssumption DEF Holdings, Who, NftOf, StandsFor

\* When the owner of a token changes, only the NFT it stands for is affected.
LEMMA HoldingsAfter ==
    ASSUME NEW c \in Chains, NEW k \in Contracts, NEW t, NEW w, NEW class,
           OwnerBecomes(c, k, t, w), StillNamed,
           ClassOfContract(c, k)' = class,
           NEW n
    PROVE  Holdings(n)' = IF n # NftOf(c, class, t) THEN Holdings(n)
                          ELSE IF w \in Users THEN Holdings(n) \cup {<<c, k>>}
                          ELSE Holdings(n) \ {<<c, k>>}
<1>1. ASSUME NEW ck \in Chains \X Contracts, ck # <<c, k>> \/ n[3] # t
      PROVE  ck \in Holdings(n)' <=> ck \in Holdings(n)
  <2>1. Who(ck[1], ck[2], n[3])' = Who(ck[1], ck[2], n[3])
    BY <1>1 DEF OwnerBecomes
  <2>2. Who(ck[1], ck[2], n[3]) \in Users =>
          ClassOfContract(ck[1], ck[2])' = ClassOfContract(ck[1], ck[2])
    BY AddrsAssumption DEF StillNamed, Who
  <2> QED BY <2>1, <2>2, HoldingsWho
<1>2. ASSUME n[3] = t
      PROVE  /\ <<c, k>> \in Holdings(n)' <=>
                  w \in Users /\ n = NftOf(c, class, t)
             /\ <<c, k>> \in Holdings(n) => n = NftOf(c, class, t)
  <2>1. Who(c, k, t)' = w
    BY DEF OwnerBecomes
  <2>2. Who(c, k, t) \in Users => ClassOfContract(c, k) = class
    BY AddrsAssumption DEF StillNamed, Who
  <2> QED BY <1>2, <2>1, <2>2, HoldingsWho
<1>3. n = NftOf(c, class, t) => n[3] = t
  BY DEF NftOf
<1>4. \A ck : /\ ck \in Holdings(n) => ck \in Chains \X Contracts
              /\ ck \in Holdings(n)' => ck \in Chains \X Contracts
  BY HoldingsWho
<1>5. CASE n # NftOf(c, class, t)
  BY <1>1, <1>2, <1>4, <1>5
<1>6. CASE n = NftOf(c, class, t)
  BY <1>1, <1>2, <1>3, <1>4, <1>6
<1> QED BY <1>5, <1>6

\* Nothing happens to the ledgers.
LEMMA HoldingsSame ==
    ASSUME ledger' = ledger, StillNamed, NEW n
    PROVE  Holdings(n)' = Holdings(n)
<1>1. \A x, y, z : Who(x, y, z)' = Who(x, y, z)
  BY DEF Who, Exists
<1>2. ASSUME NEW ck
      PROVE  ck \in Holdings(n)' <=> ck \in Holdings(n)
  <2>1. ck \in Chains \X Contracts /\ Who(ck[1], ck[2], n[3]) \in Users =>
          ClassOfContract(ck[1], ck[2])' = ClassOfContract(ck[1], ck[2])
    BY AddrsAssumption DEF StillNamed, Who
  <2> QED BY <1>1, <2>1, HoldingsWho
<1> QED BY <1>2

CarriedNft(s) == NftOf(packets[s].src.chain, packets[s].class, packets[s].token)

LEMMA CarriersNft ==
    \A n, s : /\ s \in Carriers(n) <=>
                   s \in Slots /\ InTransit(s) /\ n = CarriedNft(s)
              /\ s \in Carriers(n)' <=>
                   s \in Slots /\ InTransit(s)' /\ n = CarriedNft(s)'
BY DEF Carriers, StandsFor, CarriedNft, NftOf

LEMMA CarriersAfter ==
    ASSUME NEW s \in Slots, OthersKept(s), NEW n
    PROVE  /\ ~InTransit(s)' => Carriers(n)' = Carriers(n) \ {s}
           /\ InTransit(s)' /\ n = CarriedNft(s)' =>
                Carriers(n)' = Carriers(n) \cup {s}
           /\ InTransit(s)' /\ n # CarriedNft(s)' =>
                Carriers(n)' = Carriers(n) \ {s}
<1>1. \A r \in Slots : r # s => (r \in Carriers(n)' <=> r \in Carriers(n))
  BY CarriersNft DEF OthersKept, InTransit, CarriedNft
<1>2. s \in Carriers(n)' <=> InTransit(s)' /\ n = CarriedNft(s)'
  BY CarriersNft
<1>3. Carriers(n)' \subseteq Slots /\ Carriers(n) \subseteq Slots
  BY DEF Carriers
<1> QED BY <1>1, <1>2, <1>3

(***************************************************************************)
(* One claim per NFT, and where it is.                                     *)
(***************************************************************************)
Single(n) ==
    \/ Carriers(n) = {} /\ \E x : Holdings(n) \subseteq {x}
    \/ Holdings(n) = {} /\ \E s : Carriers(n) \subseteq {s}

SingleClaim == \A n \in DOMAIN NativeNfts : Single(n)

LEMMA SingleIsOne == SingleClaim => OneClaim
<1> SUFFICES ASSUME NEW n \in DOMAIN NativeNfts, Single(n)
             PROVE  Cardinality(Holdings(n)) + Cardinality(Carriers(n)) <= 1
  BY DEF SingleClaim, OneClaim
<1>1. ASSUME NEW S, NEW x, S \subseteq {x}
      PROVE  Cardinality(S) = 0 \/ Cardinality(S) = 1
  <2>1. S = {} \/ S = {x}
    BY <1>1
  <2> QED BY <2>1, FS_EmptySet, FS_Singleton
<1>2. CASE Carriers(n) = {} /\ \E x : Holdings(n) \subseteq {x}
  BY <1>1, <1>2, FS_EmptySet
<1>3. CASE Holdings(n) = {} /\ \E s : Carriers(n) \subseteq {s}
  BY <1>1, <1>3, FS_EmptySet
<1> QED BY <1>2, <1>3 DEF Single

\* The place of a packet's token, as NftTransfer sees it.
PacketPlace(p) ==
    Abstract!Transit(<<p.src.chain, Dest(p).chain>>, p.sender, p.receiver)

LEMMA WhereHeld ==
    \A n, c, k :
      /\ Holdings(n) = {<<c, k>>} /\ Exists(c, k, n[3]) =>
           Whereabouts(n) = Abstract!Held(c, Who(c, k, n[3]))
      /\ Holdings(n)' = {<<c, k>>} /\ Exists(c, k, n[3])' =>
           Whereabouts(n)' = Abstract!Held(c, Who(c, k, n[3])')
<1>1. \A x : (CHOOSE y \in {x} : TRUE) = x
  OBVIOUS
<1>2. ASSUME NEW n, NEW c, NEW k,
             Holdings(n) = {<<c, k>>}, Exists(c, k, n[3])
      PROVE  Whereabouts(n) = Abstract!Held(c, Who(c, k, n[3]))
  <2>1. (CHOOSE x \in Holdings(n) : TRUE) = <<c, k>>
    BY <1>1, <1>2
  <2> QED BY <1>2, <2>1 DEF Whereabouts, Abstract!Held, Who
<1>3. ASSUME NEW n, NEW c, NEW k,
             Holdings(n)' = {<<c, k>>}, Exists(c, k, n[3])'
      PROVE  Whereabouts(n)' = Abstract!Held(c, Who(c, k, n[3])')
  <2>1. (CHOOSE x \in Holdings(n)' : TRUE) = <<c, k>>
    BY <1>1, <1>3
  <2> QED BY <1>3, <2>1 DEF Whereabouts, Abstract!Held, Who
<1> QED BY <1>2, <1>3

LEMMA WhereTransit ==
    \A n, s :
      /\ Holdings(n) = {} /\ Carriers(n) = {s} =>
           Whereabouts(n) = PacketPlace(packets[s])
      /\ Holdings(n)' = {} /\ Carriers(n)' = {s} =>
           Whereabouts(n)' = PacketPlace(packets'[s])
<1>1. \A x : (CHOOSE y \in {x} : TRUE) = x
  OBVIOUS
<1> QED BY <1>1 DEF Whereabouts, PacketPlace, Abstract!Transit, Dest

LEMMA WhereGone ==
    \A n : Holdings(n)' = {} /\ Carriers(n)' = {} =>
             Whereabouts(n)' = Abstract!Gone
BY DEF Whereabouts, Abstract!Gone

\* The part of a packet that the place of its token depends on.
SameJourney(s) ==
    /\ packets'[s].src = packets[s].src
    /\ packets'[s].sender = packets[s].sender
    /\ packets'[s].receiver = packets[s].receiver

\* An NFT that is not touched stays where it is.
LEMMA WhereSame ==
    ASSUME NEW n, Single(n),
           Holdings(n)' = Holdings(n), Carriers(n)' = Carriers(n),
           \A ck \in Holdings(n) :
             Who(ck[1], ck[2], n[3])' = Who(ck[1], ck[2], n[3]),
           \A s \in Carriers(n) : SameJourney(s)
    PROVE  Single(n)' /\ Whereabouts(n)' = Whereabouts(n)
<1>1. Single(n)'
  BY DEF Single
<1>2. CASE Holdings(n) # {}
  <2>1. PICK x : Holdings(n) = {x}
    BY <1>2 DEF Single
  <2>2. x \in Chains \X Contracts /\ Who(x[1], x[2], n[3]) \in Users
    BY <2>1, HoldingsWho
  <2>3. PICK c \in Chains, k \in Contracts : x = <<c, k>>
    BY <2>2
  <2>4. /\ Who(c, k, n[3])' = Who(c, k, n[3])
        /\ Exists(c, k, n[3]) /\ Exists(c, k, n[3])'
    BY <2>1, <2>2, <2>3, AddrsAssumption DEF Who
  <2> QED BY <1>1, <2>1, <2>3, <2>4, WhereHeld
<1>3. CASE Holdings(n) = {} /\ Carriers(n) # {}
  <2>1. PICK s : Carriers(n) = {s}
    BY <1>3 DEF Single
  <2>2. SameJourney(s)
    BY <2>1
  <2>3. PacketPlace(packets'[s]) = PacketPlace(packets[s])
    BY <2>2 DEF SameJourney, PacketPlace, Dest
  <2> QED BY <1>1, <1>3, <2>1, <2>3, WhereTransit
<1>4. CASE Holdings(n) = {} /\ Carriers(n) = {}
  BY <1>1, <1>4 DEF Whereabouts
<1> QED BY <1>2, <1>3, <1>4

\* The variable of NftTransfer.
Places == [n \in DOMAIN NativeNfts |-> Whereabouts(n)]

\* What a step has to be: no NFT moves, or one does as NftTransfer says.
AbstractStep == Abstract!Next \/ Places' = Places

\* Nobody gains or loses a claim.
LEMMA NoMove ==
    ASSUME SingleClaim,
           \A n \in DOMAIN NativeNfts : Whereabouts(n)' = Whereabouts(n),
           \A n \in DOMAIN NativeNfts : Single(n)'
    PROVE  SingleClaim' /\ AbstractStep
<1>1. Places' = Places
  BY DEF Places
<1> QED BY <1>1 DEF SingleClaim, AbstractStep

\* One NFT, if it is one, moves to a place.
LEMMA OneMove ==
    ASSUME SingleClaim, NEW m, NEW place,
           \A n \in DOMAIN NativeNfts : n # m => Whereabouts(n)' = Whereabouts(n),
           \A n \in DOMAIN NativeNfts : Single(n)',
           m \in DOMAIN NativeNfts =>
             /\ Whereabouts(m)' = place
             /\ Abstract!Move(m, place) =>
                  \/ Abstract!Give(m) \/ Abstract!Depart(m) \/ Abstract!Arrive(m)
                  \/ Abstract!Vanish(m) \/ Abstract!Return(m) \/ Abstract!Burn(m)
    PROVE  SingleClaim' /\ AbstractStep
<1>1. SingleClaim'
  BY DEF SingleClaim
<1>2. CASE m \notin DOMAIN NativeNfts
  BY <1>1, <1>2, NoMove
<1>3. CASE m \in DOMAIN NativeNfts
  <2>1. Abstract!Move(m, place)
    BY <1>3 DEF Abstract!Move
  <2> QED BY <1>1, <1>3, <2>1 DEF AbstractStep, Abstract!Next
<1> QED BY <1>2, <1>3

\* The owners of the other NFTs stay.
LEMMA HoldersKept ==
    ASSUME NEW c \in Chains, NEW k \in Contracts, NEW t, NEW w, NEW class,
           OwnerBecomes(c, k, t, w), StillNamed,
           ClassOfContract(c, k)' = class,
           NEW n, n # NftOf(c, class, t)
    PROVE  \A ck \in Holdings(n) :
             Who(ck[1], ck[2], n[3])' = Who(ck[1], ck[2], n[3])
<1> SUFFICES ASSUME NEW ck \in Holdings(n)
             PROVE  Who(ck[1], ck[2], n[3])' = Who(ck[1], ck[2], n[3])
  OBVIOUS
<1>1. /\ ck \in Chains \X Contracts /\ Who(ck[1], ck[2], n[3]) \in Users
      /\ n = NftOf(ck[1], ClassOfContract(ck[1], ck[2]), n[3])
  BY HoldingsWho
<1>2. ClassOfContract(ck[1], ck[2])' = ClassOfContract(ck[1], ck[2])
  BY <1>1, AddrsAssumption DEF StillNamed, Who
<1>3. ~(ck[1] = c /\ ck[2] = k /\ n[3] = t)
  BY <1>1, <1>2
<1> QED BY <1>1, <1>3 DEF OwnerBecomes

\* A packet gives its token to a user, or to the bridge itself.
LEMMA TransitEnds ==
    ASSUME SingleClaim,
           NEW s \in Slots, InTransit(s), OthersKept(s), ~InTransit(s)',
           NEW c \in Chains, NEW k \in Contracts, NEW t, NEW class,
           NEW u \in Users \cup {Bridge},
           OwnerBecomes(c, k, t, u), StillNamed,
           ClassOfContract(c, k)' = class,
           CarriedNft(s) = NftOf(c, class, t),
           NEW n \in DOMAIN NativeNfts
    PROVE  /\ Single(n)'
           /\ n # CarriedNft(s) => Whereabouts(n)' = Whereabouts(n)
           /\ n = CarriedNft(s) =>
                /\ Whereabouts(n) = PacketPlace(packets[s])
                /\ Whereabouts(n)' = IF u \in Users THEN Abstract!Held(c, u)
                                     ELSE Abstract!Gone
<1>1. Single(n)
  BY DEF SingleClaim
<1>2. Carriers(n)' = Carriers(n) \ {s}
  BY CarriersAfter
<1>3. s \in Carriers(n) <=> n = CarriedNft(s)
  BY CarriersNft
<1>4. CASE n # CarriedNft(s)
  <2>1. Holdings(n)' = Holdings(n) /\ Carriers(n)' = Carriers(n)
    BY <1>2, <1>3, <1>4, HoldingsAfter
  <2>2. \A ck \in Holdings(n) :
          Who(ck[1], ck[2], n[3])' = Who(ck[1], ck[2], n[3])
    BY <1>4, HoldersKept
  <2>3. \A r \in Carriers(n) : SameJourney(r)
    BY <1>3, <1>4, CarriersNft DEF OthersKept, SameJourney
  <2> QED BY <1>1, <1>4, <2>1, <2>2, <2>3, WhereSame
<1>5. CASE n = CarriedNft(s)
  <2>1. Holdings(n) = {} /\ Carriers(n) = {s}
    BY <1>1, <1>3, <1>5 DEF Single
  <2>2. Carriers(n)' = {} /\ Whereabouts(n) = PacketPlace(packets[s])
    BY <1>2, <2>1, WhereTransit
  <2>3. CASE u \in Users
    <3>1. Holdings(n)' = {<<c, k>>}
      BY <1>5, <2>1, <2>3, HoldingsAfter
    <3>2. n[3] = t
      BY <1>5 DEF NftOf
    <3>3. Who(c, k, n[3])' = u /\ Exists(c, k, n[3])'
      BY <2>3, <3>2, AddrsAssumption DEF OwnerBecomes, Who
    <3>4. Single(n)'
      BY <2>2, <3>1 DEF Single
    <3>5. Whereabouts(n)' = Abstract!Held(c, u)
      BY <3>1, <3>3, WhereHeld
    <3> QED BY <1>5, <2>2, <2>3, <3>4, <3>5
  <2>4. CASE u \notin Users
    <3>1. Holdings(n)' = {}
      BY <1>5, <2>1, <2>4, HoldingsAfter
    <3>2. Single(n)' /\ Whereabouts(n)' = Abstract!Gone
      BY <2>2, <3>1, WhereGone DEF Single
    <3> QED BY <1>5, <2>2, <2>4, <3>2
  <2> QED BY <2>3, <2>4
<1> QED BY <1>4, <1>5

\* The bridge takes a token from a user and puts it into a packet.
LEMMA HeldToTransit ==
    ASSUME SingleClaim,
           NEW c \in Chains, NEW k \in Contracts, NEW t, NEW class,
           Who(c, k, t) \in Users,
           OwnerBecomes(c, k, t, Bridge), StillNamed,
           ClassOfContract(c, k)' = class,
           NEW s \in Slots, ~InTransit(s), OthersKept(s), InTransit(s)',
           CarriedNft(s)' = NftOf(c, class, t),
           NEW n \in DOMAIN NativeNfts
    PROVE  /\ Single(n)'
           /\ n # NftOf(c, class, t) => Whereabouts(n)' = Whereabouts(n)
           /\ n = NftOf(c, class, t) =>
                /\ Whereabouts(n) = Abstract!Held(c, Who(c, k, t))
                /\ Whereabouts(n)' = PacketPlace(packets'[s])
<1>1. Single(n) /\ Bridge \notin Users
  BY AddrsAssumption DEF SingleClaim
<1>2. s \notin Carriers(n)
  BY CarriersNft
<1>3. CASE n # NftOf(c, class, t)
  <2>a. Holdings(n)' = Holdings(n)
    BY <1>3, HoldingsAfter
  <2>b. Carriers(n)' = Carriers(n) \ {s}
    BY <1>3, CarriersAfter
  <2>1. Holdings(n)' = Holdings(n) /\ Carriers(n)' = Carriers(n)
    BY <1>2, <2>a, <2>b
  <2>2. \A ck \in Holdings(n) :
          Who(ck[1], ck[2], n[3])' = Who(ck[1], ck[2], n[3])
    BY <1>3, HoldersKept
  <2>3. \A r \in Carriers(n) : SameJourney(r)
    BY <1>2, CarriersNft DEF OthersKept, SameJourney
  <2> QED BY <1>1, <1>3, <2>1, <2>2, <2>3, WhereSame
<1>4. CASE n = NftOf(c, class, t)
  <2>1. n[3] = t /\ Exists(c, k, t) /\ ClassOfContract(c, k) = class
    BY <1>4, AddrsAssumption DEF NftOf, Who, StillNamed
  <2>2. <<c, k>> \in Holdings(n)
    BY <1>4, <2>1, HoldingsWho
  <2>3. Holdings(n) = {<<c, k>>} /\ Carriers(n) = {}
    BY <1>1, <2>2 DEF Single
  <2>4. Holdings(n)' = {} /\ Carriers(n)' = {s}
    BY <1>1, <1>4, <2>3, HoldingsAfter, CarriersAfter
  <2>5. Single(n)'
    BY <2>4 DEF Single
  <2>6. Whereabouts(n) = Abstract!Held(c, Who(c, k, t))
    BY <2>1, <2>3, WhereHeld
  <2> QED BY <1>4, <2>4, <2>5, <2>6, WhereTransit
<1> QED BY <1>3, <1>4

\* A user gives its token away, or burns it.
LEMMA HeldToHeld ==
    ASSUME SingleClaim, packets' = packets,
           NEW c \in Chains, NEW k \in Contracts, NEW t, NEW class, NEW w,
           Who(c, k, t) \in Users, w \in Users \cup {None},
           OwnerBecomes(c, k, t, w), StillNamed,
           ClassOfContract(c, k)' = class,
           NEW n \in DOMAIN NativeNfts
    PROVE  /\ Single(n)'
           /\ n # NftOf(c, class, t) => Whereabouts(n)' = Whereabouts(n)
           /\ n = NftOf(c, class, t) =>
                /\ Whereabouts(n) = Abstract!Held(c, Who(c, k, t))
                /\ Whereabouts(n)' = IF w = None THEN Abstract!Gone
                                     ELSE Abstract!Held(c, w)
<1>1. Single(n) /\ None \notin Users
  BY AddrsAssumption DEF SingleClaim
<1>2. Carriers(n)' = Carriers(n) /\ \A r \in Carriers(n) : SameJourney(r)
  BY DEF Carriers, InTransit, SameJourney
<1>3. CASE n # NftOf(c, class, t)
  <2>1. Holdings(n)' = Holdings(n)
    BY <1>3, HoldingsAfter
  <2>2. \A ck \in Holdings(n) :
          Who(ck[1], ck[2], n[3])' = Who(ck[1], ck[2], n[3])
    BY <1>3, HoldersKept
  <2> QED BY <1>1, <1>2, <1>3, <2>1, <2>2, WhereSame
<1>4. CASE n = NftOf(c, class, t)
  <2>1. n[3] = t /\ Exists(c, k, t) /\ ClassOfContract(c, k) = class
    BY <1>1, <1>4 DEF NftOf, Who, StillNamed
  <2>2. <<c, k>> \in Holdings(n)
    BY <1>4, <2>1, HoldingsWho
  <2>3. Holdings(n) = {<<c, k>>} /\ Carriers(n) = {}
    BY <1>1, <2>2 DEF Single
  <2>4. Whereabouts(n) = Abstract!Held(c, Who(c, k, t))
    BY <2>1, <2>3, WhereHeld
  <2>5. Who(c, k, n[3])' = w
    BY <2>1 DEF OwnerBecomes
  <2>6. CASE w = None
    <3>1. Holdings(n)' = {} /\ Carriers(n)' = {}
      BY <1>1, <1>2, <1>4, <2>3, <2>6, HoldingsAfter
    <3>2. Single(n)'
      BY <3>1 DEF Single
    <3> QED BY <1>4, <2>4, <2>6, <3>1, <3>2, WhereGone
  <2>7. CASE w \in Users
    <3>1. Holdings(n)' = {<<c, k>>} /\ Carriers(n)' = {}
      BY <1>2, <1>4, <2>3, <2>7, HoldingsAfter
    <3>2. Single(n)'
      BY <3>1 DEF Single
    <3>3. Exists(c, k, n[3])'
      BY <1>1, <2>5, <2>7 DEF Who
    <3> QED BY <1>1, <1>4, <2>4, <2>5, <2>7, <3>1, <3>2, <3>3, WhereHeld
  <2> QED BY <2>6, <2>7
<1> QED BY <1>3, <1>4

\* A step that touches no claim: no user gains or loses a token, and a packet
\* at most turns from sent to refused, or is forgotten once it has been accepted.
LEMMA NothingMoves ==
    ASSUME SingleClaim, NEW s \in Slots, OthersKept(s),
           \/ ~InTransit(s) /\ ~InTransit(s)'
           \/ /\ InTransit(s) /\ InTransit(s)' /\ SameJourney(s)
              /\ CarriedNft(s)' = CarriedNft(s),
           \A n \in DOMAIN NativeNfts :
             /\ Holdings(n)' = Holdings(n)
             /\ \A ck \in Holdings(n) :
                  Who(ck[1], ck[2], n[3])' = Who(ck[1], ck[2], n[3])
    PROVE  SingleClaim' /\ AbstractStep
<1>1. ASSUME NEW n \in DOMAIN NativeNfts
      PROVE  Single(n)' /\ Whereabouts(n)' = Whereabouts(n)
  <2>1. Single(n)
    BY DEF SingleClaim
  <2>2. Carriers(n)' = Carriers(n)
    BY CarriersAfter, CarriersNft
  <2>3. \A r \in Carriers(n) : SameJourney(r)
    BY CarriersNft DEF OthersKept, SameJourney
  <2> QED BY <2>1, <2>2, <2>3, WhereSame
<1> QED BY <1>1, NoMove

(***************************************************************************)
(* The actions of the bridges, as steps of NftTransfer.                    *)
(***************************************************************************)

\* The class of a contract that has tokens is a class ID.
LEMMA ClassOfType ==
    ASSUME RegistryInv, NEW c \in Chains, NEW k, NEW t, Exists(c, k, t)
    PROVE  ClassOfContract(c, k) \in ClassId
<1>1. k \in Collections \cup DOMAIN nftClass[c]
  BY DEF RegistryInv, RegistryShape, TokensRegistered, Exists
<1>2. \A y \in DOMAIN nftClass[c] : nftClass[c][y] \in ClassId
  BY DEF RegistryInv, TypeOK, RegistryType, IsMap
<1> QED BY <1>1, <1>2, LocalClassType DEF ClassOfContract, Has

\* SendNft to a bridge is a departure.
LEMMA SendIsDepart ==
    ASSUME RegistryInv, SingleClaim,
           NEW e \in Endpoints, NEW k \in Contracts, NEW t \in Tokens,
           NEW u \in Users, NEW r \in Users \cup {Bridge, BadAddr}, NEW s \in Slots,
           OwnedBy(e.chain, k, t, u), receive_nft(e, k, t, u, r, s)
    PROVE  SingleClaim' /\ AbstractStep
<1> DEFINE c == e.chain
           class == ClassOfContract(c, k)
           m == NftOf(c, class, t)
           p == OutgoingPacket(e, k, t, u, r)
<1>1. /\ LedgerType /\ PacketType /\ c \in Chains /\ Exists(c, k, t)
      /\ Who(c, k, t) = u /\ packets[s] = NoPacket
  BY PrefixOfType DEF RegistryInv, TypeOK, OwnedBy, Who, receive_nft
<1>2. /\ Cw721Transfer(c, k, t, Bridge) /\ RegisterLocal(c, k)
      /\ packets' = [packets EXCEPT ![s] = p]
  BY DEF receive_nft
<1>3. OwnerBecomes(c, k, t, Bridge)
  BY <1>1, <1>2, TransferPoint
<1>4. StillNamed /\ ClassOfContract(c, k)' = class
  <2>1. CASE Has(nftClass[c], k)
    <3>1. UNCHANGED nftClass
      BY <1>2, <2>1 DEF RegisterLocal, registry
    <3> QED BY <3>1, NamesUnchanged DEF ClassOfContract
  <2>2. CASE ~Has(nftClass[c], k)
    <3>1. /\ nftClass' = [nftClass EXCEPT ![c] = Save(@, k, LocalClass(k))]
          /\ class = LocalClass(k) /\ k \notin DOMAIN nftClass[c]
      BY <1>2, <2>2 DEF RegisterLocal, ClassOfContract, Has
    <3> QED BY <1>1, <3>1, NamesRegistered
  <2> QED BY <2>1, <2>2
<1>5. /\ p.src = e /\ p.class = class /\ p.token = t /\ p.phase = "sent"
      /\ p.sender = u /\ p.receiver = r
  BY DEF OutgoingPacket
<1>6. p # NoPacket
  <2>2. class \in ClassId
    BY <1>1, ClassOfType
  <2>3. ledger[c][<<k, t>>].uri \in Uris \cup {None}
    BY <1>1 DEF LedgerType, IsMap, Exists, Nft
  <2>4. p \in Packet
    BY <2>2, <2>3 DEF OutgoingPacket, Packet
  <2> QED BY <2>4, PacketAssumption
<1>7. /\ packets'[s] = p /\ OthersKept(s)
      /\ ~InTransit(s) /\ InTransit(s)' /\ CarriedNft(s)' = m
  <2>1. packets'[s] = p /\ OthersKept(s)
    BY <1>1, <1>2 DEF PacketType, OthersKept
  <2> QED BY <1>1, <1>5, <1>6, <2>1 DEF InTransit, CarriedNft
<1>8. PacketPlace(p) = Abstract!Transit(<<c, Peer[e].chain>>, u, r)
  BY <1>5 DEF PacketPlace, Dest
<1> HIDE DEF m, class, p, c
<1>9. ASSUME NEW n \in DOMAIN NativeNfts
      PROVE  /\ Single(n)'
             /\ n # m => Whereabouts(n)' = Whereabouts(n)
             /\ n = m =>
                  /\ Whereabouts(n) = Abstract!Held(c, u)
                  /\ Whereabouts(n)'
                       = Abstract!Transit(<<c, Peer[e].chain>>, u, r)
  BY <1>1, <1>3, <1>4, <1>7, <1>8, HeldToTransit DEF m
<1>10. ASSUME m \in DOMAIN NativeNfts,
              Abstract!Move(m, Abstract!Transit(<<c, Peer[e].chain>>, u, r))
       PROVE  Abstract!Depart(m)
  <2>1. <<c, Peer[e].chain>> \in Links
    BY DEF Links, c
  <2> QED BY <1>9, <1>10, <2>1 DEF Abstract!Depart, Abstract!Held
<1> QED BY <1>9, <1>10, OneMove

\* A packet that gives its token to the receiver on the other chain is an
\* arrival (or, if that is the bridge, the end of it), one that gives it back to the sender is a return.
LEMMA Delivered ==
    ASSUME SingleClaim,
           NEW s \in Slots, InTransit(s), OthersKept(s), ~InTransit(s)',
           NEW c \in Chains, NEW k \in Contracts, NEW t, NEW class,
           NEW u \in Users \cup {Bridge},
           OwnerBecomes(c, k, t, u), StillNamed,
           ClassOfContract(c, k)' = class,
           CarriedNft(s) = NftOf(c, class, t),
           \/ c = Dest(packets[s]).chain /\ u = packets[s].receiver
           \/ /\ c = packets[s].src.chain /\ u = packets[s].sender
              /\ u \in Users
    PROVE  SingleClaim' /\ AbstractStep
<1> DEFINE m == CarriedNft(s)
           p == packets[s]
           place == IF u \in Users THEN Abstract!Held(c, u) ELSE Abstract!Gone
           link == <<p.src.chain, Dest(p).chain>>
<1>1. ASSUME NEW n \in DOMAIN NativeNfts
      PROVE  /\ Single(n)'
             /\ n # m => Whereabouts(n)' = Whereabouts(n)
             /\ n = m => /\ Whereabouts(n) = PacketPlace(p)
                         /\ Whereabouts(n)' = place
  BY TransitEnds
<1>2. PacketPlace(p) = Abstract!Transit(link, p.sender, p.receiver)
  BY DEF PacketPlace
<1> HIDE DEF m, place
<1>3. ASSUME m \in DOMAIN NativeNfts, Abstract!Move(m, place)
      PROVE  Abstract!Arrive(m) \/ Abstract!Vanish(m) \/ Abstract!Return(m)
  <2>1. Whereabouts(m) = [state |-> "transit", link |-> link,
                          sender |-> p.sender, receiver |-> p.receiver]
    BY <1>1, <1>2, <1>3 DEF Abstract!Transit
  <2>2. /\ Whereabouts(m).state = "transit" /\ Whereabouts(m).link = link
        /\ Whereabouts(m).sender = p.sender
        /\ Whereabouts(m).receiver = p.receiver
    BY <2>1
  <2>3. link[1] = p.src.chain /\ link[2] = Dest(p).chain
    OBVIOUS
  <2> HIDE DEF p, link
  <2>4. CASE c = link[2] /\ u = p.receiver /\ u \in Users
    BY <1>3, <2>2, <2>4 DEF Abstract!Arrive, place
  <2>5. CASE c = link[1] /\ u = p.sender /\ u \in Users
    BY <1>3, <2>2, <2>5 DEF Abstract!Return, place
  <2>6. CASE u = p.receiver /\ u \notin Users
    BY <1>3, <2>2, <2>6 DEF Abstract!Vanish, place
  <2> QED BY <2>3, <2>4, <2>5, <2>6 DEF p
<1> QED BY <1>1, <1>3, OneMove

\* A written acknowledgement does not change where the token is between.
LEMMA AckJourney ==
    \A s, result : PhaseBecomes(s, result) =>
      SameJourney(s) /\ CarriedNft(s)' = CarriedNft(s)
BY DEF PhaseBecomes, SameJourney, CarriedNft

\* The registered contract of a class has this class.
LEMMA ClassBack ==
    ASSUME RegistryInv, NEW c \in Chains, NEW class, Has(nftContract[c], class)
    PROVE  /\ nftContract[c][class] \in Contracts
           /\ ClassOfContract(c, nftContract[c][class]) = class
BY DEF RegistryInv, TypeOK, RegistryType, RegistryInverse, IsMap, Has,
       ClassOfContract

\* A packet that is refused, or whose submessage fails, keeps its token.
LEMMA RefusedIsStutter ==
    ASSUME RegistryInv, SingleClaim, NEW s \in Slots, packets[s] # NoPacket,
           packets[s].phase = "sent", WriteAck(s, "fail"),
           UNCHANGED <<ledger, nftClass>>
    PROVE  SingleClaim' /\ AbstractStep
<1>1. PacketType
  BY DEF RegistryInv, TypeOK
<1>2. /\ OthersKept(s) /\ SameJourney(s) /\ CarriedNft(s)' = CarriedNft(s)
      /\ packets'[s] # NoPacket /\ packets'[s].phase = "fail"
  BY <1>1, AckPoint, AckJourney DEF PhaseBecomes
<1>3. InTransit(s) /\ InTransit(s)'
  BY <1>2 DEF InTransit
<1>4. \A n : Holdings(n)' = Holdings(n)
  BY NamesUnchanged, HoldingsSame
<1>5. \A x, y, z : Who(x, y, z)' = Who(x, y, z)
  BY DEF Who, Exists
<1> QED BY <1>2, <1>3, <1>4, <1>5, NothingMoves

\* Redeeming a voucher is an arrival.
LEMMA RedeemIsArrive ==
    ASSUME RegistryInv, SingleClaim, NEW s \in Slots, packets[s] # NoPacket,
           packets[s].phase = "sent", RedeemVoucher(s)
    PROVE  SingleClaim' /\ AbstractStep
<1>1. LedgerType /\ PacketType
  BY DEF RegistryInv, TypeOK
<1>2. PICK d, class, k, t, u :
        /\ d = Dest(packets[s]).chain /\ class = Unprefixed(packets[s].class)
        /\ k = nftContract[d][class] /\ t = packets[s].token
        /\ u = packets[s].receiver
  OBVIOUS
<1>3. /\ packets[s].src \in Endpoints /\ packets[s].class \in ClassId
      /\ Dest(packets[s]) = Peer[packets[s].src]
      /\ d \in Chains /\ u \in Users \cup {Bridge, BadAddr}
  BY <1>1, <1>2, PacketFacts DEF Dest
<1>4. /\ u \in Users \cup {Bridge}
      /\ HasPrefix(PrefixOf(packets[s].src), packets[s].class)
      /\ UNCHANGED nftClass
      /\ \/ WriteAck(s, "fail") /\ UNCHANGED ledger
         \/ /\ CanRedeem(d, class, t) /\ Cw721Transfer(d, k, t, u)
            /\ WriteAck(s, "ok")
  BY <1>2, <1>3 DEF RedeemVoucher, Accepts, ReturningHere, registry
<1>5. CASE WriteAck(s, "fail") /\ UNCHANGED ledger
  BY <1>4, <1>5, RefusedIsStutter
<1>6. CASE /\ CanRedeem(d, class, t) /\ Cw721Transfer(d, k, t, u)
           /\ WriteAck(s, "ok")
  <2>1. k \in Contracts /\ ClassOfContract(d, k) = class /\ Exists(d, k, t)
    BY <1>2, <1>3, <1>6, ClassBack DEF CanRedeem, OwnedBy
  <2>2. StillNamed /\ ClassOfContract(d, k)' = class
    <3>1. StillNamed
      BY <1>4, NamesUnchanged
    <3> QED BY <1>3, <2>1, <3>1 DEF StillNamed
  <2>3. OwnerBecomes(d, k, t, u)
    BY <1>1, <1>3, <1>6, <2>1, TransferPoint
  <2>4. OthersKept(s) /\ packets'[s].phase = "ok"
    BY <1>1, <1>6, AckPoint DEF PhaseBecomes
  <2>5. InTransit(s) /\ ~InTransit(s)'
    BY <2>4 DEF InTransit
  <2>6. Home(packets[s].src.chain, packets[s].class) = Home(d, class)
    BY <1>2, <1>3, <1>4, HomeReturning
  <2>7. CarriedNft(s) = NftOf(d, class, t)
    BY <1>2, <2>6 DEF CarriedNft, NftOf, Unprefixed
  <2> QED BY <1>2, <1>3, <1>4, <2>1, <2>2, <2>3, <2>4, <2>5, <2>7, Delivered
<1> QED BY <1>4, <1>5, <1>6

\* Minting a voucher is an arrival: its class leads to where the class of the
\* packet does.
LEMMA MintIsArrive ==
    ASSUME RegistryInv, SingleClaim, NEW s \in Slots, packets[s] # NoPacket,
           packets[s].phase = "sent", WriteAck(s, "ok"),
           NEW d \in Chains, NEW class, NEW k \in Contracts, NEW t,
           NEW u \in Users \cup {Bridge}, NEW uri,
           d = Dest(packets[s]).chain,
           class = Prefixed(PrefixOf(Dest(packets[s])), packets[s].class),
           t = packets[s].token, u = packets[s].receiver,
           ~Exists(d, k, t), Cw721Mint(d, k, t, u, uri),
           StillNamed, ClassOfContract(d, k)' = class
    PROVE  SingleClaim' /\ AbstractStep
<1>1. LedgerType /\ PacketType
  BY DEF RegistryInv, TypeOK
<1>2. /\ packets[s].src \in Endpoints /\ packets[s].class \in ClassId
      /\ Dest(packets[s]) \in Endpoints
      /\ Peer[Dest(packets[s])] = packets[s].src
  BY <1>1, PacketFacts, NetworkAssumption DEF Dest
<1>3. OwnerBecomes(d, k, t, u)
  BY <1>1, MintPoint
<1>4. OthersKept(s) /\ packets'[s].phase = "ok"
  BY <1>1, AckPoint DEF PhaseBecomes
<1>5. InTransit(s) /\ ~InTransit(s)'
  BY <1>4 DEF InTransit
<1>6. Home(packets[s].src.chain, packets[s].class) = Home(d, class)
  BY <1>2, HomePrefixed
<1>7. CarriedNft(s) = NftOf(d, class, t)
  BY <1>6 DEF CarriedNft, NftOf, Prefixed
<1> QED BY <1>3, <1>4, <1>5, <1>7, Delivered

LEMMA CreateIsArrive ==
    ASSUME RegistryInv, SingleClaim, NEW s \in Slots, packets[s] # NoPacket,
           packets[s].phase = "sent", CreateVoucher(s)
    PROVE  SingleClaim' /\ AbstractStep
<1>1. LedgerType /\ PacketType
  BY DEF RegistryInv, TypeOK
<1>2. PICK d, class, t, u, p :
        /\ p = packets[s] /\ d = Dest(p).chain
        /\ class = Prefixed(PrefixOf(Dest(p)), p.class)
        /\ t = p.token /\ u = p.receiver
  OBVIOUS
<1>3. d \in Chains /\ u \in Users \cup {Bridge, BadAddr} /\ p.class \in ClassId
      /\ Dest(p) \in Endpoints
  BY <1>1, <1>2, PacketFacts
<1>4. /\ u \in Users \cup {Bridge}
      /\ \/ callback_create_vouchers(d, class, p) /\ WriteAck(s, "ok")
         \/ WriteAck(s, "fail") /\ UNCHANGED <<ledger, nftClass>>
  BY <1>2, <1>3 DEF CreateVoucher, Accepts, registry
<1>5. CASE WriteAck(s, "fail") /\ UNCHANGED <<ledger, nftClass>>
  BY <1>5, RefusedIsStutter
<1>6. CASE /\ callback_create_vouchers(d, class, p) /\ WriteAck(s, "ok")
           /\ Has(nftContract[d], class)
  <2>1. PICK k : k = nftContract[d][class]
    OBVIOUS
  <2>2. /\ ~Exists(d, k, t) /\ Cw721Mint(d, k, t, u, p.uri)
        /\ UNCHANGED nftClass
    BY <1>2, <1>6, <2>1 DEF callback_create_vouchers, callback_mint
  <2>3. k \in Contracts /\ ClassOfContract(d, k) = class
    BY <1>3, <1>6, <2>1, ClassBack
  <2>4. StillNamed /\ ClassOfContract(d, k)' = class
    BY <2>2, <2>3, NamesUnchanged DEF ClassOfContract
  <2> QED BY <1>2, <1>3, <1>4, <1>6, <2>2, <2>3, <2>4, MintIsArrive
<1>7. CASE /\ callback_create_vouchers(d, class, p) /\ WriteAck(s, "ok")
           /\ ~Has(nftContract[d], class)
  <2>1. PICK k \in VoucherAddrs \ DOMAIN nftClass[d] :
          reply_instantiate_cw721(d, class, k) /\ callback_mint(d, class, k, p)
    BY <1>7 DEF callback_create_vouchers
  <2>2. /\ ~Exists(d, k, t) /\ Cw721Mint(d, k, t, u, p.uri)
        /\ nftClass' = [nftClass EXCEPT ![d] = Save(@, k, class)]
    BY <1>2, <2>1 DEF reply_instantiate_cw721, callback_mint
  <2>3. k \in Contracts /\ k \notin Collections /\ k \notin DOMAIN nftClass[d]
    BY <2>1, AddrsAssumption DEF Contracts
  <2>4. StillNamed /\ ClassOfContract(d, k)' = class
    BY <1>3, <2>2, <2>3, NamesRegistered
  <2> QED BY <1>2, <1>3, <1>4, <1>7, <2>2, <2>3, <2>4, MintIsArrive
<1> QED BY <1>4, <1>5, <1>6, <1>7

\* Handing the token back to its sender is a return.
LEMMA FailIsReturn ==
    ASSUME RegistryInv, SingleClaim, NEW s \in Slots, InTransit(s),
           handle_packet_fail(s)
    PROVE  SingleClaim' /\ AbstractStep
<1>1. LedgerType /\ PacketType /\ packets[s] # NoPacket
  BY DEF RegistryInv, TypeOK, InTransit
<1>2. PICK c, class, k, t, u :
        /\ c = packets[s].src.chain /\ class = packets[s].class
        /\ k = nftContract[c][class] /\ t = packets[s].token
        /\ u = packets[s].sender
  OBVIOUS
<1>3. c \in Chains /\ u \in Users
  BY <1>1, <1>2, PacketFacts
<1>4. /\ Has(nftContract[c], class) /\ Exists(c, k, t)
      /\ Cw721Transfer(c, k, t, u) /\ Forget(s) /\ UNCHANGED nftClass
  BY <1>2 DEF handle_packet_fail, OwnedBy, registry
<1>5. k \in Contracts /\ ClassOfContract(c, k) = class
  BY <1>2, <1>3, <1>4, ClassBack
<1>6. StillNamed /\ ClassOfContract(c, k)' = class
  BY <1>4, <1>5, NamesUnchanged DEF ClassOfContract
<1>7. OwnerBecomes(c, k, t, u)
  BY <1>1, <1>3, <1>4, TransferPoint
<1>8. OthersKept(s) /\ ~InTransit(s)'
  BY <1>1, <1>4, ForgetPoint DEF InTransit
<1>9. CarriedNft(s) = NftOf(c, class, t)
  BY <1>2 DEF CarriedNft
<1> QED BY <1>2, <1>3, <1>5, <1>6, <1>7, <1>8, <1>9, Delivered

\* A success settles what has happened already: the voucher that is burned was
\* nobody's claim any more.
LEMMA AckIsStutter ==
    ASSUME RegistryInv, SingleClaim, NEW s \in Slots, packets[s] # NoPacket,
           packets[s].phase = "ok", AckSuccess(s)
    PROVE  SingleClaim' /\ AbstractStep
<1>1. LedgerType /\ PacketType
  BY DEF RegistryInv, TypeOK
<1>2. PICK c, class, k, t :
        /\ c = packets[s].src.chain /\ class = packets[s].class
        /\ k = nftContract[c][class] /\ t = packets[s].token
  OBVIOUS
<1>3. c \in Chains
  BY <1>1, <1>2, PacketFacts
<1>4. /\ Has(nftContract[c], class) /\ Forget(s) /\ UNCHANGED nftClass
      /\ \/ UNCHANGED ledger
         \/ OwnedBy(c, k, t, Bridge) /\ Cw721Burn(c, k, t)
  BY <1>2 DEF AckSuccess, registry
<1>5. OthersKept(s) /\ ~InTransit(s) /\ ~InTransit(s)'
  BY <1>1, <1>4, ForgetPoint DEF InTransit
<1>6. StillNamed
  BY <1>4, NamesUnchanged
<1>7. CASE UNCHANGED ledger
  <2>1. \A n : Holdings(n)' = Holdings(n)
    BY <1>6, <1>7, HoldingsSame
  <2>2. \A x, y, z : Who(x, y, z)' = Who(x, y, z)
    BY <1>7 DEF Who, Exists
  <2> QED BY <1>5, <2>1, <2>2, NothingMoves
<1>8. CASE OwnedBy(c, k, t, Bridge) /\ Cw721Burn(c, k, t)
  <2>1. OwnerBecomes(c, k, t, None) /\ None \notin Users /\ Bridge \notin Users
    BY <1>1, <1>3, <1>8, BurnPoint, AddrsAssumption
  <2>2. Who(c, k, t) = Bridge
    BY <1>8 DEF Who, OwnedBy
  <2>3. k \in Contracts /\ ClassOfContract(c, k) = class
    BY <1>2, <1>3, <1>4, ClassBack
  <2>4. ClassOfContract(c, k)' = class
    BY <1>4, <2>3 DEF ClassOfContract
  <2>5. ASSUME NEW n
        PROVE  /\ Holdings(n)' = Holdings(n)
               /\ \A ck \in Holdings(n) :
                    Who(ck[1], ck[2], n[3])' = Who(ck[1], ck[2], n[3])
    <3>1. n[3] = t => <<c, k>> \notin Holdings(n)
      BY <2>1, <2>2, HoldingsWho
    <3>2. Holdings(n)' = Holdings(n)
      <4>1. CASE n # NftOf(c, class, t)
        BY <1>3, <1>6, <2>1, <2>3, <2>4, <4>1, HoldingsAfter
      <4>2. CASE n = NftOf(c, class, t)
        <5>1. Holdings(n)' = Holdings(n) \ {<<c, k>>}
          BY <1>3, <1>6, <2>1, <2>3, <2>4, <4>2, HoldingsAfter
        <5>2. n[3] = t
          BY <4>2 DEF NftOf
        <5> QED BY <3>1, <5>1, <5>2
      <4> QED BY <4>1, <4>2
    <3>3. ASSUME NEW ck \in Holdings(n)
          PROVE  Who(ck[1], ck[2], n[3])' = Who(ck[1], ck[2], n[3])
      <4>1. ck \in Chains \X Contracts
        BY HoldingsWho
      <4>2. ~(ck[1] = c /\ ck[2] = k /\ n[3] = t)
        BY <3>1, <4>1
      <4> QED BY <2>1, <4>1, <4>2 DEF OwnerBecomes
    <3> QED BY <3>2, <3>3
  <2> QED BY <1>5, <2>5, NothingMoves
<1> QED BY <1>4, <1>7, <1>8

\* TransferNft is a gift, Burn a burn.
LEMMA OwnIsGiveOrBurn ==
    ASSUME RegistryInv, SingleClaim, NEW c \in Chains, NEW k \in Contracts,
           NEW t \in Tokens, NEW u \in Users,
           Burn(c, k, t, u) \/ \E v \in Users : TransferNft(c, k, t, u, v)
    PROVE  SingleClaim' /\ AbstractStep
<1>1. /\ LedgerType /\ Exists(c, k, t) /\ Who(c, k, t) = u
      /\ packets' = packets /\ UNCHANGED nftClass
      /\ None \notin Users
  BY AddrsAssumption
     DEF RegistryInv, TypeOK, Burn, TransferNft, OwnedBy, Who, bridgeState,
         registry
<1>2. PICK w \in Users \cup {None} : OwnerBecomes(c, k, t, w)
  <2>1. CASE Burn(c, k, t, u)
    BY <1>1, <2>1, BurnPoint DEF Burn
  <2>2. CASE \E v \in Users : TransferNft(c, k, t, u, v)
    BY <1>1, <2>2, TransferPoint DEF TransferNft
  <2> QED BY <2>1, <2>2
<1>3. PICK class : class = ClassOfContract(c, k)
  OBVIOUS
<1>4. StillNamed /\ ClassOfContract(c, k)' = class
  BY <1>1, <1>3, NamesUnchanged DEF ClassOfContract
<1> DEFINE m == NftOf(c, class, t)
           place == IF w = None THEN Abstract!Gone ELSE Abstract!Held(c, w)
<1>5. ASSUME NEW n \in DOMAIN NativeNfts
      PROVE  /\ Single(n)'
             /\ n # m => Whereabouts(n)' = Whereabouts(n)
             /\ n = m => /\ Whereabouts(n) = Abstract!Held(c, u)
                         /\ Whereabouts(n)' = place
  BY <1>1, <1>2, <1>4, HeldToHeld
<1> HIDE DEF m, place
<1>6. ASSUME m \in DOMAIN NativeNfts, Abstract!Move(m, place)
      PROVE  Abstract!Give(m) \/ Abstract!Burn(m)
  <2>1. Whereabouts(m) = [state |-> "held", chain |-> c, owner |-> u]
    BY <1>5, <1>6 DEF Abstract!Held
  <2>2. Whereabouts(m).state = "held" /\ Whereabouts(m).chain = c
    BY <2>1
  <2>3. CASE w = None
    BY <1>6, <2>2, <2>3 DEF Abstract!Burn, place
  <2>4. CASE w \in Users
    <3>1. place = Abstract!Held(c, w)
      BY <1>1, <2>4 DEF place
    <3> QED BY <1>6, <2>2, <2>4, <3>1 DEF Abstract!Give
  <2> QED BY <2>3, <2>4
<1> QED BY <1>5, <1>6, OneMove

\* Governance, and other systems, do not move NFTs.
LEMMA ElseIsStutter ==
    ASSUME SingleClaim, UNCHANGED <<ledger, nftClass, packets>>
    PROVE  SingleClaim' /\ AbstractStep
<1>1. \A n : Holdings(n)' = Holdings(n)
  BY NamesUnchanged, HoldingsSame
<1>2. \A x, y, z : Who(x, y, z)' = Who(x, y, z)
  BY DEF Who, Exists
<1>3. \A n : Carriers(n)' = Carriers(n)
  BY DEF Carriers, InTransit
<1>4. \A n : \A s \in Carriers(n) : SameJourney(s)
  BY DEF SameJourney
<1>5. ASSUME NEW n \in DOMAIN NativeNfts
      PROVE  Single(n)' /\ Whereabouts(n)' = Whereabouts(n)
  <2>1. Single(n)
    BY DEF SingleClaim
  <2> QED BY <1>1, <1>2, <1>3, <1>4, <2>1, WhereSame
<1> QED BY <1>5, NoMove

LEMMA AbstractStepHolds ==
    ASSUME RegistryInv, SingleClaim, [Next]_vars
    PROVE  SingleClaim' /\ AbstractStep
<1>1. CASE Send
  BY <1>1, SendIsDepart
     DEF Send, execute_receive_nft, execute_receive_proxy_nft
<1>2. ASSUME NEW s \in Slots, ibc_packet_receive(s)
      PROVE  SingleClaim' /\ AbstractStep
  <2>1. packets[s] # NoPacket /\ packets[s].phase = "sent"
    BY <1>2 DEF ibc_packet_receive
  <2>2. CASE RejectPacket(s)
    BY <2>1, <2>2, RefusedIsStutter DEF RejectPacket, bridgeState, registry
  <2>3. CASE RedeemVoucher(s)
    BY <2>1, <2>3, RedeemIsArrive
  <2>4. CASE CreateVoucher(s)
    BY <2>1, <2>4, CreateIsArrive
  <2> QED BY <1>2, <2>2, <2>3, <2>4 DEF ibc_packet_receive
<1>3. ASSUME NEW s \in Slots, ibc_packet_timeout(s)
      PROVE  SingleClaim' /\ AbstractStep
  BY <1>3, FailIsReturn DEF ibc_packet_timeout, InTransit
<1>4. ASSUME NEW s \in Slots, ibc_packet_ack(s)
      PROVE  SingleClaim' /\ AbstractStep
  <2>1. packets[s] # NoPacket /\ packets[s].phase \in {"ok", "fail"}
    BY <1>4 DEF ibc_packet_ack
  <2>2. CASE packets[s].phase = "fail"
    <3>1. handle_packet_fail(s) /\ InTransit(s)
      BY <1>4, <2>1, <2>2 DEF ibc_packet_ack, AckError, InTransit
    <3> QED BY <3>1, FailIsReturn
  <2>3. CASE packets[s].phase = "ok"
    <3>1. AckSuccess(s)
      BY <1>4, <2>1, <2>3 DEF ibc_packet_ack, AckError
    <3> QED BY <2>1, <2>3, <3>1, AckIsStutter
  <2> QED BY <2>1, <2>2, <2>3
<1>5. CASE Own
  BY <1>5, OwnIsGiveOrBurn DEF Own
<1>6. CASE Govern
  <2>1. UNCHANGED <<ledger, nftClass, packets>>
    BY <1>6 DEF Govern, execute_pause, migrate, bridgeState, registry
  <2> QED BY <2>1, ElseIsStutter
<1>7. CASE UNCHANGED vars
  <2>1. UNCHANGED <<ledger, nftClass, packets>>
    BY <1>7 DEF vars, bridgeState, registry
  <2> QED BY <2>1, ElseIsStutter
<1> QED BY <1>1, <1>2, <1>3, <1>4, <1>5, <1>6, <1>7 DEF Next, Relay

\* In the beginning, every NFT is held by its first owner on its home chain.
LEMMA AbstractInit == Init => SingleClaim /\ Abstract!Init
<1> SUFFICES ASSUME Init PROVE SingleClaim /\ Abstract!Init
  OBVIOUS
<1>1. \A x \in Chains : ledger[x] =
        [kt \in NativeKeys(x) |-> NativeNfts[<<x, kt[1], kt[2]>>]]
  BY DEF Init
<1>2. ASSUME NEW x \in Chains, NEW y, NEW z, Exists(x, y, z)
      PROVE  /\ y \in Collections /\ <<x, y, z>> \in DOMAIN NativeNfts
             /\ Who(x, y, z) = NativeNfts[<<x, y, z>>].owner
             /\ NftOf(x, ClassOfContract(x, y), z) = <<x, y, z>>
  <2>1. <<y, z>> \in NativeKeys(x)
    BY <1>1, <1>2 DEF Exists
  <2>2. y \in Collections /\ <<x, y, z>> \in DOMAIN NativeNfts
    BY <2>1 DEF NativeKeys
  <2>3. ledger[x][<<y, z>>] = NativeNfts[<<x, y, z>>]
    BY <1>1, <2>1
  <2>4. Who(x, y, z) = NativeNfts[<<x, y, z>>].owner
    BY <1>2, <2>3 DEF Who
  <2>5. nftClass[x] = EmptyMap
    BY DEF Init
  <2>6. ClassOfContract(x, y) = LocalClass(y)
    BY <2>5 DEF ClassOfContract, EmptyMap, Has
  <2>7. NftOf(x, ClassOfContract(x, y), z) = <<x, y, z>>
    BY <2>2, <2>6, LocalClassType, HomeLocal DEF NftOf
  <2> QED BY <2>2, <2>4, <2>7
<1>3. ASSUME NEW n \in DOMAIN NativeNfts
      PROVE  Single(n) /\ Whereabouts(n) = Abstract!Held(n[1], NativeNfts[n].owner)
  <2>1. PICK c \in Chains, k \in Collections, t \in Tokens : n = <<c, k, t>>
    BY NativesAssumption
  <2>2. k \in Contracts
    BY DEF Contracts
  <2>3. <<k, t>> \in NativeKeys(c)
    BY <2>1 DEF NativeKeys
  <2>4. Exists(c, k, t)
    BY <1>1, <2>3 DEF Exists
  <2>5. Who(c, k, t) = NativeNfts[n].owner /\ NativeNfts[n].owner \in Users
    BY <1>2, <2>1, <2>4, NativesAssumption
  <2>6. NftOf(c, ClassOfContract(c, k), t) = n
    BY <1>2, <2>1, <2>4
  <2>7. <<c, k>> \in Holdings(n)
    BY <2>1, <2>2, <2>5, <2>6, HoldingsWho
  <2>8. ASSUME NEW ck \in Holdings(n)
        PROVE  ck = <<c, k>>
    <3>1. /\ ck \in Chains \X Contracts /\ Who(ck[1], ck[2], n[3]) \in Users
          /\ n = NftOf(ck[1], ClassOfContract(ck[1], ck[2]), n[3])
      BY HoldingsWho
    <3>2. Exists(ck[1], ck[2], n[3])
      BY <3>1, AddrsAssumption DEF Who
    <3>3. n = <<ck[1], ck[2], n[3]>>
      BY <1>2, <3>1, <3>2
    <3> QED BY <2>1, <3>1, <3>3
  <2>9. Holdings(n) = {<<c, k>>}
    BY <2>7, <2>8
  <2>10. Carriers(n) = {}
    BY CarriersNft DEF Init, InTransit
  <2>11. Single(n)
    BY <2>9, <2>10 DEF Single
  <2> QED BY <2>1, <2>4, <2>5, <2>9, <2>11, WhereHeld
<1>4. SingleClaim
  BY <1>3 DEF SingleClaim
<1>5. Abstract!Init
  BY <1>3 DEF Abstract!Init, HomeOf, FirstOwner
<1> QED BY <1>4, <1>5

\* However packets are delivered, refused, timed out and acknowledged, and
\* whatever the collections do, no NFT is ever in two hands: the escrow, the
\* vouchers and the packets of all bridges together hold one claim to it.
THEOREM OneClaimCorrect == Spec => []OneClaim
<1>1. Init => RegistryInv /\ SingleClaim
  BY RegistryInvInit, AbstractInit
<1>2. RegistryInv /\ SingleClaim /\ [Next]_vars => (RegistryInv /\ SingleClaim)'
  BY RegistryInvStep, AbstractStepHolds
<1>3. RegistryInv /\ SingleClaim => OneClaim
  BY SingleIsOne
<1> QED BY <1>1, <1>2, <1>3, PTL DEF Spec

\* The bridges implement NftTransfer: receive_nft is a departure, redeeming and
\* minting are arrivals, handle_packet_fail is a return, and nothing else that a
\* bridge does moves an NFT.
THEOREM RefinementCorrect == Spec => ImplementsNftTransfer
<1>1. Init => RegistryInv /\ SingleClaim /\ Abstract!Init
  BY RegistryInvInit, AbstractInit
<1>2. RegistryInv /\ SingleClaim /\ [Next]_vars => (RegistryInv /\ SingleClaim)'
  BY RegistryInvStep, AbstractStepHolds
<1>3. RegistryInv /\ SingleClaim /\ [Next]_vars => [Abstract!Next]_Places
  BY AbstractStepHolds DEF AbstractStep
<1> QED BY <1>1, <1>2, <1>3, PTL
        DEF Spec, ImplementsNftTransfer, Abstract!Spec, Places
=============================================================================
