----------------------------- MODULE MCIcs721 ------------------------------
(***************************************************************************)
(* Small networks for TLC.  Every bridge has the same port and every chain *)
(* the same channel names, as chains that count their channels from zero   *)
(* do: nothing in a prefix tells two chains apart.                         *)
(***************************************************************************)
EXTENDS Ics721Refinement, TLC

CONSTANTS juno, stars, osmo,          \* chains
          port, ch0, ch1,
          punks,                      \* a collection
          t1, alice, bob, uri1,
          v1, v2, v3, v4,             \* addresses for voucher contracts
          s1, s2,                     \* packets
          gov, prox                   \* a pauser and a proxy

End(chain, channel) == [chain |-> chain, channel |-> channel]

\* The symmetric closure of one end of every channel.
Link(half) ==
    [e \in DOMAIN half \cup {half[x] : x \in DOMAIN half} |->
       IF e \in DOMAIN half THEN half[e]
       ELSE CHOOSE x \in DOMAIN half : half[x] = e]

SamePort == [x \in Chains |-> port]

\* Two chains and one channel, whose ends have the same name.
OneChannel == Link(End(juno, ch0) :> End(stars, ch0))

\* Two chains and two channels: ch0 of each is connected to ch1 of the other.
CrossedChannels ==
    Link(End(juno, ch0) :> End(stars, ch1) @@ End(juno, ch1) :> End(stars, ch0))

\* Three chains in a line.
LineOfThree ==
    Link(End(juno, ch0) :> End(stars, ch0) @@ End(stars, ch1) :> End(osmo, ch0))

\* alice owns a token on juno ...
OneNative == <<juno, punks, t1>> :> [owner |-> alice, uri |-> uri1]

\* ... or one on either chain: contracts of the same address, tokens of the
\* same name, which the prefixes alone keep apart.
Namesakes == OneNative @@ <<stars, punks, t1>> :> [owner |-> alice, uri |-> None]

Symmetry == Permutations(VoucherAddrs) \cup Permutations(Slots)
============================================================================
