------------------------ MODULE PacketReceiveProofs -------------------------
(***************************************************************************)
(* For a bridge with any number of channels, packets of any number of      *)
(* tokens and any honest counterparties.                                   *)
(***************************************************************************)
EXTENDS PacketReceive, PacketDataProofs, WellFoundedInduction

(***************************************************************************)
(* Loops.  Every loop of the code is a fold, and the provers cannot be     *)
(* given the operator that it folds with.  What the six loops do with one  *)
(* item is therefore put into one operator, Step, and the existence of     *)
(* their intermediate results is shown once.                               *)
(***************************************************************************)
SelectStep(m, acc, item) ==
    IF returning_to_source(acc.outgoing, m.data.class_id, item[1][1], m.src,
                           m.channel)
    THEN Redeem(acc, m.data.class_id, item[1][1])
    ELSE Create(acc, m.data.class_id, m.dest, m.channel, item[1][1],
                item[1][2], item[2])

SaveStep(class_id, w, tk) ==
    [w EXCEPT !.metadata = Save(@, <<class_id, tk.id>>, tk.data)]

Step(m, acc, x) ==
    CASE m.loop = "select" -> SelectStep(m, acc, x)
      [] m.loop = "aggregate" -> add_action(acc, x, m.data)
      [] m.loop = "redeem" -> Cw721Transfer(acc, m.k, x, Bridge, m.receiver)
      [] m.loop = "save" -> SaveStep(m.class_id, acc, x)
      [] m.loop = "mint" -> Cw721Mint(acc, m.k, x.id, m.receiver, x.uri)
      [] m.loop = "callback" -> execute_callback(acc, x)

\* A set of numbers that is not empty has a least one.
LEMMA LeastOf ==
    ASSUME NEW T \in SUBSET Nat, T # {}
    PROVE  \E x \in T : \A y \in T : x <= y
<1>1. \E x \in T : \A y \in T : <<y, x>> \notin OpToRel(<, Nat)
  BY NatLessThanWellFounded, WFMin, Zenon
<1>2. PICK x \in T : \A y \in T : <<y, x>> \notin OpToRel(<, Nat)
  BY <1>1, Zenon
<1>3. \A y \in T : ~(y < x)
  BY <1>2, Zenon DEF OpToRel
<1> QED BY <1>3

\* Induction, over a set in the place of a predicate.
LEMMA UpTo ==
    ASSUME NEW n \in Nat, NEW T, 0 \in T,
           \A i \in 1 .. n : i - 1 \in T => i \in T
    PROVE  \A i \in 0 .. n : i \in T
<1> DEFINE F == {i \in 0 .. n : i \notin T}
<1> SUFFICES ASSUME F # {} PROVE FALSE
  OBVIOUS
<1>0. F \in SUBSET Nat
  OBVIOUS
<1>1. PICK i \in F : \A j \in F : i <= j
  BY <1>0, LeastOf
<1>2. i \in 1 .. n /\ i - 1 \notin F
  BY <1>1
<1> QED BY <1>1, <1>2

\* iter is what FoldLeft recurs with: a function of the sets of positions.
IsIter(iter, m, base, seq, n) ==
    iter = [s \in SUBSET (1 .. n) |->
              IF s = {} THEN base
              ELSE Step(m, iter[s \ {SeqExt!Max(s)}], seq[SeqExt!Max(s)])]

LEMMA MaxIs ==
    ASSUME NEW n \in Nat, NEW s \in SUBSET (1 .. n), n \in s
    PROVE  SeqExt!Max(s) = n
<1>1. \A x \in s : (\A y \in s : x >= y) <=> x = n
  OBVIOUS
<1>2. \E x \in s : \A y \in s : x >= y
  BY <1>1
<1>3. SeqExt!Max(s) \in s /\ \A y \in s : SeqExt!Max(s) >= y
  BY <1>2, Zenon DEF SeqExt!Max
<1> QED BY <1>1, <1>3

LEMMA IterExists ==
    ASSUME NEW m, NEW base, NEW seq, NEW n \in Nat
    PROVE  \E iter : IsIter(iter, m, base, seq, n)
<1> DEFINE T == {i \in Nat : \E iter : IsIter(iter, m, base, seq, i)}
<1>1. 0 \in T
  <2> DEFINE it == [s \in SUBSET (1 .. 0) |-> base]
  <2>1. \A s \in SUBSET (1 .. 0) : s = {}
    OBVIOUS
  <2>2. IsIter(it, m, base, seq, 0)
    BY <2>1 DEF IsIter
  <2> QED BY <2>2
<1>2. ASSUME NEW i \in 1 .. n, i - 1 \in T PROVE i \in T
  <2>1. PICK g : IsIter(g, m, base, seq, i - 1)
    BY <1>2
  <2> DEFINE it == [s \in SUBSET (1 .. i) |->
                      IF i \in s THEN Step(m, g[s \ {i}], seq[i]) ELSE g[s]]
  <2>2. ASSUME NEW s \in SUBSET (1 .. i)
        PROVE  it[s] = IF s = {} THEN base
                       ELSE Step(m, it[s \ {SeqExt!Max(s)}], seq[SeqExt!Max(s)])
    <3>1. CASE i \in s
      <4>1. SeqExt!Max(s) = i
        BY <3>1, MaxIs
      <4>2. s \ {i} \in SUBSET (1 .. i) /\ it[s \ {i}] = g[s \ {i}]
        OBVIOUS
      <4> QED BY <3>1, <4>1, <4>2
    <3>2. CASE i \notin s
      <4>1. s \in SUBSET (1 .. i - 1) /\ it[s] = g[s]
        BY <3>2
      <4>2. g[s] = IF s = {} THEN base
                   ELSE Step(m, g[s \ {SeqExt!Max(s)}], seq[SeqExt!Max(s)])
        BY <2>1, <4>1 DEF IsIter
      <4>3. /\ s \ {SeqExt!Max(s)} \in SUBSET (1 .. i)
            /\ i \notin s \ {SeqExt!Max(s)}
        BY <3>2
      <4>4. it[s \ {SeqExt!Max(s)}] = g[s \ {SeqExt!Max(s)}]
        BY <4>3
      <4> QED BY <4>1, <4>2, <4>4
    <3> QED BY <3>1, <3>2
  <2>3. IsIter(it, m, base, seq, i)
    BY <2>2, Zenon DEF IsIter
  <2> QED BY <2>3
<1> HIDE DEF T
<1>3. n \in T
  BY <1>1, <1>2, UpTo
<1> QED BY <1>3 DEF T

\* The intermediate results of a loop over seq.
IsLoop(g, m, base, seq, n) ==
    /\ g[0] = base
    /\ \A i \in 1 .. n : g[i] = Step(m, g[i - 1], seq[i])

\* What FoldLeft computes is the last of them.
LEMMA LoopOfIter ==
    ASSUME NEW iter, NEW m, NEW base, NEW seq, NEW n \in Nat,
           IsIter(iter, m, base, seq, n)
    PROVE  \E g : IsLoop(g, m, base, seq, n) /\ g[n] = iter[1 .. n]
<1> DEFINE g == [i \in 0 .. n |-> iter[1 .. i]]
<1>1. g[0] = base
  <2>1. 1 .. 0 = {} /\ 1 .. 0 \in SUBSET (1 .. n)
    OBVIOUS
  <2>2. iter[1 .. 0] = base
    BY <2>1 DEF IsIter
  <2> QED BY <2>2
<1>2. ASSUME NEW i \in 1 .. n PROVE g[i] = Step(m, g[i - 1], seq[i])
  <2>1. /\ 1 .. i \in SUBSET (1 .. n) /\ 1 .. i # {} /\ i \in 1 .. i
        /\ (1 .. i) \ {i} = 1 .. i - 1
    OBVIOUS
  <2>2. SeqExt!Max(1 .. i) = i
    BY MaxIs
  <2>3. iter[1 .. i] = Step(m, iter[1 .. i - 1], seq[i])
    BY <2>1, <2>2 DEF IsIter
  <2>4. g[i] = iter[1 .. i] /\ g[i - 1] = iter[1 .. i - 1]
    OBVIOUS
  <2> QED BY <2>3, <2>4
<1>3. g[n] = iter[1 .. n]
  OBVIOUS
<1> QED BY <1>1, <1>2, <1>3 DEF IsLoop

LEMMA SelectLoop ==
    ASSUME NEW data, NEW out, NEW in, NEW src, NEW dest, NEW ch, NEW n \in Nat,
           DOMAIN Items(data) = 1 .. n
    PROVE  \E g, m :
             /\ m = [loop |-> "select", data |-> data, src |-> src,
                     dest |-> dest, channel |-> ch]
             /\ g[0] = [outgoing |-> out, incoming |-> in, actions |-> << >>]
             /\ \A i \in 1 .. n : g[i] = SelectStep(m, g[i - 1], Items(data)[i])
             /\ select_actions(data, out, in, src, dest, ch) = g[n]
<1> DEFINE items == Items(data)
           m == [loop |-> "select", data |-> data, src |-> src, dest |-> dest,
                 channel |-> ch]
           base == [outgoing |-> out, incoming |-> in, actions |-> << >>]
           Body(acc, item) ==
             LET id == item[1][1] IN
             IF returning_to_source(acc.outgoing, data.class_id, id, src, ch)
             THEN Redeem(acc, data.class_id, id)
             ELSE Create(acc, data.class_id, dest, ch, id, item[1][2], item[2])
           F(iter) == [s \in SUBSET (DOMAIN items) |->
                         IF s = {} THEN base
                         ELSE Body(iter[s \ {SeqExt!Max(s)}], items[SeqExt!Max(s)])]
           it == CHOOSE iter : iter = F(iter)
<1>1. \A a, x : Step(m, a, x) = Body(a, x)
  BY DEF Step, SelectStep
<1>2. select_actions(data, out, in, src, dest, ch) = it[DOMAIN items]
  BY Zenon DEF select_actions, SeqExt!FoldLeft, SeqExt!MapThenFoldSet
<1>3. \A a, x : SelectStep(m, a, x) = Body(a, x)
  BY DEF SelectStep
<1> HIDE DEF items, base, Body, m
<1>4. PICK iter : IsIter(iter, m, base, items, n)
  BY IterExists
<1>5. iter = F(iter)
  BY <1>1, <1>4, Zenon DEF IsIter, items
<1>6. it = F(it)
  BY <1>5, Zenon
<1>7. IsIter(it, m, base, items, n)
  BY <1>1, <1>6, Zenon DEF IsIter, items
<1> HIDE DEF it
<1>8. PICK g : IsLoop(g, m, base, items, n) /\ g[n] = it[1 .. n]
  BY <1>7, LoopOfIter
<1>9. \A i \in 1 .. n : g[i] = SelectStep(m, g[i - 1], items[i])
  BY <1>1, <1>3, <1>8 DEF IsLoop
<1> QED BY <1>2, <1>8, <1>9 DEF IsLoop, items, base, m

LEMMA AggregateLoop ==
    ASSUME NEW actions, NEW data, NEW n \in Nat,
           DOMAIN actions = 1 .. n
    PROVE  \E g : /\ g[0] = [redemption |-> None, creation |-> None]
                  /\ \A i \in 1 .. n : g[i] = add_action(g[i - 1], actions[i], data)
                  /\ Aggregate(actions, data) = g[n]
<1> DEFINE m == [loop |-> "aggregate", data |-> data]
           Body(a, x) == add_action(a, x, data)
           F(iter) ==
             [s \in SUBSET (DOMAIN actions) |->
                IF s = {} THEN [redemption |-> None, creation |-> None]
                ELSE Body(iter[s \ {SeqExt!Max(s)}], actions[SeqExt!Max(s)])]
           it == CHOOSE iter : iter = F(iter)
<1>1. \A a, x : Step(m, a, x) = Body(a, x)
  BY DEF Step
<1>2. Aggregate(actions, data) = it[DOMAIN actions]
  BY Zenon DEF Aggregate, SeqExt!FoldLeft, SeqExt!MapThenFoldSet
<1>3. \A i \in 1 .. n : \A a : Body(a, actions[i]) = add_action(a, actions[i], data)
  OBVIOUS
<1> HIDE DEF Body, m
<1>4. PICK iter : IsIter(iter, m, [redemption |-> None, creation |-> None], actions, n)
  BY IterExists
<1>5. iter = F(iter)
  BY <1>1, <1>4, Zenon DEF IsIter
<1>6. it = F(it)
  BY <1>5, Zenon
<1> HIDE DEF it
<1>7. IsIter(it, m, [redemption |-> None, creation |-> None], actions, n)
  BY <1>1, <1>6, Zenon DEF IsIter
<1>8. PICK g : IsLoop(g, m, [redemption |-> None, creation |-> None], actions, n) /\ g[n] = it[1 .. n]
  BY <1>7, LoopOfIter
<1>9. \A i \in 1 .. n : g[i] = add_action(g[i - 1], actions[i], data)
  BY <1>1, <1>3, <1>8 DEF IsLoop
<1>10. g[0] = [redemption |-> None, creation |-> None] /\ Aggregate(actions, data) = g[n]
  BY <1>2, <1>8 DEF IsLoop
<1> QED BY <1>9, <1>10, Zenon

LEMMA RedeemLoop ==
    ASSUME NEW w, NEW redeem, NEW k, NEW receiver,
           receiver # BadAddr, Has(w.nftContract, redeem.class.id),
           k = w.nftContract[redeem.class.id], NEW n \in Nat,
           DOMAIN redeem.token_ids = 1 .. n
    PROVE  \E g : /\ g[0] = w
                  /\ \A i \in 1 .. n : g[i] = Cw721Transfer(g[i - 1], k, redeem.token_ids[i], Bridge, receiver)
                  /\ callback_redeem_vouchers(w, receiver, redeem) = g[n]
<1> DEFINE m == [loop |-> "redeem", k |-> k, receiver |-> receiver]
           Body(a, x) == Cw721Transfer(a, k, x, Bridge, receiver)
           F(iter) ==
             [s \in SUBSET (DOMAIN redeem.token_ids) |->
                IF s = {} THEN w
                ELSE Body(iter[s \ {SeqExt!Max(s)}], redeem.token_ids[SeqExt!Max(s)])]
           it == CHOOSE iter : iter = F(iter)
<1>1. \A a, x : Step(m, a, x) = Body(a, x)
  BY DEF Step
<1>2. callback_redeem_vouchers(w, receiver, redeem) = it[DOMAIN redeem.token_ids]
  BY Zenon DEF callback_redeem_vouchers, SeqExt!FoldLeft, SeqExt!MapThenFoldSet
<1>3. \A i \in 1 .. n : \A a : Body(a, redeem.token_ids[i]) = Cw721Transfer(a, k, redeem.token_ids[i], Bridge, receiver)
  OBVIOUS
<1> HIDE DEF Body, m
<1>4. PICK iter : IsIter(iter, m, w, redeem.token_ids, n)
  BY IterExists
<1>5. iter = F(iter)
  BY <1>1, <1>4, Zenon DEF IsIter
<1>6. it = F(it)
  BY <1>5, Zenon
<1> HIDE DEF it
<1>7. IsIter(it, m, w, redeem.token_ids, n)
  BY <1>1, <1>6, Zenon DEF IsIter
<1>8. PICK g : IsLoop(g, m, w, redeem.token_ids, n) /\ g[n] = it[1 .. n]
  BY <1>7, LoopOfIter
<1>9. \A i \in 1 .. n : g[i] = Cw721Transfer(g[i - 1], k, redeem.token_ids[i], Bridge, receiver)
  BY <1>1, <1>3, <1>8 DEF IsLoop
<1>10. g[0] = w /\ callback_redeem_vouchers(w, receiver, redeem) = g[n]
  BY <1>2, <1>8 DEF IsLoop
<1> QED BY <1>9, <1>10, Zenon

LEMMA SaveLoop ==
    ASSUME NEW w, NEW class_id, NEW toks, NEW n \in Nat,
           DOMAIN toks = 1 .. n
    PROVE  \E g : /\ g[0] = w
                  /\ \A i \in 1 .. n : g[i] = SaveStep(class_id, g[i - 1], toks[i])
                  /\ SaveMetadata(w, class_id, toks) = g[n]
<1> DEFINE m == [loop |-> "save", class_id |-> class_id]
           Body(a, x) == SaveStep(class_id, a, x)
           F(iter) ==
             [s \in SUBSET (DOMAIN toks) |->
                IF s = {} THEN w
                ELSE Body(iter[s \ {SeqExt!Max(s)}], toks[SeqExt!Max(s)])]
           it == CHOOSE iter : iter = F(iter)
<1>1. \A a, x : Step(m, a, x) = Body(a, x)
  BY DEF Step
<1>2. SaveMetadata(w, class_id, toks) = it[DOMAIN toks]
  BY Zenon DEF SaveMetadata, SaveStep, SeqExt!FoldLeft, SeqExt!MapThenFoldSet
<1>3. \A i \in 1 .. n : \A a : Body(a, toks[i]) = SaveStep(class_id, a, toks[i])
  OBVIOUS
<1> HIDE DEF Body, m
<1>4. PICK iter : IsIter(iter, m, w, toks, n)
  BY IterExists
<1>5. iter = F(iter)
  BY <1>1, <1>4, Zenon DEF IsIter
<1>6. it = F(it)
  BY <1>5, Zenon
<1> HIDE DEF it
<1>7. IsIter(it, m, w, toks, n)
  BY <1>1, <1>6, Zenon DEF IsIter
<1>8. PICK g : IsLoop(g, m, w, toks, n) /\ g[n] = it[1 .. n]
  BY <1>7, LoopOfIter
<1>9. \A i \in 1 .. n : g[i] = SaveStep(class_id, g[i - 1], toks[i])
  BY <1>1, <1>3, <1>8 DEF IsLoop
<1>10. g[0] = w /\ SaveMetadata(w, class_id, toks) = g[n]
  BY <1>2, <1>8 DEF IsLoop
<1> QED BY <1>9, <1>10, Zenon

LEMMA MintLoop ==
    ASSUME NEW w, NEW class_id, NEW k, NEW receiver, NEW toks,
           receiver # BadAddr, k = w.nftContract[class_id], NEW n \in Nat,
           DOMAIN toks = 1 .. n
    PROVE  \E g : /\ g[0] = SaveMetadata(w, class_id, toks)
                  /\ \A i \in 1 .. n : g[i] = Cw721Mint(g[i - 1], k, toks[i].id, receiver, toks[i].uri)
                  /\ callback_mint(w, class_id, toks, receiver) = g[n]
<1> DEFINE m == [loop |-> "mint", k |-> k, receiver |-> receiver]
           Body(a, x) == Cw721Mint(a, k, x.id, receiver, x.uri)
           F(iter) ==
             [s \in SUBSET (DOMAIN toks) |->
                IF s = {} THEN SaveMetadata(w, class_id, toks)
                ELSE Body(iter[s \ {SeqExt!Max(s)}], toks[SeqExt!Max(s)])]
           it == CHOOSE iter : iter = F(iter)
<1>1. \A a, x : Step(m, a, x) = Body(a, x)
  BY DEF Step
<1>2. callback_mint(w, class_id, toks, receiver) = it[DOMAIN toks]
  BY Zenon DEF callback_mint, SeqExt!FoldLeft, SeqExt!MapThenFoldSet
<1>3. \A i \in 1 .. n : \A a : Body(a, toks[i]) = Cw721Mint(a, k, toks[i].id, receiver, toks[i].uri)
  OBVIOUS
<1> HIDE DEF Body, m
<1>4. PICK iter : IsIter(iter, m, SaveMetadata(w, class_id, toks), toks, n)
  BY IterExists
<1>5. iter = F(iter)
  BY <1>1, <1>4, Zenon DEF IsIter
<1>6. it = F(it)
  BY <1>5, Zenon
<1> HIDE DEF it
<1>7. IsIter(it, m, SaveMetadata(w, class_id, toks), toks, n)
  BY <1>1, <1>6, Zenon DEF IsIter
<1>8. PICK g : IsLoop(g, m, SaveMetadata(w, class_id, toks), toks, n) /\ g[n] = it[1 .. n]
  BY <1>7, LoopOfIter
<1>9. \A i \in 1 .. n : g[i] = Cw721Mint(g[i - 1], k, toks[i].id, receiver, toks[i].uri)
  BY <1>1, <1>3, <1>8 DEF IsLoop
<1>10. g[0] = SaveMetadata(w, class_id, toks) /\ callback_mint(w, class_id, toks, receiver) = g[n]
  BY <1>2, <1>8 DEF IsLoop
<1> QED BY <1>9, <1>10, Zenon

LEMMA CallbackLoop ==
    ASSUME NEW w, NEW operands, NEW n \in Nat,
           DOMAIN operands = 1 .. n
    PROVE  \E g : /\ g[0] = w
                  /\ \A i \in 1 .. n : g[i] = execute_callback(g[i - 1], operands[i])
                  /\ Conjunction(w, operands) = g[n]
<1> DEFINE m == [loop |-> "callback"]
           Body(a, x) == execute_callback(a, x)
           F(iter) ==
             [s \in SUBSET (DOMAIN operands) |->
                IF s = {} THEN w
                ELSE Body(iter[s \ {SeqExt!Max(s)}], operands[SeqExt!Max(s)])]
           it == CHOOSE iter : iter = F(iter)
<1>1. \A a, x : Step(m, a, x) = Body(a, x)
  BY DEF Step
<1>2. Conjunction(w, operands) = it[DOMAIN operands]
  BY Zenon DEF Conjunction, SeqExt!FoldLeft, SeqExt!MapThenFoldSet
<1>3. \A i \in 1 .. n : \A a : Body(a, operands[i]) = execute_callback(a, operands[i])
  OBVIOUS
<1> HIDE DEF Body, m
<1>4. PICK iter : IsIter(iter, m, w, operands, n)
  BY IterExists
<1>5. iter = F(iter)
  BY <1>1, <1>4, Zenon DEF IsIter
<1>6. it = F(it)
  BY <1>5, Zenon
<1> HIDE DEF it
<1>7. IsIter(it, m, w, operands, n)
  BY <1>1, <1>6, Zenon DEF IsIter
<1>8. PICK g : IsLoop(g, m, w, operands, n) /\ g[n] = it[1 .. n]
  BY <1>7, LoopOfIter
<1>9. \A i \in 1 .. n : g[i] = execute_callback(g[i - 1], operands[i])
  BY <1>1, <1>3, <1>8 DEF IsLoop
<1>10. g[0] = w /\ Conjunction(w, operands) = g[n]
  BY <1>2, <1>8 DEF IsLoop
<1> QED BY <1>9, <1>10, Zenon

(***************************************************************************)
(* Selection.  What the loop of receive_ibc_packet has done after i items, *)
(* in terms of CreatedAt, which is not a loop.                             *)
(***************************************************************************)
RedeemedAt(p) == DOMAIN p.data.token_ids \ CreatedAt(p)

RedeemedKeys(p, i) ==
    {<<Unprefixed(p.data.class_id), p.data.token_ids[j]>> :
       j \in RedeemedAt(p) \cap (1 .. i)}

CreatedKeys(p, i) ==
    {<<VoucherClass(p), p.data.token_ids[j]>> : j \in CreatedAt(p) \cap (1 .. i)}

TokenAt(p, j) ==
    [id |-> p.data.token_ids[j], uri |-> At(p.data.token_uris, j),
     data |-> At(p.data.token_data, j)]

ActionAt(p, j) ==
    IF j \in CreatedAt(p)
    THEN Creation(VoucherClass(p), p.data.token_ids[j], At(p.data.token_uris, j),
                  At(p.data.token_data, j))
    ELSE Redemption(Unprefixed(p.data.class_id), p.data.token_ids[j])

OutgoingAfter(p, i) ==
    [key \in DOMAIN outgoing \ RedeemedKeys(p, i) |-> outgoing[key]]

IncomingAfter(p, i) ==
    [key \in DOMAIN incoming \cup CreatedKeys(p, i) |->
       IF key \in CreatedKeys(p, i) THEN p.channel ELSE incoming[key]]

SelectedAfter(p, i) ==
    [outgoing |-> OutgoingAfter(p, i), incoming |-> IncomingAfter(p, i),
     actions |-> [j \in 1 .. i |-> ActionAt(p, j)]]

\* A position returns its token if the token is with the counterparty still:
\* the loop asks the map it is writing to, CreatedAt the positions before.
LEMMA ReturnsOnce ==
    ASSUME NEW p, NEW n \in Nat, DOMAIN p.data.token_ids = 1 .. n, NEW i \in 1 .. n
    PROVE  returning_to_source(OutgoingAfter(p, i - 1), p.data.class_id,
                               p.data.token_ids[i], Remote[p.channel], p.channel)
             <=> i \notin CreatedAt(p)
<1> DEFINE ids == p.data.token_ids
           x == Unprefixed(p.data.class_id)
           key == <<x, ids[i]>>
           Returns == ids[i] \in RedeemedBy(p)
           Before == {j \in 1 .. i - 1 : ids[j] = ids[i]}
<1>1. i \in CreatedAt(p) <=> ~Returns \/ Before # {}
  BY DEF CreatedAt
<1>2. Returns <=> /\ ClaimsSource(p) /\ Has(outgoing, key)
                  /\ outgoing[key] = p.channel
  BY DEF RedeemedBy, SeqExt!ToSet
<1>3. Returns => (key \in RedeemedKeys(p, i - 1) <=> Before # {})
  <2> SUFFICES ASSUME Returns
               PROVE  key \in RedeemedKeys(p, i - 1) <=> Before # {}
    OBVIOUS
  <2>1. ASSUME key \in RedeemedKeys(p, i - 1) PROVE Before # {}
    <3>1. PICK j \in RedeemedAt(p) \cap (1 .. i - 1) : key = <<x, ids[j]>>
      BY <2>1 DEF RedeemedKeys
    <3> QED BY <3>1
  <2>2. ASSUME Before # {} PROVE key \in RedeemedKeys(p, i - 1)
    <3>0. Before \in SUBSET Nat
      OBVIOUS
    <3>1. PICK j \in Before : \A y \in Before : j <= y
      BY <2>2, <3>0, LeastOf
    <3>2. j \in 1 .. n /\ ids[j] = ids[i] /\ j \in 1 .. i - 1
      OBVIOUS
    <3>3. \A y \in 1 .. j - 1 : ids[y] # ids[j]
      BY <3>1, <3>2
    <3>4. j \in RedeemedAt(p)
      BY <3>2, <3>3 DEF RedeemedAt, CreatedAt
    <3> QED BY <3>2, <3>4 DEF RedeemedKeys
  <2> QED BY <2>1, <2>2
<1>4. returning_to_source(OutgoingAfter(p, i - 1), p.data.class_id, ids[i],
                          Remote[p.channel], p.channel)
        <=> Returns /\ key \notin RedeemedKeys(p, i - 1)
  BY <1>2 DEF returning_to_source, OutgoingAfter, ClaimsSource, Has
<1> QED BY <1>1, <1>3, <1>4

\* A list of l items and one more.
LEMMA AppendIs ==
    ASSUME NEW l \in Nat, NEW f, f = [j \in 1 .. l |-> f[j]], NEW e
    PROVE  Append(f, e) = [j \in 1 .. l + 1 |-> IF j = l + 1 THEN e ELSE f[j]]
<1> DEFINE S == {f[j] : j \in 1 .. l} \cup {e}
<1>1. f \in [1 .. l -> S]
  <2>1. \A j \in 1 .. l : f[j] \in S
    OBVIOUS
  <2> HIDE DEF S
  <2> QED BY <2>1
<1>2. e \in S
  OBVIOUS
<1> HIDE DEF S
<1>3. f \in Seq(S) /\ Len(f) = l
  BY <1>1
<1>4. /\ Append(f, e) \in Seq(S) /\ Len(Append(f, e)) = l + 1
      /\ \A j \in 1 .. l : Append(f, e)[j] = f[j]
      /\ Append(f, e)[l + 1] = e
  BY <1>2, <1>3
<1> DEFINE q == Append(f, e)
<1>5. q = [j \in 1 .. l + 1 |-> q[j]]
  BY <1>4
<1>6. \A j \in 1 .. l + 1 : q[j] = IF j = l + 1 THEN e ELSE f[j]
  BY <1>4
<1> HIDE DEF q
<1>7. q = [j \in 1 .. l + 1 |-> IF j = l + 1 THEN e ELSE f[j]]
  BY <1>5, <1>6
<1> QED BY <1>7 DEF q

LEMMA RedeemIs ==
    ASSUME NEW o, NEW in, NEW a, NEW c, NEW t
    PROVE  Redeem([outgoing |-> o, incoming |-> in, actions |-> a], c, t)
             = [outgoing |-> Remove(o, <<Unprefixed(c), t>>), incoming |-> in,
                actions |-> Append(a, Redemption(Unprefixed(c), t))]
<1> DEFINE acc == [outgoing |-> o, incoming |-> in, actions |-> a]
           o2 == Remove(o, <<Unprefixed(c), t>>)
           a2 == Append(a, Redemption(Unprefixed(c), t))
           q == [acc EXCEPT !.outgoing = o2, !.actions = a2]
<1>1. Redeem(acc, c, t) = q
  BY DEF Redeem
<1> HIDE DEF o2, a2
<1>2. q = [f \in DOMAIN q |-> q[f]] /\ DOMAIN q = {"outgoing", "incoming", "actions"}
  OBVIOUS
<1>3. q.outgoing = o2 /\ q.incoming = in /\ q.actions = a2
  OBVIOUS
<1> HIDE DEF q
<1>4. q = [outgoing |-> o2, incoming |-> in, actions |-> a2]
  BY <1>2, <1>3
<1> QED BY <1>1, <1>4 DEF o2, a2

LEMMA SelectRedeems ==
    ASSUME NEW p, NEW n \in Nat, DOMAIN p.data.token_ids = 1 .. n, NEW i \in 1 .. n,
           i \notin CreatedAt(p)
    PROVE  Redeem(SelectedAfter(p, i - 1), p.data.class_id, p.data.token_ids[i])
             = SelectedAfter(p, i)
<1> DEFINE acc == SelectedAfter(p, i - 1)
           key == <<Unprefixed(p.data.class_id), p.data.token_ids[i]>>
<1>0. i \in RedeemedAt(p)
  BY DEF RedeemedAt
<1>1. Remove(acc.outgoing, key) = OutgoingAfter(p, i)
  <2>1. RedeemedKeys(p, i) = RedeemedKeys(p, i - 1) \cup {key}
    BY <1>0 DEF RedeemedKeys
  <2> HIDE DEF key
  <2> QED BY <2>1 DEF Remove, SelectedAfter, OutgoingAfter
<1>2. acc.incoming = IncomingAfter(p, i)
  <2>1. CreatedKeys(p, i) = CreatedKeys(p, i - 1)
    <3>1. CreatedAt(p) \cap (1 .. i) = CreatedAt(p) \cap (1 .. i - 1)
      OBVIOUS
    <3> QED BY <3>1 DEF CreatedKeys
  <2> QED BY <2>1 DEF SelectedAfter, IncomingAfter
<1>3. Append(acc.actions, Redemption(Unprefixed(p.data.class_id), p.data.token_ids[i]))
        = [j \in 1 .. i |-> ActionAt(p, j)]
  <2> DEFINE a == [j \in 1 .. i - 1 |-> ActionAt(p, j)]
             r == Redemption(Unprefixed(p.data.class_id), p.data.token_ids[i])
  <2>1. r = ActionAt(p, i) /\ acc.actions = a
    BY DEF ActionAt, SelectedAfter
  <2>2. i - 1 \in Nat /\ i - 1 + 1 = i /\ a = [j \in 1 .. i - 1 |-> a[j]]
    OBVIOUS
  <2>3. \A j \in 1 .. i : j # i => a[j] = ActionAt(p, j)
    OBVIOUS
  <2> HIDE DEF a, r
  <2>4. Append(a, r) = [j \in 1 .. i |-> IF j = i THEN r ELSE a[j]]
    BY <2>2, AppendIs
  <2>5. Append(a, r) = [j \in 1 .. i |-> ActionAt(p, j)]
    BY <2>1, <2>3, <2>4
  <2> QED BY <2>1, <2>5 DEF r
<1>4. Redeem(SelectedAfter(p, i - 1), p.data.class_id, p.data.token_ids[i])
        = [outgoing |-> Remove(acc.outgoing, key), incoming |-> acc.incoming,
           actions |-> Append(acc.actions, Redemption(Unprefixed(p.data.class_id),
                                                      p.data.token_ids[i]))]
  BY RedeemIs DEF SelectedAfter
<1> QED BY <1>1, <1>2, <1>3, <1>4, Zenon DEF SelectedAfter

LEMMA SelectCreates ==
    ASSUME NEW p, NEW n \in Nat, DOMAIN p.data.token_ids = 1 .. n, NEW i \in 1 .. n,
           i \in CreatedAt(p)
    PROVE  Create(SelectedAfter(p, i - 1), p.data.class_id, Here(p.channel),
                  p.channel, p.data.token_ids[i], At(p.data.token_uris, i),
                  At(p.data.token_data, i))
             = SelectedAfter(p, i)
<1> DEFINE acc == SelectedAfter(p, i - 1)
           key == <<VoucherClass(p), p.data.token_ids[i]>>
           c == Creation(VoucherClass(p), p.data.token_ids[i],
                         At(p.data.token_uris, i), At(p.data.token_data, i))
<1>1. acc.outgoing = OutgoingAfter(p, i)
  <2>1. RedeemedKeys(p, i) = RedeemedKeys(p, i - 1)
    <3>1. RedeemedAt(p) \cap (1 .. i) = RedeemedAt(p) \cap (1 .. i - 1)
      BY DEF RedeemedAt
    <3> QED BY <3>1 DEF RedeemedKeys
  <2> QED BY <2>1 DEF SelectedAfter, OutgoingAfter
<1>2. Save(acc.incoming, key, p.channel) = IncomingAfter(p, i)
  <2>1. CreatedKeys(p, i) = CreatedKeys(p, i - 1) \cup {key}
    BY DEF CreatedKeys
  <2> HIDE DEF key
  <2> QED BY <2>1 DEF Save, SelectedAfter, IncomingAfter
<1>3. Append(acc.actions, c) = [j \in 1 .. i |-> ActionAt(p, j)]
  <2> DEFINE a == [j \in 1 .. i - 1 |-> ActionAt(p, j)]
  <2>1. c = ActionAt(p, i) /\ acc.actions = a
    BY DEF ActionAt, SelectedAfter
  <2>2. i - 1 \in Nat /\ i - 1 + 1 = i /\ a = [j \in 1 .. i - 1 |-> a[j]]
    OBVIOUS
  <2>3. \A j \in 1 .. i : j # i => a[j] = ActionAt(p, j)
    OBVIOUS
  <2> HIDE DEF a, c
  <2>4. Append(a, c) = [j \in 1 .. i |-> IF j = i THEN c ELSE a[j]]
    BY <2>2, AppendIs
  <2>5. Append(a, c) = [j \in 1 .. i |-> ActionAt(p, j)]
    BY <2>1, <2>3, <2>4
  <2> QED BY <2>1, <2>5
<1>4. Create(SelectedAfter(p, i - 1), p.data.class_id, Here(p.channel), p.channel,
             p.data.token_ids[i], At(p.data.token_uris, i), At(p.data.token_data, i))
        = [outgoing |-> acc.outgoing, incoming |-> Save(acc.incoming, key, p.channel),
           actions |-> Append(acc.actions, c)]
  <2> DEFINE in2 == Save(acc.incoming, key, p.channel)
             a2 == Append(acc.actions, c)
             q == [acc EXCEPT !.incoming = in2, !.actions = a2]
  <2>1. acc = [outgoing |-> acc.outgoing, incoming |-> acc.incoming,
               actions |-> acc.actions]
    BY DEF SelectedAfter
  <2>2. Create(SelectedAfter(p, i - 1), p.data.class_id, Here(p.channel), p.channel,
               p.data.token_ids[i], At(p.data.token_uris, i), At(p.data.token_data, i))
          = q
    BY DEF Create, VoucherClass
  <2> HIDE DEF in2, a2, acc
  <2>3. q = [f \in DOMAIN q |-> q[f]] /\ DOMAIN q = {"outgoing", "incoming", "actions"}
    BY <2>1
  <2>4. q.outgoing = acc.outgoing /\ q.incoming = in2 /\ q.actions = a2
    BY <2>1
  <2> HIDE DEF q
  <2>5. q = [outgoing |-> acc.outgoing, incoming |-> in2, actions |-> a2]
    BY <2>3, <2>4
  <2> QED BY <2>2, <2>5 DEF in2, a2
<1> QED BY <1>1, <1>2, <1>3, <1>4, Zenon DEF SelectedAfter

\* What the loop computes.
LEMMA SelectedIs ==
    ASSUME NEW p, NEW S, p.data.token_ids \in Seq(S), validate(p.data),
           outgoing = [key \in DOMAIN outgoing |-> outgoing[key]],
           incoming = [key \in DOMAIN incoming |-> incoming[key]]
    PROVE  Selected(p) = SelectedAfter(p, Len(p.data.token_ids))
<1> DEFINE data == p.data
           ids == p.data.token_ids
           n == Len(ids)
           src == Remote[p.channel]
           dest == Here(p.channel)
<1>1. n \in Nat /\ DOMAIN ids = 1 .. n
  OBVIOUS
<1>2. /\ Len(Items(data)) = n
      /\ \A i \in 1 .. n :
           Items(data)[i] = <<<<ids[i], At(data.token_uris, i)>>,
                              At(data.token_data, i)>>
  BY ValidPacketsLoseNothing
<1>3. DOMAIN Items(data) = 1 .. n
  <2> DEFINE named == zip_optional(ids, data.token_uris)
  <2>1. Items(data) = zip_optional(named, data.token_data)
    BY DEF Items
  <2>2. data.token_uris = None \/ Len(data.token_uris) = n
    BY DEF validate
  <2>3. data.token_data = None \/ Len(data.token_data) = n
    BY DEF validate
  <2>4. Len(named) = n
    BY <1>1, <2>2, ZipAligned
  <2> HIDE DEF named, n
  <2>5. Shorter(n, n) = n
    BY <1>1 DEF Shorter
  <2> QED BY <1>1, <2>1, <2>3, <2>4, <2>5 DEF zip_optional
<1> HIDE DEF n
<1>4. PICK g, m :
        /\ m = [loop |-> "select", data |-> data, src |-> src, dest |-> dest,
                channel |-> p.channel]
        /\ g[0] = [outgoing |-> outgoing, incoming |-> incoming, actions |-> << >>]
        /\ \A i \in 1 .. n : g[i] = SelectStep(m, g[i - 1], Items(data)[i])
        /\ select_actions(data, outgoing, incoming, src, dest, p.channel) = g[n]
  <2> HIDE DEF data, src, dest
  <2> QED BY <1>1, <1>3, SelectLoop
<1> DEFINE T == {i \in Nat : g[i] = SelectedAfter(p, i)}
<1>5. 0 \in T
  <2>1. RedeemedKeys(p, 0) = {} /\ CreatedKeys(p, 0) = {}
    BY DEF RedeemedKeys, CreatedKeys
  <2>2. OutgoingAfter(p, 0) = outgoing /\ IncomingAfter(p, 0) = incoming
    BY <2>1 DEF OutgoingAfter, IncomingAfter
  <2>3. [j \in 1 .. 0 |-> ActionAt(p, j)] = << >>
    OBVIOUS
  <2>4. g[0] = SelectedAfter(p, 0)
    BY <1>4, <2>2, <2>3 DEF SelectedAfter
  <2> QED BY <2>4
<1>6. ASSUME NEW i \in 1 .. n, i - 1 \in T PROVE i \in T
  <2>1. g[i - 1] = SelectedAfter(p, i - 1)
    BY <1>6
  <2>2. g[i] = SelectStep(m, SelectedAfter(p, i - 1),
                          <<<<ids[i], At(data.token_uris, i)>>,
                            At(data.token_data, i)>>)
    BY <1>2, <1>4, <2>1
  <2>3. SelectedAfter(p, i - 1).outgoing = OutgoingAfter(p, i - 1)
    BY DEF SelectedAfter
  <2>4. CASE i \in CreatedAt(p)
    <3>1. ~returning_to_source(OutgoingAfter(p, i - 1), data.class_id, ids[i], src,
                               p.channel)
      BY <1>1, <2>4, ReturnsOnce
    <3>2. g[i] = Create(SelectedAfter(p, i - 1), data.class_id, dest, p.channel,
                        ids[i], At(data.token_uris, i), At(data.token_data, i))
      BY <1>4, <2>2, <2>3, <3>1 DEF SelectStep
    <3>3. g[i] = SelectedAfter(p, i)
      BY <1>1, <2>4, <3>2, SelectCreates
    <3> QED BY <3>3
  <2>5. CASE i \notin CreatedAt(p)
    <3>1. returning_to_source(OutgoingAfter(p, i - 1), data.class_id, ids[i], src,
                              p.channel)
      BY <1>1, <2>5, ReturnsOnce
    <3>2. g[i] = Redeem(SelectedAfter(p, i - 1), data.class_id, ids[i])
      BY <1>4, <2>2, <2>3, <3>1 DEF SelectStep
    <3>3. g[i] = SelectedAfter(p, i)
      BY <1>1, <2>5, <3>2, SelectRedeems
    <3> QED BY <3>3
  <2> QED BY <2>4, <2>5
<1> HIDE DEF T
<1>7. n \in T
  BY <1>1, <1>5, <1>6, UpTo
<1> QED BY <1>4, <1>7 DEF T, n, Selected

(***************************************************************************)
(* Aggregation.  The redemption lists the positions of RedeemedAt and the  *)
(* creation those of CreatedAt, each of them once.                         *)
(***************************************************************************)
Readable(p) ==
    /\ p.channel \in Channels
    /\ p.data \in Data /\ validate(p.data)
    /\ p.data.receiver \in Users \cup {Bridge}

LEMMA ReadableTypes ==
    ASSUME NEW p, Readable(p)
    PROVE  /\ p.data.class_id \in ClassId
           /\ VoucherClass(p) \in ClassId /\ VoucherClass(p).path # << >>
           /\ HasPrefix(Here(p.channel), VoucherClass(p))
           /\ Class(VoucherClass(p), p.data) \in ClassInfo
           /\ Len(p.data.token_ids) \in Nat \ {0}
           /\ p.data.token_ids \in [1 .. Len(p.data.token_ids) -> Tokens]
<1> DEFINE data == p.data
<1>0. /\ data.class_id \in ClassId \cup {LocalClass(Empty)}
      /\ data.class_uri \in Uris \cup {None} /\ data.class_data \in Uris \cup {None}
      /\ data.token_ids \in Seq(Tokens)
  BY DEF Readable, Data
<1>1. /\ data.class_id # LocalClass(Empty)
      /\ data.class_uri # Empty /\ data.class_data # Empty /\ Len(data.token_ids) > 0
  BY DEF Readable, validate
<1>2. data.class_id \in ClassId
  BY <1>0, <1>1
<1>3. Here(p.channel) \in Prefixes
  BY ReceiveAssumption DEF Readable, Here, get_endpoint_prefix, Prefixes
<1>4. VoucherClass(p) = [path |-> <<Here(p.channel)>> \o data.class_id.path,
                         base |-> data.class_id.base]
  BY DEF VoucherClass, Prefixed
<1> DEFINE h == Here(p.channel)
           t == data.class_id.path
<1>5. t \in Seq(Prefixes) /\ data.class_id.base \in Collections
  BY <1>2 DEF ClassId
<1> HIDE DEF h, t, data
<1>6. <<h>> \o t \in Seq(Prefixes) /\ <<h>> \o t # << >> /\ Head(<<h>> \o t) = h
  BY <1>3, <1>5 DEF h
<1>7. /\ VoucherClass(p) \in ClassId /\ VoucherClass(p).path # << >>
      /\ HasPrefix(Here(p.channel), VoucherClass(p))
  BY <1>4, <1>5, <1>6 DEF ClassId, HasPrefix, h, t
<1>8. Class(VoucherClass(p), data) \in ClassInfo
  BY <1>0, <1>1, <1>7 DEF Class, ClassInfo, Metadata
<1> QED BY <1>0, <1>1, <1>2, <1>7, <1>8 DEF data

LEMMA UnprefixedType ==
    ASSUME NEW x \in ClassId, x.path # << >>
    PROVE  Unprefixed(x) \in ClassId
BY DEF Unprefixed, ClassId

LEMMA TokenAtType ==
    ASSUME NEW p, Readable(p), NEW j \in DOMAIN p.data.token_ids
    PROVE  TokenAt(p, j) \in Token
<1>1. /\ p.data.token_ids \in Seq(Tokens)
      /\ p.data.token_uris \in Seq(Uris) \cup {None}
      /\ p.data.token_data \in Seq(Uris) \cup {None}
  BY DEF Readable, Data
<1>2. /\ p.data.token_uris # None => Len(p.data.token_uris) = Len(p.data.token_ids)
      /\ p.data.token_data # None => Len(p.data.token_data) = Len(p.data.token_ids)
  BY DEF Readable, validate
<1>3. At(p.data.token_uris, j) \in Uris \cup {None}
  BY <1>1, <1>2 DEF At
<1>4. At(p.data.token_data, j) \in Uris \cup {None}
  BY <1>1, <1>2 DEF At
<1> QED BY <1>1, <1>3, <1>4 DEF TokenAt, Token

LEMMA RedeemedClass ==
    ASSUME NEW p, Readable(p), RedeemedAt(p) # {}
    PROVE  /\ ClaimsSource(p) /\ Unprefixed(p.data.class_id) \in ClassId
           /\ Class(Unprefixed(p.data.class_id), p.data) \in ClassInfo
<1>1. ClaimsSource(p)
  BY DEF RedeemedAt, CreatedAt, RedeemedBy
<1>2. Unprefixed(p.data.class_id) \in ClassId
  BY <1>1, ReadableTypes, UnprefixedType DEF ClaimsSource, HasPrefix
<1>3. /\ p.data.class_uri \in (Uris \ {Empty}) \cup {None}
      /\ p.data.class_data \in (Uris \ {Empty}) \cup {None}
  BY DEF Readable, Data, validate
<1> QED BY <1>1, <1>2, <1>3 DEF Class, ClassInfo, Metadata

\* The list e of length l has every member of D, once.
Lists(e, l, D) ==
    /\ l \in Nat /\ e \in [1 .. l -> D]
    /\ \A d \in D : \E a \in 1 .. l : e[a] = d
    /\ \A a, b \in 1 .. l : e[a] = e[b] => a = b

More(e, l, v) == [a \in 1 .. l + 1 |-> IF a = l + 1 THEN v ELSE e[a]]

LEMMA ListsMore ==
    ASSUME NEW e, NEW l, NEW D, Lists(e, l, D), NEW v, v \notin D
    PROVE  Lists(More(e, l, v), l + 1, D \cup {v})
<1> DEFINE q == More(e, l, v)
<1>1. /\ \A a \in 1 .. l : a \in 1 .. l + 1 /\ q[a] = e[a]
      /\ l + 1 \in 1 .. l + 1 /\ q[l + 1] = v
      /\ q = [a \in 1 .. l + 1 |-> q[a]] /\ l + 1 \in Nat
  BY DEF Lists, More
<1>2. \A a \in 1 .. l + 1 : a # l + 1 => a \in 1 .. l
  BY DEF Lists
<1> HIDE DEF q
<1>3. \A a \in 1 .. l + 1 : q[a] \in D \cup {v}
  BY <1>1, <1>2 DEF Lists
<1>4. q \in [1 .. l + 1 -> D \cup {v}]
  BY <1>1, <1>3
<1>5. \A d \in D \cup {v} : \E a \in 1 .. l + 1 : q[a] = d
  BY <1>1 DEF Lists
<1>6. \A a, b \in 1 .. l + 1 : q[a] = q[b] => a = b
  BY <1>1, <1>2 DEF Lists
<1> QED BY <1>1, <1>4, <1>5, <1>6 DEF Lists, q

LEMMA ListsNone ==
    ASSUME NEW e, NEW l, NEW D, Lists(e, l, D)
    PROVE  l = 0 <=> D = {}
<1>1. l = 0 => D = {}
  BY DEF Lists
<1>2. l # 0 => e[1] \in D
  BY DEF Lists
<1> QED BY <1>1, <1>2

RedemptionOf(p, r, l) ==
    IF l = 0 THEN None
    ELSE [class |-> Class(Unprefixed(p.data.class_id), p.data),
          token_ids |-> [a \in 1 .. l |-> p.data.token_ids[r[a]]]]

CreationOf(p, c, l) ==
    IF l = 0 THEN None
    ELSE [class |-> Class(VoucherClass(p), p.data),
          tokens |-> [a \in 1 .. l |-> TokenAt(p, c[a])]]

\* agg is what Aggregate makes of the first i actions.
AggregateOf(p, agg, i, r, rl, c, cl) ==
    /\ Lists(r, rl, RedeemedAt(p) \cap (1 .. i))
    /\ Lists(c, cl, CreatedAt(p) \cap (1 .. i))
    /\ agg = [redemption |-> RedemptionOf(p, r, rl), creation |-> CreationOf(p, c, cl)]

LEMMA RedemptionSome ==
    ASSUME NEW p, Readable(p), NEW r, NEW l, NEW D, l # 0,
           Lists(r, l, D), D \subseteq RedeemedAt(p)
    PROVE  RedemptionOf(p, r, l) # None
<1> DEFINE q == [a \in 1 .. l |-> p.data.token_ids[r[a]]]
<1>1. RedeemedAt(p) # {}
  BY ListsNone
<1>2. \A a \in 1 .. l : p.data.token_ids[r[a]] \in Tokens
  BY ReadableTypes DEF Lists, RedeemedAt
<1>3. q \in Seq(Tokens)
  BY <1>2 DEF Lists
<1> HIDE DEF q
<1>4. [class |-> Class(Unprefixed(p.data.class_id), p.data), token_ids |-> q]
        \in VoucherRedemption
  BY <1>1, <1>3, RedeemedClass DEF VoucherRedemption
<1> QED BY <1>4, NoneAssumption DEF RedemptionOf, q

LEMMA CreationSome ==
    ASSUME NEW p, Readable(p), NEW c, NEW l, NEW D, l # 0,
           Lists(c, l, D), D \subseteq CreatedAt(p)
    PROVE  CreationOf(p, c, l) # None
<1> DEFINE q == [a \in 1 .. l |-> TokenAt(p, c[a])]
<1>1. \A a \in 1 .. l : c[a] \in DOMAIN p.data.token_ids
  BY DEF Lists, CreatedAt
<1>2. \A a \in 1 .. l : TokenAt(p, c[a]) \in Token
  BY <1>1, TokenAtType
<1>3. q \in Seq(Token)
  BY <1>2 DEF Lists
<1> HIDE DEF q
<1>4. [class |-> Class(VoucherClass(p), p.data), tokens |-> q] \in VoucherCreation
  BY <1>3, ReadableTypes DEF VoucherCreation
<1> QED BY <1>4, NoneAssumption DEF CreationOf, q

LEMMA AddsRedemption ==
    ASSUME NEW p, Readable(p), NEW i \in 1 .. Len(p.data.token_ids), NEW D,
           NEW r, NEW l, NEW C, Lists(r, l, D), D \subseteq RedeemedAt(p)
    PROVE  add_action([redemption |-> RedemptionOf(p, r, l), creation |-> C],
                      Redemption(Unprefixed(p.data.class_id), p.data.token_ids[i]),
                      p.data)
             = [redemption |-> RedemptionOf(p, More(r, l, i), l + 1), creation |-> C]
<1> DEFINE x == Unprefixed(p.data.class_id)
           t == p.data.token_ids[i]
           class == Class(x, p.data)
           old == RedemptionOf(p, r, l)
           ids == [a \in 1 .. l |-> p.data.token_ids[r[a]]]
           ids2 == [a \in 1 .. l + 1 |-> p.data.token_ids[More(r, l, i)[a]]]
           agg == [redemption |-> old, creation |-> C]
           act == Redemption(x, t)
           new == IF old = None THEN [class |-> class, token_ids |-> <<t>>]
                  ELSE [old EXCEPT !.token_ids = Append(@, t)]
           q == [agg EXCEPT !.redemption = new]
<1>0. l \in Nat
  BY DEF Lists
<1>1. add_action(agg, act, p.data) = q
  BY DEF add_action, AddRedemption, Redemption
<1>2. q = [redemption |-> new, creation |-> C]
  <2> HIDE DEF new
  <2>1. q = [f \in DOMAIN q |-> q[f]] /\ DOMAIN q = {"redemption", "creation"}
    OBVIOUS
  <2>2. q.redemption = new /\ q.creation = C
    OBVIOUS
  <2> HIDE DEF q
  <2> QED BY <2>1, <2>2
<1>3. RedemptionOf(p, More(r, l, i), l + 1) = [class |-> class, token_ids |-> ids2]
  BY <1>0 DEF RedemptionOf
<1>4. \A a \in 1 .. l + 1 :
        ids2[a] = IF a = l + 1 THEN t ELSE p.data.token_ids[r[a]]
  BY DEF More
<1>5. new = [class |-> class, token_ids |-> ids2]
  <2>1. CASE l = 0
    <3>1. old = None
      BY <2>1 DEF RedemptionOf
    <3>2. ids2[1] = t /\ ids2 = [a \in 1 .. 1 |-> ids2[a]]
      BY <1>4, <2>1
    <3> HIDE DEF ids2, t
    <3>3. ids2 = <<t>>
      BY <3>2
    <3> QED BY <3>1, <3>3
  <2>2. CASE l # 0
    <3>1. old # None /\ old = [class |-> class, token_ids |-> ids]
      BY <2>2, RedemptionSome DEF RedemptionOf
    <3>2. \A a \in 1 .. l : ids[a] = p.data.token_ids[r[a]]
      OBVIOUS
    <3>3. ids = [a \in 1 .. l |-> ids[a]]
      OBVIOUS
    <3>4. \A a \in 1 .. l + 1 : ids2[a] = IF a = l + 1 THEN t ELSE ids[a]
      BY <1>0, <1>4, <3>2
    <3>5. ids2 = [a \in 1 .. l + 1 |-> ids2[a]]
      OBVIOUS
    <3> HIDE DEF ids, ids2, t, old
    <3>6. Append(ids, t) = ids2
      <4>1. Append(ids, t) = [a \in 1 .. l + 1 |-> IF a = l + 1 THEN t ELSE ids[a]]
        BY <1>0, <3>3, AppendIs
      <4> QED BY <3>4, <3>5, <4>1
    <3>7. new = [old EXCEPT !.token_ids = ids2]
      BY <3>1, <3>6
    <3> DEFINE o == [old EXCEPT !.token_ids = ids2]
    <3> HIDE DEF class
    <3>8. o = [f \in DOMAIN o |-> o[f]] /\ DOMAIN o = {"class", "token_ids"}
      BY <3>1
    <3>9. o.class = class /\ o.token_ids = ids2
      BY <3>1
    <3> HIDE DEF o
    <3>10. o = [class |-> class, token_ids |-> ids2]
      BY <3>8, <3>9
    <3> QED BY <3>7, <3>10 DEF o
  <2> QED BY <2>1, <2>2
<1> QED BY <1>1, <1>2, <1>3, <1>5, Zenon

LEMMA AddsCreation ==
    ASSUME NEW p, Readable(p), NEW i \in 1 .. Len(p.data.token_ids), NEW D,
           NEW r, NEW l, NEW C, Lists(r, l, D), D \subseteq CreatedAt(p)
    PROVE  add_action([redemption |-> C, creation |-> CreationOf(p, r, l)],
                      Creation(VoucherClass(p), p.data.token_ids[i],
                               At(p.data.token_uris, i), At(p.data.token_data, i)),
                      p.data)
             = [redemption |-> C, creation |-> CreationOf(p, More(r, l, i), l + 1)]
<1> DEFINE x == VoucherClass(p)
           t == TokenAt(p, i)
           class == Class(x, p.data)
           old == CreationOf(p, r, l)
           toks == [a \in 1 .. l |-> TokenAt(p, r[a])]
           toks2 == [a \in 1 .. l + 1 |-> TokenAt(p, More(r, l, i)[a])]
           agg == [redemption |-> C, creation |-> old]
           act == Creation(x, p.data.token_ids[i], At(p.data.token_uris, i),
                           At(p.data.token_data, i))
           new == IF old = None THEN [class |-> class, tokens |-> <<t>>]
                  ELSE [old EXCEPT !.tokens = Append(@, t)]
           q == [agg EXCEPT !.creation = new]
<1>0. l \in Nat
  BY DEF Lists
<1>1. add_action(agg, act, p.data) = q
  BY DEF add_action, AddCreation, Creation, TokenAt
<1>2. q = [redemption |-> C, creation |-> new]
  <2> HIDE DEF new
  <2>1. q = [f \in DOMAIN q |-> q[f]] /\ DOMAIN q = {"redemption", "creation"}
    OBVIOUS
  <2>2. q.creation = new /\ q.redemption = C
    OBVIOUS
  <2> HIDE DEF q
  <2> QED BY <2>1, <2>2
<1>3. CreationOf(p, More(r, l, i), l + 1) = [class |-> class, tokens |-> toks2]
  BY <1>0 DEF CreationOf
<1>4. \A a \in 1 .. l + 1 :
        toks2[a] = IF a = l + 1 THEN t ELSE TokenAt(p, r[a])
  BY DEF More
<1>5. new = [class |-> class, tokens |-> toks2]
  <2>1. CASE l = 0
    <3>1. old = None
      BY <2>1 DEF CreationOf
    <3>2. toks2[1] = t /\ toks2 = [a \in 1 .. 1 |-> toks2[a]]
      BY <1>4, <2>1
    <3> HIDE DEF toks2, t
    <3>3. toks2 = <<t>>
      BY <3>2
    <3> QED BY <3>1, <3>3
  <2>2. CASE l # 0
    <3>1. old # None /\ old = [class |-> class, tokens |-> toks]
      BY <2>2, CreationSome DEF CreationOf
    <3>2. \A a \in 1 .. l : toks[a] = TokenAt(p, r[a])
      OBVIOUS
    <3>3. toks = [a \in 1 .. l |-> toks[a]]
      OBVIOUS
    <3>4. \A a \in 1 .. l + 1 : toks2[a] = IF a = l + 1 THEN t ELSE toks[a]
      BY <1>0, <1>4, <3>2
    <3>5. toks2 = [a \in 1 .. l + 1 |-> toks2[a]]
      OBVIOUS
    <3> HIDE DEF toks, toks2, t, old
    <3>6. Append(toks, t) = toks2
      <4>1. Append(toks, t) = [a \in 1 .. l + 1 |-> IF a = l + 1 THEN t ELSE toks[a]]
        BY <1>0, <3>3, AppendIs
      <4> QED BY <3>4, <3>5, <4>1
    <3>7. new = [old EXCEPT !.tokens = toks2]
      BY <3>1, <3>6
    <3> DEFINE o == [old EXCEPT !.tokens = toks2]
    <3> HIDE DEF class
    <3>8. o = [f \in DOMAIN o |-> o[f]] /\ DOMAIN o = {"class", "tokens"}
      BY <3>1
    <3>9. o.class = class /\ o.tokens = toks2
      BY <3>1
    <3> HIDE DEF o
    <3>10. o = [class |-> class, tokens |-> toks2]
      BY <3>8, <3>9
    <3> QED BY <3>7, <3>10 DEF o
  <2> QED BY <2>1, <2>2
<1> QED BY <1>1, <1>2, <1>3, <1>5, Zenon

LEMMA TwoItems ==
    ASSUME NEW x, NEW y
    PROVE  <<x>> \o <<y>> = <<x, y>>
<1> DEFINE q == <<x>> \o <<y>>
<1>1. <<x>> \in Seq({x, y}) /\ <<y>> \in Seq({x, y})
  OBVIOUS
<1>2. q \in Seq({x, y}) /\ Len(q) = 2 /\ q[1] = x /\ q[2] = y
  BY <1>1
<1> HIDE DEF q
<1>3. q = <<x, y>>
  BY <1>2
<1> QED BY <1>3 DEF q

\* What the aggregation computes.
LEMMA AggregateIs ==
    ASSUME NEW p, Readable(p)
    PROVE  LET n == Len(p.data.token_ids) IN
           \E r, rl, c, cl :
             AggregateOf(p, Aggregate([j \in 1 .. n |-> ActionAt(p, j)], p.data),
                         n, r, rl, c, cl)
<1> DEFINE n == Len(p.data.token_ids)
           x == Unprefixed(p.data.class_id)
           acts == [j \in 1 .. n |-> ActionAt(p, j)]
<1>1. n \in Nat /\ DOMAIN acts = 1 .. n /\ DOMAIN p.data.token_ids = 1 .. n
  BY ReadableTypes
<1>2. \A i \in 1 .. n : acts[i] = ActionAt(p, i)
  OBVIOUS
<1> HIDE DEF acts
<1>3. PICK g : /\ g[0] = [redemption |-> None, creation |-> None]
               /\ \A i \in 1 .. n : g[i] = add_action(g[i - 1], acts[i], p.data)
               /\ Aggregate(acts, p.data) = g[n]
  <2> HIDE DEF n
  <2> QED BY <1>1, AggregateLoop
<1> DEFINE T == {i \in Nat : \E r, rl, c, cl : AggregateOf(p, g[i], i, r, rl, c, cl)}
<1>4. 0 \in T
  <2> DEFINE e == [a \in 1 .. 0 |-> 0]
  <2>1. RedeemedAt(p) \cap (1 .. 0) = {} /\ CreatedAt(p) \cap (1 .. 0) = {}
    OBVIOUS
  <2>2. Lists(e, 0, {})
    BY DEF Lists
  <2>3. AggregateOf(p, g[0], 0, e, 0, e, 0)
    BY <1>3, <2>1, <2>2 DEF AggregateOf, RedemptionOf, CreationOf
  <2> QED BY <2>3
<1>5. ASSUME NEW i \in 1 .. n, i - 1 \in T PROVE i \in T
  <2>1. PICK r, rl, c, cl : AggregateOf(p, g[i - 1], i - 1, r, rl, c, cl)
    BY <1>5
  <2> DEFINE R == RedemptionOf(p, r, rl)
             C == CreationOf(p, c, cl)
  <2>2. g[i] = add_action([redemption |-> R, creation |-> C], ActionAt(p, i), p.data)
    BY <1>2, <1>3, <2>1 DEF AggregateOf
  <2>3. CASE i \in CreatedAt(p)
    <3>1. g[i] = [redemption |-> R, creation |-> CreationOf(p, More(c, cl, i), cl + 1)]
      <4>1. ActionAt(p, i) = Creation(VoucherClass(p), p.data.token_ids[i],
                                      At(p.data.token_uris, i), At(p.data.token_data, i))
        BY <2>3 DEF ActionAt
      <4> DEFINE D == CreatedAt(p) \cap (1 .. i - 1)
      <4>2. Lists(c, cl, D) /\ D \subseteq CreatedAt(p)
        BY <2>1 DEF AggregateOf
      <4> HIDE DEF D
      <4> HIDE DEF R
      <4>3. add_action([redemption |-> R, creation |-> C],
                       Creation(VoucherClass(p), p.data.token_ids[i],
                                At(p.data.token_uris, i), At(p.data.token_data, i)),
                       p.data)
              = [redemption |-> R, creation |-> CreationOf(p, More(c, cl, i), cl + 1)]
        BY <4>2, AddsCreation
      <4> QED BY <2>2, <4>1, <4>3, Zenon
    <3>2. /\ CreatedAt(p) \cap (1 .. i) = (CreatedAt(p) \cap (1 .. i - 1)) \cup {i}
          /\ i \notin CreatedAt(p) \cap (1 .. i - 1)
      BY <2>3
    <3>3. RedeemedAt(p) \cap (1 .. i) = RedeemedAt(p) \cap (1 .. i - 1)
      BY <2>3 DEF RedeemedAt
    <3>4. Lists(More(c, cl, i), cl + 1, CreatedAt(p) \cap (1 .. i))
      BY <2>1, <3>2, ListsMore DEF AggregateOf
    <3>5. AggregateOf(p, g[i], i, r, rl, More(c, cl, i), cl + 1)
      BY <2>1, <3>1, <3>3, <3>4 DEF AggregateOf
    <3> QED BY <3>5
  <2>4. CASE i \notin CreatedAt(p)
    <3>0. i \in RedeemedAt(p)
      BY <1>1, <2>4 DEF RedeemedAt
    <3>1. g[i] = [redemption |-> RedemptionOf(p, More(r, rl, i), rl + 1), creation |-> C]
      <4>1. ActionAt(p, i) = Redemption(x, p.data.token_ids[i])
        BY <2>4 DEF ActionAt
      <4> DEFINE D == RedeemedAt(p) \cap (1 .. i - 1)
      <4>2. Lists(r, rl, D) /\ D \subseteq RedeemedAt(p)
        BY <2>1 DEF AggregateOf
      <4> HIDE DEF D
      <4> HIDE DEF C
      <4>3. add_action([redemption |-> R, creation |-> C],
                       Redemption(x, p.data.token_ids[i]), p.data)
              = [redemption |-> RedemptionOf(p, More(r, rl, i), rl + 1), creation |-> C]
        BY <4>2, AddsRedemption
      <4> QED BY <2>2, <4>1, <4>3, Zenon
    <3>2. /\ RedeemedAt(p) \cap (1 .. i) = (RedeemedAt(p) \cap (1 .. i - 1)) \cup {i}
          /\ i \notin RedeemedAt(p) \cap (1 .. i - 1)
      BY <3>0
    <3>3. CreatedAt(p) \cap (1 .. i) = CreatedAt(p) \cap (1 .. i - 1)
      BY <2>4
    <3>4. Lists(More(r, rl, i), rl + 1, RedeemedAt(p) \cap (1 .. i))
      BY <2>1, <3>2, ListsMore DEF AggregateOf
    <3>5. AggregateOf(p, g[i], i, More(r, rl, i), rl + 1, c, cl)
      BY <2>1, <3>1, <3>3, <3>4 DEF AggregateOf
    <3> QED BY <3>5
  <2> QED BY <2>3, <2>4
<1> HIDE DEF T
<1>6. n \in T
  <2> HIDE DEF n
  <2>1. n \in 0 .. n
    BY <1>1
  <2> QED BY <1>1, <1>4, <1>5, <2>1, UpTo
<1> QED BY <1>3, <1>6 DEF T, acts

\* The callbacks that the packet leads to: the worlds after the redemption and
\* after the creation, each of them the one before if there is nothing to do.
AfterRedemption(w, p, r, l) ==
    IF l = 0 THEN w
    ELSE callback_redeem_vouchers(w, p.data.receiver, RedemptionOf(p, r, l))

AfterCreation(w, p, c, l) ==
    IF l = 0 THEN w ELSE IF w = Error THEN Error
    ELSE callback_create_vouchers(w, p.data.receiver, CreationOf(p, c, l))

LEMMA OutcomeIs ==
    ASSUME NEW p, Readable(p), world # Error,
           outgoing = [key \in DOMAIN outgoing |-> outgoing[key]],
           incoming = [key \in DOMAIN incoming |-> incoming[key]]
    PROVE  \E r, rl, c, cl :
             /\ Lists(r, rl, RedeemedAt(p)) /\ Lists(c, cl, CreatedAt(p))
             /\ Outcome(p) = AfterCreation(AfterRedemption(world, p, r, rl), p, c, cl)
<1> DEFINE n == Len(p.data.token_ids)
           rcv == p.data.receiver
<1>1. p.data.token_ids \in Seq(Tokens) /\ validate(p.data) /\ n \in Nat \ {0}
  BY ReadableTypes DEF Readable, Data
<1>2. Selected(p).actions = [j \in 1 .. n |-> ActionAt(p, j)]
  <2>1. Selected(p) = SelectedAfter(p, n)
    BY <1>1, SelectedIs, Zenon
  <2> QED BY <2>1 DEF SelectedAfter
<1>3. PICK r, rl, c, cl :
        AggregateOf(p, Aggregate(Selected(p).actions, p.data), n, r, rl, c, cl)
  BY <1>2, AggregateIs
<1> DEFINE R == RedemptionOf(p, r, rl)
           C == CreationOf(p, c, cl)
           a == IF R = None THEN << >> ELSE <<RedeemVouchers(rcv, R)>>
           b == IF C = None THEN << >> ELSE <<CreateVouchers(rcv, C)>>
<1>4. RedeemedAt(p) \cap (1 .. n) = RedeemedAt(p) /\ CreatedAt(p) \cap (1 .. n) = CreatedAt(p)
  BY ReadableTypes DEF RedeemedAt, CreatedAt
<1>5. Lists(r, rl, RedeemedAt(p)) /\ Lists(c, cl, CreatedAt(p))
  BY <1>3, <1>4 DEF AggregateOf
<1>6. Submessage(p) = a \o b
  BY <1>3 DEF Submessage, into_submessage, AggregateOf
<1>7. (R = None <=> rl = 0) /\ (C = None <=> cl = 0)
  <2>1. rl = 0 => R = None
    BY DEF RedemptionOf
  <2>2. cl = 0 => C = None
    BY DEF CreationOf
  <2>3. rl # 0 => R # None
    BY <1>3, RedemptionSome DEF AggregateOf
  <2>4. cl # 0 => C # None
    BY <1>3, CreationSome DEF AggregateOf
  <2> QED BY <2>1, <2>2, <2>3, <2>4
<1>8. RedeemedAt(p) # {} \/ CreatedAt(p) # {}
  <2>1. 1 \in DOMAIN p.data.token_ids
    BY <1>1, ReadableTypes
  <2> QED BY <2>1 DEF RedeemedAt
<1>9. rl # 0 \/ cl # 0
  BY <1>5, <1>8, ListsNone
<1>10. Outcome(p) = Conjunction(world, a \o b)
  BY <1>6 DEF Outcome
<1> DEFINE msgR == RedeemVouchers(rcv, R)
           msgC == CreateVouchers(rcv, C)
<1>11. \A w : /\ execute_callback(w, msgR) =
                   IF w = Error THEN Error ELSE callback_redeem_vouchers(w, rcv, R)
              /\ execute_callback(w, msgC) =
                   IF w = Error THEN Error ELSE callback_create_vouchers(w, rcv, C)
  BY DEF execute_callback, RedeemVouchers, CreateVouchers
<1> HIDE DEF R, C, msgR, msgC
<1>12. CASE rl # 0 /\ cl # 0
  <2> DEFINE s == <<msgR, msgC>>
  <2>1. a \o b = s
    <3>1. a = <<msgR>> /\ b = <<msgC>>
      BY <1>7, <1>12 DEF msgR, msgC
    <3> HIDE DEF a, b
    <3>2. <<msgR>> \o <<msgC>> = <<msgR, msgC>>
      BY TwoItems
    <3> QED BY <3>1, <3>2
  <2> DEFINE k == 2
  <2>2. k \in Nat /\ DOMAIN s = 1 .. k /\ s[1] = msgR /\ s[2] = msgC
    OBVIOUS
  <2> HIDE DEF s, k
  <2>3. PICK g : /\ g[0] = world
                 /\ \A i \in 1 .. k : g[i] = execute_callback(g[i - 1], s[i])
                 /\ Conjunction(world, s) = g[k]
    BY <2>2, CallbackLoop
  <2>4. g[1] = execute_callback(world, msgR) /\ g[2] = execute_callback(g[1], msgC)
    BY <2>2, <2>3 DEF k
  <2>5. Outcome(p) = AfterCreation(AfterRedemption(world, p, r, rl), p, c, cl)
    BY <1>10, <1>11, <1>12, <2>1, <2>3, <2>4 DEF k, AfterCreation, AfterRedemption, R, C
  <2> QED BY <1>5, <2>5
<1>13. CASE rl # 0 /\ cl = 0
  <2> DEFINE s == <<msgR>>
  <2>1. a \o b = s
    BY <1>7, <1>13 DEF msgR
  <2> DEFINE k == 1
  <2>2. k \in Nat /\ DOMAIN s = 1 .. k /\ s[1] = msgR
    OBVIOUS
  <2> HIDE DEF s, k
  <2>3. PICK g : /\ g[0] = world
                 /\ \A i \in 1 .. k : g[i] = execute_callback(g[i - 1], s[i])
                 /\ Conjunction(world, s) = g[k]
    BY <2>2, CallbackLoop
  <2>4. g[1] = execute_callback(world, msgR)
    BY <2>2, <2>3 DEF k
  <2>5. Outcome(p) = AfterCreation(AfterRedemption(world, p, r, rl), p, c, cl)
    BY <1>10, <1>11, <1>13, <2>1, <2>3, <2>4 DEF k, AfterCreation, AfterRedemption, R
  <2> QED BY <1>5, <2>5
<1>14. CASE rl = 0 /\ cl # 0
  <2> DEFINE s == <<msgC>>
  <2>1. a \o b = s
    BY <1>7, <1>14 DEF msgC
  <2> DEFINE k == 1
  <2>2. k \in Nat /\ DOMAIN s = 1 .. k /\ s[1] = msgC
    OBVIOUS
  <2> HIDE DEF s, k
  <2>3. PICK g : /\ g[0] = world
                 /\ \A i \in 1 .. k : g[i] = execute_callback(g[i - 1], s[i])
                 /\ Conjunction(world, s) = g[k]
    BY <2>2, CallbackLoop
  <2>4. g[1] = execute_callback(world, msgC)
    BY <2>2, <2>3 DEF k
  <2>5. Outcome(p) = AfterCreation(AfterRedemption(world, p, r, rl), p, c, cl)
    BY <1>10, <1>11, <1>14, <2>1, <2>3, <2>4 DEF k, AfterCreation, AfterRedemption, C
  <2> QED BY <1>5, <2>5
<1> QED BY <1>9, <1>12, <1>13, <1>14

(***************************************************************************)
(* The operations of cw721-base, with the records written out.             *)
(***************************************************************************)
WithNfts(w, nfts) ==
    [nfts |-> nfts, nftContract |-> w.nftContract, nftClass |-> w.nftClass,
     classes |-> w.classes, metadata |-> w.metadata]

WithMetadata(w, metadata) ==
    [nfts |-> w.nfts, nftContract |-> w.nftContract, nftClass |-> w.nftClass,
     classes |-> w.classes, metadata |-> metadata]

IsWorld(w) == w = WithNfts(w, w.nfts)

LEMMA WorldIsWorld ==
    ASSUME NEW w, WorldType(w)
    PROVE  IsWorld(w)
BY DEF WorldType, IsWorld, WithNfts

LEMMA WorldNotError ==
    ASSUME NEW w, IsWorld(w)
    PROVE  w # Error
<1>1. "nfts" \in DOMAIN w /\ "nfts" \notin DOMAIN Error
  BY DEF IsWorld, WithNfts, Error
<1> QED BY <1>1

LEMMA ExceptNfts ==
    ASSUME NEW w, IsWorld(w), NEW f
    PROVE  [w EXCEPT !.nfts = f] = WithNfts(w, f)
<1> DEFINE q == [w EXCEPT !.nfts = f]
<1>1. /\ q = [x \in DOMAIN q |-> q[x]]
      /\ DOMAIN q = {"nfts", "nftContract", "nftClass", "classes", "metadata"}
  BY DEF IsWorld, WithNfts
<1>2. /\ q.nfts = f /\ q.nftContract = w.nftContract /\ q.nftClass = w.nftClass
      /\ q.classes = w.classes /\ q.metadata = w.metadata
  BY DEF IsWorld, WithNfts
<1> HIDE DEF q
<1>3. q = WithNfts(w, f)
  BY <1>1, <1>2 DEF WithNfts
<1> QED BY <1>3 DEF q

LEMMA ExceptMetadata ==
    ASSUME NEW w, IsWorld(w), NEW f
    PROVE  [w EXCEPT !.metadata = f] = WithMetadata(w, f)
<1> DEFINE q == [w EXCEPT !.metadata = f]
<1>1. /\ q = [x \in DOMAIN q |-> q[x]]
      /\ DOMAIN q = {"nfts", "nftContract", "nftClass", "classes", "metadata"}
  BY DEF IsWorld, WithNfts
<1>2. /\ q.metadata = f /\ q.nftContract = w.nftContract /\ q.nftClass = w.nftClass
      /\ q.classes = w.classes /\ q.nfts = w.nfts
  BY DEF IsWorld, WithNfts
<1> HIDE DEF q
<1>3. q = WithMetadata(w, f)
  BY <1>1, <1>2 DEF WithMetadata
<1> QED BY <1>3 DEF q

WithOwner(nft, a) == [owner |-> a, uri |-> nft.uri]

LEMMA TransferIs ==
    ASSUME NEW w, IsWorld(w), NEW k, NEW t, NEW from, NEW to,
           w.nfts = [kt \in DOMAIN w.nfts |-> w.nfts[kt]],
           OwnedBy(w, k, t, from), w.nfts[<<k, t>>] \in Nft
    PROVE  Cw721Transfer(w, k, t, from, to)
             = WithNfts(w, [kt \in DOMAIN w.nfts |->
                              IF kt = <<k, t>> THEN WithOwner(w.nfts[kt], to)
                              ELSE w.nfts[kt]])
<1> DEFINE key == <<k, t>>
           q == [w EXCEPT !.nfts[key].owner = to]
           nfts == w.nfts
           nft == w.nfts[key]
           f == [kt \in DOMAIN nfts |-> IF kt = key THEN WithOwner(nfts[kt], to)
                                        ELSE nfts[kt]]
<1>1. Cw721Transfer(w, k, t, from, to) = q
  BY WorldNotError DEF Cw721Transfer
<1>2. key \in DOMAIN nfts
  BY DEF OwnedBy, Exists, Has
<1>3. [nft EXCEPT !.owner = to] = WithOwner(nft, to)
  <2> DEFINE o == [nft EXCEPT !.owner = to]
  <2>1. o = [x \in DOMAIN o |-> o[x]] /\ DOMAIN o = {"owner", "uri"}
    BY DEF Nft
  <2>2. o.owner = to /\ o.uri = nft.uri
    BY DEF Nft
  <2> HIDE DEF o, nft
  <2>3. o = WithOwner(nft, to)
    BY <2>1, <2>2 DEF WithOwner
  <2> QED BY <2>3 DEF o
<1>4. q = [w EXCEPT !.nfts = [nfts EXCEPT ![key] = [nft EXCEPT !.owner = to]]]
  BY Zenon
<1>5. [nfts EXCEPT ![key] = WithOwner(nft, to)] = f
  <2> HIDE DEF key
  <2> QED BY <1>2
<1> HIDE DEF q, f, nft
<1>6. q = [w EXCEPT !.nfts = f]
  BY <1>3, <1>4, <1>5
<1>7. q = WithNfts(w, f)
  BY <1>6, ExceptNfts
<1> QED BY <1>1, <1>7 DEF f

LEMMA MintIs ==
    ASSUME NEW w, IsWorld(w), NEW k, NEW t, NEW owner, NEW uri
    PROVE  Cw721Mint(w, k, t, owner, uri)
             = IF Exists(w, k, t) THEN Error
               ELSE WithNfts(w, Save(w.nfts, <<k, t>>, [owner |-> owner, uri |-> uri]))
<1> DEFINE f == Save(w.nfts, <<k, t>>, [owner |-> owner, uri |-> uri])
<1>1. Cw721Mint(w, k, t, owner, uri) = IF Exists(w, k, t) THEN Error
                                       ELSE [w EXCEPT !.nfts = f]
  BY WorldNotError DEF Cw721Mint
<1> HIDE DEF f
<1>2. [w EXCEPT !.nfts = f] = WithNfts(w, f)
  BY ExceptNfts
<1> QED BY <1>1, <1>2 DEF f

LEMMA BurnIs ==
    ASSUME NEW w, IsWorld(w), NEW k, NEW t, NEW a, OwnedBy(w, k, t, a)
    PROVE  Cw721Burn(w, k, t, a) = WithNfts(w, Remove(w.nfts, <<k, t>>))
<1> DEFINE f == Remove(w.nfts, <<k, t>>)
<1>1. Cw721Burn(w, k, t, a) = [w EXCEPT !.nfts = f]
  BY DEF Cw721Burn
<1> HIDE DEF f
<1>2. [w EXCEPT !.nfts = f] = WithNfts(w, f)
  BY ExceptNfts
<1> QED BY <1>1, <1>2 DEF f

(***************************************************************************)
(* The redemption of a packet.                                             *)
(***************************************************************************)
NftsOf(k, D) == {<<k, t>> : t \in D}

Released(w, k, D, a) ==
    WithNfts(w, [kt \in DOMAIN w.nfts |->
                   IF kt \in NftsOf(k, D) THEN WithOwner(w.nfts[kt], a)
                   ELSE w.nfts[kt]])

LEMMA ReleaseOne ==
    ASSUME NEW w, WorldType(w), NEW k, NEW D, NEW t, NEW a, t \notin D,
           OwnedBy(w, k, t, Bridge)
    PROVE  Cw721Transfer(Released(w, k, D, a), k, t, Bridge, a)
             = Released(w, k, D \cup {t}, a)
<1> DEFINE v == Released(w, k, D, a)
           key == <<k, t>>
           f == [kt \in DOMAIN w.nfts |->
                   IF kt \in NftsOf(k, D) THEN WithOwner(w.nfts[kt], a)
                   ELSE w.nfts[kt]]
<1>1. v = WithNfts(w, f) /\ v.nfts = f
  BY DEF Released, WithNfts
<1>2. IsWorld(v)
  BY DEF Released, IsWorld, WithNfts
<1>3. key \in DOMAIN w.nfts /\ w.nfts[key] \in Nft /\ key \notin NftsOf(k, D)
  BY DEF WorldType, IsMap, OwnedBy, Exists, Has, NftsOf
<1>4. f = [kt \in DOMAIN f |-> f[kt]] /\ DOMAIN f = DOMAIN w.nfts /\ f[key] = w.nfts[key]
  BY <1>3
<1>5. OwnedBy(v, k, t, Bridge)
  BY <1>1, <1>3, <1>4 DEF OwnedBy, Exists, Has
<1> DEFINE h == [kt \in DOMAIN f |-> IF kt = key THEN WithOwner(f[kt], a) ELSE f[kt]]
<1>6. Cw721Transfer(v, k, t, Bridge, a) = WithNfts(v, h)
  <2>1. v.nfts = [kt \in DOMAIN v.nfts |-> v.nfts[kt]] /\ v.nfts[<<k, t>>] \in Nft
    BY <1>1, <1>3, <1>4
  <2> HIDE DEF v, f
  <2> QED BY <1>1, <1>2, <1>5, <2>1, TransferIs
<1>7. NftsOf(k, D \cup {t}) = NftsOf(k, D) \cup {key}
  BY DEF NftsOf
<1>8. h = [kt \in DOMAIN w.nfts |->
             IF kt \in NftsOf(k, D \cup {t}) THEN WithOwner(w.nfts[kt], a)
             ELSE w.nfts[kt]]
  <2> HIDE DEF key
  <2> QED BY <1>3, <1>7
<1>9. WithNfts(v, h) = WithNfts(w, h)
  BY <1>1 DEF WithNfts
<1> QED BY <1>6, <1>8, <1>9 DEF Released

\* The positions that return a token are the first ones of the tokens returned.
LEMMA RedeemedFirst ==
    ASSUME NEW p, Readable(p)
    PROVE  /\ \A i, j \in RedeemedAt(p) :
                p.data.token_ids[i] = p.data.token_ids[j] => i = j
           /\ {p.data.token_ids[j] : j \in RedeemedAt(p)} = RedeemedBy(p)
           /\ RedeemedBy(p) \subseteq Tokens
<1> DEFINE ids == p.data.token_ids
           n == Len(ids)
<1>0. n \in Nat /\ DOMAIN ids = 1 .. n /\ \A i \in 1 .. n : ids[i] \in Tokens
  BY ReadableTypes
<1>1. \A i \in RedeemedAt(p) : /\ i \in 1 .. n /\ ids[i] \in RedeemedBy(p)
                               /\ \A j \in 1 .. i - 1 : ids[j] # ids[i]
  BY <1>0 DEF RedeemedAt, CreatedAt
<1>2. ASSUME NEW i \in RedeemedAt(p), NEW j \in RedeemedAt(p), ids[i] = ids[j]
      PROVE  i = j
  <2>1. CASE i < j
    BY <1>0, <1>1, <1>2, <2>1
  <2>2. CASE j < i
    BY <1>0, <1>1, <1>2, <2>2
  <2> QED BY <1>0, <1>1, <2>1, <2>2
<1>3. ASSUME NEW t \in RedeemedBy(p) PROVE \E j \in RedeemedAt(p) : t = ids[j]
  <2> DEFINE P == {j \in 1 .. n : ids[j] = t}
  <2>1. P # {} /\ P \in SUBSET Nat
    BY <1>0, <1>3 DEF RedeemedBy, SeqExt!ToSet
  <2>2. PICK j \in P : \A i \in P : j <= i
    BY <2>1, LeastOf
  <2>3. j \in RedeemedAt(p)
    BY <1>0, <1>3, <2>2 DEF RedeemedAt, CreatedAt
  <2> QED BY <2>2, <2>3
<1>4. RedeemedBy(p) \subseteq Tokens
  BY <1>0 DEF RedeemedBy, SeqExt!ToSet
<1>5. {ids[j] : j \in RedeemedAt(p)} = RedeemedBy(p)
  BY <1>1, <1>3
<1> QED BY <1>2, <1>4, <1>5

LEMMA RedemptionIs ==
    ASSUME NEW p, Readable(p), NEW w, WorldType(w), NEW r, NEW l,
           Lists(r, l, RedeemedAt(p)), l # 0,
           Has(w.nftContract, Unprefixed(p.data.class_id))
    PROVE  LET k == w.nftContract[Unprefixed(p.data.class_id)] IN
           IF \A t \in RedeemedBy(p) : OwnedBy(w, k, t, Bridge)
           THEN AfterRedemption(w, p, r, l)
                  = Released(w, k, RedeemedBy(p), p.data.receiver)
           ELSE AfterRedemption(w, p, r, l) = Error
<1> DEFINE x == Unprefixed(p.data.class_id)
           k == w.nftContract[x]
           rcv == p.data.receiver
           R == RedemptionOf(p, r, l)
           ids == [a \in 1 .. l |-> p.data.token_ids[r[a]]]
           D(i) == {ids[a] : a \in 1 .. i}
<1>1. /\ l \in Nat /\ l > 0 /\ \A a \in 1 .. l : r[a] \in RedeemedAt(p)
      /\ \A d \in RedeemedAt(p) : \E a \in 1 .. l : r[a] = d
      /\ \A a, b \in 1 .. l : r[a] = r[b] => a = b
  BY DEF Lists
<1>2. R.class.id = x /\ R.token_ids = ids /\ DOMAIN ids = 1 .. l
  BY DEF RedemptionOf, Class
<1>3. rcv # BadAddr
  BY ReceiveAssumption DEF Readable
<1>4. PICK g : /\ g[0] = w
               /\ \A i \in 1 .. l : g[i] = Cw721Transfer(g[i - 1], k, R.token_ids[i],
                                                         Bridge, rcv)
               /\ callback_redeem_vouchers(w, rcv, R) = g[l]
  <2>1. /\ Has(w.nftContract, R.class.id) /\ DOMAIN R.token_ids = 1 .. l
        /\ k = w.nftContract[R.class.id] /\ l \in Nat
    <3> HIDE DEF R, ids
    <3> QED BY <1>1, <1>2
  <2> HIDE DEF R, ids, rcv, x, k
  <2> QED BY <1>3, <2>1, RedeemLoop, SMTT(30)
<1>5. \A a \in 1 .. l : ids[a] = p.data.token_ids[r[a]] /\ ids[a] \in RedeemedBy(p)
  BY <1>1, RedeemedFirst
<1>6. \A a, b \in 1 .. l : ids[a] = ids[b] => a = b
  BY <1>1, <1>5, RedeemedFirst
<1>7. D(l) = RedeemedBy(p)
  BY <1>1, <1>5, RedeemedFirst
<1> HIDE DEF ids
<1> DEFINE Owned(i) == \A a \in 1 .. i : OwnedBy(w, k, ids[a], Bridge)
           T == {i \in Nat : IF Owned(i) THEN g[i] = Released(w, k, D(i), rcv)
                             ELSE g[i] = Error}
<1>8. 0 \in T
  <2>1. NftsOf(k, D(0)) = {}
    BY DEF NftsOf
  <2>2. w.nfts = [kt \in DOMAIN w.nfts |-> w.nfts[kt]] /\ w = WithNfts(w, w.nfts)
    BY WorldIsWorld DEF WorldType, IsMap, IsWorld
  <2>3. Released(w, k, D(0), rcv) = w
    BY <2>1, <2>2 DEF Released
  <2>4. Owned(0)
    OBVIOUS
  <2> QED BY <1>4, <2>3, <2>4
<1>9. ASSUME NEW i \in 1 .. l, i - 1 \in T PROVE i \in T
  <2>1. ids[i] \notin D(i - 1)
    BY <1>1, <1>5, <1>6
  <2>2. D(i) = D(i - 1) \cup {ids[i]}
    BY <1>1
  <2>3. Owned(i) <=> Owned(i - 1) /\ OwnedBy(w, k, ids[i], Bridge)
    BY <1>1
  <2>4. g[i] = Cw721Transfer(g[i - 1], k, ids[i], Bridge, rcv)
    BY <1>2, <1>4
  <2>5. IF Owned(i - 1) THEN g[i - 1] = Released(w, k, D(i - 1), rcv)
        ELSE g[i - 1] = Error
    BY <1>9
  <2> HIDE DEF D, Owned, T
  <2>6. CASE Owned(i)
    <3>1. g[i] = Released(w, k, D(i), rcv)
      BY <2>1, <2>2, <2>3, <2>4, <2>5, <2>6, ReleaseOne
    <3> QED BY <1>1, <2>6, <3>1 DEF T
  <2>7. CASE ~Owned(i)
    <3>1. CASE ~Owned(i - 1)
      <4>1. g[i] = Error
        BY <2>4, <2>5, <3>1 DEF Cw721Transfer
      <4> QED BY <1>1, <2>7, <4>1 DEF T
    <3>2. CASE Owned(i - 1)
      <4>1. ~OwnedBy(w, k, ids[i], Bridge)
        BY <2>3, <2>7, <3>2
      <4>2. ~OwnedBy(Released(w, k, D(i - 1), rcv), k, ids[i], Bridge)
        BY <2>1, <4>1 DEF OwnedBy, Exists, Has, Released, WithNfts, NftsOf
      <4>3. g[i] = Error
        BY <2>4, <2>5, <3>2, <4>2 DEF Cw721Transfer
      <4> QED BY <1>1, <2>7, <4>3 DEF T
    <3> QED BY <3>1, <3>2
  <2> QED BY <2>6, <2>7
<1> HIDE DEF T
<1>10. l \in T
  BY <1>1, <1>8, <1>9, UpTo
<1> HIDE DEF D
<1>11. IF Owned(l) THEN g[l] = Released(w, k, RedeemedBy(p), rcv) ELSE g[l] = Error
  BY <1>7, <1>10 DEF T
<1>12. Owned(l) <=> \A t \in RedeemedBy(p) : OwnedBy(w, k, t, Bridge)
  BY <1>7, <1>5 DEF D
<1> HIDE DEF Owned
<1>13. AfterRedemption(w, p, r, l) = g[l]
  BY <1>4 DEF AfterRedemption
<1> QED BY <1>11, <1>12, <1>13

(***************************************************************************)
(* The creation of a packet.                                               *)
(***************************************************************************)
KeysUpTo(z, toks, i) == {<<z, toks[a].id>> : a \in 1 .. i}

\* The world with the class saved and its contract there.
Ready(w, z, class) ==
    [nfts |-> w.nfts,
     nftContract |-> IF Has(w.nftContract, z) THEN w.nftContract
                     ELSE Save(w.nftContract, z, VoucherAddr(z)),
     nftClass |-> IF Has(w.nftContract, z) THEN w.nftClass
                  ELSE Save(w.nftClass, VoucherAddr(z), z),
     classes |-> Save(w.classes, z, class),
     metadata |-> w.metadata]

LEMMA CreateIs ==
    ASSUME NEW w, IsWorld(w), NEW rcv, NEW create
    PROVE  callback_create_vouchers(w, rcv, create)
             = callback_mint(Ready(w, create.class.id, create.class),
                             create.class.id, create.tokens, rcv)
<1> DEFINE z == create.class.id
           class == create.class
           s == Save(w.classes, z, class)
           saved == [w EXCEPT !.classes = s]
           k == VoucherAddr(z)
           c2 == Save(w.nftContract, z, k)
           l2 == Save(w.nftClass, k, z)
           inst == [saved EXCEPT !.nftContract = c2, !.nftClass = l2]
<1> HIDE DEF s
<1>1. saved = [nfts |-> w.nfts, nftContract |-> w.nftContract,
               nftClass |-> w.nftClass, classes |-> s, metadata |-> w.metadata]
  <2>1. /\ saved = [x \in DOMAIN saved |-> saved[x]]
        /\ DOMAIN saved = {"nfts", "nftContract", "nftClass", "classes", "metadata"}
    BY DEF IsWorld, WithNfts
  <2>2. /\ saved.nfts = w.nfts /\ saved.nftContract = w.nftContract
        /\ saved.nftClass = w.nftClass /\ saved.classes = s
        /\ saved.metadata = w.metadata
    BY DEF IsWorld, WithNfts
  <2> HIDE DEF saved
  <2> QED BY <2>1, <2>2
<1>2. InstantiateCw721(saved, z) = inst
  <2> HIDE DEF saved
  <2>1. InstantiateCw721(saved, z)
          = [saved EXCEPT !.nftContract = Save(saved.nftContract, z, k),
                          !.nftClass = Save(saved.nftClass, k, z)]
    BY DEF InstantiateCw721
  <2>2. saved.nftContract = w.nftContract /\ saved.nftClass = w.nftClass
    BY <1>1
  <2> QED BY <2>1, <2>2
<1> HIDE DEF saved, c2, l2
<1>3. inst = [nfts |-> w.nfts, nftContract |-> c2, nftClass |-> l2, classes |-> s,
              metadata |-> w.metadata]
  <2>1. /\ inst = [x \in DOMAIN inst |-> inst[x]]
        /\ DOMAIN inst = {"nfts", "nftContract", "nftClass", "classes", "metadata"}
    BY <1>1
  <2>2. /\ inst.nfts = w.nfts /\ inst.nftContract = c2
        /\ inst.nftClass = l2 /\ inst.classes = s /\ inst.metadata = w.metadata
    BY <1>1
  <2> HIDE DEF inst
  <2> QED BY <2>1, <2>2
<1> HIDE DEF inst
<1>4. Ready(w, z, class) = IF Has(w.nftContract, z) THEN saved ELSE inst
  BY <1>1, <1>3 DEF Ready, s, c2, l2
<1>5. callback_create_vouchers(w, rcv, create)
        = callback_mint(IF Has(w.nftContract, z) THEN saved
                        ELSE InstantiateCw721(saved, z), z, create.tokens, rcv)
  BY DEF callback_create_vouchers, saved, s
<1> QED BY <1>2, <1>4, <1>5, Zenon

\* The metadata after i tokens: where the IDs repeat, that of one of them.
DescribedUpTo(m, old, z, toks, i) ==
    /\ m = [key \in DOMAIN m |-> m[key]]
    /\ DOMAIN m = DOMAIN old \cup KeysUpTo(z, toks, i)
    /\ \A key \in KeysUpTo(z, toks, i) :
         \E a \in 1 .. i : key = <<z, toks[a].id>> /\ m[key] = toks[a].data
    /\ \A key \in DOMAIN old \ KeysUpTo(z, toks, i) : m[key] = old[key]

LEMMA SaveMetadataIs ==
    ASSUME NEW w, IsWorld(w), w.metadata = [key \in DOMAIN w.metadata |-> w.metadata[key]],
           NEW z, NEW toks, NEW l \in Nat, DOMAIN toks = 1 .. l
    PROVE  \E m : /\ SaveMetadata(w, z, toks) = WithMetadata(w, m)
                  /\ DescribedUpTo(m, w.metadata, z, toks, l)
<1>1. PICK g : /\ g[0] = w
               /\ \A i \in 1 .. l : g[i] = SaveStep(z, g[i - 1], toks[i])
               /\ SaveMetadata(w, z, toks) = g[l]
  BY SaveLoop
<1> DEFINE T == {i \in Nat : \E m : /\ g[i] = WithMetadata(w, m)
                                    /\ DescribedUpTo(m, w.metadata, z, toks, i)}
<1>2. 0 \in T
  <2>1. KeysUpTo(z, toks, 0) = {}
    BY DEF KeysUpTo
  <2>2. DescribedUpTo(w.metadata, w.metadata, z, toks, 0)
    BY <2>1 DEF DescribedUpTo
  <2>3. w = WithMetadata(w, w.metadata)
    BY DEF IsWorld, WithNfts, WithMetadata
  <2> QED BY <1>1, <2>2, <2>3
<1>3. ASSUME NEW i \in 1 .. l, i - 1 \in T PROVE i \in T
  <2>1. PICK m : /\ g[i - 1] = WithMetadata(w, m)
                 /\ DescribedUpTo(m, w.metadata, z, toks, i - 1)
    BY <1>3
  <2> DEFINE v == WithMetadata(w, m)
             key == <<z, toks[i].id>>
             m2 == Save(m, key, toks[i].data)
  <2>2. v.metadata = m /\ IsWorld(v) /\ \A f : WithMetadata(v, f) = WithMetadata(w, f)
    BY DEF WithMetadata, IsWorld, WithNfts
  <2>3. g[i] = [v EXCEPT !.metadata = m2]
    BY <1>1, <2>1, <2>2 DEF SaveStep
  <2> HIDE DEF v, m2
  <2>4. g[i] = WithMetadata(w, m2)
    BY <2>2, <2>3, ExceptMetadata
  <2>5. KeysUpTo(z, toks, i) = KeysUpTo(z, toks, i - 1) \cup {key}
    BY DEF KeysUpTo
  <2>6. DescribedUpTo(m2, w.metadata, z, toks, i)
    <3>1. /\ m2 = [x \in DOMAIN m2 |-> m2[x]]
          /\ DOMAIN m2 = DOMAIN m \cup {key} /\ m2[key] = toks[i].data
          /\ \A x \in DOMAIN m : x # key => m2[x] = m[x]
      <4> HIDE DEF key
      <4> QED BY DEF Save, m2
    <3>2. DOMAIN m2 = DOMAIN w.metadata \cup KeysUpTo(z, toks, i)
      BY <2>1, <2>5, <3>1 DEF DescribedUpTo
    <3>3. ASSUME NEW x \in KeysUpTo(z, toks, i)
          PROVE  \E a \in 1 .. i : x = <<z, toks[a].id>> /\ m2[x] = toks[a].data
      <4>1. CASE x = key
        BY <3>1, <4>1
      <4>2. CASE x # key
        <5>1. x \in KeysUpTo(z, toks, i - 1) /\ x \in DOMAIN m
          BY <2>1, <2>5, <3>3, <4>2 DEF DescribedUpTo
        <5>2. PICK a \in 1 .. i - 1 : x = <<z, toks[a].id>> /\ m[x] = toks[a].data
          BY <2>1, <5>1 DEF DescribedUpTo
        <5> QED BY <3>1, <4>2, <5>1, <5>2
      <4> QED BY <4>1, <4>2
    <3>4. \A x \in DOMAIN w.metadata \ KeysUpTo(z, toks, i) : m2[x] = w.metadata[x]
      BY <2>1, <2>5, <3>1 DEF DescribedUpTo
    <3> QED BY <3>1, <3>2, <3>3, <3>4 DEF DescribedUpTo
  <2> QED BY <2>4, <2>6
<1> HIDE DEF T
<1>4. l \in T
  BY <1>2, <1>3, UpTo
<1> QED BY <1>1, <1>4 DEF T

\* The tokens after i mints, none of which has found its token there.
MintedUpTo(f, old, k, toks, rcv, i) ==
    /\ f = [kt \in DOMAIN f |-> f[kt]]
    /\ DOMAIN f = DOMAIN old \cup KeysUpTo(k, toks, i)
    /\ \A a \in 1 .. i : /\ <<k, toks[a].id>> \notin DOMAIN old
                         /\ f[<<k, toks[a].id>>] = [owner |-> rcv, uri |-> toks[a].uri]
    /\ \A kt \in DOMAIN old : f[kt] = old[kt]
    /\ \A a, b \in 1 .. i : toks[a].id = toks[b].id => a = b

\* Why one may: a token that is there, or that is in the list twice.
MintFails(old, k, toks, l) ==
    \/ \E a \in 1 .. l : <<k, toks[a].id>> \in DOMAIN old
    \/ \E a, b \in 1 .. l : a # b /\ toks[a].id = toks[b].id

LEMMA MintingIs ==
    ASSUME NEW w, IsWorld(w), w.nfts = [kt \in DOMAIN w.nfts |-> w.nfts[kt]],
           w.metadata = [key \in DOMAIN w.metadata |-> w.metadata[key]],
           NEW z, NEW rcv, rcv # BadAddr, NEW toks, NEW l \in Nat, DOMAIN toks = 1 .. l
    PROVE  LET k == w.nftContract[z]
               after == callback_mint(w, z, toks, rcv)
           IN  \/ after = Error /\ MintFails(w.nfts, k, toks, l)
               \/ \E f, m : /\ after = WithNfts(WithMetadata(w, m), f)
                            /\ MintedUpTo(f, w.nfts, k, toks, rcv, l)
                            /\ DescribedUpTo(m, w.metadata, z, toks, l)
<1> DEFINE k == w.nftContract[z]
<1>1. PICK m : /\ SaveMetadata(w, z, toks) = WithMetadata(w, m)
               /\ DescribedUpTo(m, w.metadata, z, toks, l)
  BY SaveMetadataIs
<1> DEFINE v == WithMetadata(w, m)
<1> HIDE DEF k
<1>2. PICK g : /\ g[0] = v
               /\ \A i \in 1 .. l : g[i] = Cw721Mint(g[i - 1], k, toks[i].id, rcv,
                                                     toks[i].uri)
               /\ callback_mint(w, z, toks, rcv) = g[l]
  BY <1>1, MintLoop DEF k
<1>3. v.nfts = w.nfts /\ IsWorld(v)
  BY DEF WithMetadata, IsWorld, WithNfts
<1> HIDE DEF v
<1> DEFINE T == {i \in Nat :
                   \/ g[i] = Error /\ MintFails(w.nfts, k, toks, l)
                   \/ \E f : /\ g[i] = WithNfts(v, f)
                             /\ MintedUpTo(f, w.nfts, k, toks, rcv, i)}
<1>4. 0 \in T
  <2>1. KeysUpTo(k, toks, 0) = {}
    BY DEF KeysUpTo
  <2>2. MintedUpTo(w.nfts, w.nfts, k, toks, rcv, 0)
    BY <2>1 DEF MintedUpTo
  <2>3. v = WithNfts(v, w.nfts)
    BY <1>3 DEF IsWorld
  <2> QED BY <1>2, <2>2, <2>3
<1>5. ASSUME NEW i \in 1 .. l, i - 1 \in T PROVE i \in T
  <2>1. CASE g[i - 1] = Error /\ MintFails(w.nfts, k, toks, l)
    <3>1. g[i] = Error
      BY <1>2, <2>1 DEF Cw721Mint
    <3> QED BY <2>1, <3>1
  <2>2. ASSUME NEW f, g[i - 1] = WithNfts(v, f),
               MintedUpTo(f, w.nfts, k, toks, rcv, i - 1)
        PROVE  i \in T
    <3> DEFINE u == WithNfts(v, f)
               key == <<k, toks[i].id>>
               nft == [owner |-> rcv, uri |-> toks[i].uri]
               f2 == Save(f, key, nft)
    <3>1. u.nfts = f /\ IsWorld(u) /\ \A h : WithNfts(u, h) = WithNfts(v, h)
      BY DEF WithNfts, IsWorld
    <3>2. g[i] = IF key \in DOMAIN f THEN Error ELSE WithNfts(v, f2)
      <4> HIDE DEF u
      <4>1. g[i] = Cw721Mint(u, k, toks[i].id, rcv, toks[i].uri)
        BY <1>2, <2>2 DEF u
      <4> QED BY <3>1, <4>1, MintIs DEF Exists, Has
    <3>3. DOMAIN f = DOMAIN w.nfts \cup KeysUpTo(k, toks, i - 1)
      BY <2>2 DEF MintedUpTo
    <3>4. CASE key \in DOMAIN f
      <4>1. MintFails(w.nfts, k, toks, l)
        <5>1. CASE key \in DOMAIN w.nfts
          BY <5>1 DEF MintFails
        <5>2. CASE key \in KeysUpTo(k, toks, i - 1)
          <6>1. PICK a \in 1 .. i - 1 : key = <<k, toks[a].id>>
            BY <5>2 DEF KeysUpTo
          <6>2. a \in 1 .. l /\ a # i /\ toks[a].id = toks[i].id
            BY <6>1
          <6> QED BY <6>2 DEF MintFails
        <5> QED BY <3>3, <3>4, <5>1, <5>2
      <4> QED BY <3>2, <3>4, <4>1
    <3>5. CASE key \notin DOMAIN f
      <4>1. KeysUpTo(k, toks, i) = KeysUpTo(k, toks, i - 1) \cup {key}
        BY DEF KeysUpTo
      <4>2. /\ f2 = [x \in DOMAIN f2 |-> f2[x]]
            /\ DOMAIN f2 = DOMAIN f \cup {key} /\ f2[key] = nft
            /\ \A x \in DOMAIN f : f2[x] = f[x]
        <5> HIDE DEF key, nft
        <5> QED BY <3>5 DEF Save
      <4> HIDE DEF f2
      <4>3. \A a \in 1 .. i : a # i => a \in 1 .. i - 1
        OBVIOUS
      <4>4. \A a \in 1 .. i - 1 : <<k, toks[a].id>> \in DOMAIN f
        BY <3>3 DEF KeysUpTo
      <4>5. ASSUME NEW a \in 1 .. i
            PROVE  /\ <<k, toks[a].id>> \notin DOMAIN w.nfts
                   /\ f2[<<k, toks[a].id>>] = [owner |-> rcv, uri |-> toks[a].uri]
        <5>1. CASE a = i
          BY <3>3, <3>5, <4>2, <5>1
        <5>2. CASE a # i
          BY <2>2, <4>2, <4>3, <4>4, <5>2 DEF MintedUpTo
        <5> QED BY <5>1, <5>2
      <4>6. \A a, b \in 1 .. i : toks[a].id = toks[b].id => a = b
        BY <2>2, <3>5, <4>3, <4>4 DEF MintedUpTo
      <4>7. MintedUpTo(f2, w.nfts, k, toks, rcv, i)
        BY <2>2, <3>3, <4>1, <4>2, <4>5, <4>6 DEF MintedUpTo
      <4> QED BY <3>2, <3>5, <4>7
    <3> QED BY <3>4, <3>5
  <2> QED BY <1>5, <2>1, <2>2
<1> HIDE DEF T
<1>6. l \in T
  BY <1>4, <1>5, UpTo
<1> QED BY <1>1, <1>2, <1>6 DEF T, k, v

(***************************************************************************)
(* The submessage of a packet as a whole: what world becomes, with the     *)
(* loops gone.                                                             *)
(***************************************************************************)
RedeemedHeld(p) ==
    \A t \in RedeemedBy(p) : Held(Unprefixed(p.data.class_id), t)

\* What it returns is at least of a class that has a contract.
RedeemedKnown(p) ==
    RedeemedBy(p) # {} => Has(world.nftContract, Unprefixed(p.data.class_id))

CreatedTokens(p) == {p.data.token_ids[i] : i \in CreatedAt(p)}

ReceivedNfts(p, nfts) ==
    LET k == VoucherAddr(VoucherClass(p)) IN
    /\ nfts = [kt \in DOMAIN nfts |-> nfts[kt]]
    /\ DOMAIN nfts = DOMAIN world.nfts \cup NftsOf(k, CreatedTokens(p))
    /\ NftsOf(k, CreatedTokens(p)) \cap DOMAIN world.nfts = {}
    /\ \A kt \in DOMAIN world.nfts :
         nfts[kt] = IF kt \in RedeemedNfts(p)
                    THEN WithOwner(world.nfts[kt], p.data.receiver)
                    ELSE world.nfts[kt]
    /\ \A i \in CreatedAt(p) :
         nfts[<<k, p.data.token_ids[i]>>]
           = [owner |-> p.data.receiver, uri |-> At(p.data.token_uris, i)]

ReceivedMetadata(p, m) ==
    LET new == NftsOf(VoucherClass(p), CreatedTokens(p)) IN
    /\ m = [key \in DOMAIN m |-> m[key]]
    /\ DOMAIN m = DOMAIN world.metadata \cup new
    /\ \A key \in DOMAIN world.metadata \ new : m[key] = world.metadata[key]
    /\ \A i \in CreatedAt(p) :
         m[<<VoucherClass(p), p.data.token_ids[i]>>] = At(p.data.token_data, i)

Received(p, w) ==
    LET z == VoucherClass(p)
        base == IF CreatedAt(p) = {} THEN world
                ELSE Ready(world, z, Class(z, p.data))
    IN  /\ IsWorld(w) /\ w.nftContract = base.nftContract
        /\ w.nftClass = base.nftClass /\ w.classes = base.classes
        /\ ReceivedNfts(p, w.nfts) /\ ReceivedMetadata(p, w.metadata)

LEMMA AfterRedemptionIs ==
    ASSUME NEW p, Readable(p), WorldType(world), RedeemedKnown(p), NEW r, NEW l,
           Lists(r, l, RedeemedAt(p))
    PROVE  \/ AfterRedemption(world, p, r, l) = Error /\ ~RedeemedHeld(p)
           \/ /\ RedeemedHeld(p)
              /\ \E f : /\ AfterRedemption(world, p, r, l) = WithNfts(world, f)
                        /\ f = [kt \in DOMAIN world.nfts |->
                                  IF kt \in RedeemedNfts(p)
                                  THEN WithOwner(world.nfts[kt], p.data.receiver)
                                  ELSE world.nfts[kt]]
<1> DEFINE x == Unprefixed(p.data.class_id)
           f == [kt \in DOMAIN world.nfts |->
                   IF kt \in RedeemedNfts(p)
                   THEN WithOwner(world.nfts[kt], p.data.receiver)
                   ELSE world.nfts[kt]]
<1>1. CASE l = 0
  <2>1. RedeemedBy(p) = {}
    BY <1>1, ListsNone, RedeemedFirst
  <2>2. RedeemedNfts(p) = {}
    BY <2>1 DEF RedeemedNfts
  <2>3. f = world.nfts
    BY <2>2 DEF WorldType, IsMap
  <2>4. AfterRedemption(world, p, r, l) = WithNfts(world, world.nfts)
    BY <1>1, WorldIsWorld DEF AfterRedemption, IsWorld
  <2>5. RedeemedHeld(p)
    BY <2>1 DEF RedeemedHeld
  <2> QED BY <2>3, <2>4, <2>5
<1>2. CASE l # 0
  <2>1. RedeemedBy(p) # {}
    BY <1>2, ListsNone, RedeemedFirst
  <2>2. Has(world.nftContract, x)
    BY <2>1 DEF RedeemedKnown
  <2>3. RedeemedHeld(p) <=>
          \A t \in RedeemedBy(p) : OwnedBy(world, world.nftContract[x], t, Bridge)
    BY <2>2 DEF RedeemedHeld, Held
  <2>4. IF RedeemedHeld(p)
        THEN AfterRedemption(world, p, r, l)
               = Released(world, world.nftContract[x], RedeemedBy(p), p.data.receiver)
        ELSE AfterRedemption(world, p, r, l) = Error
    BY <1>2, <2>2, <2>3, RedemptionIs
  <2>5. RedeemedNfts(p) = NftsOf(world.nftContract[x], RedeemedBy(p))
    BY DEF RedeemedNfts, NftsOf
  <2>6. RedeemedHeld(p) => AfterRedemption(world, p, r, l) = WithNfts(world, f)
    BY <2>4, <2>5 DEF Released
  <2> QED BY <2>4, <2>6
<1> QED BY <1>1, <1>2

\* A token of the contract of a voucher class is of a class that is registered.
LEMMA VoucherRegistered ==
    ASSUME NEW w, WorldType(w), WorldShape(w), NEW z \in ClassId, z.path # << >>,
           NEW t, Exists(w, VoucherAddr(z), t)
    PROVE  Has(w.nftContract, z) /\ w.nftContract[z] = VoucherAddr(z)
<1> DEFINE k == VoucherAddr(z)
<1>1. k \in VoucherAddrs /\ k \notin Collections
  BY ReceiveAssumption DEF VoucherAddrs, VoucherAddr
<1>2. k \in DOMAIN w.nftClass
  BY <1>1 DEF WorldShape, TokensKnown, Exists, Has
<1> DEFINE x == w.nftClass[k]
<1>3. x \in DOMAIN w.nftContract /\ w.nftContract[x] = k /\ x \in ClassId
  BY <1>2 DEF WorldShape, RegistryInverse, WorldType, IsMap
<1>4. x.path # << >>
  BY <1>1, <1>3 DEF WorldShape, ContractsNamed, ClassId
<1>5. VoucherAddr(x) = VoucherAddr(z)
  BY <1>3, <1>4 DEF WorldShape, ContractsNamed
<1>6. VoucherAddr(x).voucher = x /\ VoucherAddr(z).voucher = z
  BY DEF VoucherAddr
<1> QED BY <1>3, <1>5, <1>6 DEF Has

LEMMA OutcomeLaw ==
    ASSUME NEW p, Readable(p), WorldType(world), WorldShape(world), RedeemedKnown(p),
           outgoing = [key \in DOMAIN outgoing |-> outgoing[key]],
           incoming = [key \in DOMAIN incoming |-> incoming[key]]
    PROVE  \/ Outcome(p) = Error /\ (Duplicates(p) \/ ~RedeemedHeld(p))
           \/ Outcome(p) # Error /\ RedeemedHeld(p) /\ Received(p, Outcome(p))
<1> DEFINE z == VoucherClass(p)
           class == Class(z, p.data)
           ids == p.data.token_ids
           rcv == p.data.receiver
           k == VoucherAddr(z)
<1>0. IsWorld(world) /\ world # Error
  BY WorldIsWorld, WorldNotError
<1>1. PICK r, rl, c, cl :
        /\ Lists(r, rl, RedeemedAt(p)) /\ Lists(c, cl, CreatedAt(p))
        /\ Outcome(p) = AfterCreation(AfterRedemption(world, p, r, rl), p, c, cl)
  BY <1>0, OutcomeIs
<1>9. CASE AfterRedemption(world, p, r, rl) = Error /\ ~RedeemedHeld(p)
  BY <1>1, <1>9 DEF AfterCreation
<1> SUFFICES ASSUME ~(AfterRedemption(world, p, r, rl) = Error /\ ~RedeemedHeld(p))
             PROVE  \/ Outcome(p) = Error /\ Duplicates(p)
                    \/ /\ Outcome(p) # Error /\ RedeemedHeld(p)
                       /\ Received(p, Outcome(p))
  BY <1>9
<1>2. PICK f0 : /\ AfterRedemption(world, p, r, rl) = WithNfts(world, f0)
                /\ f0 = [kt \in DOMAIN world.nfts |->
                           IF kt \in RedeemedNfts(p)
                           THEN WithOwner(world.nfts[kt], p.data.receiver)
                           ELSE world.nfts[kt]]
  BY <1>1, AfterRedemptionIs
<1>10. RedeemedHeld(p)
  BY <1>1, AfterRedemptionIs
<1> DEFINE u == WithNfts(world, f0)
<1>3. IsWorld(u) /\ u # Error /\ u.nfts = f0 /\ u.metadata = world.metadata
  <2>1. IsWorld(u) /\ u.nfts = f0 /\ u.metadata = world.metadata
    BY DEF IsWorld, WithNfts
  <2> QED BY <2>1, WorldNotError
<1>4. world.metadata = [key \in DOMAIN world.metadata |-> world.metadata[key]]
  BY DEF WorldType, IsMap
<1>5. CASE cl = 0
  <2>1. CreatedAt(p) = {}
    BY <1>1, <1>5, ListsNone
  <2>2. Outcome(p) = u
    BY <1>1, <1>2, <1>5 DEF AfterCreation
  <2>3. CreatedTokens(p) = {}
    BY <2>1 DEF CreatedTokens
  <2>4. NftsOf(k, CreatedTokens(p)) = {} /\ NftsOf(z, CreatedTokens(p)) = {}
    BY <2>3 DEF NftsOf
  <2>5. ReceivedNfts(p, f0)
    BY <1>2, <2>1, <2>4 DEF ReceivedNfts
  <2>6. ReceivedMetadata(p, world.metadata)
    BY <1>4, <2>1, <2>4 DEF ReceivedMetadata
  <2>7. /\ u.nftContract = world.nftContract
        /\ u.nftClass = world.nftClass /\ u.classes = world.classes
    BY DEF WithNfts
  <2>8. Received(p, u)
    BY <1>3, <2>1, <2>5, <2>6, <2>7 DEF Received
  <2> QED BY <1>3, <1>10, <2>2, <2>8
<1>6. CASE cl # 0
  <2> DEFINE toks == [a \in 1 .. cl |-> TokenAt(p, c[a])]
             w == Ready(u, z, class)
  <2>1. CreatedAt(p) # {} /\ z \in ClassId /\ z.path # << >> /\ rcv # BadAddr
    BY <1>1, <1>6, ListsNone, ReadableTypes, ReceiveAssumption DEF Readable
  <2>2. Outcome(p) = callback_mint(w, z, toks, rcv)
    <3> DEFINE C == CreationOf(p, c, cl)
    <3>1. C.class = class /\ C.class.id = z /\ C.tokens = toks
      BY <1>6 DEF CreationOf, Class
    <3>2. Outcome(p) = callback_create_vouchers(u, rcv, C)
      BY <1>1, <1>2, <1>3, <1>6 DEF AfterCreation
    <3> HIDE DEF C, u, toks
    <3> QED BY <1>3, <3>1, <3>2, CreateIs
  <2>3. cl \in Nat /\ DOMAIN toks = 1 .. cl
    BY <1>1 DEF Lists
  <2>4. /\ IsWorld(w) /\ w.nfts = f0 /\ w.metadata = world.metadata
        /\ DOMAIN f0 = DOMAIN world.nfts /\ f0 = [kt \in DOMAIN f0 |-> f0[kt]]
    BY <1>2, <1>3 DEF Ready, IsWorld, WithNfts
  <2>5. w.nftContract[z] = k
    BY <2>1 DEF Ready, WithNfts, WorldShape, ContractsNamed, Has, Save
  <2>6. \A a \in 1 .. cl : /\ c[a] \in CreatedAt(p) /\ toks[a] = TokenAt(p, c[a])
                           /\ toks[a].id = ids[c[a]]
                           /\ toks[a].uri = At(p.data.token_uris, c[a])
                           /\ toks[a].data = At(p.data.token_data, c[a])
    BY <1>1 DEF Lists, TokenAt
  <2>7. \A i \in CreatedAt(p) : \E a \in 1 .. cl : c[a] = i
    BY <1>1 DEF Lists
  <2>8. \A a, b \in 1 .. cl : c[a] = c[b] => a = b
    BY <1>1 DEF Lists
  <2> HIDE DEF toks, w
  <2>9. \A y : KeysUpTo(y, toks, cl) = NftsOf(y, CreatedTokens(p))
    BY <2>6, <2>7 DEF KeysUpTo, NftsOf, CreatedTokens
  <2>10. CASE Outcome(p) = Error /\ MintFails(f0, k, toks, cl)
    <3>1. ASSUME NEW a \in 1 .. cl, <<k, toks[a].id>> \in DOMAIN f0
          PROVE  Duplicates(p)
      <4>1. Exists(world, k, ids[c[a]])
        BY <2>4, <2>6, <3>1 DEF Exists, Has
      <4>2. Has(world.nftContract, z) /\ world.nftContract[z] = k
        BY <2>1, <4>1, VoucherRegistered
      <4> QED BY <2>6, <4>1, <4>2 DEF Duplicates
    <3>2. ASSUME NEW a \in 1 .. cl, NEW b \in 1 .. cl, a # b, toks[a].id = toks[b].id
          PROVE  Duplicates(p)
      BY <2>6, <2>8, <3>2 DEF Duplicates
    <3> QED BY <2>10, <3>1, <3>2 DEF MintFails
  <2>11. ASSUME NEW f, NEW m, Outcome(p) = WithNfts(WithMetadata(w, m), f),
                MintedUpTo(f, f0, k, toks, rcv, cl),
                DescribedUpTo(m, world.metadata, z, toks, cl)
         PROVE  Outcome(p) # Error /\ Received(p, Outcome(p))
    <3> DEFINE v == WithNfts(WithMetadata(w, m), f)
    <3>1. IsWorld(v) /\ v.nfts = f /\ v.metadata = m
      BY DEF IsWorld, WithNfts, WithMetadata
    <3>2. LET ready == Ready(world, z, class)
          IN  /\ v.nftContract = ready.nftContract
              /\ v.nftClass = ready.nftClass /\ v.classes = ready.classes
      BY DEF w, Ready, WithNfts, WithMetadata
    <3>3. ReceivedNfts(p, f)
      <4>1. f = [kt \in DOMAIN f |-> f[kt]]
        BY <2>11 DEF MintedUpTo
      <4>2. DOMAIN f = DOMAIN world.nfts \cup NftsOf(k, CreatedTokens(p))
        BY <2>4, <2>9, <2>11 DEF MintedUpTo
      <4>3. NftsOf(k, CreatedTokens(p)) \cap DOMAIN world.nfts = {}
        <5>1. \A key \in KeysUpTo(k, toks, cl) : key \notin DOMAIN f0
          BY <2>11 DEF MintedUpTo, KeysUpTo
        <5> QED BY <2>4, <2>9, <5>1
      <4>4. \A kt \in DOMAIN world.nfts :
              f[kt] = IF kt \in RedeemedNfts(p)
                      THEN WithOwner(world.nfts[kt], p.data.receiver)
                      ELSE world.nfts[kt]
        BY <1>2, <2>4, <2>11 DEF MintedUpTo
      <4>5. \A i \in CreatedAt(p) :
              f[<<k, ids[i]>>] = [owner |-> rcv, uri |-> At(p.data.token_uris, i)]
        BY <2>6, <2>7, <2>11 DEF MintedUpTo
      <4> QED BY <4>1, <4>2, <4>3, <4>4, <4>5 DEF ReceivedNfts
    <3>4. ReceivedMetadata(p, m)
      <4>1. ASSUME NEW i \in CreatedAt(p)
            PROVE  m[<<z, ids[i]>>] = At(p.data.token_data, i)
        <5>1. PICK a \in 1 .. cl : c[a] = i
          BY <2>7
        <5>2. <<z, ids[i]>> \in KeysUpTo(z, toks, cl)
          BY <2>6, <5>1 DEF KeysUpTo
        <5>3. PICK b \in 1 .. cl :
                <<z, ids[i]>> = <<z, toks[b].id>> /\ m[<<z, ids[i]>>] = toks[b].data
          BY <2>11, <5>2 DEF DescribedUpTo
        <5>4. a = b
          BY <2>6, <2>11, <5>1, <5>3 DEF MintedUpTo
        <5> QED BY <2>6, <5>1, <5>3, <5>4
      <4>2. DOMAIN m = DOMAIN world.metadata \cup NftsOf(z, CreatedTokens(p))
        BY <2>9, <2>11 DEF DescribedUpTo
      <4>3. /\ m = [key \in DOMAIN m |-> m[key]]
            /\ \A key \in DOMAIN world.metadata \ NftsOf(z, CreatedTokens(p)) :
                 m[key] = world.metadata[key]
        BY <2>9, <2>11 DEF DescribedUpTo
      <4> QED BY <4>1, <4>2, <4>3 DEF ReceivedMetadata
    <3> HIDE DEF v
    <3>5. Received(p, v)
      BY <2>1, <3>1, <3>2, <3>3, <3>4 DEF Received
    <3> QED BY <2>11, <3>1, <3>5, WorldNotError DEF v
  <2>12. \/ Outcome(p) = Error /\ MintFails(f0, k, toks, cl)
         \/ \E f, m : /\ Outcome(p) = WithNfts(WithMetadata(w, m), f)
                      /\ MintedUpTo(f, f0, k, toks, rcv, cl)
                      /\ DescribedUpTo(m, world.metadata, z, toks, cl)
    BY <1>4, <2>1, <2>2, <2>3, <2>4, <2>5, MintingIs
  <2> QED BY <1>10, <2>10, <2>11, <2>12
<1> QED BY <1>5, <1>6
============================================================================
