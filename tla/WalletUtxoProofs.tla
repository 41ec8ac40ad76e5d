-------------------------- MODULE WalletUtxoProofs --------------------------
(* Theorems about WalletUtxo for every value of its constants, with proofs.  *)
EXTENDS WalletUtxo, FiniteSetTheorems, SequenceTheorems, TLAPS

-----------------------------------------------------------------------------
(* What single steps do.                                                     *)

LEMMA PaymentIsTx ==
    ASSUME NEW cs \in SUBSET Outpoint, NEW to \in Kinds, NEW t \in Payment(cs, to)
    PROVE  t \in Tx /\ t.ins = cs
<1>1. <<to>> \in {s \in Seq(Kinds) : Len(s) <= 2}
  OBVIOUS
<1>2. <<to, "inn">> \in {s \in Seq(Kinds) : Len(s) <= 2}
  BY DEF Kinds
<1>3. [ins |-> cs, outs |-> <<to>>] \in Tx /\ [ins |-> cs, outs |-> <<to, "inn">>] \in Tx
  BY <1>1, <1>2 DEF Tx
<1>4. t = [ins |-> cs, outs |-> <<to>>] \/ t = [ins |-> cs, outs |-> <<to, "inn">>]
  BY DEF Payment
<1> QED BY <1>3, <1>4

LEMMA DepositIsTx ==
    ASSUME NEW kind \in {"ext", "inn"}
    PROVE  [ins |-> {}, outs |-> <<kind>>] \in Tx
<1>1. <<kind>> \in {s \in Seq(Kinds) : Len(s) <= 2}
  BY DEF Kinds
<1> QED BY <1>1 DEF Tx

\* The node accepts a transaction.
LEMMA Accepted ==
    ASSUME NodeOK, NEW t \in Tx, Accept(t)
    PROVE  /\ Len(txs) + 1 \in Ids
           /\ DOMAIN txs = 1 .. Len(txs) /\ Len(txs) \in Nat
           /\ txs' \in Seq(Tx) /\ Len(txs') <= MaxTxs
           /\ DOMAIN txs' = DOMAIN txs \cup {Len(txs) + 1}
           /\ \A id \in DOMAIN txs : txs'[id] = txs[id]
           /\ txs'[Len(txs) + 1] = t
<1>1. txs \in Seq(Tx) /\ Len(txs) < MaxTxs /\ txs' = Append(txs, t)
  BY DEF NodeOK, Accept
<1> QED BY <1>1, UtxoBounds DEF Ids, UtxoBounds

\* A block is mined: every transaction of s is in it, and no other.
LEMMA MinedBlock ==
    ASSUME NodeOK, NEW s \in SUBSET mempool, Mine(s)
    PROVE  /\ chain' \in Seq(Seq(Ids)) /\ Len(chain) \in Nat
           /\ DOMAIN chain = 1 .. Len(chain)
           /\ DOMAIN chain' = 1 .. Len(chain) + 1 /\ Len(chain') = Len(chain) + 1
           /\ \A h \in 1 .. Len(chain) : chain'[h] = chain[h]
           /\ ToSet(chain'[Len(chain) + 1]) = s
<1>1. PICK b \in BlockOrders(s) : chain' = Append(chain, b)
  BY DEF Mine
<1>2. DOMAIN txs \subseteq Ids /\ IsFiniteSet(DOMAIN txs)
  <2>1. DOMAIN txs = 1 .. Len(txs) /\ Len(txs) \in Nat /\ Len(txs) <= MaxTxs
    BY DEF NodeOK
  <2> QED BY <2>1, FS_Interval, UtxoBounds DEF Ids, UtxoBounds
<1>3. s \subseteq Ids /\ Cardinality(s) \in Nat
  BY <1>2, FS_Subset, FS_CardinalityType DEF NodeOK
<1>4. b \in [1 .. Cardinality(s) -> Ids] /\ ToSet(b) = s
  BY <1>1, <1>3 DEF BlockOrders
<1>5. b \in Seq(Ids)
  <2>1. b \in UNION {[1 .. l -> Ids] : l \in Nat}
    BY <1>3, <1>4
  <2> QED BY <2>1, SeqDef, Zenon
<1> HIDE DEF Ids
<1> QED BY <1>1, <1>4, <1>5 DEF NodeOK

\* What one edit does to the database, and what is left.
LEMMA OneEdit ==
    ASSUME NEW e \in Edits, NEW o \in Due(e), EditDb(e, o), faults \in Nat
    PROVE  /\ Left(e, o) \in Edits
           /\ Left(e, o).remove \subseteq e.remove /\ Left(e, o).create \subseteq e.create
           /\ \A p \in db : p \in db' \/ p \in e.remove
           /\ \A p \in db' : p \in db \/ (p \in e.create /\ p \notin Left(e, o).create)
           /\ \A p \in e.create : p \in db' \/ p \in Left(e, o).create
           /\ faults' = 0 => \A p \in e.remove \cap db' : p \in Left(e, o).remove
           /\ faults' = faults \/ (MayFail /\ faults' = faults + 1)
<1>1. Left(e, o) \in Edits /\ Left(e, o).remove \subseteq e.remove /\ Left(e, o).create \subseteq e.create
  BY DEF Left, Edits
<1>2. CASE e.remove # {} /\ db' = db \ {o} /\ UNCHANGED faults
  BY <1>1, <1>2 DEF Left, Due, Edits
<1>3. CASE e.remove # {} /\ MayFail /\ faults' = faults + 1 /\ UNCHANGED db
  <2>1. faults' # 0
    BY <1>3
  <2> QED BY <1>1, <1>3, <2>1 DEF Left, Due, Edits
<1>4. CASE e.remove = {} /\ db' = db \cup {o} /\ UNCHANGED faults
  BY <1>1, <1>4 DEF Left, Due, Edits
<1> QED BY <1>2, <1>3, <1>4 DEF EditDb

\* What a step does to the node.
LEMMA NodeSteps ==
    ASSUME HandlerOK, TrezorOK, [Next]_vars
    PROVE  \/ \E t \in Tx : Accept(t) /\ \A o \in t.ins : o.tx \in Live
           \/ \E s \in SUBSET mempool : Mine(s)
           \/ \E id \in mempool : Evict(id)
           \/ UNCHANGED node
<1>1. CASE \E kind \in {"ext", "inn"} : Deposit(kind)
  BY <1>1, DepositIsTx DEF Deposit
<1>2. CASE ReadBlock \/ ListenerEdit \/ NextBlock \/ \E id \in Ids : SignedEdit(id)
  BY <1>2 DEF ReadBlock, ListenerEdit, NextBlock, SignedEdit
<1>3. CASE (\E cs \in Some(Inner) : SendCoin(cs)) \/ Sign \/ CoinEdit
  BY <1>3 DEF SendCoin, Sign, CoinEdit
<1>4. CASE Broadcast \/ BroadcastFails
  BY <1>4 DEF Broadcast, BroadcastFails, HandlerOK, Acceptable
<1>5. CASE \E cs \in Some(db) : PrepareTrezorSign(cs)
  BY <1>5 DEF PrepareTrezorSign
<1>6. CASE \E t \in prepared : SendSignedTx(t)
  BY <1>6 DEF SendSignedTx, TrezorOK, Acceptable
<1>7. CASE Restart \/ UNCHANGED vars
  BY <1>7 DEF Restart, vars
<1> QED BY <1>1, <1>2, <1>3, <1>4, <1>5, <1>6, <1>7 DEF Next

\* Only edits touch the database.
LEMMA DatabaseSteps ==
    ASSUME [Next]_vars
    PROVE  UNCHANGED db \/ ListenerEdit \/ CoinEdit \/ \E id \in Ids : SignedEdit(id)
  BY DEF Next, vars, Deposit, Mine, Evict, ReadBlock, NextBlock, SendCoin, Sign, Broadcast,
         BroadcastFails, PrepareTrezorSign, SendSignedTx, Restart

\* The node forgets neither transactions nor blocks.
Grows ==
    /\ DOMAIN txs \subseteq DOMAIN txs'
    /\ \A id \in DOMAIN txs : txs'[id] = txs[id]
    /\ Len(chain) <= Len(chain')
    /\ \A h \in 1 .. Len(chain) : chain'[h] = chain[h]

LEMMA NodeGrows ==
    ASSUME NodeOK, HandlerOK, TrezorOK, [Next]_vars
    PROVE  Grows /\ NodeOK'
<1>1. CASE \E t \in Tx : Accept(t)
  <2>1. PICK t \in Tx : Accept(t)
    BY <1>1
  <2>2. UNCHANGED <<chain, evicted>> /\ mempool' = mempool \cup {Len(txs) + 1}
    BY <2>1 DEF Accept
  <2>3. DOMAIN txs' = DOMAIN txs \cup {Len(txs) + 1} /\ txs' \in Seq(Tx) /\ Len(txs') <= MaxTxs
        /\ \A id \in DOMAIN txs : txs'[id] = txs[id]
    BY <2>1, Accepted
  <2>4. Mined' = Mined
    BY <2>2 DEF Mined
  <2>5. Grows
    BY <2>2, <2>3 DEF Grows, NodeOK
  <2> QED BY <2>2, <2>3, <2>4, <2>5 DEF NodeOK
<1>2. CASE \E s \in SUBSET mempool : Mine(s)
  <2>1. PICK s \in SUBSET mempool : Mine(s)
    BY <1>2
  <2>2. mempool' = mempool \ s /\ UNCHANGED <<txs, evicted>>
    BY <2>1 DEF Mine
  <2>3. /\ chain' \in Seq(Seq(Ids)) /\ Len(chain) \in Nat /\ Len(chain') = Len(chain) + 1
        /\ DOMAIN chain = 1 .. Len(chain)
        /\ DOMAIN chain' = 1 .. Len(chain) + 1
        /\ \A h \in 1 .. Len(chain) : chain'[h] = chain[h]
        /\ ToSet(chain'[Len(chain) + 1]) = s
    BY <2>1, MinedBlock
  <2>4. Mined' \subseteq DOMAIN txs
    <3> SUFFICES ASSUME NEW h \in 1 .. Len(chain) + 1 PROVE ToSet(chain'[h]) \subseteq DOMAIN txs
      BY <2>3 DEF Mined
    <3>1. CASE h \in 1 .. Len(chain)
      BY <2>3, <3>1 DEF NodeOK, Mined
    <3>2. CASE h = Len(chain) + 1
      BY <2>3, <3>2 DEF NodeOK
    <3> QED BY <2>3, <3>1, <3>2
  <2>5. Grows
    BY <2>2, <2>3 DEF Grows
  <2> QED BY <2>2, <2>3, <2>4, <2>5 DEF NodeOK
<1>3. CASE (\E id \in mempool : Evict(id)) \/ UNCHANGED node
  <2>1. UNCHANGED <<txs, chain>> /\ mempool' \subseteq mempool /\ evicted' \subseteq evicted \cup mempool
    BY <1>3 DEF Evict, node
  <2>2. Mined' = Mined
    BY <2>1 DEF Mined
  <2> QED BY <2>1, <2>2 DEF NodeOK, Grows
<1> QED BY <1>1, <1>2, <1>3, NodeSteps

-----------------------------------------------------------------------------
(* Types.                                                                    *)

\* An output the node knows and the wallet owns.
IsOwn(o) == o.tx \in DOMAIN txs /\ o \in Own(o.tx)

\* The edits in progress create outputs of the wallet only.
CreatesOwn ==
    /\ \A o \in todo.create : IsOwn(o)
    /\ \A o \in edits.create : IsOwn(o)
    /\ \A id \in Ids : \A o \in signed[id].create : IsOwn(o)

TypeInv == TypeOK /\ CreatesOwn

LEMMA OwnFacts ==
    ASSUME NodeOK, NEW id \in DOMAIN txs
    PROVE  /\ id \in Ids /\ txs[id] \in Tx
           /\ \A o \in Own(id) : o \in Outpoint /\ o.tx = id /\ IsOwn(o)
<1>1. /\ id \in 1 .. Len(txs) /\ Len(txs) <= MaxTxs /\ txs[id] \in Tx
      /\ DOMAIN txs = 1 .. Len(txs) /\ Len(txs) \in Nat
  BY DEF NodeOK
<1>2. id \in Ids
  BY <1>1, UtxoBounds DEF Ids, UtxoBounds
<1>3. txs[id].outs \in Seq(Kinds) /\ Len(txs[id].outs) <= 2
  BY <1>1 DEF Tx
<1>4. \A i \in DOMAIN txs[id].outs : i - 1 \in 0 .. 1
  BY <1>3
<1> QED BY <1>1, <1>2, <1>4 DEF Own, Received, Point, IsOwn, Outpoint

\* What SendCoin and SendSignedTx are left to do when the node accepts t.
LEMMA ParsedEdits ==
    ASSUME NodeOK, NEW t \in Tx, Accept(t)
    PROVE  LET e == ParseMempoolTransaction(Len(txs) + 1, t)
           IN  /\ e \in Edits /\ e.remove = t.ins
               /\ \A o \in e.create : o.tx = Len(txs) + 1 /\ IsOwn(o)'
<1> DEFINE id == Len(txs) + 1
<1>1. id \in Ids /\ id \in DOMAIN txs' /\ txs'[id] = t
  BY Accepted
<1> HIDE DEF id
<1>2. t.ins \in SUBSET Outpoint /\ t.outs \in Seq(Kinds) /\ Len(t.outs) <= 2
  BY DEF Tx
<1>3. \A i \in DOMAIN t.outs : i - 1 \in 0 .. 1
  BY <1>2
<1>4. \A o \in Received(id, t) : o \in Outpoint /\ o.tx = id
  BY <1>1, <1>3 DEF Received, Point, Outpoint
<1>5. \A o \in Received(id, t) : IsOwn(o)'
  BY <1>1, <1>4 DEF IsOwn, Own
<1>6. ParseMempoolTransaction(id, t) = [remove |-> t.ins, create |-> Received(id, t)]
  BY DEF ParseMempoolTransaction
<1>7. ParseMempoolTransaction(id, t) \in Edits
  BY <1>2, <1>4, <1>6 DEF Edits
<1> QED BY <1>4, <1>5, <1>6, <1>7 DEF id

LEMMA OwnStays ==
    ASSUME NodeOK, Grows
    PROVE  \A o : IsOwn(o) => IsOwn(o)'
  BY DEF IsOwn, Own, Grows

\* What the Listener takes up when it parses the next transaction.
LEMMA ReadEdits ==
    ASSUME NodeOK, ListenerOK, ReadBlock
    PROVE  LET id == chain[LastBlock][pos + 1]
           IN  /\ id \in DOMAIN txs /\ LastBlock \in 1 .. Len(chain)
               /\ pos \in Nat /\ pos + 1 \in 1 .. Len(chain[LastBlock])
               /\ id \in ToSet(chain[LastBlock])
               /\ todo' \in Edits /\ todo'.remove = txs[id].ins /\ todo'.create = Own(id)
<1> DEFINE id == chain[LastBlock][pos + 1]
<1>1. LastBlock \in 1 .. Len(chain) /\ pos \in Nat /\ Len(chain) \in Nat
      /\ DOMAIN chain = 1 .. Len(chain)
  BY DEF ReadBlock, ListenerOK, NodeOK
<1>2. chain[LastBlock] \in Seq(Ids)
  BY <1>1 DEF NodeOK
<1>3. pos + 1 \in 1 .. Len(chain[LastBlock]) /\ id \in ToSet(chain[LastBlock])
  BY <1>1, <1>2 DEF ReadBlock, ToSet
<1>4. id \in DOMAIN txs
  BY <1>1, <1>3 DEF NodeOK, Mined
<1> HIDE DEF id
<1>5. todo' = [remove |-> txs[id].ins, create |-> Own(id)]
  BY DEF ReadBlock, ParseTransaction, id
<1>6. txs[id].ins \in SUBSET Outpoint /\ Own(id) \in SUBSET Outpoint
  BY <1>4, OwnFacts DEF Tx
<1> QED BY <1>1, <1>3, <1>4, <1>5, <1>6 DEF Edits, id

LEMMA WalletTypesInit == Init => TypeInv
<1> SUFFICES ASSUME Init PROVE TypeInv
  OBVIOUS
<1>1. Nothing \in Edits /\ NoTx \in Tx
  <2>1. <<>> \in {s \in Seq(Kinds) : Len(s) <= 2}
    OBVIOUS
  <2> QED BY <2>1 DEF Nothing, Edits, NoTx, Tx
<1>2. NodeOK
  BY UtxoBounds DEF Init, NodeOK, UtxoBounds, Mined
<1>3. DatabaseOK /\ ListenerOK
  BY <1>1 DEF Init, DatabaseOK, ListenerOK
<1>4. HandlerOK /\ TrezorOK
  BY <1>1 DEF Init, HandlerOK, TrezorOK
<1>5. CountsOK
  BY FS_EmptySet, UtxoBounds DEF Init, CountsOK, UtxoBounds
<1>6. CreatesOwn
  BY DEF Init, CreatesOwn, Nothing
<1> QED BY <1>2, <1>3, <1>4, <1>5, <1>6 DEF TypeInv, TypeOK

\* SendSignedTx has no more left to do after an edit than before.
LEMMA SignedLeft ==
    ASSUME TypeInv, NEW i \in Ids, SignedEdit(i), NEW id \in Ids
    PROVE  /\ signed'[id].remove \subseteq signed[id].remove
           /\ signed'[id].create \subseteq signed[id].create
<1> USE DEF TypeInv, TypeOK
<1>1. PICK o \in Due(signed[i]) : /\ EditDb(signed[i], o)
                                   /\ signed' = [signed EXCEPT ![i] = Left(signed[i], o)]
  BY DEF SignedEdit
<1>2. /\ signed \in [Ids -> Edits]
      /\ Left(signed[i], o).remove \subseteq signed[i].remove
      /\ Left(signed[i], o).create \subseteq signed[i].create
  BY <1>1, OneEdit DEF TrezorOK, CountsOK
<1> QED BY <1>1, <1>2

LEMMA CreatesOwnNext ==
    ASSUME TypeInv, [Next]_vars
    PROVE  CreatesOwn'
<1> USE DEF TypeInv, TypeOK
<1>0. Grows
  BY NodeGrows
<1>1. \A o : IsOwn(o) => IsOwn(o)'
  BY <1>0, OwnStays
<1>2. \A o \in todo'.create : IsOwn(o)'
  <2>1. CASE ReadBlock
    BY <1>1, <2>1, ReadEdits, OwnFacts
  <2>2. CASE ListenerEdit
    BY <1>1, <2>2, OneEdit DEF ListenerEdit, CreatesOwn, ListenerOK, CountsOK
  <2>3. CASE Restart
    BY <2>3 DEF Restart, Nothing
  <2>4. CASE UNCHANGED todo
    BY <1>1, <2>4 DEF CreatesOwn
  <2> QED BY <2>1, <2>2, <2>3, <2>4 DEF Next, vars, listener, Deposit, Mine, Evict, NextBlock,
        SendCoin, Sign, Broadcast, BroadcastFails, CoinEdit, PrepareTrezorSign, SendSignedTx,
        SignedEdit
<1>3. \A o \in edits'.create : IsOwn(o)'
  <2>1. CASE Broadcast
    BY <2>1, ParsedEdits DEF Broadcast, HandlerOK
  <2>2. CASE CoinEdit
    BY <1>1, <2>2, OneEdit DEF CoinEdit, CreatesOwn, HandlerOK, CountsOK
  <2>3. CASE Restart
    BY <2>3 DEF Restart, Nothing
  <2>4. CASE UNCHANGED edits
    BY <1>1, <2>4 DEF CreatesOwn
  <2> QED BY <2>1, <2>2, <2>3, <2>4 DEF Next, vars, handler, Deposit, Mine, Evict, NextBlock,
        ReadBlock, ListenerEdit, SendCoin, Sign, BroadcastFails, PrepareTrezorSign,
        SendSignedTx, SignedEdit
<1>4. ASSUME NEW id \in Ids PROVE \A o \in signed'[id].create : IsOwn(o)'
  <2>1. CASE \E t \in prepared : SendSignedTx(t)
    <3>1. PICK t \in prepared : SendSignedTx(t)
      BY <2>1
    <3>2. t \in Tx /\ Accept(t) /\ signed \in [Ids -> Edits] /\ Len(txs) + 1 \in Ids
      BY <3>1, Accepted DEF TrezorOK, SendSignedTx
    <3>3. signed'[id] = IF id = Len(txs) + 1 THEN ParseMempoolTransaction(Len(txs) + 1, t) ELSE signed[id]
      BY <3>1, <3>2 DEF SendSignedTx
    <3> QED BY <1>1, <3>2, <3>3, ParsedEdits DEF CreatesOwn
  <2>2. CASE \E i \in Ids : SignedEdit(i)
    BY <1>1, <2>2, SignedLeft DEF CreatesOwn
  <2>3. CASE Restart
    BY <2>3 DEF Restart, Nothing
  <2>4. CASE UNCHANGED signed
    BY <1>1, <2>4 DEF CreatesOwn
  <2> QED BY <2>1, <2>2, <2>3, <2>4 DEF Next, vars, trezor, Deposit, Mine, Evict, NextBlock,
        ReadBlock, ListenerEdit, SendCoin, Sign, Broadcast, BroadcastFails, CoinEdit,
        PrepareTrezorSign
<1> QED BY <1>2, <1>3, <1>4 DEF CreatesOwn

LEMMA DatabaseNext ==
    ASSUME TypeInv, [Next]_vars
    PROVE  DatabaseOK'
<1> USE DEF TypeInv, TypeOK
<1>0. Grows
  BY NodeGrows
<1>1. \A o : IsOwn(o) => IsOwn(o)'
  BY <1>0, OwnStays
<1>2. \A o \in db : IsOwn(o)
  BY OwnFacts DEF DatabaseOK
<1>3. \A o \in db' : IsOwn(o)
  <2>1. CASE UNCHANGED db
    BY <1>2, <2>1
  <2>2. CASE ListenerEdit
    BY <1>2, <2>2, OneEdit DEF ListenerEdit, CreatesOwn, ListenerOK, CountsOK
  <2>3. CASE CoinEdit
    BY <1>2, <2>3, OneEdit DEF CoinEdit, CreatesOwn, HandlerOK, CountsOK
  <2>4. CASE \E id \in Ids : SignedEdit(id)
    BY <1>2, <2>4, OneEdit DEF SignedEdit, CreatesOwn, TrezorOK, CountsOK
  <2> QED BY <2>1, <2>2, <2>3, <2>4, DatabaseSteps
<1> QED BY <1>1, <1>3 DEF DatabaseOK, IsOwn

LEMMA ListenerNext ==
    ASSUME TypeInv, [Next]_vars
    PROVE  ListenerOK'
<1> USE DEF TypeInv, TypeOK
<1>1. /\ Len(chain) \in Nat /\ Len(chain') \in Nat /\ Len(chain) <= Len(chain')
      /\ \A h \in 1 .. Len(chain) : chain'[h] = chain[h]
  BY NodeGrows DEF Grows, NodeOK
<1>2. Nothing \in Edits
  BY DEF Nothing, Edits
<1>3. CASE ReadBlock
  BY <1>1, <1>3, ReadEdits DEF ListenerOK, ReadBlock
<1>4. CASE ListenerEdit
  BY <1>1, <1>4, OneEdit DEF ListenerOK, ListenerEdit, CountsOK
<1>5. CASE NextBlock
  BY <1>1, <1>5 DEF ListenerOK, NextBlock
<1>6. CASE Restart
  BY <1>1, <1>2, <1>6 DEF ListenerOK, Restart, Resume
<1>7. CASE UNCHANGED listener
  BY <1>1, <1>7 DEF ListenerOK, listener
<1> QED BY <1>3, <1>4, <1>5, <1>6, <1>7 DEF Next, vars, Deposit, Mine, Evict,
        SendCoin, Sign, Broadcast, BroadcastFails, CoinEdit, PrepareTrezorSign, SendSignedTx,
        SignedEdit

LEMMA HandlerNext ==
    ASSUME TypeInv, [Next]_vars
    PROVE  HandlerOK'
<1> USE DEF TypeInv, TypeOK
<1>1. Nothing \in Edits /\ NoTx \in Tx
  <2>1. <<>> \in {s \in Seq(Kinds) : Len(s) <= 2}
    OBVIOUS
  <2> QED BY <2>1 DEF Nothing, Edits, NoTx, Tx
<1>2. CASE \E cs \in Some(Inner) : SendCoin(cs)
  <2>1. PICK cs \in Some(Inner) : SendCoin(cs)
    BY <1>2
  <2>2. cs \in SUBSET Outpoint /\ "out" \in Kinds
    BY OwnFacts DEF Some, Inner, DatabaseOK, Kinds
  <2>3. request' \in Tx
    BY <2>1, <2>2, PaymentIsTx DEF SendCoin
  <2> QED BY <2>1, <2>3 DEF SendCoin, HandlerOK
<1>3. CASE Sign \/ BroadcastFails \/ Restart
  BY <1>1, <1>3 DEF Sign, BroadcastFails, Restart, HandlerOK
<1>4. CASE Broadcast
  BY <1>1, <1>4, ParsedEdits DEF Broadcast, HandlerOK
<1>5. CASE CoinEdit
  BY <1>5, OneEdit DEF CoinEdit, HandlerOK, CountsOK
<1>6. CASE UNCHANGED handler
  BY <1>6 DEF HandlerOK, handler
<1> QED BY <1>2, <1>3, <1>4, <1>5, <1>6 DEF Next, vars, Deposit, Mine, Evict, ReadBlock,
        NextBlock, ListenerEdit, PrepareTrezorSign, SendSignedTx, SignedEdit

LEMMA TrezorNext ==
    ASSUME TypeInv, [Next]_vars
    PROVE  TrezorOK'
<1> USE DEF TypeInv, TypeOK
<1>1. CASE \E cs \in Some(db) : PrepareTrezorSign(cs)
  <2>1. PICK cs \in Some(db) : PrepareTrezorSign(cs)
    BY <1>1
  <2>2. cs \in SUBSET Outpoint
    BY OwnFacts DEF Some, DatabaseOK
  <2>3. PICK to \in {"inn", "out"} : \E t \in Payment(cs, to) : prepared' = prepared \cup {t}
    BY <2>1 DEF PrepareTrezorSign
  <2>4. PICK t \in Payment(cs, to) : prepared' = prepared \cup {t}
    BY <2>3
  <2>5. t \in Tx
    BY <2>2, <2>3, <2>4, PaymentIsTx DEF Kinds
  <2> QED BY <2>1, <2>4, <2>5 DEF PrepareTrezorSign, TrezorOK
<1>2. CASE \E t \in prepared : SendSignedTx(t)
  <2>1. PICK t \in prepared : SendSignedTx(t)
    BY <1>2
  <2>2. t \in Tx /\ Accept(t)
    BY <2>1 DEF TrezorOK, SendSignedTx
  <2>3. ParseMempoolTransaction(Len(txs) + 1, t) \in Edits
    BY <2>2, ParsedEdits
  <2> QED BY <2>1, <2>3 DEF SendSignedTx, TrezorOK
<1>3. CASE \E id \in Ids : SignedEdit(id)
  <2>1. PICK id \in Ids : SignedEdit(id)
    BY <1>3
  <2>2. PICK o \in Due(signed[id]) : /\ EditDb(signed[id], o)
                                      /\ signed' = [signed EXCEPT ![id] = Left(signed[id], o)]
    BY <2>1 DEF SignedEdit
  <2>3. Left(signed[id], o) \in Edits
    BY <2>2, OneEdit DEF TrezorOK, CountsOK
  <2> QED BY <2>1, <2>2, <2>3 DEF SignedEdit, TrezorOK
<1>4. CASE Restart
  BY <1>4 DEF Restart, TrezorOK, Nothing, Edits
<1>5. CASE UNCHANGED trezor
  BY <1>5 DEF trezor, TrezorOK
<1> QED BY <1>1, <1>2, <1>3, <1>4, <1>5 DEF Next, vars, Deposit, Mine, Evict, ReadBlock,
        NextBlock, ListenerEdit, SendCoin, Sign, Broadcast, BroadcastFails, CoinEdit

LEMMA CountsNext ==
    ASSUME TypeInv, [Next]_vars
    PROVE  CountsOK'
<1> USE DEF TypeInv, TypeOK
<1>1. IsFiniteSet(evicted) /\ Cardinality(evicted) \in Nat
  <2>1. DOMAIN txs = 1 .. Len(txs) /\ Len(txs) \in Nat
    BY DEF NodeOK
  <2>2. IsFiniteSet(DOMAIN txs)
    BY <2>1, FS_Interval
  <2>3. IsFiniteSet(evicted)
    BY <2>2, FS_Subset DEF NodeOK
  <2> QED BY <2>3, FS_CardinalityType
<1>2. \A t \in Tx : SettledInputs(t) \subseteq Outpoint
  BY DEF SettledInputs, Tx
<1>a. SpentOutputs \subseteq Outpoint
  <2> SUFFICES ASSUME NEW id \in DOMAIN txs PROVE txs[id].ins \subseteq Outpoint
    BY DEF SpentOutputs
  <2> QED BY OwnFacts DEF Tx
<1> USE DEF CountsOK
<1>3. CASE \E id \in mempool : Evict(id)
  <2>1. PICK id \in mempool : Evict(id)
    BY <1>3
  <2>2. Cardinality(evicted') <= Cardinality(evicted) + 1 /\ Cardinality(evicted') \in Nat
    <3>1. evicted' = evicted \cup {id}
      BY <2>1 DEF Evict
    <3>2. /\ IsFiniteSet(evicted \cup {id})
          /\ \/ Cardinality(evicted \cup {id}) = Cardinality(evicted)
             \/ Cardinality(evicted \cup {id}) = Cardinality(evicted) + 1
      BY <1>1, FS_AddElement, Zenon
    <3>3. Cardinality(evicted \cup {id}) \in Nat
      BY <3>2, FS_CardinalityType
    <3> QED BY <1>1, <3>1, <3>2, <3>3
  <2>3. faults + stops + Cardinality(evicted') <= MaxTroubles
    BY <1>1, <2>1, <2>2, UtxoBounds DEF Evict, MayFail, UtxoBounds, budget
  <2> QED BY <2>1, <2>3 DEF Evict, budget
<1>4. CASE ListenerEdit
  BY <1>1, <1>4, OneEdit, UtxoBounds DEF ListenerEdit, ListenerOK, MayFail, UtxoBounds, node
<1>5. CASE CoinEdit
  BY <1>1, <1>5, OneEdit, UtxoBounds DEF CoinEdit, HandlerOK, MayFail, UtxoBounds, node
<1>6. CASE \E id \in Ids : SignedEdit(id)
  <2>1. PICK id \in Ids : SignedEdit(id)
    BY <1>6
  <2>2. late' \subseteq late \cup SpentOutputs
    BY <2>1 DEF SignedEdit
  <2>3. UNCHANGED <<reserved, requests, stops, evicted>>
    BY <2>1 DEF SignedEdit, node
  <2>4. faults' = faults \/ (MayFail /\ faults' = faults + 1)
    BY <2>1, OneEdit DEF SignedEdit, TrezorOK
  <2> QED BY <1>1, <1>a, <2>2, <2>3, <2>4, UtxoBounds DEF MayFail, UtxoBounds
<1>7. CASE Broadcast
  BY <1>2, <1>7 DEF Broadcast, Accept, HandlerOK, budget
<1>8. CASE BroadcastFails
  BY <1>1, <1>8, UtxoBounds DEF BroadcastFails, Accept, MayFail, UtxoBounds, node
<1>9. CASE \E cs \in Some(db) : PrepareTrezorSign(cs)
  BY <1>9, UtxoBounds DEF PrepareTrezorSign, UtxoBounds, node
<1>10. CASE \E t \in prepared : SendSignedTx(t)
  BY <1>2, <1>10 DEF SendSignedTx, Accept, TrezorOK, budget
<1>11. CASE Restart
  BY <1>1, <1>11, UtxoBounds DEF Restart, MayFail, UtxoBounds, node
<1>12. CASE UNCHANGED <<evicted, reserved, late, budget>>
  BY <1>12 DEF budget
<1> QED BY <1>3, <1>4, <1>5, <1>6, <1>7, <1>8, <1>9, <1>10, <1>11, <1>12
        DEF Next, vars, node, Deposit, Accept, Mine, ReadBlock, NextBlock, SendCoin, Sign

LEMMA WalletTypes == Spec => []TypeInv
<1>1. TypeInv /\ [Next]_vars => TypeInv'
  BY NodeGrows, CreatesOwnNext, DatabaseNext, ListenerNext, HandlerNext, TrezorNext, CountsNext
     DEF TypeInv, TypeOK
<1> QED BY <1>1, WalletTypesInit, PTL DEF Spec

\* Every variable keeps its type, and the database holds outputs of the
\* wallet's own addresses only: neither parse function adds another.
THEOREM WalletTypeCorrect == Spec => []TypeOK
<1>1. TypeInv => TypeOK
  BY DEF TypeInv
<1> QED BY <1>1, WalletTypes, PTL

-----------------------------------------------------------------------------
(* What the wallet has seen it keeps until it is spent.                      *)

\* Every transaction is somewhere.
Placed == DOMAIN txs \subseteq mempool \cup Mined \cup evicted

\* An edit removes only what a transaction the node accepted spends.
RemovalsSpent ==
    /\ todo.remove \subseteq SpentOutputs
    /\ edits.remove \subseteq SpentOutputs
    /\ \A id \in Ids : signed[id].remove \subseteq SpentOutputs

Kept(o) == o \in db \/ o \in SpentOutputs

\* The outputs of the blocks that were read are there, or were spent ...
SettledKept ==
    \A h \in 1 .. LastBlock - 1 : \A id \in ToSet(chain[h]) : \A o \in Own(id) : Kept(o)

\* ... and, in the block that is being read, those of the transactions the
\* Listener has parsed, but for what it has left to create of the last one.
ReadKept ==
    \A k \in 1 .. pos : \A o \in Own(chain[LastBlock][k]) :
        Kept(o) \/ (k = pos /\ o \in todo.create)

LossInv == Placed /\ RemovalsSpent /\ SettledKept /\ ReadKept

\* Blocks the Listener has read, or is reading, hold known transactions.
LEMMA BlockFacts ==
    ASSUME NodeOK, ListenerOK
    PROVE  /\ LastBlock \in Nat /\ pos \in Nat /\ Len(chain) \in Nat
           /\ 1 .. LastBlock - 1 \subseteq 1 .. Len(chain)
           /\ DOMAIN chain = 1 .. Len(chain)
           /\ \A h \in 1 .. Len(chain) : /\ ToSet(chain[h]) \subseteq DOMAIN txs
                                         /\ chain[h] \in Seq(Ids)
           /\ \A h \in 1 .. Len(chain) : \A k \in 1 .. Len(chain[h]) : chain[h][k] \in ToSet(chain[h])
           /\ \A k \in 1 .. pos : /\ LastBlock \in 1 .. Len(chain)
                                  /\ k \in 1 .. Len(chain[LastBlock])
                                  /\ chain[LastBlock][k] \in DOMAIN txs
<1>1. LastBlock \in 1 .. Len(chain) + 1 /\ pos \in Nat /\ Len(chain) \in Nat
      /\ DOMAIN chain = 1 .. Len(chain)
  BY DEF ListenerOK, NodeOK
<1>2. \A h \in 1 .. Len(chain) : chain[h] \in Seq(Ids)
  BY <1>1 DEF NodeOK
<1>3. \A h \in 1 .. Len(chain) : ToSet(chain[h]) \subseteq DOMAIN txs
  BY <1>1 DEF NodeOK, Mined
<1>4. ASSUME NEW h \in 1 .. Len(chain), NEW k \in 1 .. Len(chain[h])
      PROVE  chain[h][k] \in ToSet(chain[h])
  BY <1>2 DEF ToSet
<1>5. ASSUME NEW k \in 1 .. pos
      PROVE  LastBlock \in 1 .. Len(chain) /\ k \in 1 .. Len(chain[LastBlock])
  <2>1. LastBlock <= Len(chain) /\ pos <= Len(chain[LastBlock])
    BY <1>1 DEF ListenerOK
  <2>2. LastBlock \in 1 .. Len(chain)
    BY <1>1, <2>1
  <2>3. Len(chain[LastBlock]) \in Nat
    BY <1>2, <2>2
  <2> QED BY <1>1, <2>1, <2>2, <2>3
<1> QED BY <1>1, <1>2, <1>3, <1>4, <1>5

\* What was spent stays spent, and the inputs of a new transaction are.
LEMMA SpentStays ==
    ASSUME NodeOK, Grows
    PROVE  SpentOutputs \subseteq SpentOutputs'
  BY DEF SpentOutputs, Grows

LEMMA SpentNow ==
    ASSUME NodeOK, NEW t \in Tx, Accept(t)
    PROVE  t.ins \subseteq SpentOutputs'
  BY Accepted DEF SpentOutputs

LEMMA SpentOf ==
    ASSUME NEW id \in DOMAIN txs
    PROVE  txs[id].ins \subseteq SpentOutputs
  BY DEF SpentOutputs

LEMMA PlacedNext ==
    ASSUME TypeInv, Placed, [Next]_vars
    PROVE  Placed'
<1> USE DEF TypeInv, TypeOK
<1>1. CASE \E t \in Tx : Accept(t)
  <2>1. PICK t \in Tx : Accept(t)
    BY <1>1
  <2>2. DOMAIN txs' = DOMAIN txs \cup {Len(txs) + 1}
    BY <2>1, Accepted
  <2> QED BY <2>1, <2>2 DEF Accept, Placed, Mined
<1>2. CASE \E s \in SUBSET mempool : Mine(s)
  <2>1. PICK s \in SUBSET mempool : Mine(s)
    BY <1>2
  <2>2. /\ DOMAIN chain = 1 .. Len(chain) /\ Len(chain) \in Nat
        /\ DOMAIN chain' = 1 .. Len(chain) + 1
        /\ \A h \in 1 .. Len(chain) : chain'[h] = chain[h]
        /\ ToSet(chain'[Len(chain) + 1]) = s
    BY <2>1, MinedBlock
  <2>3. Mined \cup s \subseteq Mined'
    <3>1. ASSUME NEW h \in DOMAIN chain PROVE ToSet(chain[h]) \subseteq Mined'
      BY <2>2 DEF Mined
    <3>2. s \subseteq Mined'
      BY <2>2 DEF Mined
    <3> QED BY <3>1, <3>2 DEF Mined
  <2> QED BY <2>1, <2>3 DEF Mine, Placed
<1>3. CASE (\E id \in mempool : Evict(id)) \/ UNCHANGED node
  BY <1>3 DEF Evict, node, Placed, Mined
<1> QED BY <1>1, <1>2, <1>3, NodeSteps

LEMMA RemovalsSpentNext ==
    ASSUME TypeInv, RemovalsSpent, [Next]_vars
    PROVE  RemovalsSpent'
<1> USE DEF TypeInv, TypeOK
<1>1. SpentOutputs \subseteq SpentOutputs'
  BY NodeGrows, SpentStays
<1>2. todo'.remove \subseteq SpentOutputs'
  <2>1. CASE ReadBlock
    BY <1>1, <2>1, ReadEdits, SpentOf
  <2>2. CASE ListenerEdit
    BY <1>1, <2>2, OneEdit DEF ListenerEdit, RemovalsSpent, ListenerOK, CountsOK
  <2>3. CASE Restart
    BY <2>3 DEF Restart, Nothing
  <2>4. CASE UNCHANGED todo
    BY <1>1, <2>4 DEF RemovalsSpent
  <2> QED BY <2>1, <2>2, <2>3, <2>4 DEF Next, vars, listener, Deposit, Mine, Evict, NextBlock,
        SendCoin, Sign, Broadcast, BroadcastFails, CoinEdit, PrepareTrezorSign, SendSignedTx,
        SignedEdit
<1>3. edits'.remove \subseteq SpentOutputs'
  <2>1. CASE Broadcast
    BY <2>1, ParsedEdits, SpentNow DEF Broadcast, HandlerOK
  <2>2. CASE CoinEdit
    BY <1>1, <2>2, OneEdit DEF CoinEdit, RemovalsSpent, HandlerOK, CountsOK
  <2>3. CASE Restart
    BY <2>3 DEF Restart, Nothing
  <2>4. CASE UNCHANGED edits
    BY <1>1, <2>4 DEF RemovalsSpent
  <2> QED BY <2>1, <2>2, <2>3, <2>4 DEF Next, vars, handler, Deposit, Mine, Evict, NextBlock,
        ReadBlock, ListenerEdit, SendCoin, Sign, BroadcastFails, PrepareTrezorSign,
        SendSignedTx, SignedEdit
<1>4. ASSUME NEW id \in Ids PROVE signed'[id].remove \subseteq SpentOutputs'
  <2>1. CASE \E t \in prepared : SendSignedTx(t)
    <3>1. PICK t \in prepared : SendSignedTx(t)
      BY <2>1
    <3>2. t \in Tx /\ Accept(t) /\ signed \in [Ids -> Edits] /\ Len(txs) + 1 \in Ids
      BY <3>1, Accepted DEF TrezorOK, SendSignedTx
    <3>3. signed'[id] = IF id = Len(txs) + 1 THEN ParseMempoolTransaction(Len(txs) + 1, t) ELSE signed[id]
      BY <3>1, <3>2 DEF SendSignedTx
    <3> QED BY <1>1, <3>2, <3>3, ParsedEdits, SpentNow DEF RemovalsSpent
  <2>2. CASE \E i \in Ids : SignedEdit(i)
    BY <1>1, <2>2, SignedLeft DEF RemovalsSpent
  <2>3. CASE Restart
    BY <2>3 DEF Restart, Nothing
  <2>4. CASE UNCHANGED signed
    BY <1>1, <2>4 DEF RemovalsSpent
  <2> QED BY <2>1, <2>2, <2>3, <2>4 DEF Next, vars, trezor, Deposit, Mine, Evict, NextBlock,
        ReadBlock, ListenerEdit, SendCoin, Sign, Broadcast, BroadcastFails, CoinEdit,
        PrepareTrezorSign
<1> QED BY <1>2, <1>3, <1>4 DEF RemovalsSpent

\* Nothing is lost: an output in the database is still there after a step,
\* or a transaction spends it.
LEMMA KeptStays ==
    ASSUME TypeInv, RemovalsSpent, [Next]_vars
    PROVE  \A o : Kept(o) => Kept(o)'
<1> USE DEF TypeInv, TypeOK
<1>1. SpentOutputs \subseteq SpentOutputs'
  BY NodeGrows, SpentStays
<1>2. ASSUME NEW o \in db PROVE o \in db' \/ o \in SpentOutputs
  <2>1. CASE UNCHANGED db
    BY <2>1
  <2>2. CASE ListenerEdit
    BY <2>2, OneEdit DEF ListenerEdit, RemovalsSpent, ListenerOK, CountsOK
  <2>3. CASE CoinEdit
    BY <2>3, OneEdit DEF CoinEdit, RemovalsSpent, HandlerOK, CountsOK
  <2>4. CASE \E id \in Ids : SignedEdit(id)
    BY <2>4, OneEdit DEF SignedEdit, RemovalsSpent, TrezorOK, CountsOK
  <2> QED BY <2>1, <2>2, <2>3, <2>4, DatabaseSteps
<1> QED BY <1>1, <1>2 DEF Kept

\* The Listener's place changes with its own steps and with a restart.
LEMMA ListenerSteps ==
    ASSUME [Next]_vars
    PROVE  ReadBlock \/ ListenerEdit \/ NextBlock \/ Restart \/ UNCHANGED listener
  BY DEF Next, vars, Deposit, Mine, Evict, SendCoin, Sign, Broadcast, BroadcastFails, CoinEdit,
         PrepareTrezorSign, SendSignedTx, SignedEdit

LEMMA SettledKeptNext ==
    ASSUME TypeInv, LossInv, [Next]_vars
    PROVE  SettledKept'
<1> USE DEF TypeInv, TypeOK
<1> SUFFICES ASSUME NEW h \in 1 .. LastBlock' - 1, NEW id \in ToSet(chain'[h]), NEW o \in Own(id)'
             PROVE  Kept(o)'
  BY DEF SettledKept
<1>1. \A p : Kept(p) => Kept(p)'
  BY KeptStays DEF LossInv
<1>2. LastBlock \in Nat /\ 1 .. LastBlock - 1 \subseteq 1 .. Len(chain) /\ Grows
  BY BlockFacts, NodeGrows
<1>3. \A i \in DOMAIN txs : Own(i)' = Own(i)
  BY <1>2 DEF Grows, Own
<1>4. CASE h \in 1 .. LastBlock - 1
  <2>1. id \in ToSet(chain[h]) /\ id \in DOMAIN txs
    BY <1>2, <1>4, BlockFacts DEF Grows
  <2> QED BY <1>1, <1>3, <1>4, <2>1 DEF LossInv, SettledKept
<1>5. CASE NextBlock /\ h = LastBlock
  <2>1. LastBlock \in 1 .. Len(chain) /\ pos = Len(chain[LastBlock]) /\ todo = Nothing /\ chain' = chain
    BY <1>2, <1>5, BlockFacts DEF NextBlock, node
  <2>2. id \in ToSet(chain[LastBlock]) /\ chain[LastBlock] \in Seq(Ids) /\ id \in DOMAIN txs
    BY <1>5, <2>1, BlockFacts
  <2>3. PICK k \in 1 .. pos : id = chain[LastBlock][k]
    BY <2>1, <2>2 DEF ToSet
  <2>4. o \in Own(id) /\ o \notin todo.create
    BY <1>3, <2>1, <2>2 DEF Nothing
  <2> QED BY <1>1, <2>3, <2>4 DEF LossInv, ReadKept
<1>6. h \in 1 .. LastBlock - 1 \/ (NextBlock /\ h = LastBlock)
  <2>1. CASE ReadBlock \/ ListenerEdit \/ UNCHANGED listener
    BY <2>1 DEF ReadBlock, ListenerEdit, listener
  <2>2. CASE NextBlock
    BY <1>2, <2>2 DEF NextBlock
  <2>3. CASE Restart
    BY <1>2, <2>3 DEF Restart, Resume
  <2> QED BY <2>1, <2>2, <2>3, ListenerSteps
<1> QED BY <1>4, <1>5, <1>6

LEMMA ReadKeptNext ==
    ASSUME TypeInv, LossInv, [Next]_vars
    PROVE  ReadKept'
<1> USE DEF TypeInv, TypeOK
<1> SUFFICES ASSUME NEW k \in 1 .. pos', NEW o \in Own(chain[LastBlock][k])'
             PROVE  Kept(o)' \/ (k = pos' /\ o \in todo'.create)
  BY DEF ReadKept
<1>1. \A p : Kept(p) => Kept(p)'
  BY KeptStays DEF LossInv
<1>2. Grows /\ pos \in Nat /\ LastBlock \in Nat
  BY BlockFacts, NodeGrows
<1>3. \A i \in DOMAIN txs : Own(i)' = Own(i)
  BY <1>2 DEF Grows, Own
<1>4. CASE ReadBlock
  <2>1. /\ LastBlock \in 1 .. Len(chain) /\ pos' = pos + 1
        /\ chain' = chain /\ LastBlock' = LastBlock /\ txs' = txs
    BY <1>4, ReadEdits DEF ReadBlock, node
  <2>2. CASE k = pos + 1
    BY <1>3, <1>4, <2>1, <2>2, ReadEdits
  <2>3. CASE k \in 1 .. pos
    <3>1. o \in Own(chain[LastBlock][k]) /\ o \notin todo.create
      BY <1>3, <1>4, <2>1, <2>3, BlockFacts DEF ReadBlock, Nothing
    <3> QED BY <1>1, <2>3, <3>1 DEF LossInv, ReadKept
  <2> QED BY <1>2, <2>1, <2>2, <2>3
<1>5. CASE ListenerEdit
  <2>1. chain' = chain /\ LastBlock' = LastBlock /\ pos' = pos
    BY <1>5 DEF ListenerEdit, node
  <2>2. o \in Own(chain[LastBlock][k]) /\ k \in 1 .. pos
    BY <1>3, <2>1, BlockFacts
  <2>3. Kept(o) \/ (k = pos /\ o \in todo.create)
    BY <2>2 DEF LossInv, ReadKept
  <2>4. o \in todo.create => o \in db' \/ o \in todo'.create
    BY <1>5, OneEdit DEF ListenerEdit, ListenerOK, CountsOK
  <2> QED BY <1>1, <2>1, <2>3, <2>4 DEF Kept
<1>6. CASE NextBlock \/ Restart
  BY <1>6 DEF NextBlock, Restart
<1>7. CASE UNCHANGED listener
  <2>1. LastBlock' = LastBlock /\ pos' = pos /\ todo' = todo
    BY <1>7 DEF listener
  <2>2. k \in 1 .. pos /\ chain'[LastBlock] = chain[LastBlock] /\ chain[LastBlock][k] \in DOMAIN txs
    BY <1>2, <2>1, BlockFacts DEF Grows
  <2>3. o \in Own(chain[LastBlock][k])
    BY <1>3, <2>1, <2>2
  <2> QED BY <1>1, <2>1, <2>2, <2>3 DEF LossInv, ReadKept
<1> QED BY <1>4, <1>5, <1>6, <1>7, ListenerSteps

LEMMA LossInvariant == Spec => [](TypeInv /\ LossInv)
<1>1. Init => LossInv
  <2> SUFFICES ASSUME Init PROVE LossInv
    OBVIOUS
  <2>1. Placed /\ RemovalsSpent
    BY DEF Init, Placed, RemovalsSpent, Nothing
  <2>2. SettledKept /\ ReadKept
    BY DEF Init, SettledKept, ReadKept
  <2> QED BY <2>1, <2>2 DEF LossInv
<1>2. TypeInv /\ LossInv /\ [Next]_vars => LossInv'
  BY PlacedNext, RemovalsSpentNext, SettledKeptNext, ReadKeptNext DEF LossInv
<1> QED BY <1>1, <1>2, WalletTypes, PTL DEF Spec

\* The wallet never loses a coin it has seen: an unspent output of a block
\* the Listener has read is in the database, whatever failed, raced or was
\* restarted, unless a transaction that spent it was evicted since.
THEOREM LossOnlyByEvictionCorrect == Spec => []LossOnlyByEviction
<1>1. TypeInv /\ LossInv => LossOnlyByEviction
  <2> SUFFICES ASSUME TypeInv, LossInv, NEW id \in Settled, NEW o \in Own(id),
                      Spenders(o) = {}, o \notin db
               PROVE  \E e \in evicted : o \in txs[e].ins
    BY DEF LossOnlyByEviction
  <2>1. PICK h \in 1 .. LastBlock - 1 : id \in ToSet(chain[h])
    BY DEF Settled
  <2>2. o \in SpentOutputs
    BY <2>1 DEF LossInv, SettledKept, Kept
  <2>3. PICK e \in DOMAIN txs : o \in txs[e].ins
    BY <2>2 DEF SpentOutputs
  <2>4. e \notin Live
    BY <2>3 DEF Spenders
  <2>5. e \in evicted
    BY <2>4 DEF LossInv, Placed, Live
  <2> QED BY <2>3, <2>5
<1> QED BY <1>1, LossInvariant, PTL

-----------------------------------------------------------------------------
(* Where transactions are mined.                                             *)

\* A transaction spends only older ones, is in one block at most, and its
\* inputs are in no later block.
Older == \A id \in DOMAIN txs : \A o \in txs[id].ins : o.tx \in 1 .. id - 1

MinedOnce ==
    /\ \A h \in 1 .. Len(chain) : \A id \in ToSet(chain[h]) : id \notin mempool
    /\ \A g, h \in 1 .. Len(chain) : \A id \in ToSet(chain[g]) \cap ToSet(chain[h]) : g = h

InputsMined ==
    \A h \in 1 .. Len(chain) : \A id \in ToSet(chain[h]) : \A o \in txs[id].ins :
        \E g \in 1 .. h : o.tx \in ToSet(chain[g])

ChainInv == Older /\ MinedOnce /\ InputsMined

LEMMA ChainNext ==
    ASSUME TypeInv, ChainInv, [Next]_vars
    PROVE  ChainInv'
<1> USE DEF TypeInv, TypeOK
<1>0. \A h \in 1 .. Len(chain) : ToSet(chain[h]) \subseteq DOMAIN txs
  BY BlockFacts
<1>1. CASE \E t \in Tx : Accept(t) /\ \A o \in t.ins : o.tx \in Live
  <2>1. PICK t \in Tx : Accept(t) /\ \A o \in t.ins : o.tx \in Live
    BY <1>1
  <2>2. /\ DOMAIN txs = 1 .. Len(txs) /\ Len(txs) \in Nat
        /\ DOMAIN txs' = DOMAIN txs \cup {Len(txs) + 1}
        /\ \A id \in DOMAIN txs : txs'[id] = txs[id]
        /\ txs'[Len(txs) + 1] = t
    BY <2>1, Accepted
  <2>3. \A o \in t.ins : o.tx \in DOMAIN txs
    BY <2>1 DEF Live, NodeOK
  <2>4. Older'
    <3> SUFFICES ASSUME NEW id \in DOMAIN txs', NEW o \in txs'[id].ins PROVE o.tx \in 1 .. id - 1
      BY DEF Older
    <3>1. CASE id \in DOMAIN txs
      BY <2>2, <3>1 DEF ChainInv, Older
    <3>2. CASE id = Len(txs) + 1
      BY <2>2, <2>3, <3>2
    <3> QED BY <2>2, <3>1, <3>2
  <2>5. chain' = chain /\ mempool' = mempool \cup {Len(txs) + 1} /\ Len(txs) + 1 \notin DOMAIN txs
    BY <2>1, <2>2 DEF Accept
  <2>6. MinedOnce'
    BY <1>0, <2>5 DEF ChainInv, MinedOnce
  <2>7. InputsMined'
    BY <1>0, <2>2, <2>5 DEF ChainInv, InputsMined
  <2> QED BY <2>4, <2>6, <2>7 DEF ChainInv
<1>2. CASE \E s \in SUBSET mempool : Mine(s)
  <2>1. PICK s \in SUBSET mempool : Mine(s)
    BY <1>2
  <2> DEFINE n == Len(chain) + 1
  <2>2. /\ DOMAIN chain = 1 .. Len(chain) /\ Len(chain) \in Nat /\ Len(chain') = n
        /\ \A h \in 1 .. Len(chain) : chain'[h] = chain[h]
        /\ ToSet(chain'[n]) = s
    BY <2>1, MinedBlock
  <2>3. txs' = txs /\ mempool' = mempool \ s
    BY <2>1 DEF Mine
  <2> HIDE DEF n
  <2>4. n \in Nat /\ 1 .. n = 1 .. Len(chain) \cup {n} /\ n \notin 1 .. Len(chain)
    BY <2>2 DEF n
  <2>5. MinedOnce'
    <3>1. ASSUME NEW h \in 1 .. n, NEW id \in ToSet(chain'[h]) PROVE id \notin mempool'
      BY <2>2, <2>3, <2>4 DEF ChainInv, MinedOnce
    <3>2. ASSUME NEW g \in 1 .. n, NEW h \in 1 .. n, NEW id \in ToSet(chain'[g]) \cap ToSet(chain'[h])
          PROVE  g = h
      <4>1. CASE g \in 1 .. Len(chain) /\ h \in 1 .. Len(chain)
        BY <2>2, <3>2, <4>1 DEF ChainInv, MinedOnce
      <4>2. CASE g \in 1 .. Len(chain) /\ h = n
        <5>1. id \in ToSet(chain[g]) /\ id \in mempool
          BY <2>2, <3>2, <4>2
        <5> QED BY <4>2, <5>1 DEF ChainInv, MinedOnce
      <4>3. CASE g = n /\ h \in 1 .. Len(chain)
        <5>1. id \in ToSet(chain[h]) /\ id \in mempool
          BY <2>2, <3>2, <4>3
        <5> QED BY <4>3, <5>1 DEF ChainInv, MinedOnce
      <4> QED BY <2>4, <4>1, <4>2, <4>3
    <3> QED BY <2>2, <3>1, <3>2 DEF MinedOnce
  <2>6. InputsMined'
    <3> SUFFICES ASSUME NEW h \in 1 .. n, NEW id \in ToSet(chain'[h]), NEW o \in txs[id].ins
                 PROVE  \E g \in 1 .. h : o.tx \in ToSet(chain'[g])
      BY <2>2, <2>3 DEF InputsMined
    <3>1. CASE h \in 1 .. Len(chain)
      <4>1. PICK g \in 1 .. h : o.tx \in ToSet(chain[g])
        BY <2>2, <3>1 DEF ChainInv, InputsMined
      <4> QED BY <2>2, <3>1, <4>1
    <3>2. CASE h = n
      <4>1. o.tx \in Mined \/ o.tx \in s
        BY <2>1, <2>2, <3>2 DEF Mine
      <4>2. CASE o.tx \in s
        BY <2>2, <2>4, <3>2, <4>2
      <4>3. CASE o.tx \in Mined
        <5>1. PICK g \in 1 .. Len(chain) : o.tx \in ToSet(chain[g])
          BY <2>2, <4>3 DEF Mined
        <5> QED BY <2>2, <2>4, <3>2, <5>1
      <4> QED BY <4>1, <4>2, <4>3
    <3> QED BY <2>4, <3>1, <3>2
  <2>7. Older'
    BY <2>3 DEF ChainInv, Older
  <2> QED BY <2>5, <2>6, <2>7 DEF ChainInv
<1>3. CASE (\E id \in mempool : Evict(id)) \/ UNCHANGED node
  <2>1. UNCHANGED <<txs, chain>> /\ mempool' \subseteq mempool
    BY <1>3 DEF Evict, node
  <2> QED BY <2>1 DEF ChainInv, Older, MinedOnce, InputsMined
<1> QED BY <1>1, <1>2, <1>3, NodeSteps

-----------------------------------------------------------------------------
(* What is left to the three actors to create.                               *)

\* The Listener creates outputs of the transaction it has parsed last.
ListenerReads == \A o \in todo.create : pos > 0 /\ o.tx = chain[LastBlock][pos]

\* SendCoin has edits left only while it parses; no transaction spends the
\* outputs it will create, and none is prepared to: the mutex keeps the
\* others from preparing one.
CoinFresh ==
    /\ hpc # "parse" => edits = Nothing
    /\ \A o \in edits.create : /\ o \notin SpentOutputs /\ \A t \in prepared : o \notin t.ins
                               /\ o.tx \in DOMAIN txs /\ signed[o.tx] = Nothing

RequestsKnown ==
    /\ \A t \in prepared : \A o \in t.ins : o.tx \in DOMAIN txs
    /\ \A o \in request.ins : o.tx \in DOMAIN txs

\* SendSignedTx works on a transaction the node has accepted.
SignedKnown ==
    \A id \in Ids : signed[id] # Nothing =>
        /\ id \in DOMAIN txs
        /\ \A o \in signed[id].create : o.tx = id

\* Nobody has the output o, or is about to spend it.
Unused(o) ==
    /\ o \notin db /\ o \notin SpentOutputs /\ o \notin request.ins
    /\ \A t \in prepared : o \notin t.ins

\* Nobody knows what SendSignedTx has left to create before it is mined.
OvertakenByBlock ==
    /\ \A o \in late : o.tx \in Mined
    /\ \A id \in Ids : \A o \in signed[id].create : id \notin Mined => Unused(o)

ActorInv == ListenerReads /\ CoinFresh /\ RequestsKnown /\ SignedKnown /\ OvertakenByBlock

LEMMA SpentGrows ==
    ASSUME NodeOK, NEW t \in Tx, Accept(t)
    PROVE  SpentOutputs' = SpentOutputs \cup t.ins
<1>1. /\ DOMAIN txs' = DOMAIN txs \cup {Len(txs) + 1}
      /\ \A id \in DOMAIN txs : txs'[id] = txs[id]
      /\ txs'[Len(txs) + 1] = t
  BY Accepted
<1>2. SpentOutputs \subseteq SpentOutputs' /\ t.ins \subseteq SpentOutputs'
  BY <1>1 DEF SpentOutputs
<1>3. SpentOutputs' \subseteq SpentOutputs \cup t.ins
  BY <1>1 DEF SpentOutputs
<1> QED BY <1>2, <1>3

\* Nothing spends an output of a transaction that does not exist.
LEMMA SpentKnown ==
    ASSUME NodeOK, Older
    PROVE  \A o \in SpentOutputs : o.tx \in DOMAIN txs
<1> SUFFICES ASSUME NEW id \in DOMAIN txs, NEW o \in txs[id].ins PROVE o.tx \in DOMAIN txs
  BY DEF SpentOutputs
<1>1. DOMAIN txs = 1 .. Len(txs) /\ Len(txs) \in Nat /\ o.tx \in 1 .. id - 1
  BY DEF NodeOK, Older
<1> QED BY <1>1

LEMMA ListenerReadsNext ==
    ASSUME TypeInv, ListenerReads, [Next]_vars
    PROVE  ListenerReads'
<1> USE DEF TypeInv, TypeOK
<1>1. CASE ReadBlock
  <2>1. /\ pos \in Nat /\ pos' = pos + 1 /\ chain' = chain /\ LastBlock' = LastBlock
        /\ chain[LastBlock][pos + 1] \in DOMAIN txs
        /\ todo'.create = Own(chain[LastBlock][pos + 1])
    BY <1>1, ReadEdits DEF ReadBlock, node
  <2> QED BY <2>1, OwnFacts DEF ListenerReads
<1>2. CASE ListenerEdit
  BY <1>2, OneEdit DEF ListenerEdit, ListenerReads, ListenerOK, CountsOK, node
<1>3. CASE NextBlock \/ Restart
  BY <1>3 DEF NextBlock, Restart, ListenerReads, Nothing
<1>4. CASE UNCHANGED listener
  <2>1. pos > 0 => chain'[LastBlock] = chain[LastBlock]
    BY NodeGrows, BlockFacts DEF Grows
  <2> QED BY <1>4, <2>1 DEF ListenerReads, listener
<1> QED BY <1>1, <1>2, <1>3, <1>4, ListenerSteps

\* The transactions the two preparing requests make spend what they chose.
LEMMA PreparedOf ==
    ASSUME NEW cs \in SUBSET Outpoint, PrepareTrezorSign(cs)
    PROVE  \E t : prepared' = prepared \cup {t} /\ t.ins = cs
<1>1. PICK to \in {"inn", "out"} : \E t \in Payment(cs, to) : prepared' = prepared \cup {t}
  BY DEF PrepareTrezorSign
<1>2. PICK t \in Payment(cs, to) : prepared' = prepared \cup {t}
  BY <1>1
<1>3. t.ins = cs
  BY <1>1, <1>2, PaymentIsTx DEF Kinds
<1> QED BY <1>2, <1>3

LEMMA RequestOf ==
    ASSUME NEW cs \in SUBSET Outpoint, SendCoin(cs)
    PROVE  request'.ins = cs
<1>1. request' \in Payment(cs, "out") /\ "out" \in Kinds
  BY DEF SendCoin, Kinds
<1> QED BY <1>1, PaymentIsTx

LEMMA RequestsKnownNext ==
    ASSUME TypeInv, RequestsKnown, [Next]_vars
    PROVE  RequestsKnown'
<1> USE DEF TypeInv, TypeOK
<1>1. DOMAIN txs \subseteq DOMAIN txs'
  BY NodeGrows DEF Grows
<1>2. CASE \E cs \in Some(db) : PrepareTrezorSign(cs)
  <2>1. PICK cs \in Some(db) : PrepareTrezorSign(cs)
    BY <1>2
  <2>2. cs \in SUBSET Outpoint /\ \A o \in cs : o.tx \in DOMAIN txs
    BY OwnFacts DEF Some, DatabaseOK
  <2>3. PICK t : prepared' = prepared \cup {t} /\ t.ins = cs
    BY <2>1, <2>2, PreparedOf
  <2>4. request' = request
    BY <2>1 DEF PrepareTrezorSign, handler
  <2> QED BY <1>1, <2>2, <2>3, <2>4 DEF RequestsKnown
<1>3. CASE \E cs \in Some(Inner) : SendCoin(cs)
  <2>1. PICK cs \in Some(Inner) : SendCoin(cs)
    BY <1>3
  <2>2. cs \in SUBSET Outpoint /\ \A o \in cs : o.tx \in DOMAIN txs
    BY OwnFacts DEF Some, Inner, DatabaseOK
  <2>3. request'.ins = cs /\ prepared' = prepared
    BY <2>1, <2>2, RequestOf DEF SendCoin, trezor
  <2> QED BY <1>1, <2>2, <2>3 DEF RequestsKnown
<1>4. CASE prepared' \subseteq prepared /\ request' \in {request, NoTx}
  <2>1. NoTx.ins = {}
    BY DEF NoTx
  <2> QED BY <1>1, <1>4, <2>1 DEF RequestsKnown
<1> QED BY <1>2, <1>3, <1>4 DEF Next, vars, trezor, handler, Deposit, Mine, Evict, ReadBlock,
        ListenerEdit, NextBlock, Sign, Broadcast, BroadcastFails, CoinEdit, SendSignedTx,
        SignedEdit, Restart

LEMMA CoinFreshNext ==
    ASSUME TypeInv, ChainInv, ActorInv, [Next]_vars
    PROVE  CoinFresh'
<1> USE DEF TypeInv, TypeOK
<1>1. (hpc # "parse" => edits = Nothing) /\ Nothing.create = {}
  BY DEF ActorInv, CoinFresh, Nothing
<1>0. /\ DOMAIN txs \subseteq Ids /\ DOMAIN txs \subseteq DOMAIN txs'
      /\ signed \in [Ids -> Edits]
  BY OwnFacts, NodeGrows DEF Grows, TrezorOK
<1>a. \A o \in edits.create : o.tx \in DOMAIN txs /\ o.tx \in Ids /\ signed[o.tx] = Nothing
  BY <1>0 DEF ActorInv, CoinFresh
<1>2. CASE Broadcast
  <2>1. /\ request \in Tx /\ Accept(request) /\ prepared' = prepared /\ hpc' = "parse"
        /\ signed' = signed /\ \A o \in request.ins : o.tx \in Live
    BY <1>2 DEF Broadcast, HandlerOK, trezor, Acceptable
  <2>2. SpentOutputs' = SpentOutputs \cup request.ins
    BY <2>1, SpentGrows
  <2>3. \A o \in edits'.create : o.tx = Len(txs) + 1
    BY <1>2, <2>1, ParsedEdits DEF Broadcast
  <2>4. /\ DOMAIN txs = 1 .. Len(txs) /\ Len(txs) \in Nat /\ Len(txs) + 1 \notin DOMAIN txs
        /\ Len(txs) + 1 \in DOMAIN txs' /\ Len(txs) + 1 \in Ids
    BY <2>1, Accepted
  <2>5. \A o \in SpentOutputs' : o.tx \in DOMAIN txs
    BY <2>1, <2>2, SpentKnown DEF ChainInv, Live, NodeOK
  <2>6. \A t \in prepared : \A o \in t.ins : o.tx \in DOMAIN txs
    BY DEF ActorInv, RequestsKnown
  <2>7. signed[Len(txs) + 1] = Nothing
    BY <2>4 DEF ActorInv, SignedKnown
  <2> QED BY <2>1, <2>3, <2>4, <2>5, <2>6, <2>7 DEF CoinFresh
<1>3. CASE \E t \in prepared : SendSignedTx(t)
  <2>1. PICK t \in prepared : SendSignedTx(t)
    BY <1>3
  <2>2. t \in Tx /\ Accept(t) /\ UNCHANGED <<hpc, edits>> /\ prepared' \subseteq prepared
    BY <2>1 DEF SendSignedTx, TrezorOK, handler
  <2>3. SpentOutputs' = SpentOutputs \cup t.ins
    BY <2>2, SpentGrows
  <2>4. ASSUME NEW id \in DOMAIN txs PROVE signed'[id] = signed[id]
    <3>1. id # Len(txs) + 1 /\ id \in Ids
      BY <1>0, <2>2, Accepted
    <3> QED BY <1>0, <2>1, <3>1 DEF SendSignedTx
  <2> QED BY <1>0, <1>a, <2>2, <2>3, <2>4 DEF ActorInv, CoinFresh
<1>4. CASE \E kind \in {"ext", "inn"} : Deposit(kind)
  <2>1. PICK kind \in {"ext", "inn"} : Deposit(kind)
    BY <1>4
  <2>2. SpentOutputs' = SpentOutputs \cup [ins |-> {}, outs |-> <<kind>>].ins
    BY <2>1, DepositIsTx, SpentGrows DEF Deposit
  <2> QED BY <1>0, <2>1, <2>2 DEF Deposit, handler, trezor, ActorInv, CoinFresh
<1>5. CASE CoinEdit
  <2>1. /\ edits'.create \subseteq edits.create /\ prepared' = prepared /\ signed' = signed
        /\ txs' = txs
        /\ hpc' # "parse" => edits' = Nothing
    BY <1>5, OneEdit DEF CoinEdit, HandlerOK, CountsOK, trezor, node
  <2>2. SpentOutputs' = SpentOutputs
    BY <2>1 DEF SpentOutputs
  <2> QED BY <2>1, <2>2 DEF ActorInv, CoinFresh
<1>6. CASE (\E cs \in Some(Inner) : SendCoin(cs)) \/ Sign \/ BroadcastFails \/ Restart
           \/ \E cs \in Some(db) : PrepareTrezorSign(cs)
  <2>1. edits' = Nothing
    BY <1>1, <1>6 DEF SendCoin, Sign, BroadcastFails, Restart, PrepareTrezorSign, handler
  <2> QED BY <1>1, <2>1 DEF CoinFresh
<1>7. CASE \E i \in Ids : SignedEdit(i)
  <2>1. PICK i \in Ids : SignedEdit(i)
    BY <1>7
  <2>2. PICK o \in Due(signed[i]) : signed' = [signed EXCEPT ![i] = Left(signed[i], o)]
    BY <2>1 DEF SignedEdit
  <2>3. signed[i] # Nothing
    BY <2>2 DEF Due, Nothing
  <2>4. \A p \in edits.create : signed'[p.tx] = signed[p.tx]
    BY <1>0, <1>a, <2>2, <2>3
  <2>5. UNCHANGED <<txs, hpc, edits, prepared>>
    BY <2>1 DEF SignedEdit, node, handler
  <2> QED BY <2>4, <2>5 DEF ActorInv, CoinFresh, SpentOutputs
<1>8. CASE UNCHANGED <<txs, handler, prepared, signed>>
  BY <1>8 DEF handler, ActorInv, CoinFresh, SpentOutputs
<1> QED BY <1>2, <1>3, <1>4, <1>5, <1>6, <1>7, <1>8 DEF Next, vars, node, trezor, Mine, Evict,
        ReadBlock, ListenerEdit, NextBlock

LEMMA SignedKnownNext ==
    ASSUME TypeInv, SignedKnown, [Next]_vars
    PROVE  SignedKnown'
<1> USE DEF TypeInv, TypeOK
<1>1. DOMAIN txs \subseteq DOMAIN txs'
  BY NodeGrows DEF Grows
<1>2. CASE \E t \in prepared : SendSignedTx(t)
  <2>1. PICK t \in prepared : SendSignedTx(t)
    BY <1>2
  <2>2. t \in Tx /\ Accept(t) /\ signed \in [Ids -> Edits]
    BY <2>1 DEF SendSignedTx, TrezorOK
  <2>3. Len(txs) + 1 \in DOMAIN txs' /\ Len(txs) + 1 \in Ids
    BY <2>2, Accepted
  <2>4. ASSUME NEW id \in Ids, id # Len(txs) + 1 PROVE signed'[id] = signed[id]
    BY <2>1, <2>2, <2>4 DEF SendSignedTx
  <2>5. signed'[Len(txs) + 1] = ParseMempoolTransaction(Len(txs) + 1, t)
    BY <2>1, <2>2, <2>3 DEF SendSignedTx
  <2>6. \A o \in signed'[Len(txs) + 1].create : o.tx = Len(txs) + 1
    BY <2>2, <2>5, ParsedEdits
  <2> QED BY <1>1, <2>3, <2>4, <2>6 DEF SignedKnown
<1>3. CASE \E i \in Ids : SignedEdit(i)
  <2>1. PICK i \in Ids : SignedEdit(i)
    BY <1>3
  <2>2. PICK o \in Due(signed[i]) : signed' = [signed EXCEPT ![i] = Left(signed[i], o)]
    BY <2>1 DEF SignedEdit
  <2>3. signed[i] # Nothing
    BY <2>2 DEF Due, Nothing
  <2>4. \A id \in Ids : signed'[id] # Nothing => signed[id] # Nothing
    BY <2>2, <2>3 DEF TrezorOK
  <2>5. \A id \in Ids : signed'[id].create \subseteq signed[id].create
    BY <2>1, SignedLeft
  <2> QED BY <1>1, <2>4, <2>5 DEF SignedKnown
<1>4. CASE Restart
  BY <1>4 DEF Restart, SignedKnown
<1>5. CASE UNCHANGED signed
  BY <1>1, <1>5 DEF SignedKnown
<1> QED BY <1>2, <1>3, <1>4, <1>5 DEF Next, vars, trezor, Deposit, Mine, Evict, ReadBlock,
        ListenerEdit, NextBlock, SendCoin, Sign, Broadcast, BroadcastFails, CoinEdit,
        PrepareTrezorSign

LEMMA MinedStays ==
    ASSUME NodeOK, Grows, Len(chain') \in Nat, DOMAIN chain' = 1 .. Len(chain')
    PROVE  Mined \subseteq Mined'
<1>1. DOMAIN chain = 1 .. Len(chain) /\ Len(chain) \in Nat
  BY DEF NodeOK
<1> SUFFICES ASSUME NEW h \in 1 .. Len(chain) PROVE ToSet(chain[h]) \subseteq Mined'
  BY <1>1 DEF Mined
<1>2. h \in DOMAIN chain' /\ chain'[h] = chain[h]
  BY <1>1 DEF Grows
<1> QED BY <1>2 DEF Mined

\* An output SendSignedTx adds to the database was left for it to create; if
\* a transaction spends it, it is late.
LEMMA SignedCreates ==
    ASSUME TypeInv, NEW i \in Ids, SignedEdit(i), NEW o, o \in db', o \notin db
    PROVE  /\ o \in signed[i].create /\ o \notin signed'[i].create
           /\ o \in SpentOutputs => o \in late'
<1> USE DEF TypeInv, TypeOK
<1>1. PICK p \in Due(signed[i]) :
          /\ EditDb(signed[i], p)
          /\ signed' = [signed EXCEPT ![i] = Left(signed[i], p)]
          /\ late' = IF signed[i].remove = {} THEN late \cup ({p} \cap SpentOutputs) ELSE late
  BY DEF SignedEdit
<1>2. signed[i].remove = {} /\ db' = db \cup {p} /\ o = p
  BY <1>1 DEF EditDb
<1>3. signed'[i] = Left(signed[i], p)
  BY <1>1 DEF TrezorOK
<1> QED BY <1>1, <1>2, <1>3 DEF Due, Left

\* Late outputs are those SendSignedTx was left to create.
LEMMA LateSteps ==
    ASSUME [Next]_vars
    PROVE  /\ late \subseteq late'
           /\ \A o \in late' : o \in late \/ \E i \in Ids : o \in signed[i].create \cap SpentOutputs
<1>1. CASE \E i \in Ids : SignedEdit(i)
  BY <1>1 DEF SignedEdit, Due
<1>2. CASE UNCHANGED late
  BY <1>2
<1> QED BY <1>1, <1>2 DEF Next, vars, Deposit, Mine, Evict, ReadBlock, ListenerEdit, NextBlock,
        SendCoin, Sign, Broadcast, BroadcastFails, CoinEdit, PrepareTrezorSign, SendSignedTx, Restart

\* What only SendSignedTx can create stays unused until its block is mined.
LEMMA UnusedStays ==
    ASSUME TypeInv, ChainInv, ActorInv, [Next]_vars,
           NEW id \in Ids, NEW o \in signed[id].create, o \in signed'[id].create,
           id \notin Mined, Unused(o)
    PROVE  Unused(o)'
<1> USE DEF TypeInv, TypeOK
<1>1. o.tx = id /\ signed[id] # Nothing
  BY DEF ActorInv, SignedKnown, Nothing
<1>2. \A t \in Tx : Accept(t) /\ o \notin t.ins => o \notin SpentOutputs'
  BY SpentGrows DEF Unused
<1>3. CASE \E kind \in {"ext", "inn"} : Deposit(kind)
  <2>1. PICK kind \in {"ext", "inn"} : Deposit(kind)
    BY <1>3
  <2>2. o \notin SpentOutputs'
    BY <1>2, <2>1, DepositIsTx DEF Deposit
  <2> QED BY <2>1, <2>2 DEF Deposit, handler, trezor, Unused
<1>4. CASE \E t \in prepared : SendSignedTx(t)
  <2>1. PICK t \in prepared : SendSignedTx(t)
    BY <1>4
  <2>2. t \in Tx /\ Accept(t) /\ prepared' \subseteq prepared /\ UNCHANGED <<db, request>>
    BY <2>1 DEF SendSignedTx, TrezorOK, handler
  <2> QED BY <1>2, <2>2 DEF Unused
<1>5. CASE Broadcast \/ BroadcastFails
  <2>1. /\ UNCHANGED <<db, prepared>> /\ request' = NoTx /\ request \in Tx
        /\ Accept(request) \/ UNCHANGED node
    BY <1>5 DEF Broadcast, BroadcastFails, HandlerOK, trezor
  <2>2. o \notin SpentOutputs'
    BY <1>2, <2>1 DEF Unused, node, SpentOutputs
  <2> QED BY <2>1, <2>2 DEF Unused, NoTx
<1>6. CASE \E cs \in Some(Inner) : SendCoin(cs)
  <2>1. PICK cs \in Some(Inner) : SendCoin(cs)
    BY <1>6
  <2>2. cs \in SUBSET Outpoint /\ o \notin cs
    BY OwnFacts DEF Some, Inner, DatabaseOK, Unused
  <2>3. request'.ins = cs
    BY <2>1, <2>2, RequestOf
  <2> QED BY <2>1, <2>2, <2>3 DEF SendCoin, node, trezor, Unused, SpentOutputs
<1>7. CASE \E cs \in Some(db) : PrepareTrezorSign(cs)
  <2>1. PICK cs \in Some(db) : PrepareTrezorSign(cs)
    BY <1>7
  <2>2. cs \in SUBSET Outpoint /\ o \notin cs
    BY OwnFacts DEF Some, DatabaseOK, Unused
  <2>3. PICK t : prepared' = prepared \cup {t} /\ t.ins = cs
    BY <2>1, <2>2, PreparedOf
  <2> QED BY <2>1, <2>2, <2>3 DEF PrepareTrezorSign, node, handler, Unused, SpentOutputs
<1>8. CASE ListenerEdit
  <2>1. ASSUME o \in todo.create PROVE FALSE
    <3>1. pos > 0 /\ o.tx = chain[LastBlock][pos]
      BY <2>1 DEF ActorInv, ListenerReads
    <3>2. LastBlock \in 1 .. Len(chain) /\ o.tx \in ToSet(chain[LastBlock])
      BY <3>1, BlockFacts
    <3> QED BY <1>1, <3>2, BlockFacts DEF Mined
  <2>2. o \notin db'
    BY <1>8, <2>1, OneEdit DEF ListenerEdit, ListenerOK, CountsOK, Unused
  <2> QED BY <1>8, <2>2 DEF ListenerEdit, node, handler, trezor, Unused, SpentOutputs
<1>9. CASE CoinEdit
  <2>1. o \notin edits.create
    BY <1>1 DEF ActorInv, CoinFresh
  <2>2. o \notin db'
    BY <1>9, <2>1, OneEdit DEF CoinEdit, HandlerOK, CountsOK, Unused
  <2> QED BY <1>9, <2>2 DEF CoinEdit, node, trezor, Unused, SpentOutputs
<1>10. CASE \E i \in Ids : SignedEdit(i)
  <2>1. PICK i \in Ids : SignedEdit(i)
    BY <1>10
  <2>2. ASSUME o \in db' PROVE FALSE
    <3>1. o \in signed[i].create /\ o \notin signed'[i].create
      BY <2>1, <2>2, SignedCreates DEF Unused
    <3>2. o.tx = i
      BY <3>1 DEF ActorInv, SignedKnown, Nothing
    <3> QED BY <1>1, <3>1, <3>2
  <2> QED BY <2>1, <2>2 DEF SignedEdit, node, handler, Unused, SpentOutputs
<1>11. CASE UNCHANGED <<txs, db, prepared>> /\ request' \in {request, NoTx}
  BY <1>11 DEF Unused, SpentOutputs, NoTx
<1> QED BY <1>3, <1>4, <1>5, <1>6, <1>7, <1>8, <1>9, <1>10, <1>11 DEF Next, vars, node, handler,
        trezor, Mine, Evict, ReadBlock, NextBlock, Sign, Restart

LEMMA OvertakenNext ==
    ASSUME TypeInv, ChainInv, ActorInv, [Next]_vars
    PROVE  OvertakenByBlock'
<1> USE DEF TypeInv, TypeOK
<1>1. Mined \subseteq Mined'
  BY NodeGrows, MinedStays DEF NodeOK
<1>2. ASSUME NEW o \in late' PROVE o.tx \in Mined'
  <2>1. CASE o \in late
    BY <1>1, <2>1 DEF ActorInv, OvertakenByBlock
  <2>2. CASE \E i \in Ids : o \in signed[i].create \cap SpentOutputs
    <3>1. PICK i \in Ids : o \in signed[i].create \cap SpentOutputs
      BY <2>2
    <3>2. o.tx = i
      BY <3>1 DEF ActorInv, SignedKnown, Nothing
    <3> QED BY <1>1, <3>1, <3>2 DEF ActorInv, OvertakenByBlock, Unused
  <2> QED BY <2>1, <2>2, LateSteps
<1>3. ASSUME NEW id \in Ids, NEW o \in signed'[id].create, id \notin Mined'
      PROVE  Unused(o)'
  <2>1. CASE o \in signed[id].create
    BY <1>1, <1>3, <2>1, UnusedStays DEF ActorInv, OvertakenByBlock
  <2>2. CASE o \notin signed[id].create
    <3>1. PICK t \in prepared : SendSignedTx(t)
      <4>1. CASE \E i \in Ids : SignedEdit(i)
        BY <2>2, <4>1, SignedLeft
      <4>2. CASE Restart
        BY <4>2 DEF Restart, Nothing
      <4>3. CASE UNCHANGED signed
        BY <2>2, <4>3
      <4> QED BY <4>1, <4>2, <4>3 DEF Next, vars, trezor, Deposit, Mine, Evict, ReadBlock,
            ListenerEdit, NextBlock, SendCoin, Sign, Broadcast, BroadcastFails, CoinEdit,
            PrepareTrezorSign
    <3>2. /\ t \in Tx /\ Accept(t) /\ prepared' \subseteq prepared /\ UNCHANGED <<db, request>>
          /\ signed \in [Ids -> Edits] /\ \A p \in t.ins : p.tx \in Live
      BY <3>1 DEF SendSignedTx, TrezorOK, handler, Acceptable
    <3>3. id = Len(txs) + 1 /\ o \in ParseMempoolTransaction(Len(txs) + 1, t).create
      BY <2>2, <3>1, <3>2 DEF SendSignedTx
    <3>4. o.tx = Len(txs) + 1 /\ o.tx \notin DOMAIN txs
      BY <3>2, <3>3, ParsedEdits, Accepted
    <3>5. SpentOutputs' = SpentOutputs \cup t.ins
      BY <3>2, SpentGrows
    <3>6. o \notin SpentOutputs'
      BY <3>2, <3>4, <3>5, SpentKnown DEF ChainInv, Live, NodeOK
    <3>7. o \notin db
      BY <3>4, OwnFacts DEF DatabaseOK
    <3> QED BY <3>2, <3>4, <3>6, <3>7 DEF Unused, ActorInv, RequestsKnown
  <2> QED BY <2>1, <2>2
<1> QED BY <1>2, <1>3 DEF OvertakenByBlock

LEMMA ActorNext ==
    ASSUME TypeInv, ChainInv, ActorInv, [Next]_vars
    PROVE  ActorInv'
<1>1. ListenerReads' /\ RequestsKnown' /\ SignedKnown'
  BY ListenerReadsNext, RequestsKnownNext, SignedKnownNext DEF ActorInv
<1> QED BY <1>1, CoinFreshNext, OvertakenNext DEF ActorInv

-----------------------------------------------------------------------------
(* What is spent leaves the database for good.                               *)

\* In the block that is being read, the inputs of the transactions parsed so
\* far are gone, but for what is left to remove of the last one.
ReadGone ==
    faults = 0 =>
        \A k \in 1 .. pos : \A o \in txs[chain[LastBlock][k]].ins \cap db :
            (k = pos /\ o \in todo.remove) \/ ChildFirst(o, chain[LastBlock][k]) \/ o \in late

SpentInv == ChainInv /\ ActorInv /\ ReadGone /\ SpentLeave

\* Only the Listener, or a late SendSignedTx, can bring back what a mined
\* transaction spent.
LEMMA BroughtBack ==
    ASSUME TypeInv, ChainInv, ActorInv, [Next]_vars,
           NEW h \in 1 .. Len(chain), NEW id \in ToSet(chain[h]), NEW o \in txs[id].ins,
           o \in db', o \notin db
    PROVE  o \in late' \/ (/\ ListenerEdit /\ o \in todo.create
                            /\ pos > 0 /\ o.tx = chain[LastBlock][pos])
<1> USE DEF TypeInv, TypeOK
<1>1. id \in DOMAIN txs
  BY BlockFacts
<1>2. o \in SpentOutputs
  BY <1>1, SpentOf
<1>3. CASE ListenerEdit
  BY <1>3, OneEdit DEF ListenerEdit, ListenerOK, CountsOK, ActorInv, ListenerReads
<1>4. CASE CoinEdit
  <2>1. o \in edits.create
    BY <1>4, OneEdit DEF CoinEdit, HandlerOK, CountsOK
  <2> QED BY <1>2, <2>1 DEF ActorInv, CoinFresh
<1>5. CASE \E i \in Ids : SignedEdit(i)
  BY <1>2, <1>5, SignedCreates
<1> QED BY <1>3, <1>4, <1>5, DatabaseSteps

\* No step undoes a failure.
LEMMA FaultsStay ==
    ASSUME TypeInv, [Next]_vars
    PROVE  faults' = 0 => faults = 0
<1> USE DEF TypeInv, TypeOK
<1>1. faults' = faults \/ faults' = faults + 1
  <2>1. CASE ListenerEdit
    BY <2>1, OneEdit DEF ListenerEdit, ListenerOK, CountsOK
  <2>2. CASE CoinEdit
    BY <2>2, OneEdit DEF CoinEdit, HandlerOK, CountsOK
  <2>3. CASE \E id \in Ids : SignedEdit(id)
    BY <2>3, OneEdit DEF SignedEdit, TrezorOK, CountsOK
  <2>4. CASE BroadcastFails
    BY <2>4 DEF BroadcastFails
  <2>5. CASE UNCHANGED faults
    BY <2>5
  <2> QED BY <2>1, <2>2, <2>3, <2>4, <2>5 DEF Next, vars, budget, Deposit, Mine, Evict,
        ReadBlock, NextBlock, SendCoin, Sign, Broadcast, PrepareTrezorSign, SendSignedTx, Restart
<1> QED BY <1>1 DEF CountsOK

LEMMA ChildFirstStays ==
    ASSUME NodeOK, Grows, Len(chain') \in Nat, DOMAIN chain' = 1 .. Len(chain'), NEW o, NEW id,
           ChildFirst(o, id)
    PROVE  ChildFirst(o, id)'
<1>1. DOMAIN chain = 1 .. Len(chain) /\ Len(chain) \in Nat
  BY DEF NodeOK
<1> QED BY <1>1 DEF ChildFirst, Grows

LEMMA SpentLeaveNext ==
    ASSUME TypeInv, SpentInv, [Next]_vars
    PROVE  SpentLeave'
<1> USE DEF TypeInv, TypeOK
<1> SUFFICES ASSUME faults' = 0, NEW h \in 1 .. LastBlock' - 1, NEW id \in ToSet(chain'[h]),
                    NEW o \in txs'[id].ins, o \in db'
             PROVE  ChildFirst(o, id)' \/ o \in late'
  BY OvertakenNext DEF SpentLeave, Settled, SpentInv, OvertakenByBlock
<1>0. late \subseteq late'
  BY LateSteps
<1>1. faults = 0
  BY FaultsStay
<1>2. /\ Grows /\ Len(chain') \in Nat /\ DOMAIN chain' = 1 .. Len(chain')
      /\ LastBlock \in Nat /\ 1 .. LastBlock - 1 \subseteq 1 .. Len(chain)
  BY NodeGrows, BlockFacts DEF NodeOK
<1>3. ChildFirst(o, id) => ChildFirst(o, id)'
  BY <1>2, ChildFirstStays
<1>4. CASE h \in 1 .. LastBlock - 1
  <2>1. h \in 1 .. Len(chain) /\ id \in ToSet(chain[h]) /\ id \in DOMAIN txs /\ o \in txs[id].ins
    BY <1>2, <1>4, BlockFacts DEF Grows
  <2>2. CASE o \in db
    BY <1>0, <1>1, <1>3, <1>4, <2>1, <2>2 DEF SpentInv, SpentLeave, Settled
  <2>3. CASE o \notin db /\ o \notin late'
    <3>1. pos > 0 /\ o.tx = chain[LastBlock][pos]
      BY <2>1, <2>3, BroughtBack DEF SpentInv
    <3>2. LastBlock \in 1 .. Len(chain) /\ o.tx \in ToSet(chain[LastBlock])
      BY <3>1, BlockFacts
    <3>3. PICK g \in 1 .. h : o.tx \in ToSet(chain[g])
      BY <2>1 DEF SpentInv, ChainInv, InputsMined
    <3>4. g \in 1 .. Len(chain) /\ g # LastBlock
      BY <1>2, <1>4, <2>1, <3>3
    <3> QED BY <3>2, <3>3, <3>4 DEF SpentInv, ChainInv, MinedOnce
  <2> QED BY <2>2, <2>3
<1>5. CASE NextBlock /\ h = LastBlock
  <2>1. /\ LastBlock \in 1 .. Len(chain) /\ pos = Len(chain[LastBlock]) /\ todo = Nothing
        /\ chain' = chain /\ txs' = txs /\ db' = db
    BY <1>2, <1>5, BlockFacts DEF NextBlock, node
  <2>2. id \in ToSet(chain[LastBlock]) /\ chain[LastBlock] \in Seq(Ids)
    BY <1>5, <2>1, BlockFacts
  <2>3. PICK k \in 1 .. pos : id = chain[LastBlock][k]
    BY <2>1, <2>2 DEF ToSet
  <2>4. o \in txs[chain[LastBlock][k]].ins \cap db /\ o \notin todo.remove
    BY <2>1, <2>3 DEF Nothing
  <2> QED BY <1>0, <1>1, <1>3, <2>3, <2>4 DEF SpentInv, ReadGone
<1>6. h \in 1 .. LastBlock - 1 \/ (NextBlock /\ h = LastBlock)
  <2>1. CASE ReadBlock \/ ListenerEdit \/ UNCHANGED listener
    BY <2>1 DEF ReadBlock, ListenerEdit, listener
  <2>2. CASE NextBlock
    BY <1>2, <2>2 DEF NextBlock
  <2>3. CASE Restart
    BY <1>2, <2>3 DEF Restart, Resume
  <2> QED BY <2>1, <2>2, <2>3, ListenerSteps
<1> QED BY <1>4, <1>5, <1>6

LEMMA ReadGoneNext ==
    ASSUME TypeInv, SpentInv, [Next]_vars
    PROVE  ReadGone'
<1> USE DEF TypeInv, TypeOK
<1> DEFINE c(k) == chain[LastBlock][k]
<1> SUFFICES ASSUME faults' = 0, NEW k \in 1 .. pos', NEW o \in txs'[c(k)'].ins, o \in db'
             PROVE  (k = pos' /\ o \in todo'.remove) \/ ChildFirst(o, c(k))' \/ o \in late'
  BY DEF ReadGone
<1>0. late \subseteq late'
  BY LateSteps
<1>1. faults = 0
  BY FaultsStay
<1>2. /\ Grows /\ Len(chain') \in Nat /\ DOMAIN chain' = 1 .. Len(chain')
      /\ pos \in Nat /\ LastBlock \in Nat
  BY NodeGrows, BlockFacts DEF NodeOK
<1>3. \A id : ChildFirst(o, id) => ChildFirst(o, id)'
  BY <1>2, ChildFirstStays
<1>4. CASE ReadBlock
  <2>1. /\ LastBlock \in 1 .. Len(chain) /\ pos' = pos + 1 /\ c(k)' = c(k)
        /\ txs' = txs /\ todo = Nothing /\ db' = db /\ todo'.remove = txs[c(pos + 1)].ins
    BY <1>4, ReadEdits DEF ReadBlock, node
  <2>2. CASE k = pos + 1
    BY <2>1, <2>2
  <2>3. CASE k \in 1 .. pos
    <3>1. ChildFirst(o, c(k)) \/ o \in late
      BY <1>1, <2>1, <2>3 DEF SpentInv, ReadGone, Nothing
    <3> QED BY <1>0, <1>3, <2>1, <3>1
  <2> QED BY <1>2, <2>1, <2>2, <2>3
<1>5. CASE ~ReadBlock /\ pos' = pos /\ LastBlock' = LastBlock /\ (ListenerEdit \/ todo' = todo)
  <2>1. /\ k \in 1 .. pos /\ LastBlock \in 1 .. Len(chain) /\ k \in 1 .. Len(chain[LastBlock])
        /\ c(k) \in ToSet(chain[LastBlock]) /\ c(k) \in DOMAIN txs
    BY <1>5, BlockFacts
  <2>2. c(k)' = c(k) /\ o \in txs[c(k)].ins
    BY <1>2, <1>5, <2>1 DEF Grows
  <2>3. CASE o \in db
    <3>1. (k = pos /\ o \in todo.remove) \/ ChildFirst(o, c(k)) \/ o \in late
      BY <1>1, <2>1, <2>2, <2>3 DEF SpentInv, ReadGone
    <3>2. o \in todo.remove => o \in todo'.remove
      BY <1>5, OneEdit DEF ListenerEdit, ListenerOK, CountsOK
    <3> QED BY <1>0, <1>3, <1>5, <2>2, <3>1, <3>2
  <2>4. CASE o \notin db /\ o \notin late'
    <3>1. o.tx = c(pos) /\ pos > 0
      BY <2>1, <2>2, <2>4, BroughtBack DEF SpentInv
    <3>2. k # pos
      <4>1. o.tx \in 1 .. c(k) - 1 /\ c(k) \in Int
        BY <2>1, <2>2, OwnFacts DEF SpentInv, ChainInv, Older, Ids
      <4> QED BY <3>1, <4>1
    <3>3. /\ LastBlock \in DOMAIN chain /\ k \in DOMAIN chain[LastBlock]
          /\ pos \in DOMAIN chain[LastBlock] /\ k < pos
      BY <1>2, <2>1, <3>2, BlockFacts
    <3>4. ChildFirst(o, c(k))
      BY <3>1, <3>3 DEF ChildFirst
    <3> QED BY <1>3, <2>2, <3>4
  <2> QED BY <2>3, <2>4
<1>6. CASE NextBlock \/ Restart
  BY <1>6 DEF NextBlock, Restart
<1> QED BY <1>4, <1>5, <1>6, ListenerSteps DEF ListenerEdit, listener

LEMMA SpentInvariant == Spec => [](TypeInv /\ SpentInv)
<1>1. Init => SpentInv
  <2> SUFFICES ASSUME Init PROVE SpentInv
    OBVIOUS
  <2>1. ChainInv
    BY DEF Init, ChainInv, Older, MinedOnce, InputsMined
  <2>2. ActorInv
    BY DEF Init, ActorInv, ListenerReads, CoinFresh, RequestsKnown, SignedKnown, OvertakenByBlock,
           Nothing, NoTx
  <2>3. ReadGone /\ SpentLeave
    BY DEF Init, ReadGone, SpentLeave, Settled
  <2> QED BY <2>1, <2>2, <2>3 DEF SpentInv
<1>2. TypeInv /\ SpentInv /\ [Next]_vars => SpentInv'
  BY ChainNext, ActorNext, ReadGoneNext, SpentLeaveNext DEF SpentInv
<1> QED BY <1>1, <1>2, WalletTypes, PTL DEF Spec

\* Once the block of the spending transaction is read, an output is gone for
\* good, over rereading and restarts, while no removal failed: it comes back
\* only if the block lists the spender first (BCH), or if SendSignedTx creates
\* the output after its own block was mined and the output spent.
THEOREM SpentLeaveCorrect == Spec => []SpentLeave
<1>1. TypeInv /\ SpentInv => SpentLeave
  BY DEF SpentInv
<1> QED BY <1>1, SpentInvariant, PTL

-----------------------------------------------------------------------------
(* What a request spends cannot be chosen again.                             *)

\* While the process runs on, the blocks of the reserved outputs stay read.
ReservedSettled ==
    /\ reserved \subseteq SpentOutputs
    /\ stops = 0 => \A o \in reserved : o.tx \in Settled

HoldInv == ReservedSettled /\ ConfirmedSpendsHold

LEMMA SettledGrows ==
    ASSUME TypeInv, [Next]_vars, ~Restart
    PROVE  Settled \subseteq Settled'
<1> USE DEF TypeInv, TypeOK
<1> SUFFICES ASSUME NEW h \in 1 .. LastBlock - 1 PROVE ToSet(chain[h]) \subseteq Settled'
  BY DEF Settled
<1>1. LastBlock \in Nat /\ h \in 1 .. Len(chain)
  BY BlockFacts
<1>2. LastBlock' = LastBlock \/ LastBlock' = LastBlock + 1
  BY ListenerSteps DEF ReadBlock, ListenerEdit, NextBlock, listener
<1>3. chain'[h] = chain[h]
  BY <1>1, NodeGrows DEF Grows
<1>4. h \in 1 .. LastBlock' - 1
  BY <1>1, <1>2
<1> QED BY <1>3, <1>4 DEF Settled

LEMMA ReservedNext ==
    ASSUME TypeInv, ReservedSettled, [Next]_vars
    PROVE  ReservedSettled'
<1> USE DEF TypeInv, TypeOK
<1>1. SpentOutputs \subseteq SpentOutputs'
  BY NodeGrows, SpentStays
<1>2. CASE Restart
  <2>1. stops' # 0 /\ reserved' = reserved
    BY <1>2 DEF Restart, CountsOK
  <2> QED BY <1>1, <2>1 DEF ReservedSettled
<1>3. CASE ~Restart
  <2>1. Settled \subseteq Settled'
    BY <1>3, SettledGrows
  <2>2. CASE Broadcast
    <3>1. /\ request \in Tx /\ Accept(request) /\ stops' = stops
          /\ reserved' = reserved \cup SettledInputs(request)
      BY <2>2 DEF Broadcast, HandlerOK, budget
    <3>2. request.ins \subseteq SpentOutputs'
      BY <3>1, SpentNow
    <3> QED BY <1>1, <2>1, <3>1, <3>2 DEF ReservedSettled, SettledInputs
  <2>3. CASE \E t \in prepared : SendSignedTx(t)
    <3>1. PICK t \in prepared : SendSignedTx(t)
      BY <2>3
    <3>2. /\ t \in Tx /\ Accept(t) /\ stops' = stops
          /\ reserved' = reserved \cup SettledInputs(t)
      BY <3>1 DEF SendSignedTx, TrezorOK, budget
    <3>3. t.ins \subseteq SpentOutputs'
      BY <3>2, SpentNow
    <3> QED BY <1>1, <2>1, <3>2, <3>3 DEF ReservedSettled, SettledInputs
  <2>4. CASE UNCHANGED <<reserved, stops>>
    BY <1>1, <2>1, <2>4 DEF ReservedSettled
  <2> QED BY <1>3, <2>2, <2>3, <2>4 DEF Next, vars, budget, Deposit, Mine, Evict, ReadBlock,
        ListenerEdit, NextBlock, SendCoin, Sign, BroadcastFails, CoinEdit, PrepareTrezorSign,
        SignedEdit
<1> QED BY <1>2, <1>3

\* No actor but a late SendSignedTx creates a settled output that a transaction
\* spends.
LEMMA SettledStaysOut ==
    ASSUME TypeInv, SpentInv, [Next]_vars, NEW o \in SpentOutputs, o.tx \in Settled, o \in db'
    PROVE  o \in db \/ o \in late'
<1> USE DEF TypeInv, TypeOK
<1>1. PICK h \in 1 .. LastBlock - 1 : o.tx \in ToSet(chain[h])
  BY DEF Settled
<1>2. h \in 1 .. Len(chain) /\ LastBlock \in Nat
  BY <1>1, BlockFacts
<1>3. CASE ListenerEdit
  <2>1. ASSUME o \in todo.create PROVE FALSE
    <3>1. pos > 0 /\ o.tx = chain[LastBlock][pos]
      BY <2>1 DEF SpentInv, ActorInv, ListenerReads
    <3>2. LastBlock \in 1 .. Len(chain) /\ o.tx \in ToSet(chain[LastBlock])
      BY <3>1, BlockFacts
    <3>3. h # LastBlock
      BY <1>1, <1>2
    <3> QED BY <1>1, <1>2, <3>2, <3>3 DEF SpentInv, ChainInv, MinedOnce
  <2> QED BY <1>3, <2>1, OneEdit DEF ListenerEdit, ListenerOK, CountsOK
<1>4. CASE CoinEdit
  BY <1>4, OneEdit DEF CoinEdit, HandlerOK, CountsOK, SpentInv, ActorInv, CoinFresh
<1>5. CASE \E i \in Ids : SignedEdit(i)
  BY <1>5, SignedCreates
<1> QED BY <1>3, <1>4, <1>5, DatabaseSteps

LEMMA HoldNext ==
    ASSUME TypeInv, SpentInv, HoldInv, [Next]_vars
    PROVE  ConfirmedSpendsHold'
<1> USE DEF TypeInv, TypeOK
<1> SUFFICES ASSUME faults' = 0, stops' = 0, NEW o \in reserved', o \in db'
             PROVE  o \in edits'.remove \/ o \in late' \/ \E id \in Ids : o \in signed'[id].remove
  BY DEF ConfirmedSpendsHold
<1>1. faults = 0
  BY FaultsStay
<1>2. stops = 0 /\ ~Restart
  <2>1. ~Restart
    BY DEF Restart, CountsOK
  <2> QED BY <2>1 DEF Next, vars, budget, Deposit, Mine, Evict, ReadBlock, ListenerEdit,
        NextBlock, SendCoin, Sign, Broadcast, BroadcastFails, CoinEdit, PrepareTrezorSign,
        SendSignedTx, SignedEdit
<1> SUFFICES ASSUME o \notin late'
             PROVE  o \in edits'.remove \/ \E id \in Ids : o \in signed'[id].remove
  OBVIOUS
<1>3. ASSUME o \in reserved
      PROVE  o \in edits.remove \/ \E id \in Ids : o \in signed[id].remove
  <2>1. o \in SpentOutputs /\ o.tx \in Settled
    BY <1>2, <1>3 DEF HoldInv, ReservedSettled
  <2>2. o \in db /\ o \notin late
    BY <2>1, SettledStaysOut, LateSteps
  <2> QED BY <1>1, <1>2, <1>3, <2>2 DEF HoldInv, ConfirmedSpendsHold
<1>4. CASE Broadcast
  <2>1. /\ request \in Tx /\ Accept(request) /\ signed' = signed /\ edits = Nothing
        /\ reserved' = reserved \cup SettledInputs(request)
    BY <1>4 DEF Broadcast, HandlerOK, trezor, SpentInv, ActorInv, CoinFresh
  <2>2. edits'.remove = request.ins
    BY <1>4, <2>1, ParsedEdits DEF Broadcast
  <2> QED BY <1>3, <2>1, <2>2 DEF SettledInputs, Nothing
<1>5. CASE \E t \in prepared : SendSignedTx(t)
  <2>1. PICK t \in prepared : SendSignedTx(t)
    BY <1>5
  <2>2. /\ t \in Tx /\ Accept(t) /\ signed \in [Ids -> Edits] /\ edits' = edits
        /\ reserved' = reserved \cup SettledInputs(t)
    BY <2>1 DEF SendSignedTx, TrezorOK, handler
  <2>3. Len(txs) + 1 \in Ids /\ Len(txs) + 1 \notin DOMAIN txs
    BY <2>2, Accepted
  <2>4. signed[Len(txs) + 1] = Nothing
    BY <2>3 DEF SpentInv, ActorInv, SignedKnown
  <2>5. /\ signed'[Len(txs) + 1] = ParseMempoolTransaction(Len(txs) + 1, t)
        /\ \A id \in Ids : id # Len(txs) + 1 => signed'[id] = signed[id]
    BY <2>1, <2>2, <2>3 DEF SendSignedTx
  <2>6. signed'[Len(txs) + 1].remove = t.ins
    BY <2>2, <2>5, ParsedEdits
  <2> QED BY <1>3, <2>2, <2>3, <2>4, <2>5, <2>6 DEF SettledInputs, Nothing
<1>6. CASE CoinEdit
  <2>1. reserved' = reserved /\ signed' = signed
    BY <1>6 DEF CoinEdit, trezor
  <2>2. o \in edits.remove => o \in edits'.remove
    BY <1>6, OneEdit DEF CoinEdit, HandlerOK, CountsOK
  <2> QED BY <1>3, <2>1, <2>2
<1>7. CASE \E i \in Ids : SignedEdit(i)
  <2>1. PICK i \in Ids : SignedEdit(i)
    BY <1>7
  <2>2. PICK p \in Due(signed[i]) : /\ EditDb(signed[i], p)
                                     /\ signed' = [signed EXCEPT ![i] = Left(signed[i], p)]
    BY <2>1 DEF SignedEdit
  <2>3. reserved' = reserved /\ edits' = edits /\ signed \in [Ids -> Edits]
    BY <2>1 DEF SignedEdit, handler, TrezorOK
  <2>4. o \in signed[i].remove => o \in Left(signed[i], p).remove
    BY <2>2, <2>3, OneEdit DEF CountsOK
  <2> QED BY <1>3, <2>2, <2>3, <2>4
<1>8. CASE UNCHANGED <<reserved, edits, signed>>
  BY <1>3, <1>8
<1> QED BY <1>2, <1>4, <1>5, <1>6, <1>7, <1>8 DEF Next, vars, handler, trezor, Deposit, Mine, Evict,
        ReadBlock, ListenerEdit, NextBlock, SendCoin, Sign, BroadcastFails, PrepareTrezorSign

\* An output of a block that was read, once a request spent it, is removed or
\* about to be removed by that request: no later request chooses it, even
\* while the spending transaction is not mined.  Holds while nothing failed
\* and the process runs on, but for an output its own SendSignedTx creates
\* after its block was mined and the output spent.
THEOREM ConfirmedSpendsHoldCorrect == Spec => []ConfirmedSpendsHold
<1>1. Init => HoldInv
  BY DEF Init, HoldInv, ReservedSettled, ConfirmedSpendsHold
<1>2. (TypeInv /\ SpentInv) /\ HoldInv /\ [Next]_vars => HoldInv'
  BY ReservedNext, HoldNext DEF HoldInv
<1>3. HoldInv => ConfirmedSpendsHold
  BY DEF HoldInv
<1> QED BY <1>1, <1>2, <1>3, SpentInvariant, PTL DEF Spec
=============================================================================
