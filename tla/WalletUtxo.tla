----------------------------- MODULE WalletUtxo -----------------------------
(* The utxo database of the wallet and the node it must agree with.  The     *)
(* sending handlers choose outputs from the database, broadcast through the  *)
(* node and then edit the database themselves (ParseMempoolTransaction); the *)
(* Listener edits it again when it reads the block (ParseTransaction).  Each *)
(* edit is a database transaction of its own.  SendCoin and the trezor's     *)
(* preparation hold the mutex m, SendSignedTx and the Listener do not.       *)
(* Amounts are left to CoinSelection: here any outputs of the right branch   *)
(* may be chosen, and an address is its kind.                                *)
EXTENDS Integers, Sequences, SequencesExt, FiniteSets

CONSTANTS
    MaxTxs,      \* bound: transactions the node ever accepts
    MaxBlocks,   \* bound: blocks mined
    MaxSigned,   \* bound: SendSignedTx requests
    MaxTroubles, \* bound: failed RPC calls, evictions and restarts together
    Ctor         \* the chain orders a block by transaction id (BCH), not topologically

ASSUME UtxoBounds ==
    /\ MaxTxs \in Nat /\ MaxBlocks \in Nat /\ MaxSigned \in Nat
    /\ MaxTroubles \in Nat /\ Ctor \in BOOLEAN

VARIABLES
    \* the node
    txs,        \* id -> transaction, in the order of acceptance
    mempool,    \* ids accepted and not yet mined
    chain,      \* height -> ids in block order
    evicted,    \* ids dropped from the mempool
    \* the wallet
    db,         \* outpoints in the database
    LastBlock,  \* next block the Listener reads, 1 is the first
    pos,        \* how many of its transactions were given to ParseTransaction
    todo,       \* edits left of the last of these
    hpc,        \* SendCoin: "idle", "chosen", "signed" or "parse"
    request,    \* SendCoin: the transaction being made
    edits,      \* SendCoin: edits it has left
    prepared,   \* transactions handed out to the trezor
    signed,     \* id -> edits SendSignedTx has left
    \* bookkeeping
    reserved,   \* settled outputs spent by a request that was broadcast
    late,       \* outputs SendSignedTx created after they had been spent
    requests, faults, stops

node == <<txs, mempool, chain, evicted>>
listener == <<LastBlock, pos, todo>>
handler == <<hpc, request, edits>>
trezor == <<prepared, signed>>
budget == <<requests, faults, stops>>
vars == <<node, db, listener, handler, trezor, reserved, late, budget>>

MayFail == faults + stops + Cardinality(evicted) < MaxTroubles

Ids == 1 .. MaxTxs
Outpoint == [tx : Ids, index : 0 .. 1]
Kinds == {"ext", "inn", "out"}
Tx == [ins : SUBSET Outpoint, outs : {s \in Seq(Kinds) : Len(s) <= 2}]
NoTx == [ins |-> {}, outs |-> <<>>]

Point(id, i) == [tx |-> id, index |-> i]
Kind(o) == txs[o.tx].outs[o.index + 1]
Mined == UNION {ToSet(chain[h]) : h \in DOMAIN chain}
Live == mempool \cup Mined
Outputs(id, t) == {Point(id, i - 1) : i \in DOMAIN t.outs}
Received(id, t) == {Point(id, i - 1) : i \in {j \in DOMAIN t.outs : t.outs[j] # "out"}}
Own(id) == Received(id, txs[id])
Spenders(o) == {id \in Live : o \in txs[id].ins}
SpentOutputs == UNION {txs[id].ins : id \in DOMAIN txs}

-----------------------------------------------------------------------------
\* What a parse function does to the database: it removes the inputs, then
\* creates the outputs that belong to the wallet.  The order within the two
\* (ParseTransaction creates the last output first) is left open.
Edits == [remove : SUBSET Outpoint, create : SUBSET Outpoint]
Nothing == [remove |-> {}, create |-> {}]

\* Mutant of ParseMempoolTransaction: the index of the output an input
\* spends is taken to be 0.
ParseMempoolTransactionIndex(id, t) ==
    [remove |-> {Point(o.tx, 0) : o \in t.ins}, create |-> Received(id, t)]

ParseMempoolTransaction(id, t) == [remove |-> t.ins, create |-> Received(id, t)]

\* Mutant of ParseTransaction: the addresses of the outputs are not looked up.
ParseTransactionAll(id) == [remove |-> txs[id].ins, create |-> Outputs(id, txs[id])]

\* Mutant of ParseTransaction: an input is removed only in the block after
\* that of its output, as if the handler had removed the others.
ParseTransactionYounger(id) ==
    [remove |-> {o \in txs[id].ins : o.tx \notin ToSet(chain[LastBlock])},
     create |-> Own(id)]

ParseTransaction(id) == [remove |-> txs[id].ins, create |-> Own(id)]

\* The edits that may come next, and what is left after one.
Due(e) == IF e.remove # {} THEN e.remove ELSE e.create
Left(e, o) == [remove |-> e.remove \ {o}, create |-> e.create \ (IF e.remove = {} THEN {o} ELSE {})]

\* One edit: removeUtxo, left out when the RPC call before it fails, or
\* createUtxo.
EditDb(e, o) ==
    \/ e.remove # {} /\ db' = db \ {o} /\ UNCHANGED faults
    \/ e.remove # {} /\ MayFail /\ faults' = faults + 1 /\ UNCHANGED db
    \/ e.remove = {} /\ db' = db \cup {o} /\ UNCHANGED faults

-----------------------------------------------------------------------------
Init ==
    /\ txs = <<>> /\ mempool = {} /\ chain = <<>> /\ evicted = {}
    /\ db = {} /\ LastBlock = 1 /\ pos = 0 /\ todo = Nothing
    /\ hpc = "idle" /\ request = NoTx /\ edits = Nothing
    /\ prepared = {} /\ signed = [id \in Ids |-> Nothing]
    /\ reserved = {} /\ late = {} /\ requests = 0 /\ faults = 0 /\ stops = 0

\* The mempool's rule: inputs exist and nothing else spends them.
Acceptable(t) ==
    \A o \in t.ins : o.tx \in Live /\ Spenders(o) = {}

Accept(t) ==
    /\ Len(txs) < MaxTxs
    /\ txs' = Append(txs, t)
    /\ mempool' = mempool \cup {Len(txs) + 1}
    /\ UNCHANGED <<chain, evicted>>

\* Somebody pays the wallet.
Deposit(kind) ==
    /\ Accept([ins |-> {}, outs |-> <<kind>>])
    /\ UNCHANGED <<db, listener, handler, trezor, reserved, late, budget>>

\* The orders a block may have.  On BCH ids are as good as random; otherwise
\* parents come before children, as they do in the order of acceptance.
BlockOrders(s) ==
    {b \in [1 .. Cardinality(s) -> s] :
        /\ ToSet(b) = s
        /\ Ctor \/ \A i, j \in DOMAIN b : i < j => b[i] < b[j]}

\* A block takes transactions from the mempool, with those they depend on.
Mine(s) ==
    /\ Len(chain) < MaxBlocks
    /\ \A id \in s : \A o \in txs[id].ins : o.tx \in Mined \cup s
    /\ \E b \in BlockOrders(s) : chain' = Append(chain, b)
    /\ mempool' = mempool \ s
    /\ UNCHANGED <<txs, evicted, db, listener, handler, trezor, reserved, late, budget>>

\* The node drops a transaction that has no descendant in the mempool.
Evict(id) ==
    /\ MayFail
    /\ \A o \in Outputs(id, txs[id]) : Spenders(o) = {}
    /\ mempool' = mempool \ {id}
    /\ evicted' = evicted \cup {id}
    /\ UNCHANGED <<txs, chain, db, listener, handler, trezor, reserved, late, budget>>

-----------------------------------------------------------------------------
\* ReadBlock parses the transactions of the block in their order ...
ReadBlock ==
    /\ todo = Nothing
    /\ LastBlock <= Len(chain)
    /\ pos < Len(chain[LastBlock])
    /\ pos' = pos + 1
    /\ todo' = ParseTransaction(chain[LastBlock][pos + 1])
    /\ UNCHANGED <<node, db, LastBlock, handler, trezor, reserved, late, budget>>

ListenerEdit ==
    /\ \E o \in Due(todo) : EditDb(todo, o) /\ todo' = Left(todo, o)
    /\ UNCHANGED <<node, LastBlock, pos, handler, trezor, reserved, late, requests, stops>>

\* ... and after the last one the Listener moves on.
NextBlock ==
    /\ todo = Nothing
    /\ LastBlock <= Len(chain)
    /\ pos = Len(chain[LastBlock])
    /\ LastBlock' = LastBlock + 1
    /\ pos' = 0
    /\ UNCHANGED <<node, db, todo, handler, trezor, reserved, late, budget>>

-----------------------------------------------------------------------------
\* Transactions whose block the Listener has read to the end.
Settled == UNION {ToSet(chain[h]) : h \in 1 .. LastBlock - 1}

SettledInputs(t) == {o \in t.ins : o.tx \in Settled}

\* What CreateTxForOutputs makes of the outputs cs: one to the payee, and
\* perhaps the change.
Payment(cs, to) == {[ins |-> cs, outs |-> <<to>>], [ins |-> cs, outs |-> <<to, "inn">>]}

\* GetAllUtxoByBranch(1).
Inner == {o \in db : Kind(o) = "inn"}

\* SendCoin takes the mutex and chooses inputs of the inner branch.
SendCoin(cs) ==
    /\ hpc = "idle"
    /\ request' \in Payment(cs, "out")
    /\ hpc' = "chosen"
    /\ UNCHANGED <<node, db, listener, edits, trezor, reserved, late, budget>>

\* SignMsgTx (and the change address) looks every input up again.
Sign ==
    /\ hpc = "chosen"
    /\ IF request.ins \subseteq db
       THEN hpc' = "signed" /\ UNCHANGED request
       ELSE hpc' = "idle" /\ request' = NoTx
    /\ UNCHANGED <<node, db, listener, edits, trezor, reserved, late, budget>>

\* SendTransaction succeeds.
Broadcast ==
    /\ hpc = "signed"
    /\ Acceptable(request)
    /\ Accept(request)
    /\ edits' = ParseMempoolTransaction(Len(txs) + 1, request)
    /\ hpc' = "parse"
    /\ request' = NoTx
    /\ reserved' = reserved \cup SettledInputs(request)
    /\ UNCHANGED <<db, listener, trezor, late, budget>>

\* SendTransaction reports an error: the node refuses, or its answer is lost
\* after it accepted.
BroadcastFails ==
    /\ hpc = "signed"
    /\ \/ ~Acceptable(request) /\ UNCHANGED <<node, faults>>
       \/ /\ Acceptable(request) /\ Accept(request)
          /\ MayFail /\ faults' = faults + 1
    /\ hpc' = "idle"
    /\ request' = NoTx
    /\ UNCHANGED <<db, listener, edits, trezor, reserved, late, requests, stops>>

\* One edit of ParseMempoolTransaction; after the last SendCoin replies and
\* releases the mutex.
CoinEdit ==
    /\ hpc = "parse"
    /\ \E o \in Due(edits) : EditDb(edits, o) /\ edits' = Left(edits, o)
    /\ hpc' = IF edits' = Nothing THEN "idle" ELSE "parse"
    /\ UNCHANGED <<node, listener, request, trezor, reserved, late, requests, stops>>

-----------------------------------------------------------------------------
\* PrepareTrezorSign, under the mutex: any outputs may be chosen, to pay
\* somebody or to collect them on an inner address.
PrepareTrezorSign(cs) ==
    /\ hpc = "idle"
    /\ requests < MaxSigned
    /\ requests' = requests + 1
    /\ \E to \in {"inn", "out"} : \E t \in Payment(cs, to) : prepared' = prepared \cup {t}
    /\ UNCHANGED <<node, db, listener, handler, signed, reserved, late, faults, stops>>

\* SendSignedTx broadcasts what the trezor signed, without the mutex.
SendSignedTx(t) ==
    /\ Acceptable(t)
    /\ Accept(t)
    /\ prepared' = prepared \ {t}
    /\ signed' = [signed EXCEPT ![Len(txs) + 1] = ParseMempoolTransaction(Len(txs) + 1, t)]
    /\ reserved' = reserved \cup SettledInputs(t)
    /\ UNCHANGED <<db, listener, handler, late, budget>>

\* One of its edits.  Nothing keeps the Listener and the other handlers from
\* overtaking it.
SignedEdit(id) ==
    /\ \E o \in Due(signed[id]) :
          /\ EditDb(signed[id], o)
          /\ signed' = [signed EXCEPT ![id] = Left(signed[id], o)]
          /\ late' = IF signed[id].remove = {} THEN late \cup ({o} \cap SpentOutputs) ELSE late
    /\ UNCHANGED <<node, listener, handler, prepared, reserved, requests, stops>>

\* Mutant of Resume: the block that was being read is not read again.
ResumeNext == IF pos > 0 THEN LastBlock + 1 ELSE LastBlock

\* Where reading resumes: see Save and Load of Subscriber.
Resume == IF LastBlock > 3 THEN LastBlock - 3 ELSE 1

\* The process dies and starts again: the database is on disk, requests in
\* progress are lost.
Restart ==
    /\ MayFail
    /\ stops' = stops + 1
    /\ LastBlock' = Resume /\ pos' = 0 /\ todo' = Nothing
    /\ hpc' = "idle" /\ request' = NoTx /\ edits' = Nothing
    /\ signed' = [id \in Ids |-> Nothing]
    /\ UNCHANGED <<node, db, prepared, reserved, late, requests, faults>>

-----------------------------------------------------------------------------
Some(s) == SUBSET s \ {{}}

Next ==
    \/ \E kind \in {"ext", "inn"} : Deposit(kind)
    \/ \E s \in SUBSET mempool : Mine(s)
    \/ \E id \in mempool : Evict(id)
    \/ ReadBlock \/ ListenerEdit \/ NextBlock
    \/ \E cs \in Some(Inner) : SendCoin(cs)
    \/ Sign \/ Broadcast \/ BroadcastFails \/ CoinEdit
    \/ \E cs \in Some(db) : PrepareTrezorSign(cs)
    \/ \E t \in prepared : SendSignedTx(t)
    \/ \E id \in Ids : SignedEdit(id)
    \/ Restart

Spec == Init /\ [][Next]_vars

-----------------------------------------------------------------------------
NodeOK ==
    /\ txs \in Seq(Tx) /\ Len(txs) <= MaxTxs
    /\ mempool \subseteq DOMAIN txs
    /\ chain \in Seq(Seq(Ids)) /\ Mined \subseteq DOMAIN txs
    /\ evicted \subseteq DOMAIN txs

DatabaseOK == db \subseteq UNION {Own(id) : id \in DOMAIN txs}

ListenerOK ==
    /\ LastBlock \in 1 .. Len(chain) + 1
    /\ pos \in Nat
    /\ pos > 0 => LastBlock <= Len(chain) /\ pos <= Len(chain[LastBlock])
    /\ todo \in Edits

HandlerOK ==
    /\ hpc \in {"idle", "chosen", "signed", "parse"}
    /\ request \in Tx
    /\ edits \in Edits

TrezorOK == prepared \subseteq Tx /\ signed \in [Ids -> Edits]

CountsOK ==
    /\ reserved \subseteq Outpoint /\ late \subseteq Outpoint
    /\ requests \in 0 .. MaxSigned
    /\ faults \in Nat /\ stops \in Nat
    /\ faults + stops + Cardinality(evicted) <= MaxTroubles

\* Every variable has its type; the database holds outputs of the wallet's
\* own addresses only.
TypeOK == NodeOK /\ DatabaseOK /\ ListenerOK /\ HandlerOK /\ TrezorOK /\ CountsOK

\* The wallet never loses a coin it has seen: an unspent output of a block
\* that was read is in the database, whatever failed or raced, unless a
\* handler removed it for a transaction the node has dropped since.
LossOnlyByEviction ==
    \A id \in Settled : \A o \in Own(id) :
        Spenders(o) = {} /\ o \notin db => \E e \in evicted : o \in txs[e].ins

\* A block lists a transaction before the one whose output o it spends.
ChildFirst(o, id) ==
    \E h \in DOMAIN chain : \E i, j \in DOMAIN chain[h] :
        i < j /\ chain[h][i] = id /\ chain[h][j] = o.tx

\* Once the block of the spending transaction is read, an output is gone for
\* good: the Listener, which creates outputs of older transactions again when
\* it rereads them, does not bring it back unless the block lists the spender
\* first, as on BCH.  SendSignedTx does, for it holds no mutex, when it is so
\* slow that the output's own block was mined, read and spent from before it
\* creates the output.
SpentLeave ==
    /\ faults = 0 => \A id \in Settled : \A o \in txs[id].ins \cap db :
                        ChildFirst(o, id) \/ o \in late
    /\ \A o \in late : o.tx \in Mined

\* A request that spends an output of a block read before removes it for
\* good, or is about to: no later request can choose it again, even while
\* the spending transaction waits in the mempool, unless SendSignedTx, which
\* made the output, was as slow as that.  (An output spent before its own
\* block was read does come back when the block is read.)
ConfirmedSpendsHold ==
    faults = 0 /\ stops = 0 =>
        \A o \in reserved \cap db :
            o \in edits.remove \/ o \in late \/ \E id \in Ids : o \in signed[id].remove
=============================================================================
