--------------------------- MODULE CoinSelection ---------------------------
(* CreateTxForOutputs: how the wallet chooses the outputs it spends, the fee *)
(* and the change for one request of one of its four sending handlers.  The  *)
(* behaviour is one call, one action per loop iteration; amounts are in      *)
(* satoshi, sizes in bytes.  A utxo is identified by its place in the        *)
(* database, which is the order in which the iterator returns it.            *)
EXTENDS Integers, Sequences, SequencesExt, FiniteSetsExt, Sums

CONSTANTS
    ExtAddrs,     \* deposit addresses of the wallet, branch 0
    InnAddrs,     \* inner addresses of the wallet, branch 1
    Fresh,        \* the next change address
    Payee,        \* an address outside the wallet
    NoAddr,       \* the empty string
    Data,         \* stands for the address of an OP_RETURN output
    Values,       \* values of utxos
    Amounts,      \* amounts requested
    FeeRates,     \* values of config.FeeRate, satoshi per 1000 bytes
    MaxUtxos,     \* bound: utxos in the database
    Word32,       \* 2^32: uint32 arithmetic is modulo Word32
    TX_MAX_SIZE   \* 100000 in the code

ASSUME RateAssumption == FeeRates \subseteq Nat /\ Values \subseteq Nat /\ Amounts \subseteq Int
ASSUME SizeAssumption == Word32 \in Nat \ {0} /\ TX_MAX_SIZE \in Nat /\ MaxUtxos \in Nat

TX_FEE_PER_KB == 1000
MIN_FEE_PER_KB == 1000
TX_OUTPUT_SIZE == 34
TX_INPUT_SIZE == 148
TX_MIN_OUTPUT_AMOUNT == (TX_FEE_PER_KB * 3 * (TX_OUTPUT_SIZE + TX_INPUT_SIZE)) \div 1000
Tiny == 546

WalletAddrs == ExtAddrs \cup InnAddrs

ASSUME AddressAssumption ==
    /\ NoAddr \notin WalletAddrs \cup {Fresh}
    /\ Data \notin WalletAddrs \cup {Payee, Fresh}

Wallets == UNION {[1 .. n -> [addr : WalletAddrs, value : Values]] : n \in 0 .. MaxUtxos}

Bigger(a, b) == IF a > b THEN a ELSE b

\* The fee for size bytes: feePerKb rounded up to 100 satoshi, at least the
\* standard fee.  Both products are computed as uint32.
txFee(rate, size) ==
    Bigger((((((size * rate) % Word32) \div 1000) + 99) \div 100) * 100,
           ((size * TX_FEE_PER_KB) % Word32) \div 1000)

\* Mutant of minOutputAmount: no change output is too small.
minOutputAmountNone(rate) == 1

minOutputAmount(rate) ==
    Bigger((((TX_MIN_OUTPUT_AMOUNT * rate) % Word32) + MIN_FEE_PER_KB - 1) \div MIN_FEE_PER_KB,
           TX_MIN_OUTPUT_AMOUNT)

\* Size of an output with a pay-to-pubkey-hash script, or with the 22 bytes
\* of an Omni payload.
OutSize(o) == IF o.addr = Data THEN 31 ELSE TX_OUTPUT_SIZE

\* A count in a serialized transaction, which stays below 2^16.
VarIntSize(n) == IF n < 253 THEN 1 ELSE 3

\* wire.MsgTx.SerializeSize of a transaction with n inputs not yet signed.
SerializeSize(n, outs) ==
    8 + VarIntSize(n) + VarIntSize(Len(outs)) + 41 * n
      + SumOf([i \in 1 .. Len(outs) |-> OutSize(outs[i])])

SumOut(outs) == SumOf([i \in 1 .. Len(outs) |-> outs[i].amount])

Out(a, v) == [addr |-> a, amount |-> v]

Request == [sender : WalletAddrs \cup {NoAddr},
            outs : Seq([addr : WalletAddrs \cup {Payee, Data}, amount : Int]),
            change : {NoAddr, Fresh}, inner : BOOLEAN, tiny : BOOLEAN,
            rate : FeeRates, swap : BOOLEAN]

SendCoin(v, r) ==
    [sender |-> NoAddr, outs |-> <<Out(Payee, v)>>, change |-> NoAddr,
     inner |-> TRUE, tiny |-> FALSE, rate |-> r, swap |-> FALSE]

PrepareTrezorSign(to, v, r) ==
    [sender |-> NoAddr, outs |-> <<Out(to, v)>>, change |-> Fresh,
     inner |-> FALSE, tiny |-> FALSE, rate |-> r, swap |-> FALSE]

SendOmniCoin(from, to, r) ==
    [sender |-> from, outs |-> <<Out(Data, 0), Out(to, Tiny)>>, change |-> NoAddr,
     inner |-> TRUE, tiny |-> TRUE, rate |-> r, swap |-> FALSE]

\* Mutant of PrepareOmniTrezorSign: the change output stays last.
PrepareOmniTrezorSignUnswapped(from, to, r) ==
    [sender |-> from, outs |-> <<Out(Data, 0), Out(to, Tiny)>>, change |-> Fresh,
     inner |-> FALSE, tiny |-> TRUE, rate |-> r, swap |-> FALSE]

PrepareOmniTrezorSign(from, to, r) ==
    [sender |-> from, outs |-> <<Out(Data, 0), Out(to, Tiny)>>, change |-> Fresh,
     inner |-> FALSE, tiny |-> TRUE, rate |-> r, swap |-> TRUE]

\* A trezor request without receiver pays the first inner address.
Requests ==
    {SendCoin(v, r) : v \in Amounts, r \in FeeRates} \cup
    {PrepareTrezorSign(t, v, r) : t \in {Payee} \cup InnAddrs, v \in Amounts, r \in FeeRates} \cup
    {SendOmniCoin(f, Payee, r) : f \in WalletAddrs, r \in FeeRates} \cup
    {PrepareOmniTrezorSign(f, t, r) :
        f \in WalletAddrs, t \in {Payee} \cup InnAddrs, r \in FeeRates}

VARIABLES
    wallet,         \* the utxos in the database
    req,            \* the request
    pc,             \* where the call is
    utxos,          \* places of the utxos to choose from, read in ascending order
    used,           \* place of the sender's utxo taken first, or 0
    k,              \* first place the loop over utxos has not looked at
    ins,            \* places of the inputs added to the transaction
    balance,        \* value of the inputs
    totalBalance,   \* value of all that could be spent
    feeAmount,      \* fee to pay
    outs,           \* outputs of the transaction
    result          \* "none", "short", "tx" or "panic"

vars == <<wallet, req, pc, utxos, used, k, ins, balance, totalBalance, feeAmount, outs, result>>

amount == SumOut(req.outs)
minAmount == minOutputAmount(req.rate)
Places == 1 .. Len(wallet)
Total(s) == SumOf([i \in 1 .. Len(s) |-> wallet[s[i]].value])
Worth(S) == SumOf([p \in Places |-> IF p \in S THEN wallet[p].value ELSE 0])
SizeWithChange(n) == SerializeSize(n, req.outs) + TX_OUTPUT_SIZE

Init ==
    /\ wallet \in Wallets
    /\ req \in Requests
    /\ pc = "fetch"
    /\ utxos = {} /\ used = 0 /\ k = 1 /\ ins = <<>>
    /\ balance = 0 /\ totalBalance = 0 /\ feeAmount = 0
    /\ outs = <<>> /\ result = "none"

\* Mutant of Fetched: the branch is not looked at.
FetchedAnyBranch == {p \in Places : req.tiny \/ wallet[p].value > Tiny}

\* GetAllUtxoByBranch(1, tiny) or GetAllUtxo("", tiny).
Fetched == {p \in Places : /\ req.tiny \/ wallet[p].value > Tiny
                           /\ req.inner => wallet[p].addr \in InnAddrs}

\* What the two balance queries add up; both are asked without tiny utxos.
getBalance(address, tiny) ==
    Worth({p \in Places : /\ address \in {NoAddr, wallet[p].addr}
                          /\ tiny \/ wallet[p].value > Tiny})

\* Mutant of getInnerBalance: the limit itself is not tiny.
getInnerBalanceFrom(tiny) ==
    Worth({p \in Places : wallet[p].addr \in InnAddrs /\ (tiny \/ wallet[p].value >= Tiny)})

getInnerBalance(tiny) ==
    Worth({p \in Places : wallet[p].addr \in InnAddrs /\ (tiny \/ wallet[p].value > Tiny)})

Fetch ==
    /\ pc = "fetch"
    /\ utxos' = Fetched
    /\ pc' = IF Fetched = {} THEN "done" ELSE "collect"
    /\ outs' = req.outs
    /\ UNCHANGED <<wallet, req, used, k, ins, balance, totalBalance, feeAmount, result>>

\* The first loop: the sender's first utxo becomes the first input; tiny ones
\* are left out when there is a sender, except that one.
Collect ==
    LET own == {p \in utxos : wallet[p].addr = req.sender}
        usable == {p \in utxos : wallet[p].value > Tiny \/ (req.sender = NoAddr /\ req.tiny)}
        first == IF own = {} THEN <<>> ELSE <<Min(own)>>
    IN  /\ pc = "collect"
        /\ used' = IF own = {} THEN 0 ELSE Min(own)
        /\ ins' = first
        /\ balance' = Total(first)
        /\ totalBalance' = Worth(usable)
              + (IF own # {} /\ wallet[Min(own)].value <= Tiny THEN wallet[Min(own)].value ELSE 0)
        /\ utxos' = IF req.sender # NoAddr THEN usable ELSE utxos
        /\ feeAmount' = txFee(req.rate, SizeWithChange(Len(first)))
        /\ pc' = "select"
        /\ UNCHANGED <<wallet, req, k, outs, result>>

\* The utxos the loop has not looked at, and the one it looks at next.
Ahead == {p \in utxos : p >= k}
At == Min(Ahead)

\* Mutant of Skip: the sender's utxo is not recognised.
SkipNothing == FALSE

\* The iteration over the utxo taken before.
Skip == At = used

\* Mutant of SelectSkip: i++ before the continue of a loop that counts itself.
SelectSkipTwice ==
    /\ pc = "select" /\ Ahead # {}
    /\ Skip
    /\ k' = At + 2
    /\ UNCHANGED <<wallet, req, pc, utxos, used, ins, balance, totalBalance, feeAmount,
                   outs, result>>

SelectSkip ==
    /\ pc = "select" /\ Ahead # {}
    /\ Skip
    /\ k' = At + 1
    /\ UNCHANGED <<wallet, req, pc, utxos, used, ins, balance, totalBalance, feeAmount,
                   outs, result>>

\* The transaction has become too large: it is given up.
SelectTooLarge ==
    /\ pc = "select" /\ Ahead # {}
    /\ ~Skip
    /\ SizeWithChange(Len(ins) + 1) > TX_MAX_SIZE
    /\ ins' = Append(ins, At)
    /\ pc' = "done"
    /\ UNCHANGED <<wallet, req, utxos, used, k, balance, totalBalance, feeAmount, outs, result>>

\* The fee grows by what rounds the remaining wallet balance off to 100.
RoundOff(fee) ==
    IF totalBalance > amount + fee
    THEN fee + ((totalBalance - (amount + fee)) % 100)
    ELSE fee

\* Mutant of SelectAdd: the fee stays that of the first input.
SelectAddFeeOnce ==
    LET b == balance + wallet[At].value
    IN  /\ pc = "select" /\ Ahead # {}
        /\ ~Skip
        /\ SizeWithChange(Len(ins) + 1) <= TX_MAX_SIZE
        /\ ins' = Append(ins, At)
        /\ balance' = b
        /\ k' = At + 1
        /\ pc' = IF b = amount + feeAmount \/ b >= amount + feeAmount + minAmount THEN "finish" ELSE "select"
        /\ UNCHANGED <<wallet, req, utxos, used, totalBalance, feeAmount, outs, result>>

\* One more input; the loop ends when it pays exactly or leaves good change.
SelectAdd ==
    LET b == balance + wallet[At].value
        fee == RoundOff(txFee(req.rate, SizeWithChange(Len(ins) + 1)))
    IN  /\ pc = "select" /\ Ahead # {}
        /\ ~Skip
        /\ SizeWithChange(Len(ins) + 1) <= TX_MAX_SIZE
        /\ ins' = Append(ins, At)
        /\ balance' = b
        /\ feeAmount' = fee
        /\ k' = At + 1
        /\ pc' = IF b = amount + fee \/ b >= amount + fee + minAmount THEN "finish" ELSE "select"
        /\ UNCHANGED <<wallet, req, utxos, used, totalBalance, outs, result>>

SelectAll ==
    /\ pc = "select" /\ Ahead = {}
    /\ pc' = "finish"
    /\ UNCHANGED <<wallet, req, utxos, used, k, ins, balance, totalBalance, feeAmount,
                   outs, result>>

\* Mutant of FinishShort: change must be left, too.
FinishShortOfChange ==
    /\ pc = "finish"
    /\ balance < amount + feeAmount + minAmount
    /\ pc' = "done" /\ result' = "short"
    /\ UNCHANGED <<wallet, req, utxos, used, k, ins, balance, totalBalance, feeAmount, outs>>

\* Insufficient funds.
FinishShort ==
    /\ pc = "finish"
    /\ balance < amount + feeAmount
    /\ pc' = "done" /\ result' = "short"
    /\ UNCHANGED <<wallet, req, utxos, used, k, ins, balance, totalBalance, feeAmount, outs>>

\* The outputs as the caller returns them: PrepareOmniTrezorSign exchanges
\* the second and the third, which panics if there is no third.
Return(o) ==
    /\ pc' = "done"
    /\ IF ~req.swap
       THEN outs' = o /\ result' = "tx"
       ELSE IF Len(o) < 3
       THEN outs' = o /\ result' = "panic"
       ELSE outs' = <<o[1], o[3], o[2]>> /\ result' = "tx"
    /\ UNCHANGED <<wallet, req, utxos, used, k, ins, balance, totalBalance, feeAmount>>

\* A change output, to the address of the first input if none was given.
FinishChange ==
    LET to == IF req.change # NoAddr THEN req.change ELSE wallet[ins[1]].addr
    IN  /\ pc = "finish"
        /\ balance - (amount + feeAmount) >= minAmount
        /\ Return(Append(outs, Out(to, balance - (amount + feeAmount))))

\* The Listener has removed the first input from the database meanwhile, so
\* that its address is not found.
FinishGone ==
    /\ pc = "finish"
    /\ balance - (amount + feeAmount) >= minAmount
    /\ req.change = NoAddr
    /\ pc' = "done"
    /\ UNCHANGED <<wallet, req, utxos, used, k, ins, balance, totalBalance, feeAmount,
                   outs, result>>

\* No change: what is left over goes to the fee.
FinishExact ==
    /\ pc = "finish"
    /\ balance >= amount + feeAmount
    /\ balance - (amount + feeAmount) < minAmount
    /\ Return(outs)

Done == pc = "done" /\ UNCHANGED vars

Next == \/ Fetch \/ Collect \/ SelectSkip \/ SelectTooLarge \/ SelectAdd \/ SelectAll
        \/ FinishShort \/ FinishChange \/ FinishGone \/ FinishExact \/ Done

Spec == Init /\ [][Next]_vars

-----------------------------------------------------------------------------
Made == result = "tx"
HasChange == Len(outs) > Len(req.outs)
Paid == Total(ins) - SumOut(outs)

TypeOK ==
    /\ wallet \in Wallets
    /\ req \in Request
    /\ pc \in {"fetch", "collect", "select", "finish", "done"}
    /\ utxos \subseteq Places
    /\ used \in {0} \cup Places
    /\ k \in 1 .. Len(wallet) + 1
    /\ ins \in Seq(Places)
    /\ balance \in Int /\ totalBalance \in Int /\ feeAmount \in Nat
    /\ outs \in Seq([addr : WalletAddrs \cup {Payee, Data, Fresh}, amount : Int])
    /\ result \in {"none", "short", "tx", "panic"}

\* What a transaction spends and what the code believes it spends agree: no
\* utxo is an input twice, not even the sender's, which is found by both
\* loops, and the inputs that pay for the outputs add up to balance.
InputsAccounted ==
    /\ IsInjective(ins)
    /\ pc = "finish" => balance = Total(ins) /\ balance <= totalBalance

\* Size of the transaction that is broadcast: signing makes each input, which
\* has 41 bytes when the fee is computed, TX_INPUT_SIZE bytes long.
SignedSize == SerializeSize(Len(ins), outs) + (TX_INPUT_SIZE - 41) * Len(ins)

\* The fee is computed for the transaction before it is signed, with all its
\* inputs and a change output; what is paid exceeds it by less than rounding
\* (100) and change not worth an output (minAmount) cost.  The transaction
\* that is broadcast is longer and does NOT pay the configured rate: only at
\* least 41/148 of it is certain, where the product fits into 32 bits.
FeeBounds ==
    Made => LET size == SizeWithChange(Len(ins))
                due == txFee(req.rate, size)
            IN  /\ due <= Paid
                /\ Paid < due + 100 + (IF HasChange THEN 0 ELSE minAmount)
                /\ size * req.rate < Word32 =>
                     (41 * (req.rate * SignedSize)) \div (TX_INPUT_SIZE * 1000) <= Paid

\* A change output is never below what the network relays, nor below what it
\* costs to spend it.
NoDustChange ==
    Made /\ HasChange => \A i \in 1 .. Len(outs) :
        outs[i].addr \notin {Data} /\ outs[i] \notin {req.outs[j] : j \in 1 .. Len(req.outs)}
            => outs[i].amount >= 546 /\ outs[i].amount * 1000 >= 546 * req.rate

\* What the hot wallet must sign comes from inner addresses only, the one
\* branch SignMsgTx accepts.
InnerOnly == Made /\ req.inner => \A i \in 1 .. Len(ins) : wallet[ins[i]].addr \in InnAddrs

\* The address Omni (and ParseTransaction) takes for the receiver: the last
\* output that is not the sender's, where one output of the sender's is
\* passed over as change.
OmniReceiver(s, o) ==
    LET real == {i \in 1 .. Len(o) : o[i].addr # Data}
        meant == {i \in real : o[i].addr # s \/ \E j \in real : j > i /\ o[j].addr = s}
    IN  o[Max(meant)].addr

\* The receiver of an Omni transaction is the one requested, whatever the
\* inputs and the change turned out to be, unless it is the sending address.
OmniPaysReceiver ==
    Made /\ req.outs[1].addr = Data /\ req.outs[2].addr # wallet[ins[1]].addr
        => OmniReceiver(wallet[ins[1]].addr, outs) = req.outs[2].addr

\* The tokens are those of the requested sender, whose utxo is the first
\* input: the comment "use the first inner address as sender in default".
SenderIsFirst ==
    Made /\ req.sender # NoAddr => wallet[ins[1]].addr = req.sender

\* A request is refused for want of funds only if all the utxos it may spend,
\* each added once, do not pay for the outputs and the fee of spending them
\* all; the rounding of the fee alone never refuses it.  (Some of them may pay:
\* a utxo worth less than the fee for its own size is added like the others.)
ShortageMeans ==
    result = "short" =>
        /\ ToSet(ins) = utxos \cup ({used} \ {0})
        /\ Total(ins) < amount + txFee(req.rate, SizeWithChange(Len(ins)))

\* The balance a client is told for the branch that pays: getInnerBalance for
\* the hot wallet, getBalance of all addresses for the trezor.
Reported == IF req.inner THEN getInnerBalance(FALSE) ELSE getBalance(NoAddr, FALSE)

\* The client and the selection agree on the balance, though each counts it
\* with a query of its own: all that is reported can be spent, and nothing
\* else (but a tiny utxo of the requested sender), and a request that leaves
\* the fee for spending everything is not refused.
BalanceIsSpendable ==
    /\ pc \in {"select", "finish"} =>
         totalBalance - Reported \in IF req.sender = NoAddr THEN {0} ELSE 0 .. Tiny
    /\ result = "short" => Reported < amount + txFee(req.rate, SizeWithChange(Len(ins)))
=============================================================================
