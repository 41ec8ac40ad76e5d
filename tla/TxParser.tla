------------------------------ MODULE TxParser ------------------------------
(* ParseTransaction: what the accounting side is told of one confirmed       *)
(* transaction.  The behaviour is one call, one action per input and output. *)
(* Scripts are abstracted to the address they pay; an OP_RETURN output is    *)
(* the pseudo address Usdt (an Omni simple send of USDT, whose amount is the *)
(* output's value) or Memo (anything else).  The edits of the utxo database  *)
(* made on the way are modelled in WalletUtxo.                               *)
EXTENDS Integers, Sequences, SequencesExt, FiniteSets, Sums

CONSTANTS
    ExtAddrs,    \* the wallet's deposit addresses, path 0/i
    InnAddrs,    \* the wallet's inner addresses, path 1/i
    Others,      \* addresses outside the wallet
    Usdt, Memo,  \* stand for the addresses of OP_RETURN outputs
    Odd,         \* stands for the address of a script without one
    NoAddr,      \* the empty string
    Values,      \* values of outputs
    MaxIns,      \* bound: inputs of a transaction
    MaxOuts,     \* bound: outputs of a transaction
    MaxLost      \* bound: GetRawTransaction calls that fail

ASSUME ParserBounds == MaxIns \in Nat /\ MaxOuts \in Nat /\ MaxLost \in Nat
ASSUME ParserValues == Values \subseteq Nat

OurAddrs == ExtAddrs \cup InnAddrs
Real == OurAddrs \cup Others
Data == {Usdt, Memo}

\* What stands for an address is none, and no address is not OP_RETURN.
ASSUME ParserAddresses == (Data \cup {Odd, NoAddr}) \cap Real = {} /\ Odd \notin Data

\* The two branches of the wallet and the others share no address.
ASSUME ParserOwners == ExtAddrs \cap InnAddrs = {} /\ OurAddrs \cap Others = {}

In == [addr : Real \cup {Odd}, value : Values]
Put == [addr : Real \cup {Usdt, Odd}, value : Values] \cup [addr : {Memo}, value : {0}]
Msg == [coin : {"BTC", "USDT"},
        type : {"USER_DEPOSIT", "ADMIN_DEPOSIT", "USER_WITHDRAW", "ADMIN_WITHDRAW",
                "FUND_COLLECTION"},
        address : Real, amount : Nat]

Paid(o) == IF o.addr \in Data THEN 0 ELSE o.value
Amounts(s) == [k \in 1 .. Len(s) |-> Paid(s[k])]
SumPaid(s) == SumOf(Amounts(s))

Lists(S, lo, hi) == UNION {[1 .. n -> S] : n \in lo .. hi}

\* Transactions whose inputs cover their outputs.
Txs == {t \in [ins : Lists(In, 1, MaxIns),
               outs : Lists(Put, 1, MaxOuts)] : SumPaid(t.ins) >= SumPaid(t.outs)}

VARIABLES
    tx,            \* the transaction
    pc,            \* "ins", "outs", "omni", "coin" or "done"
    i,             \* index of the loop
    lost,          \* inputs whose previous transaction could not be read
    fee,           \* value of inputs read less value of outputs
    inputAddrs,    \* own addresses of inputs
    inputAddrs2,   \* other addresses of inputs
    extInputs,     \* inputs of the external branch (extInputAddrNum)
    outputAddrs,   \* own addresses of outputs
    outputAddrs2,  \* other addresses of outputs
    outputValue,   \* address -> value
    opReturns,     \* OP_RETURN outputs, last first
    omniSender,
    omniReceiver,
    foundSender,
    messages

inputs == <<inputAddrs, inputAddrs2, extInputs, omniSender>>
outputs == <<outputAddrs, outputAddrs2, outputValue, opReturns, omniReceiver, foundSender>>
vars == <<tx, pc, i, lost, fee, inputs, outputs, messages>>

Init ==
    /\ tx \in Txs
    /\ pc = "ins" /\ i = 1 /\ lost = {} /\ fee = 0
    /\ inputAddrs = <<>> /\ inputAddrs2 = <<>> /\ extInputs = 0
    /\ outputAddrs = <<>> /\ outputAddrs2 = <<>>
    /\ outputValue = [a \in Real |-> 0]
    /\ opReturns = <<>> /\ omniSender = NoAddr /\ omniReceiver = NoAddr
    /\ foundSender = FALSE /\ messages = <<>>

\* The next input, or the outputs from the last to the first.
NextInput ==
    IF i < Len(tx.ins) THEN i' = i + 1 /\ UNCHANGED pc
    ELSE i' = Len(tx.outs) /\ pc' = "outs"

\* Mutant of ParseInput: whatever is not inner counts as external.
ParseInputAnyExt ==
    LET in == tx.ins[i]
    IN  /\ pc = "ins"
        /\ in.addr # Odd
        /\ fee' = fee + in.value
        /\ IF in.addr \in OurAddrs
           THEN inputAddrs' = Append(inputAddrs, in.addr) /\ UNCHANGED inputAddrs2
           ELSE inputAddrs2' = Append(inputAddrs2, in.addr) /\ UNCHANGED inputAddrs
        /\ extInputs' = IF in.addr \notin InnAddrs THEN extInputs + 1 ELSE extInputs
        /\ omniSender' = IF i = 1 THEN in.addr ELSE omniSender
        /\ NextInput
        /\ UNCHANGED <<tx, lost, outputs, messages>>

\* An input: fee, own or other, and the Omni sender if it is the first.
ParseInput ==
    LET in == tx.ins[i]
    IN  /\ pc = "ins"
        /\ in.addr # Odd
        /\ fee' = fee + in.value
        /\ IF in.addr \in OurAddrs
           THEN inputAddrs' = Append(inputAddrs, in.addr) /\ UNCHANGED inputAddrs2
           ELSE inputAddrs2' = Append(inputAddrs2, in.addr) /\ UNCHANGED inputAddrs
        /\ extInputs' = IF in.addr \in ExtAddrs THEN extInputs + 1 ELSE extInputs
        /\ omniSender' = IF i = 1 THEN in.addr ELSE omniSender
        /\ NextInput
        /\ UNCHANGED <<tx, lost, outputs, messages>>

\* An input without an address counts for the fee only.
ParseOddInput ==
    /\ pc = "ins"
    /\ tx.ins[i].addr = Odd
    /\ fee' = fee + tx.ins[i].value
    /\ NextInput
    /\ UNCHANGED <<tx, lost, inputs, outputs, messages>>

\* GetRawTransaction fails: the input is passed over.
LoseInput ==
    /\ pc = "ins"
    /\ Cardinality(lost) < MaxLost
    /\ lost' = lost \cup {i}
    /\ NextInput
    /\ UNCHANGED <<tx, fee, inputs, outputs, messages>>

NextOutput == i' = i - 1 /\ pc' = IF i = 1 THEN "omni" ELSE "outs"

ParseOpReturn ==
    /\ pc = "outs"
    /\ tx.outs[i].addr \in Data
    /\ opReturns' = Append(opReturns, tx.outs[i])
    /\ NextOutput
    /\ UNCHANGED <<tx, lost, fee, inputs, outputAddrs, outputAddrs2, outputValue,
                   omniReceiver, foundSender, messages>>

\* The same for an output.
ParseOddOutput ==
    /\ pc = "outs"
    /\ tx.outs[i].addr = Odd
    /\ fee' = fee - tx.outs[i].value
    /\ NextOutput
    /\ UNCHANGED <<tx, lost, inputs, outputs, messages>>

\* Mutant of ParseOutput: change to the sender is taken for the receiver.
ParseOutputFirst ==
    LET o == tx.outs[i]
    IN  /\ pc = "outs"
        /\ o.addr \in Real
        /\ fee' = fee - o.value
        /\ IF o.addr \in OurAddrs
           THEN outputAddrs' = Append(outputAddrs, o.addr) /\ UNCHANGED outputAddrs2
           ELSE outputAddrs2' = Append(outputAddrs2, o.addr) /\ UNCHANGED outputAddrs
        /\ outputValue' = [outputValue EXCEPT ![o.addr] = o.value]
        /\ omniReceiver' = IF omniReceiver = NoAddr THEN o.addr ELSE omniReceiver
        /\ NextOutput
        /\ UNCHANGED <<tx, lost, inputs, opReturns, foundSender, messages>>

\* An output: fee, own or other, its value by address, and the Omni receiver:
\* the first one seen that is not the sender, whose first output is change.
ParseOutput ==
    LET o == tx.outs[i]
    IN  /\ pc = "outs"
        /\ o.addr \in Real
        /\ fee' = fee - o.value
        /\ IF o.addr \in OurAddrs
           THEN outputAddrs' = Append(outputAddrs, o.addr) /\ UNCHANGED outputAddrs2
           ELSE outputAddrs2' = Append(outputAddrs2, o.addr) /\ UNCHANGED outputAddrs
        /\ outputValue' = [outputValue EXCEPT ![o.addr] = o.value]
        /\ IF omniReceiver # NoAddr THEN UNCHANGED <<omniReceiver, foundSender>>
           ELSE IF o.addr = omniSender /\ ~foundSender
           THEN foundSender' = TRUE /\ UNCHANGED omniReceiver
           ELSE omniReceiver' = o.addr /\ UNCHANGED foundSender
        /\ NextOutput
        /\ UNCHANGED <<tx, lost, inputs, opReturns, messages>>

\* The type of an Omni transfer, if the wallet takes part in it.
OmniType ==
    IF omniSender \notin OurAddrs
    THEN IF omniReceiver \in ExtAddrs THEN "USER_DEPOSIT" ELSE "ADMIN_DEPOSIT"
    ELSE IF omniReceiver \in OurAddrs THEN "FUND_COLLECTION"
    ELSE IF omniSender \in ExtAddrs THEN "ADMIN_WITHDRAW" ELSE "USER_WITHDRAW"

\* A USDT transfer of the wallet's is reported.
OmniMessages ==
    IF /\ Len(opReturns) = 1 /\ opReturns[1].addr = Usdt
       /\ omniReceiver # NoAddr
       /\ {omniSender, omniReceiver} \cap OurAddrs # {}
    THEN <<[coin |-> "USDT", type |-> OmniType, address |-> omniReceiver,
            amount |-> opReturns[1].value]>>
    ELSE <<>>

ReportOmni ==
    /\ pc = "omni"
    /\ messages' = OmniMessages
    /\ pc' = "coin"
    /\ UNCHANGED <<tx, i, lost, fee, inputs, outputs>>

Coin(type, a) == [coin |-> "BTC", type |-> type, address |-> a, amount |-> outputValue[a]]
Each(as, Type(_)) == [j \in 1 .. Len(as) |-> Coin(Type(as[j]), as[j])]

\* Somebody pays the wallet.
Deposits == Each(outputAddrs, LAMBDA a : IF a \in ExtAddrs THEN "USER_DEPOSIT" ELSE "ADMIN_DEPOSIT")

\* Mutant of Withdraws: any inner input makes it a user's withdrawal.
WithdrawsAnyInner == Each(outputAddrs2, LAMBDA a : IF extInputs < Len(inputAddrs) THEN "USER_WITHDRAW"
                                                   ELSE "ADMIN_WITHDRAW")

\* The wallet pays somebody: a user's withdrawal comes from inner addresses.
Withdraws == Each(outputAddrs2, LAMBDA a : IF extInputs = 0 THEN "USER_WITHDRAW"
                                           ELSE "ADMIN_WITHDRAW")

\* The wallet pays itself.
Collects == Each(outputAddrs, LAMBDA a : "FUND_COLLECTION")

\* Mutant of CoinMessages: deposits are recognised by the outputs alone.
CoinMessagesByOutputs ==
    IF outputAddrs # <<>> /\ outputAddrs2 = <<>> THEN Deposits
    ELSE IF inputAddrs # <<>> /\ inputAddrs2 = <<>> /\ outputAddrs2 # <<>> THEN Withdraws
    ELSE IF inputAddrs2 = <<>> /\ outputAddrs2 = <<>> THEN Collects
    ELSE <<>>

CoinMessages ==
    IF inputAddrs = <<>> /\ outputAddrs # <<>> THEN Deposits
    ELSE IF inputAddrs # <<>> /\ inputAddrs2 = <<>> /\ outputAddrs2 # <<>> THEN Withdraws
    ELSE IF inputAddrs2 = <<>> /\ outputAddrs2 = <<>> THEN Collects
    ELSE <<>>

ReportCoin ==
    /\ pc = "coin"
    /\ messages' = messages \o CoinMessages
    /\ pc' = "done"
    /\ UNCHANGED <<tx, i, lost, fee, inputs, outputs>>

Done == pc = "done" /\ UNCHANGED vars

Next == ParseInput \/ ParseOddInput \/ LoseInput \/ ParseOpReturn \/ ParseOddOutput
        \/ ParseOutput \/ ReportOmni \/ ReportCoin \/ Done

Spec == Init /\ [][Next]_vars

-----------------------------------------------------------------------------
Ours(s) == {k \in 1 .. Len(s) : s[k].addr \in OurAddrs}

\* The value of the inputs or outputs at K; the coins that messages of
\* certain types move.
Worth(s, K) == SumOf(Part(Amounts(s), K))
Booked(T) ==
    SumOf([k \in 1 .. Len(messages) |->
           IF messages[k].coin = "BTC" /\ messages[k].type \in T THEN messages[k].amount ELSE 0])

Deposit == {"USER_DEPOSIT", "ADMIN_DEPOSIT"}
Withdraw == {"USER_WITHDRAW", "ADMIN_WITHDRAW"}

Known == pc = "done" /\ lost = {}

\* Every output goes to an address of its own.
Distinct == IsInjective([j \in 1 .. Len(tx.outs) |-> tx.outs[j].addr])

\* Transactions the wallet or others make alone: inputs are not mixed (those
\* are not reported at all), and the wallet pays addresses only.
Plain == \/ Ours(tx.ins) = {}
         \/ Ours(tx.ins) = 1 .. Len(tx.ins) /\ Odd \notin {o.addr : o \in ToSet(tx.outs)}

TxOK ==
    /\ tx.ins \in Seq(In) /\ Len(tx.ins) \in 1 .. MaxIns
    /\ tx.outs \in Seq(Put) /\ Len(tx.outs) \in 1 .. MaxOuts
    /\ lost \subseteq 1 .. MaxIns

\* The loop never reads beyond the inputs or the outputs.
LoopOK ==
    \/ pc = "ins" /\ i \in 1 .. Len(tx.ins)
    \/ pc = "outs" /\ i \in 1 .. Len(tx.outs)
    \/ pc \in {"omni", "coin", "done"} /\ i = 0

InputsOK ==
    /\ fee \in Int
    /\ inputAddrs \in Seq(OurAddrs) /\ inputAddrs2 \in Seq(Others)
    /\ extInputs \in 0 .. Len(inputAddrs)
    /\ omniSender \in Real \cup {NoAddr}

OutputsOK ==
    /\ outputAddrs \in Seq(OurAddrs) /\ outputAddrs2 \in Seq(Others)
    /\ outputValue \in [Real -> Values \cup {0}]
    /\ opReturns \in Seq(Put)
    /\ omniReceiver \in Real \cup {NoAddr} /\ foundSender \in BOOLEAN

TypeOK == TxOK /\ LoopOK /\ InputsOK /\ OutputsOK /\ messages \in Seq(Msg)

\* The accounting side can follow the wallet's balance: what a transaction
\* changes in it is the deposits reported, less the withdrawals reported,
\* less the fee reported if the wallet paid it.  (Two outputs to one address
\* are excluded: outputValue then holds one value for both.)
LedgerBalances ==
    Known /\ Distinct /\ Plain =>
        Worth(tx.outs, Ours(tx.outs)) - Worth(tx.ins, Ours(tx.ins)) =
            Booked(Deposit) - Booked(Withdraw) - (IF inputAddrs # <<>> THEN fee ELSE 0)

\* A user's withdrawal is paid by the hot wallet: an inner address of it
\* paid, and neither a deposit address nor a stranger did.
UserWithdrawIsHot ==
    Known => \A m \in ToSet(messages) : m.type = "USER_WITHDRAW" =>
        LET from == {o.addr : o \in ToSet(tx.ins)}
        IN  IF m.coin = "USDT" THEN tx.ins[1].addr \in InnAddrs
            ELSE from \cap InnAddrs # {} /\ from \subseteq InnAddrs \cup {Odd}

\* The receiver of an Omni transfer from s: the last output to anyone but the
\* sender, unless two outputs to the sender come after it; without another
\* output the sender, if two outputs pay it, and nobody if not.
Credited(s) ==
    LET own == {j \in 1 .. Len(tx.outs) : tx.outs[j].addr \in {s} \cap Real}
        others == {j \in 1 .. Len(tx.outs) : tx.outs[j].addr \in Real \ {s}}
        last == CHOOSE j \in others : \A l \in others : l <= j
    IN  IF others # {} /\ \A j, l \in own : j > last /\ l > last => j = l
        THEN tx.outs[last].addr
        ELSE IF \E j, l \in own : j # l THEN s ELSE NoAddr

\* The outputs that transfer USDT: the only OP_RETURN output, if it does.
Transfers == {j \in 1 .. Len(tx.outs) :
                 /\ tx.outs[j].addr = Usdt
                 /\ \A l \in 1 .. Len(tx.outs) : tx.outs[l].addr \in Data => l = j}

\* A USDT transfer from or to the wallet, and nothing else, is reported as
\* USDT: exactly once, with its amount, to the address the protocol credits,
\* and as coming from the wallet if the wallet's address sent it.
OmniIsCredited ==
    Known =>
        LET from == tx.ins[1].addr
            usdt == {k \in 1 .. Len(messages) : messages[k].coin = "USDT"}
        IN  /\ usdt # {} <=> Transfers # {} /\ {from, Credited(from)} \cap OurAddrs # {}
                             /\ Credited(from) # NoAddr
            /\ \A k, l \in usdt : k = l
            /\ \A k \in usdt :
                  /\ messages[k].address = Credited(from)
                  /\ \A j \in Transfers : messages[k].amount = tx.outs[j].value
                  /\ messages[k].type \notin Deposit <=> from \in OurAddrs
=============================================================================
