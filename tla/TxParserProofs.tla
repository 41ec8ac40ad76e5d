--------------------------- MODULE TxParserProofs ---------------------------
(* Theorems about TxParser for every set of addresses and values and every   *)
(* length of the transaction, with proofs.                                   *)
EXTENDS TxParser, NumberFacts, SequenceTheorems, TLAPS

\* A transaction is a sequence of inputs and one of outputs.
LEMMA TxsFact ==
    ASSUME NEW t \in Txs
    PROVE  /\ t.ins \in Seq(In) /\ Len(t.ins) \in 1 .. MaxIns
           /\ t.outs \in Seq(Put) /\ Len(t.outs) \in 1 .. MaxOuts
<1>1. ASSUME NEW S, NEW hi \in Nat, NEW s \in Lists(S, 1, hi)
      PROVE  s \in Seq(S) /\ Len(s) \in 1 .. hi
  <2>1. PICK l \in 1 .. hi : s \in [1 .. l -> S]
    BY DEF Lists
  <2>2. l \in Nat /\ s \in Seq(S) /\ Len(s) = l
    BY <2>1, SeqDef
  <2> QED BY <2>1, <2>2
<1>2. t.ins \in Lists(In, 1, MaxIns) /\ t.outs \in Lists(Put, 1, MaxOuts)
  BY DEF Txs
<1> QED BY <1>1, <1>2, ParserBounds

\* What the address of an output says about it.
LEMMA PutFact ==
    ASSUME NEW o \in Put
    PROVE  /\ o.value \in Nat
           /\ o.addr \in Real => o.value \in Values
           /\ o.addr \in Data \/ o.addr = Odd \/ o.addr \in Real
<1>1. CASE o \in [addr : Real \cup {Usdt, Odd}, value : Values]
  <2>1. o.addr \in Real \cup {Usdt, Odd} /\ o.value \in Values
    BY <1>1
  <2> QED BY <2>1, ParserValues DEF Data
<1>2. CASE o \in [addr : {Memo}, value : {0}]
  <2>1. o.addr = Memo /\ o.value = 0 /\ Memo \in Data
    BY <1>2 DEF Data
  <2> QED BY <2>1, ParserAddresses
<1> QED BY <1>1, <1>2 DEF Put

\* An index in reach stays in reach when the loop goes on.
LEMMA Loops ==
    ASSUME TxOK, LoopOK
    PROVE  /\ pc = "ins" => i \in 1 .. Len(tx.ins) /\ i \in 1 .. MaxIns /\ tx.ins[i] \in In
           /\ pc = "outs" => i \in 1 .. Len(tx.outs) /\ tx.outs[i] \in Put
           /\ pc = "ins" /\ NextInput /\ UNCHANGED tx => LoopOK'
           /\ pc = "outs" /\ NextOutput /\ UNCHANGED tx => LoopOK'
<1>1. /\ Len(tx.ins) \in Nat /\ Len(tx.ins) >= 1 /\ Len(tx.ins) <= MaxIns
      /\ Len(tx.outs) \in Nat /\ Len(tx.outs) >= 1
  BY ParserBounds DEF TxOK
<1>2. pc = "ins" => i \in 1 .. Len(tx.ins) /\ i \in 1 .. MaxIns /\ tx.ins[i] \in In
  BY <1>1, ParserBounds DEF TxOK, LoopOK
<1>3. pc = "outs" => i \in 1 .. Len(tx.outs) /\ tx.outs[i] \in Put
  BY <1>1 DEF TxOK, LoopOK
<1>4. pc = "ins" /\ NextInput /\ UNCHANGED tx => LoopOK'
  BY <1>1, <1>2 DEF NextInput, LoopOK
<1>5. pc = "outs" /\ NextOutput /\ UNCHANGED tx => LoopOK'
  BY <1>1, <1>3 DEF NextOutput, LoopOK
<1> QED BY <1>2, <1>3, <1>4, <1>5

\* The messages about coins are messages; those to users go to their deposit
\* addresses, and users' withdrawals come from inner addresses alone.
LEMMA CoinMessagesFact ==
    ASSUME InputsOK, OutputsOK
    PROVE  /\ CoinMessages \in Seq(Msg)
           /\ \A k \in DOMAIN CoinMessages :
                 /\ CoinMessages[k].coin = "BTC"
                 /\ CoinMessages[k].type = "USER_DEPOSIT" => CoinMessages[k].address \in ExtAddrs
                 /\ CoinMessages[k].type = "USER_WITHDRAW" =>
                       extInputs = 0 /\ inputAddrs # <<>> /\ inputAddrs2 = <<>>
<1>a. \A a \in Real : outputValue[a] \in Nat
  <2>1. outputValue \in [Real -> Values \cup {0}] /\ Values \cup {0} \subseteq Nat
    BY ParserValues DEF OutputsOK
  <2> QED BY <2>1
<1>b. OurAddrs \subseteq Real /\ Others \subseteq Real
  BY DEF Real
<1>1. /\ Deposits \in Seq(Msg)
      /\ \A k \in DOMAIN Deposits :
            /\ Deposits[k].coin = "BTC" /\ Deposits[k].type # "USER_WITHDRAW"
            /\ Deposits[k].type = "USER_DEPOSIT" => Deposits[k].address \in ExtAddrs
  <2>1. /\ Deposits = [j \in 1 .. Len(outputAddrs) |->
                 Coin(IF outputAddrs[j] \in ExtAddrs THEN "USER_DEPOSIT" ELSE "ADMIN_DEPOSIT",
                      outputAddrs[j])]
        /\ Len(outputAddrs) \in Nat
        /\ \A j \in 1 .. Len(outputAddrs) : outputAddrs[j] \in Real
    BY <1>b DEF Deposits, Each, OutputsOK
  <2>2. Deposits \in [1 .. Len(outputAddrs) -> Msg]
    BY <1>a, <2>1 DEF Coin, Msg
  <2>3. Deposits \in Seq(Msg) /\ DOMAIN Deposits = 1 .. Len(outputAddrs)
    BY <2>1, <2>2, SeqDef
  <2> QED BY <2>1, <2>3 DEF Coin
<1>2. /\ Withdraws \in Seq(Msg)
      /\ \A k \in DOMAIN Withdraws :
            /\ Withdraws[k].coin = "BTC" /\ Withdraws[k].type # "USER_DEPOSIT"
            /\ Withdraws[k].type = "USER_WITHDRAW" => extInputs = 0
  <2>1. /\ Withdraws = [j \in 1 .. Len(outputAddrs2) |->
                 Coin(IF extInputs = 0 THEN "USER_WITHDRAW" ELSE "ADMIN_WITHDRAW",
                      outputAddrs2[j])]
        /\ Len(outputAddrs2) \in Nat
        /\ \A j \in 1 .. Len(outputAddrs2) : outputAddrs2[j] \in Real
    BY <1>b DEF Withdraws, Each, OutputsOK
  <2>2. Withdraws \in [1 .. Len(outputAddrs2) -> Msg]
    BY <1>a, <2>1 DEF Coin, Msg
  <2>3. Withdraws \in Seq(Msg) /\ DOMAIN Withdraws = 1 .. Len(outputAddrs2)
    BY <2>1, <2>2, SeqDef
  <2> QED BY <2>1, <2>3 DEF Coin
<1>3. /\ Collects \in Seq(Msg)
      /\ \A k \in DOMAIN Collects : Collects[k].coin = "BTC" /\ Collects[k].type = "FUND_COLLECTION"
  <2>1. /\ Collects = [j \in 1 .. Len(outputAddrs) |-> Coin("FUND_COLLECTION", outputAddrs[j])]
        /\ Len(outputAddrs) \in Nat
        /\ \A j \in 1 .. Len(outputAddrs) : outputAddrs[j] \in Real
    BY <1>b DEF Collects, Each, OutputsOK
  <2>2. Collects \in [1 .. Len(outputAddrs) -> Msg]
    BY <1>a, <2>1 DEF Coin, Msg
  <2>3. Collects \in Seq(Msg) /\ DOMAIN Collects = 1 .. Len(outputAddrs)
    BY <2>1, <2>2, SeqDef
  <2> QED BY <2>1, <2>3 DEF Coin
<1>4. \/ CoinMessages = Deposits
      \/ CoinMessages = Withdraws /\ inputAddrs # <<>> /\ inputAddrs2 = <<>>
      \/ CoinMessages = Collects \/ CoinMessages = <<>>
  BY DEF CoinMessages
<1>5. CASE CoinMessages = <<>>
  BY <1>5
<1> QED BY <1>1, <1>2, <1>3, <1>4, <1>5
-----------------------------------------------------------------------------
\* Every variable keeps its type: no loop leaves its list, and what is reported
\* of a transaction is made of its addresses and values.
LEMMA TypesInit == Init => TypeOK
<1> SUFFICES ASSUME Init PROVE TypeOK
  OBVIOUS
<1>1. TxOK
  BY TxsFact DEF Init, TxOK
<1>2. LoopOK
  <2>1. Len(tx.ins) >= 1 /\ Len(tx.ins) \in Nat
    BY <1>1, ParserBounds DEF TxOK
  <2> QED BY <2>1 DEF Init, LoopOK
<1>3. InputsOK
  BY DEF Init, InputsOK
<1>4. OutputsOK
  <2>1. outputValue \in [Real -> Values \cup {0}]
    BY DEF Init
  <2>2. outputAddrs \in Seq(OurAddrs) /\ outputAddrs2 \in Seq(Others) /\ opReturns \in Seq(Put)
    BY DEF Init
  <2> QED BY <2>1, <2>2 DEF Init, OutputsOK
<1> QED BY <1>1, <1>2, <1>3, <1>4 DEF Init, TypeOK

LEMMA TypesNext == TypeOK /\ [Next]_vars => TypeOK'
<1> SUFFICES ASSUME TypeOK, [Next]_vars PROVE TypeOK'
  OBVIOUS
<1> USE DEF inputs, outputs
<1>a. TxOK /\ LoopOK /\ InputsOK /\ OutputsOK /\ messages \in Seq(Msg)
  BY DEF TypeOK
<1>b. ASSUME UNCHANGED inputs, fee' \in Int PROVE InputsOK'
  BY <1>a, <1>b DEF InputsOK
<1>c. ASSUME UNCHANGED outputs PROVE OutputsOK'
  BY <1>a, <1>c DEF OutputsOK
<1>d. ASSUME UNCHANGED <<tx, lost>> PROVE TxOK'
  BY <1>a, <1>d DEF TxOK
<1>1. CASE ParseInput
  <2>1. tx.ins[i] \in In /\ tx.ins[i].addr \in Real /\ LoopOK'
    BY <1>1, <1>a, Loops DEF ParseInput, In
  <2>2. fee' \in Int
    <3>1. fee \in Int /\ tx.ins[i].value \in Nat
      BY <1>a, <2>1, ParserValues DEF InputsOK, In
    <3> QED BY <1>1, <3>1 DEF ParseInput
  <2>3. /\ inputAddrs' \in Seq(OurAddrs) /\ inputAddrs2' \in Seq(Others)
        /\ extInputs' \in 0 .. Len(inputAddrs')
    <3>1. /\ inputAddrs \in Seq(OurAddrs) /\ inputAddrs2 \in Seq(Others)
          /\ extInputs \in 0 .. Len(inputAddrs) /\ Len(inputAddrs) \in Nat
      BY <1>a DEF InputsOK
    <3>2. CASE tx.ins[i].addr \in OurAddrs
      <4>1. inputAddrs' = Append(inputAddrs, tx.ins[i].addr) /\ UNCHANGED inputAddrs2
        BY <1>1, <3>2 DEF ParseInput
      <4>2. extInputs' \in {extInputs, extInputs + 1}
        BY <1>1 DEF ParseInput
      <4> QED BY <3>1, <3>2, <4>1, <4>2
    <3>3. CASE tx.ins[i].addr \notin OurAddrs
      <4>1. inputAddrs2' = Append(inputAddrs2, tx.ins[i].addr) /\ UNCHANGED <<inputAddrs, extInputs>>
        BY <1>1, <3>3 DEF ParseInput, OurAddrs
      <4> QED BY <2>1, <3>1, <3>3, <4>1 DEF Real
    <3> QED BY <3>2, <3>3
  <2>4. omniSender' \in Real \cup {NoAddr}
    BY <1>1, <1>a, <2>1 DEF ParseInput, InputsOK
  <2>5. TxOK' /\ OutputsOK' /\ UNCHANGED messages
    BY <1>1, <1>c, <1>d DEF ParseInput
  <2> QED BY <1>a, <2>1, <2>2, <2>3, <2>4, <2>5 DEF TypeOK, InputsOK
<1>2. CASE ParseOddInput
  <2>1. tx.ins[i] \in In /\ LoopOK'
    BY <1>2, <1>a, Loops DEF ParseOddInput
  <2>2. fee' \in Int
    <3>1. fee \in Int /\ tx.ins[i].value \in Nat
      BY <1>a, <2>1, ParserValues DEF InputsOK, In
    <3> QED BY <1>2, <3>1 DEF ParseOddInput
  <2> QED BY <1>2, <1>a, <1>b, <1>c, <1>d, <2>1, <2>2 DEF ParseOddInput, TypeOK
<1>3. CASE LoseInput
  <2>1. i \in 1 .. MaxIns /\ LoopOK'
    BY <1>3, <1>a, Loops DEF LoseInput
  <2>2. TxOK'
    BY <1>3, <1>a, <2>1 DEF LoseInput, TxOK
  <2>3. InputsOK'
    BY <1>3, <1>a DEF LoseInput, InputsOK
  <2> QED BY <1>3, <1>a, <1>c, <2>1, <2>2, <2>3 DEF LoseInput, TypeOK
<1>4. CASE ParseOpReturn
  <2>1. tx.outs[i] \in Put /\ LoopOK'
    BY <1>4, <1>a, Loops DEF ParseOpReturn
  <2>2. OutputsOK'
    <3>1. opReturns' \in Seq(Put)
      BY <1>4, <1>a, <2>1 DEF ParseOpReturn, OutputsOK
    <3> QED BY <1>4, <1>a, <3>1 DEF ParseOpReturn, OutputsOK
  <2>3. InputsOK'
    BY <1>4, <1>a DEF ParseOpReturn, InputsOK
  <2> QED BY <1>4, <1>a, <1>d, <2>1, <2>2, <2>3 DEF ParseOpReturn, TypeOK
<1>5. CASE ParseOddOutput
  <2>1. tx.outs[i] \in Put /\ LoopOK'
    BY <1>5, <1>a, Loops DEF ParseOddOutput
  <2>2. fee' \in Int
    <3>1. fee \in Int /\ tx.outs[i].value \in Nat
      BY <1>a, <2>1, PutFact DEF InputsOK
    <3> QED BY <1>5, <3>1 DEF ParseOddOutput
  <2> QED BY <1>5, <1>a, <1>b, <1>c, <1>d, <2>1, <2>2 DEF ParseOddOutput, TypeOK
<1>6. CASE ParseOutput
  <2>1. /\ tx.outs[i] \in Put /\ tx.outs[i].addr \in Real
        /\ tx.outs[i].value \in Values /\ tx.outs[i].value \in Nat /\ LoopOK'
    BY <1>6, <1>a, Loops, PutFact DEF ParseOutput
  <2>2. fee' \in Int
    <3>1. fee \in Int
      BY <1>a DEF InputsOK
    <3>2. fee' = fee - tx.outs[i].value
      BY <1>6 DEF ParseOutput
    <3> QED BY <2>1, <3>1, <3>2
  <2>3. outputAddrs' \in Seq(OurAddrs) /\ outputAddrs2' \in Seq(Others)
    <3>1. outputAddrs \in Seq(OurAddrs) /\ outputAddrs2 \in Seq(Others)
      BY <1>a DEF OutputsOK
    <3>2. CASE tx.outs[i].addr \in OurAddrs
      BY <1>6, <3>1, <3>2 DEF ParseOutput
    <3>3. CASE tx.outs[i].addr \notin OurAddrs
      <4>1. outputAddrs2' = Append(outputAddrs2, tx.outs[i].addr) /\ UNCHANGED outputAddrs
        BY <1>6, <3>3 DEF ParseOutput
      <4>2. tx.outs[i].addr \in Others
        BY <2>1, <3>3 DEF Real
      <4> QED BY <3>1, <4>1, <4>2
    <3> QED BY <3>2, <3>3
  <2>4. outputValue' \in [Real -> Values \cup {0}]
    BY <1>6, <1>a, <2>1 DEF ParseOutput, OutputsOK
  <2>5. omniReceiver' \in Real \cup {NoAddr} /\ foundSender' \in BOOLEAN
    BY <1>6, <1>a, <2>1 DEF ParseOutput, OutputsOK
  <2>6. OutputsOK'
    BY <1>6, <1>a, <2>3, <2>4, <2>5 DEF ParseOutput, OutputsOK
  <2> QED BY <1>6, <1>a, <1>b, <1>d, <2>1, <2>2, <2>6 DEF ParseOutput, TypeOK
<1>7. CASE ReportOmni
  <2>1. messages' \in Seq(Msg)
    <3>1. ASSUME Len(opReturns) = 1, omniReceiver # NoAddr
          PROVE  [coin |-> "USDT", type |-> OmniType, address |-> omniReceiver,
                  amount |-> opReturns[1].value] \in Msg
      <4>1. opReturns[1] \in Put
        <5>1. opReturns \in Seq(Put)
          BY <1>a DEF OutputsOK
        <5> QED BY <3>1, <5>1
      <4>2. opReturns[1].value \in Nat
        BY <4>1, PutFact
      <4>3. omniReceiver \in Real
        BY <1>a, <3>1 DEF OutputsOK
      <4> QED BY <4>2, <4>3 DEF Msg, OmniType
    <3> QED BY <1>7, <3>1 DEF ReportOmni, OmniMessages
  <2>2. LoopOK'
    BY <1>7, <1>a DEF ReportOmni, LoopOK
  <2>3. InputsOK'
    BY <1>7, <1>a DEF ReportOmni, InputsOK
  <2> QED BY <1>7, <1>c, <1>d, <2>1, <2>2, <2>3 DEF ReportOmni, TypeOK
<1>8. CASE ReportCoin
  <2>1. messages' \in Seq(Msg)
    <3>1. messages' = messages \o CoinMessages /\ CoinMessages \in Seq(Msg)
      BY <1>8, <1>a, CoinMessagesFact DEF ReportCoin
    <3> QED BY <1>a, <3>1
  <2>2. LoopOK'
    BY <1>8, <1>a DEF ReportCoin, LoopOK
  <2>3. InputsOK'
    BY <1>8, <1>a DEF ReportCoin, InputsOK
  <2> QED BY <1>8, <1>c, <1>d, <2>1, <2>2, <2>3 DEF ReportCoin, TypeOK
<1>9. CASE UNCHANGED vars
  <2>1. TxOK' /\ OutputsOK'
    BY <1>9, <1>c, <1>d DEF vars
  <2>2. LoopOK' /\ InputsOK'
    BY <1>9, <1>a DEF vars, LoopOK, InputsOK
  <2> QED BY <1>9, <1>a, <2>1, <2>2 DEF vars, TypeOK
<1>10. CASE Done
  BY <1>9, <1>10 DEF Done
<1> QED BY <1>1, <1>2, <1>3, <1>4, <1>5, <1>6, <1>7, <1>8, <1>9, <1>10 DEF Next

THEOREM ParserTypeCorrect == Spec => []TypeOK
  BY TypesInit, TypesNext, PTL DEF Spec

-----------------------------------------------------------------------------
(* What the loops have found out.                                            *)

\* Inputs the loop has been over.
Read == IF pc = "ins" THEN 1 .. i - 1 ELSE 1 .. Len(tx.ins)

\* With every input read, no external one is missed and the sender is the
\* address of the first.
InputsRead ==
    lost = {} =>
        /\ extInputs = 0 => \A j \in Read : tx.ins[j].addr \notin ExtAddrs
        /\ omniSender = IF 1 \in Read /\ tx.ins[1].addr # Odd THEN tx.ins[1].addr ELSE NoAddr

LEMMA InputsReadInit == Init => InputsRead
<1> SUFFICES ASSUME Init PROVE InputsRead
  OBVIOUS
<1>1. Read = {}
  BY DEF Init, Read
<1> QED BY <1>1 DEF Init, InputsRead

LEMMA InputsReadNext == TypeOK /\ InputsRead /\ [Next]_vars => InputsRead'
<1> SUFFICES ASSUME TypeOK, InputsRead, [Next]_vars PROVE InputsRead'
  OBVIOUS
<1>a. TxOK /\ LoopOK /\ InputsOK
  BY DEF TypeOK
<1>b. ASSUME pc = "ins", NextInput, UNCHANGED tx PROVE Read' = Read \cup {i} /\ i \notin Read
  <2>1. i \in 1 .. Len(tx.ins) /\ Len(tx.ins) \in Nat
    BY <1>a, <1>b, Loops, ParserBounds DEF TxOK
  <2>2. CASE i < Len(tx.ins)
    <3>1. Read' = 1 .. (i + 1) - 1 /\ Read = 1 .. i - 1
      BY <1>b, <2>2 DEF NextInput, Read
    <3> QED BY <2>1, <3>1
  <2>3. CASE ~(i < Len(tx.ins))
    <3>1. Read' = 1 .. Len(tx.ins) /\ Read = 1 .. i - 1 /\ i = Len(tx.ins)
      BY <1>b, <2>1, <2>3 DEF NextInput, Read
    <3> QED BY <2>1, <3>1
  <2> QED BY <2>2, <2>3
<1>c. ASSUME pc # "ins", pc' # "ins", UNCHANGED <<tx, lost, inputs>> PROVE InputsRead'
  BY <1>c DEF InputsRead, Read, inputs
<1>d. extInputs \in Nat
  BY <1>a DEF InputsOK
<1>1. CASE ParseInput
  <2>1. /\ Read' = Read \cup {i} /\ i \notin Read /\ UNCHANGED <<tx, lost>>
        /\ i \in 1 .. MaxIns
    BY <1>1, <1>a, <1>b, Loops DEF ParseInput
  <2>2. extInputs' = 0 => extInputs = 0 /\ tx.ins[i].addr \notin ExtAddrs
    BY <1>1, <1>d DEF ParseInput
  <2>3. omniSender' = IF i = 1 THEN tx.ins[1].addr ELSE omniSender
    BY <1>1 DEF ParseInput
  <2>4. tx.ins[i].addr # Odd
    BY <1>1 DEF ParseInput
  <2> QED BY <2>1, <2>2, <2>3, <2>4 DEF InputsRead
<1>2. CASE ParseOddInput
  <2>1. Read' = Read \cup {i} /\ i \notin Read /\ UNCHANGED <<tx, lost, extInputs, omniSender>>
    BY <1>2, <1>b DEF ParseOddInput, inputs
  <2>2. tx.ins[i].addr = Odd /\ Odd \notin ExtAddrs
    BY <1>2, ParserAddresses DEF ParseOddInput, Real, OurAddrs
  <2> QED BY <2>1, <2>2 DEF InputsRead
<1>3. CASE LoseInput
  BY <1>3 DEF LoseInput, InputsRead
<1>4. CASE ParseOpReturn \/ ParseOddOutput \/ ParseOutput
  BY <1>4, <1>c DEF ParseOpReturn, ParseOddOutput, ParseOutput, NextOutput
<1>5. CASE ReportOmni \/ ReportCoin
  BY <1>5, <1>c DEF ReportOmni, ReportCoin
<1>6. CASE Done \/ UNCHANGED vars
  BY <1>6 DEF Done, vars, inputs, InputsRead, Read
<1> QED BY <1>1, <1>2, <1>3, <1>4, <1>5, <1>6 DEF Next

-----------------------------------------------------------------------------
\* Outputs with an address, those of them to the sender, those seen so far.
To == {j \in 1 .. Len(tx.outs) : tx.outs[j].addr \in Real}
Sent == {j \in To : tx.outs[j].addr = omniSender}
Seen == {j \in To : pc = "outs" => j > i}

\* At most one output to the sender was seen and none to anybody else.
Undecided ==
    /\ Seen \subseteq Sent
    /\ foundSender <=> Seen # {}
    /\ \A j, l \in Seen : j = l

\* The receiver is that of output j: above it there is at most one output,
\* to the sender, and there is one if j is to the sender, too.
DecidedAt(j) ==
    /\ omniReceiver = tx.outs[j].addr
    /\ \A l \in To : l > j => l \in Sent
    /\ \A k, l \in To : k > j /\ l > j => k = l
    /\ j \in Sent => \E l \in To : l > j

ReceiverChosen ==
    IF pc = "ins" THEN omniReceiver = NoAddr /\ ~foundSender
    ELSE IF omniReceiver = NoAddr THEN Undecided
    ELSE \E j \in Seen : DecidedAt(j)

LEMMA ReceiverChosenNext == TypeOK /\ ReceiverChosen /\ [Next]_vars => ReceiverChosen'
<1> SUFFICES ASSUME TypeOK, ReceiverChosen, [Next]_vars PROVE ReceiverChosen'
  OBVIOUS
<1>a. TxOK /\ LoopOK /\ InputsOK /\ OutputsOK /\ LoopOK'
  BY TypesNext DEF TypeOK
<1>b. Len(tx.outs) \in Nat /\ To \subseteq 1 .. Len(tx.outs) /\ To \subseteq Int
  BY <1>a, ParserBounds DEF TxOK, To
<1>1. ASSUME pc = "ins", NextInput, UNCHANGED <<tx, omniReceiver, foundSender>>
      PROVE  ReceiverChosen'
  <2>1. CASE pc' = "ins"
    BY <1>1, <2>1 DEF ReceiverChosen
  <2>2. CASE pc' # "ins"
    <3>1. pc' = "outs" /\ i' = Len(tx.outs)
      BY <1>1, <2>2 DEF NextInput
    <3>2. Seen' = {}
      BY <1>1, <1>b, <3>1 DEF Seen, To
    <3> QED BY <1>1, <3>1, <3>2 DEF ReceiverChosen, Undecided
  <2> QED BY <2>1, <2>2
<1>2. CASE ParseInput \/ ParseOddInput \/ LoseInput
  BY <1>1, <1>2 DEF ParseInput, ParseOddInput, LoseInput, outputs
<1>c. ASSUME pc = "outs", NextOutput, UNCHANGED <<tx, omniSender>>
      PROVE  /\ To' = To /\ Sent' = Sent /\ pc' # "ins"
             /\ Seen' = Seen \cup (To \cap {i})
             /\ i \in 1 .. Len(tx.outs) /\ \A j \in Seen : j > i
  <2>1. i \in 1 .. Len(tx.outs)
    BY <1>a, <1>c, Loops
  <2>2. To' = To /\ Sent' = Sent
    BY <1>c DEF To, Sent
  <2>3. Seen = {j \in To : j > i}
    BY <1>c DEF Seen
  <2>4. Seen' = {j \in To : j > i - 1}
    <3>1. CASE i = 1
      <4>1. pc' = "omni" /\ \A j \in To : j > i - 1
        BY <1>b, <1>c, <2>1, <3>1 DEF NextOutput, To
      <4> QED BY <2>2, <4>1 DEF Seen
    <3>2. CASE i # 1
      BY <1>c, <2>2, <3>2 DEF NextOutput, Seen
    <3> QED BY <3>1, <3>2
  <2>5. \A j \in To : j > i - 1 <=> j > i \/ j = i
    BY <1>b, <2>1
  <2> QED BY <1>c, <2>1, <2>2, <2>3, <2>4, <2>5 DEF NextOutput
<1>3. ASSUME ParseOpReturn \/ ParseOddOutput PROVE ReceiverChosen'
  <2>1. /\ pc = "outs" /\ NextOutput /\ UNCHANGED <<tx, omniSender, omniReceiver, foundSender>>
        /\ tx.outs[i].addr \notin Real
    BY <1>3, ParserAddresses DEF ParseOpReturn, ParseOddOutput, inputs, outputs
  <2>2. Seen' = Seen /\ To' = To /\ Sent' = Sent /\ pc' # "ins"
    BY <1>c, <2>1 DEF To
  <2> QED BY <2>1, <2>2 DEF ReceiverChosen, Undecided, DecidedAt
<1>4. CASE ParseOutput
  <2>1. /\ pc = "outs" /\ NextOutput /\ UNCHANGED <<tx, omniSender>> /\ tx.outs[i].addr \in Real
    BY <1>4 DEF ParseOutput, inputs
  <2>2. /\ Seen' = Seen \cup {i} /\ To' = To /\ Sent' = Sent /\ pc' # "ins"
        /\ i \in To /\ \A j \in Seen : j > i
    BY <1>c, <2>1 DEF To
  <2>3. Seen = {j \in To : j > i} /\ NoAddr \notin Real
    BY <2>1, ParserAddresses DEF Seen
  <2>4. CASE omniReceiver # NoAddr
    <3>1. UNCHANGED <<omniReceiver, foundSender>>
      BY <1>4, <2>4 DEF ParseOutput
    <3>2. PICK j \in Seen : DecidedAt(j)
      BY <2>1, <2>4 DEF ReceiverChosen
    <3>3. DecidedAt(j)'
      BY <2>1, <2>2, <3>1, <3>2 DEF DecidedAt
    <3> QED BY <2>2, <2>4, <3>1, <3>2, <3>3 DEF ReceiverChosen
  <2>5. CASE omniReceiver = NoAddr /\ i \in Sent /\ ~foundSender
    <3>1. foundSender' = TRUE /\ UNCHANGED omniReceiver
      BY <1>4, <2>5 DEF ParseOutput, Sent
    <3>2. Seen = {}
      BY <2>1, <2>5 DEF ReceiverChosen, Undecided
    <3>3. Undecided'
      BY <2>2, <2>5, <3>1, <3>2 DEF Undecided
    <3> QED BY <2>2, <2>5, <3>1, <3>3 DEF ReceiverChosen
  <2>6. CASE omniReceiver = NoAddr /\ ~(i \in Sent /\ ~foundSender)
    <3>1. omniReceiver' = tx.outs[i].addr /\ Undecided
      BY <1>4, <2>1, <2>2, <2>6 DEF ParseOutput, Sent, ReceiverChosen
    <3>2. i \in Sent => \E l \in To : l > i
      BY <2>3, <2>6, <3>1 DEF Undecided
    <3>3. \A l \in To : l > i => l \in Sent
      BY <2>3, <3>1 DEF Undecided
    <3>4. \A k, l \in To : k > i /\ l > i => k = l
      BY <2>3, <3>1 DEF Undecided
    <3>5. \A j : j = i => DecidedAt(j)'
      BY <2>1, <2>2, <3>1, <3>2, <3>3, <3>4 DEF DecidedAt
    <3>6. PICK j \in Seen' : j = i
      BY <2>2
    <3>7. DecidedAt(j)'
      BY <3>5, <3>6
    <3> QED BY <2>2, <2>3, <3>1, <3>6, <3>7 DEF ReceiverChosen, To
  <2> QED BY <2>4, <2>5, <2>6
<1>5. CASE ReportOmni \/ ReportCoin
  <2>1. UNCHANGED <<tx, omniSender, omniReceiver, foundSender>> /\ pc # "ins" /\ pc' # "ins"
    BY <1>5 DEF ReportOmni, ReportCoin, inputs, outputs
  <2>2. To' = To /\ Sent' = Sent
    BY <2>1 DEF To, Sent
  <2>3. Seen' = Seen
    BY <1>5, <2>2 DEF ReportOmni, ReportCoin, Seen
  <2> QED BY <2>1, <2>2, <2>3 DEF ReceiverChosen, Undecided, DecidedAt
<1>6. CASE Done \/ UNCHANGED vars
  BY <1>6 DEF Done, vars, inputs, outputs, ReceiverChosen, Undecided, DecidedAt, Seen, Sent, To
<1> QED BY <1>2, <1>3, <1>4, <1>5, <1>6 DEF Next

-----------------------------------------------------------------------------
\* What is reported agrees with what the loops found.
Reported ==
    /\ pc \in {"ins", "outs", "omni"} => messages = <<>>
    /\ \A k \in DOMAIN messages :
          LET x == messages[k]
          IN  /\ x.coin = "USDT" =>
                    /\ x.type = OmniType /\ x.address = omniReceiver
                    /\ omniReceiver # NoAddr
                    /\ {omniSender, omniReceiver} \cap OurAddrs # {}
              /\ x.coin = "BTC" /\ x.type = "USER_WITHDRAW" =>
                    extInputs = 0 /\ inputAddrs # <<>> /\ inputAddrs2 = <<>>
              /\ x.type = "USER_DEPOSIT" => x.address \in ExtAddrs

LEMMA ReportedNext == TypeOK /\ Reported /\ [Next]_vars => Reported'
<1> SUFFICES ASSUME TypeOK, Reported, [Next]_vars PROVE Reported'
  OBVIOUS
<1>1. CASE ParseInput \/ ParseOddInput \/ LoseInput
  BY <1>1 DEF ParseInput, ParseOddInput, LoseInput, NextInput, Reported
<1>2. CASE ParseOpReturn \/ ParseOddOutput \/ ParseOutput
  BY <1>2 DEF ParseOpReturn, ParseOddOutput, ParseOutput, NextOutput, Reported
<1>3. CASE ReportOmni
  <2>1. /\ UNCHANGED <<inputs, extInputs, omniSender, omniReceiver>> /\ OmniType' = OmniType
        /\ pc' = "coin"
    BY <1>3 DEF ReportOmni, OmniType, inputs, outputs
  <2>2. CASE messages' = <<>>
    BY <2>1, <2>2 DEF Reported
  <2>3. CASE messages' # <<>>
    <3>1. /\ messages' = <<[coin |-> "USDT", type |-> OmniType, address |-> omniReceiver,
                            amount |-> opReturns[1].value]>>
          /\ omniReceiver # NoAddr /\ {omniSender, omniReceiver} \cap OurAddrs # {}
      BY <1>3, <2>3 DEF ReportOmni, OmniMessages
    <3>2. OmniType = "USER_DEPOSIT" => omniReceiver \in ExtAddrs
      BY DEF OmniType
    <3> QED BY <2>1, <3>1, <3>2 DEF Reported
  <2> QED BY <2>2, <2>3
<1>4. CASE ReportCoin
  <2>1. /\ UNCHANGED <<inputAddrs, inputAddrs2, extInputs, omniSender, omniReceiver>>
        /\ OmniType' = OmniType /\ pc' = "done"
        /\ messages' = messages \o CoinMessages
    BY <1>4 DEF ReportCoin, OmniType, inputs, outputs
  <2>2. /\ messages \in Seq(Msg) /\ CoinMessages \in Seq(Msg)
        /\ \A k \in DOMAIN CoinMessages :
              /\ CoinMessages[k].coin = "BTC"
              /\ CoinMessages[k].type = "USER_DEPOSIT" => CoinMessages[k].address \in ExtAddrs
              /\ CoinMessages[k].type = "USER_WITHDRAW" =>
                    extInputs = 0 /\ inputAddrs # <<>> /\ inputAddrs2 = <<>>
    BY CoinMessagesFact DEF TypeOK
  <2>3. \A k \in DOMAIN messages' : \/ k \in DOMAIN messages /\ messages'[k] = messages[k]
                                    \/ \E j \in DOMAIN CoinMessages : messages'[k] = CoinMessages[j]
    <3> HIDE DEF CoinMessages
    <3>1. ASSUME NEW k \in DOMAIN messages', k \notin DOMAIN messages
          PROVE  /\ k - Len(messages) \in DOMAIN CoinMessages
                 /\ messages'[k] = CoinMessages[k - Len(messages)]
      BY <2>1, <2>2, <3>1
    <3>2. ASSUME NEW k \in DOMAIN messages
          PROVE  messages'[k] = messages[k]
      BY <2>1, <2>2, <3>2
    <3> QED BY <3>1, <3>2
  <2> QED BY <2>1, <2>2, <2>3 DEF Reported
<1>5. CASE Done \/ UNCHANGED vars
  BY <1>5 DEF Done, vars, inputs, outputs, Reported, OmniType
<1> QED BY <1>1, <1>2, <1>3, <1>4, <1>5 DEF Next

-----------------------------------------------------------------------------
(* What the loops have counted.                                              *)

\* Outputs the loop has been over, and those of them to others.
Past == IF pc = "ins" THEN {} ELSE {j \in 1 .. Len(tx.outs) : pc = "outs" => j > i}
Theirs == {j \in 1 .. Len(tx.outs) : tx.outs[j].addr \in Real \ OurAddrs}

LEMMA InFact == ASSUME NEW o \in In PROVE o.value \in Nat
  BY ParserValues DEF In

LEMMA AmountsFact ==
    ASSUME NEW S, NEW s \in Seq(S), S = In \/ S = Put
    PROVE  /\ Amounts(s) \in Seq(Int) /\ Len(Amounts(s)) = Len(s) /\ Len(s) \in Nat
           /\ \A k \in 1 .. Len(s) : Amounts(s)[k] = Paid(s[k])
<1>1. Len(s) \in Nat /\ \A k \in 1 .. Len(s) : s[k] \in S
  OBVIOUS
<1>2. ASSUME NEW o \in S PROVE Paid(o) \in Int
  <2>1. o \in In => o.value \in Int
    BY InFact
  <2>2. o \in Put => o.value \in Int
    BY PutFact
  <2> QED BY <2>1, <2>2 DEF Paid
<1>3. Amounts(s) \in [1 .. Len(s) -> Int]
  BY <1>1, <1>2 DEF Amounts
<1> QED BY <1>1, <1>3 DEF Amounts

\* One more input or output.
LEMMA WorthGrows ==
    ASSUME NEW S, NEW s \in Seq(S), S = In \/ S = Put, NEW K, NEW p \in 1 .. Len(s), p \notin K
    PROVE  /\ Worth(s, K) \in Int /\ Worth(s, K \cup {p}) = Worth(s, K) + Paid(s[p])
           /\ Paid(s[p]) \in Int
<1>1. /\ Amounts(s) \in Seq(Int) /\ Len(Amounts(s)) = Len(s)
      /\ Amounts(s)[p] = Paid(s[p])
  BY AmountsFact
<1>2. Paid(s[p]) \in Int
  BY <1>1
<1> QED BY <1>1, <1>2, PartIsSeq, SumIsInt, PartGrows DEF Worth

\* The loops go over one place after the other.
LEMMA PlacesGrow ==
    ASSUME TxOK, LoopOK, UNCHANGED tx
    PROVE  /\ pc = "ins" /\ NextInput => /\ Read' = Read \cup {i} /\ i \notin Read
                                         /\ Past' = {} /\ Past = {}
           /\ pc = "outs" /\ NextOutput => /\ Past' = Past \cup {i} /\ i \notin Past
                                           /\ Read' = Read /\ pc' # "ins"
           /\ pc \notin {"ins", "outs"} /\ pc' \notin {"ins", "outs"} => Past' = Past /\ Read' = Read
<1>a. Len(tx.ins) \in Nat /\ Len(tx.outs) \in Nat
  BY ParserBounds DEF TxOK
<1>1. ASSUME pc = "ins", NextInput
      PROVE  Read' = Read \cup {i} /\ i \notin Read /\ Past' = {} /\ Past = {}
  <2>1. i \in 1 .. Len(tx.ins)
    BY <1>1, Loops
  <2>2. CASE i < Len(tx.ins)
    <3>1. Read' = 1 .. (i + 1) - 1 /\ Read = 1 .. i - 1 /\ pc' = "ins"
      BY <1>1, <2>2 DEF NextInput, Read
    <3> QED BY <1>1, <1>a, <2>1, <3>1 DEF Past
  <2>3. CASE ~(i < Len(tx.ins))
    <3>1. /\ Read' = 1 .. Len(tx.ins) /\ Read = 1 .. i - 1 /\ i = Len(tx.ins)
          /\ pc' = "outs" /\ i' = Len(tx.outs)
      BY <1>1, <1>a, <2>1, <2>3 DEF NextInput, Read
    <3> QED BY <1>1, <1>a, <2>1, <3>1 DEF Past
  <2> QED BY <2>2, <2>3
<1>2. ASSUME pc = "outs", NextOutput
      PROVE  Past' = Past \cup {i} /\ i \notin Past /\ Read' = Read /\ pc' # "ins"
  <2>1. i \in 1 .. Len(tx.outs) /\ pc' # "ins"
    BY <1>2, Loops DEF NextOutput
  <2>2. Past = {j \in 1 .. Len(tx.outs) : j > i}
    BY <1>2 DEF Past
  <2>3. Past' = {j \in 1 .. Len(tx.outs) : j > i - 1}
    <3>1. CASE i = 1
      <4>1. Past' = 1 .. Len(tx.outs)
        BY <1>2, <2>1, <3>1 DEF NextOutput, Past
      <4> QED BY <1>a, <3>1, <4>1
    <3>2. CASE i # 1
      BY <1>2, <2>1, <3>2 DEF NextOutput, Past
    <3> QED BY <3>1, <3>2
  <2> QED BY <1>2, <1>a, <2>1, <2>2, <2>3 DEF Read
<1>3. ASSUME pc \notin {"ins", "outs"}, pc' \notin {"ins", "outs"} PROVE Past' = Past /\ Read' = Read
  BY <1>3 DEF Past, Read
<1> QED BY <1>1, <1>2, <1>3

\* The fee is what was read less what was seen; an input's or an output's
\* address was noted among the wallet's or the others'.
FeeCounted == lost = {} => fee = Worth(tx.ins, Read) - Worth(tx.outs, Past)

InputsNoted ==
    lost = {} =>
        /\ inputAddrs = <<>> => Ours(tx.ins) \cap Read = {}
        /\ inputAddrs # <<>> => Ours(tx.ins) \cap Read # {}
        /\ inputAddrs2 # <<>> => \E j \in Read : tx.ins[j].addr \in Real \ OurAddrs
        /\ inputAddrs2 = <<>> => \A j \in Read : tx.ins[j].addr \notin Real \ OurAddrs
        /\ extInputs > 0 => \E j \in Read : tx.ins[j].addr \in ExtAddrs

LEMMA FeeCountedNext == TypeOK /\ FeeCounted /\ [Next]_vars => FeeCounted'
<1> SUFFICES ASSUME TypeOK, FeeCounted, [Next]_vars, lost' = {}
             PROVE  fee' = Worth(tx'.ins, Read') - Worth(tx'.outs, Past')
  BY DEF FeeCounted, Worth
<1>a. TxOK /\ LoopOK /\ InputsOK /\ fee \in Int /\ tx.ins \in Seq(In) /\ tx.outs \in Seq(Put)
  BY DEF TypeOK, TxOK, InputsOK
<1>b. lost = {} /\ ~LoseInput
  <2>1. [Next]_vars => lost \subseteq lost' /\ (LoseInput => lost' # {})
    BY DEF Next, ParseInput, ParseOddInput, LoseInput, ParseOpReturn, ParseOddOutput, ParseOutput,
           ReportOmni, ReportCoin, Done, vars
  <2> QED BY <2>1
<1>c. fee = Worth(tx.ins, Read) - Worth(tx.outs, Past)
  BY <1>b DEF FeeCounted
<1>d. Worth(tx.ins, Read) \in Int /\ Worth(tx.outs, Past) \in Int
  BY <1>a, AmountsFact, PartIsSeq, SumIsInt DEF Worth
<1>1. CASE ParseInput \/ ParseOddInput
  <2>1. pc = "ins" /\ NextInput /\ UNCHANGED tx /\ fee' = fee + tx.ins[i].value
    BY <1>1 DEF ParseInput, ParseOddInput
  <2>2. i \in 1 .. Len(tx.ins) /\ tx.ins[i] \in In
    BY <1>a, <2>1, Loops
  <2>3. Paid(tx.ins[i]) = tx.ins[i].value
    BY <2>2, ParserAddresses DEF Paid, In
  <2>4. Read' = Read \cup {i} /\ i \notin Read /\ Past' = Past
    BY <1>a, <2>1, PlacesGrow
  <2>5. Worth(tx.ins, Read') = Worth(tx.ins, Read) + tx.ins[i].value /\ tx.ins[i].value \in Int
    BY <1>a, <2>2, <2>3, <2>4, WorthGrows
  <2>6. Worth(tx'.ins, Read') = Worth(tx.ins, Read') /\ Worth(tx'.outs, Past') = Worth(tx.outs, Past)
    BY <2>1, <2>4
  <2> QED BY <1>a, <1>c, <1>d, <2>1, <2>5, <2>6
<1>2. CASE ParseOpReturn \/ ParseOddOutput \/ ParseOutput
  <2>1. pc = "outs" /\ NextOutput /\ UNCHANGED tx
    BY <1>2 DEF ParseOpReturn, ParseOddOutput, ParseOutput
  <2>2. i \in 1 .. Len(tx.outs) /\ tx.outs[i] \in Put
    BY <1>a, <2>1, Loops
  <2>3. Past' = Past \cup {i} /\ i \notin Past /\ Read' = Read
    BY <1>a, <2>1, PlacesGrow
  <2>4. Worth(tx.outs, Past') = Worth(tx.outs, Past) + Paid(tx.outs[i]) /\ Paid(tx.outs[i]) \in Int
    BY <1>a, <2>2, <2>3, WorthGrows
  <2>5. fee' = fee - Paid(tx.outs[i])
    <3>1. CASE ParseOpReturn
      BY <1>a, <3>1 DEF ParseOpReturn, Paid
    <3>2. CASE ParseOddOutput \/ ParseOutput
      BY <3>2, ParserAddresses DEF ParseOddOutput, ParseOutput, Paid
    <3> QED BY <1>2, <3>1, <3>2
  <2>6. Worth(tx'.ins, Read') = Worth(tx.ins, Read) /\ Worth(tx'.outs, Past') = Worth(tx.outs, Past')
    BY <2>1, <2>3
  <2> QED BY <1>a, <1>c, <1>d, <2>4, <2>5, <2>6
<1>3. CASE ReportOmni \/ ReportCoin
  <2>1. UNCHANGED <<tx, fee>> /\ pc \notin {"ins", "outs"} /\ pc' \notin {"ins", "outs"}
    BY <1>3 DEF ReportOmni, ReportCoin
  <2>2. Read' = Read /\ Past' = Past
    BY <1>a, <2>1, PlacesGrow
  <2> QED BY <1>c, <2>1, <2>2
<1>4. CASE Done \/ UNCHANGED vars
  <2>1. UNCHANGED <<tx, fee, pc, i>>
    BY <1>4 DEF Done, vars
  <2>2. Read' = Read /\ Past' = Past
    BY <2>1 DEF Read, Past
  <2> QED BY <1>c, <2>1, <2>2
<1> QED BY <1>b, <1>1, <1>2, <1>3, <1>4 DEF Next

LEMMA InputsNotedNext == TypeOK /\ InputsNoted /\ [Next]_vars => InputsNoted'
<1> SUFFICES ASSUME TypeOK, InputsNoted, [Next]_vars PROVE InputsNoted'
  OBVIOUS
<1>a. /\ TxOK /\ LoopOK /\ InputsOK /\ tx.ins \in Seq(In) /\ extInputs \in Nat
      /\ inputAddrs \in Seq(OurAddrs) /\ inputAddrs2 \in Seq(Others)
  BY DEF TypeOK, TxOK, InputsOK
<1>1. CASE ParseInput
  <2>1. pc = "ins" /\ NextInput /\ UNCHANGED <<tx, lost>>
    BY <1>1 DEF ParseInput
  <2>2. i \in 1 .. Len(tx.ins) /\ tx.ins[i] \in In /\ tx.ins[i].addr \in Real
    BY <1>1, <1>a, <2>1, Loops DEF ParseInput, In
  <2>3. Read' = Read \cup {i} /\ i \notin Read
    BY <1>a, <2>1, PlacesGrow
  <2>4. CASE tx.ins[i].addr \in OurAddrs
    <3>1. inputAddrs' # <<>> /\ UNCHANGED inputAddrs2
      BY <1>1, <1>a, <2>4 DEF ParseInput
    <3>2. extInputs' = extInputs \/ tx.ins[i].addr \in ExtAddrs
      BY <1>1 DEF ParseInput
    <3>3. i \in Ours(tx.ins)
      BY <2>2, <2>4 DEF Ours
    <3> QED BY <2>1, <2>3, <2>4, <3>1, <3>2, <3>3 DEF InputsNoted
  <2>5. CASE tx.ins[i].addr \notin OurAddrs
    <3>1. UNCHANGED <<inputAddrs, extInputs>> /\ inputAddrs2' # <<>>
      BY <1>1, <1>a, <2>2, <2>5 DEF ParseInput, OurAddrs, Real
    <3>2. i \notin Ours(tx.ins) /\ tx.ins[i].addr \in Real \ OurAddrs
      BY <2>2, <2>5 DEF Ours
    <3> QED BY <2>1, <2>3, <3>1, <3>2 DEF InputsNoted
  <2> QED BY <2>4, <2>5
<1>2. CASE ParseOddInput
  <2>1. pc = "ins" /\ NextInput /\ UNCHANGED <<tx, lost, inputAddrs, inputAddrs2, extInputs>>
    BY <1>2 DEF ParseOddInput, inputs
  <2>2. Read' = Read \cup {i} /\ i \notin Read
    BY <1>a, <2>1, PlacesGrow
  <2>3. i \notin Ours(tx.ins) /\ tx.ins[i].addr \notin Real
    BY <1>2, ParserAddresses DEF ParseOddInput, Ours, Real
  <2> QED BY <2>1, <2>2, <2>3 DEF InputsNoted
<1>3. CASE LoseInput
  BY <1>3 DEF LoseInput, InputsNoted
<1>4. CASE ParseOpReturn \/ ParseOddOutput \/ ParseOutput
  <2>1. pc = "outs" /\ NextOutput /\ UNCHANGED <<tx, lost, inputAddrs, inputAddrs2, extInputs>>
    BY <1>4 DEF ParseOpReturn, ParseOddOutput, ParseOutput, inputs
  <2>2. Read' = Read
    BY <1>a, <2>1, PlacesGrow
  <2> QED BY <2>1, <2>2 DEF InputsNoted
<1>5. CASE ReportOmni \/ ReportCoin
  <2>1. /\ UNCHANGED <<tx, lost, inputAddrs, inputAddrs2, extInputs>>
        /\ pc \notin {"ins", "outs"} /\ pc' \notin {"ins", "outs"}
    BY <1>5 DEF ReportOmni, ReportCoin, inputs
  <2>2. Read' = Read
    BY <1>a, <2>1, PlacesGrow
  <2> QED BY <2>1, <2>2 DEF InputsNoted
<1>6. CASE Done \/ UNCHANGED vars
  BY <1>6 DEF Done, vars, inputs, InputsNoted, Read
<1> QED BY <1>1, <1>2, <1>3, <1>4, <1>5, <1>6 DEF Next

\* The values kept for a list of addresses.
Held(addrs, value) == [j \in 1 .. Len(addrs) |-> value[addrs[j]]]

LEMMA HeldFact ==
    ASSUME NEW addrs \in Seq(Real), NEW value \in [Real -> Values \cup {0}]
    PROVE  /\ Held(addrs, value) \in Seq(Int) /\ Len(Held(addrs, value)) = Len(addrs) /\ Len(addrs) \in Nat
           /\ \A j \in 1 .. Len(addrs) : Held(addrs, value)[j] = value[addrs[j]] /\ addrs[j] \in Real
           /\ SumOf(Held(addrs, value)) \in Int
<1>1. Len(addrs) \in Nat /\ \A j \in 1 .. Len(addrs) : addrs[j] \in Real
  OBVIOUS
<1>2. \A a \in Real : value[a] \in Int
  <2>1. Values \cup {0} \subseteq Int
    BY ParserValues
  <2> QED BY <2>1
<1>3. Held(addrs, value) \in [1 .. Len(addrs) -> Int]
  BY <1>1, <1>2 DEF Held
<1>4. Held(addrs, value) \in Seq(Int)
  BY <1>1, <1>3, SeqDef
<1> QED BY <1>1, <1>3, <1>4, SumIsInt DEF Held

\* A new address leaves what is kept for the others, and adds its own.
LEMMA HeldGrows ==
    ASSUME NEW addrs \in Seq(Real), NEW value \in [Real -> Values \cup {0}],
           NEW a \in Real, NEW x \in Values, \A k \in 1 .. Len(addrs) : addrs[k] # a
    PROVE  /\ Held(addrs, [value EXCEPT ![a] = x]) = Held(addrs, value)
           /\ SumOf(Held(Append(addrs, a), [value EXCEPT ![a] = x])) = SumOf(Held(addrs, value)) + x
<1> DEFINE w == [value EXCEPT ![a] = x]
           longer == Append(addrs, a)
<1>1. w \in [Real -> Values \cup {0}] /\ w[a] = x /\ \A b \in Real : b # a => w[b] = value[b]
  OBVIOUS
<1>2. /\ longer \in Seq(Real) /\ Len(longer) = Len(addrs) + 1 /\ Len(addrs) \in Nat
      /\ (\A k \in 1 .. Len(addrs) : longer[k] = addrs[k] /\ addrs[k] \in Real) /\ longer[Len(addrs) + 1] = a
  OBVIOUS
<1>3. x \in Int
  BY ParserValues
<1> HIDE DEF w, longer
<1>4. Held(addrs, w) = Held(addrs, value)
  BY <1>1, <1>2 DEF Held
<1>5. Held(addrs, value) \in Seq(Int) /\ Len(Held(addrs, value)) = Len(addrs)
  BY HeldFact
<1>6. Held(longer, w) = Append(Held(addrs, value), x)
  <2> DEFINE u == Held(addrs, value)
             t == Append(u, x)
  <2>1. /\ t \in Seq(Int) /\ Len(t) = Len(addrs) + 1
        /\ (\A k \in 1 .. Len(addrs) : t[k] = u[k]) /\ t[Len(addrs) + 1] = x
    BY <1>3, <1>5
  <2>2. \A k \in 1 .. Len(addrs) : u[k] = value[addrs[k]]
    BY <1>2 DEF Held
  <2>3. t = [k \in 1 .. Len(addrs) + 1 |-> t[k]]
    <3>1. t \in [1 .. Len(addrs) + 1 -> Int]
      BY <2>1, LenProperties
    <3> QED BY <3>1
  <2> HIDE DEF t, u
  <2>4. ASSUME NEW k \in 1 .. Len(addrs) + 1 PROVE t[k] = w[longer[k]]
    <3>1. CASE k = Len(addrs) + 1
      BY <1>1, <1>2, <2>1, <3>1
    <3>2. CASE k # Len(addrs) + 1
      <4>1. k \in 1 .. Len(addrs)
        BY <1>2, <3>2
      <4> QED BY <1>1, <1>2, <2>1, <2>2, <4>1
    <3> QED BY <3>1, <3>2
  <2>5. Held(longer, w) = t
    BY <1>2, <2>3, <2>4 DEF Held
  <2> QED BY <2>5 DEF t, u
<1>7. SumOf(Held(longer, w)) = SumOf(Held(addrs, value)) + x
  BY <1>3, <1>5, <1>6, SumAppend
<1> QED BY <1>4, <1>7 DEF w, longer

\* If every output has an address of its own, the lists of addresses hold the
\* value of the outputs seen, the wallet's and the others'.
OutputsNoted ==
    Distinct =>
        /\ SumOf(Held(outputAddrs, outputValue)) = Worth(tx.outs, Ours(tx.outs) \cap Past)
        /\ SumOf(Held(outputAddrs2, outputValue)) = Worth(tx.outs, Theirs \cap Past)
        /\ \A k \in 1 .. Len(outputAddrs) : \E j \in Past : tx.outs[j].addr = outputAddrs[k]
        /\ \A k \in 1 .. Len(outputAddrs2) : \E j \in Past : tx.outs[j].addr = outputAddrs2[k]

LEMMA OutputsNotedNext == TypeOK /\ OutputsNoted /\ [Next]_vars => OutputsNoted'
<1> SUFFICES ASSUME TypeOK, OutputsNoted, [Next]_vars PROVE OutputsNoted'
  OBVIOUS
<1> DEFINE lists == <<outputAddrs, outputAddrs2, outputValue>>
<1>a. TxOK /\ LoopOK /\ OutputsOK /\ tx.outs \in Seq(Put) /\ Len(tx.outs) \in Nat
  BY ParserBounds DEF TypeOK, TxOK
<1>b. outputAddrs \in Seq(Real) /\ outputAddrs2 \in Seq(Real) /\ outputValue \in [Real -> Values \cup {0}]
  <2>1. OurAddrs \subseteq Real /\ Others \subseteq Real
    BY DEF Real
  <2> QED BY <1>a, <2>1 DEF OutputsOK
<1>c. ASSUME UNCHANGED <<tx, lists>>, Past' = Past PROVE OutputsNoted'
  BY <1>c DEF OutputsNoted, Distinct, Ours, Theirs, Worth
<1>d. UNCHANGED tx
  BY DEF Next, ParseInput, ParseOddInput, LoseInput, ParseOpReturn, ParseOddOutput, ParseOutput,
         ReportOmni, ReportCoin, Done, vars
<1>1. CASE ParseInput \/ ParseOddInput \/ LoseInput
  <2>1. pc = "ins" /\ NextInput /\ UNCHANGED lists
    BY <1>1 DEF ParseInput, ParseOddInput, LoseInput, outputs
  <2> QED BY <1>a, <1>c, <1>d, <2>1, PlacesGrow
<1>2. CASE ParseOpReturn \/ ParseOddOutput
  <2>1. pc = "outs" /\ NextOutput /\ UNCHANGED lists /\ tx.outs[i].addr \notin Real
    BY <1>2, ParserAddresses DEF ParseOpReturn, ParseOddOutput, outputs
  <2>2. Past' = Past \cup {i} /\ i \notin Past
    BY <1>a, <1>d, <2>1, PlacesGrow
  <2>3. i \notin Ours(tx.outs) /\ i \notin Theirs
    BY <2>1 DEF Ours, Theirs, Real
  <2>4. Ours(tx.outs) \cap Past' = Ours(tx.outs) \cap Past /\ Theirs \cap Past' = Theirs \cap Past
    BY <2>2, <2>3
  <2>5. Distinct' = Distinct /\ Theirs' = Theirs /\ Ours(tx.outs)' = Ours(tx.outs)
    BY <1>d DEF Distinct, Theirs, Ours
  <2> QED BY <1>d, <2>1, <2>2, <2>4, <2>5 DEF OutputsNoted, Worth
<1>3. CASE ParseOutput
  <2> DEFINE o == tx.outs[i]
  <2> SUFFICES ASSUME Distinct PROVE OutputsNoted'
    BY <1>d DEF OutputsNoted, Distinct
  <2>1. pc = "outs" /\ NextOutput /\ o.addr \in Real
    BY <1>3 DEF ParseOutput
  <2>2. Past' = Past \cup {i} /\ i \notin Past /\ Past \subseteq 1 .. Len(tx.outs)
    BY <1>a, <1>d, <2>1, PlacesGrow DEF Past
  <2>3. i \in 1 .. Len(tx.outs) /\ o \in Put /\ o.value \in Values
    BY <1>a, <2>1, Loops, PutFact
  <2>4. Paid(o) = o.value
    BY <2>1, ParserAddresses DEF Paid
  <2>5. ASSUME NEW j \in Past PROVE tx.outs[j].addr # o.addr
    <3>1. \A j1, j2 \in 1 .. Len(tx.outs) : tx.outs[j1].addr = tx.outs[j2].addr => j1 = j2
      BY DEF Distinct, IsInjective
    <3> QED BY <2>2, <2>3, <3>1
  <2>6. /\ \A k \in 1 .. Len(outputAddrs) : outputAddrs[k] # o.addr
        /\ \A k \in 1 .. Len(outputAddrs2) : outputAddrs2[k] # o.addr
    BY <2>5 DEF OutputsNoted
  <2>7. /\ SumOf(Held(outputAddrs, outputValue)) = Worth(tx.outs, Ours(tx.outs) \cap Past)
        /\ SumOf(Held(outputAddrs2, outputValue)) = Worth(tx.outs, Theirs \cap Past)
    BY DEF OutputsNoted
  <2>8. outputValue' = [outputValue EXCEPT ![o.addr] = o.value]
    BY <1>3 DEF ParseOutput
  <2>9. /\ Held(outputAddrs, outputValue') = Held(outputAddrs, outputValue)
        /\ Held(outputAddrs2, outputValue') = Held(outputAddrs2, outputValue)
        /\ SumOf(Held(Append(outputAddrs, o.addr), outputValue')) = SumOf(Held(outputAddrs, outputValue)) + o.value
        /\ SumOf(Held(Append(outputAddrs2, o.addr), outputValue')) = SumOf(Held(outputAddrs2, outputValue)) + o.value
    BY <1>b, <2>1, <2>3, <2>6, <2>8, HeldGrows
  <2>10. Theirs' = Theirs /\ Ours(tx.outs)' = Ours(tx.outs)
    BY <1>d DEF Theirs, Ours
  <2>11. ASSUME NEW addrs \in Seq(Real), \A k \in 1 .. Len(addrs) : \E j \in Past : tx.outs[j].addr = addrs[k],
                NEW longer \in {addrs, Append(addrs, o.addr)}
         PROVE  \A k \in 1 .. Len(longer) : \E j \in Past' : tx.outs[j].addr = longer[k]
    <3>1. ASSUME NEW k \in 1 .. Len(longer) PROVE longer[k] = o.addr \/ (k \in 1 .. Len(addrs) /\ longer[k] = addrs[k])
      <4>1. CASE longer = addrs
        BY <3>1, <4>1
      <4>2. CASE longer = Append(addrs, o.addr)
        <5>1. /\ Len(addrs) \in Nat /\ Len(longer) = Len(addrs) + 1
              /\ longer[Len(addrs) + 1] = o.addr
              /\ \A l \in 1 .. Len(addrs) : longer[l] = addrs[l]
          BY <2>1, <4>2
        <5> QED BY <3>1, <5>1
      <4> QED BY <2>11, <4>1, <4>2
    <3> QED BY <2>2, <2>11, <3>1
  <2>12. outputAddrs' \in {outputAddrs, Append(outputAddrs, o.addr)}
         /\ outputAddrs2' \in {outputAddrs2, Append(outputAddrs2, o.addr)}
    BY <1>3 DEF ParseOutput
  <2>13. /\ \A k \in 1 .. Len(outputAddrs') : \E j \in Past' : tx.outs[j].addr = outputAddrs'[k]
         /\ \A k \in 1 .. Len(outputAddrs2') : \E j \in Past' : tx.outs[j].addr = outputAddrs2'[k]
    BY <1>b, <2>11, <2>12 DEF OutputsNoted
  <2>14. CASE o.addr \in OurAddrs
    <3>1. outputAddrs' = Append(outputAddrs, o.addr) /\ UNCHANGED outputAddrs2
      BY <1>3, <2>14 DEF ParseOutput
    <3>2. /\ Ours(tx.outs) \cap Past' = (Ours(tx.outs) \cap Past) \cup {i}
          /\ Theirs \cap Past' = Theirs \cap Past
          /\ i \notin Ours(tx.outs) \cap Past
      BY <2>2, <2>3, <2>14 DEF Ours, Theirs
    <3>3. Worth(tx.outs, Ours(tx.outs) \cap Past') = Worth(tx.outs, Ours(tx.outs) \cap Past) + o.value
      BY <1>a, <2>3, <2>4, <3>2, WorthGrows
    <3>4. SumOf(Held(outputAddrs', outputValue')) = Worth(tx.outs, Ours(tx.outs) \cap Past')
      BY <2>7, <2>9, <3>1, <3>3
    <3>5. SumOf(Held(outputAddrs2', outputValue')) = Worth(tx.outs, Theirs \cap Past')
      BY <2>7, <2>9, <3>1, <3>2
    <3> QED BY <1>d, <2>10, <2>13, <3>4, <3>5 DEF OutputsNoted
  <2>15. CASE o.addr \notin OurAddrs
    <3>1. outputAddrs2' = Append(outputAddrs2, o.addr) /\ UNCHANGED outputAddrs
      BY <1>3, <2>15 DEF ParseOutput
    <3>2. /\ Theirs \cap Past' = (Theirs \cap Past) \cup {i}
          /\ Ours(tx.outs) \cap Past' = Ours(tx.outs) \cap Past
          /\ i \notin Theirs \cap Past
      BY <2>1, <2>2, <2>3, <2>15 DEF Ours, Theirs
    <3>3. Worth(tx.outs, Theirs \cap Past') = Worth(tx.outs, Theirs \cap Past) + o.value
      BY <1>a, <2>3, <2>4, <3>2, WorthGrows
    <3>4. SumOf(Held(outputAddrs2', outputValue')) = Worth(tx.outs, Theirs \cap Past')
      BY <2>7, <2>9, <3>1, <3>3
    <3>5. SumOf(Held(outputAddrs', outputValue')) = Worth(tx.outs, Ours(tx.outs) \cap Past')
      BY <2>7, <2>9, <3>1, <3>2
    <3> QED BY <1>d, <2>10, <2>13, <3>4, <3>5 DEF OutputsNoted
  <2> QED BY <2>14, <2>15
<1>4. CASE ReportOmni \/ ReportCoin
  <2>1. UNCHANGED lists /\ pc \notin {"ins", "outs"} /\ pc' \notin {"ins", "outs"}
    BY <1>4 DEF ReportOmni, ReportCoin, outputs
  <2> QED BY <1>a, <1>c, <1>d, <2>1, PlacesGrow
<1>5. CASE Done \/ UNCHANGED vars
  <2>1. UNCHANGED <<tx, lists, pc, i>>
    BY <1>5 DEF Done, vars, outputs
  <2> QED BY <1>c, <2>1 DEF Past
<1> QED BY <1>1, <1>2, <1>3, <1>4, <1>5 DEF Next

\* If every output has an address of its own, the lists name the address of
\* each output seen once, and the value kept for it is that output's.
OutputsListed ==
    Distinct =>
        /\ \A j \in Ours(tx.outs) \cap Past :
              \E k \in 1 .. Len(outputAddrs) : outputAddrs[k] = tx.outs[j].addr
        /\ \A j \in Theirs \cap Past :
              \E k \in 1 .. Len(outputAddrs2) : outputAddrs2[k] = tx.outs[j].addr
        /\ \A j \in To \cap Past : outputValue[tx.outs[j].addr] = tx.outs[j].value
        /\ \A k, l \in 1 .. Len(outputAddrs) : outputAddrs[k] = outputAddrs[l] => k = l
        /\ \A k, l \in 1 .. Len(outputAddrs2) : outputAddrs2[k] = outputAddrs2[l] => k = l

\* A list of addresses with one more that is not in it.
LEMMA NewAddress ==
    ASSUME NEW addrs \in Seq(Real), NEW a \in Real, \A k \in 1 .. Len(addrs) : addrs[k] # a,
           \A k, l \in 1 .. Len(addrs) : addrs[k] = addrs[l] => k = l
    PROVE  /\ \A k, l \in 1 .. Len(Append(addrs, a)) :
                 Append(addrs, a)[k] = Append(addrs, a)[l] => k = l
           /\ \A k \in 1 .. Len(addrs) :
                 \E l \in 1 .. Len(Append(addrs, a)) : Append(addrs, a)[l] = addrs[k]
           /\ \E l \in 1 .. Len(Append(addrs, a)) : Append(addrs, a)[l] = a
<1> DEFINE longer == Append(addrs, a)
<1>1. /\ Len(addrs) \in Nat /\ Len(longer) = Len(addrs) + 1
      /\ longer[Len(addrs) + 1] = a
      /\ \A l \in 1 .. Len(addrs) : longer[l] = addrs[l]
  OBVIOUS
<1> HIDE DEF longer
<1>2. \A k \in 1 .. Len(longer) : k \in 1 .. Len(addrs) \/ k = Len(addrs) + 1
  BY <1>1
<1>3. \A k, l \in 1 .. Len(longer) : longer[k] = longer[l] => k = l
  BY <1>1, <1>2
<1>4. /\ \A k \in 1 .. Len(addrs) : \E l \in 1 .. Len(longer) : longer[l] = addrs[k]
      /\ \E l \in 1 .. Len(longer) : longer[l] = a
  BY <1>1
<1> QED BY <1>3, <1>4 DEF longer

LEMMA OutputsListedNext ==
    TypeOK /\ OutputsNoted /\ OutputsListed /\ [Next]_vars => OutputsListed'
<1> SUFFICES ASSUME TypeOK, OutputsNoted, OutputsListed, [Next]_vars PROVE OutputsListed'
  OBVIOUS
<1> DEFINE lists == <<outputAddrs, outputAddrs2, outputValue>>
<1>a. TxOK /\ LoopOK /\ OutputsOK /\ tx.outs \in Seq(Put) /\ Len(tx.outs) \in Nat
  BY ParserBounds DEF TypeOK, TxOK
<1>b. outputAddrs \in Seq(Real) /\ outputAddrs2 \in Seq(Real) /\ outputValue \in [Real -> Values \cup {0}]
  <2>1. OurAddrs \subseteq Real /\ Others \subseteq Real
    BY DEF Real
  <2> QED BY <1>a, <2>1 DEF OutputsOK
<1>c. ASSUME UNCHANGED <<tx, lists>>, Past' = Past PROVE OutputsListed'
  BY <1>c DEF OutputsListed, Distinct, Ours, Theirs, To
<1>d. UNCHANGED tx
  BY DEF Next, ParseInput, ParseOddInput, LoseInput, ParseOpReturn, ParseOddOutput, ParseOutput,
         ReportOmni, ReportCoin, Done, vars
<1>e. Distinct' = Distinct /\ Theirs' = Theirs /\ Ours(tx.outs)' = Ours(tx.outs) /\ To' = To
  BY <1>d DEF Distinct, Theirs, Ours, To
<1>1. CASE ParseInput \/ ParseOddInput \/ LoseInput
  <2>1. pc = "ins" /\ NextInput /\ UNCHANGED lists
    BY <1>1 DEF ParseInput, ParseOddInput, LoseInput, outputs
  <2> QED BY <1>a, <1>c, <1>d, <2>1, PlacesGrow
<1>2. CASE ParseOpReturn \/ ParseOddOutput
  <2>1. pc = "outs" /\ NextOutput /\ UNCHANGED lists /\ tx.outs[i].addr \notin Real
    BY <1>2, ParserAddresses DEF ParseOpReturn, ParseOddOutput, outputs
  <2>2. Past' = Past \cup {i} /\ i \notin Past
    BY <1>a, <1>d, <2>1, PlacesGrow
  <2>3. i \notin Ours(tx.outs) /\ i \notin Theirs /\ i \notin To
    BY <2>1 DEF Ours, Theirs, To, Real
  <2> QED BY <1>d, <1>e, <2>1, <2>2, <2>3 DEF OutputsListed
<1>3. CASE ParseOutput
  <2> DEFINE o == tx.outs[i]
  <2> SUFFICES ASSUME Distinct PROVE OutputsListed'
    BY <1>e DEF OutputsListed
  <2>1. pc = "outs" /\ NextOutput /\ o.addr \in Real
    BY <1>3 DEF ParseOutput
  <2>2. Past' = Past \cup {i} /\ i \notin Past /\ Past \subseteq 1 .. Len(tx.outs)
    BY <1>a, <1>d, <2>1, PlacesGrow DEF Past
  <2>3. i \in 1 .. Len(tx.outs)
    BY <1>a, <2>1, Loops
  <2>4. ASSUME NEW j \in Past PROVE tx.outs[j].addr # o.addr
    <3>1. \A j1, j2 \in 1 .. Len(tx.outs) : tx.outs[j1].addr = tx.outs[j2].addr => j1 = j2
      BY DEF Distinct, IsInjective
    <3> QED BY <2>2, <2>3, <3>1
  <2>5. /\ \A k \in 1 .. Len(outputAddrs) : outputAddrs[k] # o.addr
        /\ \A k \in 1 .. Len(outputAddrs2) : outputAddrs2[k] # o.addr
    BY <2>4 DEF OutputsNoted
  <2>6. outputValue' = [outputValue EXCEPT ![o.addr] = o.value]
    BY <1>3 DEF ParseOutput
  <2>7. \A j \in To \cap Past' : outputValue'[tx.outs[j].addr] = tx.outs[j].value
    BY <1>b, <2>1, <2>2, <2>4, <2>6 DEF OutputsListed, To
  <2>8. CASE o.addr \in OurAddrs
    <3>1. outputAddrs' = Append(outputAddrs, o.addr) /\ UNCHANGED outputAddrs2
      BY <1>3, <2>8 DEF ParseOutput
    <3>2. /\ \A k, l \in 1 .. Len(outputAddrs') : outputAddrs'[k] = outputAddrs'[l] => k = l
          /\ \A k \in 1 .. Len(outputAddrs) :
                \E l \in 1 .. Len(outputAddrs') : outputAddrs'[l] = outputAddrs[k]
          /\ \E l \in 1 .. Len(outputAddrs') : outputAddrs'[l] = o.addr
      <4>1. /\ \A k \in 1 .. Len(outputAddrs) : outputAddrs[k] # o.addr
            /\ \A k, l \in 1 .. Len(outputAddrs) : outputAddrs[k] = outputAddrs[l] => k = l
        BY <2>5 DEF OutputsListed
      <4> QED BY <1>b, <2>1, <3>1, <4>1, NewAddress
    <3>3. i \notin Theirs
      BY <2>8 DEF Theirs
    <3>4. \A j \in Ours(tx.outs) \cap Past' :
             \E l \in 1 .. Len(outputAddrs') : outputAddrs'[l] = tx.outs[j].addr
      BY <2>2, <3>2 DEF OutputsListed
    <3>5. \A j \in Theirs \cap Past' :
             \E l \in 1 .. Len(outputAddrs2') : outputAddrs2'[l] = tx.outs[j].addr
      BY <2>2, <3>1, <3>3 DEF OutputsListed
    <3> QED BY <1>d, <1>e, <2>7, <3>1, <3>2, <3>4, <3>5 DEF OutputsListed
  <2>9. CASE o.addr \notin OurAddrs
    <3>1. outputAddrs2' = Append(outputAddrs2, o.addr) /\ UNCHANGED outputAddrs
      BY <1>3, <2>9 DEF ParseOutput
    <3>2. /\ \A k, l \in 1 .. Len(outputAddrs2') : outputAddrs2'[k] = outputAddrs2'[l] => k = l
          /\ \A k \in 1 .. Len(outputAddrs2) :
                \E l \in 1 .. Len(outputAddrs2') : outputAddrs2'[l] = outputAddrs2[k]
          /\ \E l \in 1 .. Len(outputAddrs2') : outputAddrs2'[l] = o.addr
      <4>1. /\ \A k \in 1 .. Len(outputAddrs2) : outputAddrs2[k] # o.addr
            /\ \A k, l \in 1 .. Len(outputAddrs2) : outputAddrs2[k] = outputAddrs2[l] => k = l
        BY <2>5 DEF OutputsListed
      <4> QED BY <1>b, <2>1, <3>1, <4>1, NewAddress
    <3>3. i \notin Ours(tx.outs)
      BY <2>9 DEF Ours
    <3>4. \A j \in Theirs \cap Past' :
             \E l \in 1 .. Len(outputAddrs2') : outputAddrs2'[l] = tx.outs[j].addr
      BY <2>2, <3>2 DEF OutputsListed
    <3>5. \A j \in Ours(tx.outs) \cap Past' :
             \E l \in 1 .. Len(outputAddrs') : outputAddrs'[l] = tx.outs[j].addr
      BY <2>2, <3>1, <3>3 DEF OutputsListed
    <3> QED BY <1>d, <1>e, <2>7, <3>1, <3>2, <3>4, <3>5 DEF OutputsListed
  <2> QED BY <2>8, <2>9
<1>4. CASE ReportOmni \/ ReportCoin
  <2>1. UNCHANGED lists /\ pc \notin {"ins", "outs"} /\ pc' \notin {"ins", "outs"}
    BY <1>4 DEF ReportOmni, ReportCoin, outputs
  <2> QED BY <1>a, <1>c, <1>d, <2>1, PlacesGrow
<1>5. CASE Done \/ UNCHANGED vars
  <2>1. UNCHANGED <<tx, lists, pc, i>>
    BY <1>5 DEF Done, vars, outputs
  <2> QED BY <1>c, <2>1 DEF Past
<1> QED BY <1>1, <1>2, <1>3, <1>4, <1>5 DEF Next

-----------------------------------------------------------------------------
(* What the messages book.                                                   *)
Moved(list, T) ==
    [k \in 1 .. Len(list) |->
       IF list[k].coin = "BTC" /\ list[k].type \in T THEN list[k].amount ELSE 0]

LEMMA MovedFact ==
    ASSUME NEW list \in Seq(Msg), NEW T
    PROVE  /\ Moved(list, T) \in Seq(Int) /\ Len(Moved(list, T)) = Len(list) /\ Len(list) \in Nat
           /\ \A k \in 1 .. Len(list) :
                 Moved(list, T)[k] =
                   IF list[k].coin = "BTC" /\ list[k].type \in T THEN list[k].amount ELSE 0
<1>1. Len(list) \in Nat /\ \A k \in 1 .. Len(list) : list[k] \in Msg
  OBVIOUS
<1>2. ASSUME NEW m \in Msg PROVE m.amount \in Int
  BY DEF Msg
<1>3. Moved(list, T) \in [1 .. Len(list) -> Int]
  BY <1>1, <1>2 DEF Moved
<1>4. Moved(list, T) \in Seq(Int)
  BY <1>1, <1>3, SeqDef
<1> QED BY <1>1, <1>3, <1>4 DEF Moved

\* The message of an Omni transfer books no coins.
LEMMA MovedAfter ==
    ASSUME NEW list \in Seq(Msg), NEW more \in Seq(Msg), NEW T,
           \A k \in 1 .. Len(list) : list[k].coin = "USDT"
    PROVE  SumOf(Moved(list \o more, T)) = SumOf(Moved(more, T))
<1> DEFINE u == Moved(list, T)
           v == Moved(more, T)
           both == list \o more
           w == Moved(both, T)
<1>1. /\ both \in Seq(Msg) /\ Len(both) = Len(list) + Len(more)
      /\ \A k \in 1 .. Len(list) + Len(more) :
            both[k] = IF k <= Len(list) THEN list[k] ELSE more[k - Len(list)]
  BY ConcatProperties
<1>2. /\ u \in Seq(Int) /\ Len(u) = Len(list) /\ Len(list) \in Nat
      /\ \A k \in 1 .. Len(list) :
            u[k] = IF list[k].coin = "BTC" /\ list[k].type \in T THEN list[k].amount ELSE 0
  BY MovedFact
<1>3. /\ v \in Seq(Int) /\ Len(v) = Len(more) /\ Len(more) \in Nat
      /\ \A k \in 1 .. Len(more) :
            v[k] = IF more[k].coin = "BTC" /\ more[k].type \in T THEN more[k].amount ELSE 0
  BY MovedFact
<1>4. /\ w \in Seq(Int) /\ Len(w) = Len(both)
      /\ \A k \in 1 .. Len(both) :
            w[k] = IF both[k].coin = "BTC" /\ both[k].type \in T THEN both[k].amount ELSE 0
  <2> HIDE DEF both
  <2> QED BY <1>1, MovedFact
<1> HIDE DEF u, v, w, both
<1>5. /\ u \o v \in Seq(Int) /\ Len(u \o v) = Len(list) + Len(more)
      /\ \A k \in 1 .. Len(list) + Len(more) :
            (u \o v)[k] = IF k <= Len(list) THEN u[k] ELSE v[k - Len(list)]
  <2>1. /\ u \o v \in Seq(Int) /\ Len(u \o v) = Len(u) + Len(v)
        /\ \A k \in 1 .. Len(u) + Len(v) :
              (u \o v)[k] = IF k <= Len(u) THEN u[k] ELSE v[k - Len(u)]
    <3>1. u \in Seq(Int) /\ v \in Seq(Int)
      BY <1>2, <1>3
    <3> QED BY <3>1, ConcatProperties
  <2> QED BY <1>2, <1>3, <2>1
<1>6. ASSUME NEW k \in 1 .. Len(list) + Len(more) PROVE w[k] = (u \o v)[k]
  <2>1. CASE k <= Len(list)
    <3>1. k \in 1 .. Len(list)
      BY <1>2, <1>3, <2>1
    <3> QED BY <1>1, <1>2, <1>4, <1>5, <2>1, <3>1
  <2>2. CASE ~(k <= Len(list))
    <3>1. k - Len(list) \in 1 .. Len(more)
      BY <1>2, <1>3, <2>2
    <3> QED BY <1>1, <1>3, <1>4, <1>5, <2>2, <3>1
  <2> QED BY <2>1, <2>2
<1>7. w = u \o v
  BY <1>1, <1>4, <1>5, <1>6, SeqEqual
<1>8. SumOf(w) = SumOf(u) + SumOf(v)
  BY <1>2, <1>3, <1>7, SumConcat
<1>9. \A k \in 1 .. Len(u) : u[k] = 0
  BY <1>2
<1>10. SumOf(u) = 0
  BY <1>2, <1>9, SumOfZeros
<1>11. SumOf(v) \in Int
  BY <1>3, SumIsInt
<1> QED BY <1>8, <1>10, <1>11 DEF u, v, w, both

\* Messages about a list of addresses book what is held for them, or nothing.
LEMMA MovedHeld ==
    ASSUME NEW list \in Seq(Msg), NEW addrs \in Seq(Real), NEW T,
           NEW value \in [Real -> Values \cup {0}], Len(list) = Len(addrs),
           \A k \in 1 .. Len(list) : list[k].coin = "BTC" /\ list[k].amount = value[addrs[k]]
    PROVE  /\ (\A k \in 1 .. Len(list) : list[k].type \in T) =>
                 SumOf(Moved(list, T)) = SumOf(Held(addrs, value))
           /\ (\A k \in 1 .. Len(list) : list[k].type \notin T) => SumOf(Moved(list, T)) = 0
<1>1. /\ Moved(list, T) \in Seq(Int) /\ Len(Moved(list, T)) = Len(list)
      /\ \A k \in 1 .. Len(list) :
            Moved(list, T)[k] =
              IF list[k].coin = "BTC" /\ list[k].type \in T THEN list[k].amount ELSE 0
  BY MovedFact
<1>2. ASSUME \A k \in 1 .. Len(list) : list[k].type \in T
      PROVE  SumOf(Moved(list, T)) = SumOf(Held(addrs, value))
  <2>1. Moved(list, T) = Held(addrs, value)
    BY <1>2 DEF Moved, Held
  <2> QED BY <2>1
<1>3. ASSUME \A k \in 1 .. Len(list) : list[k].type \notin T PROVE SumOf(Moved(list, T)) = 0
  BY <1>1, <1>3, SumOfZeros
<1> QED BY <1>2, <1>3

\* In the end the messages are that of the Omni transfer, if any, and those
\* about coins.
CoinsTold ==
    pc = "done" => \E before \in Seq(Msg) :
        messages = before \o CoinMessages /\ \A k \in 1 .. Len(before) : before[k].coin = "USDT"

\* Until the end only the Omni transfer was reported.
CoinsLast == pc # "done" => \A k \in 1 .. Len(messages) : messages[k].coin = "USDT"

LEMMA CoinsLastNext == TypeOK /\ Reported /\ CoinsLast /\ [Next]_vars => CoinsLast'
<1> SUFFICES ASSUME TypeOK, Reported, CoinsLast, [Next]_vars, pc' # "done"
             PROVE  \A k \in 1 .. Len(messages') : messages'[k].coin = "USDT"
  BY DEF CoinsLast
<1>1. CASE ReportOmni
  BY <1>1 DEF ReportOmni, OmniMessages
<1>2. CASE ~ReportOmni
  <2>1. UNCHANGED messages /\ pc # "done"
    <3>1. CASE ParseInput \/ ParseOddInput \/ LoseInput
      BY <3>1 DEF ParseInput, ParseOddInput, LoseInput
    <3>2. CASE ParseOpReturn \/ ParseOddOutput \/ ParseOutput
      BY <3>2 DEF ParseOpReturn, ParseOddOutput, ParseOutput
    <3>3. CASE ReportCoin \/ Done \/ UNCHANGED vars
      BY <3>3 DEF ReportCoin, Done, vars
    <3> QED BY <1>2, <3>1, <3>2, <3>3 DEF Next
  <2> QED BY <2>1 DEF CoinsLast
<1> QED BY <1>1, <1>2

LEMMA NotDone ==
    ASSUME [Next]_vars, ~(ReportCoin \/ Done \/ UNCHANGED vars)
    PROVE  pc' # "done"
<1>1. CASE ParseInput \/ ParseOddInput \/ LoseInput
  BY <1>1 DEF ParseInput, ParseOddInput, LoseInput, NextInput
<1>2. CASE ParseOpReturn \/ ParseOddOutput \/ ParseOutput
  BY <1>2 DEF ParseOpReturn, ParseOddOutput, ParseOutput, NextOutput
<1>3. CASE ReportOmni
  BY <1>3 DEF ReportOmni
<1> QED BY <1>1, <1>2, <1>3 DEF Next

LEMMA CoinsToldNext == TypeOK /\ CoinsLast /\ CoinsTold /\ [Next]_vars => CoinsTold'
<1> SUFFICES ASSUME TypeOK, CoinsLast, CoinsTold, [Next]_vars PROVE CoinsTold'
  OBVIOUS
<1>1. CASE ReportCoin
  <2>1. /\ messages' = messages \o CoinMessages /\ CoinMessages' = CoinMessages
        /\ \A k \in 1 .. Len(messages) : messages[k].coin = "USDT"
    BY <1>1 DEF ReportCoin, CoinsLast, CoinMessages, Deposits, Withdraws, Collects, Each, Coin,
                inputs, outputs
  <2> QED BY <2>1 DEF CoinsTold, TypeOK
<1>2. CASE Done \/ UNCHANGED vars
  <2>1. UNCHANGED <<pc, messages>> /\ CoinMessages' = CoinMessages
    BY <1>2 DEF Done, vars, CoinMessages, Deposits, Withdraws, Collects, Each, Coin, inputs, outputs
  <2> QED BY <2>1 DEF CoinsTold
<1>3. CASE ~(ReportCoin \/ Done \/ UNCHANGED vars)
  BY <1>3, NotDone DEF CoinsTold
<1> QED BY <1>1, <1>2, <1>3

\* The sequence of messages for a list of addresses.
LEMMA EachFact ==
    ASSUME OutputsOK
    PROVE  /\ Len(Deposits) = Len(outputAddrs)
           /\ \A k \in 1 .. Len(outputAddrs) :
                 /\ Deposits[k].coin = "BTC" /\ Deposits[k].type \in Deposit \ Withdraw
                 /\ Deposits[k].amount = outputValue[outputAddrs[k]]
           /\ Len(Withdraws) = Len(outputAddrs2)
           /\ \A k \in 1 .. Len(outputAddrs2) :
                 /\ Withdraws[k].coin = "BTC" /\ Withdraws[k].type \in Withdraw \ Deposit
                 /\ Withdraws[k].amount = outputValue[outputAddrs2[k]]
           /\ Len(Collects) = Len(outputAddrs)
           /\ \A k \in 1 .. Len(outputAddrs) :
                 /\ Collects[k].coin = "BTC" /\ Collects[k].type \notin Deposit \cup Withdraw
                 /\ Collects[k].amount = outputValue[outputAddrs[k]]
<1>a. Len(outputAddrs) \in Nat /\ Len(outputAddrs2) \in Nat
  BY DEF OutputsOK
<1>1. /\ Len(Deposits) = Len(outputAddrs)
      /\ \A k \in 1 .. Len(outputAddrs) :
            /\ Deposits[k].coin = "BTC" /\ Deposits[k].type \in Deposit \ Withdraw
            /\ Deposits[k].amount = outputValue[outputAddrs[k]]
  BY <1>a DEF Deposits, Each, Coin, Deposit, Withdraw
<1>2. /\ Len(Withdraws) = Len(outputAddrs2)
      /\ \A k \in 1 .. Len(outputAddrs2) :
            /\ Withdraws[k].coin = "BTC" /\ Withdraws[k].type \in Withdraw \ Deposit
            /\ Withdraws[k].amount = outputValue[outputAddrs2[k]]
  BY <1>a DEF Withdraws, Each, Coin, Deposit, Withdraw
<1>3. /\ Len(Collects) = Len(outputAddrs)
      /\ \A k \in 1 .. Len(outputAddrs) :
            /\ Collects[k].coin = "BTC" /\ Collects[k].type \notin Deposit \cup Withdraw
            /\ Collects[k].amount = outputValue[outputAddrs[k]]
  BY <1>a DEF Collects, Each, Coin, Deposit, Withdraw
<1> QED BY <1>1, <1>2, <1>3

\* With its last step the parser has told what the transaction moved.
LEMMA CoinsBalance ==
    ASSUME TypeOK, FeeCounted, InputsNoted, OutputsNoted, CoinsLast,
           ReportCoin, lost = {}, Distinct, Plain
    PROVE  LedgerBalances'
<1> DEFINE own == Worth(tx.outs, Ours(tx.outs))
           others == Worth(tx.outs, Theirs)
           spent == Worth(tx.ins, Ours(tx.ins))
           coins == CoinMessages
           dep == SumOf(Moved(coins, Deposit))
           wit == SumOf(Moved(coins, Withdraw))
<1>a. /\ TxOK /\ OutputsOK /\ InputsOK /\ messages \in Seq(Msg)
      /\ tx.ins \in Seq(In) /\ tx.outs \in Seq(Put)
      /\ Len(tx.ins) \in Nat /\ Len(tx.ins) >= 1 /\ Len(tx.outs) \in Nat
  BY ParserBounds DEF TypeOK, TxOK
<1>b. Read = 1 .. Len(tx.ins) /\ Past = 1 .. Len(tx.outs)
  <2>1. pc = "coin"
    BY DEF ReportCoin
  <2> QED BY <2>1 DEF Read, Past
<1>c. /\ own \in Int /\ others \in Int /\ spent \in Int
      /\ Worth(tx.ins, Read) \in Int /\ Worth(tx.outs, Past) \in Int
  BY <1>a, AmountsFact, PartIsSeq, SumIsInt DEF Worth
<1>d. /\ outputAddrs \in Seq(Real) /\ outputAddrs2 \in Seq(Real)
      /\ outputValue \in [Real -> Values \cup {0}]
  <2>1. OurAddrs \subseteq Real /\ Others \subseteq Real
    BY DEF Real
  <2> QED BY <1>a, <2>1 DEF OutputsOK
<1>e. coins \in Seq(Msg) /\ coins \in {Deposits, Withdraws, Collects, <<>>}
  BY <1>a, CoinMessagesFact DEF CoinMessages
<1>f. /\ SumOf(Held(outputAddrs, outputValue)) = own
      /\ SumOf(Held(outputAddrs2, outputValue)) = others
      /\ (outputAddrs = <<>> => own = 0) /\ (outputAddrs2 = <<>> => others = 0)
  <2>1. Ours(tx.outs) \cap Past = Ours(tx.outs) /\ Theirs \cap Past = Theirs
    BY <1>b DEF Ours, Theirs
  <2>2. ASSUME NEW addrs, addrs = <<>> PROVE SumOf(Held(addrs, outputValue)) = 0
    <3>1. Held(addrs, outputValue) = <<>>
      BY <2>2 DEF Held
    <3> QED BY <3>1, SumEmpty
  <2>3. /\ SumOf(Held(outputAddrs, outputValue)) = own
        /\ SumOf(Held(outputAddrs2, outputValue)) = others
    BY <2>1 DEF OutputsNoted
  <2> QED BY <2>2, <2>3
<1>g. fee = Worth(tx.ins, Read) - Worth(tx.outs, Past)
  BY DEF FeeCounted
<1> HIDE DEF coins
<1>h. ASSUME NEW addrs \in Seq(Real), Len(coins) = Len(addrs),
             \A k \in 1 .. Len(coins) : coins[k].coin = "BTC" /\ coins[k].amount = outputValue[addrs[k]],
             NEW T
      PROVE  /\ (\A k \in 1 .. Len(coins) : coins[k].type \in T) =>
                   SumOf(Moved(coins, T)) = SumOf(Held(addrs, outputValue))
             /\ (\A k \in 1 .. Len(coins) : coins[k].type \notin T) => SumOf(Moved(coins, T)) = 0
  BY <1>d, <1>e, <1>h, MovedHeld
<1>1. /\ coins = Deposits => dep = own /\ wit = 0
      /\ coins = Withdraws => dep = 0 /\ wit = others
      /\ coins = Collects => dep = 0 /\ wit = 0
      /\ coins = <<>> => dep = 0 /\ wit = 0
  <2>1. ASSUME coins = Deposits PROVE dep = own /\ wit = 0
    <3>1. /\ Len(coins) = Len(outputAddrs)
          /\ \A k \in 1 .. Len(coins) :
                /\ coins[k].coin = "BTC" /\ coins[k].type \in Deposit /\ coins[k].type \notin Withdraw
                /\ coins[k].amount = outputValue[outputAddrs[k]]
      BY <1>a, <2>1, EachFact
    <3>2. dep = SumOf(Held(outputAddrs, outputValue)) /\ wit = 0
      BY <1>d, <1>h, <3>1
    <3> QED BY <1>f, <3>2
  <2>2. ASSUME coins = Withdraws PROVE dep = 0 /\ wit = others
    <3>1. /\ Len(coins) = Len(outputAddrs2)
          /\ \A k \in 1 .. Len(coins) :
                /\ coins[k].coin = "BTC" /\ coins[k].type \notin Deposit /\ coins[k].type \in Withdraw
                /\ coins[k].amount = outputValue[outputAddrs2[k]]
      BY <1>a, <2>2, EachFact
    <3>2. dep = 0 /\ wit = SumOf(Held(outputAddrs2, outputValue))
      BY <1>d, <1>h, <3>1
    <3> QED BY <1>f, <3>2
  <2>3. ASSUME coins = Collects PROVE dep = 0 /\ wit = 0
    <3>1. /\ Len(coins) = Len(outputAddrs)
          /\ \A k \in 1 .. Len(coins) :
                /\ coins[k].coin = "BTC" /\ coins[k].type \notin Deposit /\ coins[k].type \notin Withdraw
                /\ coins[k].amount = outputValue[outputAddrs[k]]
      BY <1>a, <2>3, EachFact
    <3> QED BY <1>d, <1>h, <3>1
  <2>4. ASSUME coins = <<>> PROVE dep = 0 /\ wit = 0
    <3>1. Moved(coins, Deposit) = <<>> /\ Moved(coins, Withdraw) = <<>>
      BY <2>4 DEF Moved
    <3> QED BY <3>1, SumEmpty
  <2> QED BY <2>1, <2>2, <2>3, <2>4
<1>2. Booked(Deposit)' = dep /\ Booked(Withdraw)' = wit
  <2>1. messages' = messages \o coins
    BY DEF ReportCoin, coins
  <2>2. \A k \in 1 .. Len(messages) : messages[k].coin = "USDT"
    BY DEF CoinsLast, ReportCoin
  <2>3. ASSUME NEW T PROVE SumOf(Moved(messages \o coins, T)) = SumOf(Moved(coins, T))
    BY <1>a, <1>e, <2>2, MovedAfter
  <2>4. Booked(Deposit)' = SumOf(Moved(messages', Deposit)) /\ Booked(Withdraw)' = SumOf(Moved(messages', Withdraw))
    BY DEF Booked, Moved
  <2> QED BY <2>1, <2>3, <2>4
<1>3. own - spent = dep - wit - (IF inputAddrs # <<>> THEN fee ELSE 0)
  <2>1. CASE Ours(tx.ins) = {}
    <3>1. inputAddrs = <<>>
      BY <2>1 DEF InputsNoted
    <3>2. spent = 0
      BY <1>a, <2>1, AmountsFact, PartNone DEF Worth
    <3>3. coins = Deposits \/ (own = 0 /\ coins = Collects) \/ (own = 0 /\ coins = <<>>)
      BY <1>f, <3>1 DEF coins, CoinMessages
    <3>4. dep = own /\ wit = 0
      BY <1>1, <3>3
    <3> HIDE DEF own, spent, dep, wit
    <3> QED BY <1>c, <3>1, <3>2, <3>4
  <2>2. CASE Ours(tx.ins) = 1 .. Len(tx.ins) /\ Odd \notin {o.addr : o \in ToSet(tx.outs)}
    <3>1. inputAddrs # <<>>
      <4>1. 1 \in Ours(tx.ins) \cap Read
        BY <1>a, <1>b, <2>2
      <4> QED BY <4>1 DEF InputsNoted
    <3>2. inputAddrs2 = <<>>
      BY <1>b, <2>2 DEF InputsNoted, Ours
    <3>3. spent = Worth(tx.ins, Read)
      BY <1>b, <2>2
    <3>4. Worth(tx.outs, Past) = own + others
      <4>1. \A k \in 1 .. Len(tx.outs) :
               tx.outs[k] \in Put /\ tx.outs[k].addr # Odd
        <5>1. \A k \in 1 .. Len(tx.outs) : tx.outs[k] \in ToSet(tx.outs)
          BY <1>a DEF ToSet
        <5> QED BY <1>a, <2>2, <5>1
      <4> DEFINE data == {k \in 1 .. Len(tx.outs) : tx.outs[k].addr \in Data}
                 amounts == Amounts(tx.outs)
      <4>2. /\ Ours(tx.outs) \cap Theirs = {} /\ (Ours(tx.outs) \cup Theirs) \cap data = {}
            /\ (Ours(tx.outs) \cup Theirs) \cup data = 1 .. Len(tx.outs)
        <5>1. ASSUME NEW k \in 1 .. Len(tx.outs)
              PROVE  tx.outs[k].addr \in Data \/ tx.outs[k].addr \in Real
          BY <4>1, PutFact
        <5>2. Data \cap Real = {} /\ OurAddrs \subseteq Real
          BY ParserAddresses DEF Real
        <5> QED BY <5>1, <5>2 DEF Ours, Theirs
      <4>3. amounts \in Seq(Int) /\ Len(amounts) = Len(tx.outs)
            /\ \A k \in 1 .. Len(tx.outs) : amounts[k] = Paid(tx.outs[k])
        BY <1>a, AmountsFact
      <4>4. SumOf(Part(amounts, data)) = 0
        <5>1. \A k \in 1 .. Len(amounts) : k \notin data \/ amounts[k] = 0
          BY <4>3 DEF Paid
        <5> HIDE DEF amounts, data
        <5> QED BY <4>3, <5>1, PartNone
      <4> HIDE DEF amounts, data
      <4>5. SumOf(Part(amounts, 1 .. Len(tx.outs))) =
               SumOf(Part(amounts, Ours(tx.outs) \cup Theirs)) + SumOf(Part(amounts, data))
        BY <4>2, <4>3, PartUnion
      <4>6. SumOf(Part(amounts, Ours(tx.outs) \cup Theirs)) =
               SumOf(Part(amounts, Ours(tx.outs))) + SumOf(Part(amounts, Theirs))
        BY <4>2, <4>3, PartUnion
      <4> QED BY <1>b, <1>c, <4>4, <4>5, <4>6 DEF Worth, amounts
    <3>5. coins = Withdraws \/ (others = 0 /\ coins = Collects)
      BY <1>f, <3>1, <3>2 DEF coins, CoinMessages
    <3>6. dep = 0 /\ wit = others
      BY <1>1, <3>5
    <3> HIDE DEF own, others, spent, dep, wit
    <3> QED BY <1>c, <1>g, <3>1, <3>3, <3>4, <3>6
  <2> QED BY <2>1, <2>2 DEF Plain
<1>4. UNCHANGED <<tx, lost, fee, inputAddrs>>
  BY DEF ReportCoin, inputs
<1>5. /\ Worth(tx.outs, Ours(tx.outs))' = own
      /\ Worth(tx.ins, Ours(tx.ins))' = spent
  BY <1>4 DEF Worth, Ours
<1> HIDE DEF own, spent, dep, wit
<1> QED BY <1>2, <1>3, <1>4, <1>5 DEF LedgerBalances

-----------------------------------------------------------------------------
(* The Omni transfer.                                                        *)

\* The OP_RETURN outputs seen: none, one, or more.
OpReturnsNoted ==
    LET D == {j \in Past : tx.outs[j].addr \in Data}
    IN  \/ D = {} /\ opReturns = <<>>
        \/ \E j \in D : D = {j} /\ opReturns = <<tx.outs[j]>>
        \/ Len(opReturns) > 1 /\ \E j, l \in D : j # l

LEMMA OpReturnsNotedNext == TypeOK /\ OpReturnsNoted /\ [Next]_vars => OpReturnsNoted'
<1> SUFFICES ASSUME TypeOK, OpReturnsNoted, [Next]_vars PROVE OpReturnsNoted'
  OBVIOUS
<1> DEFINE D == {j \in Past : tx.outs[j].addr \in Data}
<1>a. TxOK /\ LoopOK /\ opReturns \in Seq(Put)
  BY DEF TypeOK, OutputsOK
<1>b. \/ D = {} /\ opReturns = <<>>
      \/ \E j \in D : D = {j} /\ opReturns = <<tx.outs[j]>>
      \/ Len(opReturns) > 1 /\ \E j, l \in D : j # l
  BY DEF OpReturnsNoted
<1>c. ASSUME UNCHANGED <<tx, opReturns>>, D' = D PROVE OpReturnsNoted'
  BY <1>b, <1>c DEF OpReturnsNoted
<1>1. CASE ParseInput \/ ParseOddInput \/ LoseInput
  <2>1. pc = "ins" /\ NextInput /\ UNCHANGED <<tx, opReturns>>
    BY <1>1 DEF ParseInput, ParseOddInput, LoseInput, outputs
  <2>2. Past' = Past
    BY <1>a, <2>1, PlacesGrow
  <2> QED BY <1>c, <2>1, <2>2
<1>2. CASE ParseOddOutput \/ ParseOutput
  <2>1. /\ pc = "outs" /\ NextOutput /\ UNCHANGED <<tx, opReturns>>
        /\ tx.outs[i].addr \notin Data
    BY <1>2, ParserAddresses DEF ParseOddOutput, ParseOutput, outputs
  <2>2. Past' = Past \cup {i}
    BY <1>a, <2>1, PlacesGrow
  <2> QED BY <1>c, <2>1, <2>2
<1>3. CASE ParseOpReturn
  <2>1. /\ pc = "outs" /\ NextOutput /\ UNCHANGED tx /\ tx.outs[i].addr \in Data
        /\ opReturns' = Append(opReturns, tx.outs[i])
    BY <1>3 DEF ParseOpReturn
  <2>2. Past' = Past \cup {i} /\ i \notin Past /\ i \in 1 .. Len(tx.outs) /\ tx.outs[i] \in Put
    BY <1>a, <2>1, PlacesGrow, Loops
  <2>3. D' = D \cup {i} /\ i \notin D
    BY <2>1, <2>2
  <2>4. Len(opReturns') = Len(opReturns) + 1 /\ Len(opReturns) \in Nat
    BY <1>a, <2>1, <2>2
  <2>5. CASE D = {}
    <3>1. opReturns = <<>>
      BY <1>b, <2>5
    <3>2. opReturns' = <<tx.outs[i]>>
      BY <2>1, <3>1
    <3>3. D' = {i} /\ tx'.outs[i] = tx.outs[i]
      BY <2>1, <2>3, <2>5
    <3> QED BY <3>2, <3>3 DEF OpReturnsNoted
  <2>6. CASE D # {}
    <3>1. PICK j \in D : TRUE
      BY <2>6
    <3>2. j \in D' /\ i \in D' /\ i # j
      BY <2>3, <3>1
    <3>3. Len(opReturns) >= 1
      BY <1>b, <2>4, <2>6
    <3>4. Len(opReturns') > 1
      BY <2>4, <3>3
    <3> QED BY <3>2, <3>4 DEF OpReturnsNoted
  <2> QED BY <2>5, <2>6
<1>4. CASE ReportOmni \/ ReportCoin
  <2>1. /\ UNCHANGED <<tx, opReturns>> /\ pc \notin {"ins", "outs"} /\ pc' \notin {"ins", "outs"}
    BY <1>4 DEF ReportOmni, ReportCoin, outputs
  <2>2. Past' = Past
    BY <1>a, <2>1, PlacesGrow
  <2> QED BY <1>c, <2>1, <2>2
<1>5. CASE Done \/ UNCHANGED vars
  BY <1>5, <1>c DEF Done, vars, outputs, Past
<1> QED BY <1>1, <1>2, <1>3, <1>4, <1>5 DEF Next

\* What was reported of it comes before the messages about coins.
OmniTold ==
    /\ pc = "coin" => messages = OmniMessages
    /\ pc = "done" => messages = OmniMessages \o CoinMessages

LEMMA OmniToldNext == OmniTold /\ [Next]_vars => OmniTold'
<1> SUFFICES ASSUME OmniTold, [Next]_vars PROVE OmniTold'
  OBVIOUS
<1>a. ASSUME UNCHANGED <<inputs, outputs>>
      PROVE  OmniMessages' = OmniMessages /\ CoinMessages' = CoinMessages
  BY <1>a DEF inputs, outputs, OmniMessages, OmniType, CoinMessages, Deposits, Withdraws, Collects,
              Each, Coin
<1> HIDE DEF OmniMessages, CoinMessages
<1>1. CASE ParseInput \/ ParseOddInput \/ LoseInput
  BY <1>1 DEF ParseInput, ParseOddInput, LoseInput, NextInput, OmniTold
<1>2. CASE ParseOpReturn \/ ParseOddOutput \/ ParseOutput
  BY <1>2 DEF ParseOpReturn, ParseOddOutput, ParseOutput, NextOutput, OmniTold
<1>3. CASE ReportOmni
  BY <1>3, <1>a DEF ReportOmni, OmniTold
<1>4. CASE ReportCoin
  BY <1>4, <1>a DEF ReportCoin, OmniTold
<1>5. CASE Done \/ UNCHANGED vars
  BY <1>5, <1>a DEF Done, vars, OmniTold
<1> QED BY <1>1, <1>2, <1>3, <1>4, <1>5 DEF Next

-----------------------------------------------------------------------------
ParserInv ==
    /\ TypeOK /\ InputsRead /\ ReceiverChosen /\ Reported
    /\ OpReturnsNoted /\ OmniTold
    /\ FeeCounted /\ InputsNoted /\ OutputsNoted /\ OutputsListed
    /\ CoinsLast /\ CoinsTold /\ LedgerBalances

LEMMA CountsInit ==
    Init => /\ FeeCounted /\ InputsNoted /\ OutputsNoted /\ OutputsListed
            /\ CoinsLast /\ CoinsTold /\ LedgerBalances /\ OpReturnsNoted /\ OmniTold
<1> SUFFICES ASSUME Init
             PROVE  /\ FeeCounted /\ InputsNoted /\ OutputsNoted /\ OutputsListed
                    /\ CoinsLast /\ CoinsTold /\ LedgerBalances /\ OpReturnsNoted /\ OmniTold
  OBVIOUS
<1>a. TxOK /\ tx.ins \in Seq(In) /\ tx.outs \in Seq(Put) /\ Read = {} /\ Past = {}
  BY TypesInit DEF TypeOK, TxOK, Init, Read, Past
<1>1. \A K : Worth(tx.ins, {}) = 0 /\ Worth(tx.outs, K \cap {}) = 0 /\ Worth(tx.outs, {}) = 0
  BY <1>a, AmountsFact, PartNone DEF Worth
<1>2. Held(<<>>, outputValue) = <<>>
  BY DEF Held
<1>3. FeeCounted /\ InputsNoted
  BY <1>a, <1>1 DEF Init, FeeCounted, InputsNoted
<1>4. OutputsNoted /\ OutputsListed
  <2>1. Len(outputAddrs) = 0 /\ Len(outputAddrs2) = 0
    BY DEF Init
  <2> QED BY <1>a, <1>1, <1>2, <2>1, SumEmpty DEF Init, OutputsNoted, OutputsListed
<1>5. OpReturnsNoted /\ OmniTold
  BY <1>a DEF Init, OpReturnsNoted, OmniTold
<1> QED BY <1>3, <1>4, <1>5 DEF Init, CoinsLast, CoinsTold, LedgerBalances, Known

\* The balance is told by the last step, and nothing changes afterwards.
LEMMA LedgerNext == ParserInv /\ [Next]_vars => LedgerBalances'
<1> SUFFICES ASSUME ParserInv, [Next]_vars PROVE LedgerBalances'
  OBVIOUS
<1>1. CASE ReportCoin
  <2>1. ASSUME (Known /\ Distinct /\ Plain)' PROVE lost = {} /\ Distinct /\ Plain
    BY <1>1, <2>1 DEF ReportCoin, Known, Distinct, Plain, Ours
  <2> QED BY <1>1, <2>1, CoinsBalance DEF ParserInv, LedgerBalances
<1>2. CASE Done \/ UNCHANGED vars
  BY <1>2 DEF ParserInv, Done, vars, inputs, outputs, LedgerBalances, Known, Distinct, Plain, Ours,
         Worth, Booked
<1>3. CASE ~(ReportCoin \/ Done \/ UNCHANGED vars)
  BY <1>3, NotDone DEF LedgerBalances, Known
<1> QED BY <1>1, <1>2, <1>3

LEMMA ParserInvariant == Spec => []ParserInv
<1>1. Init => ParserInv
  <2> SUFFICES ASSUME Init PROVE ParserInv
    OBVIOUS
  <2>1. ReceiverChosen /\ Reported
    BY DEF Init, ReceiverChosen, Reported
  <2> QED BY <2>1, TypesInit, InputsReadInit, CountsInit DEF ParserInv
<1>2. ParserInv /\ [Next]_vars => ParserInv'
  <2> SUFFICES ASSUME ParserInv, [Next]_vars PROVE ParserInv'
    OBVIOUS
  <2>1. TypeOK' /\ InputsRead' /\ ReceiverChosen' /\ Reported'
    BY TypesNext, InputsReadNext, ReceiverChosenNext, ReportedNext DEF ParserInv
  <2>2. /\ FeeCounted' /\ InputsNoted' /\ OutputsNoted' /\ OutputsListed'
        /\ CoinsLast' /\ CoinsTold' /\ LedgerBalances' /\ OpReturnsNoted' /\ OmniTold'
    BY FeeCountedNext, InputsNotedNext, OutputsNotedNext, OutputsListedNext, CoinsLastNext,
       CoinsToldNext, LedgerNext, OpReturnsNotedNext, OmniToldNext DEF ParserInv
  <2> QED BY <2>1, <2>2 DEF ParserInv
<1> QED BY <1>1, <1>2, PTL DEF Spec

\* What is reported of a transaction that the wallet or others make alone is
\* what it changes in the wallet's balance, whatever its inputs and outputs.
THEOREM LedgerBalancesCorrect == Spec => []LedgerBalances
<1>1. ParserInv => LedgerBalances
  BY DEF ParserInv
<1> QED BY <1>1, ParserInvariant, PTL

\* A user's withdrawal is paid by the hot wallet and by nobody else, whatever
\* the transaction looks like, unless an input of it could not be read.
THEOREM UserWithdrawIsHotCorrect == Spec => []UserWithdrawIsHot
<1>1. ParserInv => UserWithdrawIsHot
  <2> DEFINE from == {o.addr : o \in ToSet(tx.ins)}
  <2> SUFFICES ASSUME ParserInv, Known, NEW k \in DOMAIN messages,
                      messages[k].type = "USER_WITHDRAW"
               PROVE  IF messages[k].coin = "USDT" THEN tx.ins[1].addr \in InnAddrs
                      ELSE from \cap InnAddrs # {} /\ from \subseteq InnAddrs \cup {Odd}
    BY DEF UserWithdrawIsHot, ToSet
  <2>a. TxOK /\ messages \in Seq(Msg) /\ InputsRead /\ Reported /\ InputsNoted /\ lost = {}
    BY DEF ParserInv, TypeOK, Known
  <2>b. /\ Len(tx.ins) \in Nat /\ 1 \in 1 .. Len(tx.ins) /\ DOMAIN tx.ins = 1 .. Len(tx.ins)
        /\ Read = 1 .. Len(tx.ins)
    BY <2>a, ParserBounds DEF TxOK, Known, Read
  <2>1. CASE messages[k].coin = "USDT"
    <3>1. OmniType = "USER_WITHDRAW"
      BY <2>a, <2>1 DEF Reported
    <3>2. omniSender \in InnAddrs
      BY <3>1 DEF OmniType, OurAddrs
    <3>3. omniSender = tx.ins[1].addr
      BY <2>a, <2>b, <3>2, ParserAddresses DEF InputsRead, Known, Real, OurAddrs
    <3> QED BY <2>1, <3>2, <3>3
  <2>2. CASE messages[k].coin # "USDT"
    <3>1. messages[k] \in Msg
      BY <2>a
    <3>2. messages[k].coin = "BTC"
      BY <2>2, <3>1 DEF Msg
    <3>3. extInputs = 0 /\ inputAddrs # <<>> /\ inputAddrs2 = <<>>
      BY <2>a, <2>2, <3>2 DEF Reported
    <3>4. \A j \in DOMAIN tx.ins : tx.ins[j].addr \notin ExtAddrs
      BY <2>a, <2>b, <3>3 DEF InputsRead
    <3>5. \A j \in DOMAIN tx.ins : tx.ins[j].addr \in OurAddrs \cup {Odd}
      <4>1. \A j \in DOMAIN tx.ins : tx.ins[j].addr \in Real \cup {Odd}
        <5>1. \A j \in DOMAIN tx.ins : tx.ins[j] \in In
          BY <2>a, <2>b DEF TxOK
        <5> QED BY <5>1 DEF In
      <4>2. \A j \in Read : tx.ins[j].addr \notin Real \ OurAddrs
        BY <2>a, <3>3 DEF InputsNoted
      <4> QED BY <2>b, <4>1, <4>2
    <3>6. PICK j \in Read : j \in Ours(tx.ins)
      BY <2>a, <3>3 DEF InputsNoted
    <3>7. tx.ins[j].addr \in InnAddrs /\ tx.ins[j].addr \in from
      BY <2>b, <3>4, <3>6 DEF Ours, OurAddrs, ToSet
    <3>8. from \subseteq InnAddrs \cup {Odd}
      BY <3>4, <3>5 DEF OurAddrs, ToSet
    <3> QED BY <2>2, <3>7, <3>8
  <2> QED BY <2>1, <2>2
<1> QED BY <1>1, ParserInvariant, PTL

\* With every input read, the sender and the receiver found are those of the
\* protocol.
LEMMA Parties ==
    ASSUME ParserInv, Known
    PROVE  LET s == tx.ins[1].addr
           IN  /\ omniReceiver = Credited(s)
               /\ omniSender \in OurAddrs <=> s \in OurAddrs
<1> DEFINE s == tx.ins[1].addr
           own == {j \in 1 .. Len(tx.outs) : tx.outs[j].addr \in {s} \cap Real}
           others == {j \in 1 .. Len(tx.outs) : tx.outs[j].addr \in Real \ {s}}
           last == CHOOSE j \in others : \A l \in others : l <= j
<1>a. TxOK /\ InputsRead /\ ReceiverChosen /\ pc = "done" /\ lost = {}
  BY DEF ParserInv, TypeOK, Known
<1>b. /\ 1 \in Read /\ s \in Real \cup {Odd} /\ To \subseteq Int
      /\ Odd \notin Real /\ NoAddr \notin Real
  <2>1. Len(tx.ins) \in Nat /\ Len(tx.ins) >= 1 /\ tx.ins \in Seq(In) /\ Len(tx.outs) \in Nat
    BY <1>a, ParserBounds DEF TxOK
  <2>2. tx.ins[1] \in In /\ 1 \in Read
    BY <1>a, <2>1 DEF Read
  <2> QED BY <2>1, <2>2, ParserAddresses DEF In, To
<1>c. omniSender = IF s # Odd THEN s ELSE NoAddr
  BY <1>a, <1>b DEF InputsRead
<1>1. omniSender \in OurAddrs <=> s \in OurAddrs
  BY <1>b, <1>c DEF Real
<1>2. others = To \ Sent /\ own = Sent /\ own \subseteq To
  BY <1>b, <1>c DEF To, Sent
<1>3. CASE omniReceiver = NoAddr
  <2>1. Undecided /\ Seen = To
    BY <1>a, <1>3 DEF ReceiverChosen, Seen
  <2>2. others = {} /\ \A j, l \in own : j = l
    BY <1>2, <2>1 DEF Undecided
  <2> HIDE DEF own, others
  <2>3. Credited(s) = NoAddr
    BY <2>2 DEF Credited, own, others
  <2> QED BY <1>1, <1>3, <2>3
<1>4. CASE omniReceiver # NoAddr
  <2>1. PICK j \in To : DecidedAt(j)
    BY <1>a, <1>4 DEF ReceiverChosen, Seen
  <2>2. CASE j \notin Sent
    <3>1. j \in others /\ \A l \in others : l <= j
      BY <1>b, <1>2, <2>1, <2>2 DEF DecidedAt
    <3>2. \A l \in others : (\A l2 \in others : l2 <= l) => l = j
      BY <1>b, <1>2, <3>1
    <3>3. last = j
      BY <3>1, <3>2
    <3>4. \A l, l2 \in own : l > last /\ l2 > last => l = l2
      BY <1>b, <1>2, <2>1, <3>3 DEF DecidedAt
    <3>5. Credited(s) = tx.outs[j].addr
      BY <3>1, <3>3, <3>4 DEF Credited
    <3> QED BY <1>1, <2>1, <3>5 DEF DecidedAt
  <2>3. CASE j \in Sent
    <3>1. PICK l \in To : l > j
      BY <2>1, <2>3 DEF DecidedAt
    <3>2. j \in own /\ l \in own /\ omniReceiver = s /\ j # l
      BY <1>b, <1>2, <2>1, <2>3, <3>1 DEF DecidedAt, Sent
    <3>3. \A x \in others : x < j
      BY <1>b, <1>2, <2>1, <2>3 DEF DecidedAt
    <3>4. ASSUME others # {} PROVE last \in others
      <4>1. others \subseteq 1 .. Len(tx.outs) /\ Len(tx.outs) \in Nat
        BY <1>a, ParserBounds DEF TxOK
      <4>2. \E x \in others : \A y \in others : y <= x
        BY <3>4, <4>1, GreatestElement
      <4> QED BY <4>2
    <3>5. others # {} => last < j /\ last < l
      <4>1. \A x \in others : x < l
        BY <1>b, <1>2, <3>1, <3>3
      <4> HIDE DEF last
      <4> QED BY <3>3, <3>4, <4>1
    <3>6. Credited(s) = s
      BY <3>2, <3>5 DEF Credited
    <3> QED BY <1>1, <3>2, <3>6
  <2> QED BY <2>2, <2>3
<1> QED BY <1>3, <1>4

\* The only OP_RETURN output, if it transfers USDT, is the one noted.
LEMMA TransfersFact ==
    ASSUME ParserInv, Known
    PROVE  /\ Transfers # {} <=> Len(opReturns) = 1 /\ opReturns[1].addr = Usdt
           /\ \A j \in Transfers : opReturns[1] = tx.outs[j]
<1> DEFINE D == {j \in Past : tx.outs[j].addr \in Data}
<1>1. Past = 1 .. Len(tx.outs) /\ OpReturnsNoted /\ Usdt \in Data /\ opReturns \in Seq(Put)
  BY DEF ParserInv, Known, Past, Data, TypeOK, OutputsOK
<1>2. /\ Transfers = {j \in D : tx.outs[j].addr = Usdt /\ \A l \in D : l = j}
      /\ \/ D = {} /\ opReturns = <<>>
         \/ \E j \in D : D = {j} /\ opReturns = <<tx.outs[j]>>
         \/ Len(opReturns) > 1 /\ \E j, l \in D : j # l
  BY <1>1 DEF Transfers, OpReturnsNoted
<1> HIDE DEF D
<1>3. CASE D = {} /\ opReturns = <<>>
  BY <1>2, <1>3
<1>4. CASE \E j \in D : D = {j} /\ opReturns = <<tx.outs[j]>>
  <2>1. PICK j \in D : D = {j} /\ opReturns = <<tx.outs[j]>>
    BY <1>4
  <2>2. Len(opReturns) = 1 /\ opReturns[1] = tx.outs[j]
    BY <2>1
  <2>3. Transfers = IF tx.outs[j].addr = Usdt THEN {j} ELSE {}
    BY <1>2, <2>1
  <2> QED BY <2>2, <2>3
<1>5. CASE Len(opReturns) > 1 /\ \E j, l \in D : j # l
  <2>1. Transfers = {}
    BY <1>2, <1>5
  <2>2. Len(opReturns) \in Nat /\ Len(opReturns) > 1
    BY <1>1, <1>5
  <2>3. \A k \in Nat : k > 1 => k # 1
    OBVIOUS
  <2>4. Len(opReturns) # 1
    BY <2>2, <2>3
  <2> QED BY <2>1, <2>4
<1> QED BY <1>2, <1>3, <1>4, <1>5

\* An Omni transfer from or to the wallet is reported as such, once, with its
\* amount, to the address the protocol credits, for any number of outputs to
\* the sender and to others; nothing else is.
THEOREM OmniIsCreditedCorrect == Spec => []OmniIsCredited
<1>1. ParserInv => OmniIsCredited
  <2> SUFFICES ASSUME ParserInv, Known PROVE OmniIsCredited
    BY DEF OmniIsCredited
  <2> DEFINE from == tx.ins[1].addr
             usdt == {k \in 1 .. Len(messages) : messages[k].coin = "USDT"}
             reported == /\ Transfers # {} /\ {from, Credited(from)} \cap OurAddrs # {}
                         /\ Credited(from) # NoAddr
  <2>a. /\ messages = OmniMessages \o CoinMessages /\ CoinMessages \in Seq(Msg)
        /\ \A k \in DOMAIN CoinMessages : CoinMessages[k].coin = "BTC"
    BY CoinMessagesFact DEF ParserInv, TypeOK, OmniTold, Known
  <2>b. omniReceiver = Credited(from) /\ (omniSender \in OurAddrs <=> from \in OurAddrs)
    BY Parties
  <2>c. /\ Transfers # {} <=> Len(opReturns) = 1 /\ opReturns[1].addr = Usdt
        /\ \A j \in Transfers : opReturns[1] = tx.outs[j]
    BY TransfersFact
  <2>d. OmniType \notin Deposit <=> omniSender \in OurAddrs
    BY DEF OmniType, Deposit
  <2>e. {omniSender, omniReceiver} \cap OurAddrs # {} <=> {from, Credited(from)} \cap OurAddrs # {}
    BY <2>b
  <2>f. OmniMessages = IF reported
                       THEN <<[coin |-> "USDT", type |-> OmniType, address |-> omniReceiver,
                               amount |-> opReturns[1].value]>>
                       ELSE <<>>
    BY <2>b, <2>c, <2>e DEF OmniMessages
  <2> HIDE DEF CoinMessages, OmniMessages, OmniType, from
  <2>1. CASE reported
    <3>1. /\ OmniMessages = <<[coin |-> "USDT", type |-> OmniType, address |-> omniReceiver,
                               amount |-> opReturns[1].value]>>
      BY <2>1, <2>f
    <3> HIDE DEF reported
    <3>2. /\ messages[1] = [coin |-> "USDT", type |-> OmniType, address |-> omniReceiver,
                            amount |-> opReturns[1].value]
          /\ Len(messages) = 1 + Len(CoinMessages) /\ Len(CoinMessages) \in Nat
          /\ \A k \in 2 .. Len(messages) : messages[k] = CoinMessages[k - 1]
      BY <2>a, <3>1
    <3>3. \A k \in 2 .. Len(messages) : messages[k].coin = "BTC"
      <4>1. \A k \in 2 .. Len(messages) : k - 1 \in DOMAIN CoinMessages
        BY <2>a, <3>2
      <4> QED BY <2>a, <3>2, <4>1
    <3>4. \A k \in 1 .. Len(messages) : k = 1 \/ k \in 2 .. Len(messages)
      BY <3>2
    <3>5. messages[1].coin = "USDT" /\ 1 \in 1 .. Len(messages)
      BY <3>2
    <3>6. usdt = {1}
      BY <3>3, <3>4, <3>5
    <3>7. \A j \in Transfers : messages[1].amount = tx.outs[j].value
      BY <2>c, <3>2
    <3>8. /\ messages[1].address = Credited(from)
          /\ messages[1].type \notin Deposit <=> from \in OurAddrs
      BY <2>b, <2>d, <3>2
    <3> QED BY <2>1, <3>6, <3>7, <3>8 DEF OmniIsCredited, from, reported
  <2>2. CASE ~reported
    <3>1. OmniMessages = <<>>
      BY <2>2, <2>f
    <3>2. messages = CoinMessages
      BY <2>a, <3>1
    <3>3. usdt = {}
      BY <2>a, <3>2
    <3> QED BY <2>2, <3>3 DEF OmniIsCredited, from
  <2> QED BY <2>1, <2>2
<1> QED BY <1>1, ParserInvariant, PTL
=============================================================================
