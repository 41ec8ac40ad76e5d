------------------------ MODULE CoinSelectionProofs ------------------------
(* Theorems about CoinSelection for every value of its constants, with       *)
(* proofs.                                                                   *)
EXTENDS CoinSelection, NumberFacts

-----------------------------------------------------------------------------
(* The operators.                                                            *)

LEMMA MinIsLeast ==
    ASSUME NEW S \in SUBSET Nat, S # {}
    PROVE  Min(S) \in S /\ \A y \in S : Min(S) <= y
  BY LeastElement DEF Min

LEMMA MaxIsGreatest ==
    ASSUME NEW n \in Nat, NEW S \in SUBSET (1 .. n), NEW x \in S, \A y \in S : x >= y
    PROVE  Max(S) = x
<1>1. Max(S) \in S /\ \A y \in S : Max(S) >= y
  BY DEF Max
<1>2. Max(S) >= x /\ x >= Max(S)
  BY <1>1
<1>3. Max(S) \in Int /\ x \in Int
  <2>1. \A y \in S : y \in Int
    OBVIOUS
  <2> QED BY <1>1, <2>1
<1> QED BY <1>2, <1>3

LEMMA FeeIsNat ==
    ASSUME NEW rate \in Nat, NEW size \in Int
    PROVE  txFee(rate, size) \in Nat
<1> DEFINE a == (size * rate) % Word32
           b == (size * TX_FEE_PER_KB) % Word32
<1>1. a \in Nat /\ b \in Nat
  BY SizeAssumption DEF SizeAssumption, TX_FEE_PER_KB
<1> HIDE DEF a, b
<1>2. ((a \div 1000 + 99) \div 100) * 100 \in Nat /\ b \div 1000 \in Nat
  BY <1>1
<1> QED BY <1>2 DEF txFee, Bigger, a, b

LEMMA MinAmountIsNat ==
    ASSUME NEW rate \in Nat
    PROVE  minOutputAmount(rate) \in Nat /\ minOutputAmount(rate) >= 546
<1> DEFINE a == (TX_MIN_OUTPUT_AMOUNT * rate) % Word32
<1>1. TX_MIN_OUTPUT_AMOUNT = 546
  BY DEF TX_MIN_OUTPUT_AMOUNT, TX_FEE_PER_KB, TX_OUTPUT_SIZE, TX_INPUT_SIZE
<1>2. a \in Nat
  BY <1>1, SizeAssumption DEF SizeAssumption
<1> HIDE DEF a
<1>3. (a + 1000 - 1) \div 1000 \in Nat
  BY <1>2
<1> QED BY <1>1, <1>3 DEF minOutputAmount, Bigger, MIN_FEE_PER_KB, a

\* If the product fits into 32 bits, the limit covers the cost of an input.
LEMMA MinAmountCovers ==
    ASSUME NEW rate \in Nat, TX_MIN_OUTPUT_AMOUNT * rate < Word32
    PROVE  minOutputAmount(rate) * 1000 >= 546 * rate
<1>1. TX_MIN_OUTPUT_AMOUNT = 546
  BY DEF TX_MIN_OUTPUT_AMOUNT, TX_FEE_PER_KB, TX_OUTPUT_SIZE, TX_INPUT_SIZE
<1> DEFINE a == 546 * rate
<1>2. a \in Nat /\ a < Word32
  BY <1>1
<1> HIDE DEF a
<1>3. a % Word32 = a
  BY <1>2, SizeAssumption DEF SizeAssumption
<1>4. ((a + 1000 - 1) \div 1000) * 1000 >= a
  BY <1>2
<1>5. minOutputAmount(rate) >= (a + 1000 - 1) \div 1000
  BY <1>1, <1>2, <1>3 DEF minOutputAmount, Bigger, MIN_FEE_PER_KB, a
<1>6. minOutputAmount(rate) \in Nat /\ (a + 1000 - 1) \div 1000 \in Nat
  BY <1>2, MinAmountIsNat
<1> QED BY <1>2, <1>4, <1>5, <1>6 DEF a

-----------------------------------------------------------------------------
(* The wallet and its sums.                                                  *)

LEMMA WalletFacts ==
    ASSUME wallet \in Wallets
    PROVE  /\ Len(wallet) \in Nat
           /\ \A p \in Places : /\ p \in Nat \ {0}
                                /\ wallet[p].addr \in WalletAddrs
                                /\ wallet[p].value \in Nat
<1>1. PICK n \in 0 .. MaxUtxos : wallet \in [1 .. n -> [addr : WalletAddrs, value : Values]]
  BY DEF Wallets
<1>2. n \in Nat /\ Len(wallet) = n
  BY <1>1
<1>3. \A p \in Places : wallet[p] \in [addr : WalletAddrs, value : Values] /\ p \in Nat \ {0}
  BY <1>1, <1>2 DEF Places
<1> QED BY <1>2, <1>3, RateAssumption DEF RateAssumption

LEMMA WorthIsInt ==
    ASSUME wallet \in Wallets, NEW S
    PROVE  Worth(S) \in Int
<1>1. [p \in Places |-> IF p \in S THEN wallet[p].value ELSE 0] \in Seq(Int)
  BY WalletFacts DEF Places
<1> QED BY <1>1, SumIsInt DEF Worth

LEMMA WorthGrows ==
    ASSUME wallet \in Wallets, NEW S, NEW p \in Places \ S
    PROVE  Worth(S \cup {p}) = Worth(S) + wallet[p].value
<1> DEFINE v == [q \in Places |-> IF q \in S THEN wallet[q].value ELSE 0]
           w == [q \in Places |-> IF q \in S \cup {p} THEN wallet[q].value ELSE 0]
<1>1. v \in Seq(Int) /\ w \in Seq(Int) /\ Len(v) = Len(wallet) /\ Len(w) = Len(wallet)
  BY WalletFacts DEF Places
<1>2. p \in 1 .. Len(v) /\ v[p] = 0 /\ w[p] = wallet[p].value /\ wallet[p].value \in Int
  BY <1>1, WalletFacts DEF Places
<1>3. \A i \in 1 .. Len(v) : i # p => w[i] = v[i]
  BY <1>1 DEF Places
<1>4. Worth(S) = SumOf(v) /\ Worth(S \cup {p}) = SumOf(w)
  BY DEF Worth
<1> HIDE DEF v, w
<1>5. SumOf(w) = SumOf(v) + (w[p] - v[p])
  BY <1>1, <1>2, <1>3, SumChanged
<1> QED BY <1>2, <1>4, <1>5

LEMMA WorthMonotone ==
    ASSUME wallet \in Wallets, NEW S, NEW T, S \subseteq T
    PROVE  Worth(S) <= Worth(T)
<1> DEFINE v == [q \in Places |-> IF q \in S THEN wallet[q].value ELSE 0]
           w == [q \in Places |-> IF q \in T THEN wallet[q].value ELSE 0]
<1>1. v \in Seq(Int) /\ w \in Seq(Int) /\ Len(v) = Len(wallet) /\ Len(w) = Len(wallet)
  BY WalletFacts DEF Places
<1>2. \A i \in 1 .. Len(v) : v[i] <= w[i]
  BY <1>1, WalletFacts DEF Places
<1>3. Worth(S) = SumOf(v) /\ Worth(T) = SumOf(w)
  BY DEF Worth
<1> HIDE DEF v, w
<1> QED BY <1>1, <1>2, <1>3, SumMonotone

LEMMA WorthOfNone ==
    ASSUME wallet \in Wallets
    PROVE  Worth({}) = 0
<1> DEFINE v == [q \in Places |-> 0]
<1>1. v \in Seq(Int) /\ Len(v) = Len(wallet) /\ \A i \in 1 .. Len(v) : v[i] = 0
  BY WalletFacts DEF Places
<1>2. Worth({}) = SumOf(v)
  BY DEF Worth
<1> HIDE DEF v
<1> QED BY <1>1, <1>2, SumOfZeros

LEMMA TotalIsInt ==
    ASSUME wallet \in Wallets, NEW s \in Seq(Places)
    PROVE  Total(s) \in Int
<1>1. [i \in 1 .. Len(s) |-> wallet[s[i]].value] \in Seq(Int)
  BY WalletFacts DEF Places
<1> QED BY <1>1, SumIsInt DEF Total

LEMMA TotalAppend ==
    ASSUME wallet \in Wallets, NEW s \in Seq(Places), NEW p \in Places
    PROVE  Total(Append(s, p)) = Total(s) + wallet[p].value
<1> DEFINE v == [i \in 1 .. Len(s) |-> wallet[s[i]].value]
           w == [i \in 1 .. Len(Append(s, p)) |-> wallet[Append(s, p)[i]].value]
<1>1. v \in Seq(Int) /\ wallet[p].value \in Int
  BY WalletFacts DEF Places
<1>2. w = Append(v, wallet[p].value)
  <2>1. Append(v, wallet[p].value) =
          [i \in 1 .. Len(s) + 1 |-> IF i = Len(s) + 1 THEN wallet[p].value ELSE v[i]]
    OBVIOUS
  <2>2. \A i \in 1 .. Len(s) + 1 :
          wallet[Append(s, p)[i]].value = IF i = Len(s) + 1 THEN wallet[p].value ELSE v[i]
    OBVIOUS
  <2>3. Len(Append(s, p)) = Len(s) + 1
    OBVIOUS
  <2> QED BY <2>1, <2>2, <2>3
<1>3. Total(s) = SumOf(v) /\ Total(Append(s, p)) = SumOf(w)
  BY DEF Total
<1> HIDE DEF v, w
<1> QED BY <1>1, <1>2, <1>3, SumAppend

LEMMA TotalEmpty == Total(<<>>) = 0
<1>1. [i \in 1 .. Len(<<>>) |-> wallet[<<>>[i]].value] = <<>>
  OBVIOUS
<1> QED BY <1>1, SumEmpty DEF Total

LEMMA SumOutAppend ==
    ASSUME NEW A, NEW s \in Seq([addr : A, amount : Int]), NEW o \in [addr : A, amount : Int]
    PROVE  SumOut(s) \in Int /\ SumOut(Append(s, o)) = SumOut(s) + o.amount
<1> DEFINE v == [i \in 1 .. Len(s) |-> s[i].amount]
           w == [i \in 1 .. Len(Append(s, o)) |-> Append(s, o)[i].amount]
<1>1. v \in Seq(Int) /\ o.amount \in Int
  <2> DEFINE R == [addr : A, amount : Int]
  <2>1. s \in Seq(R) /\ \A x \in R : x.amount \in Int
    OBVIOUS
  <2> HIDE DEF R
  <2>2. \A i \in 1 .. Len(s) : s[i] \in R
    BY <2>1
  <2>3. \A i \in 1 .. Len(s) : s[i].amount \in Int
    BY <2>1, <2>2
  <2>4. o.amount \in Int
    OBVIOUS
  <2> QED BY <2>3, <2>4
<1>2. w = Append(v, o.amount)
  <2>1. Append(v, o.amount) =
          [i \in 1 .. Len(s) + 1 |-> IF i = Len(s) + 1 THEN o.amount ELSE v[i]]
    OBVIOUS
  <2>2. \A i \in 1 .. Len(s) + 1 :
          Append(s, o)[i].amount = IF i = Len(s) + 1 THEN o.amount ELSE v[i]
    OBVIOUS
  <2>3. Len(Append(s, o)) = Len(s) + 1
    OBVIOUS
  <2> QED BY <2>1, <2>2, <2>3
<1>3. SumOut(s) = SumOf(v) /\ SumOut(Append(s, o)) = SumOf(w)
  BY DEF SumOut
<1> HIDE DEF v, w
<1> QED BY <1>1, <1>2, <1>3, SumAppend, SumIsInt

LEMMA SumOutEmpty == SumOut(<<>>) = 0
<1>1. [i \in 1 .. Len(<<>>) |-> <<>>[i].amount] = <<>>
  OBVIOUS
<1> QED BY <1>1, SumEmpty DEF SumOut

-----------------------------------------------------------------------------
(* The requests.                                                             *)

Outputs == [addr : WalletAddrs \cup {Payee, Data}, amount : Int]
AllOutputs == [addr : WalletAddrs \cup {Payee, Data, Fresh}, amount : Int]

LEMMA RequestIsOneOf ==
    ASSUME req \in Requests
    PROVE  \/ \E v \in Amounts, r \in FeeRates : req = SendCoin(v, r)
           \/ \E t \in {Payee} \cup InnAddrs, v \in Amounts, r \in FeeRates :
                 req = PrepareTrezorSign(t, v, r)
           \/ \E f \in WalletAddrs, r \in FeeRates : req = SendOmniCoin(f, Payee, r)
           \/ \E f \in WalletAddrs, t \in {Payee} \cup InnAddrs, r \in FeeRates :
                 req = PrepareOmniTrezorSign(f, t, r)
  BY DEF Requests

LEMMA OutIsOutput ==
    ASSUME NEW a \in WalletAddrs \cup {Payee, Data}, NEW v \in Int
    PROVE  Out(a, v) \in Outputs
  BY DEF Out, Outputs

\* A coin request has one output and no sender, an Omni request the payload,
\* the receiver's output and a sender.
LEMMA RequestKinds ==
    ASSUME req \in Requests
    PROVE  \/ /\ req.sender = NoAddr /\ req.tiny = FALSE /\ req.swap = FALSE
              /\ \E t \in {Payee} \cup InnAddrs, v \in Int : req.outs = <<Out(t, v)>>
           \/ /\ req.sender \in WalletAddrs /\ req.tiny = TRUE
              /\ \E t \in {Payee} \cup InnAddrs : req.outs = <<Out(Data, 0), Out(t, Tiny)>>
              /\ req.swap = (req.change = Fresh)
<1>1. CASE \E v \in Amounts, r \in FeeRates : req = SendCoin(v, r)
  BY <1>1, RateAssumption DEF RateAssumption, SendCoin
<1>2. CASE \E t \in {Payee} \cup InnAddrs, v \in Amounts, r \in FeeRates :
             req = PrepareTrezorSign(t, v, r)
  <2>1. PICK t \in {Payee} \cup InnAddrs, v \in Amounts, r \in FeeRates :
             req = PrepareTrezorSign(t, v, r)
    BY <1>2
  <2> QED BY <2>1, RateAssumption DEF RateAssumption, PrepareTrezorSign
<1>3. CASE \E f \in WalletAddrs, r \in FeeRates : req = SendOmniCoin(f, Payee, r)
  <2>1. PICK f \in WalletAddrs, r \in FeeRates : req = SendOmniCoin(f, Payee, r)
    BY <1>3
  <2>2. NoAddr # Fresh
    BY AddressAssumption DEF AddressAssumption
  <2> QED BY <2>1, <2>2 DEF SendOmniCoin
<1>4. CASE \E f \in WalletAddrs, t \in {Payee} \cup InnAddrs, r \in FeeRates :
             req = PrepareOmniTrezorSign(f, t, r)
  <2>1. PICK f \in WalletAddrs, t \in {Payee} \cup InnAddrs, r \in FeeRates :
             req = PrepareOmniTrezorSign(f, t, r)
    BY <1>4
  <2> QED BY <2>1 DEF PrepareOmniTrezorSign
<1> QED BY <1>1, <1>2, <1>3, <1>4, RequestIsOneOf

LEMMA RequestTyped ==
    ASSUME req \in Requests
    PROVE  req \in Request /\ req.rate \in Nat /\ req.outs \in Seq(Outputs)
<1>1. \A t \in {Payee} \cup InnAddrs, v \in Int : <<Out(t, v)>> \in Seq(Outputs)
  BY OutIsOutput DEF WalletAddrs
<1>2. \A t \in {Payee} \cup InnAddrs : <<Out(Data, 0), Out(t, Tiny)>> \in Seq(Outputs)
  BY OutIsOutput DEF WalletAddrs, Tiny
<1> DEFINE Type == [sender : WalletAddrs \cup {NoAddr}, outs : Seq(Outputs),
                    change : {NoAddr, Fresh}, inner : BOOLEAN, tiny : BOOLEAN,
                    rate : FeeRates, swap : BOOLEAN]
<1>3. req \in Type
  <2>1. CASE \E v \in Amounts, r \in FeeRates : req = SendCoin(v, r)
    BY <1>1, <2>1, RateAssumption DEF RateAssumption, SendCoin
  <2>2. CASE \E t \in {Payee} \cup InnAddrs, v \in Amounts, r \in FeeRates :
               req = PrepareTrezorSign(t, v, r)
    <3>1. PICK t \in {Payee} \cup InnAddrs, v \in Amounts, r \in FeeRates :
               req = PrepareTrezorSign(t, v, r)
      BY <2>2
    <3> QED BY <1>1, <3>1, RateAssumption DEF RateAssumption, PrepareTrezorSign
  <2>3. CASE \E f \in WalletAddrs, r \in FeeRates : req = SendOmniCoin(f, Payee, r)
    BY <1>2, <2>3 DEF SendOmniCoin
  <2>4. CASE \E f \in WalletAddrs, t \in {Payee} \cup InnAddrs, r \in FeeRates :
               req = PrepareOmniTrezorSign(f, t, r)
    <3>1. PICK f \in WalletAddrs, t \in {Payee} \cup InnAddrs, r \in FeeRates :
               req = PrepareOmniTrezorSign(f, t, r)
      BY <2>4
    <3> QED BY <1>2, <3>1 DEF PrepareOmniTrezorSign
  <2> QED BY <2>1, <2>2, <2>3, <2>4, RequestIsOneOf
<1>4. Type = Request
  BY DEF Request, Outputs
<1>5. req.rate \in FeeRates /\ req.outs \in Seq(Outputs)
  BY <1>3
<1> HIDE DEF Type
<1> QED BY <1>3, <1>4, <1>5, RateAssumption DEF RateAssumption

LEMMA AmountsTyped ==
    ASSUME req \in Requests
    PROVE  /\ amount \in Int
           /\ minAmount \in Nat /\ minAmount >= 546
           /\ req.sender # NoAddr => amount = Tiny
<1>1. amount \in Int
  <2>1. req.outs \in Seq([addr : WalletAddrs \cup {Payee, Data}, amount : Int])
    BY RequestTyped DEF Outputs
  <2>2. Out(Data, 0) \in [addr : WalletAddrs \cup {Payee, Data}, amount : Int]
    BY DEF Out
  <2> QED BY <2>1, <2>2, SumOutAppend DEF amount
<1>2. minAmount \in Nat /\ minAmount >= 546
  BY RequestTyped, MinAmountIsNat DEF minAmount
<1>3. ASSUME req.sender # NoAddr PROVE amount = Tiny
  <2>1. PICK t \in {Payee} \cup InnAddrs : req.outs = <<Out(Data, 0), Out(t, Tiny)>>
    BY <1>3, RequestKinds
  <2> DEFINE R == [addr : WalletAddrs \cup {Payee, Data}, amount : Int]
             a == Out(Data, 0)
             b == Out(t, Tiny)
  <2>2. a \in R /\ b \in R /\ a.amount = 0 /\ b.amount = Tiny /\ Tiny \in Int
    BY OutIsOutput DEF Outputs, WalletAddrs, Tiny, Out
  <2>3. req.outs = Append(Append(<<>>, a), b)
    BY <2>1
  <2> HIDE DEF a, b
  <2>4. SumOut(Append(<<>>, a)) = 0 + a.amount
    <3>1. <<>> \in Seq(R)
      OBVIOUS
    <3>2. SumOut(Append(<<>>, a)) = SumOut(<<>>) + a.amount
      BY <2>2, <3>1, SumOutAppend
    <3> QED BY <3>2, SumOutEmpty
  <2>5. SumOut(Append(Append(<<>>, a), b)) = SumOut(Append(<<>>, a)) + b.amount
    <3>1. Append(<<>>, a) \in Seq(R)
      BY <2>2
    <3> HIDE DEF R
    <3> QED BY <2>2, <3>1, SumOutAppend DEF R
  <2> QED BY <2>2, <2>3, <2>4, <2>5 DEF amount
<1> QED BY <1>1, <1>2, <1>3

-----------------------------------------------------------------------------
(* The inductive invariant.                                                  *)

Taken == ToSet(ins)
Sender == {used} \ {0}
Due == txFee(req.rate, SizeWithChange(Len(ins)))

\* What may be spent: without tiny utxos, if there is a sender.
Spendable ==
    {p \in Fetched : wallet[p].value > Tiny \/ (req.sender = NoAddr /\ req.tiny)}

\* The request is one of the four, and nothing is returned before the end.
RequestOK ==
    /\ req \in Requests
    /\ pc # "done" => result = "none"
    /\ pc \notin {"fetch", "done"} => outs = req.outs

\* Until the loop starts.
StartOK ==
    /\ pc \in {"fetch", "collect"} => k = 1 /\ ins = <<>>
    /\ pc = "collect" => utxos = Fetched /\ Fetched # {}

\* The inputs are the sender's utxo and all that the loop has looked at.
InputsOK ==
    /\ IsInjective(ins)
    /\ pc \in {"select", "finish"} =>
        /\ utxos = IF req.sender # NoAddr THEN Spendable ELSE Fetched
        /\ Sender \subseteq Fetched
        /\ Taken = {p \in utxos : p < k} \cup Sender
        /\ req.sender = NoAddr /\ ins = <<>> => pc = "select" /\ Ahead # {}

\* What the code adds up, of the inputs and of all it could spend.
SumsOK ==
    pc \in {"select", "finish"} =>
        /\ balance = Total(ins)
        /\ balance = Worth(Taken)
        /\ totalBalance = Worth(utxos \cup Sender)
        /\ feeAmount \in {Due, RoundOff(Due)}
        /\ pc = "finish" => balance >= amount + feeAmount \/ Ahead = {}

\* The inductive invariant of the selection.
SelectionInv == TypeOK /\ RequestOK /\ StartOK /\ InputsOK /\ SumsOK

LEMMA AppendTaken ==
    ASSUME NEW S, NEW s \in Seq(S), NEW p \in S
    PROVE  /\ Append(s, p) \in Seq(S)
           /\ ToSet(Append(s, p)) = ToSet(s) \cup {p}
           /\ IsInjective(s) /\ p \notin ToSet(s) => IsInjective(Append(s, p))
<1> DEFINE t == Append(s, p)
<1>1. /\ t \in Seq(S) /\ Len(s) \in Nat
      /\ DOMAIN s = 1 .. Len(s) /\ DOMAIN t = 1 .. Len(s) + 1
      /\ \A i \in 1 .. Len(s) : t[i] = s[i]
      /\ t[Len(s) + 1] = p
  OBVIOUS
<1>2. 1 .. Len(s) + 1 = (1 .. Len(s)) \cup {Len(s) + 1}
  BY <1>1
<1> HIDE DEF t
<1>3. ToSet(t) = ToSet(s) \cup {p}
  BY <1>1, <1>2 DEF ToSet
<1>4. ASSUME IsInjective(s), p \notin ToSet(s) PROVE IsInjective(t)
  <2>1. ASSUME NEW a \in DOMAIN t, NEW b \in DOMAIN t, t[a] = t[b] PROVE a = b
    BY <1>1, <1>2, <1>4, <2>1 DEF ToSet, IsInjective
  <2> QED BY <2>1 DEF IsInjective
<1> QED BY <1>1, <1>3, <1>4 DEF t

\* The loop reads the first utxo it has not looked at.
LEMMA ReadsNext ==
    ASSUME TypeOK, Ahead # {}
    PROVE  /\ At \in utxos /\ At \in Places /\ At \in Nat /\ k <= At
           /\ At + 1 \in 1 .. Len(wallet) + 1
           /\ {p \in utxos : p < At + 1} = {p \in utxos : p < k} \cup {At}
<1>1. Len(wallet) \in Nat /\ k \in Nat /\ \A p \in utxos : p \in Nat /\ p \in Places
  <2>1. wallet \in Wallets /\ k \in 1 .. Len(wallet) + 1 /\ utxos \subseteq Places
    BY DEF TypeOK
  <2>2. Len(wallet) \in Nat
    BY <2>1, WalletFacts
  <2> QED BY <2>1, <2>2 DEF Places
<1>2. Ahead \in SUBSET Nat /\ \A p \in Ahead : p \in utxos /\ k <= p
  BY <1>1 DEF Ahead
<1>3. At \in Ahead /\ \A p \in Ahead : At <= p
  BY <1>2, MinIsLeast DEF At
<1>4. At \in utxos /\ At \in Nat /\ k <= At /\ At \in Places
  BY <1>1, <1>2, <1>3
<1>5. At + 1 \in 1 .. Len(wallet) + 1
  BY <1>1, <1>4 DEF Places
<1>6. ASSUME NEW p \in utxos PROVE p < At + 1 <=> p < k \/ p = At
  <2>1. p \in Nat /\ (k <= p => At <= p)
    BY <1>1, <1>3 DEF Ahead
  <2> QED BY <1>1, <1>4, <2>1
<1>7. {p \in utxos : p < At + 1} = {p \in utxos : p < k} \cup {At}
  BY <1>4, <1>6
<1> QED BY <1>4, <1>5, <1>7

LEMMA FeesTyped ==
    ASSUME RequestOK, TypeOK
    PROVE  /\ \A n \in Nat : txFee(req.rate, SizeWithChange(n)) \in Nat
           /\ \A fee \in Nat : /\ RoundOff(fee) \in Nat
                               /\ fee <= RoundOff(fee) /\ RoundOff(fee) < fee + 100
                               /\ RoundOff(fee) = fee \/ amount + RoundOff(fee) <= totalBalance
<1>1. \A n \in Nat : SizeWithChange(n) \in Int
  <2>1. req.outs \in Seq(Outputs)
    BY RequestTyped DEF RequestOK
  <2>2. [i \in 1 .. Len(req.outs) |-> OutSize(req.outs[i])] \in Seq(Int)
    BY <2>1 DEF OutSize, TX_OUTPUT_SIZE
  <2>3. SumOf([i \in 1 .. Len(req.outs) |-> OutSize(req.outs[i])]) \in Int
    BY <2>2, SumIsInt
  <2> QED BY <2>3 DEF SizeWithChange, SerializeSize, VarIntSize, TX_OUTPUT_SIZE
<1>2. \A n \in Nat : txFee(req.rate, SizeWithChange(n)) \in Nat
  BY <1>1, RequestTyped, FeeIsNat DEF RequestOK
<1>3. ASSUME NEW fee \in Nat
      PROVE  /\ RoundOff(fee) \in Nat
             /\ fee <= RoundOff(fee) /\ RoundOff(fee) < fee + 100
             /\ RoundOff(fee) = fee \/ amount + RoundOff(fee) <= totalBalance
  <2> DEFINE d == totalBalance - (amount + fee)
  <2>1. d \in Int /\ amount \in Int /\ totalBalance \in Int
    BY AmountsTyped DEF RequestOK, TypeOK
  <2>2. RoundOff(fee) = IF d > 0 THEN fee + (d % 100) ELSE fee
    BY <2>1 DEF RoundOff
  <2>3. d > 0 => d % 100 \in Nat /\ d % 100 < 100 /\ d % 100 <= d
    <3> HIDE DEF d
    <3> QED BY <2>1
  <2>4. CASE d > 0
    <3>1. RoundOff(fee) = fee + (d % 100)
      BY <2>2, <2>4
    <3>2. amount + fee + d = totalBalance
      BY <2>1
    <3> DEFINE m == d % 100
    <3>3. m \in Nat /\ m < 100 /\ m <= d /\ RoundOff(fee) = fee + m
      BY <2>3, <2>4, <3>1
    <3> HIDE DEF m, d
    <3> QED BY <2>1, <3>2, <3>3
  <2>5. CASE ~(d > 0)
    BY <2>2, <2>5
  <2> QED BY <2>4, <2>5
<1> QED BY <1>2, <1>3

-----------------------------------------------------------------------------
(* The steps.                                                                *)

\* The wallet and the request stay as they are.
LEMMA Frame ==
    ASSUME wallet' = wallet, req' = req
    PROVE  /\ Places' = Places /\ Fetched' = Fetched /\ Spendable' = Spendable
           /\ amount' = amount /\ minAmount' = minAmount
           /\ Total(ins)' = Total(ins')
           /\ Worth(Taken)' = Worth(Taken')
           /\ Worth(utxos \cup Sender)' = Worth(utxos' \cup Sender')
           /\ Due' = txFee(req.rate, SizeWithChange(Len(ins')))
<1>1. Places' = Places /\ amount' = amount /\ minAmount' = minAmount
  BY DEF Places, amount, minAmount
<1>2. Fetched' = Fetched
  BY <1>1 DEF Fetched
<1>3. Spendable' = Spendable
  BY <1>2 DEF Spendable
<1>4. Total(ins)' = Total(ins')
  BY DEF Total
<1>5. Worth(Taken)' = Worth(Taken') /\ Worth(utxos \cup Sender)' = Worth(utxos' \cup Sender')
  BY <1>1 DEF Worth
<1>6. Due' = txFee(req.rate, SizeWithChange(Len(ins')))
  BY DEF Due, SizeWithChange
<1> QED BY <1>1, <1>2, <1>3, <1>4, <1>5, <1>6

LEMMA InitSelects == Init => SelectionInv
<1> SUFFICES ASSUME Init PROVE SelectionInv
  OBVIOUS
<1>1. TypeOK
  <2>1. req \in Request
    BY RequestTyped DEF Init
  <2>2. k \in 1 .. Len(wallet) + 1
    BY WalletFacts DEF Init
  <2> QED BY <2>1, <2>2 DEF Init, TypeOK
<1>2. RequestOK /\ StartOK
  BY DEF Init, RequestOK, StartOK
<1>3. InputsOK /\ SumsOK
  BY DEF Init, InputsOK, SumsOK, IsInjective
<1> QED BY <1>1, <1>2, <1>3 DEF SelectionInv

LEMMA FetchStep ==
    ASSUME SelectionInv, Fetch
    PROVE  SelectionInv'
<1> USE DEF SelectionInv
<1>1. wallet' = wallet /\ req' = req /\ utxos' = Fetched /\ outs' = req.outs
  BY DEF Fetch
<1>2. TypeOK'
  <2>1. Fetched \subseteq Places
    BY DEF Fetched
  <2>2. req.outs \in Seq(AllOutputs)
    <3>1. Outputs \subseteq AllOutputs
      BY DEF Outputs, AllOutputs
    <3>2. req.outs \in Seq(Outputs)
      BY RequestTyped DEF RequestOK
    <3> QED BY <3>1, <3>2
  <2> QED BY <1>1, <2>1, <2>2, Frame DEF Fetch, TypeOK, AllOutputs
<1>3. RequestOK' /\ StartOK'
  BY <1>1, Frame DEF Fetch, RequestOK, StartOK
<1>4. InputsOK' /\ SumsOK'
  BY DEF Fetch, InputsOK, SumsOK
<1> QED BY <1>2, <1>3, <1>4

LEMMA CollectStep ==
    ASSUME SelectionInv, Collect
    PROVE  SelectionInv'
<1> USE DEF SelectionInv
<1> DEFINE own == {p \in utxos : wallet[p].addr = req.sender}
           m == Min(own)
           first == IF own = {} THEN <<>> ELSE <<m>>
<1>1. /\ wallet' = wallet /\ req' = req /\ k' = k /\ outs' = outs /\ result' = result
      /\ pc = "collect" /\ pc' = "select"
      /\ used' = IF own = {} THEN 0 ELSE m
      /\ ins' = first /\ balance' = Total(first)
      /\ feeAmount' = txFee(req.rate, SizeWithChange(Len(first)))
  BY DEF Collect
<1>2. /\ wallet \in Wallets /\ utxos = Fetched /\ Fetched # {} /\ k = 1 /\ result = "none"
      /\ outs = req.outs /\ req \in Requests /\ Len(wallet) \in Nat
  BY <1>1, WalletFacts DEF TypeOK, StartOK, RequestOK
<1>3. \A p \in Fetched : /\ p \in Places /\ p \in Nat \ {0}
                         /\ wallet[p].addr \in WalletAddrs /\ wallet[p].value \in Nat
  BY <1>2, WalletFacts DEF Fetched
<1>4. own # {} => m \in own
  <2>1. own \in SUBSET Nat
    BY <1>2, <1>3
  <2> HIDE DEF own
  <2> QED BY <2>1, MinIsLeast
<1>5. req.sender = NoAddr => own = {} /\ Spendable = Fetched
  <2>1. NoAddr \notin WalletAddrs
    BY AddressAssumption DEF AddressAssumption
  <2>2. req.sender = NoAddr => req.tiny = FALSE
    BY <1>2, <2>1, RequestKinds
  <2> QED BY <1>2, <1>3, <2>1, <2>2 DEF Spendable, Fetched
<1>6. utxos' = Spendable
  <2>1. utxos' = IF req.sender # NoAddr THEN Spendable ELSE utxos
    BY <1>2 DEF Collect, Spendable
  <2> QED BY <1>2, <1>5, <2>1
<1>7. /\ totalBalance' \in Int
      /\ own = {} => totalBalance' = Worth(Spendable)
      /\ own # {} /\ wallet[m].value > Tiny => totalBalance' = Worth(Spendable)
      /\ own # {} /\ ~(wallet[m].value > Tiny) =>
            totalBalance' = Worth(Spendable) + wallet[m].value
  <2> DEFINE more == IF own # {} /\ wallet[m].value <= Tiny THEN wallet[m].value ELSE 0
  <2>1. Spendable = {p \in utxos : wallet[p].value > Tiny \/ (req.sender = NoAddr /\ req.tiny)}
    BY <1>2 DEF Spendable
  <2>2. totalBalance' = Worth(Spendable) + more
    BY <2>1 DEF Collect
  <2>3. own # {} => wallet[m].value \in Nat
    <3>1. own \subseteq Fetched
      BY <1>2
    <3> QED BY <1>3, <1>4, <3>1
  <2>4. Tiny \in Nat
    BY DEF Tiny
  <2> HIDE DEF own, m
  <2>5. /\ own = {} => more = 0
        /\ own # {} /\ wallet[m].value > Tiny => more = 0
        /\ own # {} /\ ~(wallet[m].value > Tiny) => more = wallet[m].value
    BY <2>3, <2>4
  <2>6. more \in Int
    BY <2>3
  <2>7. Worth(Spendable) \in Int
    BY <1>2, WorthIsInt
  <2> HIDE DEF more
  <2> QED BY <2>2, <2>5, <2>6, <2>7
<1> HIDE DEF own, m
<1>8. /\ first \in Seq(Places)
      /\ Sender' = ToSet(first) /\ Sender' = (IF own = {} THEN {} ELSE {m})
      /\ Sender' \subseteq Fetched
      /\ IsInjective(first)
  <2>1. CASE own = {}
    BY <1>1, <2>1 DEF Sender, ToSet, IsInjective
  <2>2. CASE own # {}
    <3>1. m \in Fetched /\ m \in Places /\ m # 0
      BY <1>2, <1>3, <1>4, <2>2 DEF own
    <3>2. first = <<m>> /\ ToSet(<<m>>) = {m} /\ IsInjective(<<m>>) /\ used' = m
      BY <1>1, <2>2 DEF ToSet, IsInjective
    <3> QED BY <2>2, <3>1, <3>2 DEF Sender
  <2> QED BY <2>1, <2>2
<1>9. TypeOK'
  <2>1. Spendable \subseteq Places
    BY DEF Spendable, Fetched
  <2>2. used' \in {0} \cup Places
    BY <1>1, <1>2, <1>3, <1>4 DEF own
  <2>3. Total(first) \in Int
    BY <1>2, <1>8, TotalIsInt
  <2>4. totalBalance' \in Int
    BY <1>7
  <2>5. feeAmount' \in Nat
    <3>1. Len(first) \in Nat
      BY <1>8
    <3> QED BY <1>1, <3>1, FeesTyped
  <2> QED BY <1>1, <1>6, <1>8, <2>1, <2>2, <2>3, <2>4, <2>5, Frame DEF TypeOK
<1>10. RequestOK' /\ StartOK'
  BY <1>1, <1>2 DEF RequestOK, StartOK
<1>11. InputsOK'
  <2>1. utxos' = IF req'.sender # NoAddr THEN Spendable' ELSE Fetched'
    BY <1>1, <1>5, <1>6, Frame
  <2>2. {p \in utxos' : p < k'} = {}
    BY <1>1, <1>2, <1>3, <1>6 DEF Spendable
  <2>3. Taken' = {p \in utxos' : p < k'} \cup Sender'
    BY <1>1, <1>8, <2>2 DEF Taken
  <2>4. req'.sender = NoAddr => Ahead' # {}
    BY <1>1, <1>2, <1>3, <1>5, <1>6 DEF Ahead
  <2> QED BY <1>1, <1>8, <2>1, <2>3, <2>4, Frame DEF InputsOK
<1>12. SumsOK'
  <2>1. balance' = Total(ins')
    BY <1>1
  <2>2. balance' = Worth(Sender')
    <3>1. CASE own = {}
      BY <1>1, <1>2, <1>8, <3>1, TotalEmpty, WorthOfNone
    <3>2. CASE own # {}
      <4>1. m \in Places /\ wallet[m].value \in Nat
        BY <1>2, <1>3, <1>4, <3>2 DEF own
      <4>2. Total(Append(<<>>, m)) = 0 + wallet[m].value
        <5>1. <<>> \in Seq(Places)
          OBVIOUS
        <5>2. Total(Append(<<>>, m)) = Total(<<>>) + wallet[m].value
          BY <1>2, <4>1, <5>1, TotalAppend
        <5> QED BY <5>2, TotalEmpty
      <4>3. Worth({} \cup {m}) = 0 + wallet[m].value
        BY <1>2, <4>1, WorthGrows, WorthOfNone
      <4>4. Append(<<>>, m) = <<m>> /\ {} \cup {m} = {m}
        OBVIOUS
      <4> QED BY <1>1, <1>8, <3>2, <4>2, <4>3, <4>4
    <3> QED BY <3>1, <3>2
  <2>3. totalBalance' = Worth(utxos' \cup Sender')
    <3>1. CASE own = {}
      <4>1. Spendable \cup Sender' = Spendable
        BY <1>8, <3>1
      <4> QED BY <1>6, <1>7, <3>1, <4>1
    <3>2. CASE own # {}
      <4>1. m \in Fetched /\ m \in Places /\ wallet[m].value \in Nat
        BY <1>2, <1>3, <1>4, <3>2 DEF own
      <4>2. CASE wallet[m].value > Tiny
        <5>1. Spendable \cup Sender' = Spendable
          BY <1>8, <3>2, <4>1, <4>2 DEF Spendable
        <5> QED BY <1>6, <1>7, <3>2, <4>2, <5>1
      <4>3. CASE ~(wallet[m].value > Tiny)
        <5>1. m \notin Spendable
          BY <1>5, <3>2, <4>3 DEF Spendable
        <5>2. Worth(Spendable \cup {m}) = Worth(Spendable) + wallet[m].value
          BY <1>2, <4>1, <5>1, WorthGrows
        <5> QED BY <1>6, <1>7, <1>8, <3>2, <4>3, <5>2
      <4> QED BY <4>2, <4>3
    <3> QED BY <3>1, <3>2
  <2>4. Taken' = Sender'
    BY <1>1, <1>8 DEF Taken
  <2>5. feeAmount' = Due'
    BY <1>1, Frame
  <2> QED BY <1>1, <2>1, <2>2, <2>3, <2>4, <2>5, Frame DEF SumsOK
<1> QED BY <1>9, <1>10, <1>11, <1>12

LEMMA SkipStep ==
    ASSUME SelectionInv, SelectSkip
    PROVE  SelectionInv'
<1> USE DEF SelectionInv
<1>1. /\ pc = "select" /\ Ahead # {} /\ At = used /\ k' = At + 1
      /\ UNCHANGED <<wallet, req, pc, utxos, used, ins, balance, totalBalance, feeAmount,
                     outs, result>>
  BY DEF SelectSkip, Skip
<1>2. At \in Nat /\ k' \in 1 .. Len(wallet) + 1 /\ At \in Places
      /\ {p \in utxos : p < k'} = {p \in utxos : p < k} \cup {used}
  BY <1>1, ReadsNext
<1>3. TypeOK'
  BY <1>1, <1>2, Frame DEF TypeOK
<1>4. RequestOK' /\ StartOK'
  BY <1>1 DEF RequestOK, StartOK
<1>5. InputsOK'
  <2>1. used \in Sender /\ Sender' = Sender /\ Taken' = Taken
    BY <1>1, <1>2 DEF Sender, Places, Taken
  <2>2. Taken' = {p \in utxos' : p < k'} \cup Sender'
    BY <1>1, <1>2, <2>1 DEF InputsOK
  <2>3. ins # <<>>
    BY <1>1, <2>1 DEF InputsOK, Taken, ToSet
  <2> QED BY <1>1, <2>1, <2>2, <2>3, Frame DEF InputsOK
<1>6. SumsOK'
  BY <1>1, Frame DEF SumsOK, Sender, Taken, Due, RoundOff, SizeWithChange
<1> QED BY <1>3, <1>4, <1>5, <1>6

\* The utxo that the loop reads next and does not skip is no input yet.
LEMMA NextIsNew ==
    ASSUME SelectionInv, pc = "select", Ahead # {}, ~Skip
    PROVE  At \notin Taken /\ At \in Places /\ ins \in Seq(Places)
<1>1. At \in Nat /\ k <= At /\ At \in Places /\ At # used
  BY ReadsNext DEF SelectionInv, Skip
<1>2. Taken = {p \in utxos : p < k} \cup Sender /\ k \in Int
  BY WalletFacts DEF SelectionInv, InputsOK, TypeOK
<1> QED BY <1>1, <1>2 DEF SelectionInv, TypeOK, Sender

LEMMA TooLargeStep ==
    ASSUME SelectionInv, SelectTooLarge
    PROVE  SelectionInv'
<1> USE DEF SelectionInv
<1>1. /\ pc = "select" /\ Ahead # {} /\ ~Skip /\ pc' = "done"
      /\ ins' = Append(ins, At)
      /\ UNCHANGED <<wallet, req, utxos, used, k, balance, totalBalance, feeAmount, outs, result>>
  BY DEF SelectTooLarge
<1>2. At \notin Taken /\ At \in Places /\ ins \in Seq(Places)
  BY <1>1, NextIsNew
<1>3. ins' \in Seq(Places) /\ IsInjective(ins')
  BY <1>1, <1>2, AppendTaken DEF InputsOK, Taken
<1>4. TypeOK'
  BY <1>1, <1>3, Frame DEF TypeOK
<1>5. RequestOK' /\ StartOK'
  BY <1>1 DEF RequestOK, StartOK
<1>6. InputsOK' /\ SumsOK'
  BY <1>1, <1>3 DEF InputsOK, SumsOK
<1> QED BY <1>4, <1>5, <1>6

LEMMA AddStep ==
    ASSUME SelectionInv, SelectAdd
    PROVE  SelectionInv'
<1> USE DEF SelectionInv
<1> DEFINE b == balance + wallet[At].value
           fee == RoundOff(txFee(req.rate, SizeWithChange(Len(ins) + 1)))
<1>1. /\ pc = "select" /\ Ahead # {} /\ ~Skip
      /\ ins' = Append(ins, At) /\ balance' = b /\ feeAmount' = fee /\ k' = At + 1
      /\ pc' = IF b = amount + fee \/ b >= amount + fee + minAmount THEN "finish" ELSE "select"
      /\ UNCHANGED <<wallet, req, utxos, used, totalBalance, outs, result>>
  BY DEF SelectAdd
<1>2. At \notin Taken /\ At \in Places /\ ins \in Seq(Places) /\ wallet \in Wallets
  BY <1>1, NextIsNew DEF TypeOK
<1>3. /\ ins' \in Seq(Places) /\ IsInjective(ins') /\ Taken' = Taken \cup {At}
      /\ Len(ins') = Len(ins) + 1 /\ Len(ins) \in Nat /\ ins' # <<>>
  <2>1. ToSet(Append(ins, At)) = ToSet(ins) \cup {At}
    BY <1>2, AppendTaken
  <2>2. Append(ins, At) \in Seq(Places) /\ IsInjective(Append(ins, At))
    BY <1>2, AppendTaken DEF InputsOK, Taken
  <2>3. Taken' = ToSet(Append(ins, At))
    BY <1>1 DEF Taken
  <2>4. /\ Len(Append(ins, At)) = Len(ins) + 1 /\ Len(ins) \in Nat
        /\ Append(ins, At) # <<>>
    BY <1>2
  <2> QED BY <1>1, <2>1, <2>2, <2>3, <2>4 DEF Taken
<1>4. At \in Nat /\ k' \in 1 .. Len(wallet) + 1
      /\ {p \in utxos : p < k'} = {p \in utxos : p < k} \cup {At}
  BY <1>1, ReadsNext
<1>5. fee \in Nat /\ b \in Int /\ amount \in Int /\ minAmount \in Nat
  <2>1. fee \in Nat
    <3>1. Len(ins) + 1 \in Nat
      BY <1>3
    <3> QED BY <3>1, FeesTyped
  <2>2. wallet[At].value \in Nat /\ balance \in Int
    BY <1>2, WalletFacts DEF TypeOK
  <2> QED BY <2>1, <2>2, AmountsTyped DEF RequestOK
<1>6. pc' \in {"select", "finish"} /\ (pc' = "finish" => b >= amount + fee)
  <2> HIDE DEF b, fee
  <2> QED BY <1>1, <1>5
<1>7. TypeOK'
  <2> HIDE DEF b, fee
  <2> QED BY <1>1, <1>3, <1>4, <1>5, <1>6, Frame DEF TypeOK
<1>8. RequestOK' /\ StartOK'
  BY <1>1, <1>6 DEF RequestOK, StartOK
<1>9. InputsOK'
  <2>1. Sender' = Sender
    BY <1>1 DEF Sender
  <2>2. Taken' = {p \in utxos' : p < k'} \cup Sender'
    BY <1>1, <1>3, <1>4, <2>1 DEF InputsOK
  <2> QED BY <1>1, <1>3, <2>1, <2>2, Frame DEF InputsOK
<1>10. SumsOK'
  <2>1. balance' = Total(ins')
    <3>1. Total(Append(ins, At)) = Total(ins) + wallet[At].value
      BY <1>2, TotalAppend
    <3> QED BY <1>1, <3>1 DEF SumsOK
  <2>2. balance' = Worth(Taken')
    <3>1. Worth(Taken \cup {At}) = Worth(Taken) + wallet[At].value
      BY <1>2, WorthGrows
    <3> QED BY <1>1, <1>3, <3>1 DEF SumsOK
  <2>3. totalBalance' = Worth(utxos' \cup Sender')
    BY <1>1 DEF SumsOK, Sender
  <2>4. feeAmount' = RoundOff(Due)'
    <3>1. Due' = txFee(req.rate, SizeWithChange(Len(ins) + 1))
      BY <1>1, <1>3, Frame
    <3>2. RoundOff(Due)' = RoundOff(Due')
      BY <1>1, Frame DEF RoundOff
    <3> QED BY <1>1, <3>1, <3>2
  <2>5. pc' = "finish" => balance' >= amount' + feeAmount'
    BY <1>1, <1>6, Frame
  <2> QED BY <1>1, <2>1, <2>2, <2>3, <2>4, <2>5, Frame DEF SumsOK
<1> QED BY <1>7, <1>8, <1>9, <1>10

LEMMA AllStep ==
    ASSUME SelectionInv, SelectAll
    PROVE  SelectionInv'
<1> USE DEF SelectionInv
<1>1. /\ pc = "select" /\ Ahead = {} /\ pc' = "finish"
      /\ UNCHANGED <<wallet, req, utxos, used, k, ins, balance, totalBalance, feeAmount,
                     outs, result>>
  BY DEF SelectAll
<1>2. Sender' = Sender /\ Taken' = Taken /\ Ahead' = Ahead
  BY <1>1 DEF Sender, Taken, Ahead
<1>3. TypeOK' /\ RequestOK' /\ StartOK'
  BY <1>1, Frame DEF TypeOK, RequestOK, StartOK
<1>4. InputsOK'
  BY <1>1, <1>2, Frame DEF InputsOK
<1>5. SumsOK'
  <2>1. feeAmount' \in {Due', RoundOff(Due)'}
    BY <1>1 DEF SumsOK, Due, RoundOff, SizeWithChange, amount
  <2> QED BY <1>1, <1>2, <2>1, Frame DEF SumsOK
<1> QED BY <1>3, <1>4, <1>5

\* What a transaction returned looks like: with its change or without.
Returned ==
    /\ pc = "finish" /\ balance >= amount + feeAmount
    /\ \/ /\ balance - (amount + feeAmount) >= minAmount
          /\ Return(Append(outs, Out(IF req.change # NoAddr THEN req.change
                                                           ELSE wallet[ins[1]].addr,
                                     balance - (amount + feeAmount))))
       \/ balance - (amount + feeAmount) < minAmount /\ Return(outs)

LEMMA ReturnStep ==
    ASSUME SelectionInv, FinishChange \/ FinishExact
    PROVE  Returned
<1>1. balance \in Int /\ amount \in Int /\ feeAmount \in Nat /\ minAmount \in Nat
  BY AmountsTyped DEF SelectionInv, TypeOK, RequestOK
<1>2. CASE FinishExact
  BY <1>2 DEF FinishExact, Returned
<1>3. CASE FinishChange
  <2>1. balance - (amount + feeAmount) >= minAmount => balance >= amount + feeAmount
    BY <1>1
  <2> QED BY <1>3, <2>1 DEF FinishChange, Returned
<1> QED BY <1>2, <1>3

LEMMA HasInput ==
    ASSUME SelectionInv, pc = "finish", balance >= amount + feeAmount
    PROVE  ins # <<>> /\ ins[1] \in Places /\ wallet[ins[1]].addr \in WalletAddrs
<1> USE DEF SelectionInv
<1>1. ASSUME ins = <<>> PROVE FALSE
  <2>1. req.sender # NoAddr
    BY <1>1 DEF InputsOK
  <2>2. balance = 0
    BY <1>1, TotalEmpty DEF SumsOK
  <2>3. amount = 546 /\ feeAmount \in Nat
    BY <2>1, AmountsTyped DEF RequestOK, TypeOK, Tiny
  <2> QED BY <2>2, <2>3
<1>2. ins \in Seq(Places) /\ wallet \in Wallets
  BY DEF TypeOK
<1>3. ins[1] \in Places
  BY <1>1, <1>2
<1> QED BY <1>1, <1>2, <1>3, WalletFacts

\* What is left over, and the change output for it.
Rest == balance - (amount + feeAmount)
Change == Out(IF req.change # NoAddr THEN req.change ELSE wallet[ins[1]].addr, Rest)

LEMMA ChangeIsOutput ==
    ASSUME SelectionInv, Returned
    PROVE  Change \in AllOutputs /\ Change.amount = Rest /\ Rest \in Nat
           /\ Change.addr \in WalletAddrs \cup {Fresh}
<1> USE DEF SelectionInv
<1>1. wallet[ins[1]].addr \in WalletAddrs
  BY HasInput DEF Returned
<1>2. req.change \in {NoAddr, Fresh}
  BY RequestTyped DEF RequestOK, Request
<1>3. Rest \in Nat
  BY AmountsTyped DEF Rest, Returned, TypeOK, RequestOK
<1> QED BY <1>1, <1>2, <1>3 DEF Change, Out, AllOutputs

\* The outputs of what is returned.
LEMMA Outcome ==
    ASSUME SelectionInv, Returned
    PROVE  /\ outs' \in Seq(AllOutputs) /\ result' \in {"tx", "panic"} /\ pc' = "done"
           /\ UNCHANGED <<wallet, req, utxos, used, k, ins, balance, totalBalance, feeAmount>>
           /\ result' = "tx" =>
                \/ outs' = req.outs /\ Rest < minAmount
                \/ Rest >= minAmount /\ req.swap = FALSE /\ outs' = Append(req.outs, Change)
                \/ /\ Rest >= minAmount /\ req.swap = TRUE /\ Len(req.outs) = 2
                   /\ outs' = <<req.outs[1], Change, req.outs[2]>>
<1> USE DEF SelectionInv
<1>1. outs = req.outs /\ req \in Requests /\ req.outs \in Seq(AllOutputs) /\ req.swap \in BOOLEAN
  <2>1. req \in Requests /\ outs = req.outs
    BY DEF RequestOK, Returned
  <2>2. req.outs \in Seq(Outputs) /\ Outputs \subseteq AllOutputs /\ req.swap \in BOOLEAN
    BY <2>1, RequestTyped DEF Outputs, AllOutputs, Request
  <2> QED BY <2>1, <2>2
<1>2. Change \in AllOutputs
  BY ChangeIsOutput
<1> DEFINE o == Append(req.outs, Change)
<1>3. o \in Seq(AllOutputs) /\ Len(o) = Len(req.outs) + 1 /\ Len(req.outs) \in Nat
  BY <1>1, <1>2
<1>4. req.swap = TRUE => Len(req.outs) = 2 /\ o[1] = req.outs[1] /\ o[2] = req.outs[2]
                         /\ o[3] = Change
  <2>1. req.swap = TRUE => Len(req.outs) = 2
    <3>1. req.swap = TRUE => \E t : req.outs = <<Out(Data, 0), Out(t, Tiny)>>
      BY <1>1, RequestKinds
    <3> QED BY <3>1
  <2>2. Len(req.outs) = 2 => o[1] = req.outs[1] /\ o[2] = req.outs[2] /\ o[3] = Change
    <3>1. (\A i \in 1 .. Len(req.outs) : o[i] = req.outs[i]) /\ o[Len(req.outs) + 1] = Change
      BY <1>1, <1>2
    <3> HIDE DEF o
    <3> QED BY <3>1
  <2> QED BY <2>1, <2>2
<1>5. CASE Rest < minAmount
  <2>1. Return(outs)
    <3>1. ~(Rest >= minAmount)
      BY <1>5, AmountsTyped DEF Rest, TypeOK, RequestOK
    <3> QED BY <3>1 DEF Returned, Rest
  <2>2. req.swap = TRUE => Len(outs) < 3
    BY <1>1, <1>4
  <2> QED BY <1>1, <1>5, <2>1, <2>2 DEF Return
<1>6. CASE ~(Rest < minAmount)
  <2>1. Rest >= minAmount
    BY <1>6, AmountsTyped DEF Rest, TypeOK, RequestOK
  <2>2. Return(o)
    BY <1>1, <1>6 DEF Returned, Rest, Change
  <2> HIDE DEF o
  <2>3. CASE req.swap = TRUE
    <3>1. outs' = <<o[1], o[3], o[2]>> /\ result' = "tx"
      BY <1>3, <1>4, <2>2, <2>3 DEF Return
    <3>2. req.outs[1] \in AllOutputs /\ req.outs[2] \in AllOutputs
      BY <1>1, <1>4, <2>3
    <3>3. outs' \in Seq(AllOutputs)
      BY <1>2, <1>4, <2>3, <3>1, <3>2
    <3> QED BY <1>4, <2>1, <2>2, <2>3, <3>1, <3>3 DEF Return
  <2>4. CASE req.swap = FALSE
    <3>1. outs' = o /\ result' = "tx"
      BY <2>2, <2>4 DEF Return
    <3> QED BY <1>3, <2>1, <2>2, <2>4, <3>1 DEF Return, o
  <2> QED BY <1>1, <2>3, <2>4
<1> QED BY <1>5, <1>6

LEMMA FinishStep ==
    ASSUME SelectionInv, FinishShort \/ FinishGone \/ FinishChange \/ FinishExact
    PROVE  SelectionInv'
<1> USE DEF SelectionInv
<1>1. /\ pc' = "done"
      /\ UNCHANGED <<wallet, req, utxos, used, k, ins, balance, totalBalance, feeAmount>>
      /\ outs' \in Seq(AllOutputs) /\ result' \in {"none", "short", "tx", "panic"}
  <2>1. CASE FinishShort \/ FinishGone
    BY <2>1 DEF FinishShort, FinishGone, TypeOK, AllOutputs
  <2>2. CASE FinishChange \/ FinishExact
    BY <2>2, ReturnStep, Outcome
  <2> QED BY <2>1, <2>2
<1>2. TypeOK'
  BY <1>1, Frame DEF TypeOK, AllOutputs
<1>3. RequestOK' /\ StartOK' /\ InputsOK' /\ SumsOK'
  BY <1>1 DEF RequestOK, StartOK, InputsOK, SumsOK
<1> QED BY <1>2, <1>3

LEMMA StutterStep ==
    ASSUME SelectionInv, UNCHANGED vars
    PROVE  SelectionInv'
<1> USE DEF SelectionInv
<1>1. UNCHANGED <<wallet, req, pc, utxos, used, k, ins, balance, totalBalance, feeAmount,
                  outs, result>>
  BY DEF vars
<1>2. TypeOK' /\ RequestOK' /\ StartOK'
  BY <1>1, Frame DEF TypeOK, RequestOK, StartOK
<1>3. Sender' = Sender /\ Taken' = Taken /\ Ahead' = Ahead
  BY <1>1 DEF Sender, Taken, Ahead
<1>4. InputsOK'
  BY <1>1, <1>3, Frame DEF InputsOK
<1>5. SumsOK'
  <2>1. feeAmount \in {Due, RoundOff(Due)} => feeAmount' \in {Due', RoundOff(Due)'}
    BY <1>1 DEF Due, RoundOff, SizeWithChange, amount
  <2> QED BY <1>1, <1>3, <2>1, Frame DEF SumsOK
<1> QED BY <1>2, <1>4, <1>5

THEOREM SelectionInvariant == Spec => []SelectionInv
<1>1. SelectionInv /\ [Next]_vars => SelectionInv'
  <2> SUFFICES ASSUME SelectionInv, [Next]_vars PROVE SelectionInv'
    OBVIOUS
  <2>1. CASE Fetch
    BY <2>1, FetchStep
  <2>2. CASE Collect
    BY <2>2, CollectStep
  <2>3. CASE SelectSkip
    BY <2>3, SkipStep
  <2>4. CASE SelectTooLarge
    BY <2>4, TooLargeStep
  <2>5. CASE SelectAdd
    BY <2>5, AddStep
  <2>6. CASE SelectAll
    BY <2>6, AllStep
  <2>7. CASE FinishShort \/ FinishGone \/ FinishChange \/ FinishExact
    BY <2>7, FinishStep
  <2>8. CASE UNCHANGED vars
    BY <2>8, StutterStep
  <2> QED BY <2>1, <2>2, <2>3, <2>4, <2>5, <2>6, <2>7, <2>8 DEF Next, Done
<1> QED BY <1>1, InitSelects, PTL DEF Spec

-----------------------------------------------------------------------------
(* The properties.                                                           *)

\* Variables hold values of their types: the loop stays within the utxos it
\* was given, and every output returned has an address (TypeOK; db.go
\* CreateTxForOutputs).
THEOREM SelectionTypeCorrect == Spec => []TypeOK
<1>1. SelectionInv => TypeOK
  BY DEF SelectionInv
<1> QED BY <1>1, SelectionInvariant, PTL

\* Spent is what is booked: no utxo is an input twice, and at the end the
\* inputs add up to balance, which never exceeds what the wallet could spend
\* (InputsAccounted; db.go CreateTxForOutputs).
THEOREM InputsAccountedCorrect == Spec => []InputsAccounted
<1>1. SelectionInv => InputsAccounted
  <2> SUFFICES ASSUME SelectionInv PROVE InputsAccounted
    OBVIOUS
  <2> USE DEF SelectionInv
  <2>1. IsInjective(ins)
    BY DEF InputsOK
  <2>2. ASSUME pc = "finish" PROVE balance = Total(ins) /\ balance <= totalBalance
    <3>1. Taken \subseteq utxos \cup Sender
      BY <2>2 DEF InputsOK
    <3>2. wallet \in Wallets
      BY DEF TypeOK
    <3>3. Worth(Taken) <= Worth(utxos \cup Sender)
      BY <3>1, <3>2, WorthMonotone
    <3> QED BY <2>2, <3>3 DEF SumsOK
  <2> QED BY <2>1, <2>2 DEF InputsAccounted
<1> QED BY <1>1, SelectionInvariant, PTL

\* The end of a call is the only step that gives a result.
LEMMA ResultAtEnd ==
    ASSUME SelectionInv, [Next]_vars
    PROVE  \/ result' = "none" \/ UNCHANGED vars
           \/ FinishShort \/ FinishChange \/ FinishExact
<1>1. pc # "done" => result = "none"
  BY DEF SelectionInv, RequestOK
<1>2. CASE Fetch
  BY <1>1, <1>2 DEF Fetch
<1>3. CASE Collect
  BY <1>1, <1>3 DEF Collect
<1>4. CASE SelectSkip
  BY <1>1, <1>4 DEF SelectSkip
<1>5. CASE SelectTooLarge
  BY <1>1, <1>5 DEF SelectTooLarge
<1>6. CASE SelectAdd
  BY <1>1, <1>6 DEF SelectAdd
<1>7. CASE SelectAll
  BY <1>1, <1>7 DEF SelectAll
<1>8. CASE FinishGone
  BY <1>1, <1>8 DEF FinishGone
<1>9. CASE Done
  BY <1>9 DEF Done
<1> QED BY <1>2, <1>3, <1>4, <1>5, <1>6, <1>7, <1>8, <1>9 DEF Next

LEMMA SumOutOfReturned ==
    ASSUME SelectionInv, Returned, result' = "tx"
    PROVE  SumOut(outs') = IF outs' = req.outs THEN amount ELSE amount + Rest
<1>1. req.outs \in Seq(AllOutputs) /\ Change \in AllOutputs /\ Change.amount = Rest /\ Rest \in Nat
  <2>1. req.outs \in Seq(Outputs) /\ Outputs \subseteq AllOutputs
    BY RequestTyped DEF SelectionInv, RequestOK, Outputs, AllOutputs
  <2> QED BY <2>1, ChangeIsOutput
<1> DEFINE A == WalletAddrs \cup {Payee, Data, Fresh}
<1>2. \A s \in Seq(AllOutputs), o \in AllOutputs :
        SumOut(s) \in Int /\ SumOut(Append(s, o)) = SumOut(s) + o.amount
  BY SumOutAppend DEF AllOutputs
<1>3. SumOut(Append(req.outs, Change)) = amount + Rest
  BY <1>1, <1>2 DEF amount
<1>4. CASE outs' = req.outs
  BY <1>4 DEF amount
<1>5. CASE outs' = Append(req.outs, Change)
  <2>1. Append(req.outs, Change) # req.outs
    BY <1>1
  <2> QED BY <1>3, <1>5, <2>1
<1>6. CASE Len(req.outs) = 2 /\ outs' = <<req.outs[1], Change, req.outs[2]>>
  <2> DEFINE a == req.outs[1]
             b == req.outs[2]
  <2>1. a \in AllOutputs /\ b \in AllOutputs /\ req.outs = <<a, b>>
    BY <1>1, <1>6
  <2>2. outs' # req.outs /\ outs' = <<a, Change, b>>
    BY <1>6, <2>1
  <2> HIDE DEF a, b
  <2>3. /\ <<>> \in Seq(AllOutputs) /\ <<a>> \in Seq(AllOutputs)
        /\ <<a>> = Append(<<>>, a) /\ <<a, b>> = Append(<<a>>, b)
        /\ <<a, Change>> \in Seq(AllOutputs)
        /\ <<a, Change>> = Append(<<a>>, Change) /\ <<a, Change, b>> = Append(<<a, Change>>, b)
    BY <1>1, <2>1
  <2>4. a.amount \in Int /\ b.amount \in Int
    BY <2>1 DEF AllOutputs
  <2>5. SumOut(<<a>>) = a.amount
    <3>1. SumOut(Append(<<>>, a)) = SumOut(<<>>) + a.amount
      BY <1>2, <2>1, <2>3
    <3>2. SumOut(<<a>>) = 0 + a.amount
      BY <2>3, <3>1, SumOutEmpty
    <3> QED BY <2>4, <3>2
  <2>6. SumOut(<<a, b>>) = a.amount + b.amount
    BY <1>2, <2>1, <2>3, <2>5
  <2>7. SumOut(<<a, Change>>) = a.amount + Rest
    BY <1>1, <1>2, <2>3, <2>5
  <2>8. SumOut(<<a, Change, b>>) = a.amount + Rest + b.amount
    BY <1>2, <2>1, <2>3, <2>7
  <2> QED BY <1>1, <2>1, <2>2, <2>4, <2>6, <2>8 DEF amount
<1> QED BY <1>4, <1>5, <1>6, Outcome

\* Bytes of outputs.
OutSizes(s) == SumOf([i \in 1 .. Len(s) |-> OutSize(s[i])])

LEMMA OutSizesAppend ==
    ASSUME NEW s \in Seq(AllOutputs), NEW o \in AllOutputs
    PROVE  /\ OutSizes(s) \in Nat
           /\ OutSizes(Append(s, o)) = OutSizes(s) + OutSize(o)
           /\ OutSize(o) \in {31, 34}
<1> DEFINE v == [i \in 1 .. Len(s) |-> OutSize(s[i])]
           w == [i \in 1 .. Len(Append(s, o)) |-> OutSize(Append(s, o)[i])]
<1>1. \A x : OutSize(x) \in {31, 34}
  BY DEF OutSize, TX_OUTPUT_SIZE
<1>2. Len(s) \in Nat /\ Len(Append(s, o)) = Len(s) + 1
      /\ \A i \in 1 .. Len(s) + 1 : Append(s, o)[i] = IF i = Len(s) + 1 THEN o ELSE s[i]
  OBVIOUS
<1>3. v \in Seq(Int) /\ Len(v) = Len(s) /\ OutSize(o) \in Int
      /\ \A i \in 1 .. Len(v) : v[i] \in 0 .. 34
  <2>1. v \in [1 .. Len(s) -> Int]
    BY <1>1
  <2>2. v \in Seq(Int) /\ Len(v) = Len(s)
    BY <1>2, <2>1
  <2>3. \A i \in 1 .. Len(s) : v[i] \in {31, 34}
    BY <1>1
  <2> HIDE DEF v
  <2> QED BY <1>1, <1>2, <2>2, <2>3
<1>4. w = Append(v, OutSize(o))
  <2>1. Append(v, OutSize(o)) =
          [i \in 1 .. Len(s) + 1 |-> IF i = Len(s) + 1 THEN OutSize(o) ELSE v[i]]
    BY <1>2
  <2>2. \A i \in 1 .. Len(s) + 1 :
          OutSize(Append(s, o)[i]) = IF i = Len(s) + 1 THEN OutSize(o) ELSE v[i]
    BY <1>2
  <2> QED BY <1>2, <2>1, <2>2
<1>5. OutSizes(s) = SumOf(v) /\ OutSizes(Append(s, o)) = SumOf(w)
  BY DEF OutSizes
<1> HIDE DEF v, w
<1>6. SumOf(v) \in 0 .. Len(v) * 34
  BY <1>3, SumBounded
<1>7. OutSizes(s) \in Nat
  BY <1>2, <1>3, <1>5, <1>6
<1> QED BY <1>1, <1>3, <1>4, <1>5, <1>7, SumAppend

LEMMA OutSizesEmpty == OutSizes(<<>>) = 0
<1>1. [i \in 1 .. Len(<<>>) |-> OutSize(<<>>[i])] = <<>>
  OBVIOUS
<1> QED BY <1>1, SumEmpty DEF OutSizes

\* The change output is the one output that may be added.
LEMMA OutSizesOfReturned ==
    ASSUME SelectionInv, Returned, result' = "tx"
    PROVE  /\ OutSizes(req.outs) \in Nat /\ OutSizes(outs') \in Nat
           /\ OutSizes(outs') <= OutSizes(req.outs) + 34
           /\ Len(req.outs) \in 1 .. 2 /\ Len(outs') \in 1 .. 3
<1>1. req.outs \in Seq(AllOutputs) /\ Change \in AllOutputs
  <2>1. req.outs \in Seq(Outputs) /\ Outputs \subseteq AllOutputs
    BY RequestTyped DEF SelectionInv, RequestOK, Outputs, AllOutputs
  <2> QED BY <2>1, ChangeIsOutput
<1>2. Len(req.outs) \in 1 .. 2
  <2>1. req \in Requests
    BY DEF SelectionInv, RequestOK
  <2>2. \A x, y : Len(<<x>>) = 1 /\ Len(<<x, y>>) = 2
    OBVIOUS
  <2>3. \/ \E t, w : req.outs = <<Out(t, w)>>
        \/ \E t : req.outs = <<Out(Data, 0), Out(t, Tiny)>>
    BY <2>1, RequestKinds
  <2> QED BY <2>2, <2>3
<1>3. \A s \in Seq(AllOutputs), o \in AllOutputs :
        /\ OutSizes(s) \in Nat /\ OutSize(o) \in {31, 34}
        /\ OutSizes(Append(s, o)) = OutSizes(s) + OutSize(o)
  BY OutSizesAppend
<1>4. OutSizes(req.outs) \in Nat
  BY <1>1, <1>3
<1>5. CASE outs' = req.outs
  BY <1>2, <1>4, <1>5
<1>6. CASE outs' = Append(req.outs, Change)
  <2>1. Len(outs') = Len(req.outs) + 1
    BY <1>1, <1>6
  <2>2. OutSizes(outs') = OutSizes(req.outs) + OutSize(Change) /\ OutSize(Change) \in {31, 34}
    BY <1>1, <1>3, <1>6
  <2> DEFINE d == OutSize(Change)
             a == OutSizes(req.outs)
             l == Len(req.outs)
  <2>3. OutSizes(outs') = a + d /\ Len(outs') = l + 1 /\ d \in {31, 34} /\ a \in Nat /\ l \in 1 .. 2
    BY <1>2, <1>4, <2>1, <2>2
  <2> HIDE DEF a, d, l
  <2>4. OutSizes(outs') \in Nat /\ OutSizes(outs') <= a + 34 /\ Len(outs') \in 1 .. 3
    BY <2>3
  <2> QED BY <1>2, <1>4, <2>4 DEF a
<1>7. CASE Len(req.outs) = 2 /\ outs' = <<req.outs[1], Change, req.outs[2]>>
  <2> DEFINE a == req.outs[1]
             b == req.outs[2]
  <2>1. a \in AllOutputs /\ b \in AllOutputs /\ req.outs = <<a, b>>
        /\ outs' = <<a, Change, b>>
    BY <1>1, <1>7
  <2> HIDE DEF a, b
  <2>2. /\ <<>> \in Seq(AllOutputs) /\ <<a>> \in Seq(AllOutputs)
        /\ <<a, Change>> \in Seq(AllOutputs)
        /\ <<a>> = Append(<<>>, a) /\ <<a, b>> = Append(<<a>>, b)
        /\ <<a, Change>> = Append(<<a>>, Change) /\ <<a, Change, b>> = Append(<<a, Change>>, b)
    BY <1>1, <2>1
  <2>3. OutSizes(<<a, b>>) = OutSizes(<<a>>) + OutSize(b)
    BY <1>3, <2>1, <2>2
  <2>4. OutSizes(<<a, Change>>) = OutSizes(<<a>>) + OutSize(Change)
    BY <1>1, <1>3, <2>2
  <2>5. OutSizes(<<a, Change, b>>) = OutSizes(<<a, Change>>) + OutSize(b)
    BY <1>3, <2>1, <2>2
  <2>6. /\ OutSizes(<<a>>) \in Nat
        /\ OutSize(b) \in {31, 34} /\ OutSize(Change) \in {31, 34}
    BY <1>1, <1>3, <2>1, <2>2
  <2>7. Len(outs') = 3
    BY <2>1
  <2> QED BY <1>2, <1>4, <2>1, <2>3, <2>4, <2>5, <2>6, <2>7
<1> QED BY <1>5, <1>6, <1>7, Outcome

\* Signing adds 107 bytes to each input, of which 41 were counted before.
LEMMA SignedSizeBounded ==
    ASSUME SelectionInv, Returned, result' = "tx"
    PROVE  /\ SizeWithChange(Len(ins)) \in Nat /\ SignedSize' \in Nat
           /\ 41 * SignedSize' <= 148 * SizeWithChange(Len(ins))
<1> DEFINE n == Len(ins)
           v == VarIntSize(n)
           a == OutSizes(req.outs)
           b == OutSizes(outs')
<1>1. a \in Nat /\ b \in Nat /\ b <= a + 34
  BY OutSizesOfReturned
<1>2. n \in Nat /\ ins' = ins
  <2>1. ins \in Seq(Places)
    BY DEF SelectionInv, TypeOK
  <2>2. ins' = ins
    BY Outcome
  <2> QED BY <2>1, <2>2
<1>3. v \in Nat /\ VarIntSize(Len(req.outs)) = 1 /\ VarIntSize(Len(outs')) = 1
  <2>1. \A x \in 1 .. 3 : VarIntSize(x) = 1
    BY DEF VarIntSize
  <2>2. Len(req.outs) \in 1 .. 3 /\ Len(outs') \in 1 .. 3
    <3>1. Len(req.outs) \in 1 .. 2 /\ Len(outs') \in 1 .. 3
      BY OutSizesOfReturned
    <3> QED BY <3>1
  <2>3. \A x : VarIntSize(x) \in Nat
    BY DEF VarIntSize
  <2> QED BY <2>1, <2>2, <2>3
<1>4. SizeWithChange(n) = 8 + v + 1 + 41 * n + a + 34
  BY <1>3 DEF SizeWithChange, SerializeSize, OutSizes, TX_OUTPUT_SIZE
<1>5. SignedSize' = (8 + v + 1 + 41 * n + b) + (148 - 41) * n
  BY <1>2, <1>3 DEF SignedSize, SerializeSize, OutSizes, TX_INPUT_SIZE
<1> HIDE DEF n, v, a, b
<1>6. SizeWithChange(n) \in Nat /\ SignedSize' \in Nat
      /\ 41 * SignedSize' <= 148 * SizeWithChange(n)
  BY <1>1, <1>2, <1>3, <1>4, <1>5
<1> QED BY <1>6 DEF n

Covers(rate, size, signed, paid) ==
    /\ size * rate < Word32
    /\ txFee(rate, size) <= paid
    /\ 41 * signed <= 148 * size
    => (41 * (rate * signed)) \div (TX_INPUT_SIZE * 1000) <= paid

\* Where the product fits into 32 bits, the fee is that of the rate.
LEMMA FeeCovers ==
    ASSUME NEW rate \in Nat, NEW size \in Nat, NEW signed \in Nat, NEW paid \in Int
    PROVE  Covers(rate, size, signed, paid)
<1> SUFFICES ASSUME size * rate < Word32, txFee(rate, size) <= paid,
                    41 * signed <= 148 * size
             PROVE  (41 * (rate * signed)) \div (TX_INPUT_SIZE * 1000) <= paid
  BY DEF Covers
<1> DEFINE p == size * rate
           q == rate * signed
<1>1. p \in Nat /\ q \in Nat /\ p < Word32
  OBVIOUS
<1>2. 41 * q <= 148 * p
  <2> DEFINE d == 148 * size - 41 * signed
  <2>1. d \in Nat
    OBVIOUS
  <2>2. d * rate \in Nat
    <3> HIDE DEF d
    <3> QED BY <2>1
  <2>3. d * rate = 148 * (size * rate) - 41 * (rate * signed)
    OBVIOUS
  <2> QED BY <2>2, <2>3
<1>3. txFee(rate, size) >= ((((p % Word32) \div 1000) + 99) \div 100) * 100
      /\ txFee(rate, size) \in Nat
  <2> DEFINE f == ((((p % Word32) \div 1000) + 99) \div 100) * 100
             g == ((size * TX_FEE_PER_KB) % Word32) \div 1000
  <2>1. txFee(rate, size) = IF f > g THEN f ELSE g
    BY DEF txFee, Bigger
  <2>2. f \in Int /\ g \in Int
    <3>1. p % Word32 \in Nat /\ (size * TX_FEE_PER_KB) % Word32 \in Nat
      BY <1>1, SizeAssumption DEF SizeAssumption, TX_FEE_PER_KB
    <3> HIDE DEF p
    <3> DEFINE x == p % Word32
               y == (size * TX_FEE_PER_KB) % Word32
    <3>2. x \in Nat /\ y \in Nat
      BY <3>1
    <3> HIDE DEF x, y
    <3>3. (((x \div 1000) + 99) \div 100) * 100 \in Int /\ y \div 1000 \in Int
      BY <3>2
    <3> QED BY <3>3 DEF x, y
  <2>3. txFee(rate, size) \in Nat
    BY FeeIsNat
  <2> HIDE DEF f, g
  <2>4. txFee(rate, size) >= f
    BY <2>1, <2>2
  <2> QED BY <2>3, <2>4 DEF f
<1>4. p % Word32 = p
  <2> HIDE DEF p
  <2> QED BY <1>1, SizeAssumption DEF SizeAssumption
<1> HIDE DEF p, q
<1> DEFINE e == p \div 1000
           c == (e + 99) \div 100
<1>5. e \in Nat /\ 1000 * e <= p /\ p < 1000 * e + 1000
  BY <1>1
<1>6. c * 100 >= e /\ c \in Nat
  <2> HIDE DEF e
  <2> QED BY <1>5
<1>7. txFee(rate, size) >= c * 100
  BY <1>3, <1>4
<1>8. paid >= e
  <2> HIDE DEF c, e
  <2> QED BY <1>3, <1>5, <1>6, <1>7
<1>9. 41 * q < 148000 * (paid + 1)
  <2> HIDE DEF c, e
  <2> QED BY <1>1, <1>2, <1>5, <1>8
<1>10. (41 * q) \div 148000 <= paid
  BY <1>1, <1>9
<1> QED BY <1>10 DEF q, TX_INPUT_SIZE

\* Every transaction made pays at least the fee computed for its size before
\* signing, and less than the rounding (and, without change, the smallest
\* change) above it; for its size after signing that is at least 41/148 of
\* the configured rate (FeeBounds; db.go CreateTxForOutputs, txFee).
THEOREM FeeBoundsCorrect == Spec => []FeeBounds
<1>1. Init => FeeBounds
  BY DEF Init, FeeBounds, Made
<1>2. SelectionInv /\ FeeBounds /\ [Next]_vars => FeeBounds'
  <2> SUFFICES ASSUME SelectionInv, FeeBounds, [Next]_vars PROVE FeeBounds'
    OBVIOUS
  <2>1. CASE result' = "none"
    BY <2>1 DEF FeeBounds, Made
  <2>2. CASE UNCHANGED vars
    BY <2>2 DEF vars, FeeBounds, Made, HasChange, Paid, Total, minAmount, SizeWithChange,
                SignedSize
  <2>3. CASE FinishShort
    BY <2>3 DEF FinishShort, FeeBounds, Made
  <2>4. CASE FinishChange \/ FinishExact
    <3>1. Returned
      BY <2>4, ReturnStep
    <3>2. SUFFICES ASSUME result' = "tx"
                   PROVE  /\ Due' <= Paid'
                          /\ Paid' < Due' + 100 + (IF HasChange' THEN 0 ELSE minAmount')
                          /\ (SizeWithChange(Len(ins)) * req.rate < Word32)' =>
                               (41 * (req.rate' * SignedSize')) \div (TX_INPUT_SIZE * 1000)
                                 <= Paid'
      BY DEF FeeBounds, Made, Due
    <3>3. wallet' = wallet /\ req' = req /\ ins' = ins
      BY <3>1, Outcome
    <3>4. Due' = Due /\ minAmount' = minAmount /\ Paid' = balance - SumOut(outs')
      <4>1. pc = "finish"
        BY <3>1 DEF Returned
      <4>2. Total(ins)' = balance
        BY <3>3, <4>1, Frame DEF SelectionInv, SumsOK
      <4> QED BY <3>3, <4>2, Frame DEF Due, Paid
    <3>5. Due \in Nat /\ Due <= feeAmount /\ feeAmount < Due + 100
      <4>1. Due \in Nat
        <5>1. Len(ins) \in Nat
          BY DEF SelectionInv, TypeOK
        <5> QED BY <5>1, FeesTyped DEF SelectionInv, Due
      <4>2. feeAmount \in {Due, RoundOff(Due)}
        BY <3>1 DEF SelectionInv, SumsOK, Returned
      <4> QED BY <4>1, <4>2, FeesTyped DEF SelectionInv
    <3>6. /\ balance \in Int /\ amount \in Int /\ feeAmount \in Nat /\ minAmount \in Nat
          /\ balance >= amount + feeAmount /\ Rest = balance - (amount + feeAmount)
      BY <3>1, AmountsTyped DEF SelectionInv, TypeOK, RequestOK, Returned, Rest
    <3>7. SumOut(outs') = IF outs' = req.outs THEN amount ELSE amount + Rest
      BY <3>1, <3>2, SumOutOfReturned
    <3>10. Paid' \in Int
      <4>1. Rest \in Int
        BY <3>6
      <4> QED BY <3>4, <3>6, <3>7, <4>1
    <3>11. ASSUME Due' <= Paid'
           PROVE  (SizeWithChange(Len(ins)) * req.rate < Word32)' =>
                    (41 * (req.rate' * SignedSize')) \div (TX_INPUT_SIZE * 1000) <= Paid'
      <4>1. SizeWithChange(Len(ins))' = SizeWithChange(Len(ins)) /\ req' = req
        BY <3>3 DEF SizeWithChange
      <4>2. /\ SizeWithChange(Len(ins)) \in Nat /\ SignedSize' \in Nat
            /\ 41 * SignedSize' <= 148 * SizeWithChange(Len(ins))
        BY <3>1, <3>2, SignedSizeBounded
      <4>3. req.rate \in Nat
        BY RequestTyped DEF SelectionInv, RequestOK
      <4>4. txFee(req.rate, SizeWithChange(Len(ins))) <= Paid'
        BY <3>4, <3>11 DEF Due
      <4> DEFINE z == SizeWithChange(Len(ins))
                 g == SignedSize'
                 d == Paid'
                 r == req.rate
      <4>5. /\ r \in Nat /\ z \in Nat /\ g \in Nat /\ d \in Int
            /\ 41 * g <= 148 * z /\ txFee(r, z) <= d
        BY <3>10, <4>2, <4>3, <4>4
      <4> HIDE DEF z, g, d, r
      <4>6. z * r < Word32 => (41 * (r * g)) \div (TX_INPUT_SIZE * 1000) <= d
        <5>1. Covers(r, z, g, d)
          BY <4>5, FeeCovers
        <5> QED BY <4>5, <5>1 DEF Covers
      <4>7. req.rate' = req.rate
        BY <4>1
      <4> QED BY <4>1, <4>6, <4>7 DEF z, g, d, r
    <3>8. CASE outs' = req.outs
      <4>1. ~HasChange'
        <5>1. Len(req.outs) \in Nat
          BY RequestTyped DEF SelectionInv, RequestOK
        <5> QED BY <3>3, <3>8, <5>1 DEF HasChange
      <4>2. Rest < minAmount
        <5>1. req.outs \in Seq(AllOutputs) /\ Change \in AllOutputs
          <6>1. req.outs \in Seq(Outputs) /\ Outputs \subseteq AllOutputs
            BY RequestTyped DEF SelectionInv, RequestOK, Outputs, AllOutputs
          <6> QED BY <3>1, <6>1, ChangeIsOutput
        <5>2. Append(req.outs, Change) # req.outs
          BY <5>1
        <5>3. Len(req.outs) = 2 => <<req.outs[1], Change, req.outs[2]>> # req.outs
          OBVIOUS
        <5> QED BY <3>1, <3>2, <3>8, <5>2, <5>3, Outcome
      <4>3. Paid' = Rest + feeAmount
        BY <3>4, <3>6, <3>7, <3>8
      <4>4. Rest >= 0
        BY <3>6
      <4>5. Due' <= Paid' /\ Paid' < Due' + 100 + (IF HasChange' THEN 0 ELSE minAmount')
        BY <3>4, <3>5, <3>6, <4>1, <4>2, <4>3, <4>4
      <4> QED BY <3>11, <4>5
    <3>9. CASE outs' # req.outs
      <4>1. Paid' = feeAmount
        BY <3>4, <3>6, <3>7, <3>9
      <4>2. Due' <= Paid' /\ Paid' < Due' + 100 + (IF HasChange' THEN 0 ELSE minAmount')
        BY <3>4, <3>5, <3>6, <4>1
      <4> QED BY <3>11, <4>2
    <3> QED BY <3>8, <3>9, Outcome
  <2> QED BY <2>1, <2>2, <2>3, <2>4, ResultAtEnd
<1> QED BY <1>1, <1>2, SelectionInvariant, PTL DEF Spec

\* A change output is worth an output, at every fee rate for which the limit
\* itself fits into 32 bits (NoDustChange; db.go minOutputAmount).
THEOREM NoDustChangeCorrect ==
    ASSUME \A r \in FeeRates : TX_MIN_OUTPUT_AMOUNT * r < Word32
    PROVE  Spec => []NoDustChange
<1>1. Init => NoDustChange
  BY DEF Init, NoDustChange, Made
<1>2. SelectionInv /\ NoDustChange /\ [Next]_vars => NoDustChange'
  <2> SUFFICES ASSUME SelectionInv, NoDustChange, [Next]_vars PROVE NoDustChange'
    OBVIOUS
  <2>1. CASE result' = "none"
    BY <2>1 DEF NoDustChange, Made
  <2>2. CASE UNCHANGED vars
    BY <2>2 DEF vars, NoDustChange, Made, HasChange
  <2>3. CASE FinishShort
    BY <2>3 DEF FinishShort, NoDustChange, Made
  <2>4. CASE FinishChange \/ FinishExact
    <3>1. Returned
      BY <2>4, ReturnStep
    <3>2. SUFFICES ASSUME result' = "tx", NEW i \in 1 .. Len(outs'),
                          \A j \in 1 .. Len(req.outs) : outs'[i] # req.outs[j]
                   PROVE  outs'[i].amount >= 546 /\ outs'[i].amount * 1000 >= 546 * req.rate
      <4>1. req' = req
        BY <3>1, Outcome
      <4> QED BY <4>1 DEF NoDustChange, Made
    <3>3. req.outs \in Seq(AllOutputs) /\ Change \in AllOutputs /\ Change.amount = Rest
          /\ Rest \in Nat
      <4>1. req.outs \in Seq(Outputs) /\ Outputs \subseteq AllOutputs
        BY RequestTyped DEF SelectionInv, RequestOK, Outputs, AllOutputs
      <4> QED BY <3>1, <4>1, ChangeIsOutput
    <3>4. outs'[i] = Change /\ Rest >= minAmount
      <4>1. CASE outs' = req.outs
        BY <3>2, <4>1
      <4>2. CASE Rest >= minAmount /\ outs' = Append(req.outs, Change)
        <5>1. /\ Len(req.outs) \in Nat /\ Len(outs') = Len(req.outs) + 1
              /\ \A j \in 1 .. Len(req.outs) : outs'[j] = req.outs[j]
              /\ outs'[Len(req.outs) + 1] = Change
          BY <3>3, <4>2
        <5> QED BY <3>2, <4>2, <5>1
      <4>3. CASE /\ Rest >= minAmount /\ Len(req.outs) = 2
                 /\ outs' = <<req.outs[1], Change, req.outs[2]>>
        <5>1. i \in 1 .. 3 /\ outs'[1] = req.outs[1] /\ outs'[2] = Change
              /\ outs'[3] = req.outs[2]
          BY <4>3
        <5>2. i = 1 \/ i = 2 \/ i = 3
          BY <5>1
        <5>3. 1 \in 1 .. Len(req.outs) /\ 2 \in 1 .. Len(req.outs)
          BY <4>3
        <5> QED BY <3>2, <4>3, <5>1, <5>2, <5>3
      <4> QED BY <3>1, <3>2, <4>1, <4>2, <4>3, Outcome
    <3>5. req.rate \in FeeRates /\ req.rate \in Nat
      BY RequestTyped DEF SelectionInv, RequestOK, Request
    <3>6. minAmount \in Nat /\ minAmount >= 546 /\ minAmount * 1000 >= 546 * req.rate
      <4>1. TX_MIN_OUTPUT_AMOUNT * req.rate < Word32
        BY <3>5
      <4>2. minOutputAmount(req.rate) * 1000 >= 546 * req.rate
        BY <3>5, <4>1, MinAmountCovers
      <4>3. minOutputAmount(req.rate) \in Nat /\ minOutputAmount(req.rate) >= 546
        BY <3>5, MinAmountIsNat
      <4> QED BY <4>2, <4>3 DEF minAmount
    <3> QED BY <3>3, <3>4, <3>5, <3>6
  <2> QED BY <2>1, <2>2, <2>3, <2>4, ResultAtEnd
<1> QED BY <1>1, <1>2, SelectionInvariant, PTL DEF Spec

LEMMA InputsFetched ==
    ASSUME SelectionInv, pc \in {"select", "finish"}
    PROVE  \A i \in 1 .. Len(ins) : ins[i] \in Fetched
<1>1. Taken \subseteq Fetched
  BY DEF SelectionInv, InputsOK, Spendable
<1>2. \A i \in 1 .. Len(ins) : ins[i] \in Taken
  BY DEF Taken, ToSet, SelectionInv, TypeOK
<1> QED BY <1>1, <1>2

\* SendCoin and SendOmniCoin sign with the keys of branch 1 only, and SignMsgTx
\* refuses every other input: such a transaction never gets one (InnerOnly;
\* db.go GetAllUtxoByBranch, payment.go SignMsgTx).
THEOREM InnerOnlyCorrect == Spec => []InnerOnly
<1>1. Init => InnerOnly
  BY DEF Init, InnerOnly, Made
<1>2. SelectionInv /\ InnerOnly /\ [Next]_vars => InnerOnly'
  <2> SUFFICES ASSUME SelectionInv, InnerOnly, [Next]_vars PROVE InnerOnly'
    OBVIOUS
  <2>1. CASE result' = "none"
    BY <2>1 DEF InnerOnly, Made
  <2>2. CASE UNCHANGED vars
    BY <2>2 DEF vars, InnerOnly, Made
  <2>3. CASE FinishShort
    BY <2>3 DEF FinishShort, InnerOnly, Made
  <2>4. CASE FinishChange \/ FinishExact
    <3>1. Returned
      BY <2>4, ReturnStep
    <3>2. wallet' = wallet /\ req' = req /\ ins' = ins
      BY <3>1, Outcome
    <3>3. \A i \in 1 .. Len(ins) : ins[i] \in Fetched
      BY <3>1, InputsFetched DEF Returned
    <3> QED BY <3>2, <3>3 DEF InnerOnly, Fetched
  <2> QED BY <2>1, <2>2, <2>3, <2>4, ResultAtEnd
<1> QED BY <1>1, <1>2, SelectionInvariant, PTL DEF Spec

LEMMA ThirdOutput ==
    ASSUME NEW R, NEW a \in R, NEW b \in R, NEW c \in R
    PROVE  <<a, b, c>> = Append(<<a, b>>, c)
<1>1. <<a, b>> \in Seq(R) /\ <<a, b, c>> \in Seq(R)
  OBVIOUS
<1> QED BY <1>1

\* The receiver is an output that is neither the payload's nor the sender's,
\* if at most the last one follows it and is the sender's.
LEMMA ReceiverAt ==
    ASSUME NEW s, NEW o, Len(o) \in Nat, NEW n \in 1 .. Len(o),
           o[n].addr # Data, o[n].addr # s,
           \A j \in 1 .. Len(o) : j > n => o[j].addr = s /\ j = Len(o)
    PROVE  OmniReceiver(s, o) = o[n].addr
<1> DEFINE real == {i \in 1 .. Len(o) : o[i].addr # Data}
           meant == {i \in real : o[i].addr # s \/ \E j \in real : j > i /\ o[j].addr = s}
<1>1. n \in meant /\ meant \in SUBSET (1 .. Len(o))
  OBVIOUS
<1>2. \A y \in meant : n >= y
  OBVIOUS
<1>3. OmniReceiver(s, o) = o[Max(meant)].addr
  BY DEF OmniReceiver
<1> HIDE DEF meant
<1>4. Max(meant) = n
  BY <1>1, <1>2, MaxIsGreatest
<1> QED BY <1>3, <1>4

\* The tokens reach the receiver of the request: wherever the change output
\* ended up, Omni's rule finds the receiver's output, not the change
\* (OmniPaysReceiver; handlers.go PrepareOmniTrezorSignHandler).
THEOREM OmniPaysReceiverCorrect == Spec => []OmniPaysReceiver
<1>1. Init => OmniPaysReceiver
  BY DEF Init, OmniPaysReceiver, Made
<1>2. SelectionInv /\ OmniPaysReceiver /\ [Next]_vars => OmniPaysReceiver'
  <2> SUFFICES ASSUME SelectionInv, OmniPaysReceiver, [Next]_vars PROVE OmniPaysReceiver'
    OBVIOUS
  <2>1. CASE result' = "none"
    BY <2>1 DEF OmniPaysReceiver, Made
  <2>2. CASE UNCHANGED vars
    BY <2>2 DEF vars, OmniPaysReceiver, Made
  <2>3. CASE FinishShort
    BY <2>3 DEF FinishShort, OmniPaysReceiver, Made
  <2>4. CASE FinishChange \/ FinishExact
    <3> DEFINE s == wallet[ins[1]].addr
    <3>1. Returned
      BY <2>4, ReturnStep
    <3>2. wallet' = wallet /\ req' = req /\ ins' = ins
      BY <3>1, Outcome
    <3>3. SUFFICES ASSUME result' = "tx", req.outs[1].addr = Data, req.outs[2].addr # s
                   PROVE  OmniReceiver(s, outs') = req.outs[2].addr
      BY <3>2 DEF OmniPaysReceiver, Made
    <3>4. /\ Data \notin WalletAddrs \cup {Payee, Fresh} /\ InnAddrs \subseteq WalletAddrs
          /\ NoAddr # Fresh
      BY AddressAssumption DEF AddressAssumption, WalletAddrs
    <3>5. PICK t \in {Payee} \cup InnAddrs :
             /\ req.outs = <<Out(Data, 0), Out(t, Tiny)>> /\ req.swap = (req.change = Fresh)
      <4>1. req \in Requests
        BY DEF SelectionInv, RequestOK
      <4>2. \A t \in {Payee} \cup InnAddrs, v \in Int : req.outs # <<Out(t, v)>>
        BY <3>3, <3>4 DEF Out
      <4> QED BY <4>1, <4>2, RequestKinds
    <3>6. /\ t # Data /\ t # s /\ req.outs[2].addr = t
          /\ Len(req.outs) = 2 /\ req.outs[1] = Out(Data, 0)
      BY <3>3, <3>4, <3>5 DEF Out
    <3>7. /\ Change.addr = IF req.change # NoAddr THEN req.change ELSE s
          /\ Change.addr # Data /\ req.change \in {NoAddr, Fresh}
      <4>1. Change.addr \in WalletAddrs \cup {Fresh}
        BY <3>1, ChangeIsOutput
      <4>2. req.change \in {NoAddr, Fresh}
        BY RequestTyped DEF SelectionInv, RequestOK, Request
      <4> QED BY <3>4, <4>1, <4>2 DEF Change, Out
    <3> HIDE DEF s
    <3>8. CASE outs' = req.outs
      <4>1. \A j \in 1 .. 2 : ~(j > 2)
        OBVIOUS
      <4>2. OmniReceiver(s, req.outs) = req.outs[2].addr
        BY <3>6, <4>1, ReceiverAt
      <4> QED BY <3>8, <4>2
    <3>9. CASE req.swap = FALSE /\ outs' = Append(req.outs, Change)
      <4>1. req.change = NoAddr /\ Change.addr = s
        <5>1. req.change # Fresh
          BY <3>5, <3>9, Zenon
        <5> QED BY <3>7, <5>1
      <4>2. /\ Len(outs') = 3 /\ outs'[2].addr = t /\ outs'[3].addr = s
        <5>1. req.outs = <<req.outs[1], req.outs[2]>>
          BY <3>5
        <5>2. req.outs[1] \in AllOutputs /\ req.outs[2] \in AllOutputs /\ Change \in AllOutputs
          <6>1. req.outs \in Seq(Outputs) /\ Outputs \subseteq AllOutputs
            BY RequestTyped DEF SelectionInv, RequestOK, Outputs, AllOutputs
          <6> QED BY <3>1, <3>6, <6>1, ChangeIsOutput
        <5>3. outs' = <<req.outs[1], req.outs[2], Change>>
          <6>1. outs' = Append(<<req.outs[1], req.outs[2]>>, Change)
            BY <3>9, <5>1
          <6>2. <<req.outs[1], req.outs[2], Change>> = Append(<<req.outs[1], req.outs[2]>>, Change)
            BY <5>2, ThirdOutput
          <6> QED BY <6>1, <6>2, Zenon
        <5> QED BY <3>6, <4>1, <5>3
      <4>3. \A j \in 1 .. Len(outs') : j > 2 => outs'[j].addr = s /\ j = Len(outs')
        <5>1. \A j \in 1 .. 3 : j > 2 => j = 3
          OBVIOUS
        <5> QED BY <4>2, <5>1
      <4>4. OmniReceiver(s, outs') = outs'[2].addr
        <5>1. 2 \in 1 .. Len(outs') /\ Len(outs') \in Nat
          BY <4>2
        <5> QED BY <3>6, <4>2, <4>3, <5>1, ReceiverAt
      <4> QED BY <3>6, <4>2, <4>4
    <3>10. CASE req.swap = TRUE /\ outs' = <<req.outs[1], Change, req.outs[2]>>
      <4>1. Len(outs') = 3 /\ outs'[3].addr = t
        BY <3>6, <3>10
      <4>2. \A j \in 1 .. 3 : ~(j > 3)
        OBVIOUS
      <4>3. OmniReceiver(s, outs') = outs'[3].addr
        BY <3>6, <4>1, <4>2, ReceiverAt
      <4> QED BY <3>6, <4>1, <4>3
    <3> QED BY <3>1, <3>3, <3>8, <3>9, <3>10, Outcome
  <2> QED BY <2>1, <2>2, <2>3, <2>4, ResultAtEnd
<1> QED BY <1>1, <1>2, SelectionInvariant, PTL DEF Spec

\* A request is refused with everything it may spend among its inputs.
LEMMA ShortOfFunds ==
    ASSUME SelectionInv, FinishShort
    PROVE  /\ Taken = utxos \cup Sender
           /\ balance = totalBalance /\ balance = Total(ins) /\ balance < amount + Due
<1>1. pc = "finish" /\ balance < amount + feeAmount
  BY DEF FinishShort
<1>2. balance \in Int /\ amount \in Int /\ feeAmount \in Nat /\ totalBalance \in Int
  BY AmountsTyped DEF SelectionInv, TypeOK, RequestOK
<1>3. Ahead = {}
  BY <1>1, <1>2 DEF SelectionInv, SumsOK
<1>4. {p \in utxos : p < k} = utxos
  <2>1. \A p \in utxos : p \in Int /\ k \in Int
    BY WalletFacts DEF SelectionInv, TypeOK, Places
  <2> QED BY <1>3, <2>1 DEF Ahead
<1>5. Taken = utxos \cup Sender
  BY <1>1, <1>4 DEF SelectionInv, InputsOK
<1>6. balance = totalBalance /\ balance = Total(ins)
  BY <1>1, <1>5 DEF SelectionInv, SumsOK
<1>7. feeAmount = Due
  <2>1. Due \in Nat
    <3>1. Len(ins) \in Nat
      BY DEF SelectionInv, TypeOK
    <3> QED BY <3>1, FeesTyped DEF SelectionInv, Due
  <2>2. RoundOff(Due) \in Nat /\ (RoundOff(Due) = Due \/ amount + RoundOff(Due) <= totalBalance)
    BY <2>1, FeesTyped DEF SelectionInv
  <2>3. feeAmount \in {Due, RoundOff(Due)}
    BY <1>1 DEF SelectionInv, SumsOK
  <2> QED BY <1>1, <1>2, <1>6, <2>2, <2>3
<1> QED BY <1>1, <1>5, <1>6, <1>7

\* "utxo out of balance" means what it says: everything was added, once, and
\* does not pay for the outputs and the fee (ShortageMeans; db.go
\* CreateTxForOutputs, "insufficient funds").
THEOREM ShortageMeansCorrect == Spec => []ShortageMeans
<1>1. Init => ShortageMeans
  BY DEF Init, ShortageMeans
<1>2. SelectionInv /\ ShortageMeans /\ [Next]_vars => ShortageMeans'
  <2> SUFFICES ASSUME SelectionInv, ShortageMeans, [Next]_vars PROVE ShortageMeans'
    OBVIOUS
  <2>1. CASE result' = "none"
    BY <2>1 DEF ShortageMeans
  <2>2. CASE UNCHANGED vars
    BY <2>2 DEF vars, ShortageMeans, Total, amount, SizeWithChange
  <2>3. CASE FinishShort
    <3>1. UNCHANGED <<wallet, req, utxos, used, ins>>
      BY <2>3 DEF FinishShort
    <3>2. ToSet(ins') = utxos' \cup ({used'} \ {0})
      BY <2>3, <3>1, ShortOfFunds DEF Taken, Sender
    <3>3. Total(ins)' < amount' + Due'
      <4>1. Total(ins)' = Total(ins) /\ amount' = amount /\ Due' = Due
        BY <3>1, Frame DEF Due
      <4> QED BY <2>3, <4>1, ShortOfFunds
    <3> QED BY <3>2, <3>3 DEF ShortageMeans, Due
  <2>4. CASE FinishChange \/ FinishExact
    <3>1. result' \in {"tx", "panic"}
      BY <2>4, ReturnStep, Outcome
    <3> QED BY <3>1 DEF ShortageMeans
  <2> QED BY <2>1, <2>2, <2>3, <2>4, ResultAtEnd
<1> QED BY <1>1, <1>2, SelectionInvariant, PTL DEF Spec

\* The balance queries count what a request without tiny utxos may spend.
LEMMA ReportedIsWorth ==
    ASSUME SelectionInv
    PROVE  Reported = Worth(Spendable) /\ (req.sender = NoAddr => Spendable = Fetched)
<1>1. req.sender = NoAddr <=> req.tiny = FALSE
  BY RequestKinds, AddressAssumption DEF SelectionInv, RequestOK, AddressAssumption
<1>2. req.inner \in BOOLEAN /\ req.tiny \in BOOLEAN
  BY RequestTyped DEF SelectionInv, RequestOK, Request
<1>3. Spendable = {p \in Places : /\ wallet[p].value > Tiny
                                  /\ req.inner => wallet[p].addr \in InnAddrs}
  BY <1>1, <1>2 DEF Spendable, Fetched
<1>4. Reported = Worth(Spendable)
  <2>1. CASE req.inner = TRUE
    <3>1. {p \in Places : wallet[p].addr \in InnAddrs /\ (FALSE \/ wallet[p].value > Tiny)} =
            Spendable
      BY <1>3, <2>1
    <3> QED BY <2>1, <3>1 DEF Reported, getInnerBalance
  <2>2. CASE req.inner = FALSE
    <3>1. {p \in Places : /\ NoAddr \in {NoAddr, wallet[p].addr}
                          /\ FALSE \/ wallet[p].value > Tiny} = Spendable
      BY <1>3, <2>2
    <3> QED BY <2>2, <3>1 DEF Reported, getBalance
  <2> QED BY <1>2, <2>1, <2>2
<1>5. req.sender = NoAddr => Spendable = Fetched
  BY <1>1, <1>3 DEF Fetched
<1> QED BY <1>4, <1>5

\* All that could be spent is what is reported, but a tiny utxo of the sender.
LEMMA ReportedIsSpendable ==
    ASSUME SelectionInv, pc \in {"select", "finish"}
    PROVE  /\ Reported \in Int
           /\ req.sender = NoAddr => totalBalance - Reported = 0
           /\ req.sender # NoAddr => totalBalance - Reported \in 0 .. Tiny
<1>1. /\ totalBalance = Worth(utxos \cup Sender) /\ Sender \subseteq Fetched
      /\ utxos = IF req.sender # NoAddr THEN Spendable ELSE Fetched
      /\ wallet \in Wallets
  BY DEF SelectionInv, SumsOK, InputsOK, TypeOK
<1>2. Reported = Worth(Spendable) /\ Worth(Spendable) \in Int
      /\ (req.sender = NoAddr => Spendable = Fetched)
  BY <1>1, ReportedIsWorth, WorthIsInt
<1>3. CASE req.sender = NoAddr
  <2>1. utxos \cup Sender = Spendable
    BY <1>1, <1>2, <1>3
  <2> QED BY <1>1, <1>2, <1>3, <2>1
<1>4. CASE req.sender # NoAddr
  <2>1. CASE Sender \subseteq Spendable
    <3>1. utxos \cup Sender = Spendable
      BY <1>1, <1>4, <2>1
    <3>2. totalBalance = Reported /\ Reported \in Int
      BY <1>1, <1>2, <3>1
    <3>3. totalBalance - Reported = 0 /\ 0 \in 0 .. Tiny
      BY <3>2 DEF Tiny
    <3> QED BY <3>2, <3>3
  <2>2. CASE ~(Sender \subseteq Spendable)
    <3>1. Sender = {used} /\ used \notin Spendable
      BY <2>2 DEF Sender
    <3>2. used \in Places /\ ~(wallet[used].value > Tiny) /\ wallet[used].value \in Nat
      BY <1>1, <3>1, WalletFacts DEF Fetched, Spendable
    <3>3. Worth(Spendable \cup {used}) = Worth(Spendable) + wallet[used].value
      BY <1>1, <3>1, <3>2, WorthGrows
    <3>4. totalBalance = Reported + wallet[used].value
      BY <1>1, <1>2, <1>4, <3>1, <3>3
    <3>5. totalBalance - Reported = wallet[used].value /\ Reported \in Int
      BY <1>2, <3>2, <3>4
    <3>6. wallet[used].value \in 0 .. Tiny
      BY <3>2 DEF Tiny
    <3> QED BY <1>4, <3>5, <3>6
  <2> QED BY <2>1, <2>2
<1> QED BY <1>3, <1>4

\* The balance reported and the balance that can be spent are one
\* (BalanceIsSpendable; db.go getBalance, getInnerBalance, GetAllUtxo,
\* GetAllUtxoByBranch).
THEOREM BalanceIsSpendableCorrect == Spec => []BalanceIsSpendable
<1> DEFINE Refused == result = "short" =>
                        Reported < amount + txFee(req.rate, SizeWithChange(Len(ins)))
<1>1. Init => Refused
  BY DEF Init
<1>2. SelectionInv /\ Refused /\ [Next]_vars => Refused'
  <2> SUFFICES ASSUME SelectionInv, Refused, [Next]_vars PROVE Refused'
    OBVIOUS
  <2>1. CASE result' = "none"
    BY <2>1
  <2>2. CASE UNCHANGED vars
    BY <2>2 DEF vars, Reported, getBalance, getInnerBalance, Worth, Places, amount,
                SizeWithChange
  <2>3. CASE FinishShort
    <3>1. wallet' = wallet /\ req' = req /\ ins' = ins /\ pc = "finish"
      BY <2>3 DEF FinishShort
    <3>2. Reported' = Reported
      BY <3>1 DEF Reported, getBalance, getInnerBalance, Worth, Places
    <3>3. Reported \in Int /\ totalBalance \in Int /\ Reported <= totalBalance
      <4>1. totalBalance \in Int
        BY DEF SelectionInv, TypeOK
      <4>2. /\ Reported \in Int
            /\ req.sender = NoAddr => totalBalance - Reported = 0
            /\ req.sender # NoAddr => totalBalance - Reported \in 0 .. Tiny
        BY <3>1, ReportedIsSpendable
      <4>3. totalBalance - Reported >= 0
        <5>1. \A d \in 0 .. Tiny : d >= 0
          BY DEF Tiny
        <5>2. CASE req.sender = NoAddr
          <6>1. totalBalance - Reported = 0
            BY <4>2, <5>2
          <6> QED BY <6>1
        <5>3. CASE req.sender # NoAddr
          BY <4>2, <5>1, <5>3
        <5> QED BY <5>2, <5>3
      <4> QED BY <4>1, <4>2, <4>3
    <3>4. Reported < amount + Due
      <4>1. amount \in Int /\ Due \in Int /\ totalBalance < amount + Due
        <5>1. Len(ins) \in Nat
          BY DEF SelectionInv, TypeOK
        <5>2. Due \in Nat
          BY <5>1, FeesTyped DEF SelectionInv, Due
        <5> QED BY <2>3, <5>2, ShortOfFunds, AmountsTyped DEF SelectionInv, RequestOK
      <4> QED BY <3>3, <4>1
    <3>5. amount' = amount /\ Due' = Due
      BY <3>1, Frame DEF Due
    <3> QED BY <3>2, <3>4, <3>5 DEF Due
  <2>4. CASE FinishChange \/ FinishExact
    <3>1. result' \in {"tx", "panic"}
      BY <2>4, ReturnStep, Outcome
    <3> QED BY <3>1
  <2> QED BY <2>1, <2>2, <2>3, <2>4, ResultAtEnd
<1>3. SelectionInv /\ Refused => BalanceIsSpendable
  <2> SUFFICES ASSUME SelectionInv, Refused PROVE BalanceIsSpendable
    OBVIOUS
  <2>1. ASSUME pc \in {"select", "finish"}
        PROVE  totalBalance - Reported \in IF req.sender = NoAddr THEN {0} ELSE 0 .. Tiny
    BY <2>1, ReportedIsSpendable, Zenon
  <2> QED BY <2>1 DEF BalanceIsSpendable
<1> HIDE DEF Refused
<1> QED BY <1>1, <1>2, <1>3, SelectionInvariant, PTL DEF Spec
=============================================================================
