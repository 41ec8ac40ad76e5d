------------------------------ MODULE OmniSend ------------------------------
(* Sending USDT: the check of a token balance against pending transactions.  *)
(* SendOmniCoin works under the mutex, so that one request is under way; the *)
(* balance query and SendSignedTx take no mutex, and the node confirms or    *)
(* drops transactions meanwhile.  Amounts are in the smallest unit, and in   *)
(* strings between the wallet, its clients and the node.  What happens to    *)
(* the coins that carry a transfer is modelled in CoinSelection.             *)
EXTENDS DecimalShift, Sums

CONSTANTS
    Addrs,      \* the wallet's addresses that hold tokens
    Out,        \* stands for all other addresses
    NoAddr,     \* no address
    Places,     \* decimals of the token (8)
    MaxInt,     \* the largest int64
    All,        \* all tokens there are (of USDT on Omni less than 2^60)
    Supply,     \* address -> tokens at the start
    Requests,   \* amounts as clients write them
    Paid,       \* amounts of transactions not made by SendOmniCoin
    MaxTxs      \* bound: transactions

ASSUME OmniIntegers == Places \in Nat \ {0} /\ MaxInt \in Nat /\ MaxTxs \in Nat
ASSUME OmniAmounts == Paid \subseteq -MaxInt - 1 .. All /\ Supply \in [Addrs -> 0 .. All]
ASSUME OmniAddresses == Out \notin Addrs /\ NoAddr \notin Addrs

\* An int64 holds the tokens of two addresses.
ASSUME OmniRange == All \in Nat /\ 2 * All <= MaxInt

VARIABLES
    tokens,         \* confirmed balance of each address
    mempool,        \* unconfirmed Omni transactions, in the order of their coming
    made,           \* transactions made so far
    pc,             \* SendOmniCoin: "idle", "refused", "pending", "balance" or "send"
    from,           \* its sender; the receiver matters only in Send
    asked,          \* its amount as the client wrote it
    amount,         \* and as the code understood it
    pendingAmount,  \* what GetOMNIPendingAmount returned
    query,          \* GetOmniBalance: "idle", "pending" or "balance"
    address,        \* its address
    pendingRead,    \* its pending amount
    meanwhile,      \* what happened to the address since its first read
    unchecked,      \* addresses that sent tokens without the check
    negative        \* addresses that sent a negative amount

node == <<tokens, mempool, made>>
request == <<pc, from, asked, amount, pendingAmount>>
balanceQuery == <<query, address, pendingRead>>
past == <<unchecked, negative>>
vars == <<node, request, balanceQuery, meanwhile, past>>

\* A transaction as the node lists it.
Tx == [from : Addrs \cup {Out}, to : Addrs \cup {Out}, amount : Int, usdt : BOOLEAN]

\* int64 arithmetic.
Wrap(n) == ((n + MaxInt + 1) % (2 * (MaxInt + 1))) - (MaxInt + 1)

\* An amount as the node writes it, the sign in front of the decimals; and
\* read by the code, which takes the nearest int64 and ignores the error.
Written(n) == IF n < 0 THEN <<"-">> \o LeftShift(String(-n), Places)
              ELSE LeftShift(String(n), Places)
Nearest(n) == IF n \in -MaxInt - 1 .. MaxInt THEN n
              ELSE IF n > MaxInt THEN MaxInt ELSE -MaxInt - 1
Read(n) == Nearest(ParseInt(RightShift(Written(n), Places)))

\* What of each transaction in the mempool counts.
Listed(Counts(_), Amount(_)) ==
    SumOf([k \in 1 .. Len(mempool) |->
             IF Counts(mempool[k]) THEN Amount(mempool[k].amount) ELSE 0])

\* Mutant of PendingOf: what others pay the address counts as well.
PendingOfBoth(a) == Wrap(Listed(LAMBDA t : a \in {t.from, t.to} /\ t.usdt, Read))

\* GetOMNIPendingAmount: of what the node lists for the address, its own
\* simple sends of USDT.
PendingOf(a) == Wrap(Listed(LAMBDA t : t.from = a /\ t.usdt, Read))

\* GetUSDTBalance.
BalanceOf(a) == Read(tokens[a])

Init ==
    /\ tokens = Supply /\ mempool = <<>> /\ made = 0
    /\ pc = "idle" /\ from = NoAddr /\ asked = <<>> /\ amount = 0
    /\ pendingAmount = 0
    /\ query = "idle" /\ address = NoAddr /\ pendingRead = 0
    /\ meanwhile = {} /\ unchecked = {} /\ negative = {}

-----------------------------------------------------------------------------
\* SendOmniCoin

\* Mutant of Ask: the error of strconv, which comes with the nearest number,
\* is not looked at.
AskUnranged ==
    /\ pc = "idle"
    /\ \E s \in Requests :
         LET shifted == RightShift(s, Places)
         IN  IF IsInt(shifted)
             THEN pc' = "pending" /\ from' \in Addrs /\ asked' = s /\ amount' = ParseInt(shifted)
             ELSE pc' = "refused" /\ asked' = s /\ UNCHANGED <<from, amount>>
    /\ UNCHANGED <<pendingAmount, node, balanceQuery, meanwhile, past>>

\* A request comes in; its amount must be a number of the smallest unit.
Ask ==
    /\ pc = "idle"
    /\ \E s \in Requests :
         LET shifted == RightShift(s, Places)
         IN  IF IsInt(shifted) /\ ParseInt(shifted) \in -MaxInt - 1 .. MaxInt
             THEN pc' = "pending" /\ from' \in Addrs /\ asked' = s /\ amount' = ParseInt(shifted)
             ELSE pc' = "refused" /\ asked' = s /\ UNCHANGED <<from, amount>>
    /\ UNCHANGED <<pendingAmount, node, balanceQuery, meanwhile, past>>

\* The request ends and gives the mutex back.
End ==
    /\ pc' = "idle" /\ from' = NoAddr /\ asked' = <<>> /\ amount' = 0
    /\ pendingAmount' = 0

\* A refused amount, a failed RPC call or one of CreateTxForOutputs,
\* SignMsgTx or SendTransaction.
Fail ==
    /\ pc \in {"refused", "pending", "balance", "send"}
    /\ End
    /\ UNCHANGED <<node, balanceQuery, meanwhile, past>>

ReadPending ==
    /\ pc = "pending"
    /\ pendingAmount' = PendingOf(from)
    /\ pc' = "balance" /\ asked' = <<>>
    /\ UNCHANGED <<from, amount, node, balanceQuery, meanwhile, past>>

\* Mutant of Enough: one comparison instead of two.
EnoughOnce(balance) == balance >= Wrap(pendingAmount + amount)

Enough(balance) == balance >= amount /\ balance >= Wrap(pendingAmount + amount)

ReadBalance ==
    /\ pc = "balance"
    /\ IF Enough(BalanceOf(from)) THEN pc' = "send" /\ UNCHANGED <<from, asked, amount, pendingAmount>>
       ELSE End
    /\ UNCHANGED <<node, balanceQuery, meanwhile, past>>

\* The node takes a transaction, whatever its tokens; they move when a block
\* confirms it.
Broadcast(t) ==
    /\ made < MaxTxs /\ made' = made + 1
    /\ mempool' = Append(mempool, t)
    /\ UNCHANGED tokens

\* What the balance query has to know of its address.
Happens(event, t) ==
    meanwhile' = IF query = "balance" /\ t.from = address /\ t.usdt
                 THEN meanwhile \cup {event} ELSE meanwhile

\* A negative amount goes into the transaction as an unsigned number above
\* all int64, which moves nothing; the node may list it as that number, as
\* the negative one, or not among the transfers of USDT.
Listings(sender, to, n) ==
    [from : {sender}, to : {to}, amount : {n}, usdt : {TRUE}]
    \cup IF n >= 0 THEN {}
         ELSE [from : {sender}, to : {to}, amount : {n % (2 * (MaxInt + 1))}, usdt : BOOLEAN]

\* A transfer of n tokens is sent.
Transfer(sender, to, n) ==
    /\ \E t \in Listings(sender, to, n) : Broadcast(t) /\ Happens("sent", t)
    /\ negative' = IF n < 0 THEN negative \cup {sender} ELSE negative

\* The tokens of the first input move: another address than asked for, if
\* that one has no coins (CreateTxForOutputs).
Send ==
    /\ pc = "send"
    /\ \E sender \in Addrs, to \in Addrs \cup {Out} :
         /\ Transfer(sender, to, amount)
         /\ unchecked' = IF sender = from THEN unchecked ELSE unchecked \cup {sender}
    /\ End
    /\ UNCHANGED balanceQuery

\* SendSignedTx of a transfer that prepareOmniTrezorSign made: no check.
SendSigned ==
    /\ \E sender \in Addrs, n \in Paid :
         Transfer(sender, Out, n) /\ unchecked' = unchecked \cup {sender}
    /\ UNCHANGED <<request, balanceQuery>>

-----------------------------------------------------------------------------
\* GetOmniBalance

Query ==
    /\ query = "idle"
    /\ query' = "pending" /\ address' \in Addrs
    /\ UNCHANGED <<pendingRead, node, request, meanwhile, past>>

QueryPending ==
    /\ query = "pending"
    /\ pendingRead' = PendingOf(address)
    /\ query' = "balance"
    /\ UNCHANGED <<address, node, request, meanwhile, past>>

\* What the second call makes of the answer.
Reply == LeftShift(String(Wrap(BalanceOf(address) - pendingRead)), Places)

\* It is sent, or a call has failed.
QueryEnds ==
    /\ query # "idle"
    /\ query' = "idle" /\ address' = NoAddr /\ pendingRead' = 0 /\ meanwhile' = {}
    /\ UNCHANGED <<node, request, past>>

-----------------------------------------------------------------------------
\* The node

\* Somebody pays the wallet tokens, or an address moves another token.
Foreign ==
    /\ \E t \in [from : {Out}, to : Addrs, amount : Paid \cap Nat, usdt : {TRUE}]
             \cup [from : Addrs, to : {Out}, amount : Paid \cap Nat, usdt : {FALSE}] : Broadcast(t)
    /\ UNCHANGED <<request, balanceQuery, meanwhile, past>>

\* Tokens move if the sender has them; else the transfer is invalid.
Moved(t) ==
    LET valid == t.usdt /\ t.amount >= 0 /\ (t.from = Out \/ tokens[t.from] >= t.amount)
    IN  [a \in Addrs |-> tokens[a] - (IF valid /\ a = t.from THEN t.amount ELSE 0)
                                   + (IF valid /\ a = t.to THEN t.amount ELSE 0)]

Leaves(k) == mempool' = RemoveAt(mempool, k)

\* Nobody gets more tokens than there are.
Confirm ==
    /\ \E k \in 1 .. Len(mempool) :
         /\ Leaves(k) /\ Happens("confirmed", mempool[k])
         /\ tokens' = Moved(mempool[k]) /\ \A a \in Addrs : tokens'[a] <= All
    /\ UNCHANGED <<made, request, balanceQuery, past>>

Evict ==
    /\ \E k \in 1 .. Len(mempool) : Leaves(k) /\ Happens("evicted", mempool[k])
    /\ UNCHANGED <<tokens, made, request, balanceQuery, past>>

Next == Ask \/ Fail \/ ReadPending \/ ReadBalance \/ Send \/ SendSigned
        \/ Query \/ QueryPending \/ QueryEnds
        \/ Foreign \/ Confirm \/ Evict

Spec == Init /\ [][Next]_vars

-----------------------------------------------------------------------------
\* Tokens an address has promised.
Promised(a) == Listed(LAMBDA t : t.from = a /\ t.usdt, LAMBDA x : x)

TypeOK ==
    /\ tokens \in [Addrs -> Nat]
    /\ mempool \in Seq(Tx) /\ made \in 0 .. MaxTxs
    /\ pc \in {"idle", "refused", "pending", "balance", "send"}
    /\ from \in Addrs \cup {NoAddr}
    /\ asked \in Requests \cup {<<>>}
    /\ amount \in -MaxInt - 1 .. MaxInt /\ pendingAmount \in -MaxInt - 1 .. MaxInt
    /\ query \in {"idle", "pending", "balance"}
    /\ address \in Addrs \cup {NoAddr} /\ pendingRead \in -MaxInt - 1 .. MaxInt
    /\ meanwhile \subseteq {"sent", "confirmed", "evicted"}
    /\ unchecked \subseteq Addrs /\ negative \subseteq Addrs

\* The tokens of an address cover all it has promised, whatever is confirmed
\* between the two calls of the check: no transfer fails in its block.  Not
\* so once the address has sent tokens past the check, by SendSignedTx or in
\* the place of a requested sender that has no coins; and not once it has
\* sent a negative amount, which the code accepts and broadcasts, and which
\* counts against the later pending sums if the node lists it so.
TokensCover == \A a \in Addrs \ (unchecked \cup negative) : Promised(a) <= tokens[a]

\* Digits with one dot at most.
Plain(s) == s \in Seq(DigitChars \cup {"."}) /\ Undotted(s) \in Seq(DigitChars)

\* Of a request without a sign the code reads the amount the client wrote,
\* and refuses only what is no number, too precise or too large; a mere dot
\* counts as 0.  Shifting that amount down moves its point and nothing else.
AmountMeant ==
    Plain(asked) =>
        /\ pc = "pending" /\ asked = <<".">> => amount = 0
        /\ pc = "pending" /\ asked # <<".">> =>
             /\ Denotes(asked, amount, Places)
             /\ Denotes(LeftShift(asked, Places), amount, 2 * Places)
        /\ pc = "refused" =>
             ~(IsNumeral(asked) /\ Fraction(asked) <= Places /\ Value(asked, Places) <= MaxInt)

\* The balance query answers what the address has and has not promised, and
\* no amount if it has promised more than it has; such an answer has a sign,
\* mostly garbled by LeftShift.  It may answer less if something left the
\* mempool between its two calls; it never answers more, unless the address
\* sent something meanwhile, or has ever sent a negative amount.
BalanceReplies ==
    query = "balance" /\ address \notin negative =>
        LET left == tokens[address] - Promised(address)
        IN  /\ meanwhile = {} =>
                 IF left >= 0 THEN Denotes(Reply, left, Places) ELSE ~IsNumeral(Reply)
            /\ "sent" \notin meanwhile /\ IsNumeral(Reply) => Value(Reply, Places) <= left
=============================================================================
