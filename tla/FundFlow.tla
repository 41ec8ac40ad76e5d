------------------------------ MODULE FundFlow ------------------------------
(* From a transaction to the accounts: ParseTransaction (TxParser) reports   *)
(* messages, the Notifier tells the registry of deposits and withdrawals and *)
(* has each message booked in MySQL.  Every call may fail, no call is made   *)
(* again, and the process may die between any two: the block is then read    *)
(* once more and the same messages come again (Subscriber).                  *)
EXTENDS TxParser, DecimalShift

CONSTANTS
    Initiator,    \* the user a withdrawal was made for
    Operator,     \* the user who swept deposits or paid as administrator
    NoUser,       \* user 0
    Places,       \* decimals of an amount (8)
    MinBtc,       \* MIN_BTC_AMOUNT
    MaxFlowOuts,  \* bound: outputs of a transaction the Notifier goes on with
    MaxFailed,    \* bound: failing calls
    MaxRestarts   \* bound: restarts

ASSUME FlowBounds == MaxFlowOuts \in Nat /\ MaxFailed \in Nat /\ MaxRestarts \in Nat
ASSUME FlowValues == MinBtc \in Nat /\ Places \in Nat

VARIABLES
    npc,        \* Notifier: "off", "take", "status", "registry", "user", "coin" or "save"
    n,          \* number of its message
    valid,      \* the node: is the USDT transfer valid?
    recorded,   \* MySQL: does it know the hash of the transaction?
    user,       \* the user looked up
    coinIds,    \* cached number of each currency
    told,       \* the registry: calls that arrived
    rows,       \* MySQL: bookings
    failed,     \* calls that failed
    restarts

accounts == <<told, rows>>
flow == <<npc, n, valid, recorded, user, coinIds, accounts, failed, restarts>>

Coins == {"BTC", "USDT"}
IdOf == [c \in Coins |-> IF c = "BTC" THEN 1 ELSE 2]
Absent == -1
NoText == <<>>

m == messages[n]
Text(k) == LeftShift(String(k), Places)

FlowInit ==
    /\ Init
    /\ npc = "off" /\ n = 1 /\ valid = TRUE /\ recorded = TRUE /\ user = NoUser
    /\ coinIds = [c \in Coins |-> Absent]
    /\ told = <<>> /\ rows = <<>> /\ failed = 0 /\ restarts = 0

Parse ==
    /\ npc = "off"
    /\ Next
    /\ UNCHANGED flow

\* The Listener passes the messages on.  By then the chain has settled whether
\* a USDT transfer is valid, and who made the transaction has recorded its hash
\* or has not.
Deliver ==
    /\ pc = "done" /\ npc = "off" /\ Len(tx.outs) <= MaxFlowOuts
    /\ npc' = "take"
    /\ valid' \in IF \E x \in ToSet(messages) : x.coin = "USDT" THEN BOOLEAN ELSE {TRUE}
    /\ recorded' \in IF \E x \in ToSet(messages) : x.type # "USER_DEPOSIT" THEN BOOLEAN ELSE {TRUE}
    /\ UNCHANGED <<vars, n, user, coinIds, accounts, failed, restarts>>

Take ==
    /\ npc = "take" /\ n <= Len(messages)
    /\ npc' = IF m.coin = "USDT" THEN "status" ELSE "registry"
    /\ UNCHANGED <<vars, n, valid, recorded, user, coinIds, accounts, failed, restarts>>

Fault == failed < MaxFailed /\ failed' = failed + 1
Forget == npc' = "take" /\ n' = n + 1 /\ user' = NoUser

\* GetOmniTxStatus: an invalid transfer is forgotten.
StatusKnown ==
    /\ npc = "status"
    /\ IF valid THEN npc' = "registry" /\ UNCHANGED <<n, user>> ELSE Forget
    /\ UNCHANGED <<vars, valid, recorded, coinIds, accounts, failed, restarts>>

\* Mutant of StatusFails: the transfer is believed.
StatusFailsOpen ==
    /\ npc = "status"
    /\ Fault
    /\ npc' = "registry"
    /\ UNCHANGED <<vars, n, user, valid, recorded, coinIds, accounts, restarts>>

StatusFails ==
    /\ npc = "status"
    /\ Fault
    /\ Forget
    /\ UNCHANGED <<vars, valid, recorded, coinIds, accounts, restarts>>

Small(x) == x.type = "USER_DEPOSIT" /\ x.coin = "BTC" /\ x.amount < MinBtc

\* Mutant of Tells: what is worth the minimum exactly is small, too.
TellsAbove(x) == x.type = "USER_WITHDRAW"
                 \/ (x.type = "USER_DEPOSIT" /\ (x.coin = "BTC" => x.amount > MinBtc))

\* storeTokenDepositTx and storeTokenWithdrawTx.
Tells(x) == x.type = "USER_WITHDRAW" \/ (x.type = "USER_DEPOSIT" /\ ~Small(x))

\* User_into_dc2 is given the address of a deposit, Commit_withdraw_dc the fee
\* of a withdrawal and no address.  (msg is the message the call is made for,
\* not an argument of it.)
Call == [msg |-> n, token |-> m.coin,
         addr |-> IF m.type = "USER_DEPOSIT" THEN m.address ELSE NoAddr,
         amount |-> Text(m.amount),
         fee |-> IF m.type = "USER_WITHDRAW" THEN Text(fee) ELSE NoText]

Tell ==
    /\ npc = "registry"
    /\ npc' = "user"
    /\ told' = IF Tells(m) THEN Append(told, Call) ELSE told
    /\ UNCHANGED <<vars, n, valid, recorded, user, coinIds, rows, failed, restarts>>

\* The error is logged.
TellFails ==
    /\ npc = "registry" /\ Tells(m)
    /\ Fault
    /\ npc' = "user"
    /\ UNCHANGED <<vars, n, valid, recorded, user, coinIds, accounts, restarts>>

\* The owner of a deposit address, the initiator of a withdrawal or the
\* operator of any other transaction; the latter two are found by its hash.
UserOf(x) == CASE x.type = "USER_DEPOSIT" -> x.address
               [] x.type = "USER_WITHDRAW" -> Initiator
               [] OTHER -> Operator
Found(x) == x.type = "USER_DEPOSIT" \/ recorded

\* Without their user these are not booked.
NeedsUser(x) == x.type \in {"USER_DEPOSIT", "FUND_COLLECTION"}

\* EnterFundflowDB looks the user up.  For an unknown hash it books a
\* withdrawal or a deposit of the administrator on user 0.
LookUpUser ==
    /\ npc = "user"
    /\ \/ Found(m) /\ npc' = "coin" /\ user' = UserOf(m) /\ UNCHANGED n
       \/ ~Found(m) /\ ~NeedsUser(m) /\ npc' = "coin" /\ user' = NoUser /\ UNCHANGED n
       \/ ~Found(m) /\ NeedsUser(m) /\ Forget
    /\ UNCHANGED <<vars, valid, recorded, coinIds, accounts, failed, restarts>>

\* Mutant of LookUpUserFails: the rest of the transaction is given up, too.
LookUpUserFailsReturns ==
    /\ npc = "user"
    /\ Fault
    /\ npc' = "take" /\ n' = Len(messages) + 1 /\ user' = NoUser
    /\ UNCHANGED <<vars, valid, recorded, coinIds, accounts, restarts>>

\* The call fails, or only its status is bad: then the user is there all the
\* same, and a withdrawal is booked on it, but not an administrator's deposit.
LookUpUserFails ==
    /\ npc = "user"
    /\ Fault
    /\ \/ NeedsUser(m) /\ Forget
       \/ /\ ~NeedsUser(m) /\ npc' = "coin" /\ UNCHANGED n
          /\ user' \in {NoUser} \cup (IF m.type \in Withdraw /\ Found(m) THEN {UserOf(m)} ELSE {})
    /\ UNCHANGED <<vars, valid, recorded, coinIds, accounts, restarts>>

\* The number of the currency, asked for once.
LookUpCoin ==
    /\ npc = "coin"
    /\ npc' = "save"
    /\ coinIds' = IF coinIds[m.coin] = Absent THEN [coinIds EXCEPT ![m.coin] = IdOf[m.coin]]
                  ELSE coinIds
    /\ UNCHANGED <<vars, n, valid, recorded, user, accounts, failed, restarts>>

\* Mutant of LookUpCoinFails: the 0 it returns is cached.
LookUpCoinFailsCached ==
    /\ npc = "coin" /\ coinIds[m.coin] = Absent
    /\ Fault
    /\ Forget
    /\ coinIds' = [coinIds EXCEPT ![m.coin] = 0]
    /\ UNCHANGED <<vars, valid, recorded, accounts, restarts>>

LookUpCoinFails ==
    /\ npc = "coin" /\ coinIds[m.coin] = Absent
    /\ Fault
    /\ Forget
    /\ UNCHANGED <<vars, valid, recorded, coinIds, accounts, restarts>>

\* The rows of a message, which one procedure call stores together.
Booking(text) == [msg |-> n, coinID |-> coinIds[m.coin], user |-> user,
                  amount |-> Text(m.amount), fee |-> text]

\* A deposit is booked to the wallet and to the system, with one amount.
DepositRows == Booking(NoText)

\* A withdrawal (or a collection) has a second row with the fee of the whole
\* transaction, in the currency of the message.
WithdrawRows == Booking(Text(fee))

Rows == IF m.type \in Deposit THEN DepositRows ELSE WithdrawRows

SaveFlow ==
    /\ npc = "save"
    /\ rows' = Append(rows, Rows)
    /\ Forget
    /\ UNCHANGED <<vars, valid, recorded, coinIds, told, failed, restarts>>

\* Mutant of SaveFails: the call is made again.
SaveFailsRetries ==
    /\ npc = "save"
    /\ Fault
    /\ rows' \in {Append(rows, Rows), Append(Append(rows, Rows), Rows)}
    /\ Forget
    /\ UNCHANGED <<vars, valid, recorded, coinIds, told, restarts>>

\* Refused, unreachable, or stored and the answer lost: all is logged only.
SaveFails ==
    /\ npc = "save"
    /\ Fault
    /\ rows' \in {rows, Append(rows, Rows)}
    /\ Forget
    /\ UNCHANGED <<vars, valid, recorded, coinIds, told, restarts>>

\* The process stops and starts again below the transaction's block.
Restart ==
    /\ npc # "off" /\ restarts < MaxRestarts
    /\ restarts' = restarts + 1
    /\ npc' = "take" /\ n' = 1 /\ user' = NoUser
    /\ coinIds' = [c \in Coins |-> Absent]
    /\ UNCHANGED <<vars, valid, recorded, accounts, failed>>

FlowDone == npc = "take" /\ n > Len(messages) /\ UNCHANGED <<vars, flow>>

FlowNext == Parse \/ Deliver \/ Take \/ StatusKnown \/ StatusFails \/ Tell \/ TellFails
            \/ LookUpUser \/ LookUpUserFails \/ LookUpCoin \/ LookUpCoinFails
            \/ SaveFlow \/ SaveFails \/ Restart \/ FlowDone

FlowSpec == FlowInit /\ [][FlowNext]_<<vars, flow>>

-----------------------------------------------------------------------------
Handled == npc = "take" /\ n > Len(messages)
Of(s, j) == {k \in 1 .. Len(s) : s[k].msg = j}

NotifierOK ==
    /\ npc \in {"off", "take", "status", "registry", "user", "coin", "save"}
    /\ n \in 1 .. Len(messages) + 1
    /\ npc \notin {"off", "take"} => n <= Len(messages)
    /\ npc # "off" => pc = "done"
    /\ valid \in BOOLEAN /\ recorded \in BOOLEAN
    /\ user \in ExtAddrs \cup {Initiator, Operator, NoUser}

CoinIdsOK == coinIds \in [Coins -> {Absent} \cup {IdOf[c] : c \in Coins}]

\* Calls and bookings name a message of the transaction.
Entries(s) ==
    /\ s \in Seq(ToSet(s))
    /\ \A k \in 1 .. Len(s) : s[k].msg \in 1 .. Len(messages)

AccountsOK ==
    /\ Entries(told) /\ Entries(rows)
    /\ npc = "off" => n = 1 /\ told = <<>> /\ rows = <<>>

CountsOK == failed \in 0 .. MaxFailed /\ restarts \in 0 .. MaxRestarts

FlowTypeOK == NotifierOK /\ CoinIdsOK /\ AccountsOK /\ CountsOK

\* Outputs the registry has to learn of: without own inputs, every one to a
\* deposit address worth the minimum; with inner inputs only, every one to
\* somebody else.
Payers == {o.addr : o \in ToSet(tx.ins)}
DueOuts ==
    {j \in 1 .. Len(tx.outs) :
        IF Payers \cap OurAddrs = {} THEN tx.outs[j].addr \in ExtAddrs /\ tx.outs[j].value >= MinBtc
        ELSE Payers \subseteq InnAddrs \cup {Odd} /\ tx.outs[j].addr \in Others}

\* What it learns of such an output: where a deposit arrived, and how much; how
\* much a withdrawal moved, and at what fee.
Fee == SumPaid(tx.ins) - SumPaid(tx.outs)
DueCall(j) ==
    IF Payers \cap OurAddrs = {} THEN <<tx.outs[j].addr, Text(tx.outs[j].value), NoText>>
    ELSE <<NoAddr, Text(tx.outs[j].value), Text(Fee)>>

\* The bitcoin calls at the registry each stand for an output of their own that
\* it has to learn of, with its address or fee and its amount, and no more of
\* them are missing than calls failed.  (Two outputs to one address are
\* excluded, see LedgerBalances; a restart repeats calls.)
RegistryFollowsChain ==
    Handled /\ Known /\ Distinct /\ restarts = 0 =>
        LET coins == {k \in 1 .. Len(told) : told[k].token = "BTC"}
        IN  /\ \E out \in Injection(coins, DueOuts) :
                  \A k \in coins : DueCall(out[k]) = <<told[k].addr, told[k].amount, told[k].fee>>
            /\ Cardinality(DueOuts) <= Cardinality(coins) + failed

\* A failing call costs the booking of one message at most: the others of the
\* transaction are booked all the same, whatever was cached or crashed.  (Not
\* booked anyway are invalid transfers and collections nobody recorded.)
Bookable(x) == (x.coin = "USDT" => valid) /\ (x.type = "FUND_COLLECTION" => recorded)
FailureCost ==
    Handled =>
        Cardinality({j \in 1 .. Len(messages) : Of(rows, j) = {} /\ Bookable(messages[j])}) <= failed

\* Nothing is told or booked twice but by a restart, also when answers are
\* lost.
TwiceOnlyByRestart ==
    \A j \in 1 .. Len(messages) :
        Cardinality(Of(told, j)) <= 1 + restarts /\ Cardinality(Of(rows, j)) <= 1 + restarts

\* A booking names the currency and the user of its message.  Nobody is booked
\* only for what is no user's deposit and no collection, and only if a call
\* failed or the transaction was not recorded.
BookedOn(x, u) ==
    \/ u = UserOf(x) /\ Found(x)
    \/ u = NoUser /\ ~NeedsUser(x) /\ (failed > 0 \/ ~recorded)
RightAccount ==
    \A k \in 1 .. Len(rows) :
        LET x == messages[rows[k].msg]
        IN  rows[k].coinID = IdOf[x.coin] /\ BookedOn(x, rows[k].user)

\* An invalid USDT transfer leaves no trace in the accounts, even if its
\* status could not be read at first.
InvalidLeavesNoTrace ==
    ~valid => \A s \in {told, rows} : \A k \in 1 .. Len(s) : messages[s[k].msg].coin # "USDT"

\* The amounts in the accounts are decimal numbers that mean what the messages
\* say, and so are the fees unless one is negative, which LeftShift garbles; it
\* cannot be when every input was read, and is then what the transaction paid.
TextsMeanValues ==
    LET amounts == UNION {{<<s[k].amount, messages[s[k].msg].amount>> : k \in 1 .. Len(s)} :
                             s \in {told, rows}}
        fees == (UNION {{s[k].fee : k \in 1 .. Len(s)} : s \in {told, rows}}) \ {NoText}
    IN  /\ \A t \in amounts : Denotes(t[1], t[2], Places)
        /\ \A t \in fees : IF lost = {} THEN Denotes(t, Fee, Places)
                           ELSE fee >= 0 => Denotes(t, fee, Places)

\* "small btc deposit less then 0.001 is ignored" (Notifier).
SmallIgnored == \A k \in 1 .. Len(rows) : ~Small(messages[rows[k].msg])
=============================================================================
