# Verification of dashcash-wallet

TLA+ models, TLC checks and TLAPS proofs about the wallet service in `src/`: a Go
daemon that watches a Bitcoin-like node (BTC, BCH, BSV, with USDT on Omni), keeps a
database of the wallet's unspent outputs, reports deposits and withdrawals to the
accounting side and builds, signs and broadcasts payments over HTTP.

## 1. Inventory

| Component | Code | State | Operations |
|---|---|---|---|
| process lifecycle | `main.go` | up/down, ticker | start, tick (save + poll), interrupt |
| subscriber | `subscriber.go` | `ch1`, `ch2`, `blkPool`, `last_id`, `config.LastBlock` | `GetNewerBlock`, `Listener`, `Notifier` |
| configuration file | `config/config.go` | `lastBlock`, `index`, `change_index` on disk | load, save |
| transaction parsing | `chain.go` | none of its own | `ReadBlock`, `ParseTransaction`, `ParseMempoolTransaction`, `SendTransaction` |
| utxo database | `db.go` | badger: outpoint -> address:value | `createUtxo`, `removeUtxo`, queries, balances |
| coin selection | `db.go` | local to a call | `CreateTxForOutputs`, `txFee`, `minOutputAmount` |
| building and signing | `payment.go` | none | `BuildRawMsgTx`, `SignMsgTx`, `PrepareTrezorSign` |
| HTTP handlers | `handlers.go` | mutex `m`, the shared `tx` of `SendSignedTx` | send, prepare, sendSigned, getAddress, queries |
| addresses | `util/*.go` | address -> path map, `Index`, `InIndex` | derive, encode, decimal shifts |
| Omni tokens | `usdt/usdt.go` | none | payload, balance, pending amount |
| fund flow, registry | `fundflow.go`, `extapi.go` | MySQL rows, registry entries | one write per message |
| zmq | `zmq.go` | - | never started: dead code |
| stubs | `NeexTrx/` | - | generated |

How they interact:

* `main` polls the node once a minute and pushes the height into `ch2`; the Listener
  reads every block up to it, edits the utxo database on the way (through
  `ParseTransaction`), parks the two youngest blocks in `blkPool` and pushes the
  messages of confirmed blocks into `ch1`; the Notifier takes them from there to the
  registry and to MySQL. `config.LastBlock` is the only progress that is saved.
* The handlers choose outputs from the same database, broadcast through the node, and
  edit the database themselves. Send and prepare requests hold one mutex; `SendSignedTx`
  and the Listener do not take it. Every edit is a database transaction of its own.
* The Notifier asks the node whether a USDT transfer is valid, tells the registry of user
  deposits and withdrawals, looks up user and currency in MySQL and books the message
  there: five calls, each of which may fail, none of which is made again.
* `SendOmniCoin` and `getOmniBalance` read an address's pending transfers and then its
  balance, two calls between which the node goes on.
* The node is the shared environment: blocks, reorganisations, its mempool, lost answers.

What is hard: the ageing of blocks through two branches and a pool; stops between
pushing, delivering and saving; three kinds of writers of one database, two of which
edit for the same transaction at different times; classification with missing inputs;
fees, change and dust at the boundaries. `PROJECT.json` lists each hazard at its line.

What correctness means, per component:

* *subscriber*: every wallet transaction is reported once, in chain order, confirmed,
  eventually; a restart skips none (`ConfirmedFeed` and the invariants of `Subscriber`);
* *utxo database*: it converges to the node's view: no coin lost, no spent coin back (with the
  two exceptions that `SpentLeave` states);
* *coin selection*: inputs accounted for, the fee within bounds of what was computed for it,
  no dust, right branch, right Omni sender and receiver, no refusal while everything would pay;
* *parsing*: the messages account for the change of the wallet's balance;
* *addresses*: no address handed out twice, every address recognised;
* *fund flow*: registry and MySQL follow the chain, each failure costs one message at most,
  duplicates come from restarts only, amounts are the numbers that moved;
* *Omni tokens*: an address that sends only positive amounts and with the check promises no
  more tokens than it has; amounts are read and written as what they mean.

## 2. Modules

| Module | Models | Composes |
|---|---|---|
| `WalletChain` | heights, blocks, messages, `MIN_CONFIRMATION` | |
| `ConfirmedFeed` | abstract: confirmed transactions are fed in order, once, eventually | extends `WalletChain` |
| `Subscriber` | main, Listener, Notifier, both channels, pool, saved counter, node | extends `WalletChain`, refines `ConfirmedFeed` |
| `SubscriberProofs` | theorems about `Subscriber` | extends `Subscriber`, `TLAPS` |
| `CoinSelection` | one call of `CreateTxForOutputs` | extends `Sums` |
| `WalletUtxo` | database, node mempool and chain, Listener, SendCoin, trezor requests | |
| `TxParser` | one call of `ParseTransaction` | extends `Sums` |
| `DecimalShift` | `LeftShift`, `RightShift` on characters, and what numerals denote | |
| `FundFlow` | the Notifier's work on a transaction's messages: node, registry, MySQL | extends `TxParser`, `DecimalShift` |
| `OmniSend` | `SendOmniCoin`'s check and the balance query against an Omni node | extends `DecimalShift`, `Sums` |
| `AddressBook` | `Index`, `InIndex`, the address map, the configuration file, stops and crashes | |
| `Sums` | the sum of a sequence of numbers (`SumOf`), and of some places of it (`Part`) | |
| `NumberFacts` | lemmas: least and greatest elements, what changes a sum and what bounds it, numbers written as strings and what the shifts make of them | extends `Sums`, `DecimalShift`, `TLAPS` |
| `AddressBookProofs`, `TxParserProofs`, `WalletUtxoProofs` | theorems about the module of that name | extend it and `TLAPS`, the second `NumberFacts` |
| `FundFlowProofs` | theorems about `FundFlow` | extends `FundFlow`, `TxParserProofs` |
| `OmniSendProofs` | theorems about `OmniSend` | extends `OmniSend`, `NumberFacts` |
| `CoinSelectionProofs` | theorems about `CoinSelection` | extends `CoinSelection`, `NumberFacts` |
| `MC*` | instances for TLC | |

Variables carry the code's names where there is one. Mutants (definitions commented
"Mutant of X") are plausible bugs of the definition below them, kept to show that the
properties can fail; no specification uses them.

**Subscriber.** One action per step of a goroutine between two shared accesses. `pend`
is the height `GetNewerBlock` is about to push (main blocks there while `ch2` is full,
and neither saves nor sees the interrupt); `lpc` is the Listener's place: waiting, at the
loop condition, pushing a block (`job`), advancing. `ReadDirect` is the branch
`last < stop`, `ReadPooled` the other one with its one look-up of `last-2`; `PoolKey`,
`Save` and `Load` keep the 64-bit wrap and `MustInt`'s zero. `ReadFails` leaves the loop
and uses the message up, as `break` does. A block is its branch and its number of wallet
messages; an empty entry stands for an absent key of `blkPool`, because only non-empty
blocks are stored. `config.LastBlock` and the Listener's counter are one variable, since
line 159 copies one to the other. The registry and MySQL calls of the Notifier are one
step, `NotifierDone`: `delivered` means that the Notifier has finished with the message,
not that a store accepted it. `FundFlow` takes that step apart; it shows that the Notifier
always gets to the next message, whatever fails, which is what makes one step of it.

**CoinSelection.** The loop machine of `CreateTxForOutputs`: `Fetch` (database query),
`Collect` (first loop), `SelectSkip`/`SelectTooLarge`/`SelectAdd`/`SelectAll` (second
loop), `Finish*` (the branches at the end). The list of utxos is in the order of the
database iterator, so it is the set of their places there (`utxos`), read upwards: `k` is
the first place not looked at, `At` the one looked at next. Amounts of sets of places are
added up by `Worth`, those of the inputs by `Total`. Requests are exactly those of the four
calling handlers; `Return` includes the swap of outputs by `PrepareOmniTrezorSign` and
its panic when there is no third output. `FinishGone` is the race with the Listener,
which may remove the first input before its address is looked up. The size the code computes
the fee for is that of the transaction before signing (41 bytes per input); `SignedSize` is
that of the one broadcast (148 bytes per input), which the property is about. `getBalance` and
`getInnerBalance` are the queries a client decides by; `BalanceIsSpendable` compares them
with what the call can spend.

**WalletUtxo.** The node holds transactions, a mempool and blocks, in topological order or
(`Ctor`, BCH) in any; it accepts a transaction whose inputs exist and are unspent. The two parse
functions become what they remove and what they create, and their actor applies these edits one
at a time (`ListenerEdit`, `CoinEdit`, `SignedEdit`), removals first, the order within the two
left open, interleaved freely with all others: nothing holds a `SendSignedTx` handler, which
takes no mutex, to any order with blocks or requests. `late` remembers the outputs that such a
handler created after they had been spent. `ReadBlock` parses the next transaction of the block
and `NextBlock` leaves the block after the last one. Which outputs are chosen is left open: any
set of the right branch. A failed `GetRawTransaction` leaves one removal out; a lost answer of
`sendrawtransaction` leaves the handler with an error although the node accepted; `Evict` drops
a transaction from the mempool; `Restart` loses all requests and takes the Listener back as
`Subscriber` does. `-addUtxo`/`-rmUtxo`, the shared `tx` of `SendSignedTx` and reorganisations
(these are in `Subscriber`) are not modelled.

**TxParser.** One action per input and output. An OP_RETURN output is a pseudo address
(`Usdt` with its amount, or `Memo`), a script without address is `Odd`. `LoseInput` is a
failed `GetRawTransaction`. The difference of unsigned fees is read back as `int64`, so
plain integers are exact. The chain is `btc`; for others the Omni branch is skipped.

**DecimalShift.** A string is a sequence of characters, and the two shifts are translated branch
by branch, the treatment of a sign as a digit included. `String` is `big.Int.String`, `IsInt`
and `ParseInt` are `strconv.ParseInt` with either sign but without its range check (`OmniSend`
adds that); a text that is no number is read as 0. `Undotted` is what both shifts and the
reference make of a string first: its characters without the dot. The operators were compared
with a transcription of the Go functions on all strings of up to five characters over `0`, `5`,
`.` and `-` with at most one dot. `Value` and `Denotes` are the reference: what a numeral means.

**FundFlow.** `Parse` is a step of `TxParser`; `Deliver` passes the messages on, and the
Notifier then takes each through `status`, `registry`, `user`, `coin` and `save`, one action for
the answer and one for the failure of each call. `Call` is what the registry is given: of a
deposit its address and amount, of a withdrawal its amount and fee and no address. `recorded`
tells whether MySQL knows the hash of the transaction, by which all users but the owners of
deposit addresses are found (`Found`). The four `save*TxFlow` functions differ in whom they look
up (`UserOf`: a deposit of the administrator is booked on the operator if its hash is recorded,
as that of a sweep is whose inputs could not be read), in whether they go on without
(`NeedsUser`) and in whether a fee row comes with the amount (`DepositRows`, `WithdrawRows`);
the rows of a message are one stored procedure call, hence one entry of `rows`. A failing save
may have stored the rows (the answer is lost). `Restart` may fall between any two calls and
makes the Notifier get the same messages again, as the saved distance of three blocks does in
`Subscriber`. Amounts and fees in `told` and `rows` are the strings the code passes; the number
of the message in them is bookkeeping, and the properties that speak of the chain do not use it.

**OmniSend.** `Ask`, `ReadPending`, `ReadBalance` and `Send` are `SendOmniCoin`, under the
mutex and therefore one at a time; `Query`, `QueryPending`, `QueryEnds` are
`getOmniBalance`; `SendSigned` is `SendSignedTx`, which checks nothing. All amounts pass
through `DecimalShift`, those of requests as clients write them: a bare dot counts as 0,
more decimals than the token has are refused, and signs are accepted, as the handler does: a
negative amount passes both comparisons and is broadcast as the unsigned number of those bits.
What the node makes of that is not in `src/`; `Listings` leaves open whether it lists the
transfer with that number, with the negative one, or not as USDT at all, and `negative` marks
the senders. `Nearest` is the number that `strconv.ParseInt` returns with its range error, which
the code ignores in what the node writes. `Wrap` is 64-bit arithmetic. The mempool is a
sequence, because the code adds up a list; nothing depends on its order. The node's
`Confirm` moves tokens or finds the transfer invalid, `Evict` drops it. `unchecked` marks
addresses that sent tokens without the check: by `SendSigned`, or because the requested
sender had no coins and another address's were spent (`coin_sender`).

**AddressBook.** An address is its path `<<branch, index>>`; `addrs` holds the paths whose
address is in the map in the form the parser looks up. On BTC `getNewAddrByBranch` stores that
form; on BCH it stores the legacy form, which nobody looks up, and `StoreAddrPath` stores the
other one. The request that holds the mutex stores, counts and replies in three steps; a token
transfer without a sender stores the first inner address (`DefaultSender`); `SaveConfiguration`
takes no mutex and reads `Index` first; reading `InIndex` and `LastBlock` and writing the file are
one step more, and what may happen between these is left to happen between `Index` and them.
`Interrupt` closes the server (replies no longer arrive), `CloseDb` the database, and the last
save follows (a handler that was waiting for the mutex may still start, but can only
count an address that it does not deliver, so that `GetAddr` leaves it out); meanwhile the Listener
goes on, and what it reads after `CloseDb` is not stored (`ReadUnkept`). `Crash` may fall
anywhere. A block pays one handed out address or nothing. `lost` is what a crash made the wallet
forget and what was not handed out again since. Whether a payment succeeds is left to
`CoinSelection`.

## 3. Runs

| Run | Result | Shows |
|---|---|---|
| `subscriber_crash` | holds | `SentConfirmed`, `PoolDrains`, `ResumeNeverSkips`, `NothingDropped`, `SentInOrder` under a reorganisation, a crash or interrupt, up to three blocks per poll |
| `subscriber_feed` | holds | `Subscriber` implements `ConfirmedFeed` (safety and liveness) with one failing read |
| `pool_leak` | violated | a parked block is left behind |
| `reorg` | violated | a transaction off the chain is broadcast as confirmed |
| `shutdown` | violated | a clean stop loses queued messages |
| `coin_selection` | holds | accounting, bounds of the fee, dust, branch, Omni receiver, what a shortage means, and that the balance reported is what can be spent |
| `coin_sender` | violated | another address's tokens are spent |
| `wallet_utxo` | holds | `LossOnlyByEviction`, `SpentLeave`, `ConfirmedSpendsHold`, with `SendSignedTx` as slow as it may be |
| `fund_flow` | holds | of `TxParser` `LedgerBalances`, `UserWithdrawIsHot`, `OmniIsCredited`; of `FundFlow` `RegistryFollowsChain`, `FailureCost`, `TwiceOnlyByRestart`, `RightAccount`, `InvalidLeavesNoTrace`, `TextsMeanValues`, with an input that cannot be read, one failing call and one restart |
| `small_deposit` | violated | a deposit too small to be told to the registry is booked all the same |
| `omni_send` | holds | `TokensCover`, `AmountMeant`, `BalanceReplies`, with requests for negative amounts |
| `address_book` | holds | `HandedOutOnce`, `CrashCost`, `Remembered`, `PaymentsCredited` over saves, two stops or crashes, BTC and BCH |

The violated properties are the wording of comments in the code (`PROJECT.json`,
"findings"); each trace is a behaviour of the code.

Bounds, and why they are enough:

* *subscriber*: height 5 gives three confirmations, the wrap below 3 and a restart above
  it; channels of capacity 2 fill and block both senders; one reorganisation of depth one
  reaches a parked block; one stop may fall between any two steps. `Word` is 64 and
  `MaxInt` 31, the relation of 2^64 to 2^63-1 that matters (a wrapped number is above
  `MaxInt`). The leak needs height 6. The refinement run takes two transactions per block,
  so that order within a block matters, at height 4.
* *MaxLag* bounds the blocks mined after the last poll. It is part of the result, not a
  convenience: at 3 without failing reads and at 1 with one failing read the pool drains,
  one more and it leaks (`pool_leak`, at 2 with one failing read).
* *coin selection*: up to three utxos over one deposit and two inner addresses; the
  values straddle dust (546), the fee of an input and change worth an output at both
  rates; `TX_MAX_SIZE` is 210, so that three inputs are too many. `Word32` is 2^30, above
  every product here (TLC's integers have 32 bits): the overflow itself is not reached.
* *wallet utxo*: three transactions are a deposit and two spends in a chain; three blocks
  let each be confirmed apart, which is what a late edit needs; one trouble at a time
  (failed call, eviction or restart). An action constraint (`Busy`) leaves out steps that do
  not matter to what follows; the theorems of section 5 need none.
* *parser, fund flow*: two inputs and three outputs reach every branch: mixed inputs, change,
  sender's change before and after the receiver, two OP_RETURNs, scripts without address. The
  Notifier goes on with those of at most two outputs (`MaxFlowOuts`), which give up to two
  messages: what one message may do to another is all that more could show. The values are 1 and
  101, `MinBtc` is 101: below the minimum and exactly at it. With two decimals, amounts and fees
  of one, two and three digits (0, 1, 99 or 100, 101) take all three branches of `LeftShift`:
  shorter than the places, as long, and longer. An input that cannot be read makes fees
  negative. A memo output carries 0. One call may fail and one restart may come between, before
  or after it. Addresses of others are interchangeable (symmetry).
* *omni*: two addresses with 8 tokens each (symmetric), two decimals, and `MaxInt` 447 in place
  of 2^63-1, so that an amount can overflow the sum with the pending one. `All`, the tokens
  there are, is 100, less than half of `MaxInt` (`OmniRange`; all USDT on Omni are below 2^60):
  without that the second comparison can overflow and pass. Three transactions: one pending, one
  being confirmed, one sent. The twelve requests put the dot at every place and carry either
  sign. Three constraints keep the run small. `Apart` leaves out queries that overlap the reads
  of a request, since neither influences the other (a transfer is still sent at any point of a
  query), and queries of an address that sent a negative amount, of which nothing is claimed.
  `Later` makes requests of 4, -4 and 444 hundredths once there are transactions (the last exceeds
  `MaxInt` with a pending one), since reading an amount does not depend on the node. `OneNegative` keeps one negative transfer in the mempool.
  `SendSigned` sends 4 here; its negative amounts are left to the theorems. The theorems of
  section 5 need none of this.
* *address book*: at most three blocks are read between `closeDb` and the end of the last save
  (`MaxClosed`); with four `PaymentsCredited` fails, as it must. Two external addresses and one
  for change, so that a save may fall between any two hand-outs; four blocks, one more than the
  distance the saved counter keeps, so that a restart does skip a block that was read; two
  stops, of either kind. One block pays, because payments do not influence each other (two were
  tried: 16 million states, no violation).

Deadlock is checked in all runs but `wallet_utxo` and `address_book`, which end when their
bounds are used up. The single calls end in a stuttering `Done`; the subscriber never stops,
since main's ticker goes on.

What `wallet_utxo` shows of the limits of the code:

* `SendSignedTx` has no mutex, and a handler may be so slow that its transaction is mined, read
  and spent from before it creates the output in the database: the spent output is then back,
  and a later request may choose it. `SpentLeave` and `ConfirmedSpendsHold` make this one
  exception and no wider: the output is in `late`, and everything in `late` was mined before.
  Without the exception TLC finds both violated. `SendCoin` needs none, because the mutex keeps
  anybody else from preparing a spend of its change: without the mutex in `PrepareTrezorSign` TLC
  finds a violation of `ConfirmedSpendsHold`.
* On BCH a block is ordered by transaction id, and a child may precede its parent: the
  Listener then removes an output that is not there and creates it afterwards, and the
  spent output stays for good. `SpentLeave` says that nothing else brings one back
  (`ChildFirst`); without that exception TLC finds this behaviour at once.
* An *unconfirmed* output that was spent does come back when the Listener reads its block
  (`createUtxo` looks only for the key) and stays until its spender's block is read; a
  request in between may choose it and is refused by the node. The properties say exactly
  what is left: settled outputs stay spent, and nothing survives the spender's block.
* `SpentLeave` needs every removal to succeed (`faults = 0`): after a failed
  `GetRawTransaction` a spent output stays in the database for good.
* An evicted transaction's inputs are never restored; `LossOnlyByEviction` says that
  nothing else loses a coin, failures and restarts included.

What `address_book` shows of the limits of the code:

* A crash costs what was handed out since the last complete save began (up to a minute of
  requests): such an address may be handed out to a second client, and a payment to it
  that is read before that is not credited, unless a restart reads its block again
  (`missed`).
* Without a receiver, `prepareTrezorSign` pays the first inner address. While `InIndex` is
  0 and the transaction has no change, that address is not counted and a clean restart
  forgets it. The model pays only addresses that were counted; the case is a hazard.
* On BCH the change address becomes empty in a conversion, so that change goes to the first
  input's address and the path is counted for nothing (`PrepareChange`).

What `coin_selection` shows of the limits of the code: the fee is computed for the transaction
before it is signed. `FeeBounds` bounds what is paid by that fee from both sides, and relates it
to the transaction that is broadcast, whose inputs are 3.6 times as long: at least 41/148 of the
configured rate is certain, the rate itself is not. A rate configured at the minimum of what
nodes relay therefore makes transactions below it.

It leaves open: `ShortageMeans` says that a refused request cannot be paid
by spending everything. It does not say that it cannot be paid at all: the loop ends only
when the rest is nothing or good change, otherwise it adds the next utxo, whose fee may be
more than its value. A wallet in which the first inputs pay with a small rest may
therefore be refused.

What `fund_flow` shows of the limits of the code:

* A failing call loses one message, in one store or both; nothing is made up for later, but
  by a restart within three blocks, which then books what had succeeded twice. The
  properties count: at most one loss per failure, one duplicate per restart.
* `RegistryFollowsChain` compares the calls that arrived at the registry with the outputs on the
  chain: each call stands for an output of its own, with the address of a deposit, the fee of a
  withdrawal and the amount of both, and no more outputs are without a call than calls failed.
  The address of a withdrawal is never told, so that nothing is claimed of it.
* `RegistryFollowsChain`, `LedgerBalances`, `UserWithdrawIsHot` and `OmniIsCredited` speak of
  transactions whose inputs could all be looked up. A lost input makes the code classify without
  it: a transaction of the wallet's own may be reported as a deposit, its fee come out negative,
  and a sweep be booked on the operator. `RightAccount`, `FailureCost` and `TextsMeanValues` hold
  then, too; the last one excludes only the negative fees, which `LeftShift` garbles.
* The fee of a transaction is booked with each of its messages, so twice for two receivers,
  and in the currency of the message, USDT included.

What `omni_send` shows: a negative amount passes the check. It moves no tokens, but if the node
lists it as negative it lowers the pending sum of its sender, and a later request may promise
more than there is: `TokensCover` excludes senders in `negative`, and without that TLC finds it
violated. `BalanceReplies` excludes them as well, since the reply is then wrong by the same
amount. The order of the two reads is what makes the check safe. With the balance read first, a
transfer confirmed in between counts in neither, and TLC finds `TokensCover` violated. The
second comparison alone is not enough either: an amount near the largest integer overflows it
(the mutant `EnoughOnce`). A reorganisation between the reads is left out.

`LedgerBalances` excludes transactions with two outputs to one address: `outputValue` is
keyed by address, and both are then reported with the value of the first of them. It also
excludes inputs mixed with those of others, which the code does not report.

## 4. Fairness

`FairSpec` of `Subscriber` has weak fairness on process start (a supervisor restarts it),
on a successful tick (the ticker fires every minute and the node answers now and then),
on `Push` and on each step of the Listener and the Notifier (the Go scheduler runs a
goroutine that can run). None is assumed of mining, failures or stops. A full channel
disables the sender until the receiver takes one; no strong fairness is needed, because
no other step disables an enabled one for good. Only `subscriber_feed` uses it.

## 5. Proofs

A layer named below is an invariant with named conjuncts, proved one action at a time; it
assumes the layers before it, and TLC checked it as an invariant of a run first. The
theorems hold for all constants that satisfy the named assumptions of the module, whatever
the bounds, without the symmetry and constraints of the runs.

**SubscriberProofs** (`Subscriber`).

* `TypeCorrect`: `TypeOK` is inductive by itself.
* `SentConfirmedCorrect`: with failures, stops and reorganisations. Layer
  `ConfirmedInv`: heights polled, queued and read are at most `tip` (`KnownHeights`), all
  is idle while the process is down (`IdleWhenDown`), and a parked block being pushed lies
  two below the counter.
* Under the hypothesis `Paced` (no failing read and at most three blocks per poll, or one
  failing read and at most one block):
  * `PoolDrainsCorrect`, from `PoolInv`: consecutive polled numbers differ by at most
    `MaxLag` (`PollsPaced`); while anything is parked the counter is close behind the last
    number (`CloseBehind`), so that the next iteration takes the pool branch and looks up
    exactly the lowest parked height (`JobInv`, `PoolBelow`). `PoolDrains` is not inductive
    without them: nothing in it keeps the next iteration out of the direct branch;
  * `SentInOrderCorrect`, from `OrderInv`: what was pushed last lies below everything
    parked, in work or unread;
  * `ResumeNeverSkipsCorrect` and `NothingDroppedCorrect`, from `ResumeInv`: every parsed
    transaction on the chain below the counter is pushed, parked or in work, and the saved
    counter lies three blocks behind, below everything parked.
* Under `Paced` and `Undisturbed` (no reorganisation, no stop), `FeedImplemented`: the
  initial states are `ConfirmedFeed`'s and every step is one of its steps or a stutter.
  Layer `FeedInv`: the process starts once, from height 0 (`OneStart`); what is parked or in
  work is the chain's (`ParkedFromChain`); reading leaves nothing out (`ChainRead`); what was
  pushed is the chain up to the last height pushed (`PushedIsPrefix`); and it is what was
  delivered, what the Notifier holds and what is queued, in that order (`DeliveredInOrder`).
  The fairness half of the refinement stays with the run `subscriber_feed`.

`Paced` is the tight bound: `pool_leak` and its neighbours violate `PoolDrains` just
outside it. `Undisturbed` is needed too: `reorg` and `shutdown` show what happens without.

**AddressBookProofs** (`AddressBook`).

* `BookTypeCorrect`, from `BookTypes`: beside the types, a request between its steps holds
  the path its counter is about to pass.
* `HandedOutOnceCorrect`, `CrashCostCorrect`, `RememberedCorrect`, from `Cover`: the counters in
  memory cover every path handed out and not lost (`CountersCover`), and what a save in progress
  has read covers all of them but those handed out since (`SaveCovers`); the properties
  themselves complete the layer, `CrashCost` with what the file covers. The properties relate
  the counters of two lives of the process, so none of them is inductive alone.
* `PaymentsCreditedCorrect` under `MaxClosed <= 3`: at most three blocks are read between
  `closeDb` and the end of the last save, the distance that `Load` goes back. With four TLC
  finds a payment that is never credited.

**TxParserProofs** (`TxParser`). From `ParserInv`: `TypeOK`; what is known about the inputs
follows from those read (`InputsRead`); the receiver was decided at one output, after which
at most one more went to the sender (`ReceiverChosen`); the result comes from these
(`Reported`); what was kept of the OP_RETURN outputs is the only one, or there are several
(`OpReturnsNoted`); and the messages about USDT are those the report makes, before those about
coins (`OmniTold`). They give `ParserTypeCorrect`, `UserWithdrawIsHotCorrect` and
`OmniIsCreditedCorrect`, for any number of inputs and outputs. The last one says that the message
exists exactly when there is a transfer to report, and that there is no second one.

`LedgerBalancesCorrect` relates sums over the messages to sums over inputs and outputs. The fee
is what the inputs read hold less what the outputs passed take (`FeeCounted`); the lists of
input addresses tell whether the wallet or others pay (`InputsNoted`); and, if no address is
named twice, the values kept for the lists of output addresses add up to the outputs passed, the
wallet's and the others' (`OutputsNoted`), each being that of its output (`OutputsListed`). At
the step that makes the messages, `CoinsBalance` turns these sums into those over the messages,
which come last (`CoinsLast`, `CoinsTold`). It assumes `ParserOwners`: no address belongs to
both branches or to the wallet and to others.

**FundFlowProofs** (`FundFlow`).

* `FlowImplementsParser`: every behaviour of the flow is one of the parser, the Notifier's
  steps stutter; what is proved of `TxParser` carries over by citation.
* `FlowTypeCorrect`; `TwiceOnlyByRestartCorrect`, from `OncePerLife`: a message
  is told and booked at most once per restart, and once more when it has been taken since
  the last one; `RightAccountCorrect`,
  from `LookedUp`: what the Notifier looked up belongs to the message it is at, or is nobody for
  one of the reasons the property names (`BookedOn`);
  `InvalidLeavesNoTraceCorrect`, from `Checked`; `FailureCostCorrect`, from `FailuresPay`
  (of the messages passed, no more are left out than calls failed) and `StatusOfTokens`.
* `RegistryFollowsChainCorrect`: every call says of a message worth telling what the code passes
  (`ToldRight`); such messages about coins that are passed and were not told cost a failing call
  each (`TellsPay`); without restarts none is told twice (`ToldOnce`, from `OncePerLife`). By the
  parser's layers these messages and the outputs that are due stand for each other
  (`CoinsAreDue`, with `ParserOwners`; `FeeKnown`: the fee counted is that of the transaction), so
  that going from a call to the output of its message is the injection the property asks for, and
  outputs without a call are messages untold.
* `TextsMeanValuesCorrect`: every text told or booked is `LeftShift` of the number of its
  message or fee (`ToldRight`, `RowsRight`), amounts are not negative, nor is the fee while no
  input is lost (`FeeKnown`, and `Covered`: the inputs pay for the outputs), and `TextMeans` of
  `NumberFacts` says that `LeftShift` of such a number denotes it.

**OmniSendProofs** (`OmniSend`). From `Inv`, which is `TypeOK`, `TokensCover` and three parts:

* `Bounds`: no address has more than `All`, and what an address not in `negative` promises at once
  is between 0 and `All`;
* `RequestKnows`: the amount of the request under way is what its text means; the pending amount
  read is at least what the sender has promised, as long as it sends only with the check and no
  negative amount (`Checked`), and once the comparisons have passed, the tokens cover the
  promises and the amount;
* `QueryKnows`: the same for the balance query, for addresses whose pending sum is `Exact`, with
  equality until something happens to its address.

`TokensCover` needs `RequestKnows`, since between the reads promises can only become less for
such an address, and confirming one takes from its tokens at most what was promised: this is
why the pending amount must be read first. `RequestKnows` needs `TokensCover` in turn: the
pending amounts are added up in an int64, and the sum is exact because the tokens cover it.
From `Inv` follow `TypeOKCorrect`, `TokensCoverCorrect`, `AmountMeantCorrect`,
`CheckedRepliesCorrect` (`BalanceReplies` for an address that sends only with the check) and
`BalanceRepliesCorrect` (also for the others, under `Few`: otherwise the sum of pending transfers
that nothing covers may overflow). All of them exclude addresses that sent a negative amount, as
the properties do. The assumption on the constants is `OmniRange`: two addresses' tokens fit an
int64. Requests are any strings; `AmountMeant` speaks of those without a sign and with one dot at
most.

**NumberFacts.** What a recursive function computes is not proved by induction but by its least
counterexample (`NoneFails`): sums (`SumAppend`, `SumConcat`, `SumRemove`, ...), digits and
numbers (`NumberAppend`, `NumberPadded`, `UnsignedFact`: a number written and read again is the
same), and, built on these, what the shifts do: `TextMeans` (a shifted number denotes it),
`NegativeText` (a negative one, shifted, is no numeral), `ReadsAgain` (shifted down and up is
the same), `RequestMeant` (what a text with one dot is read as).

**WalletUtxoProofs** (`WalletUtxo`).

* `WalletTypeCorrect`, from `TypeInv`.
* `LossOnlyByEvictionCorrect`, with failures, evictions and restarts. Layer `LossInv`: every
  transaction is in the mempool, mined or evicted (`Placed`); whatever an actor still
  removes is spent (`RemovalsSpent`); an output of a block below the counter, or of a
  transaction already parsed of the block being read, is in the database, spent, or due to
  be created next (`SettledKept`, `ReadKept`).
* `SpentLeaveCorrect`, from `SpentInv`: a parent is mined before or with its child and each
  transaction once (`ChainInv`); what the Listener still creates is of the transaction it read
  last (`ListenerReads`), and what the holder of the mutex still creates nobody has prepared to
  spend (`CoinFresh`, which is what the mutex is for); what a `SendSignedTx` handler still creates
  is unknown to everybody until it is mined (`OvertakenByBlock`), so that only a handler that a
  block has overtaken can create a spent output, which is then in `late`; in the block being read,
  what the transactions parsed so far spent is gone (`ReadGone`).
* `ConfirmedSpendsHoldCorrect`, from `HoldInv`: the blocks of the reserved outputs stay read while
  the process lives (`ReservedSettled`), and of the three that create outputs only a late
  `SendSignedTx` can create one of them again.

**CoinSelectionProofs** (`CoinSelection`). From `SelectionInvariant`: `TypeOK`, the request is
one a handler makes (`RequestOK`), nothing is taken before the loop (`StartOK`), the inputs are
the requested sender's utxo and everything spendable the loop has passed, each once
(`InputsOK`), and the sums are those of the inputs (`SumsOK`). They give all eight properties of
the run, for any wallet, request, rate and maximal size. What was a sum over a recursive
function is handled by four lemmas of `NumberFacts` (`SumAppend`, `SumChanged`, `SumMonotone`,
and `NoneFails`, which replaces an induction by the least place where a claim fails), so no
induction theorem is needed. `FeeBoundsCorrect` adds that an output of the call has at most the
size that was assumed (`OutSizesAppend`, `OutSizesOfReturned`), so that the signed transaction
is at most 148/41 as long as the size the fee was computed for (`SignedSizeBounded`,
`FeeCovers`). `NoDustChangeCorrect` assumes that `TX_MIN_OUTPUT_AMOUNT * r < Word32` for every
rate `r`: above about 7.8 million satoshi per kilobyte the 32-bit product of the code wraps and
the minimum is no longer one.

Only model-checked, and why:

* the liveness of `ConfirmedFeed`: fairness and `ENABLED` are out of the prover's reach;
* that pending sums of unchecked transfers stay exact for any number of transactions: it is
  false, see `Few` above;
* the violated runs, which are counterexamples.

Every invariant of a passing run is stated by a theorem.

## 6. Not modelled

* Scripts, keys, signatures, hashing and base58: encodings without state. Bech32 and the cash
  address conversion: the same, and their checksum needs 40-bit integers, TLC's have 32.
* HTTP, JSON, SQL and Tars; `checkAddr` and `dumpUtxo`, which only read; the configuration's
  static settings; `-addUtxo` and `-rmUtxo`.
* The variable `tx` shared by all `SendSignedTx` requests: a data race whose outcomes depend
  on how two `Deserialize` calls interleave field by field.
* The configuration file is truncated and written in place; a torn file depends on the file
  system below `ini.SaveTo`.
* Strings with two dots, for which `RightShift` panics, and flow numbers drawn twice, which are
  one cause of a failing save.
* `zmq.go` (nothing calls it) and `NeexTrx` (generated).

## 7. Plan

Done: the models of section 2, and the proofs of section 5: all safety properties of all
modules and the safety half of the refinement.

Left, should the project go on:

1. The hazards without a property (`PROJECT.json`): the shared `tx` of `SendSignedTx`, the
   change address on BCH, the missing third output, the torn configuration file.
2. A finer `NotifierDone`: composing `Subscriber` with `FundFlow` instead of letting one
   argue for the one step of the other.
