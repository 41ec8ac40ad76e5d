----------------------------- MODULE Subscriber -----------------------------
(* The path of a wallet transaction from the chain to the accounting side:   *)
(* the main goroutine polls the node and pushes block numbers into ch2, the  *)
(* Listener goroutine reads the blocks, parks the two youngest in blkPool    *)
(* and pushes the transactions of confirmed blocks into ch1, the Notifier    *)
(* goroutine takes them from there.  The progress counter LastBlock is saved *)
(* by main every minute and on exit, three blocks behind, and read again     *)
(* when the process starts.  The environment mines and reorganises blocks,   *)
(* fails RPC calls, and stops the process by a signal or a crash.            *)
(*                                                                           *)
(* config.LastBlock and the Listener's own counter (last, last_id) are one   *)
(* variable: line 159 copies one to the other at every change, and start-up  *)
(* gives both the same value.  main reads it unsynchronised, as one word.    *)
EXTENDS WalletChain, Sequences

CONSTANTS
    ChanCap,        \* capacity of ch1 and ch2 (1024 in the code)
    Word,           \* 2^64: uint64 arithmetic is modulo Word
    MaxInt,         \* 2^63 - 1: the largest number MustInt can parse
    MaxReorgs,      \* bound: reorganisations
    MaxReorgDepth,  \* bound: blocks one reorganisation replaces
    MaxLag,         \* environment: blocks mined since the last successful poll
    MaxFaults,      \* bound: ReadBlock calls that fail
    StopKinds,      \* which ways of stopping occur
    MaxStops        \* bound: times the process stops

ASSUME ChanAssumption == ChanCap \in Nat \ {0}
ASSUME WordAssumption == /\ Word \in Nat
                         /\ MaxInt \in Nat
                         /\ MaxHeight < MaxInt
                         /\ MaxInt < Word - 3
ASSUME BoundAssumption ==
    /\ MaxReorgs \in Nat /\ MaxReorgDepth \in Nat /\ MaxLag \in Nat
    /\ MaxFaults \in Nat /\ MaxStops \in Nat
    /\ StopKinds \subseteq {"crash", "interrupt"}

VARIABLES
    \* the node
    tip,        \* height of its best block
    block,      \* height -> block of the active chain
    reorgs,     \* reorganisations so far, the branch of the blocks mined next
    \* the main goroutine
    up,         \* the process runs
    pend,       \* block number being pushed into ch2, or None
    disk,       \* lastBlock as saved in the configuration file
    \* the Listener goroutine
    ch2,        \* channel of block numbers, main to Listener
    LastBlock,  \* next block to read
    num,        \* number of the current message, or None before the first
    lpc,        \* where the Listener is
    job,        \* the block whose transactions are being pushed into ch1
    blkPool,    \* height -> transactions waiting for confirmations
    \* the Notifier goroutine
    ch1,        \* channel of messages, Listener to Notifier
    cur,        \* message being processed, or NoMsg
    \* bookkeeping of the environment and history
    faults,     \* ReadBlock calls that failed
    stops,      \* times the process stopped
    parsed,     \* transactions ReadBlock ever returned
    sent,       \* transactions ever pushed into ch1
    delivered,  \* transactions the Notifier ever finished
    lastSent    \* transaction pushed last since the process started, or NoMsg

node == <<tip, block, reorgs>>
main == <<up, pend, disk>>
listener == <<ch2, LastBlock, num, lpc, job, blkPool>>
notifier == <<ch1, cur>>
budget == <<faults, stops>>
history == <<parsed, sent, delivered, lastSent>>
vars == <<node, main, listener, notifier, budget, history>>

None == -1
NoJob == [height |-> 0, branch |-> 0, txs |-> 0, pos |-> 0]
EmptyPool == [h \in Heights |-> EmptyBlock]

\* Mutant of Save: the subtraction does not wrap.
SaveSigned(x) == x - 3

\* Mutant of Save: only the block being worked on is read again.
SaveOneBehind(x) == IF x >= 1 THEN x - 1 ELSE Word + x - 1

\* What SaveConfiguration writes for LastBlock = x, as a uint64.
Save(x) == IF x >= 3 THEN x - 3 ELSE Word + x - 3

\* What LoadConfiguration reads back: MustInt(0) of a number too large is 0.
Load(d) == IF d > MaxInt THEN 0 ELSE d

\* Mutant of PoolKey: the block below the one read counts as confirmed.
PoolKeyEarly(x) == IF x >= 1 THEN x - 1 ELSE Word + x - 1

\* last.Uint64()-MIN_CONFIRMATION+1, with the wrap below zero.
PoolKey(x) == IF x >= MIN_CONFIRMATION - 1 THEN x - (MIN_CONFIRMATION - 1)
              ELSE Word + x - (MIN_CONFIRMATION - 1)

\* Where reading resumes, were the process to stop now without saving again.
Resume == Load(disk)

Pooled(h) == blkPool[h].txs > 0

\* The last number polled since the process started, or None.
Polled == IF pend # None THEN pend
          ELSE IF ch2 # <<>> THEN ch2[Len(ch2)] ELSE num

-----------------------------------------------------------------------------
Init ==
    /\ tip = 0 /\ block = EmptyPool /\ reorgs = 0
    /\ up = FALSE /\ pend = None /\ disk = 0
    /\ ch2 = <<>> /\ LastBlock = 0 /\ num = None /\ lpc = "wait"
    /\ job = NoJob /\ blkPool = EmptyPool
    /\ ch1 = <<>> /\ cur = NoMsg
    /\ faults = 0 /\ stops = 0
    /\ parsed = {} /\ sent = {} /\ delivered = {} /\ lastSent = NoMsg

MayGrow == tip < MaxHeight /\ (up /\ Polled # None => tip < Polled + MaxLag)

\* The node accepts a new best block with n wallet transactions.
Mine(n) ==
    /\ MayGrow
    /\ tip' = tip + 1
    /\ block' = [block EXCEPT ![tip + 1] = [branch |-> reorgs, txs |-> n]]
    /\ UNCHANGED <<reorgs, main, listener, notifier, budget, history>>

\* The node replaces its d youngest blocks by a branch one block longer,
\* with the same number of wallet transactions n in each new block.
Reorg(d, n) ==
    /\ MayGrow
    /\ reorgs < MaxReorgs
    /\ d <= tip
    /\ tip' = tip + 1
    /\ reorgs' = reorgs + 1
    /\ block' = [h \in Heights |-> IF h > tip - d /\ h <= tip + 1
                                   THEN [branch |-> reorgs + 1, txs |-> n]
                                   ELSE block[h]]
    /\ UNCHANGED <<main, listener, notifier, budget, history>>

-----------------------------------------------------------------------------
\* Process start: the counter comes from the file, the pool and the channels
\* are empty, and GetNewerBlock is called once; its RPC call may fail.
Start ==
    /\ ~up
    /\ up' = TRUE
    /\ LastBlock' = Load(disk)
    /\ pend' \in {tip, None}
    /\ UNCHANGED <<node, disk, ch2, num, lpc, job, blkPool, notifier, budget, history>>

\* The newBlockTicker case: main is in select, saves, and polls the node.
TickOk ==
    /\ up /\ pend = None
    /\ disk' = Save(LastBlock)
    /\ pend' = tip
    /\ UNCHANGED <<node, up, listener, notifier, budget, history>>

\* The same when the RPC call fails: GetNewerBlock's error is ignored.
TickRpcFails ==
    /\ up /\ pend = None
    /\ disk' = Save(LastBlock)
    /\ UNCHANGED <<node, up, pend, listener, notifier, budget, history>>

\* The send at the end of GetNewerBlock, blocking while ch2 is full.
Push ==
    /\ pend # None
    /\ Len(ch2) < ChanCap
    /\ ch2' = Append(ch2, pend)
    /\ pend' = None
    /\ UNCHANGED <<node, up, disk, LastBlock, num, lpc, job, blkPool, notifier, budget, history>>

\* All that lives in memory is gone.
Stop(kind) ==
    /\ up
    /\ kind \in StopKinds
    /\ stops < MaxStops
    /\ stops' = stops + 1
    /\ up' = FALSE /\ pend' = None
    /\ ch2' = <<>> /\ LastBlock' = 0 /\ num' = None /\ lpc' = "wait"
    /\ job' = NoJob /\ blkPool' = EmptyPool
    /\ ch1' = <<>> /\ cur' = NoMsg /\ lastSent' = NoMsg
    /\ UNCHANGED <<node, faults, parsed, sent, delivered>>

\* The interrupt case, taken when main is in select; it saves and returns.
Interrupt ==
    /\ pend = None
    /\ disk' = Save(LastBlock)
    /\ Stop("interrupt")

\* The process dies anywhere.
Crash ==
    /\ UNCHANGED disk
    /\ Stop("crash")

-----------------------------------------------------------------------------
\* for message := range ch
ListenerRecv ==
    /\ lpc = "wait"
    /\ ch2 # <<>>
    /\ num' = Head(ch2)
    /\ ch2' = Tail(ch2)
    /\ lpc' = "scan"
    /\ UNCHANGED <<node, main, LastBlock, job, blkPool, notifier, budget, history>>

\* The loop condition fails: last > message.Number.
ScanDone ==
    /\ lpc = "scan"
    /\ LastBlock > num
    /\ lpc' = "wait"
    /\ UNCHANGED <<node, main, ch2, LastBlock, num, job, blkPool, notifier, budget, history>>

\* Mutant of ReadFails: the block that could not be read is skipped.
ReadFailsSkips ==
    /\ lpc = "scan"
    /\ LastBlock <= num
    /\ faults < MaxFaults
    /\ faults' = faults + 1
    /\ LastBlock' = LastBlock + 1
    /\ UNCHANGED <<node, main, ch2, num, lpc, job, blkPool, notifier, stops, history>>

\* ReadBlock fails and the loop is left; the message is used up.
ReadFails ==
    /\ lpc = "scan"
    /\ LastBlock <= num
    /\ faults < MaxFaults
    /\ faults' = faults + 1
    /\ lpc' = "wait"
    /\ UNCHANGED <<node, main, ch2, LastBlock, num, job, blkPool, notifier, stops, history>>

\* Mutant of ReadDirect: stop is message.Number itself.
ReadDirectEarly ==
    /\ lpc = "scan"
    /\ LastBlock < num
    /\ parsed' = parsed \cup BlockTxs(LastBlock, block[LastBlock])
    /\ job' = [height |-> LastBlock, branch |-> block[LastBlock].branch,
               txs |-> block[LastBlock].txs, pos |-> 0]
    /\ lpc' = "send"
    /\ UNCHANGED <<node, main, ch2, LastBlock, num, blkPool, notifier, budget,
                   sent, delivered, lastSent>>

\* last < stop: the block has its confirmations and is pushed at once.
ReadDirect ==
    /\ lpc = "scan"
    /\ LastBlock < num - (MIN_CONFIRMATION - 1)
    /\ parsed' = parsed \cup BlockTxs(LastBlock, block[LastBlock])
    /\ job' = [height |-> LastBlock, branch |-> block[LastBlock].branch,
               txs |-> block[LastBlock].txs, pos |-> 0]
    /\ lpc' = "send"
    /\ UNCHANGED <<node, main, ch2, LastBlock, num, blkPool, notifier, budget,
                   sent, delivered, lastSent>>

\* The block is young: it is parked if it has transactions, and the block
\* parked two heights below is pushed; if there is none the loop goes on.
ReadPooled ==
    LET pool == IF block[LastBlock].txs > 0
                THEN [blkPool EXCEPT ![LastBlock] = block[LastBlock]]
                ELSE blkPool
        key == PoolKey(LastBlock)
    IN  /\ lpc = "scan"
        /\ LastBlock <= num
        /\ LastBlock >= num - (MIN_CONFIRMATION - 1)
        /\ parsed' = parsed \cup BlockTxs(LastBlock, block[LastBlock])
        /\ blkPool' = pool
        /\ \/ /\ key \in Heights
              /\ Pooled(key)
              /\ job' = [height |-> key, branch |-> blkPool[key].branch,
                         txs |-> blkPool[key].txs, pos |-> 0]
              /\ lpc' = "send"
              /\ UNCHANGED LastBlock
           \/ /\ ~(key \in Heights /\ Pooled(key))
              /\ LastBlock' = LastBlock + 1
              /\ UNCHANGED <<job, lpc>>
        /\ UNCHANGED <<node, main, ch2, num, notifier, budget, sent, delivered, lastSent>>

\* notifyChannel <- txn, blocking while ch1 is full.
SendTx ==
    LET m == TxMsg(job.height, job.branch, job.pos + 1)
    IN  /\ lpc = "send"
        /\ job.pos < job.txs
        /\ Len(ch1) < ChanCap
        /\ ch1' = Append(ch1, m)
        /\ job' = [job EXCEPT !.pos = @ + 1]
        /\ sent' = sent \cup {m}
        /\ lastSent' = m
        /\ UNCHANGED <<node, main, ch2, LastBlock, num, lpc, blkPool, cur, budget,
                       parsed, delivered>>

\* The NOTIFY_TYPE_ADMIN message after the block's transactions.
SendAdmin ==
    /\ lpc = "send"
    /\ job.pos = job.txs
    /\ Len(ch1) < ChanCap
    /\ ch1' = Append(ch1, AdminMsg(job.height))
    /\ lpc' = "advance"
    /\ UNCHANGED <<node, main, ch2, LastBlock, num, job, blkPool, cur, budget, history>>

\* Mutant of Advance: the pushed block stays in the pool.
AdvanceKeeps ==
    /\ lpc = "advance"
    /\ LastBlock' = LastBlock + 1
    /\ job' = NoJob
    /\ lpc' = "scan"
    /\ UNCHANGED <<node, main, ch2, num, blkPool, notifier, budget, history>>

\* Mutant of Advance: the key deleted is one too high.
AdvanceDeletesNext ==
    /\ lpc = "advance"
    /\ blkPool' = IF job.height = LastBlock THEN blkPool
                  ELSE [blkPool EXCEPT ![job.height + 1] = EmptyBlock]
    /\ LastBlock' = LastBlock + 1
    /\ job' = NoJob
    /\ lpc' = "scan"
    /\ UNCHANGED <<node, main, ch2, num, notifier, budget, history>>

\* The pushed block leaves the pool (a block pushed at once never was in it)
\* and the counter moves on.
Advance ==
    /\ lpc = "advance"
    /\ blkPool' = IF job.height = LastBlock THEN blkPool
                  ELSE [blkPool EXCEPT ![job.height] = EmptyBlock]
    /\ LastBlock' = LastBlock + 1
    /\ job' = NoJob
    /\ lpc' = "scan"
    /\ UNCHANGED <<node, main, ch2, num, notifier, budget, history>>

-----------------------------------------------------------------------------
\* The Notifier takes the next message; those of type NONE or ADMIN end here.
NotifierTake ==
    /\ cur = NoMsg
    /\ ch1 # <<>>
    /\ ch1' = Tail(ch1)
    /\ cur' = IF Head(ch1).type = "TX" THEN Head(ch1) ELSE NoMsg
    /\ UNCHANGED <<node, main, listener, budget, history>>

\* The calls to the accounting side return; their errors are only logged.
NotifierDone ==
    /\ cur # NoMsg
    /\ delivered' = delivered \cup {cur}
    /\ cur' = NoMsg
    /\ UNCHANGED <<node, main, listener, ch1, budget, parsed, sent, lastSent>>

-----------------------------------------------------------------------------
Environment ==
    \/ \E n \in 0 .. MaxTxs : Mine(n)
    \/ \E d \in 1 .. MaxReorgDepth, n \in 0 .. MaxTxs : Reorg(d, n)

Main == Start \/ TickOk \/ TickRpcFails \/ Push \/ Interrupt \/ Crash

Listener == \/ ListenerRecv \/ ScanDone \/ ReadFails \/ ReadDirect
            \/ ReadPooled \/ SendTx \/ SendAdmin \/ Advance

Notifier == NotifierTake \/ NotifierDone

Next == Environment \/ Main \/ Listener \/ Notifier

Spec == Init /\ [][Next]_vars

\* Goroutines are scheduled, the supervisor starts the process, and the node
\* answers a poll again and again.  A full channel only delays.
Fairness == /\ WF_vars(Start) /\ WF_vars(TickOk) /\ WF_vars(Push)
            /\ WF_vars(ListenerRecv) /\ WF_vars(ScanDone)
            /\ WF_vars(ReadDirect) /\ WF_vars(ReadPooled)
            /\ WF_vars(SendTx) /\ WF_vars(SendAdmin) /\ WF_vars(Advance)
            /\ WF_vars(NotifierTake) /\ WF_vars(NotifierDone)

FairSpec == Spec /\ Fairness

-----------------------------------------------------------------------------
Job == [height : Heights, branch : Nat, txs : 0 .. MaxTxs, pos : 0 .. MaxTxs]

NodeOK ==
    /\ tip \in Heights
    /\ block \in [Heights -> Block]
    /\ reorgs \in Nat

MainOK ==
    /\ up \in BOOLEAN
    /\ pend \in Heights \cup {None}
    /\ disk \in Nat

ListenerOK ==
    /\ ch2 \in Seq(Heights)
    /\ Len(ch2) <= ChanCap
    /\ LastBlock \in Nat
    /\ num \in Heights \cup {None}
    /\ lpc \in {"wait", "scan", "send", "advance"}
    /\ job \in Job
    /\ blkPool \in [Heights -> Block]

NotifierOK ==
    /\ ch1 \in Seq(Message)
    /\ Len(ch1) <= ChanCap
    /\ cur \in Message

HistoryOK ==
    /\ faults \in Nat
    /\ stops \in Nat
    /\ parsed \subseteq Message
    /\ sent \subseteq Message
    /\ delivered \subseteq Message
    /\ lastSent \in Message

\* Every variable has its type, and channels respect their capacity.
TypeOK == NodeOK /\ MainOK /\ ListenerOK /\ NotifierOK /\ HistoryOK

\* The accounting side is told of a transaction only when the chain has put
\* MIN_CONFIRMATION blocks at or above its height: the two ways ReadDirect
\* (last < stop) and the pool (key last-2) age a block must agree.
SentConfirmed == \A m \in sent : m.height + MIN_CONFIRMATION - 1 <= tip

\* The pool is drained as reading goes on: whatever is parked belongs to one
\* of the two blocks below LastBlock or to the block two below it, whose turn
\* is next.  A parked block that falls behind is never looked up again.
PoolDrains == \A h \in Heights : Pooled(h) => h >= LastBlock - (MIN_CONFIRMATION - 1)

\* The saved counter is far enough behind: a transaction that was parsed, is
\* still on the chain and will not be read again after a stop was pushed to
\* the Notifier before, even though the pool is lost with the process.
ResumeNeverSkips ==
    \A m \in parsed : OnChain(tip, block, m) /\ m.height < Resume => m \in sent

\* A parsed transaction is never forgotten while the process runs: it has
\* been pushed, is being pushed, waits in the pool, or will be read again.
NothingDropped ==
    up => \A m \in parsed :
        OnChain(tip, block, m) /\ m.height < LastBlock =>
            \/ m \in sent
            \/ m.branch = blkPool[m.height].branch /\ m.n <= blkPool[m.height].txs

\* Between two starts of the process transactions are pushed in chain order,
\* each at most once.
SentInOrder ==
    [][ LET m == ch1'[Len(ch1')]
        IN  Len(ch1') > Len(ch1) /\ m.type = "TX" /\ lastSent # NoMsg
                => Before(lastSent, m) ]_vars

\* A transaction pushed to the Notifier is, at that time, on the active chain
\* with MIN_CONFIRMATION confirmations.
SentIsOnChain ==
    [][ \A m \in sent' \ sent : OnChain(tip, block, m) ]_vars

\* After a clean stop every transaction below the height where reading will
\* resume has reached the accounting side: closing "all modules" loses none.
StopLosesNothing ==
    ~up => \A m \in parsed :
        OnChain(tip, block, m) /\ m.height < Resume => m \in delivered

\* The subscriber as seen by the accounting side implements ConfirmedFeed
\* (no reorganisation, no stop): what the Notifier has finished grows in
\* chain order, with confirmed transactions only, and to all of them.
Feed == INSTANCE ConfirmedFeed WITH fed <- delivered
ImplementsFeed == Feed!Spec
=============================================================================
