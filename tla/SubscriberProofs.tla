-------------------------- MODULE SubscriberProofs --------------------------
(* Theorems about Subscriber for every value of its constants, with proofs.  *)
EXTENDS Subscriber, TLAPS

-----------------------------------------------------------------------------
(* Types of the records the code builds.                                     *)

\* What the provers need to know of heights.
LEMMA HeightsFact ==
    /\ MaxHeight \in Nat
    /\ \A x : x \in Heights <=> x \in Int /\ 0 <= x /\ x <= MaxHeight
  BY HeightAssumption DEF Heights

\* The records that stand for nothing are of their types.
LEMMA EmptyTypes == /\ EmptyBlock \in Block
                    /\ EmptyPool \in [Heights -> Block]
                    /\ NoMsg \in Message
                    /\ NoJob \in Job
  BY HeightAssumption, TxsAssumption
  DEF EmptyBlock, Block, EmptyPool, NoMsg, Message, NoJob, Job, Heights

\* TxMsg, AdminMsg and BlockTxs build messages.
LEMMA MessageTypes ==
    ASSUME NEW h \in Heights, NEW b \in Block
    PROVE  /\ BlockTxs(h, b) \subseteq Message
           /\ AdminMsg(h) \in Message
  BY TxsAssumption DEF BlockTxs, TxMsg, AdminMsg, Message, Block

\* A block read or parked makes a job.
LEMMA JobTypes ==
    ASSUME NEW h \in Heights, NEW b \in Block
    PROVE  [height |-> h, branch |-> b.branch, txs |-> b.txs, pos |-> 0] \in Job
  BY TxsAssumption DEF Job, Block

\* A job that has transactions left can be advanced by one.
LEMMA JobStep ==
    ASSUME NEW j \in Job, j.pos < j.txs
    PROVE  /\ [j EXCEPT !.pos = @ + 1] \in Job
           /\ TxMsg(j.height, j.branch, j.pos + 1) \in Message
  BY TxsAssumption DEF Job, TxMsg, Message

\* The counter stays a natural number when it is saved and when it is read back.
LEMMA CounterTypes ==
    ASSUME NEW x \in Nat
    PROVE  Save(x) \in Nat /\ Load(x) \in Nat
  BY WordAssumption DEF Save, Load

-----------------------------------------------------------------------------
\* Every variable keeps its type, and no channel exceeds its capacity.
THEOREM TypeCorrect == Spec => []TypeOK
<1> USE HeightsFact DEF TypeOK, node, main, listener, notifier, budget, history, None
<1>1. Init => TypeOK
  <2> SUFFICES ASSUME Init PROVE TypeOK
    OBVIOUS
  <2>1. NodeOK /\ MainOK
    BY HeightAssumption, EmptyTypes DEF Init, NodeOK, MainOK
  <2>2. ListenerOK
    BY ChanAssumption, EmptyTypes DEF Init, ListenerOK
  <2>3. NotifierOK
    BY ChanAssumption, EmptyTypes DEF Init, NotifierOK
  <2>4. HistoryOK
    BY EmptyTypes DEF Init, HistoryOK
  <2> QED BY <2>1, <2>2, <2>3, <2>4
<1>2. TypeOK /\ [Next]_vars => TypeOK'
  <2> SUFFICES ASSUME TypeOK, [Next]_vars PROVE TypeOK'
    OBVIOUS
  <2>a. ASSUME UNCHANGED node PROVE NodeOK'
    BY <2>a DEF NodeOK
  <2>b. ASSUME UNCHANGED main PROVE MainOK'
    BY <2>b DEF MainOK
  <2>c. ASSUME UNCHANGED listener PROVE ListenerOK'
    BY <2>c DEF ListenerOK
  <2>d. ASSUME UNCHANGED notifier PROVE NotifierOK'
    BY <2>d DEF NotifierOK
  <2>e. ASSUME UNCHANGED <<budget, history>> PROVE HistoryOK'
    BY <2>e DEF HistoryOK
  <2>1. ASSUME NEW n \in 0 .. MaxTxs, Mine(n) PROVE TypeOK'
    <3>1. NodeOK'
      BY <2>1 DEF Mine, MayGrow, NodeOK, Block
    <3> QED BY <2>1, <3>1, <2>b, <2>c, <2>d, <2>e DEF Mine
  <2>2. ASSUME NEW d \in 1 .. MaxReorgDepth, NEW n \in 0 .. MaxTxs, Reorg(d, n)
        PROVE TypeOK'
    <3>1. block' \in [Heights -> Block]
      BY <2>2 DEF Reorg, NodeOK, Block
    <3>2. NodeOK'
      BY <2>2, <3>1 DEF Reorg, MayGrow, NodeOK
    <3> QED BY <2>2, <3>2, <2>b, <2>c, <2>d, <2>e DEF Reorg
  <2>3. CASE Start
    <3>1. MainOK' /\ ListenerOK'
      BY <2>3, CounterTypes DEF Start, NodeOK, MainOK, ListenerOK
    <3> QED BY <2>3, <3>1, <2>a, <2>d, <2>e DEF Start
  <2>4. CASE TickOk
    <3>1. MainOK'
      BY <2>4, CounterTypes DEF TickOk, NodeOK, MainOK, ListenerOK
    <3> QED BY <2>4, <3>1, <2>a, <2>c, <2>d, <2>e DEF TickOk
  <2>5. CASE TickRpcFails
    <3>1. MainOK'
      BY <2>5, CounterTypes DEF TickRpcFails, MainOK, ListenerOK
    <3> QED BY <2>5, <3>1, <2>a, <2>c, <2>d, <2>e DEF TickRpcFails
  <2>6. CASE Push
    <3>1. MainOK' /\ ListenerOK'
      BY <2>6, ChanAssumption DEF Push, MainOK, ListenerOK
    <3> QED BY <2>6, <3>1, <2>a, <2>d, <2>e DEF Push
  <2>7. ASSUME NEW kind, Stop(kind), disk' \in Nat PROVE TypeOK'
    <3>1. MainOK'
      BY <2>7 DEF Stop, MainOK
    <3>2. ListenerOK'
      BY <2>7, ChanAssumption, EmptyTypes DEF Stop, ListenerOK
    <3>3. NotifierOK'
      BY <2>7, ChanAssumption, EmptyTypes DEF Stop, NotifierOK
    <3>4. HistoryOK'
      BY <2>7, EmptyTypes DEF Stop, HistoryOK
    <3> QED BY <2>7, <3>1, <3>2, <3>3, <3>4, <2>a DEF Stop
  <2>8. CASE Interrupt
    BY <2>7, <2>8, CounterTypes DEF Interrupt, ListenerOK
  <2>9. CASE Crash
    BY <2>7, <2>9 DEF Crash, MainOK
  <2>10. CASE ListenerRecv
    <3>1. ListenerOK'
      BY <2>10, ChanAssumption DEF ListenerRecv, ListenerOK
    <3> QED BY <2>10, <3>1, <2>a, <2>b, <2>d, <2>e DEF ListenerRecv
  <2>11. CASE ScanDone
    <3>1. ListenerOK'
      BY <2>11 DEF ScanDone, ListenerOK
    <3> QED BY <2>11, <3>1, <2>a, <2>b, <2>d, <2>e DEF ScanDone
  <2>12. CASE ReadFails
    <3>1. ListenerOK' /\ HistoryOK'
      BY <2>12 DEF ReadFails, ListenerOK, HistoryOK
    <3> QED BY <2>12, <3>1, <2>a, <2>b, <2>d DEF ReadFails
  <2>13. CASE ReadDirect
    <3>1. LastBlock \in Heights /\ block[LastBlock] \in Block
      <4>1. LastBlock \in Nat /\ LastBlock <= num /\ num \in Heights
        BY <2>13 DEF ReadDirect, ListenerOK, MIN_CONFIRMATION
      <4>2. LastBlock \in Heights
        BY <4>1
      <4> QED BY <4>2 DEF NodeOK
    <3>2. ListenerOK'
      BY <2>13, <3>1, JobTypes DEF ReadDirect, ListenerOK
    <3>3. HistoryOK'
      BY <2>13, <3>1, MessageTypes DEF ReadDirect, HistoryOK
    <3> QED BY <2>13, <3>2, <3>3, <2>a, <2>b, <2>d DEF ReadDirect
  <2>14. CASE ReadPooled
    <3>1. LastBlock \in Heights /\ block[LastBlock] \in Block
      <4>1. LastBlock \in Nat /\ LastBlock <= num /\ num \in Heights
        BY <2>14 DEF ReadPooled, ListenerOK
      <4>2. LastBlock \in Heights
        BY <4>1
      <4> QED BY <4>2 DEF NodeOK
    <3>2. blkPool' \in [Heights -> Block]
      BY <2>14, <3>1 DEF ReadPooled, ListenerOK
    <3>3. job' \in Job
      BY <2>14, JobTypes DEF ReadPooled, ListenerOK
    <3>4. ListenerOK'
      BY <2>14, <3>2, <3>3 DEF ReadPooled, ListenerOK
    <3>5. HistoryOK'
      BY <2>14, <3>1, MessageTypes DEF ReadPooled, HistoryOK
    <3> QED BY <2>14, <3>4, <3>5, <2>a, <2>b, <2>d DEF ReadPooled
  <2>15. CASE SendTx
    <3>1. TxMsg(job.height, job.branch, job.pos + 1) \in Message
      BY <2>15, JobStep DEF SendTx, ListenerOK
    <3>2. job' \in Job
      BY <2>15, JobStep DEF SendTx, ListenerOK
    <3>3. ListenerOK'
      BY <2>15, <3>2 DEF SendTx, ListenerOK
    <3>4. NotifierOK' /\ HistoryOK'
      BY <2>15, <3>1, ChanAssumption DEF SendTx, NotifierOK, HistoryOK
    <3> QED BY <2>15, <3>3, <3>4, <2>a, <2>b DEF SendTx
  <2>16. CASE SendAdmin
    <3>1. AdminMsg(job.height) \in Message
      BY EmptyTypes, MessageTypes DEF ListenerOK, Job
    <3>2. ListenerOK' /\ NotifierOK'
      BY <2>16, <3>1, ChanAssumption DEF SendAdmin, ListenerOK, NotifierOK
    <3> QED BY <2>16, <3>2, <2>a, <2>b, <2>e DEF SendAdmin
  <2>17. CASE Advance
    <3>1. ListenerOK'
      <4>1. blkPool' \in [Heights -> Block]
        BY <2>17, EmptyTypes DEF Advance, ListenerOK
      <4> QED BY <2>17, <4>1, EmptyTypes DEF Advance, ListenerOK
    <3> QED BY <2>17, <3>1, <2>a, <2>b, <2>d, <2>e DEF Advance
  <2>18. CASE NotifierTake
    <3>1. NotifierOK'
      BY <2>18, ChanAssumption, EmptyTypes DEF NotifierTake, NotifierOK
    <3> QED BY <2>18, <3>1, <2>a, <2>b, <2>c, <2>e DEF NotifierTake
  <2>19. CASE NotifierDone
    <3>1. NotifierOK' /\ HistoryOK'
      BY <2>19, EmptyTypes DEF NotifierDone, NotifierOK, HistoryOK
    <3> QED BY <2>19, <3>1, <2>a, <2>b, <2>c DEF NotifierDone
  <2>20. CASE UNCHANGED vars
    BY <2>20, <2>a, <2>b, <2>c, <2>d, <2>e DEF vars
  <2> QED
    BY <2>1, <2>2, <2>3, <2>4, <2>5, <2>6, <2>8, <2>9, <2>10, <2>11, <2>12,
       <2>13, <2>14, <2>15, <2>16, <2>17, <2>18, <2>19, <2>20
    DEF Next, Environment, Main, Listener, Notifier
<1> QED BY <1>1, <1>2, PTL DEF Spec
-----------------------------------------------------------------------------
(* The inductive invariant, in four layers.  (The fifth, for the refinement  *)
(* of ConfirmedFeed, comes with it below.)                                   *)

Sending == lpc \in {"send", "advance"}

\* The transactions of job come from the pool, two blocks below LastBlock.
FromPool == job.height # LastBlock

\* A process that does not run has no volatile state.
IdleWhenDown ==
    ~up => /\ pend = None /\ ch2 = <<>> /\ num = None /\ lpc = "wait"
           /\ \A h \in Heights : ~Pooled(h)
           /\ lastSent = NoMsg

\* No number on its way to the Listener is above the node's best block.
KnownHeights ==
    /\ num <= tip
    /\ pend <= tip
    /\ \A i \in 1 .. Len(ch2) : ch2[i] <= tip
    /\ Sending => job.height + MIN_CONFIRMATION - 1 <= tip

ConfirmedInv == IdleWhenDown /\ KnownHeights /\ SentConfirmed

\* The rate at which blocks may come in for the pool to keep up: three per
\* successful poll; if one ReadBlock may fail, then only one.
Paced == \/ MaxFaults = 0 /\ MaxLag <= 3
         \/ MaxFaults = 1 /\ MaxLag <= 1

\* Two numbers polled one after the other differ by at most MaxLag.
PollsPaced ==
    /\ up /\ Polled # None => tip <= Polled + MaxLag
    /\ \A i \in 1 .. Len(ch2) :
           i > 1 \/ num # None => ch2[i] <= (IF i = 1 THEN num ELSE ch2[i-1]) + MaxLag
    /\ pend # None =>
           IF ch2 # <<>> THEN pend <= ch2[Len(ch2)] + MaxLag
           ELSE num # None => pend <= num + MaxLag

\* While a block is parked, the Listener is close behind the last number.
CloseBehind ==
    (\E h \in Heights : Pooled(h)) =>
        /\ num # None
        /\ lpc = "wait" => \/ LastBlock > num
                           \/ faults = MaxFaults /\ MaxFaults = 1 /\ LastBlock >= num - 1
        /\ lpc # "wait" => /\ LastBlock >= num - 2
                           /\ faults < MaxFaults => LastBlock >= num - 1

JobInv ==
    Sending =>
        /\ up
        /\ num # None
        /\ LastBlock <= num
        /\ job.pos <= job.txs
        /\ lpc = "advance" => job.pos = job.txs
        /\ FromPool => /\ job.height = LastBlock - 2
                       /\ Pooled(job.height)
                       /\ job.branch = blkPool[job.height].branch
                       /\ job.txs = blkPool[job.height].txs
        /\ ~FromPool => \A h \in Heights : ~Pooled(h)

PoolBelow ==
    \A h \in Heights : Pooled(h) =>
        /\ h <= LastBlock
        /\ ~Sending => h < LastBlock

PoolInv == /\ faults <= MaxFaults
           /\ PollsPaced
           /\ CloseBehind
           /\ JobInv
           /\ PoolBelow
           /\ PoolDrains

\* What was pushed last lies below all that is still to be pushed.
OrderInv ==
    lastSent # NoMsg =>
        /\ ~Sending => /\ lastSent.height < LastBlock
                       /\ \A h \in Heights : Pooled(h) => lastSent.height < h
        /\ Sending => \/ lastSent.height < job.height
                      \/ lastSent.height = job.height /\ lastSent.n <= job.pos

ParsedKnown ==
    /\ \A h \in Heights : block[h].branch <= reorgs
    /\ \A m \in parsed : /\ m.type = "TX" /\ m.n >= 1
                          /\ m.branch <= reorgs /\ m.height <= tip

\* The blocks below Read are read.
Read == IF Sending /\ FromPool THEN LastBlock + 1 ELSE LastBlock

InPool(m) == m.branch = blkPool[m.height].branch /\ m.n <= blkPool[m.height].txs

InJob(m) == m.branch = job.branch /\ job.pos < m.n /\ m.n <= job.txs

NothingForgotten ==
    up => \A m \in parsed : OnChain(tip, block, m) =>
        /\ m.height < Read => m \in sent \/ InPool(m)
        /\ Sending /\ m.height = job.height => m \in sent \/ InJob(m)

ResumeInv == /\ ParsedKnown
             /\ up => Resume <= LastBlock
             /\ NothingForgotten
             /\ ResumeNeverSkips

-----------------------------------------------------------------------------
\* How the last element of a channel changes with Append and Tail.
LEMMA QueueFacts ==
    ASSUME NEW q \in Seq(Heights)
    PROVE  /\ Len(q) \in Nat
           /\ \A i \in 1 .. Len(q) : q[i] \in Heights
           /\ q # <<>> => /\ Len(q) >= 1
                          /\ Head(q) = q[1]
                          /\ Tail(q) \in Seq(Heights)
                          /\ Len(Tail(q)) = Len(q) - 1
                          /\ \A i \in 1 .. Len(Tail(q)) : Tail(q)[i] = q[i + 1]
           /\ \A x \in Heights :
                  /\ Append(q, x) # <<>>
                  /\ Len(Append(q, x)) = Len(q) + 1
                  /\ \A i \in 1 .. Len(q) : Append(q, x)[i] = q[i]
                  /\ Append(q, x)[Len(q) + 1] = x
  OBVIOUS

\* No step takes the confirmation layer back.
LEMMA ConfirmedStep ==
    ASSUME TypeOK, ConfirmedInv, [Next]_vars
    PROVE  ConfirmedInv'
<1> USE HeightsFact, WordAssumption
    DEF TypeOK, ConfirmedInv, node, main, listener, notifier, budget, history, None,
        Sending, MIN_CONFIRMATION
<1>1. ASSUME UNCHANGED <<tip, up, pend, listener, sent, lastSent>> PROVE ConfirmedInv'
  BY <1>1 DEF IdleWhenDown, KnownHeights, SentConfirmed, Pooled
<1>2. ASSUME tip' = tip + 1, UNCHANGED <<main, listener, history>> PROVE ConfirmedInv'
  <2>1. IdleWhenDown'
    BY <1>2 DEF IdleWhenDown, Pooled
  <2>2. KnownHeights'
    BY <1>2 DEF KnownHeights, NodeOK, ListenerOK, MainOK, Job
  <2>3. SentConfirmed'
    BY <1>2 DEF SentConfirmed, NodeOK, HistoryOK, Message
  <2> QED BY <2>1, <2>2, <2>3
<1>3. ASSUME Start PROVE ConfirmedInv'
  BY <1>3 DEF Start, IdleWhenDown, KnownHeights, SentConfirmed, NodeOK
<1>4. ASSUME TickOk PROVE ConfirmedInv'
  BY <1>4 DEF TickOk, IdleWhenDown, KnownHeights, SentConfirmed, NodeOK, Pooled
<1>5. ASSUME Push PROVE ConfirmedInv'
  <2>1. KnownHeights'
    BY <1>5, QueueFacts DEF Push, KnownHeights, NodeOK, MainOK, ListenerOK
  <2> QED BY <1>5, <2>1 DEF Push, IdleWhenDown, SentConfirmed
<1>6. ASSUME NEW kind, Stop(kind) PROVE ConfirmedInv'
  BY <1>6 DEF Stop, IdleWhenDown, KnownHeights, SentConfirmed, NodeOK, Pooled,
     EmptyPool, EmptyBlock
<1>7. ASSUME ListenerRecv PROVE ConfirmedInv'
  <2>1. KnownHeights'
    BY <1>7, QueueFacts DEF ListenerRecv, KnownHeights, NodeOK, ListenerOK
  <2> QED BY <1>7, <2>1 DEF ListenerRecv, IdleWhenDown, SentConfirmed
<1>8. ASSUME ScanDone \/ ReadFails PROVE ConfirmedInv'
  BY <1>8 DEF ScanDone, ReadFails, IdleWhenDown, KnownHeights, SentConfirmed
<1>9. ASSUME ReadDirect PROVE ConfirmedInv'
  <2>1. KnownHeights'
    BY <1>9 DEF ReadDirect, KnownHeights, NodeOK, ListenerOK
  <2> QED BY <1>9, <2>1 DEF ReadDirect, IdleWhenDown, SentConfirmed
<1>10. ASSUME ReadPooled PROVE ConfirmedInv'
  <2>1. \/ (job' = job) /\ (lpc' = lpc)
        \/ job'.height + 2 = LastBlock
    BY <1>10 DEF ReadPooled, PoolKey, ListenerOK
  <2>2. KnownHeights'
    BY <1>10, <2>1 DEF ReadPooled, KnownHeights, NodeOK, ListenerOK
  <2> QED BY <1>10, <2>2 DEF ReadPooled, IdleWhenDown, SentConfirmed
<1>11. ASSUME SendTx PROVE ConfirmedInv'
  <2>1. KnownHeights'
    BY <1>11 DEF SendTx, KnownHeights, ListenerOK, Job
  <2>2. SentConfirmed'
    BY <1>11 DEF SendTx, SentConfirmed, KnownHeights, TxMsg
  <2> QED BY <1>11, <2>1, <2>2 DEF SendTx, IdleWhenDown
<1>12. ASSUME SendAdmin \/ Advance PROVE ConfirmedInv'
  BY <1>12 DEF SendAdmin, Advance, IdleWhenDown, KnownHeights, SentConfirmed
<1>13. ASSUME NEW n \in 0 .. MaxTxs, Mine(n) PROVE ConfirmedInv'
  BY <1>2, <1>13 DEF Mine
<1>14. ASSUME NEW d \in 1 .. MaxReorgDepth, NEW n \in 0 .. MaxTxs, Reorg(d, n)
       PROVE ConfirmedInv'
  BY <1>2, <1>14 DEF Reorg
<1>15. ASSUME TickRpcFails \/ NotifierTake \/ NotifierDone PROVE ConfirmedInv'
  BY <1>1, <1>15 DEF TickRpcFails, NotifierTake, NotifierDone
<1>16. ASSUME UNCHANGED vars PROVE ConfirmedInv'
  BY <1>1, <1>16 DEF vars
<1> QED
  BY <1>3, <1>4, <1>5, <1>6, <1>7, <1>8, <1>9, <1>10, <1>11, <1>12, <1>13, <1>14,
     <1>15, <1>16
  DEF Next, Environment, Main, Listener, Notifier, Interrupt, Crash

\* The confirmation layer holds throughout, without any assumption on pace.
LEMMA ConfirmedInvariant == Spec => []ConfirmedInv
<1>1. Init => ConfirmedInv
  BY HeightsFact DEF Init, ConfirmedInv, IdleWhenDown, KnownHeights, SentConfirmed, Pooled,
     EmptyPool, EmptyBlock, Sending, None
<1> QED BY <1>1, ConfirmedStep, TypeCorrect, PTL DEF Spec

\* Whatever the polls, failures, stops and reorganisations: no transaction is
\* pushed to the Notifier before its height has three confirmations.
THEOREM SentConfirmedCorrect == Spec => []SentConfirmed
  BY ConfirmedInvariant, PTL DEF ConfirmedInv
-----------------------------------------------------------------------------
\* At the pace assumed no step leaves a parked block behind.
LEMMA PoolStep ==
    ASSUME Paced, TypeOK, ConfirmedInv, PoolInv, [Next]_vars
    PROVE  PoolInv'
<1> USE HeightsFact, WordAssumption, BoundAssumption
    DEF TypeOK, node, main, listener, notifier, budget, history, None, Paced,
        Sending, FromPool, PoolInv, MIN_CONFIRMATION
<1>1. ASSUME UNCHANGED <<tip, up, pend, listener, faults>> PROVE PoolInv'
  <2>1. UNCHANGED Polled
    BY <1>1 DEF Polled
  <2> QED BY <1>1, <2>1
      DEF PollsPaced, CloseBehind, JobInv, PoolBelow, PoolDrains, Pooled
<1>2. ASSUME MayGrow, tip' = tip + 1, UNCHANGED <<main, listener, budget>> PROVE PoolInv'
  <2>1. UNCHANGED Polled
    BY <1>2 DEF Polled
  <2>2. PollsPaced'
    <3>1. Polled \in Int
      BY QueueFacts DEF Polled, MainOK, ListenerOK
    <3> QED BY <1>2, <2>1, <3>1 DEF PollsPaced, MayGrow, NodeOK
  <2> QED BY <1>2, <2>2 DEF CloseBehind, JobInv, PoolBelow, PoolDrains, Pooled
<1>3. ASSUME Start PROVE PoolInv'
  BY <1>3 DEF Start, ConfirmedInv, IdleWhenDown, PollsPaced, Polled, NodeOK, CloseBehind,
     JobInv, PoolBelow, PoolDrains, Pooled
<1>4. ASSUME TickOk PROVE PoolInv'
  <2>1. PollsPaced'
    BY <1>4, QueueFacts DEF TickOk, PollsPaced, Polled, NodeOK, ListenerOK
  <2> QED BY <1>4, <2>1 DEF TickOk, CloseBehind, JobInv, PoolBelow, PoolDrains, Pooled
<1>5. ASSUME Push PROVE PoolInv'
  <2>1. Polled' = Polled
    BY <1>5, QueueFacts DEF Push, Polled, MainOK, ListenerOK
  <2>2. \A i \in 1 .. Len(ch2') :
            i > 1 \/ num # None => ch2'[i] <= (IF i = 1 THEN num ELSE ch2'[i-1]) + MaxLag
    BY <1>5, QueueFacts DEF Push, PollsPaced, MainOK, ListenerOK
  <2>3. PollsPaced'
    BY <1>5, <2>1, <2>2 DEF Push, PollsPaced
  <2> QED BY <1>5, <2>3 DEF Push, CloseBehind, JobInv, PoolBelow, PoolDrains, Pooled
<1>6. ASSUME NEW kind, Stop(kind) PROVE PoolInv'
  BY <1>6 DEF Stop, PollsPaced, Polled, CloseBehind, JobInv, PoolBelow, PoolDrains, Pooled,
     EmptyPool, EmptyBlock
<1>7. ASSUME ListenerRecv PROVE PoolInv'
  <2>1. Polled' = Polled
    <3>1. ch2 # <<>> /\ num' = Head(ch2) /\ ch2' = Tail(ch2) /\ pend' = pend
      BY <1>7 DEF ListenerRecv
    <3>2. /\ Len(ch2) \in Nat /\ Len(ch2) >= 1 /\ num' = ch2[1]
          /\ ch2' \in Seq(Heights) /\ Len(ch2') = Len(ch2) - 1
          /\ \A i \in 1 .. Len(ch2') : ch2'[i] = ch2[i + 1]
      BY <3>1, QueueFacts DEF ListenerOK
    <3>3. CASE ch2' = <<>>
      <4>1. Len(ch2) = 1
        BY <3>2, <3>3
      <4> QED BY <3>1, <3>2, <3>3, <4>1 DEF Polled
    <3>4. CASE ch2' # <<>>
      <4>1. Len(ch2') >= 1 /\ Len(ch2') \in 1 .. Len(ch2')
        BY <3>2, <3>4
      <4>2. ch2'[Len(ch2')] = ch2[Len(ch2)]
        BY <3>2, <4>1
      <4> QED BY <3>1, <3>4, <4>2 DEF Polled
    <3> QED BY <3>3, <3>4
  <2>2. PollsPaced'
    <3>1. ASSUME NEW i \in 1 .. Len(ch2')
          PROVE  ch2'[i] <= (IF i = 1 THEN num' ELSE ch2'[i-1]) + MaxLag
      <4>1. /\ ch2'[i] = ch2[i + 1]
            /\ i + 1 \in 1 .. Len(ch2)
            /\ i # 1 => ch2'[i - 1] = ch2[i]
            /\ num' = ch2[1]
        BY <1>7, QueueFacts DEF ListenerRecv, ListenerOK
      <4>2. ch2[i + 1] <= ch2[i] + MaxLag
        BY <4>1 DEF PollsPaced
      <4> QED BY <4>1, <4>2
    <3>2. pend # None =>
              IF ch2' # <<>> THEN pend <= ch2'[Len(ch2')] + MaxLag
              ELSE num' # None => pend <= num' + MaxLag
      <4>1. /\ ch2' # <<>> => ch2'[Len(ch2')] = ch2[Len(ch2)]
            /\ ch2' = <<>> => num' = ch2[Len(ch2)]
        <5>1. /\ ch2' \in Seq(Heights) /\ Len(ch2') = Len(ch2) - 1 /\ num' = ch2[1]
              /\ \A i \in 1 .. Len(ch2') : ch2'[i] = ch2[i + 1]
          BY <1>7, QueueFacts DEF ListenerRecv, ListenerOK
        <5>2. ch2' # <<>> => Len(ch2') \in Nat /\ Len(ch2') >= 1
          BY <5>1, QueueFacts
        <5>3. ch2' = <<>> => Len(ch2) = 1
          BY <5>1, QueueFacts DEF ListenerOK
        <5> QED BY <5>1, <5>2, <5>3
      <4>2. pend # None => pend <= ch2[Len(ch2)] + MaxLag
        BY <1>7 DEF ListenerRecv, PollsPaced
      <4> QED BY <4>1, <4>2
    <3> QED BY <1>7, <2>1, <3>1, <3>2 DEF ListenerRecv, PollsPaced
  <2>3. num' # None /\ (num # None => num' <= num + MaxLag)
    BY <1>7, QueueFacts DEF ListenerRecv, PollsPaced, ListenerOK
  <2>4. CloseBehind'
    BY <1>7, <2>3, QueueFacts DEF ListenerRecv, CloseBehind, ListenerOK, HistoryOK, Pooled
  <2> QED BY <1>7, <2>2, <2>4 DEF ListenerRecv, JobInv, PoolBelow, PoolDrains, Pooled
<1>8. ASSUME ScanDone PROVE PoolInv'
  <2>1. CloseBehind'
    BY <1>8 DEF ScanDone, CloseBehind, Pooled
  <2>2. UNCHANGED Polled
    BY <1>8 DEF ScanDone, Polled
  <2> QED BY <1>8, <2>1, <2>2 DEF ScanDone, PollsPaced, JobInv, PoolBelow, PoolDrains, Pooled
<1>9. ASSUME ReadFails PROVE PoolInv'
  <2>1. CloseBehind'
    BY <1>9 DEF ReadFails, CloseBehind, Pooled, HistoryOK
  <2>2. UNCHANGED Polled
    BY <1>9 DEF ReadFails, Polled
  <2> QED BY <1>9, <2>1, <2>2
      DEF ReadFails, PollsPaced, JobInv, PoolBelow, PoolDrains, Pooled, HistoryOK
<1>10. ASSUME ReadDirect PROVE PoolInv'
  <2>1. \A h \in Heights : ~Pooled(h)
    BY <1>10 DEF ReadDirect, CloseBehind, ListenerOK
  <2>2. num # None /\ up
    BY <1>10 DEF ReadDirect, ConfirmedInv, IdleWhenDown, ListenerOK
  <2>3. JobInv'
    <3>1. LastBlock \in Nat /\ LastBlock <= num /\ LastBlock \in Heights
      BY <1>10 DEF ReadDirect, ListenerOK
    <3>2. block[LastBlock].txs >= 0
      BY <3>1, TxsAssumption DEF NodeOK, Block
    <3>3. job'.height = LastBlock /\ job'.pos = 0 /\ job'.pos <= job'.txs
      BY <1>10, <3>2 DEF ReadDirect
    <3> QED BY <1>10, <2>1, <2>2, <3>1, <3>3 DEF ReadDirect, JobInv, Pooled
  <2>4. UNCHANGED Polled
    BY <1>10 DEF ReadDirect, Polled
  <2> QED BY <1>10, <2>1, <2>3, <2>4
      DEF ReadDirect, PollsPaced, CloseBehind, PoolBelow, PoolDrains, Pooled
<1>11. ASSUME ReadPooled PROVE PoolInv'
  <2>1. UNCHANGED Polled
    BY <1>11 DEF ReadPooled, Polled
  <2>2. PollsPaced'
    BY <1>11, <2>1 DEF ReadPooled, PollsPaced
  <2>3. LastBlock \in Heights /\ num # None /\ up
    BY <1>11 DEF ReadPooled, ListenerOK, ConfirmedInv, IdleWhenDown
  <2>4. \A h \in Heights : Pooled(h)' => Pooled(h) \/ h = LastBlock
    BY <1>11, <2>3 DEF ReadPooled, ListenerOK, Pooled
  <2>5. CASE job' = job /\ lpc' = lpc /\ LastBlock' = LastBlock + 1
             /\ (LastBlock >= 2 => ~Pooled(LastBlock - 2))
    <3>1. CloseBehind'
      <4>1. lpc = "scan" /\ UNCHANGED <<num, faults>> /\ LastBlock \in Nat /\ faults \in Nat
            /\ num \in Heights
        BY <1>11, <2>3 DEF ReadPooled, ListenerOK, HistoryOK
      <4>2. LastBlock >= num - (MIN_CONFIRMATION - 1)
        BY <1>11 DEF ReadPooled
      <4> QED BY <2>3, <2>4, <2>5, <4>1, <4>2 DEF CloseBehind
    <3>2. PoolDrains' /\ PoolBelow'
      <4>1. lpc = "scan" /\ lpc' = "scan" /\ LastBlock \in Nat /\ ~Sending
        BY <1>11, <2>5 DEF ReadPooled, ListenerOK, Sending
      <4>2. ASSUME NEW h \in Heights, Pooled(h)'
            PROVE  h >= LastBlock - 2 /\ h <= LastBlock
        BY <2>4, <4>1, <4>2 DEF PoolDrains, PoolBelow
      <4>3. ASSUME NEW h \in Heights, Pooled(h)', h = LastBlock - 2
            PROVE  FALSE
        BY <2>4, <2>5, <4>1, <4>3
      <4> QED BY <2>5, <4>1, <4>2, <4>3 DEF PoolDrains, PoolBelow, Sending
    <3> QED BY <1>11, <2>2, <2>5, <3>1, <3>2 DEF ReadPooled, JobInv
  <2>6. CASE /\ LastBlock' = LastBlock /\ lpc' = "send"
             /\ LastBlock - 2 \in Heights
             /\ Pooled(LastBlock - 2)
             /\ job' = [height |-> LastBlock - 2, branch |-> blkPool[LastBlock - 2].branch,
                        txs |-> blkPool[LastBlock - 2].txs, pos |-> 0]
    <3>1. CloseBehind'
      BY <1>11, <2>3, <2>4, <2>6 DEF ReadPooled, CloseBehind, ListenerOK, HistoryOK
    <3>2. PoolDrains' /\ PoolBelow'
      BY <1>11, <2>3, <2>4, <2>6 DEF ReadPooled, PoolDrains, PoolBelow, ListenerOK
    <3>3. blkPool'[LastBlock - 2] = blkPool[LastBlock - 2]
      BY <1>11, <2>3, <2>6 DEF ReadPooled, ListenerOK
    <3>4. JobInv'
      <4>1. job'.pos = 0 /\ job'.pos <= job'.txs
        BY <2>6 DEF Pooled, ListenerOK, Block
      <4>2. LastBlock \in Nat /\ job'.height = LastBlock - 2
            /\ job'.branch = blkPool'[LastBlock - 2].branch
            /\ job'.txs = blkPool'[LastBlock - 2].txs
            /\ blkPool'[LastBlock - 2].txs > 0
        BY <2>6, <3>3 DEF Pooled, ListenerOK
      <4>3. LastBlock' = LastBlock /\ lpc' = "send" /\ UNCHANGED <<up, num>>
            /\ LastBlock <= num
        BY <1>11, <2>6 DEF ReadPooled
      <4> QED BY <2>3, <4>1, <4>2, <4>3 DEF JobInv, Pooled
    <3> QED BY <1>11, <2>2, <3>1, <3>2, <3>4 DEF ReadPooled
  <2>7. PoolKey(LastBlock) \in Heights => LastBlock >= 2 /\ PoolKey(LastBlock) = LastBlock - 2
    BY DEF PoolKey, ListenerOK
  <2>8. LastBlock >= 2 => PoolKey(LastBlock) = LastBlock - 2 /\ LastBlock - 2 \in Heights
    BY <2>3 DEF PoolKey, ListenerOK
  <2> QED BY <1>11, <2>5, <2>6, <2>7, <2>8 DEF ReadPooled
<1>12. ASSUME SendTx PROVE PoolInv'
  <2>1. UNCHANGED Polled
    BY <1>12 DEF SendTx, Polled
  <2>2. JobInv'
    BY <1>12 DEF SendTx, JobInv, ListenerOK, Job, Pooled
  <2> QED BY <1>12, <2>1, <2>2 DEF SendTx, PollsPaced, CloseBehind, PoolBelow, PoolDrains, Pooled
<1>13. ASSUME SendAdmin PROVE PoolInv'
  <2>1. UNCHANGED Polled
    BY <1>13 DEF SendAdmin, Polled
  <2> QED BY <1>13, <2>1
      DEF SendAdmin, PollsPaced, CloseBehind, JobInv, PoolBelow, PoolDrains, Pooled
<1>14. ASSUME Advance PROVE PoolInv'
  <2>1. UNCHANGED Polled
    BY <1>14 DEF Advance, Polled
  <2>2. \A h \in Heights : Pooled(h)' => Pooled(h) /\ h > LastBlock - 2
    BY <1>14 DEF Advance, ListenerOK, Pooled, EmptyBlock, JobInv, PoolDrains
  <2>3. CloseBehind'
    BY <1>14, <2>2 DEF Advance, CloseBehind, ListenerOK, JobInv
  <2>4. PoolBelow' /\ PoolDrains'
    BY <1>14, <2>2 DEF Advance, PoolBelow, PoolDrains, ListenerOK
  <2> QED BY <1>14, <2>1, <2>3, <2>4 DEF Advance, PollsPaced, JobInv
<1>15. ASSUME NEW n \in 0 .. MaxTxs, Mine(n) PROVE PoolInv'
  BY <1>2, <1>15 DEF Mine
<1>16. ASSUME NEW d \in 1 .. MaxReorgDepth, NEW n \in 0 .. MaxTxs, Reorg(d, n)
       PROVE PoolInv'
  BY <1>2, <1>16 DEF Reorg
<1>17. ASSUME TickRpcFails \/ NotifierTake \/ NotifierDone PROVE PoolInv'
  BY <1>1, <1>17 DEF TickRpcFails, NotifierTake, NotifierDone
<1>18. ASSUME UNCHANGED vars PROVE PoolInv'
  BY <1>1, <1>18 DEF vars
<1> QED
  BY <1>3, <1>4, <1>5, <1>6, <1>7, <1>8, <1>9, <1>10, <1>11, <1>12, <1>13, <1>14,
     <1>15, <1>16, <1>17, <1>18
  DEF Next, Environment, Main, Listener, Notifier, Interrupt, Crash

\* The pool layer holds throughout.
LEMMA PoolInvariant ==
    ASSUME Paced
    PROVE  Spec => []PoolInv
<1>1. Init => PoolInv
  BY HeightsFact, BoundAssumption DEF Init, PoolInv, PollsPaced, Polled, CloseBehind, JobInv,
     PoolBelow, PoolDrains, Pooled, EmptyPool, EmptyBlock, Sending, None, MIN_CONFIRMATION
<1>2. TypeOK /\ ConfirmedInv /\ PoolInv /\ [Next]_vars => PoolInv'
  BY PoolStep
<1> QED BY <1>1, <1>2, ConfirmedInvariant, TypeCorrect, PTL DEF Spec

\* If blocks come in slowly enough (Paced), every parked block is looked up
\* and pushed in its turn: the pool never holds one that has fallen behind.
THEOREM PoolDrainsCorrect ==
    ASSUME Paced
    PROVE  Spec => []PoolDrains
  BY PoolInvariant, PTL DEF PoolInv
-----------------------------------------------------------------------------
\* No step disturbs the order of what was pushed and what is about to be.
LEMMA OrderStep ==
    ASSUME Paced, TypeOK, ConfirmedInv, PoolInv, OrderInv, [Next]_vars
    PROVE  OrderInv'
<1> USE HeightsFact, WordAssumption
    DEF TypeOK, OrderInv, node, main, listener, notifier, budget, history, None,
        Sending, FromPool, MIN_CONFIRMATION
<1>1. ASSUME UNCHANGED <<LastBlock, lpc, job, blkPool, lastSent>> PROVE OrderInv'
  BY <1>1 DEF Pooled
<1>2. ASSUME Start PROVE OrderInv'
  BY <1>2 DEF Start, ConfirmedInv, IdleWhenDown
<1>3. ASSUME NEW kind, Stop(kind) PROVE OrderInv'
  BY <1>3 DEF Stop
<1>4. ASSUME ListenerRecv \/ ScanDone \/ ReadFails PROVE OrderInv'
  BY <1>4 DEF ListenerRecv, ScanDone, ReadFails, Pooled
<1>5. ASSUME ReadDirect PROVE OrderInv'
  BY <1>5 DEF ReadDirect
<1>6. ASSUME ReadPooled PROVE OrderInv'
  <2>1. LastBlock \in Heights
    BY <1>6 DEF ReadPooled, ListenerOK
  <2>2. \A h \in Heights : Pooled(h)' => Pooled(h) \/ h = LastBlock
    BY <1>6, <2>1 DEF ReadPooled, ListenerOK, Pooled
  <2>3. CASE lpc' = lpc /\ LastBlock' = LastBlock + 1
    BY <1>6, <2>1, <2>2, <2>3 DEF ReadPooled, HistoryOK, Message
  <2>4. CASE lpc' = "send" /\ job'.height \in Heights /\ Pooled(job'.height)
    BY <1>6, <2>4 DEF ReadPooled
  <2> QED BY <1>6, <2>3, <2>4 DEF ReadPooled
<1>7. ASSUME SendTx PROVE OrderInv'
  BY <1>7 DEF SendTx, TxMsg, ListenerOK, Job
<1>8. ASSUME SendAdmin PROVE OrderInv'
  BY <1>8 DEF SendAdmin
<1>9. ASSUME Advance PROVE OrderInv'
  <2>1. lastSent # NoMsg => lastSent.height <= job.height /\ job.height <= LastBlock
    BY <1>9 DEF Advance, PoolInv, JobInv, HistoryOK, Message, ListenerOK, Job
  <2>2. \A h \in Heights : Pooled(h)' => FromPool /\ Pooled(h) /\ h > job.height
    BY <1>9 DEF Advance, ListenerOK, Pooled, EmptyBlock, PoolInv, JobInv, PoolDrains
  <2> QED BY <1>9, <2>1, <2>2 DEF Advance, ListenerOK, HistoryOK, Message, Job
<1>10. ASSUME NEW n \in 0 .. MaxTxs, Mine(n) PROVE OrderInv'
  BY <1>1, <1>10 DEF Mine
<1>11. ASSUME NEW d \in 1 .. MaxReorgDepth, NEW n \in 0 .. MaxTxs, Reorg(d, n)
       PROVE OrderInv'
  BY <1>1, <1>11 DEF Reorg
<1>12. ASSUME TickOk \/ TickRpcFails \/ Push \/ NotifierTake \/ NotifierDone PROVE OrderInv'
  BY <1>1, <1>12 DEF TickOk, TickRpcFails, Push, NotifierTake, NotifierDone
<1>13. ASSUME UNCHANGED vars PROVE OrderInv'
  BY <1>1, <1>13 DEF vars
<1> QED
  BY <1>2, <1>3, <1>4, <1>5, <1>6, <1>7, <1>8, <1>9, <1>10, <1>11, <1>12, <1>13
  DEF Next, Environment, Main, Listener, Notifier, Interrupt, Crash

\* What SendTx pushes comes after what was pushed last.
LEMMA PushesInOrder ==
    ASSUME TypeOK, OrderInv, [Next]_vars
    PROVE  LET m == ch1'[Len(ch1')]
           IN  Len(ch1') > Len(ch1) /\ m.type = "TX" /\ lastSent # NoMsg
                   => Before(lastSent, m)
<1> USE DEF TypeOK, node, main, listener, notifier, budget, history
<1> SUFFICES ASSUME Len(ch1') > Len(ch1), ch1'[Len(ch1')].type = "TX", lastSent # NoMsg
             PROVE  Before(lastSent, ch1'[Len(ch1')])
  OBVIOUS
<1>1. SendTx \/ SendAdmin
  <2>1. ch1 \in Seq(Message) /\ Len(<<>>) = 0 /\ Len(ch1) \in Nat
        /\ (ch1 # <<>> => Len(Tail(ch1)) < Len(ch1))
    BY DEF NotifierOK
  <2>2. ch1' # ch1 /\ ch1' # <<>> /\ (ch1 # <<>> => ch1' # Tail(ch1))
    BY <2>1
  <2>3. ~Environment /\ ~(UNCHANGED vars)
    BY <2>2 DEF Environment, Mine, Reorg, vars
  <2>4. ~Main
    BY <2>2 DEF Main, Start, TickOk, TickRpcFails, Push, Interrupt, Crash, Stop
  <2>5. ~Notifier
    BY <2>2 DEF Notifier, NotifierTake, NotifierDone
  <2>6. Listener
    BY <2>3, <2>4, <2>5 DEF Next
  <2> QED BY <2>2, <2>6
      DEF Listener, ListenerRecv, ScanDone, ReadFails, ReadDirect, ReadPooled, Advance
<1>2. ASSUME NEW m, ch1' = Append(ch1, m) PROVE ch1'[Len(ch1')] = m
  BY <1>2 DEF NotifierOK
<1>3. ~SendAdmin
  BY <1>2 DEF SendAdmin, AdminMsg
<1> QED BY <1>1, <1>2, <1>3
    DEF SendTx, TxMsg, Before, OrderInv, Sending, ListenerOK, HistoryOK, Job, Message

\* The order layer holds throughout.
LEMMA OrderInvariant ==
    ASSUME Paced
    PROVE  Spec => []OrderInv
<1>1. Init => OrderInv
  BY DEF Init, OrderInv
<1>2. TypeOK /\ ConfirmedInv /\ PoolInv /\ OrderInv /\ [Next]_vars => OrderInv'
  BY OrderStep
<1> QED BY <1>1, <1>2, PoolInvariant, ConfirmedInvariant, TypeCorrect, PTL DEF Spec

\* At that pace transactions are pushed in chain order between two starts,
\* none of them twice.
THEOREM SentInOrderCorrect ==
    ASSUME Paced
    PROVE  Spec => SentInOrder
<1>1. TypeOK /\ OrderInv /\ [Next]_vars
      => [LET m == ch1'[Len(ch1')]
          IN  Len(ch1') > Len(ch1) /\ m.type = "TX" /\ lastSent # NoMsg
                  => Before(lastSent, m)]_vars
  BY PushesInOrder
<1> QED BY <1>1, OrderInvariant, TypeCorrect, PTL DEF Spec, SentInOrder
-----------------------------------------------------------------------------
\* The chain only ever drops parsed transactions: none returns to it.
LEMMA ChainStable ==
    ASSUME TypeOK, ParsedKnown, [Next]_vars, NEW m \in parsed, OnChain(tip, block, m)'
    PROVE  OnChain(tip, block, m)
<1> USE HeightsFact DEF TypeOK, node, OnChain, ParsedKnown, NodeOK, HistoryOK, Message
<1>1. m \in Message /\ m.height \in Heights /\ m.height <= tip
  OBVIOUS
<1>2. ASSUME NEW n \in 0 .. MaxTxs, Mine(n) PROVE OnChain(tip, block, m)
  BY <1>1, <1>2 DEF Mine, MayGrow
<1>3. ASSUME NEW d \in 1 .. MaxReorgDepth, NEW n \in 0 .. MaxTxs, Reorg(d, n)
      PROVE  OnChain(tip, block, m)
  <2>1. m.height <= tip - d
    BY <1>1, <1>3 DEF Reorg
  <2> QED BY <1>1, <1>3, <2>1 DEF Reorg
<1>4. CASE UNCHANGED node
  BY <1>4
<1> QED BY <1>2, <1>3, <1>4
    DEF Next, vars, Environment, Main, Listener, Notifier, Start, TickOk, TickRpcFails, Push,
        Interrupt, Crash, Stop, ListenerRecv, ScanDone, ReadFails, ReadDirect, ReadPooled,
        SendTx, SendAdmin, Advance, NotifierTake, NotifierDone

\* What is read is on the chain, and new to no branch.
LEMMA ReadFacts ==
    ASSUME TypeOK, ParsedKnown, LastBlock \in Heights, LastBlock <= tip,
           NEW m \in BlockTxs(LastBlock, block[LastBlock])
    PROVE  /\ m.type = "TX" /\ m.height = LastBlock /\ m.branch = block[LastBlock].branch
           /\ m.n >= 1 /\ m.n <= block[LastBlock].txs
           /\ m.branch <= reorgs /\ m.height <= tip
  BY DEF TypeOK, ParsedKnown, BlockTxs, TxMsg, NodeOK, Block

\* Both ways of reading record what they read.
LEMMA ReadIsKnown ==
    ASSUME TypeOK, ConfirmedInv, ReadDirect \/ ReadPooled
    PROVE  /\ LastBlock \in Heights /\ LastBlock <= tip /\ up /\ ~Sending
           /\ parsed' = parsed \cup BlockTxs(LastBlock, block[LastBlock])
           /\ UNCHANGED <<node, up, disk, sent>>
<1>1. lpc = "scan" /\ LastBlock \in Nat /\ num \in Heights \cup {-1} /\ LastBlock <= num
  BY DEF ReadDirect, ReadPooled, TypeOK, ListenerOK, MIN_CONFIRMATION, None
<1>2. num <= tip /\ tip \in Heights /\ up
  BY <1>1 DEF ConfirmedInv, KnownHeights, IdleWhenDown, TypeOK, NodeOK, MainOK
<1>3. LastBlock \in Heights /\ LastBlock <= tip
  BY <1>1, <1>2, HeightsFact
<1> QED BY <1>1, <1>2, <1>3 DEF ReadDirect, ReadPooled, Sending, main

\* No step makes up a parsed transaction of an unknown branch or height.
LEMMA ParsedKnownStep ==
    ASSUME TypeOK, ConfirmedInv, ParsedKnown, [Next]_vars
    PROVE  ParsedKnown'
<1> USE HeightsFact DEF TypeOK, ParsedKnown, NodeOK, node, main, listener, notifier, budget,
        history
<1>1. ASSUME UNCHANGED <<node, parsed>> PROVE ParsedKnown'
  BY <1>1
<1>2. ASSUME NEW n \in 0 .. MaxTxs, Mine(n) PROVE ParsedKnown'
  BY <1>2 DEF Mine, MayGrow, Block, HistoryOK, Message
<1>3. ASSUME NEW d \in 1 .. MaxReorgDepth, NEW n \in 0 .. MaxTxs, Reorg(d, n)
      PROVE  ParsedKnown'
  BY <1>3 DEF Reorg, Block, HistoryOK, Message
<1>4. ASSUME ReadDirect \/ ReadPooled PROVE ParsedKnown'
  BY <1>4, ReadIsKnown, ReadFacts
<1> QED BY <1>1, <1>2, <1>3, <1>4
    DEF Next, vars, Environment, Main, Listener, Notifier, Start, TickOk, TickRpcFails, Push,
        Interrupt, Crash, Stop, ListenerRecv, ScanDone, ReadFails,
        SendTx, SendAdmin, Advance, NotifierTake, NotifierDone

\* A saved counter is read back three blocks behind, or as zero.
LEMMA SaveLoad ==
    ASSUME NEW x \in Nat
    PROVE  Load(Save(x)) <= x /\ (Load(Save(x)) = 0 \/ Load(Save(x)) = x - 3)
  BY WordAssumption DEF Load, Save

\* Whatever lies three blocks below LastBlock has been pushed.
LEMMA PushedBelow ==
    ASSUME TypeOK, PoolInv, NothingForgotten, up, NEW m \in parsed,
           OnChain(tip, block, m), m.n >= 1, m.height < LastBlock - 2
    PROVE  m \in sent
<1>1. m \in Message /\ m.height \in Heights /\ LastBlock \in Nat
  BY DEF TypeOK, ListenerOK, HistoryOK, Message
<1>2. m \in sent \/ InPool(m)
  BY <1>1, HeightsFact DEF NothingForgotten, Read
<1>3. InPool(m) => Pooled(m.height)
  BY <1>1 DEF InPool, Pooled, TypeOK, ListenerOK, Block, Message
<1>4. ~Pooled(m.height)
  BY <1>1, HeightsFact DEF PoolInv, PoolDrains, MIN_CONFIRMATION
<1> QED BY <1>2, <1>3, <1>4

\* No step forgets a transaction that will not be read again.
LEMMA ResumeStep ==
    ASSUME Paced, TypeOK, ConfirmedInv, PoolInv, PoolInv', ResumeInv, [Next]_vars
    PROVE  ResumeInv'
<1> USE HeightsFact
    DEF node, main, listener, notifier, budget, history, None,
        ResumeInv, Resume, MIN_CONFIRMATION
<1>a. ParsedKnown'
  BY ParsedKnownStep
<1>b. \A m \in parsed : OnChain(tip, block, m)' => OnChain(tip, block, m)
  BY ChainStable
<1>c. \A m \in parsed : m \in Message /\ m.type = "TX" /\ m.height \in Heights /\ m.n >= 1
  BY DEF TypeOK, HistoryOK, Message, ParsedKnown
<1>1. ASSUME UNCHANGED <<main, listener, parsed>>, sent \subseteq sent' PROVE ResumeInv'
  BY <1>1, <1>a, <1>b
     DEF NothingForgotten, ResumeNeverSkips, Read, InPool, InJob, Sending, FromPool
<1>2. ASSUME disk' = Save(LastBlock), up, UNCHANGED <<parsed, sent>> PROVE ResumeNeverSkips'
  <2>1. ASSUME NEW m \in parsed, OnChain(tip, block, m), m.height < Load(disk')
        PROVE  m \in sent
    BY <1>2, <1>c, <2>1, SaveLoad, PushedBelow DEF TypeOK, ListenerOK
  <2> QED BY <1>2, <1>b, <2>1 DEF ResumeNeverSkips
<1>3. ASSUME Start PROVE ResumeInv'
  <2>1. lpc = "wait" /\ LastBlock' = Load(disk)
    BY <1>3 DEF Start, ConfirmedInv, IdleWhenDown
  <2>2. NothingForgotten'
    BY <1>3, <1>b, <2>1 DEF Start, NothingForgotten, ResumeNeverSkips, Read, Sending
  <2>3. Load(disk) \in Nat
    BY CounterTypes DEF TypeOK, MainOK
  <2> QED BY <1>3, <1>a, <1>b, <2>1, <2>2, <2>3 DEF Start, ResumeNeverSkips
<1>4. ASSUME TickOk \/ TickRpcFails PROVE ResumeInv'
  <2>1. up /\ disk' = Save(LastBlock) /\ UNCHANGED <<up, listener, parsed, sent>>
    BY <1>4 DEF TickOk, TickRpcFails
  <2>2. NothingForgotten'
    BY <1>b, <2>1 DEF NothingForgotten, Read, InPool, InJob, Sending, FromPool
  <2>3. Load(disk') <= LastBlock
    BY <2>1, SaveLoad DEF TypeOK, ListenerOK
  <2> QED BY <1>2, <1>a, <2>1, <2>2, <2>3
<1>5. ASSUME Push \/ ListenerRecv \/ ScanDone \/ ReadFails PROVE ResumeInv'
  <2>1. /\ UNCHANGED <<up, disk, LastBlock, job, blkPool, parsed, sent>>
        /\ UNCHANGED lpc \/ (~Sending /\ ~Sending')
    BY <1>5 DEF Push, ListenerRecv, ScanDone, ReadFails, Sending
  <2>2. NothingForgotten'
    BY <1>b, <2>1 DEF NothingForgotten, Read, InPool, InJob, Sending, FromPool
  <2> QED BY <1>a, <1>b, <2>1, <2>2 DEF ResumeNeverSkips
<1>6. CASE Interrupt
  <2>1. up /\ ~up' /\ disk' = Save(LastBlock) /\ UNCHANGED <<parsed, sent>>
    BY <1>6 DEF Interrupt, Stop
  <2> QED BY <1>2, <1>a, <2>1 DEF NothingForgotten
<1>7. CASE Crash
  BY <1>7, <1>a, <1>b DEF Crash, Stop, NothingForgotten, ResumeNeverSkips
<1>8. ASSUME ReadDirect PROVE ResumeInv'
  <2>1. /\ LastBlock \in Heights /\ LastBlock <= tip /\ up /\ ~Sending
        /\ UNCHANGED <<up, disk, LastBlock, blkPool, sent, node>>
        /\ parsed' = parsed \cup BlockTxs(LastBlock, block[LastBlock])
        /\ Sending' /\ ~FromPool'
        /\ job'.height = LastBlock /\ job'.branch = block[LastBlock].branch
        /\ job'.txs = block[LastBlock].txs /\ job'.pos = 0
    BY <1>8, ReadIsKnown DEF ReadDirect, Sending, FromPool
  <2>2. \A m \in BlockTxs(LastBlock, block[LastBlock]) : m.height = LastBlock /\ m.n >= 1
    BY <2>1, ReadFacts
  <2>3. ASSUME NEW m \in parsed', OnChain(tip, block, m)',
               m.height < LastBlock
        PROVE  m \in sent' \/ InPool(m)'
    <3>1. m \in parsed
      BY <2>1, <2>2, <2>3
    <3> QED BY <1>b, <2>1, <2>3, <3>1 DEF NothingForgotten, Read, InPool
  <2>4. ASSUME NEW m \in parsed', OnChain(tip, block, m)', m.height = job'.height
        PROVE  InJob(m)'
    <3>1. m.n >= 1 /\ m \in Message
      BY <1>c, <2>1, <2>2, MessageTypes DEF TypeOK, NodeOK
    <3> QED BY <2>1, <2>4, <3>1 DEF OnChain, InJob, Message
  <2>5. NothingForgotten'
    BY <2>1, <2>3, <2>4 DEF NothingForgotten, Read
  <2>6. ResumeNeverSkips'
    <3>1. Load(disk) <= LastBlock /\ Load(disk) \in Nat
      BY <2>1, CounterTypes DEF TypeOK, MainOK
    <3> QED BY <1>b, <2>1, <2>2, <3>1 DEF ResumeNeverSkips
  <2> QED BY <1>a, <2>1, <2>5, <2>6
<1>9. ASSUME SendTx PROVE ResumeInv'
  <2> DEFINE new == TxMsg(job.height, job.branch, job.pos + 1)
  <2>1. /\ Sending /\ Sending' /\ up
        /\ UNCHANGED <<up, disk, LastBlock, lpc, blkPool, node, parsed>>
        /\ sent' = sent \cup {new}
        /\ job' = [job EXCEPT !.pos = @ + 1]
    BY <1>9 DEF SendTx, Sending, PoolInv, JobInv
  <2>2. /\ job \in Job
        /\ job'.height = job.height /\ job'.branch = job.branch /\ job'.txs = job.txs
        /\ job'.pos = job.pos + 1
    BY <2>1 DEF TypeOK, ListenerOK, Job
  <2>3. ASSUME NEW m \in parsed, OnChain(tip, block, m), m.height = job.height
        PROVE  m \in sent' \/ InJob(m)'
    <3>1. m \in sent \/ InJob(m)
      BY <2>1, <2>3 DEF NothingForgotten
    <3>2. InJob(m) /\ m.n = job.pos + 1 => m = new
      BY <1>c, <2>2, <2>3 DEF InJob, TxMsg, Message, Job
    <3> QED BY <1>c, <2>1, <2>2, <3>1, <3>2 DEF InJob, Message, Job
  <2>4. NothingForgotten'
    <3>1. \A m \in parsed : OnChain(tip, block, m) =>
              /\ m.height < Read => m \in sent' \/ InPool(m)
              /\ m.height = job.height => m \in sent' \/ InJob(m)'
      BY <2>1, <2>3 DEF NothingForgotten
    <3>2. Read' = Read /\ \A m : InPool(m)' = InPool(m)
      BY <2>1, <2>2 DEF Read, FromPool, InPool
    <3> QED BY <1>b, <2>1, <2>2, <3>1, <3>2 DEF NothingForgotten
  <2>5. ResumeNeverSkips'
    BY <1>b, <2>1 DEF ResumeNeverSkips
  <2> QED BY <1>a, <2>1, <2>4, <2>5
<1>10. ASSUME SendAdmin PROVE ResumeInv'
  <2>1. /\ Sending /\ Sending'
        /\ UNCHANGED <<up, disk, LastBlock, job, blkPool, node, parsed, sent>>
    BY <1>10 DEF SendAdmin, Sending
  <2>2. NothingForgotten'
    BY <1>b, <2>1 DEF NothingForgotten, Read, InPool, InJob, FromPool
  <2> QED BY <1>a, <1>b, <2>1, <2>2 DEF ResumeNeverSkips
<1>11. ASSUME Advance PROVE ResumeInv'
  <2>1. /\ Sending /\ ~Sending' /\ up
        /\ UNCHANGED <<up, disk, node, parsed, sent>>
        /\ LastBlock' = LastBlock + 1 /\ LastBlock \in Nat
        /\ job \in Job /\ job.pos = job.txs
        /\ FromPool => job.height = LastBlock - 2
    BY <1>11 DEF Advance, Sending, PoolInv, JobInv, TypeOK, ListenerOK
  <2>2. \A m \in parsed : OnChain(tip, block, m) /\ m.height = job.height => m \in sent
    BY <1>c, <2>1 DEF NothingForgotten, InJob, Message, Job
  <2>3. \A h \in Heights : h # job.height \/ ~FromPool => blkPool'[h] = blkPool[h]
    BY <1>11 DEF Advance, FromPool, TypeOK, ListenerOK
  <2>4. \A m \in parsed : OnChain(tip, block, m) /\ m.height < LastBlock + 1 =>
            m \in sent \/ InPool(m)'
    <3>1. ASSUME NEW m \in parsed, OnChain(tip, block, m), m.height < LastBlock + 1,
                 m.height # job.height
          PROVE  m \in sent \/ InPool(m)'
      <4>1. m.height < Read
        BY <1>c, <2>1, <3>1 DEF Read, FromPool, Job
      <4>2. m \in sent \/ InPool(m)
        BY <2>1, <3>1, <4>1 DEF NothingForgotten
      <4> QED BY <1>c, <2>3, <3>1, <4>2 DEF InPool
    <3> QED BY <2>2, <3>1
  <2>5. NothingForgotten'
    BY <1>b, <2>1, <2>4 DEF NothingForgotten, Read
  <2>6. Load(disk) \in Nat
    BY CounterTypes DEF TypeOK, MainOK
  <2> QED BY <1>a, <1>b, <2>1, <2>5, <2>6 DEF ResumeNeverSkips
<1>12. ASSUME ReadPooled PROVE ResumeInv'
  <2>1. /\ LastBlock \in Heights /\ up /\ ~Sending
        /\ UNCHANGED <<up, disk, sent, node>>
        /\ parsed' = parsed \cup BlockTxs(LastBlock, block[LastBlock])
    BY <1>12, ReadIsKnown
  <2>2. \A m \in BlockTxs(LastBlock, block[LastBlock]) :
            /\ m.height = LastBlock /\ m.branch = block[LastBlock].branch
            /\ m.n >= 1 /\ m.n <= block[LastBlock].txs
            /\ m \in Message
    <3>1. LastBlock <= tip
      BY <1>12, ReadIsKnown
    <3> QED BY <2>1, <3>1, ReadFacts, MessageTypes DEF TypeOK, NodeOK
  <2>3. blkPool' = IF block[LastBlock].txs > 0
                   THEN [blkPool EXCEPT ![LastBlock] = block[LastBlock]] ELSE blkPool
    BY <1>12 DEF ReadPooled
  <2>4. ASSUME NEW m \in parsed', OnChain(tip, block, m)', m.height <= LastBlock
        PROVE  m \in sent \/ InPool(m)'
    <3>1. CASE m.height = LastBlock
      <4>1. m.n \in Int /\ m.n >= 1 /\ m.branch = block[LastBlock].branch
            /\ m.n <= block[LastBlock].txs /\ block[LastBlock].txs \in Int
        BY <1>c, <2>1, <2>2, <2>4, <3>1, TxsAssumption DEF OnChain, Message, TypeOK, NodeOK, Block
      <4>2. blkPool'[LastBlock] = block[LastBlock]
        BY <2>1, <2>3, <4>1 DEF TypeOK, ListenerOK
      <4> QED BY <3>1, <4>1, <4>2 DEF InPool
    <3>2. CASE m.height # LastBlock
      <4>1. m \in parsed /\ m.height < LastBlock
        BY <1>c, <2>1, <2>2, <2>4, <3>2
      <4>2. m \in sent \/ InPool(m)
        BY <1>b, <2>1, <2>4, <4>1 DEF NothingForgotten, Read
      <4>3. blkPool'[m.height] = blkPool[m.height]
        BY <1>c, <2>1, <2>3, <3>2, <4>1 DEF TypeOK, ListenerOK
      <4> QED BY <4>2, <4>3 DEF InPool
    <3> QED BY <3>1, <3>2
  <2>5. CASE LastBlock' = LastBlock + 1 /\ lpc' = lpc
    <3>1. NothingForgotten'
      BY <1>c, <2>1, <2>2, <2>4, <2>5 DEF NothingForgotten, Read, Sending
    <3>2. ResumeNeverSkips' /\ Load(disk') <= LastBlock'
      <4>1. Load(disk) <= LastBlock /\ Load(disk) \in Nat
        BY <2>1, CounterTypes DEF TypeOK, MainOK
      <4> QED BY <1>b, <2>1, <2>2, <2>5, <4>1 DEF ResumeNeverSkips
    <3> QED BY <1>a, <2>1, <3>1, <3>2
  <2>6. CASE LastBlock' = LastBlock /\ lpc' = "send" /\ job'.pos = 0
             /\ job'.height \in Heights /\ job'.height = LastBlock - 2
             /\ job'.branch = blkPool[job'.height].branch /\ job'.txs = blkPool[job'.height].txs
    <3>1. blkPool'[job'.height] = blkPool[job'.height] /\ job'.height < LastBlock
      BY <2>1, <2>3, <2>6 DEF TypeOK, ListenerOK
    <3>2. ASSUME NEW m \in parsed', OnChain(tip, block, m)', m.height = job'.height
          PROVE  m \in sent \/ InJob(m)'
      <4>1. m \in sent \/ InPool(m)'
        BY <2>1, <2>4, <2>6, <3>1, <3>2
      <4> QED BY <1>c, <2>1, <2>2, <2>6, <3>1, <3>2, <4>1 DEF InPool, InJob, Message
    <3>3. Read' = LastBlock + 1
      BY <2>1, <2>6 DEF Read, Sending, FromPool
    <3>4. NothingForgotten'
      BY <1>c, <2>1, <2>2, <2>4, <3>2, <3>3 DEF NothingForgotten
    <3>5. ResumeNeverSkips' /\ Load(disk') <= LastBlock'
      <4>1. Load(disk) <= LastBlock /\ Load(disk) \in Nat
        BY <2>1, CounterTypes DEF TypeOK, MainOK
      <4> QED BY <1>b, <2>1, <2>2, <2>6, <4>1 DEF ResumeNeverSkips
    <3> QED BY <1>a, <2>1, <3>4, <3>5
  <2>7. PoolKey(LastBlock) \in Heights => PoolKey(LastBlock) = LastBlock - 2
    BY <2>1, WordAssumption DEF PoolKey
  <2> QED BY <1>12, <2>5, <2>6, <2>7 DEF ReadPooled
<1>13. ASSUME Environment \/ Notifier PROVE ResumeInv'
  BY <1>1, <1>13 DEF Environment, Mine, Reorg, Notifier, NotifierTake, NotifierDone
<1>14. ASSUME UNCHANGED vars PROVE ResumeInv'
  BY <1>1, <1>14 DEF vars
<1> QED
  BY <1>3, <1>4, <1>5, <1>6, <1>7, <1>8, <1>9, <1>10, <1>11, <1>12, <1>13, <1>14
  DEF Next, Main, Listener

\* The resume layer holds throughout.
LEMMA ResumeInvariant ==
    ASSUME Paced
    PROVE  Spec => []ResumeInv
<1>1. Init => ResumeInv
  BY HeightsFact, WordAssumption
  DEF Init, ResumeInv, ParsedKnown, NothingForgotten, ResumeNeverSkips, EmptyPool, EmptyBlock
<1>2. TypeOK /\ ConfirmedInv /\ PoolInv /\ PoolInv' /\ ResumeInv /\ [Next]_vars => ResumeInv'
  BY ResumeStep
<1> QED BY <1>1, <1>2, PoolInvariant, ConfirmedInvariant, TypeCorrect, PTL DEF Spec

\* At that pace a stop, clean or not, at any moment, followed by a start from
\* the saved counter, skips no transaction that was parsed but not pushed.
THEOREM ResumeNeverSkipsCorrect ==
    ASSUME Paced
    PROVE  Spec => []ResumeNeverSkips
  BY ResumeInvariant, PTL DEF ResumeInv

\* At that pace a parsed transaction is not forgotten while the process runs.
THEOREM NothingDroppedCorrect ==
    ASSUME Paced
    PROVE  Spec => []NothingDropped
<1>1. TypeOK /\ ResumeInv => NothingDropped
  <2> SUFFICES ASSUME TypeOK, ResumeInv, up, NEW m \in parsed, OnChain(tip, block, m),
                      m.height < LastBlock
               PROVE  m \in sent \/ InPool(m)
    BY DEF NothingDropped, InPool
  <2>1. m.height < Read
    BY HeightsFact DEF Read, TypeOK, ListenerOK, HistoryOK, Message
  <2> QED BY <2>1 DEF ResumeInv, NothingForgotten
<1> QED BY <1>1, ResumeInvariant, TypeCorrect, PTL
-----------------------------------------------------------------------------
(* The refinement of ConfirmedFeed, step by step, without its liveness.      *)

\* No reorganisation and no stop, as ConfirmedFeed has it.
Undisturbed == MaxReorgs = 0 /\ MaxStops = 0

Chain == WalletTxs(tip, block)

\* The transactions waiting in a channel, and that they wait in chain order.
TxsIn(q) == {m \in {q[i] : i \in 1 .. Len(q)} : m.type = "TX"}
InOrder(q) ==
    \A i, j \in 1 .. Len(q) :
        i < j /\ q[i].type = "TX" /\ q[j].type = "TX" => Before(q[i], q[j])

Queued == TxsIn(ch1)

\* One branch; the only start is from height 0.
OneStart ==
    /\ reorgs = 0
    /\ ~up => disk = 0 /\ LastBlock = 0
    /\ LastBlock <= tip + 1

\* What is parked or in work is what the chain has.
ParkedFromChain ==
    /\ \A h \in Heights : Pooled(h) => blkPool[h] = block[h] /\ h <= tip
    /\ Sending => /\ job.branch = block[job.height].branch
                  /\ job.txs = block[job.height].txs

\* Reading leaves nothing out.
ChainRead ==
    \A m \in Chain :
        m.height < Read \/ (Sending /\ m.height = job.height) => m \in parsed

\* What was pushed is the beginning of what the chain has, up to lastSent.
PushedIsPrefix ==
    /\ sent \subseteq Chain
    /\ \A m \in sent : \A e \in Chain : Before(e, m) => e \in sent
    /\ \A m \in sent : lastSent # NoMsg /\ (m = lastSent \/ Before(m, lastSent))

\* It is delivered, at the Notifier or queued, in this order.
DeliveredInOrder ==
    /\ sent = delivered \cup Queued \cup ({cur} \ {NoMsg})
    /\ InOrder(ch1)
    /\ cur # NoMsg => \A m \in Queued : Before(cur, m)
    /\ \A d \in delivered : /\ cur # NoMsg => Before(d, cur)
                            /\ \A m \in Queued : Before(d, m)

FeedInv == OneStart /\ ParkedFromChain /\ ChainRead /\ PushedIsPrefix /\ DeliveredInOrder

\* What a transaction of the chain is.
LEMMA ChainFacts ==
    ASSUME TypeOK, NEW m \in Chain
    PROVE  /\ m \in Message /\ m.type = "TX" /\ m.n >= 1
           /\ m.height \in Heights /\ OnChain(tip, block, m)
<1>1. PICK h \in 0 .. tip : m \in BlockTxs(h, block[h])
  BY DEF Chain, WalletTxs
<1>2. h \in Heights /\ block[h] \in Block /\ tip \in Heights
  BY HeightsFact DEF TypeOK, NodeOK
<1>3. m \in Message
  BY <1>1, <1>2, MessageTypes
<1>4. PICK n \in 1 .. block[h].txs : m = TxMsg(h, block[h].branch, n)
  BY <1>1 DEF BlockTxs
<1>5. m.height = h /\ m.n = n /\ m.branch = block[h].branch /\ m.type = "TX"
  BY <1>4 DEF TxMsg
<1>6. block[h].txs \in Int
  BY <1>2, TxsAssumption DEF Block
<1>7. n >= 1 /\ n <= block[h].txs
  BY <1>4, <1>6
<1>8. h <= tip
  BY <1>2, HeightsFact
<1> QED BY <1>2, <1>3, <1>5, <1>7, <1>8 DEF OnChain

\* The transactions of a block of the chain are on the chain.
LEMMA InChain ==
    ASSUME TypeOK, NEW h \in Heights, h <= tip, NEW n \in Int, 1 <= n, n <= block[h].txs
    PROVE  TxMsg(h, block[h].branch, n) \in Chain
<1>1. h \in 0 .. tip /\ block[h] \in Block
  BY HeightsFact DEF TypeOK, NodeOK
<1>2. block[h].txs \in Int
  BY <1>1, TxsAssumption DEF Block
<1>3. n \in 1 .. block[h].txs
  BY <1>2
<1>4. TxMsg(h, block[h].branch, n) \in BlockTxs(h, block[h])
  BY <1>3 DEF BlockTxs
<1> QED BY <1>1, <1>4 DEF Chain, WalletTxs

\* What a new block adds to the chain.
LEMMA ChainGrows ==
    ASSUME TypeOK, NEW k \in 0 .. MaxTxs, Mine(k)
    PROVE  /\ Chain \subseteq Chain'
           /\ \A m \in Chain' : m \in Chain \/ m.height = tip + 1
           /\ \A h \in Heights : h <= tip => block'[h] = block[h]
<1>1. /\ tip' = tip + 1 /\ tip \in Heights /\ tip < MaxHeight
      /\ block' = [block EXCEPT ![tip + 1] = [branch |-> reorgs, txs |-> k]]
  BY DEF Mine, MayGrow, TypeOK, NodeOK
<1>2. \A h \in Heights : h <= tip => block'[h] = block[h]
  BY <1>1, HeightsFact DEF TypeOK, NodeOK
<1>3. \A h \in 0 .. tip : h \in Heights /\ h <= tip /\ h \in 0 .. tip'
  BY <1>1, HeightsFact
<1>4. Chain \subseteq Chain'
  BY <1>2, <1>3 DEF Chain, WalletTxs
<1>5. \A h \in 0 .. tip' : h \in 0 .. tip \/ h = tip + 1
  BY <1>1, HeightsFact
<1>6. \A m \in BlockTxs(tip + 1, block'[tip + 1]) : m.height = tip + 1
  BY DEF BlockTxs, TxMsg
<1>7. ASSUME NEW m \in Chain' PROVE m \in Chain \/ m.height = tip + 1
  <2>1. PICK h \in 0 .. tip' : m \in BlockTxs(h, block'[h])
    BY <1>7 DEF Chain, WalletTxs
  <2>2. CASE h = tip + 1
    BY <2>1, <2>2, <1>6
  <2>3. CASE h \in 0 .. tip
    BY <2>1, <2>3, <1>2, <1>3 DEF Chain, WalletTxs
  <2> QED BY <2>2, <2>3, <1>5
<1> QED BY <1>2, <1>4, <1>7

\* No stop and no reorganisation happens.
LEMMA Quiet ==
    ASSUME Undisturbed, TypeOK
    PROVE  /\ ~Interrupt /\ ~Crash
           /\ \A d \in 1 .. MaxReorgDepth, n \in 0 .. MaxTxs : ~Reorg(d, n)
  BY DEF Undisturbed, TypeOK, NodeOK, HistoryOK, Interrupt, Crash, Stop, Reorg

\* A push comes after everything pushed before, and leaves nothing out.
LEMMA PushFacts ==
    ASSUME TypeOK, ConfirmedInv, PoolInv, OrderInv, ResumeInv, FeedInv, SendTx
    PROVE  LET new == TxMsg(job.height, job.branch, job.pos + 1)
           IN  /\ new \in Chain /\ new \in Message /\ new # NoMsg
               /\ \A m \in sent : Before(m, new)
               /\ \A e \in Chain : Before(e, new) => e \in sent
<1> DEFINE new == TxMsg(job.height, job.branch, job.pos + 1)
<1>1. /\ Sending /\ up /\ job \in Job /\ job.pos < job.txs
      /\ job.height + 2 <= tip /\ job.height \in Heights /\ job.pos \in Nat /\ tip \in Heights
      /\ LastBlock \in Nat
  BY DEF SendTx, Sending, PoolInv, JobInv, TypeOK, ListenerOK, NodeOK, Job, ConfirmedInv,
         KnownHeights, MIN_CONFIRMATION
<1>2. /\ new.height = job.height /\ new.n = job.pos + 1 /\ new.type = "TX"
      /\ new \in Message
  BY <1>1, JobStep DEF TxMsg
<1>3. new \in Chain
  <2>1. job.branch = block[job.height].branch /\ job.txs = block[job.height].txs
    BY <1>1 DEF FeedInv, ParkedFromChain
  <2>2. job.txs \in Int
    BY <1>1 DEF Job
  <2>3. job.pos + 1 \in Int /\ 1 <= job.pos + 1 /\ job.pos + 1 <= block[job.height].txs
    BY <1>1, <2>1, <2>2
  <2>4. job.height <= tip
    BY <1>1, HeightsFact
  <2> QED BY <1>1, <2>1, <2>3, <2>4, InChain
<1>4. ASSUME NEW m \in sent PROVE Before(m, new)
  <2>1. lastSent # NoMsg /\ (m = lastSent \/ Before(m, lastSent))
    BY <1>4 DEF FeedInv, PushedIsPrefix
  <2>2. \/ lastSent.height < job.height
        \/ lastSent.height = job.height /\ lastSent.n <= job.pos
    BY <1>1, <2>1 DEF OrderInv
  <2>3. m \in Message /\ lastSent \in Message
    BY <1>4 DEF TypeOK, HistoryOK
  <2>4. m.height \in Int /\ lastSent.height \in Int /\ m.n \in Int /\ lastSent.n \in Int
        /\ job.height \in Int
    BY <1>1, <2>3, HeightsFact DEF Message
  <2> HIDE DEF new
  <2> QED BY <1>1, <1>2, <2>1, <2>2, <2>4 DEF Before
<1>5. ASSUME NEW e \in Chain, Before(e, new) PROVE e \in sent
  <2>1. /\ e \in Message /\ e.n >= 1 /\ e.height \in Heights /\ OnChain(tip, block, e)
        /\ e.n \in Int /\ e.height \in Int
    BY ChainFacts, HeightsFact DEF Message
  <2>2. \/ e.height < job.height
        \/ e.height = job.height /\ e.n <= job.pos
    BY <1>1, <1>2, <1>5, <2>1 DEF Before
  <2>3. CASE e.height = job.height /\ e.n <= job.pos
    <3>1. e \in parsed
      BY <1>1, <2>3 DEF FeedInv, ChainRead
    <3>2. e \in sent \/ InJob(e)
      BY <1>1, <2>1, <2>3, <3>1 DEF ResumeInv, NothingForgotten
    <3>3. ~InJob(e)
      BY <1>1, <2>1, <2>3 DEF InJob
    <3> QED BY <3>2, <3>3
  <2>4. CASE e.height < job.height
    <3>1. /\ FromPool => job.height = LastBlock - 2
          /\ ~FromPool => job.height = LastBlock /\ \A h \in Heights : ~Pooled(h)
      BY <1>1 DEF PoolInv, JobInv, FromPool
    <3>2. e.height < Read
      BY <1>1, <2>1, <2>4, <3>1, HeightsFact DEF Read
    <3>3. e \in parsed
      BY <3>2 DEF FeedInv, ChainRead
    <3>4. e \in sent \/ InPool(e)
      BY <1>1, <2>1, <3>2, <3>3 DEF ResumeInv, NothingForgotten
    <3>5. InPool(e) => Pooled(e.height)
      BY <2>1 DEF InPool, Pooled, TypeOK, ListenerOK, Block
    <3>6. Pooled(e.height) => e.height >= LastBlock - 2
      BY <2>1 DEF PoolInv, PoolDrains, MIN_CONFIRMATION
    <3>7. ~Pooled(e.height)
      BY <1>1, <2>1, <2>4, <3>1, <3>6
    <3> QED BY <3>4, <3>5, <3>7
  <2> QED BY <2>2, <2>3, <2>4
<1>6. new # NoMsg
  BY <1>2 DEF NoMsg
<1> QED BY <1>2, <1>3, <1>4, <1>5, <1>6

\* Messages that enter and leave a channel.
LEMMA ChannelFacts ==
    ASSUME NEW q \in Seq(Message)
    PROVE  /\ \A x \in Message :
                /\ TxsIn(Append(q, x)) = TxsIn(q) \cup {m \in {x} : m.type = "TX"}
                /\ InOrder(q) /\ (x.type = "TX" => \A m \in TxsIn(q) : Before(m, x))
                     => InOrder(Append(q, x))
           /\ q # <<>> =>
                /\ Head(q) \in Message
                /\ TxsIn(q) = TxsIn(Tail(q)) \cup {m \in {Head(q)} : m.type = "TX"}
                /\ InOrder(q) =>
                     /\ InOrder(Tail(q))
                     /\ Head(q).type = "TX" => \A m \in TxsIn(Tail(q)) : Before(Head(q), m)
<1>1. ASSUME NEW x \in Message
      PROVE  /\ TxsIn(Append(q, x)) = TxsIn(q) \cup {m \in {x} : m.type = "TX"}
             /\ InOrder(q) /\ (x.type = "TX" => \A m \in TxsIn(q) : Before(m, x))
                  => InOrder(Append(q, x))
  <2> DEFINE t == Append(q, x)
  <2>1. /\ Len(q) \in Nat /\ Len(t) = Len(q) + 1
        /\ \A i \in 1 .. Len(q) : t[i] = q[i]
        /\ t[Len(q) + 1] = x
    OBVIOUS
  <2> HIDE DEF t
  <2>2. \A i : i \in 1 .. Len(t) <=> i \in 1 .. Len(q) \/ i = Len(q) + 1
    BY <2>1
  <2>3. TxsIn(t) = TxsIn(q) \cup {m \in {x} : m.type = "TX"}
    BY <2>1, <2>2 DEF TxsIn
  <2>4. ASSUME InOrder(q), x.type = "TX" => \A m \in TxsIn(q) : Before(m, x)
        PROVE  InOrder(t)
    <3> SUFFICES ASSUME NEW i \in 1 .. Len(t), NEW j \in 1 .. Len(t), i < j,
                        t[i].type = "TX", t[j].type = "TX"
                 PROVE  Before(t[i], t[j])
      BY DEF InOrder
    <3>1. i \in 1 .. Len(q) /\ t[i] = q[i]
      BY <2>1
    <3>2. CASE j \in 1 .. Len(q)
      <4>1. t[j] = q[j]
        BY <2>1, <3>2
      <4> QED BY <2>4, <3>1, <3>2, <4>1 DEF InOrder
    <3>3. CASE j = Len(q) + 1
      <4>1. t[j] = x /\ t[i] \in TxsIn(q)
        BY <2>1, <3>1, <3>3 DEF TxsIn
      <4> QED BY <2>4, <4>1
    <3> QED BY <2>2, <3>2, <3>3
  <2> QED BY <2>3, <2>4 DEF t
<1>2. ASSUME q # <<>>
      PROVE  /\ Head(q) \in Message
             /\ TxsIn(q) = TxsIn(Tail(q)) \cup {m \in {Head(q)} : m.type = "TX"}
             /\ InOrder(q) =>
                  /\ InOrder(Tail(q))
                  /\ Head(q).type = "TX" => \A m \in TxsIn(Tail(q)) : Before(Head(q), m)
  <2> DEFINE t == Tail(q)
  <2>1. /\ Len(q) \in Nat /\ Len(q) >= 1 /\ Len(t) = Len(q) - 1
        /\ Head(q) = q[1] /\ Head(q) \in Message
        /\ \A i \in 1 .. Len(t) : t[i] = q[i + 1]
    BY <1>2
  <2> HIDE DEF t
  <2>2. /\ 1 \in 1 .. Len(q)
        /\ \A i \in 1 .. Len(t) : i + 1 \in 1 .. Len(q) /\ 1 < i + 1
        /\ \A i \in 1 .. Len(q) : i = 1 \/ (i - 1 \in 1 .. Len(t) /\ (i - 1) + 1 = i)
    BY <2>1
  <2>3. TxsIn(q) \subseteq TxsIn(t) \cup {m \in {Head(q)} : m.type = "TX"}
    <3> SUFFICES ASSUME NEW i \in 1 .. Len(q), q[i].type = "TX", i # 1
                 PROVE  q[i] \in TxsIn(t)
      BY <2>1 DEF TxsIn
    <3>1. i - 1 \in 1 .. Len(t) /\ t[i - 1] = q[i]
      BY <2>1, <2>2
    <3> QED BY <3>1 DEF TxsIn
  <2>4. TxsIn(t) \cup {m \in {Head(q)} : m.type = "TX"} \subseteq TxsIn(q)
    BY <2>1, <2>2 DEF TxsIn
  <2>5. ASSUME InOrder(q) PROVE InOrder(t)
    <3> SUFFICES ASSUME NEW i \in 1 .. Len(t), NEW j \in 1 .. Len(t), i < j,
                        t[i].type = "TX", t[j].type = "TX"
                 PROVE  Before(t[i], t[j])
      BY DEF InOrder
    <3>1. i + 1 \in 1 .. Len(q) /\ j + 1 \in 1 .. Len(q) /\ i + 1 < j + 1
      BY <2>2
    <3>2. t[i] = q[i + 1] /\ t[j] = q[j + 1]
      BY <2>1
    <3> QED BY <2>5, <3>1, <3>2 DEF InOrder
  <2>6. ASSUME InOrder(q), Head(q).type = "TX", NEW m \in TxsIn(t) PROVE Before(Head(q), m)
    <3>1. PICK i \in 1 .. Len(t) : m = t[i] /\ m.type = "TX"
      BY <2>6 DEF TxsIn
    <3>2. i + 1 \in 1 .. Len(q) /\ 1 < i + 1 /\ m = q[i + 1]
      BY <2>1, <2>2, <3>1
    <3> QED BY <2>1, <2>2, <2>6, <3>1, <3>2 DEF InOrder
  <2> QED BY <2>1, <2>3, <2>4, <2>5, <2>6 DEF t
<1> QED BY <1>1, <1>2

\* The counters keep pace with the chain.
LEMMA OneStartStep ==
    ASSUME Undisturbed, TypeOK, ConfirmedInv, PoolInv, OneStart, [Next]_vars
    PROVE  OneStart'
<1> USE HeightsFact, WordAssumption DEF TypeOK, OneStart, NodeOK, MainOK, ListenerOK,
        node, main, listener, notifier, budget, history, None
<1>1. ASSUME UNCHANGED <<node, main, listener>> PROVE OneStart'
  BY <1>1
<1>2. ASSUME NEW n \in 0 .. MaxTxs, Mine(n) PROVE OneStart'
  BY <1>2 DEF Mine, MayGrow
<1>3. ASSUME Start PROVE OneStart'
  BY <1>3 DEF Start, Load
<1>4. ASSUME TickOk \/ TickRpcFails \/ Push PROVE OneStart'
  <2>1. up
    BY <1>4 DEF TickOk, TickRpcFails, Push, ConfirmedInv, IdleWhenDown
  <2> QED BY <1>4, <2>1 DEF TickOk, TickRpcFails, Push
<1>5. ASSUME ListenerRecv \/ ScanDone \/ ReadFails \/ ReadDirect \/ SendTx \/ SendAdmin
      PROVE  OneStart'
  BY <1>5 DEF ListenerRecv, ScanDone, ReadFails, ReadDirect, SendTx, SendAdmin
<1>6. ASSUME ReadPooled PROVE OneStart'
  <2>1. LastBlock <= tip /\ up
    BY <1>6, ReadIsKnown
  <2>2. LastBlock' \in {LastBlock, LastBlock + 1} /\ UNCHANGED <<node, main>>
    BY <1>6 DEF ReadPooled
  <2> QED BY <2>1, <2>2
<1>7. ASSUME Advance PROVE OneStart'
  <2>1. up /\ num \in Int /\ LastBlock <= num /\ num <= tip
    BY <1>7 DEF Advance, PoolInv, JobInv, Sending, ConfirmedInv, KnownHeights
  <2> QED BY <1>7, <2>1 DEF Advance
<1>8. ASSUME NotifierTake \/ NotifierDone \/ UNCHANGED vars PROVE OneStart'
  BY <1>1, <1>8 DEF NotifierTake, NotifierDone, vars
<1> QED
  BY Quiet, <1>2, <1>3, <1>4, <1>5, <1>6, <1>7, <1>8
  DEF Next, Environment, Main, Listener, Notifier

\* Blocks are parked and pushed as the chain has them: it keeps what was read.
LEMMA ParkedStep ==
    ASSUME Undisturbed, TypeOK, ConfirmedInv, PoolInv, ParkedFromChain, [Next]_vars
    PROVE  ParkedFromChain'
<1> USE HeightsFact DEF TypeOK, node, main, listener, notifier, budget, history, Sending
<1>1. ASSUME UNCHANGED <<node, lpc, job, blkPool>> PROVE ParkedFromChain'
  BY <1>1 DEF ParkedFromChain, Pooled
<1>2. ASSUME NEW n \in 0 .. MaxTxs, Mine(n) PROVE ParkedFromChain'
  <2>1. /\ \A h \in Heights : h <= tip => block'[h] = block[h]
        /\ tip' = tip + 1 /\ tip \in Int /\ UNCHANGED <<lpc, job, blkPool>>
    BY <1>2, ChainGrows DEF Mine, NodeOK
  <2>2. Sending => job.height \in Heights /\ job.height <= tip
    BY <2>1 DEF ConfirmedInv, KnownHeights, ListenerOK, Job, MIN_CONFIRMATION
  <2> QED BY <2>1, <2>2 DEF ParkedFromChain, Pooled
<1>3. ASSUME Start \/ Push \/ TickOk \/ TickRpcFails \/ NotifierTake \/ NotifierDone
      PROVE  ParkedFromChain'
  BY <1>1, <1>3 DEF Start, Push, TickOk, TickRpcFails, NotifierTake, NotifierDone
<1>4. ASSUME ListenerRecv \/ ScanDone \/ ReadFails PROVE ParkedFromChain'
  BY <1>4 DEF ListenerRecv, ScanDone, ReadFails, ParkedFromChain, Pooled
<1>5. ASSUME ReadDirect PROVE ParkedFromChain'
  BY <1>5 DEF ReadDirect, ParkedFromChain, Pooled
<1>6. ASSUME ReadPooled PROVE ParkedFromChain'
  <2>1. /\ LastBlock \in Heights /\ LastBlock <= tip
        /\ UNCHANGED <<tip, block>>
    BY <1>6, ReadIsKnown
  <2>2. blkPool' = IF block[LastBlock].txs > 0
                   THEN [blkPool EXCEPT ![LastBlock] = block[LastBlock]] ELSE blkPool
    BY <1>6 DEF ReadPooled
  <2>3. \A h \in Heights : Pooled(h)' => blkPool'[h] = block'[h] /\ h <= tip'
    BY <2>1, <2>2 DEF ParkedFromChain, Pooled, ListenerOK
  <2>4. Sending' => /\ job'.branch = block'[job'.height].branch
                    /\ job'.txs = block'[job'.height].txs
    <3>1. CASE /\ PoolKey(LastBlock) \in Heights /\ Pooled(PoolKey(LastBlock))
               /\ job' = [height |-> PoolKey(LastBlock), branch |-> blkPool[PoolKey(LastBlock)].branch,
                          txs |-> blkPool[PoolKey(LastBlock)].txs, pos |-> 0]
      BY <2>1, <3>1 DEF ParkedFromChain
    <3>2. CASE lpc' = "scan"
      BY <3>2
    <3> QED BY <1>6, <3>1, <3>2 DEF ReadPooled
  <2> QED BY <2>3, <2>4 DEF ParkedFromChain
<1>7. ASSUME SendTx \/ SendAdmin PROVE ParkedFromChain'
  BY <1>7 DEF SendTx, SendAdmin, ParkedFromChain, Pooled, ListenerOK, Job
<1>8. ASSUME Advance PROVE ParkedFromChain'
  BY <1>8 DEF Advance, ParkedFromChain, Pooled, ListenerOK, EmptyBlock
<1>9. ASSUME UNCHANGED vars PROVE ParkedFromChain'
  BY <1>1, <1>9 DEF vars
<1> QED
  BY Quiet, <1>2, <1>3, <1>4, <1>5, <1>6, <1>7, <1>8, <1>9
  DEF Next, Environment, Main, Listener, Notifier

\* No transaction is passed over on the way up.
LEMMA ChainReadStep ==
    ASSUME Undisturbed, TypeOK, ConfirmedInv, PoolInv, OneStart, ChainRead, [Next]_vars
    PROVE  ChainRead'
<1> USE HeightsFact DEF TypeOK, node, main, listener, notifier, budget, history, Sending, FromPool
<1>1. ASSUME UNCHANGED <<node, LastBlock, parsed>>,
             UNCHANGED <<lpc, job>> \/ (lpc # "send" /\ lpc # "advance" /\ lpc' # "send" /\ lpc' # "advance")
      PROVE  ChainRead'
  BY <1>1 DEF ChainRead, Chain, Read
<1>2. ASSUME NEW n \in 0 .. MaxTxs, Mine(n) PROVE ChainRead'
  <2>0. tip \in Int /\ LastBlock \in Int /\ UNCHANGED <<LastBlock, lpc, job, parsed>>
    BY <1>2 DEF Mine, NodeOK, ListenerOK
  <2>1. /\ \A m \in Chain' : m \in Chain \/ m.height = tip + 1
        /\ UNCHANGED <<LastBlock, lpc, job, parsed>> /\ tip \in Int /\ LastBlock \in Int
    BY <1>2, <2>0, ChainGrows, Zenon DEF TypeOK
  <2>2. Read <= tip + 1
    BY <2>1 DEF OneStart, Read, PoolInv, JobInv, ConfirmedInv, KnownHeights, ListenerOK, None
  <2>3. Sending => job.height < tip + 1
    BY <2>1 DEF ConfirmedInv, KnownHeights, ListenerOK, Job, MIN_CONFIRMATION
  <2>4. Read \in Int /\ Read' = Read
    BY <2>1 DEF Read
  <2> QED BY <2>1, <2>2, <2>3, <2>4 DEF ChainRead
<1>3. ASSUME Start PROVE ChainRead'
  <2>1. LastBlock' = 0 /\ lpc' = "wait" /\ UNCHANGED <<tip, block, parsed>>
    BY <1>3, WordAssumption DEF Start, OneStart, Load, ConfirmedInv, IdleWhenDown
  <2>2. Read' = 0 /\ Chain' = Chain
    BY <2>1 DEF Read, Chain
  <2>3. \A m \in Chain : m.height \in Heights
    BY ChainFacts
  <2> QED BY <2>1, <2>2, <2>3 DEF ChainRead
<1>4. ASSUME Push \/ TickOk \/ TickRpcFails \/ NotifierTake \/ NotifierDone \/ SendAdmin
      PROVE  ChainRead'
  BY <1>4 DEF Push, TickOk, TickRpcFails, NotifierTake, NotifierDone, SendAdmin, ChainRead,
              Chain, Read
<1>5. ASSUME ListenerRecv \/ ScanDone \/ ReadFails PROVE ChainRead'
  BY <1>1, <1>5 DEF ListenerRecv, ScanDone, ReadFails
<1>6. ASSUME ReadDirect \/ ReadPooled PROVE ChainRead'
  <2>1. /\ LastBlock \in Heights /\ LastBlock <= tip /\ ~Sending
        /\ parsed' = parsed \cup BlockTxs(LastBlock, block[LastBlock])
        /\ UNCHANGED <<tip, block>>
    BY <1>6, ReadIsKnown
  <2>2. Chain' = Chain
    BY <2>1 DEF Chain
  <2>3. \A m \in Chain : m.height <= LastBlock => m \in parsed'
    <3> SUFFICES ASSUME NEW m \in Chain, m.height <= LastBlock PROVE m \in parsed'
      OBVIOUS
    <3>1. m.height \in Heights
      BY ChainFacts
    <3>2. CASE m.height < LastBlock
      BY <2>1, <3>2 DEF ChainRead, Read
    <3>3. CASE m.height = LastBlock
      <4>1. PICK h \in 0 .. tip : m \in BlockTxs(h, block[h])
        BY DEF Chain, WalletTxs
      <4>2. h = LastBlock
        BY <3>3, <4>1 DEF BlockTxs, TxMsg
      <4> QED BY <2>1, <4>1, <4>2
    <3> QED BY <2>1, <3>1, <3>2, <3>3
  <2>4. Read' <= LastBlock + 1 /\ Read' \in Int /\ (Sending' => job'.height <= LastBlock)
    <3>1. CASE ReadDirect
      BY <2>1, <3>1 DEF ReadDirect, Read
    <3>2. CASE ReadPooled
      <4>1. PoolKey(LastBlock) \in Heights => PoolKey(LastBlock) <= LastBlock
        BY <2>1, WordAssumption DEF PoolKey, MIN_CONFIRMATION
      <4> QED BY <2>1, <3>2, <4>1 DEF ReadPooled, Read
    <3> QED BY <1>6, <3>1, <3>2
  <2>5. \A m \in Chain : m.height \in Int
    BY ChainFacts
  <2>6. ASSUME NEW m \in Chain, m.height < Read' \/ (Sending' /\ m.height = job'.height)
        PROVE  m.height <= LastBlock
    BY <2>1, <2>4, <2>5, <2>6
  <2> QED BY <2>2, <2>3, <2>6 DEF ChainRead
<1>7. ASSUME SendTx PROVE ChainRead'
  <2>1. job'.height = job.height /\ UNCHANGED <<tip, block, LastBlock, lpc, parsed>>
    BY <1>7 DEF SendTx, ListenerOK, Job
  <2> QED BY <2>1 DEF ChainRead, Chain, Read
<1>8. ASSUME Advance PROVE ChainRead'
  <2>1. /\ LastBlock' = LastBlock + 1 /\ lpc = "advance" /\ lpc' = "scan"
        /\ UNCHANGED <<tip, block, parsed>> /\ LastBlock \in Nat
    BY <1>8 DEF Advance, ListenerOK
  <2>2. Read' = LastBlock + 1 /\ Chain' = Chain
    BY <2>1 DEF Read, Chain
  <2>3. \A m \in Chain : m.height \in Int
    BY ChainFacts
  <2>4. job.height = LastBlock \/ Read = LastBlock + 1
    BY <2>1 DEF Read
  <2> QED BY <2>1, <2>2, <2>3, <2>4 DEF ChainRead, Read
<1>9. ASSUME UNCHANGED vars PROVE ChainRead'
  BY <1>1, <1>9 DEF vars
<1> QED
  BY Quiet, <1>2, <1>3, <1>4, <1>5, <1>6, <1>7, <1>8, <1>9
  DEF Next, Environment, Main, Listener, Notifier

\* What is pushed continues what was pushed.
LEMMA PrefixStep ==
    ASSUME Undisturbed, TypeOK, ConfirmedInv, PoolInv, OrderInv, ResumeInv, FeedInv, [Next]_vars
    PROVE  PushedIsPrefix'
<1> USE HeightsFact DEF TypeOK, node, main, listener, notifier, budget, history
<1>1. ASSUME UNCHANGED <<tip, block, sent, lastSent>> PROVE PushedIsPrefix'
  BY <1>1 DEF FeedInv, PushedIsPrefix, Chain
<1>2. ASSUME NEW n \in 0 .. MaxTxs, Mine(n) PROVE PushedIsPrefix'
  <2>1. /\ Chain \subseteq Chain' /\ \A m \in Chain' : m \in Chain \/ m.height = tip + 1
        /\ UNCHANGED <<sent, lastSent>> /\ tip \in Int
    BY <1>2, ChainGrows DEF Mine, NodeOK
  <2>2. \A m \in sent : m.height \in Int /\ m.height < tip
    BY <2>1 DEF ConfirmedInv, SentConfirmed, HistoryOK, Message, MIN_CONFIRMATION
  <2>3. \A m \in sent, e \in Chain' : Before(e, m) => e \in Chain
    BY <2>1, <2>2 DEF Before
  <2> QED BY <2>1, <2>3 DEF FeedInv, PushedIsPrefix
<1>3. ASSUME SendTx PROVE PushedIsPrefix'
  <2> DEFINE new == TxMsg(job.height, job.branch, job.pos + 1)
  <2>1. /\ new \in Chain /\ new # NoMsg
        /\ \A m \in sent : Before(m, new)
        /\ \A e \in Chain : Before(e, new) => e \in sent
    BY <1>3, PushFacts
  <2>2. sent' = sent \cup {new} /\ lastSent' = new /\ UNCHANGED <<tip, block>>
    BY <1>3 DEF SendTx
  <2> HIDE DEF new
  <2>3. Chain' = Chain
    BY <2>2 DEF Chain
  <2> QED BY <2>1, <2>2, <2>3 DEF FeedInv, PushedIsPrefix
<1>4. ASSUME Start \/ Push \/ TickOk \/ TickRpcFails PROVE PushedIsPrefix'
  BY <1>1, <1>4 DEF Start, Push, TickOk, TickRpcFails
<1>5. ASSUME ListenerRecv \/ ScanDone \/ ReadFails \/ ReadDirect \/ ReadPooled \/ SendAdmin \/ Advance
      PROVE  PushedIsPrefix'
  BY <1>1, <1>5 DEF ListenerRecv, ScanDone, ReadFails, ReadDirect, ReadPooled, SendAdmin, Advance
<1>6. ASSUME NotifierTake \/ NotifierDone \/ UNCHANGED vars PROVE PushedIsPrefix'
  BY <1>1, <1>6 DEF NotifierTake, NotifierDone, vars
<1> QED
  BY Quiet, <1>2, <1>3, <1>4, <1>5, <1>6 DEF Next, Environment, Main, Listener, Notifier

\* The channel and the Notifier keep the order.
LEMMA DeliveredStep ==
    ASSUME Undisturbed, TypeOK, ConfirmedInv, PoolInv, OrderInv, ResumeInv, FeedInv, [Next]_vars
    PROVE  DeliveredInOrder'
<1> USE DEF TypeOK, node, main, listener, notifier, budget, history
<1>0. DeliveredInOrder /\ ch1 \in Seq(Message)
  BY DEF FeedInv, NotifierOK
<1>1. ASSUME UNCHANGED <<ch1, cur, sent, delivered>> PROVE DeliveredInOrder'
  BY <1>0, <1>1 DEF DeliveredInOrder, Queued
<1>2. ASSUME SendTx PROVE DeliveredInOrder'
  <2> DEFINE new == TxMsg(job.height, job.branch, job.pos + 1)
  <2>1. /\ new \in Message /\ new.type = "TX" /\ \A m \in sent : Before(m, new)
    BY <1>2, PushFacts DEF TxMsg
  <2>2. ch1' = Append(ch1, new) /\ sent' = sent \cup {new} /\ UNCHANGED <<cur, delivered>>
    BY <1>2 DEF SendTx
  <2> HIDE DEF new
  <2>3. \A m \in Queued : Before(m, new)
    BY <1>0, <2>1 DEF DeliveredInOrder
  <2>4. Queued' = Queued \cup {new} /\ InOrder(ch1')
    BY <1>0, <2>1, <2>2, <2>3, ChannelFacts DEF Queued, DeliveredInOrder
  <2> QED BY <1>0, <2>1, <2>2, <2>4 DEF DeliveredInOrder
<1>3. ASSUME SendAdmin PROVE DeliveredInOrder'
  <2>1. AdminMsg(job.height) \in Message /\ AdminMsg(job.height).type # "TX"
    BY MessageTypes, EmptyTypes DEF AdminMsg, ListenerOK, Job
  <2>2. ch1' = Append(ch1, AdminMsg(job.height)) /\ UNCHANGED <<cur, sent, delivered>>
    BY <1>3 DEF SendAdmin
  <2> DEFINE admin == AdminMsg(job.height)
  <2> HIDE DEF admin
  <2>a. /\ TxsIn(Append(ch1, admin)) = TxsIn(ch1) \cup {m \in {admin} : m.type = "TX"}
        /\ InOrder(Append(ch1, admin))
    BY <1>0, <2>1, ChannelFacts DEF DeliveredInOrder, admin
  <2>b. {m \in {admin} : m.type = "TX"} = {}
    BY <2>1 DEF admin
  <2>3. Queued' = Queued /\ InOrder(ch1')
    BY <2>2, <2>a, <2>b DEF Queued, admin
  <2> QED BY <1>0, <2>2, <2>3 DEF DeliveredInOrder
<1>4. ASSUME NotifierTake PROVE DeliveredInOrder'
  <2>1. /\ cur = NoMsg /\ ch1 # <<>> /\ ch1' = Tail(ch1) /\ UNCHANGED <<sent, delivered>>
        /\ cur' = IF Head(ch1).type = "TX" THEN Head(ch1) ELSE NoMsg
    BY <1>4 DEF NotifierTake
  <2>2. /\ Queued = Queued' \cup {m \in {Head(ch1)} : m.type = "TX"}
        /\ InOrder(ch1')
        /\ Head(ch1).type = "TX" => \A m \in Queued' : Before(Head(ch1), m)
    BY <1>0, <2>1, ChannelFacts DEF Queued, DeliveredInOrder
  <2>3. CASE Head(ch1).type = "TX"
    <3>1. cur' = Head(ch1) /\ cur' # NoMsg /\ Queued = Queued' \cup {cur'}
      BY <2>1, <2>2, <2>3 DEF NoMsg
    <3>2. sent' = delivered' \cup Queued' \cup ({cur'} \ {NoMsg})
      BY <1>0, <2>1, <3>1 DEF DeliveredInOrder
    <3>3. \A m \in Queued' : Before(cur', m)
      BY <2>2, <2>3, <3>1
    <3>4. \A d \in delivered' : Before(d, cur') /\ \A m \in Queued' : Before(d, m)
      BY <1>0, <2>1, <3>1 DEF DeliveredInOrder
    <3> QED BY <2>2, <3>2, <3>3, <3>4 DEF DeliveredInOrder
  <2>4. CASE Head(ch1).type # "TX"
    <3>1. cur' = NoMsg /\ Queued' = Queued
      BY <2>1, <2>2, <2>4
    <3> QED BY <1>0, <2>1, <2>2, <3>1 DEF DeliveredInOrder
  <2> QED BY <2>3, <2>4
<1>5. ASSUME NotifierDone PROVE DeliveredInOrder'
  <2>1. /\ cur # NoMsg /\ cur' = NoMsg /\ delivered' = delivered \cup {cur}
        /\ UNCHANGED <<ch1, sent>>
    BY <1>5 DEF NotifierDone
  <2>2. Queued' = Queued
    BY <2>1 DEF Queued
  <2> QED BY <1>0, <2>1, <2>2 DEF DeliveredInOrder
<1>6. ASSUME Start \/ Push \/ TickOk \/ TickRpcFails PROVE DeliveredInOrder'
  BY <1>1, <1>6 DEF Start, Push, TickOk, TickRpcFails
<1>7. ASSUME ListenerRecv \/ ScanDone \/ ReadFails \/ ReadDirect \/ ReadPooled \/ Advance
      PROVE  DeliveredInOrder'
  BY <1>1, <1>7 DEF ListenerRecv, ScanDone, ReadFails, ReadDirect, ReadPooled, Advance
<1>8. ASSUME NEW n \in 0 .. MaxTxs, Mine(n) PROVE DeliveredInOrder'
  BY <1>1, <1>8 DEF Mine
<1>9. ASSUME UNCHANGED vars PROVE DeliveredInOrder'
  BY <1>1, <1>9 DEF vars
<1> QED
  BY Quiet, <1>2, <1>3, <1>4, <1>5, <1>6, <1>7, <1>8, <1>9
  DEF Next, Environment, Main, Listener, Notifier

\* The feed's layer holds throughout.
LEMMA FeedInvariant ==
    ASSUME Paced, Undisturbed
    PROVE  Spec => []FeedInv
<1>1. Init => FeedInv
  <2> SUFFICES ASSUME Init PROVE FeedInv
    OBVIOUS
  <2>1. OneStart
    BY DEF Init, OneStart
  <2>2. ParkedFromChain /\ DeliveredInOrder
    BY DEF Init, ParkedFromChain, DeliveredInOrder, Queued, TxsIn, InOrder, Pooled, EmptyPool,
           EmptyBlock, Sending
  <2>3. Chain = {}
    BY HeightsFact DEF Init, Chain, WalletTxs, BlockTxs, EmptyPool, EmptyBlock
  <2> QED BY <2>1, <2>2, <2>3 DEF Init, FeedInv, ChainRead, PushedIsPrefix
<1>2. TypeOK /\ ConfirmedInv /\ PoolInv /\ OrderInv /\ ResumeInv /\ FeedInv /\ [Next]_vars
      => FeedInv'
  <2> SUFFICES ASSUME TypeOK, ConfirmedInv, PoolInv, OrderInv, ResumeInv, FeedInv, [Next]_vars
               PROVE  FeedInv'
    OBVIOUS
  <2>1. OneStart /\ ParkedFromChain /\ ChainRead
    BY DEF FeedInv
  <2> QED BY <2>1, OneStartStep, ParkedStep, ChainReadStep, PrefixStep, DeliveredStep DEF FeedInv
<1> QED BY <1>1, <1>2, ResumeInvariant, OrderInvariant, PoolInvariant, ConfirmedInvariant,
           TypeCorrect, PTL DEF Spec

\* What the Notifier has finished, seen alone, behaves as ConfirmedFeed
\* promises, but for its liveness: confirmed transactions only, in chain
\* order, each once, none left out; every other step is the node's next block
\* or a stuttering step.
THEOREM FeedImplemented ==
    ASSUME Paced, Undisturbed
    PROVE  Spec => Feed!Init /\ [][Feed!Next]_(Feed!vars)
<1>1. Init => Feed!Init
  BY DEF Init, EmptyPool, EmptyBlock, Feed!Init, Feed!Heights, Feed!EmptyBlock, Heights
<1>2. TypeOK /\ ConfirmedInv /\ FeedInv /\ [Next]_vars => [Feed!Next]_(Feed!vars)
  <2> SUFFICES ASSUME TypeOK, ConfirmedInv, FeedInv, [Next]_vars
               PROVE  [Feed!Next]_(Feed!vars)
    OBVIOUS
  <2> USE DEF node, main, listener, notifier, budget, history
  <2>1. ASSUME NEW n \in 0 .. MaxTxs, Mine(n) PROVE Feed!Extend
    <3>1. reorgs = 0
      BY DEF FeedInv, OneStart
    <3> QED BY <2>1, <3>1 DEF Mine, MayGrow, Feed!Extend
  <2>2. ASSUME NotifierDone PROVE Feed!Feed
    <3>1. cur # NoMsg /\ delivered' = delivered \cup {cur} /\ UNCHANGED <<tip, block>>
      BY <2>2 DEF NotifierDone
    <3>2. cur \in sent /\ cur \in Chain /\ ~Before(cur, cur)
      BY <3>1, HeightsFact
         DEF FeedInv, DeliveredInOrder, PushedIsPrefix, Before, TypeOK, NotifierOK, Message
    <3>3. cur \notin delivered
      BY <3>1, <3>2 DEF FeedInv, DeliveredInOrder
    <3>4. cur.height + MIN_CONFIRMATION - 1 <= tip
      BY <3>2 DEF ConfirmedInv, SentConfirmed
    <3>5. ASSUME NEW e \in Chain, Before(e, cur) PROVE e \in delivered
      <4>1. e \in sent
        BY <3>2, <3>5 DEF FeedInv, PushedIsPrefix
      <4>2. e \in Message /\ cur \in Message
        BY ChainFacts DEF TypeOK, NotifierOK
      <4>3. ~Before(cur, e)
        BY <3>5, <4>2, HeightsFact DEF Before, Message
      <4> QED BY <3>1, <3>2, <3>5, <4>1, <4>3 DEF FeedInv, DeliveredInOrder
    <3> QED BY <3>1, <3>2, <3>3, <3>4, <3>5
        DEF Feed!Feed, Feed!Confirmed, Feed!WalletTxs, Feed!BlockTxs, Feed!TxMsg, Feed!Before,
            Feed!MIN_CONFIRMATION, MIN_CONFIRMATION, Chain, WalletTxs, BlockTxs, TxMsg, Before
  <2>3. ASSUME Start \/ Push \/ TickOk \/ TickRpcFails \/ Listener \/ NotifierTake \/ UNCHANGED vars
        PROVE  UNCHANGED Feed!vars
    BY <2>3 DEF Start, Push, TickOk, TickRpcFails, Listener, ListenerRecv, ScanDone, ReadFails,
                ReadDirect, ReadPooled, SendTx, SendAdmin, Advance, NotifierTake, vars, Feed!vars
  <2> QED BY Quiet, <2>1, <2>2, <2>3 DEF Next, Environment, Main, Notifier, Feed!Next
<1> QED BY <1>1, <1>2, FeedInvariant, ConfirmedInvariant, TypeCorrect, PTL DEF Spec
=============================================================================
