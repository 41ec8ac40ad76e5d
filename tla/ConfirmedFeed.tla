--------------------------- MODULE ConfirmedFeed ---------------------------
(* What the subscriber promises to the accounting side: every wallet         *)
(* transaction of the chain is fed exactly once, in chain order, once its    *)
(* block has MIN_CONFIRMATION confirmations, and eventually.  Stated for a   *)
(* chain without reorganisations and a process that does not stop.           *)
EXTENDS WalletChain

VARIABLES
    tip,    \* height of the best block
    block,  \* height -> block, meaningful up to tip
    fed     \* wallet transactions fed so far

vars == <<tip, block, fed>>

Confirmed(m) == m.height + MIN_CONFIRMATION - 1 <= tip

Init ==
    /\ tip = 0
    /\ block = [h \in Heights |-> EmptyBlock]
    /\ fed = {}

\* The node accepts a new best block.
Extend ==
    /\ tip < MaxHeight
    /\ tip' = tip + 1
    /\ \E n \in 0 .. MaxTxs :
           block' = [block EXCEPT ![tip + 1] = [branch |-> 0, txs |-> n]]
    /\ UNCHANGED fed

\* The next wallet transaction in chain order is fed, if it is confirmed.
Feed ==
    \E m \in WalletTxs(tip, block) \ fed :
        /\ Confirmed(m)
        /\ \A e \in WalletTxs(tip, block) : Before(e, m) => e \in fed
        /\ fed' = fed \cup {m}
        /\ UNCHANGED <<tip, block>>

Next == Extend \/ Feed

Spec == Init /\ [][Next]_vars /\ WF_vars(Feed)
=============================================================================
