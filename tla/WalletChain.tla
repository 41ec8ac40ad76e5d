---------------------------- MODULE WalletChain ----------------------------
(* The part of the block chain the wallet's subscriber sees through the      *)
(* node's RPC interface, and the notifications it makes of it.  A block is   *)
(* abstracted to the branch it was mined on and the number of wallet         *)
(* transactions (NotifyMessages of ParseTransaction) it holds; hashes,       *)
(* amounts and addresses are left to the modules about parsing.              *)
EXTENDS Integers

CONSTANTS
    MaxHeight,  \* bound: the highest block the environment ever mines
    MaxTxs      \* bound: wallet transactions in one block

ASSUME HeightAssumption == MaxHeight \in Nat
ASSUME TxsAssumption == MaxTxs \in Nat \ {0}

MIN_CONFIRMATION == 3

Heights == 0 .. MaxHeight

Block == [branch : Nat, txs : 0 .. MaxTxs]

\* A block without a wallet transaction.  As an entry of blkPool it stands
\* for an absent key, because ReadBlock's result is stored only if non-empty.
EmptyBlock == [branch |-> 0, txs |-> 0]

Message == [type : {"NONE", "TX", "ADMIN"}, height : Heights, branch : Nat,
            n : 0 .. MaxTxs]

NoMsg == [type |-> "NONE", height |-> 0, branch |-> 0, n |-> 0]

\* The n-th wallet transaction of the block of branch b at height h.
TxMsg(h, b, n) == [type |-> "TX", height |-> h, branch |-> b, n |-> n]

\* The marker the Listener sends after the transactions of block h.
AdminMsg(h) == [type |-> "ADMIN", height |-> h, branch |-> 0, n |-> 0]

\* The messages ReadBlock returns for block b at height h.
BlockTxs(h, b) == {TxMsg(h, b.branch, n) : n \in 1 .. b.txs}

\* m's block is part of the active chain with blocks blk up to height top.
OnChain(top, blk, m) ==
    /\ m.height <= top
    /\ m.branch = blk[m.height].branch
    /\ m.n <= blk[m.height].txs

WalletTxs(top, blk) == UNION {BlockTxs(h, blk[h]) : h \in 0 .. top}

\* a precedes b in chain order.
Before(a, b) == a.height < b.height \/ (a.height = b.height /\ a.n < b.n)
=============================================================================
