---------------------------- MODULE MCWalletUtxo ----------------------------
(* Model-checking instance of WalletUtxo. *)
EXTENDS WalletUtxo

\* A block without a transaction of the wallet's only raises the height, which
\* at three blocks makes no difference (Resume is 1).
Busy == chain' # chain => chain'[Len(chain')] # <<>>
=============================================================================
