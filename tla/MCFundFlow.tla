----------------------------- MODULE MCFundFlow -----------------------------
(* Instances of FundFlow, and with it of TxParser, for TLC: every            *)
(* transaction of at most two inputs and three outputs over four addresses   *)
(* and the two kinds of OP_RETURN.                                           *)
EXTENDS FundFlow

\* Nothing tells one address outside the wallet from another.
Symmetry == Permutations(Others)
=============================================================================
