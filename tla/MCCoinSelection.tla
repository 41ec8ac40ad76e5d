-------------------------- MODULE MCCoinSelection --------------------------
(* Instances of CoinSelection for TLC.  The values straddle the thresholds:  *)
(* dust (546), one input's worth of fee, change worth an output or not.      *)
EXTENDS CoinSelection
=============================================================================
