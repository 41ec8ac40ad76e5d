--------------------------- MODULE MCSubscriber ---------------------------
(* Instances of Subscriber for TLC; the configurations give the bounds.      *)
EXTENDS Subscriber
============================================================================
