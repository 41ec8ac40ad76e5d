----------------------------- MODULE MCOmniSend -----------------------------
(* Instances of OmniSend for TLC.  The requests put the dot at every place:  *)
(* none, first, last, a mere dot; with fewer decimals than the token has, as *)
(* many, and more; with and without a leading zero; in range, above it and   *)
(* below 0.                                                                  *)
EXTENDS OmniSend

MCRequests ==
    {<<"4">>, <<"0", "4">>, <<"4", "4">>, <<".">>, <<"4", ".">>, <<".", "0", "4">>,
     <<".", "4", "4", "4">>, <<"0", ".", "4">>, <<"0", ".", "0", "4">>, <<"4", ".", "4", "4">>,
     <<"-", ".", "0", "4">>, <<"+", "4">>}

\* Enough for two of the transfers the node has to take.
MCSupply == [a \in Addrs |-> 8]

\* No query while a request makes its reads: they do not influence each
\* other.  A transfer is still sent at any point of a query.  And no query
\* of an address that sent a negative amount: nothing is claimed of it.
Apart ==
    /\ query = "idle" \/ pc \in {"idle", "send"}
    /\ address \notin negative

\* What is read from a request does not depend on the node: once there are
\* transactions, the requests are these three only, the last of which with a
\* pending one exceeds MaxInt.
Later ==
    made > 0 /\ pc # "idle" =>
        /\ amount \in {4, -4, 444}
        /\ asked \in {<<>>, <<".", "0", "4">>, <<"-", ".", "0", "4">>, <<"4", ".", "4", "4">>}

\* One transfer of a negative amount at a time.
OneNegative ==
    \A j, k \in 1 .. Len(mempool) :
        mempool[j].amount \notin 0 .. All /\ mempool[k].amount \notin 0 .. All => j = k

Symmetry == Permutations(Addrs)
=============================================================================
