--------------------------- MODULE OmniSendProofs ---------------------------
(* Proofs about OmniSend: its types, that the tokens of an address cover     *)
(* what it has promised, what the balance query answers and what the code    *)
(* makes of the amount in a request.                                         *)
EXTENDS OmniSend, NumberFacts

-----------------------------------------------------------------------------
(* What an address has promised.                                             *)

Share(t, a) == IF t.from = a /\ t.usdt THEN t.amount ELSE 0
Owed(m, a) == SumOf([k \in 1 .. Len(m) |-> Share(m[k], a)])

LEMMA PromisedIsOwed ==
    ASSUME NEW a
    PROVE  Promised(a) = Owed(mempool, a) /\ Promised(a)' = Owed(mempool', a)
  BY DEF Promised, Listed, Owed, Share

LEMMA ShareIsInt ==
    ASSUME NEW t \in Tx, NEW a
    PROVE  Share(t, a) \in Int
  BY DEF Share, Tx

LEMMA ShareIsProper ==
    ASSUME NEW t, NEW a, t.from = a => t.amount \in 0 .. All
    PROVE  Share(t, a) \in 0 .. All /\ Share(t, a) \in Nat
<1>1. 0 \in 0 .. All
  BY OmniRange
<1> QED BY <1>1 DEF Share

LEMMA SharesAreSeq ==
    ASSUME NEW m \in Seq(Tx), NEW a
    PROVE  LET v == [k \in 1 .. Len(m) |-> Share(m[k], a)]
           IN  v \in Seq(Int) /\ Len(v) = Len(m) /\ \A k \in 1 .. Len(m) : v[k] = Share(m[k], a)
<1> DEFINE v == [k \in 1 .. Len(m) |-> Share(m[k], a)]
<1>1. Len(m) \in Nat /\ \A k \in 1 .. Len(m) : m[k] \in Tx
  OBVIOUS
<1>2. \A k \in 1 .. Len(m) : Share(m[k], a) \in Int
  BY <1>1, ShareIsInt
<1> QED BY <1>1, <1>2

LEMMA OwedIsInt ==
    ASSUME NEW m \in Seq(Tx), NEW a
    PROVE  Owed(m, a) \in Int
  BY SharesAreSeq, SumIsInt DEF Owed

LEMMA OwedEmpty == ASSUME NEW a PROVE Owed(<<>>, a) = 0
<1>1. [k \in 1 .. Len(<<>>) |-> Share(<<>>[k], a)] = <<>>
  OBVIOUS
<1> QED BY <1>1, SumEmpty DEF Owed

LEMMA OwedAppend ==
    ASSUME NEW m \in Seq(Tx), NEW t \in Tx, NEW a
    PROVE  Owed(Append(m, t), a) = Owed(m, a) + Share(t, a)
<1> DEFINE v == [k \in 1 .. Len(m) |-> Share(m[k], a)]
           n == Append(m, t)
           w == [k \in 1 .. Len(n) |-> Share(n[k], a)]
           x == Append(v, Share(t, a))
<1>1. v \in Seq(Int) /\ Len(v) = Len(m) /\ \A k \in 1 .. Len(m) : v[k] = Share(m[k], a)
  BY SharesAreSeq
<1>2. /\ n \in Seq(Tx) /\ Len(n) = Len(m) + 1 /\ Len(m) \in Nat
      /\ \A k \in 1 .. Len(m) : n[k] = m[k]
      /\ n[Len(m) + 1] = t
  OBVIOUS
<1> HIDE DEF n
<1>3. w \in Seq(Int) /\ Len(w) = Len(n) /\ \A k \in 1 .. Len(n) : w[k] = Share(n[k], a)
  BY <1>2, SharesAreSeq
<1>4. Share(t, a) \in Int
  BY ShareIsInt
<1> HIDE DEF v, w
<1>5. /\ x \in Seq(Int) /\ Len(x) = Len(m) + 1
      /\ \A k \in 1 .. Len(m) : x[k] = v[k]
      /\ x[Len(m) + 1] = Share(t, a)
  <2> DEFINE y == Share(t, a)
  <2> HIDE DEF y
  <2>1. v \in Seq(Int) /\ y \in Int
    BY <1>1, <1>4 DEF y
  <2>2. /\ Append(v, y) \in Seq(Int) /\ Len(Append(v, y)) = Len(v) + 1
        /\ \A k \in 1 .. Len(v) : Append(v, y)[k] = v[k]
        /\ Append(v, y)[Len(v) + 1] = y
    BY <2>1
  <2> QED BY <1>1, <2>2 DEF y
<1> HIDE DEF x
<1>6. w = x
  <2>1. Len(w) = Len(x)
    BY <1>2, <1>3, <1>5
  <2>2. ASSUME NEW k \in 1 .. Len(w) PROVE w[k] = x[k]
    <3>1. CASE k = Len(m) + 1
      BY <1>2, <1>3, <1>5, <3>1
    <3>2. CASE k # Len(m) + 1
      <4>1. k \in 1 .. Len(m)
        BY <1>2, <1>3, <3>2
      <4> QED BY <1>1, <1>2, <1>3, <1>5, <4>1
    <3> QED BY <3>1, <3>2
  <2> QED BY <1>3, <1>5, <2>1, <2>2, SameSeq
<1>7. SumOf(x) = SumOf(v) + Share(t, a)
  BY <1>1, <1>4, SumAppend DEF x
<1> QED BY <1>6, <1>7 DEF Owed, n, v, w

\* What is left of a sequence without its member k.
LEMMA Removed ==
    ASSUME NEW S, NEW m \in Seq(S), NEW k \in 1 .. Len(m)
    PROVE  LET n == RemoveAt(m, k)
           IN  /\ n \in Seq(S) /\ Len(n) = Len(m) - 1
               /\ \A j \in 1 .. Len(n) : n[j] = m[IF j < k THEN j ELSE j + 1]
<1> DEFINE u == SubSeq(m, 1, k - 1)
           v == SubSeq(m, k + 1, Len(m))
           n == u \o v
<1>1. Len(m) \in Nat /\ k \in Nat /\ k >= 1 /\ k <= Len(m)
  OBVIOUS
<1>2. u \in Seq(S) /\ Len(u) = k - 1 /\ \A j \in 1 .. k - 1 : u[j] = m[j]
  BY <1>1
<1>3. v \in Seq(S) /\ Len(v) = Len(m) - k /\ \A j \in 1 .. Len(m) - k : v[j] = m[k + j]
  BY <1>1
<1> HIDE DEF u, v
<1>4. /\ n \in Seq(S) /\ Len(n) = Len(u) + Len(v)
      /\ \A j \in 1 .. Len(u) : n[j] = u[j]
      /\ \A j \in 1 .. Len(v) : n[Len(u) + j] = v[j]
  <2>1. u \in Seq(S) /\ v \in Seq(S)
    BY <1>2, <1>3
  <2> QED BY <2>1
<1> HIDE DEF n
<1>5. Len(n) = Len(m) - 1
  BY <1>1, <1>2, <1>3, <1>4
<1>6. ASSUME NEW j \in 1 .. Len(n) PROVE n[j] = m[IF j < k THEN j ELSE j + 1]
  <2>1. CASE j < k
    <3>1. j \in 1 .. k - 1 /\ j \in 1 .. Len(u)
      BY <1>1, <1>2, <2>1
    <3> QED BY <1>2, <1>4, <2>1, <3>1
  <2>2. CASE ~(j < k)
    <3> DEFINE i == (j - k) + 1
    <3>1. i \in 1 .. Len(v) /\ i \in 1 .. Len(m) - k /\ Len(u) + i = j /\ k + i = j + 1
      BY <1>1, <1>2, <1>3, <1>5, <2>2
    <3> HIDE DEF i
    <3>2. n[Len(u) + i] = v[i] /\ v[i] = m[k + i]
      BY <1>3, <1>4, <3>1
    <3> QED BY <2>2, <3>1, <3>2
  <2> QED BY <2>1, <2>2
<1>7. RemoveAt(m, k) = n
  BY DEF RemoveAt, n, u, v
<1> QED BY <1>4, <1>5, <1>6, <1>7

LEMMA OwedRemoved ==
    ASSUME NEW m \in Seq(Tx), NEW k \in 1 .. Len(m), NEW a
    PROVE  Owed(RemoveAt(m, k), a) = Owed(m, a) - Share(m[k], a)
<1> DEFINE v == [j \in 1 .. Len(m) |-> Share(m[j], a)]
           n == RemoveAt(m, k)
           w == [j \in 1 .. Len(n) |-> Share(n[j], a)]
           x == RemoveAt(v, k)
<1>1. v \in Seq(Int) /\ Len(v) = Len(m) /\ \A j \in 1 .. Len(m) : v[j] = Share(m[j], a)
  BY SharesAreSeq
<1>2. /\ n \in Seq(Tx) /\ Len(n) = Len(m) - 1
      /\ \A j \in 1 .. Len(n) : n[j] = m[IF j < k THEN j ELSE j + 1]
  BY Removed
<1> HIDE DEF n
<1>3. w \in Seq(Int) /\ Len(w) = Len(n) /\ \A j \in 1 .. Len(n) : w[j] = Share(n[j], a)
  BY <1>2, SharesAreSeq
<1> HIDE DEF v, w
<1>4. /\ x \in Seq(Int) /\ Len(x) = Len(v) - 1
      /\ \A j \in 1 .. Len(x) : x[j] = v[IF j < k THEN j ELSE j + 1]
  <2>1. v \in Seq(Int) /\ k \in 1 .. Len(v)
    BY <1>1
  <2>2. LET n1 == RemoveAt(v, k)
        IN  /\ n1 \in Seq(Int) /\ Len(n1) = Len(v) - 1
            /\ \A j \in 1 .. Len(n1) : n1[j] = v[IF j < k THEN j ELSE j + 1]
    BY <2>1, Removed
  <2> QED BY <2>2
<1>5. SumOf(x) = SumOf(v) - v[k]
  BY <1>1, SumRemove
<1> HIDE DEF x
<1>6. w = x
  <2>1. Len(w) = Len(x)
    BY <1>1, <1>2, <1>3, <1>4
  <2>2. ASSUME NEW j \in 1 .. Len(w) PROVE w[j] = x[j]
    <3> DEFINE i == IF j < k THEN j ELSE j + 1
    <3>1. i \in 1 .. Len(m)
      <4>1. Len(m) \in Nat /\ j \in 1 .. Len(m) - 1
        BY <1>2, <1>3
      <4> QED BY <4>1
    <3>2. w[j] = Share(n[j], a) /\ n[j] = m[i]
      BY <1>2, <1>3
    <3>3. x[j] = v[i]
      BY <1>4, <2>1
    <3> HIDE DEF i
    <3> QED BY <1>1, <3>1, <3>2, <3>3
  <2> QED BY <1>3, <1>4, <2>1, <2>2, SameSeq
<1> QED BY <1>1, <1>5, <1>6 DEF Owed, n, v, w

LEMMA OwedBounded ==
    ASSUME NEW m \in Seq(Tx), NEW a,
           \A k \in 1 .. Len(m) : m[k].from = a => m[k].amount \in 0 .. All
    PROVE  Owed(m, a) \in 0 .. Len(m) * All
<1> DEFINE v == [k \in 1 .. Len(m) |-> Share(m[k], a)]
<1>1. v \in Seq(Int) /\ Len(v) = Len(m) /\ \A k \in 1 .. Len(m) : v[k] = Share(m[k], a)
  BY SharesAreSeq
<1>2. All \in Nat
  BY OmniRange
<1> HIDE DEF v
<1>3. ASSUME NEW k \in 1 .. Len(v) PROVE v[k] \in 0 .. All
  <2>1. Share(m[k], a) \in 0 .. All
    BY <1>1, ShareIsProper
  <2> QED BY <1>1, <2>1
<1>4. SumOf(v) \in 0 .. Len(v) * All
  BY <1>1, <1>2, <1>3, SumBounded
<1> QED BY <1>1, <1>4 DEF Owed, v

-----------------------------------------------------------------------------
(* Integers of 64 bits, and the texts the code reads.                        *)

LEMMA WrapFact ==
    ASSUME NEW n \in Int
    PROVE  /\ Wrap(n) \in -MaxInt - 1 .. MaxInt
           /\ n \in -MaxInt - 1 .. MaxInt => Wrap(n) = n
<1> DEFINE k == 2 * (MaxInt + 1)
           x == n + MaxInt + 1
<1>1. MaxInt \in Nat
  BY OmniIntegers
<1>2. k \in Nat /\ k > 0 /\ x \in Int /\ k = 2 * MaxInt + 2
  BY <1>1
<1>3. Wrap(n) = (x % k) - (MaxInt + 1)
  BY DEF Wrap
<1>4. n \in -MaxInt - 1 .. MaxInt => 0 <= x /\ x < k
  BY <1>1
<1> HIDE DEF k
<1>5. x % k \in 0 .. k - 1
  <2> HIDE DEF x
  <2> QED BY <1>2
<1>6. 0 <= x /\ x < k => x % k = x
  <2> HIDE DEF x
  <2> QED BY <1>2
<1> QED BY <1>1, <1>2, <1>3, <1>4, <1>5, <1>6

\* Whatever the node writes, the code reads an int64,
LEMMA ReadIsInt ==
    ASSUME NEW n
    PROVE  Read(n) \in Int
<1>1. MaxInt \in Int
  BY OmniIntegers
<1>2. \A x : Nearest(x) \in Int
  BY <1>1 DEF Nearest
<1> QED BY <1>2 DEF Read

\* and what is in range as it is.
LEMMA ReadFact == ASSUME NEW n \in 0 .. MaxInt PROVE Read(n) = n
<1>1. n \in Nat /\ ~(n < 0) /\ n \in -MaxInt - 1 .. MaxInt /\ Places \in Nat
  BY OmniIntegers
<1>2. ParseInt(RightShift(Written(n), Places)) = n
  BY <1>1, ReadsAgain DEF Written
<1> QED BY <1>1, <1>2 DEF Read, Nearest

LEMMA RequestRead ==
    ASSUME NEW s, Plain(s)
    PROVE  /\ IsInt(RightShift(s, Places)) => ParseInt(RightShift(s, Places)) \in Nat
           /\ s = <<".">> => ParseInt(RightShift(s, Places)) = 0
           /\ s # <<".">> /\ IsInt(RightShift(s, Places)) =>
                /\ Denotes(s, ParseInt(RightShift(s, Places)), Places)
                /\ Denotes(LeftShift(s, Places), ParseInt(RightShift(s, Places)), 2 * Places)
           /\ IsNumeral(s) /\ Fraction(s) <= Places =>
                IsInt(RightShift(s, Places)) /\ ParseInt(RightShift(s, Places)) = Value(s, Places)
<1>1. s \in Seq(DigitChars \cup {"."}) /\ Undotted(s) \in Seq(DigitChars) /\ Places \in Nat \ {0}
  BY OmniIntegers DEF Plain
<1> QED BY <1>1, RequestMeant

-----------------------------------------------------------------------------
(* The inductive invariant.                                                  *)

Checked(a) == a \notin unchecked /\ a \notin negative

\* No address has more than all tokens, none promises more at once or less
\* than none, unless it sent a negative amount, and no transaction comes from
\* nowhere.
Bounds ==
    /\ \A a \in Addrs : tokens[a] <= All
    /\ \A k \in 1 .. Len(mempool) : mempool[k].from \notin negative => mempool[k].amount \in 0 .. All
    /\ Len(mempool) <= made

Understood(s, n) == IsInt(RightShift(s, Places)) /\ n = ParseInt(RightShift(s, Places))

\* What the request under way knows: the amount it read, and, once it has
\* looked, what its sender has promised at most.  After the second comparison
\* the tokens cover the promises and the amount.
RequestKnows ==
    /\ pc \in {"pending", "balance", "send"} => from \in Addrs
    /\ pc = "pending" => asked \in Requests /\ Understood(asked, amount)
    /\ pc = "refused" => /\ asked \in Requests
                         /\ ~(/\ IsInt(RightShift(asked, Places))
                              /\ ParseInt(RightShift(asked, Places)) \in -MaxInt - 1 .. MaxInt)
    /\ pc = "balance" /\ Checked(from) => Promised(from) <= pendingAmount /\ pendingAmount <= All
    /\ pc = "send" => amount <= All
    /\ pc = "send" /\ Checked(from) => Promised(from) + amount <= tokens[from]

\* An int64 holds what can be pending of an address: of any that sends only
\* with the check, and of all if there are few transactions.
Few == MaxTxs * All <= MaxInt
Exact(a) == a \notin negative /\ (Few \/ a \notin unchecked)

\* What the balance query knows after its first read, until the address sends
\* something.
QueryKnows ==
    /\ query # "idle" => address \in Addrs
    /\ query # "balance" => meanwhile = {}
    /\ query = "balance" /\ Exact(address) /\ "sent" \notin meanwhile =>
         /\ pendingRead \in 0 .. MaxInt
         /\ Promised(address) <= pendingRead
         /\ meanwhile = {} => Promised(address) = pendingRead

Inv == TypeOK /\ Bounds /\ RequestKnows /\ QueryKnows /\ TokensCover

LEMMA PromisedIsInt ==
    ASSUME TypeOK, NEW a
    PROVE  Promised(a) \in Int
<1>1. mempool \in Seq(Tx)
  BY DEF TypeOK
<1> QED BY <1>1, OwedIsInt, PromisedIsOwed

LEMMA PromisedRange ==
    ASSUME TypeOK, Bounds, NEW a, a \notin negative
    PROVE  Promised(a) \in Nat /\ Promised(a) <= MaxTxs * All
<1>1. /\ mempool \in Seq(Tx)
      /\ \A k \in 1 .. Len(mempool) : mempool[k].from = a => mempool[k].amount \in 0 .. All
      /\ Len(mempool) <= made /\ made \in 0 .. MaxTxs /\ Len(mempool) \in Nat
  <2>1. mempool \in Seq(Tx) /\ made \in 0 .. MaxTxs
    BY DEF TypeOK
  <2> QED BY <2>1 DEF Bounds
<1>2. MaxTxs \in Nat /\ All \in Nat
  BY OmniIntegers, OmniRange
<1>3. Owed(mempool, a) \in 0 .. Len(mempool) * All
  BY <1>1, OwedBounded
<1>4. Len(mempool) * All <= MaxTxs * All
  <2> DEFINE l == Len(mempool)
  <2>1. l \in Nat /\ l <= MaxTxs
    BY <1>1, <1>2
  <2> HIDE DEF l
  <2>2. \A x, y, z \in Nat : x <= y => x * z <= y * z
    OBVIOUS
  <2> QED BY <1>2, <2>1, <2>2 DEF l
<1>5. Owed(mempool, a) \in Nat /\ Owed(mempool, a) <= MaxTxs * All
  <2>1. Len(mempool) * All \in Int /\ MaxTxs * All \in Int
    BY <1>1, <1>2
  <2> QED BY <1>3, <1>4, <2>1
<1> QED BY <1>5, PromisedIsOwed

\* GetOMNIPendingAmount adds up what the address has promised, in an int64.
LEMMA PendingWraps ==
    ASSUME TypeOK, Bounds, NEW a, a \notin negative
    PROVE  PendingOf(a) = Wrap(Promised(a))
<1>1. mempool \in Seq(Tx)
  BY DEF TypeOK
<1>2. [k \in 1 .. Len(mempool) |-> IF mempool[k].from = a /\ mempool[k].usdt THEN Read(mempool[k].amount) ELSE 0]
      = [k \in 1 .. Len(mempool) |-> Share(mempool[k], a)]
  <2>1. ASSUME NEW k \in 1 .. Len(mempool), mempool[k].from = a
        PROVE  Read(mempool[k].amount) = mempool[k].amount
    <3>1. mempool[k].amount \in 0 .. All
      BY <2>1 DEF Bounds
    <3>2. mempool[k].amount \in 0 .. MaxInt
      BY <3>1, OmniRange, OmniIntegers
    <3> QED BY <3>2, ReadFact
  <2> QED BY <2>1 DEF Share
<1>3. PendingOf(a) = Wrap(Owed(mempool, a))
  BY <1>2 DEF PendingOf, Listed, Owed
<1> QED BY <1>3, PromisedIsOwed

LEMMA PendingIsInt ==
    ASSUME TypeOK, NEW a
    PROVE  PendingOf(a) \in -MaxInt - 1 .. MaxInt
<1> DEFINE v == [k \in 1 .. Len(mempool) |->
                   IF mempool[k].from = a /\ mempool[k].usdt THEN Read(mempool[k].amount) ELSE 0]
<1>1. Len(mempool) \in Nat
  BY DEF TypeOK
<1>2. \A k \in 1 .. Len(mempool) : v[k] \in Int
  BY ReadIsInt
<1>3. v \in Seq(Int)
  <2>1. v = [k \in 1 .. Len(mempool) |-> v[k]]
    OBVIOUS
  <2> HIDE DEF v
  <2> QED BY <1>1, <1>2, <2>1
<1>4. PendingOf(a) = Wrap(SumOf(v))
  BY DEF PendingOf, Listed
<1> HIDE DEF v
<1>5. SumOf(v) \in Int
  BY <1>3, SumIsInt
<1> QED BY <1>4, <1>5, WrapFact

\* If the address sends only with the check, its tokens cover that, and the
\* sum is exact; so it is if there are few transactions.
LEMMA PendingRead ==
    ASSUME TypeOK, Bounds, TokensCover, NEW a \in Addrs, Exact(a)
    PROVE  Promised(a) \in 0 .. MaxInt /\ PendingOf(a) = Promised(a)
<1>1. Promised(a) \in Nat /\ Promised(a) <= MaxTxs * All /\ a \notin negative
  BY PromisedRange DEF Exact
<1>2. MaxTxs \in Nat /\ All \in Nat /\ MaxInt \in Nat /\ 2 * All <= MaxInt /\ MaxTxs * All \in Int
  BY OmniIntegers, OmniRange
<1>3. Promised(a) <= MaxInt
  <2>1. CASE Few
    BY <1>1, <1>2, <2>1 DEF Few
  <2>2. CASE a \notin unchecked
    <3>1. Promised(a) <= tokens[a] /\ tokens[a] <= All /\ tokens[a] \in Nat
      BY <1>1, <2>2 DEF TokensCover, Bounds, TypeOK
    <3> QED BY <1>1, <1>2, <3>1
  <2> QED BY <2>1, <2>2 DEF Exact
<1>4. Wrap(Promised(a)) = Promised(a)
  <2>1. Promised(a) \in Int /\ Promised(a) \in -MaxInt - 1 .. MaxInt
    BY <1>1, <1>2, <1>3
  <2> QED BY <2>1, WrapFact
<1> QED BY <1>1, <1>2, <1>3, <1>4, PendingWraps

\* A transaction comes in.
LEMMA Joins ==
    ASSUME TypeOK, Bounds, NEW t \in Tx, Broadcast(t), negative \subseteq negative',
           t.from \notin negative' => t.amount \in 0 .. All
    PROVE  /\ mempool' \in Seq(Tx) /\ made' \in 0 .. MaxTxs
           /\ Bounds'
           /\ \A a : Promised(a)' = Promised(a) + Share(t, a)
<1>1. /\ mempool \in Seq(Tx) /\ made \in 0 .. MaxTxs /\ MaxTxs \in Nat /\ Len(mempool) \in Nat
  <2>1. mempool \in Seq(Tx) /\ made \in 0 .. MaxTxs
    BY DEF TypeOK
  <2> QED BY <2>1, OmniIntegers
<1>2. mempool' = Append(mempool, t) /\ made < MaxTxs /\ made' = made + 1 /\ tokens' = tokens
  BY DEF Broadcast
<1>3. /\ mempool' \in Seq(Tx) /\ Len(mempool') = Len(mempool) + 1
      /\ \A k \in 1 .. Len(mempool) : mempool'[k] = mempool[k]
      /\ mempool'[Len(mempool) + 1] = t
  BY <1>1, <1>2
<1>4. ASSUME NEW k \in 1 .. Len(mempool'), mempool'[k].from \notin negative'
      PROVE  mempool'[k].amount \in 0 .. All
  <2>1. CASE k = Len(mempool) + 1
    BY <1>3, <1>4, <2>1
  <2>2. CASE k # Len(mempool) + 1
    <3>1. k \in 1 .. Len(mempool)
      BY <1>1, <1>3, <2>2
    <3> QED BY <1>3, <1>4, <3>1 DEF Bounds
  <2> QED BY <2>1, <2>2
<1>5. Bounds'
  <2>1. Len(mempool') <= made'
    BY <1>1, <1>2, <1>3 DEF Bounds
  <2>2. \A a \in Addrs : tokens'[a] <= All
    BY <1>2 DEF Bounds
  <2> QED BY <1>4, <2>1, <2>2 DEF Bounds
<1>6. \A a : Promised(a)' = Promised(a) + Share(t, a)
  BY <1>1, <1>2, OwedAppend, PromisedIsOwed
<1>7. made' \in 0 .. MaxTxs
  BY <1>1, <1>2
<1> QED BY <1>3, <1>5, <1>6, <1>7

\* A transaction leaves.
LEMMA Goes ==
    ASSUME TypeOK, Bounds, NEW k \in 1 .. Len(mempool), Leaves(k), made' = made
    PROVE  /\ mempool' \in Seq(Tx) /\ made' \in 0 .. MaxTxs
           /\ \A j \in 1 .. Len(mempool') :
                mempool'[j].from \notin negative => mempool'[j].amount \in 0 .. All
           /\ Len(mempool') <= made'
           /\ mempool[k] \in Tx
           /\ mempool[k].from \notin negative => mempool[k].amount \in 0 .. All
           /\ \A a : Promised(a)' = Promised(a) - Share(mempool[k], a)
<1>1. /\ mempool \in Seq(Tx) /\ made \in 0 .. MaxTxs /\ Len(mempool) \in Nat
  <2>1. mempool \in Seq(Tx) /\ made \in 0 .. MaxTxs
    BY DEF TypeOK
  <2> QED BY <2>1
<1>2. mempool' = RemoveAt(mempool, k)
  BY DEF Leaves
<1>3. /\ mempool' \in Seq(Tx) /\ Len(mempool') = Len(mempool) - 1
      /\ \A j \in 1 .. Len(mempool') : mempool'[j] = mempool[IF j < k THEN j ELSE j + 1]
  BY <1>1, <1>2, Removed
<1>4. ASSUME NEW j \in 1 .. Len(mempool'), mempool'[j].from \notin negative
      PROVE  mempool'[j].amount \in 0 .. All
  <2> DEFINE i == IF j < k THEN j ELSE j + 1
  <2>1. i \in 1 .. Len(mempool)
    <3>1. j \in 1 .. Len(mempool) - 1
      BY <1>3
    <3> QED BY <1>1, <3>1
  <2>2. mempool'[j] = mempool[i]
    BY <1>3
  <2> HIDE DEF i
  <2> QED BY <1>4, <2>1, <2>2 DEF Bounds
<1>5. Len(mempool') <= made'
  BY <1>1, <1>3 DEF Bounds
<1>6. mempool[k] \in Tx /\ (mempool[k].from \notin negative => mempool[k].amount \in 0 .. All)
  BY <1>1 DEF Bounds
<1>7. \A a : Promised(a)' = Promised(a) - Share(mempool[k], a)
  BY <1>1, <1>2, OwedRemoved, PromisedIsOwed
<1> QED BY <1>1, <1>3, <1>4, <1>5, <1>6, <1>7

-----------------------------------------------------------------------------
(* What the steps keep.                                                      *)

LEMMA InitInv == Init => Inv
<1> SUFFICES ASSUME Init PROVE Inv
  OBVIOUS
<1>1. /\ All \in Nat /\ MaxInt \in Nat /\ MaxTxs \in Nat /\ Supply \in [Addrs -> 0 .. All]
  BY OmniIntegers, OmniAmounts, OmniRange
<1>2. TypeOK
  <2>1. tokens \in [Addrs -> Nat]
    BY <1>1 DEF Init
  <2>2. mempool \in Seq(Tx) /\ made \in 0 .. MaxTxs
    BY <1>1 DEF Init
  <2>3. 0 \in -MaxInt - 1 .. MaxInt
    BY <1>1
  <2> QED BY <2>1, <2>2, <2>3 DEF Init, TypeOK
<1>3. Bounds
  BY <1>1 DEF Init, Bounds
<1>4. RequestKnows /\ QueryKnows
  BY DEF Init, RequestKnows, QueryKnows
<1>5. TokensCover
  <2>1. \A a : Promised(a) = 0
    BY OwedEmpty, PromisedIsOwed DEF Init
  <2> QED BY <1>1, <2>1 DEF Init, TokensCover
<1> QED BY <1>2, <1>3, <1>4, <1>5 DEF Inv

\* A step of the request alone.
LEMMA RequestAlone ==
    ASSUME Inv, UNCHANGED <<node, balanceQuery, meanwhile, past>>
    PROVE  /\ Bounds' /\ QueryKnows' /\ TokensCover'
           /\ \A a : Promised(a)' = Promised(a)
<1>1. \A a : Promised(a)' = Promised(a)
  BY PromisedIsOwed DEF node
<1>2. Bounds'
  BY DEF Inv, Bounds, node, past
<1>3. QueryKnows'
  BY <1>1 DEF Inv, QueryKnows, Exact, balanceQuery, past
<1>4. TokensCover'
  BY <1>1 DEF Inv, TokensCover, node, past
<1> QED BY <1>1, <1>2, <1>3, <1>4

\* A step of the query alone.
LEMMA QueryAlone ==
    ASSUME Inv, UNCHANGED <<node, request, past>>
    PROVE  /\ Bounds' /\ RequestKnows' /\ TokensCover'
           /\ \A a : Promised(a)' = Promised(a)
<1>1. \A a : Promised(a)' = Promised(a)
  BY PromisedIsOwed DEF node
<1>2. Bounds'
  BY DEF Inv, Bounds, node, past
<1>3. RequestKnows'
  BY <1>1 DEF Inv, RequestKnows, Understood, Checked, request, node, past
<1>4. TokensCover'
  BY <1>1 DEF Inv, TokensCover, node, past
<1> QED BY <1>1, <1>2, <1>3, <1>4

LEMMA AskKeeps == ASSUME Inv, Ask PROVE Inv'
<1>1. UNCHANGED <<node, balanceQuery, meanwhile, past>>
  BY DEF Ask
<1>2. Bounds' /\ QueryKnows' /\ TokensCover'
  BY <1>1, RequestAlone
<1>3. PICK s \in Requests :
        LET shifted == RightShift(s, Places)
        IN  IF IsInt(shifted) /\ ParseInt(shifted) \in -MaxInt - 1 .. MaxInt
            THEN pc' = "pending" /\ from' \in Addrs /\ asked' = s /\ amount' = ParseInt(shifted)
            ELSE pc' = "refused" /\ asked' = s /\ UNCHANGED <<from, amount>>
  BY DEF Ask
<1> DEFINE shifted == RightShift(s, Places)
<1>4. CASE IsInt(shifted) /\ ParseInt(shifted) \in -MaxInt - 1 .. MaxInt
  <2>1. pc' = "pending" /\ from' \in Addrs /\ asked' = s /\ amount' = ParseInt(shifted)
    BY <1>3, <1>4
  <2>2. RequestKnows'
    BY <1>4, <2>1 DEF RequestKnows, Understood
  <2>3. TypeOK'
    BY <1>1, <1>4, <2>1 DEF Ask, Inv, TypeOK, node, balanceQuery, past
  <2> QED BY <1>2, <2>2, <2>3 DEF Inv
<1>5. CASE ~(IsInt(shifted) /\ ParseInt(shifted) \in -MaxInt - 1 .. MaxInt)
  <2>1. pc' = "refused" /\ asked' = s /\ from' = from /\ amount' = amount
    BY <1>3, <1>5
  <2>2. RequestKnows'
    BY <1>5, <2>1 DEF RequestKnows
  <2>3. TypeOK'
    BY <1>1, <2>1 DEF Ask, Inv, TypeOK, node, balanceQuery, past
  <2> QED BY <1>2, <2>2, <2>3 DEF Inv
<1> QED BY <1>4, <1>5

LEMMA EndKeeps ==
    ASSUME TypeOK, End
    PROVE  /\ pc' = "idle" /\ from' \in Addrs \cup {NoAddr} /\ asked' \in Requests \cup {<<>>}
           /\ amount' \in -MaxInt - 1 .. MaxInt /\ pendingAmount' \in -MaxInt - 1 .. MaxInt
           /\ RequestKnows'
<1>1. 0 \in -MaxInt - 1 .. MaxInt
  BY OmniIntegers
<1> QED BY <1>1 DEF End, RequestKnows

LEMMA FailKeeps == ASSUME Inv, Fail PROVE Inv'
<1>1. UNCHANGED <<node, balanceQuery, meanwhile, past>> /\ End
  BY DEF Fail
<1>2. Bounds' /\ QueryKnows' /\ TokensCover'
  BY <1>1, RequestAlone
<1>3. /\ pc' = "idle" /\ from' \in Addrs \cup {NoAddr} /\ asked' \in Requests \cup {<<>>}
      /\ amount' \in -MaxInt - 1 .. MaxInt /\ pendingAmount' \in -MaxInt - 1 .. MaxInt
      /\ RequestKnows'
  BY <1>1, EndKeeps DEF Inv
<1>4. TypeOK'
  BY <1>1, <1>3 DEF Inv, TypeOK, node, balanceQuery, past
<1> QED BY <1>2, <1>3, <1>4 DEF Inv

LEMMA ReadPendingKeeps == ASSUME Inv, ReadPending PROVE Inv'
<1>1. UNCHANGED <<node, balanceQuery, meanwhile, past>>
  BY DEF ReadPending
<1>2. Bounds' /\ QueryKnows' /\ TokensCover' /\ \A a : Promised(a)' = Promised(a)
  BY <1>1, RequestAlone
<1>3. /\ pc = "pending" /\ pendingAmount' = PendingOf(from) /\ pc' = "balance" /\ asked' = <<>>
      /\ from' = from /\ amount' = amount
  BY DEF ReadPending
<1>4. from \in Addrs
  BY <1>3 DEF Inv, RequestKnows
<1>5. Checked(from) => PendingOf(from) = Promised(from) /\ Promised(from) \in 0 .. MaxInt
  BY <1>4, PendingRead DEF Inv, Exact, Checked
<1>6. MaxInt \in Nat /\ All \in Nat
  BY OmniIntegers, OmniRange
<1>7. RequestKnows'
  <2>1. ASSUME Checked(from) PROVE Promised(from) <= All
    <3>1. Promised(from) <= tokens[from] /\ tokens[from] <= All /\ tokens[from] \in Nat
      BY <1>4, <2>1 DEF Inv, TokensCover, Bounds, TypeOK, Checked
    <3> QED BY <1>5, <1>6, <2>1, <3>1
  <2>2. /\ pc' = "balance" /\ from' = from /\ amount' = amount /\ past' = past
        /\ Checked(from) => pendingAmount' = Promised(from)
    BY <1>1, <1>3, <1>5
  <2>3. Checked(from) => Promised(from) <= Promised(from)
    BY <1>5
  <2>4. (Promised(from))' = Promised(from)
    BY <1>1, <2>2, PromisedIsOwed DEF node
  <2> QED BY <1>4, <2>1, <2>2, <2>3, <2>4 DEF RequestKnows, Checked, past
<1>8. TypeOK'
  <2>1. PendingOf(from) \in -MaxInt - 1 .. MaxInt
    BY PendingIsInt DEF Inv
  <2> QED BY <1>1, <1>3, <1>4, <2>1 DEF Inv, TypeOK, node, balanceQuery, past
<1> QED BY <1>2, <1>7, <1>8 DEF Inv

LEMMA ReadBalanceKeeps == ASSUME Inv, ReadBalance PROVE Inv'
<1>1. UNCHANGED <<node, balanceQuery, meanwhile, past>> /\ pc = "balance"
  BY DEF ReadBalance
<1>2. Bounds' /\ QueryKnows' /\ TokensCover' /\ \A a : Promised(a)' = Promised(a)
  BY <1>1, RequestAlone
<1>3. CASE Enough(BalanceOf(from))
  <2>1. pc' = "send" /\ from' = from /\ asked' = asked /\ amount' = amount /\ pendingAmount' = pendingAmount
    BY <1>3 DEF ReadBalance
  <2>2. from \in Addrs /\ amount \in Int /\ amount >= -MaxInt - 1 /\ pendingAmount \in Int
    <3>1. amount \in -MaxInt - 1 .. MaxInt /\ pendingAmount \in -MaxInt - 1 .. MaxInt /\ MaxInt \in Nat
      BY OmniIntegers DEF Inv, TypeOK
    <3> QED BY <1>1, <3>1 DEF Inv, RequestKnows
  <2>3. tokens[from] \in Nat /\ tokens[from] <= All /\ All \in Nat /\ 2 * All <= MaxInt /\ MaxInt \in Nat
    BY <2>2, OmniIntegers, OmniRange DEF Inv, TypeOK, Bounds
  <2>4. tokens[from] >= amount /\ tokens[from] >= Wrap(pendingAmount + amount)
    <3>1. BalanceOf(from) = tokens[from]
      <4>1. tokens[from] \in 0 .. MaxInt
        BY <2>3
      <4> QED BY <4>1, ReadFact DEF BalanceOf
    <3> QED BY <1>3, <3>1 DEF Enough
  <2>5. amount <= All
    BY <2>2, <2>3, <2>4
  <2>6. ASSUME Checked(from) PROVE Promised(from) + amount <= tokens[from]
    <3>1. Promised(from) <= pendingAmount /\ pendingAmount <= All
      BY <1>1, <2>6 DEF Inv, RequestKnows
    <3>2. Promised(from) \in Nat
      BY <2>6, PromisedRange DEF Inv, Checked
    <3> DEFINE n == pendingAmount + amount
    <3>3. n \in Int /\ n \in -MaxInt - 1 .. MaxInt
      BY <2>2, <2>3, <2>5, <3>1, <3>2
    <3>4. Wrap(n) = n
      <4> HIDE DEF n
      <4> QED BY <3>3, WrapFact
    <3> QED BY <2>2, <2>3, <2>4, <3>1, <3>2, <3>4
  <2>7. (Promised(from))' = Promised(from)
    BY <1>1, <2>1, PromisedIsOwed DEF node
  <2>8. RequestKnows'
    BY <1>1, <2>1, <2>2, <2>5, <2>6, <2>7 DEF RequestKnows, Checked, node, past
  <2>9. TypeOK'
    BY <1>1, <2>1 DEF Inv, TypeOK, node, balanceQuery, past
  <2> QED BY <1>2, <2>8, <2>9 DEF Inv
<1>4. CASE ~Enough(BalanceOf(from))
  <2>1. End
    BY <1>4 DEF ReadBalance
  <2>2. /\ pc' = "idle" /\ from' \in Addrs \cup {NoAddr} /\ asked' \in Requests \cup {<<>>}
        /\ amount' \in -MaxInt - 1 .. MaxInt /\ pendingAmount' \in -MaxInt - 1 .. MaxInt
        /\ RequestKnows'
    BY <2>1, EndKeeps DEF Inv
  <2>3. TypeOK'
    BY <1>1, <2>2 DEF Inv, TypeOK, node, balanceQuery, past
  <2> QED BY <1>2, <2>2, <2>3 DEF Inv
<1> QED BY <1>3, <1>4

\* The query is told of every transaction of its address that comes,
LEMMA QueryTold ==
    ASSUME Inv, NEW t, Happens("sent", t), UNCHANGED balanceQuery, unchecked \subseteq unchecked',
           negative \subseteq negative',
           \A a : Promised(a)' = Promised(a) + Share(t, a)
    PROVE  QueryKnows' /\ meanwhile' \subseteq {"sent", "confirmed", "evicted"}
<1>1. query' = query /\ address' = address /\ pendingRead' = pendingRead
  BY DEF balanceQuery
<1>2. /\ query # "idle" => address \in Addrs
      /\ query # "balance" => meanwhile = {}
      /\ query = "balance" /\ Exact(address) /\ "sent" \notin meanwhile =>
           /\ pendingRead \in 0 .. MaxInt
           /\ Promised(address) <= pendingRead
           /\ meanwhile = {} => Promised(address) = pendingRead
  BY DEF Inv, QueryKnows
<1>3. meanwhile \subseteq {"sent", "confirmed", "evicted"}
  BY DEF Inv, TypeOK
<1>4. Promised(address) \in Int
  BY PromisedIsInt DEF Inv
<1>5. CASE query = "balance" /\ t.from = address /\ t.usdt
  <2>1. meanwhile' = meanwhile \cup {"sent"}
    BY <1>5 DEF Happens
  <2> QED BY <1>1, <1>2, <1>3, <1>5, <2>1 DEF QueryKnows
<1>6. CASE ~(query = "balance" /\ t.from = address /\ t.usdt)
  <2>1. meanwhile' = meanwhile
    BY <1>6 DEF Happens
  <2>2. ASSUME query = "balance" PROVE (Promised(address))' = Promised(address)
    <3>1. Share(t, address) = 0
      BY <1>6, <2>2 DEF Share
    <3>2. Owed(mempool', address) = Promised(address) + 0
      BY <3>1, PromisedIsOwed
    <3> QED BY <1>1, <1>4, <3>2, PromisedIsOwed
  <2> QED BY <1>1, <1>2, <1>3, <2>1, <2>2 DEF QueryKnows, Exact
<1> QED BY <1>5, <1>6

\* and of every one that leaves.
LEMMA QueryToldOfLeaving ==
    ASSUME Inv, NEW t \in Tx, NEW event \in {"confirmed", "evicted"}, Happens(event, t),
           UNCHANGED <<balanceQuery, past>>,
           t.from \notin negative => t.amount \in 0 .. All,
           \A a : Promised(a)' = Promised(a) - Share(t, a)
    PROVE  QueryKnows' /\ meanwhile' \subseteq {"sent", "confirmed", "evicted"}
<1>1. query' = query /\ address' = address /\ pendingRead' = pendingRead
  BY DEF balanceQuery
<1>2. /\ query # "idle" => address \in Addrs
      /\ query # "balance" => meanwhile = {}
      /\ query = "balance" /\ Exact(address) /\ "sent" \notin meanwhile =>
           /\ pendingRead \in 0 .. MaxInt
           /\ Promised(address) <= pendingRead
           /\ meanwhile = {} => Promised(address) = pendingRead
  BY DEF Inv, QueryKnows
<1>3. meanwhile \subseteq {"sent", "confirmed", "evicted"}
  BY DEF Inv, TypeOK
<1>4. Promised(address) \in Int
  BY PromisedIsInt DEF Inv
<1>5. /\ (Promised(address))' = Promised(address) - Share(t, address) /\ Share(t, address) \in Int
      /\ address \notin negative => Share(t, address) \in Nat
  <2>1. Owed(mempool', address) = Promised(address) - Share(t, address)
    BY PromisedIsOwed
  <2>2. address \notin negative => Share(t, address) \in Nat
    BY ShareIsProper
  <2> QED BY <1>1, <2>1, <2>2, PromisedIsOwed, ShareIsInt
<1>6. CASE query = "balance" /\ t.from = address /\ t.usdt
  <2>1. meanwhile' = meanwhile \cup {event} /\ event # "sent"
    BY <1>6 DEF Happens
  <2>2. Exact(address) /\ "sent" \notin meanwhile => (Promised(address))' <= pendingRead
    <3> DEFINE p == Promised(address)
               q == Share(t, address)
    <3>1. p \in Int /\ (Exact(address) => q \in Nat) /\ (Promised(address))' = p - q
      BY <1>4, <1>5 DEF Exact
    <3>2. Exact(address) /\ "sent" \notin meanwhile => p <= pendingRead /\ pendingRead \in Int
      BY <1>2, <1>6
    <3> HIDE DEF p, q
    <3> QED BY <3>1, <3>2
  <2> QED BY <1>1, <1>2, <1>3, <1>6, <2>1, <2>2 DEF QueryKnows, Exact, past
<1>7. CASE ~(query = "balance" /\ t.from = address /\ t.usdt)
  <2>1. meanwhile' = meanwhile
    BY <1>7 DEF Happens
  <2>2. ASSUME query = "balance" PROVE (Promised(address))' = Promised(address)
    <3>1. Share(t, address) = 0
      BY <1>7, <2>2 DEF Share
    <3> QED BY <1>4, <1>5, <3>1
  <2> QED BY <1>1, <1>2, <1>3, <2>1, <2>2 DEF QueryKnows, Exact, past
<1> QED BY <1>6, <1>7

\* What the node makes of an amount.
LEMMA ListingFact ==
    ASSUME NEW sender \in Addrs, NEW to \in Addrs \cup {Out}, NEW n \in Int,
           NEW t \in Listings(sender, to, n)
    PROVE  t \in Tx /\ t.from = sender /\ (n >= 0 => t.amount = n /\ t.usdt)
<1> DEFINE k == 2 * (MaxInt + 1)
           whole == [from : {sender}, to : {to}, amount : {n}, usdt : {TRUE}]
           wrapped == [from : {sender}, to : {to}, amount : {n % k}, usdt : BOOLEAN]
<1>1. k \in Nat \ {0}
  BY OmniIntegers
<1> HIDE DEF k
<1>2. n % k \in Int
  BY <1>1
<1>3. t \in whole \/ (n < 0 /\ t \in wrapped)
  <2>1. t \in whole \cup IF n >= 0 THEN {} ELSE wrapped
    BY Zenon DEF Listings, k
  <2> HIDE DEF whole, wrapped
  <2> QED BY <2>1
<1>4. CASE t \in whole
  BY <1>4 DEF Tx
<1>5. CASE n < 0 /\ t \in wrapped
  BY <1>2, <1>5 DEF Tx
<1> QED BY <1>3, <1>4, <1>5

\* A transfer is sent: what the sender promises grows by its amount, unless
\* that is negative.
LEMMA Transferred ==
    ASSUME Inv, NEW sender \in Addrs, NEW to \in Addrs \cup {Out},
           NEW n \in Int, n <= All, Transfer(sender, to, n),
           UNCHANGED balanceQuery, unchecked \subseteq unchecked'
    PROVE  /\ mempool' \in Seq(Tx) /\ made' \in 0 .. MaxTxs /\ tokens' = tokens
           /\ Bounds' /\ QueryKnows' /\ meanwhile' \subseteq {"sent", "confirmed", "evicted"}
           /\ negative' \subseteq Addrs /\ negative \subseteq negative'
           /\ sender \notin negative' => n >= 0 /\ Promised(sender)' = Promised(sender) + n
           /\ \A a : a # sender => /\ Promised(a)' = Promised(a)
                                  /\ (a \in negative' => a \in negative)
<1>1. PICK t \in Listings(sender, to, n) : Broadcast(t) /\ Happens("sent", t)
  BY DEF Transfer
<1>2. negative' = (IF n < 0 THEN negative \cup {sender} ELSE negative) /\ negative \subseteq Addrs
  BY DEF Transfer, Inv, TypeOK
<1>3. t \in Tx /\ t.from = sender /\ (n >= 0 => t.amount = n /\ t.usdt)
  BY ListingFact
<1>4. All \in Nat
  BY OmniRange
<1>5. sender \notin negative' => n >= 0
  BY <1>2
<1>6. t.from \notin negative' => t.amount \in 0 .. All
  BY <1>3, <1>4, <1>5
<1>7. negative \subseteq negative' /\ negative' \subseteq Addrs
  BY <1>2
<1>8. mempool' \in Seq(Tx) /\ made' \in 0 .. MaxTxs /\ Bounds' /\ \A a : Promised(a)' = Promised(a) + Share(t, a)
  BY <1>1, <1>3, <1>6, <1>7, Joins DEF Inv
<1>9. QueryKnows' /\ meanwhile' \subseteq {"sent", "confirmed", "evicted"}
  BY <1>1, <1>7, <1>8, QueryTold
<1>10. tokens' = tokens
  BY <1>1 DEF Broadcast
<1>11. ASSUME sender \notin negative' PROVE Promised(sender)' = Promised(sender) + n
  <2>1. Share(t, sender) = n
    BY <1>3, <1>5, <1>11 DEF Share
  <2> QED BY <1>8, <2>1
<1>12. ASSUME NEW a, a # sender PROVE Promised(a)' = Promised(a) /\ (a \in negative' => a \in negative)
  <2>1. Share(t, a) = 0
    BY <1>3, <1>12 DEF Share
  <2>2. Promised(a)' = Promised(a) + 0
    BY <1>8, <2>1
  <2>3. Promised(a) \in Int
    BY PromisedIsInt DEF Inv
  <2> QED BY <1>2, <1>12, <2>2, <2>3
<1> QED BY <1>5, <1>7, <1>8, <1>9, <1>10, <1>11, <1>12

LEMMA SendKeeps == ASSUME Inv, Send PROVE Inv'
<1>1. PICK sender \in Addrs, to \in Addrs \cup {Out} :
        /\ Transfer(sender, to, amount)
        /\ unchecked' = IF sender = from THEN unchecked ELSE unchecked \cup {sender}
  BY DEF Send
<1>2. pc = "send" /\ End /\ UNCHANGED balanceQuery
  BY DEF Send
<1>3. from \in Addrs /\ amount \in Int /\ amount <= All
  <2>1. amount \in -MaxInt - 1 .. MaxInt /\ MaxInt \in Nat
    BY OmniIntegers DEF Inv, TypeOK
  <2> QED BY <1>2, <2>1 DEF Inv, RequestKnows
<1>4. unchecked' = (IF sender = from THEN unchecked ELSE unchecked \cup {sender})
  BY <1>1
<1>5. unchecked \subseteq unchecked'
  BY <1>4
<1>6. /\ mempool' \in Seq(Tx) /\ made' \in 0 .. MaxTxs /\ tokens' = tokens
      /\ Bounds' /\ QueryKnows' /\ meanwhile' \subseteq {"sent", "confirmed", "evicted"}
      /\ negative' \subseteq Addrs /\ negative \subseteq negative'
      /\ sender \notin negative' => amount >= 0 /\ Promised(sender)' = Promised(sender) + amount
      /\ \A a : a # sender => /\ Promised(a)' = Promised(a)
                             /\ (a \in negative' => a \in negative)
  BY <1>1, <1>2, <1>3, <1>5, Transferred
<1>7. /\ pc' = "idle" /\ from' \in Addrs \cup {NoAddr} /\ asked' \in Requests \cup {<<>>}
      /\ amount' \in -MaxInt - 1 .. MaxInt /\ pendingAmount' \in -MaxInt - 1 .. MaxInt
      /\ RequestKnows'
  BY <1>2, EndKeeps DEF Inv
<1>8. TypeOK'
  BY <1>2, <1>4, <1>6, <1>7 DEF Inv, TypeOK, balanceQuery
<1>9. TokensCover'
  <2> SUFFICES ASSUME NEW a \in Addrs, a \notin unchecked', a \notin negative'
               PROVE  Promised(a)' <= tokens'[a]
    BY DEF TokensCover
  <2>1. Checked(a)
    BY <1>5, <1>6 DEF Checked
  <2>2. CASE a = sender
    <3>1. a = from
      BY <1>4, <2>2
    <3>2. Promised(a) + amount <= tokens[a]
      BY <1>2, <2>1, <3>1 DEF Inv, RequestKnows
    <3> QED BY <1>6, <2>2, <3>2
  <2>3. CASE a # sender
    <3>1. Promised(a) <= tokens[a]
      BY <2>1 DEF Inv, TokensCover, Checked
    <3> QED BY <1>6, <2>3, <3>1
  <2> QED BY <2>2, <2>3
<1> QED BY <1>6, <1>7, <1>8, <1>9 DEF Inv

LEMMA SendSignedKeeps == ASSUME Inv, SendSigned PROVE Inv'
<1>1. PICK sender \in Addrs, n \in Paid :
        Transfer(sender, Out, n) /\ unchecked' = unchecked \cup {sender}
  BY DEF SendSigned
<1>2. UNCHANGED <<request, balanceQuery>>
  BY DEF SendSigned
<1>3. n \in Int /\ n <= All
  <2>1. n \in -MaxInt - 1 .. All /\ MaxInt \in Nat /\ All \in Nat
    BY OmniAmounts, OmniIntegers, OmniRange
  <2> QED BY <2>1
<1>4. unchecked \subseteq unchecked' /\ Out \in Addrs \cup {Out}
  BY <1>1
<1>5. /\ mempool' \in Seq(Tx) /\ made' \in 0 .. MaxTxs /\ tokens' = tokens
      /\ Bounds' /\ QueryKnows' /\ meanwhile' \subseteq {"sent", "confirmed", "evicted"}
      /\ negative' \subseteq Addrs /\ negative \subseteq negative'
      /\ \A a : a # sender => Promised(a)' = Promised(a)
  BY <1>1, <1>2, <1>3, <1>4, Transferred
<1>6. TypeOK'
  BY <1>1, <1>2, <1>5 DEF Inv, TypeOK, request, balanceQuery
<1>7. ASSUME NEW a, a \notin unchecked', a \notin negative' PROVE Checked(a) /\ Promised(a)' = Promised(a)
  BY <1>1, <1>5, <1>7 DEF Checked
<1>8. TokensCover'
  BY <1>5, <1>7 DEF Inv, TokensCover, Checked
<1>9. RequestKnows'
  <2>1. pc' = pc /\ from' = from /\ asked' = asked /\ amount' = amount /\ pendingAmount' = pendingAmount
    BY <1>2 DEF request
  <2>2. from \notin unchecked' /\ from \notin negative' => Checked(from) /\ (Promised(from))' = Promised(from)
    <3>1. from \notin unchecked' /\ from \notin negative' => Checked(from) /\ Owed(mempool', from) = Promised(from)
      BY <1>7, PromisedIsOwed
    <3> QED BY <2>1, <3>1, PromisedIsOwed
  <2>3. (Checked(from))' => Checked(from) /\ (Promised(from))' = Promised(from)
    BY <2>1, <2>2 DEF Checked
  <2> QED BY <1>5, <2>1, <2>3 DEF Inv, RequestKnows, Understood
<1> QED BY <1>5, <1>6, <1>8, <1>9 DEF Inv

LEMMA ForeignKeeps == ASSUME Inv, Foreign PROVE Inv'
<1>1. PICK t \in [from : {Out}, to : Addrs, amount : Paid \cap Nat, usdt : {TRUE}]
                 \cup [from : Addrs, to : {Out}, amount : Paid \cap Nat, usdt : {FALSE}] : Broadcast(t)
  BY DEF Foreign
<1>2. UNCHANGED <<request, balanceQuery, meanwhile, past>> /\ tokens' = tokens
  BY <1>1 DEF Foreign, Broadcast
<1>3. /\ t.amount \in Paid /\ t.amount \in Nat /\ t.from \in Addrs \cup {Out} /\ (t.from = Out \/ ~t.usdt)
      /\ t \in [from : Addrs \cup {Out}, to : Addrs \cup {Out}, amount : Nat, usdt : BOOLEAN]
  OBVIOUS
<1>4. t \in Tx /\ t.amount \in 0 .. All
  <2>1. t.amount \in -MaxInt - 1 .. All /\ MaxInt \in Nat /\ All \in Nat
    BY <1>3, OmniAmounts, OmniIntegers, OmniRange
  <2>2. t \in Tx
    BY <1>3 DEF Tx
  <2> QED BY <1>3, <2>1, <2>2
<1>5. mempool' \in Seq(Tx) /\ made' \in 0 .. MaxTxs /\ Bounds' /\ \A a : Promised(a)' = Promised(a) + Share(t, a)
  BY <1>1, <1>2, <1>4, Joins DEF Inv, past
<1>6. ASSUME NEW a \in Addrs PROVE Owed(mempool', a) = Promised(a)
  <2>1. Share(t, a) = 0
    BY <1>3, OmniAddresses DEF Share
  <2>2. Owed(mempool', a) = Promised(a) + 0
    BY <1>5, <2>1, PromisedIsOwed
  <2>3. Promised(a) \in Int
    BY PromisedIsInt DEF Inv
  <2> QED BY <2>2, <2>3
<1>7. TypeOK'
  BY <1>2, <1>5 DEF Inv, TypeOK, request, balanceQuery, past
<1>8. TokensCover'
  BY <1>2, <1>6, PromisedIsOwed DEF Inv, TokensCover, past
<1>9. RequestKnows'
  <2>1. /\ pc' = pc /\ from' = from /\ asked' = asked /\ amount' = amount /\ pendingAmount' = pendingAmount
        /\ unchecked' = unchecked /\ negative' = negative
    BY <1>2 DEF request, past
  <2>2. pc \in {"balance", "send"} => (Promised(from))' = Promised(from)
    <3>1. pc \in {"balance", "send"} => from \in Addrs
      BY DEF Inv, RequestKnows
    <3> QED BY <1>6, <2>1, <3>1, PromisedIsOwed
  <2> QED BY <1>2, <2>1, <2>2 DEF Inv, RequestKnows, Understood, Checked
<1>10. QueryKnows'
  <2>1. query' = query /\ address' = address /\ pendingRead' = pendingRead /\ meanwhile' = meanwhile
    BY <1>2 DEF balanceQuery
  <2>2. query = "balance" => (Promised(address))' = Promised(address)
    <3>1. query = "balance" => address \in Addrs
      BY DEF Inv, QueryKnows
    <3> QED BY <1>6, <2>1, <3>1, PromisedIsOwed
  <2> QED BY <1>2, <2>1, <2>2 DEF Inv, QueryKnows, Exact, past
<1> QED BY <1>5, <1>7, <1>8, <1>9, <1>10 DEF Inv

\* A transfer takes from its sender what it has promised and not more.
LEMMA MovedFact ==
    ASSUME NEW t \in Tx, tokens \in [Addrs -> Nat], t.from \notin negative => t.amount \in 0 .. All
    PROVE  /\ Moved(t) \in [Addrs -> Nat]
           /\ \A a \in Addrs \ negative : Moved(t)[a] >= tokens[a] - Share(t, a)
<1> DEFINE valid == t.usdt /\ t.amount >= 0 /\ (t.from = Out \/ tokens[t.from] >= t.amount)
           Taken(a) == IF valid /\ a = t.from THEN t.amount ELSE 0
           Given(a) == IF valid /\ a = t.to THEN t.amount ELSE 0
<1>1. Moved(t) = [a \in Addrs |-> tokens[a] - Taken(a) + Given(a)]
  BY DEF Moved
<1>2. t.amount \in Int /\ (valid => t.amount \in Nat)
  BY DEF Tx
<1>3. ASSUME NEW a \in Addrs
      PROVE  /\ tokens[a] \in Nat /\ Given(a) \in Nat /\ Taken(a) \in Nat /\ Taken(a) <= tokens[a]
             /\ Share(t, a) \in Int /\ (a \notin negative => Taken(a) <= Share(t, a))
  <2>1. tokens[a] \in Nat /\ Share(t, a) \in Int
    BY ShareIsInt
  <2>2. Given(a) \in Nat
    <3> HIDE DEF valid
    <3> QED BY <1>2
  <2>3. CASE valid /\ a = t.from
    <3>1. Taken(a) = t.amount /\ Share(t, a) = t.amount
      BY <2>3 DEF Share
    <3>2. t.amount <= tokens[a]
      BY <1>2, <2>1, <2>3, OmniAddresses
    <3> HIDE DEF Taken, Given, valid
    <3> QED BY <1>2, <2>1, <2>2, <2>3, <3>1, <3>2
  <2>4. CASE ~(valid /\ a = t.from)
    <3>1. Taken(a) = 0
      BY <2>4
    <3>2. a \notin negative => Share(t, a) \in Nat
      BY ShareIsProper
    <3> HIDE DEF Taken, Given, valid
    <3> QED BY <2>1, <2>2, <3>1, <3>2
  <2> QED BY <2>3, <2>4
<1> HIDE DEF Taken, Given, valid
<1>4. ASSUME NEW a \in Addrs
      PROVE  Moved(t)[a] \in Nat /\ (a \notin negative => Moved(t)[a] >= tokens[a] - Share(t, a))
  <2>1. Moved(t)[a] = tokens[a] - Taken(a) + Given(a)
    BY <1>1
  <2> DEFINE p == Taken(a)
             q == Given(a)
             s == Share(t, a)
             n == tokens[a]
  <2>2. /\ n \in Nat /\ p \in Nat /\ q \in Nat /\ s \in Int /\ p <= n
        /\ a \notin negative => p <= s
        /\ Moved(t)[a] = (n - p) + q
    BY <1>3, <2>1
  <2> HIDE DEF p, q, s, n
  <2>3. (n - p) + q \in Nat /\ (a \notin negative => (n - p) + q >= n - s)
    BY <2>2
  <2> QED BY <2>2, <2>3 DEF n, s
<1> QED BY <1>1, <1>4

\* A transaction leaves the mempool, and no address loses more tokens than it
\* had promised with it.
LEMMA LeavingKeeps ==
    ASSUME Inv, NEW k \in 1 .. Len(mempool), Leaves(k),
           NEW event \in {"confirmed", "evicted"}, Happens(event, mempool[k]),
           UNCHANGED <<made, request, balanceQuery, past>>,
           tokens' \in [Addrs -> Nat],
           \A a \in Addrs : tokens'[a] <= All,
           \A a \in Addrs \ negative : tokens'[a] >= tokens[a] - Share(mempool[k], a)
    PROVE  Inv'
<1> DEFINE t == mempool[k]
<1>1. /\ mempool' \in Seq(Tx) /\ made' \in 0 .. MaxTxs /\ t \in Tx
      /\ \A j \in 1 .. Len(mempool') :
           mempool'[j].from \notin negative => mempool'[j].amount \in 0 .. All
      /\ Len(mempool') <= made' /\ (t.from \notin negative => t.amount \in 0 .. All)
      /\ \A a : Promised(a)' = Promised(a) - Share(t, a)
  BY Goes DEF Inv
<1>2. Happens(event, t) /\ \A a \in Addrs \ negative : tokens'[a] >= tokens[a] - Share(t, a)
  OBVIOUS
<1> HIDE DEF t
<1>3. Bounds'
  BY <1>1 DEF Bounds, past
<1>4. QueryKnows' /\ meanwhile' \subseteq {"sent", "confirmed", "evicted"}
  BY <1>1, <1>2, QueryToldOfLeaving
<1>5. TypeOK'
  BY <1>1, <1>4 DEF Inv, TypeOK, request, balanceQuery, past
<1>6. ASSUME NEW a \in Addrs, a \notin negative
      PROVE  /\ Owed(mempool', a) = Promised(a) - Share(t, a) /\ Promised(a) \in Nat /\ Share(t, a) \in Nat
             /\ tokens[a] \in Nat /\ tokens'[a] \in Nat
             /\ tokens'[a] >= tokens[a] - Share(t, a)
  <2>1. Promised(a) \in Nat
    BY <1>6, PromisedRange DEF Inv
  <2>2. tokens[a] \in Nat /\ tokens'[a] \in Nat
    BY DEF Inv, TypeOK
  <2>3. Share(t, a) \in Nat
    BY <1>1, <1>6, ShareIsProper
  <2> QED BY <1>1, <1>2, <1>6, <2>1, <2>2, <2>3, PromisedIsOwed
<1>7. TokensCover'
  <2> SUFFICES ASSUME NEW a \in Addrs, a \notin unchecked, a \notin negative PROVE Owed(mempool', a) <= tokens'[a]
    BY PromisedIsOwed DEF TokensCover, past
  <2>1. Promised(a) <= tokens[a]
    BY DEF Inv, TokensCover
  <2> DEFINE p == Promised(a)
             s == Share(t, a)
             n == tokens[a]
             l == tokens'[a]
             o == Owed(mempool', a)
  <2>2. o = p - s /\ p \in Nat /\ s \in Nat /\ n \in Nat /\ l \in Nat /\ l >= n - s /\ p <= n
    BY <1>6, <2>1
  <2> HIDE DEF p, s, n, l, o
  <2>3. o <= l
    BY <2>2
  <2> QED BY <2>3 DEF o, l
<1>8. RequestKnows'
  <2>1. /\ pc' = pc /\ from' = from /\ asked' = asked /\ amount' = amount /\ pendingAmount' = pendingAmount
        /\ unchecked' = unchecked /\ negative' = negative
    BY DEF request, past
  <2>2. (Promised(from))' = Owed(mempool', from)
    BY <2>1, PromisedIsOwed
  <2>3. /\ pc \in {"pending", "balance", "send"} => from \in Addrs
        /\ pc = "pending" => asked \in Requests /\ Understood(asked, amount)
        /\ pc = "refused" => /\ asked \in Requests
                             /\ ~(/\ IsInt(RightShift(asked, Places))
                                  /\ ParseInt(RightShift(asked, Places)) \in -MaxInt - 1 .. MaxInt)
        /\ pc = "balance" /\ Checked(from) => Promised(from) <= pendingAmount /\ pendingAmount <= All
        /\ pc = "send" => amount <= All
        /\ pc = "send" /\ Checked(from) => Promised(from) + amount <= tokens[from]
    BY DEF Inv, RequestKnows
  <2>4. ASSUME pc = "balance", Checked(from) PROVE Owed(mempool', from) <= pendingAmount
    <3>1. from \in Addrs /\ Promised(from) <= pendingAmount /\ pendingAmount \in Int
      <4>1. pendingAmount \in -MaxInt - 1 .. MaxInt /\ MaxInt \in Nat
        BY OmniIntegers DEF Inv, TypeOK
      <4> QED BY <2>3, <2>4, <4>1
    <3> DEFINE p == Promised(from)
               s == Share(t, from)
               o == Owed(mempool', from)
    <3>2. o = p - s /\ p \in Nat /\ s \in Nat /\ p <= pendingAmount
      BY <1>6, <2>4, <3>1 DEF Checked
    <3> HIDE DEF p, s, o
    <3>3. o <= pendingAmount
      BY <3>1, <3>2
    <3> QED BY <3>3 DEF o
  <2>5. ASSUME pc = "send", Checked(from) PROVE Owed(mempool', from) + amount <= tokens'[from]
    <3>1. from \in Addrs /\ Promised(from) + amount <= tokens[from] /\ amount \in Int
      <4>1. amount \in -MaxInt - 1 .. MaxInt /\ MaxInt \in Nat
        BY OmniIntegers DEF Inv, TypeOK
      <4> QED BY <2>3, <2>5, <4>1
    <3> DEFINE p == Promised(from)
               s == Share(t, from)
               n == tokens[from]
               l == tokens'[from]
               o == Owed(mempool', from)
    <3>2. /\ o = p - s /\ p \in Nat /\ s \in Nat /\ n \in Nat /\ l \in Nat /\ l >= n - s
          /\ p + amount <= n
      BY <1>6, <2>5, <3>1 DEF Checked
    <3> HIDE DEF p, s, n, l, o
    <3>3. o + amount <= l
      BY <3>1, <3>2
    <3> QED BY <3>3 DEF o, l
  <2> QED BY <2>1, <2>2, <2>3, <2>4, <2>5 DEF RequestKnows, Understood, Checked
<1> QED BY <1>3, <1>4, <1>5, <1>7, <1>8 DEF Inv

LEMMA ConfirmKeeps == ASSUME Inv, Confirm PROVE Inv'
<1>1. PICK k \in 1 .. Len(mempool) :
        /\ Leaves(k) /\ Happens("confirmed", mempool[k])
        /\ tokens' = Moved(mempool[k]) /\ \A a \in Addrs : tokens'[a] <= All
  BY DEF Confirm
<1>2. UNCHANGED <<made, request, balanceQuery, past>>
  BY DEF Confirm
<1>3. /\ tokens \in [Addrs -> Nat] /\ mempool[k] \in Tx
      /\ mempool[k].from \notin negative => mempool[k].amount \in 0 .. All
  <2>1. mempool \in Seq(Tx) /\ tokens \in [Addrs -> Nat]
    BY DEF Inv, TypeOK
  <2> QED BY <2>1 DEF Inv, Bounds
<1>4. /\ tokens' \in [Addrs -> Nat]
      /\ \A a \in Addrs : tokens'[a] <= All
      /\ \A a \in Addrs \ negative : tokens'[a] >= tokens[a] - Share(mempool[k], a)
  BY <1>1, <1>3, MovedFact
<1>5. "confirmed" \in {"confirmed", "evicted"}
  OBVIOUS
<1> QED BY <1>1, <1>2, <1>4, <1>5, LeavingKeeps

LEMMA EvictKeeps == ASSUME Inv, Evict PROVE Inv'
<1>1. PICK k \in 1 .. Len(mempool) : Leaves(k) /\ Happens("evicted", mempool[k])
  BY DEF Evict
<1>2. UNCHANGED <<tokens, made, request, balanceQuery, past>>
  BY DEF Evict
<1>3. /\ mempool[k] \in Tx /\ tokens \in [Addrs -> Nat] /\ \A a \in Addrs : tokens[a] <= All
      /\ mempool[k].from \notin negative => mempool[k].amount \in 0 .. All
  <2>1. mempool \in Seq(Tx) /\ tokens \in [Addrs -> Nat]
    BY DEF Inv, TypeOK
  <2> QED BY <2>1 DEF Inv, Bounds
<1>4. /\ tokens' \in [Addrs -> Nat]
      /\ \A a \in Addrs : tokens'[a] <= All
      /\ \A a \in Addrs \ negative : tokens'[a] >= tokens[a] - Share(mempool[k], a)
  <2>1. ASSUME NEW a \in Addrs \ negative PROVE tokens[a] >= tokens[a] - Share(mempool[k], a)
    <3> DEFINE s == Share(mempool[k], a)
               n == tokens[a]
    <3>1. s \in Nat /\ n \in Nat
      BY <1>3, ShareIsProper
    <3> HIDE DEF s, n
    <3>2. n >= n - s
      BY <3>1
    <3> QED BY <3>2 DEF n, s
  <2> QED BY <1>2, <1>3, <2>1
<1>5. "evicted" \in {"confirmed", "evicted"}
  OBVIOUS
<1> QED BY <1>1, <1>2, <1>4, <1>5, LeavingKeeps

LEMMA QueryKeeps == ASSUME Inv, Query PROVE Inv'
<1>1. UNCHANGED <<node, request, past>>
  BY DEF Query
<1>2. Bounds' /\ RequestKnows' /\ TokensCover'
  BY <1>1, QueryAlone
<1>3. TypeOK' /\ QueryKnows'
  BY DEF Query, Inv, TypeOK, QueryKnows, node, request, past
<1> QED BY <1>2, <1>3 DEF Inv

LEMMA QueryPendingKeeps == ASSUME Inv, QueryPending PROVE Inv'
<1>1. UNCHANGED <<node, request, past>>
  BY DEF QueryPending
<1>2. Bounds' /\ RequestKnows' /\ TokensCover'
  BY <1>1, QueryAlone
<1>3. /\ query = "pending" /\ query' = "balance" /\ pendingRead' = PendingOf(address)
      /\ address' = address /\ meanwhile' = meanwhile
  BY DEF QueryPending
<1>4. address \in Addrs
  BY <1>3 DEF Inv, QueryKnows
<1>5. (Promised(address))' = Promised(address)
  BY <1>1, <1>3, PromisedIsOwed DEF node
<1>6. QueryKnows'
  <2>1. Exact(address) => /\ PendingOf(address) = Promised(address)
                          /\ Promised(address) \in 0 .. MaxInt /\ Promised(address) <= Promised(address)
    BY <1>4, PendingRead DEF Inv
  <2> QED BY <1>1, <1>3, <1>4, <1>5, <2>1 DEF QueryKnows, Exact, past
<1>7. TypeOK'
  <2>1. pendingRead' \in -MaxInt - 1 .. MaxInt
    BY <1>3, PendingIsInt DEF Inv
  <2> QED BY <1>1, <1>3, <2>1 DEF Inv, TypeOK, node, request, past
<1> QED BY <1>2, <1>6, <1>7 DEF Inv

LEMMA QueryEndsKeeps == ASSUME Inv, QueryEnds PROVE Inv'
<1>1. UNCHANGED <<node, request, past>>
  BY DEF QueryEnds
<1>2. Bounds' /\ RequestKnows' /\ TokensCover'
  BY <1>1, QueryAlone
<1>3. 0 \in -MaxInt - 1 .. MaxInt
  BY OmniIntegers
<1>4. TypeOK' /\ QueryKnows'
  BY <1>3 DEF QueryEnds, Inv, TypeOK, QueryKnows, node, request, past
<1> QED BY <1>2, <1>4 DEF Inv

LEMMA StutterKeeps == ASSUME Inv, UNCHANGED vars PROVE Inv'
<1>1. UNCHANGED <<node, request, past>> /\ UNCHANGED <<balanceQuery, meanwhile>>
  BY DEF vars
<1>2. Bounds' /\ RequestKnows' /\ TokensCover'
  BY <1>1, QueryAlone
<1>3. QueryKnows'
  BY <1>1, RequestAlone
<1>4. TypeOK'
  BY <1>1 DEF Inv, TypeOK, node, request, balanceQuery, past
<1> QED BY <1>2, <1>3, <1>4 DEF Inv

\* The invariant holds in every reachable state.
LEMMA InvHolds == Spec => []Inv
<1>1. Init => Inv
  BY InitInv
<1>2. ASSUME Inv, [Next]_vars PROVE Inv'
  BY <1>2, AskKeeps, FailKeeps, ReadPendingKeeps, ReadBalanceKeeps, SendKeeps, SendSignedKeeps,
     QueryKeeps, QueryPendingKeeps, QueryEndsKeeps, ForeignKeeps, ConfirmKeeps, EvictKeeps,
     StutterKeeps DEF Next
<1> QED BY <1>1, <1>2, PTL DEF Spec

-----------------------------------------------------------------------------
(* The theorems.                                                             *)

\* All amounts stay within an int64 and all steps within their states: an
\* amount out of range is refused (SendOmniCoinHandler).
THEOREM TypeOKCorrect == Spec => []TypeOK
  BY InvHolds, PTL DEF Inv

\* No checked transfer lacks its tokens: an address that sent none without the
\* check, and no negative amount, has what it has promised, whatever is
\* confirmed, dropped or received between the two reads of
\* SendOmniCoinHandler and before its transfer is sent.
THEOREM TokensCoverCorrect == Spec => []TokensCover
  BY InvHolds, PTL DEF Inv

\* What the balance query answers.  If the address has sent something since
\* the first read, nothing is claimed.
LEMMA Replies ==
    ASSUME Inv, query = "balance" /\ address \notin negative => Exact(address)
    PROVE  BalanceReplies
<1> SUFFICES ASSUME query = "balance", address \notin negative, "sent" \notin meanwhile
             PROVE  LET left == tokens[address] - Promised(address)
                    IN  /\ meanwhile = {} =>
                             IF left >= 0 THEN Denotes(Reply, left, Places) ELSE ~IsNumeral(Reply)
                        /\ IsNumeral(Reply) => Value(Reply, Places) <= left
  BY DEF BalanceReplies
<1> DEFINE left == tokens[address] - Promised(address)
           d == tokens[address] - pendingRead
<1>1. /\ address \in Addrs /\ pendingRead \in 0 .. MaxInt
      /\ Promised(address) <= pendingRead
      /\ meanwhile = {} => Promised(address) = pendingRead
  BY DEF Inv, QueryKnows
<1>2. /\ tokens[address] \in Nat /\ tokens[address] \in 0 .. MaxInt
      /\ MaxInt \in Nat /\ Places \in Nat \ {0}
  <2>1. tokens[address] \in Nat /\ tokens[address] <= All
    BY <1>1 DEF Inv, TypeOK, Bounds
  <2> QED BY <2>1, OmniIntegers, OmniRange
<1>3. Promised(address) \in Nat
  BY PromisedRange DEF Inv
<1>4. d \in Int /\ d \in -MaxInt - 1 .. MaxInt
  BY <1>1, <1>2
<1>5. BalanceOf(address) = tokens[address]
  BY <1>2, ReadFact DEF BalanceOf
<1>6. Wrap(BalanceOf(address) - pendingRead) = d
  <2>1. BalanceOf(address) - pendingRead = d
    BY <1>5
  <2> HIDE DEF d
  <2> QED BY <1>4, <2>1, WrapFact
<1>7. Reply = LeftShift(String(d), Places)
  BY <1>6 DEF Reply
<1>8. d <= left /\ left \in Int
  BY <1>1, <1>2, <1>3
<1>9. meanwhile = {} => d = left
  BY <1>1
<1> HIDE DEF d, left
<1>10. d \in Nat => Denotes(Reply, d, Places)
  BY <1>2, <1>7, TextMeans
<1>11. ~(d \in Nat) => ~IsNumeral(Reply)
  <2>1. ~(d \in Nat) => d < 0
    BY <1>4
  <2> QED BY <1>2, <1>4, <1>7, <2>1, NegativeText
<1>12. meanwhile = {} => IF left >= 0 THEN Denotes(Reply, left, Places) ELSE ~IsNumeral(Reply)
  <2>1. left >= 0 => left \in Nat
    BY <1>8
  <2>2. ~(left >= 0) => ~(left \in Nat)
    BY <1>8
  <2> QED BY <1>9, <1>10, <1>11, <2>1, <2>2, Zenon
<1>13. IsNumeral(Reply) => Value(Reply, Places) <= left
  <2>1. IsNumeral(Reply) => Value(Reply, Places) = d
    BY <1>10, <1>11 DEF Denotes, Value, IsNumeral
  <2> QED BY <1>8, <2>1
<1> QED BY <1>12, <1>13 DEF left

\* The balance query about an address that sends only with the check, and no
\* negative amount, answers the tokens not promised, or less if something left
\* the mempool between its reads; more only if something was sent meanwhile.
THEOREM CheckedRepliesCorrect == Spec => [](address \notin unchecked => BalanceReplies)
<1>1. Inv => (address \notin unchecked => BalanceReplies)
  BY Replies DEF Exact
<1> QED BY <1>1, InvHolds, PTL

\* For an address that sends without the check, but no negative amount, so too,
\* unless there are so many transactions that the sum of the pending ones
\* overflows; if it has promised more than it has, the answer is no amount.
THEOREM BalanceRepliesCorrect ==
    ASSUME Few
    PROVE  Spec => []BalanceReplies
<1>1. Inv => BalanceReplies
  BY Replies DEF Exact
<1> QED BY <1>1, InvHolds, PTL

\* The amount that SendOmniCoinHandler reads from a request without a sign is
\* the one the client wrote, and it refuses only what is no number, too precise
\* or too large.
THEOREM AmountMeantCorrect == Spec => []AmountMeant
<1>1. Inv => AmountMeant
  <2> SUFFICES ASSUME Inv, Plain(asked)
               PROVE  /\ pc = "pending" /\ asked = <<".">> => amount = 0
                      /\ pc = "pending" /\ asked # <<".">> =>
                           /\ Denotes(asked, amount, Places)
                           /\ Denotes(LeftShift(asked, Places), amount, 2 * Places)
                      /\ pc = "refused" =>
                           ~(IsNumeral(asked) /\ Fraction(asked) <= Places /\ Value(asked, Places) <= MaxInt)
    BY DEF AmountMeant
  <2> DEFINE n == ParseInt(RightShift(asked, Places))
  <2>1. ASSUME pc = "pending"
        PROVE  /\ asked = <<".">> => amount = 0
               /\ asked # <<".">> => /\ Denotes(asked, amount, Places)
                                     /\ Denotes(LeftShift(asked, Places), amount, 2 * Places)
    <3>1. IsInt(RightShift(asked, Places)) /\ amount = n
      BY <2>1 DEF Inv, RequestKnows, Understood
    <3> QED BY <3>1, RequestRead
  <2>2. ASSUME pc = "refused", IsNumeral(asked), Fraction(asked) <= Places, Value(asked, Places) <= MaxInt
        PROVE  FALSE
    <3>1. ~(IsInt(RightShift(asked, Places)) /\ n \in -MaxInt - 1 .. MaxInt)
      BY <2>2 DEF Inv, RequestKnows
    <3>2. IsInt(RightShift(asked, Places)) /\ n = Value(asked, Places) /\ n \in Nat
      BY <2>2, RequestRead
    <3> HIDE DEF n
    <3>3. n \in -MaxInt - 1 .. MaxInt
      BY <2>2, <3>2, OmniIntegers
    <3> QED BY <3>1, <3>2, <3>3
  <2> QED BY <2>1, <2>2
<1> QED BY <1>1, InvHolds, PTL
=============================================================================
