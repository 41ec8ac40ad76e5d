--------------------------- MODULE FundFlowProofs ---------------------------
(* Theorems about FundFlow for every value of its constants, with proofs.    *)
(* What TxParserProofs shows of one call of ParseTransaction holds here,     *)
(* too: FlowSpec implements Spec.                                            *)
EXTENDS FundFlow, TxParserProofs, FiniteSetTheorems

\* Seen from the parser, the Notifier's steps are stuttering steps: nothing
\* it does, and no restart, changes what ParseTransaction reported.
THEOREM FlowImplementsParser == FlowSpec => Spec
<1>1. FlowInit => Init
  BY DEF FlowInit
<1>2. [FlowNext]_<<vars, flow>> => [Next]_vars
  <2> SUFFICES ASSUME [FlowNext]_<<vars, flow>> PROVE [Next]_vars
    OBVIOUS
  <2>1. CASE Parse
    BY <2>1 DEF Parse
  <2>2. CASE Deliver \/ Take \/ StatusKnown \/ StatusFails \/ Tell \/ TellFails
    BY <2>2 DEF Deliver, Take, StatusKnown, StatusFails, Tell, TellFails
  <2>3. CASE LookUpUser \/ LookUpUserFails \/ LookUpCoin \/ LookUpCoinFails
    BY <2>3 DEF LookUpUser, LookUpUserFails, LookUpCoin, LookUpCoinFails
  <2>4. CASE SaveFlow \/ SaveFails \/ Restart \/ FlowDone \/ UNCHANGED <<vars, flow>>
    BY <2>4 DEF SaveFlow, SaveFails, Restart, FlowDone
  <2> QED BY <2>1, <2>2, <2>3, <2>4 DEF FlowNext
<1> QED BY <1>1, <1>2, PTL DEF FlowSpec, Spec

-----------------------------------------------------------------------------
(* Lists of calls and bookings.                                              *)

IsList(s) == s \in Seq(ToSet(s))

\* A list with one more entry.
LEMMA Appended ==
    ASSUME NEW s, IsList(s), NEW x
    PROVE  /\ IsList(Append(s, x))
           /\ Len(s) \in Nat /\ Len(Append(s, x)) = Len(s) + 1
           /\ \A k \in 1 .. Len(s) : Append(s, x)[k] = s[k]
           /\ Append(s, x)[Len(s) + 1] = x
<1> DEFINE S == ToSet(s) \cup {x}
           t == Append(s, x)
<1>1. s \in Seq(S)
  <2> HIDE DEF S
  <2>1. ToSet(s) \subseteq S
    BY DEF S
  <2> QED BY <2>1, SeqMonotonic DEF IsList
<1>2. x \in S
  OBVIOUS
<1> HIDE DEF S
<1>3. /\ t \in Seq(S) /\ Len(s) \in Nat /\ Len(t) = Len(s) + 1
      /\ \A k \in 1 .. Len(s) : t[k] = s[k]
      /\ t[Len(s) + 1] = x
  BY <1>1, <1>2
<1> HIDE DEF t
<1>4. t \in Seq(ToSet(t))
  <2>1. DOMAIN t = 1 .. Len(t) /\ Len(t) \in Nat /\ \A k \in 1 .. Len(t) : t[k] \in ToSet(t)
    BY <1>3 DEF ToSet
  <2>2. t \in UNION {[1 .. l -> S] : l \in Nat}
    BY <1>3, SeqDef, Zenon
  <2>3. t \in [1 .. Len(t) -> ToSet(t)]
    BY <2>1, <2>2
  <2>4. t \in UNION {[1 .. l -> ToSet(t)] : l \in Nat}
    BY <2>1, <2>3
  <2> QED BY <2>4, SeqDef, Zenon
<1> QED BY <1>3, <1>4 DEF IsList, t

\* An entry of the longer list is an old one or the new one.
LEMMA AppendedEntry ==
    ASSUME NEW s, IsList(s), NEW x, NEW k \in 1 .. Len(Append(s, x))
    PROVE  Append(s, x)[k] = x \/ (k \in 1 .. Len(s) /\ Append(s, x)[k] = s[k])
<1>1. Len(s) \in Nat /\ Len(Append(s, x)) = Len(s) + 1
  BY Appended
<1>2. k \in 1 .. Len(s) \/ k = Len(s) + 1
  BY <1>1
<1> QED BY <1>2, Appended

\* The entries that name message j, when one is appended.
LEMMA OfAppended ==
    ASSUME NEW s, IsList(s), NEW x, NEW j
    PROVE  /\ Cardinality(Of(s, j)) \in Nat
           /\ x.msg # j => Of(Append(s, x), j) = Of(s, j)
           /\ x.msg = j => Cardinality(Of(Append(s, x), j)) = Cardinality(Of(s, j)) + 1
           /\ x.msg = j => Of(Append(s, x), j) # {}
<1> DEFINE t == Append(s, x)
<1>1. /\ Len(s) \in Nat /\ Len(t) = Len(s) + 1
      /\ \A k \in 1 .. Len(s) : t[k] = s[k]
      /\ t[Len(t)] = x
  BY Appended
<1> HIDE DEF t
<1>2. Of(t, j) = IF x.msg = j THEN Of(s, j) \cup {Len(t)} ELSE Of(s, j)
  BY <1>1 DEF Of
<1>3. Len(t) \notin Of(s, j) /\ Of(s, j) \subseteq 1 .. Len(s)
  BY <1>1 DEF Of
<1>4. IsFiniteSet(Of(s, j))
  <2>1. IsFiniteSet(1 .. Len(s))
    BY <1>1, FS_Interval
  <2> QED BY <1>3, <2>1, FS_Subset
<1>5. /\ Cardinality(Of(s, j)) \in Nat
      /\ Cardinality(Of(s, j) \cup {Len(t)}) = Cardinality(Of(s, j)) + 1
  BY <1>3, <1>4, FS_CardinalityType, FS_AddElement
<1> QED BY <1>2, <1>5 DEF t

\* Nothing names a message yet.
LEMMA OfEmpty ==
    ASSUME NEW j
    PROVE  Of(<<>>, j) = {} /\ Cardinality(Of(<<>>, j)) = 0
  BY FS_EmptySet DEF Of

\* The rows booked of a message name it.
LEMMA RowsFact == /\ Rows.msg = n
                  /\ Rows.coinID = coinIds[messages[n].coin]
                  /\ Rows.user = user
  BY DEF Rows, DepositRows, WithdrawRows, Booking, m

\* The Notifier begins when the parser is done.
LEMMA FlowSteps ==
    ASSUME FlowNext, NotifierOK
    PROVE  Parse \/ UNCHANGED vars
  BY DEF FlowNext, Deliver, Take, StatusKnown, StatusFails, Tell, TellFails, LookUpUser,
         LookUpUserFails, LookUpCoin, LookUpCoinFails, SaveFlow, SaveFails, Restart, FlowDone

-----------------------------------------------------------------------------
LEMMA FlowTypesInit == FlowInit => FlowTypeOK
<1> SUFFICES ASSUME FlowInit PROVE FlowTypeOK
  OBVIOUS
<1>1. NotifierOK
  BY DEF FlowInit, Init, NotifierOK
<1>2. CoinIdsOK
  BY DEF FlowInit, CoinIdsOK
<1>3. AccountsOK
  BY DEF FlowInit, AccountsOK, Entries
<1>4. CountsOK
  BY FlowBounds DEF FlowInit, CountsOK
<1> QED BY <1>1, <1>2, <1>3, <1>4 DEF FlowTypeOK

LEMMA FlowTypesNext ==
    ParserInv /\ ParserInv' /\ FlowTypeOK /\ [FlowNext]_<<vars, flow>> => FlowTypeOK'
<1> SUFFICES ASSUME ParserInv, ParserInv', FlowTypeOK, [FlowNext]_<<vars, flow>> PROVE FlowTypeOK'
  OBVIOUS
<1>a. NotifierOK /\ CoinIdsOK /\ AccountsOK /\ CountsOK
  BY DEF FlowTypeOK
<1>b. /\ messages \in Seq(Msg) /\ messages' \in Seq(Msg) /\ Reported
      /\ Len(messages) \in Nat /\ Len(messages') \in Nat
  BY DEF ParserInv, TypeOK
<1>c. n \in Nat /\ n >= 1 /\ n <= Len(messages) + 1
  BY <1>a, <1>b DEF NotifierOK
<1>d. ASSUME Fault PROVE failed' \in 0 .. MaxFailed
  BY <1>a, <1>d, FlowBounds DEF Fault, CountsOK
<1>e. ASSUME UNCHANGED <<messages, npc, n, accounts>> PROVE AccountsOK'
  BY <1>a, <1>e DEF AccountsOK, Entries, accounts
<1>f. ASSUME UNCHANGED <<messages, accounts>>, npc # "off", npc' # "off" PROVE AccountsOK'
  BY <1>a, <1>f DEF AccountsOK, Entries, accounts
<1>g. ASSUME UNCHANGED <<vars, valid, recorded>>, npc \notin {"off", "take"}, Forget PROVE NotifierOK'
  BY <1>a, <1>b, <1>c, <1>g DEF NotifierOK, Forget, vars
<1>h. ASSUME Parse PROVE FlowTypeOK'
  <2>1. NotifierOK'
    BY <1>a, <1>b, <1>h DEF Parse, NotifierOK, AccountsOK, flow
  <2>2. AccountsOK'
    BY <1>a, <1>b, <1>h DEF Parse, AccountsOK, Entries, accounts, flow
  <2>3. CoinIdsOK' /\ CountsOK'
    BY <1>a, <1>h DEF Parse, CoinIdsOK, CountsOK, flow
  <2> QED BY <2>1, <2>2, <2>3 DEF FlowTypeOK
<1>1. CASE Deliver
  <2>1. NotifierOK'
    BY <1>a, <1>1 DEF Deliver, NotifierOK, vars
  <2>2. AccountsOK'
    BY <1>a, <1>1 DEF Deliver, AccountsOK, Entries, accounts, vars
  <2>3. CoinIdsOK' /\ CountsOK'
    BY <1>a, <1>1 DEF Deliver, CoinIdsOK, CountsOK
  <2> QED BY <2>1, <2>2, <2>3 DEF FlowTypeOK
<1>2. CASE Take
  <2>1. NotifierOK'
    BY <1>a, <1>2 DEF Take, NotifierOK, vars
  <2>2. AccountsOK'
    BY <1>f, <1>2 DEF Take, vars
  <2>3. CoinIdsOK' /\ CountsOK'
    BY <1>a, <1>2 DEF Take, CoinIdsOK, CountsOK
  <2> QED BY <2>1, <2>2, <2>3 DEF FlowTypeOK
<1>3. CASE StatusKnown
  <2>1. NotifierOK'
    <3>1. CASE valid
      BY <1>a, <1>3, <3>1 DEF StatusKnown, NotifierOK, vars
    <3>2. CASE ~valid
      BY <1>g, <1>3, <3>2 DEF StatusKnown
    <3> QED BY <3>1, <3>2
  <2>2. AccountsOK'
    BY <1>f, <1>3 DEF StatusKnown, Forget, vars
  <2>3. CoinIdsOK' /\ CountsOK'
    BY <1>a, <1>3 DEF StatusKnown, CoinIdsOK, CountsOK
  <2> QED BY <2>1, <2>2, <2>3 DEF FlowTypeOK
<1>4. CASE StatusFails
  <2>1. NotifierOK'
    BY <1>g, <1>4 DEF StatusFails
  <2>2. AccountsOK'
    BY <1>f, <1>4 DEF StatusFails, Forget, vars
  <2>3. CoinIdsOK' /\ CountsOK'
    BY <1>a, <1>d, <1>4 DEF StatusFails, CoinIdsOK, CountsOK
  <2> QED BY <2>1, <2>2, <2>3 DEF FlowTypeOK
<1>5. CASE Tell
  <2>1. NotifierOK'
    BY <1>a, <1>5 DEF Tell, NotifierOK, vars
  <2>2. AccountsOK'
    <3>1. CASE UNCHANGED told
      BY <1>f, <1>5, <3>1 DEF Tell, accounts, vars
    <3>2. CASE ~(UNCHANGED told)
      <4>1. PICK x : told' = Append(told, x) /\ x.msg = n
        BY <1>5, <3>2 DEF Tell, Call
      <4>2. n \in 1 .. Len(messages') /\ UNCHANGED <<messages, rows>> /\ npc' # "off"
        BY <1>a, <1>c, <1>5 DEF Tell, NotifierOK, vars
      <4>3. Entries(told) /\ Entries(rows)
        BY <1>a DEF AccountsOK
      <4>4. Entries(told)'
        <5>1. IsList(told) /\ \A k \in 1 .. Len(told) : told[k].msg \in 1 .. Len(messages')
          BY <4>2, <4>3 DEF Entries, IsList
        <5>2. IsList(told')
          BY <4>1, <5>1, Appended
        <5>3. ASSUME NEW k \in 1 .. Len(told')
              PROVE  told'[k] = x \/ (k \in 1 .. Len(told) /\ told'[k] = told[k])
          BY <4>1, <5>1, AppendedEntry
        <5> QED BY <4>1, <4>2, <5>1, <5>2, <5>3 DEF Entries, IsList
      <4> QED BY <4>2, <4>3, <4>4 DEF AccountsOK, Entries
    <3> QED BY <3>1, <3>2
  <2>3. CoinIdsOK' /\ CountsOK'
    BY <1>a, <1>5 DEF Tell, CoinIdsOK, CountsOK
  <2> QED BY <2>1, <2>2, <2>3 DEF FlowTypeOK
<1>6. CASE TellFails
  <2>1. NotifierOK'
    BY <1>a, <1>6 DEF TellFails, NotifierOK, vars
  <2>2. AccountsOK'
    BY <1>f, <1>6 DEF TellFails, vars
  <2>3. CoinIdsOK' /\ CountsOK'
    BY <1>a, <1>d, <1>6 DEF TellFails, CoinIdsOK, CountsOK
  <2> QED BY <2>1, <2>2, <2>3 DEF FlowTypeOK
<1>i. npc \notin {"off", "take"} => UserOf(m) \in ExtAddrs \cup {Initiator, Operator, NoUser}
  <2>1. ASSUME npc \notin {"off", "take"} PROVE n \in DOMAIN messages
    BY <1>a, <1>b, <1>c, <2>1 DEF NotifierOK
  <2>2. ASSUME n \in DOMAIN messages, m.type = "USER_DEPOSIT" PROVE m.address \in ExtAddrs
    BY <1>b, <2>2 DEF Reported, m
  <2> QED BY <2>1, <2>2 DEF UserOf
<1>7. CASE LookUpUser
  <2>1. NotifierOK'
    <3>1. CASE Forget /\ npc' # "coin"
      BY <1>g, <1>7, <3>1 DEF LookUpUser
    <3>2. CASE npc' = "coin"
      <4>1. user' \in {NoUser, UserOf(m)} /\ UNCHANGED <<n, messages, pc, valid, recorded>> /\ npc = "user"
        BY <1>7, <3>2 DEF LookUpUser, Forget, vars
      <4> QED BY <1>a, <1>i, <3>2, <4>1 DEF NotifierOK
    <3> QED BY <1>7, <3>1, <3>2 DEF LookUpUser, Forget
  <2>2. AccountsOK'
    BY <1>f, <1>7 DEF LookUpUser, Forget, vars
  <2>3. CoinIdsOK' /\ CountsOK'
    BY <1>a, <1>7 DEF LookUpUser, CoinIdsOK, CountsOK
  <2> QED BY <2>1, <2>2, <2>3 DEF FlowTypeOK
<1>8. CASE LookUpUserFails
  <2>1. NotifierOK'
    <3>1. CASE NeedsUser(m)
      BY <1>g, <1>8, <3>1 DEF LookUpUserFails
    <3>2. CASE ~NeedsUser(m)
      <4>1. /\ npc' = "coin" /\ npc = "user" /\ user' \in {NoUser, UserOf(m)}
            /\ UNCHANGED <<n, messages, pc, valid, recorded>>
        BY <1>8, <3>2 DEF LookUpUserFails, vars
      <4> QED BY <1>a, <1>i, <4>1 DEF NotifierOK
    <3> QED BY <3>1, <3>2
  <2>2. AccountsOK'
    BY <1>f, <1>8 DEF LookUpUserFails, Forget, vars
  <2>3. CoinIdsOK' /\ CountsOK'
    BY <1>a, <1>d, <1>8 DEF LookUpUserFails, CoinIdsOK, CountsOK
  <2> QED BY <2>1, <2>2, <2>3 DEF FlowTypeOK
<1>9. CASE LookUpCoin
  <2>1. NotifierOK'
    BY <1>a, <1>9 DEF LookUpCoin, NotifierOK, vars
  <2>2. AccountsOK'
    BY <1>f, <1>9 DEF LookUpCoin, vars
  <2>3. CoinIdsOK'
    <3>1. m \in Msg
      BY <1>a, <1>b, <1>c, <1>9 DEF LookUpCoin, NotifierOK, m
    <3>2. m.coin \in Coins
      BY <3>1 DEF Msg, Coins
    <3> QED BY <1>a, <1>9, <3>2 DEF LookUpCoin, CoinIdsOK
  <2>4. CountsOK'
    BY <1>a, <1>9 DEF LookUpCoin, CountsOK
  <2> QED BY <2>1, <2>2, <2>3, <2>4 DEF FlowTypeOK
<1>10. CASE LookUpCoinFails
  <2>1. NotifierOK'
    BY <1>g, <1>10 DEF LookUpCoinFails
  <2>2. AccountsOK'
    BY <1>f, <1>10 DEF LookUpCoinFails, Forget, vars
  <2>3. CoinIdsOK' /\ CountsOK'
    BY <1>a, <1>d, <1>10 DEF LookUpCoinFails, CoinIdsOK, CountsOK
  <2> QED BY <2>1, <2>2, <2>3 DEF FlowTypeOK
<1>11. CASE SaveFlow \/ SaveFails
  <2>1. NotifierOK'
    BY <1>g, <1>11 DEF SaveFlow, SaveFails
  <2>2. AccountsOK'
    <3>1. CASE UNCHANGED rows
      BY <1>f, <1>11, <3>1 DEF SaveFlow, SaveFails, Forget, accounts, vars
    <3>2. CASE ~(UNCHANGED rows)
      <4>1. PICK x : rows' = Append(rows, x) /\ x.msg = n
        BY <1>11, <3>2, RowsFact DEF SaveFlow, SaveFails
      <4>2. n \in 1 .. Len(messages') /\ UNCHANGED <<messages, told>> /\ npc' # "off"
        BY <1>a, <1>c, <1>11 DEF SaveFlow, SaveFails, Forget, NotifierOK, vars
      <4>3. Entries(told) /\ Entries(rows)
        BY <1>a DEF AccountsOK
      <4>4. Entries(rows)'
        <5>1. IsList(rows) /\ \A k \in 1 .. Len(rows) : rows[k].msg \in 1 .. Len(messages')
          BY <4>2, <4>3 DEF Entries, IsList
        <5>2. IsList(rows')
          BY <4>1, <5>1, Appended
        <5>3. ASSUME NEW k \in 1 .. Len(rows')
              PROVE  rows'[k] = x \/ (k \in 1 .. Len(rows) /\ rows'[k] = rows[k])
          BY <4>1, <5>1, AppendedEntry
        <5> QED BY <4>1, <4>2, <5>1, <5>2, <5>3 DEF Entries, IsList
      <4> QED BY <4>2, <4>3, <4>4 DEF AccountsOK, Entries
    <3> QED BY <3>1, <3>2
  <2>3. CoinIdsOK' /\ CountsOK'
    BY <1>a, <1>d, <1>11 DEF SaveFlow, SaveFails, CoinIdsOK, CountsOK
  <2> QED BY <2>1, <2>2, <2>3 DEF FlowTypeOK
<1>12. CASE Restart
  <2>1. NotifierOK'
    BY <1>a, <1>b, <1>12 DEF Restart, NotifierOK, vars
  <2>2. AccountsOK'
    BY <1>f, <1>12 DEF Restart, vars
  <2>3. CoinIdsOK' /\ CountsOK'
    BY <1>a, <1>12, FlowBounds DEF Restart, CoinIdsOK, CountsOK
  <2> QED BY <2>1, <2>2, <2>3 DEF FlowTypeOK
<1>13. CASE FlowDone \/ UNCHANGED <<vars, flow>>
  <2>1. UNCHANGED <<vars, flow>>
    BY <1>13 DEF FlowDone
  <2>2. AccountsOK'
    BY <1>e, <2>1 DEF vars, flow
  <2> QED BY <1>a, <2>1, <2>2 DEF vars, flow, FlowTypeOK, NotifierOK, CoinIdsOK, CountsOK
<1> QED BY <1>h, <1>1, <1>2, <1>3, <1>4, <1>5, <1>6, <1>7, <1>8, <1>9, <1>10, <1>11, <1>12, <1>13
        DEF FlowNext

LEMMA FlowTypes == FlowSpec => [](ParserInv /\ FlowTypeOK)
<1>1. FlowSpec => []ParserInv
  BY FlowImplementsParser, ParserInvariant, PTL
<1> QED BY <1>1, FlowTypesInit, FlowTypesNext, PTL DEF FlowSpec

\* Every variable of the Notifier keeps its type: it never reads beyond the
\* messages and caches no currency's number but the one it has.
THEOREM FlowTypeCorrect == FlowSpec => []FlowTypeOK
  BY FlowTypes, PTL

-----------------------------------------------------------------------------
(* Nothing twice.                                                            *)

\* In each life of the process a message is told and booked once at most.
OncePerLife ==
    \A j \in Nat :
        /\ Cardinality(Of(rows, j)) <= restarts + (IF j < n THEN 1 ELSE 0)
        /\ Cardinality(Of(told, j)) <=
               restarts + (IF j < n \/ (j = n /\ npc \in {"user", "coin", "save"}) THEN 1 ELSE 0)

LEMMA OfFinite ==
    ASSUME NEW s, IsList(s), NEW j
    PROVE  Cardinality(Of(s, j)) \in Nat
  BY OfAppended

\* It goes on to be so while accounts and restarts stay as they are.
LEMMA OncePerLifeKept ==
    ASSUME FlowTypeOK, OncePerLife, UNCHANGED <<accounts, restarts>>,
           \/ n' = n /\ (npc \in {"user", "coin", "save"} => npc' \in {"user", "coin", "save"})
           \/ n' = n + 1
    PROVE  OncePerLife'
<1>1. n \in Int /\ restarts \in Int /\ IsList(rows) /\ IsList(told)
  BY DEF FlowTypeOK, NotifierOK, CountsOK, AccountsOK, Entries, IsList
<1>2. ASSUME NEW j \in Nat
      PROVE  /\ j < n => j < n'
             /\ j = n /\ npc \in {"user", "coin", "save"}
                  => j < n' \/ (j = n' /\ npc' \in {"user", "coin", "save"})
  BY <1>1
<1>3. \A j \in Nat : Cardinality(Of(rows, j)) \in Nat /\ Cardinality(Of(told, j)) \in Nat
  BY <1>1, OfFinite
<1> QED BY <1>1, <1>2, <1>3 DEF OncePerLife, accounts

LEMMA OncePerLifeNext ==
    FlowTypeOK /\ FlowTypeOK' /\ OncePerLife /\ [FlowNext]_<<vars, flow>> => OncePerLife'
<1> SUFFICES ASSUME FlowTypeOK, FlowTypeOK', OncePerLife, [FlowNext]_<<vars, flow>>
             PROVE  OncePerLife'
  OBVIOUS
<1>a. /\ n \in Nat /\ restarts \in Nat /\ IsList(rows) /\ IsList(told)
      /\ n' \in Nat /\ restarts' \in Nat
  BY DEF FlowTypeOK, NotifierOK, CountsOK, AccountsOK, Entries, IsList
<1>b. \A j \in Nat : Cardinality(Of(rows, j)) \in Nat /\ Cardinality(Of(told, j)) \in Nat
  BY <1>a, OfFinite
<1>1. CASE Parse
  <2>1. rows' = <<>> /\ told' = <<>>
    BY <1>1 DEF Parse, flow, FlowTypeOK, AccountsOK
  <2> QED BY <1>a, <2>1, OfEmpty DEF OncePerLife
<1>2. CASE Deliver \/ Take \/ StatusKnown \/ StatusFails
  BY <1>2, OncePerLifeKept DEF Deliver, Take, StatusKnown, StatusFails, Forget
<1>3. CASE Tell
  <2>1. CASE UNCHANGED told
    BY <1>3, <2>1, OncePerLifeKept DEF Tell, accounts
  <2>2. CASE ~(UNCHANGED told)
    <3>1. PICK x : told' = Append(told, x) /\ x.msg = n
      BY <1>3, <2>2 DEF Tell, Call
    <3>2. UNCHANGED <<n, rows, restarts>> /\ npc' = "user" /\ npc = "registry"
      BY <1>3 DEF Tell, Call
    <3>3. ASSUME NEW j \in Nat
          PROVE  /\ j # n => Of(told', j) = Of(told, j)
                 /\ j = n => Cardinality(Of(told', j)) = Cardinality(Of(told, j)) + 1
      <4>1. ASSUME j # n PROVE Of(told', j) = Of(told, j)
        BY <1>a, <3>1, <4>1, OfAppended
      <4>2. ASSUME j = n PROVE Cardinality(Of(told', j)) = Cardinality(Of(told, j)) + 1
        BY <1>a, <3>1, <4>2, OfAppended
      <4> QED BY <4>1, <4>2
    <3>4. ASSUME NEW j \in Nat
          PROVE  Cardinality(Of(told', j)) <= restarts' +
                   (IF j < n' \/ (j = n' /\ npc' \in {"user", "coin", "save"}) THEN 1 ELSE 0)
      <4>1. CASE j = n
        BY <1>a, <1>b, <3>2, <3>3, <4>1 DEF OncePerLife
      <4>2. CASE j # n
        BY <1>a, <1>b, <3>2, <3>3, <4>2 DEF OncePerLife
      <4> QED BY <4>1, <4>2
    <3> QED BY <3>2, <3>4 DEF OncePerLife
  <2> QED BY <2>1, <2>2
<1>4. CASE TellFails \/ LookUpCoin
  BY <1>4, OncePerLifeKept DEF TellFails, LookUpCoin, accounts
<1>5. CASE LookUpUser \/ LookUpUserFails \/ LookUpCoinFails
  BY <1>5, OncePerLifeKept DEF LookUpUser, LookUpUserFails, LookUpCoinFails, Forget
<1>6. CASE SaveFlow \/ SaveFails
  <2>1. CASE UNCHANGED rows
    BY <1>6, <2>1, OncePerLifeKept DEF SaveFlow, SaveFails, Forget, accounts
  <2>2. CASE ~(UNCHANGED rows)
    <3>1. PICK x : rows' = Append(rows, x) /\ x.msg = n
      BY <1>6, <2>2, RowsFact DEF SaveFlow, SaveFails
    <3>2. UNCHANGED <<told, restarts>> /\ n' = n + 1 /\ npc = "save"
      BY <1>6 DEF SaveFlow, SaveFails, Forget
    <3>3. ASSUME NEW j \in Nat
          PROVE  /\ j # n => Of(rows', j) = Of(rows, j)
                 /\ j = n => Cardinality(Of(rows', j)) = Cardinality(Of(rows, j)) + 1
      <4>1. ASSUME j # n PROVE Of(rows', j) = Of(rows, j)
        BY <1>a, <3>1, <4>1, OfAppended
      <4>2. ASSUME j = n PROVE Cardinality(Of(rows', j)) = Cardinality(Of(rows, j)) + 1
        BY <1>a, <3>1, <4>2, OfAppended
      <4> QED BY <4>1, <4>2
    <3>4. ASSUME NEW j \in Nat
          PROVE  Cardinality(Of(rows', j)) <= restarts' + (IF j < n' THEN 1 ELSE 0)
      <4>1. CASE j = n
        BY <1>a, <1>b, <3>2, <3>3, <4>1 DEF OncePerLife
      <4>2. CASE j # n
        BY <1>a, <1>b, <3>2, <3>3, <4>2 DEF OncePerLife
      <4> QED BY <4>1, <4>2
    <3>5. ASSUME NEW j \in Nat
          PROVE  Cardinality(Of(told', j)) <= restarts' +
                   (IF j < n' \/ (j = n' /\ npc' \in {"user", "coin", "save"}) THEN 1 ELSE 0)
      <4>1. j < n \/ j = n => j < n'
        BY <1>a, <3>2
      <4> QED BY <1>a, <1>b, <3>2, <4>1 DEF OncePerLife
    <3> QED BY <3>4, <3>5 DEF OncePerLife
  <2> QED BY <2>1, <2>2
<1>7. CASE Restart
  <2>1. restarts' = restarts + 1 /\ UNCHANGED <<told, rows>>
    BY <1>7 DEF Restart, accounts
  <2> QED BY <1>a, <1>b, <2>1 DEF OncePerLife
<1>8. CASE FlowDone \/ UNCHANGED <<vars, flow>>
  BY <1>8, OncePerLifeKept DEF FlowDone, flow
<1> QED BY <1>1, <1>2, <1>3, <1>4, <1>5, <1>6, <1>7, <1>8 DEF FlowNext

\* Nothing is told or booked twice but by a restart: a call that fails, or
\* whose answer is lost, is not made again.
THEOREM TwiceOnlyByRestartCorrect == FlowSpec => []TwiceOnlyByRestart
<1>1. FlowInit => OncePerLife
  BY OfEmpty DEF FlowInit, OncePerLife
<1>2. (ParserInv /\ FlowTypeOK) /\ (ParserInv /\ FlowTypeOK)' /\ OncePerLife
        /\ [FlowNext]_<<vars, flow>> => OncePerLife'
  BY OncePerLifeNext
<1>3. (ParserInv /\ FlowTypeOK) /\ OncePerLife => TwiceOnlyByRestart
  <2> SUFFICES ASSUME FlowTypeOK, OncePerLife, NEW j \in 1 .. Len(messages)
               PROVE  /\ Cardinality(Of(told, j)) <= 1 + restarts
                      /\ Cardinality(Of(rows, j)) <= 1 + restarts
    BY DEF TwiceOnlyByRestart
  <2>1. /\ restarts \in Nat /\ Cardinality(Of(told, j)) \in Nat /\ Cardinality(Of(rows, j)) \in Nat
        /\ j \in Nat
    BY OfFinite DEF FlowTypeOK, CountsOK, AccountsOK, Entries, IsList
  <2> QED BY <2>1 DEF OncePerLife
<1> QED BY <1>1, <1>2, <1>3, FlowTypes, PTL DEF FlowSpec

-----------------------------------------------------------------------------
(* The right account.                                                        *)

\* A cached number is that of its currency, and a message about to be booked
\* has its currency's number and its user.
LookedUp ==
    /\ \A c \in Coins : coinIds[c] \in {Absent, IdOf[c]}
    /\ npc = "save" => coinIds[m.coin] # Absent
    /\ npc \in {"coin", "save"} => BookedOn(m, user)

LEMMA LookedUpNext ==
    (ParserInv /\ FlowTypeOK) /\ LookedUp /\ [FlowNext]_<<vars, flow>> => LookedUp'
<1> SUFFICES ASSUME ParserInv, FlowTypeOK, LookedUp, [FlowNext]_<<vars, flow>> PROVE LookedUp'
  OBVIOUS
<1>a. /\ messages \in Seq(Msg) /\ NotifierOK /\ CoinIdsOK
      /\ failed \in Nat /\ Len(messages) \in Nat
  BY DEF ParserInv, TypeOK, FlowTypeOK, CountsOK
<1>b. npc \notin {"off", "take"} => m \in Msg /\ m.coin \in Coins
  <2>1. ASSUME npc \notin {"off", "take"} PROVE m \in Msg
    BY <1>a, <2>1 DEF NotifierOK, m
  <2> QED BY <2>1 DEF Msg, Coins
<1>c. ASSUME UNCHANGED coinIds, npc' \notin {"coin", "save"} PROVE LookedUp'
  BY <1>c DEF LookedUp
<1>1. CASE Parse
  BY <1>1, <1>c DEF Parse, flow, LookedUp
<1>2. CASE Deliver \/ Take \/ StatusKnown \/ StatusFails \/ Tell \/ TellFails
  BY <1>2, <1>c DEF Deliver, Take, StatusKnown, StatusFails, Tell, TellFails, Forget
<1>d. ASSUME UNCHANGED <<messages, n, recorded>>
      PROVE  m' = m /\ UserOf(m)' = UserOf(m) /\ Found(m)' = Found(m) /\ NeedsUser(m)' = NeedsUser(m)
  BY <1>d DEF m, UserOf, Found, NeedsUser
<1>3. CASE LookUpUser
  <2>1. CASE npc' = "take"
    BY <1>3, <1>c, <2>1 DEF LookUpUser
  <2>2. CASE npc' = "coin"
    <3>1. /\ UNCHANGED <<messages, n, recorded, coinIds>>
          /\ \/ Found(m) /\ user' = UserOf(m)
             \/ ~Found(m) /\ ~NeedsUser(m) /\ user' = NoUser
      BY <1>3, <2>2 DEF LookUpUser, Forget, vars
    <3>2. ~Found(m) => ~recorded
      BY DEF Found
    <3>3. BookedOn(m, user)'
      BY <1>d, <3>1, <3>2 DEF BookedOn
    <3> QED BY <2>2, <3>1, <3>3 DEF LookedUp
  <2> QED BY <1>3, <2>1, <2>2 DEF LookUpUser, Forget
<1>4. CASE LookUpUserFails
  <2>1. CASE NeedsUser(m)
    BY <1>4, <1>c, <2>1 DEF LookUpUserFails, Forget
  <2>2. CASE ~NeedsUser(m)
    <3>1. /\ npc' = "coin" /\ failed' > 0 /\ UNCHANGED <<messages, n, recorded, coinIds>>
          /\ user' = NoUser \/ (user' = UserOf(m) /\ Found(m))
      BY <1>4, <1>a, <2>2 DEF LookUpUserFails, Fault, vars
    <3>2. BookedOn(m, user)'
      BY <1>d, <2>2, <3>1 DEF BookedOn
    <3> QED BY <3>1, <3>2 DEF LookedUp
  <2> QED BY <2>1, <2>2
<1>5. CASE LookUpCoin
  <2>1. npc = "coin" /\ npc' = "save" /\ m' = m /\ UNCHANGED <<messages, n, user, failed, recorded>>
    BY <1>5 DEF LookUpCoin, m, vars
  <2>2. coinIds' = IF coinIds[m.coin] = Absent THEN [coinIds EXCEPT ![m.coin] = IdOf[m.coin]]
                   ELSE coinIds
    BY <1>5 DEF LookUpCoin
  <2>3. m.coin \in Coins /\ coinIds \in [Coins -> {Absent} \cup {IdOf[c] : c \in Coins}]
    BY <1>a, <1>b, <2>1 DEF CoinIdsOK
  <2>4. \A c \in Coins : coinIds'[c] \in {Absent, IdOf[c]}
    BY <2>2, <2>3 DEF LookedUp
  <2>5. coinIds'[m'.coin] # Absent
    <3>1. IdOf[m.coin] # Absent
      BY <2>3 DEF IdOf, Absent
    <3> QED BY <2>1, <2>2, <2>3, <3>1
  <2>6. BookedOn(m, user)'
    BY <1>d, <2>1 DEF LookedUp, BookedOn
  <2> QED BY <2>4, <2>5, <2>6 DEF LookedUp
<1>6. CASE LookUpCoinFails \/ SaveFlow \/ SaveFails
  BY <1>6, <1>c DEF LookUpCoinFails, SaveFlow, SaveFails, Forget
<1>7. CASE Restart
  BY <1>7 DEF Restart, LookedUp
<1>8. CASE FlowDone \/ UNCHANGED <<vars, flow>>
  BY <1>8 DEF FlowDone, vars, flow, LookedUp, m, UserOf, BookedOn, Found
<1> QED BY <1>1, <1>2, <1>3, <1>4, <1>5, <1>6, <1>7, <1>8 DEF FlowNext

LEMMA RightAccountNext ==
    (ParserInv /\ FlowTypeOK) /\ LookedUp /\ RightAccount /\ [FlowNext]_<<vars, flow>>
        => RightAccount'
<1> SUFFICES ASSUME ParserInv, FlowTypeOK, LookedUp, RightAccount, [FlowNext]_<<vars, flow>>
             PROVE  RightAccount'
  OBVIOUS
<1>a. /\ messages \in Seq(Msg) /\ NotifierOK /\ AccountsOK /\ failed \in Nat
      /\ Len(messages) \in Nat
  BY DEF ParserInv, TypeOK, FlowTypeOK, CountsOK
<1>b. ASSUME UNCHANGED <<messages, rows, recorded>>, failed' = failed \/ failed' = failed + 1
      PROVE  RightAccount'
  BY <1>a, <1>b DEF RightAccount, BookedOn, UserOf, Found, NeedsUser
<1>1. CASE Parse
  BY <1>1, <1>a DEF Parse, flow, accounts, AccountsOK, RightAccount
<1>6. CASE Deliver
  BY <1>6, <1>a DEF Deliver, accounts, AccountsOK, RightAccount
<1>2. CASE Take \/ StatusKnown \/ StatusFails \/ Tell \/ TellFails
  BY <1>2, <1>b DEF Take, StatusKnown, StatusFails, Tell, TellFails, Fault, vars, accounts
<1>3. CASE LookUpUser \/ LookUpUserFails \/ LookUpCoin \/ LookUpCoinFails
  BY <1>3, <1>b DEF LookUpUser, LookUpUserFails, LookUpCoin, LookUpCoinFails, Fault, vars, accounts
<1>4. CASE SaveFlow \/ SaveFails
  <2>1. UNCHANGED <<messages, recorded>> /\ (failed' = failed \/ failed' = failed + 1)
    BY <1>4 DEF SaveFlow, SaveFails, Fault, vars
  <2>2. CASE UNCHANGED rows
    BY <1>b, <2>1, <2>2
  <2>3. CASE ~(UNCHANGED rows)
    <3>1. rows' = Append(rows, Rows) /\ npc = "save"
      BY <1>4, <2>3 DEF SaveFlow, SaveFails
    <3>2. m \in Msg /\ m.coin \in Coins
      <4>1. m \in Msg
        BY <1>a, <3>1 DEF NotifierOK, m
      <4> QED BY <4>1 DEF Msg, Coins
    <3>3. PICK x : rows' = Append(rows, x) /\ x = Rows
      BY <3>1
    <3>4. /\ x.msg = n /\ x.coinID = IdOf[messages[n].coin]
          /\ BookedOn(messages[n], x.user)
      BY <3>1, <3>2, <3>3, RowsFact DEF LookedUp, m
    <3>5. IsList(rows)
      BY <1>a DEF AccountsOK, Entries, IsList
    <3>6. ASSUME NEW k \in 1 .. Len(rows')
          PROVE  rows'[k] = x \/ (k \in 1 .. Len(rows) /\ rows'[k] = rows[k])
      BY <3>3, <3>5, AppendedEntry
    <3>7. ASSUME NEW k \in 1 .. Len(rows')
          PROVE  /\ rows'[k].coinID = IdOf[messages'[rows'[k].msg].coin]
                 /\ BookedOn(messages[rows[k].msg], rows[k].user)'
      <4>1. CASE rows'[k] = x
        <5>1. rows'[k].coinID = IdOf[messages[n].coin] /\ rows'[k].msg = n /\ BookedOn(messages[n], rows'[k].user)
          BY <3>4, <4>1
        <5> QED BY <1>a, <2>1, <5>1 DEF BookedOn, UserOf, Found, NeedsUser
      <4>2. CASE k \in 1 .. Len(rows) /\ rows'[k] = rows[k]
        <5>1. rows[k].coinID = IdOf[messages[rows[k].msg].coin] /\ BookedOn(messages[rows[k].msg], rows[k].user)
          BY <4>2 DEF RightAccount
        <5> QED BY <1>a, <2>1, <4>2, <5>1 DEF BookedOn, UserOf, Found, NeedsUser
      <4> QED BY <3>6, <4>1, <4>2
    <3> QED BY <3>7 DEF RightAccount
  <2> QED BY <2>2, <2>3
<1>5. CASE Restart \/ FlowDone \/ UNCHANGED <<vars, flow>>
  BY <1>5, <1>b DEF Restart, FlowDone, vars, flow, accounts
<1> QED BY <1>1, <1>2, <1>3, <1>4, <1>5, <1>6 DEF FlowNext

\* Every booking names the currency of its message and its user; nobody is
\* booked instead only for what is no user's deposit and no collection, after
\* a failed call or for a hash that was not recorded.
THEOREM RightAccountCorrect == FlowSpec => []RightAccount
<1>1. FlowInit => LookedUp /\ RightAccount
  BY DEF FlowInit, LookedUp, RightAccount
<1>2. (ParserInv /\ FlowTypeOK) /\ (LookedUp /\ RightAccount) /\ [FlowNext]_<<vars, flow>>
        => (LookedUp /\ RightAccount)'
  BY LookedUpNext, RightAccountNext
<1> QED BY <1>1, <1>2, FlowTypes, PTL DEF FlowSpec

-----------------------------------------------------------------------------
(* Invalid transfers and failing calls.                                      *)

\* Beyond the status check of an invalid transfer there is no message of it.
Checked ==
    /\ npc = "off" => valid
    /\ ~valid /\ npc \in {"registry", "user", "coin", "save"} => m.coin # "USDT"

LEMMA InvalidNext ==
    (ParserInv /\ FlowTypeOK) /\ (ParserInv /\ FlowTypeOK)' /\ (Checked /\ InvalidLeavesNoTrace)
        /\ [FlowNext]_<<vars, flow>> => (Checked /\ InvalidLeavesNoTrace)'
<1> SUFFICES ASSUME ParserInv, FlowTypeOK, FlowTypeOK', Checked, InvalidLeavesNoTrace,
                    [FlowNext]_<<vars, flow>>
             PROVE  Checked' /\ InvalidLeavesNoTrace'
  OBVIOUS
<1> DEFINE Clean(s) == \A k \in 1 .. Len(s) : messages[s[k].msg].coin # "USDT"
<1>a. /\ AccountsOK /\ AccountsOK' /\ NotifierOK /\ IsList(told) /\ IsList(rows)
      /\ valid \in BOOLEAN
  BY DEF FlowTypeOK, AccountsOK, NotifierOK, Entries, IsList
<1>b. ~valid => Clean(told) /\ Clean(rows)
  BY DEF InvalidLeavesNoTrace
<1>c. ASSUME UNCHANGED <<messages, valid, accounts>> PROVE InvalidLeavesNoTrace'
  BY <1>b, <1>c DEF InvalidLeavesNoTrace, accounts
<1>d. ASSUME UNCHANGED valid, npc # "off", npc' = "take" PROVE Checked'
  BY <1>d DEF Checked
<1>e. ASSUME UNCHANGED <<valid, messages, n>>, npc \in {"registry", "user", "coin"},
             npc' \in {"user", "coin", "save"}
      PROVE Checked'
  BY <1>e DEF Checked, m
<1>f. ASSUME NEW s, IsList(s), NEW x, Clean(s), messages[x.msg].coin # "USDT"
      PROVE  Clean(Append(s, x))
  BY <1>f, AppendedEntry
<1>1. CASE Parse
  <2>1. UNCHANGED <<npc, valid>> /\ npc = "off"
    BY <1>1 DEF Parse, flow
  <2> QED BY <2>1 DEF Checked, InvalidLeavesNoTrace
<1>2. CASE Deliver
  <2>1. told' = <<>> /\ rows' = <<>> /\ npc' = "take"
    BY <1>2, <1>a DEF Deliver, accounts, AccountsOK
  <2> QED BY <2>1 DEF Checked, InvalidLeavesNoTrace
<1>3. CASE Take
  <2>1. Checked'
    BY <1>3 DEF Take, Checked, m, vars
  <2> QED BY <1>3, <1>c, <2>1 DEF Take, vars
<1>4. CASE StatusKnown
  <2>1. Checked'
    BY <1>4, <1>d DEF StatusKnown, Forget, Checked
  <2> QED BY <1>4, <1>c, <2>1 DEF StatusKnown, vars
<1>5. CASE StatusFails
  BY <1>5, <1>c, <1>d DEF StatusFails, Forget, vars
<1>6. CASE Tell
  <2>1. Checked' /\ UNCHANGED <<messages, valid, rows>> /\ npc = "registry"
    BY <1>6, <1>e DEF Tell, vars
  <2>2. CASE UNCHANGED told
    BY <1>c, <2>1, <2>2 DEF accounts
  <2>3. CASE ~(UNCHANGED told)
    <3>1. PICK x : told' = Append(told, x) /\ x.msg = n
      BY <1>6, <2>3 DEF Tell, Call
    <3>2. ASSUME ~valid PROVE Clean(told')
      <4>1. messages[x.msg].coin # "USDT" /\ Clean(told)
        BY <1>b, <2>1, <3>1, <3>2 DEF Checked, m
      <4>2. Clean(Append(told, x))
        BY <1>a, <1>f, <4>1
      <4> QED BY <3>1, <4>2
    <3> QED BY <1>b, <2>1, <3>2 DEF InvalidLeavesNoTrace
  <2> QED BY <2>2, <2>3
<1>7. CASE TellFails \/ LookUpCoin
  BY <1>7, <1>c, <1>e DEF TellFails, LookUpCoin, vars, accounts
<1>8. CASE LookUpUser \/ LookUpUserFails
  <2>1. Checked'
    BY <1>8, <1>d, <1>e DEF LookUpUser, LookUpUserFails, Forget, vars
  <2> QED BY <1>8, <1>c, <2>1 DEF LookUpUser, LookUpUserFails, vars
<1>9. CASE LookUpCoinFails
  BY <1>9, <1>c, <1>d DEF LookUpCoinFails, Forget, vars
<1>10. CASE SaveFlow \/ SaveFails
  <2>1. Checked' /\ UNCHANGED <<messages, valid, told>> /\ npc = "save"
    BY <1>10, <1>d DEF SaveFlow, SaveFails, Forget, vars
  <2>2. CASE UNCHANGED rows
    BY <1>c, <2>1, <2>2 DEF accounts
  <2>3. CASE ~(UNCHANGED rows)
    <3>1. PICK x : rows' = Append(rows, x) /\ x.msg = n
      BY <1>10, <2>3, RowsFact DEF SaveFlow, SaveFails
    <3>2. ASSUME ~valid PROVE Clean(rows')
      <4>1. messages[x.msg].coin # "USDT" /\ Clean(rows)
        BY <1>b, <2>1, <3>1, <3>2 DEF Checked, m
      <4>2. Clean(Append(rows, x))
        BY <1>a, <1>f, <4>1
      <4> QED BY <3>1, <4>2
    <3> QED BY <1>b, <2>1, <3>2 DEF InvalidLeavesNoTrace
  <2> QED BY <2>2, <2>3
<1>11. CASE Restart
  BY <1>11, <1>c, <1>d DEF Restart, vars
<1>12. CASE FlowDone \/ UNCHANGED <<vars, flow>>
  <2>1. UNCHANGED <<vars, flow>>
    BY <1>12 DEF FlowDone
  <2>2. Checked'
    BY <2>1 DEF Checked, m, vars, flow
  <2> QED BY <1>c, <2>1, <2>2 DEF vars, flow
<1> QED BY <1>1, <1>2, <1>3, <1>4, <1>5, <1>6, <1>7, <1>8, <1>9, <1>10, <1>11, <1>12 DEF FlowNext

\* An invalid USDT transfer is neither told nor booked, also if its status
\* could not be read, before or after a restart.
THEOREM InvalidLeavesNoTraceCorrect == FlowSpec => []InvalidLeavesNoTrace
<1>1. FlowInit => Checked /\ InvalidLeavesNoTrace
  BY DEF FlowInit, Checked, InvalidLeavesNoTrace
<1> QED BY <1>1, InvalidNext, FlowTypes, PTL DEF FlowSpec

-----------------------------------------------------------------------------
\* Messages up to number k that should have been booked and were not.
Unbooked(k) == {j \in 1 .. k : Of(rows, j) = {} /\ Bookable(messages[j])}

FailuresPay == Cardinality(Unbooked(n - 1)) <= failed

\* Only USDT transfers have their status asked for.
StatusOfTokens == npc = "status" => messages[n].coin = "USDT"

LEMMA StatusOfTokensNext == StatusOfTokens /\ [FlowNext]_<<vars, flow>> => StatusOfTokens'
<1> SUFFICES ASSUME StatusOfTokens, [FlowNext]_<<vars, flow>> PROVE StatusOfTokens'
  OBVIOUS
<1>1. CASE Parse \/ Deliver \/ Take
  BY <1>1 DEF Parse, Deliver, Take, StatusOfTokens, m, vars, flow
<1>2. CASE StatusKnown \/ StatusFails \/ Tell \/ TellFails
  BY <1>2 DEF StatusKnown, StatusFails, Tell, TellFails, Forget, StatusOfTokens
<1>3. CASE LookUpUser \/ LookUpUserFails \/ LookUpCoin \/ LookUpCoinFails
  BY <1>3 DEF LookUpUser, LookUpUserFails, LookUpCoin, LookUpCoinFails, Forget, StatusOfTokens
<1>4. CASE SaveFlow \/ SaveFails \/ Restart
  BY <1>4 DEF SaveFlow, SaveFails, Restart, Forget, StatusOfTokens
<1>5. CASE FlowDone \/ UNCHANGED <<vars, flow>>
  BY <1>5 DEF FlowDone, StatusOfTokens, vars, flow
<1> QED BY <1>1, <1>2, <1>3, <1>4, <1>5 DEF FlowNext

LEMMA UnbookedFact ==
    ASSUME NEW k \in Nat
    PROVE  IsFiniteSet(Unbooked(k)) /\ Cardinality(Unbooked(k)) \in Nat
<1>1. IsFiniteSet(1 .. k) /\ Unbooked(k) \subseteq 1 .. k
  BY FS_Interval DEF Unbooked
<1> QED BY <1>1, FS_Subset, FS_CardinalityType

LEMMA FailuresPayNext ==
    (ParserInv /\ FlowTypeOK) /\ (ParserInv /\ FlowTypeOK)' /\ StatusOfTokens /\ FailuresPay
        /\ [FlowNext]_<<vars, flow>> => FailuresPay'
<1> SUFFICES ASSUME ParserInv, FlowTypeOK, FlowTypeOK', StatusOfTokens, FailuresPay, [FlowNext]_<<vars, flow>>
             PROVE  FailuresPay'
  OBVIOUS
<1>a. /\ n \in Nat /\ n >= 1 /\ n' \in Nat /\ failed \in Nat /\ failed' \in Nat
      /\ AccountsOK /\ NotifierOK /\ IsList(rows)
      /\ n - 1 \in Nat
  BY DEF FlowTypeOK, AccountsOK, NotifierOK, CountsOK, Entries, IsList
<1>b. /\ IsFiniteSet(Unbooked(n - 1)) /\ Cardinality(Unbooked(n - 1)) \in Nat
  BY <1>a, UnbookedFact
<1>c. ASSUME n' = 1 PROVE FailuresPay'
  <2>1. Unbooked(n - 1)' = {}
    BY <1>c DEF Unbooked
  <2> QED BY <1>a, <2>1, FS_EmptySet DEF FailuresPay
<1>d. ASSUME n' = n, UNCHANGED <<messages, rows, valid, recorded>>, failed' >= failed PROVE FailuresPay'
  <2>1. Unbooked(n - 1)' = Unbooked(n - 1)
    BY <1>d DEF Unbooked, Bookable
  <2> QED BY <1>a, <1>b, <1>d, <2>1 DEF FailuresPay
<1>e. ASSUME n' = n + 1, failed' = failed, NEW S, S = Unbooked(n - 1)', S \subseteq Unbooked(n - 1)
      PROVE  FailuresPay'
  <2>1. Cardinality(S) <= Cardinality(Unbooked(n - 1)) /\ Cardinality(S) \in Nat
    BY <1>b, <1>e, FS_Subset, FS_CardinalityType
  <2> QED BY <1>a, <1>b, <1>e, <2>1 DEF FailuresPay
<1>f. ASSUME n' = n + 1, failed' = failed + 1, NEW S, S = Unbooked(n - 1)',
             S \subseteq Unbooked(n - 1) \cup {n}
      PROVE  FailuresPay'
  <2>1. n \notin Unbooked(n - 1)
    BY <1>a DEF Unbooked
  <2>2. /\ IsFiniteSet(Unbooked(n - 1) \cup {n})
        /\ Cardinality(Unbooked(n - 1) \cup {n}) = Cardinality(Unbooked(n - 1)) + 1
    BY <1>b, <2>1, FS_AddElement
  <2>3. Cardinality(S) <= Cardinality(Unbooked(n - 1) \cup {n}) /\ Cardinality(S) \in Nat
    BY <1>f, <2>2, FS_Subset, FS_CardinalityType
  <2> QED BY <1>a, <1>b, <1>f, <2>2, <2>3 DEF FailuresPay
<1>g. ASSUME n' = n + 1, UNCHANGED <<messages, rows, valid, recorded>>
      PROVE  /\ Unbooked(n - 1)' \subseteq Unbooked(n - 1) \cup {n}
             /\ ~Bookable(messages[n]) => Unbooked(n - 1)' \subseteq Unbooked(n - 1)
  <2>1. n' - 1 = n /\ \A j \in 1 .. n : j \in 1 .. n - 1 \/ j = n
    BY <1>a, <1>g
  <2> QED BY <1>g, <2>1 DEF Unbooked, Bookable
<1>h. ASSUME NEW x, n' = n + 1, UNCHANGED <<messages, valid, recorded>>, rows' = Append(rows, x), x.msg = n
      PROVE  Unbooked(n - 1)' \subseteq Unbooked(n - 1)
  <2>1. n' - 1 = n /\ \A j \in 1 .. n : j \in 1 .. n - 1 \/ j = n
    BY <1>a, <1>h
  <2>2. Of(rows', n) # {}
    BY <1>a, <1>h, OfAppended
  <2>3. ASSUME NEW j \in 1 .. n, Of(rows', j) = {}
        PROVE  Of(rows, j) = {} /\ j # n
    BY <1>a, <1>h, <2>2, <2>3, OfAppended
  <2> QED BY <1>h, <2>1, <2>3 DEF Unbooked, Bookable
<1>i. ASSUME Fault, Forget, UNCHANGED <<messages, rows, valid, recorded>> PROVE FailuresPay'
  BY <1>f, <1>g, <1>i DEF Fault, Forget
<1>1. CASE Parse
  BY <1>1, <1>a, <1>c DEF Parse, flow, AccountsOK
<1>2. CASE Deliver
  BY <1>2, <1>a, <1>c DEF Deliver, AccountsOK
<1>3. CASE Take \/ Tell \/ LookUpCoin
  BY <1>3, <1>a, <1>d DEF Take, Tell, LookUpCoin, vars, accounts
<1>12. CASE LookUpUser
  <2>1. failed' = failed /\ UNCHANGED <<messages, rows, valid, recorded>>
    BY <1>12 DEF LookUpUser, vars, accounts
  <2>2. CASE n' = n
    BY <1>a, <1>d, <2>1, <2>2
  <2>3. CASE ~Found(m) /\ NeedsUser(m) /\ n' = n + 1
    <3>1. ~Bookable(messages[n])
      BY <2>3 DEF Found, NeedsUser, Bookable, m
    <3> QED BY <1>e, <1>g, <2>1, <2>3, <3>1
  <2> QED BY <1>12, <2>2, <2>3 DEF LookUpUser, Forget
<1>4. CASE StatusKnown
  <2>1. CASE valid
    BY <1>4, <1>a, <1>d, <2>1 DEF StatusKnown, vars, accounts
  <2>2. CASE ~valid
    <3>1. n' = n + 1 /\ failed' = failed /\ UNCHANGED <<messages, rows, valid, recorded>>
      BY <1>4, <2>2 DEF StatusKnown, Forget, vars, accounts
    <3>2. ~Bookable(messages[n])
      BY <1>4, <2>2 DEF StatusKnown, StatusOfTokens, Bookable
    <3> QED BY <1>e, <1>g, <2>2, <3>1, <3>2
  <2> QED BY <2>1, <2>2
<1>5. CASE StatusFails \/ LookUpCoinFails
  BY <1>5, <1>i DEF StatusFails, LookUpCoinFails, vars, accounts
<1>6. CASE TellFails
  BY <1>6, <1>a, <1>d DEF TellFails, Fault, vars, accounts
<1>7. CASE LookUpUserFails
  <2>1. CASE NeedsUser(m)
    BY <1>7, <1>i, <2>1 DEF LookUpUserFails, vars, accounts
  <2>2. CASE ~NeedsUser(m)
    BY <1>7, <1>a, <1>d, <2>2 DEF LookUpUserFails, Fault, vars, accounts
  <2> QED BY <2>1, <2>2
<1>8. CASE SaveFlow
  <2>1. PICK x : rows' = Append(rows, x) /\ x.msg = n
    BY <1>8, RowsFact DEF SaveFlow
  <2>2. n' = n + 1 /\ failed' = failed /\ UNCHANGED <<messages, valid, recorded>>
    BY <1>8 DEF SaveFlow, Forget, vars
  <2> QED BY <1>e, <1>h, <2>1, <2>2
<1>9. CASE SaveFails
  <2>1. n' = n + 1 /\ failed' = failed + 1 /\ UNCHANGED <<messages, valid, recorded>>
    BY <1>9 DEF SaveFails, Forget, Fault, vars
  <2>2. CASE UNCHANGED rows
    BY <1>f, <1>g, <2>1, <2>2
  <2>3. CASE ~(UNCHANGED rows)
    <3>1. PICK x : rows' = Append(rows, x) /\ x.msg = n
      BY <1>9, <2>3, RowsFact DEF SaveFails
    <3> QED BY <1>f, <1>h, <2>1, <3>1
  <2> QED BY <2>2, <2>3
<1>10. CASE Restart
  BY <1>10, <1>c DEF Restart
<1>11. CASE FlowDone \/ UNCHANGED <<vars, flow>>
  BY <1>11, <1>a, <1>d DEF FlowDone, vars, flow, accounts
<1> QED BY <1>1, <1>2, <1>3, <1>4, <1>5, <1>6, <1>7, <1>8, <1>9, <1>10, <1>11, <1>12 DEF FlowNext

\* However many calls fail, each costs the booking of one message at most.
THEOREM FailureCostCorrect == FlowSpec => []FailureCost
<1>1. FlowInit => StatusOfTokens /\ FailuresPay
  <2> SUFFICES ASSUME FlowInit PROVE StatusOfTokens /\ FailuresPay
    OBVIOUS
  <2>1. Unbooked(n - 1) = {} /\ failed = 0
    BY DEF FlowInit, Unbooked
  <2> QED BY <2>1, FS_EmptySet DEF FlowInit, StatusOfTokens, FailuresPay
<1>2. (ParserInv /\ FlowTypeOK) /\ FailuresPay => FailureCost
  <2> SUFFICES ASSUME ParserInv, FlowTypeOK, FailuresPay, Handled
               PROVE  Cardinality(Unbooked(Len(messages))) <= failed
    BY DEF FailureCost, Unbooked
  <2>1. n - 1 = Len(messages)
    BY DEF ParserInv, TypeOK, FlowTypeOK, NotifierOK, Handled
  <2> QED BY <2>1 DEF FailuresPay
<1> QED BY <1>1, <1>2, StatusOfTokensNext, FailuresPayNext, FlowTypes, PTL DEF FlowSpec

-----------------------------------------------------------------------------
(* What the registry learns.                                                 *)

\* A call tells of a deposit or withdrawal that is worth it what the message
\* says.
Says(e, x) ==
    /\ e.token = x.coin /\ e.amount = Text(x.amount)
    /\ e.addr = IF x.type = "USER_DEPOSIT" THEN x.address ELSE NoAddr
    /\ e.fee = IF x.type = "USER_WITHDRAW" THEN Text(fee) ELSE NoText
ToldRight == \A k \in 1 .. Len(told) : Tells(messages[told[k].msg]) /\ Says(told[k], messages[told[k].msg])

\* Messages the registry was called for in this life of the process; those of
\* them about coins that never arrived there cost a failing call each.
Passed(j) == j < n \/ (j = n /\ npc \in {"user", "coin", "save"})
Untold ==
    {j \in 1 .. Len(messages) :
        Passed(j) /\ messages[j].coin = "BTC" /\ Tells(messages[j]) /\ Of(told, j) = {}}
TellsPay == Cardinality(Untold) <= failed

LEMMA ToldRightNext ==
    (ParserInv /\ FlowTypeOK) /\ (ParserInv /\ FlowTypeOK)' /\ ToldRight /\ [FlowNext]_<<vars, flow>>
        => ToldRight'
<1> SUFFICES ASSUME FlowTypeOK, FlowTypeOK', ToldRight, [FlowNext]_<<vars, flow>> PROVE ToldRight'
  OBVIOUS
<1>a. AccountsOK /\ AccountsOK' /\ NotifierOK /\ IsList(told)
  BY DEF FlowTypeOK, AccountsOK, NotifierOK, Entries, IsList
<1>b. ASSUME UNCHANGED <<vars, told>> PROVE ToldRight'
  BY <1>b DEF ToldRight, Says, vars, Tells, Small
<1>1. CASE Parse
  <2>1. told' = <<>>
    BY <1>1, <1>a DEF Parse, flow, accounts, AccountsOK
  <2> QED BY <2>1 DEF ToldRight
<1>2. CASE Tell
  <2>1. UNCHANGED vars
    BY <1>2 DEF Tell, Call
  <2>2. CASE UNCHANGED told
    BY <1>b, <2>1, <2>2
  <2>3. CASE ~(UNCHANGED told)
    <3>1. Tells(m)
      BY <1>2, <2>3 DEF Tell, Call
    <3>2. PICK x : told' = Append(told, x) /\ x.msg = n /\ Says(x, m)
      BY <1>2, <3>1 DEF Tell, Call, Says
    <3>3. ASSUME NEW k \in 1 .. Len(told')
          PROVE  told'[k] = x \/ (k \in 1 .. Len(told) /\ told'[k] = told[k])
      BY <1>a, <3>2, AppendedEntry
    <3>4. UNCHANGED <<messages, fee>>
      BY <2>1 DEF vars
    <3>5. ASSUME NEW k \in 1 .. Len(told')
          PROVE  Tells(messages[told'[k].msg]) /\ Says(told'[k], messages[told'[k].msg])
      <4>1. CASE told'[k] = x
        BY <3>1, <3>2, <4>1 DEF m
      <4>2. CASE k \in 1 .. Len(told) /\ told'[k] = told[k]
        BY <4>2 DEF ToldRight
      <4> QED BY <3>3, <4>1, <4>2
    <3> QED BY <3>4, <3>5 DEF ToldRight, Says, Tells, Small
  <2> QED BY <2>2, <2>3
<1>3. CASE Deliver \/ Take \/ StatusKnown \/ StatusFails \/ TellFails
  BY <1>3, <1>b DEF Deliver, Take, StatusKnown, StatusFails, TellFails, accounts
<1>4. CASE LookUpUser \/ LookUpUserFails \/ LookUpCoin \/ LookUpCoinFails
  BY <1>4, <1>b DEF LookUpUser, LookUpUserFails, LookUpCoin, LookUpCoinFails, accounts
<1>5. CASE SaveFlow \/ SaveFails \/ Restart \/ FlowDone \/ UNCHANGED <<vars, flow>>
  BY <1>5, <1>b DEF SaveFlow, SaveFails, Restart, FlowDone, flow, accounts
<1> QED BY <1>1, <1>2, <1>3, <1>4, <1>5 DEF FlowNext

LEMMA UntoldFact == ParserInv => IsFiniteSet(Untold) /\ Cardinality(Untold) \in Nat
<1> SUFFICES ASSUME ParserInv PROVE IsFiniteSet(Untold) /\ Cardinality(Untold) \in Nat
  OBVIOUS
<1>1. Len(messages) \in Nat
  BY DEF ParserInv, TypeOK
<1>2. IsFiniteSet(1 .. Len(messages)) /\ Untold \subseteq 1 .. Len(messages)
  BY <1>1, FS_Interval DEF Untold
<1> QED BY <1>2, FS_Subset, FS_CardinalityType

LEMMA TellsPayNext ==
    (ParserInv /\ FlowTypeOK) /\ (ParserInv /\ FlowTypeOK)' /\ StatusOfTokens /\ TellsPay
        /\ [FlowNext]_<<vars, flow>> => TellsPay'
<1> SUFFICES ASSUME ParserInv, FlowTypeOK, FlowTypeOK', StatusOfTokens, TellsPay,
                    [FlowNext]_<<vars, flow>>
             PROVE  TellsPay'
  OBVIOUS
<1>a. /\ n \in Nat /\ n >= 1 /\ n' \in Nat /\ failed \in Nat /\ failed' \in Nat
      /\ AccountsOK /\ NotifierOK /\ IsList(told) /\ Len(messages) \in Nat
  BY DEF FlowTypeOK, AccountsOK, NotifierOK, CountsOK, Entries, IsList, ParserInv, TypeOK
<1>b. IsFiniteSet(Untold) /\ Cardinality(Untold) \in Nat
  BY UntoldFact
\* No message is added to those that never arrived, or the one whose call
\* failed.
<1>c. ASSUME NEW S, S = Untold', S \subseteq Untold, failed' >= failed PROVE TellsPay'
  <2>1. Cardinality(S) <= Cardinality(Untold) /\ Cardinality(S) \in Nat
    BY <1>b, <1>c, FS_Subset, FS_CardinalityType
  <2> QED BY <1>a, <1>b, <1>c, <2>1 DEF TellsPay
<1>d. ASSUME NEW S, S = Untold', S \subseteq Untold \cup {n}, failed' = failed + 1 PROVE TellsPay'
  <2>1. /\ IsFiniteSet(Untold \cup {n}) /\ Cardinality(Untold \cup {n}) \in Nat
        /\ Cardinality(Untold \cup {n}) <= Cardinality(Untold) + 1
    BY <1>b, FS_AddElement, FS_CardinalityType
  <2>2. Cardinality(S) <= Cardinality(Untold \cup {n}) /\ Cardinality(S) \in Nat
    BY <1>d, <2>1, FS_Subset, FS_CardinalityType
  <2> QED BY <1>a, <1>b, <1>d, <2>1, <2>2 DEF TellsPay
<1>e. ASSUME UNCHANGED <<messages, told>>, failed' >= failed,
             \A j \in Nat : Passed(j)' => Passed(j) \/ messages[j].coin # "BTC" \/ ~Tells(messages[j])
      PROVE  TellsPay'
  <2>1. Untold' \subseteq Untold
    BY <1>a, <1>e DEF Untold, Tells, Small
  <2> QED BY <1>c, <1>e, <2>1
<1>1. CASE Parse \/ Deliver
  <2>1. n' = 1 /\ npc' \in {"off", "take"} /\ failed' = failed
    BY <1>1, <1>a DEF Parse, Deliver, flow, AccountsOK
  <2>2. \A j : Passed(j)' => j < 1
    BY <2>1 DEF Passed
  <2>4. Untold' = {}
    BY <2>2 DEF Untold
  <2> QED BY <1>c, <2>1, <2>4, <1>a
<1>2. CASE Take
  BY <1>2, <1>a, <1>e DEF Take, Passed, vars, accounts
<1>3. CASE StatusKnown
  <2>1. /\ UNCHANGED <<messages, told, failed>> /\ messages[n].coin = "USDT"
        /\ \/ n' = n /\ npc' = "registry"
           \/ n' = n + 1 /\ npc' = "take"
    BY <1>3 DEF StatusKnown, StatusOfTokens, Forget, vars, accounts
  <2>2. ASSUME NEW j \in Nat PROVE Passed(j)' => Passed(j) \/ j = n
    BY <1>a, <2>1 DEF Passed
  <2> QED BY <1>a, <1>e, <2>1, <2>2
<1>4. CASE StatusFails \/ TellFails \/ LookUpUserFails \/ LookUpCoinFails \/ SaveFails
  <2>1. /\ UNCHANGED <<messages, told>> /\ failed' = failed + 1
        /\ n' = n \/ (n' = n + 1 /\ npc' = "take")
        /\ npc' \in {"take", "user", "coin"}
    BY <1>4 DEF StatusFails, TellFails, LookUpUserFails, LookUpCoinFails, SaveFails, Fault, Forget,
                vars, accounts
  <2>2. ASSUME NEW j \in Nat PROVE Passed(j)' => Passed(j) \/ j = n
    BY <1>a, <2>1 DEF Passed
  <2>3. Untold' \subseteq Untold \cup {n}
    BY <1>a, <2>1, <2>2 DEF Untold, Tells, Small
  <2> QED BY <1>d, <2>1, <2>3
<1>5. CASE Tell
  <2>1. UNCHANGED <<messages, failed, n>> /\ npc' = "user"
    BY <1>5 DEF Tell, vars
  <2>2. ASSUME NEW j \in Nat PROVE Passed(j)' => Passed(j) \/ j = n
    BY <1>a, <2>1 DEF Passed
  <2>3. CASE ~Tells(m)
    <3>1. UNCHANGED told
      BY <1>5, <2>3 DEF Tell, Call
    <3> QED BY <1>a, <1>e, <2>1, <2>2, <2>3, <3>1 DEF m
  <2>4. CASE Tells(m)
    <3>1. PICK x : told' = Append(told, x) /\ x.msg = n
      BY <1>5, <2>4 DEF Tell, Call
    <3>2. Of(told', n) # {}
      BY <1>a, <3>1, OfAppended
    <3>3. ASSUME NEW j \in Nat, j # n PROVE Of(told', j) = Of(told, j)
      BY <1>a, <3>1, <3>3, OfAppended
    <3>4. Untold' \subseteq Untold
      BY <1>a, <2>1, <2>2, <3>2, <3>3 DEF Untold, Tells, Small
    <3> QED BY <1>a, <1>c, <2>1, <3>4
  <2> QED BY <2>3, <2>4
<1>6. CASE LookUpUser \/ LookUpCoin
  <2>1. /\ UNCHANGED <<messages, told, failed>> /\ npc \in {"user", "coin", "save"}
        /\ n' = n \/ (n' = n + 1 /\ npc' = "take")
    BY <1>6 DEF LookUpUser, LookUpCoin, Forget, vars, accounts
  <2>2. ASSUME NEW j \in Nat PROVE Passed(j)' => Passed(j)
    BY <1>a, <2>1 DEF Passed
  <2> QED BY <1>a, <1>e, <2>1, <2>2
<1>7. CASE SaveFlow
  <2>1. UNCHANGED <<messages, told, failed>> /\ n' = n + 1 /\ npc = "save" /\ npc' = "take"
    BY <1>7 DEF SaveFlow, Forget, vars
  <2>2. ASSUME NEW j \in Nat PROVE Passed(j)' => Passed(j)
    BY <1>a, <2>1 DEF Passed
  <2> QED BY <1>a, <1>e, <2>1, <2>2
<1>8. CASE Restart
  <2>1. n' = 1 /\ npc' = "take" /\ UNCHANGED <<messages, told, failed>>
    BY <1>8 DEF Restart, vars, accounts
  <2>2. ASSUME NEW j \in Nat PROVE Passed(j)' => Passed(j) \/ j = 0
    BY <2>1 DEF Passed
  <2>3. Untold' \subseteq Untold
    BY <1>a, <2>1, <2>2 DEF Untold, Tells, Small
  <2> QED BY <1>a, <1>c, <2>1, <2>3
<1>9. CASE FlowDone \/ UNCHANGED <<vars, flow>>
  <2>1. UNCHANGED <<messages, told, failed, n, npc>>
    BY <1>9 DEF FlowDone, vars, flow, accounts
  <2> QED BY <1>a, <1>e, <2>1 DEF Passed
<1> QED BY <1>1, <1>2, <1>3, <1>4, <1>5, <1>6, <1>7, <1>8, <1>9 DEF FlowNext

\* The fields of the messages about coins.
LEMMA CoinFields ==
    ASSUME OutputsOK
    PROVE  /\ Len(Deposits) = Len(outputAddrs)
           /\ \A k \in 1 .. Len(outputAddrs) :
                 /\ Deposits[k].coin = "BTC" /\ Deposits[k].address = outputAddrs[k]
                 /\ Deposits[k].amount = outputValue[outputAddrs[k]]
                 /\ Deposits[k].type = IF outputAddrs[k] \in ExtAddrs THEN "USER_DEPOSIT" ELSE "ADMIN_DEPOSIT"
           /\ Len(Withdraws) = Len(outputAddrs2)
           /\ \A k \in 1 .. Len(outputAddrs2) :
                 /\ Withdraws[k].coin = "BTC" /\ Withdraws[k].address = outputAddrs2[k]
                 /\ Withdraws[k].amount = outputValue[outputAddrs2[k]]
                 /\ Withdraws[k].type = IF extInputs = 0 THEN "USER_WITHDRAW" ELSE "ADMIN_WITHDRAW"
           /\ Len(Collects) = Len(outputAddrs)
           /\ \A k \in 1 .. Len(outputAddrs) :
                 /\ Collects[k].coin = "BTC" /\ Collects[k].address = outputAddrs[k]
                 /\ Collects[k].type = "FUND_COLLECTION"
<1>1. Len(outputAddrs) \in Nat /\ Len(outputAddrs2) \in Nat
  BY DEF OutputsOK
<1> QED BY <1>1 DEF Deposits, Withdraws, Collects, Each, Coin

\* The fee that was counted is that of the transaction.
LEMMA FeeKnown ==
    ASSUME ParserInv, Known
    PROVE  fee = Fee
<1>1. /\ tx.ins \in Seq(In) /\ tx.outs \in Seq(Put) /\ FeeCounted
      /\ Read = 1 .. Len(tx.ins) /\ Past = 1 .. Len(tx.outs)
  BY DEF ParserInv, TypeOK, TxOK, Known, Read, Past
<1>2. Part(Amounts(tx.ins), Read) = Amounts(tx.ins) /\ Part(Amounts(tx.outs), Past) = Amounts(tx.outs)
  BY <1>1, AmountsFact, PartAll
<1> QED BY <1>1, <1>2 DEF FeeCounted, Known, Worth, Fee, SumPaid

\* What the registry is told of a message, and the messages it is told of.
FeeText(x) == IF x.type = "USER_WITHDRAW" THEN Text(fee) ELSE NoText
Entry(x) == <<IF x.type = "USER_DEPOSIT" THEN x.address ELSE NoAddr, Text(x.amount), FeeText(x)>>
Telling(list) == {k \in 1 .. Len(list) : list[k].coin = "BTC" /\ Tells(list[k])}

\* The messages about coins name no address twice, and those the registry is
\* told of stand for the outputs it has to learn of.
LEMMA CoinsAreDue ==
    ASSUME ParserInv, Known, Distinct
    PROVE  /\ \A k, l \in 1 .. Len(CoinMessages) :
                 CoinMessages[k].address = CoinMessages[l].address => k = l
           /\ \A k \in Telling(CoinMessages) : \E j \in DueOuts :
                 tx.outs[j].addr = CoinMessages[k].address /\ DueCall(j) = Entry(CoinMessages[k])
           /\ \A j \in DueOuts : \E k \in Telling(CoinMessages) :
                 CoinMessages[k].address = tx.outs[j].addr
<1> DEFINE C == CoinMessages
           from == Payers
<1>a. /\ TxOK /\ OutputsOK /\ InputsOK /\ InputsRead /\ InputsNoted /\ OutputsNoted /\ OutputsListed
      /\ tx.ins \in Seq(In) /\ tx.outs \in Seq(Put) /\ lost = {}
      /\ Len(tx.ins) \in Nat /\ Len(tx.outs) \in Nat
      /\ Read = 1 .. Len(tx.ins) /\ Past = 1 .. Len(tx.outs) /\ extInputs \in Nat
  BY ParserBounds DEF ParserInv, TypeOK, TxOK, InputsOK, Known, Read, Past
<1>b. /\ \A k, l \in 1 .. Len(outputAddrs) : outputAddrs[k] = outputAddrs[l] => k = l
      /\ \A k, l \in 1 .. Len(outputAddrs2) : outputAddrs2[k] = outputAddrs2[l] => k = l
      /\ \A k \in 1 .. Len(outputAddrs) : \E j \in 1 .. Len(tx.outs) : tx.outs[j].addr = outputAddrs[k]
      /\ \A k \in 1 .. Len(outputAddrs2) : \E j \in 1 .. Len(tx.outs) : tx.outs[j].addr = outputAddrs2[k]
      /\ \A j \in Ours(tx.outs) : \E k \in 1 .. Len(outputAddrs) : outputAddrs[k] = tx.outs[j].addr
      /\ \A j \in Theirs : \E k \in 1 .. Len(outputAddrs2) : outputAddrs2[k] = tx.outs[j].addr
      /\ \A j \in To : outputValue[tx.outs[j].addr] = tx.outs[j].value
  BY <1>a DEF OutputsNoted, OutputsListed, Ours, Theirs, To
<1>c. /\ \A k \in 1 .. Len(outputAddrs) : outputAddrs[k] \in OurAddrs
      /\ \A k \in 1 .. Len(outputAddrs2) : outputAddrs2[k] \in Others
  BY <1>a DEF OutputsOK
<1>d. /\ \A a \in from : \E j \in 1 .. Len(tx.ins) : tx.ins[j].addr = a
      /\ \A j \in 1 .. Len(tx.ins) : tx.ins[j].addr \in from
      /\ from \subseteq Real \cup {Odd}
  <2>1. \A j \in 1 .. Len(tx.ins) : tx.ins[j] \in In
    BY <1>a
  <2>2. \A o \in In : o.addr \in Real \cup {Odd}
    BY DEF In
  <2>3. ToSet(tx.ins) = {tx.ins[j] : j \in 1 .. Len(tx.ins)}
    BY <1>a DEF ToSet
  <2> QED BY <2>1, <2>2, <2>3 DEF Payers
<1>f. OurAddrs \subseteq Real /\ Others = Real \ OurAddrs /\ Odd \notin Real
  BY ParserOwners, ParserAddresses DEF Real
<1> HIDE DEF from, C
<1>1. ASSUME from \cap OurAddrs = {}
      PROVE  /\ \A k, l \in 1 .. Len(C) : C[k].address = C[l].address => k = l
             /\ \A k \in Telling(C) : \E j \in DueOuts :
                   tx.outs[j].addr = C[k].address /\ DueCall(j) = Entry(C[k])
             /\ \A j \in DueOuts : \E k \in Telling(C) : C[k].address = tx.outs[j].addr
  <2>1. inputAddrs = <<>>
    <3>1. Ours(tx.ins) = {}
      BY <1>1, <1>d DEF Ours
    <3> QED BY <1>a, <3>1 DEF InputsNoted
  <2>2. /\ Len(C) = Len(outputAddrs)
        /\ \A k \in 1 .. Len(outputAddrs) :
              /\ C[k].coin = "BTC" /\ C[k].address = outputAddrs[k]
              /\ C[k].amount = outputValue[outputAddrs[k]]
              /\ C[k].type = IF outputAddrs[k] \in ExtAddrs THEN "USER_DEPOSIT" ELSE "ADMIN_DEPOSIT"
    <3>1. CASE outputAddrs # <<>>
      <4>1. C = Deposits
        BY <2>1, <3>1 DEF C, CoinMessages
      <4> QED BY <1>a, <4>1, CoinFields
    <3>2. CASE outputAddrs = <<>>
      <4>1. C = Collects \/ C = <<>>
        BY <2>1, <3>2 DEF C, CoinMessages
      <4>2. Len(C) = 0 /\ Len(outputAddrs) = 0
        BY <1>a, <3>2, <4>1, CoinFields
      <4> QED BY <4>2
    <3> QED BY <3>1, <3>2
  <2>3. ASSUME NEW k \in 1 .. Len(outputAddrs)
        PROVE  \E j \in 1 .. Len(tx.outs) :
                  outputAddrs[k] = tx.outs[j].addr /\ C[k].amount = tx.outs[j].value
    <3>1. PICK j \in 1 .. Len(tx.outs) : tx.outs[j].addr = outputAddrs[k]
      BY <1>b
    <3>2. j \in To
      BY <1>c, <1>f, <3>1 DEF To
    <3> QED BY <1>b, <2>2, <3>1, <3>2
  <2>4. ASSUME NEW k \in 1 .. Len(C)
        PROVE  k \in Telling(C) <=> outputAddrs[k] \in ExtAddrs /\ C[k].amount >= MinBtc
    <3>1. C[k].amount \in Int
      <4>1. CoinMessages \in Seq(Msg)
        BY <1>a, CoinMessagesFact
      <4>2. C[k] \in Msg
        BY <4>1 DEF C
      <4> QED BY <4>2 DEF Msg
    <3>2. MinBtc \in Int
      BY FlowValues
    <3> QED BY <2>2, <3>1, <3>2 DEF Telling, Tells, Small
  <2>5. DueOuts = {j \in 1 .. Len(tx.outs) : tx.outs[j].addr \in ExtAddrs /\ tx.outs[j].value >= MinBtc}
    BY <1>1 DEF DueOuts, from
  <2>6. ASSUME NEW j \in 1 .. Len(tx.outs)
        PROVE  DueCall(j) = <<tx.outs[j].addr, Text(tx.outs[j].value), NoText>>
    BY <1>1 DEF DueCall, from
  <2>7. ASSUME NEW k \in Telling(C)
        PROVE  \E j \in DueOuts : tx.outs[j].addr = C[k].address /\ DueCall(j) = Entry(C[k])
    <3>1. k \in 1 .. Len(C) /\ k \in 1 .. Len(outputAddrs)
      BY <2>2 DEF Telling
    <3>2. PICK j \in 1 .. Len(tx.outs) : outputAddrs[k] = tx.outs[j].addr /\ C[k].amount = tx.outs[j].value
      BY <2>3, <3>1
    <3>3. tx.outs[j].addr \in ExtAddrs /\ j \in DueOuts
      BY <2>4, <2>5, <2>7, <3>1, <3>2
    <3>4. Entry(C[k]) = <<tx.outs[j].addr, Text(tx.outs[j].value), NoText>>
      <4>1. /\ C[k].type = "USER_DEPOSIT" /\ C[k].address = tx.outs[j].addr
            /\ C[k].amount = tx.outs[j].value
        BY <2>2, <3>1, <3>2, <3>3
      <4> QED BY <4>1, Zenon DEF Entry, FeeText
    <3>5. DueCall(j) = Entry(C[k])
      BY <2>6, <3>4
    <3> QED BY <2>2, <3>1, <3>2, <3>3, <3>5
  <2>8. ASSUME NEW j \in DueOuts
        PROVE  \E k \in Telling(C) : C[k].address = tx.outs[j].addr
    <3>1. j \in Ours(tx.outs) /\ j \in To /\ tx.outs[j].addr \in ExtAddrs /\ tx.outs[j].value >= MinBtc
      BY <1>f, <2>5, <2>8 DEF Ours, To, OurAddrs
    <3>2. PICK k \in 1 .. Len(outputAddrs) : outputAddrs[k] = tx.outs[j].addr
      BY <1>b, <3>1
    <3>3. C[k].amount = tx.outs[j].value
      BY <1>b, <2>2, <3>1, <3>2
    <3>4. k \in Telling(C)
      BY <2>2, <2>4, <3>1, <3>2, <3>3
    <3> QED BY <2>2, <3>2, <3>4
  <2>9. \A k, l \in 1 .. Len(C) : C[k].address = C[l].address => k = l
    BY <1>b, <2>2
  <2> QED BY <2>7, <2>8, <2>9
<1>2. ASSUME from \cap OurAddrs # {}, from \subseteq InnAddrs \cup {Odd}
      PROVE  /\ \A k, l \in 1 .. Len(C) : C[k].address = C[l].address => k = l
             /\ \A k \in Telling(C) : \E j \in DueOuts :
                   tx.outs[j].addr = C[k].address /\ DueCall(j) = Entry(C[k])
             /\ \A j \in DueOuts : \E k \in Telling(C) : C[k].address = tx.outs[j].addr
  <2>1. inputAddrs # <<>> /\ inputAddrs2 = <<>> /\ extInputs = 0
    <3>1. Ours(tx.ins) # {} /\ Ours(tx.ins) \cap Read # {}
      BY <1>2, <1>a, <1>d DEF Ours
    <3>2. \A j \in Read : tx.ins[j].addr \notin Real \ OurAddrs /\ tx.ins[j].addr \notin ExtAddrs
      BY <1>2, <1>a, <1>d, <1>f, ParserOwners DEF OurAddrs
    <3> QED BY <1>a, <3>1, <3>2 DEF InputsNoted
  <2>4. DueOuts = {j \in 1 .. Len(tx.outs) : tx.outs[j].addr \in Others}
    BY <1>2 DEF DueOuts, from
  <2>2. CASE outputAddrs2 = <<>>
    <3>1. C = Collects
      BY <2>1, <2>2 DEF C, CoinMessages
    <3>2. /\ Len(C) = Len(outputAddrs)
          /\ \A k \in 1 .. Len(outputAddrs) : C[k].address = outputAddrs[k] /\ C[k].type = "FUND_COLLECTION"
      BY <1>a, <3>1, CoinFields
    <3>3. Telling(C) = {}
      BY <3>2 DEF Telling, Tells
    <3>4. DueOuts = {}
      <4>1. Len(outputAddrs2) = 0
        BY <2>2
      <4>2. Theirs = {}
        BY <1>b, <4>1
      <4>3. \A j \in 1 .. Len(tx.outs) : tx.outs[j].addr \notin Others
        BY <1>f, <4>2 DEF Theirs
      <4> QED BY <2>4, <4>3
    <3> QED BY <1>b, <3>2, <3>3, <3>4
  <2>3. CASE outputAddrs2 # <<>>
    <3>1. C = Withdraws
      BY <2>1, <2>3 DEF C, CoinMessages
    <3>2. /\ Len(C) = Len(outputAddrs2)
          /\ \A k \in 1 .. Len(outputAddrs2) :
                /\ C[k].coin = "BTC" /\ C[k].address = outputAddrs2[k] /\ C[k].type = "USER_WITHDRAW"
                /\ C[k].amount = outputValue[outputAddrs2[k]]
      BY <1>a, <2>1, <3>1, CoinFields
    <3>3. Telling(C) = 1 .. Len(outputAddrs2)
      BY <3>2 DEF Telling, Tells
    <3>4. fee = Fee
      BY FeeKnown
    <3>5. ASSUME NEW k \in Telling(C)
          PROVE  \E j \in DueOuts : tx.outs[j].addr = C[k].address /\ DueCall(j) = Entry(C[k])
      <4>0. k \in 1 .. Len(outputAddrs2)
        BY <3>3
      <4>1. PICK j \in 1 .. Len(tx.outs) : tx.outs[j].addr = outputAddrs2[k]
        BY <1>b, <4>0
      <4>2. j \in To /\ tx.outs[j].addr \in Others
        BY <1>c, <1>f, <4>0, <4>1 DEF To
      <4>3. C[k].amount = tx.outs[j].value
        BY <1>b, <3>2, <4>0, <4>1, <4>2
      <4>4. Entry(C[k]) = <<NoAddr, Text(tx.outs[j].value), Text(Fee)>>
        <5>1. C[k].type = "USER_WITHDRAW" /\ C[k].type # "USER_DEPOSIT"
          BY <3>2, <4>0
        <5> QED BY <3>4, <4>3, <5>1, Zenon DEF Entry, FeeText
      <4>5. DueCall(j) = Entry(C[k])
        BY <1>2, <4>4 DEF DueCall, from
      <4> QED BY <2>4, <3>2, <4>0, <4>1, <4>2, <4>5
    <3>6. ASSUME NEW j \in DueOuts
          PROVE  \E k \in Telling(C) : C[k].address = tx.outs[j].addr
      <4>1. j \in Theirs
        BY <1>f, <2>4, <3>6 DEF Theirs
      <4>2. PICK k \in 1 .. Len(outputAddrs2) : outputAddrs2[k] = tx.outs[j].addr
        BY <1>b, <4>1
      <4> QED BY <3>2, <3>3, <4>2
    <3>7. \A k, l \in 1 .. Len(C) : C[k].address = C[l].address => k = l
      BY <1>b, <3>2
    <3> QED BY <3>5, <3>6, <3>7
  <2> QED BY <2>2, <2>3
<1>3. ASSUME from \cap OurAddrs # {}, ~(from \subseteq InnAddrs \cup {Odd})
      PROVE  /\ \A k, l \in 1 .. Len(C) : C[k].address = C[l].address => k = l
             /\ Telling(C) = {}
  <2>1. inputAddrs # <<>>
    <3>1. Ours(tx.ins) \cap Read # {}
      BY <1>3, <1>a, <1>d DEF Ours
    <3> QED BY <1>a, <3>1 DEF InputsNoted
  <2>2. CASE C = Withdraws /\ inputAddrs2 = <<>>
    <3>1. \E j \in Read : tx.ins[j].addr \in ExtAddrs
      <4>1. PICK a \in from : a \notin InnAddrs \cup {Odd}
        BY <1>3
      <4>2. PICK j \in 1 .. Len(tx.ins) : tx.ins[j].addr = a
        BY <1>d
      <4>3. a \in Real
        BY <1>d, <4>1
      <4>4. a \in OurAddrs
        BY <1>a, <2>2, <4>2, <4>3 DEF InputsNoted
      <4> QED BY <1>a, <4>1, <4>2, <4>4 DEF OurAddrs
    <3>2. extInputs # 0
      BY <1>a, <3>1 DEF InputsRead
    <3>3. /\ Len(C) = Len(outputAddrs2)
          /\ \A k \in 1 .. Len(outputAddrs2) :
                C[k].address = outputAddrs2[k] /\ C[k].type = "ADMIN_WITHDRAW"
      BY <1>a, <2>2, <3>2, CoinFields
    <3>4. Telling(C) = {}
      BY <3>3 DEF Telling, Tells
    <3> QED BY <1>b, <3>3, <3>4
  <2>3. CASE C = Collects
    <3>1. /\ Len(C) = Len(outputAddrs)
          /\ \A k \in 1 .. Len(outputAddrs) : C[k].address = outputAddrs[k] /\ C[k].type = "FUND_COLLECTION"
      BY <1>a, <2>3, CoinFields
    <3>2. Telling(C) = {}
      BY <3>1 DEF Telling, Tells
    <3> QED BY <1>b, <3>1, <3>2
  <2>4. CASE C = <<>>
    <3>1. Telling(C) = {} /\ Len(C) = 0
      BY <2>4 DEF Telling
    <3> QED BY <3>1
  <2>5. \/ C = Withdraws /\ inputAddrs2 = <<>>
        \/ C = Collects
        \/ C = <<>>
    BY <2>1 DEF C, CoinMessages
  <2> QED BY <2>2, <2>3, <2>4, <2>5
<1>4. from \cap OurAddrs # {} /\ ~(from \subseteq InnAddrs \cup {Odd}) => DueOuts = {}
  BY DEF DueOuts, from
<1>5. CASE from \cap OurAddrs = {}
  BY <1>1, <1>5 DEF C
<1>6. CASE from \cap OurAddrs # {} /\ from \subseteq InnAddrs \cup {Odd}
  BY <1>2, <1>6 DEF C
<1>7. CASE from \cap OurAddrs # {} /\ ~(from \subseteq InnAddrs \cup {Odd})
  BY <1>3, <1>4, <1>7 DEF C
<1> QED BY <1>5, <1>6, <1>7

\* Of what the registry was told, the entries about coins.
KnownCoins == {k \in 1 .. Len(told) : told[k].token = "BTC"}
Learnt(k) == <<told[k].addr, told[k].amount, told[k].fee>>

\* One message, one entry in the first life of the process.
LEMMA ToldOnce ==
    ASSUME FlowTypeOK, OncePerLife, restarts = 0,
           NEW k \in 1 .. Len(told), NEW l \in 1 .. Len(told), told[k].msg = told[l].msg
    PROVE  k = l
<1> SUFFICES ASSUME k # l PROVE FALSE
  OBVIOUS
<1> DEFINE j == told[k].msg
           pair == {k} \cup {l}
<1>1. IsList(told) /\ j \in Nat
  BY DEF FlowTypeOK, AccountsOK, Entries, IsList
<1>2. pair \subseteq Of(told, j)
  BY DEF Of
<1>3. Cardinality(Of(told, j)) <= 1 /\ Cardinality(Of(told, j)) \in Nat
  <2>1. Cardinality(Of(told, j)) \in Nat
    BY <1>1, OfFinite
  <2> HIDE DEF j
  <2>2. Cardinality(Of(told, j)) <= 0 + (IF j < n \/ (j = n /\ npc \in {"user", "coin", "save"}) THEN 1 ELSE 0)
    BY <1>1 DEF OncePerLife
  <2> QED BY <2>1, <2>2
<1>4. IsFiniteSet(Of(told, j))
  <2>1. Len(told) \in Nat
    BY <1>1, Appended
  <2>2. IsFiniteSet(1 .. Len(told))
    BY <2>1, FS_Interval
  <2>3. Of(told, j) \subseteq 1 .. Len(told)
    BY DEF Of
  <2> QED BY <2>2, <2>3, FS_Subset
<1>5. IsFiniteSet({k}) /\ Cardinality({k}) = 1
  BY FS_Singleton
<1>6. Cardinality(pair) = 2
  <2>1. Cardinality({k} \cup {l}) = IF l \in {k} THEN Cardinality({k}) ELSE Cardinality({k}) + 1
    BY <1>5, FS_AddElement
  <2>2. l \notin {k}
    OBVIOUS
  <2>3. Cardinality({k} \cup {l}) = Cardinality({k}) + 1
    BY <2>1, <2>2, Zenon
  <2>4. Cardinality({k}) + 1 = 2
    BY <1>5
  <2> QED BY <2>3, <2>4, Zenon
<1>7. Cardinality(pair) <= Cardinality(Of(told, j))
  <2> HIDE DEF pair
  <2> QED BY <1>2, <1>4, FS_Subset
<1> QED BY <1>3, <1>6, <1>7


LEMMA RegistryLearns ==
    ASSUME ParserInv, FlowTypeOK, OncePerLife, ToldRight, TellsPay,
           Handled, Known, Distinct, restarts = 0
    PROVE  /\ \E out \in Injection(KnownCoins, DueOuts) :
                 \A k \in KnownCoins : DueCall(out[k]) = Learnt(k)
           /\ Cardinality(DueOuts) <= Cardinality(KnownCoins) + failed
<1>1. PICK before \in Seq(Msg) : /\ messages = before \o CoinMessages
                                 /\ \A k \in 1 .. Len(before) : before[k].coin = "USDT"
  BY DEF ParserInv, CoinsTold, Known
<1> DEFINE C == CoinMessages
           b == Len(before)
<1>2. C \in Seq(Msg) /\ \A k \in 1 .. Len(C) : C[k].coin = "BTC"
  BY CoinMessagesFact DEF ParserInv, TypeOK
<1>3. /\ b \in Nat /\ Len(C) \in Nat /\ Len(messages) = b + Len(C)
      /\ \A j \in 1 .. b : messages[j].coin = "USDT"
      /\ \A k \in 1 .. Len(C) : messages[b + k] = C[k]
  <2> HIDE DEF C
  <2>1. messages = before \o C
    BY <1>1 DEF C
  <2> QED BY <1>1, <1>2, <2>1
<1> HIDE DEF C
<1>4. ASSUME NEW j \in 1 .. Len(messages), messages[j].coin = "BTC"
      PROVE  j - b \in 1 .. Len(C) /\ messages[j] = C[j - b]
  <2>1. j > b
    BY <1>3, <1>4
  <2>2. j - b \in 1 .. Len(C) /\ b + (j - b) = j
    BY <1>3, <2>1
  <2> QED BY <1>3, <2>2
<1> HIDE DEF b
<1>5. \A k \in 1 .. Len(told) : told[k].msg \in 1 .. Len(messages)
  BY DEF FlowTypeOK, AccountsOK, Entries
<1>6. /\ \A k, l \in 1 .. Len(C) : C[k].address = C[l].address => k = l
      /\ \A k \in Telling(C) : \E j \in DueOuts :
            tx.outs[j].addr = C[k].address /\ DueCall(j) = Entry(C[k])
      /\ \A j \in DueOuts : \E k \in Telling(C) : C[k].address = tx.outs[j].addr
  BY CoinsAreDue DEF C
\* The messages the registry is told of, their addresses and their outputs.
<1> DEFINE Worthy == {j \in 1 .. Len(messages) : messages[j].coin = "BTC" /\ Tells(messages[j])}
           Pays(o, j) == o \in DueOuts /\ tx.outs[o].addr = messages[j].address
<1>7. ASSUME NEW j \in Worthy, NEW l \in Worthy, messages[j].address = messages[l].address
      PROVE  j = l
  <2>1. j \in 1 .. Len(messages) /\ l \in 1 .. Len(messages) /\ j \in Int /\ l \in Int /\ b \in Int
    BY <1>3
  <2>2. /\ j - b \in 1 .. Len(C) /\ messages[j] = C[j - b]
        /\ l - b \in 1 .. Len(C) /\ messages[l] = C[l - b]
    BY <1>4
  <2>3. j - b = l - b
    BY <1>6, <1>7, <2>2
  <2> QED BY <2>1, <2>3
<1>8. ASSUME NEW j \in Worthy PROVE \E o \in DueOuts : Pays(o, j) /\ DueCall(o) = Entry(messages[j])
  <2>1. j - b \in 1 .. Len(C) /\ messages[j] = C[j - b]
    BY <1>4
  <2>2. j - b \in Telling(C)
    BY <2>1 DEF Telling
  <2> QED BY <1>6, <2>1, <2>2
<1>9. ASSUME NEW o \in DueOuts PROVE \E j \in Worthy : Pays(o, j)
  <2>1. PICK k \in Telling(C) : C[k].address = tx.outs[o].addr
    BY <1>6
  <2>2. k \in 1 .. Len(C) /\ C[k].coin = "BTC" /\ Tells(C[k])
    BY DEF Telling
  <2>3. b + k \in 1 .. Len(messages) /\ messages[b + k] = C[k]
    BY <1>3, <2>2
  <2> QED BY <2>1, <2>2, <2>3
<1>10. ASSUME NEW o \in DueOuts, NEW p \in DueOuts, tx.outs[o].addr = tx.outs[p].addr PROVE o = p
  <2>1. o \in 1 .. Len(tx.outs) /\ p \in 1 .. Len(tx.outs)
    BY DEF DueOuts
  <2> QED BY <1>10, <2>1 DEF Distinct, IsInjective
<1>11. ASSUME NEW k \in KnownCoins
       PROVE  k \in 1 .. Len(told) /\ told[k].msg \in Worthy /\ Learnt(k) = Entry(messages[told[k].msg])
  <2>1. k \in 1 .. Len(told) /\ told[k].token = "BTC"
    BY DEF KnownCoins
  <2>2. Tells(messages[told[k].msg]) /\ Says(told[k], messages[told[k].msg])
    BY <2>1 DEF ToldRight
  <2>3. Learnt(k) = Entry(messages[told[k].msg])
    BY <2>2 DEF Says, Learnt, Entry, FeeText
  <2> QED BY <1>5, <2>1, <2>2, <2>3 DEF Says
<1> HIDE DEF Worthy
<1> DEFINE out == [k \in KnownCoins |-> CHOOSE o \in DueOuts :
                     Pays(o, told[k].msg) /\ DueCall(o) = Entry(messages[told[k].msg])]
<1>12. ASSUME NEW k \in KnownCoins
       PROVE  out[k] \in DueOuts /\ Pays(out[k], told[k].msg) /\ DueCall(out[k]) = Learnt(k)
  <2>1. \E o \in DueOuts : Pays(o, told[k].msg) /\ DueCall(o) = Entry(messages[told[k].msg])
    BY <1>8, <1>11
  <2> QED BY <1>11, <2>1, Zenon
<1> HIDE DEF out
<1>13. out \in Injection(KnownCoins, DueOuts)
  <2>1. DOMAIN out = KnownCoins /\ out = [k \in KnownCoins |-> out[k]]
    BY DEF out
  <2>2. out \in [KnownCoins -> DueOuts]
    BY <1>12, <2>1
  <2>3. ASSUME NEW k \in KnownCoins, NEW l \in KnownCoins, out[k] = out[l] PROVE k = l
    <3>1. messages[told[k].msg].address = messages[told[l].msg].address
      BY <1>12, <2>3
    <3>2. told[k].msg = told[l].msg
      BY <1>7, <1>11, <3>1
    <3> QED BY <1>11, <3>2, ToldOnce
  <2>4. IsInjective(out)
    BY <2>1, <2>3 DEF IsInjective
  <2> QED BY <2>2, <2>4 DEF Injection
\* An output nothing was told of belongs to a message whose call failed.
<1> DEFINE Learned == {out[k] : k \in KnownCoins}
           Missed == DueOuts \ Learned
           late == [o \in Missed |-> CHOOSE j \in Untold : Pays(o, j)]
<1>14. ASSUME NEW o \in Missed PROVE late[o] \in Untold /\ Pays(o, late[o])
  <2>1. PICK j \in Worthy : Pays(o, j)
    BY <1>9
  <2>2. j \in 1 .. Len(messages) /\ messages[j].coin = "BTC" /\ Tells(messages[j])
    BY DEF Worthy
  <2>3. Of(told, j) = {}
    <3> SUFFICES ASSUME NEW k \in 1 .. Len(told), told[k].msg = j PROVE FALSE
      BY DEF Of
    <3>1. k \in KnownCoins
      BY <2>2 DEF ToldRight, Says, KnownCoins
    <3>2. tx.outs[out[k]].addr = tx.outs[o].addr /\ out[k] \in DueOuts
      BY <1>12, <2>1, <3>1
    <3>3. out[k] = o
      BY <1>10, <3>2
    <3> QED BY <3>1, <3>3
  <2>4. j < n
    <3>1. n \in Nat /\ n > Len(messages) /\ Len(messages) \in Nat
      BY <1>3 DEF Handled, FlowTypeOK, NotifierOK
    <3> QED BY <2>2, <3>1
  <2>5. j \in Untold
    BY <2>2, <2>3, <2>4 DEF Untold, Passed
  <2> QED BY <2>1, <2>5, Zenon
<1> HIDE DEF late, Missed
<1>15. late \in Injection(Missed, Untold)
  <2>1. DOMAIN late = Missed /\ late = [o \in Missed |-> late[o]]
    BY DEF late
  <2>2. late \in [Missed -> Untold]
    BY <1>14, <2>1
  <2>3. ASSUME NEW o \in Missed, NEW p \in Missed, late[o] = late[p] PROVE o = p
    <3>1. Pays(o, late[o]) /\ Pays(p, late[o])
      BY <1>14, <2>3
    <3> QED BY <1>10, <3>1
  <2>4. IsInjective(late)
    BY <2>1, <2>3 DEF IsInjective
  <2> QED BY <2>2, <2>4 DEF Injection
<1>16. IsFiniteSet(KnownCoins) /\ Cardinality(KnownCoins) \in Nat
  <2>1. Len(told) \in Nat
    BY Appended DEF FlowTypeOK, AccountsOK, Entries, IsList
  <2>2. IsFiniteSet(1 .. Len(told))
    BY <2>1, FS_Interval
  <2>3. KnownCoins \subseteq 1 .. Len(told)
    BY DEF KnownCoins
  <2> QED BY <2>2, <2>3, FS_Subset, FS_CardinalityType
<1>17. IsFiniteSet(Learned) /\ Cardinality(Learned) <= Cardinality(KnownCoins)
  <2>1. out \in [KnownCoins -> Learned]
    BY <1>13 DEF Injection
  <2>2. \A t \in Learned : \E k \in KnownCoins : out[k] = t
    OBVIOUS
  <2> HIDE DEF Learned
  <2>3. out \in Surjection(KnownCoins, Learned)
    BY <2>1, <2>2 DEF Surjection
  <2> QED BY <1>16, <2>3, FS_Surjection
<1>18. IsFiniteSet(Missed) /\ Cardinality(Missed) <= Cardinality(Untold) /\ Cardinality(Untold) \in Nat
  BY <1>15, UntoldFact, FS_Injection
<1>19. DueOuts = Learned \cup Missed /\ Learned \cap Missed = {}
  BY <1>12 DEF Missed
<1> HIDE DEF Learned
<1>20. Cardinality(DueOuts) = Cardinality(Learned) + Cardinality(Missed) - Cardinality({})
  <2>1. Cardinality(Learned \cup Missed) =
           Cardinality(Learned) + Cardinality(Missed) - Cardinality(Learned \cap Missed)
    BY <1>17, <1>18, FS_Union
  <2> QED BY <1>19, <2>1, Zenon
<1>21. Cardinality({}) = 0 /\ Cardinality(Learned) \in Nat /\ Cardinality(Missed) \in Nat
  BY <1>17, <1>18, FS_EmptySet, FS_CardinalityType
<1>22. Cardinality(Untold) <= failed /\ failed \in Nat
  BY DEF TellsPay, FlowTypeOK, CountsOK
<1>23. Cardinality(DueOuts) <= Cardinality(KnownCoins) + failed
  BY <1>16, <1>17, <1>18, <1>20, <1>21, <1>22
<1> QED BY <1>12, <1>13, <1>23

\* In the first life of the process, each bitcoin call at the registry stands
\* for an output of its own that the registry has to learn of, and says of it
\* what it should; no more of them are missing than calls failed.
THEOREM RegistryFollowsChainCorrect == FlowSpec => []RegistryFollowsChain
<1>1. FlowInit => OncePerLife /\ StatusOfTokens /\ ToldRight /\ TellsPay
  <2> SUFFICES ASSUME FlowInit PROVE OncePerLife /\ StatusOfTokens /\ ToldRight /\ TellsPay
    OBVIOUS
  <2>1. OncePerLife
    BY OfEmpty DEF FlowInit, OncePerLife
  <2>2. StatusOfTokens /\ ToldRight
    BY DEF FlowInit, StatusOfTokens, ToldRight
  <2>3. Untold = {} /\ failed = 0
    BY DEF FlowInit, Untold, Passed
  <2>4. TellsPay
    BY <2>3, FS_EmptySet DEF TellsPay
  <2> QED BY <2>1, <2>2, <2>4
<1>2. (ParserInv /\ FlowTypeOK) /\ (ParserInv /\ FlowTypeOK)' /\ OncePerLife
        /\ [FlowNext]_<<vars, flow>> => OncePerLife'
  BY OncePerLifeNext
<1>3. ParserInv /\ FlowTypeOK /\ OncePerLife /\ ToldRight /\ TellsPay => RegistryFollowsChain
  BY RegistryLearns DEF RegistryFollowsChain, KnownCoins, Learnt
<1> QED BY <1>1, <1>2, <1>3, StatusOfTokensNext, ToldRightNext, TellsPayNext, FlowTypes, PTL DEF FlowSpec

-----------------------------------------------------------------------------
(* What the texts mean.                                                      *)

\* A booking has the amount of its message, and the fee of the transaction or
\* none.
RowsRight ==
    \A k \in 1 .. Len(rows) :
        /\ rows[k].amount = Text(messages[rows[k].msg].amount)
        /\ rows[k].fee \in {NoText, Text(fee)}

\* The inputs pay for the outputs.
Covered == SumPaid(tx.ins) >= SumPaid(tx.outs)

LEMMA CoveredNext == Covered /\ [FlowNext]_<<vars, flow>> => Covered'
<1> SUFFICES ASSUME Covered, [FlowNext]_<<vars, flow>> PROVE Covered'
  OBVIOUS
<1>1. UNCHANGED tx
  <2>1. CASE Parse
    <3>1. Next
      BY <2>1 DEF Parse
    <3>2. CASE ParseInput \/ ParseOddInput \/ LoseInput
      BY <3>2 DEF ParseInput, ParseOddInput, LoseInput
    <3>3. CASE ParseOpReturn \/ ParseOddOutput \/ ParseOutput
      BY <3>3 DEF ParseOpReturn, ParseOddOutput, ParseOutput
    <3>4. CASE ReportOmni \/ ReportCoin \/ Done
      BY <3>4 DEF ReportOmni, ReportCoin, Done, vars
    <3> QED BY <3>1, <3>2, <3>3, <3>4 DEF Next
  <2>2. CASE Deliver \/ Take \/ StatusKnown \/ StatusFails \/ Tell \/ TellFails
    BY <2>2 DEF Deliver, Take, StatusKnown, StatusFails, Tell, TellFails, vars
  <2>3. CASE LookUpUser \/ LookUpUserFails \/ LookUpCoin \/ LookUpCoinFails
    BY <2>3 DEF LookUpUser, LookUpUserFails, LookUpCoin, LookUpCoinFails, vars
  <2>4. CASE SaveFlow \/ SaveFails \/ Restart \/ FlowDone \/ UNCHANGED <<vars, flow>>
    BY <2>4 DEF SaveFlow, SaveFails, Restart, FlowDone, vars
  <2> QED BY <2>1, <2>2, <2>3, <2>4 DEF FlowNext
<1> QED BY <1>1 DEF Covered

LEMMA RowsRightNext ==
    (ParserInv /\ FlowTypeOK) /\ (ParserInv /\ FlowTypeOK)' /\ RowsRight /\ [FlowNext]_<<vars, flow>>
        => RowsRight'
<1> SUFFICES ASSUME FlowTypeOK, FlowTypeOK', RowsRight, [FlowNext]_<<vars, flow>> PROVE RowsRight'
  OBVIOUS
<1>a. AccountsOK /\ AccountsOK' /\ NotifierOK /\ IsList(rows)
  BY DEF FlowTypeOK, AccountsOK, NotifierOK, Entries, IsList
<1>b. ASSUME UNCHANGED <<vars, rows>> PROVE RowsRight'
  BY <1>b DEF RowsRight, vars
<1>1. CASE Parse
  <2>1. rows' = <<>>
    BY <1>1, <1>a DEF Parse, flow, accounts, AccountsOK
  <2> QED BY <2>1 DEF RowsRight
<1>2. CASE SaveFlow \/ SaveFails
  <2>1. UNCHANGED vars /\ (UNCHANGED rows \/ rows' = Append(rows, Rows))
    BY <1>2 DEF SaveFlow, SaveFails
  <2>2. CASE UNCHANGED rows
    BY <1>b, <2>1, <2>2
  <2>3. CASE rows' = Append(rows, Rows)
    <3>1. Rows.amount = Text(messages[n].amount) /\ Rows.msg = n /\ Rows.fee \in {NoText, Text(fee)}
      BY DEF Rows, DepositRows, WithdrawRows, Booking, m
    <3>2. UNCHANGED <<messages, fee>>
      BY <2>1 DEF vars
    <3> DEFINE x == Rows
    <3> HIDE DEF x
    <3>3. ASSUME NEW k \in 1 .. Len(rows')
          PROVE  rows'[k] = x \/ (k \in 1 .. Len(rows) /\ rows'[k] = rows[k])
      BY <1>a, <2>3, AppendedEntry DEF x
    <3>4. ASSUME NEW k \in 1 .. Len(rows')
          PROVE  /\ rows'[k].amount = Text(messages[rows'[k].msg].amount)
                 /\ rows'[k].fee \in {NoText, Text(fee)}
      <4>1. CASE rows'[k] = x
        BY <3>1, <4>1 DEF x
      <4>2. CASE k \in 1 .. Len(rows) /\ rows'[k] = rows[k]
        BY <4>2 DEF RowsRight
      <4> QED BY <3>3, <4>1, <4>2
    <3> QED BY <3>2, <3>4 DEF RowsRight
  <2> QED BY <2>1, <2>2, <2>3
<1>3. CASE Deliver \/ Take \/ StatusKnown \/ StatusFails \/ Tell \/ TellFails
  BY <1>3, <1>b DEF Deliver, Take, StatusKnown, StatusFails, Tell, TellFails, accounts
<1>4. CASE LookUpUser \/ LookUpUserFails \/ LookUpCoin \/ LookUpCoinFails
  BY <1>4, <1>b DEF LookUpUser, LookUpUserFails, LookUpCoin, LookUpCoinFails, accounts
<1>5. CASE Restart \/ FlowDone \/ UNCHANGED <<vars, flow>>
  BY <1>5, <1>b DEF Restart, FlowDone, flow, accounts
<1> QED BY <1>1, <1>2, <1>3, <1>4, <1>5 DEF FlowNext

LEMMA TextsMean ==
    ASSUME ParserInv, FlowTypeOK, ToldRight, RowsRight, Covered
    PROVE  TextsMeanValues
<1> SUFFICES ASSUME NEW s \in {told, rows}, NEW k \in 1 .. Len(s)
             PROVE  /\ Denotes(s[k].amount, messages[s[k].msg].amount, Places)
                    /\ s[k].fee # NoText => IF lost = {} THEN Denotes(s[k].fee, Fee, Places)
                                            ELSE fee >= 0 => Denotes(s[k].fee, fee, Places)
  <2> DEFINE Amounts0 == UNION {{<<s[k].amount, messages[s[k].msg].amount>> : k \in 1 .. Len(s)} : s \in {told, rows}}
             Fees0 == (UNION {{s[k].fee : k \in 1 .. Len(s)} : s \in {told, rows}}) \ {NoText}
  <2>1. ASSUME NEW t \in Amounts0 PROVE Denotes(t[1], t[2], Places)
    <3>1. PICK s \in {told, rows} : t \in {<<s[k].amount, messages[s[k].msg].amount>> : k \in 1 .. Len(s)}
      OBVIOUS
    <3>2. PICK k \in 1 .. Len(s) : t = <<s[k].amount, messages[s[k].msg].amount>>
      BY <3>1
    <3>3. t[1] = s[k].amount /\ t[2] = messages[s[k].msg].amount
      BY <3>2
    <3> QED BY <3>3
  <2>2. ASSUME NEW t \in Fees0
        PROVE  IF lost = {} THEN Denotes(t, Fee, Places) ELSE fee >= 0 => Denotes(t, fee, Places)
    <3> DEFINE Fees1 == UNION {{s[k].fee : k \in 1 .. Len(s)} : s \in {told, rows}}
    <3>0. t \in Fees1 /\ t # NoText
      <4>1. t \in Fees1 \ {NoText}
        OBVIOUS
      <4> HIDE DEF Fees1, Fees0
      <4> QED BY <4>1
    <3>1. PICK s \in {told, rows} : t \in {s[k].fee : k \in 1 .. Len(s)}
      BY <3>0
    <3>2. PICK k \in 1 .. Len(s) : t = s[k].fee
      BY <3>1
    <3>3. t # NoText
      BY <3>0
    <3> HIDE DEF Fee
    <3> QED BY <3>2, <3>3, Zenon
  <2> HIDE DEF Amounts0, Fees0, Fee
  <2>3. TextsMeanValues <=>
          /\ \A t \in Amounts0 : Denotes(t[1], t[2], Places)
          /\ \A t \in Fees0 : IF lost = {} THEN Denotes(t, Fee, Places)
                             ELSE fee >= 0 => Denotes(t, fee, Places)
    BY Zenon DEF TextsMeanValues, Amounts0, Fees0
  <2> QED BY <2>1, <2>2, <2>3, Zenon
<1>1. s[k].msg \in 1 .. Len(messages) /\ pc = "done"
  <2>1. npc # "off"
    <3>1. Len(s) # 0
      <4>1. s \in Seq(ToSet(s))
        BY DEF FlowTypeOK, AccountsOK, Entries
      <4>2. Len(s) \in Nat
        BY <4>1, LenProperties
      <4> QED BY <4>2
    <3>2. npc = "off" => s = <<>>
      BY DEF FlowTypeOK, AccountsOK
    <3> QED BY <3>1, <3>2
  <2> QED BY <2>1 DEF FlowTypeOK, AccountsOK, NotifierOK, Entries
<1>2. s[k].amount = Text(messages[s[k].msg].amount) /\ s[k].fee \in {NoText, Text(fee)}
  BY DEF ToldRight, Says, RowsRight
<1>3. messages[s[k].msg].amount \in Nat
  <2>1. messages \in Seq(Msg)
    BY DEF ParserInv, TypeOK
  <2> DEFINE j == s[k].msg
  <2> HIDE DEF j
  <2>2. j \in 1 .. Len(messages)
    BY <1>1 DEF j
  <2>3. messages[j] \in Msg
    BY <2>1, <2>2
  <2> QED BY <2>3 DEF Msg, j
<1>4. ASSUME lost = {} PROVE fee = Fee /\ Fee \in Nat
  <2>1. fee = Fee
    BY <1>1, <1>4, FeeKnown DEF Known
  <2>2. tx.ins \in Seq(In) /\ tx.outs \in Seq(Put)
    BY DEF ParserInv, TypeOK, TxOK
  <2>3. SumPaid(tx.ins) \in Int /\ SumPaid(tx.outs) \in Int
    BY <2>2, AmountsFact, SumIsInt DEF SumPaid
  <2> QED BY <2>1, <2>3 DEF Fee, Covered
<1>5. Places \in Nat
  BY FlowValues
<1>6. Denotes(s[k].amount, messages[s[k].msg].amount, Places)
  BY <1>2, <1>3, <1>5, TextMeans DEF Text
<1>7. ASSUME fee \in Nat, s[k].fee # NoText PROVE Denotes(s[k].fee, fee, Places)
  BY <1>2, <1>5, <1>7, TextMeans DEF Text
<1>8. fee \in Int
  BY DEF ParserInv, TypeOK, InputsOK
<1>9. fee >= 0 => fee \in Nat
  BY <1>8
<1> QED BY <1>4, <1>6, <1>7, <1>9

\* The amounts told and booked are decimal numbers that mean what the messages
\* say; so are the fees unless one is negative, and they mean what the
\* transaction paid if its inputs could be read.
THEOREM TextsMeanValuesCorrect == FlowSpec => []TextsMeanValues
<1>1. FlowInit => ToldRight /\ RowsRight /\ Covered
  BY DEF FlowInit, Init, Txs, ToldRight, RowsRight, Covered
<1>2. (ParserInv /\ FlowTypeOK) /\ ToldRight /\ RowsRight /\ Covered => TextsMeanValues
  BY TextsMean
<1> QED BY <1>1, <1>2, ToldRightNext, RowsRightNext, CoveredNext, FlowTypes, PTL DEF FlowSpec
=============================================================================
