------------------------- MODULE AddressBookProofs -------------------------
(* Theorems about AddressBook for every value of its constants.              *)
EXTENDS AddressBook, TLAPS

-----------------------------------------------------------------------------
(* Counters, requests and the chain.                                         *)

\* What the provers need to know of the bounds.
LEMMA BoundsFact ==
    /\ MaxIndex \in Nat /\ MaxInIndex \in Nat /\ MaxBlocks \in Nat
    /\ MaxPaid \in Nat /\ MaxStops \in Nat /\ MaxClosed \in Nat
  BY AddressBounds

\* Paths of either branch.
LEMMA PathsFact ==
    /\ \A n \in 0 .. MaxIndex : <<0, n>> \in Paths /\ <<0, n>> # NoPath
    /\ \A n \in 0 .. MaxInIndex : <<1, n>> \in Paths /\ <<1, n>> # NoPath
    /\ NoPath \notin Paths
    /\ \A f \in [Index : 0 .. MaxIndex, InIndex : 0 .. MaxInIndex, LastBlock : Int] :
         Covered(f) \subseteq Paths
  BY BoundsFact DEF Paths, NoPath, Covered

\* What appending to a sequence does.
LEMMA AppendFact ==
    ASSUME NEW S, NEW s \in Seq(S), NEW e \in S
    PROVE  /\ Append(s, e) \in Seq(S) /\ Len(Append(s, e)) = Len(s) + 1
           /\ DOMAIN Append(s, e) = 1 .. Len(s) + 1
           /\ \A i \in DOMAIN s : Append(s, e)[i] = s[i]
           /\ Append(s, e)[Len(s) + 1] = e
  OBVIOUS

\* The counters of the running process.
Counters == [Index |-> Index, InIndex |-> InIndex]

\* A request at work holds the path its counter is about to pass; once it has
\* counted, the path is covered.  On BCH change has no path.
HandlerInv ==
    /\ handler.pc = "idle" => handler.path = NoPath
    /\ handler.path # NoPath => handler.path \in addrs
    /\ handler.pc = "count" =>
         \/ handler.path = <<0, Index>> /\ Index < MaxIndex
         \/ handler.path \in {NoPath, <<1, InIndex>>} /\ InIndex < MaxInIndex
    /\ handler.pc = "reply" => handler.path \in Covered(Counters) \cup {NoPath}

\* The saved counter of blocks is not beyond the chain, and blocks pay what
\* was given.
ChainInv ==
    /\ file.LastBlock <= Len(blocks) + 1
    /\ \A h \in DOMAIN blocks : blocks[h] \in given \cup {NoPath}
    /\ phase # "closed" => unkept = 0

BookTypes == TypeOK /\ HandlerInv /\ ChainInv

LEMMA TypesInit == Init => BookTypes
<1> SUFFICES ASSUME Init PROVE BookTypes
  OBVIOUS
<1>1. ProcessOK /\ FileOK /\ PathsOK
  BY BoundsFact DEF Init, ProcessOK, FileOK, PathsOK, Idle
<1>2. ChainOK
  BY BoundsFact DEF Init, ChainOK
<1>3. HandlerInv /\ ChainInv
  BY DEF Init, HandlerInv, ChainInv, Idle
<1> QED BY <1>1, <1>2, <1>3 DEF BookTypes, TypeOK

LEMMA TypesNext == BookTypes /\ [Next]_vars => BookTypes'
<1> SUFFICES ASSUME BookTypes, [Next]_vars PROVE BookTypes'
  OBVIOUS
<1> USE BoundsFact, PathsFact DEF memory, world, history, vars
<1>a. ProcessOK /\ FileOK /\ ChainOK /\ PathsOK /\ HandlerInv /\ ChainInv
  BY DEF BookTypes, TypeOK
<1>b. Len(blocks) \in Nat /\ DOMAIN blocks = 1 .. Len(blocks)
  BY <1>a DEF ChainOK
<1>1. CASE Start
  <2>1. ProcessOK'
    BY <1>1, <1>a DEF Start, AddressInit, Idle, ProcessOK, FileOK
  <2>2. FileOK' /\ PathsOK'
    BY <1>1, <1>a DEF Start, AddressInit, Idle, FileOK, PathsOK
  <2>3. ChainOK'
    BY <1>1, <1>a, <1>b DEF Start, AddressInit, Idle, ChainOK, ChainInv, FileOK
  <2>4. HandlerInv'
    BY <1>1, <1>a DEF Start, AddressInit, Idle, HandlerInv, Counters
  <2>5. ChainInv'
    BY <1>1, <1>a DEF Start, AddressInit, Idle, ChainInv
  <2> QED BY <2>1, <2>2, <2>3, <2>4, <2>5 DEF BookTypes, TypeOK
<1>2. CASE GetAddr
  <2>1. ProcessOK'
    BY <1>2, <1>a DEF GetAddr, StoreAddrPath, ProcessOK
  <2>2. FileOK' /\ PathsOK'
    BY <1>2, <1>a DEF GetAddr, StoreAddrPath, FileOK, PathsOK
  <2>3. ChainOK'
    BY <1>2, <1>a, <1>b DEF GetAddr, StoreAddrPath, ChainOK
  <2>4. HandlerInv'
    BY <1>2, <1>a DEF GetAddr, StoreAddrPath, HandlerInv, Counters, ProcessOK
  <2>5. ChainInv'
    BY <1>2, <1>a DEF GetAddr, StoreAddrPath, ChainInv
  <2> QED BY <2>1, <2>2, <2>3, <2>4, <2>5 DEF BookTypes, TypeOK
<1>3. CASE DefaultSender
  <2>1. ProcessOK'
    BY <1>3, <1>a DEF DefaultSender, getNewAddrByBranch, ProcessOK
  <2>2. FileOK' /\ PathsOK'
    BY <1>3, <1>a DEF DefaultSender, getNewAddrByBranch, FileOK, PathsOK
  <2>3. ChainOK'
    BY <1>3, <1>a, <1>b DEF DefaultSender, getNewAddrByBranch, ChainOK
  <2>4. HandlerInv'
    BY <1>3, <1>a DEF DefaultSender, getNewAddrByBranch, HandlerInv, Counters
  <2>5. ChainInv'
    BY <1>3, <1>a DEF DefaultSender, getNewAddrByBranch, ChainInv
  <2> QED BY <2>1, <2>2, <2>3, <2>4, <2>5 DEF BookTypes, TypeOK
<1>4. ASSUME NEW b \in BOOLEAN, PrepareUnchanged(b) PROVE BookTypes'
  <2>1. ProcessOK'
    BY <1>4, <1>a DEF PrepareUnchanged, getNewAddrByBranch, ProcessOK
  <2>2. FileOK' /\ PathsOK'
    BY <1>4, <1>a DEF PrepareUnchanged, getNewAddrByBranch, FileOK, PathsOK
  <2>3. ChainOK'
    BY <1>4, <1>a, <1>b DEF PrepareUnchanged, getNewAddrByBranch, ChainOK
  <2>4. HandlerInv'
    BY <1>4, <1>a DEF PrepareUnchanged, getNewAddrByBranch, HandlerInv, Counters
  <2>5. ChainInv'
    BY <1>4, <1>a DEF PrepareUnchanged, getNewAddrByBranch, ChainInv
  <2> QED BY <2>1, <2>2, <2>3, <2>4, <2>5 DEF BookTypes, TypeOK
<1>5. ASSUME NEW b \in BOOLEAN, PrepareChange(b) PROVE BookTypes'
  <2>1. ProcessOK'
    BY <1>5, <1>a DEF PrepareChange, getNewAddrByBranch, ProcessOK
  <2>2. FileOK' /\ PathsOK'
    BY <1>5, <1>a DEF PrepareChange, getNewAddrByBranch, FileOK, PathsOK
  <2>3. ChainOK'
    BY <1>5, <1>a, <1>b DEF PrepareChange, getNewAddrByBranch, ChainOK
  <2>4. HandlerInv'
    BY <1>5, <1>a DEF PrepareChange, getNewAddrByBranch, HandlerInv, Counters, ProcessOK
  <2>5. ChainInv'
    BY <1>5, <1>a DEF PrepareChange, getNewAddrByBranch, ChainInv
  <2> QED BY <2>1, <2>2, <2>3, <2>4, <2>5 DEF BookTypes, TypeOK
<1>6. CASE Count
  <2>1. handler' = [pc |-> "reply", path |-> handler.path]
    BY <1>6, <1>a DEF Count, ProcessOK
  <2>2. ProcessOK' /\ handler.path \in Covered(Counters)' \cup {NoPath}
    <3>1. CASE handler.path = <<0, Index>> /\ Index < MaxIndex
      <4>1. Index' = Index + 1 /\ InIndex' = InIndex
        BY <1>6, <3>1 DEF Count
      <4>2. handler.path \in Covered(Counters)'
        BY <1>a, <3>1, <4>1 DEF Covered, Counters, ProcessOK
      <4> QED BY <1>6, <1>a, <2>1, <3>1, <4>1, <4>2 DEF Count, ProcessOK
    <3>2. CASE handler.path \in {NoPath, <<1, InIndex>>} /\ InIndex < MaxInIndex
      <4>1. InIndex' = InIndex + 1 /\ Index' = Index
        BY <1>6, <3>2 DEF Count, NoPath
      <4>2. handler.path \in Covered(Counters)' \cup {NoPath}
        BY <1>a, <3>2, <4>1 DEF Covered, Counters, ProcessOK
      <4> QED BY <1>6, <1>a, <2>1, <3>2, <4>1, <4>2 DEF Count, ProcessOK
    <3> QED BY <1>6, <1>a, <3>1, <3>2 DEF Count, HandlerInv
  <2>3. FileOK' /\ PathsOK'
    BY <1>6, <1>a DEF Count, FileOK, PathsOK
  <2>4. ChainOK' /\ ChainInv'
    BY <1>6, <1>a DEF Count, ChainOK, ChainInv
  <2>5. HandlerInv'
    BY <1>6, <1>a, <2>1, <2>2 DEF Count, HandlerInv
  <2> QED BY <2>2, <2>3, <2>4, <2>5 DEF BookTypes, TypeOK
<1>7. CASE Reply
  <2>1. ProcessOK'
    BY <1>7, <1>a DEF Reply, Idle, ProcessOK
  <2>2. FileOK' /\ PathsOK'
    BY <1>7, <1>a DEF Reply, Idle, FileOK, PathsOK, ProcessOK
  <2>3. ChainOK'
    BY <1>7, <1>a, <1>b DEF Reply, Idle, ChainOK
  <2>4. HandlerInv'
    BY <1>7, <1>a DEF Reply, Idle, HandlerInv, Counters
  <2>5. ChainInv'
    BY <1>7, <1>a DEF Reply, Idle, ChainInv
  <2> QED BY <2>1, <2>2, <2>3, <2>4, <2>5 DEF BookTypes, TypeOK
<1>8. ASSUME NEW p \in given \cup {NoPath}, Mine(p) PROVE BookTypes'
  <2>1. /\ blocks' \in Seq(Paths \cup {NoPath}) /\ Len(blocks') = Len(blocks) + 1
        /\ DOMAIN blocks' = 1 .. Len(blocks) + 1
        /\ \A h \in DOMAIN blocks : blocks'[h] = blocks[h]
        /\ blocks'[Len(blocks) + 1] = p
    <3>1. blocks \in Seq(Paths \cup {NoPath}) /\ p \in Paths \cup {NoPath} /\ blocks' = Append(blocks, p)
      BY <1>8, <1>a DEF Mine, ChainOK, PathsOK
    <3> HIDE DEF Paths
    <3> QED BY <3>1, AppendFact
  <2>2. ProcessOK' /\ FileOK' /\ PathsOK'
    BY <1>8, <1>a DEF Mine, ProcessOK, FileOK, PathsOK
  <2>3. LastBlock \in 1 .. Len(blocks) + 1 /\ Len(blocks) < MaxBlocks
    BY <1>8, <1>a DEF Mine, ChainOK
  <2>4. ChainOK'
    <3>1. UNCHANGED <<LastBlock, credited, missed>>
      BY <1>8 DEF Mine
    <3>2. DOMAIN blocks \subseteq DOMAIN blocks'
      BY <1>b, <2>1
    <3>3. LastBlock' \in 1 .. Len(blocks') + 1 /\ Len(blocks') <= MaxBlocks
      BY <1>b, <2>1, <2>3, <3>1
    <3> QED BY <1>a, <2>1, <3>1, <3>2, <3>3 DEF ChainOK
  <2>5. HandlerInv'
    BY <1>8, <1>a DEF Mine, HandlerInv, Counters
  <2>6. \A h \in DOMAIN blocks' : blocks'[h] \in given \cup {NoPath}
    <3> TAKE h \in DOMAIN blocks'
    <3>1. CASE h \in DOMAIN blocks
      BY <1>a, <2>1, <3>1 DEF ChainInv
    <3>2. CASE h = Len(blocks) + 1
      BY <2>1, <3>2
    <3> QED BY <1>b, <2>1, <3>1, <3>2
  <2>7. file.LastBlock \in Int
    BY <1>a DEF FileOK
  <2>8. ChainInv'
    <3>1. file.LastBlock <= Len(blocks') + 1
      BY <1>a, <1>b, <2>1, <2>7 DEF ChainInv
    <3> QED BY <1>8, <1>a, <2>6, <3>1 DEF Mine, ChainInv
  <2> QED BY <2>2, <2>4, <2>5, <2>8 DEF BookTypes, TypeOK
<1>9. CASE ReadBlock
  <2>1. ProcessOK'
    BY <1>9, <1>a DEF ReadBlock, ProcessOK
  <2>2. FileOK' /\ PathsOK'
    BY <1>9, <1>a DEF ReadBlock, FileOK, PathsOK
  <2>3. ChainOK'
    BY <1>9, <1>a, <1>b DEF ReadBlock, ChainOK
  <2>4. HandlerInv'
    BY <1>9, <1>a DEF ReadBlock, HandlerInv, Counters
  <2>5. ChainInv'
    BY <1>9, <1>a DEF ReadBlock, ChainInv
  <2> QED BY <2>1, <2>2, <2>3, <2>4, <2>5 DEF BookTypes, TypeOK
<1>10. CASE ReadUnkept
  <2>1. ProcessOK'
    BY <1>10, <1>a DEF ReadUnkept, ProcessOK
  <2>2. FileOK' /\ PathsOK'
    BY <1>10, <1>a DEF ReadUnkept, FileOK, PathsOK
  <2>3. ChainOK'
    BY <1>10, <1>a, <1>b DEF ReadUnkept, ChainOK
  <2>4. HandlerInv'
    BY <1>10, <1>a DEF ReadUnkept, HandlerInv, Counters
  <2>5. ChainInv'
    BY <1>10, <1>a DEF ReadUnkept, ChainInv
  <2> QED BY <2>1, <2>2, <2>3, <2>4, <2>5 DEF BookTypes, TypeOK
<1>11. CASE SaveBegins
  <2>1. ProcessOK'
    BY <1>11, <1>a DEF SaveBegins, ProcessOK
  <2>2. FileOK' /\ PathsOK'
    BY <1>11, <1>a DEF SaveBegins, FileOK, PathsOK, ProcessOK
  <2>3. ChainOK'
    BY <1>11, <1>a, <1>b DEF SaveBegins, ChainOK
  <2>4. HandlerInv'
    BY <1>11, <1>a DEF SaveBegins, HandlerInv, Counters
  <2>5. ChainInv'
    BY <1>11, <1>a DEF SaveBegins, ChainInv
  <2> QED BY <2>1, <2>2, <2>3, <2>4, <2>5 DEF BookTypes, TypeOK
<1>12. CASE SaveEnds
  <2>1. LastBlock \in Int /\ 1 <= LastBlock /\ LastBlock <= Len(blocks) + 1 /\ Len(blocks) <= MaxBlocks
    BY <1>a, <1>b DEF ChainOK
  <2>2. /\ file'.LastBlock \in 1 .. Len(blocks) + 1
        /\ FileOK'
    BY <1>12, <1>a, <1>b, <2>1 DEF SaveEnds, Saved, FileOK, ProcessOK
  <2>3. ProcessOK' /\ PathsOK'
    BY <1>12, <1>a DEF SaveEnds, Blank, Idle, ProcessOK, PathsOK
  <2>4. ChainOK'
    BY <1>12, <1>a, <1>b DEF SaveEnds, Blank, ChainOK
  <2>5. HandlerInv'
    BY <1>12, <1>a DEF SaveEnds, Blank, HandlerInv, Idle, Counters
  <2>6. ChainInv'
    BY <1>12, <1>a, <2>2 DEF SaveEnds, Blank, ChainInv
  <2> QED BY <2>2, <2>3, <2>4, <2>5, <2>6 DEF BookTypes, TypeOK
<1>13. CASE Interrupt
  <2>1. ProcessOK'
    BY <1>13, <1>a DEF Interrupt, ProcessOK
  <2>2. FileOK' /\ PathsOK'
    BY <1>13, <1>a DEF Interrupt, FileOK, PathsOK
  <2>3. ChainOK'
    BY <1>13, <1>a, <1>b DEF Interrupt, ChainOK
  <2>4. HandlerInv'
    BY <1>13, <1>a DEF Interrupt, HandlerInv, Counters
  <2>5. ChainInv'
    BY <1>13, <1>a DEF Interrupt, ChainInv
  <2> QED BY <2>1, <2>2, <2>3, <2>4, <2>5 DEF BookTypes, TypeOK
<1>14. CASE CloseDb
  <2>1. ProcessOK'
    BY <1>14, <1>a DEF CloseDb, ProcessOK
  <2>2. FileOK' /\ PathsOK'
    BY <1>14, <1>a DEF CloseDb, FileOK, PathsOK
  <2>3. ChainOK'
    BY <1>14, <1>a, <1>b DEF CloseDb, ChainOK
  <2>4. HandlerInv'
    BY <1>14, <1>a DEF CloseDb, HandlerInv, Counters
  <2>5. ChainInv'
    BY <1>14, <1>a DEF CloseDb, ChainInv
  <2> QED BY <2>1, <2>2, <2>3, <2>4, <2>5 DEF BookTypes, TypeOK
<1>15. CASE Crash
  <2>1. ProcessOK'
    BY <1>15, <1>a DEF Crash, Blank, Idle, ProcessOK
  <2>2. FileOK' /\ PathsOK'
    BY <1>15, <1>a DEF Crash, Blank, Idle, FileOK, PathsOK
  <2>3. ChainOK'
    BY <1>15, <1>a, <1>b DEF Crash, Blank, Idle, ChainOK
  <2>4. HandlerInv'
    BY <1>15, <1>a DEF Crash, Blank, Idle, HandlerInv, Counters
  <2>5. ChainInv'
    BY <1>15, <1>a DEF Crash, Blank, Idle, ChainInv
  <2> QED BY <2>1, <2>2, <2>3, <2>4, <2>5 DEF BookTypes, TypeOK
<1>16. CASE UNCHANGED vars
  <2>1. ProcessOK' /\ FileOK' /\ PathsOK'
    BY <1>16, <1>a DEF ProcessOK, FileOK, PathsOK
  <2>2. ChainOK' /\ ChainInv'
    BY <1>16, <1>a DEF ChainOK, ChainInv
  <2>3. HandlerInv'
    BY <1>16, <1>a DEF HandlerInv, Counters
  <2> QED BY <2>1, <2>2, <2>3 DEF BookTypes, TypeOK
<1> QED BY <1>1, <1>2, <1>3, <1>4, <1>5, <1>6, <1>7, <1>8,
           <1>9, <1>10, <1>11, <1>12, <1>13, <1>14, <1>15, <1>16 DEF Next

\* Every variable keeps its type: no counter passes its bound, the Listener is
\* never beyond the chain, and what is known of a path belongs to one that was
\* given.
THEOREM BookTypeCorrect == Spec => []TypeOK
<1>1. Spec => []BookTypes
  BY TypesInit, TypesNext, PTL DEF Spec
<1>2. BookTypes => TypeOK
  BY DEF BookTypes
<1> QED BY <1>1, <1>2, PTL

-----------------------------------------------------------------------------
(* What the counters and the file cover.                                     *)

\* The counters cover all that was handed out and not forgotten.
CountersCover ==
    /\ phase # "down" => given \ lost \subseteq Covered(Counters)
    /\ phase = "down" => handler = Idle /\ saving = -1 /\ unkept = 0

\* A save that has read Index covers all but what was handed out since.
SaveCovers ==
    /\ saving # -1 =>
         /\ saving <= Index /\ phase \in {"serve", "closed"}
         /\ given \ (lost \cup Covered([Index |-> saving, InIndex |-> InIndex])) \subseteq unread
    /\ saving # -1 /\ phase = "closed" => unread = {}

Cover == CountersCover /\ SaveCovers /\ HandedOutOnce /\ CrashCost /\ Remembered

LEMMA CoverInit == Init => Cover
  BY DEF Init, Cover, CountersCover, SaveCovers, HandedOutOnce, CrashCost, Remembered, Idle

\* More is covered when a counter grows.
LEMMA CoveredGrows ==
    ASSUME NEW m1 \in Int, NEW m2 \in Int, NEW n1 \in Int, NEW n2 \in Int, m1 <= m2, n1 <= n2
    PROVE  Covered([Index |-> m1, InIndex |-> n1]) \subseteq Covered([Index |-> m2, InIndex |-> n2])
  BY DEF Covered

\* The next path of a branch is not covered, so that nobody has it.
LEMMA NextUncovered ==
    ASSUME NEW m \in Int, NEW n \in Int
    PROVE  <<0, m>> \notin Covered([Index |-> m, InIndex |-> n])
           /\ <<1, n>> \notin Covered([Index |-> m, InIndex |-> n])
  BY DEF Covered

LEMMA CoverNext == BookTypes /\ BookTypes' /\ Cover /\ [Next]_vars => Cover'
<1> SUFFICES ASSUME BookTypes, BookTypes', Cover, [Next]_vars PROVE Cover'
  OBVIOUS
<1> USE PathsFact DEF memory, world, history, vars
<1>a. /\ ProcessOK /\ FileOK /\ PathsOK /\ HandlerInv
      /\ ProcessOK' /\ FileOK' /\ PathsOK' /\ HandlerInv'
  BY DEF BookTypes, TypeOK
<1>b. CountersCover /\ SaveCovers /\ HandedOutOnce /\ CrashCost /\ Remembered
  BY DEF Cover
<1>c. Index \in Int /\ InIndex \in Int /\ saving \in Int
  BY <1>a, BoundsFact DEF ProcessOK, FileOK
<1>1. CASE Start
  <2>1. CountersCover'
    BY <1>1, <1>a, <1>b, <1>c DEF Start, AddressInit, Idle, CountersCover, AddressInit, Covered, CrashCost, Counters, ProcessOK
  <2>2. SaveCovers'
    BY <1>1, <1>a, <1>b, <1>c DEF Start, AddressInit, Idle, SaveCovers, CountersCover
  <2>3. HandedOutOnce'
    BY <1>1, <1>a, <1>b, <1>c DEF Start, AddressInit, Idle, HandedOutOnce, CountersCover, Idle, PathsOK
  <2>4. CrashCost'
    BY <1>1, <1>a, <1>b, <1>c DEF Start, AddressInit, Idle, CrashCost
  <2>5. Remembered'
    BY <1>1, <1>a, <1>b, <1>c DEF Start, AddressInit, Idle, Remembered, AddressInit, CrashCost
  <2> QED BY <2>1, <2>2, <2>3, <2>4, <2>5 DEF Cover
<1>2. CASE GetAddr
  <2>1. CountersCover'
    BY <1>2, <1>a, <1>b, <1>c DEF GetAddr, StoreAddrPath, CountersCover, Counters
  <2>2. SaveCovers'
    BY <1>2, <1>a, <1>b, <1>c DEF GetAddr, StoreAddrPath, SaveCovers
  <2>3. HandedOutOnce'
    BY <1>2, <1>a, <1>b, <1>c, NextUncovered DEF GetAddr, StoreAddrPath, HandedOutOnce, CountersCover, Counters
  <2>4. CrashCost'
    BY <1>2, <1>a, <1>b, <1>c DEF GetAddr, StoreAddrPath, CrashCost
  <2>5. Remembered'
    BY <1>2, <1>a, <1>b, <1>c DEF GetAddr, StoreAddrPath, Remembered, StoreAddrPath
  <2> QED BY <2>1, <2>2, <2>3, <2>4, <2>5 DEF Cover
<1>3. CASE DefaultSender
  <2>1. CountersCover'
    BY <1>3, <1>a, <1>b, <1>c DEF DefaultSender, getNewAddrByBranch, CountersCover, Counters
  <2>2. SaveCovers'
    BY <1>3, <1>a, <1>b, <1>c DEF DefaultSender, getNewAddrByBranch, SaveCovers
  <2>3. HandedOutOnce'
    BY <1>3, <1>a, <1>b, <1>c DEF DefaultSender, getNewAddrByBranch, HandedOutOnce
  <2>4. CrashCost'
    BY <1>3, <1>a, <1>b, <1>c DEF DefaultSender, getNewAddrByBranch, CrashCost
  <2>5. Remembered'
    BY <1>3, <1>a, <1>b, <1>c DEF DefaultSender, getNewAddrByBranch, Remembered, getNewAddrByBranch
  <2> QED BY <2>1, <2>2, <2>3, <2>4, <2>5 DEF Cover
<1>4. ASSUME NEW b \in BOOLEAN, PrepareUnchanged(b) PROVE Cover'
  <2>1. CountersCover'
    BY <1>4, <1>a, <1>b, <1>c DEF PrepareUnchanged, getNewAddrByBranch, CountersCover, Counters
  <2>2. SaveCovers'
    BY <1>4, <1>a, <1>b, <1>c DEF PrepareUnchanged, getNewAddrByBranch, SaveCovers
  <2>3. HandedOutOnce'
    BY <1>4, <1>a, <1>b, <1>c DEF PrepareUnchanged, getNewAddrByBranch, HandedOutOnce
  <2>4. CrashCost'
    BY <1>4, <1>a, <1>b, <1>c DEF PrepareUnchanged, getNewAddrByBranch, CrashCost
  <2>5. Remembered'
    BY <1>4, <1>a, <1>b, <1>c DEF PrepareUnchanged, getNewAddrByBranch, Remembered, getNewAddrByBranch
  <2> QED BY <2>1, <2>2, <2>3, <2>4, <2>5 DEF Cover
<1>5. ASSUME NEW b \in BOOLEAN, PrepareChange(b) PROVE Cover'
  <2>1. CountersCover'
    BY <1>5, <1>a, <1>b, <1>c DEF PrepareChange, getNewAddrByBranch, CountersCover, Counters
  <2>2. SaveCovers'
    BY <1>5, <1>a, <1>b, <1>c DEF PrepareChange, getNewAddrByBranch, SaveCovers
  <2>3. HandedOutOnce'
    BY <1>5, <1>a, <1>b, <1>c, NextUncovered DEF PrepareChange, getNewAddrByBranch, HandedOutOnce, CountersCover, Counters, PathsOK
  <2>4. CrashCost'
    BY <1>5, <1>a, <1>b, <1>c DEF PrepareChange, getNewAddrByBranch, CrashCost
  <2>5. Remembered'
    BY <1>5, <1>a, <1>b, <1>c DEF PrepareChange, getNewAddrByBranch, Remembered, getNewAddrByBranch
  <2> QED BY <2>1, <2>2, <2>3, <2>4, <2>5 DEF Cover
<1>6. CASE Count
  <2>1. /\ UNCHANGED <<phase, addrs, saving, file, given, unsaved, unread, lost>>
        /\ handler' = [pc |-> "reply", path |-> handler.path] /\ phase # "down"
        /\ Index <= Index' /\ InIndex <= InIndex' /\ Index' \in Int /\ InIndex' \in Int
    BY <1>6, <1>a, <1>c DEF Count, ProcessOK
  <2>2. Covered(Counters) \subseteq Covered(Counters)'
    BY <1>c, <2>1, CoveredGrows DEF Counters
  <2>3. CountersCover'
    BY <1>b, <2>1, <2>2 DEF CountersCover
  <2>4. SaveCovers'
    <3>1. saving # -1 => Covered([Index |-> saving, InIndex |-> InIndex])
                           \subseteq Covered([Index |-> saving, InIndex |-> InIndex'])
      BY <1>c, <2>1, CoveredGrows
    <3>2. saving # -1 => saving <= Index'
      BY <1>b, <1>c, <2>1 DEF SaveCovers
    <3> QED BY <1>b, <2>1, <3>1, <3>2 DEF SaveCovers
  <2>5. HandedOutOnce' /\ CrashCost' /\ Remembered'
    BY <1>b, <2>1 DEF HandedOutOnce, CrashCost, Remembered
  <2> QED BY <2>3, <2>4, <2>5 DEF Cover
<1>7. CASE Reply
  <2>1. CountersCover'
    BY <1>7, <1>a, <1>b, <1>c DEF Reply, Idle, CountersCover, HandlerInv, Counters
  <2>2. SaveCovers'
    BY <1>7, <1>a, <1>b, <1>c DEF Reply, Idle, SaveCovers, HandlerInv
  <2>3. HandedOutOnce'
    BY <1>7, <1>a, <1>b, <1>c DEF Reply, Idle, HandedOutOnce, Idle, PathsOK
  <2>4. CrashCost'
    BY <1>7, <1>a, <1>b, <1>c DEF Reply, Idle, CrashCost
  <2>5. Remembered'
    BY <1>7, <1>a, <1>b, <1>c DEF Reply, Idle, Remembered, HandlerInv
  <2> QED BY <2>1, <2>2, <2>3, <2>4, <2>5 DEF Cover
<1>8. ASSUME NEW p \in given \cup {NoPath}, Mine(p) PROVE Cover'
  <2>1. CountersCover'
    BY <1>8, <1>a, <1>b, <1>c DEF Mine, CountersCover, Counters
  <2>2. SaveCovers'
    BY <1>8, <1>a, <1>b, <1>c DEF Mine, SaveCovers
  <2>3. HandedOutOnce'
    BY <1>8, <1>a, <1>b, <1>c DEF Mine, HandedOutOnce
  <2>4. CrashCost'
    BY <1>8, <1>a, <1>b, <1>c DEF Mine, CrashCost
  <2>5. Remembered'
    BY <1>8, <1>a, <1>b, <1>c DEF Mine, Remembered
  <2> QED BY <2>1, <2>2, <2>3, <2>4, <2>5 DEF Cover
<1>9. CASE ReadBlock
  <2>1. CountersCover'
    BY <1>9, <1>a, <1>b, <1>c DEF ReadBlock, CountersCover, Counters
  <2>2. SaveCovers'
    BY <1>9, <1>a, <1>b, <1>c DEF ReadBlock, SaveCovers
  <2>3. HandedOutOnce'
    BY <1>9, <1>a, <1>b, <1>c DEF ReadBlock, HandedOutOnce
  <2>4. CrashCost'
    BY <1>9, <1>a, <1>b, <1>c DEF ReadBlock, CrashCost
  <2>5. Remembered'
    BY <1>9, <1>a, <1>b, <1>c DEF ReadBlock, Remembered
  <2> QED BY <2>1, <2>2, <2>3, <2>4, <2>5 DEF Cover
<1>10. CASE ReadUnkept
  <2>1. CountersCover'
    BY <1>10, <1>a, <1>b, <1>c DEF ReadUnkept, CountersCover, Counters
  <2>2. SaveCovers'
    BY <1>10, <1>a, <1>b, <1>c DEF ReadUnkept, SaveCovers
  <2>3. HandedOutOnce'
    BY <1>10, <1>a, <1>b, <1>c DEF ReadUnkept, HandedOutOnce
  <2>4. CrashCost'
    BY <1>10, <1>a, <1>b, <1>c DEF ReadUnkept, CrashCost
  <2>5. Remembered'
    BY <1>10, <1>a, <1>b, <1>c DEF ReadUnkept, Remembered
  <2> QED BY <2>1, <2>2, <2>3, <2>4, <2>5 DEF Cover
<1>11. CASE SaveBegins
  <2>1. CountersCover'
    BY <1>11, <1>a, <1>b, <1>c DEF SaveBegins, CountersCover, Counters
  <2>2. SaveCovers'
    BY <1>11, <1>a, <1>b, <1>c DEF SaveBegins, SaveCovers, CountersCover, Counters
  <2>3. HandedOutOnce'
    BY <1>11, <1>a, <1>b, <1>c DEF SaveBegins, HandedOutOnce
  <2>4. CrashCost'
    BY <1>11, <1>a, <1>b, <1>c DEF SaveBegins, CrashCost
  <2>5. Remembered'
    BY <1>11, <1>a, <1>b, <1>c DEF SaveBegins, Remembered
  <2> QED BY <2>1, <2>2, <2>3, <2>4, <2>5 DEF Cover
<1>12. CASE SaveEnds
  <2>1. /\ Covered(file') = Covered([Index |-> saving, InIndex |-> InIndex])
        /\ UNCHANGED <<given, lost>> /\ unsaved' = unread /\ saving' = -1
    BY <1>12 DEF SaveEnds, Saved, Covered
  <2>2. given \ (lost \cup Covered(file')) \subseteq unread
    BY <1>12, <1>b, <2>1 DEF SaveEnds, SaveCovers
  <2>3. SaveCovers'
    BY <2>1 DEF SaveCovers
  <2>4. CASE phase = "closed"
    <3>1. phase' = "down" /\ handler' = Idle /\ unkept' = 0 /\ unread = {}
      BY <1>12, <1>b, <2>4 DEF SaveEnds, Blank, SaveCovers
    <3>2. given' \subseteq Paths
      BY <1>a DEF PathsOK
    <3>3. CountersCover' /\ HandedOutOnce' /\ Remembered'
      BY <2>1, <3>1, <3>2 DEF CountersCover, HandedOutOnce, Remembered, Idle
    <3>4. CrashCost'
      BY <2>1, <2>2, <3>1 DEF CrashCost
    <3> QED BY <2>3, <3>3, <3>4 DEF Cover
  <2>5. CASE phase # "closed"
    <3>1. UNCHANGED <<phase, addrs, Index, InIndex, handler, unkept>> /\ phase # "down"
      BY <1>12, <1>b, <2>5 DEF SaveEnds, SaveCovers
    <3>2. CountersCover' /\ HandedOutOnce' /\ Remembered'
      BY <1>b, <2>1, <3>1 DEF CountersCover, HandedOutOnce, Remembered, Counters
    <3>3. CrashCost'
      BY <2>1, <2>2, <3>1 DEF CrashCost
    <3> QED BY <2>3, <3>2, <3>3 DEF Cover
  <2> QED BY <2>4, <2>5
<1>13. CASE Interrupt
  <2>1. CountersCover'
    BY <1>13, <1>a, <1>b, <1>c DEF Interrupt, CountersCover, Counters
  <2>2. SaveCovers'
    BY <1>13, <1>a, <1>b, <1>c DEF Interrupt, SaveCovers
  <2>3. HandedOutOnce'
    BY <1>13, <1>a, <1>b, <1>c DEF Interrupt, HandedOutOnce
  <2>4. CrashCost'
    BY <1>13, <1>a, <1>b, <1>c DEF Interrupt, CrashCost
  <2>5. Remembered'
    BY <1>13, <1>a, <1>b, <1>c DEF Interrupt, Remembered
  <2> QED BY <2>1, <2>2, <2>3, <2>4, <2>5 DEF Cover
<1>14. CASE CloseDb
  <2>1. CountersCover'
    BY <1>14, <1>a, <1>b, <1>c DEF CloseDb, CountersCover, Counters
  <2>2. SaveCovers'
    BY <1>14, <1>a, <1>b, <1>c DEF CloseDb, SaveCovers, CountersCover
  <2>3. HandedOutOnce'
    BY <1>14, <1>a, <1>b, <1>c DEF CloseDb, HandedOutOnce
  <2>4. CrashCost'
    BY <1>14, <1>a, <1>b, <1>c DEF CloseDb, CrashCost
  <2>5. Remembered'
    BY <1>14, <1>a, <1>b, <1>c DEF CloseDb, Remembered
  <2> QED BY <2>1, <2>2, <2>3, <2>4, <2>5 DEF Cover
<1>15. CASE Crash
  <2>1. CountersCover'
    BY <1>15, <1>a, <1>b, <1>c DEF Crash, Blank, Idle, CountersCover
  <2>2. SaveCovers'
    BY <1>15, <1>a, <1>b, <1>c DEF Crash, Blank, Idle, SaveCovers
  <2>3. HandedOutOnce'
    BY <1>15, <1>a, <1>b, <1>c DEF Crash, Blank, Idle, HandedOutOnce, Idle, PathsOK
  <2>4. CrashCost'
    BY <1>15, <1>a, <1>b, <1>c DEF Crash, Blank, Idle, CrashCost
  <2>5. Remembered'
    BY <1>15, <1>a, <1>b, <1>c DEF Crash, Blank, Idle, Remembered
  <2> QED BY <2>1, <2>2, <2>3, <2>4, <2>5 DEF Cover
<1>16. CASE UNCHANGED vars
  BY <1>16, <1>b DEF Cover, CountersCover, SaveCovers, HandedOutOnce, CrashCost, Remembered, Counters
<1> QED BY <1>1, <1>2, <1>3, <1>4, <1>5, <1>6, <1>7, <1>8,
           <1>9, <1>10, <1>11, <1>12, <1>13, <1>14, <1>15, <1>16 DEF Next

LEMMA CoverInvariant == Spec => [](BookTypes /\ Cover)
<1>1. Init => BookTypes /\ Cover
  BY TypesInit, CoverInit
<1>2. BookTypes /\ Cover /\ [Next]_vars => (BookTypes /\ Cover)'
  BY TypesNext, CoverNext
<1> QED BY <1>1, <1>2, PTL DEF Spec

\* No address is handed out twice, over any number of hand-outs, saves, clean
\* stops and crashes, except what a crash made the wallet forget.
THEOREM HandedOutOnceCorrect == Spec => []HandedOutOnce
<1>1. BookTypes /\ Cover => HandedOutOnce
  BY DEF Cover
<1> QED BY <1>1, CoverInvariant, PTL

\* A crash costs what was handed out since the last complete save began; a
\* clean stop costs nothing.
THEOREM CrashCostCorrect == Spec => []CrashCost
<1>1. BookTypes /\ Cover => CrashCost
  BY DEF Cover
<1> QED BY <1>1, CoverInvariant, PTL

\* A running wallet recognises every address it handed out and did not forget.
THEOREM RememberedCorrect == Spec => []Remembered
<1>1. BookTypes /\ Cover => Remembered
  BY DEF Cover
<1> QED BY <1>1, CoverInvariant, PTL

-----------------------------------------------------------------------------
(* Payments.                                                                 *)

LEMMA CreditInit == Init => PaymentsCredited
  BY DEF Init, PaymentsCredited

\* The invariant of the addresses is what makes it inductive: a block read
\* pays an address that is known or forgotten.
LEMMA CreditNext ==
    (BookTypes /\ Cover) /\ (BookTypes /\ Cover)' /\ MaxClosed <= 3
      /\ PaymentsCredited /\ [Next]_vars => PaymentsCredited'
<1> SUFFICES ASSUME MaxClosed <= 3, BookTypes, BookTypes', Cover, Cover',
                    PaymentsCredited, [Next]_vars
             PROVE  PaymentsCredited'
  OBVIOUS
<1> USE DEF memory, world, history, vars
<1>a. ChainOK /\ FileOK /\ ChainInv /\ PathsOK /\ Remembered /\ CountersCover
  BY DEF BookTypes, TypeOK, Cover
<1>b. /\ LastBlock \in Int /\ file.LastBlock \in Int /\ unkept \in Int /\ unkept \in 0 .. 3
      /\ Len(blocks) \in Nat /\ DOMAIN blocks = 1 .. Len(blocks)
  <2>1. unkept \in 0 .. MaxClosed /\ MaxClosed \in Nat
    BY BoundsFact DEF BookTypes, TypeOK, ProcessOK
  <2>2. unkept \in Int /\ unkept \in 0 .. 3
    BY <2>1
  <2>3. Len(blocks) \in Nat /\ DOMAIN blocks = 1 .. Len(blocks)
    BY <1>a DEF ChainOK
  <2>4. LastBlock \in Int /\ file.LastBlock \in Int
    BY <1>a, <2>3 DEF ChainOK, FileOK
  <2> QED BY <2>2, <2>3, <2>4
<1>1. CASE Start
  BY <1>1, <1>a, <1>b DEF Start, PaymentsCredited, CountersCover
<1>2. ASSUME NEW p \in given \cup {NoPath}, Mine(p) PROVE PaymentsCredited'
  <2>1. /\ DOMAIN blocks' = 1 .. Len(blocks) + 1
        /\ \A h \in DOMAIN blocks : blocks'[h] = blocks[h]
    <3>1. blocks \in Seq(Paths \cup {NoPath}) /\ p \in Paths \cup {NoPath} /\ blocks' = Append(blocks, p)
      BY <1>2, <1>a DEF Mine, ChainOK, PathsOK
    <3> QED BY <3>1, AppendFact
  <2>2. UNCHANGED <<file, LastBlock, unkept, credited, missed>>
    BY <1>2 DEF Mine
  <2>3. file.LastBlock <= Len(blocks) + 1 /\ LastBlock <= Len(blocks) + 1
    BY <1>a, <1>b DEF ChainInv, ChainOK
  <2>4. ASSUME NEW h \in DOMAIN blocks', h < file.LastBlock \/ h < LastBlock - unkept
        PROVE  h \in DOMAIN blocks /\ blocks'[h] = blocks[h]
    BY <1>b, <2>1, <2>3, <2>4
  <2> QED BY <2>2, <2>4 DEF PaymentsCredited
<1>3. CASE ReadBlock
  <2>1. /\ LastBlock' = LastBlock + 1 /\ LastBlock \in DOMAIN blocks /\ phase \in {"serve", "closing"}
        /\ UNCHANGED <<file, blocks, unkept>> /\ unkept = 0
        /\ credited \subseteq credited' /\ missed \subseteq missed'
    BY <1>3, <1>a, <1>b DEF ReadBlock, ChainInv, ChainOK
  <2>2. blocks[LastBlock] # NoPath => LastBlock \in credited' \cup missed'
    BY <1>3, <1>a, <2>1 DEF ReadBlock, ChainInv, Remembered
  <2>3. ASSUME NEW h \in DOMAIN blocks, h < LastBlock + 1, h # LastBlock
        PROVE  h < LastBlock - unkept
    BY <1>b, <2>1, <2>3
  <2> QED BY <2>1, <2>2, <2>3 DEF PaymentsCredited
<1>4. CASE ReadUnkept
  BY <1>4, <1>b DEF ReadUnkept, PaymentsCredited
<1>5. CASE SaveEnds
  <2>1. /\ UNCHANGED <<blocks, credited, missed>>
        /\ file'.LastBlock = IF LastBlock > 3 THEN LastBlock - 3 ELSE 1
        /\ \/ UNCHANGED <<LastBlock, unkept>>
           \/ LastBlock' = 1 /\ unkept' = 0
    BY <1>5 DEF SaveEnds, Saved, Blank
  <2>2. ASSUME NEW h \in DOMAIN blocks, h < file'.LastBlock \/ h < LastBlock' - unkept'
        PROVE  h < LastBlock - unkept
    BY <1>b, <2>1, <2>2
  <2> QED BY <2>1, <2>2 DEF PaymentsCredited
<1>6. CASE Crash
  <2>1. UNCHANGED <<file, blocks, credited, missed>> /\ LastBlock' = 1 /\ unkept' = 0
    BY <1>6 DEF Crash, Blank
  <2> QED BY <1>b, <2>1 DEF PaymentsCredited
<1>7. CASE UNCHANGED <<file, LastBlock, unkept, blocks, credited, missed>>
  BY <1>7 DEF PaymentsCredited
<1>8. ASSUME NEW b \in BOOLEAN, PrepareUnchanged(b) \/ PrepareChange(b) PROVE PaymentsCredited'
  BY <1>7, <1>8 DEF PrepareUnchanged, PrepareChange
<1>9. CASE GetAddr \/ DefaultSender \/ Count \/ Reply
  BY <1>7, <1>9 DEF GetAddr, DefaultSender, Count, Reply
<1>10. CASE SaveBegins \/ Interrupt \/ CloseDb \/ UNCHANGED vars
  BY <1>7, <1>10 DEF SaveBegins, Interrupt, CloseDb
<1> QED BY <1>1, <1>2, <1>3, <1>4, <1>5, <1>6, <1>8, <1>9, <1>10 DEF Next

\* If at most three blocks are read after closeDb(), the distance the saved
\* counter keeps, every payment to an address that was handed out is in the
\* database once its block is read for good.  (With four TLC finds one that
\* is not.)
THEOREM PaymentsCreditedCorrect ==
    ASSUME MaxClosed <= 3
    PROVE  Spec => []PaymentsCredited
<1>1. Init => PaymentsCredited
  BY CreditInit
<1>2. (BookTypes /\ Cover) /\ (BookTypes /\ Cover)' /\ PaymentsCredited /\ [Next]_vars
        => PaymentsCredited'
  BY CreditNext
<1> QED BY <1>1, <1>2, CoverInvariant, PTL DEF Spec
=============================================================================
