---------------------------- MODULE AddressBook ----------------------------
(* The wallet's addresses.  An address is the path <<branch, index>> it is   *)
(* derived from: branch 0 is handed out by getAddress, branch 1 takes the    *)
(* change of trezor transactions.  The counters Index and InIndex and the    *)
(* map addrs live in memory; the counters are saved to the configuration     *)
(* file once a minute and at a clean stop, and the map is derived from them  *)
(* again at start.  The Listener credits an output only if addrs knows its   *)
(* address.  The model follows what a stop or a crash does to this.          *)
EXTENDS Integers, Sequences, FiniteSets

CONSTANTS
    MaxIndex,   \* bound: Index
    MaxInIndex, \* bound: InIndex
    MaxBlocks,  \* bound: blocks mined
    MaxPaid,    \* bound: blocks that pay to the wallet
    MaxStops,   \* bound: clean stops and crashes together
    MaxClosed   \* bound: blocks read after closeDb()

ASSUME AddressBounds ==
    /\ MaxIndex \in Nat /\ MaxInIndex \in Nat
    /\ MaxBlocks \in Nat /\ MaxPaid \in Nat /\ MaxStops \in Nat
    /\ MaxClosed \in Nat

Paths == ({0} \X (0 .. MaxIndex)) \cup ({1} \X (0 .. MaxInIndex))
NoPath == <<2, 0>>

VARIABLES
    bch,        \* the chain is BCH, whose addresses have two forms
    \* the process
    phase,      \* "down", "serve", "closing" after server.Close(), "closed" after closeDb()
    addrs,      \* known paths, under the form of address the parser looks up
    Index, InIndex, LastBlock,
    handler,    \* the request that holds the mutex m: pc and the path used
    saving,     \* the counter SaveConfiguration has read, or -1
    unkept,     \* blocks read since the database was closed
    file,       \* what the configuration file holds
    \* the world
    given,      \* paths handed out: told to a client, or used for change
    blocks,     \* height -> path paid in the block, or NoPath
    credited,   \* heights whose payment is in the utxo database
    \* bookkeeping
    unsaved,    \* paths given since the last complete save began
    unread,     \* paths given since the save in progress began
    lost,       \* paths given before a crash that the file did not cover
    missed,     \* heights read while the path they pay was lost
    stops

memory == <<addrs, Index, InIndex, LastBlock, handler, unkept>>
world == <<given, blocks, credited>>
history == <<unsaved, unread, lost, missed>>
vars == <<bch, phase, memory, saving, file, world, history, stops>>

Idle == [pc |-> "idle", path |-> NoPath]

\* The paths the counters of a file cover.
Covered(f) == ({0} \X (0 .. f.Index - 1)) \cup ({1} \X (0 .. f.InIndex - 1))

\* Mutant of AddressInit: the last address of each branch is left out.
AddressInitShort(f) == Covered([Index |-> f.Index - 1, InIndex |-> f.InIndex - 1])

\* Both calls of main, in the parser's form on every chain.
AddressInit(f) == Covered(f)

\* getNewAddrByBranch stores the legacy form, which BCH never looks up.
getNewAddrByBranch(p) == IF bch THEN addrs ELSE addrs \cup {p}

\* StoreAddrPath of the converted address.
StoreAddrPath(p) == addrs \cup {p}

\* Memory of a process that has ended.
Blank ==
    /\ addrs' = {} /\ Index' = 0 /\ InIndex' = 0 /\ LastBlock' = 1
    /\ handler' = Idle /\ unkept' = 0

Init ==
    /\ bch \in BOOLEAN
    /\ file = [Index |-> 0, InIndex |-> 0, LastBlock |-> 1]
    /\ phase = "down" /\ addrs = {} /\ Index = 0 /\ InIndex = 0 /\ LastBlock = 1
    /\ handler = Idle /\ unkept = 0 /\ saving = -1
    /\ given = {} /\ blocks = <<>> /\ credited = {}
    /\ unsaved = {} /\ unread = {} /\ lost = {} /\ missed = {} /\ stops = 0

\* The process loads the file, fills addrs, then starts Listener and server.
Start ==
    /\ phase = "down"
    /\ phase' = "serve"
    /\ addrs' = AddressInit(file)
    /\ Index' = file.Index /\ InIndex' = file.InIndex
    /\ LastBlock' = file.LastBlock
    /\ handler' = Idle /\ unkept' = 0
    /\ UNCHANGED <<bch, saving, file, world, history, stops>>

-----------------------------------------------------------------------------
\* getAddress takes the mutex, derives the next address and stores it.
GetAddr ==
    /\ phase = "serve" /\ handler = Idle /\ Index < MaxIndex
    /\ addrs' = StoreAddrPath(<<0, Index>>)
    /\ handler' = [pc |-> "count", path |-> <<0, Index>>]
    /\ UNCHANGED <<bch, phase, Index, InIndex, LastBlock, unkept, saving, file, world, history, stops>>

\* The trezor's preparation takes the mutex, derives the next change address
\* (and, without a receiver, the first one) and fails or needs no change.
PrepareUnchanged(toInner) ==
    /\ phase = "serve" /\ handler = Idle
    /\ addrs' = getNewAddrByBranch(<<1, InIndex>>)
                \cup (IF toInner THEN getNewAddrByBranch(<<1, 0>>) ELSE {})
    /\ UNCHANGED <<bch, phase, Index, InIndex, LastBlock, handler, unkept, saving,
                   file, world, history, stops>>

\* A token transfer without a sender is made from the first inner address.
DefaultSender ==
    /\ ~bch /\ phase = "serve" /\ handler = Idle
    /\ addrs' = getNewAddrByBranch(<<1, 0>>)
    /\ UNCHANGED <<bch, phase, Index, InIndex, LastBlock, handler, unkept, saving,
                   file, world, history, stops>>

\* It has change.  On BCH the conversion of the legacy change address fails
\* and leaves "": the change goes to the first input's address instead, and
\* the path is spent on nothing.
PrepareChange(toInner) ==
    /\ phase = "serve" /\ handler = Idle /\ InIndex < MaxInIndex
    /\ addrs' = getNewAddrByBranch(<<1, InIndex>>)
                \cup (IF toInner THEN getNewAddrByBranch(<<1, 0>>) ELSE {})
    /\ handler' = [pc |-> "count", path |-> IF bch THEN NoPath ELSE <<1, InIndex>>]
    /\ UNCHANGED <<bch, phase, Index, InIndex, LastBlock, unkept, saving, file, world, history, stops>>

\* The handler increments its counter, also while the server is closing.
Count ==
    /\ phase # "down" /\ handler.pc = "count"
    /\ IF handler.path[1] = 0
       THEN Index' = Index + 1 /\ UNCHANGED InIndex
       ELSE InIndex' = InIndex + 1 /\ UNCHANGED Index
    /\ handler' = [handler EXCEPT !.pc = "reply"]
    /\ UNCHANGED <<bch, phase, addrs, LastBlock, unkept, saving, file, world, history, stops>>

\* Mutant of Reply: the connections are not closed.
ReplyUnclosed ==
    /\ phase # "down" /\ handler.pc = "reply"
    /\ LET new == {handler.path} \ {NoPath}
       IN  /\ given' = given \cup new
           /\ unsaved' = unsaved \cup new
           /\ unread' = IF saving = -1 THEN {} ELSE unread \cup new
           /\ lost' = lost \ new
    /\ handler' = Idle
    /\ UNCHANGED <<bch, phase, addrs, Index, InIndex, LastBlock, unkept, saving, file,
                   blocks, credited, missed, stops>>

\* It replies and releases the mutex.  Once the connections are closed the
\* reply does not arrive.
Reply ==
    /\ phase # "down" /\ handler.pc = "reply"
    /\ LET new == IF phase = "serve" THEN {handler.path} \ {NoPath} ELSE {}
       IN  /\ given' = given \cup new
           /\ unsaved' = unsaved \cup new
           /\ unread' = IF saving = -1 THEN {} ELSE unread \cup new
           /\ lost' = lost \ new
    /\ handler' = Idle
    /\ UNCHANGED <<bch, phase, addrs, Index, InIndex, LastBlock, unkept, saving, file,
                   blocks, credited, missed, stops>>

-----------------------------------------------------------------------------
Paid == {h \in DOMAIN blocks : blocks[h] # NoPath}

\* Whoever was given an address, or holds a prepared transaction, pays it.
Mine(p) ==
    /\ Len(blocks) < MaxBlocks
    /\ p = NoPath \/ Cardinality(Paid) < MaxPaid
    /\ blocks' = Append(blocks, p)
    /\ UNCHANGED <<bch, phase, memory, saving, file, given, credited, history, stops>>

\* Mutant of ReadBlock: the block after the best one is read, too.
ReadBlockBeyond ==
    /\ phase = "serve" /\ LastBlock <= Len(blocks) + 1
    /\ LastBlock' = LastBlock + 1
    /\ credited' = IF LastBlock \in DOMAIN blocks /\ blocks[LastBlock] \in addrs
                   THEN credited \cup {LastBlock} ELSE credited
    /\ UNCHANGED <<bch, phase, addrs, Index, InIndex, handler, unkept, saving, file,
                   given, blocks, history, stops>>

\* The Listener reads a block: createUtxo if addrs knows the address.
ReadBlock ==
    /\ phase \in {"serve", "closing"} /\ LastBlock <= Len(blocks)
    /\ LastBlock' = LastBlock + 1
    /\ IF blocks[LastBlock] \in addrs
       THEN credited' = credited \cup {LastBlock} /\ UNCHANGED missed
       ELSE /\ missed' = IF blocks[LastBlock] \in lost
                         THEN missed \cup {LastBlock} ELSE missed
            /\ UNCHANGED credited
    /\ UNCHANGED <<bch, phase, addrs, Index, InIndex, handler, unkept, saving, file,
                   given, blocks, unsaved, unread, lost, stops>>

\* With the database closed createUtxo fails, and nobody looks at its error.
ReadUnkept ==
    /\ phase = "closed" /\ LastBlock <= Len(blocks) /\ unkept < MaxClosed
    /\ LastBlock' = LastBlock + 1
    /\ unkept' = unkept + 1
    /\ UNCHANGED <<bch, phase, addrs, Index, InIndex, handler, saving, file,
                   world, history, stops>>

-----------------------------------------------------------------------------
\* SaveConfiguration reads Index, without the mutex, on the ticker or at the
\* end of a clean stop.
SaveBegins ==
    /\ phase \in {"serve", "closed"} /\ saving = -1
    /\ saving' = Index
    /\ unread' = {}
    /\ UNCHANGED <<bch, phase, memory, file, world, unsaved, lost, missed, stops>>

\* Mutant of Saved: it counts on one block less.
SavedAhead(index) ==
    [Index |-> index, InIndex |-> InIndex,
     LastBlock |-> IF LastBlock > 2 THEN LastBlock - 2 ELSE 1]

\* Mutant of Saved: both keys get the value of Index.
SavedTwice(index) ==
    [Index |-> index, InIndex |-> index,
     LastBlock |-> IF LastBlock > 3 THEN LastBlock - 3 ELSE 1]

\* What it writes.  (Blocks below the first hold nothing for the wallet; the
\* wrap-around of the subtraction is in Subscriber.)
Saved(index) ==
    [Index |-> index, InIndex |-> InIndex,
     LastBlock |-> IF LastBlock > 3 THEN LastBlock - 3 ELSE 1]

\* It reads the rest and writes the file; at a stop the process ends.
SaveEnds ==
    /\ saving # -1
    /\ file' = Saved(saving)
    /\ saving' = -1
    /\ unsaved' = unread
    /\ unread' = {}
    /\ IF phase = "closed" THEN phase' = "down" /\ Blank
       ELSE UNCHANGED <<phase, memory>>
    /\ UNCHANGED <<bch, world, lost, missed, stops>>

\* SIGINT or SIGTERM, between two saves: server.Close(), then closeDb().
Interrupt ==
    /\ phase = "serve" /\ saving = -1 /\ stops < MaxStops
    /\ phase' = "closing"
    /\ stops' = stops + 1
    /\ UNCHANGED <<bch, memory, saving, file, world, history>>

CloseDb ==
    /\ phase = "closing"
    /\ phase' = "closed"
    /\ UNCHANGED <<bch, memory, saving, file, world, history, stops>>

\* The process dies: the memory and a save in progress are gone.
Crash ==
    /\ phase # "down" /\ stops < MaxStops
    /\ phase' = "down"
    /\ stops' = stops + 1
    /\ saving' = -1
    /\ lost' = lost \cup (given \ Covered(file))
    /\ unsaved' = {} /\ unread' = {}
    /\ Blank
    /\ UNCHANGED <<bch, file, world, missed>>

Next ==
    \/ Start
    \/ GetAddr \/ DefaultSender
    \/ \E toInner \in BOOLEAN : PrepareUnchanged(toInner) \/ PrepareChange(toInner)
    \/ Count \/ Reply
    \/ \E p \in given \cup {NoPath} : Mine(p)
    \/ ReadBlock \/ ReadUnkept
    \/ SaveBegins \/ SaveEnds \/ Interrupt \/ CloseDb \/ Crash

Spec == Init /\ [][Next]_vars

-----------------------------------------------------------------------------
ProcessOK ==
    /\ bch \in BOOLEAN /\ phase \in {"down", "serve", "closing", "closed"}
    /\ addrs \subseteq Paths
    /\ Index \in 0 .. MaxIndex /\ InIndex \in 0 .. MaxInIndex
    /\ handler \in [pc : {"idle", "count", "reply"}, path : Paths \cup {NoPath}]
    /\ unkept \in 0 .. MaxClosed /\ stops \in 0 .. MaxStops

FileOK ==
    /\ saving \in -1 .. MaxIndex
    /\ file \in [Index : 0 .. MaxIndex, InIndex : 0 .. MaxInIndex, LastBlock : 1 .. MaxBlocks + 1]

ChainOK ==
    /\ blocks \in Seq(Paths \cup {NoPath}) /\ Len(blocks) <= MaxBlocks
    /\ LastBlock \in 1 .. Len(blocks) + 1
    /\ credited \subseteq DOMAIN blocks /\ missed \subseteq DOMAIN blocks

PathsOK ==
    /\ given \subseteq Paths
    /\ unsaved \subseteq given /\ unread \subseteq given /\ lost \subseteq given

\* Every variable has its type; the Listener is at most one past the best
\* block.
TypeOK == ProcessOK /\ FileOK /\ ChainOK /\ PathsOK

\* No address is handed out twice (getAddress to two clients, change of two
\* transactions), over any number of clean stops, except one that a crash
\* made the wallet forget.
HandedOutOnce == handler.path \notin given \ lost

\* What a crash at this moment would make the wallet forget was handed out
\* after the last complete save began; after a clean stop that is nothing.
\* The save reads the counters without the mutex.
CrashCost ==
    /\ given \ (lost \cup Covered(file)) \subseteq unsaved
    /\ phase = "down" => given \subseteq lost \cup Covered(file)

\* A running wallet recognises every address it handed out, before and after
\* a restart, until a crash makes it forget one.
Remembered == phase # "down" => given \ lost \subseteq addrs

\* Every payment to an address that was handed out is in the utxo database
\* once the Listener has read its block for good: read while the database is
\* open, or below the saved counter, from which the next run of the process
\* starts.  The blocks read after closeDb() are read again, unless they are
\* more than the three of the saved distance.  Excepted is what was read while
\* a crash had made the wallet forget the address.
PaymentsCredited ==
    \A h \in DOMAIN blocks :
        /\ h < file.LastBlock \/ h < LastBlock - unkept
        /\ blocks[h] # NoPath
        => h \in credited \cup missed
=============================================================================
