-------------------------- MODULE BlockchainProofs --------------------------
(***************************************************************************)
(* The block thread, for every tree of blocks, every content of the blocks *)
(* and every bound on the alternative blocks: what the node commits and    *)
(* what it keeps aside are chains from the genesis block that spend        *)
(* nothing twice, and no block, switch, rollback or truncation loses a     *)
(* transaction.  In the second part, with a clock that is right, room for  *)
(* every alternative block and a fork choice that is settled once a branch *)
(* has won: no switch panics or asks for another one, the committed chain  *)
(* gives way to a better one only, and the containers of alternative       *)
(* blocks agree.                                                           *)
(***************************************************************************)
EXTENDS Blockchain, FiniteSetTheorems, SequenceTheorems, TLAPS

(***************************************************************************)
(* The inductive invariant.                                                *)
(***************************************************************************)

Child == Block \ {Genesis}

\* a chain from the genesis block on which no two blocks spend the same key image
SpendsOnce(c) ==
    \A i, j \in 1..Len(c) : i # j => BlockKi(c[i]) \cap BlockKi(c[j]) = {}
ValidChain(c) ==
    /\ c \in Seq(Block) /\ Len(c) > 0
    /\ c = PathTo[Top(c)]
    /\ SpendsOnce(c)

AltType == [chains : SUBSET Block, time : [Block -> Nat], txs : [Tx -> Nat],
            keyimages : [KeyImage -> SUBSET Block]]

\* The alternative blocks: every branch spends once, every key image is indexed.
AltSound(a) ==
    /\ a \in AltType
    /\ \A b \in a.chains : SpendsOnce(PathTo[b])
    /\ \A ki \in KeyImage : {b \in a.chains : ki \in BlockKi(b)} \subseteq a.keyimages[ki]

Switching == {"connect", "rollback", "restore", "discard", "push", "erase"}
SwitchOp  == [pc : Switching, alt_chain : Seq(Child), next : Nat, old : Seq(Child), swapped : Nat]

\* What the block thread holds at its step.
OpSound ==
    /\ op.pc \in Steps
    /\ op.pc = "main" => op.block \in Child
    /\ op.pc = "disconnect" => op.alt_chain \in Seq(Child)
    /\ op.pc \in Switching =>
          /\ op \in SwitchOp
          /\ op.swapped \in 0..Len(op.old)
          /\ op.next \in 1..(Len(op.alt_chain) + 1)
          /\ op.pc = "connect" => op.next <= Len(op.alt_chain)
    /\ op.pc \in Switching \cup {"disconnect"} =>
          Len(op.alt_chain) > 0 /\ SwitchSplit \in 1..Len(committed)

\* How far the chain it works on has moved away from the committed one.
ViewSound ==
    /\ op.pc \in {"idle", "main", "disconnect"} => blocks = committed
    /\ op.pc \in Switching =>
          /\ Len(blocks) >= SwitchSplit
          /\ SubSeq(blocks, 1, SwitchSplit) = SubSeq(committed, 1, SwitchSplit)
          /\ op.old = SubSeq(committed, SwitchSplit + 1, Len(committed))
    /\ op.pc \in {"restore", "discard"} =>
          Len(blocks) <= Len(committed) /\ blocks = SubSeq(committed, 1, Len(blocks))

DataSound ==
    /\ ValidChain(committed) /\ ValidChain(blocks)
    /\ pool \subseteq Tx
    /\ AltSound(alt)
    /\ invalid_blocks \subseteq Block
    /\ now \in 0..MaxTime
    /\ clock \in {"right", "back", "fixed"}

ChainInv == DataSound /\ OpSound /\ ViewSound

(***************************************************************************)
(* Paths and chains.                                                       *)
(***************************************************************************)

\* A prefix of a sequence, and a stretch of it.
LEMMA PrefixOf ==
    ASSUME NEW S, NEW s \in Seq(S), NEW n \in 0..Len(s)
    PROVE  /\ SubSeq(s, 1, n) \in Seq(S) /\ Len(SubSeq(s, 1, n)) = n
           /\ \A i \in 1..n : SubSeq(s, 1, n)[i] = s[i]
OBVIOUS

\* A prefix of a prefix.
LEMMA PrefixOfPrefix ==
    ASSUME NEW S, NEW s \in Seq(S), NEW n \in 0..Len(s), NEW m \in 0..n
    PROVE  SubSeq(SubSeq(s, 1, n), 1, m) = SubSeq(s, 1, m)
OBVIOUS

\* The path to a block, and the paths to the blocks on it.
LEMMA PathFacts ==
    ASSUME NEW b \in Block
    PROVE  /\ PathTo[b] \in Seq(Block) /\ Len(PathTo[b]) \in Nat /\ Len(PathTo[b]) > 0
           /\ PathTo[b][1] = Genesis /\ PathTo[b][Len(PathTo[b])] = b
           /\ \A i \in 1..Len(PathTo[b]) :
                 PathTo[b][i] \in Block /\ PathTo[PathTo[b][i]] = SubSeq(PathTo[b], 1, i)
<1>1. PathTo[b] \in Seq(Block)
    BY ChainAssumption, TreeAssumption
<1>2. Len(PathTo[b]) \in Nat /\ \A i \in 1..Len(PathTo[b]) : PathTo[b][i] \in Block
    BY <1>1, LenProperties, ElementOfSeq
<1>. QED BY <1>1, <1>2, ChainAssumption, TreeAssumption DEF Top

\* A block on a path, but for the first, is not the genesis block.
LEMMA PathChild ==
    ASSUME NEW b \in Block, NEW i \in 2..Len(PathTo[b])
    PROVE  PathTo[b][i] \in Child
<1>1. PathTo[b] \in Seq(Block) /\ i \in 1..Len(PathTo[b]) /\ i \in 0..Len(PathTo[b]) /\ i # 1
    BY PathFacts
<1>2. PathTo[b][i] \in Block /\ PathTo[PathTo[b][i]] = SubSeq(PathTo[b], 1, i)
    BY <1>1, PathFacts
<1>3. Len(SubSeq(PathTo[b], 1, i)) = i
    BY <1>1, PrefixOf
<1>4. PathTo[b][i] # Genesis
    <2>1. SUFFICES ASSUME PathTo[b][i] = Genesis PROVE FALSE
        OBVIOUS
    <2>2. Len(PathTo[Genesis]) = 1
        BY ChainAssumption, TreeAssumption
    <2>3. Len(PathTo[Genesis]) = i
        BY <1>2, <1>3, <2>1
    <2>. QED BY <1>1, <2>2, <2>3
<1>. QED BY <1>2, <1>4 DEF Child

\* Every block but the genesis block has a parent, one step before it on its path.
LEMMA ChildPath ==
    ASSUME NEW b \in Child
    PROVE  /\ b \in Block /\ Len(PathTo[b]) > 1 /\ Parent(b) \in Block
           /\ PathTo[Parent(b)] = SubSeq(PathTo[b], 1, Len(PathTo[b]) - 1)
<1>1. b \in Block /\ b # Genesis
    BY DEF Child
<1>2. Len(PathTo[b]) > 1
    BY <1>1, PathFacts
<1>3. Len(PathTo[b]) - 1 \in 1..Len(PathTo[b])
    BY <1>1, <1>2, PathFacts
<1>. QED BY <1>1, <1>2, <1>3, PathFacts DEF Parent

\* A chain is the path to each of its blocks.
LEMMA ChainFacts ==
    ASSUME NEW c, ValidChain(c)
    PROVE  /\ c \in Seq(Block) /\ Len(c) \in Nat /\ Len(c) \in 1..Len(c) /\ Top(c) \in Block
           /\ \A i \in 1..Len(c) : c[i] \in Block /\ PathTo[c[i]] = SubSeq(c, 1, i)
           /\ \A i \in 2..Len(c) : c[i] \in Child
<1>1. c \in Seq(Block) /\ Len(c) \in Nat /\ Len(c) > 0
    BY LenProperties DEF ValidChain
<1>2. Len(c) \in 1..Len(c) /\ Top(c) \in Block
    BY <1>1, ElementOfSeq DEF Top
<1>3. c = PathTo[Top(c)]
    BY DEF ValidChain
<1>. QED BY <1>1, <1>2, <1>3, PathFacts, PathChild

\* Popping blocks leaves a valid chain.
LEMMA PrefixValid ==
    ASSUME NEW c, ValidChain(c), NEW n \in 1..Len(c)
    PROVE  ValidChain(SubSeq(c, 1, n))
<1> DEFINE d == SubSeq(c, 1, n)
<1>1. c \in Seq(Block) /\ n \in 0..Len(c) /\ PathTo[c[n]] = d /\ n > 0
    <2>1. c \in Seq(Block) /\ Len(c) \in Nat
        BY ChainFacts
    <2>. QED BY <2>1, ChainFacts
<1>2. d \in Seq(Block) /\ Len(d) = n /\ \A i \in 1..n : d[i] = c[i]
    BY <1>1, PrefixOf
<1>3. Top(d) = c[n]
    BY <1>1, <1>2 DEF Top
<1> HIDE DEF d
<1>4. SpendsOnce(d)
    <2>1. \A i \in 1..n : i \in 1..Len(c)
        BY <1>1
    <2>. QED BY <1>2, <2>1 DEF ValidChain, SpendsOnce
<1>5. ValidChain(d)
    BY <1>1, <1>2, <1>3, <1>4 DEF ValidChain
<1>. QED BY <1>5 DEF d

\* A block on top of a chain, spending nothing that the chain spends, extends it.
LEMMA ExtendValid ==
    ASSUME NEW c, ValidChain(c), NEW b \in Child, Parent(b) = Top(c),
           BlockKi(b) \cap Spent(c) = {}
    PROVE  ValidChain(Append(c, b))
<1> DEFINE d == Append(c, b)
           p == PathTo[b]
<1>1. c \in Seq(Block) /\ Len(c) \in Nat /\ Len(c) > 0 /\ c = PathTo[Top(c)]
    BY ChainFacts DEF ValidChain
<1>2. b \in Block /\ p \in Seq(Block) /\ Len(p) \in Nat /\ Len(p) > 1 /\ p[Len(p)] = b
    BY ChildPath, PathFacts DEF Child
<1>3. c = SubSeq(p, 1, Len(p) - 1)
    BY <1>1, ChildPath
<1>4. d \in Seq(Block) /\ Len(d) = Len(c) + 1 /\ d[Len(c) + 1] = b
      /\ \A i \in 1..Len(c) : d[i] = c[i]
    BY <1>1, <1>2
<1>5. Len(c) = Len(p) - 1 /\ \A i \in 1..Len(c) : c[i] = p[i]
    BY <1>2, <1>3, PrefixOf
<1>6. d = p
    <2>1. Len(d) = Len(p) /\ \A i \in 1..Len(d) : d[i] = p[i]
        BY <1>1, <1>2, <1>4, <1>5
    <2>. QED BY <1>2, <1>4, <2>1, SeqEqual
<1>7. Top(d) = b
    BY <1>1, <1>4 DEF Top
<1>8. \A i \in 1..Len(c) : BlockKi(b) \cap BlockKi(c[i]) = {}
    <2>1. DOMAIN c = 1..Len(c)
        BY <1>1
    <2>. QED BY <2>1 DEF Spent
<1>9. SpendsOnce(d)
    <2> HIDE DEF d
    <2>1. \A i, j \in 1..Len(c) : i # j => BlockKi(d[i]) \cap BlockKi(d[j]) = {}
        BY <1>4 DEF ValidChain, SpendsOnce
    <2>2. \A i \in 1..Len(c) : BlockKi(d[i]) \cap BlockKi(b) = {}
        BY <1>4, <1>8
    <2>3. \A i \in 1..Len(d) : i \in 1..Len(c) \/ i = Len(c) + 1
        BY <1>1, <1>4
    <2>. QED BY <1>4, <2>1, <2>2, <2>3 DEF SpendsOnce
<1>. QED BY <1>1, <1>4, <1>6, <1>7, <1>9 DEF ValidChain

\* What the checks of the main chain let through spends nothing twice.
LEMMA ConnectableSpends ==
    ASSUME NEW b \in Child, NEW onboard, Connectable(b, onboard)
    PROVE  Parent(b) = Top(blocks) /\ BlockKi(b) \cap Spent(blocks) = {}
<1>1. Parent(b) = Top(blocks) /\ MinerKi[b] \cap Spent(blocks) = {}
    BY DEF Connectable, HeaderOk
<1>2. \A t \in TxSet(b) : KiOf[t] \cap Spent(blocks) = {}
    BY DEF Connectable, TxOk, TxSet
<1>. QED BY <1>1, <1>2 DEF BlockKi

(***************************************************************************)
(* Alternative blocks.                                                     *)
(***************************************************************************)

\* What goes into the containers is sound if the new branch is.
LEMMA AddAlt ==
    ASSUME NEW a, AltSound(a), NEW b \in Block, SpendsOnce(PathTo[b]), now \in Nat
    PROVE  AltSound(add_alt_block(a, b))
<1> DEFINE n == add_alt_block(a, b)
<1>1. a \in AltType
    BY DEF AltSound
<1>2. /\ n.chains = a.chains \cup {b}
      /\ n.keyimages = [ki \in KeyImage |-> IF ki \in BlockKi(b) THEN a.keyimages[ki] \cup {b}
                                                 ELSE a.keyimages[ki]]
    BY DEF add_alt_block
<1>3. n \in AltType
    BY <1>1 DEF add_alt_block, AltType
<1>4. \A c \in n.chains : SpendsOnce(PathTo[c])
    BY <1>2 DEF AltSound
<1>5. \A ki \in KeyImage : {c \in n.chains : ki \in BlockKi(c)} \subseteq n.keyimages[ki]
    BY <1>2 DEF AltSound
<1>. QED BY <1>3, <1>4, <1>5 DEF AltSound

\* Taking blocks out of the containers leaves them sound, whatever transactions are found.
LEMMA EraseAlt ==
    ASSUME NEW a, AltSound(a), NEW S \in SUBSET Block, NEW found
    PROVE  AltSound(do_erase_altblocks(a, S, found))
<1> DEFINE n == do_erase_altblocks(a, S, found)
           related(t) == Cardinality({b \in S : t \in TxSet(b)})
<1>1. a \in AltType
    BY DEF AltSound
<1>2. \A t : related(t) \in Nat
    <2>1. ASSUME NEW t PROVE related(t) \in Nat
        <3>1. {b \in S : t \in TxSet(b)} \in SUBSET Block
            OBVIOUS
        <3>2. IsFiniteSet({b \in S : t \in TxSet(b)})
            BY <3>1, ChainAssumption, TreeAssumption, FS_Subset
        <3>. QED BY <3>2, FS_CardinalityType
    <2>. QED BY <2>1
<1> DEFINE T == [t \in Tx |-> IF a.txs[t] > related(t) THEN a.txs[t] - related(t) ELSE 0]
           K == [ki \in KeyImage |-> a.keyimages[ki] \ {b \in S : ki \in PurgedKi(b, found)}]
<1>3. n = [a EXCEPT !.chains = a.chains \ S, !.txs = T, !.keyimages = K]
    BY DEF do_erase_altblocks
<1>4. T \in [Tx -> Nat]
    <2>1. \A t \in Tx : a.txs[t] \in Nat
        BY <1>1 DEF AltType
    <2> HIDE DEF related
    <2>. QED BY <1>2, <2>1
<1>5. K \in [KeyImage -> SUBSET Block] /\ \A ki \in KeyImage : a.keyimages[ki] \ S \subseteq K[ki]
    BY <1>1 DEF AltType
<1> HIDE DEF n, T, K
<1>6. n \in AltType /\ n.chains = a.chains \ S /\ n.keyimages = K
    BY <1>1, <1>3, <1>4, <1>5 DEF AltType
<1>7. \A ki \in KeyImage : {c \in n.chains : ki \in BlockKi(c)} \subseteq n.keyimages[ki]
    BY <1>5, <1>6 DEF AltSound
<1>8. AltSound(n)
    BY <1>6, <1>7 DEF AltSound
<1>. QED BY <1>8 DEF n

\* prune_aged_alt_blocks, although it leaves what it drops indexed.
LEMMA PruneAlt ==
    ASSUME NEW a, AltSound(a), NEW c, NEW D, NEW found
    PROVE  AltSound(prune_aged_alt_blocks(a, c, D, found))
<1> DEFINE e == do_erase_altblocks(a, AgedAltBlocks(a, c), found)
           n == prune_aged_alt_blocks(a, c, D, found)
<1>1. AgedAltBlocks(a, c) \in SUBSET Block
    BY DEF AgedAltBlocks, AltSound, AltType
<1>2. AltSound(e)
    BY <1>1, EraseAlt
<1>3. n = [e EXCEPT !.chains = @ \ D]
    BY DEF prune_aged_alt_blocks
<1> HIDE DEF e, n
<1>4. /\ n \in AltType /\ n.chains \subseteq e.chains /\ n.keyimages = e.keyimages
    BY <1>2, <1>3 DEF AltSound, AltType
<1>5. AltSound(n)
    BY <1>2, <1>4 DEF AltSound
<1>. QED BY <1>5 DEF n

\* The end of handle_alternative_block.
LEMMA StoredSound ==
    ASSUME NEW a, AltSound(a), StoredOrPruned(a)
    PROVE  AltSound(alt')
BY PruneAlt DEF StoredOrPruned

\* A set of numbers that is not empty has a least one: the intervals up to them are finite.
LEMMA Least ==
    ASSUME NEW T \in SUBSET Nat, T # {}
    PROVE  \E i \in T : \A j \in T : i <= j
<1> DEFINE I == {1..i : i \in T}
<1>1. I \subseteq FiniteSubsetsOf(Nat) /\ I # {}
    <2>1. \A i \in T : IsFiniteSet(1..i)
        BY FS_Interval
    <2>2. \A i \in T : 1..i \in SUBSET Nat
        OBVIOUS
    <2>3. \A i \in T : 1..i \in FiniteSubsetsOf(Nat)
        BY <2>1, <2>2 DEF FiniteSubsetsOf
    <2>4. \E i \in T : 1..i \in I
        OBVIOUS
    <2>. QED BY <2>3, <2>4
<1>2. PICK x \in I : \A y \in I : ~(<<y, x>> \in StrictSubsetOrdering(Nat))
    <2> HIDE DEF I
    <2>. QED BY <1>1, FS_StrictSubsetOrderingWellFounded, WFMin
<1>3. PICK i \in T : x = 1..i
    OBVIOUS
<1>4. ASSUME NEW j \in T PROVE i <= j
    <2>1. SUFFICES ASSUME j < i PROVE FALSE
        OBVIOUS
    <2>2. 1..j \subseteq 1..i /\ 1..j # 1..i
        BY <2>1
    <2>3. <<1..j, 1..i>> \in StrictSubsetOrdering(Nat)
        BY <2>2 DEF StrictSubsetOrdering
    <2>. QED BY <1>2, <1>3, <2>3
<1>. QED BY <1>4

\* The alternative ancestors of a block are a stretch of its path.
LEMMA AltAncestorsShape ==
    ASSUME NEW b \in Block
    PROVE  \E low \in 1..Len(PathTo[b]) :
              /\ AltAncestors(b) = SubSeq(PathTo[b], low, Len(PathTo[b]) - 1)
              /\ \A j \in low..(Len(PathTo[b]) - 1) : PathTo[b][j] \in alt.chains
<1> DEFINE path == PathTo[b]
           from == {i \in 1..Len(path) : \A j \in i..(Len(path) - 1) : path[j] \in alt.chains}
           low  == CHOOSE i \in from : \A j \in from : i <= j
<1>1. Len(path) \in Nat /\ Len(path) > 0
    BY PathFacts
<1>2. from \in SUBSET Nat /\ Len(path) \in from
    BY <1>1
<1>3. \E i \in from : \A j \in from : i <= j
    <2> HIDE DEF from
    <2>. QED BY <1>2, Least
<1>4. low \in from
    <2> HIDE DEF from
    <2>. QED BY <1>3
<1>5. AltAncestors(b) = SubSeq(path, low, Len(path) - 1)
    BY DEF AltAncestors
<1> HIDE DEF low
<1>. QED BY <1>4, <1>5

\* What a block contains.
LEMMA ContentType ==
    ASSUME NEW b \in Block
    PROVE  TxSet(b) \subseteq Tx /\ BlockKi(b) \subseteq KeyImage
<1>1. TxsOf[b] \in Seq(Tx) /\ MinerKi[b] \subseteq KeyImage
    BY ChainAssumption, TreeAssumption
<1>2. \A i \in DOMAIN TxsOf[b] : TxsOf[b][i] \in Tx
    BY <1>1
<1>3. TxSet(b) \subseteq Tx
    BY <1>2 DEF TxSet
<1>4. \A t \in Tx : KiOf[t] \subseteq KeyImage
    BY ChainAssumption, TreeAssumption
<1>. QED BY <1>1, <1>3, <1>4 DEF BlockKi

\* A block that handle_alternative_block accepts: its path leaves the main chain above the
\* genesis block, goes on through alternative blocks, and spends nothing twice.
LEMMA AcceptedSpends ==
    ASSUME ChainInv, NEW b \in Child, NEW onboard, AltAcceptable(b, onboard)
    PROVE  /\ SpendsOnce(PathTo[b])
           /\ LET c == Append(AltAncestors(b), b)
              IN  c \in Seq(Child) /\ Len(c) > 0 /\ Height(c[1]) \in 1..Len(blocks)
<1> DEFINE p == PathTo[b]
           n == Len(p)
<1>1. b \in Block /\ p \in Seq(Block) /\ n \in Nat /\ n > 1 /\ p[n] = b
    BY ChildPath, PathFacts DEF Child
<1>2. PICK low \in 1..n : /\ AltAncestors(b) = SubSeq(p, low, n - 1)
                          /\ \A j \in low..(n - 1) : p[j] \in alt.chains
    BY <1>1, AltAncestorsShape
<1> DEFINE s == low - 1
<1>3. /\ Len(AltAncestors(b)) = n - low
      /\ \A i \in 1..(n - low) : AltAncestors(b)[i] = p[low + i - 1]
      /\ AltAncestors(b) \in Seq(Block)
    <2>1. \A i \in low..(n - 1) : p[i] \in Block
        BY <1>1, ElementOfSeq
    <2>2. low \in Int /\ n - 1 \in Int
        BY <1>1
    <2>. QED BY <1>1, <1>2, <2>1, <2>2, SubSeqProperties
<1>4. SplitHeight(b) = s
    BY <1>1, <1>3 DEF SplitHeight, Height
<1>5. s \in 1..Len(blocks) /\ blocks[s] = p[s] /\ s \in 1..(n - 1)
    <2>1. s > 0 /\ Len(blocks) >= s /\ blocks[s] = p[s]
        BY <1>4 DEF AltAcceptable, ConnectedToMain
    <2>2. Len(blocks) \in Nat
        BY ChainFacts DEF ChainInv, DataSound
    <2>. QED BY <1>1, <2>1, <2>2
<1>6. \A i \in 1..s : p[i] = blocks[i]
    <2>1. SubSeq(p, 1, s) = SubSeq(blocks, 1, s)
        <3>1. PathTo[p[s]] = SubSeq(p, 1, s)
            BY <1>1, <1>5, PathFacts
        <3>2. PathTo[blocks[s]] = SubSeq(blocks, 1, s)
            BY <1>5, ChainFacts DEF ChainInv, DataSound
        <3>. QED BY <1>5, <3>1, <3>2
    <2>2. blocks \in Seq(Block) /\ s \in 0..Len(blocks) /\ s \in 0..n
        BY <1>1, <1>5, ChainFacts DEF ChainInv, DataSound
    <2>. QED BY <1>1, <2>1, <2>2, PrefixOf
<1>7. \A i \in 1..s : BlockKi(b) \cap BlockKi(p[i]) = {}
    <2>1. BlockKi(b) \cap Spent(SubSeq(blocks, 1, s)) = {}
        BY <1>4 DEF AltAcceptable, validate_alt_block_txs
    <2>2. /\ SubSeq(blocks, 1, s) \in Seq(Block) /\ Len(SubSeq(blocks, 1, s)) = s
          /\ \A i \in 1..s : SubSeq(blocks, 1, s)[i] = blocks[i]
        BY <1>5, ChainFacts, PrefixOf DEF ChainInv, DataSound
    <2>3. DOMAIN SubSeq(blocks, 1, s) = 1..s
        BY <2>2
    <2>4. \A i \in 1..s : BlockKi(blocks[i]) \subseteq Spent(SubSeq(blocks, 1, s))
        BY <2>2, <2>3 DEF Spent
    <2>. QED BY <1>6, <2>1, <2>4
<1>8. \A i \in low..(n - 1) : BlockKi(b) \cap BlockKi(p[i]) = {}
    <2>1. SUFFICES ASSUME NEW i \in low..(n - 1), NEW ki \in BlockKi(b), ki \in BlockKi(p[i])
                   PROVE  FALSE
        OBVIOUS
    <2>2. p[i] \in SeqSet(AltAncestors(b))
        <3>1. i - low + 1 \in 1..(n - low) /\ low + (i - low + 1) - 1 = i
            BY <1>1
        <3>2. AltAncestors(b)[i - low + 1] = p[i]
            BY <1>3, <3>1
        <3>3. DOMAIN AltAncestors(b) = 1..(n - low)
            BY <1>3
        <3>. QED BY <3>1, <3>2, <3>3 DEF SeqSet
    <2>3. ki \in KeyImage
        BY <1>1, <2>1, ContentType
    <2>4. p[i] \in alt.keyimages[ki]
        BY <1>2, <2>1, <2>3 DEF ChainInv, DataSound, AltSound
    <2>. QED BY <2>1, <2>2, <2>4 DEF AltAcceptable, validate_alt_block_txs
<1>9. SpendsOnce(SubSeq(p, 1, n - 1))
    <2>1. CASE low = n
        <3>1. s = n - 1 /\ SubSeq(p, 1, n - 1) = SubSeq(blocks, 1, n - 1)
            <4>1. PathTo[p[s]] = SubSeq(p, 1, s)
                BY <1>1, <1>5, PathFacts
            <4>2. PathTo[blocks[s]] = SubSeq(blocks, 1, s)
                BY <1>5, ChainFacts DEF ChainInv, DataSound
            <4>. QED BY <1>1, <1>5, <2>1, <4>1, <4>2
        <3>. QED BY <1>5, <3>1, PrefixValid DEF ChainInv, DataSound, ValidChain
    <2>2. CASE low # n
        <3>1. n - 1 \in low..(n - 1) /\ n - 1 \in 1..n
            BY <1>1, <2>2
        <3>2. PathTo[p[n - 1]] = SubSeq(p, 1, n - 1)
            BY <1>1, <3>1, PathFacts
        <3>. QED BY <1>2, <3>1, <3>2 DEF ChainInv, DataSound, AltSound
    <2>. QED BY <2>1, <2>2
<1>10. SpendsOnce(p)
    <2>1. \A i \in 1..(n - 1) : BlockKi(b) \cap BlockKi(p[i]) = {}
        <3>1. \A i \in 1..(n - 1) : i \in 1..s \/ i \in low..(n - 1)
            BY <1>1
        <3>. QED BY <1>7, <1>8, <3>1
    <2>2. \A i, j \in 1..(n - 1) : i # j => BlockKi(p[i]) \cap BlockKi(p[j]) = {}
        <3>1. n - 1 \in 0..n
            BY <1>1
        <3>2. /\ Len(SubSeq(p, 1, n - 1)) = n - 1
              /\ \A i \in 1..(n - 1) : SubSeq(p, 1, n - 1)[i] = p[i]
            BY <1>1, <3>1, PrefixOf
        <3>. QED BY <1>9, <3>2 DEF SpendsOnce
    <2>3. \A i \in 1..n : i \in 1..(n - 1) \/ i = n
        BY <1>1
    <2>. QED BY <1>1, <2>1, <2>2, <2>3 DEF SpendsOnce
<1> DEFINE c == Append(AltAncestors(b), b)
<1>11. c \in Seq(Child) /\ Len(c) > 0
    <2>1. \A i \in 1..(n - low) : AltAncestors(b)[i] \in Child
        <3>1. \A i \in 1..(n - low) : low + i - 1 \in 2..n
            BY <1>1, <1>5
        <3>. QED BY <1>1, <1>3, <3>1, PathChild
    <2>2. AltAncestors(b) \in Seq(Child)
        BY <1>3, <2>1
    <2>. QED BY <2>2
<1>12. Height(c[1]) = s
    <2>1. c[1] = p[low] /\ low \in 0..n
        <3>1. CASE low = n
            BY <1>1, <1>3, <3>1
        <3>2. CASE low # n
            BY <1>1, <1>3, <3>2
        <3>. QED BY <3>1, <3>2
    <2>2. PathTo[p[low]] = SubSeq(p, 1, low)
        BY <1>1, PathFacts
    <2>3. Len(PathTo[p[low]]) = low
        BY <1>1, <2>1, <2>2, PrefixOf
    <2>. QED BY <2>1, <2>3 DEF Height
<1> HIDE DEF p, s
<1>. QED BY <1>5, <1>10, <1>11, <1>12 DEF p

(***************************************************************************)
(* The steps of the block thread.                                          *)
(***************************************************************************)

\* The transactions of a chain.
LEMMA ChainTxs ==
    ASSUME NEW c \in Seq(Block)
    PROVE  MainTxs(c) \subseteq Tx /\ MainTxs(c) = UNION {TxSet(c[i]) : i \in 1..Len(c)}
<1>1. DOMAIN c = 1..Len(c) /\ \A i \in 1..Len(c) : c[i] \in Block
    BY ElementOfSeq
<1>2. MainTxs(c) = UNION {TxSet(c[i]) : i \in 1..Len(c)}
    BY <1>1 DEF MainTxs
<1>3. ASSUME NEW t \in MainTxs(c) PROVE t \in Tx
    <2>1. PICK i \in 1..Len(c) : t \in TxSet(c[i])
        BY <1>2, <1>3
    <2>. QED BY <1>1, <2>1, ContentType
<1>. QED BY <1>2, <1>3

\* A block is put on top of the chain the block thread works on.
LEMMA ConnectStep ==
    ASSUME ChainInv, NEW b \in Child, NEW onboard, Connectable(b, onboard), ConnectBlock(b)
    PROVE  /\ ValidChain(blocks') /\ Len(blocks') = Len(blocks) + 1 /\ blocks'[Len(blocks) + 1] = b
           /\ \A n \in 0..Len(blocks) : SubSeq(blocks', 1, n) = SubSeq(blocks, 1, n)
           /\ pool' \subseteq Tx
<1>1. blocks \in Seq(Block) /\ Len(blocks) \in Nat /\ b \in Block /\ blocks' = Append(blocks, b)
    BY ChainFacts DEF ChainInv, DataSound, Child, ConnectBlock
<1>2. ValidChain(blocks')
    BY <1>1, ConnectableSpends, ExtendValid DEF ChainInv, DataSound
<1>3. Len(blocks') = Len(blocks) + 1 /\ blocks'[Len(blocks) + 1] = b
    BY <1>1
<1>4. ASSUME NEW n \in 0..Len(blocks) PROVE SubSeq(blocks', 1, n) = SubSeq(blocks, 1, n)
    BY <1>1, <1>4
<1>. QED BY <1>2, <1>3, <1>4 DEF ChainInv, DataSound, ConnectBlock

\* A block that fails gives its transactions to the pool.
LEMMA PurgeType ==
    ASSUME ChainInv, NEW b \in Block, NEW onboard
    PROVE  /\ purge_block_data_from_blockchain(b, onboard) \subseteq Tx
           /\ pool \subseteq purge_block_data_from_blockchain(b, onboard)
<1>1. Processed(b, onboard) \subseteq TxSet(b)
    BY DEF Processed, TxSet
<1>. QED BY <1>1, ContentType DEF ChainInv, DataSound, purge_block_data_from_blockchain

\* Blocks are popped.
LEMMA PopStep ==
    ASSUME ChainInv, NEW n \in 1..Len(blocks), PopBlocks(n)
    PROVE  /\ blocks' = SubSeq(blocks, 1, n) /\ ValidChain(blocks') /\ Len(blocks') = n
           /\ pool' \subseteq Tx
           /\ pool \subseteq pool' /\ MainTxs(blocks) \subseteq pool' \cup MainTxs(blocks')
<1>1. blocks \in Seq(Block) /\ Len(blocks) \in Nat /\ n \in 0..Len(blocks)
    BY ChainFacts DEF ChainInv, DataSound
<1> DEFINE head == SubSeq(blocks, 1, n)
           tail == SubSeq(blocks, n + 1, Len(blocks))
<1>2. head \in Seq(Block) /\ Len(head) = n /\ \A i \in 1..n : head[i] = blocks[i]
    BY <1>1, PrefixOf
<1>3. /\ tail \in Seq(Block) /\ Len(tail) = Len(blocks) - n
      /\ \A i \in 1..(Len(blocks) - n) : tail[i] = blocks[n + i]
    <2>1. \A i \in (n + 1)..Len(blocks) : blocks[i] \in Block
        BY <1>1, ElementOfSeq
    <2>. QED BY <1>1, <2>1, SubSeqProperties
<1>4. blocks' = head /\ pool' = pool \cup MainTxs(tail)
    BY DEF PopBlocks
<1>5. ValidChain(head)
    BY PrefixValid DEF ChainInv, DataSound
<1> HIDE DEF head, tail
<1>6. ASSUME NEW t \in MainTxs(blocks) PROVE t \in MainTxs(tail) \cup MainTxs(head)
    <2>1. PICK i \in 1..Len(blocks) : t \in TxSet(blocks[i])
        BY <1>1, <1>6, ChainTxs
    <2>2. CASE i <= n
        <3>1. i \in 1..n /\ t \in TxSet(head[i])
            BY <1>1, <1>2, <2>1, <2>2
        <3>. QED BY <1>2, <3>1, ChainTxs
    <2>3. CASE i > n
        <3>1. i - n \in 1..(Len(blocks) - n) /\ n + (i - n) = i
            BY <1>1, <2>3
        <3>2. t \in TxSet(tail[i - n])
            BY <1>3, <2>1, <3>1
        <3>. QED BY <1>3, <3>1, <3>2, ChainTxs
    <2>. QED BY <1>1, <2>2, <2>3
<1>7. pool' \subseteq Tx
    BY <1>3, <1>4, ChainTxs DEF ChainInv, DataSound
<1>. QED BY <1>2, <1>4, <1>5, <1>6, <1>7 DEF head

\* What the block thread knows while it switches.
LEMMA SwitchFacts ==
    ASSUME ChainInv, op.pc \in Switching
    PROVE  /\ op \in SwitchOp /\ op.alt_chain \in Seq(Child) /\ op.old \in Seq(Child)
           /\ Len(op.alt_chain) \in Nat /\ Len(op.alt_chain) > 0 /\ Len(op.old) \in Nat
           /\ Len(blocks) \in Nat /\ Len(committed) \in Nat
           /\ SwitchSplit \in 1..Len(committed) /\ SwitchSplit \in 1..Len(blocks)
           /\ op.next \in 1..(Len(op.alt_chain) + 1) /\ op.swapped \in 0..Len(op.old)
           /\ Len(op.old) = Len(committed) - SwitchSplit
           /\ \A i \in 1..Len(op.old) : op.old[i] = committed[SwitchSplit + i]
<1>1. /\ op \in SwitchOp /\ Len(op.alt_chain) > 0 /\ SwitchSplit \in 1..Len(committed)
      /\ op.next \in 1..(Len(op.alt_chain) + 1) /\ op.swapped \in 0..Len(op.old)
    BY DEF ChainInv, OpSound
<1>2. op.alt_chain \in Seq(Child) /\ op.old \in Seq(Child)
    BY <1>1 DEF SwitchOp
<1>3. Len(op.alt_chain) \in Nat /\ Len(op.old) \in Nat
    BY <1>2, LenProperties
<1>4. committed \in Seq(Block) /\ Len(blocks) \in Nat /\ Len(committed) \in Nat
    BY ChainFacts DEF ChainInv, DataSound
<1>5. SwitchSplit \in 1..Len(blocks)
    BY <1>1, <1>4 DEF ChainInv, ViewSound
<1>6. /\ Len(op.old) = Len(committed) - SwitchSplit
      /\ \A i \in 1..Len(op.old) : op.old[i] = committed[SwitchSplit + i]
    <2>1. op.old = SubSeq(committed, SwitchSplit + 1, Len(committed))
        BY DEF ChainInv, ViewSound
    <2>2. \A i \in (SwitchSplit + 1)..Len(committed) : committed[i] \in Block
        BY <1>1, <1>4, ElementOfSeq
    <2>3. SwitchSplit + 1 \in Int /\ Len(committed) \in Int
        BY <1>1, <1>4
    <2>4. /\ Len(op.old) = IF SwitchSplit + 1 <= Len(committed)
                            THEN Len(committed) - (SwitchSplit + 1) + 1 ELSE 0
          /\ \A i \in 1..(Len(committed) - (SwitchSplit + 1) + 1) :
                op.old[i] = committed[(SwitchSplit + 1) + i - 1]
        BY <2>1, <2>2, <2>3, SubSeqProperties
    <2>5. Len(op.old) = Len(committed) - SwitchSplit
        BY <1>1, <1>4, <2>4
    <2>6. \A i \in 1..Len(op.old) : (SwitchSplit + 1) + i - 1 = SwitchSplit + i
        BY <1>1, <1>3
    <2>. QED BY <1>1, <1>4, <2>4, <2>5, <2>6
<1>. QED BY <1>1, <1>2, <1>3, <1>4, <1>5, <1>6

\* A step from one state of the switch to another.
LEMMA SwitchMove ==
    ASSUME ChainInv, op.pc \in Switching, op' \in SwitchOp,
           op'.alt_chain = op.alt_chain, op'.old = op.old, UNCHANGED committed,
           op'.swapped \in 0..Len(op.old), op'.next \in 1..(Len(op.alt_chain) + 1),
           op'.pc = "connect" => op'.next <= Len(op.alt_chain),
           Len(blocks') >= SwitchSplit,
           SubSeq(blocks', 1, SwitchSplit) = SubSeq(committed, 1, SwitchSplit),
           op'.pc \in {"restore", "discard"} =>
              Len(blocks') <= Len(committed) /\ blocks' = SubSeq(committed, 1, Len(blocks'))
    PROVE  OpSound' /\ ViewSound'
<1>1. op'.pc \in Switching
    BY DEF SwitchOp
<1>2. SwitchSplit' = SwitchSplit
    BY DEF SwitchSplit
<1>3. op'.pc \in Steps /\ op'.pc \notin {"main", "idle", "disconnect"}
    BY <1>1 DEF Steps, Switching
<1>4. OpSound'
    BY <1>1, <1>2, <1>3 DEF ChainInv, OpSound
<1>5. ViewSound'
    BY <1>1, <1>2, <1>3 DEF ChainInv, ViewSound
<1>. QED BY <1>4, <1>5

\* The block thread is not switching any more, or not yet.
LEMMA OutsideSwitch ==
    ASSUME op'.pc \in {"idle", "main", "commit", "stale_size"},
           op'.pc = "main" => op'.block \in Child,
           op'.pc \in {"idle", "main"} => blocks' = committed'
    PROVE  OpSound' /\ ViewSound'
BY DEF OpSound, ViewSound, Switching, Steps

\* add_new_block and what follows it.
LEMMA MainChainSteps ==
    ASSUME ChainInv,
           \/ \E b \in Child, onboard \in SUBSET Tx : add_new_block(b, onboard)
           \/ handle_block_to_main_chain
           \/ commit_transaction
    PROVE  ChainInv'
<1>1. ASSUME NEW b \in Child, NEW onboard \in SUBSET Tx, add_new_block(b, onboard) PROVE ChainInv'
    <2>1. DataSound'
        BY <1>1 DEF ChainInv, DataSound, add_new_block
    <2>2. op'.pc = "main" /\ op'.block = b /\ blocks' = committed'
        BY <1>1 DEF ChainInv, ViewSound, add_new_block
    <2>. QED BY <2>1, <2>2, OutsideSwitch DEF ChainInv
<1>2. CASE handle_block_to_main_chain
    <2> DEFINE b == op.block
    <2>1. b \in Child /\ b \in Block /\ blocks = committed /\ op.pc = "main"
        BY <1>2 DEF ChainInv, OpSound, ViewSound, handle_block_to_main_chain, Child
    <2>2. CASE Connectable(b, op.onboard) /\ ConnectBlock(b) /\ op' = [pc |-> "commit"]
               /\ UNCHANGED invalid_blocks
        <3>1. ValidChain(blocks') /\ pool' \subseteq Tx
            BY <2>1, <2>2, ConnectStep
        <3>2. DataSound'
            BY <1>2, <2>2, <3>1 DEF ChainInv, DataSound, handle_block_to_main_chain
        <3>3. op'.pc = "commit"
            BY <2>2
        <3>. QED BY <3>2, <3>3, OutsideSwitch DEF ChainInv
    <2>3. CASE /\ pool' = purge_block_data_from_blockchain(b, op.onboard)
               /\ invalid_blocks' = invalid_blocks \cup {d \in {b} : WrongInputs(d, op.onboard)}
               /\ blocks' = committed /\ op' = Idle
        <3>1. pool' \subseteq Tx
            BY <2>1, <2>3, PurgeType
        <3>2. DataSound'
            BY <1>2, <2>1, <2>3, <3>1 DEF ChainInv, DataSound, handle_block_to_main_chain
        <3>3. op'.pc = "idle" /\ blocks' = committed'
            BY <1>2, <2>3 DEF Idle, handle_block_to_main_chain
        <3>. QED BY <3>2, <3>3, OutsideSwitch DEF ChainInv
    <2>. QED BY <1>2, <2>2, <2>3 DEF handle_block_to_main_chain
<1>3. CASE commit_transaction
    <2>1. DataSound'
        BY <1>3 DEF ChainInv, DataSound, commit_transaction
    <2>2. op'.pc = "idle" /\ blocks' = committed'
        BY <1>3 DEF commit_transaction, Idle
    <2>. QED BY <2>1, <2>2, OutsideSwitch DEF ChainInv
<1>. QED BY <1>1, <1>2, <1>3

\* handle_alternative_block: the block is kept aside, or the switch to it begins.
LEMMA AlternativeBlock ==
    ASSUME ChainInv, NEW b \in Child, NEW onboard, handle_alternative_block(b, onboard)
    PROVE  ChainInv'
<1> DEFINE c == Append(AltAncestors(b), b)
<1>1. /\ op.pc = "idle" /\ AltAcceptable(b, onboard) /\ b \in Block
      /\ UNCHANGED <<blocks, committed, pool, invalid_blocks, now, clock>>
    BY DEF handle_alternative_block, Child
<1>2. /\ SpendsOnce(PathTo[b])
      /\ c \in Seq(Child) /\ Len(c) > 0 /\ Height(c[1]) \in 1..Len(blocks)
    BY <1>1, AcceptedSpends
<1>3. blocks = committed /\ now \in Nat
    BY <1>1 DEF ChainInv, ViewSound, DataSound
<1>4. AltSound(add_alt_block(alt, b))
    BY <1>1, <1>2, <1>3, AddAlt DEF ChainInv, DataSound
<1>5. AltSound(alt')
    BY <1>4, StoredSound DEF handle_alternative_block
<1>6. DataSound'
    BY <1>1, <1>5 DEF ChainInv, DataSound
<1> HIDE DEF c
<1>7. CASE op' = Idle
    <2>1. op'.pc = "idle"
        BY <1>7 DEF Idle
    <2>. QED BY <1>1, <1>3, <1>6, <2>1, OutsideSwitch DEF ChainInv
<1>8. CASE op' = [pc |-> "disconnect", alt_chain |-> c]
    <2>1. op'.pc = "disconnect" /\ op'.alt_chain = c
        BY <1>8
    <2>2. SwitchSplit' \in 1..Len(committed')
        BY <1>1, <1>2, <1>3, <2>1 DEF SwitchSplit
    <2>3. OpSound'
        BY <1>2, <2>1, <2>2 DEF OpSound, Steps, Switching
    <2>4. ViewSound'
        BY <1>1, <1>3, <2>1 DEF ViewSound, Switching
    <2>. QED BY <1>6, <2>3, <2>4 DEF ChainInv
<1>. QED BY <1>7, <1>8 DEF handle_alternative_block, c

(***************************************************************************)
(* The steps of a switch.                                                  *)
(***************************************************************************)

\* disconnect_old_chain: the main chain is popped down to the split.
LEMMA DisconnectStep == ASSUME ChainInv, disconnect_old_chain PROVE ChainInv'
<1>1. /\ op.pc = "disconnect" /\ blocks = committed /\ op.alt_chain \in Seq(Child)
      /\ Len(op.alt_chain) > 0 /\ SwitchSplit \in 1..Len(committed)
    BY DEF ChainInv, OpSound, ViewSound, disconnect_old_chain
<1>2. committed \in Seq(Block) /\ Len(committed) \in Nat
    BY ChainFacts DEF ChainInv, DataSound
<1>3. /\ blocks' = SubSeq(blocks, 1, SwitchSplit) /\ ValidChain(blocks')
      /\ Len(blocks') = SwitchSplit /\ pool' \subseteq Tx
    BY <1>1, PopStep DEF disconnect_old_chain
<1>4. DataSound'
    BY <1>3 DEF ChainInv, DataSound, disconnect_old_chain
<1> DEFINE old == SubSeq(blocks, SwitchSplit + 1, Len(blocks))
<1>5. old \in Seq(Child) /\ Len(old) \in Nat
    <2>1. \A i \in (SwitchSplit + 1)..Len(blocks) : blocks[i] \in Child
        <3>1. \A i \in (SwitchSplit + 1)..Len(blocks) : i \in 2..Len(blocks)
            BY <1>1, <1>2
        <3>. QED BY <3>1, ChainFacts DEF ChainInv, DataSound
    <2>2. SwitchSplit + 1 \in Int /\ Len(blocks) \in Int
        BY <1>1, <1>2
    <2>3. old \in Seq(Child)
        BY <2>1, <2>2, SubSeqProperties
    <2>. QED BY <2>3, LenProperties
<1>6. op' = [pc |-> "connect", alt_chain |-> op.alt_chain, next |-> 1, old |-> old, swapped |-> 0]
    BY DEF disconnect_old_chain
<1> HIDE DEF old
<1>7. op' \in SwitchOp /\ op'.pc = "connect" /\ op'.alt_chain = op.alt_chain /\ op'.next = 1
      /\ op'.old = old /\ op'.swapped = 0
    BY <1>1, <1>5, <1>6 DEF SwitchOp, Switching
<1>8. SwitchSplit' = SwitchSplit /\ UNCHANGED committed
    BY <1>7 DEF SwitchSplit, disconnect_old_chain
<1>9. OpSound'
    <2>1. Len(op.alt_chain) \in Nat
        BY <1>1, LenProperties
    <2>. QED BY <1>1, <1>5, <1>7, <1>8, <2>1 DEF OpSound, Steps
<1>10. ViewSound'
    <2>1. SubSeq(blocks', 1, SwitchSplit) = SubSeq(committed, 1, SwitchSplit)
        BY <1>1, <1>2, <1>3, PrefixOfPrefix
    <2>2. Len(blocks') >= SwitchSplit
        BY <1>1, <1>2, <1>3
    <2>3. op'.old = SubSeq(committed, SwitchSplit + 1, Len(committed))
        BY <1>1, <1>7 DEF old
    <2>. QED BY <1>7, <1>8, <2>1, <2>2, <2>3 DEF ViewSound
<1>. QED BY <1>4, <1>9, <1>10 DEF ChainInv

\* connect_alt_block: the next block of the alternative chain is added, or the switch fails.
LEMMA ConnectAltStep == ASSUME ChainInv, connect_alt_block PROVE ChainInv'
<1> DEFINE b == op.alt_chain[op.next]
<1>1. op.pc = "connect" /\ op.pc \in Switching /\ UNCHANGED <<committed, alt, now, clock>>
    BY DEF connect_alt_block, Switching
<1>2. /\ op \in SwitchOp /\ op.alt_chain \in Seq(Child) /\ Len(op.alt_chain) \in Nat
      /\ op.next \in 1..(Len(op.alt_chain) + 1) /\ op.swapped \in 0..Len(op.old)
      /\ SwitchSplit \in 1..Len(blocks) /\ Len(blocks) \in Nat
    BY <1>1, SwitchFacts
<1>3. op.next \in 1..Len(op.alt_chain)
    BY <1>1, <1>2 DEF ChainInv, OpSound
<1>4. b \in Child /\ b \in Block
    BY <1>2, <1>3, ElementOfSeq DEF Child
<1>5. SubSeq(blocks, 1, SwitchSplit) = SubSeq(committed, 1, SwitchSplit)
    BY <1>1 DEF ChainInv, ViewSound
<1>6. CASE /\ Connectable(b, TxSet(b)) /\ ConnectBlock(b)
           /\ op' = [op EXCEPT !.next = @ + 1,
                               !.pc = IF op.next = Len(op.alt_chain) THEN "push" ELSE "connect"]
           /\ UNCHANGED invalid_blocks
    <2>1. /\ ValidChain(blocks') /\ Len(blocks') = Len(blocks) + 1 /\ pool' \subseteq Tx
          /\ \A n \in 0..Len(blocks) : SubSeq(blocks', 1, n) = SubSeq(blocks, 1, n)
        BY <1>4, <1>6, ConnectStep
    <2>2. SubSeq(blocks', 1, SwitchSplit) = SubSeq(committed, 1, SwitchSplit)
          /\ Len(blocks') >= SwitchSplit
        BY <1>2, <1>5, <2>1
    <2>3. DataSound'
        BY <1>1, <1>6, <2>1 DEF ChainInv, DataSound
    <2>4. /\ op' \in SwitchOp /\ op'.alt_chain = op.alt_chain /\ op'.old = op.old
          /\ op'.swapped = op.swapped /\ op'.next = op.next + 1
          /\ op'.pc = IF op.next = Len(op.alt_chain) THEN "push" ELSE "connect"
        <3> DEFINE q == IF op.next = Len(op.alt_chain) THEN "push" ELSE "connect"
        <3>1. q \in Switching /\ op.next + 1 \in Nat
            BY <1>2 DEF Switching
        <3>2. op' = [op EXCEPT !.next = op.next + 1, !.pc = q]
            BY <1>6
        <3> HIDE DEF q
        <3>3. /\ op' \in SwitchOp /\ op'.alt_chain = op.alt_chain /\ op'.old = op.old
              /\ op'.swapped = op.swapped /\ op'.next = op.next + 1 /\ op'.pc = q
            BY <1>2, <3>1, <3>2 DEF SwitchOp
        <3>. QED BY <3>3 DEF q
    <2>5. op'.next \in 1..(Len(op.alt_chain) + 1) /\ (op'.pc = "connect" => op'.next <= Len(op.alt_chain))
        BY <1>2, <1>3, <2>4
    <2>6. OpSound' /\ ViewSound'
        BY <1>1, <1>2, <2>2, <2>4, <2>5, SwitchMove
    <2>. QED BY <2>3, <2>6 DEF ChainInv
<1>7. CASE /\ pool' = purge_block_data_from_blockchain(b, TxSet(b))
           /\ invalid_blocks' = invalid_blocks \cup {c \in {b} : WrongInputs(c, TxSet(c))}
           /\ op' = [op EXCEPT !.pc = "rollback"] /\ UNCHANGED blocks
    <2>1. pool' \subseteq Tx /\ invalid_blocks' \subseteq Block
        BY <1>4, <1>7, PurgeType DEF ChainInv, DataSound
    <2>2. DataSound'
        BY <1>1, <1>7, <2>1 DEF ChainInv, DataSound
    <2>3. /\ op' \in SwitchOp /\ op'.alt_chain = op.alt_chain /\ op'.old = op.old
          /\ op'.swapped = op.swapped /\ op'.next = op.next /\ op'.pc = "rollback"
        BY <1>2, <1>7 DEF SwitchOp, Switching
    <2>4. OpSound' /\ ViewSound'
        BY <1>1, <1>2, <1>5, <1>7, <2>3, SwitchMove
    <2>. QED BY <2>2, <2>4 DEF ChainInv
<1>. QED BY <1>6, <1>7 DEF connect_alt_block

\* rollback_pop: the failed subchain is removed.
LEMMA RollbackPopStep == ASSUME ChainInv, rollback_pop PROVE ChainInv'
<1>1. op.pc = "rollback" /\ op.pc \in Switching /\ UNCHANGED <<committed, alt, invalid_blocks, now, clock>>
      /\ op' = [op EXCEPT !.pc = "restore"]
    BY DEF rollback_pop, Switching
<1>2. /\ op \in SwitchOp /\ SwitchSplit \in 1..Len(blocks) /\ SwitchSplit \in 1..Len(committed)
      /\ Len(committed) \in Nat /\ op.next \in 1..(Len(op.alt_chain) + 1)
      /\ op.swapped \in 0..Len(op.old)
    BY <1>1, SwitchFacts
<1>3. /\ blocks' = SubSeq(blocks, 1, SwitchSplit) /\ ValidChain(blocks')
      /\ Len(blocks') = SwitchSplit /\ pool' \subseteq Tx
    BY <1>2, PopStep DEF rollback_pop
<1>4. blocks' = SubSeq(committed, 1, SwitchSplit)
    BY <1>1, <1>3 DEF ChainInv, ViewSound
<1>5. SubSeq(blocks', 1, SwitchSplit) = SubSeq(committed, 1, SwitchSplit)
    <2>1. committed \in Seq(Block) /\ SwitchSplit \in 0..Len(committed) /\ SwitchSplit \in 0..SwitchSplit
        BY <1>2, ChainFacts DEF ChainInv, DataSound
    <2>. QED BY <1>4, <2>1, PrefixOfPrefix
<1>6. DataSound'
    BY <1>1, <1>3 DEF ChainInv, DataSound
<1>7. /\ op' \in SwitchOp /\ op'.alt_chain = op.alt_chain /\ op'.old = op.old
      /\ op'.swapped = op.swapped /\ op'.next = op.next /\ op'.pc = "restore"
    BY <1>1, <1>2 DEF SwitchOp, Switching
<1>8. Len(blocks') >= SwitchSplit /\ Len(blocks') <= Len(committed)
    BY <1>2, <1>3
<1>9. OpSound' /\ ViewSound'
    BY <1>1, <1>2, <1>3, <1>4, <1>5, <1>7, <1>8, SwitchMove
<1>. QED BY <1>6, <1>9 DEF ChainInv

\* The next block to put back is the next one of the committed chain.
LEMMA RestoreNext ==
    ASSUME ChainInv, op.pc = "restore", Len(blocks) < SwitchSplit + Len(op.old)
    PROVE  /\ NextToRestore \in Child /\ Len(blocks) + 1 \in 1..Len(committed)
           /\ NextToRestore = committed[Len(blocks) + 1]
<1>1. /\ SwitchSplit \in 1..Len(blocks) /\ Len(blocks) \in Nat /\ Len(committed) \in Nat
      /\ op.old \in Seq(Child) /\ Len(op.old) = Len(committed) - SwitchSplit
      /\ \A i \in 1..Len(op.old) : op.old[i] = committed[SwitchSplit + i]
    BY SwitchFacts DEF Switching
<1> DEFINE i == Len(blocks) - SwitchSplit + 1
<1>2. i \in 1..Len(op.old) /\ SwitchSplit + i = Len(blocks) + 1
    BY <1>1
<1>3. op.old[i] \in Child /\ op.old[i] = committed[Len(blocks) + 1]
    BY <1>1, <1>2, ElementOfSeq
<1>4. Len(blocks) + 1 \in 1..Len(committed)
    BY <1>1
<1>. QED BY <1>3, <1>4 DEF NextToRestore

\* rollback_restore: a block of the original chain comes back, or the rollback gives up.
LEMMA RestoreStep == ASSUME ChainInv, rollback_restore PROVE ChainInv'
<1> DEFINE b == NextToRestore
<1>1. /\ op.pc = "restore" /\ op.pc \in Switching /\ Len(blocks) < SwitchSplit + Len(op.old)
      /\ UNCHANGED <<committed, alt, now, clock>>
    BY DEF rollback_restore, Switching
<1>2. /\ op \in SwitchOp /\ SwitchSplit \in 1..Len(blocks) /\ SwitchSplit \in 1..Len(committed)
      /\ Len(committed) \in Nat /\ Len(blocks) \in Nat
      /\ op.next \in 1..(Len(op.alt_chain) + 1) /\ op.swapped \in 0..Len(op.old)
    BY <1>1, SwitchFacts
<1>3. /\ b \in Child /\ b \in Block /\ Len(blocks) + 1 \in 1..Len(committed)
      /\ b = committed[Len(blocks) + 1]
    BY <1>1, RestoreNext DEF Child
<1>4. /\ SubSeq(blocks, 1, SwitchSplit) = SubSeq(committed, 1, SwitchSplit)
      /\ Len(blocks) <= Len(committed) /\ blocks = SubSeq(committed, 1, Len(blocks))
    BY <1>1 DEF ChainInv, ViewSound
<1>5. committed \in Seq(Block)
    BY ChainFacts DEF ChainInv, DataSound
<1> HIDE DEF b
<1>6. CASE Connectable(b, OnboardToRestore) /\ ConnectBlock(b) /\ UNCHANGED <<op, invalid_blocks>>
    <2>1. /\ ValidChain(blocks') /\ Len(blocks') = Len(blocks) + 1 /\ pool' \subseteq Tx
          /\ \A n \in 0..Len(blocks) : SubSeq(blocks', 1, n) = SubSeq(blocks, 1, n)
        BY <1>3, <1>6, ConnectStep
    <2>2. blocks' = SubSeq(committed, 1, Len(blocks'))
        <3>1. blocks' = Append(blocks, committed[Len(blocks) + 1])
            BY <1>3, <1>6 DEF ConnectBlock
        <3>2. \A n \in 0..(Len(committed) - 1) :
                 Append(SubSeq(committed, 1, n), committed[n + 1]) = SubSeq(committed, 1, n + 1)
            BY <1>5
        <3>3. Len(blocks) \in 0..(Len(committed) - 1)
            BY <1>2, <1>3
        <3>. QED BY <1>4, <2>1, <3>1, <3>2, <3>3
    <2>3. SubSeq(blocks', 1, SwitchSplit) = SubSeq(committed, 1, SwitchSplit)
        BY <1>2, <1>4, <2>1
    <2>4. Len(blocks') >= SwitchSplit /\ Len(blocks') <= Len(committed)
        BY <1>2, <1>3, <2>1
    <2>5. DataSound'
        BY <1>1, <1>6, <2>1 DEF ChainInv, DataSound
    <2>6. OpSound' /\ ViewSound'
        BY <1>1, <1>2, <1>6, <2>2, <2>3, <2>4, SwitchMove
    <2>. QED BY <2>5, <2>6 DEF ChainInv
<1>7. CASE /\ pool' = purge_block_data_from_blockchain(b, OnboardToRestore)
           /\ invalid_blocks' = invalid_blocks \cup {c \in {b} : WrongInputs(c, OnboardToRestore)}
           /\ op' = [op EXCEPT !.pc = AfterRollback] /\ UNCHANGED blocks
    <2>1. pool' \subseteq Tx /\ invalid_blocks' \subseteq Block
        BY <1>3, <1>7, PurgeType DEF ChainInv, DataSound
    <2>2. DataSound'
        BY <1>1, <1>7, <2>1 DEF ChainInv, DataSound
    <2>3. AfterRollback \in {"erase", "discard"}
        BY DEF AfterRollback
    <2>4. /\ op' \in SwitchOp /\ op'.alt_chain = op.alt_chain /\ op'.old = op.old
          /\ op'.swapped = op.swapped /\ op'.next = op.next /\ op'.pc = AfterRollback
        BY <1>2, <1>7, <2>3 DEF SwitchOp, Switching
    <2>5. OpSound' /\ ViewSound'
        BY <1>1, <1>2, <1>4, <1>7, <2>3, <2>4, SwitchMove
    <2>. QED BY <2>2, <2>5 DEF ChainInv
<1>. QED BY <1>6, <1>7 DEF rollback_restore, b

\* rollback_done, push_done: on to the next part of the switch.
LEMMA NextPart ==
    ASSUME ChainInv, rollback_done \/ push_done
    PROVE  ChainInv'
<1>1. /\ op.pc \in {"restore", "push"} /\ op.pc \in Switching
      /\ UNCHANGED <<blocks, committed, pool, alt, invalid_blocks, now, clock>>
    BY DEF rollback_done, push_done, Switching
<1>2. PICK q \in {"erase", "discard"} : op' = [op EXCEPT !.pc = q] /\ (q = "discard" => op.pc = "restore")
    BY DEF rollback_done, push_done, AfterRollback
<1>3. /\ op \in SwitchOp /\ op.next \in 1..(Len(op.alt_chain) + 1) /\ op.swapped \in 0..Len(op.old)
    BY <1>1, SwitchFacts
<1>4. /\ op' \in SwitchOp /\ op'.alt_chain = op.alt_chain /\ op'.old = op.old
      /\ op'.swapped = op.swapped /\ op'.next = op.next /\ op'.pc = q
    BY <1>2, <1>3 DEF SwitchOp, Switching
<1>5. /\ Len(blocks) >= SwitchSplit
      /\ SubSeq(blocks, 1, SwitchSplit) = SubSeq(committed, 1, SwitchSplit)
      /\ op.pc = "restore" => Len(blocks) <= Len(committed) /\ blocks = SubSeq(committed, 1, Len(blocks))
    BY <1>1 DEF ChainInv, ViewSound
<1>6. OpSound' /\ ViewSound'
    BY <1>1, <1>2, <1>3, <1>4, <1>5, SwitchMove
<1>7. DataSound'
    BY <1>1 DEF ChainInv, DataSound
<1>. QED BY <1>6, <1>7 DEF ChainInv

\* discard_alt_chain: after a rollback the abort finds the chain as it was committed.
LEMMA DiscardStep ==
    ASSUME ChainInv, discard_alt_chain
    PROVE  ChainInv' /\ blocks' = blocks
<1> DEFINE S == SeqSet(SubSeq(op.alt_chain, op.next, Len(op.alt_chain)))
<1>1. /\ op.pc = "discard" /\ op.pc \in Switching /\ UNCHANGED <<committed, pool, now, clock>>
      /\ invalid_blocks' = invalid_blocks \cup S /\ alt' = do_erase_altblocks(alt, S, Findable)
      /\ blocks' = SubSeq(committed, 1, Len(blocks))
      /\ op' = IF Len(blocks) = Len(committed) THEN Idle ELSE [pc |-> "stale_size"]
    BY DEF discard_alt_chain, Switching
<1>2. /\ op.alt_chain \in Seq(Child) /\ Len(op.alt_chain) \in Nat
      /\ op.next \in 1..(Len(op.alt_chain) + 1)
    BY <1>1, SwitchFacts
<1>3. S \in SUBSET Block
    <2>1. \A i \in op.next..Len(op.alt_chain) : op.alt_chain[i] \in Block
        BY <1>2, ElementOfSeq DEF Child
    <2>2. SubSeq(op.alt_chain, op.next, Len(op.alt_chain)) \in Seq(Block)
        BY <1>2, <2>1, SubSeqProperties
    <2>. QED BY <2>2 DEF SeqSet
<1>4. blocks' = blocks
    BY <1>1 DEF ChainInv, ViewSound
<1>5. AltSound(alt')
    BY <1>1, <1>3, EraseAlt DEF ChainInv, DataSound
<1>6. DataSound'
    BY <1>1, <1>3, <1>4, <1>5 DEF ChainInv, DataSound
<1>7. op'.pc \in {"idle", "stale_size"} /\ (op'.pc = "idle" => Len(blocks) = Len(committed))
    BY <1>1 DEF Idle
<1>8. op'.pc = "idle" => blocks' = committed'
    <2>1. committed \in Seq(Block)
        BY ChainFacts DEF ChainInv, DataSound
    <2>2. SubSeq(committed, 1, Len(committed)) = committed
        BY <2>1, SubSeqFull
    <2>. QED BY <1>1, <1>7, <2>2
<1>. QED BY <1>4, <1>6, <1>7, <1>8, OutsideSwitch DEF ChainInv

\* push_old_block: a block of the old chain is offered to the alternative ones.
LEMMA PushStep == ASSUME ChainInv, push_old_block PROVE ChainInv'
<1> DEFINE b == op.old[op.swapped + 1]
<1>1. /\ op.pc = "push" /\ op.pc \in Switching /\ op.swapped < Len(op.old)
      /\ UNCHANGED <<blocks, committed, pool, invalid_blocks, now, clock>>
    BY DEF push_old_block, Switching
<1>2. /\ op \in SwitchOp /\ op.old \in Seq(Child) /\ Len(op.old) \in Nat
      /\ op.next \in 1..(Len(op.alt_chain) + 1) /\ op.swapped \in 0..Len(op.old)
    BY <1>1, SwitchFacts
<1>3. b \in Child /\ b \in Block /\ op.swapped + 1 \in 0..Len(op.old)
    <2>1. op.swapped + 1 \in 1..Len(op.old) /\ op.swapped + 1 \in 0..Len(op.old)
        BY <1>1, <1>2
    <2>. QED BY <1>2, <2>1, ElementOfSeq DEF Child
<1>4. AltSound(alt')
    <2>1. CASE AltAcceptable(b, TxSet(b))
        <3>1. AltSound(add_alt_block(alt, b))
            BY <1>3, <2>1, AcceptedSpends, AddAlt DEF ChainInv, DataSound
        <3>. QED BY <2>1, <3>1, StoredSound DEF push_old_block
    <2>2. CASE ~AltAcceptable(b, TxSet(b))
        BY <2>2 DEF push_old_block, ChainInv, DataSound
    <2>. QED BY <2>1, <2>2
<1>5. DataSound'
    BY <1>1, <1>4 DEF ChainInv, DataSound
<1>6. \/ op' = [op EXCEPT !.swapped = @ + 1, !.pc = "rollback"]
      \/ op' = [op EXCEPT !.swapped = @ + 1]
    BY DEF push_old_block
<1>7. /\ op' \in SwitchOp /\ op'.alt_chain = op.alt_chain /\ op'.old = op.old
      /\ op'.swapped = op.swapped + 1 /\ op'.next = op.next /\ op'.pc \in {"push", "rollback"}
    <2>1. op.swapped + 1 \in Nat
        BY <1>2
    <2>2. PICK q \in {"push", "rollback"} : op' = [op EXCEPT !.swapped = op.swapped + 1, !.pc = q]
        <3>1. CASE op' = [op EXCEPT !.swapped = @ + 1, !.pc = "rollback"]
            BY <3>1
        <3>2. CASE op' = [op EXCEPT !.swapped = @ + 1]
            <4>1. [op EXCEPT !.swapped = op.swapped + 1] = [op EXCEPT !.swapped = op.swapped + 1, !.pc = "push"]
                BY <1>1, <1>2 DEF SwitchOp
            <4>. QED BY <3>2, <4>1
        <3>. QED BY <1>6, <3>1, <3>2
    <2>. QED BY <1>2, <2>1, <2>2 DEF SwitchOp, Switching
<1>8. /\ Len(blocks) >= SwitchSplit
      /\ SubSeq(blocks, 1, SwitchSplit) = SubSeq(committed, 1, SwitchSplit)
    BY <1>1 DEF ChainInv, ViewSound
<1>9. OpSound' /\ ViewSound'
    BY <1>1, <1>2, <1>3, <1>7, <1>8, SwitchMove
<1>. QED BY <1>5, <1>9 DEF ChainInv

\* erase_alt_chain: the blocks that joined the main chain leave the alternative ones.
LEMMA EraseStep == ASSUME ChainInv, erase_alt_chain PROVE ChainInv'
<1>1. /\ SeqSet(op.alt_chain) \subseteq alt.chains /\ op' = [pc |-> "commit"]
      /\ alt' = do_erase_altblocks(alt, SeqSet(op.alt_chain), Findable)
      /\ UNCHANGED <<blocks, committed, pool, invalid_blocks, now, clock>>
    BY DEF erase_alt_chain
<1>2. SeqSet(op.alt_chain) \in SUBSET Block
    BY <1>1 DEF ChainInv, DataSound, AltSound, AltType
<1>3. AltSound(alt')
    BY <1>1, <1>2, EraseAlt DEF ChainInv, DataSound
<1>4. DataSound'
    BY <1>1, <1>3 DEF ChainInv, DataSound
<1>5. op'.pc = "commit"
    BY <1>1
<1>. QED BY <1>4, <1>5, OutsideSwitch DEF ChainInv

(***************************************************************************)
(* The other threads, the console and the restart.                         *)
(***************************************************************************)

\* The containers of alternative blocks are sound when they are empty.
LEMMA NoAltSound == AltSound(NoAlt)
BY DEF AltSound, AltType, NoAlt

\* What does not change the chain, and does not move the block thread.
LEMMA QuietSteps ==
    ASSUME ChainInv, DataSound', UNCHANGED <<blocks, committed, op>>
    PROVE  ChainInv'
<1>1. SwitchSplit' = SwitchSplit
    BY DEF SwitchSplit
<1>2. OpSound'
    BY <1>1 DEF ChainInv, OpSound
<1>3. ViewSound'
    BY <1>1 DEF ChainInv, ViewSound
<1>. QED BY <1>2, <1>3 DEF ChainInv

\* The network, the pool's cleaning, the clock, and the pruning of alternative blocks.
LEMMA OtherSteps ==
    ASSUME ChainInv,
           \/ \E t \in Tx : handle_incoming_tx(t) \/ remove_stuck_transactions(t)
           \/ \E k \in Asked : get_next_diff_conditional(k)
           \/ prune_alt_blocks_on_idle \/ Tick \/ SetClock \/ clear_altblocks
    PROVE  ChainInv'
<1>1. CASE \E t \in Tx : handle_incoming_tx(t) \/ remove_stuck_transactions(t)
    <2>1. DataSound' /\ UNCHANGED <<blocks, committed, op>>
        BY <1>1 DEF ChainInv, DataSound, handle_incoming_tx, remove_stuck_transactions
    <2>. QED BY <2>1, QuietSteps
<1>2. CASE prune_alt_blocks_on_idle
    <2>1. AltSound(alt')
        BY <1>2, PruneAlt DEF prune_alt_blocks_on_idle, ChainInv, DataSound
    <2>2. DataSound' /\ UNCHANGED <<blocks, committed, op>>
        BY <1>2, <2>1 DEF prune_alt_blocks_on_idle, ChainInv, DataSound
    <2>. QED BY <2>2, QuietSteps
<1>3. CASE Tick
    <2>1. now' \in 0..MaxTime
        <3>1. now \in 0..MaxTime /\ now < MaxTime /\ now' = now + 1
            BY <1>3 DEF Tick, ChainInv, DataSound
        <3>2. MaxTime \in Nat
            BY ChainAssumption, TreeAssumption
        <3>. QED BY <3>1, <3>2
    <2>2. DataSound' /\ UNCHANGED <<blocks, committed, op>>
        BY <1>3, <2>1 DEF Tick, ChainInv, DataSound
    <2>. QED BY <2>2, QuietSteps
<1>4. CASE SetClock
    <2>1. DataSound' /\ UNCHANGED <<blocks, committed, op>>
        BY <1>4 DEF SetClock, ChainInv, DataSound
    <2>. QED BY <2>1, QuietSteps
<1>5. CASE clear_altblocks
    <2>1. DataSound' /\ UNCHANGED <<blocks, committed, op>>
        BY <1>5, NoAltSound DEF clear_altblocks, ChainInv, DataSound
    <2>. QED BY <2>1, QuietSteps
<1>6. CASE \E k \in Asked : get_next_diff_conditional(k)
    <2>1. DataSound' /\ UNCHANGED <<blocks, committed, op>>
        BY <1>6 DEF get_next_diff_conditional, ChainInv, DataSound
    <2>. QED BY <2>1, QuietSteps
<1>. QED BY <1>1, <1>2, <1>3, <1>4, <1>5, <1>6

\* truncate_blockchain pops any number of blocks but the first.
LEMMA TruncateFacts ==
    ASSUME ChainInv, NEW n \in 1..Cardinality(Block), truncate_blockchain(n)
    PROVE  n \in 1..Len(blocks) /\ PopBlocks(n) /\ blocks = committed
<1>1. Cardinality(Block) \in Nat /\ Len(blocks) \in Nat
    BY ChainAssumption, TreeAssumption, FS_CardinalityType, ChainFacts DEF ChainInv, DataSound
<1>2. n < Len(blocks) /\ PopBlocks(n) /\ blocks = committed
    BY DEF truncate_blockchain, ChainInv, ViewSound
<1>. QED BY <1>1, <1>2

\* The console's truncation, and the restart.
LEMMA Resets ==
    ASSUME ChainInv, (\E n \in 1..Cardinality(Block) : truncate_blockchain(n)) \/ Restart
    PROVE  ChainInv'
<1>1. ASSUME NEW n \in 1..Cardinality(Block), truncate_blockchain(n) PROVE ChainInv'
    <2>1. ValidChain(blocks') /\ pool' \subseteq Tx /\ blocks' = committed'
        BY <1>1, TruncateFacts, PopStep DEF truncate_blockchain
    <2>2. DataSound'
        BY <1>1, <2>1, NoAltSound DEF truncate_blockchain, ChainInv, DataSound
    <2>3. op'.pc = "idle"
        BY <1>1 DEF truncate_blockchain
    <2>. QED BY <2>1, <2>2, <2>3, OutsideSwitch DEF ChainInv
<1>2. CASE Restart
    <2>1. DataSound'
        BY <1>2, NoAltSound DEF Restart, ChainInv, DataSound
    <2>2. op'.pc = "idle" /\ blocks' = committed'
        BY <1>2 DEF Restart, Idle
    <2>. QED BY <2>1, <2>2, OutsideSwitch DEF ChainInv
<1>. QED BY <1>1, <1>2

(***************************************************************************)
(* The invariant holds, and what follows from it.                          *)
(***************************************************************************)

\* The genesis block alone is a valid chain.
LEMMA ChainInit == ASSUME Init PROVE ChainInv
<1>1. ValidChain(<<Genesis>>)
    <2>1. <<Genesis>> \in Seq(Block) /\ Len(<<Genesis>>) = 1 /\ Top(<<Genesis>>) = Genesis
        BY ChainAssumption, TreeAssumption DEF Top
    <2>2. SpendsOnce(<<Genesis>>)
        BY <2>1 DEF SpendsOnce
    <2>. QED BY <2>1, <2>2, ChainAssumption, TreeAssumption DEF ValidChain
<1>2. 0 \in 0..MaxTime
    BY ChainAssumption, TreeAssumption
<1>3. DataSound
    BY <1>1, <1>2, NoAltSound DEF Init, DataSound
<1>4. op.pc = "idle" /\ blocks = committed
    BY DEF Init, Idle
<1>5. OpSound /\ ViewSound
    BY <1>4 DEF OpSound, ViewSound, Switching, Steps
<1>. QED BY <1>3, <1>5 DEF ChainInv

\* What a peer delivers goes to the main chain or to the alternative ones.
LEMMA DeliverStep == ASSUME ChainInv, NEW b \in Block, Deliver(b) PROVE ChainInv'
<1>1. PICK onboard \in {{}, TxSet(b)} :
         b # Genesis /\ (add_new_block(b, onboard) \/ handle_alternative_block(b, onboard))
    BY DEF Deliver
<1>2. b \in Child /\ onboard \in SUBSET Tx
    BY <1>1, ContentType DEF Child
<1>. QED BY <1>1, <1>2, MainChainSteps, AlternativeBlock

\* Every step keeps the invariant.
LEMMA ChainStep == ASSUME ChainInv, [Next]_vars PROVE ChainInv'
<1>1. CASE NodeNext
    <2>1. CASE \E b \in Block : Deliver(b)
        BY <2>1, DeliverStep
    <2>2. CASE BlockThread
        BY <2>2, MainChainSteps, DisconnectStep, ConnectAltStep, RollbackPopStep, RestoreStep,
           NextPart, DiscardStep, PushStep, EraseStep DEF BlockThread
    <2>3. CASE \/ \E t \in Tx : handle_incoming_tx(t)
               \/ \E t \in Tx : remove_stuck_transactions(t)
               \/ \E k \in Asked : get_next_diff_conditional(k)
               \/ prune_alt_blocks_on_idle \/ Tick \/ SetClock
        BY <2>3, OtherSteps
    <2>. QED BY <1>1, <2>1, <2>2, <2>3 DEF NodeNext
<1>2. CASE \E n \in 1..Cardinality(Block) : truncate_blockchain(n)
    BY <1>2, Resets
<1>3. CASE clear_altblocks
    BY <1>3, OtherSteps
<1>4. CASE Restart
    BY <1>4, Resets
<1>5. CASE UNCHANGED vars
    <2>1. DataSound' /\ UNCHANGED <<blocks, committed, op>>
        BY <1>5 DEF vars, ChainInv, DataSound
    <2>. QED BY <2>1, QuietSteps
<1>. QED BY <1>1, <1>2, <1>3, <1>4, <1>5 DEF Next

\* In every state of the node, the middle of a switch, of a rollback or of a failed block
\* included, both views of the main chain are valid chains, and the block thread's differs from
\* the committed one only above the split point (blockchain_storage.cpp, add_new_block,
\* switch_to_alternative_blockchain, rollback_blockchain_switching).
THEOREM ChainInvariant == Spec => []ChainInv
BY ChainInit, ChainStep, PTL DEF Spec

\* What the node has kept as the difficulty of the next block: nothing, or what it is for some
\* block of the tree, whichever chain the node was on when it computed it.
CacheSound ==
    /\ cached \in [Kinds -> Nat]
    /\ \A k \in Kinds : cached[k] = 0 \/ \E b \in Block : cached[k] = NextDiff[b][k]

\* The difficulty of a block that comes next.
LEMMA NextDiffType == ASSUME NEW b \in Block, NEW k \in Kinds PROVE NextDiff[b][k] \in Nat \ {0}
BY TreeAssumption

\* What is asked or computed for the top block is what is kept.
LEMMA CacheMoves ==
    ASSUME ChainInv, CacheSound,
           \/ UNCHANGED cached
           \/ cached' \in [Kinds -> Nat]
              /\ \A k \in Kinds : cached'[k] \in {0, cached[k], NextDiff[Top(blocks)][k]}
    PROVE  CacheSound'
<1>1. Top(blocks) \in Block
    BY ChainFacts DEF ChainInv, DataSound
<1>. QED BY <1>1 DEF CacheSound

\* The three ways in which it changes.
LEMMA CacheForms ==
    ASSUME ChainInv, CacheSound
    PROVE  /\ \A b : CachedByCheckOf(b) \in [Kinds -> Nat]
                     /\ \A k \in Kinds : CachedByCheckOf(b)[k] \in {cached[k], NextDiff[Top(blocks)][k]}
           /\ \A s : CachedByChoice(s) \in [Kinds -> Nat]
                     /\ \A k \in Kinds : CachedByChoice(s)[k] \in {cached[k], NextDiff[Top(blocks)][k]}
           /\ \A j : LET next == [cached EXCEPT ![j] = NextDiff[Top(blocks)][j]]
                     IN  j \in Kinds => /\ next \in [Kinds -> Nat]
                                        /\ \A k \in Kinds : next[k] \in {cached[k], NextDiff[Top(blocks)][k]}
<1>1. Top(blocks) \in Block
    BY ChainFacts DEF ChainInv, DataSound
<1>2. cached \in [Kinds -> Nat] /\ \A k \in Kinds : NextDiff[Top(blocks)][k] \in Nat
    BY <1>1, NextDiffType DEF CacheSound
<1>3. \A b : Kind(b) \in Kinds
    BY DEF Kind, Kinds
<1>. QED BY <1>2, <1>3 DEF CachedByCheckOf, CachedByChoice, get_cached_next_difficulty

\* Every step keeps it.
LEMMA CacheStep == ASSUME ChainInv, CacheSound, [Next]_vars PROVE CacheSound'
<1>1. ASSUME NEW b \in Block, Deliver(b) PROVE CacheSound'
    <2>1. UNCHANGED cached \/ cached' = CachedByChoice(SplitHeight(b))
        BY <1>1 DEF Deliver, add_new_block, handle_alternative_block
    <2>. QED BY <2>1, CacheForms, CacheMoves
<1>2. CASE BlockThread
    <2>1. \/ UNCHANGED cached
          \/ \E b : cached' = CachedByCheckOf(b)
          \/ \E s : cached' = CachedByChoice(s)
        BY <1>2 DEF BlockThread, handle_block_to_main_chain, commit_transaction, disconnect_old_chain,
           connect_alt_block, rollback_pop, rollback_restore, rollback_done, discard_alt_chain,
           push_old_block, push_done, erase_alt_chain
    <2>. QED BY <2>1, CacheForms, CacheMoves
<1>3. CASE \E k \in Asked : get_next_diff_conditional(k)
    <2>1. PICK k \in Asked : cached' = [cached EXCEPT ![k] = NextDiff[Top(blocks)][k]]
        BY <1>3 DEF get_next_diff_conditional
    <2>2. k \in Kinds
        BY ChainAssumption
    <2>. QED BY <2>1, <2>2, CacheForms, CacheMoves
<1>4. CASE Restart
    BY <1>4, CacheMoves DEF Restart
<1>5. CASE \/ \E t \in Tx : handle_incoming_tx(t)
           \/ \E t \in Tx : remove_stuck_transactions(t)
           \/ prune_alt_blocks_on_idle \/ Tick \/ SetClock
           \/ (\E n \in 1..Cardinality(Block) : truncate_blockchain(n))
           \/ clear_altblocks \/ UNCHANGED vars
    <2>1. UNCHANGED cached
        BY <1>5 DEF handle_incoming_tx, remove_stuck_transactions, prune_alt_blocks_on_idle, Tick,
           SetClock, truncate_blockchain, clear_altblocks, vars
    <2>. QED BY <2>1, CacheMoves
<1>. QED BY <1>1, <1>2, <1>3, <1>4, <1>5 DEF Next, NodeNext

\* What the node keeps of the next difficulties is always of its own tree of blocks
\* (get_next_diff_conditional, get_cached_next_difficulty).
THEOREM CacheInvariant == Spec => []CacheSound
<1>1. Init => CacheSound
    BY DEF Init, CacheSound
<1>. QED BY <1>1, CacheStep, ChainInvariant, PTL DEF Spec

\* Every variable has its type, and at each step of a switch the block thread has what the step
\* needs: the alternative chain, the old one, and positions within them.
THEOREM TypeCorrect == Spec => []TypeOK
<1>1. ASSUME ChainInv, CacheSound PROVE TypeOK
    <2>1. /\ blocks \in Seq(Block) /\ Len(blocks) > 0
          /\ committed \in Seq(Block) /\ Len(committed) > 0
          /\ pool \subseteq Tx /\ invalid_blocks \subseteq Block
          /\ now \in 0..MaxTime /\ clock \in {"right", "back", "fixed"}
        BY <1>1 DEF ChainInv, DataSound, ValidChain
    <2>2. alt \in [chains : SUBSET Block, time : [Block -> Nat], txs : [Tx -> Nat],
                   keyimages : [KeyImage -> SUBSET Block]]
        BY <1>1 DEF ChainInv, DataSound, AltSound, AltType
    <2>3. op.pc \in Steps /\ (op.pc = "main" => op.block \in Block)
        BY <1>1 DEF ChainInv, OpSound, Child
    <2>4. op.pc \notin {"idle", "main", "commit", "stale_size"} =>
             op.alt_chain \in Seq(Block) /\ op.alt_chain # <<>>
        <3>1. SUFFICES ASSUME op.pc \notin {"idle", "main", "commit", "stale_size"}
                       PROVE  op.alt_chain \in Seq(Block) /\ op.alt_chain # <<>>
            OBVIOUS
        <3>2. op.pc \in Switching \cup {"disconnect"}
            BY <2>3, <3>1 DEF Steps, Switching
        <3>3. op.alt_chain \in Seq(Child) /\ Len(op.alt_chain) > 0
            BY <1>1, <3>2 DEF ChainInv, OpSound, SwitchOp
        <3>. QED BY <3>3 DEF Child
    <2>5. op.pc \in {"connect", "rollback", "restore", "discard", "push", "erase"} =>
             /\ op.old \in Seq(Block)
             /\ op.swapped \in 0..Len(op.old)
             /\ op.next \in 1..(Len(op.alt_chain) + 1)
        <3>1. SUFFICES ASSUME op.pc \in Switching
                       PROVE  /\ op.old \in Seq(Block)
                              /\ op.swapped \in 0..Len(op.old)
                              /\ op.next \in 1..(Len(op.alt_chain) + 1)
            BY DEF Switching
        <3>2. op.old \in Seq(Child) /\ op.swapped \in 0..Len(op.old)
              /\ op.next \in 1..(Len(op.alt_chain) + 1)
            BY <1>1, <3>1, SwitchFacts
        <3>. QED BY <3>2 DEF Child
    <2>. QED BY <1>1, <2>1, <2>2, <2>3, <2>4, <2>5 DEF TypeOK, CacheSound
<1>. QED BY <1>1, ChainInvariant, CacheInvariant, PTL

\* Whatever blocks arrive and whatever fails, between two blocks everybody sees one chain from
\* the genesis block, and no branch, main or alternative, spends a key image twice
\* (validate_blockchain_prev_links, check_tx_inputs, validate_alt_block_input).
THEOREM ChainsAreValid == Spec => []ChainsValid
<1>1. ASSUME ChainInv PROVE ChainsValid
    <2>1. ValidChain(blocks) /\ blocks = PathTo[Top(blocks)]
        BY <1>1 DEF ChainInv, DataSound, ValidChain
    <2>2. ChainCommitted
        BY <1>1, <2>1 DEF ChainInv, ViewSound, ChainCommitted
    <2>3. \A b \in alt.chains \cup {Top(blocks)} : b \in Block /\ SpendsOnce(PathTo[b])
        <3>1. alt.chains \subseteq Block /\ Top(blocks) \in Block
            BY <1>1, <2>1 DEF ChainInv, DataSound, AltSound, AltType, ValidChain, Top
        <3>. QED BY <1>1, <2>1, <3>1 DEF ChainInv, DataSound, AltSound, ValidChain
    <2>4. NoDoubleSpend
        BY <2>3 DEF NoDoubleSpend, SpendingOnce, SpendsOnce
    <2>. QED BY <2>2, <2>4 DEF ChainsValid
<1>. QED BY <1>1, ChainInvariant, PTL

\* m_altblocks_keyimages misses no key image of an alternative block, however many switches,
\* prunings and rollbacks moved blocks in and out: what validate_alt_block_input does not find
\* there was not spent by an alternative block.
THEOREM KeyImagesIndexed == Spec => []AltKeyImagesComplete
<1>1. ASSUME ChainInv PROVE AltKeyImagesComplete
    <2>1. alt.chains \subseteq Block
        BY <1>1 DEF ChainInv, DataSound, AltSound, AltType
    <2>2. \A b \in alt.chains : BlockKi(b) \subseteq KeyImage
        BY <2>1, ContentType
    <2>. QED BY <1>1, <2>2 DEF ChainInv, DataSound, AltSound, AltKeyImagesComplete
<1>. QED BY <1>1, ChainInvariant, PTL

(***************************************************************************)
(* Transactions.                                                           *)
(***************************************************************************)

\* A block that joins the chain takes its transactions with it.
LEMMA ConnectKeeps ==
    ASSUME ChainInv, NEW b \in Child, ConnectBlock(b)
    PROVE  Known \subseteq Known'
<1>1. blocks \in Seq(Block) /\ Len(blocks) \in Nat /\ b \in Block
    BY ChainFacts DEF ChainInv, DataSound, Child
<1>2. /\ blocks' \in Seq(Block) /\ Len(blocks') = Len(blocks) + 1
      /\ \A i \in 1..Len(blocks) : i \in 1..Len(blocks') /\ blocks'[i] = blocks[i]
      /\ Len(blocks) + 1 \in 1..Len(blocks') /\ blocks'[Len(blocks) + 1] = b
    BY <1>1 DEF ConnectBlock
<1>3. MainTxs(blocks) \subseteq MainTxs(blocks') /\ TxSet(b) \subseteq MainTxs(blocks')
    <2>1. ASSUME NEW t \in MainTxs(blocks) PROVE t \in MainTxs(blocks')
        <3>1. PICK i \in 1..Len(blocks) : t \in TxSet(blocks[i])
            BY <1>1, <2>1, ChainTxs
        <3>2. i \in 1..Len(blocks') /\ t \in TxSet(blocks'[i])
            BY <1>2, <3>1
        <3>. QED BY <1>2, <3>2, ChainTxs
    <2>2. ASSUME NEW t \in TxSet(b) PROVE t \in MainTxs(blocks')
        BY <1>2, <2>2, ChainTxs
    <2>. QED BY <2>1, <2>2
<1>. QED BY <1>3 DEF Known, ConnectBlock

\* Blocks that are popped give theirs to the pool.
LEMMA PopKeeps ==
    ASSUME ChainInv, NEW n \in 1..Len(blocks), PopBlocks(n)
    PROVE  Known \subseteq Known'
BY PopStep DEF Known

\* A pool that only grows, under the same chain, loses nothing.
LEMMA GrowKeeps ==
    ASSUME pool \subseteq pool', UNCHANGED blocks
    PROVE  Known \subseteq Known'
BY DEF Known

\* The block thread loses no transaction.
LEMMA BlockThreadKeeps == ASSUME ChainInv, BlockThread PROVE Known \subseteq Known'
<1>1. CASE handle_block_to_main_chain
    <2>1. op.block \in Child /\ op.block \in Block /\ blocks = committed
        BY <1>1 DEF ChainInv, OpSound, ViewSound, handle_block_to_main_chain, Child
    <2>2. CASE ConnectBlock(op.block)
        BY <2>1, <2>2, ConnectKeeps
    <2>3. CASE pool' = purge_block_data_from_blockchain(op.block, op.onboard) /\ blocks' = committed
        BY <2>1, <2>3, PurgeType, GrowKeeps
    <2>. QED BY <1>1, <2>2, <2>3 DEF handle_block_to_main_chain
<1>2. CASE disconnect_old_chain
    <2>1. SwitchSplit \in 1..Len(blocks) /\ PopBlocks(SwitchSplit)
        BY <1>2 DEF ChainInv, OpSound, ViewSound, disconnect_old_chain
    <2>. QED BY <2>1, PopKeeps
<1>3. CASE connect_alt_block
    <2> DEFINE b == op.alt_chain[op.next]
    <2>1. op.pc = "connect" /\ op.pc \in Switching
        BY <1>3 DEF connect_alt_block, Switching
    <2>2. /\ op.alt_chain \in Seq(Child) /\ Len(op.alt_chain) \in Nat
          /\ op.next \in 1..(Len(op.alt_chain) + 1) /\ op.next <= Len(op.alt_chain)
        BY <2>1, SwitchFacts DEF ChainInv, OpSound
    <2>3. op.next \in 1..Len(op.alt_chain)
        BY <2>2
    <2>4. b \in Child /\ b \in Block
        BY <2>2, <2>3, ElementOfSeq DEF Child
    <2>5. CASE ConnectBlock(b)
        BY <2>4, <2>5, ConnectKeeps
    <2>6. CASE pool' = purge_block_data_from_blockchain(b, TxSet(b)) /\ UNCHANGED blocks
        BY <2>4, <2>6, PurgeType, GrowKeeps
    <2>. QED BY <1>3, <2>5, <2>6 DEF connect_alt_block
<1>4. CASE rollback_pop
    <2>1. SwitchSplit \in 1..Len(blocks) /\ PopBlocks(SwitchSplit)
        BY <1>4, SwitchFacts DEF rollback_pop, Switching
    <2>. QED BY <2>1, PopKeeps
<1>5. CASE rollback_restore
    <2>1. NextToRestore \in Child /\ NextToRestore \in Block
        BY <1>5, RestoreNext DEF rollback_restore, Child
    <2>2. CASE ConnectBlock(NextToRestore)
        BY <2>1, <2>2, ConnectKeeps
    <2>3. CASE /\ pool' = purge_block_data_from_blockchain(NextToRestore, OnboardToRestore)
               /\ UNCHANGED blocks
        BY <2>1, <2>3, PurgeType, GrowKeeps
    <2>. QED BY <1>5, <2>2, <2>3 DEF rollback_restore
<1>6. CASE discard_alt_chain
    BY <1>6, DiscardStep, GrowKeeps DEF discard_alt_chain
<1>7. CASE commit_transaction \/ rollback_done \/ push_old_block \/ push_done \/ erase_alt_chain
    BY <1>7, GrowKeeps
       DEF commit_transaction, rollback_done, push_old_block, push_done, erase_alt_chain
<1>. QED BY <1>1, <1>2, <1>3, <1>4, <1>5, <1>6, <1>7 DEF BlockThread

\* A transaction the node has is dropped only by remove_stuck_transactions, between two blocks
\* and when no alternative block needs it: no failed block, switch, rollback or truncation loses
\* one (take_tx, purge_block_data_from_blockchain, pop_block_from_blockchain).
THEOREM TransactionsKept == Spec => TxsKept
<1> DEFINE Kept == \A t \in Known :
              t \in Known' \/ (op.pc = "idle" /\ ~is_tx_related_to_altblock(t))
<1>1. ASSUME ChainInv, Next PROVE Restart \/ Kept
    <2>1. CASE \E b \in Block : Deliver(b)
        <3>1. UNCHANGED <<pool, blocks>>
            BY <2>1 DEF Deliver, add_new_block, handle_alternative_block
        <3>. QED BY <3>1, GrowKeeps
    <2>2. CASE BlockThread
        BY <1>1, <2>2, BlockThreadKeeps
    <2>3. ASSUME NEW x \in Tx, remove_stuck_transactions(x) PROVE Kept
        <3>1. op.pc = "idle" /\ ~is_tx_related_to_altblock(x) /\ pool' = pool \ {x} /\ UNCHANGED blocks
            BY <2>3 DEF remove_stuck_transactions
        <3>2. \A t \in Known : t = x \/ t \in Known'
            BY <3>1 DEF Known
        <3>. QED BY <3>1, <3>2
    <2>4. CASE \/ \E t \in Tx : handle_incoming_tx(t)
               \/ \E k \in Asked : get_next_diff_conditional(k)
               \/ prune_alt_blocks_on_idle \/ Tick \/ SetClock \/ clear_altblocks
        <3>1. pool \subseteq pool' /\ UNCHANGED blocks
            BY <2>4 DEF handle_incoming_tx, get_next_diff_conditional, prune_alt_blocks_on_idle,
                        Tick, SetClock, clear_altblocks
        <3>. QED BY <3>1, GrowKeeps
    <2>5. CASE \E n \in 1..Cardinality(Block) : truncate_blockchain(n)
        BY <1>1, <2>5, TruncateFacts, PopKeeps
    <2>. QED BY <1>1, <2>1, <2>2, <2>3, <2>4, <2>5 DEF Next, NodeNext
<1>2. ASSUME ChainInv, [Next]_vars PROVE [Restart \/ Kept]_vars
    BY <1>1, <1>2
<1>3. Spec => [][Restart \/ Kept]_vars
    BY <1>2, ChainInvariant, PTL DEF Spec
<1>. QED BY <1>3 DEF TxsKept

(***************************************************************************)
(* The switch, with a clock that is right, room for every alternative      *)
(* block, and a fork choice that is settled once a branch has won.         *)
(***************************************************************************)

\* no block is ever too far ahead of the clock; without it a rollback panics
RightClock == FutureBlock = {}
\* the limit is not reached; at it, blocks leave the container and stay counted
Room       == Cardinality(Child) <= MaxAltBlocks
\* what the checks of the main chain ask of a block by itself
WellFormed(b) ==
    /\ b \notin BadBlock
    /\ \A i \in DOMAIN TxsOf[b] :
          /\ TxsOf[b][i] \notin BadSemantic
          /\ KiOf[TxsOf[b][i]]
                \cap (MinerKi[b] \cup UNION {KiOf[TxsOf[b][j]] : j \in 1..(i - 1)}) = {}

\* the index of key images has entries of b
Marked(a, b) == \E ki \in KeyImage : b \in a.keyimages[ki]
Apart(b) == b \notin alt.chains /\ ~Marked(alt, b) /\ b \notin invalid_blocks

\* The indexes say how many blocks a transaction is in, and nothing that is not in a block.
IndexSound(a) ==
    /\ a.chains \subseteq Child
    /\ \A t \in Tx : a.txs[t] = Cardinality({b \in a.chains : t \in TxSet(b)})
    /\ \A ki \in KeyImage : \A b \in a.keyimages[ki] : ki \in BlockKi(b)

Failing == {"rollback", "restore", "discard"}
Away    == Switching \cup {"disconnect"}

ContentInv == \A b \in SeqSet(committed) \cup SeqSet(blocks) : WellFormed(b)

\* How far a switch is, and that it fails while it connects or not at all.
ProgressInv ==
    /\ op.pc # "stale_size"
    /\ op.pc \in Away => SeqSet(op.alt_chain) \subseteq alt.chains
    /\ op.pc \in Failing => op.next <= Len(op.alt_chain)
    /\ op.pc \in Failing \cup {"connect"} => op.swapped = 0
    /\ op.pc \in {"push", "erase"} => op.next = Len(op.alt_chain) + 1
    /\ op.pc \in {"connect", "push", "erase"} =>
          /\ Len(blocks) = SwitchSplit + op.next - 1
          /\ \A i \in 1..(op.next - 1) : blocks[SwitchSplit + i] = op.alt_chain[i]
    /\ op.pc = "discard" => blocks = committed

\* The main chain, the alternative and the invalid blocks have nothing in common, but for
\* those of the old chain that were pushed, and those of the new one that failed.
SetsInv ==
    /\ op.pc \in {"idle", "main", "disconnect", "connect"} \cup Failing =>
          \A i \in 1..Len(committed) : Apart(committed[i])
    /\ op.pc = "commit" => \A i \in 1..Len(blocks) : Apart(blocks[i])
    /\ op.pc \in {"push", "erase"} =>
          \A i \in 1..Len(committed) :
             /\ committed[i] \notin invalid_blocks
             /\ IF i \in (SwitchSplit + 1)..(SwitchSplit + op.swapped)
                THEN committed[i] \in alt.chains ELSE Apart(committed[i])
    /\ op.pc \notin Failing => invalid_blocks \cap alt.chains = {}
    /\ op.pc \in Failing =>
          \A b \in invalid_blocks \cap alt.chains :
             \E i \in op.next..Len(op.alt_chain) : b = op.alt_chain[i]
    /\ op.pc = "main" => ~have_block(op.block)

\* The branch of b, which leaves the committed chain after s blocks, wins against the rest of
\* it by some scale the node may have used; or there is no rest.
WinsFrom(s, b) ==
    \/ s = Len(committed)
    \/ /\ ForkAt(committed, PathTo[b], s)
       /\ \E scale \in Scales(committed, s) : Wins(scale, s, Top(committed), b)

\* The node switches to a branch that wins, and commits what is longer or has won.  A block of
\* which the index kept entries when it was pruned is lower than the top of the committed chain.
ForkInv ==
    /\ op.pc \in Away => WinsFrom(SwitchSplit, Top(op.alt_chain))
    /\ op.pc = "commit" =>
          /\ Len(committed) <= Len(blocks)
          /\ SubSeq(blocks, 1, Len(committed)) = committed \/ Supersedes(blocks, committed)
    /\ \A b \in Block : Marked(alt, b) =>
          b \in alt.chains \cup invalid_blocks \/ Height(b) < Len(committed)

SwitchInv == ContentInv /\ IndexSound(alt) /\ ProgressInv /\ SetsInv /\ ForkInv

(***************************************************************************)
(* The split, and the scale used there.                                    *)
(***************************************************************************)

\* The blocks of a chain are different, and each is the parent of the next.
LEMMA ChainLinks ==
    ASSUME NEW c, ValidChain(c)
    PROVE  /\ \A i, j \in 1..Len(c) : i # j => c[i] # c[j]
           /\ \A i \in 2..Len(c) : Parent(c[i]) = c[i - 1]
<1>1. c \in Seq(Block) /\ Len(c) \in Nat /\ \A i \in 1..Len(c) : PathTo[c[i]] = SubSeq(c, 1, i)
    BY ChainFacts
<1>2. \A i \in 1..Len(c) : Len(SubSeq(c, 1, i)) = i /\ \A k \in 1..i : SubSeq(c, 1, i)[k] = c[k]
    BY <1>1, PrefixOf
<1>3. \A i \in 1..Len(c) : Len(PathTo[c[i]]) = i
    BY <1>1, <1>2
<1>4. ASSUME NEW i \in 2..Len(c) PROVE Parent(c[i]) = c[i - 1]
    <2>1. i \in 1..Len(c) /\ i - 1 \in 1..i
        BY <1>1
    <2>2. Parent(c[i]) = SubSeq(c, 1, i)[i - 1]
        BY <1>1, <1>3, <2>1 DEF Parent
    <2>. QED BY <1>2, <2>1, <2>2
<1>. QED BY <1>3, <1>4

\* A block's height is its position on its chain.
LEMMA ChainHeight ==
    ASSUME NEW c, ValidChain(c), NEW b \in Child, Parent(b) = Top(c)
    PROVE  Height(b) = Len(c)
<1>1. /\ c = PathTo[Parent(b)] /\ c \in Seq(Block) /\ Len(c) \in Nat
    BY ChainFacts DEF ValidChain
<1>2. b \in Block /\ Len(PathTo[b]) > 1 /\ PathTo[b] \in Seq(Block) /\ Len(PathTo[b]) \in Nat
    BY ChildPath, PathFacts
<1>3. c = SubSeq(PathTo[b], 1, Len(PathTo[b]) - 1)
    BY <1>1, ChildPath
<1>4. Len(PathTo[b]) - 1 \in 0..Len(PathTo[b])
    BY <1>2
<1>5. Len(c) = Len(PathTo[b]) - 1
    BY <1>2, <1>3, <1>4, PrefixOf
<1>. QED BY <1>5 DEF Height

\* Where an alternative block that is accepted leaves the main chain.
LEMMA SplitFacts ==
    ASSUME ChainInv, NEW b \in Child, NEW onboard, AltAcceptable(b, onboard)
    PROVE  LET s == SplitHeight(b)
               c == Append(AltAncestors(b), b)
           IN  /\ s \in 1..Len(blocks) /\ s \in 1..(Len(PathTo[b]) - 1)
               /\ SubSeq(PathTo[b], 1, s) = SubSeq(blocks, 1, s)
               /\ PathTo[b][s + 1] \in alt.chains \cup {b}
               /\ Height(c[1]) = s
<1> DEFINE p == PathTo[b]
           n == Len(p)
           c == Append(AltAncestors(b), b)
<1>1. b \in Block /\ p \in Seq(Block) /\ n \in Nat /\ n > 1 /\ p[n] = b
    BY ChildPath, PathFacts DEF Child
<1>2. PICK low \in 1..n : /\ AltAncestors(b) = SubSeq(p, low, n - 1)
                          /\ \A j \in low..(n - 1) : p[j] \in alt.chains
    BY <1>1, AltAncestorsShape
<1> DEFINE s == low - 1
<1>3. /\ Len(AltAncestors(b)) = n - low
      /\ \A i \in 1..(n - low) : AltAncestors(b)[i] = p[low + i - 1]
      /\ AltAncestors(b) \in Seq(Block)
    <2>1. \A i \in low..(n - 1) : p[i] \in Block
        BY <1>1, ElementOfSeq
    <2>2. low \in Int /\ n - 1 \in Int
        BY <1>1
    <2>. QED BY <1>1, <1>2, <2>1, <2>2, SubSeqProperties
<1>4. SplitHeight(b) = s
    BY <1>1, <1>3 DEF SplitHeight, Height
<1>5. s \in 1..Len(blocks) /\ blocks[s] = p[s] /\ s \in 1..(n - 1)
    <2>1. s > 0 /\ Len(blocks) >= s /\ blocks[s] = p[s]
        BY <1>4 DEF AltAcceptable, ConnectedToMain
    <2>2. Len(blocks) \in Nat
        BY ChainFacts DEF ChainInv, DataSound
    <2>. QED BY <1>1, <2>1, <2>2
<1>6. SubSeq(p, 1, s) = SubSeq(blocks, 1, s)
    <2>1. PathTo[p[s]] = SubSeq(p, 1, s)
        BY <1>1, <1>5, PathFacts
    <2>2. PathTo[blocks[s]] = SubSeq(blocks, 1, s)
        BY <1>5, ChainFacts DEF ChainInv, DataSound
    <2>. QED BY <1>5, <2>1, <2>2
<1>7. p[low] \in alt.chains \cup {b}
    <2>1. low \in low..(n - 1) \/ low = n
        BY <1>1
    <2>. QED BY <1>1, <1>2, <2>1
<1>8. c[1] = p[low]
    <2>1. CASE low = n
        BY <1>1, <1>3, <2>1
    <2>2. CASE low # n
        <3>1. 1 \in 1..(n - low) /\ low + 1 - 1 = low
            BY <1>1, <2>2
        <3>2. AltAncestors(b)[1] = p[low] /\ Len(AltAncestors(b)) >= 1
            BY <1>1, <1>3, <3>1
        <3>. QED BY <1>3, <3>2
    <2>. QED BY <2>1, <2>2
<1>9. Height(p[low]) = s
    <2>1. PathTo[p[low]] = SubSeq(p, 1, low)
        BY <1>1, PathFacts
    <2>2. Len(SubSeq(p, 1, low)) = low
        <3>1. low \in 0..Len(p)
            BY <1>1
        <3>. QED BY <1>1, <3>1, PrefixOf
    <2>. QED BY <2>1, <2>2 DEF Height
<1>10. s + 1 = low
    BY <1>1
<1> HIDE DEF c, s
<1>. QED BY <1>4, <1>5, <1>6, <1>7, <1>8, <1>9, <1>10 DEF c

\* The scale the node uses is one of those it may use.
LEMMA ScaleKnown ==
    ASSUME ChainInv, CacheSound, NEW s \in 1..Len(blocks)
    PROVE  SplitScale(s) \in Scales(blocks, s)
<1> DEFINE V == {NextDiff[b][k] : b \in Block, k \in Kinds}
<1>1. /\ ValidChain(blocks) /\ Len(blocks) \in Nat /\ Top(blocks) \in Block
      /\ \A i \in 1..Len(blocks) : blocks[i] \in Block
    BY ChainFacts DEF ChainInv, DataSound
<1>2. ASSUME NEW k \in Kinds
      PROVE  \E b \in Block : get_cached_next_difficulty(k) = NextDiff[b][k]
    BY <1>1 DEF CacheSound, get_cached_next_difficulty
<1>3. ASSUME NEW k \in Kinds, NEW d \in V
      PROVE  get_x_difficulty_after_height(blocks, s, k, d) \in V
    <2> DEFINE after == {i \in (s + 1)..Len(blocks) : Kind(blocks[i]) = k}
               i     == CHOOSE j \in after : \A m \in after : j <= m
    <2>1. CASE after = {}
        BY <1>3, <2>1 DEF get_x_difficulty_after_height
    <2>2. CASE after # {}
        <3>1. after \in SUBSET Nat
            BY <1>1
        <3>2. \E j \in after : \A m \in after : j <= m
            <4> HIDE DEF after
            <4>. QED BY <2>2, <3>1, Least
        <3>3. i \in after
            <4> HIDE DEF after
            <4>. QED BY <3>2
        <3>4. i \in 2..Len(blocks) /\ i - 1 \in 1..Len(blocks)
            <4> HIDE DEF i
            <4>. QED BY <1>1, <3>3
        <3>5. Parent(blocks[i]) \in Block
            <4> HIDE DEF i
            <4>. QED BY <1>1, <3>4, ChainLinks
        <3>6. Kind(blocks[i]) \in Kinds
            BY DEF Kind, Kinds
        <3>7. Difficulty(blocks[i]) \in V
            <4> HIDE DEF i
            <4>. QED BY <3>5, <3>6 DEF Difficulty
        <3>. QED BY <2>2, <3>7 DEF get_x_difficulty_after_height
    <2>. QED BY <2>1, <2>2
<1>4. ASSUME NEW k \in Kinds
      PROVE  /\ SplitScale(s)[k] \in V
             /\ \E b \in Block : SplitScale(s)[k] = get_x_difficulty_after_height(blocks, s, k, NextDiff[b][k])
    <2>1. SplitScale(s)[k] = get_x_difficulty_after_height(blocks, s, k, get_cached_next_difficulty(k))
        BY DEF SplitScale
    <2>2. PICK b \in Block : get_cached_next_difficulty(k) = NextDiff[b][k]
        BY <1>2
    <2>3. NextDiff[b][k] \in V
        OBVIOUS
    <2> HIDE DEF V
    <2>. QED BY <1>3, <2>1, <2>2, <2>3
<1>5. SplitScale(s) \in [Kinds -> V]
    <2>1. SplitScale(s) = [k \in Kinds |-> SplitScale(s)[k]]
        BY DEF SplitScale
    <2> HIDE DEF V
    <2>. QED BY <1>4, <2>1
<1>. QED BY <1>4, <1>5 DEF Scales

\* The difficulty of the next block of a kind stays what it is until there is a block of it.
LEMMA DifficultyWaits ==
    ASSUME NEW m \in Block, NEW k \in Kinds,
           NEW s \in 1..Len(PathTo[m]), NEW j \in s..Len(PathTo[m]),
           \A i \in (s + 1)..j : Kind(PathTo[m][i]) # k
    PROVE  NextDiff[PathTo[m][j]][k] = NextDiff[PathTo[m][s]][k]
<1> DEFINE p == PathTo[m]
           D(i) == NextDiff[p[i]][k]
           T == {i \in s..j : D(i) # D(s)}
<1>1. /\ p \in Seq(Block) /\ Len(p) \in Nat
      /\ \A i \in 1..Len(p) : p[i] \in Block /\ PathTo[p[i]] = SubSeq(p, 1, i)
    BY PathFacts
<1>2. ASSUME NEW i \in (s + 1)..j PROVE D(i) = D(i - 1)
    <2>1. i \in 2..Len(p) /\ i \in 0..Len(p) /\ i \in 1..Len(p) /\ i - 1 \in 1..i
        BY <1>1
    <2>2. p[i] \in Child
        BY <2>1, PathChild
    <2>3. Len(PathTo[p[i]]) = i /\ PathTo[p[i]][i - 1] = p[i - 1]
        BY <1>1, <2>1, PrefixOf
    <2>4. Parent(p[i]) = p[i - 1]
        BY <2>3 DEF Parent
    <2>5. NextDiff[p[i]][k] = NextDiff[Parent(p[i])][k]
        BY <2>2, TreeAssumption DEF Child
    <2>. QED BY <2>4, <2>5
<1>3. T = {}
    <2>1. SUFFICES ASSUME T # {} PROVE FALSE
        OBVIOUS
    <2>2. T \in SUBSET Nat
        BY <1>1
    <2>3. PICK i \in T : \A n \in T : i <= n
        <3> HIDE DEF T
        <3>. QED BY <2>1, <2>2, Least
    <2>4. i \in (s + 1)..j /\ i - 1 \in s..j /\ i - 1 < i
        <3>1. i \in s..j /\ i # s
            BY <2>3
        <3>. QED BY <1>1, <3>1
    <2>5. D(i - 1) = D(s)
        <3>1. i - 1 \notin T
            <4> HIDE DEF T
            <4>. QED BY <1>1, <2>3, <2>4
        <3>. QED BY <2>4, <3>1
    <2>6. D(i) # D(s)
        BY <2>3
    <2> HIDE DEF D, T
    <2>. QED BY <1>2, <2>4, <2>5, <2>6
<1>. QED BY <1>1, <1>3

\* The scale at a split is what the difficulties were there: for each kind of which the main chain
\* has a block since the split, and for the other if what the node has kept is current
\* ("never met x type of block, that meanst that difficulty is current").
THEOREM ScaleOfSplit ==
    ASSUME NEW m \in Block, NEW s \in 1..Len(PathTo[m]), NEW k \in Kinds, NEW cached_next,
           \/ cached_next = NextDiff[m][k]
           \/ \E i \in (s + 1)..Len(PathTo[m]) : Kind(PathTo[m][i]) = k
    PROVE  get_x_difficulty_after_height(PathTo[m], s, k, cached_next) = NextDiff[PathTo[m][s]][k]
<1> DEFINE p     == PathTo[m]
           after == {i \in (s + 1)..Len(p) : Kind(p[i]) = k}
           first == CHOOSE i \in after : \A j \in after : i <= j
<1>1. /\ p \in Seq(Block) /\ Len(p) \in Nat /\ p[Len(p)] = m
      /\ \A i \in 1..Len(p) : p[i] \in Block /\ PathTo[p[i]] = SubSeq(p, 1, i)
    BY PathFacts
<1>2. CASE after = {}
    <2>1. /\ Len(p) \in s..Len(p) /\ \A i \in (s + 1)..Len(p) : Kind(p[i]) # k
          /\ cached_next = NextDiff[m][k]
        BY <1>1, <1>2
    <2>2. NextDiff[m][k] = NextDiff[p[s]][k]
        BY <1>1, <2>1, DifficultyWaits
    <2>. QED BY <1>2, <2>1, <2>2 DEF get_x_difficulty_after_height
<1>3. CASE after # {}
    <2>1. after \in SUBSET Nat
        BY <1>1
    <2>2. \E i \in after : \A j \in after : i <= j
        <3> HIDE DEF after
        <3>. QED BY <1>3, <2>1, Least
    <2>3. first \in after /\ \A j \in after : first <= j
        <3> HIDE DEF after
        <3>. QED BY <2>2
    <2>4. get_x_difficulty_after_height(p, s, k, cached_next) = Difficulty(p[first])
        BY <1>3 DEF get_x_difficulty_after_height
    <2> HIDE DEF first
    <2>5. /\ first \in (s + 1)..Len(p) /\ Kind(p[first]) = k
          /\ first \in 2..Len(p) /\ first \in 0..Len(p) /\ first \in 1..Len(p)
          /\ first - 1 \in 1..first /\ first - 1 \in s..Len(p)
        BY <1>1, <2>3
    <2>6. Parent(p[first]) = p[first - 1]
        BY <1>1, <2>5, PrefixOf DEF Parent
    <2>7. \A i \in (s + 1)..(first - 1) : Kind(p[i]) # k
        <3>1. SUFFICES ASSUME NEW i \in (s + 1)..(first - 1), Kind(p[i]) = k PROVE FALSE
            OBVIOUS
        <3>2. i \in after /\ ~(first <= i)
            BY <1>1, <2>5, <3>1
        <3> HIDE DEF after
        <3>. QED BY <2>3, <3>2
    <2>8. NextDiff[p[first - 1]][k] = NextDiff[p[s]][k]
        BY <1>1, <2>5, <2>7, DifficultyWaits
    <2>. QED BY <2>4, <2>5, <2>6, <2>8 DEF Difficulty
<1>. QED BY <1>2, <1>3

\* Quotients and products grow with what they are made of.
LEMMA DivUp == ASSUME NEW x \in Nat, NEW y \in Nat \ {0}, NEW q \in Nat, q * y <= x PROVE q <= x \div y
OBVIOUS

LEMMA DivLow == ASSUME NEW x \in Nat, NEW y \in Nat \ {0} PROVE x \div y \in Nat /\ (x \div y) * y <= x
OBVIOUS

LEMMA MulGrows ==
    ASSUME NEW a \in Nat, NEW b \in Nat, NEW c \in Nat, NEW d \in Nat, a <= c, b <= d
    PROVE  a * b \in Nat /\ c * d \in Nat /\ a * b <= c * d
OBVIOUS

LEMMA DivGrows ==
    ASSUME NEW x \in Nat, NEW z \in Nat, NEW y \in Nat \ {0}, NEW w \in Nat \ {0}, x <= z, w <= y
    PROVE  x \div y \in Nat /\ x \div y <= z \div w
<1>1. x \div y \in Nat /\ (x \div y) * y <= x
    BY DivLow
<1>2. (x \div y) * w <= (x \div y) * y /\ (x \div y) * w \in Nat /\ (x \div y) * y \in Nat
    BY <1>1, MulGrows
<1>3. (x \div y) * w <= z
    BY <1>1, <1>2
<1>. QED BY <1>1, <1>3, DivUp

\* More work on one side and less on the other does not make the first one smaller.
LEMMA RelativeGrows ==
    ASSUME NEW scale \in [Kinds -> Nat \ {0}],
           NEW a \in [Kinds -> Nat], NEW b \in [Kinds -> Nat],
           NEW c \in [Kinds -> Nat], NEW d \in [Kinds -> Nat],
           \A k \in Kinds : a[k] <= c[k] /\ d[k] <= b[k]
    PROVE  /\ get_a_to_b_relative_cumulative_difficulty(scale, a, b) \in Nat
           /\ get_a_to_b_relative_cumulative_difficulty(scale, a, b)
                 <= get_a_to_b_relative_cumulative_difficulty(scale, c, d)
<1> DEFINE AtLeast(x) == IF x > 0 THEN x ELSE DIFFICULTY_STARTER
           Sum(x) == AtLeast(x["pow"]) + (AtLeast(x["pos"]) * scale["pow"]) \div scale["pos"]
           Up(x)  == Sum(x) * AtLeast(x["pow"]) * AtLeast(x["pos"])
           Low(x) == AtLeast(x["pow"]) * AtLeast(x["pos"])
<1>1. "pow" \in Kinds /\ "pos" \in Kinds
    BY DEF Kinds
<1>2. \A x, y \in Nat : x <= y => AtLeast(x) \in Nat \ {0} /\ AtLeast(y) \in Nat \ {0} /\ AtLeast(x) <= AtLeast(y)
    BY DEF DIFFICULTY_STARTER
<1> HIDE DEF AtLeast
<1>3. /\ AtLeast(a["pow"]) \in Nat \ {0} /\ AtLeast(c["pow"]) \in Nat \ {0}
      /\ AtLeast(a["pow"]) <= AtLeast(c["pow"])
      /\ AtLeast(a["pos"]) \in Nat \ {0} /\ AtLeast(c["pos"]) \in Nat \ {0}
      /\ AtLeast(a["pos"]) <= AtLeast(c["pos"])
      /\ AtLeast(b["pow"]) \in Nat \ {0} /\ AtLeast(d["pow"]) \in Nat \ {0}
      /\ AtLeast(d["pow"]) <= AtLeast(b["pow"])
      /\ AtLeast(b["pos"]) \in Nat \ {0} /\ AtLeast(d["pos"]) \in Nat \ {0}
      /\ AtLeast(d["pos"]) <= AtLeast(b["pos"])
    BY <1>1, <1>2
<1>4. scale["pow"] \in Nat /\ scale["pos"] \in Nat \ {0}
    BY <1>1
<1>5. Sum(a) \in Nat /\ Sum(c) \in Nat /\ Sum(a) <= Sum(c)
    <2> DEFINE u == AtLeast(a["pos"]) * scale["pow"]
               v == AtLeast(c["pos"]) * scale["pow"]
    <2>1. u \in Nat /\ v \in Nat /\ u <= v
        BY <1>3, <1>4, MulGrows
    <2> DEFINE y == scale["pos"]
    <2> HIDE DEF u, v
    <2>2. u \div y \in Nat /\ v \div y \in Nat /\ u \div y <= v \div y
        <3>1. y \in Nat \ {0} /\ y <= y
            BY <1>4
        <3> HIDE DEF y
        <3>2. u \div y \in Nat /\ u \div y <= v \div y
            BY <2>1, <3>1, DivGrows
        <3>3. v \div y \in Nat
            BY <2>1, <3>1, DivLow
        <3>. QED BY <3>2, <3>3
    <2>. QED BY <1>3, <2>2 DEF u, v
<1>6. Up(a) \in Nat /\ Up(c) \in Nat /\ Up(a) <= Up(c)
    <2> HIDE DEF Sum
    <2>1. /\ Sum(a) * AtLeast(a["pow"]) \in Nat /\ Sum(c) * AtLeast(c["pow"]) \in Nat
          /\ Sum(a) * AtLeast(a["pow"]) <= Sum(c) * AtLeast(c["pow"])
        BY <1>3, <1>5, MulGrows
    <2>. QED BY <1>3, <2>1, MulGrows
<1>7. Low(b) \in Nat \ {0} /\ Low(d) \in Nat \ {0} /\ Low(d) <= Low(b)
    <2>1. Low(b) \in Nat /\ Low(d) \in Nat /\ Low(d) <= Low(b)
        BY <1>3, MulGrows
    <2>2. \A x, y \in Nat \ {0} : x * y # 0
        OBVIOUS
    <2>. QED BY <1>3, <2>1, <2>2
<1>8. /\ get_a_to_b_relative_cumulative_difficulty(scale, a, b) = Up(a) \div Low(b)
      /\ get_a_to_b_relative_cumulative_difficulty(scale, c, d) = Up(c) \div Low(d)
    BY DEF get_a_to_b_relative_cumulative_difficulty, AtLeast
<1> HIDE DEF Up, Low
<1>. QED BY <1>6, <1>7, <1>8, DivGrows

\* By one and the same scale, what a branch has won against does not win in turn, no part of it,
\* unless a lower block ties.  So a switch that asks for another one needs a scale that changed
\* with it (get_x_difficulty_after_height) or a tie (get_a_to_b_relative_cumulative_difficulty).
THEOREM SameScaleSettles ==
    ASSUME WorkGrows, NEW m \in Block, NEW b \in Block, NEW s \in 1..Len(PathTo[m]),
           ForkAt(PathTo[m], PathTo[b], s),
           NEW scale \in [Kinds -> Nat \ {0}], Wins(scale, s, m, b),
           NEW i \in (s + 1)..Len(PathTo[m]),
           \/ i = Len(PathTo[m])
           \/ get_a_to_b_relative_cumulative_difficulty(
                  scale, WorkSince(PathTo[m][i], s), WorkSince(b, s))
              # get_a_to_b_relative_cumulative_difficulty(
                    scale, WorkSince(b, s), WorkSince(PathTo[m][i], s))
    PROVE  ~Wins(scale, s, b, PathTo[m][i])
<1> DEFINE Rel(d, v, w) == get_a_to_b_relative_cumulative_difficulty(d, v, w)
<1> DEFINE x == PathTo[m][i]
           A == WorkSince(m, s)
           B == WorkSince(b, s)
           X == WorkSince(x, s)
<1>1. /\ PathTo[m] \in Seq(Block) /\ Len(PathTo[m]) \in Nat /\ PathTo[m][Len(PathTo[m])] = m
      /\ PathTo[b] \in Seq(Block) /\ Len(PathTo[b]) \in Nat
      /\ s \in 0..Len(PathTo[m]) /\ s \in 1..Len(PathTo[b]) /\ s \in 0..Len(PathTo[b])
      /\ SubSeq(PathTo[m], 1, s) = SubSeq(PathTo[b], 1, s)
    BY PathFacts DEF ForkAt
<1>2. PathTo[b][s] = PathTo[m][s] /\ PathTo[m][s] \in Block
    BY <1>1, PrefixOf, PathFacts
<1>3. /\ i \in 1..Len(PathTo[m]) /\ i \in 0..Len(PathTo[m]) /\ s \in 1..i
      /\ x \in Block /\ PathTo[x] = SubSeq(PathTo[m], 1, i)
    BY <1>1, PathFacts
<1>4. Len(PathTo[x]) = i /\ PathTo[x][s] = PathTo[m][s]
    BY <1>1, <1>3, PrefixOf
<1>5. /\ A \in [Kinds -> Nat] /\ B \in [Kinds -> Nat] /\ X \in [Kinds -> Nat]
      /\ \A k \in Kinds : X[k] <= A[k]
    <2> DEFINE W(d, k) == cumulative_diff_precise_adjusted[d][k]
               q == PathTo[m][s]
    <2>1. ASSUME NEW k \in Kinds
          PROVE  /\ W(m, k) \in Nat /\ W(b, k) \in Nat /\ W(x, k) \in Nat /\ W(q, k) \in Nat
                 /\ W(q, k) <= W(m, k) /\ W(q, k) <= W(b, k) /\ W(q, k) <= W(x, k) /\ W(x, k) <= W(m, k)
        <3>1. W(m, k) \in Nat /\ W(q, k) <= W(m, k) /\ W(x, k) <= W(m, k)
            BY <1>3 DEF WorkGrows
        <3>2. W(b, k) \in Nat /\ W(q, k) <= W(b, k)
            BY <1>1, <1>2 DEF WorkGrows
        <3>3. W(x, k) \in Nat /\ W(q, k) <= W(x, k)
            BY <1>3, <1>4 DEF WorkGrows
        <3>4. W(q, k) \in Nat
            <4>1. Len(PathTo[q]) \in 1..Len(PathTo[q])
                BY <1>2, PathFacts
            <4>. QED BY <1>2, <4>1 DEF WorkGrows
        <3>. QED BY <3>1, <3>2, <3>3, <3>4
    <2>2. /\ A = [k \in Kinds |-> W(m, k) - W(q, k)] /\ B = [k \in Kinds |-> W(b, k) - W(q, k)]
          /\ X = [k \in Kinds |-> W(x, k) - W(q, k)]
        BY <1>2, <1>4 DEF WorkSince
    <2> HIDE DEF W, q, A, B, X
    <2>. QED BY <2>1, <2>2
<1>6. /\ Rel(scale, X, B) \in Nat /\ Rel(scale, A, B) \in Nat
      /\ Rel(scale, B, A) \in Nat /\ Rel(scale, B, X) \in Nat
      /\ Rel(scale, X, B) <= Rel(scale, A, B) /\ Rel(scale, B, A) <= Rel(scale, B, X)
    <2> HIDE DEF A, B, X, Rel
    <2>1. \A k \in Kinds : X[k] <= X[k] /\ A[k] <= A[k] /\ B[k] <= B[k]
        BY <1>5
    <2>. QED BY <1>5, <2>1, RelativeGrows DEF Rel
<1>7. \/ Rel(scale, A, B) < Rel(scale, B, A)
      \/ Rel(scale, A, B) = Rel(scale, B, A) /\ Proof[m] < Proof[b]
    <2>1. Wins(scale, s, m, b)
        OBVIOUS
    <2>. QED BY ONLY <2>1 DEF Wins
<1>8. CASE i = Len(PathTo[m])
    <2>1. x = m /\ X = A
        BY <1>1, <1>8
    <2>2. Proof[m] \in Nat /\ Proof[b] \in Nat
        BY TreeAssumption
    <2>3. ~(Rel(scale, B, A) < Rel(scale, A, B))
          /\ ~(Rel(scale, B, A) = Rel(scale, A, B) /\ Proof[b] < Proof[m])
        BY <1>6, <1>7, <2>2
    <2>. QED BY <2>1, <2>3 DEF Wins
<1>9. CASE i # Len(PathTo[m])
    <2>1. Rel(scale, X, B) # Rel(scale, B, X)
        BY <1>9
    <2>2. Rel(scale, X, B) < Rel(scale, B, X)
        <3> HIDE DEF A, B, X, Rel
        <3>. QED BY <1>6, <1>7, <2>1
    <2>3. ~(Rel(scale, B, X) < Rel(scale, X, B)) /\ Rel(scale, B, X) # Rel(scale, X, B)
        <3> HIDE DEF A, B, X, Rel
        <3>. QED BY <1>6, <2>2
    <2>. QED BY <2>3 DEF Wins
<1>. QED BY <1>8, <1>9

\* A block that asks for a switch wins from where its chain leaves the committed one.
LEMMA SwitchWins ==
    ASSUME ChainInv, CacheSound, blocks = committed,
           NEW b \in Child, NEW onboard, AltAcceptable(b, onboard), is_reorganize_required(b),
           b \notin SeqSet(committed), SeqSet(committed) \cap alt.chains = {}
    PROVE  WinsFrom(SplitHeight(b), b)
<1> DEFINE s == SplitHeight(b)
<1>1. /\ s \in 1..Len(committed) /\ s \in 1..(Len(PathTo[b]) - 1)
      /\ SubSeq(PathTo[b], 1, s) = SubSeq(committed, 1, s)
      /\ PathTo[b][s + 1] \in alt.chains \cup {b}
    BY SplitFacts
<1>2. SplitScale(s) \in Scales(committed, s)
    BY <1>1, ScaleKnown
<1>3. Wins(SplitScale(s), s, Top(committed), b)
    BY DEF is_reorganize_required
<1>4. committed \in Seq(Block) /\ Len(committed) \in Nat /\ PathTo[b] \in Seq(Block) /\ Len(PathTo[b]) \in Nat
    BY ChainFacts, PathFacts DEF ChainInv, DataSound, Child
<1> HIDE DEF s
<1>5. CASE s < Len(committed)
    <2>1. s + 1 \in DOMAIN committed
        BY <1>1, <1>4, <1>5
    <2>2. committed[s + 1] # PathTo[b][s + 1]
        BY <1>1, <2>1 DEF SeqSet
    <2>3. s < Len(PathTo[b])
        BY <1>1, <1>4
    <2>4. ForkAt(committed, PathTo[b], s)
        BY <1>1, <1>5, <2>2, <2>3 DEF ForkAt
    <2>. QED BY <1>2, <1>3, <2>4 DEF WinsFrom, s
<1>6. CASE s = Len(committed)
    BY <1>6 DEF WinsFrom, s
<1>. QED BY <1>1, <1>4, <1>5, <1>6

(***************************************************************************)
(* The containers.                                                         *)
(***************************************************************************)

\* The blocks of a finite set that contain a transaction.
LEMMA Related ==
    ASSUME NEW S \in SUBSET Block, NEW t
    PROVE  IsFiniteSet({b \in S : t \in TxSet(b)}) /\ Cardinality({b \in S : t \in TxSet(b)}) \in Nat
<1>1. {b \in S : t \in TxSet(b)} \in SUBSET Block
    OBVIOUS
<1>2. IsFiniteSet({b \in S : t \in TxSet(b)})
    BY <1>1, ChainAssumption, TreeAssumption, FS_Subset
<1>. QED BY <1>2, FS_CardinalityType

\* A new alternative block is counted and indexed.
LEMMA AddIndexed ==
    ASSUME NEW a \in AltType, IndexSound(a), NEW b \in Child, b \notin a.chains
    PROVE  /\ IndexSound(add_alt_block(a, b))
           /\ add_alt_block(a, b).chains = a.chains \cup {b}
           /\ \A d : Marked(add_alt_block(a, b), d) => Marked(a, d) \/ d = b
<1> DEFINE n == add_alt_block(a, b)
           In(S, t) == {d \in S : t \in TxSet(d)}
<1>1. /\ n.chains = a.chains \cup {b}
      /\ n.txs = [t \in Tx |-> IF t \in TxSet(b) THEN a.txs[t] + 1 ELSE a.txs[t]]
      /\ n.keyimages = [ki \in KeyImage |-> IF ki \in BlockKi(b) THEN a.keyimages[ki] \cup {b}
                                              ELSE a.keyimages[ki]]
    BY DEF add_alt_block
<1>2. b \in Block /\ a.chains \in SUBSET Block
    BY DEF Child, AltType
<1> HIDE DEF n
<1>3. ASSUME NEW t \in Tx PROVE n.txs[t] = Cardinality(In(n.chains, t))
    <2>1. a.txs[t] = Cardinality(In(a.chains, t)) /\ IsFiniteSet(In(a.chains, t))
        BY <1>2, Related DEF IndexSound
    <2>2. CASE t \in TxSet(b)
        <3>1. In(n.chains, t) = In(a.chains, t) \cup {b} /\ b \notin In(a.chains, t)
            BY <1>1, <2>2
        <3>2. Cardinality(In(a.chains, t) \cup {b}) = Cardinality(In(a.chains, t)) + 1
            <4> HIDE DEF In
            <4>. QED BY <2>1, <3>1, FS_AddElement
        <3>. QED BY <1>1, <2>1, <2>2, <3>1, <3>2
    <2>3. CASE t \notin TxSet(b)
        <3>1. In(n.chains, t) = In(a.chains, t)
            BY <1>1, <2>3
        <3>. QED BY <1>1, <2>1, <2>3, <3>1
    <2>. QED BY <2>2, <2>3
<1>4. \A ki \in KeyImage : \A d \in n.keyimages[ki] : ki \in BlockKi(d)
    BY <1>1 DEF IndexSound
<1>5. \A d : Marked(n, d) => Marked(a, d) \/ d = b
    BY <1>1 DEF Marked
<1>6. n.chains \subseteq Child
    BY <1>1 DEF IndexSound
<1>7. IndexSound(n)
    BY <1>3, <1>4, <1>6 DEF IndexSound
<1>. QED BY <1>1, <1>5, <1>7 DEF n

\* Blocks that leave are uncounted, and their entries go if their transactions are found.
LEMMA EraseIndexed ==
    ASSUME NEW a \in AltType, IndexSound(a), NEW S \in SUBSET a.chains, NEW found
    PROVE  /\ IndexSound(do_erase_altblocks(a, S, found))
           /\ do_erase_altblocks(a, S, found).chains = a.chains \ S
           /\ \A d : Marked(do_erase_altblocks(a, S, found), d) => Marked(a, d)
           /\ \A d \in S : TxSet(d) \subseteq found => ~Marked(do_erase_altblocks(a, S, found), d)
<1> DEFINE n == do_erase_altblocks(a, S, found)
           In(R, t) == {d \in R : t \in TxSet(d)}
           T == [t \in Tx |-> IF a.txs[t] > Cardinality(In(S, t))
                              THEN a.txs[t] - Cardinality(In(S, t)) ELSE 0]
           K == [ki \in KeyImage |-> a.keyimages[ki] \ {b \in S : ki \in PurgedKi(b, found)}]
<1>1. n = [a EXCEPT !.chains = a.chains \ S, !.txs = T, !.keyimages = K]
    BY DEF do_erase_altblocks
<1>2. a.chains \in SUBSET Block /\ S \in SUBSET Block
    BY DEF AltType
<1> HIDE DEF n, T, K
<1>3. n.chains = a.chains \ S /\ n.txs = T /\ n.keyimages = K
    BY <1>1 DEF AltType
<1>4. ASSUME NEW t \in Tx PROVE T[t] = Cardinality(In(a.chains \ S, t))
    <2>1. /\ a.txs[t] = Cardinality(In(a.chains, t)) /\ IsFiniteSet(In(a.chains, t))
          /\ Cardinality(In(a.chains, t)) \in Nat
        BY <1>2, Related DEF IndexSound
    <2>2. IsFiniteSet(In(S, t)) /\ Cardinality(In(S, t)) \in Nat
        BY <1>2, Related
    <2>3. /\ In(a.chains \ S, t) = In(a.chains, t) \ In(S, t)
          /\ In(a.chains, t) \cap In(S, t) = In(S, t)
        OBVIOUS
    <2>4. /\ Cardinality(In(a.chains, t) \ In(S, t))
                = Cardinality(In(a.chains, t)) - Cardinality(In(a.chains, t) \cap In(S, t))
          /\ Cardinality(In(a.chains, t) \ In(S, t)) \in Nat
        <3> HIDE DEF In
        <3>1. IsFiniteSet(In(a.chains, t) \ In(S, t))
            BY <2>1, FS_Difference
        <3>. QED BY <2>1, <2>2, <3>1, FS_Difference, FS_CardinalityType
    <2>5. T[t] = IF a.txs[t] > Cardinality(In(S, t)) THEN a.txs[t] - Cardinality(In(S, t)) ELSE 0
        BY DEF T
    <2> HIDE DEF In
    <2>6. /\ Cardinality(In(a.chains \ S, t)) = a.txs[t] - Cardinality(In(S, t))
          /\ Cardinality(In(a.chains \ S, t)) \in Nat
        BY <2>1, <2>3, <2>4
    <2> HIDE DEF T
    <2>. QED BY <2>1, <2>2, <2>5, <2>6
<1>5. \A ki \in KeyImage : K[ki] \subseteq a.keyimages[ki]
    BY DEF K
<1>6. IndexSound(n)
    BY <1>3, <1>4, <1>5 DEF IndexSound
<1>7. \A d : Marked(n, d) => Marked(a, d)
    BY <1>3, <1>5 DEF Marked
<1>8. ASSUME NEW d \in S, TxSet(d) \subseteq found PROVE ~Marked(n, d)
    <2>1. PurgedKi(d, found) = BlockKi(d)
        <3>1. TxSet(d) \cap found = TxSet(d)
            BY <1>8
        <3>. QED BY <3>1 DEF PurgedKi, BlockKi
    <2>2. SUFFICES ASSUME NEW ki \in KeyImage, d \in K[ki] PROVE FALSE
        BY <1>3 DEF Marked
    <2>3. ki \in BlockKi(d)
        BY <1>5, <2>2 DEF IndexSound
    <2>. QED BY <2>1, <2>2, <2>3 DEF K
<1>. QED BY <1>3, <1>6, <1>7, <1>8 DEF n

\* With room for all, no alternative block is over the limit.
LEMMA WithinLimit ==
    ASSUME Room, NEW S \in SUBSET Child
    PROVE  IsFiniteSet(S) /\ Cardinality(S) \in Nat /\ Cardinality(S) <= MaxAltBlocks
<1>1. IsFiniteSet(Child)
    BY ChainAssumption, TreeAssumption, FS_Subset DEF Child
<1>2. IsFiniteSet(S) /\ Cardinality(S) <= Cardinality(Child)
    BY <1>1, FS_Subset
<1>3. Cardinality(S) \in Nat /\ Cardinality(Child) \in Nat /\ MaxAltBlocks \in Nat
    BY <1>1, <1>2, FS_CardinalityType, ChainAssumption, TreeAssumption
<1>. QED BY <1>2, <1>3 DEF Room

\* With room for all, what is stored stays.
LEMMA StoredWithRoom ==
    ASSUME Room, NEW a, a.chains \subseteq Child, StoredOrPruned(a)
    PROVE  alt' = a
<1>1. Cardinality(a.chains) \in Nat /\ Cardinality(a.chains) <= MaxAltBlocks /\ MaxAltBlocks \in Nat
    BY WithinLimit, ChainAssumption, TreeAssumption
<1>2. ~(Cardinality(a.chains) > MaxAltBlocks)
    BY <1>1
<1>. QED BY <1>2 DEF StoredOrPruned

\* With room for all, the pruning erases the blocks that are too old, as it should.
LEMMA PrunedWithRoom ==
    ASSUME Room, NEW a \in AltType, a.chains \subseteq Child, NEW c, NEW found, NEW D \in AltsToDelete(a, c)
    PROVE  prune_aged_alt_blocks(a, c, D, found) = do_erase_altblocks(a, AgedAltBlocks(a, c), found)
<1>1. Cardinality(a.chains) \in Nat /\ Cardinality(a.chains) <= MaxAltBlocks /\ MaxAltBlocks \in Nat
    BY WithinLimit, ChainAssumption, TreeAssumption
<1>2. D \subseteq a.chains /\ Cardinality(D) <= 0
    BY <1>1 DEF AltsToDelete
<1>3. D = {}
    <2>1. IsFiniteSet(D) /\ Cardinality(D) \in Nat
        BY <1>2, WithinLimit
    <2>2. Cardinality(D) = 0
        BY <1>2, <2>1
    <2>. QED BY <2>1, <2>2, FS_EmptySet
<1> DEFINE e == do_erase_altblocks(a, AgedAltBlocks(a, c), found)
<1>4. e = [a EXCEPT !.chains = e.chains, !.txs = e.txs, !.keyimages = e.keyimages]
    BY DEF do_erase_altblocks, AltType
<1> HIDE DEF e
<1>5. [e EXCEPT !.chains = @ \ D] = e
    BY <1>3, <1>4 DEF AltType
<1>. QED BY <1>5 DEF prune_aged_alt_blocks, e

(***************************************************************************)
(* No panic, and no second switch.                                         *)
(***************************************************************************)

\* What the main chain takes is well formed.
LEMMA ConnectableForm ==
    ASSUME NEW b, NEW onboard, Connectable(b, onboard)
    PROVE  WellFormed(b)
BY DEF Connectable, TxOk, WellFormed

\* A block of the committed chain goes back on top of the blocks below it.
LEMMA ConnectsAgain ==
    ASSUME RightClock, ValidChain(committed), ContentInv, NEW k \in 2..Len(committed),
           blocks = SubSeq(committed, 1, k - 1)
    PROVE  Connectable(committed[k], TxSet(committed[k]))
<1> DEFINE b == committed[k]
<1>1. committed \in Seq(Block) /\ Len(committed) \in Nat /\ k \in 1..Len(committed) /\ b \in Child
    BY ChainFacts
<1>2. /\ Len(blocks) = k - 1 /\ blocks \in Seq(Block) /\ k - 1 \in 1..Len(committed)
      /\ \A i \in 1..(k - 1) : blocks[i] = committed[i]
    BY <1>1, PrefixOf
<1>3. Parent(b) = Top(blocks)
    BY <1>1, <1>2, ChainLinks DEF Top
<1>4. BlockKi(b) \cap Spent(blocks) = {}
    <2>1. \A i \in 1..(k - 1) : BlockKi(b) \cap BlockKi(blocks[i]) = {}
        <3>1. \A i \in 1..(k - 1) : i \in 1..Len(committed) /\ i # k
            BY <1>1
        <3>. QED BY <1>1, <1>2, <3>1 DEF ValidChain, SpendsOnce
    <2>2. DOMAIN blocks = 1..(k - 1)
        BY <1>2
    <2>. QED BY <2>1, <2>2 DEF Spent
<1>5. WellFormed(b)
    <2>1. b \in SeqSet(committed)
        BY <1>1 DEF SeqSet
    <2>. QED BY <2>1 DEF ContentInv
<1> HIDE DEF b
<1>6. HeaderOk(b)
    BY <1>3, <1>4 DEF HeaderOk, check_block_timestamp_main, RightClock, BlockKi
<1>7. ASSUME NEW i \in DOMAIN TxsOf[b] PROVE TxOk(b, i, TxSet(b))
    <2>1. TxsOf[b][i] \in TxSet(b)
        BY DEF TxSet
    <2>2. KiOf[TxsOf[b][i]] \cap Spent(blocks) = {}
        BY <1>4, <2>1 DEF BlockKi
    <2>. QED BY <1>5, <2>1, <2>2 DEF WellFormed, TxOk
<1>8. Connectable(b, TxSet(b))
    BY <1>5, <1>6, <1>7 DEF Connectable, WellFormed
<1>. QED BY <1>8 DEF b

\* The rollback of a switch finds every block of the old chain in order.
LEMMA Restores ==
    ASSUME RightClock, ChainInv, ContentInv, ProgressInv, op.pc = "restore",
           Len(blocks) < SwitchSplit + Len(op.old)
    PROVE  Connectable(NextToRestore, OnboardToRestore)
<1>1. /\ Len(blocks) + 1 \in 1..Len(committed) /\ NextToRestore = committed[Len(blocks) + 1]
      /\ blocks = SubSeq(committed, 1, Len(blocks)) /\ Len(blocks) \in Nat
      /\ SwitchSplit \in 1..Len(blocks) /\ Len(committed) \in Nat
    BY RestoreNext, SwitchFacts DEF ChainInv, ViewSound, Switching
<1> DEFINE k == Len(blocks) + 1
<1>2. k \in 2..Len(committed) /\ blocks = SubSeq(committed, 1, k - 1)
    <2>1. k - 1 = Len(blocks) /\ k \in 2..Len(committed)
        BY <1>1
    <2>. QED BY <1>1, <2>1
<1>3. OnboardToRestore = TxSet(NextToRestore)
    <2>1. op.swapped = 0
        BY DEF ProgressInv, Failing
    <2>2. ~(Len(blocks) - SwitchSplit + 1 <= op.swapped)
        BY <1>1, <2>1
    <2>. QED BY <2>2 DEF OnboardToRestore
<1>4. ValidChain(committed)
    BY DEF ChainInv, DataSound
<1>5. Connectable(committed[k], TxSet(committed[k]))
    <2> HIDE DEF k
    <2>. QED BY <1>2, <1>4, ConnectsAgain
<1>. QED BY <1>1, <1>3, <1>5

\* Where the alternative ancestors of a block begin.
LEMMA LowestAncestor ==
    ASSUME NEW b \in Block, NEW s \in 1..(Len(PathTo[b]) - 1),
           \A j \in (s + 1)..(Len(PathTo[b]) - 1) : PathTo[b][j] \in alt.chains,
           PathTo[b][s] \notin alt.chains
    PROVE  /\ AltAncestors(b) = SubSeq(PathTo[b], s + 1, Len(PathTo[b]) - 1)
           /\ SplitHeight(b) = s
           /\ SeqSet(AltAncestors(b)) = {PathTo[b][j] : j \in (s + 1)..(Len(PathTo[b]) - 1)}
<1> DEFINE path == PathTo[b]
           n    == Len(path)
           from == {i \in 1..n : \A j \in i..(n - 1) : path[j] \in alt.chains}
           low  == CHOOSE i \in from : \A j \in from : i <= j
<1>1. path \in Seq(Block) /\ n \in Nat /\ n > 1
    BY PathFacts
<1>2. s + 1 \in from
    BY <1>1
<1>3. \A i \in from : s + 1 <= i
    <2>1. SUFFICES ASSUME NEW i \in from, i <= s PROVE FALSE
        BY <1>1
    <2>2. s \in i..(n - 1)
        BY <1>1, <2>1
    <2>. QED BY <2>1, <2>2
<1>4. low = s + 1
    <2>1. \E i \in from : \A j \in from : i <= j
        <3> HIDE DEF from
        <3>. QED BY <1>2, <1>3
    <2>2. low \in from /\ \A j \in from : low <= j
        <3> HIDE DEF from
        <3>. QED BY <2>1
    <2>3. low <= s + 1 /\ s + 1 <= low /\ low \in Int
        <3>1. low \in Nat
            BY <2>2
        <3> HIDE DEF low, from
        <3>. QED BY <1>2, <1>3, <2>2, <3>1
    <2> HIDE DEF low, from
    <2>. QED BY <2>3
<1>5. AltAncestors(b) = SubSeq(path, low, n - 1)
    BY DEF AltAncestors
<1> HIDE DEF low, from
<1>6. AltAncestors(b) = SubSeq(path, s + 1, n - 1)
    BY <1>4, <1>5
<1>7. /\ Len(AltAncestors(b)) = n - 1 - s
      /\ \A i \in 1..(n - 1 - s) : AltAncestors(b)[i] = path[s + i]
      /\ AltAncestors(b) \in Seq(Block)
    <2>1. \A i \in (s + 1)..(n - 1) : path[i] \in Block
        BY <1>1, ElementOfSeq
    <2>2. s + 1 \in Int /\ n - 1 \in Int /\ \A i \in 1..(n - 1 - s) : (s + 1) + i - 1 = s + i
        BY <1>1
    <2>3. /\ SubSeq(path, s + 1, n - 1) \in Seq(Block)
          /\ Len(SubSeq(path, s + 1, n - 1)) = IF s + 1 <= n - 1 THEN (n - 1) - (s + 1) + 1 ELSE 0
          /\ \A i \in 1..((n - 1) - (s + 1) + 1) :
                SubSeq(path, s + 1, n - 1)[i] = path[(s + 1) + i - 1]
        BY <2>1, <2>2, SubSeqProperties
    <2>4. Len(SubSeq(path, s + 1, n - 1)) = n - 1 - s /\ (n - 1) - (s + 1) + 1 = n - 1 - s
        BY <1>1, <2>3
    <2>. QED BY <1>6, <2>2, <2>3, <2>4
<1>8. SplitHeight(b) = s
    BY <1>1, <1>7 DEF SplitHeight, Height
<1>9. SeqSet(AltAncestors(b)) = {path[j] : j \in (s + 1)..(n - 1)}
    <2>1. DOMAIN AltAncestors(b) = 1..(n - 1 - s)
        BY <1>7
    <2>2. ASSUME NEW d \in SeqSet(AltAncestors(b)) PROVE d \in {path[j] : j \in (s + 1)..(n - 1)}
        <3>1. PICK i \in 1..(n - 1 - s) : d = path[s + i]
            BY <1>7, <2>1, <2>2 DEF SeqSet
        <3>2. s + i \in (s + 1)..(n - 1)
            BY <1>1
        <3>. QED BY <3>1, <3>2
    <2>3. ASSUME NEW j \in (s + 1)..(n - 1) PROVE path[j] \in SeqSet(AltAncestors(b))
        <3>1. j - s \in 1..(n - 1 - s) /\ s + (j - s) = j
            BY <1>1
        <3>2. AltAncestors(b)[j - s] = path[j]
            BY <1>7, <3>1
        <3>. QED BY <2>1, <3>1, <3>2 DEF SeqSet
    <2>. QED BY <2>2, <2>3
<1>. QED BY <1>6, <1>8, <1>9

\* When the alternative chain is connected, its last block is the top.
LEMMA NewTop ==
    ASSUME ChainInv, ProgressInv, op.pc \in {"push", "erase"}
    PROVE  Top(blocks) = Top(op.alt_chain) /\ Top(op.alt_chain) \in Block
<1>1. /\ op.alt_chain \in Seq(Child) /\ Len(op.alt_chain) \in Nat /\ Len(op.alt_chain) > 0
      /\ SwitchSplit \in 1..Len(blocks) /\ Len(blocks) \in Nat
    BY SwitchFacts DEF Switching
<1>2. op.next = Len(op.alt_chain) + 1 /\ Len(blocks) = SwitchSplit + op.next - 1
      /\ \A i \in 1..(op.next - 1) : blocks[SwitchSplit + i] = op.alt_chain[i]
    BY DEF ProgressInv
<1>3. Len(op.alt_chain) \in 1..(op.next - 1) /\ Len(blocks) = SwitchSplit + Len(op.alt_chain)
    BY <1>1, <1>2
<1>4. op.alt_chain[Len(op.alt_chain)] \in Block
    <2>1. Len(op.alt_chain) \in 1..Len(op.alt_chain)
        BY <1>1
    <2>. QED BY <1>1, <2>1, ElementOfSeq DEF Child
<1>. QED BY <1>2, <1>3, <1>4 DEF Top

\* Where the block is that is pushed next.
LEMMA PushNext ==
    ASSUME ChainInv, op.pc = "push", op.swapped < Len(op.old)
    PROVE  /\ SwitchSplit + op.swapped + 1 \in 2..Len(committed)
           /\ op.old[op.swapped + 1] = committed[SwitchSplit + op.swapped + 1]
           /\ op.old[op.swapped + 1] \in Child
<1>1. /\ SwitchSplit \in 1..Len(committed) /\ Len(committed) \in Nat /\ op.swapped \in 0..Len(op.old)
      /\ Len(op.old) = Len(committed) - SwitchSplit
      /\ \A i \in 1..Len(op.old) : op.old[i] = committed[SwitchSplit + i]
    BY SwitchFacts DEF Switching
<1>2. /\ op.swapped + 1 \in 1..Len(op.old) /\ SwitchSplit + op.swapped + 1 = SwitchSplit + (op.swapped + 1)
      /\ SwitchSplit + op.swapped + 1 \in 2..Len(committed)
    <2>1. \A n, s, m, w \in Nat :
             s >= 1 /\ m = n - s /\ w < m =>
                w + 1 \in 1..m /\ s + w + 1 = s + (w + 1) /\ s + w + 1 \in 2..n
        OBVIOUS
    <2>2. SwitchSplit \in Nat /\ SwitchSplit >= 1 /\ op.swapped \in Nat /\ Len(op.old) \in Nat
        BY <1>1, SwitchFacts DEF Switching
    <2>. QED BY <1>1, <2>1, <2>2
<1>3. op.old[op.swapped + 1] = committed[SwitchSplit + op.swapped + 1]
    BY <1>1, <1>2
<1>4. committed[SwitchSplit + op.swapped + 1] \in Child
    BY <1>2, ChainFacts DEF ChainInv, DataSound
<1>. QED BY <1>2, <1>3, <1>4

\* Every block of the old chain is accepted as an alternative one, and none wins.
LEMMA PushAccepted ==
    ASSUME RightClock, ForkChoiceSettled, ChainInv, CacheSound, SwitchInv, op.pc = "push", op.swapped < Len(op.old)
    PROVE  /\ AltAcceptable(op.old[op.swapped + 1], TxSet(op.old[op.swapped + 1]))
           /\ ~is_reorganize_required(op.old[op.swapped + 1])
<1> DEFINE c == committed
           s == SwitchSplit
           k == SwitchSplit + op.swapped + 1
           b == op.old[op.swapped + 1]
<1>1. /\ ValidChain(c) /\ c \in Seq(Block) /\ Len(c) \in Nat /\ \A i \in 1..Len(c) : c[i] \in Block
      /\ AltSound(alt) /\ ValidChain(blocks) /\ blocks \in Seq(Block) /\ Len(blocks) \in Nat
    BY ChainFacts DEF ChainInv, DataSound
<1>2. /\ s \in 1..Len(c) /\ s \in 1..Len(blocks)
      /\ op.swapped \in 0..Len(op.old) /\ Len(op.old) \in Nat
    BY SwitchFacts DEF Switching
<1>3. k \in 2..Len(c) /\ b = c[k] /\ b \in Child /\ b \in Block
    BY PushNext DEF Child
<1>4. s \in 1..(k - 1) /\ k \in 1..Len(c) /\ k = s + op.swapped + 1
    <2>1. k = s + op.swapped + 1
        OBVIOUS
    <2> HIDE DEF c, s, k, b
    <2>. QED BY <1>1, <1>2, <1>3, <2>1
<1>5. SubSeq(blocks, 1, s) = SubSeq(c, 1, s)
    BY DEF ChainInv, ViewSound, Switching
<1>6. /\ \A i \in (s + 1)..(k - 1) : c[i] \in alt.chains
      /\ Apart(c[s]) /\ Apart(c[k])
    <2>1. \A i \in 1..Len(c) : IF i \in (s + 1)..(s + op.swapped) THEN c[i] \in alt.chains ELSE Apart(c[i])
        BY DEF SwitchInv, SetsInv
    <2>2. \A i \in (s + 1)..(k - 1) : i \in 1..Len(c) /\ i \in (s + 1)..(s + op.swapped)
        BY <1>1, <1>2, <1>3, <1>4
    <2>3. s \notin (s + 1)..(s + op.swapped) /\ k \notin (s + 1)..(s + op.swapped)
        BY <1>1, <1>2, <1>4
    <2> HIDE DEF c, s, k
    <2>. QED BY <1>2, <1>4, <2>1, <2>2, <2>3
<1> HIDE DEF c, s, k, b
<1>7. PathTo[b] = SubSeq(c, 1, k) /\ Len(PathTo[b]) = k /\ \A i \in 1..k : PathTo[b][i] = c[i]
    <2>1. k \in 0..Len(c)
        BY <1>1, <1>4
    <2>. QED BY <1>1, <1>3, <1>4, <2>1, ChainFacts, PrefixOf
<1>8. /\ SplitHeight(b) = s
      /\ SeqSet(AltAncestors(b)) = {PathTo[b][j] : j \in (s + 1)..(Len(PathTo[b]) - 1)}
    <2>1. s \in 1..(Len(PathTo[b]) - 1)
        BY <1>4, <1>7
    <2>2. \A j \in (s + 1)..(Len(PathTo[b]) - 1) : PathTo[b][j] \in alt.chains
        <3>1. \A j \in (s + 1)..(k - 1) : j \in 1..k
            BY <1>1, <1>2, <1>4
        <3>. QED BY <1>6, <1>7, <3>1
    <2>3. PathTo[b][s] \notin alt.chains
        <3>1. s \in 1..k
            BY <1>1, <1>4
        <3>. QED BY <1>6, <1>7, <3>1 DEF Apart
    <2>. QED BY <1>3, <2>1, <2>2, <2>3, LowestAncestor
<1>9. blocks[s] = c[s]
    <2>1. s \in 0..Len(c) /\ s \in 0..Len(blocks) /\ s \in 1..s
        BY <1>1, <1>2
    <2>. QED BY <1>1, <1>5, <2>1, PrefixOf
<1>10. Parent(b) \in alt.chains \cup SeqSet(blocks)
    <2>1. Parent(b) = c[k - 1]
        BY <1>1, <1>3, ChainLinks
    <2>2. CASE k - 1 \in (s + 1)..(k - 1)
        BY <1>6, <2>1, <2>2
    <2>3. CASE k - 1 = s
        <3>1. s \in DOMAIN blocks
            BY <1>1, <1>2
        <3>. QED BY <1>9, <2>1, <2>3, <3>1 DEF SeqSet
    <2>4. k - 1 \in (s + 1)..(k - 1) \/ k - 1 = s
        BY <1>1, <1>2, <1>3, <1>4
    <2>. QED BY <2>2, <2>3, <2>4
<1>11. ConnectedToMain(b)
    <2>1. s > 0 /\ Len(blocks) >= s /\ s \in 1..k
        BY <1>1, <1>2, <1>4
    <2>. QED BY <1>7, <1>8, <1>9, <2>1 DEF ConnectedToMain
<1>12. BlockKi(b) \cap Spent(SubSeq(blocks, 1, s)) = {}
    <2>1. \A i \in 1..s : BlockKi(b) \cap BlockKi(c[i]) = {}
        <3>1. \A i \in 1..s : i \in 1..Len(c) /\ i # k
            BY <1>1, <1>2, <1>4
        <3>. QED BY <1>1, <1>3, <1>4, <3>1 DEF ValidChain, SpendsOnce
    <2>2. /\ Len(SubSeq(c, 1, s)) = s /\ SubSeq(c, 1, s) \in Seq(Block)
          /\ \A i \in 1..s : SubSeq(c, 1, s)[i] = c[i]
        <3>1. s \in 0..Len(c)
            BY <1>1, <1>2
        <3>. QED BY <1>1, <3>1, PrefixOf
    <2>3. DOMAIN SubSeq(c, 1, s) = 1..s
        BY <2>2
    <2>. QED BY <1>5, <2>1, <2>2, <2>3 DEF Spent
<1>13. WellFormed(b)
    <2>1. c[k] \in SeqSet(c)
        <3>1. k \in DOMAIN c
            BY <1>1, <1>4
        <3>. QED BY <3>1 DEF SeqSet
    <2>. QED BY <1>3, <2>1 DEF SwitchInv, ContentInv, c
<1>14. \A i, j \in DOMAIN TxsOf[b] : i # j => KiOf[TxsOf[b][i]] \cap KiOf[TxsOf[b][j]] = {}
    <2>1. DOMAIN TxsOf[b] = 1..Len(TxsOf[b]) /\ Len(TxsOf[b]) \in Nat
        <3>1. TxsOf[b] \in Seq(Tx)
            BY <1>3, ChainAssumption, TreeAssumption
        <3>. QED BY <3>1
    <2>2. ASSUME NEW i \in DOMAIN TxsOf[b], NEW j \in DOMAIN TxsOf[b], i < j
          PROVE  KiOf[TxsOf[b][i]] \cap KiOf[TxsOf[b][j]] = {}
        <3>1. i \in 1..(j - 1)
            BY <2>1, <2>2
        <3>2. KiOf[TxsOf[b][i]] \subseteq UNION {KiOf[TxsOf[b][m]] : m \in 1..(j - 1)}
            BY <3>1
        <3>. QED BY <1>13, <3>2 DEF WellFormed
    <2>3. \A i, j \in DOMAIN TxsOf[b] : i # j => i < j \/ j < i
        BY <2>1
    <2>. QED BY <2>2, <2>3
<1>15. \A t \in TxSet(b) : KiOf[t] \cap MinerKi[b] = {}
    BY <1>13 DEF WellFormed, TxSet
<1>16. ASSUME NEW ki \in BlockKi(b), NEW d \in SeqSet(AltAncestors(b)) \cup {b}
       PROVE  d \notin alt.keyimages[ki]
    <2>1. ki \in KeyImage
        BY <1>3, ContentType
    <2>2. CASE d = b
        BY <1>3, <1>6, <2>1, <2>2 DEF Apart, Marked
    <2>3. CASE d # b
        <3>1. PICK j \in (s + 1)..(k - 1) : d = PathTo[b][j]
            BY <1>7, <1>8, <2>3
        <3>2. j \in 1..k /\ j \in 1..Len(c) /\ j # k
            BY <1>1, <1>2, <1>4
        <3>3. d = c[j] /\ BlockKi(d) \cap BlockKi(b) = {}
            BY <1>1, <1>3, <1>4, <1>7, <3>1, <3>2 DEF ValidChain, SpendsOnce
        <3>4. ki \notin BlockKi(d)
            BY <3>3
        <3>. QED BY <2>1, <3>4 DEF SwitchInv, IndexSound
    <2>. QED BY <2>2, <2>3
<1>17. AltAcceptable(b, TxSet(b))
    <2>1. validate_alt_block_txs(b, TxSet(b))
        BY <1>8, <1>12, <1>14, <1>15, <1>16 DEF validate_alt_block_txs
    <2>2. check_block_timestamp(b)
        BY DEF check_block_timestamp, RightClock
    <2>. QED BY <1>3, <1>6, <1>10, <1>11, <2>1, <2>2 DEF AltAcceptable, Apart
<1>18. ~is_reorganize_required(b)
    <2> DEFINE m == Top(c)
               t == Top(op.alt_chain)
    <2>1. Top(blocks) = t /\ t \in Block /\ m \in Block
        BY <1>1, NewTop, ChainFacts DEF SwitchInv
    <2>2. PathTo[t] = blocks /\ PathTo[m] = c
        BY <1>1, <2>1 DEF ValidChain
    <2>3. k \in (s + 1)..Len(c) /\ s # Len(c) /\ c[k] = b
        BY <1>1, <1>2, <1>3, <1>4
    <2>4. ForkAt(c, blocks, s) /\ \E scale \in Scales(c, s) : Wins(scale, s, m, t)
        <3>1. WinsFrom(s, t)
            BY DEF SwitchInv, ForkInv, Away, Switching, s
        <3>. QED BY <2>2, <2>3, <3>1 DEF WinsFrom, c
    <2>5. SplitScale(s) \in Scales(blocks, s)
        BY <1>2, ScaleKnown
    <2> HIDE DEF m, t
    <2>6. ~Wins(SplitScale(s), s, t, b)
        BY <1>2, <2>1, <2>2, <2>3, <2>4, <2>5 DEF ForkChoiceSettled
    <2>. QED BY <1>8, <2>1, <2>6 DEF is_reorganize_required
<1>. QED BY <1>17, <1>18 DEF b

(***************************************************************************)
(* The steps.                                                              *)
(***************************************************************************)

\* The blocks of a longer chain.
LEMMA AppendedSet ==
    ASSUME NEW c \in Seq(Block), NEW b \in Block
    PROVE  SeqSet(Append(c, b)) = SeqSet(c) \cup {b}
<1> DEFINE d == Append(c, b)
<1>1. /\ Len(c) \in Nat /\ DOMAIN c = 1..Len(c) /\ DOMAIN d = 1..(Len(c) + 1)
      /\ d[Len(c) + 1] = b /\ \A i \in 1..Len(c) : d[i] = c[i]
    OBVIOUS
<1>2. /\ \A i \in 1..(Len(c) + 1) : i \in 1..Len(c) \/ i = Len(c) + 1
      /\ Len(c) + 1 \in 1..(Len(c) + 1) /\ \A i \in 1..Len(c) : i \in 1..(Len(c) + 1)
    BY <1>1
<1> HIDE DEF d
<1>3. SeqSet(d) = SeqSet(c) \cup {b}
    BY <1>1, <1>2 DEF SeqSet
<1>. QED BY <1>3 DEF d

\* The blocks of a shorter chain.
LEMMA PrefixSet ==
    ASSUME NEW c \in Seq(Block), NEW n \in 0..Len(c)
    PROVE  SeqSet(SubSeq(c, 1, n)) \subseteq SeqSet(c)
<1>1. /\ Len(c) \in Nat /\ DOMAIN c = 1..Len(c) /\ DOMAIN SubSeq(c, 1, n) = 1..n
      /\ \A i \in 1..n : i \in 1..Len(c) /\ SubSeq(c, 1, n)[i] = c[i]
    BY PrefixOf
<1>. QED BY <1>1 DEF SeqSet

\* The last block of what was appended to.
LEMMA AppendedTop ==
    ASSUME NEW S, NEW c \in Seq(S), NEW b
    PROVE  Top(Append(c, b)) = b
BY DEF Top

\* The chains of a node, by their positions.
LEMMA ChainSets ==
    ASSUME ChainInv
    PROVE  /\ committed \in Seq(Block) /\ blocks \in Seq(Block)
           /\ Len(committed) \in Nat /\ Len(blocks) \in Nat
           /\ SeqSet(committed) = {committed[i] : i \in 1..Len(committed)}
           /\ SeqSet(blocks) = {blocks[i] : i \in 1..Len(blocks)}
           /\ Top(committed) \in Block /\ Top(blocks) \in Block
           /\ alt \in AltType
<1>1. ValidChain(committed) /\ ValidChain(blocks) /\ AltSound(alt)
    BY DEF ChainInv, DataSound
<1>2. /\ committed \in Seq(Block) /\ blocks \in Seq(Block)
      /\ Len(committed) \in Nat /\ Len(blocks) \in Nat
      /\ Top(committed) \in Block /\ Top(blocks) \in Block
    BY <1>1, ChainFacts
<1>3. DOMAIN committed = 1..Len(committed) /\ DOMAIN blocks = 1..Len(blocks)
    BY <1>2
<1>. QED BY <1>1, <1>2, <1>3 DEF SeqSet, AltSound

\* What neither stores an alternative block nor moves the block thread.
LEMMA QuietSwitch ==
    ASSUME SwitchInv, UNCHANGED <<blocks, committed, alt, invalid_blocks, op>>
    PROVE  SwitchInv'
<1>1. SwitchSplit' = SwitchSplit
    BY DEF SwitchSplit
<1>2. ContentInv' /\ IndexSound(alt)' /\ ForkInv'
    BY <1>1 DEF SwitchInv, ContentInv, IndexSound, ForkInv, WinsFrom
<1>3. ProgressInv'
    BY <1>1 DEF SwitchInv, ProgressInv
<1>4. SetsInv'
    BY <1>1 DEF SwitchInv, SetsInv, Apart, have_block
<1>. QED BY <1>2, <1>3, <1>4 DEF SwitchInv

\* add_new_block: a block arrives that the node does not have.
LEMMA SwitchAddNew ==
    ASSUME ChainInv, SwitchInv, NEW b, NEW onboard, add_new_block(b, onboard)
    PROVE  SwitchInv'
<1>1. /\ op.pc = "idle" /\ op'.pc = "main" /\ op'.block = b /\ ~have_block(b)
      /\ UNCHANGED <<blocks, committed, alt, invalid_blocks>>
    BY DEF add_new_block
<1>2. ContentInv' /\ IndexSound(alt)'
    BY <1>1 DEF SwitchInv, ContentInv, IndexSound
<1>3. ProgressInv'
    BY <1>1 DEF ProgressInv, Away, Failing, Switching
<1>4. SetsInv'
    <2>1. \A i \in 1..Len(committed) : Apart(committed[i])'
        BY <1>1 DEF SwitchInv, SetsInv, Apart
    <2>2. invalid_blocks \cap alt.chains = {} /\ ~have_block(op.block)'
        BY <1>1 DEF SwitchInv, SetsInv, Failing, have_block
    <2>. QED BY <1>1, <2>1, <2>2 DEF SetsInv, Failing
<1>5. ForkInv'
    BY <1>1 DEF SwitchInv, ForkInv, Away, Switching
<1>. QED BY <1>2, <1>3, <1>4, <1>5 DEF SwitchInv

\* handle_block_to_main_chain: the block joins the chain, or it is dropped.
LEMMA SwitchMainBlock ==
    ASSUME ChainInv, SwitchInv, handle_block_to_main_chain
    PROVE  SwitchInv'
<1> DEFINE b == op.block
<1>1. /\ op.pc = "main" /\ UNCHANGED <<committed, alt>>
      /\ b \in Child /\ b \in Block /\ blocks = committed
    BY DEF ChainInv, OpSound, ViewSound, handle_block_to_main_chain, Child
<1>2. /\ b \notin SeqSet(committed) /\ b \notin alt.chains /\ b \notin invalid_blocks
      /\ invalid_blocks \cap alt.chains = {}
      /\ \A i \in 1..Len(committed) : Apart(committed[i])
    BY <1>1 DEF SwitchInv, SetsInv, Failing, have_block
<1>3. ValidChain(committed)
    BY DEF ChainInv, DataSound
<1>4. /\ committed \in Seq(Block) /\ Len(committed) \in Nat /\ Top(committed) \in Block
      /\ alt.chains \subseteq Block
      /\ SeqSet(committed) = {committed[i] : i \in 1..Len(committed)}
    BY ChainSets DEF AltType
<1>5. \A d \in Block : Marked(alt, d) => d \in alt.chains \cup invalid_blocks
                                         \/ Height(d) < Len(committed)
    BY DEF SwitchInv, ForkInv
<1> HIDE DEF b
<1>6. CASE Connectable(b, op.onboard) /\ ConnectBlock(b) /\ op' = [pc |-> "commit"]
           /\ UNCHANGED invalid_blocks
    <2>1. op'.pc = "commit" /\ blocks' = Append(committed, b) /\ Parent(b) = Top(committed)
        BY <1>1, <1>6 DEF ConnectBlock, Connectable, HeaderOk
    <2>2. SeqSet(blocks') = SeqSet(committed) \cup {b} /\ Top(blocks') = b
        BY <1>1, <1>4, <2>1, AppendedSet, AppendedTop
    <2>3. Height(b) = Len(committed)
        BY <1>1, <1>3, <2>1, ChainHeight
    <2>4. ~Marked(alt, b)
        <3>1. ~(Height(b) < Len(committed))
            BY <1>4, <2>3
        <3>. QED BY <1>1, <1>2, <1>5, <3>1
    <2>5. ContentInv' /\ IndexSound(alt)'
        <3>1. WellFormed(b)
            BY <1>6, ConnectableForm
        <3>. QED BY <1>1, <2>2, <3>1 DEF SwitchInv, ContentInv, IndexSound
    <2>6. ProgressInv'
        BY <2>1 DEF ProgressInv, Away, Failing, Switching
    <2>7. SetsInv'
        <3>1. Len(blocks') = Len(committed) + 1 /\ blocks'[Len(committed) + 1] = b
              /\ \A i \in 1..Len(committed) : blocks'[i] = committed[i]
            BY <1>4, <2>1
        <3>2. \A i \in 1..Len(blocks') : Apart(blocks'[i])
            <4>1. \A i \in 1..Len(blocks') : i \in 1..Len(committed) \/ i = Len(committed) + 1
                BY <1>4, <3>1
            <4>. QED BY <1>2, <2>4, <3>1, <4>1 DEF Apart
        <3>3. \A i \in 1..Len(blocks') : Apart(blocks[i])'
            BY <1>1, <1>6, <3>2 DEF Apart
        <3>. QED BY <1>1, <1>2, <1>6, <2>1, <3>3 DEF SetsInv, Failing
    <2>8. ForkInv'
        <3>1. Len(committed) <= Len(blocks') /\ SubSeq(blocks', 1, Len(committed)) = committed
            BY <1>4, <2>1
        <3>. QED BY <1>1, <1>5, <1>6, <2>1, <3>1 DEF ForkInv, Away, Switching
    <2>. QED BY <2>5, <2>6, <2>7, <2>8 DEF SwitchInv
<1>7. CASE /\ invalid_blocks' = invalid_blocks \cup {d \in {b} : WrongInputs(d, op.onboard)}
           /\ blocks' = committed /\ op' = Idle
    <2>1. op'.pc = "idle" /\ invalid_blocks' \subseteq invalid_blocks \cup {b}
          /\ invalid_blocks \subseteq invalid_blocks'
        BY <1>7 DEF Idle
    <2>2. ContentInv' /\ IndexSound(alt)'
        BY <1>1, <1>7 DEF SwitchInv, ContentInv, IndexSound
    <2>3. ProgressInv'
        BY <2>1 DEF ProgressInv, Away, Failing, Switching
    <2>4. SetsInv'
        <3>1. \A i \in 1..Len(committed) : Apart(committed[i])'
            BY <1>1, <1>2, <1>4, <2>1 DEF Apart
        <3>2. (invalid_blocks \cap alt.chains)' = {}
            BY <1>1, <1>2, <2>1
        <3>. QED BY <1>1, <2>1, <3>1, <3>2 DEF SetsInv, Failing
    <2>5. ForkInv'
        BY <1>1, <1>5, <2>1 DEF ForkInv, Away, Switching
    <2>. QED BY <2>2, <2>3, <2>4, <2>5 DEF SwitchInv
<1>. QED BY <1>6, <1>7 DEF handle_block_to_main_chain, b

\* commit_transaction: what the block thread has changed becomes the chain.
LEMMA SwitchCommit ==
    ASSUME ChainInv, SwitchInv, commit_transaction
    PROVE  SwitchInv'
<1>1. /\ op.pc = "commit" /\ op'.pc = "idle" /\ committed' = blocks
      /\ UNCHANGED <<blocks, alt, invalid_blocks>>
    BY DEF commit_transaction, Idle
<1>2. ContentInv' /\ IndexSound(alt)'
    BY <1>1 DEF SwitchInv, ContentInv, IndexSound
<1>3. ProgressInv'
    BY <1>1 DEF ProgressInv, Away, Failing, Switching
<1>4. SetsInv'
    <2>1. \A i \in 1..Len(blocks) : Apart(blocks[i])'
        BY <1>1 DEF SwitchInv, SetsInv, Apart
    <2>2. invalid_blocks \cap alt.chains = {}
        BY <1>1 DEF SwitchInv, SetsInv, Failing
    <2>3. \A i \in 1..Len(committed') : Apart(committed[i])'
        BY <1>1, <2>1
    <2>. QED BY <1>1, <2>2, <2>3 DEF SetsInv, Failing
<1>5. ForkInv'
    <2>1. /\ Len(committed) <= Len(blocks)
          /\ \A b \in Block : Marked(alt, b) => b \in alt.chains \cup invalid_blocks
                                                \/ Height(b) < Len(committed)
        BY <1>1 DEF SwitchInv, ForkInv
    <2>2. Len(committed) \in Nat /\ Len(blocks) \in Nat /\ \A b \in Block : Height(b) \in Int
        BY ChainSets, PathFacts DEF Height
    <2>3. \A b \in Block : Marked(alt, b) => b \in alt.chains \cup invalid_blocks
                                             \/ Height(b) < Len(blocks)
        BY <2>1, <2>2
    <2>. QED BY <1>1, <2>3 DEF ForkInv, Away, Switching
<1>. QED BY <1>2, <1>3, <1>4, <1>5 DEF SwitchInv

\* handle_alternative_block: the block is kept, or the switch to it begins.
LEMMA SwitchAlternative ==
    ASSUME Room, ChainInv, CacheSound, SwitchInv, NEW b \in Child, NEW onboard, handle_alternative_block(b, onboard)
    PROVE  SwitchInv'
<1> DEFINE c == Append(AltAncestors(b), b)
           n == add_alt_block(alt, b)
<1>1. /\ op.pc = "idle" /\ ~have_block(b) /\ AltAcceptable(b, onboard) /\ b \in Block
      /\ UNCHANGED <<blocks, committed, invalid_blocks>> /\ blocks = committed
      /\ \/ /\ is_reorganize_required(b) /\ alt' = n
            /\ op' = [pc |-> "disconnect", alt_chain |-> c]
         \/ /\ ~is_reorganize_required(b) /\ StoredOrPruned(n) /\ op' = Idle
    BY DEF handle_alternative_block, Child, ChainInv, ViewSound
<1>2. b \notin SeqSet(committed) /\ b \notin alt.chains /\ b \notin invalid_blocks
    BY <1>1 DEF have_block
<1>3. /\ IndexSound(n) /\ n.chains = alt.chains \cup {b}
      /\ \A d : Marked(n, d) => Marked(alt, d) \/ d = b
    BY <1>2, AddIndexed, ChainSets DEF SwitchInv
<1>4. n.chains \subseteq Child
    BY <1>3 DEF IndexSound
<1> HIDE DEF n, c
<1>5. alt' = n
    BY <1>1, <1>4, StoredWithRoom
<1>6. op'.pc \in {"idle", "disconnect"}
    BY <1>1 DEF Idle
<1>7. /\ \A i \in 1..Len(committed) : Apart(committed[i])
      /\ invalid_blocks \cap alt.chains = {}
      /\ \A d \in Block : Marked(alt, d) => d \in alt.chains \cup invalid_blocks
                                            \/ Height(d) < Len(committed)
    BY <1>1 DEF SwitchInv, SetsInv, ForkInv, Failing
<1>8. ContentInv' /\ IndexSound(alt)'
    BY <1>1, <1>3, <1>5 DEF SwitchInv, ContentInv, IndexSound
<1>9. SetsInv'
    <2>1. SeqSet(committed) = {committed[i] : i \in 1..Len(committed)}
        BY ChainSets
    <2>2. \A i \in 1..Len(committed) : Apart(committed[i])'
        BY <1>1, <1>2, <1>3, <1>5, <1>7, <2>1 DEF Apart
    <2>3. (invalid_blocks \cap alt.chains)' = {}
        BY <1>1, <1>2, <1>3, <1>5, <1>7
    <2>. QED BY <1>1, <1>6, <2>2, <2>3 DEF SetsInv, Failing
<1>10. \A d \in Block : Marked(alt', d) => d \in alt'.chains \cup invalid_blocks
                                           \/ Height(d) < Len(committed)
    BY <1>3, <1>5, <1>7
<1>11. CASE op' = Idle
    <2>1. op'.pc = "idle"
        BY <1>11 DEF Idle
    <2>2. ProgressInv'
        BY <2>1 DEF ProgressInv, Away, Failing, Switching
    <2>3. ForkInv'
        BY <1>1, <1>10, <2>1 DEF ForkInv, Away, Switching
    <2>. QED BY <1>8, <1>9, <2>2, <2>3 DEF SwitchInv
<1>12. CASE op' = [pc |-> "disconnect", alt_chain |-> c]
    <2>1. op'.pc = "disconnect" /\ op'.alt_chain = c
        BY <1>12
    <2>2. WinsFrom(SplitHeight(b), b)
        <3>1. is_reorganize_required(b)
            <4>1. op' # Idle
                BY <2>1 DEF Idle
            <4>. QED BY <1>1, <4>1
        <3>2. SeqSet(committed) \cap alt.chains = {}
            BY <1>7, ChainSets DEF Apart
        <3>. QED BY <1>1, <1>2, <3>1, <3>2, SwitchWins
    <2>3. AltAncestors(b) \in Seq(Block) /\ SeqSet(AltAncestors(b)) \subseteq alt.chains
        <3> DEFINE p == PathTo[b]
                   m == Len(PathTo[b]) - 1
        <3>1. p \in Seq(Block) /\ m \in Nat /\ Len(p) = m + 1
            BY <1>1, PathFacts
        <3>2. PICK low \in 1..Len(p) : /\ AltAncestors(b) = SubSeq(p, low, m)
                                       /\ \A j \in low..m : p[j] \in alt.chains
            BY <1>1, AltAncestorsShape
        <3>3. alt.chains \subseteq Block /\ low \in Int /\ m \in Int
            BY <3>1, ChainSets DEF AltType
        <3>4. SubSeq(p, low, m) \in Seq(alt.chains) /\ SubSeq(p, low, m) \in Seq(Block)
            <4> HIDE DEF p, m
            <4>. QED BY <3>2, <3>3, SubSeqProperties
        <3>5. \A s \in Seq(alt.chains) : SeqSet(s) \subseteq alt.chains
            BY DEF SeqSet
        <3>. QED BY <3>2, <3>4, <3>5
    <2>4. SeqSet(c) \subseteq alt'.chains /\ Top(c) = b
        BY <1>1, <1>3, <1>5, <2>3, AppendedSet, AppendedTop DEF c
    <2>5. ProgressInv'
        BY <2>1, <2>4 DEF ProgressInv, Away, Failing, Switching
    <2>6. ForkInv'
        <3>1. SwitchSplit' = SplitHeight(b)
            BY <1>1, <2>1, SplitFacts DEF SwitchSplit, c
        <3>2. WinsFrom(SwitchSplit, Top(op.alt_chain))'
            BY <1>1, <2>1, <2>2, <2>4, <3>1 DEF WinsFrom
        <3>. QED BY <1>1, <1>10, <2>1, <3>2 DEF ForkInv, Away, Switching
    <2>. QED BY <1>8, <1>9, <2>5, <2>6 DEF SwitchInv
<1>. QED BY <1>1, <1>11, <1>12

\* disconnect_old_chain: the main chain is popped down to the split.
LEMMA SwitchDisconnect ==
    ASSUME ChainInv, SwitchInv, disconnect_old_chain
    PROVE  SwitchInv'
<1>1. /\ op.pc = "disconnect" /\ op'.pc = "connect" /\ op'.alt_chain = op.alt_chain
      /\ op'.next = 1 /\ op'.swapped = 0
      /\ UNCHANGED <<committed, alt, invalid_blocks>> /\ PopBlocks(SwitchSplit)
    BY DEF disconnect_old_chain
<1>2. SwitchSplit \in 1..Len(blocks) /\ SwitchSplit' = SwitchSplit
    BY <1>1 DEF ChainInv, OpSound, ViewSound, SwitchSplit
<1>3. blocks \in Seq(Block) /\ Len(blocks) \in Nat
    BY ChainSets
<1>4. blocks' = SubSeq(blocks, 1, SwitchSplit) /\ Len(blocks') = SwitchSplit
      /\ SeqSet(blocks') \subseteq SeqSet(blocks)
    <2>1. SwitchSplit \in 0..Len(blocks)
        BY <1>2, <1>3
    <2>. QED BY <1>1, <1>2, <1>3, <2>1, PopStep, PrefixSet
<1>5. ContentInv' /\ IndexSound(alt)'
    BY <1>1, <1>4 DEF SwitchInv, ContentInv, IndexSound
<1>6. ProgressInv'
    <2>1. SeqSet(op.alt_chain) \subseteq alt.chains
        BY <1>1 DEF SwitchInv, ProgressInv, Away
    <2>2. Len(blocks') = SwitchSplit' + op'.next - 1 /\ 1..(op'.next - 1) = {}
        BY <1>1, <1>2, <1>3, <1>4
    <2>. QED BY <1>1, <2>1, <2>2 DEF ProgressInv, Away, Failing, Switching
<1>7. SetsInv'
    <2>1. \A i \in 1..Len(committed) : Apart(committed[i])'
        BY <1>1 DEF SwitchInv, SetsInv, Apart
    <2>2. invalid_blocks \cap alt.chains = {}
        BY <1>1 DEF SwitchInv, SetsInv, Failing
    <2>. QED BY <1>1, <2>1, <2>2 DEF SetsInv, Failing
<1>8. ForkInv'
    BY <1>1, <1>2 DEF SwitchInv, ForkInv, WinsFrom, Away, Switching
<1>. QED BY <1>5, <1>6, <1>7, <1>8 DEF SwitchInv

\* connect_alt_block: the next block of the alternative chain is added, or the switch fails.
LEMMA SwitchConnect ==
    ASSUME ChainInv, SwitchInv, connect_alt_block
    PROVE  SwitchInv'
<1> DEFINE b == op.alt_chain[op.next]
<1>1. op.pc = "connect" /\ op.pc \in Switching /\ UNCHANGED <<committed, alt>>
    BY DEF connect_alt_block, Switching
<1>2. /\ op \in SwitchOp /\ op.alt_chain \in Seq(Child) /\ Len(op.alt_chain) \in Nat
      /\ SwitchSplit \in 1..Len(blocks) /\ op.next \in 1..(Len(op.alt_chain) + 1)
      /\ blocks \in Seq(Block) /\ Len(blocks) \in Nat /\ op.next \in 1..Len(op.alt_chain)
    <2>1. op.next <= Len(op.alt_chain)
        BY <1>1 DEF ChainInv, OpSound
    <2>2. /\ op \in SwitchOp /\ op.alt_chain \in Seq(Child) /\ Len(op.alt_chain) \in Nat
          /\ SwitchSplit \in 1..Len(blocks) /\ op.next \in 1..(Len(op.alt_chain) + 1)
        BY <1>1, SwitchFacts
    <2>3. blocks \in Seq(Block) /\ Len(blocks) \in Nat
        BY ChainSets
    <2>. QED BY <2>1, <2>2, <2>3
<1>3. b \in Child /\ b \in Block /\ b \in SeqSet(op.alt_chain)
    <2>1. op.next \in DOMAIN op.alt_chain
        BY <1>2
    <2>. QED BY <1>2, <2>1, ElementOfSeq DEF Child, SeqSet
<1>4. /\ SeqSet(op.alt_chain) \subseteq alt.chains /\ op.swapped = 0
      /\ Len(blocks) = SwitchSplit + op.next - 1
      /\ \A i \in 1..(op.next - 1) : blocks[SwitchSplit + i] = op.alt_chain[i]
    BY <1>1 DEF SwitchInv, ProgressInv, Away
<1>5. /\ \A i \in 1..Len(committed) : Apart(committed[i])
      /\ invalid_blocks \cap alt.chains = {}
    BY <1>1 DEF SwitchInv, SetsInv, Failing
<1>6. /\ WinsFrom(SwitchSplit, Top(op.alt_chain))
      /\ \A d \in Block : Marked(alt, d) => d \in alt.chains \cup invalid_blocks
                                            \/ Height(d) < Len(committed)
    BY <1>1 DEF SwitchInv, ForkInv, Away
<1> HIDE DEF b
<1>7. CASE /\ Connectable(b, TxSet(b)) /\ ConnectBlock(b)
           /\ op' = [op EXCEPT !.next = @ + 1,
                               !.pc = IF op.next = Len(op.alt_chain) THEN "push" ELSE "connect"]
           /\ UNCHANGED invalid_blocks
    <2>1. /\ op'.pc = IF op.next = Len(op.alt_chain) THEN "push" ELSE "connect"
          /\ op'.next = op.next + 1 /\ op'.swapped = 0 /\ op'.alt_chain = op.alt_chain
        BY <1>2, <1>4, <1>7 DEF SwitchOp
    <2>2. SwitchSplit' = SwitchSplit /\ op'.pc \in {"connect", "push"}
          /\ (op'.pc = "push" => op.next = Len(op.alt_chain))
        BY <2>1 DEF SwitchSplit
    <2>3. blocks' = Append(blocks, b)
        BY <1>7 DEF ConnectBlock
    <2>4. ContentInv' /\ IndexSound(alt)'
        <3>1. WellFormed(b)
            BY <1>7, ConnectableForm
        <3>2. SeqSet(blocks') = SeqSet(blocks) \cup {b}
            BY <1>2, <1>3, <2>3, AppendedSet
        <3>. QED BY <1>1, <3>1, <3>2 DEF SwitchInv, ContentInv, IndexSound
    <2>5. ProgressInv'
        <3>1. Len(blocks') = Len(blocks) + 1 /\ blocks'[Len(blocks) + 1] = b
              /\ \A i \in 1..Len(blocks) : blocks'[i] = blocks[i]
            BY <1>2, <2>3
        <3>2. Len(blocks') = SwitchSplit' + op'.next - 1
            BY <1>2, <1>4, <2>1, <2>2, <3>1
        <3>3. ASSUME NEW i \in 1..(op'.next - 1)
              PROVE  blocks'[SwitchSplit' + i] = op'.alt_chain[i]
            <4>1. CASE i = op.next
                <5>1. SwitchSplit + i = Len(blocks) + 1
                    BY <1>2, <1>4, <4>1
                <5>. QED BY <2>1, <2>2, <3>1, <4>1, <5>1 DEF b
            <4>2. CASE i # op.next
                <5>1. i \in 1..(op.next - 1) /\ SwitchSplit + i \in 1..Len(blocks)
                    BY <1>2, <1>4, <2>1, <4>2
                <5>. QED BY <1>4, <2>1, <2>2, <3>1, <5>1
            <4>. QED BY <4>1, <4>2
        <3>. QED BY <1>1, <1>4, <2>1, <2>2, <3>2, <3>3 DEF ProgressInv, Away, Failing, Switching
    <2>6. SetsInv'
        <3>1. \A i \in 1..Len(committed) : Apart(committed[i])'
            BY <1>1, <1>5, <1>7 DEF Apart
        <3>2. (SwitchSplit' + 1)..(SwitchSplit' + op'.swapped) = {}
            BY <1>2, <2>1, <2>2
        <3>3. \A i \in 1..Len(committed) :
                 /\ committed[i] \notin invalid_blocks
                 /\ IF i \in (SwitchSplit' + 1)..(SwitchSplit' + op'.swapped)
                    THEN committed[i] \in alt.chains ELSE Apart(committed[i])'
            BY <1>5, <3>1, <3>2 DEF Apart
        <3>. QED BY <1>1, <1>5, <1>7, <2>2, <3>1, <3>3 DEF SetsInv, Failing
    <2>7. ForkInv'
        BY <1>1, <1>6, <1>7, <2>1, <2>2 DEF ForkInv, WinsFrom, Away, Switching
    <2>. QED BY <2>4, <2>5, <2>6, <2>7 DEF SwitchInv
<1>8. CASE /\ invalid_blocks' = invalid_blocks \cup {d \in {b} : WrongInputs(d, TxSet(d))}
           /\ op' = [op EXCEPT !.pc = "rollback"] /\ UNCHANGED blocks
    <2>1. /\ op'.pc = "rollback" /\ op'.next = op.next /\ op'.swapped = 0
          /\ op'.alt_chain = op.alt_chain
          /\ invalid_blocks \subseteq invalid_blocks' /\ invalid_blocks' \subseteq invalid_blocks \cup {b}
        BY <1>2, <1>4, <1>8 DEF SwitchOp
    <2>2. ContentInv' /\ IndexSound(alt)'
        BY <1>1, <1>8 DEF SwitchInv, ContentInv, IndexSound
    <2>3. ProgressInv'
        BY <1>1, <1>2, <1>4, <2>1 DEF ProgressInv, Away, Failing, Switching
    <2>4. SetsInv'
        <3>1. \A i \in 1..Len(committed) : Apart(committed[i])'
            BY <1>1, <1>3, <1>4, <1>5, <2>1 DEF Apart
        <3>2. \A d \in invalid_blocks' \cap alt.chains :
                 \E i \in op.next..Len(op.alt_chain) : d = op.alt_chain[i]
            <4>1. op.next \in op.next..Len(op.alt_chain)
                BY <1>2
            <4>. QED BY <1>5, <2>1, <4>1 DEF b
        <3>. QED BY <1>1, <2>1, <3>1, <3>2 DEF SetsInv, Failing
    <2>5. ForkInv'
        <3>1. SwitchSplit' = SwitchSplit
            BY <2>1 DEF SwitchSplit
        <3>. QED BY <1>1, <1>6, <2>1, <3>1 DEF ForkInv, WinsFrom, Away, Switching
    <2>. QED BY <2>2, <2>3, <2>4, <2>5 DEF SwitchInv
<1>. QED BY <1>7, <1>8 DEF connect_alt_block, b

\* The rollback moves along the committed chain, and changes nothing else.
LEMMA RollbackMove ==
    ASSUME SwitchInv, op.pc \in {"rollback", "restore"}, op'.pc \in {"restore", "discard"},
           op'.alt_chain = op.alt_chain, op'.next = op.next, op'.swapped = op.swapped,
           UNCHANGED <<committed, alt, invalid_blocks>>,
           \A b \in SeqSet(blocks') : WellFormed(b),
           op'.pc = "discard" => blocks' = committed
    PROVE  SwitchInv'
<1>1. op.pc \in Failing /\ op.pc \in Away
    BY DEF Failing, Away, Switching
<1>2. ContentInv' /\ IndexSound(alt)'
    BY DEF SwitchInv, ContentInv, IndexSound
<1>3. ProgressInv'
    BY <1>1 DEF SwitchInv, ProgressInv, Away, Failing, Switching
<1>4. SetsInv'
    <2>1. \A i \in 1..Len(committed) : Apart(committed[i])'
        BY <1>1 DEF SwitchInv, SetsInv, Apart
    <2>2. \A b \in invalid_blocks \cap alt.chains : \E i \in op.next..Len(op.alt_chain) : b = op.alt_chain[i]
        BY <1>1 DEF SwitchInv, SetsInv
    <2>. QED BY <2>1, <2>2 DEF SetsInv, Failing
<1>5. ForkInv'
    <2>1. SwitchSplit' = SwitchSplit
        BY DEF SwitchSplit
    <2>. QED BY <1>1, <2>1 DEF SwitchInv, ForkInv, WinsFrom, Away, Switching
<1>. QED BY <1>2, <1>3, <1>4, <1>5 DEF SwitchInv

\* rollback_pop, rollback_restore, rollback_done: the original chain comes back, all of it.
LEMMA SwitchRollback ==
    ASSUME RightClock, ChainInv, SwitchInv, rollback_pop \/ rollback_restore \/ rollback_done
    PROVE  SwitchInv'
<1>1. /\ op.pc \in {"rollback", "restore"} /\ op.pc \in Switching
      /\ UNCHANGED <<committed, alt>>
    BY DEF rollback_pop, rollback_restore, rollback_done, Switching
<1>2. /\ op \in SwitchOp /\ SwitchSplit \in 1..Len(blocks) /\ Len(op.alt_chain) \in Nat
      /\ op.next \in 1..(Len(op.alt_chain) + 1) /\ Len(op.old) = Len(committed) - SwitchSplit
    BY <1>1, SwitchFacts
<1>3. /\ blocks \in Seq(Block) /\ committed \in Seq(Block)
      /\ Len(blocks) \in Nat /\ Len(committed) \in Nat
      /\ \A b \in SeqSet(blocks) : WellFormed(b)
    BY ChainSets DEF SwitchInv, ContentInv
<1>4. CASE rollback_pop
    <2>1. op' = [op EXCEPT !.pc = "restore"] /\ PopBlocks(SwitchSplit) /\ UNCHANGED invalid_blocks
        BY <1>4 DEF rollback_pop
    <2>2. /\ op'.pc = "restore" /\ op'.alt_chain = op.alt_chain
          /\ op'.next = op.next /\ op'.swapped = op.swapped
        BY <1>2, <2>1 DEF SwitchOp
    <2>3. SeqSet(blocks') \subseteq SeqSet(blocks)
        <3>1. SwitchSplit \in 0..Len(blocks)
            BY <1>2, <1>3
        <3>. QED BY <1>3, <2>1, <3>1, PrefixSet DEF PopBlocks
    <2>. QED BY <1>1, <1>3, <2>1, <2>2, <2>3, RollbackMove
<1>5. CASE rollback_restore
    <2>1. op.pc = "restore" /\ Len(blocks) < SwitchSplit + Len(op.old)
        BY <1>5 DEF rollback_restore
    <2>2. Connectable(NextToRestore, OnboardToRestore) /\ WellFormed(NextToRestore)
          /\ NextToRestore \in Block
        BY <2>1, Restores, RestoreNext, ConnectableForm DEF SwitchInv, Child
    <2>3. UNCHANGED <<op, invalid_blocks>> /\ blocks' = Append(blocks, NextToRestore)
        BY <1>5, <2>2 DEF rollback_restore, ConnectBlock
    <2>4. \A b \in SeqSet(blocks') : WellFormed(b)
        BY <1>3, <2>2, <2>3, AppendedSet
    <2>. QED BY <1>1, <2>1, <2>3, <2>4, RollbackMove
<1>6. CASE rollback_done
    <2>1. /\ op.pc = "restore" /\ Len(blocks) = SwitchSplit + Len(op.old)
          /\ op' = [op EXCEPT !.pc = AfterRollback] /\ UNCHANGED <<blocks, invalid_blocks>>
        BY <1>6 DEF rollback_done
    <2>2. AfterRollback = "discard"
        <3>1. op.next <= Len(op.alt_chain)
            BY <2>1 DEF SwitchInv, ProgressInv, Failing
        <3>2. ~(op.next > Len(op.alt_chain))
            BY <1>2, <3>1
        <3>. QED BY <3>2 DEF AfterRollback
    <2>3. /\ op'.pc = "discard" /\ op'.alt_chain = op.alt_chain
          /\ op'.next = op.next /\ op'.swapped = op.swapped
        BY <1>2, <2>1, <2>2 DEF SwitchOp
    <2>4. blocks = committed
        <3>1. Len(blocks) = Len(committed)
            BY <1>2, <1>3, <2>1
        <3>2. blocks = SubSeq(committed, 1, Len(blocks))
            BY <2>1 DEF ChainInv, ViewSound
        <3>. QED BY <1>3, <3>1, <3>2, SubSeqFull
    <2>. QED BY <1>1, <1>3, <2>1, <2>3, <2>4, RollbackMove
<1>. QED BY <1>4, <1>5, <1>6

\* discard_alt_chain: the block that failed and those after it are dropped.
LEMMA SwitchDiscard ==
    ASSUME ChainInv, SwitchInv, discard_alt_chain
    PROVE  SwitchInv'
<1> DEFINE S == SeqSet(SubSeq(op.alt_chain, op.next, Len(op.alt_chain)))
           n == do_erase_altblocks(alt, S, Findable)
<1>1. /\ op.pc = "discard" /\ op.pc \in Switching /\ UNCHANGED committed
      /\ invalid_blocks' = invalid_blocks \cup S /\ alt' = n
      /\ op' = IF Len(blocks) = Len(committed) THEN Idle ELSE [pc |-> "stale_size"]
    BY DEF discard_alt_chain, Switching
<1>2. blocks = committed /\ blocks' = blocks /\ op'.pc = "idle"
    <2>1. blocks = committed
        BY <1>1 DEF SwitchInv, ProgressInv
    <2>2. op' = Idle
        BY <1>1, <2>1
    <2>. QED BY <2>1, <2>2, DiscardStep DEF Idle
<1>3. S = {op.alt_chain[i] : i \in op.next..Len(op.alt_chain)}
    <2> DEFINE a == op.alt_chain
               k == op.next
               t == SubSeq(a, k, Len(a))
    <2>1. a \in Seq(Child) /\ Len(a) \in Nat /\ k \in 1..(Len(a) + 1)
        BY <1>1, SwitchFacts
    <2> HIDE DEF a, k
    <2>2. \A i \in k..Len(a) : a[i] \in Child
        BY <2>1, ElementOfSeq
    <2>3. t \in Seq(Child) /\ Len(t) = Len(a) - k + 1 /\ \A i \in 1..(Len(a) - k + 1) : t[i] = a[k + i - 1]
        BY <2>1, <2>2, SubSeqProperties
    <2> HIDE DEF t
    <2>4. DOMAIN t = 1..(Len(a) - k + 1)
        BY <2>3
    <2>5. ASSUME NEW i \in k..Len(a) PROVE a[i] \in SeqSet(t)
        <3>1. i - k + 1 \in 1..(Len(a) - k + 1) /\ k + (i - k + 1) - 1 = i
            BY <2>1
        <3>2. t[i - k + 1] = a[i]
            BY <2>3, <3>1
        <3>. QED BY <2>4, <3>1, <3>2 DEF SeqSet
    <2>6. ASSUME NEW i \in 1..(Len(a) - k + 1) PROVE t[i] \in {a[j] : j \in k..Len(a)}
        <3>1. k + i - 1 \in k..Len(a)
            BY <2>1
        <3>. QED BY <2>3, <3>1
    <2>7. SeqSet(t) = {a[i] : i \in k..Len(a)}
        BY <2>4, <2>5, <2>6 DEF SeqSet
    <2>. QED BY <2>7 DEF a, k, t
<1>4. S \subseteq alt.chains /\ Top(op.alt_chain) \in S
    <2>1. SeqSet(op.alt_chain) \subseteq alt.chains /\ op.next <= Len(op.alt_chain)
        BY <1>1 DEF SwitchInv, ProgressInv, Away, Failing
    <2>2. op.alt_chain \in Seq(Child) /\ Len(op.alt_chain) \in Nat /\ op.next \in 1..(Len(op.alt_chain) + 1)
        BY <1>1, SwitchFacts
    <2>3. Len(op.alt_chain) \in op.next..Len(op.alt_chain)
          /\ \A i \in op.next..Len(op.alt_chain) : i \in DOMAIN op.alt_chain
        BY <2>1, <2>2
    <2> HIDE DEF S
    <2>. QED BY <1>3, <2>1, <2>3 DEF SeqSet, Top
<1> HIDE DEF S
<1>5. /\ IndexSound(n) /\ n.chains = alt.chains \ S
      /\ \A d : Marked(n, d) => Marked(alt, d)
    BY <1>4, ChainSets, EraseIndexed DEF SwitchInv
<1> HIDE DEF n
<1>6. ContentInv' /\ IndexSound(alt)'
    BY <1>1, <1>2, <1>5 DEF SwitchInv, ContentInv, IndexSound
<1>7. ProgressInv'
    BY <1>2 DEF ProgressInv, Away, Failing, Switching
<1>8. SetsInv'
    <2>1. /\ \A i \in 1..Len(committed) : Apart(committed[i])
          /\ \A d \in invalid_blocks \cap alt.chains : d \in S
        BY <1>1, <1>3 DEF SwitchInv, SetsInv, Failing
    <2>2. \A i \in 1..Len(committed) : Apart(committed[i])'
        BY <1>1, <1>4, <1>5, <2>1 DEF Apart
    <2>3. (invalid_blocks \cap alt.chains)' = {}
        BY <1>1, <1>5, <2>1
    <2>. QED BY <1>1, <1>2, <2>2, <2>3 DEF SetsInv, Failing
<1>9. ForkInv'
    <2>1. \A d \in Block : Marked(alt, d) => d \in alt.chains \cup invalid_blocks
                                             \/ Height(d) < Len(committed)
        BY DEF SwitchInv, ForkInv
    <2>. QED BY <1>1, <1>2, <1>5, <2>1 DEF ForkInv, Away, Switching
<1>. QED BY <1>6, <1>7, <1>8, <1>9 DEF SwitchInv

\* push_old_block: a block of the old chain becomes an alternative one.
LEMMA SwitchPush ==
    ASSUME RightClock, Room, ForkChoiceSettled, ChainInv, CacheSound, SwitchInv, push_old_block
    PROVE  SwitchInv'
<1> DEFINE b == op.old[op.swapped + 1]
           k == SwitchSplit + op.swapped + 1
           n == add_alt_block(alt, b)
<1>1. /\ op.pc = "push" /\ op.pc \in Switching /\ op.swapped < Len(op.old)
      /\ UNCHANGED <<blocks, committed, invalid_blocks>>
    BY DEF push_old_block, Switching
<1>2. AltAcceptable(b, TxSet(b)) /\ ~is_reorganize_required(b)
    BY <1>1, PushAccepted
<1>3. StoredOrPruned(n) /\ op' = [op EXCEPT !.swapped = @ + 1]
    BY <1>2 DEF push_old_block
<1>4. /\ op \in SwitchOp /\ op.swapped \in 0..Len(op.old) /\ Len(op.old) \in Nat
      /\ SwitchSplit \in 1..Len(committed) /\ Len(committed) \in Nat
    BY <1>1, SwitchFacts
<1>5. /\ op'.pc = "push" /\ op'.swapped = op.swapped + 1 /\ op'.next = op.next
      /\ op'.alt_chain = op.alt_chain /\ SwitchSplit' = SwitchSplit
    <2>1. /\ op'.pc = "push" /\ op'.swapped = op.swapped + 1 /\ op'.next = op.next
          /\ op'.alt_chain = op.alt_chain
        BY <1>1, <1>3, <1>4 DEF SwitchOp
    <2>. QED BY <2>1 DEF SwitchSplit
<1>6. k \in 1..Len(committed) /\ b = committed[k] /\ b \in Child /\ b \in Block
    <2>1. k \in 2..Len(committed) /\ b = committed[k] /\ b \in Child
        BY <1>1, PushNext
    <2>2. k \in 1..Len(committed)
        <3> HIDE DEF k
        <3>. QED BY <1>4, <2>1
    <2>. QED BY <2>1, <2>2 DEF Child
<1>7. /\ \A i \in 1..Len(committed) :
            /\ committed[i] \notin invalid_blocks
            /\ IF i \in (SwitchSplit + 1)..(SwitchSplit + op.swapped)
               THEN committed[i] \in alt.chains ELSE Apart(committed[i])
      /\ invalid_blocks \cap alt.chains = {}
    BY <1>1 DEF SwitchInv, SetsInv, Failing
<1>8. b \notin alt.chains /\ b \notin invalid_blocks
    BY <1>2, <1>6, <1>7 DEF AltAcceptable
<1>9. /\ IndexSound(n) /\ n.chains = alt.chains \cup {b}
      /\ \A d : Marked(n, d) => Marked(alt, d) \/ d = b
    BY <1>6, <1>8, AddIndexed, ChainSets DEF SwitchInv
<1>10. n.chains \subseteq Child
    BY <1>9 DEF IndexSound
<1>11. ValidChain(committed)
    BY DEF ChainInv, DataSound
<1>12. \A i \in 1..Len(committed) : i # k => committed[i] # b
    BY <1>6, <1>11, ChainLinks
<1>14. \A i \in 1..Len(committed) :
          i \in (SwitchSplit + 1)..(SwitchSplit + op'.swapped)
             <=> i \in (SwitchSplit + 1)..(SwitchSplit + op.swapped) \/ i = k
    BY <1>4, <1>5
<1> HIDE DEF n, b, k
<1>15. alt' = n
    BY <1>3, <1>10, StoredWithRoom
<1>16. ContentInv' /\ IndexSound(alt)'
    BY <1>1, <1>9, <1>15 DEF SwitchInv, ContentInv, IndexSound
<1>17. ProgressInv'
    <2>1. /\ SeqSet(op.alt_chain) \subseteq alt.chains /\ op.next = Len(op.alt_chain) + 1
          /\ Len(blocks) = SwitchSplit + op.next - 1
          /\ \A i \in 1..(op.next - 1) : blocks[SwitchSplit + i] = op.alt_chain[i]
        BY <1>1 DEF SwitchInv, ProgressInv, Away
    <2>. QED BY <1>1, <1>5, <1>9, <1>15, <2>1 DEF ProgressInv, Away, Failing, Switching
<1>18. SetsInv'
    <2>1. \A i \in 1..Len(committed) : i # k /\ Apart(committed[i]) => Apart(committed[i])'
        BY <1>1, <1>9, <1>12, <1>15 DEF Apart
    <2>2. ASSUME NEW i \in 1..Len(committed)
          PROVE  /\ committed[i] \notin invalid_blocks
                 /\ IF i \in (SwitchSplit + 1)..(SwitchSplit + op'.swapped)
                    THEN committed[i] \in alt'.chains ELSE Apart(committed[i])'
        <3>1. CASE i = k
            BY <1>6, <1>8, <1>9, <1>14, <1>15, <3>1
        <3>2. CASE i # k
            BY <1>7, <1>9, <1>14, <1>15, <2>1, <3>2
        <3>. QED BY <3>1, <3>2
    <2>3. (invalid_blocks \cap alt.chains)' = {}
        BY <1>1, <1>7, <1>8, <1>9, <1>15
    <2>. QED BY <1>1, <1>5, <2>2, <2>3 DEF SetsInv, Failing
<1>19. ForkInv'
    <2>1. /\ WinsFrom(SwitchSplit, Top(op.alt_chain))
          /\ \A d \in Block : Marked(alt, d) => d \in alt.chains \cup invalid_blocks
                                                \/ Height(d) < Len(committed)
        BY <1>1 DEF SwitchInv, ForkInv, Away
    <2>. QED BY <1>1, <1>5, <1>9, <1>15, <2>1 DEF ForkInv, WinsFrom, Away, Switching
<1>. QED BY <1>16, <1>17, <1>18, <1>19 DEF SwitchInv

\* push_done: the old chain is pushed.
LEMMA SwitchPushDone ==
    ASSUME ChainInv, SwitchInv, push_done
    PROVE  SwitchInv'
<1>1. /\ op.pc = "push" /\ op.pc \in Switching /\ op' = [op EXCEPT !.pc = "erase"]
      /\ UNCHANGED <<blocks, committed, alt, invalid_blocks>>
    BY DEF push_done, Switching
<1>2. /\ op'.pc = "erase" /\ op'.swapped = op.swapped /\ op'.next = op.next
      /\ op'.alt_chain = op.alt_chain /\ SwitchSplit' = SwitchSplit
    <2>1. op \in SwitchOp
        BY <1>1, SwitchFacts
    <2>2. /\ op'.pc = "erase" /\ op'.swapped = op.swapped /\ op'.next = op.next
          /\ op'.alt_chain = op.alt_chain
        BY <1>1, <2>1 DEF SwitchOp
    <2>. QED BY <2>2 DEF SwitchSplit
<1>3. ContentInv' /\ IndexSound(alt)'
    BY <1>1 DEF SwitchInv, ContentInv, IndexSound
<1>4. ProgressInv'
    BY <1>1, <1>2 DEF SwitchInv, ProgressInv, Away, Failing, Switching
<1>5. SetsInv'
    <2>1. \A i \in 1..Len(committed) :
             /\ committed[i] \notin invalid_blocks
             /\ IF i \in (SwitchSplit + 1)..(SwitchSplit + op.swapped)
                THEN committed[i] \in alt.chains ELSE Apart(committed[i])
        BY <1>1 DEF SwitchInv, SetsInv
    <2>2. \A i \in 1..Len(committed) : Apart(committed[i])' <=> Apart(committed[i])
        BY <1>1 DEF Apart
    <2>3. invalid_blocks \cap alt.chains = {}
        BY <1>1 DEF SwitchInv, SetsInv, Failing
    <2>. QED BY <1>1, <1>2, <2>1, <2>2, <2>3 DEF SetsInv, Failing
<1>6. ForkInv'
    BY <1>1, <1>2 DEF SwitchInv, ForkInv, WinsFrom, Away, Switching
<1>. QED BY <1>3, <1>4, <1>5, <1>6 DEF SwitchInv

\* erase_alt_chain: the blocks that joined the main chain leave the alternative ones, with
\* all their entries, for their transactions are found in the chain.
LEMMA SwitchErase ==
    ASSUME WinnersNotShorter, ChainInv, SwitchInv, erase_alt_chain
    PROVE  SwitchInv'
<1> DEFINE S == SeqSet(op.alt_chain)
           n == do_erase_altblocks(alt, S, Findable)
           s == SwitchSplit
<1>1. /\ op.pc = "erase" /\ op.pc \in Switching /\ op'.pc = "commit"
      /\ S \subseteq alt.chains /\ alt' = n
      /\ UNCHANGED <<blocks, committed, invalid_blocks>>
    BY DEF erase_alt_chain, Switching
<1>2. /\ op.alt_chain \in Seq(Child) /\ Len(op.alt_chain) \in Nat /\ Len(op.alt_chain) > 0
      /\ s \in 1..Len(blocks) /\ s \in 1..Len(committed)
      /\ blocks \in Seq(Block) /\ committed \in Seq(Block)
      /\ Len(blocks) \in Nat /\ Len(committed) \in Nat
    BY <1>1, SwitchFacts, ChainSets
<1>3. /\ op.next = Len(op.alt_chain) + 1 /\ Len(blocks) = s + op.next - 1
      /\ \A i \in 1..(op.next - 1) : blocks[s + i] = op.alt_chain[i]
    BY <1>1 DEF SwitchInv, ProgressInv
<1>4. Len(blocks) = s + Len(op.alt_chain) /\ \A i \in 1..Len(op.alt_chain) : blocks[s + i] = op.alt_chain[i]
    <2> HIDE DEF s
    <2>. QED BY <1>2, <1>3
<1>5. SubSeq(blocks, 1, s) = SubSeq(committed, 1, s)
    BY <1>1 DEF ChainInv, ViewSound
<1> HIDE DEF s
<1>6. \A i \in 1..s : blocks[i] = committed[i] /\ i \in 1..Len(committed)
    <2>1. s \in 0..Len(blocks) /\ s \in 0..Len(committed)
        BY <1>2
    <2>. QED BY <1>2, <1>5, <2>1, PrefixOf
<1>7. \A i \in 1..Len(blocks) : i \in 1..s \/ (i - s \in 1..Len(op.alt_chain) /\ s + (i - s) = i)
    BY <1>2, <1>4
<1>8. \A d \in S : TxSet(d) \subseteq Findable
    <2>1. ASSUME NEW d \in S PROVE \E i \in 1..Len(blocks) : d = blocks[i]
        <3>1. PICK i \in 1..Len(op.alt_chain) : d = op.alt_chain[i]
            BY <1>2, <2>1 DEF SeqSet
        <3>2. s + i \in 1..Len(blocks)
            BY <1>2, <1>4
        <3>. QED BY <1>4, <3>1, <3>2
    <2>2. MainTxs(blocks) = UNION {TxSet(blocks[i]) : i \in 1..Len(blocks)}
        BY <1>2, ChainTxs
    <2> HIDE DEF S
    <2>. QED BY <2>1, <2>2 DEF Findable
<1>9. \A i \in 1..Len(op.alt_chain) : op.alt_chain[i] \in S
    BY <1>2 DEF SeqSet
<1> HIDE DEF S
<1>10. /\ IndexSound(n) /\ n.chains = alt.chains \ S
       /\ \A d : Marked(n, d) => Marked(alt, d)
       /\ \A d \in S : ~Marked(n, d)
    BY <1>1, <1>8, ChainSets, EraseIndexed DEF SwitchInv
<1> HIDE DEF n
<1>11. /\ invalid_blocks \cap alt.chains = {}
       /\ \A i \in 1..Len(committed) :
            IF i \in (s + 1)..(s + op.swapped) THEN committed[i] \in alt.chains ELSE Apart(committed[i])
    BY <1>1 DEF SwitchInv, SetsInv, Failing, s
<1>12. ContentInv' /\ IndexSound(alt)'
    BY <1>1, <1>10 DEF SwitchInv, ContentInv, IndexSound
<1>13. ProgressInv'
    BY <1>1 DEF ProgressInv, Away, Failing, Switching
<1>14. SetsInv'
    <2>1. ASSUME NEW i \in 1..s PROVE Apart(blocks[i])'
        <3>1. i \notin (s + 1)..(s + op.swapped)
            BY <1>2
        <3>2. Apart(blocks[i])
            BY <1>6, <1>11, <3>1
        <3>. QED BY <1>1, <1>10, <3>2 DEF Apart
    <2>2. \A d \in S : d \notin alt'.chains /\ ~Marked(alt', d) /\ d \notin invalid_blocks'
        BY <1>1, <1>10, <1>11
    <2>3. ASSUME NEW i \in 1..Len(blocks) PROVE Apart(blocks[i])'
        <3>1. CASE i \in 1..s
            BY <2>1, <3>1
        <3>2. CASE i \notin 1..s
            <4>1. i - s \in 1..Len(op.alt_chain) /\ s + (i - s) = i
                BY <1>7, <3>2
            <4>2. blocks[i] \in S
                BY <1>4, <1>9, <4>1
            <4>. QED BY <1>1, <2>2, <4>2 DEF Apart
        <3>. QED BY <3>1, <3>2
    <2>4. (invalid_blocks \cap alt.chains)' = {}
        BY <1>1, <1>10, <1>11
    <2>. QED BY <1>1, <2>3, <2>4 DEF SetsInv, Failing
<1>15. ForkInv'
    <2>1. /\ WinsFrom(s, Top(op.alt_chain))
          /\ \A d \in Block : Marked(alt, d) => d \in alt.chains \cup invalid_blocks
                                                \/ Height(d) < Len(committed)
        BY <1>1 DEF SwitchInv, ForkInv, Away, s
    <2>2. /\ Top(blocks) = Top(op.alt_chain) /\ Top(blocks) \in Block /\ Top(committed) \in Block
          /\ blocks = PathTo[Top(blocks)] /\ committed = PathTo[Top(committed)]
        BY <1>1, NewTop, ChainSets DEF SwitchInv, ChainInv, DataSound, ValidChain
    <2>3. \A d \in Block : Marked(n, d) => d \in n.chains \cup invalid_blocks
                                           \/ Height(d) < Len(committed)
        BY <1>10, <2>1
    <2>4. CASE s = Len(committed)
        <3>1. Len(committed) <= Len(blocks)
            BY <1>2, <1>4, <2>4
        <3>2. SubSeq(blocks, 1, Len(committed)) = committed
            BY <1>2, <1>5, <2>4, SubSeqFull
        <3>. QED BY <1>1, <2>3, <3>1, <3>2 DEF ForkInv, Away, Switching
    <2>5. CASE s # Len(committed)
        <3>1. /\ ForkAt(committed, blocks, s)
              /\ \E scale \in Scales(committed, s) : Wins(scale, s, Top(committed), Top(blocks))
            BY <2>1, <2>2, <2>5 DEF WinsFrom
        <3>2. Height(Top(committed)) <= Height(Top(blocks))
            BY <1>2, <2>2, <3>1 DEF WinnersNotShorter
        <3>3. Len(committed) <= Len(blocks)
            BY <1>2, <2>2, <3>2 DEF Height
        <3>4. Supersedes(blocks, committed)
            BY <1>2, <3>1 DEF Supersedes
        <3>. QED BY <1>1, <2>3, <3>3, <3>4 DEF ForkInv, Away, Switching
    <2>. QED BY <2>4, <2>5
<1>. QED BY <1>12, <1>13, <1>14, <1>15 DEF SwitchInv

\* prune_aged_alt_blocks: what is too old has lost, whatever entries of it stay behind.
LEMMA SwitchPrune ==
    ASSUME Room, ChainInv, SwitchInv, prune_alt_blocks_on_idle
    PROVE  SwitchInv'
<1> DEFINE S == AgedAltBlocks(alt, blocks)
           n == do_erase_altblocks(alt, S, Findable)
<1>1. op.pc = "idle" /\ UNCHANGED <<blocks, committed, invalid_blocks, op>> /\ blocks = committed
    BY DEF prune_alt_blocks_on_idle, ChainInv, ViewSound
<1>2. alt \in AltType /\ IndexSound(alt) /\ alt.chains \subseteq Child /\ S \in SUBSET alt.chains
    BY ChainSets DEF SwitchInv, IndexSound, AgedAltBlocks
<1>3. alt' = n
    BY <1>2, PrunedWithRoom DEF prune_alt_blocks_on_idle
<1> HIDE DEF S
<1>4. IndexSound(n) /\ n.chains = alt.chains \ S /\ \A d : Marked(n, d) => Marked(alt, d)
    BY <1>2, EraseIndexed
<1> HIDE DEF n
<1>5. /\ \A i \in 1..Len(committed) : Apart(committed[i])
      /\ invalid_blocks \cap alt.chains = {}
      /\ \A d \in Block : Marked(alt, d) => d \in alt.chains \cup invalid_blocks
                                            \/ Height(d) < Len(committed)
    BY <1>1 DEF SwitchInv, SetsInv, ForkInv, Failing
<1>6. ContentInv' /\ IndexSound(alt)'
    BY <1>1, <1>3, <1>4 DEF SwitchInv, ContentInv, IndexSound
<1>7. ProgressInv'
    BY <1>1 DEF ProgressInv, Away, Failing, Switching
<1>8. SetsInv'
    <2>1. \A i \in 1..Len(committed) : Apart(committed[i])'
        BY <1>1, <1>3, <1>4, <1>5 DEF Apart
    <2>2. (invalid_blocks \cap alt.chains)' = {}
        BY <1>1, <1>3, <1>4, <1>5
    <2>. QED BY <1>1, <2>1, <2>2 DEF SetsInv, Failing
<1>9. ForkInv'
    <2>1. \A d \in S : Height(d) < Len(committed)
        BY <1>1 DEF S, AgedAltBlocks
    <2>2. \A d \in Block : Marked(n, d) => d \in n.chains \cup invalid_blocks
                                           \/ Height(d) < Len(committed)
        BY <1>4, <1>5, <2>1
    <2>. QED BY <1>1, <1>3, <2>2 DEF ForkInv, Away, Switching
<1>. QED BY <1>6, <1>7, <1>8, <1>9 DEF SwitchInv

\* There is nothing in empty containers.
LEMMA NothingIndexed == IndexSound(NoAlt) /\ NoAlt.chains = {} /\ \A b : ~Marked(NoAlt, b)
<1>1. /\ NoAlt.chains = {} /\ NoAlt.txs = [t \in Tx |-> 0]
      /\ NoAlt.keyimages = [ki \in KeyImage |-> {}]
    BY DEF NoAlt
<1>2. \A t \in Tx : {b \in NoAlt.chains : t \in TxSet(b)} = {}
    BY <1>1
<1>. QED BY <1>1, <1>2, FS_EmptySet DEF IndexSound, Marked

\* Between two blocks, without alternative ones.
Cleared ==
    /\ op.pc = "idle" /\ alt = NoAlt
    /\ \A b \in SeqSet(committed) \cup SeqSet(blocks) : WellFormed(b)
    /\ \A i \in 1..Len(committed) : committed[i] \notin invalid_blocks

\* A node without alternative blocks.
LEMMA NothingAside == Cleared => SwitchInv
<1>. SUFFICES ASSUME Cleared PROVE SwitchInv
    OBVIOUS
<1>1. ContentInv /\ IndexSound(alt)
    BY NothingIndexed DEF Cleared, ContentInv
<1>2. ProgressInv
    BY DEF Cleared, ProgressInv, Away, Failing, Switching
<1>3. SetsInv
    <2>1. \A i \in 1..Len(committed) : Apart(committed[i])
        BY NothingIndexed DEF Cleared, Apart
    <2>. QED BY <2>1, NothingIndexed DEF Cleared, SetsInv, Failing
<1>4. ForkInv
    BY NothingIndexed DEF Cleared, ForkInv, Away, Switching
<1>. QED BY <1>1, <1>2, <1>3, <1>4 DEF SwitchInv

\* The same of the state a step leads to.
LEMMA NothingAsideNext == Cleared' => SwitchInv'
BY NothingAside, PTL

\* truncate_blockchain, clear_altblocks and the restart forget the alternative blocks.
LEMMA SwitchResets ==
    ASSUME ChainInv, SwitchInv,
           (\E n \in 1..Cardinality(Block) : truncate_blockchain(n)) \/ clear_altblocks \/ Restart
    PROVE  SwitchInv'
<1>1. \A b \in SeqSet(committed) \cup SeqSet(blocks) : WellFormed(b)
    BY DEF SwitchInv, ContentInv
<1>2. op.pc = "idle" => \A i \in 1..Len(committed) : committed[i] \notin invalid_blocks
    BY DEF SwitchInv, SetsInv, Apart
<1>3. /\ op'.pc = "idle" /\ alt' = NoAlt
      /\ \A b \in SeqSet(committed') \cup SeqSet(blocks') : WellFormed(b)
      /\ \A i \in 1..Len(committed') : committed'[i] \notin invalid_blocks'
    <2>1. ASSUME NEW n \in 1..Cardinality(Block), truncate_blockchain(n)
          PROVE  /\ op'.pc = "idle" /\ alt' = NoAlt
                 /\ \A b \in SeqSet(committed') \cup SeqSet(blocks') : WellFormed(b)
                 /\ \A i \in 1..Len(committed') : committed'[i] \notin invalid_blocks'
        <3>1. /\ op.pc = "idle" /\ op'.pc = "idle" /\ alt' = NoAlt /\ UNCHANGED invalid_blocks
              /\ committed' = SubSeq(blocks, 1, n) /\ blocks' = SubSeq(blocks, 1, n)
              /\ n \in 1..Len(blocks) /\ blocks = committed
            BY <2>1, TruncateFacts DEF truncate_blockchain, PopBlocks
        <3>2. committed \in Seq(Block) /\ Len(committed) \in Nat
            BY ChainSets
        <3>3. n \in 0..Len(committed) /\ \A i \in 1..n : i \in 1..Len(committed)
            BY <3>1, <3>2
        <3>4. /\ SeqSet(SubSeq(committed, 1, n)) \subseteq SeqSet(committed)
              /\ Len(SubSeq(committed, 1, n)) = n
              /\ \A i \in 1..n : SubSeq(committed, 1, n)[i] = committed[i]
            BY <3>2, <3>3, PrefixOf, PrefixSet
        <3>. QED BY <1>1, <1>2, <3>1, <3>3, <3>4
    <2>2. CASE clear_altblocks
        BY <1>1, <1>2, <2>2 DEF clear_altblocks
    <2>3. CASE Restart
        BY <1>1, <2>3 DEF Restart, Idle
    <2>. QED BY <2>1, <2>2, <2>3
<1>4. Cleared'
    BY <1>3 DEF Cleared
<1>. QED BY <1>4, NothingAsideNext

\* The genesis block alone.
LEMMA SwitchInit == ASSUME Init PROVE SwitchInv
<1>1. /\ op.pc = "idle" /\ alt = NoAlt /\ invalid_blocks = {}
      /\ committed = <<Genesis>> /\ blocks = <<Genesis>>
    BY DEF Init, Idle
<1>2. SeqSet(<<Genesis>>) = {Genesis}
    BY DEF SeqSet
<1>3. WellFormed(Genesis)
    <2>1. TxsOf[Genesis] = <<>> /\ Genesis \notin BadBlock
        BY ChainAssumption, TreeAssumption
    <2>2. DOMAIN TxsOf[Genesis] = {}
        BY <2>1
    <2>. QED BY <2>1, <2>2 DEF WellFormed
<1>. QED BY <1>1, <1>2, <1>3, NothingAside DEF Cleared

(***************************************************************************)
(* What follows.                                                           *)
(***************************************************************************)

\* Every step keeps the invariant of the switch.
LEMMA SwitchStep ==
    ASSUME RightClock, Room, ForkChoiceSettled, WinnersNotShorter,
           ChainInv, CacheSound, SwitchInv, [Next]_vars
    PROVE  SwitchInv'
<1>1. CASE NodeNext
    <2>1. ASSUME NEW b \in Block, Deliver(b) PROVE SwitchInv'
        <3>1. PICK onboard \in {{}, TxSet(b)} :
                 b # Genesis /\ (add_new_block(b, onboard) \/ handle_alternative_block(b, onboard))
            BY <2>1 DEF Deliver
        <3>2. b \in Child
            BY <3>1 DEF Child
        <3>. QED BY <3>1, <3>2, SwitchAddNew, SwitchAlternative
    <2>2. CASE BlockThread
        BY <2>2, SwitchMainBlock, SwitchCommit, SwitchDisconnect, SwitchConnect, SwitchRollback,
           SwitchDiscard, SwitchPush, SwitchPushDone, SwitchErase DEF BlockThread
    <2>3. CASE \/ \E t \in Tx : handle_incoming_tx(t)
               \/ \E t \in Tx : remove_stuck_transactions(t)
               \/ \E k \in Asked : get_next_diff_conditional(k)
               \/ Tick \/ SetClock
        <3>1. UNCHANGED <<blocks, committed, alt, invalid_blocks, op>>
            BY <2>3 DEF handle_incoming_tx, remove_stuck_transactions, get_next_diff_conditional,
                        Tick, SetClock
        <3>. QED BY <3>1, QuietSwitch
    <2>4. CASE prune_alt_blocks_on_idle
        BY <2>4, SwitchPrune
    <2>. QED BY <1>1, <2>1, <2>2, <2>3, <2>4 DEF NodeNext
<1>2. CASE (\E n \in 1..Cardinality(Block) : truncate_blockchain(n)) \/ clear_altblocks \/ Restart
    BY <1>2, SwitchResets
<1>3. CASE UNCHANGED vars
    BY <1>3, QuietSwitch DEF vars
<1>. QED BY <1>1, <1>2, <1>3 DEF Next

\* With a clock that is right, room for every alternative block and a fork choice that is settled
\* once a branch of its length or more has won, in every state of the node, the middle of a switch
\* included: the containers of alternative blocks say what they hold, and what the node switches
\* to wins against the committed chain.
THEOREM SwitchInvariant ==
    ASSUME RightClock, Room, ForkChoiceSettled, WinnersNotShorter
    PROVE  Spec => []SwitchInv
<1>1. Init => SwitchInv
    BY SwitchInit
<1>2. ChainInv /\ CacheSound /\ SwitchInv /\ [Next]_vars => SwitchInv'
    BY SwitchStep
<1>. QED BY <1>1, <1>2, ChainInvariant, CacheInvariant, PTL DEF Spec

\* A switch never meets what it cannot handle: the rollback finds every block of the old chain
\* connectable again (no "PANIC!!!"), pushing the old chain asks for no further switch (no
\* "Detected recursive reorganzie"), and no iterator of alt_chain is erased under the switch
\* (switch_to_alternative_blockchain, rollback_blockchain_switching).
THEOREM SwitchesAreSound ==
    ASSUME RightClock, Room, ForkChoiceSettled, WinnersNotShorter
    PROVE  Spec => []SwitchSound
<1>1. ChainInv /\ CacheSound /\ SwitchInv => SwitchSound
    <2>1. SUFFICES ASSUME ChainInv, CacheSound, SwitchInv PROVE SwitchSound
        OBVIOUS
    <2>2. NoPanic
        BY <2>1, Restores DEF SwitchInv, NoPanic
    <2>3. NoRecursiveReorganize
        BY <2>1, PushAccepted DEF NoRecursiveReorganize
    <2>4. SwitchIteratorsValid
        <3>1. op.pc \notin {"idle", "main", "commit", "stale_size"} => op.pc \in Away
            BY <2>1 DEF ChainInv, OpSound, Steps, Away, Switching
        <3>. QED BY <2>1, <3>1 DEF SwitchInv, ProgressInv, SwitchIteratorsValid
    <2>. QED BY <2>2, <2>3, <2>4 DEF SwitchSound
<1>. QED BY <1>1, ChainInvariant, CacheInvariant, SwitchInvariant, PTL

\* The committed chain only grows or gives way, at the split, to a branch that wins against it by
\* the difficulties the node may have used there (is_reorganize_required): no switch that failed,
\* no rollback and no restart leaves a shorter or a weaker chain, unless the operator truncates it.
THEOREM OnlyBetterChains ==
    ASSUME RightClock, Room, ForkChoiceSettled, WinnersNotShorter
    PROVE  Spec => BetterChainOnly
<1>1. ASSUME ChainInv, SwitchInv, [Next]_vars PROVE [GrowsOrGivesWay]_vars
    <2>1. committed \in Seq(Block) /\ Len(committed) \in Nat
        BY <1>1, ChainSets
    <2>2. CASE UNCHANGED committed
        <3>1. SubSeq(committed, 1, Len(committed)) = committed
            BY <2>1, SubSeqFull
        <3>. QED BY <2>1, <2>2, <3>1 DEF GrowsOrGivesWay
    <2>3. CASE commit_transaction
        <3>1. op.pc = "commit" /\ committed' = blocks
            BY <2>3 DEF commit_transaction
        <3>2. /\ Len(committed) <= Len(blocks) /\ Len(blocks) \in Nat
              /\ SubSeq(blocks, 1, Len(committed)) = committed \/ Supersedes(blocks, committed)
            BY <1>1, <3>1, ChainSets DEF SwitchInv, ForkInv
        <3>. QED BY <2>1, <3>1, <3>2 DEF GrowsOrGivesWay
    <2>4. CASE \E n \in 1..Cardinality(Block) : truncate_blockchain(n)
        BY <2>4 DEF GrowsOrGivesWay
    <2>5. CASE UNCHANGED vars
        BY <2>5
    <2>6. CASE NodeNext
        <3>1. UNCHANGED committed \/ commit_transaction
            BY <2>6 DEF NodeNext, Deliver, add_new_block, handle_alternative_block, BlockThread,
               handle_block_to_main_chain, disconnect_old_chain, connect_alt_block, rollback_pop,
               rollback_restore, rollback_done, discard_alt_chain, push_old_block, push_done,
               erase_alt_chain, handle_incoming_tx, remove_stuck_transactions,
               get_next_diff_conditional, prune_alt_blocks_on_idle, Tick, SetClock
        <3>. QED BY <2>2, <2>3, <3>1
    <2>7. CASE clear_altblocks \/ Restart
        <3>1. UNCHANGED committed
            BY <2>7 DEF clear_altblocks, Restart
        <3>. QED BY <2>2, <3>1
    <2>. QED BY <1>1, <2>4, <2>5, <2>6, <2>7 DEF Next
<1>. QED BY <1>1, ChainInvariant, SwitchInvariant, PTL DEF Spec, BetterChainOnly

\* After any sequence of switches, failures and rollbacks, m_alternative_chains_txs counts what
\* m_alternative_chains holds, and between two blocks the main chain, the alternative blocks and
\* the invalid ones have no block in common (do_erase_altblock, have_block).
THEOREM ContainersAgree ==
    ASSUME RightClock, Room, ForkChoiceSettled, WinnersNotShorter
    PROVE  Spec => []AltContainersAgree
<1>1. ChainInv /\ SwitchInv => AltContainersAgree
    <2>1. SUFFICES ASSUME ChainInv, SwitchInv PROVE AltContainersAgree
        OBVIOUS
    <2>2. AltTxCounts
        BY <2>1 DEF SwitchInv, IndexSound, AltTxCounts
    <2>3. BlockSetsDisjoint
        <3>1. SUFFICES ASSUME op.pc = "idle"
                       PROVE  /\ SeqSet(blocks) \cap alt.chains = {}
                              /\ invalid_blocks \cap (SeqSet(blocks) \cup alt.chains) = {}
            BY DEF BlockSetsDisjoint
        <3>2. SeqSet(blocks) = {committed[i] : i \in 1..Len(committed)}
            BY <2>1, <3>1, ChainSets DEF ChainInv, ViewSound
        <3>3. /\ \A i \in 1..Len(committed) : Apart(committed[i])
              /\ invalid_blocks \cap alt.chains = {}
            BY <2>1, <3>1 DEF SwitchInv, SetsInv, Failing
        <3>. QED BY <3>2, <3>3 DEF Apart
    <2>. QED BY <2>2, <2>3 DEF AltContainersAgree
<1>. QED BY <1>1, ChainInvariant, SwitchInvariant, PTL
=============================================================================
