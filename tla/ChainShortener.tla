--------------------------- MODULE ChainShortener ---------------------------
(***************************************************************************)
(* wallet_chain_shortener: what a wallet remembers of the chain it has     *)
(* scanned.  Of the last EveryBlock blocks all ids are kept, of the older  *)
(* ones every Level[1].divider-th, and so on, each level with a limited    *)
(* number of entries.  The functions are operators on a record             *)
(*                                                                         *)
(*   m_local_bc_size, m_genesis, maps                                      *)
(*                                                                         *)
(* where maps[1] is m_last_20_blocks and maps[l + 1] the map of Level[l]:  *)
(* functions from heights to ids.                                          *)
(***************************************************************************)
EXTENDS Integers, Sequences, FiniteSets, FiniteSetsExt

CONSTANTS
  EveryBlock,  \* WALLET_EVERYBLOCK_SIZE (20)
  FirstIds,    \* ids of the last blocks in a short history (10)
  Level        \* <<[divider, size], ...>>: 10, 100 and 1000 with 144 each

ASSUME ShortenerAssumption ==
  /\ {EveryBlock, FirstIds} \subseteq Nat \ {0} /\ FirstIds <= EveryBlock
  /\ \A l \in DOMAIN Level : Level[l] \in [divider : Nat \ {0}, size : Nat \ {0}]

Maps == 1..(Len(Level) + 1)
Divider(l) == IF l = 1 THEN 1 ELSE Level[l - 1].divider
SizeOf(l)  == IF l = 1 THEN EveryBlock ELSE Level[l - 1].size
Begin(map) == Min(DOMAIN map)
Back(map)  == Max(DOMAIN map)

NewChain(genesis) ==
  [m_local_bc_size |-> 1, m_genesis |-> genesis, maps |-> [l \in Maps |-> <<>>]]

Only(map, heights) == [h \in DOMAIN map \cap heights |-> map[h]]

Put(map, height, id, size) ==
  LET put == [h \in DOMAIN map \cup {height} |-> IF h = height THEN id ELSE map[h]]
  IN  IF Cardinality(DOMAIN put) > size THEN Only(put, DOMAIN put \ {Begin(put)}) ELSE put

push_new_block_id(chain, id, height) ==
  [chain EXCEPT
     !.m_local_bc_size = height + 1,
     !.maps = [l \in Maps |-> IF height % Divider(l) = 0
                              THEN Put(@[l], height, id, SizeOf(l)) ELSE @[l]]]

\* the self checks of push_new_block_id
PushFails(chain, height) ==
  \/ chain.m_local_bc_size # 1 /\ chain.m_local_bc_size # height
  \/ \E l \in Maps \ {1} : /\ height % Divider(l) = 0 /\ DOMAIN chain.maps[l] # {}
                           /\ Back(chain.maps[l]) + Divider(l) # height

\* lookup_item_around: the first map that reaches back to height i, 0 if
\* there is none, the height of the entry next below i in it, and the self
\* check that the map has that entry
\* mutant: the first map that has entries, however far it reaches back
HolderNonempty(chain, i) ==
  LET holding == {l \in Maps : DOMAIN chain.maps[l] # {}}
  IN  IF holding = {} THEN 0 ELSE Min(holding)
Holder(chain, i) ==
  LET holding == {l \in Maps : DOMAIN chain.maps[l] # {} /\ Begin(chain.maps[l]) <= i}
  IN  IF holding = {} THEN 0 ELSE Min(holding)
lookup_item_around(chain, i) == i - (i % Divider(Holder(chain, i)))
LookupFails(chain, i) ==
  Holder(chain, i) # 0 /\ lookup_item_around(chain, i) \notin DOMAIN chain.maps[Holder(chain, i)]

\* get_short_chain_history: the first heights, then heights ever further
\* apart, then the genesis.  LookedUp are the heights the walk looks up, up
\* to the one that has no map or fails.
FirstHeights(chain) ==
  {h \in DOMAIN chain.maps[1] : h > Back(chain.maps[1]) - FirstIds}
LookedUp(chain) ==
  LET size == chain.m_local_bc_size
      Walk[back \in Nat, distance \in Nat] ==
        IF back >= size THEN {}
        ELSE IF Holder(chain, size - back) = 0 \/ LookupFails(chain, size - back) THEN {size - back}
        ELSE LET h == lookup_item_around(chain, size - back)
             IN  {size - back} \cup Walk[size - h + 2 * distance, 2 * distance]
  IN  Walk[Cardinality(FirstHeights(chain)) + 1, 1]
Distant(chain) ==
  {lookup_item_around(chain, i) :
     i \in {j \in LookedUp(chain) : Holder(chain, j) # 0 /\ ~LookupFails(chain, j)}}

\* its self check, and that of the look-ups of the walk
HistoryFails(chain) ==
  \/ /\ FirstHeights(chain) # {}
     /\ Cardinality(FirstHeights(chain)) # chain.m_local_bc_size - Min(FirstHeights(chain))
  \/ \E i \in LookedUp(chain) : LookupFails(chain, i)

\* the ids in the order of the list: their heights decrease
get_short_chain_history(chain) ==
  {<<h, chain.maps[1][h]>> : h \in FirstHeights(chain)}
    \cup {<<h, chain.maps[Holder(chain, h)][h]>> : h \in Distant(chain)}
    \cup {<<0, chain.m_genesis>>}

\* check_if_block_matched: "reset" is full_reset_needed
InShortSequence(chain, i) == DOMAIN chain.maps[1] # {} /\ i > Begin(chain.maps[1])
check_if_block_matched(chain, i, id) ==
  CASE i = 0 -> IF id = chain.m_genesis THEN "matched" ELSE "reset"
    [] i # 0 /\ InShortSequence(chain, i) ->
         IF id = chain.maps[1][i] THEN "matched" ELSE "differs"
    [] i # 0 /\ ~InShortSequence(chain, i) /\ Holder(chain, i) = 0 -> "reset"
    [] OTHER -> IF /\ lookup_item_around(chain, i) = i
                   /\ id = chain.maps[Holder(chain, i)][i]
                THEN "matched" ELSE "differs"
CheckFails(chain, i) ==
  /\ i # 0
  /\ IF InShortSequence(chain, i) THEN i \notin DOMAIN chain.maps[1] ELSE LookupFails(chain, i)

\* mutant: only the last blocks are cleaned
detach_last(chain, including_height) ==
  [chain EXCEPT !.m_local_bc_size = including_height,
                !.maps[1] = Only(@, 0..(including_height - 1))]

detach(chain, including_height) ==
  [chain EXCEPT !.m_local_bc_size = including_height,
                !.maps = [l \in Maps |-> Only(@[l], 0..(including_height - 1))]]
=============================================================================
