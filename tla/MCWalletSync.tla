---------------------------- MODULE MCWalletSync ----------------------------
(***************************************************************************)
(* A tree with three branches.  A (a1..a5) and B leave each other after    *)
(* a4, and a5 and b5 have the same height; C leaves both after a2, deeper  *)
(* than the shortener remembers.                                           *)
(* r and q pay the wallet (o1, o2), s sends o1 with change o3, x sends o2; *)
(* k is the coinbase of a stake block that spends o1, m a mined coinbase.  *)
(***************************************************************************)
EXTENDS WalletSync

const_Parent ==
  [a1 |-> "g", a2 |-> "a1", a3 |-> "a2", a4 |-> "a3", a5 |-> "a4",
   b5 |-> "a4", b6 |-> "b5",
   c3 |-> "a2", c4 |-> "c3", c5 |-> "c4", c6 |-> "c5", c7 |-> "c6", c8 |-> "c7"]
const_TxsOf ==
  [b \in DOMAIN const_Parent \cup {"g"} |->
     CASE b = "a2" -> <<"r">> [] b = "a3" -> <<"q">> [] b = "a5" -> <<"s">>
       [] b = "b5" -> <<"k">> [] b = "b6" -> <<"x">>
       [] b = "c3" -> <<"m", "q">> [] b = "c5" -> <<"s">> [] OTHER -> <<>>]
const_In ==
  [r |-> {}, q |-> {}, s |-> {"o1"}, x |-> {"o2"}, k |-> {"o1"}, m |-> {}]
const_Out ==
  [r |-> <<"o1">>, q |-> <<"o2">>, s |-> <<"o3">>, x |-> <<>>, k |-> <<"o4">>, m |-> <<"o5">>]
const_Level == <<[divider |-> 2, size |-> 2], [divider |-> 4, size |-> 2]>>
=============================================================================
