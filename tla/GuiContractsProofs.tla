------------------------- MODULE GuiContractsProofs -------------------------
(***************************************************************************)
(* What the wallet's contracts, the two queues and the GUI's list are, for *)
(* any set of contracts, any times and any number of confirmations: the    *)
(* types of everything (TypeOK), the shape of a session (SessionInv,       *)
(* CallInv), the entries of the list (ListInv), the state a contract is in *)
(* when its transactions came in order (Ordered, a part of WalletInv), and *)
(* that no proposal is offered that has expired (NoExpiredOffer).          *)
(***************************************************************************)
EXTENDS GuiContracts, FiniteSetTheorems, SequenceTheorems, TLAPS

Proposal(c)      == <<c, "proposal">>
Accept(c)        == <<c, "accept">>
Request(c)       == <<c, "cancel">>
SecondRequest(c) == <<c, "recancel">>
Cancelled(c)     == <<c, "release_cancel">>

\* A contract of the wallet: NoContract, or one with the template's expiration
CancelTimes == {0, CancelTime["cancel"], CancelTime["recancel"]}
Con == [state : 0..6, height : 0..MaxHeight, expiration_time : {0, Expiration},
        cancel_expiration_time : CancelTimes]
Sound(con) == /\ con \in Con
              /\ con.state = 0 => con = NoContract
              /\ con.state # 0 => con.expiration_time = Expiration
SoundCon == {con \in Con : Sound(con)}

\* the state that a transaction of a kind gives a contract
StateOf(k) == CASE k = "proposal" -> 1 [] k = "accept" -> 2 [] k \in Cancel -> 5
                [] k = "release_normal" -> 3 [] k = "release_burn" -> 4
                [] k = "release_cancel" -> 6

LEMMA KindFacts ==
  /\ Kind \subseteq {"proposal", "accept"} \cup Cancel \cup Release
  /\ Release \cap Cancel = {} /\ "proposal" \notin Cancel \cup Release
  /\ "accept" \notin Cancel \cup Release
  /\ \A c \in Contract : {Proposal(c), Accept(c), Request(c), SecondRequest(c), Cancelled(c)} \subseteq Tx
  /\ \A c \in Contract, k \in Kind : <<c, k>> \in Tx
  /\ \A t \in Tx : t[1] \in Contract /\ t[2] \in Kind /\ t = <<t[1], t[2]>>
  /\ Expiration \in Nat /\ Expiration # 0 /\ MaxHeight \in Nat /\ CancelTimes \subseteq Nat
  /\ CancelTime["cancel"] \in Nat \ {0} /\ CancelTime["recancel"] \in Nat \ {0}
  BY EscrowAssumption DEF Cancel, Release, Tx, Proposal, Accept, Request, SecondRequest, Cancelled, CancelTimes

LEMMA Numbers == MaxHeight \in Nat /\ Expiration \in Nat /\ \A x \in CancelTimes : x \in Nat
  BY KindFacts

LEMMA NoContractSound == Sound(NoContract) /\ NoContract.state = 0
  BY KindFacts DEF Sound, Con, NoContract, CancelTimes

\* The updates of a contract, field by field
Fields(r, s, h, e, x) == /\ r \in Con /\ r.state = s /\ r.height = h /\ r.expiration_time = e
                         /\ r.cancel_expiration_time = x
LEMMA SetExpiration ==
  ASSUME NEW con \in Con, NEW s \in 0..6, NEW h \in 0..MaxHeight, NEW e \in {0, Expiration}
  PROVE  Fields([con EXCEPT !.state = s, !.height = h, !.expiration_time = e],
                s, h, e, con.cancel_expiration_time)
  BY DEF Con, Fields
LEMMA SetCancel ==
  ASSUME NEW con \in Con, NEW s \in 0..6, NEW h \in 0..MaxHeight, NEW x \in CancelTimes
  PROVE  Fields([con EXCEPT !.state = s, !.height = h, !.cancel_expiration_time = x],
                s, h, con.expiration_time, x)
  BY DEF Con, Fields
LEMMA SetCancelTime ==
  ASSUME NEW con \in Con, NEW x \in CancelTimes
  PROVE  Fields([con EXCEPT !.cancel_expiration_time = x], con.state, con.height, con.expiration_time, x)
  BY DEF Con, Fields
LEMMA SetHeight ==
  ASSUME NEW con \in Con, NEW s \in 0..6, NEW h \in 0..MaxHeight
  PROVE  Fields([con EXCEPT !.state = s, !.height = h],
                s, h, con.expiration_time, con.cancel_expiration_time)
  BY DEF Con, Fields

\* What a transaction makes of a contract that does not refuse it
LEMMA ProcessFields ==
  ASSUME NEW con \in Con, NEW k \in Kind, NEW h \in 0..MaxHeight, Sound(con), ~Refused(con, k)
  PROVE  LET r == process_contract_info(con, k, h) IN
         /\ Sound(r) /\ r \in Con /\ r.state = StateOf(k) /\ r.state # 0
         /\ k \notin Cancel => r.height = h /\ r.cancel_expiration_time = con.cancel_expiration_time
         /\ k \in Cancel => r.height = (IF con.state = 2 THEN h ELSE con.height)
         /\ k \in Cancel => r.cancel_expiration_time = CancelTime[k]
<1> DEFINE r == process_contract_info(con, k, h)
<1>0. 1 \in 0..6 /\ 2 \in 0..6 /\ 5 \in 0..6 /\ Expiration \in {0, Expiration}
  OBVIOUS
<1> HIDE DEF r
<1>1. CASE k = "proposal"
  <2>1. r = [con EXCEPT !.state = 1, !.height = h, !.expiration_time = Expiration]
    BY <1>1, KindFacts DEF r, process_contract_info, handle_proposal, proposal_sent
  <2>2. Fields(r, 1, h, Expiration, con.cancel_expiration_time)
    BY <2>1, <1>0, SetExpiration
  <2> QED
    BY <2>2, <1>1, KindFacts DEF r, Sound, StateOf, Fields
<1>2. CASE k = "accept"
  <2>1. r = [con EXCEPT !.state = 2, !.height = h, !.expiration_time = Expiration]
    BY <1>2, KindFacts DEF r, process_contract_info, handle_contract, contract_accepted
  <2>2. Fields(r, 2, h, Expiration, con.cancel_expiration_time)
    BY <2>1, <1>0, SetExpiration
  <2> QED
    BY <2>2, <1>2, KindFacts DEF r, Sound, StateOf, Fields
<1>3. CASE k \in Cancel
  <2>1. con.state \in {2, 5}
    BY <1>3 DEF Refused, contract_accepted, cancel_proposal_sent
  <2>2. r = IF con.state = 2 THEN [con EXCEPT !.state = 5, !.height = h, !.cancel_expiration_time = CancelTime[k]]
            ELSE [con EXCEPT !.cancel_expiration_time = CancelTime[k]]
    BY <1>3, KindFacts DEF r, process_contract_info, handle_cancel_proposal, contract_accepted, cancel_proposal_sent
  <2>3. CancelTime[k] \in CancelTimes
    BY <1>3 DEF CancelTimes, Cancel
  <2>4. StateOf(k) = 5
    BY <1>3 DEF StateOf, Cancel
  <2>5. con.state # 0 /\ con.expiration_time = Expiration
    BY <2>1 DEF Sound
  <2>6. con.state = 2 => Fields(r, 5, h, Expiration, CancelTime[k])
    BY <2>2, <2>3, <2>5, <1>0, SetCancel
  <2>7. con.state # 2 => Fields(r, 5, con.height, Expiration, CancelTime[k])
    <3>1. SUFFICES ASSUME con.state # 2 PROVE Fields(r, 5, con.height, Expiration, CancelTime[k])
      OBVIOUS
    <3>2. r = [con EXCEPT !.cancel_expiration_time = CancelTime[k]] /\ con.state = 5
      BY <2>1, <2>2, <3>1
    <3>3. Fields([con EXCEPT !.cancel_expiration_time = CancelTime[k]],
                 con.state, con.height, con.expiration_time, CancelTime[k])
      BY <2>3, SetCancelTime
    <3> QED
      BY <3>2, <3>3, <2>5
  <2> QED
    BY <2>4, <2>6, <2>7, <1>3 DEF r, Sound, Fields
<1>4. CASE k \in Release
  <2>1. r = [con EXCEPT !.state = Released[k], !.height = h]
    BY <1>4, KindFacts DEF r, process_contract_info, handle_release_contract
  <2>2. con # NoContract /\ con.expiration_time = Expiration
    BY <1>4 DEF Refused, Sound
  <2>3. Released[k] = StateOf(k) /\ Released[k] \in 0..6 /\ Released[k] # 0
    BY <1>4 DEF StateOf, Released, Release, Cancel
  <2>4. k \notin Cancel
    BY <1>4, KindFacts
  <2>5. Fields(r, Released[k], h, Expiration, con.cancel_expiration_time)
    BY <2>1, <2>2, <2>3, SetHeight
  <2> QED
    BY <2>3, <2>4, <2>5 DEF r, Sound, Fields
<1> QED
  BY <1>1, <1>2, <1>3, <1>4, KindFacts DEF r

LEMMA ProcessRefused ==
  ASSUME NEW con, NEW k, NEW h, Refused(con, k)
  PROVE  process_contract_info(con, k, h) = con
  BY DEF process_contract_info

LEMMA ProcessSound ==
  ASSUME NEW con \in Con, NEW k \in Kind, NEW h \in 0..MaxHeight, Sound(con)
  PROVE  Sound(process_contract_info(con, k, h))
  BY ProcessFields, ProcessRefused

\* What the expiration of a request makes of a contract
Lapses(con) == Expired(con.cancel_expiration_time) /\ (con.state = 5 \/ (con.state = 6 /\ con.height = 0))
LEMMA ExpireFields ==
  ASSUME NEW con \in Con, Sound(con)
  PROVE  LET r == handle_contract_expirations(con) IN
         /\ Sound(r) /\ r \in Con /\ r.height = con.height
         /\ r.cancel_expiration_time = con.cancel_expiration_time
         /\ r.state = IF Lapses(con) THEN 2 ELSE con.state
  BY KindFacts DEF handle_contract_expirations, Con, Sound, Lapses, cancel_proposal_sent, contract_accepted, Released, NoContract

-----------------------------------------------------------------------------
(* The types of everything.                                                *)

MoneySignal  == [type : {"money_transfer"}, tx : Tx, contract : SoundCon]
CancelSignal == [type : {"money_transfer_cancel"}, tx : Tx]
StateSignal  == [type : {"update_daemon_state"}, median : 0..MaxHeight, height : 0..MaxHeight]
ListSignal   == [type : {"contracts"}, contracts : [Contract -> SoundCon]]
OtherSignal  == [type : {"mining_transfer", "closed"}]
Signal == MoneySignal \cup CancelSignal \cup StateSignal \cup ListSignal \cup OtherSignal

\* an entry of the list: its expiration time is the template's
Listing == {e \in ContractEntry : e.expiration_time = Expiration}

TypeInv ==
  /\ tip \in 0..MaxHeight /\ height \in 0..tip
  /\ m_contracts \in [Contract -> SoundCon]
  /\ m_unconfirmed_txs \subseteq Tx /\ gone \subseteq Tx /\ history \subseteq Tx
  /\ mined \in [Tx -> 0..MaxHeight]
  /\ overtaken \subseteq Contract
  /\ running \in BOOLEAN
  /\ signals \in Seq(Signal)
  /\ phase \in {"closed", "open"}
  /\ contracts \in Seq(Listing)
  /\ exp_med_ts \in 0..(MaxHeight + 1) /\ height_app \in 0..MaxHeight

LEMMA SignalFields ==
  ASSUME NEW s \in Signal
  PROVE  /\ s.type = "money_transfer" => s.tx \in Tx /\ Sound(s.contract) /\ s.contract \in Con
         /\ s.type = "money_transfer_cancel" => s.tx \in Tx
         /\ s.type = "update_daemon_state" => s.median \in 0..MaxHeight /\ s.height \in 0..MaxHeight
         /\ s.type = "contracts" => /\ s.contracts \in [Contract -> SoundCon]
                                    /\ \A c \in Contract : Sound(s.contracts[c]) /\ s.contracts[c] \in Con
  BY DEF Signal, MoneySignal, CancelSignal, StateSignal, ListSignal, OtherSignal, SoundCon

LEMMA Elements ==
  ASSUME TypeInv
  PROVE  /\ \A i \in DOMAIN signals : signals[i] \in Signal
         /\ DOMAIN signals = 1..Len(signals) /\ Len(signals) \in Nat
         /\ \A i \in DOMAIN contracts : contracts[i] \in Listing
         /\ DOMAIN contracts = 1..Len(contracts) /\ Len(contracts) \in Nat
         /\ \A c \in Contract : Sound(m_contracts[c]) /\ m_contracts[c] \in Con
         /\ \A t \in Tx : mined[t] \in 0..MaxHeight
         /\ tip \in Nat /\ height \in Nat
  BY KindFacts DEF TypeInv, SoundCon

\* a transaction the wallet has come across
SeenTxs == {t \in Tx : t \in m_unconfirmed_txs \/ t \in gone \/ mined[t] # 0}
LEMMA SeenIs == ASSUME NEW t \in Tx PROVE Seen(t) <=> t \in SeenTxs
  BY DEF Seen, SeenTxs

-----------------------------------------------------------------------------
(* The two ways in which the wallet moves: a transaction found in the pool *)
(* (h is 0) or a block (h is its height), as one step.                     *)

Now(found, h, c) == IF \E t \in found : t[1] = c
                    THEN process_contract_info(m_contracts[c], TheOnly(found)[2], h)
                    ELSE m_contracts[c]
WithMoney(q, found, h) ==
  IF found = {} THEN q ELSE Append(q, money_transfer_signal(TheOnly(found), h))
WithCancel(q, dropped) ==
  IF dropped = {} THEN q ELSE Append(q, money_transfer_cancel_signal(TheOnly(dropped)))

AtMostOne(S) == S = {} \/ \E t \in Tx : S = {t}

WalletStep(found, dropped, h) ==
  /\ AtMostOne(found) /\ AtMostOne(dropped)
  /\ \A t \in found : Mineable(t) /\ ~is_tx_expired(t) /\ (h = 0 => Publishable(t))
  /\ dropped \subseteq m_unconfirmed_txs \ found
  /\ h = 0 => dropped = {} /\ height' = height /\ tip' = tip
  /\ h # 0 => h = height + 1 /\ height' = h /\ tip' = IF height = tip THEN tip + 1 ELSE tip
  /\ h # 0 => \A t \in m_unconfirmed_txs \ found : is_tx_expired(t) => t \in dropped
  /\ mined' = [t \in Tx |-> IF t \in found /\ h # 0 THEN h ELSE mined[t]]
  /\ m_unconfirmed_txs' = IF h = 0 THEN m_unconfirmed_txs \cup found
                          ELSE (m_unconfirmed_txs \ found) \ dropped
  /\ gone' = gone \cup dropped
  /\ m_contracts' = [c \in Contract |-> IF h = 0 THEN Now(found, h, c)
                                        ELSE handle_contract_expirations(Now(found, h, c))]
  /\ NoteOvertaken(found)
  /\ signals' = WithCancel(WithMoney(signals, found, h), dropped)
  /\ h \in 0..MaxHeight

LEMMA TheOnlyIs == ASSUME NEW t PROVE TheOnly({t}) = t
  BY DEF TheOnly

LEMMA AddStep ==
  ASSUME TypeInv, NEW t \in Tx, AddUnconfirmed(t), tip' = tip
  PROVE  WalletStep({t}, {}, 0)
<1>1. TheOnly({t}) = t
  BY TheOnlyIs
<1>2. m_contracts' = [c \in Contract |-> IF 0 = 0 THEN Now({t}, 0, c) ELSE handle_contract_expirations(Now({t}, 0, c))]
  <2>1. m_contracts' = [m_contracts EXCEPT ![t[1]] = process_contract_info(m_contracts[t[1]], t[2], 0)]
    BY DEF AddUnconfirmed
  <2>2. \A c \in Contract : Now({t}, 0, c) = IF t[1] = c THEN process_contract_info(m_contracts[c], t[2], 0) ELSE m_contracts[c]
    BY <1>1 DEF Now
  <2>3. m_contracts' = [c \in Contract |-> Now({t}, 0, c)]
    BY <2>1, <2>2 DEF TypeInv
  <2> QED
    BY <2>3
<1>3. mined' = [u \in Tx |-> IF u \in {t} /\ 0 # 0 THEN 0 ELSE mined[u]]
  BY DEF AddUnconfirmed, TypeInv
<1>4. signals' = WithCancel(WithMoney(signals, {t}, 0), {})
  BY <1>1 DEF WithCancel, WithMoney, AddUnconfirmed
<1>5. NoteOvertaken({t})
  BY DEF AddUnconfirmed
<1>6. Publishable(t) /\ Mineable(t) /\ ~is_tx_expired(t)
  BY DEF AddUnconfirmed, Publishable, Mineable
<1>7. AtMostOne({t}) /\ AtMostOne({})
  BY DEF AtMostOne
<1>8. m_unconfirmed_txs' = m_unconfirmed_txs \cup {t} /\ gone' = gone \cup {} /\ height' = height
  BY DEF AddUnconfirmed
<1>9. 0 \in 0..MaxHeight
  BY KindFacts
<1> QED
  BY <1>2, <1>3, <1>4, <1>5, <1>6, <1>7, <1>8, <1>9 DEF WalletStep

LEMMA ConcatNone ==
  ASSUME NEW S, NEW q \in Seq(S), NEW e
  PROVE  q \o [i \in 1..0 |-> e] = q
<1>1. [i \in 1..0 |-> e] = << >>
  OBVIOUS
<1> QED
  BY <1>1, ConcatEmptySeq

LEMMA ConcatOne ==
  ASSUME NEW S, NEW q \in Seq(S), NEW e \in S
  PROVE  q \o [i \in 1..1 |-> e] = Append(q, e)
<1>1. [i \in 1..1 |-> e] = <<e>>
  OBVIOUS
<1> QED
  BY <1>1, AppendIsConcat

LEMMA FiniteTx == IsFiniteSet(Tx)
<1>0. \A S, x : IsFiniteSet(S) => IsFiniteSet(S \cup {x})
  BY FS_AddElement
<1> DEFINE S2 == {} \cup {"proposal"} \cup {"accept"}
           S4 == S2 \cup {"cancel"} \cup {"recancel"}
           S7 == S4 \cup {"release_normal"} \cup {"release_burn"} \cup {"release_cancel"}
<1>1. IsFiniteSet(S7)
  <2>1. IsFiniteSet(S2)
    BY <1>0, FS_EmptySet
  <2>2. IsFiniteSet(S4)
    <3> HIDE DEF S2
    <3> QED BY <2>1, <1>0
  <2>3. QED
    <3> HIDE DEF S4
    <3> QED BY <2>2, <1>0
<1>2. IsFiniteSet(Kind)
  <2>1. Kind \in SUBSET S7
    BY EscrowAssumption
  <2> QED
    BY <1>1, <2>1, FS_Subset
<1> QED
  BY <1>2, EscrowAssumption, FS_Product DEF Tx

LEMMA MoneySignalIs ==
  ASSUME TypeInv, NEW t \in Tx, NEW h \in 0..MaxHeight
  PROVE  /\ money_transfer_signal(t, h) \in Signal
         /\ money_transfer_signal(t, h).type = "money_transfer"
         /\ money_transfer_signal(t, h).tx = t
         /\ money_transfer_signal(t, h).contract =
              IF Refused(m_contracts[t[1]], t[2]) THEN NoContract
              ELSE process_contract_info(m_contracts[t[1]], t[2], h)
<1> DEFINE con == IF Refused(m_contracts[t[1]], t[2]) THEN NoContract
                  ELSE process_contract_info(m_contracts[t[1]], t[2], h)
<1>1. t[1] \in Contract /\ t[2] \in Kind
  BY KindFacts
<1>2. Sound(m_contracts[t[1]]) /\ m_contracts[t[1]] \in Con
  BY <1>1, Elements
<1>3. Sound(con)
  BY <1>1, <1>2, NoContractSound, ProcessSound
<1>4. con \in SoundCon
  BY <1>3 DEF SoundCon, Sound
<1> HIDE DEF con
<1>5. [type |-> "money_transfer", tx |-> t, contract |-> con] \in Signal
  BY <1>4 DEF Signal, MoneySignal
<1> QED
  BY <1>5 DEF money_transfer_signal, con

LEMMA CancelSignalIs ==
  ASSUME NEW t \in Tx
  PROVE  /\ money_transfer_cancel_signal(t) \in Signal
         /\ money_transfer_cancel_signal(t).type = "money_transfer_cancel"
         /\ money_transfer_cancel_signal(t).tx = t
  BY DEF money_transfer_cancel_signal, Signal, CancelSignal

LEMMA RefreshStep ==
  ASSUME TypeInv, refresh
  PROVE  \E found, dropped \in SUBSET Tx : WalletStep(found, dropped, height + 1)
<1>0. height < MaxHeight /\ height' = height + 1 /\ tip' = IF height = tip THEN tip + 1 ELSE tip
  BY DEF refresh
<1>1. height + 1 \in 0..MaxHeight /\ height + 1 # 0 /\ height' = height + 1
  BY <1>0, KindFacts, Elements
<1>2. PICK found \in {{}} \cup {{t} : t \in {u \in Tx : Mineable(u) /\ ~is_tx_expired(u)}},
           outdated \in {{}} \cup {{t} : t \in {u \in m_unconfirmed_txs : u[2] \in Losable}} :
       LET left    == m_unconfirmed_txs \ found
           dropped == {t \in left : is_tx_expired(t)} \cup (outdated \cap left)
           now     == [c \in Contract |->
                         IF \E t \in found : t[1] = c
                         THEN process_contract_info(m_contracts[c], TheOnly(found)[2], height')
                         ELSE m_contracts[c]]
       IN /\ Cardinality(dropped) <= 1
          /\ NoteOvertaken(found)
          /\ mined' = [t \in Tx |-> IF t \in found THEN height' ELSE mined[t]]
          /\ m_unconfirmed_txs' = left \ dropped
          /\ gone' = gone \cup dropped
          /\ m_contracts' = [c \in Contract |-> handle_contract_expirations(now[c])]
          /\ signals' = signals \o [i \in 1..Cardinality(found) |->
                                       money_transfer_signal(TheOnly(found), height')]
                             \o [i \in 1..Cardinality(dropped) |->
                                       money_transfer_cancel_signal(TheOnly(dropped))]
  BY ZenonT(60) DEF refresh
<1> DEFINE left    == m_unconfirmed_txs \ found
           dropped == {t \in left : is_tx_expired(t)} \cup (outdated \cap left)
           h       == height + 1
           first   == WithMoney(signals, found, h)
<1> HIDE DEF left, dropped, h, first
<1>3. dropped \subseteq left /\ left \subseteq Tx /\ \A t \in left : is_tx_expired(t) => t \in dropped
  BY DEF left, dropped, TypeInv
<1>4. AtMostOne(found) /\ found \in SUBSET Tx /\ \A t \in found : Mineable(t) /\ ~is_tx_expired(t)
  BY <1>2 DEF AtMostOne
<1>5. AtMostOne(dropped) /\ IsFiniteSet(dropped) /\ Cardinality(dropped) \in {0, 1}
  <2>1. IsFiniteSet(dropped)
    BY <1>3, FiniteTx, FS_Subset
  <2>2. Cardinality(dropped) \in Nat /\ Cardinality(dropped) <= 1
    BY <1>2, <2>1, FS_CardinalityType DEF dropped, left
  <2>3. Cardinality(dropped) = 0 => dropped = {}
    BY <2>1, FS_EmptySet
  <2>4. Cardinality(dropped) = 1 => \E t : dropped = {t}
    BY <2>1, FS_Singleton
  <2> QED
    BY <2>1, <2>2, <2>3, <2>4, <1>3 DEF AtMostOne
<1>6. first \in Seq(Signal) /\ signals \o [i \in 1..Cardinality(found) |-> money_transfer_signal(TheOnly(found), h)] = first
  <2>1. signals \in Seq(Signal) /\ h \in 0..MaxHeight
    BY <1>1 DEF TypeInv, h
  <2>2. CASE found = {}
    BY <2>1, <2>2, FS_EmptySet, ConcatNone DEF first, WithMoney
  <2>3. CASE \E t \in Tx : found = {t}
    <3>1. PICK t \in Tx : found = {t}
      BY <2>3
    <3>2. Cardinality(found) = 1 /\ TheOnly(found) = t /\ found # {}
      BY <3>1, FS_Singleton, TheOnlyIs
    <3>3. money_transfer_signal(t, h) \in Signal
      BY <2>1, MoneySignalIs
    <3>4. first = Append(signals, money_transfer_signal(t, h)) /\ first \in Seq(Signal)
      BY <3>2, <3>3, <2>1, AppendProperties DEF first, WithMoney
    <3> QED
      BY <3>2, <3>3, <3>4, <2>1, ConcatOne
  <2> QED
    BY <2>2, <2>3, <1>4 DEF AtMostOne
<1>7. first \o [i \in 1..Cardinality(dropped) |-> money_transfer_cancel_signal(TheOnly(dropped))]
        = WithCancel(first, dropped)
  <2>1. CASE dropped = {}
    BY <2>1, <1>6, FS_EmptySet, ConcatNone DEF WithCancel
  <2>2. CASE \E t \in Tx : dropped = {t}
    <3>1. PICK t \in Tx : dropped = {t}
      BY <2>2
    <3>2. Cardinality(dropped) = 1 /\ TheOnly(dropped) = t /\ dropped # {}
      BY <3>1, FS_Singleton, TheOnlyIs
    <3>3. money_transfer_cancel_signal(t) \in Signal
      BY CancelSignalIs
    <3> QED
      BY <3>2, <3>3, <1>6, ConcatOne DEF WithCancel
  <2> QED
    BY <2>1, <2>2, <1>5 DEF AtMostOne
<1>8. signals' = WithCancel(WithMoney(signals, found, h), dropped)
  BY <1>1, <1>2, <1>6, <1>7 DEF first, h, dropped, left
<1>9. m_contracts' = [c \in Contract |-> handle_contract_expirations(Now(found, h, c))]
  BY <1>1, <1>2 DEF Now, h
<1>10. /\ mined' = [t \in Tx |-> IF t \in found THEN h ELSE mined[t]]
       /\ m_unconfirmed_txs' = left \ dropped /\ gone' = gone \cup dropped
       /\ NoteOvertaken(found)
  BY <1>1, <1>2 DEF h, dropped, left
<1>11. h \in 0..MaxHeight /\ h # 0 /\ height' = h /\ h = height + 1 /\ tip' = IF height = tip THEN tip + 1 ELSE tip
  BY <1>0, <1>1 DEF h
<1>12. WalletStep(found, dropped, h)
  BY <1>3, <1>4, <1>5, <1>8, <1>9, <1>10, <1>11 DEF WalletStep, left
<1> QED
  BY <1>12, <1>3, <1>4 DEF h

\* A wallet's step, contract by contract
LEMMA StepContract ==
  ASSUME TypeInv, NEW found \in SUBSET Tx, NEW dropped \in SUBSET Tx, NEW h, WalletStep(found, dropped, h),
         NEW c \in Contract
  PROVE  /\ Sound(Now(found, h, c)) /\ Now(found, h, c) \in Con
         /\ m_contracts'[c] = IF h = 0 THEN Now(found, h, c) ELSE handle_contract_expirations(Now(found, h, c))
         /\ Sound(m_contracts'[c]) /\ m_contracts'[c] \in Con
         /\ (\A t \in found : t[1] # c) => Now(found, h, c) = m_contracts[c]
         /\ \A k \in Kind : <<c, k>> \in found => Now(found, h, c) = process_contract_info(m_contracts[c], k, h)
<1>1. h \in 0..MaxHeight /\ AtMostOne(found)
  BY DEF WalletStep
<1>2. Sound(m_contracts[c]) /\ m_contracts[c] \in Con
  BY Elements
<1>3. \A k \in Kind : <<c, k>> \in found => Now(found, h, c) = process_contract_info(m_contracts[c], k, h)
  <2>1. SUFFICES ASSUME NEW k \in Kind, <<c, k>> \in found
                 PROVE  Now(found, h, c) = process_contract_info(m_contracts[c], k, h)
    OBVIOUS
  <2>2. found = {<<c, k>>}
    BY <1>1, <2>1 DEF AtMostOne
  <2>3. TheOnly(found) = <<c, k>>
    BY <2>2, TheOnlyIs
  <2>4. <<c, k>>[1] = c /\ <<c, k>>[2] = k
    OBVIOUS
  <2>5. \E t \in found : t[1] = c
    BY <2>1, <2>4
  <2> QED
    BY <2>3, <2>4, <2>5 DEF Now
<1>4. (\A t \in found : t[1] # c) => Now(found, h, c) = m_contracts[c]
  BY DEF Now
<1>5. (\A t \in found : t[1] # c) \/ \E k \in Kind : <<c, k>> \in found
  <2>1. SUFFICES ASSUME NEW t \in found, t[1] = c PROVE \E k \in Kind : <<c, k>> \in found
    OBVIOUS
  <2>2. t = <<c, t[2]>> /\ t[2] \in Kind
    BY <2>1, KindFacts
  <2> QED
    BY <2>2
<1>6. Sound(Now(found, h, c)) /\ Now(found, h, c) \in Con
  BY <1>1, <1>2, <1>3, <1>4, <1>5, ProcessSound DEF Sound
<1>7. m_contracts'[c] = IF h = 0 THEN Now(found, h, c) ELSE handle_contract_expirations(Now(found, h, c))
  BY DEF WalletStep
<1> QED
  BY <1>3, <1>4, <1>6, <1>7, ExpireFields

LEMMA StepSignals ==
  ASSUME TypeInv, NEW found \in SUBSET Tx, NEW dropped \in SUBSET Tx, NEW h, WalletStep(found, dropped, h)
  PROVE  /\ WithMoney(signals, found, h) \in Seq(Signal)
         /\ signals' = WithCancel(WithMoney(signals, found, h), dropped)
         /\ signals' \in Seq(Signal)
<1> DEFINE q == WithMoney(signals, found, h)
<1>1. h \in 0..MaxHeight /\ AtMostOne(found) /\ AtMostOne(dropped)
  BY DEF WalletStep
<1>2. q \in Seq(Signal)
  <2>1. \A t \in Tx : money_transfer_signal(t, h) \in Signal
    BY <1>1, MoneySignalIs
  <2>2. found # {} => TheOnly(found) \in Tx
    BY <1>1, TheOnlyIs DEF AtMostOne
  <2> QED
    BY <2>1, <2>2, AppendProperties DEF WithMoney, TypeInv
<1>3. signals' = WithCancel(q, dropped)
  BY DEF WalletStep
<1> HIDE DEF q
<1>4. WithCancel(q, dropped) \in Seq(Signal)
  <2>1. dropped # {} => TheOnly(dropped) \in Tx
    BY <1>1, TheOnlyIs DEF AtMostOne
  <2> QED
    BY <1>2, <2>1, CancelSignalIs, AppendProperties DEF WithCancel
<1> QED
  BY <1>2, <1>3, <1>4 DEF q

LEMMA StepTypes ==
  ASSUME TypeInv, NEW found \in SUBSET Tx, NEW dropped \in SUBSET Tx, NEW h, WalletStep(found, dropped, h),
         running' = running, UNCHANGED <<history, phase, contracts, exp_med_ts, height_app>>
  PROVE  TypeInv'
<1>1. h \in 0..MaxHeight /\ h \in Nat /\ MaxHeight \in Nat /\ tip \in Nat /\ height \in Nat
  BY KindFacts, Elements DEF WalletStep
<1>2. tip' \in 0..MaxHeight /\ height' \in 0..tip'
  <2>1. CASE h = 0
    BY <2>1, <1>1 DEF WalletStep, TypeInv
  <2>2. CASE h # 0
    <3>1. h = height + 1 /\ height' = h /\ tip' = IF height = tip THEN tip + 1 ELSE tip
      BY <2>2 DEF WalletStep
    <3>2. height <= tip /\ tip <= MaxHeight
      BY <1>1 DEF TypeInv
    <3> QED
      BY <3>1, <3>2, <1>1
  <2> QED
    BY <2>1, <2>2
<1>3. m_contracts' \in [Contract -> SoundCon]
  <2>1. \A c \in Contract : m_contracts'[c] \in SoundCon
    BY StepContract DEF SoundCon
  <2>2. m_contracts' = [c \in Contract |-> m_contracts'[c]]
    BY DEF WalletStep
  <2> QED
    BY <2>1, <2>2
<1>4. m_unconfirmed_txs' \subseteq Tx /\ gone' \subseteq Tx
  BY DEF WalletStep, TypeInv
<1>5. mined' \in [Tx -> 0..MaxHeight]
  BY <1>1 DEF WalletStep, TypeInv
<1>6. overtaken' \subseteq Contract
  BY DEF WalletStep, NoteOvertaken, TypeInv
<1>7. signals' \in Seq(Signal)
  BY StepSignals
<1> QED
  BY <1>2, <1>3, <1>4, <1>5, <1>6, <1>7 DEF TypeInv

-----------------------------------------------------------------------------
(* What the GUI shows, entry by entry.                                     *)

ShownStates == {1, 2, 3, 4, 5, 6, 110, 130, 140, 201, 601}
\* the states in which a contract's own state is shown
Stands(s) == CASE s = 1 -> {1, 110} [] s = 2 -> {2, 201} [] s = 5 -> {5, 130}
               [] s = 6 -> {6, 601} [] OTHER -> {s}

LEMMA ListingIs ==
  ASSUME NEW e \in Listing
  PROVE  /\ e.id \in Contract /\ e.state \in ShownStates /\ e.height \in 0..MaxHeight
         /\ e.expiration_time = Expiration /\ e.cancel_expiration_time \in CancelTimes /\ e \in ContractEntry
  BY DEF Listing, ContractEntry, ShownStates, CancelTimes

LEMMA EntryIs ==
  ASSUME NEW c \in Contract, NEW con \in Con, Sound(con), con.state # 0, NEW s \in ShownStates
  PROVE  /\ Entry(c, con, s) \in Listing
         /\ Entry(c, con, s).id = c /\ Entry(c, con, s).state = s
         /\ Entry(c, con, s).height = con.height
         /\ Entry(c, con, s).cancel_expiration_time = con.cancel_expiration_time
  BY DEF Entry, Listing, ContractEntry, ShownStates, CancelTimes, Con, Sound

LEMMA WithStateIs ==
  ASSUME NEW e \in Listing, NEW s \in ShownStates
  PROVE  /\ WithState(e, s) \in Listing /\ WithState(e, s).id = e.id /\ WithState(e, s).state = s
         /\ WithState(e, s).height = e.height
         /\ WithState(e, s).cancel_expiration_time = e.cancel_expiration_time
  BY DEF WithState, Listing, ContractEntry, ShownStates

LEMMA StatesAre == /\ {110, 130, 140, 2, 6} \subseteq ShownStates
                   /\ \A s \in 1..6 : Stands(s) \subseteq ShownStates
<1>1. \A s \in 1..6 : s \in {1, 2, 3, 4, 5, 6}
  OBVIOUS
<1> QED
  BY <1>1 DEF ShownStates, Stands

LEMMA TransferState ==
  ASSUME NEW c, NEW con \in Con, Sound(con), con.state # 0
  PROVE  LET s == StateAfterTransfer(c, con) IN
         /\ s \in Stands(con.state) /\ s \in ShownStates
         /\ s = 1 => ~(Expiration < exp_med_ts)
         /\ s \in {2, 6} => Confirmed(con, height_app)
<1>1. con.state \in 1..6 /\ con.state \in {1, 2, 3, 4, 5, 6} /\ con.expiration_time = Expiration
  BY DEF Con, Sound
<1>2. Ignored(c, con) => con.state \in {1, 5}
  BY DEF Ignored
<1> DEFINE s == StateAfterTransfer(c, con)
<1>3. /\ con.state = 1 => s \in {1, 110} /\ (s = 1 => ~(Expiration < exp_med_ts))
      /\ con.state = 5 => s \in {5, 130}
      /\ con.state = 2 => s = IF Confirmed(con, height_app) THEN 2 ELSE 201
      /\ con.state = 6 => s = IF Confirmed(con, height_app) THEN 6 ELSE 601
      /\ con.state \in {3, 4} => s = con.state
  BY <1>1, <1>2 DEF StateAfterTransfer
<1>4. s \in Stands(con.state)
  BY <1>1, <1>3 DEF Stands
<1> HIDE DEF s
<1> QED
  BY <1>1, <1>3, <1>4, StatesAre DEF s

LEMMA OpenState ==
  ASSUME NEW c, NEW con \in Con, Sound(con), con.state # 0
  PROVE  LET s == StateAfterOpen(c, con) IN
         /\ s \in ShownStates
         /\ \/ s = 140
            \/ s \in Stands(con.state)
            \/ s = 130 /\ con.state = 2 /\ con.cancel_expiration_time # 0
         /\ s = 1 => ~(Expiration < exp_med_ts)
         /\ s \in {2, 6} => Confirmed(con, height_app)
<1>1. con.state \in 1..6 /\ con.state \in {1, 2, 3, 4, 5, 6} /\ con.expiration_time = Expiration
  BY DEF Con, Sound
<1>2. Ignored(c, con) => con.state \in {1, 5}
  BY DEF Ignored
<1> DEFINE s == StateAfterOpen(c, con)
<1>3. \/ s = 140
      \/ s = 130 /\ con.state = 2 /\ con.cancel_expiration_time # 0
      \/ /\ con.state = 1 => s \in {1, 110} /\ (s = 1 => ~(Expiration < exp_med_ts))
         /\ con.state = 5 => s \in {5, 130}
         /\ con.state = 2 => s = IF Confirmed(con, height_app) THEN 2 ELSE 201
         /\ con.state = 6 => s = IF Confirmed(con, height_app) THEN 6 ELSE 601
         /\ con.state \in {3, 4} => s = con.state
  BY <1>1, <1>2 DEF StateAfterOpen
<1>4. \/ s = 140
      \/ s = 130 /\ con.state = 2 /\ con.cancel_expiration_time # 0
      \/ s \in Stands(con.state)
  BY <1>1, <1>3 DEF Stands
<1> HIDE DEF s
<1> QED
  BY <1>1, <1>3, <1>4, StatesAre DEF s

\* a state of the GUI's own may follow another one, at height h
Evolved(e, f, h) ==
  /\ f \in Listing /\ f.id = e.id /\ f.height = e.height
  /\ f.cancel_expiration_time = e.cancel_expiration_time
  /\ \/ f.state = e.state
     \/ e.state = 1 /\ f.state = 110
     \/ e.state = 5 /\ f.state = 130
     \/ e.state \in {1, 110} /\ f.state = 140
     \/ e.state = 201 /\ f.state = 2 /\ Confirmed(e, h)
     \/ e.state = 601 /\ f.state = 6 /\ Confirmed(e, h)
ListEvolved(L, M, h) ==
  M \in Seq(Listing) /\ Len(M) = Len(L) /\ \A i \in 1..Len(L) : Evolved(L[i], M[i], h)

LEMMA PromotedIs ==
  ASSUME NEW e \in Listing, NEW h
  PROVE  Evolved(e, Promoted(e, h), h)
<1>1. Promoted(e, h) = e \/ (e.state = 201 /\ Confirmed(e, h) /\ Promoted(e, h) = WithState(e, 2))
        \/ (e.state = 601 /\ Confirmed(e, h) /\ Promoted(e, h) = WithState(e, 6))
  BY DEF Promoted
<1>2. 2 \in ShownStates /\ 6 \in ShownStates
  BY StatesAre
<1>3. CASE Promoted(e, h) = e
  BY <1>3 DEF Evolved
<1>4. CASE e.state = 201 /\ Confirmed(e, h) /\ Promoted(e, h) = WithState(e, 2)
  <2>1. Evolved(e, WithState(e, 2), h)
    BY <1>2, <1>4, WithStateIs DEF Evolved
  <2> QED
    BY <2>1, <1>4
<1>5. CASE e.state = 601 /\ Confirmed(e, h) /\ Promoted(e, h) = WithState(e, 6)
  <2>1. Evolved(e, WithState(e, 6), h)
    BY <1>2, <1>5, WithStateIs DEF Evolved
  <2> QED
    BY <2>1, <1>5
<1> QED
  BY <1>1, <1>3, <1>4, <1>5

LEMMA StatesEvolve ==
  ASSUME NEW e \in Listing, NEW h
  PROVE  /\ Evolved(e, e, h)
         /\ e.state = 1 => Evolved(e, WithState(e, 110), h)
         /\ e.state = 5 => Evolved(e, WithState(e, 130), h)
         /\ e.state \in {1, 110} => Evolved(e, WithState(e, 140), h)
  BY WithStateIs, StatesAre DEF Evolved

LEMMA ListFromFunction ==
  ASSUME NEW S, NEW n \in Nat, NEW f \in [1..n -> S]
  PROVE  f \in Seq(S) /\ Len(f) = n /\ DOMAIN f = 1..n
<1>1. f \in Seq(S)
  BY SeqDef
<1> QED
  BY <1>1

LEMMA ExceptList ==
  ASSUME NEW S, NEW L \in Seq(S), NEW p, NEW v, p \in 1..Len(L) => v \in S
  PROVE  LET M == [L EXCEPT ![p] = v] IN
         /\ M \in Seq(S) /\ Len(M) = Len(L)
         /\ \A i \in 1..Len(L) : M[i] = IF i = p THEN v ELSE L[i]
<1> DEFINE M == [L EXCEPT ![p] = v]
<1>1. Len(L) \in Nat /\ L \in [1..Len(L) -> S]
  BY LenProperties
<1>2. M \in [1..Len(L) -> S] /\ \A i \in 1..Len(L) : M[i] = IF i = p THEN v ELSE L[i]
  BY <1>1
<1> HIDE DEF M
<1>3. M \in Seq(S) /\ Len(M) = Len(L)
  BY <1>1, <1>2, ListFromFunction
<1> QED
  BY <1>2, <1>3 DEF M

LEMMA EvolvedTwice ==
  ASSUME NEW e, NEW f, NEW g, NEW h, Evolved(e, f, h), Evolved(f, g, h)
  PROVE  Evolved(e, g, h)
<1>1. f.height = e.height
  BY DEF Evolved
<1>2. Confirmed(f, h) <=> Confirmed(e, h)
  BY <1>1 DEF Confirmed
<1> QED
  BY <1>2 DEF Evolved

LEMMA HeightEvolves ==
  ASSUME NEW L \in Seq(Listing), NEW h, NEW shown
  PROVE  ListEvolved(L, heightAppEvent(L, h, shown), h)
<1> DEFINE M == heightAppEvent(L, h, shown)
<1>1. Len(L) \in Nat /\ DOMAIN L = 1..Len(L) /\ \A i \in 1..Len(L) : L[i] \in Listing
  OBVIOUS
<1>2. M = [i \in 1..Len(L) |-> IF L[i].id \in shown THEN Promoted(L[i], h) ELSE L[i]]
  BY <1>1 DEF heightAppEvent
<1> HIDE DEF M
<1>3. \A i \in 1..Len(L) : M[i] = Promoted(L[i], h) \/ M[i] = L[i]
  BY <1>2
<1>4. \A i \in 1..Len(L) : Evolved(L[i], M[i], h)
  BY <1>1, <1>3, PromotedIs, StatesEvolve
<1>5. \A i \in 1..Len(L) : M[i] \in Listing
  BY <1>4 DEF Evolved
<1>6. M \in [1..Len(L) -> Listing]
  BY <1>2, <1>5
<1>7. M \in Seq(Listing) /\ Len(M) = Len(L)
  BY <1>1, <1>6, ListFromFunction
<1> QED
  BY <1>4, <1>7 DEF ListEvolved, M

LEMMA IntervalEvolves ==
  ASSUME NEW L \in Seq(Listing), NEW h
  PROVE  ListEvolved(L, [i \in DOMAIN L |-> PromotedByInterval(L[i], h)], h)
<1> DEFINE M == [i \in DOMAIN L |-> PromotedByInterval(L[i], h)]
<1>1. Len(L) \in Nat /\ DOMAIN L = 1..Len(L) /\ \A i \in 1..Len(L) : L[i] \in Listing
  OBVIOUS
<1>2. \A i \in 1..Len(L) : M[i] = Promoted(L[i], h)
  BY <1>1 DEF PromotedByInterval
<1>3. M = [i \in 1..Len(L) |-> M[i]]
  BY <1>1
<1> HIDE DEF M
<1>4. \A i \in 1..Len(L) : Evolved(L[i], M[i], h)
  BY <1>1, <1>2, PromotedIs
<1>5. \A i \in 1..Len(L) : M[i] \in Listing
  BY <1>4 DEF Evolved
<1>6. M \in [1..Len(L) -> Listing]
  BY <1>3, <1>5
<1>7. M \in Seq(Listing) /\ Len(M) = Len(L)
  BY <1>1, <1>6, ListFromFunction
<1> QED
  BY <1>4, <1>7 DEF ListEvolved, M

LEMMA TimeEvolves ==
  ASSUME NEW L \in Seq(Listing), NEW h, NEW ts
  PROVE  /\ ListEvolved(L, expMedTsEvent(L, ts), h)
         /\ \A i \in 1..Len(L) : expMedTsEvent(L, ts)[i].state = 1 => ~(Expiration <= ts)
<1> DEFINE M == expMedTsEvent(L, ts)
<1>1. Len(L) \in Nat /\ DOMAIN L = 1..Len(L) /\ \A i \in 1..Len(L) : L[i] \in Listing
  OBVIOUS
<1>2. \A i \in 1..Len(L) :
         M[i] = CASE L[i].state = 1 /\ L[i].expiration_time <= ts -> WithState(L[i], 110)
                  [] L[i].state = 5 /\ L[i].cancel_expiration_time <= ts -> WithState(L[i], 130)
                  [] OTHER -> L[i]
  BY <1>1 DEF expMedTsEvent
<1>3. M = [i \in 1..Len(L) |-> M[i]]
  BY <1>1 DEF expMedTsEvent
<1> HIDE DEF M
<1>4. \A i \in 1..Len(L) : Evolved(L[i], M[i], h) /\ (M[i].state = 1 => ~(Expiration <= ts))
  <2>1. SUFFICES ASSUME NEW i \in 1..Len(L)
                 PROVE  Evolved(L[i], M[i], h) /\ (M[i].state = 1 => ~(Expiration <= ts))
    OBVIOUS
  <2>2. L[i] \in Listing /\ L[i].expiration_time = Expiration
    BY <1>1, ListingIs
  <2>3. CASE L[i].state = 1 /\ L[i].expiration_time <= ts
    <3>1. M[i] = WithState(L[i], 110)
      BY <1>2, <2>3
    <3>2. WithState(L[i], 110).state = 110
      BY <2>2, WithStateIs, StatesAre
    <3>3. Evolved(L[i], WithState(L[i], 110), h)
      BY <2>2, <2>3, StatesEvolve
    <3> QED
      BY <3>1, <3>2, <3>3
  <2>4. CASE L[i].state = 5 /\ L[i].cancel_expiration_time <= ts
    <3>1. M[i] = WithState(L[i], 130)
      BY <1>2, <2>4
    <3>2. WithState(L[i], 130).state = 130
      BY <2>2, WithStateIs, StatesAre
    <3>3. Evolved(L[i], WithState(L[i], 130), h)
      BY <2>2, <2>4, StatesEvolve
    <3> QED
      BY <3>1, <3>2, <3>3
  <2>5. CASE ~(L[i].state = 1 /\ L[i].expiration_time <= ts) /\ ~(L[i].state = 5 /\ L[i].cancel_expiration_time <= ts)
    <3>1. M[i] = L[i]
      BY <1>2, <2>5
    <3> QED
      BY <3>1, <2>2, <2>5, StatesEvolve
  <2> QED
    BY <2>3, <2>4, <2>5
<1>5. \A i \in 1..Len(L) : M[i] \in Listing
  BY <1>4 DEF Evolved
<1>6. M \in [1..Len(L) -> Listing]
  BY <1>3, <1>5
<1>7. M \in Seq(Listing) /\ Len(M) = Len(L)
  BY <1>1, <1>6, ListFromFunction
<1> QED
  BY <1>4, <1>7 DEF ListEvolved, M

LEMMA ListEvolvedTwice ==
  ASSUME NEW L \in Seq(Listing), NEW M, NEW N, NEW h, ListEvolved(L, M, h), ListEvolved(M, N, h)
  PROVE  ListEvolved(L, N, h)
  BY EvolvedTwice DEF ListEvolved

\* one entry gets another state
LEMMA OneEvolves ==
  ASSUME NEW L \in Seq(Listing), NEW p, NEW f, NEW h, p \in 1..Len(L) => Evolved(L[p], f, h)
  PROVE  ListEvolved(L, [L EXCEPT ![p] = f], h)
<1> DEFINE M == [L EXCEPT ![p] = f]
<1>1. p \in 1..Len(L) => f \in Listing
  BY DEF Evolved
<1>2. /\ M \in Seq(Listing) /\ Len(M) = Len(L)
      /\ \A i \in 1..Len(L) : M[i] = IF i = p THEN f ELSE L[i]
  BY <1>1, ExceptList
<1> HIDE DEF M
<1>3. \A i \in 1..Len(L) : L[i] \in Listing
  OBVIOUS
<1>4. \A i \in 1..Len(L) : Evolved(L[i], M[i], h)
  BY <1>2, <1>3, StatesEvolve
<1> QED
  BY <1>2, <1>4 DEF ListEvolved, M

\* a wallet's id is below the required number of blocks: as a height it
\* confirms nothing
LEMMA MiningEvolves ==
  ASSUME NEW L \in Seq(Listing), NEW M, NEW h, ListEvolved(L, M, WalletId)
  PROVE  ListEvolved(L, M, h)
<1>1. \A i \in 1..Len(L) : L[i] \in Listing
  OBVIOUS
<1>2. \A e \in Listing : ~Confirmed(e, WalletId)
  <2>1. SUFFICES ASSUME NEW e \in Listing PROVE ~Confirmed(e, WalletId)
    OBVIOUS
  <2>2. e.height \in Nat
    BY ListingIs, KindFacts
  <2> QED
    BY <2>2, GuiAssumption DEF Confirmed
<1> QED
  BY <1>1, <1>2 DEF ListEvolved, Evolved

LEMMA UpdateSteps ==
  ASSUME TypeInv, update_daemon_state
  PROVE  /\ ListEvolved(contracts, contracts', height_app')
         /\ exp_med_ts' # exp_med_ts =>
              \A i \in 1..Len(contracts) : contracts'[i].state = 1 => ~(Expiration <= exp_med_ts')
<1> DEFINE timed == IF exp_med_ts' # exp_med_ts THEN expMedTsEvent(contracts, exp_med_ts') ELSE contracts
           h == height_app'
<1>1. PICK shown \in Pages : contracts' = IF height_app' # height_app THEN heightAppEvent(timed, h, shown) ELSE timed
  BY DEF update_daemon_state
<1>2. contracts \in Seq(Listing)
  BY DEF TypeInv
<1>3. ListEvolved(contracts, contracts, h)
  BY <1>2, StatesEvolve DEF ListEvolved
<1>4. /\ ListEvolved(contracts, timed, h)
      /\ exp_med_ts' # exp_med_ts =>
              \A i \in 1..Len(contracts) : timed[i].state = 1 => ~(Expiration <= exp_med_ts')
  BY <1>2, <1>3, TimeEvolves
<1> HIDE DEF timed, h
<1>5. timed \in Seq(Listing) /\ Len(timed) = Len(contracts)
  BY <1>4 DEF ListEvolved
<1>6. ListEvolved(timed, contracts', h)
  <2>1. ListEvolved(timed, timed, h)
    BY <1>5, StatesEvolve DEF ListEvolved
  <2> QED
    BY <1>1, <1>5, <2>1, HeightEvolves
<1>7. ListEvolved(contracts, contracts', h)
  BY <1>2, <1>4, <1>6, ListEvolvedTwice
<1>8. \A i \in 1..Len(contracts) : contracts'[i].state = 1 => timed[i].state = 1
  BY <1>5, <1>6 DEF ListEvolved, Evolved
<1> QED
  BY <1>4, <1>7, <1>8 DEF h

LEMMA MiningSteps ==
  ASSUME TypeInv, mining_transfer
  PROVE  ListEvolved(contracts, contracts', height_app')
<1>1. PICK shown \in Pages : contracts' = heightAppEvent(contracts, WalletId, shown)
  BY DEF mining_transfer
<1>2. contracts \in Seq(Listing)
  BY DEF TypeInv
<1>3. ListEvolved(contracts, contracts', WalletId)
  BY <1>1, <1>2, HeightEvolves
<1> QED
  BY <1>2, <1>3, MiningEvolves

LEMMA IntervalSteps ==
  ASSUME TypeInv, intervalUpdateContractsState
  PROVE  ListEvolved(contracts, contracts', height_app')
<1>1. contracts' = [i \in DOMAIN contracts |-> PromotedByInterval(contracts[i], height_app)] /\ height_app' = height_app
  BY DEF intervalUpdateContractsState
<1>2. contracts \in Seq(Listing)
  BY DEF TypeInv
<1> QED
  BY <1>1, <1>2, IntervalEvolves

LEMMA IgnoreSteps ==
  ASSUME TypeInv, ignoredContract \/ dealsDetailsDontCanceling
  PROVE  ListEvolved(contracts, contracts', height_app')
<1>1. PICK c \in Contract, from \in {1, 5} :
         /\ getContract(c).state = from
         /\ contracts' = [contracts EXCEPT ![First(c)] =
                             WithState(contracts[First(c)], IF from = 1 THEN 110 ELSE 130)]
  BY DEF ignoredContract, dealsDetailsDontCanceling, Ignore
<1>2. contracts \in Seq(Listing)
  BY DEF TypeInv
<1> DEFINE p == First(c)
           f == WithState(contracts[p], IF from = 1 THEN 110 ELSE 130)
<1>3. p \in 1..Len(contracts) => Evolved(contracts[p], f, height_app')
  BY <1>1, <1>2, StatesEvolve DEF getContract
<1>4. contracts' = [contracts EXCEPT ![p] = f]
  BY <1>1
<1> HIDE DEF p, f
<1> QED
  BY <1>2, <1>3, <1>4, OneEvolves

LEMMA CancelSteps ==
  ASSUME TypeInv, money_transfer_cancel
  PROVE  ListEvolved(contracts, contracts', height_app')
<1> DEFINE c == Head(signals).tx[1]
           p == First(c)
           f == WithState(contracts[p], 140)
<1>1. contracts' = IF Listed(c) /\ getContract(c).state \in {1, 110}
                   THEN [contracts EXCEPT ![p] = f] ELSE contracts
  BY DEF money_transfer_cancel
<1>2. contracts \in Seq(Listing)
  BY DEF TypeInv
<1>3. ListEvolved(contracts, contracts, height_app')
  BY <1>2, StatesEvolve DEF ListEvolved
<1>4. getContract(c).state \in {1, 110} /\ p \in 1..Len(contracts) => Evolved(contracts[p], f, height_app')
  BY <1>2, StatesEvolve DEF getContract
<1> HIDE DEF p, f, c
<1> QED
  BY <1>1, <1>2, <1>3, <1>4, OneEvolves

-----------------------------------------------------------------------------
(* The handlers of the signals keep the types.                             *)

LEMMA ReceiveIs ==
  ASSUME TypeInv, NEW type, Receive(type)
  PROVE  /\ Head(signals) \in Signal /\ Head(signals).type = type /\ Head(signals) = signals[1]
         /\ signals # << >> /\ signals' = Tail(signals) /\ signals' \in Seq(Signal)
  BY HeadTailProperties DEF Receive, TypeInv

\* what money_transfer does to the list
LEMMA MoneyList ==
  ASSUME TypeInv, money_transfer
  PROVE  LET t == Head(signals).tx
             c == t[1]
             con == Head(signals).contract
             s == StateAfterTransfer(c, con)
         IN /\ t \in Tx /\ c \in Contract /\ con \in Con /\ Sound(con)
            /\ contracts' \in Seq(Listing)
            /\ con = NoContract \/ (t \in history /\ ~Listed(c)) => contracts' = contracts
            /\ con # NoContract /\ t \in history /\ Listed(c) =>
                 /\ Len(contracts') = Len(contracts)
                 /\ \A i \in 1..Len(contracts) : contracts'[i] =
                      IF i = First(c) THEN Entry(c, con, contracts[i].state) ELSE contracts[i]
            /\ con # NoContract /\ t \notin history /\ Listed(c) =>
                 /\ Len(contracts') = Len(contracts)
                 /\ \A i \in 1..Len(contracts) : contracts'[i] =
                      IF i = First(c) THEN Entry(c, con, s) ELSE contracts[i]
            /\ con # NoContract /\ t \notin history /\ ~Listed(c) =>
                 contracts' = Append(contracts, Entry(c, con, s)) /\ Entry(c, con, s) \in Listing
            /\ history' = history \cup {t}
            /\ notViewed' = notViewed \/ con # NoContract
<1> DEFINE t == Head(signals).tx
           c == t[1]
           con == Head(signals).contract
           s == StateAfterTransfer(c, con)
           p == First(c)
<1>1. t \in Tx /\ c \in Contract /\ con \in Con /\ Sound(con)
  BY ReceiveIs, SignalFields, KindFacts DEF money_transfer
<1>2. /\ history' = history \cup {t}
      /\ \/ con = NoContract /\ contracts' = contracts /\ notViewed' = notViewed
         \/ con # NoContract /\ t \in history /\ contracts' = UpdateKnown(c, con)
         \/ con # NoContract /\ t \notin history /\ contracts' = StoreContract(c, con)
  BY DEF money_transfer, Known
<1>3. con # NoContract => con.state # 0
  BY <1>1 DEF Sound
<1>4. con # NoContract => s \in ShownStates
  BY <1>1, <1>3, TransferState
<1>5. contracts \in Seq(Listing) /\ \A i \in 1..Len(contracts) : contracts[i] \in Listing /\ contracts[i].state \in ShownStates
  BY ListingIs DEF TypeInv
<1>6. UpdateKnown(c, con) = IF Listed(c) THEN [contracts EXCEPT ![p] = Entry(c, con, contracts[p].state)] ELSE contracts
  BY DEF UpdateKnown
<1>7. StoreContract(c, con) = IF Listed(c) THEN [contracts EXCEPT ![p] = Entry(c, con, s)]
                              ELSE Append(contracts, Entry(c, con, s))
  BY DEF StoreContract
<1> HIDE DEF t, c, con, s, p
<1>8. con # NoContract => Entry(c, con, s) \in Listing
  BY <1>1, <1>3, <1>4, EntryIs
<1>9. con # NoContract /\ p \in 1..Len(contracts) => Entry(c, con, contracts[p].state) \in Listing
  BY <1>1, <1>3, <1>5, EntryIs
<1>10. CASE con = NoContract
  BY <1>1, <1>2, <1>5, <1>10 DEF t, c, con, s, p
<1>11. CASE con # NoContract /\ t \in history
  <2>1. Listed(c) => LET M == [contracts EXCEPT ![p] = Entry(c, con, contracts[p].state)] IN
            /\ M \in Seq(Listing) /\ Len(M) = Len(contracts)
            /\ \A i \in 1..Len(contracts) : M[i] = IF i = p THEN Entry(c, con, contracts[p].state) ELSE contracts[i]
    BY <1>5, <1>9, <1>11, ExceptList
  <2>2. Listed(c) => /\ contracts' \in Seq(Listing) /\ Len(contracts') = Len(contracts)
            /\ \A i \in 1..Len(contracts) : contracts'[i] = IF i = p THEN Entry(c, con, contracts[i].state) ELSE contracts[i]
    BY <2>1, <1>2, <1>6, <1>11
  <2>3. ~Listed(c) => contracts' = contracts
    BY <1>2, <1>6, <1>11
  <2> QED
    BY <2>2, <2>3, <1>1, <1>2, <1>5, <1>11 DEF t, c, con, s, p
<1>12. CASE con # NoContract /\ t \notin history
  <2>1. Listed(c) => LET M == [contracts EXCEPT ![p] = Entry(c, con, s)] IN
            /\ M \in Seq(Listing) /\ Len(M) = Len(contracts)
            /\ \A i \in 1..Len(contracts) : M[i] = IF i = p THEN Entry(c, con, s) ELSE contracts[i]
    BY <1>5, <1>8, <1>12, ExceptList
  <2>2. Listed(c) => /\ contracts' \in Seq(Listing) /\ Len(contracts') = Len(contracts)
            /\ \A i \in 1..Len(contracts) : contracts'[i] = IF i = p THEN Entry(c, con, s) ELSE contracts[i]
    BY <2>1, <1>2, <1>7, <1>12
  <2>3. ~Listed(c) => contracts' = Append(contracts, Entry(c, con, s)) /\ contracts' \in Seq(Listing)
    BY <1>2, <1>5, <1>7, <1>8, <1>12, AppendProperties
  <2> QED
    BY <2>2, <2>3, <1>1, <1>2, <1>8, <1>12 DEF t, c, con, s, p
<1> QED
  BY <1>10, <1>11, <1>12

\* the list that the answer to getContracts brings: every contract of the
\* wallet once
Brought(L, got) ==
  /\ L \in Seq(Listing)
  /\ \A i \in 1..Len(L) : LET c == L[i].id IN
        got[c] # NoContract /\ L[i] = Entry(c, got[c], StateAfterOpen(c, got[c]))
  /\ \A i, j \in 1..Len(L) : L[i].id = L[j].id => i = j
  /\ \A c \in Contract : got[c] # NoContract => \E i \in 1..Len(L) : L[i].id = c

LEMMA PrepareList ==
  ASSUME TypeInv, prepareContractsAfterOpen
  PROVE  /\ Head(signals).contracts \in [Contract -> SoundCon]
         /\ \A c \in Contract : Sound(Head(signals).contracts[c]) /\ Head(signals).contracts[c] \in Con
         /\ \E L : Brought(L, Head(signals).contracts) /\ contracts' = contracts \o L
<1> DEFINE got == Head(signals).contracts
           new == {c \in Contract : got[c] # NoContract}
           n   == Cardinality(new)
           E(c) == Entry(c, got[c], StateAfterOpen(c, got[c]))
<1>1. got \in [Contract -> SoundCon] /\ \A c \in Contract : Sound(got[c]) /\ got[c] \in Con
  BY ReceiveIs, SignalFields DEF prepareContractsAfterOpen
<1>2. PICK order \in [1..n -> new] :
         /\ \A c \in new : \E i \in DOMAIN order : order[i] = c
         /\ contracts' = contracts \o [i \in DOMAIN order |-> E(order[i])]
  BY DEF prepareContractsAfterOpen
<1>3. \A c \in new : c \in Contract /\ got[c] # NoContract /\ got[c] \in Con /\ Sound(got[c]) /\ got[c].state # 0
  BY <1>1 DEF Sound
<1> DEFINE L == [i \in DOMAIN order |-> E(order[i])]
<1> HIDE DEF got
<1>4. IsFiniteSet(new) /\ n \in Nat
  BY EscrowAssumption, FS_Subset, FS_CardinalityType
<1>5. DOMAIN order = 1..n /\ \A i \in 1..n : order[i] \in new
  BY <1>2
<1>6. \A c \in new : E(c) \in Listing /\ E(c).id = c
  <2>1. SUFFICES ASSUME NEW c \in new PROVE E(c) \in Listing /\ E(c).id = c
    OBVIOUS
  <2>2. StateAfterOpen(c, got[c]) \in ShownStates
    BY <1>3, OpenState
  <2> QED
    BY <1>3, <2>2, EntryIs
<1> HIDE DEF n, new, E
<1>7. L \in [1..n -> Listing] /\ \A i \in 1..n : L[i] = E(order[i]) /\ L[i].id = order[i]
  BY <1>5, <1>6
<1> HIDE DEF L
<1>8. L \in Seq(Listing) /\ Len(L) = n
  BY <1>4, <1>7, ListFromFunction
<1>9. \A i, j \in 1..n : order[i] = order[j] => i = j
  <2>1. IsFiniteSet(1..n) /\ Cardinality(1..n) = n
    BY <1>4, FS_Interval
  <2>2. order \in Surjection(1..n, new)
    BY <1>2, <1>5 DEF Surjection
  <2>3. order \in Injection(1..n, new)
    BY <1>4, <2>1, <2>2, FS_SurjSameCardinalityImpliesInj DEF n
  <2> QED
    BY <2>3 DEF Injection, IsInjective
<1>10. Brought(L, got)
  BY <1>3, <1>5, <1>7, <1>8, <1>9, <1>2 DEF Brought, E, new
<1> QED
  BY <1>1, <1>2, <1>10 DEF L, got

-----------------------------------------------------------------------------
(* The calls on their way to the backend.                                  *)

Asking   == <<[type |-> "get_contracts"], [type |-> "run_wallet"]>>
Starting == <<[type |-> "run_wallet"]>>
Closing  == <<[type |-> "close_wallet"]>>
Sending(t) == <<[type |-> "send", tx |-> t]>>

CallInv == calls \in {<< >>, Asking, Starting, Closing} \/ \E t \in Tx : calls = Sending(t)

LEMMA CallHeads ==
  /\ Asking # << >> /\ Head(Asking).type = "get_contracts" /\ Tail(Asking) = Starting
  /\ Starting # << >> /\ Head(Starting).type = "run_wallet" /\ Tail(Starting) = << >>
  /\ Closing # << >> /\ Head(Closing).type = "close_wallet" /\ Tail(Closing) = << >>
  /\ \A t : Sending(t) # << >> /\ Head(Sending(t)).type = "send" /\ Head(Sending(t)).tx = t /\ Tail(Sending(t)) = << >>
<1>1. Asking # << >> /\ Head(Asking).type = "get_contracts" /\ Tail(Asking) = Starting
  BY DEF Asking, Starting
<1>2. Starting # << >> /\ Head(Starting).type = "run_wallet" /\ Tail(Starting) = << >>
  BY DEF Starting
<1>3. Closing # << >> /\ Head(Closing).type = "close_wallet" /\ Tail(Closing) = << >>
  BY DEF Closing
<1>4. ASSUME NEW t
      PROVE  Sending(t) # << >> /\ Head(Sending(t)).type = "send" /\ Head(Sending(t)).tx = t /\ Tail(Sending(t)) = << >>
  BY DEF Sending
<1> QED
  BY <1>1, <1>2, <1>3, <1>4

\* the call at the head determines the queue
LEMMA CallIs ==
  ASSUME CallInv
  PROVE  /\ Call("get_contracts") => calls = Asking /\ calls' = Starting
         /\ Call("run_wallet") => calls = Starting /\ calls' = << >>
         /\ Call("close_wallet") => calls = Closing /\ calls' = << >>
         /\ Call("send") => calls' = << >> /\ Head(calls).tx \in Tx /\ calls = Sending(Head(calls).tx)
  BY CallHeads DEF CallInv, Call

LEMMA CallStep ==
  ASSUME CallInv, [Next]_vars
  PROVE  CallInv'
<1>1. CASE UNCHANGED calls
  BY <1>1 DEF CallInv
<1>2. CASE openWallet
  BY <1>2 DEF openWallet, CallInv, Asking
<1>3. CASE closeWallet
  BY <1>3 DEF closeWallet, CallInv, Closing
<1>4. CASE purchaseCall
  <2>1. \E c \in Contract, k \in Kind : calls' = Sending(<<c, k>>)
    BY <1>4, EscrowAssumption DEF purchaseCall, Sending
  <2> QED
    BY <2>1, KindFacts DEF CallInv
<1>5. CASE get_contracts \/ run_wallet \/ close_wallet \/ send
  BY <1>5, CallIs DEF CallInv, get_contracts, run_wallet, close_wallet, send
<1>6. [Next]_vars => \/ UNCHANGED calls \/ openWallet \/ closeWallet \/ purchaseCall
                     \/ get_contracts \/ run_wallet \/ close_wallet \/ send
  BY DEF Next, vars, guiVars, Wallet, Deliver, Backend, User, money_transfer, money_transfer_cancel,
         update_daemon_state, mining_transfer, prepareContractsAfterOpen, wallet_closed, SignalDaemonState,
         SignalMining, ignoredContract, dealsDetailsDontCanceling, Ignore, intervalUpdateContractsState
<1> QED
  BY <1>1, <1>2, <1>3, <1>4, <1>5, <1>6

\* the steps in which the wallet comes across a transaction or a block
WalletMoves ==
  /\ \E found, dropped \in SUBSET Tx, h \in 0..MaxHeight : WalletStep(found, dropped, h)
  /\ running /\ running' = running
  /\ UNCHANGED <<is_a, phase, contracts, history, notViewed, exp_med_ts, height_app, opens>>
  /\ calls' = calls \/ (calls' = << >> /\ \E t \in Tx : calls = Sending(t))

LEMMA MovesOf ==
  ASSUME TypeInv, CallInv
  PROVE  /\ Wallet => WalletMoves \/ (DaemonBlock /\ UNCHANGED guiVars)
         /\ send => WalletMoves \/ (calls' = << >> /\ (\E t \in Tx : calls = Sending(t))
                                     /\ UNCHANGED <<tip, walletVars, signals, running, guiIdle>>)
<1>1. ASSUME scan_tx_pool, UNCHANGED guiVars PROVE WalletMoves
  <2>1. PICK t \in Tx : AddUnconfirmed(t)
    BY <1>1 DEF scan_tx_pool
  <2>2. tip' = tip /\ running /\ running' = running
    BY <1>1 DEF scan_tx_pool
  <2>3. WalletStep({t}, {}, 0) /\ 0 \in 0..MaxHeight
    BY <2>1, <2>2, AddStep, KindFacts
  <2> QED
    BY <2>2, <2>3, <1>1 DEF WalletMoves, guiVars
<1>2. ASSUME refresh, UNCHANGED guiVars PROVE WalletMoves
  <2>1. PICK found, dropped \in SUBSET Tx : WalletStep(found, dropped, height + 1)
    BY <1>2, RefreshStep
  <2>2. height + 1 \in 0..MaxHeight
    BY <2>1 DEF WalletStep
  <2>3. running /\ running' = running
    BY <1>2 DEF refresh
  <2> QED
    BY <2>1, <2>2, <2>3, <1>2 DEF WalletMoves, guiVars
<1>3. ASSUME send
      PROVE  WalletMoves \/ (calls' = << >> /\ (\E t \in Tx : calls = Sending(t))
                             /\ UNCHANGED <<tip, walletVars, signals, running, guiIdle>>)
  <2> DEFINE t == Head(calls).tx
  <2>1. calls' = << >> /\ t \in Tx /\ calls = Sending(t)
    BY <1>3, CallIs DEF send
  <2>2. tip' = tip /\ running' = running /\ UNCHANGED guiIdle
    BY <1>3 DEF send
  <2>3. (running /\ AddUnconfirmed(t)) \/ UNCHANGED <<walletVars, signals>>
    BY <1>3 DEF send
  <2> HIDE DEF t
  <2>4. AddUnconfirmed(t) => WalletStep({t}, {}, 0) /\ 0 \in 0..MaxHeight
    BY <2>1, <2>2, AddStep, KindFacts
  <2> QED
    BY <2>1, <2>2, <2>3, <2>4 DEF WalletMoves, guiIdle
<1> QED
  BY <1>1, <1>2, <1>3 DEF Wallet

\* the variables TypeInv is about, other than the list, the history and the queue
typed == <<tip, height, m_contracts, m_unconfirmed_txs, gone, mined, overtaken>>

LEMMA TypesOfList ==
  ASSUME TypeInv, UNCHANGED <<typed, phase, history>>, running' \in BOOLEAN,
         signals' \in Seq(Signal), contracts' \in Seq(Listing),
         exp_med_ts' \in 0..(MaxHeight + 1), height_app' \in 0..MaxHeight
  PROVE  TypeInv'
  BY DEF TypeInv, typed

LEMMA DeliverTypes ==
  ASSUME TypeInv, Deliver
  PROVE  TypeInv'
<1>0. /\ contracts \in Seq(Listing) /\ exp_med_ts \in 0..(MaxHeight + 1) /\ height_app \in 0..MaxHeight
      /\ running \in BOOLEAN
  BY DEF TypeInv
<1>1. CASE money_transfer
  <2>1. contracts' \in Seq(Listing) /\ history' \subseteq Tx
    BY <1>1, MoneyList DEF TypeInv
  <2>2. signals' \in Seq(Signal)
    BY <1>1, ReceiveIs DEF money_transfer
  <2>3. UNCHANGED <<typed, running, phase, exp_med_ts, height_app>>
    BY <1>1 DEF money_transfer, typed, walletVars
  <2> QED
    BY <2>1, <2>2, <2>3 DEF TypeInv, typed
<1>2. CASE money_transfer_cancel
  <2>1. contracts' \in Seq(Listing)
    BY <1>2, CancelSteps DEF ListEvolved
  <2>2. signals' \in Seq(Signal)
    BY <1>2, ReceiveIs DEF money_transfer_cancel
  <2>3. UNCHANGED <<typed, running, phase, exp_med_ts, height_app>> /\ history' \subseteq history
    BY <1>2 DEF money_transfer_cancel, typed, walletVars
  <2> QED
    BY <2>1, <2>2, <2>3 DEF TypeInv, typed
<1>3. CASE update_daemon_state
  <2>1. contracts' \in Seq(Listing)
    BY <1>3, UpdateSteps DEF ListEvolved
  <2>2. signals' \in Seq(Signal) /\ Head(signals).median \in 0..MaxHeight /\ Head(signals).height \in 0..MaxHeight
    BY <1>3, ReceiveIs, SignalFields DEF update_daemon_state
  <2>3. /\ UNCHANGED <<typed, running, phase, history>>
        /\ exp_med_ts' = Head(signals).median + 1 /\ height_app' = Head(signals).height
    BY <1>3 DEF update_daemon_state, typed, walletVars
  <2>4. exp_med_ts' \in 0..(MaxHeight + 1)
    BY <2>2, <2>3, KindFacts
  <2> QED
    BY <1>0, <2>1, <2>2, <2>3, <2>4, TypesOfList
<1>4. CASE mining_transfer
  <2>1. contracts' \in Seq(Listing)
    BY <1>4, MiningSteps DEF ListEvolved
  <2>2. signals' \in Seq(Signal)
    BY <1>4, ReceiveIs DEF mining_transfer
  <2>3. UNCHANGED <<typed, running, phase, history, exp_med_ts, height_app>>
    BY <1>4 DEF mining_transfer, typed, walletVars
  <2> QED
    BY <1>0, <2>1, <2>2, <2>3, TypesOfList
<1>5. CASE prepareContractsAfterOpen
  <2>0. PICK L : Brought(L, Head(signals).contracts) /\ contracts' = contracts \o L
    BY <1>5, PrepareList
  <2>1. contracts' \in Seq(Listing)
    BY <2>0, <1>0, ConcatProperties DEF Brought
  <2>2. signals' \in Seq(Signal)
    BY <1>5, ReceiveIs DEF prepareContractsAfterOpen
  <2>3. UNCHANGED <<typed, running, phase, history, exp_med_ts, height_app>>
    BY <1>5 DEF prepareContractsAfterOpen, typed, walletVars
  <2> QED
    BY <1>0, <2>1, <2>2, <2>3, TypesOfList
<1>6. CASE wallet_closed
  <2>1. signals' \in Seq(Signal)
    BY <1>6, ReceiveIs DEF wallet_closed
  <2>2. /\ UNCHANGED <<typed, running, exp_med_ts, height_app>>
        /\ phase' = "closed" /\ contracts' = << >> /\ history' = {}
    BY <1>6 DEF wallet_closed, typed, walletVars
  <2>3. contracts' \in Seq(Listing)
    BY <2>2, EmptySeq
  <2> QED
    BY <2>1, <2>2, <2>3 DEF TypeInv, typed
<1> QED
  BY <1>1, <1>2, <1>3, <1>4, <1>5, <1>6 DEF Deliver

LEMMA OtherSignalsAre ==
  ASSUME TypeInv
  PROVE  /\ [type |-> "contracts", contracts |-> m_contracts] \in Signal
         /\ [type |-> "closed"] \in Signal /\ [type |-> "mining_transfer"] \in Signal
         /\ [type |-> "update_daemon_state", median |-> median, height |-> tip] \in Signal
<1>1. m_contracts \in [Contract -> SoundCon] /\ median \in 0..MaxHeight /\ tip \in 0..MaxHeight
  BY DEF TypeInv, median
<1> QED
  BY <1>1 DEF Signal, ListSignal, StateSignal, OtherSignal

LEMMA BackendTypes ==
  ASSUME TypeInv, CallInv, Backend
  PROVE  TypeInv'
<1>0. /\ contracts \in Seq(Listing) /\ exp_med_ts \in 0..(MaxHeight + 1) /\ height_app \in 0..MaxHeight
      /\ running \in BOOLEAN /\ signals \in Seq(Signal)
  BY DEF TypeInv
<1>1. ASSUME NEW s \in Signal, UNCHANGED <<typed, phase, history, contracts, exp_med_ts, height_app>>,
             signals' = Append(signals, s) \/ signals' = signals, running' \in BOOLEAN
      PROVE  TypeInv'
  BY <1>0, <1>1, TypesOfList, AppendProperties
<1>2. CASE get_contracts
  BY <1>0, <1>1, <1>2, OtherSignalsAre DEF get_contracts, typed, walletVars, guiIdle
<1>3. CASE run_wallet
  BY <1>0, <1>1, <1>3, OtherSignalsAre DEF run_wallet, typed, walletVars, guiIdle
<1>4. CASE close_wallet
  BY <1>0, <1>1, <1>4, OtherSignalsAre DEF close_wallet, typed, walletVars, guiIdle
<1>5. CASE SignalDaemonState
  BY <1>0, <1>1, <1>5, OtherSignalsAre DEF SignalDaemonState, typed, walletVars, guiVars
<1>6. CASE SignalMining
  <2>1. signals' = Append(signals, [type |-> "mining_transfer"])
    BY <1>6 DEF SignalMining
  <2> QED
    BY <1>0, <1>1, <1>6, <2>1, OtherSignalsAre DEF SignalMining, typed, walletVars, guiVars
<1>7. CASE send
  <2>1. CASE WalletMoves
    BY <2>1, StepTypes DEF WalletMoves
  <2>2. CASE UNCHANGED <<tip, walletVars, signals, running, guiIdle>>
    BY <1>0, <1>1, <2>2, OtherSignalsAre DEF typed, walletVars, guiIdle
  <2> QED
    BY <1>7, <2>1, <2>2, MovesOf
<1> QED
  BY <1>2, <1>3, <1>4, <1>5, <1>6, <1>7 DEF Backend

LEMMA UserTypes ==
  ASSUME TypeInv, User
  PROVE  TypeInv'
<1>0. /\ contracts \in Seq(Listing) /\ exp_med_ts \in 0..(MaxHeight + 1) /\ height_app \in 0..MaxHeight
      /\ running \in BOOLEAN /\ signals \in Seq(Signal)
  BY DEF TypeInv
<1>1. CASE openWallet
  <2>1. /\ UNCHANGED <<typed, running, signals, contracts, exp_med_ts, height_app>>
        /\ phase' = "open"
    BY <1>1 DEF openWallet, typed, walletVars
  <2>2. history' \subseteq Tx
    BY <1>1 DEF openWallet, TypeInv
  <2> QED
    BY <2>1, <2>2 DEF TypeInv, typed
<1>2. CASE closeWallet \/ purchaseCall
  <2>1. UNCHANGED <<typed, running, signals, phase, history, contracts, exp_med_ts, height_app>>
    BY <1>2 DEF closeWallet, purchaseCall, typed, walletVars
  <2> QED
    BY <1>0, <2>1, TypesOfList
<1>3. CASE ignoredContract \/ dealsDetailsDontCanceling
  <2>1. contracts' \in Seq(Listing)
    BY <1>3, IgnoreSteps DEF ListEvolved
  <2>2. UNCHANGED <<typed, running, signals, phase, history, exp_med_ts, height_app>>
    BY <1>3 DEF ignoredContract, dealsDetailsDontCanceling, Ignore, typed, walletVars
  <2> QED
    BY <1>0, <2>1, <2>2, TypesOfList
<1> QED
  BY <1>1, <1>2, <1>3 DEF User

LEMMA TypeStep ==
  ASSUME TypeInv, CallInv, [Next]_vars
  PROVE  TypeInv'
<1>0. /\ contracts \in Seq(Listing) /\ exp_med_ts \in 0..(MaxHeight + 1) /\ height_app \in 0..MaxHeight
      /\ running \in BOOLEAN /\ signals \in Seq(Signal)
  BY DEF TypeInv
<1>1. CASE Wallet
  <2>1. CASE WalletMoves
    BY <2>1, StepTypes DEF WalletMoves
  <2>2. CASE DaemonBlock /\ UNCHANGED guiVars
    <3>1. /\ tip < MaxHeight /\ tip' = tip + 1
          /\ UNCHANGED <<height, m_contracts, m_unconfirmed_txs, gone, mined, overtaken, running, signals,
                         phase, history, contracts, exp_med_ts, height_app>>
      BY <2>2 DEF DaemonBlock, walletVars, guiVars
    <3>2. tip' \in 0..MaxHeight /\ height' \in 0..tip'
      BY <3>1, Elements, KindFacts DEF TypeInv
    <3> QED
      BY <3>1, <3>2 DEF TypeInv
  <2> QED
    BY <1>1, <2>1, <2>2, MovesOf
<1>2. CASE intervalUpdateContractsState
  <2>1. contracts' \in Seq(Listing)
    BY <1>2, IntervalSteps DEF ListEvolved
  <2>2. UNCHANGED <<typed, running, signals, phase, history, exp_med_ts, height_app>>
    BY <1>2 DEF intervalUpdateContractsState, typed, walletVars
  <2> QED
    BY <1>0, <2>1, <2>2, TypesOfList
<1>3. CASE UNCHANGED vars
  <2>1. UNCHANGED <<typed, running, signals, phase, history, contracts, exp_med_ts, height_app>>
    BY <1>3 DEF vars, typed, walletVars, guiVars
  <2> QED
    BY <1>0, <2>1, TypesOfList
<1> QED
  BY <1>1, <1>2, <1>3, DeliverTypes, BackendTypes, UserTypes DEF Next

LEMMA TypeInit == Init => TypeInv /\ CallInv
<1>1. ASSUME Init PROVE TypeInv
  <2>1. /\ tip = 0 /\ height = 0 /\ m_unconfirmed_txs = {} /\ gone = {} /\ history = {} /\ overtaken = {}
        /\ running = FALSE /\ signals = << >> /\ phase = "closed" /\ contracts = << >>
        /\ exp_med_ts = 0 /\ height_app = 0
    BY <1>1 DEF Init, EscrowInit
  <2>2. m_contracts \in [Contract -> SoundCon]
    BY <1>1, NoContractSound DEF Init, EscrowInit, SoundCon, Sound
  <2>3. mined \in [Tx -> 0..MaxHeight] /\ 0 \in 0..MaxHeight /\ 0 \in 0..(MaxHeight + 1) /\ 0 \in 0..0
    BY <1>1, KindFacts DEF Init, EscrowInit
  <2>4. signals \in Seq(Signal) /\ contracts \in Seq(Listing)
    BY <2>1, EmptySeq
  <2> QED
    BY <2>1, <2>2, <2>3, <2>4 DEF TypeInv
<1> QED
  BY <1>1 DEF Init, CallInv

LEMMA TypeImplies == TypeInv => TypeOK
<1>1. ASSUME TypeInv PROVE TypeOK
  <2>1. \A c \in Contract : m_contracts[c].state \in 0..6
    BY <1>1, Elements DEF Con
  <2>2. \A i \in DOMAIN contracts : contracts[i] \in ContractEntry
    BY <1>1, Elements, ListingIs
  <2> QED
    BY <1>1, <2>1, <2>2 DEF TypeInv, TypeOK
<1> QED
  BY <1>1

LEMMA TypesAlways == Spec => [](TypeInv /\ CallInv)
<1>1. Init => TypeInv /\ CallInv
  BY TypeInit
<1>2. (TypeInv /\ CallInv) /\ [Next]_vars => (TypeInv /\ CallInv)'
  BY TypeStep, CallStep
<1> QED
  BY <1>1, <1>2, PTL DEF Spec

\* The variables have their types in every reachable state: an entry of the
\* list, whichever handler wrote it, has one of the states the pages know and
\* the times of the wallet's contract (app.component.ts:253-358).
THEOREM TypeCorrect == Spec => []TypeOK
<1>1. TypeInv => TypeOK
  BY TypeImplies
<1> QED
  BY <1>1, TypesAlways, PTL

-----------------------------------------------------------------------------
(* The queue of signals.                                                   *)

State     == {"update_daemon_state"}
Asked     == {"contracts"}
Closed    == {"closed"}
Moves     == {"money_transfer", "money_transfer_cancel", "mining_transfer"}
HasType(q, T) == \E i \in 1..Len(q) : q[i].type \in T

\* before the answer to getContracts and behind the one to closeWallet there
\* is at most the daemon's state, which is signalled once
QueueShape(q) ==
  \A i, j \in 1..Len(q) : i < j =>
    /\ q[j].type \in Asked => q[i].type \in State
    /\ q[i].type \in Closed => q[j].type \in State
    /\ ~(q[i].type \in State /\ q[j].type \in State)

LEMMA SignalTypes ==
  ASSUME NEW s \in Signal
  PROVE  s.type \in State \cup Asked \cup Closed \cup Moves
  BY DEF Signal, MoneySignal, CancelSignal, StateSignal, ListSignal, OtherSignal, State, Asked, Closed, Moves

LEMMA TailIs ==
  ASSUME NEW q \in Seq(Signal), q # << >>
  PROVE  /\ Tail(q) \in Seq(Signal) /\ Len(q) \in Nat \ {0} /\ Len(Tail(q)) = Len(q) - 1 /\ q[1] \in Signal
         /\ \A i \in 1..Len(Tail(q)) : Tail(q)[i] = q[i + 1] /\ i + 1 \in 1..Len(q)
         /\ \A i \in 1..Len(q) : i = 1 \/ (i - 1 \in 1..Len(Tail(q)) /\ Tail(q)[i - 1] = q[i])
<1>1. Tail(q) \in Seq(Signal) /\ Len(q) \in Nat \ {0} /\ Len(Tail(q)) = Len(q) - 1 /\ q[1] \in Signal
      /\ \A i \in 1..Len(Tail(q)) : Tail(q)[i] = q[i + 1]
  BY HeadTailProperties
<1> QED
  BY <1>1

LEMMA AppendIs ==
  ASSUME NEW q \in Seq(Signal), NEW s \in Signal
  PROVE  /\ Append(q, s) \in Seq(Signal) /\ Len(q) \in Nat /\ Len(Append(q, s)) = Len(q) + 1
         /\ \A i \in 1..Len(q) : Append(q, s)[i] = q[i] /\ i \in 1..Len(Append(q, s))
         /\ Append(q, s)[Len(q) + 1] = s /\ Len(q) + 1 \in 1..Len(Append(q, s))
         /\ \A i \in 1..Len(Append(q, s)) : i = Len(q) + 1 \/ i \in 1..Len(q)
<1>1. /\ Append(q, s) \in Seq(Signal) /\ Len(q) \in Nat /\ Len(Append(q, s)) = Len(q) + 1
      /\ \A i \in 1..Len(q) : Append(q, s)[i] = q[i]
      /\ Append(q, s)[Len(q) + 1] = s
  BY AppendProperties
<1> QED
  BY <1>1

LEMMA HasTail ==
  ASSUME NEW q \in Seq(Signal), q # << >>, NEW T
  PROVE  /\ HasType(Tail(q), T) => HasType(q, T)
         /\ HasType(q, T) => q[1].type \in T \/ HasType(Tail(q), T)
         /\ q[1].type \in T => HasType(q, T)
<1>1. HasType(Tail(q), T) => HasType(q, T)
  BY TailIs DEF HasType
<1>2. HasType(q, T) => q[1].type \in T \/ HasType(Tail(q), T)
  BY TailIs DEF HasType
<1>3. q[1].type \in T => HasType(q, T)
  <2>1. 1 \in 1..Len(q)
    BY TailIs
  <2> QED
    BY <2>1 DEF HasType
<1> QED
  BY <1>1, <1>2, <1>3

LEMMA HasAppend ==
  ASSUME NEW q \in Seq(Signal), NEW s \in Signal, NEW T
  PROVE  HasType(Append(q, s), T) <=> HasType(q, T) \/ s.type \in T
<1>1. HasType(Append(q, s), T) => HasType(q, T) \/ s.type \in T
  BY AppendIs DEF HasType
<1>2. HasType(q, T) \/ s.type \in T => HasType(Append(q, s), T)
  BY AppendIs DEF HasType
<1> QED
  BY <1>1, <1>2

LEMMA ShapeTail ==
  ASSUME NEW q \in Seq(Signal), q # << >>, QueueShape(q)
  PROVE  /\ QueueShape(Tail(q))
         /\ HasType(Tail(q), Asked) => q[1].type \in State
         /\ q[1].type \in Closed => ~HasType(Tail(q), Asked \cup Closed \cup Moves)
         /\ q[1].type \in State => ~HasType(Tail(q), State)
<1>1. \A i \in 1..Len(Tail(q)) : i \in Int /\ Tail(q)[i] = q[i + 1] /\ i + 1 \in 1..Len(q) /\ 1 < i + 1 /\ 1 \in 1..Len(q)
  BY TailIs
<1>2. QueueShape(Tail(q))
  <2>1. SUFFICES ASSUME NEW i \in 1..Len(Tail(q)), NEW j \in 1..Len(Tail(q)), i < j
                 PROVE  /\ Tail(q)[j].type \in Asked => Tail(q)[i].type \in State
                        /\ Tail(q)[i].type \in Closed => Tail(q)[j].type \in State
                        /\ ~(Tail(q)[i].type \in State /\ Tail(q)[j].type \in State)
    BY DEF QueueShape
  <2>2. i + 1 < j + 1
    BY <1>1, <2>1
  <2> QED
    BY <1>1, <2>2 DEF QueueShape
<1>3. HasType(Tail(q), Asked) => q[1].type \in State
  BY <1>1 DEF HasType, QueueShape
<1>4. q[1].type \in Closed => ~HasType(Tail(q), Asked \cup Closed \cup Moves)
  <2>1. SUFFICES ASSUME NEW i \in 1..Len(Tail(q)), q[1].type \in Closed PROVE Tail(q)[i].type \in State
    BY DEF HasType, State, Asked, Closed, Moves
  <2> QED
    BY <1>1, <2>1 DEF QueueShape
<1>5. q[1].type \in State => ~HasType(Tail(q), State)
  BY <1>1 DEF HasType, QueueShape
<1> QED
  BY <1>2, <1>3, <1>4, <1>5

LEMMA ShapeAppend ==
  ASSUME NEW q \in Seq(Signal), NEW s \in Signal, QueueShape(q),
         s.type \in Asked => ~HasType(q, Asked \cup Closed \cup Moves),
         s.type \in State \/ ~HasType(q, Closed),
         s.type \in State => ~HasType(q, State)
  PROVE  QueueShape(Append(q, s))
<1> DEFINE r == Append(q, s)
<1>1. SUFFICES ASSUME NEW i \in 1..Len(r), NEW j \in 1..Len(r), i < j
               PROVE  /\ r[j].type \in Asked => r[i].type \in State
                      /\ r[i].type \in Closed => r[j].type \in State
                      /\ ~(r[i].type \in State /\ r[j].type \in State)
  BY DEF QueueShape
<1>2. i \in 1..Len(q) /\ r[i] = q[i] /\ q[i] \in Signal
  BY <1>1, AppendIs
<1>3. (j \in 1..Len(q) /\ r[j] = q[j]) \/ r[j] = s
  BY AppendIs
<1> HIDE DEF r
<1>4. CASE j \in 1..Len(q) /\ r[j] = q[j]
  BY <1>1, <1>2, <1>4 DEF QueueShape
<1>5. CASE r[j] = s
  <2>1. q[i].type \in State \cup Asked \cup Closed \cup Moves
    BY <1>2, SignalTypes
  <2>2. \A T : q[i].type \in T => HasType(q, T)
    BY <1>2 DEF HasType
  <2> QED
    BY <1>2, <1>5, <2>1, <2>2
<1> QED
  BY <1>3, <1>4, <1>5

LEMMA HasUnion ==
  ASSUME NEW q, NEW T, NEW U
  PROVE  HasType(q, T \cup U) <=> HasType(q, T) \/ HasType(q, U)
  BY DEF HasType

-----------------------------------------------------------------------------
(* A session: the wallet is opened, asked for its contracts, run, closed.  *)

SessionInv ==
  /\ QueueShape(signals)
  /\ HasType(signals, Asked) => contracts = << >> /\ phase = "open" /\ calls # Asking
  /\ HasType(signals, Closed) => ~running /\ phase = "open" /\ calls \notin {Asking, Starting}
  /\ HasType(signals, Moves) => running \/ HasType(signals, Closed)
  /\ running => phase = "open" /\ calls \notin {Asking, Starting}
  /\ calls = Asking => phase = "open" /\ contracts = << >>
  /\ calls = Starting => phase = "open"
  /\ calls = Closing => running
  /\ phase = "closed" => contracts = << >> /\ history = {}

LEMMA CallsDiffer ==
  /\ Asking # Starting /\ Asking # Closing /\ Starting # Closing
  /\ << >> \notin {Asking, Starting, Closing}
  /\ \A t : Sending(t) \notin {Asking, Starting, Closing}
<1>1. Head(Asking).type # Head(Starting).type /\ Head(Asking).type # Head(Closing).type
      /\ Head(Starting).type # Head(Closing).type
  BY CallHeads
<1>2. \A t : Head(Sending(t)).type # Head(Starting).type /\ Head(Sending(t)).type # Head(Closing).type
      /\ Head(Sending(t)).type # Head(Asking).type
  BY CallHeads
<1> QED
  BY <1>1, <1>2, CallHeads

LEMMA MovesSignals ==
  ASSUME TypeInv, QueueShape(signals), ~HasType(signals, Closed), NEW found \in SUBSET Tx, NEW dropped \in SUBSET Tx,
         NEW h, WalletStep(found, dropped, h)
  PROVE  /\ QueueShape(signals')
         /\ HasType(signals', Asked) => HasType(signals, Asked)
         /\ HasType(signals', Closed) => HasType(signals, Closed)
         /\ HasType(signals', State) => HasType(signals, State)
<1> DEFINE q == WithMoney(signals, found, h)
           m == money_transfer_signal(TheOnly(found), h)
           x == money_transfer_cancel_signal(TheOnly(dropped))
<1>1. h \in 0..MaxHeight /\ signals \in Seq(Signal)
  BY DEF WalletStep, TypeInv
<1>2. q \in Seq(Signal) /\ signals' = WithCancel(q, dropped)
  BY StepSignals
<1>3. found # {} => m \in Signal /\ m.type = "money_transfer"
  <2>1. found # {} => TheOnly(found) \in Tx
    BY TheOnlyIs DEF WalletStep, AtMostOne
  <2> QED
    BY <1>1, <2>1, MoneySignalIs
<1>4. dropped # {} => x \in Signal /\ x.type = "money_transfer_cancel"
  <2>1. dropped # {} => TheOnly(dropped) \in Tx
    BY TheOnlyIs DEF WalletStep, AtMostOne
  <2> QED
    BY <2>1, CancelSignalIs
<1>5. q = IF found = {} THEN signals ELSE Append(signals, m)
  BY DEF WithMoney
<1>6. signals' = IF dropped = {} THEN q ELSE Append(q, x)
  BY <1>2 DEF WithCancel
<1>7. /\ "money_transfer" \notin State \cup Asked \cup Closed
      /\ "money_transfer_cancel" \notin State \cup Asked \cup Closed
  BY DEF State, Asked, Closed
<1> HIDE DEF q, m, x
<1>8. /\ QueueShape(q) /\ (HasType(q, Asked) => HasType(signals, Asked))
      /\ HasType(q, Closed) => HasType(signals, Closed)
      /\ HasType(q, State) => HasType(signals, State)
  <2>1. CASE found = {}
    BY <1>5, <2>1
  <2>2. CASE found # {}
    BY <1>1, <1>3, <1>5, <1>7, <2>2, ShapeAppend, HasAppend
  <2> QED
    BY <2>1, <2>2
<1>9. CASE dropped = {}
  BY <1>6, <1>8, <1>9
<1>10. CASE dropped # {}
  BY <1>2, <1>4, <1>6, <1>7, <1>8, <1>10, ShapeAppend, HasAppend
<1> QED
  BY <1>9, <1>10

\* delivering a signal other than the answer to closeWallet
LEMMA SessionReceive ==
  ASSUME TypeInv, SessionInv, NEW type, Receive(type), type \notin Closed,
         UNCHANGED <<running, phase, calls>>,
         contracts = << >> /\ type \in State => contracts' = << >>,
         type \in State => history' = history
  PROVE  SessionInv'
<1>1. signals \in Seq(Signal) /\ signals # << >> /\ signals' = Tail(signals) /\ signals[1].type = type /\ signals[1] \in Signal
  BY ReceiveIs DEF TypeInv
<1>2. \A T : /\ HasType(signals', T) => HasType(signals, T)
             /\ HasType(signals, T) => type \in T \/ HasType(signals', T)
             /\ type \in T => HasType(signals, T)
  BY <1>1, HasTail
<1>3. QueueShape(signals') /\ (HasType(signals', Asked) => type \in State)
  BY <1>1, ShapeTail DEF SessionInv
<1>4. type \in State \cup Asked \cup Closed \cup Moves
  BY <1>1, SignalTypes
<1>5. (HasType(signals', Moves) => running' \/ HasType(signals', Closed))
  BY <1>2 DEF SessionInv
<1>6. HasType(signals', Asked) => contracts' = << >> /\ phase' = "open" /\ calls' # Asking
  BY <1>2, <1>3 DEF SessionInv
<1>7. HasType(signals', Closed) => ~running' /\ phase' = "open" /\ calls' \notin {Asking, Starting}
  BY <1>2 DEF SessionInv
<1>8. calls = Asking \/ phase = "closed" => type \in State
  BY <1>2, <1>4 DEF SessionInv
<1>9. calls' = Asking => phase' = "open" /\ contracts' = << >>
  BY <1>8 DEF SessionInv
<1>10. phase' = "closed" => contracts' = << >> /\ history' = {}
  BY <1>8 DEF SessionInv
<1>11. (calls' = Starting => phase' = "open") /\ (calls' = Closing => running')
       /\ (running' => phase' = "open" /\ calls' \notin {Asking, Starting})
  BY DEF SessionInv
<1> QED
  BY <1>3, <1>5, <1>6, <1>7, <1>9, <1>10, <1>11 DEF SessionInv

LEMMA EvolvedEmpty ==
  ASSUME NEW M, NEW h, ListEvolved(<< >>, M, h)
  PROVE  M = << >>
<1>1. M \in Seq(Listing) /\ Len(M) = Len(<< >>) /\ Len(<< >>) = 0
  BY DEF ListEvolved
<1> QED
  BY <1>1, EmptySeq

LEMMA SessionDeliver ==
  ASSUME TypeInv, SessionInv, Deliver
  PROVE  SessionInv'
<1>1. CASE money_transfer
  BY <1>1, SessionReceive DEF money_transfer, Closed, State
<1>2. CASE money_transfer_cancel
  BY <1>2, SessionReceive DEF money_transfer_cancel, Closed, State
<1>3. CASE update_daemon_state
  <2>1. contracts = << >> => contracts' = << >>
    BY <1>3, UpdateSteps, EvolvedEmpty
  <2>2. Receive("update_daemon_state") /\ UNCHANGED <<running, phase, calls, history>>
    BY <1>3 DEF update_daemon_state
  <2> QED
    BY <2>1, <2>2, SessionReceive DEF Closed
<1>4. CASE mining_transfer
  BY <1>4, SessionReceive DEF mining_transfer, Closed, State
<1>5. CASE prepareContractsAfterOpen
  <2>1. Receive("contracts") /\ UNCHANGED <<running, phase, calls, history>>
    BY <1>5 DEF prepareContractsAfterOpen
  <2> QED
    BY <2>1, SessionReceive DEF Closed, State
<1>6. CASE wallet_closed
  <2>1. Receive("closed") /\ UNCHANGED <<running, calls>> /\ phase' = "closed" /\ contracts' = << >> /\ history' = {}
    BY <1>6 DEF wallet_closed
  <2>2. signals \in Seq(Signal) /\ signals # << >> /\ signals' = Tail(signals) /\ signals[1].type \in Closed
    BY <2>1, ReceiveIs DEF TypeInv, Closed
  <2>3. QueueShape(signals') /\ ~HasType(signals', Asked \cup Closed \cup Moves)
    BY <2>2, ShapeTail DEF SessionInv
  <2>4. ~HasType(signals', Asked) /\ ~HasType(signals', Closed) /\ ~HasType(signals', Moves)
    BY <2>3, HasUnion
  <2>5. HasType(signals, Closed)
    BY <2>2, HasTail
  <2>6. ~running /\ calls \notin {Asking, Starting} /\ calls # Closing
    BY <2>5 DEF SessionInv
  <2> QED
    BY <2>1, <2>3, <2>4, <2>6 DEF SessionInv
<1> QED
  BY <1>1, <1>2, <1>3, <1>4, <1>5, <1>6 DEF Deliver

LEMMA SessionMoves ==
  ASSUME TypeInv, SessionInv, WalletMoves
  PROVE  SessionInv'
<1>1. PICK found, dropped \in SUBSET Tx, h \in 0..MaxHeight : WalletStep(found, dropped, h)
  BY DEF WalletMoves
<1>2. running /\ running' /\ UNCHANGED <<phase, contracts, history>>
  BY DEF WalletMoves
<1>3. calls' = calls \/ calls' = << >>
  BY DEF WalletMoves
<1>4. ~HasType(signals, Closed) /\ QueueShape(signals) /\ phase = "open" /\ calls \notin {Asking, Starting}
  BY <1>2 DEF SessionInv
<1>5. /\ QueueShape(signals')
      /\ HasType(signals', Asked) => HasType(signals, Asked)
      /\ ~HasType(signals', Closed)
  BY <1>1, <1>4, MovesSignals
<1>6. calls' \notin {Asking, Starting}
  BY <1>3, <1>4, CallsDiffer
<1> QED
  BY <1>2, <1>4, <1>5, <1>6 DEF SessionInv

LEMMA SessionBackend ==
  ASSUME TypeInv, CallInv, SessionInv, Backend
  PROVE  SessionInv'
<1>0. signals \in Seq(Signal)
  BY DEF TypeInv
<1>1. CASE get_contracts
  <2> DEFINE s == [type |-> "contracts", contracts |-> m_contracts]
  <2>1. calls = Asking /\ calls' = Starting /\ signals' = Append(signals, s) /\ UNCHANGED <<running, phase, contracts, history>>
    BY <1>1, CallIs DEF get_contracts, guiIdle
  <2>2. s \in Signal /\ s.type = "contracts"
    BY OtherSignalsAre
  <2>3. phase = "open" /\ contracts = << >> /\ ~running /\ ~HasType(signals, Closed) /\ ~HasType(signals, Asked)
        /\ ~HasType(signals, Moves)
    BY <2>1 DEF SessionInv
  <2> HIDE DEF s
  <2>4. s.type \in Asked /\ s.type \notin State /\ s.type \notin Closed /\ s.type \notin Moves
    BY <2>2 DEF State, Asked, Closed, Moves
  <2>5. QueueShape(signals')
    BY <1>0, <2>1, <2>2, <2>3, <2>4, ShapeAppend, HasUnion DEF SessionInv
  <2>6. ~HasType(signals', Closed) /\ ~HasType(signals', Moves)
    BY <1>0, <2>1, <2>2, <2>3, <2>4, HasAppend
  <2> QED
    BY <2>1, <2>3, <2>5, <2>6, CallsDiffer DEF SessionInv
<1>2. CASE run_wallet
  <2>1. calls = Starting /\ calls' = << >> /\ running' = TRUE /\ UNCHANGED <<signals, phase, contracts, history>>
    BY <1>2, CallIs DEF run_wallet, guiIdle
  <2>2. phase = "open" /\ ~HasType(signals, Closed)
    BY <2>1 DEF SessionInv
  <2> QED
    BY <2>1, <2>2, CallsDiffer DEF SessionInv
<1>3. CASE close_wallet
  <2> DEFINE s == [type |-> "closed"]
  <2>1. calls = Closing /\ calls' = << >> /\ signals' = Append(signals, s) /\ running' = FALSE
        /\ UNCHANGED <<phase, contracts, history>>
    BY <1>3, CallIs DEF close_wallet, guiIdle
  <2>2. s \in Signal /\ s.type = "closed"
    BY OtherSignalsAre
  <2>3. phase = "open" /\ ~HasType(signals, Closed)
    BY <2>1 DEF SessionInv
  <2> HIDE DEF s
  <2>4. s.type \notin Asked /\ s.type \notin State /\ s.type \in Closed /\ s.type \notin Moves
    BY <2>2 DEF State, Asked, Closed, Moves
  <2>5. QueueShape(signals')
    BY <1>0, <2>1, <2>2, <2>3, <2>4, ShapeAppend DEF SessionInv
  <2>6. HasType(signals', Closed) /\ (HasType(signals', Asked) => HasType(signals, Asked))
    BY <1>0, <2>1, <2>2, <2>4, HasAppend
  <2> QED
    BY <2>1, <2>3, <2>5, <2>6, CallsDiffer DEF SessionInv
<1>4. CASE SignalDaemonState
  <2> DEFINE s == [type |-> "update_daemon_state", median |-> median, height |-> tip]
  <2>1. signals' = Append(signals, s) /\ UNCHANGED <<running, phase, contracts, history, calls>>
    BY <1>4 DEF SignalDaemonState, guiVars
  <2>2. s \in Signal /\ s.type = "update_daemon_state"
    BY OtherSignalsAre
  <2> HIDE DEF s
  <2>3. ~HasType(signals, State)
    BY <1>0, <1>4 DEF SignalDaemonState, HasType, State
  <2>4. s.type \notin Asked /\ s.type \in State /\ s.type \notin Closed /\ s.type \notin Moves
    BY <2>2 DEF State, Asked, Closed, Moves
  <2>5. QueueShape(signals')
    BY <1>0, <2>1, <2>2, <2>3, <2>4, ShapeAppend DEF SessionInv
  <2>6. /\ HasType(signals', Closed) <=> HasType(signals, Closed)
        /\ HasType(signals', Asked) <=> HasType(signals, Asked)
        /\ HasType(signals', Moves) <=> HasType(signals, Moves)
    BY <1>0, <2>1, <2>2, <2>4, HasAppend
  <2> QED
    BY <2>1, <2>5, <2>6 DEF SessionInv
<1>5. CASE SignalMining
  <2> DEFINE s == [type |-> "mining_transfer"]
  <2>1. signals = << >> /\ signals' = Append(signals, s) /\ running /\ UNCHANGED <<running, phase, contracts, history, calls>>
    BY <1>5 DEF SignalMining, guiVars
  <2>2. s \in Signal /\ s.type = "mining_transfer"
    BY OtherSignalsAre
  <2> HIDE DEF s
  <2>3. ~HasType(signals, Closed)
    BY <2>1 DEF SessionInv
  <2>4. s.type \notin Asked /\ s.type \notin State /\ s.type \notin Closed
    BY <2>2 DEF State, Asked, Closed
  <2>5. QueueShape(signals')
    BY <1>0, <2>1, <2>2, <2>3, <2>4, ShapeAppend DEF SessionInv
  <2>6. /\ ~HasType(signals', Closed)
        /\ HasType(signals', Asked) => HasType(signals, Asked)
    BY <1>0, <2>1, <2>2, <2>3, <2>4, HasAppend
  <2> QED
    BY <2>1, <2>5, <2>6 DEF SessionInv
<1>6. CASE send
  <2>1. CASE UNCHANGED <<tip, walletVars, signals, running, guiIdle>> /\ calls' = << >>
    BY <2>1, CallsDiffer DEF guiIdle, SessionInv
  <2> QED
    BY <1>6, <2>1, MovesOf, SessionMoves
<1> QED
  BY <1>1, <1>2, <1>3, <1>4, <1>5, <1>6 DEF Backend

LEMMA SessionUser ==
  ASSUME TypeInv, SessionInv, User
  PROVE  SessionInv'
<1>1. CASE openWallet
  <2>1. phase = "closed" /\ phase' = "open" /\ calls' = Asking /\ UNCHANGED <<running, signals, contracts>>
    BY <1>1 DEF openWallet, Asking
  <2>2. ~running /\ ~HasType(signals, Asked) /\ ~HasType(signals, Closed) /\ ~HasType(signals, Moves) /\ contracts = << >>
    BY <2>1 DEF SessionInv
  <2> QED
    BY <2>1, <2>2, CallsDiffer DEF SessionInv
<1>2. CASE closeWallet
  <2>1. running /\ calls' = Closing /\ UNCHANGED <<running, signals, contracts, phase, history>>
    BY <1>2 DEF closeWallet, Closing
  <2> QED
    BY <2>1, CallsDiffer DEF SessionInv
<1>3. CASE purchaseCall
  <2>1. (\E t : calls' = Sending(t)) /\ UNCHANGED <<running, signals, contracts, phase, history>>
    BY <1>3 DEF purchaseCall, Sending
  <2>2. calls' \notin {Asking, Starting, Closing}
    BY <2>1, CallsDiffer
  <2> QED
    BY <2>1, <2>2 DEF SessionInv
<1>4. CASE ignoredContract \/ dealsDetailsDontCanceling
  <2>1. contracts = << >> => contracts' = << >>
    BY <1>4, IgnoreSteps, EvolvedEmpty
  <2>2. UNCHANGED <<running, signals, calls, phase, history>>
    BY <1>4 DEF ignoredContract, dealsDetailsDontCanceling, Ignore
  <2> QED
    BY <2>1, <2>2 DEF SessionInv
<1> QED
  BY <1>1, <1>2, <1>3, <1>4 DEF User

LEMMA SessionStep ==
  ASSUME TypeInv, CallInv, SessionInv, [Next]_vars
  PROVE  SessionInv'
<1>1. CASE Wallet
  <2>1. CASE DaemonBlock /\ UNCHANGED guiVars
    BY <2>1 DEF DaemonBlock, guiVars, SessionInv
  <2> QED
    BY <1>1, <2>1, MovesOf, SessionMoves
<1>2. CASE intervalUpdateContractsState
  <2>1. contracts = << >> => contracts' = << >>
    BY <1>2, IntervalSteps, EvolvedEmpty
  <2>2. UNCHANGED <<running, signals, calls, phase, history>>
    BY <1>2 DEF intervalUpdateContractsState
  <2> QED
    BY <2>1, <2>2 DEF SessionInv
<1>3. CASE UNCHANGED vars
  BY <1>3 DEF vars, guiVars, SessionInv
<1> QED
  BY <1>1, <1>2, <1>3, SessionDeliver, SessionBackend, SessionUser DEF Next

LEMMA SessionInit == Init => SessionInv
<1>1. ASSUME Init PROVE SessionInv
  <2>1. signals = << >> /\ contracts = << >> /\ calls = << >> /\ history = {} /\ running = FALSE /\ phase = "closed"
    BY <1>1 DEF Init, EscrowInit
  <2>2. \A T : ~HasType(signals, T)
    BY <2>1 DEF HasType
  <2>3. QueueShape(signals)
    BY <2>1 DEF QueueShape
  <2> QED
    BY <2>1, <2>2, <2>3, CallsDiffer DEF SessionInv
<1> QED
  BY <1>1

-----------------------------------------------------------------------------
(* The list: every contract at most once, no expired offer.                *)

Unique(L) == \A i, j \in 1..Len(L) : L[i].id = L[j].id => i = j
NoLateOffer(L, ts) == \A i \in 1..Len(L) : L[i].state = 1 => ~(Expiration < ts)
ListInv == Unique(contracts) /\ NoLateOffer(contracts, exp_med_ts)

LEMMA EvolvedIds ==
  ASSUME NEW L \in Seq(Listing), NEW M, NEW h, ListEvolved(L, M, h)
  PROVE  /\ Unique(L) => Unique(M)
         /\ \A ts : NoLateOffer(L, ts) => NoLateOffer(M, ts)
  BY DEF ListEvolved, Evolved, Unique, NoLateOffer

LEMMA StaysEvolved ==
  ASSUME TypeInv, contracts' = contracts
  PROVE  ListEvolved(contracts, contracts', height_app')
  BY StatesEvolve DEF ListEvolved, TypeInv

\* the steps in which entries only move from one state of the GUI to another
LEMMA ListSteps ==
  ASSUME TypeInv, CallInv, [Next]_vars
  PROVE  \/ money_transfer \/ prepareContractsAfterOpen \/ wallet_closed
         \/ ListEvolved(contracts, contracts', height_app') /\ (exp_med_ts' = exp_med_ts \/ update_daemon_state)
<1>1. CASE money_transfer_cancel
  BY <1>1, CancelSteps DEF money_transfer_cancel
<1>2. CASE update_daemon_state
  BY <1>2, UpdateSteps
<1>3. CASE mining_transfer
  BY <1>3, MiningSteps DEF mining_transfer
<1>4. CASE intervalUpdateContractsState
  BY <1>4, IntervalSteps DEF intervalUpdateContractsState
<1>5. CASE ignoredContract \/ dealsDetailsDontCanceling
  BY <1>5, IgnoreSteps DEF ignoredContract, dealsDetailsDontCanceling, Ignore
<1>6. CASE contracts' = contracts /\ exp_med_ts' = exp_med_ts
  BY <1>6, StaysEvolved
<1>7. Wallet \/ Backend \/ openWallet \/ closeWallet \/ purchaseCall \/ UNCHANGED vars
        => contracts' = contracts /\ exp_med_ts' = exp_med_ts
  BY DEF Wallet, Backend, openWallet, closeWallet, purchaseCall, vars, guiVars, guiIdle, get_contracts,
         run_wallet, close_wallet, send, SignalDaemonState, SignalMining
<1> QED
  BY <1>1, <1>2, <1>3, <1>4, <1>5, <1>6, <1>7 DEF Next, Deliver, User

LEMMA PositionIs ==
  ASSUME TypeInv, Unique(contracts), NEW c
  PROVE  /\ Listed(c) => /\ First(c) \in 1..Len(contracts) /\ contracts[First(c)].id = c
                         /\ Positions(c) = {First(c)} /\ getContract(c) = contracts[First(c)]
         /\ \A i \in 1..Len(contracts) : contracts[i].id = c => Listed(c) /\ i = First(c)
         /\ ~Listed(c) => Positions(c) = {}
<1>1. DOMAIN contracts = 1..Len(contracts) /\ Len(contracts) \in Nat
  BY Elements
<1>2. ASSUME NEW i \in 1..Len(contracts), contracts[i].id = c
      PROVE  Listed(c) /\ Positions(c) = {i} /\ i = First(c)
  <2>1. Positions(c) = {i}
    BY <1>1, <1>2 DEF Positions, Unique
  <2>2. i \in Int
    OBVIOUS
  <2>3. First(c) = i
    BY <2>1, <2>2 DEF First
  <2> QED
    BY <2>1, <2>3 DEF Listed
<1>3. Listed(c) => \E i \in 1..Len(contracts) : contracts[i].id = c
  BY <1>1 DEF Listed, Positions
<1> QED
  BY <1>2, <1>3 DEF getContract, Listed

\* the entry that money_transfer writes, and where
LEMMA MoneyListUnique ==
  ASSUME TypeInv, Unique(contracts), money_transfer
  PROVE  Unique(contracts')
<1> DEFINE t == Head(signals).tx
           c == t[1]
           con == Head(signals).contract
           s == StateAfterTransfer(c, con)
<1>1. /\ c \in Contract /\ con \in Con /\ Sound(con)
      /\ con = NoContract \/ (t \in history /\ ~Listed(c)) => contracts' = contracts
      /\ con # NoContract /\ Listed(c) =>
           /\ Len(contracts') = Len(contracts)
           /\ \A i \in 1..Len(contracts) : \/ i # First(c) /\ contracts'[i] = contracts[i]
                                           \/ i = First(c) /\ \E u : contracts'[i] = Entry(c, con, u)
      /\ con # NoContract /\ t \notin history /\ ~Listed(c) => contracts' = Append(contracts, Entry(c, con, s))
  BY MoneyList
<1>2. \A u : Entry(c, con, u).id = c
  BY DEF Entry
<1> HIDE DEF t, c, con, s
<1>3. CASE contracts' = contracts
  BY <1>3
<1>4. CASE con # NoContract /\ Listed(c)
  <2>1. First(c) \in 1..Len(contracts) /\ contracts[First(c)].id = c
    BY <1>4, PositionIs
  <2>2. Len(contracts') = Len(contracts) /\ \A i \in 1..Len(contracts) : contracts'[i].id = contracts[i].id
    BY <1>1, <1>2, <1>4, <2>1
  <2> QED
    BY <2>2 DEF Unique
<1>5. CASE con # NoContract /\ t \notin history /\ ~Listed(c)
  <2> DEFINE e == Entry(c, con, s)
  <2>1. contracts' = Append(contracts, e) /\ e.id = c
    BY <1>1, <1>2, <1>5
  <2> HIDE DEF e
  <2>2. \A i \in 1..Len(contracts) : contracts[i].id # c
    BY <1>5, PositionIs
  <2>3. contracts \in Seq(Listing) /\ e \in Listing
    BY <1>5, MoneyList DEF TypeInv, e, c, con, s, t
  <2>4. /\ Len(contracts') = Len(contracts) + 1 /\ Len(contracts) \in Nat
        /\ \A i \in 1..Len(contracts) : contracts'[i] = contracts[i]
        /\ contracts'[Len(contracts) + 1] = e
    BY <2>1, <2>3, AppendProperties
  <2>5. \A i \in 1..Len(contracts') : i \in 1..Len(contracts) \/ i = Len(contracts) + 1
    BY <2>4
  <2> QED
    BY <2>1, <2>2, <2>4, <2>5 DEF Unique
<1> QED
  BY <1>1, <1>3, <1>4, <1>5

LEMMA MoneyListOffers ==
  ASSUME TypeInv, ListInv, money_transfer
  PROVE  NoLateOffer(contracts', exp_med_ts)
<1> DEFINE t == Head(signals).tx
           c == t[1]
           con == Head(signals).contract
           s == StateAfterTransfer(c, con)
<1>1. /\ c \in Contract /\ con \in Con /\ Sound(con) /\ t \in Tx
      /\ con = NoContract \/ (t \in history /\ ~Listed(c)) => contracts' = contracts
      /\ con # NoContract /\ Listed(c) =>
           /\ Len(contracts') = Len(contracts)
           /\ \A i \in 1..Len(contracts) : \/ contracts'[i] = contracts[i]
                                           \/ contracts'[i] = Entry(c, con, contracts[i].state)
                                           \/ contracts'[i] = Entry(c, con, s)
      /\ con # NoContract /\ t \notin history /\ ~Listed(c) =>
           contracts' = Append(contracts, Entry(c, con, s)) /\ Entry(c, con, s) \in Listing
  BY MoneyList
<1>2. \A u : Entry(c, con, u).state = u
  BY DEF Entry
<1>3. con # NoContract /\ s = 1 => ~(Expiration < exp_med_ts)
  BY <1>1, TransferState DEF Sound
<1>4. contracts \in Seq(Listing)
  BY DEF TypeInv
<1> HIDE DEF t, c, con, s
<1>5. CASE contracts' = contracts
  BY <1>5 DEF ListInv
<1>6. CASE con # NoContract /\ Listed(c)
  BY <1>1, <1>2, <1>3, <1>6 DEF ListInv, NoLateOffer
<1>7. CASE con # NoContract /\ t \notin history /\ ~Listed(c)
  <2> DEFINE e == Entry(c, con, s)
  <2>1. contracts' = Append(contracts, e) /\ e \in Listing /\ e.state = s
    BY <1>1, <1>2, <1>7
  <2> HIDE DEF e
  <2>2. /\ Len(contracts') = Len(contracts) + 1 /\ Len(contracts) \in Nat
        /\ \A i \in 1..Len(contracts) : contracts'[i] = contracts[i]
        /\ contracts'[Len(contracts) + 1] = e
    BY <1>4, <2>1, AppendProperties
  <2>3. \A i \in 1..Len(contracts') : i \in 1..Len(contracts) \/ i = Len(contracts) + 1
    BY <2>2
  <2> QED
    BY <1>3, <1>7, <2>1, <2>2, <2>3 DEF ListInv, NoLateOffer
<1> QED
  BY <1>1, <1>5, <1>6, <1>7

\* the list is empty when the answer to getContracts arrives
LEMMA PrepareBrings ==
  ASSUME TypeInv, SessionInv, prepareContractsAfterOpen
  PROVE  /\ contracts = << >> /\ phase = "open"
         /\ Brought(contracts', Head(signals).contracts)
         /\ \A c \in Contract : Sound(Head(signals).contracts[c]) /\ Head(signals).contracts[c] \in Con
<1>1. Receive("contracts")
  BY DEF prepareContractsAfterOpen
<1>2. HasType(signals, Asked)
  BY <1>1, ReceiveIs, HasTail DEF TypeInv, Asked
<1>3. contracts = << >> /\ phase = "open"
  BY <1>2 DEF SessionInv
<1>4. PICK L : Brought(L, Head(signals).contracts) /\ contracts' = contracts \o L
  BY PrepareList
<1>5. contracts' = L
  BY <1>3, <1>4, ConcatEmptySeq DEF Brought
<1> QED
  BY <1>3, <1>4, <1>5, PrepareList

LEMMA ListStep ==
  ASSUME TypeInv, CallInv, SessionInv, ListInv, [Next]_vars
  PROVE  ListInv'
<1>1. CASE money_transfer
  <2>1. exp_med_ts' = exp_med_ts
    BY <1>1 DEF money_transfer
  <2> QED
    BY <1>1, <2>1, MoneyListUnique, MoneyListOffers DEF ListInv
<1>2. CASE prepareContractsAfterOpen
  <2> DEFINE got == Head(signals).contracts
  <2>1. Brought(contracts', got) /\ \A c \in Contract : Sound(got[c]) /\ got[c] \in Con
    BY <1>2, PrepareBrings
  <2>2. exp_med_ts' = exp_med_ts
    BY <1>2 DEF prepareContractsAfterOpen
  <2> HIDE DEF got
  <2>3. Unique(contracts')
    BY <2>1 DEF Brought, Unique
  <2>4. ASSUME NEW i \in 1..Len(contracts'), contracts'[i].state = 1
        PROVE  ~(Expiration < exp_med_ts)
    <3> DEFINE c == contracts'[i].id
    <3>1. got[c] # NoContract /\ contracts'[i] = Entry(c, got[c], StateAfterOpen(c, got[c])) /\ contracts'[i] \in Listing
      BY <2>1 DEF Brought
    <3>2. c \in Contract
      BY <3>1, ListingIs
    <3> HIDE DEF c
    <3>3. StateAfterOpen(c, got[c]) = 1
      BY <2>4, <3>1 DEF Entry
    <3> QED
      BY <2>1, <3>1, <3>2, <3>3, OpenState DEF Sound
  <2> QED
    BY <2>2, <2>3, <2>4 DEF ListInv, NoLateOffer
<1>3. CASE wallet_closed
  <2>1. contracts' = << >>
    BY <1>3 DEF wallet_closed
  <2> QED
    BY <2>1 DEF ListInv, Unique, NoLateOffer
<1>4. CASE ListEvolved(contracts, contracts', height_app') /\ (exp_med_ts' = exp_med_ts \/ update_daemon_state)
  <2>1. contracts \in Seq(Listing)
    BY DEF TypeInv
  <2>2. Unique(contracts') /\ NoLateOffer(contracts', exp_med_ts)
    BY <1>4, <2>1, EvolvedIds DEF ListInv
  <2>3. CASE exp_med_ts' = exp_med_ts
    BY <2>2, <2>3 DEF ListInv
  <2>4. CASE update_daemon_state /\ exp_med_ts' # exp_med_ts
    <3>1. \A i \in 1..Len(contracts) : contracts'[i].state = 1 => ~(Expiration <= exp_med_ts')
      BY <2>4, UpdateSteps
    <3>2. Len(contracts') = Len(contracts)
      BY <1>4 DEF ListEvolved
    <3>3. exp_med_ts' \in Nat /\ Expiration \in Nat
      BY <2>4, TypeStep, KindFacts DEF TypeInv
    <3> QED
      BY <2>2, <3>1, <3>2, <3>3 DEF ListInv, NoLateOffer
  <2> QED
    BY <1>4, <2>3, <2>4
<1> QED
  BY <1>1, <1>2, <1>3, <1>4, ListSteps

\* A proposal that can be accepted (state 1) has not expired by the time the
\* GUI knows, whichever of the handlers wrote it and whatever the order in
\* which the daemon's time, the list and the signals arrive
\* (app.component.ts:298, 538, wallet.model.ts:167).
THEOREM NoExpiredOffers == Spec => []NoExpiredOffer
<1>1. Init => TypeInv /\ CallInv /\ SessionInv /\ ListInv
  <2>1. Init => contracts = << >>
    BY DEF Init
  <2>2. Init => ListInv
    BY <2>1 DEF ListInv, Unique, NoLateOffer
  <2> QED
    BY <2>2, TypeInit, SessionInit
<1>2. (TypeInv /\ CallInv /\ SessionInv /\ ListInv) /\ [Next]_vars => (TypeInv /\ CallInv /\ SessionInv /\ ListInv)'
  BY TypeStep, CallStep, SessionStep, ListStep
<1>3. TypeInv /\ ListInv => NoExpiredOffer
  <2>1. SUFFICES ASSUME TypeInv, ListInv, NEW c \in Contract, Listed(c), getContract(c).state = 1
                 PROVE  getContract(c).expiration_time >= exp_med_ts
    BY DEF NoExpiredOffer
  <2>2. First(c) \in 1..Len(contracts) /\ getContract(c) = contracts[First(c)]
    BY <2>1, PositionIs DEF ListInv
  <2>3. getContract(c).expiration_time = Expiration /\ ~(Expiration < exp_med_ts)
    BY <2>1, <2>2, Elements, ListingIs DEF ListInv, NoLateOffer
  <2>4. exp_med_ts \in Nat /\ Expiration \in Nat
    BY <2>1, KindFacts DEF TypeInv
  <2> QED
    BY <2>3, <2>4
<1> QED
  BY <1>1, <1>2, <1>3, PTL DEF Spec

-----------------------------------------------------------------------------
(* The wallet: which transactions of a contract it has come across, and    *)
(* what state the contract is in when they came in order.                  *)

KindsOf(c, S) == {k \in Kind : <<c, k>> \in S}

\* what the publishing rules say of the kinds K seen of a contract whose
\* acceptance was mined at height a (0: not mined)
Pre(K, a) ==
  /\ "accept" \in K => "proposal" \in K
  /\ \A k \in K : k \in Cancel \cup Release => a # 0
  /\ "recancel" \in K => "cancel" \in K
  /\ "release_cancel" \in K => "cancel" \in K
  /\ \A k, l \in K : k \in Release /\ l \in Release => k = l

\* a contract in state s, of height h and cancellation time x, at time n: K
\* are the kinds seen of it, G those dropped, a and r the heights at which its
\* acceptance and the release of its cancellation were mined
Ord(s, h, x, K, G, a, r, n) ==
  /\ "accept" \in K <=> s >= 2
  /\ "cancel" \notin K => x = 0 /\ s # 5 /\ s # 6
  /\ "cancel" \in K /\ "recancel" \notin K => x = CancelTime["cancel"]
  /\ "recancel" \in K => x = CancelTime["recancel"]
  /\ "cancel" \in K /\ s = 2 => x <= n
  /\ (s = 3 <=> "release_normal" \in K) /\ (s = 4 <=> "release_burn" \in K)
  /\ s = 6 => "release_cancel" \in K
  /\ "release_cancel" \in K => s = 6 \/ ("release_cancel" \in G /\ (s = 2 \/ s = 5))
  /\ h # 0 /\ s >= 2 => a # 0 /\ a <= h
  /\ h # 0 /\ s = 6 => r # 0 /\ r <= h
  /\ r # 0 => h # 0

Disjoint ==
  \A t \in Tx : /\ t \in m_unconfirmed_txs => t \notin gone /\ mined[t] = 0
                /\ t \in gone => mined[t] = 0
                /\ mined[t] <= height
Preceded == \A c \in Contract : Pre(KindsOf(c, SeenTxs), mined[Accept(c)])
Exists == \A c \in Contract : m_contracts[c] # NoContract <=> Proposal(c) \in SeenTxs
Low == \A c \in Contract : Accept(c) \notin SeenTxs => m_contracts[c].state <= 1
OrderedAt(c) ==
  /\ Ord(m_contracts[c].state, m_contracts[c].height, m_contracts[c].cancel_expiration_time,
         KindsOf(c, SeenTxs), KindsOf(c, gone), mined[Accept(c)], mined[Cancelled(c)], tip)
  /\ m_contracts[c].height <= height
Ordered == \A c \in Contract \ overtaken : OrderedAt(c)
WalletInv == Disjoint /\ Preceded /\ Exists /\ Low /\ Ordered

LEMMA KindsAre ==
  /\ \A c, S, T : KindsOf(c, S \cup T) = KindsOf(c, S) \cup KindsOf(c, T)
  /\ \A c, S : \A k \in Kind : k \in KindsOf(c, S) <=> <<c, k>> \in S
  /\ {"proposal", "accept", "cancel", "recancel", "release_cancel"} \subseteq Kind
  BY EscrowAssumption DEF KindsOf

LEMMA SeenStep ==
  ASSUME TypeInv, NEW found \in SUBSET Tx, NEW dropped \in SUBSET Tx, NEW h, WalletStep(found, dropped, h)
  PROVE  SeenTxs' = SeenTxs \cup found
<1>1. mined' = [t \in Tx |-> IF t \in found /\ h # 0 THEN h ELSE mined[t]]
  BY DEF WalletStep
<1>2. gone' = gone \cup dropped /\ dropped \subseteq m_unconfirmed_txs
  BY DEF WalletStep
<1>3. m_unconfirmed_txs' = IF h = 0 THEN m_unconfirmed_txs \cup found ELSE (m_unconfirmed_txs \ found) \ dropped
  BY DEF WalletStep
<1>4. CASE h = 0
  BY <1>1, <1>2, <1>3, <1>4 DEF SeenTxs
<1>5. CASE h # 0
  <2>1. ASSUME NEW t \in Tx PROVE t \in SeenTxs' <=> t \in SeenTxs \cup found
    <3>1. mined'[t] = IF t \in found THEN h ELSE mined[t]
      BY <1>1, <1>5
    <3>2. t \in m_unconfirmed_txs' <=> t \in m_unconfirmed_txs /\ t \notin found /\ t \notin dropped
      BY <1>3, <1>5
    <3> QED
      BY <3>1, <3>2, <1>2, <1>5 DEF SeenTxs
  <2> QED
    BY <2>1 DEF SeenTxs
<1> QED
  BY <1>4, <1>5

\* a step as the transactions of one contract see it
LEMMA ViewKinds ==
  ASSUME TypeInv, NEW found \in SUBSET Tx, NEW dropped \in SUBSET Tx, NEW h, WalletStep(found, dropped, h),
         NEW c \in Contract
  PROVE  /\ KindsOf(c, SeenTxs') = KindsOf(c, SeenTxs) \cup KindsOf(c, found)
         /\ KindsOf(c, gone') = KindsOf(c, gone) \cup KindsOf(c, dropped)
<1>1. SeenTxs' = SeenTxs \cup found /\ gone' = gone \cup dropped
  BY SeenStep DEF WalletStep
<1> QED
  BY <1>1, KindsAre

LEMMA ViewNow ==
  ASSUME TypeInv, NEW found \in SUBSET Tx, NEW dropped \in SUBSET Tx, NEW h, WalletStep(found, dropped, h),
         NEW c \in Contract, KindsOf(c, found) = {}
  PROVE  Now(found, h, c) = m_contracts[c]
<1>1. ASSUME NEW t \in found PROVE t[1] # c
  <2>1. t = <<t[1], t[2]>> /\ t[2] \in Kind
    BY KindFacts
  <2> QED
    BY <2>1 DEF KindsOf
<1> QED
  BY <1>1 DEF Now

LEMMA ViewFound ==
  ASSUME TypeInv, NEW found \in SUBSET Tx, NEW dropped \in SUBSET Tx, NEW h, WalletStep(found, dropped, h),
         NEW c \in Contract
  PROVE  KindsOf(c, found) = {} \/ \E k \in Kind : KindsOf(c, found) = {k} /\ <<c, k>> \in found
<1>1. ASSUME NEW k \in Kind, <<c, k>> \in found PROVE KindsOf(c, found) = {k}
  <2>1. found = {<<c, k>>}
    BY <1>1 DEF WalletStep, AtMostOne
  <2>2. \A l : <<c, l>> = <<c, k>> => l = k
    OBVIOUS
  <2> QED
    BY <2>1, <2>2 DEF KindsOf
<1> QED
  BY <1>1 DEF KindsOf

LEMMA ViewMined ==
  ASSUME TypeInv, NEW found \in SUBSET Tx, NEW dropped \in SUBSET Tx, NEW h, WalletStep(found, dropped, h),
         NEW c \in Contract, NEW k \in Kind
  PROVE  mined'[<<c, k>>] = IF k \in KindsOf(c, found) /\ h # 0 THEN h ELSE mined[<<c, k>>]
<1>1. <<c, k>> \in Tx
  BY KindFacts
<1>2. mined' = [t \in Tx |-> IF t \in found /\ h # 0 THEN h ELSE mined[t]]
  BY DEF WalletStep
<1> QED
  BY <1>1, <1>2 DEF KindsOf

\* the transaction found was not mined before, and the rules allow it
Allowed(K, a, k) ==
  /\ k = "accept" => "proposal" \in K
  /\ k \in Cancel \cup Release => a # 0
  /\ k = "recancel" => "cancel" \in K
  /\ k = "release_cancel" => "cancel" \in K
  /\ k \in Release => \A l \in K : l \in Release => l = k
LEMMA FoundAllowed ==
  ASSUME TypeInv, Disjoint, Preceded, NEW c \in Contract, NEW k \in Kind, Mineable(<<c, k>>)
  PROVE  Allowed(KindsOf(c, SeenTxs), mined[Accept(c)], k) /\ mined[<<c, k>>] = 0 /\ <<c, k>> \notin gone
<1>0. <<c, k>> \in Tx /\ <<c, k>>[1] = c /\ <<c, k>>[2] = k /\ \A l \in Kind : <<c, l>> \in Tx
  BY KindFacts
<1>1. CASE <<c, k>> \in m_unconfirmed_txs
  <2>1. k \in KindsOf(c, SeenTxs) /\ mined[<<c, k>>] = 0 /\ <<c, k>> \notin gone
    BY <1>0, <1>1 DEF KindsOf, SeenTxs, Disjoint
  <2>2. Pre(KindsOf(c, SeenTxs), mined[Accept(c)])
    BY DEF Preceded
  <2> QED
    BY <2>1, <2>2 DEF Pre, Allowed
<1>2. CASE Publishable(<<c, k>>)
  <2>1. \A l \in Kind : Seen(<<c, l>>) <=> l \in KindsOf(c, SeenTxs)
    BY <1>0, SeenIs DEF KindsOf
  <2>2. /\ ~Seen(<<c, k>>)
        /\ k = "accept" => Seen(<<c, "proposal">>)
        /\ k \in Cancel \cup Release => mined[<<c, "accept">>] # 0
        /\ k = "recancel" => Seen(<<c, "cancel">>)
        /\ k = "release_cancel" => Seen(<<c, "cancel">>)
        /\ k \in Release => \A l \in Release \cap Kind : ~Seen(<<c, l>>)
    BY <1>0, <1>2 DEF Publishable
  <2>3. mined[<<c, k>>] = 0 /\ <<c, k>> \notin gone
    BY <2>2 DEF Seen
  <2>4. KindsOf(c, SeenTxs) \subseteq Kind
    BY DEF KindsOf
  <2> QED
    BY <2>1, <2>2, <2>3, <2>4, KindsAre DEF Allowed, Accept
<1> QED
  BY <1>1, <1>2 DEF Mineable

LEMMA DisjointStep ==
  ASSUME TypeInv, Disjoint, Preceded, NEW found \in SUBSET Tx, NEW dropped \in SUBSET Tx, NEW h,
         WalletStep(found, dropped, h)
  PROVE  Disjoint'
<1>1. SUFFICES ASSUME NEW t \in Tx
               PROVE  /\ t \in m_unconfirmed_txs' => t \notin gone' /\ mined'[t] = 0
                      /\ t \in gone' => mined'[t] = 0
                      /\ mined'[t] <= height'
  BY DEF Disjoint
<1>2. mined'[t] = IF t \in found /\ h # 0 THEN h ELSE mined[t]
  BY DEF WalletStep
<1>3. gone' = gone \cup dropped /\ dropped \subseteq m_unconfirmed_txs \ found
  BY DEF WalletStep
<1>4. m_unconfirmed_txs' = IF h = 0 THEN m_unconfirmed_txs \cup found ELSE (m_unconfirmed_txs \ found) \ dropped
  BY DEF WalletStep
<1>5. h = 0 => dropped = {}
  BY DEF WalletStep
<1>6. t \in found => t \notin gone /\ mined[t] = 0
  <2>1. t = <<t[1], t[2]>> /\ t[1] \in Contract /\ t[2] \in Kind
    BY KindFacts
  <2>2. t \in found => Mineable(t)
    BY DEF WalletStep
  <2> QED
    BY <2>1, <2>2, FoundAllowed
<1>7. /\ t \in m_unconfirmed_txs => t \notin gone /\ mined[t] = 0
      /\ t \in gone => mined[t] = 0
      /\ mined[t] <= height
  BY DEF Disjoint
<1>8. mined[t] \in Nat /\ height \in Nat /\ h \in Nat
  <2>1. h \in 0..MaxHeight
    BY DEF WalletStep
  <2>2. MaxHeight \in Nat /\ height \in Nat
    BY KindFacts, Elements
  <2>3. mined[t] \in 0..MaxHeight
    BY Elements
  <2> QED
    BY <2>1, <2>2, <2>3
<1>9. (h = 0 => height' = height) /\ (h # 0 => h = height + 1 /\ height' = h)
  BY DEF WalletStep
<1>10. mined'[t] <= height'
  BY <1>2, <1>7, <1>8, <1>9
<1>11. t \in gone' => mined'[t] = 0
  BY <1>2, <1>3, <1>6, <1>7
<1>12. t \in m_unconfirmed_txs' => t \notin gone' /\ mined'[t] = 0
  BY <1>2, <1>3, <1>4, <1>5, <1>6, <1>7
<1> QED
  BY <1>10, <1>11, <1>12

LEMMA PreStep ==
  ASSUME NEW K, NEW a, NEW k, NEW b, Pre(K, a), Allowed(K, a, k), a # 0 => b # 0
  PROVE  Pre(K \cup {k}, b)
<1>1. k \in {"recancel"} => k \in Cancel
  BY DEF Cancel
<1> QED
  BY DEF Pre, Allowed

LEMMA PrecededStep ==
  ASSUME TypeInv, Disjoint, Preceded, NEW found \in SUBSET Tx, NEW dropped \in SUBSET Tx, NEW h,
         WalletStep(found, dropped, h)
  PROVE  Preceded'
<1>1. SUFFICES ASSUME NEW c \in Contract PROVE Pre(KindsOf(c, SeenTxs'), mined'[Accept(c)])
  BY DEF Preceded
<1> DEFINE K == KindsOf(c, SeenTxs)
           a == mined[Accept(c)]
           b == mined'[Accept(c)]
<1>2. Pre(K, a)
  BY DEF Preceded
<1>3. a # 0 => b # 0
  <2>1. "accept" \in Kind
    BY KindsAre
  <2>2. mined'[<<c, "accept">>] = IF "accept" \in KindsOf(c, found) /\ h # 0 THEN h ELSE mined[<<c, "accept">>]
    BY <2>1, ViewMined
  <2> QED
    BY <2>2 DEF Accept
<1>4. KindsOf(c, SeenTxs') = K \cup KindsOf(c, found)
  BY ViewKinds
<1>5. CASE KindsOf(c, found) = {}
  BY <1>2, <1>3, <1>4, <1>5 DEF Pre
<1>6. CASE \E k \in Kind : KindsOf(c, found) = {k} /\ <<c, k>> \in found
  <2>1. PICK k \in Kind : KindsOf(c, found) = {k} /\ <<c, k>> \in found
    BY <1>6
  <2>2. Mineable(<<c, k>>)
    BY <2>1 DEF WalletStep
  <2>3. Allowed(K, a, k)
    BY <2>2, FoundAllowed
  <2>4. KindsOf(c, SeenTxs') = K \cup {k}
    BY <1>4, <2>1
  <2> HIDE DEF K, a, b
  <2>5. Pre(K \cup {k}, b)
    BY <1>2, <1>3, <2>3, PreStep
  <2> QED
    BY <2>4, <2>5 DEF b
<1> QED
  BY <1>5, <1>6, ViewFound

\* a step's contract, before and after its requests expire
LEMMA StepState ==
  ASSUME TypeInv, NEW found \in SUBSET Tx, NEW dropped \in SUBSET Tx, NEW h, WalletStep(found, dropped, h),
         NEW c \in Contract
  PROVE  LET now == Now(found, h, c)
             r == m_contracts'[c]
         IN /\ r.height = now.height /\ r.cancel_expiration_time = now.cancel_expiration_time
            /\ r.state = IF h # 0 /\ Lapses(now) THEN 2 ELSE now.state
            /\ now \in Con /\ Sound(now) /\ r \in Con /\ Sound(r)
<1> DEFINE now == Now(found, h, c)
<1>1. /\ now \in Con /\ Sound(now) /\ m_contracts'[c] \in Con /\ Sound(m_contracts'[c])
      /\ m_contracts'[c] = IF h = 0 THEN now ELSE handle_contract_expirations(now)
  BY StepContract
<1> HIDE DEF now
<1>2. LET e == handle_contract_expirations(now) IN
      /\ e.height = now.height /\ e.cancel_expiration_time = now.cancel_expiration_time
      /\ e.state = IF Lapses(now) THEN 2 ELSE now.state
  BY <1>1, ExpireFields
<1>3. CASE h = 0
  BY <1>1, <1>3 DEF now
<1>4. CASE h # 0
  BY <1>1, <1>2, <1>4 DEF now
<1> QED
  BY <1>3, <1>4

LEMMA ExistsStep ==
  ASSUME TypeInv, Disjoint, Preceded, Exists, NEW found \in SUBSET Tx, NEW dropped \in SUBSET Tx, NEW h,
         WalletStep(found, dropped, h)
  PROVE  Exists'
<1>1. SUFFICES ASSUME NEW c \in Contract
               PROVE  m_contracts'[c] # NoContract <=> Proposal(c) \in SeenTxs'
  BY DEF Exists
<1> DEFINE now == Now(found, h, c)
           con == m_contracts[c]
           K == KindsOf(c, SeenTxs)
<1>2. Sound(con) /\ con \in Con /\ (con # NoContract <=> "proposal" \in K)
  BY Elements, KindsAre DEF Exists, Proposal
<1>3. h \in 0..MaxHeight
  BY DEF WalletStep
<1>4. now # NoContract <=> "proposal" \in K \cup KindsOf(c, found)
  <2>1. CASE KindsOf(c, found) = {}
    <3>1. now = con
      BY <2>1, ViewNow
    <3> QED
      BY <1>2, <2>1, <3>1
  <2>2. CASE \E k \in Kind : KindsOf(c, found) = {k} /\ <<c, k>> \in found
    <3>1. PICK k \in Kind : KindsOf(c, found) = {k} /\ <<c, k>> \in found
      BY <2>2
    <3>2. Mineable(<<c, k>>)
      BY <3>1 DEF WalletStep
    <3>3. Allowed(K, mined[Accept(c)], k) /\ Pre(K, mined[Accept(c)])
      BY <3>2, FoundAllowed DEF Preceded
    <3>4. now = process_contract_info(con, k, h)
      BY <3>1, StepContract
    <3>5. k = "proposal" \/ "proposal" \in K \/ k \in Cancel \cup Release
      BY <3>3, KindFacts DEF Allowed
    <3>6. CASE k = "proposal"
      <4>1. ~Refused(con, k)
        BY <3>6, KindFacts DEF Refused
      <4>2. now.state # 0
        BY <1>2, <1>3, <3>4, <4>1, ProcessFields
      <4> QED
        BY <3>1, <3>6, <4>2, NoContractSound
    <3>7. CASE k # "proposal"
      <4>1. Refused(con, k) => now = con
        BY <3>4, ProcessRefused
      <4>2. ~Refused(con, k) => now.state # 0
        BY <1>2, <1>3, <3>4, ProcessFields
      <4>3. ~Refused(con, k) /\ k \in Cancel \cup Release => con # NoContract
        BY NoContractSound DEF Refused, contract_accepted, cancel_proposal_sent
      <4> QED
        BY <1>2, <3>1, <3>5, <3>7, <4>1, <4>2, <4>3, NoContractSound
    <3> QED
      BY <3>6, <3>7
  <2> QED
    BY <2>1, <2>2, ViewFound
<1>5. m_contracts'[c] # NoContract <=> now # NoContract
  <2>1. LET r == m_contracts'[c] IN r.state = (IF h # 0 /\ Lapses(now) THEN 2 ELSE now.state) /\ Sound(r) /\ Sound(now)
    BY StepState
  <2>2. Lapses(now) => now.state # 0
    BY DEF Lapses
  <2>3. \A r : Sound(r) => (r # NoContract <=> r.state # 0)
    BY NoContractSound DEF Sound
  <2> HIDE DEF now
  <2>4. m_contracts'[c].state # 0 <=> now.state # 0
    BY <2>1, <2>2
  <2> QED
    BY <2>1, <2>3, <2>4
<1>6. KindsOf(c, SeenTxs') = K \cup KindsOf(c, found)
  BY ViewKinds
<1>7. Proposal(c) \in SeenTxs' <=> "proposal" \in KindsOf(c, SeenTxs')
  BY KindsAre DEF Proposal
<1> QED
  BY <1>4, <1>5, <1>6, <1>7

LEMMA LowStep ==
  ASSUME TypeInv, Disjoint, Preceded, Low, NEW found \in SUBSET Tx, NEW dropped \in SUBSET Tx, NEW h,
         WalletStep(found, dropped, h)
  PROVE  Low'
<1> USE DEF Low
<1>1. SUFFICES ASSUME NEW c \in Contract, Accept(c) \notin SeenTxs'
               PROVE  m_contracts'[c].state <= 1
  OBVIOUS
<1> DEFINE now == Now(found, h, c)
           con == m_contracts[c]
           K == KindsOf(c, SeenTxs)
<1>2. SeenTxs' = SeenTxs \cup found
  BY SeenStep
<1>3. Accept(c) \notin SeenTxs /\ "accept" \notin K /\ Accept(c) \notin found
  BY <1>1, <1>2, KindsAre DEF Accept
<1>4. con.state <= 1 /\ Sound(con) /\ con \in Con /\ h \in 0..MaxHeight
  BY <1>3, Elements DEF WalletStep
<1>5. mined[Accept(c)] = 0
  BY <1>3, KindFacts DEF SeenTxs
<1>6. now.state <= 1
  <2>1. CASE KindsOf(c, found) = {}
    <3>1. now = con
      BY <2>1, ViewNow
    <3> QED
      BY <1>4, <3>1
  <2>2. CASE \E k \in Kind : KindsOf(c, found) = {k} /\ <<c, k>> \in found
    <3>1. PICK k \in Kind : KindsOf(c, found) = {k} /\ <<c, k>> \in found
      BY <2>2
    <3>2. Mineable(<<c, k>>)
      BY <3>1 DEF WalletStep
    <3>3. Allowed(K, mined[Accept(c)], k)
      BY <3>2, FoundAllowed
    <3>4. k = "proposal"
      BY <1>3, <1>5, <3>1, <3>3, KindFacts DEF Allowed, Accept
    <3>5. now = process_contract_info(con, k, h)
      BY <3>1, StepContract
    <3>6. ~Refused(con, k)
      BY <3>4, KindFacts DEF Refused
    <3>7. now.state = StateOf(k)
      BY <1>4, <3>5, <3>6, ProcessFields
    <3>8. StateOf("proposal") = 1
      BY DEF StateOf, Cancel
    <3>9. now.state = 1
      BY <3>4, <3>7, <3>8, Zenon
    <3> HIDE DEF now
    <3> QED
      BY <3>9
  <2> QED
    BY <2>1, <2>2, ViewFound
<1>7. ~Lapses(now)
  BY <1>6 DEF Lapses
<1> QED
  BY <1>6, <1>7, StepState

-----------------------------------------------------------------------------
(* A contract whose transactions come in order, transaction by transaction *)

LEMMA StateIs ==
  /\ StateOf("proposal") = 1 /\ StateOf("accept") = 2 /\ StateOf("cancel") = 5 /\ StateOf("recancel") = 5
  /\ StateOf("release_normal") = 3 /\ StateOf("release_burn") = 4 /\ StateOf("release_cancel") = 6
<1>1. /\ StateOf("proposal") = 1 /\ StateOf("accept") = 2
      /\ StateOf("release_normal") = 3 /\ StateOf("release_burn") = 4 /\ StateOf("release_cancel") = 6
  BY DEF StateOf, Cancel
<1>2. StateOf("cancel") = 5 /\ StateOf("recancel") = 5
  BY DEF StateOf, Cancel
<1> QED
  BY <1>1, <1>2

\* the heights belong to transactions that were seen and not dropped
Rooted(K, G, a, r) == /\ a # 0 => "accept" \in K
                      /\ r # 0 => "release_cancel" \in K /\ "release_cancel" \notin G

LEMMA OrdProposal ==
  ASSUME NEW s \in Nat, NEW h \in Nat, NEW x \in Nat, NEW K, NEW G, NEW a \in Nat, NEW r \in Nat, NEW n \in Nat,
         Ord(s, h, x, K, G, a, r, n), Pre(K, a), Rooted(K, G, a, r), NEW v \in Nat, s <= 1
  PROVE  Ord(1, v, x, K \cup {"proposal"}, G, a, r, n)
  BY DEF Ord, Pre, Rooted

LEMMA OrdAccept ==
  ASSUME NEW s \in Nat, NEW h \in Nat, NEW x \in Nat, NEW K, NEW G, NEW a \in Nat, NEW r \in Nat, NEW n \in Nat,
         Ord(s, h, x, K, G, a, r, n), Pre(K, a), Rooted(K, G, a, r), NEW v \in Nat, s <= 2, a = 0
  PROVE  Ord(2, v, x, K \cup {"accept"}, G, v, r, n)
<1>1. "cancel" \notin K /\ "recancel" \notin K /\ "release_normal" \notin K /\ "release_burn" \notin K
      /\ "release_cancel" \notin K
  BY DEF Pre, Cancel, Release
<1> QED
  BY <1>1 DEF Ord, Rooted

LEMMA OrdCancel ==
  ASSUME NEW s \in Nat, NEW h \in Nat, NEW x \in Nat, NEW K, NEW G, NEW a \in Nat, NEW r \in Nat, NEW n \in Nat,
         Ord(s, h, x, K, G, a, r, n), Pre(K, a), Rooted(K, G, a, r), NEW v \in Nat, s = 2 \/ s = 5,
         a # 0, v # 0 => a <= v, x # CancelTime["recancel"]
  PROVE  Ord(5, IF s = 2 THEN v ELSE h, CancelTime["cancel"], K \cup {"cancel"}, G, a, r, n)
<1>1. "recancel" \notin K /\ "accept" \in K /\ r = 0
  BY DEF Ord, Rooted
<1> DEFINE w == IF s = 2 THEN v ELSE h
<1>2. w # 0 => a <= w
  BY DEF Ord
<1> HIDE DEF w
<1>3. "release_normal" \notin K /\ "release_burn" \notin K /\ ("release_cancel" \in K => "release_cancel" \in G)
  BY DEF Ord
<1>4. Ord(5, w, CancelTime["cancel"], K \cup {"cancel"}, G, a, r, n)
  BY <1>1, <1>2, <1>3 DEF Ord
<1> QED
  BY <1>4 DEF w

LEMMA OrdRecancel ==
  ASSUME NEW s \in Nat, NEW h \in Nat, NEW x \in Nat, NEW K, NEW G, NEW a \in Nat, NEW r \in Nat, NEW n \in Nat,
         Ord(s, h, x, K, G, a, r, n), Pre(K, a), Rooted(K, G, a, r), NEW v \in Nat, s = 2 \/ s = 5,
         a # 0, v # 0 => a <= v, "cancel" \in K
  PROVE  Ord(5, IF s = 2 THEN v ELSE h, CancelTime["recancel"], K \cup {"recancel"}, G, a, r, n)
<1>1. "accept" \in K /\ r = 0
  BY DEF Ord, Rooted
<1> DEFINE w == IF s = 2 THEN v ELSE h
<1>2. w # 0 => a <= w
  BY DEF Ord
<1> HIDE DEF w
<1>3. "release_normal" \notin K /\ "release_burn" \notin K /\ ("release_cancel" \in K => "release_cancel" \in G)
  BY DEF Ord
<1>4. Ord(5, w, CancelTime["recancel"], K \cup {"recancel"}, G, a, r, n)
  BY <1>1, <1>2, <1>3 DEF Ord
<1> QED
  BY <1>4 DEF w

LEMMA OrdRelease ==
  ASSUME NEW s \in Nat, NEW h \in Nat, NEW x \in Nat, NEW K, NEW G, NEW a \in Nat, NEW r \in Nat, NEW n \in Nat,
         Ord(s, h, x, K, G, a, r, n), Pre(K, a), Rooted(K, G, a, r), NEW v \in Nat, NEW k \in Release,
         a # 0, v # 0 => a <= v, Allowed(K, a, k), k = "release_cancel" => r = 0
  PROVE  Ord(StateOf(k), v, x, K \cup {k}, G, a, IF k = "release_cancel" THEN v ELSE r, n)
<1>1. "accept" \in K
  BY DEF Rooted
<1>2. \A l \in K : l \in Release => l = k
  BY DEF Allowed
<1>3. CASE k = "release_normal"
  <2>1. "release_burn" \notin K /\ "release_cancel" \notin K /\ r = 0 /\ StateOf(k) = 3
    BY <1>2, <1>3, StateIs DEF Release, Rooted
  <2>2. Ord(3, v, x, K \cup {"release_normal"}, G, a, r, n)
    BY <1>1, <2>1 DEF Ord
  <2> QED
    BY <1>3, <2>1, <2>2
<1>4. CASE k = "release_burn"
  <2>1. "release_normal" \notin K /\ "release_cancel" \notin K /\ r = 0 /\ StateOf(k) = 4
    BY <1>2, <1>4, StateIs DEF Release, Rooted
  <2>2. Ord(4, v, x, K \cup {"release_burn"}, G, a, r, n)
    BY <1>1, <2>1 DEF Ord
  <2> QED
    BY <1>4, <2>1, <2>2
<1>5. CASE k = "release_cancel"
  <2>1. "release_normal" \notin K /\ "release_burn" \notin K /\ StateOf(k) = 6 /\ "cancel" \in K
    BY <1>2, <1>5, StateIs DEF Release, Allowed
  <2>2. Ord(6, v, x, K \cup {"release_cancel"}, G, a, v, n)
    BY <1>1, <2>1 DEF Ord
  <2> QED
    BY <1>5, <2>1, <2>2
<1> QED
  BY <1>3, <1>4, <1>5 DEF Release

LEMMA OrdExpire ==
  ASSUME NEW s \in Nat, NEW h \in Nat, NEW x \in Nat, NEW K, NEW G, NEW a \in Nat, NEW r \in Nat, NEW n \in Nat,
         Ord(s, h, x, K, G, a, r, n), x <= n, s = 5 \/ s = 6, s = 6 => "release_cancel" \in G
  PROVE  Ord(2, h, x, K, G, a, r, n)
  BY DEF Ord

LEMMA OrdLater ==
  ASSUME NEW s \in Nat, NEW h \in Nat, NEW x \in Nat, NEW K, NEW G, NEW a \in Nat, NEW r \in Nat, NEW n \in Nat,
         Ord(s, h, x, K, G, a, r, n), NEW H, G \subseteq H, NEW m \in Nat, n <= m
  PROVE  Ord(s, h, x, K, H, a, r, m)
  BY DEF Ord

\* a transaction that does not make its contract an overtaken one
LEMMA InOrder ==
  ASSUME NEW found \in SUBSET Tx, NEW dropped \in SUBSET Tx, NEW h, WalletStep(found, dropped, h), NEW c \in Contract,
         c \notin overtaken'
  PROVE  /\ c \notin overtaken
         /\ \A k \in Kind : <<c, k>> \in found =>
              /\ k = "proposal" => ~(m_contracts[c].state > 1)
              /\ k = "accept" => ~(m_contracts[c].state > 2)
              /\ k = "cancel" => m_contracts[c].cancel_expiration_time # CancelTime["recancel"]
              /\ ~Refused(m_contracts[c], k)
<1>1. NoteOvertaken(found)
  BY DEF WalletStep
<1>2. c \notin overtaken
  BY <1>1 DEF NoteOvertaken
<1>3. ASSUME NEW k \in Kind, <<c, k>> \in found
      PROVE  /\ k = "proposal" => ~(m_contracts[c].state > 1)
             /\ k = "accept" => ~(m_contracts[c].state > 2)
             /\ k = "cancel" => m_contracts[c].cancel_expiration_time # CancelTime["recancel"]
             /\ ~Refused(m_contracts[c], k)
  <2>1. <<c, k>>[1] = c /\ <<c, k>>[2] = k
    OBVIOUS
  <2> DEFINE t == <<c, k>>
  <2>2. ~(\/ t[2] = "proposal" /\ m_contracts[c].state > proposal_sent
          \/ t[2] = "accept" /\ m_contracts[c].state > contract_accepted
          \/ t[2] = "cancel" /\ m_contracts[c].cancel_expiration_time = CancelTime.recancel
          \/ Refused(m_contracts[c], t[2]))
    BY <1>1, <1>3, <2>1, Zenon DEF NoteOvertaken
  <2> QED
    BY <2>1, <2>2 DEF proposal_sent, contract_accepted
<1> QED
  BY <1>2, <1>3

LEMMA RootedIs ==
  ASSUME TypeInv, Disjoint, NEW c \in Contract
  PROVE  /\ Rooted(KindsOf(c, SeenTxs), KindsOf(c, gone), mined[Accept(c)], mined[Cancelled(c)])
         /\ \A k \in Kind : mined[<<c, k>>] \in Nat /\ mined[<<c, k>>] <= height
         /\ mined[Accept(c)] \in Nat /\ mined[Cancelled(c)] \in Nat
<1>1. \A k \in Kind : <<c, k>> \in Tx
  BY KindFacts
<1>2. ASSUME NEW k \in Kind PROVE mined[<<c, k>>] \in Nat /\ mined[<<c, k>>] <= height
  <2>1. mined[<<c, k>>] \in 0..MaxHeight
    BY <1>1, Elements
  <2> QED
    BY <1>1, <2>1 DEF Disjoint
<1>3. ASSUME NEW k \in Kind, mined[<<c, k>>] # 0
      PROVE  k \in KindsOf(c, SeenTxs) /\ k \notin KindsOf(c, gone)
  BY <1>1, <1>3 DEF Disjoint, KindsOf, SeenTxs
<1>4. "accept" \in Kind /\ "release_cancel" \in Kind
  BY KindsAre
<1> QED
  BY <1>2, <1>3, <1>4 DEF Rooted, Accept, Cancelled

\* the contract after the transaction, before its requests expire
LEMMA OrdNow ==
  ASSUME TypeInv, WalletInv, NEW found \in SUBSET Tx, NEW dropped \in SUBSET Tx, NEW h, WalletStep(found, dropped, h),
         NEW c \in Contract, c \notin overtaken'
  PROVE  LET now == Now(found, h, c) IN
         /\ Ord(now.state, now.height, now.cancel_expiration_time, KindsOf(c, SeenTxs'), KindsOf(c, gone),
                mined'[Accept(c)], mined'[Cancelled(c)], tip)
         /\ now.height <= height'
         /\ now = m_contracts[c] \/ ~(now.state = 6 /\ now.height = 0 /\ h # 0)
<1> DEFINE now == Now(found, h, c)
           con == m_contracts[c]
           K == KindsOf(c, SeenTxs)
           G == KindsOf(c, gone)
           a == mined[Accept(c)]
           r == mined[Cancelled(c)]
           s == con.state
           x == con.cancel_expiration_time
           y == con.height
<1>1. Ord(s, y, x, K, G, a, r, tip) /\ y <= height /\ c \notin overtaken
  BY InOrder DEF WalletInv, Ordered, OrderedAt
<1>2. Sound(con) /\ con \in Con /\ s \in Nat /\ y \in Nat /\ x \in Nat /\ tip \in Nat /\ height \in Nat
  <2>1. Sound(con) /\ con \in Con /\ tip \in Nat /\ height \in Nat
    BY Elements
  <2>2. s \in 0..6 /\ y \in 0..MaxHeight /\ x \in CancelTimes
    BY <2>1 DEF Con
  <2> HIDE DEF s, y, x, con
  <2> QED
    BY <2>1, <2>2, Numbers
<1>3. Disjoint /\ Preceded /\ Pre(K, a) /\ Rooted(K, G, a, r) /\ a \in Nat /\ r \in Nat /\ a <= height
  <2>1. Disjoint /\ Preceded /\ Pre(K, a)
    BY DEF WalletInv, Preceded
  <2>2. "accept" \in Kind
    BY KindsAre
  <2> QED
    BY <2>1, <2>2, RootedIs DEF Accept
<1>4. h \in Nat /\ h \in 0..MaxHeight /\ (h = 0 => height' = height) /\ (h # 0 => h = height + 1 /\ height' = h)
  <2>1. h \in 0..MaxHeight /\ (h = 0 => height' = height) /\ (h # 0 => h = height + 1 /\ height' = h)
    BY DEF WalletStep
  <2> QED
    BY <2>1, KindFacts
<1>5. KindsOf(c, SeenTxs') = K \cup KindsOf(c, found)
  BY ViewKinds
<1>6. /\ mined'[Accept(c)] = IF "accept" \in KindsOf(c, found) /\ h # 0 THEN h ELSE a
      /\ mined'[Cancelled(c)] = IF "release_cancel" \in KindsOf(c, found) /\ h # 0 THEN h ELSE r
  <2>1. "accept" \in Kind /\ "release_cancel" \in Kind
    BY KindsAre
  <2>2. /\ mined'[<<c, "accept">>] = IF "accept" \in KindsOf(c, found) /\ h # 0 THEN h ELSE mined[<<c, "accept">>]
        /\ mined'[<<c, "release_cancel">>] =
             IF "release_cancel" \in KindsOf(c, found) /\ h # 0 THEN h ELSE mined[<<c, "release_cancel">>]
    BY <2>1, ViewMined
  <2> QED
    BY <2>2 DEF Accept, Cancelled
<1>7. CASE KindsOf(c, found) = {}
  <2>1. now = con
    BY <1>7, ViewNow
  <2>2. mined'[Accept(c)] = a /\ mined'[Cancelled(c)] = r /\ KindsOf(c, SeenTxs') = K
    BY <1>5, <1>6, <1>7
  <2>3. y <= height'
    BY <1>1, <1>2, <1>4
  <2> QED
    BY <1>1, <2>1, <2>2, <2>3
<1>8. CASE \E k \in Kind : KindsOf(c, found) = {k} /\ <<c, k>> \in found
  <2>1. PICK k \in Kind : KindsOf(c, found) = {k} /\ <<c, k>> \in found
    BY <1>8
  <2>2. Mineable(<<c, k>>)
    BY <2>1 DEF WalletStep
  <2>3. Allowed(K, a, k) /\ mined[<<c, k>>] = 0
    BY <1>3, <2>2, FoundAllowed
  <2>4. /\ k = "proposal" => ~(s > 1)
        /\ k = "accept" => ~(s > 2)
        /\ k = "cancel" => x # CancelTime["recancel"]
        /\ ~Refused(con, k)
    BY <2>1, InOrder
  <2>5. now = process_contract_info(con, k, h)
    BY <2>1, StepContract
  <2>6. /\ now.state = StateOf(k)
        /\ k \notin Cancel => now.height = h /\ now.cancel_expiration_time = x
        /\ k \in Cancel => now.height = (IF s = 2 THEN h ELSE y)
        /\ k \in Cancel => now.cancel_expiration_time = CancelTime[k]
    BY <1>2, <1>4, <2>4, <2>5, ProcessFields
  <2>7. KindsOf(c, SeenTxs') = K \cup {k}
    BY <1>5, <2>1
  <2>8. /\ mined'[Accept(c)] = IF k = "accept" THEN h ELSE a
        /\ mined'[Cancelled(c)] = IF k = "release_cancel" THEN h ELSE r
        /\ k = "accept" => a = 0
        /\ k = "release_cancel" => r = 0
    BY <1>6, <2>1, <2>3 DEF Accept, Cancelled
  <2>9. k \in Cancel \cup Release => a # 0 /\ (h # 0 => a <= h)
    BY <1>2, <1>3, <1>4, <2>3 DEF Allowed
  <2>10. k \in Cancel => s = 2 \/ s = 5
    BY <2>4 DEF Refused, contract_accepted, cancel_proposal_sent
  <2>11. h <= height' /\ y <= height'
    BY <1>1, <1>2, <1>4
  <2> DEFINE L == KindsOf(c, SeenTxs')
             b == mined'[Accept(c)]
             q == mined'[Cancelled(c)]
  <2> HIDE DEF now, con, K, G, a, r, s, x, y, L, b, q
  <2>12. CASE k = "proposal"
    <3>1. Ord(1, h, x, K \cup {"proposal"}, G, a, r, tip)
      BY <1>1, <1>2, <1>3, <1>4, <2>4, <2>12, OrdProposal
    <3>2. now.state = 1 /\ now.height = h /\ now.cancel_expiration_time = x /\ L = K \cup {"proposal"} /\ b = a /\ q = r
      BY <2>6, <2>7, <2>8, <2>12, KindFacts, StateIs DEF L, b, q
    <3>3. Ord(now.state, now.height, now.cancel_expiration_time, L, G, b, q, tip)
      BY <3>1, <3>2
    <3> QED
      BY <2>11, <3>2, <3>3 DEF now, L, b, q, G
  <2>13. CASE k = "accept"
    <3>1. Ord(2, h, x, K \cup {"accept"}, G, h, r, tip)
      BY <1>1, <1>2, <1>3, <1>4, <2>4, <2>8, <2>13, OrdAccept
    <3>2. now.state = 2 /\ now.height = h /\ now.cancel_expiration_time = x /\ L = K \cup {"accept"} /\ b = h /\ q = r
      BY <2>6, <2>7, <2>8, <2>13, KindFacts, StateIs DEF L, b, q
    <3>3. Ord(now.state, now.height, now.cancel_expiration_time, L, G, b, q, tip)
      BY <3>1, <3>2
    <3> QED
      BY <2>11, <3>2, <3>3 DEF now, L, b, q, G
  <2>14. CASE k = "cancel"
    <3>0. k \in Cancel
      BY <2>14 DEF Cancel
    <3>1. Ord(5, IF s = 2 THEN h ELSE y, CancelTime["cancel"], K \cup {"cancel"}, G, a, r, tip)
      BY <1>1, <1>2, <1>3, <1>4, <2>4, <2>9, <2>10, <2>14, <3>0, OrdCancel
    <3>2. now.state = 5 /\ now.height = (IF s = 2 THEN h ELSE y) /\ now.cancel_expiration_time = CancelTime["cancel"]
          /\ L = K \cup {"cancel"} /\ b = a /\ q = r
      BY <2>6, <2>7, <2>8, <2>14, <3>0, StateIs DEF L, b, q
    <3>3. Ord(now.state, now.height, now.cancel_expiration_time, L, G, b, q, tip)
      BY <3>1, <3>2
    <3> QED
      BY <2>11, <3>2, <3>3 DEF now, L, b, q, G
  <2>15. CASE k = "recancel"
    <3>0. k \in Cancel /\ "cancel" \in K
      BY <2>3, <2>15 DEF Cancel, Allowed
    <3>1. Ord(5, IF s = 2 THEN h ELSE y, CancelTime["recancel"], K \cup {"recancel"}, G, a, r, tip)
      BY <1>1, <1>2, <1>3, <1>4, <2>9, <2>10, <3>0, OrdRecancel
    <3>2. now.state = 5 /\ now.height = (IF s = 2 THEN h ELSE y) /\ now.cancel_expiration_time = CancelTime["recancel"]
          /\ L = K \cup {"recancel"} /\ b = a /\ q = r
      BY <2>6, <2>7, <2>8, <2>15, <3>0, StateIs DEF L, b, q
    <3>3. Ord(now.state, now.height, now.cancel_expiration_time, L, G, b, q, tip)
      BY <3>1, <3>2
    <3> QED
      BY <2>11, <3>2, <3>3 DEF now, L, b, q, G
  <2>16. CASE k \in Release
    <3>0. k \notin Cancel /\ k # "accept"
      BY <2>16, KindFacts
    <3>1. Ord(StateOf(k), h, x, K \cup {k}, G, a, IF k = "release_cancel" THEN h ELSE r, tip)
      BY <1>1, <1>2, <1>3, <1>4, <2>3, <2>8, <2>9, <2>16, OrdRelease
    <3>2. now.state = StateOf(k) /\ now.height = h /\ now.cancel_expiration_time = x
          /\ L = K \cup {k} /\ b = a /\ q = (IF k = "release_cancel" THEN h ELSE r)
      BY <2>6, <2>7, <2>8, <3>0 DEF L, b, q
    <3>3. Ord(now.state, now.height, now.cancel_expiration_time, L, G, b, q, tip)
      BY <3>1, <3>2
    <3> QED
      BY <2>11, <3>2, <3>3 DEF now, L, b, q, G
  <2> QED
    BY <2>12, <2>13, <2>14, <2>15, <2>16, KindFacts DEF Cancel
<1> QED
  BY <1>7, <1>8, ViewFound

LEMMA OrderedStep ==
  ASSUME TypeInv, WalletInv, NEW found \in SUBSET Tx, NEW dropped \in SUBSET Tx, NEW h, WalletStep(found, dropped, h),
         NEW c \in Contract, c \notin overtaken', TypeInv', Disjoint'
  PROVE  OrderedAt(c)'
<1> DEFINE now == Now(found, h, c)
           new == m_contracts'[c]
           L == KindsOf(c, SeenTxs')
           G == KindsOf(c, gone)
           H == KindsOf(c, gone')
           b == mined'[Accept(c)]
           q == mined'[Cancelled(c)]
           s == now.state
           y == now.height
           x == now.cancel_expiration_time
<1>1. /\ Ord(s, y, x, L, G, b, q, tip) /\ y <= height'
      /\ now = m_contracts[c] \/ ~(s = 6 /\ y = 0 /\ h # 0)
  BY OrdNow
<1>2. /\ new.height = y /\ new.cancel_expiration_time = x
      /\ new.state = IF h # 0 /\ Lapses(now) THEN 2 ELSE s
      /\ now \in Con
  BY StepState
<1>3. s \in Nat /\ y \in Nat /\ x \in Nat
  <2> HIDE DEF now
  <2>1. s \in 0..6 /\ y \in 0..MaxHeight /\ x \in CancelTimes
    BY <1>2 DEF Con
  <2> HIDE DEF s, x, y
  <2> QED
    BY <2>1, Numbers
<1>4. b \in Nat /\ q \in Nat
  <2>1. Accept(c) \in Tx /\ Cancelled(c) \in Tx
    BY KindFacts
  <2>2. \A t \in Tx : mined'[t] \in 0..MaxHeight
    BY DEF TypeInv
  <2>3. b \in 0..MaxHeight /\ q \in 0..MaxHeight
    BY <2>1, <2>2
  <2> HIDE DEF b, q
  <2> QED
    BY <2>3, Numbers
<1>5. G \subseteq H
  BY ViewKinds
<1>6. tip \in Nat /\ tip' \in Nat /\ tip <= tip'
  <2>1. tip \in Nat /\ (tip' = tip \/ tip' = tip + 1)
    BY Elements DEF WalletStep
  <2> QED
    BY <2>1
<1>7. Lapses(now) => x <= tip /\ (s = 5 \/ (s = 6 /\ y = 0))
  BY DEF Lapses, Expired, median
<1>8. h # 0 /\ Lapses(now) /\ s = 6 => "release_cancel" \in H
  <2>1. SUFFICES ASSUME h # 0, Lapses(now), s = 6 PROVE "release_cancel" \in H
    OBVIOUS
  <2>2. now = m_contracts[c] /\ y = 0
    BY <1>1, <1>7, <2>1
  <2>3. c \notin overtaken
    BY InOrder
  <2>4. OrderedAt(c)
    BY <2>3 DEF WalletInv, Ordered
  <2>5. "release_cancel" \in KindsOf(c, SeenTxs) /\ mined[Cancelled(c)] = 0
    BY <2>1, <2>2, <2>4 DEF OrderedAt, Ord
  <2>6. Cancelled(c) \in Tx /\ Cancelled(c)[1] = c /\ Cancelled(c)[2] = "release_cancel" /\ "release_cancel" \in Kind
    BY KindFacts, KindsAre DEF Cancelled
  <2>7. Cancelled(c) \in m_unconfirmed_txs \/ Cancelled(c) \in gone
    BY <2>5, <2>6 DEF KindsOf, SeenTxs, Cancelled
  <2>8. is_tx_expired(Cancelled(c))
    <3>1. get_tx_expiration_time(Cancelled(c)) = m_contracts[c].cancel_expiration_time
      BY <2>6 DEF get_tx_expiration_time
    <3>2. Expired(m_contracts[c].cancel_expiration_time)
      BY <2>1, <2>2 DEF Lapses
    <3> QED
      BY <3>1, <3>2 DEF is_tx_expired
  <2>9. Cancelled(c) \notin found
    BY <2>8 DEF WalletStep
  <2>10. Cancelled(c) \in gone'
    <3>1. \A t \in m_unconfirmed_txs \ found : is_tx_expired(t) => t \in dropped
      BY <2>1 DEF WalletStep
    <3>2. gone' = gone \cup dropped
      BY DEF WalletStep
    <3> QED
      BY <2>7, <2>8, <2>9, <3>1, <3>2
  <2> QED
    BY <2>6, <2>10 DEF KindsOf, Cancelled
<1> HIDE DEF now, L, G, H, b, q, s, x, y
<1>9. Ord(s, y, x, L, H, b, q, tip)
  BY <1>1, <1>3, <1>4, <1>5, <1>6, OrdLater
<1>10. h # 0 /\ Lapses(now) => Ord(2, y, x, L, H, b, q, tip)
  BY <1>3, <1>4, <1>6, <1>7, <1>8, <1>9, OrdExpire
<1>11. Ord(new.state, new.height, new.cancel_expiration_time, L, H, b, q, tip)
  BY <1>2, <1>9, <1>10
<1>12. new.state \in Nat /\ new.height \in Nat /\ new.cancel_expiration_time \in Nat
  BY <1>2, <1>3
<1> HIDE DEF new
<1>13. Ord(new.state, new.height, new.cancel_expiration_time, L, H, b, q, tip')
  <2>1. H \subseteq H
    OBVIOUS
  <2> QED
    BY <1>4, <1>6, <1>11, <1>12, <2>1, OrdLater
<1> QED
  BY <1>1, <1>2, <1>13 DEF OrderedAt, new, L, H, b, q, y

LEMMA WalletInvMoves ==
  ASSUME TypeInv, WalletInv, TypeInv', NEW found \in SUBSET Tx, NEW dropped \in SUBSET Tx, NEW h, WalletStep(found, dropped, h)
  PROVE  WalletInv'
<1>1. Disjoint /\ Preceded /\ Exists /\ Low
  BY DEF WalletInv
<1>2. Disjoint'
  BY <1>1, DisjointStep
<1>3. Preceded'
  BY <1>1, PrecededStep
<1>4. Exists'
  BY <1>1, ExistsStep
<1>5. Low'
  BY <1>1, LowStep
<1>6. ASSUME NEW c \in Contract, c \notin overtaken' PROVE OrderedAt(c)'
  BY <1>2, <1>6, OrderedStep
<1>7. Ordered'
  BY <1>6 DEF Ordered
<1> QED
  BY <1>2, <1>3, <1>4, <1>5, <1>7 DEF WalletInv

LEMMA WalletInvStays ==
  ASSUME TypeInv, WalletInv, UNCHANGED walletVars, tip' \in Nat, tip <= tip'
  PROVE  WalletInv'
<1>1. UNCHANGED <<m_contracts, m_unconfirmed_txs, mined, gone, height, overtaken>>
  BY DEF walletVars
<1>2. SeenTxs' = SeenTxs
  BY <1>1 DEF SeenTxs
<1>3. Disjoint'
  BY <1>1 DEF WalletInv, Disjoint
<1>4. Preceded' /\ Exists' /\ Low'
  BY <1>1, <1>2 DEF WalletInv, Preceded, Exists, Low
<1>5. ASSUME NEW c \in Contract, c \notin overtaken' PROVE OrderedAt(c)'
  <2> DEFINE s == m_contracts[c].state
             y == m_contracts[c].height
             x == m_contracts[c].cancel_expiration_time
             K == KindsOf(c, SeenTxs)
             G == KindsOf(c, gone)
             a == mined[Accept(c)]
             r == mined[Cancelled(c)]
  <2>1. OrderedAt(c)
    BY <1>1, <1>5 DEF WalletInv, Ordered
  <2>2. s \in 0..6 /\ y \in 0..MaxHeight /\ x \in CancelTimes
    BY Elements DEF Con
  <2>3. a \in Nat /\ r \in Nat
    BY RootedIs DEF WalletInv
  <2>4. Ord(s, y, x, K, G, a, r, tip) /\ y <= height
    BY <2>1 DEF OrderedAt
  <2>5. tip \in Nat
    BY Elements
  <2> HIDE DEF s, y, x, K, G, a, r
  <2>6. s \in Nat /\ y \in Nat /\ x \in Nat /\ G \subseteq G
    BY <2>2, Numbers
  <2>7. Ord(s, y, x, K, G, a, r, tip')
    BY <2>3, <2>4, <2>5, <2>6, OrdLater
  <2> QED
    BY <1>1, <1>2, <2>4, <2>7 DEF OrderedAt, s, y, x, K, G, a, r
<1>6. Ordered'
  BY <1>5 DEF Ordered
<1> QED
  BY <1>3, <1>4, <1>6 DEF WalletInv

\* the wallet's variables change only when the wallet moves
LEMMA WalletStays ==
  ASSUME TypeInv, CallInv, [Next]_vars
  PROVE  WalletMoves \/ (UNCHANGED walletVars /\ tip' \in Nat /\ tip <= tip' /\ (tip' = tip \/ DaemonBlock))
<1>0. tip \in Nat
  BY Elements
<1>1. CASE Wallet
  <2>1. CASE DaemonBlock
    <3>1. UNCHANGED walletVars /\ tip' = tip + 1
      BY <2>1 DEF DaemonBlock
    <3> QED
      BY <1>0, <2>1, <3>1
  <2> QED
    BY <1>1, <2>1, MovesOf
<1>2. CASE send
  BY <1>0, <1>2, MovesOf
<1>3. CASE UNCHANGED <<tip, walletVars>>
  BY <1>0, <1>3
<1>4. [Next]_vars => Wallet \/ send \/ UNCHANGED <<tip, walletVars>>
  BY DEF Next, vars, Deliver, Backend, User, money_transfer, money_transfer_cancel,
         update_daemon_state, mining_transfer, prepareContractsAfterOpen, wallet_closed, get_contracts, run_wallet,
         close_wallet, SignalDaemonState, SignalMining, openWallet, closeWallet, purchaseCall,
         ignoredContract, dealsDetailsDontCanceling, Ignore, intervalUpdateContractsState
<1> QED
  BY <1>1, <1>2, <1>3, <1>4

LEMMA WalletInvStep ==
  ASSUME TypeInv, CallInv, WalletInv, [Next]_vars
  PROVE  WalletInv'
<1>1. TypeInv'
  BY TypeStep
<1>2. CASE WalletMoves
  <2>1. PICK found, dropped \in SUBSET Tx, h \in 0..MaxHeight : WalletStep(found, dropped, h)
    BY <1>2 DEF WalletMoves
  <2> QED
    BY <1>1, <2>1, WalletInvMoves
<1> QED
  BY <1>2, WalletStays, WalletInvStays

LEMMA WalletInvInit == Init => WalletInv
<1>1. SUFFICES ASSUME Init PROVE WalletInv
  OBVIOUS
<1>2. /\ tip = 0 /\ height = 0 /\ m_unconfirmed_txs = {} /\ gone = {}
      /\ m_contracts = [c \in Contract |-> NoContract] /\ mined = [t \in Tx |-> 0]
  BY <1>1 DEF Init, EscrowInit
<1>3. SeenTxs = {} /\ \A c : KindsOf(c, SeenTxs) = {} /\ KindsOf(c, gone) = {}
  BY <1>2 DEF SeenTxs, KindsOf
<1>4. Disjoint
  BY <1>2 DEF Disjoint
<1>5. Preceded
  BY <1>3 DEF Preceded, Pre
<1>6. Exists
  BY <1>2, <1>3 DEF Exists
<1>7. \A c \in Contract : /\ m_contracts[c].state = 0 /\ m_contracts[c].height = 0
                          /\ m_contracts[c].cancel_expiration_time = 0
  BY <1>2 DEF NoContract
<1>8. Low
  BY <1>7 DEF Low
<1>9. ASSUME NEW c \in Contract PROVE OrderedAt(c)
  <2>1. mined[Accept(c)] = 0 /\ mined[Cancelled(c)] = 0
    BY <1>2, KindFacts
  <2>2. Ord(0, 0, 0, {}, {}, 0, 0, 0)
    BY DEF Ord
  <2> QED
    BY <1>2, <1>3, <1>7, <2>1, <2>2 DEF OrderedAt
<1> QED
  BY <1>4, <1>5, <1>6, <1>8, <1>9 DEF WalletInv, Ordered

=============================================================================
