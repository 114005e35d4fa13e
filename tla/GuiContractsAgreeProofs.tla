---------------------- MODULE GuiContractsAgreeProofs ----------------------
(***************************************************************************)
(* The list of the GUI agrees with the wallet, for any set of contracts,   *)
(* any times and any number of confirmations: every contract is listed     *)
(* once, in a state that stands for the wallet's (ContractsAgree), what    *)
(* the page offers the wallet obeys (OffersSound), and a contract shown as *)
(* started or cancelled is confirmed (StartedIsConfirmed).                 *)
(*                                                                         *)
(* The argument follows the signals on their way.  A signal is a first one *)
(* (NewAt) when its transaction is neither in the history nor in a signal  *)
(* before it; the GUI takes over the state of the first ones only.  The    *)
(* last first signal, or when there is none the entry of the list or the   *)
(* answer to getContracts, carries a state that fits the wallet's          *)
(* (LastInv); heights are carried along so that the confirmations are      *)
(* counted from the right block (CarriedInv).                              *)
(***************************************************************************)
EXTENDS GuiContractsProofs

-----------------------------------------------------------------------------
(* The signals as a set, and the steps as the queue sees them.             *)

Elems(q) == {q[i] : i \in 1..Len(q)}
Money(e) == e.type = "money_transfer"
Dropping(e) == e.type = "money_transfer_cancel"
Answer(e) == e.type = "contracts"

LEMMA ElemsTail ==
  ASSUME NEW q \in Seq(Signal), q # << >>
  PROVE  /\ Elems(q) = {q[1]} \cup Elems(Tail(q)) /\ Elems(Tail(q)) \subseteq Elems(q) /\ q[1] \in Elems(q)
         /\ Elems(q) \subseteq Signal
<1>1. ASSUME NEW e \in Elems(Tail(q)) PROVE e \in Elems(q)
  BY TailIs DEF Elems
<1>2. q[1] \in Elems(q)
  <2>1. 1 \in 1..Len(q)
    BY TailIs
  <2> QED
    BY <2>1 DEF Elems
<1>3. ASSUME NEW e \in Elems(q), e # q[1] PROVE e \in Elems(Tail(q))
  BY <1>3, TailIs DEF Elems
<1>4. Elems(q) \subseteq Signal
  BY DEF Elems
<1> QED
  BY <1>1, <1>2, <1>3, <1>4

LEMMA ElemsAppend ==
  ASSUME NEW q \in Seq(Signal), NEW s \in Signal
  PROVE  Elems(Append(q, s)) = Elems(q) \cup {s}
<1>1. ASSUME NEW e \in Elems(q) PROVE e \in Elems(Append(q, s))
  BY AppendIs DEF Elems
<1>2. s \in Elems(Append(q, s))
  BY AppendIs DEF Elems
<1>3. ASSUME NEW e \in Elems(Append(q, s)) PROVE e \in Elems(q) \cup {s}
  BY AppendIs DEF Elems
<1> QED
  BY <1>1, <1>2, <1>3

LEMMA HasElem ==
  ASSUME NEW q \in Seq(Signal), NEW T
  PROVE  HasType(q, T) <=> \E e \in Elems(q) : e.type \in T
  BY DEF HasType, Elems

\* a step that leaves the wallet, the history and the phase alone; the entries
\* at most move from one state of the GUI to another
Same ==
  /\ UNCHANGED walletVars /\ history' = history /\ phase' = phase
  /\ ListEvolved(contracts, contracts', height_app')
  /\ calls' = Asking <=> calls = Asking
QuietTail == /\ signals # << >> /\ signals' = Tail(signals) /\ Same
             /\ signals[1].type \in {"update_daemon_state", "mining_transfer"}
QuietAppend == /\ \E s \in Signal : /\ s.type \in {"closed", "update_daemon_state", "mining_transfer"}
                                    /\ signals' = Append(signals, s)
               /\ Same
Silent == signals' = signals /\ Same

LEMMA StepKinds ==
  ASSUME TypeInv, CallInv, [Next]_vars
  PROVE  \/ WalletMoves \/ money_transfer \/ money_transfer_cancel \/ prepareContractsAfterOpen
         \/ wallet_closed \/ get_contracts \/ openWallet
         \/ QuietTail \/ QuietAppend \/ Silent
<1>0. contracts' = contracts => ListEvolved(contracts, contracts', height_app')
  BY StaysEvolved
<1>1. CASE update_daemon_state
  <2>1. signals # << >> /\ signals' = Tail(signals) /\ signals[1].type = "update_daemon_state"
    BY <1>1, ReceiveIs DEF update_daemon_state
  <2>2. UNCHANGED <<walletVars, history, phase, calls>>
    BY <1>1 DEF update_daemon_state
  <2>3. ListEvolved(contracts, contracts', height_app')
    BY <1>1, UpdateSteps
  <2> QED
    BY <2>1, <2>2, <2>3 DEF QuietTail, Same
<1>2. CASE mining_transfer
  <2>1. signals # << >> /\ signals' = Tail(signals) /\ signals[1].type = "mining_transfer"
    BY <1>2, ReceiveIs DEF mining_transfer
  <2>2. UNCHANGED <<walletVars, history, phase, calls>>
    BY <1>2 DEF mining_transfer
  <2>3. ListEvolved(contracts, contracts', height_app')
    BY <1>2, MiningSteps
  <2> QED
    BY <2>1, <2>2, <2>3 DEF QuietTail, Same
<1>3. CASE close_wallet
  <2>1. calls = Closing /\ calls' = << >> /\ signals' = Append(signals, [type |-> "closed"])
        /\ UNCHANGED <<walletVars, history, phase, contracts>>
    BY <1>3, CallIs DEF close_wallet, guiIdle
  <2>2. [type |-> "closed"] \in Signal
    BY OtherSignalsAre
  <2> QED
    BY <1>0, <2>1, <2>2, CallsDiffer DEF QuietAppend, Same
<1>4. CASE SignalDaemonState
  <2> DEFINE s == [type |-> "update_daemon_state", median |-> median, height |-> tip]
  <2>1. signals' = Append(signals, s) /\ UNCHANGED <<walletVars, history, phase, contracts, calls>>
    BY <1>4 DEF SignalDaemonState, guiVars
  <2>2. s \in Signal /\ s.type = "update_daemon_state"
    BY OtherSignalsAre
  <2> HIDE DEF s
  <2> QED
    BY <1>0, <2>1, <2>2 DEF QuietAppend, Same
<1>5. CASE SignalMining
  <2>1. signals' = Append(signals, [type |-> "mining_transfer"]) /\ UNCHANGED <<walletVars, history, phase, contracts, calls>>
    BY <1>5 DEF SignalMining, guiVars
  <2>2. [type |-> "mining_transfer"] \in Signal
    BY OtherSignalsAre
  <2> QED
    BY <1>0, <2>1, <2>2 DEF QuietAppend, Same
<1>6. CASE run_wallet
  <2>1. calls = Starting /\ calls' = << >> /\ UNCHANGED <<signals, walletVars, history, phase, contracts>>
    BY <1>6, CallIs DEF run_wallet, guiIdle
  <2> QED
    BY <1>0, <2>1, CallsDiffer DEF Silent, Same
<1>7. CASE send
  <2>1. CASE calls' = << >> /\ (\E t \in Tx : calls = Sending(t)) /\ UNCHANGED <<tip, walletVars, signals, running, guiIdle>>
    BY <1>0, <2>1, CallsDiffer DEF guiIdle, Silent, Same
  <2> QED
    BY <1>7, <2>1, MovesOf
<1>8. CASE Wallet
  <2>1. CASE DaemonBlock /\ UNCHANGED guiVars
    BY <1>0, <2>1 DEF DaemonBlock, guiVars, Silent, Same
  <2> QED
    BY <1>8, <2>1, MovesOf
<1>9. CASE closeWallet
  <2>1. calls = << >> /\ calls' = Closing /\ UNCHANGED <<signals, walletVars, history, phase, contracts>>
    BY <1>9 DEF closeWallet, Closing
  <2> QED
    BY <1>0, <2>1, CallsDiffer DEF Silent, Same
<1>10. CASE purchaseCall
  <2>1. calls = << >> /\ (\E t : calls' = Sending(t)) /\ UNCHANGED <<signals, walletVars, history, phase, contracts>>
    BY <1>10 DEF purchaseCall, Sending
  <2>2. calls' # Asking
    BY <2>1, CallsDiffer
  <2> QED
    BY <1>0, <2>1, <2>2, CallsDiffer DEF Silent, Same
<1>11. CASE ignoredContract \/ dealsDetailsDontCanceling
  <2>1. UNCHANGED <<signals, walletVars, history, phase, calls>>
    BY <1>11 DEF ignoredContract, dealsDetailsDontCanceling, Ignore
  <2> QED
    BY <1>11, <2>1, IgnoreSteps DEF Silent, Same
<1>12. CASE intervalUpdateContractsState
  <2>1. UNCHANGED <<signals, walletVars, history, phase, calls>>
    BY <1>12 DEF intervalUpdateContractsState
  <2> QED
    BY <1>12, <2>1, IntervalSteps DEF Silent, Same
<1>13. CASE UNCHANGED vars
  BY <1>0, <1>13 DEF vars, guiVars, Silent, Same
<1> QED
  BY <1>1, <1>2, <1>3, <1>4, <1>5, <1>6, <1>7, <1>8, <1>9, <1>10, <1>11, <1>12, <1>13 DEF Next, Deliver, Backend, User

\* the signals that a step of the wallet adds
LEMMA MovesElems ==
  ASSUME TypeInv, NEW found \in SUBSET Tx, NEW dropped \in SUBSET Tx, NEW h, WalletStep(found, dropped, h)
  PROVE  Elems(signals') = Elems(signals) \cup {money_transfer_signal(t, h) : t \in found}
                                          \cup {money_transfer_cancel_signal(t) : t \in dropped}
<1> DEFINE q == WithMoney(signals, found, h)
<1>1. h \in 0..MaxHeight /\ AtMostOne(found) /\ AtMostOne(dropped) /\ signals \in Seq(Signal)
  BY DEF WalletStep, TypeInv
<1>2. q \in Seq(Signal) /\ signals' = WithCancel(q, dropped)
  BY StepSignals
<1>3. Elems(q) = Elems(signals) \cup {money_transfer_signal(t, h) : t \in found}
  <2>1. CASE found = {}
    BY <2>1 DEF WithMoney
  <2>2. CASE \E t \in Tx : found = {t}
    <3>1. PICK t \in Tx : found = {t}
      BY <2>2
    <3>2. q = Append(signals, money_transfer_signal(t, h)) /\ money_transfer_signal(t, h) \in Signal
      BY <1>1, <3>1, TheOnlyIs, MoneySignalIs DEF WithMoney
    <3>3. Elems(q) = Elems(signals) \cup {money_transfer_signal(t, h)}
      BY <1>1, <3>2, ElemsAppend
    <3> QED
      BY <3>1, <3>3
  <2> QED
    BY <1>1, <2>1, <2>2 DEF AtMostOne
<1> HIDE DEF q
<1>4. Elems(signals') = Elems(q) \cup {money_transfer_cancel_signal(t) : t \in dropped}
  <2>1. CASE dropped = {}
    BY <1>2, <2>1 DEF WithCancel
  <2>2. CASE \E t \in Tx : dropped = {t}
    <3>1. PICK t \in Tx : dropped = {t}
      BY <2>2
    <3>2. signals' = Append(q, money_transfer_cancel_signal(t)) /\ money_transfer_cancel_signal(t) \in Signal
      BY <1>2, <3>1, TheOnlyIs, CancelSignalIs DEF WithCancel
    <3>3. Elems(signals') = Elems(q) \cup {money_transfer_cancel_signal(t)}
      BY <1>2, <3>2, ElemsAppend
    <3> QED
      BY <3>1, <3>3
  <2> QED
    BY <1>1, <2>1, <2>2 DEF AtMostOne
<1> QED
  BY <1>3, <1>4

\* an added signal is one of a transaction found or dropped
LEMMA MovesElem ==
  ASSUME TypeInv, NEW found \in SUBSET Tx, NEW dropped \in SUBSET Tx, NEW h, WalletStep(found, dropped, h),
         NEW e \in Elems(signals'), e \notin Elems(signals)
  PROVE  \/ Money(e) /\ e.tx \in found /\ e = money_transfer_signal(e.tx, h)
         \/ Dropping(e) /\ e.tx \in dropped
<1>1. h \in 0..MaxHeight
  BY DEF WalletStep
<1>2. CASE \E t \in found : e = money_transfer_signal(t, h)
  BY <1>1, <1>2, MoneySignalIs DEF Money
<1>3. CASE \E t \in dropped : e = money_transfer_cancel_signal(t)
  BY <1>3, CancelSignalIs DEF Dropping
<1> QED
  BY <1>2, <1>3, MovesElems

LEMMA TipGrows ==
  ASSUME TypeInv, CallInv, [Next]_vars
  PROVE  tip \in Nat /\ tip' \in Nat /\ tip <= tip'
<1>1. tip \in Nat
  BY Elements
<1>2. CASE WalletMoves
  <2>1. PICK found, dropped \in SUBSET Tx, h \in 0..MaxHeight : WalletStep(found, dropped, h)
    BY <1>2 DEF WalletMoves
  <2>2. tip' = tip \/ tip' = tip + 1
    BY <2>1 DEF WalletStep
  <2> QED
    BY <1>1, <2>2
<1> QED
  BY <1>1, <1>2, WalletStays

-----------------------------------------------------------------------------
(* The heights that the GUI knows only grow.                               *)

HeightInv ==
  /\ height_app <= tip
  /\ \A e \in Elems(signals) : e.type \in State => height_app <= e.height /\ e.height <= tip

LEMMA HeightStep ==
  ASSUME TypeInv, CallInv, SessionInv, HeightInv, [Next]_vars
  PROVE  HeightInv' /\ height_app <= height_app' /\ height_app \in Nat /\ height_app' \in Nat
<1>0. /\ signals \in Seq(Signal) /\ height_app \in Nat /\ tip \in Nat /\ tip' \in Nat /\ tip <= tip'
      /\ \A e \in Elems(signals) : e.type \in State => e.height \in Nat
  <2>1. \A e \in Elems(signals) : e \in Signal
    BY DEF TypeInv, Elems
  <2>2. \A e \in Elems(signals) : e.type \in State => e.height \in Nat
    BY <2>1, SignalFields, Numbers DEF State
  <2> QED
    BY <2>2, TipGrows, Numbers DEF TypeInv
<1>1. ASSUME height_app' = height_app,
             \A e \in Elems(signals') : e.type \in State => e \in Elems(signals)
      PROVE  HeightInv' /\ height_app <= height_app' /\ height_app' \in Nat
  BY <1>0, <1>1 DEF HeightInv
<1>2. CASE WalletMoves
  <2>1. PICK found, dropped \in SUBSET Tx, h \in 0..MaxHeight : WalletStep(found, dropped, h)
    BY <1>2 DEF WalletMoves
  <2>2. \A e \in Elems(signals') : e.type \in State => e \in Elems(signals)
    BY <2>1, MovesElem DEF Money, Dropping, State
  <2>3. height_app' = height_app
    BY <1>2 DEF WalletMoves
  <2> QED
    BY <1>0, <1>1, <2>2, <2>3
<1>3. CASE update_daemon_state
  <2>1. signals # << >> /\ signals' = Tail(signals) /\ signals[1].type \in State /\ height_app' = signals[1].height
    BY <1>3, ReceiveIs DEF update_daemon_state, State
  <2>2. signals[1] \in Elems(signals)
    BY <1>0, <2>1, ElemsTail
  <2>3. height_app <= height_app' /\ height_app' <= tip /\ height_app' \in Nat
    BY <1>0, <2>1, <2>2 DEF HeightInv
  <2>4. ~HasType(signals', State)
    BY <1>0, <2>1, ShapeTail DEF SessionInv
  <2>5. signals' \in Seq(Signal)
    BY <1>0, <2>1, TailIs
  <2>6. \A e \in Elems(signals') : e.type \notin State
    BY <2>4, <2>5, HasElem
  <2> QED
    BY <1>0, <2>3, <2>6 DEF HeightInv
<1>4. CASE Deliver /\ ~update_daemon_state
  <2>1. signals # << >> /\ signals' = Tail(signals)
    BY <1>4 DEF Deliver, Receive, money_transfer, money_transfer_cancel, mining_transfer, prepareContractsAfterOpen, wallet_closed
  <2>2. height_app' = height_app
    BY <1>4 DEF Deliver, money_transfer, money_transfer_cancel, mining_transfer, prepareContractsAfterOpen, wallet_closed
  <2>3. Elems(signals') \subseteq Elems(signals)
    BY <1>0, <2>1, ElemsTail
  <2> QED
    BY <1>0, <1>1, <2>2, <2>3
<1>5. CASE SignalDaemonState
  <2> DEFINE s == [type |-> "update_daemon_state", median |-> median, height |-> tip]
  <2>1. signals' = Append(signals, s) /\ height_app' = height_app /\ tip' = tip
    BY <1>5 DEF SignalDaemonState, guiVars
  <2>2. s \in Signal /\ s.height = tip
    BY OtherSignalsAre
  <2> HIDE DEF s
  <2>3. Elems(signals') = Elems(signals) \cup {s}
    BY <1>0, <2>1, <2>2, ElemsAppend
  <2> QED
    BY <1>0, <2>1, <2>2, <2>3 DEF HeightInv
<1>6. CASE get_contracts \/ close_wallet \/ SignalMining
  <2>1. PICK s \in Signal : signals' = Append(signals, s) /\ s.type \notin State
    <3>1. CASE get_contracts
      BY <3>1, OtherSignalsAre DEF get_contracts, State
    <3>2. CASE close_wallet
      BY <3>2, OtherSignalsAre DEF close_wallet, State
    <3>3. CASE SignalMining
      <4>1. signals' = Append(signals, [type |-> "mining_transfer"])
        BY <3>3 DEF SignalMining
      <4> QED
        BY <4>1, OtherSignalsAre DEF State
    <3> QED
      BY <1>6, <3>1, <3>2, <3>3
  <2>2. height_app' = height_app
    BY <1>6 DEF get_contracts, close_wallet, SignalMining, guiIdle, guiVars
  <2>3. Elems(signals') = Elems(signals) \cup {s}
    BY <1>0, <2>1, ElemsAppend
  <2> QED
    BY <1>0, <1>1, <2>1, <2>2, <2>3
<1>7. CASE UNCHANGED <<signals, height_app>>
  BY <1>0, <1>1, <1>7
<1>8. DaemonBlock /\ UNCHANGED guiVars => UNCHANGED <<signals, height_app>>
  BY DEF DaemonBlock, guiVars
<1>9. send => WalletMoves \/ UNCHANGED <<signals, height_app>>
  BY MovesOf DEF guiIdle
<1>10. run_wallet \/ User \/ intervalUpdateContractsState \/ UNCHANGED vars => UNCHANGED <<signals, height_app>>
  BY DEF run_wallet, User, openWallet, closeWallet, purchaseCall, ignoredContract, dealsDetailsDontCanceling, Ignore,
         intervalUpdateContractsState, vars, guiVars, guiIdle
<1> QED
  BY <1>0, <1>2, <1>3, <1>4, <1>5, <1>6, <1>7, <1>8, <1>9, <1>10, MovesOf DEF Next, Backend

-----------------------------------------------------------------------------
(* What is on its way, and what the history holds.                         *)

\* no signal of a transaction comes behind the one that it was dropped
NoneBehind(q) ==
  \A i, j \in 1..Len(q) : i < j /\ Dropping(q[i]) /\ Money(q[j]) => q[i].tx # q[j].tx

SeenSignals == \A e \in Elems(signals) : /\ Money(e) => e.tx \in SeenTxs
                                         /\ Dropping(e) => e.tx \in gone
Reported == phase = "open" =>
  \A t \in m_unconfirmed_txs : t \in history \/ \E e \in Elems(signals) : Money(e) /\ e.tx = t
Carrying(e) ==
  /\ e.contract # NoContract => e.contract.state = StateOf(e.tx[2])
  /\ e.tx[1] \notin overtaken \/ e.tx[2] = "proposal" => e.contract # NoContract
DeliveryInv ==
  /\ SeenSignals /\ NoneBehind(signals) /\ history \subseteq SeenTxs /\ Reported
  /\ \A e \in Elems(signals) : Money(e) => Carrying(e)

LEMMA BehindTail ==
  ASSUME NEW q \in Seq(Signal), q # << >>, NoneBehind(q)
  PROVE  /\ NoneBehind(Tail(q))
         /\ Dropping(q[1]) => \A e \in Elems(Tail(q)) : Money(e) => e.tx # q[1].tx
<1>1. \A i \in 1..Len(Tail(q)) : i \in Int /\ Tail(q)[i] = q[i + 1] /\ i + 1 \in 1..Len(q) /\ 1 < i + 1 /\ 1 \in 1..Len(q)
  BY TailIs
<1>2. NoneBehind(Tail(q))
  <2>1. SUFFICES ASSUME NEW i \in 1..Len(Tail(q)), NEW j \in 1..Len(Tail(q)), i < j,
                        Dropping(Tail(q)[i]), Money(Tail(q)[j])
                 PROVE  Tail(q)[i].tx # Tail(q)[j].tx
    BY DEF NoneBehind
  <2>2. i + 1 < j + 1
    BY <1>1, <2>1
  <2> QED
    BY <1>1, <2>1, <2>2 DEF NoneBehind
<1>3. ASSUME Dropping(q[1]), NEW e \in Elems(Tail(q)), Money(e) PROVE e.tx # q[1].tx
  <2>1. PICK i \in 1..Len(Tail(q)) : e = Tail(q)[i]
    BY DEF Elems
  <2> QED
    BY <1>1, <1>3, <2>1 DEF NoneBehind
<1> QED
  BY <1>2, <1>3

LEMMA BehindAppend ==
  ASSUME NEW q \in Seq(Signal), NEW s \in Signal, NoneBehind(q),
         Money(s) => \A e \in Elems(q) : Dropping(e) => e.tx # s.tx
  PROVE  NoneBehind(Append(q, s))
<1> DEFINE r == Append(q, s)
<1>1. SUFFICES ASSUME NEW i \in 1..Len(r), NEW j \in 1..Len(r), i < j, Dropping(r[i]), Money(r[j])
               PROVE  r[i].tx # r[j].tx
  BY DEF NoneBehind
<1>2. i \in 1..Len(q) /\ r[i] = q[i]
  BY <1>1, AppendIs
<1>3. (j \in 1..Len(q) /\ r[j] = q[j]) \/ r[j] = s
  BY AppendIs
<1>4. q[i] \in Elems(q)
  BY <1>2 DEF Elems
<1> HIDE DEF r
<1> QED
  BY <1>1, <1>2, <1>3, <1>4 DEF NoneBehind

LEMMA DeliveryMoves ==
  ASSUME TypeInv, WalletInv, DeliveryInv, WalletMoves
  PROVE  DeliveryInv'
<1>1. PICK found, dropped \in SUBSET Tx, h \in 0..MaxHeight : WalletStep(found, dropped, h)
  BY DEF WalletMoves
<1>2. history' = history /\ phase' = phase
  BY DEF WalletMoves
<1>3. SeenTxs' = SeenTxs \cup found /\ gone' = gone \cup dropped /\ overtaken \subseteq overtaken'
  BY <1>1, SeenStep DEF WalletStep, NoteOvertaken
<1>4. Elems(signals) \subseteq Elems(signals')
  BY <1>1, MovesElems
<1>5. SeenSignals'
  <2>1. SUFFICES ASSUME NEW e \in Elems(signals')
                 PROVE  (Money(e) => e.tx \in SeenTxs') /\ (Dropping(e) => e.tx \in gone')
    BY DEF SeenSignals
  <2>2. CASE e \in Elems(signals)
    BY <1>3, <2>2 DEF DeliveryInv, SeenSignals
  <2>3. CASE e \notin Elems(signals)
    BY <1>1, <1>3, <2>3, MovesElem DEF Money, Dropping
  <2> QED
    BY <2>2, <2>3
<1>6. history' \subseteq SeenTxs'
  BY <1>2, <1>3 DEF DeliveryInv
<1>7. Reported'
  <2>1. SUFFICES ASSUME phase' = "open", NEW t \in m_unconfirmed_txs'
                 PROVE  t \in history' \/ \E e \in Elems(signals') : Money(e) /\ e.tx = t
    BY DEF Reported
  <2>2. CASE t \in m_unconfirmed_txs
    BY <1>2, <1>4, <2>1, <2>2 DEF DeliveryInv, Reported
  <2>3. CASE t \notin m_unconfirmed_txs
    <3>1. t \in found /\ t \in Tx
      BY <1>1, <2>1, <2>3 DEF WalletStep
    <3>2. money_transfer_signal(t, h) \in Elems(signals')
      BY <1>1, <3>1, MovesElems
    <3> QED
      BY <3>1, <3>2, MoneySignalIs DEF Money
  <2> QED
    BY <2>2, <2>3
<1>8. ASSUME NEW t \in found
      PROVE  t \in Tx /\ t[1] \in Contract /\ t[2] \in Kind /\ t = <<t[1], t[2]>> /\ t \notin gone
  <2>1. t \in Tx /\ t[1] \in Contract /\ t[2] \in Kind /\ t = <<t[1], t[2]>>
    BY KindFacts
  <2>2. Mineable(t)
    BY <1>1 DEF WalletStep
  <2> QED
    BY <2>1, <2>2, FoundAllowed DEF WalletInv
<1>9. ASSUME NEW e \in Elems(signals'), Money(e) PROVE Carrying(e)'
  <2>1. CASE e \in Elems(signals)
    BY <1>3, <1>9, <2>1 DEF DeliveryInv, Carrying
  <2>2. CASE e \notin Elems(signals)
    <3> DEFINE t == e.tx
               con == m_contracts[t[1]]
    <3>1. t \in found /\ e = money_transfer_signal(t, h)
      BY <1>1, <1>9, <2>2, MovesElem DEF Money, Dropping
    <3>2. t \in Tx /\ t[1] \in Contract /\ t[2] \in Kind
      BY <1>8, <3>1
    <3>3. e.contract = IF Refused(con, t[2]) THEN NoContract ELSE process_contract_info(con, t[2], h)
      BY <3>1, <3>2, MoneySignalIs
    <3>4. Sound(con) /\ con \in Con
      BY <3>2, Elements
    <3>5. ~Refused(con, t[2]) => e.contract.state = StateOf(t[2]) /\ e.contract.state # 0
      BY <3>2, <3>3, <3>4, ProcessFields
    <3>6. Refused(con, t[2]) => t[1] \in overtaken' /\ t[2] # "proposal"
      <4>1. NoteOvertaken(found)
        BY <1>1 DEF WalletStep
      <4>2. Refused(con, t[2]) => t[1] \in overtaken'
        BY <3>1, <3>2, <4>1 DEF NoteOvertaken
      <4> QED
        BY <4>2, KindFacts DEF Refused
    <3> HIDE DEF t, con
    <3>7. Refused(con, t[2]) => e.contract = NoContract
      BY <3>3
    <3> QED
      BY <3>5, <3>6, <3>7, NoContractSound DEF Carrying, t
  <2> QED
    BY <2>1, <2>2
<1>10. NoneBehind(signals')
  <2> DEFINE q == WithMoney(signals, found, h)
             m == money_transfer_signal(TheOnly(found), h)
             x == money_transfer_cancel_signal(TheOnly(dropped))
  <2>1. q \in Seq(Signal) /\ signals' = WithCancel(q, dropped) /\ signals \in Seq(Signal)
    BY <1>1, StepSignals DEF TypeInv
  <2>2. found # {} => TheOnly(found) \in found
    BY <1>1, TheOnlyIs DEF WalletStep, AtMostOne
  <2>3. dropped # {} => TheOnly(dropped) \in dropped
    BY <1>1, TheOnlyIs DEF WalletStep, AtMostOne
  <2>4. found # {} => m \in Signal /\ m.tx \notin gone
    BY <1>8, <2>2, MoneySignalIs
  <2>5. dropped # {} => x \in Signal /\ ~Money(x)
    BY <2>3, CancelSignalIs DEF Money
  <2>6. q = IF found = {} THEN signals ELSE Append(signals, m)
    BY DEF WithMoney
  <2>7. signals' = IF dropped = {} THEN q ELSE Append(q, x)
    BY <2>1 DEF WithCancel
  <2> HIDE DEF q, m, x
  <2>8. NoneBehind(q)
    <3>1. CASE found = {}
      BY <2>6, <3>1 DEF DeliveryInv
    <3>2. CASE found # {}
      <4>1. \A e \in Elems(signals) : Dropping(e) => e.tx # m.tx
        BY <2>4, <3>2 DEF DeliveryInv, SeenSignals
      <4> QED
        BY <2>1, <2>4, <2>6, <3>2, <4>1, BehindAppend DEF DeliveryInv
    <3> QED
      BY <3>1, <3>2
  <2>9. CASE dropped = {}
    BY <2>7, <2>8, <2>9
  <2>10. CASE dropped # {}
    BY <2>1, <2>5, <2>7, <2>8, <2>10, BehindAppend
  <2> QED
    BY <2>9, <2>10
<1> QED
  BY <1>5, <1>6, <1>7, <1>9, <1>10 DEF DeliveryInv

\* steps that leave the wallet alone and add no signal of a transaction
LEMMA DeliveryStays ==
  ASSUME DeliveryInv, UNCHANGED walletVars, NoneBehind(signals'), history' \subseteq SeenTxs, Reported',
         \A e \in Elems(signals') : Money(e) \/ Dropping(e) => e \in Elems(signals)
  PROVE  DeliveryInv'
<1>1. UNCHANGED <<m_unconfirmed_txs, mined, gone, overtaken>>
  BY DEF walletVars
<1>2. SeenTxs' = SeenTxs
  BY <1>1 DEF SeenTxs
<1>3. SeenSignals'
  BY <1>1, <1>2 DEF DeliveryInv, SeenSignals
<1>4. \A e \in Elems(signals') : Money(e) => Carrying(e)'
  BY <1>1 DEF DeliveryInv, Carrying
<1> QED
  BY <1>2, <1>3, <1>4 DEF DeliveryInv

LEMMA DeliveryStep ==
  ASSUME TypeInv, CallInv, WalletInv, DeliveryInv, [Next]_vars
  PROVE  DeliveryInv'
<1>0. signals \in Seq(Signal)
  BY DEF TypeInv
<1>1. ASSUME signals # << >>, signals' = Tail(signals)
      PROVE  /\ NoneBehind(signals') /\ Elems(signals') \subseteq Elems(signals)
             /\ Elems(signals) = {signals[1]} \cup Elems(signals')
  BY <1>0, <1>1, BehindTail, ElemsTail DEF DeliveryInv
<1>2. ASSUME NEW s \in Signal, signals' = Append(signals, s), ~Money(s)
      PROVE  NoneBehind(signals') /\ Elems(signals') = Elems(signals) \cup {s}
  BY <1>0, <1>2, BehindAppend, ElemsAppend DEF DeliveryInv
<1>3. UNCHANGED walletVars => m_unconfirmed_txs' = m_unconfirmed_txs
  BY DEF walletVars
<1>4. CASE WalletMoves
  BY <1>4, DeliveryMoves
<1>5. CASE money_transfer
  <2> DEFINE t == Head(signals).tx
  <2>1. signals # << >> /\ signals' = Tail(signals) /\ signals[1].tx = t /\ Money(signals[1])
    BY <1>5, ReceiveIs DEF money_transfer, Money
  <2>2. UNCHANGED <<walletVars, phase>> /\ history' = history \cup {t}
    BY <1>5 DEF money_transfer
  <2> HIDE DEF t
  <2>3. t \in SeenTxs
    BY <1>0, <2>1, ElemsTail DEF DeliveryInv, SeenSignals
  <2>4. Reported'
    BY <1>1, <1>3, <2>1, <2>2 DEF DeliveryInv, Reported
  <2> QED
    BY <1>1, <2>1, <2>2, <2>3, <2>4, DeliveryStays DEF DeliveryInv
<1>6. CASE money_transfer_cancel
  <2> DEFINE t == Head(signals).tx
  <2>1. signals # << >> /\ signals' = Tail(signals) /\ signals[1].tx = t /\ Dropping(signals[1]) /\ ~Money(signals[1])
    BY <1>6, ReceiveIs DEF money_transfer_cancel, Dropping, Money
  <2>2. UNCHANGED <<walletVars, phase>> /\ history' \subseteq history /\ history \ {t} \subseteq history'
    BY <1>6 DEF money_transfer_cancel
  <2> HIDE DEF t
  <2>3. t \in gone
    BY <1>0, <2>1, ElemsTail DEF DeliveryInv, SeenSignals
  <2>4. t \notin m_unconfirmed_txs
    BY <2>3 DEF WalletInv, Disjoint, TypeInv
  <2>5. Reported'
    BY <1>1, <1>3, <2>1, <2>2, <2>4 DEF DeliveryInv, Reported
  <2> QED
    BY <1>1, <2>1, <2>2, <2>5, DeliveryStays DEF DeliveryInv
<1>7. CASE prepareContractsAfterOpen
  <2>1. signals # << >> /\ signals' = Tail(signals) /\ ~Money(signals[1])
    BY <1>7, ReceiveIs DEF prepareContractsAfterOpen, Money
  <2>2. UNCHANGED <<walletVars, phase, history>>
    BY <1>7 DEF prepareContractsAfterOpen
  <2>3. Reported'
    BY <1>1, <1>3, <2>1, <2>2 DEF DeliveryInv, Reported
  <2> QED
    BY <1>1, <2>1, <2>2, <2>3, DeliveryStays DEF DeliveryInv
<1>8. CASE wallet_closed
  <2>1. signals # << >> /\ signals' = Tail(signals)
    BY <1>8, ReceiveIs DEF wallet_closed
  <2>2. UNCHANGED walletVars /\ phase' = "closed" /\ history' = {}
    BY <1>8 DEF wallet_closed
  <2>3. Reported'
    BY <2>2 DEF Reported
  <2> QED
    BY <1>1, <2>1, <2>2, <2>3, DeliveryStays DEF DeliveryInv
<1>9. CASE get_contracts
  <2> DEFINE s == [type |-> "contracts", contracts |-> m_contracts]
  <2>1. signals' = Append(signals, s) /\ UNCHANGED <<walletVars, phase, history>>
    BY <1>9 DEF get_contracts, guiIdle
  <2>2. s \in Signal /\ ~Money(s) /\ ~Dropping(s)
    BY OtherSignalsAre DEF Money, Dropping
  <2> HIDE DEF s
  <2>3. Reported'
    BY <1>2, <1>3, <2>1, <2>2 DEF DeliveryInv, Reported
  <2> QED
    BY <1>2, <2>1, <2>2, <2>3, DeliveryStays DEF DeliveryInv
<1>10. CASE openWallet
  <2>1. UNCHANGED <<walletVars, signals>>
    BY <1>10 DEF openWallet
  <2>2. PICK low \in {1, height + 1} : history' = m_unconfirmed_txs \cup {t \in Tx : mined[t] >= low}
    BY <1>10 DEF openWallet
  <2>3. low \in Nat /\ low >= 1
    BY Elements
  <2>4. ASSUME NEW t \in Tx, mined[t] >= low PROVE mined[t] # 0
    BY <2>3, <2>4
  <2>5. history' \subseteq SeenTxs
    BY <2>2, <2>4 DEF SeenTxs, TypeInv
  <2>6. Reported'
    BY <1>3, <2>1, <2>2 DEF Reported
  <2> QED
    BY <2>1, <2>5, <2>6, DeliveryStays DEF DeliveryInv
<1>11. CASE QuietTail
  <2>1. signals # << >> /\ signals' = Tail(signals) /\ ~Money(signals[1]) /\ UNCHANGED <<walletVars, phase, history>>
    BY <1>11 DEF QuietTail, Same, Money
  <2>2. Reported'
    BY <1>1, <1>3, <2>1 DEF DeliveryInv, Reported
  <2> QED
    BY <1>1, <2>1, <2>2, DeliveryStays DEF DeliveryInv
<1>12. CASE QuietAppend
  <2>1. PICK s \in Signal : signals' = Append(signals, s) /\ ~Money(s) /\ ~Dropping(s)
    BY <1>12 DEF QuietAppend, Money, Dropping
  <2>2. UNCHANGED <<walletVars, phase, history>>
    BY <1>12 DEF QuietAppend, Same
  <2>3. Reported'
    BY <1>2, <1>3, <2>1, <2>2 DEF DeliveryInv, Reported
  <2> QED
    BY <1>2, <2>1, <2>2, <2>3, DeliveryStays DEF DeliveryInv
<1>13. CASE Silent
  <2>1. UNCHANGED <<signals, walletVars, phase, history>>
    BY <1>13 DEF Silent, Same
  <2>2. Reported'
    BY <1>3, <2>1 DEF DeliveryInv, Reported
  <2> QED
    BY <2>1, <2>2, DeliveryStays DEF DeliveryInv
<1> QED
  BY <1>4, <1>5, <1>6, <1>7, <1>8, <1>9, <1>10, <1>11, <1>12, <1>13, StepKinds

-----------------------------------------------------------------------------
(* Every contract of the wallet is in the list, in the answer to           *)
(* getContracts, or in a signal of its proposal.                           *)

Holds(L, c) == \E i \in 1..Len(L) : L[i].id = c
Got(q, c) == \E e \in Elems(q) : Answer(e) /\ e.contracts[c] # NoContract
Coming(q, H, c) == Proposal(c) \notin H /\ \E e \in Elems(q) : Money(e) /\ e.tx = Proposal(c)

PresentInv ==
  /\ \A c \in Contract : Holds(contracts, c) \/ Got(signals, c) => Proposal(c) \in SeenTxs
  /\ phase = "open" /\ calls # Asking =>
       \A c \in Contract : Proposal(c) \in SeenTxs =>
         Holds(contracts, c) \/ Got(signals, c) \/ Coming(signals, history, c)

LEMMA ListedHolds ==
  ASSUME TypeInv, NEW c
  PROVE  Listed(c) <=> Holds(contracts, c)
  BY Elements DEF Listed, Positions, Holds

LEMMA HoldsEvolved ==
  ASSUME NEW L \in Seq(Listing), NEW M, NEW h, ListEvolved(L, M, h), NEW c
  PROVE  Holds(M, c) <=> Holds(L, c)
  BY DEF ListEvolved, Evolved, Holds

\* a transaction is seen only after the proposal of its contract
LEMMA ProposalFirst ==
  ASSUME TypeInv, WalletInv, NEW t \in SeenTxs
  PROVE  Proposal(t[1]) \in SeenTxs /\ t[1] \in Contract
<1> DEFINE c == t[1]
           k == t[2]
           K == KindsOf(c, SeenTxs)
           a == mined[Accept(c)]
<1>1. c \in Contract /\ k \in Kind /\ t = <<c, k>>
  BY KindFacts DEF SeenTxs
<1>2. Pre(K, a) /\ (a # 0 => "accept" \in K)
  BY <1>1, RootedIs DEF WalletInv, Preceded, Rooted
<1>3. k \in K /\ K \subseteq Kind
  BY <1>1, KindsAre DEF KindsOf
<1>4. "proposal" \in K
  BY <1>2, <1>3, KindFacts DEF Pre
<1> QED
  BY <1>1, <1>4, KindsAre DEF Proposal

LEMMA PresentMoves ==
  ASSUME TypeInv, SessionInv, WalletInv, DeliveryInv, PresentInv, WalletMoves
  PROVE  PresentInv'
<1>1. PICK found, dropped \in SUBSET Tx, h \in 0..MaxHeight : WalletStep(found, dropped, h)
  BY DEF WalletMoves
<1>2. history' = history /\ phase' = phase /\ contracts' = contracts /\ calls # Asking /\ phase = "open"
  BY DEF WalletMoves, SessionInv
<1>3. SeenTxs' = SeenTxs \cup found
  BY <1>1, SeenStep
<1>4. Elems(signals) \subseteq Elems(signals')
  BY <1>1, MovesElems
<1>5. ASSUME NEW c \in Contract PROVE Got(signals', c) <=> Got(signals, c)
  BY <1>1, <1>4, MovesElem DEF Got, Money, Dropping, Answer
<1>6. ASSUME NEW c \in Contract, Proposal(c) \in SeenTxs'
      PROVE  Holds(contracts, c) \/ Got(signals, c) \/ Coming(signals', history', c)
  <2>1. CASE Proposal(c) \in SeenTxs
    BY <1>2, <1>4, <2>1 DEF PresentInv, Coming
  <2>2. CASE Proposal(c) \notin SeenTxs
    <3>1. Proposal(c) \in found /\ Proposal(c) \in Tx
      BY <1>3, <1>6, <2>2
    <3>2. money_transfer_signal(Proposal(c), h) \in Elems(signals')
      BY <1>1, <3>1, MovesElems
    <3>3. Proposal(c) \notin history'
      BY <1>2, <2>2 DEF DeliveryInv
    <3> QED
      BY <3>1, <3>2, <3>3, MoneySignalIs DEF Coming, Money
  <2> QED
    BY <2>1, <2>2
<1> QED
  BY <1>2, <1>3, <1>5, <1>6 DEF PresentInv

\* steps that leave the wallet, the list's contracts and the calls alone
LEMMA PresentStays ==
  ASSUME PresentInv, UNCHANGED walletVars, phase' = phase, calls' = Asking <=> calls = Asking,
         \A c \in Contract : Holds(contracts', c) <=> Holds(contracts, c),
         \A c \in Contract : Got(signals', c) <=> Got(signals, c),
         \A c \in Contract : Coming(signals, history, c) => Coming(signals', history', c)
  PROVE  PresentInv'
<1>1. SeenTxs' = SeenTxs
  BY DEF walletVars, SeenTxs
<1> QED
  BY <1>1 DEF PresentInv

LEMMA PresentMoney ==
  ASSUME TypeInv, CallInv, WalletInv, ListInv, DeliveryInv, PresentInv, money_transfer
  PROVE  PresentInv'
<1> DEFINE t == Head(signals).tx
           con == Head(signals).contract
<1>1. signals # << >> /\ signals' = Tail(signals) /\ signals[1] = Head(signals) /\ Money(signals[1]) /\ signals \in Seq(Signal)
  BY ReceiveIs DEF money_transfer, Money, TypeInv
<1>2. UNCHANGED <<walletVars, phase, calls>> /\ history' = history \cup {t}
  BY DEF money_transfer
<1>3. Elems(signals) = {signals[1]} \cup Elems(signals')
  BY <1>1, ElemsTail
<1>4. t \in SeenTxs /\ Carrying(signals[1])
  BY <1>1, <1>3 DEF DeliveryInv, SeenSignals
<1>5. SeenTxs' = SeenTxs
  BY <1>2 DEF walletVars, SeenTxs
<1>6. ASSUME NEW c \in Contract PROVE Got(signals', c) <=> Got(signals, c)
  BY <1>1, <1>3 DEF Got, Money, Answer
<1>7. ASSUME NEW c, Holds(contracts', c) PROVE Holds(contracts, c) \/ c = t[1]
  <2>1. CASE contracts' = contracts
    BY <1>7, <2>1
  <2>2. CASE /\ Len(contracts') = Len(contracts)
             /\ \A i \in 1..Len(contracts) : contracts'[i].id = t[1] \/ contracts'[i] = contracts[i]
    BY <1>7, <2>2 DEF Holds
  <2>3. CASE \E e \in Listing : contracts' = Append(contracts, e) /\ e.id = t[1]
    <3>1. PICK e \in Listing : contracts' = Append(contracts, e) /\ e.id = t[1]
      BY <2>3
    <3>2. contracts \in Seq(Listing)
      BY DEF TypeInv
    <3>3. PICK i \in 1..Len(contracts') : contracts'[i].id = c
      BY <1>7 DEF Holds
    <3>4. (i \in 1..Len(contracts) /\ contracts'[i] = contracts[i]) \/ contracts'[i] = e
      BY <3>1, <3>2, <3>3
    <3> QED
      BY <3>1, <3>3, <3>4 DEF Holds
  <2>4. \A s : Entry(t[1], con, s).id = t[1]
    BY DEF Entry
  <2> HIDE DEF t, con
  <2> QED
    BY <2>1, <2>2, <2>3, <2>4, MoneyList DEF t, con
<1>8. ASSUME NEW c, Holds(contracts, c) PROVE Holds(contracts', c)
  <2>1. PICK i \in 1..Len(contracts) : contracts[i].id = c
    BY <1>8 DEF Holds
  <2>2. contracts \in Seq(Listing)
    BY DEF TypeInv
  <2>3. c = t[1] \/ i # First(t[1]) \/ ~Listed(t[1])
    BY <2>1, PositionIs DEF ListInv
  <2>4. \A s : Entry(t[1], con, s).id = t[1]
    BY DEF Entry
  <2>5. CASE contracts' = contracts
    BY <1>8, <2>5
  <2>6. CASE /\ Len(contracts') = Len(contracts) /\ Listed(t[1])
             /\ (contracts'[i].id = t[1] /\ i = First(t[1])) \/ contracts'[i] = contracts[i]
    BY <2>1, <2>3, <2>6 DEF Holds
  <2>7. CASE \E e \in Listing : contracts' = Append(contracts, e)
    BY <2>1, <2>2, <2>7 DEF Holds
  <2> HIDE DEF t, con
  <2> QED
    BY <2>1, <2>4, <2>5, <2>6, <2>7, MoneyList DEF t, con
<1>9. ASSUME t \notin history, t[2] = "proposal" PROVE Holds(contracts', t[1])
  <2>1. con # NoContract
    BY <1>1, <1>4, <1>9 DEF Carrying
  <2>2. CASE Listed(t[1])
    BY <1>8, <2>2, ListedHolds
  <2>3. CASE ~Listed(t[1])
    <3>1. PICK e \in Listing : contracts' = Append(contracts, e) /\ e.id = t[1]
      <4>1. \A s : Entry(t[1], con, s).id = t[1]
        BY DEF Entry
      <4> HIDE DEF t, con
      <4> QED
        BY <1>9, <2>1, <2>3, <4>1, MoneyList DEF t, con
    <3>2. contracts \in Seq(Listing)
      BY DEF TypeInv
    <3>3. Len(contracts') = Len(contracts) + 1 /\ contracts'[Len(contracts) + 1] = e /\ Len(contracts) \in Nat
      BY <3>1, <3>2
    <3> QED
      BY <3>1, <3>3 DEF Holds
  <2> QED
    BY <2>2, <2>3
<1>10. Proposal(t[1]) \in SeenTxs
  BY <1>4, ProposalFirst
<1>11. ASSUME NEW c \in Contract, Coming(signals, history, c)
       PROVE  Coming(signals', history', c) \/ Holds(contracts', c)
  <2>1. CASE t = Proposal(c)
    <3>1. t[1] = c /\ t[2] = "proposal"
      BY <2>1 DEF Proposal
    <3> QED
      BY <1>9, <1>11, <2>1, <3>1 DEF Coming
  <2>2. CASE t # Proposal(c)
    BY <1>1, <1>2, <1>3, <1>11, <2>2 DEF Coming
  <2> QED
    BY <2>1, <2>2
<1> HIDE DEF t, con
<1> QED
  BY <1>2, <1>5, <1>6, <1>7, <1>8, <1>10, <1>11 DEF PresentInv

LEMMA PresentPrepare ==
  ASSUME TypeInv, SessionInv, PresentInv, prepareContractsAfterOpen
  PROVE  PresentInv'
<1> DEFINE got == Head(signals).contracts
<1>1. signals # << >> /\ signals' = Tail(signals) /\ signals[1] = Head(signals) /\ signals[1].type = "contracts"
      /\ signals \in Seq(Signal) /\ signals' \in Seq(Signal)
  BY ReceiveIs DEF prepareContractsAfterOpen, TypeInv
<1>2. UNCHANGED <<walletVars, phase, calls, history>>
  BY DEF prepareContractsAfterOpen
<1>3. Elems(signals) = {signals[1]} \cup Elems(signals')
  BY <1>1, ElemsTail
<1>4. ~HasType(signals', Asked)
  BY <1>1, ShapeTail DEF SessionInv, State
<1>5. \A e \in Elems(signals') : ~Answer(e)
  BY <1>1, <1>4, HasElem DEF Answer, Asked
<1>6. contracts = << >> /\ Brought(contracts', got)
  BY PrepareBrings
<1>7. ASSUME NEW c \in Contract PROVE Holds(contracts', c) <=> got[c] # NoContract
  BY <1>6 DEF Brought, Holds
<1>8. ASSUME NEW c \in Contract PROVE Got(signals, c) <=> got[c] # NoContract
  BY <1>1, <1>3, <1>5 DEF Got, Answer
<1>9. ASSUME NEW c \in Contract PROVE ~Got(signals', c) /\ ~Holds(contracts, c)
  BY <1>5, <1>6 DEF Got, Holds
<1>10. ASSUME NEW c \in Contract PROVE Coming(signals, history, c) => Coming(signals', history', c)
  BY <1>1, <1>2, <1>3 DEF Coming, Money
<1>11. SeenTxs' = SeenTxs
  BY <1>2 DEF walletVars, SeenTxs
<1> QED
  BY <1>2, <1>7, <1>8, <1>9, <1>10, <1>11 DEF PresentInv

LEMMA PresentStep ==
  ASSUME TypeInv, CallInv, SessionInv, ListInv, WalletInv, DeliveryInv, PresentInv, [Next]_vars
  PROVE  PresentInv'
<1>0. signals \in Seq(Signal) /\ contracts \in Seq(Listing)
  BY DEF TypeInv
<1>1. ASSUME signals # << >>, signals' = Tail(signals), ~Answer(signals[1])
      PROVE  \A c \in Contract : Got(signals', c) <=> Got(signals, c)
  BY <1>0, <1>1, ElemsTail DEF Got
<1>2. ASSUME signals # << >>, signals' = Tail(signals), ~Money(signals[1]), history' \subseteq history
      PROVE  \A c \in Contract : Coming(signals, history, c) => Coming(signals', history', c)
  BY <1>0, <1>2, ElemsTail DEF Coming
<1>3. ASSUME ListEvolved(contracts, contracts', height_app')
      PROVE  \A c \in Contract : Holds(contracts', c) <=> Holds(contracts, c)
  BY <1>0, <1>3, HoldsEvolved
<1>4. CASE WalletMoves
  BY <1>4, PresentMoves
<1>5. CASE money_transfer
  BY <1>5, PresentMoney
<1>6. CASE money_transfer_cancel
  <2>1. signals # << >> /\ signals' = Tail(signals) /\ ~Money(signals[1]) /\ ~Answer(signals[1])
    BY <1>6, ReceiveIs DEF money_transfer_cancel, Money, Answer
  <2>2. UNCHANGED <<walletVars, phase, calls>> /\ history' \subseteq history
    BY <1>6 DEF money_transfer_cancel
  <2>3. ListEvolved(contracts, contracts', height_app')
    BY <1>6, CancelSteps
  <2> QED
    BY <1>1, <1>2, <1>3, <2>1, <2>2, <2>3, PresentStays
<1>7. CASE prepareContractsAfterOpen
  BY <1>7, PresentPrepare
<1>8. CASE wallet_closed
  <2>1. signals # << >> /\ signals' = Tail(signals)
    BY <1>8, ReceiveIs DEF wallet_closed
  <2>2. UNCHANGED walletVars /\ phase' = "closed" /\ contracts' = << >>
    BY <1>8 DEF wallet_closed
  <2>3. \A c \in Contract : Got(signals', c) => Got(signals, c)
    BY <1>0, <2>1, ElemsTail DEF Got
  <2>4. \A c \in Contract : ~Holds(contracts', c)
    BY <2>2 DEF Holds
  <2>5. SeenTxs' = SeenTxs
    BY <2>2 DEF walletVars, SeenTxs
  <2> QED
    BY <2>2, <2>3, <2>4, <2>5 DEF PresentInv
<1>9. CASE get_contracts
  <2> DEFINE s == [type |-> "contracts", contracts |-> m_contracts]
  <2>1. signals' = Append(signals, s) /\ UNCHANGED <<walletVars, phase, history, contracts>>
    BY <1>9 DEF get_contracts, guiIdle
  <2>2. s \in Signal /\ Answer(s) /\ s.contracts = m_contracts
    BY OtherSignalsAre DEF Answer
  <2> HIDE DEF s
  <2>3. Elems(signals') = Elems(signals) \cup {s}
    BY <1>0, <2>1, <2>2, ElemsAppend
  <2>4. \A c \in Contract : Got(signals', c) <=> Got(signals, c) \/ m_contracts[c] # NoContract
    BY <2>2, <2>3 DEF Got
  <2>5. SeenTxs' = SeenTxs
    BY <2>1 DEF walletVars, SeenTxs
  <2>6. \A c \in Contract : m_contracts[c] # NoContract <=> Proposal(c) \in SeenTxs
    BY DEF WalletInv, Exists
  <2> QED
    BY <2>1, <2>4, <2>5, <2>6 DEF PresentInv
<1>10. CASE openWallet
  <2>1. UNCHANGED <<walletVars, signals, contracts>> /\ calls' = Asking
    BY <1>10 DEF openWallet, Asking
  <2>2. SeenTxs' = SeenTxs
    BY <2>1 DEF walletVars, SeenTxs
  <2> QED
    BY <2>1, <2>2 DEF PresentInv
<1>11. CASE QuietTail
  <2>1. signals # << >> /\ signals' = Tail(signals) /\ ~Money(signals[1]) /\ ~Answer(signals[1]) /\ Same
    BY <1>11 DEF QuietTail, Money, Answer
  <2> QED
    BY <1>1, <1>2, <1>3, <2>1, PresentStays DEF Same
<1>12. CASE QuietAppend
  <2>1. PICK s \in Signal : signals' = Append(signals, s) /\ ~Money(s) /\ ~Answer(s)
    BY <1>12 DEF QuietAppend, Money, Answer
  <2>2. Same
    BY <1>12 DEF QuietAppend
  <2>3. Elems(signals') = Elems(signals) \cup {s}
    BY <1>0, <2>1, ElemsAppend
  <2>4. \A c \in Contract : Got(signals', c) <=> Got(signals, c)
    BY <2>1, <2>3 DEF Got
  <2>5. \A c \in Contract : Coming(signals, history, c) => Coming(signals', history', c)
    BY <2>2, <2>3 DEF Coming, Same
  <2> QED
    BY <1>3, <2>2, <2>4, <2>5, PresentStays DEF Same
<1>13. CASE Silent
  <2>1. signals' = signals /\ Same
    BY <1>13 DEF Silent
  <2>2. \A c \in Contract : Coming(signals, history, c) => Coming(signals', history', c)
    BY <2>1 DEF Same
  <2> QED
    BY <1>3, <2>1, <2>2, PresentStays DEF Same
<1> QED
  BY <1>4, <1>5, <1>6, <1>7, <1>8, <1>9, <1>10, <1>11, <1>12, <1>13, StepKinds

-----------------------------------------------------------------------------
(* The states and heights that are shown or on their way are backed by     *)
(* transactions: S are the transactions seen, G those dropped, a and r the *)
(* heights at which the acceptance and the release were mined.             *)

Accepts == {2, 201}
Cancels == {6, 601}

Backed(c, s, h, S, G, a, r) ==
  /\ s \in Accepts => Accept(c) \in S
  /\ s = 5 => Request(c) \in S
  /\ s \in Cancels => Cancelled(c) \in S
  /\ h # 0 /\ s \in Accepts => a # 0 /\ a <= h
  /\ h # 0 /\ s \in Cancels => (r # 0 /\ r <= h) \/ Cancelled(c) \in G

\* a transaction of kind k may come after a state s
After(c, k, s, G) ==
  /\ s \in Accepts => k # "proposal"
  /\ s \in Cancels => k = "release_cancel" \/ Cancelled(c) \in G

Follow(q, c, s, G) == \A e \in Elems(q) : Money(e) /\ e.tx[1] = c => After(c, e.tx[2], s, G)

InTurn(q, c, G) ==
  \A i, j \in 1..Len(q) :
    i < j /\ Money(q[i]) /\ Money(q[j]) /\ q[i].tx[1] = c /\ q[j].tx[1] = c
      => After(c, q[j].tx[2], StateOf(q[i].tx[2]), G)

Shown(c, e, q, S, G, a, r, n) ==
  /\ Backed(c, e.state, e.height, S, G, a, r)
  /\ Follow(q, c, e.state, G)
  /\ e.state = 2 => a # 0 /\ n >= a + Confirmations
  /\ e.state = 6 => (r # 0 /\ n >= r + Confirmations) \/ Cancelled(c) \in G

Signalled(e, a, r) ==
  /\ e.contract.height # 0 /\ e.tx[2] # "proposal" => a # 0 /\ a <= e.contract.height
  /\ e.contract.height # 0 /\ e.tx[2] = "release_cancel" => r # 0 /\ r <= e.contract.height

Answered(c, e, q, S, G, a, r) ==
  /\ Backed(c, e.contracts[c].state, e.contracts[c].height, S, G, a, r)
  /\ Follow(q, c, e.contracts[c].state, G)

Carried(c, L, q, S, G, a, r, n) ==
  /\ \A i \in 1..Len(L) : L[i].id = c => Shown(c, L[i], q, S, G, a, r, n)
  /\ \A e \in Elems(q) : Money(e) /\ e.tx[1] = c => Signalled(e, a, r)
  /\ InTurn(q, c, G)
  /\ \A e \in Elems(q) : Answer(e) => Answered(c, e, q, S, G, a, r)

CarriedInv ==
  \A c \in Contract \ overtaken :
    Carried(c, contracts, signals, SeenTxs, gone, mined[Accept(c)], mined[Cancelled(c)], height_app)

LEMMA FollowTail ==
  ASSUME NEW q \in Seq(Signal), q # << >>, NEW c, NEW s, NEW G, Follow(q, c, s, G)
  PROVE  Follow(Tail(q), c, s, G)
  BY ElemsTail DEF Follow

LEMMA InTurnTail ==
  ASSUME NEW q \in Seq(Signal), q # << >>, NEW c, NEW G, InTurn(q, c, G)
  PROVE  /\ InTurn(Tail(q), c, G)
         /\ Money(q[1]) /\ q[1].tx[1] = c => Follow(Tail(q), c, StateOf(q[1].tx[2]), G)
<1>1. \A i \in 1..Len(Tail(q)) : i \in Int /\ Tail(q)[i] = q[i + 1] /\ i + 1 \in 1..Len(q) /\ 1 < i + 1 /\ 1 \in 1..Len(q)
  BY TailIs
<1>2. InTurn(Tail(q), c, G)
  <2>1. SUFFICES ASSUME NEW i \in 1..Len(Tail(q)), NEW j \in 1..Len(Tail(q)), i < j,
                        Money(Tail(q)[i]), Money(Tail(q)[j]), Tail(q)[i].tx[1] = c, Tail(q)[j].tx[1] = c
                 PROVE  After(c, Tail(q)[j].tx[2], StateOf(Tail(q)[i].tx[2]), G)
    BY DEF InTurn
  <2>2. i + 1 < j + 1
    BY <1>1, <2>1
  <2> QED
    BY <1>1, <2>1, <2>2 DEF InTurn
<1>3. ASSUME Money(q[1]), q[1].tx[1] = c, NEW e \in Elems(Tail(q)), Money(e), e.tx[1] = c
      PROVE  After(c, e.tx[2], StateOf(q[1].tx[2]), G)
  <2>1. PICK i \in 1..Len(Tail(q)) : e = Tail(q)[i]
    BY DEF Elems
  <2> QED
    BY <1>1, <1>3, <2>1 DEF InTurn
<1> QED
  BY <1>2, <1>3 DEF Follow

LEMMA InTurnAppend ==
  ASSUME NEW q \in Seq(Signal), NEW s \in Signal, NEW c, NEW G, InTurn(q, c, G),
         Money(s) /\ s.tx[1] = c =>
           \A e \in Elems(q) : Money(e) /\ e.tx[1] = c => After(c, s.tx[2], StateOf(e.tx[2]), G)
  PROVE  InTurn(Append(q, s), c, G)
<1> DEFINE r == Append(q, s)
<1>1. SUFFICES ASSUME NEW i \in 1..Len(r), NEW j \in 1..Len(r), i < j, Money(r[i]), Money(r[j]),
                      r[i].tx[1] = c, r[j].tx[1] = c
               PROVE  After(c, r[j].tx[2], StateOf(r[i].tx[2]), G)
  BY DEF InTurn
<1>2. i \in 1..Len(q) /\ r[i] = q[i]
  BY <1>1, AppendIs
<1>3. (j \in 1..Len(q) /\ r[j] = q[j]) \/ r[j] = s
  BY AppendIs
<1>4. q[i] \in Elems(q)
  BY <1>2 DEF Elems
<1> HIDE DEF r
<1> QED
  BY <1>1, <1>2, <1>3, <1>4 DEF InTurn

\* the answers and the signals of transactions that remain are as they were
LEMMA CarriedTail ==
  ASSUME NEW q \in Seq(Signal), q # << >>, NEW c, NEW L, NEW S, NEW G, NEW a, NEW r, NEW n,
         Carried(c, L, q, S, G, a, r, n)
  PROVE  Carried(c, L, Tail(q), S, G, a, r, n)
<1>1. Elems(Tail(q)) \subseteq Elems(q)
  BY ElemsTail
<1>2. InTurn(Tail(q), c, G)
  BY InTurnTail DEF Carried
<1>3. \A i \in 1..Len(L) : L[i].id = c => Shown(c, L[i], Tail(q), S, G, a, r, n)
  BY FollowTail DEF Carried, Shown
<1>4. \A e \in Elems(Tail(q)) : Answer(e) => Answered(c, e, Tail(q), S, G, a, r)
  BY <1>1, FollowTail DEF Carried, Answered
<1> QED
  BY <1>1, <1>2, <1>3, <1>4 DEF Carried

LEMMA CarriedAppend ==
  ASSUME NEW q \in Seq(Signal), NEW s \in Signal, ~Money(s), NEW c, NEW L, NEW S, NEW G, NEW a, NEW r, NEW n,
         Carried(c, L, q, S, G, a, r, n), Answer(s) => Answered(c, s, q, S, G, a, r)
  PROVE  Carried(c, L, Append(q, s), S, G, a, r, n)
<1>1. Elems(Append(q, s)) = Elems(q) \cup {s}
  BY ElemsAppend
<1>2. \A x : Follow(q, c, x, G) => Follow(Append(q, s), c, x, G)
  BY <1>1 DEF Follow
<1>3. InTurn(Append(q, s), c, G)
  BY InTurnAppend DEF Carried
<1>4. \A i \in 1..Len(L) : L[i].id = c => Shown(c, L[i], Append(q, s), S, G, a, r, n)
  BY <1>2 DEF Carried, Shown
<1>5. \A e \in Elems(Append(q, s)) : Answer(e) => Answered(c, e, Append(q, s), S, G, a, r)
  BY <1>1, <1>2 DEF Carried, Answered
<1> QED
  BY <1>1, <1>3, <1>4, <1>5 DEF Carried

\* an entry that moves from one state of the GUI to another
LEMMA ShownEvolved ==
  ASSUME NEW e \in Listing, NEW f, NEW c, NEW q, NEW S, NEW G, NEW a \in Nat, NEW r \in Nat, NEW n \in Nat, NEW m \in Nat,
         n <= m, Evolved(e, f, m), Shown(c, e, q, S, G, a, r, n)
  PROVE  Shown(c, f, q, S, G, a, r, m)
<1>0. e.height \in Nat /\ Confirmations \in Nat /\ f.height = e.height
  BY ListingIs, Numbers, GuiAssumption DEF Evolved
<1>1. CASE f.state = e.state
  BY <1>0, <1>1 DEF Shown, Backed, Follow
<1>2. CASE f.state \in {110, 130, 140}
  BY <1>2 DEF Shown, Backed, Follow, After, Accepts, Cancels
<1>3. CASE e.state = 201 /\ f.state = 2 /\ Confirmed(e, m)
  BY <1>0, <1>3 DEF Shown, Backed, Follow, After, Accepts, Cancels, Confirmed
<1>4. CASE e.state = 601 /\ f.state = 6 /\ Confirmed(e, m)
  BY <1>0, <1>4 DEF Shown, Backed, Follow, After, Accepts, Cancels, Confirmed
<1> QED
  BY <1>1, <1>2, <1>3, <1>4 DEF Evolved

LEMMA CarriedEvolved ==
  ASSUME NEW L \in Seq(Listing), NEW M, NEW c, NEW q, NEW S, NEW G, NEW a \in Nat, NEW r \in Nat, NEW n \in Nat, NEW m \in Nat,
         n <= m, ListEvolved(L, M, m), Carried(c, L, q, S, G, a, r, n)
  PROVE  Carried(c, M, q, S, G, a, r, m)
<1>1. ASSUME NEW i \in 1..Len(M), M[i].id = c PROVE Shown(c, M[i], q, S, G, a, r, m)
  <2>1. i \in 1..Len(L) /\ Evolved(L[i], M[i], m) /\ L[i] \in Listing
    BY DEF ListEvolved
  <2>2. L[i].id = c
    BY <1>1, <2>1 DEF Evolved
  <2> QED
    BY <2>1, <2>2, ShownEvolved DEF Carried
<1> QED
  BY <1>1 DEF Carried

LEMMA BackedGrows ==
  ASSUME NEW c, NEW s, NEW h, NEW S, NEW G, NEW a, NEW r, Backed(c, s, h, S, G, a, r),
         NEW T, S \subseteq T, NEW H, G \subseteq H, NEW b, a # 0 => b = a, NEW u, r # 0 => u = r
  PROVE  Backed(c, s, h, T, H, b, u)
  BY DEF Backed

\* a transaction that comes in its turn
LEMMA AfterFound ==
  ASSUME TypeInv, WalletInv, NEW found \in SUBSET Tx, NEW dropped \in SUBSET Tx, NEW h, WalletStep(found, dropped, h),
         NEW c \in Contract, c \notin overtaken', NEW k \in Kind, <<c, k>> \in found, NEW s,
         s \in Accepts => Accept(c) \in SeenTxs, s \in Cancels => Cancelled(c) \in SeenTxs
  PROVE  After(c, k, s, gone)
<1> DEFINE con == m_contracts[c]
           K == KindsOf(c, SeenTxs)
           G == KindsOf(c, gone)
<1>1. /\ c \notin overtaken /\ ~Refused(con, k)
      /\ k = "proposal" => ~(con.state > 1)
      /\ k = "accept" => ~(con.state > 2)
  BY InOrder
<1>2. Ord(con.state, con.height, con.cancel_expiration_time, K, G, mined[Accept(c)], mined[Cancelled(c)], tip)
  BY <1>1 DEF WalletInv, Ordered, OrderedAt
<1>3. con.state \in Nat
  BY Elements DEF Con
<1>4. Allowed(K, mined[Accept(c)], k)
  <2>1. Mineable(<<c, k>>)
    BY DEF WalletStep
  <2> QED
    BY <2>1, FoundAllowed DEF WalletInv
<1>5. /\ Accept(c) \in SeenTxs <=> "accept" \in K
      /\ Cancelled(c) \in SeenTxs <=> "release_cancel" \in K
      /\ Cancelled(c) \in gone <=> "release_cancel" \in G
  BY KindsAre DEF Accept, Cancelled
<1> HIDE DEF con, K, G
<1>6. s \in Accepts => k # "proposal"
  <2>1. "accept" \in K => con.state >= 2
    BY <1>2 DEF Ord
  <2> QED
    BY <1>1, <1>3, <1>5, <2>1
<1>7. ASSUME s \in Cancels, "release_cancel" \notin G PROVE k = "release_cancel"
  <2>1. con.state = 6 /\ "release_cancel" \in K
    BY <1>2, <1>5, <1>7 DEF Ord
  <2>2. k \notin Cancel
    BY <1>1, <2>1 DEF Refused, contract_accepted, cancel_proposal_sent
  <2>3. k # "proposal" /\ k # "accept"
    BY <1>1, <2>1
  <2>4. k \in Release
    BY <2>2, <2>3, KindFacts
  <2> QED
    BY <1>4, <2>1, <2>4 DEF Allowed, Release
<1> QED
  BY <1>5, <1>6, <1>7 DEF After

LEMMA MinedGrows ==
  ASSUME TypeInv, WalletInv, NEW found \in SUBSET Tx, NEW dropped \in SUBSET Tx, NEW h, WalletStep(found, dropped, h),
         NEW c \in Contract, NEW k \in Kind
  PROVE  mined[<<c, k>>] # 0 => mined'[<<c, k>>] = mined[<<c, k>>]
<1>1. ASSUME <<c, k>> \in found PROVE mined[<<c, k>>] = 0
  <2>1. Mineable(<<c, k>>)
    BY <1>1 DEF WalletStep
  <2> QED
    BY <2>1, FoundAllowed DEF WalletInv
<1>2. k \in KindsOf(c, found) => <<c, k>> \in found
  BY DEF KindsOf
<1> QED
  BY <1>1, <1>2, ViewMined

LEMMA StateCases ==
  ASSUME NEW k \in Kind
  PROVE  \/ k = "proposal" /\ StateOf(k) = 1
         \/ k = "accept" /\ StateOf(k) = 2
         \/ k \in Cancel /\ k # "proposal" /\ k # "release_cancel" /\ StateOf(k) = 5
         \/ k \in Release /\ k \notin Cancel /\ k # "proposal" /\ k # "release_cancel" /\ (StateOf(k) = 3 \/ StateOf(k) = 4)
         \/ k = "release_cancel" /\ StateOf(k) = 6
<1>1. k \in {"proposal", "accept", "cancel", "recancel", "release_normal", "release_burn", "release_cancel"}
  BY EscrowAssumption
<1> QED
  BY <1>1, StateIs DEF Cancel, Release

\* the signal of a transaction carries a height that its blocks back
LEMMA FoundSignalled ==
  ASSUME TypeInv, WalletInv, NEW found \in SUBSET Tx, NEW dropped \in SUBSET Tx, NEW h, WalletStep(found, dropped, h),
         NEW c \in Contract, c \notin overtaken', NEW k \in Kind, <<c, k>> \in found
  PROVE  Signalled(money_transfer_signal(<<c, k>>, h), mined'[Accept(c)], mined'[Cancelled(c)])
<1> DEFINE e == money_transfer_signal(<<c, k>>, h)
           con == m_contracts[c]
           now == Now(found, h, c)
           a == mined'[Accept(c)]
           r == mined'[Cancelled(c)]
<1>1. ~Refused(con, k)
  BY InOrder
<1>2. <<c, k>> \in Tx /\ <<c, k>>[1] = c /\ <<c, k>>[2] = k /\ h \in 0..MaxHeight
  BY DEF WalletStep
<1>3. e.tx = <<c, k>> /\ e.contract = process_contract_info(con, k, h)
  BY <1>1, <1>2, MoneySignalIs
<1>4. now = process_contract_info(con, k, h)
  BY StepContract
<1>5. now.state = StateOf(k)
  BY <1>1, <1>2, <1>4, Elements, ProcessFields
<1>6. Ord(now.state, now.height, now.cancel_expiration_time, KindsOf(c, SeenTxs'), KindsOf(c, gone), a, r, tip)
  BY OrdNow
<1>7. k # "proposal" => StateOf(k) >= 2
  BY StateCases
<1>8. k = "release_cancel" => StateOf(k) = 6
  BY StateIs
<1>9. e.contract = now /\ e.tx[2] = k
  BY <1>2, <1>3, <1>4
<1> HIDE DEF e, now, a, r, con
<1>10. /\ now.height # 0 /\ k # "proposal" => a # 0 /\ a <= now.height
       /\ now.height # 0 /\ k = "release_cancel" => r # 0 /\ r <= now.height
  BY <1>5, <1>6, <1>7, <1>8 DEF Ord
<1>11. Signalled(e, a, r)
  BY <1>9, <1>10 DEF Signalled
<1> QED
  BY <1>11 DEF e, a, r

\* the state of a transaction says that it was seen
LEMMA SeenState ==
  ASSUME NEW c, NEW k \in Kind, NEW S, <<c, k>> \in S
  PROVE  /\ StateOf(k) \in Accepts => Accept(c) \in S
         /\ StateOf(k) \in Cancels => Cancelled(c) \in S
<1>1. StateOf(k) \in Accepts => k = "accept"
  BY StateIs, KindFacts DEF Cancel, Release, Accepts
<1>2. StateOf(k) \in Cancels => k = "release_cancel"
  BY StateIs, KindFacts DEF Cancel, Release, Cancels
<1> QED
  BY <1>1, <1>2 DEF Accept, Cancelled

LEMMA CarriedMoves ==
  ASSUME TypeInv, WalletInv, DeliveryInv, CarriedInv, WalletMoves
  PROVE  CarriedInv'
<1>1. PICK found, dropped \in SUBSET Tx, h \in 0..MaxHeight : WalletStep(found, dropped, h)
  BY DEF WalletMoves
<1>2. contracts' = contracts /\ height_app' = height_app
  BY DEF WalletMoves
<1>3. SeenTxs' = SeenTxs \cup found /\ gone' = gone \cup dropped
  BY <1>1, SeenStep DEF WalletStep
<1>4. SUFFICES ASSUME NEW c \in Contract, c \notin overtaken'
               PROVE  Carried(c, contracts', signals', SeenTxs', gone', mined'[Accept(c)], mined'[Cancelled(c)], height_app')
  BY DEF CarriedInv
<1> DEFINE a == mined[Accept(c)]
           r == mined[Cancelled(c)]
           b == mined'[Accept(c)]
           u == mined'[Cancelled(c)]
<1>5. Carried(c, contracts, signals, SeenTxs, gone, a, r, height_app)
  BY <1>1, <1>4, InOrder DEF CarriedInv
<1>6. (a # 0 => b = a) /\ (r # 0 => u = r)
  BY <1>1, MinedGrows, KindsAre DEF Accept, Cancelled
<1>7. ASSUME NEW t \in found, t[1] = c PROVE t[2] \in Kind /\ t = <<c, t[2]>> /\ t \in Tx
  BY <1>7, KindFacts
<1>8. \A k, s : After(c, k, s, gone) => After(c, k, s, gone')
  BY <1>3 DEF After
<1>9. ASSUME NEW s, Follow(signals, c, s, gone), s \in Accepts => Accept(c) \in SeenTxs, s \in Cancels => Cancelled(c) \in SeenTxs
      PROVE  Follow(signals', c, s, gone')
  <2>1. SUFFICES ASSUME NEW e \in Elems(signals'), Money(e), e.tx[1] = c
                 PROVE  After(c, e.tx[2], s, gone')
    BY DEF Follow
  <2>2. CASE e \in Elems(signals)
    BY <1>8, <1>9, <2>1, <2>2 DEF Follow
  <2>3. CASE e \notin Elems(signals)
    <3>1. e.tx \in found
      BY <1>1, <2>1, <2>3, MovesElem DEF Money, Dropping
    <3>2. e.tx[2] \in Kind /\ <<c, e.tx[2]>> \in found
      BY <1>7, <2>1, <3>1
    <3> QED
      BY <1>1, <1>4, <1>8, <1>9, <3>2, AfterFound
  <2> QED
    BY <2>2, <2>3
<1>10. \A s, n : Backed(c, s, n, SeenTxs, gone, a, r) => Backed(c, s, n, SeenTxs', gone', b, u)
  BY <1>3, <1>6, BackedGrows
<1>11. \A i \in 1..Len(contracts) : contracts[i].id = c => Shown(c, contracts[i], signals', SeenTxs', gone', b, u, height_app)
  <2>1. SUFFICES ASSUME NEW i \in 1..Len(contracts), contracts[i].id = c
                 PROVE  Shown(c, contracts[i], signals', SeenTxs', gone', b, u, height_app)
    OBVIOUS
  <2> DEFINE e == contracts[i]
  <2>2. Shown(c, e, signals, SeenTxs, gone, a, r, height_app)
    BY <1>5, <2>1 DEF Carried
  <2> HIDE DEF e, a, r, b, u
  <2>3. Backed(c, e.state, e.height, SeenTxs', gone', b, u)
    BY <1>10, <2>2 DEF Shown
  <2>4. Follow(signals', c, e.state, gone')
    BY <1>9, <2>2 DEF Shown, Backed
  <2>5. Shown(c, e, signals', SeenTxs', gone', b, u, height_app)
    BY <1>3, <1>6, <2>2, <2>3, <2>4 DEF Shown
  <2> QED
    BY <2>5 DEF e
<1>12. \A e \in Elems(signals') : Money(e) /\ e.tx[1] = c => Signalled(e, b, u)
  <2>1. SUFFICES ASSUME NEW e \in Elems(signals'), Money(e), e.tx[1] = c
                 PROVE  Signalled(e, b, u)
    OBVIOUS
  <2>2. CASE e \in Elems(signals)
    <3>1. Signalled(e, a, r)
      BY <1>5, <2>1, <2>2 DEF Carried
    <3> HIDE DEF a, r, b, u
    <3> QED
      BY <1>6, <3>1 DEF Signalled
  <2>3. CASE e \notin Elems(signals)
    <3>1. e.tx \in found /\ e = money_transfer_signal(e.tx, h)
      BY <1>1, <2>1, <2>3, MovesElem DEF Money, Dropping
    <3>2. e.tx[2] \in Kind /\ e.tx = <<c, e.tx[2]>>
      BY <1>7, <2>1, <3>1
    <3> QED
      BY <1>1, <1>4, <3>1, <3>2, FoundSignalled
  <2> QED
    BY <2>2, <2>3
<1>13. InTurn(signals', c, gone')
  <2> DEFINE q == WithMoney(signals, found, h)
             m == money_transfer_signal(TheOnly(found), h)
             x == money_transfer_cancel_signal(TheOnly(dropped))
  <2>0. InTurn(signals, c, gone')
    BY <1>5, <1>8 DEF Carried, InTurn
  <2>1. q \in Seq(Signal) /\ signals' = WithCancel(q, dropped) /\ signals \in Seq(Signal)
    BY <1>1, StepSignals DEF TypeInv
  <2>2. found # {} => TheOnly(found) \in found
    BY <1>1, TheOnlyIs DEF WalletStep, AtMostOne
  <2>3. dropped # {} => TheOnly(dropped) \in dropped
    BY <1>1, TheOnlyIs DEF WalletStep, AtMostOne
  <2>4. found # {} => m \in Signal /\ m.tx \in found
    BY <2>2, MoneySignalIs
  <2>5. dropped # {} => x \in Signal /\ ~Money(x)
    BY <2>3, CancelSignalIs DEF Money
  <2>6. q = IF found = {} THEN signals ELSE Append(signals, m)
    BY DEF WithMoney
  <2>7. signals' = IF dropped = {} THEN q ELSE Append(q, x)
    BY <2>1 DEF WithCancel
  <2> HIDE DEF q, m, x
  <2>8. InTurn(q, c, gone')
    <3>1. CASE found = {}
      BY <2>0, <2>6, <3>1
    <3>2. CASE found # {}
      <4>1. ASSUME m.tx[1] = c, NEW e \in Elems(signals), Money(e), e.tx[1] = c
            PROVE  After(c, m.tx[2], StateOf(e.tx[2]), gone')
        <5>1. m.tx[2] \in Kind /\ <<c, m.tx[2]>> \in found
          BY <1>7, <2>4, <3>2, <4>1
        <5>2. e.tx \in SeenTxs
          BY <4>1 DEF DeliveryInv, SeenSignals
        <5>3. e.tx[2] \in Kind /\ e.tx = <<c, e.tx[2]>>
          BY <4>1, <5>2, KindFacts DEF SeenTxs
        <5> DEFINE s == StateOf(e.tx[2])
        <5>4. (s \in Accepts => Accept(c) \in SeenTxs) /\ (s \in Cancels => Cancelled(c) \in SeenTxs)
          BY <5>2, <5>3, SeenState
        <5> HIDE DEF s
        <5>5. After(c, m.tx[2], s, gone)
          BY <1>1, <1>4, <5>1, <5>4, AfterFound
        <5> QED
          BY <1>8, <5>5 DEF s
      <4> QED
        BY <2>0, <2>1, <2>4, <2>6, <3>2, <4>1, InTurnAppend
    <3> QED
      BY <3>1, <3>2
  <2>9. CASE dropped = {}
    BY <2>7, <2>8, <2>9
  <2>10. CASE dropped # {}
    BY <2>1, <2>5, <2>7, <2>8, <2>10, InTurnAppend
  <2> QED
    BY <2>9, <2>10
<1>14. \A e \in Elems(signals') : Answer(e) => Answered(c, e, signals', SeenTxs', gone', b, u)
  <2>1. SUFFICES ASSUME NEW e \in Elems(signals'), Answer(e)
                 PROVE  Answered(c, e, signals', SeenTxs', gone', b, u)
    OBVIOUS
  <2>2. e \in Elems(signals)
    BY <1>1, <2>1, MovesElem DEF Money, Dropping, Answer
  <2>3. Answered(c, e, signals, SeenTxs, gone, a, r)
    BY <1>5, <2>1, <2>2 DEF Carried
  <2> DEFINE s == e.contracts[c].state
  <2> HIDE DEF a, r, b, u
  <2>4. Backed(c, s, e.contracts[c].height, SeenTxs', gone', b, u)
    BY <1>10, <2>3 DEF Answered
  <2>5. Follow(signals', c, s, gone')
    BY <1>9, <2>3 DEF Answered, Backed
  <2> QED
    BY <2>4, <2>5 DEF Answered
<1> HIDE DEF a, r, b, u
<1>15. Carried(c, contracts', signals', SeenTxs', gone', b, u, height_app')
  BY <1>2, <1>11, <1>12, <1>13, <1>14 DEF Carried
<1> QED
  BY <1>15 DEF b, u

LEMMA StandsIs ==
  ASSUME NEW s \in 0..6, NEW f \in Stands(s)
  PROVE  (f \in Accepts => s = 2) /\ (f = 5 => s = 5) /\ (f \in Cancels => s = 6)
<1>1. s \in {0, 1, 2, 3, 4, 5, 6}
  OBVIOUS
<1>2. CASE s = 1
  BY <1>2 DEF Stands, Accepts, Cancels
<1>3. CASE s = 2
  BY <1>3 DEF Stands, Accepts, Cancels
<1>4. CASE s = 5
  BY <1>4 DEF Stands, Accepts, Cancels
<1>5. CASE s = 6
  BY <1>5 DEF Stands, Accepts, Cancels
<1>6. CASE s \in {0, 3, 4}
  BY <1>6 DEF Stands, Accepts, Cancels
<1> QED
  BY <1>1, <1>2, <1>3, <1>4, <1>5, <1>6

\* an entry that shows a contract whose state and height are backed
LEMMA StandsShown ==
  ASSUME NEW c, NEW f, NEW q, NEW S, NEW G, NEW a \in Nat, NEW r \in Nat, NEW n \in Nat, NEW con \in Con,
         f.height = con.height, f.state \in {130, 140} \/ f.state \in Stands(con.state),
         f.state \in {2, 6} => Confirmed(con, n),
         Backed(c, con.state, con.height, S, G, a, r), Follow(q, c, con.state, G)
  PROVE  Shown(c, f, q, S, G, a, r, n)
<1>0. con.height \in Nat /\ con.state \in 0..6 /\ Confirmations \in Nat
  BY Numbers, GuiAssumption DEF Con
<1>1. (f.state \in Accepts => con.state = 2) /\ (f.state = 5 => con.state = 5) /\ (f.state \in Cancels => con.state = 6)
  <2>1. CASE f.state \in {130, 140}
    BY <2>1 DEF Accepts, Cancels
  <2>2. CASE f.state \in Stands(con.state)
    BY <1>0, <2>2, StandsIs
  <2> QED
    BY <2>1, <2>2
<1>2. Backed(c, f.state, f.height, S, G, a, r)
  BY <1>1 DEF Backed, Accepts, Cancels
<1>3. Follow(q, c, f.state, G)
  BY <1>1 DEF Follow, After, Accepts, Cancels
<1>4. f.state = 2 => a # 0 /\ n >= a + Confirmations
  BY <1>0, <1>1 DEF Backed, Accepts, Confirmed
<1>5. f.state = 6 => (r # 0 /\ n >= r + Confirmations) \/ Cancelled(c) \in G
  BY <1>0, <1>1 DEF Backed, Cancels, Confirmed
<1> QED
  BY <1>2, <1>3, <1>4, <1>5 DEF Shown

\* the signal of a transaction backs the state that it carries
LEMMA SignalBacked ==
  ASSUME NEW c, NEW k \in Kind, NEW S, <<c, k>> \in S, k = "recancel" => Request(c) \in S, NEW G, NEW a, NEW r,
         NEW e, e.tx[2] = k, Signalled(e, a, r)
  PROVE  Backed(c, StateOf(k), e.contract.height, S, G, a, r)
<1>1. CASE k = "proposal" \/ k \in Release \ {"release_cancel"}
  <2>1. StateOf(k) \in {1, 3, 4}
    BY <1>1, StateIs DEF Release
  <2> QED
    BY <2>1 DEF Backed, Accepts, Cancels
<1>2. CASE k = "accept"
  BY <1>2, StateIs DEF Backed, Accepts, Cancels, Signalled, Accept
<1>3. CASE k \in Cancel
  BY <1>3, StateIs DEF Backed, Accepts, Cancels, Cancel, Request
<1>4. CASE k = "release_cancel"
  BY <1>4, StateIs DEF Backed, Accepts, Cancels, Signalled, Cancelled
<1> QED
  BY <1>1, <1>2, <1>3, <1>4, StateCases

\* an entry whose height is taken from the signal of a known transaction
LEMMA KnownShown ==
  ASSUME NEW c, NEW e, NEW f, NEW q, NEW s \in Elems(q), NEW p, NEW S, NEW G, NEW a, NEW r, NEW n,
         Money(s), s.tx[1] = c, Signalled(s, a, r), Shown(c, e, q, S, G, a, r, n), Follow(p, c, e.state, G),
         f.state = e.state, f.height = s.contract.height
  PROVE  Shown(c, f, p, S, G, a, r, n)
<1>1. After(c, s.tx[2], e.state, G)
  BY DEF Shown, Follow
<1>2. Backed(c, f.state, f.height, S, G, a, r)
  BY <1>1 DEF Shown, Backed, Signalled, After
<1> QED
  BY <1>2 DEF Shown

LEMMA RequestFirst ==
  ASSUME TypeInv, WalletInv, NEW c \in Contract, SecondRequest(c) \in SeenTxs
  PROVE  Request(c) \in SeenTxs
<1> DEFINE K == KindsOf(c, SeenTxs)
<1>1. Pre(K, mined[Accept(c)])
  BY DEF WalletInv, Preceded
<1>2. "recancel" \in K => "cancel" \in K
  BY <1>1 DEF Pre
<1> QED
  BY <1>2, KindsAre DEF SecondRequest, Request

LEMMA CarriedMoney ==
  ASSUME TypeInv, WalletInv, ListInv, DeliveryInv, CarriedInv, money_transfer
  PROVE  CarriedInv'
<1> DEFINE t == Head(signals).tx
           con == Head(signals).contract
<1>1. signals # << >> /\ signals' = Tail(signals) /\ signals[1] = Head(signals) /\ Money(signals[1]) /\ signals \in Seq(Signal)
  BY ReceiveIs DEF money_transfer, Money, TypeInv
<1>2. UNCHANGED <<walletVars, height_app>>
  BY DEF money_transfer
<1>3. SeenTxs' = SeenTxs /\ UNCHANGED <<overtaken, gone, mined>>
  BY <1>2 DEF walletVars, SeenTxs
<1>4. SUFFICES ASSUME NEW c \in Contract, c \notin overtaken
               PROVE  Carried(c, contracts', signals', SeenTxs, gone, mined[Accept(c)], mined[Cancelled(c)], height_app)
  BY <1>2, <1>3 DEF CarriedInv
<1> DEFINE a == mined[Accept(c)]
           r == mined[Cancelled(c)]
<1>5. Carried(c, contracts, signals, SeenTxs, gone, a, r, height_app)
  BY <1>4 DEF CarriedInv
<1>6. Carried(c, contracts, signals', SeenTxs, gone, a, r, height_app)
  BY <1>1, <1>5, CarriedTail
<1>7. signals[1] \in Elems(signals)
  BY <1>1, ElemsTail
<1>8. t \in SeenTxs /\ Carrying(signals[1]) /\ t \in Tx
  BY <1>1, <1>7 DEF DeliveryInv, SeenSignals, SeenTxs
<1>9. t[2] \in Kind /\ t = <<t[1], t[2]>>
  BY <1>8, KindFacts
<1>10. con \in Con /\ Sound(con)
  BY MoneyList
<1>11. a \in Nat /\ r \in Nat /\ height_app \in Nat
  BY RootedIs, Numbers DEF WalletInv, TypeInv
<1>12. \A s : Entry(c, con, s).id = c /\ Entry(c, con, s).state = s /\ Entry(c, con, s).height = con.height
  BY DEF Entry
<1>13. \A d, s : Entry(d, con, s).id = d
  BY DEF Entry
<1>14. ASSUME t[1] = c, NEW i \in 1..Len(contracts), contracts[i].id = c
       PROVE  Shown(c, Entry(c, con, contracts[i].state), signals', SeenTxs, gone, a, r, height_app)
  <2> DEFINE e == contracts[i]
             f == Entry(c, con, e.state)
  <2>1. Shown(c, e, signals, SeenTxs, gone, a, r, height_app) /\ Signalled(signals[1], a, r)
    BY <1>1, <1>5, <1>7, <1>14 DEF Carried
  <2>2. Follow(signals', c, e.state, gone)
    BY <1>1, <2>1, FollowTail DEF Shown
  <2>3. f.state = e.state /\ f.height = con.height
    BY <1>12
  <2> HIDE DEF e, f, a, r
  <2>4. Shown(c, f, signals', SeenTxs, gone, a, r, height_app)
    BY <1>1, <1>7, <1>14, <2>1, <2>2, <2>3, KnownShown
  <2> QED
    BY <2>4 DEF e, f
<1>15. ASSUME t[1] = c
       PROVE  Shown(c, Entry(c, con, StateAfterTransfer(c, con)), signals', SeenTxs, gone, a, r, height_app)
  <2> DEFINE s == StateAfterTransfer(c, con)
             f == Entry(c, con, s)
             k == t[2]
  <2>1. con # NoContract /\ con.state = StateOf(k) /\ con.state # 0
    BY <1>1, <1>4, <1>8, <1>10, <1>15 DEF Carrying, Sound
  <2>2. s \in Stands(con.state) /\ (s \in {2, 6} => Confirmed(con, height_app))
    BY <1>10, <2>1, TransferState
  <2>3. <<c, k>> \in SeenTxs
    BY <1>8, <1>9, <1>15
  <2>4. k = "recancel" => Request(c) \in SeenTxs
    BY <2>3, RequestFirst DEF SecondRequest
  <2>5. Signalled(signals[1], a, r)
    BY <1>1, <1>5, <1>7, <1>15 DEF Carried
  <2>6. Backed(c, con.state, con.height, SeenTxs, gone, a, r)
    BY <1>1, <1>9, <2>1, <2>3, <2>4, <2>5, SignalBacked
  <2>7. Follow(signals', c, con.state, gone)
    BY <1>1, <1>5, <1>15, <2>1, InTurnTail DEF Carried
  <2>8. f.state = s /\ f.height = con.height
    BY <1>12
  <2> HIDE DEF f, s, a, r, con, k
  <2>9. Shown(c, f, signals', SeenTxs, gone, a, r, height_app)
    BY <1>10, <1>11, <2>2, <2>6, <2>7, <2>8, StandsShown
  <2> QED
    BY <2>9 DEF f, s
<1>16. ASSUME NEW i \in 1..Len(contracts'), contracts'[i].id = c
       PROVE  Shown(c, contracts'[i], signals', SeenTxs, gone, a, r, height_app)
  <2> DEFINE n == Entry(t[1], con, StateAfterTransfer(t[1], con))
  <2>1. CASE i \in 1..Len(contracts) /\ contracts'[i] = contracts[i]
    BY <1>6, <1>16, <2>1 DEF Carried
  <2>2. CASE contracts'[i] = n
    BY <1>13, <1>15, <1>16, <2>2
  <2>3. CASE /\ i \in 1..Len(contracts) /\ contracts[i].id = t[1]
             /\ contracts'[i] = Entry(t[1], con, contracts[i].state)
    BY <1>13, <1>14, <1>16, <2>3
  <2>4. Listed(t[1]) => contracts[First(t[1])].id = t[1]
    BY PositionIs DEF ListInv
  <2>5. contracts \in Seq(Listing)
    BY DEF TypeInv
  <2>6. contracts' = Append(contracts, n) /\ n \in Listing =>
          (i \in 1..Len(contracts) /\ contracts'[i] = contracts[i]) \/ contracts'[i] = n
    BY <1>16, <2>5
  <2> HIDE DEF t, con, n
  <2> QED
    BY <1>16, <2>1, <2>2, <2>3, <2>4, <2>6, MoneyList DEF t, con, n
<1> HIDE DEF t, con, a, r
<1>17. Carried(c, contracts', signals', SeenTxs, gone, a, r, height_app)
  BY <1>6, <1>16 DEF Carried
<1> QED
  BY <1>17 DEF a, r

LEMMA CarriedPrepare ==
  ASSUME TypeInv, SessionInv, WalletInv, CarriedInv, prepareContractsAfterOpen
  PROVE  CarriedInv'
<1> DEFINE got == Head(signals).contracts
<1>1. signals # << >> /\ signals' = Tail(signals) /\ signals[1] = Head(signals) /\ Answer(signals[1]) /\ signals \in Seq(Signal)
  BY ReceiveIs DEF prepareContractsAfterOpen, TypeInv, Answer
<1>2. UNCHANGED <<walletVars, height_app>>
  BY DEF prepareContractsAfterOpen
<1>3. SeenTxs' = SeenTxs /\ UNCHANGED <<overtaken, gone, mined>>
  BY <1>2 DEF walletVars, SeenTxs
<1>4. SUFFICES ASSUME NEW c \in Contract, c \notin overtaken
               PROVE  Carried(c, contracts', signals', SeenTxs, gone, mined[Accept(c)], mined[Cancelled(c)], height_app)
  BY <1>2, <1>3 DEF CarriedInv
<1> DEFINE a == mined[Accept(c)]
           r == mined[Cancelled(c)]
           con == got[c]
           s == StateAfterOpen(c, con)
           f == Entry(c, con, s)
<1>5. Carried(c, contracts, signals, SeenTxs, gone, a, r, height_app)
  BY <1>4 DEF CarriedInv
<1>6. Carried(c, contracts, signals', SeenTxs, gone, a, r, height_app)
  BY <1>1, <1>5, CarriedTail
<1>7. Brought(contracts', got) /\ con \in Con /\ Sound(con)
  BY PrepareBrings
<1>8. Answered(c, signals[1], signals, SeenTxs, gone, a, r)
  BY <1>1, <1>5, ElemsTail DEF Carried
<1>9. Backed(c, con.state, con.height, SeenTxs, gone, a, r) /\ Follow(signals', c, con.state, gone)
  BY <1>1, <1>8, FollowTail DEF Answered
<1>10. a \in Nat /\ r \in Nat /\ height_app \in Nat
  BY RootedIs, Numbers DEF WalletInv, TypeInv
<1>11. f.state = s /\ f.height = con.height
  BY DEF Entry
<1>12. ASSUME NEW i \in 1..Len(contracts'), contracts'[i].id = c PROVE con # NoContract /\ contracts'[i] = f
  BY <1>7, <1>12 DEF Brought
<1>13. ASSUME con # NoContract PROVE Shown(c, f, signals', SeenTxs, gone, a, r, height_app)
  <2>1. con.state # 0
    BY <1>7, <1>13 DEF Sound
  <2>2. s \in {130, 140} \/ s \in Stands(con.state)
    BY <1>7, <2>1, OpenState
  <2>3. s \in {2, 6} => Confirmed(con, height_app)
    BY <1>7, <2>1, OpenState
  <2> HIDE DEF s, f, con, a, r
  <2> QED
    BY <1>7, <1>9, <1>10, <1>11, <2>2, <2>3, StandsShown
<1> HIDE DEF s, f, con, a, r
<1>14. Carried(c, contracts', signals', SeenTxs, gone, a, r, height_app)
  BY <1>6, <1>12, <1>13 DEF Carried
<1> QED
  BY <1>14 DEF a, r

LEMMA CarriedStep ==
  ASSUME TypeInv, CallInv, SessionInv, ListInv, WalletInv, HeightInv, DeliveryInv, CarriedInv, [Next]_vars
  PROVE  CarriedInv'
<1>0. /\ signals \in Seq(Signal) /\ contracts \in Seq(Listing) /\ height_app \in Nat /\ height_app' \in Nat
      /\ height_app <= height_app'
  BY HeightStep DEF TypeInv
<1>1. ASSUME NEW c \in Contract PROVE mined[Accept(c)] \in Nat /\ mined[Cancelled(c)] \in Nat
  BY RootedIs DEF WalletInv
\* steps that leave the wallet and the entries alone
<1>2. ASSUME UNCHANGED walletVars, ListEvolved(contracts, contracts', height_app'),
             \A c \in Contract \ overtaken :
               Carried(c, contracts, signals', SeenTxs, gone, mined[Accept(c)], mined[Cancelled(c)], height_app)
      PROVE  CarriedInv'
  <2>1. SeenTxs' = SeenTxs /\ UNCHANGED <<overtaken, gone, mined>>
    BY <1>2 DEF walletVars, SeenTxs
  <2>2. ASSUME NEW c \in Contract, c \notin overtaken
        PROVE  Carried(c, contracts', signals', SeenTxs, gone, mined[Accept(c)], mined[Cancelled(c)], height_app')
    BY <1>0, <1>1, <1>2, <2>2, CarriedEvolved
  <2> QED
    BY <2>1, <2>2 DEF CarriedInv
<1>3. ASSUME signals # << >>, signals' = Tail(signals), NEW c \in Contract, c \notin overtaken
      PROVE  Carried(c, contracts, signals', SeenTxs, gone, mined[Accept(c)], mined[Cancelled(c)], height_app)
  BY <1>0, <1>3, CarriedTail DEF CarriedInv
<1>4. CASE WalletMoves
  BY <1>4, CarriedMoves
<1>5. CASE money_transfer
  BY <1>5, CarriedMoney
<1>6. CASE money_transfer_cancel
  <2>1. signals # << >> /\ signals' = Tail(signals) /\ UNCHANGED walletVars
    BY <1>6, ReceiveIs DEF money_transfer_cancel
  <2>2. ListEvolved(contracts, contracts', height_app')
    BY <1>6, CancelSteps
  <2> QED
    BY <1>2, <1>3, <2>1, <2>2
<1>7. CASE prepareContractsAfterOpen
  BY <1>7, CarriedPrepare
<1>8. CASE wallet_closed
  <2>1. signals # << >> /\ signals' = Tail(signals)
    BY <1>8, ReceiveIs DEF wallet_closed
  <2>2. UNCHANGED <<walletVars, height_app>> /\ contracts' = << >>
    BY <1>8 DEF wallet_closed
  <2>3. SeenTxs' = SeenTxs /\ UNCHANGED <<overtaken, gone, mined>>
    BY <2>2 DEF walletVars, SeenTxs
  <2>4. Len(contracts') = 0
    BY <2>2
  <2> QED
    BY <1>3, <2>1, <2>2, <2>3, <2>4 DEF CarriedInv, Carried
<1>9. CASE get_contracts
  <2> DEFINE s == [type |-> "contracts", contracts |-> m_contracts]
  <2>1. signals' = Append(signals, s) /\ UNCHANGED <<walletVars, contracts>> /\ calls = Asking
    BY <1>9, CallIs DEF get_contracts, guiIdle
  <2>2. s \in Signal /\ ~Money(s) /\ Answer(s) /\ s.contracts = m_contracts
    BY OtherSignalsAre DEF Answer, Money
  <2>3. ~HasType(signals, Moves)
    BY <2>1 DEF SessionInv
  <2>4. \A e \in Elems(signals) : ~Money(e)
    BY <1>0, <2>3, HasElem DEF Money, Moves
  <2>5. ListEvolved(contracts, contracts', height_app')
    BY <2>1, StaysEvolved
  <2> HIDE DEF s
  <2>6. ASSUME NEW c \in Contract, c \notin overtaken
        PROVE  Answered(c, s, signals, SeenTxs, gone, mined[Accept(c)], mined[Cancelled(c)])
    <3> DEFINE con == m_contracts[c]
               K == KindsOf(c, SeenTxs)
               a == mined[Accept(c)]
               r == mined[Cancelled(c)]
    <3>1. Ord(con.state, con.height, con.cancel_expiration_time, K, KindsOf(c, gone), a, r, tip)
      BY <2>6 DEF WalletInv, Ordered, OrderedAt
    <3>2. /\ Accept(c) \in SeenTxs <=> "accept" \in K
          /\ Request(c) \in SeenTxs <=> "cancel" \in K
          /\ Cancelled(c) \in SeenTxs <=> "release_cancel" \in K
      BY KindsAre DEF Accept, Request, Cancelled
    <3>3. con.state \in 0..6
      BY Elements DEF Con
    <3> HIDE DEF con, K, a, r
    <3>4. (con.state \in Accepts => con.state = 2) /\ (con.state \in Cancels => con.state = 6)
      BY <3>3 DEF Accepts, Cancels
    <3>5. Backed(c, con.state, con.height, SeenTxs, gone, a, r)
      BY <3>1, <3>2, <3>3, <3>4 DEF Ord, Backed
    <3>6. Follow(signals, c, con.state, gone)
      BY <2>4 DEF Follow
    <3>7. s.contracts[c] = con
      BY <2>2 DEF con
    <3>8. Answered(c, s, signals, SeenTxs, gone, a, r)
      BY <3>5, <3>6, <3>7 DEF Answered
    <3> QED
      BY <3>8 DEF a, r
  <2>7. ASSUME NEW c \in Contract, c \notin overtaken
        PROVE  Carried(c, contracts, signals', SeenTxs, gone, mined[Accept(c)], mined[Cancelled(c)], height_app)
    BY <1>0, <2>1, <2>2, <2>6, <2>7, CarriedAppend DEF CarriedInv
  <2> QED
    BY <1>2, <2>1, <2>5, <2>7
<1>10. CASE openWallet
  <2>1. UNCHANGED <<walletVars, signals, contracts>>
    BY <1>10 DEF openWallet
  <2>2. ListEvolved(contracts, contracts', height_app')
    BY <2>1, StaysEvolved
  <2> QED
    BY <1>2, <2>1, <2>2 DEF CarriedInv
<1>11. CASE QuietTail
  BY <1>2, <1>3, <1>11 DEF QuietTail, Same
<1>12. CASE QuietAppend
  <2>1. PICK s \in Signal : signals' = Append(signals, s) /\ ~Money(s) /\ ~Answer(s)
    BY <1>12 DEF QuietAppend, Money, Answer
  <2>2. UNCHANGED walletVars /\ ListEvolved(contracts, contracts', height_app')
    BY <1>12 DEF QuietAppend, Same
  <2>3. ASSUME NEW c \in Contract, c \notin overtaken
        PROVE  Carried(c, contracts, signals', SeenTxs, gone, mined[Accept(c)], mined[Cancelled(c)], height_app)
    BY <1>0, <2>1, <2>3, CarriedAppend DEF CarriedInv
  <2> QED
    BY <1>2, <2>2, <2>3
<1>13. CASE Silent
  BY <1>2, <1>13 DEF Silent, Same, CarriedInv
<1> QED
  BY <1>4, <1>5, <1>6, <1>7, <1>8, <1>9, <1>10, <1>11, <1>12, <1>13, StepKinds

-----------------------------------------------------------------------------
(* The state that the GUI shows, or will show once the signals on their    *)
(* way are delivered, fits the wallet's.                                   *)

\* the states s that fit a contract in state r of the wallet
Fits(c, r, s, G) ==
  \/ s = 140
  \/ r = 1 /\ (s = 1 \/ s = 110)
  \/ r = 2 /\ (s = 2 \/ s = 201 \/ s = 5 \/ s = 130 \/ s = 601 \/ (s = 6 /\ Cancelled(c) \in G))
  \/ r = 5 /\ (s = 5 \/ s = 130)
  \/ r = 6 /\ (s = 6 \/ s = 601)
  \/ r # 1 /\ r # 2 /\ r # 5 /\ r # 6 /\ s = r

\* the signal at i is the first of its transaction, which the history H does
\* not hold: its state is the one that the handler will show
NewAt(q, i, c, H) ==
  /\ Money(q[i]) /\ q[i].tx[1] = c /\ q[i].tx \notin H
  /\ \A j \in 1..Len(q) : j < i /\ Money(q[j]) => q[j].tx # q[i].tx
NoneNew(q, c, H) == \A i \in 1..Len(q) : ~NewAt(q, i, c, H)
LastFits(q, c, H, r, G) ==
  \A i \in 1..Len(q) :
    NewAt(q, i, c, H) /\ (\A j \in 1..Len(q) : NewAt(q, j, c, H) => j <= i)
      => Fits(c, r, StateOf(q[i].tx[2]), G)

\* the entries and the answers fit
Standing(c, L, q, r, G) ==
  /\ \A i \in 1..Len(L) : L[i].id = c => Fits(c, r, L[i].state, G)
  /\ \A e \in Elems(q) : Answer(e) => Fits(c, r, e.contracts[c].state, G)
Lasting(c, L, q, H, r, G) ==
  /\ LastFits(q, c, H, r, G)
  /\ NoneNew(q, c, H) => Standing(c, L, q, r, G)
LastInv ==
  \A c \in Contract \ overtaken : Lasting(c, contracts, signals, history, m_contracts[c].state, gone)

LEMMA FitsItself == ASSUME NEW c, NEW r, NEW G PROVE Fits(c, r, r, G)
  BY DEF Fits

\* a state shown in one of the GUI's own
LEMMA FitsStands ==
  ASSUME NEW c, NEW r \in 0..6, NEW s \in 0..6, NEW G, Fits(c, r, s, G), NEW f,
         f = 140 \/ f \in Stands(s) \/ (f = 130 /\ s = 2)
  PROVE  Fits(c, r, f, G)
<1>1. s \in {0, 1, 2, 3, 4, 5, 6}
  OBVIOUS
<1>2. CASE f = 140
  BY <1>2 DEF Fits
<1>3. CASE s = 1 /\ f \in Stands(s)
  BY <1>3 DEF Fits, Stands
<1>4. CASE s = 2 /\ (f \in Stands(s) \/ f = 130)
  BY <1>4 DEF Fits, Stands
<1>5. CASE s = 5 /\ f \in Stands(s)
  BY <1>5 DEF Fits, Stands
<1>6. CASE s = 6 /\ f \in Stands(s)
  BY <1>6 DEF Fits, Stands
<1>7. CASE s \in {0, 3, 4} /\ f \in Stands(s)
  BY <1>7 DEF Fits, Stands
<1> QED
  BY <1>1, <1>2, <1>3, <1>4, <1>5, <1>6, <1>7

LEMMA NewTail ==
  ASSUME NEW q \in Seq(Signal), q # << >>, NEW c, NEW H, NEW I,
         \A e \in Elems(Tail(q)) : Money(e) =>
            (e.tx \in I <=> e.tx \in H \/ (Money(q[1]) /\ e.tx = q[1].tx))
  PROVE  \A i \in 1..Len(Tail(q)) : NewAt(Tail(q), i, c, I) <=> NewAt(q, i + 1, c, H)
<1> DEFINE p == Tail(q)
<1>1. \A i \in 1..Len(p) : i \in Int /\ p[i] = q[i + 1] /\ i + 1 \in 1..Len(q) /\ 1 < i + 1 /\ p[i] \in Elems(p)
  BY TailIs DEF Elems
<1>2. \A i \in 1..Len(q) : i \in Int /\ (i = 1 \/ (i - 1 \in 1..Len(p) /\ p[i - 1] = q[i]))
  BY TailIs
<1>3. 1 \in 1..Len(q)
  BY TailIs
<1> HIDE DEF p
<1>4. SUFFICES ASSUME NEW i \in 1..Len(p) PROVE NewAt(p, i, c, I) <=> NewAt(q, i + 1, c, H)
  BY DEF p
<1>5. p[i] = q[i + 1] /\ i \in Int /\ 1 < i + 1 /\ i + 1 \in 1..Len(q)
  BY <1>1
<1>6. Money(p[i]) => (p[i].tx \in I <=> p[i].tx \in H \/ (Money(q[1]) /\ p[i].tx = q[1].tx))
  BY <1>1 DEF p
<1>7. ASSUME NewAt(p, i, c, I) PROVE NewAt(q, i + 1, c, H)
  <2>1. ASSUME NEW j \in 1..Len(q), j < i + 1, Money(q[j]) PROVE q[j].tx # q[i + 1].tx
    <3>1. CASE j = 1
      BY <1>5, <1>6, <1>7, <2>1, <3>1 DEF NewAt
    <3>2. CASE j # 1
      <4>1. j - 1 \in 1..Len(p) /\ p[j - 1] = q[j] /\ j - 1 < i
        BY <1>2, <1>5, <2>1, <3>2
      <4> QED
        BY <1>5, <1>7, <2>1, <4>1 DEF NewAt
    <3> QED
      BY <3>1, <3>2
  <2> QED
    BY <1>5, <1>6, <1>7, <2>1 DEF NewAt
<1>8. ASSUME NewAt(q, i + 1, c, H) PROVE NewAt(p, i, c, I)
  <2>1. ASSUME NEW j \in 1..Len(p), j < i, Money(p[j]) PROVE p[j].tx # p[i].tx
    <3>1. j + 1 \in 1..Len(q) /\ p[j] = q[j + 1] /\ j + 1 < i + 1
      BY <1>1, <1>5, <2>1
    <3> QED
      BY <1>5, <1>8, <2>1, <3>1 DEF NewAt
  <2>2. Money(q[1]) => q[1].tx # q[i + 1].tx
    BY <1>3, <1>5, <1>8 DEF NewAt
  <2> QED
    BY <1>5, <1>6, <1>8, <2>1, <2>2 DEF NewAt
<1> QED
  BY <1>7, <1>8

\* after the first signal is taken, the last of the new ones is the same
LEMMA LastTail ==
  ASSUME NEW q \in Seq(Signal), q # << >>, NEW c, NEW H, NEW I, NEW r, NEW G, LastFits(q, c, H, r, G),
         \A e \in Elems(Tail(q)) : Money(e) =>
            (e.tx \in I <=> e.tx \in H \/ (Money(q[1]) /\ e.tx = q[1].tx))
  PROVE  /\ LastFits(Tail(q), c, I, r, G)
         /\ NoneNew(Tail(q), c, I) => NoneNew(q, c, H) \/ (NewAt(q, 1, c, H) /\ Fits(c, r, StateOf(q[1].tx[2]), G))
<1> DEFINE p == Tail(q)
<1>1. \A i \in 1..Len(p) : NewAt(p, i, c, I) <=> NewAt(q, i + 1, c, H)
  BY NewTail
<1>2. \A i \in 1..Len(p) : i \in Int /\ p[i] = q[i + 1] /\ i + 1 \in 1..Len(q)
  BY TailIs
<1>3. \A i \in 1..Len(q) : i \in Int /\ (i = 1 \/ i - 1 \in 1..Len(p))
  BY TailIs
<1>4. 1 \in 1..Len(q)
  BY TailIs
<1> HIDE DEF p
<1>5. LastFits(p, c, I, r, G)
  <2>1. SUFFICES ASSUME NEW i \in 1..Len(p), NewAt(p, i, c, I), \A j \in 1..Len(p) : NewAt(p, j, c, I) => j <= i
                 PROVE  Fits(c, r, StateOf(p[i].tx[2]), G)
    BY DEF LastFits
  <2>2. ASSUME NEW j \in 1..Len(q), NewAt(q, j, c, H) PROVE j <= i + 1
    <3>1. CASE j = 1
      BY <1>2, <3>1
    <3>2. CASE j # 1
      <4>1. j - 1 \in 1..Len(p) /\ (j - 1) + 1 = j
        BY <1>3, <3>2
      <4>2. NewAt(p, j - 1, c, I)
        BY <1>1, <2>2, <4>1
      <4> QED
        BY <1>2, <1>3, <2>1, <4>1, <4>2
    <3> QED
      BY <3>1, <3>2
  <2> QED
    BY <1>1, <1>2, <2>1, <2>2 DEF LastFits
<1>6. ASSUME NoneNew(p, c, I), NEW j \in 1..Len(q), NewAt(q, j, c, H)
      PROVE  j = 1
  <2>1. CASE j # 1
    <3>1. j - 1 \in 1..Len(p) /\ (j - 1) + 1 = j
      BY <1>3, <2>1
    <3> QED
      BY <1>1, <1>6, <3>1 DEF NoneNew
  <2> QED
    BY <2>1
<1>7. ASSUME NoneNew(p, c, I), ~NoneNew(q, c, H) PROVE NewAt(q, 1, c, H) /\ Fits(c, r, StateOf(q[1].tx[2]), G)
  <2>1. NewAt(q, 1, c, H)
    BY <1>6, <1>7 DEF NoneNew
  <2>2. \A j \in 1..Len(q) : NewAt(q, j, c, H) => j <= 1
    BY <1>6, <1>7
  <2> QED
    BY <1>4, <2>1, <2>2 DEF LastFits
<1> QED
  BY <1>5, <1>7 DEF p

LEMMA NewAppend ==
  ASSUME NEW q \in Seq(Signal), NEW s \in Signal, NEW c, NEW H
  PROVE  /\ \A i \in 1..Len(q) : NewAt(Append(q, s), i, c, H) <=> NewAt(q, i, c, H)
         /\ NewAt(Append(q, s), Len(q) + 1, c, H) <=>
              /\ Money(s) /\ s.tx[1] = c /\ s.tx \notin H
              /\ \A e \in Elems(q) : Money(e) => e.tx # s.tx
<1> DEFINE p == Append(q, s)
<1>0. Len(q) \in Nat /\ p[Len(q) + 1] = s
  BY AppendIs
<1>1. \A i \in 1..Len(q) : i \in Int /\ i < Len(q) + 1 /\ p[i] = q[i] /\ i \in 1..Len(p) /\ q[i] \in Elems(q)
  BY AppendIs DEF Elems
<1>2. \A i \in 1..Len(p) : i \in Int /\ (i = Len(q) + 1 \/ i \in 1..Len(q))
  BY AppendIs
<1> HIDE DEF p
<1>3. ASSUME NEW i \in 1..Len(q) PROVE NewAt(p, i, c, H) <=> NewAt(q, i, c, H)
  <2>1. ASSUME NEW j \in 1..Len(p), j < i PROVE j \in 1..Len(q)
    BY <1>0, <1>1, <1>2, <2>1
  <2> QED
    BY <1>1, <2>1 DEF NewAt
<1>4. ASSUME \A e \in Elems(q) : Money(e) => e.tx # s.tx,
             NEW j \in 1..Len(p), j < Len(q) + 1, Money(p[j])
      PROVE  p[j].tx # s.tx
  BY <1>0, <1>1, <1>2, <1>4
<1>5. ASSUME \A j \in 1..Len(p) : j < Len(q) + 1 /\ Money(p[j]) => p[j].tx # s.tx,
             NEW e \in Elems(q), Money(e)
      PROVE  e.tx # s.tx
  <2>1. PICK i \in 1..Len(q) : e = q[i]
    BY DEF Elems
  <2> QED
    BY <1>1, <1>5, <2>1
<1>6. NewAt(p, Len(q) + 1, c, H) <=> /\ Money(s) /\ s.tx[1] = c /\ s.tx \notin H
                                     /\ \A e \in Elems(q) : Money(e) => e.tx # s.tx
  BY <1>0, <1>4, <1>5 DEF NewAt
<1> QED
  BY <1>3, <1>6 DEF p

\* a signal that is not a new one of the contract
LEMMA LastAppend ==
  ASSUME NEW q \in Seq(Signal), NEW s \in Signal, NEW c, NEW H, NEW r, NEW G,
         ~Money(s) \/ s.tx[1] # c \/ s.tx \in H \/ \E e \in Elems(q) : Money(e) /\ e.tx = s.tx
  PROVE  /\ LastFits(q, c, H, r, G) => LastFits(Append(q, s), c, H, r, G)
         /\ NoneNew(Append(q, s), c, H) => NoneNew(q, c, H)
<1> DEFINE p == Append(q, s)
<1>1. ~NewAt(p, Len(q) + 1, c, H)
  BY NewAppend
<1>2. \A i \in 1..Len(q) : i \in 1..Len(p) /\ p[i] = q[i] /\ (NewAt(p, i, c, H) <=> NewAt(q, i, c, H))
  <2>1. \A i \in 1..Len(q) : i \in 1..Len(p) /\ p[i] = q[i]
    BY AppendIs
  <2>2. \A i \in 1..Len(q) : NewAt(p, i, c, H) <=> NewAt(q, i, c, H)
    BY NewAppend
  <2> HIDE DEF p
  <2> QED
    BY <2>1, <2>2
<1>3. \A i \in 1..Len(p) : i = Len(q) + 1 \/ i \in 1..Len(q)
  BY AppendIs
<1> HIDE DEF p
<1>4. ASSUME LastFits(q, c, H, r, G) PROVE LastFits(p, c, H, r, G)
  BY <1>1, <1>2, <1>3, <1>4 DEF LastFits
<1>5. ASSUME NoneNew(p, c, H) PROVE NoneNew(q, c, H)
  BY <1>2, <1>5 DEF NoneNew
<1> QED
  BY <1>4, <1>5 DEF p

\* a new signal of the contract is the last one
LEMMA LastNew ==
  ASSUME NEW q \in Seq(Signal), NEW s \in Signal, NEW c, NEW H, NEW r, NEW G,
         Money(s), s.tx[1] = c, s.tx \notin H, \A e \in Elems(q) : Money(e) => e.tx # s.tx,
         Fits(c, r, StateOf(s.tx[2]), G)
  PROVE  LastFits(Append(q, s), c, H, r, G) /\ ~NoneNew(Append(q, s), c, H)
<1> DEFINE p == Append(q, s)
<1>1. NewAt(p, Len(q) + 1, c, H)
  BY NewAppend
<1>2. Len(q) \in Nat /\ Len(q) + 1 \in 1..Len(p) /\ p[Len(q) + 1] = s
  BY AppendIs
<1>3. \A i \in 1..Len(p) : i = Len(q) + 1 \/ i \in 1..Len(q)
  BY AppendIs
<1> HIDE DEF p
<1>4. LastFits(p, c, H, r, G)
  <2>1. SUFFICES ASSUME NEW i \in 1..Len(p), \A j \in 1..Len(p) : NewAt(p, j, c, H) => j <= i
                 PROVE  Fits(c, r, StateOf(p[i].tx[2]), G)
    BY DEF LastFits
  <2>2. Len(q) + 1 <= i
    BY <1>1, <1>2, <2>1
  <2>3. i = Len(q) + 1
    BY <1>2, <1>3, <2>2
  <2> QED
    BY <1>2, <2>3
<1>5. ~NoneNew(p, c, H)
  BY <1>1, <1>2 DEF NoneNew
<1> QED
  BY <1>4, <1>5 DEF p

\* what fits the contract before its requests expire fits it afterwards
LEMMA FitsExpire ==
  ASSUME TypeInv, WalletInv, WalletInv', NEW found \in SUBSET Tx, NEW dropped \in SUBSET Tx, NEW h,
         WalletStep(found, dropped, h), NEW c \in Contract, c \notin overtaken',
         NEW s, Fits(c, Now(found, h, c).state, s, gone)
  PROVE  Fits(c, m_contracts'[c].state, s, gone')
<1> DEFINE now == Now(found, h, c)
           r == m_contracts'[c].state
           K == KindsOf(c, SeenTxs')
           G == KindsOf(c, gone')
<1>1. r = IF h # 0 /\ Lapses(now) THEN 2 ELSE now.state
  BY StepState
<1>2. gone \subseteq gone'
  BY DEF WalletStep
<1>3. ASSUME now.state = 6, r = 2 PROVE Cancelled(c) \in gone'
  <2>1. Ord(now.state, now.height, now.cancel_expiration_time, K, KindsOf(c, gone),
            mined'[Accept(c)], mined'[Cancelled(c)], tip)
    BY OrdNow
  <2>2. "release_cancel" \in K
    BY <1>3, <2>1 DEF Ord
  <2>3. Ord(r, m_contracts'[c].height, m_contracts'[c].cancel_expiration_time, K, G,
            mined'[Accept(c)], mined'[Cancelled(c)], tip')
    BY DEF WalletInv, Ordered, OrderedAt
  <2>4. "release_cancel" \in G
    BY <1>3, <2>2, <2>3 DEF Ord
  <2> QED
    BY <2>4, KindsAre DEF Cancelled
<1>4. r = now.state \/ (r = 2 /\ (now.state = 5 \/ now.state = 6))
  BY <1>1 DEF Lapses
<1> HIDE DEF now, r
<1>5. Fits(c, r, s, gone')
  <2>1. Fits(c, now.state, s, gone)
    BY DEF now
  <2>2. CASE r = now.state
    BY <1>2, <2>1, <2>2 DEF Fits
  <2>3. CASE r = 2 /\ now.state = 5
    BY <2>1, <2>3 DEF Fits
  <2>4. CASE r = 2 /\ now.state = 6
    BY <1>3, <2>1, <2>4 DEF Fits
  <2> QED
    BY <1>4, <2>2, <2>3, <2>4
<1> QED
  BY <1>5 DEF r

\* a transaction found again changes nothing that fits
LEMMA FitsAgain ==
  ASSUME TypeInv, WalletInv, WalletInv', NEW found \in SUBSET Tx, NEW dropped \in SUBSET Tx, NEW h,
         WalletStep(found, dropped, h), NEW c \in Contract, c \notin overtaken', NEW k \in Kind, <<c, k>> \in found,
         <<c, k>> \in SeenTxs, NEW s, Fits(c, m_contracts[c].state, s, gone)
  PROVE  Fits(c, m_contracts'[c].state, s, gone')
<1> DEFINE con == m_contracts[c]
           now == Now(found, h, c)
           K == KindsOf(c, SeenTxs)
           G == KindsOf(c, gone)
<1>1. /\ c \notin overtaken /\ ~Refused(con, k)
      /\ k = "proposal" => ~(con.state > 1)
      /\ k = "accept" => ~(con.state > 2)
  BY InOrder
<1>2. Ord(con.state, con.height, con.cancel_expiration_time, K, G, mined[Accept(c)], mined[Cancelled(c)], tip)
  BY <1>1 DEF WalletInv, Ordered, OrderedAt
<1>3. con \in Con /\ Sound(con) /\ con.state \in 0..6
  BY Elements DEF Con
<1>4. Mineable(<<c, k>>) /\ (h = 0 => Publishable(<<c, k>>)) /\ h \in 0..MaxHeight /\ <<c, k>> \in Tx
  BY DEF WalletStep
<1>5. <<c, k>> \notin gone
  BY <1>4, FoundAllowed DEF WalletInv
<1>6. h # 0
  BY <1>4, SeenIs DEF Publishable
<1>7. now = process_contract_info(con, k, h)
  BY StepContract
<1>8. now.state = StateOf(k)
  BY <1>1, <1>3, <1>4, <1>7, ProcessFields
<1>9. K \cup KindsOf(c, found) = K /\ KindsOf(c, SeenTxs') = K
  <2>1. KindsOf(c, found) \subseteq K
    <3>1. k \in KindsOf(c, found) /\ k \in K
      BY KindsAre
    <3>2. KindsOf(c, found) = {} \/ \E l \in Kind : KindsOf(c, found) = {l}
      BY ViewFound
    <3> HIDE DEF K
    <3> QED
      BY <3>1, <3>2
  <2>2. KindsOf(c, SeenTxs') = K \cup KindsOf(c, found)
    BY ViewKinds
  <2> HIDE DEF K
  <2> QED
    BY <2>1, <2>2
<1>10. Ord(now.state, now.height, now.cancel_expiration_time, K, G, mined'[Accept(c)], mined'[Cancelled(c)], tip)
  BY <1>9, OrdNow
<1>11. k \in K /\ (k = "release_cancel" => "release_cancel" \notin G)
  BY <1>5, KindsAre
<1>12. "cancel" \in K => now.cancel_expiration_time = con.cancel_expiration_time
  BY <1>2, <1>10 DEF Ord
<1>13. k \in Cancel => "cancel" \in K
  <2>1. Pre(K, mined[Accept(c)])
    BY DEF WalletInv, Preceded
  <2> QED
    BY <1>11, <2>1 DEF Pre, Cancel
<1>14. k = "proposal" => con.state # 0
  <2>1. k = "proposal" => con # NoContract
    BY DEF WalletInv, Exists, Proposal
  <2> QED
    BY <1>3, <2>1 DEF Sound
<1>15. m_contracts'[c].state = IF h # 0 /\ Lapses(now) THEN 2 ELSE now.state
  BY StepState
<1>16. con.cancel_expiration_time \in Nat /\ ("cancel" \in K => con.cancel_expiration_time # 0)
  <2>1. con.cancel_expiration_time \in Nat
    BY <1>3, Numbers DEF Con
  <2>2. CancelTime["cancel"] # 0 /\ CancelTime["recancel"] # 0
    BY KindFacts
  <2> QED
    BY <1>2, <2>1, <2>2 DEF Ord
<1> HIDE DEF con, now, K, G
<1>17. CASE con.state = now.state
  BY <1>17, FitsExpire DEF con, now
<1>18. CASE k \in Cancel /\ con.state = 2
  <2>1. now.state = 5
    BY <1>8, <1>18, StateIs DEF Cancel
  <2>2. con.cancel_expiration_time <= tip
    BY <1>2, <1>13, <1>18 DEF Ord
  <2>3. Lapses(now)
    BY <1>12, <1>13, <1>16, <1>18, <2>1, <2>2 DEF Lapses, Expired, median
  <2>4. m_contracts'[c].state = con.state /\ gone \subseteq gone'
    BY <1>6, <1>15, <1>18, <2>3 DEF WalletStep
  <2>5. Fits(c, con.state, s, gone)
    BY DEF con
  <2> QED
    BY <2>4, <2>5 DEF Fits
<1>19. CASE k = "proposal"
  <2>1. con.state = 1
    BY <1>1, <1>3, <1>14, <1>19
  <2> QED
    BY <1>8, <1>17, <1>19, <2>1, StateIs
<1>20. CASE k = "accept"
  <2>1. con.state >= 2
    BY <1>2, <1>11, <1>20 DEF Ord
  <2>2. con.state = 2
    BY <1>1, <1>3, <1>20, <2>1
  <2> QED
    BY <1>8, <1>17, <1>20, <2>2, StateIs
<1>21. CASE k \in Cancel /\ con.state # 2
  <2>1. con.state = 5
    BY <1>1, <1>21 DEF Refused, contract_accepted, cancel_proposal_sent
  <2> QED
    BY <1>8, <1>17, <1>21, <2>1, StateIs DEF Cancel
<1>22. CASE k \in Release
  <2>1. con.state = StateOf(k)
    BY <1>2, <1>11, <1>22, StateIs DEF Ord, Release
  <2> QED
    BY <1>8, <1>17, <2>1
<1> QED
  BY <1>18, <1>19, <1>20, <1>21, <1>22, KindFacts

LEMMA LastMoves ==
  ASSUME TypeInv, SessionInv, WalletInv, WalletInv', DeliveryInv, LastInv, WalletMoves
  PROVE  LastInv'
<1>1. PICK found, dropped \in SUBSET Tx, h \in 0..MaxHeight : WalletStep(found, dropped, h)
  BY DEF WalletMoves
<1>2. contracts' = contracts /\ history' = history /\ phase = "open"
  BY DEF WalletMoves, SessionInv
<1>3. SUFFICES ASSUME NEW c \in Contract, c \notin overtaken'
               PROVE  Lasting(c, contracts', signals', history', m_contracts'[c].state, gone')
  BY DEF LastInv
<1> DEFINE r == m_contracts[c].state
           u == m_contracts'[c].state
           q == WithMoney(signals, found, h)
           m == money_transfer_signal(TheOnly(found), h)
           x == money_transfer_cancel_signal(TheOnly(dropped))
<1>4. Lasting(c, contracts, signals, history, r, gone)
  BY <1>1, <1>3, InOrder DEF LastInv
<1>5. ASSUME NEW t \in found, t[1] = c PROVE t[2] \in Kind /\ t = <<c, t[2]>> /\ t \in Tx
  BY <1>5, KindFacts
<1>6. q \in Seq(Signal) /\ signals' = WithCancel(q, dropped) /\ signals \in Seq(Signal)
  BY <1>1, StepSignals DEF TypeInv
<1>7. found # {} => TheOnly(found) \in found /\ \A t \in found : t = TheOnly(found)
  BY <1>1, TheOnlyIs DEF WalletStep, AtMostOne
<1>8. dropped # {} => TheOnly(dropped) \in dropped
  BY <1>1, TheOnlyIs DEF WalletStep, AtMostOne
<1>9. found # {} => m \in Signal /\ m.tx \in found /\ Money(m) /\ \A t \in found : t = m.tx
  BY <1>7, MoneySignalIs DEF Money
<1>10. dropped # {} => x \in Signal /\ ~Money(x)
  BY <1>8, CancelSignalIs DEF Money
<1>11. q = IF found = {} THEN signals ELSE Append(signals, m)
  BY DEF WithMoney
<1>12. signals' = IF dropped = {} THEN q ELSE Append(q, x)
  BY <1>6 DEF WithCancel
<1> HIDE DEF q, m, x
<1>13. /\ LastFits(q, c, history, u, gone') => LastFits(signals', c, history, u, gone')
       /\ NoneNew(signals', c, history) => NoneNew(q, c, history)
  <2>1. CASE dropped = {}
    BY <1>12, <2>1
  <2>2. CASE dropped # {}
    BY <1>6, <1>10, <1>12, <2>2, LastAppend
  <2> QED
    BY <2>1, <2>2
<1>14. CASE found # {} /\ m.tx[1] = c /\ m.tx \notin SeenTxs
  <2> DEFINE k == m.tx[2]
  <2>1. k \in Kind /\ <<c, k>> \in found
    BY <1>5, <1>9, <1>14
  <2>2. m_contracts[c] \in Con /\ Sound(m_contracts[c]) /\ ~Refused(m_contracts[c], k)
    BY <1>1, <1>3, <2>1, InOrder, Elements
  <2>3. Now(found, h, c) = process_contract_info(m_contracts[c], k, h)
    BY <1>1, <2>1, StepContract
  <2>4. Now(found, h, c).state = StateOf(k)
    BY <2>1, <2>2, <2>3, ProcessFields
  <2>5. Fits(c, Now(found, h, c).state, StateOf(k), gone)
    BY <2>4, FitsItself
  <2>6. Fits(c, u, StateOf(k), gone')
    BY <1>1, <1>3, <2>5, FitsExpire
  <2>7. m.tx \notin history /\ \A e \in Elems(signals) : Money(e) => e.tx # m.tx
    BY <1>14 DEF DeliveryInv, SeenSignals
  <2>8. LastFits(q, c, history, u, gone') /\ ~NoneNew(q, c, history)
    BY <1>6, <1>9, <1>11, <1>14, <2>6, <2>7, LastNew
  <2> QED
    BY <1>2, <1>13, <2>8 DEF Lasting
<1>15. CASE ~(found # {} /\ m.tx[1] = c /\ m.tx \notin SeenTxs)
  <2>1. ASSUME NEW s, Fits(c, r, s, gone) PROVE Fits(c, u, s, gone')
    <3>1. CASE \E t \in found : t[1] = c
      <4>1. PICK t \in found : t[1] = c
        BY <3>1
      <4>2. t = m.tx /\ t \in SeenTxs /\ t[2] \in Kind /\ t = <<c, t[2]>>
        BY <1>5, <1>9, <1>15, <4>1
      <4> QED
        BY <1>1, <1>3, <2>1, <4>1, <4>2, FitsAgain
    <3>2. CASE \A t \in found : t[1] # c
      <4>1. Now(found, h, c) = m_contracts[c]
        BY <1>1, <3>2, StepContract
      <4> QED
        BY <1>1, <1>3, <2>1, <4>1, FitsExpire
    <3> QED
      BY <3>1, <3>2
  <2>2. LastFits(signals, c, history, u, gone')
    BY <1>4, <2>1 DEF Lasting, LastFits
  <2>3. /\ LastFits(q, c, history, u, gone')
        /\ NoneNew(q, c, history) => NoneNew(signals, c, history)
    <3>1. CASE found = {}
      BY <1>11, <2>2, <3>1
    <3>2. CASE found # {}
      <4>1. m.tx \in SeenTxs => m.tx \in history \/ \E e \in Elems(signals) : Money(e) /\ e.tx = m.tx
        <5> DEFINE t == m.tx
        <5>1. t \in Tx /\ Mineable(t)
          BY <1>1, <1>9, <3>2 DEF WalletStep
        <5> HIDE DEF t
        <5>2. t \in SeenTxs => t \in m_unconfirmed_txs
          BY <5>1, SeenIs DEF Mineable, Publishable
        <5>3. t \in SeenTxs => t \in history \/ \E e \in Elems(signals) : Money(e) /\ e.tx = t
          BY <1>2, <5>2 DEF DeliveryInv, Reported
        <5> QED
          BY <5>3 DEF t
      <4>2. ~Money(m) \/ m.tx[1] # c \/ m.tx \in history \/ \E e \in Elems(signals) : Money(e) /\ e.tx = m.tx
        BY <1>15, <3>2, <4>1
      <4> QED
        BY <1>6, <1>9, <1>11, <2>2, <3>2, <4>2, LastAppend
    <3> QED
      BY <3>1, <3>2
  <2>4. ASSUME NEW e \in Elems(signals'), Answer(e) PROVE e \in Elems(signals)
    BY <1>1, <2>4, MovesElem DEF Answer, Money, Dropping
  <2>5. Standing(c, contracts, signals, r, gone) => Standing(c, contracts, signals', u, gone')
    BY <2>1, <2>4 DEF Standing
  <2> QED
    BY <1>2, <1>4, <1>13, <2>3, <2>5 DEF Lasting
<1> QED
  BY <1>14, <1>15

LEMMA LastMoney ==
  ASSUME TypeInv, SessionInv, WalletInv, ListInv, DeliveryInv, LastInv, money_transfer
  PROVE  LastInv'
<1> DEFINE t == Head(signals).tx
           con == Head(signals).contract
<1>1. signals # << >> /\ signals' = Tail(signals) /\ signals[1] = Head(signals) /\ Money(signals[1])
      /\ signals \in Seq(Signal) /\ signals' \in Seq(Signal) /\ signals[1].type = "money_transfer"
  BY ReceiveIs DEF money_transfer, Money, TypeInv
<1>2. UNCHANGED walletVars /\ history' = history \cup {t}
  BY DEF money_transfer
<1>3. UNCHANGED <<overtaken, gone, m_contracts>>
  BY <1>2 DEF walletVars
<1>4. SUFFICES ASSUME NEW c \in Contract, c \notin overtaken
               PROVE  Lasting(c, contracts', signals', history', m_contracts[c].state, gone)
  BY <1>3 DEF LastInv
<1> DEFINE r == m_contracts[c].state
<1>5. Lasting(c, contracts, signals, history, r, gone)
  BY <1>4 DEF LastInv
<1>6. /\ LastFits(signals', c, history', r, gone)
      /\ NoneNew(signals', c, history') =>
           NoneNew(signals, c, history) \/ (NewAt(signals, 1, c, history) /\ Fits(c, r, StateOf(t[2]), gone))
  <2>1. \A e \in Elems(Tail(signals)) : Money(e) =>
          (e.tx \in history' <=> e.tx \in history \/ (Money(signals[1]) /\ e.tx = signals[1].tx))
    BY <1>1, <1>2
  <2>2. LastFits(signals, c, history, r, gone) /\ signals[1].tx[2] = t[2]
    BY <1>1, <1>5 DEF Lasting
  <2> HIDE DEF r, t
  <2> QED
    BY <1>1, <2>1, <2>2, LastTail
<1>7. \A e \in Elems(signals') : ~Answer(e)
  <2>1. ~HasType(signals', Asked)
    BY <1>1, ShapeTail DEF SessionInv, State
  <2> QED
    BY <1>1, <2>1, HasElem DEF Answer, Asked
<1>8. signals[1] \in Elems(signals)
  BY <1>1, ElemsTail
<1>9. Carrying(signals[1])
  BY <1>1, <1>8 DEF DeliveryInv
<1>10. con \in Con /\ Sound(con) /\ t \in Tx
  BY MoneyList
<1>11. r \in 0..6 /\ con.state \in 0..6
  BY <1>10, Elements DEF Con
<1>12. \A d, s : Entry(d, con, s).id = d /\ Entry(d, con, s).state = s
  BY DEF Entry
<1>13. contracts \in Seq(Listing)
  BY DEF TypeInv
<1>14. NewAt(signals, 1, c, history) => t[1] = c /\ t \notin history
  BY <1>1 DEF NewAt
<1>15. t[1] = c /\ t \notin history => NewAt(signals, 1, c, history) /\ 1 \in 1..Len(signals)
  <2>1. \A j \in 1..Len(signals) : ~(j < 1)
    OBVIOUS
  <2>2. 1 \in 1..Len(signals)
    BY <1>1, TailIs
  <2> QED
    BY <1>1, <2>1, <2>2 DEF NewAt
<1>16. ASSUME NoneNew(signals', c, history'), NEW i \in 1..Len(contracts'), contracts'[i].id = c
       PROVE  Fits(c, r, contracts'[i].state, gone)
  <2> DEFINE s == StateAfterTransfer(t[1], con)
             n == Entry(t[1], con, s)
  <2>1. Listed(t[1]) => contracts[First(t[1])].id = t[1]
    BY PositionIs DEF ListInv
  <2>2. ASSUME NEW j \in 1..Len(contracts), contracts[j].id = t[1] PROVE Listed(t[1]) /\ j = First(t[1])
    BY <2>2, PositionIs DEF ListInv
  <2>3. CASE t[1] = c /\ t \notin history
    <3>1. Fits(c, r, StateOf(t[2]), gone)
      BY <1>6, <1>15, <1>16, <2>3 DEF NoneNew
    <3>2. con # NoContract /\ con.state = StateOf(t[2]) /\ con.state # 0
      BY <1>1, <1>4, <1>9, <1>10, <2>3 DEF Carrying, Sound
    <3>3. s \in Stands(con.state)
      BY <1>10, <3>2, TransferState
    <3>4. Fits(c, r, s, gone)
      <4> HIDE DEF r, s, con
      <4> QED
        BY <1>11, <3>1, <3>2, <3>3, FitsStands
    <3>5. contracts'[i] = n
      <4>1. CASE Listed(t[1])
        <5>1. Len(contracts') = Len(contracts) /\ \A j \in 1..Len(contracts) : contracts'[j] = IF j = First(t[1]) THEN n ELSE contracts[j]
          <6> HIDE DEF t, con, s
          <6> QED
            BY <2>3, <3>2, <4>1, MoneyList DEF t, con, s
        <5> HIDE DEF n
        <5> QED
          BY <1>16, <2>2, <2>3, <5>1
      <4>2. CASE ~Listed(t[1])
        <5>1. contracts' = Append(contracts, n) /\ n \in Listing
          <6> HIDE DEF t, con, s
          <6> QED
            BY <2>3, <3>2, <4>2, MoneyList DEF t, con, s
        <5> HIDE DEF n
        <5>2. (i \in 1..Len(contracts) /\ contracts'[i] = contracts[i]) \/ contracts'[i] = n
          BY <1>13, <1>16, <5>1
        <5> QED
          BY <1>16, <2>2, <2>3, <4>2, <5>2
      <4> QED
        BY <4>1, <4>2
    <3>6. n.state = s
      BY <1>12
    <3> HIDE DEF n, s, r
    <3> QED
      BY <3>4, <3>5, <3>6
  <2>4. CASE ~(t[1] = c /\ t \notin history)
    <3>1. NoneNew(signals, c, history)
      BY <1>6, <1>14, <1>16, <2>4
    <3>2. \A j \in 1..Len(contracts) : contracts[j].id = c => Fits(c, r, contracts[j].state, gone)
      BY <1>5, <3>1 DEF Lasting, Standing
    <3>3. CASE i \in 1..Len(contracts) /\ contracts'[i] = contracts[i]
      BY <1>16, <3>2, <3>3
    <3>4. CASE contracts'[i] = n /\ t \notin history
      BY <1>12, <1>16, <2>4, <3>4
    <3>5. CASE /\ i \in 1..Len(contracts) /\ contracts[i].id = t[1]
               /\ contracts'[i] = Entry(t[1], con, contracts[i].state)
      BY <1>12, <1>16, <3>2, <3>5
    <3>6. contracts' = Append(contracts, n) /\ n \in Listing =>
            (i \in 1..Len(contracts) /\ contracts'[i] = contracts[i]) \/ contracts'[i] = n
      BY <1>13, <1>16
    <3> HIDE DEF t, con, n, s
    <3> QED
      BY <1>16, <2>1, <3>3, <3>4, <3>5, <3>6, MoneyList DEF t, con, n, s
  <2> QED
    BY <2>3, <2>4
<1> HIDE DEF t, con, r
<1>17. Lasting(c, contracts', signals', history', r, gone)
  BY <1>6, <1>7, <1>16 DEF Lasting, Standing
<1> QED
  BY <1>17 DEF r

LEMMA FitsEvolved ==
  ASSUME TypeInv, WalletInv, NEW c \in Contract, c \notin overtaken, NEW e, NEW f, NEW n, Evolved(e, f, n),
         e.state \in Cancels => Cancelled(c) \in SeenTxs, Fits(c, m_contracts[c].state, e.state, gone)
  PROVE  Fits(c, m_contracts[c].state, f.state, gone)
<1> DEFINE r == m_contracts[c].state
           K == KindsOf(c, SeenTxs)
           G == KindsOf(c, gone)
<1>1. Ord(r, m_contracts[c].height, m_contracts[c].cancel_expiration_time, K, G, mined[Accept(c)], mined[Cancelled(c)], tip)
  BY DEF WalletInv, Ordered, OrderedAt
<1>2. "release_cancel" \in K => r = 6 \/ "release_cancel" \in G
  BY <1>1 DEF Ord
<1>3. /\ Cancelled(c) \in SeenTxs <=> "release_cancel" \in K
      /\ Cancelled(c) \in gone <=> "release_cancel" \in G
  BY KindsAre DEF Cancelled
<1>4. Fits(c, r, e.state, gone) /\ r \in 0..6
  BY Elements DEF Con
<1> HIDE DEF r, K, G
<1>5. Fits(c, r, f.state, gone)
  <2>1. CASE f.state = e.state \/ f.state = 140
    BY <1>4, <2>1 DEF Fits
  <2>2. CASE e.state = 1 /\ f.state = 110
    BY <1>4, <2>2 DEF Fits
  <2>3. CASE e.state = 5 /\ f.state = 130
    BY <1>4, <2>3 DEF Fits
  <2>4. CASE e.state = 201 /\ f.state = 2
    BY <1>4, <2>4 DEF Fits
  <2>5. CASE e.state = 601 /\ f.state = 6
    <3>1. r = 6 \/ Cancelled(c) \in gone
      BY <1>2, <1>3, <2>5 DEF Cancels
    <3> QED
      BY <1>4, <2>5, <3>1 DEF Fits
  <2> QED
    BY <2>1, <2>2, <2>3, <2>4, <2>5 DEF Evolved
<1> QED
  BY <1>5 DEF r

\* steps that leave the wallet alone and at most evolve the entries
LEMMA LastStays ==
  ASSUME TypeInv, WalletInv, CarriedInv, UNCHANGED walletVars, ListEvolved(contracts, contracts', height_app'),
         \A c \in Contract \ overtaken : Lasting(c, contracts, signals', history', m_contracts[c].state, gone)
  PROVE  LastInv'
<1>1. UNCHANGED <<overtaken, gone, m_contracts>>
  BY DEF walletVars
<1>2. SUFFICES ASSUME NEW c \in Contract, c \notin overtaken
               PROVE  Lasting(c, contracts', signals', history', m_contracts[c].state, gone)
  BY <1>1 DEF LastInv
<1>3. Lasting(c, contracts, signals', history', m_contracts[c].state, gone)
  BY <1>2
<1>4. ASSUME Standing(c, contracts, signals', m_contracts[c].state, gone), NEW i \in 1..Len(contracts'), contracts'[i].id = c
      PROVE  Fits(c, m_contracts[c].state, contracts'[i].state, gone)
  <2>1. i \in 1..Len(contracts) /\ Evolved(contracts[i], contracts'[i], height_app')
    BY DEF ListEvolved
  <2>2. contracts[i].id = c
    BY <1>4, <2>1 DEF Evolved
  <2>3. Shown(c, contracts[i], signals, SeenTxs, gone, mined[Accept(c)], mined[Cancelled(c)], height_app)
    BY <1>2, <2>1, <2>2 DEF CarriedInv, Carried
  <2>4. contracts[i].state \in Cancels => Cancelled(c) \in SeenTxs
    BY <2>3 DEF Shown, Backed
  <2>5. Fits(c, m_contracts[c].state, contracts[i].state, gone)
    BY <1>4, <2>1, <2>2 DEF Standing
  <2> QED
    BY <1>2, <2>1, <2>4, <2>5, FitsEvolved
<1> QED
  BY <1>3, <1>4 DEF Lasting, Standing

\* the first signal, not one of a transaction found, is taken
LEMMA LastTaken ==
  ASSUME TypeInv, LastInv, NEW c \in Contract, c \notin overtaken, signals # << >>, signals' = Tail(signals), ~Money(signals[1]),
         \A e \in Elems(signals') : Money(e) => (e.tx \in history' <=> e.tx \in history)
  PROVE  /\ LastFits(signals', c, history', m_contracts[c].state, gone)
         /\ NoneNew(signals', c, history') => NoneNew(signals, c, history)
         /\ Lasting(c, contracts, signals', history', m_contracts[c].state, gone)
<1> DEFINE r == m_contracts[c].state
<1>1. Lasting(c, contracts, signals, history, r, gone) /\ signals \in Seq(Signal)
  BY DEF LastInv, TypeInv
<1>2. /\ LastFits(signals', c, history', r, gone)
      /\ NoneNew(signals', c, history') =>
           NoneNew(signals, c, history) \/ (NewAt(signals, 1, c, history) /\ Fits(c, r, StateOf(signals[1].tx[2]), gone))
  <2>1. \A e \in Elems(Tail(signals)) : Money(e) =>
          (e.tx \in history' <=> e.tx \in history \/ (Money(signals[1]) /\ e.tx = signals[1].tx))
    OBVIOUS
  <2>2. LastFits(signals, c, history, r, gone)
    BY <1>1 DEF Lasting
  <2> HIDE DEF r
  <2> QED
    BY <1>1, <2>1, <2>2, LastTail
<1>3. ~NewAt(signals, 1, c, history)
  BY DEF NewAt
<1>4. Standing(c, contracts, signals, r, gone) => Standing(c, contracts, signals', r, gone)
  BY <1>1, ElemsTail DEF Standing
<1> HIDE DEF r
<1>5. /\ LastFits(signals', c, history', r, gone)
      /\ NoneNew(signals', c, history') => NoneNew(signals, c, history)
      /\ Lasting(c, contracts, signals', history', r, gone)
  BY <1>1, <1>2, <1>3, <1>4 DEF Lasting
<1> QED
  BY <1>5 DEF r

LEMMA LastPrepare ==
  ASSUME TypeInv, SessionInv, LastInv, prepareContractsAfterOpen
  PROVE  LastInv'
<1> DEFINE got == Head(signals).contracts
<1>1. signals # << >> /\ signals' = Tail(signals) /\ signals[1] = Head(signals) /\ Answer(signals[1]) /\ ~Money(signals[1])
      /\ signals \in Seq(Signal) /\ signals' \in Seq(Signal)
  BY ReceiveIs DEF prepareContractsAfterOpen, TypeInv, Answer, Money
<1>2. UNCHANGED walletVars /\ history' = history
  BY DEF prepareContractsAfterOpen
<1>3. UNCHANGED <<overtaken, gone, m_contracts>>
  BY <1>2 DEF walletVars
<1>4. SUFFICES ASSUME NEW c \in Contract, c \notin overtaken
               PROVE  Lasting(c, contracts', signals', history', m_contracts[c].state, gone)
  BY <1>3 DEF LastInv
<1> DEFINE r == m_contracts[c].state
           con == got[c]
<1>5. /\ LastFits(signals', c, history', r, gone)
      /\ NoneNew(signals', c, history') => NoneNew(signals, c, history)
      /\ Lasting(c, contracts, signals', history', r, gone)
  BY <1>1, <1>2, <1>4, LastTaken
<1>6. Lasting(c, contracts, signals, history, r, gone)
  BY <1>4 DEF LastInv
<1>7. Brought(contracts', got) /\ con \in Con /\ Sound(con)
  BY PrepareBrings
<1>8. r \in 0..6 /\ con.state \in 0..6
  BY <1>7, Elements DEF Con
<1>9. ASSUME NoneNew(signals', c, history'), NEW i \in 1..Len(contracts'), contracts'[i].id = c
      PROVE  Fits(c, r, contracts'[i].state, gone)
  <2> DEFINE s == StateAfterOpen(c, con)
  <2>0. con # NoContract /\ contracts'[i] = Entry(c, con, s)
    BY <1>7, <1>9 DEF Brought
  <2>1. con # NoContract /\ contracts'[i].state = s
    BY <2>0 DEF Entry
  <2>2. con.state # 0
    BY <1>7, <2>1 DEF Sound
  <2>3. s = 140 \/ s \in Stands(con.state) \/ (s = 130 /\ con.state = 2)
    BY <1>7, <2>2, OpenState
  <2>4. Fits(c, r, con.state, gone)
    <3>1. Standing(c, contracts, signals, r, gone)
      BY <1>5, <1>6, <1>9 DEF Lasting
    <3>2. signals[1] \in Elems(signals) /\ signals[1].contracts[c] = con
      BY <1>1, ElemsTail
    <3> QED
      BY <1>1, <3>1, <3>2 DEF Standing
  <2> HIDE DEF s, r, con
  <2>5. Fits(c, r, s, gone)
    BY <1>8, <2>3, <2>4, FitsStands
  <2> QED
    BY <2>1, <2>5
<1>10. NoneNew(signals', c, history') => \A e \in Elems(signals') : Answer(e) => Fits(c, r, e.contracts[c].state, gone)
  BY <1>5 DEF Lasting, Standing
<1> HIDE DEF r, con
<1>11. Lasting(c, contracts', signals', history', r, gone)
  BY <1>5, <1>9, <1>10 DEF Lasting, Standing
<1> QED
  BY <1>11 DEF r

LEMMA LastStep ==
  ASSUME TypeInv, CallInv, SessionInv, ListInv, WalletInv, WalletInv', DeliveryInv, CarriedInv, LastInv, [Next]_vars
  PROVE  LastInv'
<1>0. signals \in Seq(Signal)
  BY DEF TypeInv
<1>1. ASSUME NEW c \in Contract, c \notin overtaken, NEW s \in Signal, ~Money(s), signals' = Append(signals, s),
             history' = history, Answer(s) => s.contracts = m_contracts
      PROVE  Lasting(c, contracts, signals', history', m_contracts[c].state, gone)
  <2>1. Lasting(c, contracts, signals, history, m_contracts[c].state, gone)
    BY <1>1 DEF LastInv
  <2>2. Elems(signals') = Elems(signals) \cup {s}
    BY <1>0, <1>1, ElemsAppend
  <2>3. /\ LastFits(signals, c, history, m_contracts[c].state, gone)
             => LastFits(signals', c, history, m_contracts[c].state, gone)
        /\ NoneNew(signals', c, history) => NoneNew(signals, c, history)
    BY <1>0, <1>1, LastAppend
  <2>4. Answer(s) => Fits(c, m_contracts[c].state, s.contracts[c].state, gone)
    BY <1>1, FitsItself
  <2> QED
    BY <1>1, <2>1, <2>2, <2>3, <2>4 DEF Lasting, Standing
<1>2. ASSUME NEW c \in Contract, c \notin overtaken, signals # << >>, signals' = Tail(signals), ~Money(signals[1]),
             \A e \in Elems(signals') : Money(e) => (e.tx \in history' <=> e.tx \in history)
      PROVE  Lasting(c, contracts, signals', history', m_contracts[c].state, gone)
  BY <1>2, LastTaken
\* no signals are on their way and no contract is listed
<1>3. ASSUME UNCHANGED walletVars, ~HasType(signals', Asked \cup Moves), signals' \in Seq(Signal), contracts' = << >>
      PROVE  LastInv'
  <2>1. \A e \in Elems(signals') : ~Money(e) /\ ~Answer(e)
    BY <1>3, HasElem DEF Money, Answer, Asked, Moves
  <2>2. \A i \in 1..Len(signals') : ~Money(signals'[i])
    BY <2>1 DEF Elems
  <2>3. Len(contracts') = 0
    BY <1>3
  <2> QED
    BY <2>1, <2>2, <2>3 DEF LastInv, Lasting, LastFits, NewAt, Standing
<1>4. CASE WalletMoves
  BY <1>4, LastMoves
<1>5. CASE money_transfer
  BY <1>5, LastMoney
<1>6. CASE money_transfer_cancel
  <2> DEFINE t == Head(signals).tx
  <2>1. signals # << >> /\ signals' = Tail(signals) /\ signals[1].tx = t /\ Dropping(signals[1]) /\ ~Money(signals[1])
    BY <1>6, ReceiveIs DEF money_transfer_cancel, Dropping, Money
  <2>2. UNCHANGED walletVars /\ history' \subseteq history /\ history \ {t} \subseteq history'
    BY <1>6 DEF money_transfer_cancel
  <2> HIDE DEF t
  <2>3. \A e \in Elems(signals') : Money(e) => e.tx # t
    BY <1>0, <2>1, BehindTail DEF DeliveryInv
  <2>4. ListEvolved(contracts, contracts', height_app')
    BY <1>6, CancelSteps
  <2> QED
    BY <1>2, <2>1, <2>2, <2>3, <2>4, LastStays
<1>7. CASE prepareContractsAfterOpen
  BY <1>7, LastPrepare
<1>8. CASE wallet_closed
  <2>1. signals # << >> /\ signals' = Tail(signals) /\ signals[1].type = "closed" /\ signals' \in Seq(Signal)
    BY <1>8, ReceiveIs DEF wallet_closed
  <2>2. UNCHANGED walletVars /\ contracts' = << >>
    BY <1>8 DEF wallet_closed
  <2>3. ~HasType(signals', Asked \cup Closed \cup Moves)
    BY <1>0, <2>1, ShapeTail DEF SessionInv, Closed
  <2>4. ~HasType(signals', Asked \cup Moves)
    BY <2>3 DEF HasType
  <2> QED
    BY <1>3, <2>1, <2>2, <2>4
<1>9. CASE get_contracts
  <2> DEFINE s == [type |-> "contracts", contracts |-> m_contracts]
  <2>1. signals' = Append(signals, s) /\ UNCHANGED <<walletVars, contracts, history>>
    BY <1>9 DEF get_contracts, guiIdle
  <2>2. s \in Signal /\ ~Money(s) /\ s.contracts = m_contracts
    BY OtherSignalsAre DEF Money
  <2> HIDE DEF s
  <2>3. ListEvolved(contracts, contracts', height_app')
    BY <2>1, StaysEvolved
  <2> QED
    BY <1>1, <2>1, <2>2, <2>3, LastStays
<1>10. CASE openWallet
  <2>1. UNCHANGED <<walletVars, signals, contracts>> /\ phase = "closed"
    BY <1>10 DEF openWallet
  <2>2. contracts = << >> /\ ~running /\ ~HasType(signals, Asked) /\ ~HasType(signals, Closed) /\ ~HasType(signals, Moves)
    BY <2>1 DEF SessionInv
  <2>3. ~HasType(signals, Asked \cup Moves)
    BY <2>2, HasUnion
  <2> QED
    BY <1>0, <1>3, <2>1, <2>2, <2>3
<1>11. CASE QuietTail
  <2>1. signals # << >> /\ signals' = Tail(signals) /\ ~Money(signals[1]) /\ Same
    BY <1>11 DEF QuietTail, Money
  <2> QED
    BY <1>2, <2>1, LastStays DEF Same
<1>12. CASE QuietAppend
  <2>1. PICK s \in Signal : signals' = Append(signals, s) /\ ~Money(s) /\ ~Answer(s)
    BY <1>12 DEF QuietAppend, Money, Answer
  <2>2. Same
    BY <1>12 DEF QuietAppend
  <2> QED
    BY <1>1, <2>1, <2>2, LastStays DEF Same
<1>13. CASE Silent
  <2>1. signals' = signals /\ Same
    BY <1>13 DEF Silent
  <2> QED
    BY <2>1, LastStays DEF Same, LastInv
<1> QED
  BY <1>4, <1>5, <1>6, <1>7, <1>8, <1>9, <1>10, <1>11, <1>12, <1>13, StepKinds

-----------------------------------------------------------------------------
(* The inductive invariant, and what follows from it.                      *)

AgreeInv == /\ TypeInv /\ CallInv /\ SessionInv /\ ListInv /\ WalletInv
            /\ HeightInv /\ DeliveryInv /\ PresentInv /\ CarriedInv /\ LastInv

LEMMA AgreeInit == Init => AgreeInv
<1>1. SUFFICES ASSUME Init PROVE AgreeInv
  OBVIOUS
<1>2. TypeInv /\ CallInv /\ SessionInv /\ WalletInv
  BY <1>1, TypeInit, SessionInit, WalletInvInit
<1>3. /\ tip = 0 /\ signals = << >> /\ contracts = << >> /\ history = {} /\ phase = "closed" /\ height_app = 0
  BY <1>1 DEF Init, EscrowInit
<1>4. Elems(signals) = {} /\ Len(signals) = 0 /\ Len(contracts) = 0 /\ 1..0 = {}
  BY <1>3 DEF Elems
<1>5. ListInv
  BY <1>4 DEF ListInv, Unique, NoLateOffer
<1>6. HeightInv
  BY <1>3, <1>4 DEF HeightInv
<1>7. DeliveryInv
  BY <1>3, <1>4 DEF DeliveryInv, SeenSignals, NoneBehind, Reported
<1>8. PresentInv
  BY <1>3, <1>4 DEF PresentInv, Holds, Got
<1>9. CarriedInv
  BY <1>4 DEF CarriedInv, Carried, InTurn
<1>10. LastInv
  BY <1>4 DEF LastInv, Lasting, LastFits, Standing
<1> QED
  BY <1>2, <1>5, <1>6, <1>7, <1>8, <1>9, <1>10 DEF AgreeInv

LEMMA AgreeStep ==
  ASSUME AgreeInv, [Next]_vars
  PROVE  AgreeInv'
<1>1. /\ TypeInv /\ CallInv /\ SessionInv /\ ListInv /\ WalletInv
      /\ HeightInv /\ DeliveryInv /\ PresentInv /\ CarriedInv /\ LastInv
  BY DEF AgreeInv
<1>2. TypeInv' /\ CallInv' /\ SessionInv' /\ ListInv' /\ WalletInv'
  BY <1>1, TypeStep, CallStep, SessionStep, ListStep, WalletInvStep
<1>3. HeightInv' /\ DeliveryInv' /\ PresentInv' /\ CarriedInv'
  BY <1>1, HeightStep, DeliveryStep, PresentStep, CarriedStep
<1>4. LastInv'
  BY <1>1, <1>2, LastStep
<1> QED
  BY <1>2, <1>3, <1>4 DEF AgreeInv

LEMMA AgreeAlways == Spec => []AgreeInv
  BY AgreeInit, AgreeStep, PTL DEF Spec

\* the entry of a contract, when the queues are drained
LEMMA SettledFits ==
  ASSUME AgreeInv, Settled, NEW c \in Contract, c \notin overtaken, Listed(c)
  PROVE  /\ Fits(c, m_contracts[c].state, getContract(c).state, gone)
         /\ getContract(c).state = 5 => Request(c) \in SeenTxs
<1>1. TypeInv /\ ListInv /\ CarriedInv /\ LastInv
  BY DEF AgreeInv
<1>2. First(c) \in 1..Len(contracts) /\ contracts[First(c)].id = c /\ getContract(c) = contracts[First(c)]
  BY <1>1, PositionIs DEF ListInv
<1>3. \A i \in 1..Len(signals) : ~Money(signals[i])
  BY <1>1, Elements DEF Settled, Money
<1>4. NoneNew(signals, c, history)
  BY <1>3 DEF NoneNew, NewAt
<1>5. Standing(c, contracts, signals, m_contracts[c].state, gone)
  BY <1>1, <1>4 DEF LastInv, Lasting
<1>6. Shown(c, contracts[First(c)], signals, SeenTxs, gone, mined[Accept(c)], mined[Cancelled(c)], height_app)
  BY <1>1, <1>2 DEF CarriedInv, Carried
<1> QED
  BY <1>2, <1>5, <1>6 DEF Standing, Shown, Backed

LEMMA ListCompletes == AgreeInv => ListComplete
<1>1. SUFFICES ASSUME AgreeInv PROVE ListComplete
  OBVIOUS
<1>2. TypeInv /\ SessionInv /\ ListInv /\ WalletInv /\ PresentInv
  BY <1>1 DEF AgreeInv
<1>3. ASSUME NEW c \in Contract PROVE Cardinality(Positions(c)) <= 1
  <2>1. Positions(c) = {} \/ Positions(c) = {First(c)}
    BY <1>2, PositionIs DEF ListInv
  <2>2. Cardinality({}) = 0 /\ Cardinality({First(c)}) = 1
    BY FS_EmptySet, FS_Singleton
  <2> QED
    BY <2>1, <2>2
<1>4. ASSUME Settled, NEW c \in Contract PROVE Listed(c) <=> m_contracts[c] # NoContract
  <2>1. phase = "open" /\ calls # Asking
    BY <1>2, <1>4 DEF Settled, SessionInv
  <2>2. \A e \in Elems(signals) : ~Money(e) /\ ~Answer(e)
    BY <1>2, <1>4, Elements DEF Settled, Elems, Money, Answer
  <2>3. ~Got(signals, c) /\ ~Coming(signals, history, c)
    BY <2>2 DEF Got, Coming
  <2>4. m_contracts[c] # NoContract <=> Proposal(c) \in SeenTxs
    BY <1>2 DEF WalletInv, Exists
  <2>5. Holds(contracts, c) <=> Proposal(c) \in SeenTxs
    BY <1>2, <2>1, <2>3 DEF PresentInv
  <2> QED
    BY <1>2, <2>4, <2>5, ListedHolds
<1> QED
  BY <1>3, <1>4 DEF ListComplete

LEMMA StatesAgree == AgreeInv => ShownAgrees
<1>1. SUFFICES ASSUME AgreeInv, Settled, NEW c \in Contract, c \notin overtaken, Listed(c)
               PROVE  LET shown == getContract(c).state
                          real  == m_contracts[c].state
                      IN  shown \in {140} \cup
                            CASE real = proposal_sent -> {1, 110}
                              [] real = contract_accepted ->
                                   {2, 201, 5, 130, 601} \cup (IF ReleaseDropped(c) THEN {6} ELSE {})
                              [] real = cancel_proposal_sent -> {5, 130}
                              [] real = Released["release_cancel"] -> {6, 601}
                              [] OTHER -> {real}
  BY DEF ShownAgrees
<1> DEFINE s == getContract(c).state
           r == m_contracts[c].state
           T == CASE r = proposal_sent -> {1, 110}
                  [] r = contract_accepted -> {2, 201, 5, 130, 601} \cup (IF ReleaseDropped(c) THEN {6} ELSE {})
                  [] r = cancel_proposal_sent -> {5, 130}
                  [] r = Released["release_cancel"] -> {6, 601}
                  [] OTHER -> {r}
<1>2. Fits(c, r, s, gone)
  BY <1>1, SettledFits
<1>3. r \in {0, 1, 2, 3, 4, 5, 6}
  BY <1>1, Elements DEF AgreeInv, Con
<1>4. proposal_sent = 1 /\ contract_accepted = 2 /\ cancel_proposal_sent = 5 /\ Released["release_cancel"] = 6
  BY DEF proposal_sent, contract_accepted, cancel_proposal_sent, Released
<1>5. ReleaseDropped(c) <=> Cancelled(c) \in gone
  BY DEF ReleaseDropped, Cancelled
<1> HIDE DEF s, r
<1>6. s = 140 \/ s \in T
  <2>1. CASE r = 1
    BY <1>2, <1>4, <2>1 DEF Fits
  <2>2. CASE r = 2
    BY <1>2, <1>4, <1>5, <2>2 DEF Fits
  <2>3. CASE r = 5
    BY <1>2, <1>4, <2>3 DEF Fits
  <2>4. CASE r = 6
    BY <1>2, <1>4, <2>4 DEF Fits
  <2>5. CASE r \in {0, 3, 4}
    BY <1>2, <1>4, <2>5 DEF Fits
  <2> QED
    BY <1>3, <2>1, <2>2, <2>3, <2>4, <2>5
<1> HIDE DEF T
<1>7. s \in {140} \cup T
  BY <1>6
<1> QED
  BY <1>7 DEF s, r, T

\* The GUI's contracts are those of the wallet, each once and in a state that
\* stands for the wallet's, when the queues are drained: whatever the order in
\* which the answer to getContracts, the signals of the transactions and the
\* daemon's heights arrived (wallet.model.ts:153, app.component.ts:253-358).
THEOREM Agreement == Spec => []ContractsAgree
<1>1. AgreeInv => ContractsAgree
  BY ListCompletes, StatesAgree DEF ContractsAgree
<1> QED
  BY <1>1, AgreeAlways, PTL

LEMMA OffersAreHonoured == AgreeInv => OffersHonoured
<1>1. SUFFICES ASSUME AgreeInv, Settled, NEW c \in Contract, c \notin overtaken, Listed(c), NEW k \in Offers(c)
               PROVE  \/ Obeys(<<c, k>>)
                      \/ k = "release_cancel" /\ Expired(m_contracts[c].cancel_expiration_time)
  BY DEF OffersHonoured
<1> DEFINE s == getContract(c).state
           r == m_contracts[c].state
           x == m_contracts[c].cancel_expiration_time
<1>2. Fits(c, r, s, gone) /\ (s = 5 => Request(c) \in SeenTxs)
  BY <1>1, SettledFits
<1>3. r \in {0, 1, 2, 3, 4, 5, 6} /\ x \in Nat
  BY <1>1, Elements, Numbers DEF AgreeInv, Con
<1>4. proposal_sent = 1 /\ contract_accepted = 2 /\ cancel_proposal_sent = 5
  BY DEF proposal_sent, contract_accepted, cancel_proposal_sent
<1>5. <<c, k>>[1] = c /\ <<c, k>>[2] = k
  OBVIOUS
<1>6. Obeys(<<c, k>>) <=> CASE k = "proposal" -> TRUE
                            [] k = "accept" -> r = 1
                            [] k = "release_cancel" -> r = 5
                            [] OTHER -> r = 2 \/ r = 5
  BY <1>4, <1>5 DEF Obeys
<1>7. \/ s = 1 /\ k = "accept"
      \/ s = 5 /\ k = "release_cancel"
      \/ (s = 201 \/ s = 2 \/ s = 130) /\ k \in {"release_normal", "release_burn", "cancel", "recancel"}
  BY <1>1 DEF Offers
<1>8. r = 2 /\ s = 5 => Expired(x)
  <2>1. SUFFICES ASSUME r = 2, s = 5 PROVE Expired(x)
    OBVIOUS
  <2>2. Ord(r, m_contracts[c].height, x, KindsOf(c, SeenTxs), KindsOf(c, gone), mined[Accept(c)], mined[Cancelled(c)], tip)
    BY <1>1 DEF AgreeInv, WalletInv, Ordered, OrderedAt
  <2>3. "cancel" \in KindsOf(c, SeenTxs)
    BY <1>2, <2>1, KindsAre DEF Request
  <2>4. CancelTime["cancel"] # 0 /\ CancelTime["recancel"] # 0
    BY KindFacts
  <2> HIDE DEF r, x, s
  <2>5. x <= tip /\ x # 0
    BY <2>1, <2>2, <2>3, <2>4 DEF Ord
  <2> QED
    BY <2>5 DEF Expired, median
<1> HIDE DEF s, r, x
<1>9. Obeys(<<c, k>>) \/ (k = "release_cancel" /\ Expired(x))
  <2>1. CASE s = 1 /\ k = "accept"
    BY <1>2, <1>3, <1>6, <2>1 DEF Fits
  <2>2. CASE s = 5 /\ k = "release_cancel"
    BY <1>2, <1>3, <1>6, <1>8, <2>2 DEF Fits
  <2>3. CASE (s = 201 \/ s = 2 \/ s = 130) /\ k \in {"release_normal", "release_burn", "cancel", "recancel"}
    <3>1. r = 2 \/ r = 5
      BY <1>2, <1>3, <2>3 DEF Fits
    <3> QED
      BY <1>6, <2>3, <3>1
  <2> QED
    BY <1>7, <2>1, <2>2, <2>3
<1> QED
  BY <1>9 DEF x

\* An action the purchase page offers is one that the wallet carries out, once
\* the queues are drained, and a proposal that can be accepted has not expired
\* (purchase.component.html, wallet2.cpp's checks of a contract's state).
THEOREM OffersAreSound == Spec => []OffersSound
<1>1. AgreeInv => OffersHonoured
  BY OffersAreHonoured
<1> QED
  BY <1>1, AgreeAlways, NoExpiredOffers, PTL DEF OffersSound

\* A contract shown as started or cancelled has its transaction in the chain
\* with the required number of blocks, however late the heights arrive and
\* whatever the wallet's id delivered as one (app.component.ts:520,
\* purchase.component.ts:196, variables.service.ts:147); the exception is a
\* cancellation whose release was dropped.
THEOREM StartedConfirmed == Spec => []StartedIsConfirmed
<1>1. AgreeInv => StartedIsConfirmed
  <2>1. SUFFICES ASSUME AgreeInv, NEW c \in Contract, c \notin overtaken, Listed(c)
                 PROVE  /\ getContract(c).state = 2 => Deep(<<c, "accept">>)
                        /\ getContract(c).state = 6 => Deep(<<c, "release_cancel">>) \/ ReleaseDropped(c)
    BY DEF StartedIsConfirmed
  <2>2. First(c) \in 1..Len(contracts) /\ contracts[First(c)].id = c /\ getContract(c) = contracts[First(c)]
    BY <2>1, PositionIs DEF AgreeInv, ListInv
  <2>3. Shown(c, getContract(c), signals, SeenTxs, gone, mined[Accept(c)], mined[Cancelled(c)], height_app)
    BY <2>1, <2>2 DEF AgreeInv, CarriedInv, Carried
  <2>4. Accept(c) \in Tx /\ Cancelled(c) \in Tx
    BY KindFacts
  <2> QED
    BY <2>3, <2>4 DEF Shown, Deep, ReleaseDropped, Accept, Cancelled
<1> QED
  BY <1>1, AgreeAlways, PTL

=============================================================================
