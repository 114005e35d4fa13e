---------------------------- MODULE EscrowWallet ----------------------------
(***************************************************************************)
(* The escrow contracts of one wallet (src/wallet/wallet2.cpp): the table  *)
(* m_contracts, the transactions that move it and the signals raised to    *)
(* the GUI.  A contract goes through the transactions                      *)
(*                                                                         *)
(*   proposal -> accept -> cancel / recancel -> release_...                *)
(*                                                                         *)
(* each of which the wallet may see first in the pool (height 0) and again *)
(* in a block; one that waits in the pool may be dropped as expired or     *)
(* outdated.  Reorganizations are left out (detach_blockchain leaves       *)
(* m_contracts as it is).  Times are counted from                          *)
(* TX_EXPIRATION_MEDIAN_SHIFT: a transaction with expiration time e has    *)
(* expired when e <= median.                                               *)
(***************************************************************************)
EXTENDS Naturals, Sequences, FiniteSets

CONSTANTS
  Kind,         \* kinds of transactions that occur
  Contract,     \* ids of the contracts (multisig output ids)
  Losable,      \* kinds whose transactions may be dropped as outdated
  Expiration,   \* expiration time of the template of every proposal
  CancelTime,   \* expiration time asked for by a first and a second
                \* cancellation request: a record [cancel, recancel]
  MaxHeight,    \* bound: height of the daemon's chain
  MaxQueue      \* bound: signals waiting for the GUI

\* a contract id is a 32-byte hash; only the two releases that do not interact
\* with time may be left out
ASSUME EscrowAssumption ==
  /\ IsFiniteSet(Contract)
  /\ Kind \subseteq {"proposal", "accept", "cancel", "recancel",
                     "release_normal", "release_burn", "release_cancel"}
  /\ {"proposal", "accept", "cancel", "recancel", "release_cancel"} \subseteq Kind
  /\ Expiration \in Nat \ {0}
  /\ CancelTime \in [{"cancel", "recancel"} -> Nat \ {0}]
  /\ Losable \subseteq Kind
  /\ {MaxHeight, MaxQueue} \subseteq Nat

Cancel  == {"cancel", "recancel"}
Release == {"release_normal", "release_burn", "release_cancel"}
Tx      == Contract \X Kind

\* escrow_contract_details_basic::state
proposal_sent         == 1
contract_accepted     == 2
cancel_proposal_sent  == 5
Released == [release_normal |-> 3, release_burn |-> 4, release_cancel |-> 6]

NoContract == [state |-> 0, height |-> 0, expiration_time |-> 0, cancel_expiration_time |-> 0]

VARIABLES
  tip,          \* the daemon's height
  m_contracts,  \* [Contract -> contract], NoContract when absent
  m_unconfirmed_txs,
  mined,        \* m_transfer_history: [Tx -> height], 0 when not in a block
  gone,         \* transactions dropped from the pool
  height,       \* height the wallet has synchronized to
  overtaken,    \* history variable: contracts with a transaction that was
                \* refused, or processed after a later one
  running,      \* the wallet's worker thread runs
  signals       \* FIFO of signals and answers on their way to the GUI

walletVars == <<m_contracts, m_unconfirmed_txs, mined, gone, height, overtaken>>

\* the expiration median, with blocks one unit of time apart
median == tip

Seen(t) == t \in m_unconfirmed_txs \cup gone \/ mined[t] # 0
get_tx_expiration_time(t) ==
  CASE t[2] = "accept" -> Expiration
    [] t[2] = "release_cancel" -> m_contracts[t[1]].cancel_expiration_time
    [] OTHER -> 0
Expired(time) == time # 0 /\ time <= median
is_tx_expired(t) == Expired(get_tx_expiration_time(t))

EscrowInit ==
  /\ tip = 0 /\ height = 0 /\ overtaken = {}
  /\ m_contracts = [c \in Contract |-> NoContract]
  /\ m_unconfirmed_txs = {} /\ gone = {}
  /\ mined = [t \in Tx |-> 0]
  /\ running = FALSE
  /\ signals = <<>>

-----------------------------------------------------------------------------
(* process_contract_info: what a transaction of a contract found at height *)
(* h (0: in the pool) makes of it.                                         *)

\* handle_proposal does not look at the state it overwrites
handle_proposal(con, h) ==
  [con EXCEPT !.state = proposal_sent, !.height = h, !.expiration_time = Expiration]

handle_contract(con, h) ==
  [con EXCEPT !.state = contract_accepted, !.height = h, !.expiration_time = Expiration]

\* only the request that changes the state sets the height
handle_cancel_proposal(con, h, kind) ==
  IF con.state = contract_accepted
  THEN [con EXCEPT !.state = cancel_proposal_sent, !.height = h,
                   !.cancel_expiration_time = CancelTime[kind]]
  ELSE [con EXCEPT !.cancel_expiration_time = CancelTime[kind]]

handle_release_contract(con, h, kind) ==
  [con EXCEPT !.state = Released[kind], !.height = h]

\* a request that does not fit the state, or a release of an unknown
\* contract, is refused: the contract stays and the signal carries none
Refused(con, kind) ==
  \/ kind \in Cancel /\ con.state \notin {contract_accepted, cancel_proposal_sent}
  \/ kind \in Release /\ con = NoContract

process_contract_info(con, kind, h) ==
  IF Refused(con, kind) THEN con
  ELSE CASE kind = "proposal" -> handle_proposal(con, h)
         [] kind = "accept" -> handle_contract(con, h)
         [] kind \in Cancel -> handle_cancel_proposal(con, h, kind)
         [] kind \in Release -> handle_release_contract(con, h, kind)

\* rise_on_transfer2: the signal carries the contract after the transaction
money_transfer_signal(t, h) ==
  [type |-> "money_transfer", tx |-> t,
   contract |-> IF Refused(m_contracts[t[1]], t[2]) THEN NoContract
                ELSE process_contract_info(m_contracts[t[1]], t[2], h)]
money_transfer_cancel_signal(t) == [type |-> "money_transfer_cancel", tx |-> t]

\* the transactions the parties publish (external): the acceptance needs
\* only the proposal's template; a cancellation is offered to the buyer when
\* the acceptance is mined, a second one when the first has expired; a release
\* spends the deposit of a mined acceptance, which only one release can do
Publishable(t) ==
  LET c == t[1] IN
  /\ ~Seen(t) /\ ~is_tx_expired(t)
  /\ t[2] = "accept" => Seen(<<c, "proposal">>)
  /\ t[2] \in Cancel \cup Release => mined[<<c, "accept">>] # 0
  /\ t[2] = "recancel" => Seen(<<c, "cancel">>) /\ Expired(CancelTime.cancel)
  /\ t[2] = "release_cancel" => Seen(<<c, "cancel">>)
  /\ t[2] \in Release => \A k \in Release \cap Kind : ~Seen(<<c, k>>)

NoteOvertaken(txs) ==
  overtaken' = overtaken \cup
    {c \in Contract : \E t \in txs :
       /\ t[1] = c
       /\ \/ t[2] = "proposal" /\ m_contracts[c].state > proposal_sent
          \/ t[2] = "accept" /\ m_contracts[c].state > contract_accepted
          \/ t[2] = "cancel" /\ m_contracts[c].cancel_expiration_time = CancelTime.recancel
          \/ Refused(m_contracts[c], t[2])}

\* scan_tx_pool (a transaction of the other party, or of another copy of
\* this wallet) and add_sent_unconfirmed_tx (one of this wallet)
AddUnconfirmed(t) ==
  /\ Publishable(t)
  /\ m_unconfirmed_txs' = m_unconfirmed_txs \cup {t}
  /\ m_contracts' = [m_contracts EXCEPT ![t[1]] = process_contract_info(@, t[2], 0)]
  /\ signals' = Append(signals, money_transfer_signal(t, 0))
  /\ NoteOvertaken({t})
  /\ UNCHANGED <<mined, gone, height>>

scan_tx_pool ==
  /\ running /\ Len(signals) < MaxQueue
  /\ \E t \in Tx : AddUnconfirmed(t)
  /\ UNCHANGED <<tip, running>>

\* handle_contract_expirations: no signal is raised
handle_contract_expirations(con) ==
  IF /\ Expired(con.cancel_expiration_time)
     /\ \/ con.state = cancel_proposal_sent
        \/ con.state = Released["release_cancel"] /\ con.height = 0
  THEN [con EXCEPT !.state = contract_accepted]
  ELSE con

\* pull_blocks: the next block of the daemon, with at most one transaction of a contract;
\* then scan_unconfirmed_outdate_tx drops the expired and perhaps an
\* outdated transaction, and the contracts expire
TheOnly(S) == CHOOSE t \in S : TRUE
Mineable(t) == t \in m_unconfirmed_txs \/ Publishable(t)

refresh ==
  /\ running /\ height < MaxHeight /\ Len(signals) < MaxQueue
  /\ tip' = IF height = tip THEN tip + 1 ELSE tip
  /\ height' = height + 1
  /\ \E found \in {{}} \cup {{t} : t \in {u \in Tx : Mineable(u) /\ ~is_tx_expired(u)}},
        outdated \in {{}} \cup {{t} : t \in {u \in m_unconfirmed_txs : u[2] \in Losable}} :
       LET left    == m_unconfirmed_txs \ found
           dropped == {t \in left : is_tx_expired(t)} \cup (outdated \cap left)
           now     == [c \in Contract |->
                         IF \E t \in found : t[1] = c
                         THEN process_contract_info(m_contracts[c], TheOnly(found)[2], height')
                         ELSE m_contracts[c]]
       IN /\ Cardinality(dropped) <= 1   \* bound: one cancelled transaction per block
          /\ NoteOvertaken(found)
          /\ mined' = [t \in Tx |-> IF t \in found THEN height' ELSE mined[t]]
          /\ m_unconfirmed_txs' = left \ dropped
          /\ gone' = gone \cup dropped
          /\ m_contracts' = [c \in Contract |-> handle_contract_expirations(now[c])]
          /\ signals' = signals \o [i \in 1..Cardinality(found) |->
                                       money_transfer_signal(TheOnly(found), height')]
                             \o [i \in 1..Cardinality(dropped) |->
                                       money_transfer_cancel_signal(TheOnly(dropped))]
  /\ UNCHANGED running

\* a block the daemon adds while the wallet is closed (external)
DaemonBlock ==
  /\ ~running /\ tip < MaxHeight
  /\ tip' = tip + 1
  /\ UNCHANGED <<walletVars, running, signals>>

=============================================================================
