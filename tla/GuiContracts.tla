---------------------------- MODULE GuiContracts ----------------------------
(***************************************************************************)
(* The escrow contracts as the GUI shows them (layout/html_source/src/app: *)
(* app.component.ts, wallet.model.ts, purchase.component.ts), composed     *)
(* with the wallet that raises the signals (EscrowWallet).                 *)
(*                                                                         *)
(* The GUI and the wallet meet in two FIFO queues: calls, which the        *)
(* backend executes one at a time, and signals, on which answers and       *)
(* signals come back in the order they were sent.  User actions and the    *)
(* 30-second interval interleave with everything else.                     *)
(*                                                                         *)
(* The GUI adds states of its own to those of the wallet: 110 expired or   *)
(* ignored proposal, 130 expired or ignored cancellation, 140 proposal     *)
(* whose transaction is gone, 201 and 601 acceptance and cancellation with *)
(* fewer than Confirmations blocks.  is_new and viewedContracts are left   *)
(* out: the form's setValue (purchase.component.ts:147) throws, so the     *)
(* code that would mark a contract as viewed is never reached, every       *)
(* contract stays new and viewedContracts stays empty.  is_a is fixed per  *)
(* contract and wallet, so that contract_id alone identifies a contract.   *)
(***************************************************************************)
EXTENDS EscrowWallet

CONSTANTS
  Confirmations, \* blocks after which an acceptance counts (10 in the code)
  WalletId,      \* id of the wallet, which setRefreshStacking delivers as a height
  MaxOpens       \* bound: times the wallet is opened

ASSUME GuiAssumption == /\ Confirmations \in Nat \ {0}
                        /\ WalletId \in 0..Confirmations
                        /\ MaxOpens \in Nat

VARIABLES
  is_a,          \* [Contract -> BOOLEAN]: this wallet is the buyer
  phase,         \* "closed", "open": wallet is in variablesService.wallets
  contracts,     \* wallet.contracts: sequence of contracts with their id
  history,       \* transactions in wallet.history and excluded_history
  notViewed,     \* settings.notViewedContracts: [Contract -> [state, time]]
  exp_med_ts, height_app,
  opens,         \* times the wallet was opened
  calls          \* FIFO of calls to the backend

guiVars == <<is_a, phase, contracts, history, notViewed,
             exp_med_ts, height_app, opens, calls>>
vars == <<tip, walletVars, running, signals, guiVars>>

NotListed == [state |-> 0, time |-> 0]

Init ==
  /\ EscrowInit
  /\ is_a \in [Contract -> BOOLEAN]
  /\ phase = "closed" /\ contracts = <<>> /\ history = {}
  /\ notViewed = [c \in Contract |-> NotListed]
  /\ exp_med_ts = 0 /\ height_app = 0
  /\ opens = 0 /\ calls = <<>>

-----------------------------------------------------------------------------
(* What the GUI shows for a contract it is given.                          *)

Positions(c) == {i \in DOMAIN contracts : contracts[i].id = c}
Listed(c) == Positions(c) # {}
\* getContract: the first entry with this id
First(c) == CHOOSE i \in Positions(c) : \A j \in Positions(c) : i <= j
getContract(c) == contracts[First(c)]
WithState(con, s) == [con EXCEPT !.state = s]

ConfirmedAtZero(con, h) == h >= con.height + Confirmations
Confirmed(con, h) == con.height # 0 /\ h >= con.height + Confirmations

\* an ignored proposal or cancellation stays ignored while its time is the
\* one that was ignored; otherwise the entry is dropped
Ignored(c, con) ==
  \/ /\ con.state = 1 /\ notViewed[c] = [state |-> 110, time |-> con.expiration_time]
  \/ /\ con.state = 5 /\ notViewed[c] = [state |-> 130, time |-> con.cancel_expiration_time]
Outdated(c, con) ==
  \/ /\ con.state = 1 /\ notViewed[c].state = 110
     /\ notViewed[c].time # con.expiration_time
  \/ /\ con.state = 5 /\ notViewed[c].state = 130
     /\ notViewed[c].time # con.cancel_expiration_time

ViewedAfterTransfer(c, con) == IF con.state = 2 THEN 120 ELSE con.state
\* handler of money_transfer, for a transaction that is not yet known
StateAfterTransfer(c, con) ==
  CASE con.state = 1 /\ con.expiration_time < exp_med_ts -> 110
    [] con.state = 5 /\ con.cancel_expiration_time < exp_med_ts -> 130
    [] Ignored(c, con) -> IF con.state = 1 THEN 110 ELSE 130
    [] con.state = 2 /\ ~Confirmed(con, height_app) -> 201
    [] con.state = 6 /\ ~Confirmed(con, height_app) -> 601
    [] OTHER -> con.state

\* prepareContractsAfterOpen
StateAfterOpen(c, con) ==
  IF ~\E t \in history : t[1] = c THEN 140
  ELSE IF /\ con.state = 2 /\ con.height = 0 /\ con.cancel_expiration_time # 0
          /\ con.cancel_expiration_time < exp_med_ts THEN 130
  ELSE CASE con.state = 1 /\ con.expiration_time < exp_med_ts -> 110
         [] Ignored(c, con) -> IF con.state = 1 THEN 110 ELSE 130
         [] con.state = 2 /\ ~Confirmed(con, height_app) -> 201
         [] con.state = 6 /\ ~Confirmed(con, height_app) -> 601
         [] OTHER -> con.state

Entry(c, con, s) ==
  [id |-> c, state |-> s, height |-> con.height, expiration_time |-> con.expiration_time,
   cancel_expiration_time |-> con.cancel_expiration_time]

-----------------------------------------------------------------------------
(* Handlers of the signals and answers.                                    *)

\* transactions that prepareHistory keeps in excluded_history, which is
\* never cleared: incoming proposals and cancellation requests
Excluded(t) == ~is_a[t[1]] /\ t[2] \in {"proposal"} \cup Cancel

Receive(type) == /\ signals # <<>> /\ Head(signals).type = type
                 /\ signals' = Tail(signals)

KnownContract(t) == \E u \in history : u[1] = t[1]
\* tr_exists: the transaction is in the history
Known(t) == t \in history

\* of a known transaction only the times and the height are taken over
UpdateKnown(c, con) ==
  IF Listed(c)
  THEN [contracts EXCEPT ![First(c)] = Entry(c, con, @.state)]
  ELSE contracts

StoreAgain(c, con) == Append(contracts, Entry(c, con, StateAfterTransfer(c, con)))
StoreContract(c, con) ==
  LET shown == Entry(c, con, StateAfterTransfer(c, con)) IN
  IF Listed(c) THEN [contracts EXCEPT ![First(c)] = shown] ELSE Append(contracts, shown)

\* what becomes of the entry of notViewedContracts when con is shown as s
KeepNotViewed(c, con, s) ==
  IF s \in {1, 5} /\ Outdated(c, con) THEN NotListed ELSE notViewed[c]

\* wallet.currentPage is 1; the 40-entry limit of the history is not reached
money_transfer ==
  /\ Receive("money_transfer")
  /\ LET t == Head(signals).tx
         c == t[1]
         con == Head(signals).contract
     IN /\ history' = history \cup {t}
        /\ \/ con = NoContract /\ UNCHANGED <<contracts, notViewed>>
           \/ /\ con # NoContract /\ Known(t)
              /\ contracts' = UpdateKnown(c, con)
              /\ UNCHANGED notViewed
           \/ /\ con # NoContract /\ ~Known(t)
              /\ contracts' = StoreContract(c, con)
              /\ notViewed' = [notViewed EXCEPT
                                ![c] = KeepNotViewed(c, con, StateAfterTransfer(c, con))]
  /\ UNCHANGED <<tip, walletVars, running, is_a, phase, exp_med_ts,
                 height_app, opens, calls>>

money_transfer_cancel ==
  /\ Receive("money_transfer_cancel")
  /\ LET t == Head(signals).tx
         c == t[1]
     IN /\ contracts' = IF Listed(c) /\ getContract(c).state \in {1, 110}
                        THEN [contracts EXCEPT ![First(c)] = WithState(@, 140)]
                        ELSE contracts
        /\ history' = IF Excluded(t) THEN history ELSE history \ {t}
  /\ UNCHANGED <<tip, walletVars, running, is_a, phase, notViewed,
                 exp_med_ts, height_app, opens, calls>>

\* a contract that was waiting for confirmations at height h
Promoted(con, h) ==
  CASE con.state = 201 /\ Confirmed(con, h) -> WithState(con, 2)
    [] con.state = 601 /\ Confirmed(con, h) -> WithState(con, 6)
    [] OTHER -> con

\* the subscription to getHeightAppEvent of the purchase page, which shows
\* at most one contract, of the user's choice
heightAppEvent(list, h, shown) ==
  [i \in DOMAIN list |-> IF list[i].id \in shown THEN Promoted(list[i], h) ELSE list[i]]
Pages == {{}} \cup {{c} : c \in Contract}

NoTimeEvent(list, ts) == list
expMedTsEvent(list, ts) ==
  [i \in DOMAIN list |->
    CASE list[i].state = 1 /\ list[i].expiration_time <= ts -> WithState(list[i], 110)
      [] list[i].state = 5 /\ list[i].cancel_expiration_time <= ts -> WithState(list[i], 130)
      [] OTHER -> list[i]]

\* setExpMedTs and setHeightApp raise their events only when the value changes
update_daemon_state ==
  /\ Receive("update_daemon_state")
  /\ exp_med_ts' = Head(signals).median + 1
  /\ height_app' = Head(signals).height
  /\ LET timed == IF exp_med_ts' # exp_med_ts THEN expMedTsEvent(contracts, exp_med_ts')
                  ELSE contracts
     IN  \E shown \in Pages : contracts' =
           IF height_app' # height_app THEN heightAppEvent(timed, height_app', shown) ELSE timed
  /\ UNCHANGED <<tip, walletVars, running, is_a, phase, history,
                 notViewed, opens, calls>>

\* money_transfer of a mined block: setRefreshStacking(wallet_id) raises
\* getHeightAppEvent with the wallet's id
mining_transfer ==
  /\ Receive("mining_transfer")
  /\ \E shown \in Pages : contracts' = heightAppEvent(contracts, WalletId, shown)
  /\ UNCHANGED <<tip, walletVars, running, is_a, phase, history,
                 notViewed, exp_med_ts, height_app, opens, calls>>

\* answer to getContracts
prepareContractsAfterOpen ==
  /\ Receive("contracts")
  /\ LET got == Head(signals).contracts
         new == {c \in Contract : got[c] # NoContract}
     IN /\ \E order \in [1..Cardinality(new) -> new] :
             /\ \A c \in new : \E i \in DOMAIN order : order[i] = c
             /\ contracts' = contracts \o [i \in DOMAIN order |->
                  Entry(order[i], got[order[i]], StateAfterOpen(order[i], got[order[i]]))]
        /\ notViewed' = [c \in Contract |->
             IF c \in new THEN KeepNotViewed(c, got[c], StateAfterOpen(c, got[c]))
             ELSE notViewed[c]]
  /\ UNCHANGED <<tip, walletVars, running, is_a, phase, history,
                 exp_med_ts, height_app, opens, calls>>

\* answer to closeWallet: the wallet leaves variablesService.wallets
wallet_closed ==
  /\ Receive("closed")
  /\ phase' = "closed" /\ contracts' = <<>> /\ history' = {}
  /\ UNCHANGED <<tip, walletVars, running, is_a, notViewed,
                 exp_med_ts, height_app, opens, calls>>

\* intervalUpdateContractsState, every 30 seconds
OnlyCancelled(con, h) == IF con.state = 601 THEN Promoted(con, h) ELSE con
PromotedByInterval(con, h) == Promoted(con, h)
intervalUpdateContractsState ==
  /\ contracts' = [i \in DOMAIN contracts |-> PromotedByInterval(contracts[i], height_app)]
  /\ contracts' # contracts
  /\ UNCHANGED <<tip, walletVars, running, signals, is_a, phase, history, notViewed, exp_med_ts, height_app, opens, calls>>

-----------------------------------------------------------------------------
(* The user.                                                               *)

\* answer to openWallet: the wallet is shown with its recent history (the
\* mined transactions above some height, and all unconfirmed ones), then its
\* contracts are asked for, then it is run.  A refused transaction, which
\* carries no contract, is counted with the others: its contract is overtaken.
openWallet ==
  /\ phase = "closed" /\ calls = <<>> /\ opens < MaxOpens
  /\ opens' = opens + 1
  /\ phase' = "open"
  /\ \E low \in {1, height + 1} : history' = m_unconfirmed_txs \cup {t \in Tx : mined[t] >= low}
  /\ calls' = <<[type |-> "get_contracts"], [type |-> "run_wallet"]>>
  /\ UNCHANGED <<tip, walletVars, running, signals, is_a, contracts, notViewed,
                 exp_med_ts, height_app>>

closeWallet ==
  /\ phase = "open" /\ calls = <<>> /\ running
  /\ calls' = <<[type |-> "close_wallet"]>>
  /\ UNCHANGED <<tip, walletVars, running, signals, is_a, phase, contracts, history, notViewed, exp_med_ts, height_app, opens>>

\* ignoredContract and dealsDetailsDontCanceling
Ignore(from, to, field) ==
  /\ \E c \in Contract :
     /\ Listed(c) /\ ~is_a[c] /\ getContract(c).state = from
     /\ notViewed' = [notViewed EXCEPT ![c] = [state |-> to, time |-> getContract(c)[field]]]
     /\ contracts' = [contracts EXCEPT ![First(c)] = WithState(@, to)]
  /\ UNCHANGED <<tip, walletVars, running, signals, is_a, phase, history, exp_med_ts, height_app, opens, calls>>
ignoredContract == Ignore(1, 110, "expiration_time")
dealsDetailsDontCanceling == Ignore(5, 130, "cancel_expiration_time")

\* what the purchase page offers for a contract: the buttons of
\* purchase.component.html that are shown and enabled
Offers(c) ==
  LET con == getContract(c) IN
  CASE ~is_a[c] /\ con.state = 1 -> {"accept"}
    [] ~is_a[c] /\ con.state = 5 -> {"release_cancel"}
    [] /\ is_a[c] /\ con.state \in {201, 2, 130}
       /\ con.cancel_expiration_time # 0 \/ Confirmed(con, height_app)
       -> {"release_normal", "release_burn", "cancel", "recancel"}
    [] OTHER -> {}

\* acceptState, productNotGot, dealsDetailsFinish, dealsDetailsCancel,
\* dealsDetailsSellerCancel; a proposal is created on a page of its own
purchaseCall ==
  /\ calls = <<>>
  /\ \/ \E c \in Contract : /\ Listed(c)
                            /\ \E k \in Offers(c) \cap Kind :
                                 calls' = <<[type |-> "send", tx |-> <<c, k>>]>>
     \/ /\ phase = "open" /\ running
        /\ \E c \in Contract : /\ is_a[c] /\ m_contracts[c] = NoContract
                               /\ calls' = <<[type |-> "send", tx |-> <<c, "proposal">>]>>
  /\ UNCHANGED <<tip, walletVars, running, signals, is_a, phase, contracts, history, notViewed, exp_med_ts, height_app, opens>>

-----------------------------------------------------------------------------
(* The backend executes the calls in order.                                *)

Call(type) == /\ calls # <<>> /\ Head(calls).type = type
              /\ calls' = Tail(calls)
guiIdle == <<is_a, phase, contracts, history, notViewed, exp_med_ts,
             height_app, opens>>

get_contracts ==
  /\ Call("get_contracts")
  /\ signals' = Append(signals, [type |-> "contracts", contracts |-> m_contracts])
  /\ UNCHANGED <<tip, walletVars, running, guiIdle>>

run_wallet ==
  /\ Call("run_wallet")
  /\ running' = TRUE
  /\ UNCHANGED <<tip, walletVars, signals, guiIdle>>

close_wallet ==
  /\ Call("close_wallet")
  /\ running' = FALSE
  /\ signals' = Append(signals, [type |-> "closed"])
  /\ UNCHANGED <<tip, walletVars, guiIdle>>

\* the state in which the wallet obeys a call: accept_proposal,
\* finish_contract, request_cancel_contract, accept_cancel_contract
Obeys(t) ==
  LET s == m_contracts[t[1]].state IN
  CASE t[2] = "proposal" -> TRUE
    [] t[2] = "accept" -> s = proposal_sent
    [] t[2] = "release_cancel" -> s = cancel_proposal_sent
    [] OTHER -> s \in {contract_accepted, cancel_proposal_sent}

\* a call the wallet, or the daemon that checks the transaction, refuses is
\* answered with an error and changes nothing
send ==
  /\ Call("send")
  /\ LET t == Head(calls).tx IN
     \/ running /\ Obeys(t) /\ AddUnconfirmed(t)
     \/ ~(running /\ Obeys(t) /\ Publishable(t)) /\ UNCHANGED <<walletVars, signals>>
  /\ UNCHANGED <<tip, running, guiIdle>>

\* the daemon's state and a mined block of this wallet are signalled, the
\* latter when a contract is shown that the GUI's handler could change
SignalDaemonState ==
  /\ signals' = Append(signals, [type |-> "update_daemon_state", median |-> median, height |-> tip])
  /\ <<median + 1, tip>> # <<exp_med_ts, height_app>>
  /\ ~\E i \in DOMAIN signals : signals[i].type = "update_daemon_state"
  /\ UNCHANGED <<tip, walletVars, running, guiVars>>
SignalMining ==
  /\ running /\ signals = <<>>
  /\ \E i \in DOMAIN contracts : contracts[i].state \in {201, 601}
  /\ signals' = <<[type |-> "mining_transfer"]>>
  /\ UNCHANGED <<tip, walletVars, running, guiVars>>

Wallet == (scan_tx_pool \/ refresh \/ DaemonBlock) /\ UNCHANGED guiVars
Deliver == \/ money_transfer \/ money_transfer_cancel \/ update_daemon_state
           \/ mining_transfer \/ prepareContractsAfterOpen  \/ wallet_closed
Backend == \/ get_contracts \/ run_wallet \/ close_wallet \/ send
           \/ SignalDaemonState \/ SignalMining
User == \/ openWallet \/ closeWallet
        \/ ignoredContract \/ dealsDetailsDontCanceling \/ purchaseCall

Next == Wallet \/ Deliver \/ Backend \/ User \/ intervalUpdateContractsState

Spec == Init /\ [][Next]_vars
        /\ WF_vars(Deliver) /\ WF_vars(SignalDaemonState)
        /\ WF_vars(intervalUpdateContractsState)

-----------------------------------------------------------------------------
ContractEntry ==
  [id : Contract, state : {1, 2, 3, 4, 5, 6, 110, 130, 140, 201, 601},
   height : 0..MaxHeight, expiration_time : {0, Expiration},
   cancel_expiration_time : {0, CancelTime.cancel, CancelTime.recancel}]

\* The variables have their types; in particular a contract is never shown
\* in a state other than those the handlers assign, 120 (accepted and viewed)
\* not among them.
TypeOK ==
  /\ tip \in 0..MaxHeight /\ height \in 0..tip
  /\ \A c \in Contract : m_contracts[c].state \in 0..6
  /\ m_unconfirmed_txs \cup gone \cup history \subseteq Tx
  /\ mined \in [Tx -> 0..MaxHeight]
  /\ phase \in {"closed", "open"}
  /\ \A i \in DOMAIN contracts : contracts[i] \in ContractEntry
  /\ exp_med_ts \in 0..(MaxHeight + 1) /\ height_app \in 0..MaxHeight

\* no call, answer or signal about contracts is on its way
Settled == running /\ calls = <<>> /\
  ~\E i \in DOMAIN signals : signals[i].type \in {"money_transfer", "contracts", "closed"}

\* The list of a wallet holds every contract of the wallet exactly once when
\* the queues are drained: the answer to getContracts is appended without a
\* look at the list, which is right only because the wallet is run, and
\* raises signals, after it (wallet.model.ts:153, app.component.ts:358).
ListComplete ==
  /\ \A c \in Contract : Cardinality(Positions(c)) <= 1
  /\ Settled => \A c \in Contract : Listed(c) <=> m_contracts[c] # NoContract

\* A proposal that can be accepted (state 1) has not expired by the time the
\* GUI knows, whichever of the three handlers wrote it (app.component.ts:298,
\* 538, wallet.model.ts:167).
NoExpiredOffer ==
  \A c \in Contract : Listed(c) /\ getContract(c).state = 1
     => getContract(c).expiration_time >= exp_med_ts

\* What the purchase page offers the wallet obeys, once the queues are
\* drained: a stale state would offer a call that the wallet answers with an
\* error.  Two exceptions: contracts whose transactions came out of order, and
\* a cancellation that has expired, of which the wallet raises no signal and
\* which prepareContractsAfterOpen does not look for.
OffersHonoured ==
  Settled =>
    \A c \in Contract \ overtaken : Listed(c) =>
      \A k \in Offers(c) :
        \/ Obeys(<<c, k>>)
        \/ k = "release_cancel" /\ Expired(m_contracts[c].cancel_expiration_time)

\* An action the page offers is one that the wallet will carry out.
OffersSound == NoExpiredOffer /\ OffersHonoured

\* the cancellation was accepted, and the wallet dropped the transaction
ReleaseDropped(c) == <<c, "release_cancel">> \in gone

\* The state shown is one of those that stand for the wallet's state when the
\* queues are drained.  140 also stands for a contract whose transactions
\* were not in the recent history at open; an expired cancellation (5, 130,
\* 601) may stand for an accepted contract, since the wallet drops it without
\* a signal, and so may a cancelled one (6) once the release is dropped.
ShownAgrees ==
  Settled => \A c \in Contract \ overtaken : Listed(c) =>
    LET shown == getContract(c).state
        real  == m_contracts[c].state
    IN  shown \in {140} \cup
          CASE real = proposal_sent -> {1, 110}
            [] real = contract_accepted ->
                 {2, 201, 5, 130, 601} \cup (IF ReleaseDropped(c) THEN {6} ELSE {})
            [] real = cancel_proposal_sent -> {5, 130}
            [] real = Released["release_cancel"] -> {6, 601}
            [] OTHER -> {real}

\* The GUI's contracts are those of the wallet, each once and in its state.
ContractsAgree == ListComplete /\ ShownAgrees

\* A contract shown as started (2) or cancelled (6) has its transaction in
\* the chain with the required number of blocks, however late the heights
\* arrive and even when a wallet id is delivered as a height
\* (app.component.ts:520, purchase.component.ts:196, variables.service.ts:147).
\* The exception is a cancellation whose release waited in the pool and was
\* dropped: it is shown as 601 at height 0, and when the request is mined
\* after that, the handler of money_transfer keeps the 601 and takes over the
\* height of the request, which the interval then counts from.
Deep(t) == t \in Tx /\ mined[t] # 0 /\ height_app >= mined[t] + Confirmations
StartedIsConfirmed ==
  \A c \in Contract \ overtaken : Listed(c) =>
    /\ getContract(c).state = 2 => Deep(<<c, "accept">>)
    /\ getContract(c).state = 6 => Deep(<<c, "release_cancel">>) \/ ReleaseDropped(c)

\* An accepted contract with enough blocks is eventually no longer shown as
\* waiting: the daemon's height is signalled and the 30-second interval looks
\* at every contract, whether or not its page is open (app.component.ts:520).
AcceptedDeep(c) ==
  LET con == m_contracts[c] IN
  running /\ con.state = contract_accepted /\ con.height # 0 /\ tip >= con.height + Confirmations
ShownWhenDeep ==
  \A c \in Contract :
    AcceptedDeep(c) ~> \/ ~AcceptedDeep(c)
                       \/ c \in overtaken
                       \/ Listed(c) /\ getContract(c).state \notin {1, 110, 201}

=============================================================================
