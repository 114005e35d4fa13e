----------------------------- MODULE GuiSession -----------------------------
(***************************************************************************)
(* A session of the GUI: start-up, the master password, the lock, the list *)
(* of open wallets, the secure file that keeps it, and quitting.  The GUI  *)
(* side is TypeScript under layout/html_source/src/app; the backend side   *)
(* is mainwindow.cpp and wallets_manager.cpp.                              *)
(*                                                                         *)
(* The backend executes the calls of the GUI one at a time in the order in *)
(* which they were made, and the answers come back in that order.  Only    *)
(* calls change the backend, and only answers show it to the GUI, so a     *)
(* call is executed and its callback run in one step, at any time after it *)
(* was made: what the user, the lock and the quit request do in between is *)
(* what interleaves.  The process may be killed between any two steps.     *)
(*                                                                         *)
(* A wallet is its id, given by the backend, and the path of its file.     *)
(* Names, contacts, staking and the wallets' passwords are left out, and   *)
(* so is the list of wallets in the unprotected settings: of those only    *)
(* whether they exist.  page is "login" (reg or auth) or "app", the rest.  *)
(***************************************************************************)
EXTENDS Naturals, Sequences, SequencesExt, FiniteSets

CONSTANTS
  Pass,         \* passwords other than the empty one
  Path,         \* wallet files
  Address,      \* [Path -> address of the keys in the file]
  Files,        \* secure files found at the first start
  NoFile, NoId, NoPromise, \* no secure file, no current wallet, no promise
  MaxOps,       \* bound: actions of the user
  MaxSessions   \* bound: starts of the program

Empty == "empty"    \* the empty password

\* what store_secure_app_data may have written; no list has two wallets of the same keys
SecureFile == [pass : Pass \cup {Empty}, wallets : Seq(Path)]
DifferentKeys(paths) ==
  \A i, j \in DOMAIN paths : i # j => Address[paths[i]] # Address[paths[j]]

ASSUME SessionAssumption ==
  /\ Empty \notin Pass
  /\ Files \subseteq SecureFile /\ \A f \in Files : DifferentKeys(f.wallets)
  /\ NoFile \notin SecureFile /\ NoPromise \notin Seq(Path) /\ NoId \notin Nat
  /\ {MaxOps, MaxSessions} \subseteq Nat

VARIABLES
  file,         \* the secure file: NoFile or [pass, wallets]
  appData,      \* the settings file holds something
  m_master_password, m_wallets, m_wallet_id_counter,
  done,         \* m_gui_deinitialize_done_1
  page, appPass, appLogin, dataIsLoaded,
  countdown,    \* the idle countdown runs
  wallets,      \* variablesService.wallets
  currentWallet,
  openWallets,  \* getWalletData: a wallet of the current batch was opened
  onQuitRequest,
  calls,        \* calls not yet answered
  ops, sessions,
  entered,      \* history: passwords the user entered since the last lock
  unlocking,    \* history: the session was locked while a call whose answer
                \* unlocks it was on its way, or its file was reset
  strayed,      \* history: the list lost track of the backend (see below)
  crossed,      \* history: a wallet was opened, or the file reset, while a login
                \* was on its way, or a login sent while a reset was
  promise       \* history: the wallets shown when quitting began undisturbed

disk     == <<file, appData>>
backend  == <<m_master_password, m_wallets, m_wallet_id_counter, done>>
session  == <<page, appPass, appLogin, dataIsLoaded, countdown>>
list     == <<wallets, currentWallet>>
history  == <<entered, unlocking, strayed, crossed, promise>>
vars == <<disk, backend, session, list, openWallets, onQuitRequest, calls,
          ops, sessions, history>>

Paths(ws) == [i \in DOMAIN ws |-> ws[i].path]
Ids(ws)   == {ws[i].id : i \in DOMAIN ws}
Listed(id) == id \in Ids(wallets)
Pending(cmd) == \E i \in DOMAIN calls : calls[i].cmd = cmd

\* getAppData only reads the settings, and its answer makes the first call
StartUpCalls == <<[cmd |-> "have_secure_app_data"]>>

Init ==
  /\ file \in Files \cup {NoFile} /\ appData \in BOOLEAN
  /\ m_master_password = Empty /\ m_wallets = {} /\ m_wallet_id_counter = 0
  /\ done = FALSE
  /\ page = "start" /\ appPass = Empty /\ appLogin = FALSE
  /\ dataIsLoaded = FALSE /\ countdown = FALSE
  /\ wallets = <<>> /\ currentWallet = NoId /\ openWallets = FALSE
  /\ onQuitRequest = FALSE /\ calls = StartUpCalls
  /\ ops = 0 /\ sessions = 1
  /\ entered = {} /\ unlocking = FALSE /\ strayed = FALSE
  /\ crossed = FALSE /\ promise = NoPromise

-----------------------------------------------------------------------------
(* Calls of the GUI.                                                       *)

storeSecureAppData(ws, then) ==
  [cmd |-> "store_secure_app_data", wallets |-> Paths(ws), then |-> then]
storeIf(pass, ws) == IF pass # Empty THEN <<storeSecureAppData(ws, "nothing")>> ELSE <<>>
storeAppData == [cmd |-> "store_app_data"]
closeWalletCall(id, then, index) ==
  [cmd |-> "close_wallet", id |-> id, then |-> then, index |-> index]

\* the wallets are closed from the last one on, one per answer
recursionCloseWallets(ws) ==
  IF ws # <<>> THEN closeWalletCall(Last(ws).id, "quit", Len(ws))
  ELSE [cmd |-> "on_request_quit"]

Ask(new) == calls' = calls \o new
Answer(cmd) == calls # <<>> /\ Head(calls).cmd = cmd
Reply(new) == calls' = Tail(calls) \o new

-----------------------------------------------------------------------------
(* The user, the idle timer and the request to quit.                       *)

\* an action of the user; it disturbs a quit that is under way
UserActs ==
  /\ ops < MaxOps
  /\ ops' = ops + 1
  /\ promise' = NoPromise
  /\ UNCHANGED <<disk, backend, openWallets, onQuitRequest, sessions>>

Enter(p) == entered' = entered \cup {p}

onSubmitCreatePass ==
  /\ page = "reg"
  /\ UserActs
  /\ \E p \in Pass : /\ appPass' = p /\ Enter(p)
                     /\ Ask(<<[cmd |-> "set_master_password", pass |-> p, then |-> "reg"]>>)
  /\ UNCHANGED <<page, appLogin, dataIsLoaded, countdown, list, strayed, unlocking, crossed>>

onSkipCreatePass ==
  /\ page = "reg"
  /\ UserActs
  /\ appPass' = Empty /\ appLogin' = TRUE /\ page' = "app"
  /\ UNCHANGED <<dataIsLoaded, countdown, list, calls, entered, strayed, unlocking, crossed>>

\* with the data loaded only the password is checked
onSubmitAuthPass ==
  /\ page = "auth"
  /\ UserActs
  /\ \E p \in Pass \cup {Empty} :
       /\ appPass' = p /\ Enter(p)
       /\ Ask(<<[cmd |-> IF dataIsLoaded THEN "check_master_password"
                         ELSE "get_secure_app_data", pass |-> p]>>)
  /\ crossed' = (crossed \/ Pending("drop_secure_app_data"))
  /\ UNCHANGED <<page, appLogin, dataIsLoaded, countdown, list, strayed, unlocking>>

\* the list is emptied, the wallets stay open in the backend
dropSecureAppData ==
  /\ page = "auth"
  /\ UserActs
  /\ Ask(<<[cmd |-> "drop_secure_app_data"]>>)
  /\ wallets' = <<>>
  /\ strayed' = TRUE /\ unlocking' = TRUE
  /\ crossed' = (crossed \/ Pending("get_secure_app_data"))
  /\ UNCHANGED <<session, currentWallet, entered>>

\* the form compares the old password with appPass; an empty new password is
\* forgotten by the GUI and changes nothing in the backend
onSubmitChangePass ==
  /\ appLogin /\ page = "app"
  /\ UserActs
  /\ \E p \in Pass \cup {Empty} :
       /\ appPass' = p /\ Enter(p)
       /\ Ask(IF p = Empty THEN <<>>
              ELSE <<[cmd |-> "set_master_password", pass |-> p, then |-> "change"]>>)
  /\ UNCHANGED <<page, appLogin, dataIsLoaded, countdown, list, strayed, unlocking, crossed>>

UnlockingCalls == {"set_master_password", "check_master_password", "get_secure_app_data"}
Lock ==
  /\ appLogin' = FALSE /\ appPass' = Empty /\ countdown' = FALSE /\ page' = "auth"
  /\ entered' = {}
  /\ unlocking' = (unlocking \/ \E i \in DOMAIN calls : calls[i].cmd \in UnlockingCalls)
  /\ UNCHANGED <<disk, backend, dataIsLoaded, list, openWallets, onQuitRequest,
                 calls, sessions, strayed, crossed>>

\* the sidebar, shown while appLogin
logOut == /\ appLogin /\ appPass # Empty
          /\ ops < MaxOps /\ ops' = ops + 1
          /\ promise' = NoPromise
          /\ Lock
idle   == countdown /\ appPass # Empty /\ Lock /\ UNCHANGED <<ops, promise>>

openWallet ==
  /\ page = "app"
  /\ UserActs
  /\ \E p \in Path : Ask(<<[cmd |-> "open_wallet", path |-> p, then |-> "user"]>>)
  /\ crossed' = (crossed \/ Pending("get_secure_app_data"))
  /\ UNCHANGED <<session, list, entered, strayed, unlocking>>

selectWallet ==
  /\ appLogin
  /\ UserActs
  /\ \E id \in Ids(wallets) : currentWallet # id /\ currentWallet' = id
  /\ page' = "app"
  /\ UNCHANGED <<appPass, appLogin, dataIsLoaded, countdown, wallets, calls, entered, strayed, unlocking, crossed>>

\* the click on the close button also selects the wallet
closeWallet ==
  /\ appLogin
  /\ UserActs
  /\ \E id \in Ids(wallets) : /\ currentWallet' = id
                              /\ Ask(<<closeWalletCall(id, "user", 0)>>)
  /\ page' = "app"
  /\ UNCHANGED <<appPass, appLogin, dataIsLoaded, countdown, wallets, entered, strayed, unlocking, crossed>>

\* moveItemInArray: a wallet is dragged to another place in the sidebar
drop ==
  /\ appLogin
  /\ UserActs
  /\ \E i, j \in DOMAIN wallets :
       i # j /\ wallets' = InsertAt(RemoveAt(wallets, i), j, wallets[i])
  /\ UNCHANGED <<session, currentWallet, calls, entered, strayed, unlocking, crossed>>

AlwaysQuit == TRUE
QuitGuard == ~onQuitRequest

quit_requested ==
  /\ QuitGuard /\ ops < MaxOps
  /\ ops' = ops + 1
  /\ onQuitRequest' = TRUE
  /\ page' = "app"
  /\ Ask(IF appPass # Empty THEN <<storeSecureAppData(wallets, "quit")>> ELSE <<storeAppData>>)
  /\ promise' = IF /\ ~onQuitRequest /\ appLogin /\ dataIsLoaded
                   /\ appPass # Empty /\ calls = <<>>
                THEN Paths(wallets) ELSE promise
  /\ UNCHANGED <<disk, backend, appPass, appLogin, dataIsLoaded, countdown, list,
                 openWallets, sessions, entered, unlocking, strayed, crossed>>

-----------------------------------------------------------------------------
(* The backend executes the first call and the GUI runs its callback.      *)

have_secure_app_data ==
  /\ Answer("have_secure_app_data")
  /\ Reply(<<>>)
  /\ page' = CASE file # NoFile -> "auth"
               [] file = NoFile /\ appData -> "app"
               [] OTHER -> "reg"
  /\ appLogin' = (appLogin \/ (file = NoFile /\ appData))
  /\ UNCHANGED <<disk, backend, appPass, dataIsLoaded, countdown, list,
                 openWallets, onQuitRequest, ops, sessions, history>>

Unlock == appLogin' = TRUE /\ countdown' = TRUE

\* the callback of onSubmitCreatePass and of onSubmitChangePass
NoStore == <<>>
StoreUnderNewPassword == <<storeSecureAppData(wallets, "nothing")>>
set_master_password ==
  /\ Answer("set_master_password")
  /\ m_master_password' = Head(calls).pass
  /\ Reply(StoreUnderNewPassword)
  /\ Unlock /\ dataIsLoaded' = TRUE
  /\ page' = IF Head(calls).then = "reg" THEN "app" ELSE page
  /\ UNCHANGED <<disk, m_wallets, m_wallet_id_counter, done, appPass, list, openWallets,
                 onQuitRequest, ops, sessions, history>>

\* the file is encrypted with the backend's password, not with appPass
store_secure_app_data ==
  /\ Answer("store_secure_app_data")
  /\ file' = [pass |-> m_master_password, wallets |-> Head(calls).wallets]
  /\ Reply(IF Head(calls).then = "quit" THEN <<storeAppData>> ELSE <<>>)
  /\ UNCHANGED <<appData, backend, session, list, openWallets, onQuitRequest,
                 ops, sessions, history>>

check_any_password(p) == TRUE
check_password(p) == p = m_master_password
check_master_password ==
  /\ Answer("check_master_password")
  /\ Reply(<<>>)
  /\ IF check_password(Head(calls).pass)
     THEN Unlock /\ page' = "app"
     ELSE UNCHANGED <<appLogin, countdown, page>>
  /\ UNCHANGED <<disk, backend, appPass, dataIsLoaded, list, openWallets,
                 onQuitRequest, ops, sessions, history>>

\* getData: the wallets of the file are opened when none is listed
getWalletData(paths) ==
  [i \in DOMAIN paths |-> [cmd |-> "open_wallet", path |-> paths[i], then |-> "login",
                           first |-> i = 1, last |-> i = Len(paths)]]

get_secure_app_data ==
  /\ Answer("get_secure_app_data")
  /\ LET p == Head(calls).pass IN
     IF file # NoFile /\ file.pass = p
     THEN /\ m_master_password' = p /\ appPass' = p
          /\ Unlock /\ dataIsLoaded' = TRUE
          /\ Reply(IF wallets = <<>> THEN getWalletData(file.wallets) ELSE <<>>)
          /\ page' = IF wallets # <<>> \/ file.wallets = <<>> THEN "app" ELSE page
     ELSE Reply(<<>>) /\ UNCHANGED <<m_master_password, session>>
  /\ UNCHANGED <<disk, m_wallets, m_wallet_id_counter, done, list, openWallets,
                 onQuitRequest, ops, sessions, history>>

\* the callback is onSkipCreatePass
drop_secure_app_data ==
  /\ Answer("drop_secure_app_data")
  /\ file' = NoFile
  /\ Reply(<<>>)
  /\ appPass' = Empty /\ appLogin' = TRUE /\ page' = "app"
  /\ UNCHANGED <<appData, backend, dataIsLoaded, countdown, list, openWallets,
                 onQuitRequest, ops, sessions, history>>

\* wallets_manager::open_wallet: an open file is refused before an id is
\* taken; one that cannot be loaded takes an id
AlreadyOpen(p) == \E w \in m_wallets : w.path = p
LoadedNext(p) == [id |-> m_wallet_id_counter + 1, path |-> p]
Loaded(p) == [id |-> m_wallet_id_counter, path |-> p]
LoadWallet(p) == /\ ~AlreadyOpen(p)
                 /\ m_wallet_id_counter' = m_wallet_id_counter + 1
                 /\ m_wallets' = m_wallets \cup {Loaded(p)}
FailToLoad(p) == /\ m_wallet_id_counter' =
                      IF AlreadyOpen(p) THEN m_wallet_id_counter ELSE m_wallet_id_counter + 1
                 /\ UNCHANGED m_wallets

\* OpenWalletComponent: a second file with the keys of a listed wallet is
\* closed again
SamePath(p) == \E i \in DOMAIN wallets : wallets[i].path = p
Exists(p) == \E i \in DOMAIN wallets : Address[wallets[i].path] = Address[p]
LeaveOpen(p) == <<>>
CloseDuplicate(p) == <<closeWalletCall(Loaded(p).id, "home", 0)>>

open_wallet ==
  /\ Answer("open_wallet") /\ Head(calls).then = "user"
  /\ LET p == Head(calls).path IN
     \/ /\ LoadWallet(p)
        /\ IF Exists(p)
           THEN Reply(CloseDuplicate(p)) /\ UNCHANGED wallets
           ELSE /\ wallets' = Append(wallets, Loaded(p))
                /\ Reply(<<[cmd |-> "run_wallet", id |-> Loaded(p).id]>>)
     \/ FailToLoad(p) /\ Reply(<<>>) /\ UNCHANGED wallets
  /\ UNCHANGED <<disk, m_master_password, done, session, currentWallet, openWallets,
                 onQuitRequest, ops, sessions, history>>

\* LoginComponent: the first wallet opened leads to its page, whose
\* constructor selects the wallet with id 0 if none is selected yet.  The
\* page calls runWallet too, which fails only for a wallet closed meanwhile;
\* its callback at most navigates and is left out.
open_wallet_login ==
  /\ Answer("open_wallet") /\ Head(calls).then = "login"
  /\ Reply(<<>>)
  /\ LET p == Head(calls).path
         before == openWallets /\ ~Head(calls).first
     IN \/ /\ LoadWallet(p)
           /\ openWallets' = TRUE
           /\ wallets' = Append(wallets, Loaded(p))
           /\ IF wallets = <<>>
              THEN /\ page' = "app"
                   /\ currentWallet' = IF currentWallet = NoId /\ Loaded(p).id = 0
                                       THEN 0 ELSE currentWallet
              ELSE UNCHANGED <<page, currentWallet>>
        \/ /\ FailToLoad(p)
           /\ openWallets' = before
           /\ page' = IF Head(calls).last /\ ~before THEN "app" ELSE page
           /\ UNCHANGED list
  /\ UNCHANGED <<disk, m_master_password, done, appPass, appLogin, dataIsLoaded,
                 countdown, onQuitRequest, ops, sessions, history>>

\* the callback of OpenWalletComponent, for a wallet that is still open
run_wallet ==
  /\ Answer("run_wallet")
  /\ LET id == Head(calls).id IN
     IF \E w \in m_wallets : w.id = id
     THEN /\ Reply(storeIf(appPass, wallets))
          /\ currentWallet' = IF Listed(id) THEN id ELSE currentWallet
          /\ page' = "app"
     ELSE Reply(<<>>) /\ UNCHANGED <<currentWallet, page>>
  /\ UNCHANGED <<disk, backend, appPass, appLogin, dataIsLoaded, countdown, wallets,
                 openWallets, onQuitRequest, ops, sessions, history>>

\* wallets_manager::close_wallet answers an unknown id with an error, which
\* no callback looks at
Close(id) == m_wallets' = {w \in m_wallets : w.id # id}

\* splice: the wallet leaves the list, in which an id occurs once
Without(ws, id) ==
  IF id \in Ids(ws) THEN RemoveAt(ws, CHOOSE i \in DOMAIN ws : ws[i].id = id) ELSE ws

\* the callback of closeWallet removes the wallet that is current when the
\* answer comes; the list strays when that is another one
close_wallet ==
  /\ Answer("close_wallet") /\ Head(calls).then # "quit"
  /\ LET id == Head(calls).id
         left == Without(wallets, currentWallet)
     IN /\ Close(id)
        /\ \/ /\ Head(calls).then = "user"
              /\ wallets' = left
              /\ currentWallet' = IF left # <<>> THEN left[1].id ELSE currentWallet
              /\ Reply(storeIf(appPass, left))
              /\ strayed' = (strayed \/ currentWallet # id)
           \/ /\ Head(calls).then = "home"
              /\ Reply(<<>>)
              /\ UNCHANGED <<list, strayed>>
  /\ page' = "app"
  /\ UNCHANGED <<disk, m_master_password, m_wallet_id_counter, done, appPass, appLogin,
                 dataIsLoaded, countdown, openWallets, onQuitRequest, ops, sessions,
                 entered, unlocking, promise, crossed>>

store_app_data ==
  /\ Answer("store_app_data")
  /\ appData' = TRUE
  /\ Reply(<<recursionCloseWallets(wallets)>>)
  /\ UNCHANGED <<file, backend, session, list, openWallets, onQuitRequest,
                 ops, sessions, history>>

\* splice(lastIndex, 1), with the index taken when the call was made
QuitOnlyIfClosed(id) == \E w \in m_wallets : w.id = id
QuitGoesOn(id) == TRUE
close_wallet_quit ==
  /\ Answer("close_wallet") /\ Head(calls).then = "quit"
  /\ LET left == IF Head(calls).index <= Len(wallets)
                 THEN RemoveAt(wallets, Head(calls).index) ELSE wallets
     IN /\ Close(Head(calls).id)
        /\ wallets' = left
        /\ Reply(IF QuitGoesOn(Head(calls).id) THEN <<recursionCloseWallets(left)>> ELSE <<>>)
  /\ UNCHANGED <<disk, m_master_password, m_wallet_id_counter, done, session, currentWallet,
                 openWallets, onQuitRequest, ops, sessions, history>>

on_request_quit ==
  /\ Answer("on_request_quit")
  /\ done' = TRUE
  /\ Reply(<<>>)
  /\ UNCHANGED <<disk, m_master_password, m_wallets, m_wallet_id_counter, session, list,
                 openWallets, onQuitRequest, ops, sessions, history>>

\* the program ends, after a quit or because it is killed, and is started again
Restart ==
  /\ sessions < MaxSessions
  /\ sessions' = sessions + 1
  /\ m_master_password' = Empty /\ m_wallets' = {} /\ m_wallet_id_counter' = 0
  /\ done' = FALSE
  /\ page' = "start" /\ appPass' = Empty /\ appLogin' = FALSE
  /\ dataIsLoaded' = FALSE /\ countdown' = FALSE
  /\ wallets' = <<>> /\ currentWallet' = NoId /\ openWallets' = FALSE
  /\ onQuitRequest' = FALSE /\ calls' = StartUpCalls
  /\ entered' = {} /\ unlocking' = FALSE /\ strayed' = FALSE /\ promise' = NoPromise
  /\ UNCHANGED <<disk, ops, crossed>>

User == \/ onSubmitCreatePass \/ onSkipCreatePass \/ onSubmitAuthPass \/ dropSecureAppData
        \/ onSubmitChangePass \/ logOut \/ openWallet \/ selectWallet \/ closeWallet \/ drop
        \/ quit_requested
Backend == \/ have_secure_app_data \/ set_master_password \/ store_secure_app_data
           \/ check_master_password \/ get_secure_app_data \/ drop_secure_app_data
           \/ open_wallet \/ open_wallet_login \/ run_wallet \/ close_wallet
           \/ store_app_data \/ close_wallet_quit \/ on_request_quit

Next == User \/ idle \/ Backend \/ Restart

\* the Qt event loop executes every call and delivers every answer
Spec == Init /\ [][Next]_vars /\ WF_vars(Backend)

-----------------------------------------------------------------------------
\* The variables have their types; page and appLogin are independent, since
\* an answer that comes after the lock navigates away from the login page.
TypeOK ==
  /\ file # NoFile => /\ file.pass \in Pass \cup {Empty}
                      /\ Range(file.wallets) \subseteq Path
  /\ {m_master_password, appPass} \cup entered \subseteq Pass \cup {Empty}
  /\ page \in {"start", "reg", "auth", "app"}
  /\ \A w \in m_wallets : w.id \in 0..(m_wallet_id_counter - 1) /\ w.path \in Path
  /\ \A i \in DOMAIN wallets : wallets[i].id < m_wallet_id_counter
  /\ currentWallet \in {NoId} \cup 0..m_wallet_id_counter
  /\ {appData, done, appLogin, dataIsLoaded, countdown, onQuitRequest} \subseteq BOOLEAN

\* Once the data is loaded and nothing is about to be stored, the secure file
\* is under the password that the backend checks at the lock screen and
\* stores with: the password that unlocks now is the one that opens the file
\* at the next start, whatever appPass holds (mainwindow.cpp:1390).
FileUnderMaster ==
  dataIsLoaded /\ file # NoFile /\ ~Pending("store_secure_app_data")
    => file.pass = m_master_password

\* A session with a secure file is unlocked only after the password of that
\* file was entered since the last lock.  Exceptions: a lock while a call is on
\* its way whose answer lifts it again (settings.component.ts:166,
\* login.component.ts:100, 118), and a session whose file was reset.
UnlockedByPassword ==
  appLogin /\ dataIsLoaded /\ file # NoFile /\ ~unlocking => file.pass \in entered

\* One password protects the file, unlocks the session and is checked at the
\* lock screen.
PasswordsAgree == FileUnderMaster /\ UnlockedByPassword

\* No two listed wallets have the same keys, across openings, logins and
\* restarts, although the login opens the wallets of the file without the
\* check that OpenWalletComponent makes (login.component.ts:165).  Exception:
\* a wallet opened by the user while a login is on its way, which a request to
\* quit or an answer that leaves the login page allows, and a login and a
\* reset on their way together.
UniqueWallets == ~crossed => DifferentKeys(Paths(wallets))

\* With no call pending the list shows exactly the wallets that are open in
\* the backend, unless the list was reset at the lock screen or a close was
\* answered while another wallet was current (sidebar.component.ts:88).
ListIsOpen ==
  calls = <<>> /\ ~strayed /\ ~onQuitRequest
    => {wallets[i] : i \in DOMAIN wallets} = m_wallets

\* The list of the page is the list of the backend and has every wallet once.
WalletsListed == UniqueWallets /\ ListIsOpen

\* A quit that nothing disturbs leaves a secure file with the wallets that
\* were shown when it began: they are stored before the first one is closed,
\* a second request changes nothing and neither does the lock
\* (app.component.ts:97).
QuitSaves == done /\ promise # NoPromise => file # NoFile /\ file.wallets = promise

\* A request to quit is carried out, whatever the user does to the list of
\* wallets while it is being closed (app.component.ts:106).
QuitCompletes == onQuitRequest ~> done \/ ~onQuitRequest

=============================================================================
