----------------------- MODULE GuiSessionWalletProofs -----------------------
(***************************************************************************)
(* The list of wallets of the GUI never has two wallets of the same keys,  *)
(* for any wallet files and keys and any number of actions and starts.     *)
(* The login opens the wallets of the file without looking at the keys, so *)
(* this rests on what the file holds, on what else may be on its way       *)
(* together with a login, and on the order in which it is executed.        *)
(***************************************************************************)
EXTENDS GuiSessionProofs

IsLogin(c) == c.cmd = "open_wallet" /\ c.then = "login"
IsOpen(c)  == c.cmd = "open_wallet" /\ c.then = "user"
IsGet(c)   == c.cmd = "get_secure_app_data"
IsDrop(c)  == c.cmd = "drop_secure_app_data"
IsStore(c) == c.cmd = "store_secure_app_data"

\* What is on its way together with a login, and in which order: the user's
\* wallets are opened after those of the file, a password is sent after the
\* user's wallets were, and no list is stored between two passwords.
OrderInv ==
  ~crossed =>
    /\ \A i, j \in DOMAIN calls : IsOpen(calls[i]) /\ IsLogin(calls[j]) => j < i
    /\ \A i, j \in DOMAIN calls : IsGet(calls[i]) /\ IsOpen(calls[j]) => j < i
    /\ \A i, j \in DOMAIN calls : ~(IsGet(calls[i]) /\ IsDrop(calls[j]))
    /\ \A i, j, k \in DOMAIN calls :
          IsGet(calls[i]) /\ IsStore(calls[j]) /\ IsGet(calls[k]) => ~(i < j /\ j < k)
    /\ ~dataIsLoaded =>
         /\ \A i \in DOMAIN calls : ~IsLogin(calls[i])
         /\ \A i \in DOMAIN calls : IsGet(calls[i]) => ~appLogin
         /\ \A i, j \in DOMAIN calls :
              IsGet(calls[i]) /\ IsStore(calls[j]) /\ i < j => page # "auth"

\* No two wallets have the same keys
UniqueKeys(shown) == \A v, w \in shown : Address[v.path] = Address[w.path] => v = w

\* The keys of the list, of the file and of the lists to be stored; a login on
\* its way opens nothing of the same keys as another one or as a listed
\* wallet, but that very file, which then is open in the backend and stays so
\* until the login is refused.  While another login follows, it has the wallets of
\* the file, and the file stays as it is.
KeysInv ==
  ~crossed =>
    /\ UniqueKeys(Shown(wallets))
    /\ file # NoFile => DifferentKeys(file.wallets)
    /\ \A i \in DOMAIN calls : IsStore(calls[i]) => DifferentKeys(calls[i].wallets)
    /\ \A i, k \in DOMAIN calls : IsLogin(calls[i]) /\ IsGet(calls[k]) =>
          /\ file # NoFile /\ calls[i].path \in Range(file.wallets)
          /\ \A j \in DOMAIN calls : IsStore(calls[j]) => ~(j < k)
    /\ \A i, j \in DOMAIN calls : IsLogin(calls[i]) /\ IsLogin(calls[j]) =>
          (Address[calls[i].path] = Address[calls[j].path] => calls[i].path = calls[j].path)
    /\ \A i \in DOMAIN calls, v \in Shown(wallets) : IsLogin(calls[i]) =>
          /\ Address[v.path] = Address[calls[i].path] => v.path = calls[i].path
          /\ v.path = calls[i].path =>
               /\ v \in m_wallets
               /\ \A j \in DOMAIN calls : calls[j].cmd = "close_wallet" /\ calls[j].id = v.id => ~(j < i)

KeyInv == OrderInv /\ KeysInv

\* A list of different keys is stored as one.
LEMMA PathKeys ==
  ASSUME NEW ws, NEW n, GoodList(ws, n)
  PROVE  UniqueKeys(Shown(ws)) => DifferentKeys(Paths(ws))
<1>1. SUFFICES ASSUME UniqueKeys(Shown(ws)), NEW i \in DOMAIN Paths(ws), NEW j \in DOMAIN Paths(ws),
                      i # j, Address[Paths(ws)[i]] = Address[Paths(ws)[j]]
               PROVE  FALSE
  BY DEF DifferentKeys
<1>2. /\ Paths(ws) \in Seq(Path) /\ Len(Paths(ws)) = Len(ws)
      /\ \A k \in 1..Len(ws) : Paths(ws)[k] = ws[k].path
  BY PathsOf DEF GoodList
<1>3. i \in 1..Len(ws) /\ j \in 1..Len(ws)
  BY <1>1, <1>2
<1>4. ws[i] = ws[j]
  BY <1>1, <1>2, <1>3 DEF UniqueKeys, Shown
<1> QED
  BY <1>1, <1>3, <1>4 DEF GoodList

\* Calls that neither open wallets nor read or reset the file keep the order.
LEMMA OrderShift ==
  ASSUME TypeInv, OrderInv, crossed => crossed',
         NEW d \in {0, 1}, NEW new \in Seq(Call), Shift(calls, calls', d, new),
         \A k \in DOMAIN new : ~IsLogin(new[k]) /\ ~IsOpen(new[k]) /\ ~IsGet(new[k]) /\ ~IsDrop(new[k]),
         dataIsLoaded => dataIsLoaded',
         ASSUME ~crossed, ~dataIsLoaded', NEW i \in DOMAIN calls, IsGet(calls[i])
         PROVE  /\ page' = "auth" => page = "auth" /\ \A k \in DOMAIN new : ~IsStore(new[k])
                /\ appLogin' => appLogin
  PROVE  OrderInv'
<1>1. SUFFICES ASSUME ~crossed PROVE OrderInv'
  BY DEF OrderInv
<1>2. calls \in Seq(Call) /\ DOMAIN calls = 1..Len(calls) /\ Len(calls) \in Nat
  BY DEF TypeInv, GoodCalls
<1>3. \A i \in DOMAIN calls' : \/ i + d \in DOMAIN calls /\ calls'[i] = calls[i + d]
                               \/ i + d > Len(calls) /\ \E k \in DOMAIN new : calls'[i] = new[k]
  BY <1>2, ShiftIndex
<1>4. DOMAIN calls' \subseteq Nat
  BY <1>2 DEF Shift
<1>5. \A i \in DOMAIN calls' :
         IsLogin(calls'[i]) \/ IsOpen(calls'[i]) \/ IsGet(calls'[i]) \/ IsDrop(calls'[i])
           => i + d \in DOMAIN calls /\ calls'[i] = calls[i + d]
  BY <1>3
<1>6. \A i, j \in DOMAIN calls' : j < i /\ i + d \in DOMAIN calls
         => j + d \in DOMAIN calls /\ calls'[j] = calls[j + d]
  BY <1>2, <1>3, <1>4
<1>7. \A i, j \in DOMAIN calls' : j + d < i + d <=> j < i
  BY <1>4
<1> DEFINE old(i) == i + d
<1> HIDE DEF old
<1>8. /\ \A i \in DOMAIN calls' :
         IsLogin(calls'[i]) \/ IsOpen(calls'[i]) \/ IsGet(calls'[i]) \/ IsDrop(calls'[i])
           => old(i) \in DOMAIN calls /\ calls'[i] = calls[old(i)]
      /\ \A i, j \in DOMAIN calls' : j < i /\ old(i) \in DOMAIN calls
         => old(j) \in DOMAIN calls /\ calls'[j] = calls[old(j)]
      /\ \A i, j \in DOMAIN calls' : old(j) < old(i) <=> j < i
  BY <1>5, <1>6, <1>7 DEF old
<1>9. \A i, j \in DOMAIN calls' : IsOpen(calls'[i]) /\ IsLogin(calls'[j]) => j < i
  BY <1>1, <1>8 DEF OrderInv
<1>10. \A i, j \in DOMAIN calls' : IsGet(calls'[i]) /\ IsOpen(calls'[j]) => j < i
  BY <1>1, <1>8 DEF OrderInv
<1>11. \A i, j \in DOMAIN calls' : ~(IsGet(calls'[i]) /\ IsDrop(calls'[j]))
  BY <1>1, <1>8 DEF OrderInv
<1>12. \A i, j, k \in DOMAIN calls' :
          IsGet(calls'[i]) /\ IsStore(calls'[j]) /\ IsGet(calls'[k]) => ~(i < j /\ j < k)
  BY <1>1, <1>8 DEF OrderInv
<1>13. ASSUME ~dataIsLoaded'
       PROVE  /\ \A i \in DOMAIN calls' : ~IsLogin(calls'[i])
              /\ \A i \in DOMAIN calls' : IsGet(calls'[i]) => ~appLogin'
              /\ \A i, j \in DOMAIN calls' :
                    IsGet(calls'[i]) /\ IsStore(calls'[j]) /\ i < j => page' # "auth"
  <2>1. \A i \in DOMAIN calls' : ~IsLogin(calls'[i])
    BY <1>1, <1>8, <1>13 DEF OrderInv
  <2>2. \A i \in DOMAIN calls' : IsGet(calls'[i]) => ~appLogin'
    BY <1>1, <1>8, <1>13 DEF OrderInv
  <2>3. ASSUME NEW i \in DOMAIN calls', NEW j \in DOMAIN calls',
               IsGet(calls'[i]), IsStore(calls'[j]), i < j, page' = "auth"
        PROVE  FALSE
    <3>1. old(i) \in DOMAIN calls /\ IsGet(calls[old(i)])
      BY <1>8, <2>3
    <3>2. page = "auth" /\ \A k \in DOMAIN new : ~IsStore(new[k])
      BY <1>1, <1>13, <2>3, <3>1
    <3>3. old(j) \in DOMAIN calls /\ calls'[j] = calls[old(j)]
      BY <1>3, <2>3, <3>2 DEF old
    <3> QED
      BY <1>1, <1>8, <1>13, <2>3, <3>1, <3>2, <3>3 DEF OrderInv
  <2> QED
    BY <2>1, <2>2, <2>3
<1> QED
  BY <1>9, <1>10, <1>11, <1>12, <1>13 DEF OrderInv

\* So do they keep the keys, whatever leaves the list, as long as a wallet is
\* closed by its call only and no list of equal keys is stored.
LEMMA KeysShift ==
  ASSUME TypeInv, KeysInv, crossed => crossed',
         NEW d \in {0, 1}, NEW new \in Seq(Call), Shift(calls, calls', d, new),
         \A k \in DOMAIN new : ~IsLogin(new[k]),
         \A k \in DOMAIN new : IsGet(new[k]) => \A i \in DOMAIN calls : ~IsLogin(calls[i]),
         \A k \in DOMAIN new : IsStore(new[k]) => crossed \/ DifferentKeys(new[k].wallets),
         Shown(wallets') \subseteq Shown(wallets),
         crossed \/ file' = NoFile \/ DifferentKeys(file'.wallets),
         file' = file \/ \A i, k \in DOMAIN calls : ~(IsLogin(calls[i]) /\ IsGet(calls[k])),
         \A w \in m_wallets : \/ w \in m_wallets'
                              \/ d = 1 /\ calls[1].cmd = "close_wallet" /\ calls[1].id = w.id
  PROVE  KeysInv'
<1>1. SUFFICES ASSUME ~crossed PROVE KeysInv'
  BY DEF KeysInv
<1>2. calls \in Seq(Call) /\ DOMAIN calls = 1..Len(calls) /\ Len(calls) \in Nat
  BY DEF TypeInv, GoodCalls
<1>3. \A i \in DOMAIN calls' : \/ i + d \in DOMAIN calls /\ calls'[i] = calls[i + d]
                               \/ i + d > Len(calls) /\ \E k \in DOMAIN new : calls'[i] = new[k]
  BY <1>2, ShiftIndex
<1>4. DOMAIN calls' \subseteq Nat \ {0}
  BY <1>2 DEF Shift
<1> DEFINE old(i) == i + d
<1>5. \A i \in DOMAIN calls' : \/ old(i) \in DOMAIN calls /\ calls'[i] = calls[old(i)]
                               \/ \E k \in DOMAIN new : calls'[i] = new[k]
  BY <1>3
<1>6. \A i, j \in DOMAIN calls' : j < i /\ old(i) \in DOMAIN calls
         => old(j) \in DOMAIN calls /\ calls'[j] = calls[old(j)]
  BY <1>2, <1>3, <1>4
<1>7. \A i, j \in DOMAIN calls' : old(j) < old(i) <=> j < i
  BY <1>4
<1>8. \A i \in DOMAIN calls' : d = 1 /\ old(i) \in DOMAIN calls => 1 \in DOMAIN calls /\ 1 < old(i)
  BY <1>2, <1>4
<1> HIDE DEF old
<1>9. \A i \in DOMAIN calls' : IsLogin(calls'[i]) => old(i) \in DOMAIN calls /\ calls'[i] = calls[old(i)]
  BY <1>5
<1>10. UniqueKeys(Shown(wallets'))
  BY <1>1 DEF KeysInv, UniqueKeys
<1>11. \A i \in DOMAIN calls' : IsStore(calls'[i]) => DifferentKeys(calls'[i].wallets)
  BY <1>1, <1>5 DEF KeysInv
<1>12. ASSUME NEW i \in DOMAIN calls', NEW k \in DOMAIN calls', IsLogin(calls'[i]), IsGet(calls'[k])
       PROVE  /\ file' # NoFile /\ calls'[i].path \in Range(file'.wallets)
              /\ \A j \in DOMAIN calls' : IsStore(calls'[j]) => ~(j < k)
  <2>1. old(i) \in DOMAIN calls /\ calls'[i] = calls[old(i)] /\ IsLogin(calls[old(i)])
    BY <1>9, <1>12
  <2>2. old(k) \in DOMAIN calls /\ calls'[k] = calls[old(k)] /\ IsGet(calls[old(k)])
    BY <1>5, <1>12, <2>1
  <2>3. file' = file /\ file # NoFile /\ calls[old(i)].path \in Range(file.wallets)
        /\ \A j \in DOMAIN calls : IsStore(calls[j]) => ~(j < old(k))
    BY <1>1, <2>1, <2>2 DEF KeysInv
  <2>4. \A j \in DOMAIN calls' : IsStore(calls'[j]) => ~(j < k)
    BY <1>6, <1>7, <2>2, <2>3
  <2> QED
    BY <2>1, <2>3, <2>4
<1>13. \A i, j \in DOMAIN calls' : IsLogin(calls'[i]) /\ IsLogin(calls'[j]) =>
          (Address[calls'[i].path] = Address[calls'[j].path] => calls'[i].path = calls'[j].path)
  BY <1>1, <1>9 DEF KeysInv
<1>14. ASSUME NEW i \in DOMAIN calls', NEW v \in Shown(wallets'), IsLogin(calls'[i])
       PROVE  /\ Address[v.path] = Address[calls'[i].path] => v.path = calls'[i].path
              /\ v.path = calls'[i].path =>
                   /\ v \in m_wallets'
                   /\ \A j \in DOMAIN calls' :
                        calls'[j].cmd = "close_wallet" /\ calls'[j].id = v.id => ~(j < i)
  <2>1. old(i) \in DOMAIN calls /\ calls'[i] = calls[old(i)] /\ IsLogin(calls[old(i)])
    BY <1>9, <1>14
  <2>2. v \in Shown(wallets)
    BY <1>14
  <2>3. /\ Address[v.path] = Address[calls[old(i)].path] => v.path = calls[old(i)].path
        /\ v.path = calls[old(i)].path =>
              /\ v \in m_wallets
              /\ \A j \in DOMAIN calls :
                   calls[j].cmd = "close_wallet" /\ calls[j].id = v.id => ~(j < old(i))
    BY <1>1, <2>1, <2>2 DEF KeysInv
  <2>4. SUFFICES ASSUME v.path = calls[old(i)].path
                 PROVE  /\ v \in m_wallets'
                        /\ \A j \in DOMAIN calls' :
                             calls'[j].cmd = "close_wallet" /\ calls'[j].id = v.id => ~(j < i)
    BY <2>1, <2>3
  <2>5. v \in m_wallets'
    BY <1>8, <2>1, <2>3, <2>4
  <2>6. \A j \in DOMAIN calls' : calls'[j].cmd = "close_wallet" /\ calls'[j].id = v.id => ~(j < i)
    BY <1>6, <1>7, <2>1, <2>3, <2>4
  <2> QED
    BY <2>5, <2>6
<1>15. file' # NoFile => DifferentKeys(file'.wallets)
  BY <1>1
<1> QED
  BY <1>10, <1>11, <1>12, <1>13, <1>14, <1>15 DEF KeysInv

\* A call that neither opens wallets nor reads or resets the file.
Quiet(c) ==
  /\ c.cmd \notin {"open_wallet", "get_secure_app_data", "drop_secure_app_data"}
  /\ IsStore(c) => crossed \/ DifferentKeys(c.wallets)

\* A step that answers the first d calls, lists nothing new, stores no equal keys
\* and closes nothing but the wallet of the call it answers.
KeepsKeys(d) ==
  /\ crossed => crossed'
  /\ Shown(wallets') \subseteq Shown(wallets)
  /\ crossed \/ file' = NoFile \/ DifferentKeys(file'.wallets)
  /\ file' = file \/ \A i, k \in DOMAIN calls : ~(IsLogin(calls[i]) /\ IsGet(calls[k]))
  /\ \A w \in m_wallets : \/ w \in m_wallets'
                          \/ d = 1 /\ calls[1].cmd = "close_wallet" /\ calls[1].id = w.id

\* A step that does not bring a session that waits for its data to the lock
\* screen, and stores nothing there.
KeepsOrder(stores) ==
  /\ dataIsLoaded => dataIsLoaded'
  /\ ~crossed /\ ~dataIsLoaded' /\ Pending("get_secure_app_data") =>
        (page' = "auth" => page = "auth" /\ ~stores) /\ (appLogin' => appLogin)

LEMMA QuietShift ==
  ASSUME TypeInv, KeyInv, NEW d \in {0, 1}, NEW new \in Seq(Call), Shift(calls, calls', d, new),
         \A k \in DOMAIN new : Quiet(new[k]), KeepsKeys(d),
         KeepsOrder(\E k \in DOMAIN new : IsStore(new[k]))
  PROVE  KeyInv'
<1>1. \A k \in DOMAIN new : ~IsLogin(new[k]) /\ ~IsOpen(new[k]) /\ ~IsGet(new[k]) /\ ~IsDrop(new[k])
  BY DEF Quiet, IsLogin, IsOpen, IsGet, IsDrop
<1>2. \A k \in DOMAIN new : IsStore(new[k]) => crossed \/ DifferentKeys(new[k].wallets)
  BY DEF Quiet
<1>3. ASSUME ~crossed, ~dataIsLoaded', NEW i \in DOMAIN calls, IsGet(calls[i])
      PROVE  /\ page' = "auth" => page = "auth" /\ \A k \in DOMAIN new : ~IsStore(new[k])
             /\ appLogin' => appLogin
  BY <1>3 DEF KeepsOrder, Pending, IsGet
<1>4. OrderInv'
  BY <1>1, <1>3, OrderShift DEF KeyInv, KeepsOrder, KeepsKeys
<1>5. KeysInv'
  BY <1>1, <1>2, KeysShift DEF KeyInv, KeepsKeys
<1> QED
  BY <1>4, <1>5 DEF KeyInv

LEMMA QuietOne ==
  ASSUME TypeInv, KeyInv, NEW c \in Call, Quiet(c), KeepsOrder(IsStore(c)),
         \/ Ask(<<c>>) /\ KeepsKeys(0)
         \/ calls # <<>> /\ Reply(<<c>>) /\ KeepsKeys(1)
  PROVE  KeyInv'
<1> DEFINE new == <<c>>
<1>1. new \in Seq(Call) /\ DOMAIN new = {1} /\ new[1] = c
  OBVIOUS
<1>2. calls \in Seq(Call)
  BY DEF TypeInv, GoodCalls
<1>3. \/ Shift(calls, calls', 0, new) /\ KeepsKeys(0)
      \/ Shift(calls, calls', 1, new) /\ KeepsKeys(1)
  BY <1>1, <1>2, AskShift, ReplyShift DEF Ask, Reply
<1> HIDE DEF new
<1>4. (\A k \in DOMAIN new : Quiet(new[k])) /\ (IsStore(c) <=> \E k \in DOMAIN new : IsStore(new[k]))
  BY <1>1
<1>5. KeepsOrder(\E k \in DOMAIN new : IsStore(new[k]))
  BY <1>4 DEF KeepsOrder
<1> QED
  BY <1>1, <1>3, <1>4, <1>5, QuietShift

LEMMA QuietNone ==
  ASSUME TypeInv, KeyInv, KeepsOrder(FALSE),
         \/ calls' = calls /\ KeepsKeys(0)
         \/ calls # <<>> /\ Reply(<<>>) /\ KeepsKeys(1)
  PROVE  KeyInv'
<1> DEFINE new == <<>>
<1>1. new \in Seq(Call) /\ DOMAIN new = {}
  OBVIOUS
<1>2. calls \in Seq(Call) /\ calls \o <<>> = calls
  BY DEF TypeInv, GoodCalls
<1>3. \/ Shift(calls, calls', 0, new) /\ KeepsKeys(0)
      \/ Shift(calls, calls', 1, new) /\ KeepsKeys(1)
  BY <1>1, <1>2, AskShift, ReplyShift DEF Reply
<1> HIDE DEF new
<1>4. KeepsOrder(\E k \in DOMAIN new : IsStore(new[k]))
  BY <1>1 DEF KeepsOrder
<1> QED
  BY <1>1, <1>3, <1>4, QuietShift

LEMMA InitKey == Init => KeyInv
<1>1. SUFFICES ASSUME Init PROVE KeyInv
  OBVIOUS
<1>2. DOMAIN calls = {1} /\ calls[1].cmd = "have_secure_app_data"
  BY <1>1 DEF Init, StartUpCalls
<1>3. file # NoFile => DifferentKeys(file.wallets)
  BY <1>1, SessionAssumption DEF Init
<1>4. Shown(wallets) = {}
  BY <1>1 DEF Init, Shown
<1>5. OrderInv
  BY <1>2 DEF OrderInv, IsOpen, IsLogin, IsGet, IsDrop, IsStore
<1>6. KeysInv
  BY <1>2, <1>3, <1>4 DEF KeysInv, UniqueKeys, IsLogin, IsGet, IsStore
<1> QED
  BY <1>5, <1>6 DEF KeyInv

LEMMA KeyStep == TypeInv /\ PassInv /\ KeyInv /\ [Next]_vars => KeyInv'
<1>1. SUFFICES ASSUME TypeInv, PassInv, KeyInv, [Next]_vars PROVE KeyInv'
  OBVIOUS
<1> DEFINE n == m_wallet_id_counter
<1>2. /\ calls \in Seq(Call) /\ n \in Nat /\ GoodList(wallets, n) /\ wallets \in Seq(Wallet)
      /\ DOMAIN calls = 1..Len(calls) /\ Len(calls) \in Nat
  BY <1>1 DEF TypeInv, GoodCalls, GoodList
<1> HIDE DEF n
<1>3. ASSUME calls # <<>>
      PROVE  1 \in DOMAIN calls /\ Head(calls) = calls[1] /\ Head(calls) \in Call
  BY <1>2, <1>3
<1>4. /\ page = "reg" \/ Pending("have_secure_app_data") => ~Pending("get_secure_app_data")
      /\ countdown \/ Pending("check_master_password") => dataIsLoaded
      /\ page = "auth" /\ appLogin => dataIsLoaded
  BY <1>1 DEF PassInv, Registering, StartingUp, Locked, Pending, PasswordCalls, UnlockingCalls
<1>5. ASSUME ~crossed
      PROVE  /\ Pending("get_secure_app_data") => ~Pending("drop_secure_app_data")
             /\ Pending("get_secure_app_data") /\ ~dataIsLoaded => ~appLogin
  BY <1>1, <1>5 DEF KeyInv, OrderInv, Pending, IsGet, IsDrop
<1>6. ASSUME NEW k, Answer(k)
      PROVE  Pending(k)
  BY <1>3, <1>6 DEF Answer, Pending
<1>7. ASSUME crossed => crossed', Shown(wallets') \subseteq Shown(wallets), file' = file,
             m_wallets \subseteq m_wallets'
      PROVE  KeepsKeys(0) /\ KeepsKeys(1)
  BY <1>1, <1>7 DEF KeepsKeys, KeyInv, KeysInv
<1>8. ASSUME dataIsLoaded' = dataIsLoaded, page' \in {page, "app"}, appLogin' = appLogin
      PROVE  KeepsOrder(FALSE)
  BY <1>8 DEF KeepsOrder
<1>9. ASSUME NEW ws, GoodList(ws, n), Shown(ws) \subseteq Shown(wallets), NEW t \in {"nothing", "quit"}
      PROVE  /\ storeSecureAppData(ws, t) \in Call /\ Quiet(storeSecureAppData(ws, t))
             /\ IsStore(storeSecureAppData(ws, t))
  <2> DEFINE c == storeSecureAppData(ws, t)
  <2>1. c \in Call /\ c.cmd = "store_secure_app_data" /\ c.wallets = Paths(ws)
    BY <1>9, StoreCall DEF GoodList
  <2>2. ~crossed => UniqueKeys(Shown(ws))
    BY <1>1, <1>9 DEF KeyInv, KeysInv, UniqueKeys
  <2>3. ~crossed => DifferentKeys(Paths(ws))
    BY <1>9, <2>2, PathKeys
  <2> HIDE DEF c
  <2>4. Quiet(c) /\ IsStore(c)
    BY <2>1, <2>3 DEF Quiet, IsStore
  <2> QED
    BY <2>1, <2>4 DEF c
<1>u. ASSUME UserActs
      PROVE  file' = file /\ m_wallets' = m_wallets
  BY <1>u DEF UserActs, backend, disk
\* The user
<1>a1. CASE onSubmitCreatePass
  <2>1. PICK p \in Pass : Ask(<<[cmd |-> "set_master_password", pass |-> p, then |-> "reg"]>>)
    BY <1>a1 DEF onSubmitCreatePass
  <2> DEFINE c == [cmd |-> "set_master_password", pass |-> p, then |-> "reg"]
  <2>2. c \in Call /\ Quiet(c) /\ ~IsStore(c)
    BY CallsMade DEF Quiet, IsStore
  <2>3. KeepsKeys(0) /\ KeepsOrder(FALSE)
    BY <1>7, <1>8, <1>a1, <1>u DEF onSubmitCreatePass, list
  <2> HIDE DEF c
  <2>4. KeepsOrder(IsStore(c))
    BY <2>2, <2>3 DEF KeepsOrder
  <2> QED
    BY <1>1, <2>1, <2>2, <2>3, <2>4, QuietOne DEF c
<1>a2. CASE onSkipCreatePass
  <2>1. KeepsKeys(0) /\ calls' = calls
    BY <1>7, <1>a2, <1>u DEF onSkipCreatePass, list
  <2>2. KeepsOrder(FALSE)
    BY <1>4, <1>a2 DEF onSkipCreatePass, KeepsOrder
  <2> QED
    BY <1>1, <2>1, <2>2, QuietNone
<1>a3. CASE onSubmitAuthPass
  <2>1. PICK p \in AnyPass : Ask(<<[cmd |-> IF dataIsLoaded THEN "check_master_password"
                                            ELSE "get_secure_app_data", pass |-> p]>>)
    BY <1>a3 DEF onSubmitAuthPass, AnyPass
  <2>2. CASE crossed'
    BY <2>2 DEF KeyInv, OrderInv, KeysInv
  <2>3. CASE ~crossed' /\ dataIsLoaded
    <3> DEFINE c == [cmd |-> "check_master_password", pass |-> p]
    <3>1. c \in Call /\ Quiet(c) /\ ~IsStore(c) /\ Ask(<<c>>)
      BY <2>1, <2>3, CallsMade DEF Quiet, IsStore
    <3>2. KeepsKeys(0) /\ KeepsOrder(FALSE)
      BY <1>7, <1>8, <1>a3, <1>u, <2>3 DEF onSubmitAuthPass, list
    <3> HIDE DEF c
    <3>3. KeepsOrder(IsStore(c))
      BY <3>1, <3>2 DEF KeepsOrder
    <3> QED
      BY <1>1, <3>1, <3>2, <3>3, QuietOne
  <2>4. CASE ~crossed' /\ ~dataIsLoaded
    <3> DEFINE c   == [cmd |-> "get_secure_app_data", pass |-> p]
               new == <<c>>
    <3>1. c \in Call /\ IsGet(c) /\ ~IsLogin(c) /\ ~IsOpen(c) /\ ~IsStore(c) /\ ~IsDrop(c)
      BY <2>1, CallsMade DEF IsGet, IsLogin, IsOpen, IsStore, IsDrop
    <3>2. calls' = calls \o <<c>>
      BY <2>1, <2>4 DEF Ask
    <3>3. KeepsKeys(0) /\ page' = "auth" /\ page = "auth" /\ appLogin' = appLogin /\ ~dataIsLoaded' /\ ~crossed
          /\ ~Pending("drop_secure_app_data")
      BY <1>7, <1>a3, <1>u, <2>4 DEF onSubmitAuthPass, list
    <3> HIDE DEF c
    <3>4. new \in Seq(Call) /\ DOMAIN new = {1} /\ new[1] = c
      BY <3>1
    <3>5. Shift(calls, calls', 0, new)
      BY <1>2, <3>2, <3>4, AskShift
    <3>6. /\ \A i \in DOMAIN calls : i \in DOMAIN calls' /\ calls'[i] = calls[i]
          /\ \A i \in DOMAIN calls' : (i \in DOMAIN calls /\ calls'[i] = calls[i]) \/ (i > Len(calls) /\ calls'[i] = c)
          /\ DOMAIN calls' \subseteq Nat \ {0}
      BY <1>2, <3>1, <3>2, Asked
    <3> HIDE DEF new
    <3>7. \A i \in DOMAIN calls : ~IsLogin(calls[i]) /\ ~IsDrop(calls[i])
      BY <1>1, <2>4, <3>3 DEF KeyInv, OrderInv, Pending, IsDrop
    <3>8. KeysInv'
      BY <1>1, <3>1, <3>3, <3>4, <3>5, <3>7, KeysShift DEF KeyInv, KeepsKeys
    <3>9. \A i, j \in DOMAIN calls' : i \in DOMAIN calls /\ j \notin DOMAIN calls => i < j
      BY <1>2, <3>6
    <3>10. \A i \in DOMAIN calls' : /\ i \in DOMAIN calls => calls'[i] = calls[i]
                                    /\ i \notin DOMAIN calls => calls'[i] = c
      BY <1>2, <3>6
    <3>11. \A i, j \in DOMAIN calls' : i < j => ~(j < i)
      BY <3>6
    <3>12. \A i, j \in DOMAIN calls : ~(IsGet(calls[i]) /\ IsStore(calls[j]) /\ i < j)
      BY <1>1, <2>4, <3>3 DEF KeyInv, OrderInv
    <3>13. \A i, j \in DOMAIN calls' : IsGet(calls'[i]) /\ IsOpen(calls'[j]) => j < i
      BY <1>1, <3>1, <3>3, <3>9, <3>10 DEF KeyInv, OrderInv
    <3>14. \A i, j \in DOMAIN calls' : ~(IsGet(calls'[i]) /\ IsStore(calls'[j]) /\ i < j)
      BY <3>1, <3>9, <3>10, <3>11, <3>12
    <3>15. \A i \in DOMAIN calls' : ~IsLogin(calls'[i]) /\ ~IsDrop(calls'[i])
      BY <3>1, <3>7, <3>10
    <3>16. ~appLogin'
      BY <1>4, <2>4, <3>3
    <3>17. OrderInv'
      BY <3>13, <3>14, <3>15, <3>16 DEF OrderInv
    <3> QED
      BY <3>8, <3>17 DEF KeyInv
  <2> QED
    BY <2>2, <2>3, <2>4
<1>a4. CASE dropSecureAppData
  <2>1. CASE crossed'
    BY <2>1 DEF KeyInv, OrderInv, KeysInv
  <2>2. CASE ~crossed'
    <3> DEFINE c   == [cmd |-> "drop_secure_app_data"]
               new == <<c>>
    <3>1. c \in Call /\ IsDrop(c) /\ ~IsLogin(c) /\ ~IsOpen(c) /\ ~IsStore(c) /\ ~IsGet(c)
      BY CallsMade DEF IsGet, IsLogin, IsOpen, IsStore, IsDrop
    <3>2. calls' = calls \o <<c>>
      BY <1>a4 DEF dropSecureAppData, Ask
    <3>3. Shown(wallets') = {}
      BY <1>a4 DEF dropSecureAppData, Shown
    <3>4. KeepsKeys(0) /\ dataIsLoaded' = dataIsLoaded /\ ~crossed /\ ~Pending("get_secure_app_data")
      BY <1>7, <1>a4, <1>u, <2>2, <3>3 DEF dropSecureAppData, session
    <3> HIDE DEF c
    <3>5. new \in Seq(Call) /\ DOMAIN new = {1} /\ new[1] = c
      BY <3>1
    <3>6. Shift(calls, calls', 0, new)
      BY <1>2, <3>2, <3>5, AskShift
    <3>7. \A i \in DOMAIN calls' : (i \in DOMAIN calls /\ calls'[i] = calls[i]) \/ (i > Len(calls) /\ calls'[i] = c)
      BY <1>2, <3>1, <3>2, Asked
    <3> HIDE DEF new
    <3>8. KeysInv'
      BY <1>1, <3>1, <3>4, <3>5, <3>6, KeysShift DEF KeyInv, KeepsKeys
    <3>9. \A i \in DOMAIN calls' : ~IsGet(calls'[i])
      BY <3>1, <3>4, <3>7 DEF Pending, IsGet
    <3>10. \A i, j \in DOMAIN calls' : IsOpen(calls'[i]) /\ IsLogin(calls'[j]) => j < i
      BY <1>1, <3>1, <3>4, <3>7 DEF KeyInv, OrderInv
    <3>11. ~dataIsLoaded' => \A i \in DOMAIN calls' : ~IsLogin(calls'[i])
      BY <1>1, <3>1, <3>4, <3>7 DEF KeyInv, OrderInv
    <3>12. OrderInv'
      BY <3>9, <3>10, <3>11 DEF OrderInv
    <3> QED
      BY <3>8, <3>12 DEF KeyInv
  <2> QED
    BY <2>1, <2>2
<1>a5. CASE onSubmitChangePass
  <2>1. PICK p \in AnyPass : Ask(IF p = Empty THEN <<>>
                                 ELSE <<[cmd |-> "set_master_password", pass |-> p, then |-> "change"]>>)
    BY <1>a5 DEF onSubmitChangePass, AnyPass
  <2>2. KeepsKeys(0) /\ KeepsOrder(FALSE)
    BY <1>7, <1>8, <1>a5, <1>u DEF onSubmitChangePass, list
  <2>3. CASE p = Empty
    <3>1. calls' = calls
      BY <1>2, <2>1, <2>3 DEF Ask
    <3> QED
      BY <1>1, <2>2, <3>1, QuietNone
  <2>4. CASE p # Empty
    <3> DEFINE c == [cmd |-> "set_master_password", pass |-> p, then |-> "change"]
    <3>1. c \in Call /\ Quiet(c) /\ ~IsStore(c) /\ Ask(<<c>>)
      BY <2>1, <2>4, CallsMade DEF AnyPass, Quiet, IsStore
    <3> HIDE DEF c
    <3>2. KeepsOrder(IsStore(c))
      BY <2>2, <3>1 DEF KeepsOrder
    <3> QED
      BY <1>1, <2>2, <3>1, <3>2, QuietOne
  <2> QED
    BY <2>3, <2>4
<1>a6. CASE logOut \/ idle
  <2>1. KeepsKeys(0) /\ calls' = calls
    BY <1>7, <1>a6 DEF logOut, idle, Lock, list, disk, backend
  <2>2. appLogin \/ dataIsLoaded
    BY <1>4, <1>a6 DEF logOut, idle
  <2>3. dataIsLoaded' = dataIsLoaded
    BY <1>a6 DEF logOut, idle, Lock
  <2>4. KeepsOrder(FALSE)
    BY <1>5, <2>2, <2>3 DEF KeepsOrder
  <2> QED
    BY <1>1, <2>1, <2>4, QuietNone
<1>a7. CASE openWallet
  <2>1. PICK p \in Path : Ask(<<[cmd |-> "open_wallet", path |-> p, then |-> "user"]>>)
    BY <1>a7 DEF openWallet
  <2>2. CASE crossed'
    BY <2>2 DEF KeyInv, OrderInv, KeysInv
  <2>3. CASE ~crossed'
    <3> DEFINE c   == [cmd |-> "open_wallet", path |-> p, then |-> "user"]
               new == <<c>>
    <3>1. c \in Call /\ IsOpen(c) /\ ~IsLogin(c) /\ ~IsDrop(c) /\ ~IsStore(c) /\ ~IsGet(c)
      BY CallsMade DEF IsGet, IsLogin, IsOpen, IsStore, IsDrop
    <3>2. calls' = calls \o <<c>>
      BY <2>1 DEF Ask
    <3>3. KeepsKeys(0) /\ dataIsLoaded' = dataIsLoaded /\ ~crossed /\ ~Pending("get_secure_app_data")
      BY <1>7, <1>a7, <1>u, <2>3 DEF openWallet, session, list
    <3> HIDE DEF c
    <3>4. new \in Seq(Call) /\ DOMAIN new = {1} /\ new[1] = c
      BY <3>1
    <3>5. Shift(calls, calls', 0, new)
      BY <1>2, <3>2, <3>4, AskShift
    <3>6. \A i \in DOMAIN calls' : (i \in DOMAIN calls /\ calls'[i] = calls[i]) \/ (i > Len(calls) /\ calls'[i] = c)
      BY <1>2, <3>1, <3>2, Asked
    <3>7. DOMAIN calls' \subseteq Nat \ {0}
      BY <1>2, <3>1, <3>2, Asked
    <3> HIDE DEF new
    <3>8. KeysInv'
      BY <1>1, <3>1, <3>3, <3>4, <3>5, KeysShift DEF KeyInv, KeepsKeys
    <3>9. \A i \in DOMAIN calls' : ~IsGet(calls'[i])
      BY <3>1, <3>3, <3>6 DEF Pending, IsGet
    <3>10. \A i, j \in DOMAIN calls' : j \in DOMAIN calls /\ i > Len(calls) => j < i
      BY <1>2, <3>7
    <3>11. \A i, j \in DOMAIN calls' : IsOpen(calls'[i]) /\ IsLogin(calls'[j]) => j < i
      BY <1>1, <3>1, <3>3, <3>6, <3>10 DEF KeyInv, OrderInv
    <3>12. ~dataIsLoaded' => \A i \in DOMAIN calls' : ~IsLogin(calls'[i])
      BY <1>1, <3>1, <3>3, <3>6 DEF KeyInv, OrderInv
    <3>13. OrderInv'
      BY <3>9, <3>11, <3>12 DEF OrderInv
    <3> QED
      BY <3>8, <3>13 DEF KeyInv
  <2> QED
    BY <2>2, <2>3
<1>a8. CASE selectWallet
  <2>1. KeepsKeys(0) /\ KeepsOrder(FALSE) /\ calls' = calls
    BY <1>7, <1>8, <1>a8, <1>u DEF selectWallet
  <2> QED
    BY <1>1, <2>1, QuietNone
<1>a9. CASE closeWallet
  <2>1. PICK id \in Ids(wallets) : Ask(<<closeWalletCall(id, "user", 0)>>)
    BY <1>a9 DEF closeWallet
  <2> DEFINE c == closeWalletCall(id, "user", 0)
  <2>2. id \in Nat
    BY <1>2, ListElements DEF Ids
  <2>3. c \in Call /\ Quiet(c) /\ ~IsStore(c)
    BY <2>2, CallsMade DEF Quiet, IsStore, closeWalletCall
  <2>4. KeepsKeys(0) /\ KeepsOrder(FALSE)
    BY <1>7, <1>8, <1>a9, <1>u DEF closeWallet
  <2> HIDE DEF c
  <2>5. KeepsOrder(IsStore(c))
    BY <2>3, <2>4 DEF KeepsOrder
  <2> QED
    BY <1>1, <2>1, <2>3, <2>4, <2>5, QuietOne DEF c
<1>a10. CASE drop
  <2>1. Shown(wallets') = Shown(wallets)
    BY <1>2, <1>a10, GoodMove DEF drop
  <2>2. KeepsKeys(0) /\ KeepsOrder(FALSE) /\ calls' = calls
    BY <1>7, <1>8, <1>a10, <1>u, <2>1 DEF drop, session
  <2> QED
    BY <1>1, <2>2, QuietNone
<1>a11. CASE quit_requested
  <2> DEFINE c == storeSecureAppData(wallets, "quit")
  <2>1. KeepsKeys(0) /\ \A stores : KeepsOrder(stores)
    BY <1>7, <1>a11 DEF quit_requested, KeepsOrder, disk, backend, list
  <2>2. c \in Call /\ Quiet(c) /\ storeAppData \in Call /\ Quiet(storeAppData)
    BY <1>2, <1>9, CallsMade DEF Quiet, IsStore
  <2>3. Ask(<<c>>) \/ Ask(<<storeAppData>>)
    BY <1>a11 DEF quit_requested
  <2> HIDE DEF c
  <2> QED
    BY <1>1, <2>1, <2>2, <2>3, QuietOne
\* The backend
<1>b1. CASE have_secure_app_data \/ check_master_password
  <2>1. Answer("have_secure_app_data") \/ Answer("check_master_password")
    BY <1>b1 DEF have_secure_app_data, check_master_password
  <2>2. calls # <<>> /\ Reply(<<>>) /\ dataIsLoaded' = dataIsLoaded
    BY <1>b1 DEF have_secure_app_data, check_master_password, Answer
  <2>3. KeepsKeys(1)
    BY <1>7, <1>b1 DEF have_secure_app_data, check_master_password, disk, backend, list, history
  <2>4. ~Pending("get_secure_app_data") \/ dataIsLoaded
    BY <1>4, <1>6, <2>1
  <2>5. KeepsOrder(FALSE)
    BY <2>2, <2>4 DEF KeepsOrder
  <2> QED
    BY <1>1, <2>2, <2>3, <2>5, QuietNone
<1>b2. CASE set_master_password
  <2> DEFINE c == storeSecureAppData(wallets, "nothing")
  <2>1. calls # <<>> /\ Reply(<<c>>) /\ dataIsLoaded' = TRUE
    BY <1>b2 DEF set_master_password, Answer, StoreUnderNewPassword
  <2>2. KeepsKeys(1)
    BY <1>7, <1>b2 DEF set_master_password, disk, list, history
  <2>3. c \in Call /\ Quiet(c)
    BY <1>2, <1>9
  <2> HIDE DEF c
  <2>4. KeepsOrder(IsStore(c))
    BY <2>1 DEF KeepsOrder
  <2> QED
    BY <1>1, <2>1, <2>2, <2>3, <2>4, QuietOne
<1>b3. CASE store_secure_app_data
  <2>1. calls # <<>> /\ Head(calls).cmd = "store_secure_app_data"
        /\ (Reply(<<storeAppData>>) \/ Reply(<<>>)) /\ file'.wallets = Head(calls).wallets
    BY <1>b3 DEF store_secure_app_data, Answer
  <2>2. 1 \in DOMAIN calls /\ IsStore(calls[1]) /\ file'.wallets = calls[1].wallets
    BY <1>3, <2>1 DEF IsStore
  <2>3. crossed \/ DifferentKeys(file'.wallets)
    BY <1>1, <2>2 DEF KeyInv, KeysInv
  <2>4. ASSUME ~crossed, NEW i \in DOMAIN calls, NEW k \in DOMAIN calls, IsLogin(calls[i]), IsGet(calls[k])
        PROVE  FALSE
    <3>1. k # 1
      BY <2>2, <2>4 DEF IsStore, IsGet
    <3>2. 1 < k
      BY <1>2, <2>4, <3>1
    <3> QED
      BY <1>1, <2>2, <2>4, <3>2 DEF KeyInv, KeysInv
  <2>5. crossed' = crossed /\ wallets' = wallets /\ m_wallets' = m_wallets
        /\ page' = page /\ dataIsLoaded' = dataIsLoaded /\ appLogin' = appLogin
    BY <1>b3 DEF store_secure_app_data, backend, session, list, history
  <2>6. CASE crossed
    BY <2>5, <2>6 DEF KeyInv, OrderInv, KeysInv
  <2>7. CASE ~crossed
    <3>1. KeepsKeys(1)
      BY <2>3, <2>4, <2>5, <2>7 DEF KeepsKeys
    <3>2. KeepsOrder(FALSE)
      BY <1>8, <2>5
    <3>3. storeAppData \in Call /\ Quiet(storeAppData) /\ ~IsStore(storeAppData)
      BY CallsMade DEF Quiet, IsStore
    <3>4. KeepsOrder(IsStore(storeAppData))
      BY <3>2, <3>3 DEF KeepsOrder
    <3> QED
      BY <1>1, <2>1, <3>1, <3>2, <3>3, <3>4, QuietOne, QuietNone
  <2> QED
    BY <2>6, <2>7
<1>b4. CASE drop_secure_app_data
  <2>1. calls # <<>> /\ Reply(<<>>) /\ Pending("drop_secure_app_data")
    BY <1>6, <1>b4 DEF drop_secure_app_data, Answer
  <2>2. crossed' = crossed /\ wallets' = wallets /\ m_wallets' = m_wallets
        /\ dataIsLoaded' = dataIsLoaded /\ file' = NoFile
    BY <1>b4 DEF drop_secure_app_data, backend, list, history
  <2>3. CASE crossed
    BY <2>2, <2>3 DEF KeyInv, OrderInv, KeysInv
  <2>4. CASE ~crossed
    <3>1. ~Pending("get_secure_app_data")
      BY <1>5, <2>1, <2>4
    <3>2. KeepsKeys(1)
      BY <2>2, <3>1 DEF KeepsKeys, Pending, IsGet
    <3>3. KeepsOrder(FALSE)
      BY <2>2, <3>1 DEF KeepsOrder
    <3> QED
      BY <1>1, <2>1, <3>2, <3>3, QuietNone
  <2> QED
    BY <2>3, <2>4
<1>b5. CASE get_secure_app_data
  <2>1. calls # <<>> /\ Head(calls).cmd = "get_secure_app_data"
    BY <1>b5 DEF get_secure_app_data, Answer
  <2>2. 1 \in DOMAIN calls /\ IsGet(calls[1])
    BY <1>3, <2>1 DEF IsGet
  <2>3. crossed' = crossed /\ wallets' = wallets /\ m_wallets' = m_wallets /\ file' = file
    BY <1>b5 DEF get_secure_app_data, disk, list, history
  <2>4. \/ Reply(<<>>) /\ dataIsLoaded' = TRUE
        \/ Reply(<<>>) /\ page' = page /\ dataIsLoaded' = dataIsLoaded /\ appLogin' = appLogin
        \/ /\ Reply(getWalletData(file.wallets)) /\ dataIsLoaded' = TRUE
           /\ wallets = <<>> /\ file # NoFile
    BY <1>b5 DEF get_secure_app_data, session
  <2>5. CASE \/ Reply(<<>>) /\ dataIsLoaded' = TRUE
             \/ Reply(<<>>) /\ page' = page /\ dataIsLoaded' = dataIsLoaded /\ appLogin' = appLogin
    <3>1. KeepsKeys(1)
      BY <1>7, <2>3
    <3>2. KeepsOrder(FALSE)
      BY <2>5 DEF KeepsOrder
    <3> QED
      BY <1>1, <2>1, <2>5, <3>1, <3>2, QuietNone
  <2>6. CASE crossed
    BY <2>3, <2>6 DEF KeyInv, OrderInv, KeysInv
  <2>7. CASE ~crossed /\ Reply(getWalletData(file.wallets)) /\ dataIsLoaded' = TRUE
             /\ wallets = <<>> /\ file # NoFile
    <3> DEFINE new == getWalletData(file.wallets)
    <3>1. file.wallets \in Seq(Path) /\ DifferentKeys(file.wallets)
      BY <1>1, <2>7 DEF TypeInv, SecureFile, KeyInv, KeysInv
    <3>2. new \in Seq(Call) /\ \A k \in DOMAIN new :
             IsLogin(new[k]) /\ ~IsOpen(new[k]) /\ ~IsGet(new[k]) /\ ~IsDrop(new[k]) /\ ~IsStore(new[k])
             /\ new[k].path \in Range(file.wallets)
      BY <3>1, LoginCalls DEF IsLogin, IsOpen, IsGet, IsDrop, IsStore, Range
    <3> HIDE DEF new
    <3>3. calls' = Tail(calls) \o new
      BY <2>7 DEF Reply, new
    <3>4. /\ \A i \in DOMAIN calls' : \/ i + 1 \in DOMAIN calls /\ calls'[i] = calls[i + 1]
                                      \/ i + 1 > Len(calls) /\ \E k \in DOMAIN new : calls'[i] = new[k]
          /\ DOMAIN calls' \subseteq Nat \ {0}
      <4>1. Shift(calls, calls', 1, new)
        BY <1>2, <2>1, <3>2, <3>3, ReplyShift
      <4>2. \A i \in DOMAIN calls' : \/ i + 1 \in DOMAIN calls /\ calls'[i] = calls[i + 1]
                                     \/ i + 1 > Len(calls) /\ \E k \in DOMAIN new : calls'[i] = new[k]
        BY <1>2, <3>2, <4>1, ShiftIndex
      <4>3. DOMAIN calls' \subseteq Nat \ {0}
        BY <4>1 DEF Shift
      <4> QED
        BY <4>2, <4>3
    <3> DEFINE old(i) == i + 1
    <3>5. \A i \in DOMAIN calls' : \/ old(i) \in DOMAIN calls /\ calls'[i] = calls[old(i)]
                                   \/ \E k \in DOMAIN new : calls'[i] = new[k]
      BY <3>4
    <3>6. \A i, j \in DOMAIN calls' : j < i /\ old(i) \in DOMAIN calls
             => old(j) \in DOMAIN calls /\ calls'[j] = calls[old(j)]
      BY <1>2, <3>4
    <3>7. \A i, j \in DOMAIN calls' : old(j) < old(i) <=> j < i
      BY <3>4
    <3>8. \A i \in DOMAIN calls' : 1 < old(i) /\ ~(old(i) < 1)
      BY <3>4
    <3> HIDE DEF old
    <3>9. \A i \in DOMAIN calls' : ~IsLogin(calls'[i]) => old(i) \in DOMAIN calls /\ calls'[i] = calls[old(i)]
      BY <3>2, <3>5
    <3>10. \A i \in DOMAIN calls' : ~IsOpen(calls'[i])
      BY <1>1, <2>2, <2>7, <3>2, <3>5, <3>8 DEF KeyInv, OrderInv
    <3>11. \A i, j \in DOMAIN calls' : ~(IsGet(calls'[i]) /\ IsDrop(calls'[j]))
      BY <1>1, <2>7, <3>2, <3>5 DEF KeyInv, OrderInv
    <3>12. ASSUME NEW i \in DOMAIN calls', NEW j \in DOMAIN calls', IsGet(calls'[i]), IsStore(calls'[j])
           PROVE  ~(j < i)
      <4>1. old(i) \in DOMAIN calls /\ calls'[i] = calls[old(i)]
        BY <3>2, <3>5, <3>12
      <4>2. old(j) \in DOMAIN calls /\ calls'[j] = calls[old(j)]
        BY <3>2, <3>5, <3>12
      <4>3. ~(1 < old(j) /\ old(j) < old(i))
        BY <1>1, <2>2, <2>7, <3>12, <4>1, <4>2 DEF KeyInv, OrderInv
      <4> QED
        BY <3>7, <3>8, <4>3
    <3>13. OrderInv'
      BY <2>7, <3>10, <3>11, <3>12 DEF OrderInv
    <3>14. \A i \in DOMAIN calls' : IsLogin(calls'[i]) => calls'[i].path \in Range(file.wallets)
      BY <1>1, <2>2, <2>7, <3>2, <3>5 DEF KeyInv, KeysInv
    <3>15. \A p, q \in Range(file.wallets) : Address[p] = Address[q] => p = q
      BY <3>1 DEF Range, DifferentKeys
    <3>16. Shown(wallets') = {}
      BY <2>3, <2>7 DEF Shown
    <3>17. \A i \in DOMAIN calls' : IsStore(calls'[i]) => DifferentKeys(calls'[i].wallets)
      BY <1>1, <2>7, <3>2, <3>5 DEF KeyInv, KeysInv
    <3>18. KeysInv'
      BY <2>3, <2>7, <3>1, <3>12, <3>14, <3>15, <3>16, <3>17 DEF KeysInv, UniqueKeys
    <3> QED
      BY <3>13, <3>18 DEF KeyInv
  <2> QED
    BY <2>4, <2>5, <2>6, <2>7
\* A wallet is listed anew.
<1>10. ASSUME NEW p \in Path, LoadWallet(p)
       PROVE  /\ m_wallets' = m_wallets \cup {Loaded(p)} /\ Loaded(p) \in Wallet
              /\ Loaded(p).id = n /\ Loaded(p).path = p
  BY <1>2, <1>10 DEF LoadWallet, Loaded, Wallet, n
<1>11. ASSUME NEW p \in Path, LoadWallet(p), wallets' = Append(wallets, Loaded(p))
       PROVE  Shown(wallets') = Shown(wallets) \cup {Loaded(p)}
  BY <1>2, <1>10, <1>11, GoodAppend DEF n
<1>b6. CASE open_wallet
  <2> DEFINE p == Head(calls).path
             e == [cmd |-> "run_wallet", id |-> n]
             c == closeWalletCall(n, "home", 0)
  <2>1. calls # <<>> /\ IsOpen(Head(calls))
    BY <1>b6 DEF open_wallet, Answer, IsOpen
  <2>2. p \in Path
    BY <1>3, <2>1, CallFields DEF IsOpen
  <2>3. crossed' = crossed /\ file' = file
        /\ page' = page /\ dataIsLoaded' = dataIsLoaded /\ appLogin' = appLogin
    BY <1>b6 DEF open_wallet, disk, session, history
  <2>4. Loaded(p).id = n
    BY DEF Loaded, n
  <2>5. \/ LoadWallet(p) /\ Reply(<<c>>) /\ wallets' = wallets
        \/ LoadWallet(p) /\ Reply(<<e>>) /\ wallets' = Append(wallets, Loaded(p)) /\ ~Exists(p)
        \/ FailToLoad(p) /\ Reply(<<>>) /\ wallets' = wallets
    BY <1>b6, <2>4 DEF open_wallet, CloseDuplicate
  <2>6. e \in Call /\ Quiet(e) /\ ~IsStore(e) /\ c \in Call /\ Quiet(c) /\ ~IsStore(c) /\ ~IsLogin(e)
    BY <1>2, CallsMade DEF Quiet, IsStore, closeWalletCall, IsLogin
  <2> HIDE DEF e, c, p
  <2>7. KeepsOrder(FALSE) /\ KeepsOrder(IsStore(c)) /\ KeepsOrder(IsStore(e))
    BY <1>8, <2>3, <2>6 DEF KeepsOrder
  <2>8. CASE LoadWallet(p) /\ Reply(<<c>>) /\ wallets' = wallets
    <3>1. KeepsKeys(1)
      BY <1>7, <1>10, <2>2, <2>3, <2>8
    <3> QED
      BY <1>1, <2>1, <2>6, <2>7, <2>8, <3>1, QuietOne
  <2>9. CASE LoadWallet(p) /\ Reply(<<e>>) /\ wallets' = Append(wallets, Loaded(p)) /\ ~Exists(p)
    <3>1. SUFFICES ASSUME ~crossed PROVE KeyInv'
      BY <2>3 DEF KeyInv, OrderInv, KeysInv
    <3>2. \A i \in DOMAIN calls : ~IsLogin(calls[i])
      <4>1. 1 \in DOMAIN calls /\ IsOpen(calls[1])
        BY <1>3, <2>1
      <4>2. \A i \in DOMAIN calls : ~(i < 1)
        BY <1>2
      <4> QED
        BY <1>1, <3>1, <4>1, <4>2 DEF KeyInv, OrderInv
    <3> DEFINE new == <<e>>
    <3>3. new \in Seq(Call) /\ DOMAIN new = {1} /\ new[1] = e
      BY <2>6
    <3>4. Shift(calls, calls', 1, new)
      BY <1>2, <2>1, <2>9, <3>3, ReplyShift DEF Reply
    <3> HIDE DEF new
    <3>5. \A k \in DOMAIN new : ~IsLogin(new[k]) /\ ~IsOpen(new[k]) /\ ~IsGet(new[k]) /\ ~IsDrop(new[k])
             /\ ~IsStore(new[k])
      BY <2>6, <3>3 DEF Quiet, IsLogin, IsOpen, IsGet, IsDrop
    <3>6. OrderInv'
      BY <1>1, <2>3, <3>4, <3>3, <3>5, OrderShift DEF KeyInv
    <3>7. \A i \in DOMAIN calls' : \/ i + 1 \in DOMAIN calls /\ calls'[i] = calls[i + 1]
                                   \/ i + 1 > Len(calls) /\ \E k \in DOMAIN new : calls'[i] = new[k]
      BY <1>2, <3>3, <3>4, ShiftIndex
    <3>8. \A i \in DOMAIN calls' : ~IsLogin(calls'[i])
      BY <3>2, <3>5, <3>7
    <3>9. \A i \in DOMAIN calls' : IsStore(calls'[i]) => DifferentKeys(calls'[i].wallets)
      BY <1>1, <3>1, <3>5, <3>7 DEF KeyInv, KeysInv
    <3>10. \A v \in Shown(wallets) : Address[v.path] # Address[p]
      BY <1>2, <2>9 DEF Exists, Shown
    <3>11. UniqueKeys(Shown(wallets'))
      BY <1>1, <1>10, <1>11, <2>2, <2>9, <3>1, <3>10 DEF KeyInv, KeysInv, UniqueKeys
    <3>12. KeysInv'
      BY <1>1, <2>3, <3>1, <3>8, <3>9, <3>11 DEF KeyInv, KeysInv
    <3> QED
      BY <3>6, <3>12 DEF KeyInv
  <2>10. CASE FailToLoad(p) /\ Reply(<<>>) /\ wallets' = wallets
    <3>1. KeepsKeys(1)
      BY <1>7, <2>3, <2>10 DEF FailToLoad
    <3> QED
      BY <1>1, <2>1, <2>7, <2>10, <3>1, QuietNone
  <2> QED
    BY <2>5, <2>8, <2>9, <2>10
<1>b7. CASE open_wallet_login
  <2> DEFINE p == Head(calls).path
  <2>1. calls # <<>> /\ IsLogin(Head(calls)) /\ Reply(<<>>)
    BY <1>b7 DEF open_wallet_login, Answer, IsLogin
  <2>2. p \in Path /\ 1 \in DOMAIN calls /\ IsLogin(calls[1]) /\ calls[1].path = p
    BY <1>3, <2>1, CallFields DEF IsLogin
  <2>3. crossed' = crossed /\ file' = file /\ dataIsLoaded' = dataIsLoaded /\ appLogin' = appLogin
    BY <1>b7 DEF open_wallet_login, disk, history
  <2>4. \/ LoadWallet(p) /\ wallets' = Append(wallets, Loaded(p))
        \/ FailToLoad(p) /\ wallets' = wallets
    BY <1>b7 DEF open_wallet_login, list
  <2> HIDE DEF p
  <2>5. SUFFICES ASSUME ~crossed PROVE KeyInv'
    BY <2>3 DEF KeyInv, OrderInv, KeysInv
  <2>6. dataIsLoaded
    BY <1>1, <2>2, <2>5 DEF KeyInv, OrderInv
  <2>7. KeepsOrder(FALSE)
    BY <2>3, <2>6 DEF KeepsOrder
  <2>8. CASE FailToLoad(p) /\ wallets' = wallets
    <3>1. KeepsKeys(1)
      BY <1>7, <2>3, <2>8 DEF FailToLoad
    <3> QED
      BY <1>1, <2>1, <2>7, <3>1, QuietNone
  <2>9. CASE LoadWallet(p) /\ wallets' = Append(wallets, Loaded(p))
    <3> DEFINE w == Loaded(p)
               new == <<>>
    <3>1. m_wallets' = m_wallets \cup {w} /\ w.id = n /\ w.path = p
      BY <1>10, <2>2, <2>9
    <3>2. Shown(wallets') = Shown(wallets) \cup {w}
      BY <1>11, <2>2, <2>9
    <3>3. \A v \in m_wallets : v.path # p
      BY <2>9 DEF LoadWallet, AlreadyOpen
    <3> HIDE DEF w
    <3>4. \A v \in Shown(wallets) : Address[v.path] # Address[p]
      BY <1>1, <2>2, <2>5, <3>3 DEF KeyInv, KeysInv
    <3>5. UniqueKeys(Shown(wallets'))
      BY <1>1, <2>5, <3>1, <3>2, <3>4 DEF KeyInv, KeysInv, UniqueKeys
    <3>6. new \in Seq(Call) /\ DOMAIN new = {}
      OBVIOUS
    <3>7. Shift(calls, calls', 1, new)
      BY <1>2, <2>1, <3>6, ReplyShift DEF Reply
    <3> HIDE DEF new
    <3>8. OrderInv'
      BY <1>1, <2>3, <2>6, <3>6, <3>7, OrderShift DEF KeyInv
    <3>9. /\ \A i \in DOMAIN calls' : i + 1 \in DOMAIN calls /\ calls'[i] = calls[i + 1]
          /\ DOMAIN calls' \subseteq Nat
      <4>1. \A i \in DOMAIN calls' : \/ i + 1 \in DOMAIN calls /\ calls'[i] = calls[i + 1]
                                     \/ i + 1 > Len(calls) /\ \E k \in DOMAIN new : calls'[i] = new[k]
        BY <1>2, <3>6, <3>7, ShiftIndex
      <4> QED
        BY <3>6, <3>7, <4>1 DEF Shift
    <3> DEFINE old(i) == i + 1
    <3>10. /\ \A i \in DOMAIN calls' : old(i) \in DOMAIN calls /\ calls'[i] = calls[old(i)]
           /\ \A i, j \in DOMAIN calls' : old(j) < old(i) <=> j < i
      BY <3>9
    <3> HIDE DEF old
    <3>11. \A i \in DOMAIN calls' : IsStore(calls'[i]) => DifferentKeys(calls'[i].wallets)
      BY <1>1, <2>5, <3>10 DEF KeyInv, KeysInv
    <3>12. ASSUME NEW i \in DOMAIN calls', NEW k \in DOMAIN calls', IsLogin(calls'[i]), IsGet(calls'[k])
           PROVE  /\ file' # NoFile /\ calls'[i].path \in Range(file'.wallets)
                  /\ \A j \in DOMAIN calls' : IsStore(calls'[j]) => ~(j < k)
      <4>1. file # NoFile /\ calls[old(i)].path \in Range(file.wallets)
            /\ \A j \in DOMAIN calls : IsStore(calls[j]) => ~(j < old(k))
        BY <1>1, <2>5, <3>10, <3>12 DEF KeyInv, KeysInv
      <4> QED
        BY <2>3, <3>10, <4>1
    <3>13. \A i, j \in DOMAIN calls' : IsLogin(calls'[i]) /\ IsLogin(calls'[j]) =>
              (Address[calls'[i].path] = Address[calls'[j].path] => calls'[i].path = calls'[j].path)
      BY <1>1, <2>5, <3>10 DEF KeyInv, KeysInv
    <3>14. \A j \in DOMAIN calls : calls[j].cmd = "close_wallet" => calls[j].id # n
      <4>1. \A j \in DOMAIN calls : calls[j].cmd = "close_wallet" => calls[j].id \in Nat /\ calls[j].id < n
        BY <1>1, <1>2, CallFields DEF TypeInv, GoodCalls, n
      <4> QED
        BY <1>2, <4>1
    <3>15. ASSUME NEW i \in DOMAIN calls', NEW v \in Shown(wallets'), IsLogin(calls'[i])
           PROVE  /\ Address[v.path] = Address[calls'[i].path] => v.path = calls'[i].path
                  /\ v.path = calls'[i].path =>
                       /\ v \in m_wallets'
                       /\ \A j \in DOMAIN calls' :
                            calls'[j].cmd = "close_wallet" /\ calls'[j].id = v.id => ~(j < i)
      <4>1. old(i) \in DOMAIN calls /\ calls'[i] = calls[old(i)] /\ IsLogin(calls[old(i)])
        BY <3>10, <3>15
      <4>2. CASE v \in Shown(wallets)
        <5>1. /\ Address[v.path] = Address[calls[old(i)].path] => v.path = calls[old(i)].path
              /\ v.path = calls[old(i)].path =>
                    /\ v \in m_wallets
                    /\ \A j \in DOMAIN calls :
                         calls[j].cmd = "close_wallet" /\ calls[j].id = v.id => ~(j < old(i))
          BY <1>1, <2>5, <4>1, <4>2 DEF KeyInv, KeysInv
        <5> QED
          BY <3>1, <3>10, <4>1, <5>1
      <4>3. CASE v = w
        <5>1. Address[p] = Address[calls[old(i)].path] => p = calls[old(i)].path
          BY <1>1, <2>2, <2>5, <4>1 DEF KeyInv, KeysInv
        <5> QED
          BY <3>1, <3>10, <3>14, <4>1, <4>3, <5>1
      <4> QED
        BY <3>2, <3>15, <4>2, <4>3
    <3>16. file' # NoFile => DifferentKeys(file'.wallets)
      BY <1>1, <2>3, <2>5 DEF KeyInv, KeysInv
    <3>17. KeysInv'
      BY <3>5, <3>11, <3>12, <3>13, <3>15, <3>16 DEF KeysInv
    <3> QED
      BY <3>8, <3>17 DEF KeyInv
  <2> QED
    BY <2>4, <2>8, <2>9
<1>12. ASSUME NEW ws, GoodList(ws, n), Shown(ws) \subseteq Shown(wallets),
              calls # <<>>, Reply(storeIf(appPass, ws)), KeepsKeys(1), \A stores : KeepsOrder(stores)
       PROVE  KeyInv'
  <2> DEFINE c == storeSecureAppData(ws, "nothing")
  <2>1. Reply(<<c>>) \/ Reply(<<>>)
    BY <1>12 DEF storeIf
  <2>2. c \in Call /\ Quiet(c)
    BY <1>9, <1>12
  <2> HIDE DEF c
  <2> QED
    BY <1>1, <1>12, <2>1, <2>2, QuietOne, QuietNone
<1>b8. CASE run_wallet
  <2>1. calls # <<>> /\ (Reply(<<>>) \/ (Reply(storeIf(appPass, wallets)) /\ page' = "app"))
    BY <1>b8 DEF run_wallet, Answer
  <2>2. KeepsKeys(1)
    BY <1>7, <1>b8 DEF run_wallet, disk, backend, history
  <2>3. dataIsLoaded' = dataIsLoaded /\ page' \in {page, "app"} /\ appLogin' = appLogin
    BY <1>b8 DEF run_wallet
  <2>4. CASE Reply(<<>>)
    BY <1>1, <1>8, <2>1, <2>2, <2>3, <2>4, QuietNone
  <2>5. CASE Reply(storeIf(appPass, wallets)) /\ page' = "app"
    <3>1. \A stores : KeepsOrder(stores)
      BY <2>3, <2>5 DEF KeepsOrder
    <3> QED
      BY <1>2, <1>12, <2>1, <2>2, <2>5, <3>1
  <2> QED
    BY <2>1, <2>4, <2>5
\* A wallet is closed by the call that names it.
<1>13. ASSUME calls # <<>>, Head(calls).cmd = "close_wallet", Close(Head(calls).id),
              crossed' = crossed, file' = file, Shown(wallets') \subseteq Shown(wallets)
       PROVE  KeepsKeys(1)
  <2>1. \A w \in m_wallets : w \in m_wallets' \/ calls[1].id = w.id
    BY <1>3, <1>13 DEF Close
  <2> QED
    BY <1>1, <1>3, <1>13, <2>1 DEF KeepsKeys, KeyInv, KeysInv
<1>b9. CASE close_wallet
  <2> DEFINE left == Without(wallets, currentWallet)
  <2>1. GoodList(left, n) /\ Shown(left) \subseteq Shown(wallets)
    BY <1>2, GoodWithout
  <2> HIDE DEF left
  <2>2. \/ Reply(storeIf(appPass, left)) /\ wallets' = left
        \/ Reply(<<>>) /\ wallets' = wallets
    BY <1>b9 DEF close_wallet, list, left
  <2>3. calls # <<>> /\ Head(calls).cmd = "close_wallet" /\ Close(Head(calls).id)
        /\ crossed' = crossed /\ file' = file
    BY <1>b9 DEF close_wallet, Answer, disk
  <2>4. Shown(wallets') \subseteq Shown(wallets)
    BY <2>1, <2>2
  <2>5. KeepsKeys(1)
    BY <1>13, <2>3, <2>4
  <2>6. \A stores : KeepsOrder(stores)
    BY <1>b9 DEF close_wallet, KeepsOrder
  <2> QED
    BY <1>1, <1>12, <2>1, <2>2, <2>3, <2>5, <2>6, QuietNone
<1>b10. CASE store_app_data
  <2> DEFINE c == recursionCloseWallets(wallets)
  <2>1. calls # <<>> /\ Reply(<<c>>)
    BY <1>b10 DEF store_app_data, Answer
  <2>2. c \in Call /\ Quiet(c) /\ ~IsStore(c)
    BY <1>2, QuitCallMade DEF Quiet, IsStore
  <2> HIDE DEF c
  <2>3. KeepsKeys(1) /\ KeepsOrder(FALSE)
    BY <1>7, <1>8, <1>b10 DEF store_app_data, backend, session, list, history
  <2>4. KeepsOrder(IsStore(c))
    BY <2>2, <2>3 DEF KeepsOrder
  <2> QED
    BY <1>1, <2>1, <2>2, <2>3, <2>4, QuietOne
<1>b11. CASE close_wallet_quit
  <2> DEFINE i    == Head(calls).index
             left == IF i <= Len(wallets) THEN RemoveAt(wallets, i) ELSE wallets
             c    == recursionCloseWallets(left)
  <2>1. calls # <<>> /\ Head(calls).cmd = "close_wallet" /\ Head(calls).then = "quit"
        /\ Close(Head(calls).id) /\ crossed' = crossed /\ file' = file
        /\ wallets' = left /\ Reply(<<c>>)
    BY <1>b11 DEF close_wallet_quit, Answer, disk, history, QuitGoesOn
  <2>2. i \in Nat \ {0}
    BY <1>3, <2>1, CallFields
  <2>3. GoodList(left, n) /\ Shown(left) \subseteq Shown(wallets)
    <3>1. CASE i <= Len(wallets)
      <4>1. i \in 1..Len(wallets)
        BY <1>2, <2>2, <3>1
      <4> HIDE DEF i
      <4>2. GoodList(RemoveAt(wallets, i), n) /\ Shown(RemoveAt(wallets, i)) = Shown(wallets) \ {wallets[i]}
        BY <1>2, <4>1, GoodRemove
      <4> QED
        BY <3>1, <4>2
    <3>2. CASE ~(i <= Len(wallets))
      BY <1>2, <3>2
    <3> QED
      BY <3>1, <3>2
  <2> HIDE DEF left
  <2>4. c \in Call /\ Quiet(c) /\ ~IsStore(c)
    BY <1>2, <2>3, QuitCallMade DEF Quiet, IsStore
  <2> HIDE DEF c
  <2>5. KeepsKeys(1)
    BY <1>13, <2>1, <2>3
  <2>6. KeepsOrder(FALSE)
    BY <1>8, <1>b11 DEF close_wallet_quit, session
  <2>7. KeepsOrder(IsStore(c))
    BY <2>4, <2>6 DEF KeepsOrder
  <2> QED
    BY <1>1, <2>1, <2>4, <2>5, <2>7, QuietOne
<1>b12. CASE on_request_quit
  <2>1. calls # <<>> /\ Reply(<<>>)
    BY <1>b12 DEF on_request_quit, Answer
  <2>2. KeepsKeys(1) /\ KeepsOrder(FALSE)
    BY <1>7, <1>8, <1>b12 DEF on_request_quit, disk, session, list, history
  <2> QED
    BY <1>1, <2>1, <2>2, QuietNone
\* A start
<1>c1. CASE Restart
  <2>1. DOMAIN calls' = {1} /\ calls'[1].cmd = "have_secure_app_data"
    BY <1>c1 DEF Restart, StartUpCalls
  <2>2. file' = file /\ crossed' = crossed
    BY <1>c1 DEF Restart, disk
  <2>3. Shown(wallets') = {}
    BY <1>c1 DEF Restart, Shown
  <2>4. OrderInv'
    BY <2>1 DEF OrderInv, IsOpen, IsLogin, IsGet, IsDrop, IsStore
  <2>5. KeysInv'
    BY <1>1, <2>1, <2>2, <2>3 DEF KeyInv, KeysInv, UniqueKeys, IsLogin, IsGet, IsStore
  <2> QED
    BY <2>4, <2>5 DEF KeyInv
<1>c2. CASE UNCHANGED vars
  <2>1. KeepsKeys(0) /\ KeepsOrder(FALSE) /\ calls' = calls
    BY <1>7, <1>8, <1>c2 DEF vars, disk, backend, session, list, history
  <2> QED
    BY <1>1, <2>1, QuietNone
<1> QED
  BY <1>1, <1>a1, <1>a2, <1>a3, <1>a4, <1>a5, <1>a6, <1>a7, <1>a8, <1>a9, <1>a10, <1>a11, <1>b1,
     <1>b2, <1>b3, <1>b4, <1>b5, <1>b6, <1>b7, <1>b8, <1>b9, <1>b10, <1>b11, <1>b12, <1>c1, <1>c2
     DEF Next, User, Backend

LEMMA KeyInvariant == Spec => []KeyInv
BY InitKey, KeyStep, TypeInvariant, PassInvariant, PTL DEF Spec

\* The list of the page has no two wallets of the same keys, whatever the user
\* opens and closes while a login is on its way, and with no call pending it is
\* the list of the backend (login.component.ts:165, open-wallet.component.ts:73,
\* sidebar.component.ts:88), but for the exceptions that the property names.
THEOREM WalletsAreListed == Spec => []WalletsListed
<1>1. TypeInv /\ KeyInv => UniqueWallets
  <2>1. SUFFICES ASSUME TypeInv, KeyInv, ~crossed
                 PROVE  DifferentKeys(Paths(wallets))
    BY DEF UniqueWallets
  <2>2. GoodList(wallets, m_wallet_id_counter) /\ UniqueKeys(Shown(wallets))
    BY <2>1 DEF TypeInv, KeyInv, KeysInv
  <2> QED
    BY <2>2, PathKeys
<1>2. UniqueWallets /\ ListIsOpen => WalletsListed
  BY DEF WalletsListed
<1> QED
  BY <1>1, <1>2, TypeInvariant, KeyInvariant, ListAgrees, PTL

=============================================================================
