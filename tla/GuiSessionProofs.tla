-------------------------- MODULE GuiSessionProofs --------------------------
(***************************************************************************)
(* The session of the GUI, for any passwords, wallet files and keys and    *)
(* any number of actions and starts: one password protects the file and    *)
(* unlocks the session, the list shows the open wallets, and a quit saves  *)
(* them.                                                                   *)
(***************************************************************************)
EXTENDS GuiSession, SequenceTheorems, TLAPS

(***************************************************************************)
(* The calls, and the types of the variables.                              *)
(***************************************************************************)

AnyPass == Pass \cup {Empty}
Wallet  == [id : Nat, path : Path]

Call ==
  [cmd : {"have_secure_app_data", "drop_secure_app_data", "store_app_data", "on_request_quit"}]
  \cup [cmd : {"set_master_password"}, pass : Pass, then : {"reg", "change"}]
  \cup [cmd : {"check_master_password", "get_secure_app_data"}, pass : AnyPass]
  \cup [cmd : {"store_secure_app_data"}, wallets : Seq(Path), then : {"nothing", "quit"}]
  \cup [cmd : {"open_wallet"}, path : Path, then : {"user"}]
  \cup [cmd : {"open_wallet"}, path : Path, then : {"login"}, first : BOOLEAN, last : BOOLEAN]
  \cup [cmd : {"run_wallet"}, id : Nat]
  \cup [cmd : {"close_wallet"}, id : Nat, then : {"user", "home"}, index : {0}]
  \cup [cmd : {"close_wallet"}, id : Nat, then : {"quit"}, index : Nat \ {0}]

\* a list of wallets with the ids that the backend gave, each once
GoodList(ws, n) ==
  /\ ws \in Seq(Wallet)
  /\ \A i \in 1..Len(ws) : ws[i].id < n
  /\ \A i, j \in 1..Len(ws) : ws[i].id = ws[j].id => i = j

\* calls that close only wallets that have been opened
GoodCalls(cs, n) ==
  /\ cs \in Seq(Call)
  /\ \A i \in 1..Len(cs) : cs[i].cmd = "close_wallet" => cs[i].id < n

TypeInv ==
  /\ file = NoFile \/ file \in SecureFile
  /\ m_master_password \in AnyPass /\ appPass \in AnyPass /\ entered \subseteq AnyPass
  /\ page \in {"start", "reg", "auth", "app"}
  /\ m_wallet_id_counter \in Nat
  /\ m_wallets \subseteq Wallet /\ \A w \in m_wallets : w.id < m_wallet_id_counter
  /\ GoodList(wallets, m_wallet_id_counter)
  /\ currentWallet = NoId \/ currentWallet \in 0..(m_wallet_id_counter - 1)
  /\ GoodCalls(calls, m_wallet_id_counter)
  /\ appData \in BOOLEAN /\ done \in BOOLEAN /\ appLogin \in BOOLEAN
  /\ dataIsLoaded \in BOOLEAN /\ countdown \in BOOLEAN /\ onQuitRequest \in BOOLEAN

\* What is in a call of each kind.
LEMMA CallFields ==
  ASSUME NEW c \in Call
  PROVE  /\ c.cmd = "set_master_password" => c.pass \in Pass /\ c.then \in {"reg", "change"}
         /\ c.cmd \in {"check_master_password", "get_secure_app_data"} => c.pass \in AnyPass
         /\ c.cmd = "store_secure_app_data" =>
               c.wallets \in Seq(Path) /\ c.then \in {"nothing", "quit"}
         /\ c.cmd = "open_wallet" => c.path \in Path /\ c.then \in {"user", "login"}
         /\ c.cmd = "run_wallet" => c.id \in Nat
         /\ c.cmd = "close_wallet" => c.id \in Nat /\ c.then \in {"user", "home", "quit"}
         /\ c.cmd = "close_wallet" /\ c.then = "quit" => c.index \in Nat \ {0}
BY DEF Call

\* The calls that the GUI makes are calls.
LEMMA CallsMade ==
  /\ StartUpCalls \in Seq(Call)
  /\ [cmd |-> "drop_secure_app_data"] \in Call
  /\ storeAppData \in Call /\ storeAppData.cmd = "store_app_data"
  /\ [cmd |-> "on_request_quit"] \in Call
  /\ \A p \in Pass, t \in {"reg", "change"} :
        [cmd |-> "set_master_password", pass |-> p, then |-> t] \in Call
  /\ \A p \in AnyPass, k \in {"check_master_password", "get_secure_app_data"} :
        [cmd |-> k, pass |-> p] \in Call
  /\ \A p \in Path : [cmd |-> "open_wallet", path |-> p, then |-> "user"] \in Call
  /\ \A id \in Nat : [cmd |-> "run_wallet", id |-> id] \in Call
  /\ \A id \in Nat, t \in {"user", "home"} : closeWalletCall(id, t, 0) \in Call
  /\ \A id \in Nat, n \in Nat \ {0} : closeWalletCall(id, "quit", n) \in Call
BY DEF Call, StartUpCalls, storeAppData, closeWalletCall

\* The wallets of a list.
LEMMA ListElements ==
  ASSUME NEW ws \in Seq(Wallet), NEW i \in 1..Len(ws)
  PROVE  ws[i] \in Wallet /\ ws[i].id \in Nat /\ ws[i].path \in Path
<1>1. ws[i] \in Wallet
  OBVIOUS
<1> QED
  BY <1>1 DEF Wallet

\* The paths of a list of wallets, and the calls made from one.
LEMMA PathsOf ==
  ASSUME NEW ws \in Seq(Wallet)
  PROVE  /\ Paths(ws) \in Seq(Path) /\ Len(Paths(ws)) = Len(ws)
         /\ \A i \in 1..Len(ws) : Paths(ws)[i] = ws[i].path
<1>1. \A i \in 1..Len(ws) : ws[i].path \in Path
  BY ListElements
<1>2. Paths(ws) = [i \in 1..Len(ws) |-> ws[i].path]
  BY DEF Paths
<1>3. Len(ws) \in Nat
  OBVIOUS
<1> QED
  BY <1>1, <1>2, <1>3, IsASeq

LEMMA StoreCall ==
  ASSUME NEW ws \in Seq(Wallet), NEW t \in {"nothing", "quit"}
  PROVE  /\ storeSecureAppData(ws, t) \in Call
         /\ storeSecureAppData(ws, t).cmd = "store_secure_app_data"
         /\ storeSecureAppData(ws, t).wallets = Paths(ws)
         /\ storeSecureAppData(ws, t).then = t
<1>1. Paths(ws) \in Seq(Path)
  BY PathsOf
<1> QED
  BY <1>1 DEF storeSecureAppData, Call

LEMMA QuitCallMade ==
  ASSUME NEW ws, NEW n \in Nat, GoodList(ws, n)
  PROVE  /\ recursionCloseWallets(ws) \in Call
         /\ \/ /\ recursionCloseWallets(ws).cmd = "close_wallet"
               /\ recursionCloseWallets(ws).then = "quit"
               /\ recursionCloseWallets(ws).id < n
            \/ recursionCloseWallets(ws).cmd = "on_request_quit"
<1>1. CASE ws = <<>>
  BY <1>1, CallsMade DEF recursionCloseWallets
<1>2. CASE ws # <<>>
  <2>1. Len(ws) \in Nat \ {0} /\ Len(ws) \in 1..Len(ws)
    BY <1>2 DEF GoodList
  <2>2. ws[Len(ws)].id \in Nat /\ ws[Len(ws)].id < n
    BY <2>1, ListElements DEF GoodList
  <2>3. recursionCloseWallets(ws) = closeWalletCall(ws[Len(ws)].id, "quit", Len(ws))
    BY <1>2 DEF recursionCloseWallets, Last
  <2> QED
    BY <2>1, <2>2, <2>3, CallsMade DEF closeWalletCall
<1> QED
  BY <1>1, <1>2

(***************************************************************************)
(* The queue of calls.                                                     *)
(***************************************************************************)

\* t is s without its first d elements and with new ones behind
Shift(s, t, d, new) ==
  /\ t \in Seq(Call)
  /\ Len(s) - d \in Nat
  /\ Len(t) = Len(s) - d + Len(new)
  /\ \A i \in 1..(Len(s) - d) : t[i] = s[i + d]
  /\ \A i \in 1..Len(new) : t[Len(s) - d + i] = new[i]

LEMMA AskShift ==
  ASSUME NEW s \in Seq(Call), NEW new \in Seq(Call)
  PROVE  Shift(s, s \o new, 0, new)
BY DEF Shift

LEMMA ReplyShift ==
  ASSUME NEW s \in Seq(Call), s # <<>>, NEW new \in Seq(Call)
  PROVE  Shift(s, Tail(s) \o new, 1, new)
<1>1. Len(s) \in Nat \ {0} /\ Tail(s) \in Seq(Call) /\ Len(Tail(s)) = Len(s) - 1
      /\ \A i \in 1..(Len(s) - 1) : Tail(s)[i] = s[i + 1]
  OBVIOUS
<1> QED
  BY <1>1 DEF Shift

\* Removing a wallet from a list, and moving one.
LEMMA RemovedAt ==
  ASSUME NEW S, NEW s \in Seq(S), NEW i \in 1..Len(s)
  PROVE  /\ RemoveAt(s, i) \in Seq(S) /\ Len(RemoveAt(s, i)) = Len(s) - 1
         /\ \A k \in 1..(Len(s) - 1) : RemoveAt(s, i)[k] = s[IF k < i THEN k ELSE k + 1]
<1> DEFINE a == SubSeq(s, 1, i - 1)
           b == SubSeq(s, i + 1, Len(s))
<1>1. /\ a \in Seq(S) /\ Len(a) = i - 1 /\ \A k \in 1..(i - 1) : a[k] = s[k]
      /\ b \in Seq(S) /\ Len(b) = Len(s) - i /\ \A k \in 1..(Len(s) - i) : b[k] = s[k + i]
  OBVIOUS
<1>2. RemoveAt(s, i) = a \o b
  BY DEF RemoveAt
<1> HIDE DEF a, b
<1>3. /\ a \o b \in Seq(S) /\ Len(a \o b) = Len(s) - 1
      /\ \A k \in 1..(Len(s) - 1) : (a \o b)[k] = IF k < i THEN a[k] ELSE b[k - i + 1]
  <2>1. Len(s) \in Nat /\ i \in Nat /\ 1 <= i /\ i <= Len(s)
    OBVIOUS
  <2>2. /\ a \o b \in Seq(S) /\ Len(a \o b) = Len(a) + Len(b)
        /\ \A k \in 1..(Len(a) + Len(b)) :
              (a \o b)[k] = IF k <= Len(a) THEN a[k] ELSE b[k - Len(a)]
    BY <1>1, ConcatProperties
  <2>3. Len(a) + Len(b) = Len(s) - 1
    BY <1>1, <2>1
  <2>4. \A k \in 1..(Len(s) - 1) : (k <= Len(a) <=> k < i) /\ k - Len(a) = k - i + 1
    BY <1>1, <2>1
  <2> QED
    BY <2>2, <2>3, <2>4
<1>4. \A k \in 1..(Len(s) - 1) : ~(k < i) => k - i + 1 \in 1..(Len(s) - i) /\ k - i + 1 + i = k + 1
  OBVIOUS
<1> QED
  BY <1>1, <1>2, <1>3, <1>4

LEMMA InsertedAt ==
  ASSUME NEW S, NEW s \in Seq(S), NEW i \in 1..(Len(s) + 1), NEW e \in S
  PROVE  /\ InsertAt(s, i, e) \in Seq(S) /\ Len(InsertAt(s, i, e)) = Len(s) + 1
         /\ \A k \in 1..(Len(s) + 1) : /\ k < i => InsertAt(s, i, e)[k] = s[k]
                                       /\ k = i => InsertAt(s, i, e)[k] = e
                                       /\ k > i => InsertAt(s, i, e)[k] = s[k - 1]
<1> DEFINE a == SubSeq(s, 1, i - 1)
           b == SubSeq(s, i, Len(s))
<1>1. /\ a \in Seq(S) /\ Len(a) = i - 1 /\ \A k \in 1..(i - 1) : a[k] = s[k]
      /\ b \in Seq(S) /\ Len(b) = Len(s) - i + 1
      /\ \A k \in 1..(Len(s) - i + 1) : b[k] = s[k + i - 1]
  OBVIOUS
<1>2. InsertAt(s, i, e) = a \o <<e>> \o b
  BY DEF InsertAt
<1> HIDE DEF a, b
<1>3. /\ a \o <<e>> \in Seq(S) /\ Len(a \o <<e>>) = i /\ (a \o <<e>>)[i] = e
      /\ \A k \in 1..(i - 1) : (a \o <<e>>)[k] = s[k]
  <2>1. i \in Nat /\ 1 <= i /\ Len(a) = i - 1 /\ Len(a) + 1 = i
    BY <1>1
  <2>2. a \o <<e>> = Append(a, e)
    BY <1>1
  <2>3. Append(a, e) \in Seq(S) /\ Len(Append(a, e)) = Len(a) + 1 /\ Append(a, e)[Len(a) + 1] = e
        /\ \A k \in 1..Len(a) : Append(a, e)[k] = a[k]
    BY <1>1
  <2> QED
    BY <1>1, <2>1, <2>2, <2>3
<1> DEFINE c == a \o <<e>>
<1> HIDE DEF c
<1>4. /\ c \in Seq(S) /\ Len(c) = i /\ c[i] = e /\ \A k \in 1..(i - 1) : c[k] = s[k]
  BY <1>3 DEF c
<1>5. /\ c \o b \in Seq(S) /\ Len(c \o b) = Len(s) + 1
      /\ \A k \in 1..(Len(s) + 1) : (c \o b)[k] = IF k <= i THEN c[k] ELSE b[k - i]
  <2>1. Len(s) \in Nat /\ i \in Nat /\ 1 <= i /\ i <= Len(s) + 1
    OBVIOUS
  <2>2. /\ c \o b \in Seq(S) /\ Len(c \o b) = Len(c) + Len(b)
        /\ \A k \in 1..(Len(c) + Len(b)) :
              (c \o b)[k] = IF k <= Len(c) THEN c[k] ELSE b[k - Len(c)]
    <3>1. b \in Seq(S) /\ c \in Seq(S)
      BY <1>1, <1>4
    <3> QED
      BY <3>1, ConcatProperties
  <2>3. Len(c) + Len(b) = Len(s) + 1
    BY <1>1, <1>4, <2>1
  <2> QED
    BY <1>4, <2>2, <2>3
<1>6. \A k \in 1..(Len(s) + 1) : k > i =>
        k - i \in 1..(Len(s) - i + 1) /\ k - i + i - 1 = k - 1
  OBVIOUS
<1>7. \A k \in 1..(Len(s) + 1) : /\ k < i => k \in 1..(i - 1) /\ k <= i
                                 /\ k > i => ~(k <= i)
  OBVIOUS
<1>8. \A k \in 1..(Len(s) + 1) : /\ k < i => (c \o b)[k] = s[k]
                                 /\ k = i => (c \o b)[k] = e
                                 /\ k > i => (c \o b)[k] = s[k - 1]
  BY <1>1, <1>4, <1>5, <1>6, <1>7
<1> QED
  BY <1>2, <1>4, <1>5, <1>8 DEF c

\* The wallets of a list, as a set.
Shown(ws) == {ws[i] : i \in 1..Len(ws)}

LEMMA GoodAppend ==
  ASSUME NEW ws, NEW n \in Nat, GoodList(ws, n), NEW w \in Wallet, w.id = n
  PROVE  /\ GoodList(Append(ws, w), n + 1)
         /\ Shown(Append(ws, w)) = Shown(ws) \cup {w}
<1>1. /\ ws \in Seq(Wallet)
      /\ Append(ws, w) \in Seq(Wallet) /\ Len(Append(ws, w)) = Len(ws) + 1 /\ Len(ws) \in Nat
      /\ Append(ws, w)[Len(ws) + 1] = w /\ \A i \in 1..Len(ws) : Append(ws, w)[i] = ws[i]
  BY DEF GoodList
<1>2. \A i \in 1..Len(ws) : ws[i].id \in Nat /\ ws[i].id < n
  BY <1>1, ListElements DEF GoodList
<1>3. \A i \in 1..(Len(ws) + 1) : i \in 1..Len(ws) \/ i = Len(ws) + 1
  BY <1>1
<1>4. \A i \in 1..Len(ws) : i \in 1..(Len(ws) + 1)
  BY <1>1
<1>5. Len(ws) + 1 \in 1..(Len(ws) + 1)
  BY <1>1
<1> DEFINE t == Append(ws, w)
<1> HIDE DEF t
<1>6. /\ t \in Seq(Wallet) /\ Len(t) = Len(ws) + 1
      /\ t[Len(ws) + 1] = w /\ \A i \in 1..Len(ws) : t[i] = ws[i]
  BY <1>1 DEF t
<1>7. \A i \in 1..Len(t) : t[i].id < n + 1
  BY <1>2, <1>3, <1>6
<1>8. \A i, j \in 1..Len(t) : t[i].id = t[j].id => i = j
  BY <1>2, <1>3, <1>6 DEF GoodList
<1>9. Shown(t) = Shown(ws) \cup {w}
  BY <1>3, <1>4, <1>5, <1>6 DEF Shown
<1> QED
  BY <1>6, <1>7, <1>8, <1>9 DEF t, GoodList

LEMMA GoodRemove ==
  ASSUME NEW ws, NEW n \in Nat, GoodList(ws, n), NEW i \in 1..Len(ws)
  PROVE  /\ GoodList(RemoveAt(ws, i), n)
         /\ Shown(RemoveAt(ws, i)) = Shown(ws) \ {ws[i]}
         /\ Len(RemoveAt(ws, i)) = Len(ws) - 1
<1>1. ws \in Seq(Wallet) /\ Len(ws) \in Nat /\ i \in Nat /\ 1 <= i /\ i <= Len(ws)
  BY DEF GoodList
<1> DEFINE t == RemoveAt(ws, i)
           old(k) == IF k < i THEN k ELSE k + 1
<1> HIDE DEF t
<1>2. /\ t \in Seq(Wallet) /\ Len(t) = Len(ws) - 1
      /\ \A k \in 1..(Len(ws) - 1) : t[k] = ws[old(k)]
  BY <1>1, RemovedAt DEF t
<1>3. \A k \in 1..(Len(ws) - 1) : old(k) \in 1..Len(ws) /\ old(k) # i
  BY <1>1
<1>4. \A k, l \in 1..(Len(ws) - 1) : old(k) = old(l) => k = l
  BY <1>1
<1>5. \A j \in 1..Len(ws) : j # i => \E k \in 1..(Len(ws) - 1) : old(k) = j
  <2>1. SUFFICES ASSUME NEW j \in 1..Len(ws), j # i
                 PROVE  \E k \in 1..(Len(ws) - 1) : old(k) = j
    OBVIOUS
  <2>2. CASE j < i
    <3>1. j \in 1..(Len(ws) - 1) /\ old(j) = j
      BY <1>1, <2>1, <2>2
    <3> QED
      BY <3>1
  <2>3. CASE j > i
    <3>1. j - 1 \in 1..(Len(ws) - 1) /\ ~(j - 1 < i) /\ j - 1 + 1 = j
      BY <1>1, <2>1, <2>3
    <3> QED
      BY <3>1
  <2> QED
    BY <1>1, <2>1, <2>2, <2>3
<1> HIDE DEF old
<1>6. \A k \in 1..Len(t) : t[k].id < n
  BY <1>2, <1>3 DEF GoodList
<1>7. \A k, l \in 1..Len(t) : t[k].id = t[l].id => k = l
  BY <1>2, <1>3, <1>4 DEF GoodList
<1>8. \A k \in 1..Len(t) : t[k] \in Shown(ws) \ {ws[i]}
  BY <1>2, <1>3 DEF GoodList, Shown
<1>9. \A w \in Shown(ws) \ {ws[i]} : w \in Shown(t)
  <2>1. SUFFICES ASSUME NEW j \in 1..Len(ws), ws[j] # ws[i]
                 PROVE  ws[j] \in Shown(t)
    BY DEF Shown
  <2>2. PICK k \in 1..(Len(ws) - 1) : old(k) = j
    BY <1>5, <2>1
  <2> QED
    BY <1>2, <2>2 DEF Shown
<1>10. Shown(t) = Shown(ws) \ {ws[i]}
  BY <1>8, <1>9 DEF Shown
<1>11. GoodList(t, n)
  BY <1>2, <1>6, <1>7 DEF GoodList
<1> QED
  BY <1>2, <1>10, <1>11 DEF t

LEMMA GoodMove ==
  ASSUME NEW ws, NEW n \in Nat, GoodList(ws, n),
         NEW i \in 1..Len(ws), NEW j \in 1..Len(ws)
  PROVE  /\ GoodList(InsertAt(RemoveAt(ws, i), j, ws[i]), n)
         /\ Shown(InsertAt(RemoveAt(ws, i), j, ws[i])) = Shown(ws)
<1> DEFINE r == RemoveAt(ws, i)
           e == ws[i]
           t == InsertAt(r, j, e)
<1>1. /\ GoodList(r, n) /\ Shown(r) = Shown(ws) \ {e} /\ Len(r) = Len(ws) - 1
  BY GoodRemove
<1>2. e \in Wallet /\ e.id < n /\ e \in Shown(ws) /\ \A k \in 1..Len(ws) : ws[k].id = e.id => k = i
  BY ListElements DEF GoodList, Shown
<1>3. \A k \in 1..Len(r) : r[k].id # e.id
  <2>1. SUFFICES ASSUME NEW k \in 1..Len(r)
                 PROVE  r[k].id # e.id
    OBVIOUS
  <2>2. r[k] \in Shown(ws) /\ r[k] # e
    BY <1>1 DEF Shown
  <2>3. PICK l \in 1..Len(ws) : r[k] = ws[l]
    BY <2>2 DEF Shown
  <2> QED
    BY <1>2, <2>2, <2>3
<1> HIDE DEF r, e
<1>4. r \in Seq(Wallet) /\ Len(r) \in Nat /\ j \in 1..(Len(r) + 1)
  BY <1>1 DEF GoodList
<1> HIDE DEF t
<1>5. /\ t \in Seq(Wallet) /\ Len(t) = Len(r) + 1
      /\ \A k \in 1..(Len(r) + 1) : /\ k < j => t[k] = r[k]
                                    /\ k = j => t[k] = e
                                    /\ k > j => t[k] = r[k - 1]
  <2>1. r \in Seq(Wallet) /\ e \in Wallet /\ j \in 1..(Len(r) + 1)
    BY <1>2, <1>4
  <2>2. InsertAt(r, j, e) \in Seq(Wallet) /\ Len(InsertAt(r, j, e)) = Len(r) + 1
    BY <2>1, InsertedAt
  <2>3. \A k \in 1..(Len(r) + 1) : /\ k < j => InsertAt(r, j, e)[k] = r[k]
                                   /\ k = j => InsertAt(r, j, e)[k] = e
                                   /\ k > j => InsertAt(r, j, e)[k] = r[k - 1]
    BY <2>1, InsertedAt
  <2> QED
    BY <2>2, <2>3 DEF t
<1>6. \A k \in 1..(Len(r) + 1) : /\ k < j => k \in 1..Len(r)
                                 /\ k > j => k - 1 \in 1..Len(r)
                                 /\ k < j \/ k = j \/ k > j
  BY <1>4
<1>7. \A k \in 1..Len(t) : t[k].id < n
  BY <1>1, <1>2, <1>5, <1>6 DEF GoodList
<1>8. \A k, l \in 1..Len(t) : t[k].id = t[l].id => k = l
  <2>1. \A k, l \in 1..Len(r) : r[k].id = r[l].id => k = l
    BY <1>1 DEF GoodList
  <2>2. SUFFICES ASSUME NEW k \in 1..Len(t), NEW l \in 1..Len(t), t[k].id = t[l].id
                 PROVE  k = l
    OBVIOUS
  <2>3. k \in 1..(Len(r) + 1) /\ l \in 1..(Len(r) + 1)
    BY <1>5
  <2>4. k \in Nat /\ l \in Nat /\ j \in Nat
    BY <1>4, <2>3
  <2> DEFINE at(m) == IF m < j THEN m ELSE m - 1
  <2>5. \A m \in 1..(Len(r) + 1) : m # j => at(m) \in 1..Len(r) /\ t[m] = r[at(m)]
    BY <1>4, <1>5, <1>6
  <2>6. k # j /\ l # j /\ at(k) = at(l) => k = l
    BY <2>4
  <2> HIDE DEF at
  <2>7. CASE k # j /\ l # j
    BY <2>1, <2>2, <2>3, <2>5, <2>6, <2>7
  <2>8. CASE k = j \/ l = j
    BY <1>3, <1>5, <2>2, <2>3, <2>5, <2>8
  <2> QED
    BY <2>7, <2>8
<1>9. \A k \in 1..Len(t) : t[k] \in Shown(r) \cup {e}
  BY <1>5, <1>6 DEF Shown
<1>10. \A w \in Shown(r) \cup {e} : w \in Shown(t)
  <2>1. ASSUME NEW k \in 1..Len(r)
        PROVE  r[k] \in Shown(t)
    <3>1. CASE k < j
      <4>1. k \in 1..(Len(r) + 1)
        BY <1>4
      <4> QED
        BY <1>5, <3>1, <4>1 DEF Shown
    <3>2. CASE ~(k < j)
      <4>1. k + 1 \in 1..(Len(r) + 1) /\ k + 1 > j /\ k + 1 - 1 = k
        BY <1>4, <3>2
      <4>2. t[k + 1] = r[k] /\ k + 1 \in 1..Len(t)
        BY <1>5, <4>1
      <4> QED
        BY <4>2 DEF Shown
    <3> QED
      BY <3>1, <3>2
  <2>2. e \in Shown(t)
    BY <1>4, <1>5 DEF Shown
  <2> QED
    BY <2>1, <2>2 DEF Shown
<1>11. Shown(t) = Shown(r) \cup {e}
  BY <1>9, <1>10 DEF Shown
<1>12. GoodList(t, n)
  BY <1>5, <1>7, <1>8 DEF GoodList
<1> QED
  BY <1>1, <1>2, <1>11, <1>12 DEF t, r, e

\* A closed wallet leaves the list.
LEMMA GoodWithout ==
  ASSUME NEW ws, NEW n \in Nat, GoodList(ws, n), NEW id
  PROVE  /\ GoodList(Without(ws, id), n)
         /\ Shown(Without(ws, id)) = {w \in Shown(ws) : w.id # id}
<1>1. Ids(ws) = {w.id : w \in Shown(ws)}
  BY DEF Ids, Shown, GoodList
<1>2. CASE id \in Ids(ws)
  <2> DEFINE i == CHOOSE i \in DOMAIN ws : ws[i].id = id
  <2>1. i \in 1..Len(ws) /\ ws[i].id = id
    BY <1>2 DEF Ids, GoodList
  <2>2. Without(ws, id) = RemoveAt(ws, i)
    BY <1>2 DEF Without
  <2> HIDE DEF i
  <2>3. Shown(ws) \ {ws[i]} = {w \in Shown(ws) : w.id # id}
    BY <2>1 DEF Shown, GoodList
  <2> QED
    BY <2>1, <2>2, <2>3, GoodRemove
<1>3. CASE id \notin Ids(ws)
  BY <1>1, <1>3 DEF Without
<1> QED
  BY <1>2, <1>3

(***************************************************************************)
(* The types are an invariant.                                             *)
(***************************************************************************)

LEMMA GoodShift ==
  ASSUME NEW n \in Nat, NEW m \in Nat, n <= m, NEW s, GoodCalls(s, n),
         NEW new, GoodCalls(new, m), NEW d \in {0, 1}, NEW t, Shift(s, t, d, new)
  PROVE  GoodCalls(t, m)
<1>1. /\ t \in Seq(Call) /\ Len(s) \in Nat /\ Len(new) \in Nat /\ Len(s) - d \in Nat
      /\ Len(t) = Len(s) - d + Len(new)
      /\ \A i \in 1..(Len(s) - d) : t[i] = s[i + d]
      /\ \A i \in 1..Len(new) : t[Len(s) - d + i] = new[i]
  BY DEF Shift, GoodCalls
<1>2. SUFFICES ASSUME NEW i \in 1..Len(t), t[i].cmd = "close_wallet"
               PROVE  t[i].id < m
  BY <1>1 DEF GoodCalls
<1>3. CASE i <= Len(s) - d
  <2>1. i \in 1..(Len(s) - d) /\ i + d \in 1..Len(s)
    BY <1>1, <1>3
  <2>2. t[i] = s[i + d] /\ s[i + d].cmd = "close_wallet" /\ s[i + d] \in Call
    BY <1>1, <1>2, <2>1 DEF GoodCalls
  <2>3. t[i].id \in Nat
    BY <1>2, <2>2, CallFields
  <2>4. t[i].id < n
    BY <2>1, <2>2 DEF GoodCalls
  <2> QED
    BY <2>3, <2>4
<1>4. CASE ~(i <= Len(s) - d)
  <2> DEFINE k == i - (Len(s) - d)
  <2>1. k \in 1..Len(new) /\ Len(s) - d + k = i
    BY <1>1, <1>4
  <2> HIDE DEF k
  <2>2. t[i] = new[k]
    BY <1>1, <2>1
  <2> QED
    BY <1>2, <2>1, <2>2 DEF GoodCalls
<1> QED
  BY <1>3, <1>4

LEMMA GoodAsk ==
  ASSUME NEW n \in Nat, NEW m \in Nat, n <= m, NEW s, GoodCalls(s, n), NEW new, GoodCalls(new, m)
  PROVE  /\ GoodCalls(s \o new, m)
         /\ s # <<>> => GoodCalls(Tail(s) \o new, m)
<1>1. s \in Seq(Call) /\ new \in Seq(Call)
  BY DEF GoodCalls
<1>2. GoodCalls(s \o new, m)
  BY <1>1, AskShift, GoodShift
<1>3. s # <<>> => GoodCalls(Tail(s) \o new, m)
  BY <1>1, ReplyShift, GoodShift
<1> QED
  BY <1>2, <1>3

LEMMA GoodOne ==
  ASSUME NEW n \in Nat
  PROVE  /\ GoodCalls(<<>>, n)
         /\ \A c \in Call : (c.cmd = "close_wallet" => c.id < n) => GoodCalls(<<c>>, n)
<1>1. \A c \in Call : <<c>> \in Seq(Call) /\ Len(<<c>>) = 1 /\ <<c>>[1] = c
  OBVIOUS
<1>2. <<>> \in Seq(Call) /\ Len(<<>>) = 0
  OBVIOUS
<1>3. \A i \in 1..1 : i = 1
  OBVIOUS
<1>4. GoodCalls(<<>>, n)
  BY <1>2 DEF GoodCalls
<1>5. ASSUME NEW c \in Call, c.cmd = "close_wallet" => c.id < n
      PROVE  GoodCalls(<<c>>, n)
  BY <1>1, <1>3, <1>5 DEF GoodCalls
<1> QED
  BY <1>4, <1>5

\* The calls of the login, one for each wallet of the file.
LEMMA LoginCalls ==
  ASSUME NEW ps \in Seq(Path)
  PROVE  /\ getWalletData(ps) \in Seq(Call) /\ Len(getWalletData(ps)) = Len(ps)
         /\ \A i \in 1..Len(ps) : /\ getWalletData(ps)[i].cmd = "open_wallet"
                                  /\ getWalletData(ps)[i].then = "login"
                                  /\ getWalletData(ps)[i].path = ps[i]
<1> DEFINE c(i) == [cmd |-> "open_wallet", path |-> ps[i], then |-> "login",
                    first |-> i = 1, last |-> i = Len(ps)]
<1>1. \A i \in 1..Len(ps) : c(i) \in Call
  <2>1. SUFFICES ASSUME NEW i \in 1..Len(ps)
                 PROVE  c(i) \in Call
    OBVIOUS
  <2>2. ps[i] \in Path
    OBVIOUS
  <2>3. (i = 1) \in BOOLEAN /\ (i = Len(ps)) \in BOOLEAN
    OBVIOUS
  <2>4. \A x, y \in BOOLEAN : [cmd |-> "open_wallet", path |-> ps[i], then |-> "login",
                              first |-> x, last |-> y] \in Call
    BY <2>2 DEF Call
  <2> QED
    BY <2>3, <2>4, Zenon
<1>2. \A i \in 1..Len(ps) : c(i).cmd = "open_wallet" /\ c(i).then = "login" /\ c(i).path = ps[i]
  OBVIOUS
<1>3. getWalletData(ps) = [i \in 1..Len(ps) |-> c(i)]
  BY DEF getWalletData
<1>4. Len(ps) \in Nat
  OBVIOUS
<1> HIDE DEF c
<1>5. [i \in 1..Len(ps) |-> c(i)] \in Seq(Call) /\ Len([i \in 1..Len(ps) |-> c(i)]) = Len(ps)
  BY <1>1, <1>4, IsASeq
<1> QED
  BY <1>2, <1>3, <1>5

LEMMA InitType == Init => TypeInv
<1>1. SUFFICES ASSUME Init PROVE TypeInv
  OBVIOUS
<1>2. GoodCalls(calls, 0)
  <2>1. [cmd |-> "have_secure_app_data"] \in Call
    BY DEF Call
  <2>2. calls = <<[cmd |-> "have_secure_app_data"]>>
    BY <1>1 DEF Init, StartUpCalls
  <2>3. [cmd |-> "have_secure_app_data"].cmd # "close_wallet"
    OBVIOUS
  <2> QED
    BY <2>1, <2>2, <2>3, GoodOne
<1>3. GoodList(wallets, 0)
  BY <1>1 DEF Init, GoodList
<1>4. file = NoFile \/ file \in SecureFile
  BY <1>1, SessionAssumption DEF Init
<1> QED
  BY <1>1, <1>2, <1>3, <1>4 DEF Init, TypeInv, AnyPass

LEMMA TypeStep == TypeInv /\ [Next]_vars => TypeInv'
<1>1. SUFFICES ASSUME TypeInv, [Next]_vars PROVE TypeInv'
  OBVIOUS
<1> DEFINE n == m_wallet_id_counter
<1>2. /\ n \in Nat /\ n <= n /\ n + 1 \in Nat /\ n <= n + 1
      /\ GoodCalls(calls, n) /\ GoodList(wallets, n)
      /\ calls \in Seq(Call) /\ wallets \in Seq(Wallet) /\ GoodCalls(<<>>, n)
  BY <1>1, GoodOne DEF TypeInv, GoodCalls, GoodList
<1>3. \A new : GoodCalls(new, n) => (Ask(new) => GoodCalls(calls', n))
  BY <1>2, GoodAsk DEF Ask
<1>4. \A new : GoodCalls(new, n) => (calls # <<>> /\ Reply(new) => GoodCalls(calls', n))
  BY <1>2, GoodAsk DEF Reply
<1>5. \A c \in Call : c.cmd # "close_wallet" => GoodCalls(<<c>>, n)
  BY <1>2, GoodOne
<1>6. \A id \in Ids(wallets) : id \in 0..(n - 1)
  <2>1. SUFFICES ASSUME NEW i \in 1..Len(wallets) PROVE wallets[i].id \in 0..(n - 1)
    BY <1>2 DEF Ids
  <2>2. wallets[i].id \in Nat /\ wallets[i].id < n
    BY <1>2, ListElements DEF GoodList
  <2> QED
    BY <1>2, <2>2
<1>7. calls # <<>> => Head(calls) \in Call /\ (Head(calls).cmd = "close_wallet" => Head(calls).id \in 0..(n - 1))
  <2>1. SUFFICES ASSUME calls # <<>>
                 PROVE  Head(calls) \in Call /\ (Head(calls).cmd = "close_wallet" => Head(calls).id \in 0..(n - 1))
    OBVIOUS
  <2>2. Head(calls) = calls[1] /\ 1 \in 1..Len(calls) /\ calls[1] \in Call
    BY <1>2, <2>1
  <2>3. Head(calls).cmd = "close_wallet" => Head(calls).id \in Nat /\ Head(calls).id < n
    BY <2>2, <1>1, CallFields DEF TypeInv, GoodCalls
  <2> QED
    BY <1>2, <2>2, <2>3
<1>8. \A ws, t : GoodList(ws, n) /\ t \in {"nothing", "quit"} => GoodCalls(<<storeSecureAppData(ws, t)>>, n)
  BY <1>5, StoreCall DEF GoodList
<1>9. \A ws : GoodList(ws, n) => GoodCalls(storeIf(appPass, ws), n)
  BY <1>2, <1>8 DEF storeIf
<1>10. \A ws : GoodList(ws, n) => GoodCalls(<<recursionCloseWallets(ws)>>, n)
  BY <1>2, QuitCallMade, GoodOne
<1>11. GoodCalls(<<storeAppData>>, n)
  BY <1>5, CallsMade
<1> HIDE DEF n
<1>u. ASSUME UserActs
      PROVE  UNCHANGED <<file, appData, m_master_password, m_wallets, n, done, onQuitRequest>>
  BY <1>u DEF UserActs, disk, backend, n
<1> USE DEF n
<1>a. CASE onSubmitCreatePass
  <2>1. PICK p \in Pass : /\ appPass' = p /\ Enter(p)
                          /\ Ask(<<[cmd |-> "set_master_password", pass |-> p, then |-> "reg"]>>)
    BY <1>a DEF onSubmitCreatePass
  <2>2. GoodCalls(calls', n)
    BY <1>3, <1>5, <2>1, CallsMade
  <2> QED
    BY <1>1, <1>a, <1>u, <2>1, <2>2 DEF onSubmitCreatePass, TypeInv, Enter, AnyPass, list
<1>b. CASE onSkipCreatePass
  BY <1>1, <1>b, <1>u DEF onSkipCreatePass, TypeInv, AnyPass, list
<1>c. CASE onSubmitAuthPass
  <2>1. PICK p \in AnyPass : /\ appPass' = p /\ Enter(p)
                             /\ Ask(<<[cmd |-> IF dataIsLoaded THEN "check_master_password"
                                               ELSE "get_secure_app_data", pass |-> p]>>)
    BY <1>c DEF onSubmitAuthPass, AnyPass
  <2>2. \A k \in {"check_master_password", "get_secure_app_data"} :
           GoodCalls(<<[cmd |-> k, pass |-> p]>>, n)
    BY <1>5, CallsMade
  <2>3. GoodCalls(calls', n)
    BY <1>3, <2>1, <2>2
  <2> QED
    BY <1>1, <1>c, <1>u, <2>1, <2>3 DEF onSubmitAuthPass, TypeInv, Enter, list
<1>d. CASE dropSecureAppData
  <2>1. GoodCalls(calls', n)
    BY <1>3, <1>5, <1>d, CallsMade DEF dropSecureAppData
  <2>2. GoodList(wallets', n)
    BY <1>d, <1>2 DEF dropSecureAppData, GoodList
  <2> QED
    BY <1>1, <1>d, <1>u, <2>1, <2>2 DEF dropSecureAppData, TypeInv, session
<1>e. CASE onSubmitChangePass
  <2>1. PICK p \in AnyPass : /\ appPass' = p /\ Enter(p)
                             /\ Ask(IF p = Empty THEN <<>>
                                    ELSE <<[cmd |-> "set_master_password", pass |-> p, then |-> "change"]>>)
    BY <1>e DEF onSubmitChangePass, AnyPass
  <2>2. CASE p = Empty
    BY <1>1, <1>2, <1>3, <1>e, <1>u, <2>1, <2>2 DEF onSubmitChangePass, TypeInv, Enter, list
  <2>3. CASE p # Empty
    <3>1. p \in Pass
      BY <2>3 DEF AnyPass
    <3>2. GoodCalls(calls', n)
      BY <1>3, <1>5, <2>1, <2>3, <3>1, CallsMade
    <3> QED
      BY <1>1, <1>e, <1>u, <2>1, <3>2 DEF onSubmitChangePass, TypeInv, Enter, list
  <2> QED
    BY <2>2, <2>3
<1>f. CASE Lock
  BY <1>1, <1>f DEF Lock, TypeInv, AnyPass, disk, backend, list
<1>g. CASE openWallet
  <2>1. GoodCalls(calls', n)
    BY <1>3, <1>5, <1>g, CallsMade DEF openWallet
  <2> QED
    BY <1>1, <1>g, <1>u, <2>1 DEF openWallet, TypeInv, session, list
<1>h. CASE selectWallet
  BY <1>1, <1>6, <1>h, <1>u DEF selectWallet, TypeInv
<1>i. CASE closeWallet
  <2>1. PICK id \in Ids(wallets) : currentWallet' = id /\ Ask(<<closeWalletCall(id, "user", 0)>>)
    BY <1>i DEF closeWallet
  <2>2. GoodCalls(<<closeWalletCall(id, "user", 0)>>, n)
    <3>1. id \in Nat /\ id < n
      BY <1>2, <1>6
    <3>2. closeWalletCall(id, "user", 0) \in Call /\ closeWalletCall(id, "user", 0).id = id
      BY <3>1, CallsMade DEF closeWalletCall
    <3> QED
      BY <1>2, <3>1, <3>2, GoodOne
  <2>3. GoodCalls(calls', n)
    BY <1>3, <2>1, <2>2
  <2> QED
    BY <1>1, <1>6, <1>i, <1>u, <2>1, <2>3 DEF closeWallet, TypeInv
<1>j. CASE drop
  <2>1. GoodList(wallets', n)
    BY <1>2, <1>j, GoodMove DEF drop
  <2> QED
    BY <1>1, <1>j, <1>u, <2>1 DEF drop, TypeInv, session
<1>k. CASE quit_requested
  <2>1. GoodCalls(calls', n)
    BY <1>2, <1>3, <1>8, <1>11, <1>k DEF quit_requested
  <2> QED
    BY <1>1, <1>k, <2>1 DEF quit_requested, TypeInv, disk, backend, list
<1>l. CASE have_secure_app_data
  <2>1. GoodCalls(calls', n)
    BY <1>2, <1>4, <1>l DEF have_secure_app_data, Answer
  <2> QED
    BY <1>1, <1>l, <2>1 DEF have_secure_app_data, TypeInv, disk, backend, list, history
<1>m. CASE set_master_password
  <2>1. GoodCalls(calls', n)
    BY <1>2, <1>4, <1>8, <1>m DEF set_master_password, Answer, StoreUnderNewPassword
  <2>2. m_master_password' \in AnyPass
    BY <1>7, <1>m, CallFields DEF set_master_password, Answer, AnyPass
  <2> QED
    BY <1>1, <1>m, <2>1, <2>2 DEF set_master_password, Unlock, TypeInv, disk, list, history
<1>n. CASE store_secure_app_data
  <2>1. GoodCalls(calls', n)
    BY <1>2, <1>4, <1>11, <1>n DEF store_secure_app_data, Answer
  <2>2. Head(calls).wallets \in Seq(Path)
    BY <1>7, <1>n, CallFields DEF store_secure_app_data, Answer
  <2>3. file' \in SecureFile
    BY <1>1, <1>n, <2>2 DEF store_secure_app_data, SecureFile, TypeInv, AnyPass
  <2> QED
    BY <1>1, <1>n, <2>1, <2>3 DEF store_secure_app_data, TypeInv, backend, session, list, history
<1>o. CASE check_master_password
  <2>1. GoodCalls(calls', n)
    BY <1>2, <1>4, <1>o DEF check_master_password, Answer
  <2> QED
    BY <1>1, <1>o, <2>1 DEF check_master_password, Unlock, TypeInv, disk, backend, list, history
<1>p. CASE get_secure_app_data
  <2>1. CASE file # NoFile /\ file.pass = Head(calls).pass
    <3>1. file.wallets \in Seq(Path) /\ file.pass \in AnyPass
      BY <1>1, <2>1 DEF TypeInv, SecureFile, AnyPass
    <3>2. GoodCalls(getWalletData(file.wallets), n)
      BY <3>1, LoginCalls DEF GoodCalls
    <3>3. GoodCalls(calls', n)
      BY <1>2, <1>4, <1>p, <2>1, <3>2 DEF get_secure_app_data, Answer
    <3> QED
      BY <1>1, <1>p, <2>1, <3>1, <3>3 DEF get_secure_app_data, Unlock, TypeInv, disk, list, history
  <2>2. CASE ~(file # NoFile /\ file.pass = Head(calls).pass)
    <3>1. GoodCalls(calls', n)
      BY <1>2, <1>4, <1>p, <2>2 DEF get_secure_app_data, Answer
    <3> QED
      BY <1>1, <1>p, <2>2, <3>1 DEF get_secure_app_data, TypeInv, disk, list, history, session
  <2> QED
    BY <2>1, <2>2
<1>q. CASE drop_secure_app_data
  <2>1. GoodCalls(calls', n)
    BY <1>2, <1>4, <1>q DEF drop_secure_app_data, Answer
  <2> QED
    BY <1>1, <1>q, <2>1 DEF drop_secure_app_data, TypeInv, backend, list, history, AnyPass
<1>12. ASSUME NEW p \in Path, LoadWallet(p)
       PROVE  /\ n' = n + 1 /\ m_wallets' = m_wallets \cup {Loaded(p)}
              /\ Loaded(p) \in Wallet /\ Loaded(p).id = n
              /\ m_wallets' \subseteq Wallet /\ \A w \in m_wallets' : w.id < n + 1
  <2>1. n' = n + 1 /\ m_wallets' = m_wallets \cup {Loaded(p)}
    BY <1>12 DEF LoadWallet
  <2>2. Loaded(p) \in Wallet /\ Loaded(p).id = n
    BY <1>2, <1>12 DEF Loaded, Wallet
  <2>3. \A w \in m_wallets : w \in Wallet /\ w.id \in Nat /\ w.id < n
    BY <1>1 DEF TypeInv, Wallet
  <2>4. m_wallets' \subseteq Wallet
    BY <2>1, <2>2, <2>3
  <2>5. \A w \in m_wallets' : w.id < n + 1
    BY <1>2, <2>1, <2>2, <2>3
  <2> QED
    BY <2>1, <2>2, <2>4, <2>5
<1>13. ASSUME NEW p, FailToLoad(p)
       PROVE  /\ n' \in Nat /\ n <= n' /\ m_wallets' = m_wallets
              /\ m_wallets' \subseteq Wallet /\ \A w \in m_wallets' : w.id < n'
  <2>1. n' \in {n, n + 1} /\ m_wallets' = m_wallets
    BY <1>13 DEF FailToLoad
  <2>2. \A w \in m_wallets : w \in Wallet /\ w.id \in Nat /\ w.id < n
    BY <1>1 DEF TypeInv, Wallet
  <2>3. n' \in Nat /\ n <= n'
    BY <1>2, <2>1
  <2>4. \A k \in Nat : k < n => k < n'
    BY <1>2, <2>3
  <2> QED
    BY <2>1, <2>2, <2>3, <2>4
\* A larger counter keeps the types of the lists and of the calls.
<1>14. ASSUME NEW k \in Nat, n <= k
       PROVE  /\ GoodList(wallets, k)
              /\ currentWallet = NoId \/ currentWallet \in 0..(k - 1)
              /\ \A new : GoodCalls(new, k) /\ calls # <<>> /\ Reply(new) => GoodCalls(calls', k)
  <2>1. GoodList(wallets, k)
    <3>1. \A i \in 1..Len(wallets) : wallets[i].id \in Nat /\ wallets[i].id < n
      BY <1>2, ListElements DEF GoodList
    <3>2. \A i \in 1..Len(wallets) : wallets[i].id < k
      BY <1>2, <1>14, <3>1
    <3> QED
      BY <1>2, <3>2 DEF GoodList
  <2>2. currentWallet = NoId \/ currentWallet \in 0..(k - 1)
    BY <1>1, <1>2, <1>14 DEF TypeInv
  <2> QED
    BY <1>2, <1>14, <2>1, <2>2, GoodAsk DEF Reply
<1>r. CASE open_wallet
  <2> DEFINE p == Head(calls).path
  <2>1. calls # <<>> /\ p \in Path
    BY <1>7, <1>r, CallFields DEF open_wallet, Answer
  <2>2. \/ /\ LoadWallet(p)
           /\ IF Exists(p)
              THEN Reply(CloseDuplicate(p)) /\ UNCHANGED wallets
              ELSE /\ wallets' = Append(wallets, Loaded(p))
                   /\ Reply(<<[cmd |-> "run_wallet", id |-> Loaded(p).id]>>)
        \/ FailToLoad(p) /\ Reply(<<>>) /\ UNCHANGED wallets
    BY <1>r DEF open_wallet
  <2>3. GoodCalls(calls', n') /\ GoodList(wallets', n') /\ n' \in Nat /\ n <= n'
        /\ m_wallets' \subseteq Wallet /\ \A w \in m_wallets' : w.id < n'
    <3>1. CASE LoadWallet(p)
      <4>1. /\ n' = n + 1 /\ Loaded(p) \in Wallet /\ Loaded(p).id = n
            /\ m_wallets' \subseteq Wallet /\ \A w \in m_wallets' : w.id < n + 1
        BY <1>12, <2>1, <3>1
      <4>2. n \in Nat /\ n < n + 1
        BY <1>2
      <4>3. GoodCalls(CloseDuplicate(p), n + 1)
        <5>1. closeWalletCall(n, "home", 0) \in Call /\ closeWalletCall(n, "home", 0).id = n
          BY <4>2, CallsMade DEF closeWalletCall
        <5> QED
          BY <1>2, <4>1, <4>2, <5>1, GoodOne DEF CloseDuplicate
      <4>4. GoodCalls(<<[cmd |-> "run_wallet", id |-> Loaded(p).id]>>, n + 1)
        BY <1>2, <4>1, GoodOne, CallsMade
      <4>5. GoodList(wallets, n + 1) /\ GoodList(Append(wallets, Loaded(p)), n + 1)
        BY <1>2, <1>14, <4>1, GoodAppend
      <4>6. CASE Exists(p) /\ Reply(CloseDuplicate(p)) /\ UNCHANGED wallets
        BY <1>2, <1>14, <2>1, <4>1, <4>3, <4>5, <4>6
      <4>7. CASE wallets' = Append(wallets, Loaded(p))
                 /\ Reply(<<[cmd |-> "run_wallet", id |-> Loaded(p).id]>>)
        BY <1>2, <1>14, <2>1, <4>1, <4>4, <4>5, <4>7
      <4>8. FailToLoad(p) => m_wallets' = m_wallets
        BY DEF FailToLoad
      <4>9. ~FailToLoad(p)
        <5>1. Loaded(p) \in m_wallets' /\ Loaded(p) \notin m_wallets
          BY <1>1, <1>2, <1>12, <2>1, <3>1, <4>1 DEF TypeInv
        <5> QED
          BY <4>8, <5>1
      <4> QED
        BY <2>2, <4>6, <4>7, <4>9
    <3>2. CASE FailToLoad(p) /\ Reply(<<>>) /\ UNCHANGED wallets
      <4>1. /\ n' \in Nat /\ n <= n' /\ m_wallets' \subseteq Wallet
            /\ \A w \in m_wallets' : w.id < n'
        BY <1>13, <3>2
      <4>2. GoodCalls(<<>>, n')
        BY <4>1, GoodOne
      <4> QED
        BY <1>14, <2>1, <3>2, <4>1, <4>2
    <3> QED
      BY <2>2, <3>1, <3>2
  <2>4. currentWallet' = NoId \/ currentWallet' \in 0..(n' - 1)
    BY <1>14, <1>r, <2>3 DEF open_wallet
  <2> HIDE DEF n
  <2> QED
    BY <1>1, <1>r, <2>3, <2>4 DEF open_wallet, TypeInv, disk, session, history, n
<1>s. CASE open_wallet_login
  <2> DEFINE p == Head(calls).path
  <2>1. calls # <<>> /\ p \in Path /\ Reply(<<>>)
    BY <1>7, <1>s, CallFields DEF open_wallet_login, Answer
  <2>2. \/ /\ LoadWallet(p) /\ wallets' = Append(wallets, Loaded(p))
           /\ page' \in {"app", page}
           /\ currentWallet' = currentWallet \/ currentWallet' = 0
        \/ FailToLoad(p) /\ page' \in {"app", page} /\ UNCHANGED <<wallets, currentWallet>>
    BY <1>s DEF open_wallet_login, list
  <2>3. GoodCalls(calls', n') /\ GoodList(wallets', n') /\ n' \in Nat /\ n <= n'
        /\ m_wallets' \subseteq Wallet /\ (\A w \in m_wallets' : w.id < n')
        /\ (currentWallet' = NoId \/ currentWallet' \in 0..(n' - 1))
    <3>1. CASE LoadWallet(p) /\ wallets' = Append(wallets, Loaded(p))
               /\ (currentWallet' = currentWallet \/ currentWallet' = 0)
      <4>1. /\ n' = n + 1 /\ Loaded(p) \in Wallet /\ Loaded(p).id = n
            /\ m_wallets' \subseteq Wallet /\ \A w \in m_wallets' : w.id < n + 1
        BY <1>12, <2>1, <3>1
      <4>2. GoodList(Append(wallets, Loaded(p)), n + 1)
        BY <1>2, <4>1, GoodAppend
      <4>3. GoodCalls(calls', n + 1)
        BY <1>2, <1>14, <2>1, GoodOne
      <4>4. currentWallet' = NoId \/ currentWallet' \in 0..n
        BY <1>2, <1>14, <3>1
      <4>5. n + 1 - 1 = n
        BY <1>2
      <4> QED
        BY <1>2, <3>1, <4>1, <4>2, <4>3, <4>4, <4>5
    <3>2. CASE FailToLoad(p) /\ UNCHANGED <<wallets, currentWallet>>
      <4>1. /\ n' \in Nat /\ n <= n' /\ m_wallets' \subseteq Wallet
            /\ \A w \in m_wallets' : w.id < n'
        BY <1>13, <3>2
      <4>2. GoodCalls(<<>>, n')
        BY <4>1, GoodOne
      <4> QED
        BY <1>14, <2>1, <3>2, <4>1, <4>2
    <3> QED
      BY <2>2, <3>1, <3>2
  <2>4. page' \in {"app", page}
    BY <2>2
  <2> HIDE DEF n
  <2> QED
    BY <1>1, <1>s, <2>3, <2>4 DEF open_wallet_login, TypeInv, disk, history, n
<1>t. CASE run_wallet
  <2>1. GoodCalls(calls', n)
    BY <1>2, <1>4, <1>9, <1>t DEF run_wallet, Answer
  <2>2. page' \in {"app", page}
    BY <1>t DEF run_wallet
  <2>3. currentWallet' = NoId \/ currentWallet' \in 0..(n - 1)
    BY <1>1, <1>6, <1>t DEF run_wallet, Listed, TypeInv
  <2> QED
    BY <1>1, <1>t, <2>1, <2>2, <2>3 DEF run_wallet, TypeInv, disk, backend, history
<1>15. ASSUME NEW id, Close(id)
       PROVE  m_wallets' \subseteq Wallet /\ \A w \in m_wallets' : w.id < n
  BY <1>1, <1>15 DEF Close, TypeInv
<1>v. CASE close_wallet
  <2> DEFINE left == Without(wallets, currentWallet)
  <2>1. GoodList(left, n)
    BY <1>2, GoodWithout
  <2>2. left # <<>> => left[1].id \in 0..(n - 1)
    <3>1. left \in Seq(Wallet) /\ (left # <<>> => 1 \in 1..Len(left))
      BY <2>1 DEF GoodList
    <3>2. left # <<>> => left[1].id \in Nat /\ left[1].id < n
      BY <2>1, <3>1, ListElements DEF GoodList
    <3> QED
      BY <1>2, <3>2
  <2> HIDE DEF left
  <2>3. GoodCalls(calls', n) /\ GoodList(wallets', n)
        /\ (currentWallet' = NoId \/ currentWallet' \in 0..(n - 1))
    <3>1. CASE /\ wallets' = left
               /\ currentWallet' = IF left # <<>> THEN left[1].id ELSE currentWallet
               /\ Reply(storeIf(appPass, left))
      BY <1>1, <1>4, <1>9, <1>v, <2>1, <2>2, <3>1 DEF close_wallet, Answer, TypeInv
    <3>2. CASE Reply(<<>>) /\ UNCHANGED list
      BY <1>1, <1>2, <1>4, <1>v, <3>2 DEF close_wallet, Answer, TypeInv, list
    <3> QED
      BY <1>v, <3>1, <3>2 DEF close_wallet, left
  <2>4. m_wallets' \subseteq Wallet /\ \A w \in m_wallets' : w.id < n
    BY <1>v, <1>15 DEF close_wallet
  <2> QED
    BY <1>1, <1>v, <2>3, <2>4 DEF close_wallet, TypeInv, disk
<1>w. CASE store_app_data
  <2>1. GoodCalls(calls', n)
    BY <1>2, <1>4, <1>10, <1>w DEF store_app_data, Answer
  <2> QED
    BY <1>1, <1>w, <2>1 DEF store_app_data, TypeInv, backend, session, list, history
<1>x. CASE close_wallet_quit
  <2> DEFINE k    == Head(calls).index
             left == IF k <= Len(wallets) THEN RemoveAt(wallets, k) ELSE wallets
  <2>1. k \in Nat \ {0}
    BY <1>7, <1>x, CallFields DEF close_wallet_quit, Answer
  <2>2. k <= Len(wallets) => k \in 1..Len(wallets)
    BY <1>2, <2>1
  <2>3. GoodList(left, n)
    BY <1>2, <2>2, GoodRemove
  <2> HIDE DEF left
  <2>4. wallets' = left /\ Close(Head(calls).id) /\ calls # <<>>
        /\ (Reply(<<recursionCloseWallets(left)>>) \/ Reply(<<>>))
    BY <1>x DEF close_wallet_quit, left, Answer
  <2>5. GoodCalls(calls', n)
    BY <1>2, <1>4, <1>10, <2>3, <2>4
  <2>6. m_wallets' \subseteq Wallet /\ \A w \in m_wallets' : w.id < n
    BY <1>15, <2>4
  <2> QED
    BY <1>1, <1>x, <2>3, <2>4, <2>5, <2>6 DEF close_wallet_quit, TypeInv, disk, session, history
<1>y. CASE on_request_quit
  <2>1. GoodCalls(calls', n)
    BY <1>2, <1>4, <1>y DEF on_request_quit, Answer
  <2> QED
    BY <1>1, <1>y, <2>1 DEF on_request_quit, TypeInv, disk, session, list, history
<1>z. CASE Restart
  <2>1. GoodCalls(calls', 0) /\ GoodList(wallets', 0)
    <3>1. [cmd |-> "have_secure_app_data"] \in Call /\ [cmd |-> "have_secure_app_data"].cmd # "close_wallet"
      BY DEF Call
    <3>2. GoodCalls(StartUpCalls, 0)
      BY <3>1, GoodOne DEF StartUpCalls
    <3> QED
      BY <1>z, <3>2 DEF Restart, GoodList
  <2> QED
    BY <1>1, <1>z, <2>1 DEF Restart, TypeInv, disk, AnyPass
<1>16. CASE UNCHANGED vars
  BY <1>1, <1>16 DEF vars, TypeInv, disk, backend, session, list, history
<1>17. CASE logOut \/ idle
  BY <1>f, <1>17 DEF logOut, idle
<1> QED
  BY <1>1, <1>a, <1>b, <1>c, <1>d, <1>e, <1>17, <1>g, <1>h, <1>i, <1>j, <1>k, <1>l, <1>m, <1>n,
     <1>o, <1>p, <1>q, <1>r, <1>s, <1>t, <1>v, <1>w, <1>x, <1>y, <1>z, <1>16
     DEF Next, User, Backend

LEMMA TypeInvTypeOK == TypeInv => TypeOK
<1>1. SUFFICES ASSUME TypeInv PROVE TypeOK
  OBVIOUS
<1>2. file # NoFile => file.pass \in Pass \cup {Empty} /\ Range(file.wallets) \subseteq Path
  BY <1>1 DEF TypeInv, SecureFile, Range
<1>3. \A w \in m_wallets : w.id \in 0..(m_wallet_id_counter - 1) /\ w.path \in Path
  BY <1>1 DEF TypeInv, Wallet
<1>4. \A i \in DOMAIN wallets : wallets[i].id < m_wallet_id_counter
  BY <1>1 DEF TypeInv, GoodList
<1>5. currentWallet \in {NoId} \cup 0..m_wallet_id_counter
  BY <1>1 DEF TypeInv
<1>6. {appData, done, appLogin, dataIsLoaded, countdown, onQuitRequest} \subseteq BOOLEAN
  BY <1>1, Zenon DEF TypeInv
<1>7. {m_master_password, appPass} \cup entered \subseteq Pass \cup {Empty}
      /\ page \in {"start", "reg", "auth", "app"}
  BY <1>1 DEF TypeInv, AnyPass
<1> QED
  BY <1>2, <1>3, <1>4, <1>5, <1>6, <1>7 DEF TypeOK

LEMMA TypeInvariant == Spec => []TypeInv
BY InitType, TypeStep, PTL DEF Spec

\* Type correctness: the ids are those that the backend has given, and nothing
\* but wallet files of the user gets into the secure file (wallets_manager.cpp).
THEOREM TypeCorrect == Spec => []TypeOK
BY TypeInvariant, TypeInvTypeOK, PTL

(***************************************************************************)
(* The passwords.                                                          *)
(***************************************************************************)

PasswordCalls == UnlockingCalls \cup
  {"have_secure_app_data", "store_secure_app_data", "drop_secure_app_data"}

\* The first call of a start is the first of the queue, and nothing that needs
\* its answer happens before.
StartingUp ==
  /\ \A i \in DOMAIN calls : calls[i].cmd = "have_secure_app_data" => i = 1
  /\ Pending("have_secure_app_data") =>
       /\ page \in {"start", "app"} /\ ~appLogin /\ ~dataIsLoaded /\ ~countdown
       /\ appPass = Empty
       /\ \A i \in DOMAIN calls : calls[i].cmd \in PasswordCalls =>
             calls[i].cmd = "have_secure_app_data"

\* On the page that asks for the first password only that one is on its way.
Registering ==
  page = "reg" =>
    /\ ~appLogin /\ ~dataIsLoaded /\ ~countdown
    /\ \A i \in DOMAIN calls :
         /\ calls[i].cmd \notin {"check_master_password", "get_secure_app_data", "drop_secure_app_data"}
         /\ calls[i].cmd = "set_master_password" => calls[i].then = "reg"

\* The lock screen: what may be on its way while it is shown.
Locked ==
  /\ ~unlocking /\ Pending("set_master_password") => page # "auth"
  /\ ~unlocking /\ dataIsLoaded /\ Pending("set_master_password") => appLogin
  /\ page = "auth" /\ appLogin => dataIsLoaded
  /\ Pending("check_master_password") \/ countdown => dataIsLoaded
  /\ Pending("drop_secure_app_data") => unlocking

\* The password of a call that unlocks was entered since the last lock, and no
\* check overtakes a change.
Entered ==
  ~unlocking =>
    /\ \A i \in DOMAIN calls : calls[i].cmd \in UnlockingCalls => calls[i].pass \in entered
    /\ \A i, j \in DOMAIN calls :
         calls[i].cmd = "set_master_password" /\ calls[j].cmd = "check_master_password" => j < i
    /\ appLogin /\ dataIsLoaded => m_master_password \in entered

\* A session without a file: what is to be stored waits for the first password.
Fileless ==
  /\ ~unlocking /\ ~dataIsLoaded
  /\ appLogin \/ page = "reg" \/ Pending("set_master_password")
  => /\ file = NoFile
     /\ \A j \in DOMAIN calls : calls[j].cmd = "store_secure_app_data" =>
          \E i \in DOMAIN calls : i < j /\ calls[i].cmd = "set_master_password"
     /\ appPass # Empty => Pending("set_master_password")

\* A file under an old password is stored again before the next check.
Outdated ==
  ~unlocking /\ dataIsLoaded /\ file # NoFile /\ file.pass # m_master_password =>
    \E j \in DOMAIN calls :
      /\ calls[j].cmd = "store_secure_app_data"
      /\ \A i \in DOMAIN calls : i < j => calls[i].cmd # "check_master_password"

PassInv == /\ StartingUp /\ Registering /\ Locked /\ Entered /\ Fileless /\ Outdated
           /\ FileUnderMaster /\ UnlockedByPassword

\* Where the calls of the old queue are in the new one, and the other way round.
LEMMA ShiftIndex ==
  ASSUME NEW s \in Seq(Call), NEW new \in Seq(Call), NEW d \in {0, 1}, NEW t, Shift(s, t, d, new)
  PROVE  /\ \A i \in DOMAIN s : i > d => i - d \in DOMAIN t /\ t[i - d] = s[i]
         /\ \A i \in DOMAIN t : \/ i + d \in DOMAIN s /\ t[i] = s[i + d]
                                \/ i + d > Len(s) /\ \E k \in DOMAIN new : t[i] = new[k]
         /\ \A k \in DOMAIN new : Len(s) - d + k \in DOMAIN t /\ t[Len(s) - d + k] = new[k]
         /\ t \in Seq(Call)
<1>1. /\ Len(s) \in Nat /\ Len(new) \in Nat /\ Len(s) - d \in Nat /\ t \in Seq(Call)
      /\ Len(t) = Len(s) - d + Len(new)
      /\ DOMAIN s = 1..Len(s) /\ DOMAIN t = 1..Len(t) /\ DOMAIN new = 1..Len(new)
      /\ \A i \in 1..(Len(s) - d) : t[i] = s[i + d]
      /\ \A i \in 1..Len(new) : t[Len(s) - d + i] = new[i]
  BY DEF Shift
<1>2. ASSUME NEW i \in DOMAIN s, i > d
      PROVE  i - d \in DOMAIN t /\ t[i - d] = s[i]
  <2>1. i - d \in 1..(Len(s) - d) /\ i - d \in DOMAIN t /\ i - d + d = i
    BY <1>1, <1>2
  <2> QED
    BY <1>1, <2>1
<1>3. ASSUME NEW i \in DOMAIN t
      PROVE  \/ i + d \in DOMAIN s /\ t[i] = s[i + d]
             \/ i + d > Len(s) /\ \E k \in DOMAIN new : t[i] = new[k]
  <2>1. CASE i <= Len(s) - d
    <3>1. i \in 1..(Len(s) - d) /\ i + d \in 1..Len(s)
      BY <1>1, <1>3, <2>1
    <3> QED
      BY <1>1, <3>1
  <2>2. CASE ~(i <= Len(s) - d)
    <3> DEFINE k == i - (Len(s) - d)
    <3>1. k \in 1..Len(new) /\ Len(s) - d + k = i /\ i + d > Len(s)
      BY <1>1, <1>3, <2>2
    <3> HIDE DEF k
    <3>2. t[i] = new[k] /\ k \in DOMAIN new
      BY <1>1, <3>1
    <3> QED
      BY <3>1, <3>2
  <2> QED
    BY <2>1, <2>2
<1>4. ASSUME NEW k \in DOMAIN new
      PROVE  Len(s) - d + k \in DOMAIN t /\ t[Len(s) - d + k] = new[k]
  BY <1>1, <1>4
<1> QED
  BY <1>1, <1>2, <1>3, <1>4

\* Calls about wallets and the lists that are stored for them disturb no password.
LEMMA QuietStep ==
  ASSUME TypeInv, PassInv, NEW d \in {0, 1}, NEW new \in Seq(Call), Shift(calls, calls', d, new),
         d = 1 => calls[1].cmd \notin PasswordCalls,
         \A k \in DOMAIN new : \/ new[k].cmd \notin PasswordCalls
                               \/ new[k].cmd = "store_secure_app_data" /\ appPass # Empty,
         UNCHANGED <<file, m_master_password, appPass, appLogin, dataIsLoaded, countdown,
                     entered, unlocking>>,
         page' \in {page, "app"}
  PROVE  PassInv'
<1> DEFINE Quiet(c) == c.cmd \notin PasswordCalls
                       \/ (c.cmd = "store_secure_app_data" /\ appPass # Empty)
<1>1. calls \in Seq(Call) /\ DOMAIN calls = 1..Len(calls) /\ Len(calls) \in Nat
  BY DEF TypeInv, GoodCalls
<1>2. \A i \in DOMAIN calls : calls[i].cmd \in PasswordCalls =>
         i - d \in DOMAIN calls' /\ calls'[i - d] = calls[i]
  <2>1. \A i \in DOMAIN calls : i > d => i - d \in DOMAIN calls' /\ calls'[i - d] = calls[i]
    BY <1>1, ShiftIndex
  <2>2. \A i \in DOMAIN calls : calls[i].cmd \in PasswordCalls => i > d
    BY <1>1
  <2> QED
    BY <2>1, <2>2
<1>3. \A i \in DOMAIN calls' : \/ i + d \in DOMAIN calls /\ calls'[i] = calls[i + d]
                               \/ i + d > Len(calls) /\ Quiet(calls'[i])
  <2>1. \A i \in DOMAIN calls' :
           \/ i + d \in DOMAIN calls /\ calls'[i] = calls[i + d]
           \/ i + d > Len(calls) /\ \E k \in DOMAIN new : calls'[i] = new[k]
    BY <1>1, ShiftIndex
  <2> QED
    BY <2>1
<1>4. DOMAIN calls' \subseteq Nat \ {0} /\ DOMAIN calls \subseteq Nat \ {0}
  BY <1>1 DEF Shift
<1>5. StartingUp'
  BY <1>2, <1>3, <1>4 DEF PassInv, StartingUp, Pending, PasswordCalls
<1>6. Registering'
  BY <1>3 DEF PassInv, Registering, PasswordCalls, UnlockingCalls
<1>7. \A k \in PasswordCalls \ {"store_secure_app_data"} : Pending(k)' <=> Pending(k)
  BY <1>2, <1>3 DEF Pending
<1>8. Locked'
  BY <1>7 DEF PassInv, Locked, PasswordCalls, UnlockingCalls
<1>9. Entered'
  <2>1. SUFFICES ASSUME ~unlocking PROVE Entered'
    BY DEF Entered
  <2>2. \A i \in DOMAIN calls' : calls'[i].cmd \in UnlockingCalls => calls'[i].pass \in entered
    BY <1>3, <2>1 DEF PassInv, Entered, PasswordCalls, UnlockingCalls
  <2>3. \A i, j \in DOMAIN calls' : calls'[i].cmd = "set_master_password"
           /\ calls'[j].cmd = "check_master_password" => j < i
    BY <1>3, <1>4, <2>1 DEF PassInv, Entered, PasswordCalls, UnlockingCalls
  <2> QED
    BY <2>2, <2>3 DEF PassInv, Entered
<1>10. Fileless'
  <2>1. SUFFICES ASSUME ~unlocking, ~dataIsLoaded,
                        appLogin \/ page = "reg" \/ Pending("set_master_password")
                 PROVE  /\ file = NoFile
                        /\ \A j \in DOMAIN calls' : calls'[j].cmd = "store_secure_app_data" =>
                             \E i \in DOMAIN calls' : i < j /\ calls'[i].cmd = "set_master_password"
                        /\ appPass # Empty => Pending("set_master_password")'
    BY <1>7 DEF Fileless, PasswordCalls, UnlockingCalls
  <2>2. /\ file = NoFile /\ (appPass # Empty => Pending("set_master_password"))
        /\ \A j \in DOMAIN calls : calls[j].cmd = "store_secure_app_data" =>
              \E i \in DOMAIN calls : i < j /\ calls[i].cmd = "set_master_password"
    BY <2>1 DEF PassInv, Fileless
  <2>3. appPass # Empty => Pending("set_master_password")'
    BY <1>7, <2>2 DEF PasswordCalls, UnlockingCalls
  <2>4. ASSUME NEW j \in DOMAIN calls', calls'[j].cmd = "store_secure_app_data"
        PROVE  \E i \in DOMAIN calls' : i < j /\ calls'[i].cmd = "set_master_password"
    <3>1. PICK i \in DOMAIN calls : i < j + d /\ calls[i].cmd = "set_master_password"
      <4>1. CASE j + d \in DOMAIN calls /\ calls'[j] = calls[j + d]
        BY <2>2, <2>4, <4>1
      <4>2. CASE j + d > Len(calls) /\ appPass # Empty
        <5>1. PICK i \in DOMAIN calls : calls[i].cmd = "set_master_password"
          BY <2>2, <4>2 DEF Pending
        <5>2. i < j + d
          BY <1>1, <1>4, <4>2
        <5> QED
          BY <5>1, <5>2
      <4> QED
        BY <1>3, <2>4, <4>1, <4>2 DEF PasswordCalls
    <3>2. i - d \in DOMAIN calls' /\ calls'[i - d] = calls[i]
      BY <1>2, <3>1 DEF PasswordCalls, UnlockingCalls
    <3>3. i - d < j
      BY <1>4, <3>1
    <3> QED
      BY <3>1, <3>2, <3>3
  <2> QED
    BY <2>2, <2>3, <2>4
<1>11. Outdated'
  <2>1. SUFFICES ASSUME ~unlocking, dataIsLoaded, file # NoFile, file.pass # m_master_password
                 PROVE  \E j \in DOMAIN calls' :
                          /\ calls'[j].cmd = "store_secure_app_data"
                          /\ \A i \in DOMAIN calls' : i < j => calls'[i].cmd # "check_master_password"
    BY DEF Outdated
  <2>2. PICK j \in DOMAIN calls :
                          /\ calls[j].cmd = "store_secure_app_data"
                          /\ \A i \in DOMAIN calls : i < j => calls[i].cmd # "check_master_password"
    BY <2>1 DEF PassInv, Outdated
  <2>3. j - d \in DOMAIN calls' /\ calls'[j - d] = calls[j]
    BY <1>2, <2>2 DEF PasswordCalls
  <2>4. \A i \in DOMAIN calls' : i < j - d => calls'[i].cmd # "check_master_password"
    BY <1>3, <1>4, <2>2, <2>3 DEF PasswordCalls, UnlockingCalls
  <2> QED
    BY <2>2, <2>3, <2>4
<1>12. FileUnderMaster'
  <2>1. Pending("store_secure_app_data") => Pending("store_secure_app_data")'
    BY <1>2 DEF Pending, PasswordCalls
  <2> QED
    BY <2>1 DEF PassInv, FileUnderMaster
<1>13. UnlockedByPassword'
  BY DEF PassInv, UnlockedByPassword
<1> QED
  BY <1>5, <1>6, <1>8, <1>9, <1>10, <1>11, <1>12, <1>13 DEF PassInv

\* The queue after a call was made, and after the first call was answered.
LEMMA Asked ==
  ASSUME NEW s \in Seq(Call), NEW c \in Call, NEW t, t = s \o <<c>>
  PROVE  /\ \A i \in DOMAIN s : i \in DOMAIN t /\ t[i] = s[i]
         /\ \A i \in DOMAIN t : (i \in DOMAIN s /\ t[i] = s[i]) \/ (i > Len(s) /\ t[i] = c)
         /\ Len(s) + 1 \in DOMAIN t /\ t[Len(s) + 1] = c
         /\ DOMAIN t \subseteq Nat \ {0} /\ DOMAIN s = 1..Len(s) /\ Len(s) \in Nat
OBVIOUS

LEMMA Replied ==
  ASSUME NEW s \in Seq(Call), s # <<>>, NEW new \in Seq(Call), NEW t, t = Tail(s) \o new
  PROVE  /\ 1 \in DOMAIN s /\ Head(s) = s[1] /\ s[1] \in Call
         /\ \A i \in DOMAIN s : i # 1 => i - 1 \in DOMAIN t /\ t[i - 1] = s[i]
         /\ \A i \in DOMAIN t : \/ i + 1 \in DOMAIN s /\ t[i] = s[i + 1]
                                \/ i + 1 > Len(s) /\ \E k \in DOMAIN new : t[i] = new[k]
         /\ \A k \in DOMAIN new : Len(s) - 1 + k \in DOMAIN t /\ t[Len(s) - 1 + k] = new[k]
         /\ DOMAIN t \subseteq Nat \ {0} /\ DOMAIN s = 1..Len(s) /\ Len(s) \in Nat \ {0}
<1>1. Shift(s, t, 1, new)
  BY ReplyShift
<1>2. DOMAIN s = 1..Len(s) /\ Len(s) \in Nat \ {0} /\ Head(s) = s[1] /\ s[1] \in Call
  OBVIOUS
<1>3. \A i \in DOMAIN s : i # 1 => i > 1
  BY <1>2
<1>4. t \in Seq(Call) /\ DOMAIN t \subseteq Nat \ {0}
  BY <1>1 DEF Shift
<1>5. \A i \in DOMAIN s : i > 1 => i - 1 \in DOMAIN t /\ t[i - 1] = s[i]
  BY <1>1, ShiftIndex
<1>6. \A i \in DOMAIN t : \/ i + 1 \in DOMAIN s /\ t[i] = s[i + 1]
                          \/ i + 1 > Len(s) /\ \E k \in DOMAIN new : t[i] = new[k]
  BY <1>1, ShiftIndex
<1>7. \A k \in DOMAIN new : Len(s) - 1 + k \in DOMAIN t /\ t[Len(s) - 1 + k] = new[k]
  BY <1>1, ShiftIndex
<1> QED
  BY <1>2, <1>3, <1>4, <1>5, <1>6, <1>7

AnsweredBy(s, t, c) ==
  /\ 1 \in DOMAIN s /\ Head(s) = s[1] /\ s[1] \in Call
  /\ \A i \in DOMAIN s : i # 1 => i - 1 \in DOMAIN t /\ t[i - 1] = s[i]
  /\ \A i \in DOMAIN t : \/ i + 1 \in DOMAIN s /\ t[i] = s[i + 1]
                         \/ i + 1 > Len(s) /\ t[i] = c
  /\ Len(s) \in DOMAIN t /\ t[Len(s)] = c
  /\ DOMAIN t \subseteq Nat \ {0} /\ DOMAIN s = 1..Len(s) /\ Len(s) \in Nat \ {0}

LEMMA RepliedOne ==
  ASSUME NEW s \in Seq(Call), s # <<>>, NEW c \in Call
  PROVE  AnsweredBy(s, Tail(s) \o <<c>>, c)
<1> DEFINE new == <<c>>
           t   == Tail(s) \o <<c>>
<1>1. new \in Seq(Call) /\ DOMAIN new = {1} /\ new[1] = c /\ Len(new) = 1
  OBVIOUS
<1>2. Shift(s, t, 1, new)
  BY <1>1, ReplyShift
<1> HIDE DEF new, t
<1>3. DOMAIN s = 1..Len(s) /\ Len(s) \in Nat \ {0} /\ Head(s) = s[1] /\ s[1] \in Call
      /\ 1 \in DOMAIN s
  OBVIOUS
<1>4. t \in Seq(Call) /\ DOMAIN t \subseteq Nat \ {0}
  BY <1>2 DEF Shift
<1>5. \A i \in DOMAIN s : i > 1 => i - 1 \in DOMAIN t /\ t[i - 1] = s[i]
  BY <1>1, <1>2, ShiftIndex
<1>6. \A i \in DOMAIN t : \/ i + 1 \in DOMAIN s /\ t[i] = s[i + 1]
                          \/ i + 1 > Len(s) /\ \E k \in DOMAIN new : t[i] = new[k]
  BY <1>1, <1>2, ShiftIndex
<1>7. t[Len(s) - 1 + 1] = c /\ Len(t) = Len(s) - 1 + 1
  BY <1>1, <1>2 DEF Shift
<1>8. Len(s) - 1 + 1 = Len(s) /\ \A i \in DOMAIN s : i # 1 => i > 1
  BY <1>3
<1>9. Len(s) \in DOMAIN t /\ t[Len(s)] = c
  BY <1>3, <1>4, <1>7, <1>8
<1>10. \A i \in DOMAIN t : \/ i + 1 \in DOMAIN s /\ t[i] = s[i + 1]
                           \/ i + 1 > Len(s) /\ t[i] = c
  BY <1>1, <1>6
<1> QED
  BY <1>3, <1>4, <1>5, <1>8, <1>9, <1>10 DEF AnsweredBy, t

LEMMA InitPass == Init => PassInv
<1>1. SUFFICES ASSUME Init PROVE PassInv
  OBVIOUS
<1>2. DOMAIN calls = {1} /\ calls[1].cmd = "have_secure_app_data"
  BY <1>1 DEF Init, StartUpCalls
<1> QED
  BY <1>1, <1>2 DEF Init, PassInv, StartingUp, Registering, Locked, Entered, Fileless, Outdated,
     FileUnderMaster, UnlockedByPassword, Pending, PasswordCalls, UnlockingCalls

LEMMA PassStep == TypeInv /\ PassInv /\ [Next]_vars => PassInv'
<1>1. SUFFICES ASSUME TypeInv, PassInv, [Next]_vars PROVE PassInv'
  OBVIOUS
<1>2. calls \in Seq(Call) /\ <<>> \in Seq(Call) /\ DOMAIN calls = 1..Len(calls) /\ Len(calls) \in Nat
  BY <1>1 DEF TypeInv, GoodCalls
<1>3. Empty \notin Pass
  BY SessionAssumption
<1>u. ASSUME UserActs
      PROVE  UNCHANGED <<file, m_master_password>>
  BY <1>u DEF UserActs, disk, backend
<1>a. CASE onSubmitCreatePass
  <2>1. PICK p \in Pass : /\ appPass' = p /\ Enter(p)
                          /\ Ask(<<[cmd |-> "set_master_password", pass |-> p, then |-> "reg"]>>)
    BY <1>a DEF onSubmitCreatePass
  <2> DEFINE c == [cmd |-> "set_master_password", pass |-> p, then |-> "reg"]
  <2>2. c \in Call /\ c.cmd = "set_master_password" /\ c.pass = p /\ c.then = "reg"
    BY CallsMade
  <2> HIDE DEF c
  <2>3. calls' = calls \o <<c>>
    BY <2>1 DEF Ask, c
  <2>4. /\ \A i \in DOMAIN calls : i \in DOMAIN calls' /\ calls'[i] = calls[i]
        /\ \A i \in DOMAIN calls' : (i \in DOMAIN calls /\ calls'[i] = calls[i])
                                    \/ (i > Len(calls) /\ calls'[i] = c)
        /\ Len(calls) + 1 \in DOMAIN calls' /\ calls'[Len(calls) + 1] = c
        /\ DOMAIN calls' \subseteq Nat \ {0}
    BY <1>2, <2>2, <2>3, Asked
  <2>5. /\ page = "reg" /\ page' = page /\ appLogin' = appLogin /\ dataIsLoaded' = dataIsLoaded
        /\ countdown' = countdown /\ unlocking' = unlocking /\ appPass' # Empty
        /\ entered' = entered \cup {p} /\ file' = file /\ m_master_password' = m_master_password
    BY <1>3, <1>a, <1>u, <2>1 DEF onSubmitCreatePass, Enter
  <2>6. ~appLogin /\ ~dataIsLoaded /\ ~Pending("have_secure_app_data")
    BY <1>1, <2>5 DEF PassInv, StartingUp, Registering
  <2>10. StartingUp'
    BY <1>1, <1>2, <2>2, <2>4, <2>5, <2>6 DEF PassInv, StartingUp, Pending, PasswordCalls, UnlockingCalls
  <2>11. Registering'
    BY <1>1, <1>2, <2>2, <2>4, <2>5, <2>6 DEF PassInv, Registering, Pending, PasswordCalls, UnlockingCalls
  <2>12. Locked'
    BY <1>1, <1>2, <2>2, <2>4, <2>5, <2>6 DEF PassInv, Locked, Pending, PasswordCalls, UnlockingCalls
  <2>13. Entered'
    BY <1>1, <1>2, <2>2, <2>4, <2>5, <2>6 DEF PassInv, Entered, Pending, PasswordCalls, UnlockingCalls
  <2>14. Fileless'
    BY <1>1, <1>2, <2>2, <2>4, <2>5, <2>6 DEF PassInv, Fileless, Pending, PasswordCalls, UnlockingCalls
  <2>15. Outdated'
    BY <1>1, <1>2, <2>2, <2>4, <2>5, <2>6 DEF PassInv, Outdated, Pending, PasswordCalls, UnlockingCalls
  <2>16. FileUnderMaster'
    BY <1>1, <1>2, <2>2, <2>4, <2>5, <2>6 DEF PassInv, FileUnderMaster, Pending, PasswordCalls, UnlockingCalls
  <2>17. UnlockedByPassword'
    BY <1>1, <1>2, <2>2, <2>4, <2>5, <2>6 DEF PassInv, UnlockedByPassword, Pending, PasswordCalls, UnlockingCalls
  <2> QED
    BY <2>10, <2>11, <2>12, <2>13, <2>14, <2>15, <2>16, <2>17 DEF PassInv
<1>b. CASE onSkipCreatePass
  <2>5. /\ page = "reg" /\ page' = "app" /\ appLogin' = TRUE /\ dataIsLoaded' = dataIsLoaded
        /\ countdown' = countdown /\ unlocking' = unlocking /\ appPass' = Empty
        /\ entered' = entered /\ file' = file /\ m_master_password' = m_master_password
        /\ calls' = calls
    BY <1>b, <1>u DEF onSkipCreatePass
  <2>6. ~appLogin /\ ~dataIsLoaded /\ ~Pending("have_secure_app_data")
    BY <1>1, <2>5 DEF PassInv, StartingUp, Registering
  <2>10. StartingUp'
    BY <1>1, <2>5, <2>6 DEF PassInv, StartingUp, Pending, PasswordCalls, UnlockingCalls
  <2>11. Registering'
    BY <1>1, <2>5, <2>6 DEF PassInv, Registering, Pending, PasswordCalls, UnlockingCalls
  <2>12. Locked'
    BY <1>1, <2>5, <2>6 DEF PassInv, Locked, Pending, PasswordCalls, UnlockingCalls
  <2>13. Entered'
    BY <1>1, <2>5, <2>6 DEF PassInv, Entered, Pending, PasswordCalls, UnlockingCalls
  <2>14. Fileless'
    BY <1>1, <2>5, <2>6 DEF PassInv, Fileless, Pending, PasswordCalls, UnlockingCalls
  <2>15. Outdated'
    BY <1>1, <2>5, <2>6 DEF PassInv, Outdated, Pending, PasswordCalls, UnlockingCalls
  <2>16. FileUnderMaster'
    BY <1>1, <2>5, <2>6 DEF PassInv, FileUnderMaster, Pending, PasswordCalls, UnlockingCalls
  <2>17. UnlockedByPassword'
    BY <1>1, <2>5, <2>6 DEF PassInv, UnlockedByPassword, Pending, PasswordCalls, UnlockingCalls
  <2> QED
    BY <2>10, <2>11, <2>12, <2>13, <2>14, <2>15, <2>16, <2>17 DEF PassInv
<1>c. CASE onSubmitAuthPass
  <2> DEFINE k == IF dataIsLoaded THEN "check_master_password" ELSE "get_secure_app_data"
  <2>1. PICK p \in AnyPass : /\ appPass' = p /\ Enter(p) /\ Ask(<<[cmd |-> k, pass |-> p]>>)
    BY <1>c DEF onSubmitAuthPass, AnyPass
  <2> DEFINE c == [cmd |-> k, pass |-> p]
  <2>2. c \in Call /\ c.cmd = k /\ c.pass = p
    BY CallsMade
  <2> HIDE DEF c
  <2>3. calls' = calls \o <<c>>
    BY <2>1 DEF Ask, c
  <2>4. /\ \A i \in DOMAIN calls : i \in DOMAIN calls' /\ calls'[i] = calls[i]
        /\ \A i \in DOMAIN calls' : (i \in DOMAIN calls /\ calls'[i] = calls[i])
                                    \/ (i > Len(calls) /\ calls'[i] = c)
        /\ Len(calls) + 1 \in DOMAIN calls' /\ calls'[Len(calls) + 1] = c
        /\ DOMAIN calls' \subseteq Nat \ {0}
    BY <1>2, <2>2, <2>3, Asked
  <2>5. /\ page = "auth" /\ page' = page /\ appLogin' = appLogin /\ dataIsLoaded' = dataIsLoaded
        /\ countdown' = countdown /\ unlocking' = unlocking
        /\ entered' = entered \cup {p} /\ file' = file /\ m_master_password' = m_master_password
    BY <1>c, <1>u, <2>1 DEF onSubmitAuthPass, Enter
  <2>6. /\ ~Pending("have_secure_app_data") /\ (appLogin => dataIsLoaded)
        /\ ~unlocking => ~Pending("set_master_password")
    BY <1>1, <2>5 DEF PassInv, StartingUp, Locked
  <2>10. StartingUp'
    BY <1>1, <1>2, <2>2, <2>4, <2>5, <2>6 DEF PassInv, StartingUp, Pending, PasswordCalls, UnlockingCalls
  <2>11. Registering'
    BY <1>1, <1>2, <2>2, <2>4, <2>5, <2>6 DEF PassInv, Registering, Pending, PasswordCalls, UnlockingCalls
  <2>12. Locked'
    BY <1>1, <1>2, <2>2, <2>4, <2>5, <2>6 DEF PassInv, Locked, Pending, PasswordCalls, UnlockingCalls
  <2>13. Entered'
    BY <1>1, <1>2, <2>2, <2>4, <2>5, <2>6 DEF PassInv, Entered, Pending, PasswordCalls, UnlockingCalls
  <2>14. Fileless'
    BY <1>1, <1>2, <2>2, <2>4, <2>5, <2>6 DEF PassInv, Fileless, Pending, PasswordCalls, UnlockingCalls
  <2>15. Outdated'
    BY <1>1, <1>2, <2>2, <2>4, <2>5, <2>6 DEF PassInv, Outdated, Pending, PasswordCalls, UnlockingCalls
  <2>16. FileUnderMaster'
    BY <1>1, <1>2, <2>2, <2>4, <2>5, <2>6 DEF PassInv, FileUnderMaster, Pending, PasswordCalls, UnlockingCalls
  <2>17. UnlockedByPassword'
    BY <1>1, <1>2, <2>2, <2>4, <2>5, <2>6 DEF PassInv, UnlockedByPassword, Pending, PasswordCalls, UnlockingCalls
  <2> QED
    BY <2>10, <2>11, <2>12, <2>13, <2>14, <2>15, <2>16, <2>17 DEF PassInv
<1>d. CASE dropSecureAppData
  <2> DEFINE c == [cmd |-> "drop_secure_app_data"]
  <2>2. c \in Call /\ c.cmd = "drop_secure_app_data"
    BY CallsMade
  <2>3. calls' = calls \o <<c>>
    BY <1>d DEF dropSecureAppData, Ask
  <2> HIDE DEF c
  <2>4. /\ \A i \in DOMAIN calls : i \in DOMAIN calls' /\ calls'[i] = calls[i]
        /\ \A i \in DOMAIN calls' : (i \in DOMAIN calls /\ calls'[i] = calls[i])
                                    \/ (i > Len(calls) /\ calls'[i] = c)
        /\ DOMAIN calls' \subseteq Nat \ {0}
    BY <1>2, <2>2, <2>3, Asked
  <2>5. /\ page = "auth" /\ page' = page /\ appLogin' = appLogin /\ dataIsLoaded' = dataIsLoaded
        /\ countdown' = countdown /\ unlocking' = TRUE
        /\ file' = file /\ m_master_password' = m_master_password
    BY <1>d, <1>u DEF dropSecureAppData, session
  <2>6. ~Pending("have_secure_app_data")
    BY <1>1, <2>5 DEF PassInv, StartingUp
  <2>10. StartingUp'
    BY <1>1, <1>2, <2>2, <2>4, <2>5, <2>6 DEF PassInv, StartingUp, Pending, PasswordCalls, UnlockingCalls
  <2>11. Registering'
    BY <1>1, <1>2, <2>2, <2>4, <2>5, <2>6 DEF PassInv, Registering, Pending, PasswordCalls, UnlockingCalls
  <2>12. Locked'
    BY <1>1, <1>2, <2>2, <2>4, <2>5, <2>6 DEF PassInv, Locked, Pending, PasswordCalls, UnlockingCalls
  <2>13. Entered'
    BY <1>1, <1>2, <2>2, <2>4, <2>5, <2>6 DEF PassInv, Entered, Pending, PasswordCalls, UnlockingCalls
  <2>14. Fileless'
    BY <1>1, <1>2, <2>2, <2>4, <2>5, <2>6 DEF PassInv, Fileless, Pending, PasswordCalls, UnlockingCalls
  <2>15. Outdated'
    BY <1>1, <1>2, <2>2, <2>4, <2>5, <2>6 DEF PassInv, Outdated, Pending, PasswordCalls, UnlockingCalls
  <2>16. FileUnderMaster'
    BY <1>1, <1>2, <2>2, <2>4, <2>5, <2>6 DEF PassInv, FileUnderMaster, Pending, PasswordCalls, UnlockingCalls
  <2>17. UnlockedByPassword'
    BY <1>1, <1>2, <2>2, <2>4, <2>5, <2>6 DEF PassInv, UnlockedByPassword, Pending, PasswordCalls, UnlockingCalls
  <2> QED
    BY <2>10, <2>11, <2>12, <2>13, <2>14, <2>15, <2>16, <2>17 DEF PassInv
<1>e. CASE onSubmitChangePass
  <2>1. PICK p \in AnyPass : /\ appPass' = p /\ Enter(p)
                             /\ Ask(IF p = Empty THEN <<>>
                                    ELSE <<[cmd |-> "set_master_password", pass |-> p, then |-> "change"]>>)
    BY <1>e DEF onSubmitChangePass, AnyPass
  <2>2. /\ page = "app" /\ page' = page /\ appLogin /\ appLogin' = appLogin
        /\ dataIsLoaded' = dataIsLoaded /\ countdown' = countdown /\ unlocking' = unlocking
        /\ entered' = entered \cup {p} /\ file' = file /\ m_master_password' = m_master_password
    BY <1>e, <1>u, <2>1 DEF onSubmitChangePass, Enter
  <2>3. ~Pending("have_secure_app_data")
    BY <1>1, <2>2 DEF PassInv, StartingUp
  <2>4. CASE p = Empty
    <3>1. calls' = calls
      BY <1>2, <2>1, <2>4 DEF Ask
    <3> QED
      BY <1>1, <2>1, <2>2, <2>3, <2>4, <3>1 DEF PassInv, StartingUp, Registering, Locked, Entered,
         Fileless, Outdated, FileUnderMaster, UnlockedByPassword, Pending
  <2>5. CASE p # Empty
    <3> DEFINE c == [cmd |-> "set_master_password", pass |-> p, then |-> "change"]
    <3>1. c \in Call /\ c.cmd = "set_master_password" /\ c.pass = p
      BY <2>5, CallsMade DEF AnyPass
    <3>2. calls' = calls \o <<c>>
      BY <2>1, <2>5 DEF Ask
    <3> HIDE DEF c
    <3>3. /\ \A i \in DOMAIN calls : i \in DOMAIN calls' /\ calls'[i] = calls[i]
          /\ \A i \in DOMAIN calls' : (i \in DOMAIN calls /\ calls'[i] = calls[i])
                                      \/ (i > Len(calls) /\ calls'[i] = c)
          /\ Len(calls) + 1 \in DOMAIN calls' /\ calls'[Len(calls) + 1] = c
          /\ DOMAIN calls' \subseteq Nat \ {0}
      BY <1>2, <3>1, <3>2, Asked
    <3>10. StartingUp'
      BY <1>1, <1>2, <2>1, <2>2, <2>3, <3>1, <3>3 DEF PassInv, StartingUp, Pending, PasswordCalls, UnlockingCalls
    <3>11. Registering'
      BY <1>1, <1>2, <2>1, <2>2, <2>3, <3>1, <3>3 DEF PassInv, Registering, Pending, PasswordCalls, UnlockingCalls
    <3>12. Locked'
      BY <1>1, <1>2, <2>1, <2>2, <2>3, <3>1, <3>3 DEF PassInv, Locked, Pending, PasswordCalls, UnlockingCalls
    <3>13. Entered'
      BY <1>1, <1>2, <2>1, <2>2, <2>3, <3>1, <3>3 DEF PassInv, Entered, Pending, PasswordCalls, UnlockingCalls
    <3>14. Fileless'
      BY <1>1, <1>2, <2>1, <2>2, <2>3, <3>1, <3>3 DEF PassInv, Fileless, Pending, PasswordCalls, UnlockingCalls
    <3>15. Outdated'
      BY <1>1, <1>2, <2>1, <2>2, <2>3, <3>1, <3>3 DEF PassInv, Outdated, Pending, PasswordCalls, UnlockingCalls
    <3>16. FileUnderMaster'
      BY <1>1, <1>2, <2>1, <2>2, <2>3, <3>1, <3>3 DEF PassInv, FileUnderMaster, Pending, PasswordCalls, UnlockingCalls
    <3>17. UnlockedByPassword'
      BY <1>1, <1>2, <2>1, <2>2, <2>3, <3>1, <3>3 DEF PassInv, UnlockedByPassword, Pending, PasswordCalls, UnlockingCalls
    <3> QED
      BY <3>10, <3>11, <3>12, <3>13, <3>14, <3>15, <3>16, <3>17 DEF PassInv
  <2> QED
    BY <2>4, <2>5
<1>f. CASE logOut \/ idle
  <2>1. /\ appLogin' = FALSE /\ appPass' = Empty /\ countdown' = FALSE /\ page' = "auth"
        /\ unlocking' = (unlocking \/ \E i \in DOMAIN calls : calls[i].cmd \in UnlockingCalls)
        /\ file' = file /\ m_master_password' = m_master_password
        /\ dataIsLoaded' = dataIsLoaded /\ calls' = calls
    BY <1>f DEF logOut, idle, Lock, disk, backend
  <2>2. ~Pending("have_secure_app_data")
    BY <1>1, <1>f DEF logOut, idle, PassInv, StartingUp
  <2>3. ~unlocking' => ~unlocking /\ \A i \in DOMAIN calls : calls[i].cmd \notin UnlockingCalls
    BY <2>1
  <2>10. StartingUp'
    BY <1>1, <2>1, <2>2, <2>3 DEF PassInv, StartingUp, Pending, PasswordCalls, UnlockingCalls
  <2>11. Registering'
    BY <1>1, <2>1, <2>2, <2>3 DEF PassInv, Registering, Pending, PasswordCalls, UnlockingCalls
  <2>12. Locked'
    BY <1>1, <2>1, <2>2, <2>3 DEF PassInv, Locked, Pending, PasswordCalls, UnlockingCalls
  <2>13. Entered'
    BY <1>1, <2>1, <2>2, <2>3 DEF PassInv, Entered, Pending, PasswordCalls, UnlockingCalls
  <2>14. Fileless'
    BY <1>1, <2>1, <2>2, <2>3 DEF PassInv, Fileless, Pending, PasswordCalls, UnlockingCalls
  <2>15. Outdated'
    BY <1>1, <2>1, <2>2, <2>3 DEF PassInv, Outdated, Pending, PasswordCalls, UnlockingCalls
  <2>16. FileUnderMaster'
    BY <1>1, <2>1, <2>2, <2>3 DEF PassInv, FileUnderMaster, Pending, PasswordCalls, UnlockingCalls
  <2>17. UnlockedByPassword'
    BY <1>1, <2>1, <2>2, <2>3 DEF PassInv, UnlockedByPassword, Pending, PasswordCalls, UnlockingCalls
  <2> QED
    BY <2>10, <2>11, <2>12, <2>13, <2>14, <2>15, <2>16, <2>17 DEF PassInv
<1>l. CASE have_secure_app_data
  <2>1. calls # <<>> /\ Head(calls).cmd = "have_secure_app_data"
    BY <1>l DEF have_secure_app_data, Answer
  <2>2. calls' = Tail(calls) \o <<>>
    BY <1>l DEF have_secure_app_data, Reply
  <2>3. /\ 1 \in DOMAIN calls /\ calls[1].cmd = "have_secure_app_data" /\ Head(calls) = calls[1]
        /\ \A i \in DOMAIN calls : i # 1 => i - 1 \in DOMAIN calls' /\ calls'[i - 1] = calls[i]
        /\ \A i \in DOMAIN calls' : i + 1 \in DOMAIN calls /\ calls'[i] = calls[i + 1]
        /\ DOMAIN calls' \subseteq Nat \ {0}
    BY <1>2, <2>1, <2>2, Replied
  <2>4. /\ page' = CASE file # NoFile -> "auth"
                     [] file = NoFile /\ appData -> "app"
                     [] OTHER -> "reg"
        /\ appLogin' = (appLogin \/ (file = NoFile /\ appData))
        /\ file' = file /\ m_master_password' = m_master_password /\ appPass' = appPass
        /\ dataIsLoaded' = dataIsLoaded /\ countdown' = countdown
        /\ unlocking' = unlocking /\ entered' = entered
    BY <1>l DEF have_secure_app_data, disk, backend, history
  <2>5. /\ ~appLogin /\ ~dataIsLoaded /\ ~countdown /\ appPass = Empty
        /\ \A i \in DOMAIN calls : calls[i].cmd \in PasswordCalls => i = 1
    BY <1>1, <2>3 DEF PassInv, StartingUp, Pending
  <2>6. \A i \in DOMAIN calls' : calls'[i].cmd \notin PasswordCalls
    BY <2>3, <2>5
  <2>7. /\ page' = "auth" => ~appLogin'
        /\ page' = "reg" => ~appLogin' /\ file = NoFile
        /\ appLogin' => file = NoFile
    BY <2>4, <2>5
  <2>10. StartingUp'
    BY <2>4, <2>5, <2>6, <2>7 DEF PassInv, StartingUp, Pending, PasswordCalls, UnlockingCalls
  <2>11. Registering'
    BY <2>4, <2>5, <2>6, <2>7 DEF PassInv, Registering, Pending, PasswordCalls, UnlockingCalls
  <2>12. Locked'
    BY <2>4, <2>5, <2>6, <2>7 DEF PassInv, Locked, Pending, PasswordCalls, UnlockingCalls
  <2>13. Entered'
    BY <2>4, <2>5, <2>6, <2>7 DEF PassInv, Entered, Pending, PasswordCalls, UnlockingCalls
  <2>14. Fileless'
    BY <2>4, <2>5, <2>6, <2>7 DEF PassInv, Fileless, Pending, PasswordCalls, UnlockingCalls
  <2>15. Outdated'
    BY <2>4, <2>5, <2>6, <2>7 DEF PassInv, Outdated, Pending, PasswordCalls, UnlockingCalls
  <2>16. FileUnderMaster'
    BY <2>4, <2>5, <2>6, <2>7 DEF PassInv, FileUnderMaster, Pending, PasswordCalls, UnlockingCalls
  <2>17. UnlockedByPassword'
    BY <2>4, <2>5, <2>6, <2>7 DEF PassInv, UnlockedByPassword, Pending, PasswordCalls, UnlockingCalls
  <2> QED
    BY <2>10, <2>11, <2>12, <2>13, <2>14, <2>15, <2>16, <2>17 DEF PassInv
<1>m. CASE set_master_password
  <2> DEFINE c == storeSecureAppData(wallets, "nothing")
  <2>1. calls # <<>> /\ Head(calls).cmd = "set_master_password"
    BY <1>m DEF set_master_password, Answer
  <2>2. c \in Call /\ c.cmd = "store_secure_app_data"
    BY <1>1, StoreCall DEF TypeInv, GoodList
  <2> HIDE DEF c
  <2>3. calls' = Tail(calls) \o <<c>>
    BY <1>m DEF set_master_password, Reply, StoreUnderNewPassword, c
  <2>5. /\ 1 \in DOMAIN calls /\ calls[1].cmd = "set_master_password" /\ Head(calls) = calls[1]
        /\ \A i \in DOMAIN calls : i # 1 => i - 1 \in DOMAIN calls' /\ calls'[i - 1] = calls[i]
        /\ \A i \in DOMAIN calls' : \/ i + 1 \in DOMAIN calls /\ calls'[i] = calls[i + 1]
                                    \/ i + 1 > Len(calls) /\ calls'[i] = c
        /\ Len(calls) \in DOMAIN calls' /\ calls'[Len(calls)] = c
        /\ DOMAIN calls' \subseteq Nat \ {0}
    <3>1. AnsweredBy(calls, calls', c)
      BY <1>2, <2>1, <2>2, <2>3, RepliedOne
    <3> QED
      BY <2>1, <3>1 DEF AnsweredBy
  <2>6. /\ m_master_password' = calls[1].pass /\ appLogin' = TRUE /\ countdown' = TRUE
        /\ dataIsLoaded' = TRUE /\ page' = IF calls[1].then = "reg" THEN "app" ELSE page
        /\ file' = file /\ appPass' = appPass /\ unlocking' = unlocking /\ entered' = entered
    BY <1>m, <2>5 DEF set_master_password, Unlock, disk, history
  <2>7. /\ ~Pending("have_secure_app_data") /\ Pending("set_master_password") /\ page' # "reg"
        /\ page' \in {page, "app"}
    BY <1>1, <2>5, <2>6 DEF PassInv, StartingUp, Registering, Pending, PasswordCalls, UnlockingCalls
  <2>8. ~unlocking => /\ calls[1].pass \in entered
                      /\ \A i \in DOMAIN calls : calls[i].cmd # "check_master_password"
    BY <1>1, <1>2, <2>5 DEF PassInv, Entered, UnlockingCalls
  <2>10. StartingUp'
    BY <1>1, <1>2, <2>2, <2>5, <2>6, <2>7, <2>8 DEF PassInv, StartingUp, Pending, PasswordCalls, UnlockingCalls
  <2>11. Registering'
    BY <1>1, <1>2, <2>2, <2>5, <2>6, <2>7, <2>8 DEF PassInv, Registering, Pending, PasswordCalls, UnlockingCalls
  <2>12. Locked'
    BY <1>1, <1>2, <2>2, <2>5, <2>6, <2>7, <2>8 DEF PassInv, Locked, Pending, PasswordCalls, UnlockingCalls
  <2>13. Entered'
    BY <1>1, <1>2, <2>2, <2>5, <2>6, <2>7, <2>8 DEF PassInv, Entered, Pending, PasswordCalls, UnlockingCalls
  <2>14. Fileless'
    BY <1>1, <1>2, <2>2, <2>5, <2>6, <2>7, <2>8 DEF PassInv, Fileless, Pending, PasswordCalls, UnlockingCalls
  <2>15. Outdated'
    BY <1>1, <1>2, <2>2, <2>5, <2>6, <2>7, <2>8 DEF PassInv, Outdated, Pending, PasswordCalls, UnlockingCalls
  <2>16. FileUnderMaster'
    BY <1>1, <1>2, <2>2, <2>5, <2>6, <2>7, <2>8 DEF PassInv, FileUnderMaster, Pending, PasswordCalls, UnlockingCalls
  <2>17. UnlockedByPassword'
    BY <1>1, <2>6, <2>7 DEF PassInv, UnlockedByPassword, Fileless, Locked
  <2> QED
    BY <2>10, <2>11, <2>12, <2>13, <2>14, <2>15, <2>16, <2>17 DEF PassInv
<1>n. CASE store_secure_app_data
  <2>1. calls # <<>> /\ Head(calls).cmd = "store_secure_app_data"
    BY <1>n DEF store_secure_app_data, Answer
  <2>2. \/ calls' = Tail(calls) \o <<storeAppData>>
        \/ calls' = Tail(calls) \o <<>>
    BY <1>n DEF store_secure_app_data, Reply
  <2>3. /\ 1 \in DOMAIN calls /\ calls[1].cmd = "store_secure_app_data" /\ Head(calls) = calls[1]
        /\ \A i \in DOMAIN calls : i # 1 => i - 1 \in DOMAIN calls' /\ calls'[i - 1] = calls[i]
        /\ \A i \in DOMAIN calls' : \/ i + 1 \in DOMAIN calls /\ calls'[i] = calls[i + 1]
                                    \/ calls'[i].cmd \notin PasswordCalls
        /\ DOMAIN calls' \subseteq Nat \ {0}
    <3>1. CASE calls' = Tail(calls) \o <<storeAppData>>
      <4>1. AnsweredBy(calls, calls', storeAppData)
        BY <1>2, <2>1, <3>1, RepliedOne, CallsMade
      <4>2. storeAppData.cmd \notin PasswordCalls
        BY CallsMade DEF PasswordCalls, UnlockingCalls
      <4> QED
        BY <2>1, <4>1, <4>2 DEF AnsweredBy
    <3>2. CASE calls' = Tail(calls) \o <<>>
      BY <1>2, <2>1, <3>2, Replied
    <3> QED
      BY <2>2, <3>1, <3>2
  <2>4. /\ file' = [pass |-> m_master_password, wallets |-> Head(calls).wallets]
        /\ file'.pass = m_master_password
        /\ m_master_password' = m_master_password /\ appPass' = appPass /\ appLogin' = appLogin
        /\ dataIsLoaded' = dataIsLoaded /\ countdown' = countdown /\ page' = page
        /\ unlocking' = unlocking /\ entered' = entered
    BY <1>n DEF store_secure_app_data, backend, session, history
  <2>5. ~Pending("have_secure_app_data")
    BY <1>1, <2>3 DEF PassInv, StartingUp, Pending, PasswordCalls
  <2>6. \A k \in PasswordCalls : Pending(k)' => Pending(k)
    BY <2>3 DEF Pending
  <2>7. ~(/\ ~unlocking /\ ~dataIsLoaded
          /\ appLogin \/ page = "reg" \/ Pending("set_master_password"))
    BY <1>1, <1>2, <2>3 DEF PassInv, Fileless
  <2>10. StartingUp'
    BY <1>1, <1>2, <2>3, <2>4, <2>5, <2>6 DEF PassInv, StartingUp, Pending, PasswordCalls, UnlockingCalls
  <2>11. Registering'
    BY <1>1, <1>2, <2>3, <2>4, <2>5, <2>6 DEF PassInv, Registering, Pending, PasswordCalls, UnlockingCalls
  <2>12. Locked'
    BY <1>1, <2>4, <2>6 DEF PassInv, Locked, PasswordCalls, UnlockingCalls
  <2>13. Entered'
    BY <1>1, <1>2, <2>3, <2>4, <2>5, <2>6 DEF PassInv, Entered, Pending, PasswordCalls, UnlockingCalls
  <2>14. Fileless'
    BY <2>4, <2>6, <2>7 DEF Fileless, PasswordCalls, UnlockingCalls
  <2>15. Outdated'
    BY <2>4 DEF Outdated
  <2>16. FileUnderMaster'
    BY <2>4 DEF FileUnderMaster
  <2>17. UnlockedByPassword'
    BY <1>1, <2>4 DEF UnlockedByPassword, PassInv, Entered
  <2> QED
    BY <2>10, <2>11, <2>12, <2>13, <2>14, <2>15, <2>16, <2>17 DEF PassInv
<1>o. CASE check_master_password
  <2>1. calls # <<>> /\ Head(calls).cmd = "check_master_password"
    BY <1>o DEF check_master_password, Answer
  <2>2. calls' = Tail(calls) \o <<>>
    BY <1>o DEF check_master_password, Reply
  <2>3. /\ 1 \in DOMAIN calls /\ calls[1].cmd = "check_master_password" /\ Head(calls) = calls[1]
        /\ \A i \in DOMAIN calls : i # 1 => i - 1 \in DOMAIN calls' /\ calls'[i - 1] = calls[i]
        /\ \A i \in DOMAIN calls' : i + 1 \in DOMAIN calls /\ calls'[i] = calls[i + 1]
        /\ DOMAIN calls' \subseteq Nat \ {0}
    BY <1>2, <2>1, <2>2, Replied
  <2>4. /\ file' = file /\ m_master_password' = m_master_password /\ appPass' = appPass
        /\ dataIsLoaded' = dataIsLoaded /\ unlocking' = unlocking /\ entered' = entered
    BY <1>o DEF check_master_password, disk, backend, history
  <2>5. \/ /\ calls[1].pass = m_master_password
           /\ appLogin' = TRUE /\ countdown' = TRUE /\ page' = "app"
        \/ appLogin' = appLogin /\ countdown' = countdown /\ page' = page
    BY <1>o, <2>3 DEF check_master_password, check_password, Unlock
  <2>6. ~Pending("have_secure_app_data") /\ dataIsLoaded /\ page # "reg"
    BY <1>1, <2>3 DEF PassInv, StartingUp, Registering, Locked, Pending, PasswordCalls, UnlockingCalls
  <2>7. ~unlocking => calls[1].pass \in entered
    BY <1>1, <2>3 DEF PassInv, Entered, UnlockingCalls
  <2>8. ~unlocking /\ file # NoFile => file.pass = m_master_password
    BY <1>1, <1>2, <2>3, <2>6 DEF PassInv, Outdated
  <2>10. StartingUp'
    BY <1>1, <1>2, <2>3, <2>4, <2>5, <2>6, <2>7, <2>8 DEF PassInv, StartingUp, Pending, PasswordCalls, UnlockingCalls
  <2>11. Registering'
    BY <1>1, <1>2, <2>3, <2>4, <2>5, <2>6, <2>7, <2>8 DEF PassInv, Registering, Pending, PasswordCalls, UnlockingCalls
  <2>12. Locked'
    BY <1>1, <1>2, <2>3, <2>4, <2>5, <2>6, <2>7, <2>8 DEF PassInv, Locked, Pending, PasswordCalls, UnlockingCalls
  <2>13. Entered'
    BY <1>1, <1>2, <2>3, <2>4, <2>5, <2>6, <2>7, <2>8 DEF PassInv, Entered, Pending, PasswordCalls, UnlockingCalls
  <2>14. Fileless'
    BY <1>1, <1>2, <2>3, <2>4, <2>5, <2>6, <2>7, <2>8 DEF PassInv, Fileless, Pending, PasswordCalls, UnlockingCalls
  <2>15. Outdated'
    BY <1>1, <1>2, <2>3, <2>4, <2>5, <2>6, <2>7, <2>8 DEF PassInv, Outdated, Pending, PasswordCalls, UnlockingCalls
  <2>16. FileUnderMaster'
    BY <1>1, <1>2, <2>3, <2>4, <2>5, <2>6, <2>7, <2>8 DEF PassInv, FileUnderMaster, Pending, PasswordCalls, UnlockingCalls
  <2>17. UnlockedByPassword'
    BY <1>1, <1>2, <2>3, <2>4, <2>5, <2>6, <2>7, <2>8 DEF PassInv, UnlockedByPassword, Pending, PasswordCalls, UnlockingCalls
  <2> QED
    BY <2>10, <2>11, <2>12, <2>13, <2>14, <2>15, <2>16, <2>17 DEF PassInv
<1>p. CASE get_secure_app_data
  <2>1. calls # <<>> /\ Head(calls).cmd = "get_secure_app_data"
    BY <1>p DEF get_secure_app_data, Answer
  <2>2. PICK new \in Seq(Call) : /\ calls' = Tail(calls) \o new
                                 /\ \A k \in DOMAIN new : new[k].cmd = "open_wallet"
    <3>1. CASE file # NoFile /\ file.pass = Head(calls).pass /\ wallets = <<>>
      <4>1. file.wallets \in Seq(Path)
        BY <1>1, <3>1 DEF TypeInv, SecureFile
      <4>2. /\ getWalletData(file.wallets) \in Seq(Call)
            /\ \A k \in DOMAIN getWalletData(file.wallets) :
                  getWalletData(file.wallets)[k].cmd = "open_wallet"
        BY <4>1, LoginCalls
      <4>3. calls' = Tail(calls) \o getWalletData(file.wallets)
        BY <1>p, <3>1 DEF get_secure_app_data, Reply
      <4> QED
        BY <4>2, <4>3
    <3>2. CASE ~(file # NoFile /\ file.pass = Head(calls).pass /\ wallets = <<>>)
      <4>1. calls' = Tail(calls) \o <<>>
        BY <1>p, <3>2 DEF get_secure_app_data, Reply
      <4>2. \A k \in DOMAIN <<>> : FALSE
        OBVIOUS
      <4> QED
        BY <1>2, <4>1, <4>2
    <3> QED
      BY <3>1, <3>2
  <2>3. /\ 1 \in DOMAIN calls /\ calls[1].cmd = "get_secure_app_data" /\ Head(calls) = calls[1]
        /\ \A i \in DOMAIN calls : i # 1 => i - 1 \in DOMAIN calls' /\ calls'[i - 1] = calls[i]
        /\ \A i \in DOMAIN calls' : \/ i + 1 \in DOMAIN calls /\ calls'[i] = calls[i + 1]
                                    \/ calls'[i].cmd \notin PasswordCalls
        /\ DOMAIN calls' \subseteq Nat \ {0}
    <3>1. /\ 1 \in DOMAIN calls /\ Head(calls) = calls[1] /\ DOMAIN calls' \subseteq Nat \ {0}
          /\ \A i \in DOMAIN calls : i # 1 => i - 1 \in DOMAIN calls' /\ calls'[i - 1] = calls[i]
      BY <1>2, <2>1, <2>2, Replied
    <3>2. \A i \in DOMAIN calls' : \/ i + 1 \in DOMAIN calls /\ calls'[i] = calls[i + 1]
                                   \/ i + 1 > Len(calls) /\ \E k \in DOMAIN new : calls'[i] = new[k]
      BY <1>2, <2>1, <2>2, Replied
    <3> QED
      BY <2>1, <2>2, <3>1, <3>2 DEF PasswordCalls, UnlockingCalls
  <2>4. file' = file /\ unlocking' = unlocking /\ entered' = entered
    BY <1>p DEF get_secure_app_data, disk, history
  <2>5. \/ /\ file # NoFile /\ file.pass = calls[1].pass
           /\ m_master_password' = calls[1].pass
           /\ appLogin' = TRUE /\ countdown' = TRUE /\ dataIsLoaded' = TRUE
           /\ page' \in {page, "app"}
        \/ /\ m_master_password' = m_master_password /\ page' = page /\ appPass' = appPass
           /\ appLogin' = appLogin /\ countdown' = countdown /\ dataIsLoaded' = dataIsLoaded
    BY <1>p, <2>3 DEF get_secure_app_data, Unlock, session
  <2>6. ~Pending("have_secure_app_data") /\ page # "reg"
    BY <1>1, <2>3 DEF PassInv, StartingUp, Registering, Pending, PasswordCalls, UnlockingCalls
  <2>7. ~unlocking => calls[1].pass \in entered
    BY <1>1, <2>3 DEF PassInv, Entered, UnlockingCalls
  <2>10. StartingUp'
    BY <1>1, <1>2, <2>3, <2>4, <2>5, <2>6, <2>7 DEF PassInv, StartingUp, Pending, PasswordCalls, UnlockingCalls
  <2>11. Registering'
    BY <1>1, <1>2, <2>3, <2>4, <2>5, <2>6, <2>7 DEF PassInv, Registering, Pending, PasswordCalls, UnlockingCalls
  <2>12. Locked'
    BY <1>1, <1>2, <2>3, <2>4, <2>5, <2>6, <2>7 DEF PassInv, Locked, Pending, PasswordCalls, UnlockingCalls
  <2>13. Entered'
    BY <1>1, <1>2, <2>3, <2>4, <2>5, <2>6, <2>7 DEF PassInv, Entered, Pending, PasswordCalls, UnlockingCalls
  <2>8. ASSUME dataIsLoaded' = TRUE, file # NoFile, file.pass = m_master_password'
        PROVE  Fileless' /\ Outdated'
    BY <2>4, <2>8 DEF Fileless, Outdated
  <2>9. ASSUME m_master_password' = m_master_password, page' = page, appPass' = appPass,
               appLogin' = appLogin, dataIsLoaded' = dataIsLoaded
        PROVE  Fileless' /\ Outdated'
    <3>1. Pending("set_master_password")' <=> Pending("set_master_password")
      BY <1>2, <2>3 DEF Pending, PasswordCalls, UnlockingCalls
    <3>2. Fileless'
      <4>1. SUFFICES ASSUME ~unlocking, ~dataIsLoaded,
                            appLogin \/ page = "reg" \/ Pending("set_master_password")
                     PROVE  /\ file = NoFile
                            /\ \A j \in DOMAIN calls' : calls'[j].cmd = "store_secure_app_data" =>
                                 \E i \in DOMAIN calls' : i < j /\ calls'[i].cmd = "set_master_password"
                            /\ appPass # Empty => Pending("set_master_password")
        BY <2>4, <2>9, <3>1 DEF Fileless
      <4>2. /\ file = NoFile /\ (appPass # Empty => Pending("set_master_password"))
            /\ \A j \in DOMAIN calls : calls[j].cmd = "store_secure_app_data" =>
                 \E i \in DOMAIN calls : i < j /\ calls[i].cmd = "set_master_password"
        BY <1>1, <4>1 DEF PassInv, Fileless
      <4>3. ASSUME NEW j \in DOMAIN calls', calls'[j].cmd = "store_secure_app_data"
            PROVE  \E i \in DOMAIN calls' : i < j /\ calls'[i].cmd = "set_master_password"
        <5>1. j + 1 \in DOMAIN calls /\ calls'[j] = calls[j + 1]
          BY <2>3, <4>3 DEF PasswordCalls
        <5>2. PICK i \in DOMAIN calls : i < j + 1 /\ calls[i].cmd = "set_master_password"
          BY <4>2, <4>3, <5>1
        <5>3. i - 1 \in DOMAIN calls' /\ calls'[i - 1] = calls[i] /\ i - 1 < j
          BY <1>2, <2>3, <5>2
        <5> QED
          BY <5>2, <5>3
      <4> QED
        BY <4>2, <4>3
    <3>3. Outdated'
      <4>1. SUFFICES ASSUME ~unlocking, dataIsLoaded, file # NoFile, file.pass # m_master_password
                     PROVE  \E j \in DOMAIN calls' :
                              /\ calls'[j].cmd = "store_secure_app_data"
                              /\ \A i \in DOMAIN calls' : i < j => calls'[i].cmd # "check_master_password"
        BY <2>4, <2>9 DEF Outdated
      <4>2. PICK j \in DOMAIN calls :
                              /\ calls[j].cmd = "store_secure_app_data"
                              /\ \A i \in DOMAIN calls : i < j => calls[i].cmd # "check_master_password"
        BY <1>1, <4>1 DEF PassInv, Outdated
      <4>3. j - 1 \in DOMAIN calls' /\ calls'[j - 1] = calls[j]
        BY <2>3, <4>2
      <4>4. \A i \in DOMAIN calls' : i < j - 1 => calls'[i].cmd # "check_master_password"
        BY <1>2, <2>3, <4>2 DEF PasswordCalls, UnlockingCalls
      <4> QED
        BY <4>2, <4>3, <4>4
    <3> QED
      BY <3>2, <3>3
  <2>14. Fileless' /\ Outdated'
    BY <2>5, <2>8, <2>9
  <2>16. FileUnderMaster'
    BY <1>1, <1>2, <2>3, <2>4, <2>5, <2>6, <2>7 DEF PassInv, FileUnderMaster, Pending, PasswordCalls, UnlockingCalls
  <2>17. UnlockedByPassword'
    BY <1>1, <1>2, <2>3, <2>4, <2>5, <2>6, <2>7 DEF PassInv, UnlockedByPassword, Pending, PasswordCalls, UnlockingCalls
  <2> QED
    BY <2>10, <2>11, <2>12, <2>13, <2>14, <2>16, <2>17 DEF PassInv
<1>q. CASE drop_secure_app_data
  <2>1. calls # <<>> /\ Head(calls).cmd = "drop_secure_app_data"
    BY <1>q DEF drop_secure_app_data, Answer
  <2>2. calls' = Tail(calls) \o <<>>
    BY <1>q DEF drop_secure_app_data, Reply
  <2>3. /\ 1 \in DOMAIN calls /\ calls[1].cmd = "drop_secure_app_data" /\ Head(calls) = calls[1]
        /\ \A i \in DOMAIN calls : i # 1 => i - 1 \in DOMAIN calls' /\ calls'[i - 1] = calls[i]
        /\ \A i \in DOMAIN calls' : i + 1 \in DOMAIN calls /\ calls'[i] = calls[i + 1]
        /\ DOMAIN calls' \subseteq Nat \ {0}
    BY <1>2, <2>1, <2>2, Replied
  <2>4. /\ file' = NoFile /\ appLogin' = TRUE /\ page' = "app"
        /\ dataIsLoaded' = dataIsLoaded /\ countdown' = countdown /\ unlocking' = unlocking
    BY <1>q DEF drop_secure_app_data, backend, history
  <2>5. unlocking /\ ~Pending("have_secure_app_data")
    BY <1>1, <2>3 DEF PassInv, StartingUp, Locked, Pending, PasswordCalls, UnlockingCalls
  <2>10. StartingUp'
    BY <1>1, <1>2, <2>3, <2>4, <2>5 DEF PassInv, StartingUp, Pending, PasswordCalls, UnlockingCalls
  <2>11. Registering'
    BY <1>1, <1>2, <2>3, <2>4, <2>5 DEF PassInv, Registering, Pending, PasswordCalls, UnlockingCalls
  <2>12. Locked'
    BY <1>1, <1>2, <2>3, <2>4, <2>5 DEF PassInv, Locked, Pending, PasswordCalls, UnlockingCalls
  <2>13. Entered'
    BY <1>1, <1>2, <2>3, <2>4, <2>5 DEF PassInv, Entered, Pending, PasswordCalls, UnlockingCalls
  <2>14. Fileless'
    BY <1>1, <1>2, <2>3, <2>4, <2>5 DEF PassInv, Fileless, Pending, PasswordCalls, UnlockingCalls
  <2>15. Outdated'
    BY <1>1, <1>2, <2>3, <2>4, <2>5 DEF PassInv, Outdated, Pending, PasswordCalls, UnlockingCalls
  <2>16. FileUnderMaster'
    BY <1>1, <1>2, <2>3, <2>4, <2>5 DEF PassInv, FileUnderMaster, Pending, PasswordCalls, UnlockingCalls
  <2>17. UnlockedByPassword'
    BY <1>1, <1>2, <2>3, <2>4, <2>5 DEF PassInv, UnlockedByPassword, Pending, PasswordCalls, UnlockingCalls
  <2> QED
    BY <2>10, <2>11, <2>12, <2>13, <2>14, <2>15, <2>16, <2>17 DEF PassInv
\* The calls about wallets, and what the page stores when its list has changed.
<1>3a. ASSUME NEW new \in Seq(Call), Ask(new),
              \A k \in DOMAIN new : \/ new[k].cmd \notin PasswordCalls
                                    \/ new[k].cmd = "store_secure_app_data" /\ appPass # Empty,
              UNCHANGED <<file, m_master_password, appPass, appLogin, dataIsLoaded, countdown,
                          entered, unlocking>>,
              page' \in {page, "app"}
       PROVE  PassInv'
  <2>1. Shift(calls, calls', 0, new)
    BY <1>2, <1>3a, AskShift DEF Ask
  <2> QED
    BY <1>1, <1>3a, <2>1, QuietStep
<1>3b. ASSUME NEW new \in Seq(Call), calls # <<>>, Reply(new), Head(calls).cmd \notin PasswordCalls,
              \A k \in DOMAIN new : \/ new[k].cmd \notin PasswordCalls
                                    \/ new[k].cmd = "store_secure_app_data" /\ appPass # Empty,
              UNCHANGED <<file, m_master_password, appPass, appLogin, dataIsLoaded, countdown,
                          entered, unlocking>>,
              page' \in {page, "app"}
       PROVE  PassInv'
  <2>1. Shift(calls, calls', 1, new)
    BY <1>2, <1>3b, ReplyShift DEF Reply
  <2>2. Head(calls) = calls[1]
    BY <1>2, <1>3b
  <2> QED
    BY <1>1, <1>3b, <2>1, <2>2, QuietStep
<1>3c. \A c \in Call : <<c>> \in Seq(Call) /\ DOMAIN <<c>> = {1} /\ <<c>>[1] = c
  OBVIOUS
<1>3d. DOMAIN <<>> = {}
  OBVIOUS
<1>3e. \A ws \in Seq(Wallet) : /\ storeIf(appPass, ws) \in Seq(Call)
                              /\ \A k \in DOMAIN storeIf(appPass, ws) :
                                    /\ storeIf(appPass, ws)[k].cmd = "store_secure_app_data"
                                    /\ appPass # Empty
  BY <1>2, <1>3c, <1>3d, StoreCall DEF storeIf
<1>g. CASE openWallet
  <2>1. PICK p \in Path : Ask(<<[cmd |-> "open_wallet", path |-> p, then |-> "user"]>>)
    BY <1>g DEF openWallet
  <2> DEFINE c == [cmd |-> "open_wallet", path |-> p, then |-> "user"]
  <2>2. c \in Call /\ c.cmd = "open_wallet"
    BY CallsMade
  <2> HIDE DEF c
  <2>3. /\ <<c>> \in Seq(Call) /\ Ask(<<c>>)
        /\ \A k \in DOMAIN <<c>> : <<c>>[k].cmd \notin PasswordCalls
    BY <1>3c, <2>1, <2>2 DEF PasswordCalls, UnlockingCalls, c
  <2>4. page' = page /\ UNCHANGED <<file, m_master_password, appPass, appLogin, dataIsLoaded, countdown,
                    entered, unlocking>>
    BY <1>g, <1>u DEF openWallet, session
  <2> QED
    BY <1>3a, <2>3, <2>4
<1>h. CASE selectWallet \/ drop
  <2>1. Ask(<<>>)
    BY <1>2, <1>h DEF selectWallet, drop, Ask
  <2>2. page' \in {page, "app"}
        /\ UNCHANGED <<file, m_master_password, appPass, appLogin, dataIsLoaded, countdown,
                       entered, unlocking>>
    BY <1>h, <1>u DEF selectWallet, drop, session
  <2> QED
    BY <1>2, <1>3a, <1>3d, <2>1, <2>2
<1>i. CASE closeWallet
  <2>1. PICK id \in Ids(wallets) : Ask(<<closeWalletCall(id, "user", 0)>>)
    BY <1>i DEF closeWallet
  <2>2. id \in Nat
    BY <1>1, ListElements DEF TypeInv, GoodList, Ids
  <2> DEFINE c == closeWalletCall(id, "user", 0)
  <2>3. c \in Call /\ c.cmd = "close_wallet"
    BY <2>2, CallsMade DEF closeWalletCall
  <2> HIDE DEF c
  <2>4. /\ <<c>> \in Seq(Call) /\ Ask(<<c>>)
        /\ \A k \in DOMAIN <<c>> : <<c>>[k].cmd \notin PasswordCalls
    BY <1>3c, <2>1, <2>3 DEF PasswordCalls, UnlockingCalls, c
  <2>5. page' = "app" /\ UNCHANGED <<file, m_master_password, appPass, appLogin, dataIsLoaded, countdown,
                    entered, unlocking>>
    BY <1>i, <1>u DEF closeWallet
  <2> QED
    BY <1>3a, <2>4, <2>5
<1>k. CASE quit_requested
  <2>1. PICK c \in Call : /\ Ask(<<c>>)
                          /\ \/ c.cmd \notin PasswordCalls
                             \/ c.cmd = "store_secure_app_data" /\ appPass # Empty
    <3>1. CASE appPass # Empty
      <4>1. Ask(<<storeSecureAppData(wallets, "quit")>>)
        BY <1>k, <3>1 DEF quit_requested
      <4> QED
        BY <1>1, <3>1, <4>1, StoreCall DEF TypeInv, GoodList
    <3>2. CASE appPass = Empty
      <4>1. Ask(<<storeAppData>>)
        BY <1>k, <3>2 DEF quit_requested
      <4> QED
        BY <4>1, CallsMade DEF PasswordCalls, UnlockingCalls
    <3> QED
      BY <3>1, <3>2
  <2>2. page' = "app" /\ UNCHANGED <<file, m_master_password, appPass, appLogin, dataIsLoaded, countdown,
                    entered, unlocking>>
    BY <1>k DEF quit_requested, disk, backend
  <2> QED
    BY <1>3a, <1>3c, <2>1, <2>2
<1>r. CASE open_wallet
  <2>1. calls # <<>> /\ Head(calls).cmd = "open_wallet"
    BY <1>r DEF open_wallet, Answer
  <2>2. PICK new \in Seq(Call) : Reply(new) /\ \A k \in DOMAIN new : new[k].cmd \notin PasswordCalls
    <3>1. Loaded(Head(calls).path).id = m_wallet_id_counter
      BY DEF Loaded
    <3> DEFINE c == closeWalletCall(m_wallet_id_counter, "home", 0)
               e == [cmd |-> "run_wallet", id |-> m_wallet_id_counter]
    <3>2. Reply(<<c>>) \/ Reply(<<e>>) \/ Reply(<<>>)
      BY <1>r, <3>1 DEF open_wallet, CloseDuplicate
    <3>3. c \in Call /\ c.cmd = "close_wallet" /\ e \in Call /\ e.cmd = "run_wallet"
      BY <1>1, CallsMade DEF TypeInv, closeWalletCall
    <3> HIDE DEF c, e
    <3>4. c.cmd \notin PasswordCalls /\ e.cmd \notin PasswordCalls
      BY <3>3 DEF PasswordCalls, UnlockingCalls
    <3> QED
      BY <1>2, <1>3c, <1>3d, <3>2, <3>3, <3>4
  <2>3. page' = page /\ UNCHANGED <<file, m_master_password, appPass, appLogin, dataIsLoaded, countdown,
                    entered, unlocking>>
    BY <1>r DEF open_wallet, disk, session, history
  <2>4. "open_wallet" \notin PasswordCalls
    BY DEF PasswordCalls, UnlockingCalls
  <2> QED
    BY <1>3b, <2>1, <2>2, <2>3, <2>4
<1>s. CASE open_wallet_login
  <2>1. calls # <<>> /\ Head(calls).cmd \notin PasswordCalls /\ Reply(<<>>)
    BY <1>s DEF open_wallet_login, Answer, PasswordCalls, UnlockingCalls
  <2>2. page' \in {page, "app"}
        /\ UNCHANGED <<file, m_master_password, appPass, appLogin, dataIsLoaded, countdown,
                       entered, unlocking>>
    BY <1>s DEF open_wallet_login, disk, history
  <2> QED
    BY <1>2, <1>3b, <1>3d, <2>1, <2>2
<1>t. CASE run_wallet
  <2>1. calls # <<>> /\ Head(calls).cmd \notin PasswordCalls
        /\ (Reply(<<>>) \/ Reply(storeIf(appPass, wallets)))
    BY <1>t DEF run_wallet, Answer, PasswordCalls, UnlockingCalls
  <2>2. page' \in {page, "app"}
        /\ UNCHANGED <<file, m_master_password, appPass, appLogin, dataIsLoaded, countdown,
                       entered, unlocking>>
    BY <1>t DEF run_wallet, disk, backend, history
  <2>3. /\ storeIf(appPass, wallets) \in Seq(Call)
        /\ \A k \in DOMAIN storeIf(appPass, wallets) :
              storeIf(appPass, wallets)[k].cmd = "store_secure_app_data" /\ appPass # Empty
    BY <1>1, <1>3e DEF TypeInv, GoodList
  <2>4. CASE Reply(<<>>)
    BY <1>2, <1>3b, <1>3d, <2>1, <2>2, <2>4
  <2>5. CASE Reply(storeIf(appPass, wallets))
    BY <1>3b, <2>1, <2>2, <2>3, <2>5
  <2> QED
    BY <2>1, <2>4, <2>5
<1>v. CASE close_wallet
  <2> DEFINE left == Without(wallets, currentWallet)
  <2>1. calls # <<>> /\ Head(calls).cmd \notin PasswordCalls
        /\ (Reply(<<>>) \/ Reply(storeIf(appPass, left)))
    BY <1>v DEF close_wallet, Answer, PasswordCalls, UnlockingCalls
  <2>2. page' = "app"
        /\ UNCHANGED <<file, m_master_password, appPass, appLogin, dataIsLoaded, countdown,
                       entered, unlocking>>
    BY <1>v DEF close_wallet, disk
  <2>3. left \in Seq(Wallet)
    BY <1>1, GoodWithout DEF TypeInv, GoodList
  <2> HIDE DEF left
  <2>4. /\ storeIf(appPass, left) \in Seq(Call)
        /\ \A k \in DOMAIN storeIf(appPass, left) :
              storeIf(appPass, left)[k].cmd = "store_secure_app_data" /\ appPass # Empty
    BY <1>3e, <2>3
  <2>5. CASE Reply(<<>>)
    BY <1>2, <1>3b, <1>3d, <2>1, <2>2, <2>5
  <2>6. CASE Reply(storeIf(appPass, left))
    BY <1>3b, <2>1, <2>2, <2>4, <2>6
  <2> QED
    BY <2>1, <2>5, <2>6
<1>4. ASSUME NEW ws, GoodList(ws, m_wallet_id_counter)
      PROVE  /\ <<recursionCloseWallets(ws)>> \in Seq(Call)
             /\ \A k \in DOMAIN <<recursionCloseWallets(ws)>> :
                   <<recursionCloseWallets(ws)>>[k].cmd \notin PasswordCalls
  <2> DEFINE c == recursionCloseWallets(ws)
  <2>1. c \in Call /\ c.cmd \in {"close_wallet", "on_request_quit"}
    BY <1>1, <1>4, QuitCallMade DEF TypeInv
  <2> HIDE DEF c
  <2>2. <<c>> \in Seq(Call) /\ \A k \in DOMAIN <<c>> : <<c>>[k].cmd \notin PasswordCalls
    BY <1>3c, <2>1 DEF PasswordCalls, UnlockingCalls
  <2> QED
    BY <2>2 DEF c
<1>w. CASE store_app_data
  <2>1. calls # <<>> /\ Head(calls).cmd \notin PasswordCalls /\ Reply(<<recursionCloseWallets(wallets)>>)
    BY <1>w DEF store_app_data, Answer, PasswordCalls, UnlockingCalls
  <2>2. page' = page
        /\ UNCHANGED <<file, m_master_password, appPass, appLogin, dataIsLoaded, countdown,
                       entered, unlocking>>
    BY <1>w DEF store_app_data, backend, session, history
  <2>3. GoodList(wallets, m_wallet_id_counter)
    BY <1>1 DEF TypeInv
  <2> QED
    BY <1>3b, <1>4, <2>1, <2>2, <2>3
<1>x. CASE close_wallet_quit
  <2>1. calls # <<>> /\ Head(calls).cmd \notin PasswordCalls
        /\ (Reply(<<recursionCloseWallets(wallets')>>) \/ Reply(<<>>))
    BY <1>x DEF close_wallet_quit, Answer, PasswordCalls, UnlockingCalls
  <2>2. page' = page /\ m_wallet_id_counter' = m_wallet_id_counter
        /\ UNCHANGED <<file, m_master_password, appPass, appLogin, dataIsLoaded, countdown,
                       entered, unlocking>>
    BY <1>x DEF close_wallet_quit, disk, session, history
  <2>3. GoodList(wallets', m_wallet_id_counter)
    <3>1. TypeInv'
      BY <1>1, TypeStep
    <3> QED
      BY <2>2, <3>1 DEF TypeInv
  <2>4. CASE Reply(<<>>)
    BY <1>2, <1>3b, <1>3d, <2>1, <2>2, <2>4
  <2>5. CASE Reply(<<recursionCloseWallets(wallets')>>)
    BY <1>3b, <1>4, <2>1, <2>2, <2>3, <2>5
  <2> QED
    BY <2>1, <2>4, <2>5
<1>y. CASE on_request_quit
  <2>1. calls # <<>> /\ Head(calls).cmd \notin PasswordCalls /\ Reply(<<>>)
    BY <1>y DEF on_request_quit, Answer, PasswordCalls, UnlockingCalls
  <2>2. page' = page
        /\ UNCHANGED <<file, m_master_password, appPass, appLogin, dataIsLoaded, countdown,
                       entered, unlocking>>
    BY <1>y DEF on_request_quit, disk, session, history
  <2> QED
    BY <1>2, <1>3b, <1>3d, <2>1, <2>2
<1>z. CASE Restart
  <2>1. DOMAIN calls' = {1} /\ calls'[1].cmd = "have_secure_app_data"
    BY <1>z DEF Restart, StartUpCalls
  <2> QED
    BY <1>z, <2>1 DEF Restart, PassInv, StartingUp, Registering, Locked, Entered, Fileless, Outdated,
       FileUnderMaster, UnlockedByPassword, Pending, PasswordCalls, UnlockingCalls
<1>5. CASE UNCHANGED vars
  BY <1>1, <1>5 DEF vars, disk, backend, session, history, PassInv, StartingUp, Registering, Locked,
     Entered, Fileless, Outdated, FileUnderMaster, UnlockedByPassword, Pending
<1> QED
  BY <1>1, <1>a, <1>b, <1>c, <1>d, <1>e, <1>f, <1>g, <1>h, <1>i, <1>k, <1>l, <1>m, <1>n,
     <1>o, <1>p, <1>q, <1>r, <1>s, <1>t, <1>v, <1>w, <1>x, <1>y, <1>z, <1>5
     DEF Next, User, Backend

LEMMA PassInvariant == Spec => []PassInv
BY InitPass, PassStep, TypeInvariant, PTL DEF Spec

\* One password protects the secure file, is checked at the lock screen and
\* unlocks the session, whatever is on its way when the session is locked,
\* unlocked or quit, and after every restart (mainwindow.cpp:1390,
\* login.component.ts:100).
THEOREM OnePassword == Spec => []PasswordsAgree
<1>1. PassInv => PasswordsAgree
  BY DEF PassInv, PasswordsAgree
<1> QED
  BY <1>1, PassInvariant, PTL

(***************************************************************************)
(* The queue as a set of calls.                                            *)
(***************************************************************************)

LEMMA AskedSet ==
  ASSUME NEW s \in Seq(Call), NEW c \in Call
  PROVE  Range(s \o <<c>>) = Range(s) \cup {c}
<1> DEFINE t == s \o <<c>>
<1> HIDE DEF t
<1>1. t = s \o <<c>>
  BY DEF t
<1>2. /\ \A i \in DOMAIN s : i \in DOMAIN t /\ t[i] = s[i]
      /\ \A i \in DOMAIN t : (i \in DOMAIN s /\ t[i] = s[i]) \/ (i > Len(s) /\ t[i] = c)
      /\ Len(s) + 1 \in DOMAIN t /\ t[Len(s) + 1] = c
  BY <1>1, Asked
<1>3. Range(t) = Range(s) \cup {c}
  BY <1>2 DEF Range
<1> QED
  BY <1>3 DEF t

LEMMA RepliedSet ==
  ASSUME NEW s \in Seq(Call), s # <<>>, NEW c \in Call
  PROVE  /\ Range(Tail(s) \o <<c>>) \subseteq Range(s) \cup {c}
         /\ Range(s) \cup {c} \subseteq Range(Tail(s) \o <<c>>) \cup {Head(s)}
<1> DEFINE t == Tail(s) \o <<c>>
<1>1. AnsweredBy(s, t, c)
  BY RepliedOne
<1> HIDE DEF t
<1>2. \A i \in DOMAIN t : t[i] \in Range(s) \cup {c}
  BY <1>1 DEF AnsweredBy, Range
<1>3. \A i \in DOMAIN s : s[i] = Head(s) \/ s[i] \in Range(t)
  BY <1>1 DEF AnsweredBy, Range
<1>4. c \in Range(t)
  BY <1>1 DEF AnsweredBy, Range
<1>5. Range(t) \subseteq Range(s) \cup {c} /\ Range(s) \cup {c} \subseteq Range(t) \cup {Head(s)}
  BY <1>2, <1>3, <1>4 DEF Range
<1> QED
  BY <1>5 DEF t

LEMMA TailSet ==
  ASSUME NEW s \in Seq(Call), s # <<>>
  PROVE  /\ Range(Tail(s) \o <<>>) \subseteq Range(s)
         /\ Range(s) \subseteq Range(Tail(s) \o <<>>) \cup {Head(s)}
         /\ Head(s) \in Range(s) /\ Head(s) \in Call
<1> DEFINE t == Tail(s)
<1>1. t \in Seq(Call) /\ t \o <<>> = t /\ Len(s) \in Nat \ {0} /\ Len(t) = Len(s) - 1
      /\ (\A i \in 1..(Len(s) - 1) : t[i] = s[i + 1]) /\ Head(s) = s[1]
      /\ DOMAIN s = 1..Len(s) /\ DOMAIN t = 1..Len(t) /\ s[1] \in Call
  OBVIOUS
<1> HIDE DEF t
<1>2. \A i \in DOMAIN t : i + 1 \in DOMAIN s /\ t[i] = s[i + 1]
  BY <1>1
<1>3. \A i \in DOMAIN s : i = 1 \/ (i - 1 \in DOMAIN t /\ t[i - 1] = s[i])
  <2>1. \A i \in 1..Len(s) : i = 1 \/ (i - 1 \in 1..(Len(s) - 1) /\ i - 1 + 1 = i)
    BY <1>1
  <2> QED
    BY <1>1, <2>1
<1>4. Range(t) \subseteq Range(s) /\ Range(s) \subseteq Range(t) \cup {Head(s)}
  <2>1. \A i \in DOMAIN t : t[i] \in Range(s)
    BY <1>2 DEF Range
  <2>2. \A i \in DOMAIN s : s[i] \in Range(t) \cup {Head(s)}
    BY <1>1, <1>3 DEF Range
  <2> QED
    BY <2>1, <2>2 DEF Range
<1>5. Head(s) \in Range(s) /\ Head(s) \in Call
  BY <1>1 DEF Range
<1> QED
  BY <1>1, <1>4, <1>5 DEF t

LEMMA LoginSet ==
  ASSUME NEW s \in Seq(Call), s # <<>>, NEW ps \in Seq(Path)
  PROVE  /\ \A c \in Range(Tail(s) \o getWalletData(ps)) :
               c \in Range(s) \/ (c.cmd = "open_wallet" /\ c.then = "login")
         /\ Range(s) \subseteq Range(Tail(s) \o getWalletData(ps)) \cup {Head(s)}
<1> DEFINE new == getWalletData(ps)
           t   == Tail(s) \o new
<1>1. new \in Seq(Call) /\ \A k \in DOMAIN new : new[k].cmd = "open_wallet" /\ new[k].then = "login"
  BY LoginCalls
<1> HIDE DEF new
<1>2. Shift(s, t, 1, new)
  BY <1>1, ReplyShift
<1> HIDE DEF t
<1>3. \A i \in DOMAIN s : i > 1 => i - 1 \in DOMAIN t /\ t[i - 1] = s[i]
  BY <1>1, <1>2, ShiftIndex
<1>4. \A i \in DOMAIN t : \/ i + 1 \in DOMAIN s /\ t[i] = s[i + 1]
                          \/ i + 1 > Len(s) /\ \E k \in DOMAIN new : t[i] = new[k]
  BY <1>1, <1>2, ShiftIndex
<1>5. Head(s) = s[1] /\ \A i \in DOMAIN s : i = 1 \/ i > 1
  OBVIOUS
<1>6. \A c \in Range(t) : c \in Range(s) \/ (c.cmd = "open_wallet" /\ c.then = "login")
  BY <1>1, <1>4 DEF Range
<1>7. Range(s) \subseteq Range(t) \cup {Head(s)}
  BY <1>3, <1>5 DEF Range
<1> QED
  BY <1>6, <1>7 DEF t, new

(***************************************************************************)
(* Quitting.                                                               *)
(***************************************************************************)

QuitCall(c) == \/ c.cmd \in {"store_app_data", "on_request_quit"}
               \/ c.cmd \in {"store_secure_app_data", "close_wallet"} /\ c.then = "quit"

\* Only a request to quit leads to the calls of a quit.  A quit that nothing has
\* disturbed has one call on its way: that which stores the promised list, and
\* after it those that leave the file alone.
QuitInv ==
  /\ done \/ (\E c \in Range(calls) : QuitCall(c)) => onQuitRequest
  /\ promise # NoPromise =>
       /\ onQuitRequest
       /\ \/ \E c \in Call : /\ calls = <<c>> /\ c.cmd = "store_secure_app_data" /\ c.then = "quit"
                             /\ c.wallets = promise /\ ~done
          \/ /\ \/ calls = <<>>
                \/ \E c \in Call : calls = <<c>> /\ QuitCall(c) /\ c.cmd # "store_secure_app_data"
             /\ file # NoFile /\ file.wallets = promise

LEMMA InitQuit == Init => QuitInv
<1>1. SUFFICES ASSUME Init PROVE QuitInv
  OBVIOUS
<1>2. calls = <<[cmd |-> "have_secure_app_data"]>> /\ ~done /\ promise = NoPromise
  BY <1>1 DEF Init, StartUpCalls
<1>3. \A c \in Range(calls) : c.cmd = "have_secure_app_data"
  BY <1>2 DEF Range
<1> QED
  BY <1>2, <1>3 DEF QuitInv, QuitCall

LEMMA QuitStep == TypeInv /\ QuitInv /\ [Next]_vars => QuitInv'
<1>1. SUFFICES ASSUME TypeInv, QuitInv, [Next]_vars PROVE QuitInv'
  OBVIOUS
<1>2. calls \in Seq(Call)
  BY <1>1 DEF TypeInv, GoodCalls
<1>3. ASSUME calls # <<>>
      PROVE  /\ Head(calls) \in Range(calls) /\ Head(calls) \in Call
             /\ \A c \in Call : calls = <<c>> => c = Head(calls) /\ Tail(calls) = <<>>
  <2>1. Head(calls) \in Range(calls) /\ Head(calls) \in Call
    BY <1>2, <1>3, TailSet
  <2>2. \A c \in Call : Head(<<c>>) = c /\ Tail(<<c>>) = <<>>
    OBVIOUS
  <2> QED
    BY <2>1, <2>2
\* A call that is no part of a quit is made or answered.
<1>4. ASSUME NEW c \in Call, Ask(<<c>>), ~QuitCall(c), promise' = NoPromise,
             done' = done, onQuitRequest' = onQuitRequest
      PROVE  QuitInv'
  <2>1. Range(calls') = Range(calls) \cup {c}
    BY <1>2, <1>4, AskedSet DEF Ask
  <2> QED
    BY <1>1, <1>4, <2>1 DEF QuitInv
<1>5. ASSUME calls' = calls, promise' = NoPromise, done' = done, onQuitRequest' = onQuitRequest
      PROVE  QuitInv'
  BY <1>1, <1>5 DEF QuitInv
<1>6. ASSUME calls # <<>>, ~QuitCall(Head(calls)), Head(calls).cmd # "store_secure_app_data"
      PROVE  promise = NoPromise
  BY <1>1, <1>3, <1>6 DEF QuitInv
<1>7. ASSUME calls # <<>>, promise' = NoPromise,
             \A c \in Range(calls') : c \in Range(calls) \/ ~QuitCall(c),
             done' = done, onQuitRequest' = onQuitRequest
      PROVE  QuitInv'
  BY <1>1, <1>7 DEF QuitInv
<1>8. ASSUME calls # <<>>, Reply(<<>>)
      PROVE  Range(calls') \subseteq Range(calls)
  BY <1>2, <1>8, TailSet DEF Reply
<1>9. ASSUME NEW c \in Call, calls # <<>>, Reply(<<c>>)
      PROVE  Range(calls') \subseteq Range(calls) \cup {c}
  BY <1>2, <1>9, RepliedSet DEF Reply
<1>u. ASSUME UserActs
      PROVE  promise' = NoPromise /\ done' = done /\ onQuitRequest' = onQuitRequest
  BY <1>u DEF UserActs, backend
<1>a. CASE onSubmitCreatePass
  <2>1. PICK p \in Pass : Ask(<<[cmd |-> "set_master_password", pass |-> p, then |-> "reg"]>>)
    BY <1>a DEF onSubmitCreatePass
  <2>2. ~QuitCall([cmd |-> "set_master_password", pass |-> p, then |-> "reg"])
    BY DEF QuitCall
  <2> QED
    BY <1>a, <1>u, <1>4, <2>1, <2>2, CallsMade DEF onSubmitCreatePass
<1>b. CASE onSkipCreatePass \/ selectWallet \/ drop
  BY <1>b, <1>u, <1>5 DEF onSkipCreatePass, selectWallet, drop
<1>c. CASE onSubmitAuthPass
  <2>1. PICK p \in AnyPass, k \in {"check_master_password", "get_secure_app_data"} :
           Ask(<<[cmd |-> k, pass |-> p]>>)
    BY <1>c DEF onSubmitAuthPass, AnyPass
  <2>2. ~QuitCall([cmd |-> k, pass |-> p])
    BY DEF QuitCall
  <2> QED
    BY <1>c, <1>u, <1>4, <2>1, <2>2, CallsMade DEF onSubmitAuthPass
<1>d. CASE dropSecureAppData
  <2>1. ~QuitCall([cmd |-> "drop_secure_app_data"])
    BY DEF QuitCall
  <2> QED
    BY <1>d, <1>u, <1>4, <2>1, CallsMade DEF dropSecureAppData
<1>e. CASE onSubmitChangePass
  <2>1. PICK p \in AnyPass : Ask(IF p = Empty THEN <<>>
                                 ELSE <<[cmd |-> "set_master_password", pass |-> p, then |-> "change"]>>)
    BY <1>e DEF onSubmitChangePass, AnyPass
  <2>2. CASE p = Empty
    <3>1. calls' = calls
      BY <1>2, <2>1, <2>2 DEF Ask
    <3> QED
      BY <1>e, <1>u, <1>5, <3>1 DEF onSubmitChangePass
  <2>3. CASE p # Empty
    <3>1. p \in Pass
      BY <2>3 DEF AnyPass
    <3>2. ~QuitCall([cmd |-> "set_master_password", pass |-> p, then |-> "change"])
      BY DEF QuitCall
    <3> QED
      BY <1>e, <1>u, <1>4, <2>1, <2>3, <3>1, <3>2, CallsMade DEF onSubmitChangePass
  <2> QED
    BY <2>2, <2>3
<1>f. CASE logOut
  BY <1>f, <1>5 DEF logOut, Lock, backend
<1>f2. CASE idle
  BY <1>1, <1>f2 DEF idle, Lock, backend, disk, QuitInv
<1>g. CASE openWallet
  <2>1. PICK p \in Path : Ask(<<[cmd |-> "open_wallet", path |-> p, then |-> "user"]>>)
    BY <1>g DEF openWallet
  <2>2. ~QuitCall([cmd |-> "open_wallet", path |-> p, then |-> "user"])
    BY DEF QuitCall
  <2> QED
    BY <1>g, <1>u, <1>4, <2>1, <2>2, CallsMade DEF openWallet
<1>i. CASE closeWallet
  <2>1. PICK id \in Ids(wallets) : Ask(<<closeWalletCall(id, "user", 0)>>)
    BY <1>i DEF closeWallet
  <2>2. id \in Nat
    BY <1>1, ListElements DEF TypeInv, GoodList, Ids
  <2>3. ~QuitCall(closeWalletCall(id, "user", 0))
    BY DEF QuitCall, closeWalletCall
  <2> QED
    BY <1>i, <1>u, <1>4, <2>1, <2>2, <2>3, CallsMade DEF closeWallet
<1>k. CASE quit_requested
  <2>1. ~onQuitRequest /\ onQuitRequest' = TRUE /\ done' = done
    BY <1>k DEF quit_requested, QuitGuard, backend
  <2>2. ~done /\ promise = NoPromise
    BY <1>1, <2>1 DEF QuitInv
  <2>3. CASE appPass # Empty /\ calls = <<>> /\ promise' = Paths(wallets)
    <3> DEFINE c == storeSecureAppData(wallets, "quit")
    <3>1. c \in Call /\ c.cmd = "store_secure_app_data" /\ c.then = "quit" /\ c.wallets = Paths(wallets)
      BY <1>1, StoreCall DEF TypeInv, GoodList
    <3>2. calls' = calls \o <<c>>
      BY <1>k, <2>3 DEF quit_requested, Ask
    <3> HIDE DEF c
    <3>3. calls' = <<c>>
      BY <2>3, <3>1, <3>2
    <3> QED
      BY <2>1, <2>2, <2>3, <3>1, <3>3 DEF QuitInv
  <2>4. CASE promise' = promise
    BY <2>1, <2>2, <2>4 DEF QuitInv
  <2> QED
    BY <1>k, <2>3, <2>4 DEF quit_requested
<1>l. CASE have_secure_app_data \/ check_master_password \/ drop_secure_app_data
  <2>1. /\ calls # <<>> /\ ~QuitCall(Head(calls)) /\ Head(calls).cmd # "store_secure_app_data"
        /\ Reply(<<>>)
    BY <1>l DEF have_secure_app_data, check_master_password, drop_secure_app_data, Answer, QuitCall
  <2>2. promise' = promise /\ done' = done /\ onQuitRequest' = onQuitRequest
    BY <1>l DEF have_secure_app_data, check_master_password, drop_secure_app_data, backend, history
  <2> QED
    BY <1>6, <1>7, <1>8, <2>1, <2>2
<1>m. CASE set_master_password
  <2> DEFINE c == storeSecureAppData(wallets, "nothing")
  <2>1. /\ calls # <<>> /\ ~QuitCall(Head(calls)) /\ Head(calls).cmd # "store_secure_app_data"
        /\ Reply(<<c>>)
    BY <1>m DEF set_master_password, Answer, QuitCall, StoreUnderNewPassword
  <2>2. promise' = promise /\ done' = done /\ onQuitRequest' = onQuitRequest
    BY <1>m DEF set_master_password, history
  <2>3. c \in Call /\ ~QuitCall(c)
    BY <1>1, StoreCall DEF TypeInv, GoodList, QuitCall
  <2> HIDE DEF c
  <2> QED
    BY <1>6, <1>7, <1>9, <2>1, <2>2, <2>3
\* The list is stored: if it is the promised one, the promise is kept from here on.
<1>n. CASE store_secure_app_data
  <2>1. /\ calls # <<>> /\ Head(calls).cmd = "store_secure_app_data"
        /\ file' = [pass |-> m_master_password, wallets |-> Head(calls).wallets]
        /\ promise' = promise /\ done' = done /\ onQuitRequest' = onQuitRequest
    BY <1>n DEF store_secure_app_data, Answer, backend, history
  <2>2. CASE Head(calls).then = "quit"
    <3>1. calls' = Tail(calls) \o <<storeAppData>> /\ Range(calls') \subseteq Range(calls) \cup {storeAppData}
      BY <1>n, <1>9, <2>1, <2>2, CallsMade DEF store_secure_app_data, Reply
    <3>2. onQuitRequest
      BY <1>1, <1>3, <2>1, <2>2 DEF QuitInv, QuitCall
    <3>3. storeAppData \in Call /\ storeAppData.cmd = "store_app_data"
      BY CallsMade
    <3>4. ASSUME promise # NoPromise
          PROVE  /\ calls' = <<storeAppData>> /\ file'.wallets = promise /\ file' # NoFile
      <4>1. Head(calls).wallets = promise /\ Tail(calls) = <<>>
        BY <1>1, <1>3, <2>1, <3>4 DEF QuitInv
      <4>2. file' \in SecureFile
        <5>1. TypeInv' /\ Head(calls) \in Call
          BY <1>1, <1>3, <2>1, TypeStep
        <5>2. Head(calls).wallets \in Seq(Path)
          BY <2>1, <5>1, CallFields
        <5> QED
          BY <1>1, <2>1, <5>2 DEF TypeInv, SecureFile, AnyPass
      <4>3. file' # NoFile
        BY <4>2, SessionAssumption
      <4>4. <<>> \o <<storeAppData>> = <<storeAppData>>
        BY <3>3
      <4>5. calls' = <<storeAppData>>
        BY <3>1, <4>1, <4>4
      <4>6. file'.wallets = promise
        BY <2>1, <4>1
      <4> QED
        BY <4>3, <4>5, <4>6
    <3> QED
      BY <2>1, <3>2, <3>3, <3>4 DEF QuitInv, QuitCall
  <2>3. CASE Head(calls).then # "quit"
    <3>1. Reply(<<>>)
      BY <1>n, <2>3 DEF store_secure_app_data
    <3>2. promise = NoPromise
      BY <1>1, <1>3, <2>1, <2>3 DEF QuitInv
    <3> QED
      BY <1>7, <1>8, <2>1, <3>1, <3>2
  <2> QED
    BY <2>2, <2>3
<1>p. CASE get_secure_app_data
  <2>1. /\ calls # <<>> /\ ~QuitCall(Head(calls)) /\ Head(calls).cmd # "store_secure_app_data"
    BY <1>p DEF get_secure_app_data, Answer, QuitCall
  <2>2. promise' = promise /\ done' = done /\ onQuitRequest' = onQuitRequest
    BY <1>p DEF get_secure_app_data, history
  <2>3. \A c \in Range(calls') : c \in Range(calls) \/ ~QuitCall(c)
    <3>1. CASE Reply(<<>>)
      BY <1>8, <2>1, <3>1
    <3>2. CASE file # NoFile /\ Reply(getWalletData(file.wallets))
      <4>1. file.wallets \in Seq(Path)
        BY <1>1, <3>2 DEF TypeInv, SecureFile
      <4>2. \A c \in Range(calls') : c \in Range(calls) \/ (c.cmd = "open_wallet" /\ c.then = "login")
        BY <1>2, <2>1, <3>2, <4>1, LoginSet DEF Reply
      <4> QED
        BY <4>2 DEF QuitCall
    <3> QED
      BY <1>p, <3>1, <3>2 DEF get_secure_app_data
  <2> QED
    BY <1>6, <1>7, <2>1, <2>2, <2>3
<1>r. CASE open_wallet
  <2>1. /\ calls # <<>> /\ ~QuitCall(Head(calls)) /\ Head(calls).cmd # "store_secure_app_data"
    BY <1>r DEF open_wallet, Answer, QuitCall
  <2>2. promise' = promise /\ done' = done /\ onQuitRequest' = onQuitRequest
    BY <1>r DEF open_wallet, history
  <2>3. \A c \in Range(calls') : c \in Range(calls) \/ ~QuitCall(c)
    <3>1. Loaded(Head(calls).path).id = m_wallet_id_counter
      BY DEF Loaded
    <3> DEFINE c == closeWalletCall(m_wallet_id_counter, "home", 0)
               e == [cmd |-> "run_wallet", id |-> m_wallet_id_counter]
    <3>2. Reply(<<c>>) \/ Reply(<<e>>) \/ Reply(<<>>)
      BY <1>r, <3>1 DEF open_wallet, CloseDuplicate
    <3>3. c \in Call /\ ~QuitCall(c) /\ e \in Call /\ ~QuitCall(e)
      BY <1>1, CallsMade DEF TypeInv, closeWalletCall, QuitCall
    <3> HIDE DEF c, e
    <3> QED
      BY <1>8, <1>9, <2>1, <3>2, <3>3
  <2> QED
    BY <1>6, <1>7, <2>1, <2>2, <2>3
<1>s. CASE open_wallet_login
  <2>1. /\ calls # <<>> /\ ~QuitCall(Head(calls)) /\ Head(calls).cmd # "store_secure_app_data"
        /\ Reply(<<>>)
    BY <1>s DEF open_wallet_login, Answer, QuitCall
  <2>2. promise' = promise /\ done' = done /\ onQuitRequest' = onQuitRequest
    BY <1>s DEF open_wallet_login, history
  <2> QED
    BY <1>6, <1>7, <1>8, <2>1, <2>2
\* The page stores its list after a wallet was opened or closed.
<1>10. ASSUME NEW ws \in Seq(Wallet), calls # <<>>, Reply(storeIf(appPass, ws))
       PROVE  \A c \in Range(calls') : c \in Range(calls) \/ ~QuitCall(c)
  <2> DEFINE c == storeSecureAppData(ws, "nothing")
  <2>1. Reply(<<c>>) \/ Reply(<<>>)
    BY <1>10 DEF storeIf
  <2>2. c \in Call /\ ~QuitCall(c)
    BY StoreCall DEF QuitCall
  <2> HIDE DEF c
  <2> QED
    BY <1>8, <1>9, <1>10, <2>1, <2>2
<1>t. CASE run_wallet
  <2>1. /\ calls # <<>> /\ ~QuitCall(Head(calls)) /\ Head(calls).cmd # "store_secure_app_data"
        /\ (Reply(<<>>) \/ Reply(storeIf(appPass, wallets)))
    BY <1>t DEF run_wallet, Answer, QuitCall
  <2>2. promise' = promise /\ done' = done /\ onQuitRequest' = onQuitRequest
    BY <1>t DEF run_wallet, backend, history
  <2>3. wallets \in Seq(Wallet)
    BY <1>1 DEF TypeInv, GoodList
  <2>4. \A c \in Range(calls') : c \in Range(calls) \/ ~QuitCall(c)
    BY <1>8, <1>10, <2>1, <2>3
  <2> QED
    BY <1>6, <1>7, <2>1, <2>2, <2>4
<1>v. CASE close_wallet
  <2> DEFINE left == Without(wallets, currentWallet)
  <2>1. /\ calls # <<>> /\ ~QuitCall(Head(calls)) /\ Head(calls).cmd # "store_secure_app_data"
        /\ (Reply(<<>>) \/ Reply(storeIf(appPass, left)))
    BY <1>v DEF close_wallet, Answer, QuitCall
  <2>2. promise' = promise /\ done' = done /\ onQuitRequest' = onQuitRequest
    BY <1>v DEF close_wallet
  <2>3. left \in Seq(Wallet)
    BY <1>1, GoodWithout DEF TypeInv, GoodList
  <2> HIDE DEF left
  <2>4. \A c \in Range(calls') : c \in Range(calls) \/ ~QuitCall(c)
    BY <1>8, <1>10, <2>1, <2>3
  <2> QED
    BY <1>6, <1>7, <2>1, <2>2, <2>4
\* The calls after the lists are stored: one follows the other, the file stays.
<1>11. ASSUME calls # <<>>, QuitCall(Head(calls)), Head(calls).cmd # "store_secure_app_data",
              \/ Reply(<<>>)
              \/ \E c \in Call : /\ Reply(<<c>>)
                                 /\ QuitCall(c) /\ c.cmd # "store_secure_app_data",
              promise' = promise, onQuitRequest' = onQuitRequest, file' = file
       PROVE  QuitInv'
  <2>1. onQuitRequest
    BY <1>1, <1>3, <1>11 DEF QuitInv
  <2>2. SUFFICES ASSUME promise # NoPromise
                 PROVE  /\ \/ calls' = <<>>
                           \/ \E c \in Call : calls' = <<c>> /\ QuitCall(c) /\ c.cmd # "store_secure_app_data"
                        /\ file # NoFile /\ file.wallets = promise
    BY <1>11, <2>1 DEF QuitInv
  <2>3. Tail(calls) = <<>> /\ file # NoFile /\ file.wallets = promise
    BY <1>1, <1>3, <1>11, <2>2 DEF QuitInv
  <2>4. \A c \in Call : <<>> \o <<c>> = <<c>>
    OBVIOUS
  <2>5. <<>> \o <<>> = <<>>
    OBVIOUS
  <2> QED
    BY <1>11, <2>3, <2>4, <2>5 DEF Reply
<1>12. ASSUME NEW ws, GoodList(ws, m_wallet_id_counter)
       PROVE  /\ recursionCloseWallets(ws) \in Call /\ QuitCall(recursionCloseWallets(ws))
              /\ recursionCloseWallets(ws).cmd # "store_secure_app_data"
  BY <1>1, <1>12, QuitCallMade DEF TypeInv, QuitCall
<1>w. CASE store_app_data
  <2>1. calls # <<>> /\ QuitCall(Head(calls)) /\ Head(calls).cmd # "store_secure_app_data"
        /\ Reply(<<recursionCloseWallets(wallets)>>)
    BY <1>w DEF store_app_data, Answer, QuitCall
  <2>2. promise' = promise /\ onQuitRequest' = onQuitRequest /\ file' = file
    BY <1>w DEF store_app_data, history
  <2>3. GoodList(wallets, m_wallet_id_counter)
    BY <1>1 DEF TypeInv
  <2> QED
    BY <1>11, <1>12, <2>1, <2>2, <2>3
<1>x. CASE close_wallet_quit
  <2>1. calls # <<>> /\ QuitCall(Head(calls)) /\ Head(calls).cmd # "store_secure_app_data"
        /\ (Reply(<<recursionCloseWallets(wallets')>>) \/ Reply(<<>>))
    BY <1>x DEF close_wallet_quit, Answer, QuitCall
  <2>2. promise' = promise /\ onQuitRequest' = onQuitRequest /\ file' = file
    BY <1>x DEF close_wallet_quit, disk, history
  <2>3. GoodList(wallets', m_wallet_id_counter)
    <3>1. TypeInv' /\ m_wallet_id_counter' = m_wallet_id_counter
      BY <1>1, <1>x, TypeStep DEF close_wallet_quit
    <3> QED
      BY <3>1 DEF TypeInv
  <2> QED
    BY <1>11, <1>12, <2>1, <2>2, <2>3
<1>y. CASE on_request_quit
  <2>1. calls # <<>> /\ QuitCall(Head(calls)) /\ Head(calls).cmd # "store_secure_app_data"
        /\ Reply(<<>>)
    BY <1>y DEF on_request_quit, Answer, QuitCall
  <2>2. promise' = promise /\ onQuitRequest' = onQuitRequest /\ file' = file
    BY <1>y DEF on_request_quit, disk, history
  <2> QED
    BY <1>11, <2>1, <2>2
<1>z. CASE Restart
  <2>1. calls' = <<[cmd |-> "have_secure_app_data"]>> /\ ~done' /\ promise' = NoPromise
    BY <1>z DEF Restart, StartUpCalls
  <2>2. \A c \in Range(calls') : c.cmd = "have_secure_app_data"
    BY <2>1 DEF Range
  <2> QED
    BY <2>1, <2>2 DEF QuitInv, QuitCall
<1>13. CASE UNCHANGED vars
  BY <1>1, <1>13 DEF vars, disk, backend, history, QuitInv
<1> QED
  BY <1>1, <1>a, <1>b, <1>c, <1>d, <1>e, <1>f, <1>f2, <1>g, <1>i, <1>k, <1>l, <1>m, <1>n,
     <1>p, <1>r, <1>s, <1>t, <1>v, <1>w, <1>x, <1>y, <1>z, <1>13
     DEF Next, User, Backend

LEMMA QuitInvariant == Spec => []QuitInv
BY InitQuit, QuitStep, TypeInvariant, PTL DEF Spec

\* A quit that nothing disturbs leaves the wallets that were shown in the
\* secure file, whatever they are and however many (app.component.ts:97).
THEOREM QuitKeepsWallets == Spec => []QuitSaves
<1>1. QuitInv => QuitSaves
  BY DEF QuitInv, QuitSaves
<1> QED
  BY <1>1, QuitInvariant, PTL

(***************************************************************************)
(* The list of wallets.                                                    *)
(***************************************************************************)

HomeClose(c) == c.cmd = "close_wallet" /\ c.then = "home"

\* The list is open in the backend, and what is open there and not listed is
\* about to be closed as a duplicate.
ListInv ==
  /\ \A v, w \in m_wallets : v.id = w.id => v = w
  /\ ~strayed /\ ~onQuitRequest =>
       /\ Shown(wallets) \subseteq m_wallets
       /\ \A w \in m_wallets \ Shown(wallets) :
             \E c \in Range(calls) : HomeClose(c) /\ c.id = w.id
       /\ \A c \in Range(calls), w \in Shown(wallets) : HomeClose(c) => c.id # w.id

LEMMA InitList == Init => ListInv
<1>1. SUFFICES ASSUME Init PROVE ListInv
  OBVIOUS
<1>2. m_wallets = {} /\ Shown(wallets) = {}
  BY <1>1 DEF Init, Shown
<1> QED
  BY <1>2 DEF ListInv

LEMMA ListStep == TypeInv /\ QuitInv /\ ListInv /\ [Next]_vars => ListInv'
<1>1. SUFFICES ASSUME TypeInv, QuitInv, ListInv, [Next]_vars PROVE ListInv'
  OBVIOUS
<1> DEFINE n == m_wallet_id_counter
<1>2. /\ calls \in Seq(Call) /\ n \in Nat /\ GoodList(wallets, n) /\ wallets \in Seq(Wallet)
      /\ \A w \in m_wallets : w \in Wallet /\ w.id \in Nat /\ w.id < n
  BY <1>1 DEF TypeInv, GoodCalls, GoodList, Wallet
<1>3. \A c \in Range(calls) : c \in Call /\ (c.cmd = "close_wallet" => c.id \in Nat /\ c.id < n)
  BY <1>1, <1>2, CallFields DEF TypeInv, GoodCalls, Range
<1>4. \A w \in Shown(wallets) : w \in Wallet /\ w.id \in Nat /\ w.id < n
  BY <1>2, ListElements DEF GoodList, Shown
<1> HIDE DEF n
<1>5. ASSUME calls # <<>>, Reply(<<>>)
      PROVE  Range(calls') \subseteq Range(calls) /\ Range(calls) \subseteq Range(calls') \cup {Head(calls)}
  BY <1>2, <1>5, TailSet DEF Reply
<1>6. ASSUME NEW c \in Call, calls # <<>>, Reply(<<c>>)
      PROVE  /\ Range(calls') \subseteq Range(calls) \cup {c}
             /\ Range(calls) \cup {c} \subseteq Range(calls') \cup {Head(calls)}
  BY <1>2, <1>6, RepliedSet DEF Reply
<1>7. ASSUME NEW c \in Call, Ask(<<c>>)
      PROVE  Range(calls') = Range(calls) \cup {c}
  BY <1>2, <1>7, AskedSet DEF Ask
\* Steps that neither change the lists nor the duplicates to be closed.
<1>8. ASSUME Shown(wallets') = Shown(wallets), m_wallets' = m_wallets, strayed' = strayed,
             onQuitRequest' = onQuitRequest,
             \A c \in Range(calls) : HomeClose(c) => c \in Range(calls'),
             \A c \in Range(calls') : HomeClose(c) => c \in Range(calls)
      PROVE  ListInv'
  BY <1>1, <1>8 DEF ListInv
<1>9. ASSUME NEW ws \in Seq(Wallet), calls # <<>>, ~HomeClose(Head(calls)), Reply(storeIf(appPass, ws))
      PROVE  /\ \A c \in Range(calls) : HomeClose(c) => c \in Range(calls')
             /\ \A c \in Range(calls') : HomeClose(c) => c \in Range(calls)
  <2> DEFINE c == storeSecureAppData(ws, "nothing")
  <2>1. Reply(<<c>>) \/ Reply(<<>>)
    BY <1>9 DEF storeIf
  <2>2. c \in Call /\ ~HomeClose(c)
    BY StoreCall DEF HomeClose
  <2> HIDE DEF c
  <2> QED
    BY <1>5, <1>6, <1>9, <2>1, <2>2
<1>10. ASSUME NEW p \in Path, LoadWallet(p)
       PROVE  /\ m_wallets' = m_wallets \cup {Loaded(p)} /\ Loaded(p) \in Wallet /\ Loaded(p).id = n
              /\ \A v, w \in m_wallets' : v.id = w.id => v = w
  <2>1. m_wallets' = m_wallets \cup {Loaded(p)} /\ Loaded(p) \in Wallet /\ Loaded(p).id = n
    BY <1>2, <1>10 DEF LoadWallet, Loaded, Wallet, n
  <2>2. \A w \in m_wallets : w.id # n
    BY <1>2
  <2> QED
    BY <1>1, <2>1, <2>2 DEF ListInv
\* A new wallet is listed.
<1>11. ASSUME NEW p \in Path, LoadWallet(p), wallets' = Append(wallets, Loaded(p)),
              strayed' = strayed, onQuitRequest' = onQuitRequest,
              \A c \in Range(calls) : HomeClose(c) => c \in Range(calls'),
              \A c \in Range(calls') : HomeClose(c) => c \in Range(calls)
       PROVE  ListInv'
  <2>1. /\ m_wallets' = m_wallets \cup {Loaded(p)} /\ Loaded(p) \in Wallet /\ Loaded(p).id = n
        /\ \A v, w \in m_wallets' : v.id = w.id => v = w
    BY <1>10, <1>11
  <2>2. Shown(wallets') = Shown(wallets) \cup {Loaded(p)}
    BY <1>2, <1>11, <2>1, GoodAppend DEF n
  <2>3. \A c \in Range(calls) : HomeClose(c) => c.id # n
    BY <1>2, <1>3 DEF HomeClose
  <2>4. SUFFICES ASSUME ~strayed, ~onQuitRequest
                 PROVE  /\ Shown(wallets') \subseteq m_wallets'
                        /\ \A w \in m_wallets' \ Shown(wallets') :
                              \E c \in Range(calls') : HomeClose(c) /\ c.id = w.id
                        /\ \A c \in Range(calls'), w \in Shown(wallets') : HomeClose(c) => c.id # w.id
    BY <1>11, <2>1 DEF ListInv
  <2> QED
    BY <1>1, <1>11, <2>1, <2>2, <2>3, <2>4 DEF ListInv
<1>u. ASSUME UserActs
      PROVE  m_wallets' = m_wallets /\ onQuitRequest' = onQuitRequest
  BY <1>u DEF UserActs, backend
<1>v. ASSUME NEW c \in Call, Ask(<<c>>), ~HomeClose(c), UserActs, wallets' = wallets, strayed' = strayed
      PROVE  ListInv'
  BY <1>7, <1>8, <1>u, <1>v
<1>w. ASSUME calls' = calls, UserActs, Shown(wallets') = Shown(wallets), strayed' = strayed
      PROVE  ListInv'
  BY <1>8, <1>u, <1>w
<1>a1. CASE onSubmitCreatePass
  <2>1. PICK p \in Pass : Ask(<<[cmd |-> "set_master_password", pass |-> p, then |-> "reg"]>>)
    BY <1>a1 DEF onSubmitCreatePass
  <2>2. ~HomeClose([cmd |-> "set_master_password", pass |-> p, then |-> "reg"])
    BY DEF HomeClose
  <2> QED
    BY <1>a1, <1>v, <2>1, <2>2, CallsMade DEF onSubmitCreatePass, list
<1>a2. CASE onSkipCreatePass \/ selectWallet
  BY <1>a2, <1>w DEF onSkipCreatePass, selectWallet, list
<1>a3. CASE onSubmitAuthPass
  <2>1. PICK p \in AnyPass, k \in {"check_master_password", "get_secure_app_data"} :
           Ask(<<[cmd |-> k, pass |-> p]>>)
    BY <1>a3 DEF onSubmitAuthPass, AnyPass
  <2>2. ~HomeClose([cmd |-> k, pass |-> p])
    BY DEF HomeClose
  <2> QED
    BY <1>a3, <1>v, <2>1, <2>2, CallsMade DEF onSubmitAuthPass, list
<1>a4. CASE dropSecureAppData
  BY <1>1, <1>a4, <1>u DEF dropSecureAppData, ListInv
<1>a5. CASE onSubmitChangePass
  <2>1. PICK p \in AnyPass : Ask(IF p = Empty THEN <<>>
                                 ELSE <<[cmd |-> "set_master_password", pass |-> p, then |-> "change"]>>)
    BY <1>a5 DEF onSubmitChangePass, AnyPass
  <2>2. CASE p = Empty
    <3>1. calls' = calls
      BY <1>2, <2>1, <2>2 DEF Ask
    <3> QED
      BY <1>a5, <1>w, <3>1 DEF onSubmitChangePass, list
  <2>3. CASE p # Empty
    <3>1. p \in Pass
      BY <2>3 DEF AnyPass
    <3>2. ~HomeClose([cmd |-> "set_master_password", pass |-> p, then |-> "change"])
      BY DEF HomeClose
    <3> QED
      BY <1>a5, <1>v, <2>1, <2>3, <3>1, <3>2, CallsMade DEF onSubmitChangePass, list
  <2> QED
    BY <2>2, <2>3
<1>a6. CASE logOut \/ idle
  BY <1>8, <1>a6 DEF logOut, idle, Lock, backend, list
<1>a7. CASE openWallet
  <2>1. PICK p \in Path : Ask(<<[cmd |-> "open_wallet", path |-> p, then |-> "user"]>>)
    BY <1>a7 DEF openWallet
  <2>2. ~HomeClose([cmd |-> "open_wallet", path |-> p, then |-> "user"])
    BY DEF HomeClose
  <2> QED
    BY <1>a7, <1>v, <2>1, <2>2, CallsMade DEF openWallet, list
<1>a8. CASE closeWallet
  <2>1. PICK id \in Ids(wallets) : Ask(<<closeWalletCall(id, "user", 0)>>)
    BY <1>a8 DEF closeWallet
  <2>2. id \in Nat
    BY <1>2, ListElements DEF Ids
  <2>3. ~HomeClose(closeWalletCall(id, "user", 0))
    BY DEF HomeClose, closeWalletCall
  <2> QED
    BY <1>a8, <1>v, <2>1, <2>2, <2>3, CallsMade DEF closeWallet
<1>a9. CASE drop
  <2>1. Shown(wallets') = Shown(wallets)
    BY <1>2, <1>a9, GoodMove DEF drop
  <2> QED
    BY <1>a9, <1>w, <2>1 DEF drop
<1>a10. CASE quit_requested
  BY <1>1, <1>a10 DEF quit_requested, ListInv, backend
<1>b1. CASE have_secure_app_data \/ check_master_password \/ drop_secure_app_data
  <2>1. calls # <<>> /\ ~HomeClose(Head(calls)) /\ Reply(<<>>)
    BY <1>b1 DEF have_secure_app_data, check_master_password, drop_secure_app_data, Answer, HomeClose
  <2>2. wallets' = wallets /\ m_wallets' = m_wallets /\ strayed' = strayed /\ onQuitRequest' = onQuitRequest
    BY <1>b1 DEF have_secure_app_data, check_master_password, drop_secure_app_data, backend, list, history
  <2> QED
    BY <1>5, <1>8, <2>1, <2>2
<1>b2. CASE set_master_password
  <2> DEFINE c == storeSecureAppData(wallets, "nothing")
  <2>1. calls # <<>> /\ ~HomeClose(Head(calls)) /\ Reply(<<c>>)
    BY <1>b2 DEF set_master_password, Answer, HomeClose, StoreUnderNewPassword
  <2>2. wallets' = wallets /\ m_wallets' = m_wallets /\ strayed' = strayed /\ onQuitRequest' = onQuitRequest
    BY <1>b2 DEF set_master_password, list, history
  <2>3. c \in Call /\ ~HomeClose(c)
    BY <1>2, StoreCall DEF HomeClose
  <2> HIDE DEF c
  <2> QED
    BY <1>6, <1>8, <2>1, <2>2, <2>3
<1>b3. CASE store_secure_app_data
  <2>1. calls # <<>> /\ ~HomeClose(Head(calls)) /\ (Reply(<<storeAppData>>) \/ Reply(<<>>))
    BY <1>b3 DEF store_secure_app_data, Answer, HomeClose
  <2>2. wallets' = wallets /\ m_wallets' = m_wallets /\ strayed' = strayed /\ onQuitRequest' = onQuitRequest
    BY <1>b3 DEF store_secure_app_data, backend, list, history
  <2>3. storeAppData \in Call /\ ~HomeClose(storeAppData)
    BY CallsMade DEF HomeClose
  <2> QED
    BY <1>5, <1>6, <1>8, <2>1, <2>2, <2>3
<1>b4. CASE get_secure_app_data
  <2>1. calls # <<>> /\ ~HomeClose(Head(calls))
    BY <1>b4 DEF get_secure_app_data, Answer, HomeClose
  <2>2. wallets' = wallets /\ m_wallets' = m_wallets /\ strayed' = strayed /\ onQuitRequest' = onQuitRequest
    BY <1>b4 DEF get_secure_app_data, list, history
  <2>3. CASE Reply(<<>>)
    BY <1>5, <1>8, <2>1, <2>2, <2>3
  <2>4. CASE file # NoFile /\ Reply(getWalletData(file.wallets))
    <3>1. file.wallets \in Seq(Path)
      BY <1>1, <2>4 DEF TypeInv, SecureFile
    <3>2. /\ \A c \in Range(calls') : c \in Range(calls) \/ (c.cmd = "open_wallet" /\ c.then = "login")
          /\ Range(calls) \subseteq Range(calls') \cup {Head(calls)}
      BY <1>2, <2>1, <2>4, <3>1, LoginSet DEF Reply
    <3> QED
      BY <1>8, <2>1, <2>2, <3>2 DEF HomeClose
  <2> QED
    BY <1>b4, <2>3, <2>4 DEF get_secure_app_data
<1>b5. CASE open_wallet
  <2> DEFINE p == Head(calls).path
             e == [cmd |-> "run_wallet", id |-> n]
             c == closeWalletCall(n, "home", 0)
  <2>1. calls # <<>> /\ ~HomeClose(Head(calls))
    BY <1>b5 DEF open_wallet, Answer, HomeClose
  <2>2. p \in Path
    <3>1. Head(calls) \in Call /\ Head(calls).cmd = "open_wallet"
      BY <1>2, <1>b5, <2>1, TailSet DEF open_wallet, Answer
    <3> QED
      BY <3>1, CallFields
  <2>3. strayed' = strayed /\ onQuitRequest' = onQuitRequest
    BY <1>b5 DEF open_wallet, history
  <2>4. Loaded(p).id = n
    BY DEF Loaded, n
  <2>5. \/ LoadWallet(p) /\ Reply(<<c>>) /\ wallets' = wallets
        \/ LoadWallet(p) /\ Reply(<<e>>) /\ wallets' = Append(wallets, Loaded(p))
        \/ FailToLoad(p) /\ Reply(<<>>) /\ wallets' = wallets
    BY <1>b5, <2>4 DEF open_wallet, CloseDuplicate
  <2>6. e \in Call /\ ~HomeClose(e) /\ c \in Call /\ HomeClose(c) /\ c.id = n
    BY <1>2, CallsMade DEF HomeClose, closeWalletCall
  <2> HIDE DEF e, c, p
  <2>7. CASE LoadWallet(p) /\ Reply(<<c>>) /\ wallets' = wallets
    <3>1. /\ m_wallets' = m_wallets \cup {Loaded(p)}
          /\ \A v, w \in m_wallets' : v.id = w.id => v = w
      BY <1>10, <2>2, <2>7
    <3>2. /\ Range(calls') \subseteq Range(calls) \cup {c}
          /\ \A x \in Range(calls) \cup {c} : HomeClose(x) => x \in Range(calls')
      BY <1>6, <2>1, <2>6, <2>7
    <3>3. \A w \in Shown(wallets) : w.id # n
      BY <1>2, <1>4
    <3>4. SUFFICES ASSUME ~strayed, ~onQuitRequest
                   PROVE  /\ Shown(wallets) \subseteq m_wallets'
                          /\ \A w \in m_wallets' \ Shown(wallets) :
                                \E x \in Range(calls') : HomeClose(x) /\ x.id = w.id
                          /\ \A x \in Range(calls'), w \in Shown(wallets) : HomeClose(x) => x.id # w.id
      BY <2>3, <2>7, <3>1 DEF ListInv
    <3>5. /\ Shown(wallets) \subseteq m_wallets
          /\ \A w \in m_wallets \ Shown(wallets) :
                \E x \in Range(calls) : HomeClose(x) /\ x.id = w.id
          /\ \A x \in Range(calls), w \in Shown(wallets) : HomeClose(x) => x.id # w.id
      BY <1>1, <3>4 DEF ListInv
    <3>6. \E x \in Range(calls') : HomeClose(x) /\ x.id = Loaded(p).id
      BY <2>4, <2>6, <3>2
    <3> QED
      BY <2>6, <3>1, <3>2, <3>3, <3>5, <3>6
  <2>8. CASE LoadWallet(p) /\ Reply(<<e>>) /\ wallets' = Append(wallets, Loaded(p))
    BY <1>6, <1>11, <2>1, <2>2, <2>3, <2>6, <2>8
  <2>9. CASE FailToLoad(p) /\ Reply(<<>>) /\ wallets' = wallets
    <3>1. m_wallets' = m_wallets
      BY <2>9 DEF FailToLoad
    <3> QED
      BY <1>5, <1>8, <2>1, <2>3, <2>9, <3>1
  <2> QED
    BY <2>5, <2>7, <2>8, <2>9
<1>b6. CASE open_wallet_login
  <2> DEFINE p == Head(calls).path
  <2>1. calls # <<>> /\ ~HomeClose(Head(calls)) /\ Reply(<<>>)
    BY <1>b6 DEF open_wallet_login, Answer, HomeClose
  <2>2. p \in Path
    <3>1. Head(calls) \in Call /\ Head(calls).cmd = "open_wallet"
      BY <1>2, <1>b6, <2>1, TailSet DEF open_wallet_login, Answer
    <3> QED
      BY <3>1, CallFields
  <2>3. strayed' = strayed /\ onQuitRequest' = onQuitRequest
    BY <1>b6 DEF open_wallet_login, history
  <2>4. \/ LoadWallet(p) /\ wallets' = Append(wallets, Loaded(p))
        \/ FailToLoad(p) /\ wallets' = wallets
    BY <1>b6 DEF open_wallet_login, list
  <2> HIDE DEF p
  <2>5. /\ \A c \in Range(calls) : HomeClose(c) => c \in Range(calls')
        /\ \A c \in Range(calls') : HomeClose(c) => c \in Range(calls)
    BY <1>5, <2>1
  <2>6. CASE LoadWallet(p) /\ wallets' = Append(wallets, Loaded(p))
    BY <1>11, <2>2, <2>3, <2>5, <2>6
  <2>7. CASE FailToLoad(p) /\ wallets' = wallets
    <3>1. m_wallets' = m_wallets
      BY <2>7 DEF FailToLoad
    <3> QED
      BY <1>8, <2>3, <2>5, <2>7, <3>1
  <2> QED
    BY <2>4, <2>6, <2>7
<1>b7. CASE run_wallet
  <2>1. calls # <<>> /\ ~HomeClose(Head(calls)) /\ (Reply(<<>>) \/ Reply(storeIf(appPass, wallets)))
    BY <1>b7 DEF run_wallet, Answer, HomeClose
  <2>2. wallets' = wallets /\ m_wallets' = m_wallets /\ strayed' = strayed /\ onQuitRequest' = onQuitRequest
    BY <1>b7 DEF run_wallet, backend, history
  <2>3. /\ \A c \in Range(calls) : HomeClose(c) => c \in Range(calls')
        /\ \A c \in Range(calls') : HomeClose(c) => c \in Range(calls)
    BY <1>2, <1>5, <1>9, <2>1
  <2> QED
    BY <1>8, <2>2, <2>3
<1>b8. CASE close_wallet
  <2> DEFINE id   == Head(calls).id
             left == Without(wallets, currentWallet)
  <2>1. calls # <<>> /\ onQuitRequest' = onQuitRequest /\ m_wallets' = {w \in m_wallets : w.id # id}
    BY <1>b8 DEF close_wallet, Answer, Close
  <2>2. \A v, w \in m_wallets' : v.id = w.id => v = w
    BY <1>1, <2>1 DEF ListInv
  <2>3. left \in Seq(Wallet) /\ Shown(left) = {w \in Shown(wallets) : w.id # currentWallet}
    <3>1. GoodList(left, n) /\ Shown(left) = {w \in Shown(wallets) : w.id # currentWallet}
      BY <1>2, GoodWithout
    <3> QED
      BY <3>1 DEF GoodList
  <2> HIDE DEF left, id
  <2>4. \/ /\ ~HomeClose(Head(calls)) /\ wallets' = left /\ Reply(storeIf(appPass, left))
           /\ strayed' = (strayed \/ currentWallet # id)
        \/ /\ HomeClose(Head(calls)) /\ wallets' = wallets /\ strayed' = strayed /\ Reply(<<>>)
    BY <1>b8 DEF close_wallet, Answer, HomeClose, left, id, list
  <2>5. SUFFICES ASSUME ~strayed', ~onQuitRequest
                 PROVE  /\ Shown(wallets') \subseteq m_wallets'
                        /\ \A w \in m_wallets' \ Shown(wallets') :
                              \E x \in Range(calls') : HomeClose(x) /\ x.id = w.id
                        /\ \A x \in Range(calls'), w \in Shown(wallets') : HomeClose(x) => x.id # w.id
    BY <2>1, <2>2 DEF ListInv
  <2>6. /\ Shown(wallets) \subseteq m_wallets
        /\ \A w \in m_wallets \ Shown(wallets) :
              \E x \in Range(calls) : HomeClose(x) /\ x.id = w.id
        /\ \A x \in Range(calls), w \in Shown(wallets) : HomeClose(x) => x.id # w.id
    BY <1>1, <2>4, <2>5 DEF ListInv
  <2>7. CASE /\ ~HomeClose(Head(calls)) /\ wallets' = left /\ Reply(storeIf(appPass, left))
             /\ strayed' = (strayed \/ currentWallet # id)
    <3>1. /\ \A c \in Range(calls) : HomeClose(c) => c \in Range(calls')
          /\ \A c \in Range(calls') : HomeClose(c) => c \in Range(calls)
      BY <1>9, <2>1, <2>3, <2>7
    <3>2. Shown(wallets') = {w \in Shown(wallets) : w.id # id}
      BY <2>3, <2>5, <2>7
    <3> QED
      BY <2>1, <2>6, <3>1, <3>2
  <2>8. CASE HomeClose(Head(calls)) /\ wallets' = wallets /\ Reply(<<>>)
    <3>1. /\ Range(calls') \subseteq Range(calls)
          /\ Range(calls) \subseteq Range(calls') \cup {Head(calls)} /\ Head(calls) \in Range(calls)
      BY <1>2, <1>5, <2>1, <2>8, TailSet
    <3>2. \A w \in Shown(wallets) : w.id # id
      BY <2>6, <2>8, <3>1 DEF id
    <3>3. \A x \in Range(calls) : x.id # id => x \in Range(calls')
      BY <3>1 DEF id
    <3> QED
      BY <2>1, <2>6, <2>8, <3>1, <3>2, <3>3
  <2> QED
    BY <2>4, <2>7, <2>8
<1>b9. CASE store_app_data \/ close_wallet_quit \/ on_request_quit
  <2>1. calls # <<>> /\ QuitCall(Head(calls)) /\ onQuitRequest' = onQuitRequest
        /\ m_wallets' \subseteq m_wallets
    BY <1>b9 DEF store_app_data, close_wallet_quit, on_request_quit, Answer, QuitCall, backend, Close
  <2>2. onQuitRequest
    BY <1>1, <1>2, <2>1, TailSet DEF QuitInv
  <2> QED
    BY <1>1, <2>1, <2>2 DEF ListInv
<1>c1. CASE Restart
  <2>1. m_wallets' = {} /\ Shown(wallets') = {}
    BY <1>c1 DEF Restart, Shown
  <2> QED
    BY <2>1 DEF ListInv
<1>c2. CASE UNCHANGED vars
  BY <1>1, <1>c2 DEF vars, backend, list, history, ListInv
<1> QED
  BY <1>1, <1>a1, <1>a2, <1>a3, <1>a4, <1>a5, <1>a6, <1>a7, <1>a8, <1>a9, <1>a10, <1>b1, <1>b2,
     <1>b3, <1>b4, <1>b5, <1>b6, <1>b7, <1>b8, <1>b9, <1>c1, <1>c2 DEF Next, User, Backend

LEMMA ListInvariant == Spec => []ListInv
BY InitList, ListStep, TypeInvariant, QuitInvariant, PTL DEF Spec

\* With no call pending the list of the page is the list of the backend, unless
\* it was emptied at the lock screen or a close was answered while another
\* wallet was current (sidebar.component.ts:88).
THEOREM ListAgrees == Spec => []ListIsOpen
<1>1. TypeInv /\ ListInv => ListIsOpen
  <2>1. SUFFICES ASSUME TypeInv, ListInv, calls = <<>>, ~strayed, ~onQuitRequest
                 PROVE  {wallets[i] : i \in DOMAIN wallets} = m_wallets
    BY DEF ListIsOpen
  <2>2. Range(calls) = {}
    BY <2>1 DEF Range
  <2>3. Shown(wallets) = m_wallets
    BY <2>1, <2>2 DEF ListInv
  <2>4. Shown(wallets) = {wallets[i] : i \in DOMAIN wallets}
    BY <2>1 DEF Shown, TypeInv, GoodList
  <2> QED
    BY <2>3, <2>4
<1> QED
  BY <1>1, TypeInvariant, ListInvariant, PTL

=============================================================================
