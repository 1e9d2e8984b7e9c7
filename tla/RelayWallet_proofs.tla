------------------------- MODULE RelayWallet_proofs -------------------------
(***************************************************************************)
(* Proofs about RelayWallet for any devices, holders, tokens, amounts and  *)
(* times.                                                                  *)
(***************************************************************************)
EXTENDS RelayWallet, FiniteSetTheorems, TLAPS

\* A wallet is overdrawn at most by the royalties it shared.
Backed(b) == \A d \in Devices : b.balance[d] >= -b.shared[d]

\* Both, and the types, of one device's account.
Account(b, d) ==
  /\ b.balance[d] \in Int /\ b.charged[d] \in Nat /\ b.paid[d] \in Nat
  /\ b.withdrawn[d] \in Nat /\ b.sent[d] \in Nat /\ b.earned[d] \in Nat
  /\ b.shared[d] \in Nat
  /\ b.balance[d] + b.paid[d] + b.withdrawn[d] + b.sent[d]
       = b.charged[d] + b.earned[d]
  /\ b.balance[d] >= -b.shared[d]

\* What holds of the books in memory and of those in the file.
Sound(b) == b \in Books /\ Balanced(b) /\ Backed(b)

\* A token that was used is in the table until its window is over.
Remembered(t) == used[t] >= TokenTime[t] + Window \/ now > TokenTime[t] + Window

\* A token is with one of the loops or credited, never both nor twice.
HeldOnce(t) ==
  /\ spent[t] <= 1
  /\ udp = t => spent[t] = 0 /\ (http = t => credited)
  /\ http = t /\ ~credited => spent[t] = 0
  /\ spent[t] > 0 \/ udp = t \/ http = t => Remembered(t)

\* What the HTTP loop has credited is in the books, what it has answered is in
\* the file and therefore in the books of every later process.
Confirmed ==
  /\ credited => http \in Tokens /\ books.booked[http] > 0
  /\ \A t \in answered : /\ saved
                         /\ disk.booked[t] > 0 /\ books.booked[t] > 0

IInv == /\ TypeOK /\ Sound(books) /\ Sound(disk)
        /\ \A t \in Tokens : HeldOnce(t)
        /\ Confirmed

-----------------------------------------------------------------------------
(* The books.                                                              *)

LEMMA SeededSound == Sound(Seeded)
<1>1. Seeded \in Books
  BY WalletAssumption DEF Seeded, Books, Nothing, NoRights
<1> QED
  BY <1>1, WalletAssumption DEF Sound, Balanced, Backed, Seeded, Nothing

LEMMA AccountOf == ASSUME Sound(books), NEW d \in Devices PROVE Account(books, d)
<1>1. /\ books.balance[d] \in Int /\ books.charged[d] \in Nat
      /\ books.paid[d] \in Nat /\ books.withdrawn[d] \in Nat
      /\ books.sent[d] \in Nat /\ books.earned[d] \in Nat
      /\ books.shared[d] \in Nat
  BY DEF Sound, Books
<1> QED
  BY <1>1 DEF Sound, Balanced, Backed, Account

LEMMA SoundByAccount ==
  ASSUME books' \in Books, \A d \in Devices : Account(books', d)
  PROVE  Sound(books')
  BY DEF Sound, Balanced, Backed, Account

LEMMA CreditedSound ==
  ASSUME Sound(books), NEW t \in Tokens, Credited(t)
  PROVE  /\ Sound(books')
         /\ books'.booked = [books.booked EXCEPT ![t] = @ + 1]
<1>1. TokenDevice[t] \in Devices /\ TokenAmount[t] \in Nat
  BY WalletAssumption
<1> DEFINE e == TokenDevice[t]
           n == TokenAmount[t]
<1>2. books.balance \in [Devices -> Int] /\ books.charged \in [Devices -> Nat]
      /\ books.booked \in [Tokens -> Nat]
  BY DEF Sound, Books
<1>3. books' = [books EXCEPT !.balance = [books.balance EXCEPT ![e] = @ + n],
                             !.charged = [books.charged EXCEPT ![e] = @ + n],
                             !.booked  = [books.booked EXCEPT ![t] = @ + 1]]
  BY DEF Sound, Books, Credited
<1>4. /\ [books.balance EXCEPT ![e] = @ + n] \in [Devices -> Int]
      /\ [books.charged EXCEPT ![e] = @ + n] \in [Devices -> Nat]
      /\ [books.booked EXCEPT ![t] = @ + 1] \in [Tokens -> Nat]
  BY <1>1, <1>2
<1>5. books' \in Books
  BY <1>3, <1>4 DEF Sound, Books
<1>6. /\ books'.balance = [books.balance EXCEPT ![e] = @ + n]
      /\ books'.charged = [books.charged EXCEPT ![e] = @ + n]
      /\ books'.booked  = [books.booked EXCEPT ![t] = @ + 1]
      /\ UNCHANGED <<books.earned, books.paid, books.withdrawn, books.sent,
                     books.shared>>
  BY <1>3, <1>4 DEF Sound, Books
<1>7. ASSUME NEW d \in Devices PROVE Account(books', d)
  <2>1. /\ books'.balance[d] = books.balance[d] + (IF d = e THEN n ELSE 0)
        /\ books'.charged[d] = books.charged[d] + (IF d = e THEN n ELSE 0)
    BY <1>1, <1>2, <1>6
  <2>2. Account(books, d)
    BY AccountOf
  <2> QED
    BY <1>1, <1>6, <2>1, <2>2 DEF Account
<1> QED
  BY <1>5, <1>6, <1>7, SoundByAccount

LEMMA PayoutSound ==
  ASSUME Sound(books), NEW d \in Devices, PayoutSetup(d)
  PROVE  Sound(books') /\ books'.booked = books.booked
<1>1. books' \in Books
  BY DEF Sound, Books, PayoutSetup
<1> QED
  BY <1>1 DEF Sound, Balanced, Backed, Books, PayoutSetup

LEMMA WithdrawSound ==
  ASSUME Sound(books), NEW e \in Devices, NEW n \in Amounts, Withdraw(e, n)
  PROVE  Sound(books') /\ books'.booked = books.booked
<1> DEFINE balance == [books.balance EXCEPT ![e] = @ - n]
           withdrawn == [books.withdrawn EXCEPT ![e] = @ + n]
<1>1. n \in Nat /\ books.balance[e] >= n
  BY WalletAssumption DEF Withdraw
<1>2. books.balance \in [Devices -> Int] /\ books.withdrawn \in [Devices -> Nat]
  BY DEF Sound, Books
<1>3. /\ balance \in [Devices -> Int] /\ withdrawn \in [Devices -> Nat]
      /\ books' = [books EXCEPT !.balance = balance, !.withdrawn = withdrawn]
  BY <1>1, <1>2 DEF Sound, Books, Withdraw
<1>4. /\ books' \in Books
      /\ books'.balance = balance /\ books'.withdrawn = withdrawn
      /\ UNCHANGED <<books.charged, books.earned, books.paid, books.sent,
                     books.shared, books.booked>>
  BY <1>3 DEF Sound, Books
<1>5. ASSUME NEW d \in Devices PROVE Account(books', d)
  <2>1. /\ balance[d] = books.balance[d] - (IF d = e THEN n ELSE 0)
        /\ withdrawn[d] = books.withdrawn[d] + (IF d = e THEN n ELSE 0)
    BY <1>1, <1>2
  <2> HIDE DEF balance, withdrawn
  <2>2. Account(books, d)
    BY AccountOf
  <2> QED
    BY <1>1, <1>4, <2>1, <2>2 DEF Account
<1> QED
  BY <1>4, <1>5, SoundByAccount

LEMMA TransferSound ==
  ASSUME Sound(books), NEW a \in Devices, NEW b \in Devices,
         NEW n \in Amounts, Transfer(a, b, n)
  PROVE  Sound(books') /\ books'.booked = books.booked
<1> DEFINE balance == [[books.balance EXCEPT ![a] = @ - n] EXCEPT ![b] = @ + n]
           earned == [books.earned EXCEPT ![b] = @ + n]
           sent == [books.sent EXCEPT ![a] = @ + n]
<1>1. n \in Nat /\ books.balance[a] >= n
  BY WalletAssumption DEF Transfer
<1>2. /\ books.balance \in [Devices -> Int]
      /\ books.earned \in [Devices -> Nat] /\ books.sent \in [Devices -> Nat]
  BY DEF Sound, Books
<1>3. /\ balance \in [Devices -> Int]
      /\ earned \in [Devices -> Nat] /\ sent \in [Devices -> Nat]
  BY <1>1, <1>2
<1>4. books' = [books EXCEPT !.balance = balance, !.earned = earned, !.sent = sent]
  BY DEF Sound, Books, Transfer
<1>5. /\ books' \in Books
      /\ books'.balance = balance /\ books'.earned = earned /\ books'.sent = sent
      /\ UNCHANGED <<books.charged, books.withdrawn, books.paid, books.shared,
                     books.booked>>
  BY <1>3, <1>4 DEF Sound, Books
<1>6. ASSUME NEW d \in Devices PROVE Account(books', d)
  <2>1. /\ balance[d] = books.balance[d] - (IF d = a THEN n ELSE 0)
                                         + (IF d = b THEN n ELSE 0)
        /\ earned[d] = books.earned[d] + (IF d = b THEN n ELSE 0)
        /\ sent[d] = books.sent[d] + (IF d = a THEN n ELSE 0)
    BY <1>1, <1>2
  <2> HIDE DEF balance, earned, sent
  <2>2. Account(books, d)
    BY AccountOf
  <2> QED
    BY <1>1, <1>5, <2>1, <2>2 DEF Account
<1> QED
  BY <1>5, <1>6, SoundByAccount

LEMMA ChargedSound ==
  ASSUME Sound(books), NEW p \in Devices, NEW h \in Holders, NEW u \in Units,
         Charged(p, h, u)
  PROVE  Sound(books') /\ books'.booked = books.booked
<1> DEFINE balance == [books.balance EXCEPT ![p] = @ - 10 * u + 2 * u]
           paid == [books.paid EXCEPT ![p] = @ + 10 * u]
           earned == [books.earned EXCEPT ![p] = @ + 2 * u]
           rights == [books.rights EXCEPT ![h] = @ + 7 * u]
<1>1. u \in Nat /\ books.balance[p] >= 10 * u
  BY WalletAssumption DEF Charged
<1>2. /\ books.balance \in [Devices -> Int] /\ books.paid \in [Devices -> Nat]
      /\ books.earned \in [Devices -> Nat] /\ books.rights \in [Holders -> Nat]
  BY DEF Sound, Books
<1>3. /\ balance \in [Devices -> Int] /\ paid \in [Devices -> Nat]
      /\ earned \in [Devices -> Nat] /\ rights \in [Holders -> Nat]
  BY <1>1, <1>2
<1>4. books' = [books EXCEPT !.balance = balance, !.paid = paid,
                             !.earned = earned, !.rights = rights]
  BY DEF Sound, Books, Charged
<1>5. /\ books' \in Books
      /\ books'.balance = balance /\ books'.paid = paid /\ books'.earned = earned
      /\ UNCHANGED <<books.charged, books.withdrawn, books.sent, books.shared,
                     books.booked>>
  BY <1>3, <1>4 DEF Sound, Books
<1>6. ASSUME NEW d \in Devices PROVE Account(books', d)
  <2>1. /\ balance[d] = books.balance[d] - (IF d = p THEN 8 * u ELSE 0)
        /\ paid[d] = books.paid[d] + (IF d = p THEN 10 * u ELSE 0)
        /\ earned[d] = books.earned[d] + (IF d = p THEN 2 * u ELSE 0)
    BY <1>1, <1>2
  <2> HIDE DEF balance, paid, earned
  <2>2. Account(books, d)
    BY AccountOf
  <2> QED
    BY <1>1, <1>5, <2>1, <2>2 DEF Account
<1> QED
  BY <1>5, <1>6, SoundByAccount

LEMMA ListenersPaySound ==
  ASSUME Sound(books), NEW listeners \in SUBSET Seats, NEW anon \in Nat,
         NEW dj \in Devices \cup {NoDevice}, NEW h \in Holders, NEW u \in Units,
         ListenersPay(listeners, anon, dj, h, u)
  PROVE  Sound(books') /\ books'.booked = books.booked
<1> DEFINE share == (10 * u) \div (Cardinality(listeners) + anon)
           cost == [d \in Devices |->
                      Cardinality({s \in listeners : s[1] = d}) * share]
           back == [d \in Devices |-> IF d = dj THEN 2 * u ELSE 0]
           balance == [d \in Devices |-> books.balance[d] - cost[d] + back[d]]
           paid == [d \in Devices |-> books.paid[d] + cost[d]]
           shared == [d \in Devices |-> books.shared[d] + cost[d]]
           earned == [d \in Devices |-> books.earned[d] + back[d]]
           rights == [books.rights EXCEPT ![h] = @ + 7 * u]
<1>1. u \in Nat /\ back \in [Devices -> Nat]
  BY WalletAssumption
<1>2. cost \in [Devices -> Nat]
  <2>1. IsFiniteSet(listeners) /\ listeners # {}
    BY WalletAssumption, FS_Subset DEF ListenersPay
  <2>2. Cardinality(listeners) \in Nat \ {0}
    BY <2>1, FS_CardinalityType, FS_EmptySet
  <2>3. share \in Nat
    BY <1>1, <2>2 DEF ListenersPay
  <2>4. \A d \in Devices : Cardinality({s \in listeners : s[1] = d}) \in Nat
    BY <2>1, FS_Subset, FS_CardinalityType
  <2> HIDE DEF share
  <2> QED
    BY <2>3, <2>4
<1>3. /\ books.balance \in [Devices -> Int] /\ books.paid \in [Devices -> Nat]
      /\ books.shared \in [Devices -> Nat]
      /\ books.earned \in [Devices -> Nat] /\ books.rights \in [Holders -> Nat]
  BY DEF Sound, Books
<1>4. books' = [books EXCEPT !.balance = balance, !.paid = paid,
                             !.shared = shared, !.earned = earned,
                             !.rights = rights]
  BY DEF Sound, Books, ListenersPay
<1> HIDE DEF cost, back
<1>5. /\ balance \in [Devices -> Int] /\ paid \in [Devices -> Nat]
      /\ shared \in [Devices -> Nat] /\ earned \in [Devices -> Nat]
      /\ rights \in [Holders -> Nat]
  BY <1>1, <1>2, <1>3
<1>6. /\ books' \in Books
      /\ books'.balance = balance /\ books'.paid = paid
      /\ books'.shared = shared /\ books'.earned = earned
      /\ UNCHANGED <<books.charged, books.withdrawn, books.sent, books.booked>>
  BY <1>4, <1>5 DEF Sound, Books
<1>7. ASSUME NEW d \in Devices PROVE Account(books', d)
  <2>1. PICK c \in Nat, k \in Nat :
          /\ books'.balance[d] = books.balance[d] - c + k
          /\ books'.paid[d] = books.paid[d] + c
          /\ books'.shared[d] = books.shared[d] + c
          /\ books'.earned[d] = books.earned[d] + k
    BY <1>1, <1>2, <1>6
  <2>2. Account(books, d)
    BY AccountOf
  <2>3. /\ books'.charged = books.charged /\ books'.withdrawn = books.withdrawn
        /\ books'.sent = books.sent
    BY <1>6
  <2> HIDE DEF balance, paid, shared, earned
  <2> QED
    BY <2>1, <2>2, <2>3 DEF Account
<1> QED
  BY <1>6, <1>7, SoundByAccount

LEMMA LoadedSound ==
  ASSUME Sound(disk)
  PROVE  Sound(Loaded) /\ (saved => Loaded.booked = disk.booked)
<1>1. CASE ~saved
  BY <1>1, SeededSound DEF Loaded
<1>2. CASE saved
  <2>1. Loaded \in Books
    BY <1>2 DEF Sound, Books, Loaded, NoRights
  <2> QED
    BY <1>2, <2>1 DEF Sound, Balanced, Backed, Books, Loaded
<1> QED
  BY <1>1, <1>2

-----------------------------------------------------------------------------
(* The charge tokens.                                                      *)

\* A token held or credited cannot be spent again inside its window.
LEMMA SpendFresh ==
  ASSUME TypeOK, NEW t \in Tokens, HeldOnce(t), Spend(t)
  PROVE  spent[t] = 0 /\ udp # t /\ http # t
<1>1. /\ now \in Nat /\ TokenTime[t] \in Nat /\ Window \in Nat
      /\ used[t] \in Nat \cup {None} /\ spent[t] \in Nat
  BY WalletAssumption DEF TypeOK
<1>2. now <= TokenTime[t] + Window
  BY <1>1 DEF Spend, InWindow
<1>3. ~Remembered(t)
  BY <1>1, <1>2 DEF Spend, Purged, Remembered, None
<1> QED
  BY <1>1, <1>3 DEF HeldOnce

\* The purge forgets no token whose window is open.
LEMMA PurgedRemembers ==
  ASSUME TypeOK, NEW t \in Tokens, Remembered(t)
  PROVE  Purged[t] >= TokenTime[t] + Window \/ now > TokenTime[t] + Window
<1>1. /\ now \in Nat /\ TokenTime[t] \in Nat /\ Window \in Nat
      /\ used[t] \in Nat \cup {None}
  BY WalletAssumption DEF TypeOK
<1> QED
  BY <1>1 DEF Purged, Remembered, None

LEMMA PurgedType ==
  ASSUME TypeOK PROVE Purged \in [Tokens -> Nat \cup {None}]
  BY DEF TypeOK, Purged

\* Neither does spending, which remembers the token it is about.
LEMMA SpendRemembers ==
  ASSUME TypeOK, NEW t \in Tokens, Spend(t), now' = now
  PROVE  /\ used' \in [Tokens -> Nat \cup {None}]
         /\ Remembered(t)'
         /\ \A s \in Tokens : Remembered(s) => Remembered(s)'
<1>1. /\ now \in Nat /\ TokenTime[t] \in Nat
      /\ Window \in Nat /\ Keep \in Nat /\ Keep >= 2 * Window
  BY WalletAssumption DEF TypeOK
<1>2. used' = [Purged EXCEPT ![t] = now + Keep]
  BY DEF Spend
<1>3. now >= TokenTime[t] - Window
  BY <1>1 DEF Spend, InWindow
<1>4. used'[t] = now + Keep /\ \A s \in Tokens \ {t} : used'[s] = Purged[s]
  BY <1>2, PurgedType
<1>5. Remembered(t)'
  BY <1>1, <1>3, <1>4 DEF Remembered
<1>6. ASSUME NEW s \in Tokens, Remembered(s) PROVE Remembered(s)'
  <2>1. CASE s = t
    BY <1>5, <2>1
  <2>2. CASE s # t
    <3>1. used'[s] = Purged[s]
      BY <1>4, <2>2
    <3> QED
      BY <3>1, <1>6, PurgedRemembers DEF Remembered
  <2> QED
    BY <2>1, <2>2
<1>7. used' \in [Tokens -> Nat \cup {None}]
  BY <1>1, <1>2, PurgedType
<1> QED
  BY <1>5, <1>6, <1>7

-----------------------------------------------------------------------------
(* The invariant.                                                          *)

LEMMA InitInv == Init => IInv
<1> SUFFICES ASSUME Init PROVE IInv
  OBVIOUS
<1>1. Sound(books) /\ Sound(disk)
  BY SeededSound DEF Init
<1>2. TypeOK
  BY <1>1 DEF Init, TypeOK, Sound, None
<1>3. ASSUME NEW t \in Tokens PROVE HeldOnce(t)
  BY WalletAssumption DEF Init, HeldOnce
<1>4. Confirmed
  BY DEF Init, Confirmed
<1> QED
  BY <1>1, <1>2, <1>3, <1>4 DEF IInv

\* A step that leaves tokens and file alone and keeps the books sound.
LEMMA BooksStep ==
  ASSUME IInv, Sound(books'), books'.booked = books.booked,
         UNCHANGED <<file, tokens, now>>,
         grace' \subseteq Devices, public' \in BOOLEAN,
         moves' \in Nat, restarts' \in Nat
  PROVE  IInv'
<1>1. TypeOK'
  BY DEF IInv, TypeOK, Sound, file, tokens
<1>2. Sound(books)' /\ Sound(disk)'
  BY DEF IInv, Sound, Balanced, Backed, file
<1>3. ASSUME NEW t \in Tokens PROVE HeldOnce(t)'
  BY DEF IInv, HeldOnce, Remembered, tokens
<1>4. Confirmed'
  BY DEF IInv, Confirmed, file, tokens
<1> QED
  BY <1>1, <1>2, <1>3, <1>4 DEF IInv

\* A step of the token table alone, with what it does to each token.
LEMMA TokenStep ==
  ASSUME IInv, UNCHANGED <<books, file, credited, spent, answered, grace,
                           public, now, bounds>>,
         used' \in [Tokens -> Nat \cup {None}],
         udp' \in Tokens \cup {NoToken}, http' \in Tokens \cup {NoToken},
         credited => http' = http,
         \A t \in Tokens : HeldOnce(t)'
  PROVE  IInv'
<1>1. TypeOK'
  BY DEF IInv, TypeOK, file, bounds
<1>2. Sound(books)' /\ Sound(disk)'
  BY DEF IInv, Sound, Balanced, Backed, file
<1>3. Confirmed'
  BY DEF IInv, Confirmed, file
<1> QED
  BY <1>1, <1>2, <1>3 DEF IInv

LEMMA ReplayedInv ==
  ASSUME IInv, NEW t \in Tokens, Replayed(t) PROVE IInv'
<1>1. TypeOK
  BY DEF IInv
<1>2. ASSUME NEW s \in Tokens PROVE HeldOnce(s)'
  <2>1. HeldOnce(s)
    BY DEF IInv
  <2>2. Remembered(s) => Remembered(s)'
    BY <1>1, PurgedRemembers DEF Replayed, Remembered
  <2> QED
    BY <2>1, <2>2 DEF HeldOnce, Replayed
<1> QED
  BY <1>1, <1>2, PurgedType, TokenStep DEF Replayed, TypeOK

LEMMA ChargeUdpInv ==
  ASSUME IInv, NEW t \in Tokens, ChargeUdp(t) PROVE IInv'
<1>1. TypeOK /\ HeldOnce(t) /\ Spend(t) /\ now' = now
  BY DEF IInv, ChargeUdp
<1>2. spent[t] = 0 /\ http # t
  BY <1>1, SpendFresh
<1>3. ASSUME NEW s \in Tokens PROVE HeldOnce(s)'
  <2>1. HeldOnce(s)
    BY DEF IInv
  <2>2. (Remembered(s) => Remembered(s)') /\ Remembered(t)'
    BY <1>1, SpendRemembers
  <2> QED
    BY <1>2, <2>1, <2>2 DEF HeldOnce, ChargeUdp
<1> QED
  BY <1>1, <1>3, SpendRemembers, TokenStep DEF ChargeUdp, TypeOK

LEMMA ChargeHttpInv ==
  ASSUME IInv, NEW t \in Tokens, ChargeHttp(t) PROVE IInv'
<1>1. TypeOK /\ HeldOnce(t) /\ Spend(t) /\ now' = now
  BY DEF IInv, ChargeHttp
<1>2. spent[t] = 0 /\ udp # t /\ NoToken \notin Tokens
  BY <1>1, SpendFresh, WalletAssumption
<1>3. ASSUME NEW s \in Tokens PROVE HeldOnce(s)'
  <2>1. HeldOnce(s)
    BY DEF IInv
  <2>2. (Remembered(s) => Remembered(s)') /\ Remembered(t)'
    BY <1>1, SpendRemembers
  <2> QED
    BY <1>2, <2>1, <2>2 DEF HeldOnce, ChargeHttp
<1>4. ~credited
  BY <1>2 DEF IInv, Confirmed, ChargeHttp
<1> QED
  BY <1>1, <1>3, <1>4, SpendRemembers, TokenStep DEF ChargeHttp, TypeOK

\* Either loop credits the token it holds.
LEMMA CreditInv ==
  ASSUME IInv, CreditUdp \/ CreditHttp PROVE IInv'
<1>1. PICK t \in Tokens :
        /\ Credited(t) /\ spent[t] = 0
        /\ UNCHANGED <<file, used, http, answered, grace, public, now, bounds>>
        /\ \/ udp = t /\ udp' = NoToken /\ UNCHANGED credited
           \/ http = t /\ udp # t /\ UNCHANGED udp /\ ~credited /\ credited' = TRUE
  <2>1. CASE CreditUdp
    BY <2>1 DEF CreditUdp, IInv, TypeOK, HeldOnce
  <2>2. CASE CreditHttp
    BY <2>2 DEF CreditHttp, IInv, TypeOK, HeldOnce
  <2> QED
    BY <2>1, <2>2
<1>2. /\ Sound(books')
      /\ books'.booked = [books.booked EXCEPT ![t] = @ + 1]
  BY <1>1, CreditedSound DEF IInv
<1>3. books.booked \in [Tokens -> Nat]
  BY DEF IInv, TypeOK, Books
<1>4. /\ spent' = [spent EXCEPT ![t] = @ + 1]
      /\ spent \in [Tokens -> Nat] /\ spent' \in [Tokens -> Nat]
  BY <1>1 DEF Credited, IInv, TypeOK
<1>5. TypeOK'
  BY <1>1, <1>2, <1>4 DEF IInv, TypeOK, Sound, file, bounds
<1>6. Sound(disk)'
  BY <1>1 DEF IInv, Sound, Balanced, Backed, file
<1>7. ASSUME NEW s \in Tokens PROVE HeldOnce(s)'
  <2>1. HeldOnce(s) /\ NoToken \notin Tokens
    BY WalletAssumption DEF IInv
  <2>2. Remembered(s)' <=> Remembered(s)
    BY <1>1 DEF Remembered
  <2>3. spent'[s] = IF s = t THEN 1 ELSE spent[s]
    BY <1>1, <1>4
  <2> QED
    BY <1>1, <2>1, <2>2, <2>3 DEF HeldOnce
<1>8. Confirmed'
  <2>1. \A s \in Tokens : books.booked[s] > 0 \/ s = t => books'.booked[s] > 0
    BY <1>2, <1>3
  <2>2. answered \subseteq Tokens
    BY DEF IInv, TypeOK
  <2> QED
    BY <1>1, <2>1, <2>2 DEF IInv, Confirmed, file
<1>9. Sound(books)'
  BY <1>2 DEF Sound, Balanced, Backed
<1> QED
  BY <1>5, <1>6, <1>7, <1>8, <1>9 DEF IInv

LEMMA AnswerHttpInv ==
  ASSUME IInv, AnswerHttp PROVE IInv'
<1>1. TypeOK'
  BY DEF IInv, TypeOK, AnswerHttp, bounds, Confirmed
<1>2. Sound(books)' /\ Sound(disk)'
  BY DEF IInv, Sound, Balanced, Backed, AnswerHttp
<1>3. ASSUME NEW t \in Tokens PROVE HeldOnce(t)'
  BY WalletAssumption DEF IInv, HeldOnce, Remembered, AnswerHttp
<1>4. Confirmed'
  BY DEF IInv, Confirmed, AnswerHttp
<1> QED
  BY <1>1, <1>2, <1>3, <1>4 DEF IInv

LEMMA SaveInv ==
  ASSUME IInv, Save PROVE IInv'
<1>1. TypeOK'
  BY DEF IInv, TypeOK, Save, tokens, bounds
<1>2. Sound(books)' /\ Sound(disk)'
  BY DEF IInv, Sound, Balanced, Backed, Save
<1>3. ASSUME NEW t \in Tokens PROVE HeldOnce(t)'
  BY DEF IInv, HeldOnce, Remembered, Save, tokens
<1>4. Confirmed'
  BY DEF IInv, Confirmed, Save, tokens
<1> QED
  BY <1>1, <1>2, <1>3, <1>4 DEF IInv

LEMMA RestartInv ==
  ASSUME IInv, Restart PROVE IInv'
<1>1. Sound(Loaded) /\ (saved => Loaded.booked = disk.booked)
  BY LoadedSound DEF IInv
<1>2. Sound(books)' /\ Sound(disk)'
  BY <1>1 DEF IInv, Sound, Balanced, Backed, Restart, file
<1>3. TypeOK'
  <2>1. used' \in [Tokens -> Nat \cup {None}] /\ spent' \in [Tokens -> Nat]
    BY DEF Restart
  <2>2. books' \in Books /\ disk' \in Books
    BY <1>2 DEF Sound
  <2>3. /\ saved' \in BOOLEAN /\ answered' \subseteq Tokens
        /\ credited' \in BOOLEAN /\ public' \in BOOLEAN
    BY DEF IInv, TypeOK, Restart, file
  <2>4. /\ udp' = NoToken /\ http' = NoToken /\ grace' \subseteq Devices
        /\ now' \in Nat /\ moves' \in Nat /\ restarts' \in Nat
    BY DEF IInv, TypeOK, Restart, file
  <2> QED
    BY <2>1, <2>2, <2>3, <2>4 DEF TypeOK
<1>4. ASSUME NEW t \in Tokens PROVE HeldOnce(t)'
  BY WalletAssumption DEF HeldOnce, Restart
<1>5. Confirmed'
  BY <1>1 DEF IInv, Confirmed, Restart, file
<1> QED
  BY <1>2, <1>3, <1>4, <1>5 DEF IInv

LEMMA ClockInv ==
  ASSUME IInv, Clock PROVE IInv'
<1>1. TypeOK'
  BY DEF IInv, TypeOK, Clock, file, tokens, bounds
<1>2. Sound(books)' /\ Sound(disk)'
  BY DEF IInv, Sound, Balanced, Backed, Clock, file
<1>3. ASSUME NEW t \in Tokens PROVE HeldOnce(t)'
  <2>1. Remembered(t) => Remembered(t)'
    BY WalletAssumption DEF IInv, TypeOK, Remembered, Clock, tokens
  <2> QED
    BY <2>1 DEF IInv, HeldOnce, Clock, tokens
<1>4. Confirmed'
  BY DEF IInv, Confirmed, Clock, file, tokens
<1> QED
  BY <1>1, <1>2, <1>3, <1>4 DEF IInv
LEMMA NextInv == IInv /\ [Next]_vars => IInv'
<1> SUFFICES ASSUME IInv, [Next]_vars PROVE IInv'
  OBVIOUS
<1>0. TypeOK /\ Sound(books)
  BY DEF IInv
<1>1. CASE UNCHANGED vars
  BY <1>1, <1>0, BooksStep DEF vars, bounds, TypeOK
<1>2. CASE \E t \in Tokens : Replayed(t) \/ ChargeUdp(t) \/ ChargeHttp(t)
  BY <1>2, ReplayedInv, ChargeUdpInv, ChargeHttpInv
<1>3. CASE CreditUdp \/ CreditHttp \/ AnswerHttp
  BY <1>3, CreditInv, AnswerHttpInv
<1>4. CASE \E d \in Devices : PayoutSetup(d)
  <2>1. PICK d \in Devices : PayoutSetup(d)
    BY <1>4
  <2>2. Sound(books') /\ books'.booked = books.booked
    BY <1>0, <2>1, PayoutSound
  <2> QED
    BY <1>0, <2>1, <2>2, BooksStep DEF PayoutSetup, Command, Move, TypeOK
<1>5. CASE \E d \in Devices, amount \in Amounts : Withdraw(d, amount)
  <2>1. PICK d \in Devices, amount \in Amounts : Withdraw(d, amount)
    BY <1>5
  <2>2. Sound(books') /\ books'.booked = books.booked
    BY <1>0, <2>1, WithdrawSound
  <2> QED
    BY <1>0, <2>1, <2>2, BooksStep DEF Withdraw, Command, Move, TypeOK
<1>6. CASE \E a, b \in Devices, amount \in Amounts : Transfer(a, b, amount)
  <2>1. PICK a \in Devices, b \in Devices, amount \in Amounts :
          Transfer(a, b, amount)
    BY <1>6
  <2>2. Sound(books') /\ books'.booked = books.booked
    BY <1>0, <2>1, TransferSound
  <2> QED
    BY <1>0, <2>1, <2>2, BooksStep DEF Transfer, Command, Move, TypeOK
<1>7. CASE \E m \in BOOLEAN : Mode(m)
  BY <1>0, <1>7, BooksStep DEF Mode, Move, TypeOK
<1>8. CASE \E p \in Devices, h \in Holders, u \in Units :
             Tick(p, h, u) \/ Finalize(p, h, u)
  <2>1. PICK p \in Devices, h \in Holders, u \in Units :
          /\ Charged(p, h, u) \/ Short(p, u)
          /\ UNCHANGED <<file, tokens, public, now>>
    BY <1>8 DEF Tick, Finalize
  <2>2. Sound(books') /\ books'.booked = books.booked
    <3>1. CASE Charged(p, h, u)
      BY <1>0, <3>1, ChargedSound
    <3>2. CASE Short(p, u)
      BY <1>0, <3>2 DEF Short
    <3> QED
      BY <2>1, <3>1, <3>2
  <2> QED
    BY <1>0, <2>1, <2>2, BooksStep DEF Charged, Short, Move, TypeOK
<1>9. CASE \E p \in Devices : AutoPrivate(p)
  <2>1. /\ UNCHANGED <<books, file, tokens, now>>
        /\ grace' \subseteq Devices /\ moves' \in Nat /\ restarts' \in Nat
    BY <1>0, <1>9 DEF AutoPrivate, Move, TypeOK
  <2>2. public' \in BOOLEAN
    BY <1>9 DEF AutoPrivate
  <2> QED
    BY <1>0, <2>1, <2>2, BooksStep
<1>10. CASE \E listeners \in SUBSET Seats, anon \in 0 .. MaxAnon,
               dj \in Devices \cup {NoDevice}, h \in Holders, u \in Units :
              ListenersPay(listeners, anon, dj, h, u)
  <2>1. PICK listeners \in SUBSET Seats, anon \in 0 .. MaxAnon,
             dj \in Devices \cup {NoDevice}, h \in Holders, u \in Units :
          ListenersPay(listeners, anon, dj, h, u)
    BY <1>10
  <2>2. Sound(books') /\ books'.booked = books.booked
    BY <1>0, <2>1, ListenersPaySound, WalletAssumption
  <2> QED
    BY <1>0, <2>1, <2>2, BooksStep DEF ListenersPay, Move, TypeOK
<1>11. CASE Save \/ Restart \/ Clock
  BY <1>11, SaveInv, RestartInv, ClockInv
<1> QED
  BY <1>1, <1>2, <1>3, <1>4, <1>5, <1>6, <1>7, <1>8, <1>9, <1>10, <1>11 DEF Next

\* The inductive invariant of books, file and charge tokens.
THEOREM WalletInvariant == Spec => []IInv
<1> QED
  BY InitInv, NextInv, PTL DEF Spec

-----------------------------------------------------------------------------
(* What follows.                                                           *)

\* Every variable has its type for any devices, tokens and amounts.
THEOREM WalletTypeOK == Spec => []TypeOK
<1>1. IInv => TypeOK
  BY DEF IInv
<1> QED
  BY <1>1, WalletInvariant, PTL

\* The balance of every wallet, in memory and in the file, is what came in
\* less what went out.
THEOREM WalletBooksBalanced == Spec => []WalletBooks
<1>1. IInv => WalletBooks
  BY DEF IInv, Sound, WalletBooks
<1> QED
  BY <1>1, WalletInvariant, PTL

\* No process credits a charge token twice.
THEOREM WalletChargedOnce == Spec => []ChargedOnce
<1>1. IInv => ChargedOnce
  BY DEF IInv, HeldOnce, ChargedOnce
<1> QED
  BY <1>1, WalletInvariant, PTL

\* Only royalties shared by listeners overdraw a wallet.
THEOREM WalletNoOverdraft == Spec => []NoOverdraft
<1>1. IInv => NoOverdraft
  BY DEF IInv, Sound, Backed, NoOverdraft
<1> QED
  BY <1>1, WalletInvariant, PTL

\* A charge confirmed over HTTP is in the file, and stays there.
THEOREM WalletAnsweredIsSaved == Spec => []AnsweredIsSaved
<1>1. IInv => AnsweredIsSaved
  BY DEF IInv, Confirmed, AnsweredIsSaved
<1> QED
  BY <1>1, WalletInvariant, PTL
=============================================================================
