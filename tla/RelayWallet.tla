----------------------------- MODULE RelayWallet -----------------------------
(***************************************************************************)
(* The relay's money (apps/relay/main.cpp, "Wallet & billing"): wallets,   *)
(* payout accounts and rights-holder balances in memory, the one file they *)
(* are saved to, and the table of spent charge tokens, which no file       *)
(* keeps.  Three threads work on them: the UDP loop, one command at a time,*)
(* the HTTP loop, likewise, and the fingerprint thread with the royalties  *)
(* and the periodic save.  Each critical section of g_wallet_mutex or      *)
(* g_charge_nonce_mutex is one action.                                     *)
(*                                                                         *)
(* Amounts are integers.  A royalty is ten units of some size, so that the *)
(* shares of 70, 20 and 10 per cent are 7, 2 and 1 unit; rounding to four  *)
(* decimals in the file is left out, and so is pending_payout, which is    *)
(* added to and never paid. One group has a mode; whose device pays, and   *)
(* for which rights holder, depends on members and tracks and is left open.*)
(***************************************************************************)
EXTENDS Integers, FiniteSets

CONSTANTS
  Devices,        \* device ids, keys of g_wallets
  Holders,        \* rights holders
  Section,        \* the key "rights_holder_balances"
  NoDevice,       \* no DJ in the group
  Tokens,         \* charge tokens a payment server signed
  NoToken,
  TokenDevice,    \* device a token is signed for
  TokenTime,      \* and its time stamp
  TokenAmount,    \* and its amount
  Window,         \* 30 s before and after the time stamp
  Keep,           \* 300 s a spent token is remembered
  Seeds,          \* first balance of the pre-seeded wallets, 0 for others
  Amounts,        \* bound: amounts of withdrawals, tips and support
  Units,          \* bound: royalty units
  Seats,          \* bound: a group's clients, as device and number
  MaxAnon,        \* bound: its clients without a device
  MaxMoves,       \* bound: commands other than charges, and royalties
  MaxRestarts,    \* bound
  MaxTime         \* bound: clock

ASSUME WalletAssumption ==
  /\ NoDevice \notin Devices /\ NoToken \notin Tokens
  /\ Section \notin Devices
  /\ TokenDevice \in [Tokens -> Devices]
  /\ TokenTime \in [Tokens -> Nat] /\ TokenAmount \in [Tokens -> Nat]
  /\ Window \in Nat /\ Keep \in Nat /\ Keep >= 2 * Window
  /\ Seeds \in [Devices -> Nat]
  /\ Amounts \subseteq Nat \ {0} /\ Units \subseteq Nat \ {0}
  /\ Seats \subseteq Devices \X Nat /\ IsFiniteSet(Seats) /\ MaxAnon \in Nat
  /\ MaxMoves \in Nat /\ MaxRestarts \in Nat /\ MaxTime \in Nat

VARIABLES
  books,          \* g_wallets, g_payouts, g_rights_holder_balances
  disk, saved,    \* the file, and whether there is one
  used,           \* g_charge_used_tokens: expiry by token, None when absent
  udp,            \* token a CHARGE in the UDP loop has marked as used
  http, credited, \* the same for POST /api/wallet/charge; it has been credited
  grace,          \* devices in g_grace_periods
  public,         \* Group::mode is Public
  now,
  spent,          \* times a token was credited by this process (history)
  answered,       \* tokens the HTTP loop said "ok" to (history)
  moves, restarts \* bounding counters, no state of the code

tokens == <<used, udp, http, credited, spent, answered>>
file == <<disk, saved>>
bounds == <<moves, restarts>>
vars == <<books, file, tokens, grace, public, now, bounds>>

None == -1

\* Wallet by field, PayoutAccount::total_withdrawn by device; sent, shared and
\* booked are history that goes back with the books it explains: tips given,
\* shares of listener royalties, credits of a token.
Books == [balance  : [Devices -> Int], charged : [Devices -> Nat],
          earned   : [Devices -> Nat], paid    : [Devices -> Nat],
          accounts : SUBSET (Devices \cup {Section}),
          withdrawn : [Devices -> Nat], rights : [Holders -> Nat],
          sent : [Devices -> Nat], shared : [Devices -> Nat],
          booked : [Tokens -> Nat]]

Nothing == [d \in Devices |-> 0]
NoRights == [h \in Holders |-> 0]

\* wallets_seed on an empty table.
Seeded ==
  [balance |-> Seeds, charged |-> Seeds, earned |-> Nothing, paid |-> Nothing,
   accounts |-> {}, withdrawn |-> Nothing, rights |-> NoRights,
   sent |-> Nothing, shared |-> Nothing, booked |-> [t \in Tokens |-> 0]]

Init ==
  /\ books = Seeded
  /\ disk = Seeded /\ saved = FALSE
  /\ used = [t \in Tokens |-> None]
  /\ udp = NoToken /\ http = NoToken /\ credited = FALSE
  /\ grace = {}
  /\ public = TRUE /\ now = 0
  /\ spent = [t \in Tokens |-> 0] /\ answered = {}
  /\ moves = 0 /\ restarts = 0

Move == moves < MaxMoves /\ moves' = moves + 1 /\ UNCHANGED restarts

-----------------------------------------------------------------------------
(* Charging.                                                               *)

InWindow(t) == now - TokenTime[t] \in -Window .. Window

\* The purge before every lookup in g_charge_used_tokens.
Purged == [t \in Tokens |-> IF used[t] < now THEN None ELSE used[t]]

\* Mutant: remembered for the width of the window only.
SpendForWindow(t) ==
  /\ InWindow(t) /\ Purged[t] = None
  /\ used' = [Purged EXCEPT ![t] = now + Window]

\* Mutant: the expiry lies before the use.
SpendExpired(t) ==
  /\ InWindow(t) /\ Purged[t] = None
  /\ used' = [Purged EXCEPT ![t] = now - Keep]

\* Token checked, found unused and marked.
Spend(t) ==
  /\ InWindow(t) /\ Purged[t] = None
  /\ used' = [Purged EXCEPT ![t] = now + Keep]

\* The same, found used: "replay_detected".
Replayed(t) ==
  /\ InWindow(t) /\ Purged[t] # None
  /\ udp = NoToken \/ http = NoToken
  /\ used' = Purged
  /\ UNCHANGED <<books, file, udp, http, credited, spent, answered, grace,
                 public, now, bounds>>

ChargeUdp(t) ==
  /\ udp = NoToken /\ Spend(t)
  /\ udp' = t
  /\ UNCHANGED <<books, file, http, credited, spent, answered, grace, public,
                 now, bounds>>

ChargeHttp(t) ==
  /\ http = NoToken /\ Spend(t)
  /\ http' = t
  /\ UNCHANGED <<books, file, udp, credited, spent, answered, grace, public,
                 now, bounds>>

\* The wallet is credited.
Credited(t) ==
  /\ books' = [books EXCEPT !.balance[TokenDevice[t]] = @ + TokenAmount[t],
                            !.charged[TokenDevice[t]] = @ + TokenAmount[t],
                            !.booked[t] = @ + 1]
  /\ spent' = [spent EXCEPT ![t] = @ + 1]

CreditUdp ==
  /\ udp # NoToken
  /\ Credited(udp)
  /\ udp' = NoToken
  /\ UNCHANGED <<file, used, http, credited, answered, grace, public, now, bounds>>

CreditHttp ==
  /\ http # NoToken /\ ~credited
  /\ Credited(http)
  /\ credited' = TRUE
  /\ UNCHANGED <<file, used, udp, http, answered, grace, public, now, bounds>>

\* Mutant: the answer goes out and the periodic save is left to write it.
AnswerHttpUnsaved ==
  /\ credited
  /\ http' = NoToken /\ credited' = FALSE
  /\ answered' = answered \cup {http}
  /\ UNCHANGED <<books, file, used, udp, spent, grace, public, now, bounds>>

\* wallets_save of the HTTP charge, and its answer.
AnswerHttp ==
  /\ credited
  /\ disk' = books /\ saved' = TRUE
  /\ http' = NoToken /\ credited' = FALSE
  /\ answered' = answered \cup {http}
  /\ UNCHANGED <<books, used, udp, spent, grace, public, now, bounds>>

-----------------------------------------------------------------------------
(* Other commands.                                                         *)

\* What a command of the UDP loop that moves money leaves alone.
Command ==
  /\ udp = NoToken
  /\ UNCHANGED <<file, tokens, grace, public, now>>

\* PAYOUT_SETUP.
PayoutSetup(d) ==
  /\ Command /\ Move
  /\ books' = [books EXCEPT !.accounts = @ \cup {d}]

\* Mutant: without looking at the balance.
WithdrawUnchecked(d, amount) ==
  /\ Command /\ Move
  /\ d \in books.accounts
  /\ books' = [books EXCEPT !.balance[d] = @ - amount,
                            !.withdrawn[d] = @ + amount]

\* WITHDRAW.
Withdraw(d, amount) ==
  /\ Command /\ Move
  /\ d \in books.accounts
  /\ books.balance[d] >= amount
  /\ books' = [books EXCEPT !.balance[d] = @ - amount,
                            !.withdrawn[d] = @ + amount]

\* Mutant: both wallets are read before either is written.
TransferCopies(a, b, amount) ==
  /\ Command /\ Move
  /\ books.balance[a] >= amount
  /\ books' = [books EXCEPT !.balance[a] = @ - amount,
                            !.balance[b] = books.balance[b] + amount,
                            !.earned[b] = @ + amount,
                            !.sent[a] = @ + amount]

\* TIP and SUPPORT: from the sender's device to a DJ's, which two clients may
\* share.
Transfer(a, b, amount) ==
  LET taken == [books EXCEPT !.balance[a] = @ - amount, !.sent[a] = @ + amount]
  IN  /\ Command /\ Move
      /\ books.balance[a] >= amount
      /\ books' = [taken EXCEPT !.balance[b] = @ + amount,
                                !.earned[b] = @ + amount]

\* MODE, from whoever may set it.
Mode(m) ==
  /\ udp = NoToken /\ Move
  /\ public' = m
  /\ UNCHANGED <<books, file, tokens, grace, now>>

-----------------------------------------------------------------------------
(* Royalties, by the fingerprint thread or COPYRIGHT_SKIP.                 *)

\* deduct_royalty_from_wallet, with funds.
Charged(p, h, u) ==
  /\ Move
  /\ books.balance[p] >= 10 * u
  /\ books' = [books EXCEPT !.balance[p] = @ - 10 * u + 2 * u,
                            !.paid[p] = @ + 10 * u,
                            !.earned[p] = @ + 2 * u,
                            !.rights[h] = @ + 7 * u]
  /\ grace' = grace \ {p}

\* deduct_royalty_from_wallet, without: the grace period starts.  One that
\* runs already goes on, a step that changes nothing.
Short(p, u) ==
  /\ Move
  /\ books.balance[p] < 10 * u
  /\ p \notin grace
  /\ grace' = grace \cup {p}
  /\ UNCHANGED books

\* royalty_tick with a paying device whose grace period, if any, is not over.
Tick(p, h, u) ==
  /\ public
  /\ Charged(p, h, u) \/ Short(p, u)
  /\ UNCHANGED <<file, tokens, public, now>>

\* royalty_tick when the grace period of the payer is over, as any may be; it
\* does not look at the balance again.
AutoPrivate(p) ==
  /\ public /\ p \in grace /\ Move
  /\ public' = FALSE
  /\ grace' = grace \ {p}
  /\ UNCHANGED <<books, file, tokens, now>>

\* finalize_royalty with a paying device: neither the mode nor the grace
\* period is looked at.
Finalize(p, h, u) ==
  /\ Charged(p, h, u) \/ Short(p, u)
  /\ UNCHANGED <<file, tokens, public, now>>

\* Listener mode: the listeners, each with its device and seat, share the
\* royalty, in royalty_tick with anon clients that gave no device; nobody's
\* balance is looked at.  The cashback goes to the DJ, if there is one.
ListenersPay(listeners, anon, dj, h, u) ==
  LET share == (10 * u) \div (Cardinality(listeners) + anon)
      cost  == [d \in Devices |->
                  Cardinality({s \in listeners : s[1] = d}) * share]
      back  == [d \in Devices |-> IF d = dj THEN 2 * u ELSE 0]
  IN  /\ Move
      /\ listeners # {} /\ share > 0
      /\ anon = 0 \/ public
      /\ books' = [books EXCEPT
                     !.balance = [d \in Devices |-> @[d] - cost[d] + back[d]],
                     !.paid    = [d \in Devices |-> @[d] + cost[d]],
                     !.shared  = [d \in Devices |-> @[d] + cost[d]],
                     !.earned  = [d \in Devices |-> @[d] + back[d]],
                     !.rights[h] = @ + 7 * u]
      /\ UNCHANGED <<file, tokens, grace, public, now>>

-----------------------------------------------------------------------------
(* The file.                                                               *)

\* wallets_save, every 30 s and on shutdown.
Save ==
  /\ disk' = books /\ saved' = TRUE
  /\ UNCHANGED <<books, tokens, grace, public, now, bounds>>

\* wallets_load and wallets_seed.  Without a payout account the loop over the
\* accounts runs on into the next section and takes its key for one; once that
\* is saved as an account, its name is first found there, and nothing is read
\* from the section itself.
Loaded ==
  IF ~saved THEN Seeded
  ELSE [disk EXCEPT
          !.accounts = IF @ = {} THEN {Section} ELSE @,
          !.rights   = IF Section \in disk.accounts THEN NoRights ELSE @]

\* The process stops at any point and starts again.
Restart ==
  /\ restarts < MaxRestarts /\ restarts' = restarts + 1
  /\ books' = Loaded
  /\ used' = [t \in Tokens |-> None] /\ spent' = [t \in Tokens |-> 0]
  /\ udp' = NoToken /\ http' = NoToken /\ credited' = FALSE
  /\ grace' = {}
  /\ public' = TRUE
  /\ UNCHANGED <<file, answered, now, moves>>

Clock ==
  /\ now < MaxTime /\ now' = now + 1
  /\ UNCHANGED <<books, file, tokens, grace, public, bounds>>

Next ==
  \/ \E t \in Tokens : Replayed(t)
  \/ \E t \in Tokens : ChargeUdp(t)
  \/ \E t \in Tokens : ChargeHttp(t)
  \/ CreditUdp \/ CreditHttp \/ AnswerHttp
  \/ \E d \in Devices : PayoutSetup(d)
  \/ \E d \in Devices, amount \in Amounts : Withdraw(d, amount)
  \/ \E a, b \in Devices, amount \in Amounts : Transfer(a, b, amount)
  \/ \E m \in BOOLEAN : Mode(m)
  \/ \E p \in Devices, h \in Holders, u \in Units : Tick(p, h, u)
  \/ \E p \in Devices : AutoPrivate(p)
  \/ \E p \in Devices, h \in Holders, u \in Units : Finalize(p, h, u)
  \/ \E listeners \in SUBSET Seats, anon \in 0 .. MaxAnon,
        dj \in Devices \cup {NoDevice}, h \in Holders, u \in Units :
       ListenersPay(listeners, anon, dj, h, u)
  \/ Save \/ Restart \/ Clock

Spec == Init /\ [][Next]_vars
-----------------------------------------------------------------------------
(* Properties.                                                             *)

\* Type invariant.
TypeOK ==
  /\ books \in Books /\ disk \in Books /\ saved \in BOOLEAN
  /\ used \in [Tokens -> Nat \cup {None}] /\ spent \in [Tokens -> Nat]
  /\ udp \in Tokens \cup {NoToken} /\ http \in Tokens \cup {NoToken}
  /\ credited \in BOOLEAN /\ answered \subseteq Tokens
  /\ grace \subseteq Devices
  /\ public \in BOOLEAN /\ now \in Nat
  /\ moves \in Nat /\ restarts \in Nat

\* In every wallet what came in and what went out explain the balance, in
\* memory and in the file, through concurrent charges, transfers between two
\* clients of one device, shared royalties, crashes and restarts.
Balanced(b) ==
  \A d \in Devices :
    b.balance[d] + b.paid[d] + b.withdrawn[d] + b.sent[d]
      = b.charged[d] + b.earned[d]
WalletBooks == Balanced(books) /\ Balanced(disk)

\* "Replay protection": one process credits a charge token at most once,
\* whichever of the two loops it comes through and although the table of used
\* tokens is purged.
ChargedOnce == \A t \in Tokens : spent[t] <= 1

\* Nobody spends what is not there: a wallet is overdrawn at most by the
\* royalties it shared as a listener's, which nobody checks.
NoOverdraft == \A d \in Devices : books.balance[d] >= -books.shared[d]

\* A charge the HTTP loop has confirmed is in the file, and so survives every
\* later crash.
AnsweredIsSaved == \A t \in answered : saved /\ disk.booked[t] > 0

\* "Remove grace period if DJ has funds": a group is taken off the air only
\* when its payer cannot pay a royalty.
OnlyShortPayersSilenced ==
  [][\A p \in Devices :
       AutoPrivate(p) => \E u \in Units : books.balance[p] < 10 * u]_vars

\* The file holds, beside wallets and payouts, the "rights_holder_balances":
\* what was saved of them is there again after a restart.
RightsSurviveRestart ==
  [][Restart /\ saved => books'.rights = disk.rights]_vars
=============================================================================
