--------------------------- MODULE LiveScriptsLemmas ---------------------------
(***************************************************************************)
(* The steps of the live scripts.  A view says what holds when a script is *)
(* at one of its steps; here every kind of step is shown to lead from its  *)
(* view to the next one, whatever the market, the other wallets and the    *)
(* faults do: an instruction executed, refused or lost, a read, a wait, a  *)
(* jump.  LiveScriptsProofs gives a view to every step of every program.   *)
(***************************************************************************)
EXTENDS LiveScripts, SequenceTheorems, WellFoundedInduction, TLAPS

-----------------------------------------------------------------------------
(***************************************************************************)
(* The sum of the positions.  A set of numbers that is not empty has a     *)
(* least one.                                                              *)
(***************************************************************************)
LEMMA LeastOf ==
  ASSUME NEW T, T \subseteq Nat, T # {}
  PROVE  \E m \in T : \A k \in T : m <= k
<1> DEFINE R == OpToRel(<, Nat)
<1>1. IsWellFoundedOn(R, Nat)
  BY NatLessThanWellFounded
<1>2. \A a, b \in Nat : a < b => <<a, b>> \in R
  BY DEF OpToRel
<1> HIDE DEF R
<1>3. PICK m \in T : \A k \in T : ~ (<<k, m>> \in R)
  BY <1>1, WFMin
<1>4. ASSUME NEW k \in T PROVE m <= k
  <2>1. m \in Nat /\ k \in Nat /\ ~ (k < m)
    BY <1>2, <1>3
  <2> QED BY <2>1
<1> QED BY <1>4

Positions(account) == \A i \in Slots : account[i].pos \in Int

(* s[n] is the sum of the first n positions.                               *)
Sums(s, account, N) ==
  /\ s \in [0 .. N -> Int] /\ s[0] = 0
  /\ \A n \in 1 .. N : s[n] = s[n - 1] + account[n - 1].pos

LEMMA Natural == MaxSlot \in Nat /\ BankUsers \in Nat /\ BankUsers < MaxSlot /\ LP \in Slots
BY LiveAssumption DEF Slots, LP

LEMMA SumsExist ==
  ASSUME NEW account, Positions(account)
  PROVE  \E s : Sums(s, account, MaxSlot + 1)
<1> DEFINE T == {n \in 0 .. MaxSlot + 1 : ~ \E s : Sums(s, account, n)}
<1>1. SUFFICES ASSUME T # {} PROVE FALSE
  BY Natural
<1>2. PICK n \in T : \A k \in T : n <= k
  <2>1. T \subseteq Nat
    BY Natural
  <2> HIDE DEF T
  <2> QED BY <1>1, <2>1, LeastOf
<1>3. n \in 0 .. MaxSlot + 1 /\ ~ \E s : Sums(s, account, n)
  OBVIOUS
<1>4. n # 0
  <2> DEFINE z == [k \in 0 .. 0 |-> 0]
  <2>1. z \in [0 .. 0 -> Int] /\ z[0] = 0 /\ 1 .. 0 = {}
    OBVIOUS
  <2>2. Sums(z, account, 0)
    BY <2>1 DEF Sums
  <2> QED BY <1>3, <2>2
<1>5. n - 1 \in 0 .. MaxSlot + 1 /\ n - 1 \in Slots /\ ~ (n <= n - 1)
  BY <1>3, <1>4, Natural DEF Slots
<1>6. PICK s : Sums(s, account, n - 1)
  BY <1>2, <1>5
<1> DEFINE t == [k \in 0 .. n |-> IF k = n THEN s[n - 1] + account[n - 1].pos ELSE s[k]]
<1>7. t \in [0 .. n -> Int]
  <2>1. s \in [0 .. n - 1 -> Int] /\ account[n - 1].pos \in Int
    BY <1>5, <1>6 DEF Sums, Positions
  <2> QED BY <2>1, <1>3, <1>4, Natural
<1>8. Sums(t, account, n)
  <2>1. s[0] = 0 /\ t[0] = 0
    BY <1>3, <1>4, <1>6, Natural DEF Sums
  <2>2. ASSUME NEW k \in 1 .. n PROVE t[k] = t[k - 1] + account[k - 1].pos
    <3>1. CASE k = n
      BY <3>1, <1>3, <1>4, Natural
    <3>2. CASE k # n
      <4>1. k \in 1 .. n - 1 /\ k - 1 # n /\ k \in 0 .. n /\ k - 1 \in 0 .. n
        BY <3>2, <1>3, Natural
      <4> QED BY <4>1, <3>2, <1>6 DEF Sums
    <3> QED BY <3>1, <3>2
  <2> HIDE DEF t
  <2> QED BY <2>1, <2>2, <1>7 DEF Sums
<1> QED BY <1>3, <1>8

(* The model's sum is the last of them.                                    *)
LEMMA SumIs ==
  ASSUME NEW account, Positions(account), NEW s, Sums(s, account, MaxSlot + 1)
  PROVE  OpenInterest(account) = s[MaxSlot + 1]
<1> DEFINE D == 0 .. MaxSlot + 1
           Eq(f) == f = [n \in D |-> IF n = 0 THEN 0 ELSE f[n - 1] + account[n - 1].pos]
           g == CHOOSE f : Eq(f)
<1>1. Eq(s)
  BY Natural DEF Sums
<1>2. Eq(g)
  BY <1>1
<1>3. OpenInterest(account) = g[MaxSlot + 1]
  BY DEF OpenInterest
<1> HIDE DEF g
<1> DEFINE T == {n \in D : g[n] # s[n]}
<1>4. T = {}
  <2>1. SUFFICES ASSUME T # {} PROVE FALSE
    OBVIOUS
  <2>2. T \subseteq Nat
    BY Natural
  <2>3. PICK n \in T : \A k \in T : n <= k
    <3> HIDE DEF T
    <3> QED BY <2>1, <2>2, LeastOf
  <2>4. CASE n = 0
    BY <2>4, <1>1, <1>2, Natural
  <2>5. CASE n # 0
    <3>1. n \in D /\ n - 1 \in D /\ ~ (n <= n - 1)
      BY <2>5, Natural
    <3>2. g[n - 1] = s[n - 1]
      BY <3>1, <2>3
    <3>3. g[n] = g[n - 1] + account[n - 1].pos /\ s[n] = s[n - 1] + account[n - 1].pos
      BY <3>1, <2>5, <1>1, <1>2
    <3> QED BY <3>2, <3>3
  <2> QED BY <2>4, <2>5
<1>5. MaxSlot + 1 \in D
  BY Natural
<1> QED BY <1>3, <1>4, <1>5

LEMMA SumInt ==
  ASSUME NEW account, Positions(account)
  PROVE  OpenInterest(account) \in Int
<1>1. PICK s : Sums(s, account, MaxSlot + 1)
  BY SumsExist
<1> QED BY <1>1, SumIs, Natural DEF Sums

(* One position changes.                                                   *)
LEMMA SumStep ==
  ASSUME NEW account, Positions(account), NEW other, NEW i \in Slots, NEW d \in Int,
         other[i].pos = account[i].pos + d,
         \A k \in Slots : k # i => other[k].pos = account[k].pos
  PROVE  OpenInterest(other) = OpenInterest(account) + d
<1>1. PICK s : Sums(s, account, MaxSlot + 1)
  BY SumsExist
<1> DEFINE t == [n \in 0 .. MaxSlot + 1 |-> IF i < n THEN s[n] + d ELSE s[n]]
<1>2. Positions(other)
  BY DEF Positions
<1>3. i \in Int /\ 0 <= i /\ i <= MaxSlot /\ MaxSlot \in Nat
  BY Natural DEF Slots
<1>4. s \in [0 .. MaxSlot + 1 -> Int] /\ s[0] = 0
      /\ \A n \in 1 .. MaxSlot + 1 : s[n] = s[n - 1] + account[n - 1].pos
  BY <1>1 DEF Sums
<1>5. t \in [0 .. MaxSlot + 1 -> Int] /\ t[0] = 0
  BY <1>3, <1>4
<1>6. ASSUME NEW n \in 1 .. MaxSlot + 1 PROVE t[n] = t[n - 1] + other[n - 1].pos
  <2>1. n - 1 \in Slots /\ n \in 0 .. MaxSlot + 1 /\ n - 1 \in 0 .. MaxSlot + 1 /\ n \in Int
    BY <1>3 DEF Slots
  <2>2. s[n] = s[n - 1] + account[n - 1].pos /\ s[n] \in Int /\ s[n - 1] \in Int
        /\ account[n - 1].pos \in Int
    BY <2>1, <1>4 DEF Positions
  <2>3. CASE i < n - 1
    <3>1. t[n] = s[n] + d /\ t[n - 1] = s[n - 1] + d /\ other[n - 1].pos = account[n - 1].pos
      BY <2>1, <2>3, <1>3
    <3> QED BY <3>1, <2>2
  <2>4. CASE i = n - 1
    <3>1. t[n] = s[n] + d /\ t[n - 1] = s[n - 1] /\ other[n - 1].pos = account[n - 1].pos + d
      BY <2>1, <2>4, <1>3
    <3> QED BY <3>1, <2>2
  <2>5. CASE i > n - 1
    <3>1. t[n] = s[n] /\ t[n - 1] = s[n - 1] /\ other[n - 1].pos = account[n - 1].pos
      BY <2>1, <2>5, <1>3
    <3> QED BY <3>1, <2>2
  <2> QED BY <2>3, <2>4, <2>5, <2>1, <1>3
<1>7. Sums(t, other, MaxSlot + 1)
  <2> HIDE DEF t
  <2> QED BY <1>5, <1>6 DEF Sums
<1>8. t[MaxSlot + 1] = s[MaxSlot + 1] + d
  BY <1>3
<1>9. OpenInterest(other) = t[MaxSlot + 1]
  <2> HIDE DEF t
  <2> QED BY <1>2, <1>7, SumIs
<1>10. OpenInterest(account) = s[MaxSlot + 1]
  BY <1>1, SumIs
<1> QED BY <1>8, <1>9, <1>10

LEMMA SumSame ==
  ASSUME NEW account, Positions(account), NEW other,
         \A k \in Slots : other[k].pos = account[k].pos
  PROVE  OpenInterest(other) = OpenInterest(account)
<1>1. LP \in Slots /\ account[LP].pos \in Int
  BY Natural DEF Positions
<1>2. OpenInterest(other) = OpenInterest(account) + 0
  BY <1>1, SumStep
<1> QED BY <1>2, SumInt

(* What one position loses another gains.                                  *)
LEMMA SumSwap ==
  ASSUME NEW account, Positions(account), NEW other, NEW i \in Slots, NEW j \in Slots, i # j,
         NEW d \in Int, other[i].pos = account[i].pos + d, other[j].pos = account[j].pos - d,
         \A k \in Slots : k \notin {i, j} => other[k].pos = account[k].pos
  PROVE  OpenInterest(other) = OpenInterest(account)
<1> DEFINE mid == [k \in Slots |-> IF k = i THEN other[i] ELSE account[k]]
<1>1. Positions(mid) /\ mid[i].pos = account[i].pos + d
      /\ \A k \in Slots : k # i => mid[k].pos = account[k].pos
  BY DEF Positions
<1>2. other[j].pos = mid[j].pos + (-d) /\ \A k \in Slots : k # j => other[k].pos = mid[k].pos
  BY DEF Positions
<1> HIDE DEF mid
<1>3. OpenInterest(mid) = OpenInterest(account) + d
  BY <1>1, SumStep
<1>4. -d \in Int /\ OpenInterest(other) = OpenInterest(mid) + (-d)
  BY <1>1, <1>2, SumStep
<1>5. OpenInterest(account) \in Int
  BY SumInt
<1> QED BY <1>3, <1>4, <1>5

LEMMA SumZero ==
  ASSUME NEW account, \A k \in Slots : account[k].pos = 0
  PROVE  OpenInterest(account) = 0
<1> DEFINE z == [n \in 0 .. MaxSlot + 1 |-> 0]
<1>1. Positions(account)
  BY DEF Positions
<1>2. \A n \in 1 .. MaxSlot + 1 : n - 1 \in Slots
  BY Natural DEF Slots
<1>3. Sums(z, account, MaxSlot + 1)
  BY <1>2, Natural DEF Sums
<1>4. z[MaxSlot + 1] = 0
  BY Natural
<1> HIDE DEF z
<1> QED BY <1>1, <1>3, <1>4, SumIs

LEMMA SumPositive ==
  ASSUME NEW account, \A k \in Slots : account[k].pos \in Nat
  PROVE  OpenInterest(account) \in Nat
<1>1. Positions(account)
  BY DEF Positions
<1>2. PICK s : Sums(s, account, MaxSlot + 1)
  BY <1>1, SumsExist
<1> DEFINE T == {n \in 0 .. MaxSlot + 1 : ~ (0 <= s[n])}
<1>3. T = {}
  <2>1. SUFFICES ASSUME T # {} PROVE FALSE
    OBVIOUS
  <2>2. T \subseteq Nat
    BY Natural
  <2>3. PICK n \in T : \A k \in T : n <= k
    <3> HIDE DEF T
    <3> QED BY <2>1, <2>2, LeastOf
  <2>4. n # 0
    BY <1>2, Natural DEF Sums
  <2>5. n \in 1 .. MaxSlot + 1 /\ n - 1 \in 0 .. MaxSlot + 1 /\ ~ (n <= n - 1) /\ n - 1 \in Slots
    BY <2>4, Natural DEF Slots
  <2>6. 0 <= s[n - 1] /\ s[n - 1] \in Int
    BY <2>3, <2>5, <1>2 DEF Sums
  <2>7. s[n] = s[n - 1] + account[n - 1].pos
    BY <2>5, <1>2 DEF Sums
  <2> QED BY <2>5, <2>6, <2>7
<1>4. 0 <= s[MaxSlot + 1] /\ s[MaxSlot + 1] \in Int
  BY <1>2, <1>3, Natural DEF Sums
<1> QED BY <1>1, <1>2, <1>4, SumIs

(* Positions of one sign that add up to nothing are all flat.              *)
LEMMA SumFlat ==
  ASSUME NEW account, \A k \in Slots : account[k].pos \in Nat, OpenInterest(account) = 0
  PROVE  \A i \in Slots : account[i].pos = 0
<1>1. SUFFICES ASSUME NEW i \in Slots, account[i].pos # 0 PROVE FALSE
  OBVIOUS
<1> DEFINE flat == [k \in Slots |-> IF k = i THEN [pos |-> 0] ELSE [pos |-> account[k].pos]]
<1>2. \A k \in Slots : flat[k].pos \in Nat
  OBVIOUS
<1>3. Positions(account) /\ flat[i].pos = account[i].pos + (-account[i].pos) /\ -account[i].pos \in Int
      /\ \A k \in Slots : k # i => flat[k].pos = account[k].pos
  BY DEF Positions
<1> HIDE DEF flat
<1>4. OpenInterest(flat) = OpenInterest(account) + (-account[i].pos)
  BY <1>3, SumStep
<1>5. OpenInterest(flat) \in Nat
  BY <1>2, SumPositive
<1> QED BY <1>1, <1>4, <1>5

-----------------------------------------------------------------------------
(***************************************************************************)
(* The market.                                                             *)
(***************************************************************************)
Prices  == -2 .. 1
Stages  == {"none", "blank", "live", "resolved", "closed"}
Account == [owner : {"none", PAYER, STRANGER}, lp : BOOLEAN, capital : Nat, pos : Int, at : Prices,
            pnl : {"none", "warming", "ripe"}]
Market  == [stage : Stages, mark : BOOLEAN, price : Prices, fund : BOOLEAN, account : [Slots -> Account],
            free : Seq(Slots)]

(* Only an open account has anything in it, and only the wallet has an LP. *)
Owned(a) == (a.owner = "none" => a = NoAccount) /\ (a.lp => a.owner = PAYER)

(* Nothing is open against an LP that does not exist.                      *)
Backed(m) == m.account[LP].lp \/ \A i \in Slots : m.account[i].pos = 0

Books(m) ==
  /\ m \in Market
  /\ ToSet(m.free) = Slots \ Used(m) /\ IsInjective(m.free)
  /\ \A i \in Slots : Owned(m.account[i])
  /\ m.stage = "live" => OpenInterest(m.account) = 0 /\ Backed(m)
  /\ m.stage \in {"none", "blank"} => \A i \in Slots : m.account[i] = NoAccount

LEMMA Wallets == PAYER # STRANGER /\ PAYER # "none" /\ STRANGER # "none"
BY LiveAssumption

LEMMA NoAccountType == NoAccount \in Account /\ Owned(NoAccount)
BY Wallets DEF NoAccount, Account, Owned, Prices

LEMMA BooksUsed ==
  ASSUME NEW m, Books(m), NEW i \in Slots
  PROVE  i \in Used(m) <=> m.account[i].owner # "none"
BY DEF Books, Owned, Used, NoAccount

LEMMA SettledAccount ==
  ASSUME NEW a \in Account, NEW p \in Prices
  PROVE  /\ Settled(a, p) \in Account
         /\ Settled(a, p).owner = a.owner /\ Settled(a, p).lp = a.lp /\ Settled(a, p).pos = a.pos
         /\ Settled(a, p).at = p
<1> DEFINE g == a.pos * (p - a.at)
           c == IF g < 0 THEN Floor(a.capital + g) ELSE a.capital
           l == IF g > 0 THEN "warming" ELSE a.pnl
<1>1. g \in Int
  BY DEF Account, Prices
<1>2. c \in Nat
  <2> HIDE DEF g
  <2> QED BY <1>1 DEF Floor, Account
<1>3. Settled(a, p) = [a EXCEPT !.at = p, !.capital = c, !.pnl = l]
  BY DEF Settled, Account
<1>4. l \in {"none", "warming", "ripe"}
  BY DEF Account
<1> HIDE DEF g, c, l
<1> QED BY <1>2, <1>3, <1>4 DEF Account

LEMMA TouchedAccount ==
  ASSUME NEW a \in Account, NEW p \in Prices
  PROVE  /\ Touched(a, p) \in Account
         /\ Touched(a, p).owner = a.owner /\ Touched(a, p).lp = a.lp /\ Touched(a, p).pos = a.pos
         /\ Touched(a, p).at = p
<1>1. /\ Settled(a, p) \in Account
      /\ Settled(a, p).owner = a.owner /\ Settled(a, p).lp = a.lp /\ Settled(a, p).pos = a.pos
      /\ Settled(a, p).at = p
  BY SettledAccount
<1> DEFINE s == Settled(a, p)
           c == s.capital + 1
           t == [s EXCEPT !.pnl = "none", !.capital = c]
<1>2. Touched(a, p) = IF s.pnl = "ripe" THEN t ELSE s
  BY <1>1 DEF Touched, Account
<1> HIDE DEF s
<1>3. s \in Account /\ s.owner = a.owner /\ s.lp = a.lp /\ s.pos = a.pos /\ s.at = p
  BY <1>1 DEF s
<1>4. c \in Nat
  BY <1>3 DEF Account
<1> HIDE DEF c
<1>5. t \in Account /\ t.owner = s.owner /\ t.lp = s.lp /\ t.pos = s.pos /\ t.at = s.at
  BY <1>3, <1>4 DEF Account
<1> HIDE DEF t
<1> QED BY <1>2, <1>3, <1>5

(* Accounts that change and keep their owners.                             *)
LEMMA Recast ==
  ASSUME NEW m, Books(m), NEW acc \in [Slots -> Account],
         \A i \in Slots : /\ acc[i].owner = m.account[i].owner /\ acc[i].lp = m.account[i].lp
                          /\ acc[i].owner = "none" => acc[i] = NoAccount,
         m.stage = "live" => OpenInterest(acc) = 0,
         m.stage = "live" /\ ~ m.account[LP].lp => \A i \in Slots : acc[i].pos = 0
  PROVE  Books([m EXCEPT !.account = acc])
<1> DEFINE n == [m EXCEPT !.account = acc]
<1>1. n \in Market /\ n.stage = m.stage /\ n.free = m.free /\ n.account = acc
  BY DEF Books, Market
<1>2. Used(n) = Used(m)
  <2>1. \A i \in Slots : acc[i] = NoAccount <=> m.account[i] = NoAccount
    BY DEF Books, Owned, NoAccount
  <2> QED BY <2>1, <1>1 DEF Used
<1>3. \A i \in Slots : Owned(acc[i])
  BY DEF Owned, Books
<1>4. LP \in Slots
  BY Natural
<1> HIDE DEF n
<1>5. n.stage \in {"none", "blank"} => \A i \in Slots : n.account[i] = NoAccount
  BY <1>1 DEF Books, NoAccount
<1>6. n.stage = "live" => OpenInterest(n.account) = 0 /\ Backed(n)
  BY <1>1, <1>4 DEF Backed
<1>7. ToSet(n.free) = Slots \ Used(n) /\ IsInjective(n.free)
  BY <1>1, <1>2 DEF Books
<1>8. Books(n)
  BY <1>1, <1>3, <1>5, <1>6, <1>7 DEF Books
<1> QED BY <1>8 DEF n

(* A slot is put back in front of the freelist.                            *)
LEMMA FreedBooks ==
  ASSUME NEW m, Books(m), NEW i \in Slots, m.account[i].owner # "none",
         m.stage = "live" => m.account[i].pos = 0 /\ (i = LP => \A k \in Slots : m.account[k].pos = 0)
  PROVE  Books(Freed(m, i)) /\ Used(Freed(m, i)) = Used(m) \ {i}
<1> DEFINE n == Freed(m, i)
           acc == [m.account EXCEPT ![i] = NoAccount]
<1>1. m \in Market /\ m.account \in [Slots -> Account] /\ m.free \in Seq(Slots)
  BY DEF Books, Market
<1>2. acc \in [Slots -> Account] /\ \A k \in Slots : acc[k] = IF k = i THEN NoAccount ELSE m.account[k]
  BY <1>1, NoAccountType
<1>3. n.account = acc /\ n.free = <<i>> \o m.free /\ n.stage = m.stage /\ n.mark = m.mark
      /\ n.price = m.price /\ n.fund = m.fund
  BY <1>1 DEF Freed, Market
<1>4. <<i>> \o m.free \in Seq(Slots)
  BY <1>1
<1>5. n \in Market
  BY <1>1, <1>2, <1>4 DEF Freed, Market
<1>6. Used(n) = Used(m) \ {i}
  <2> HIDE DEF n, acc
  <2> QED BY <1>2, <1>3 DEF Used
<1>7. i \in Used(m)
  BY BooksUsed
<1>8. /\ DOMAIN n.free = 1 .. Len(m.free) + 1 /\ DOMAIN m.free = 1 .. Len(m.free) /\ Len(m.free) \in Nat
      /\ n.free[1] = i
      /\ \A k \in 1 .. Len(m.free) : n.free[k + 1] = m.free[k]
      /\ \A k \in 2 .. Len(m.free) + 1 : n.free[k] = m.free[k - 1] /\ k - 1 \in 1 .. Len(m.free)
  <2> HIDE DEF n
  <2> QED BY <1>1, <1>3
<1> HIDE DEF n
<1>9. ToSet(n.free) = Slots \ Used(n)
  <2>1. ToSet(n.free) \subseteq {i} \cup ToSet(m.free)
    BY <1>8 DEF ToSet
  <2>2. i \in ToSet(n.free)
    BY <1>8 DEF ToSet
  <2>3. ToSet(m.free) \subseteq ToSet(n.free)
    <3>1. \A k \in 1 .. Len(m.free) : k + 1 \in 1 .. Len(m.free) + 1
      BY <1>8
    <3> QED BY <1>8, <3>1 DEF ToSet
  <2>4. ToSet(m.free) = Slots \ Used(m)
    BY DEF Books
  <2> QED BY <1>6, <1>7, <2>1, <2>2, <2>3, <2>4
<1>10. IsInjective(n.free)
  <2>1. \A k \in 1 .. Len(m.free) : m.free[k] # i
    <3>1. i \notin ToSet(m.free)
      BY <1>7 DEF Books
    <3> QED BY <3>1, <1>8 DEF ToSet
  <2>2. \A j, k \in 1 .. Len(m.free) : m.free[j] = m.free[k] => j = k
    BY <1>8 DEF Books, IsInjective
  <2>3. ASSUME NEW j \in 1 .. Len(m.free) + 1, NEW k \in 1 .. Len(m.free) + 1, n.free[j] = n.free[k]
        PROVE  j = k
    <3>1. j = 1 \/ j \in 2 .. Len(m.free) + 1
      BY <1>8
    <3>2. k = 1 \/ k \in 2 .. Len(m.free) + 1
      BY <1>8
    <3>3. CASE j = 1 /\ k \in 2 .. Len(m.free) + 1
      BY <3>3, <2>1, <2>3, <1>8
    <3>4. CASE k = 1 /\ j \in 2 .. Len(m.free) + 1
      BY <3>4, <2>1, <2>3, <1>8
    <3>5. CASE j \in 2 .. Len(m.free) + 1 /\ k \in 2 .. Len(m.free) + 1
      <4>1. j - 1 = k - 1
        BY <3>5, <2>2, <2>3, <1>8
      <4> QED BY <4>1, <1>8
    <3> QED BY <3>1, <3>2, <3>3, <3>4, <3>5
  <2> QED BY <2>3, <1>8 DEF IsInjective
<1>11. \A k \in Slots : Owned(n.account[k])
  BY <1>2, <1>3, NoAccountType DEF Books
<1>12. n.stage = "live" => OpenInterest(n.account) = 0 /\ Backed(n)
  <2>1. SUFFICES ASSUME m.stage = "live" PROVE OpenInterest(n.account) = 0 /\ Backed(n)
    BY <1>3
  <2>2. Positions(m.account) /\ \A k \in Slots : n.account[k].pos = m.account[k].pos
    BY <1>1, <1>2, <1>3, <2>1 DEF Positions, Account, NoAccount
  <2>3. OpenInterest(n.account) = 0
    BY <2>1, <2>2, SumSame DEF Books
  <2>4. Backed(n)
    <3>1. CASE i = LP
      BY <3>1, <2>1, <2>2 DEF Backed
    <3>2. CASE i # LP
      <4>1. Backed(m) /\ n.account[LP] = m.account[LP]
        BY <3>2, <2>1, <1>2, <1>3, Natural DEF Books
      <4> QED BY <4>1, <2>2 DEF Backed
    <3> QED BY <3>1, <3>2
  <2> QED BY <2>3, <2>4
<1>13. n.stage \in {"none", "blank"} => \A k \in Slots : n.account[k] = NoAccount
  BY <1>2, <1>3 DEF Books
<1>14. Books(n)
  BY <1>5, <1>9, <1>10, <1>11, <1>12, <1>13 DEF Books
<1> QED BY <1>6, <1>14 DEF n

(* A slot is taken off the freelist.                                       *)
LEMMA OpenedBooks ==
  ASSUME NEW m, Books(m), m.stage = "live", m.free # <<>>, NEW owner \in {PAYER, STRANGER},
         NEW lp \in BOOLEAN, lp => owner = PAYER
  PROVE  LET h == Head(m.free)
             n == Opened(m, owner, lp)
         IN  /\ h \in Slots /\ m.account[h] = NoAccount
             /\ Books(n) /\ Used(n) = Used(m) \cup {h}
             /\ n.account = [m.account EXCEPT ![h] =
                  [owner |-> owner, lp |-> lp, capital |-> 0, pos |-> 0, at |-> m.price, pnl |-> "none"]]
             /\ n.stage = m.stage /\ n.mark = m.mark /\ n.price = m.price /\ n.fund = m.fund
<1> DEFINE h == Head(m.free)
           new == [owner |-> owner, lp |-> lp, capital |-> 0, pos |-> 0, at |-> m.price, pnl |-> "none"]
           acc == [m.account EXCEPT ![h] = new]
           n == Opened(m, owner, lp)
<1>1. m \in Market /\ m.account \in [Slots -> Account] /\ m.free \in Seq(Slots) /\ m.price \in Prices
  BY DEF Books, Market
<1>2. /\ Len(m.free) \in Nat /\ Len(m.free) >= 1 /\ h = m.free[1] /\ DOMAIN m.free = 1 .. Len(m.free)
      /\ Tail(m.free) \in Seq(Slots) /\ DOMAIN Tail(m.free) = 1 .. Len(m.free) - 1
      /\ \A k \in 1 .. Len(m.free) - 1 : Tail(m.free)[k] = m.free[k + 1]
  BY <1>1
<1>3. h \in ToSet(m.free) /\ h \in Slots
  BY <1>1, <1>2 DEF ToSet
<1>4. m.account[h] = NoAccount
  BY <1>3 DEF Books, Used
<1>5. new \in Account /\ Owned(new) /\ new # NoAccount /\ new.pos = 0
  BY <1>1, Wallets DEF Account, Owned, NoAccount
<1>6. n.account = acc /\ n.free = Tail(m.free) /\ n.stage = m.stage /\ n = [m EXCEPT !.account = acc, !.free = Tail(m.free)]
  <2> DEFINE made == [NoAccount EXCEPT !.owner = owner, !.lp = lp, !.at = m.price]
  <2>1. Opened(m, owner, lp) = [m EXCEPT !.account = [m.account EXCEPT ![h] = made], !.free = Tail(m.free)]
    BY <1>1 DEF Opened, Market
  <2>2. made \in [owner : {owner}, lp : {lp}, capital : {0}, pos : {0}, at : {m.price}, pnl : {"none"}]
    BY DEF NoAccount
  <2> HIDE DEF made, h
  <2>3. new = made
    BY <2>2
  <2> HIDE DEF new
  <2>4. n = [m EXCEPT !.account = acc, !.free = Tail(m.free)]
    BY <2>1, <2>3
  <2> HIDE DEF n
  <2> QED BY <2>4, <1>1 DEF Market
<1>7. acc \in [Slots -> Account] /\ \A k \in Slots : acc[k] = IF k = h THEN new ELSE m.account[k]
  BY <1>1, <1>3, <1>5
<1>8. n \in Market
  BY <1>1, <1>2, <1>6, <1>7 DEF Market
<1> HIDE DEF h, new, acc, n
<1>9. Used(n) = Used(m) \cup {h}
  BY <1>3, <1>5, <1>6, <1>7 DEF Used
<1>10. \A j, k \in 1 .. Len(m.free) : m.free[j] = m.free[k] => j = k
  BY <1>2 DEF Books, IsInjective
<1>11. ToSet(n.free) = ToSet(m.free) \ {h}
  <2>1. ASSUME NEW k \in 1 .. Len(m.free) - 1 PROVE Tail(m.free)[k] \in ToSet(m.free) \ {h}
    <3>1. k + 1 \in 1 .. Len(m.free) /\ k + 1 # 1 /\ 1 \in 1 .. Len(m.free)
      BY <1>2
    <3> QED BY <3>1, <1>2, <1>10 DEF ToSet
  <2>2. ASSUME NEW k \in 1 .. Len(m.free), m.free[k] # h PROVE m.free[k] \in ToSet(Tail(m.free))
    <3>1. k # 1 /\ k - 1 \in 1 .. Len(m.free) - 1 /\ (k - 1) + 1 = k
      BY <2>2, <1>2
    <3>2. Tail(m.free)[k - 1] = m.free[k]
      BY <3>1, <1>2
    <3> QED BY <3>1, <3>2, <1>2 DEF ToSet
  <2>3. ToSet(Tail(m.free)) \subseteq ToSet(m.free) \ {h}
    BY <2>1, <1>2 DEF ToSet
  <2>4. ToSet(m.free) \ {h} \subseteq ToSet(Tail(m.free))
    BY <2>2, <1>2 DEF ToSet
  <2> QED BY <2>3, <2>4, <1>6
<1>12. IsInjective(n.free)
  <2>1. ASSUME NEW j \in 1 .. Len(m.free) - 1, NEW k \in 1 .. Len(m.free) - 1,
               Tail(m.free)[j] = Tail(m.free)[k]
        PROVE  j = k
    <3>1. j + 1 \in 1 .. Len(m.free) /\ k + 1 \in 1 .. Len(m.free) /\ m.free[j + 1] = m.free[k + 1]
      BY <2>1, <1>2
    <3>2. j + 1 = k + 1
      BY <3>1, <1>10
    <3> QED BY <3>2, <1>2
  <2> QED BY <2>1, <1>2, <1>6 DEF IsInjective
<1>13. ToSet(n.free) = Slots \ Used(n)
  BY <1>9, <1>11 DEF Books
<1>14. \A k \in Slots : n.account[k].pos = m.account[k].pos
  BY <1>4, <1>5, <1>6, <1>7 DEF NoAccount
<1>15. OpenInterest(n.account) = 0 /\ Backed(n)
  <2>1. Positions(m.account)
    BY <1>1 DEF Positions, Account
  <2>2. OpenInterest(n.account) = 0
    BY <1>14, <2>1, SumSame DEF Books
  <2>3. Backed(n)
    <3>1. CASE m.account[LP].lp
      <4>1. LP # h
        BY <3>1, <1>4 DEF NoAccount
      <4> QED BY <3>1, <4>1, <1>6, <1>7, Natural DEF Backed
    <3>2. CASE ~ m.account[LP].lp
      BY <3>2, <1>14 DEF Backed, Books
    <3> QED BY <3>1, <3>2
  <2> QED BY <2>2, <2>3
<1>16. \A k \in Slots : Owned(n.account[k])
  BY <1>5, <1>6, <1>7 DEF Books
<1>17. Books(n)
  BY <1>6, <1>8, <1>12, <1>13, <1>15, <1>16 DEF Books
<1>18. n.mark = m.mark /\ n.price = m.price /\ n.fund = m.fund
  BY <1>1, <1>6 DEF Market
<1> QED BY <1>3, <1>4, <1>6, <1>9, <1>17, <1>18 DEF h, n, acc, new

-----------------------------------------------------------------------------
(***************************************************************************)
(* What an instruction may be asked to do.  A slot that frees the LP's     *)
(* account leaves nothing open against it when no position is short.       *)
(***************************************************************************)
Legal(m, op, i, n) ==
  /\ op = "PushOraclePrice" => n \in Prices
  /\ op = "DepositCollateral" => i \in Slots /\ n \in Nat
  /\ op = "TradeCpi" => i \in Slots \ {LP} /\ n \in Int
  /\ op = "WithdrawCollateral" => i \in Slots /\ n \in Int
  /\ op = "CloseAccount" => i \in Slots /\ (i = LP => \A k \in Slots \ {LP} : m.account[k].pos >= 0)
  /\ op = "AdminForceCloseAccount" => i \in Slots

LEMMA LpFlat ==
  ASSUME NEW m, Books(m), m.stage = "live", m.account[LP].pos = 0,
         \A k \in Slots \ {LP} : m.account[k].pos >= 0
  PROVE  \A k \in Slots : m.account[k].pos = 0
<1>1. \A k \in Slots : m.account[k].pos \in Nat
  BY DEF Books, Market, Account
<1>2. OpenInterest(m.account) = 0
  BY DEF Books
<1> QED BY <1>1, <1>2, SumFlat

LEMMA ClosedBooks ==
  ASSUME NEW m, Books(m), m.stage = "live", NEW i \in Slots \ {LP}, i \in Used(m), m.account[i].pos # 0
  PROVE  /\ Books(Closed(m, i)) /\ Used(Closed(m, i)) = Used(m)
         /\ Closed(m, i) = [m EXCEPT !.account = [m.account EXCEPT
              ![i] = [m.account[i] EXCEPT !.pos = 0],
              ![LP] = [m.account[LP] EXCEPT !.pos = m.account[LP].pos + m.account[i].pos]]]
<1> DEFINE x == m.account[i].pos
           y == m.account[LP].pos
           a == [m.account[i] EXCEPT !.pos = 0]
           b == [m.account[LP] EXCEPT !.pos = y + x]
           acc == [m.account EXCEPT ![i] = a, ![LP] = b]
<1>1. m \in Market /\ m.account \in [Slots -> Account] /\ LP \in Slots /\ i # LP /\ x \in Int /\ y \in Int
  BY Natural DEF Books, Market, Account
<1>2. Closed(m, i) = [m EXCEPT !.account = acc]
  BY <1>1 DEF Closed, Market
<1>3. m.account[i] \in Account /\ m.account[LP] \in Account
  BY <1>1
<1>4. a \in Account /\ a.owner = m.account[i].owner /\ a.lp = m.account[i].lp /\ a.pos = 0
  BY <1>3 DEF Account
<1>5. y + x \in Int
  BY <1>1
<1>6. b \in Account /\ b.owner = m.account[LP].owner /\ b.lp = m.account[LP].lp /\ b.pos = y + x
  BY <1>3, <1>5 DEF Account
<1>7. m.account[LP].lp /\ m.account[LP].owner = PAYER /\ m.account[i].owner # "none"
  BY <1>1, BooksUsed DEF Books, Backed, Owned
<1> HIDE DEF a, b
<1>8. acc \in [Slots -> Account]
      /\ \A k \in Slots : acc[k] = IF k = i THEN a ELSE IF k = LP THEN b ELSE m.account[k]
  BY <1>1, <1>4, <1>6
<1> HIDE DEF acc
<1>9. \A k \in Slots : /\ acc[k].owner = m.account[k].owner /\ acc[k].lp = m.account[k].lp
                       /\ acc[k].owner = "none" => acc[k] = NoAccount
  BY <1>1, <1>4, <1>6, <1>7, <1>8, Wallets DEF Books, Owned
<1>10. OpenInterest(acc) = 0
  <2>1. Positions(m.account)
    BY <1>1 DEF Positions, Account
  <2>2. -x \in Int /\ acc[i].pos = m.account[i].pos + (-x) /\ acc[LP].pos = m.account[LP].pos - (-x)
    BY <1>1, <1>4, <1>6, <1>8
  <2>3. \A k \in Slots : k \notin {i, LP} => acc[k].pos = m.account[k].pos
    BY <1>8
  <2> HIDE DEF x, y
  <2>4. OpenInterest(acc) = OpenInterest(m.account)
    BY <2>1, <2>2, <2>3, <1>1, SumSwap
  <2> QED BY <2>4 DEF Books
<1>11. Books([m EXCEPT !.account = acc])
  BY <1>7, <1>8, <1>9, <1>10, Recast
<1>12. Used([m EXCEPT !.account = acc]) = Used(m)
  <2>1. [m EXCEPT !.account = acc].account = acc
    BY <1>1 DEF Market
  <2>2. \A k \in Slots : acc[k] = NoAccount <=> m.account[k] = NoAccount
    BY <1>9 DEF Books, Owned, NoAccount
  <2> QED BY <2>1, <2>2 DEF Used
<1> QED BY <1>2, <1>11, <1>12 DEF acc, a, b, x, y

(* The first thing a crank does.                                           *)
Marked(m) ==
  [m EXCEPT !.account = [i \in Slots |-> IF i \in Used(m) THEN Settled(m.account[i], m.price) ELSE NoAccount]]

LEMMA MarkedBooks ==
  ASSUME NEW m, Books(m)
  PROVE  /\ Books(Marked(m)) /\ Used(Marked(m)) = Used(m)
         /\ Marked(m).account \in [Slots -> Account]
         /\ \A i \in Slots : Marked(m).account[i] = IF i \in Used(m) THEN Settled(m.account[i], m.price)
                                                    ELSE NoAccount
         /\ \A i \in Slots : Marked(m).account[i].owner = m.account[i].owner
                             /\ Marked(m).account[i].lp = m.account[i].lp
                             /\ Marked(m).account[i].pos = m.account[i].pos
         /\ Marked(m).stage = m.stage /\ Marked(m).mark = m.mark /\ Marked(m).price = m.price
         /\ Marked(m).fund = m.fund /\ Marked(m).free = m.free
<1> DEFINE acc == [i \in Slots |-> IF i \in Used(m) THEN Settled(m.account[i], m.price) ELSE NoAccount]
<1>1. m \in Market /\ m.account \in [Slots -> Account] /\ m.price \in Prices
  BY DEF Books, Market
<1>2. ASSUME NEW i \in Slots
      PROVE  acc[i] \in Account /\ acc[i].owner = m.account[i].owner /\ acc[i].lp = m.account[i].lp
             /\ acc[i].pos = m.account[i].pos /\ (acc[i].owner = "none" => acc[i] = NoAccount)
  <2>1. CASE i \in Used(m)
    <3>1. m.account[i].owner # "none" /\ m.account[i] \in Account
      BY <2>1, <1>1, BooksUsed
    <3> QED BY <2>1, <3>1, <1>1, SettledAccount
  <2>2. CASE i \notin Used(m)
    <3>1. m.account[i] = NoAccount /\ acc[i] = NoAccount
      BY <2>2 DEF Used
    <3> QED BY <3>1, NoAccountType
  <2> QED BY <2>1, <2>2
<1>3. acc \in [Slots -> Account]
  BY <1>2
<1>4. m.stage = "live" => OpenInterest(acc) = 0
  <2>1. Positions(m.account)
    BY <1>1 DEF Positions, Account
  <2>2. OpenInterest(acc) = OpenInterest(m.account)
    <3> HIDE DEF acc
    <3> QED BY <1>2, <2>1, SumSame
  <2> QED BY <2>2 DEF Books
<1>5. m.stage = "live" /\ ~ m.account[LP].lp => \A i \in Slots : acc[i].pos = 0
  BY <1>2 DEF Books, Backed
<1>6. Marked(m) = [m EXCEPT !.account = acc]
  BY DEF Marked
<1>7. \A i \in Slots : acc[i] = IF i \in Used(m) THEN Settled(m.account[i], m.price) ELSE NoAccount
  OBVIOUS
<1> HIDE DEF acc
<1>8. Books([m EXCEPT !.account = acc])
  BY <1>2, <1>3, <1>4, <1>5, Recast
<1>9. /\ Marked(m).account = acc /\ Marked(m).stage = m.stage /\ Marked(m).mark = m.mark
      /\ Marked(m).price = m.price /\ Marked(m).fund = m.fund /\ Marked(m).free = m.free
  BY <1>1, <1>6 DEF Market
<1>10. Used(Marked(m)) = Used(m)
  <2>1. \A k \in Slots : acc[k] = NoAccount <=> m.account[k] = NoAccount
    BY <1>2 DEF Books, Owned, NoAccount
  <2> QED BY <2>1, <1>9 DEF Used
<1> QED BY <1>2, <1>3, <1>6, <1>7, <1>8, <1>9, <1>10

LEMMA CrankedIs ==
  ASSUME NEW m, NEW n \in Cranked(m)
  PROVE  \/ n = Marked(m)
         \/ \E i \in Bankrupt(Marked(m)) : n = Closed(Marked(m), i)
         \/ \E i \in Empty(Marked(m)) : n = Freed(Marked(m), i)
BY DEF Cranked, Marked

LEMMA CrankedBooks ==
  ASSUME NEW m, Books(m), m.stage = "live", NEW n \in Cranked(m)
  PROVE  Books(n)
<1>1. Books(Marked(m)) /\ Marked(m).stage = "live"
  BY MarkedBooks
<1>2. CASE n = Marked(m)
  BY <1>1, <1>2
<1>3. ASSUME NEW i \in Bankrupt(Marked(m)), n = Closed(Marked(m), i) PROVE Books(n)
  <2>1. i \in Slots \ {LP} /\ i \in Used(Marked(m)) /\ Marked(m).account[i].pos # 0
    BY DEF Bankrupt, Used
  <2> QED BY <1>1, <1>3, <2>1, ClosedBooks
<1>4. ASSUME NEW i \in Empty(Marked(m)), n = Freed(Marked(m), i) PROVE Books(n)
  <2>1. i \in Slots \ {LP} /\ i \in Used(Marked(m)) /\ Marked(m).account[i].pos = 0
    BY DEF Empty, Used
  <2>2. Marked(m).account[i].owner # "none"
    BY <1>1, <2>1, BooksUsed
  <2> QED BY <1>1, <1>4, <2>1, <2>2, FreedBooks
<1> QED BY <1>2, <1>3, <1>4, CrankedIs

LEMMA TradedBooks ==
  ASSUME NEW m, Books(m), m.stage = "live", NEW i \in Slots \ {LP}, NEW d \in Int,
         m.account[i].owner # "none", m.account[LP].lp
  PROVE  LET n == Traded(m, i, d)
             acc == [m.account EXCEPT
                       ![i] = [Settled(m.account[i], m.price) EXCEPT !.pos = m.account[i].pos + d],
                       ![LP] = [Settled(m.account[LP], m.price) EXCEPT !.pos = m.account[LP].pos - d]]
         IN  /\ Books(n) /\ Used(n) = Used(m) /\ n = [m EXCEPT !.account = acc]
             /\ n.account = acc /\ acc \in [Slots -> Account]
<1> DEFINE u == Settled(m.account[i], m.price)
           l == Settled(m.account[LP], m.price)
           a == [u EXCEPT !.pos = m.account[i].pos + d]
           b == [l EXCEPT !.pos = m.account[LP].pos - d]
           acc == [m.account EXCEPT ![i] = a, ![LP] = b]
<1>1. m \in Market /\ m.account \in [Slots -> Account] /\ LP \in Slots /\ i # LP /\ m.price \in Prices
      /\ m.account[i] \in Account /\ m.account[LP] \in Account
      /\ m.account[i].pos \in Int /\ m.account[LP].pos \in Int
  BY Natural DEF Books, Market, Account
<1>2. /\ u \in Account /\ l \in Account
      /\ u.owner = m.account[i].owner /\ u.lp = m.account[i].lp /\ u.pos = m.account[i].pos
      /\ l.owner = m.account[LP].owner /\ l.lp = m.account[LP].lp /\ l.pos = m.account[LP].pos
  BY <1>1, SettledAccount
<1>3. Traded(m, i, d) = [m EXCEPT !.account = acc]
  <2>1. a = [u EXCEPT !.pos = u.pos + d] /\ b = [l EXCEPT !.pos = l.pos - d]
    BY <1>2
  <2>2. Traded(m, i, d) = [m EXCEPT !.account = [m.account EXCEPT ![i] = [u EXCEPT !.pos = u.pos + d],
                                                                  ![LP] = [l EXCEPT !.pos = l.pos - d]]]
    BY <1>1, <1>2 DEF Traded, Market, Account
  <2> HIDE DEF u, l
  <2> QED BY <2>1, <2>2
<1>4. m.account[i].pos + d \in Int /\ m.account[LP].pos - d \in Int
  BY <1>1
<1> HIDE DEF u, l
<1>5. a \in Account /\ a.owner = m.account[i].owner /\ a.lp = m.account[i].lp /\ a.pos = m.account[i].pos + d
  BY <1>2, <1>4 DEF Account
<1>6. b \in Account /\ b.owner = m.account[LP].owner /\ b.lp = m.account[LP].lp /\ b.pos = m.account[LP].pos - d
  BY <1>2, <1>4 DEF Account
<1> HIDE DEF a, b
<1>7. acc \in [Slots -> Account]
      /\ \A k \in Slots : acc[k] = IF k = i THEN a ELSE IF k = LP THEN b ELSE m.account[k]
  BY <1>1, <1>5, <1>6
<1> HIDE DEF acc
<1>8. m.account[LP].owner = PAYER
  BY <1>1 DEF Books, Owned
<1>9. \A k \in Slots : /\ acc[k].owner = m.account[k].owner /\ acc[k].lp = m.account[k].lp
                       /\ acc[k].owner = "none" => acc[k] = NoAccount
  BY <1>1, <1>5, <1>6, <1>7, <1>8, Wallets DEF Books, Owned
<1>10. OpenInterest(acc) = 0
  <2>1. Positions(m.account)
    BY <1>1 DEF Positions, Account
  <2>2. acc[i].pos = m.account[i].pos + d /\ acc[LP].pos = m.account[LP].pos - d
    BY <1>1, <1>5, <1>6, <1>7
  <2>3. \A k \in Slots : k \notin {i, LP} => acc[k].pos = m.account[k].pos
    BY <1>7
  <2>4. OpenInterest(acc) = OpenInterest(m.account)
    BY <2>1, <2>2, <2>3, <1>1, SumSwap
  <2> QED BY <2>4 DEF Books
<1>11. Books([m EXCEPT !.account = acc])
  BY <1>7, <1>9, <1>10, Recast
<1>12. [m EXCEPT !.account = acc].account = acc
  BY <1>1 DEF Market
<1>13. Used([m EXCEPT !.account = acc]) = Used(m)
  <2>1. \A k \in Slots : acc[k] = NoAccount <=> m.account[k] = NoAccount
    BY <1>9 DEF Books, Owned, NoAccount
  <2> QED BY <2>1, <1>12 DEF Used
<1> QED BY <1>3, <1>7, <1>11, <1>12, <1>13 DEF acc, a, b, u, l

(* The branches of the external program, one by one.                       *)
LEMMA OutCreateAccount ==
  ASSUME NEW m, NEW i, NEW n
  PROVE  Outcomes(m, "CreateAccount", i, n) =
         IF m.stage = "none" THEN {[m EXCEPT !.stage = "blank"]} ELSE {}
BY DEF Outcomes, When

LEMMA OutInitMarket ==
  ASSUME NEW m, NEW i, NEW n
  PROVE  Outcomes(m, "InitMarket", i, n) =
         IF m.stage = "blank" THEN {[m EXCEPT !.stage = "live", !.mark = TRUE]} ELSE {}
BY DEF Outcomes, When

LEMMA OutSetOracleAuthority ==
  ASSUME NEW m, NEW i, NEW n
  PROVE  Outcomes(m, "SetOracleAuthority", i, n) =
         IF m.stage = "live" /\ m.mark THEN {m} ELSE {}
BY DEF Outcomes, When

LEMMA OutPushOraclePrice ==
  ASSUME NEW m, NEW i, NEW n
  PROVE  Outcomes(m, "PushOraclePrice", i, n) =
         IF m.stage = "live" /\ m.mark THEN {[m EXCEPT !.price = n]} ELSE {}
BY DEF Outcomes, When

LEMMA OutKeeperCrank ==
  ASSUME NEW m, NEW i, NEW n
  PROVE  Outcomes(m, "KeeperCrank", i, n) =
         IF m.stage = "live" THEN Cranked(m) ELSE IF m.stage = "resolved" THEN {m} ELSE {}
BY DEF Outcomes, When

LEMMA OutInitUser ==
  ASSUME NEW m, NEW i, NEW n
  PROVE  Outcomes(m, "InitUser", i, n) =
         IF m.stage = "live" /\ m.free # <<>> THEN {Opened(m, PAYER, FALSE)} ELSE {}
BY DEF Outcomes, When

LEMMA OutInitLP ==
  ASSUME NEW m, NEW i, NEW n
  PROVE  Outcomes(m, "InitLP", i, n) =
         IF m.stage = "live" /\ m.free # <<>> THEN {Opened(m, PAYER, TRUE)} ELSE {}
BY DEF Outcomes, When

LEMMA OutDepositCollateral ==
  ASSUME NEW m, NEW i, NEW n
  PROVE  Outcomes(m, "DepositCollateral", i, n) =
         IF m.stage = "live" /\ Mine(m, i) THEN {[m EXCEPT !.account[i].capital = @ + n]} ELSE {}
BY DEF Outcomes, When

LEMMA OutTopUpInsurance ==
  ASSUME NEW m, NEW i, NEW n
  PROVE  Outcomes(m, "TopUpInsurance", i, n) =
         IF m.stage = "live" THEN {[m EXCEPT !.fund = TRUE]} ELSE {}
BY DEF Outcomes, When

LEMMA OutTradeCpi ==
  ASSUME NEW m, NEW i, NEW n
  PROVE  Outcomes(m, "TradeCpi", i, n) =
         IF m.stage = "live" /\ Mine(m, i) /\ m.account[LP].lp
            /\ (Abs(Traded(m, i, n).account[i].pos) > Abs(m.account[i].pos)
                => Covered(Traded(m, i, n).account[i]))
         THEN {Traded(m, i, n)} ELSE {}
BY DEF Outcomes, When

LEMMA OutWithdrawCollateral ==
  ASSUME NEW m, NEW i, NEW n
  PROVE  Outcomes(m, "WithdrawCollateral", i, n) =
         LET t == Touched(m.account[i], m.price)
         IN  IF m.stage = "live" /\ Mine(m, i) /\ t.capital >= n /\ Covered([t EXCEPT !.capital = @ - n])
             THEN {[m EXCEPT !.account[i] = [t EXCEPT !.capital = @ - n]]} ELSE {}
BY DEF Outcomes, When

LEMMA OutCloseAccount ==
  ASSUME NEW m, NEW i, NEW n
  PROVE  Outcomes(m, "CloseAccount", i, n) =
         LET t == Touched(m.account[i], m.price)
         IN  IF m.stage \in {"live", "resolved"} /\ Mine(m, i) /\ t.pos = 0 /\ t.pnl = "none"
             THEN {Freed(m, i)} ELSE {}
BY DEF Outcomes, When

LEMMA OutLiquidateAtOracle ==
  ASSUME NEW m, NEW i, NEW n
  PROVE  Outcomes(m, "LiquidateAtOracle", i, n) =
         IF m.stage = "live" /\ i \in Bankrupt(m) THEN {Closed(m, i)} ELSE {}
BY DEF Outcomes, When

LEMMA OutResolveMarket ==
  ASSUME NEW m, NEW i, NEW n
  PROVE  Outcomes(m, "ResolveMarket", i, n) =
         IF m.stage = "live" /\ m.mark THEN {[m EXCEPT !.stage = "resolved"]} ELSE {}
BY DEF Outcomes, When

LEMMA OutAdminForceCloseAccount ==
  ASSUME NEW m, NEW i, NEW n
  PROVE  Outcomes(m, "AdminForceCloseAccount", i, n) =
         IF m.stage = "resolved" /\ Mine(m, i) THEN {Freed(m, i)} ELSE {}
BY DEF Outcomes, When

LEMMA OutWithdrawInsurance ==
  ASSUME NEW m, NEW i, NEW n
  PROVE  Outcomes(m, "WithdrawInsurance", i, n) =
         IF m.stage = "resolved" /\ Used(m) = {} THEN {[m EXCEPT !.fund = FALSE]} ELSE {}
BY DEF Outcomes, When

LEMMA OutCloseSlab ==
  ASSUME NEW m, NEW i, NEW n
  PROVE  Outcomes(m, "CloseSlab", i, n) =
         IF m.stage \in {"live", "resolved"} /\ Used(m) = {} /\ ~ m.fund
         THEN {[m EXCEPT !.stage = "closed"]} ELSE {}
BY DEF Outcomes, When

(* An account changes and keeps its owner and its position.                *)
LEMMA Refunded ==
  ASSUME NEW m, Books(m), NEW i \in Slots, m.account[i].owner # "none", NEW a \in Account,
         a.owner = m.account[i].owner, a.lp = m.account[i].lp, a.pos = m.account[i].pos
  PROVE  Books([m EXCEPT !.account = [m.account EXCEPT ![i] = a]])
<1> DEFINE acc == [m.account EXCEPT ![i] = a]
<1>1. m.account \in [Slots -> Account]
  BY DEF Books, Market
<1>2. acc \in [Slots -> Account] /\ \A k \in Slots : acc[k] = IF k = i THEN a ELSE m.account[k]
  BY <1>1
<1> HIDE DEF acc
<1>3. \A k \in Slots : /\ acc[k].owner = m.account[k].owner /\ acc[k].lp = m.account[k].lp
                       /\ acc[k].owner = "none" => acc[k] = NoAccount
  BY <1>2 DEF Books, Owned
<1>4. \A k \in Slots : acc[k].pos = m.account[k].pos
  BY <1>2
<1>5. m.stage = "live" => OpenInterest(acc) = 0
  <2>1. Positions(m.account)
    BY <1>1 DEF Positions, Account
  <2>2. OpenInterest(acc) = OpenInterest(m.account)
    BY <1>4, <2>1, SumSame
  <2> QED BY <2>2 DEF Books
<1>6. m.stage = "live" /\ ~ m.account[LP].lp => \A k \in Slots : acc[k].pos = 0
  BY <1>4 DEF Books, Backed
<1>7. Books([m EXCEPT !.account = acc])
  BY <1>2, <1>3, <1>5, <1>6, Recast
<1> QED BY <1>7 DEF acc

LEMMA RipenedBooks ==
  ASSUME NEW m, Books(m), NEW S
  PROVE  /\ Books(Ripened(m, S)) /\ Used(Ripened(m, S)) = Used(m)
         /\ Ripened(m, S).account \in [Slots -> Account]
         /\ \A i \in Slots :
              Ripened(m, S).account[i] = IF i \in S /\ m.account[i].pnl = "warming"
                                         THEN [m.account[i] EXCEPT !.pnl = "ripe"] ELSE m.account[i]
         /\ Ripened(m, S).stage = m.stage /\ Ripened(m, S).mark = m.mark /\ Ripened(m, S).price = m.price
         /\ Ripened(m, S).fund = m.fund /\ Ripened(m, S).free = m.free
<1> DEFINE acc == [i \in Slots |-> IF i \in S /\ m.account[i].pnl = "warming"
                                   THEN [m.account[i] EXCEPT !.pnl = "ripe"] ELSE m.account[i]]
<1>1. m \in Market /\ m.account \in [Slots -> Account]
  BY DEF Books, Market
<1>2. Ripened(m, S) = [m EXCEPT !.account = acc]
  BY <1>1 DEF Ripened, Market
<1>3. ASSUME NEW i \in Slots
      PROVE  acc[i] \in Account /\ acc[i].owner = m.account[i].owner /\ acc[i].lp = m.account[i].lp
             /\ acc[i].pos = m.account[i].pos /\ (acc[i].owner = "none" => acc[i] = NoAccount)
  <2>1. m.account[i] \in Account /\ (m.account[i].owner = "none" => m.account[i] = NoAccount)
    BY <1>1 DEF Books, Owned
  <2>2. CASE i \in S /\ m.account[i].pnl = "warming"
    <3>1. m.account[i].owner # "none"
      BY <2>1, <2>2 DEF NoAccount
    <3> QED BY <2>1, <2>2, <3>1 DEF Account
  <2>3. CASE ~ (i \in S /\ m.account[i].pnl = "warming")
    BY <2>1, <2>3
  <2> QED BY <2>2, <2>3
<1>4. acc \in [Slots -> Account]
  BY <1>3
<1>5. \A i \in Slots : acc[i] = IF i \in S /\ m.account[i].pnl = "warming"
                                THEN [m.account[i] EXCEPT !.pnl = "ripe"] ELSE m.account[i]
  OBVIOUS
<1> HIDE DEF acc
<1>6. m.stage = "live" => OpenInterest(acc) = 0
  <2>1. Positions(m.account)
    BY <1>1 DEF Positions, Account
  <2>2. OpenInterest(acc) = OpenInterest(m.account)
    BY <1>3, <2>1, SumSame
  <2> QED BY <2>2 DEF Books
<1>7. m.stage = "live" /\ ~ m.account[LP].lp => \A i \in Slots : acc[i].pos = 0
  BY <1>3 DEF Books, Backed
<1>8. Books([m EXCEPT !.account = acc])
  BY <1>3, <1>4, <1>6, <1>7, Recast
<1>9. [m EXCEPT !.account = acc].account = acc
  BY <1>1 DEF Market
<1>10. Used([m EXCEPT !.account = acc]) = Used(m)
  <2>1. \A k \in Slots : acc[k] = NoAccount <=> m.account[k] = NoAccount
    BY <1>3 DEF Books, Owned, NoAccount
  <2> QED BY <2>1, <1>9 DEF Used
<1> QED BY <1>1, <1>2, <1>4, <1>5, <1>8, <1>9, <1>10 DEF Market

(* Whatever the program is asked, the books stay in order.                 *)
LEMMA BooksKept ==
  ASSUME NEW m, Books(m), NEW op \in Instructions, NEW i, NEW n, Legal(m, op, i, n),
         NEW r \in Outcomes(m, op, i, n)
  PROVE  Books(r)
<1> DEFINE t == Touched(m.account[i], m.price)
<1>1. m \in Market /\ m.account \in [Slots -> Account] /\ m.price \in Prices
  BY DEF Books, Market
<1>2. ASSUME i \in Slots, Mine(m, i) PROVE m.account[i].owner = PAYER /\ m.account[i].owner # "none"
  BY <1>2, Wallets DEF Mine
<1>3. ASSUME i \in Slots
      PROVE  t \in Account /\ t.owner = m.account[i].owner /\ t.lp = m.account[i].lp /\ t.pos = m.account[i].pos
  BY <1>1, <1>3, TouchedAccount
<1> HIDE DEF t
<1>4. CASE op = "CreateAccount"
  <2>1. m.stage = "none" /\ r = [m EXCEPT !.stage = "blank"]
    BY <1>4, OutCreateAccount
  <2> QED BY <2>1, <1>1 DEF Books, Market, Stages, Used, Owned, Backed
<1>5. CASE op = "InitMarket"
  <2>1. m.stage = "blank" /\ r = [m EXCEPT !.stage = "live", !.mark = TRUE]
    BY <1>5, OutInitMarket
  <2>2. \A k \in Slots : m.account[k].pos = 0
    BY <2>1 DEF Books, NoAccount
  <2>3. OpenInterest(m.account) = 0
    BY <2>2, SumZero
  <2>4. r \in Market /\ r.stage = "live" /\ r.account = m.account /\ r.free = m.free /\ Used(r) = Used(m)
    BY <2>1, <1>1 DEF Market, Stages, Used
  <2> QED BY <2>2, <2>3, <2>4 DEF Books, Backed
<1>6. CASE op = "SetOracleAuthority"
  BY <1>6, OutSetOracleAuthority
<1>7. CASE op = "PushOraclePrice"
  <2>1. n \in Prices /\ r = [m EXCEPT !.price = n]
    BY <1>7, OutPushOraclePrice DEF Legal
  <2>2. r \in Market /\ r.stage = m.stage /\ r.account = m.account /\ r.free = m.free /\ Used(r) = Used(m)
    BY <2>1, <1>1 DEF Market, Used
  <2> QED BY <2>2 DEF Books, Backed
<1>8. CASE op = "KeeperCrank"
  <2>1. (m.stage = "live" /\ r \in Cranked(m)) \/ r = m
    BY <1>8, OutKeeperCrank
  <2> QED BY <2>1, CrankedBooks
<1>9. CASE op \in {"InitUser", "InitLP"}
  <2>1. PICK lp \in BOOLEAN : m.stage = "live" /\ m.free # <<>> /\ r = Opened(m, PAYER, lp)
    BY <1>9, OutInitUser, OutInitLP
  <2> QED BY <2>1, OpenedBooks
<1>10. CASE op = "DepositCollateral"
  <2>1. i \in Slots /\ n \in Nat /\ Mine(m, i) /\ r = [m EXCEPT !.account[i].capital = @ + n]
    BY <1>10, OutDepositCollateral DEF Legal
  <2> DEFINE a == [m.account[i] EXCEPT !.capital = m.account[i].capital + n]
  <2>2. m.account[i] \in Account /\ m.account[i].capital + n \in Nat
    BY <2>1, <1>1 DEF Account
  <2>3. a \in Account /\ a.owner = m.account[i].owner /\ a.lp = m.account[i].lp /\ a.pos = m.account[i].pos
    BY <2>2 DEF Account
  <2>4. r = [m EXCEPT !.account = [m.account EXCEPT ![i] = a]]
    BY <2>1, <1>1
  <2> HIDE DEF a
  <2> QED BY <2>1, <2>3, <2>4, <1>2, Refunded
<1>11. CASE op = "TopUpInsurance"
  <2>1. r = [m EXCEPT !.fund = TRUE]
    BY <1>11, OutTopUpInsurance
  <2>2. r \in Market /\ r.stage = m.stage /\ r.account = m.account /\ r.free = m.free /\ Used(r) = Used(m)
    BY <2>1, <1>1 DEF Market, Used
  <2> QED BY <2>2 DEF Books, Backed
<1>12. CASE op = "TradeCpi"
  <2>1. m.stage = "live" /\ Mine(m, i) /\ m.account[LP].lp /\ r = Traded(m, i, n) /\ i \in Slots \ {LP} /\ n \in Int
    BY <1>12, OutTradeCpi DEF Legal
  <2> QED BY <2>1, <1>2, TradedBooks
<1>13. CASE op = "WithdrawCollateral"
  <2>1. i \in Slots /\ n \in Int /\ Mine(m, i) /\ t.capital >= n
        /\ r = [m EXCEPT !.account[i] = [t EXCEPT !.capital = @ - n]]
    BY <1>13, OutWithdrawCollateral DEF Legal, t
  <2> DEFINE a == [t EXCEPT !.capital = t.capital - n]
  <2>2. t \in Account /\ t.capital - n \in Nat
    BY <2>1, <1>3 DEF Account
  <2>3. a \in Account /\ a.owner = t.owner /\ a.lp = t.lp /\ a.pos = t.pos
    BY <2>2 DEF Account
  <2>4. r = [m EXCEPT !.account = [m.account EXCEPT ![i] = a]]
    BY <2>1, <1>1
  <2> HIDE DEF a
  <2> QED BY <2>1, <2>3, <2>4, <1>2, <1>3, Refunded
<1>14. CASE op = "CloseAccount"
  <2>1. i \in Slots /\ Mine(m, i) /\ t.pos = 0 /\ r = Freed(m, i)
        /\ (i = LP => \A k \in Slots \ {LP} : m.account[k].pos >= 0)
    BY <1>14, OutCloseAccount DEF Legal, t
  <2>2. m.account[i].pos = 0
    BY <2>1, <1>3
  <2>3. m.stage = "live" /\ i = LP => \A k \in Slots : m.account[k].pos = 0
    BY <2>1, <2>2, LpFlat
  <2> QED BY <2>1, <2>2, <2>3, <1>2, FreedBooks
<1>15. CASE op = "LiquidateAtOracle"
  <2>1. m.stage = "live" /\ i \in Bankrupt(m) /\ r = Closed(m, i)
    BY <1>15, OutLiquidateAtOracle
  <2> QED BY <2>1, ClosedBooks DEF Bankrupt, Used
<1>16. CASE op = "ResolveMarket"
  <2>1. r = [m EXCEPT !.stage = "resolved"]
    BY <1>16, OutResolveMarket
  <2>2. r \in Market /\ r.stage = "resolved" /\ r.account = m.account /\ r.free = m.free /\ Used(r) = Used(m)
    BY <2>1, <1>1 DEF Market, Used, Stages
  <2> QED BY <2>2 DEF Books, Backed
<1>17. CASE op = "AdminForceCloseAccount"
  <2>1. i \in Slots /\ m.stage = "resolved" /\ Mine(m, i) /\ r = Freed(m, i)
    BY <1>17, OutAdminForceCloseAccount DEF Legal
  <2> QED BY <2>1, <1>2, FreedBooks
<1>18. CASE op = "WithdrawInsurance"
  <2>1. r = [m EXCEPT !.fund = FALSE]
    BY <1>18, OutWithdrawInsurance
  <2>2. r \in Market /\ r.stage = m.stage /\ r.account = m.account /\ r.free = m.free /\ Used(r) = Used(m)
    BY <2>1, <1>1 DEF Market, Used
  <2> QED BY <2>2 DEF Books, Backed
<1>19. CASE op = "CloseSlab"
  <2>1. r = [m EXCEPT !.stage = "closed"]
    BY <1>19, OutCloseSlab
  <2>2. r \in Market /\ r.stage = "closed" /\ r.account = m.account /\ r.free = m.free /\ Used(r) = Used(m)
    BY <2>1, <1>1 DEF Market, Used, Stages
  <2> QED BY <2>2 DEF Books, Backed
<1> QED BY <1>4, <1>5, <1>6, <1>7, <1>8, <1>9, <1>10, <1>11, <1>12, <1>13, <1>14, <1>15, <1>16, <1>17,
           <1>18, <1>19 DEF Instructions

-----------------------------------------------------------------------------
(***************************************************************************)
(* What is known where.  A view says what holds when a script is at one of *)
(* its steps; an annotation gives a view to every step, and to the place   *)
(* behind the last one.                                                    *)
(*                                                                         *)
(* A test is idle while it has no account; it has asked for the accounts,  *)
(* then made a fresh one, and from there on its account is its own: the    *)
(* view lists the capitals, positions, marks and prices it may have,       *)
(* whether what it gained has warmed up (ready), and whether its position  *)
(* and capital are what was read (now), or its position is when it is not  *)
(* flat (then).  All of it only as long as the account is the test's; a    *)
(* view without values says that the account is gone.                      *)
(***************************************************************************)
Clean == test \in hurt \/ \A i \in Leftovers : opened[i] # test

Idle(mark) == [kind |-> "idle", mark |-> mark]
Asked      == [kind |-> "asked"]
Fresher    == [kind |-> "fresh"]
Dead       == [kind |-> "dead"]

Own(cap, pos, at, price, ready, know) ==
  [kind |-> "own", cap |-> cap, pos |-> pos, at |-> at, price |-> price, ready |-> ready, know |-> know]
Gone       == Own({}, {}, {}, {}, TRUE, "now")

FitsIdle(v)  == Clean /\ (v.mark => market.mark)
FitsAsked    ==
  /\ Clean /\ market.mark
  /\ \A i \in Slots : (Mine(market, i) => seen[i] # NoAccount) /\ (i \notin Used(market) => seen[i] = NoAccount)

NewAccount(a) == a.owner = PAYER /\ ~ a.lp /\ a.capital = 0 /\ a.pos = 0 /\ a.pnl = "none"

FitsFresh ==
  /\ market.mark
  /\ \E i \in Slots \ {LP} :
       /\ NewAccount(market.account[i]) /\ seen[i] = NoAccount
       /\ \A k \in Slots \ {i} : Mine(market, k) =>
            seen[k] # NoAccount /\ (test \in hurt \/ market.account[k].lp \/ opened[k] # test)

Agrees(v, a, k, p) ==
  /\ a.capital \in v.cap /\ a.pos \in v.pos /\ (a.pos # 0 => a.at \in v.at) /\ p \in v.price
  /\ v.ready => a.pnl # "warming"
  /\ v.know = "now" => k.owner = PAYER /\ k.pos = a.pos /\ k.capital = a.capital
  /\ v.know = "then" => (a.pos # 0 => k.pos = a.pos)

FitsOwn(v) ==
  /\ market.mark /\ idx \in Slots \ {LP}
  /\ test \in hurt \/ \A i \in Leftovers : opened[i] = test => i = idx
  /\ test \in hurt \/ (Mine(market, idx) => Agrees(v, market.account[idx], seen[idx], market.price))

(***************************************************************************)
(* The first test of the happy path: the accounts that earlier runs left,  *)
(* the list of those that are flat, the one that was taken from it and     *)
(* the one that was emptied, until all that are left are open; so they are *)
(* when the second test starts.                                            *)
(***************************************************************************)
Sweep(stage, mark) == [kind |-> "sweep", stage |-> stage, mark |-> mark]

Left(a)    == a.pnl = "none" /\ (a.pos # 0 => a.at = 0 /\ a.capital >= 1)
AllLeft    == market.price = 0 /\ \A i \in Leftovers : Left(market.account[i])
Listed(S)  == \A i \in Leftovers : /\ (i \in S) <=> (market.account[i].pos = 0)
                                   /\ i \in S => seen[i].capital = market.account[i].capital
Emptied(S) == \A i \in Leftovers : /\ (i \in S \cup {idx}) <=> (market.account[i].pos = 0)
                                   /\ i \in S => seen[i].capital = market.account[i].capital
AllOpen    == \A i \in Leftovers : market.account[i].pos # 0

FitsSweep(v) ==
  /\ Clean /\ (v.mark => market.mark)
  /\ test = IF v.stage = "start" THEN 2 ELSE 1
  /\ v.stage # "start" => 1 \in hurt \/ AllLeft
  /\ v.stage = "listed" => todo \subseteq Slots \ {LP} /\ (1 \in hurt \/ Listed(todo))
  /\ v.stage = "taken" =>
       /\ todo \subseteq Slots \ {LP} /\ idx \in Slots \ ({LP} \cup todo) /\ (1 \in hurt \/ Listed(todo \cup {idx}))
  /\ v.stage = "drawn" =>
       /\ todo \subseteq Slots \ {LP} /\ idx \in Slots \ ({LP} \cup todo) /\ (1 \in hurt \/ Emptied(todo))
  /\ v.stage \in {"swept", "start"} => 1 \in hurt \/ AllOpen

(***************************************************************************)
(* The drills: the slots the list and the account of the drill may be, and *)
(* how far the market is, when nothing disturbed it.                       *)
(***************************************************************************)
Drill(stage, list, mine) == [kind |-> "drill", stage |-> stage, todo |-> list, idx |-> mine]

Quiet == hurt = {} /\ joins = 0

FitsDrill(v) ==
  /\ todo \subseteq v.todo /\ idx \in v.idx
  /\ v.stage = "read" => idx \in Slots /\ seen[idx].pos = market.account[idx].pos
  /\ v.stage \in {"live", "read"} /\ Quiet => market.stage = "live"
  /\ v.stage \in {"resolved", "listed", "taken", "empty", "paid"} /\ Quiet => market.stage = "resolved"
  /\ v.stage = "listed" /\ Quiet => Used(market) \subseteq todo
  /\ v.stage = "taken" /\ Quiet => Used(market) \subseteq todo \cup {idx}
  /\ v.stage \in {"empty", "paid"} /\ Quiet => Used(market) = {}
  /\ v.stage = "paid" /\ Quiet => ~ market.fund
  /\ v.stage = "closed" /\ Quiet => market.stage = "closed"

(***************************************************************************)
(* live-verify never moves the price: nothing is gained or lost, and the   *)
(* user is the only one who has a position.                                *)
(***************************************************************************)
Calm(stage) == [kind |-> "calm", stage |-> stage]

Still(m) == m.price = 0 /\ \A i \in Slots : m.account[i].at = 0 /\ m.account[i].pnl = "none"
Even(m)  == \A i \in Slots : m.account[i].pos = 0
One(m)   == /\ m.stage = "live" /\ m.account[LP].lp /\ m.account[LP].pos = -1
            /\ Mine(m, 1) /\ m.account[1].pos = 1 /\ m.account[1].capital >= 1
            /\ \A i \in Slots \ {LP, 1} : m.account[i].pos = 0

FitsCalm(v) ==
  /\ Still(market) /\ todo = {}
  /\ v.stage \in {"flat", "unwound"} => Even(market)
  /\ v.stage = "unwound" => market.stage = "live" /\ market.account[LP].lp /\ idx = 1
  /\ v.stage \in {"open", "known", "picked"} => One(market)
  /\ v.stage \in {"known", "picked"} => seen[1].pos = 1
  /\ v.stage = "picked" => idx = 1

TestKinds  == {"idle", "asked", "fresh", "own", "sweep"}
DrillKinds == {"drill", "calm"}

Fits(v) ==
  /\ v.kind \in TestKinds => script \in OnDeployed
  /\ v.kind \in DrillKinds => script \in OnOwnSlab
  /\ v.kind = "idle"  => FitsIdle(v)
  /\ v.kind = "asked" => FitsAsked
  /\ v.kind = "fresh" => FitsFresh
  /\ v.kind = "own"   => FitsOwn(v)
  /\ v.kind = "sweep" => FitsSweep(v)
  /\ v.kind = "drill" => FitsDrill(v)
  /\ v.kind = "calm"  => FitsCalm(v) /\ script = "live-verify"
  /\ v.kind = "dead" /\ script \in OnDeployed => Clean
  /\ v.kind \in TestKinds \cup DrillKinds \cup {"dead"}

-----------------------------------------------------------------------------
(***************************************************************************)
(* What a step does to a view: on is the view when it is done, off the one *)
(* when it is refused, when it fails, or when it jumps.                    *)
(***************************************************************************)
Allows(w, a, k, p) == w.kind = "own" /\ Agrees(w, a, k, p)

Swapped(a, p, d)   == [Settled(a, p) EXCEPT !.pos = a.pos + d]
Accepted(a, p, d)  == Abs(a.pos + d) > Abs(a.pos) => Covered(Swapped(a, p, d))
Trades(a, k, p, d, on, off) ==
  IF Accepted(a, p, d) THEN Allows(on, Swapped(a, p, d), k, p) ELSE Allows(off, a, k, p)

Paid(a, p, n)   == [Touched(a, p) EXCEPT !.capital = @ - n]
Payable(a, p, n) == Touched(a, p).capital >= n /\ Covered(Paid(a, p, n))
Pays(a, k, p, n, on, off) ==
  IF Payable(a, p, n) THEN Allows(on, Paid(a, p, n), k, p) ELSE Allows(off, a, k, p)

Warm(a) == IF a.pnl = "warming" THEN [a EXCEPT !.pnl = "ripe"] ELSE a

Jumps(s, k) ==
  \/ s.op = "Go"
  \/ s.op = "NotFunded" /\ k.capital # DEPOSIT
  \/ s.op = "NotFilled" /\ k.pos # SIZE
  \/ s.op = "Open" /\ k.pos # 0
  \/ s.op = "Gone" /\ k = NoAccount
  \/ s.op = "Gain" /\ k.pnl # "none"

OwnTests == {"Go", "NotFunded", "NotFilled", "Open", "Gone", "Gain"}

(* The refusals a test withstands, whatever they are for.                  *)
Borne(s, a, k) ==
  /\ s.catch \in 1 .. RETURN - 1
  /\ \/ s.op = "WithdrawCollateral"
     \/ s.op = "WithdrawSeen" /\ k.capital > 0
     \/ s.op = "TradeCpi" /\ s.catch > 1 /\ a.pos = 0
     \/ s.op = "CloseAccount" /\ s.catch > 1

(* The account a, what was read of it, and the price.                      *)
OwnEffect(s, a, k, p, on, off) ==
  /\ s.op = "PushOraclePrice"    => Allows(on, a, k, s.n)
  /\ s.op = "KeeperCrank"        =>
       LET u == Settled(a, p)
       IN  Allows(on, u, k, p) /\ (u.pos # 0 /\ u.capital = 0 => Allows(on, [u EXCEPT !.pos = 0], k, p))
  /\ s.op = "DepositCollateral"  => Allows(on, [a EXCEPT !.capital = @ + s.n], k, p)
  /\ s.op = "TradeCpi"           => Trades(a, k, p, s.n, on, off)
  /\ s.op = "Unwind"             => IF k.pos # 0 THEN Trades(a, k, p, -k.pos, on, off) ELSE Allows(on, a, k, p)
  /\ s.op = "WithdrawCollateral" => Pays(a, k, p, s.n, on, off)
  /\ s.op = "WithdrawSeen"       => IF k.capital > 0 THEN Pays(a, k, p, k.capital - s.n, on, off)
                                                     ELSE Allows(on, a, k, p)
  /\ s.op = "CloseAccount"       =>
       (Touched(a, p).pos = 0 /\ Touched(a, p).pnl = "none") \/ Allows(off, a, k, p)
  /\ s.op \in {"Read", "Look"}   => Allows(on, a, a, p)
  /\ s.op = "Wait"               => Allows(on, Warm(a), k, p)
  /\ s.op \in OwnTests           => IF Jumps(s, k) THEN Allows(off, a, k, p) ELSE Allows(on, a, k, p)
  /\ Borne(s, a, k)              => Allows(off, a, k, p)

OwnStep(s, v, on, off) ==
  /\ s.op \in {"PushOraclePrice", "KeeperCrank", "DepositCollateral", "TradeCpi", "Unwind", "WithdrawCollateral",
               "WithdrawSeen", "CloseAccount", "Read", "Look", "Wait"} \cup OwnTests
  /\ s.slot = OWN
  /\ s.op = "PushOraclePrice" => s.n \in Prices
  /\ s.op = "DepositCollateral" => s.n \in Nat
  /\ s.op # "Go" => on.kind = "own"
  /\ off.kind \in {"own", "idle", "dead"}
  /\ \A a, k \in Account, p \in Prices : a.owner = PAYER /\ Agrees(v, a, k, p) => OwnEffect(s, a, k, p, on, off)

IdleStep(s, v, on, off) ==
  /\ s.op \in {"PushOraclePrice", "KeeperCrank", "SetOracleAuthority", "TopUpInsurance", "DepositCollateral",
               "Read", "LpFunded", "NoLp", "Go"}
  /\ s.op = "PushOraclePrice" => s.n \in Prices
  /\ s.op = "DepositCollateral" => s.slot = LP /\ s.n \in Nat
  /\ off.kind \in {"idle", "dead"} /\ (off.kind = "idle" /\ off.mark => v.mark)
  /\ s.op # "Go" =>
       \/ on.kind = "idle" /\ (on.mark => v.mark \/ s.op \in {"PushOraclePrice", "SetOracleAuthority"})
       \/ on.kind = "asked" /\ v.mark /\ s.op = "Read"

AskedStep(s, on, off) ==
  s.op = "InitUser" /\ s.catch = 0 /\ on.kind = "fresh" /\ off.kind = "dead"

FreshStep(s, on, off) ==
  /\ s.op = "Found" /\ s.catch = 0 /\ on.kind = "own" /\ off.kind = "dead"
  /\ \A a, k \in Account, p \in Prices : NewAccount(a) => Agrees(on, a, k, p)

SweepStep(s, v, on, off) ==
  LET to(w, stage) == w.kind = "sweep" /\ w.stage = stage /\ (w.mark => v.mark)
      goes(stage)  == on.kind = "sweep" /\ on.stage = stage
                      /\ (on.mark => v.mark \/ s.op \in {"PushOraclePrice", "SetOracleAuthority"})
      back(stage)  == (s.catch = 0 /\ off.kind = "dead") \/ to(off, stage)
  IN  /\ s.catch # RETURN
      /\ \/ /\ v.stage = "old"
            /\ s.op \in {"SetOracleAuthority", "Read", "TopUpInsurance", "PushOraclePrice", "KeeperCrank"}
            /\ s.op = "PushOraclePrice" => s.n = 0
            /\ goes("old") /\ back("old")
         \/ v.stage = "old" /\ s.op = "ReadFlat" /\ to(on, "listed") /\ back("old")
         \/ v.stage = "listed" /\ s.op = "Take" /\ to(on, "taken") /\ to(off, "swept")
         \/ v.stage = "listed" /\ s.op = "Go" /\ to(off, "listed")
         \/ /\ v.stage = "taken" /\ s.op = "WithdrawSeen" /\ s.slot = OWN /\ s.n = 0 /\ s.catch < 0
            /\ to(on, "drawn") /\ to(off, "listed")
         \/ /\ v.stage = "drawn" /\ s.op = "CloseAccount" /\ s.slot = OWN /\ s.catch < 0
            /\ to(on, "listed") /\ to(off, "listed")
         \/ /\ v.stage = "swept" /\ s.op \in {"DepositCollateral", "PushOraclePrice", "KeeperCrank", "Read"}
            /\ s.op = "PushOraclePrice" => s.n = 0
            /\ s.op = "DepositCollateral" => s.slot = LP /\ s.n \in Nat
            /\ goes("swept") /\ back("swept")
         \/ v.stage = "start" /\ v.mark /\ s.op = "Read" /\ s.catch = 0 /\ on.kind = "asked" /\ off.kind = "dead"

LiveStages     == {"live", "read"}
ResolvedStages == {"resolved", "listed", "taken", "empty", "paid"}

(* The slots an instruction of a drill may name.                           *)
Names(s, v, S) == IF s.slot = OWN THEN v.idx \subseteq S ELSE s.slot \in S

DrillLegal(s, v) ==
  /\ s.op = "PushOraclePrice" => s.n \in Prices
  /\ s.op = "DepositCollateral" => Names(s, v, Slots) /\ s.n \in Nat
  /\ s.op = "TradeCpi" => Names(s, v, Slots \ {LP}) /\ s.n \in Nat
  /\ s.op = "Unwind" => s.slot = OWN /\ v.stage = "read" /\ v.idx \subseteq Slots \ {LP}
  /\ s.op = "CloseAccount" => s.slot = LP
  /\ s.op \in {"AdminForceCloseAccount", "Say", "Flat"} => s.slot = OWN /\ v.idx \subseteq Slots

(* Where a step that is done leaves an undisturbed market.                 *)
Reaches(op, from, to) ==
  \/ to = "any"
  \/ to = "live" /\ (op = "InitMarket" \/ (from \in LiveStages /\ op \notin {"ResolveMarket", "CloseSlab"}))
  \/ to = "read" /\ from \in LiveStages /\ op = "Read"
  \/ to = "resolved" /\ (op = "ResolveMarket" \/ (from \in ResolvedStages /\ op # "CloseSlab"))
  \/ to = "listed" /\ ((from \in ResolvedStages /\ op = "ReadUsed") \/ (from = "taken" /\ op = "AdminForceCloseAccount"))
  \/ to = "taken" /\ from = "listed" /\ op = "Take"
  \/ to = "empty" /\ from = "empty" /\ op = "Read"
  \/ to = "paid" /\ ((from = "empty" /\ op = "WithdrawInsurance") \/ (from = "paid" /\ op = "Read"))
  \/ to = "closed" /\ op = "CloseSlab"

(* What an undisturbed market does not refuse.                             *)
Sure(op, from) ==
  \/ from \in LiveStages /\ op \in {"PushOraclePrice", "KeeperCrank", "ResolveMarket"}
  \/ from \in ResolvedStages /\ op = "KeeperCrank"
  \/ from \in {"empty", "paid"} /\ op = "WithdrawInsurance"
  \/ from = "paid" /\ op = "CloseSlab"

FallsTo(op, from, to) ==
  \/ to = "any"
  \/ to = from /\ to # "read" /\ op # "Take"
  \/ to = "live" /\ from \in LiveStages
  \/ to = "empty" /\ from = "listed" /\ op = "Take"
  \/ to = "listed" /\ from = "taken" /\ op = "AdminForceCloseAccount"
  \/ Sure(op, from) /\ to # "read"

DrillOps ==
  (Instructions \ {"WithdrawCollateral"}) \cup {"Unwind", "Read", "ReadUsed", "Each", "Take", "Say", "Flat", "IsLp", "Go"}

DrillStep(s, v, on, off) ==
  /\ s.op \in DrillOps /\ DrillLegal(s, v)
  /\ s.op # "Go" =>
       /\ on.kind = "drill" /\ Reaches(s.op, v.stage, on.stage)
       /\ CASE s.op = "ReadUsed" -> Slots \subseteq on.todo
            [] s.op = "Each"     -> Users \subseteq on.todo
            [] OTHER             -> v.todo \subseteq on.todo
       /\ CASE s.op = "Take" -> v.todo \subseteq on.idx
            [] s.op = "IsLp" -> v.idx \ {LP} \subseteq on.idx
            [] OTHER         -> v.idx \subseteq on.idx
       /\ on.stage = "read" => on.idx \subseteq Slots
  /\ \/ off.kind = "dead" /\ s.op \notin {"Take", "Flat", "IsLp", "Go"}
     \/ /\ off.kind = "drill" /\ FallsTo(s.op, v.stage, off.stage)
        /\ v.todo \subseteq off.todo /\ v.idx \subseteq off.idx

CalmStep(s, v, on, off) ==
  LET kept == on.kind = "calm" /\ on.stage = v.stage
      dies == s.catch = 0 /\ off.kind = "dead"
      ends == off.kind = "drill" /\ off.stage # "read" /\ 1 \in off.idx
  IN  \/ /\ v.stage = "flat" /\ kept /\ dies
         /\ s.op \in {"CreateAccount", "InitMarket", "SetOracleAuthority", "PushOraclePrice", "KeeperCrank",
                      "InitLP", "InitUser", "DepositCollateral", "TopUpInsurance", "Read"}
         /\ s.op = "PushOraclePrice" => s.n = 0
         /\ s.op = "DepositCollateral" => s.slot \in {LP, 1} /\ s.n \in Nat
      \/ /\ v.stage = "flat" /\ s.op = "TradeCpi" /\ s.slot = 1 /\ s.n = 1 /\ dies
         /\ on.kind = "calm" /\ on.stage = "open"
      \/ /\ v.stage \in {"open", "picked"} /\ kept /\ dies
         /\ s.op \in {"PushOraclePrice", "KeeperCrank", "Read", "WithdrawCollateral"}
         /\ s.op = "PushOraclePrice" => s.n = 0
         /\ s.op = "Read" => v.stage = "open"
         /\ s.op = "WithdrawCollateral" => v.stage = "open" /\ s.slot = 1 /\ s.n = 0
      \/ v.stage = "open" /\ s.op = "Read" /\ dies /\ on.kind = "calm" /\ on.stage = "known"
      \/ v.stage = "known" /\ s.op = "Pick" /\ s.slot = 1 /\ on.kind = "calm" /\ on.stage = "picked"
      \/ v.stage = "picked" /\ s.op = "Unwind" /\ s.slot = OWN /\ on.kind = "calm" /\ on.stage = "unwound" /\ ends
      \/ v.stage = "unwound" /\ s.op \in {"Read", "KeeperCrank"} /\ kept /\ dies
      \/ /\ v.stage = "unwound" /\ s.op = "CloseAccount" /\ s.slot = LP /\ ends
         /\ on.kind = "drill" /\ on.stage = "any" /\ 1 \in on.idx

Sound(s, v, on, off) ==
  /\ s.op \in Tests \cup {"Take"} => s.catch # 0
  /\ \/ v.kind = "own"   /\ OwnStep(s, v, on, off)
     \/ v.kind = "idle"  /\ IdleStep(s, v, on, off)
     \/ v.kind = "asked" /\ AskedStep(s, on, off)
     \/ v.kind = "fresh" /\ FreshStep(s, on, off)
     \/ v.kind = "sweep" /\ SweepStep(s, v, on, off)
     \/ v.kind = "drill" /\ DrillStep(s, v, on, off)
     \/ v.kind = "calm"  /\ CalmStep(s, v, on, off)

(***************************************************************************)
(* A sequence of n steps that leads from v to w, or out of the script by a *)
(* RETURN to e.                                                            *)
(***************************************************************************)
OpNames  == Instructions \cup Reads \cup Tests \cup {"WithdrawSeen", "Unwind", "Wait", "Each", "Take", "Pick", "Say"}
StepType == [op : OpNames, slot : Int, n : Int, catch : Int]

Target(A, f, e, j) ==
  IF A[j].catch = 0 THEN Dead ELSE IF A[j].catch = RETURN THEN e ELSE f[j + A[j].catch]

Annotated(A, f, e) ==
  \A j \in 1 .. Len(A) :
    /\ A[j].catch \in {0, RETURN} \/ j + A[j].catch \in 1 .. Len(A) + 1
    /\ Sound(A[j], f[j], f[j + 1], Target(A, f, e, j))

Leads(e, n, v, A, w) ==
  /\ A \in Seq(StepType) /\ n \in Nat /\ Len(A) = n
  /\ \E f : f[1] = v /\ f[n + 1] = w /\ Annotated(A, f, e)

(* One step, whose exception leaves main, is swallowed or ends the test.   *)
Goes(e, s, v, w) ==
  /\ s \in StepType /\ s.catch \in {0, 1, RETURN}
  /\ Sound(s, v, w, IF s.catch = 0 THEN Dead ELSE IF s.catch = RETURN THEN e ELSE w)

LEMMA Nothing ==
  ASSUME NEW e, NEW v
  PROVE  Leads(e, 0, v, <<>>, v)
<1> DEFINE f == [j \in 1 .. 1 |-> v]
<1>1. f[1] = v /\ Len(<<>>) = 0 /\ <<>> \in Seq(StepType)
  OBVIOUS
<1>2. Annotated(<<>>, f, e)
  BY <1>1 DEF Annotated
<1> HIDE DEF f
<1> QED BY <1>1, <1>2 DEF Leads

LEMMA Single ==
  ASSUME NEW e, NEW v, NEW w, NEW s, Goes(e, s, v, w)
  PROVE  Leads(e, 1, v, <<s>>, w)
<1> DEFINE f == [j \in 1 .. 2 |-> IF j = 1 THEN v ELSE w]
<1>1. f[1] = v /\ f[2] = w /\ Len(<<s>>) = 1 /\ <<s>> \in Seq(StepType) /\ <<s>>[1] = s
  BY DEF Goes
<1> HIDE DEF f
<1>2. Target(<<s>>, f, e, 1) = IF s.catch = 0 THEN Dead ELSE IF s.catch = RETURN THEN e ELSE w
  BY <1>1 DEF Target, Goes
<1>3. Annotated(<<s>>, f, e)
  BY <1>1, <1>2 DEF Annotated, Goes
<1> QED BY <1>1, <1>3 DEF Leads

LEMMA Chain ==
  ASSUME NEW e, NEW m, NEW n, NEW u, NEW v, NEW w, NEW A, NEW B,
         Leads(e, m, u, A, v), Leads(e, n, v, B, w)
  PROVE  Leads(e, m + n, u, A \o B, w)
<1>1. A \in Seq(StepType) /\ B \in Seq(StepType) /\ m \in Nat /\ n \in Nat /\ Len(A) = m /\ Len(B) = n
  BY DEF Leads
<1>2. PICK f : f[1] = u /\ f[Len(A) + 1] = v /\ Annotated(A, f, e)
  BY DEF Leads
<1>3. PICK g : g[1] = v /\ g[Len(B) + 1] = w /\ Annotated(B, g, e)
  BY DEF Leads
<1> DEFINE C == A \o B
           a == Len(A)
           b == Len(B)
           h == [j \in 1 .. a + b + 1 |-> IF j <= a THEN f[j] ELSE g[j - a]]
<1>4. /\ C \in Seq(StepType) /\ Len(C) = a + b /\ a \in Nat /\ b \in Nat
      /\ \A j \in 1 .. a : C[j] = A[j] /\ A[j] \in StepType
      /\ \A j \in 1 .. a + b : j > a => C[j] = B[j - a] /\ B[j - a] \in StepType
  BY <1>1
<1>5. /\ \A j \in 1 .. a + 1 : h[j] = f[j]
      /\ \A j \in 1 .. a + b + 1 : j > a => h[j] = g[j - a]
  <2>1. \A j \in 1 .. a : h[j] = f[j]
    BY <1>4
  <2>2. \A j \in 1 .. a + b + 1 : j > a => h[j] = g[j - a]
    BY <1>4
  <2>3. h[a + 1] = g[1]
    BY <1>4
  <2> HIDE DEF h
  <2>4. \A j \in 1 .. a + 1 : j \in 1 .. a \/ j = a + 1
    BY <1>4
  <2> QED BY <2>1, <2>2, <2>3, <2>4, <1>2, <1>3
<1> HIDE DEF C, a, b, h
<1>6. ASSUME NEW j \in 1 .. a + b
      PROVE  /\ C[j].catch \in {0, RETURN} \/ j + C[j].catch \in 1 .. a + b + 1
             /\ Sound(C[j], h[j], h[j + 1], Target(C, h, e, j))
  <2>1. CASE j <= a
    <3>1. j \in 1 .. a /\ j + 1 \in 1 .. a + 1 /\ C[j] = A[j] /\ A[j].catch \in Int /\ j \in 1 .. a + 1
      <4>1. j \in 1 .. a /\ j + 1 \in 1 .. a + 1 /\ j \in 1 .. a + 1
        BY <2>1, <1>4
      <4>2. C[j] = A[j] /\ A[j] \in StepType
        BY <4>1, <1>4
      <4> QED BY <4>1, <4>2 DEF StepType
    <3>2. A[j].catch \in {0, RETURN} \/ j + A[j].catch \in 1 .. a + 1
      BY <3>1, <1>2 DEF Annotated, a
    <3>3. Target(C, h, e, j) = Target(A, f, e, j)
      BY <3>1, <3>2, <1>5 DEF Target
    <3>4. h[j] = f[j] /\ h[j + 1] = f[j + 1]
      BY <3>1, <1>5
    <3>5. Sound(A[j], f[j], f[j + 1], Target(A, f, e, j))
      BY <3>1, <1>2 DEF Annotated, a
    <3>6. a + 1 \in 1 .. a + b + 1 /\ \A i \in 1 .. a + 1 : i \in 1 .. a + b + 1
      BY <1>4
    <3> QED BY <3>1, <3>2, <3>3, <3>4, <3>5, <3>6
  <2>2. CASE j > a
    <3> DEFINE i == j - a
    <3>1. i \in 1 .. b /\ j + 1 \in 1 .. a + b + 1 /\ j + 1 > a /\ (j + 1) - a = i + 1 /\ j \in 1 .. a + b + 1
      BY <2>2, <1>4
    <3>2. C[j] = B[i] /\ B[i].catch \in Int
      BY <2>2, <1>4 DEF StepType
    <3>3. B[i].catch \in {0, RETURN} \/ i + B[i].catch \in 1 .. b + 1
      BY <3>1, <1>3 DEF Annotated, b
    <3>4. B[i].catch \in {0, RETURN}
          \/ (j + B[i].catch \in 1 .. a + b + 1 /\ j + B[i].catch > a /\ (j + B[i].catch) - a = i + B[i].catch)
      BY <3>1, <3>2, <3>3, <1>4
    <3>5. Target(C, h, e, j) = Target(B, g, e, i)
      BY <3>2, <3>4, <1>5 DEF Target
    <3>6. h[j] = g[i] /\ h[j + 1] = g[i + 1]
      BY <3>1, <2>2, <1>5
    <3>7. Sound(B[i], g[i], g[i + 1], Target(B, g, e, i))
      BY <3>1, <1>3 DEF Annotated, b
    <3> QED BY <3>2, <3>4, <3>5, <3>6, <3>7
  <2> QED BY <2>1, <2>2, <1>4
<1>7. Annotated(C, h, e)
  BY <1>4, <1>6 DEF Annotated
<1>8. h[1] = u /\ h[Len(C) + 1] = w
  <2>1. 1 \in 1 .. a + 1 /\ a + b + 1 \in 1 .. a + b + 1 /\ a + b + 1 > a /\ (a + b + 1) - a = b + 1
    BY <1>4
  <2> QED BY <2>1, <1>2, <1>3, <1>4, <1>5 DEF b
<1>9. m + n \in Nat /\ Len(C) = m + n
  BY <1>1, <1>4 DEF a, b
<1>10. Leads(e, m + n, u, C, w)
  BY <1>4, <1>7, <1>8, <1>9 DEF Leads
<1> QED BY <1>10 DEF C

-----------------------------------------------------------------------------
(***************************************************************************)
(* What an instruction does to each account.                               *)
(***************************************************************************)
LEMMA FreedIs ==
  ASSUME NEW m, Books(m), NEW i \in Slots
  PROVE  /\ Freed(m, i).stage = m.stage /\ Freed(m, i).mark = m.mark /\ Freed(m, i).price = m.price
         /\ Freed(m, i).fund = m.fund
         /\ \A k \in Slots : Freed(m, i).account[k] = IF k = i THEN NoAccount ELSE m.account[k]
<1>1. m \in Market /\ m.account \in [Slots -> Account]
  BY DEF Books, Market
<1>2. Freed(m, i) = [m EXCEPT !.account = [m.account EXCEPT ![i] = NoAccount], !.free = <<i>> \o m.free]
  BY <1>1 DEF Freed, Market
<1> QED BY <1>1, <1>2 DEF Market

LEMMA ClosedIs ==
  ASSUME NEW m, Books(m), m.stage = "live", NEW i \in Slots \ {LP}, i \in Used(m), m.account[i].pos # 0
  PROVE  /\ Closed(m, i).stage = m.stage /\ Closed(m, i).mark = m.mark /\ Closed(m, i).price = m.price
         /\ Closed(m, i).fund = m.fund
         /\ Closed(m, i).account[i] = [m.account[i] EXCEPT !.pos = 0]
         /\ Closed(m, i).account[LP] = [m.account[LP] EXCEPT !.pos = m.account[LP].pos + m.account[i].pos]
         /\ \A k \in Slots \ {i, LP} : Closed(m, i).account[k] = m.account[k]
<1>1. m \in Market /\ m.account \in [Slots -> Account] /\ LP \in Slots
  BY Natural DEF Books, Market
<1>2. Closed(m, i) = [m EXCEPT !.account = [m.account EXCEPT
              ![i] = [m.account[i] EXCEPT !.pos = 0],
              ![LP] = [m.account[LP] EXCEPT !.pos = m.account[LP].pos + m.account[i].pos]]]
  BY ClosedBooks
<1> QED BY <1>1, <1>2 DEF Market

(* An account that was settled is reclaimed when it is empty, and its      *)
(* position may be closed when it is bankrupt.                             *)
MayBecome(u, a) ==
  \/ a = u
  \/ u.pos # 0 /\ u.capital = 0 /\ a = [u EXCEPT !.pos = 0]
  \/ u.pos = 0 /\ u.capital = 0 /\ u.pnl = "none" /\ a = NoAccount

CrankDoes(m, r) ==
  /\ r.stage = m.stage /\ r.mark = m.mark /\ r.price = m.price /\ r.fund = m.fund
  /\ \A k \in Slots \ {LP} : IF k \in Used(m) THEN MayBecome(Settled(m.account[k], m.price), r.account[k])
                             ELSE r.account[k] = NoAccount
  /\ r.account[LP].lp = m.account[LP].lp /\ r.account[LP].owner = m.account[LP].owner
  /\ r.account[LP].at = m.account[LP].at \/ r.account[LP].at = m.price
  /\ \/ r.account[LP].pos = m.account[LP].pos
     \/ \E i \in Used(m) \ {LP} : m.account[i].pos # 0 /\ Settled(m.account[i], m.price).capital = 0
  /\ m.account[LP].at = m.price => r.account[LP].pnl = m.account[LP].pnl

LEMMA CrankIs ==
  ASSUME NEW m, Books(m), m.stage = "live", NEW r \in Cranked(m)
  PROVE  CrankDoes(m, r)
<1> DEFINE n == Marked(m)
<1>1. /\ Books(n) /\ Used(n) = Used(m) /\ n.account \in [Slots -> Account]
      /\ \A i \in Slots : n.account[i] = IF i \in Used(m) THEN Settled(m.account[i], m.price) ELSE NoAccount
      /\ \A i \in Slots : n.account[i].owner = m.account[i].owner /\ n.account[i].lp = m.account[i].lp
                          /\ n.account[i].pos = m.account[i].pos
      /\ n.stage = m.stage /\ n.mark = m.mark /\ n.price = m.price /\ n.fund = m.fund
  BY MarkedBooks
<1>2. \/ r = n
      \/ \E i \in Bankrupt(n) : r = Closed(n, i)
      \/ \E i \in Empty(n) : r = Freed(n, i)
  BY CrankedIs
<1> HIDE DEF n
<1>3. LP \in Slots /\ Used(m) \subseteq Slots
  BY Natural DEF Used
<1>10. /\ n.account[LP].at = m.account[LP].at \/ n.account[LP].at = m.price
       /\ m.account[LP].at = m.price => n.account[LP].pnl = m.account[LP].pnl
  <2>1. CASE LP \in Used(m)
    <3> DEFINE a == m.account[LP]
    <3>1. a \in Account /\ m.price \in Prices
      BY <1>3 DEF Books, Market
    <3>2. n.account[LP] = Settled(a, m.price)
      BY <2>1, <1>1, <1>3
    <3>3. Settled(a, m.price).at = m.price
      BY <3>1, SettledAccount
    <3>4. ASSUME a.at = m.price PROVE Settled(a, m.price).pnl = a.pnl
      <4>1. a.pos * (m.price - a.at) = 0
        BY <3>1, <3>4 DEF Account, Prices
      <4> QED BY <4>1, <3>1 DEF Settled, Account
    <3> QED BY <3>2, <3>3, <3>4
  <2>2. CASE LP \notin Used(m)
    BY <2>2, <1>1, <1>3 DEF Used
  <2> QED BY <2>1, <2>2
<1>4. CASE r = n
  BY <1>1, <1>3, <1>4, <1>10 DEF MayBecome, CrankDoes
<1>5. ASSUME NEW i \in Bankrupt(n), r = Closed(n, i) PROVE CrankDoes(m, r)
  <2>1. i \in Slots \ {LP} /\ i \in Used(m) /\ n.account[i].pos # 0 /\ n.account[i].capital = 0
    BY <1>1 DEF Bankrupt, Used
  <2>2. /\ r.stage = n.stage /\ r.mark = n.mark /\ r.price = n.price /\ r.fund = n.fund
        /\ r.account[i] = [n.account[i] EXCEPT !.pos = 0]
        /\ r.account[LP] = [n.account[LP] EXCEPT !.pos = n.account[LP].pos + n.account[i].pos]
        /\ \A k \in Slots \ {i, LP} : r.account[k] = n.account[k]
    BY <2>1, <1>1, <1>5, ClosedIs
  <2>3. \A k \in Slots \ {LP} : IF k \in Used(m) THEN MayBecome(Settled(m.account[k], m.price), r.account[k])
                               ELSE r.account[k] = NoAccount
    BY <2>1, <2>2, <1>1 DEF MayBecome
  <2>4. /\ r.account[LP].lp = n.account[LP].lp /\ r.account[LP].owner = n.account[LP].owner
        /\ r.account[LP].at = n.account[LP].at /\ r.account[LP].pnl = n.account[LP].pnl
    <3>1. n.account[LP] \in Account
      BY <1>1, <1>3
    <3> QED BY <3>1, <2>2 DEF Account
  <2>5. n.account[i] = Settled(m.account[i], m.price) /\ m.account[i].pos # 0
    BY <2>1, <1>1
  <2> QED BY <2>1, <2>2, <2>3, <2>4, <2>5, <1>1, <1>3, <1>10 DEF CrankDoes
<1>6. ASSUME NEW i \in Empty(n), r = Freed(n, i) PROVE CrankDoes(m, r)
  <2>1. i \in Slots \ {LP} /\ i \in Used(m) /\ n.account[i].pos = 0 /\ n.account[i].capital = 0 /\ n.account[i].pnl = "none"
    BY <1>1 DEF Empty, Used
  <2>2. /\ r.stage = n.stage /\ r.mark = n.mark /\ r.price = n.price /\ r.fund = n.fund
        /\ \A k \in Slots : r.account[k] = IF k = i THEN NoAccount ELSE n.account[k]
    BY <2>1, <1>1, <1>6, FreedIs
  <2>3. \A k \in Slots \ {LP} : IF k \in Used(m) THEN MayBecome(Settled(m.account[k], m.price), r.account[k])
                               ELSE r.account[k] = NoAccount
    BY <2>1, <2>2, <1>1 DEF MayBecome
  <2>4. r.account[LP] = n.account[LP]
    BY <2>1, <2>2, <1>3
  <2> QED BY <2>1, <2>2, <2>3, <2>4, <1>1, <1>3, <1>10 DEF CrankDoes
<1> QED BY <1>2, <1>4, <1>5, <1>6

(* What else an instruction leaves as it was.                              *)
Keeps(m, r) ==
  r.stage = m.stage /\ r.mark = m.mark /\ r.price = m.price /\ r.fund = m.fund

LEMMA OutcomeKeeps ==
  ASSUME NEW m, NEW r, m \in Market, NEW acc, r = [m EXCEPT !.account = acc]
  PROVE  Keeps(m, r) /\ r.account = acc
BY DEF Keeps, Market

LEMMA DepositIs ==
  ASSUME NEW m, Books(m), NEW i \in Slots, NEW n, NEW r \in Outcomes(m, "DepositCollateral", i, n)
  PROVE  /\ m.stage = "live" /\ Mine(m, i) /\ Keeps(m, r)
         /\ r.account[i] = [m.account[i] EXCEPT !.capital = @ + n]
         /\ \A k \in Slots \ {i} : r.account[k] = m.account[k]
<1>1. m \in Market /\ m.account \in [Slots -> Account]
  BY DEF Books, Market
<1>2. m.stage = "live" /\ Mine(m, i) /\ r = [m EXCEPT !.account[i].capital = @ + n]
  BY OutDepositCollateral
<1>3. r = [m EXCEPT !.account = [m.account EXCEPT ![i] = [m.account[i] EXCEPT !.capital = m.account[i].capital + n]]]
  BY <1>1, <1>2
<1>4. Keeps(m, r) /\ r.account = [m.account EXCEPT ![i] = [m.account[i] EXCEPT !.capital = m.account[i].capital + n]]
  BY <1>1, <1>3, OutcomeKeeps
<1> QED BY <1>1, <1>2, <1>4

LEMMA WithdrawIs ==
  ASSUME NEW m, Books(m), NEW i \in Slots, NEW n, NEW r \in Outcomes(m, "WithdrawCollateral", i, n)
  PROVE  /\ m.stage = "live" /\ Mine(m, i) /\ Keeps(m, r)
         /\ Payable(m.account[i], m.price, n)
         /\ r.account[i] = Paid(m.account[i], m.price, n)
         /\ \A k \in Slots \ {i} : r.account[k] = m.account[k]
<1> DEFINE a == Paid(m.account[i], m.price, n)
<1>1. m \in Market /\ m.account \in [Slots -> Account]
  BY DEF Books, Market
<1>2. m.stage = "live" /\ Mine(m, i) /\ Payable(m.account[i], m.price, n) /\ r = [m EXCEPT !.account[i] = a]
  BY OutWithdrawCollateral DEF Payable, Paid
<1> HIDE DEF a
<1>3. r = [m EXCEPT !.account = [m.account EXCEPT ![i] = a]]
  BY <1>1, <1>2
<1>4. Keeps(m, r) /\ r.account = [m.account EXCEPT ![i] = a]
  BY <1>1, <1>3, OutcomeKeeps
<1>5. r.account[i] = a /\ \A k \in Slots \ {i} : r.account[k] = m.account[k]
  BY <1>1, <1>4
<1> QED BY <1>2, <1>4, <1>5 DEF a

(* It is refused only for an account that may not be paid.                 *)
LEMMA WithdrawMay ==
  ASSUME NEW m, m.stage = "live", NEW i, Mine(m, i), NEW n, Outcomes(m, "WithdrawCollateral", i, n) = {}
  PROVE  ~ Payable(m.account[i], m.price, n)
BY OutWithdrawCollateral DEF Payable, Paid

LEMMA TradedIs ==
  ASSUME NEW m, Books(m), NEW i \in Slots \ {LP}, NEW d \in Int
  PROVE  /\ Keeps(m, Traded(m, i, d))
         /\ Traded(m, i, d).account[i] = Swapped(m.account[i], m.price, d)
         /\ Traded(m, i, d).account[LP] = Swapped(m.account[LP], m.price, -d)
         /\ \A k \in Slots \ {i, LP} : Traded(m, i, d).account[k] = m.account[k]
<1> DEFINE u == Settled(m.account[i], m.price)
           l == Settled(m.account[LP], m.price)
           a == [u EXCEPT !.pos = u.pos + d]
           b == [l EXCEPT !.pos = l.pos - d]
<1>1. m \in Market /\ m.account \in [Slots -> Account] /\ LP \in Slots /\ i # LP /\ m.price \in Prices
      /\ m.account[i] \in Account /\ m.account[LP] \in Account
  BY Natural DEF Books, Market
<1>2. u \in Account /\ l \in Account /\ u.pos = m.account[i].pos /\ l.pos = m.account[LP].pos
  BY <1>1, SettledAccount
<1>3. Traded(m, i, d) = [m EXCEPT !.account = [m.account EXCEPT ![i] = a, ![LP] = b]]
  BY <1>1, <1>2 DEF Traded, Market, Account
<1>4. a = Swapped(m.account[i], m.price, d) /\ b = Swapped(m.account[LP], m.price, -d)
  <2>1. l.pos - d = m.account[LP].pos + (-d)
    BY <1>1, <1>2 DEF Account
  <2> QED BY <2>1, <1>2 DEF Swapped
<1> HIDE DEF a, b
<1>5. Keeps(m, Traded(m, i, d)) /\ Traded(m, i, d).account = [m.account EXCEPT ![i] = a, ![LP] = b]
  BY <1>1, <1>3, OutcomeKeeps
<1>6. /\ Traded(m, i, d).account[i] = a /\ Traded(m, i, d).account[LP] = b
      /\ \A k \in Slots \ {i, LP} : Traded(m, i, d).account[k] = m.account[k]
  BY <1>1, <1>5
<1> QED BY <1>4, <1>5, <1>6

LEMMA SwappedPos ==
  ASSUME NEW a \in Account, NEW p \in Prices, NEW d \in Int
  PROVE  Swapped(a, p, d).pos = a.pos + d
BY SettledAccount DEF Swapped, Account

LEMMA TradeIs ==
  ASSUME NEW m, Books(m), NEW i \in Slots \ {LP}, NEW n \in Int, NEW r \in Outcomes(m, "TradeCpi", i, n)
  PROVE  /\ m.stage = "live" /\ Mine(m, i) /\ m.account[LP].lp /\ Keeps(m, r)
         /\ Accepted(m.account[i], m.price, n)
         /\ r.account[i] = Swapped(m.account[i], m.price, n)
         /\ r.account[LP] = Swapped(m.account[LP], m.price, -n)
         /\ \A k \in Slots \ {i, LP} : r.account[k] = m.account[k]
<1>1. m.account[i] \in Account /\ m.price \in Prices
  BY DEF Books, Market
<1>2. /\ m.stage = "live" /\ Mine(m, i) /\ m.account[LP].lp /\ r = Traded(m, i, n)
      /\ Abs(Traded(m, i, n).account[i].pos) > Abs(m.account[i].pos) => Covered(Traded(m, i, n).account[i])
  BY OutTradeCpi
<1>4. Traded(m, i, n).account[i] = Swapped(m.account[i], m.price, n)
      /\ Swapped(m.account[i], m.price, n).pos = m.account[i].pos + n
  BY <1>1, TradedIs, SwappedPos
<1>3. Accepted(m.account[i], m.price, n)
  BY <1>2, <1>4 DEF Accepted
<1> QED BY <1>2, <1>3, TradedIs

LEMMA TradeMay ==
  ASSUME NEW m, Books(m), m.stage = "live", NEW i \in Slots \ {LP}, Mine(m, i), m.account[LP].lp, NEW n \in Int,
         Outcomes(m, "TradeCpi", i, n) = {}
  PROVE  ~ Accepted(m.account[i], m.price, n)
<1>1. m.account[i] \in Account /\ m.price \in Prices
  BY DEF Books, Market
<1>2. ~ (Abs(Traded(m, i, n).account[i].pos) > Abs(m.account[i].pos) => Covered(Traded(m, i, n).account[i]))
  BY OutTradeCpi
<1>3. Traded(m, i, n).account[i] = Swapped(m.account[i], m.price, n)
      /\ Swapped(m.account[i], m.price, n).pos = m.account[i].pos + n
  BY <1>1, TradedIs, SwappedPos
<1> QED BY <1>2, <1>3 DEF Accepted

LEMMA CloseIs ==
  ASSUME NEW m, Books(m), NEW i \in Slots, NEW n, NEW r \in Outcomes(m, "CloseAccount", i, n)
  PROVE  /\ m.stage \in {"live", "resolved"} /\ Mine(m, i) /\ Keeps(m, r)
         /\ m.account[i].pos = 0
         /\ \A k \in Slots : r.account[k] = IF k = i THEN NoAccount ELSE m.account[k]
<1>1. m.stage \in {"live", "resolved"} /\ Mine(m, i) /\ Touched(m.account[i], m.price).pos = 0 /\ r = Freed(m, i)
  BY OutCloseAccount
<1>2. m.account[i] \in Account /\ m.price \in Prices
  BY DEF Books, Market
<1> QED BY <1>1, <1>2, FreedIs, TouchedAccount DEF Keeps

LEMMA CloseMay ==
  ASSUME NEW m, m.stage = "live", NEW i, Mine(m, i), NEW n, Outcomes(m, "CloseAccount", i, n) = {}
  PROVE  ~ (Touched(m.account[i], m.price).pos = 0 /\ Touched(m.account[i], m.price).pnl = "none")
BY OutCloseAccount

(* A new account of the wallet.                                            *)
Opening(price, isLp) == [owner |-> PAYER, lp |-> isLp, capital |-> 0, pos |-> 0, at |-> price, pnl |-> "none"]
NewUser(price) == Opening(price, FALSE)
NewLp(price)   == Opening(price, TRUE)

LEMMA UserIs ==
  ASSUME NEW m, Books(m), NEW i, NEW n, NEW r \in Outcomes(m, "InitUser", i, n)
  PROVE  /\ m.stage = "live" /\ Keeps(m, r) /\ Head(m.free) \in Slots /\ m.account[Head(m.free)] = NoAccount
         /\ r.account[Head(m.free)] = NewUser(m.price)
         /\ \A k \in Slots \ {Head(m.free)} : r.account[k] = m.account[k]
<1>1. m.stage = "live" /\ m.free # <<>> /\ r = Opened(m, PAYER, FALSE)
  <2> DEFINE o == Opened(m, PAYER, FALSE)
  <2>1. Outcomes(m, "InitUser", i, n) = IF m.stage = "live" /\ m.free # <<>> THEN {o} ELSE {}
    BY OutInitUser
  <2> HIDE DEF o
  <2>2. m.stage = "live" /\ m.free # <<>> /\ r = o
    BY <2>1
  <2> QED BY <2>2 DEF o
<1>2. m.account \in [Slots -> Account] /\ PAYER \in {PAYER, STRANGER} /\ FALSE \in BOOLEAN
  BY DEF Books, Market
<1>3. /\ Head(m.free) \in Slots /\ m.account[Head(m.free)] = NoAccount
      /\ r.account = [m.account EXCEPT ![Head(m.free)] =
           [owner |-> PAYER, lp |-> FALSE, capital |-> 0, pos |-> 0, at |-> m.price, pnl |-> "none"]]
      /\ r.stage = m.stage /\ r.mark = m.mark /\ r.price = m.price /\ r.fund = m.fund
  BY <1>1, <1>2, OpenedBooks, Zenon
<1>4. r.account = [m.account EXCEPT ![Head(m.free)] = NewUser(m.price)]
  BY <1>3 DEF NewUser, Opening
<1> QED BY <1>1, <1>2, <1>3, <1>4 DEF Keeps

LEMMA LpIs ==
  ASSUME NEW m, Books(m), NEW i, NEW n, NEW r \in Outcomes(m, "InitLP", i, n)
  PROVE  /\ m.stage = "live" /\ Keeps(m, r) /\ Head(m.free) \in Slots /\ m.account[Head(m.free)] = NoAccount
         /\ r.account[Head(m.free)] = NewLp(m.price)
         /\ \A k \in Slots \ {Head(m.free)} : r.account[k] = m.account[k]
<1>1. m.stage = "live" /\ m.free # <<>> /\ r = Opened(m, PAYER, TRUE)
  <2> DEFINE o == Opened(m, PAYER, TRUE)
  <2>1. Outcomes(m, "InitLP", i, n) = IF m.stage = "live" /\ m.free # <<>> THEN {o} ELSE {}
    BY OutInitLP
  <2> HIDE DEF o
  <2>2. m.stage = "live" /\ m.free # <<>> /\ r = o
    BY <2>1
  <2> QED BY <2>2 DEF o
<1>2. m.account \in [Slots -> Account] /\ PAYER \in {PAYER, STRANGER} /\ TRUE \in BOOLEAN
  BY DEF Books, Market
<1>3. /\ Head(m.free) \in Slots /\ m.account[Head(m.free)] = NoAccount
      /\ r.account = [m.account EXCEPT ![Head(m.free)] =
           [owner |-> PAYER, lp |-> TRUE, capital |-> 0, pos |-> 0, at |-> m.price, pnl |-> "none"]]
      /\ r.stage = m.stage /\ r.mark = m.mark /\ r.price = m.price /\ r.fund = m.fund
  BY <1>1, <1>2, OpenedBooks, Zenon
<1>4. r.account = [m.account EXCEPT ![Head(m.free)] = NewLp(m.price)]
  BY <1>3 DEF NewLp, Opening
<1> QED BY <1>1, <1>2, <1>3, <1>4 DEF Keeps

(* Instructions that no account takes part in.                             *)
General == {"CreateAccount", "InitMarket", "SetOracleAuthority", "PushOraclePrice", "TopUpInsurance",
            "ResolveMarket", "WithdrawInsurance", "CloseSlab"}

LEMMA GeneralIs ==
  ASSUME NEW m, m \in Market, NEW op \in General, NEW i, NEW n, NEW r \in Outcomes(m, op, i, n)
  PROVE  /\ r.account = m.account
         /\ op \notin {"CreateAccount", "InitMarket", "ResolveMarket", "CloseSlab"} => r.stage = m.stage
         /\ op # "InitMarket" => r.mark = m.mark
         /\ op = "InitMarket" => r.mark
         /\ op # "PushOraclePrice" => r.price = m.price
         /\ op = "PushOraclePrice" => r.price = n
         /\ op \notin {"TopUpInsurance", "WithdrawInsurance"} => r.fund = m.fund
         /\ op = "CreateAccount" => m.stage = "none" /\ r.stage = "blank"
         /\ op = "InitMarket" => m.stage = "blank" /\ r.stage = "live"
         /\ op \in {"SetOracleAuthority", "PushOraclePrice", "ResolveMarket"} => m.stage = "live" /\ m.mark
         /\ op = "ResolveMarket" => r.stage = "resolved"
         /\ op = "WithdrawInsurance" => m.stage = "resolved" /\ ~ r.fund
         /\ op = "CloseSlab" => m.stage \in {"live", "resolved"} /\ r.stage = "closed"
<1>1. CASE op = "CreateAccount"
  BY <1>1, OutCreateAccount DEF Market
<1>2. CASE op = "InitMarket"
  <2>1. m.stage = "blank" /\ r = [m EXCEPT !.stage = "live", !.mark = TRUE]
    BY <1>2, OutInitMarket
  <2>2. r.account = m.account /\ r.stage = "live" /\ r.mark = TRUE /\ r.price = m.price /\ r.fund = m.fund
    BY <2>1 DEF Market
  <2> QED BY <1>2, <2>1, <2>2
<1>3. CASE op = "SetOracleAuthority"
  BY <1>3, OutSetOracleAuthority
<1>4. CASE op = "PushOraclePrice"
  BY <1>4, OutPushOraclePrice DEF Market
<1>5. CASE op = "TopUpInsurance"
  BY <1>5, OutTopUpInsurance DEF Market
<1>6. CASE op = "ResolveMarket"
  BY <1>6, OutResolveMarket DEF Market
<1>7. CASE op = "WithdrawInsurance"
  BY <1>7, OutWithdrawInsurance DEF Market
<1>8. CASE op = "CloseSlab"
  BY <1>8, OutCloseSlab DEF Market
<1> QED BY <1>1, <1>2, <1>3, <1>4, <1>5, <1>6, <1>7, <1>8 DEF General

LEMMA LiquidateIs ==
  ASSUME NEW m, Books(m), NEW i, NEW n, NEW r \in Outcomes(m, "LiquidateAtOracle", i, n)
  PROVE  /\ m.stage = "live" /\ Keeps(m, r) /\ i \in Slots \ {LP} /\ i \in Used(m)
         /\ r.account[i] = [m.account[i] EXCEPT !.pos = 0]
         /\ r.account[LP] = [m.account[LP] EXCEPT !.pos = m.account[LP].pos + m.account[i].pos]
         /\ \A k \in Slots \ {i, LP} : r.account[k] = m.account[k]
<1>1. m.stage = "live" /\ i \in Bankrupt(m) /\ r = Closed(m, i)
  BY OutLiquidateAtOracle
<1>2. i \in Slots \ {LP} /\ i \in Used(m) /\ m.account[i].pos # 0
  BY <1>1 DEF Bankrupt, Used
<1> QED BY <1>1, <1>2, ClosedIs DEF Keeps

LEMMA ForceIs ==
  ASSUME NEW m, Books(m), NEW i \in Slots, NEW n, NEW r \in Outcomes(m, "AdminForceCloseAccount", i, n)
  PROVE  /\ m.stage = "resolved" /\ Mine(m, i) /\ Keeps(m, r)
         /\ \A k \in Slots : r.account[k] = IF k = i THEN NoAccount ELSE m.account[k]
BY OutAdminForceCloseAccount, FreedIs DEF Keeps

-----------------------------------------------------------------------------
(***************************************************************************)
(* What always holds of a run, whatever its script has come to: the books  *)
(* of the market, the types, and what the script is given to work on.      *)
(***************************************************************************)
Past == \A i \in Leftovers : opened[i] # Nobody => opened[i] \in hurt \cup {test}

Drilled(m) == (m.stage = "live" => m.mark) /\ \A k \in Slots \ {LP} : m.account[k].pos >= 0

Shape ==
  /\ Books(market) /\ script \in Scripts /\ test \in Nat
  /\ idx \in Slots \cup {OWN} /\ todo \subseteq Slots /\ said \subseteq Slots /\ seen \in [Slots -> Account]
  /\ faults \in 0 .. MaxFaults /\ joins \in 0 .. MaxJoins /\ hurt \subseteq Nat
  /\ opened \in [Slots -> Nat] /\ \A i \in Slots : opened[i] <= test
  /\ script \in OnDeployed => market.stage = "live" /\ market.account[LP].lp /\ Past
  /\ script \in OnOwnSlab => Drilled(market) /\ (joins = 0 => \A i \in Slots : market.account[i].owner # STRANGER)

(* The accounts of the wallet are among those it had before.               *)
NoMore(m, r) ==
  \A k \in Slots : Mine(r, k) => Mine(m, k) /\ r.account[k].lp = m.account[k].lp

LEMMA FewerLeft ==
  ASSUME Books(market), NoMore(market, market')
  PROVE  Leftovers' \subseteq Leftovers
<1> SUFFICES ASSUME NEW i \in Leftovers' PROVE i \in Leftovers
  OBVIOUS
<1>1. i \in Slots /\ market'.account[i].owner = PAYER /\ ~ market'.account[i].lp
  BY DEF Leftovers, Used
<1>2. Mine(market', i)
  BY <1>1 DEF Mine
<1>3. Mine(market, i) /\ ~ market.account[i].lp
  BY <1>1, <1>2 DEF NoMore
<1> QED BY <1>1, <1>3, Wallets, BooksUsed DEF Leftovers, Mine

LEMMA ShapeKept ==
  ASSUME Shape, UNCHANGED <<script, test, opened>>, Books(market'),
         idx' \in Slots \cup {OWN}, todo' \subseteq Slots, said' \subseteq Slots, seen' \in [Slots -> Account],
         faults' \in 0 .. MaxFaults, joins' = joins, hurt \subseteq hurt', hurt' \subseteq Nat,
         script \in OnDeployed => /\ market'.stage = "live" /\ market'.account[LP].lp
                                  /\ NoMore(market, market'),
         script \in OnOwnSlab => /\ Drilled(market')
                                 /\ joins = 0 => \A i \in Slots : market'.account[i].owner # STRANGER
  PROVE  Shape'
<1>1. ASSUME script \in OnDeployed PROVE Past'
  <2>1. Leftovers' \subseteq Leftovers
    BY <1>1, FewerLeft DEF Shape
  <2>2. Past
    BY <1>1 DEF Shape
  <2> QED BY <2>1, <2>2 DEF Past
<1> QED BY <1>1 DEF Shape

(* The instructions of the tests.                                          *)
TestOps == {"SetOracleAuthority", "PushOraclePrice", "KeeperCrank", "TopUpInsurance", "DepositCollateral",
            "TradeCpi", "WithdrawCollateral", "CloseAccount"}

LEMMA TestMarket ==
  ASSUME NEW m, Books(m), m.stage = "live", m.account[LP].lp, NEW op \in TestOps, NEW i, NEW n,
         Legal(m, op, i, n), op = "CloseAccount" => i # LP, NEW r \in Outcomes(m, op, i, n)
  PROVE  /\ Books(r) /\ r.stage = "live" /\ r.account[LP].lp /\ NoMore(m, r)
         /\ r.mark = m.mark /\ (op \in {"SetOracleAuthority", "PushOraclePrice"} => m.mark)
         /\ op # "PushOraclePrice" => r.price = m.price
<1>1. m \in Market /\ m.account \in [Slots -> Account] /\ LP \in Slots /\ m.price \in Prices
  BY Natural DEF Books, Market
<1>2. op \in Instructions
  BY DEF TestOps, Instructions
<1>3. Books(r)
  BY <1>2, BooksKept
<1>4. CASE op \in General
  <2>1. op \in {"SetOracleAuthority", "PushOraclePrice", "TopUpInsurance"}
    BY <1>4 DEF TestOps, General
  <2>2. /\ r.account = m.account /\ r.stage = m.stage /\ r.mark = m.mark
        /\ op \in {"SetOracleAuthority", "PushOraclePrice"} => m.mark
        /\ op # "PushOraclePrice" => r.price = m.price
    <3>1. op \notin {"CreateAccount", "InitMarket", "ResolveMarket", "CloseSlab"}
      BY <2>1
    <3> QED BY <3>1, <1>1, <1>4, GeneralIs
  <2> QED BY <2>2, <1>3 DEF NoMore, Mine
<1>5. CASE op = "KeeperCrank"
  <2>1. CrankDoes(m, r)
    BY <1>5, CrankIs, OutKeeperCrank
  <2>2. ASSUME NEW k \in Slots \ {LP}, Mine(r, k) PROVE Mine(m, k) /\ r.account[k].lp = m.account[k].lp
    <3>1. k \in Used(m)
      BY <2>1, <2>2, Wallets DEF CrankDoes, Mine, NoAccount
    <3>2. m.account[k] \in Account
      BY <1>1
    <3> DEFINE u == Settled(m.account[k], m.price)
    <3>3. u \in Account /\ u.owner = m.account[k].owner /\ u.lp = m.account[k].lp
      BY <3>2, <1>1, SettledAccount
    <3>4. MayBecome(u, r.account[k])
      BY <2>1, <2>2, <3>1 DEF CrankDoes
    <3> HIDE DEF u
    <3>5. r.account[k].owner = u.owner /\ r.account[k].lp = u.lp
      BY <3>3, <3>4, <2>2, Wallets DEF MayBecome, Account, Mine, NoAccount
    <3> QED BY <3>3, <3>5, <2>2 DEF Mine
  <2>3. r.account[LP].lp = m.account[LP].lp /\ r.account[LP].owner = m.account[LP].owner
    BY <2>1 DEF CrankDoes
  <2>4. NoMore(m, r)
    BY <2>2, <2>3 DEF NoMore, Mine
  <2> QED BY <2>1, <2>4, <1>3, <1>5 DEF CrankDoes
<1>6. CASE op = "DepositCollateral"
  <2>1. i \in Slots
    BY <1>6 DEF Legal
  <2>2. /\ Mine(m, i) /\ Keeps(m, r) /\ r.account[i] = [m.account[i] EXCEPT !.capital = @ + n]
        /\ \A k \in Slots \ {i} : r.account[k] = m.account[k]
    BY <2>1, <1>6, DepositIs
  <2>3. r.account[i].owner = m.account[i].owner /\ r.account[i].lp = m.account[i].lp
    BY <2>1, <2>2, <1>1 DEF Account
  <2> QED BY <2>2, <2>3, <1>1, <1>3, <1>6 DEF NoMore, Mine, Keeps
<1>7. CASE op = "TradeCpi"
  <2>1. i \in Slots \ {LP} /\ n \in Int
    BY <1>7 DEF Legal
  <2>2. /\ Keeps(m, r) /\ r.account[i] = Swapped(m.account[i], m.price, n)
        /\ r.account[LP] = Swapped(m.account[LP], m.price, -n)
        /\ \A k \in Slots \ {i, LP} : r.account[k] = m.account[k]
    BY <2>1, <1>7, TradeIs
  <2>3. /\ r.account[i].owner = m.account[i].owner /\ r.account[i].lp = m.account[i].lp
        /\ r.account[LP].owner = m.account[LP].owner /\ r.account[LP].lp = m.account[LP].lp
    <3>1. /\ Settled(m.account[i], m.price) \in Account /\ Settled(m.account[LP], m.price) \in Account
          /\ Settled(m.account[i], m.price).owner = m.account[i].owner
          /\ Settled(m.account[i], m.price).lp = m.account[i].lp
          /\ Settled(m.account[LP], m.price).owner = m.account[LP].owner
          /\ Settled(m.account[LP], m.price).lp = m.account[LP].lp
      BY <2>1, <1>1, SettledAccount
    <3> QED BY <3>1, <2>2 DEF Swapped, Account
  <2> QED BY <2>2, <2>3, <1>1, <1>3, <1>7 DEF NoMore, Mine, Keeps
<1>8. CASE op = "WithdrawCollateral"
  <2>1. i \in Slots
    BY <1>8 DEF Legal
  <2>2. /\ Keeps(m, r) /\ r.account[i] = Paid(m.account[i], m.price, n)
        /\ \A k \in Slots \ {i} : r.account[k] = m.account[k]
    BY <2>1, <1>8, WithdrawIs
  <2>3. r.account[i].owner = m.account[i].owner /\ r.account[i].lp = m.account[i].lp
    <3>1. /\ Touched(m.account[i], m.price) \in Account
          /\ Touched(m.account[i], m.price).owner = m.account[i].owner
          /\ Touched(m.account[i], m.price).lp = m.account[i].lp
      BY <2>1, <1>1, TouchedAccount
    <3> QED BY <3>1, <2>2 DEF Paid, Account
  <2> QED BY <2>2, <2>3, <1>1, <1>3, <1>8 DEF NoMore, Mine, Keeps
<1>9. CASE op = "CloseAccount"
  <2>1. i \in Slots /\ i # LP
    BY <1>9 DEF Legal
  <2>2. /\ Keeps(m, r)
        /\ \A k \in Slots : r.account[k] = IF k = i THEN NoAccount ELSE m.account[k]
    BY <2>1, <1>9, CloseIs
  <2> QED BY <2>1, <2>2, <1>1, <1>3, <1>9, Wallets DEF NoMore, Mine, Keeps, NoAccount
<1> QED BY <1>4, <1>5, <1>6, <1>7, <1>8, <1>9 DEF TestOps, General

-----------------------------------------------------------------------------
(***************************************************************************)
(* A step leads from its view to the next one, to the one an exception or  *)
(* a jump leads to, or ends the script.                                    *)
(***************************************************************************)
Advance(s, on, off) ==
  /\ Shape' /\ UNCHANGED <<script, test>>
  /\ \/ pc' = pc + 1 /\ status' = status /\ Fits(on)'
     \/ s.catch # 0 /\ pc' = pc + s.catch /\ status' = status /\ Fits(off)'
     \/ s.catch = 0 /\ pc' = pc /\ status' = "died" /\ Fits(off)'

LEMMA Passed ==
  ASSUME NEW s, NEW on, NEW off, Shape', UNCHANGED <<script, test, status>>, pc' = pc + 1, Fits(on)'
  PROVE  Advance(s, on, off)
BY DEF Advance

LEMMA Thrown ==
  ASSUME NEW s, NEW on, NEW off, Shape', UNCHANGED <<script, test>>, Throw(s), Fits(off)'
  PROVE  Advance(s, on, off)
BY DEF Advance, Throw

-----------------------------------------------------------------------------
(***************************************************************************)
(* The account of a test.                                                  *)
(***************************************************************************)
(* What holds of it after a step.                                          *)
LEMMA StaysOwn ==
  ASSUME NEW w, w.kind = "own", script' \in OnDeployed, market'.mark, idx' \in Slots \ {LP},
         test' \in hurt' \/ \A i \in Leftovers' : opened'[i] = test' => i = idx',
         test' \in hurt' \/ (Mine(market', idx') => Agrees(w, market'.account[idx'], seen'[idx'], market'.price))
  PROVE  Fits(w)'
BY DEF Fits, FitsOwn, TestKinds, DrillKinds

(* When it is lost, or the test met a fault, any view of a test will do.   *)
LEMMA LeavesOwn ==
  ASSUME NEW w, w.kind \in {"own", "idle", "dead"}, script' \in OnDeployed, market'.mark, idx' \in Slots \ {LP},
         test' \in hurt' \/ (~ Mine(market', idx') /\ \A i \in Leftovers' : opened'[i] = test' => i = idx')
  PROVE  Fits(w)'
<1>1. Clean'
  BY DEF Clean, Leftovers, Mine
<1> QED BY <1>1, StaysOwn DEF Fits, FitsIdle, TestKinds, DrillKinds

(* The account a, what was read of it, and the market it is in, when an    *)
(* instruction of the step is executed.                                    *)
OwnSends(s, k) ==
  \/ s.op \in {"PushOraclePrice", "KeeperCrank", "DepositCollateral", "TradeCpi", "WithdrawCollateral", "CloseAccount"}
  \/ s.op = "WithdrawSeen" /\ k.capital > 0
  \/ s.op = "Unwind" /\ k.pos # 0

LEMMA OwnSent ==
  ASSUME NEW s \in StepType, NEW v, NEW on, NEW off, OwnStep(s, v, on, off)
  PROVE  /\ Slot(s) = idx
         /\ Sends(s) <=> OwnSends(s, Known)
         /\ s.op = "WithdrawSeen" => Sent(s) = [op |-> "WithdrawCollateral", n |-> Known.capital - s.n]
         /\ s.op = "Unwind" => Sent(s) = [op |-> "TradeCpi", n |-> -Known.pos]
         /\ s.op \notin {"WithdrawSeen", "Unwind"} /\ Sends(s) => Sent(s) = [op |-> s.op, n |-> s.n]
BY DEF OwnStep, OwnTests, Slot, Sends, OwnSends, Sent, Instructions

LEMMA OwnLegal ==
  ASSUME Shape, NEW s \in StepType, NEW v, NEW on, NEW off, OwnStep(s, v, on, off), idx \in Slots \ {LP}, Sends(s)
  PROVE  /\ Sent(s).op \in TestOps /\ Sent(s).n \in Int
         /\ Legal(market, Sent(s).op, idx, Sent(s).n)
         /\ Sent(s).op = "CloseAccount" => idx # LP
<1>1. Known \in Account /\ Known.capital \in Int /\ Known.pos \in Int
  BY DEF Known, Shape, Account
<1>2. s.n \in Int
  BY DEF StepType
<1>3. CASE s.op = "WithdrawSeen"
  BY <1>1, <1>2, <1>3, OwnSent DEF TestOps, Legal
<1>4. CASE s.op = "Unwind"
  BY <1>1, <1>2, <1>4, OwnSent DEF TestOps, Legal
<1>5. CASE s.op \notin {"WithdrawSeen", "Unwind"}
  <2>1. Sent(s).op = s.op /\ Sent(s).n = s.n /\ OwnSends(s, Known)
    BY <1>5, OwnSent
  <2>2. s.op \in TestOps
    BY <2>1, <1>5 DEF OwnSends, TestOps
  <2>3. /\ s.op = "PushOraclePrice" => s.n \in Prices
        /\ s.op = "DepositCollateral" => s.n \in Nat
    BY DEF OwnStep
  <2> QED BY <2>1, <2>2, <2>3, <1>2 DEF Legal, TestOps
<1> QED BY <1>3, <1>4, <1>5

(* Executed: the account is as the view behind the step says, or gone.     *)
LEMMA OwnDone ==
  ASSUME Shape, NEW s \in StepType, NEW v, NEW on, NEW off, OwnStep(s, v, on, off), idx \in Slots \ {LP}, Sends(s),
         market.stage = "live", Mine(market, idx), Agrees(v, market.account[idx], Known, market.price),
         NEW r \in Results(s)
  PROVE  Mine(r, idx) => Agrees(on, r.account[idx], Known, r.price)
<1> DEFINE a == market.account[idx]
           p == market.price
           n == Sent(s).n
<1>1. a \in Account /\ p \in Prices /\ Known \in Account /\ a.owner = PAYER /\ Books(market)
  BY DEF Shape, Books, Market, Known, Mine
<1>2. OwnEffect(s, a, Known, p, on, off)
  BY <1>1 DEF OwnStep
<1>3. r \in Outcomes(market, Sent(s).op, idx, n) /\ n \in Int /\ OwnSends(s, Known)
  BY OwnSent, OwnLegal DEF Results
<1> SUFFICES ASSUME Mine(r, idx) PROVE Agrees(on, r.account[idx], Known, r.price)
  OBVIOUS
<1>4. idx \in Used(market) /\ r.account[idx] # NoAccount
  BY <1>1, Wallets DEF Mine, Used, NoAccount
<1>5. CASE s.op = "PushOraclePrice"
  <2>1. Sent(s).op = "PushOraclePrice" /\ n = s.n
    BY <1>5, OwnSent
  <2>2. r.account = market.account /\ r.price = s.n
    BY <2>1, <1>1, <1>3, GeneralIs DEF General, Books
  <2>3. Allows(on, a, Known, s.n)
    BY <1>2, <1>5 DEF OwnEffect
  <2> QED BY <2>2, <2>3 DEF Allows
<1>6. CASE s.op = "KeeperCrank"
  <2> DEFINE u == Settled(a, p)
  <2>1. Sent(s).op = "KeeperCrank"
    BY <1>6, OwnSent
  <2>3. CrankDoes(market, r)
    BY <2>1, <1>1, <1>3, OutKeeperCrank, CrankIs
  <2>4. Allows(on, u, Known, p) /\ (u.pos # 0 /\ u.capital = 0 => Allows(on, [u EXCEPT !.pos = 0], Known, p))
    BY <1>2, <1>6 DEF OwnEffect
  <2>6. MayBecome(u, r.account[idx]) /\ r.price = p
    BY <2>3, <1>4 DEF CrankDoes
  <2> HIDE DEF u
  <2> QED BY <2>4, <2>6, <1>4 DEF Allows, MayBecome
<1>7. CASE s.op = "DepositCollateral"
  <2>1. Sent(s).op = "DepositCollateral" /\ n = s.n
    BY <1>7, OwnSent
  <2>2. r.account[idx] = [a EXCEPT !.capital = @ + s.n] /\ r.price = p
    BY <2>1, <1>1, <1>3, DepositIs DEF Keeps
  <2>3. Allows(on, [a EXCEPT !.capital = @ + s.n], Known, p)
    BY <1>2, <1>7 DEF OwnEffect
  <2> QED BY <2>2, <2>3 DEF Allows
<1>8. CASE s.op \in {"TradeCpi", "Unwind"}
  <2>1. Sent(s).op = "TradeCpi" /\ (n = IF s.op = "Unwind" THEN -Known.pos ELSE s.n)
    BY <1>8, OwnSent
  <2>4. r \in Outcomes(market, "TradeCpi", idx, n) /\ n \in Int
    BY <2>1, <1>3
  <2>2. /\ Accepted(a, p, n) /\ r.account[idx] = Swapped(a, p, n) /\ r.price = p
    <3> HIDE DEF n
    <3>1. /\ Keeps(market, r) /\ Accepted(market.account[idx], market.price, n)
          /\ r.account[idx] = Swapped(market.account[idx], market.price, n)
      BY <2>4, <1>1, TradeIs
    <3> QED BY <3>1 DEF Keeps
  <2>3. Trades(a, Known, p, n, on, off)
    BY <2>1, <1>2, <1>3, <1>8 DEF OwnEffect, OwnSends
  <2> HIDE DEF n
  <2> QED BY <2>2, <2>3 DEF Trades, Allows
<1>9. CASE s.op \in {"WithdrawCollateral", "WithdrawSeen"}
  <2>1. Sent(s).op = "WithdrawCollateral" /\ (n = IF s.op = "WithdrawSeen" THEN Known.capital - s.n ELSE s.n)
    BY <1>9, OwnSent
  <2>2. /\ Payable(a, p, n) /\ r.account[idx] = Paid(a, p, n) /\ r.price = p
    BY <2>1, <1>1, <1>3, WithdrawIs DEF Keeps
  <2>3. Pays(a, Known, p, n, on, off)
    BY <2>1, <1>2, <1>3, <1>9 DEF OwnEffect, OwnSends
  <2> HIDE DEF n
  <2> QED BY <2>2, <2>3 DEF Pays, Allows
<1>10. CASE s.op = "CloseAccount"
  <2>1. Sent(s).op = "CloseAccount"
    BY <1>10, OwnSent
  <2>2. r.account[idx] = NoAccount
    BY <2>1, <1>1, <1>3, CloseIs
  <2> QED BY <2>2, <1>4
<1> QED BY <1>3, <1>5, <1>6, <1>7, <1>8, <1>9, <1>10 DEF OwnSends

(* Refused: only a trade, a withdrawal and a close may be, and the view    *)
(* behind the exception says what is true of the account.                  *)
LEMMA OwnRefused ==
  ASSUME Shape, NEW s \in StepType, NEW v, NEW on, NEW off, OwnStep(s, v, on, off), idx \in Slots \ {LP}, Sends(s),
         market.stage = "live", market.mark, market.account[LP].lp,
         Mine(market, idx), Agrees(v, market.account[idx], Known, market.price), Results(s) = {}
  PROVE  Allows(off, market.account[idx], Known, market.price)
<1> DEFINE a == market.account[idx]
           p == market.price
           n == Sent(s).n
<1>1. a \in Account /\ p \in Prices /\ Known \in Account /\ a.owner = PAYER /\ Books(market)
  BY DEF Shape, Books, Market, Known, Mine
<1>2. OwnEffect(s, a, Known, p, on, off)
  BY <1>1 DEF OwnStep
<1>3. Outcomes(market, Sent(s).op, idx, n) = {} /\ n \in Int /\ OwnSends(s, Known)
  BY OwnSent, OwnLegal DEF Results
<1>5. CASE s.op = "PushOraclePrice"
  <2>1. Sent(s).op = "PushOraclePrice"
    BY <1>5, OwnSent
  <2>2. Outcomes(market, "PushOraclePrice", idx, n) = {[market EXCEPT !.price = n]}
    BY OutPushOraclePrice
  <2> QED BY <2>1, <2>2, <1>3
<1>6. CASE s.op = "KeeperCrank"
  <2>1. Sent(s).op = "KeeperCrank"
    BY <1>6, OwnSent
  <2>2. Cranked(market) # {}
    BY DEF Cranked
  <2> QED BY <2>1, <2>2, <1>3, OutKeeperCrank
<1>7. CASE s.op = "DepositCollateral"
  <2>1. Sent(s).op = "DepositCollateral"
    BY <1>7, OwnSent
  <2> QED BY <2>1, <1>3, OutDepositCollateral
<1>8. CASE s.op \in {"TradeCpi", "Unwind"}
  <2>1. Sent(s).op = "TradeCpi" /\ (n = IF s.op = "Unwind" THEN -Known.pos ELSE s.n)
    BY <1>8, OwnSent
  <2>4. Outcomes(market, "TradeCpi", idx, n) = {} /\ n \in Int
    BY <2>1, <1>3
  <2>2. ~ Accepted(a, p, n)
    <3> HIDE DEF n
    <3> QED BY <2>4, <1>1, TradeMay
  <2>3. Trades(a, Known, p, n, on, off)
    BY <2>1, <1>2, <1>3, <1>8 DEF OwnEffect, OwnSends
  <2> HIDE DEF n
  <2> QED BY <2>2, <2>3 DEF Trades
<1>9. CASE s.op \in {"WithdrawCollateral", "WithdrawSeen"}
  <2>1. Sent(s).op = "WithdrawCollateral" /\ (n = IF s.op = "WithdrawSeen" THEN Known.capital - s.n ELSE s.n)
    BY <1>9, OwnSent
  <2>4. Outcomes(market, "WithdrawCollateral", idx, n) = {}
    BY <2>1, <1>3
  <2>2. ~ Payable(a, p, n)
    <3> HIDE DEF n
    <3> QED BY <2>4, WithdrawMay
  <2>3. Pays(a, Known, p, n, on, off)
    BY <2>1, <1>2, <1>3, <1>9 DEF OwnEffect, OwnSends
  <2> HIDE DEF n
  <2> QED BY <2>2, <2>3 DEF Pays
<1>10. CASE s.op = "CloseAccount"
  <2>1. Sent(s).op = "CloseAccount"
    BY <1>10, OwnSent
  <2>2. ~ (Touched(a, p).pos = 0 /\ Touched(a, p).pnl = "none")
    BY <2>1, <1>3, CloseMay
  <2> QED BY <2>2, <1>2, <1>10 DEF OwnEffect
<1> QED BY <1>3, <1>5, <1>6, <1>7, <1>8, <1>9, <1>10 DEF OwnSends

(* A step of a test that leaves it its account, or what is left of it.     *)
OwnMoves ==
  /\ Shape /\ script \in OnDeployed /\ UNCHANGED <<script, test, idx, opened>>
  /\ market'.mark /\ NoMore(market, market') /\ hurt \subseteq hurt'

LEMMA OwnNext ==
  ASSUME NEW v, FitsOwn(v), OwnMoves, NEW w, w.kind \in {"own", "idle", "dead"},
         test \notin hurt' /\ Mine(market', idx) =>
           w.kind = "own" /\ Agrees(w, market'.account[idx], seen'[idx], market'.price)
  PROVE  Fits(w)'
<1>1. Leftovers' \subseteq Leftovers
  BY FewerLeft DEF OwnMoves, Shape
<1>2. idx \in Slots \ {LP} /\ (test \in hurt \/ \A i \in Leftovers : opened[i] = test => i = idx)
  BY DEF FitsOwn
<1>3. test \in hurt' \/ \A i \in Leftovers' : opened'[i] = test' => i = idx'
  BY <1>1, <1>2 DEF OwnMoves
<1>4. script' \in OnDeployed /\ market'.mark /\ idx' \in Slots \ {LP} /\ idx' = idx /\ test' = test
  BY <1>2 DEF OwnMoves
<1>5. CASE test \notin hurt' /\ Mine(market', idx)
  <2>1. test' \in hurt' \/ (Mine(market', idx') => Agrees(w, market'.account[idx'], seen'[idx'], market'.price))
    BY <1>4, <1>5
  <2> QED BY <1>3, <1>4, <1>5, <2>1, StaysOwn
<1>6. CASE ~ (test \notin hurt' /\ Mine(market', idx))
  <2>1. test' \in hurt' \/ (~ Mine(market', idx') /\ \A i \in Leftovers' : opened'[i] = test' => i = idx')
    BY <1>3, <1>4, <1>6
  <2> QED BY <1>4, <2>1, LeavesOwn
<1> QED BY <1>5, <1>6

(* What makes a step one of the test's account.                            *)
OwnAt(s, v, on, off) ==
  /\ Shape /\ script \in OnDeployed /\ FitsOwn(v) /\ s \in StepType /\ s = Body[pc] /\ OwnStep(s, v, on, off)

LEMMA OwnHolds ==
  ASSUME NEW s, NEW v, NEW on, NEW off, OwnAt(s, v, on, off)
  PROVE  /\ Books(market) /\ market.stage = "live" /\ market.account[LP].lp /\ market.mark
         /\ market \in Market /\ market.account \in [Slots -> Account]
         /\ idx \in Slots \ {LP} /\ idx \in Slots /\ Known \in Account /\ seen \in [Slots -> Account]
         /\ s.op # "InitUser" /\ s.op # "Found" /\ off.kind \in {"own", "idle", "dead"}
         /\ s.op # "Go" => on.kind = "own"
         /\ test \notin hurt /\ Mine(market, idx) =>
              /\ Agrees(v, market.account[idx], Known, market.price)
              /\ OwnEffect(s, market.account[idx], Known, market.price, on, off)
<1>1. /\ Books(market) /\ market.stage = "live" /\ market.account[LP].lp /\ market.mark
      /\ market \in Market /\ market.account \in [Slots -> Account]
      /\ idx \in Slots \ {LP} /\ Known \in Account /\ seen \in [Slots -> Account]
  <2>1. Shape /\ FitsOwn(v) /\ script \in OnDeployed
    BY DEF OwnAt
  <2>2. Books(market) /\ market.stage = "live" /\ market.account[LP].lp /\ seen \in [Slots -> Account]
    BY <2>1 DEF Shape
  <2>3. market.mark /\ idx \in Slots \ {LP}
    BY <2>1 DEF FitsOwn
  <2>4. market \in Market
    BY <2>2 DEF Books
  <2>5. market.account \in [Slots -> Account]
    BY <2>4 DEF Market
  <2>6. Known \in Account
    BY <2>2, <2>3 DEF Known
  <2> QED BY <2>2, <2>3, <2>4, <2>5, <2>6
<1>2. s.op # "InitUser" /\ s.op # "Found" /\ off.kind \in {"own", "idle", "dead"} /\ (s.op # "Go" => on.kind = "own")
  BY DEF OwnAt, OwnStep, OwnTests
<1>3. ASSUME test \notin hurt, Mine(market, idx)
      PROVE  /\ Agrees(v, market.account[idx], Known, market.price)
             /\ OwnEffect(s, market.account[idx], Known, market.price, on, off)
  <2>1. Agrees(v, market.account[idx], Known, market.price)
    BY <1>3 DEF OwnAt, FitsOwn, Known
  <2>2. market.account[idx] \in Account /\ market.account[idx].owner = PAYER /\ market.price \in Prices
    BY <1>1, <1>3 DEF Mine, Market
  <2>3. \A a, k \in Account, p \in Prices : a.owner = PAYER /\ Agrees(v, a, k, p) => OwnEffect(s, a, k, p, on, off)
    BY DEF OwnAt, OwnStep
  <2> QED BY <1>1, <2>1, <2>2, <2>3
<1> QED BY <1>1, <1>2, <1>3

LEMMA OwnExecute ==
  ASSUME NEW s, NEW v, NEW on, NEW off, OwnAt(s, v, on, off), Execute
  PROVE  Advance(s, on, off)
<1>1. /\ Sends(s) /\ market' \in Results(s) /\ Opens(s) /\ pc' = pc + 1
      /\ UNCHANGED <<script, test, idx, seen, todo, status, faults, joins, hurt, said>>
  BY DEF Execute, OwnAt
<1>2. /\ Books(market) /\ market.stage = "live" /\ market.account[LP].lp /\ market.mark
      /\ idx \in Slots \ {LP} /\ idx \in Slots
  BY OwnHolds
<1>3. opened' = opened /\ s.op # "Go" /\ on.kind = "own"
  BY <1>1, OwnHolds DEF Opens, Sends, Instructions
<1>4. /\ Sent(s).op \in TestOps /\ Sent(s).n \in Int /\ Legal(market, Sent(s).op, idx, Sent(s).n)
      /\ Sent(s).op = "CloseAccount" => idx # LP
  <2>1. Shape /\ s \in StepType /\ OwnStep(s, v, on, off) /\ idx \in Slots \ {LP} /\ Sends(s)
    BY <1>1, <1>2 DEF OwnAt
  <2> QED BY <2>1, OwnLegal
<1>5. market' \in Outcomes(market, Sent(s).op, idx, Sent(s).n)
  BY <1>1, OwnSent DEF OwnAt, Results
<1>6. /\ Books(market') /\ market'.stage = "live" /\ market'.account[LP].lp /\ NoMore(market, market')
      /\ market'.mark = market.mark
  BY <1>2, <1>4, <1>5, TestMarket
<1>7. Shape'
  BY <1>1, <1>3, <1>6, ShapeKept DEF OwnAt, Shape, OnDeployed, OnOwnSlab
<1>8. OwnMoves
  BY <1>1, <1>2, <1>3, <1>6 DEF OwnMoves, OwnAt
<1>9. ASSUME test \notin hurt', Mine(market', idx)
      PROVE  Agrees(on, market'.account[idx], seen'[idx], market'.price)
  <2>1. Mine(market, idx) /\ test \notin hurt
    BY <1>1, <1>2, <1>6, <1>9 DEF NoMore
  <2>2. Agrees(v, market.account[idx], Known, market.price)
    BY <2>1, OwnHolds
  <2>3. Agrees(on, market'.account[idx], Known, market'.price)
    BY <1>1, <1>2, <1>9, <2>1, <2>2, OwnDone DEF OwnAt
  <2> QED BY <1>1, <2>3 DEF Known
<1>10. Fits(on)'
  BY <1>3, <1>8, <1>9, OwnNext DEF OwnAt
<1> QED BY <1>1, <1>7, <1>10, Passed

LEMMA OwnRefuse ==
  ASSUME NEW s, NEW v, NEW on, NEW off, OwnAt(s, v, on, off), Refuse
  PROVE  Advance(s, on, off)
<1>1. /\ Sends(s) /\ (Results(s) = {} \/ Withstood(s)) /\ Throw(s)
      /\ UNCHANGED <<script, market, test, idx, seen, todo, world>>
  BY DEF Refuse, OwnAt
<1>2. /\ Books(market) /\ market.stage = "live" /\ market.account[LP].lp /\ market.mark
      /\ idx \in Slots \ {LP} /\ idx \in Slots /\ off.kind \in {"own", "idle", "dead"}
  BY OwnHolds
<1>3. NoMore(market, market')
  BY <1>1 DEF NoMore
<1>4. Shape'
  BY <1>1, <1>3, ShapeKept DEF OwnAt, Shape, OnDeployed, OnOwnSlab, world
<1>5. OwnMoves
  BY <1>1, <1>2, <1>3 DEF OwnMoves, OwnAt, world
<1>6. ASSUME test \notin hurt', Mine(market', idx)
      PROVE  off.kind = "own" /\ Agrees(off, market'.account[idx], seen'[idx], market'.price)
  <2>1. Mine(market, idx) /\ test \notin hurt
    BY <1>1, <1>6 DEF world
  <2>2. Agrees(v, market.account[idx], Known, market.price)
    BY <2>1, OwnHolds
  <2>3. CASE Results(s) = {}
    <3>1. Allows(off, market.account[idx], Known, market.price)
      BY <1>1, <1>2, <2>1, <2>2, <2>3, OwnRefused DEF OwnAt
    <3> QED BY <1>1, <3>1 DEF Known, Allows
  <2>4. CASE Withstood(s)
    <3>1. Borne(s, market.account[idx], Known)
      BY <1>1, <2>4 DEF Withstood, Borne, OwnAt, OnDeployed, Sends, Instructions
    <3>2. Allows(off, market.account[idx], Known, market.price)
      BY <2>1, <3>1, OwnHolds DEF OwnEffect
    <3> QED BY <1>1, <3>2 DEF Known, Allows
  <2> QED BY <1>1, <2>3, <2>4
<1>7. Fits(off)'
  BY <1>2, <1>5, <1>6, OwnNext DEF OwnAt
<1> QED BY <1>1, <1>4, <1>7, Thrown

LEMMA OwnFail ==
  ASSUME NEW s, NEW v, NEW on, NEW off, OwnAt(s, v, on, off), Fail
  PROVE  Advance(s, on, off)
<1>1. /\ (Sends(s) /\ market' \in Results(s)) \/ market' = market
      /\ Throw(s) /\ Opens(s) /\ faults < MaxFaults /\ faults' = faults + 1 /\ hurt' = hurt \cup {test}
      /\ UNCHANGED <<script, test, idx, seen, todo, joins, said>>
  BY DEF Fail, OwnAt
<1>2. /\ Books(market) /\ market.stage = "live" /\ market.account[LP].lp /\ market.mark
      /\ idx \in Slots \ {LP} /\ off.kind \in {"own", "idle", "dead"}
  BY OwnHolds
<1>3. opened' = opened
  BY <1>1, OwnHolds DEF Opens
<1>4. /\ Books(market') /\ market'.stage = "live" /\ market'.account[LP].lp /\ NoMore(market, market')
      /\ market'.mark = market.mark
  <2>1. CASE market' = market
    BY <2>1, <1>2 DEF NoMore
  <2>2. CASE Sends(s) /\ market' \in Results(s)
    <3>1. /\ Sent(s).op \in TestOps /\ Sent(s).n \in Int /\ Legal(market, Sent(s).op, idx, Sent(s).n)
          /\ Sent(s).op = "CloseAccount" => idx # LP
      <4>1. Shape /\ s \in StepType /\ OwnStep(s, v, on, off) /\ idx \in Slots \ {LP} /\ Sends(s)
        BY <2>2, <1>2 DEF OwnAt
      <4> QED BY <4>1, OwnLegal
    <3>2. market' \in Outcomes(market, Sent(s).op, idx, Sent(s).n)
      BY <2>2, OwnSent DEF OwnAt, Results
    <3> QED BY <3>1, <3>2, <1>2, TestMarket
  <2> QED BY <1>1, <2>1, <2>2
<1>5. faults' \in 0 .. MaxFaults /\ hurt \subseteq hurt' /\ hurt' \subseteq Nat
  BY <1>1, LiveAssumption DEF OwnAt, Shape
<1>6. Shape'
  BY <1>1, <1>3, <1>4, <1>5, ShapeKept DEF OwnAt, Shape, OnDeployed, OnOwnSlab
<1>7. OwnMoves
  BY <1>1, <1>2, <1>3, <1>4, <1>5 DEF OwnMoves, OwnAt
<1>8. Fits(off)'
  BY <1>1, <1>2, <1>7, OwnNext DEF OwnAt
<1> QED BY <1>1, <1>6, <1>8, Thrown

(* What a step that leaves the market alone keeps.                         *)
LEMMA MarketKept ==
  ASSUME Shape, UNCHANGED <<script, test, market, opened, faults, joins, hurt>>,
         idx' \in Slots \cup {OWN}, todo' \subseteq Slots, said' \subseteq Slots, seen' \in [Slots -> Account]
  PROVE  Shape' /\ NoMore(market, market')
<1>1. NoMore(market, market')
  BY DEF NoMore
<1> QED BY <1>1, ShapeKept DEF Shape, OnDeployed, OnOwnSlab

LEMMA OwnGetState ==
  ASSUME NEW s, NEW v, NEW on, NEW off, OwnAt(s, v, on, off), GetState
  PROVE  Advance(s, on, off)
<1>1. /\ s.op \in Reads \ {"Found"} /\ seen' = market.account
      /\ IF s.op = "Look" /\ idx \notin Used(market) THEN Throw(s) ELSE pc' = pc + 1 /\ UNCHANGED status
      /\ UNCHANGED <<script, market, test, idx, world>>
  BY DEF GetState, OwnAt
<1>2. s.op \in {"Read", "Look"}
  BY <1>1 DEF OwnAt, OwnStep, OwnTests, Reads
<1>3. todo' = todo
  BY <1>2 DEF GetState, OwnAt
<1>4. /\ Books(market) /\ market.mark /\ market.account \in [Slots -> Account] /\ on.kind = "own"
      /\ idx \in Slots \ {LP} /\ off.kind \in {"own", "idle", "dead"}
  BY <1>2, OwnHolds
<1>5. Shape' /\ NoMore(market, market')
  BY <1>1, <1>3, <1>4, MarketKept DEF OwnAt, Shape, world
<1>6. OwnMoves
  BY <1>1, <1>4, <1>5 DEF OwnMoves, OwnAt, world
<1>7. CASE s.op = "Look" /\ idx \notin Used(market)
  <2>1. ~ Mine(market', idx)
    BY <1>1, <1>4, <1>7, BooksUsed, Wallets DEF Mine
  <2>2. Fits(off)'
    BY <1>4, <1>6, <2>1, OwnNext DEF OwnAt
  <2> QED BY <1>1, <1>5, <1>7, <2>2, Thrown
<1>8. CASE ~ (s.op = "Look" /\ idx \notin Used(market))
  <2>1. ASSUME test \notin hurt', Mine(market', idx)
        PROVE  Agrees(on, market'.account[idx], seen'[idx], market'.price)
    <3>1. Mine(market, idx) /\ test \notin hurt
      BY <1>1, <2>1 DEF world
    <3>2. OwnEffect(s, market.account[idx], Known, market.price, on, off)
      BY <3>1, OwnHolds
    <3>3. Allows(on, market.account[idx], market.account[idx], market.price)
      BY <3>2, <1>2 DEF OwnEffect
    <3> QED BY <3>3, <1>1 DEF Allows
  <2>2. Fits(on)'
    BY <1>4, <1>6, <2>1, OwnNext DEF OwnAt
  <2> QED BY <1>1, <1>5, <1>8, <2>2, Passed
<1> QED BY <1>7, <1>8

LEMMA OwnJump ==
  ASSUME NEW s, NEW v, NEW on, NEW off, OwnAt(s, v, on, off), s.catch # 0, Jump
  PROVE  Advance(s, on, off)
<1>1. /\ s.op \in Tests /\ pc' = (IF Holds(s) THEN pc + s.catch ELSE pc + 1)
      /\ UNCHANGED <<script, market, test, idx, seen, todo, status, world>>
  BY DEF Jump, OwnAt
<1>2. s.op \in OwnTests
  BY <1>1 DEF OwnAt, OwnStep, Tests
<1>3. Holds(s) <=> Jumps(s, Known)
  BY <1>2 DEF Holds, Jumps, OwnTests
<1>4. /\ market.mark /\ idx \in Slots \ {LP} /\ off.kind \in {"own", "idle", "dead"} /\ (s.op # "Go" => on.kind = "own")
  BY OwnHolds
<1>5. Shape' /\ NoMore(market, market')
  BY <1>1, <1>4, MarketKept DEF OwnAt, Shape, world
<1>6. OwnMoves
  BY <1>1, <1>4, <1>5 DEF OwnMoves, OwnAt, world
<1>7. ASSUME test \notin hurt', Mine(market', idx)
      PROVE  IF Jumps(s, Known) THEN Allows(off, market'.account[idx], seen'[idx], market'.price)
             ELSE Allows(on, market'.account[idx], seen'[idx], market'.price)
  <2>1. Mine(market, idx) /\ test \notin hurt
    BY <1>1, <1>7 DEF world
  <2>2. OwnEffect(s, market.account[idx], Known, market.price, on, off)
    BY <2>1, OwnHolds
  <2>3. IF Jumps(s, Known) THEN Allows(off, market.account[idx], Known, market.price)
        ELSE Allows(on, market.account[idx], Known, market.price)
    BY <2>2, <1>2 DEF OwnEffect
  <2> QED BY <2>3, <1>1 DEF Known
<1>8. CASE Jumps(s, Known)
  <2>1. Fits(off)'
    BY <1>4, <1>6, <1>7, <1>8, OwnNext DEF OwnAt, Allows
  <2> QED BY <1>1, <1>3, <1>5, <1>8, <2>1 DEF Advance
<1>9. CASE ~ Jumps(s, Known)
  <2>1. s.op # "Go"
    BY <1>9 DEF Jumps
  <2>2. Fits(on)'
    BY <1>4, <1>6, <1>7, <1>9, <2>1, OwnNext DEF OwnAt, Allows
  <2> QED BY <1>1, <1>3, <1>5, <1>9, <2>2, Passed
<1> QED BY <1>8, <1>9

LEMMA OwnSkip ==
  ASSUME NEW s, NEW v, NEW on, NEW off, OwnAt(s, v, on, off), Skip
  PROVE  Advance(s, on, off)
<1>1. /\ s.op \in {"WithdrawSeen", "Unwind"} /\ ~ Sends(s) /\ pc' = pc + 1
      /\ UNCHANGED <<script, market, test, idx, seen, todo, status, world>>
  BY DEF Skip, OwnAt
<1>2. /\ market.mark /\ idx \in Slots \ {LP} /\ on.kind = "own"
  BY <1>1, OwnHolds
<1>3. ~ OwnSends(s, Known)
  BY <1>1, OwnSent DEF OwnAt
<1>5. Shape' /\ NoMore(market, market')
  BY <1>1, <1>2, MarketKept DEF OwnAt, Shape, world
<1>6. OwnMoves
  BY <1>1, <1>2, <1>5 DEF OwnMoves, OwnAt, world
<1>7. ASSUME test \notin hurt', Mine(market', idx)
      PROVE  Agrees(on, market'.account[idx], seen'[idx], market'.price)
  <2>1. Mine(market, idx) /\ test \notin hurt
    BY <1>1, <1>7 DEF world
  <2>2. OwnEffect(s, market.account[idx], Known, market.price, on, off)
    BY <2>1, OwnHolds
  <2>3. Allows(on, market.account[idx], Known, market.price)
    BY <2>2, <1>1, <1>3 DEF OwnEffect, OwnSends
  <2> QED BY <2>3, <1>1 DEF Known, Allows
<1>8. Fits(on)'
  BY <1>2, <1>6, <1>7, OwnNext DEF OwnAt
<1> QED BY <1>1, <1>5, <1>8, Passed

(* A wait, and the slots that pass: a gain may have warmed up.             *)
LEMMA RipenedIs ==
  ASSUME NEW m, Books(m), NEW S
  PROVE  /\ Books(Ripened(m, S)) /\ NoMore(m, Ripened(m, S))
         /\ Ripened(m, S).stage = m.stage /\ Ripened(m, S).mark = m.mark /\ Ripened(m, S).price = m.price
         /\ Ripened(m, S).fund = m.fund /\ Ripened(m, S).free = m.free
         /\ \A k \in Slots : Ripened(m, S).account[k] = IF k \in S THEN Warm(m.account[k]) ELSE m.account[k]
         /\ \A k \in Slots : LET a == Ripened(m, S).account[k]
                             IN  /\ a.owner = m.account[k].owner /\ a.lp = m.account[k].lp /\ a.pos = m.account[k].pos
                                 /\ a.capital = m.account[k].capital /\ a.at = m.account[k].at
                                 /\ m.account[k].pnl # "warming" => a = m.account[k]
<1>1. m \in Market /\ m.account \in [Slots -> Account]
  BY DEF Books, Market
<1> DEFINE acc == [i \in Slots |-> IF i \in S /\ m.account[i].pnl = "warming" THEN [m.account[i] EXCEPT !.pnl = "ripe"]
                                   ELSE m.account[i]]
           r == Ripened(m, S)
<1>2. r = [m EXCEPT !.account = acc]
  BY <1>1 DEF Ripened
<1>3. r.account = acc /\ r.stage = m.stage /\ r.mark = m.mark /\ r.price = m.price /\ r.fund = m.fund /\ r.free = m.free
  <2> HIDE DEF acc
  <2> QED BY <1>1, <1>2 DEF Market
<1>4. \A k \in Slots : acc[k] = IF k \in S THEN Warm(m.account[k]) ELSE m.account[k]
  BY DEF Warm
<1>5. \A k \in Slots : /\ Warm(m.account[k]).owner = m.account[k].owner /\ Warm(m.account[k]).lp = m.account[k].lp
                       /\ Warm(m.account[k]).pos = m.account[k].pos /\ Warm(m.account[k]).at = m.account[k].at
                       /\ Warm(m.account[k]).capital = m.account[k].capital
                       /\ m.account[k].pnl # "warming" => Warm(m.account[k]) = m.account[k]
  BY <1>1 DEF Warm, Account
<1>6. Books(r)
  BY RipenedBooks
<1> HIDE DEF r, acc
<1>7. \A k \in Slots : r.account[k] = IF k \in S THEN Warm(m.account[k]) ELSE m.account[k]
  BY <1>3, <1>4
<1>8. NoMore(m, r)
  BY <1>5, <1>7 DEF NoMore, Mine
<1> QED BY <1>3, <1>5, <1>6, <1>7, <1>8 DEF r

LEMMA OwnWait ==
  ASSUME NEW s, NEW v, NEW on, NEW off, OwnAt(s, v, on, off), WaitForWarmup
  PROVE  Advance(s, on, off)
<1>1. /\ s.op = "Wait" /\ market' = Ripened(market, Slots) /\ pc' = pc + 1
      /\ UNCHANGED <<script, test, idx, seen, todo, status, world>>
  BY DEF WaitForWarmup, OwnAt
<1>2. Books(market) /\ market.mark /\ market.stage = "live" /\ market.account[LP].lp /\ idx \in Slots \ {LP} /\ on.kind = "own"
  BY <1>1, OwnHolds
<1>3. /\ Books(market') /\ NoMore(market, market') /\ market'.stage = "live" /\ market'.mark
      /\ market'.price = market.price /\ market'.account[idx] = Warm(market.account[idx])
      /\ market'.account[idx].owner = market.account[idx].owner /\ market'.account[LP].lp
  BY <1>1, <1>2, RipenedIs, Natural
<1>4. Shape'
  BY <1>1, <1>2, <1>3, ShapeKept DEF OwnAt, Shape, OnDeployed, OnOwnSlab, world
<1>5. OwnMoves
  BY <1>1, <1>2, <1>3, <1>4 DEF OwnMoves, OwnAt, world
<1>6. ASSUME test \notin hurt', Mine(market', idx)
      PROVE  Agrees(on, market'.account[idx], seen'[idx], market'.price)
  <2>1. Mine(market, idx) /\ test \notin hurt
    BY <1>1, <1>3, <1>6 DEF world, Mine
  <2>2. OwnEffect(s, market.account[idx], Known, market.price, on, off)
    BY <2>1, OwnHolds
  <2>3. Allows(on, Warm(market.account[idx]), Known, market.price)
    BY <2>2, <1>1 DEF OwnEffect
  <2> QED BY <2>3, <1>1, <1>3 DEF Known, Allows
<1>7. Fits(on)'
  BY <1>2, <1>5, <1>6, OwnNext DEF OwnAt
<1> QED BY <1>1, <1>4, <1>7, Passed

(* The steps of a script.                                                  *)
Move ==
  Execute \/ Refuse \/ Fail \/ GetState \/ Find \/ Jump \/ Skip \/ Take \/ Say \/ WaitForWarmup

(* What makes a step sound where it is.                                    *)
At(s, v) == Shape /\ s \in StepType /\ s = Body[pc] /\ Fits(v)

LEMMA OwnMove ==
  ASSUME NEW s, NEW v, NEW on, NEW off, At(s, v), v.kind = "own", OwnStep(s, v, on, off),
         s.op \in Tests \cup {"Take"} => s.catch # 0, Move
  PROVE  Advance(s, on, off)
<1>1. OwnAt(s, v, on, off)
  BY DEF At, OwnAt, Fits, TestKinds
<1>2. s.op \notin {"Found", "Each", "Take", "Pick", "Say"}
  BY DEF OwnStep, OwnTests
<1>3. ~ Find /\ ~ Take /\ ~ Say
  BY <1>2 DEF At, Find, Take, Say
<1>4. CASE Jump
  <2>1. s.catch # 0
    BY <1>4 DEF Jump, At
  <2> QED BY <1>1, <1>4, <2>1, OwnJump
<1> QED BY <1>1, <1>3, <1>4, OwnExecute, OwnRefuse, OwnFail, OwnGetState, OwnSkip, OwnWait DEF Move

-----------------------------------------------------------------------------
(***************************************************************************)
(* What happens around a script: slots pass, and other wallets join.       *)
(***************************************************************************)
Guest(price) ==
  [[owner |-> STRANGER, lp |-> FALSE, capital |-> 0, pos |-> 0, at |-> price, pnl |-> "none"] EXCEPT !.capital = 1]

Joined(m, r, h) ==
  /\ h \in Slots /\ m.account[h] = NoAccount /\ m.stage = "live" /\ Keeps(m, r)
  /\ \A k \in Slots : r.account[k] = IF k = h THEN Guest(m.price) ELSE m.account[k]

LEMMA JoinIs ==
  ASSUME Books(market), Join
  PROVE  /\ Books(market') /\ \E h \in Slots : Joined(market, market', h)
         /\ joins' = joins + 1 /\ joins < MaxJoins
         /\ UNCHANGED <<script, where, idx, seen, todo, status, faults, opened, hurt, said>>
<1>1. /\ market.stage = "live" /\ market.free # <<>> /\ joins < MaxJoins
      /\ market' = [Opened(market, STRANGER, FALSE) EXCEPT !.account[Head(market.free)].capital = 1]
      /\ joins' = joins + 1
      /\ UNCHANGED <<script, where, idx, seen, todo, status, faults, opened, hurt, said>>
  BY DEF Join
<1> DEFINE h == Head(market.free)
           o == Opened(market, STRANGER, FALSE)
           a == [owner |-> STRANGER, lp |-> FALSE, capital |-> 0, pos |-> 0, at |-> market.price, pnl |-> "none"]
           g == Guest(market.price)
           acc == [o.account EXCEPT ![h] = g]
<1>2. STRANGER \in {PAYER, STRANGER}
  OBVIOUS
<1>3. /\ h \in Slots /\ market.account[h] = NoAccount /\ Books(o)
      /\ o.account = [market.account EXCEPT ![h] = a]
      /\ o.stage = market.stage /\ o.mark = market.mark /\ o.price = market.price /\ o.fund = market.fund
  BY <1>1, <1>2, OpenedBooks, Zenon
<1> HIDE DEF h, o
<1>4. market' = [o EXCEPT !.account = [o.account EXCEPT ![h] = [o.account[h] EXCEPT !.capital = 1]]]
  BY <1>1 DEF h, o
<1>5. o \in Market /\ o.account \in [Slots -> Account] /\ market.account \in [Slots -> Account] /\ market.price \in Prices
  BY <1>3 DEF Books, Market
<1>6. o.account[h] = a /\ g = [a EXCEPT !.capital = 1]
  <2>1. o.account[h] = a
    <3> HIDE DEF a
    <3> QED BY <1>3, <1>5
  <2>2. g = [a EXCEPT !.capital = 1]
    BY DEF Guest
  <2> HIDE DEF a, g
  <2> QED BY <2>1, <2>2
<1>7. market' = [o EXCEPT !.account = acc]
  BY <1>4, <1>6
<1>8. g \in Account
  <2>1. a \in Account
    BY <1>5 DEF Account
  <2> HIDE DEF a, g
  <2> QED BY <2>1, <1>6 DEF Account
<1>9. acc \in [Slots -> Account] /\ \A k \in Slots : acc[k] = IF k = h THEN g ELSE o.account[k]
  BY <1>5, <1>8
<1>10. acc[h].pos = o.account[h].pos /\ acc[h].owner = o.account[h].owner /\ acc[h].lp = o.account[h].lp /\ acc[h].owner # "none"
  <2>1. acc[h] = g /\ o.account[h] = a
    <3> HIDE DEF a, g, acc
    <3> QED BY <1>3, <1>6, <1>9
  <2>2. g.pos = a.pos /\ g.owner = a.owner /\ g.lp = a.lp /\ g.owner # "none"
    BY Wallets DEF Guest
  <2> HIDE DEF a, g, acc
  <2> QED BY <2>1, <2>2
<1>11. \A k \in Slots : acc[k].pos = o.account[k].pos /\ acc[k].owner = o.account[k].owner /\ acc[k].lp = o.account[k].lp
                        /\ (acc[k].owner = "none" => acc[k] = NoAccount)
  BY <1>3, <1>9, <1>10 DEF Books, Owned
<1> HIDE DEF acc, g, a
<1>12. OpenInterest(acc) = OpenInterest(o.account)
  <2>1. Positions(o.account)
    BY <1>5 DEF Positions, Account
  <2> QED BY <2>1, <1>11, SumSame
<1>13. Books(market')
  <2>1. o.stage = "live" => OpenInterest(acc) = 0
    BY <1>3, <1>12 DEF Books
  <2>2. o.stage = "live" /\ ~ o.account[LP].lp => \A i \in Slots : acc[i].pos = 0
    BY <1>3, <1>11 DEF Books, Backed
  <2>3. Books([o EXCEPT !.account = acc])
    BY <1>3, <1>9, <1>11, <2>1, <2>2, Recast
  <2> QED BY <2>3, <1>7
<1>14. Keeps(o, market') /\ market'.account = acc
  BY <1>5, <1>7, OutcomeKeeps
<1>15. \A k \in Slots : market'.account[k] = IF k = h THEN g ELSE market.account[k]
  BY <1>3, <1>5, <1>9, <1>14
<1>16. Joined(market, market', h)
  BY <1>1, <1>3, <1>14, <1>15 DEF Joined, Keeps, g
<1> QED BY <1>1, <1>3, <1>13, <1>16

(* The accounts of the wallet stay what they are, but for a gain that has  *)
(* warmed up.                                                              *)
Drifts ==
  /\ UNCHANGED <<script, test, pc, idx, seen, todo, status, opened, hurt>>
  /\ Keeps(market, market')
  /\ \A k \in Slots : market'.account[k].pos = market.account[k].pos /\ (Mine(market', k) <=> Mine(market, k))
  /\ \A k \in Slots : Mine(market, k) =>
       /\ market'.account[k].lp = market.account[k].lp /\ market'.account[k].capital = market.account[k].capital
       /\ market'.account[k].at = market.account[k].at
       /\ market.account[k].pnl # "warming" => market'.account[k] = market.account[k]
  /\ Used(market) \subseteq Used(market')
  /\ Still(market) => Still(market')
  /\ Quiet' => Quiet /\ Used(market') \subseteq Used(market)

LEMMA JoinDrifts ==
  ASSUME Shape, Join
  PROVE  Drifts /\ Shape'
<1>1. Books(market)
  BY DEF Shape
<1>2. /\ Books(market') /\ \E h \in Slots : Joined(market, market', h)
      /\ joins' = joins + 1 /\ joins < MaxJoins
      /\ UNCHANGED <<script, where, idx, seen, todo, status, faults, opened, hurt, said>>
  BY <1>1, JoinIs
<1>3. PICK h \in Slots : Joined(market, market', h)
  BY <1>2
<1>4. joins' \in 0 .. MaxJoins /\ joins' # 0
  BY <1>2, LiveAssumption DEF Shape
<1>5. Keeps(market, market') /\ market.account[h] = NoAccount
      /\ \A k \in Slots : market'.account[k] = IF k = h THEN Guest(market.price) ELSE market.account[k]
  BY <1>3 DEF Joined
<1>6. /\ Guest(market.price).owner = STRANGER /\ Guest(market.price).lp = FALSE /\ Guest(market.price).pos = 0
      /\ Guest(market.price).at = market.price /\ Guest(market.price).pnl = "none"
  BY DEF Guest
<1>7. NoAccount.owner = "none" /\ NoAccount.pos = 0 /\ NoAccount.lp = FALSE
  BY DEF NoAccount
<1>8. \A k \in Slots : /\ market'.account[k].pos = market.account[k].pos /\ (Mine(market', k) <=> Mine(market, k))
                       /\ market'.account[k].lp = market.account[k].lp
                       /\ Mine(market, k) => market'.account[k] = market.account[k]
  <2>1. market'.account[h] = Guest(market.price) /\ \A k \in Slots \ {h} : market'.account[k] = market.account[k]
    BY <1>5
  <2>2. /\ market'.account[h].pos = market.account[h].pos /\ market'.account[h].lp = market.account[h].lp
        /\ ~ Mine(market', h) /\ ~ Mine(market, h)
    BY <2>1, <1>5, <1>6, <1>7, Wallets DEF Mine
  <2>3. ASSUME NEW k \in Slots \ {h}
        PROVE  /\ market'.account[k].pos = market.account[k].pos /\ (Mine(market', k) <=> Mine(market, k))
               /\ market'.account[k].lp = market.account[k].lp
               /\ Mine(market, k) => market'.account[k] = market.account[k]
    BY <2>1 DEF Mine
  <2> QED BY <2>2, <2>3
<1>9. Used(market) \subseteq Used(market')
  BY <1>5 DEF Used
<1>10. Still(market) => Still(market')
  BY <1>5, <1>6 DEF Still, Keeps
<1>11. Drifts
  BY <1>2, <1>4, <1>5, <1>8, <1>9, <1>10 DEF Drifts, Quiet, where
<1>12. script \in OnDeployed => Past'
  <2>1. NoMore(market, market')
    BY <1>8 DEF NoMore
  <2>2. Leftovers' \subseteq Leftovers
    BY <1>1, <2>1, FewerLeft
  <2> QED BY <2>2, <1>2 DEF Past, Shape, where
<1>13. Shape'
  BY <1>2, <1>4, <1>5, <1>8, <1>12, Natural DEF Shape, where, Keeps, Drilled
<1> QED BY <1>11, <1>13

LEMMA MatureDrifts ==
  ASSUME Shape, NEW i \in Slots, Mature(i)
  PROVE  Drifts /\ Shape'
<1>1. Books(market)
  BY DEF Shape
<1>2. /\ market' = Ripened(market, {i})
      /\ UNCHANGED <<script, where, idx, seen, todo, status, world>>
  BY DEF Mature
<1>3. /\ Books(market') /\ NoMore(market, market') /\ Keeps(market, market')
      /\ \A k \in Slots : LET a == market'.account[k]
                          IN  /\ a.owner = market.account[k].owner /\ a.lp = market.account[k].lp
                              /\ a.pos = market.account[k].pos /\ a.capital = market.account[k].capital
                              /\ a.at = market.account[k].at
                              /\ market.account[k].pnl # "warming" => a = market.account[k]
  BY <1>1, <1>2, RipenedIs DEF Keeps
<1>4. Used(market') = Used(market)
  BY <1>1, <1>3, BooksUsed DEF Used
<1>5. Drifts
  BY <1>2, <1>3, <1>4 DEF Drifts, Quiet, where, world, Still, Keeps, Mine
<1>6. Shape'
  BY <1>1, <1>2, <1>3, Natural, ShapeKept DEF Shape, where, world, Keeps, Drilled
<1> QED BY <1>5, <1>6

LEMMA DriftsLeft ==
  ASSUME Shape, Shape', Drifts
  PROVE  /\ Leftovers' = Leftovers /\ (Clean => Clean')
         /\ \A i \in Leftovers : i \in Slots /\ Mine(market, i)
<1>1. \A i \in Slots : i \in Leftovers <=> Mine(market, i) /\ ~ market.account[i].lp
  BY BooksUsed, Wallets DEF Leftovers, Mine, Shape
<1>2. \A i \in Slots : i \in Leftovers' <=> Mine(market', i) /\ ~ market'.account[i].lp
  <2>1. Books(market')
    BY DEF Shape
  <2> QED BY <2>1, BooksUsed, Wallets DEF Leftovers, Mine, Used
<1>3. Leftovers \subseteq Slots /\ Leftovers' \subseteq Slots
  BY DEF Leftovers, Used
<1>4. Leftovers' = Leftovers
  BY <1>1, <1>2, <1>3 DEF Drifts
<1> QED BY <1>1, <1>3, <1>4 DEF Drifts, Clean

LEMMA DriftsFits ==
  ASSUME Shape, Shape', Drifts, NEW v, Fits(v)
  PROVE  Fits(v)'
<1>1. /\ Leftovers' = Leftovers /\ (Clean => Clean')
      /\ \A i \in Leftovers : i \in Slots /\ Mine(market, i)
  BY DriftsLeft
<1>2. /\ UNCHANGED <<script, test, idx, seen, todo, opened, hurt>>
      /\ market'.mark = market.mark /\ market'.price = market.price /\ market'.stage = market.stage
      /\ market'.fund = market.fund
  BY DEF Drifts, Keeps
<1>3. CASE v.kind = "idle"
  BY <1>1, <1>2, <1>3 DEF Fits, FitsIdle, TestKinds, DrillKinds
<1>4. CASE v.kind = "asked"
  <2>1. FitsAsked
    BY <1>4 DEF Fits
  <2>2. \A k \in Slots : Mine(market', k) <=> Mine(market, k)
    BY DEF Drifts
  <2>3. \A k \in Slots : k \notin Used(market') => k \notin Used(market)
    BY DEF Drifts
  <2>4. FitsAsked'
    BY <1>1, <1>2, <2>1, <2>2, <2>3 DEF FitsAsked
  <2> QED BY <1>2, <1>4, <2>4 DEF Fits, TestKinds, DrillKinds
<1>5. CASE v.kind = "fresh"
  <2>1. FitsFresh
    BY <1>5 DEF Fits
  <2>2. PICK i \in Slots \ {LP} :
          /\ NewAccount(market.account[i]) /\ seen[i] = NoAccount
          /\ \A k \in Slots \ {i} : Mine(market, k) =>
               seen[k] # NoAccount /\ (test \in hurt \/ market.account[k].lp \/ opened[k] # test)
    BY <2>1 DEF FitsFresh
  <2>3. Mine(market, i) /\ market'.account[i] = market.account[i]
    BY <2>2 DEF Drifts, NewAccount, Mine
  <2>4. \A k \in Slots : Mine(market', k) => Mine(market, k) /\ market'.account[k].lp = market.account[k].lp
    BY DEF Drifts
  <2>5. FitsFresh'
    BY <1>2, <2>1, <2>2, <2>3, <2>4 DEF FitsFresh
  <2> QED BY <1>2, <1>5, <2>5 DEF Fits, TestKinds, DrillKinds
<1>6. CASE v.kind = "own"
  <2>1. FitsOwn(v)
    BY <1>6 DEF Fits
  <2>2. ASSUME test \notin hurt, Mine(market', idx)
        PROVE  Agrees(v, market'.account[idx], seen'[idx], market'.price)
    <3>1. idx \in Slots /\ Mine(market, idx)
      BY <2>1, <2>2 DEF FitsOwn, Drifts
    <3>2. Agrees(v, market.account[idx], seen[idx], market.price)
      BY <2>1, <2>2, <3>1 DEF FitsOwn
    <3>3. /\ market'.account[idx].capital = market.account[idx].capital
          /\ market'.account[idx].at = market.account[idx].at
          /\ market'.account[idx].pos = market.account[idx].pos
          /\ market.account[idx].pnl # "warming" => market'.account[idx] = market.account[idx]
      BY <3>1 DEF Drifts
    <3>4. v.ready => market'.account[idx].pnl # "warming"
      BY <3>2, <3>3 DEF Agrees
    <3> QED BY <1>2, <3>2, <3>3, <3>4 DEF Agrees
  <2>3. FitsOwn(v)'
    BY <1>1, <1>2, <2>1, <2>2 DEF FitsOwn
  <2> QED BY <1>2, <1>6, <2>3 DEF Fits, TestKinds, DrillKinds
<1>7. CASE v.kind = "sweep"
  <2>1. FitsSweep(v)
    BY <1>7 DEF Fits
  <2>2. \A i \in Leftovers : /\ market'.account[i].pos = market.account[i].pos
                             /\ market'.account[i].capital = market.account[i].capital
                             /\ market.account[i].pnl = "none" => market'.account[i] = market.account[i]
    BY <1>1 DEF Drifts
  <2>3. AllLeft => AllLeft'
    BY <1>1, <1>2, <2>2 DEF AllLeft, Left
  <2>4. AllOpen => AllOpen'
    BY <1>1, <2>2 DEF AllOpen
  <2>5. Listed(todo) => Listed(todo)'
    BY <1>1, <1>2, <2>2 DEF Listed
  <2>6. Listed(todo \cup {idx}) => Listed(todo \cup {idx})'
    BY <1>1, <1>2, <2>2 DEF Listed
  <2>7. Emptied(todo) => Emptied(todo)'
    BY <1>1, <1>2, <2>2 DEF Emptied
  <2>8. FitsSweep(v)'
    BY <1>1, <1>2, <2>1, <2>3, <2>4, <2>5, <2>6, <2>7 DEF FitsSweep
  <2> QED BY <1>2, <1>7, <2>8 DEF Fits, TestKinds, DrillKinds
<1>8. CASE v.kind = "drill"
  <2>1. FitsDrill(v)
    BY <1>8 DEF Fits
  <2>2. \A k \in Slots : market'.account[k].pos = market.account[k].pos
    BY DEF Drifts
  <2>3. Quiet' => Quiet /\ Used(market') = Used(market)
    BY DEF Drifts
  <2>4. FitsDrill(v)'
    BY <1>2, <2>1, <2>2, <2>3 DEF FitsDrill
  <2> QED BY <1>2, <1>8, <2>4 DEF Fits, TestKinds, DrillKinds
<1>9. CASE v.kind = "calm"
  <2>1. FitsCalm(v)
    BY <1>9 DEF Fits
  <2>2. Still(market') /\ \A k \in Slots : market'.account[k].pos = market.account[k].pos
    BY <2>1 DEF Drifts, FitsCalm
  <2>3. Even(market) => Even(market')
    BY <2>2 DEF Even
  <2>4. market.account[LP].lp => market'.account[LP].lp
    <3>1. market.account[LP].lp => Mine(market, LP)
      BY Natural DEF Shape, Books, Owned, Mine
    <3> QED BY <3>1, Natural DEF Drifts
  <2>5. One(market) => One(market')
    <3>1. ASSUME Mine(market, 1) PROVE 1 \in Slots /\ Mine(market', 1) /\ market'.account[1].capital = market.account[1].capital
      <4>1. 1 \in Slots
        BY Natural DEF Slots
      <4> QED BY <4>1, <3>1 DEF Drifts
    <3> QED BY <1>2, <2>2, <2>4, <3>1, Natural DEF One
  <2>6. FitsCalm(v)'
    BY <1>2, <2>1, <2>2, <2>3, <2>4, <2>5 DEF FitsCalm
  <2> QED BY <1>2, <1>9, <2>6 DEF Fits, TestKinds, DrillKinds
<1>10. CASE v.kind = "dead"
  BY <1>1, <1>2, <1>10 DEF Fits, TestKinds, DrillKinds
<1> QED BY <1>3, <1>4, <1>5, <1>6, <1>7, <1>8, <1>9, <1>10 DEF Fits, TestKinds, DrillKinds

(* The next slot of a list.                                                *)
LEMMA MinOf ==
  ASSUME NEW T, T \subseteq Slots, T # {}
  PROVE  Min(T) \in T
<1>1. T \subseteq Nat
  BY Natural DEF Slots
<1>2. PICK m \in T : \A k \in T : m <= k
  BY <1>1, LeastOf
<1> QED BY <1>2 DEF Min

-----------------------------------------------------------------------------
(***************************************************************************)
(* A test without an account.                                              *)
(***************************************************************************)
(* What a step of a test that opens no account never does to the market.   *)
TestKeeps ==
  /\ Shape' /\ UNCHANGED <<script, test, opened>> /\ hurt \subseteq hurt'
  /\ NoMore(market, market') /\ market'.mark = market.mark

(* What the step sends, if anything, is an instruction of the tests.       *)
TestSends(s) ==
  Sends(s) => /\ Sent(s).op \in TestOps /\ Sent(s).n \in Int /\ Legal(market, Sent(s).op, Slot(s), Sent(s).n)
              /\ Sent(s).op = "CloseAccount" => Slot(s) # LP

LEMMA TestKept ==
  ASSUME Shape, script \in OnDeployed, UNCHANGED <<script, test, opened>>,
         Books(market'), market'.stage = "live", market'.account[LP].lp, market'.mark = market.mark,
         NoMore(market, market'), hurt \subseteq hurt', hurt' \subseteq Nat, faults' \in 0 .. MaxFaults, joins' = joins,
         idx' \in Slots \cup {OWN}, todo' \subseteq Slots, said' \subseteq Slots, seen' \in [Slots -> Account]
  PROVE  TestKeeps
BY ShapeKept DEF TestKeeps, OnDeployed, OnOwnSlab

LEMMA TestExecutes ==
  ASSUME Shape, script \in OnDeployed, NEW s, s = Body[pc], s.op # "InitUser", TestSends(s), Sends(s), market' \in Results(s)
  PROVE  /\ Books(market') /\ market'.stage = "live" /\ market'.account[LP].lp /\ NoMore(market, market')
         /\ market'.mark = market.mark
         /\ Sent(s).op \in {"SetOracleAuthority", "PushOraclePrice"} => market.mark
         /\ Sent(s).op # "PushOraclePrice" => market'.price = market.price
<1>1. Books(market) /\ market.stage = "live" /\ market.account[LP].lp
  BY DEF Shape
<1>2. /\ Sent(s).op \in TestOps /\ Sent(s).n \in Int /\ Legal(market, Sent(s).op, Slot(s), Sent(s).n)
      /\ Sent(s).op = "CloseAccount" => Slot(s) # LP
  BY DEF TestSends
<1>3. market' \in Outcomes(market, Sent(s).op, Slot(s), Sent(s).n)
  BY DEF Results
<1> QED BY <1>1, <1>2, <1>3, TestMarket

LEMMA TestMoves ==
  ASSUME Shape, script \in OnDeployed, NEW s, s = Body[pc],
         s.op \notin {"InitUser", "Found", "Pick", "Say"}, TestSends(s), Move
  PROVE  TestKeeps
<1>1. /\ Books(market) /\ market.stage = "live" /\ market.account[LP].lp /\ seen \in [Slots -> Account]
      /\ idx \in Slots \cup {OWN} /\ todo \subseteq Slots /\ said \subseteq Slots /\ hurt \subseteq Nat
      /\ faults \in 0 .. MaxFaults /\ market.account \in [Slots -> Account] /\ test \in Nat
      /\ NoMore(market, market)
  BY DEF Shape, Books, Market, NoMore
<1>2. CASE Execute
  <2>1. /\ Sends(s) /\ market' \in Results(s) /\ Opens(s)
        /\ UNCHANGED <<script, test, idx, seen, todo, status, faults, joins, hurt, said>>
    BY <1>2 DEF Execute
  <2>2. opened' = opened
    BY <2>1 DEF Opens
  <2> QED BY <2>1, <2>2, <1>1, TestExecutes, TestKept
<1>3. CASE Refuse
  <2>1. UNCHANGED <<script, market, test, idx, seen, todo, faults, joins, opened, hurt, said>>
    BY <1>3 DEF Refuse, world
  <2> QED BY <2>1, <1>1, TestKept
<1>4. CASE Fail
  <2>1. /\ (Sends(s) /\ market' \in Results(s)) \/ market' = market
        /\ Opens(s) /\ faults < MaxFaults /\ faults' = faults + 1 /\ hurt' = hurt \cup {test}
        /\ UNCHANGED <<script, test, idx, seen, todo, joins, said>>
    BY <1>4 DEF Fail
  <2>2. opened' = opened
    BY <2>1 DEF Opens
  <2>3. faults' \in 0 .. MaxFaults /\ hurt \subseteq hurt' /\ hurt' \subseteq Nat
    BY <2>1, <1>1, LiveAssumption
  <2>4. CASE market' = market
    BY <2>1, <2>2, <2>3, <2>4, <1>1, TestKept
  <2>5. CASE Sends(s) /\ market' \in Results(s)
    BY <2>1, <2>2, <2>3, <2>5, <1>1, TestExecutes, TestKept
  <2> QED BY <2>1, <2>4, <2>5
<1>5. CASE GetState
  <2>1. /\ seen' = market.account
        /\ todo' = CASE s.op = "ReadUsed" -> Used(market)
                     [] s.op = "ReadFlat" -> {i \in Used(market) : market.account[i].pos = 0 /\ ~market.account[i].lp}
                     [] OTHER -> todo
        /\ UNCHANGED <<script, market, test, idx, faults, joins, opened, hurt, said>>
    BY <1>5 DEF GetState, world
  <2>2. todo' \subseteq Slots
    BY <2>1, <1>1 DEF Used
  <2> QED BY <2>1, <2>2, <1>1, TestKept
<1>6. CASE Jump \/ Skip
  <2>1. UNCHANGED <<script, market, test, idx, seen, todo, faults, joins, opened, hurt, said>>
    BY <1>6 DEF Jump, Skip, world
  <2> QED BY <2>1, <1>1, TestKept
<1>7. CASE Take
  <2>1. UNCHANGED <<script, market, test, seen, faults, joins, opened, hurt, said>>
    BY <1>7 DEF Take, world
  <2>2. idx' \in Slots \cup {OWN} /\ todo' \subseteq Slots
    <3>1. todo # {} => Min(todo) \in todo
      BY <1>1, MinOf
    <3>2. Users \subseteq Slots
      BY Natural DEF Users, Slots
    <3> QED BY <3>1, <3>2, <1>1, <1>7 DEF Take
  <2> QED BY <2>1, <2>2, <1>1, TestKept
<1>8. CASE WaitForWarmup
  <2>1. /\ market' = Ripened(market, Slots)
        /\ UNCHANGED <<script, test, idx, seen, todo, faults, joins, opened, hurt, said>>
    BY <1>8 DEF WaitForWarmup, world
  <2>2. /\ Books(market') /\ NoMore(market, market') /\ market'.stage = "live" /\ market'.mark = market.mark
        /\ market'.account[LP].lp
    BY <2>1, <1>1, RipenedIs, Natural
  <2> QED BY <2>1, <2>2, <1>1, TestKept
<1>9. ~ Find /\ ~ Say
  BY DEF Find, Say
<1> QED BY <1>2, <1>3, <1>4, <1>5, <1>6, <1>7, <1>8, <1>9 DEF Move

LEMMA CleanKept ==
  ASSUME Shape, TestKeeps
  PROVE  /\ Leftovers' \subseteq Leftovers /\ (Clean => Clean')
<1>1. Leftovers' \subseteq Leftovers
  BY FewerLeft DEF TestKeeps, Shape
<1> QED BY <1>1 DEF Clean, TestKeeps

LEMMA IdleNext ==
  ASSUME script' \in OnDeployed, Clean', NEW w, w.kind \in {"idle", "dead"}, w.kind = "idle" /\ w.mark => market'.mark
  PROVE  Fits(w)'
BY DEF Fits, FitsIdle, TestKinds, DrillKinds

LEMMA IdleMove ==
  ASSUME NEW s, NEW v, NEW on, NEW off, At(s, v), v.kind = "idle", IdleStep(s, v, on, off),
         s.op \in Tests \cup {"Take"} => s.catch # 0, Move
  PROVE  Advance(s, on, off)
<1>1. Shape /\ s \in StepType /\ s = Body[pc] /\ script \in OnDeployed /\ Clean /\ (v.mark => market.mark)
  BY DEF At, Fits, FitsIdle, TestKinds
<1>2. /\ s.op \in {"PushOraclePrice", "KeeperCrank", "SetOracleAuthority", "TopUpInsurance", "DepositCollateral",
                   "Read", "LpFunded", "NoLp", "Go"}
      /\ s.op = "PushOraclePrice" => s.n \in Prices
      /\ s.op = "DepositCollateral" => s.slot = LP /\ s.n \in Nat
      /\ off.kind \in {"idle", "dead"} /\ (off.kind = "idle" /\ off.mark => v.mark)
      /\ s.op # "Go" =>
           \/ on.kind = "idle" /\ (on.mark => v.mark \/ s.op \in {"PushOraclePrice", "SetOracleAuthority"})
           \/ on.kind = "asked" /\ v.mark /\ s.op = "Read"
  BY DEF IdleStep
<1>3. /\ Sends(s) => s.op \in TestOps /\ Sent(s) = [op |-> s.op, n |-> s.n]
      /\ s.op = "DepositCollateral" => Slot(s) = LP
  BY <1>2 DEF Sends, Sent, Instructions, TestOps, Slot, LP, OWN
<1>4. TestSends(s)
  BY <1>1, <1>2, <1>3, Natural DEF TestSends, Legal, StepType
<1>5. TestKeeps
  BY <1>1, <1>2, <1>4, TestMoves
<1>6. Shape' /\ UNCHANGED <<script, test>> /\ Clean' /\ market'.mark = market.mark /\ script' \in OnDeployed
  BY <1>1, <1>5, CleanKept DEF TestKeeps
<1>7. Fits(off)'
  BY <1>1, <1>2, <1>6, IdleNext
<1>8. ASSUME s.op # "Go", on.kind = "idle", s.op \in {"PushOraclePrice", "SetOracleAuthority"} => market.mark
      PROVE  Fits(on)'
  BY <1>1, <1>2, <1>6, <1>8, IdleNext
<1>9. CASE Execute
  <2>1. Sends(s) /\ market' \in Results(s) /\ UNCHANGED status /\ pc' = pc + 1
    BY <1>1, <1>9 DEF Execute
  <2>2. s.op \in {"PushOraclePrice", "SetOracleAuthority"} => market.mark
    BY <2>1, <1>1, <1>2, <1>3, <1>4, TestExecutes
  <2>3. Fits(on)'
    BY <2>1, <2>2, <1>2, <1>3, <1>8 DEF TestOps
  <2> QED BY <2>1, <2>3, <1>6, Passed
<1>10. CASE Refuse \/ Fail
  <2>1. Throw(s)
    BY <1>1, <1>10 DEF Refuse, Fail
  <2> QED BY <2>1, <1>6, <1>7, Thrown
<1>11. CASE GetState
  <2>1. s.op = "Read" /\ seen' = market.account /\ pc' = pc + 1 /\ UNCHANGED <<market, status>>
    BY <1>1, <1>2, <1>11 DEF GetState, Reads
  <2>2. CASE on.kind = "idle"
    BY <2>1, <2>2, <1>6, <1>8, Passed
  <2>3. CASE on.kind = "asked" /\ v.mark
    <3>1. \A i \in Slots : (Mine(market', i) => seen'[i] # NoAccount) /\ (i \notin Used(market') => seen'[i] = NoAccount)
      BY <2>1, Wallets DEF Mine, Used, NoAccount
    <3>2. FitsAsked'
      BY <3>1, <2>3, <1>1, <1>6 DEF FitsAsked
    <3>3. Fits(on)'
      BY <3>2, <2>3, <1>6 DEF Fits, TestKinds, DrillKinds
    <3> QED BY <3>3, <2>1, <1>6, Passed
  <2> QED BY <2>1, <2>2, <2>3, <1>2
<1>12. CASE Jump
  <2>1. /\ s.op \in Tests /\ pc' = (IF Holds(s) THEN pc + s.catch ELSE pc + 1) /\ UNCHANGED status
        /\ s.op = "Go" => Holds(s)
    BY <1>1, <1>12 DEF Jump, Holds
  <2>2. CASE Holds(s)
    BY <2>1, <2>2, <1>6, <1>7 DEF Advance
  <2>3. CASE ~ Holds(s)
    <3>1. Fits(on)'
      BY <2>1, <2>3, <1>2, <1>8 DEF Tests
    <3> QED BY <3>1, <2>1, <2>3, <1>6, Passed
  <2> QED BY <2>2, <2>3
<1>13. ~ Find /\ ~ Skip /\ ~ Take /\ ~ Say /\ ~ WaitForWarmup
  BY <1>1, <1>2 DEF Find, Skip, Take, Say, WaitForWarmup
<1> QED BY <1>9, <1>10, <1>11, <1>12, <1>13 DEF Move

-----------------------------------------------------------------------------
(***************************************************************************)
(* A test opens its account, and looks for it.                             *)
(***************************************************************************)
LEMMA UserOpened ==
  ASSUME Shape, script \in OnDeployed, NEW s, s = Body[pc], s.op = "InitUser", Sends(s), market' \in Results(s), Opens(s),
         UNCHANGED <<script, test, idx, seen, todo, joins, said>>, faults' \in 0 .. MaxFaults,
         hurt \subseteq hurt', hurt' \subseteq Nat
  PROVE  /\ Shape' /\ market'.mark = market.mark
         /\ \E h \in Slots \ {LP} :
              /\ market.account[h] = NoAccount /\ NewAccount(market'.account[h])
              /\ opened' = [opened EXCEPT ![h] = test]
              /\ \A k \in Slots \ {h} : market'.account[k] = market.account[k]
<1> DEFINE h == Head(market.free)
<1>1. /\ Books(market) /\ market.stage = "live" /\ market.account[LP].lp /\ Past /\ market.account \in [Slots -> Account]
      /\ test \in Nat /\ opened \in [Slots -> Nat]
  BY DEF Shape, Books, Market
<1>2. Sent(s) = [op |-> "InitUser", n |-> s.n]
  BY DEF Sent, Instructions
<1>3. market' \in Outcomes(market, "InitUser", Slot(s), s.n)
  BY <1>2 DEF Results
<1> DEFINE new == NewUser(market.price)
<1>5. /\ Keeps(market, market') /\ h \in Slots /\ market.account[h] = NoAccount
      /\ market'.account[h] = new /\ \A k \in Slots \ {h} : market'.account[k] = market.account[k]
  BY <1>1, <1>3, UserIs
<1>6. Books(market')
  <2>1. Legal(market, "InitUser", Slot(s), s.n) /\ "InitUser" \in Instructions
    BY DEF Legal, Instructions
  <2> QED BY <2>1, <1>1, <1>3, BooksKept
<1> HIDE DEF h
<1>7. NewAccount(new) /\ new.owner = PAYER /\ ~ new.lp /\ new # NoAccount
  BY Wallets DEF NewAccount, NoAccount, NewUser, Opening
<1> HIDE DEF new
<1>8. h \in Slots \ {LP} /\ market' # market
  BY <1>1, <1>5, <1>7 DEF NoAccount
<1>9. opened' = [opened EXCEPT ![h] = test]
  BY <1>8 DEF Opens, h
<1>10. opened' \in [Slots -> Nat] /\ \A i \in Slots : opened'[i] <= test'
  BY <1>1, <1>9, <1>8 DEF Shape
<1>11. Past'
  <2>1. ASSUME NEW i \in Leftovers', opened'[i] # Nobody PROVE opened'[i] \in hurt' \cup {test'}
    <3>1. i \in Slots /\ market'.account[i].owner = PAYER /\ ~ market'.account[i].lp
      BY DEF Leftovers, Used
    <3>2. CASE i = h
      BY <3>2, <3>1, <1>1, <1>9
    <3>3. CASE i # h
      <4>1. i \in Leftovers /\ opened'[i] = opened[i]
        BY <3>1, <3>3, <1>1, <1>5, <1>9, BooksUsed, Wallets DEF Leftovers
      <4> QED BY <4>1, <2>1, <1>1 DEF Past
    <3> QED BY <3>2, <3>3
  <2> QED BY <2>1 DEF Past
<1>12. market'.stage = "live" /\ market'.account[LP].lp /\ market'.mark = market.mark
  BY <1>1, <1>5, <1>8, Natural DEF Keeps
<1>13. Shape'
  BY <1>6, <1>10, <1>11, <1>12 DEF Shape, OnDeployed, OnOwnSlab
<1>14. /\ market.account[h] = NoAccount /\ NewAccount(market'.account[h])
       /\ \A k \in Slots \ {h} : market'.account[k] = market.account[k]
  BY <1>5, <1>7, <1>8
<1> QED BY <1>8, <1>9, <1>12, <1>13, <1>14

LEMMA AskedMove ==
  ASSUME NEW s, NEW v, NEW on, NEW off, At(s, v), v.kind = "asked", AskedStep(s, on, off), Move
  PROVE  Advance(s, on, off)
<1>1. /\ Shape /\ s = Body[pc] /\ script \in OnDeployed /\ Clean /\ market.mark
      /\ \A i \in Slots : (Mine(market, i) => seen[i] # NoAccount) /\ (i \notin Used(market) => seen[i] = NoAccount)
  BY DEF At, Fits, FitsAsked, TestKinds
<1>2. s.op = "InitUser" /\ s.catch = 0 /\ on.kind = "fresh" /\ off.kind = "dead"
  BY DEF AskedStep
<1>3. CASE Execute
  <2>1. /\ Sends(s) /\ market' \in Results(s) /\ Opens(s) /\ pc' = pc + 1
        /\ UNCHANGED <<script, test, idx, seen, todo, status, faults, joins, hurt, said>>
    BY <1>1, <1>3 DEF Execute
  <2>2. faults' \in 0 .. MaxFaults /\ hurt \subseteq hurt' /\ hurt' \subseteq Nat
    BY <2>1, <1>1 DEF Shape
  <2>3. Shape' /\ market'.mark = market.mark
    BY <1>1, <1>2, <2>1, <2>2, UserOpened
  <2>4. PICK h \in Slots \ {LP} :
          /\ market.account[h] = NoAccount /\ NewAccount(market'.account[h])
          /\ opened' = [opened EXCEPT ![h] = test]
          /\ \A k \in Slots \ {h} : market'.account[k] = market.account[k]
    BY <1>1, <1>2, <2>1, <2>2, UserOpened
  <2>5. seen'[h] = NoAccount
    BY <1>1, <2>1, <2>4 DEF Used
  <2>6. ASSUME NEW k \in Slots \ {h}, Mine(market', k)
        PROVE  seen'[k] # NoAccount /\ (test' \in hurt' \/ market'.account[k].lp \/ opened'[k] # test')
    <3>1. Mine(market, k) /\ market'.account[k] = market.account[k] /\ opened'[k] = opened[k]
      BY <2>4, <2>6, <1>1 DEF Mine, Shape
    <3>2. k \in Leftovers \/ market.account[k].lp
      BY <3>1, <1>1, BooksUsed, Wallets DEF Leftovers, Mine, Shape
    <3> QED BY <3>1, <3>2, <2>1, <1>1 DEF Clean
  <2>7. FitsFresh'
    BY <1>1, <2>3, <2>4, <2>5, <2>6 DEF FitsFresh
  <2>8. Fits(on)'
    BY <1>1, <1>2, <2>1, <2>7 DEF Fits, TestKinds, DrillKinds
  <2> QED BY <2>1, <2>3, <2>8, Passed
<1>4. CASE Refuse
  <2>1. Throw(s) /\ UNCHANGED <<script, market, test, idx, seen, todo, faults, joins, opened, hurt, said>>
    BY <1>1, <1>4 DEF Refuse, world
  <2>2. Books(market) /\ NoMore(market, market)
    BY <1>1 DEF Shape, NoMore
  <2>3. TestKeeps
    BY <1>1, <2>1, <2>2, TestKept DEF Shape
  <2>4. Fits(off)'
    BY <1>1, <1>2, <2>1, <2>3, CleanKept DEF Fits, TestKinds, DrillKinds
  <2> QED BY <2>1, <2>3, <2>4, Thrown DEF TestKeeps
<1>5. CASE Fail
  <2>1. /\ (Sends(s) /\ market' \in Results(s)) \/ market' = market
        /\ Throw(s) /\ Opens(s) /\ faults < MaxFaults /\ faults' = faults + 1 /\ hurt' = hurt \cup {test}
        /\ UNCHANGED <<script, test, idx, seen, todo, joins, said>>
    BY <1>1, <1>5 DEF Fail
  <2>2. faults' \in 0 .. MaxFaults /\ hurt \subseteq hurt' /\ hurt' \subseteq Nat
    BY <2>1, <1>1, LiveAssumption DEF Shape
  <2>3. Clean'
    BY <2>1 DEF Clean
  <2>4. Fits(off)'
    BY <2>1, <2>3, <1>1, <1>2 DEF Fits, TestKinds, DrillKinds
  <2>5. Shape'
    <3>1. CASE Sends(s) /\ market' \in Results(s)
      BY <3>1, <1>1, <1>2, <2>1, <2>2, UserOpened
    <3>2. CASE market' = market
      <4>1. opened' = opened
        BY <3>2, <2>1 DEF Opens
      <4>2. Books(market) /\ NoMore(market, market)
        BY <1>1 DEF Shape, NoMore
      <4>3. TestKeeps
        BY <1>1, <3>2, <2>1, <2>2, <4>1, <4>2, TestKept DEF Shape
      <4> QED BY <4>3 DEF TestKeeps
    <3> QED BY <3>1, <3>2, <2>1
  <2> QED BY <2>1, <2>4, <2>5, Thrown
<1>6. ~ GetState /\ ~ Find /\ ~ Jump /\ ~ Skip /\ ~ Take /\ ~ Say /\ ~ WaitForWarmup
  BY <1>1, <1>2 DEF GetState, Find, Jump, Skip, Take, Say, WaitForWarmup, Reads, Tests
<1> QED BY <1>3, <1>4, <1>5, <1>6 DEF Move

LEMMA FreshMove ==
  ASSUME NEW s, NEW v, NEW on, NEW off, At(s, v), v.kind = "fresh", FreshStep(s, on, off), Move
  PROVE  Advance(s, on, off)
<1>1. Shape /\ s = Body[pc] /\ script \in OnDeployed /\ market.mark /\ FitsFresh
  BY DEF At, Fits, FitsFresh, TestKinds
<1>2. /\ s.op = "Found" /\ s.catch = 0 /\ on.kind = "own" /\ off.kind = "dead"
      /\ \A a, k \in Account, p \in Prices : NewAccount(a) => Agrees(on, a, k, p)
  BY DEF FreshStep
<1>3. PICK i \in Slots \ {LP} :
        /\ NewAccount(market.account[i]) /\ seen[i] = NoAccount
        /\ \A k \in Slots \ {i} : Mine(market, k) =>
             seen[k] # NoAccount /\ (test \in hurt \/ market.account[k].lp \/ opened[k] # test)
  BY <1>1 DEF FitsFresh
<1>4. /\ Books(market) /\ market.stage = "live" /\ market.account[LP].lp /\ market.account \in [Slots -> Account]
      /\ market.price \in Prices /\ seen \in [Slots -> Account] /\ NoMore(market, market) /\ hurt \subseteq Nat /\ test \in Nat
  BY <1>1 DEF Shape, Books, Market, NoMore
<1>5. CASE Find
  <2> DEFINE new == {k \in Used(market) : seen[k] = NoAccount}
  <2>1. /\ idx' = (IF new = {} THEN OWN ELSE Min(new)) /\ pc' = (IF new = {} THEN pc + RETURN ELSE pc + 1)
        /\ hurt' = (IF \E k \in new : ~Mine(market, k) THEN hurt \cup {test} ELSE hurt)
        /\ UNCHANGED <<script, market, test, seen, todo, status, faults, joins, opened, said>>
    BY <1>1, <1>5 DEF Find
  <2>2. i \in new /\ new \subseteq Slots /\ new \subseteq Used(market)
    BY <1>3, <1>4, BooksUsed, Wallets DEF NewAccount, Used
  <2>3. Min(new) \in new
    BY <2>2, MinOf
  <2>4. \A k \in new : seen[k] = NoAccount
    OBVIOUS
  <2>5. LP \notin new
    <3>1. Mine(market, LP) /\ LP # i /\ LP \in Slots
      BY <1>3, <1>4, Natural DEF Books, Owned, Mine
    <3> QED BY <3>1, <2>4, <1>3
  <2> HIDE DEF new
  <2>6. idx' = Min(new) /\ pc' = pc + 1 /\ idx' \in Slots \ {LP}
    BY <2>1, <2>2, <2>3, <2>5
  <2>7. hurt \subseteq hurt' /\ hurt' \subseteq Nat
    BY <2>1, <1>4
  <2>8. TestKeeps
    BY <1>1, <1>4, <2>1, <2>6, <2>7, TestKept DEF Shape
  <2>9. test' \in hurt' \/ idx' = i
    BY <2>1, <2>2, <2>3, <2>4, <2>6, <1>3
  <2>10. ASSUME test' \notin hurt', NEW k \in Leftovers', opened'[k] = test' PROVE k = idx'
    <3>1. k \in Slots /\ Mine(market, k) /\ ~ market.account[k].lp /\ test \notin hurt /\ opened[k] = test
      BY <2>1, <2>7, <2>10 DEF Leftovers, Used, Mine
    <3> QED BY <3>1, <1>3, <2>9, <2>10
  <2>11. ASSUME test' \notin hurt' PROVE Agrees(on, market'.account[idx'], seen'[idx'], market'.price)
    <3>1. idx' = i
      BY <2>9, <2>11
    <3>2. Agrees(on, market.account[i], seen[i], market.price)
      BY <1>2, <1>3, <1>4
    <3> QED BY <3>1, <3>2, <2>1
  <2>12. Fits(on)'
    <3>1. script' \in OnDeployed /\ market'.mark
      BY <1>1, <2>1
    <3> QED BY <1>2, <2>6, <2>10, <2>11, <3>1, StaysOwn
  <2> QED BY <2>1, <2>6, <2>8, <2>12, Passed DEF TestKeeps
<1>6. CASE Fail
  <2>1. /\ market' = market /\ Throw(s) /\ Opens(s) /\ faults < MaxFaults /\ faults' = faults + 1 /\ hurt' = hurt \cup {test}
        /\ UNCHANGED <<script, test, idx, seen, todo, joins, said>>
    BY <1>1, <1>2, <1>6 DEF Fail, Sends, Instructions
  <2>2. faults' \in 0 .. MaxFaults /\ hurt \subseteq hurt' /\ hurt' \subseteq Nat /\ opened' = opened
    BY <2>1, <1>1, <1>2, <1>4, LiveAssumption DEF Shape, Opens
  <2>3. TestKeeps
    BY <1>1, <1>4, <2>1, <2>2, TestKept DEF Shape
  <2>4. Fits(off)'
    BY <1>1, <1>2, <2>1 DEF Fits, TestKinds, DrillKinds, Clean
  <2> QED BY <2>1, <2>3, <2>4, Thrown DEF TestKeeps
<1>7. /\ ~ Execute /\ ~ Refuse /\ ~ GetState /\ ~ Jump /\ ~ Skip /\ ~ Take /\ ~ Say /\ ~ WaitForWarmup
  BY <1>1, <1>2 DEF Execute, Refuse, GetState, Jump, Skip, Take, Say, WaitForWarmup, Sends, Instructions, Tests
<1> QED BY <1>5, <1>6, <1>7 DEF Move

-----------------------------------------------------------------------------
(***************************************************************************)
(* The first test of the happy path.  What an earlier run left neither     *)
(* gains nor loses at the price of the sweep.                              *)
(***************************************************************************)
LEMMA LeftSettled ==
  ASSUME NEW a \in Account, Left(a)
  PROVE  LET u == Settled(a, 0)
         IN  /\ u \in Account /\ u.owner = a.owner /\ u.lp = a.lp /\ u.pos = a.pos /\ u.capital = a.capital
             /\ u.pnl = "none" /\ u.at = 0 /\ Left(u)
<1> DEFINE u == Settled(a, 0)
<1>1. 0 \in Prices
  BY DEF Prices
<1>2. u \in Account /\ u.owner = a.owner /\ u.lp = a.lp /\ u.pos = a.pos /\ u.at = 0
  BY <1>1, SettledAccount
<1>3. a.pos * (0 - a.at) = 0
  <2>1. a.pos \in Int /\ a.at \in Int
    BY DEF Account, Prices
  <2>2. CASE a.pos = 0
    BY <2>1, <2>2
  <2>3. CASE a.pos # 0
    <3>1. a.at = 0
      BY <2>3 DEF Left
    <3> QED BY <2>1, <3>1
  <2> QED BY <2>2, <2>3
<1>4. u.capital = a.capital /\ u.pnl = a.pnl
  <2> DEFINE g == a.pos * (0 - a.at)
  <2>1. u = [a EXCEPT !.at = 0, !.capital = IF g < 0 THEN Floor(a.capital + g) ELSE a.capital,
                      !.pnl = IF g > 0 THEN "warming" ELSE a.pnl]
    BY DEF Settled
  <2>2. g = 0
    BY <1>3
  <2> HIDE DEF g
  <2>3. ~ (g < 0) /\ ~ (g > 0)
    BY <2>2
  <2> QED BY <2>1, <2>3 DEF Account
<1> QED BY <1>2, <1>4 DEF Left

LEMMA LeftCranked ==
  ASSUME NEW a \in Account, Left(a), NEW b, MayBecome(Settled(a, 0), b), b.owner = PAYER
  PROVE  b = Settled(a, 0)
<1> DEFINE u == Settled(a, 0)
<1>1. u.pos # 0 => u.capital # 0
  BY LeftSettled DEF Left, Account
<1> HIDE DEF u
<1>2. MayBecome(u, b)
  BY DEF u
<1>3. b = u
  BY <1>1, <1>2, Wallets DEF MayBecome, NoAccount
<1> QED BY <1>3 DEF u

LEMMA LeftPaid ==
  ASSUME NEW a \in Account, Left(a), a.pos = 0, NEW n \in Int
  PROVE  /\ Touched(a, 0).pos = 0 /\ Touched(a, 0).pnl = "none"
         /\ n <= a.capital => Payable(a, 0, n)
         /\ Left(Paid(a, 0, n)) /\ Paid(a, 0, n).pos = 0 /\ Paid(a, 0, n).owner = a.owner
<1> DEFINE u == Settled(a, 0)
           b == [u EXCEPT !.capital = u.capital - n]
<1>1. u \in Account /\ u.owner = a.owner /\ u.pos = 0 /\ u.capital = a.capital /\ u.pnl = "none"
  BY LeftSettled
<1> HIDE DEF u
<1>2. Touched(a, 0) = u
  BY <1>1 DEF Touched, u
<1>3. Paid(a, 0, n) = b
  BY <1>2 DEF Paid
<1>4. b.pos = 0 /\ b.owner = a.owner /\ b.pnl = "none" /\ b.capital = a.capital - n
  BY <1>1 DEF Account
<1> HIDE DEF b
<1>5. Left(b)
  BY <1>4 DEF Left
<1>6. n <= a.capital => Covered(b)
  BY <1>4 DEF Covered, Abs, LEVERAGE, Account
<1> QED BY <1>1, <1>2, <1>3, <1>4, <1>5, <1>6 DEF Payable

(* The accounts that are left, by slot.                                    *)
LEMMA LeftoverIs ==
  ASSUME Shape
  PROVE  /\ Leftovers \subseteq Slots
         /\ \A i \in Slots : i \in Leftovers <=> Mine(market, i) /\ ~ market.account[i].lp
         /\ script \in OnDeployed => LP \notin Leftovers
BY BooksUsed, Wallets DEF Leftovers, Mine, Shape, Used

(* They are the same accounts as before, or fewer.                         *)
SameLeft ==
  /\ market'.price = 0
  /\ \A i \in Leftovers' : /\ i \in Leftovers /\ Left(market'.account[i])
                           /\ market'.account[i].pos = market.account[i].pos
                           /\ market'.account[i].capital = market.account[i].capital

SweepOps == {"SetOracleAuthority", "TopUpInsurance", "PushOraclePrice", "KeeperCrank", "DepositCollateral"}

LEMMA SweepSame ==
  ASSUME Shape, TestKeeps, script \in OnDeployed, AllLeft, NEW op \in SweepOps, NEW i, NEW n,
         op = "PushOraclePrice" => n = 0, op = "DepositCollateral" => i = LP /\ n \in Nat,
         market' \in Outcomes(market, op, i, n)
  PROVE  SameLeft
<1>1. /\ Books(market) /\ market \in Market /\ market.account \in [Slots -> Account] /\ market.price = 0
      /\ market.stage = "live" /\ Books(market')
  BY DEF Shape, Books, Market, AllLeft, TestKeeps
<1>2. \A k \in Leftovers' : k \in Leftovers /\ k \in Slots \ {LP} /\ Mine(market', k) /\ Left(market.account[k])
  <2>1. Leftovers' \subseteq Leftovers
    BY CleanKept
  <2>2. \A k \in Leftovers' : Mine(market', k)
    BY DEF Leftovers, Mine
  <2> QED BY <2>1, <2>2, LeftoverIs DEF AllLeft
<1>3. CASE op \in {"SetOracleAuthority", "TopUpInsurance", "PushOraclePrice"}
  <2>1. op \in General
    BY <1>3 DEF General
  <2>2. market'.account = market.account /\ market'.price = 0
    BY <2>1, <1>1, <1>3, GeneralIs
  <2> QED BY <2>2, <1>2 DEF SameLeft
<1>4. CASE op = "KeeperCrank"
  <2>1. CrankDoes(market, market')
    BY <1>1, <1>4, OutKeeperCrank, CrankIs
  <2>2. ASSUME NEW k \in Leftovers'
        PROVE  /\ Left(market'.account[k]) /\ market'.account[k].pos = market.account[k].pos
               /\ market'.account[k].capital = market.account[k].capital
    <3>1. k \in Slots \ {LP} /\ k \in Used(market) /\ market.account[k] \in Account /\ Left(market.account[k])
      BY <1>1, <1>2 DEF Leftovers
    <3>2. MayBecome(Settled(market.account[k], market.price), market'.account[k])
      BY <2>1, <3>1 DEF CrankDoes
    <3>3. MayBecome(Settled(market.account[k], 0), market'.account[k]) /\ market'.account[k].owner = PAYER
      BY <3>2, <1>1, <1>2 DEF Mine
    <3>4. market'.account[k] = Settled(market.account[k], 0)
      BY <3>1, <3>3, LeftCranked
    <3> QED BY <3>1, <3>4, LeftSettled
  <2> QED BY <2>1, <2>2, <1>1, <1>2 DEF SameLeft, CrankDoes
<1>5. CASE op = "DepositCollateral"
  <2>1. i \in Slots /\ market' \in Outcomes(market, "DepositCollateral", i, n)
    BY <1>5, Natural
  <2>2. /\ market.stage = "live" /\ Mine(market, i) /\ Keeps(market, market')
        /\ market'.account[i] = [market.account[i] EXCEPT !.capital = @ + n]
        /\ \A k \in Slots \ {i} : market'.account[k] = market.account[k]
    BY <2>1, <1>1, DepositIs
  <2>3. market'.price = 0 /\ \A k \in Slots \ {LP} : market'.account[k] = market.account[k]
    <3>1. i = LP
      BY <1>5
    <3>2. market'.price = 0
      BY <2>2, <1>1 DEF Keeps
    <3> QED BY <3>1, <3>2, <2>2
  <2> QED BY <2>3, <1>2 DEF SameLeft
<1> QED BY <1>3, <1>4, <1>5 DEF SweepOps

(* What holds of the sweep after a step.                                   *)
SweepGoes(w) ==
  /\ w.kind = "sweep" /\ w.stage \in {"old", "listed", "taken", "drawn", "swept"}
  /\ test = 1 /\ (w.mark => market'.mark)
  /\ w.stage \in {"listed", "taken", "drawn"} => todo' \subseteq Slots \ {LP}
  /\ w.stage \in {"taken", "drawn"} => idx' \in Slots \ ({LP} \cup todo')

SweepHolds(w) ==
  /\ AllLeft
  /\ w.stage = "listed" => Listed(todo)
  /\ w.stage = "taken" => Listed(todo \cup {idx})
  /\ w.stage = "drawn" => Emptied(todo)
  /\ w.stage = "swept" => AllOpen

LEMMA SweepNext ==
  ASSUME TestKeeps, script \in OnDeployed, Clean', NEW w, SweepGoes(w), 1 \in hurt' \/ SweepHolds(w)'
  PROVE  Fits(w)'
<1>1. script' \in OnDeployed /\ test' = 1
  BY DEF TestKeeps, SweepGoes
<1>2. FitsSweep(w)'
  BY <1>1 DEF FitsSweep, SweepGoes, SweepHolds
<1> QED BY <1>1, <1>2 DEF Fits, TestKinds, DrillKinds, SweepGoes

LEMMA SameHolds ==
  ASSUME SameLeft, UNCHANGED <<todo, idx, seen>>, NEW w, SweepHolds(w)
  PROVE  SweepHolds(w)'
<1>1. AllLeft'
  BY DEF SameLeft, AllLeft
<1>2. Listed(todo) => Listed(todo)'
  BY DEF SameLeft, Listed
<1>3. Listed(todo \cup {idx}) => Listed(todo \cup {idx})'
  BY DEF SameLeft, Listed
<1>4. Emptied(todo) => Emptied(todo)'
  BY DEF SameLeft, Emptied
<1>5. AllOpen => AllOpen'
  BY DEF SameLeft, AllOpen
<1> QED BY <1>1, <1>2, <1>3, <1>4, <1>5 DEF SweepHolds

(* What makes a step one of the sweep.                                     *)
SweepAt(s, v, on, off) ==
  /\ At(s, v) /\ v.kind = "sweep" /\ v.stage # "start" /\ SweepStep(s, v, on, off)
  /\ s.op \in Tests \cup {"Take"} => s.catch # 0

LEMMA SweepIs ==
  ASSUME NEW s, NEW v, NEW on, NEW off, SweepAt(s, v, on, off)
  PROVE  /\ Shape /\ s = Body[pc] /\ script \in OnDeployed /\ Clean /\ test = 1 /\ (v.mark => market.mark)
         /\ v.stage \in {"old", "listed", "taken", "drawn", "swept"}
         /\ s.op \in SweepOps \cup {"Read", "ReadFlat", "Take", "Go", "WithdrawSeen", "CloseAccount"}
         /\ 1 \in hurt \/ SweepHolds(v)
         /\ v.stage \in {"listed", "taken", "drawn"} => todo \subseteq Slots \ {LP}
         /\ v.stage \in {"taken", "drawn"} => idx \in Slots \ ({LP} \cup todo)
         /\ TestSends(s)
<1>1. Shape /\ s = Body[pc] /\ s \in StepType /\ script \in OnDeployed /\ FitsSweep(v) /\ v.stage # "start"
  BY DEF SweepAt, At, Fits, TestKinds
<1>2. /\ Clean /\ test = 1 /\ (v.mark => market.mark)
      /\ v.stage \in {"listed", "taken", "drawn"} => todo \subseteq Slots \ {LP}
      /\ v.stage \in {"taken", "drawn"} => idx \in Slots \ ({LP} \cup todo)
      /\ 1 \in hurt \/ SweepHolds(v)
  BY <1>1 DEF FitsSweep, SweepHolds
<1>3. /\ v.stage \in {"old", "listed", "taken", "drawn", "swept"}
      /\ s.op \in SweepOps \cup {"Read", "ReadFlat", "Take", "Go", "WithdrawSeen", "CloseAccount"}
      /\ s.op = "PushOraclePrice" => s.n = 0
      /\ s.op = "DepositCollateral" => s.slot = LP /\ s.n \in Nat
      /\ s.op \in {"WithdrawSeen", "CloseAccount"} => s.slot = OWN /\ v.stage \in {"taken", "drawn"}
      /\ s.op = "WithdrawSeen" => s.n = 0
  BY <1>1 DEF SweepAt, SweepStep, SweepOps
<1>4. TestSends(s)
  <2>1. CASE s.op = "WithdrawSeen"
    <3>1. Slot(s) = idx /\ idx \in Slots /\ Sent(s) = [op |-> "WithdrawCollateral", n |-> Known.capital - s.n]
      BY <2>1, <1>2, <1>3 DEF Slot, Sent, Instructions
    <3>2. Known.capital - s.n \in Int
      <4>1. Known \in Account
        BY <3>1, <1>1 DEF Shape, Known
      <4> QED BY <4>1, <2>1, <1>3 DEF Account
    <3> QED BY <3>1, <3>2 DEF TestSends, TestOps, Legal
  <2>2. CASE s.op = "CloseAccount"
    <3>1. Slot(s) = idx /\ idx \in Slots \ {LP} /\ Sent(s) = [op |-> "CloseAccount", n |-> s.n]
      BY <2>2, <1>2, <1>3 DEF Slot, Sent, Instructions
    <3> QED BY <3>1, <1>1 DEF TestSends, TestOps, Legal, StepType
  <2>3. CASE s.op \in SweepOps
    <3>1. Sent(s) = [op |-> s.op, n |-> s.n] /\ (s.op = "DepositCollateral" => Slot(s) = LP)
      BY <2>3, <1>3 DEF Slot, Sent, Instructions, SweepOps, LP, OWN
    <3> QED BY <3>1, <2>3, <1>1, <1>3, Natural DEF TestSends, TestOps, Legal, StepType, SweepOps, Prices
  <2>4. CASE s.op \in {"Read", "ReadFlat", "Take", "Go"}
    BY <2>4 DEF TestSends, Sends, Instructions
  <2> QED BY <2>1, <2>2, <2>3, <2>4, <1>3
<1> QED BY <1>1, <1>2, <1>3, <1>4

(* A step that leads on leads to the view behind it.                       *)
LEMMA SweepPasses ==
  ASSUME NEW s, NEW v, NEW on, NEW off, SweepAt(s, v, on, off), TestKeeps, pc' = pc + 1, UNCHANGED status,
         SweepGoes(on), 1 \in hurt' \/ SweepHolds(on)'
  PROVE  Advance(s, on, off)
<1>1. Clean' /\ script \in OnDeployed
  BY SweepIs, CleanKept
<1>2. Fits(on)'
  BY <1>1, SweepNext
<1> QED BY <1>2, Passed DEF TestKeeps

(* One that throws or jumps leads to off, or out of main.                  *)
LEMMA SweepOff ==
  ASSUME NEW s, NEW v, NEW on, NEW off, SweepAt(s, v, on, off), TestKeeps,
         off.kind = "dead" \/ (SweepGoes(off) /\ (1 \in hurt' \/ SweepHolds(off)'))
  PROVE  Fits(off)'
<1>1. Clean' /\ script \in OnDeployed /\ script' \in OnDeployed
  BY SweepIs, CleanKept DEF TestKeeps
<1>2. CASE off.kind = "dead"
  BY <1>1, <1>2 DEF Fits, TestKinds, DrillKinds
<1>3. CASE SweepGoes(off) /\ (1 \in hurt' \/ SweepHolds(off)')
  BY <1>1, <1>3, SweepNext
<1> QED BY <1>2, <1>3

LEMMA SweepExecute ==
  ASSUME NEW s, NEW v, NEW on, NEW off, SweepAt(s, v, on, off), Execute, TestKeeps
  PROVE  Advance(s, on, off)
<1>1. /\ Shape /\ s = Body[pc] /\ script \in OnDeployed /\ test = 1 /\ (v.mark => market.mark)
      /\ 1 \in hurt \/ SweepHolds(v)
      /\ v.stage \in {"listed", "taken", "drawn"} => todo \subseteq Slots \ {LP}
      /\ v.stage \in {"taken", "drawn"} => idx \in Slots \ ({LP} \cup todo)
      /\ TestSends(s)
  BY SweepIs
<1>2. /\ Sends(s) /\ market' \in Results(s) /\ pc' = pc + 1 /\ UNCHANGED <<idx, seen, todo, status, hurt>>
  BY <1>1 DEF Execute
<1>3. market' \in Outcomes(market, Sent(s).op, Slot(s), Sent(s).n)
  BY <1>2 DEF Results
<1>4. s.op \in SweepOps \cup {"WithdrawSeen", "CloseAccount"}
  BY <1>1, <1>2, SweepIs DEF Sends, Instructions
<1>5. CASE s.op \in SweepOps
  <2>1. /\ on.kind = "sweep" /\ on.stage = v.stage /\ v.stage \in {"old", "swept"}
        /\ (on.mark => v.mark \/ s.op \in {"PushOraclePrice", "SetOracleAuthority"})
        /\ s.op = "PushOraclePrice" => s.n = 0
        /\ s.op = "DepositCollateral" => s.slot = LP /\ s.n \in Nat
    BY <1>5 DEF SweepAt, SweepStep, SweepOps
  <2>2. Sent(s) = [op |-> s.op, n |-> s.n] /\ (s.op = "DepositCollateral" => Slot(s) = LP)
    BY <1>5, <2>1 DEF Slot, Sent, Instructions, SweepOps, LP, OWN
  <2>3. s.op # "InitUser"
    BY <1>5 DEF SweepOps
  <2>4. s.op \in {"PushOraclePrice", "SetOracleAuthority"} => market.mark
    BY <1>1, <1>2, <2>2, <2>3, TestExecutes
  <2>5. SweepGoes(on)
    BY <1>1, <2>1, <2>4 DEF SweepGoes, TestKeeps
  <2>6. ASSUME 1 \notin hurt' PROVE SweepHolds(on)'
    <3>1. SweepHolds(v) /\ AllLeft
      BY <1>1, <1>2, <2>6 DEF SweepHolds
    <3>2. market' \in Outcomes(market, s.op, Slot(s), s.n)
      BY <1>3, <2>2
    <3>3. SameLeft
      BY <1>1, <1>5, <2>1, <2>2, <3>1, <3>2, SweepSame
    <3>4. SweepHolds(on)
      BY <3>1, <2>1 DEF SweepHolds
    <3> QED BY <3>3, <3>4, <1>2, SameHolds
  <2> QED BY <1>2, <2>5, <2>6, SweepPasses
<1>6. CASE s.op = "WithdrawSeen"
  <2>1. /\ on.kind = "sweep" /\ on.stage = "drawn" /\ v.stage = "taken" /\ (on.mark => v.mark) /\ s.slot = OWN /\ s.n = 0
    BY <1>6 DEF SweepAt, SweepStep
  <2>2. Slot(s) = idx /\ idx \in Slots \ {LP} /\ Sent(s) = [op |-> "WithdrawCollateral", n |-> Known.capital - s.n]
    BY <1>1, <1>6, <2>1 DEF Slot, Sent, Instructions
  <2> DEFINE n == Known.capital - s.n
  <2>3. n \in Int /\ market' \in Outcomes(market, "WithdrawCollateral", idx, n)
    BY <1>1, <1>2, <1>3, <2>2 DEF TestSends
  <2> HIDE DEF n
  <2>4. SweepGoes(on)
    BY <1>1, <1>2, <2>1 DEF SweepGoes, TestKeeps
  <2>5. Books(market) /\ idx \in Slots /\ market.account[idx] \in Account
    BY <1>1, <2>2 DEF Shape, Books, Market
  <2>6. /\ Keeps(market, market') /\ Mine(market, idx)
        /\ market'.account[idx] = Paid(market.account[idx], market.price, n)
        /\ \A k \in Slots \ {idx} : market'.account[k] = market.account[k]
    BY <2>3, <2>5, WithdrawIs
  <2>7. ASSUME 1 \notin hurt' PROVE SweepHolds(on)'
    <3>1. AllLeft /\ Listed(todo \cup {idx}) /\ market.price = 0
      BY <1>1, <1>2, <2>1, <2>7 DEF SweepHolds, AllLeft
    <3>2. Leftovers' \subseteq Leftovers /\ Leftovers \subseteq Slots
      BY <1>1, CleanKept, LeftoverIs
    <3>3. idx \in Leftovers => Left(market.account[idx]) /\ market.account[idx].pos = 0
      BY <3>1 DEF AllLeft, Listed
    <3>4. idx \in Leftovers => Left(market'.account[idx]) /\ market'.account[idx].pos = 0
      BY <3>1, <3>3, <2>3, <2>5, <2>6, LeftPaid
    <3>5. AllLeft'
      BY <2>6, <3>1, <3>2, <3>4 DEF AllLeft, Keeps
    <3>6. Emptied(todo)'
      <4>1. idx \notin todo /\ idx' = idx /\ todo' = todo /\ seen' = seen
        BY <1>1, <1>2, <2>1
      <4>2. ASSUME NEW i \in Leftovers'
            PROVE  /\ (i \in todo \cup {idx}) <=> (market'.account[i].pos = 0)
                   /\ i \in todo => seen[i].capital = market'.account[i].capital
        <5>1. CASE i = idx
          BY <5>1, <4>1, <4>2, <3>2, <3>4
        <5>2. CASE i # idx
          <6>1. market'.account[i] = market.account[i] /\ i \in Leftovers
            BY <5>2, <4>2, <3>2, <2>6
          <6> QED BY <6>1, <3>1 DEF Listed
        <5> QED BY <5>1, <5>2
      <4> QED BY <4>1, <4>2 DEF Emptied
    <3> QED BY <2>1, <3>5, <3>6 DEF SweepHolds
  <2> QED BY <1>2, <2>4, <2>7, SweepPasses
<1>7. CASE s.op = "CloseAccount"
  <2>1. /\ on.kind = "sweep" /\ on.stage = "listed" /\ v.stage = "drawn" /\ (on.mark => v.mark) /\ s.slot = OWN
    BY <1>7 DEF SweepAt, SweepStep, SweepOps
  <2>2. Slot(s) = idx /\ idx \in Slots \ {LP} /\ Sent(s) = [op |-> "CloseAccount", n |-> s.n]
    BY <1>1, <1>7, <2>1 DEF Slot, Sent, Instructions
  <2>3. SweepGoes(on)
    BY <1>1, <1>2, <2>1 DEF SweepGoes, TestKeeps
  <2>4. Books(market) /\ idx \in Slots /\ market' \in Outcomes(market, "CloseAccount", idx, s.n)
    BY <1>1, <1>3, <2>2 DEF Shape
  <2>5. Keeps(market, market') /\ \A k \in Slots : market'.account[k] = IF k = idx THEN NoAccount ELSE market.account[k]
    BY <2>4, CloseIs
  <2>6. ASSUME 1 \notin hurt' PROVE SweepHolds(on)'
    <3>1. AllLeft /\ Emptied(todo)
      BY <1>1, <1>2, <2>1, <2>6 DEF SweepHolds
    <3>2. Leftovers' \subseteq Leftovers /\ Leftovers \subseteq Slots
      BY <1>1, CleanKept, LeftoverIs
    <3>3. idx \notin Leftovers'
      BY <2>4, <2>5 DEF Leftovers, Used
    <3>4. \A i \in Leftovers' : i \in Leftovers /\ i # idx /\ market'.account[i] = market.account[i]
      BY <2>5, <3>2, <3>3
    <3>5. AllLeft'
      BY <2>5, <3>1, <3>4 DEF AllLeft, Keeps
    <3>6. Listed(todo)'
      BY <1>2, <3>1, <3>4 DEF Listed, Emptied
    <3> QED BY <2>1, <3>5, <3>6 DEF SweepHolds
  <2> QED BY <1>2, <2>3, <2>6, SweepPasses
<1> QED BY <1>4, <1>5, <1>6, <1>7

(* Where an exception leads to.                                            *)
LEMMA SweepBack ==
  ASSUME NEW s, NEW v, NEW on, NEW off, SweepAt(s, v, on, off), s.op \notin {"Take", "Go"}, TestKeeps, UNCHANGED <<todo, idx>>
  PROVE  \/ off.kind = "dead" /\ s.catch = 0
         \/ SweepGoes(off) /\ v.stage \in {"old", "swept"} /\ off.stage = v.stage
         \/ SweepGoes(off) /\ off.stage = "listed" /\ v.stage = "taken" /\ s.op = "WithdrawSeen"
         \/ SweepGoes(off) /\ off.stage = "listed" /\ v.stage = "drawn" /\ s.op = "CloseAccount"
         \/ SweepGoes(off) /\ off.stage = "old" /\ v.stage = "old" /\ s.op = "ReadFlat"
<1>1. /\ test = 1 /\ (v.mark => market.mark) /\ v.stage \in {"old", "listed", "taken", "drawn", "swept"}
      /\ v.stage \in {"listed", "taken", "drawn"} => todo \subseteq Slots \ {LP}
  BY SweepIs
<1>2. \/ off.kind = "dead" /\ s.catch = 0
      \/ /\ off.kind = "sweep" /\ (off.mark => v.mark)
         /\ \/ v.stage \in {"old", "swept"} /\ off.stage = v.stage
            \/ off.stage = "listed" /\ v.stage = "taken" /\ s.op = "WithdrawSeen"
            \/ off.stage = "listed" /\ v.stage = "drawn" /\ s.op = "CloseAccount"
  BY DEF SweepAt, SweepStep
<1> QED BY <1>1, <1>2 DEF SweepGoes, TestKeeps

LEMMA HoldsKept ==
  ASSUME UNCHANGED <<market, seen, todo, idx>>, NEW w, SweepHolds(w)
  PROVE  SweepHolds(w)'
<1>1. Leftovers' = Leftovers
  BY DEF Leftovers, Used
<1> QED BY <1>1 DEF SweepHolds, AllLeft, AllOpen, Listed, Emptied

LEMMA SweepRefuse ==
  ASSUME NEW s, NEW v, NEW on, NEW off, SweepAt(s, v, on, off), Refuse, TestKeeps
  PROVE  Advance(s, on, off)
<1>1. /\ Shape /\ s = Body[pc] /\ script \in OnDeployed
      /\ 1 \in hurt \/ SweepHolds(v)
      /\ v.stage \in {"taken", "drawn"} => idx \in Slots \ ({LP} \cup todo)
      /\ TestSends(s)
  BY SweepIs
<1>2. Sends(s) /\ Results(s) = {} /\ Throw(s) /\ UNCHANGED <<market, idx, seen, todo, hurt>>
  <2>1. s.op \in SweepOps \cup {"Read", "ReadFlat", "Take", "Go", "WithdrawSeen", "CloseAccount"}
    BY SweepIs
  <2>2. s.op \in {"WithdrawSeen", "CloseAccount"} => s.catch < 0
    BY DEF SweepAt, SweepStep
  <2>3. s.catch \in Int
    BY DEF SweepAt, At, StepType
  <2>4. ~ Withstood(s)
    BY <1>1, <2>1, <2>2, <2>3 DEF Withstood, SweepOps, OnDeployed
  <2> QED BY <1>1, <2>4 DEF Refuse, world
<1>3. s.op \notin {"Take", "Go"}
  BY <1>2 DEF Sends, Instructions
<1>4. Outcomes(market, Sent(s).op, Slot(s), Sent(s).n) = {}
  BY <1>2 DEF Results
<1>5. /\ Books(market) /\ market.stage = "live" /\ market.account \in [Slots -> Account]
  BY <1>1 DEF Shape, Books, Market
<1>6. ASSUME 1 \notin hurt, s.op \in {"WithdrawSeen", "CloseAccount"}, off.kind # "dead"
      PROVE  SweepHolds(off)'
  <2>1. /\ off.stage = "listed" /\ s.slot = OWN /\ AllLeft /\ market.price = 0
        /\ \/ s.op = "WithdrawSeen" /\ v.stage = "taken" /\ s.n = 0 /\ Listed(todo \cup {idx})
           \/ s.op = "CloseAccount" /\ v.stage = "drawn" /\ Emptied(todo)
    <3>1. /\ off.stage = "listed" /\ s.slot = OWN
          /\ \/ s.op = "WithdrawSeen" /\ v.stage = "taken" /\ s.n = 0
             \/ s.op = "CloseAccount" /\ v.stage = "drawn"
      BY <1>6 DEF SweepAt, SweepStep
    <3> QED BY <3>1, <1>1, <1>6 DEF SweepHolds, AllLeft
  <2>2. idx \in Slots /\ Slot(s) = idx
    BY <2>1, <1>1 DEF Slot
  <2>3. idx \notin Leftovers
    <3> SUFFICES ASSUME idx \in Leftovers PROVE FALSE
      OBVIOUS
    <3> DEFINE a == market.account[idx]
    <3>1. Left(a) /\ a.pos = 0 /\ a \in Account /\ Mine(market, idx) /\ a.capital \in Int
      BY <2>1, <2>2, <1>1, <1>5, LeftoverIs DEF AllLeft, Listed, Emptied, Account
    <3>2. CASE s.op = "WithdrawSeen"
      <4>1. Sent(s) = [op |-> "WithdrawCollateral", n |-> Known.capital - 0]
        BY <3>2, <2>1 DEF Sent, Instructions
      <4>2. Known.capital = a.capital
        BY <2>1, <3>2 DEF Listed, Known
      <4>3. Outcomes(market, "WithdrawCollateral", idx, Known.capital - 0) = {}
        BY <4>1, <1>4, <2>2
      <4>4. Known.capital - 0 = a.capital
        BY <4>2, <3>1
      <4> HIDE DEF a
      <4>5. Payable(a, 0, a.capital)
        BY <3>1, LeftPaid
      <4>6. ~ Payable(market.account[idx], market.price, a.capital)
        BY <4>3, <4>4, <3>1, <1>5, WithdrawMay
      <4> QED BY <4>5, <4>6, <2>1 DEF a
    <3>3. CASE s.op = "CloseAccount"
      <4>1. Sent(s) = [op |-> "CloseAccount", n |-> s.n]
        BY <3>3 DEF Sent, Instructions
      <4>2. Outcomes(market, "CloseAccount", idx, s.n) = {}
        BY <4>1, <1>4, <2>2
      <4>3. ~ (Touched(market.account[idx], market.price).pos = 0 /\ Touched(market.account[idx], market.price).pnl = "none")
        BY <4>2, <3>1, <1>5, CloseMay
      <4>4. 0 \in Int
        OBVIOUS
      <4>5. Touched(a, 0).pos = 0 /\ Touched(a, 0).pnl = "none"
        <5> HIDE DEF a
        <5> QED BY <4>4, <3>1, LeftPaid
      <4> QED BY <4>3, <4>5, <2>1
    <3> QED BY <3>2, <3>3, <1>6
  <2>4. Listed(todo)
    BY <2>1, <2>3 DEF Listed, Emptied
  <2>5. SweepHolds(off)
    BY <2>1, <2>4 DEF SweepHolds
  <2> QED BY <2>5, <1>2, HoldsKept
<1>7. ASSUME 1 \notin hurt, s.op \notin {"WithdrawSeen", "CloseAccount"}, off.kind # "dead", off.stage = v.stage
      PROVE  SweepHolds(off)'
  <2>1. SweepHolds(off)
    BY <1>1, <1>7 DEF SweepHolds
  <2> QED BY <2>1, <1>2, HoldsKept
<1>8. off.kind = "dead" \/ (SweepGoes(off) /\ (1 \in hurt' \/ SweepHolds(off)'))
  BY <1>2, <1>3, <1>6, <1>7, SweepBack DEF SweepGoes
<1>9. Fits(off)'
  BY <1>8, SweepOff
<1> QED BY <1>2, <1>9, Thrown DEF TestKeeps

LEMMA SweepFail ==
  ASSUME NEW s, NEW v, NEW on, NEW off, SweepAt(s, v, on, off), Fail, TestKeeps
  PROVE  Advance(s, on, off)
<1>1. s = Body[pc] /\ test = 1
  BY SweepIs
<1>2. /\ Sends(s) \/ s.op \in Reads
      /\ Throw(s) /\ hurt' = hurt \cup {test} /\ UNCHANGED <<idx, todo>>
  BY <1>1 DEF Fail
<1>3. s.op \notin {"Take", "Go"} /\ 1 \in hurt'
  BY <1>1, <1>2 DEF Sends, Instructions, Reads
<1>4. off.kind = "dead" \/ SweepGoes(off)
  BY <1>2, <1>3, SweepBack
<1>5. Fits(off)'
  BY <1>3, <1>4, SweepOff
<1> QED BY <1>2, <1>5, Thrown DEF TestKeeps

LEMMA SweepReads ==
  ASSUME NEW s, NEW v, NEW on, NEW off, SweepAt(s, v, on, off), GetState, TestKeeps
  PROVE  Advance(s, on, off)
<1>1. /\ Shape /\ s = Body[pc] /\ script \in OnDeployed /\ test = 1 /\ (v.mark => market.mark)
      /\ 1 \in hurt \/ SweepHolds(v)
      /\ s.op \in SweepOps \cup {"Read", "ReadFlat", "Take", "Go", "WithdrawSeen", "CloseAccount"}
  BY SweepIs
<1>2. /\ s.op \in Reads /\ seen' = market.account
      /\ todo' = CASE s.op = "ReadUsed" -> Used(market)
                   [] s.op = "ReadFlat" -> {i \in Used(market) : market.account[i].pos = 0 /\ ~market.account[i].lp}
                   [] OTHER -> todo
      /\ IF s.op = "Look" /\ idx \notin Used(market) THEN Throw(s) ELSE pc' = pc + 1 /\ UNCHANGED status
      /\ UNCHANGED <<script, market, test, idx, hurt>>
  BY <1>1 DEF GetState, world
<1>3. s.op \in {"Read", "ReadFlat"} /\ pc' = pc + 1 /\ UNCHANGED status
  BY <1>1, <1>2 DEF Reads, SweepOps
<1>4. CASE s.op = "Read"
  <2>1. on.kind = "sweep" /\ on.stage = v.stage /\ v.stage \in {"old", "swept"} /\ (on.mark => v.mark)
    BY <1>4 DEF SweepAt, SweepStep
  <2>2. SweepGoes(on)
    BY <2>1, <1>1, <1>2 DEF SweepGoes
  <2>3. ASSUME 1 \notin hurt' PROVE SweepHolds(on)'
    <3>1. SweepHolds(v)
      BY <1>1, <1>2, <2>3
    <3>2. AllLeft' /\ (AllOpen => AllOpen')
      BY <3>1, <1>2 DEF SweepHolds, AllLeft, AllOpen, Leftovers, Used
    <3> QED BY <3>1, <3>2, <2>1 DEF SweepHolds
  <2> QED BY <1>3, <2>2, <2>3, SweepPasses
<1>5. CASE s.op = "ReadFlat"
  <2>1. on.kind = "sweep" /\ on.stage = "listed" /\ (on.mark => v.mark)
    BY <1>5 DEF SweepAt, SweepStep, SweepOps
  <2>2. todo' = {i \in Used(market) : market.account[i].pos = 0 /\ ~market.account[i].lp}
    BY <1>2, <1>5
  <2>3. todo' \subseteq Slots \ {LP}
    BY <1>1, <2>2 DEF Used, Shape
  <2>4. SweepGoes(on)
    BY <2>1, <2>3, <1>1, <1>2 DEF SweepGoes
  <2>5. ASSUME 1 \notin hurt' PROVE SweepHolds(on)'
    <3>1. AllLeft
      BY <1>1, <1>2, <2>5 DEF SweepHolds
    <3>2. Leftovers' = Leftovers
      BY <1>2 DEF Leftovers, Used
    <3>3. AllLeft'
      BY <3>1, <3>2, <1>2 DEF AllLeft
    <3>4. Listed(todo)'
      BY <3>2, <1>2, <2>2 DEF Listed, Leftovers
    <3> QED BY <3>3, <3>4, <2>1 DEF SweepHolds
  <2> QED BY <1>3, <2>4, <2>5, SweepPasses
<1> QED BY <1>3, <1>4, <1>5

LEMMA SweepLoops ==
  ASSUME NEW s, NEW v, NEW on, NEW off, SweepAt(s, v, on, off), Jump \/ Skip \/ Take, TestKeeps
  PROVE  Advance(s, on, off)
<1>1. /\ Shape /\ s = Body[pc] /\ script \in OnDeployed /\ test = 1 /\ (v.mark => market.mark)
      /\ 1 \in hurt \/ SweepHolds(v)
      /\ s.op \in SweepOps \cup {"Read", "ReadFlat", "Take", "Go", "WithdrawSeen", "CloseAccount"}
      /\ v.stage \in {"listed", "taken", "drawn"} => todo \subseteq Slots \ {LP}
      /\ v.stage \in {"taken", "drawn"} => idx \in Slots \ ({LP} \cup todo)
  BY SweepIs
<1>2. CASE Jump
  <2>1. /\ s.op = "Go" /\ pc' = pc + s.catch /\ s.catch # 0
        /\ UNCHANGED <<script, market, test, idx, seen, todo, status, hurt>>
    BY <1>1, <1>2 DEF Jump, Tests, SweepOps, SweepAt, Holds, world
  <2>2. off.kind = "sweep" /\ off.stage = "listed" /\ v.stage = "listed" /\ (off.mark => v.mark)
    BY <2>1 DEF SweepAt, SweepStep
  <2>3. SweepGoes(off)
    BY <2>1, <2>2, <1>1 DEF SweepGoes
  <2>4. ASSUME 1 \notin hurt' PROVE SweepHolds(off)'
    <3>1. SweepHolds(off)
      BY <1>1, <2>1, <2>2, <2>4 DEF SweepHolds
    <3> QED BY <3>1, <2>1, HoldsKept
  <2>5. Fits(off)'
    BY <2>3, <2>4, SweepOff
  <2> QED BY <2>1, <2>5 DEF Advance, TestKeeps
<1>3. CASE Skip
  <2>1. s.op = "WithdrawSeen" /\ pc' = pc + 1 /\ UNCHANGED <<script, market, test, idx, seen, todo, status, hurt>>
    BY <1>1, <1>3 DEF Skip, SweepOps, world
  <2>2. on.kind = "sweep" /\ on.stage = "drawn" /\ v.stage = "taken" /\ (on.mark => v.mark)
    BY <2>1 DEF SweepAt, SweepStep
  <2>3. SweepGoes(on)
    BY <2>1, <2>2, <1>1 DEF SweepGoes
  <2>4. ASSUME 1 \notin hurt' PROVE SweepHolds(on)'
    <3>1. AllLeft /\ Listed(todo \cup {idx})
      BY <1>1, <2>1, <2>2, <2>4 DEF SweepHolds
    <3>2. SweepHolds(on)
      BY <3>1, <2>2 DEF SweepHolds, Listed, Emptied
    <3> QED BY <3>2, <2>1, HoldsKept
  <2> QED BY <2>1, <2>3, <2>4, SweepPasses
<1>4. CASE Take
  <2>1. /\ s.op = "Take" /\ s.catch # 0
        /\ \/ todo = {} /\ pc' = pc + s.catch /\ UNCHANGED <<idx, todo>>
           \/ todo # {} /\ idx' = Min(todo) /\ todo' = todo \ {Min(todo)} /\ pc' = pc + 1
        /\ UNCHANGED <<script, market, test, seen, status, hurt>>
    BY <1>1, <1>4 DEF Take, SweepOps, SweepAt, world
  <2>2. /\ v.stage = "listed" /\ on.kind = "sweep" /\ on.stage = "taken" /\ (on.mark => v.mark)
        /\ off.kind = "sweep" /\ off.stage = "swept" /\ (off.mark => v.mark)
    BY <2>1 DEF SweepAt, SweepStep, SweepOps
  <2>3. Leftovers' = Leftovers /\ (AllLeft => AllLeft')
    BY <2>1 DEF AllLeft, Leftovers, Used
  <2>4. CASE todo = {}
    <3>1. pc' = pc + s.catch /\ UNCHANGED <<idx, todo>>
      BY <2>1, <2>4
    <3>2. SweepGoes(off)
      BY <3>1, <2>1, <2>2, <1>1 DEF SweepGoes
    <3>3. ASSUME 1 \notin hurt' PROVE SweepHolds(off)'
      <4>1. AllLeft /\ Listed(todo)
        BY <1>1, <2>1, <2>2, <3>3 DEF SweepHolds
      <4>2. AllOpen
        BY <4>1, <2>4 DEF Listed, AllOpen
      <4>3. SweepHolds(off)
        BY <4>1, <4>2, <2>2 DEF SweepHolds
      <4> QED BY <4>3, <3>1, <2>1, HoldsKept
    <3>4. Fits(off)'
      BY <3>2, <3>3, SweepOff
    <3> QED BY <3>1, <3>4, <2>1 DEF Advance, TestKeeps
  <2>5. CASE todo # {}
    <3>1. idx' = Min(todo) /\ todo' = todo \ {Min(todo)} /\ pc' = pc + 1
      BY <2>1, <2>5
    <3>2. todo \subseteq Slots \ {LP} /\ Min(todo) \in todo
      BY <1>1, <2>2, <2>5, MinOf
    <3>3. todo' \cup {idx'} = todo /\ idx' \notin todo'
      BY <3>1, <3>2
    <3>4. SweepGoes(on)
      BY <3>1, <3>2, <2>1, <2>2, <1>1 DEF SweepGoes
    <3>5. ASSUME 1 \notin hurt' PROVE SweepHolds(on)'
      <4>1. AllLeft /\ Listed(todo)
        BY <1>1, <2>1, <2>2, <3>5 DEF SweepHolds
      <4>2. Listed(todo \cup {idx})'
        BY <4>1, <3>3, <2>1, <2>3 DEF Listed
      <4> QED BY <4>1, <4>2, <2>2, <2>3 DEF SweepHolds
    <3> QED BY <3>1, <3>4, <3>5, <2>1, SweepPasses
  <2> QED BY <2>4, <2>5
<1> QED BY <1>2, <1>3, <1>4

LEMMA SweepMove ==
  ASSUME NEW s, NEW v, NEW on, NEW off, At(s, v), v.kind = "sweep", SweepStep(s, v, on, off),
         s.op \in Tests \cup {"Take"} => s.catch # 0, Move
  PROVE  Advance(s, on, off)
<1>1. CASE v.stage # "start"
  <2>1. SweepAt(s, v, on, off)
    BY <1>1 DEF SweepAt
  <2>2. /\ Shape /\ s = Body[pc] /\ script \in OnDeployed /\ TestSends(s)
        /\ s.op \in SweepOps \cup {"Read", "ReadFlat", "Take", "Go", "WithdrawSeen", "CloseAccount"}
    BY <2>1, SweepIs
  <2>3. s.op \notin {"InitUser", "Found", "Pick", "Say", "Wait"}
    BY <2>2 DEF SweepOps
  <2>4. TestKeeps
    BY <2>2, <2>3, TestMoves
  <2>5. ~ Find /\ ~ Say /\ ~ WaitForWarmup
    BY <2>2, <2>3 DEF Find, Say, WaitForWarmup
  <2> QED BY <2>1, <2>4, <2>5, SweepExecute, SweepRefuse, SweepFail, SweepReads, SweepLoops DEF Move
<1>2. CASE v.stage = "start"
  <2>1. s.op = "Read" /\ s.catch = 0 /\ on.kind = "asked" /\ off.kind = "dead" /\ v.mark
    BY <1>2 DEF SweepStep
  <2>2. IdleStep(s, Idle(TRUE), on, off)
    BY <2>1 DEF IdleStep, Idle
  <2>3. Fits(v)
    BY DEF At
  <2>4. Fits(Idle(TRUE))
    BY <2>1, <2>3 DEF Fits, FitsIdle, FitsSweep, Idle, TestKinds, DrillKinds
  <2>5. At(s, Idle(TRUE)) /\ Idle(TRUE).kind = "idle"
    BY <2>4 DEF At, Idle
  <2> QED BY <2>2, <2>5, IdleMove
<1> QED BY <1>1, <1>2

-----------------------------------------------------------------------------
(***************************************************************************)
(* The slab of a drill: nobody is short on it but the LP.                  *)
(***************************************************************************)
DrillAsks(m, op, i, n) ==
  /\ op = "PushOraclePrice" => n \in Prices
  /\ op = "DepositCollateral" => i \in Slots /\ n \in Nat
  /\ op = "TradeCpi" => i \in Slots \ {LP} /\ n \in Int /\ m.account[i].pos + n >= 0
  /\ op = "WithdrawCollateral" => i \in Slots /\ n \in Int
  /\ op = "CloseAccount" => i = LP
  /\ op = "AdminForceCloseAccount" => i \in Slots

(* What becomes of the account of a slot.                                  *)
Humble(m, r, k) ==
  /\ k # LP => r.account[k].pos >= 0
  /\ r.account[k].owner = STRANGER => m.account[k].owner = STRANGER

LEMMA HumbleSame ==
  ASSUME NEW m, Drilled(m), NEW r, NEW k \in Slots, r.account[k] = m.account[k] \/ r.account[k] = NoAccount
  PROVE  Humble(m, r, k)
BY Wallets DEF Humble, Drilled, NoAccount

LEMMA HumbleAll ==
  ASSUME NEW m, NEW r, \A k \in Slots : Humble(m, r, k), r.stage = "live" => r.mark
  PROVE  /\ Drilled(r)
         /\ (\A k \in Slots : m.account[k].owner # STRANGER) => \A k \in Slots : r.account[k].owner # STRANGER
BY DEF Humble, Drilled

LEMMA HumbleCrank ==
  ASSUME NEW m, Books(m), Drilled(m), m.stage = "live", NEW r \in Cranked(m)
  PROVE  /\ \A k \in Slots : Humble(m, r, k)
         /\ Keeps(m, r) /\ Used(r) \subseteq Used(m)
<1>1. CrankDoes(m, r)
  BY CrankIs
<1>2. m.account \in [Slots -> Account] /\ m.price \in Prices
  BY DEF Books, Market
<1>3. ASSUME NEW k \in Slots \ {LP} PROVE Humble(m, r, k) /\ (k \in Used(r) => k \in Used(m))
  <2>1. CASE k \in Used(m)
    <3> DEFINE u == Settled(m.account[k], m.price)
    <3>1. u \in Account /\ u.owner = m.account[k].owner /\ u.pos = m.account[k].pos /\ u.pos >= 0
      BY <1>2, SettledAccount DEF Drilled
    <3>2. MayBecome(u, r.account[k])
      BY <1>1, <2>1 DEF CrankDoes
    <3> HIDE DEF u
    <3>3. r.account[k].pos >= 0 /\ (r.account[k].owner = STRANGER => u.owner = STRANGER)
      BY <3>1, <3>2, Wallets DEF MayBecome, NoAccount, Account
    <3> QED BY <2>1, <3>1, <3>3 DEF Humble
  <2>2. CASE k \notin Used(m)
    <3>1. r.account[k] = NoAccount
      BY <1>1, <2>2 DEF CrankDoes
    <3> QED BY <3>1, HumbleSame DEF Used
  <2> QED BY <2>1, <2>2
<1>4. Books(r)
  BY CrankedBooks
<1>5. Humble(m, r, LP) /\ (LP \in Used(r) => LP \in Used(m)) /\ LP \in Slots
  <2>1. LP \in Slots /\ r.account[LP].owner = m.account[LP].owner
    BY <1>1, Natural DEF CrankDoes
  <2> QED BY <2>1, <1>4, BooksUsed DEF Humble
<1> QED BY <1>1, <1>3, <1>5 DEF CrankDoes, Keeps, Used

LEMMA HumbleOpened ==
  ASSUME NEW m, Books(m), Drilled(m), NEW op \in {"InitUser", "InitLP"}, NEW i, NEW n, NEW r \in Outcomes(m, op, i, n)
  PROVE  /\ \A k \in Slots : Humble(m, r, k)
         /\ Keeps(m, r) /\ m.stage = "live" /\ Head(m.free) \in Slots
<1> DEFINE h == Head(m.free)
<1>1. /\ m.stage = "live" /\ Keeps(m, r) /\ h \in Slots
      /\ r.account[h] = NewUser(m.price) \/ r.account[h] = NewLp(m.price)
      /\ \A k \in Slots \ {h} : r.account[k] = m.account[k]
  BY UserIs, LpIs
<1> HIDE DEF h
<1>2. r.account[h].pos = 0 /\ r.account[h].owner = PAYER
  BY <1>1 DEF NewUser, NewLp, Opening
<1>3. Humble(m, r, h)
  BY <1>2, Wallets DEF Humble
<1> QED BY <1>1, <1>3, HumbleSame DEF h

LEMMA HumbleTrade ==
  ASSUME NEW m, Books(m), Drilled(m), NEW i \in Slots \ {LP}, NEW n \in Int, m.account[i].pos + n >= 0,
         NEW r \in Outcomes(m, "TradeCpi", i, n)
  PROVE  /\ \A k \in Slots : Humble(m, r, k)
         /\ Keeps(m, r) /\ Used(r) \subseteq Used(m)
<1>1. /\ Mine(m, i) /\ m.account[LP].lp /\ Keeps(m, r) /\ r.account[i] = Swapped(m.account[i], m.price, n)
      /\ r.account[LP] = Swapped(m.account[LP], m.price, -n)
      /\ \A k \in Slots \ {i, LP} : r.account[k] = m.account[k]
  BY TradeIs
<1>2. m.account[i] \in Account /\ m.account[LP] \in Account /\ m.price \in Prices /\ LP \in Slots
  BY Natural DEF Books, Market
<1>3. r.account[i].pos = m.account[i].pos + n
  BY <1>1, <1>2, SwappedPos
<1>4. /\ r.account[i].owner = m.account[i].owner /\ r.account[LP].owner = m.account[LP].owner
  <2>1. /\ Settled(m.account[i], m.price) \in Account /\ Settled(m.account[LP], m.price) \in Account
        /\ Settled(m.account[i], m.price).owner = m.account[i].owner
        /\ Settled(m.account[LP], m.price).owner = m.account[LP].owner
    BY <1>2, SettledAccount
  <2> QED BY <2>1, <1>1 DEF Swapped, Account
<1>5. Mine(m, LP)
  BY <1>1, <1>2 DEF Books, Owned, Mine
<1>6. Humble(m, r, i) /\ Humble(m, r, LP) /\ \A k \in Slots \ {i, LP} : Humble(m, r, k)
  BY <1>1, <1>3, <1>4, HumbleSame DEF Humble
<1>7. i \in Used(m) /\ LP \in Used(m)
  BY <1>1, <1>2, <1>5, BooksUsed, Wallets DEF Mine
<1> QED BY <1>1, <1>6, <1>7 DEF Used

(* What an instruction of a drill makes of its slab.                       *)
DrillDoes(m, op, i, r) ==
  /\ Books(r) /\ Drilled(r)
  /\ (\A k \in Slots : m.account[k].owner # STRANGER) => \A k \in Slots : r.account[k].owner # STRANGER
  /\ op \notin {"CreateAccount", "InitMarket", "ResolveMarket", "CloseSlab"} => r.stage = m.stage
  /\ op = "CreateAccount" => m.stage = "none"
  /\ op = "InitMarket" => r.stage = "live" /\ m.stage = "blank"
  /\ op = "ResolveMarket" => r.stage = "resolved"
  /\ op = "CloseSlab" => r.stage = "closed"
  /\ op \in {"InitUser", "InitLP"} => m.stage = "live" /\ Head(m.free) \in Slots
  /\ op \notin {"InitUser", "InitLP"} => Used(r) \subseteq Used(m)
  /\ op \notin {"TopUpInsurance", "WithdrawInsurance"} => r.fund = m.fund
  /\ op = "TopUpInsurance" => m.stage = "live"
  /\ op = "WithdrawInsurance" => ~ r.fund
  /\ op = "AdminForceCloseAccount" => i \notin Used(r)

LEMMA DrillMarket ==
  ASSUME NEW m, Books(m), Drilled(m), NEW op \in Instructions, NEW i, NEW n, DrillAsks(m, op, i, n),
         NEW r \in Outcomes(m, op, i, n)
  PROVE  DrillDoes(m, op, i, r)
<1>1. m \in Market /\ m.account \in [Slots -> Account] /\ LP \in Slots
  BY Natural DEF Books, Market
<1>2. Legal(m, op, i, n)
  <2>1. op = "CloseAccount" => i \in Slots /\ \A k \in Slots \ {LP} : m.account[k].pos >= 0
    BY <1>1 DEF DrillAsks, Drilled
  <2> QED BY <2>1 DEF Legal, DrillAsks
<1>3. Books(r)
  BY <1>2, BooksKept
<1>4. CASE op \in General
  <2>1. r.account = m.account
    BY <1>1, <1>4, GeneralIs
  <2>2. \A k \in Slots : Humble(m, r, k)
    BY <2>1, HumbleSame
  <2>3. r.stage = "live" => r.mark
    BY <1>1, <1>4, GeneralIs DEF Drilled, General
  <2>4. Used(r) = Used(m)
    BY <2>1 DEF Used
  <2>5. /\ op \notin {"CreateAccount", "InitMarket", "ResolveMarket", "CloseSlab"} => r.stage = m.stage
        /\ op \notin {"TopUpInsurance", "WithdrawInsurance"} => r.fund = m.fund
        /\ op = "CreateAccount" => m.stage = "none"
        /\ op = "InitMarket" => m.stage = "blank" /\ r.stage = "live"
        /\ op = "ResolveMarket" => r.stage = "resolved"
        /\ op = "WithdrawInsurance" => ~ r.fund
        /\ op = "CloseSlab" => r.stage = "closed"
    BY <1>1, <1>4, GeneralIs
  <2>6. op = "TopUpInsurance" => m.stage = "live"
    BY OutTopUpInsurance
  <2> QED BY <1>3, <1>4, <2>2, <2>3, <2>4, <2>5, <2>6, HumbleAll DEF DrillDoes, General
<1>5. ASSUME \A k \in Slots : Humble(m, r, k), Keeps(m, r),
             op \notin General, op \notin {"InitUser", "InitLP"} => Used(r) \subseteq Used(m),
             op \in {"InitUser", "InitLP"} => m.stage = "live" /\ Head(m.free) \in Slots,
             op = "AdminForceCloseAccount" => i \notin Used(r)
      PROVE  DrillDoes(m, op, i, r)
  <2>1. r.stage = "live" => r.mark
    BY <1>5 DEF Keeps, Drilled
  <2> QED BY <1>3, <1>5, <2>1, HumbleAll DEF DrillDoes, Keeps, General
<1>6. CASE op = "KeeperCrank"
  <2>1. \/ m.stage = "live" /\ r \in Cranked(m)
        \/ r = m
    BY <1>6, OutKeeperCrank
  <2>2. (\A k \in Slots : Humble(m, r, k)) /\ Keeps(m, r) /\ Used(r) \subseteq Used(m)
    <3>1. r = m => (\A k \in Slots : Humble(m, r, k)) /\ Keeps(m, r)
      BY HumbleSame DEF Keeps
    <3> QED BY <2>1, <3>1, HumbleCrank
  <2> QED BY <1>5, <1>6, <2>2 DEF General
<1>7. CASE op \in {"InitUser", "InitLP"}
  BY <1>5, <1>7, HumbleOpened DEF General
<1>8. CASE op = "DepositCollateral"
  <2>1. i \in Slots
    BY <1>8 DEF DrillAsks
  <2>2. /\ Mine(m, i) /\ Keeps(m, r) /\ r.account[i] = [m.account[i] EXCEPT !.capital = @ + n]
        /\ \A k \in Slots \ {i} : r.account[k] = m.account[k]
    BY <2>1, <1>8, DepositIs
  <2>3. r.account[i].owner = m.account[i].owner /\ r.account[i].pos = m.account[i].pos
    BY <2>1, <2>2, <1>1 DEF Account
  <2>4. i \in Used(m)
    BY <2>1, <2>2, BooksUsed, Wallets DEF Mine
  <2>5. \A k \in Slots : Humble(m, r, k)
    BY <2>2, <2>3, HumbleSame DEF Humble, Drilled
  <2> QED BY <1>5, <1>8, <2>2, <2>4, <2>5 DEF General, Used
<1>9. CASE op = "TradeCpi"
  BY <1>5, <1>9, HumbleTrade DEF General, DrillAsks
<1>10. CASE op = "WithdrawCollateral"
  <2>1. i \in Slots
    BY <1>10 DEF DrillAsks
  <2>2. /\ Mine(m, i) /\ Keeps(m, r) /\ r.account[i] = Paid(m.account[i], m.price, n)
        /\ \A k \in Slots \ {i} : r.account[k] = m.account[k]
    BY <2>1, <1>10, WithdrawIs
  <2>3. r.account[i].owner = m.account[i].owner /\ r.account[i].pos = m.account[i].pos
    <3>1. m.account[i] \in Account /\ m.price \in Prices
      BY <2>1, <1>1 DEF Market
    <3> QED BY <3>1, <2>2, TouchedAccount DEF Paid, Account
  <2>4. i \in Used(m)
    BY <2>1, <2>2, BooksUsed, Wallets DEF Mine
  <2>5. \A k \in Slots : Humble(m, r, k)
    BY <2>2, <2>3, HumbleSame DEF Humble, Drilled
  <2> QED BY <1>5, <1>10, <2>2, <2>4, <2>5 DEF General, Used
<1>11. CASE op = "CloseAccount"
  <2>1. i \in Slots
    BY <1>1, <1>11 DEF DrillAsks
  <2>2. Keeps(m, r) /\ \A k \in Slots : r.account[k] = IF k = i THEN NoAccount ELSE m.account[k]
    BY <2>1, <1>11, CloseIs
  <2>3. \A k \in Slots : Humble(m, r, k)
    BY <2>2, HumbleSame
  <2> QED BY <1>5, <1>11, <2>2, <2>3 DEF General, Used
<1>12. CASE op = "AdminForceCloseAccount"
  <2>1. i \in Slots
    BY <1>12 DEF DrillAsks
  <2>2. Keeps(m, r) /\ \A k \in Slots : r.account[k] = IF k = i THEN NoAccount ELSE m.account[k]
    BY <2>1, <1>12, ForceIs
  <2>3. \A k \in Slots : Humble(m, r, k)
    BY <2>2, HumbleSame
  <2> QED BY <1>5, <1>12, <2>1, <2>2, <2>3 DEF General, Used
<1>13. CASE op = "LiquidateAtOracle"
  <2>1. /\ Keeps(m, r) /\ i \in Slots \ {LP} /\ i \in Used(m)
        /\ r.account[i] = [m.account[i] EXCEPT !.pos = 0]
        /\ r.account[LP] = [m.account[LP] EXCEPT !.pos = m.account[LP].pos + m.account[i].pos]
        /\ \A k \in Slots \ {i, LP} : r.account[k] = m.account[k]
    BY <1>13, LiquidateIs
  <2>2. /\ r.account[i].owner = m.account[i].owner /\ r.account[i].pos = 0
        /\ r.account[LP].owner = m.account[LP].owner
    BY <2>1, <1>1 DEF Account
  <2>3. Humble(m, r, i) /\ Humble(m, r, LP) /\ \A k \in Slots \ {i, LP} : Humble(m, r, k)
    BY <2>1, <2>2, HumbleSame DEF Humble
  <2>4. LP \in Used(r) => LP \in Used(m)
    BY <2>2, <1>1, <1>3, BooksUsed
  <2> QED BY <1>5, <1>13, <2>1, <2>3, <2>4 DEF General, Used
<1> QED BY <1>4, <1>6, <1>7, <1>8, <1>9, <1>10, <1>11, <1>12, <1>13 DEF Instructions, General

(* What holds of a run of a drill after a step.                            *)
LEMMA DrillKept ==
  ASSUME Shape, script \in OnOwnSlab, UNCHANGED <<script, test, joins>>, Books(market'), Drilled(market'),
         joins = 0 => \A i \in Slots : market'.account[i].owner # STRANGER,
         opened' = opened \/ (Head(market.free) \in Slots /\ opened' = [opened EXCEPT ![Head(market.free)] = test]),
         idx' \in Slots \cup {OWN}, todo' \subseteq Slots, said' \subseteq Slots, seen' \in [Slots -> Account],
         faults' \in 0 .. MaxFaults, hurt' \subseteq Nat
  PROVE  Shape'
<1> DEFINE h == Head(market.free)
<1>1. opened \in [Slots -> Nat] /\ test \in Nat /\ \A i \in Slots : opened[i] <= test
  BY DEF Shape
<1>2. opened' = opened \/ (h \in Slots /\ opened' = [opened EXCEPT ![h] = test])
  OBVIOUS
<1> HIDE DEF h
<1>3. opened' \in [Slots -> Nat] /\ \A i \in Slots : opened'[i] <= test'
  BY <1>1, <1>2
<1> QED BY <1>3 DEF Shape, OnDeployed, OnOwnSlab

(* What the step sends, if anything, is an instruction of the drills.      *)
SlabSends(s) ==
  Sends(s) => /\ Sent(s).op \in Instructions /\ DrillAsks(market, Sent(s).op, Slot(s), Sent(s).n)
              /\ s.op = "InitUser" => Sent(s).op = "InitUser"

LEMMA SlabDoes ==
  ASSUME Shape, script \in OnOwnSlab, NEW s, SlabSends(s), Sends(s), market' \in Results(s)
  PROVE  DrillDoes(market, Sent(s).op, Slot(s), market')
<1>1. Books(market) /\ Drilled(market)
  BY DEF Shape
<1>2. Sent(s).op \in Instructions /\ DrillAsks(market, Sent(s).op, Slot(s), Sent(s).n)
  BY DEF SlabSends
<1>3. market' \in Outcomes(market, Sent(s).op, Slot(s), Sent(s).n)
  BY DEF Results
<1> QED BY <1>1, <1>2, <1>3, DrillMarket

LEMMA SlabSent ==
  ASSUME Shape, script \in OnOwnSlab, NEW s, SlabSends(s), Opens(s), market' = market \/ (Sends(s) /\ market' \in Results(s)),
         UNCHANGED <<script, test, joins, idx, todo, seen, said>>, faults' \in 0 .. MaxFaults, hurt' \subseteq Nat
  PROVE  Shape'
<1>1. /\ Books(market) /\ Drilled(market) /\ (joins = 0 => \A i \in Slots : market.account[i].owner # STRANGER)
      /\ idx \in Slots \cup {OWN} /\ todo \subseteq Slots /\ said \subseteq Slots /\ seen \in [Slots -> Account]
  BY DEF Shape
<1>2. CASE market' = market
  <2>1. opened' = opened
    BY <1>2 DEF Opens
  <2> QED BY <1>1, <1>2, <2>1, DrillKept
<1>3. CASE Sends(s) /\ market' \in Results(s)
  <2>1. DrillDoes(market, Sent(s).op, Slot(s), market')
    BY <1>3, SlabDoes
  <2>2. /\ Books(market') /\ Drilled(market')
        /\ joins = 0 => \A i \in Slots : market'.account[i].owner # STRANGER
    BY <2>1, <1>1 DEF DrillDoes
  <2>3. s.op = "InitUser" => Head(market.free) \in Slots
    BY <2>1, <1>3 DEF DrillDoes, SlabSends
  <2>4. opened' = opened \/ (Head(market.free) \in Slots /\ opened' = [opened EXCEPT ![Head(market.free)] = test])
    BY <2>3 DEF Opens
  <2> QED BY <1>1, <2>2, <2>4, DrillKept
<1> QED BY <1>2, <1>3

LEMMA SlabMoves ==
  ASSUME Shape, script \in OnOwnSlab, NEW s, s = Body[pc], SlabSends(s), s.op \notin {"Found", "Wait"},
         s.op = "Pick" => s.slot \in Slots, s.op = "Say" => idx \in Slots, Move
  PROVE  Shape' /\ UNCHANGED <<script, test, joins>>
<1>1. /\ Books(market) /\ Drilled(market) /\ (joins = 0 => \A i \in Slots : market.account[i].owner # STRANGER)
      /\ idx \in Slots \cup {OWN} /\ todo \subseteq Slots /\ said \subseteq Slots /\ seen \in [Slots -> Account]
      /\ faults \in 0 .. MaxFaults /\ hurt \subseteq Nat /\ test \in Nat /\ market.account \in [Slots -> Account]
  BY DEF Shape, Books, Market
<1>2. CASE Execute
  <2>1. /\ Sends(s) /\ market' \in Results(s) /\ Opens(s)
        /\ UNCHANGED <<script, test, idx, seen, todo, status, faults, joins, hurt, said>>
    BY <1>2 DEF Execute
  <2> QED BY <2>1, <1>1, SlabSent
<1>3. CASE Refuse
  <2>1. UNCHANGED <<script, market, test, idx, seen, todo, faults, joins, opened, hurt, said>>
    BY <1>3 DEF Refuse, world
  <2> QED BY <2>1, <1>1, DrillKept
<1>4. CASE Fail
  <2>1. /\ (Sends(s) /\ market' \in Results(s)) \/ market' = market
        /\ Opens(s) /\ faults < MaxFaults /\ faults' = faults + 1 /\ hurt' = hurt \cup {test}
        /\ UNCHANGED <<script, test, idx, seen, todo, joins, said>>
    BY <1>4 DEF Fail
  <2>2. faults' \in 0 .. MaxFaults /\ hurt' \subseteq Nat
    BY <2>1, <1>1, LiveAssumption
  <2> QED BY <2>1, <2>2, SlabSent
<1>5. CASE GetState
  <2>1. /\ seen' = market.account
        /\ todo' = CASE s.op = "ReadUsed" -> Used(market)
                     [] s.op = "ReadFlat" -> {i \in Used(market) : market.account[i].pos = 0 /\ ~market.account[i].lp}
                     [] OTHER -> todo
        /\ UNCHANGED <<script, market, test, idx, faults, joins, opened, hurt, said>>
    BY <1>5 DEF GetState, world
  <2>2. todo' \subseteq Slots
    BY <2>1, <1>1 DEF Used
  <2> QED BY <2>1, <2>2, <1>1, DrillKept
<1>6. CASE Jump \/ Skip
  <2>1. UNCHANGED <<script, market, test, idx, seen, todo, faults, joins, opened, hurt, said>>
    BY <1>6 DEF Jump, Skip, world
  <2> QED BY <2>1, <1>1, DrillKept
<1>7. CASE Take
  <2>1. UNCHANGED <<script, market, test, seen, faults, joins, opened, hurt, said>>
    BY <1>7 DEF Take, world
  <2>2. idx' \in Slots \cup {OWN} /\ todo' \subseteq Slots
    <3>1. todo # {} => Min(todo) \in todo
      BY <1>1, MinOf
    <3>2. Users \subseteq Slots
      BY Natural DEF Users, Slots
    <3> QED BY <3>1, <3>2, <1>1, <1>7 DEF Take
  <2> QED BY <2>1, <2>2, <1>1, DrillKept
<1>8. CASE Say
  <2>1. said' = said \cup {idx} /\ UNCHANGED <<script, market, test, idx, seen, todo, faults, joins, opened, hurt>>
    BY <1>8 DEF Say
  <2>2. said' \subseteq Slots
    BY <2>1, <1>1, <1>8 DEF Say
  <2> QED BY <2>1, <2>2, <1>1, DrillKept
<1>9. ~ Find /\ ~ WaitForWarmup
  BY DEF Find, WaitForWarmup
<1>10. UNCHANGED <<script, test, joins>>
  BY DEF Move, Execute, Refuse, Fail, GetState, Find, Jump, Skip, Take, Say, WaitForWarmup, world
<1> QED BY <1>2, <1>3, <1>4, <1>5, <1>6, <1>7, <1>8, <1>9, <1>10 DEF Move

-----------------------------------------------------------------------------
(***************************************************************************)
(* A step of a drill.                                                      *)
(***************************************************************************)
DrillAt(s, v, on, off) ==
  /\ At(s, v) /\ v.kind = "drill" /\ DrillStep(s, v, on, off)
  /\ s.op \in Tests \cup {"Take"} => s.catch # 0

LEMMA DrillIs ==
  ASSUME NEW s, NEW v, NEW on, NEW off, DrillAt(s, v, on, off)
  PROVE  /\ Shape /\ s = Body[pc] /\ script \in OnOwnSlab /\ FitsDrill(v) /\ s.op \in DrillOps
         /\ SlabSends(s)
         /\ s.op = "Unwind" /\ Sends(s) => Sent(s).op = "TradeCpi"
         /\ s.op # "Unwind" /\ Sends(s) => Sent(s).op = s.op
         /\ s.op \in {"AdminForceCloseAccount", "Say"} => idx \in Slots /\ Slot(s) = idx
<1>1. /\ Shape /\ s = Body[pc] /\ s \in StepType /\ script \in OnOwnSlab /\ FitsDrill(v) /\ s.op \in DrillOps
      /\ DrillLegal(s, v)
  BY DEF DrillAt, DrillStep, At, Fits, DrillKinds
<1>2. /\ idx \in v.idx /\ seen \in [Slots -> Account] /\ Drilled(market) /\ market.account \in [Slots -> Account]
      /\ v.stage = "read" => seen[idx].pos = market.account[idx].pos
      /\ LP \in Slots /\ LP # OWN
  BY <1>1, Natural DEF FitsDrill, Shape, Books, Market, LP, OWN
<1>3. ASSUME NEW S, Names(s, v, S) PROVE Slot(s) \in S
  BY <1>2, <1>3 DEF Names, Slot
<1>4. s.op \in {"AdminForceCloseAccount", "Say"} => idx \in Slots /\ Slot(s) = idx
  BY <1>1, <1>2 DEF DrillLegal, Slot
<1>5. CASE s.op = "Unwind"
  <2>1. Slot(s) = idx /\ idx \in Slots \ {LP} /\ v.stage = "read"
    BY <1>1, <1>2, <1>5 DEF DrillLegal, Slot
  <2>2. Sent(s) = [op |-> "TradeCpi", n |-> -Known.pos]
    BY <1>5 DEF Sent, Instructions
  <2>3. Known.pos = market.account[idx].pos /\ market.account[idx].pos \in Int
    BY <2>1, <1>2 DEF Known, Account
  <2>4. SlabSends(s)
    BY <2>1, <2>2, <2>3, <1>5 DEF SlabSends, DrillAsks, Instructions
  <2> QED BY <1>1, <1>5, <2>2, <2>4
<1>6. CASE s.op \in Instructions
  <2>1. Sent(s) = [op |-> s.op, n |-> s.n] /\ s.op # "WithdrawCollateral"
    BY <1>1, <1>6 DEF Sent, Instructions, DrillOps
  <2>2. s.op = "TradeCpi" => Slot(s) \in Slots \ {LP} /\ s.n \in Int /\ market.account[Slot(s)].pos + s.n >= 0
    <3>1. ASSUME s.op = "TradeCpi" PROVE Slot(s) \in Slots \ {LP} /\ s.n \in Nat
      BY <1>1, <1>3, <3>1 DEF DrillLegal
    <3>2. \A k \in Slots \ {LP} : market.account[k].pos >= 0 /\ market.account[k].pos \in Int
      BY <1>2 DEF Drilled, Account
    <3> QED BY <3>1, <3>2
  <2>3. s.op = "CloseAccount" => Slot(s) = LP
    BY <1>1, <1>2 DEF DrillLegal, Slot
  <2>4. DrillAsks(market, s.op, Slot(s), s.n)
    BY <1>1, <1>3, <1>4, <2>1, <2>2, <2>3 DEF DrillAsks, DrillLegal
  <2>5. SlabSends(s)
    BY <2>1, <2>4, <1>6 DEF SlabSends
  <2>6. s.op # "Unwind"
    BY <1>6 DEF Instructions
  <2> QED BY <1>1, <1>4, <2>1, <2>5, <2>6
<1>7. CASE s.op \notin Instructions \cup {"Unwind"}
  <2>1. ~ Sends(s)
    BY <1>1, <1>7 DEF Sends, DrillOps
  <2> QED BY <1>1, <1>4, <1>7, <2>1 DEF SlabSends
<1> QED BY <1>5, <1>6, <1>7

LEMMA DrillMoves ==
  ASSUME NEW s, NEW v, NEW on, NEW off, DrillAt(s, v, on, off), Move
  PROVE  Shape' /\ UNCHANGED <<script, test, joins>> /\ script' \in OnOwnSlab
<1>1. /\ Shape /\ s = Body[pc] /\ script \in OnOwnSlab /\ s.op \in DrillOps /\ SlabSends(s)
      /\ s.op = "Say" => idx \in Slots
  BY DrillIs
<1>2. s.op \notin {"Found", "Wait", "Pick"}
  BY <1>1 DEF DrillOps, Instructions
<1> QED BY <1>1, <1>2, SlabMoves

(* How far an undisturbed drill has come.                                  *)
Far(w) ==
  /\ w.stage \in {"live", "read"} => market.stage = "live"
  /\ w.stage \in {"resolved", "listed", "taken", "empty", "paid"} => market.stage = "resolved"
  /\ w.stage = "listed" => Used(market) \subseteq todo
  /\ w.stage = "taken" => Used(market) \subseteq todo \cup {idx}
  /\ w.stage \in {"empty", "paid"} => Used(market) = {}
  /\ w.stage = "paid" => ~ market.fund
  /\ w.stage = "closed" => market.stage = "closed"

LEMMA FarWhen == \A v : FitsDrill(v) /\ Quiet => Far(v)
BY DEF FitsDrill, Far

LEMMA DrillFits ==
  ASSUME NEW w, w.kind = "drill", script' \in OnOwnSlab, todo' \subseteq w.todo, idx' \in w.idx,
         w.stage = "read" => idx' \in Slots /\ seen'[idx'].pos = market'.account[idx'].pos,
         Quiet' => Far(w)'
  PROVE  Fits(w)'
<1>1. FitsDrill(w)'
  BY DEF FitsDrill, Far
<1> QED BY <1>1 DEF Fits, TestKinds, DrillKinds

LEMMA DeadFits ==
  ASSUME NEW w, w.kind = "dead", script' \in OnOwnSlab
  PROVE  Fits(w)'
BY DEF Fits, TestKinds, DrillKinds, OnDeployed, OnOwnSlab

(* An instruction that is executed.                                        *)
LEMMA FarDone ==
  ASSUME NEW v, NEW w, Far(v), NEW op, NEW sent, NEW i, sent = IF op = "Unwind" THEN "TradeCpi" ELSE op,
         sent \in Instructions, DrillDoes(market, sent, i, market'),
         op = "AdminForceCloseAccount" => i = idx, UNCHANGED <<todo, idx>>, Reaches(op, v.stage, w.stage)
  PROVE  Far(w)'
<1>1. /\ sent \notin {"CreateAccount", "InitMarket", "ResolveMarket", "CloseSlab"} => market'.stage = market.stage
      /\ sent = "CreateAccount" => market.stage = "none"
      /\ sent = "InitMarket" => market'.stage = "live" /\ market.stage = "blank"
      /\ sent = "ResolveMarket" => market'.stage = "resolved"
      /\ sent = "CloseSlab" => market'.stage = "closed"
      /\ sent \notin {"InitUser", "InitLP"} => Used(market') \subseteq Used(market)
      /\ sent = "WithdrawInsurance" => ~ market'.fund
      /\ sent = "AdminForceCloseAccount" => i \notin Used(market')
  BY DEF DrillDoes
<1>2. op \notin {"Read", "ReadUsed", "Take"}
  BY DEF Instructions
<1>3. CASE w.stage = "live"
  BY <1>1, <1>3 DEF Far, Reaches, LiveStages
<1>4. CASE w.stage = "resolved"
  BY <1>1, <1>4 DEF Far, Reaches, ResolvedStages
<1>5. CASE w.stage = "listed"
  <2>1. v.stage = "taken" /\ op = "AdminForceCloseAccount"
    BY <1>2, <1>5 DEF Reaches
  <2>2. market'.stage = "resolved" /\ Used(market') \subseteq Used(market) /\ idx \notin Used(market')
    BY <1>1, <2>1 DEF Far
  <2> QED BY <2>1, <2>2, <1>5 DEF Far
<1>6. CASE w.stage = "paid"
  <2>1. v.stage = "empty" /\ op = "WithdrawInsurance"
    BY <1>2, <1>6 DEF Reaches
  <2>2. market'.stage = "resolved" /\ Used(market') \subseteq Used(market) /\ ~ market'.fund
    BY <1>1, <2>1 DEF Far
  <2> QED BY <2>1, <2>2, <1>6 DEF Far
<1>7. CASE w.stage = "closed"
  BY <1>1, <1>7 DEF Far, Reaches
<1>8. w.stage \notin {"read", "taken", "empty"}
  BY <1>2 DEF Reaches
<1> QED BY <1>3, <1>4, <1>5, <1>6, <1>7, <1>8 DEF Far

(* A step that leaves the slab alone.                                      *)
LEMMA FarOn ==
  ASSUME NEW v, NEW w, Far(v), NEW op, op \notin Instructions, market' = market, Reaches(op, v.stage, w.stage),
         op = "ReadUsed" => todo' = Used(market), op = "Take" => todo \subseteq todo' \cup {idx'}
  PROVE  Far(w)'
<1>1. op \notin {"InitMarket", "ResolveMarket", "AdminForceCloseAccount", "WithdrawInsurance", "CloseSlab"}
  BY DEF Instructions
<1>2. CASE w.stage \in {"live", "read"}
  BY <1>1, <1>2 DEF Far, Reaches, LiveStages
<1>3. CASE w.stage = "resolved"
  BY <1>1, <1>3 DEF Far, Reaches, ResolvedStages
<1>4. CASE w.stage = "listed"
  BY <1>1, <1>4 DEF Far, Reaches, ResolvedStages
<1>5. CASE w.stage = "taken"
  BY <1>1, <1>5 DEF Far, Reaches
<1>6. CASE w.stage \in {"empty", "paid"}
  BY <1>1, <1>6 DEF Far, Reaches
<1>7. w.stage # "closed"
  BY <1>1 DEF Reaches
<1> QED BY <1>2, <1>3, <1>4, <1>5, <1>6, <1>7 DEF Far

(* A step that throws or jumps, and is not one that never throws.          *)
LEMMA FarOff ==
  ASSUME NEW v, NEW w, Far(v), NEW op, UNCHANGED <<market, todo, idx>>, FallsTo(op, v.stage, w.stage), ~ Sure(op, v.stage),
         op = "Take" => todo = {}, op = "AdminForceCloseAccount" => idx \notin Used(market)
  PROVE  Far(w)'
BY DEF Far, FallsTo, LiveStages

LEMMA SureNot ==
  ASSUME Shape, script \in OnOwnSlab, NEW v, Far(v), NEW op, Sure(op, v.stage), NEW i, NEW n
  PROVE  Outcomes(market, op, i, n) # {}
<1>1. market.stage = "live" => market.mark
  BY DEF Shape, Drilled
<1>2. CASE v.stage \in LiveStages /\ op = "PushOraclePrice"
  BY <1>1, <1>2, OutPushOraclePrice DEF Far, LiveStages
<1>3. CASE v.stage \in LiveStages /\ op = "ResolveMarket"
  BY <1>1, <1>3, OutResolveMarket DEF Far, LiveStages
<1>4. CASE v.stage \in LiveStages /\ op = "KeeperCrank"
  BY <1>4, OutKeeperCrank DEF Far, LiveStages, Cranked
<1>5. CASE v.stage \in ResolvedStages /\ op = "KeeperCrank"
  BY <1>5, OutKeeperCrank DEF Far, ResolvedStages
<1>6. CASE v.stage \in {"empty", "paid"} /\ op = "WithdrawInsurance"
  BY <1>6, OutWithdrawInsurance DEF Far
<1>7. CASE v.stage = "paid" /\ op = "CloseSlab"
  BY <1>7, OutCloseSlab DEF Far
<1> QED BY <1>2, <1>3, <1>4, <1>5, <1>6, <1>7 DEF Sure

LEMMA DrillMove ==
  ASSUME NEW s, NEW v, NEW on, NEW off, At(s, v), v.kind = "drill", DrillStep(s, v, on, off),
         s.op \in Tests \cup {"Take"} => s.catch # 0, Move
  PROVE  Advance(s, on, off)
<1>1. DrillAt(s, v, on, off)
  BY DEF DrillAt
<1>2. /\ Shape /\ s = Body[pc] /\ script \in OnOwnSlab /\ FitsDrill(v) /\ s.op \in DrillOps
      /\ SlabSends(s)
      /\ s.op = "Unwind" /\ Sends(s) => Sent(s).op = "TradeCpi"
      /\ s.op # "Unwind" /\ Sends(s) => Sent(s).op = s.op
      /\ s.op \in {"AdminForceCloseAccount", "Say"} => idx \in Slots /\ Slot(s) = idx
  BY <1>1, DrillIs
<1>3. Shape' /\ UNCHANGED <<script, test, joins>> /\ script' \in OnOwnSlab
  BY <1>1, DrillMoves
<1>4. s.op # "Go" =>
        /\ on.kind = "drill" /\ Reaches(s.op, v.stage, on.stage)
        /\ CASE s.op = "ReadUsed" -> Slots \subseteq on.todo
             [] s.op = "Each"     -> Users \subseteq on.todo
             [] OTHER             -> v.todo \subseteq on.todo
        /\ CASE s.op = "Take" -> v.todo \subseteq on.idx
             [] s.op = "IsLp" -> v.idx \ {LP} \subseteq on.idx
             [] OTHER         -> v.idx \subseteq on.idx
        /\ on.stage = "read" => on.idx \subseteq Slots
  BY DEF DrillStep
<1>5. \/ off.kind = "dead" /\ s.op \notin {"Take", "Flat", "IsLp", "Go"}
      \/ /\ off.kind = "drill" /\ FallsTo(s.op, v.stage, off.stage)
         /\ v.todo \subseteq off.todo /\ v.idx \subseteq off.idx
  BY DEF DrillStep
<1>6. todo \subseteq v.todo /\ idx \in v.idx /\ (Quiet => Far(v)) /\ todo \subseteq Slots
  BY <1>2, FarWhen DEF FitsDrill, Shape
<1>7. off.kind = "drill" => off.stage # "read"
  BY <1>5 DEF FallsTo
(* Where a step that throws or jumps leads to.                             *)
<1>8. ASSUME UNCHANGED <<todo, idx>>, Quiet' => (off.kind = "drill" => Far(off)')
      PROVE  Fits(off)'
  BY <1>3, <1>5, <1>6, <1>7, <1>8, DrillFits, DeadFits
<1>9. CASE Execute
  <2>1. /\ Sends(s) /\ market' \in Results(s) /\ pc' = pc + 1
        /\ UNCHANGED <<idx, seen, todo, status, joins, hurt>>
    BY <1>2, <1>9 DEF Execute
  <2>2. s.op \in Instructions \cup {"Unwind"} /\ s.op \notin {"ReadUsed", "Each", "Take", "IsLp", "Go", "Read"}
    BY <1>2, <2>1 DEF Sends, Instructions, DrillOps
  <2>3. DrillDoes(market, Sent(s).op, Slot(s), market') /\ Sent(s).op \in Instructions
    BY <1>2, <2>1, SlabDoes DEF SlabSends
  <2>4. Sent(s).op = IF s.op = "Unwind" THEN "TradeCpi" ELSE s.op
    BY <1>2, <2>1
  <2>5. on.kind = "drill" /\ Reaches(s.op, v.stage, on.stage) /\ todo' \subseteq on.todo /\ idx' \in on.idx
    BY <1>4, <1>6, <2>1, <2>2
  <2>6. Quiet' => Far(on)'
    <3> SUFFICES ASSUME Quiet' PROVE Far(on)'
      OBVIOUS
    <3>1. Far(v)
      BY <1>6, <2>1 DEF Quiet
    <3>2. s.op = "AdminForceCloseAccount" => Slot(s) = idx
      BY <1>2
    <3> QED BY <3>1, <3>2, <2>1, <2>3, <2>4, <2>5, FarDone
  <2>7. on.stage # "read"
    BY <2>2, <2>5 DEF Reaches
  <2>8. Fits(on)'
    BY <1>3, <2>5, <2>6, <2>7, DrillFits
  <2> QED BY <1>3, <2>1, <2>8, Passed
<1>10. CASE Refuse
  <2>1. Sends(s) /\ (Results(s) = {} \/ Withstood(s)) /\ Throw(s) /\ UNCHANGED <<market, idx, todo, joins, hurt>>
    BY <1>2, <1>10 DEF Refuse, world
  <2>2. ASSUME Quiet', off.kind = "drill" PROVE Far(off)'
    <3>1. Far(v) /\ joins = 0
      BY <1>6, <2>1, <2>2 DEF Quiet
    <3>2. \/ Outcomes(market, Sent(s).op, Slot(s), Sent(s).n) = {}
          \/ s.op \in {"TradeCpi", "Unwind", "LiquidateAtOracle", "CloseAccount"}
      BY <1>2, <2>1 DEF Results, Withstood, OnDeployed, OnOwnSlab
    <3>3. ~ Sure(s.op, v.stage)
      <4> SUFFICES ASSUME Sure(s.op, v.stage) PROVE FALSE
        OBVIOUS
      <4>1. Sent(s).op = s.op
        BY <1>2, <2>1 DEF Sure
      <4>2. s.op \notin {"TradeCpi", "Unwind", "LiquidateAtOracle", "CloseAccount"}
        BY DEF Sure
      <4> QED BY <4>1, <4>2, <3>1, <3>2, <1>2, SureNot
    <3>4. s.op = "AdminForceCloseAccount" /\ v.stage = "taken" => idx \notin Used(market)
      <4> SUFFICES ASSUME s.op = "AdminForceCloseAccount", v.stage = "taken" PROVE idx \notin Used(market)
        OBVIOUS
      <4>1. Sent(s).op = s.op /\ Slot(s) = idx /\ idx \in Slots
        BY <1>2, <2>1
      <4>2. Outcomes(market, "AdminForceCloseAccount", idx, Sent(s).n) = {}
        BY <4>1, <3>2
      <4>3. ~ Mine(market, idx)
        BY <4>2, <3>1, OutAdminForceCloseAccount DEF Far
      <4>4. market.account[idx].owner = "none"
        <5>1. market.account[idx] \in Account /\ market.account[idx].owner # STRANGER
          BY <4>1, <3>1, <1>2 DEF Shape, Books, Market
        <5> QED BY <5>1, <4>3 DEF Account, Mine
      <4> QED BY <4>1, <4>4, <1>2, BooksUsed DEF Shape
    <3>5. s.op # "Take"
      BY <2>1 DEF Sends, Instructions
    <3>6. FallsTo(s.op, v.stage, off.stage)
      BY <1>5, <2>2
    <3>7. CASE s.op # "AdminForceCloseAccount" \/ v.stage = "taken"
      BY <3>1, <3>3, <3>4, <3>5, <3>6, <3>7, <2>1, FarOff
    <3>8. CASE s.op = "AdminForceCloseAccount" /\ v.stage # "taken"
      BY <3>1, <3>3, <3>6, <3>8, <2>1 DEF Far, FallsTo, LiveStages
    <3> QED BY <3>7, <3>8
  <2>3. Fits(off)'
    BY <2>1, <2>2, <1>8
  <2> QED BY <1>3, <2>1, <2>3, Thrown
<1>11. CASE Fail
  <2>1. Throw(s) /\ UNCHANGED <<idx, todo>> /\ hurt' = hurt \cup {test}
    BY <1>2, <1>11 DEF Fail
  <2>2. Fits(off)'
    BY <2>1, <1>8 DEF Quiet
  <2> QED BY <1>3, <2>1, <2>2, Thrown
<1>12. CASE GetState
  <2>1. /\ s.op \in {"Read", "ReadUsed"} /\ seen' = market.account /\ UNCHANGED <<market, idx, joins, hurt>>
        /\ s.op = "ReadUsed" => todo' = Used(market)
        /\ s.op = "Read" => todo' = todo
        /\ pc' = pc + 1 /\ UNCHANGED status
    BY <1>2, <1>12 DEF GetState, Reads, DrillOps, Instructions, world
  <2>2. /\ on.kind = "drill" /\ Reaches(s.op, v.stage, on.stage) /\ todo' \subseteq on.todo /\ idx' \in on.idx
        /\ on.stage = "read" => on.idx \subseteq Slots
    BY <1>4, <1>6, <2>1 DEF Used
  <2>3. Quiet' => Far(on)'
    <3>1. s.op \notin Instructions /\ s.op # "Take"
      BY <2>1 DEF Instructions
    <3>2. Quiet' => Far(v)
      BY <1>6, <2>1 DEF Quiet
    <3> QED BY <3>1, <3>2, <2>1, <2>2, FarOn
  <2>4. Fits(on)'
    BY <1>3, <2>1, <2>2, <2>3, DrillFits
  <2> QED BY <1>3, <2>1, <2>4, Passed
(* A step that sends nothing and leads on.                                 *)
<1>13. ASSUME UNCHANGED <<market, seen, status, joins, hurt>>, pc' = pc + 1, s.op \in {"Unwind", "Each", "Take", "Say", "Flat", "IsLp"},
              s.op # "Each" => todo' \subseteq todo, s.op = "Each" => todo' \subseteq Users,
              s.op # "Take" => idx' = idx, s.op = "Take" => idx' \in todo /\ todo \subseteq todo' \cup {idx'},
              s.op = "IsLp" => idx # LP
       PROVE  Advance(s, on, off)
  <2>1. /\ on.kind = "drill" /\ Reaches(s.op, v.stage, on.stage) /\ on.stage # "read"
    BY <1>4, <1>13 DEF Reaches
  <2>2. todo' \subseteq on.todo
    BY <1>4, <1>6, <1>13
  <2>3. idx' \in on.idx
    BY <1>4, <1>6, <1>13
  <2>4. Quiet' => Far(on)'
    <3>1. s.op \notin Instructions /\ s.op # "ReadUsed"
      BY <1>13 DEF Instructions
    <3>2. Quiet' => Far(v)
      BY <1>6, <1>13 DEF Quiet
    <3> QED BY <3>1, <3>2, <1>13, <2>1, FarOn
  <2>5. Fits(on)'
    BY <1>3, <2>1, <2>2, <2>3, <2>4, DrillFits
  <2> QED BY <1>3, <1>13, <2>5, Passed
<1>14. ASSUME UNCHANGED <<market, status, joins, hurt, todo, idx>>, pc' = pc + s.catch, s.catch # 0,
              s.op \in {"Take", "Flat", "IsLp", "Go"}, s.op = "Take" => todo = {}
       PROVE  Advance(s, on, off)
  <2>1. off.kind = "drill" /\ FallsTo(s.op, v.stage, off.stage) /\ ~ Sure(s.op, v.stage)
    BY <1>5, <1>14 DEF Sure
  <2>2. Quiet' => Far(off)'
    BY <1>6, <1>14, <2>1, FarOff DEF Quiet
  <2>3. Fits(off)'
    BY <1>8, <1>14, <2>2
  <2> QED BY <1>3, <1>14, <2>3 DEF Advance
<1>15. CASE Jump
  <2>1. /\ s.op \in {"Flat", "IsLp", "Go"} /\ s.catch # 0 /\ pc' = (IF Holds(s) THEN pc + s.catch ELSE pc + 1)
        /\ UNCHANGED <<market, idx, seen, todo, status, joins, hurt>>
    BY <1>2, <1>15 DEF Jump, Tests, DrillOps, Instructions, world
  <2>2. (s.op = "Go" => Holds(s)) /\ (s.op = "IsLp" => (Holds(s) <=> idx = LP))
    BY DEF Holds
  <2>3. CASE Holds(s)
    BY <2>1, <2>3, <1>14
  <2>4. CASE ~ Holds(s)
    BY <2>1, <2>2, <2>4, <1>13
  <2> QED BY <2>3, <2>4
<1>16. CASE Skip
  <2>1. s.op = "Unwind" /\ pc' = pc + 1 /\ UNCHANGED <<market, idx, seen, todo, status, joins, hurt>>
    BY <1>2, <1>16 DEF Skip, DrillOps, Instructions, world
  <2> QED BY <2>1, <1>13
<1>17. CASE Take
  <2>1. UNCHANGED <<market, seen, status, joins, hurt>> /\ s.op # "Pick"
    BY <1>2, <1>17 DEF Take, DrillOps, Instructions, world
  <2>2. CASE s.op = "Each"
    BY <1>2, <1>13, <1>17, <2>1, <2>2 DEF Take
  <2>3. CASE s.op = "Take" /\ todo = {}
    BY <1>2, <1>14, <1>17, <2>1, <2>3 DEF Take
  <2>4. CASE s.op = "Take" /\ todo # {}
    <3>1. Min(todo) \in todo
      BY <1>6, <2>4, MinOf
    <3>2. idx' = Min(todo) /\ todo' = todo \ {Min(todo)} /\ pc' = pc + 1
      BY <1>2, <1>17, <2>4 DEF Take
    <3> HIDE DEF Min
    <3>3. idx' \in todo /\ todo' \subseteq todo /\ todo \subseteq todo' \cup {idx'}
      BY <3>1, <3>2
    <3> QED BY <3>2, <3>3, <2>1, <2>4, <1>13
  <2> QED BY <2>1, <2>2, <2>3, <2>4, <1>2, <1>17 DEF Take
<1>18. CASE Say
  <2>1. s.op = "Say" /\ pc' = pc + 1 /\ UNCHANGED <<market, idx, seen, todo, status, joins, hurt>>
    BY <1>2, <1>18 DEF Say
  <2> QED BY <2>1, <1>13
<1>19. ~ Find /\ ~ WaitForWarmup
  BY <1>2 DEF Find, WaitForWarmup, DrillOps, Instructions
<1> QED BY <1>9, <1>10, <1>11, <1>12, <1>15, <1>16, <1>17, <1>18, <1>19 DEF Move

-----------------------------------------------------------------------------
(***************************************************************************)
(* live-verify while nothing moves: at the price of the entry an account   *)
(* is worth what it was.                                                   *)
(***************************************************************************)
LEMMA CalmAccount ==
  ASSUME NEW a \in Account, a.at = 0, a.pnl = "none"
  PROVE  Settled(a, 0) = a /\ Touched(a, 0) = a
<1> DEFINE u == Settled(a, 0)
<1>1. a.pos * (0 - a.at) = 0
  BY DEF Account
<1>2. u = [a EXCEPT !.at = 0]
  <2> DEFINE g == a.pos * (0 - a.at)
  <2>1. u = [a EXCEPT !.at = 0, !.capital = IF g < 0 THEN Floor(a.capital + g) ELSE a.capital,
                      !.pnl = IF g > 0 THEN "warming" ELSE a.pnl]
    BY DEF Settled
  <2>2. g = 0
    BY <1>1
  <2> HIDE DEF g
  <2>3. ~ (g < 0) /\ ~ (g > 0)
    BY <2>2
  <2> QED BY <2>1, <2>3 DEF Account
<1>3. u = a
  BY <1>2 DEF Account
<1> QED BY <1>3 DEF Touched

Steady(m) == \A k \in Slots \ {LP} : m.account[k].pos # 0 => m.account[k].capital >= 1

LEMMA CalmIsSteady ==
  ASSUME NEW m, Even(m) \/ One(m)
  PROVE  Steady(m)
BY DEF Even, One, Steady

(* The accounts are what they were, but for empty ones.                    *)
Calmly(m, r) ==
  /\ Still(r) /\ \A k \in Slots : r.account[k].pos = m.account[k].pos
  /\ \A k \in Slots \ {LP} : m.account[k].pos # 0 => Mine(r, k) = Mine(m, k) /\ r.account[k].capital = m.account[k].capital
  /\ r.account[LP].lp = m.account[LP].lp

LEMMA CalmKeeps ==
  ASSUME NEW m, NEW r, Calmly(m, r)
  PROVE  /\ Even(m) => Even(r)
         /\ One(m) /\ r.stage = "live" => One(r)
<1>1. Even(m) => Even(r)
  BY DEF Calmly, Even
<1>2. ASSUME One(m), r.stage = "live" PROVE One(r)
  <2>1. 1 \in Slots \ {LP} /\ LP \in Slots
    BY Natural DEF Slots, LP
  <2>2. Mine(r, 1) /\ r.account[1].capital >= 1
    BY <1>2, <2>1 DEF One, Calmly
  <2> QED BY <1>2, <2>1, <2>2 DEF One, Calmly
<1> QED BY <1>1, <1>2

LEMMA CalmCranked ==
  ASSUME NEW m, Books(m), m.stage = "live", Still(m), Steady(m), NEW r \in Cranked(m)
  PROVE  Calmly(m, r) /\ r.stage = "live"
<1>1. CrankDoes(m, r) /\ m.price = 0
  BY CrankIs DEF Still
<1>2. m.account \in [Slots -> Account] /\ LP \in Slots
  BY Natural DEF Books, Market
<1>3. \A k \in Slots : Settled(m.account[k], 0) = m.account[k]
  BY <1>2, CalmAccount DEF Still
<1>4. ASSUME NEW k \in Slots \ {LP}
      PROVE  \/ r.account[k] = m.account[k]
             \/ r.account[k] = NoAccount /\ m.account[k].pos = 0
  <2>1. CASE k \in Used(m)
    <3>1. MayBecome(m.account[k], r.account[k])
      BY <1>1, <1>3, <2>1 DEF CrankDoes
    <3>2. m.account[k].pos # 0 => m.account[k].capital # 0
      BY <1>2 DEF Steady, Account
    <3> QED BY <3>1, <3>2 DEF MayBecome
  <2>2. CASE k \notin Used(m)
    BY <1>1, <2>2 DEF CrankDoes, Used
  <2> QED BY <2>1, <2>2
<1>5. /\ r.account[LP].at = 0 /\ r.account[LP].pnl = "none" /\ r.account[LP].pos = m.account[LP].pos
      /\ r.account[LP].lp = m.account[LP].lp
  <2>1. m.account[LP].at = 0 /\ m.account[LP].pnl = "none"
    BY <1>2 DEF Still
  <2>2. ~ \E i \in Used(m) \ {LP} : m.account[i].pos # 0 /\ Settled(m.account[i], m.price).capital = 0
    BY <1>1, <1>2, <1>3 DEF Steady, Account, Used
  <2> QED BY <2>1, <2>2, <1>1 DEF CrankDoes
<1>6. Still(r)
  BY <1>1, <1>4, <1>5 DEF Still, CrankDoes, NoAccount
<1>7. \A k \in Slots : r.account[k].pos = m.account[k].pos
  BY <1>4, <1>5 DEF NoAccount
<1> QED BY <1>1, <1>4, <1>5, <1>6, <1>7 DEF Calmly, Mine, CrankDoes

(* What may be sent while the market is flat, but for the trade.           *)
LEMMA CalmFlat ==
  ASSUME NEW m, Books(m), Still(m), Even(m),
         NEW op \in {"CreateAccount", "InitMarket", "SetOracleAuthority", "PushOraclePrice", "KeeperCrank",
                     "InitLP", "InitUser", "DepositCollateral", "TopUpInsurance"},
         NEW i, NEW n, op = "PushOraclePrice" => n = 0, op = "DepositCollateral" => i \in Slots /\ n \in Nat,
         NEW r \in Outcomes(m, op, i, n)
  PROVE  Still(r) /\ Even(r)
<1>1. m \in Market /\ m.account \in [Slots -> Account] /\ LP \in Slots
  BY Natural DEF Books, Market
<1>2. CASE op \in General
  BY <1>1, <1>2, GeneralIs DEF Still, Even, General
<1>3. CASE op = "KeeperCrank"
  <2>1. (m.stage = "live" /\ r \in Cranked(m)) \/ r = m
    BY <1>3, OutKeeperCrank
  <2> QED BY <2>1, CalmCranked, CalmKeeps, CalmIsSteady DEF Calmly
<1>4. CASE op \in {"InitLP", "InitUser"}
  <2> DEFINE h == Head(m.free)
  <2>1. /\ Keeps(m, r) /\ h \in Slots
        /\ r.account[h] = NewUser(m.price) \/ r.account[h] = NewLp(m.price)
        /\ \A k \in Slots \ {h} : r.account[k] = m.account[k]
    BY <1>4, UserIs, LpIs
  <2> HIDE DEF h
  <2>2. r.account[h].pos = 0 /\ r.account[h].at = 0 /\ r.account[h].pnl = "none"
    BY <2>1 DEF NewUser, NewLp, Opening, Still
  <2> QED BY <2>1, <2>2 DEF Still, Even, Keeps
<1>5. CASE op = "DepositCollateral"
  <2>1. i \in Slots
    BY <1>5
  <2>2. /\ m.stage = "live" /\ Mine(m, i) /\ Keeps(m, r)
        /\ r.account[i] = [m.account[i] EXCEPT !.capital = @ + n]
        /\ \A k \in Slots \ {i} : r.account[k] = m.account[k]
    BY <2>1, <1>5, DepositIs
  <2>3. r.account[i].pos = m.account[i].pos /\ r.account[i].at = m.account[i].at /\ r.account[i].pnl = m.account[i].pnl
    BY <2>1, <2>2, <1>1 DEF Account
  <2> QED BY <2>1, <2>2, <2>3 DEF Still, Even, Keeps
<1> QED BY <1>2, <1>3, <1>4, <1>5 DEF General

LEMMA CalmSwapped ==
  ASSUME NEW a \in Account, a.at = 0, a.pnl = "none", NEW d \in Int
  PROVE  /\ Swapped(a, 0, d).pos = a.pos + d /\ Swapped(a, 0, d).at = 0 /\ Swapped(a, 0, d).pnl = "none"
         /\ Swapped(a, 0, d).capital = a.capital /\ Swapped(a, 0, d).owner = a.owner /\ Swapped(a, 0, d).lp = a.lp
<1>1. Settled(a, 0) = a
  BY CalmAccount
<1>2. Swapped(a, 0, d) = [a EXCEPT !.pos = a.pos + d]
  BY <1>1 DEF Swapped
<1> QED BY <1>2 DEF Account

(* A trade of the user, who is in slot 1.                                  *)
LEMMA CalmTraded ==
  ASSUME NEW m, Books(m), Still(m), NEW d \in Int, NEW r \in Outcomes(m, "TradeCpi", 1, d)
  PROVE  /\ m.stage = "live" /\ r.stage = "live" /\ m.account[LP].lp /\ r.account[LP].lp /\ Still(r) /\ Mine(r, 1)
         /\ r.account[1].pos = m.account[1].pos + d /\ r.account[LP].pos = m.account[LP].pos - d
         /\ Abs(m.account[1].pos + d) > Abs(m.account[1].pos) => Abs(m.account[1].pos + d) <= LEVERAGE * r.account[1].capital
         /\ r.account[1].capital \in Nat
         /\ \A k \in Slots \ {1, LP} : r.account[k].pos = m.account[k].pos
<1>1. m.account \in [Slots -> Account] /\ LP \in Slots /\ 1 \in Slots \ {LP} /\ m.price = 0
  BY Natural DEF Books, Market, Still, Slots, LP
<1>2. /\ m.stage = "live" /\ Mine(m, 1) /\ m.account[LP].lp /\ Keeps(m, r)
      /\ Accepted(m.account[1], m.price, d)
      /\ r.account[1] = Swapped(m.account[1], m.price, d)
      /\ r.account[LP] = Swapped(m.account[LP], m.price, -d)
      /\ \A k \in Slots \ {1, LP} : r.account[k] = m.account[k]
  BY <1>1, TradeIs
<1>3. m.account[1] \in Account /\ m.account[LP] \in Account /\ m.account[1].at = 0 /\ m.account[LP].at = 0
      /\ m.account[1].pnl = "none" /\ m.account[LP].pnl = "none"
  BY <1>1 DEF Still
<1>4. /\ r.account[1].pos = m.account[1].pos + d /\ r.account[1].at = 0 /\ r.account[1].pnl = "none"
      /\ r.account[1].capital = m.account[1].capital /\ r.account[1].owner = m.account[1].owner
  BY <1>1, <1>2, <1>3, CalmSwapped
<1>5. /\ r.account[LP].pos = m.account[LP].pos - d /\ r.account[LP].at = 0 /\ r.account[LP].pnl = "none"
      /\ r.account[LP].lp = m.account[LP].lp
  <2> DEFINE e == -d
  <2>1. e \in Int /\ \A x \in Int : x + e = x - d
    OBVIOUS
  <2>2. r.account[LP] = Swapped(m.account[LP], 0, e)
    BY <1>1, <1>2
  <2> HIDE DEF e
  <2>3. /\ r.account[LP].pos = m.account[LP].pos + e /\ r.account[LP].at = 0 /\ r.account[LP].pnl = "none"
        /\ r.account[LP].lp = m.account[LP].lp
    BY <1>3, <2>1, <2>2, CalmSwapped
  <2>4. m.account[LP].pos \in Int
    BY <1>3 DEF Account
  <2> QED BY <2>1, <2>3, <2>4
<1>6. Still(r)
  BY <1>1, <1>2, <1>4, <1>5 DEF Still, Keeps
<1>7. Abs(m.account[1].pos + d) > Abs(m.account[1].pos) => Abs(m.account[1].pos + d) <= LEVERAGE * r.account[1].capital
  <2>1. Accepted(m.account[1], 0, d) /\ r.account[1] = Swapped(m.account[1], 0, d)
    BY <1>1, <1>2
  <2> QED BY <2>1, <1>4 DEF Accepted, Covered
<1>8. r.account[1].capital \in Nat
  BY <1>3, <1>4 DEF Account
<1> QED BY <1>2, <1>4, <1>5, <1>6, <1>7, <1>8 DEF Keeps, Mine

CalmAt(s, v, on, off) == At(s, v) /\ v.kind = "calm" /\ CalmStep(s, v, on, off)

FlatOps == {"CreateAccount", "InitMarket", "SetOracleAuthority", "PushOraclePrice", "KeeperCrank",
            "InitLP", "InitUser", "DepositCollateral", "TopUpInsurance"}

(* Steps whose exception leaves main.                                      *)
Plain(s, v, on, off) ==
  /\ s.catch = 0 /\ off.kind = "dead" /\ on.kind = "calm" /\ v.stage \in {"flat", "open", "picked", "unwound"}
  /\ \/ v.stage = "flat" /\ s.op \in FlatOps /\ on.stage = "flat"
     \/ v.stage = "flat" /\ s.op = "TradeCpi" /\ s.slot = 1 /\ s.n = 1 /\ on.stage = "open"
     \/ s.op \in {"PushOraclePrice", "KeeperCrank"} /\ on.stage = v.stage
        /\ (v.stage = "unwound" => s.op = "KeeperCrank")
     \/ v.stage = "open" /\ s.op = "WithdrawCollateral" /\ s.slot = 1 /\ s.n = 0 /\ on.stage = "open"
     \/ s.op = "Read" /\ on.stage = v.stage
     \/ s.op = "Read" /\ v.stage = "open" /\ on.stage = "known"
  /\ s.op = "PushOraclePrice" => s.n = 0
  /\ s.op = "DepositCollateral" => s.slot \in {LP, 1} /\ s.n \in Nat

CalmEnds(off) == off.kind = "drill" /\ off.stage # "read" /\ 1 \in off.idx

LEMMA CalmSplit ==
  ASSUME NEW s, NEW v, NEW on, NEW off, CalmStep(s, v, on, off)
  PROVE  \/ Plain(s, v, on, off)
         \/ v.stage = "known" /\ s.op = "Pick" /\ s.slot = 1 /\ on.kind = "calm" /\ on.stage = "picked"
         \/ /\ v.stage = "picked" /\ s.op = "Unwind" /\ s.slot = OWN /\ on.kind = "calm" /\ on.stage = "unwound"
            /\ CalmEnds(off)
         \/ /\ v.stage = "unwound" /\ s.op = "CloseAccount" /\ s.slot = LP /\ CalmEnds(off)
            /\ on.kind = "drill" /\ on.stage = "any" /\ 1 \in on.idx
BY DEF CalmStep, Plain, CalmEnds, FlatOps

LEMMA CalmIs ==
  ASSUME NEW s, NEW v, NEW on, NEW off, CalmAt(s, v, on, off)
  PROVE  /\ Shape /\ s = Body[pc] /\ script \in OnOwnSlab /\ script = "live-verify" /\ FitsCalm(v)
         /\ s.op \in FlatOps \cup {"TradeCpi", "WithdrawCollateral", "Read", "Pick", "Unwind", "CloseAccount"}
         /\ SlabSends(s)
         /\ 1 \in Slots \ {LP} /\ LP \in Slots /\ LP # OWN /\ OWN # 1
<1>1. /\ Shape /\ s = Body[pc] /\ s \in StepType /\ script \in OnOwnSlab /\ script = "live-verify" /\ FitsCalm(v)
      /\ CalmStep(s, v, on, off)
  BY DEF CalmAt, At, Fits, DrillKinds
<1>2. 1 \in Slots \ {LP} /\ LP \in Slots /\ LP # OWN /\ OWN # 1
  BY Natural DEF Slots, LP, OWN
<1>3. market.account \in [Slots -> Account]
  BY <1>1 DEF Shape, Books, Market
<1>4. CASE Plain(s, v, on, off)
  <2>1. s.op \in FlatOps \cup {"TradeCpi", "WithdrawCollateral", "Read"}
    BY <1>4 DEF Plain, FlatOps
  <2>2. CASE s.op = "Read"
    BY <1>1, <1>2, <2>2 DEF SlabSends, Sends, Instructions
  <2>3. CASE s.op # "Read"
    <3>1. Sent(s) = [op |-> s.op, n |-> s.n] /\ s.op \in Instructions
      BY <2>1, <2>3 DEF Sent, Instructions, FlatOps
    <3>2. s.op = "TradeCpi" => Slot(s) = 1 /\ s.n = 1 /\ market.account[1].pos = 0
      BY <1>1, <1>2, <1>4 DEF Plain, FlatOps, Slot, FitsCalm, Even
    <3>3. s.op \in {"DepositCollateral", "WithdrawCollateral"} => Slot(s) \in Slots
      BY <1>2, <1>4 DEF Plain, FlatOps, Slot
    <3>4. DrillAsks(market, s.op, Slot(s), s.n)
      <4>1. s.op = "PushOraclePrice" => s.n \in Prices
        BY <1>4 DEF Plain, Prices
      <4>2. s.n \in Int
        BY <1>1 DEF StepType
      <4>3. s.op = "DepositCollateral" => s.n \in Nat
        BY <1>4 DEF Plain
      <4>4. s.op \notin {"CloseAccount", "AdminForceCloseAccount"}
        BY <2>1 DEF FlatOps
      <4>5. s.op = "TradeCpi" => market.account[Slot(s)].pos + s.n >= 0
        BY <3>2
      <4> QED BY <4>1, <4>2, <4>3, <4>4, <4>5, <3>2, <3>3, <1>2 DEF DrillAsks
    <3> QED BY <1>1, <1>2, <2>1, <3>1, <3>4 DEF SlabSends
  <2> QED BY <2>2, <2>3
<1>5. CASE s.op = "Pick"
  BY <1>1, <1>2, <1>5 DEF SlabSends, Sends, Instructions
<1>6. CASE v.stage = "picked" /\ s.op = "Unwind" /\ s.slot = OWN
  <2>1. Slot(s) = 1 /\ Sent(s) = [op |-> "TradeCpi", n |-> -Known.pos] /\ Known.pos = 1 /\ market.account[1].pos = 1
    BY <1>1, <1>2, <1>6 DEF Slot, Sent, Instructions, FitsCalm, Known, One
  <2>2. DrillAsks(market, "TradeCpi", Slot(s), -Known.pos)
    BY <2>1, <1>2 DEF DrillAsks
  <2> QED BY <1>1, <1>2, <1>6, <2>1, <2>2 DEF SlabSends, Instructions
<1>7. CASE s.op = "CloseAccount" /\ s.slot = LP
  <2>1. Slot(s) = LP /\ Sent(s) = [op |-> "CloseAccount", n |-> s.n]
    BY <1>2, <1>7 DEF Slot, Sent, Instructions
  <2>2. DrillAsks(market, "CloseAccount", Slot(s), s.n)
    BY <2>1, <1>2 DEF DrillAsks
  <2> QED BY <1>1, <1>2, <1>7, <2>1, <2>2 DEF SlabSends, Instructions
<1> QED BY <1>1, <1>4, <1>5, <1>6, <1>7, CalmSplit

LEMMA CalmMoves ==
  ASSUME NEW s, NEW v, NEW on, NEW off, CalmAt(s, v, on, off), Move
  PROVE  /\ Shape' /\ UNCHANGED <<script, test, joins>> /\ script' \in OnOwnSlab /\ script' = "live-verify"
         /\ ~ Find /\ ~ Jump /\ ~ Say /\ ~ WaitForWarmup /\ (Take => s.op = "Pick")
<1>1. /\ Shape /\ s = Body[pc] /\ script \in OnOwnSlab /\ script = "live-verify" /\ SlabSends(s) /\ 1 \in Slots
      /\ s.op \in FlatOps \cup {"TradeCpi", "WithdrawCollateral", "Read", "Pick", "Unwind", "CloseAccount"}
  BY CalmIs
<1>2. s.op \notin {"Found", "Wait", "Say"} /\ s.op \notin Tests /\ s.op \notin {"Each", "Take"}
  BY <1>1 DEF FlatOps, Tests
<1>3. s.op = "Pick" => s.slot = 1
  BY CalmSplit DEF CalmAt, Plain, FlatOps
<1> QED BY <1>1, <1>2, <1>3, SlabMoves DEF Find, Jump, Say, WaitForWarmup, Take

LEMMA CalmNext ==
  ASSUME NEW w, w.kind = "calm", script' \in OnOwnSlab, script' = "live-verify", FitsCalm(w)'
  PROVE  Fits(w)'
BY DEF Fits, TestKinds, DrillKinds

(* An instruction of the plain steps.                                      *)
LEMMA PlainDone ==
  ASSUME NEW s, NEW v, NEW on, NEW off, CalmAt(s, v, on, off), Plain(s, v, on, off), Execute, script' \in OnOwnSlab,
         script' = "live-verify"
  PROVE  Fits(on)'
<1>1. /\ Shape /\ s = Body[pc] /\ FitsCalm(v) /\ 1 \in Slots \ {LP} /\ LP \in Slots /\ LP # OWN /\ OWN # 1
  BY CalmIs
<1>2. Books(market) /\ Still(market) /\ todo = {} /\ market.price = 0 /\ market.account \in [Slots -> Account]
  BY <1>1 DEF Shape, FitsCalm, Still, Books, Market
<1>3. Sends(s) /\ market' \in Results(s) /\ UNCHANGED <<idx, seen, todo>>
  BY <1>1 DEF Execute
<1>4. s.op # "Read" /\ s.op \in FlatOps \cup {"TradeCpi", "WithdrawCollateral"}
  BY <1>3 DEF Plain, FlatOps, Sends, Instructions
<1>5. Sent(s) = [op |-> s.op, n |-> s.n]
  BY <1>4 DEF Sent, Instructions, FlatOps
<1>6. market' \in Outcomes(market, s.op, Slot(s), s.n)
  BY <1>3, <1>5 DEF Results
<1>7. CASE v.stage = "flat" /\ s.op \in FlatOps /\ on.stage = "flat"
  <2>1. Even(market)
    BY <1>1, <1>7 DEF FitsCalm
  <2>2. /\ s.op = "PushOraclePrice" => s.n = 0
        /\ s.op = "DepositCollateral" => Slot(s) \in Slots /\ s.n \in Nat
    BY <1>1 DEF Plain, Slot
  <2>3. Still(market') /\ Even(market')
    BY <1>2, <1>6, <1>7, <2>1, <2>2, CalmFlat DEF FlatOps
  <2>4. FitsCalm(on)'
    BY <1>2, <1>3, <1>7, <2>3 DEF FitsCalm
  <2> QED BY <2>4, CalmNext DEF Plain
<1>8. CASE v.stage = "flat" /\ s.op = "TradeCpi" /\ on.stage = "open"
  <2>1. Even(market) /\ Slot(s) = 1 /\ s.n = 1
    BY <1>1, <1>8 DEF FitsCalm, Plain, FlatOps, Slot
  <2>2. /\ market'.stage = "live" /\ market'.account[LP].lp /\ Still(market') /\ Mine(market', 1)
        /\ market'.account[1].pos = market.account[1].pos + 1 /\ market'.account[LP].pos = market.account[LP].pos - 1
        /\ Abs(market.account[1].pos + 1) > Abs(market.account[1].pos)
             => Abs(market.account[1].pos + 1) <= LEVERAGE * market'.account[1].capital
        /\ market'.account[1].capital \in Nat
        /\ \A k \in Slots \ {1, LP} : market'.account[k].pos = market.account[k].pos
    BY <1>2, <1>6, <1>8, <2>1, CalmTraded
  <2>3. \A k \in Slots : market.account[k].pos = 0
    BY <2>1 DEF Even
  <2>4. market'.account[1].pos = 1 /\ market'.account[LP].pos = -1 /\ market'.account[1].capital >= 1
    BY <2>2, <2>3, <1>1 DEF Abs, LEVERAGE
  <2>5. One(market')
    BY <2>2, <2>3, <2>4 DEF One
  <2>6. FitsCalm(on)'
    BY <1>2, <1>3, <1>8, <2>2, <2>5 DEF FitsCalm
  <2> QED BY <2>6, CalmNext DEF Plain
<1>9. ASSUME v.stage \in {"open", "picked", "unwound"}, on.stage = v.stage, Calmly(market, market'), market'.stage = "live"
      PROVE  Fits(on)'
  <2>1. FitsCalm(on)'
    BY <1>1, <1>2, <1>3, <1>9, CalmKeeps DEF FitsCalm, Calmly
  <2> QED BY <2>1, CalmNext DEF Plain
<1>10. CASE v.stage \in {"open", "picked", "unwound"}
  <2>1. market.stage = "live" /\ Steady(market)
    BY <1>1, <1>10, CalmIsSteady DEF FitsCalm, One
  <2>2. on.stage = v.stage /\ s.op \in {"PushOraclePrice", "KeeperCrank", "WithdrawCollateral"}
    BY <1>4, <1>10 DEF Plain, FlatOps
  <2>3. CASE s.op = "PushOraclePrice"
    <3>1. s.n = 0
      BY <2>3 DEF Plain
    <3>2. market'.account = market.account /\ market'.price = 0 /\ market'.stage = "live"
      BY <1>2, <1>6, <2>1, <2>3, <3>1, GeneralIs DEF General, Books
    <3>3. Calmly(market, market')
      BY <1>2, <3>2 DEF Calmly, Still, Mine
    <3> QED BY <1>9, <1>10, <2>2, <3>2, <3>3
  <2>4. CASE s.op = "KeeperCrank"
    <3>1. market' \in Cranked(market)
      BY <1>6, <2>1, <2>4, OutKeeperCrank
    <3> QED BY <1>2, <1>9, <1>10, <2>1, <2>2, <3>1, CalmCranked
  <2>5. CASE s.op = "WithdrawCollateral"
    <3>1. Slot(s) = 1 /\ s.n = 0
      BY <1>1, <1>10, <2>5 DEF Plain, FlatOps, Slot
    <3>2. /\ market.stage = "live" /\ Mine(market, 1) /\ Keeps(market, market')
          /\ market'.account[1] = Paid(market.account[1], market.price, 0)
          /\ \A k \in Slots \ {1} : market'.account[k] = market.account[k]
      BY <1>1, <1>2, <1>6, <2>5, <3>1, WithdrawIs
    <3>3. Paid(market.account[1], 0, 0) = market.account[1]
      <4>1. market.account[1] \in Account /\ Touched(market.account[1], 0) = market.account[1]
        BY <1>1, <1>2, CalmAccount DEF Still
      <4>2. market.account[1].capital - 0 = market.account[1].capital
        BY <4>1 DEF Account
      <4> QED BY <4>1, <4>2 DEF Paid, Account
    <3>4. \A k \in Slots : market'.account[k] = market.account[k]
      BY <1>2, <3>2, <3>3
    <3>5. Calmly(market, market') /\ market'.stage = "live"
      BY <1>1, <1>2, <3>2, <3>4 DEF Calmly, Still, Mine, Keeps
    <3> QED BY <1>9, <1>10, <2>2, <3>5
  <2> QED BY <2>2, <2>3, <2>4, <2>5
<1> QED BY <1>4, <1>7, <1>8, <1>10 DEF Plain, FlatOps

LEMMA PlainMove ==
  ASSUME NEW s, NEW v, NEW on, NEW off, CalmAt(s, v, on, off), Plain(s, v, on, off), Move
  PROVE  Advance(s, on, off)
<1>1. /\ Shape /\ s = Body[pc] /\ FitsCalm(v) /\ 1 \in Slots \ {LP}
  BY CalmIs
<1>2. /\ Shape' /\ UNCHANGED <<script, test>> /\ script' \in OnOwnSlab /\ script' = "live-verify"
      /\ ~ Find /\ ~ Jump /\ ~ Say /\ ~ WaitForWarmup /\ (Take => s.op = "Pick")
  BY CalmMoves
<1>3. off.kind = "dead" /\ s.op \notin {"Pick", "Unwind", "WithdrawSeen", "Look"}
  BY DEF Plain, FlatOps
<1>4. CASE Execute
  <2>1. pc' = pc + 1 /\ UNCHANGED status
    BY <1>4 DEF Execute
  <2> QED BY <2>1, <1>2, <1>4, PlainDone, Passed
<1>5. CASE Refuse \/ Fail
  <2>1. Throw(s)
    BY <1>1, <1>5 DEF Refuse, Fail
  <2> QED BY <2>1, <1>2, <1>3, DeadFits, Thrown
<1>6. CASE GetState
  <2>1. s.op = "Read" /\ seen' = market.account /\ pc' = pc + 1 /\ UNCHANGED <<market, idx, todo, status>>
    BY <1>1, <1>3, <1>6 DEF GetState, Plain, FlatOps, Reads
  <2>2. on.kind = "calm" /\ (on.stage = v.stage \/ (v.stage = "open" /\ on.stage = "known"))
        /\ v.stage \in {"flat", "open", "picked", "unwound"}
    BY <2>1 DEF Plain, FlatOps
  <2>3. v.stage \in {"open", "picked"} => seen'[1].pos = 1
    BY <1>1, <2>1 DEF FitsCalm, One
  <2>4. FitsCalm(on)'
    BY <1>1, <2>1, <2>2, <2>3 DEF FitsCalm
  <2> QED BY <1>2, <2>1, <2>2, <2>4, CalmNext, Passed
<1>7. ~ Skip /\ ~ Take
  BY <1>1, <1>2, <1>3 DEF Skip
<1> QED BY <1>2, <1>4, <1>5, <1>6, <1>7 DEF Move

(* A step of the end of the bank run whose exception ends the test.        *)
LEMMA EndFits ==
  ASSUME NEW w, CalmEnds(w), script' \in OnOwnSlab, todo' = {}, idx' = 1, ~ Quiet'
  PROVE  Fits(w)'
BY DrillFits DEF CalmEnds

(* live-verify has an answer to no refusal.                                *)
LEMMA NoneBorne ==
  ASSUME NEW s, script = "live-verify"
  PROVE  ~ Withstood(s)
BY DEF Withstood, OnDeployed

LEMMA CalmMove ==
  ASSUME NEW s, NEW v, NEW on, NEW off, At(s, v), v.kind = "calm", CalmStep(s, v, on, off), Move
  PROVE  Advance(s, on, off)
<1>1. CalmAt(s, v, on, off)
  BY DEF CalmAt
<1>2. /\ Shape /\ s = Body[pc] /\ FitsCalm(v) /\ 1 \in Slots \ {LP} /\ LP \in Slots /\ LP # OWN /\ OWN # 1
      /\ script = "live-verify"
  BY <1>1, CalmIs
<1>3. /\ Shape' /\ UNCHANGED <<script, test>> /\ script' \in OnOwnSlab /\ script' = "live-verify"
      /\ ~ Find /\ ~ Jump /\ ~ Say /\ ~ WaitForWarmup /\ (Take => s.op = "Pick")
  BY <1>1, CalmMoves
<1>4. Books(market) /\ Still(market) /\ todo = {} /\ market.account \in [Slots -> Account] /\ market.price = 0
  BY <1>2 DEF Shape, FitsCalm, Still, Books, Market
<1>5. CASE v.stage = "known" /\ s.op = "Pick" /\ s.slot = 1 /\ on.kind = "calm" /\ on.stage = "picked"
  <2>1. ~ Execute /\ ~ Refuse /\ ~ Fail /\ ~ GetState /\ ~ Skip
    BY <1>2, <1>5 DEF Execute, Refuse, Fail, GetState, Skip, Sends, Instructions, Reads
  <2>2. Take
    BY <2>1, <1>3 DEF Move
  <2>3. idx' = 1 /\ todo' = {} /\ pc' = pc + 1 /\ UNCHANGED <<market, seen, status>>
    BY <1>2, <1>5, <2>2 DEF Take
  <2>4. FitsCalm(on)'
    BY <1>2, <1>5, <2>3 DEF FitsCalm
  <2> QED BY <1>3, <1>5, <2>3, <2>4, CalmNext, Passed
<1>6. CASE v.stage = "picked" /\ s.op = "Unwind" /\ s.slot = OWN /\ on.kind = "calm" /\ on.stage = "unwound" /\ CalmEnds(off)
  <2>1. One(market) /\ idx = 1 /\ Known.pos = 1 /\ Slot(s) = 1 /\ market.account[1].pos = 1 /\ market.account[LP].pos = -1
    BY <1>2, <1>6 DEF FitsCalm, Known, Slot, One
  <2>2. Sends(s) /\ Sent(s) = [op |-> "TradeCpi", n |-> -1] /\ -1 \in Int
    BY <1>6, <2>1 DEF Sends, Sent, Instructions
  <2>3. Results(s) = Outcomes(market, "TradeCpi", 1, -1)
    BY <2>1, <2>2 DEF Results
  <2> DEFINE d == -1
  <2>4. d \in Int /\ 1 + d = 0 /\ -1 - d = 0 /\ Results(s) = Outcomes(market, "TradeCpi", 1, d)
    BY <2>3
  <2> HIDE DEF d
  <2>5. CASE Execute
    <3>1. market' \in Outcomes(market, "TradeCpi", 1, d) /\ pc' = pc + 1 /\ UNCHANGED <<idx, seen, todo, status>>
      BY <1>2, <2>4, <2>5 DEF Execute
    <3>2. /\ market'.stage = "live" /\ market'.account[LP].lp /\ Still(market')
          /\ market'.account[1].pos = market.account[1].pos + d /\ market'.account[LP].pos = market.account[LP].pos - d
          /\ \A k \in Slots \ {1, LP} : market'.account[k].pos = market.account[k].pos
      BY <1>4, <2>4, <3>1, CalmTraded
    <3>3. Even(market')
      BY <2>1, <2>4, <3>2 DEF Even, One
    <3>4. FitsCalm(on)'
      BY <1>4, <1>6, <2>1, <3>1, <3>2, <3>3 DEF FitsCalm
    <3> QED BY <1>3, <1>6, <3>1, <3>4, CalmNext, Passed
  <2>6. ~ Refuse
    <3>1. Accepted(market.account[1], market.price, d)
      BY <2>1, <2>4 DEF Accepted, Abs
    <3>2. market.stage = "live" /\ Mine(market, 1) /\ market.account[LP].lp
      BY <2>1 DEF One
    <3>3. Outcomes(market, "TradeCpi", 1, d) # {}
      BY <1>2, <1>4, <2>4, <3>1, <3>2, TradeMay
    <3> QED BY <1>2, <2>4, <3>3, NoneBorne DEF Refuse
  <2>7. CASE Fail
    <3>1. Throw(s) /\ UNCHANGED <<idx, todo>> /\ hurt' = hurt \cup {test}
      BY <1>2, <2>7 DEF Fail
    <3>2. Fits(off)'
      BY <1>3, <1>4, <1>6, <2>1, <3>1, EndFits DEF Quiet
    <3> QED BY <1>3, <3>1, <3>2, Thrown
  <2>8. ~ GetState /\ ~ Skip /\ ~ Take
    BY <1>2, <1>3, <1>6, <2>2 DEF GetState, Skip, Reads
  <2> QED BY <1>3, <2>5, <2>6, <2>7, <2>8 DEF Move
<1>7. CASE /\ v.stage = "unwound" /\ s.op = "CloseAccount" /\ s.slot = LP /\ CalmEnds(off)
           /\ on.kind = "drill" /\ on.stage = "any" /\ 1 \in on.idx
  <2>1. /\ Even(market) /\ market.stage = "live" /\ market.account[LP].lp /\ idx = 1
        /\ Sent(s) = [op |-> "CloseAccount", n |-> s.n] /\ Slot(s) = LP
    BY <1>2, <1>7 DEF FitsCalm, Slot, Sent, Instructions
  <2>2. CASE Execute
    <3>1. pc' = pc + 1 /\ UNCHANGED <<idx, todo, status>>
      BY <1>2, <2>2 DEF Execute
    <3>2. Far(on)'
      BY <1>7 DEF Far
    <3>3. Fits(on)'
      BY <1>3, <1>4, <1>7, <2>1, <3>1, <3>2, DrillFits
    <3> QED BY <1>3, <3>1, <3>3, Passed
  <2>3. ~ Refuse
    <3>1. Mine(market, LP) /\ Touched(market.account[LP], 0) = market.account[LP]
      BY <1>2, <1>4, <2>1, CalmAccount DEF Books, Owned, Mine, Still
    <3>2. market.account[LP].pos = 0 /\ market.account[LP].pnl = "none"
      BY <1>2, <1>4, <2>1 DEF Even, Still
    <3>3. Outcomes(market, "CloseAccount", LP, s.n) # {}
      BY <1>4, <2>1, <3>1, <3>2, CloseMay
    <3>4. Results(s) = Outcomes(market, "CloseAccount", LP, s.n)
      BY <2>1 DEF Results
    <3> QED BY <1>2, <3>3, <3>4, NoneBorne DEF Refuse
  <2>4. CASE Fail
    <3>1. Throw(s) /\ UNCHANGED <<idx, todo>> /\ hurt' = hurt \cup {test}
      BY <1>2, <2>4 DEF Fail
    <3>2. Fits(off)'
      BY <1>3, <1>4, <1>7, <2>1, <3>1, EndFits DEF Quiet
    <3> QED BY <1>3, <3>1, <3>2, Thrown
  <2>5. ~ GetState /\ ~ Skip /\ ~ Take
    BY <1>2, <1>3, <1>7 DEF GetState, Skip, Reads
  <2> QED BY <1>3, <2>2, <2>3, <2>4, <2>5 DEF Move
<1> QED BY <1>1, <1>5, <1>6, <1>7, CalmSplit, PlainMove

-----------------------------------------------------------------------------
(* A sound step of any script leads where its annotation says.             *)
LEMMA StepMove ==
  ASSUME NEW s, NEW v, NEW on, NEW off, At(s, v), Sound(s, v, on, off), Move
  PROVE  Advance(s, on, off)
<1>1. s.op \in Tests \cup {"Take"} => s.catch # 0
  BY DEF Sound
<1> QED BY <1>1, OwnMove, IdleMove, AskedMove, FreshMove, SweepMove, DrillMove, CalmMove DEF Sound
===============================================================================
