------------------------- MODULE RandomTradersProofs -------------------------
(***************************************************************************)
(* The bot opens and funds each account once, for a slab of any size, any  *)
(* number of traders and any number of faults and of accounts closed under *)
(* it.                                                                     *)
(***************************************************************************)
EXTENDS RandomTraders, FiniteSetTheorems, TLAPS

(***************************************************************************)
(* A finite set of indices has an ascending sequence, which Ascending      *)
(* picks: the set without its greatest member has one, and no number of    *)
(* members is the least for which there is none.                           *)
(***************************************************************************)
LEMMA LeastOf ==
  ASSUME NEW T, T \subseteq Nat, T # {}
  PROVE  \E m \in T : \A k \in T : m <= k
<1> DEFINE R == OpToRel(<, Nat)
<1>1. IsWellFoundedOn(R, Nat)
  BY NatLessThanWellFounded
<1>2. \A a, b \in Nat : a < b => <<a, b>> \in R
  BY DEF OpToRel
<1> HIDE DEF R
<1>3. PICK m \in T : \A k \in T : ~ (<<k, m>> \in R)
  BY <1>1, WFMin
<1>4. ASSUME NEW k \in T PROVE m <= k
  <2>1. m \in Nat /\ k \in Nat /\ ~ (k < m)
    BY <1>2, <1>3
  <2> QED BY <2>1
<1> QED BY <1>4

LEMMA GreatestOf ==
  ASSUME NEW N \in Nat, NEW T, T \subseteq 1 .. N, T # {}
  PROVE  \E m \in T : \A k \in T : k <= m
<1> DEFINE D == {N - k : k \in T}
<1>1. D \subseteq Nat /\ D # {}
  <2>1. \A k \in T : N - k \in Nat
    OBVIOUS
  <2> QED BY <2>1
<1>2. PICK d \in D : \A e \in D : d <= e
  <2> HIDE DEF D
  <2> QED BY <1>1, LeastOf
<1>3. PICK m \in T : d = N - m
  OBVIOUS
<1>4. ASSUME NEW k \in T PROVE k <= m
  <2>1. N - k \in D /\ k \in 1 .. N /\ m \in 1 .. N
    OBVIOUS
  <2>2. N - m <= N - k
    <3> HIDE DEF D
    <3> QED BY <2>1, <1>2, <1>3
  <2> QED BY <2>1, <2>2
<1> QED BY <1>4

LEMMA Finite ==
  ASSUME NEW N \in Nat, NEW S, S \subseteq 1 .. N
  PROVE  IsFiniteSet(S) /\ Cardinality(S) \in Nat /\ Cardinality(S) <= N
<1>1. IsFiniteSet(1 .. N) /\ Cardinality(1 .. N) = N
  BY FS_Interval
<1>2. IsFiniteSet(S) /\ Cardinality(S) <= N
  BY <1>1, FS_Subset
<1> QED BY <1>2, FS_CardinalityType

Ascends(q, S) ==
  q \in [1 .. Cardinality(S) -> S] /\ \A m, n \in DOMAIN q : m < n => q[m] < q[n]

LEMMA AscendingExists ==
  ASSUME NEW N \in Nat, NEW S, S \subseteq 1 .. N
  PROVE  \E q : Ascends(q, S)
<1> DEFINE T == {n \in Nat : \E X \in SUBSET (1 .. N) :
                               Cardinality(X) = n /\ ~ \E q : Ascends(q, X)}
<1>1. SUFFICES ASSUME T # {} PROVE FALSE
  <2>1. S \in SUBSET (1 .. N) /\ Cardinality(S) \in Nat
    BY Finite
  <2> QED BY <2>1
<1>2. PICK n \in T : \A k \in T : n <= k
  <2>1. T \subseteq Nat
    OBVIOUS
  <2> HIDE DEF T
  <2> QED BY <1>1, <2>1, LeastOf
<1>3. PICK X \in SUBSET (1 .. N) : Cardinality(X) = n /\ ~ \E q : Ascends(q, X)
  OBVIOUS
<1>4. IsFiniteSet(X) /\ n \in Nat
  BY <1>3, Finite
<1>5. CASE X = {}
  <2> DEFINE q == [k \in 1 .. 0 |-> 0]
  <2>1. Cardinality(X) = 0
    BY <1>5, FS_EmptySet
  <2>2. q \in [1 .. 0 -> X] /\ DOMAIN q = {}
    OBVIOUS
  <2> HIDE DEF q
  <2>3. Ascends(q, X)
    BY <2>1, <2>2 DEF Ascends
  <2> QED BY <2>3, <1>3
<1>6. CASE X # {}
  <2>1. PICK g \in X : \A k \in X : k <= g
    BY <1>6, GreatestOf
  <2> DEFINE Y == X \ {g}
  <2>2. Cardinality(Y) = n - 1 /\ Y \in SUBSET (1 .. N) /\ n - 1 \in Nat
    <3>1. Cardinality(Y) = n - 1
      BY <1>3, <1>4, <2>1, FS_RemoveElement
    <3>2. Cardinality(Y) \in Nat
      BY Finite
    <3> QED BY <3>1, <3>2
  <2>3. n - 1 \notin T
    <3>1. ~ (n <= n - 1)
      BY <1>4
    <3> HIDE DEF T
    <3> QED BY <3>1, <1>2
  <2>4. \E q : Ascends(q, Y)
    BY <2>2, <2>3
  <2>5. PICK p : Ascends(p, Y)
    BY <2>4
  <2> DEFINE q == [k \in 1 .. n |-> IF k = n THEN g ELSE p[k]]
  <2>6. p \in [1 .. n - 1 -> Y] /\ \A i, j \in 1 .. n - 1 : i < j => p[i] < p[j]
    BY <2>2, <2>5 DEF Ascends
  <2> HIDE DEF Y
  <2>7. \A k \in 1 .. n - 1 : p[k] \in X /\ p[k] < g
    <3>1. \A y \in Y : y \in X /\ y < g
      BY <2>1, <1>3 DEF Y
    <3> QED BY <3>1, <2>6
  <2>8. \A k \in 1 .. n : k # n => k \in 1 .. n - 1
    BY <1>4
  <2>9. q \in [1 .. n -> X]
    BY <2>1, <2>7, <2>8
  <2>10. ASSUME NEW i \in 1 .. n, NEW j \in 1 .. n, i < j PROVE q[i] < q[j]
    <3>1. i # n /\ i \in 1 .. n - 1
      BY <2>8, <2>10, <1>4
    <3>2. CASE j = n
      BY <3>1, <3>2, <2>7
    <3>3. CASE j # n
      BY <3>1, <3>3, <2>6, <2>8, <2>10
    <3> QED BY <3>2, <3>3
  <2> HIDE DEF q
  <2>11. Ascends(q, X)
    BY <1>3, <2>9, <2>10 DEF Ascends
  <2> QED BY <2>11, <1>3
<1> QED BY <1>5, <1>6

LEMMA AscendingIs ==
  ASSUME NEW N \in Nat, NEW S, S \subseteq 1 .. N
  PROVE  /\ Ascending(S) \in Seq(S) /\ Len(Ascending(S)) = Cardinality(S)
         /\ Cardinality(S) \in Nat /\ Cardinality(S) <= N
         /\ \A m, n \in 1 .. Cardinality(S) : Ascending(S)[m] = Ascending(S)[n] => m = n
<1> DEFINE q == Ascending(S)
<1>1. Cardinality(S) \in Nat /\ Cardinality(S) <= N
  BY Finite
<1>2. Ascends(q, S)
  BY AscendingExists DEF Ascending, Ascends
<1> HIDE DEF q
<1>3. q \in [1 .. Cardinality(S) -> S] /\ \A m, n \in 1 .. Cardinality(S) : m < n => q[m] < q[n]
  BY <1>2 DEF Ascends
<1>4. q \in Seq(S) /\ Len(q) = Cardinality(S)
  BY <1>1, <1>3
<1>5. ASSUME NEW m \in 1 .. Cardinality(S), NEW n \in 1 .. Cardinality(S), q[m] = q[n]
      PROVE  m = n
  <2>1. q[m] \in S /\ q[n] \in S
    BY <1>3
  <2>2. q[m] \in Nat /\ q[n] \in Nat
    <3>1. \A i \in S : i \in Nat
      OBVIOUS
    <3> QED BY <2>1, <3>1
  <2>3. ~ (m < n) /\ ~ (n < m)
    BY <1>3, <1>5, <2>2
  <2> QED BY <2>3, <1>1
<1> QED BY <1>1, <1>4, <1>5 DEF q

(* No position is picked twice.                                            *)
LEMMA PickedIs ==
  ASSUME NEW A, NEW list \in Seq(A), NEW positions, positions \subseteq 1 .. Len(list)
  PROVE  LET few == Picked(list, positions)
         IN  /\ few \in Seq(A) /\ Len(few) <= Len(list)
             /\ \A n \in 1 .. Len(few) : \E p \in positions : few[n] = list[p]
             /\ IsInjective(list) => \A m, n \in 1 .. Len(few) : few[m] = few[n] => m = n
<1> DEFINE at  == Ascending(positions)
           few == Picked(list, positions)
           k   == Cardinality(positions)
<1>1. Len(list) \in Nat /\ DOMAIN list = 1 .. Len(list) /\ \A i \in 1 .. Len(list) : list[i] \in A
  OBVIOUS
<1>2. /\ at \in Seq(positions) /\ Len(at) = k /\ k \in Nat /\ k <= Len(list)
      /\ \A m, n \in 1 .. k : at[m] = at[n] => m = n
  BY <1>1, AscendingIs
<1> HIDE DEF at, k
<1>3. DOMAIN at = 1 .. k /\ \A n \in 1 .. k : at[n] \in positions /\ at[n] \in 1 .. Len(list)
  <2>1. at \in [1 .. k -> positions]
    BY <1>2
  <2> QED BY <2>1
<1>4. few = [n \in 1 .. k |-> list[at[n]]]
  BY <1>3 DEF Picked, at
<1> HIDE DEF few
<1>5. few \in Seq(A) /\ Len(few) = k
  BY <1>1, <1>2, <1>3, <1>4
<1>6. \A n \in 1 .. k : few[n] = list[at[n]]
  BY <1>4
<1>7. IsInjective(list) => \A m, n \in 1 .. k : few[m] = few[n] => m = n
  BY <1>1, <1>2, <1>3, <1>6 DEF IsInjective
<1> QED BY <1>2, <1>3, <1>5, <1>6, <1>7 DEF few

(***************************************************************************)
(* The inductive invariant.                                                *)
(***************************************************************************)
SlabAccounts == [owner : {"nobody", "us"}, kind : {"none", "user", "lp"},
                 capital : 0 .. MaxCapital]
Places       == {"off", "init", "create", "fund", "loop", "valid", "topup", "bankrun", "half",
                 "refund", "trade"}

ShapeOK ==
  /\ slab \in [Indices -> SlabAccounts] /\ pc \in Places
  /\ traders \in Seq(Indices) /\ Len(traders) <= NUM_TRADERS /\ IsInjective(traders)
  /\ count \in 0 .. REVALIDATE_INTERVAL /\ looping \in BOOLEAN
  /\ plan \in Seq(Txs) /\ wire \subseteq Txs
  /\ faults \in 0 .. MaxFaults /\ changes \in 0 .. MaxChanges
  /\ late \in [{"InitUser", "Deposit"} -> Nat]

OurTraders == {i \in Indices : IsOurTrader(i)}
TooMuch    == DEPOSIT + DEPOSIT \div 2 + DEPOSIT * late["Deposit"]

(* A deposit moves one whole deposit; while it is pending, its account is  *)
(* short of one, or a late one has arrived.                                *)
IsDue(x) == x.amount = DEPOSIT /\ (IsOurTrader(x.idx) => slab[x.idx].capital + DEPOSIT < TooMuch)

PlanOK ==
  /\ \A n \in 1 .. Len(plan) :
       /\ plan[n].kind = "InitUser" <=> pc = "create"
       /\ plan[n].kind = "Deposit" => IsDue(plan[n])
  /\ \A m, n \in 1 .. Len(plan) :
       plan[m].kind = "Deposit" /\ plan[n].kind = "Deposit" /\ plan[m].idx = plan[n].idx => m = n

WireOK == \A x \in wire : /\ x.kind \in {"InitUser", "Deposit"}
                          /\ x.kind = "Deposit" => x.amount = DEPOSIT

(* The accounts that are there and those that are being opened.            *)
OpenedOK ==
  Cardinality(OurTraders) + (IF pc = "create" THEN Len(plan) ELSE 0)
    <= NUM_TRADERS + late["InitUser"]

CapitalOK == \A i \in OurTraders : slab[i].capital < TooMuch

IInv == ShapeOK /\ PlanOK /\ WireOK /\ OpenedOK /\ CapitalOK

LEMMA Basics ==
  /\ MaxAccounts \in Nat /\ NUM_TRADERS \in Nat /\ BANK_RUN_INTERVAL \in Nat
  /\ DEPOSIT = 4 /\ MaxCapital \in Nat /\ MaxCapital >= 4 /\ REVALIDATE_INTERVAL \in Nat
  /\ REVALIDATE_INTERVAL >= 2
  BY TradersAssumption

LEMMA Amounts ==
  ASSUME late["Deposit"] \in Nat
  PROVE  TooMuch = 6 + 4 * late["Deposit"] /\ DEPOSIT \div 2 = 2 /\ DEPOSIT \div 4 = 1
  BY Basics DEF TooMuch

LEMMA Traders ==
  ASSUME NEW i
  PROVE  IsOurTrader(i) <=> slab[i] # NoAccount /\ slab[i].owner = "us" /\ slab[i].kind # "lp"
  BY DEF IsOurTrader, Used, Ours

LEMMA TxsAre ==
  ASSUME NEW x \in Txs
  PROVE  /\ x = InitUser \/ (/\ x.kind \in {"Deposit", "Withdraw", "Trade"} /\ x.idx \in Indices
                             /\ x.amount \in 0 .. MaxCapital)
         /\ x.kind = "InitUser" <=> x = InitUser
  BY DEF Txs, InitUser, Tx

LEMMA Made ==
  /\ InitUser \in Txs /\ InitUser.kind = "InitUser"
  /\ \A i \in Indices : \A n \in 0 .. MaxCapital :
       /\ Deposit(i, n) \in Txs /\ Deposit(i, n).kind = "Deposit"
       /\ Deposit(i, n).idx = i /\ Deposit(i, n).amount = n
       /\ Withdraw(i, n) \in Txs /\ Withdraw(i, n).kind = "Withdraw"
  /\ \A i \in Indices, lp \in 0 .. MaxAccounts :
       Trade(i, lp) \in Txs /\ Trade(i, lp).kind = "Trade"
  BY Basics DEF Txs, InitUser, Deposit, Withdraw, Trade, Tx

(***************************************************************************)
(* Lists of traders, and what is planned for them.                         *)
(***************************************************************************)
LEMMA Wider ==
  ASSUME NEW S, NEW T, S \subseteq T, NEW q \in Seq(S)
  PROVE  q \in Seq(T)
<1>1. Len(q) \in Nat /\ q \in [1 .. Len(q) -> S]
  OBVIOUS
<1>2. q \in [1 .. Len(q) -> T]
  BY <1>1
<1> QED BY <1>1, <1>2

LEMMA Chained ==
  ASSUME NEW S, NEW f \in Seq(S), NEW g \in Seq(S)
  PROVE  /\ f \o g \in Seq(S) /\ Len(f \o g) = Len(f) + Len(g)
         /\ DOMAIN (f \o g) = 1 .. Len(f) + Len(g)
         /\ \A n \in 1 .. Len(f) : (f \o g)[n] = f[n]
         /\ \A n \in 1 .. Len(g) : (f \o g)[Len(f) + n] = g[n]
  OBVIOUS

LEMMA FewOf ==
  ASSUME NEW q \in Seq(Indices), \A m, n \in 1 .. Len(q) : q[m] = q[n] => m = n,
         NEW k \in Nat, k <= Len(q)
  PROVE  LET few == SubSeq(q, 1, k)
         IN  /\ few \in Seq(Indices) /\ Len(few) = k
             /\ \A n \in 1 .. k : few[n] = q[n]
             /\ \A m, n \in 1 .. k : few[m] = few[n] => m = n
<1> DEFINE few == SubSeq(q, 1, k)
<1>1. /\ few \in Seq(Indices) /\ Len(few) = k /\ Len(q) \in Nat
      /\ \A n \in 1 .. k : few[n] = q[n]
  OBVIOUS
<1> HIDE DEF few
<1>2. \A m, n \in 1 .. k : few[m] = few[n] => m = n
  BY <1>1
<1> QED BY <1>1, <1>2 DEF few

LEMMA FoundIs ==
  /\ Found \in Seq(Indices) /\ Len(Found) <= NUM_TRADERS /\ IsInjective(Found)
<1> DEFINE q == Ascending(OurTraders)
           k == Lesser(NUM_TRADERS, Cardinality(OurTraders))
<1>1. OurTraders \subseteq 1 .. MaxAccounts /\ OurTraders \subseteq Indices
  BY DEF OurTraders, Indices
<1>2. /\ q \in Seq(OurTraders) /\ Len(q) = Cardinality(OurTraders)
      /\ Cardinality(OurTraders) \in Nat
      /\ \A m, n \in 1 .. Cardinality(OurTraders) : q[m] = q[n] => m = n
  BY <1>1, Basics, AscendingIs
<1>3. k \in Nat /\ k <= NUM_TRADERS /\ k <= Cardinality(OurTraders)
  BY <1>2, Basics DEF Lesser
<1>4. Found = SubSeq(q, 1, k)
  BY DEF Found, FirstFew, OurTraders
<1> HIDE DEF q, k
<1>5. q \in Seq(Indices)
  BY <1>1, <1>2, Wider
<1>6. /\ Found \in Seq(Indices) /\ Len(Found) = k
      /\ \A m, n \in 1 .. k : Found[m] = Found[n] => m = n
  BY <1>2, <1>3, <1>4, <1>5, FewOf
<1> QED BY <1>3, <1>6 DEF IsInjective

(* The indices that are kept are ours; those that take the place of others *)
(* are not among them.                                                     *)
LEMMA RevalidatedIs ==
  ASSUME traders \in Seq(Indices), Len(traders) <= NUM_TRADERS, IsInjective(traders)
  PROVE  /\ Revalidated \in Seq(Indices) /\ Len(Revalidated) <= NUM_TRADERS
         /\ IsInjective(Revalidated)
<1> DEFINE still == {n \in DOMAIN traders : IsOurTrader(traders[n])}
           S     == OurTraders \ ToSet(Kept)
           q     == Ascending(S)
           k     == Lesser(SaturatingSub(NUM_TRADERS, Len(Kept)), Len(q))
           few   == SubSeq(q, 1, k)
<1>1. Len(traders) \in Nat /\ still \subseteq 1 .. Len(traders)
  OBVIOUS
<1>2. /\ Kept \in Seq(Indices) /\ Len(Kept) <= NUM_TRADERS
      /\ \A m, n \in 1 .. Len(Kept) : Kept[m] = Kept[n] => m = n
  <2>1. Kept = Picked(traders, still)
    BY DEF Kept
  <2> HIDE DEF still
  <2>2. /\ Kept \in Seq(Indices) /\ Len(Kept) <= Len(traders)
        /\ \A m, n \in 1 .. Len(Kept) : Kept[m] = Kept[n] => m = n
    BY <1>1, <2>1, PickedIs
  <2> QED BY <2>2, <1>1, Basics
<1>3. S \subseteq 1 .. MaxAccounts /\ S \subseteq Indices
  BY DEF OurTraders, Indices
<1>4. Revalidated = Kept \o few
  BY DEF Revalidated, OurTraders
<1> HIDE DEF still, S
<1>5. /\ q \in Seq(S) /\ Len(q) = Cardinality(S) /\ Cardinality(S) \in Nat
      /\ \A m, n \in 1 .. Cardinality(S) : q[m] = q[n] => m = n
  BY <1>3, Basics, AscendingIs
<1> HIDE DEF q
<1>6. k \in Nat /\ k <= Len(q) /\ Len(Kept) + k <= NUM_TRADERS /\ Len(Kept) \in Nat
  BY <1>2, <1>5, Basics DEF Lesser, SaturatingSub
<1> HIDE DEF k
<1>7. q \in Seq(Indices)
  BY <1>3, <1>5, Wider
<1>8. /\ few \in Seq(Indices) /\ Len(few) = k /\ \A n \in 1 .. k : few[n] = q[n]
      /\ \A m, n \in 1 .. k : few[m] = few[n] => m = n
  BY <1>5, <1>6, <1>7, FewOf
<1> HIDE DEF few
<1>9. \A n \in 1 .. k : few[n] \notin ToSet(Kept)
  <2>1. ASSUME NEW n \in 1 .. k PROVE q[n] \in S
    BY <1>5, <1>6
  <2> QED BY <2>1, <1>8 DEF S
<1>10. \A m \in 1 .. Len(Kept) : Kept[m] \in ToSet(Kept)
  BY <1>2 DEF ToSet
<1>11. /\ Revalidated \in Seq(Indices) /\ Len(Revalidated) = Len(Kept) + k
       /\ DOMAIN Revalidated = 1 .. Len(Kept) + k
       /\ \A n \in 1 .. Len(Kept) : Revalidated[n] = Kept[n]
       /\ \A n \in 1 .. k : Revalidated[Len(Kept) + n] = few[n]
  <2> DEFINE whole == Kept \o few
  <2>1. /\ whole \in Seq(Indices) /\ Len(whole) = Len(Kept) + Len(few)
        /\ DOMAIN whole = 1 .. Len(Kept) + Len(few)
        /\ \A n \in 1 .. Len(Kept) : whole[n] = Kept[n]
        /\ \A n \in 1 .. Len(few) : whole[Len(Kept) + n] = few[n]
    <3>1. Kept \in Seq(Indices) /\ few \in Seq(Indices)
      BY <1>2, <1>8
    <3> QED BY <3>1, Chained
  <2> HIDE DEF whole
  <2>2. Revalidated = whole /\ Len(few) = k
    BY <1>4, <1>8 DEF whole
  <2> QED BY <2>1, <2>2
<1>12. \A n \in 1 .. Len(Kept) + k : n > Len(Kept) =>
         n - Len(Kept) \in 1 .. k /\ Revalidated[n] = few[n - Len(Kept)]
  <2>1. ASSUME NEW n \in 1 .. Len(Kept) + k, n > Len(Kept)
        PROVE  n - Len(Kept) \in 1 .. k /\ n = Len(Kept) + (n - Len(Kept))
    BY <2>1, <1>6
  <2> QED BY <2>1, <1>11
<1>13. ASSUME NEW m \in 1 .. Len(Kept) + k, NEW n \in 1 .. Len(Kept) + k,
              Revalidated[m] = Revalidated[n]
       PROVE  m = n
  <2>1. CASE m <= Len(Kept) /\ n <= Len(Kept)
    <3>1. m \in 1 .. Len(Kept) /\ n \in 1 .. Len(Kept)
      BY <2>1, <1>6
    <3> QED BY <3>1, <1>2, <1>11, <1>13
  <2>2. CASE m > Len(Kept) /\ n > Len(Kept)
    <3>1. m - Len(Kept) = n - Len(Kept)
      BY <2>2, <1>8, <1>12, <1>13
    <3> QED BY <3>1, <1>6
  <2>3. CASE m <= Len(Kept) /\ n > Len(Kept)
    <3>1. m \in 1 .. Len(Kept)
      BY <2>3, <1>6
    <3> QED BY <3>1, <2>3, <1>9, <1>10, <1>11, <1>12, <1>13
  <2>4. CASE m > Len(Kept) /\ n <= Len(Kept)
    <3>1. n \in 1 .. Len(Kept)
      BY <2>4, <1>6
    <3> QED BY <3>1, <2>4, <1>9, <1>10, <1>11, <1>12, <1>13
  <2> QED BY <2>1, <2>2, <2>3, <2>4, <1>6
<1> QED BY <1>6, <1>11, <1>13 DEF IsInjective

LEMMA Short ==
  ASSUME NEW t \in Nat, t <= 2, NEW c \in Nat, c < t, NEW l \in Nat
  PROVE  c + 4 < 6 + 4 * l
  OBVIOUS

(* Who is short of half a deposit, at most, gets one, and once.            *)
LEMMA DepositsAre ==
  ASSUME ShapeOK, NEW list \in Seq(Indices), IsInjective(list),
         NEW threshold \in Nat, threshold <= 2
  PROVE  LET d == DepositBelow(threshold, list)
         IN  /\ d \in Seq(Txs)
             /\ \A n \in 1 .. Len(d) : d[n].kind = "Deposit" /\ IsDue(d[n])
             /\ \A m, n \in 1 .. Len(d) : d[m].idx = d[n].idx => m = n
<1> DEFINE at  == {n \in DOMAIN list : slab[list[n]].capital < threshold}
           low == Picked(list, at)
           d   == DepositBelow(threshold, list)
<1>1. DOMAIN list = 1 .. Len(list) /\ at \subseteq 1 .. Len(list)
  OBVIOUS
<1>2. d = [n \in DOMAIN low |-> Deposit(low[n], DEPOSIT)]
  BY DEF DepositBelow
<1>3. \A p \in at : slab[list[p]].capital < threshold
  OBVIOUS
<1> HIDE DEF at, d
<1>4. /\ low \in Seq(Indices)
      /\ \A n \in 1 .. Len(low) : \E p \in at : low[n] = list[p]
      /\ \A m, n \in 1 .. Len(low) : low[m] = low[n] => m = n
  BY <1>1, PickedIs
<1> HIDE DEF low
<1>5. /\ Len(low) \in Nat /\ DOMAIN low = 1 .. Len(low)
      /\ \A n \in 1 .. Len(low) : low[n] \in Indices /\ slab[low[n]].capital < threshold
  BY <1>3, <1>4
<1>6. DEPOSIT \in 0 .. MaxCapital /\ DEPOSIT = 4
  BY Basics
<1>7. /\ \A n \in 1 .. Len(low) : d[n] = Deposit(low[n], DEPOSIT)
      /\ d = [n \in 1 .. Len(low) |-> Deposit(low[n], DEPOSIT)]
  BY <1>2, <1>5
<1>8. \A n \in 1 .. Len(low) : /\ d[n] \in Txs /\ d[n].kind = "Deposit"
                               /\ d[n].idx = low[n] /\ d[n].amount = DEPOSIT
  BY <1>5, <1>6, <1>7, Made
<1>9. d \in Seq(Txs) /\ Len(d) = Len(low)
  BY <1>5, <1>7, <1>8
<1>10. ASSUME NEW n \in 1 .. Len(low) PROVE IsDue(d[n])
  <2>1. late["Deposit"] \in Nat /\ slab[low[n]].capital \in 0 .. MaxCapital
    BY <1>5 DEF ShapeOK, SlabAccounts
  <2>2. slab[low[n]].capital + 4 < 6 + 4 * late["Deposit"]
    <3>1. slab[low[n]].capital < threshold
      BY <1>5
    <3>2. PICK c \in Nat, l \in Nat : c = slab[low[n]].capital /\ l = late["Deposit"]
      BY <2>1, Basics
    <3>3. c < threshold
      BY <3>1, <3>2
    <3>4. c + 4 < 6 + 4 * l
      BY <3>3, Short
    <3> QED BY <3>2, <3>4
  <2>3. d[n].idx = low[n] /\ d[n].amount = 4 /\ TooMuch = 6 + 4 * late["Deposit"]
    BY <2>1, <1>6, <1>8, Amounts
  <2> QED BY <2>2, <2>3, <1>6 DEF IsDue
<1> QED BY <1>4, <1>8, <1>9, <1>10 DEF d

-----------------------------------------------------------------------------
(***************************************************************************)
(* What a transaction does to the accounts.                                *)
(***************************************************************************)
LEMMA SlabAfter ==
  ASSUME ShapeOK, NEW x \in Txs, Executes(x)
  PROVE  /\ slab' \in [Indices -> SlabAccounts]
         /\ x.kind = "InitUser" =>
              \E i \in Indices \ OurTraders :
                /\ OurTraders' = OurTraders \cup {i} /\ slab'[i].capital = 0
                /\ \A j \in Indices \ {i} : slab'[j] = slab[j]
         /\ x.kind # "InitUser" => OurTraders' = OurTraders
         /\ x.kind \in {"Withdraw", "Trade"} =>
              \A j \in Indices : slab'[j].capital <= slab[j].capital
         /\ x.kind = "Deposit" =>
              /\ slab'[x.idx].capital = slab[x.idx].capital + x.amount
              /\ \A j \in Indices \ {x.idx} : slab'[j] = slab[j]
<1>1. slab \in [Indices -> SlabAccounts] /\ MaxCapital \in Nat
  BY Basics DEF ShapeOK
<1>2. CASE x.kind = "InitUser"
  <2>1. PICK i \in Indices : ~Used(i) /\ slab' = [slab EXCEPT ![i] = Account("us", "user", 0)]
    BY <1>2 DEF Executes
  <2>2. Account("us", "user", 0) \in SlabAccounts
    BY <1>1 DEF Account, SlabAccounts
  <2>3. slab' \in [Indices -> SlabAccounts]
    BY <1>1, <2>1, <2>2
  <2>4. /\ slab'[i] = Account("us", "user", 0) /\ slab[i] = NoAccount
        /\ \A j \in Indices \ {i} : slab'[j] = slab[j]
    BY <1>1, <2>1 DEF Used
  <2>5. i \notin OurTraders
    BY <2>4 DEF OurTraders, IsOurTrader, Used
  <2>6. OurTraders' = OurTraders \cup {i}
    <3>1. IsOurTrader(i)'
      BY <2>4 DEF IsOurTrader, Used, Ours, Account, NoAccount
    <3>2. \A j \in Indices \ {i} : IsOurTrader(j)' <=> IsOurTrader(j)
      BY <2>4 DEF IsOurTrader, Used, Ours
    <3> QED BY <3>1, <3>2 DEF OurTraders
  <2>7. slab'[i].capital = 0
    BY <2>4 DEF Account
  <2> QED BY <1>2, <2>3, <2>4, <2>5, <2>6, <2>7
<1>3. CASE x.kind \in {"Deposit", "Withdraw"}
  <2> DEFINE s == x.idx
             c == IF x.kind = "Deposit" THEN slab[s].capital + x.amount
                  ELSE slab[s].capital - x.amount
  <2>1. s \in Indices /\ x.amount \in 0 .. MaxCapital
    BY <1>3, TxsAre DEF InitUser, Tx
  <2>2. slab[s] \in SlabAccounts /\ slab[s].capital \in 0 .. MaxCapital
    BY <1>1, <2>1 DEF SlabAccounts
  <2>3. slab[s].owner = "us" /\ c \in 0 .. MaxCapital
    <3>1. Accepted(x)
      BY DEF Executes
    <3>2. CASE x.kind = "Deposit"
      <4>1. slab[s].owner = "us" /\ slab[s].capital + x.amount <= MaxCapital
        BY <3>1, <3>2 DEF Accepted, Ours
      <4> QED BY <4>1, <3>2, <1>1, <2>1, <2>2
    <3>3. CASE x.kind = "Withdraw"
      <4>1. slab[s].owner = "us" /\ slab[s].capital >= x.amount
        BY <3>1, <3>3 DEF Accepted, Ours
      <4> QED BY <4>1, <3>3, <1>1, <2>1, <2>2
    <3> QED BY <3>2, <3>3, <1>3
  <2>4. slab' = [slab EXCEPT ![s] = [slab[s] EXCEPT !.capital = c]]
    BY <1>1, <1>3, <2>1 DEF Executes
  <2> HIDE DEF c, s
  <2>5. slab'[s] = [slab[s] EXCEPT !.capital = c] /\ \A j \in Indices \ {s} : slab'[j] = slab[j]
    BY <1>1, <2>1, <2>4
  <2>6. /\ slab'[s] \in SlabAccounts /\ slab'[s].capital = c
        /\ slab'[s].owner = "us" /\ slab'[s].kind = slab[s].kind
    BY <2>2, <2>3, <2>5 DEF SlabAccounts
  <2>7. slab' \in [Indices -> SlabAccounts]
    BY <1>1, <2>1, <2>4, <2>5, <2>6
  <2>8. OurTraders' = OurTraders
    <3>1. slab[s] # NoAccount /\ slab'[s] # NoAccount
      BY <2>3, <2>6 DEF NoAccount
    <3>2. \A j \in Indices : IsOurTrader(j)' <=> IsOurTrader(j)
      BY <2>3, <2>5, <2>6, <3>1 DEF IsOurTrader, Used, Ours
    <3> QED BY <3>2 DEF OurTraders
  <2>9. x.kind = "Withdraw" => \A j \in Indices : slab'[j].capital <= slab[j].capital
    <3>1. x.kind = "Withdraw" => c <= slab[s].capital
      BY <1>1, <2>1, <2>2 DEF c, s
    <3>2. \A j \in Indices : slab[j].capital <= slab[j].capital
      BY <1>1 DEF SlabAccounts
    <3> QED BY <3>1, <3>2, <2>5, <2>6
  <2>10. x.kind = "Deposit" => slab'[s].capital = slab[s].capital + x.amount
    BY <2>6 DEF c, s
  <2> QED BY <1>3, <2>5, <2>7, <2>8, <2>9, <2>10 DEF s
<1>4. CASE x.kind = "Trade"
  <2>1. slab' = slab
    BY <1>4 DEF Executes
  <2>2. OurTraders' = OurTraders
    BY <2>1 DEF OurTraders, IsOurTrader, Used, Ours
  <2>3. \A j \in Indices : slab[j].capital \in Int
    BY <1>1 DEF SlabAccounts
  <2> QED BY <1>1, <1>4, <2>1, <2>2, <2>3
<1> QED BY <1>2, <1>3, <1>4, TxsAre DEF InitUser, Tx

LEMMA OursFinite ==
  /\ IsFiniteSet(OurTraders) /\ Cardinality(OurTraders) \in Nat
  /\ Cardinality(OurTraders) <= MaxAccounts
<1>1. OurTraders \subseteq 1 .. MaxAccounts
  BY DEF OurTraders, Indices
<1> QED BY <1>1, Basics, Finite

LEMMA CountAfter ==
  ASSUME ShapeOK, NEW x \in Txs, Executes(x)
  PROVE  Cardinality(OurTraders') = Cardinality(OurTraders) + IF x.kind = "InitUser" THEN 1 ELSE 0
<1>1. CASE x.kind = "InitUser"
  <2>1. PICK i \in Indices \ OurTraders : OurTraders' = OurTraders \cup {i}
    BY <1>1, SlabAfter
  <2> QED BY <1>1, <2>1, OursFinite, FS_AddElement
<1>2. CASE x.kind # "InitUser"
  BY <1>2, SlabAfter, OursFinite
<1> QED BY <1>1, <1>2

(* How much room is left: b is 0, or the deposit that is still to come.    *)
LEMMA Margin ==
  ASSUME ShapeOK, NEW x \in Txs, Executes(x), x.kind = "Deposit" => x.amount = DEPOSIT,
         late'["Deposit"] \in {late["Deposit"], late["Deposit"] + 1},
         NEW j \in OurTraders', NEW b \in {0, 4},
         j \in OurTraders => slab[j].capital + b < TooMuch,
         x.kind = "Deposit" /\ x.idx = j =>
           late'["Deposit"] = late["Deposit"] + 1 \/ (b = 0 /\ slab[j].capital + 4 < TooMuch)
  PROVE  slab'[j].capital + b < TooMuch'
<1>1. /\ late["Deposit"] \in Nat /\ slab \in [Indices -> SlabAccounts]
      /\ OurTraders \subseteq Indices /\ OurTraders' \subseteq Indices
  BY DEF ShapeOK, OurTraders
<1>2. PICK l \in Nat, k \in Nat : l = late["Deposit"] /\ k = late'["Deposit"] /\ k \in {l, l + 1}
  BY <1>1
<1>3. TooMuch = 6 + 4 * l /\ TooMuch' = 6 + 4 * k
  <2>1. DEPOSIT = 4 /\ 4 \div 2 = 2
    BY Basics
  <2> QED BY <1>2, <2>1 DEF TooMuch
<1>4. slab' \in [Indices -> SlabAccounts]
  BY SlabAfter
<1>5. /\ j \in Indices /\ slab[j].capital \in 0 .. MaxCapital
      /\ slab'[j].capital \in 0 .. MaxCapital
  BY <1>1, <1>4 DEF SlabAccounts
<1>6. PICK c \in Nat, d \in Nat : c = slab[j].capital /\ d = slab'[j].capital
  BY <1>5, Basics
<1>7. CASE x.kind = "InitUser"
  <2>1. PICK i \in Indices \ OurTraders :
          /\ OurTraders' = OurTraders \cup {i} /\ slab'[i].capital = 0
          /\ \A u \in Indices \ {i} : slab'[u] = slab[u]
    BY <1>7, SlabAfter
  <2>2. CASE j = i
    <3>1. d = 0
      BY <1>6, <2>1, <2>2
    <3> QED BY <3>1, <1>2, <1>3, <1>6
  <2>3. CASE j # i
    <3>1. d = c /\ c + b < 6 + 4 * l
      BY <1>3, <1>5, <1>6, <2>1, <2>3
    <3> QED BY <3>1, <1>2, <1>3, <1>6
  <2> QED BY <2>2, <2>3
<1>8. CASE x.kind = "Deposit"
  <2>1. /\ j \in OurTraders /\ DEPOSIT = 4
        /\ d = IF j = x.idx THEN c + 4 ELSE c
    BY <1>5, <1>6, <1>8, SlabAfter, Basics
  <2>2. c + b < 6 + 4 * l
    BY <2>1, <1>3, <1>6
  <2>3. CASE j = x.idx
    <3>1. k = l + 1 \/ (b = 0 /\ c + 4 < 6 + 4 * l)
      BY <1>2, <1>3, <1>6, <1>8, <2>3
    <3>2. d + b < 6 + 4 * k
      BY <3>1, <2>1, <2>2, <2>3, <1>2
    <3> QED BY <3>2, <1>3, <1>6
  <2>4. CASE j # x.idx
    <3>1. d + b < 6 + 4 * k
      BY <2>1, <2>2, <2>4, <1>2
    <3> QED BY <3>1, <1>3, <1>6
  <2> QED BY <2>3, <2>4
<1>9. CASE x.kind \in {"Withdraw", "Trade"}
  <2>1. j \in OurTraders /\ d <= c
    BY <1>5, <1>6, <1>9, SlabAfter
  <2>2. c + b < 6 + 4 * l
    BY <2>1, <1>3, <1>6
  <2>3. d + b < 6 + 4 * k
    BY <2>1, <2>2, <1>2
  <2> QED BY <2>3, <1>3, <1>6
<1> QED BY <1>7, <1>8, <1>9, TxsAre DEF InitUser, Tx

-----------------------------------------------------------------------------
(***************************************************************************)
(* Steps that leave the accounts alone.                                    *)
(***************************************************************************)
LEMMA SlabKept ==
  ASSUME UNCHANGED <<slab, late>>
  PROVE  OurTraders' = OurTraders /\ TooMuch' = TooMuch /\ \A x : IsDue(x)' <=> IsDue(x)
<1>1. \A i : IsOurTrader(i)' <=> IsOurTrader(i)
  BY DEF IsOurTrader, Used, Ours
<1>2. TooMuch' = TooMuch
  BY DEF TooMuch
<1> QED BY <1>1, <1>2 DEF OurTraders, IsDue

LEMMA AsideKeeps ==
  ASSUME IInv, UNCHANGED <<slab, late>>, ShapeOK', PlanOK', WireOK',
         pc' = "create" =>
           Cardinality(OurTraders) + Len(plan') <= NUM_TRADERS + late["InitUser"]
  PROVE  IInv'
<1>1. OurTraders' = OurTraders /\ TooMuch' = TooMuch
  BY SlabKept
<1>2. Cardinality(OurTraders) \in Nat /\ Len(plan) \in Nat
  BY OursFinite DEF IInv, ShapeOK
<1>3. Cardinality(OurTraders) <= NUM_TRADERS + late["InitUser"]
  BY <1>2, Basics DEF IInv, OpenedOK, ShapeOK
<1>4. OpenedOK'
  BY <1>1, <1>2, <1>3 DEF OpenedOK
<1>5. CapitalOK'
  BY <1>1 DEF IInv, CapitalOK
<1> QED BY <1>4, <1>5 DEF IInv

LEMMA PlanStays ==
  ASSUME PlanOK, UNCHANGED <<slab, late, plan>>, pc' = "create" <=> pc = "create"
  PROVE  PlanOK'
  BY SlabKept DEF PlanOK

LEMMA PlanOfOthers ==
  ASSUME pc' # "create", \A n \in 1 .. Len(plan') : plan'[n].kind \in {"Withdraw", "Trade"}
  PROVE  PlanOK'
  BY DEF PlanOK

LEMMA NoPlan == ASSUME plan' = <<>> PROVE PlanOK' /\ plan' \in Seq(Txs) /\ Len(plan') = 0
  BY DEF PlanOK

LEMMA TailIs ==
  ASSUME NEW S, NEW q \in Seq(S), q # <<>>
  PROVE  /\ Tail(q) \in Seq(S) /\ Len(q) \in Nat /\ Len(Tail(q)) = Len(q) - 1
         /\ 1 \in 1 .. Len(q) /\ Head(q) = q[1] /\ Head(q) \in S
         /\ \A n \in 1 .. Len(q) - 1 : n + 1 \in 1 .. Len(q) /\ Tail(q)[n] = q[n + 1]
  OBVIOUS

(* A deposit that was due after the head of the plan still is.             *)
LEMMA PlanShrinks ==
  ASSUME PlanOK, plan \in Seq(Txs), plan # <<>>, plan' = Tail(plan),
         pc' = "create" <=> pc = "create",
         \A x \in Txs : \A n \in 1 .. Len(plan) - 1 :
           x = plan[n + 1] /\ x.kind = "Deposit" => IsDue(x)'
  PROVE  PlanOK'
<1>1. /\ Len(plan) \in Nat /\ Len(plan') = Len(plan) - 1
      /\ \A n \in 1 .. Len(plan) - 1 : n + 1 \in 1 .. Len(plan) /\ plan'[n] = plan[n + 1]
      /\ \A n \in 1 .. Len(plan) : plan[n] \in Txs
  BY TailIs
<1>2. \A n \in 1 .. Len(plan') : plan'[n].kind = "InitUser" <=> pc' = "create"
  BY <1>1 DEF PlanOK
<1>3. \A n \in 1 .. Len(plan') : plan'[n].kind = "Deposit" => IsDue(plan[n])'
  <2>1. ASSUME NEW n \in 1 .. Len(plan) - 1, NEW x, x = plan'[n], x.kind = "Deposit"
        PROVE  IsDue(x)'
    <3>1. x \in Txs /\ x = plan[n + 1]
      BY <1>1, <2>1
    <3> QED BY <3>1, <2>1
  <2> QED BY <1>1, <2>1 DEF IsDue
<1>4. \A m, n \in 1 .. Len(plan) - 1 :
        plan'[m].kind = "Deposit" /\ plan'[n].kind = "Deposit" /\ plan'[m].idx = plan'[n].idx => m = n
  <2>1. ASSUME NEW m \in 1 .. Len(plan) - 1, NEW n \in 1 .. Len(plan) - 1,
               plan'[m].kind = "Deposit", plan'[n].kind = "Deposit", plan'[m].idx = plan'[n].idx
        PROVE  m = n
    <3>1. /\ m + 1 \in 1 .. Len(plan) /\ n + 1 \in 1 .. Len(plan)
          /\ plan[m + 1].kind = "Deposit" /\ plan[n + 1].kind = "Deposit"
          /\ plan[m + 1].idx = plan[n + 1].idx
      BY <1>1, <2>1
    <3>2. m + 1 = n + 1
      BY <3>1 DEF PlanOK
    <3> QED BY <3>2
  <2> QED BY <2>1
<1> QED BY <1>1, <1>2, <1>3, <1>4 DEF PlanOK

LEMMA Counted ==
  ASSUME count \in 0 .. REVALIDATE_INTERVAL
  PROVE  Next1(count) \in 0 .. REVALIDATE_INTERVAL
  BY Basics DEF Next1

LEMMA Nobody ==
  <<>> \in Seq(Indices) /\ Len(<<>>) = 0 /\ 0 <= NUM_TRADERS /\ IsInjective(<<>>)
  BY Basics DEF IsInjective

LEMMA ReadTradersKeeps == ASSUME IInv, ReadTraders PROVE IInv'
<1> DEFINE missing == SaturatingSub(NUM_TRADERS, Cardinality(OurTraders))
           users   == [n \in 1 .. missing |-> InitUser]
<1>1. /\ ShapeOK /\ PlanOK /\ WireOK /\ pc = "init"
      /\ UNCHANGED <<slab, wire, count, faults, changes, late>>
      /\ IF missing = 0 THEN pc' = "loop" /\ looping' = TRUE /\ traders' = Found /\ plan' = plan
         ELSE pc' = "create" /\ plan' = users /\ UNCHANGED <<looping, traders>>
  BY DEF IInv, ReadTraders, events, OurTraders
<1>2. missing \in Nat /\ (missing # 0 => Cardinality(OurTraders) + missing = NUM_TRADERS)
  BY OursFinite, Basics DEF SaturatingSub
<1> HIDE DEF missing
<1>3. WireOK'
  BY <1>1 DEF WireOK
<1>4. CASE missing = 0
  <2>1. ShapeOK'
    BY <1>1, <1>4, FoundIs DEF ShapeOK, Places
  <2>2. PlanOK'
    BY <1>1, <1>4, PlanStays
  <2> QED BY <1>1, <1>3, <1>4, <2>1, <2>2, AsideKeeps
<1>5. CASE missing # 0
  <2>1. users \in Seq(Txs) /\ Len(users) = missing /\ \A n \in 1 .. missing : users[n] = InitUser
    BY <1>2, Made
  <2> HIDE DEF users
  <2>2. ShapeOK'
    BY <1>1, <1>5, <2>1 DEF ShapeOK, Places
  <2>3. PlanOK'
    BY <1>1, <1>5, <2>1, Made DEF PlanOK
  <2>4. Cardinality(OurTraders) + Len(plan') <= NUM_TRADERS + late["InitUser"]
    BY <1>1, <1>2, <1>5, <2>1, Basics DEF ShapeOK
  <2> QED BY <1>1, <1>3, <2>2, <2>3, <2>4, AsideKeeps
<1> QED BY <1>4, <1>5

(* A plan of deposits for traders who are short.                           *)
LEMMA DepositsKeep ==
  ASSUME IInv, UNCHANGED <<slab, wire, count, looping, faults, changes, late>>,
         NEW list \in Seq(Indices), IsInjective(list), Len(list) <= NUM_TRADERS,
         traders' = list, NEW threshold \in Nat, threshold <= 2,
         plan' = DepositBelow(threshold, list), pc' \in Places \ {"create"}
  PROVE  IInv'
<1>1. ShapeOK /\ WireOK
  BY DEF IInv
<1>2. /\ plan' \in Seq(Txs)
      /\ \A n \in 1 .. Len(plan') : plan'[n].kind = "Deposit" /\ IsDue(plan'[n])
      /\ \A m, n \in 1 .. Len(plan') : plan'[m].idx = plan'[n].idx => m = n
  BY <1>1, DepositsAre
<1>3. ShapeOK'
  BY <1>1, <1>2 DEF ShapeOK
<1>4. PlanOK'
  BY <1>2, SlabKept DEF PlanOK
<1>5. WireOK'
  BY <1>1 DEF WireOK
<1> QED BY <1>3, <1>4, <1>5, AsideKeeps

LEMMA RereadTradersKeeps == ASSUME IInv, RereadTraders PROVE IInv'
<1>1. DEPOSIT \div 2 = 2
  BY Basics
<1> QED BY <1>1, FoundIs, DepositsKeep DEF RereadTraders, events, Places

LEMMA TopUpKeeps == ASSUME IInv, TopUp PROVE IInv'
<1>1. DEPOSIT \div 4 = 1
  BY Basics
<1> QED BY <1>1, DepositsKeep DEF TopUp, TopUps, events, Places, IInv, ShapeOK

LEMMA RefundKeeps == ASSUME IInv, Refund PROVE IInv'
<1>1. DEPOSIT \div 2 = 2
  BY Basics
<1> QED BY <1>1, DepositsKeep DEF Refund, Refunds, events, Places, IInv, ShapeOK

(* Only the place, the list of traders and the counter change.             *)
LEMMA MovesKeep ==
  ASSUME IInv, UNCHANGED <<slab, wire, plan, faults, changes, late>>,
         pc # "create" \/ plan = <<>>, pc' \in Places \ {"create"},
         traders' \in Seq(Indices), Len(traders') <= NUM_TRADERS, IsInjective(traders'),
         count' \in 0 .. REVALIDATE_INTERVAL, looping' \in BOOLEAN
  PROVE  IInv'
<1>1. ShapeOK' /\ WireOK'
  BY DEF IInv, ShapeOK, WireOK
<1>2. PlanOK'
  BY PlanStays, NoPlan DEF IInv
<1> QED BY <1>1, <1>2, AsideKeeps

LEMMA FundedKeeps == ASSUME IInv, Funded PROVE IInv'
  BY MovesKeep DEF Funded, events, Places, IInv, ShapeOK

LEMMA RevalidateKeeps == ASSUME IInv, Revalidate PROVE IInv'
<1>1. /\ traders' \in Seq(Indices) /\ Len(traders') <= NUM_TRADERS /\ IsInjective(traders')
  BY RevalidatedIs DEF Revalidate, IInv, ShapeOK
<1> QED BY <1>1, MovesKeep DEF Revalidate, events, Places, IInv, ShapeOK

LEMMA RefundedKeeps == ASSUME IInv, Refunded PROVE IInv'
  BY MovesKeep, Counted DEF Refunded, events, Places, IInv, ShapeOK

LEMMA ReinitializeKeeps == ASSUME IInv, Reinitialize PROVE IInv'
<1>1. pc # "create"
  BY DEF Reinitialize, Ready
<1> QED BY <1>1, MovesKeep DEF Reinitialize, events, Places, IInv, ShapeOK

LEMMA StartedKeeps == ASSUME IInv, Started PROVE IInv'
<1>1. 0 \in 0 .. REVALIDATE_INTERVAL
  BY Basics
<1> QED BY <1>1, MovesKeep DEF Started, events, Places, IInv, ShapeOK


-----------------------------------------------------------------------------
(***************************************************************************)
(* What is planned on a bank run, and to trade.                            *)
(***************************************************************************)
LEMMA TradersAre ==
  ASSUME ShapeOK
  PROVE  /\ ToSet(traders) \subseteq Indices
         /\ \A i \in Indices : slab[i].capital \in 0 .. MaxCapital
  BY DEF ShapeOK, ToSet, SlabAccounts

LEMMA WithdrawalsAre ==
  ASSUME ShapeOK, NEW p \in Withdrawals
  PROVE  p \in Seq(Txs) /\ \A n \in 1 .. Len(p) : p[n].kind = "Withdraw"
<1> DEFINE rich == {i \in ToSet(traders) : slab[i].capital > 0}
           k    == Cardinality(rich)
<1>1. rich \subseteq Indices
  BY TradersAre
<1>2. k \in Nat
  BY <1>1, Basics, Finite DEF Indices
<1>3. PICK order \in SetToSeqs(rich) :
        p = [n \in DOMAIN order |-> Withdraw(order[n], slab[order[n]].capital)]
  BY DEF Withdrawals
<1> HIDE DEF rich
<1>4. order \in [1 .. k -> rich]
  BY <1>3 DEF SetToSeqs
<1> HIDE DEF k
<1>5. /\ p = [n \in 1 .. k |-> Withdraw(order[n], slab[order[n]].capital)]
      /\ \A n \in 1 .. k : order[n] \in Indices
  BY <1>1, <1>3, <1>4
<1>6. \A n \in 1 .. k : p[n] \in Txs /\ p[n].kind = "Withdraw"
  BY <1>5, TradersAre, Made
<1> QED BY <1>2, <1>5, <1>6

LEMMA BankRunKeeps == ASSUME IInv, BankRun PROVE IInv'
<1>1. /\ ShapeOK /\ WireOK /\ plan' \in Withdrawals /\ pc' = "bankrun"
      /\ UNCHANGED <<slab, wire, traders, count, looping, faults, changes, late>>
  BY DEF BankRun, events, IInv
<1>2. plan' \in Seq(Txs) /\ \A n \in 1 .. Len(plan') : plan'[n].kind = "Withdraw"
  BY <1>1, WithdrawalsAre
<1>3. ShapeOK' /\ WireOK'
  BY <1>1, <1>2 DEF ShapeOK, Places, WireOK
<1>4. PlanOK'
  BY <1>1, <1>2, PlanOfOthers
<1> QED BY <1>1, <1>3, <1>4, AsideKeeps

LEMMA RoutesAre == ASSUME NEW lp \in Routes PROVE lp \in Indices
<1>1. PICK isLong \in BOOLEAN : lp \in findBestLp(Lps, ORACLE, TRADE_SIZE, isLong)
  BY DEF Routes
<1>2. PICK l \in Lps : lp = l.index
  BY <1>1 DEF findBestLp, Winner
<1> QED BY <1>2 DEF Lps

LEMMA ChooseKeeps == ASSUME IInv, NEW i \in Indices, Choose(i) PROVE IInv'
<1>1. CASE Routes = {}
  <2>1. pc # "create"
    BY DEF Choose, Ready
  <2> QED BY <1>1, <2>1, MovesKeep DEF Choose, events, Places, IInv, ShapeOK
<1>2. CASE Routes # {}
  <2>1. PICK lp \in Routes : pc' = "trade" /\ plan' = <<Trade(i, lp)>> /\ count' = Next1(count)
    BY <1>2 DEF Choose
  <2>2. UNCHANGED <<slab, wire, traders, looping, faults, changes, late>>
    BY DEF Choose, events
  <2>3. Trade(i, lp) \in Txs /\ Trade(i, lp).kind = "Trade"
    <3>1. lp \in 0 .. MaxAccounts
      BY RoutesAre, Basics DEF Indices
    <3> QED BY <3>1, Made
  <2>4. plan' \in Seq(Txs) /\ Len(plan') = 1 /\ plan'[1].kind = "Trade"
    BY <2>1, <2>3
  <2>5. ShapeOK' /\ WireOK'
    BY <2>1, <2>2, <2>4, Counted DEF IInv, ShapeOK, Places, WireOK
  <2>6. PlanOK'
    BY <2>1, <2>4, PlanOfOthers
  <2> QED BY <2>1, <2>2, <2>5, <2>6, AsideKeeps
<1> QED BY <1>1, <1>2

-----------------------------------------------------------------------------
(***************************************************************************)
(* Transactions that are executed, while the bot waits and afterwards.     *)
(***************************************************************************)
LEMMA HeadIs ==
  ASSUME ShapeOK, PlanOK, plan # <<>>
  PROVE  /\ Head(plan) \in Txs
         /\ Head(plan).kind = "InitUser" <=> pc = "create"
         /\ Head(plan).kind = "Deposit" => IsDue(Head(plan)) /\ Head(plan).amount = DEPOSIT
<1>1. 1 \in 1 .. Len(plan) /\ Head(plan) = plan[1] /\ Head(plan) \in Txs
  BY TailIs DEF ShapeOK
<1> QED BY <1>1 DEF PlanOK, IsDue

LEMMA ConfirmedKeeps == ASSUME IInv, Confirmed PROVE IInv'
<1> DEFINE x == Head(plan)
<1>1. /\ ShapeOK /\ PlanOK /\ WireOK /\ OpenedOK /\ CapitalOK /\ plan # <<>> /\ Executes(x)
      /\ plan' = Tail(plan) /\ UNCHANGED <<wire, traders, count, looping, faults, changes, late>>
  BY DEF IInv, Confirmed, Sending, events
<1>2. pc' = CASE pc = "trade" -> "loop" [] pc = "half" -> "bankrun" [] OTHER -> pc
  BY DEF Confirmed
<1>3. /\ x \in Txs /\ (x.kind = "InitUser" <=> pc = "create")
      /\ x.kind = "Deposit" => IsDue(x) /\ x.amount = DEPOSIT
  BY <1>1, HeadIs
<1>4. /\ plan \in Seq(Txs) /\ Tail(plan) \in Seq(Txs) /\ Len(plan) \in Nat
      /\ Len(Tail(plan)) = Len(plan) - 1 /\ 1 \in 1 .. Len(plan) /\ x = plan[1]
      /\ \A n \in 1 .. Len(plan) - 1 : n + 1 \in 1 .. Len(plan) /\ n + 1 # 1
  BY <1>1, TailIs DEF ShapeOK
<1> HIDE DEF x
<1>5. pc' \in Places /\ (pc' = "create" <=> pc = "create")
  BY <1>1, <1>2 DEF ShapeOK, Places
<1>6. slab' \in [Indices -> SlabAccounts]
  BY <1>1, <1>3, SlabAfter
<1>7. ShapeOK'
  BY <1>1, <1>4, <1>5, <1>6 DEF ShapeOK
<1>8. WireOK'
  BY <1>1 DEF WireOK
<1>9. late'["Deposit"] \in {late["Deposit"], late["Deposit"] + 1}
  BY <1>1
<1>10. PlanOK'
  <2>1. ASSUME NEW y \in Txs, NEW n \in 1 .. Len(plan) - 1, y = plan[n + 1], y.kind = "Deposit"
        PROVE  IsDue(y)'
    <3>1. IsDue(y)
      BY <1>1, <1>4, <2>1 DEF PlanOK
    <3>2. ~ (x.kind = "Deposit" /\ x.idx = y.idx)
      BY <1>1, <1>4, <2>1 DEF PlanOK
    <3>3. y.amount = DEPOSIT /\ DEPOSIT = 4
      BY <3>1, Basics DEF IsDue
    <3>4. y.idx \in OurTraders => slab[y.idx].capital + 4 < TooMuch
      BY <3>1, <3>3 DEF IsDue, OurTraders
    <3>5. y.idx \in OurTraders' => slab'[y.idx].capital + 4 < TooMuch'
      BY <1>1, <1>3, <1>9, <3>2, <3>4, Margin
    <3>6. y.idx \in Indices
      BY <2>1, TxsAre DEF InitUser, Tx
    <3>7. IsOurTrader(y.idx)' => slab'[y.idx].capital + 4 < TooMuch'
      BY <3>5, <3>6 DEF OurTraders
    <3> QED BY <3>3, <3>7 DEF IsDue
  <2> QED BY <2>1, <1>1, <1>4, <1>5, PlanShrinks
<1>11. OpenedOK'
  <2>1. Cardinality(OurTraders') = Cardinality(OurTraders) + IF x.kind = "InitUser" THEN 1 ELSE 0
    BY <1>1, <1>3, CountAfter
  <2>2. Cardinality(OurTraders) \in Nat
    BY OursFinite
  <2> QED BY <2>1, <2>2, <1>1, <1>3, <1>4, <1>5 DEF OpenedOK
<1>12. CapitalOK'
  <2>1. ASSUME NEW j \in OurTraders' PROVE slab'[j].capital < TooMuch'
    <3>1. j \in Indices /\ slab'[j].capital \in Int
      BY <1>6, Basics DEF OurTraders, SlabAccounts
    <3>2. j \in OurTraders => slab[j].capital + 0 < TooMuch
      <4>1. \A i \in OurTraders : slab[i].capital < TooMuch /\ slab[i].capital \in Nat
        BY <1>1, TradersAre DEF CapitalOK, OurTraders
      <4> QED BY <4>1
    <3>3. x.kind = "Deposit" /\ x.idx = j => slab[j].capital + 4 < TooMuch
      <4>1. x.kind = "Deposit" => OurTraders' = OurTraders
        BY <1>1, <1>3, SlabAfter
      <4>2. \A i \in OurTraders : IsOurTrader(i)
        BY DEF OurTraders
      <4> QED BY <4>1, <4>2, <1>3, Basics DEF IsDue
    <3>4. slab'[j].capital + 0 < TooMuch'
      BY <1>1, <1>3, <1>9, <3>2, <3>3, Margin
    <3> QED BY <3>1, <3>4
  <2> QED BY <2>1 DEF CapitalOK
<1> QED BY <1>7, <1>8, <1>10, <1>11, <1>12 DEF IInv

(* Nothing that was given up on but leaves its mark on late.               *)
LEMMA LandKeeps == ASSUME IInv, NEW x \in wire, Land(x) PROVE IInv'
<1>1. /\ ShapeOK /\ PlanOK /\ WireOK /\ OpenedOK /\ CapitalOK /\ Executes(x)
      /\ wire' = wire \ {x} /\ late' = [late EXCEPT ![x.kind] = @ + 1]
      /\ UNCHANGED <<pc, traders, count, looping, plan, faults, changes>>
  BY DEF IInv, Land, bot, events
<1>2. /\ x \in Txs /\ x.kind \in {"InitUser", "Deposit"}
      /\ x.kind = "Deposit" => x.amount = DEPOSIT
  BY <1>1 DEF ShapeOK, WireOK
<1>3. /\ late' \in [{"InitUser", "Deposit"} -> Nat]
      /\ late["Deposit"] \in Nat /\ late["InitUser"] \in Nat
      /\ late'["Deposit"] = late["Deposit"] + (IF x.kind = "Deposit" THEN 1 ELSE 0)
      /\ late'["InitUser"] = late["InitUser"] + (IF x.kind = "InitUser" THEN 1 ELSE 0)
  BY <1>1, <1>2 DEF ShapeOK
<1>4. slab' \in [Indices -> SlabAccounts]
  BY <1>1, <1>2, SlabAfter
<1>5. ShapeOK' /\ WireOK'
  BY <1>1, <1>3, <1>4 DEF ShapeOK, WireOK
<1>6. /\ late'["Deposit"] \in {late["Deposit"], late["Deposit"] + 1}
      /\ x.kind = "Deposit" => late'["Deposit"] = late["Deposit"] + 1
  BY <1>2, <1>3
<1>7. PlanOK'
  <2>1. ASSUME NEW y \in Txs, IsDue(y) PROVE IsDue(y)'
    <3>1. y.amount = DEPOSIT /\ DEPOSIT = 4
      BY <2>1, Basics DEF IsDue
    <3>2. y.idx \in OurTraders => slab[y.idx].capital + 4 < TooMuch
      BY <2>1, <3>1 DEF IsDue, OurTraders
    <3>3. y.idx \in OurTraders' => slab'[y.idx].capital + 4 < TooMuch'
      BY <1>1, <1>2, <1>6, <3>2, Margin
    <3>4. y.idx \in Indices => (IsOurTrader(y.idx)' => slab'[y.idx].capital + 4 < TooMuch')
      BY <3>3 DEF OurTraders
    <3>5. CASE y = InitUser
      BY <3>5, <3>1 DEF InitUser, Tx
    <3>6. CASE y # InitUser
      BY <3>1, <3>4, <3>6, TxsAre DEF IsDue
    <3> QED BY <3>5, <3>6
  <2>2. \A n \in 1 .. Len(plan) : plan[n] \in Txs
    BY <1>1 DEF ShapeOK
  <2>3. ASSUME NEW n \in 1 .. Len(plan), plan[n].kind = "Deposit" PROVE IsDue(plan[n])'
    <3>1. PICK y \in Txs : y = plan[n] /\ y = plan'[n]
      BY <2>2, <1>1
    <3>2. IsDue(y)'
      BY <2>1, <2>3, <3>1, <1>1 DEF PlanOK
    <3> QED BY <3>1, <3>2 DEF IsDue
  <2> QED BY <2>3, <1>1 DEF PlanOK
<1>8. OpenedOK'
  <2>1. Cardinality(OurTraders') = Cardinality(OurTraders) + IF x.kind = "InitUser" THEN 1 ELSE 0
    BY <1>1, <1>2, CountAfter
  <2>2. Cardinality(OurTraders) \in Nat /\ NUM_TRADERS \in Nat /\ Len(plan) \in Nat
    BY OursFinite, Basics, <1>1 DEF ShapeOK
  <2> QED BY <2>1, <2>2, <1>1, <1>2, <1>3 DEF OpenedOK
<1>9. CapitalOK'
  <2>1. ASSUME NEW j \in OurTraders' PROVE slab'[j].capital < TooMuch'
    <3>1. j \in Indices /\ slab'[j].capital \in Int
      BY <1>4, Basics DEF OurTraders, SlabAccounts
    <3>2. j \in OurTraders => slab[j].capital + 0 < TooMuch
      <4>1. \A i \in OurTraders : slab[i].capital < TooMuch /\ slab[i].capital \in Nat
        BY <1>1, TradersAre DEF CapitalOK, OurTraders
      <4> QED BY <4>1
    <3>3. slab'[j].capital + 0 < TooMuch'
      BY <1>1, <1>2, <1>6, <3>2, Margin
    <3> QED BY <3>1, <3>3
  <2> QED BY <2>1 DEF CapitalOK
<1> QED BY <1>5, <1>7, <1>8, <1>9 DEF IInv

-----------------------------------------------------------------------------
(***************************************************************************)
(* Giving up, on a transaction or on the whole pass.                       *)
(***************************************************************************)
LEMMA ThrownKeeps ==
  ASSUME IInv, Thrown, UNCHANGED <<slab, late>>, WireOK', wire' \subseteq Txs,
         faults' \in 0 .. MaxFaults, changes' \in 0 .. MaxChanges
  PROVE  IInv'
<1>1. /\ pc' \in {"loop", "off"} /\ plan' = <<>> /\ looping' = looping
      /\ traders' \in {traders, <<>>} /\ count' \in {count, Next1(count)}
  BY DEF Thrown
<1>2. traders' \in Seq(Indices) /\ Len(traders') <= NUM_TRADERS /\ IsInjective(traders')
  BY <1>1, Nobody DEF IInv, ShapeOK
<1>3. PlanOK' /\ plan' \in Seq(Txs)
  BY <1>1, NoPlan
<1>4. ShapeOK'
  BY <1>1, <1>2, <1>3, Counted DEF IInv, ShapeOK, Places
<1> QED BY <1>1, <1>3, <1>4, AsideKeeps

LEMMA HalfIs ==
  ASSUME NEW n \in 0 .. MaxCapital
  PROVE  n \div 2 \in 0 .. MaxCapital
  BY Basics

LEMMA GivesUpKeeps ==
  ASSUME IInv, plan # <<>>, GivesUp, UNCHANGED <<slab, late>>, WireOK', wire' \subseteq Txs,
         faults' \in 0 .. MaxFaults, changes' \in 0 .. MaxChanges
  PROVE  IInv'
<1> DEFINE x    == Head(plan)
           half == x.amount \div 2
           y    == Withdraw(x.idx, half)
<1>1. ShapeOK /\ PlanOK
  BY DEF IInv
<1>2. /\ plan \in Seq(Txs) /\ Tail(plan) \in Seq(Txs) /\ Len(plan) \in Nat
      /\ Len(Tail(plan)) = Len(plan) - 1 /\ x = plan[1] /\ x \in Txs /\ 1 \in 1 .. Len(plan)
      /\ \A n \in 1 .. Len(plan) - 1 : n + 1 \in 1 .. Len(plan) /\ Tail(plan)[n] = plan[n + 1]
  BY <1>1, TailIs DEF ShapeOK
<1>3. CASE pc \in {"create", "fund", "trade"}
  BY <1>3, ThrownKeeps DEF GivesUp
<1>4. CASE pc = "bankrun" /\ half > 0
  <2>1. /\ pc' = "half" /\ plan' = <<y>> \o Tail(plan)
        /\ UNCHANGED <<traders, count, looping>>
    BY <1>4 DEF GivesUp
  <2>2. y \in Txs /\ y.kind = "Withdraw"
    <3>1. x # InitUser
      BY <1>1, <1>2, <1>4, TxsAre DEF PlanOK
    <3>2. x.idx \in Indices /\ x.amount \in 0 .. MaxCapital
      BY <3>1, <1>2, TxsAre
    <3> QED BY <3>2, HalfIs, Made
  <2> HIDE DEF y
  <2>3. /\ plan' \in Seq(Txs) /\ Len(plan') = Len(plan) /\ plan'[1] = y
        /\ \A n \in 1 .. Len(plan) : n # 1 => plan'[n] = plan[n]
    <3>1. <<y>> \in Seq(Txs) /\ Len(<<y>>) = 1 /\ <<y>>[1] = y
      BY <2>2
    <3>2. /\ plan' \in Seq(Txs) /\ Len(plan') = 1 + Len(Tail(plan))
          /\ \A n \in 1 .. 1 : plan'[n] = <<y>>[n]
          /\ \A n \in 1 .. Len(Tail(plan)) : plan'[1 + n] = Tail(plan)[n]
      BY <3>1, <2>1, <1>2, Chained
    <3>3. ASSUME NEW n \in 1 .. Len(plan), n # 1 PROVE plan'[n] = plan[n]
      <4>1. n - 1 \in 1 .. Len(plan) - 1 /\ 1 + (n - 1) = n /\ (n - 1) + 1 = n
        BY <3>3, <1>2
      <4> QED BY <4>1, <3>2, <1>2
    <3> QED BY <3>1, <3>2, <3>3, <1>2
  <2>4. ShapeOK'
    BY <1>1, <2>1, <2>3 DEF ShapeOK, Places
  <2>5. PlanOK'
    <3>1. \A n \in 1 .. Len(plan') : plan'[n].kind # "InitUser"
      BY <2>2, <2>3, <1>1, <1>4 DEF PlanOK
    <3>2. \A n \in 1 .. Len(plan') : plan'[n].kind = "Deposit" => IsDue(plan[n])'
      <4>1. ASSUME NEW n \in 1 .. Len(plan'), plan'[n].kind = "Deposit" PROVE IsDue(plan[n])'
        <5>1. n # 1 /\ plan'[n] = plan[n] /\ n \in 1 .. Len(plan)
          BY <2>2, <2>3, <4>1
        <5>2. PICK z : z = plan[n] /\ z = plan'[n]
          BY <5>1
        <5>3. IsDue(z)'
          BY <4>1, <5>1, <5>2, <1>1, SlabKept DEF PlanOK
        <5> QED BY <5>2, <5>3 DEF IsDue
      <4> QED BY <4>1
    <3>3. \A m, n \in 1 .. Len(plan') :
            plan'[m].kind = "Deposit" /\ plan'[n].kind = "Deposit" /\ plan'[m].idx = plan'[n].idx
              => m = n
      BY <2>2, <2>3, <1>1 DEF PlanOK
    <3> QED BY <2>1, <3>1, <3>2, <3>3 DEF PlanOK
  <2> QED BY <2>1, <2>4, <2>5, AsideKeeps
<1>5. CASE pc \notin {"create", "fund", "trade"} /\ ~ (pc = "bankrun" /\ half > 0)
  <2>1. /\ plan' = Tail(plan) /\ pc' = IF pc = "half" THEN "bankrun" ELSE pc
        /\ UNCHANGED <<traders, count, looping>>
    BY <1>5 DEF GivesUp
  <2>2. pc' \in Places /\ pc' # "create" /\ pc # "create"
    BY <1>1, <1>5, <2>1 DEF ShapeOK, Places
  <2>3. ShapeOK'
    BY <1>1, <1>2, <2>1, <2>2 DEF ShapeOK
  <2>4. PlanOK'
    <3>1. ASSUME NEW z \in Txs, NEW n \in 1 .. Len(plan) - 1, z = plan[n + 1], z.kind = "Deposit"
          PROVE  IsDue(z)'
      BY <3>1, <1>1, <1>2, SlabKept DEF PlanOK
    <3> QED BY <3>1, <1>1, <1>2, <2>1, <2>2, PlanShrinks
  <2> QED BY <2>2, <2>3, <2>4, AsideKeeps
<1> QED BY <1>3, <1>4, <1>5

LEMMA FaultyIs ==
  ASSUME IInv
  PROVE  /\ Faulty => faults' \in 0 .. MaxFaults
         /\ UNCHANGED faults => faults' \in 0 .. MaxFaults
         /\ UNCHANGED changes => changes' \in 0 .. MaxChanges
  BY TradersAssumption DEF IInv, ShapeOK, Faulty

LEMMA SentIs ==
  ASSUME ShapeOK, PlanOK, plan # <<>>, NEW x \in Sent
  PROVE  /\ x \in Txs /\ x.kind \in {"InitUser", "Deposit"}
         /\ x.kind = "Deposit" => x.amount = DEPOSIT
<1>1. x = Head(plan) /\ x.kind \in DOMAIN late
  BY DEF Sent
<1>2. DOMAIN late = {"InitUser", "Deposit"}
  BY DEF ShapeOK
<1> QED BY <1>1, <1>2, HeadIs

LEMMA WireGrows ==
  ASSUME IInv, plan = <<>> => Sent = {}, wire' \in {wire, wire \cup Sent}
  PROVE  WireOK' /\ wire' \subseteq Txs
<1>1. \A x \in Sent : /\ x \in Txs /\ x.kind \in {"InitUser", "Deposit"}
                      /\ x.kind = "Deposit" => x.amount = DEPOSIT
  BY SentIs DEF IInv
<1> QED BY <1>1 DEF IInv, ShapeOK, WireOK

LEMMA SentEmpty == ASSUME plan = <<>> PROVE Sent = {}
<1>1. ToSet(plan) = {}
  <2>1. DOMAIN <<>> = {}
    OBVIOUS
  <2> QED BY <2>1 DEF ToSet
<1> QED BY <1>1 DEF Sent

LEMMA FailsKeeps == ASSUME IInv, Fails PROVE IInv'
<1>1. WireOK' /\ wire' \subseteq Txs
  BY SentEmpty, WireGrows DEF Fails
<1> QED BY <1>1, FaultyIs, GivesUpKeeps DEF Fails, Sending, events

LEMMA TimesOutKeeps == ASSUME IInv, TimesOut PROVE IInv'
<1>1. WireOK' /\ wire' \subseteq Txs
  BY SentEmpty, WireGrows DEF TimesOut
<1> QED BY <1>1, FaultyIs, GivesUpKeeps DEF TimesOut, Sending

LEMMA ReadFailsKeeps == ASSUME IInv, ReadFails PROVE IInv'
<1>1. WireOK' /\ wire' \subseteq Txs
  BY SentEmpty, WireGrows DEF ReadFails
<1> QED BY <1>1, FaultyIs, ThrownKeeps DEF ReadFails

LEMMA KilledKeeps == ASSUME IInv, Killed PROVE IInv'
<1>1. WireOK' /\ wire' \subseteq Txs
  BY SentEmpty, WireGrows DEF Killed
<1>2. /\ pc' = "off" /\ traders' = <<>> /\ plan' = <<>> /\ looping' = FALSE /\ count' = 0
      /\ UNCHANGED <<slab, changes, late>>
  BY DEF Killed
<1>3. faults' \in 0 .. MaxFaults /\ changes' \in 0 .. MaxChanges
  BY <1>2, FaultyIs DEF Killed
<1>4. PlanOK' /\ plan' \in Seq(Txs)
  BY <1>2, NoPlan
<1>5. ShapeOK'
  <2>1. 0 \in 0 .. REVALIDATE_INTERVAL
    BY Basics
  <2> QED BY <1>1, <1>2, <1>3, <1>4, <2>1, Nobody DEF IInv, ShapeOK, Places
<1> QED BY <1>1, <1>2, <1>4, <1>5, AsideKeeps

(* Accounts that go leave no more of ours, nor more in them.               *)
LEMMA ClosedKeeps == ASSUME IInv, NEW S \in SUBSET Indices, Closed(S) PROVE IInv'
<1>1. /\ ShapeOK /\ PlanOK /\ WireOK /\ OpenedOK /\ CapitalOK
      /\ slab' = [i \in Indices |-> IF i \in S THEN NoAccount ELSE slab[i]]
      /\ UNCHANGED <<wire, pc, traders, count, looping, plan, faults, late>>
      /\ changes < MaxChanges /\ changes' = changes + 1
  BY DEF IInv, Closed, bot
<1>2. NoAccount \in SlabAccounts
  BY Basics DEF NoAccount, SlabAccounts
<1>3. /\ slab' \in [Indices -> SlabAccounts]
      /\ \A i \in Indices : slab'[i] = IF i \in S THEN NoAccount ELSE slab[i]
  BY <1>1, <1>2 DEF ShapeOK
<1>4. changes' \in 0 .. MaxChanges
  BY <1>1, TradersAssumption DEF ShapeOK
<1>5. ShapeOK' /\ WireOK'
  BY <1>1, <1>3, <1>4 DEF ShapeOK, WireOK
<1>6. \A i \in Indices : IsOurTrader(i)' => IsOurTrader(i) /\ slab'[i] = slab[i]
  BY <1>3 DEF IsOurTrader, Used, Ours
<1>7. OurTraders' \subseteq OurTraders /\ TooMuch' = TooMuch
  BY <1>1, <1>6 DEF OurTraders, TooMuch
<1>8. PlanOK'
  <2>1. ASSUME NEW y \in Txs, IsDue(y) PROVE IsDue(y)'
    <3>1. CASE y = InitUser
      <4>1. y.amount = 0
        BY <3>1 DEF InitUser, Tx
      <4> QED BY <4>1, <2>1, Basics DEF IsDue
    <3>2. CASE y # InitUser
      BY <2>1, <3>2, <1>6, <1>7, TxsAre DEF IsDue
    <3> QED BY <3>1, <3>2
  <2>2. \A n \in 1 .. Len(plan) : plan[n] \in Txs
    BY <1>1 DEF ShapeOK
  <2>3. ASSUME NEW n \in 1 .. Len(plan), plan[n].kind = "Deposit" PROVE IsDue(plan[n])'
    <3>1. PICK y \in Txs : y = plan[n] /\ y = plan'[n]
      BY <2>2, <1>1
    <3>2. IsDue(y)'
      BY <2>1, <2>3, <3>1, <1>1 DEF PlanOK
    <3> QED BY <3>1, <3>2 DEF IsDue
  <2> QED BY <2>3, <1>1 DEF PlanOK
<1>9. OpenedOK'
  <2>1. Cardinality(OurTraders') <= Cardinality(OurTraders) /\ Cardinality(OurTraders') \in Nat
    BY <1>7, OursFinite, FS_Subset, FS_CardinalityType
  <2> QED BY <2>1, <1>1, OursFinite, Basics DEF OpenedOK, ShapeOK
<1>10. CapitalOK'
  BY <1>1, <1>6, <1>7 DEF CapitalOK, OurTraders
<1> QED BY <1>5, <1>8, <1>9, <1>10 DEF IInv

-----------------------------------------------------------------------------
(***************************************************************************)
(* The invariant holds of every behaviour.                                 *)
(***************************************************************************)
LEMMA InitIInv == ASSUME Init PROVE IInv
<1>1. PICK old \in {{}, 2 .. NUM_TRADERS + 1} :
        slab = [i \in Indices |-> CASE i = 1 -> Account("us", "lp", DEPOSIT)
                                    [] i \in old -> Account("us", "user", 1)
                                    [] OTHER -> NoAccount]
  BY DEF Init
<1>2. /\ wire = {} /\ pc = "off" /\ traders = <<>> /\ count = 0 /\ looping = FALSE
      /\ plan = <<>> /\ faults = 0 /\ changes = 0
      /\ late = [k \in {"InitUser", "Deposit"} |-> 0]
  BY DEF Init
<1>3. /\ Account("us", "lp", DEPOSIT) \in SlabAccounts /\ Account("us", "user", 1) \in SlabAccounts
      /\ NoAccount \in SlabAccounts
  BY Basics DEF Account, NoAccount, SlabAccounts
<1>4. /\ slab \in [Indices -> SlabAccounts]
      /\ \A i \in Indices : \/ slab[i] = Account("us", "lp", DEPOSIT)
                            \/ i \in old /\ slab[i] = Account("us", "user", 1)
                            \/ slab[i] = NoAccount
  BY <1>1, <1>3
<1>5. <<>> \in Seq(Txs) /\ <<>> \in Seq(Indices)
  OBVIOUS
<1>6. ShapeOK
  <2>1. 0 \in 0 .. MaxFaults /\ 0 \in 0 .. MaxChanges /\ 0 \in 0 .. REVALIDATE_INTERVAL
    BY TradersAssumption, Basics
  <2>2. late \in [{"InitUser", "Deposit"} -> Nat]
    BY <1>2
  <2> QED BY <1>2, <1>4, <1>5, <2>1, <2>2, Nobody DEF ShapeOK, Places
<1>7. PlanOK /\ WireOK
  BY <1>2 DEF PlanOK, WireOK
<1>8. \A i \in OurTraders : i \in old /\ slab[i].capital = 1
  BY <1>4 DEF OurTraders, IsOurTrader, Used, Ours, Account, NoAccount
<1>9. OpenedOK
  <2>1. OurTraders \subseteq 2 .. NUM_TRADERS + 1
    BY <1>1, <1>8
  <2>2. IsFiniteSet(2 .. NUM_TRADERS + 1) /\ Cardinality(2 .. NUM_TRADERS + 1) = NUM_TRADERS
    <3>1. NUM_TRADERS \in Nat \ {0}
      BY TradersAssumption
    <3> QED BY <3>1, FS_Interval
  <2>3. Cardinality(OurTraders) <= NUM_TRADERS
    BY <2>1, <2>2, FS_Subset
  <2> QED BY <2>3, <1>2, OursFinite, Basics DEF OpenedOK
<1>10. CapitalOK
  <2>1. TooMuch = 6
    BY <1>2, Amounts
  <2> QED BY <2>1, <1>8 DEF CapitalOK
<1> QED BY <1>6, <1>7, <1>9, <1>10 DEF IInv

LEMMA StutterIInv == ASSUME IInv, UNCHANGED vars PROVE IInv'
<1>1. UNCHANGED <<slab, wire, pc, traders, count, looping, plan, faults, changes, late>>
  BY DEF vars, events
<1>2. ShapeOK' /\ WireOK'
  BY <1>1 DEF IInv, ShapeOK, WireOK
<1>3. PlanOK'
  BY <1>1, PlanStays DEF IInv
<1>4. pc' = "create" => Cardinality(OurTraders) + Len(plan') <= NUM_TRADERS + late["InitUser"]
  BY <1>1 DEF IInv, OpenedOK
<1> QED BY <1>1, <1>2, <1>3, <1>4, AsideKeeps

LEMMA StepIInv == IInv /\ [Next]_vars => IInv'
<1> SUFFICES ASSUME IInv, [Next]_vars PROVE IInv'
  OBVIOUS
<1>1. CASE Bot
  <2>1. CASE ReadTraders  BY <2>1, ReadTradersKeeps
  <2>2. CASE RereadTraders  BY <2>2, RereadTradersKeeps
  <2>3. CASE Funded  BY <2>3, FundedKeeps
  <2>4. CASE Revalidate  BY <2>4, RevalidateKeeps
  <2>5. CASE TopUp  BY <2>5, TopUpKeeps
  <2>6. CASE BankRun  BY <2>6, BankRunKeeps
  <2>7. CASE Refund  BY <2>7, RefundKeeps
  <2>8. CASE Refunded  BY <2>8, RefundedKeeps
  <2>9. CASE Reinitialize  BY <2>9, ReinitializeKeeps
  <2>10. CASE \E i \in Indices : Choose(i)  BY <2>10, ChooseKeeps
  <2>11. CASE Confirmed  BY <2>11, ConfirmedKeeps
  <2>12. CASE Fails  BY <2>12, FailsKeeps
  <2> QED BY <1>1, <2>1, <2>2, <2>3, <2>4, <2>5, <2>6, <2>7, <2>8, <2>9, <2>10, <2>11, <2>12 DEF Bot
<1>2. CASE ReadFails  BY <1>2, ReadFailsKeeps
<1>3. CASE TimesOut  BY <1>3, TimesOutKeeps
<1>4. CASE Killed  BY <1>4, KilledKeeps
<1>5. CASE Started  BY <1>5, StartedKeeps
<1>6. CASE \E x \in wire : Land(x)  BY <1>6, LandKeeps
<1>7. CASE \E S \in SUBSET Indices \ {{}} : Closed(S)  BY <1>7, ClosedKeeps
<1>8. CASE UNCHANGED vars  BY <1>8, StutterIInv
<1> QED BY <1>1, <1>2, <1>3, <1>4, <1>5, <1>6, <1>7, <1>8 DEF Next

LEMMA Invariance == Spec => []IInv
<1>1. Init => IInv
  BY InitIInv
<1> QED BY <1>1, StepIInv, PTL DEF Spec

(* Whatever is closed, refused, given up on or killed, in whatever order:  *)
(* the bot's list never holds an index twice or more indices than          *)
(* NUM_TRADERS, though findTraders and revalidateTraderIndices rebuild it  *)
(* from a slab that others change.                                         *)
THEOREM TypeCorrect == Spec => []TypeOK
<1>1. ASSUME IInv PROVE TypeOK
  <2>1. ShapeOK
    BY <1>1 DEF IInv
  <2>2. traders \in BoundedSeq(Indices, NUM_TRADERS)
    <3>1. Len(traders) \in 0 .. NUM_TRADERS /\ traders \in [1 .. Len(traders) -> Indices]
      BY <2>1, Basics DEF ShapeOK
    <3> QED BY <3>1 DEF BoundedSeq, SeqOf
  <2>3. ToSet(plan) \cup wire \subseteq Txs
    BY <2>1 DEF ShapeOK, ToSet
  <2> QED BY <2>1, <2>2, <2>3 DEF TypeOK, ShapeOK, SlabAccounts, Places
<1> QED BY <1>1, Invariance, PTL

(* The bot opens no account too many and funds no shortage twice: with any *)
(* number of kills, restarts, failed reads and transactions given up on,   *)
(* there are more accounts of ours than NUM_TRADERS only by as many as     *)
(* were opened after initTraders had given up on them, and none holds more *)
(* than a deposit and a half but for deposits that arrived that way.       *)
THEOREM NeverTwice == Spec => []FundedOnce
<1>1. ASSUME IInv PROVE FundedOnce
  <2>1. ShapeOK /\ OpenedOK /\ CapitalOK
    BY <1>1 DEF IInv
  <2>2. Cardinality(OurTraders) <= NUM_TRADERS + late["InitUser"]
    <3>1. Cardinality(OurTraders) \in Nat /\ Len(plan) \in Nat /\ late["InitUser"] \in Nat
      BY <2>1, OursFinite DEF ShapeOK
    <3> QED BY <3>1, <2>1, Basics DEF OpenedOK
  <2>3. \A i \in Indices : IsOurTrader(i) => slab[i].capital < TooMuch
    BY <2>1 DEF CapitalOK, OurTraders
  <2> QED BY <2>2, <2>3 DEF FundedOnce, OurTraders, TooMuch
<1> QED BY <1>1, Invariance, PTL
=============================================================================
