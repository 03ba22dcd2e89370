------------------------- MODULE LpOnboardingProofs -------------------------
(***************************************************************************)
(* What the three ways of learning a slot are worth, for any size of the   *)
(* slab and any number of runs and of moves by others.                     *)
(***************************************************************************)
EXTENDS LpOnboarding, WellFoundedInduction, TLAPS

(***************************************************************************)
(* Least and greatest elements, which CHOOSE picks in the scripts' guesses.*)
(***************************************************************************)
LEMMA LeastNat ==
  ASSUME NEW T, T \subseteq Nat, T # {}
  PROVE  \E m \in T : \A k \in T : m <= k
<1> DEFINE R == OpToRel(<, Nat)
<1>1. IsWellFoundedOn(R, Nat)
  BY NatLessThanWellFounded
<1>2. \A a, b \in Nat : a < b => <<a, b>> \in R
  BY DEF OpToRel
<1> HIDE DEF R
<1>3. PICK m \in T : \A k \in T : ~ (<<k, m>> \in R)
  BY <1>1, WFMin
<1>4. ASSUME NEW k \in T PROVE m <= k
  <2>1. m \in Nat /\ k \in Nat /\ ~ (k < m)
    BY <1>2, <1>3
  <2> QED BY <2>1
<1> QED BY <1>4

LEMMA GreatestBelow ==
  ASSUME NEW N \in Nat, NEW T, T \subseteq 0 .. N, T # {}
  PROVE  \E m \in T : \A k \in T : k <= m
<1> DEFINE D == {N - k : k \in T}
<1>1. D \subseteq Nat /\ D # {}
  <2>1. \A k \in T : N - k \in Nat
    OBVIOUS
  <2> QED BY <2>1
<1>2. PICK d \in D : \A e \in D : d <= e
  <2> HIDE DEF D
  <2> QED BY <1>1, LeastNat
<1>3. PICK m \in T : d = N - m
  OBVIOUS
<1>4. ASSUME NEW k \in T PROVE k <= m
  <2>1. N - k \in D /\ k \in 0 .. N /\ m \in 0 .. N
    OBVIOUS
  <2> QED BY <2>1, <1>2, <1>3
<1> QED BY <1>4

LEMMA SlabSize == MaxAccounts \in Nat /\ MaxAccounts >= 1 /\ MaxRuns \in Nat /\ PAYER # OTHERS
  BY OnboardingAssumption

LEMMA SlotsFit == Slots \subseteq 0 .. NONE /\ NONE \in 0 .. NONE /\ NONE \notin Slots
  BY SlabSize DEF Slots, NONE

LEMMA FirstFreeIs ==
  ASSUME NEW used, used \subseteq Slots
  PROVE  /\ FirstFree(used) \in 0 .. MaxAccounts /\ FirstFree(used) \notin used
         /\ \A j \in 0 .. FirstFree(used) - 1 : j \in used
<1> DEFINE T == 0 .. MaxAccounts \ used
<1>1. T \subseteq Nat /\ MaxAccounts \in T
  BY SlabSize DEF Slots
<1>2. PICK i \in T : \A k \in T : i <= k
  <2> HIDE DEF T
  <2> QED BY <1>1, LeastNat
<1>3. i \in 0 .. MaxAccounts /\ i \notin used /\ \A j \in 0 .. i - 1 : j \in used
  BY <1>2, SlabSize
<1> QED BY <1>3 DEF FirstFree

LEMMA HighestIs ==
  ASSUME NEW used, used \subseteq Slots, used # {}
  PROVE  Highest(used) \in used /\ \A j \in used : j <= Highest(used)
<1>1. MaxAccounts - 1 \in Nat /\ used \subseteq 0 .. MaxAccounts - 1
  BY SlabSize DEF Slots
<1>2. \E i \in used : \A j \in used : j <= i
  BY <1>1, GreatestBelow
<1> QED BY <1>2 DEF Highest

LEMMA LowestIs ==
  ASSUME NEW s, s \subseteq Slots, s # {}
  PROVE  Lowest(s) \in s
<1>1. s \subseteq Nat
  BY SlabSize DEF Slots
<1>2. \E i \in s : \A j \in s : i <= j
  BY <1>1, LeastNat
<1> QED BY <1>2 DEF Lowest

(***************************************************************************)
(* The freelist: what is popped and pushed.                                *)
(***************************************************************************)
LEMMA Popped ==
  ASSUME NEW S, NEW f \in Seq(S), f # <<>>, IsInjective(f)
  PROVE  /\ Head(f) \in S /\ Head(f) \in ToSet(f)
         /\ Tail(f) \in Seq(S) /\ IsInjective(Tail(f))
         /\ ToSet(Tail(f)) = ToSet(f) \ {Head(f)}
<1>1. /\ Tail(f) \in Seq(S) /\ Len(f) \in Nat /\ Len(f) > 0
      /\ Len(Tail(f)) = Len(f) - 1 /\ Head(f) = f[1] /\ Head(f) \in S
      /\ \A i \in 1 .. Len(f) - 1 : Tail(f)[i] = f[i + 1]
      /\ DOMAIN f = 1 .. Len(f) /\ DOMAIN Tail(f) = 1 .. Len(f) - 1
  OBVIOUS
<1>2. \A a, b \in 1 .. Len(f) : f[a] = f[b] => a = b
  BY <1>1 DEF IsInjective
<1>3. IsInjective(Tail(f))
  BY <1>1, <1>2 DEF IsInjective
<1>4. Head(f) \in ToSet(f)
  BY <1>1 DEF ToSet
<1>5. ASSUME NEW x \in ToSet(Tail(f)) PROVE x \in ToSet(f) \ {Head(f)}
  <2>1. PICK i \in 1 .. Len(f) - 1 : x = f[i + 1]
    BY <1>1, <1>5 DEF ToSet
  <2>2. i + 1 \in 1 .. Len(f) /\ i + 1 # 1
    BY <1>1
  <2> QED BY <2>1, <2>2, <1>1, <1>2 DEF ToSet
<1>6. ASSUME NEW x \in ToSet(f) \ {Head(f)} PROVE x \in ToSet(Tail(f))
  <2>1. PICK i \in 1 .. Len(f) : x = f[i]
    BY <1>1, <1>6 DEF ToSet
  <2>2. i - 1 \in 1 .. Len(f) - 1 /\ Tail(f)[i - 1] = x
    BY <2>1, <1>1, <1>6
  <2> QED BY <2>2, <1>1 DEF ToSet
<1> QED BY <1>1, <1>3, <1>4, <1>5, <1>6

LEMMA Pushed ==
  ASSUME NEW S, NEW f \in Seq(S), NEW x \in S, x \notin ToSet(f), IsInjective(f)
  PROVE  /\ <<x>> \o f \in Seq(S) /\ IsInjective(<<x>> \o f)
         /\ ToSet(<<x>> \o f) = ToSet(f) \cup {x}
<1> DEFINE g == <<x>> \o f
<1>1. /\ g \in Seq(S) /\ Len(f) \in Nat /\ Len(g) = Len(f) + 1
      /\ DOMAIN f = 1 .. Len(f) /\ DOMAIN g = 1 .. Len(f) + 1
      /\ g[1] = x /\ \A i \in 1 .. Len(f) : g[i + 1] = f[i]
  OBVIOUS
<1>2. /\ \A a, b \in 1 .. Len(f) : f[a] = f[b] => a = b
      /\ \A i \in 1 .. Len(f) : f[i] # x
  BY <1>1 DEF IsInjective, ToSet
<1> HIDE DEF g
<1>3. \A a \in 1 .. Len(f) + 1 : a # 1 => a - 1 \in 1 .. Len(f) /\ g[a] = f[a - 1]
  BY <1>1
<1>4. IsInjective(g)
  BY <1>1, <1>2, <1>3 DEF IsInjective
<1>5. ToSet(g) = ToSet(f) \cup {x}
  <2>1. x \in ToSet(g)
    BY <1>1 DEF ToSet
  <2>2. ASSUME NEW y \in ToSet(f) PROVE y \in ToSet(g)
    <3>1. PICK i \in 1 .. Len(f) : y = f[i]
      BY <2>2, <1>1 DEF ToSet
    <3>2. i + 1 \in DOMAIN g /\ g[i + 1] = y
      BY <3>1, <1>1
    <3> QED BY <3>2 DEF ToSet
  <2>3. ASSUME NEW y \in ToSet(g) PROVE y \in ToSet(f) \cup {x}
    <3>1. PICK i \in 1 .. Len(f) + 1 : y = g[i]
      BY <2>3, <1>1 DEF ToSet
    <3> QED BY <3>1, <1>1, <1>3 DEF ToSet
  <2> QED BY <2>1, <2>2, <2>3
<1> QED BY <1>1, <1>4, <1>5 DEF g

(***************************************************************************)
(* The inductive invariant.                                                *)
(***************************************************************************)
Accounts == [kind : {"none", "user", "lp"}, owner : {PAYER, OTHERS},
             ctx : 0 .. MaxRuns, capital : 0 .. MaxRuns]
Clients  == [pc : {"idle", "read", "created", "found"}, strategy : Strategies \cup {"none"},
             before : SUBSET Slots, index : 0 .. NONE, actual : 0 .. NONE]

ShapeOK ==
  /\ slab \in [Slots -> Accounts] /\ free \in Seq(Slots)
  /\ ToSet(free) = Slots \ Used /\ IsInjective(free)
  /\ client \in Clients /\ runs \in 0 .. MaxRuns
  /\ bound \in [1 .. MaxRuns -> 0 .. NONE]
  /\ manifest \in [index : Slots \cup {NONE}, ctx : 0 .. MaxRuns]

(* Accounts: nobody's are empty, an LP has the context of a run that       *)
(* created one, and each run deposits once at most, at its end.            *)
AccountsOK ==
  \A i \in Slots :
    /\ slab[i].kind = "none" => slab[i].owner = OTHERS
    /\ slab[i].kind = "lp" => slab[i].owner = PAYER /\ slab[i].ctx \in 1 .. runs
    /\ slab[i].kind = "lp" /\ client.pc = "read" => slab[i].ctx # runs
    /\ slab[i].capital <= runs
    /\ client.pc # "idle" => slab[i].capital < runs

(* The slot the client guessed was free when it guessed, so whoever has it *)
(* by the time of the deposit is somebody else, or the guess was right.    *)
GuessOK ==
  /\ client.pc # "idle" => client.strategy \in Strategies /\ runs >= 1
  /\ client.pc = "read" /\ client.strategy = "first_free" =>
       /\ client.index = FirstFree(client.before)
       /\ client.index \in Slots => slab[client.index].owner = OTHERS
  /\ client.pc \in {"created", "found"} =>
       /\ client.actual \in Slots
       /\ slab[client.actual].kind # "none" /\ slab[client.actual].owner = PAYER
       /\ client.strategy = "first_free" =>
            /\ slab[client.actual].kind = "lp" /\ slab[client.actual].ctx = runs
            /\ bound[runs] = client.index
            /\ client.index \in Slots /\ client.index # client.actual =>
                 slab[client.index].owner = OTHERS

(* While nobody else moves, what was read is what is there.                *)
QuietOK ==
  ~raced =>
    /\ client.pc = "read" => client.before = Used
    /\ client.pc = "created" =>
         client.actual \notin client.before /\ Used = client.before \cup {client.actual}

(* Until a slot is given back, the slab fills from below.                  *)
Ascending ==
  \E n \in 0 .. MaxAccounts :
    /\ Used = 0 .. n - 1 /\ Len(free) = MaxAccounts - n
    /\ \A k \in 1 .. MaxAccounts - n : free[k] = n + k - 1

FreshOK ==
  ~freed =>
    /\ Ascending
    /\ ~raced /\ client.pc = "created" =>
         /\ client.strategy = "first_free" => client.index = client.actual
         /\ \A j \in Used : j <= client.actual

IInv == /\ ShapeOK /\ AccountsOK /\ GuessOK /\ QuietOK /\ FreshOK
        /\ FindsItsSlot /\ ManifestIsTradeable

LEMMA EmptyIs == Empty \in Accounts /\ Empty.kind = "none" /\ Empty.owner = OTHERS /\ Empty.capital = 0
  BY SlabSize DEF Empty, Accounts

LEMMA IdleIs == Idle \in Clients /\ Idle.pc = "idle"
  BY SlabSize DEF Idle, Clients, NONE

LEMMA InitIInv == Init => IInv
<1>1. SUFFICES ASSUME Init PROVE IInv
  OBVIOUS
<1>2. \A i \in Slots : slab[i] = Empty
  BY <1>1 DEF Init
<1>3. Used = {}
  BY <1>2, EmptyIs DEF Used
<1>4. /\ free \in Seq(Slots) /\ Len(free) = MaxAccounts /\ DOMAIN free = 1 .. MaxAccounts
      /\ \A k \in 1 .. MaxAccounts : free[k] = k - 1
  BY <1>1, SlabSize DEF Init, Slots
<1>5. ToSet(free) = Slots /\ IsInjective(free)
  <2>1. \A i \in Slots : i + 1 \in 1 .. MaxAccounts /\ free[i + 1] = i
    BY <1>4, SlabSize DEF Slots
  <2>2. \A k \in 1 .. MaxAccounts : free[k] \in Slots
    BY <1>4, SlabSize DEF Slots
  <2>3. ToSet(free) = Slots
    BY <2>1, <2>2, <1>4 DEF ToSet
  <2> QED BY <2>3, <1>4 DEF IsInjective
<1>6. ShapeOK
  BY <1>1, <1>3, <1>4, <1>5, EmptyIs, IdleIs, SlabSize DEF Init, ShapeOK, NONE
<1>7. AccountsOK /\ GuessOK /\ QuietOK /\ FindsItsSlot /\ ManifestIsTradeable
  BY <1>1, <1>2, EmptyIs, IdleIs
     DEF Init, AccountsOK, GuessOK, QuietOK, FindsItsSlot, ManifestIsTradeable
<1>8. FreshOK
  <2>1. Ascending
    <3>1. 0 \in 0 .. MaxAccounts /\ Used = 0 .. 0 - 1 /\ Len(free) = MaxAccounts - 0
          /\ \A k \in 1 .. MaxAccounts - 0 : free[k] = 0 + k - 1
      BY <1>3, <1>4, SlabSize
    <3> QED BY <3>1 DEF Ascending
  <2> QED BY <2>1, <1>1, IdleIs DEF FreshOK, Init
<1> QED BY <1>6, <1>7, <1>8 DEF IInv

(***************************************************************************)
(* An account is put into the head of the freelist.                        *)
(***************************************************************************)
LEMMA Allocated ==
  ASSUME ShapeOK, NEW account \in Accounts, account.kind # "none", free # <<>>,
         Allocate(account)
  PROVE  /\ Head(free) \in Slots /\ Head(free) \notin Used
         /\ slab' \in [Slots -> Accounts] /\ slab'[Head(free)] = account
         /\ \A i \in Slots : i # Head(free) => slab'[i] = slab[i]
         /\ Used' = Used \cup {Head(free)}
         /\ free' \in Seq(Slots) /\ ToSet(free') = Slots \ Used' /\ IsInjective(free')
<1>1. /\ free \in Seq(Slots) /\ IsInjective(free) /\ ToSet(free) = Slots \ Used
      /\ slab \in [Slots -> Accounts] /\ free' = Tail(free)
      /\ slab' = [slab EXCEPT ![Head(free)] = account]
  BY DEF ShapeOK, Allocate
<1>2. /\ Head(free) \in Slots /\ Head(free) \notin Used
      /\ free' \in Seq(Slots) /\ IsInjective(free')
      /\ ToSet(free') = (Slots \ Used) \ {Head(free)}
  BY <1>1, Popped
<1>3. /\ slab' \in [Slots -> Accounts] /\ slab'[Head(free)] = account
      /\ \A i \in Slots : i # Head(free) => slab'[i] = slab[i]
  BY <1>1, <1>2
<1>4. Used' = Used \cup {Head(free)}
  BY <1>2, <1>3 DEF Used
<1> QED BY <1>2, <1>3, <1>4

LEMMA AscendingPop ==
  ASSUME ShapeOK, Ascending, NEW account \in Accounts, account.kind # "none", free # <<>>,
         Allocate(account)
  PROVE  /\ Ascending' /\ \A j \in Used' : j <= Head(free)
         /\ FirstFree(Used) = Head(free)
<1>1. PICK n \in 0 .. MaxAccounts :
        /\ Used = 0 .. n - 1 /\ Len(free) = MaxAccounts - n
        /\ \A k \in 1 .. MaxAccounts - n : free[k] = n + k - 1
  BY DEF Ascending
<1>2. /\ free \in Seq(Slots) /\ free' = Tail(free) /\ Len(free) > 0 /\ Head(free) = free[1]
      /\ Len(free') = Len(free) - 1 /\ \A k \in 1 .. Len(free) - 1 : free'[k] = free[k + 1]
  BY DEF ShapeOK, Allocate
<1>3. n < MaxAccounts /\ Head(free) = n
  BY <1>1, <1>2, SlabSize
<1>4. Used' = 0 .. n
  <2>1. Used' = Used \cup {Head(free)}
    BY Allocated
  <2>2. 0 .. n = (0 .. n - 1) \cup {n}
    BY <1>3, SlabSize
  <2> QED BY <2>1, <2>2, <1>1, <1>3
<1>5. Ascending'
  <2>1. n + 1 \in 0 .. MaxAccounts
    BY <1>3, SlabSize
  <2>2. Used' = 0 .. (n + 1) - 1
    BY <1>4
  <2>3. Len(free') = MaxAccounts - (n + 1)
    BY <1>1, <1>2, <1>3, SlabSize
  <2>4. \A k \in 1 .. MaxAccounts - (n + 1) : free'[k] = (n + 1) + k - 1
    BY <1>1, <1>2, <1>3, SlabSize
  <2> QED BY <2>1, <2>2, <2>3, <2>4 DEF Ascending
<1>6. FirstFree(Used) = n
  <2>1. FirstFree(Used) \in 0 .. MaxAccounts /\ FirstFree(Used) \notin Used
        /\ \A j \in 0 .. FirstFree(Used) - 1 : j \in Used
    BY FirstFreeIs DEF Used
  <2>2. ~ (FirstFree(Used) < n)
    BY <2>1, <1>1, SlabSize
  <2>3. ASSUME n < FirstFree(Used) PROVE FALSE
    <3>1. n \in 0 .. FirstFree(Used) - 1
      BY <2>1, <2>3, SlabSize
    <3>2. n \in Used
      BY <2>1, <3>1
    <3> QED BY <3>2, <1>1, SlabSize
  <2> QED BY <2>1, <2>2, <2>3, SlabSize
<1> QED BY <1>3, <1>4, <1>5, <1>6

(***************************************************************************)
(* Every step keeps the invariant.                                         *)
(***************************************************************************)
LEMMA JoinKeeps == IInv /\ Join => IInv'
<1>1. SUFFICES ASSUME IInv, Join PROVE IInv'
  OBVIOUS
<1> DEFINE account == [Empty EXCEPT !.kind = "user"]
<1>2. /\ account \in Accounts /\ account.kind = "user" /\ account.owner = OTHERS
      /\ account.capital = 0 /\ free # <<>> /\ Allocate(account)
      /\ raced' = (raced \/ client.pc # "idle")
      /\ UNCHANGED <<client, runs, bound, manifest, freed>>
  BY <1>1, SlabSize DEF Join, Empty, Accounts
<1>3. ShapeOK
  BY <1>1 DEF IInv
<1> HIDE DEF account
<1>4. /\ Head(free) \in Slots /\ Head(free) \notin Used
      /\ slab' \in [Slots -> Accounts] /\ slab'[Head(free)] = account
      /\ \A i \in Slots : i # Head(free) => slab'[i] = slab[i]
      /\ Used' = Used \cup {Head(free)}
      /\ free' \in Seq(Slots) /\ ToSet(free') = Slots \ Used' /\ IsInjective(free')
  BY <1>2, <1>3, Allocated
<1>5. slab[Head(free)].kind = "none"
  BY <1>4 DEF Used
<1>6. ShapeOK'
  BY <1>2, <1>3, <1>4 DEF ShapeOK
<1>7. AccountsOK'
  BY <1>1, <1>2, <1>3, <1>4, SlabSize DEF IInv, AccountsOK, GuessOK, ShapeOK
<1>8. GuessOK'
  BY <1>1, <1>2, <1>4, <1>5, SlabSize DEF IInv, GuessOK
<1>9. QuietOK'
  BY <1>1, <1>2 DEF IInv, QuietOK
<1>10. FreshOK'
  BY <1>1, <1>2, <1>3, AscendingPop DEF IInv, FreshOK
<1>11. FindsItsSlot'
  BY <1>1, <1>2 DEF IInv, FindsItsSlot
<1>12. ManifestIsTradeable'
  <2>1. manifest.index # NONE => manifest.index # Head(free) /\ manifest.index \in Slots
    BY <1>1, <1>3, <1>5 DEF IInv, ManifestIsTradeable, ShapeOK
  <2> QED BY <2>1, <1>1, <1>2, <1>4 DEF IInv, ManifestIsTradeable
<1> QED BY <1>6, <1>7, <1>8, <1>9, <1>10, <1>11, <1>12 DEF IInv

LEMMA LeaveKeeps == ASSUME NEW i \in Slots, IInv, Leave(i) PROVE IInv'
<1>1. /\ slab[i].kind = "user" /\ slab[i].owner = OTHERS
      /\ slab' = [slab EXCEPT ![i] = Empty] /\ free' = <<i>> \o free /\ freed' = TRUE
      /\ raced' = (raced \/ client.pc # "idle")
      /\ UNCHANGED <<client, runs, bound, manifest>>
  BY DEF Leave
<1>2. ShapeOK
  BY DEF IInv
<1>3. /\ slab' \in [Slots -> Accounts] /\ slab'[i] = Empty
      /\ \A j \in Slots : j # i => slab'[j] = slab[j]
  BY <1>1, <1>2, EmptyIs DEF ShapeOK
<1>4. i \in Used /\ Used' = Used \ {i}
  BY <1>1, <1>3, EmptyIs DEF Used
<1>5. free' \in Seq(Slots) /\ ToSet(free') = Slots \ Used' /\ IsInjective(free')
  <2>1. i \notin ToSet(free) /\ free \in Seq(Slots) /\ IsInjective(free)
        /\ ToSet(free) = Slots \ Used
    BY <1>2, <1>4 DEF ShapeOK
  <2>2. free' \in Seq(Slots) /\ IsInjective(free') /\ ToSet(free') = ToSet(free) \cup {i}
    BY <1>1, <2>1, Pushed
  <2> QED BY <2>1, <2>2, <1>4
<1>6. ShapeOK'
  BY <1>1, <1>2, <1>3, <1>5 DEF ShapeOK
<1>7. AccountsOK'
  BY <1>1, <1>2, <1>3, EmptyIs, SlabSize DEF IInv, AccountsOK, GuessOK, ShapeOK
<1>8. GuessOK'
  BY <1>1, <1>3, EmptyIs, SlabSize DEF IInv, GuessOK
<1>9. QuietOK' /\ FreshOK' /\ FindsItsSlot'
  BY <1>1 DEF IInv, QuietOK, FreshOK, FindsItsSlot
<1>10. ManifestIsTradeable'
  <2>1. manifest.index # NONE => manifest.index # i /\ manifest.index \in Slots
    BY <1>1, <1>2 DEF IInv, ManifestIsTradeable, ShapeOK
  <2> QED BY <2>1, <1>1, <1>3 DEF IInv, ManifestIsTradeable
<1> QED BY <1>6, <1>7, <1>8, <1>9, <1>10 DEF IInv

LEMMA StartKeeps == ASSUME NEW s \in Strategies, IInv, Start(s) PROVE IInv'
<1>1. /\ client.pc = "idle" /\ runs < MaxRuns /\ runs' = runs + 1 /\ raced' = FALSE
      /\ client' = [Idle EXCEPT !.pc = "read", !.strategy = s,
                                !.before = Used, !.index = Guess(s)]
      /\ UNCHANGED <<slab, free, bound, manifest, freed>>
  BY DEF Start
<1>2. Used \subseteq Slots
  BY DEF Used
<1>3. /\ FirstFree(Used) \in 0 .. MaxAccounts /\ FirstFree(Used) \notin Used
      /\ Guess(s) \in 0 .. NONE /\ (s = "first_free" => Guess(s) = FirstFree(Used))
  BY <1>2, FirstFreeIs, SlabSize DEF Guess, NONE
<1>4. /\ client' \in Clients /\ client'.pc = "read" /\ client'.strategy = s
      /\ client'.before = Used /\ client'.index = Guess(s)
  BY <1>1, <1>2, <1>3, IdleIs DEF Idle, Clients
<1>5. ShapeOK'
  BY <1>1, <1>4, SlabSize DEF IInv, ShapeOK, Used
<1>6. AccountsOK'
  BY <1>1, <1>4 DEF IInv, AccountsOK, ShapeOK, Accounts
<1>7. GuessOK'
  <2>1. FirstFree(Used) \in Slots => slab[FirstFree(Used)].owner = OTHERS
    BY <1>3 DEF IInv, AccountsOK, Used
  <2> QED BY <2>1, <1>1, <1>3, <1>4 DEF IInv, GuessOK, ShapeOK
<1>8. QuietOK' /\ FindsItsSlot'
  BY <1>1, <1>4 DEF QuietOK, FindsItsSlot, Used
<1>9. FreshOK'
  BY <1>1, <1>4 DEF IInv, FreshOK, Ascending, Used
<1>10. ManifestIsTradeable'
  BY <1>1 DEF IInv, ManifestIsTradeable
<1> QED BY <1>5, <1>6, <1>7, <1>8, <1>9, <1>10 DEF IInv

LEMMA CreateKeeps == IInv /\ CreateAccount => IInv'
<1>1. SUFFICES ASSUME IInv, CreateAccount PROVE IInv'
  OBVIOUS
<1> DEFINE account == NewAccount(client.strategy)
           slot    == Head(free)
<1>2. /\ client.pc = "read" /\ free # <<>> /\ Allocate(account)
      /\ client' = [client EXCEPT !.pc = "created", !.actual = slot]
      /\ bound' = IF client.strategy = "first_free" THEN [bound EXCEPT ![runs] = client.index]
                  ELSE bound
      /\ UNCHANGED <<runs, manifest, freed, raced>>
  BY <1>1 DEF CreateAccount
<1>3. ShapeOK /\ AccountsOK /\ client.strategy \in Strategies /\ runs \in 1 .. MaxRuns
  BY <1>1, <1>2, SlabSize DEF IInv, GuessOK, ShapeOK
<1>4. /\ account \in Accounts /\ account.kind # "none" /\ account.owner = PAYER
      /\ account.capital = 0
      /\ account.kind = "lp" => account.ctx = runs
      /\ client.strategy = "first_free" => account.kind = "lp"
  BY <1>3, SlabSize DEF NewAccount, Accounts
<1> HIDE DEF account
<1>5. /\ slot \in Slots /\ slot \notin Used
      /\ slab' \in [Slots -> Accounts] /\ slab'[slot] = account
      /\ \A i \in Slots : i # slot => slab'[i] = slab[i]
      /\ Used' = Used \cup {slot}
      /\ free' \in Seq(Slots) /\ ToSet(free') = Slots \ Used' /\ IsInjective(free')
  BY <1>2, <1>3, <1>4, Allocated
<1> HIDE DEF slot
<1>6. /\ client' \in Clients /\ client'.pc = "created" /\ client'.actual = slot
      /\ client'.strategy = client.strategy /\ client'.index = client.index
      /\ client'.before = client.before
  <2>1. slot \in 0 .. NONE /\ client \in Clients
    BY <1>3, <1>5, SlotsFit DEF ShapeOK
  <2> QED BY <2>1, <1>2 DEF Clients
<1>7. /\ bound' \in [1 .. MaxRuns -> 0 .. NONE]
      /\ \A r \in 1 .. MaxRuns : r # runs => bound'[r] = bound[r]
      /\ client.strategy = "first_free" => bound'[runs] = client.index
  BY <1>2, <1>3 DEF ShapeOK, Clients
<1>8. slab[slot].kind = "none"
  BY <1>5 DEF Used
<1>9. ShapeOK'
  BY <1>2, <1>3, <1>5, <1>6, <1>7 DEF ShapeOK
<1>10. AccountsOK'
  BY <1>2, <1>3, <1>4, <1>5, <1>6 DEF AccountsOK, ShapeOK
<1>11. GuessOK'
  BY <1>1, <1>2, <1>3, <1>4, <1>5, <1>6, <1>7 DEF IInv, GuessOK
<1>12. QuietOK'
  BY <1>1, <1>2, <1>5, <1>6 DEF IInv, QuietOK
<1>13. FreshOK'
  <2>1. ASSUME ~freed
        PROVE  Ascending' /\ (\A j \in Used' : j <= slot) /\ FirstFree(Used) = slot
    BY <2>1, <1>1, <1>2, <1>3, <1>4, AscendingPop DEF IInv, FreshOK, slot
  <2>2. ~raced /\ client.strategy = "first_free" => client.index = FirstFree(Used)
    BY <1>1, <1>2 DEF IInv, GuessOK, QuietOK
  <2> QED BY <2>1, <2>2, <1>2, <1>6 DEF FreshOK
<1>14. FindsItsSlot'
  BY <1>6 DEF FindsItsSlot
<1>15. ManifestIsTradeable'
  <2>1. ASSUME manifest.index # NONE
        PROVE  /\ manifest.index \in Slots /\ manifest.index # slot
               /\ slab[manifest.index].ctx \in 1 .. MaxRuns
               /\ slab[manifest.index].ctx # runs
    BY <2>1, <1>1, <1>2, <1>3, <1>8 DEF IInv, ManifestIsTradeable, AccountsOK, ShapeOK
  <2> QED BY <2>1, <1>1, <1>2, <1>5, <1>7 DEF IInv, ManifestIsTradeable
<1> QED BY <1>9, <1>10, <1>11, <1>12, <1>13, <1>14, <1>15 DEF IInv

LEMMA CreateFailsKeeps == IInv /\ CreateFails => IInv'
  BY IdleIs DEF CreateFails, IInv, ShapeOK, AccountsOK, GuessOK, QuietOK, FreshOK, Ascending,
                FindsItsSlot, ManifestIsTradeable, Used

(* What each strategy finds; without an interference, its own slot.        *)
LEMMA FindKeeps == IInv /\ FindSlot => IInv'
<1>1. SUFFICES ASSUME IInv, FindSlot PROVE IInv'
  OBVIOUS
<1>2. /\ client.pc = "created" /\ client' = [client EXCEPT !.pc = "found", !.index = Found]
      /\ UNCHANGED <<slab, free, runs, bound, manifest, freed, raced>>
  BY <1>1 DEF FindSlot
<1>3. /\ ShapeOK /\ Used \subseteq Slots /\ client.actual \in Used
      /\ client.strategy \in {"first_free", "difference", "last"}
  BY <1>1, <1>2, OnboardingAssumption DEF IInv, GuessOK, Used
<1>4. /\ client.strategy = "first_free" => Found = client.index
      /\ client.strategy = "last" => Found = Highest(Used)
      /\ client.strategy = "difference" =>
           Found = IF Used \subseteq client.before THEN NONE ELSE Lowest(Used \ client.before)
  BY DEF Found
<1>5. Highest(Used) \in Used /\ \A j \in Used : j <= Highest(Used)
  BY <1>3, HighestIs
<1>6. ~ (Used \subseteq client.before) => Lowest(Used \ client.before) \in Used \ client.before
  BY <1>3, LowestIs
<1>7. Found \in 0 .. NONE
  <2>1. client.index \in 0 .. NONE
    BY <1>3 DEF ShapeOK, Clients
  <2>2. Found \in Slots \cup {NONE, client.index}
    BY <1>3, <1>4, <1>5, <1>6
  <2> QED BY <2>1, <2>2, SlotsFit
<1>8. /\ client' \in Clients /\ client'.pc = "found" /\ client'.actual = client.actual
      /\ client'.strategy = client.strategy /\ client'.index = Found
      /\ client'.before = client.before
  BY <1>2, <1>3, <1>7 DEF ShapeOK, Clients
<1>9. ShapeOK' /\ AccountsOK' /\ QuietOK' /\ ManifestIsTradeable'
  BY <1>1, <1>2, <1>8
     DEF IInv, ShapeOK, AccountsOK, QuietOK, ManifestIsTradeable, Used
<1>10. GuessOK'
  BY <1>1, <1>2, <1>4, <1>8 DEF IInv, GuessOK
<1>11. FreshOK'
  BY <1>1, <1>2, <1>8 DEF IInv, FreshOK, Ascending, Used
<1>12. ASSUME ~raced, client.strategy # "difference" => ~freed
       PROVE  Found = client.actual
  <2>1. CASE client.strategy = "first_free"
    BY <2>1, <1>12, <1>1, <1>2, <1>4 DEF IInv, FreshOK
  <2>2. CASE client.strategy = "last"
    <3>1. Found \in Used /\ client.actual \in Used /\ client.actual <= Found /\ Found <= client.actual
      BY <2>2, <1>12, <1>1, <1>2, <1>3, <1>4, <1>5 DEF IInv, FreshOK
    <3>2. Found \in Int /\ client.actual \in Int
      <4>1. Slots \subseteq Int
        BY SlabSize DEF Slots
      <4>2. Found \in Slots /\ client.actual \in Slots
        BY <3>1, <1>3
      <4> QED BY <4>1, <4>2
    <3> QED BY <3>1, <3>2
  <2>3. CASE client.strategy = "difference"
    <3>1. Used \ client.before = {client.actual}
      BY <1>12, <1>1, <1>2 DEF IInv, QuietOK
    <3> QED BY <2>3, <3>1, <1>4, <1>6
  <2> QED BY <1>3, <2>1, <2>2, <2>3
<1>13. FindsItsSlot'
  BY <1>2, <1>8, <1>12 DEF FindsItsSlot
<1> QED BY <1>9, <1>10, <1>11, <1>13 DEF IInv

(* The deposit goes to the slot that was found, if it is one of ours.      *)
LEMMA DepositKeeps == IInv /\ Deposit => IInv'
<1>1. SUFFICES ASSUME IInv, Deposit PROVE IInv'
  OBVIOUS
<1>2. /\ client.pc = "found" /\ client' = Idle
      /\ slab' = IF DepositLands THEN [slab EXCEPT ![client.index].capital = @ + 1] ELSE slab
      /\ manifest' = IF DepositLands /\ client.strategy = "first_free"
                     THEN [index |-> client.index, ctx |-> runs] ELSE manifest
      /\ UNCHANGED <<free, runs, bound, freed, raced>>
  BY <1>1 DEF Deposit
<1>3. /\ ShapeOK /\ runs \in 0 .. MaxRuns
      /\ \A i \in Slots : slab[i].capital \in 0 .. MaxRuns /\ slab[i].capital < runs
  BY <1>1, <1>2 DEF IInv, ShapeOK, AccountsOK, Accounts
<1>4. /\ slab' \in [Slots -> Accounts]
      /\ \A i \in Slots : /\ slab'[i].kind = slab[i].kind /\ slab'[i].owner = slab[i].owner
                          /\ slab'[i].ctx = slab[i].ctx
                          /\ slab'[i].capital <= slab[i].capital + 1
  <2>1. CASE DepositLands
    <3>1. client.index \in Slots
      BY <2>1 DEF DepositLands
    <3>2. PICK c \in 0 .. MaxRuns : c = slab[client.index].capital /\ c < runs
      BY <3>1, <1>3
    <3>3. c + 1 \in 0 .. MaxRuns /\ c + 1 <= c + 1
      BY <3>2, <1>3, SlabSize
    <3>4. slab' = [slab EXCEPT ![client.index].capital = c + 1]
      BY <2>1, <3>2, <1>2
    <3>5. slab \in [Slots -> Accounts]
      BY <1>3 DEF ShapeOK
    <3> DEFINE account == [slab[client.index] EXCEPT !.capital = c + 1]
    <3>6. /\ account \in Accounts /\ account.capital = c + 1
          /\ account.kind = slab[client.index].kind
          /\ account.owner = slab[client.index].owner
          /\ account.ctx = slab[client.index].ctx
      BY <3>1, <3>3, <3>5 DEF Accounts
    <3>7. slab' = [slab EXCEPT ![client.index] = account]
      BY <3>1, <3>4, <3>5
    <3>8. \A i \in Slots : slab[i].capital <= slab[i].capital + 1
      BY <1>3
    <3> HIDE DEF account
    <3> QED BY <3>1, <3>2, <3>3, <3>5, <3>6, <3>7, <3>8
  <2>2. CASE ~DepositLands
    BY <2>2, <1>2, <1>3 DEF ShapeOK
  <2> QED BY <2>1, <2>2
<1>5. Used' = Used
  BY <1>4 DEF Used
<1>6. ASSUME DepositLands, client.strategy = "first_free"
      PROVE  /\ client.index \in Slots /\ client.index = client.actual
             /\ slab[client.index].kind = "lp" /\ slab[client.index].ctx = runs
             /\ bound[runs] = client.index
  BY <1>6, <1>1, <1>2, SlabSize DEF IInv, GuessOK, DepositLands
<1>7. ShapeOK'
  <2>1. manifest' \in [index : Slots \cup {NONE}, ctx : 0 .. MaxRuns]
    BY <1>2, <1>3, <1>6 DEF ShapeOK
  <2> QED BY <2>1, <1>2, <1>3, <1>4, <1>5, IdleIs DEF ShapeOK
<1>8. AccountsOK'
  <2>1. \A i \in Slots : slab'[i].capital <= runs
    BY <1>3, <1>4 DEF Accounts
  <2> QED BY <2>1, <1>1, <1>2, <1>4, IdleIs DEF IInv, AccountsOK
<1>9. GuessOK' /\ QuietOK' /\ FindsItsSlot'
  BY <1>2, IdleIs DEF GuessOK, QuietOK, FindsItsSlot
<1>10. FreshOK'
  BY <1>1, <1>2, <1>5, IdleIs DEF IInv, FreshOK, Ascending
<1>11. ManifestIsTradeable'
  <2>1. CASE DepositLands /\ client.strategy = "first_free"
    BY <2>1, <1>2, <1>4, <1>6 DEF ManifestIsTradeable
  <2>2. CASE ~(DepositLands /\ client.strategy = "first_free")
    <3>1. manifest.index # NONE => manifest.index \in Slots
      BY <1>3 DEF ShapeOK
    <3> QED BY <2>2, <3>1, <1>1, <1>2, <1>4 DEF IInv, ManifestIsTradeable
  <2> QED BY <2>1, <2>2
<1> QED BY <1>7, <1>8, <1>9, <1>10, <1>11 DEF IInv

LEMMA StepIInv == IInv /\ [Next]_vars => IInv'
<1>1. SUFFICES ASSUME IInv, [Next]_vars PROVE IInv'
  OBVIOUS
<1>2. CASE UNCHANGED vars
  BY <1>1, <1>2 DEF vars, IInv, ShapeOK, AccountsOK, GuessOK, QuietOK, FreshOK, Ascending,
                    FindsItsSlot, ManifestIsTradeable, Used
<1>3. CASE Join
  BY <1>1, <1>3, JoinKeeps
<1>4. ASSUME NEW i \in Slots, Leave(i) PROVE IInv'
  BY <1>1, <1>4, LeaveKeeps
<1>5. ASSUME NEW s \in Strategies, Start(s) PROVE IInv'
  BY <1>1, <1>5, StartKeeps
<1>6. CASE CreateAccount \/ CreateFails \/ FindSlot \/ Deposit
  BY <1>1, <1>6, CreateKeeps, CreateFailsKeeps, FindKeeps, DepositKeeps
<1> QED BY <1>1, <1>2, <1>3, <1>4, <1>5, <1>6 DEF Next

LEMMA Invariance == Spec => []IInv
<1> QED BY InitIInv, StepIInv, PTL DEF Spec

-----------------------------------------------------------------------------
(* The freelist and the used slots partition the slab through every        *)
(* creation and departure.                                                 *)
THEOREM TypeCorrect == Spec => []TypeOK
<1>1. IInv => TypeOK
  BY SlotsFit DEF IInv, ShapeOK, TypeOK, Accounts, Clients
<1> QED BY <1>1, Invariance, PTL

(* initUser and the guess of add-vamm-lp find the slot of their account as *)
(* long as nobody else moves between their reads, the difference always,   *)
(* the other two until a slot was given back.                              *)
THEOREM SlotFound == Spec => []FindsItsSlot
<1>1. IInv => FindsItsSlot
  BY DEF IInv
<1> QED BY <1>1, Invariance, PTL

(* However wrong the guess of add-vamm-lp was and whoever took the slot:   *)
(* its manifest names an LP whose context is bound to its PDA.             *)
THEOREM ManifestTrades == Spec => []ManifestIsTradeable
<1>1. IInv => ManifestIsTradeable
  BY DEF IInv
<1> QED BY <1>1, Invariance, PTL
=============================================================================
