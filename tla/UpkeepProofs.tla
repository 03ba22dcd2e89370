------------------------- MODULE UpkeepProofs -------------------------
(***************************************************************************)
(* Those who keep a market and those who watch it.  The readers raise no   *)
(* false alarm but those with the harmless causes that AlarmsAreReal       *)
(* names, for any funds and any deposit cap.  The keepers' transactions    *)
(* name no account twice, and the liquidator's names exactly the two       *)
(* largest positions, for any accounts and any number of keepers.          *)
(***************************************************************************)
EXTENDS MarketWatch, KeeperCrank, FiniteSetTheorems, SequenceTheorems, TLAPS

Snapshots == [vault : 0 .. Funds, cTot : 0 .. Funds, ins : 0 .. Funds,
              mode : {"Live", "Resolved"}, lag : 0 .. 2]

(***************************************************************************)
(* The inductive invariant.                                                *)
(***************************************************************************)
(* What a reader holds at each step; a donation is at most one unit.       *)
HeldOK ==
  /\ seen \in Snapshots /\ preIns \in 0 .. Funds
  /\ pc \in {"pre", "sent", "answered"} => up = "tick"
  /\ pc # "logged" => flags = {}
  /\ spl <= vault + 1

(* A market from which nothing was taken.                                  *)
Sound ==
  /\ spl >= vault /\ vault >= cTot + ins
  /\ cTot > ins * CapMult => "loss" \in past

(* The first snapshot of the tick, and the slab, are as old as between     *)
(* says.                                                                   *)
ReadsOK ==
  /\ pc \in {"pre", "sent", "answered"} => ins >= preIns \/ "loss" \in between
  /\ pc = "slab" =>
       /\ seen.vault >= seen.cTot + seen.ins
       /\ seen.cTot > seen.ins * CapMult => "loss" \in past
       /\ seen.vault > spl => "withdraw" \in between
       /\ seen.vault = vault \/ between \cap {"deposit", "withdraw"} # {}
       /\ up = "tick" /\ seen.ins < preIns => "loss" \in between

IInv == TypeOK /\ HeldOK /\ ("break" \notin past => Sound /\ ReadsOK) /\ AlarmsAreReal

LEMMA Bounds ==
  /\ Funds \in Nat /\ Funds >= 1 /\ CapMult \in Nat /\ CapMult >= 1
  /\ \A n \in Nat : n * CapMult \in Nat /\ (n + 1) * CapMult = n * CapMult + CapMult
<1>1. Funds \in Nat /\ Funds >= 1 /\ CapMult \in Nat /\ CapMult >= 1
  BY WatchAssumption
<1> QED BY <1>1

(* What a line of each reader says, flag by flag.                          *)
LEMMA Flagged ==
  ASSUME NEW s, NEW tokens, NEW before
  PROVE  /\ "SOLVENCY_BROKEN" \in checkAnomalies(s, tokens) => s.vault < s.cTot + s.ins
         /\ "VAULT_UNDERCOLLATERALIZED" \in checkAnomalies(s, tokens) => s.vault > tokens
         /\ "TVL_CAP_BYPASSED" \in checkAnomalies(s, tokens) => s.cTot > s.ins * CapMult
         /\ checkAnomalies(s, tokens) \cap
              {"ACCOUNTING_BROKEN", "vaultGeClaims", "INSOLVENCY", "TOKEN_VAULT",
               "CONSERVATION_BROKEN", "vaultEqSPL", "INSURANCE_DROP"} = {}
         /\ "ACCOUNTING_BROKEN" \in diff(before, s, tokens) => s.vault < s.cTot + s.ins
         /\ "CONSERVATION_BROKEN" \in diff(before, s, tokens) => s.vault # tokens
         /\ "INSURANCE_DROP" \in diff(before, s, tokens) => s.ins < before
         /\ diff(before, s, tokens) \cap
              {"SOLVENCY_BROKEN", "vaultGeClaims", "INSOLVENCY", "TOKEN_VAULT",
               "VAULT_UNDERCOLLATERALIZED", "vaultEqSPL", "TVL_CAP_BYPASSED"} = {}
         /\ "vaultGeClaims" \in MonitorMarks(s, tokens) => s.vault < s.cTot + s.ins
         /\ "vaultEqSPL" \in MonitorMarks(s, tokens) => s.vault # tokens
         /\ MonitorMarks(s, tokens) \cap
              {"SOLVENCY_BROKEN", "ACCOUNTING_BROKEN", "INSOLVENCY", "TOKEN_VAULT",
               "VAULT_UNDERCOLLATERALIZED", "CONSERVATION_BROKEN", "TVL_CAP_BYPASSED",
               "INSURANCE_DROP"} = {}
         /\ "INSOLVENCY" \in ConservationAnomalies(s, tokens) => s.vault < s.cTot + s.ins
         /\ "TOKEN_VAULT" \in ConservationAnomalies(s, tokens) => s.vault > tokens
         /\ ConservationAnomalies(s, tokens) \cap
              {"SOLVENCY_BROKEN", "ACCOUNTING_BROKEN", "vaultGeClaims",
               "VAULT_UNDERCOLLATERALIZED", "CONSERVATION_BROKEN", "vaultEqSPL",
               "TVL_CAP_BYPASSED", "INSURANCE_DROP"} = {}
<1>1. /\ "SOLVENCY_BROKEN" \in checkAnomalies(s, tokens) => s.vault < s.cTot + s.ins
      /\ "VAULT_UNDERCOLLATERALIZED" \in checkAnomalies(s, tokens) => s.vault > tokens
      /\ "TVL_CAP_BYPASSED" \in checkAnomalies(s, tokens) => s.cTot > s.ins * CapMult
  BY DEF checkAnomalies, WatchTests, Raised
<1>2. checkAnomalies(s, tokens) \cap
        {"ACCOUNTING_BROKEN", "vaultGeClaims", "INSOLVENCY", "TOKEN_VAULT",
         "CONSERVATION_BROKEN", "vaultEqSPL", "INSURANCE_DROP"} = {}
  BY DEF checkAnomalies, WatchTests, Raised
<1>3. /\ "ACCOUNTING_BROKEN" \in diff(before, s, tokens) => s.vault < s.cTot + s.ins
      /\ "CONSERVATION_BROKEN" \in diff(before, s, tokens) => s.vault # tokens
      /\ "INSURANCE_DROP" \in diff(before, s, tokens) => s.ins < before
  BY DEF diff, TickTests, Raised
<1>4. diff(before, s, tokens) \cap
        {"SOLVENCY_BROKEN", "vaultGeClaims", "INSOLVENCY", "TOKEN_VAULT",
         "VAULT_UNDERCOLLATERALIZED", "vaultEqSPL", "TVL_CAP_BYPASSED"} = {}
  BY DEF diff, TickTests, Raised
<1>5. /\ "vaultGeClaims" \in MonitorMarks(s, tokens) => s.vault < s.cTot + s.ins
      /\ "vaultEqSPL" \in MonitorMarks(s, tokens) => s.vault # tokens
      /\ MonitorMarks(s, tokens) \cap
           {"SOLVENCY_BROKEN", "ACCOUNTING_BROKEN", "INSOLVENCY", "TOKEN_VAULT",
            "VAULT_UNDERCOLLATERALIZED", "CONSERVATION_BROKEN", "TVL_CAP_BYPASSED",
            "INSURANCE_DROP"} = {}
  BY DEF MonitorMarks, Raised
<1>6. /\ "INSOLVENCY" \in ConservationAnomalies(s, tokens) => s.vault < s.cTot + s.ins
      /\ "TOKEN_VAULT" \in ConservationAnomalies(s, tokens) => tokens < s.vault
      /\ ConservationAnomalies(s, tokens) \cap
           {"SOLVENCY_BROKEN", "ACCOUNTING_BROKEN", "vaultGeClaims",
            "VAULT_UNDERCOLLATERALIZED", "CONSERVATION_BROKEN", "vaultEqSPL",
            "TVL_CAP_BYPASSED", "INSURANCE_DROP"} = {}
  BY DEF ConservationAnomalies, Raised
<1> QED BY <1>1, <1>2, <1>3, <1>4, <1>5, <1>6

LEMMA InitIInv == Init => IInv
  BY Bounds DEF Init, IInv, TypeOK, HeldOK, Sound, ReadsOK, AlarmsAreReal, Readers, Blank, Snapshots

(***************************************************************************)
(* The market moves while a reader is at pc.                               *)
(***************************************************************************)
(* What is remembered of a move.                                           *)
LEMMA MovedSays ==
  ASSUME NEW kind, Moved(kind), TypeOK
  PROVE  /\ between \subseteq between' /\ past \subseteq past' /\ past' \subseteq {"break", "loss"}
         /\ pc = "slab" /\ kind \in {"deposit", "withdraw"} => kind \in between'
         /\ pc \in {"pre", "sent", "answered"} /\ kind = "loss" => "loss" \in between'
         /\ kind \in {"break", "loss"} => kind \in past'
         /\ kind # "break" /\ "break" \notin past => "break" \notin past'
<1> DEFINE noted == CASE pc \in {"pre", "sent", "answered"} -> {"loss"}
                      [] pc = "slab" -> {"deposit", "withdraw"}
                      [] OTHER -> {}
<1>1. /\ pc = "slab" => noted = {"deposit", "withdraw"}
      /\ pc \in {"pre", "sent", "answered"} => noted = {"loss"}
  OBVIOUS
<1>2. \A e : e \in between' <=> e \in between \/ (e = kind /\ e \in noted)
  BY DEF Moved
<1>3. \A e : e \in past' <=> e \in past \/ (e = kind /\ e \in {"break", "loss"})
  BY DEF Moved
<1>4. past \subseteq {"break", "loss"}
  BY DEF TypeOK
<1> HIDE DEF noted
<1>5. between \subseteq between' /\ past \subseteq past' /\ past' \subseteq {"break", "loss"}
  BY <1>2, <1>3, <1>4
<1>6. /\ kind \in {"break", "loss"} => kind \in past'
      /\ kind # "break" /\ "break" \notin past => "break" \notin past'
  BY <1>3
<1>7. /\ pc = "slab" /\ kind \in {"deposit", "withdraw"} => kind \in between'
      /\ pc \in {"pre", "sent", "answered"} /\ kind = "loss" => "loss" \in between'
  BY <1>1, <1>2
<1> QED BY <1>5, <1>6, <1>7

LEMMA DepositKeeps == IInv /\ Deposit => IInv'
<1>1. SUFFICES ASSUME IInv, Deposit PROVE IInv'
  OBVIOUS
<1>2. ins * CapMult \in Nat
  BY <1>1, Bounds DEF IInv, TypeOK
<1>3. TypeOK' /\ HeldOK'
  BY <1>1, Bounds, MovedSays DEF Deposit, reader, IInv, TypeOK, HeldOK
<1>4. "break" \notin past' => Sound'
  BY <1>1, <1>2, Bounds, MovedSays DEF Deposit, reader, IInv, TypeOK, Sound
<1>5. "break" \notin past' => ReadsOK'
  BY <1>1, Bounds, MovedSays DEF Deposit, reader, IInv, TypeOK, HeldOK, Snapshots, ReadsOK
<1>6. AlarmsAreReal'
  BY <1>1, MovedSays DEF Deposit, reader, IInv, TypeOK, AlarmsAreReal
<1> QED BY <1>3, <1>4, <1>5, <1>6 DEF IInv

LEMMA WithdrawKeeps == IInv /\ Withdraw => IInv'
<1>1. SUFFICES ASSUME IInv, Withdraw PROVE IInv'
  OBVIOUS
<1>2. ins * CapMult \in Nat
  BY <1>1, Bounds DEF IInv, TypeOK
<1> QED BY <1>1, <1>2, Bounds, MovedSays
        DEF Withdraw, reader, IInv, TypeOK, HeldOK, Sound, ReadsOK, AlarmsAreReal

LEMMA FeeKeeps == IInv /\ Fee => IInv'
<1>1. SUFFICES ASSUME IInv, Fee PROVE IInv'
  OBVIOUS
<1>2. \A n \in {ins - 1, ins} \cap Nat :
        n * CapMult \in Nat /\ (n + 1) * CapMult = n * CapMult + CapMult
  BY <1>1, Bounds DEF IInv, TypeOK
<1> QED BY <1>1, <1>2, Bounds, MovedSays
        DEF Fee, reader, IInv, TypeOK, HeldOK, Sound, ReadsOK, AlarmsAreReal

LEMMA LossKeeps == IInv /\ Loss => IInv'
<1>1. SUFFICES ASSUME IInv, Loss PROVE IInv'
  OBVIOUS
<1>2. \A n \in {ins - 1, ins} \cap Nat :
        n * CapMult \in Nat /\ (n + 1) * CapMult = n * CapMult + CapMult
  BY <1>1, Bounds DEF IInv, TypeOK
<1> QED BY <1>1, <1>2, Bounds, MovedSays
        DEF Loss, reader, IInv, TypeOK, HeldOK, Sound, ReadsOK, AlarmsAreReal

LEMMA DonateKeeps == IInv /\ Donate => IInv'
<1>1. SUFFICES ASSUME IInv, Donate PROVE IInv'
  OBVIOUS
<1>2. TypeOK' /\ HeldOK'
  BY <1>1, Bounds, MovedSays DEF Donate, reader, IInv, TypeOK, HeldOK
<1>3. "break" \notin past' => Sound' /\ ReadsOK'
  BY <1>1, Bounds, MovedSays DEF Donate, reader, IInv, TypeOK, HeldOK, Snapshots, Sound, ReadsOK
<1>4. AlarmsAreReal'
  BY <1>1, MovedSays DEF Donate, reader, IInv, TypeOK, AlarmsAreReal
<1> QED BY <1>2, <1>3, <1>4 DEF IInv

LEMMA BreakKeeps == IInv /\ Break => IInv'
<1>1. SUFFICES ASSUME IInv, Break PROVE IInv'
  OBVIOUS
<1>2. \A n \in {ins - 1, ins} \cap Nat :
        n * CapMult \in Nat /\ (n + 1) * CapMult = n * CapMult + CapMult
  BY <1>1, Bounds DEF IInv, TypeOK
<1> QED BY <1>1, <1>2, Bounds, MovedSays
        DEF Break, reader, IInv, TypeOK, HeldOK, Sound, ReadsOK, AlarmsAreReal

LEMMA AgeKeeps == IInv /\ Age => IInv'
  BY Bounds DEF Age, funds, reader, IInv, TypeOK, HeldOK, Sound, ReadsOK, AlarmsAreReal

LEMMA AccrueKeeps == IInv /\ Accrue => IInv'
  BY Bounds DEF Accrue, funds, reader, IInv, TypeOK, HeldOK, Sound, ReadsOK, AlarmsAreReal

LEMMA ResolvePermissionlessKeeps == IInv /\ ResolvePermissionless => IInv'
  BY Bounds DEF ResolvePermissionless, funds, reader, IInv, TypeOK, HeldOK, Sound, ReadsOK, AlarmsAreReal

LEMMA ReadSlabKeeps == IInv /\ ReadSlab => IInv'
  BY Bounds DEF ReadSlab, market, funds, Slab, Blank, Snapshots, IInv, TypeOK, HeldOK, Sound,
                ReadsOK, AlarmsAreReal

LEMMA RestKeeps == IInv /\ Rest => IInv'
  BY Bounds DEF Rest, market, funds, Slab, Blank, Snapshots, IInv, TypeOK, HeldOK, Sound,
                ReadsOK, AlarmsAreReal

LEMMA FailKeeps == IInv /\ Fail => IInv'
  BY Bounds DEF Fail, market, funds, Slab, Blank, Snapshots, IInv, TypeOK, HeldOK, Sound,
                ReadsOK, AlarmsAreReal

LEMMA TickPreKeeps == IInv /\ TickPre => IInv'
  BY Bounds DEF TickPre, market, funds, Slab, Blank, Snapshots, IInv, TypeOK, HeldOK, Sound,
                ReadsOK, AlarmsAreReal

LEMMA TickCrankKeeps == IInv /\ TickCrank => IInv'
  BY Bounds DEF TickCrank, market, funds, Slab, Blank, Snapshots, IInv, TypeOK, HeldOK, Sound,
                ReadsOK, AlarmsAreReal

LEMMA TickConfirmedKeeps == IInv /\ TickConfirmed => IInv'
  BY Bounds DEF TickConfirmed, market, funds, Slab, Blank, Snapshots, IInv, TypeOK, HeldOK, Sound,
                ReadsOK, AlarmsAreReal

(* The second read and the line that follows from both.                    *)
LEMMA ReadVaultKeeps == IInv /\ ReadVault => IInv'
<1>1. SUFFICES ASSUME IInv, ReadVault PROVE IInv'
  OBVIOUS
<1>2. TypeOK' /\ HeldOK' /\ ("break" \notin past' => Sound' /\ ReadsOK')
  BY <1>1, Bounds DEF ReadVault, market, Blank, Snapshots, IInv, TypeOK, HeldOK, Sound, ReadsOK
<1>3. ASSUME "break" \notin past PROVE AlarmsAreReal'
  <2>1. /\ seen.vault >= seen.cTot + seen.ins
        /\ seen.cTot > seen.ins * CapMult => "loss" \in past
        /\ seen.vault > spl => "withdraw" \in between
        /\ seen.vault # spl => spl > vault \/ between \cap {"deposit", "withdraw"} # {}
        /\ up = "tick" /\ seen.ins < preIns => "loss" \in between
    BY <1>1, <1>3 DEF ReadVault, IInv, TypeOK, HeldOK, Snapshots, Sound, ReadsOK
  <2>2. /\ ~ (seen.vault < seen.cTot + seen.ins)
        /\ UNCHANGED <<spl, vault, past, between>>
    BY <1>1, <2>1 DEF ReadVault, market, IInv, HeldOK, Snapshots
  <2>3. CASE up = "watch"
    <3>1. flags' = checkAnomalies(seen, spl)
      BY <1>1, <2>3 DEF ReadVault, Line
    <3>2. /\ flags' \cap {"ACCOUNTING_BROKEN", "vaultGeClaims", "INSOLVENCY", "TOKEN_VAULT",
                         "CONSERVATION_BROKEN", "vaultEqSPL", "INSURANCE_DROP"} = {}
          /\ "SOLVENCY_BROKEN" \notin flags'
          /\ "VAULT_UNDERCOLLATERALIZED" \in flags' => "withdraw" \in between'
          /\ "TVL_CAP_BYPASSED" \in flags' => "loss" \in past'
      BY <2>1, <2>2, <3>1, Flagged
    <3> QED BY <3>2 DEF AlarmsAreReal
  <2>4. CASE up = "tick"
    <3>1. flags' = diff(preIns, seen, spl)
      BY <1>1, <2>4 DEF ReadVault, Line
    <3>2. /\ flags' \cap {"SOLVENCY_BROKEN", "vaultGeClaims", "INSOLVENCY", "TOKEN_VAULT",
                         "VAULT_UNDERCOLLATERALIZED", "vaultEqSPL", "TVL_CAP_BYPASSED"} = {}
          /\ "ACCOUNTING_BROKEN" \notin flags'
          /\ "CONSERVATION_BROKEN" \in flags' =>
               spl' > vault' \/ between' \cap {"deposit", "withdraw"} # {}
          /\ "INSURANCE_DROP" \in flags' => "loss" \in between'
      BY <2>1, <2>2, <2>4, <3>1, Flagged
    <3> QED BY <3>2 DEF AlarmsAreReal
  <2>5. CASE up = "monitor"
    <3>1. flags' = MonitorMarks(seen, spl)
      BY <1>1, <2>5 DEF ReadVault, Line
    <3>2. /\ flags' \cap {"SOLVENCY_BROKEN", "ACCOUNTING_BROKEN", "INSOLVENCY", "TOKEN_VAULT",
                         "VAULT_UNDERCOLLATERALIZED", "CONSERVATION_BROKEN",
                         "TVL_CAP_BYPASSED", "INSURANCE_DROP"} = {}
          /\ "vaultGeClaims" \notin flags'
          /\ "vaultEqSPL" \in flags' =>
               spl' > vault' \/ between' \cap {"deposit", "withdraw"} # {}
      BY <2>1, <2>2, <3>1, Flagged
    <3> QED BY <3>2 DEF AlarmsAreReal
  <2>6. CASE up = "check"
    <3>1. flags' = ConservationAnomalies(seen, spl)
      BY <1>1, <2>6 DEF ReadVault, Line
    <3>2. /\ flags' \cap {"SOLVENCY_BROKEN", "ACCOUNTING_BROKEN", "vaultGeClaims",
                         "VAULT_UNDERCOLLATERALIZED", "CONSERVATION_BROKEN", "vaultEqSPL",
                         "TVL_CAP_BYPASSED", "INSURANCE_DROP"} = {}
          /\ "INSOLVENCY" \notin flags'
          /\ "TOKEN_VAULT" \in flags' => "withdraw" \in between'
      BY <2>1, <2>2, <3>1, Flagged
    <3> QED BY <3>2 DEF AlarmsAreReal
  <2> QED BY <1>1, <2>3, <2>4, <2>5, <2>6 DEF IInv, TypeOK, Readers
<1> QED BY <1>1, <1>2, <1>3 DEF ReadVault, market, IInv, AlarmsAreReal

LEMMA StepIInv == IInv /\ [Next]_vars => IInv'
<1>1. SUFFICES ASSUME IInv, [Next]_vars PROVE IInv'
  OBVIOUS
<1>2. CASE UNCHANGED vars
  BY <1>1, <1>2 DEF vars, IInv, TypeOK, HeldOK, Sound, ReadsOK, AlarmsAreReal
<1>3. CASE ReadSlab \/ ReadVault \/ Rest \/ Fail \/ TickPre \/ TickCrank \/ TickConfirmed
  BY <1>1, <1>3, ReadSlabKeeps, ReadVaultKeeps, RestKeeps, FailKeeps, TickPreKeeps,
     TickCrankKeeps, TickConfirmedKeeps
<1>4. CASE Deposit \/ Withdraw \/ Fee \/ Loss \/ Donate \/ Break
  BY <1>1, <1>4, DepositKeeps, WithdrawKeeps, FeeKeeps, LossKeeps, DonateKeeps, BreakKeeps
<1>5. CASE Age \/ Accrue \/ ResolvePermissionless
  BY <1>1, <1>5, AgeKeeps, AccrueKeeps, ResolvePermissionlessKeeps
<1> QED BY <1>1, <1>2, <1>3, <1>4, <1>5 DEF Next

LEMMA Invariance == Spec => []IInv
<1> QED BY InitIInv, StepIInv, PTL DEF Spec

-----------------------------------------------------------------------------
(* The funds keep within their bounds, and a reader that rests holds       *)
(* nothing it has read.                                                    *)
THEOREM TypeCorrect == Spec => []TypeOK
<1>1. IInv => TypeOK
  BY DEF IInv
<1> QED BY <1>1, Invariance, PTL

(* Whatever the market does between the two reads of any of the four       *)
(* readers: on a market nothing was stolen from, no line says that claims  *)
(* exceed the vault, and each other alarm has a cause AlarmsAreReal names. *)
THEOREM NoFalseAlarm == Spec => []AlarmsAreReal
<1>1. IInv => AlarmsAreReal
  BY DEF IInv
<1> QED BY <1>1, Invariance, PTL

-----------------------------------------------------------------------------
(***************************************************************************)
(* The candidates.  A finite set of accounts has a sequence in the order   *)
(* of any score: the set without the member that comes last has one, and   *)
(* no number of members is the least for which there is none.              *)
(***************************************************************************)
LEMMA LeastOf ==
  ASSUME NEW T, T \subseteq Nat, T # {}
  PROVE  \E m \in T : \A k \in T : m <= k
<1> DEFINE R == OpToRel(<, Nat)
<1>1. IsWellFoundedOn(R, Nat)
  BY NatLessThanWellFounded
<1>2. \A a, b \in Nat : a < b => <<a, b>> \in R
  BY DEF OpToRel
<1> HIDE DEF R
<1>3. PICK m \in T : \A k \in T : ~ (<<k, m>> \in R)
  BY <1>1, WFMin
<1>4. ASSUME NEW k \in T PROVE m <= k
  <2>1. m \in Nat /\ k \in Nat /\ ~ (k < m)
    BY <1>2, <1>3
  <2> QED BY <2>1
<1> QED BY <1>4

Scores == [Accounts -> Nat]

LEMMA BeforeOrders ==
  ASSUME NEW score \in Scores, NEW a \in Accounts, NEW b \in Accounts, NEW c \in Accounts
  PROVE  /\ ~ Before(score, a, a)
         /\ a = b \/ Before(score, a, b) \/ Before(score, b, a)
         /\ Before(score, a, b) /\ Before(score, b, c) => Before(score, a, c)
<1>1. {a, b, c, score[a], score[b], score[c]} \subseteq Nat
  BY KeeperAssumption DEF Scores
<1> QED BY <1>1 DEF Before

(* One that comes after all the others.                                    *)
Final(score, X, z) == z \in X /\ \A a \in X : a = z \/ Before(score, a, z)

LEMMA FinalExists ==
  ASSUME NEW score \in Scores, NEW S, S \subseteq Accounts, S # {}
  PROVE  \E z : Final(score, S, z)
<1> DEFINE T == {n \in Nat : \E X \in SUBSET Accounts :
                               Cardinality(X) = n /\ X # {} /\ ~ \E z : Final(score, X, z)}
<1>1. SUFFICES ASSUME T # {} PROVE FALSE
  <2>1. IsFiniteSet(S) /\ Cardinality(S) \in Nat
    BY KeeperAssumption, FS_Subset, FS_CardinalityType
  <2> QED BY <2>1
<1>2. PICK n \in T : \A k \in T : n <= k
  <2>1. T \subseteq Nat
    OBVIOUS
  <2> HIDE DEF T
  <2> QED BY <1>1, <2>1, LeastOf
<1>3. PICK X \in SUBSET Accounts : Cardinality(X) = n /\ X # {} /\ ~ \E z : Final(score, X, z)
  OBVIOUS
<1>4. IsFiniteSet(X) /\ n \in Nat
  BY KeeperAssumption, FS_Subset, <1>3
<1>5. PICK x \in X : TRUE
  BY <1>3
<1> DEFINE Y == X \ {x}
<1>6. Cardinality(Y) = n - 1 /\ Cardinality(Y) \in Nat /\ Y \in SUBSET Accounts
  BY <1>3, <1>4, <1>5, FS_RemoveElement, FS_CardinalityType
<1>7. n - 1 \notin T
  <2>1. ~ (n <= n - 1)
    BY <1>4
  <2> HIDE DEF T
  <2> QED BY <2>1, <1>2
<1>8. Y = {} \/ \E z : Final(score, Y, z)
  BY <1>6, <1>7
<1>9. CASE Y = {}
  <2>1. X = {x}
    BY <1>5, <1>9
  <2> HIDE DEF Y
  <2> QED BY <2>1, <1>3 DEF Final
<1>10. ASSUME NEW z, Final(score, Y, z) PROVE FALSE
  <2>1. z \in X /\ z # x /\ \A a \in X : a = x \/ a = z \/ Before(score, a, z)
    BY <1>10 DEF Final
  <2>2. X \subseteq Accounts /\ x \in Accounts /\ z \in Accounts
    BY <2>1, <1>3, <1>5
  <2>3. CASE Before(score, x, z)
    BY <2>1, <2>3, <1>3 DEF Final
  <2>4. CASE Before(score, z, x)
    <3>1. ASSUME NEW a \in X PROVE a = x \/ Before(score, a, x)
      <4>1. CASE a = z
        BY <4>1, <2>4
      <4>2. CASE Before(score, a, z)
        BY <4>2, <2>2, <2>4, BeforeOrders
      <4> QED BY <4>1, <4>2, <2>1
    <3> QED BY <3>1, <1>3, <1>5 DEF Final
  <2> QED BY <2>1, <2>2, <2>3, <2>4, BeforeOrders
<1> QED BY <1>8, <1>9, <1>10

Ranks(q, S, score) ==
  /\ q \in [1 .. Cardinality(S) -> S]
  /\ \A m, n \in 1 .. Cardinality(S) : m < n => Before(score, q[m], q[n])

LEMMA RankingExists ==
  ASSUME NEW score \in Scores, NEW S, S \subseteq Accounts
  PROVE  \E q : Ranks(q, S, score)
<1> DEFINE T == {n \in Nat : \E X \in SUBSET Accounts :
                               Cardinality(X) = n /\ ~ \E q : Ranks(q, X, score)}
<1>1. SUFFICES ASSUME T # {} PROVE FALSE
  <2>1. IsFiniteSet(S) /\ Cardinality(S) \in Nat
    BY KeeperAssumption, FS_Subset, FS_CardinalityType
  <2> QED BY <2>1
<1>2. PICK n \in T : \A k \in T : n <= k
  <2>1. T \subseteq Nat
    OBVIOUS
  <2> HIDE DEF T
  <2> QED BY <1>1, <2>1, LeastOf
<1>3. PICK X \in SUBSET Accounts : Cardinality(X) = n /\ ~ \E q : Ranks(q, X, score)
  OBVIOUS
<1>4. IsFiniteSet(X) /\ n \in Nat
  BY KeeperAssumption, FS_Subset, <1>3
<1>5. CASE X = {}
  <2> DEFINE q == [k \in 1 .. 0 |-> 0]
  <2>1. Cardinality(X) = 0
    BY <1>5, FS_EmptySet
  <2>2. q \in [1 .. 0 -> X] /\ DOMAIN q = {}
    OBVIOUS
  <2> HIDE DEF q
  <2>3. Ranks(q, X, score)
    BY <2>1, <2>2 DEF Ranks
  <2> QED BY <2>3, <1>3
<1>6. CASE X # {}
  <2>1. PICK z : Final(score, X, z)
    BY <1>3, <1>6, FinalExists
  <2> DEFINE Y == X \ {z}
  <2>2. z \in X /\ \A y \in Y : y \in X /\ Before(score, y, z)
    BY <2>1 DEF Final
  <2>3. Cardinality(Y) = n - 1 /\ Y \in SUBSET Accounts /\ n - 1 \in Nat
    <3>1. Cardinality(Y) = n - 1 /\ IsFiniteSet(Y)
      BY <1>3, <1>4, <2>2, FS_RemoveElement
    <3>2. Cardinality(Y) \in Nat
      BY <3>1, FS_CardinalityType
    <3> QED BY <3>1, <3>2
  <2>4. n - 1 \notin T
    <3>1. ~ (n <= n - 1)
      BY <1>4
    <3> HIDE DEF T
    <3> QED BY <3>1, <1>2
  <2>5. PICK p : Ranks(p, Y, score)
    BY <2>3, <2>4
  <2> DEFINE q == [k \in 1 .. n |-> IF k = n THEN z ELSE p[k]]
  <2>6. /\ p \in [1 .. n - 1 -> Y]
        /\ \A i, j \in 1 .. n - 1 : i < j => Before(score, p[i], p[j])
    BY <2>3, <2>5 DEF Ranks
  <2> HIDE DEF Y
  <2>7. \A k \in 1 .. n - 1 : p[k] \in X /\ Before(score, p[k], z)
    BY <2>2, <2>6
  <2>8. \A k \in 1 .. n : k # n => k \in 1 .. n - 1
    BY <1>4
  <2>9. q \in [1 .. n -> X]
    BY <2>2, <2>7, <2>8
  <2>10. ASSUME NEW i \in 1 .. n, NEW j \in 1 .. n, i < j PROVE Before(score, q[i], q[j])
    <3>1. i # n /\ i \in 1 .. n - 1
      BY <2>8, <2>10, <1>4
    <3>2. CASE j = n
      BY <3>1, <3>2, <2>7
    <3>3. CASE j # n
      BY <3>1, <3>3, <2>6, <2>8, <2>10
    <3> QED BY <3>2, <3>3
  <2> HIDE DEF q
  <2>11. Ranks(q, X, score)
    BY <1>3, <2>9, <2>10 DEF Ranks
  <2> QED BY <2>11, <1>3
<1> QED BY <1>5, <1>6

(* What Ranked returns: every member once, in the order of the score.      *)
LEMMA RankedIs ==
  ASSUME NEW score \in Scores, NEW S, S \subseteq Accounts
  PROVE  /\ IsFiniteSet(S) /\ Cardinality(S) \in Nat
         /\ Ranked(S, score) \in Seq(S) /\ Len(Ranked(S, score)) = Cardinality(S)
         /\ \A m, n \in 1 .. Cardinality(S) :
              m < n => Before(score, Ranked(S, score)[m], Ranked(S, score)[n])
         /\ \A m, n \in 1 .. Cardinality(S) : Ranked(S, score)[m] = Ranked(S, score)[n] => m = n
         /\ \A a \in S : \E m \in 1 .. Cardinality(S) : Ranked(S, score)[m] = a
<1> DEFINE q == Ranked(S, score)
           N == Cardinality(S)
<1>1. IsFiniteSet(S) /\ N \in Nat
  BY KeeperAssumption, FS_Subset, FS_CardinalityType
<1>2. Ranks(q, S, score)
  BY RankingExists DEF Ranked, Ranks
<1> HIDE DEF q
<1>3. q \in [1 .. N -> S] /\ \A m, n \in 1 .. N : m < n => Before(score, q[m], q[n])
  BY <1>2 DEF Ranks
<1> HIDE DEF N
<1>4. ASSUME NEW m \in 1 .. N, NEW n \in 1 .. N, q[m] = q[n] PROVE m = n
  <2>1. m < n \/ n < m \/ m = n
    BY <1>1
  <2>2. q[m] \in Accounts /\ ~ Before(score, q[m], q[m])
    BY <1>3, BeforeOrders
  <2> QED BY <2>1, <2>2, <1>3, <1>4
<1>5. q \in Seq(S) /\ Len(q) = N
  BY <1>1, <1>3
<1>6. \A a \in S : \E m \in 1 .. N : q[m] = a
  <2>1. IsFiniteSet(1 .. N) /\ Cardinality(1 .. N) = N
    BY <1>1, FS_Interval
  <2>2. q \in Injection(1 .. N, S)
    BY <1>3, <1>4 DEF Injection, IsInjective
  <2>3. q \in Surjection(1 .. N, S)
    BY <2>1, <2>2, <1>1, FS_Injection DEF N
  <2> QED BY <2>3 DEF Surjection
<1> QED BY <1>1, <1>3, <1>4, <1>5, <1>6 DEF q, N

LEMMA ScoresAre == Size \in Scores /\ Leverage \in Scores
<1>1. \A x, y \in Nat : y # 0 => x \div y \in Nat
  OBVIOUS
<1>2. ASSUME NEW a \in Accounts
      PROVE  (Size[a] * 10000) \div (IF Capital[a] > 0 THEN Capital[a] ELSE 1) \in Nat
  <2>1. Size[a] \in Nat /\ Capital[a] \in Nat
    BY KeeperAssumption
  <2>2. Size[a] * 10000 \in Nat /\ (IF Capital[a] > 0 THEN Capital[a] ELSE 1) \in Nat \ {0}
    BY <2>1
  <2> QED BY <2>2, <1>1
<1> QED BY <1>2, KeeperAssumption DEF Scores, Leverage

(* The liquidator's shortlist is the head of the ranking.                  *)
LEMMA TopTwoIs ==
  LET q == Ranked(Positions, Size)
      w == IF Len(q) < 2 THEN Len(q) ELSE 2
  IN  /\ TopTwo \in Seq(Accounts) /\ Len(TopTwo) = w /\ w \in Nat /\ w <= 2
      /\ \A i \in 1 .. w : TopTwo[i] = q[i] /\ i \in 1 .. Len(q)
<1> DEFINE q == Ranked(Positions, Size)
           w == IF Len(q) < 2 THEN Len(q) ELSE 2
<1>1. Positions \subseteq Accounts
  BY DEF Positions
<1>2. q \in Seq(Accounts) /\ TopTwo = SubSeq(q, 1, w)
  BY <1>1, RankedIs, ScoresAre DEF TopTwo
<1> HIDE DEF q
<1>3. Len(q) \in Nat /\ w \in Nat /\ w <= 2 /\ w <= Len(q)
  BY <1>2
<1> HIDE DEF w
<1>4. \A i \in 1 .. w : i \in 1 .. w - 1 + 1 /\ 1 + i - 1 = i /\ i \in 1 .. Len(q)
  BY <1>3
<1>5. \A i \in 1 .. w : q[i] \in Accounts
  BY <1>2, <1>4
<1>6. /\ TopTwo \in Seq(Accounts)
      /\ Len(TopTwo) = (IF 1 <= w THEN w - 1 + 1 ELSE 0)
      /\ \A i \in 1 .. w - 1 + 1 : TopTwo[i] = q[1 + i - 1]
  BY <1>2, <1>3, <1>5, SubSeqProperties
<1>7. Len(TopTwo) = w
  BY <1>3, <1>6
<1> QED BY <1>3, <1>4, <1>6, <1>7 DEF q, w

(* What a keeper may hold.                                                 *)
ListOK(q) == q \in Seq(Accounts) /\ IsInjective(q)

LEMMA ListsAre ==
  /\ ListOK(<<>>) /\ ListOK(computeCandidates)
  /\ ListOK(TopTwo) /\ Len(TopTwo) <= 2
<1>1. ListOK(<<>>)
  BY DEF ListOK, IsInjective
<1>2. ASSUME NEW score \in Scores, NEW S, S \subseteq Accounts
      PROVE  ListOK(Ranked(S, score))
  <2>1. DOMAIN Ranked(S, score) = 1 .. Cardinality(S) /\ Ranked(S, score) \in Seq(Accounts)
    BY <1>2, RankedIs
  <2> QED BY <2>1, <1>2, RankedIs DEF ListOK, IsInjective
<1>3. ListOK(computeCandidates)
  BY <1>2, ScoresAre DEF computeCandidates
<1>4. ListOK(TopTwo) /\ Len(TopTwo) <= 2
  <2> DEFINE q == Ranked(Positions, Size)
  <2>1. ListOK(q)
    BY <1>2, ScoresAre DEF Positions
  <2>2. /\ TopTwo \in Seq(Accounts) /\ Len(TopTwo) \in Nat /\ Len(TopTwo) <= 2
        /\ \A i \in 1 .. Len(TopTwo) : TopTwo[i] = q[i] /\ i \in 1 .. Len(q)
    BY TopTwoIs
  <2> HIDE DEF q
  <2>3. DOMAIN TopTwo = 1 .. Len(TopTwo) /\ DOMAIN q = 1 .. Len(q)
    BY <2>1, <2>2 DEF ListOK
  <2>4. IsInjective(TopTwo)
    BY <2>1, <2>2, <2>3 DEF ListOK, IsInjective
  <2> QED BY <2>2, <2>4 DEF ListOK
<1> QED BY <1>1, <1>3, <1>4

-----------------------------------------------------------------------------
LEMMA CandidatesKept ==
  ASSUME KeeperTypeOK, NEW k \in Keepers,
         \/ Read(k) \/ TooLarge(k) \/ Send(k) \/ EndTurn(k) \/ Expire(k)
  PROVE  KeeperTypeOK'
<1>1. CASE Read(k)
  <2>1. PICK q : Build(k, q) /\ ListOK(q) /\ (k \in Liquidators => Len(q) <= 2)
    <3>1. CASE ReadByLiquidator(k)
      BY <3>1, ListsAre DEF ReadByLiquidator
    <3>2. CASE ReadByBot(k)
      BY <3>2, ListsAre, KeeperAssumption DEF ReadByBot
    <3> QED BY <1>1, <3>1, <3>2 DEF Read
  <2> QED BY <2>1 DEF Build, slab, KeeperTypeOK, ListOK
<1>2. CASE TooLarge(k)
  BY <1>2, ListsAre DEF TooLarge, slab, KeeperTypeOK, ListOK
<1>3. CASE Send(k)
  BY <1>3 DEF Send, slab, KeeperTypeOK
<1>4. CASE EndTurn(k)
  BY <1>4, ListsAre DEF EndTurn, slab, KeeperTypeOK, ListOK
<1>5. CASE Expire(k)
  BY <1>5, ListsAre DEF Expire, slab, KeeperTypeOK, ListOK
<1> QED BY <1>1, <1>2, <1>3, <1>4, <1>5

LEMMA CrankKeeps ==
  ASSUME KeeperTypeOK, NEW k \in Keepers, Crank(k)
  PROVE  KeeperTypeOK'
<1>1. /\ wire' \subseteq Keepers /\ step' = step
      /\ cands' = [cands EXCEPT ![k] = <<>>]
  BY DEF Crank, KeeperTypeOK
<1>2. /\ cands' \in [Keepers -> Seq(Accounts)]
      /\ \A c \in Keepers : IsInjective(cands'[c]) /\ (c \in Liquidators => Len(cands'[c]) <= 2)
  BY <1>1, ListsAre DEF ListOK, KeeperTypeOK
<1>3. CASE Live
  <2>1. PICK gone : /\ phase' = "fresh" /\ under' = under \ gone
                    /\ basis' = [a \in Accounts |-> IF a \in gone THEN "none" ELSE basis[a]]
    BY <1>3 DEF Crank
  <2> QED BY <1>1, <1>2, <2>1 DEF KeeperTypeOK
<1>4. CASE ~Live
  BY <1>1, <1>2, <1>4 DEF Crank, slab, KeeperTypeOK
<1> QED BY <1>3, <1>4

LEMMA KeeperStep == KeeperTypeOK /\ [KeeperNext]_keeperVars => KeeperTypeOK'
<1> SUFFICES ASSUME KeeperTypeOK, [KeeperNext]_keeperVars PROVE KeeperTypeOK'
  OBVIOUS
<1>1. CASE UNCHANGED keeperVars
  BY <1>1 DEF keeperVars, KeeperTypeOK
<1>2. CASE \E k \in Keepers : Read(k) \/ TooLarge(k) \/ Send(k) \/ EndTurn(k) \/ Crank(k) \/ Expire(k)
  BY <1>2, CandidatesKept, CrankKeeps
<1>3. CASE \E a \in Accounts : Open(a) \/ Close(a) \/ PriceMove(a)
  <2>1. PICK a \in Accounts : Open(a) \/ Close(a) \/ PriceMove(a)
    BY <1>3
  <2>2. CASE Open(a)
    BY <2>2 DEF Open, KeeperTypeOK
  <2>3. CASE Close(a)
    BY <2>3 DEF Close, KeeperTypeOK
  <2>4. CASE PriceMove(a)
    BY <2>4 DEF PriceMove, KeeperTypeOK
  <2> QED BY <2>1, <2>2, <2>3, <2>4
<1>4. CASE BareCrank \/ GoStale \/ Resolve
  BY <1>4 DEF BareCrank, GoStale, Resolve, KeeperTypeOK
<1> QED BY <1>1, <1>2, <1>3, <1>4 DEF KeeperNext

(* No account is given twice in one transaction, the liquidator's has two  *)
(* candidates at most, and only open positions are under their margin, for *)
(* any accounts, sizes and number of keepers.                              *)
THEOREM KeeperTypeCorrect == KeeperSpec => []KeeperTypeOK
<1>1. KeeperInit => KeeperTypeOK
  BY ListsAre DEF KeeperInit, KeeperTypeOK, ListOK
<1> QED BY <1>1, KeeperStep, PTL DEF KeeperSpec

(* The liquidator submits exactly the positions that have fewer than two   *)
(* larger ones, with equals ranked by their index (mainnet-liquidator.ts:  *)
(* the two largest, without a margin filter).                              *)
(* The liquidator submits exactly the positions that have fewer than two   *)
(* larger ones, equals ranked by their index (mainnet-liquidator.ts, the   *)
(* sort and the slice): the accounts LargestAreLiquidated speaks of.       *)
THEOREM TopTwoAreLargest ==
  \A a \in Accounts :
    a \in {TopTwo[i] : i \in DOMAIN TopTwo} <=> a \in Positions /\ Cardinality(Larger(a)) < 2
<1> DEFINE q == Ranked(Positions, Size)
           N == Cardinality(Positions)
<1>1. Positions \subseteq Accounts /\ Size \in Scores
  BY ScoresAre DEF Positions
<1>2. /\ N \in Nat /\ q \in Seq(Positions) /\ Len(q) = N
      /\ \A m, n \in 1 .. N : m < n => Before(Size, q[m], q[n])
      /\ \A m, n \in 1 .. N : q[m] = q[n] => m = n
      /\ \A a \in Positions : \E m \in 1 .. N : q[m] = a
  BY <1>1, RankedIs
<1>3. /\ \A i \in DOMAIN TopTwo : i \in 1 .. N /\ i <= 2 /\ TopTwo[i] = q[i]
      /\ \A i \in 1 .. N : i <= 2 => i \in DOMAIN TopTwo
  <2> DEFINE w == IF Len(q) < 2 THEN Len(q) ELSE 2
  <2>1. /\ TopTwo \in Seq(Accounts) /\ Len(TopTwo) = w /\ w \in Nat /\ w <= 2
        /\ \A i \in 1 .. w : TopTwo[i] = q[i] /\ i \in 1 .. Len(q)
    BY TopTwoIs
  <2>2. DOMAIN TopTwo = 1 .. w
    <3> HIDE DEF w
    <3> QED BY <2>1
  <2>3. \A i \in 1 .. N : i <= 2 => i \in 1 .. w
    BY <1>2
  <2>4. \A i \in DOMAIN TopTwo : i \in 1 .. w /\ i \in 1 .. N /\ i <= 2 /\ TopTwo[i] = q[i]
    <3> HIDE DEF q
    <3>1. \A i \in 1 .. w : i <= 2
      BY <2>1
    <3> HIDE DEF w
    <3> QED BY <3>1, <2>1, <2>2, <1>2
  <2>5. \A i \in 1 .. N : i <= 2 => i \in DOMAIN TopTwo
    BY <2>2, <2>3
  <2> QED BY <2>4, <2>5
<1> HIDE DEF q, N
<1>4. ASSUME NEW m \in 1 .. N PROVE q[m] \in Positions /\ Cardinality(Larger(q[m])) = m - 1
  <2>1. \A i \in 1 .. N : q[i] \in Positions /\ q[i] \in Accounts
    BY <1>1, <1>2
  <2>2. \A b : b \in Larger(q[m]) <=> b \in Positions /\ Before(Size, b, q[m])
    BY DEF Larger, Before
  <2>3. \A i \in 1 .. N : Before(Size, q[i], q[m]) <=> i < m
    <3>1. ASSUME NEW i \in 1 .. N PROVE Before(Size, q[i], q[m]) <=> i < m
      <4>1. i < m \/ i = m \/ m < i
        BY <1>2
      <4>2. ~ Before(Size, q[m], q[m]) /\ ~ (Before(Size, q[i], q[m]) /\ Before(Size, q[m], q[i]))
        BY <2>1, <1>1, BeforeOrders
      <4> QED BY <4>1, <4>2, <1>2
    <3> QED BY <3>1
  <2>4. Larger(q[m]) = {q[i] : i \in 1 .. m - 1}
    <3>1. ASSUME NEW b \in Larger(q[m]) PROVE \E i \in 1 .. m - 1 : b = q[i]
      <4>1. PICK i \in 1 .. N : q[i] = b
        BY <2>2, <1>2
      <4>2. i < m
        BY <4>1, <2>2, <2>3
      <4>3. i \in 1 .. m - 1
        BY <4>2, <1>2
      <4> QED BY <4>1, <4>3
    <3>2. ASSUME NEW i \in 1 .. m - 1 PROVE q[i] \in Larger(q[m])
      <4>1. i \in 1 .. N /\ i < m
        BY <1>2
      <4> QED BY <4>1, <2>1, <2>2, <2>3
    <3> QED BY <3>1, <3>2
  <2> DEFINE f == [i \in 1 .. m - 1 |-> q[i]]
  <2>5. f \in Bijection(1 .. m - 1, Larger(q[m]))
    <3>1. \A i \in 1 .. m - 1 : i \in 1 .. N
      BY <1>2
    <3>2. f \in [1 .. m - 1 -> Larger(q[m])] /\ \A b \in Larger(q[m]) : \E i \in 1 .. m - 1 : f[i] = b
      BY <2>4
    <3>3. \A i, j \in 1 .. m - 1 : f[i] = f[j] => i = j
      BY <3>1, <1>2
    <3> QED BY <3>2, <3>3 DEF Bijection, Injection, Surjection, IsInjective
  <2>6. IsFiniteSet(1 .. m - 1) /\ Cardinality(1 .. m - 1) = m - 1
    <3>1. m - 1 \in Int /\ (IF 1 > m - 1 THEN 0 ELSE m - 1 - 1 + 1) = m - 1
      BY <1>2
    <3> QED BY <3>1, FS_Interval
  <2> QED BY <2>1, <2>5, <2>6, FS_Bijection DEF ExistsBijection
<1>5. ASSUME NEW a \in Accounts, a \in {TopTwo[i] : i \in DOMAIN TopTwo}
      PROVE  a \in Positions /\ Cardinality(Larger(a)) < 2
  <2>1. PICK i \in 1 .. N : i <= 2 /\ a = q[i]
    BY <1>3, <1>5
  <2> QED BY <2>1, <1>2, <1>4
<1>6. ASSUME NEW a \in Positions, Cardinality(Larger(a)) < 2
      PROVE  a \in {TopTwo[i] : i \in DOMAIN TopTwo}
  <2>1. PICK m \in 1 .. N : q[m] = a
    BY <1>2
  <2>2. m - 1 < 2 /\ m <= 2
    BY <2>1, <1>2, <1>4, <1>6
  <2> QED BY <2>1, <2>2, <1>3
<1> QED BY <1>5, <1>6
=============================================================================
