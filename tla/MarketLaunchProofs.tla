-------------------------- MODULE MarketLaunchProofs --------------------------
(***************************************************************************)
(* Deployments and burns, for any number of terminals, runs, slabs and     *)
(* commands, whatever the operator and strangers do in between.            *)
(***************************************************************************)
EXTENDS MarketLaunch, SequenceTheorems, TLAPS

(***************************************************************************)
(* The rows of the scripts, step by step.                                  *)
(***************************************************************************)
StepNames == Transactions \cup {"Vault", "Wrap", "CheckCap", "Authorities", "Manifest"}

LEMMA One ==
  ASSUME NEW x \in StepNames
  PROVE  <<x>> \in Seq(StepNames) /\ Len(<<x>>) = 1 /\ <<x>>[1] = x
  OBVIOUS

LEMMA Joined ==
  ASSUME NEW f \in Seq(StepNames), NEW g \in Seq(StepNames), NEW r, r = f \o g
  PROVE  /\ r \in Seq(StepNames) /\ Len(r) = Len(f) + Len(g)
         /\ \A i \in 1 .. Len(f) + Len(g) :
              r[i] = IF i <= Len(f) THEN f[i] ELSE g[i - Len(f)]
  BY ConcatProperties

LEMMA BurnsAre ==
  /\ Burns \in Seq(StepNames) /\ Len(Burns) = 3
  /\ Burns[1] = "INSURANCE_OPERATOR" /\ Burns[2] = "INSURANCE" /\ Burns[3] = "ADMIN"
  BY DEF Burns, StepNames, Transactions, Burnable

LEMMA ManifestIs ==
  <<"Manifest">> \in Seq(StepNames) /\ Len(<<"Manifest">>) = 1 /\ <<"Manifest">>[1] = "Manifest"
  BY One DEF StepNames

(* Four steps, another four, and the rest.                                 *)
Parts(r, f, g, h) ==
  /\ Len(r) = 8 + Len(h)
  /\ r[1] = f[1] /\ r[2] = f[2] /\ r[3] = f[3] /\ r[4] = f[4]
  /\ r[5] = g[1] /\ r[6] = g[2] /\ r[7] = g[3] /\ r[8] = g[4]
  /\ \A i \in 1 .. Len(h) : r[8 + i] = h[i]

LEMMA ThreeParts ==
  ASSUME NEW f \in Seq(StepNames), NEW g \in Seq(StepNames), NEW h \in Seq(StepNames),
         NEW r, r = f \o g \o h, Len(f) = 4, Len(g) = 4
  PROVE  Parts(r, f, g, h)
<1> DEFINE fg == f \o g
<1>1. /\ fg \in Seq(StepNames) /\ Len(fg) = Len(f) + Len(g)
      /\ \A i \in 1 .. Len(f) + Len(g) : fg[i] = IF i <= Len(f) THEN f[i] ELSE g[i - Len(f)]
  BY Joined
<1>2. r = fg \o h /\ Len(h) \in Nat
  OBVIOUS
<1> HIDE DEF fg
<1>3. /\ fg \in Seq(StepNames) /\ Len(fg) = 8
      /\ fg[1] = f[1] /\ fg[2] = f[2] /\ fg[3] = f[3] /\ fg[4] = f[4]
      /\ fg[5] = g[1] /\ fg[6] = g[2] /\ fg[7] = g[3] /\ fg[8] = g[4]
  BY <1>1
<1>4. /\ Len(r) = Len(fg) + Len(h)
      /\ \A i \in 1 .. Len(fg) + Len(h) : r[i] = IF i <= Len(fg) THEN fg[i] ELSE h[i - Len(fg)]
  BY <1>2, <1>3, Joined
<1>5. /\ Len(r) = 8 + Len(h)
      /\ \A i \in 1 .. 8 + Len(h) : r[i] = IF i <= 8 THEN fg[i] ELSE h[i - 8]
  BY <1>3, <1>4
<1>6. \A i \in 1 .. 8 : r[i] = fg[i]
  BY <1>5, <1>2
<1>7. ASSUME NEW i \in 1 .. Len(h) PROVE r[8 + i] = h[i]
  <2>1. 8 + i \in 1 .. 8 + Len(h) /\ ~ (8 + i <= 8) /\ (8 + i) - 8 = i
    BY <1>2
  <2> QED BY <1>5, <2>1
<1> QED BY <1>3, <1>5, <1>6, <1>7 DEF Parts

LEMMA OpensAre ==
  /\ DevnetOpens \in Seq(StepNames) /\ Len(DevnetOpens) = 4
  /\ DevnetOpens[1] = "CreateAccount" /\ DevnetOpens[2] = "Vault"
  /\ DevnetOpens[3] = "InitMarket" /\ DevnetOpens[4] = "KeeperCrank"
  /\ MaxRiskOpens = DevnetOpens /\ MainnetOpens = DevnetOpens /\ Bounty2Opens = DevnetOpens
  BY DEF DevnetOpens, MaxRiskOpens, MainnetOpens, Bounty2Opens, StepNames, Transactions, Burnable

LEMMA FundsAre ==
  /\ DevnetFunds \in Seq(StepNames) /\ Len(DevnetFunds) = 4
  /\ DevnetFunds[1] = "Wrap" /\ DevnetFunds[2] = "InitLP"
  /\ DevnetFunds[3] = "DepositCollateral" /\ DevnetFunds[4] = "TopUpInsurance"
  /\ MaxRiskFunds = DevnetFunds
  BY DEF DevnetFunds, MaxRiskFunds, StepNames, Transactions, Burnable

LEMMA MainnetFundsAre ==
  /\ MainnetFunds \in Seq(StepNames) /\ Len(MainnetFunds) = 4
  /\ MainnetFunds[1] = "Wrap" /\ MainnetFunds[2] = "TopUpInsurance"
  /\ MainnetFunds[3] = "UpdateConfig" /\ MainnetFunds[4] = "CheckCap"
  /\ Bounty2Funds = MainnetFunds
  BY DEF MainnetFunds, Bounty2Funds, StepNames, Transactions, Burnable

LEMMA MainnetSealsAre ==
  /\ MainnetSeals \in Seq(StepNames) /\ Len(MainnetSeals) = 4
  /\ MainnetSeals[1] = "INSURANCE_OPERATOR" /\ MainnetSeals[2] = "INSURANCE"
  /\ MainnetSeals[3] = "ADMIN" /\ MainnetSeals[4] = "Manifest"
<1> DEFINE c == <<"Manifest">>
<1>1. c \in Seq(StepNames) /\ Len(c) = 1 /\ c[1] = "Manifest"
  BY ManifestIs
<1>2. MainnetSeals = Burns \o c
  BY DEF MainnetSeals
<1> HIDE DEF c
<1>3. /\ MainnetSeals \in Seq(StepNames) /\ Len(MainnetSeals) = Len(Burns) + Len(c)
      /\ \A i \in 1 .. Len(Burns) + Len(c) :
           MainnetSeals[i] = IF i <= Len(Burns) THEN Burns[i] ELSE c[i - Len(Burns)]
  BY <1>1, <1>2, BurnsAre, Joined
<1> QED BY <1>1, <1>3, BurnsAre

LEMMA DevnetSealsAre ==
  /\ DevnetSeals \in Seq(StepNames) /\ Len(DevnetSeals) = 6
  /\ DevnetSeals[1] = "UpdateConfig" /\ DevnetSeals[2] = "CheckCap"
  /\ DevnetSeals[3] = "INSURANCE_OPERATOR" /\ DevnetSeals[4] = "INSURANCE"
  /\ DevnetSeals[5] = "ADMIN" /\ DevnetSeals[6] = "Manifest"
  /\ MaxRiskSeals = DevnetSeals
<1> DEFINE a == <<"UpdateConfig", "CheckCap">>
           c == <<"Manifest">>
           b == a \o Burns
<1>1. a \in Seq(StepNames) /\ Len(a) = 2 /\ a[1] = "UpdateConfig" /\ a[2] = "CheckCap"
  BY DEF StepNames, Transactions, Burnable
<1>2. c \in Seq(StepNames) /\ Len(c) = 1 /\ c[1] = "Manifest"
  BY ManifestIs
<1>3. DevnetSeals = b \o c /\ MaxRiskSeals = DevnetSeals
  BY DEF DevnetSeals, MaxRiskSeals
<1> HIDE DEF a, c
<1>4. /\ b \in Seq(StepNames) /\ Len(b) = Len(a) + Len(Burns)
      /\ \A i \in 1 .. Len(a) + Len(Burns) : b[i] = IF i <= Len(a) THEN a[i] ELSE Burns[i - Len(a)]
  BY <1>1, BurnsAre, Joined
<1> HIDE DEF b
<1>5. /\ b \in Seq(StepNames) /\ Len(b) = 5
      /\ b[1] = a[1] /\ b[2] = a[2] /\ b[3] = Burns[1] /\ b[4] = Burns[2] /\ b[5] = Burns[3]
  BY <1>1, <1>4, BurnsAre
<1>6. /\ DevnetSeals \in Seq(StepNames) /\ Len(DevnetSeals) = Len(b) + Len(c)
      /\ \A i \in 1 .. Len(b) + Len(c) : DevnetSeals[i] = IF i <= Len(b) THEN b[i] ELSE c[i - Len(b)]
  BY <1>2, <1>3, <1>5, Joined
<1> QED BY <1>1, <1>2, <1>3, <1>5, <1>6, BurnsAre

LEMMA BurnRowIs ==
  /\ Len(Row("burn")) = 5
  /\ Row("burn")[1] = "Authorities" /\ Row("burn")[2] = "INSURANCE_OPERATOR"
  /\ Row("burn")[3] = "INSURANCE" /\ Row("burn")[4] = "ADMIN" /\ Row("burn")[5] = "Manifest"
<1> DEFINE a == <<"Authorities">>
           c == <<"Manifest">>
           b == a \o Burns
<1>1. a \in Seq(StepNames) /\ Len(a) = 1 /\ a[1] = "Authorities"
  BY One DEF StepNames
<1>2. c \in Seq(StepNames) /\ Len(c) = 1 /\ c[1] = "Manifest"
  BY ManifestIs
<1>3. BurnRow = b \o c
  BY DEF BurnRow
<1> HIDE DEF a, c
<1>4. /\ b \in Seq(StepNames) /\ Len(b) = Len(a) + Len(Burns)
      /\ \A i \in 1 .. Len(a) + Len(Burns) : b[i] = IF i <= Len(a) THEN a[i] ELSE Burns[i - Len(a)]
  BY <1>1, BurnsAre, Joined
<1> HIDE DEF b
<1>5. /\ b \in Seq(StepNames) /\ Len(b) = 4
      /\ b[1] = a[1] /\ b[2] = Burns[1] /\ b[3] = Burns[2] /\ b[4] = Burns[3]
  BY <1>1, <1>4, BurnsAre
<1>6. /\ BurnRow \in Seq(StepNames) /\ Len(BurnRow) = Len(b) + Len(c)
      /\ \A i \in 1 .. Len(b) + Len(c) : BurnRow[i] = IF i <= Len(b) THEN b[i] ELSE c[i - Len(b)]
  BY <1>2, <1>3, <1>5, Joined
<1>7. Row("burn") = BurnRow
  BY DEF Row
<1> QED BY <1>1, <1>2, <1>5, <1>6, <1>7, BurnsAre

LEMMA DevnetRowIs ==
  /\ Row("max_risk") = Row("devnet") /\ Len(Row("devnet")) = 14
  /\ Row("devnet")[1] = "CreateAccount" /\ Row("devnet")[2] = "Vault"
  /\ Row("devnet")[3] = "InitMarket" /\ Row("devnet")[4] = "KeeperCrank"
  /\ Row("devnet")[5] = "Wrap" /\ Row("devnet")[6] = "InitLP"
  /\ Row("devnet")[7] = "DepositCollateral" /\ Row("devnet")[8] = "TopUpInsurance"
  /\ Row("devnet")[9] = "UpdateConfig" /\ Row("devnet")[10] = "CheckCap"
  /\ Row("devnet")[11] = "INSURANCE_OPERATOR" /\ Row("devnet")[12] = "INSURANCE"
  /\ Row("devnet")[13] = "ADMIN" /\ Row("devnet")[14] = "Manifest"
<1> DEFINE r == Row("devnet")
<1>1. r = DevnetOpens \o DevnetFunds \o DevnetSeals
  BY DEF Row
<1>2. Row("max_risk") = Row("devnet")
  BY OpensAre, FundsAre, DevnetSealsAre DEF Row
<1> HIDE DEF r
<1>3. Parts(r, DevnetOpens, DevnetFunds, DevnetSeals)
  BY <1>1, OpensAre, FundsAre, DevnetSealsAre, ThreeParts
<1>4. /\ r[8 + 1] = DevnetSeals[1] /\ r[8 + 2] = DevnetSeals[2] /\ r[8 + 3] = DevnetSeals[3]
      /\ r[8 + 4] = DevnetSeals[4] /\ r[8 + 5] = DevnetSeals[5] /\ r[8 + 6] = DevnetSeals[6]
  BY <1>3, DevnetSealsAre DEF Parts
<1> QED BY <1>2, <1>3, <1>4, OpensAre, FundsAre, DevnetSealsAre DEF r, Parts

LEMMA MainnetRowIs ==
  /\ Len(Row("mainnet")) = 12
  /\ Row("mainnet")[1] = "CreateAccount" /\ Row("mainnet")[2] = "Vault"
  /\ Row("mainnet")[3] = "InitMarket" /\ Row("mainnet")[4] = "KeeperCrank"
  /\ Row("mainnet")[5] = "Wrap" /\ Row("mainnet")[6] = "TopUpInsurance"
  /\ Row("mainnet")[7] = "UpdateConfig" /\ Row("mainnet")[8] = "CheckCap"
  /\ Row("mainnet")[9] = "INSURANCE_OPERATOR" /\ Row("mainnet")[10] = "INSURANCE"
  /\ Row("mainnet")[11] = "ADMIN" /\ Row("mainnet")[12] = "Manifest"
<1> DEFINE r == Row("mainnet")
<1>1. r = MainnetOpens \o MainnetFunds \o MainnetSeals
  BY DEF Row
<1> HIDE DEF r
<1>2. Parts(r, MainnetOpens, MainnetFunds, MainnetSeals)
  BY <1>1, OpensAre, MainnetFundsAre, MainnetSealsAre, ThreeParts
<1>3. /\ r[8 + 1] = MainnetSeals[1] /\ r[8 + 2] = MainnetSeals[2]
      /\ r[8 + 3] = MainnetSeals[3] /\ r[8 + 4] = MainnetSeals[4]
  BY <1>2, MainnetSealsAre DEF Parts
<1> QED BY <1>2, <1>3, OpensAre, MainnetFundsAre, MainnetSealsAre DEF r, Parts

LEMMA Bounty2RowIs ==
  /\ Len(Row("bounty2")) = 9
  /\ Row("bounty2")[1] = "CreateAccount" /\ Row("bounty2")[2] = "Vault"
  /\ Row("bounty2")[3] = "InitMarket" /\ Row("bounty2")[4] = "KeeperCrank"
  /\ Row("bounty2")[5] = "Wrap" /\ Row("bounty2")[6] = "TopUpInsurance"
  /\ Row("bounty2")[7] = "UpdateConfig" /\ Row("bounty2")[8] = "CheckCap"
  /\ Row("bounty2")[9] = "Manifest"
<1> DEFINE r == Row("bounty2")
<1>1. r = Bounty2Opens \o Bounty2Funds \o Bounty2Seals
  BY DEF Row
<1>2. /\ Bounty2Seals \in Seq(StepNames) /\ Len(Bounty2Seals) = 1
      /\ Bounty2Seals[1] = "Manifest"
  BY ManifestIs DEF Bounty2Seals
<1> HIDE DEF r
<1>3. Parts(r, Bounty2Opens, Bounty2Funds, Bounty2Seals)
  BY <1>1, <1>2, OpensAre, MainnetFundsAre, ThreeParts
<1>4. r[8 + 1] = Bounty2Seals[1]
  BY <1>2, <1>3 DEF Parts
<1> QED BY <1>2, <1>3, <1>4, OpensAre, MainnetFundsAre DEF r, Parts

Launchers == Files \cup {"burn"}

(***************************************************************************)
(* Where the steps that matter stand.                                      *)
(***************************************************************************)
WithLp         == {"devnet", "max_risk"}
InitAt         == 3
DepositAt      == 7
TopUpAt(s)     == IF s \in WithLp THEN 8 ELSE 6
ConfigAt(s)    == TopUpAt(s) + 1
BurnsAt(s)     == IF s = "burn" THEN 2 ELSE ConfigAt(s) + 2
ManifestAt(s)  == IF s = "bounty2" THEN BurnsAt(s) ELSE BurnsAt(s) + 3
BurnAt(s, a)   == CASE a = "INSURANCE_OPERATOR" -> BurnsAt(s)
                    [] a = "INSURANCE"          -> BurnsAt(s) + 1
                    [] a = "ADMIN"              -> BurnsAt(s) + 2

InOrder(s, i) ==
  LET step == Row(s)[i]
  IN  /\ step = "Authorities" <=> s = "burn" /\ i = 1
      /\ step \in {"CreateAccount", "Vault"} <=> s # "burn" /\ i < InitAt
      /\ step = "InitMarket" <=> s # "burn" /\ i = InitAt
      /\ step = "DepositCollateral" <=> s \in WithLp /\ i = DepositAt
      /\ step = "TopUpInsurance" <=> s # "burn" /\ i = TopUpAt(s)
      /\ step = "UpdateConfig" <=> s # "burn" /\ i = ConfigAt(s)
      /\ \A a \in Burnable : step = a <=> s # "bounty2" /\ i = BurnAt(s, a)
      /\ step = "Manifest" <=> i = ManifestAt(s)

LEMMA BurnOrder ==
  ASSUME NEW i \in 1 .. 5
  PROVE  /\ Row("burn")[i] = "Authorities" <=> i = 1
         /\ Row("burn")[i] # "InitMarket"
         /\ Row("burn")[i] # "DepositCollateral"
         /\ Row("burn")[i] # "TopUpInsurance"
         /\ Row("burn")[i] # "UpdateConfig"
         /\ Row("burn")[i] = "INSURANCE_OPERATOR" <=> i = 2
         /\ Row("burn")[i] = "INSURANCE" <=> i = 3
         /\ Row("burn")[i] = "ADMIN" <=> i = 4
         /\ Row("burn")[i] = "Manifest" <=> i = 5
         /\ Row("burn")[i] \notin {"CreateAccount", "Vault"}
<1>1. Row("burn")[i] = "Authorities" <=> i = 1
  BY BurnRowIs
<1>2. Row("burn")[i] # "InitMarket"
  BY BurnRowIs
<1>3. Row("burn")[i] # "DepositCollateral"
  BY BurnRowIs
<1>4. Row("burn")[i] # "TopUpInsurance"
  BY BurnRowIs
<1>5. Row("burn")[i] # "UpdateConfig"
  BY BurnRowIs
<1>6. Row("burn")[i] = "INSURANCE_OPERATOR" <=> i = 2
  BY BurnRowIs
<1>7. Row("burn")[i] = "INSURANCE" <=> i = 3
  BY BurnRowIs
<1>8. Row("burn")[i] = "ADMIN" <=> i = 4
  BY BurnRowIs
<1>9. Row("burn")[i] = "Manifest" <=> i = 5
  BY BurnRowIs
<1>10. Row("burn")[i] \notin {"CreateAccount", "Vault"}
  BY BurnRowIs
<1> QED BY <1>1, <1>2, <1>3, <1>4, <1>5, <1>6, <1>7, <1>8, <1>9, <1>10

LEMMA Bounty2Order ==
  ASSUME NEW i \in 1 .. 9
  PROVE  /\ Row("bounty2")[i] # "Authorities"
         /\ Row("bounty2")[i] = "InitMarket" <=> i = 3
         /\ Row("bounty2")[i] # "DepositCollateral"
         /\ Row("bounty2")[i] = "TopUpInsurance" <=> i = 6
         /\ Row("bounty2")[i] = "UpdateConfig" <=> i = 7
         /\ Row("bounty2")[i] # "INSURANCE_OPERATOR"
         /\ Row("bounty2")[i] # "INSURANCE"
         /\ Row("bounty2")[i] # "ADMIN"
         /\ Row("bounty2")[i] = "Manifest" <=> i = 9
         /\ Row("bounty2")[i] \in {"CreateAccount", "Vault"} <=> i < 3
<1>1. Row("bounty2")[i] # "Authorities"
  BY Bounty2RowIs
<1>2. Row("bounty2")[i] = "InitMarket" <=> i = 3
  BY Bounty2RowIs
<1>3. Row("bounty2")[i] # "DepositCollateral"
  BY Bounty2RowIs
<1>4. Row("bounty2")[i] = "TopUpInsurance" <=> i = 6
  BY Bounty2RowIs
<1>5. Row("bounty2")[i] = "UpdateConfig" <=> i = 7
  BY Bounty2RowIs
<1>6. Row("bounty2")[i] # "INSURANCE_OPERATOR"
  BY Bounty2RowIs
<1>7. Row("bounty2")[i] # "INSURANCE"
  BY Bounty2RowIs
<1>8. Row("bounty2")[i] # "ADMIN"
  BY Bounty2RowIs
<1>9. Row("bounty2")[i] = "Manifest" <=> i = 9
  BY Bounty2RowIs
<1>10. Row("bounty2")[i] \in {"CreateAccount", "Vault"} <=> i < 3
  BY Bounty2RowIs
<1> QED BY <1>1, <1>2, <1>3, <1>4, <1>5, <1>6, <1>7, <1>8, <1>9, <1>10

LEMMA MainnetOrder ==
  ASSUME NEW i \in 1 .. 12
  PROVE  /\ Row("mainnet")[i] # "Authorities"
         /\ Row("mainnet")[i] = "InitMarket" <=> i = 3
         /\ Row("mainnet")[i] # "DepositCollateral"
         /\ Row("mainnet")[i] = "TopUpInsurance" <=> i = 6
         /\ Row("mainnet")[i] = "UpdateConfig" <=> i = 7
         /\ Row("mainnet")[i] = "INSURANCE_OPERATOR" <=> i = 9
         /\ Row("mainnet")[i] = "INSURANCE" <=> i = 10
         /\ Row("mainnet")[i] = "ADMIN" <=> i = 11
         /\ Row("mainnet")[i] = "Manifest" <=> i = 12
         /\ Row("mainnet")[i] \in {"CreateAccount", "Vault"} <=> i < 3
<1>1. Row("mainnet")[i] # "Authorities"
  BY MainnetRowIs
<1>2. Row("mainnet")[i] = "InitMarket" <=> i = 3
  BY MainnetRowIs
<1>3. Row("mainnet")[i] # "DepositCollateral"
  BY MainnetRowIs
<1>4. Row("mainnet")[i] = "TopUpInsurance" <=> i = 6
  BY MainnetRowIs
<1>5. Row("mainnet")[i] = "UpdateConfig" <=> i = 7
  BY MainnetRowIs
<1>6. Row("mainnet")[i] = "INSURANCE_OPERATOR" <=> i = 9
  BY MainnetRowIs
<1>7. Row("mainnet")[i] = "INSURANCE" <=> i = 10
  BY MainnetRowIs
<1>8. Row("mainnet")[i] = "ADMIN" <=> i = 11
  BY MainnetRowIs
<1>9. Row("mainnet")[i] = "Manifest" <=> i = 12
  BY MainnetRowIs
<1>10. Row("mainnet")[i] \in {"CreateAccount", "Vault"} <=> i < 3
  BY MainnetRowIs
<1> QED BY <1>1, <1>2, <1>3, <1>4, <1>5, <1>6, <1>7, <1>8, <1>9, <1>10

LEMMA DevnetOrder ==
  ASSUME NEW i \in 1 .. 14
  PROVE  /\ Row("devnet")[i] # "Authorities"
         /\ Row("devnet")[i] = "InitMarket" <=> i = 3
         /\ Row("devnet")[i] = "DepositCollateral" <=> i = 7
         /\ Row("devnet")[i] = "TopUpInsurance" <=> i = 8
         /\ Row("devnet")[i] = "UpdateConfig" <=> i = 9
         /\ Row("devnet")[i] = "INSURANCE_OPERATOR" <=> i = 11
         /\ Row("devnet")[i] = "INSURANCE" <=> i = 12
         /\ Row("devnet")[i] = "ADMIN" <=> i = 13
         /\ Row("devnet")[i] = "Manifest" <=> i = 14
         /\ Row("devnet")[i] \in {"CreateAccount", "Vault"} <=> i < 3
<1>1. Row("devnet")[i] # "Authorities"
  BY DevnetRowIs
<1>2. Row("devnet")[i] = "InitMarket" <=> i = 3
  BY DevnetRowIs
<1>3. Row("devnet")[i] = "DepositCollateral" <=> i = 7
  BY DevnetRowIs
<1>4. Row("devnet")[i] = "TopUpInsurance" <=> i = 8
  BY DevnetRowIs
<1>5. Row("devnet")[i] = "UpdateConfig" <=> i = 9
  BY DevnetRowIs
<1>6. Row("devnet")[i] = "INSURANCE_OPERATOR" <=> i = 11
  BY DevnetRowIs
<1>7. Row("devnet")[i] = "INSURANCE" <=> i = 12
  BY DevnetRowIs
<1>8. Row("devnet")[i] = "ADMIN" <=> i = 13
  BY DevnetRowIs
<1>9. Row("devnet")[i] = "Manifest" <=> i = 14
  BY DevnetRowIs
<1>10. Row("devnet")[i] \in {"CreateAccount", "Vault"} <=> i < 3
  BY DevnetRowIs
<1> QED BY <1>1, <1>2, <1>3, <1>4, <1>5, <1>6, <1>7, <1>8, <1>9, <1>10

LEMMA RowOrder ==
  ASSUME NEW s \in Launchers
  PROVE  /\ Len(Row(s)) = ManifestAt(s) /\ ManifestAt(s) \in 1 .. 14
         /\ \A i \in 1 .. ManifestAt(s) : InOrder(s, i)
<1>1. CASE s = "burn"
  <2>1. Row(s) = Row("burn") /\ Len(Row(s)) = 5 /\ ManifestAt(s) = 5
    BY <1>1, BurnRowIs DEF ManifestAt, BurnsAt, ConfigAt, TopUpAt, WithLp
  <2>2. ASSUME NEW i \in 1 .. 5 PROVE InOrder(s, i)
    BY <1>1, <2>1, BurnOrder
       DEF InOrder, WithLp, InitAt, DepositAt, TopUpAt, ConfigAt, BurnsAt, ManifestAt, BurnAt,
           Burnable
  <2> QED BY <2>1, <2>2
<1>2. CASE s = "bounty2"
  <2>1. Row(s) = Row("bounty2") /\ Len(Row(s)) = 9 /\ ManifestAt(s) = 9
    BY <1>2, Bounty2RowIs DEF ManifestAt, BurnsAt, ConfigAt, TopUpAt, WithLp
  <2>2. ASSUME NEW i \in 1 .. 9 PROVE InOrder(s, i)
    BY <1>2, <2>1, Bounty2Order
       DEF InOrder, WithLp, InitAt, DepositAt, TopUpAt, ConfigAt, BurnsAt, ManifestAt, BurnAt,
           Burnable
  <2> QED BY <2>1, <2>2
<1>3. CASE s = "mainnet"
  <2>1. Row(s) = Row("mainnet") /\ Len(Row(s)) = 12 /\ ManifestAt(s) = 12
    BY <1>3, MainnetRowIs DEF ManifestAt, BurnsAt, ConfigAt, TopUpAt, WithLp
  <2>2. ASSUME NEW i \in 1 .. 12 PROVE InOrder(s, i)
    BY <1>3, <2>1, MainnetOrder
       DEF InOrder, WithLp, InitAt, DepositAt, TopUpAt, ConfigAt, BurnsAt, ManifestAt, BurnAt,
           Burnable
  <2> QED BY <2>1, <2>2
<1>4. CASE s \in {"devnet", "max_risk"}
  <2>1. Row(s) = Row("devnet") /\ Len(Row(s)) = 14 /\ ManifestAt(s) = 14
    BY <1>4, DevnetRowIs DEF ManifestAt, BurnsAt, ConfigAt, TopUpAt, WithLp
  <2>2. ASSUME NEW i \in 1 .. 14 PROVE InOrder(s, i)
    BY <1>4, <2>1, DevnetOrder
       DEF InOrder, WithLp, InitAt, DepositAt, TopUpAt, ConfigAt, BurnsAt, ManifestAt, BurnAt,
           Burnable
  <2> QED BY <2>1, <2>2
<1> QED BY <1>1, <1>2, <1>3, <1>4 DEF Launchers, Files

(***************************************************************************)
(* Types.                                                                  *)
(***************************************************************************)
Configs   == [cap : {0, CAP_MULT}, funding : FUNDING .. FUNDING + 1]
Accounts  == [owner : Keys, kind : {"none", "user", "lp"}, capital : 0 .. MaxFund]
Markets   == [stage : {"none", "blank", "live", "resolved", "closed"}, hyperp : BOOLEAN,
              holder : [Authority -> Keys], config : Configs, fund : 0 .. MaxFund,
              account : [Slots -> Accounts], free : Seq(Slots), priced : BOOLEAN,
              fresh : BOOLEAN]
ScriptKinds == {"CreateAccount", "InitMarket", "KeeperCrank", "InitLP", "DepositCollateral",
                "TopUpInsurance", "UpdateConfig", "UpdateAuthority"}
Kinds     == ScriptKinds \cup {"InitUser", "WithdrawCollateral", "CloseAccount",
                               "PushOraclePrice", "ResolveMarket", "WithdrawInsurance",
                               "CloseSlab"}
Ixs       == [kind : Kinds, slab : Slabs, signer : Wallets, signers : SUBSET Wallets,
              sender : Launchers \cup {"cli"}, idx : Slots, authority : Authority, key : Keys,
              oracle : {"feed", "slab"}, hyperp : BOOLEAN, config : Configs,
              prefixed : BOOLEAN]
Manifests == [slab : Slabs \cup {NONE}, lp : BOOLEAN, burned : SUBSET Burnable]
Procs     == [script : Scripts \cup {NONE}, pc : 0 .. 16, slab : Slabs \cup {NONE},
              live : SUBSET Burnable, copy : Manifests]

(***************************************************************************)
(* The inductive invariant.                                                *)
(***************************************************************************)
(* Only a free slot is like new; before InitMarket everything is.          *)
MarketOK(m) ==
  /\ m \in Markets
  /\ ToSet(m.free) = Slots \ Used(m) /\ IsInjective(m.free)
  /\ \A i \in Slots : m.account[i].owner = ZERO => m.account[i] = NoAccount
  /\ m.stage \in {"none", "blank"} => m = [NoMarket EXCEPT !.stage = m.stage]

IxOK(x) == x \in Ixs /\ (x.prefixed => x.kind \in FRESH_ONLY)

(* What the rows send.                                                     *)
ScriptIx(x) ==
  /\ x.sender \in Launchers /\ x.kind \in ScriptKinds
  /\ x.signer = PAYER /\ x.key = ZERO /\ ~x.hyperp /\ x.idx = 1
  /\ x.kind = "UpdateConfig" => x.config.cap = CAP_MULT
  /\ x.kind = "UpdateAuthority" => x.authority \in Burnable
  /\ x.sender = "burn" => x.kind = "UpdateAuthority"

(* Of the commands only update-config is ever late.                        *)
CliIx(x) == x.sender = "cli" /\ x.kind = "UpdateConfig"

RunOK(p) ==
  /\ p.script \in Launchers /\ p.slab \in Slabs /\ p.pc \in 1 .. ManifestAt(p.script)
  /\ p.script = "burn" => p.copy.slab = p.slab /\ ~p.copy.lp

Typed ==
  /\ market \in [Slabs -> Markets] /\ \A s \in Slabs : MarketOK(market[s])
  /\ proc \in [Terminals -> Procs] /\ \A t \in Terminals : proc[t] = Ended \/ RunOK(proc[t])
  /\ \A x \in wire : IxOK(x) /\ (ScriptIx(x) \/ CliIx(x))
  /\ manifest \in [Files -> Manifests] /\ runs \in 0 .. MaxRuns
  /\ seeds \in [Slabs -> 0 .. MaxFund] /\ launcher \in [Slabs -> Files \cup {NONE}]
  /\ commands \in 0 .. MaxCommands /\ by_hand \subseteq Slabs

(* A run past InitMarket, and what such a run may have left on the wire:   *)
(* there is one of both on a slab, that of the script that initialised it. *)
IsOpen(p) == p.script \in Files /\ p.pc > InitAt
IsLate(x) == x.sender \in Files /\ x.kind \notin {"CreateAccount", "InitMarket"}

OneRun ==
  /\ \A t, u \in Terminals :
       IsOpen(proc[t]) /\ IsOpen(proc[u]) /\ proc[t].slab = proc[u].slab => t = u
  /\ \A t \in Terminals : \A x \in wire :
       IsOpen(proc[t]) /\ IsLate(x) => proc[t].slab # x.slab
  /\ \A x, y \in wire : IsLate(x) /\ IsLate(y) /\ x.slab = y.slab => x = y

(* What a script launched was initialised.                                 *)
Initialised(s) == /\ market[s].stage \in {"none", "blank"} => launcher[s] = NONE
                  /\ launcher[s] = NONE => seeds[s] = 0

(* What is true of a market that a script launched as long as its operator *)
(* leaves it alone.                                                        *)
Ours(m)  == m.account[1].kind = "lp" /\ m.account[1].owner = PAYER /\ m.account[1].capital > 0
Clean(m) == /\ m.stage \in {"live", "resolved"}
            /\ \A a \in Authority : m.holder[a] \in {ZERO, PAYER}
            /\ m.holder["HYPERP_MARK"] = ZERO
            /\ \A i \in Slots : m.account[i].owner = PAYER => m.account[i].kind = "lp"
Whole(s) == /\ market[s].config.cap = CAP_MULT /\ market[s].fund > 0
            /\ launcher[s] \in WithLp => Ours(market[s])
Burned(s, as) == \A a \in as : market[s].holder[a] = ZERO

SlabHolds(s) ==
  launcher[s] \in Files /\ s \notin by_hand =>
    /\ Clean(market[s])
    /\ market[s].holder["ADMIN"] = ZERO => Whole(s) /\ Burned(s, Authority)

(* What a run has done is still so.                                        *)
Reached(p) ==
  /\ p.script \in WithLp /\ p.pc > DepositAt => Ours(market[p.slab])
  /\ p.script \in Files /\ p.pc > TopUpAt(p.script) => market[p.slab].fund > 0
  /\ p.script \in Files /\ p.pc > ConfigAt(p.script) => market[p.slab].config.cap = CAP_MULT
  /\ p.script # "bounty2" =>
       \A a \in Burnable : p.pc > BurnAt(p.script, a) => market[p.slab].holder[a] = ZERO
  /\ p.script = "burn" => Whole(p.slab) /\ (p.pc > 1 => Burned(p.slab, Burnable \ p.live))

RunHolds(p) ==
  /\ IsOpen(p) => launcher[p.slab] = p.script
  /\ IsOpen(p) /\ p.pc <= TopUpAt(p.script) => seeds[p.slab] = 0
  /\ p.script = "burn" => launcher[p.slab] = "bounty2"
  /\ (IsOpen(p) \/ p.script = "burn") /\ p.slab \notin by_hand => Reached(p)

(* The burns that precede one in the rows.                                 *)
Earlier(a) == CASE a = "INSURANCE_OPERATOR" -> {}
                [] a = "INSURANCE"          -> {"INSURANCE_OPERATOR"}
                [] a = "ADMIN"              -> {"INSURANCE_OPERATOR", "INSURANCE"}

WireHolds(x) ==
  /\ IsLate(x) => launcher[x.slab] = x.sender
  /\ IsLate(x) /\ x.kind = "TopUpInsurance" => seeds[x.slab] = 0
  /\ x.sender = "burn" => launcher[x.slab] = "bounty2"
  /\ x.kind = "UpdateAuthority" /\ x.slab \notin by_hand =>
       Whole(x.slab) /\ Burned(x.slab, Earlier(x.authority))

FileHolds(f) ==
  manifest[f].slab # NONE =>
    /\ launcher[manifest[f].slab] = f /\ (manifest[f].lp => f \in WithLp)
    /\ manifest[f].slab \notin by_hand =>
         Whole(manifest[f].slab) /\ Burned(manifest[f].slab, manifest[f].burned)

IInv ==
  /\ Typed /\ OneRun /\ SeededOnce
  /\ \A s \in Slabs : Initialised(s) /\ SlabHolds(s)
  /\ \A t \in Terminals : RunHolds(proc[t])
  /\ \A x \in wire : WireHolds(x)
  /\ \A f \in Files : FileHolds(f)

-----------------------------------------------------------------------------
(***************************************************************************)
(* Types and constants.                                                    *)
(***************************************************************************)
LEMMA Basics ==
  /\ PAYER # STRANGER /\ ZERO # PAYER /\ ZERO # STRANGER
  /\ PAYER \in Wallets /\ STRANGER \in Wallets /\ Wallets \subseteq Keys /\ ZERO \in Keys
  /\ MaxAccounts \in Nat /\ 1 \in Slots /\ MaxFund \in Nat /\ CAP_MULT \in Nat
  /\ FUNDING \in Nat /\ MaxCommands \in Nat /\ MaxRuns \in Nat
  /\ NoMarket.config \in Configs /\ [cap |-> CAP_MULT, funding |-> FUNDING] \in Configs
  /\ NoAccount \in Accounts /\ NONE \notin Files /\ NONE # "burn" /\ NONE \notin Slabs
  BY CommandsAssumption, LaunchAssumption
     DEF Wallets, Keys, Slots, NoMarket, Configs, NoAccount, Accounts, NONE, Files

LEMMA Unused ==
  ASSUME NEW g \in {"none", "blank", "closed"}
  PROVE  MarketOK([NoMarket EXCEPT !.stage = g])
<1> DEFINE id == [i \in Slots |-> i]
           n  == [NoMarket EXCEPT !.stage = g]
<1>1. id \in Seq(Slots)
  BY CommandsAssumption DEF Slots
<1>2. DOMAIN id = Slots /\ \A i \in Slots : id[i] = i
  OBVIOUS
<1>3. n.free = id /\ n.account = [i \in Slots |-> NoAccount] /\ n.stage = g
  BY DEF NoMarket
<1> HIDE DEF id
<1>4. ToSet(id) = Slots /\ IsInjective(id)
  BY <1>2 DEF ToSet, IsInjective
<1>5. n \in Markets
  <2>1. [a \in Authority |-> ZERO] \in [Authority -> Keys]
    BY Basics
  <2>2. [i \in Slots |-> NoAccount] \in [Slots -> Accounts]
    BY Basics
  <2>3. /\ NoMarket.holder \in [Authority -> Keys] /\ NoMarket.account \in [Slots -> Accounts]
        /\ NoMarket.free \in Seq(Slots) /\ NoMarket.config \in Configs
    BY <1>1, <2>1, <2>2, Basics DEF NoMarket, id
  <2>4. /\ NoMarket.stage = "none" /\ NoMarket.hyperp \in BOOLEAN /\ NoMarket.fund = 0
        /\ NoMarket.priced \in BOOLEAN /\ NoMarket.fresh \in BOOLEAN
    BY DEF NoMarket
  <2>5. NoMarket = [stage |-> NoMarket.stage, hyperp |-> NoMarket.hyperp,
                    holder |-> NoMarket.holder, config |-> NoMarket.config,
                    fund |-> NoMarket.fund, account |-> NoMarket.account,
                    free |-> NoMarket.free, priced |-> NoMarket.priced,
                    fresh |-> NoMarket.fresh]
    BY DEF NoMarket
  <2>6. NoMarket \in Markets
    BY <2>3, <2>4, <2>5, Basics DEF Markets
  <2> QED BY <2>6 DEF Markets
<1>6. Used(n) = {}
  BY <1>3 DEF Used
<1>7. \A i \in Slots : n.account[i] = NoAccount
  BY <1>3
<1> HIDE DEF n
<1>8. ToSet(n.free) = Slots \ Used(n) /\ IsInjective(n.free)
  BY <1>3, <1>4, <1>6
<1> USE DEF n
<1>9. n.stage \in {"none", "blank"} => n = [NoMarket EXCEPT !.stage = n.stage]
  BY <1>3
<1> HIDE DEF n
<1> QED BY <1>5, <1>7, <1>8, <1>9 DEF MarketOK, n

(***************************************************************************)
(* The freelist: what is popped and pushed.                                *)
(***************************************************************************)
LEMMA Popped ==
  ASSUME NEW S, NEW f \in Seq(S), f # <<>>, IsInjective(f)
  PROVE  /\ Head(f) \in S /\ Head(f) \in ToSet(f)
         /\ Tail(f) \in Seq(S) /\ IsInjective(Tail(f))
         /\ ToSet(Tail(f)) = ToSet(f) \ {Head(f)}
<1>1. /\ Tail(f) \in Seq(S) /\ Len(f) \in Nat /\ Len(f) > 0
      /\ Len(Tail(f)) = Len(f) - 1 /\ Head(f) = f[1] /\ Head(f) \in S
      /\ \A i \in 1 .. Len(f) - 1 : Tail(f)[i] = f[i + 1]
      /\ DOMAIN f = 1 .. Len(f) /\ DOMAIN Tail(f) = 1 .. Len(f) - 1
  OBVIOUS
<1>2. \A a, b \in 1 .. Len(f) : f[a] = f[b] => a = b
  BY <1>1 DEF IsInjective
<1>3. IsInjective(Tail(f))
  BY <1>1, <1>2 DEF IsInjective
<1>4. Head(f) \in ToSet(f)
  BY <1>1 DEF ToSet
<1>5. ASSUME NEW x \in ToSet(Tail(f)) PROVE x \in ToSet(f) \ {Head(f)}
  <2>1. PICK i \in 1 .. Len(f) - 1 : x = f[i + 1]
    BY <1>1, <1>5 DEF ToSet
  <2>2. i + 1 \in 1 .. Len(f) /\ i + 1 # 1
    BY <1>1
  <2> QED BY <2>1, <2>2, <1>1, <1>2 DEF ToSet
<1>6. ASSUME NEW x \in ToSet(f) \ {Head(f)} PROVE x \in ToSet(Tail(f))
  <2>1. PICK i \in 1 .. Len(f) : x = f[i]
    BY <1>1, <1>6 DEF ToSet
  <2>2. i - 1 \in 1 .. Len(f) - 1 /\ Tail(f)[i - 1] = x
    BY <2>1, <1>1, <1>6
  <2> QED BY <2>2, <1>1 DEF ToSet
<1> QED BY <1>1, <1>3, <1>4, <1>5, <1>6

LEMMA Pushed ==
  ASSUME NEW S, NEW f \in Seq(S), NEW x \in S, x \notin ToSet(f), IsInjective(f)
  PROVE  /\ <<x>> \o f \in Seq(S) /\ IsInjective(<<x>> \o f)
         /\ ToSet(<<x>> \o f) = ToSet(f) \cup {x}
<1> DEFINE g == <<x>> \o f
<1>1. /\ g \in Seq(S) /\ Len(f) \in Nat /\ Len(g) = Len(f) + 1
      /\ DOMAIN f = 1 .. Len(f) /\ DOMAIN g = 1 .. Len(f) + 1
      /\ g[1] = x /\ \A i \in 1 .. Len(f) : g[i + 1] = f[i]
  OBVIOUS
<1>2. /\ \A a, b \in 1 .. Len(f) : f[a] = f[b] => a = b
      /\ \A i \in 1 .. Len(f) : f[i] # x
  BY <1>1 DEF IsInjective, ToSet
<1> HIDE DEF g
<1>3. \A a \in 1 .. Len(f) + 1 : a # 1 => a - 1 \in 1 .. Len(f) /\ g[a] = f[a - 1]
  BY <1>1
<1>4. IsInjective(g)
  BY <1>1, <1>2, <1>3 DEF IsInjective
<1>5. ToSet(g) = ToSet(f) \cup {x}
  <2>1. x \in ToSet(g)
    BY <1>1 DEF ToSet
  <2>2. ASSUME NEW y \in ToSet(f) PROVE y \in ToSet(g)
    <3>1. PICK i \in 1 .. Len(f) : y = f[i]
      BY <2>2, <1>1 DEF ToSet
    <3>2. i + 1 \in DOMAIN g /\ g[i + 1] = y
      BY <3>1, <1>1
    <3> QED BY <3>2 DEF ToSet
  <2>3. ASSUME NEW y \in ToSet(g) PROVE y \in ToSet(f) \cup {x}
    <3>1. PICK i \in 1 .. Len(f) + 1 : y = g[i]
      BY <2>3, <1>1 DEF ToSet
    <3> QED BY <3>1, <1>1, <1>3 DEF ToSet
  <2> QED BY <2>1, <2>2, <2>3
<1> QED BY <1>1, <1>4, <1>5 DEF g

-----------------------------------------------------------------------------
(***************************************************************************)
(* What an instruction does to a market, field by field.                   *)
(***************************************************************************)
(* What Accepted asks of the market.                                       *)
Ready(m, x) ==
  /\ x.kind = "CreateAccount" => m.stage = "none"
  /\ x.kind = "InitMarket" => m.stage = "blank"
  /\ x.kind \notin {"CreateAccount", "InitMarket"} => m.stage \in {"live", "resolved"}
  /\ x.kind \in {"InitUser", "InitLP"} => m.free # <<>>
  /\ x.kind \in {"DepositCollateral", "WithdrawCollateral", "CloseAccount"} =>
       m.account[x.idx].owner = x.signer
  /\ x.kind = "WithdrawCollateral" => m.account[x.idx].capital > 0
  /\ x.kind \in {"UpdateConfig", "ResolveMarket", "CloseSlab"} => m.holder["ADMIN"] = x.signer
  /\ x.kind = "UpdateAuthority" => m.holder[x.authority] = x.signer
  /\ x.kind = "WithdrawInsurance" => m.holder["INSURANCE"] = x.signer

LEMMA AcceptedIs ==
  ASSUME NEW x \in Ixs, Accepted(x)
  PROVE  Ready(market[x.slab], x)
<1> DEFINE m == market[x.slab]
<1>1. x.kind \in Kinds
  BY DEF Ixs
<1>2. /\ x.kind = "CreateAccount" => m.stage = "none"
      /\ x.kind = "InitMarket" => m.stage = "blank"
  BY DEF Accepted
<1>3. x.kind \notin {"CreateAccount", "InitMarket"} => m.stage \in {"live", "resolved"}
  BY <1>1 DEF Accepted, Kinds, ScriptKinds
<1>4. x.kind \in {"InitUser", "InitLP"} => m.free # <<>>
  BY DEF Accepted
<1>5. x.kind \in {"DepositCollateral", "WithdrawCollateral", "CloseAccount"} =>
        m.account[x.idx].owner = x.signer
  BY DEF Accepted
<1>6. x.kind = "WithdrawCollateral" => m.account[x.idx].capital > 0
  BY DEF Accepted
<1>7. x.kind \in {"UpdateConfig", "ResolveMarket", "CloseSlab"} => m.holder["ADMIN"] = x.signer
  BY DEF Accepted, Holds
<1>8. x.kind = "UpdateAuthority" => m.holder[x.authority] = x.signer
  BY DEF Accepted, Holds
<1>9. x.kind = "WithdrawInsurance" => m.holder["INSURANCE"] = x.signer
  BY DEF Accepted, Holds
<1> QED BY <1>2, <1>3, <1>4, <1>5, <1>6, <1>7, <1>8, <1>9 DEF Ready

Opens == {"InitUser", "InitLP"}
Moves == {"DepositCollateral", "WithdrawCollateral", "CloseAccount"}

LaunchHolders(x) ==
  [a \in Authority |-> IF a = "HYPERP_MARK" /\ ~x.hyperp THEN ZERO ELSE x.signer]
Newcomer(x)      ==
  [owner |-> x.signer, kind |-> IF x.kind = "InitLP" THEN "lp" ELSE "user", capital |-> 0]

Effect(m, x, n) ==
  /\ x.kind = "CreateAccount" => n = [m EXCEPT !.stage = "blank"]
  /\ n.stage = CASE x.kind = "CreateAccount" -> "blank"
                 [] x.kind = "InitMarket"    -> "live"
                 [] x.kind = "ResolveMarket" -> "resolved"
                 [] OTHER                    -> m.stage
  /\ n.holder = CASE x.kind = "InitMarket"      -> LaunchHolders(x)
                  [] x.kind = "UpdateAuthority" -> [m.holder EXCEPT ![x.authority] = x.key]
                  [] OTHER                      -> m.holder
  /\ n.config = IF x.kind = "UpdateConfig" THEN x.config ELSE m.config
  /\ n.fund = CASE x.kind = "TopUpInsurance"    -> m.fund + 1
                [] x.kind = "WithdrawInsurance" -> 0
                [] OTHER                        -> m.fund
  /\ x.kind \notin Opens \cup Moves => n.account = m.account /\ n.free = m.free
  /\ x.kind \in Opens =>
       n.account = [m.account EXCEPT ![Head(m.free)] = Newcomer(x)] /\ n.free = Tail(m.free)
  /\ x.kind = "DepositCollateral" =>
       n.account = [m.account EXCEPT ![x.idx].capital = @ + 1] /\ n.free = m.free
  /\ x.kind = "WithdrawCollateral" =>
       n.account = [m.account EXCEPT ![x.idx].capital = @ - 1] /\ n.free = m.free
  /\ x.kind = "CloseAccount" =>
       n.account = [m.account EXCEPT ![x.idx] = NoAccount] /\ n.free = <<x.idx>> \o m.free
  /\ n.hyperp \in BOOLEAN /\ n.priced \in BOOLEAN /\ n.fresh \in BOOLEAN
  /\ n = [stage |-> n.stage, hyperp |-> n.hyperp, holder |-> n.holder, config |-> n.config,
          fund |-> n.fund, account |-> n.account, free |-> n.free, priced |-> n.priced,
          fresh |-> n.fresh]

LEMMA AppliedIs ==
  ASSUME NEW m \in Markets, NEW x \in Ixs, x.kind # "CloseSlab"
  PROVE  Effect(m, x, Applied(m, x))
<1> DEFINE n == Applied(m, x)
<1>1. x.kind \in Kinds /\ x.hyperp \in BOOLEAN
  BY DEF Ixs
<1>2. n.stage = CASE x.kind = "CreateAccount" -> "blank"
                  [] x.kind = "InitMarket"    -> "live"
                  [] x.kind = "ResolveMarket" -> "resolved"
                  [] OTHER                    -> m.stage
  BY <1>1 DEF Applied, Opened, Kinds, ScriptKinds, Markets
<1>3. n.holder = CASE x.kind = "InitMarket"      -> LaunchHolders(x)
                   [] x.kind = "UpdateAuthority" -> [m.holder EXCEPT ![x.authority] = x.key]
                   [] OTHER                      -> m.holder
  BY <1>1 DEF Applied, Opened, Kinds, ScriptKinds, Markets, LaunchHolders
<1>4. n.config = IF x.kind = "UpdateConfig" THEN x.config ELSE m.config
  BY <1>1 DEF Applied, Opened, Kinds, ScriptKinds, Markets
<1>5. n.fund = CASE x.kind = "TopUpInsurance"    -> m.fund + 1
                 [] x.kind = "WithdrawInsurance" -> 0
                 [] OTHER                        -> m.fund
  BY <1>1 DEF Applied, Opened, Kinds, ScriptKinds, Markets
<1>6. x.kind \notin Opens \cup Moves => n.account = m.account /\ n.free = m.free
  BY <1>1 DEF Applied, Opened, Kinds, ScriptKinds, Markets, Opens, Moves
<1>7. x.kind \in Opens =>
        n.account = [m.account EXCEPT ![Head(m.free)] = Newcomer(x)] /\ n.free = Tail(m.free)
  BY DEF Applied, Opened, Markets, Opens, Newcomer
<1>8. x.kind = "DepositCollateral" =>
        n.account = [m.account EXCEPT ![x.idx].capital = @ + 1] /\ n.free = m.free
  BY DEF Applied, Markets
<1>9. x.kind = "WithdrawCollateral" =>
        n.account = [m.account EXCEPT ![x.idx].capital = @ - 1] /\ n.free = m.free
  BY DEF Applied, Markets
<1>10. x.kind = "CloseAccount" =>
         n.account = [m.account EXCEPT ![x.idx] = NoAccount] /\ n.free = <<x.idx>> \o m.free
  BY DEF Applied, Markets
<1>11. n.hyperp \in BOOLEAN /\ n.priced \in BOOLEAN /\ n.fresh \in BOOLEAN
  BY <1>1 DEF Applied, Opened, Kinds, ScriptKinds, Markets
<1>12. n = [stage |-> n.stage, hyperp |-> n.hyperp, holder |-> n.holder, config |-> n.config,
            fund |-> n.fund, account |-> n.account, free |-> n.free, priced |-> n.priced,
            fresh |-> n.fresh]
  BY <1>1 DEF Applied, Opened, Kinds, ScriptKinds, Markets
<1>13. x.kind = "CreateAccount" => n = [m EXCEPT !.stage = "blank"]
  BY DEF Applied
<1> HIDE DEF n
<1> QED
  BY <1>13, <1>2, <1>3, <1>4, <1>5, <1>6, <1>7, <1>8, <1>9, <1>10, <1>11, <1>12 DEF Effect, n

LEMMA Cranked ==
  ASSUME NEW m \in Markets
  PROVE  /\ [m EXCEPT !.fresh = TRUE] \in Markets
         /\ \A x, n : x.kind # "CreateAccount" /\ Effect([m EXCEPT !.fresh = TRUE], x, n)
                        => Effect(m, x, n)
<1> DEFINE c == [m EXCEPT !.fresh = TRUE]
<1>1. c \in Markets
  BY DEF Markets
<1>2. /\ c.stage = m.stage /\ c.holder = m.holder /\ c.config = m.config /\ c.fund = m.fund
      /\ c.account = m.account /\ c.free = m.free
  BY DEF Markets
<1> HIDE DEF c
<1>3. \A x, n : x.kind # "CreateAccount" /\ Effect(c, x, n) => Effect(m, x, n)
  BY <1>2 DEF Effect
<1> QED BY <1>1, <1>3 DEF c

Closed(m, x, n) ==
  x.kind = "CloseSlab" /\ n = [NoMarket EXCEPT !.stage = "closed"]

LEMMA ExecutedIs ==
  ASSUME Typed, NEW x, IxOK(x), Executes(x)
  PROVE  /\ x \in Ixs /\ x.slab \in Slabs /\ MarketOK(market[x.slab])
         /\ Ready(market[x.slab], x)
         /\ market' = [market EXCEPT ![x.slab] = market'[x.slab]]
         /\ \/ Effect(market[x.slab], x, market'[x.slab])
            \/ Closed(market[x.slab], x, market'[x.slab])
         /\ Bounded(market'[x.slab])
<1> DEFINE m == market[x.slab]
           c == IF x.prefixed THEN [m EXCEPT !.fresh = TRUE] ELSE m
           n == market'[x.slab]
<1>1. x \in Ixs /\ x.slab \in Slabs /\ (x.prefixed => x.kind \in FRESH_ONLY)
  BY DEF IxOK, Ixs
<1>2. MarketOK(m) /\ m \in Markets
  BY <1>1 DEF Typed, MarketOK
<1>3. Accepted(x) /\ market' = [market EXCEPT ![x.slab] = Applied(c, x)] /\ Bounded(n)
  BY DEF Executes
<1>4. n = Applied(c, x)
  BY <1>1, <1>3 DEF Typed
<1>5. Ready(m, x)
  BY <1>1, <1>3, AcceptedIs
<1>6. c \in Markets
  BY <1>2, Cranked
<1> HIDE DEF c, n
<1>7. CASE x.kind = "CloseSlab"
  <2>1. Closed(m, x, n)
    BY <1>4, <1>7 DEF Closed, Applied
  <2> QED BY <1>1, <1>2, <1>3, <1>4, <1>5, <2>1 DEF n
<1>8. CASE x.kind # "CloseSlab"
  <2>1. Effect(c, x, n)
    BY <1>1, <1>4, <1>6, <1>8, AppliedIs
  <2>2. CASE c = m
    BY <2>1, <2>2, <1>1, <1>2, <1>3, <1>4, <1>5 DEF n
  <2>3. CASE x.prefixed /\ c = [m EXCEPT !.fresh = TRUE]
    <3>1. x.kind # "CreateAccount"
      BY <2>3, <1>1 DEF FRESH_ONLY
    <3>2. Effect(m, x, n)
      BY <2>1, <2>3, <3>1, <1>2, Cranked
    <3> QED BY <3>2, <1>1, <1>2, <1>3, <1>4, <1>5 DEF n
  <2> QED BY <2>2, <2>3 DEF c
<1> QED BY <1>7, <1>8

(* The market stays well formed.                                           *)
LEMMA MarketAfter ==
  ASSUME NEW m, MarketOK(m), NEW x \in Ixs, Ready(m, x), NEW n, Effect(m, x, n), Bounded(n)
  PROVE  MarketOK(n)
<1>1. /\ m \in Markets /\ ToSet(m.free) = Slots \ Used(m) /\ IsInjective(m.free)
      /\ \A i \in Slots : m.account[i].owner = ZERO => m.account[i] = NoAccount
      /\ m.account \in [Slots -> Accounts] /\ m.free \in Seq(Slots)
  BY DEF MarketOK, Markets
<1>2. /\ x.kind \in Kinds /\ x.idx \in Slots /\ x.signer \in Wallets /\ x.key \in Keys
      /\ x.authority \in Authority /\ x.config \in Configs /\ x.hyperp \in BOOLEAN
  BY DEF Ixs
<1>3. n.stage \in {"none", "blank", "live", "resolved", "closed"}
  BY <1>1 DEF Effect, Markets
<1>4. n.holder \in [Authority -> Keys]
  <2>1. LaunchHolders(x) \in [Authority -> Keys]
    BY <1>2, Basics DEF LaunchHolders
  <2>2. [m.holder EXCEPT ![x.authority] = x.key] \in [Authority -> Keys]
    BY <1>1, <1>2 DEF Markets
  <2> QED BY <1>1, <2>1, <2>2 DEF Effect, Markets
<1>5. n.config \in Configs
  BY <1>1, <1>2 DEF Effect, Markets
<1>6. n.fund \in 0 .. MaxFund
  BY <1>1, Basics DEF Effect, Markets, Bounded
<1>7. /\ n.account \in [Slots -> Accounts] /\ n.free \in Seq(Slots)
      /\ ToSet(n.free) = Slots \ Used(n) /\ IsInjective(n.free)
      /\ \A i \in Slots : n.account[i].owner = ZERO => n.account[i] = NoAccount
  <2>1. CASE x.kind \notin Opens \cup Moves
    <3>1. n.account = m.account /\ n.free = m.free
      BY <2>1 DEF Effect
    <3> QED BY <3>1, <1>1 DEF Used
  <2>2. CASE x.kind \in Opens
    <3> DEFINE h == Head(m.free)
    <3>1. m.free # <<>> /\ n.free = Tail(m.free)
          /\ n.account = [m.account EXCEPT ![h] = Newcomer(x)]
      BY <2>2 DEF Effect, Ready, Opens
    <3>2. /\ h \in Slots /\ h \in ToSet(m.free) /\ Tail(m.free) \in Seq(Slots)
          /\ IsInjective(Tail(m.free)) /\ ToSet(Tail(m.free)) = ToSet(m.free) \ {h}
      BY <1>1, <3>1, Popped
    <3>3. /\ Newcomer(x) \in Accounts /\ Newcomer(x) # NoAccount
          /\ Newcomer(x).owner # ZERO
      BY <1>2, Basics DEF Newcomer, Accounts, NoAccount, Wallets, Keys
    <3> HIDE DEF h
    <3>4. n.account \in [Slots -> Accounts]
      BY <1>1, <3>1, <3>3
    <3>5. n.account[h] = Newcomer(x) /\ \A i \in Slots \ {h} : n.account[i] = m.account[i]
      BY <1>1, <3>1, <3>2
    <3>6. Used(n) = Used(m) \cup {h}
      BY <3>2, <3>3, <3>5 DEF Used
    <3>7. ToSet(n.free) = Slots \ Used(n)
      BY <3>1, <3>2, <3>6, <1>1
    <3>8. \A i \in Slots : n.account[i].owner = ZERO => n.account[i] = NoAccount
      BY <1>1, <3>3, <3>5
    <3> QED BY <3>1, <3>2, <3>4, <3>7, <3>8
  <2>3. CASE x.kind \in {"DepositCollateral", "WithdrawCollateral"}
    <3> DEFINE a == m.account[x.idx]
               b == n.account[x.idx]
    <3>1. a \in Accounts /\ a.owner = x.signer /\ a.owner # ZERO
      BY <2>3, <1>1, <1>2, Basics DEF Ready, Wallets
    <3> DEFINE k == IF x.kind = "DepositCollateral" THEN a.capital + 1 ELSE a.capital - 1
    <3>2. k \in Int /\ k >= 0 /\ n.free = m.free
      <4>1. a.capital \in 0 .. MaxFund
        BY <3>1 DEF Accounts
      <4>2. x.kind = "WithdrawCollateral" => a.capital > 0
        BY DEF Ready
      <4>3. n.free = m.free
        BY <2>3 DEF Effect
      <4> HIDE DEF a
      <4> QED BY <2>3, <4>1, <4>2, <4>3, Basics
    <3>3. n.account = [m.account EXCEPT ![x.idx].capital = k]
      BY <2>3 DEF Effect
    <3> HIDE DEF k
    <3>4. b = [a EXCEPT !.capital = k] /\ \A i \in Slots \ {x.idx} : n.account[i] = m.account[i]
      BY <3>3, <1>1, <1>2
    <3>5. b.capital = k /\ b.owner = a.owner /\ k <= MaxFund
      BY <3>1, <3>4, <1>2 DEF Accounts, Bounded
    <3>6. b \in Accounts
      BY <3>1, <3>2, <3>4, <3>5, Basics DEF Accounts
    <3>7. n.account = [m.account EXCEPT ![x.idx] = b]
      BY <3>3, <3>4, <1>1
    <3> HIDE DEF a, b
    <3>8. n.account \in [Slots -> Accounts]
      BY <3>6, <3>7, <1>1
    <3>9. Used(n) = Used(m)
      BY <3>1, <3>4, <3>5 DEF Used, NoAccount, a, b
    <3> QED BY <1>1, <3>1, <3>2, <3>4, <3>5, <3>8, <3>9 DEF a, b
  <2>4. CASE x.kind = "CloseAccount"
    <3>1. /\ n.account = [m.account EXCEPT ![x.idx] = NoAccount]
          /\ n.free = <<x.idx>> \o m.free
      BY <2>4 DEF Effect
    <3>2. m.account[x.idx].owner # ZERO
      BY <2>4, <1>2, Basics DEF Ready, Wallets
    <3>3. x.idx \in Used(m) /\ x.idx \notin ToSet(m.free)
      BY <3>2, <1>1, <1>2 DEF Used, NoAccount
    <3>4. /\ n.free \in Seq(Slots) /\ IsInjective(n.free)
          /\ ToSet(n.free) = ToSet(m.free) \cup {x.idx}
      BY <3>1, <3>3, <1>1, <1>2, Pushed
    <3>5. /\ n.account \in [Slots -> Accounts] /\ n.account[x.idx] = NoAccount
          /\ \A i \in Slots \ {x.idx} : n.account[i] = m.account[i]
      BY <3>1, <1>1, <1>2, Basics
    <3>6. Used(n) = Used(m) \ {x.idx}
      BY <3>5, <1>2 DEF Used
    <3>7. ToSet(n.free) = Slots \ Used(n)
      BY <3>4, <3>6, <1>1, <1>2 DEF Used
    <3> QED BY <3>4, <3>5, <3>7, <1>1
  <2> QED BY <2>1, <2>2, <2>3, <2>4 DEF Opens, Moves
<1>8. n.stage \in {"none", "blank"} => n = [NoMarket EXCEPT !.stage = n.stage]
  <2>1. CASE x.kind = "CreateAccount"
    <3>1. n = [m EXCEPT !.stage = "blank"] /\ m.stage = "none"
          /\ m = [NoMarket EXCEPT !.stage = "none"]
      BY <2>1 DEF Effect, Ready, MarketOK
    <3> QED BY <3>1 DEF NoMarket
  <2>2. CASE x.kind # "CreateAccount"
    BY <2>2 DEF Effect, Ready
  <2> QED BY <2>1, <2>2
<1>9. n \in Markets
  <2>1. n.hyperp \in BOOLEAN /\ n.priced \in BOOLEAN /\ n.fresh \in BOOLEAN
    BY DEF Effect
  <2>2. n = [stage |-> n.stage, hyperp |-> n.hyperp, holder |-> n.holder, config |-> n.config,
             fund |-> n.fund, account |-> n.account, free |-> n.free, priced |-> n.priced,
             fresh |-> n.fresh]
    BY DEF Effect
  <2> QED BY <2>1, <2>2, <1>3, <1>4, <1>5, <1>6, <1>7 DEF Markets
<1> QED BY <1>7, <1>8, <1>9 DEF MarketOK

-----------------------------------------------------------------------------
(***************************************************************************)
(* A market that a script launched, under scripts and strangers.           *)
(***************************************************************************)
Steady(m, n) ==
  /\ \A a \in Authority : m.holder[a] = ZERO => n.holder[a] = ZERO
  /\ m.fund > 0 => n.fund > 0
  /\ m.config.cap = CAP_MULT => n.config.cap = CAP_MULT
  /\ Ours(m) => Ours(n)

(* Who changes it, and what a stranger cannot.                             *)
LEMMA CleanAfter ==
  ASSUME NEW m, MarketOK(m), Clean(m), NEW x, IxOK(x), Ready(m, x),
         x.signer = STRANGER \/ ScriptIx(x),
         NEW n, Effect(m, x, n) \/ Closed(m, x, n)
  PROVE  /\ Clean(n) /\ Steady(m, n) /\ Effect(m, x, n)
         /\ n.holder["ADMIN"] = ZERO /\ m.holder["ADMIN"] # ZERO =>
              ScriptIx(x) /\ x.kind = "UpdateAuthority" /\ x.authority = "ADMIN"
         /\ n.stage \notin {"none", "blank"}
<1>1. /\ x \in Ixs /\ x.idx \in Slots /\ x.signer \in Wallets /\ x.authority \in Authority
      /\ m.account \in [Slots -> Accounts] /\ m.holder \in [Authority -> Keys]
      /\ m.fund \in 0 .. MaxFund /\ m.free \in Seq(Slots) /\ IsInjective(m.free)
      /\ ToSet(m.free) = Slots \ Used(m)
  BY DEF IxOK, Ixs, MarketOK, Markets
<1>2. /\ \A a \in Authority : m.holder[a] \in {ZERO, PAYER}
      /\ m.holder["HYPERP_MARK"] = ZERO /\ m.stage \in {"live", "resolved"}
      /\ \A i \in Slots : m.account[i].owner = PAYER => m.account[i].kind = "lp"
  BY DEF Clean
<1>3. \A a \in Authority : m.holder[a] # STRANGER
  BY <1>2, Basics
<1>4. x.kind \notin {"CreateAccount", "InitMarket"}
  BY <1>2 DEF Ready
<1>5. /\ x.kind \in {"UpdateConfig", "ResolveMarket", "CloseSlab", "UpdateAuthority",
                     "WithdrawInsurance"} => ScriptIx(x)
      /\ x.kind \notin {"ResolveMarket", "CloseSlab", "WithdrawInsurance"}
  <2>1. {"ADMIN", "INSURANCE"} \subseteq Authority
    BY DEF Authority
  <2>2. CASE ScriptIx(x)
    BY <2>2 DEF ScriptIx, ScriptKinds
  <2>3. CASE x.signer = STRANGER
    BY <2>1, <2>3, <1>1, <1>3 DEF Ready
  <2> QED BY <2>2, <2>3
<1>6. Effect(m, x, n)
  BY <1>5 DEF Closed
<1>7. /\ x.kind \in Opens \cup Moves => n.holder = m.holder
      /\ x.kind \in {"KeeperCrank", "TopUpInsurance", "UpdateConfig"} => n.holder = m.holder
  BY <1>6 DEF Effect, Opens, Moves
<1>8. /\ \A a \in Authority : n.holder[a] = IF x.kind = "UpdateAuthority" /\ a = x.authority
                                            THEN x.key ELSE m.holder[a]
      /\ x.kind = "UpdateAuthority" => x.key = ZERO
  BY <1>1, <1>4, <1>5, <1>6 DEF Effect, ScriptIx
<1>9. /\ \A a \in Authority : n.holder[a] \in {ZERO, PAYER}
      /\ n.holder["HYPERP_MARK"] = ZERO
      /\ \A a \in Authority : m.holder[a] = ZERO => n.holder[a] = ZERO
  BY <1>2, <1>8 DEF Authority
<1>10. n.stage \in {"live", "resolved"}
  BY <1>2, <1>4, <1>6 DEF Effect
<1>11. /\ m.fund > 0 => n.fund > 0
       /\ m.config.cap = CAP_MULT => n.config.cap = CAP_MULT
  <2>1. m.fund > 0 => n.fund > 0
    BY <1>1, <1>5, <1>6, Basics DEF Effect
  <2>2. m.config.cap = CAP_MULT => n.config.cap = CAP_MULT
    BY <1>5, <1>6 DEF Effect, ScriptIx
  <2> QED BY <2>1, <2>2
<1>12. /\ \A i \in Slots : n.account[i].owner = PAYER => n.account[i].kind = "lp"
       /\ Ours(m) => Ours(n)
  <2>1. CASE x.kind \notin Opens \cup Moves
    BY <2>1, <1>2, <1>6 DEF Effect, Ours
  <2>2. CASE x.kind \in Opens
    <3> DEFINE h == Head(m.free)
    <3>1. m.free # <<>> /\ n.account = [m.account EXCEPT ![h] = Newcomer(x)]
      BY <2>2, <1>6 DEF Effect, Ready, Opens
    <3>2. h \in Slots /\ h \notin Used(m)
      BY <3>1, <1>1, Popped
    <3> HIDE DEF h
    <3>3. n.account[h] = Newcomer(x) /\ \A i \in Slots \ {h} : n.account[i] = m.account[i]
      BY <3>1, <3>2, <1>1
    <3>4. Newcomer(x).owner = PAYER => Newcomer(x).kind = "lp"
      BY <2>2, Basics DEF Newcomer, ScriptIx, ScriptKinds, Opens
    <3>5. m.account[h] = NoAccount
      BY <3>2 DEF Used
    <3>6. Ours(m) => h # 1
      BY <3>5 DEF Ours, NoAccount
    <3> QED BY <3>3, <3>4, <3>6, <1>2, Basics DEF Ours
  <2>3. CASE x.kind \in Moves
    <3>1. \A i \in Slots \ {x.idx} : n.account[i] = m.account[i]
      BY <2>3, <1>1, <1>6 DEF Effect, Moves
    <3>2. CASE x.signer = STRANGER
      <4>1. m.account[x.idx].owner = STRANGER
        BY <2>3, <3>2 DEF Ready, Moves
      <4>2. Ours(m) => x.idx # 1
        BY <4>1, Basics DEF Ours
      <4>3. n.account[x.idx].owner # PAYER
        <5>1. CASE x.kind = "DepositCollateral"
          <6>1. n.account[x.idx].owner = m.account[x.idx].owner
            BY <5>1, <1>1, <1>6 DEF Effect, Accounts
          <6> QED BY <4>1, <6>1, Basics
        <5>2. CASE x.kind = "WithdrawCollateral"
          <6>1. n.account[x.idx].owner = m.account[x.idx].owner
            BY <5>2, <1>1, <1>6 DEF Effect, Accounts
          <6> QED BY <4>1, <6>1, Basics
        <5>3. CASE x.kind = "CloseAccount"
          BY <5>3, <1>1, <1>6, Basics DEF Effect, NoAccount
        <5> QED BY <2>3, <5>1, <5>2, <5>3 DEF Moves
      <4> QED BY <3>1, <4>2, <4>3, <1>2, Basics DEF Ours
    <3>3. CASE ScriptIx(x)
      <4>1. x.kind = "DepositCollateral"
        BY <2>3, <3>3 DEF ScriptIx, ScriptKinds, Moves
      <4>2. /\ n.account[x.idx].owner = m.account[x.idx].owner
            /\ n.account[x.idx].kind = m.account[x.idx].kind
            /\ n.account[x.idx].capital = m.account[x.idx].capital + 1
        BY <4>1, <1>1, <1>6 DEF Effect, Accounts
      <4>3. m.account[x.idx].capital \in Nat
        BY <1>1, Basics DEF Accounts
      <4> QED BY <3>1, <4>2, <4>3, <1>2, Basics DEF Ours
    <3> QED BY <3>2, <3>3
  <2> QED BY <2>1, <2>2, <2>3
<1>13. n.holder["ADMIN"] = ZERO /\ m.holder["ADMIN"] # ZERO =>
         ScriptIx(x) /\ x.kind = "UpdateAuthority" /\ x.authority = "ADMIN"
  BY <1>5, <1>8 DEF Authority
<1>14. Clean(n)
  BY <1>9, <1>10, <1>12 DEF Clean
<1>15. Steady(m, n)
  BY <1>9, <1>11, <1>12 DEF Steady
<1> QED BY <1>6, <1>10, <1>13, <1>14, <1>15

-----------------------------------------------------------------------------
(***************************************************************************)
(* What is known of a slab stays known.                                    *)
(***************************************************************************)
Keeps(s) ==
  /\ s \in by_hand => s \in by_hand'
  /\ launcher[s] \in Files =>
       /\ launcher'[s] = launcher[s]
       /\ s \notin by_hand' => Steady(market[s], market'[s])

LEMMA WholeStays ==
  ASSUME NEW s, Keeps(s), launcher[s] \in Files, s \notin by_hand'
  PROVE  /\ Whole(s) => Whole(s)'
         /\ \A as \in SUBSET Authority : Burned(s, as) => Burned(s, as)'
  BY DEF Keeps, Steady, Whole, Burned

LEMMA FileStays ==
  ASSUME Typed, NEW f \in Files, manifest'[f] = manifest[f], FileHolds(f),
         \A s \in Slabs : Keeps(s)
  PROVE  FileHolds(f)'
<1> SUFFICES ASSUME manifest[f].slab # NONE PROVE FileHolds(f)'
  BY DEF FileHolds
<1>1. \E s \in Slabs, b \in SUBSET Authority : s = manifest[f].slab /\ b = manifest[f].burned
  BY DEF Typed, Manifests, Burnable, Authority
<1>2. PICK s \in Slabs, b \in SUBSET Authority : s = manifest[f].slab /\ b = manifest[f].burned
  BY <1>1
<1>3. /\ launcher[s] = f /\ (manifest[f].lp => f \in WithLp)
      /\ s \notin by_hand => Whole(s) /\ Burned(s, b)
  BY <1>2 DEF FileHolds
<1>4. launcher'[s] = f /\ (s \in by_hand => s \in by_hand')
  BY <1>3 DEF Keeps
<1>5. s \notin by_hand' => Whole(s)' /\ Burned(s, b)'
  BY <1>3, <1>4, WholeStays
<1> QED BY <1>2, <1>3, <1>4, <1>5 DEF FileHolds

LEMMA WireStays ==
  ASSUME Typed, NEW x, IxOK(x), ScriptIx(x) \/ CliIx(x), WireHolds(x), Keeps(x.slab),
         IsLate(x) => seeds'[x.slab] = seeds[x.slab]
  PROVE  WireHolds(x)'
<1>1. /\ x.slab \in Slabs
      /\ ScriptIx(x) /\ x.kind = "UpdateAuthority" => Earlier(x.authority) \subseteq Authority
  BY DEF IxOK, Ixs, Earlier, ScriptIx, Burnable, Authority
<1>2. CASE CliIx(x)
  BY <1>2 DEF CliIx, WireHolds, IsLate, Files
<1>3. CASE ScriptIx(x)
  <2>1. /\ IsLate(x) => launcher'[x.slab] = x.sender
        /\ x.sender = "burn" => launcher'[x.slab] = "bounty2"
    BY DEF WireHolds, IsLate, Keeps, Files
  <2>2. ASSUME x.kind = "UpdateAuthority", x.slab \notin by_hand'
        PROVE  Whole(x.slab)' /\ Burned(x.slab, Earlier(x.authority))'
    <3>1. x.slab \notin by_hand /\ launcher[x.slab] \in Files
      BY <1>3, <2>2 DEF WireHolds, IsLate, Keeps, ScriptIx, Launchers, Files
    <3>2. Whole(x.slab) /\ Burned(x.slab, Earlier(x.authority))
      BY <2>2, <3>1 DEF WireHolds
    <3>3. Earlier(x.authority) \in SUBSET Authority
      BY <1>1, <1>3, <2>2
    <3> QED BY <2>2, <3>1, <3>2, <3>3, WholeStays
  <2> QED BY <2>1, <2>2 DEF WireHolds
<1> QED BY <1>2, <1>3

LEMMA RunStays ==
  ASSUME Typed, NEW t \in Terminals, proc'[t] = proc[t], RunHolds(proc[t]),
         proc[t] # Ended => Keeps(proc[t].slab),
         IsOpen(proc[t]) => seeds'[proc[t].slab] = seeds[proc[t].slab]
  PROVE  RunHolds(proc[t])'
<1> DEFINE p == proc[t]
<1>1. CASE p = Ended
  BY <1>1 DEF RunHolds, IsOpen, Ended, Files, NONE
<1>2. CASE RunOK(p)
  <2>1. p # Ended /\ p.slab \in Slabs /\ p.script \in Launchers /\ p.live \subseteq Burnable
    BY <1>2 DEF RunOK, Ended, NONE, Launchers, Files, Typed, Procs
  <2>2. /\ IsOpen(p) => launcher'[p.slab] = p.script
        /\ p.script = "burn" => launcher'[p.slab] = "bounty2"
    BY <2>1 DEF RunHolds, IsOpen, Keeps, Files
  <2>3. ASSUME IsOpen(p) \/ p.script = "burn", p.slab \notin by_hand'
        PROVE  Reached(p)'
    <3>1. p.slab \notin by_hand /\ launcher[p.slab] \in Files /\ Reached(p)
      BY <2>1, <2>3 DEF RunHolds, IsOpen, Keeps, Files
    <3>2. Steady(market[p.slab], market'[p.slab])
      BY <2>1, <2>3, <3>1 DEF Keeps
    <3>3. Whole(p.slab) => Whole(p.slab)'
      BY <2>1, <2>3, <3>1, WholeStays
    <3>4. Burned(p.slab, Burnable \ p.live) => Burned(p.slab, Burnable \ p.live)'
      BY <2>1, <2>3, <3>1, WholeStays DEF Burnable, Authority
    <3>5. Burnable \subseteq Authority
      BY DEF Burnable, Authority
    <3> QED BY <3>1, <3>2, <3>3, <3>4, <3>5 DEF Reached, Steady
  <2> QED BY <2>2, <2>3 DEF RunHolds, IsOpen
<1> QED BY <1>1, <1>2 DEF Typed

-----------------------------------------------------------------------------
(***************************************************************************)
(* What an instruction does to what is known.                              *)
(***************************************************************************)
(* The part of the invariant that is about the chain.                      *)
ChainHolds ==
  /\ market \in [Slabs -> Markets] /\ \A s \in Slabs : MarketOK(market[s])
  /\ seeds \in [Slabs -> 0 .. MaxFund] /\ launcher \in [Slabs -> Files \cup {NONE}]
  /\ by_hand \subseteq Slabs /\ SeededOnce
  /\ \A s \in Slabs : Initialised(s) /\ SlabHolds(s)

LEMMA Untouched ==
  ASSUME NEW s, market'[s] = market[s], seeds'[s] = seeds[s], launcher'[s] = launcher[s],
         s \in by_hand' <=> s \in by_hand, Initialised(s), SlabHolds(s)
  PROVE  Keeps(s) /\ Initialised(s)' /\ SlabHolds(s)'
<1>1. Keeps(s)
  BY DEF Keeps, Steady
<1>2. Initialised(s)'
  BY DEF Initialised
<1>3. SlabHolds(s)'
  BY DEF SlabHolds, Clean, Whole, Burned, Ours
<1> QED BY <1>1, <1>2, <1>3

LEMMA Landing ==
  ASSUME IInv, NEW x, IxOK(x), ScriptIx(x), WireHolds(x), Executes(x), Logged(x),
         by_hand' = by_hand
  PROVE  /\ ChainHolds' /\ \A s \in Slabs : Keeps(s)
         /\ \A s \in Slabs : seeds'[s] # seeds[s] =>
              s = x.slab /\ IsLate(x) /\ x.kind = "TopUpInsurance"
<1> DEFINE m == market[x.slab]
           n == market'[x.slab]
<1>1. PICK s \in Slabs : s = x.slab
  BY DEF IxOK, Ixs
<1>2. /\ Typed /\ SeededOnce /\ Initialised(s) /\ SlabHolds(s)
      /\ \A u \in Slabs : Initialised(u) /\ SlabHolds(u)
  BY DEF IInv
<1>3. /\ x \in Ixs /\ MarketOK(m) /\ Ready(m, x) /\ Bounded(n)
      /\ market' = [market EXCEPT ![s] = n]
      /\ Effect(m, x, n) \/ Closed(m, x, n)
  BY <1>1, <1>2, ExecutedIs
<1>4. Effect(m, x, n)
  BY <1>3 DEF Closed, ScriptIx, ScriptKinds
<1>5. MarketOK(n)
  BY <1>3, <1>4, MarketAfter
<1>6. /\ market' \in [Slabs -> Markets] /\ \A u \in Slabs : MarketOK(market'[u])
      /\ \A u \in Slabs \ {s} : market'[u] = market[u]
  BY <1>1, <1>2, <1>3, <1>5 DEF Typed, MarketOK
<1>7. /\ seeds' = IF x.kind = "TopUpInsurance" /\ x.sender \in Files
                  THEN [seeds EXCEPT ![s] = @ + 1] ELSE seeds
      /\ launcher' = IF x.kind = "InitMarket" THEN [launcher EXCEPT ![s] = x.sender]
                     ELSE launcher
  BY <1>1 DEF Logged
<1>8. ASSUME x.kind = "TopUpInsurance", x.sender \in Files
      PROVE  IsLate(x) /\ seeds[s] = 0 /\ launcher[s] \in Files /\ 1 \in 0 .. MaxFund
  <2>1. IsLate(x) /\ seeds[s] = 0 /\ launcher[s] \in Files
    BY <1>1, <1>8 DEF IsLate, WireHolds
  <2>2. n.fund = m.fund + 1 /\ n.fund <= MaxFund /\ m.fund \in Nat
    BY <1>3, <1>4, <1>8, Basics DEF Effect, Bounded, MarketOK, Markets
  <2> QED BY <2>1, <2>2, Basics
<1>9. x.kind = "InitMarket" => x.sender \in Files /\ launcher[s] = NONE
  BY <1>1, <1>2, <1>3 DEF ScriptIx, Launchers, Ready, Initialised
<1>10. /\ seeds' \in [Slabs -> 0 .. MaxFund] /\ SeededOnce'
       /\ \A u \in Slabs : seeds'[u] # seeds[u] =>
            u = s /\ IsLate(x) /\ x.kind = "TopUpInsurance"
  BY <1>2, <1>7, <1>8 DEF Typed, SeededOnce
<1>11. /\ launcher' \in [Slabs -> Files \cup {NONE}]
       /\ \A u \in Slabs \ {s} : launcher'[u] = launcher[u] /\ seeds'[u] = seeds[u]
  BY <1>2, <1>7, <1>9 DEF Typed
<1>12. Initialised(s)'
  <2>1. n.stage \in {"none", "blank"} => launcher'[s] = NONE
    <3>1. n.stage \in {"none", "blank"} => x.kind = "CreateAccount" /\ m.stage = "none"
      BY <1>3, <1>4 DEF Effect, Ready
    <3> QED BY <3>1, <1>1, <1>2, <1>7 DEF Initialised
  <2>2. launcher'[s] = NONE => seeds'[s] = 0
    BY <1>2, <1>7, <1>8, <1>9, Basics DEF Initialised, Typed
  <2> QED BY <1>1, <2>1, <2>2 DEF Initialised
<1>13. Keeps(s) /\ SlabHolds(s)'
  <2>1. CASE launcher[s] \in Files /\ s \notin by_hand
    <3>1. launcher'[s] = launcher[s]
      BY <2>1, <1>7, <1>9, Basics
    <3>2. Clean(m) /\ (m.holder["ADMIN"] = ZERO => Whole(s) /\ Burned(s, Authority))
      BY <2>1, <1>1, <1>2 DEF SlabHolds
    <3>3. /\ Clean(n) /\ Steady(m, n)
          /\ n.holder["ADMIN"] = ZERO /\ m.holder["ADMIN"] # ZERO =>
               x.kind = "UpdateAuthority" /\ x.authority = "ADMIN"
      BY <3>2, <1>3, CleanAfter
    <3>4. Keeps(s)
      BY <3>1, <3>3, <1>1 DEF Keeps
    <3>5. ASSUME n.holder["ADMIN"] = ZERO PROVE Whole(s)' /\ Burned(s, Authority)'
      <4>1. CASE m.holder["ADMIN"] = ZERO
        BY <4>1, <3>2, <3>4, <2>1, WholeStays
      <4>2. CASE m.holder["ADMIN"] # ZERO
        <5>1. x.kind = "UpdateAuthority" /\ x.authority = "ADMIN"
          BY <3>3, <3>5, <4>2
        <5>2. Whole(s) /\ Burned(s, {"INSURANCE_OPERATOR", "INSURANCE"})
          BY <5>1, <2>1, <1>1 DEF WireHolds, Earlier
        <5>3. Whole(s)'
          BY <5>2, <3>4, <2>1, WholeStays
        <5>4. n.holder["INSURANCE_OPERATOR"] = ZERO /\ n.holder["INSURANCE"] = ZERO
          BY <5>2, <3>3, <1>1 DEF Burned, Steady, Authority
        <5>5. n.holder["HYPERP_MARK"] = ZERO
          BY <3>3 DEF Clean
        <5> QED BY <1>1, <3>5, <5>3, <5>4, <5>5 DEF Burned, Authority
      <4> QED BY <4>1, <4>2
    <3> QED BY <3>3, <3>4, <3>5, <1>1 DEF SlabHolds
  <2>2. CASE launcher[s] \in Files /\ s \in by_hand
    <3>1. launcher'[s] = launcher[s]
      BY <2>2, <1>7, <1>9, Basics
    <3> QED BY <2>2, <3>1 DEF Keeps, SlabHolds
  <2>3. CASE launcher[s] \notin Files
    <3>1. Keeps(s)
      BY <2>3 DEF Keeps
    <3>2. ASSUME launcher'[s] \in Files PROVE Clean(n) /\ n.holder["ADMIN"] # ZERO
      <4>1. x.kind = "InitMarket"
        BY <2>3, <3>2, <1>7
      <4>2. m = [NoMarket EXCEPT !.stage = m.stage]
        BY <4>1, <1>3 DEF Ready, MarketOK
      <4>3. \A i \in Slots : m.account[i] = NoAccount
        <5>1. m.account = NoMarket.account
          BY <4>2 DEF NoMarket
        <5>2. NoMarket.account = [i \in Slots |-> NoAccount]
          BY DEF NoMarket
        <5> QED BY <5>1, <5>2
      <4>4. n.stage = "live" /\ n.holder = LaunchHolders(x) /\ n.account = m.account
        BY <4>1, <1>4 DEF Effect, Opens, Moves
      <4>5. ~ x.hyperp /\ x.signer = PAYER
        BY DEF ScriptIx
      <4>6. /\ \A a \in Authority : n.holder[a] = IF a = "HYPERP_MARK" THEN ZERO ELSE PAYER
            /\ "ADMIN" \in Authority /\ "HYPERP_MARK" \in Authority
        BY <4>4, <4>5 DEF LaunchHolders, Authority
      <4> QED BY <4>3, <4>4, <4>6, Basics DEF Clean, NoAccount
    <3> QED BY <1>1, <3>1, <3>2 DEF SlabHolds
  <2> QED BY <2>1, <2>2, <2>3
<1>14. ASSUME NEW u \in Slabs \ {s} PROVE Keeps(u) /\ Initialised(u)' /\ SlabHolds(u)'
  BY <1>2, <1>6, <1>11, Untouched
<1>15. \A u \in Slabs : Keeps(u) /\ Initialised(u)' /\ SlabHolds(u)'
  BY <1>12, <1>13, <1>14
<1>16. ChainHolds'
  BY <1>2, <1>6, <1>10, <1>11, <1>15 DEF ChainHolds, Typed
<1> QED BY <1>1, <1>10, <1>15, <1>16

(* What the commands send.                                                 *)
Plain(x, w, s) ==
  x \in Ixs /\ x.prefixed = FALSE /\ x.signer = w /\ x.slab = s /\ x.sender = "cli"

LEMMA IxIs ==
  ASSUME NEW kind \in Kinds, NEW w \in Wallets, NEW s \in Slabs
  PROVE  Plain(Ix(kind, s, w), w, s) /\ Ix(kind, s, w).kind = kind
<1>1. /\ {w} \subseteq Wallets /\ "cli" \in Launchers \cup {"cli"} /\ "ADMIN" \in Authority
      /\ "feed" \in {"feed", "slab"} /\ 1 \in Slots /\ ZERO \in Keys
      /\ NoMarket.config \in Configs
  BY Basics DEF Authority
<1> QED BY <1>1 DEF Ix, Ixs, Plain

LEMMA Changed ==
  ASSUME NEW w, NEW s, NEW x, Plain(x, w, s), NEW y,
         \/ y = x
         \/ \E h \in BOOLEAN : y = [x EXCEPT !.hyperp = h]
         \/ \E i \in Slots : y = [x EXCEPT !.idx = i]
         \/ \E i \in Slots, o \in {"feed", "slab"} : y = [x EXCEPT !.idx = i, !.oracle = o]
         \/ \E k \in Keys : y = [x EXCEPT !.key = k]
         \/ \E k \in Keys : y = [x EXCEPT !.authority = "HYPERP_MARK", !.key = k]
         \/ \E o \in {"feed", "slab"}, c \in Configs : y = [x EXCEPT !.oracle = o, !.config = c]
  PROVE  Plain(y, w, s)
<1>1. "HYPERP_MARK" \in Authority
  BY DEF Authority
<1>2. CASE \E h \in BOOLEAN : y = [x EXCEPT !.hyperp = h]
  BY <1>2 DEF Plain, Ixs
<1>3. CASE \E i \in Slots : y = [x EXCEPT !.idx = i]
  BY <1>3 DEF Plain, Ixs
<1>4. CASE \E i \in Slots, o \in {"feed", "slab"} : y = [x EXCEPT !.idx = i, !.oracle = o]
  BY <1>4 DEF Plain, Ixs
<1>5. CASE \E k \in Keys : y = [x EXCEPT !.key = k]
  BY <1>5 DEF Plain, Ixs
<1>6. CASE \E k \in Keys : y = [x EXCEPT !.authority = "HYPERP_MARK", !.key = k]
  BY <1>1, <1>6 DEF Plain, Ixs
<1>7. CASE \E o \in {"feed", "slab"}, c \in Configs : y = [x EXCEPT !.oracle = o, !.config = c]
  BY <1>7 DEF Plain, Ixs
<1> QED BY <1>2, <1>3, <1>4, <1>5, <1>6, <1>7

LEMMA SendsAre ==
  ASSUME NEW c \in CommandNames \ {"update-config"}, NEW w \in Wallets, NEW s \in Slabs,
         NEW x \in Sends(c, w, s)
  PROVE  Plain(x, w, s)
<1>1. Oracles(s) \subseteq {"feed", "slab"}
  BY DEF Oracles
<1>2. {"InitMarket", "InitUser", "InitLP", "DepositCollateral", "WithdrawCollateral",
       "CloseAccount", "TopUpInsurance", "CloseSlab", "WithdrawInsurance",
       "PushOraclePrice", "ResolveMarket", "UpdateAuthority"} \subseteq Kinds
  BY DEF Kinds, ScriptKinds
<1>3. CASE c = "init-market"
  <2>1. \E h \in BOOLEAN : x = [Ix("InitMarket", s, w) EXCEPT !.hyperp = h]
    BY <1>3 DEF Sends, init_market
  <2>2. Plain(Ix("InitMarket", s, w), w, s)
    BY <1>2, IxIs
  <2> QED BY <2>1, <2>2, Changed
<1>4. CASE c = "init-user"
  <2>1. x = Ix("InitUser", s, w)
    BY <1>4 DEF Sends, init_user
  <2>2. Plain(Ix("InitUser", s, w), w, s)
    BY <1>2, IxIs
  <2> QED BY <2>1, <2>2, Changed
<1>5. CASE c = "init-lp"
  <2>1. x = Ix("InitLP", s, w)
    BY <1>5 DEF Sends, init_lp
  <2>2. Plain(Ix("InitLP", s, w), w, s)
    BY <1>2, IxIs
  <2> QED BY <2>1, <2>2, Changed
<1>6. CASE c = "deposit"
  <2>1. \E i \in Slots : x = [Ix("DepositCollateral", s, w) EXCEPT !.idx = i]
    BY <1>6 DEF Sends, deposit
  <2>2. Plain(Ix("DepositCollateral", s, w), w, s)
    BY <1>2, IxIs
  <2> QED BY <2>1, <2>2, Changed
<1>7. CASE c = "withdraw"
  <2> DEFINE e(i, o) == [Ix("WithdrawCollateral", s, w) EXCEPT !.idx = i, !.oracle = o]
             all     == {e(i, o) : i \in Slots, o \in Oracles(s)}
  <2>0. x \in withdraw(w, s)
    BY <1>7 DEF Sends
  <2>1. \E i \in Slots, o \in {"feed", "slab"} : x = e(i, o)
    <3>1. withdraw(w, s) = {y \in all : Fetched(s)}
      BY DEF withdraw
    <3>2. x \in all
      <4> HIDE DEF all
      <4> QED BY <2>0, <3>1
    <3> HIDE DEF e
    <3> QED BY <3>2, <1>1
  <2>2. Plain(Ix("WithdrawCollateral", s, w), w, s)
    BY <1>2, IxIs
  <2> QED BY <2>1, <2>2, Changed
<1>8. CASE c = "close-account"
  <2> DEFINE e(i, o) == [Ix("CloseAccount", s, w) EXCEPT !.idx = i, !.oracle = o]
             all     == {e(i, o) : i \in Slots, o \in Oracles(s)}
  <2>0. x \in close_account(w, s)
    BY <1>8 DEF Sends
  <2>1. \E i \in Slots, o \in {"feed", "slab"} : x = e(i, o)
    <3>1. close_account(w, s) = {y \in all : Fetched(s)}
      BY DEF close_account
    <3>2. x \in all
      <4> HIDE DEF all
      <4> QED BY <2>0, <3>1
    <3> HIDE DEF e
    <3> QED BY <3>2, <1>1
  <2>2. Plain(Ix("CloseAccount", s, w), w, s)
    BY <1>2, IxIs
  <2> QED BY <2>1, <2>2, Changed
<1>9. CASE c = "topup-insurance"
  <2>1. x = Ix("TopUpInsurance", s, w)
    BY <1>9 DEF Sends, topup_insurance
  <2>2. Plain(Ix("TopUpInsurance", s, w), w, s)
    BY <1>2, IxIs
  <2> QED BY <2>1, <2>2, Changed
<1>10. CASE c = "close-slab"
  <2>1. x = Ix("CloseSlab", s, w)
    BY <1>10 DEF Sends, close_slab
  <2>2. Plain(Ix("CloseSlab", s, w), w, s)
    BY <1>2, IxIs
  <2> QED BY <2>1, <2>2, Changed
<1>11. CASE c = "withdraw-insurance"
  <2>1. x = Ix("WithdrawInsurance", s, w)
    BY <1>11 DEF Sends, withdraw_insurance
  <2>2. Plain(Ix("WithdrawInsurance", s, w), w, s)
    BY <1>2, IxIs
  <2> QED BY <2>1, <2>2, Changed
<1>12. CASE c = "push-oracle-price"
  <2>1. x = Ix("PushOraclePrice", s, w)
    BY <1>12 DEF Sends, push_oracle_price
  <2>2. Plain(Ix("PushOraclePrice", s, w), w, s)
    BY <1>2, IxIs
  <2> QED BY <2>1, <2>2, Changed
<1>13. CASE c = "resolve-market"
  <2>1. x = Ix("ResolveMarket", s, w)
    BY <1>13 DEF Sends, resolve_market
  <2>2. Plain(Ix("ResolveMarket", s, w), w, s)
    BY <1>2, IxIs
  <2> QED BY <2>1, <2>2, Changed
<1>14. CASE c = "update-admin"
  <2>1. \E k \in Keys : x = [Ix("UpdateAuthority", s, w) EXCEPT !.key = k]
    BY <1>14 DEF Sends, update_admin
  <2>2. Plain(Ix("UpdateAuthority", s, w), w, s)
    BY <1>2, IxIs
  <2> QED BY <2>1, <2>2, Changed
<1>15. CASE c = "set-oracle-authority"
  <2>1. \E k \in Keys : x = [Ix("UpdateAuthority", s, w) EXCEPT !.authority = "HYPERP_MARK", !.key = k]
    BY <1>15 DEF Sends, set_oracle_authority
  <2>2. Plain(Ix("UpdateAuthority", s, w), w, s)
    BY <1>2, IxIs
  <2> QED BY <2>1, <2>2, Changed
<1> QED BY <1>3, <1>4, <1>5, <1>6, <1>7, <1>8, <1>9, <1>10,
       <1>11, <1>12, <1>13, <1>14, <1>15
       DEF CommandNames

(* A command, or an update-config that lands: the operator marks the slab  *)
(* as touched, and a stranger has no say in a market that a script launched. *)
LEMMA ByHand ==
  ASSUME IInv, NEW x, IxOK(x), Executes(x), by_hand' = Touched(x.signer, x.slab),
         seeds' = seeds, launcher' = launcher
  PROVE  ChainHolds' /\ \A s \in Slabs : Keeps(s)
<1> DEFINE m == market[x.slab]
           n == market'[x.slab]
<1>1. PICK s \in Slabs : s = x.slab
  BY DEF IxOK, Ixs
<1>2. /\ Typed /\ SeededOnce /\ Initialised(s) /\ SlabHolds(s)
      /\ \A u \in Slabs : Initialised(u) /\ SlabHolds(u)
  BY DEF IInv
<1>3. /\ x \in Ixs /\ MarketOK(m) /\ Ready(m, x) /\ Bounded(n)
      /\ market' = [market EXCEPT ![s] = n]
      /\ Effect(m, x, n) \/ Closed(m, x, n)
  BY <1>1, <1>2, ExecutedIs
<1>4. MarketOK(n)
  BY <1>3, MarketAfter, Unused DEF Closed
<1>5. /\ market' \in [Slabs -> Markets] /\ \A u \in Slabs : MarketOK(market'[u])
      /\ \A u \in Slabs \ {s} : market'[u] = market[u]
  <2>1. n \in Markets /\ market \in [Slabs -> Markets] /\ \A u \in Slabs : MarketOK(market[u])
    BY <1>2, <1>4 DEF Typed, MarketOK
  <2> HIDE DEF n
  <2> QED BY <1>3, <1>4, <2>1
<1>6. /\ by_hand' \subseteq Slabs
      /\ s \in by_hand => s \in by_hand'
      /\ \A u \in Slabs \ {s} : u \in by_hand' <=> u \in by_hand
      /\ s \notin by_hand' => s \notin by_hand /\ x.signer = STRANGER
  <2>1. by_hand' = IF x.signer = PAYER THEN by_hand \cup {s} ELSE by_hand
    BY <1>1 DEF Touched
  <2>2. x.signer \in {PAYER, STRANGER} /\ by_hand \subseteq Slabs
    BY <1>2, <1>3 DEF Typed, Ixs, Wallets
  <2> QED BY <2>1, <2>2
<1>7. Initialised(s)'
  <2>1. n.stage \in {"none", "blank"} => m.stage \in {"none", "blank"}
    BY <1>3 DEF Effect, Closed, Ready, NoMarket
  <2> QED BY <1>1, <1>2, <2>1 DEF Initialised
<1>8. Keeps(s) /\ SlabHolds(s)'
  <2>1. CASE launcher[s] \in Files /\ s \notin by_hand'
    <3>1. Clean(m) /\ (m.holder["ADMIN"] = ZERO => Whole(s) /\ Burned(s, Authority))
      BY <2>1, <1>1, <1>2, <1>6 DEF SlabHolds
    <3>2. /\ Clean(n) /\ Steady(m, n)
          /\ n.holder["ADMIN"] = ZERO /\ m.holder["ADMIN"] # ZERO => ScriptIx(x)
      BY <3>1, <2>1, <1>3, <1>6, CleanAfter
    <3>3. Keeps(s)
      BY <3>2, <1>1, <1>6 DEF Keeps
    <3>4. ASSUME n.holder["ADMIN"] = ZERO PROVE Whole(s)' /\ Burned(s, Authority)'
      <4>1. m.holder["ADMIN"] = ZERO
        BY <3>2, <3>4, <1>6, <2>1, Basics DEF ScriptIx
      <4> QED BY <4>1, <3>1, <3>3, <2>1, WholeStays
    <3> QED BY <3>2, <3>3, <3>4, <1>1 DEF SlabHolds
  <2>2. CASE ~ (launcher[s] \in Files /\ s \notin by_hand')
    BY <2>2, <1>6 DEF Keeps, SlabHolds
  <2> QED BY <2>1, <2>2
<1>9. ASSUME NEW u \in Slabs \ {s} PROVE Keeps(u) /\ Initialised(u)' /\ SlabHolds(u)'
  BY <1>2, <1>5, <1>6, Untouched
<1>10. \A u \in Slabs : Keeps(u) /\ Initialised(u)' /\ SlabHolds(u)'
  BY <1>7, <1>8, <1>9
<1>11. SeededOnce'
  BY <1>2 DEF SeededOnce
<1>12. ChainHolds'
  BY <1>2, <1>5, <1>6, <1>10, <1>11 DEF ChainHolds, Typed
<1> QED BY <1>10, <1>12

LEMMA Still ==
  ASSUME IInv, UNCHANGED <<market, by_hand, seeds, launcher>>
  PROVE  ChainHolds' /\ \A s \in Slabs : Keeps(s)
<1>1. /\ Typed /\ SeededOnce /\ \A u \in Slabs : Initialised(u) /\ SlabHolds(u)
  BY DEF IInv
<1>2. \A u \in Slabs : Keeps(u) /\ Initialised(u)' /\ SlabHolds(u)'
  BY <1>1, Untouched
<1>3. SeededOnce'
  BY <1>1 DEF SeededOnce
<1> QED BY <1>1, <1>2, <1>3 DEF ChainHolds, Typed

-----------------------------------------------------------------------------
(***************************************************************************)
(* What a run sends.                                                       *)
(***************************************************************************)
LEMMA StepIs ==
  ASSUME Typed, NEW t \in Terminals, Runs(t)
  PROVE  /\ RunOK(proc[t]) /\ proc[t] \in Procs
         /\ Step(t) = Row(proc[t].script)[proc[t].pc] /\ InOrder(proc[t].script, proc[t].pc)
         /\ proc[t].pc \in 1 .. ManifestAt(proc[t].script)
         /\ ManifestAt(proc[t].script) \in 1 .. 14
<1>1. RunOK(proc[t]) /\ proc[t] \in Procs
  BY DEF Typed, Runs
<1>2. proc[t].script \in Launchers /\ proc[t].pc \in 1 .. ManifestAt(proc[t].script)
  BY <1>1 DEF RunOK
<1> QED BY <1>1, <1>2, RowOrder DEF Step

LEMMA TxIs ==
  ASSUME Typed, NEW t \in Terminals, Pending(t)
  PROVE  /\ IxOK(Tx(t)) /\ ScriptIx(Tx(t))
         /\ Tx(t).slab = proc[t].slab /\ Tx(t).sender = proc[t].script
         /\ Step(t) \in Burnable =>
              Tx(t).kind = "UpdateAuthority" /\ Tx(t).authority = Step(t)
         /\ Step(t) \notin Burnable => Tx(t).kind = Step(t)
         /\ IsLate(Tx(t)) <=> IsOpen(proc[t])
<1> DEFINE p == proc[t]
           x == Tx(t)
<1>1. /\ RunOK(p) /\ p \in Procs /\ InOrder(p.script, p.pc) /\ Step(t) = Row(p.script)[p.pc]
      /\ p.pc \in 1 .. ManifestAt(p.script) /\ ManifestAt(p.script) \in 1 .. 14
  BY StepIs DEF Pending
<1>2. /\ p.script \in Launchers /\ p.slab \in Slabs /\ Step(t) \in Transactions
      /\ PAYER \in Wallets
  BY <1>1, Basics DEF RunOK, Pending
<1>3. CASE Step(t) \in Burnable
  <2> DEFINE y == Ix("UpdateAuthority", p.slab, PAYER)
  <2>1. x = [y EXCEPT !.sender = p.script, !.authority = Step(t)]
    BY <1>3 DEF Tx, Sent
  <2>2. Plain(y, PAYER, p.slab) /\ y.kind = "UpdateAuthority" /\ "UpdateAuthority" \in Kinds
    BY <1>2, IxIs DEF Kinds, ScriptKinds
  <2>3. y.idx = 1 /\ y.key = ZERO /\ y.hyperp = FALSE
    BY DEF Ix
  <2> HIDE DEF y, x
  <2>4. /\ x \in Ixs /\ x.prefixed = FALSE /\ x.kind = "UpdateAuthority"
        /\ x.authority = Step(t) /\ x.sender = p.script /\ x.slab = p.slab
        /\ x.signer = PAYER /\ x.idx = 1 /\ x.key = ZERO /\ x.hyperp = FALSE
    BY <2>1, <2>2, <2>3, <1>2, <1>3 DEF Plain, Ixs, Burnable, Authority, Launchers
  <2>5. IxOK(x) /\ ScriptIx(x)
    BY <2>4, <1>2, <1>3 DEF IxOK, ScriptIx, ScriptKinds
  <2>6. IsLate(x) <=> IsOpen(p)
    <3>1. p.script # "bounty2" /\ p.pc = BurnAt(p.script, Step(t))
      BY <1>1, <1>3 DEF InOrder
    <3>2. p.script \in Files => p.pc > InitAt
      BY <3>1, <1>3 DEF BurnAt, BurnsAt, ConfigAt, TopUpAt, InitAt, Burnable, Files, WithLp
    <3> QED BY <2>4, <3>2 DEF IsLate, IsOpen
  <2> QED BY <2>4, <2>5, <2>6, <1>3 DEF x
<1>4. CASE Step(t) \notin Burnable
  <2> DEFINE y == Ix(Step(t), p.slab, PAYER)
             c == [cap |-> CAP_MULT, funding |-> FUNDING]
             b == Prefixed(p.script, Step(t))
  <2>1. x = [y EXCEPT !.sender = p.script, !.prefixed = b, !.config = c]
    BY <1>4 DEF Tx, Sent
  <2>2. Step(t) \in Kinds /\ Step(t) \in ScriptKinds /\ Step(t) # "UpdateAuthority"
    BY <1>2, <1>4 DEF Kinds, ScriptKinds, Transactions
  <2>3. Plain(y, PAYER, p.slab) /\ y.kind = Step(t)
    BY <1>2, <2>2, IxIs
  <2>4. y.idx = 1 /\ y.key = ZERO /\ y.hyperp = FALSE
    BY DEF Ix
  <2>5. b \in BOOLEAN /\ (b => Step(t) \in FRESH_ONLY) /\ c \in Configs /\ c.cap = CAP_MULT
    BY Basics DEF Prefixed, FRESH_ONLY
  <2> HIDE DEF y, x, c, b
  <2>6. /\ x \in Ixs /\ x.prefixed = b /\ x.kind = Step(t) /\ x.config = c
        /\ x.sender = p.script /\ x.slab = p.slab
        /\ x.signer = PAYER /\ x.idx = 1 /\ x.key = ZERO /\ x.hyperp = FALSE
    BY <2>1, <2>3, <2>4, <2>5, <1>2 DEF Plain, Ixs, Launchers
  <2>7. p.script # "burn"
    BY <1>1, <1>2, <1>4
       DEF InOrder, Burnable, Transactions, BurnAt, BurnsAt, ManifestAt, InitAt
  <2>8. IxOK(x) /\ ScriptIx(x)
    BY <2>2, <2>5, <2>6, <2>7, <1>2 DEF IxOK, ScriptIx
  <2>9. IsLate(x) <=> IsOpen(p)
    <3>1. Step(t) = "CreateAccount" => p.pc < InitAt
      BY <1>1 DEF InOrder
    <3>2. Step(t) = "InitMarket" => p.pc = InitAt
      BY <1>1 DEF InOrder
    <3>3. Step(t) \notin {"CreateAccount", "InitMarket"} => p.pc > InitAt
      BY <1>1, <1>2, <2>7 DEF InOrder, InitAt, Transactions, Burnable
    <3>4. p.pc \in Nat
      BY <1>1
    <3> QED BY <2>6, <3>1, <3>2, <3>3, <3>4 DEF IsLate, IsOpen, InitAt
  <2> QED BY <2>6, <2>8, <2>9, <1>4 DEF x
<1> QED BY <1>3, <1>4

(* A burn comes after all that the script's market is to have.             *)
LEMMA TxHolds ==
  ASSUME IInv, NEW t \in Terminals, Pending(t)
  PROVE  WireHolds(Tx(t))
<1> DEFINE p == proc[t]
           x == Tx(t)
<1>1. Typed /\ RunHolds(p)
  BY DEF IInv
<1>2. /\ RunOK(p) /\ InOrder(p.script, p.pc) /\ Step(t) = Row(p.script)[p.pc]
      /\ p.pc \in 1 .. ManifestAt(p.script) /\ ManifestAt(p.script) \in 1 .. 14
  BY <1>1, StepIs DEF Pending
<1>3. /\ x.slab = p.slab /\ x.sender = p.script /\ ScriptIx(x)
      /\ Step(t) \in Burnable => x.kind = "UpdateAuthority" /\ x.authority = Step(t)
      /\ Step(t) \notin Burnable => x.kind = Step(t)
      /\ IsLate(x) <=> IsOpen(p)
  BY <1>1, TxIs
<1> HIDE DEF x
<1>4. /\ IsLate(x) => launcher[x.slab] = x.sender
      /\ x.sender = "burn" => launcher[x.slab] = "bounty2"
  BY <1>1, <1>3 DEF RunHolds
<1>5. IsLate(x) /\ x.kind = "TopUpInsurance" => seeds[x.slab] = 0
  <2>1. SUFFICES ASSUME IsLate(x), x.kind = "TopUpInsurance" PROVE seeds[x.slab] = 0
    OBVIOUS
  <2>2. Step(t) = "TopUpInsurance"
    BY <2>1, <1>3
  <2>3. p.pc = TopUpAt(p.script)
    BY <2>2, <1>2 DEF InOrder
  <2> QED BY <2>1, <2>3, <1>1, <1>2, <1>3 DEF RunHolds
<1>6. ASSUME x.kind = "UpdateAuthority", x.slab \notin by_hand
      PROVE  Whole(x.slab) /\ Burned(x.slab, Earlier(x.authority))
  <2>1. Step(t) \in Burnable /\ x.authority = Step(t)
    <3>1. Step(t) \in Transactions
      BY DEF Pending
    <3> QED BY <3>1, <1>3, <1>6 DEF Transactions, Burnable
  <2>2. p.script \in Launchers \ {"bounty2"} /\ p.pc = BurnAt(p.script, Step(t))
    BY <2>1, <1>2 DEF InOrder, RunOK
  <2>3. Reached(p) /\ (p.script \in Files => launcher[p.slab] = p.script)
    <3>1. p.script \in Files => p.pc > InitAt
      BY <2>1, <2>2 DEF BurnAt, BurnsAt, ConfigAt, TopUpAt, InitAt, Burnable, Files, WithLp
    <3> QED BY <3>1, <2>2, <1>1, <1>3, <1>6 DEF RunHolds, IsOpen, Launchers
  <2>4. \A b \in Earlier(Step(t)) : b \in Burnable /\ p.pc > BurnAt(p.script, b)
    <3>1. BurnsAt(p.script) \in Nat
      BY DEF BurnsAt, ConfigAt, TopUpAt
    <3> QED BY <2>1, <2>2, <3>1 DEF Earlier, BurnAt, Burnable
  <2>5. Burned(x.slab, Earlier(x.authority))
    BY <2>1, <2>2, <2>3, <2>4, <1>3 DEF Burned, Reached
  <2>6. Whole(x.slab)
    <3>1. CASE p.script = "burn"
      BY <3>1, <2>3, <1>3 DEF Reached
    <3>2. CASE p.script \in Files
      <4>1. /\ p.pc > ConfigAt(p.script) /\ p.pc > TopUpAt(p.script)
            /\ p.script \in WithLp => p.pc > DepositAt
        BY <2>1, <2>2, <3>2
           DEF BurnAt, BurnsAt, ConfigAt, TopUpAt, DepositAt, Burnable, Files, WithLp
      <4> QED BY <4>1, <3>2, <2>3, <1>3 DEF Reached, Whole
    <3> QED BY <3>1, <3>2, <2>2 DEF Launchers
  <2> QED BY <2>5, <2>6
<1> QED BY <1>4, <1>5, <1>6 DEF WireHolds, x

-----------------------------------------------------------------------------
(***************************************************************************)
(* One terminal moves.                                                     *)
(***************************************************************************)
LEMMA ProcNext ==
  ASSUME IInv, NEW t \in Terminals, NEW q, proc' = [proc EXCEPT ![t] = q],
         q \in Procs, q = Ended \/ RunOK(q)
  PROVE  /\ proc' \in [Terminals -> Procs] /\ proc'[t] = q
         /\ \A u \in Terminals : proc'[u] = Ended \/ RunOK(proc'[u])
         /\ \A u \in Terminals \ {t} : proc'[u] = proc[u]
  BY DEF IInv, Typed

(* Another run that is open, or late, is on another slab.                  *)
LEMMA Others ==
  ASSUME IInv, NEW t \in Terminals, NEW q, NEW s, s = q.slab, IsOpen(q),
         \/ IsOpen(proc[t]) /\ s = proc[t].slab
         \/ launcher[s] = NONE
  PROVE  /\ \A u \in Terminals \ {t} : IsOpen(proc[u]) => proc[u].slab # s
         /\ \A x \in wire : IsLate(x) => x.slab # s
<1>1. CASE IsOpen(proc[t]) /\ s = proc[t].slab
  BY <1>1 DEF IInv, OneRun
<1>2. CASE launcher[s] = NONE
  <2>1. ASSUME NEW u \in Terminals, IsOpen(proc[u]) PROVE proc[u].slab # s
    <3>1. launcher[proc[u].slab] \in Files
      BY <2>1 DEF IInv, RunHolds, IsOpen
    <3> QED BY <3>1, <1>2, Basics
  <2>2. ASSUME NEW x \in wire, IsLate(x) PROVE x.slab # s
    <3>1. launcher[x.slab] \in Files
      BY <2>2 DEF IInv, WireHolds, IsLate
    <3> QED BY <3>1, <1>2, Basics
  <2> QED BY <2>1, <2>2
<1> QED BY <1>1, <1>2

LEMMA Moved ==
  ASSUME IInv, NEW t \in Terminals, NEW q, proc' = [proc EXCEPT ![t] = q],
         q \in Procs, q = Ended \/ RunOK(q), RunHolds(proc[t])',
         UNCHANGED <<wire, manifest, commands>>, runs' \in 0 .. MaxRuns,
         ChainHolds', \A s \in Slabs : Keeps(s),
         IsOpen(q) => \/ IsOpen(proc[t]) /\ q.slab = proc[t].slab
                      \/ launcher[q.slab] = NONE,
         \A s \in Slabs : seeds'[s] # seeds[s] => IsOpen(proc[t]) /\ s = proc[t].slab
  PROVE  IInv'
<1>1. /\ Typed /\ OneRun /\ \A u \in Terminals : RunHolds(proc[u])
      /\ \A x \in wire : WireHolds(x) /\ IxOK(x) /\ (ScriptIx(x) \/ CliIx(x))
      /\ \A f \in Files : FileHolds(f)
  BY DEF IInv, Typed
<1>2. /\ proc' \in [Terminals -> Procs] /\ proc'[t] = q
      /\ \A u \in Terminals : proc'[u] = Ended \/ RunOK(proc'[u])
      /\ \A u \in Terminals \ {t} : proc'[u] = proc[u]
  BY ProcNext
<1>3. IsOpen(q) => /\ \A u \in Terminals \ {t} : IsOpen(proc[u]) => proc[u].slab # q.slab
                   /\ \A x \in wire : IsLate(x) => x.slab # q.slab
  BY Others
<1>4. OneRun'
  <2>1. \A u, v \in Terminals :
          IsOpen(proc'[u]) /\ IsOpen(proc'[v]) /\ proc'[u].slab = proc'[v].slab => u = v
    BY <1>1, <1>2, <1>3 DEF OneRun
  <2>2. \A u \in Terminals : \A x \in wire' :
          IsOpen(proc'[u]) /\ IsLate(x) => proc'[u].slab # x.slab
    BY <1>1, <1>2, <1>3 DEF OneRun
  <2> QED BY <1>1, <2>1, <2>2 DEF OneRun
<1>5. ASSUME NEW u \in Terminals PROVE RunHolds(proc[u])'
  <2>1. CASE u = t
    BY <2>1
  <2>2. CASE u # t
    <3>1. proc[u] # Ended => proc[u].slab \in Slabs
      BY <1>1 DEF Typed, RunOK
    <3>2. IsOpen(proc[u]) => proc[u] # Ended
      BY DEF IsOpen, Ended, NONE, Files
    <3>3. IsOpen(proc[u]) => seeds'[proc[u].slab] = seeds[proc[u].slab]
      BY <2>2, <3>1, <3>2, <1>1 DEF OneRun
    <3> QED BY <2>2, <3>1, <3>3, <1>1, <1>2, RunStays
  <2> QED BY <2>1, <2>2
<1>6. ASSUME NEW x \in wire PROVE WireHolds(x)'
  <2>1. x.slab \in Slabs
    BY <1>1 DEF IxOK, Ixs
  <2>2. IsLate(x) => seeds'[x.slab] = seeds[x.slab]
    BY <2>1, <1>1 DEF OneRun
  <2> QED BY <2>1, <2>2, <1>1, WireStays
<1>7. ASSUME NEW f \in Files PROVE FileHolds(f)'
  BY <1>1, FileStays
<1>8. Typed'
  BY <1>1, <1>2 DEF Typed, ChainHolds
<1> QED BY <1>4, <1>5, <1>6, <1>7, <1>8 DEF IInv, ChainHolds

-----------------------------------------------------------------------------
(***************************************************************************)
(* A run that goes on to its next step.                                    *)
(***************************************************************************)
Next1(p, q) == /\ q.script = p.script /\ q.slab = p.slab /\ q.pc = p.pc + 1 /\ q.copy = p.copy
               /\ p.pc > 1 => q.live = p.live

LEMMA Goes ==
  ASSUME Typed, NEW t \in Terminals, Runs(t), Step(t) # "Manifest",
         NEW live \in SUBSET Burnable, proc[t].pc > 1 => live = proc[t].live
  PROVE  LET q == [proc[t] EXCEPT !.pc = @ + 1, !.live = live]
         IN  q \in Procs /\ RunOK(q) /\ Next1(proc[t], q)
<1> DEFINE p == proc[t]
           q == [p EXCEPT !.pc = @ + 1, !.live = live]
<1>1. /\ RunOK(p) /\ p \in Procs /\ InOrder(p.script, p.pc) /\ Step(t) = Row(p.script)[p.pc]
      /\ p.pc \in 1 .. ManifestAt(p.script) /\ ManifestAt(p.script) \in 1 .. 14
  BY StepIs
<1>2. p.pc # ManifestAt(p.script)
  BY <1>1 DEF InOrder
<1>3. /\ q.script = p.script /\ q.slab = p.slab /\ q.pc = p.pc + 1 /\ q.copy = p.copy
      /\ q.live = live
  BY <1>1 DEF Procs
<1>4. q \in Procs
  <2>1. p.pc + 1 \in 0 .. 16
    BY <1>1
  <2> QED BY <1>1, <2>1 DEF Procs
<1> HIDE DEF q
<1>5. RunOK(q)
  BY <1>1, <1>2, <1>3 DEF RunOK
<1>6. Next1(p, q)
  BY <1>3 DEF Next1
<1> QED BY <1>4, <1>5, <1>6 DEF q

LEMMA AdvanceIs ==
  ASSUME Typed, NEW t \in Terminals, Runs(t)
  PROVE  Advance(t) = [proc EXCEPT ![t] = [proc[t] EXCEPT !.pc = @ + 1, !.live = proc[t].live]]
<1>1. proc[t] \in Procs
  BY StepIs
<1>2. [proc[t] EXCEPT !.pc = @ + 1, !.live = proc[t].live] = [proc[t] EXCEPT !.pc = @ + 1]
  BY <1>1 DEF Procs
<1> QED BY <1>2 DEF Advance

LEMMA NextHolds ==
  ASSUME IInv, NEW t \in Terminals, Runs(t), NEW q, RunOK(q), proc'[t] = q,
         Next1(proc[t], q), NEW s \in Slabs, s = proc[t].slab, Keeps(s),
         Step(t) = "InitMarket" =>
           launcher'[s] = proc[t].script /\ seeds'[s] = 0,
         Step(t) # "TopUpInsurance" => seeds'[s] = seeds[s],
         launcher[s] \in Files /\ s \notin by_hand' =>
           /\ Step(t) = "DepositCollateral" => Ours(market'[s])
           /\ Step(t) = "TopUpInsurance" => market'[s].fund > 0
           /\ Step(t) = "UpdateConfig" => market'[s].config.cap = CAP_MULT
           /\ \A a \in Burnable : Step(t) = a => market'[s].holder[a] = ZERO
           /\ Step(t) = "Authorities" => \A a \in Burnable \ q.live : market'[s].holder[a] = ZERO
  PROVE  RunHolds(proc[t])'
<1> DEFINE p == proc[t]
<1>1. /\ RunOK(p) /\ p \in Procs /\ InOrder(p.script, p.pc) /\ Step(t) = Row(p.script)[p.pc]
      /\ p.pc \in 1 .. ManifestAt(p.script) /\ ManifestAt(p.script) \in 1 .. 14
      /\ RunHolds(p)
  BY StepIs DEF IInv
<1>2. /\ q.script = p.script /\ q.slab = s /\ q.pc = p.pc + 1 /\ q.copy = p.copy
      /\ p.pc > 1 => q.live = p.live
      /\ p.pc \in Nat /\ p.pc >= 1 /\ p.script \in Launchers
  BY <1>1 DEF Next1, RunOK
<1>3. IsOpen(q) => IsOpen(p) \/ (p.script \in Files /\ p.pc = InitAt /\ Step(t) = "InitMarket")
  BY <1>1, <1>2 DEF IsOpen, InitAt, InOrder, Files
<1>4. /\ IsOpen(q) => launcher'[s] = q.script
      /\ q.script = "burn" => launcher'[s] = "bounty2"
  BY <1>1, <1>2, <1>3 DEF RunHolds, Keeps, IsOpen, Files
<1>5. ASSUME IsOpen(q), q.pc <= TopUpAt(q.script) PROVE seeds'[s] = 0
  <2>1. TopUpAt(p.script) \in Nat
    BY DEF TopUpAt
  <2>2. Step(t) # "TopUpInsurance" /\ p.pc <= TopUpAt(p.script)
    BY <2>1, <1>1, <1>2, <1>5 DEF InOrder
  <2> QED BY <2>2, <1>1, <1>2, <1>3, <1>5 DEF RunHolds
<1>6. ASSUME IsOpen(q) \/ q.script = "burn", s \notin by_hand' PROVE Reached(proc[t])'
  <2>1. CASE p.script \in Files /\ p.pc = InitAt
    <3>1. q.pc = 4 /\ q.script # "burn"
      BY <2>1, <1>2 DEF InitAt, Files
    <3>2. /\ ~ (q.pc > DepositAt) /\ ~ (q.pc > TopUpAt(q.script)) /\ ~ (q.pc > ConfigAt(q.script))
          /\ \A a \in Burnable : ~ (q.pc > BurnAt(q.script, a))
      BY <3>1 DEF DepositAt, TopUpAt, ConfigAt, BurnAt, BurnsAt, Burnable
    <3> QED BY <3>1, <3>2 DEF Reached
  <2>2. CASE IsOpen(p) \/ p.script = "burn"
    <3>1. s \notin by_hand /\ launcher[s] \in Files /\ Reached(p)
      BY <2>2, <1>1, <1>6 DEF RunHolds, Keeps, IsOpen, Files
    <3>2. Steady(market[s], market'[s])
      BY <3>1, <1>6 DEF Keeps
    <3>3. q.script \in WithLp /\ q.pc > DepositAt => Ours(market'[s])
      <4>1. p.script \in WithLp /\ p.pc = DepositAt => Step(t) = "DepositCollateral"
        BY <1>1 DEF InOrder
      <4> QED BY <4>1, <3>1, <3>2, <1>2, <1>6 DEF Reached, Steady, DepositAt
    <3>4. q.script \in Files /\ q.pc > TopUpAt(q.script) => market'[s].fund > 0
      <4>1. p.script \in Files /\ p.pc = TopUpAt(p.script) => Step(t) = "TopUpInsurance"
        BY <1>1 DEF InOrder, Files
      <4>2. TopUpAt(p.script) \in Nat
        BY DEF TopUpAt
      <4> QED BY <4>1, <4>2, <3>1, <3>2, <1>2, <1>6 DEF Reached, Steady
    <3>5. q.script \in Files /\ q.pc > ConfigAt(q.script) => market'[s].config.cap = CAP_MULT
      <4>1. p.script \in Files /\ p.pc = ConfigAt(p.script) => Step(t) = "UpdateConfig"
        BY <1>1 DEF InOrder, Files
      <4>2. ConfigAt(p.script) \in Nat
        BY DEF ConfigAt, TopUpAt
      <4> QED BY <4>1, <4>2, <3>1, <3>2, <1>2, <1>6 DEF Reached, Steady
    <3>6. ASSUME q.script # "bounty2", NEW a \in Burnable, q.pc > BurnAt(q.script, a)
          PROVE  market'[s].holder[a] = ZERO
      <4>1. p.pc = BurnAt(p.script, a) => Step(t) = a
        BY <3>6, <1>1, <1>2 DEF InOrder
      <4>2. BurnAt(p.script, a) \in Nat
        BY DEF BurnAt, BurnsAt, ConfigAt, TopUpAt, Burnable
      <4>3. p.pc > BurnAt(p.script, a) => market[s].holder[a] = ZERO
        BY <3>1, <3>6, <1>2 DEF Reached
      <4>4. a \in Authority
        BY DEF Burnable, Authority
      <4> QED BY <4>1, <4>2, <4>3, <4>4, <3>1, <3>2, <3>6, <1>2, <1>6 DEF Steady
    <3>7. q.script = "burn" => Whole(s)'
      BY <3>1, <1>2, <1>6, WholeStays DEF Reached
    <3>8. ASSUME q.script = "burn", NEW a \in Burnable \ q.live
          PROVE  market'[s].holder[a] = ZERO
      <4>1. CASE p.pc = 1
        <5>1. Step(t) = "Authorities"
          BY <4>1, <3>8, <1>1, <1>2 DEF InOrder
        <5> QED BY <5>1, <3>1, <3>8, <1>6
      <4>2. CASE p.pc > 1
        <5>1. market[s].holder[a] = ZERO /\ a \in Authority
          BY <4>2, <3>1, <3>8, <1>2 DEF Reached, Burned, Burnable, Authority
        <5> QED BY <5>1, <3>2 DEF Steady
      <4> QED BY <4>1, <4>2, <1>2
    <3> QED BY <3>3, <3>4, <3>5, <3>6, <3>7, <3>8, <1>2 DEF Reached, Burned
  <2> QED BY <2>1, <2>2, <1>2, <1>3, <1>6
<1> QED BY <1>2, <1>4, <1>5, <1>6 DEF RunHolds

-----------------------------------------------------------------------------
(***************************************************************************)
(* Every action keeps the invariant.                                       *)
(***************************************************************************)
LEMMA EndedIs == Ended \in Procs /\ ~ IsOpen(Ended)
  BY DEF Ended, Procs, NoManifest, Manifests, IsOpen, Files, NONE

(* A run that starts, ends, or goes on without a transaction.              *)
LEMMA QuietMove ==
  ASSUME IInv, NEW t \in Terminals, NEW q, proc' = [proc EXCEPT ![t] = q],
         q \in Procs, q = Ended \/ RunOK(q), RunHolds(proc[t])',
         UNCHANGED <<commandVars, manifest, seeds, launcher>>, runs' \in 0 .. MaxRuns,
         IsOpen(q) => IsOpen(proc[t]) /\ q.slab = proc[t].slab
  PROVE  IInv'
<1>1. ChainHolds' /\ \A s \in Slabs : Keeps(s)
  BY Still DEF commandVars
<1> QED BY <1>1, Moved DEF commandVars

LEMMA EndHolds ==
  ASSUME IInv, NEW t \in Terminals, proc'[t] = Ended
  PROVE  RunHolds(proc[t])'
  BY DEF RunHolds, IsOpen, Ended, NONE, Files

LEMMA EndKeeps ==
  ASSUME IInv, NEW t \in Terminals, proc' = End(t),
         UNCHANGED <<commandVars, manifest, runs, seeds, launcher>>
  PROVE  IInv'
<1>1. proc' = [proc EXCEPT ![t] = Ended] /\ proc'[t] = Ended
  BY DEF End, IInv, Typed
<1>2. runs' \in 0 .. MaxRuns
  BY DEF IInv, Typed
<1> QED BY <1>1, <1>2, EndedIs, EndHolds, QuietMove

LEMMA RefusedKeeps == ASSUME IInv, NEW t \in Terminals, Refused(t) PROVE IInv'
  BY EndKeeps DEF Refused

(* What may go on like this: a step that owes nothing to the chain, or one *)
(* that reads what it promises.                                            *)
LEMMA QuietStep ==
  ASSUME IInv, NEW t \in Terminals, Runs(t), NEW live \in SUBSET Burnable,
         proc[t].pc > 1 => live = proc[t].live,
         proc' = [proc EXCEPT ![t] = [proc[t] EXCEPT !.pc = @ + 1, !.live = live]],
         UNCHANGED <<commandVars, manifest, runs, seeds, launcher>>,
         Step(t) \notin Transactions \cup {"Manifest"} \/ Skips(t),
         Step(t) = "Authorities" =>
           \A a \in Burnable \ live : market[proc[t].slab].holder[a] = ZERO
  PROVE  IInv'
<1> DEFINE p == proc[t]
           q == [p EXCEPT !.pc = @ + 1, !.live = live]
<1>1. /\ Typed /\ RunOK(p) /\ p \in Procs /\ runs \in 0 .. MaxRuns /\ RunHolds(p)
      /\ InOrder(p.script, p.pc) /\ Step(t) = Row(p.script)[p.pc]
      /\ p.pc \in 1 .. ManifestAt(p.script) /\ ManifestAt(p.script) \in 1 .. 14
  BY StepIs DEF IInv, Typed
<1>2. Step(t) \notin {"Manifest", "InitMarket", "DepositCollateral", "TopUpInsurance",
                      "UpdateConfig"}
  BY DEF Transactions, Skips, Burnable
<1>3. q \in Procs /\ RunOK(q) /\ Next1(p, q)
  BY <1>1, <1>2, Goes
<1>4. p.slab \in Slabs /\ proc'[t] = q /\ q.live = live
  BY <1>1 DEF RunOK, IInv, Typed, Procs
<1> HIDE DEF q
<1>5. ChainHolds' /\ \A s \in Slabs : Keeps(s)
  BY Still DEF commandVars
<1>6. PICK s \in Slabs : s = p.slab
  BY <1>4
<1>7. ASSUME launcher[s] \in Files, s \notin by_hand', NEW a \in Burnable, Step(t) = a
      PROVE  market'[s].holder[a] = ZERO
  <2>1. p.script = "burn" /\ a \notin p.live
    BY <1>7 DEF Transactions, Skips
  <2>2. p.pc > 1
    BY <1>1, <1>7, <2>1 DEF InOrder, BurnAt, BurnsAt, Burnable
  <2>3. Reached(p)
    BY <1>1, <1>6, <1>7, <2>1 DEF RunHolds, commandVars
  <2> QED BY <2>1, <2>2, <2>3, <1>6, <1>7 DEF Reached, Burned, commandVars
<1>8. RunHolds(proc[t])'
  <2>1. Step(t) = "Authorities" => \A a \in Burnable \ q.live : market'[s].holder[a] = ZERO
    BY <1>4, <1>6 DEF commandVars
  <2>2. seeds'[s] = seeds[s] /\ Keeps(s)
    BY <1>5
  <2> QED BY <1>2, <1>3, <1>4, <1>6, <1>7, <2>1, <2>2, NextHolds
<1>9. IsOpen(q) => IsOpen(p) /\ q.slab = p.slab
  BY <1>1, <1>2, <1>3 DEF IsOpen, Next1, InOrder, InitAt, Files
<1> QED BY <1>1, <1>3, <1>8, <1>9, QuietMove DEF q

LEMMA PassesKeeps ==
  ASSUME IInv, NEW t \in Terminals, Passes(t)
  PROVE  IInv'
<1>1. Runs(t) /\ Typed /\ proc[t] \in Procs
  BY StepIs DEF Passes, IInv
<1>2. proc[t].live \in SUBSET Burnable
  BY <1>1 DEF Procs
<1>3. proc' = [proc EXCEPT ![t] = [proc[t] EXCEPT !.pc = @ + 1, !.live = proc[t].live]]
  BY <1>1, AdvanceIs DEF Passes
<1>4. /\ Step(t) \notin Transactions \cup {"Manifest"} \/ Skips(t)
      /\ Step(t) # "Authorities"
  BY DEF Passes, Transactions, Skips, Burnable
<1> QED BY <1>1, <1>2, <1>3, <1>4, QuietStep DEF Passes

LEMMA CheckCapKeeps ==
  ASSUME IInv, NEW t \in Terminals, CheckCap(t)
  PROVE  IInv'
<1>1. Runs(t) /\ Typed /\ proc[t] \in Procs
  BY StepIs DEF CheckCap, IInv
<1>2. proc[t].live \in SUBSET Burnable
  BY <1>1 DEF Procs
<1>3. CASE proc' = End(t)
  BY <1>3, EndKeeps DEF CheckCap
<1>4. CASE proc' = Advance(t)
  <2>1. proc' = [proc EXCEPT ![t] = [proc[t] EXCEPT !.pc = @ + 1, !.live = proc[t].live]]
    BY <1>1, <1>4, AdvanceIs
  <2>2. Step(t) \notin Transactions \cup {"Manifest"} /\ Step(t) # "Authorities"
    BY DEF CheckCap, Transactions, Burnable
  <2> QED BY <1>1, <1>2, <2>1, <2>2, QuietStep DEF CheckCap
<1> QED BY <1>3, <1>4 DEF CheckCap

LEMMA ReadAuthoritiesKeeps ==
  ASSUME IInv, NEW t \in Terminals, ReadAuthorities(t)
  PROVE  IInv'
<1> DEFINE m    == market[proc[t].slab]
           live == {a \in Burnable : m.holder[a] # ZERO}
<1>1. /\ Runs(t) /\ Typed /\ proc[t] \in Procs /\ Step(t) = "Authorities"
      /\ InOrder(proc[t].script, proc[t].pc) /\ Step(t) = Row(proc[t].script)[proc[t].pc]
  BY StepIs DEF ReadAuthorities, IInv
<1>2. CASE proc' = End(t)
  BY <1>2, EndKeeps DEF ReadAuthorities
<1>3. CASE proc' = [Advance(t) EXCEPT ![t].live = live]
  <2>1. proc' = [proc EXCEPT ![t] = [proc[t] EXCEPT !.pc = @ + 1, !.live = live]]
    BY <1>1, <1>3 DEF Advance, Typed, Procs
  <2>2. ~ (proc[t].pc > 1)
    BY <1>1 DEF InOrder
  <2>3. Step(t) \notin Transactions \cup {"Manifest"}
    BY <1>1 DEF Transactions, Burnable
  <2>4. live \in SUBSET Burnable /\ \A a \in Burnable \ live : m.holder[a] = ZERO
    OBVIOUS
  <2> QED BY <1>1, <2>1, <2>2, <2>3, <2>4, QuietStep DEF ReadAuthorities
<1> QED BY <1>2, <1>3 DEF ReadAuthorities

LEMMA StartKeeps ==
  ASSUME IInv, NEW t \in Terminals, NEW script \in Scripts \ {"burn"}, NEW s \in Slabs,
         NEW pc \in {1, 2}, runs < MaxRuns, runs' = runs + 1,
         proc' = [proc EXCEPT ![t] = [Ended EXCEPT !.script = script, !.pc = pc, !.slab = s]],
         UNCHANGED <<commandVars, manifest, seeds, launcher>>
  PROVE  IInv'
<1> DEFINE q == [Ended EXCEPT !.script = script, !.pc = pc, !.slab = s]
<1>1. /\ q \in Procs /\ q.script = script /\ q.pc = pc /\ q.slab = s
  <2>1. pc \in 0 .. 16 /\ script \in Scripts \cup {NONE} /\ s \in Slabs \cup {NONE}
    OBVIOUS
  <2>2. q \in Procs
    BY <2>1, EndedIs DEF Procs
  <2>3. q.script = script /\ q.pc = pc /\ q.slab = s
    BY DEF Ended
  <2> QED BY <2>2, <2>3
<1>2. script \in Files /\ script \in Launchers
  BY LaunchAssumption DEF Launchers
<1> HIDE DEF q
<1>3. RunOK(q)
  BY <1>1, <1>2 DEF RunOK, ManifestAt, BurnsAt, ConfigAt, TopUpAt
<1>4. ~ IsOpen(q)
  BY <1>1 DEF IsOpen, InitAt
<1>5. proc'[t] = q
  BY DEF IInv, Typed, q
<1>6. RunHolds(proc[t])'
  BY <1>1, <1>2, <1>4, <1>5, LaunchAssumption DEF RunHolds, Files
<1>7. runs' \in 0 .. MaxRuns
  BY Basics DEF IInv, Typed
<1> QED BY <1>1, <1>3, <1>4, <1>6, <1>7, QuietMove DEF q

LEMMA StartFreshKeeps ==
  ASSUME IInv, NEW t \in Terminals, NEW script \in Scripts, NEW s \in Slabs,
         StartFresh(t, script, s)
  PROVE  IInv'
  BY StartKeeps DEF StartFresh, CanStart

LEMMA StartReusingKeeps ==
  ASSUME IInv, NEW t \in Terminals, NEW script \in Scripts, NEW s \in Slabs,
         StartReusing(t, script, s)
  PROVE  IInv'
<1>1. script # "burn"
  BY DEF StartReusing, Reusable
<1> QED BY <1>1, StartKeeps DEF StartReusing, CanStart

(* The market that bounty2's manifest names is whole.                      *)
LEMMA StartBurnKeeps ==
  ASSUME IInv, NEW t \in Terminals, StartBurn(t)
  PROVE  IInv'
<1> DEFINE c == manifest["bounty2"]
           q == [Ended EXCEPT !.script = "burn", !.pc = 1, !.slab = c.slab, !.copy = c]
<1>1. /\ c \in Manifests /\ FileHolds("bounty2") /\ runs \in 0 .. MaxRuns /\ "burn" \in Scripts
      /\ c.slab # NONE /\ runs' = runs + 1 /\ runs < MaxRuns
      /\ proc' = [proc EXCEPT ![t] = q]
  BY DEF IInv, Typed, Files, StartBurn, CanStart
<1>2. PICK s \in Slabs : s = c.slab
  BY <1>1 DEF Manifests
<1>3. /\ q \in Procs /\ q.script = "burn" /\ q.pc = 1 /\ q.slab = s /\ q.copy = c
      /\ q.live = {}
  <2>1. 1 \in 0 .. 16 /\ c.slab \in Slabs \cup {NONE} /\ "burn" \in Scripts \cup {NONE}
    BY <1>1, <1>2
  <2>2. q \in Procs
    BY <1>1, <2>1, EndedIs DEF Procs
  <2>3. /\ q.script = "burn" /\ q.pc = 1 /\ q.slab = c.slab /\ q.copy = c /\ q.live = {}
    BY DEF Ended
  <2> QED BY <1>2, <2>2, <2>3
<1>4. launcher[s] = "bounty2" /\ ~ c.lp /\ (s \notin by_hand => Whole(s))
  BY <1>1, <1>2 DEF FileHolds, WithLp
<1>5. proc'[t] = q
  BY <1>1 DEF IInv, Typed
<1> HIDE DEF q
<1>6. RunOK(q)
  BY <1>2, <1>3, <1>4 DEF RunOK, Launchers, ManifestAt, BurnsAt
<1>7. ~ IsOpen(q)
  BY <1>3 DEF IsOpen, InitAt
<1>8. RunHolds(proc[t])'
  <2>1. launcher'[s] = "bounty2" /\ by_hand' = by_hand /\ (s \notin by_hand => Whole(s)')
    BY <1>4 DEF StartBurn, commandVars, Whole
  <2>2. Burnable \subseteq {"INSURANCE_OPERATOR", "INSURANCE", "ADMIN"}
    BY DEF Burnable
  <2>3. \A a \in Burnable : ~ (q.pc > BurnAt(q.script, a))
    BY <1>3, <2>2 DEF BurnAt, BurnsAt
  <2>4. s \notin by_hand => Reached(proc[t])'
    BY <1>3, <1>5, <2>1, <2>3 DEF Reached, WithLp, Files
  <2> QED BY <1>3, <1>5, <1>7, <2>1, <2>4 DEF RunHolds
<1>9. runs' \in 0 .. MaxRuns
  BY <1>1, Basics
<1> QED BY <1>1, <1>3, <1>6, <1>7, <1>8, <1>9, QuietMove DEF StartBurn

LEMMA ConfirmedKeeps ==
  ASSUME IInv, NEW t \in Terminals, Confirmed(t)
  PROVE  IInv'
<1> DEFINE p == proc[t]
           q == [p EXCEPT !.pc = @ + 1, !.live = p.live]
<1>1. /\ Typed /\ Pending(t) /\ Runs(t) /\ Step(t) \in Transactions
      /\ UNCHANGED <<wire, commands, by_hand, manifest, runs>>
  BY DEF IInv, Confirmed, Pending
<1>2. /\ RunOK(p) /\ p \in Procs /\ InOrder(p.script, p.pc) /\ Step(t) = Row(p.script)[p.pc]
      /\ p.pc \in Nat /\ p.script \in Launchers
  BY <1>1, StepIs DEF RunOK
<1>3. PICK x : x = Tx(t)
  OBVIOUS
<1>4. /\ IxOK(x) /\ ScriptIx(x) /\ x.slab = p.slab /\ x.sender = p.script
      /\ Step(t) \in Burnable => x.kind = "UpdateAuthority" /\ x.authority = Step(t)
      /\ Step(t) \notin Burnable => x.kind = Step(t)
      /\ IsLate(x) <=> IsOpen(p)
  BY <1>1, <1>3, TxIs
<1>5. WireHolds(x) /\ Executes(x) /\ Logged(x)
  BY <1>1, <1>3, TxHolds DEF Confirmed
<1>6. /\ ChainHolds' /\ \A s \in Slabs : Keeps(s)
      /\ \A s \in Slabs : seeds'[s] # seeds[s] =>
           s = x.slab /\ IsLate(x) /\ x.kind = "TopUpInsurance"
  BY <1>1, <1>4, <1>5, Landing
<1>7. PICK s \in Slabs : s = p.slab
  BY <1>2 DEF RunOK
<1> DEFINE m == market[s]
           n == market'[s]
<1>8. /\ x \in Ixs /\ MarketOK(m) /\ Ready(m, x) /\ Effect(m, x, n) /\ Initialised(s)
  <2>1. Effect(m, x, n) \/ Closed(m, x, n)
    BY <1>1, <1>4, <1>5, <1>7, ExecutedIs
  <2>2. ~ Closed(m, x, n)
    BY <1>4 DEF Closed, ScriptIx, ScriptKinds
  <2> QED BY <2>1, <2>2, <1>1, <1>4, <1>5, <1>7, ExecutedIs DEF IInv
<1>9. /\ proc' = [proc EXCEPT ![t] = q] /\ q \in Procs /\ RunOK(q) /\ Next1(p, q)
      /\ proc'[t] = q
  <2>1. Step(t) # "Manifest" /\ p.live \in SUBSET Burnable
    BY <1>1, <1>2 DEF Transactions, Burnable, Procs
  <2>2. proc' = [proc EXCEPT ![t] = q]
    BY <1>1, AdvanceIs DEF Confirmed
  <2>3. proc'[t] = q
    BY <2>2, <1>1 DEF Typed
  <2> QED BY <1>1, <2>1, <2>2, <2>3, Goes
<1> HIDE DEF q
<1>10. Step(t) = "InitMarket" =>
         launcher[s] = NONE /\ launcher'[s] = p.script /\ seeds'[s] = 0
  <2> SUFFICES ASSUME Step(t) = "InitMarket"
               PROVE  launcher[s] = NONE /\ launcher'[s] = p.script /\ seeds'[s] = 0
    OBVIOUS
  <2>1. x.kind = "InitMarket"
    BY <1>4 DEF Burnable
  <2>2. launcher[s] = NONE /\ seeds[s] = 0
    BY <2>1, <1>8 DEF Ready, Initialised
  <2>3. launcher'[s] = p.script /\ seeds' = seeds
    BY <2>1, <1>1, <1>4, <1>5, <1>7 DEF Logged, Typed
  <2> QED BY <2>2, <2>3
<1>11. Step(t) # "TopUpInsurance" => seeds'[s] = seeds[s]
  BY <1>4, <1>6 DEF ScriptIx, Burnable
<1>12. ASSUME launcher[s] \in Files, s \notin by_hand'
       PROVE  /\ Step(t) = "DepositCollateral" => Ours(n)
              /\ Step(t) = "TopUpInsurance" => n.fund > 0
              /\ Step(t) = "UpdateConfig" => n.config.cap = CAP_MULT
              /\ \A a \in Burnable : Step(t) = a => n.holder[a] = ZERO
              /\ Step(t) # "Authorities"
  <2>1. Step(t) = "DepositCollateral" => Ours(n)
    <3> SUFFICES ASSUME Step(t) = "DepositCollateral" PROVE Ours(n)
      OBVIOUS
    <3>1. x.kind = "DepositCollateral" /\ x.idx = 1 /\ x.signer = PAYER
      BY <1>4 DEF Burnable, ScriptIx
    <3>2. m.account[1].owner = PAYER
      BY <3>1, <1>8 DEF Ready
    <3>3. m.account \in [Slots -> Accounts] /\ m.account[1].capital \in Nat
      BY <1>8, Basics DEF MarketOK, Markets, Accounts
    <3>4. n.account = [m.account EXCEPT ![1].capital = @ + 1]
      BY <3>1, <1>8 DEF Effect
    <3>5. n.account[1].owner = m.account[1].owner
          /\ n.account[1].capital = m.account[1].capital + 1
      BY <3>3, <3>4, Basics DEF Accounts
    <3>6. Clean(n)
      <4>1. SlabHolds(s)' /\ launcher'[s] \in Files
        BY <1>6, <1>12 DEF ChainHolds, Keeps
      <4> QED BY <4>1, <1>12 DEF SlabHolds
    <3> QED BY <3>2, <3>3, <3>5, <3>6, Basics DEF Clean, Ours
  <2>2. Step(t) = "TopUpInsurance" => n.fund > 0
    BY <1>4, <1>8, Basics DEF Burnable, Effect, MarketOK, Markets
  <2>3. Step(t) = "UpdateConfig" => n.config.cap = CAP_MULT
    BY <1>4, <1>8 DEF Burnable, Effect, ScriptIx
  <2>4. ASSUME NEW a \in Burnable, Step(t) = a PROVE n.holder[a] = ZERO
    <3>1. n.holder = [m.holder EXCEPT ![a] = ZERO]
      BY <2>4, <1>4, <1>8 DEF Effect, ScriptIx
    <3>2. m.holder \in [Authority -> Keys] /\ a \in Authority
      BY <1>8, <2>4 DEF MarketOK, Markets, Burnable, Authority
    <3> QED BY <3>1, <3>2
  <2>5. Step(t) # "Authorities"
    BY <1>1 DEF Transactions, Burnable
  <2> QED BY <2>1, <2>2, <2>3, <2>4, <2>5
<1>13. RunHolds(proc[t])'
  BY <1>1, <1>6, <1>7, <1>9, <1>10, <1>11, <1>12, NextHolds
<1>14. IsOpen(q) => \/ IsOpen(proc[t]) /\ q.slab = proc[t].slab
                    \/ launcher[q.slab] = NONE
  BY <1>2, <1>7, <1>9, <1>10 DEF IsOpen, Next1, InitAt, InOrder, Files
<1>15. \A u \in Slabs : seeds'[u] # seeds[u] => IsOpen(proc[t]) /\ u = proc[t].slab
  BY <1>4, <1>6
<1>16. runs' \in 0 .. MaxRuns
  BY <1>1 DEF Typed
<1> QED BY <1>1, <1>6, <1>9, <1>13, <1>14, <1>15, <1>16, Moved

(* What a dead run sent is late from then on.                              *)
LEMMA DiesKeeps ==
  ASSUME IInv, NEW t \in Terminals, Dies(t)
  PROVE  IInv'
<1>1. /\ Typed /\ OneRun /\ \A u \in Terminals : RunHolds(proc[u])
      /\ \A x \in wire : WireHolds(x) /\ IxOK(x) /\ (ScriptIx(x) \/ CliIx(x))
      /\ \A f \in Files : FileHolds(f)
  BY DEF IInv, Typed
<1>2. /\ proc' = [proc EXCEPT ![t] = Ended]
      /\ UNCHANGED <<market, commands, by_hand, manifest, runs, seeds, launcher>>
  BY DEF Dies, End
<1>3. ChainHolds' /\ \A s \in Slabs : Keeps(s)
  BY <1>2, Still
<1>4. /\ proc' \in [Terminals -> Procs] /\ proc'[t] = Ended
      /\ \A u \in Terminals : proc'[u] = Ended \/ RunOK(proc'[u])
      /\ \A u \in Terminals \ {t} : proc'[u] = proc[u]
  BY <1>2, EndedIs, ProcNext
<1>5. ASSUME NEW x \in wire'
      PROVE  x \in wire \/ (Pending(t) /\ x = Tx(t))
  BY <1>5 DEF Dies
<1>6. ASSUME NEW x \in wire' PROVE WireHolds(x) /\ IxOK(x) /\ (ScriptIx(x) \/ CliIx(x))
  BY <1>1, <1>5, TxIs, TxHolds
<1>7. ASSUME NEW x \in wire', x \notin wire, IsLate(x)
      PROVE  Pending(t) /\ x = Tx(t) /\ IsOpen(proc[t]) /\ x.slab = proc[t].slab
  BY <1>1, <1>5, <1>7, TxIs
<1>8. OneRun'
  <2>1. \A u, v \in Terminals :
          IsOpen(proc'[u]) /\ IsOpen(proc'[v]) /\ proc'[u].slab = proc'[v].slab => u = v
    BY <1>1, <1>4, EndedIs DEF OneRun
  <2>2. ASSUME NEW u \in Terminals, NEW x \in wire', IsOpen(proc'[u]), IsLate(x)
        PROVE  proc'[u].slab # x.slab
    <3>1. u # t /\ proc'[u] = proc[u]
      BY <2>2, <1>4, EndedIs
    <3>2. CASE x \in wire
      BY <2>2, <3>1, <3>2, <1>1 DEF OneRun
    <3>3. CASE x \notin wire
      BY <2>2, <3>1, <3>3, <1>1, <1>7 DEF OneRun
    <3> QED BY <3>2, <3>3
  <2>3. ASSUME NEW x \in wire', NEW y \in wire', IsLate(x), IsLate(y), x.slab = y.slab
        PROVE  x = y
    <3>1. CASE x \in wire /\ y \in wire
      BY <2>3, <3>1, <1>1 DEF OneRun
    <3>2. CASE x \in wire /\ y \notin wire
      BY <2>3, <3>2, <1>1, <1>7 DEF OneRun
    <3>3. CASE x \notin wire /\ y \in wire
      BY <2>3, <3>3, <1>1, <1>7 DEF OneRun
    <3>4. CASE x \notin wire /\ y \notin wire
      BY <2>3, <3>4, <1>7
    <3> QED BY <3>1, <3>2, <3>3, <3>4
  <2> QED BY <2>1, <2>2, <2>3 DEF OneRun
<1>9. ASSUME NEW u \in Terminals PROVE RunHolds(proc[u])'
  <2>1. CASE u = t
    BY <2>1, <1>4, EndHolds
  <2>2. CASE u # t
    <3>1. proc[u] # Ended => proc[u].slab \in Slabs
      BY <1>1 DEF Typed, RunOK
    <3> QED BY <2>2, <3>1, <1>1, <1>2, <1>3, <1>4, RunStays
  <2> QED BY <2>1, <2>2
<1>10. ASSUME NEW x \in wire' PROVE WireHolds(x)'
  <2>1. x.slab \in Slabs
    BY <1>6 DEF IxOK, Ixs
  <2> QED BY <2>1, <1>1, <1>2, <1>3, <1>6, WireStays
<1>11. ASSUME NEW f \in Files PROVE FileHolds(f)'
  BY <1>1, <1>2, <1>3, FileStays
<1>12. Typed'
  BY <1>1, <1>2, <1>3, <1>4, <1>6 DEF Typed, ChainHolds
<1> QED BY <1>3, <1>8, <1>9, <1>10, <1>11, <1>12 DEF IInv, ChainHolds

(* At its last step a run has done all that its manifest says.             *)
LEMMA Finished ==
  ASSUME IInv, NEW t \in Terminals, Runs(t), Step(t) = "Manifest",
         NEW s \in Slabs, s = proc[t].slab
  PROVE  /\ launcher[s] = File(t) /\ File(t) \in Files
         /\ s \notin by_hand =>
              Whole(s) /\ (proc[t].script # "bounty2" => Burned(s, Burnable))
<1> DEFINE p == proc[t]
<1>1. /\ RunOK(p) /\ RunHolds(p) /\ p.script \in Launchers
      /\ InOrder(p.script, p.pc) /\ Step(t) = Row(p.script)[p.pc]
  BY StepIs DEF IInv, RunOK
<1>2. p.pc = ManifestAt(p.script)
  BY <1>1 DEF InOrder
<1>3. p.script \in Files => /\ p.pc > InitAt /\ p.pc > ConfigAt(p.script)
                            /\ p.pc > TopUpAt(p.script)
                            /\ p.script \in WithLp => p.pc > DepositAt
  BY <1>2 DEF ManifestAt, BurnsAt, ConfigAt, TopUpAt, InitAt, DepositAt, WithLp, Files
<1>4. p.script # "bounty2" => \A a \in Burnable : p.pc > BurnAt(p.script, a)
  <2>1. BurnsAt(p.script) \in Nat
    BY DEF BurnsAt, ConfigAt, TopUpAt
  <2> QED BY <1>2, <2>1 DEF ManifestAt, BurnAt, Burnable
<1>5. launcher[s] = File(t) /\ File(t) \in Files
  BY <1>1, <1>3 DEF RunHolds, IsOpen, File, Launchers, Files
<1>6. ASSUME s \notin by_hand
      PROVE  Whole(s) /\ (p.script # "bounty2" => Burned(s, Burnable))
  <2>1. Reached(p)
    BY <1>1, <1>3, <1>6 DEF RunHolds, IsOpen, Launchers
  <2>2. p.script # "bounty2" => Burned(s, Burnable)
    BY <1>4, <2>1 DEF Reached, Burned
  <2>3. CASE p.script = "burn"
    BY <2>1, <2>2, <2>3 DEF Reached
  <2>4. CASE p.script \in Files
    <3>1. launcher[s] = p.script
      BY <2>4, <1>1, <1>3 DEF RunHolds, IsOpen
    <3> QED BY <2>1, <2>2, <2>4, <3>1, <1>3 DEF Reached, Whole
  <2> QED BY <2>3, <2>4, <1>1 DEF Launchers
<1> QED BY <1>5, <1>6

LEMMA WriteManifestKeeps ==
  ASSUME IInv, NEW t \in Terminals, WriteManifest(t)
  PROVE  IInv'
<1> DEFINE p == proc[t]
           f == File(t)
           said == Written(t)
<1>1. /\ Typed /\ Runs(t) /\ Step(t) = "Manifest"
      /\ proc' = [proc EXCEPT ![t] = Ended]
      /\ UNCHANGED <<commandVars, runs, seeds, launcher>>
  BY DEF WriteManifest, End, IInv
<1>2. RunOK(p) /\ p \in Procs /\ p.script \in Launchers
  BY <1>1, StepIs DEF RunOK
<1>3. PICK s \in Slabs : s = p.slab
  BY <1>2 DEF RunOK
<1>4. /\ launcher[s] = f /\ f \in Files
      /\ s \notin by_hand => Whole(s) /\ (p.script # "bounty2" => Burned(s, Burnable))
  BY <1>1, <1>3, Finished
<1>5. /\ said \in Manifests /\ said.slab = s /\ (said.lp => f \in WithLp)
      /\ s \notin by_hand => Burned(s, said.burned)
  <2>1. CASE p.script = "bounty2"
    <3>1. said = [slab |-> p.slab, lp |-> FALSE,
                  burned |-> {a \in Burnable : market[p.slab].holder[a] = ZERO}]
      BY <2>1 DEF Written
    <3> HIDE DEF said
    <3> QED BY <3>1, <1>3 DEF Manifests, Burned
  <2>2. CASE p.script = "burn"
    <3>1. said = [p.copy EXCEPT !.burned = Burnable]
      BY <2>2 DEF Written
    <3>2. p.copy \in Manifests /\ p.copy.slab = s /\ ~ p.copy.lp
      BY <2>2, <1>2, <1>3 DEF RunOK, Procs
    <3> HIDE DEF said
    <3> QED BY <2>2, <3>1, <3>2, <1>4 DEF Manifests
  <2>3. CASE p.script \in {"devnet", "max_risk", "mainnet"}
    <3>1. said = [slab |-> p.slab, lp |-> p.script # "mainnet", burned |-> Burnable]
      BY <2>3 DEF Written
    <3>2. f = p.script
      BY <2>3 DEF File
    <3> HIDE DEF said, f
    <3> QED BY <2>3, <3>1, <3>2, <1>3, <1>4 DEF Manifests, WithLp
  <2> QED BY <2>1, <2>2, <2>3, <1>2 DEF Launchers, Files
<1>6. manifest' = [manifest EXCEPT ![f] = said] \/ manifest' = manifest
  BY DEF WriteManifest
<1> HIDE DEF f, said
<1>7. ChainHolds' /\ \A u \in Slabs : Keeps(u)
  BY <1>1, Still DEF commandVars
<1>8. /\ manifest' \in [Files -> Manifests]
      /\ \A g \in Files : g # f \/ manifest' = manifest => manifest'[g] = manifest[g]
      /\ manifest' # manifest => manifest'[f] = said
  BY <1>1, <1>4, <1>5, <1>6 DEF Typed
<1>9. ASSUME NEW g \in Files PROVE FileHolds(g)'
  <2>1. CASE g # f \/ manifest' = manifest
    BY <2>1, <1>1, <1>7, <1>8, FileStays DEF IInv
  <2>2. CASE g = f /\ manifest' # manifest
    <3>1. manifest'[g].slab = s /\ manifest'[g] = said
      BY <2>2, <1>5, <1>8
    <3>2. launcher'[s] = g /\ by_hand' = by_hand /\ market' = market
      BY <2>2, <1>1, <1>4 DEF commandVars
    <3>3. s \notin by_hand' => Whole(s)' /\ Burned(s, said.burned)
      BY <3>2, <1>1, <1>4, <1>5 DEF Whole
    <3>4. PICK b : b = said.burned
      OBVIOUS
    <3>5. s \notin by_hand' => Burned(s, b)'
      BY <3>2, <3>3, <3>4 DEF Burned
    <3>6. manifest'[g].burned = b /\ manifest'[g].lp = said.lp
      BY <3>1, <3>4
    <3> QED BY <2>2, <3>1, <3>2, <3>3, <3>5, <3>6, <1>5 DEF FileHolds
  <2> QED BY <2>1, <2>2
<1>10. /\ proc' \in [Terminals -> Procs] /\ proc'[t] = Ended
       /\ \A u \in Terminals : proc'[u] = Ended \/ RunOK(proc'[u])
       /\ \A u \in Terminals \ {t} : proc'[u] = proc[u]
  BY <1>1, EndedIs, ProcNext
<1>11. ASSUME NEW u \in Terminals PROVE RunHolds(proc[u])'
  <2>1. CASE u = t
    BY <2>1, <1>10, EndHolds
  <2>2. CASE u # t
    <3>1. proc[u] # Ended => proc[u].slab \in Slabs
      BY <1>1 DEF Typed, RunOK
    <3> QED BY <2>2, <3>1, <1>1, <1>7, <1>10, RunStays DEF IInv
  <2> QED BY <2>1, <2>2
<1>12. ASSUME NEW x \in wire PROVE WireHolds(x)'
  <2>1. x.slab \in Slabs /\ IxOK(x) /\ (ScriptIx(x) \/ CliIx(x)) /\ WireHolds(x)
    BY <1>1 DEF Typed, IxOK, Ixs, IInv
  <2> QED BY <2>1, <1>1, <1>7, WireStays
<1>13. OneRun'
  BY <1>1, <1>10, EndedIs DEF IInv, OneRun, commandVars
<1>14. Typed'
  BY <1>1, <1>7, <1>8, <1>10 DEF Typed, ChainHolds, commandVars
<1>15. wire' = wire
  BY <1>1 DEF commandVars
<1> QED BY <1>7, <1>9, <1>11, <1>12, <1>13, <1>14, <1>15 DEF IInv, ChainHolds

LEMMA LandKeeps ==
  ASSUME IInv, NEW x \in wire, Land(x), Logged(x), UNCHANGED <<proc, manifest, runs>>
  PROVE  IInv'
<1>1. /\ Typed /\ OneRun /\ \A u \in Terminals : RunHolds(proc[u])
      /\ \A y \in wire : WireHolds(y) /\ IxOK(y) /\ (ScriptIx(y) \/ CliIx(y)) /\ y.slab \in Slabs
      /\ \A f \in Files : FileHolds(f)
  BY DEF IInv, Typed, IxOK, Ixs
<1>2. /\ wire' = wire \ {x} /\ Executes(x) /\ UNCHANGED commands
      /\ by_hand' = IF x.sender = "cli" THEN Touched(x.signer, x.slab) ELSE by_hand
  BY DEF Land
<1>3. /\ ChainHolds' /\ \A s \in Slabs : Keeps(s)
      /\ \A s \in Slabs : seeds'[s] # seeds[s] => s = x.slab /\ IsLate(x)
  <2>1. CASE ScriptIx(x)
    <3>1. x.sender # "cli"
      BY <2>1 DEF ScriptIx, Launchers, Files
    <3> QED BY <2>1, <3>1, <1>1, <1>2, Landing
  <2>2. CASE CliIx(x)
    <3>1. seeds' = seeds /\ launcher' = launcher
      BY <2>2 DEF Logged, CliIx
    <3>2. by_hand' = Touched(x.signer, x.slab)
      BY <2>2, <1>2 DEF CliIx
    <3> QED BY <3>1, <3>2, <1>1, <1>2, ByHand
  <2> QED BY <2>1, <2>2, <1>1
<1>4. OneRun'
  BY <1>1, <1>2 DEF OneRun
<1>5. ASSUME NEW u \in Terminals PROVE RunHolds(proc[u])'
  <2>1. proc[u] # Ended => proc[u].slab \in Slabs
    BY <1>1 DEF Typed, RunOK
  <2>2. IsOpen(proc[u]) => proc[u] # Ended
    BY DEF IsOpen, Ended, NONE, Files
  <2>3. IsOpen(proc[u]) => seeds'[proc[u].slab] = seeds[proc[u].slab]
    BY <2>1, <2>2, <1>1, <1>3 DEF OneRun
  <2> QED BY <2>1, <2>3, <1>1, <1>3, RunStays
<1>6. ASSUME NEW y \in wire' PROVE WireHolds(y)'
  <2>1. y \in wire /\ y # x
    BY <1>2
  <2>2. IsLate(y) => seeds'[y.slab] = seeds[y.slab]
    BY <2>1, <1>1, <1>3 DEF OneRun
  <2> QED BY <2>1, <2>2, <1>1, <1>3, WireStays
<1>7. ASSUME NEW f \in Files PROVE FileHolds(f)'
  BY <1>1, <1>3, FileStays
<1>8. Typed'
  BY <1>1, <1>2, <1>3 DEF Typed, ChainHolds
<1> QED BY <1>3, <1>4, <1>5, <1>6, <1>7, <1>8 DEF IInv, ChainHolds

(* What leaves every run and every file alone.                             *)
LEMMA AsideKeeps ==
  ASSUME IInv, ChainHolds', \A s \in Slabs : Keeps(s), UNCHANGED launchVars,
         commands' \in 0 .. MaxCommands,
         \A x \in wire' : x \in wire \/ (IxOK(x) /\ CliIx(x))
  PROVE  IInv'
<1>1. /\ Typed /\ OneRun /\ \A u \in Terminals : RunHolds(proc[u])
      /\ \A y \in wire : WireHolds(y) /\ IxOK(y) /\ (ScriptIx(y) \/ CliIx(y))
      /\ \A f \in Files : FileHolds(f)
      /\ UNCHANGED <<proc, manifest, runs, seeds, launcher>>
  BY DEF IInv, Typed, launchVars
<1>2. ASSUME NEW x, CliIx(x) PROVE ~ IsLate(x) /\ WireHolds(x)
  BY <1>2 DEF CliIx, IsLate, Files, WireHolds
<1>3. OneRun'
  BY <1>1, <1>2 DEF OneRun
<1>4. ASSUME NEW u \in Terminals PROVE RunHolds(proc[u])'
  <2>1. proc[u] # Ended => proc[u].slab \in Slabs
    BY <1>1 DEF Typed, RunOK
  <2> QED BY <2>1, <1>1, RunStays
<1>5. ASSUME NEW y \in wire' PROVE WireHolds(y)'
  <2>1. WireHolds(y) /\ IxOK(y) /\ (ScriptIx(y) \/ CliIx(y)) /\ y.slab \in Slabs
    BY <1>1, <1>2 DEF IxOK, Ixs
  <2> QED BY <2>1, <1>1, WireStays
<1>6. ASSUME NEW f \in Files PROVE FileHolds(f)'
  BY <1>1, FileStays
<1>7. Typed'
  BY <1>1 DEF Typed, ChainHolds
<1> QED BY <1>3, <1>4, <1>5, <1>6, <1>7 DEF IInv, ChainHolds

LEMMA CommandKeeps ==
  ASSUME IInv, NEW w \in Wallets, NEW s \in Slabs, Command(w, s), UNCHANGED launchVars
  PROVE  IInv'
<1>1. PICK c \in CommandNames \ {"update-config"} : \E x \in Sends(c, w, s) : Executes(x)
  <2>1. \A u \in {v \in CLI : v[1] = w} : u[2] \in CommandNames
    BY CommandsAssumption
  <2> QED BY <2>1 DEF Command
<1>2. PICK x \in Sends(c, w, s) : Executes(x)
  BY <1>1
<1>3. Plain(x, w, s)
  BY <1>2, SendsAre
<1>4. IxOK(x) /\ x.signer = w /\ x.slab = s
  BY <1>3 DEF Plain, IxOK
<1>5. ChainHolds' /\ \A u \in Slabs : Keeps(u)
  BY <1>2, <1>4, ByHand DEF Command, launchVars
<1>6. commands' \in 0 .. MaxCommands /\ wire' = wire
  BY Basics DEF Command, IInv, Typed
<1> QED BY <1>5, <1>6, AsideKeeps

LEMMA UpdateConfigKeeps ==
  ASSUME IInv, NEW w \in Wallets, NEW s \in Slabs, update_config(w, s), UNCHANGED launchVars
  PROVE  IInv'
<1>1. PICK flags \in SUBSET DOMAIN Edited, o \in Oracles(s) :
        wire' = wire \cup {[Ix("UpdateConfig", s, w) EXCEPT
                              !.oracle = o, !.config = Merged(flags, market[s].config)]}
  BY DEF update_config
<1>2. Merged(flags, market[s].config) \in Configs
  <2>1. market[s].config \in Configs
    BY DEF IInv, Typed, Markets
  <2>2. /\ DOMAIN market[s].config = {"cap", "funding"}
        /\ Edited.cap = 0 /\ Edited.funding = FUNDING + 1
    BY <2>1 DEF Configs, Edited
  <2> QED BY <2>1, <2>2, Basics DEF Merged, Configs
<1>3. PICK x : x = [Ix("UpdateConfig", s, w) EXCEPT
                      !.oracle = o, !.config = Merged(flags, market[s].config)]
  OBVIOUS
<1>4. o \in {"feed", "slab"} /\ "UpdateConfig" \in Kinds
  BY DEF Oracles, Kinds, ScriptKinds
<1>5. Plain(Ix("UpdateConfig", s, w), w, s) /\ Ix("UpdateConfig", s, w).kind = "UpdateConfig"
  BY <1>4, IxIs
<1>6. Plain(x, w, s) /\ x.kind = "UpdateConfig"
  BY <1>2, <1>3, <1>4, <1>5, Changed DEF Plain, Ixs
<1>7. IxOK(x) /\ CliIx(x)
  BY <1>6 DEF Plain, IxOK, CliIx
<1>8. ChainHolds' /\ \A u \in Slabs : Keeps(u)
  BY Still DEF update_config, launchVars
<1>9. commands' \in 0 .. MaxCommands
  BY Basics DEF update_config, IInv, Typed
<1>10. \A y \in wire' : y \in wire \/ (IxOK(y) /\ CliIx(y))
  BY <1>1, <1>3, <1>7
<1> QED BY <1>8, <1>9, <1>10, AsideKeeps

(* Time passes, or anybody resolves a market that is stale.                *)
LEMMA TimeKeeps ==
  ASSUME IInv, NEW s \in Slabs, Age(s) \/ ResolvePermissionless(s), UNCHANGED launchVars
  PROVE  IInv'
<1> DEFINE m == market[s]
           n == market'[s]
<1>1. /\ Typed /\ SeededOnce /\ \A u \in Slabs : Initialised(u) /\ SlabHolds(u)
      /\ MarketOK(m) /\ m \in Markets
      /\ UNCHANGED <<wire, commands, by_hand, seeds, launcher>>
  BY DEF IInv, Typed, Age, ResolvePermissionless, launchVars
<1>2. /\ m.stage = "live" /\ n \in Markets /\ n.stage \in {"live", "resolved"}
      /\ n.holder = m.holder /\ n.config = m.config /\ n.fund = m.fund
      /\ n.account = m.account /\ n.free = m.free
      /\ market' \in [Slabs -> Markets] /\ \A u \in Slabs \ {s} : market'[u] = market[u]
  <2>1. m.stage = "live" /\ market' = [market EXCEPT ![s] = n]
    BY <1>1 DEF Age, ResolvePermissionless, Typed
  <2>2. \/ n = [m EXCEPT !.fresh = FALSE]
        \/ n = [m EXCEPT !.stage = "resolved"]
    BY <1>1 DEF Age, ResolvePermissionless, Typed
  <2> HIDE DEF m, n
  <2>3. /\ n \in Markets /\ n.stage \in {"live", "resolved"}
        /\ n.holder = m.holder /\ n.config = m.config /\ n.fund = m.fund
        /\ n.account = m.account /\ n.free = m.free
    BY <1>1, <2>1, <2>2 DEF Markets
  <2> QED BY <1>1, <2>1, <2>3 DEF Typed
<1> HIDE DEF n
<1>3. MarketOK(n)
  BY <1>1, <1>2 DEF MarketOK, Used
<1>4. Keeps(s) /\ Initialised(s)' /\ SlabHolds(s)'
  <2>1. Keeps(s)
    BY <1>1, <1>2 DEF Keeps, Steady, Ours, n
  <2>2. Initialised(s)'
    BY <1>1, <1>2 DEF Initialised, n
  <2>3. SlabHolds(s)'
    BY <1>1, <1>2 DEF SlabHolds, Clean, Whole, Burned, Ours, n
  <2> QED BY <2>1, <2>2, <2>3
<1>5. \A u \in Slabs : Keeps(u) /\ Initialised(u)' /\ SlabHolds(u)'
  <2>1. ASSUME NEW u \in Slabs \ {s} PROVE Keeps(u) /\ Initialised(u)' /\ SlabHolds(u)'
    BY <1>1, <1>2, Untouched
  <2> QED BY <2>1, <1>4
<1>6. \A u \in Slabs : MarketOK(market'[u])
  BY <1>1, <1>2, <1>3 DEF Typed, n
<1>7. SeededOnce'
  BY <1>1 DEF SeededOnce
<1>8. ChainHolds'
  BY <1>1, <1>2, <1>5, <1>6, <1>7 DEF ChainHolds, Typed
<1> QED BY <1>1, <1>5, <1>8, AsideKeeps DEF Typed


-----------------------------------------------------------------------------
(***************************************************************************)
(* The invariant holds initially and is kept.                              *)
(***************************************************************************)
LEMMA InitIInv == Init => IInv
<1> SUFFICES ASSUME Init PROVE IInv
  OBVIOUS
<1> DEFINE n == [NoMarket EXCEPT !.stage = "none"]
<1>1. MarketOK(n)
  BY Unused
<1>2. NoMarket = n
  BY DEF NoMarket
<1> HIDE DEF n
<1>3. /\ \A s \in Slabs : market[s] = NoMarket
      /\ market \in [Slabs -> Markets] /\ \A s \in Slabs : MarketOK(market[s])
  BY <1>1, <1>2 DEF Init, CommandInit, MarketOK
<1>4. /\ \A t \in Terminals : proc[t] = Ended
      /\ \A f \in Files : manifest[f] = NoManifest
      /\ \A s \in Slabs : seeds[s] = 0 /\ launcher[s] = NONE
      /\ wire = {} /\ runs = 0 /\ commands = 0 /\ by_hand = {}
  BY DEF Init, CommandInit
<1>5. Typed
  <2>1. NoManifest \in Manifests /\ Ended \in Procs
    BY DEF NoManifest, Ended, Manifests, Procs
  <2>2. proc \in [Terminals -> Procs] /\ manifest \in [Files -> Manifests]
    BY <2>1 DEF Init
  <2>3. seeds \in [Slabs -> 0 .. MaxFund] /\ launcher \in [Slabs -> Files \cup {NONE}]
    BY Basics DEF Init
  <2> QED BY <2>2, <2>3, <1>3, <1>4, Basics DEF Typed
<1>6. ASSUME NEW t \in Terminals PROVE ~ IsOpen(proc[t]) /\ RunHolds(proc[t])
  BY <1>4, Basics DEF IsOpen, RunHolds, Ended
<1>7. OneRun
  BY <1>4, <1>6 DEF OneRun
<1>8. ASSUME NEW s \in Slabs PROVE Initialised(s) /\ SlabHolds(s) /\ seeds[s] <= 1
  BY <1>4, Basics DEF Initialised, SlabHolds
<1>9. ASSUME NEW f \in Files PROVE FileHolds(f)
  BY <1>4 DEF FileHolds, NoManifest
<1> QED BY <1>4, <1>5, <1>6, <1>7, <1>8, <1>9 DEF IInv, SeededOnce

LEMMA RunKeeps ==
  ASSUME IInv, NEW t \in Terminals, Run(t)
  PROVE  IInv'
<1>1. ASSUME NEW script \in Scripts, NEW s \in Slabs,
             StartFresh(t, script, s) \/ StartReusing(t, script, s)
      PROVE  IInv'
  BY <1>1, StartFreshKeeps, StartReusingKeeps
<1>2. CASE StartBurn(t)
  BY <1>2, StartBurnKeeps
<1>3. CASE Confirmed(t)
  BY <1>3, ConfirmedKeeps
<1>4. CASE Refused(t)
  BY <1>4, RefusedKeeps
<1>5. CASE Dies(t)
  BY <1>5, DiesKeeps
<1>6. CASE Passes(t)
  BY <1>6, PassesKeeps
<1>7. CASE CheckCap(t)
  BY <1>7, CheckCapKeeps
<1>8. CASE ReadAuthorities(t)
  BY <1>8, ReadAuthoritiesKeeps
<1>9. CASE WriteManifest(t)
  BY <1>9, WriteManifestKeeps
<1> QED BY <1>1, <1>2, <1>3, <1>4, <1>5, <1>6, <1>7, <1>8, <1>9 DEF Run

LEMMA StepIInv == IInv /\ [Next]_vars => IInv'
<1> SUFFICES ASSUME IInv, [Next]_vars PROVE IInv'
  OBVIOUS
<1>1. ASSUME NEW t \in Terminals, Run(t) PROVE IInv'
  BY <1>1, RunKeeps
<1>2. ASSUME NEW x \in wire, Land(x), Logged(x), UNCHANGED <<proc, manifest, runs>>
      PROVE  IInv'
  BY <1>2, LandKeeps
<1>3. ASSUME NEW s \in Slabs, Age(s) \/ ResolvePermissionless(s), UNCHANGED launchVars
      PROVE  IInv'
  BY <1>3, TimeKeeps
<1>4. ASSUME NEW w \in Wallets, NEW s \in Slabs, Command(w, s) \/ update_config(w, s),
             UNCHANGED launchVars
      PROVE  IInv'
  BY <1>4, CommandKeeps, UpdateConfigKeeps
<1>5. CASE UNCHANGED vars
  <2>1. /\ UNCHANGED <<market, wire, commands, by_hand>>
        /\ UNCHANGED <<proc, manifest, runs, seeds, launcher>>
    BY <1>5 DEF vars, commandVars, launchVars
  <2>2. ChainHolds' /\ \A s \in Slabs : Keeps(s)
    BY <2>1, Still
  <2>3. commands' \in 0 .. MaxCommands
    BY <2>1 DEF IInv, Typed
  <2> QED BY <2>1, <2>2, <2>3, AsideKeeps DEF launchVars
<1> QED BY <1>1, <1>2, <1>3, <1>4, <1>5 DEF Next

LEMMA Invariance == Spec => []IInv
  BY InitIInv, StepIInv, PTL DEF Spec

-----------------------------------------------------------------------------
(***************************************************************************)
(* What it says of the markets and of their manifests.                     *)
(***************************************************************************)
(* Every variable has its type; on each slab the freelist and the used     *)
(* slots are a partition, after InitLP, InitUser and CloseAccount in any   *)
(* order.                                                                  *)
THEOREM TypeCorrect == Spec => []TypeOK
<1>1. IInv => TypeOK
  <2> SUFFICES ASSUME IInv PROVE TypeOK
    OBVIOUS
  <2>1. Typed
    BY DEF IInv
  <2>2. ASSUME NEW s \in Slabs
        PROVE  LET m == market[s]
               IN  /\ m.stage \in {"none", "blank", "live", "resolved", "closed"}
                   /\ {m.hyperp, m.priced, m.fresh} \subseteq BOOLEAN
                   /\ m.holder \in [Authority -> Keys]
                   /\ m.config \in [cap : {0, CAP_MULT}, funding : FUNDING .. FUNDING + 1]
                   /\ m.fund \in 0 .. MaxFund
                   /\ m.account \in [Slots -> [owner : Keys, kind : {"none", "user", "lp"},
                                               capital : 0 .. MaxFund]]
                   /\ ToSet(m.free) = Slots \ Used(m) /\ IsInjective(m.free)
    BY <2>1 DEF Typed, MarketOK, Markets, Configs, Accounts
  <2>3. CommandTypeOK
    BY <2>1, <2>2 DEF CommandTypeOK, Typed
  <2> QED BY <2>1, <2>3 DEF TypeOK, Typed, Procs, Manifests
<1> QED BY <1>1, Invariance, PTL

(* However many runs start, overlap and die on a slab, with transactions   *)
(* that land after their run, its insurance is topped up by a deployment   *)
(* script once at most.                                                    *)
THEOREM PaidOnce == Spec => []SeededOnce
<1>1. IInv => SeededOnce
  BY DEF IInv
<1> QED BY <1>1, Invariance, PTL

(* A market that a script launched, that its operator left alone and that  *)
(* lost its admin has no other authority either: the burns are sent with   *)
(* ADMIN last, and no crash, late transaction or second burn undoes that.  *)
THEOREM AdminLast == Spec => []AdminBurnedLast
<1>1. IInv => AdminBurnedLast
  BY DEF IInv, AdminBurnedLast, Ownerless, SlabHolds, Burned
<1> QED BY <1>1, Invariance, PTL

(* The same market has its deposit cap, its insurance and, where the       *)
(* script makes one, its LP with collateral at index 0.                    *)
THEOREM WholeWhenBurned == Spec => []BurnedIsWhole
<1>1. IInv => BurnedIsWhole
  BY DEF IInv, BurnedIsWhole, Ownerless, SlabHolds, Whole, Ours, LpIsOurs, WithLp
<1> QED BY <1>1, Invariance, PTL

(* What a manifest says of the authorities, the LP and the insurance of a  *)
(* slab stays true for as long as the operator leaves the market alone.    *)
THEOREM ManifestTrue == Spec => []ManifestTellsTheTruth
<1>1. IInv => ManifestTellsTheTruth
  <2> SUFFICES ASSUME IInv, NEW f \in Files, manifest[f].slab # NONE,
                      manifest[f].slab \notin by_hand
               PROVE  /\ \A a \in manifest[f].burned : market[manifest[f].slab].holder[a] = ZERO
                      /\ manifest[f].lp => LpIsOurs(manifest[f].slab)
                      /\ market[manifest[f].slab].fund > 0
    BY DEF ManifestTellsTheTruth
  <2>1. FileHolds(f)
    BY DEF IInv
  <2> QED BY <2>1 DEF FileHolds, Whole, Burned, Ours, LpIsOurs
<1> QED BY <1>1, Invariance, PTL
=============================================================================
