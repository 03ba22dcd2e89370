---------------------------- MODULE MCMarketLaunch ----------------------------
(* Two terminals that are alike; the operator and a stranger use the commands  *)
(* that change a market.                                                   *)
EXTENDS MarketLaunch

MCCLI ==
  ({STRANGER} \X {"init-user", "init-lp", "deposit", "withdraw", "close-account",
                  "topup-insurance"})
  \cup ({PAYER} \X {"init-market", "update-config", "update-admin", "set-oracle-authority",
                    "push-oracle-price", "resolve-market", "withdraw-insurance",
                    "close-slab", "topup-insurance"})

Alike == Permutations(Terminals)
=============================================================================
