--------------------------- MODULE MCRandomTraders ---------------------------
(***************************************************************************)
(* A slab of four with an upstream LP in its first slot; any LP that joins *)
(* later has a Ballast context.                                            *)
(***************************************************************************)
EXTENDS RandomTraders

Terms1 == [kind |-> 0, allow_fills |-> 1, fee_bps |-> 1, spread_bps |-> 0, max_total_bps |-> 4,
           impact_k_bps |-> 0, liquidity |-> 0, max_fill_abs |-> 9, max_inventory_abs |-> 0]

MCContext ==
  [i \in Indices |-> [full |-> TRUE, magic |-> IF i = 1 THEN "percmatc" ELSE "ballast",
                      version |-> 3, lp_pda |-> i, terms |-> Terms1]]
=============================================================================
