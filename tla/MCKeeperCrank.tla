--------------------------- MODULE MCKeeperCrank ---------------------------
(* Three accounts whose order by size is not their order by leverage, and  *)
(* a transaction with room for two candidates.                             *)
EXTENDS KeeperCrank

ThreeAccounts == {1, 2, 3}
Sizes == <<3, 2, 2>>
Capitals == <<9, 1, 0>>
=============================================================================
