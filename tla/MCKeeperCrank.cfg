\* The bot and the liquidator on one market.
SPECIFICATION KeeperSpec
CONSTANTS
  Accounts <- ThreeAccounts
  Size <- Sizes
  Capital <- Capitals
  Bots = {bot}
  Liquidators = {liquidator}
  bot = bot
  liquidator = liquidator
  TxRoom = 2
  Budget = 2
INVARIANTS KeeperTypeOK
PROPERTIES LargestAreLiquidated StaleIsCranked
