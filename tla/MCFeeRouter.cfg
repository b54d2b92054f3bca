\* One user, a treasury, native, wrapped and one more token.
SPECIFICATION Spec
CONSTANTS
  BPS = 3
  Width = 10
  Tokens <- MCTokens
  Native = "eth"
  Wrapped = "weth"
  Accounts <- MCAccounts
  FeeRecipient = "treasury"
  Router = "router"
  World = "world"
  Requests <- MCRequests
  Balances <- MCBalances
  MaxCalls = 1
  MaxGifts = 1
INVARIANTS
  SettlementInvariant
  NothingStanding
  FeeAsQuoted
PROPERTIES
  RouterKeepsItsOwn
  NothingStranded
  ImplementsFairExchange
