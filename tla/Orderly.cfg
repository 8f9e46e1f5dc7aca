SPECIFICATION Spec
CONSTANTS
  c1 = c1  c2 = c2
  alice = alice  Alice = Alice  bob = bob
  good = good  bad = bad
  S1 = S1  S2 = S2  S3 = S3
  NA = NA  NaN = NaN  Cent = 10
  Names = {alice, Alice, bob}
  Passwords = {good, bad}
  Codes = {"jrrg", "edg"}
  Clients = {c1, c2}
  Lower <- MCLower
  Encrypt <- MCEncrypt
  Members <- MCMembers
  Stocks = {S1, S2}
  Prices <- MCPrices
  Portfolios <- MCPortfolios
  LoginAs <- SharedLogin
  Typed = {"Y", "N"}
  Shares = {2}
  Commands = {"buy", "sell", "position"}
  PacedTyping = TRUE
  SleepSuffices = TRUE
  Quitters = {}
  IntMax = 9
  MaxHeld = 3
  MaxPrice = 50
INVARIANTS
  OneConversation
  NobodyForgotten
  FreshIndex
  FreshOffer
  TradeAsOrdered
  OnlyWithPermission
  ResultIsTheOrder
  OnePositionPerStock
  SoundPositions
  GainIsCurrent
  Authenticated
PROPERTIES
  SellKeepsAverage
  BuyAveragesBetween
  ImplementsBrokerage
