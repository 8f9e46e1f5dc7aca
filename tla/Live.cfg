SPECIFICATION FairSpec
CONSTANTS
  c1 = c1  c2 = c2
  alice = alice  Alice = Alice  bob = bob
  good = good  bad = bad
  S1 = S1  S2 = S2  S3 = S3
  NA = NA  NaN = NaN  Cent = 10
  Names = {alice, Alice, bob}
  Passwords = {good, bad}
  Codes = {"jrrg", "edg"}
  Clients = {c1, c2}
  Lower <- MCLower
  Encrypt <- MCEncrypt
  Members <- MCMembers
  Stocks = {S1}
  Prices <- OnePrices
  Portfolios <- OnePortfolios
  LoginAs <- OwnLogin
  Typed = {"Y", "N"}
  Shares = {1}
  Commands = {"buy", "sell", "position", "quote", "quoteall"}
  PacedTyping = TRUE
  SleepSuffices = TRUE
  Quitters = {}
  IntMax = 7
  MaxHeld = 2
  MaxPrice = 50
PROPERTIES
  EveryRequestAnswered
  OrdersMoveTime
