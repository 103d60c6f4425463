SPECIFICATION Spec
CONSTANTS
  Exchanges = {"KUCOIN", "OKX", "CRYPTO"}
  BidLists <- MCBidLists
  AskLists <- MCAskLists
  Quotes <- MCQuotes
  MaxDepth = 2
INVARIANT BestBidValid
CHECK_DEADLOCK FALSE
