SPECIFICATION Spec
CONSTANTS
  Exchanges = {"KRAKEN", "KUCOIN", "OKX", "CRYPTO"}
  BidLists <- MCBidLists
  AskLists <- MCAskLists
  Quotes <- MCQuotes
  MaxDepth = 2
INVARIANTS
  TypeOK
  BookSorted
  MergeOverrides
  CompleteReplaces
  StrategyKnowsBest
CHECK_DEADLOCK FALSE
