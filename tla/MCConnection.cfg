SPECIFICATION FairSpec
CONSTANTS
  Exchanges = {"KUCOIN", "OKX", "CRYPTO"}
  MaxSessions = 2
  MaxWrites = 3
INVARIANTS TypeOK WriteFlagHonest WrittenInOrder KeepsReading
PROPERTIES WritesGoOn SessionKept
\* The model stops when the streams and messages are used up, or has crashed.
CHECK_DEADLOCK FALSE
