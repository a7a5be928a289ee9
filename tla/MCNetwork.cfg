CONSTANTS
  Addresses = 2
  Timeouts = {0, 2}
  TicksPerSecond = 2
  ByteBase = 2
  LengthSize = 2
  Tokens <- MCTokens
  MaxToken = 1
  Capacity = 2
  ReadTries = 1
  WriteTries = 1
  MaxSends = 2
  MaxInterrupts = 1
SPECIFICATION FairSpec
INVARIANT SocketsAccounted
INVARIANT WithinTimeout
INVARIANT TokensIntact
PROPERTY TimedCallsReturn
