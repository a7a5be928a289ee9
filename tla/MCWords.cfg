CONSTANTS
  LengthSize = 2
  ByteBase = 2
  MaxArgs = 2
  MaxPayload = 8
  MaxString = 5
  Payloads <- MCPayloads
  Invocations <- MCInvocations
  Strings <- MCStrings
SPECIFICATION WordsSpec
CHECK_DEADLOCK FALSE
INVARIANT InBounds
INVARIANT ArgumentsArrive
