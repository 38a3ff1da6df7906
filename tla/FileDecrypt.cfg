CONSTANTS
  BlockSize = 3
  MaxByte = 4
  MaxLen = 3
SPECIFICATION Spec
\* One call of DecryptFile: nothing follows it.
CHECK_DEADLOCK FALSE
INVARIANT RoundTrip
