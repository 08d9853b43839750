SPECIFICATION Spec
CONSTANTS
  Validators = {v1, v2, v3}
  Bytes = 2
  BitsPerByte = 2
INVARIANTS
  TypeOK
  KeyIsOfSigners
  CountIsOfSeats
\* A computation ends.
CHECK_DEADLOCK FALSE
