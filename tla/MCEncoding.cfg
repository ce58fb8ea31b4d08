CONSTANTS
  NAMES <- MCNames
  OFFSETS <- MCOffsets
SPECIFICATION Spec
INVARIANTS FieldsRecovered NumbersRecovered
