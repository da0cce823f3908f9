SPECIFICATION RedactionSpec
CONSTANTS
  Length = 5
  Patterns = 2
  MaxFindings = 2
INVARIANTS
  NoSecretKept
CHECK_DEADLOCK FALSE
