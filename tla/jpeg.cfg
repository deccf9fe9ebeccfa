\* Blocks of a DC value and four others, of which a symbol skips two.
CONSTANTS
  Final = 4
  MaxRun = 2
  Picture <- MCPicture
SPECIFICATION Spec
INVARIANTS
  ScanExact
PROPERTIES
  FileDecoded
CHECK_DEADLOCK FALSE
