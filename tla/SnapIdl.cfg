SPECIFICATION Spec
CONSTANTS
  Root = "game"
  Menu <- AllDeclarations
  FieldHelpers = {"u8", "i8", "bool", "qf32", "string", "bytes", "array"}
  MaxFields = 32
  MaxDeclarations = 4
INVARIANTS
  LayoutsAgree
  GeneratedLoads
CHECK_DEADLOCK FALSE
