CONSTANTS
  IvNames = {"@a"}
  ClassNames = {"RuntimeError"}
  MethodNames = {"initialize"}
  MaxDefs = 2
  Extra = 3
SPECIFICATION Spec
INVARIANTS
  AttributesByName
  DispatchByName
  BootstrapComplete
  RuntimeConstantsVisible
CHECK_DEADLOCK FALSE
