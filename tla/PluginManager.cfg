CONSTANTS
  a = a
  b = b
  server = server
  Callers = {c1}
  Names = {"shell", "demo", "read_file"}
  Owners <- MCOwners
  Files = {a, b}
  Sorted <- MCSorted
  Libraries <- MCLibraries
  Builtins = {"read_file"}
  Server = server
SPECIFICATION Spec
INVARIANTS TypeOK HandlesBalanced RegisteredIsMapped BuiltinsStay LoadedServesItsTools CodeGoesLast
PROPERTY LoadsTheFile
