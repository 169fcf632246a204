CONSTANTS
  Names <- MCNames
  Forms <- MCForms
  MaxPosts = 3
  MaxCmds = 1
  MaxFetches = 1
SPECIFICATION Spec
INVARIANTS
  TypeOK
  InStep
PROPERTIES
  EmptiedByOldCopy
