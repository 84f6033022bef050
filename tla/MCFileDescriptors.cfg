\* Both copies on all import graphs over four files, two loads in a row.
CONSTANTS
    FileCount = 4
    MaxLoads = 2
SPECIFICATION Spec
INVARIANTS
    BuiltOnce
    LoadedWithImports
PROPERTY
    LoadReturns
