\* Every combination of installed and missing tools.
CONSTANT Total = 7
SPECIFICATION Spec
INVARIANT EveryToolIsScanned
CHECK_DEADLOCK FALSE
