\* Comparisons used as values.
SPECIFICATION Spec
CONSTANT Programs <- ComparisonPrograms
INVARIANT OperandsWellTyped
