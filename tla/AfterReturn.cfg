\* Statements after a return.
SPECIFICATION Spec
CONSTANT Programs <- ControlPrograms
INVARIANT NothingAfterTerminator
