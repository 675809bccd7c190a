SPECIFICATION AssemblerSpec
CONSTANT Numbers = {5}
INVARIANTS FittingIsAssembled CodeSaysInstruction
CHECK_DEADLOCK FALSE
