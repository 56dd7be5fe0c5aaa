SPECIFICATION FairSpec
CONSTANTS
    Lanes = 2
    Width = 6
    NumRegs = 4
    NumVars = 7
    HeapSize = 4
    Garbage = {0, 5}
    Kernels <- Kernels1
INVARIANTS Executable
PROPERTIES CompiledRight
