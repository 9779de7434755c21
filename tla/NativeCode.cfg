SPECIFICATION Spec
CONSTANTS
    Bits = 3
    Main = 0
    MAX_CALL_DEPTH = 2
    StatusBits = 2
    RUNTIME_FAILURE_STATUS = 2
    Operators = {"add", "sub", "mul", "neg", "div", "rem", "shl", "shr"}
    Negations = {0, 1, 2}
    Programs <- AllPrograms
INVARIANT PlannedIsEmitted
INVARIANT LoadsDecidedByPaths
INVARIANT CyclesReportedOnce
INVARIANT MeansWhatIsWritten
PROPERTY RunsAsInterpreted
