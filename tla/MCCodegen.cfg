CONSTANTS
    Programs <- Functions
    NPhys = 2
    NarrowBits = 2
    WordBits = 3
    InputWords <- InputSet
    MaxInputs = 4
SPECIFICATION Spec
INVARIANTS Preserved NoClobber
CHECK_DEADLOCK FALSE
