SPECIFICATION Spec
CONSTANTS
    NumSlices = 4
    MaxBytes = 5
INVARIANT
    StreamInv
PROPERTY
    ImplementsByteStream
