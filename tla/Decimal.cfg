SPECIFICATION Spec
CONSTANTS
    Texts <- MCTexts
    Precision = 4
    Scale = 2
    MaxAbsExponent = 3
INVARIANTS
    DInv
    AcceptedIsStored
    FingerprintIsCanonical
    ArithmeticIsExact
