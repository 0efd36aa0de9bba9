\* The real bucket holds 40; three tokens show every way it empties and refills.
CONSTANTS
    Burst = 3
    Second = 2
    MaxTime = 8
SPECIFICATION Spec
INVARIANT TypeOK
INVARIANT WindowBound
