\* The longest validity the configuration allows, which the default has too.
SPECIFICATION TokenSpec
CONSTANTS
    Rotation = 3
    Validity = 6
    MaxTime = 14
CHECK_DEADLOCK FALSE
INVARIANTS TokenExpires TokenLives
