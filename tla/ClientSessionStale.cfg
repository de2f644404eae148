SPECIFICATION SessionSpec
CONSTANT MaxAttempts = 2
PROPERTY
    OnlyItsOwnEnd
