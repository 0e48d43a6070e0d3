CONSTANTS
    Timestamps = {0, 1, 2, 3, 4}
    MaxFiles = 3
SPECIFICATION MCSpec
PROPERTY Returns
