CONSTANTS
    Timestamps = {0, 1, 2, 3, 4}
    MaxFiles = 7
SPECIFICATION MCSpec
INVARIANT ReturnsLastNotAfter
PROPERTY ReturnsOrGetsStuck
