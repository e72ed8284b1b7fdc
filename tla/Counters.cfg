CONSTANTS
    MaxFrames = 5
SPECIFICATION CountersSpec
INVARIANTS OneStraddles
