SPECIFICATION MetalSpec
CONSTANTS
    Services = {"s"}
    Wants = {"up", "zero", "gone", "unclaimed"}
    Specs = {1, 2}
    OtherEngines = 1
    Threshold = 1
    Recreates = FALSE
    MaxEdits = 2
    MaxStarts = 2
    MaxTroubles = 2
INVARIANT MetalTypeOK
INVARIANT EnginesAccounted
 
