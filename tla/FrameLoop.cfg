SPECIFICATION FairSpec
CONSTANTS
    Main = Main
    Nobody = Nobody
    Workers = {w1, w2}
    IntMax = 1
    MaxMsgs = 2
INVARIANTS
    FrameIsolation
    NoLostFrame
    OneStack
    CleanShutdown
PROPERTIES
    BlockedForGood
    FrameCompletes
    CloseEndsProcess
    ImplementsPipeline
