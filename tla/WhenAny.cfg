SPECIFICATION FairSpec
CONSTANTS
    NumResults = 3
INVARIANTS OneAnswer ContextWhole
PROPERTIES AnsweredUnlessMissed
