SPECIFICATION FairSpec
CONSTANTS
    NumResults = 2
PROPERTIES AlwaysAnswered
