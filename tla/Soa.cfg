SPECIFICATION SoaSpec
CONSTANTS
    Blocks = {1024, 2048, 3072}
    ByteValues = {0, 255}
    NumTypes = 3
    TypeSizes = {1, 4, 8}
    Counts = {0, 1, 3, 7}
    Modulus = 64
    Null = 0
INVARIANTS NoLeak FitUnlessWrapped
CHECK_DEADLOCK FALSE
