SPECIFICATION Spec
CONSTANTS
    Values = {value}
    Empty = Empty
INVARIANT
    StateOutlivesResume
