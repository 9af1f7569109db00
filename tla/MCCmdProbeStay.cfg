SPECIFICATION Spec
CHECK_DEADLOCK FALSE
CONSTANTS
    Codes <- CodesOfTwo
    Empty = Empty
    Texts = {text}
PROPERTIES
    StillAlive
