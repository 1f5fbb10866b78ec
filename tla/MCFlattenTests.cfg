CONSTANT Hierarchies <- TestHierarchies
CONSTANT MeshSizes = {1}
CONSTANT SpidergonSizes = {1}
CONSTANTS
    Strings <- MCStrings
    Encoded <- MCEncoded
    Literals <- MCLiterals
    Letter <- MCLetter
    Numerals = {"1"}
    Beginnings <- MCBeginnings
    MaxText = 1
    MaxTyped = 1
    Texts = {}
    Parsed = {}
    Names = {}
    Classes = {}
    Markers = {}
    Bits = 8
SPECIFICATION MCSpec
CHECK_DEADLOCK FALSE
INVARIANT
    OwnEndsStayInside
