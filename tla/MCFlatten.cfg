CONSTANT Hierarchies <- MCHierarchies
CONSTANT MeshSizes = {1, 2, 3, 4}
CONSTANT SpidergonSizes = {1, 2, 3, 5, 8}
CONSTANTS
    Strings <- MCStrings
    Encoded <- MCEncoded
    Literals <- MCLiterals
    Letter <- MCLetter
    Numerals = {"1"}
    Beginnings <- MCBeginnings
    MaxText = 7
    MaxTyped = 4
    Texts <- MCTexts
    Parsed <- MCParsed
    Names <- MCNames
    Classes <- MCClasses
    Markers <- MCMarkers
    Bits = 8
SPECIFICATION MCSpec
CHECK_DEADLOCK FALSE
INVARIANTS
    FlattenKeepsMeaning
    GeneratedRoutes
    WrittenIsRead
    TextsAreKept
