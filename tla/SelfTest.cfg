SPECIFICATION Spec
CONSTANT Tests <- MCTests
CHECK_DEADLOCK FALSE
INVARIANTS
    BoardStaysFresh
    SameAsDodecahedron
    GeneratorsAgree
    LegalityIsForeseen
    TextRoundTrips
    MagicTablesAreExact
    TagIsFresh
    ColumnsCountWhatTheyName
    PickedOnce
PROPERTY UnmakeRestores
