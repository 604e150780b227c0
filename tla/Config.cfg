\* Command lines of up to three arguments, with and without the files they name.
\* The program has left parseConfig() in the end.
SPECIFICATION Spec
CONSTANTS
    Fields <- MCFields
    ArgTexts <- MCArgTexts
    FileTexts <- MCFileTexts
    Paths <- MCPaths
    MaxArgs = 3
    UInt = 1024
    ULong = 1048576
INVARIANT TypeOK
INVARIANT LoadedIsValid
INVARIANT FlagsOverride
INVARIANT SilentFieldsAreDefaults
PROPERTY NewFileIsDefaults
CHECK_DEADLOCK FALSE
