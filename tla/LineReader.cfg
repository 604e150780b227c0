\* Two lines, the second of which may arrive with the first, on each of two
\* connections, of which the first may be lost between any two symbols.
SPECIFICATION Spec
CONSTANTS
    Lines <- JsonLines
    ParseLine <- Parse
    Messages <- MCMessages
    Others <- MCOthers
    Words <- MCWords
    User <- MCUser
    Hex <- MCHex
    ShareId <- MCShareId
    Depth = 3
    Precision = 2
    LongLong = 3
    MaxDigits = 4
    Overflowed <- MCOverflowed
    RecvSize = 30
    MaxLines = 2
    MaxConns = 2
INVARIANT TypeOK
INVARIANT LinesAsSent
INVARIANT NoLineWaits
INVARIANT PartsAreMalformed
INVARIANT SharesNameTheirJob
CHECK_DEADLOCK FALSE
