CONSTANTS
    LONG_MAX = 63
    LLONG_MAX = 127
    SIZE_MAX = 1023
    INT_MAX = 40000
    MAXYEAR = 2020
    MaxBytes = 4
    DigitOf <- MCDigitOf
    Memories <- MCMemories
    Tokenized <- MCTokenized
    Numerals <- MCNumerals
    Bases = {0, 8, 10, 16}
    Arrays <- MCArrays
    Pieces <- MCPieces
    WideStrings <- MCWideStrings
    Times <- MCTimes
    Calendars <- MCCalendars
    TimeFormats <- MCTimeFormats
    Prints <- MCPrints
    MAXPREC = 5
    CharMod = 16
    ShortMod = 64
    IntMod = 256
    LongMod = 512
    FOPEN_MAX = 2
    BUFSIZ = 2
    Letters = {97, 10}
    NL = 10
    Texts <- MCTexts
    Contents <- MCContents
    Modes = {"r", "w", "a", "r+", "w+"}
    Moves <- MCMoves
    MaxOps = 5
    MaxFaults = 1
    MaxLen = 3
SPECIFICATION MCSpec
INVARIANTS
  CallsAsInC
  FormatsAsInC
  StreamsAsInC
  NothingLost
