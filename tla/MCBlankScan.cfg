\* The constants of probe.rs keep their order and no common divisor.
CONSTANTS
    Chunk = 2
    Deep = 3
    Sample = 2
    Stride = 7
    Tail = 2
    Longest = 17
    Blanks <- MCBlanks
    Writes <- MCWrites
SPECIFICATION FairSpec
INVARIANTS TypeOK LongStretchesAreFound EndsAreRead FoundIsFirst AnswersForItsSample
PROPERTIES ScanEnds
