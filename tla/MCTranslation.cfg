SPECIFICATION TranslateSpec
CONSTANTS
    Sources <- MCSources
    Options <- MCOptions
    Targets <- MCTargets
    PartialDates <- MCPartial
    Padded <- MCPadded
    NonAscii <- MCNonAscii
    Unparsable <- MCUnparsable
    Datasets <- MCDatasets
    Returns <- MCReturns
    Blocks <- MCBlocks
    NoBlock = 9
    Sibling <- MCSibling
    Odd <- MCOdd
    ZeroLed <- MCZeroLed
    TooLong <- MCTooLong
    Unfit <- MCUnfit
    Spelling <- MCSpelling
    OutOfRange <- MCOutOfRange
    TooFine <- MCTooFine
    Exif3 <- MCExif3
INVARIANTS TranslatedOrNone RepeatChangesNothing ReturnRestores
CHECK_DEADLOCK FALSE
