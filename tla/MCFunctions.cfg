\* Blocks of eight bytes, lengths in words of seven bits.
CONSTANTS
    CodePoints <- Boundaries
    Inputs <- SomeInputs
    CharSigned = TRUE
    Block = 8
    Word = 128
SPECIFICATION Spec
INVARIANTS ShortestIsAccepted Base64RoundTrip UnescapeUndoesEscape IdsAgreeWithTexts
    StanzasRead LintJudges DigestBlocks
CHECK_DEADLOCK FALSE
