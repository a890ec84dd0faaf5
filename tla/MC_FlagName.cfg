CONSTANTS
    Alphabet = {"a", "Z", "0", "-", "_"}
    MaxLen = 4
    IdAlphabet = {"a", "A", "0", "_"}
    IdMaxLen = 2
SPECIFICATION Spec
INVARIANT AcceptsExactlyGrammar
INVARIANT NormalisedToLowerGrammar
INVARIANT FileNameInjective
\* one call per behaviour; after it (and get_filename) there is no step
CHECK_DEADLOCK FALSE
