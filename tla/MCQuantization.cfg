\* Every tree of depth two over two names, every exclusion list over three keys.
CONSTANTS
    Names <- MCNames
    NameOrder <- MCNameOrder
    Exclusions <- MCExclusions
SPECIFICATION Spec
INVARIANT TypeOK
PROPERTY QuantizedUnlessExcluded
INVARIANT ReplacedFlagExact
\* quantization() returns: a single step ends every behaviour.
CHECK_DEADLOCK FALSE
