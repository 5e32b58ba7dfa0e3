\* Every tree of depth two over two names, with the exclusion list ["a"].
CONSTANTS
    Names <- MCNames
    NameOrder <- MCNameOrder
    Exclusions <- MCOneKey
SPECIFICATION Spec
PROPERTY QuantizedAsSpecified
\* quantization() returns: a single step ends every behaviour.
CHECK_DEADLOCK FALSE
