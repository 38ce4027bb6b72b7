SPECIFICATION Spec
CONSTANTS
    Exports = {e1, e2}
    Int64Max = 10
    MaxExponent = 2
    MaxNameBytes = 2
    Reasons = {4, 5}
    MaxEvents = 1
    Schemas <- MCSchemas
    Tables <- MCTables
    Characters <- MCCharacters
    Foreign <- MCForeign
    Limits <- MCLimits
SYMMETRY Symmetry
CHECK_DEADLOCK FALSE
INVARIANT ImportedAsExported
INVARIANT HonestCopyIsAccepted
INVARIANT AcceptedIffInGrammar
