SPECIFICATION Spec
CONSTANTS
    Runs = {f, g}
    Readers = {d, e}
    Unheard = {g}
INVARIANTS
    ResultWhole
    AnswerStands
PROPERTIES
    ImplementsAudit
