SPECIFICATION Spec
CONSTANTS
    Runs = {f, g}
    Readers = {d, e}
    Unheard = {f, g}
INVARIANTS
    FailedHasNoRows
