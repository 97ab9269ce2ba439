CONSTANTS
    NoAdapter = NoAdapter
    Adapters = {a, b}
    MaxChanges = 1
    MaxRebuilds = 2
SPECIFICATION Spec
INVARIANT RejectsStaleGenerations
