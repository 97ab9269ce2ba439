CONSTANTS
    NoAdapter = NoAdapter
    Adapters = {a, b}
    MaxChanges = 2
    MaxRebuilds = 3
SPECIFICATION Spec
SYMMETRY AdapterSymmetry
INVARIANT PageTellsTheHardware
PROPERTY KeepsLastValid
