SPECIFICATION Spec
CONSTANTS
    Clients = {c1, c2}
    Workers = {w1, w2}
    MaxHello = 2
    MaxObs = 2
    MaxGen = 3
SYMMETRY Symmetry
INVARIANTS
    SeqGrows
    KeyBindsHandshake
    V3SameSession
