CONSTANTS
    Name = {n1}
    Lookup = {l1, l2}
    TTL = 2
    HttpTimeout = 2
    MaxTime = 7
    NoEntry = NoEntry
SYMMETRY MCSymmetry
SPECIFICATION Spec
INVARIANTS
    TypeOK
    EntryHadEvidence
    AnswerAge
