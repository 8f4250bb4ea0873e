SPECIFICATION Spec
CONSTANTS
    Texts = {t1, t2, t3}
    Question = q
    SubQueries = {s1}
    Confs <- SomeConfs
    Ks = {1, 2}
    Factor = 2
    MaxIter = 2
    MaxCopies = 2
    MaxStored = 4
SYMMETRY TextSymmetry
INVARIANTS
    ContextGrows
    SlotPerQuery
    ExhaustionIsReal
    ConsensusWins
CHECK_DEADLOCK FALSE
