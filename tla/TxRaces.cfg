\* Two runs of the job overlap; one may be lost.
SPECIFICATION TxSpec
CONSTANTS
    Txs = {t1, t2}
    Runs = {r1, r2}
    Required = 2
    MaxReorg = 1
    MaxCrashes = 1
SYMMETRY Symmetry
INVARIANTS
    SucceedTruthful
PROPERTIES
    StatusSettles
