SPECIFICATION Spec
CONSTANTS
    r1 = r1
    r2 = r2
    c1 = c1
    c2 = c2
    a = a
    b = b
    big = big
    dir = dir
    gone = gone
    Readers <- MCReaders
    Conns <- MCConns
    MaxAsks = 3
    Blobs <- MCBlobs
    Big = {big}
    Trees = {}
    Nowhere = {gone}
    Control = {b}
    Junk = Junk
    Garbled = Garbled
    Missing = Missing
    Failed = Failed
    None = None
SYMMETRY Symmetry
INVARIANTS
    InStep
    NoOrphan
PROPERTY Promise
