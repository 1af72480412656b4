\* The structural invariants of the table, and the map contract, under every sequence of operations on keys whose
\* chains stay within two buckets (no key 0).
CONSTANTS
    Keys <- ShortChainKeys
    Data = {d1, d2}
    Null = Null
    InitSize <- MCInitSize
    MaxSize <- MCMaxSize
    SizeMax <- MCSizeMax
SPECIFICATION Spec
INVARIANT TypeOK
INVARIANT KeysUnique
INVARIANT ChainPlacement
INVARIANT LoadBounded
INVARIANT CountExact
PROPERTY InsertPreservesEntries
PROPERTY AbstractMapSpec
