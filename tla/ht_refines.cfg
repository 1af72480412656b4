\* Three keys that share a slot up to size 8: deleting the middle bucket of a chain.
CONSTANTS
    Keys <- FdKeys
    Data = {d1, d2}
    Null = Null
    InitSize <- MCInitSize
    MaxSize <- MCMaxSize
    SizeMax <- MCSizeMax
SPECIFICATION Spec
PROPERTY AbstractMapSpec
