\* Four buffers: enough for two to wait behind one in flight and one posted.
CONSTANT MaxWrites = 4
SPECIFICATION FairSpec
INVARIANTS SingleWriter NoStall
PROPERTIES EventuallyWritten ImplementsChannel
