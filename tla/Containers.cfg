CONSTANTS
    LastKey = 6
    EqualKeys = {4}
    Copies = 2
    TreeAvoids = {"not first", "only node"}
    HashKeys = {0, 1, 2, 3, 5, 10}
    PrimesList <- MCPrimes
    HashAvoids = {"second", "chains"}
    TrieStrings <- MCStrings
    TrieValues = {1, 2}
    TrieAvoids = {"empty"}
    HeapKeys = {1, 2, 3, 4, 5, 6}
    Scores = {1, 2}
    HeapLists <- MCHeapLists
    HeapAvoids = {"tie", "duplicates"}
    ListValues = {1, 2, 3}
    MostNodes = 4
    Elements = {1, 2}
    MostElements = 5
    MostReserved = 6
    VectorAvoids = {"single", "end", "short tail"}
    PrependSize = 2
    InitialSize = 4
    Prependables = {1, 2, 3}
    Chunks <- MCChunks
    ExtraSize = 2
    MostReadable = 6
    BufferAvoids = {"too much"}
    d1 = d1
    d2 = d2
    d3 = d3
    d4 = d4
    None = None
    Dispatchers <- MCDispatchers
    Fd <- MCFd
    Connectors = {d1}
SPECIFICATION Spec
INVARIANTS TreeSound NodesAgree HeapAgrees SequencesAgree
    PollerTypeOK TablesAgree NothingUnasked ActiveNotDestroyed PolledUntilGivenUp
