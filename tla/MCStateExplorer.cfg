SPECIFICATION WatchSpec
CONSTANTS
    None = None
    LoadMore = LoadMore
    v1 = v1
    v2 = v2
    v3 = v3
    Folders <- MCFolders
    Keys <- MCKeys
    Calls = {call1, call2, call3}
    MaxFaults = 1
SYMMETRY Symmetric
INVARIANTS
    MarkIsLast
    SpinnersStop
    PagesInOrder
    ResultIsOfLastSearch
    EntryWatchedAtItsKey
