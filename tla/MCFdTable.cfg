CONSTANTS
    MaxFds = 5
    Handles <- MCHandles
    Half = 2
    MaxPos = 4
    MaxCount = 1
    Fds <- MCFds
    Highs <- MCHighs
    Lows <- MCLows
    IovLists <- MCIovLists
SPECIFICATION FdSpec
INVARIANT HandlesExact
PROPERTIES SeekHonest TransferAccounted
