CONSTANTS
    PAGESIZE  = 4
    WORDBITS  = 3
    WORDBYTES = 2
    SCANWORDS = 2
    MAPWORDS  = 3
    SMaps     <- MCSMaps
    PhysFrees <- MCPhysFrees
SPECIFICATION Spec
INVARIANTS
    NoFrameTwice
    ImageAndBitmapKept
    RamOrStale
    NoRamLost
PROPERTIES
    Implements
