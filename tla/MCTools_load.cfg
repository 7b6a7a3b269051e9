CONSTANTS
    B = 8
    NText = 2
    NData = 2
    PadWords = 1
    Images <- MCImages
    Names <- MCNames
    Texts <- MCTexts
    Orders = {"big", "little"}
    V1 = 40
    Mem1 = 6
    V2 = 50
    Mem2 = 4
    Hog = {8, 9}
    BS1 = 44
SPECIFICATION Spec
INVARIANTS TypeOK PatchIsExact LoadedAsLinked StartsPrepared HooksAreReady TextHid4IsWii
PROPERTIES PatchIsLoaded
CHECK_DEADLOCK FALSE
