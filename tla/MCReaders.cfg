\* Integers of two bytes, output buffers of one to six.
CONSTANTS
    IntBytes = 2
    HeadLines = 2
    TailLines = 3
    Headers <- MCHeaders
    Datas <- MCDatas
    Sizes = {1, 2, 3, 4, 6}
    Elements <- MCElements
    Names <- MCNames
    Hosts <- MCHosts
    Dumps <- MCDumps
SPECIFICATION CallSpec
CHECK_DEADLOCK FALSE
INVARIANTS
    TextIsRecovered
    ElementsAreRead
    LoopsLoseNothing
