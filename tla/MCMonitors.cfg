\* Two gateways with up to three rules; four monitors, two requests at a time.
CONSTANTS
    Gateways = {g1, g2}
    MaxRules = 3
    MaxLost = 2
    Threads = {t1, t2}
    MaxStarted = 4
SPECIFICATION MonitorsSpec
INVARIANTS
    MirrorsAsAsked
    StoppedAreDead
