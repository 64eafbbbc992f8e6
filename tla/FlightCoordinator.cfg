\* Three threads of one session: the locks implement the abstract flight, nobody sleeps on.
SPECIFICATION LiveSpec
CONSTANTS
    Threads = {t1, t2, t3}
    Keys = {k1}
    Versions = {v1, v2}
    Outcomes = {ready}
    None = None
    Flights = {f1, f2, f3}
PROPERTIES
    ImplementsFlightSpec
    WaitersReturn
