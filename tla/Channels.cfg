\* Two ends of bridges, one of the tester and two of other applications.
SPECIFICATION FairSpec
CONSTANTS
    None = None
    Bridges = {b1, b2}
    Testers = {x1}
    Others = {o1, o2}
    Versions = {"ics721-1", "other"}
CHECK_DEADLOCK FALSE
INVARIANTS TypeOK OpenSpeaksIcs721 BridgesStayConnected
PROPERTIES CloseFollows HandshakeEnds
