\* The acknowledgement of a packet the tester sent replaces the ack mode.
SPECIFICATION Spec
CONSTANT
    MaxInFlight = 2
INVARIANT AnswersAsChosen
