\* Three accounts, each appointed at most twice.
SPECIFICATION Spec
CONSTANTS
    Accounts = {dao, council, bot}
    None = None
    MaxAppointments = 2
INVARIANTS PauseInv PausesEarned
