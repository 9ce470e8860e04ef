------------------------ MODULE PauseOrchestrator --------------------------
(***************************************************************************)
(* The operations of cw-pause-once's PauseOrchestrator on its two storage  *)
(* items, held together in a record [pauser, paused].                      *)
(***************************************************************************)
EXTENDS Options

CONSTANT Accounts       \* the addresses that may be appointed pauser

PauseState == [pauser : Accounts \cup {None}, paused : BOOLEAN]

\* error_if_paused returns Ok
NotPaused(po) == ~po.paused

\* Anyone may pause while a pauser is set (a mutation).
PauseAllowedToAnyone(po, sender) == NotPaused(po) /\ po.pauser # None

\* pause returns Ok: not paused, a pauser is set and it is the sender.
PauseAllowed(po, sender) ==
    /\ NotPaused(po)
    /\ po.pauser # None
    /\ po.pauser = sender

\* The pauser forgets to give up the right to pause (a mutation).
PauseKeepingPauser(po) == [po EXCEPT !.paused = TRUE]

\* What pause writes: the right to pause is used up.
pause(po) == [po EXCEPT !.pauser = None, !.paused = TRUE]

\* set_pauser: appoints (or removes) the pauser and unpauses.
set_pauser(newPauser) == [pauser |-> newPauser, paused |-> FALSE]
============================================================================
