----------------------------- MODULE PauseOnce -----------------------------
(***************************************************************************)
(* A contract that is governed through a PauseOrchestrator: the calls the  *)
(* bridge makes (PO in state.rs, contract.rs), with counters that remember *)
(* who was appointed and who paused.                                       *)
(***************************************************************************)
EXTENDS PauseOrchestrator, Naturals

CONSTANT MaxAppointments    \* bound on the appointments of one account

ASSUME PauseOnceAssumption ==
    MaxAppointments \in Nat \ {0} /\ None \notin Accounts

VARIABLES po,
          appointed,        \* how often set_pauser named the account
          pauses            \* how often the account has paused

vars == <<po, appointed, pauses>>

Named(newPauser) == [a \in Accounts |-> IF a = newPauser THEN 1 ELSE 0]

\* instantiate
Init ==
    \E newPauser \in Accounts \cup {None} :
      /\ po = set_pauser(newPauser)
      /\ appointed = Named(newPauser)
      /\ pauses = [a \in Accounts |-> 0]

\* migrate, the only way to a new pauser and out of a pause
Appoint(newPauser) ==
    /\ newPauser # None => appointed[newPauser] < MaxAppointments
    /\ po' = set_pauser(newPauser)
    /\ appointed' = [a \in Accounts |-> appointed[a] + Named(newPauser)[a]]
    /\ UNCHANGED pauses

\* execute_pause, by anyone
Pause(sender) ==
    /\ PauseAllowed(po, sender)
    /\ po' = pause(po)
    /\ pauses' = [pauses EXCEPT ![sender] = @ + 1]
    /\ UNCHANGED appointed

Next ==
    \/ \E newPauser \in Accounts \cup {None} : Appoint(newPauser)
    \/ \E sender \in Accounts : Pause(sender)

Spec == Init /\ [][Next]_vars

\* What the orchestrator stores and the counters count.
TypeOK ==
    /\ po \in PauseState
    /\ appointed \in [Accounts -> Nat]
    /\ pauses \in [Accounts -> Nat]

\* "allows a specified address to execute a pause a single time" (cw-pause-
\* once): no account has paused more often than it was appointed, however
\* governance and the pausers take turns.
PausesEarned == \A a \in Accounts : pauses[a] <= appointed[a]

\* PausesEarned, made inductive: a pauser in office has one pause in hand,
\* and no one is in office during a pause.
PauseInv ==
    /\ TypeOK
    /\ po.paused => po.pauser = None
    /\ \A a \in Accounts :
         pauses[a] + Named(po.pauser)[a] <= appointed[a]
============================================================================
