-------------------------- MODULE PauseOnceProofs --------------------------
(***************************************************************************)
(* cw-pause-once keeps its promise for any set of accounts and any number  *)
(* of appointments.                                                        *)
(***************************************************************************)
EXTENDS PauseOnce, TLAPS

\* set_pauser at instantiation establishes the inductive invariant.
LEMMA PauseInvInit == Init => PauseInv
<1> SUFFICES ASSUME NEW newPauser \in Accounts \cup {None},
                    po = set_pauser(newPauser),
                    appointed = Named(newPauser),
                    pauses = [a \in Accounts |-> 0]
             PROVE  PauseInv
  BY DEF Init
<1>1. TypeOK
  BY DEF TypeOK, PauseState, set_pauser, Named
<1>2. po.paused => po.pauser = None
  BY DEF set_pauser
<1>3. ASSUME NEW a \in Accounts
      PROVE  pauses[a] + Named(po.pauser)[a] <= appointed[a]
  <2>1. po.pauser = newPauser /\ pauses[a] = 0
    BY DEF set_pauser
  <2>2. Named(newPauser)[a] \in {0, 1}
    BY DEF Named
  <2> QED BY <2>1, <2>2
<1> QED BY <1>1, <1>2, <1>3 DEF PauseInv

\* Appointing adds a pause in hand and an appointment; pausing turns the
\* pause in hand into a pause.
LEMMA PauseInvStep == PauseInv /\ [Next]_vars => PauseInv'
<1> SUFFICES ASSUME PauseInv, [Next]_vars PROVE PauseInv'
  OBVIOUS
<1> USE PauseOnceAssumption
<1>1. ASSUME NEW newPauser \in Accounts \cup {None}, Appoint(newPauser)
      PROVE  PauseInv'
  <2>1. TypeOK'
    BY <1>1 DEF PauseInv, TypeOK, Appoint, PauseState, set_pauser, Named
  <2>2. po'.pauser = newPauser /\ ~po'.paused
    BY <1>1 DEF Appoint, set_pauser
  <2>3. ASSUME NEW a \in Accounts
        PROVE  pauses'[a] + Named(po'.pauser)[a] <= appointed'[a]
    <3>1. /\ pauses'[a] = pauses[a]
          /\ appointed'[a] = appointed[a] + Named(newPauser)[a]
      BY <1>1 DEF Appoint
    <3>2. /\ pauses[a] \in Nat /\ appointed[a] \in Nat
          /\ Named(newPauser)[a] \in {0, 1} /\ Named(po.pauser)[a] \in {0, 1}
      BY DEF PauseInv, TypeOK, Named
    <3>3. pauses[a] + Named(po.pauser)[a] <= appointed[a]
      BY DEF PauseInv
    <3> QED BY <2>2, <3>1, <3>2, <3>3
  <2> QED BY <2>1, <2>2, <2>3 DEF PauseInv
<1>2. ASSUME NEW sender \in Accounts, Pause(sender)
      PROVE  PauseInv'
  <2>1. /\ po \in PauseState /\ po.pauser = sender
        /\ po' = [po EXCEPT !.pauser = None, !.paused = TRUE]
        /\ pauses' = [pauses EXCEPT ![sender] = @ + 1]
        /\ appointed' = appointed
    BY <1>2 DEF Pause, PauseAllowed, pause, PauseInv, TypeOK
  <2>2. po' \in PauseState /\ po'.pauser = None
    BY <2>1 DEF PauseState
  <2>3. TypeOK'
    BY <2>1, <2>2 DEF PauseInv, TypeOK
  <2>4. ASSUME NEW a \in Accounts
        PROVE  pauses'[a] + Named(po'.pauser)[a] <= appointed'[a]
    <3>1. Named(po'.pauser)[a] = 0
      BY <2>2 DEF Named
    <3>2. pauses'[a] = pauses[a] + Named(po.pauser)[a]
      BY <2>1 DEF PauseInv, TypeOK, Named
    <3>3. /\ pauses[a] + Named(po.pauser)[a] <= appointed[a]
          /\ pauses[a] \in Nat /\ Named(po.pauser)[a] \in {0, 1}
      BY DEF PauseInv, TypeOK, Named
    <3> QED BY <2>1, <3>1, <3>2, <3>3
  <2> QED BY <2>2, <2>3, <2>4 DEF PauseInv
<1>3. CASE UNCHANGED vars
  BY <1>3 DEF vars, PauseInv, TypeOK, Named
<1> QED BY <1>1, <1>2, <1>3 DEF Next

\* A pauser in office has a pause in hand that it was appointed to, and no one
\* is in office during a pause, in every reachable state.
THEOREM PauseInvCorrect == Spec => []PauseInv
BY PauseInvInit, PauseInvStep, PTL DEF Spec

\* "allows a specified address to execute a pause a single time": for every
\* set of accounts, none pauses more often than it was appointed.
THEOREM PauseOnceCorrect == Spec => []PausesEarned
<1>1. PauseInv => PausesEarned
  <2> SUFFICES ASSUME PauseInv, NEW a \in Accounts
               PROVE  pauses[a] <= appointed[a]
    BY DEF PausesEarned
  <2>1. /\ pauses[a] + Named(po.pauser)[a] <= appointed[a]
        /\ pauses[a] \in Nat /\ appointed[a] \in Nat
        /\ Named(po.pauser)[a] \in {0, 1}
    BY DEF PauseInv, TypeOK, Named
  <2> QED BY <2>1
<1> QED BY PauseInvInit, PauseInvStep, <1>1, PTL DEF Spec
============================================================================
