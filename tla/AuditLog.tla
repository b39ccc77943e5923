------------------------------ MODULE AuditLog ------------------------------
(***************************************************************************)
(* What AuditPort promises, and what the in-memory adapter does in one     *)
(* synchronous step: one ever-growing list of events per workspace, to     *)
(* which a call appends all of its entries at once or none of them, and    *)
(* answers ok only if it did.                                              *)
(***************************************************************************)
EXTENDS Naturals, Sequences

CONSTANTS Workspaces, Events, Writers, Calls

VARIABLES
  log,       \* the events of a workspace, oldest first
  running,   \* which writers are inside write() or writeBatch()
  call,      \* the arguments of that call
  acked      \* whether the last finished call answered ok

vars == <<log, running, call, acked>>

Init ==
  /\ log = [ws \in Workspaces |-> <<>>]
  /\ running = [w \in Writers |-> FALSE]
  /\ call \in [Writers -> Calls]
  /\ acked = [w \in Writers |-> FALSE]

Invoke(w) ==
  /\ ~running[w]
  /\ \E c \in Calls : call' = [call EXCEPT ![w] = c]
  /\ running' = [running EXCEPT ![w] = TRUE]
  /\ acked' = [acked EXCEPT ![w] = FALSE]
  /\ UNCHANGED log

\* The answer may be lost on its way to the caller.
writeBatch(w) ==
  /\ running[w]
  /\ log' = [log EXCEPT ![call[w].ws] = @ \o call[w].entries]
  /\ running' = [running EXCEPT ![w] = FALSE]
  /\ acked' \in {acked, [acked EXCEPT ![w] = TRUE]}
  /\ UNCHANGED call

GiveUp(w) ==
  /\ running[w]
  /\ running' = [running EXCEPT ![w] = FALSE]
  /\ UNCHANGED <<log, call, acked>>

Next == \E w \in Writers : Invoke(w) \/ writeBatch(w) \/ GiveUp(w)

Spec == Init /\ [][Next]_vars
=============================================================================
