------------------------------ MODULE Approval -------------------------------
(***************************************************************************)
(* What the confirmation guard of the console promises (the head of        *)
(* src/web/guard.rs): a destructive job is started by an approval, an      *)
(* approval starts at most one, and it can be lost at any time but never   *)
(* come back.  ConfirmFlow is shown to implement this.                     *)
(***************************************************************************)
CONSTANT Approvals

VARIABLE status     \* the life of each approval

Statuses == {"none", "open", "passed", "started", "void"}

ApprovalInit == status = [a \in Approvals |-> "none"]

\* Pages are drawn, and approvals that wait or have passed are lost.
Move(given, lost) ==
    /\ \A a \in given : status[a] = "none"
    /\ \A a \in lost : status[a] \in {"open", "passed"}
    /\ status' = [a \in Approvals |-> IF a \in given THEN "open"
                                       ELSE IF a \in lost THEN "void" ELSE status[a]]

\* One approval passes the gate; others may be found too old on the way.
Pass(a, lost) ==
    /\ status[a] = "open"
    /\ \A b \in lost : status[b] = "open"
    /\ status' = [b \in Approvals |-> IF b = a THEN "passed"
                                       ELSE IF b \in lost THEN "void" ELSE status[b]]

Start(a) ==
    /\ status[a] = "passed"
    /\ status' = [status EXCEPT ![a] = "started"]

ApprovalNext ==
    \/ \E given, lost \in SUBSET Approvals : Move(given, lost)
    \/ \E a \in Approvals, lost \in SUBSET Approvals : Pass(a, lost)
    \/ \E a \in Approvals : Start(a)

ApprovalSpec == ApprovalInit /\ [][ApprovalNext]_status
=============================================================================
