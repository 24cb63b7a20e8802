--------------------------- MODULE DepositReports ---------------------------
(***************************************************************************)
(* What deposit_to_alphasec() promises about its answer                    *)
(* (src/alphasec/api/api.py:446-474): "status": True only for a deposit    *)
(* that the chain has carried out, "deposit failed" only for one it has    *)
(* not carried out and never will.  An exception promises nothing: the     *)
(* transaction may be mined before or after it.  No deposit is carried out *)
(* twice.                                                                  *)
(***************************************************************************)
CONSTANT Deposits

VARIABLES
    moved,    \* the deposits that were carried out on the chain
    answer    \* what each call has answered

vars == <<moved, answer>>

Init ==
    /\ moved = {}
    /\ answer = [d \in Deposits |-> "none"]

Move(d) ==
    /\ d \notin moved
    /\ answer[d] \in {"none", "error"}
    /\ moved' = moved \cup {d}
    /\ UNCHANGED answer

Answer(d, result) ==
    /\ answer[d] = "none"
    /\ result = "ok" => d \in moved
    /\ result = "failed" => d \notin moved
    /\ answer' = [answer EXCEPT ![d] = result]
    /\ UNCHANGED moved

Next ==
    \E d \in Deposits :
        \/ Move(d)
        \/ \E result \in {"ok", "failed", "error"} : Answer(d, result)

Spec == Init /\ [][Next]_vars
=============================================================================
