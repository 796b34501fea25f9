------------------------------ MODULE RunLedger ------------------------------
(***************************************************************************)
(* What the alignment engine promises about the runs of one branch, as a   *)
(* reader of drift_runs sees it: rows are appended and never reopened; at  *)
(* most one is running, and it is the newest; its progress counts up to    *)
(* its total one unit at a time; it closes as ok or error only with every  *)
(* unit done, as cancelled or capped only with some left, and as           *)
(* interrupted wherever a restart caught it.                               *)
(***************************************************************************)
EXTENDS Integers

CONSTANTS
    MaxRuns,   \* bound on rows
    MaxTotal   \* the most units a run can have

VARIABLES
    row,   \* [run -> its status, number of units and number of units done]
    last   \* the newest run

RunId == 1..MaxRuns
Running == {r \in RunId : row[r].status = "running"}

Init ==
    /\ row = [r \in RunId |-> [status |-> "none", total |-> 0, done |-> 0]]
    /\ last = 0

Open ==
    /\ last < MaxRuns /\ Running = {}
    /\ last' = last + 1
    /\ \E n \in 1..MaxTotal :
         row' = [row EXCEPT ![last + 1] =
                   [status |-> "running", total |-> n, done |-> 0]]

Advance ==
    /\ \E r \in Running :
         /\ row[r].done < row[r].total
         /\ row' = [row EXCEPT ![r].done = @ + 1]
    /\ UNCHANGED last

Close ==
    /\ \E r \in Running, s \in {"ok", "error", "cancelled", "capped", "interrupted"} :
         /\ s \in {"ok", "error"} => row[r].done = row[r].total
         /\ s \in {"cancelled", "capped"} => row[r].done < row[r].total
         /\ row' = [row EXCEPT ![r].status = s]
    /\ UNCHANGED last

Next == Open \/ Advance \/ Close
Spec == Init /\ [][Next]_<<row, last>>
=============================================================================
