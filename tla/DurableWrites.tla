---------------------------- MODULE DurableWrites ----------------------------
(***************************************************************************)
(* What the Wal trait (influxdb3_wal/src/lib.rs) promises its callers:     *)
(* once write_ops returns Ok the operations are durable.  "recoverable" is *)
(* the set of rows a restart would load; it changes freely, except that a  *)
(* row is acknowledged only while it is there, and never leaves it then.   *)
(***************************************************************************)
CONSTANT Writes

VARIABLES status, rowsOf, recoverable

Init ==
    /\ status = [w \in Writes |-> "new"]
    /\ rowsOf = [w \in Writes |-> {}]
    /\ recoverable = {}

\* A request arrives with its rows: it waits, returns at once or is refused.
Submit(w) ==
    /\ status[w] = "new"
    /\ \E s \in {"pending", "unsynced", "failed"} :
           status' = [status EXCEPT ![w] = s]
    /\ \A v \in Writes \ {w} : rowsOf'[v] = rowsOf[v]
    /\ UNCHANGED recoverable

\* The store changes; waiting requests, possibly none, are answered.
Progress(ws, answer) ==
    /\ \A w \in ws :
        /\ status[w] = "pending"
        /\ answer = "acked" => rowsOf[w] \subseteq recoverable
    /\ status' = [w \in Writes |-> IF w \in ws THEN answer ELSE status[w]]
    /\ \A w \in Writes :
           status'[w] = "acked" => rowsOf[w] \subseteq recoverable'
    /\ UNCHANGED rowsOf

Next ==
    \/ \E w \in Writes : Submit(w)
    \/ \E ws \in SUBSET Writes, answer \in {"acked", "failed"} :
           Progress(ws, answer)

Spec == Init /\ [][Next]_<<status, rowsOf, recoverable>>
=============================================================================
