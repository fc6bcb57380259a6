---------------------------- MODULE AtomicRecord ----------------------------
(***************************************************************************)
(* What the control store promises its writers: a WorkOrder changes as if  *)
(* every operation read the record, decided and wrote the result in one    *)
(* step, alone.  Whole operations only, each on the version before it.     *)
(***************************************************************************)
EXTENDS Integers

CONSTANTS
    Id, NoRecord,
    Initial,          \* records a WorkOrder starts with
    Outcome(_)        \* records one operation may make of a record

VARIABLE record

Start(id) == record[id] = NoRecord /\ \E first \in Initial : record' = [record EXCEPT ![id] = first]

Operate(id) ==
    /\ record[id] # NoRecord
    /\ \E new \in Outcome(record[id]) :
          record' = [record EXCEPT ![id] = [new EXCEPT !.version = record[id].version + 1]]

Next == \E id \in Id : Start(id) \/ Operate(id)
Spec == record \in [Id -> Initial \cup {NoRecord}] /\ [][Next]_record
=============================================================================
