------------------------- MODULE CandidateInventory -------------------------
(***************************************************************************)
(* What a scan promises, without its goroutines and channels: every entry   *)
(* met by the walk is settled at most once, an entry that proves to be a    *)
(* candidate is appended to the inventory as it is settled, and the scan    *)
(* ends either "complete", with every entry settled, or "stopped".          *)
(***************************************************************************)
EXTENDS Sequences

CONSTANT Entries

VARIABLES settled,    \* entries whose fate is known
          inventory,  \* the JSONL records, in the order they were written
          status      \* "open", "complete" or "stopped"

vars == <<settled, inventory, status>>

Init == /\ settled = {}
        /\ inventory = <<>>
        /\ status = "open"

\* An entry that is no candidate: a directory, an error, a score of zero.
Settle(e) == /\ status = "open"
             /\ e \notin settled
             /\ settled' = settled \cup {e}
             /\ UNCHANGED <<inventory, status>>

\* An entry that is a candidate becomes the next record.
Record(e) == /\ status = "open"
             /\ e \notin settled
             /\ settled' = settled \cup {e}
             /\ inventory' = Append(inventory, e)
             /\ UNCHANGED status

Complete == /\ status = "open"
            /\ settled = Entries
            /\ status' = "complete"
            /\ UNCHANGED <<settled, inventory>>

Stop == /\ status = "open"
        /\ status' = "stopped"
        /\ UNCHANGED <<settled, inventory>>

Finish == Complete \/ Stop

Next == (\E e \in Entries : Settle(e) \/ Record(e)) \/ Finish

\* A scan that is open is eventually over, one way or the other.
Spec == Init /\ [][Next]_vars /\ WF_vars(Finish)
=============================================================================
