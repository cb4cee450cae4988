---------------------------- MODULE SessionLedger ----------------------------
(***************************************************************************)
(* What the table of VPN sessions promises to its readers (the dashboards, *)
(* the per-user totals, the disconnect pages): every connection that is    *)
(* being tracked has one open entry, entries are numbered in the order of  *)
(* creation and never deleted, and a closed entry stays closed.            *)
(***************************************************************************)
EXTENDS Naturals

CONSTANT Key        \* what identifies one connection

VARIABLES last,     \* the number of entries ever made
          open      \* the open entries; every other id in 1..last is closed

Entry == [id : Nat, key : Key]

Init == /\ last = 0
        /\ open = {}

\* A connection not yet tracked gets a fresh open entry.
Open(k) == /\ \A e \in open : e.key # k
           /\ last' = last + 1
           /\ open' = open \cup {[id |-> last + 1, key |-> k]}

\* An open entry is closed, for good.
Close(e) == /\ open' = open \ {e}
            /\ UNCHANGED last

\* A connection that was never tracked while it lasted is booked as closed.
Record == /\ last' = last + 1
          /\ UNCHANGED open

Next == \/ \E k \in Key : Open(k)
        \/ \E e \in open : Close(e)
        \/ Record

Spec == Init /\ [][Next]_<<last, open>>
==============================================================================
