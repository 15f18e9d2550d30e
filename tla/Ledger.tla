------------------------------- MODULE Ledger -------------------------------
(***************************************************************************)
(* What the statistics promise: a running account of what was served and a *)
(* copy of it on file.  Filing may leave out the latest traffic, but never *)
(* takes back what was filed and never files what was not served; a crash  *)
(* loses exactly what was not filed.                                       *)
(***************************************************************************)
EXTENDS Naturals

CONSTANT Cells

VARIABLES
  served,  \* per cell, traffic since the first start
  filed    \* per cell, the part of it a restart finds

ledgerVars == <<served, filed>>

Init == served = [c \in Cells |-> 0] /\ filed = [c \in Cells |-> 0]

Serve(c) ==
  /\ served' = [served EXCEPT ![c] = @ + 1]
  /\ filed' = filed

File ==
  /\ filed' \in [Cells -> Nat]
  /\ \A c \in Cells : filed[c] <= filed'[c] /\ filed'[c] <= served[c]
  /\ served' = served

Crash == served' = filed /\ filed' = filed

Next == (\E c \in Cells : Serve(c)) \/ File \/ Crash

Spec == Init /\ [][Next]_ledgerVars
=============================================================================
