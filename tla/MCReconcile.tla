---------------------------- MODULE MCReconcile ----------------------------
(* Small instances of Reconcile for TLC. *)
EXTENDS Reconcile

MCColumns == {"amount", "status"}
MCCells == [c \in MCColumns |-> IF c = "amount" THEN {0, 1, 2, Null} ELSE {2, 3}]

Both == [s \in Sides |-> MCColumns]
Default == [columns |-> Both, ignore |-> {}, compare |-> MCColumns,
            tolerance |-> [c \in MCColumns |-> Null], nocase |-> {}, keysOk |-> TRUE]

\* A plain call, one with a tolerance and a case-insensitive column, two whose
\* comparison comes down to one column, one that compares no column (a misspelt
\* compare_columns) and one with key columns of two types.
MCOptions == {
  Default,
  [Default EXCEPT !.tolerance["amount"] = 1, !.nocase = {"status"}],
  [Default EXCEPT !.columns["right"] = {"amount"}, !.tolerance["amount"] = 1],
  [Default EXCEPT !.ignore = {"amount"}, !.nocase = {"status"}],
  [Default EXCEPT !.compare = {}],
  [Default EXCEPT !.keysOk = FALSE]}

TolerantOptions == {[Default EXCEPT !.tolerance["amount"] = 1]}
=============================================================================
