------------------------------ MODULE MCIoPort ------------------------------
(***************************************************************************)
(* The instance of IoPort for TLC: a matrix of two rows and two columns,   *)
(* and ON, which the guest polls.                                          *)
(***************************************************************************)
EXTENDS IoPort

MatrixKeys == {<<1, 1>>, <<2, 1>>, <<2, 2>>}

\* Arbitration by source number, as the guest may choose it.
McPriorities == {[ResetPriority EXCEPT !.mode = [a \in Arbiters |-> FALSE]]}

\* The matrix while it waits for keys, and while it is read.
RowsAs(mode) == [p \in Pin |-> IF p \in Row THEN mode ELSE "out"]
WaitOrRead == {RowsAs("int"), RowsAs("in")}
AllLow == {{}}
Inputs == {[n \in FLine |-> "in"]}
Low == {[n \in FLine |-> "low"]}
Falling == {[r \in Row |-> "falling"]}

Cold == {ResetPorts}
\* A restart after a reset brings rotation back: not explored beyond that step.
FixedArbitration == \A a \in Arbiters : ~m.mode[a]

\* ON is polled, its source stays masked; and it is pressed by itself.
OnIsPolled == 0 \in m.intmsk
OnAlone == fdown # {} => down = {}
=============================================================================
