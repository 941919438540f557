------------------------------ MODULE AuditLog ------------------------------
(***************************************************************************)
(* The rotating audit log of mcp_server/audit.py.                           *)
(*                                                                         *)
(* File 0 is the log, files 1..Backups its backups, the highest the oldest. *)
(* Records are numbered as they are written and a line is only ever         *)
(* appended, so that a file is the set of its records' numbers; a file that *)
(* is not there is empty.  Records are taken to be of one size.             *)
(***************************************************************************)
EXTENDS Naturals, FiniteSets

CONSTANTS
    Backups,   \* audit_backup_count, at least 1
    Capacity   \* how many records audit_max_bytes holds

ASSUME AuditAssumption == Backups \in Nat \ {0} /\ Capacity \in Nat \ {0}

Files == 0..Backups
NoLog == [i \in Files |-> {}]

\* The oldest file is not deleted: it becomes one more.
ShiftedPast(log, k) ==
    [i \in 0..(Backups + 1) |-> IF i < k THEN log[i] ELSE IF i = k THEN {} ELSE log[i - 1]]

\* The log is renamed before the backups make room for it.
ShiftedSlip(log, k) ==
    [i \in Files |-> IF i = 0 THEN {} ELSE IF i = 1 THEN log[0]
                     ELSE IF i > k + 1 THEN log[i - 1] ELSE log[i]]

\* The files above k have moved up by one, the oldest being dropped, and k has left
\* its place.
Shifted(log, k) ==
    [i \in Files |-> IF i < k THEN log[i] ELSE IF i = k THEN {} ELSE log[i - 1]]

Full(log) == log[0] # {} /\ Cardinality(log[0]) + 1 > Capacity

\* The log after record number n.
Recorded(log, n) ==
    LET room == IF Full(log) THEN Shifted(log, 0) ELSE log
    IN  [room EXCEPT ![0] = @ \cup {n}]

\* What a process killed while it records may leave: the oldest file is deleted and
\* the others are renamed one by one, the newest last.
Interrupted(log) ==
    {log} \cup (IF Full(log) THEN {Shifted(log, k) : k \in Files} ELSE {})

=============================================================================
