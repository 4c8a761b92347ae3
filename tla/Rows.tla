-------------------------------- MODULE Rows --------------------------------
(***************************************************************************)
(* What a request's database session does to rows that it read earlier.    *)
(* Sessions run at READ COMMITTED without row locks; a flush writes only   *)
(* the columns whose value differs from the one that was read.             *)
(***************************************************************************)
EXTENDS Integers

Insert(rows, i, d) == [x \in DOMAIN rows \cup {i} |-> IF x = i THEN d ELSE rows[x]]
Without(rows, S) == [x \in DOMAIN rows \ S |-> rows[x]]

\* A row after a session that read it as `read` and left it as `new`.
Flushed(now, read, new) ==
    [c \in DOMAIN now |-> IF new[c] = read[c] THEN now[c] ELSE new[c]]
=============================================================================
