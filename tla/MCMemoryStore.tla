---------------------------- MODULE MCMemoryStore ----------------------------
(***************************************************************************)
(* Instances of MemoryStore for TLC.                                       *)
(***************************************************************************)
EXTENDS MemoryStore, TLC

CONSTANTS t, u, a, b, c

New(file, title, body, importance, access, fresh) ==
  [file |-> file, title |-> title, marker |-> "", content |-> <<body>>,
   importance |-> importance, access |-> access, fresh |-> fresh, probe |-> FALSE]

(* Three records of one title, one of them read more often; a renamed one; *)
(* a stale one of little importance; a probe.                              *)
Records == {New(1, t, a, 800, 0, TRUE), New(2, t, b, 400, 6, TRUE),
            New(3, t, c, 200, 0, TRUE), New(2, u, b, 600, 0, FALSE),
            New(3, u, c, 200, 0, FALSE),
            [New(1, u, a, 800, 0, TRUE) EXCEPT !.probe = TRUE]}

\* One record, important enough to be summarized.
Modest == {New(1, t, a, 500, 0, TRUE), New(2, u, b, 800, 0, TRUE)}

Empty == [f \in File |-> Absent]

\* The last file was left by somebody else.
OneJunk == [f \in File |-> IF f = 3 THEN Junk ELSE Absent]

=============================================================================
