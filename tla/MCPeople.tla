----------------------------- MODULE MCPeople -----------------------------
(* A small tenant for TLC. *)
EXTENDS People, TLC

CONSTANTS e1, e2, r1, r2, v1, v2, d1, d2, s1, s2, u1, u2, f1, p1, p2, n1, n2, x1, x2,
          k1, k2, k3

MCRosters == {{"Manager", "Employee"}, {"Employee"}}

(* What a PATCH may hold: a move with and without a section, a section of  *)
(* the employee's department and one of another, none, another last day,   *)
(* the status.                                                             *)
MCChanges ==
    {[dept |-> d2], [dept |-> d2, section |-> s2], [section |-> s1], [section |-> s2],
     [section |-> None], [last |-> 0], [status |-> "inactive"], [status |-> "active"]}

(* A row that makes its units, one that fails for its superior, and one    *)
(* for an employee who may be there already.                               *)
MCRows ==
    {[emp |-> e2, dept |-> d2, division |-> v2, section |-> s2, name |-> n1, user |-> u2,
      boss |-> None, field |-> f1, value |-> x1, last |-> None],
     [emp |-> e1, dept |-> d2, division |-> None, section |-> None, name |-> n1, user |-> u1,
      boss |-> u2, field |-> f1, value |-> x1, last |-> 0]}

Symmetric == Permutations({p1, p2}) \cup Permutations({r1, r2})

=============================================================================
