----------------------------- MODULE MCOffice -----------------------------
(* A small office for TLC. *)
EXTENDS Office, TLC

CONSTANTS e1, e2, d1, p1, p2, k1, k2, k3, s1, s2, r1, r2, w1, w2

MCDepartmentOf == [e \in Employee |-> d1]

MCConfig == [inner |-> "Fixed", start |-> 0, end |-> 2, grace |-> 0, need |-> 1,
             inEnd |-> 0, outStart |-> 2, lo |-> None, hi |-> None]

(* Hours with overtime from the second slot on; a flexible policy of one   *)
(* day, shown as "Custom"; a day of Ramadan whose grace wraps at midnight. *)
MCForm ==
    {[type |-> "Fixed", config |-> MCConfig],
     [type |-> "Custom", config |-> [MCConfig EXCEPT !.inner = "Flex", !.need = 2, !.lo = 0, !.hi = 0]],
     [type |-> "Ramadan", config |-> [MCConfig EXCEPT !.start = 2, !.grace = 1, !.lo = 0, !.hi = 1]]}

MCWindow == {<<0, None>>, <<1, 1>>}

MCRematches ==
    {[first |-> 0, last |-> 0, only |-> FALSE, again |-> TRUE],
     [first |-> 0, last |-> 1, only |-> TRUE, again |-> TRUE],
     [first |-> 0, last |-> 0, only |-> FALSE, again |-> FALSE]}

MCWeekends == {{}, {0}, {1}}

(* Two employees when few things happen; one when recomputes overlap, or   *)
(* when it is the reports that much happens to.                            *)
MCBeginnings ==
    LET of(team, ahead, input, recompute, report) ==
            [staff |-> team, ahead |-> ahead,
             fuel |-> [input |-> input, recompute |-> recompute, report |-> report]]
    IN  UNION {{of(Employee, ahead, 1, 1, 0), of(Employee, ahead, 2, 0, 0)} : ahead \in Zones}
        \cup {of({e1}, 0, 1, 2, 0), of({e1}, 0, 0, 0, 3),
              of({e1}, 0, 1, 0, 1), of({e1}, 0, 0, 1, 1)}

Symmetric == Permutations(Worker)

=============================================================================
