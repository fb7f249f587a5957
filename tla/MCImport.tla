------------------------------ MODULE MCImport ------------------------------
(* Import with the staff files of a small company, for TLC.                 *)
EXTENDS Import, TLC

CONSTANTS a, b, c, hcm, hiring, health, H, HS

CodesByName == hcm :> H @@ hiring :> HS @@ health :> HS

Dept(n) == [name |-> n, level |-> "department"]
Sect(n) == [name |-> n, level |-> "section"]
Line(who, units, boss, rank) == [who |-> who, units |-> units, boss |-> boss, rank |-> rank]

\* A department with a section, and who reports to whom.
Nested == << Line(a, <<Dept(hcm)>>, Nil, 6),
             Line(b, <<Dept(hcm), Sect(hiring)>>, a, 7) >>
\* Two departments side by side, the lines the other way round.
Flat == << Line(b, <<Dept(hiring)>>, Nil, Nil), Line(a, <<Dept(hcm)>>, b, Nil) >>
\* Everybody reports in a circle.
Circle == << Line(a, <<Dept(hcm)>>, b, Nil), Line(b, <<Dept(hcm)>>, c, Nil),
             Line(c, <<Dept(hcm)>>, a, Nil) >>
\* Another department whose code is that of the section.
Clash == << Line(c, <<Dept(health)>>, Nil, 6) >>
\* One unit at two levels.
Twice == << Line(a, <<[name |-> hcm, level |-> "branch"]>>, Nil, Nil),
            Line(c, <<Dept(hcm), Sect(hiring)>>, a, Nil) >>

StaffFiles == {Nested, Flat, Circle, Clash, Twice}
Symmetry == Permutations(Updates)
=============================================================================
