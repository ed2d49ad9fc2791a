------------------------------ MODULE MCRecords ------------------------------
\* Values for Records, small enough for TLC.
EXTENDS Records

CONSTANTS r1, r2, a1

\* A room is opened behind another; one of them has a participant.
TwoVisits == <<r1, r2>>
OneRoster == {[r \in {r1, r2} |-> IF r = r1 THEN {a1} ELSE {}]}

\* Files as a user may have left them: ordinary ones, and ones with the
\* remains of earlier blocks or with long comments.
Ordinary == {"builder", "require", "return", "on", "user", "comment", "begin"}
Remains == {"begin", "END", "inner", "blank", "legacy", "user", "return"}
Commented == {"builder", "return", "open", "close", "user"}
Configs == UNION {[1..n -> Ordinary] : n \in 0..3} \cup UNION {[1..n -> Remains] : n \in 0..2}
             \cup [1..3 -> Commented] \cup {None}

\* A message that the verbose view alone shows, one of a category, and one of none.
Types == <<"tool", "participant", "other">>
TwoCategories == {{"system", "participant"}, {"tool"}}
OneFilter == {{"system", "old"}}
=============================================================================
