------------------------ MODULE MCMessageEvolution ------------------------
EXTENDS MessageEvolution

\* Three versions: each lacks fields that another has, two of them a member of the oneof
\* of 3 and 4.
Versions(c) == CASE c = "v1" -> {1, 3}
                 [] c = "v2" -> {1, 2, 3, 4, 5}
                 [] c = "v3" -> {2, 4, 5}

\* The newer version has added a member to the oneof.
GrownGroup(c) == IF c = "v1" THEN {1, 3} ELSE {1, 3, 4}
=============================================================================
