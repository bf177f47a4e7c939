--------------------------- MODULE MCIndexDatabase ---------------------------
(* Two Go files and a Python file of one project, a Go file of another.  Content cm  *)
(* defines m and uses n; content dn defines n, which uses m; both have a symbol o      *)
(* outside their chunks.                                                         *)
EXTENDS IndexDatabase, TLC

CONSTANTS a1, a2, ap, b1, A, B, m, n, o, cm, dn

MCProjectOf == [f \in {a1, a2, ap, b1} |-> IF f = b1 THEN B ELSE A]
MCLanguage  == [f \in {a1, a2, ap, b1} |-> IF f = ap THEN "python" ELSE "go"]
MCParsed == [x \in {cm, dn} |-> IF x = cm THEN {m, o} ELSE {n, o}]
MCDefs == [x \in {cm, dn} |-> IF x = cm THEN {m} ELSE {n}]
MCUses == [x \in {cm, dn} |-> IF x = cm THEN {<<m, n>>} ELSE {<<n, m>>}]

(* Renaming the names, with the contents, so that they define and use the renamed.    *)
Renamings ==
  {r \in Permutations({m, n, cm, dn}) : \A c \in {cm, dn} :
     /\ r[c] \in {cm, dn}
     /\ MCDefs[r[c]] = {r[x] : x \in MCDefs[c]}
     /\ MCUses[r[c]] = {<<r[u[1]], r[u[2]]>> : u \in MCUses[c]}}

SqliteDb == [db |-> "sqlite", files |-> {a1, ap}, faults |-> {"fail", "crash"}]
PgAlone  == [db |-> "postgres", files |-> {a1, a2}, faults |-> {"fail", "read"}]
PgShared == [db |-> "postgres", files |-> {a1, b1}, faults |-> {"fail", "crash"}]

SqliteUpgraded == [SqliteDb EXCEPT !.faults = {"crash", "upgrade"}]
PgUpgraded     == [PgAlone EXCEPT !.faults = {"upgrade"}]

MCSetups == {SqliteDb, PgAlone, PgShared, SqliteUpgraded, PgUpgraded}
TwoProjects == {[PgShared EXCEPT !.faults = {}]}
TwoProjectsUpgraded == {[PgShared EXCEPT !.faults = {"upgrade"}]}
SqliteCrash == {[SqliteDb EXCEPT !.faults = {"crash"}]}
SqliteBulkFails == {[SqliteDb EXCEPT !.faults = {"fail"}]}
SqliteEarly == {[SqliteDb EXCEPT !.faults = {"crash", "upgrade", "early"}]}
SqlitePurgeFails == {[SqliteDb EXCEPT !.faults = {"upgrade", "purge"}]}
==============================================================================
