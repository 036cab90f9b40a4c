------------------------------- MODULE Queries -------------------------------
(***************************************************************************)
(* How TypeORM and PostgreSQL answer the queries that the services build.  *)
(* A table is a set of rows, each with its id; a joined row is a pair.     *)
(***************************************************************************)
EXTENDS Search, FiniteSetsExt, SequencesExt

NoRow == [id |-> 0]

\* A query leaves out what is soft-deleted, unless it asks withDeleted.
Undeleted(table) == {row \in table : ~row.deleted}

InnerJoin(left, right, On(_, _)) == {pair \in left \X right : On(pair[1], pair[2])}
LeftJoin(left, right, On(_, _)) ==
    InnerJoin(left, right, On)
        \cup {<<l, NoRow>> : l \in {m \in left : \A r \in right : ~On(m, r)}}

Sum(rows, Column(_)) == MapThenSumSet(LAMBDA row : Column(row[2]), {row \in rows : row[2] # NoRow})

\* BETWEEN, or two comparisons; a date left out of the query is the first or
\* the last one there is.
Within(date, period) == period.from <= date /\ date <= period.to

\* ORDER BY createdAt DESC.
NewestFirst(rows) == SetToSortSeq(rows, LAMBDA a, b : a.createdAt > b.createdAt)

\* findAndCount with skip and take, which are of rows of the table.
getPagination(results, page, size) ==
    [results |-> PageOf(results, page, size), total |-> Len(results)]
\* limit is of joined rows.
Limited(results, limit) == SubSeq(results, 1, IF limit < Len(results) THEN limit ELSE Len(results))
=============================================================================
