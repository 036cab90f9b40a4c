-------------------------------- MODULE Search --------------------------------
(***************************************************************************)
(* Which babysitters a parent is shown: the conditions and the pages of    *)
(* getBabysitterForBooking.  Nothing is stored here, so this is a function *)
(* of a row and a query.                                                   *)
(***************************************************************************)
EXTENDS Naturals, Sequences, FiniteSets

\* Ids of languages, days and cities.
Language == {"vietnamese", "korean"}
Day == 1..2

EFilterAge == {"AGE_20", "AGE_30", "AGE_40"}

\* A date of birth: how many years ago its year is, and whether it is later in
\* the year than January 1.
BirthDate == [yearsAgo : 15..45, later : BOOLEAN]

\* January 1 of the year in which an age group begins.
YearOfBirth(age) == CASE age = "AGE_20" -> 29 [] age = "AGE_30" -> 39 [] age = "AGE_40" -> 40
getDateOfBirthByAge(age) == [yearsAgo |-> YearOfBirth(age), later |-> FALSE]

NoEarlier(d, e) ==
    \/ d.yearsAgo < e.yearsAgo
    \/ d.yearsAgo = e.yearsAgo /\ (e.later => d.later)
After(d, e) == NoEarlier(d, e) /\ d # e

\* The brackets of the age filter: one alternative per age asked for.
MatchesAge(dob, age) ==
    LET dob40 == getDateOfBirthByAge("AGE_40")
        dob20 == getDateOfBirthByAge("AGE_20") IN
    CASE age = "AGE_40" -> NoEarlier(dob40, dob)
      [] age = "AGE_20" -> NoEarlier(dob, dob20)
      [] OTHER -> After(dob, dob20) /\ After(dob40, dob)
MatchesAges(dob, ages) == ages = {} \/ \E age \in ages : MatchesAge(dob, age)

\* The sub-query counts rows of user_language: one of the table may be twice.
MatchesLanguages(rows, languageIds) ==
    LET found == {i \in DOMAIN rows : rows[i] \in languageIds}
    IN languageIds = {} \/ Cardinality(found) = Cardinality(languageIds)

\* The join leaves one result per booking, its times of the days asked for or
\* null: a babysitter is listed if she has no booking at all or one without a
\* time on those days.  bookings: the days of each, whatever its status.
MatchesDates(bookings, dates) ==
    dates = {} \/ bookings = {} \/ \E days \in bookings : days \cap dates = {}

\* The other conditions compare a column with a value asked for.
MatchesRow(row, query) ==
    /\ row.completedSignup /\ row.allowBooking
    /\ MatchesAges(row.dob, query.ages)
    /\ MatchesLanguages(row.languages, query.languageIds)
    /\ MatchesDates(row.bookings, query.dates)

\* skip and take.
PageOf(results, page, limit) ==
    SubSeq(results, (page - 1) * limit + 1,
           IF page * limit < Len(results) THEN page * limit ELSE Len(results))

----------------------------------------------------------------------------
(* Checked by evaluation, for all small arguments. *)

\* Pages that follow each other show every result once and in order.
ASSUME PagesAreTheList ==
    \A n \in 0..5, limit \in 1..3 :
        LET all == [i \in 1..n |-> i]
            pages[p \in 0..5] == IF p = 0 THEN <<>> ELSE pages[p - 1] \o PageOf(all, p, limit)
        IN pages[5] = all

\* A babysitter who is free on the days asked for is listed; the converse fails
\* for one with a booking on another day besides.
ASSUME FreeSittersAreListed ==
    /\ \A bookings \in SUBSET SUBSET Day, dates \in SUBSET Day :
         (UNION bookings) \cap dates = {} => MatchesDates(bookings, dates)
    /\ MatchesDates({{1}, {2}}, {1})

\* Who is listed for languages speaks them all, as long as no language is in
\* the profile twice.
ASSUME ListedSpeakTheLanguages ==
    \A n \in 0..2 : \A rows \in [1..n -> Language], languageIds \in SUBSET Language :
        (\A i, j \in 1..n : rows[i] = rows[j] => i = j) =>
            (MatchesLanguages(rows, languageIds) <=> languageIds \subseteq {rows[i] : i \in 1..n})
=============================================================================
