------------------------------ MODULE BookCodes ------------------------------
(***************************************************************************)
(* The codes of the bookings of one city: createBooking reads the largest  *)
(* code of the month, makes the next and inserts the booking.  Codes are   *)
(* strings, `704-CC-YYYYM-NNNNNNN', the month without padding; the column  *)
(* is unique.  The city is part of the code, so one city stands for all.   *)
(***************************************************************************)
EXTENDS ServiceCalls

VARIABLES
    month,          \* of the clock, within one year
    codes,          \* the bookings: [month and number of the code, createdAt]
    codeCalls,
    refusals        \* history: what can excuse a refused code, refusal by refusal

codeVars == <<month, codes, codeCalls, refusals>>

\* The months around the one at which the length of a code changes.
Months == 8..10

Code == [month : Months, number : 1..MaxCalls]
CodedBooking == [code : Code, createdAt : Months]

\* History: the month in which the call began; whether another call for the
\* city was under way at some time (met); whether the month read held a code
\* that hides those of the month (hidden).
CodeCall == [pc : {"idle", "largest", "format", "insert"}, number : 0..MaxCalls,
             code : Code, began : Months, met : BOOLEAN, hidden : BOOLEAN]
CodeIdle == [pc |-> "idle", number |-> 0, code |-> [month |-> 8, number |-> 1],
             began |-> 8, met |-> FALSE, hidden |-> FALSE]

CodesInit ==
    /\ month = 8
    /\ codes = {}
    /\ codeCalls = [k \in Calls |-> CodeIdle]
    /\ refusals = {}

\* Where "M-" stands among the texts of the months: "10-" comes before "8-".
MonthText(m) == IF m < 10 THEN 10 * m - 1 ELSE m

\* The order of codes as strings, which numbers of seven digits keep.
Before(c, d) ==
    \/ MonthText(c.month) < MonthText(d.month)
    \/ c.month = d.month /\ c.number <= d.number

CodesOf(m) == {b.code : b \in {d \in codes : d.createdAt = m}}

\* getCurrentBookingCode.
NumberByCount(C) == Cardinality(C)                                      \* a mutant
LargestNumber(C) ==
    IF C = {} THEN 0 ELSE (CHOOSE c \in C : \A d \in C : Before(d, c)).number

\* A row of this month has a code of an earlier one, larger than all of this month.
Straggles == \E c \in CodesOf(month) : c.month # month /\ ~Before(c, [month |-> month, number |-> 1])

\* The checks of createBooking read other tables.
createCodedBooking(k) ==
    /\ codeCalls[k] = CodeIdle /\ Counted
    /\ LET others == {j \in Calls \ {k} : codeCalls[j] # CodeIdle} IN
       codeCalls' = [j \in Calls |->
          IF j = k THEN [CodeIdle EXCEPT !.pc = "largest", !.began = month, !.met = others # {}]
          ELSE IF j \in others THEN [codeCalls[j] EXCEPT !.met = TRUE] ELSE CodeIdle]
    /\ UNCHANGED <<month, codes, refusals>>

ReadLargest(k) ==
    /\ codeCalls[k].pc = "largest"
    /\ codeCalls' = [codeCalls EXCEPT ![k].pc = "format",
                                      ![k].number = LargestNumber(CodesOf(month)),
                                      ![k].hidden = Straggles]
    /\ UNCHANGED <<month, codes, refusals, called>>

\* generateBookingCode looks at the clock again.
FormatCode(k) ==
    /\ codeCalls[k].pc = "format"
    /\ codeCalls' = [codeCalls EXCEPT ![k].pc = "insert",
                       ![k].code = [month |-> month, number |-> codeCalls[k].number + 1]]
    /\ UNCHANGED <<month, codes, refusals, called>>

\* setCreatedAt stamps the row when save inserts it; the unique column refuses
\* a code that is taken.
InsertCoded(k) ==
    LET c == codeCalls[k].code
        taken == \E b \in codes : b.code = c
    IN /\ codeCalls[k].pc = "insert"
       /\ codes' = IF taken THEN codes ELSE codes \cup {[code |-> c, createdAt |-> month]}
       /\ refusals' = IF taken
                      THEN refusals \cup {[met |-> codeCalls[k].met, hidden |-> codeCalls[k].hidden]}
                      ELSE refusals
       /\ codeCalls' = [codeCalls EXCEPT ![k] = CodeIdle]
       /\ UNCHANGED <<month, called>>

\* The cascade of a removed user takes bookings, and with them their codes.
EraseCoded(b) ==
    /\ b \in codes
    /\ codes' = codes \ {b}
    /\ UNCHANGED <<month, codeCalls, refusals, called>>

\* No call lasts a month.
MonthTurns ==
    /\ month + 1 \in Months
    /\ \A k \in Calls : codeCalls[k] # CodeIdle => codeCalls[k].began = month
    /\ month' = month + 1
    /\ UNCHANGED <<codes, codeCalls, refusals, called>>

CodeCrash ==
    /\ \E k \in Calls : codeCalls[k] # CodeIdle
    /\ codeCalls' = [k \in Calls |-> CodeIdle]
    /\ UNCHANGED <<month, codes, refusals, called>>

CodesNext ==
    \/ \E k \in Calls : createCodedBooking(k) \/ ReadLargest(k) \/ FormatCode(k) \/ InsertCoded(k)
    \/ \E b \in codes : EraseCoded(b)
    \/ MonthTurns \/ CodeCrash

BookCodesTypeOK ==
    /\ month \in Months
    /\ codes \subseteq CodedBooking
    /\ codeCalls \in [Calls -> CodeCall]
    /\ refusals \subseteq [met : BOOLEAN, hidden : BOOLEAN]

\* A booking is refused for its code only when another of the city was made
\* meanwhile, or in an October that holds a booking coded in September, whose
\* longer text hides every code of October (getCurrentBookingCode).
LoneBookingGetsItsCode == \A r \in refusals : r.met \/ r.hidden
=============================================================================
