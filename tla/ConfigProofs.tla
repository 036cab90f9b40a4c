----------------------------- MODULE ConfigProofs -----------------------------
(***************************************************************************)
(* Proofs of what the terms, the settings, the booking codes and the forms *)
(* that replace rows state, for any number of rows and calls.  They all    *)
(* number a row after the largest number of the others (FiniteNumbers).    *)
(* The types of all the services, and with them the views of posts, last.  *)
(***************************************************************************)
EXTENDS ServiceProofs

\* What the elements of a sequence are mapped to is finite.
LEMMA ImageIsFinite ==
    ASSUME NEW n \in Nat, NEW f, NEW S, S = {f[i] : i \in 1..n}
    PROVE  IsFiniteSet(S)
<1> DEFINE g == [i \in 1..n |-> f[i]]
<1>1. g \in Surjection(1..n, S)
  BY DEF Surjection
<1>2. IsFiniteSet(1..n)
  BY FS_Interval
<1> QED
  BY <1>1, <1>2, FS_Surjection

----------------------------------------------------------------------------
(* Codes of bookings. *)

NumberedCode == [month : Months, number : Nat]
CodedRow == [code : NumberedCode, createdAt : Months]
CodeRow == [pc : {"idle", "largest", "format", "insert"}, number : Nat, code : NumberedCode,
            began : Months, met : BOOLEAN, hidden : BOOLEAN]

\* A call that met no other has to itself what it read.
Lone(c) == ~c.met /\ ~c.hidden

\* The numbers of this month go no further than what a lone call read, which
\* the turn of the month only helps; its code is free.
CodeInv ==
    /\ month \in Months
    /\ codes \subseteq CodedRow /\ IsFiniteSet(codes)
    /\ codeCalls \in [Calls -> CodeRow]
    /\ \A b \in codes : b.code.month <= b.createdAt /\ b.createdAt <= month
    /\ \A k \in Calls : /\ codeCalls[k].pc = "idle" => codeCalls[k] = CodeIdle
                        /\ codeCalls[k].pc = "insert" => codeCalls[k].code.month <= month
    /\ \A j, k \in Calls : j # k /\ codeCalls[j] # CodeIdle /\ codeCalls[k] # CodeIdle
                           => codeCalls[k].met
    /\ \A k \in Calls : codeCalls[k].pc = "format" /\ Lone(codeCalls[k]) =>
         \A b \in codes : b.code.month = month => b.code.number <= codeCalls[k].number
    /\ \A k \in Calls : codeCalls[k].pc = "insert" /\ Lone(codeCalls[k]) =>
         \A b \in codes : b.code # codeCalls[k].code
    /\ LoneBookingGetsItsCode

LEMMA CodesMove ==
    ASSUME [Next]_vars
    PROVE  CodesNext \/ UNCHANGED codeVars
BY DEF Next, vars, OthersKeep, Keeps, codeVars, Part

LEMMA IdleCode == CodeIdle \in CodeRow /\ CodeIdle.pc = "idle"
BY DEF CodeIdle, CodeRow, NumberedCode, Months

LEMMA InitCodes == Init => CodeInv
<1> SUFFICES ASSUME Init PROVE CodeInv
  OBVIOUS
<1>1. month = 8 /\ codes = {} /\ codeCalls = [k \in Calls |-> CodeIdle] /\ refusals = {}
  BY DEF Init, CodesInit
<1>2. codeCalls \in [Calls -> CodeRow] /\ \A k \in Calls : codeCalls[k] = CodeIdle /\ codeCalls[k].pc = "idle"
  BY <1>1, IdleCode
<1>3. 8 \in Months /\ IsFiniteSet({})
  BY FS_EmptySet DEF Months
<1> QED
  BY <1>1, <1>2, <1>3 DEF CodeInv, LoneBookingGetsItsCode

\* The largest code in the order of the texts.
LEMMA LargestCode ==
    ASSUME CodeInv, NEW m \in Months
    PROVE  /\ CodesOf(m) \subseteq NumberedCode
           /\ CodesOf(m) # {} => \E c \in CodesOf(m) :
                /\ LargestNumber(CodesOf(m)) = c.number
                /\ \A d \in CodesOf(m) : Before(d, c)
           /\ LargestNumber(CodesOf(m)) \in Nat
<1> DEFINE C == CodesOf(m)
           R == {cd \in NumberedCode \X NumberedCode : Before(cd[1], cd[2])}
<1>1. C \subseteq NumberedCode
  BY DEF CodesOf, CodeInv, CodedRow
<1>2. IsFiniteSet(C)
  <2> DEFINE D == {d \in codes : d.createdAt = m}
             f == [b \in D |-> b.code]
  <2>1. IsFiniteSet(D)
    BY FS_Subset DEF CodeInv
  <2>2. f \in Surjection(D, C)
    BY DEF Surjection, CodesOf
  <2> QED
    BY <2>1, <2>2, FS_Surjection
<1>3. /\ \A x, y \in C : <<x, y>> \in R \/ <<y, x>> \in R
      /\ \A x, y, z \in C : <<x, y>> \in R /\ <<y, z>> \in R => <<x, z>> \in R
  <2>1. \A x, y \in NumberedCode : Before(x, y) \/ Before(y, x)
    BY DEF Before, MonthText, NumberedCode, Months
  <2>2. \A x, y, z \in NumberedCode : Before(x, y) /\ Before(y, z) => Before(x, z)
    BY DEF Before, MonthText, NumberedCode, Months
  <2> QED
    BY <1>1, <2>1, <2>2
<1>4. CASE C # {}
  <2>1. \E g \in C : \A y \in C : <<y, g>> \in R
    <3> HIDE DEF R, C
    <3> QED
      BY <1>2, <1>3, <1>4, GreatestExists
  <2>2. \E g \in C : \A y \in C : Before(y, g)
    BY <2>1
  <2> DEFINE c == CHOOSE g \in C : \A y \in C : Before(y, g)
  <2>3. c \in C /\ \A y \in C : Before(y, c)
    BY <2>2
  <2>4. LargestNumber(C) = c.number
    BY <1>4 DEF LargestNumber
  <2> HIDE DEF c
  <2>5. c.number \in Nat
    BY <1>1, <2>3 DEF NumberedCode
  <2> QED
    BY <1>1, <2>3, <2>4, <2>5
<1>5. CASE C = {}
  BY <1>5 DEF LargestNumber
<1> QED
  BY <1>1, <1>4, <1>5

\* Codes that only go, and calls that stop, or go on as they were.
LEMMA CodesStay ==
    ASSUME CodeInv, month' = month, codes' \subseteq codes, refusals' = refusals,
           codeCalls' \in [Calls -> CodeRow],
           \A k \in Calls : codeCalls'[k] = codeCalls[k] \/ codeCalls'[k] = CodeIdle
    PROVE  CodeInv'
<1>1. IsFiniteSet(codes')
  BY FS_Subset DEF CodeInv
<1>2. (\A k \in Calls : /\ codeCalls[k].pc = "idle" => codeCalls[k] = CodeIdle
                        /\ codeCalls[k].pc = "insert" => codeCalls[k].code.month <= month)'
  BY IdleCode DEF CodeInv
<1>3. (\A j, k \in Calls : j # k /\ codeCalls[j] # CodeIdle /\ codeCalls[k] # CodeIdle
                           => codeCalls[k].met)'
  BY DEF CodeInv
<1>4. (\A k \in Calls : codeCalls[k].pc = "format" /\ Lone(codeCalls[k]) =>
         \A b \in codes : b.code.month = month => b.code.number <= codeCalls[k].number)'
  BY IdleCode DEF CodeInv, Lone
<1>5. (\A k \in Calls : codeCalls[k].pc = "insert" /\ Lone(codeCalls[k]) =>
         \A b \in codes : b.code # codeCalls[k].code)'
  BY IdleCode DEF CodeInv, Lone
<1> QED
  BY <1>1, <1>2, <1>3, <1>4, <1>5 DEF CodeInv, LoneBookingGetsItsCode

LEMMA BeginKeepsCodes ==
    ASSUME CodeInv, NEW k \in Calls, createCodedBooking(k)
    PROVE  CodeInv'
<1> DEFINE others == {j \in Calls \ {k} : codeCalls[j] # CodeIdle}
           new == [CodeIdle EXCEPT !.pc = "largest", !.began = month, !.met = others # {}]
<1>1. /\ UNCHANGED <<month, codes, refusals>> /\ codeCalls[k] = CodeIdle
      /\ codeCalls' = [j \in Calls |->
            IF j = k THEN new
            ELSE IF j \in others THEN [codeCalls[j] EXCEPT !.met = TRUE] ELSE CodeIdle]
  BY DEF createCodedBooking
<1>2. new \in CodeRow /\ new.pc = "largest" /\ new.met = (others # {})
  BY IdleCode DEF CodeInv, CodeRow, CodeIdle
<1> HIDE DEF new
<1>3. /\ codeCalls'[k] = new
      /\ \A j \in others : codeCalls'[j] = [codeCalls[j] EXCEPT !.met = TRUE]
      /\ \A j \in Calls \ {k} : j \notin others => codeCalls'[j] = CodeIdle
  BY <1>1
<1>4. \A j \in others : /\ codeCalls'[j] \in CodeRow /\ codeCalls'[j].met
                        /\ codeCalls'[j].pc = codeCalls[j].pc /\ codeCalls'[j].code = codeCalls[j].code
  <2> SUFFICES ASSUME NEW j \in others
               PROVE  /\ codeCalls'[j] \in CodeRow /\ codeCalls'[j].met
                      /\ codeCalls'[j].pc = codeCalls[j].pc /\ codeCalls'[j].code = codeCalls[j].code
    OBVIOUS
  <2>1. codeCalls'[j] = [codeCalls[j] EXCEPT !.met = TRUE] /\ codeCalls[j] \in CodeRow
    BY <1>3 DEF CodeInv
  <2> QED
    BY <2>1 DEF CodeRow
<1>5. codeCalls' \in [Calls -> CodeRow]
  <2>1. \A j \in Calls : codeCalls'[j] \in CodeRow
    BY <1>2, <1>3, <1>4, IdleCode
  <2> QED
    BY <1>1, <2>1
<1>6. (\A j \in Calls : /\ codeCalls[j].pc = "idle" => codeCalls[j] = CodeIdle
                        /\ codeCalls[j].pc = "insert" => codeCalls[j].code.month <= month)'
  <2>1. \A j \in others : codeCalls'[j].pc # "idle"
    BY <1>4 DEF CodeInv
  <2> QED
    BY <1>1, <1>2, <1>3, <1>4, <2>1, IdleCode DEF CodeInv
<1>7. (\A i, j \in Calls : i # j /\ codeCalls[i] # CodeIdle /\ codeCalls[j] # CodeIdle
                           => codeCalls[j].met)'
  BY <1>2, <1>3, <1>4
<1>8. \A j \in Calls : codeCalls'[j].pc \in {"format", "insert"} => ~Lone(codeCalls'[j])
  BY <1>2, <1>3, <1>4, IdleCode DEF Lone
<1> QED
  BY <1>1, <1>5, <1>6, <1>7, <1>8 DEF CodeInv, LoneBookingGetsItsCode

\* A call goes on alone.
LEMMA CallGoesOn ==
    ASSUME CodeInv, NEW k \in Calls, NEW c \in CodeRow, codeCalls[k] # CodeIdle,
           codeCalls' = [codeCalls EXCEPT ![k] = c], UNCHANGED <<month, codes, refusals>>,
           c.pc # "idle", c.met = codeCalls[k].met,
           c.pc = "insert" => c.code.month <= month,
           c.pc = "format" /\ Lone(c) =>
             \A b \in codes : b.code.month = month => b.code.number <= c.number,
           c.pc = "insert" /\ Lone(c) => \A b \in codes : b.code # c.code
    PROVE  CodeInv'
<1>1. codeCalls \in [Calls -> CodeRow]
  BY DEF CodeInv
<1>2. codeCalls' \in [Calls -> CodeRow] /\ \A j \in Calls : codeCalls'[j] = IF j = k THEN c ELSE codeCalls[j]
  BY <1>1
<1>3. (\A i, j \in Calls : i # j /\ codeCalls[i] # CodeIdle /\ codeCalls[j] # CodeIdle
                           => codeCalls[j].met)'
  BY <1>2 DEF CodeInv
<1>4. (\A j \in Calls : /\ codeCalls[j].pc = "idle" => codeCalls[j] = CodeIdle
                        /\ codeCalls[j].pc = "insert" => codeCalls[j].code.month <= month)'
  BY <1>2 DEF CodeInv
<1>5. (\A j \in Calls : codeCalls[j].pc = "format" /\ Lone(codeCalls[j]) =>
         \A b \in codes : b.code.month = month => b.code.number <= codeCalls[j].number)'
  BY <1>2 DEF CodeInv, Lone
<1>6. (\A j \in Calls : codeCalls[j].pc = "insert" /\ Lone(codeCalls[j]) =>
         \A b \in codes : b.code # codeCalls[j].code)'
  BY <1>2 DEF CodeInv, Lone
<1> QED
  BY <1>2, <1>3, <1>4, <1>5, <1>6 DEF CodeInv, LoneBookingGetsItsCode

LEMMA ReadKeepsCodes ==
    ASSUME CodeInv, NEW k \in Calls, ReadLargest(k)
    PROVE  CodeInv'
<1> DEFINE n == LargestNumber(CodesOf(month))
           c == [codeCalls[k] EXCEPT !.pc = "format", !.number = n, !.hidden = Straggles]
<1>1. /\ codeCalls[k] \in CodeRow /\ codeCalls[k].pc = "largest" /\ month \in Months
      /\ UNCHANGED <<month, codes, refusals>>
  BY DEF ReadLargest, CodeInv
<1>2. codeCalls' = [codeCalls EXCEPT ![k] = c]
  BY <1>1 DEF ReadLargest
<1>3. n \in Nat
  BY <1>1, LargestCode
<1>4. Straggles \in BOOLEAN
  BY DEF Straggles
<1> HIDE DEF n
<1>5. c \in CodeRow /\ c.pc = "format" /\ c.met = codeCalls[k].met /\ c.number = n /\ c.hidden = Straggles
  BY <1>1, <1>3, <1>4 DEF CodeRow
<1> HIDE DEF c
<1>6. ASSUME ~Straggles, NEW b \in codes, b.code.month = month
      PROVE  b.code.number <= n
  <2>1. b.createdAt = month /\ b.code \in NumberedCode
    BY <1>1, <1>6 DEF CodeInv, CodedRow, NumberedCode, Months
  <2>2. b.code \in CodesOf(month)
    BY <2>1 DEF CodesOf
  <2>3. PICK d \in CodesOf(month) : n = d.number /\ \A e \in CodesOf(month) : Before(e, d)
    BY <1>1, <2>2, LargestCode DEF n
  <2>4. Before(b.code, d) /\ d \in NumberedCode
    BY <1>1, <2>2, <2>3, LargestCode
  <2>5. CASE d.month = month
    BY <1>1, <1>6, <2>1, <2>3, <2>4, <2>5 DEF Before, NumberedCode, MonthText, Months
  <2>6. CASE d.month # month
    <3>1. Before(d, [month |-> month, number |-> 1])
      BY <1>6, <2>3, <2>6 DEF Straggles
    <3> QED
      BY <1>1, <1>6, <2>1, <2>4, <2>6, <3>1 DEF Before, NumberedCode, MonthText, Months
  <2> QED
    BY <2>5, <2>6
<1>7. codeCalls[k] # CodeIdle
  BY <1>1, IdleCode
<1> QED
  BY <1>1, <1>2, <1>5, <1>6, <1>7, CallGoesOn DEF Lone

LEMMA FormatKeepsCodes ==
    ASSUME CodeInv, NEW k \in Calls, FormatCode(k)
    PROVE  CodeInv'
<1> DEFINE code == [month |-> month, number |-> codeCalls[k].number + 1]
           c == [codeCalls[k] EXCEPT !.pc = "insert", !.code = code]
<1>1. /\ codeCalls[k] \in CodeRow /\ codeCalls[k].pc = "format" /\ month \in Months
      /\ UNCHANGED <<month, codes, refusals>> /\ codes \subseteq CodedRow
  BY DEF FormatCode, CodeInv
<1>2. codeCalls' = [codeCalls EXCEPT ![k] = c]
  BY <1>1 DEF FormatCode
<1>3. code \in NumberedCode /\ code.month = month /\ code.number = codeCalls[k].number + 1
  BY <1>1 DEF CodeRow, NumberedCode
<1> HIDE DEF code
<1>4. /\ c \in CodeRow /\ c.pc = "insert" /\ c.met = codeCalls[k].met /\ c.hidden = codeCalls[k].hidden
      /\ c.code = code
  BY <1>1, <1>3 DEF CodeRow
<1> HIDE DEF c
<1>5. ASSUME Lone(c), NEW b \in codes PROVE b.code # c.code
  <2>1. b.code.month = month => b.code.number <= codeCalls[k].number
    BY <1>1, <1>4, <1>5 DEF CodeInv, Lone
  <2>2. b.code.number \in Nat /\ codeCalls[k].number \in Nat
    BY <1>1 DEF CodedRow, NumberedCode, CodeRow
  <2> QED
    BY <1>3, <1>4, <2>1, <2>2
<1>6. codeCalls[k] # CodeIdle /\ month <= month
  BY <1>1, IdleCode DEF Months
<1> QED
  BY <1>1, <1>2, <1>3, <1>4, <1>5, <1>6, CallGoesOn

LEMMA InsertKeepsCodes ==
    ASSUME CodeInv, NEW k \in Calls, InsertCoded(k)
    PROVE  CodeInv'
<1> DEFINE c == codeCalls[k].code
           row == [code |-> c, createdAt |-> month]
           taken == \E b \in codes : b.code = c
<1>1. /\ codeCalls[k] \in CodeRow /\ codeCalls[k].pc = "insert" /\ month \in Months /\ month' = month
      /\ codeCalls \in [Calls -> CodeRow] /\ c \in NumberedCode /\ c.month <= month
      /\ codeCalls' = [codeCalls EXCEPT ![k] = CodeIdle]
  BY DEF InsertCoded, CodeInv, CodeRow
<1>2. /\ codeCalls' \in [Calls -> CodeRow]
      /\ \A j \in Calls : codeCalls'[j] = IF j = k THEN CodeIdle ELSE codeCalls[j]
  BY <1>1, IdleCode
<1>3. CASE taken
  <2>1. /\ codes' = codes
        /\ refusals' = refusals \cup {[met |-> codeCalls[k].met, hidden |-> codeCalls[k].hidden]}
    BY <1>3 DEF InsertCoded
  <2>2. codeCalls[k].met \/ codeCalls[k].hidden
    BY <1>1, <1>3 DEF CodeInv, Lone
  <2>3. LoneBookingGetsItsCode'
    BY <2>1, <2>2 DEF CodeInv, LoneBookingGetsItsCode
  <2> QED
    BY <1>1, <1>2, <2>1, <2>3, IdleCode DEF CodeInv
<1>4. CASE ~taken
  <2>1. codes' = codes \cup {row} /\ refusals' = refusals
    BY <1>4 DEF InsertCoded
  <2>2. row \in CodedRow /\ row.code = c /\ row.createdAt = month
    BY <1>1 DEF CodedRow
  <2>3. \A j \in Calls \ {k} : codeCalls[j].pc \in {"format", "insert"} => ~Lone(codeCalls[j])
    BY <1>1, IdleCode DEF CodeInv, Lone
  <2> HIDE DEF row, c
  <2>4. IsFiniteSet(codes')
    BY <2>1, FS_AddElement DEF CodeInv
  <2>5. \A b \in codes' : b.code.month <= b.createdAt /\ b.createdAt <= month'
    <3>1. month <= month
      BY <1>1 DEF Months
    <3> QED
      BY <1>1, <2>1, <2>2, <3>1 DEF CodeInv
  <2>6. codes' \subseteq CodedRow
    BY <2>1, <2>2 DEF CodeInv
  <2>7. \A j \in Calls : codeCalls'[j].pc \in {"format", "insert"} => ~Lone(codeCalls'[j])
    BY <1>2, <2>3, IdleCode
  <2> QED
    BY <1>1, <1>2, <2>1, <2>4, <2>5, <2>6, <2>7, IdleCode DEF CodeInv, LoneBookingGetsItsCode
<1> QED
  BY <1>3, <1>4

LEMMA TurnKeepsCodes ==
    ASSUME CodeInv, MonthTurns
    PROVE  CodeInv'
<1>1. /\ month' = month + 1 /\ month' \in Months /\ month \in Months
      /\ UNCHANGED <<codes, codeCalls, refusals>>
  BY DEF MonthTurns, CodeInv
<1>2. \A b \in codes : /\ b.code.month <= b.createdAt /\ b.createdAt <= month /\ b.code.month \in Months
                       /\ b.createdAt \in Months
  BY DEF CodeInv, CodedRow, NumberedCode
<1>3. \A b \in codes : b.createdAt <= month' /\ b.code.month # month'
  BY <1>1, <1>2 DEF Months
<1>4. \A k \in Calls : codeCalls[k].pc = "insert" => codeCalls[k].code.month <= month'
  <2>1. \A k \in Calls : codeCalls[k].code.month \in Months
    BY DEF CodeInv, CodeRow, NumberedCode
  <2> QED
    BY <1>1, <2>1 DEF CodeInv, Months
<1> QED
  BY <1>1, <1>2, <1>3, <1>4 DEF CodeInv, LoneBookingGetsItsCode, Lone

LEMMA NextCodes == ASSUME CodeInv, [Next]_vars PROVE CodeInv'
<1>1. ASSUME NEW b \in codes, EraseCoded(b) PROVE CodeInv'
  BY <1>1, CodesStay DEF EraseCoded, CodeInv
<1>2. CASE CodeCrash
  BY <1>2, CodesStay, IdleCode DEF CodeCrash
<1>3. CASE UNCHANGED codeVars
  BY <1>3, CodesStay DEF codeVars, CodeInv
<1> QED
  BY <1>1, <1>2, <1>3, BeginKeepsCodes, ReadKeepsCodes, FormatKeepsCodes, InsertKeepsCodes,
     TurnKeepsCodes, CodesMove DEF CodesNext

\* However many bookings the months hold, one is refused for its code only when
\* another was made meanwhile or a longer text of September hides the codes of
\* October (createBooking, getCurrentBookingCode).
THEOREM LoneBookingAlwaysGetsItsCode == Spec => []LoneBookingGetsItsCode
<1>1. CodeInv /\ [Next]_vars => CodeInv'
  BY NextCodes
<1>2. CodeInv => LoneBookingGetsItsCode
  BY DEF CodeInv
<1> QED
  BY <1>1, <1>2, InitCodes, PTL DEF Spec

----------------------------------------------------------------------------
(* Versions of a term. *)

TermRow == [line : Nat \ {0}, displayStatus : {"display", "hidden", "cannot_display"},
            version : Nat, order : Nat]
TermStep == [pc : {"idle", "order", "insert", "write", "withdraw", "next"}, id : Nat, copy : TermRow]

\* The versions of a term; its only one that is not old; the calls that change it.
Version(line, i) == i \in DOMAIN terms /\ terms[i].line = line
Newest(line, i) ==
    /\ Version(line, i) /\ Editable(i)
    /\ \A j \in DOMAIN terms : terms[j].line = line => j <= i /\ (j # i => ~Editable(j))
On(k, line) == termCalls[k].id # 0 /\ termCalls[k].copy.line = line
Between(k, line) == On(k, line) /\ termCalls[k].pc = "next"

\* An update has its term to itself, and the version it works on is the newest.
LineOK(line) ==
    /\ \A j, k \in Calls : On(j, line) /\ On(k, line) => j = k
    /\ \A k \in Calls : On(k, line) /\ termCalls[k].pc # "next" => Newest(line, termCalls[k].id)
    /\ \A k \in Calls : Between(k, line) => \A i \in DOMAIN terms : terms[i].line = line => ~Editable(i)
    /\ (\E i \in DOMAIN terms : Version(line, i)) =>
         (\E i \in DOMAIN terms : Newest(line, i)) \/ \E k \in Calls : Between(k, line)

TermsFit ==
    /\ terms \in Seq(TermRow)
    /\ termCalls \in [Calls -> TermStep]
    /\ \A i \in DOMAIN terms : terms[i].line <= Len(terms)
    /\ \A k \in Calls :
         /\ termCalls[k].id # 0 <=> termCalls[k].pc \in {"write", "withdraw", "next"}
         /\ termCalls[k].id # 0 => /\ termCalls[k].id \in DOMAIN terms
                                   /\ termCalls[k].copy.line = terms[termCalls[k].id].line
         /\ termCalls[k].pc = "write" => termCalls[k].copy.displayStatus # "cannot_display"

TermInv == TermsFit /\ \A line \in Nat \ divided : LineOK(line)

LEMMA TermsMove ==
    ASSUME [Next]_vars
    PROVE  TermsNext \/ UNCHANGED termVars
BY DEF Next, vars, OthersKeep, Keeps, termVars, Part

LEMMA IdleTerm == TermIdle \in TermStep /\ TermIdle.pc = "idle" /\ TermIdle.id = 0
BY DEF TermIdle, TermStep, TermRow

LEMMA InitTerms == Init => TermInv
<1> SUFFICES ASSUME Init PROVE TermInv
  OBVIOUS
<1>1. terms = <<>> /\ termCalls = [k \in Calls |-> TermIdle]
  BY DEF Init, TermsInit
<1>2. /\ termCalls \in [Calls -> TermStep]
      /\ \A k \in Calls : termCalls[k].id = 0 /\ termCalls[k].pc = "idle"
      /\ terms \in Seq(TermRow) /\ DOMAIN terms = {}
  BY <1>1, IdleTerm
<1> QED
  BY <1>2 DEF TermInv, TermsFit, LineOK, On, Between, Newest, Version

\* What TermsFit says of the rows.
LEMMA RowsOfTerms ==
    ASSUME TermsFit
    PROVE  /\ Len(terms) \in Nat /\ DOMAIN terms = 1..Len(terms)
           /\ \A i \in DOMAIN terms : terms[i] \in TermRow /\ terms[i].line \in Nat \ {0}
           /\ \A k \in Calls : termCalls[k] \in TermStep /\ termCalls[k].copy \in TermRow
<1>1. terms \in Seq(TermRow) /\ termCalls \in [Calls -> TermStep]
  BY DEF TermsFit
<1>2. Len(terms) \in Nat /\ DOMAIN terms = 1..Len(terms)
  BY <1>1
<1>3. \A i \in DOMAIN terms : terms[i] \in TermRow
  BY <1>1, <1>2
<1> QED
  BY <1>1, <1>2, <1>3 DEF TermRow, TermStep

\* Rows that stay; calls that stay or have no row, and leave none between two
\* versions.
LEMMA TermsStay ==
    ASSUME TermInv, UNCHANGED terms, divided \subseteq divided', termCalls' \in [Calls -> TermStep],
           \A k \in Calls :
             \/ termCalls'[k] = termCalls[k]
             \/ /\ termCalls'[k].id = 0 /\ termCalls'[k].pc \in {"idle", "order", "insert"}
                /\ termCalls[k].pc = "next" => termCalls[k].copy.line \in divided'
    PROVE  TermInv'
<1>1. TermsFit'
  BY DEF TermInv, TermsFit
<1>2. \A i : Editable(i)' <=> Editable(i)
  BY DEF Editable
<1>3. \A line, i : (Version(line, i)' <=> Version(line, i)) /\ (Newest(line, i)' <=> Newest(line, i))
  BY <1>2 DEF Version, Newest
<1>4. \A line : \A k \in Calls : On(k, line)' => On(k, line) /\ termCalls'[k] = termCalls[k]
  BY DEF On
<1>5. ASSUME NEW line \in Nat \ divided' PROVE LineOK(line)'
  <2>1. LineOK(line)
    BY DEF TermInv
  <2>2. \A k \in Calls : Between(k, line) => Between(k, line)'
    <3> SUFFICES ASSUME NEW k \in Calls, Between(k, line) PROVE Between(k, line)'
      OBVIOUS
    <3>1. termCalls[k].pc = "next" /\ termCalls[k].copy.line = line
      BY DEF Between, On
    <3> QED
      BY <3>1 DEF Between, On
  <2>3. \A k \in Calls : Between(k, line)' => Between(k, line)
    BY <1>4 DEF Between
  <2> QED
    BY <1>2, <1>3, <1>4, <2>1, <2>2, <2>3 DEF LineOK
<1> QED
  BY <1>1, <1>5 DEF TermInv

\* A step of one call on other lines.
LEMMA LineStays ==
    ASSUME NEW line, LineOK(line), NEW k \in Calls, ~On(k, line), ~On(k, line)',
           \A j \in Calls \ {k} : termCalls'[j] = termCalls[j],
           \A i : Version(line, i)' <=> Version(line, i),
           \A i : Version(line, i) => terms'[i] = terms[i]
    PROVE  LineOK(line)'
<1>1. \A j \in Calls : (On(j, line)' <=> On(j, line)) /\ (On(j, line) => termCalls'[j] = termCalls[j])
  BY DEF On
<1>2. \A j \in Calls : Between(j, line)' <=> Between(j, line)
  BY <1>1 DEF Between
<1>3. \A i : Version(line, i) => (Editable(i)' <=> Editable(i))
  BY DEF Editable
<1>4. \A i : Newest(line, i)' <=> Newest(line, i)
  BY <1>3 DEF Newest, Version
<1>5. \A j \in Calls : Between(j, line)' => \A i \in DOMAIN terms' : terms'[i].line = line => ~Editable(i)'
  BY <1>2, <1>3 DEF LineOK, Version
<1>6. (\E i \in DOMAIN terms' : Version(line, i)') =>
         (\E i \in DOMAIN terms' : Newest(line, i)') \/ \E j \in Calls : Between(j, line)'
  BY <1>2, <1>4 DEF LineOK, Version, Newest
<1> QED
  BY <1>1, <1>4, <1>5, <1>6 DEF LineOK

\* A call that ends or goes on with its row.
LEMMA TermMoves ==
    ASSUME TermsFit, NEW k \in Calls, NEW pc, TermGoes(k, pc)
    PROVE  /\ \A j \in Calls \ {k} : termCalls'[j] = termCalls[j]
           /\ pc = "idle" => termCalls'[k] = TermIdle /\ termCalls' \in [Calls -> TermStep]
           /\ pc \in {"order", "next"} =>
                /\ termCalls'[k] = [termCalls[k] EXCEPT !.pc = pc] /\ termCalls' \in [Calls -> TermStep]
                /\ termCalls'[k].pc = pc /\ termCalls'[k].id = termCalls[k].id
                /\ termCalls'[k].copy = termCalls[k].copy
<1>1. termCalls \in [Calls -> TermStep] /\ termCalls[k] \in TermStep
  BY DEF TermsFit
<1>2. \A j \in Calls \ {k} : termCalls'[j] = termCalls[j]
  BY <1>1 DEF TermGoes
<1>3. CASE pc = "idle"
  BY <1>1, <1>2, <1>3, IdleTerm DEF TermGoes
<1>4. CASE pc # "idle"
  <2> DEFINE c == [termCalls[k] EXCEPT !.pc = pc]
  <2>1. termCalls' = [termCalls EXCEPT ![k] = c]
    BY <1>4 DEF TermGoes
  <2>2. c.pc = pc /\ c.id = termCalls[k].id /\ c.copy = termCalls[k].copy
        /\ (pc \in {"order", "next"} => c \in TermStep)
    BY <1>1 DEF TermStep
  <2> HIDE DEF c
  <2>3. termCalls'[k] = c /\ (pc \in {"order", "next"} => termCalls' \in [Calls -> TermStep])
    BY <1>1, <2>1, <2>2
  <2> QED
    BY <1>2, <1>4, <2>2, <2>3 DEF c
<1> QED
  BY <1>3, <1>4

LEMMA OrderKeepsTerms ==
    ASSUME TermInv, NEW k \in Calls, getNextTermOrder(k)
    PROVE  TermInv'
<1> DEFINE f == [i \in 1..Len(terms) |-> terms[i].order]
           S == {terms[i].order : i \in DOMAIN terms}
           n == 1 + Max({0} \cup S)
           copy == [termCalls[k].copy EXCEPT !.order = n]
           c == [termCalls[k] EXCEPT !.pc = "insert", !.copy = copy]
<1>1. /\ Len(terms) \in Nat /\ DOMAIN terms = 1..Len(terms)
      /\ termCalls[k] \in TermStep /\ termCalls[k].copy \in TermRow /\ termCalls[k].pc = "order"
      /\ \A i \in DOMAIN terms : terms[i] \in TermRow
      /\ termCalls \in [Calls -> TermStep] /\ UNCHANGED <<terms, divided>>
  BY RowsOfTerms DEF TermInv, getNextTermOrder, TermsFit
<1>2. termCalls[k].id = 0
  BY <1>1 DEF TermInv, TermsFit
<1>3. IsFiniteSet(S) /\ S \subseteq Nat
  <2>1. S = {f[i] : i \in 1..Len(terms)}
    BY <1>1
  <2>2. IsFiniteSet(S)
    <3> HIDE DEF S, f
    <3> QED
      BY <1>1, <2>1, ImageIsFinite
  <2> QED
    BY <1>1, <2>2 DEF TermRow
<1>4. n \in Nat
  <2> HIDE DEF S
  <2>1. Max({0} \cup S) + 1 \in Nat \ {0} /\ \A y \in S : y < Max({0} \cup S) + 1
    BY <1>3, OneMoreIsNew
  <2>2. Max({0} \cup S) \in Nat
    <3>1. IsFiniteSet({0} \cup S) /\ {0} \cup S # {} /\ {0} \cup S \subseteq Nat
      <4>1. {0} \cup S = S \cup {0}
        OBVIOUS
      <4> QED
        BY <1>3, <4>1, FS_AddElement
    <3> QED
      BY <3>1, MaxExists
  <2> QED
    BY <2>2
<1>5. termCalls' = [termCalls EXCEPT ![k] = c]
  BY <1>1 DEF getNextTermOrder, TermStep, TermRow
<1> HIDE DEF n
<1>6. copy \in TermRow
  BY <1>1, <1>4 DEF TermRow
<1> HIDE DEF copy
<1>7. c \in TermStep /\ c.pc = "insert" /\ c.id = 0
  BY <1>1, <1>2, <1>6 DEF TermStep
<1> HIDE DEF c
<1> QED
  BY <1>1, <1>5, <1>7, TermsStay

LEMMA UpdateKeepsTerms ==
    ASSUME TermInv, NEW k \in Calls, NEW i, updateTerm(k, i)
    PROVE  TermInv'
<1>0. PICK line0 : line0 = terms[i].line
  OBVIOUS
<1>1. /\ i \in DOMAIN terms /\ Editable(i) /\ termCalls[k] = TermIdle /\ UNCHANGED terms
      /\ terms[i] \in TermRow /\ i \in Nat \ {0} /\ line0 \in Nat \ {0}
      /\ termCalls \in [Calls -> TermStep] /\ TermsFit
      /\ divided' = IF OnLine(line0, k) THEN divided \cup {line0} ELSE divided
  <2>1. /\ i \in DOMAIN terms /\ Editable(i) /\ termCalls[k] = TermIdle /\ UNCHANGED terms
        /\ divided' = IF OnLine(line0, k) THEN divided \cup {line0} ELSE divided
    BY <1>0 DEF updateTerm
  <2>2. TermsFit /\ termCalls \in [Calls -> TermStep]
    BY DEF TermInv, TermsFit
  <2>3. terms[i] \in TermRow /\ i \in Nat \ {0} /\ line0 \in Nat \ {0}
    BY <1>0, <2>1, <2>2, RowsOfTerms
  <2> QED
    BY <2>1, <2>2, <2>3
<1>2. PICK c \in TermStep :
         /\ termCalls' = [termCalls EXCEPT ![k] = c]
         /\ c.id = i /\ c.pc \in {"write", "withdraw"} /\ c.copy.line = line0
         /\ c.pc = "write" => c.copy.displayStatus # "cannot_display"
  <2>1. CASE \E status \in {"display", "hidden"} :
               termCalls' = [termCalls EXCEPT ![k] = [pc |-> "write", id |-> i,
                               copy |-> [terms[i] EXCEPT !.displayStatus = status]]]
    <3>1. PICK status \in {"display", "hidden"} :
               termCalls' = [termCalls EXCEPT ![k] = [pc |-> "write", id |-> i,
                               copy |-> [terms[i] EXCEPT !.displayStatus = status]]]
      BY <2>1
    <3> DEFINE row == [terms[i] EXCEPT !.displayStatus = status]
    <3>2. row \in TermRow /\ row.line = line0 /\ row.displayStatus = status
      BY <1>0, <1>1 DEF TermRow
    <3> HIDE DEF row
    <3>3. [pc |-> "write", id |-> i, copy |-> row] \in TermStep
      BY <1>1, <3>2 DEF TermStep
    <3> QED
      BY <3>1, <3>2, <3>3 DEF row
  <2>2. CASE termCalls' = [termCalls EXCEPT ![k] = [pc |-> "withdraw", id |-> i, copy |-> terms[i]]]
    <3>1. [pc |-> "withdraw", id |-> i, copy |-> terms[i]] \in TermStep
      BY <1>1 DEF TermStep
    <3> QED
      BY <1>0, <2>2, <3>1
  <2> QED
    BY <2>1, <2>2 DEF updateTerm
<1>3. termCalls' \in [Calls -> TermStep] /\ \A j \in Calls : termCalls'[j] = IF j = k THEN c ELSE termCalls[j]
  BY <1>1, <1>2
<1>4. TermsFit'
  BY <1>0, <1>1, <1>2, <1>3 DEF TermsFit
<1>5. ~On(k, line0) /\ \A line : line # line0 => ~On(k, line)' /\ ~On(k, line)
  BY <1>1, <1>2, <1>3, IdleTerm DEF On
<1>6. ASSUME NEW line \in Nat \ divided' PROVE LineOK(line)'
  <2>1. LineOK(line)
    BY <1>1, <1>6 DEF TermInv
  <2>2. CASE line # line0
    <3>1. \A m : Version(line, m)' <=> Version(line, m)
      BY <1>1 DEF Version
    <3>2. \A m : Version(line, m) => terms'[m] = terms[m]
      BY <1>1
    <3>3. ~On(k, line) /\ ~On(k, line)'
      BY <1>5, <2>2
    <3>4. \A j \in Calls \ {k} : termCalls'[j] = termCalls[j]
      BY <1>3
    <3> QED
      BY <2>1, <3>1, <3>2, <3>3, <3>4, LineStays
  <2>3. CASE line = line0
    <3>1. \A j \in Calls : ~On(j, line0)
      BY <1>1, <1>5, <1>6, <2>3 DEF OnLine, On
    <3>2. Version(line0, i)
      BY <1>0, <1>1 DEF Version
    <3>3. PICK m \in DOMAIN terms : Newest(line0, m)
      BY <1>1, <2>1, <2>3, <3>1, <3>2 DEF LineOK, Between
    <3>4. i = m
      BY <1>1, <3>2, <3>3 DEF Newest, Version
    <3>5. Newest(line0, i)'
      BY <1>1, <3>3, <3>4 DEF Newest, Version, Editable
    <3>6. \A j \in Calls : On(j, line0)' => j = k
      BY <1>3, <3>1 DEF On
    <3>7. \A j \in Calls : ~Between(j, line0)'
      BY <1>2, <1>3, <3>6 DEF Between
    <3>8. termCalls'[k].id = i
      BY <1>2, <1>3
    <3>9. i \in DOMAIN terms'
      BY <1>1
    <3> QED
      BY <2>3, <3>5, <3>6, <3>7, <3>8, <3>9 DEF LineOK
  <2> QED
    BY <2>2, <2>3
<1> QED
  BY <1>4, <1>6 DEF TermInv

\* The row of a call is written over, on its line.
LEMMA WriteKeepsTerms ==
    ASSUME TermInv, NEW k \in Calls, WriteTerm(k)
    PROVE  TermInv'
<1>0. PICK c : c = termCalls[k]
  OBVIOUS
<1> DEFINE line0 == c.copy.line
<1>1. /\ c \in TermStep /\ c.copy \in TermRow /\ c.pc = "write" /\ c.id # 0 /\ c.id \in DOMAIN terms
      /\ line0 = terms[c.id].line /\ c.copy.displayStatus # "cannot_display"
      /\ terms' = [terms EXCEPT ![c.id] = c.copy] /\ UNCHANGED divided
      /\ terms \in Seq(TermRow) /\ TermsFit /\ Len(terms) \in Nat /\ DOMAIN terms = 1..Len(terms)
  BY <1>0, RowsOfTerms DEF TermInv, TermsFit, WriteTerm
<1>2. /\ termCalls'[k] = TermIdle /\ termCalls' \in [Calls -> TermStep]
      /\ \A j \in Calls \ {k} : termCalls'[j] = termCalls[j]
  BY <1>1, TermMoves DEF WriteTerm
<1> HIDE DEF line0
<1>3. /\ terms' \in Seq(TermRow) /\ DOMAIN terms' = DOMAIN terms /\ Len(terms') = Len(terms)
      /\ \A j \in DOMAIN terms : terms'[j] = IF j = c.id THEN c.copy ELSE terms[j]
  BY <1>1
<1>4. \A j \in DOMAIN terms : terms'[j].line = terms[j].line
  BY <1>1, <1>3 DEF line0
<1>5. TermsFit'
  <2>1. \A j \in DOMAIN terms' : terms'[j].line <= Len(terms')
    BY <1>1, <1>3, <1>4 DEF TermsFit
  <2> QED
    BY <1>1, <1>2, <1>3, <1>4, <2>1, IdleTerm DEF TermsFit
<1>6. ASSUME NEW line \in Nat \ divided' PROVE LineOK(line)'
  <2>1. LineOK(line)
    BY <1>1, <1>6 DEF TermInv
  <2>2. \A m : Version(line, m)' <=> Version(line, m)
    BY <1>3, <1>4 DEF Version
  <2>3. ~On(k, line)'
    BY <1>2, IdleTerm DEF On
  <2>4. CASE line # line0
    <3>1. \A m : Version(line, m) => terms'[m] = terms[m]
      BY <1>1, <1>3, <2>4 DEF Version
    <3>2. ~On(k, line)
      BY <1>0, <2>4 DEF On, line0
    <3> QED
      BY <1>2, <2>1, <2>2, <2>3, <3>1, <3>2, LineStays
  <2>5. CASE line = line0
    <3>1. On(k, line0)
      BY <1>0, <1>1 DEF On, line0
    <3>2. Newest(line0, c.id) /\ \A j \in Calls : On(j, line0) => j = k
      BY <1>0, <1>1, <2>1, <2>5, <3>1 DEF LineOK
    <3>3. \A j \in Calls : ~On(j, line0)'
      BY <1>2, <2>3, <2>5, <3>2 DEF On
    <3>4. \A j \in DOMAIN terms : j # c.id => (Editable(j)' <=> Editable(j))
      BY <1>3 DEF Editable
    <3>5. Editable(c.id)'
      BY <1>1, <1>3 DEF Editable
    <3>6. Newest(line0, c.id)'
      BY <1>1, <1>3, <1>4, <3>2, <3>4, <3>5 DEF Newest, Version
    <3>7. c.id \in DOMAIN terms'
      BY <1>1, <1>3
    <3> QED
      BY <2>5, <3>3, <3>6, <3>7 DEF LineOK, Between
  <2> QED
    BY <2>4, <2>5
<1> QED
  BY <1>5, <1>6 DEF TermInv

LEMMA WithdrawKeepsTerms ==
    ASSUME TermInv, NEW k \in Calls, WithdrawTerm(k)
    PROVE  TermInv'
<1>0. PICK c : c = termCalls[k]
  OBVIOUS
<1> DEFINE line0 == c.copy.line
           row == [c.copy EXCEPT !.displayStatus = "cannot_display"]
<1>1. /\ c \in TermStep /\ c.copy \in TermRow /\ c.pc = "withdraw" /\ c.id # 0 /\ c.id \in DOMAIN terms
      /\ line0 = terms[c.id].line
      /\ terms' = [terms EXCEPT ![c.id] = row] /\ UNCHANGED divided
      /\ terms \in Seq(TermRow) /\ TermsFit /\ Len(terms) \in Nat /\ DOMAIN terms = 1..Len(terms)
  BY <1>0, RowsOfTerms DEF TermInv, TermsFit, WithdrawTerm
<1>2. /\ termCalls'[k].pc = "next" /\ termCalls'[k].id = c.id /\ termCalls'[k].copy = c.copy
      /\ termCalls' \in [Calls -> TermStep]
      /\ \A j \in Calls \ {k} : termCalls'[j] = termCalls[j]
  BY <1>0, <1>1, TermMoves DEF WithdrawTerm
<1>3. row \in TermRow /\ row.line = line0 /\ row.displayStatus = "cannot_display"
  BY <1>1 DEF TermRow
<1> HIDE DEF line0, row
<1>4. /\ terms' \in Seq(TermRow) /\ DOMAIN terms' = DOMAIN terms /\ Len(terms') = Len(terms)
      /\ \A j \in DOMAIN terms : terms'[j] = IF j = c.id THEN row ELSE terms[j]
  BY <1>1, <1>3
<1>5. \A j \in DOMAIN terms : terms'[j].line = terms[j].line
  BY <1>1, <1>3, <1>4
<1>6. TermsFit'
  <2>1. \A j \in DOMAIN terms' : terms'[j].line <= Len(terms')
    BY <1>1, <1>4, <1>5 DEF TermsFit
  <2>2. c.copy.line = terms'[c.id].line
    BY <1>1, <1>5 DEF line0
  <2> QED
    BY <1>1, <1>2, <1>4, <1>5, <2>1, <2>2 DEF TermsFit
<1>7. ASSUME NEW line \in Nat \ divided' PROVE LineOK(line)'
  <2>1. LineOK(line)
    BY <1>1, <1>7 DEF TermInv
  <2>2. \A m : Version(line, m)' <=> Version(line, m)
    BY <1>4, <1>5 DEF Version
  <2>3. CASE line # line0
    <3>1. \A m : Version(line, m) => terms'[m] = terms[m]
      BY <1>1, <1>4, <2>3 DEF Version
    <3>2. ~On(k, line) /\ ~On(k, line)'
      BY <1>0, <1>2, <2>3 DEF On, line0
    <3> QED
      BY <1>2, <2>1, <2>2, <3>1, <3>2, LineStays
  <2>4. CASE line = line0
    <3>1. On(k, line0) /\ Between(k, line0)'
      BY <1>0, <1>1, <1>2 DEF On, Between, line0
    <3>2. Newest(line0, c.id) /\ \A j \in Calls : On(j, line0) => j = k
      BY <1>0, <1>1, <2>1, <2>4, <3>1 DEF LineOK
    <3>3. \A j \in Calls : On(j, line0)' => j = k
      BY <1>2, <3>2 DEF On
    <3>4. \A j \in DOMAIN terms' : terms'[j].line = line0 => ~Editable(j)'
      <4>1. \A j \in DOMAIN terms : j # c.id => (Editable(j)' <=> Editable(j))
        BY <1>4 DEF Editable
      <4>2. ~Editable(c.id)'
        BY <1>1, <1>3, <1>4 DEF Editable
      <4> QED
        BY <1>4, <1>5, <3>2, <4>1, <4>2 DEF Newest
    <3> QED
      BY <1>2, <2>4, <3>1, <3>3, <3>4 DEF LineOK
  <2> QED
    BY <2>3, <2>4
<1> QED
  BY <1>6, <1>7 DEF TermInv

\* A row is added at the end: the newest of its line, which nobody works on.
LEMMA AppendKeepsTerms ==
    ASSUME TermInv, NEW k \in Calls, NEW row \in TermRow, terms' = Append(terms, row),
           UNCHANGED divided, TermGoes(k, "idle"), row.displayStatus # "cannot_display",
           row.line <= Len(terms) + 1, \A line : On(k, line) => line = row.line,
           row.line \notin divided => /\ \A j \in Calls : On(j, row.line) => j = k
                                      /\ \A i \in DOMAIN terms : terms[i].line = row.line => ~Editable(i)
    PROVE  TermInv'
<1>0. PICK n : n = Len(terms) + 1
  OBVIOUS
<1>1. /\ terms \in Seq(TermRow) /\ TermsFit /\ Len(terms) \in Nat /\ DOMAIN terms = 1..Len(terms)
      /\ \A j \in DOMAIN terms : terms[j] \in TermRow /\ terms[j].line \in Nat \ {0}
  BY RowsOfTerms DEF TermInv, TermsFit
<1>2. /\ termCalls'[k] = TermIdle /\ termCalls' \in [Calls -> TermStep]
      /\ \A j \in Calls \ {k} : termCalls'[j] = termCalls[j]
  BY <1>1, TermMoves
<1>3. /\ terms' \in Seq(TermRow) /\ Len(terms') = n /\ DOMAIN terms' = DOMAIN terms \cup {n}
      /\ terms'[n] = row /\ n \notin DOMAIN terms /\ n \in Nat
      /\ \A j \in DOMAIN terms : terms'[j] = terms[j] /\ j < n
  BY <1>0, <1>1
<1>4. TermsFit'
  <2>1. \A j \in DOMAIN terms' : terms'[j].line <= Len(terms')
    BY <1>1, <1>3 DEF TermsFit
  <2>2. ASSUME NEW j \in Calls
        PROVE  /\ termCalls'[j].id # 0 <=> termCalls'[j].pc \in {"write", "withdraw", "next"}
               /\ termCalls'[j].id # 0 => /\ termCalls'[j].id \in DOMAIN terms'
                                          /\ termCalls'[j].copy.line = terms'[termCalls'[j].id].line
               /\ termCalls'[j].pc = "write" => termCalls'[j].copy.displayStatus # "cannot_display"
    <3>1. CASE j = k
      BY <1>2, <3>1, IdleTerm
    <3>2. CASE j # k
      <4>1. termCalls'[j] = termCalls[j]
        BY <1>2, <3>2
      <4> QED
        BY <1>1, <1>3, <4>1 DEF TermsFit
    <3> QED
      BY <3>1, <3>2
  <2> QED
    BY <1>2, <1>3, <2>1, <2>2 DEF TermsFit
<1>5. \A line : ~On(k, line)'
  BY <1>2, IdleTerm DEF On
<1>6. ASSUME NEW line \in Nat \ divided' PROVE LineOK(line)'
  <2>1. LineOK(line)
    BY <1>6 DEF TermInv
  <2>2. CASE line # row.line
    <3>1. \A m : Version(line, m)' <=> Version(line, m)
      BY <1>3, <2>2 DEF Version
    <3>2. \A m : Version(line, m) => terms'[m] = terms[m]
      BY <1>3 DEF Version
    <3>3. ~On(k, line) /\ ~On(k, line)'
      BY <1>5, <2>2
    <3> QED
      BY <1>2, <2>1, <3>1, <3>2, <3>3, LineStays
  <2>3. CASE line = row.line
    <3>1. \A j \in Calls : ~On(j, line)'
      BY <1>2, <1>5, <1>6, <2>3 DEF On
    <3>2. \A m \in DOMAIN terms : Editable(m)' <=> Editable(m)
      BY <1>3 DEF Editable
    <3>3. Editable(n)'
      BY <1>3 DEF Editable
    <3>4. \A m \in DOMAIN terms' : terms'[m].line = line => m <= n /\ (m # n => ~Editable(m)')
      BY <1>1, <1>3, <1>6, <2>3, <3>2
    <3>5. Newest(line, n)' /\ n \in DOMAIN terms'
      BY <1>3, <2>3, <3>3, <3>4 DEF Newest, Version
    <3> QED
      BY <3>1, <3>5 DEF LineOK, Between
  <2> QED
    BY <2>2, <2>3
<1> QED
  BY <1>4, <1>6 DEF TermInv

LEMMA InsertKeepsTerms ==
    ASSUME TermInv, NEW k \in Calls, InsertTerm(k)
    PROVE  TermInv'
<1>0. PICK c, n : c = termCalls[k] /\ n = Len(terms) + 1
  OBVIOUS
<1>1. /\ c \in TermStep /\ c.copy \in TermRow /\ c.pc = "insert" /\ c.id = 0
      /\ Len(terms) \in Nat /\ DOMAIN terms = 1..Len(terms) /\ TermsFit /\ UNCHANGED divided
      /\ \A j \in DOMAIN terms : terms[j].line \in Nat \ {0} /\ terms[j].line <= Len(terms)
  BY <1>0, RowsOfTerms DEF TermInv, TermsFit, InsertTerm
<1>2. PICK status \in {"display", "hidden"} :
         terms' = Append(terms, [c.copy EXCEPT !.line = n, !.displayStatus = status])
  BY <1>0 DEF InsertTerm
<1> DEFINE row == [c.copy EXCEPT !.line = n, !.displayStatus = status]
<1>3. row \in TermRow /\ row.line = n /\ row.displayStatus = status
  <2> DEFINE t == c.copy
  <2>1. t \in TermRow /\ n \in Nat \ {0}
    BY <1>0, <1>1
  <2> HIDE DEF t
  <2>2. /\ [t EXCEPT !.line = n, !.displayStatus = status] \in TermRow
        /\ [t EXCEPT !.line = n, !.displayStatus = status].line = n
        /\ [t EXCEPT !.line = n, !.displayStatus = status].displayStatus = status
    BY <2>1 DEF TermRow
  <2> QED
    BY <2>2 DEF t
<1> HIDE DEF row
<1>4. \A j \in Calls : ~On(j, n)
  <2> SUFFICES ASSUME NEW j \in Calls, On(j, n) PROVE FALSE
    OBVIOUS
  <2>1. termCalls[j].id \in DOMAIN terms /\ n = terms[termCalls[j].id].line
    BY <1>1 DEF TermsFit, On
  <2> QED
    BY <1>0, <1>1, <2>1
<1>5. \A j \in DOMAIN terms : terms[j].line # n
  BY <1>0, <1>1
<1>6. \A line : ~On(k, line)
  BY <1>0, <1>1 DEF On
<1>7. terms' = Append(terms, row) /\ TermGoes(k, "idle") /\ row.line <= Len(terms) + 1
  BY <1>0, <1>1, <1>2, <1>3 DEF InsertTerm, row
<1> QED
  BY <1>1, <1>3, <1>4, <1>5, <1>6, <1>7, AppendKeepsTerms

LEMMA NextVersionKeepsTerms ==
    ASSUME TermInv, NEW k \in Calls, NextVersion(k)
    PROVE  TermInv'
<1>0. PICK c : c = termCalls[k]
  OBVIOUS
<1> DEFINE row == [c.copy EXCEPT !.displayStatus = "display", !.version = @ + 1]
<1>1. /\ c \in TermStep /\ c.copy \in TermRow /\ c.pc = "next" /\ c.id # 0 /\ c.id \in DOMAIN terms
      /\ c.copy.line = terms[c.id].line
      /\ Len(terms) \in Nat /\ DOMAIN terms = 1..Len(terms) /\ UNCHANGED divided
      /\ \A j \in DOMAIN terms : terms[j].line \in Nat \ {0} /\ terms[j].line <= Len(terms)
  BY <1>0, RowsOfTerms DEF TermInv, TermsFit, NextVersion
<1>2. row \in TermRow /\ row.line = c.copy.line /\ row.displayStatus = "display"
  <2> DEFINE t == c.copy
  <2>1. t \in TermRow /\ t.version \in Nat
    BY <1>1 DEF TermRow
  <2>2. PICK v \in Nat : v = t.version + 1
    BY <2>1
  <2> DEFINE new == [t EXCEPT !.displayStatus = "display", !.version = v]
  <2>3. row = new
    BY <2>2
  <2> HIDE DEF t, row
  <2>4. new \in TermRow /\ new.line = t.line /\ new.displayStatus = "display"
    BY <2>1 DEF TermRow
  <2> QED
    BY <2>3, <2>4 DEF t
<1>3. terms' = Append(terms, row) /\ TermGoes(k, "idle")
  BY <1>0 DEF NextVersion
<1> HIDE DEF row
<1>4. row.line <= Len(terms) + 1 /\ row.line \in Nat
  BY <1>1, <1>2
<1>5. \A line : On(k, line) => line = row.line
  BY <1>0, <1>2 DEF On
<1>6. Between(k, row.line)
  BY <1>0, <1>1, <1>2 DEF On, Between
<1>7. ASSUME row.line \notin divided
      PROVE  /\ \A j \in Calls : On(j, row.line) => j = k
             /\ \A i \in DOMAIN terms : terms[i].line = row.line => ~Editable(i)
  <2>1. LineOK(row.line)
    BY <1>4, <1>7 DEF TermInv
  <2> QED
    BY <1>6, <2>1 DEF LineOK, Between
<1> QED
  BY <1>1, <1>2, <1>3, <1>4, <1>5, <1>7, AppendKeepsTerms

LEMMA NextTerms == ASSUME TermInv, [Next]_vars PROVE TermInv'
<1>1. termCalls \in [Calls -> TermStep] /\ TermsFit
  BY DEF TermInv, TermsFit
<1>2. ASSUME NEW k \in Calls, saveTerm(k) PROVE TermInv'
  <2>1. /\ \A j \in Calls \ {k} : termCalls'[j] = termCalls[j] /\ termCalls' \in [Calls -> TermStep]
        /\ termCalls'[k].pc = "order" /\ termCalls'[k].id = termCalls[k].id
        /\ termCalls' \in [Calls -> TermStep]
    BY <1>1, <1>2, TermMoves DEF saveTerm
  <2>2. termCalls[k].id = 0 /\ termCalls[k].pc = "idle" /\ UNCHANGED <<terms, divided>>
    BY <1>2, IdleTerm DEF saveTerm
  <2> QED
    BY <2>1, <2>2, TermsStay
<1>3. CASE ConfigCrash
  <2>1. termCalls' = [k \in Calls |-> TermIdle] /\ UNCHANGED terms
        /\ divided' = divided \cup {termCalls[k].copy.line : k \in {j \in Calls : termCalls[j].pc = "next"}}
    BY <1>3 DEF ConfigCrash
  <2> QED
    BY <2>1, TermsStay, IdleTerm
<1>4. CASE UNCHANGED termVars
  BY <1>1, <1>4, TermsStay DEF termVars
<1> QED
  BY <1>2, <1>3, <1>4, OrderKeepsTerms, UpdateKeepsTerms, WriteKeepsTerms, WithdrawKeepsTerms,
     InsertKeepsTerms, NextVersionKeepsTerms, TermsMove DEF TermsNext

\* However often its text changes, a term has exactly one version that is not
\* old, its newest, but for the moment between two of them; unless two updates
\* of the term overlapped or one died in that moment (updateTerm).
THEOREM TermsAlwaysHaveOneVersion == Spec => []OneCurrentVersion
<1>1. TermInv /\ [Next]_vars => TermInv'
  BY NextTerms
<1>2. TermInv => OneCurrentVersion
  <2> SUFFICES ASSUME TermInv, NEW line \in {terms[i].line : i \in DOMAIN terms} \ divided
               PROVE  LET versions == {i \in DOMAIN terms : terms[i].line = line}
                          current == {i \in versions : terms[i].displayStatus # "cannot_display"} IN
                      \/ current = {Max(versions)}
                      \/ current = {} /\ \E k \in Calls : termCalls[k].pc = "next"
                                                          /\ termCalls[k].copy.line = line
    BY DEF OneCurrentVersion
  <2> DEFINE versions == {i \in DOMAIN terms : terms[i].line = line}
             current == {i \in versions : terms[i].displayStatus # "cannot_display"}
  <2>1. Len(terms) \in Nat /\ DOMAIN terms = 1..Len(terms) /\ line \in Nat /\ LineOK(line)
    BY RowsOfTerms DEF TermInv
  <2>2. (\E i \in DOMAIN terms : Newest(line, i)) \/ \E k \in Calls : Between(k, line)
    BY <2>1 DEF LineOK, Version
  <2>3. ASSUME NEW i \in DOMAIN terms, Newest(line, i) PROVE current = {Max(versions)}
    <3>1. current = {i}
      BY <2>3 DEF Newest, Version, Editable
    <3>2. i \in versions /\ versions \subseteq Nat /\ \A j \in versions : j <= i
      BY <2>1, <2>3 DEF Newest, Version
    <3>3. IsFiniteSet(versions)
      <4>1. IsFiniteSet(1..Len(terms))
        BY <2>1, FS_Interval
      <4> QED
        BY <2>1, <4>1, FS_Subset
    <3>4. Max(versions) \in versions /\ \A j \in versions : j <= Max(versions)
      <4> HIDE DEF versions
      <4> QED
        BY <3>2, <3>3, MaxExists
    <3>5. Max(versions) = i
      <4> HIDE DEF versions
      <4>1. Max(versions) \in Nat /\ i \in Nat /\ Max(versions) <= i /\ i <= Max(versions)
        BY <3>2, <3>4
      <4> QED
        BY <4>1
    <3> QED
      BY <3>1, <3>5
  <2>4. ASSUME NEW k \in Calls, Between(k, line)
        PROVE  current = {} /\ termCalls[k].pc = "next" /\ termCalls[k].copy.line = line
    BY <2>1, <2>4 DEF LineOK, Between, On, Editable
  <2> QED
    BY <2>2, <2>3, <2>4
<1> QED
  BY <1>1, <1>2, InitTerms, PTL DEF Spec

----------------------------------------------------------------------------
(* Places of the questions. *)

FaqRow == [faqType : EFaqType, order : Nat]
FaqStep == [pc : {"idle", "order", "save"}, id : Nat, copy : FaqRow, met : BOOLEAN]

\* Whoever has the place of the row that a call is about to save was saved in a
\* hurry, and so was the row itself, or the call met others.
FaqInv ==
    /\ faqs \in Seq(FaqRow)
    /\ faqCalls \in [Calls -> FaqStep]
    /\ \A k \in Calls : /\ faqCalls[k].pc = "idle" => faqCalls[k] = FaqIdle
                        /\ faqCalls[k].id \in {0} \cup DOMAIN faqs
    /\ \A j, k \in Calls : j # k /\ faqCalls[j] # FaqIdle /\ faqCalls[k] # FaqIdle => faqCalls[k].met
    /\ \A k \in Calls : faqCalls[k].pc = "save" =>
         \A i \in DOMAIN faqs \ {faqCalls[k].id} : faqs[i] = faqCalls[k].copy =>
           i \in hurried /\ (faqCalls[k].met \/ faqCalls[k].id \in hurried)
    /\ 0 \notin hurried
    /\ FaqPlacesDiffer

LEMMA SettingsMove ==
    ASSUME [Next]_vars
    PROVE  \/ FaqsNext /\ UNCHANGED <<services, lastText, serviceCalls, torn>>
           \/ ServicesNext /\ UNCHANGED <<faqs, faqCalls, hurried>>
           \/ SettingsCrash \/ UNCHANGED settingVars
<1>1. (focus \in {"services", "faqs"} /\ SettingsNext(focus)) \/ UNCHANGED settingVars
  BY DEF Next, vars, OthersKeep, Keeps, settingVars, Part
<1> QED
  BY <1>1 DEF SettingsNext

LEMMA IdleFaq == FaqIdle \in FaqStep /\ FaqIdle.pc = "idle" /\ FaqIdle.id = 0
BY DEF FaqIdle, FaqStep, FaqRow, EFaqType

LEMMA InitFaqs == Init => FaqInv
<1> SUFFICES ASSUME Init PROVE FaqInv
  OBVIOUS
<1>1. faqs = <<>> /\ hurried = {} /\ faqCalls = [k \in Calls |-> FaqIdle]
  BY DEF Init, SettingsInit
<1>2. faqCalls \in [Calls -> FaqStep] /\ \A k \in Calls : faqCalls[k] = FaqIdle
  BY <1>1, IdleFaq
<1>3. faqs \in Seq(FaqRow) /\ DOMAIN faqs = {}
  BY <1>1
<1> QED
  BY <1>1, <1>2, <1>3, IdleFaq DEF FaqInv, FaqPlacesDiffer

LEMMA FaqsFit ==
    ASSUME FaqInv
    PROVE  /\ Len(faqs) \in Nat /\ DOMAIN faqs = 1..Len(faqs)
           /\ \A i \in DOMAIN faqs : faqs[i] \in FaqRow
           /\ \A k \in Calls : faqCalls[k] \in FaqStep /\ faqCalls[k].copy \in FaqRow
<1>1. faqs \in Seq(FaqRow) /\ faqCalls \in [Calls -> FaqStep]
  BY DEF FaqInv
<1> QED
  BY <1>1 DEF FaqStep

\* Calls that stop.
LEMMA FaqsStay ==
    ASSUME FaqInv, UNCHANGED <<faqs, hurried>>, faqCalls' \in [Calls -> FaqStep],
           \A k \in Calls : faqCalls'[k] = faqCalls[k] \/ faqCalls'[k] = FaqIdle
    PROVE  FaqInv'
<1>1. (\A k \in Calls : /\ faqCalls[k].pc = "idle" => faqCalls[k] = FaqIdle
                        /\ faqCalls[k].id \in {0} \cup DOMAIN faqs)'
  BY IdleFaq DEF FaqInv
<1>2. (\A j, k \in Calls : j # k /\ faqCalls[j] # FaqIdle /\ faqCalls[k] # FaqIdle => faqCalls[k].met)'
  BY DEF FaqInv
<1>3. (\A k \in Calls : faqCalls[k].pc = "save" =>
         \A i \in DOMAIN faqs \ {faqCalls[k].id} : faqs[i] = faqCalls[k].copy =>
           i \in hurried /\ (faqCalls[k].met \/ faqCalls[k].id \in hurried))'
  BY IdleFaq DEF FaqInv
<1> QED
  BY <1>1, <1>2, <1>3 DEF FaqInv, FaqPlacesDiffer

\* A call that begins; to save a row at once it has the row as it is.
LEMMA BeginKeepsFaqs ==
    ASSUME FaqInv, NEW k \in Calls, NEW call \in FaqStep, FaqBegins(k, call),
           call.pc # "idle", call.id \in {0} \cup DOMAIN faqs,
           call.pc = "save" => call.id \in DOMAIN faqs /\ call.copy = faqs[call.id]
    PROVE  FaqInv'
<1> DEFINE others == {j \in Calls \ {k} : faqCalls[j] # FaqIdle}
<1>1. /\ faqCalls[k] = FaqIdle /\ UNCHANGED <<faqs, hurried>>
      /\ faqCalls' = [j \in Calls |->
            IF j = k THEN [call EXCEPT !.met = others # {}]
            ELSE IF j \in others THEN [faqCalls[j] EXCEPT !.met = TRUE] ELSE FaqIdle]
  BY DEF FaqBegins
<1>2. PICK new \in FaqStep : /\ new = [call EXCEPT !.met = others # {}]
                             /\ new.pc = call.pc /\ new.id = call.id /\ new.copy = call.copy
                             /\ new.met <=> others # {}
  <2>1. PICK b \in BOOLEAN : b = (others # {})
    OBVIOUS
  <2> HIDE DEF others
  <2> DEFINE d == [call EXCEPT !.met = b]
  <2>2. d \in FaqStep /\ d.pc = call.pc /\ d.id = call.id /\ d.copy = call.copy /\ d.met = b
    BY <2>1 DEF FaqStep
  <2>3. d = [call EXCEPT !.met = others # {}]
    BY <2>1
  <2>4. d.met <=> others # {}
    BY <2>1, <2>2
  <2> HIDE DEF d
  <2> QED
    BY <2>2, <2>3, <2>4
<1>3. /\ faqCalls'[k] = new
      /\ \A j \in others : faqCalls'[j] = [faqCalls[j] EXCEPT !.met = TRUE]
      /\ \A j \in Calls \ {k} : j \notin others => faqCalls'[j] = FaqIdle
  BY <1>1, <1>2
<1>4. ASSUME NEW j \in others
      PROVE  /\ faqCalls'[j] \in FaqStep /\ faqCalls'[j].met /\ faqCalls'[j].pc = faqCalls[j].pc
             /\ faqCalls'[j].id = faqCalls[j].id /\ faqCalls'[j].copy = faqCalls[j].copy
  <2>1. faqCalls'[j] = [faqCalls[j] EXCEPT !.met = TRUE] /\ faqCalls[j] \in FaqStep
    BY <1>3, FaqsFit
  <2> QED
    BY <2>1 DEF FaqStep
<1>5. faqCalls' \in [Calls -> FaqStep]
  <2>1. \A j \in Calls : faqCalls'[j] \in FaqStep
    BY <1>2, <1>3, <1>4, IdleFaq
  <2> QED
    BY <1>1, <2>1
<1>6. (\A j \in Calls : /\ faqCalls[j].pc = "idle" => faqCalls[j] = FaqIdle
                        /\ faqCalls[j].id \in {0} \cup DOMAIN faqs)'
  <2> SUFFICES ASSUME NEW j \in Calls
               PROVE  /\ faqCalls'[j].pc = "idle" => faqCalls'[j] = FaqIdle
                      /\ faqCalls'[j].id \in {0} \cup DOMAIN faqs
    BY <1>1
  <2>1. CASE j = k
    BY <1>2, <1>3, <2>1
  <2>2. CASE j \in others
    BY <1>4, <2>2 DEF FaqInv
  <2>3. CASE j # k /\ j \notin others
    BY <1>3, <2>3, IdleFaq
  <2> QED
    BY <2>1, <2>2, <2>3
<1>7. (\A i, j \in Calls : i # j /\ faqCalls[i] # FaqIdle /\ faqCalls[j] # FaqIdle => faqCalls[j].met)'
  <2> SUFFICES ASSUME NEW i \in Calls, NEW j \in Calls, i # j,
                      faqCalls'[i] # FaqIdle, faqCalls'[j] # FaqIdle
               PROVE  faqCalls'[j].met
    OBVIOUS
  <2>1. CASE j \in others
    BY <1>4, <2>1
  <2>2. CASE j = k
    <3>1. i \in others
      BY <1>3, <2>2
    <3> QED
      BY <1>2, <1>3, <2>2, <3>1
  <2> QED
    BY <1>3, <2>1, <2>2
<1>8. ASSUME NEW j \in Calls, faqCalls'[j].pc = "save",
             NEW i \in DOMAIN faqs \ {faqCalls'[j].id}, faqs[i] = faqCalls'[j].copy
      PROVE  i \in hurried /\ (faqCalls'[j].met \/ faqCalls'[j].id \in hurried)
  <2>1. CASE j \in others
    BY <1>4, <1>8, <2>1 DEF FaqInv
  <2>2. CASE j = k
    <3>1. call.id \in DOMAIN faqs /\ faqs[i] = faqs[call.id] /\ i # call.id /\ faqCalls'[j].id = call.id
      BY <1>2, <1>3, <1>8, <2>2
    <3> QED
      BY <3>1 DEF FaqInv, FaqPlacesDiffer
  <2> QED
    BY <1>3, <1>8, <2>1, <2>2, IdleFaq
<1> QED
  BY <1>1, <1>5, <1>6, <1>7, <1>8 DEF FaqInv, FaqPlacesDiffer

LEMMA OrderKeepsFaqs ==
    ASSUME FaqInv, NEW k \in Calls, getFaqOrder(k)
    PROVE  FaqInv'
<1>1. PICK c : c = faqCalls[k]
  OBVIOUS
<1>2. PICK t, n : t = c.copy.faqType /\ n = FaqOrder(t)
  OBVIOUS
<1>3. /\ c \in FaqStep /\ c.copy \in FaqRow /\ c.pc = "order" /\ c # FaqIdle /\ t \in EFaqType
      /\ c.id \in {0} \cup DOMAIN faqs /\ faqCalls \in [Calls -> FaqStep]
      /\ UNCHANGED <<faqs, hurried>>
      /\ Len(faqs) \in Nat /\ DOMAIN faqs = 1..Len(faqs) /\ \A i \in DOMAIN faqs : faqs[i] \in FaqRow
  BY <1>1, <1>2, FaqsFit, IdleFaq DEF getFaqOrder, FaqInv, FaqRow
<1>4. n \in Nat /\ \A y \in PlacesOf(t) : y < n
  <2> DEFINE f == [i \in 1..Len(faqs) |-> faqs[i].order]
             S == {f[i] : i \in 1..Len(faqs)}
  <2>1. IsFiniteSet(S)
    <3> HIDE DEF f
    <3> QED
      BY <1>3, ImageIsFinite
  <2>2. PlacesOf(t) \subseteq S /\ S \subseteq Nat
    BY <1>3 DEF PlacesOf, FaqRow
  <2> HIDE DEF S
  <2>3. IsFiniteSet(PlacesOf(t)) /\ PlacesOf(t) \subseteq Nat
    BY <2>1, <2>2, FS_Subset
  <2> QED
    BY <1>2, <2>3, OneMoreIsNew DEF FaqOrder
<1> DEFINE copy == [c.copy EXCEPT !.order = n]
           d == [c EXCEPT !.pc = "save", !.copy = copy]
<1>5. faqCalls' = [faqCalls EXCEPT ![k] = d]
  BY <1>1, <1>2, <1>3 DEF getFaqOrder, FaqStep, FaqRow
<1>6. copy \in FaqRow /\ copy.order = n /\ copy.faqType = t
  BY <1>2, <1>3, <1>4 DEF FaqRow
<1> HIDE DEF copy
<1>7. d \in FaqStep /\ d.pc = "save" /\ d.id = c.id /\ d.copy = copy /\ d.met = c.met
  BY <1>3, <1>6 DEF FaqStep
<1> HIDE DEF d
<1>8. /\ faqCalls' \in [Calls -> FaqStep]
      /\ \A j \in Calls : faqCalls'[j] = IF j = k THEN d ELSE faqCalls[j]
  BY <1>3, <1>5, <1>7
<1>9. \A i \in DOMAIN faqs : faqs[i] # copy
  <2> SUFFICES ASSUME NEW i \in DOMAIN faqs, faqs[i] = copy PROVE FALSE
    OBVIOUS
  <2>1. n \in PlacesOf(t)
    BY <1>6 DEF PlacesOf
  <2> QED
    BY <1>4, <2>1
<1>10. (\A j \in Calls : /\ faqCalls[j].pc = "idle" => faqCalls[j] = FaqIdle
                         /\ faqCalls[j].id \in {0} \cup DOMAIN faqs)'
  BY <1>3, <1>7, <1>8 DEF FaqInv
<1>11. (\A i, j \in Calls : i # j /\ faqCalls[i] # FaqIdle /\ faqCalls[j] # FaqIdle => faqCalls[j].met)'
  BY <1>1, <1>3, <1>7, <1>8 DEF FaqInv
<1>12. (\A j \in Calls : faqCalls[j].pc = "save" =>
         \A i \in DOMAIN faqs \ {faqCalls[j].id} : faqs[i] = faqCalls[j].copy =>
           i \in hurried /\ (faqCalls[j].met \/ faqCalls[j].id \in hurried))'
  BY <1>3, <1>7, <1>8, <1>9 DEF FaqInv
<1> QED
  BY <1>3, <1>8, <1>10, <1>11, <1>12 DEF FaqInv, FaqPlacesDiffer

LEMMA SaveKeepsFaqs ==
    ASSUME FaqInv, NEW k \in Calls, SaveFaq(k)
    PROVE  FaqInv'
<1>1. PICK c, n : c = faqCalls[k] /\ n = IF c.id = 0 THEN Len(faqs) + 1 ELSE c.id
  OBVIOUS
<1>2. /\ c \in FaqStep /\ c.copy \in FaqRow /\ c.pc = "save" /\ c # FaqIdle
      /\ c.id \in {0} \cup DOMAIN faqs /\ faqCalls \in [Calls -> FaqStep]
      /\ Len(faqs) \in Nat /\ DOMAIN faqs = 1..Len(faqs) /\ faqs \in Seq(FaqRow)
      /\ \A i \in DOMAIN faqs \ {c.id} : faqs[i] = c.copy => i \in hurried /\ (c.met \/ c.id \in hurried)
  BY <1>1, FaqsFit, IdleFaq DEF SaveFaq, FaqInv
<1>3. /\ faqs' = IF c.id = 0 THEN Append(faqs, c.copy) ELSE [faqs EXCEPT ![n] = c.copy]
      /\ hurried' = IF c.met THEN hurried \cup {n} ELSE hurried
      /\ faqCalls' = [faqCalls EXCEPT ![k] = FaqIdle]
  BY <1>1 DEF SaveFaq
<1>4. /\ faqs' \in Seq(FaqRow) /\ DOMAIN faqs' = DOMAIN faqs \cup {n} /\ faqs'[n] = c.copy
      /\ \A i \in DOMAIN faqs \ {n} : faqs'[i] = faqs[i]
      /\ c.id # 0 => c.id = n /\ n \in DOMAIN faqs
      /\ c.id = 0 => n \notin DOMAIN faqs
      /\ n # 0
  <2>1. CASE c.id = 0
    BY <1>1, <1>2, <1>3, <2>1
  <2>2. CASE c.id # 0
    BY <1>1, <1>2, <1>3, <2>2
  <2> QED
    BY <2>1, <2>2
<1>5. /\ faqCalls' \in [Calls -> FaqStep]
      /\ \A j \in Calls : faqCalls'[j] = IF j = k THEN FaqIdle ELSE faqCalls[j]
  BY <1>2, <1>3, IdleFaq
<1>6. \A i \in DOMAIN faqs \ {n} : faqs[i] = c.copy => i \in hurried' /\ n \in hurried'
  <2> SUFFICES ASSUME NEW i \in DOMAIN faqs \ {n}, faqs[i] = c.copy
               PROVE  i \in hurried' /\ n \in hurried'
    OBVIOUS
  <2>1. i # c.id
    BY <1>2, <1>4
  <2>2. i \in hurried /\ (c.met \/ c.id \in hurried)
    BY <1>2, <2>1
  <2>3. c.met => n \in hurried'
    BY <1>3
  <2>4. ~c.met => n \in hurried'
    <3>1. CASE c.id # 0
      BY <1>3, <1>4, <2>2, <3>1
    <3>2. CASE c.id = 0
      BY <2>2, <3>2 DEF FaqInv
    <3> QED
      BY <3>1, <3>2
  <2> QED
    BY <1>3, <2>2, <2>3, <2>4
<1>7. FaqPlacesDiffer'
  <2> SUFFICES ASSUME NEW i \in DOMAIN faqs', NEW j \in DOMAIN faqs', i # j, faqs'[i] = faqs'[j]
               PROVE  {i, j} \subseteq hurried'
    BY DEF FaqPlacesDiffer
  <2>1. CASE i = n
    BY <1>4, <1>6, <2>1
  <2>2. CASE j = n
    BY <1>4, <1>6, <2>2
  <2>3. CASE i # n /\ j # n
    BY <1>3, <1>4, <2>3 DEF FaqInv, FaqPlacesDiffer
  <2> QED
    BY <2>1, <2>2, <2>3
<1>8. (\A j \in Calls : /\ faqCalls[j].pc = "idle" => faqCalls[j] = FaqIdle
                        /\ faqCalls[j].id \in {0} \cup DOMAIN faqs)'
  BY <1>4, <1>5, IdleFaq DEF FaqInv
<1>9. (\A i, j \in Calls : i # j /\ faqCalls[i] # FaqIdle /\ faqCalls[j] # FaqIdle => faqCalls[j].met)'
  BY <1>5 DEF FaqInv
<1>10. (\A j \in Calls : faqCalls[j].pc = "save" =>
         \A i \in DOMAIN faqs \ {faqCalls[j].id} : faqs[i] = faqCalls[j].copy =>
           i \in hurried /\ (faqCalls[j].met \/ faqCalls[j].id \in hurried))'
  <2> SUFFICES ASSUME NEW j \in Calls, faqCalls'[j].pc = "save",
                      NEW i \in DOMAIN faqs' \ {faqCalls'[j].id}, faqs'[i] = faqCalls'[j].copy
               PROVE  i \in hurried' /\ (faqCalls'[j].met \/ faqCalls'[j].id \in hurried')
    OBVIOUS
  <2>1. j # k /\ faqCalls'[j] = faqCalls[j] /\ faqCalls[j] # FaqIdle
    BY <1>5, IdleFaq
  <2>2. c.met /\ faqCalls[j].met
    BY <1>1, <1>2, <2>1 DEF FaqInv
  <2>3. CASE i = n
    BY <1>3, <2>1, <2>2, <2>3
  <2>4. CASE i # n
    BY <1>3, <1>4, <2>1, <2>2, <2>4 DEF FaqInv
  <2> QED
    BY <2>3, <2>4
<1>11. 0 \notin hurried'
  BY <1>3, <1>4 DEF FaqInv
<1> QED
  BY <1>4, <1>5, <1>7, <1>8, <1>9, <1>10, <1>11 DEF FaqInv

LEMMA NextFaqs == ASSUME FaqInv, [Next]_vars PROVE FaqInv'
<1>1. faqCalls \in [Calls -> FaqStep]
  BY DEF FaqInv
<1>2. ASSUME NEW k \in Calls, createFaq(k) PROVE FaqInv'
  <2>1. PICK t \in EFaqType : FaqBegins(k, [FaqIdle EXCEPT !.pc = "order", !.copy.faqType = t])
    BY <1>2 DEF createFaq
  <2> DEFINE call == [FaqIdle EXCEPT !.pc = "order", !.copy.faqType = t]
  <2>2. call \in FaqStep /\ call.pc = "order" /\ call.id = 0
    BY DEF FaqIdle, FaqStep, FaqRow
  <2> HIDE DEF call
  <2>3. FaqBegins(k, call)
    BY <2>1 DEF call
  <2> QED
    BY <2>2, <2>3, BeginKeepsFaqs
<1>3. ASSUME NEW k \in Calls, updateFaq(k) PROVE FaqInv'
  <2>1. PICK i \in DOMAIN faqs, t \in EFaqType :
          FaqBegins(k, [FaqIdle EXCEPT !.pc = IF t = faqs[i].faqType THEN "save" ELSE "order",
                                       !.id = i, !.copy = [faqs[i] EXCEPT !.faqType = t]])
    BY <1>3 DEF updateFaq
  <2>2. PICK row \in FaqRow : row = [faqs[i] EXCEPT !.faqType = t] /\ (t = faqs[i].faqType => row = faqs[i])
    <3>1. PICK f \in FaqRow : f = faqs[i]
      BY FaqsFit
    <3> DEFINE d == [f EXCEPT !.faqType = t]
    <3>2. d \in FaqRow /\ d.faqType = t /\ d.order = f.order
      BY DEF FaqRow
    <3> HIDE DEF d
    <3>3. t = f.faqType => d = f
      BY <3>2 DEF FaqRow
    <3> QED
      BY <3>1, <3>2, <3>3 DEF d
  <2>3. PICK pc \in {"save", "order"} : pc = IF t = faqs[i].faqType THEN "save" ELSE "order"
    OBVIOUS
  <2>4. i \in Nat
    BY FaqsFit
  <2> DEFINE call == [FaqIdle EXCEPT !.pc = pc, !.id = i, !.copy = row]
  <2>5. call \in FaqStep /\ call.pc = pc /\ call.id = i /\ call.copy = row
    BY <2>4 DEF FaqIdle, FaqStep
  <2> HIDE DEF call
  <2>6. FaqBegins(k, call)
    BY <2>1, <2>2, <2>3 DEF call
  <2> QED
    BY <2>2, <2>3, <2>5, <2>6, BeginKeepsFaqs
<1>4. CASE SettingsCrash
  BY <1>1, <1>4, FaqsStay, IdleFaq DEF SettingsCrash
<1>5. CASE UNCHANGED <<faqs, faqCalls, hurried>>
  BY <1>1, <1>5, FaqsStay
<1> QED
  BY <1>2, <1>3, <1>4, <1>5, OrderKeepsFaqs, SaveKeepsFaqs, SettingsMove DEF FaqsNext, settingVars

----------------------------------------------------------------------------
(* Texts of the special services.  A text is named by the number of the call. *)

Counts == called' = called \/ called' = called + 1

LEMMA CountsSettings == ASSUME NEW table, SettingsNext(table) PROVE Counts
BY DEF Counts, Counted, SettingsNext, ServicesNext, FaqsNext, SettingsCrash, createSpecialService,
       RemoveUnlisted, ReadDetail, WriteDetail, CreateServices, deleteSpecialService, createFaq,
       updateFaq, FaqBegins, getFaqOrder, SaveFaq

Name == [ELanguage -> Nat]
ServiceRow == [live : BOOLEAN, text : Name]
ServiceStep == [pc : {"idle", "remove", "details"}, lang : ELanguage, listed : SUBSET Nat,
                details : SUBSET Nat, read : UNION {[D -> Name] : D \in SUBSET Nat},
                new : BOOLEAN, failed : BOOLEAN, text : Nat]

\* Calls have no service in common but those torn; what one read of a service
\* is its text still.
ServiceInv ==
    /\ focus = "services" => called \in Nat
    /\ services \in Seq(ServiceRow) /\ lastText \in Seq(Name) /\ Len(lastText) = Len(services)
    /\ serviceCalls \in [Calls -> ServiceStep]
    /\ \A k \in Calls : /\ serviceCalls[k].listed \subseteq DOMAIN services
                        /\ serviceCalls[k].details \subseteq serviceCalls[k].listed
                        /\ DOMAIN serviceCalls[k].read \subseteq serviceCalls[k].listed
    /\ \A j, k \in Calls : j # k => serviceCalls[j].listed \cap serviceCalls[k].listed \subseteq torn
    /\ \A k \in Calls : \A i \in DOMAIN serviceCalls[k].read \ torn :
         serviceCalls[k].read[i] = services[i].text
    /\ TranslationsAreKept

LEMMA ServicesMove ==
    ASSUME [Next]_vars
    PROVE  /\ focus' = focus
           /\ \/ focus = "services" /\ ServicesNext /\ Counts
              \/ focus = "services" /\ SettingsCrash /\ Counts
              \/ focus # "services" /\ SettingsCrash
              \/ focus # "services" /\ UNCHANGED <<services, lastText, serviceCalls, torn>>
              \/ UNCHANGED <<services, lastText, serviceCalls, torn, called>>
<1>1. CASE UNCHANGED vars
  BY <1>1 DEF vars, settingVars
<1>2. CASE Next
  <2>1. focus' = focus
    BY <1>2 DEF Next, OthersKeep
  <2>2. CASE focus = "services"
    <3>1. SettingsNext("services")
      BY <1>2, <2>2 DEF Next, Part
    <3>2. ServicesNext \/ SettingsCrash
      BY <3>1 DEF SettingsNext
    <3> QED
      BY <2>1, <2>2, <3>1, <3>2, CountsSettings
  <2>3. CASE focus = "faqs"
    <3>1. SettingsNext("faqs")
      BY <1>2, <2>3 DEF Next, Part
    <3> QED
      BY <2>1, <2>3, <3>1 DEF SettingsNext
  <2>4. CASE focus \notin {"services", "faqs"}
    BY <1>2, <2>1, <2>4 DEF Next, OthersKeep, Keeps, settingVars
  <2> QED
    BY <2>2, <2>3, <2>4
<1> QED
  BY <1>1, <1>2

\* What is read of no service.
LEMMA NothingRead ==
    /\ <<>> \in UNION {[D -> Name] : D \in SUBSET Nat} /\ DOMAIN <<>> = {}
    /\ ServiceIdle \in ServiceStep /\ ServiceIdle.listed = {} /\ ServiceIdle.details = {}
    /\ ServiceIdle.read = <<>>
<1>1. <<>> \in [{} -> Name] /\ DOMAIN <<>> = {}
  OBVIOUS
<1>2. {} \in SUBSET Nat
  OBVIOUS
<1>3. <<>> \in UNION {[D -> Name] : D \in SUBSET Nat}
  BY <1>1, <1>2
<1> QED
  BY <1>1, <1>3 DEF ServiceIdle, ServiceStep, ELanguage

LEMMA InitServices == Init => ServiceInv
<1> SUFFICES ASSUME Init PROVE ServiceInv
  OBVIOUS
<1>1. /\ services = <<>> /\ lastText = <<>> /\ torn = {} /\ called = 0
      /\ serviceCalls = [k \in Calls |-> ServiceIdle]
  BY DEF Init, SettingsInit
<1>2. serviceCalls \in [Calls -> ServiceStep] /\ \A k \in Calls : serviceCalls[k] = ServiceIdle
  BY <1>1, NothingRead
<1>3. /\ services \in Seq(ServiceRow) /\ lastText \in Seq(Name) /\ Len(services) = Len(lastText)
      /\ DOMAIN services = {}
  BY <1>1
<1> QED
  BY <1>1, <1>2, <1>3, NothingRead DEF ServiceInv, TranslationsAreKept

LEMMA ServicesFit ==
    ASSUME ServiceInv
    PROVE  /\ Len(services) \in Nat /\ DOMAIN services = 1..Len(services)
           /\ DOMAIN lastText = DOMAIN services
           /\ \A i \in DOMAIN services : services[i] \in ServiceRow /\ services[i].text \in Name
           /\ \A i \in DOMAIN services : lastText[i] \in Name
           /\ \A k \in Calls : serviceCalls[k] \in ServiceStep
<1>1. /\ services \in Seq(ServiceRow) /\ lastText \in Seq(Name) /\ Len(lastText) = Len(services)
      /\ serviceCalls \in [Calls -> ServiceStep]
  BY DEF ServiceInv
<1>2. Len(services) \in Nat /\ DOMAIN services = 1..Len(services) /\ DOMAIN lastText = DOMAIN services
  BY <1>1
<1>3. \A i \in DOMAIN services : services[i] \in ServiceRow /\ lastText[i] \in Name
  BY <1>1, <1>2
<1>4. \A i \in DOMAIN services : services[i].text \in Name
  BY <1>3 DEF ServiceRow
<1> QED
  BY <1>1, <1>2, <1>3, <1>4

\* The texts stay, and what is read is one of them or was read before.
LEMMA TextsStay ==
    ASSUME ServiceInv, focus' = "services" => called' \in Nat,
           services' \in Seq(ServiceRow), Len(services') = Len(services), UNCHANGED lastText,
           \A i \in DOMAIN services : services'[i].text = services[i].text,
           torn \subseteq torn', serviceCalls' \in [Calls -> ServiceStep],
           \A k \in Calls :
             /\ serviceCalls'[k].listed \subseteq DOMAIN services
             /\ serviceCalls'[k].details \subseteq serviceCalls'[k].listed
             /\ DOMAIN serviceCalls'[k].read \subseteq serviceCalls'[k].listed
             /\ \A i \in DOMAIN serviceCalls'[k].read :
                  \/ serviceCalls'[k].read[i] = services[i].text
                  \/ i \in DOMAIN serviceCalls[k].read
                     /\ serviceCalls'[k].read[i] = serviceCalls[k].read[i],
           \A j, k \in Calls : j # k => serviceCalls'[j].listed \cap serviceCalls'[k].listed \subseteq torn'
    PROVE  ServiceInv'
<1>1. DOMAIN services' = DOMAIN services
  BY ServicesFit DEF ServiceInv
<1>2. TranslationsAreKept'
  BY <1>1 DEF ServiceInv, TranslationsAreKept
<1>3. ASSUME NEW k \in Calls, NEW i \in DOMAIN serviceCalls'[k].read \ torn'
      PROVE  serviceCalls'[k].read[i] = services'[i].text
  <2>1. i \in DOMAIN services /\ services'[i].text = services[i].text
    OBVIOUS
  <2>2. CASE serviceCalls'[k].read[i] = services[i].text
    BY <2>1, <2>2
  <2>3. CASE i \in DOMAIN serviceCalls[k].read /\ serviceCalls'[k].read[i] = serviceCalls[k].read[i]
    BY <2>1, <2>3 DEF ServiceInv
  <2> QED
    BY <2>2, <2>3
<1> QED
  BY <1>1, <1>2, <1>3 DEF ServiceInv

LEMMA CreateKeepsServices ==
    ASSUME ServiceInv, NEW k \in Calls, createSpecialService(k), focus = "services", focus' = focus, Counts
    PROVE  ServiceInv'
<1>1. PICK lang \in ELanguage, listed \in SUBSET DOMAIN services, new \in BOOLEAN :
        /\ serviceCalls' = [serviceCalls EXCEPT ![k] =
              [ServiceIdle EXCEPT !.pc = "remove", !.lang = lang, !.listed = listed,
                                  !.details = listed, !.new = new, !.text = called + 1]]
        /\ torn' = torn \cup (listed \cap UNION {serviceCalls[j].listed : j \in Calls})
  BY DEF createSpecialService
<1>2. called \in Nat /\ called' \in Nat /\ UNCHANGED <<services, lastText>>
  BY DEF ServiceInv, Counts, createSpecialService
<1>3. PICK n \in Nat : n = called + 1
  BY <1>2
<1> DEFINE c == [ServiceIdle EXCEPT !.pc = "remove", !.lang = lang, !.listed = listed,
                                    !.details = listed, !.new = new, !.text = n]
<1>4. listed \in SUBSET Nat
  BY ServicesFit
<1>5. c \in ServiceStep /\ c.listed = listed /\ c.details = listed /\ c.read = <<>>
  BY <1>4, NothingRead DEF ServiceIdle, ServiceStep
<1>6. serviceCalls' = [serviceCalls EXCEPT ![k] = c]
  BY <1>1, <1>3
<1> HIDE DEF c
<1>7. serviceCalls' \in [Calls -> ServiceStep]
      /\ \A j \in Calls : serviceCalls'[j] = IF j = k THEN c ELSE serviceCalls[j]
  BY <1>5, <1>6 DEF ServiceInv
<1>8. services' \in Seq(ServiceRow) /\ torn \subseteq torn'
  BY <1>1, <1>2 DEF ServiceInv
<1>9. ASSUME NEW j \in Calls
      PROVE  /\ serviceCalls'[j].listed \subseteq DOMAIN services
             /\ serviceCalls'[j].details \subseteq serviceCalls'[j].listed
             /\ DOMAIN serviceCalls'[j].read \subseteq serviceCalls'[j].listed
             /\ \A i \in DOMAIN serviceCalls'[j].read :
                  i \in DOMAIN serviceCalls[j].read /\ serviceCalls'[j].read[i] = serviceCalls[j].read[i]
  <2>1. CASE j = k
    BY <1>5, <1>7, <2>1, NothingRead
  <2>2. CASE j # k
    BY <1>7, <2>2 DEF ServiceInv
  <2> QED
    BY <2>1, <2>2
<1>10. \A i, j \in Calls : i # j => serviceCalls'[i].listed \cap serviceCalls'[j].listed \subseteq torn'
  BY <1>1, <1>5, <1>7 DEF ServiceInv
<1> QED
  BY <1>2, <1>7, <1>8, <1>9, <1>10, TextsStay

\* A removal leaves the texts.
LEMMA RemovalKeepsTexts ==
    ASSUME ServiceInv, NEW S,
           services' = [i \in DOMAIN services |->
                          IF i \in S THEN services[i] ELSE [services[i] EXCEPT !.live = FALSE]]
    PROVE  /\ services' \in Seq(ServiceRow) /\ Len(services') = Len(services)
           /\ \A i \in DOMAIN services : services'[i].text = services[i].text
<1>1. ASSUME NEW i \in DOMAIN services
      PROVE  services'[i] \in ServiceRow /\ services'[i].text = services[i].text
  <2>1. PICK row \in ServiceRow : row = services[i]
    BY ServicesFit
  <2>2. [row EXCEPT !.live = FALSE] \in ServiceRow /\ [row EXCEPT !.live = FALSE].text = row.text
    BY DEF ServiceRow
  <2> QED
    BY <2>1, <2>2
<1>2. Len(services) \in Nat /\ DOMAIN services = 1..Len(services)
  BY ServicesFit
<1>3. services' \in [1..Len(services) -> ServiceRow]
  BY <1>1, <1>2
<1> QED
  BY <1>1, <1>2, <1>3

LEMMA RemoveKeepsServices ==
    ASSUME ServiceInv, NEW k \in Calls, RemoveUnlisted(k), focus' = focus, Counts
    PROVE  ServiceInv'
<1>1. PICK c : c = serviceCalls[k]
  OBVIOUS
<1>2. c \in ServiceStep /\ serviceCalls \in [Calls -> ServiceStep]
  BY <1>1 DEF ServiceInv
<1> DEFINE d == [c EXCEPT !.pc = "details"]
<1>3. d \in ServiceStep /\ d.listed = c.listed /\ d.details = c.details /\ d.read = c.read
  BY <1>2 DEF ServiceStep
<1>4. serviceCalls' = [serviceCalls EXCEPT ![k] = d] /\ UNCHANGED <<lastText, torn, called>>
  BY <1>1 DEF RemoveUnlisted
<1> HIDE DEF d
<1>5. serviceCalls' \in [Calls -> ServiceStep]
      /\ \A j \in Calls : /\ serviceCalls'[j].listed = serviceCalls[j].listed
                          /\ serviceCalls'[j].details = serviceCalls[j].details
                          /\ serviceCalls'[j].read = serviceCalls[j].read
  BY <1>1, <1>2, <1>3, <1>4
<1>6. /\ services' \in Seq(ServiceRow) /\ Len(services') = Len(services)
      /\ \A i \in DOMAIN services : services'[i].text = services[i].text
  BY RemovalKeepsTexts DEF RemoveUnlisted
<1>7. \A j, i \in Calls : j # i => serviceCalls'[j].listed \cap serviceCalls'[i].listed \subseteq torn'
  BY <1>4, <1>5 DEF ServiceInv
<1>8. focus' = "services" => called' \in Nat
  BY <1>4 DEF ServiceInv
<1>9. \A j \in Calls : /\ serviceCalls'[j].listed \subseteq DOMAIN services
                       /\ serviceCalls'[j].details \subseteq serviceCalls'[j].listed
                       /\ DOMAIN serviceCalls'[j].read \subseteq serviceCalls'[j].listed
  BY <1>5 DEF ServiceInv
<1>10. \A j \in Calls : \A i \in DOMAIN serviceCalls'[j].read :
          i \in DOMAIN serviceCalls[j].read /\ serviceCalls'[j].read[i] = serviceCalls[j].read[i]
  BY <1>5
<1> QED
  BY <1>4, <1>5, <1>6, <1>7, <1>8, <1>9, <1>10, TextsStay

LEMMA DeleteKeepsServices ==
    ASSUME ServiceInv, deleteSpecialService, focus' = focus, Counts
    PROVE  ServiceInv'
<1>1. /\ UNCHANGED <<lastText, serviceCalls, torn>> /\ called' = called + 1
      /\ \E i \in DOMAIN services : services' = [services EXCEPT ![i].live = FALSE]
  BY DEF deleteSpecialService, Counted
<1>2. PICK i \in DOMAIN services : services' = [services EXCEPT ![i].live = FALSE]
  BY <1>1
<1>3. services' = [j \in DOMAIN services |->
                     IF j \in DOMAIN services \ {i} THEN services[j] ELSE [services[j] EXCEPT !.live = FALSE]]
  BY <1>2
<1>4. /\ services' \in Seq(ServiceRow) /\ Len(services') = Len(services)
      /\ \A j \in DOMAIN services : services'[j].text = services[j].text
  BY <1>3, RemovalKeepsTexts
<1>5. focus' = "services" => called' \in Nat
  BY <1>1 DEF ServiceInv
<1>6. /\ serviceCalls' \in [Calls -> ServiceStep]
      /\ \A k \in Calls : /\ serviceCalls'[k].listed \subseteq DOMAIN services
                          /\ serviceCalls'[k].details \subseteq serviceCalls'[k].listed
                          /\ DOMAIN serviceCalls'[k].read \subseteq serviceCalls'[k].listed
      /\ \A j, k \in Calls : j # k => serviceCalls'[j].listed \cap serviceCalls'[k].listed \subseteq torn'
  BY <1>1 DEF ServiceInv
<1> QED
  BY <1>1, <1>4, <1>5, <1>6, TextsStay

\* Reading one more service adds its text, to what was read before.
LEMMA OneMoreRead ==
    ASSUME NEW read \in UNION {[D -> Name] : D \in SUBSET Nat}, NEW i \in Nat, NEW t \in Name
    PROVE  [j \in DOMAIN read \cup {i} |-> IF j = i THEN t ELSE read[j]]
           \in UNION {[D -> Name] : D \in SUBSET Nat}
<1>1. PICK D \in SUBSET Nat : read \in [D -> Name]
  OBVIOUS
<1>2. [j \in DOMAIN read \cup {i} |-> IF j = i THEN t ELSE read[j]] \in [D \cup {i} -> Name]
  BY <1>1
<1> QED
  BY <1>2

LEMMA OneLessRead ==
    ASSUME NEW read \in UNION {[D -> Name] : D \in SUBSET Nat}, NEW S
    PROVE  /\ Restrict(read, DOMAIN read \ S) \in UNION {[D -> Name] : D \in SUBSET Nat}
           /\ DOMAIN Restrict(read, DOMAIN read \ S) = DOMAIN read \ S
           /\ \A i \in DOMAIN read \ S : Restrict(read, DOMAIN read \ S)[i] = read[i]
<1>1. PICK D \in SUBSET Nat : read \in [D -> Name]
  OBVIOUS
<1>2. Restrict(read, DOMAIN read \ S) \in [D \ S -> Name]
  BY <1>1 DEF Restrict
<1> QED
  BY <1>1, <1>2 DEF Restrict

LEMMA ReadKeepsServices ==
    ASSUME ServiceInv, NEW k \in Calls, NEW i \in DOMAIN services, ReadDetail(k, i), focus' = focus
    PROVE  ServiceInv'
<1>1. PICK c : c = serviceCalls[k]
  OBVIOUS
<1>2. /\ c \in ServiceStep /\ serviceCalls \in [Calls -> ServiceStep] /\ i \in c.details
      /\ c.listed \subseteq DOMAIN services /\ c.details \subseteq c.listed /\ DOMAIN c.read \subseteq c.listed
      /\ UNCHANGED <<services, lastText, torn, called>>
      /\ c.read \in UNION {[D -> Name] : D \in SUBSET Nat} /\ c.failed \in BOOLEAN
      /\ c.details \in SUBSET Nat /\ i \in Nat /\ services[i].text \in Name
  BY <1>1, ServicesFit DEF ServiceInv, ReadDetail, ServiceStep
<1>3. PICK read : read = IF services[i].live
                         THEN [j \in DOMAIN c.read \cup {i} |->
                                  IF j = i THEN services[i].text ELSE c.read[j]]
                         ELSE c.read
  OBVIOUS
<1>4. PICK failed \in BOOLEAN : failed = (c.failed \/ ~services[i].live)
  OBVIOUS
<1>5. /\ read \in UNION {[D -> Name] : D \in SUBSET Nat} /\ DOMAIN read \subseteq DOMAIN c.read \cup {i}
      /\ \A j \in DOMAIN read : \/ read[j] = services[j].text
                                \/ j \in DOMAIN c.read /\ read[j] = c.read[j]
  BY <1>2, <1>3, OneMoreRead, SMTT(40)
<1> DEFINE d == [c EXCEPT !.details = @ \ {i}, !.read = read, !.failed = failed]
<1>6. serviceCalls' = [serviceCalls EXCEPT ![k] = d]
  BY <1>1, <1>2, <1>3, <1>4 DEF ReadDetail, ServiceStep
<1>7. d \in ServiceStep /\ d.listed = c.listed /\ d.details = c.details \ {i} /\ d.read = read
  BY <1>2, <1>4, <1>5 DEF ServiceStep
<1> HIDE DEF d
<1>8. serviceCalls' \in [Calls -> ServiceStep]
      /\ \A j \in Calls : serviceCalls'[j] = IF j = k THEN d ELSE serviceCalls[j]
  BY <1>2, <1>6, <1>7
<1>9. ASSUME NEW j \in Calls
      PROVE  /\ serviceCalls'[j].listed = serviceCalls[j].listed
             /\ serviceCalls'[j].listed \subseteq DOMAIN services
             /\ serviceCalls'[j].details \subseteq serviceCalls'[j].listed
             /\ DOMAIN serviceCalls'[j].read \subseteq serviceCalls'[j].listed
             /\ \A l \in DOMAIN serviceCalls'[j].read :
                  \/ serviceCalls'[j].read[l] = services[l].text
                  \/ l \in DOMAIN serviceCalls[j].read
                     /\ serviceCalls'[j].read[l] = serviceCalls[j].read[l]
  <2>1. CASE j = k
    BY <1>1, <1>2, <1>5, <1>7, <1>8, <2>1
  <2>2. CASE j # k
    BY <1>8, <2>2 DEF ServiceInv
  <2> QED
    BY <2>1, <2>2
<1>10. \A j, l \in Calls : j # l => serviceCalls'[j].listed \cap serviceCalls'[l].listed \subseteq torn'
  BY <1>2, <1>9 DEF ServiceInv
<1>11. /\ focus' = "services" => called' \in Nat
       /\ services' \in Seq(ServiceRow) /\ Len(services') = Len(services)
       /\ \A j \in DOMAIN services : services'[j].text = services[j].text
  BY <1>2 DEF ServiceInv
<1> QED
  BY <1>2, <1>8, <1>9, <1>10, <1>11, TextsStay

LEMMA WriteKeepsServices ==
    ASSUME ServiceInv, NEW k \in Calls, NEW i \in DOMAIN services, WriteDetail(k, i), focus' = focus
    PROVE  ServiceInv'
<1>1. PICK c : c = serviceCalls[k]
  OBVIOUS
<1>2. /\ c \in ServiceStep /\ serviceCalls \in [Calls -> ServiceStep] /\ i \in DOMAIN c.read
      /\ c.listed \subseteq DOMAIN services /\ c.details \subseteq c.listed /\ DOMAIN c.read \subseteq c.listed
      /\ UNCHANGED <<torn, called>>
      /\ c.read \in UNION {[D -> Name] : D \in SUBSET Nat} /\ c.lang \in ELanguage /\ c.text \in Nat
      /\ services \in Seq(ServiceRow) /\ lastText \in Seq(Name) /\ Len(lastText) = Len(services)
      /\ i \in DOMAIN lastText /\ services[i] \in ServiceRow
  BY <1>1, ServicesFit DEF ServiceInv, WriteDetail, ServiceStep
<1>3. PICK read : read = Restrict(c.read, DOMAIN c.read \ {i})
  OBVIOUS
<1>4. /\ read \in UNION {[D -> Name] : D \in SUBSET Nat} /\ DOMAIN read = DOMAIN c.read \ {i}
      /\ \A j \in DOMAIN read : read[j] = c.read[j]
  <2>1. ASSUME NEW r \in UNION {[D -> Name] : D \in SUBSET Nat}
        PROVE  /\ Restrict(r, DOMAIN r \ {i}) \in UNION {[D -> Name] : D \in SUBSET Nat}
               /\ DOMAIN Restrict(r, DOMAIN r \ {i}) = DOMAIN r \ {i}
               /\ \A j \in DOMAIN r \ {i} : Restrict(r, DOMAIN r \ {i})[j] = r[j]
    BY OneLessRead
  <2>2. c.read \in UNION {[D -> Name] : D \in SUBSET Nat}
    BY <1>2
  <2>3. /\ Restrict(c.read, DOMAIN c.read \ {i}) \in UNION {[D -> Name] : D \in SUBSET Nat}
        /\ DOMAIN Restrict(c.read, DOMAIN c.read \ {i}) = DOMAIN c.read \ {i}
        /\ \A j \in DOMAIN c.read \ {i} : Restrict(c.read, DOMAIN c.read \ {i})[j] = c.read[j]
    BY <2>1, <2>2
  <2> QED
    BY <1>3, <2>3
<1> DEFINE d == [c EXCEPT !.read = read]
<1>5. d \in ServiceStep /\ d.listed = c.listed /\ d.details = c.details /\ d.read = read
  BY <1>2, <1>4 DEF ServiceStep
<1>6. serviceCalls' = [serviceCalls EXCEPT ![k] = d]
  BY <1>1, <1>2, <1>3 DEF WriteDetail, ServiceStep
<1> HIDE DEF d
<1>7. serviceCalls' \in [Calls -> ServiceStep]
      /\ \A j \in Calls : serviceCalls'[j] = IF j = k THEN d ELSE serviceCalls[j]
  BY <1>2, <1>5, <1>6
<1>8. PICK old, new : /\ old = services[i] /\ new = [c.read[i] EXCEPT ![c.lang] = c.text]
  OBVIOUS
<1>9. c.read[i] \in Name /\ new \in Name
  <2>1. c.read[i] \in Name
    BY <1>2
  <2> QED
    BY <1>2, <1>8, <2>1 DEF Name
<1> DEFINE row == [old EXCEPT !.text = new]
<1>10. row \in ServiceRow /\ row.text = new
  BY <1>2, <1>8, <1>9 DEF ServiceRow
<1>11. services' = [services EXCEPT ![i] = row]
  BY <1>1, <1>8 DEF WriteDetail, Assigned
<1> HIDE DEF row
<1>12. /\ services' \in Seq(ServiceRow) /\ Len(services') = Len(services) /\ DOMAIN services' = DOMAIN services
       /\ \A j \in DOMAIN services : services'[j] = IF j = i THEN row ELSE services[j]
  BY <1>2, <1>10, <1>11
<1>13. PICK last \in Name : last = [lastText[i] EXCEPT ![c.lang] = c.text]
  BY <1>2, ServicesFit DEF Name
<1>14. lastText' = [lastText EXCEPT ![i] = last]
  BY <1>1, <1>13 DEF WriteDetail
<1>15. /\ lastText' \in Seq(Name) /\ Len(lastText') = Len(services')
       /\ \A j \in DOMAIN services : lastText'[j] = IF j = i THEN last ELSE lastText[j]
  BY <1>2, <1>12, <1>14, ServicesFit
<1>16. TranslationsAreKept'
  <2> SUFFICES ASSUME NEW j \in DOMAIN services' \ torn' PROVE services'[j].text = lastText'[j]
    BY DEF TranslationsAreKept
  <2>1. services[j].text = lastText[j] /\ j \in DOMAIN services /\ j \notin torn
    BY <1>2, <1>12 DEF ServiceInv, TranslationsAreKept
  <2>2. CASE j = i
    <3>1. c.read[i] = lastText[i]
      BY <1>1, <1>2, <2>1, <2>2 DEF ServiceInv
    <3>2. new = last
      BY <1>8, <1>13, <3>1
    <3> QED
      BY <1>10, <1>12, <1>15, <2>1, <2>2, <3>2
  <2>3. CASE j # i
    BY <1>12, <1>15, <2>1, <2>3
  <2> QED
    BY <2>2, <2>3
<1>17. ASSUME NEW j \in Calls
       PROVE  /\ serviceCalls'[j].listed = serviceCalls[j].listed
              /\ serviceCalls'[j].listed \subseteq DOMAIN services'
              /\ serviceCalls'[j].details \subseteq serviceCalls'[j].listed
              /\ DOMAIN serviceCalls'[j].read \subseteq serviceCalls'[j].listed
  <2>1. CASE j = k
    BY <1>1, <1>2, <1>4, <1>5, <1>7, <1>12, <2>1
  <2>2. CASE j # k
    BY <1>7, <1>12, <2>2 DEF ServiceInv
  <2> QED
    BY <2>1, <2>2
<1>18. ASSUME NEW j \in Calls, NEW l \in DOMAIN serviceCalls'[j].read \ torn'
       PROVE  serviceCalls'[j].read[l] = services'[l].text
  <2>1. CASE j = k
    <3>1. /\ l # i /\ l \in DOMAIN c.read /\ l \notin torn /\ serviceCalls'[j].read[l] = c.read[l]
          /\ l \in DOMAIN services
      BY <1>2, <1>4, <1>5, <1>7, <1>18, <2>1
    <3>2. c.read[l] = services[l].text
      BY <1>1, <3>1 DEF ServiceInv
    <3> QED
      BY <1>12, <3>1, <3>2
  <2>2. CASE j # k
    <3>1. /\ serviceCalls'[j] = serviceCalls[j] /\ l \in DOMAIN serviceCalls[j].read \ torn
          /\ l \in serviceCalls[j].listed
      BY <1>2, <1>7, <1>18, <2>2 DEF ServiceInv
    <3>2. serviceCalls[j].read[l] = services[l].text /\ l \in DOMAIN services
      BY <3>1 DEF ServiceInv
    <3>3. l # i
      <4>1. i \in serviceCalls[k].listed
        BY <1>1, <1>2
      <4> QED
        BY <2>2, <3>1, <4>1 DEF ServiceInv
    <3> QED
      BY <1>12, <3>1, <3>2, <3>3
  <2> QED
    BY <2>1, <2>2
<1>19. \A j, l \in Calls : j # l => serviceCalls'[j].listed \cap serviceCalls'[l].listed \subseteq torn'
  BY <1>2, <1>17 DEF ServiceInv
<1>20. focus' = "services" => called' \in Nat
  BY <1>2 DEF ServiceInv
<1> QED
  BY <1>7, <1>12, <1>15, <1>16, <1>17, <1>18, <1>19, <1>20 DEF ServiceInv

LEMMA EndKeepsServices ==
    ASSUME ServiceInv, NEW k \in Calls, CreateServices(k), focus' = focus
    PROVE  ServiceInv'
<1>1. PICK c : c = serviceCalls[k]
  OBVIOUS
<1>2. /\ c \in ServiceStep /\ serviceCalls \in [Calls -> ServiceStep] /\ UNCHANGED <<torn, called>>
      /\ c.lang \in ELanguage /\ c.text \in Nat
      /\ serviceCalls' = [serviceCalls EXCEPT ![k] = ServiceIdle]
      /\ services \in Seq(ServiceRow) /\ lastText \in Seq(Name) /\ Len(lastText) = Len(services)
      /\ Len(services) \in Nat /\ DOMAIN services = 1..Len(services)
  BY <1>1, ServicesFit DEF ServiceInv, CreateServices, ServiceStep
<1>3. serviceCalls' \in [Calls -> ServiceStep]
      /\ \A j \in Calls : serviceCalls'[j] = IF j = k THEN ServiceIdle ELSE serviceCalls[j]
  BY <1>2, NothingRead
<1>4. focus' = "services" => called' \in Nat
  BY <1>2 DEF ServiceInv
<1>5. \A j, l \in Calls : j # l => serviceCalls'[j].listed \cap serviceCalls'[l].listed \subseteq torn'
  BY <1>2, <1>3, NothingRead DEF ServiceInv
<1>6. \A j \in Calls : /\ serviceCalls'[j].listed \subseteq DOMAIN services
                       /\ serviceCalls'[j].details \subseteq serviceCalls'[j].listed
                       /\ DOMAIN serviceCalls'[j].read \subseteq serviceCalls'[j].listed
  BY <1>3, NothingRead DEF ServiceInv
<1>7. \A j \in Calls : \A i \in DOMAIN serviceCalls'[j].read :
          i \in DOMAIN serviceCalls[j].read /\ serviceCalls'[j].read[i] = serviceCalls[j].read[i]
  BY <1>3, NothingRead
<1>8. CASE UNCHANGED <<services, lastText>>
  <2>1. /\ services' \in Seq(ServiceRow) /\ Len(services') = Len(services)
        /\ \A i \in DOMAIN services : services'[i].text = services[i].text
    BY <1>2, <1>8
  <2> QED
    BY <1>2, <1>3, <1>4, <1>5, <1>6, <1>7, <1>8, <2>1, TextsStay
<1>9. CASE ~UNCHANGED <<services, lastText>>
  <2>1. PICK new : new = Assigned([l \in ELanguage |-> 0], c.lang, c.text)
    OBVIOUS
  <2>2. new \in Name
    BY <1>2, <2>1 DEF Assigned, Name
  <2> DEFINE row == [live |-> TRUE, text |-> new]
  <2>3. services' = Append(services, row) /\ lastText' = Append(lastText, new)
    BY <1>1, <1>9, <2>1 DEF CreateServices
  <2>4. row \in ServiceRow /\ row.text = new
    BY <2>2 DEF ServiceRow
  <2> HIDE DEF row
  <2>5. /\ services' \in Seq(ServiceRow) /\ Len(services') = Len(services) + 1
        /\ \A i \in DOMAIN services : services'[i] = services[i]
        /\ services'[Len(services) + 1] = row
        /\ DOMAIN services' = DOMAIN services \cup {Len(services) + 1}
    BY <1>2, <2>3, <2>4
  <2>6. /\ lastText' \in Seq(Name) /\ Len(lastText') = Len(services')
        /\ \A i \in DOMAIN services : lastText'[i] = lastText[i]
        /\ lastText'[Len(services) + 1] = new
    BY <1>2, <2>2, <2>3, <2>5, ServicesFit
  <2>7. TranslationsAreKept'
    <3> SUFFICES ASSUME NEW i \in DOMAIN services' \ torn' PROVE services'[i].text = lastText'[i]
      BY DEF TranslationsAreKept
    <3>1. CASE i = Len(services) + 1
      BY <2>4, <2>5, <2>6, <3>1
    <3>2. CASE i # Len(services) + 1
      BY <1>2, <2>5, <2>6, <3>2 DEF ServiceInv, TranslationsAreKept
    <3> QED
      BY <3>1, <3>2
  <2>8. \A j \in Calls : \A i \in DOMAIN serviceCalls'[j].read \ torn' :
           serviceCalls'[j].read[i] = services'[i].text
    <3> SUFFICES ASSUME NEW j \in Calls, NEW i \in DOMAIN serviceCalls'[j].read \ torn'
                 PROVE  serviceCalls'[j].read[i] = services'[i].text
      OBVIOUS
    <3>1. /\ i \in DOMAIN serviceCalls[j].read \ torn /\ i \in DOMAIN services
          /\ serviceCalls'[j].read[i] = serviceCalls[j].read[i]
      BY <1>2, <1>6, <1>7
    <3> QED
      BY <2>5, <3>1 DEF ServiceInv
  <2>9. \A j \in Calls : serviceCalls'[j].listed \subseteq DOMAIN services'
    BY <1>6, <2>5
  <2> QED
    BY <1>3, <1>4, <1>5, <1>6, <2>5, <2>6, <2>7, <2>8, <2>9 DEF ServiceInv
<1> QED
  BY <1>8, <1>9

LEMMA NextServices == ASSUME ServiceInv, [Next]_vars PROVE ServiceInv'
<1>1. focus' = focus /\ (focus = "services" => called \in Nat) /\ serviceCalls \in [Calls -> ServiceStep]
  BY ServicesMove DEF ServiceInv
<1>2. CASE focus = "services" /\ ServicesNext /\ Counts
  BY <1>1, <1>2, CreateKeepsServices, RemoveKeepsServices, DeleteKeepsServices, ReadKeepsServices,
     WriteKeepsServices, EndKeepsServices DEF ServicesNext
<1>3. ASSUME focus = "services" => called' \in Nat,
             SettingsCrash \/ UNCHANGED <<services, lastText, serviceCalls, torn>>
      PROVE  ServiceInv'
  <2>1. /\ UNCHANGED <<services, lastText, torn>>
        /\ serviceCalls' = [k \in Calls |-> ServiceIdle] \/ UNCHANGED serviceCalls
    BY <1>3 DEF SettingsCrash
  <2>2. /\ serviceCalls' \in [Calls -> ServiceStep]
        /\ \A k \in Calls : serviceCalls'[k] = ServiceIdle \/ serviceCalls'[k] = serviceCalls[k]
    BY <1>1, <2>1, NothingRead
  <2>3. \A k \in Calls :
          /\ serviceCalls'[k].listed \subseteq DOMAIN services
          /\ serviceCalls'[k].details \subseteq serviceCalls'[k].listed
          /\ DOMAIN serviceCalls'[k].read \subseteq serviceCalls'[k].listed
          /\ \A i \in DOMAIN serviceCalls'[k].read :
               i \in DOMAIN serviceCalls[k].read /\ serviceCalls'[k].read[i] = serviceCalls[k].read[i]
    BY <2>2, NothingRead DEF ServiceInv
  <2>4. \A j, k \in Calls : j # k => serviceCalls'[j].listed \cap serviceCalls'[k].listed \subseteq torn'
    BY <2>1, <2>2, NothingRead DEF ServiceInv
  <2>5. /\ services' \in Seq(ServiceRow) /\ Len(services') = Len(services)
        /\ \A i \in DOMAIN services : services'[i].text = services[i].text
    BY <2>1 DEF ServiceInv
  <2> QED
    BY <1>1, <1>3, <2>1, <2>2, <2>3, <2>4, <2>5, TextsStay
<1>4. Counts /\ called \in Nat => called' \in Nat
  BY DEF Counts
<1> QED
  BY <1>1, <1>2, <1>3, <1>4, ServicesMove

\* Saving the special services in one language leaves the texts in the other,
\* and no two questions of a type get the same place, but for calls that met
\* others (createSpecialService, createFaq, updateFaq).
THEOREM SettingsAreAlwaysTheLastSaved == Spec => []SettingsAreTheLastSaved
<1>1. FaqInv /\ ServiceInv /\ [Next]_vars => (FaqInv /\ ServiceInv)'
  BY NextFaqs, NextServices
<1>2. FaqInv /\ ServiceInv => SettingsAreTheLastSaved
  BY DEF FaqInv, ServiceInv, SettingsAreTheLastSaved
<1>3. Init => FaqInv /\ ServiceInv
  BY InitFaqs, InitServices
<1> QED
  BY <1>1, <1>2, <1>3, PTL DEF Spec

----------------------------------------------------------------------------
(* Forms that replace rows. *)

Tables == UNION {[ids -> Nat] : ids \in SUBSET (Nat \ {0})}
IdLists == UNION {[1..n -> Nat] : n \in Nat}
FormRow == [pc : FormPC, part : Part, list : IdLists, copy : Tables, met : BOOLEAN]

\* A call that replaces rows has taken those away that it will not write.
Replacing == {"save", "manager"}

\* What a call may rely on; of the rows themselves only if it met no other.
FormOK(c) ==
    /\ c \in FormRow
    /\ c.pc # "idle" /\ c.met => c.part \in mixed
    /\ c.pc \in {"default", "drop"} => c.part = "images"
    /\ c.pc \in {"clear", "manager"} => c.part = "permissions"
    /\ c.pc \in {"user", "used", "delete", "clear", "save"} =>
         \A i, j \in DOMAIN c.list : c.list[i] <= made[c.part] /\ (c.list[i] = c.list[j] => i = j \/ c.list[i] = 0)
    /\ c.pc = "manager" => 0 \notin Listed(c)
    /\ c.pc = "default" => 1 \in DOMAIN c.list /\ c.list[1] \in DOMAIN c.copy
    /\ ~c.met => /\ c.pc \notin {"idle", "save", "manager"} => parts[c.part] = c.copy
                 /\ c.pc \in Replacing => DOMAIN parts[c.part] \subseteq Listed(c)

\* The rows of p are those last ordered.
Follows(p) ==
    /\ DOMAIN parts[p] = wanted[p].ids
    /\ p = "images" =>
         /\ IsInjective(parts[p])
         /\ {i \in DOMAIN parts[p] : parts[p][i] = 0} = {wanted[p].main} \ {0}

FormInv ==
    /\ parts \in [Part -> Tables] /\ made \in [Part -> Nat] /\ wanted \in [Part -> [ids : SUBSET Nat, main : Nat]]
    /\ formCalls \in [Calls -> FormRow]
    /\ \A k \in Calls : FormOK(formCalls[k])
    /\ \A j, k \in Calls : j # k /\ formCalls[j].pc # "idle" /\ formCalls[k].pc # "idle"
                           /\ formCalls[j].part = formCalls[k].part => formCalls[k].met
    /\ \A p \in Part \ mixed :
         (\A k \in Calls : formCalls[k].part = p => formCalls[k].pc \notin Replacing) => Follows(p)

LEMMA FormsMove ==
    ASSUME [Next]_vars
    PROVE  (\E p \in Part : FormsNext(p)) \/ UNCHANGED formVars
BY DEF Next, vars, OthersKeep, Keeps, formVars, Part

LEMMA NothingYet == <<>> \in Tables /\ <<>> \in IdLists /\ DOMAIN <<>> = {}
<1>1. <<>> \in [{} -> Nat]
  OBVIOUS
<1>2. <<>> \in [1..0 -> Nat]
  OBVIOUS
<1> QED
  BY <1>1, <1>2 DEF Tables, IdLists

LEMMA FormIdleOK == FormOK(FormIdle) /\ FormOK(FormIdle)' /\ FormIdle.pc = "idle"
<1>1. FormIdle \in FormRow /\ FormIdle.pc = "idle"
  BY NothingYet DEF FormIdle, FormRow, FormPC, Part
<1> QED
  BY <1>1 DEF FormOK, Replacing

LEMMA InitForms == Init => FormInv
<1> SUFFICES ASSUME Init PROVE FormInv
  OBVIOUS
<1>1. /\ parts = [p \in Part |-> <<>>] /\ made = [p \in Part |-> 0]
      /\ wanted = [p \in Part |-> [ids |-> {}, main |-> 0]] /\ formCalls = [k \in Calls |-> FormIdle]
  BY DEF Init, FormsInit
<1>2. parts \in [Part -> Tables] /\ made \in [Part -> Nat] /\ wanted \in [Part -> [ids : SUBSET Nat, main : Nat]]
  BY <1>1, NothingYet
<1>3. \A p \in Part : Follows(p)
  BY <1>1, NothingYet DEF Follows, IsInjective
<1>4. formCalls \in [Calls -> FormRow] /\ \A k \in Calls : formCalls[k] = FormIdle
  BY <1>1, FormIdleOK DEF FormOK
<1> QED
  BY <1>2, <1>3, <1>4, FormIdleOK DEF FormInv

\* A step of a call that is under way, on its part alone.
LEMMA FormStep ==
    ASSUME FormInv, NEW k \in Calls, NEW c, c = formCalls[k], c.pc # "idle", NEW d, FormOK(d)',
           formCalls' = [formCalls EXCEPT ![k] = d],
           d.pc = "idle" \/ (d.part = c.part /\ d.met = c.met),
           parts' \in [Part -> Tables], made' \in [Part -> Nat],
           wanted' \in [Part -> [ids : SUBSET Nat, main : Nat]],
           \A q \in Part \ {c.part} : /\ parts'[q] = parts[q] /\ made'[q] = made[q] /\ wanted'[q] = wanted[q]
                                      /\ q \in mixed' <=> q \in mixed,
           made'[c.part] >= made[c.part],
           c.met => c.part \in mixed',
           c.part \notin mixed' /\ d.pc \notin Replacing => Follows(c.part)'
    PROVE  FormInv'
<1>1. PICK p \in Part : p = c.part
  BY DEF FormInv, FormRow
<1>2. \A j \in Calls : formCalls'[j] = IF j = k THEN d ELSE formCalls[j]
  BY DEF FormInv
<1>3. ASSUME NEW j \in Calls \ {k} PROVE FormOK(formCalls[j])'
  <2>1. PICK b : b = formCalls[j]
    OBVIOUS
  <2>2. b \in FormRow /\ FormOK(b) /\ formCalls'[j] = b
    BY <1>2, <2>1 DEF FormInv
  <2>3. FormOK(b)'
    <3>1. CASE b.pc = "idle"
      BY <2>2, <3>1 DEF FormOK, Replacing
    <3>2. CASE b.pc # "idle" /\ b.part = p
      <4>1. b.met /\ c.met
        BY <1>1, <2>1, <3>2 DEF FormInv
      <4>2. \A i \in DOMAIN b.list : b.list[i] <= made[p] => b.list[i] <= made'[p]
        <5>1. \A i \in DOMAIN b.list : b.list[i] \in Nat
          BY <2>2 DEF FormRow, IdLists
        <5> QED
          BY <1>1, <5>1 DEF FormInv
      <4> QED
        BY <1>1, <2>2, <3>2, <4>1, <4>2 DEF FormOK, Listed
    <3>3. CASE b.pc # "idle" /\ b.part # p
      <4>1. b.part \in Part \ {c.part}
        BY <1>1, <2>2, <3>3 DEF FormRow
      <4> QED
        BY <2>2, <3>3, <4>1 DEF FormOK, Listed
    <3> QED
      BY <3>1, <3>2, <3>3
  <2> QED
    BY <2>2, <2>3 DEF FormOK
<1>4. FormOK(formCalls[k])'
  BY <1>2 DEF FormOK
<1>5. \A j \in Calls : FormOK(formCalls[j])' /\ formCalls'[j] \in FormRow
  <2>1. d \in FormRow
    BY DEF FormOK
  <2>2. \A j \in Calls : formCalls'[j] \in FormRow
    BY <1>2, <2>1 DEF FormInv
  <2> QED
    BY <1>3, <1>4, <2>2
<1>6. formCalls' \in [Calls -> FormRow]
  <2>1. formCalls' = [j \in Calls |-> formCalls'[j]]
    BY DEF FormInv
  <2> QED
    BY <1>5, <2>1
<1>7. \A j, i \in Calls : j # i /\ formCalls'[j].pc # "idle" /\ formCalls'[i].pc # "idle"
                          /\ formCalls'[j].part = formCalls'[i].part => formCalls'[i].met
  BY <1>2 DEF FormInv
<1>8. ASSUME NEW q \in Part \ mixed', \A j \in Calls : formCalls'[j].part = q => formCalls'[j].pc \notin Replacing
      PROVE  Follows(q)'
  <2>1. CASE q = p
    <3>1. d.pc \notin Replacing
      BY <1>1, <1>2, <1>8, <2>1 DEF Replacing
    <3> QED
      BY <1>1, <1>8, <2>1, <3>1
  <2>2. CASE q # p
    <3>1. q \in Part \ mixed /\ parts'[q] = parts[q] /\ wanted'[q] = wanted[q]
      BY <1>1, <1>8, <2>2
    <3>2. \A j \in Calls : formCalls[j].part = q => formCalls[j].pc \notin Replacing
      BY <1>1, <1>2, <1>8, <2>2
    <3> QED
      BY <3>1, <3>2 DEF FormInv, Follows
  <2> QED
    BY <2>1, <2>2
<1> QED
  BY <1>5, <1>6, <1>7, <1>8 DEF FormInv

\* Tables written over tables.
LEMMA OverTable ==
    ASSUME NEW f \in Tables, NEW g \in Tables
    PROVE  /\ Over(f, g) \in Tables /\ DOMAIN Over(f, g) = DOMAIN f \cup DOMAIN g
           /\ \A i \in DOMAIN f : Over(f, g)[i] = f[i]
           /\ \A i \in DOMAIN g \ DOMAIN f : Over(f, g)[i] = g[i]
<1>1. PICK s, t : s = DOMAIN f /\ t = DOMAIN g
  OBVIOUS
<1>2. s \in SUBSET (Nat \ {0}) /\ t \in SUBSET (Nat \ {0}) /\ f \in [s -> Nat] /\ g \in [t -> Nat]
  BY <1>1 DEF Tables
<1>3. Over(f, g) \in [s \cup t -> Nat] /\ s \cup t \in SUBSET (Nat \ {0})
  BY <1>1, <1>2 DEF Over
<1> QED
  BY <1>1, <1>2, <1>3 DEF Tables, Over

LEMMA Less ==
    ASSUME NEW f \in Tables, NEW S \in SUBSET (DOMAIN f)
    PROVE  /\ Restrict(f, S) \in Tables /\ DOMAIN Restrict(f, S) = S
           /\ \A i \in S : Restrict(f, S)[i] = f[i]
<1>1. S \in SUBSET (Nat \ {0}) /\ \A i \in S : f[i] \in Nat
  BY DEF Tables
<1>2. Restrict(f, S) \in [S -> Nat]
  BY <1>1 DEF Restrict
<1> QED
  BY <1>1, <1>2 DEF Restrict, Tables

\* A list that names rows known, once each, and new ones.
Given(list, p) ==
    /\ list \in IdLists
    /\ \A i, j \in DOMAIN list : list[i] <= made[p] /\ (list[i] = list[j] => i = j \/ list[i] = 0)

LEMMA FormBeginsOK ==
    ASSUME FormInv, NEW k \in Calls, NEW p \in Part, NEW list \in IdLists,
           NEW pc \in {"user", "used", "delete", "clear", "default", "drop"}, FormBegins(k, p, pc, list),
           pc \notin {"default", "drop"} => Given(list, p),
           pc \in {"default", "drop"} => p = "images", pc = "clear" => p = "permissions",
           pc = "default" => 1 \in DOMAIN list /\ list[1] \in DOMAIN parts[p]
    PROVE  FormInv'
<1>1. PICK others : others = {j \in Calls \ {k} : formCalls[j].pc # "idle" /\ formCalls[j].part = p}
  OBVIOUS
<1>2. PICK met \in BOOLEAN : met = (others # {})
  OBVIOUS
<1>3. PICK d : d = [pc |-> pc, part |-> p, list |-> list, copy |-> parts[p], met |-> met]
  OBVIOUS
<1>4. /\ formCalls[k] = FormIdle
      /\ \A j \in Calls : formCalls'[j] = IF j = k THEN d
                                          ELSE IF j \in others THEN [formCalls[j] EXCEPT !.met = TRUE]
                                          ELSE formCalls[j]
      /\ formCalls' = [j \in Calls |-> formCalls'[j]]
      /\ mixed' = IF others = {} THEN mixed ELSE mixed \cup {p}
      /\ UNCHANGED <<parts, made, wanted>>
  BY <1>1, <1>2, <1>3, Zenon DEF FormBegins
<1>5. d \in FormRow /\ d.pc = pc /\ d.part = p /\ d.list = list /\ d.copy = parts[p] /\ d.met = met
  BY <1>3 DEF FormRow, FormPC, Given, FormInv
<1>6. FormOK(d)'
  BY <1>2, <1>4, <1>5 DEF FormOK, Given, Replacing
<1>7. ASSUME NEW j \in Calls \ {k}
      PROVE  /\ FormOK(formCalls[j])' /\ formCalls'[j].pc = formCalls[j].pc /\ formCalls'[j].part = formCalls[j].part
             /\ formCalls[j].met => formCalls'[j].met
             /\ j \in others => formCalls'[j].met
  <2>1. PICK b, c : b = formCalls[j] /\ c = formCalls'[j]
    OBVIOUS
  <2>2. b \in FormRow /\ FormOK(b)
    BY <2>1 DEF FormInv
  <2>3. CASE j \in others
    <3>1. b.part = p /\ c = [b EXCEPT !.met = TRUE] /\ p \in mixed'
      BY <1>1, <1>4, <2>1, <2>3
    <3>2. c \in FormRow /\ c.pc = b.pc /\ c.part = b.part /\ c.list = b.list /\ c.copy = b.copy /\ c.met = TRUE
      BY <2>2, <3>1 DEF FormRow
    <3>3. FormOK(c)'
      BY <1>4, <2>2, <3>1, <3>2 DEF FormOK, Listed
    <3> QED
      BY <2>1, <3>2, <3>3 DEF FormOK
  <2>4. CASE j \notin others
    <3>1. c = b
      BY <1>4, <2>1, <2>4
    <3>2. FormOK(c)'
      BY <1>4, <2>2, <3>1 DEF FormOK, Listed
    <3> QED
      BY <2>1, <2>4, <3>1, <3>2 DEF FormOK
  <2> QED
    BY <2>3, <2>4
<1>8. FormOK(formCalls[k])'
  BY <1>4, <1>6 DEF FormOK
<1>9. formCalls' \in [Calls -> FormRow]
  <2>1. \A j \in Calls : formCalls'[j] \in FormRow
    BY <1>7, <1>8 DEF FormOK
  <2> QED
    BY <1>4, <2>1
<1>10. \A j, i \in Calls : j # i /\ formCalls'[j].pc # "idle" /\ formCalls'[i].pc # "idle"
                           /\ formCalls'[j].part = formCalls'[i].part => formCalls'[i].met
  <2> SUFFICES ASSUME NEW j \in Calls, NEW i \in Calls, j # i, formCalls'[j].pc # "idle", formCalls'[i].pc # "idle",
                      formCalls'[j].part = formCalls'[i].part
               PROVE  formCalls'[i].met
    OBVIOUS
  <2>1. CASE i = k
    <3>1. j \in others
      BY <1>1, <1>4, <1>5, <1>7, <2>1
    <3> QED
      BY <1>2, <1>4, <1>5, <2>1, <3>1
  <2>2. CASE j = k
    <3>1. i \in others
      BY <1>1, <1>4, <1>5, <1>7, <2>2
    <3> QED
      BY <1>7, <2>2, <3>1
  <2>3. CASE i # k /\ j # k
    BY <1>7, <2>3 DEF FormInv
  <2> QED
    BY <2>1, <2>2, <2>3
<1>11. ASSUME NEW q \in Part \ mixed', \A j \in Calls : formCalls'[j].part = q => formCalls'[j].pc \notin Replacing
       PROVE  Follows(q)'
  <2>1. \A j \in Calls : formCalls[j].part = q => formCalls[j].pc \notin Replacing
    BY <1>4, <1>7, <1>11, FormIdleOK DEF Replacing
  <2>2. Follows(q)
    BY <1>4, <1>11, <2>1 DEF FormInv
  <2> QED
    BY <1>4, <2>2 DEF Follows
<1> QED
  BY <1>4, <1>7, <1>8, <1>9, <1>10, <1>11 DEF FormInv

LEMMA ListsAreGiven ==
    ASSUME FormInv, NEW p \in Part, NEW list \in ListsOf(p)
    PROVE  Given(list, p) /\ list \in IdLists
<1>1. PICK m \in Nat : m = made[p]
  BY DEF FormInv
<1>2. PICK n \in 0..MaxRows : list \in [1..n -> 0..m]
  BY <1>1 DEF ListsOf
<1>3. n \in Nat /\ list \in [1..n -> Nat] /\ \A i \in 1..n : list[i] <= m
  BY <1>1, <1>2
<1>4. \A i, j \in DOMAIN list : list[i] = list[j] => i = j \/ list[i] = 0
  BY DEF ListsOf
<1> QED
  BY <1>1, <1>3, <1>4 DEF Given, IdLists

LEMMA OneImage ==
    ASSUME FormInv, NEW id \in DOMAIN parts["images"]
    PROVE  <<id>> \in IdLists /\ 1 \in DOMAIN <<id>> /\ <<id>>[1] = id /\ "images" \in Part
<1>1. "images" \in Part
  BY DEF Part
<1>2. id \in Nat
  <2>1. PICK table \in Tables : table = parts["images"]
    BY <1>1 DEF FormInv
  <2> QED
    BY <2>1 DEF Tables
<1>3. <<id>> \in [1..1 -> Nat]
  BY <1>2
<1> QED
  BY <1>1, <1>3 DEF IdLists

LEMMA AllFormsBegin ==
    ASSUME FormInv, NEW k \in Calls, NEW p \in Part,
           \/ updateProfile(k, p)
           \/ p = "currencies" /\ saveCurrencies(k)
           \/ p = "countries" /\ upsertCountry(k)
           \/ p = "permissions" /\ updateManager(k)
           \/ setUserImageAsDefault(k)
           \/ deleteUserImageById(k)
    PROVE  FormInv'
<1>1. CASE updateProfile(k, p)
  BY <1>1, ListsAreGiven, FormBeginsOK DEF updateProfile
<1>2. CASE p = "currencies" /\ saveCurrencies(k)
  BY <1>2, ListsAreGiven, FormBeginsOK DEF saveCurrencies
<1>3. CASE p = "countries" /\ upsertCountry(k)
  BY <1>3, ListsAreGiven, FormBeginsOK DEF upsertCountry
<1>4. CASE p = "permissions" /\ updateManager(k)
  BY <1>4, ListsAreGiven, FormBeginsOK DEF updateManager
<1>5. CASE setUserImageAsDefault(k)
  <2>1. PICK id \in DOMAIN parts["images"] : FormBegins(k, "images", "default", <<id>>)
    BY <1>5 DEF setUserImageAsDefault
  <2> QED
    BY <2>1, OneImage, FormBeginsOK
<1>6. CASE deleteUserImageById(k)
  <2>1. PICK id \in DOMAIN parts["images"] : FormBegins(k, "images", "drop", <<id>>)
    BY <1>6 DEF deleteUserImageById
  <2> QED
    BY <2>1, OneImage, FormBeginsOK
<1> QED
  BY <1>1, <1>2, <1>3, <1>4, <1>5, <1>6

\* What is known of a call under way.
LEMMA CallFacts ==
    ASSUME FormInv, NEW k \in Calls, NEW c, c = formCalls[k], c.pc # "idle"
    PROVE  /\ c \in FormRow /\ FormOK(c) /\ c.part \in Part /\ c.copy \in Tables /\ c.list \in IdLists /\ c.met \in BOOLEAN
           /\ parts[c.part] \in Tables /\ made[c.part] \in Nat
           /\ 0 \notin DOMAIN parts[c.part] /\ 0 \notin DOMAIN c.copy
           /\ c.pc \notin Replacing /\ c.part \notin mixed => Follows(c.part)
<1>1. c \in FormRow /\ FormOK(c)
  BY DEF FormInv
<1>2. c.part \in Part /\ c.copy \in Tables /\ c.list \in IdLists /\ c.met \in BOOLEAN
  BY <1>1 DEF FormRow
<1>3. parts[c.part] \in Tables /\ made[c.part] \in Nat
  BY <1>2 DEF FormInv
<1>4. \A t \in Tables : 0 \notin DOMAIN t
  BY DEF Tables
<1>5. ASSUME c.pc \notin Replacing, c.part \notin mixed PROVE Follows(c.part)
  <2>1. ~c.met
    BY <1>1, <1>5 DEF FormOK
  <2>2. \A j \in Calls : formCalls[j].part = c.part => formCalls[j].pc \notin Replacing
    BY <1>5, <2>1 DEF FormInv, Replacing
  <2> QED
    BY <1>2, <1>5, <2>2 DEF FormInv
<1> QED
  BY <1>1, <1>2, <1>3, <1>4, <1>5

\* The call goes on or is over, and nothing is written.
LEMMA QuietForm ==
    ASSUME FormInv, NEW k \in Calls, NEW c, c = formCalls[k], c.pc \notin {"idle"} \cup Replacing, NEW d, FormOK(d)',
           formCalls' = [formCalls EXCEPT ![k] = d], d.pc = "idle" \/ (d.part = c.part /\ d.met = c.met),
           UNCHANGED <<parts, made, wanted, mixed>>
    PROVE  FormInv'
<1>1. c.part \notin mixed' => Follows(c.part)'
  BY CallFacts DEF Follows
<1>2. parts' \in [Part -> Tables] /\ made' \in [Part -> Nat] /\ wanted' \in [Part -> [ids : SUBSET Nat, main : Nat]]
  BY DEF FormInv
<1>3. made'[c.part] >= made[c.part] /\ (c.met => c.part \in mixed')
  BY CallFacts DEF FormOK
<1> QED
  BY <1>1, <1>2, <1>3, FormStep

LEMMA FormGoesTo ==
    ASSUME FormInv, NEW k \in Calls, NEW c, c = formCalls[k], c.pc # "idle", NEW pc \in FormPC, FormGoes(k, pc)
    PROVE  \E d \in FormRow : /\ formCalls' = [formCalls EXCEPT ![k] = d]
                              /\ d.pc = pc /\ d.part = c.part /\ d.list = c.list /\ d.copy = c.copy /\ d.met = c.met
<1>1. PICK d : d = [c EXCEPT !.pc = pc]
  OBVIOUS
<1>2. formCalls' = [formCalls EXCEPT ![k] = d]
  BY <1>1 DEF FormGoes
<1>3. c \in FormRow
  BY DEF FormInv
<1>4. d \in FormRow /\ d.pc = pc /\ d.part = c.part /\ d.list = c.list /\ d.copy = c.copy /\ d.met = c.met
  BY <1>1, <1>3 DEF FormRow
<1> QED
  BY <1>2, <1>4

LEMMA ChecksUsed ==
    ASSUME FormInv, NEW k \in Calls, CheckUsed(k)
    PROVE  FormInv'
<1>1. PICK c : c = formCalls[k]
  OBVIOUS
<1>2. c.pc = "used" /\ UNCHANGED <<parts, made, wanted, mixed>>
      /\ (FormGoes(k, "delete") \/ formCalls' = [formCalls EXCEPT ![k] = FormIdle])
  BY <1>1 DEF CheckUsed
<1>3. CASE FormGoes(k, "delete")
  <2>1. PICK d \in FormRow : /\ formCalls' = [formCalls EXCEPT ![k] = d] /\ d.pc = "delete"
                             /\ d.part = c.part /\ d.list = c.list /\ d.copy = c.copy /\ d.met = c.met
    BY <1>1, <1>2, <1>3, FormGoesTo DEF FormPC
  <2>2. FormOK(c)
    BY <1>1, <1>2, CallFacts
  <2>3. FormOK(d)'
    BY <1>2, <2>1, <2>2 DEF FormOK, Replacing
  <2> QED
    BY <1>1, <1>2, <2>1, <2>3, QuietForm, ZenonT(40) DEF Replacing
<1>4. CASE formCalls' = [formCalls EXCEPT ![k] = FormIdle]
  BY <1>1, <1>2, <1>4, FormIdleOK, QuietForm DEF Replacing
<1> QED
  BY <1>2, <1>3, <1>4

\* Alone, a save of the user writes the rows as they are.
LEMMA SavesUser ==
    ASSUME FormInv, NEW k \in Calls, SaveUser(k)
    PROVE  FormInv'
<1>1. PICK c : c = formCalls[k]
  OBVIOUS
<1>2. c.pc = "user" /\ UNCHANGED <<made, wanted, mixed>>
  BY <1>1 DEF SaveUser
<1>3. FormOK(c) /\ c.part \in Part /\ c.copy \in Tables /\ made[c.part] \in Nat
  BY <1>1, <1>2, CallFacts
<1>4. CASE parts' = [parts EXCEPT ![c.part] = c.copy] /\ FormGoes(k, "delete")
  <2>1. PICK d \in FormRow : /\ formCalls' = [formCalls EXCEPT ![k] = d] /\ d.pc = "delete"
                             /\ d.part = c.part /\ d.list = c.list /\ d.copy = c.copy /\ d.met = c.met
    BY <1>1, <1>2, <1>4, FormGoesTo DEF FormPC
  <2>2. parts' \in [Part -> Tables] /\ parts'[c.part] = c.copy /\ \A q \in Part \ {c.part} : parts'[q] = parts[q]
    BY <1>3, <1>4 DEF FormInv
  <2>3. FormOK(d)'
    BY <1>2, <1>3, <2>1, <2>2 DEF FormOK, Replacing
  <2>4. c.part \notin mixed' => Follows(c.part)'
    <3>1. c.part \notin mixed' => parts'[c.part] = parts[c.part]
      BY <1>2, <1>3, <2>2 DEF FormOK, Replacing
    <3> QED
      BY <1>1, <1>2, <3>1, CallFacts DEF Follows, Replacing
  <2>5. made' \in [Part -> Nat] /\ wanted' \in [Part -> [ids : SUBSET Nat, main : Nat]]
        /\ made'[c.part] >= made[c.part] /\ (c.met => c.part \in mixed')
    BY <1>2, <1>3 DEF FormInv, FormOK
  <2> QED
    BY <1>1, <1>2, <2>1, <2>2, <2>3, <2>4, <2>5, FormStep
<1>5. CASE UNCHANGED parts /\ formCalls' = [formCalls EXCEPT ![k] = FormIdle]
  BY <1>1, <1>2, <1>5, FormIdleOK, QuietForm DEF Replacing
<1> QED
  BY <1>1, <1>4, <1>5 DEF SaveUser

\* The deletions leave of the rows read those listed, or none.
LEMMA DeletesRows ==
    ASSUME FormInv, NEW k \in Calls, DeleteUnlisted(k) \/ updateManagerPermissions(k)
    PROVE  FormInv'
<1>1. PICK c : c = formCalls[k]
  OBVIOUS
<1>2. /\ c.pc \in {"delete", "clear"} /\ FormGoes(k, "save") /\ UNCHANGED <<made, wanted, mixed>>
      /\ c.pc = "delete" => parts' = [parts EXCEPT ![c.part] = Unlisted(c)]
      /\ c.pc = "clear" => parts' = [parts EXCEPT ![c.part] = <<>>]
  BY <1>1 DEF DeleteUnlisted, updateManagerPermissions
<1>3. FormOK(c) /\ c.part \in Part /\ made[c.part] \in Nat /\ parts[c.part] \in Tables
  BY <1>1, <1>2, CallFacts
<1>4. PICK table \in Tables : /\ parts' = [parts EXCEPT ![c.part] = table]
                              /\ ~c.met => DOMAIN table \subseteq Listed(c)
  <2>1. CASE c.pc = "delete"
    <3>1. PICK left \in SUBSET (DOMAIN parts[c.part]) : left = DOMAIN parts[c.part] \ (DOMAIN c.copy \ Listed(c))
      OBVIOUS
    <3>2. Unlisted(c) \in Tables /\ DOMAIN Unlisted(c) = left
      BY <1>3, <3>1, Less DEF Unlisted
    <3>3. ~c.met => parts[c.part] = c.copy
      BY <1>3, <2>1 DEF FormOK
    <3> QED
      BY <1>2, <2>1, <3>1, <3>2, <3>3
  <2>2. CASE c.pc = "clear"
    BY <1>2, <2>2, NothingYet
  <2> QED
    BY <1>2, <2>1, <2>2
<1>5. PICK d \in FormRow : /\ formCalls' = [formCalls EXCEPT ![k] = d] /\ d.pc = "save"
                           /\ d.part = c.part /\ d.list = c.list /\ d.copy = c.copy /\ d.met = c.met
  BY <1>1, <1>2, FormGoesTo DEF FormPC
<1>6. parts' \in [Part -> Tables] /\ parts'[c.part] = table /\ \A q \in Part \ {c.part} : parts'[q] = parts[q]
  BY <1>3, <1>4 DEF FormInv
<1>7. FormOK(d)'
  BY <1>2, <1>3, <1>4, <1>5, <1>6 DEF FormOK, Replacing, Listed
<1>8. made' \in [Part -> Nat] /\ wanted' \in [Part -> [ids : SUBSET Nat, main : Nat]]
      /\ made'[c.part] >= made[c.part] /\ (c.met => c.part \in mixed')
  BY <1>2, <1>3 DEF FormInv, FormOK
<1>9. c.pc # "idle" /\ d.pc \in Replacing /\ \A q \in Part \ {c.part} : q \in mixed' <=> q \in mixed
  BY <1>2, <1>5 DEF Replacing
<1>10. made'[c.part] >= made[c.part] /\ \A q \in Part \ {c.part} : made'[q] = made[q] /\ wanted'[q] = wanted[q]
  BY <1>2, <1>8
<1> QED
  BY <1>1, <1>5, <1>6, <1>7, <1>8, <1>9, <1>10, FormStep

\* The ids of a list with those of its new entries: an entry of the first place
\* is nowhere else.
LEMMA IdsAreNew ==
    ASSUME NEW c \in FormRow, Given(c.list, c.part), made[c.part] \in Nat, NEW s, s = WithIds(c)
    PROVE  /\ s \in IdLists /\ DOMAIN s = DOMAIN c.list
           /\ 0 \notin Range(s) /\ Listed(c) \ {0} \subseteq Range(s)
           /\ \A i \in DOMAIN s : 1 \in DOMAIN s /\ (s[i] = s[1] => i = 1)
<1>0. PICK list : list = c.list
  OBVIOUS
<1>1. PICK n \in Nat : list \in [1..n -> Nat] /\ list = c.list
  BY <1>0 DEF FormRow, IdLists
<1>2. PICK m \in Nat : m = made[c.part]
  OBVIOUS
<1> DEFINE New(i) == {j \in 1..i : list[j] = 0}
<1>3. \A i \in 1..n : s[i] = IF list[i] = 0 THEN m + Cardinality(New(i)) ELSE list[i]
  BY <1>1, <1>2 DEF WithIds
<1>4. s = [i \in 1..n |-> s[i]]
  BY <1>1 DEF WithIds
<1>5. ASSUME NEW i \in 1..n, list[i] = 0
      PROVE  Cardinality(New(i)) \in Nat \ {0} /\ (i = 1 => Cardinality(New(i)) = 1)
                /\ (i # 1 /\ list[1] = 0 => Cardinality(New(i)) > 1)
  <2>1. IsFiniteSet(New(i))
    <3>1. IsFiniteSet(1..i)
      BY FS_Interval
    <3> QED
      BY <3>1, FS_Subset
  <2>2. {i} \subseteq New(i) /\ (i = 1 => New(i) = {i}) /\ (list[1] = 0 => {1, i} \subseteq New(i))
    BY <1>5
  <2> HIDE DEF New
  <2>3. Cardinality({i}) = 1
    BY FS_Singleton
  <2>4. Cardinality(New(i)) \in Nat /\ 1 <= Cardinality(New(i)) /\ (i = 1 => Cardinality(New(i)) = 1)
    BY <2>1, <2>2, <2>3, FS_Subset, FS_CardinalityType
  <2>5. ASSUME i # 1, list[1] = 0 PROVE Cardinality(New(i)) > 1
    <3>1. Cardinality({1, i}) = 2
      <4>1. PICK one : one = {1}
        OBVIOUS
      <4>2. IsFiniteSet(one) /\ Cardinality(one) = 1 /\ {1, i} = one \cup {i} /\ i \notin one
        BY <2>5, <4>1, FS_Singleton
      <4>3. Cardinality(one \cup {i}) = Cardinality(one) + 1
        BY <4>2, FS_AddElement
      <4> QED
        BY <4>2, <4>3
    <3>2. Cardinality({1, i}) <= Cardinality(New(i))
      BY <2>1, <2>2, <2>5, FS_Subset
    <3> QED
      BY <2>4, <3>1, <3>2
  <2> QED
    BY <2>4, <2>5
<1> HIDE DEF New
<1>6. \A i \in 1..n : s[i] \in Nat \ {0} /\ (list[i] # 0 => s[i] = list[i]) /\ (list[i] = 0 => s[i] > m)
  <2> SUFFICES ASSUME NEW i \in 1..n
               PROVE  s[i] \in Nat \ {0} /\ (list[i] # 0 => s[i] = list[i]) /\ (list[i] = 0 => s[i] > m)
    OBVIOUS
  <2>1. CASE list[i] = 0
    <3>1. PICK new \in Nat \ {0} : new = Cardinality(New(i))
      BY <1>5, <2>1
    <3> QED
      BY <1>3, <2>1, <3>1
  <2>2. CASE list[i] # 0
    <3>1. s[i] = list[i] /\ list[i] \in Nat
      BY <1>1, <1>3, <2>2
    <3> QED
      BY <2>2, <3>1
  <2> QED
    BY <2>1, <2>2
<1>7. s \in [1..n -> Nat]
  BY <1>4, <1>6
<1>8. Listed(c) \ {0} \subseteq Range(s)
  BY <1>1, <1>6, <1>7 DEF Listed, Range
<1>9. ASSUME NEW i \in 1..n, s[i] = s[1], i # 1 PROVE FALSE
  <2>1. 1 \in 1..n /\ list[i] <= m /\ list[1] <= m /\ (list[i] = list[1] => list[i] = 0)
    BY <1>1, <1>2, <1>9 DEF Given
  <2>2. CASE list[i] = 0 /\ list[1] = 0
    <3>1. PICK new \in Nat : new = Cardinality(New(i)) /\ new > 1
      BY <1>5, <1>9, <2>2
    <3>2. s[1] = m + 1
      BY <1>3, <1>5, <2>1, <2>2
    <3>3. s[i] = m + new
      BY <1>3, <2>2, <3>1
    <3> QED
      BY <1>9, <3>1, <3>2, <3>3
  <2>3. CASE list[i] # 0 /\ list[1] # 0
    BY <1>6, <1>9, <2>1, <2>3
  <2>4. CASE list[i] = 0 /\ list[1] # 0
    BY <1>6, <1>9, <2>1, <2>4
  <2>5. CASE list[i] # 0 /\ list[1] = 0
    BY <1>6, <1>9, <2>1, <2>5
  <2> QED
    BY <2>2, <2>3, <2>4, <2>5
<1> QED
  BY <1>1, <1>6, <1>7, <1>8, <1>9 DEF IdLists, Range

\* The rows of a list: images in places of their own, that of the first entry
\* first.
LEMMA ListedRows ==
    ASSUME NEW p \in Part, NEW s \in IdLists, 0 \notin Range(s),
           \A i \in DOMAIN s : 1 \in DOMAIN s /\ (s[i] = s[1] => i = 1)
    PROVE  /\ RowsOf(p, s) \in Tables /\ DOMAIN RowsOf(p, s) = Range(s)
           /\ p = "images" =>
                /\ IsInjective(RowsOf(p, s))
                /\ s = <<>> => Range(s) = {}
                /\ s # <<>> => {id \in Range(s) : RowsOf(p, s)[id] = 0} = {s[1]}
<1>1. PICK n \in Nat : s \in [1..n -> Nat]
  BY DEF IdLists
<1> DEFINE Index(id) == CHOOSE i \in DOMAIN s : s[i] = id
<1>2. \A id \in Range(s) : Index(id) \in 1..n /\ s[Index(id)] = id /\ id \in Nat \ {0}
  BY <1>1 DEF Range
<1>3. \A id \in Range(s) : RowsOf(p, s)[id] = IF p = "images" THEN Index(id) - 1 ELSE 0
  BY DEF RowsOf, Place
<1>4. RowsOf(p, s) = [id \in Range(s) |-> RowsOf(p, s)[id]]
  BY DEF RowsOf
<1> HIDE DEF Index
<1>5. \A id \in Range(s) : RowsOf(p, s)[id] \in Nat
  BY <1>2, <1>3
<1>6. RowsOf(p, s) \in Tables
  <2>1. Range(s) \in SUBSET (Nat \ {0})
    BY <1>2
  <2>2. RowsOf(p, s) \in [Range(s) -> Nat]
    BY <1>4, <1>5
  <2> QED
    BY <2>1, <2>2 DEF Tables
<1>7. DOMAIN RowsOf(p, s) = Range(s)
  BY <1>4
<1>8. ASSUME p = "images"
      PROVE  /\ IsInjective(RowsOf(p, s))
             /\ s = <<>> => Range(s) = {}
             /\ s # <<>> => {id \in Range(s) : RowsOf(p, s)[id] = 0} = {s[1]}
  <2>1. IsInjective(RowsOf(p, s))
    <3>1. \A a, b \in Range(s) : Index(a) - 1 = Index(b) - 1 => a = b
      BY <1>2
    <3> QED
      BY <1>3, <1>7, <1>8, <3>1 DEF IsInjective
  <2>2. CASE n = 0
    <3>1. Range(s) = {} /\ s = <<>>
      BY <1>1, <2>2 DEF Range
    <3> QED
      BY <2>1, <3>1
  <2>3. CASE n # 0
    <3>1. 1 \in DOMAIN s /\ s # <<>> /\ s[1] \in Range(s)
      BY <1>1, <2>3 DEF Range
    <3>2. \A id \in Range(s) : Index(id) = 1 <=> id = s[1]
      BY <1>1, <1>2
    <3>3. \A id \in Range(s) : RowsOf(p, s)[id] = 0 <=> Index(id) = 1
      BY <1>2, <1>3, <1>8
    <3> QED
      BY <2>1, <3>1, <3>2, <3>3
  <2> QED
    BY <2>1, <2>2, <2>3
<1> QED
  BY <1>6, <1>7, <1>8

\* A part of these rows is as ordered.
AsOrdered(p, table, ids, main) ==
    /\ DOMAIN table = ids
    /\ p = "images" => /\ IsInjective(table)
                       /\ {i \in DOMAIN table : table[i] = 0} = {main} \ {0}

\* The last step of a call: what it leaves is what it was ordered to leave.
LEMMA FormEnding ==
    ASSUME FormInv, NEW k \in Calls, NEW c, c = formCalls[k], c.pc # "idle",
           NEW ids \in SUBSET Nat, NEW main \in Nat, FormEnds(k, ids, main),
           NEW table \in Tables, parts' = [parts EXCEPT ![c.part] = table],
           made' \in [Part -> Nat], made'[c.part] >= made[c.part],
           \A q \in Part \ {c.part} : made'[q] = made[q],
           ~c.met => AsOrdered(c.part, table, ids, main)
    PROVE  FormInv'
<1>1. FormOK(c) /\ c.part \in Part
  BY CallFacts
<1>2. /\ formCalls' = [formCalls EXCEPT ![k] = FormIdle]
      /\ wanted' = [wanted EXCEPT ![c.part] = [ids |-> ids, main |-> main]]
      /\ mixed' = IF c.met THEN mixed ELSE mixed \ {c.part}
  BY DEF FormEnds
<1>3. wanted' \in [Part -> [ids : SUBSET Nat, main : Nat]] /\ wanted'[c.part].ids = ids /\ wanted'[c.part].main = main
      /\ \A q \in Part \ {c.part} : wanted'[q] = wanted[q]
  BY <1>1, <1>2 DEF FormInv
<1>4. parts' \in [Part -> Tables] /\ parts'[c.part] = table /\ \A q \in Part \ {c.part} : parts'[q] = parts[q]
  BY <1>1 DEF FormInv
<1>5. c.met => c.part \in mixed'
  BY <1>1, <1>2 DEF FormOK
<1>6. ASSUME c.part \notin mixed' PROVE Follows(c.part)'
  BY <1>3, <1>4, <1>5, <1>6 DEF Follows, AsOrdered
<1>7. \A q \in Part \ {c.part} : q \in mixed' <=> q \in mixed
  BY <1>2
<1> QED
  BY <1>2, <1>3, <1>4, <1>5, <1>6, <1>7, FormIdleOK, FormStep

LEMMA SavesListed ==
    ASSUME FormInv, NEW k \in Calls, SaveListed(k)
    PROVE  FormInv'
<1>1. PICK c : c = formCalls[k]
  OBVIOUS
<1>2. PICK p : p = c.part
  OBVIOUS
<1>3. PICK s : s = WithIds(c)
  OBVIOUS
<1>4. PICK saved : saved = Saved(c, s)
  OBVIOUS
<1>5. /\ c.pc = "save"
      /\ parts' = [parts EXCEPT ![p] = Over(saved, @)]
      /\ made' = [made EXCEPT ![p] = Max({@} \cup DOMAIN saved)]
      /\ IF p = "permissions"
         THEN formCalls' = [formCalls EXCEPT ![k] = [c EXCEPT !.pc = "manager", !.list = s]]
              /\ UNCHANGED <<wanted, mixed>>
         ELSE FormEnds(k, DOMAIN saved, IF p = "images" /\ s # <<>> THEN s[1] ELSE 0)
  BY <1>1, <1>2, <1>3, <1>4 DEF SaveListed
<1>6. /\ c \in FormRow /\ FormOK(c) /\ p \in Part /\ c.list \in IdLists /\ c.met \in BOOLEAN
      /\ parts[p] \in Tables /\ made[p] \in Nat /\ 0 \notin DOMAIN parts[p]
  BY <1>1, <1>2, <1>5, CallFacts
<1>7. Given(c.list, c.part)
  BY <1>5, <1>6 DEF FormOK, Given
<1>8. /\ s \in IdLists /\ DOMAIN s = DOMAIN c.list /\ 0 \notin Range(s) /\ Listed(c) \ {0} \subseteq Range(s)
      /\ \A i \in DOMAIN s : 1 \in DOMAIN s /\ (s[i] = s[1] => i = 1)
  BY <1>2, <1>3, <1>6, <1>7, IdsAreNew
<1>9. PICK all \in Tables : /\ all = RowsOf(p, s) /\ DOMAIN all = Range(s)
                            /\ p = "images" =>
                                 /\ IsInjective(all)
                                 /\ s = <<>> => Range(s) = {}
                                 /\ s # <<>> => {id \in Range(s) : all[id] = 0} = {s[1]}
  BY <1>6, <1>8, ListedRows
<1>10. PICK kept \in SUBSET Range(s) :
         kept = {id \in Range(s) : p # "countries" \/ id \in DOMAIN parts[p] \/ id > made[p]}
  OBVIOUS
<1>11. saved = Restrict(all, kept)
  BY <1>2, <1>4, <1>9, <1>10 DEF Saved
<1>12. saved \in Tables /\ DOMAIN saved = kept /\ \A id \in kept : saved[id] = all[id]
  BY <1>9, <1>11, Less
<1>13. PICK table \in Tables : /\ table = Over(saved, parts[p]) /\ DOMAIN table = kept \cup DOMAIN parts[p]
                               /\ \A id \in kept : table[id] = all[id]
  <2>1. PICK held \in Tables : held = parts[p]
    BY <1>6
  <2>2. /\ Over(saved, held) \in Tables /\ DOMAIN Over(saved, held) = DOMAIN saved \cup DOMAIN held
        /\ \A id \in DOMAIN saved : Over(saved, held)[id] = saved[id]
    BY <1>12, OverTable
  <2>3. PICK table : table = Over(saved, held)
    OBVIOUS
  <2>4. table \in Tables /\ DOMAIN table = kept \cup DOMAIN held /\ \A id \in kept : table[id] = all[id]
    BY <1>12, <2>2, <2>3
  <2> QED
    BY <2>1, <2>3, <2>4
<1>14. parts' = [parts EXCEPT ![p] = table]
  BY <1>5, <1>13
<1>15. kept \subseteq Nat
  BY <1>12 DEF Tables
<1>16. made' \in [Part -> Nat] /\ made'[p] >= made[p] /\ \A q \in Part \ {p} : made'[q] = made[q]
  <2>1. PICK ids : ids = {made[p]} \cup kept
    OBVIOUS
  <2>2. IsFiniteSet(ids)
    <3>1. IsFiniteSet(Range(s))
      <4>1. PICK n \in Nat : s \in [1..n -> Nat]
        BY <1>8 DEF IdLists
      <4>2. Range(s) = {s[i] : i \in 1..n}
        BY <4>1 DEF Range
      <4> QED
        BY <4>2, ImageIsFinite
    <3>2. IsFiniteSet(kept) /\ ids = kept \cup {made[p]}
      BY <2>1, <3>1, FS_Subset
    <3> QED
      BY <3>2, FS_AddElement
  <2>3. ids # {} /\ ids \subseteq Nat /\ made[p] \in ids
    BY <1>6, <1>15, <2>1
  <2>4. Max(ids) \in Nat /\ made[p] <= Max(ids)
    BY <2>2, <2>3, MaxExists
  <2>5. made' = [made EXCEPT ![p] = Max(ids)]
    BY <1>5, <1>12, <2>1
  <2> QED
    BY <1>6, <2>4, <2>5 DEF FormInv
<1>17. ~c.met => DOMAIN table = kept
  <2>1. ~c.met => DOMAIN parts[p] \subseteq Range(s)
    BY <1>2, <1>5, <1>6, <1>8 DEF FormOK, Replacing
  <2> QED
    BY <1>10, <1>13, <2>1
<1>18. CASE p = "permissions"
  <2>1. PICK d : d = [c EXCEPT !.pc = "manager", !.list = s]
    OBVIOUS
  <2>2. d \in FormRow /\ d.pc = "manager" /\ d.part = p /\ d.list = s /\ d.met = c.met
    BY <1>2, <1>6, <1>8, <2>1 DEF FormRow, FormPC
  <2>3. formCalls' = [formCalls EXCEPT ![k] = d] /\ wanted' = wanted /\ mixed' = mixed
    BY <1>5, <1>18, <2>1
  <2>4. Listed(d) = Range(s)
    BY <2>2 DEF Listed
  <2>5. parts' \in [Part -> Tables] /\ parts'[p] = table /\ \A q \in Part \ {p} : parts'[q] = parts[q]
    BY <1>6, <1>14 DEF FormInv
  <2>6. (c.met => p \in mixed') /\ wanted' \in [Part -> [ids : SUBSET Nat, main : Nat]]
    BY <1>2, <1>5, <1>6, <2>3 DEF FormOK, FormInv
  <2>7. FormOK(d)'
    <3>1. ~d.met => DOMAIN parts'[p] \subseteq Listed(d)
      BY <1>17, <2>2, <2>4, <2>5
    <3>2. 0 \notin Listed(d)
      BY <1>8, <2>4
    <3> QED
      BY <1>18, <2>2, <2>6, <3>1, <3>2 DEF FormOK, Replacing, Listed
  <2>8. d.pc \in Replacing /\ c.pc # "idle"
    BY <1>5, <2>2 DEF Replacing
  <2>9. \A q \in Part \ {p} : q \in mixed' <=> q \in mixed
    BY <2>3
  <2> QED
    BY <1>1, <1>2, <1>16, <2>2, <2>3, <2>5, <2>6, <2>7, <2>8, <2>9, FormStep, ZenonT(40)
<1>19. CASE p # "permissions"
  <2>1. PICK main : main = IF p = "images" /\ s # <<>> THEN s[1] ELSE 0
    OBVIOUS
  <2>2. FormEnds(k, kept, main)
    BY <1>5, <1>12, <1>19, <2>1
  <2>3. p = "images" /\ s # <<>> => s[1] \in Range(s) /\ s[1] # 0 /\ s[1] \in Nat
    <3>1. PICK n \in Nat : s \in [1..n -> Nat]
      BY <1>8 DEF IdLists
    <3>2. s # <<>> => n # 0
      BY <3>1
    <3>3. s # <<>> => s[1] \in Range(s) /\ s[1] \in Nat
      BY <3>1, <3>2 DEF Range
    <3> QED
      BY <1>8, <3>3
  <2>4. main \in Nat
    BY <2>1, <2>3
  <2>5. ASSUME ~c.met, p = "images"
        PROVE  IsInjective(table) /\ {i \in DOMAIN table : table[i] = 0} = {main} \ {0}
    <3>1. kept = Range(s)
      BY <1>10, <2>5
    <3>2. DOMAIN table = Range(s) /\ \A id \in Range(s) : table[id] = all[id]
      BY <1>13, <1>17, <2>5, <3>1
    <3>3. IsInjective(table)
      BY <1>9, <2>5, <3>2 DEF IsInjective
    <3>4. CASE s = <<>>
      BY <1>9, <2>1, <2>5, <3>2, <3>4
    <3>5. CASE s # <<>>
      <4>1. main = s[1] /\ main # 0
        BY <2>1, <2>3, <2>5, <3>5
      <4>2. {id \in Range(s) : table[id] = 0} = {s[1]}
        BY <1>9, <2>5, <3>2, <3>5
      <4> QED
        BY <3>2, <3>3, <4>1, <4>2
    <3> QED
      BY <3>3, <3>4, <3>5
  <2> QED
    <3>1. c.pc # "idle" /\ kept \in SUBSET Nat
      BY <1>5, <1>15
    <3>2. ~c.met => AsOrdered(c.part, table, kept, main)
      BY <1>2, <1>17, <2>5 DEF AsOrdered
    <3>3. parts' = [parts EXCEPT ![c.part] = table] /\ made' \in [Part -> Nat] /\ made'[c.part] >= made[c.part]
          /\ \A q \in Part \ {c.part} : made'[q] = made[q]
      BY <1>2, <1>14, <1>16
    <3> HIDE DEF Part, Tables
    <3> QED
      BY <1>1, <2>2, <2>4, <3>1, <3>2, <3>3, FormEnding
<1> QED
  BY <1>18, <1>19

\* The manager is saved with the permissions listed.
LEMMA SavesManager ==
    ASSUME FormInv, NEW k \in Calls, SaveManager(k)
    PROVE  FormInv'
<1>1. PICK c : c = formCalls[k]
  OBVIOUS
<1>2. PICK mine : mine = RowsOf(c.part, c.list)
  OBVIOUS
<1>3. /\ c.pc = "manager" /\ FormEnds(k, Listed(c), 0) /\ UNCHANGED made
      /\ IF DOMAIN parts[c.part] \subseteq DOMAIN mine
         THEN parts' = [parts EXCEPT ![c.part] = mine]
         ELSE UNCHANGED parts
  BY <1>1, <1>2 DEF SaveManager
<1>4. FormOK(c) /\ c.part \in Part /\ c.list \in IdLists /\ parts[c.part] \in Tables /\ made[c.part] \in Nat
  BY <1>1, <1>3, CallFacts
<1>5. c.part = "permissions" /\ 0 \notin Listed(c) /\ (~c.met => DOMAIN parts[c.part] \subseteq Listed(c))
  BY <1>3, <1>4 DEF FormOK, Replacing
<1>6. Listed(c) \in SUBSET Nat /\ Listed(c) \in SUBSET (Nat \ {0})
  <2>1. PICK n \in Nat : c.list \in [1..n -> Nat]
    BY <1>4 DEF IdLists
  <2> QED
    BY <1>5, <2>1 DEF Listed, Range
<1>7. mine \in Tables /\ DOMAIN mine = Listed(c)
  <2>1. mine = [id \in Listed(c) |-> 0]
    BY <1>2, <1>5 DEF RowsOf, Place, Listed
  <2> QED
    BY <1>6, <2>1 DEF Tables
<1>8. PICK table \in Tables : /\ parts' = [parts EXCEPT ![c.part] = table]
                              /\ ~c.met => DOMAIN table = Listed(c)
  <2>1. CASE DOMAIN parts[c.part] \subseteq DOMAIN mine
    BY <1>3, <1>7, <2>1
  <2>2. CASE ~(DOMAIN parts[c.part] \subseteq DOMAIN mine)
    <3>1. c.met
      BY <1>5, <1>7, <2>2
    <3>2. parts' = [parts EXCEPT ![c.part] = parts[c.part]]
      BY <1>3, <1>4, <2>2 DEF FormInv
    <3> QED
      BY <1>4, <3>1, <3>2
  <2> QED
    BY <2>1, <2>2
<1>9. ~c.met => AsOrdered(c.part, table, Listed(c), 0)
  BY <1>5, <1>8 DEF AsOrdered
<1>10. made' \in [Part -> Nat] /\ made'[c.part] >= made[c.part] /\ \A q \in Part \ {c.part} : made'[q] = made[q]
  BY <1>3, <1>4 DEF FormInv
<1>11. c.pc # "idle" /\ 0 \in Nat
  BY <1>3
<1> QED
  BY <1>1, <1>3, <1>6, <1>8, <1>9, <1>10, <1>11, FormEnding

\* The chosen image comes first, the others after it.
LEMMA WritesDefault ==
    ASSUME FormInv, NEW k \in Calls, WriteDefault(k)
    PROVE  FormInv'
<1>1. PICK c : c = formCalls[k]
  OBVIOUS
<1>2. PICK id : id = c.list[1]
  OBVIOUS
<1>3. PICK others : others = DOMAIN c.copy \ {id}
  OBVIOUS
<1>4. PICK places : /\ places \in [others -> 1..Cardinality(others)] /\ IsInjective(places)
                    /\ parts' = [parts EXCEPT !["images"] = Over(Over([i \in {id} |-> 0], places), @)]
  BY <1>1, <1>2, <1>3 DEF WriteDefault, PlacesOfOthers
<1>5. c.pc = "default" /\ FormEnds(k, DOMAIN c.copy, id) /\ UNCHANGED made
  BY <1>1, <1>2 DEF WriteDefault
<1>6. /\ FormOK(c) /\ c.part = "images" /\ c.part \in Part /\ id \in DOMAIN c.copy
      /\ c.copy \in Tables /\ parts[c.part] \in Tables /\ made[c.part] \in Nat
      /\ ~c.met => parts[c.part] = c.copy
  BY <1>1, <1>2, <1>5, CallFacts DEF FormOK, Replacing
<1>7. DOMAIN c.copy \in SUBSET Nat /\ DOMAIN c.copy \in SUBSET (Nat \ {0}) /\ id \in Nat \ {0}
  BY <1>6 DEF Tables
<1>0. PICK first : first = [i \in {id} |-> 0]
  OBVIOUS
<1>8. first \in Tables /\ DOMAIN first = {id} /\ first[id] = 0
  <2>1. first \in [{id} -> Nat] /\ {id} \in SUBSET (Nat \ {0})
    BY <1>0, <1>7
  <2> QED
    BY <1>0, <2>1 DEF Tables
<1>9. DOMAIN places = others /\ \A i \in others : places[i] \in Nat \ {0}
  <2>1. \A i \in others : places[i] \in 1..Cardinality(others)
    BY <1>4
  <2> QED
    BY <1>4, <2>1
<1>10. places \in Tables
  <2>1. places \in [others -> Nat] /\ others \in SUBSET (Nat \ {0})
    BY <1>3, <1>4, <1>7, <1>9
  <2> QED
    BY <2>1 DEF Tables
<1>11. PICK order \in Tables : /\ order = Over(first, places) /\ DOMAIN order = DOMAIN c.copy
                               /\ order[id] = 0 /\ \A i \in others : order[i] = places[i]
  <2>1. /\ Over(first, places) \in Tables /\ DOMAIN Over(first, places) = {id} \cup others
        /\ Over(first, places)[id] = 0 /\ \A i \in others \ {id} : Over(first, places)[i] = places[i]
    BY <1>8, <1>9, <1>10, OverTable
  <2>2. {id} \cup others = DOMAIN c.copy /\ others \ {id} = others
    BY <1>3, <1>6
  <2> QED
    BY <2>1, <2>2
<1>12. PICK table \in Tables : /\ table = Over(order, parts[c.part]) /\ DOMAIN table = DOMAIN c.copy \cup DOMAIN parts[c.part]
                               /\ \A i \in DOMAIN c.copy : table[i] = order[i]
  <2>1. PICK held \in Tables : held = parts[c.part]
    BY <1>6
  <2>2. /\ Over(order, held) \in Tables /\ DOMAIN Over(order, held) = DOMAIN order \cup DOMAIN held
        /\ \A i \in DOMAIN order : Over(order, held)[i] = order[i]
    BY OverTable
  <2>3. PICK table : table = Over(order, held)
    OBVIOUS
  <2>4. table \in Tables /\ DOMAIN table = DOMAIN c.copy \cup DOMAIN held /\ \A i \in DOMAIN c.copy : table[i] = order[i]
    BY <1>11, <2>2, <2>3
  <2> QED
    BY <2>1, <2>3, <2>4
<1>13. parts' = [parts EXCEPT ![c.part] = table]
  BY <1>0, <1>4, <1>6, <1>11, <1>12
<1>14. ASSUME ~c.met PROVE AsOrdered(c.part, table, DOMAIN c.copy, id)
  <2>1. DOMAIN table = DOMAIN c.copy
    BY <1>6, <1>12, <1>14
  <2>2. \A i \in DOMAIN table : table[i] = IF i = id THEN 0 ELSE places[i]
    BY <1>3, <1>11, <1>12, <2>1
  <2>3. \A i, j \in others : places[i] = places[j] => i = j
    BY <1>4, <1>9 DEF IsInjective
  <2>4. IsInjective(table)
    BY <1>3, <1>9, <2>1, <2>2, <2>3 DEF IsInjective
  <2>5. {i \in DOMAIN table : table[i] = 0} = {id}
    BY <1>3, <1>6, <1>9, <2>1, <2>2
  <2> QED
    BY <1>7, <2>1, <2>4, <2>5 DEF AsOrdered
<1>15. made' \in [Part -> Nat] /\ made'[c.part] >= made[c.part] /\ \A q \in Part \ {c.part} : made'[q] = made[q]
  BY <1>5, <1>6 DEF FormInv
<1>16. c.pc # "idle" /\ id \in Nat
  BY <1>5, <1>7
<1> QED
  BY <1>1, <1>5, <1>7, <1>13, <1>14, <1>15, <1>16, FormEnding

\* An image deleted is no longer ordered, nor the first.
LEMMA DropsImage ==
    ASSUME FormInv, NEW k \in Calls, DropImage(k)
    PROVE  FormInv'
<1>1. PICK c : c = formCalls[k]
  OBVIOUS
<1>2. PICK gone : gone = Listed(c)
  OBVIOUS
<1>3. /\ c.pc = "drop" /\ UNCHANGED <<made, mixed>>
      /\ parts' = [parts EXCEPT !["images"] = Restrict(@, DOMAIN @ \ gone)]
      /\ formCalls' = [formCalls EXCEPT ![k] = FormIdle]
      /\ wanted' = [wanted EXCEPT !["images"] =
                      [ids |-> wanted["images"].ids \ gone,
                       main |-> IF wanted["images"].main \in gone THEN 0 ELSE wanted["images"].main]]
  BY <1>1, <1>2 DEF DropImage
<1>4. /\ FormOK(c) /\ c.part = "images" /\ c.part \in Part /\ parts[c.part] \in Tables /\ made[c.part] \in Nat
      /\ c.part \notin mixed => Follows(c.part)
  BY <1>1, <1>3, CallFacts DEF FormOK, Replacing
<1>5. PICK held \in Tables : held = parts[c.part]
  BY <1>4
<1>6. PICK left : left = Restrict(held, DOMAIN held \ gone)
  OBVIOUS
<1>7. left \in Tables /\ DOMAIN left = DOMAIN held \ gone /\ \A i \in DOMAIN held \ gone : left[i] = held[i]
  BY <1>6, Less
<1>8. parts' \in [Part -> Tables] /\ parts'[c.part] = left /\ \A q \in Part \ {c.part} : parts'[q] = parts[q]
  BY <1>3, <1>4, <1>5, <1>6, <1>7 DEF FormInv
<1>9. PICK w \in [ids : SUBSET Nat, main : Nat] : w = wanted[c.part]
  BY <1>4 DEF FormInv
<1>10. PICK v : v = [ids |-> w.ids \ gone, main |-> IF w.main \in gone THEN 0 ELSE w.main]
  OBVIOUS
<1>11. v \in [ids : SUBSET Nat, main : Nat] /\ v.ids = w.ids \ gone /\ v.main = IF w.main \in gone THEN 0 ELSE w.main
  BY <1>10
<1>12. wanted' = [wanted EXCEPT ![c.part] = v]
  BY <1>3, <1>4, <1>9, <1>10
<1>13. /\ wanted' \in [Part -> [ids : SUBSET Nat, main : Nat]] /\ wanted'[c.part] = v
       /\ \A q \in Part \ {c.part} : wanted'[q] = wanted[q]
  BY <1>4, <1>11, <1>12 DEF FormInv
<1>14. ASSUME c.part \notin mixed' PROVE Follows(c.part)'
  <2>1. /\ DOMAIN held = w.ids /\ \A i, j \in DOMAIN held : held[i] = held[j] => i = j
        /\ {i \in DOMAIN held : held[i] = 0} = {w.main} \ {0}
    BY <1>3, <1>4, <1>5, <1>9, <1>14 DEF Follows, IsInjective
  <2>2. DOMAIN left = v.ids /\ IsInjective(left)
    BY <1>7, <1>11, <2>1 DEF IsInjective
  <2>3. {i \in DOMAIN left : left[i] = 0} = {v.main} \ {0}
    BY <1>7, <1>11, <2>1
  <2> QED
    BY <1>8, <1>13, <2>2, <2>3 DEF Follows
<1>15. made' \in [Part -> Nat] /\ made'[c.part] >= made[c.part] /\ (c.met => c.part \in mixed') /\ c.pc # "idle"
  BY <1>3, <1>4 DEF FormInv, FormOK
<1> QED
  BY <1>1, <1>3, <1>8, <1>13, <1>14, <1>15, FormIdleOK, FormStep

\* A crash ends the calls, and excuses the parts it leaves half written.
LEMMA FormsCrash ==
    ASSUME FormInv, FormCrash
    PROVE  FormInv'
<1>1. /\ mixed' = mixed \cup {formCalls[k].part : k \in {j \in Calls : formCalls[j].pc \in Replacing}}
      /\ formCalls' = [k \in Calls |-> FormIdle] /\ UNCHANGED <<parts, made, wanted>>
  BY DEF FormCrash, Replacing
<1>2. parts' \in [Part -> Tables] /\ made' \in [Part -> Nat] /\ wanted' \in [Part -> [ids : SUBSET Nat, main : Nat]]
  BY <1>1 DEF FormInv
<1>3. formCalls' \in [Calls -> FormRow] /\ \A k \in Calls : formCalls'[k] = FormIdle
  BY <1>1, FormIdleOK DEF FormOK
<1>4. ASSUME NEW q \in Part \ mixed' PROVE Follows(q)'
  <2>1. \A k \in Calls : formCalls[k].part = q => formCalls[k].pc \notin Replacing
    BY <1>1, <1>4
  <2>2. Follows(q)
    BY <1>1, <1>4, <2>1 DEF FormInv
  <2> QED
    BY <1>1, <2>2 DEF Follows
<1>5. \A k \in Calls : FormOK(formCalls[k])'
  BY <1>3, FormIdleOK DEF FormOK
<1> QED
  BY <1>2, <1>3, <1>4, <1>5, FormIdleOK DEF FormInv

LEMMA NextFormInv ==
    ASSUME FormInv, [Next]_vars
    PROVE  FormInv'
<1>1. CASE UNCHANGED formVars
  BY <1>1 DEF formVars, FormInv, FormOK, Follows, Listed
<1>2. CASE \E p \in Part : FormsNext(p)
  <2>1. PICK p \in Part : FormsNext(p)
    BY <1>2
  <2>2. CASE FormCrash
    BY <2>2, FormsCrash
  <2>3. ASSUME NEW k \in Calls,
               \/ updateProfile(k, p)
               \/ p = "currencies" /\ saveCurrencies(k)
               \/ p = "countries" /\ upsertCountry(k)
               \/ p = "permissions" /\ updateManager(k)
               \/ setUserImageAsDefault(k)
               \/ deleteUserImageById(k)
        PROVE  FormInv'
    BY <2>3, AllFormsBegin
  <2>4. ASSUME NEW k \in Calls,
               \/ CheckUsed(k) \/ SaveUser(k) \/ DeleteUnlisted(k) \/ SaveListed(k)
               \/ updateManagerPermissions(k) \/ SaveManager(k) \/ WriteDefault(k) \/ DropImage(k)
        PROVE  FormInv'
    BY <2>4, ChecksUsed, SavesUser, DeletesRows, SavesListed, SavesManager, WritesDefault, DropsImage
  <2> QED
    BY <2>1, <2>2, <2>3, <2>4 DEF FormsNext
<1> QED
  BY <1>1, <1>2, FormsMove

\* A part that no call works on, and that no overlap or crash has mixed up,
\* holds the rows last ordered, the images in places of their own and the chosen
\* one alone first (updateProfile, updateManager, saveCurrencies, upsertCountry,
\* setUserImageAsDefault, deleteUserImageById).
THEOREM PartsFollow == Spec => []PartsFollowTheLastOrder
<1>1. FormInv => PartsFollowTheLastOrder
  <2> SUFFICES ASSUME FormInv, NEW p \in Part \ mixed,
                      \A k \in Calls : formCalls[k].pc = "idle" \/ formCalls[k].part # p
               PROVE  Follows(p)
    BY DEF PartsFollowTheLastOrder, Follows
  <2>1. \A k \in Calls : formCalls[k].part = p => formCalls[k].pc \notin Replacing
    BY DEF Replacing
  <2> QED
    BY <2>1 DEF FormInv
<1>2. Init => FormInv
  BY InitForms
<1>3. FormInv /\ [Next]_vars => FormInv'
  BY NextFormInv
<1> QED
  BY <1>1, <1>2, <1>3, PTL DEF Spec

----------------------------------------------------------------------------
(* Types of the terms. *)

TermBound ==
    /\ Len(terms) <= MaxTerms
    /\ \A k \in Calls : termCalls[k].id = 0 => termCalls[k].copy.line = 1
    /\ divided \subseteq 1..MaxTerms

\* The lines of rows and calls are within the bound.
LEMMA LinesAreBounded ==
    ASSUME TermsFit, TermBound
    PROVE  /\ \A i \in DOMAIN terms : terms[i].line \in 1..MaxTerms /\ i \in 1..MaxTerms
           /\ \A k \in Calls : termCalls[k].copy.line \in 1..MaxTerms /\ termCalls[k].id \in 0..MaxTerms
<1>1. /\ Len(terms) \in Nat /\ DOMAIN terms = 1..Len(terms) /\ Len(terms) <= MaxTerms /\ MaxTerms \in Nat \ {0}
      /\ \A i \in DOMAIN terms : terms[i].line \in Nat \ {0} /\ terms[i].line <= Len(terms)
  BY RowsOfTerms, TermsAssumption DEF TermsFit, TermBound
<1>2. \A i \in DOMAIN terms : terms[i].line \in 1..MaxTerms /\ i \in 1..MaxTerms
  BY <1>1
<1>3. ASSUME NEW k \in Calls PROVE termCalls[k].copy.line \in 1..MaxTerms /\ termCalls[k].id \in 0..MaxTerms
  <2>1. CASE termCalls[k].id = 0
    BY <1>1, <2>1 DEF TermBound
  <2>2. CASE termCalls[k].id # 0
    BY <1>1, <1>2, <2>2 DEF TermsFit
  <2> QED
    BY <2>1, <2>2
<1> QED
  BY <1>2, <1>3

LEMMA InitTermBound == Init => TermBound
BY TermsAssumption DEF Init, TermsInit, TermBound, TermIdle

LEMMA NextTermBound ==
    ASSUME TermsFit, TermsFit', TermBound, [Next]_vars
    PROVE  TermBound'
<1>1. Len(terms) \in Nat /\ terms \in Seq(TermRow) /\ termCalls \in [Calls -> TermStep]
      /\ MaxTerms \in Nat \ {0}
  BY RowsOfTerms, TermsAssumption DEF TermsFit
<1>2. ASSUME NEW k \in Calls, saveTerm(k) \/ getNextTermOrder(k) PROVE TermBound'
  <2>1. UNCHANGED <<terms, divided>>
    BY <1>2 DEF saveTerm, getNextTermOrder
  <2>2. \A j \in Calls \ {k} : termCalls'[j] = termCalls[j]
    BY <1>1, <1>2 DEF saveTerm, getNextTermOrder, TermGoes
  <2>3. termCalls'[k].id = termCalls[k].id /\ termCalls'[k].copy.line = termCalls[k].copy.line
    <3>1. CASE saveTerm(k)
      BY <3>1, TermMoves DEF saveTerm
    <3>2. CASE getNextTermOrder(k)
      BY <1>1, <3>2 DEF getNextTermOrder, TermStep, TermRow
    <3> QED
      BY <1>2, <3>1, <3>2
  <2> QED
    BY <2>1, <2>2, <2>3 DEF TermBound
<1>3. ASSUME NEW k \in Calls, InsertTerm(k) \/ NextVersion(k) \/ WriteTerm(k) \/ WithdrawTerm(k) PROVE TermBound'
  <2>1. UNCHANGED divided /\ \E pc \in {"idle", "next"} : TermGoes(k, pc)
    BY <1>3 DEF InsertTerm, NextVersion, WriteTerm, WithdrawTerm
  <2>2. Len(terms') <= MaxTerms
    <3>1. CASE \E row : terms' = Append(terms, row) /\ Len(terms) < MaxTerms
      <4>1. PICK row : terms' = Append(terms, row) /\ Len(terms) < MaxTerms
        BY <3>1
      <4>2. Len(terms') = Len(terms) + 1
        BY <1>1, <4>1
      <4> QED
        BY <1>1, <4>1, <4>2
    <3>2. CASE \E id, row : terms' = [terms EXCEPT ![id] = row]
      <4>1. DOMAIN terms' = DOMAIN terms
        BY <3>2
      <4>2. DOMAIN terms = 1..Len(terms) /\ DOMAIN terms' = 1..Len(terms') /\ Len(terms') \in Nat
        BY <1>1 DEF TermsFit
      <4> QED
        BY <1>1, <4>1, <4>2 DEF TermBound
    <3>3. \/ \E row : terms' = Append(terms, row) /\ Len(terms) < MaxTerms
          \/ \E id, row : terms' = [terms EXCEPT ![id] = row]
      BY <1>3 DEF InsertTerm, NextVersion, WriteTerm, WithdrawTerm
    <3> QED
      BY <3>1, <3>2, <3>3
  <2>3. PICK pc \in {"idle", "next"} : TermGoes(k, pc)
    BY <2>1
  <2>4. \A j \in Calls \ {k} : termCalls'[j] = termCalls[j]
    BY <2>3, TermMoves
  <2>5. \/ termCalls'[k] = TermIdle
        \/ termCalls'[k].id = termCalls[k].id /\ termCalls'[k].copy = termCalls[k].copy
    BY <2>3, TermMoves
  <2>6. TermIdle.copy.line = 1
    BY DEF TermIdle
  <2>7. ASSUME NEW j \in Calls, termCalls'[j].id = 0 PROVE termCalls'[j].copy.line = 1
    BY <2>4, <2>5, <2>6, <2>7 DEF TermBound
  <2> QED
    BY <2>1, <2>2, <2>7 DEF TermBound
<1>4. ASSUME NEW k \in Calls, NEW i \in 1..MaxTerms, updateTerm(k, i) PROVE TermBound'
  <2>1. i \in DOMAIN terms /\ UNCHANGED terms /\ divided' \subseteq divided \cup {terms[i].line}
    BY <1>4 DEF updateTerm
  <2>2. ASSUME NEW pc, NEW copy, termCalls' = [termCalls EXCEPT ![k] = [pc |-> pc, id |-> i, copy |-> copy]]
        PROVE  \A j \in Calls : termCalls'[j] = termCalls[j] \/ termCalls'[j].id = i
    BY <1>1, <2>2
  <2>3. \A j \in Calls : termCalls'[j] = termCalls[j] \/ termCalls'[j].id = i
    BY <1>4, <2>2 DEF updateTerm
  <2>4. terms[i].line \in 1..MaxTerms
    BY <2>1, LinesAreBounded
  <2> QED
    BY <1>1, <2>1, <2>3, <2>4 DEF TermBound
<1>5. CASE ConfigCrash
  <2>1. UNCHANGED terms /\ \A k \in Calls : termCalls'[k].copy.line = 1
    BY <1>5 DEF ConfigCrash, TermIdle
  <2>2. divided' \subseteq 1..MaxTerms
    BY <1>5, LinesAreBounded DEF ConfigCrash, TermBound
  <2> QED
    BY <2>1, <2>2 DEF TermBound
<1>6. CASE UNCHANGED termVars
  BY <1>6 DEF termVars, TermBound
<1> QED
  BY <1>2, <1>3, <1>4, <1>5, <1>6, TermsMove DEF TermsNext

LEMMA TypesOfTerms == TermsFit /\ TermBound => TermsTypeOK
<1> SUFFICES ASSUME TermsFit, TermBound PROVE TermsTypeOK
  OBVIOUS
<1>1. ASSUME NEW row \in TermRow, row.line \in 1..MaxTerms PROVE row \in Term
  BY <1>1 DEF TermRow, Term
<1>2. \A i \in DOMAIN terms : terms[i] \in Term
  BY <1>1, LinesAreBounded, RowsOfTerms
<1>3. terms \in Seq(Term)
  <2>1. DOMAIN terms = 1..Len(terms) /\ Len(terms) \in Nat /\ terms \in Seq(TermRow)
    BY RowsOfTerms DEF TermsFit
  <2> QED
    BY <1>2, <2>1
<1>4. ASSUME NEW k \in Calls PROVE termCalls[k] \in TermCall
  <2>1. termCalls[k] \in TermStep /\ termCalls[k].copy \in TermRow
    BY RowsOfTerms
  <2>2. termCalls[k].copy \in Term /\ termCalls[k].id \in 0..MaxTerms
    BY <1>1, <2>1, LinesAreBounded
  <2> QED
    BY <2>1, <2>2 DEF TermStep, TermCall
<1> QED
  BY <1>3, <1>4 DEF TermsFit, TermBound, TermsTypeOK
----------------------------------------------------------------------------
(* Types of the codes.  No number is larger than the calls that have ended: *)
(* a booking under way takes one more at the most.                          *)

CodePCs == {"largest", "format", "insert"}
Ended == called - Cardinality(At(codeCalls, CodePCs))

\* What call c has in hand when n calls have ended.
Numbered(c, n) ==
    /\ c.number <= n /\ c.code.number \in 1..(n + 1)
    /\ c.pc # "insert" => c.code.number = 1

CodeBound ==
    /\ called \in 0..MaxCalls
    /\ IsFiniteSet(At(codeCalls, CodePCs)) /\ Ended \in Nat
    /\ \A b \in codes : b.code.number \in 1..Ended
    /\ \A k \in Calls : Numbered(codeCalls[k], Ended)
    /\ refusals \subseteq [met : BOOLEAN, hidden : BOOLEAN]

LEMMA InitCodeBound == Init => CodeBound
<1> SUFFICES ASSUME Init PROVE CodeBound
  OBVIOUS
<1>1. codes = {} /\ codeCalls = [k \in Calls |-> CodeIdle] /\ refusals = {} /\ called = 0
  BY DEF Init, CodesInit
<1>2. \A k \in Calls : codeCalls[k].pc \notin CodePCs
  BY <1>1 DEF CodeIdle, CodePCs
<1>3. IsFiniteSet(At(codeCalls, CodePCs)) /\ Ended = 0
  BY <1>1, <1>2, NoneAt DEF Ended
<1>4. Numbered(CodeIdle, 0)
  BY DEF Numbered, CodeIdle
<1> QED
  BY <1>1, <1>3, <1>4, CallsAssumption DEF CodeBound

LEMMA MoreEnded ==
    ASSUME NEW c \in Nat, NEW d \in Nat, NEW n \in Nat, NEW m \in Nat, c - n \in Nat
    PROVE  /\ (d = c + 1 /\ m <= n + 1) \/ (d = c /\ m <= n) => d - m \in Nat /\ d - m >= c - n
           /\ d \in {c, c + 1} /\ m = n - 1 => d - m \in Nat /\ d - m >= c - n + 1
           /\ d >= c /\ m = n => d - m \in Nat /\ d - m >= c - n
OBVIOUS

\* A step of call k after which no fewer calls have ended.
LEMMA CodeBoundStays ==
    ASSUME CodeInv, CodeInv', CodeBound, called' \in 0..MaxCalls,
           NEW k \in Calls,
           \A j \in Calls \ {k} : /\ codeCalls'[j].pc = codeCalls[j].pc
                                  /\ codeCalls'[j].number = codeCalls[j].number
                                  /\ codeCalls'[j].code = codeCalls[j].code,
           \/ called' = called + 1
           \/ called' = called /\ (codeCalls[k].pc \in CodePCs \/ codeCalls'[k].pc \notin CodePCs),
           Numbered(codeCalls'[k], Ended),
           \A b \in codes' : \/ b \in codes
                             \/ /\ b.code.number \in 1..(Ended + 1)
                                /\ codeCalls[k].pc \in CodePCs /\ codeCalls'[k].pc \notin CodePCs,
           refusals' \subseteq [met : BOOLEAN, hidden : BOOLEAN]
    PROVE  CodeBound'
<1> DEFINE n == Cardinality(At(codeCalls, CodePCs))
           m == Cardinality(At(codeCalls', CodePCs))
<1>1. \A j \in Calls \ {k} : codeCalls'[j].pc = codeCalls[j].pc
  OBVIOUS
<1>2. /\ IsFiniteSet(At(codeCalls', CodePCs)) /\ m \in Nat /\ n \in Nat /\ m <= n + 1
      /\ codeCalls[k].pc \in CodePCs \/ codeCalls'[k].pc \notin CodePCs => m <= n
      /\ codeCalls[k].pc \in CodePCs /\ codeCalls'[k].pc \notin CodePCs => m = n - 1
  BY <1>1, AtMoves DEF CodeBound
<1>3. Ended = called - n /\ Ended' = called' - m /\ called \in Nat /\ called' \in Nat /\ Ended \in Nat
  <2>1. Ended = called - n /\ Ended' = called' - m
    BY DEF Ended
  <2>2. called \in Nat /\ called' \in Nat /\ Ended \in Nat
    BY CallsAssumption DEF CodeBound
  <2> QED
    BY <2>1, <2>2
<1> HIDE DEF n, m
<1>4. /\ Ended' \in Nat /\ Ended' >= Ended
      /\ codeCalls[k].pc \in CodePCs /\ codeCalls'[k].pc \notin CodePCs => Ended' >= Ended + 1
  <2>1. \/ called' = called + 1 /\ m <= n + 1
        \/ called' = called /\ m <= n
    BY <1>2
  <2>2. codeCalls[k].pc \in CodePCs /\ codeCalls'[k].pc \notin CodePCs
        => called' - m \in Nat /\ called' - m >= called - n + 1
    BY <1>2, <1>3, MoreEnded
  <2> QED
    BY <1>2, <1>3, <2>1, <2>2, MoreEnded
<1>5. ASSUME NEW c, c.number \in Nat, Numbered(c, Ended) PROVE Numbered(c, Ended')
  BY <1>3, <1>4, <1>5 DEF Numbered
<1>6. ASSUME NEW j \in Calls PROVE Numbered(codeCalls'[j], Ended')
  <2>1. codeCalls'[j] \in CodeRow /\ codeCalls'[j].number \in Nat
    BY DEF CodeInv, CodeRow
  <2>2. Numbered(codeCalls'[j], Ended)
    <3>1. CASE j = k
      BY <3>1
    <3>2. CASE j # k
      <4>1. /\ codeCalls'[j].pc = codeCalls[j].pc /\ codeCalls'[j].number = codeCalls[j].number
            /\ codeCalls'[j].code = codeCalls[j].code
        BY <3>2
      <4>2. Numbered(codeCalls[j], Ended)
        BY DEF CodeBound
      <4> QED
        BY <4>1, <4>2 DEF Numbered
    <3> QED
      BY <3>1, <3>2
  <2> QED
    BY <1>5, <2>1, <2>2
<1>7. ASSUME NEW b \in codes' PROVE b.code.number \in 1..Ended'
  <2>1. CASE b \in codes
    BY <1>3, <1>4, <2>1 DEF CodeBound
  <2>2. CASE b \notin codes
    BY <1>3, <1>4, <2>2
  <2> QED
    BY <2>1, <2>2
<1> QED
  BY <1>2, <1>4, <1>6, <1>7 DEF CodeBound

LEMMA NextCodeBound ==
    ASSUME CodeInv, CodeInv', CodeBound, [Next]_vars
    PROVE  CodeBound'
<1>1. /\ codeCalls \in [Calls -> CodeRow] /\ called' \in 0..MaxCalls /\ called' >= called /\ called \in Nat
      /\ Ended \in Nat
  BY CallsAreBounded DEF CodeInv, CodeBound
<1>2. Numbered(CodeIdle, Ended) /\ CodeIdle.pc \notin CodePCs /\ CodeIdle.number = 0 /\ CodeIdle.code.number = 1
  BY <1>1 DEF Numbered, CodeIdle, CodePCs
<1>3. ASSUME NEW k \in Calls, NEW c, codeCalls' = [codeCalls EXCEPT ![k] = c], UNCHANGED <<codes, refusals, called>>,
             codeCalls[k].pc \in CodePCs, Numbered(c, Ended)
      PROVE  CodeBound'
  <2>1. codeCalls'[k] = c /\ \A j \in Calls \ {k} : codeCalls'[j] = codeCalls[j]
    BY <1>1, <1>3
  <2>2. refusals' \subseteq [met : BOOLEAN, hidden : BOOLEAN]
    BY <1>3 DEF CodeBound
  <2> QED
    BY <1>1, <1>3, <2>1, <2>2, CodeBoundStays
<1>4. ASSUME NEW k \in Calls, createCodedBooking(k) PROVE CodeBound'
  <2>1. UNCHANGED <<codes, refusals>> /\ called' = called + 1 /\ codeCalls[k] = CodeIdle
    BY <1>4 DEF createCodedBooking, Counted
  <2>2. codeCalls'[k].number = 0 /\ codeCalls'[k].code.number = 1 /\ codeCalls'[k].pc # "insert"
    BY <1>4 DEF createCodedBooking, CodeIdle
  <2>3. Numbered(codeCalls'[k], Ended)
    BY <1>1, <2>2 DEF Numbered
  <2>4. ASSUME NEW j \in Calls \ {k}
        PROVE  /\ codeCalls'[j].pc = codeCalls[j].pc /\ codeCalls'[j].number = codeCalls[j].number
               /\ codeCalls'[j].code = codeCalls[j].code
    <3>1. codeCalls[j] \in CodeRow
      BY <1>1
    <3>2. codeCalls'[j] = codeCalls[j] \/ codeCalls'[j] = [codeCalls[j] EXCEPT !.met = TRUE]
      BY <1>4 DEF createCodedBooking
    <3> QED
      BY <3>1, <3>2 DEF CodeRow
  <2>5. refusals' \subseteq [met : BOOLEAN, hidden : BOOLEAN]
    BY <2>1 DEF CodeBound
  <2> QED
    BY <1>1, <2>1, <2>3, <2>4, <2>5, CodeBoundStays
<1>5. ASSUME NEW k \in Calls, ReadLargest(k) PROVE CodeBound'
  <2> DEFINE n == LargestNumber(CodesOf(month))
             c == [codeCalls[k] EXCEPT !.pc = "format", !.number = n, !.hidden = Straggles]
  <2>1. /\ codeCalls' = [codeCalls EXCEPT ![k] = c] /\ UNCHANGED <<codes, refusals, called>>
        /\ codeCalls[k].pc = "largest" /\ codeCalls[k] \in CodeRow /\ month \in Months
    BY <1>5 DEF ReadLargest, CodeInv
  <2>2. n <= Ended
    <3>1. CASE CodesOf(month) = {}
      BY <1>1, <3>1 DEF LargestNumber
    <3>2. CASE CodesOf(month) # {}
      <4>1. \E e \in CodesOf(month) : n = e.number
        BY <2>1, <3>2, LargestCode
      <4>2. \A e \in CodesOf(month) : e.number \in 1..Ended
        BY DEF CodesOf, CodeBound
      <4> HIDE DEF n
      <4> QED
        BY <1>1, <4>1, <4>2
    <3> QED
      BY <3>1, <3>2
  <2> HIDE DEF n
  <2>3. c.pc = "format" /\ c.number = n /\ c.code = codeCalls[k].code
    BY <2>1 DEF CodeRow
  <2>4. Numbered(codeCalls[k], Ended)
    BY DEF CodeBound
  <2>5. Numbered(c, Ended)
    BY <2>1, <2>2, <2>3, <2>4 DEF Numbered
  <2> HIDE DEF c
  <2> QED
    BY <1>3, <2>1, <2>5 DEF CodePCs
<1>6. ASSUME NEW k \in Calls, FormatCode(k) PROVE CodeBound'
  <2> DEFINE c == [codeCalls[k] EXCEPT !.pc = "insert", !.code = [month |-> month, number |-> codeCalls[k].number + 1]]
  <2>1. /\ codeCalls' = [codeCalls EXCEPT ![k] = c] /\ UNCHANGED <<codes, refusals, called>>
        /\ codeCalls[k].pc = "format" /\ codeCalls[k] \in CodeRow /\ codeCalls[k].number \in Nat
    BY <1>6, ZenonT(40) DEF FormatCode, CodeInv, CodeRow
  <2>2. c.pc = "insert" /\ c.number = codeCalls[k].number /\ c.code.number = codeCalls[k].number + 1
    BY <2>1 DEF CodeRow
  <2>3. Numbered(codeCalls[k], Ended)
    BY DEF CodeBound
  <2>4. Numbered(c, Ended)
    BY <1>1, <2>1, <2>2, <2>3 DEF Numbered
  <2> HIDE DEF c
  <2> QED
    BY <1>3, <2>1, <2>4 DEF CodePCs
<1>7. ASSUME NEW k \in Calls, InsertCoded(k) PROVE CodeBound'
  <2> DEFINE c == codeCalls[k].code
             row == [code |-> c, createdAt |-> month]
  <2>1. /\ codeCalls' = [codeCalls EXCEPT ![k] = CodeIdle] /\ UNCHANGED called
        /\ codeCalls[k].pc = "insert" /\ codeCalls[k] \in CodeRow
        /\ codes' \subseteq codes \cup {row}
        /\ refusals' \subseteq refusals \cup {[met |-> codeCalls[k].met, hidden |-> codeCalls[k].hidden]}
    BY <1>7 DEF InsertCoded, CodeInv
  <2>2. codeCalls'[k] = CodeIdle /\ \A j \in Calls \ {k} : codeCalls'[j] = codeCalls[j]
    BY <1>1, <2>1
  <2>3. row.code.number \in 1..(Ended + 1)
    BY DEF CodeBound, Numbered
  <2>4. [met |-> codeCalls[k].met, hidden |-> codeCalls[k].hidden] \in [met : BOOLEAN, hidden : BOOLEAN]
    BY <2>1 DEF CodeRow
  <2>5. refusals' \subseteq [met : BOOLEAN, hidden : BOOLEAN]
    BY <2>1, <2>4 DEF CodeBound
  <2> HIDE DEF row
  <2>6. \A b \in codes' : b \in codes \/ b.code.number \in 1..(Ended + 1)
    BY <2>1, <2>3
  <2>7. codeCalls[k].pc \in CodePCs
    BY <2>1 DEF CodePCs
  <2> QED
    BY <1>1, <1>2, <2>1, <2>2, <2>5, <2>6, <2>7, CodeBoundStays
<1>8. ASSUME codes' \subseteq codes, UNCHANGED refusals, IsFiniteSet(At(codeCalls', CodePCs)),
             Ended' \in Nat, Ended' >= Ended,
             \A k \in Calls : codeCalls'[k] \in {codeCalls[k], CodeIdle}
      PROVE  CodeBound'
  <2>1. ASSUME NEW k \in Calls PROVE Numbered(codeCalls'[k], Ended')
    <3>1. Numbered(codeCalls'[k], Ended) /\ codeCalls'[k].number \in Nat
      BY <1>2, <1>8 DEF CodeBound, CodeInv, CodeRow
    <3> QED
      BY <1>1, <1>8, <3>1 DEF Numbered
  <2>2. ASSUME NEW b \in codes' PROVE b.code.number \in 1..Ended'
    <3>1. b.code.number \in 1..Ended
      BY <1>8 DEF CodeBound
    <3> QED
      BY <1>1, <1>8, <3>1
  <2> QED
    BY <1>1, <1>8, <2>1, <2>2 DEF CodeBound
<1>9. CASE CodeCrash
  <2>1. UNCHANGED <<codes, refusals, called>> /\ \A k \in Calls : codeCalls'[k] = CodeIdle
    BY <1>9 DEF CodeCrash
  <2>2. IsFiniteSet(At(codeCalls', CodePCs)) /\ Cardinality(At(codeCalls', CodePCs)) = 0
    BY <1>2, <2>1, NoneAt
  <2>3. Cardinality(At(codeCalls, CodePCs)) \in Nat
    BY FS_CardinalityType DEF CodeBound
  <2>4. Ended' \in Nat /\ Ended' >= Ended
    BY <1>1, <2>1, <2>2, <2>3 DEF Ended
  <2> QED
    BY <1>8, <2>1, <2>2, <2>4
<1>10. ASSUME codes' \subseteq codes, UNCHANGED <<codeCalls, refusals>> PROVE CodeBound'
  <2>1. Ended' \in Nat /\ Ended' >= Ended /\ IsFiniteSet(At(codeCalls', CodePCs))
    <3> DEFINE n == Cardinality(At(codeCalls, CodePCs))
    <3>1. n \in Nat /\ IsFiniteSet(At(codeCalls, CodePCs))
      BY FS_CardinalityType DEF CodeBound
    <3>2. Ended = called - n /\ Ended' = called' - n /\ IsFiniteSet(At(codeCalls', CodePCs))
      BY <1>10, <3>1 DEF Ended
    <3>3. called \in Nat /\ called' \in Nat /\ called' >= called
      BY <1>1, CallsAssumption
    <3> HIDE DEF n
    <3>4. called - n \in Nat
      BY <1>1, <3>2
    <3> QED
      BY <3>1, <3>2, <3>3, <3>4, MoreEnded
  <2> QED
    BY <1>1, <1>8, <1>10, <2>1
<1>11. CASE MonthTurns \/ (\E b \in codes : EraseCoded(b)) \/ UNCHANGED codeVars
  BY <1>10, <1>11 DEF MonthTurns, EraseCoded, codeVars
<1> QED
  BY <1>4, <1>5, <1>6, <1>7, <1>9, <1>11, CodesMove DEF CodesNext

LEMMA TypesOfCodes == CodeInv /\ CodeBound => BookCodesTypeOK
<1> SUFFICES ASSUME CodeInv, CodeBound PROVE BookCodesTypeOK
  OBVIOUS
<1> DEFINE n == Cardinality(At(codeCalls, CodePCs))
<1>1. n \in Nat /\ Ended = called - n /\ Ended \in Nat /\ called \in 0..MaxCalls /\ MaxCalls \in Nat \ {0}
  BY FS_CardinalityType, CallsAssumption DEF CodeBound, Ended
<1>2. ASSUME NEW b \in codes PROVE b \in CodedBooking
  <2>1. b \in CodedRow /\ b.code \in NumberedCode /\ b.code.number \in 1..Ended
    BY DEF CodeInv, CodeBound, CodedRow
  <2>2. b.code.number \in 1..MaxCalls
    <3> HIDE DEF n
    <3> QED
      BY <1>1, <2>1
  <2>3. b.code \in Code
    BY <2>1, <2>2 DEF NumberedCode, Code
  <2> QED
    BY <2>1, <2>3 DEF CodedRow, CodedBooking
<1>3. ASSUME NEW k \in Calls PROVE codeCalls[k] \in CodeCall
  <2> DEFINE c == codeCalls[k]
  <2>1. c \in CodeRow /\ c.code \in NumberedCode /\ c.number \in Nat /\ Numbered(c, Ended)
    BY DEF CodeInv, CodeBound, CodeRow
  <2>2. c.pc = "insert" => n >= 1
    <3> SUFFICES ASSUME c.pc = "insert" PROVE n >= 1
      OBVIOUS
    <3>1. k \in At(codeCalls, CodePCs) /\ IsFiniteSet(At(codeCalls, CodePCs))
      BY DEF At, CodePCs, CodeBound
    <3>2. n # 0
      BY <3>1, FS_EmptySet
    <3> HIDE DEF n
    <3> QED
      BY <1>1, <3>2
  <2> HIDE DEF n, c
  <2>3. c.number \in 0..MaxCalls /\ c.code.number \in 1..MaxCalls
    BY <1>1, <2>1, <2>2 DEF Numbered
  <2>4. c.code \in Code
    BY <2>1, <2>3 DEF NumberedCode, Code
  <2>5. c \in CodeCall
    BY <2>1, <2>3, <2>4 DEF CodeRow, CodeCall
  <2> QED
    BY <2>5 DEF c
<1> QED
  BY <1>2, <1>3 DEF CodeInv, CodeBound, BookCodesTypeOK
----------------------------------------------------------------------------
(* Types of the settings. *)

FaqBound ==
    /\ \A i \in DOMAIN faqs : faqs[i].order <= MaxSettings
    /\ \A k \in Calls : faqCalls[k].copy.order <= MaxSettings
    /\ hurried \subseteq DOMAIN faqs

ServiceBound ==
    /\ \A i \in DOMAIN services : services[i].text \in Text /\ lastText[i] \in Text
    /\ \A k \in Calls : /\ serviceCalls[k].text \in 0..MaxCalls
                        /\ \A i \in DOMAIN serviceCalls[k].read : serviceCalls[k].read[i] \in Text
    /\ torn \subseteq DOMAIN services

LEMMA InitSettingBounds == Init => FaqBound /\ ServiceBound
<1> SUFFICES ASSUME Init PROVE FaqBound /\ ServiceBound
  OBVIOUS
<1>1. /\ services = <<>> /\ torn = {} /\ faqs = <<>> /\ hurried = {}
      /\ serviceCalls = [k \in Calls |-> ServiceIdle] /\ faqCalls = [k \in Calls |-> FaqIdle]
  BY DEF Init, SettingsInit
<1>2. DOMAIN services = {} /\ DOMAIN faqs = {} /\ ServiceIdle.text = 0 /\ DOMAIN ServiceIdle.read = {}
      /\ FaqIdle.copy.order = 0
  BY <1>1 DEF ServiceIdle, FaqIdle
<1>3. \A k \in Calls : serviceCalls[k] = ServiceIdle /\ faqCalls[k] = FaqIdle
  BY <1>1
<1> QED
  BY <1>1, <1>2, <1>3, CallsAssumption, SettingsAssumption DEF FaqBound, ServiceBound

LEMMA NextFaqBound ==
    ASSUME FaqInv, FaqInv', FaqBound, [Next]_vars
    PROVE  FaqBound'
<1>1. /\ faqs \in Seq(FaqRow) /\ Len(faqs) \in Nat /\ DOMAIN faqs = 1..Len(faqs) /\ faqCalls \in [Calls -> FaqStep]
      /\ \A i \in DOMAIN faqs : faqs[i] \in FaqRow
      /\ \A k \in Calls : faqCalls[k] \in FaqStep /\ faqCalls[k].copy \in FaqRow
      /\ MaxSettings \in Nat
  BY FaqsFit, SettingsAssumption DEF FaqInv
<1>2. FaqIdle.copy.order <= MaxSettings
  BY <1>1 DEF FaqIdle
<1>3. ASSUME NEW k \in Calls, NEW call, call \in FaqStep, FaqBegins(k, call), call.copy.order <= MaxSettings
      PROVE  FaqBound'
  <2>1. UNCHANGED <<faqs, hurried>>
    BY <1>3 DEF FaqBegins
  <2>2. ASSUME NEW j \in Calls PROVE faqCalls'[j].copy.order <= MaxSettings
    <3>1. \/ \E b : faqCalls'[j] = [call EXCEPT !.met = b]
          \/ faqCalls'[j] = [faqCalls[j] EXCEPT !.met = TRUE]
          \/ faqCalls'[j] = FaqIdle
      BY <1>3 DEF FaqBegins
    <3>2. \A b : [call EXCEPT !.met = b].copy = call.copy
      BY <1>3 DEF FaqStep
    <3>3. [faqCalls[j] EXCEPT !.met = TRUE].copy = faqCalls[j].copy
      BY <1>1 DEF FaqStep
    <3> QED
      BY <1>2, <1>3, <3>1, <3>2, <3>3 DEF FaqBound
  <2> QED
    BY <2>1, <2>2 DEF FaqBound
<1>4. ASSUME NEW k \in Calls, createFaq(k) PROVE FaqBound'
  <2>1. PICK t \in EFaqType : FaqBegins(k, [FaqIdle EXCEPT !.pc = "order", !.copy.faqType = t])
    BY <1>4 DEF createFaq
  <2> DEFINE call == [FaqIdle EXCEPT !.pc = "order", !.copy.faqType = t]
  <2>2. call.copy.order = 0
    BY DEF FaqIdle
  <2>3. call \in FaqStep
    BY DEF FaqIdle, FaqStep, FaqRow
  <2> HIDE DEF call
  <2>4. FaqBegins(k, call)
    BY <2>1 DEF call
  <2> QED
    BY <1>1, <1>3, <2>2, <2>3, <2>4
<1>5. ASSUME NEW k \in Calls, updateFaq(k) PROVE FaqBound'
  <2>1. PICK i \in DOMAIN faqs, t \in EFaqType :
          FaqBegins(k, [FaqIdle EXCEPT !.pc = IF t = faqs[i].faqType THEN "save" ELSE "order",
                                       !.id = i, !.copy = [faqs[i] EXCEPT !.faqType = t]])
    BY <1>5 DEF updateFaq
  <2> DEFINE row == [faqs[i] EXCEPT !.faqType = t]
  <2>2. row \in FaqRow /\ row.order <= MaxSettings
    BY <1>1 DEF FaqRow, FaqBound
  <2>3. PICK pc \in {"save", "order"} : pc = IF t = faqs[i].faqType THEN "save" ELSE "order"
    OBVIOUS
  <2> HIDE DEF row
  <2> DEFINE call == [FaqIdle EXCEPT !.pc = pc, !.id = i, !.copy = row]
  <2>4. i \in Nat
    BY <1>1
  <2>5. call \in FaqStep /\ call.copy = row
    BY <2>2, <2>4 DEF FaqIdle, FaqStep
  <2> HIDE DEF call
  <2>6. FaqBegins(k, call)
    BY <2>1, <2>3 DEF call, row
  <2> QED
    BY <1>3, <2>2, <2>5, <2>6
<1>6. ASSUME NEW k \in Calls, getFaqOrder(k) PROVE FaqBound'
  <2>1. UNCHANGED <<faqs, hurried>> /\ \A j \in Calls \ {k} : faqCalls'[j] = faqCalls[j]
    BY <1>1, <1>6 DEF getFaqOrder
  <2>2. faqCalls'[k].copy.order = FaqOrder(faqCalls[k].copy.faqType)
    BY <1>1, <1>6 DEF getFaqOrder, FaqStep, FaqRow
  <2>3. faqCalls'[k].copy.order <= MaxSettings
    BY <1>6, <2>2 DEF getFaqOrder
  <2> QED
    BY <2>1, <2>3 DEF FaqBound
<1>7. ASSUME NEW k \in Calls, SaveFaq(k) PROVE FaqBound'
  <2>1. PICK c, n : c = faqCalls[k] /\ n = IF c.id = 0 THEN Len(faqs) + 1 ELSE c.id
    OBVIOUS
  <2>2. /\ faqs' = IF c.id = 0 THEN Append(faqs, c.copy) ELSE [faqs EXCEPT ![n] = c.copy]
        /\ hurried' \subseteq hurried \cup {n}
        /\ faqCalls' = [faqCalls EXCEPT ![k] = FaqIdle]
        /\ c.copy \in FaqRow /\ c.copy.order <= MaxSettings /\ c.id \in {0} \cup DOMAIN faqs
    BY <1>1, <1>7, <2>1 DEF SaveFaq, FaqBound, FaqInv
  <2>3. PICK row : row = c.copy /\ row \in FaqRow /\ row.order <= MaxSettings
    BY <2>2
  <2>4. n \in DOMAIN faqs' /\ DOMAIN faqs \subseteq DOMAIN faqs' /\ (\A i \in DOMAIN faqs' : faqs'[i].order <= MaxSettings)
    <3>1. CASE c.id = 0
      <4>1. faqs' = Append(faqs, row) /\ n = Len(faqs) + 1
        BY <2>1, <2>2, <2>3, <3>1
      <4>2. DOMAIN faqs' = 1..n /\ n \in Nat /\ faqs'[n] = row
        BY <1>1, <2>3, <4>1
      <4>3. \A i \in 1..Len(faqs) : faqs'[i] = faqs[i]
        BY <1>1, <2>3, <4>1
      <4>4. \A i \in 1..n : i = n \/ i \in 1..Len(faqs)
        BY <1>1, <4>1
      <4>5. \A i \in 1..n : faqs'[i].order <= MaxSettings
        BY <1>1, <2>3, <4>2, <4>3, <4>4 DEF FaqBound
      <4>6. n \in 1..n /\ 1..Len(faqs) \subseteq 1..n
        BY <1>1, <4>1
      <4> QED
        BY <1>1, <4>2, <4>5, <4>6
    <3>2. CASE c.id # 0
      <4>1. faqs' = [faqs EXCEPT ![n] = row] /\ n \in DOMAIN faqs
        BY <2>1, <2>2, <2>3, <3>2
      <4>2. DOMAIN faqs' = DOMAIN faqs
        BY <4>1
      <4>3. \A i \in DOMAIN faqs : faqs'[i] = row \/ faqs'[i] = faqs[i]
        BY <1>1, <4>1
      <4>4. \A i \in DOMAIN faqs : faqs'[i].order <= MaxSettings
        BY <2>3, <4>3 DEF FaqBound
      <4> QED
        BY <4>1, <4>2, <4>4
    <3> QED
      BY <3>1, <3>2
  <2>5. \A j \in Calls : faqCalls'[j] = FaqIdle \/ faqCalls'[j] = faqCalls[j]
    BY <1>1, <2>2
  <2>6. hurried' \subseteq DOMAIN faqs'
    BY <2>2, <2>4 DEF FaqBound
  <2> QED
    BY <1>2, <2>4, <2>5, <2>6 DEF FaqBound
<1>8. CASE SettingsCrash
  <2>1. UNCHANGED <<faqs, hurried>> /\ \A k \in Calls : faqCalls'[k] = FaqIdle
    BY <1>8 DEF SettingsCrash
  <2> QED
    BY <1>2, <2>1 DEF FaqBound
<1>9. CASE UNCHANGED <<faqs, faqCalls, hurried>>
  BY <1>9 DEF FaqBound
<1> QED
  BY <1>4, <1>5, <1>6, <1>7, <1>8, <1>9, SettingsMove DEF FaqsNext, settingVars

LEMMA NextServiceBound ==
    ASSUME ServiceInv, ServiceInv', ServiceBound, called \in 0..MaxCalls, [Next]_vars
    PROVE  ServiceBound'
<1> DEFINE CallOK(c) == c.text \in 0..MaxCalls /\ \A i \in DOMAIN c.read : c.read[i] \in Text
<1>1. /\ services \in Seq(ServiceRow) /\ Len(services) \in Nat /\ DOMAIN services = 1..Len(services)
      /\ serviceCalls \in [Calls -> ServiceStep]
      /\ DOMAIN lastText = DOMAIN services /\ DOMAIN lastText' = DOMAIN services'
      /\ \A i \in DOMAIN services : services[i] \in ServiceRow
      /\ \A k \in Calls : serviceCalls[k] \in ServiceStep /\ CallOK(serviceCalls[k])
      /\ lastText \in Seq(Name) /\ Len(lastText) = Len(services)
  <2>1. DOMAIN lastText' = DOMAIN services'
    BY DEF ServiceInv
  <2> QED
    BY <2>1, ServicesFit DEF ServiceInv, ServiceBound
<1>2. CallOK(ServiceIdle)
  BY CallsAssumption DEF ServiceIdle
<1>3. ASSUME NEW k \in Calls, NEW c, CallOK(c), serviceCalls' = [serviceCalls EXCEPT ![k] = c],
             UNCHANGED lastText, DOMAIN services' = DOMAIN services,
             \A i \in DOMAIN services : services'[i].text = services[i].text,
             torn' \subseteq DOMAIN services
      PROVE  ServiceBound'
  <2>1. \A j \in Calls : CallOK(serviceCalls'[j])
    BY <1>1, <1>3
  <2> QED
    BY <1>3, <2>1 DEF ServiceBound
<1>4. torn \subseteq DOMAIN services
  BY DEF ServiceBound
<1>5. ASSUME NEW k \in Calls, createSpecialService(k) PROVE ServiceBound'
  <2>1. PICK lang \in ELanguage, listed \in SUBSET DOMAIN services, new \in BOOLEAN :
          /\ serviceCalls' = [serviceCalls EXCEPT ![k] =
                [ServiceIdle EXCEPT !.pc = "remove", !.lang = lang, !.listed = listed,
                                    !.details = listed, !.new = new, !.text = called + 1]]
          /\ torn' = torn \cup (listed \cap UNION {serviceCalls[j].listed : j \in Calls})
    BY <1>5 DEF createSpecialService
  <2>2. UNCHANGED <<services, lastText>> /\ called < MaxCalls
    BY <1>5 DEF createSpecialService, Counted
  <2> DEFINE c == [ServiceIdle EXCEPT !.pc = "remove", !.lang = lang, !.listed = listed,
                                      !.details = listed, !.new = new, !.text = called + 1]
  <2>3. c.text = called + 1 /\ DOMAIN c.read = {}
    BY DEF ServiceIdle
  <2>4. CallOK(c)
    <3>1. called + 1 \in 0..MaxCalls
      BY <2>2, CallsAssumption
    <3> QED
      BY <2>3, <3>1
  <2>5. torn' \subseteq DOMAIN services
    BY <1>4, <2>1
  <2> HIDE DEF c, CallOK
  <2> QED
    BY <1>3, <2>1, <2>2, <2>4, <2>5 DEF c
<1>6. ASSUME NEW k \in Calls, RemoveUnlisted(k) PROVE ServiceBound'
  <2> DEFINE c == [serviceCalls[k] EXCEPT !.pc = "details"]
  <2>1. serviceCalls' = [serviceCalls EXCEPT ![k] = c] /\ UNCHANGED <<lastText, torn>>
        /\ services' = [i \in DOMAIN services |->
              IF i \in serviceCalls[k].listed THEN services[i] ELSE [services[i] EXCEPT !.live = FALSE]]
    BY <1>6 DEF RemoveUnlisted
  <2>2. c.text = serviceCalls[k].text /\ c.read = serviceCalls[k].read
    BY <1>1 DEF ServiceStep
  <2>3. CallOK(c)
    BY <1>1, <2>2
  <2>4. DOMAIN services' = DOMAIN services /\ \A i \in DOMAIN services : services'[i].text = services[i].text
    BY <1>1, <2>1 DEF ServiceRow
  <2> HIDE DEF c, CallOK
  <2> QED
    BY <1>3, <1>4, <2>1, <2>3, <2>4
<1>7. ASSUME NEW k \in Calls, NEW i \in DOMAIN services, ReadDetail(k, i) PROVE ServiceBound'
  <2>1. UNCHANGED <<services, lastText, torn>>
    BY <1>7 DEF ReadDetail
  <2>2. \A j \in Calls \ {k} : serviceCalls'[j] = serviceCalls[j]
    BY <1>1, <1>7 DEF ReadDetail
  <2>3. /\ serviceCalls'[k].text = serviceCalls[k].text
        /\ \/ serviceCalls'[k].read = serviceCalls[k].read
           \/ serviceCalls'[k].read = [j \in DOMAIN serviceCalls[k].read \cup {i} |->
                 IF j = i THEN services[i].text ELSE serviceCalls[k].read[j]]
    BY <1>1, <1>7 DEF ReadDetail, ServiceStep
  <2>4. CallOK(serviceCalls[k]) /\ services[i].text \in Text
    BY <1>1 DEF ServiceBound
  <2>5. CallOK(serviceCalls'[k])
    BY <2>3, <2>4
  <2>6. \A j \in Calls : CallOK(serviceCalls'[j])
    BY <1>1, <2>2, <2>5
  <2> QED
    BY <2>1, <2>6 DEF ServiceBound
<1>8. ASSUME NEW k \in Calls, NEW i \in DOMAIN services, WriteDetail(k, i) PROVE ServiceBound'
  <2>1. PICK c : c = serviceCalls[k]
    OBVIOUS
  <2>2. /\ i \in DOMAIN c.read /\ c \in ServiceStep /\ CallOK(c) /\ c.lang \in ELanguage /\ UNCHANGED torn
        /\ c.read \in UNION {[D -> Name] : D \in SUBSET Nat}
    BY <1>1, <1>8, <2>1 DEF WriteDetail, ServiceStep
  <2>3. Assigned(c.read[i], c.lang, c.text) \in Text /\ [lastText[i] EXCEPT ![c.lang] = c.text] \in Text
    BY <2>2 DEF Assigned, Text, ServiceBound
  <2>4. PICK new, last : new = Assigned(c.read[i], c.lang, c.text) /\ last = [lastText[i] EXCEPT ![c.lang] = c.text]
    OBVIOUS
  <2>5. services' = [services EXCEPT ![i].text = new] /\ lastText' = [lastText EXCEPT ![i] = last]
    BY <1>8, <2>1, <2>4 DEF WriteDetail
  <2>6. /\ DOMAIN services' = DOMAIN services
        /\ \A j \in DOMAIN services : services'[j].text = IF j = i THEN new ELSE services[j].text
        /\ \A j \in DOMAIN services : lastText'[j] = IF j = i THEN last ELSE lastText[j]
    BY <1>1, <2>5 DEF ServiceRow
  <2>7. \A j \in Calls \ {k} : serviceCalls'[j] = serviceCalls[j]
    BY <1>1, <1>8 DEF WriteDetail
  <2>8. serviceCalls'[k].text = c.text /\ serviceCalls'[k].read = Restrict(c.read, DOMAIN c.read \ {i})
    BY <1>1, <1>8, <2>1 DEF WriteDetail, ServiceStep
  <2>9. CallOK(serviceCalls'[k])
    BY <2>2, <2>8 DEF Restrict
  <2>10. \A j \in Calls : CallOK(serviceCalls'[j])
    BY <1>1, <2>7, <2>9
  <2> QED
    BY <1>4, <2>2, <2>3, <2>4, <2>6, <2>10 DEF ServiceBound
<1>9. ASSUME NEW k \in Calls, CreateServices(k) PROVE ServiceBound'
  <2>1. PICK c : c = serviceCalls[k]
    OBVIOUS
  <2>2. /\ c \in ServiceStep /\ CallOK(c) /\ c.lang \in ELanguage /\ UNCHANGED torn
        /\ serviceCalls' = [serviceCalls EXCEPT ![k] = ServiceIdle]
    BY <1>1, <1>9, <2>1 DEF CreateServices, ServiceStep
  <2>3. PICK row : row = Assigned([l \in ELanguage |-> 0], c.lang, c.text)
    OBVIOUS
  <2>4. row \in Text
    BY <2>2, <2>3, CallsAssumption DEF Assigned, Text
  <2>5. CASE UNCHANGED <<services, lastText>>
    BY <1>2, <1>3, <1>4, <2>2, <2>5
  <2>6. CASE services' = Append(services, [live |-> TRUE, text |-> row]) /\ lastText' = Append(lastText, row)
    <3>1. /\ DOMAIN services' = DOMAIN services \cup {Len(services) + 1}
          /\ services'[Len(services) + 1].text = row /\ \A i \in DOMAIN services : services'[i] = services[i]
      BY <1>1, <2>6
    <3>2. lastText'[Len(services) + 1] = row /\ \A i \in DOMAIN services : lastText'[i] = lastText[i]
      BY <1>1, <2>6
    <3>3. \A j \in Calls : CallOK(serviceCalls'[j])
      BY <1>1, <1>2, <2>2
    <3> QED
      BY <1>4, <2>2, <2>4, <3>1, <3>2, <3>3 DEF ServiceBound
  <2> QED
    BY <1>9, <2>1, <2>3, <2>5, <2>6 DEF CreateServices
<1>10. CASE deleteSpecialService
  <2>1. /\ UNCHANGED <<lastText, serviceCalls, torn>>
        /\ \E i \in DOMAIN services : services' = [services EXCEPT ![i].live = FALSE]
    BY <1>10 DEF deleteSpecialService
  <2>2. DOMAIN services' = DOMAIN services /\ \A i \in DOMAIN services : services'[i].text = services[i].text
    BY <1>1, <2>1 DEF ServiceRow
  <2> QED
    BY <2>1, <2>2 DEF ServiceBound
<1>11. CASE SettingsCrash
  <2>1. UNCHANGED <<services, lastText, torn>> /\ \A k \in Calls : serviceCalls'[k] = ServiceIdle
    BY <1>11 DEF SettingsCrash
  <2>2. \A k \in Calls : CallOK(serviceCalls'[k])
    BY <1>2, <2>1
  <2> QED
    BY <2>1, <2>2 DEF ServiceBound
<1>12. CASE UNCHANGED <<services, lastText, serviceCalls, torn>>
  BY <1>12 DEF ServiceBound
<1>13. CASE ServicesNext
  BY <1>5, <1>6, <1>7, <1>8, <1>9, <1>10, <1>13 DEF ServicesNext
<1> QED
  BY <1>11, <1>12, <1>13, SettingsMove DEF settingVars

LEMMA TypesOfSettings == FaqInv /\ ServiceInv /\ FaqBound /\ ServiceBound => SettingsTypeOK
<1> SUFFICES ASSUME FaqInv, ServiceInv, FaqBound, ServiceBound PROVE SettingsTypeOK
  OBVIOUS
<1>1. ASSUME NEW row \in FaqRow, row.order <= MaxSettings PROVE row \in Faq
  <2>1. row.order \in 0..MaxSettings
    BY <1>1, SettingsAssumption DEF FaqRow
  <2> QED
    BY <2>1 DEF FaqRow, Faq
<1>2. /\ faqs \in Seq(FaqRow) /\ Len(faqs) \in Nat /\ DOMAIN faqs = 1..Len(faqs)
      /\ \A i \in DOMAIN faqs : faqs[i] \in FaqRow
      /\ \A k \in Calls : faqCalls[k].copy \in FaqRow /\ faqCalls[k].id \in {0} \cup DOMAIN faqs
  BY FaqsFit DEF FaqInv
<1>3. \A i \in DOMAIN faqs : faqs[i] \in Faq
  BY <1>1, <1>2 DEF FaqBound
<1>4. faqs \in Seq(Faq) /\ \A k \in Calls : faqCalls[k].copy \in Faq
  BY <1>1, <1>2, <1>3 DEF FaqBound
<1>5. /\ services \in Seq(ServiceRow) /\ lastText \in Seq(Name) /\ Len(services) \in Nat
      /\ DOMAIN services = 1..Len(services) /\ DOMAIN lastText = DOMAIN services
      /\ \A i \in DOMAIN services : services[i] \in ServiceRow
      /\ \A k \in Calls : serviceCalls[k].listed \subseteq DOMAIN services
  BY ServicesFit DEF ServiceInv
<1>6. \A i \in DOMAIN services : services[i] \in SpecialService /\ lastText[i] \in Text
  BY <1>5 DEF ServiceRow, SpecialService, ServiceBound
<1>7. services \in Seq(SpecialService) /\ lastText \in Seq(Text)
  BY <1>5, <1>6
<1> QED
  BY <1>2, <1>4, <1>5, <1>7 DEF FaqBound, ServiceBound, SettingsTypeOK
----------------------------------------------------------------------------
(* Types of the parts of forms. *)

\* Rows of at most m ids, in places within the bound.
TableFits(table, m) ==
    /\ DOMAIN table \subseteq 1..m
    /\ \A i \in DOMAIN table : table[i] <= MaxRows

CallFits(c) ==
    /\ TableFits(c.copy, made[c.part])
    /\ DOMAIN c.list \subseteq 1..MaxRows
    /\ c.pc = "manager" => \A i \in DOMAIN c.list : c.list[i] <= made[c.part]

PartFits(p) ==
    /\ made[p] <= MaxRows
    /\ TableFits(parts[p], made[p])
    /\ wanted[p].ids \subseteq 1..MaxRows /\ wanted[p].main <= MaxRows

FormBound ==
    /\ \A p \in Part : PartFits(p)
    /\ \A k \in Calls : CallFits(formCalls[k])
    /\ mixed \subseteq Part

LEMMA RowsAreNumbers == MaxRows \in Nat
BY RowsAssumption

LEMMA NoTableFits == ASSUME NEW m PROVE TableFits(<<>>, m)
BY NothingYet DEF TableFits

LEMMA TableStillFits ==
    ASSUME NEW table \in Tables, NEW m \in Nat, NEW n \in Nat, m <= n, TableFits(table, m)
    PROVE  TableFits(table, n)
BY DEF TableFits

LEMMA IdleFits == CallFits(FormIdle) /\ CallFits(FormIdle)'
<1>1. FormIdle.copy = <<>> /\ FormIdle.list = <<>> /\ FormIdle.pc = "idle"
  BY DEF FormIdle
<1>2. TableFits(<<>>, made[FormIdle.part]) /\ TableFits(<<>>, made'[FormIdle.part])
  BY NoTableFits
<1> QED
  BY <1>1, <1>2, NothingYet DEF CallFits

LEMMA InitFormBound == Init => FormBound
<1> SUFFICES ASSUME Init PROVE FormBound
  OBVIOUS
<1>1. /\ parts = [p \in Part |-> <<>>] /\ made = [p \in Part |-> 0] /\ mixed = {}
      /\ wanted = [p \in Part |-> [ids |-> {}, main |-> 0]] /\ formCalls = [k \in Calls |-> FormIdle]
  BY DEF Init, FormsInit
<1>2. ASSUME NEW p \in Part PROVE PartFits(p)
  <2>1. made[p] = 0 /\ parts[p] = <<>> /\ wanted[p].ids = {} /\ wanted[p].main = 0
    BY <1>1
  <2>2. TableFits(parts[p], made[p])
    BY <2>1, NoTableFits
  <2> QED
    BY <2>1, <2>2, RowsAreNumbers DEF PartFits
<1>3. \A k \in Calls : CallFits(formCalls[k])
  BY <1>1, IdleFits
<1> QED
  BY <1>1, <1>2, <1>3 DEF FormBound

\* A call's bounds outlast new ids.
LEMMA CallStillFits ==
    ASSUME NEW c \in FormRow, CallFits(c), made[c.part] \in Nat, made'[c.part] \in Nat, made[c.part] <= made'[c.part]
    PROVE  CallFits(c)'
<1>1. PICK m \in Nat, n \in Nat : m = made[c.part] /\ n = made'[c.part]
  OBVIOUS
<1>2. c.copy \in Tables /\ \A i \in DOMAIN c.list : c.list[i] \in Nat
  BY DEF FormRow, IdLists
<1>3. TableFits(c.copy, m) /\ DOMAIN c.list \subseteq 1..MaxRows /\ (c.pc = "manager" => \A i \in DOMAIN c.list : c.list[i] <= m)
  BY <1>1 DEF CallFits
<1>4. TableFits(c.copy, n)
  BY <1>1, <1>2, <1>3, TableStillFits
<1>5. c.pc = "manager" => \A i \in DOMAIN c.list : c.list[i] <= n
  BY <1>1, <1>2, <1>3
<1> QED
  BY <1>1, <1>3, <1>4, <1>5 DEF CallFits

\* A step of a call that is under way, on its part alone.
LEMMA FormBoundStep ==
    ASSUME FormInv, FormBound, FormInv', NEW k \in Calls, NEW c, c = formCalls[k], c.pc # "idle", NEW d, CallFits(d)',
           formCalls' = [formCalls EXCEPT ![k] = d],
           \A q \in Part \ {c.part} : parts'[q] = parts[q] /\ made'[q] = made[q] /\ wanted'[q] = wanted[q],
           made'[c.part] >= made[c.part], PartFits(c.part)', mixed' \subseteq Part
    PROVE  FormBound'
<1>1. PICK p \in Part : p = c.part
  BY DEF FormInv, FormRow
<1>2. \A j \in Calls : formCalls'[j] = IF j = k THEN d ELSE formCalls[j]
  BY DEF FormInv
<1>3. \A q \in Part : made[q] \in Nat /\ made'[q] \in Nat
  BY DEF FormInv
<1>4. ASSUME NEW j \in Calls PROVE CallFits(formCalls[j])'
  <2>1. CASE j = k
    BY <1>2, <2>1 DEF CallFits
  <2>2. CASE j # k
    <3>1. PICK b : b = formCalls[j]
      OBVIOUS
    <3>2. b \in FormRow /\ CallFits(b) /\ b.part \in Part /\ formCalls'[j] = b
      BY <1>2, <2>2, <3>1 DEF FormInv, FormBound, FormRow
    <3>3. made[b.part] <= made'[b.part]
      BY <1>1, <1>3, <3>2
    <3>4. CallFits(b)'
      BY <1>3, <3>2, <3>3, CallStillFits
    <3> QED
      BY <3>2, <3>4 DEF CallFits
  <2> QED
    BY <2>1, <2>2
<1>5. ASSUME NEW q \in Part PROVE PartFits(q)'
  <2>1. CASE q = p
    BY <1>1, <2>1
  <2>2. CASE q # p
    <3>1. parts'[q] = parts[q] /\ made'[q] = made[q] /\ wanted'[q] = wanted[q]
      BY <1>1, <2>2
    <3> QED
      BY <3>1 DEF PartFits, FormBound
  <2> QED
    BY <2>1, <2>2
<1> QED
  BY <1>4, <1>5 DEF FormBound

\* A call that begins.
LEMMA BeginsWithinBound ==
    ASSUME FormInv, FormBound, NEW k \in Calls, NEW p \in Part, NEW list \in IdLists, DOMAIN list \subseteq 1..MaxRows,
           NEW pc \in {"user", "used", "delete", "clear", "default", "drop"}, FormBegins(k, p, pc, list)
    PROVE  FormBound'
<1>1. PICK others : others = {j \in Calls \ {k} : formCalls[j].pc # "idle" /\ formCalls[j].part = p}
  OBVIOUS
<1>2. PICK d : d = [pc |-> pc, part |-> p, list |-> list, copy |-> parts[p], met |-> others # {}]
  OBVIOUS
<1>3. /\ \A j \in Calls : formCalls'[j] = IF j = k THEN d
                                          ELSE IF j \in others THEN [formCalls[j] EXCEPT !.met = TRUE]
                                          ELSE formCalls[j]
      /\ mixed' = IF others = {} THEN mixed ELSE mixed \cup {p}
      /\ UNCHANGED <<parts, made, wanted>>
  BY <1>1, <1>2, Zenon DEF FormBegins
<1>4. CallFits(d)'
  <2>1. d.copy = parts[p] /\ d.part = p /\ d.list = list /\ d.pc # "manager"
    BY <1>2
  <2>2. TableFits(parts[p], made[p])
    BY DEF FormBound, PartFits
  <2> QED
    BY <1>3, <2>1, <2>2 DEF CallFits
<1>5. ASSUME NEW j \in Calls PROVE CallFits(formCalls[j])'
  <2>1. CASE j = k
    BY <1>3, <1>4, <2>1 DEF CallFits
  <2>2. CASE j # k
    <3>1. PICK b, c : b = formCalls[j] /\ c = formCalls'[j]
      OBVIOUS
    <3>2. b \in FormRow /\ CallFits(b)
      BY <3>1 DEF FormInv, FormBound
    <3>3. c = b \/ c = [b EXCEPT !.met = TRUE]
      BY <1>3, <2>2, <3>1
    <3>4. c.copy = b.copy /\ c.part = b.part /\ c.list = b.list /\ c.pc = b.pc
      BY <3>2, <3>3 DEF FormRow
    <3>5. CallFits(c)'
      BY <1>3, <3>2, <3>4 DEF CallFits
    <3> QED
      BY <3>1, <3>5 DEF CallFits
  <2> QED
    BY <2>1, <2>2
<1>6. \A q \in Part : PartFits(q)'
  BY <1>3 DEF FormBound, PartFits
<1>7. mixed' \subseteq Part
  BY <1>3 DEF FormBound
<1> QED
  BY <1>5, <1>6, <1>7 DEF FormBound

LEMMA ListsAreBounded ==
    ASSUME FormInv, NEW p \in Part, NEW list \in ListsOf(p)
    PROVE  list \in IdLists /\ DOMAIN list \subseteq 1..MaxRows
<1>1. PICK m \in Nat : m = made[p]
  BY DEF FormInv
<1>2. PICK n \in 0..MaxRows : list \in [1..n -> 0..m]
  BY <1>1 DEF ListsOf
<1>3. DOMAIN list = 1..n /\ 1..n \subseteq 1..MaxRows
  BY <1>2, RowsAreNumbers
<1> QED
  BY <1>3, ListsAreGiven

LEMMA ImageIsBounded ==
    ASSUME FormInv, FormBound, NEW id \in DOMAIN parts["images"]
    PROVE  <<id>> \in IdLists /\ DOMAIN <<id>> \subseteq 1..MaxRows /\ "images" \in Part
<1>1. <<id>> \in IdLists /\ "images" \in Part
  BY OneImage
<1>2. PICK m \in Nat : m = made["images"]
  BY <1>1 DEF FormInv
<1>3. id \in 1..m /\ m <= MaxRows
  BY <1>1, <1>2 DEF FormBound, PartFits, TableFits
<1>4. 1 \in 1..MaxRows
  BY <1>2, <1>3, RowsAreNumbers
<1>5. DOMAIN <<id>> = {1}
  OBVIOUS
<1> QED
  BY <1>1, <1>4, <1>5

LEMMA AllBeginWithinBound ==
    ASSUME FormInv, FormBound, NEW k \in Calls, NEW p \in Part,
           \/ updateProfile(k, p)
           \/ p = "currencies" /\ saveCurrencies(k)
           \/ p = "countries" /\ upsertCountry(k)
           \/ p = "permissions" /\ updateManager(k)
           \/ setUserImageAsDefault(k)
           \/ deleteUserImageById(k)
    PROVE  FormBound'
<1>1. CASE updateProfile(k, p)
  BY <1>1, ListsAreBounded, BeginsWithinBound DEF updateProfile
<1>2. CASE p = "currencies" /\ saveCurrencies(k)
  BY <1>2, ListsAreBounded, BeginsWithinBound DEF saveCurrencies
<1>3. CASE p = "countries" /\ upsertCountry(k)
  BY <1>3, ListsAreBounded, BeginsWithinBound DEF upsertCountry
<1>4. CASE p = "permissions" /\ updateManager(k)
  BY <1>4, ListsAreBounded, BeginsWithinBound DEF updateManager
<1>5. CASE setUserImageAsDefault(k)
  <2>1. PICK id \in DOMAIN parts["images"] : FormBegins(k, "images", "default", <<id>>)
    BY <1>5 DEF setUserImageAsDefault
  <2> QED
    BY <2>1, ImageIsBounded, BeginsWithinBound
<1>6. CASE deleteUserImageById(k)
  <2>1. PICK id \in DOMAIN parts["images"] : FormBegins(k, "images", "drop", <<id>>)
    BY <1>6 DEF deleteUserImageById
  <2> QED
    BY <2>1, ImageIsBounded, BeginsWithinBound
<1> QED
  BY <1>1, <1>2, <1>3, <1>4, <1>5, <1>6
----------------------------------------------------------------------------
\* What the bounds give of a call under way and its part.
LEMMA CallBounds ==
    ASSUME FormInv, FormBound, NEW k \in Calls, NEW c, c = formCalls[k], c.pc # "idle"
    PROVE  /\ CallFits(c) /\ PartFits(c.part) /\ c.part \in Part /\ made[c.part] \in Nat /\ made[c.part] <= MaxRows
           /\ c \in FormRow /\ TableFits(parts[c.part], made[c.part]) /\ TableFits(c.copy, made[c.part])
           /\ parts[c.part] \in Tables /\ c.copy \in Tables /\ FormOK(c)
           /\ mixed \subseteq Part
<1>1. c \in FormRow /\ FormOK(c) /\ c.part \in Part /\ made[c.part] \in Nat /\ parts[c.part] \in Tables /\ c.copy \in Tables
  BY CallFacts
<1>2. CallFits(c) /\ PartFits(c.part) /\ mixed \subseteq Part
  BY <1>1 DEF FormBound
<1> QED
  BY <1>1, <1>2 DEF CallFits, PartFits

\* A write that gives no id, and orders nothing.
LEMMA WriteWithinBound ==
    ASSUME FormInv, FormBound, FormInv', NEW k \in Calls, NEW c, c = formCalls[k], c.pc # "idle",
           NEW d, CallFits(d)', formCalls' = [formCalls EXCEPT ![k] = d], UNCHANGED <<made, wanted, mixed>>,
           NEW table, parts' = [parts EXCEPT ![c.part] = table], TableFits(table, made[c.part])
    PROVE  FormBound'
<1>1. PartFits(c.part) /\ c.part \in Part /\ made[c.part] \in Nat /\ mixed \subseteq Part
  BY CallBounds
<1>2. parts'[c.part] = table /\ \A q \in Part \ {c.part} : parts'[q] = parts[q]
  BY <1>1 DEF FormInv
<1>3. PartFits(c.part)'
  BY <1>1, <1>2 DEF PartFits
<1>4. made'[c.part] >= made[c.part] /\ mixed' \subseteq Part
      /\ \A q \in Part \ {c.part} : parts'[q] = parts[q] /\ made'[q] = made[q] /\ wanted'[q] = wanted[q]
  BY <1>1, <1>2
<1> QED
  BY <1>3, <1>4, FormBoundStep

\* A call that goes on after it.
LEMMA GoesOnWithinBound ==
    ASSUME FormInv, FormBound, NEW k \in Calls, NEW c, c = formCalls[k], c.pc # "idle",
           NEW pc \in FormPC, pc # "manager", FormGoes(k, pc), UNCHANGED made
    PROVE  \E d : CallFits(d)' /\ formCalls' = [formCalls EXCEPT ![k] = d]
<1>1. PICK d \in FormRow : /\ formCalls' = [formCalls EXCEPT ![k] = d] /\ d.pc = pc
                           /\ d.part = c.part /\ d.list = c.list /\ d.copy = c.copy /\ d.met = c.met
  BY FormGoesTo
<1>2. CallFits(c)
  BY CallBounds
<1>3. CallFits(d)'
  BY <1>1, <1>2 DEF CallFits
<1> QED
  BY <1>1, <1>3

\* The rest of a table fits where the table did.
LEMMA LessFits ==
    ASSUME NEW table \in Tables, NEW S \in SUBSET (DOMAIN table), NEW m, TableFits(table, m)
    PROVE  TableFits(Restrict(table, S), m)
BY Less DEF TableFits

LEMMA CheckWithinBound ==
    ASSUME FormInv, FormBound, FormInv', NEW k \in Calls, CheckUsed(k)
    PROVE  FormBound'
<1>1. PICK c : c = formCalls[k]
  OBVIOUS
<1>2. c.pc = "used" /\ UNCHANGED <<parts, made, wanted, mixed>>
      /\ (FormGoes(k, "delete") \/ formCalls' = [formCalls EXCEPT ![k] = FormIdle])
  BY <1>1 DEF CheckUsed
<1>3. PICK d : CallFits(d)' /\ formCalls' = [formCalls EXCEPT ![k] = d]
  BY <1>1, <1>2, GoesOnWithinBound, IdleFits DEF FormPC
<1>4. TableFits(parts[c.part], made[c.part]) /\ c.part \in Part
  BY <1>1, <1>2, CallBounds
<1>5. parts' = [parts EXCEPT ![c.part] = parts[c.part]]
  BY <1>2, <1>4 DEF FormInv
<1> QED
  BY <1>1, <1>2, <1>3, <1>4, <1>5, WriteWithinBound

LEMMA SaveUserWithinBound ==
    ASSUME FormInv, FormBound, FormInv', NEW k \in Calls, SaveUser(k)
    PROVE  FormBound'
<1>1. PICK c : c = formCalls[k]
  OBVIOUS
<1>2. c.pc = "user" /\ UNCHANGED <<made, wanted, mixed>>
  BY <1>1 DEF SaveUser
<1>3. TableFits(parts[c.part], made[c.part]) /\ TableFits(c.copy, made[c.part]) /\ c.part \in Part
  BY <1>1, <1>2, CallBounds
<1>4. CASE parts' = [parts EXCEPT ![c.part] = c.copy] /\ FormGoes(k, "delete")
  <2>1. PICK d : CallFits(d)' /\ formCalls' = [formCalls EXCEPT ![k] = d]
    BY <1>1, <1>2, <1>4, GoesOnWithinBound DEF FormPC
  <2> QED
    BY <1>1, <1>2, <1>3, <1>4, <2>1, WriteWithinBound
<1>5. CASE UNCHANGED parts /\ formCalls' = [formCalls EXCEPT ![k] = FormIdle]
  <2>1. parts' = [parts EXCEPT ![c.part] = parts[c.part]]
    BY <1>3, <1>5 DEF FormInv
  <2> QED
    BY <1>1, <1>2, <1>3, <1>5, <2>1, IdleFits, WriteWithinBound
<1> QED
  BY <1>1, <1>4, <1>5 DEF SaveUser

LEMMA DeleteWithinBound ==
    ASSUME FormInv, FormBound, FormInv', NEW k \in Calls, DeleteUnlisted(k) \/ updateManagerPermissions(k)
    PROVE  FormBound'
<1>1. PICK c : c = formCalls[k]
  OBVIOUS
<1>2. /\ c.pc \in {"delete", "clear"} /\ FormGoes(k, "save") /\ UNCHANGED <<made, wanted, mixed>>
      /\ c.pc = "delete" => parts' = [parts EXCEPT ![c.part] = Unlisted(c)]
      /\ c.pc = "clear" => parts' = [parts EXCEPT ![c.part] = <<>>]
  BY <1>1 DEF DeleteUnlisted, updateManagerPermissions
<1>3. TableFits(parts[c.part], made[c.part]) /\ parts[c.part] \in Tables
  BY <1>1, <1>2, CallBounds
<1>4. TableFits(<<>>, made[c.part])
  BY NoTableFits
<1>5. TableFits(Unlisted(c), made[c.part])
  <2>1. PICK left \in SUBSET (DOMAIN parts[c.part]) : left = DOMAIN parts[c.part] \ (DOMAIN c.copy \ Listed(c))
    OBVIOUS
  <2>2. TableFits(Restrict(parts[c.part], left), made[c.part])
    BY <1>3, LessFits
  <2> QED
    BY <2>1, <2>2 DEF Unlisted
<1>6. PICK d : CallFits(d)' /\ formCalls' = [formCalls EXCEPT ![k] = d]
  BY <1>1, <1>2, GoesOnWithinBound DEF FormPC
<1> QED
  BY <1>1, <1>2, <1>4, <1>5, <1>6, WriteWithinBound

\* The last write of a call: what it orders is of known rows.
LEMMA EndWithinBound ==
    ASSUME FormInv, FormBound, FormInv', NEW k \in Calls, NEW c, c = formCalls[k], c.pc # "idle",
           NEW ids, NEW main \in Nat, FormEnds(k, ids, main), NEW m \in Nat, made[c.part] <= m, m <= MaxRows,
           made' = [made EXCEPT ![c.part] = m], ids \subseteq 1..m, main <= m,
           NEW table, parts' = [parts EXCEPT ![c.part] = table], TableFits(table, m)
    PROVE  FormBound'
<1>1. c.part \in Part /\ mixed \subseteq Part
  BY CallBounds
<1>2. /\ formCalls' = [formCalls EXCEPT ![k] = FormIdle]
      /\ wanted' = [wanted EXCEPT ![c.part] = [ids |-> ids, main |-> main]]
      /\ mixed' \subseteq mixed
  BY DEF FormEnds
<1>3. /\ parts'[c.part] = table /\ made'[c.part] = m /\ wanted'[c.part].ids = ids /\ wanted'[c.part].main = main
      /\ \A q \in Part \ {c.part} : parts'[q] = parts[q] /\ made'[q] = made[q] /\ wanted'[q] = wanted[q]
  BY <1>1, <1>2 DEF FormInv
<1>4. ids \subseteq 1..MaxRows /\ main <= MaxRows
  BY RowsAreNumbers
<1>5. PartFits(c.part)'
  BY <1>3, <1>4 DEF PartFits
<1>6. made'[c.part] >= made[c.part] /\ mixed' \subseteq Part
  BY <1>1, <1>2, <1>3
<1> QED
  BY <1>2, <1>3, <1>5, <1>6, IdleFits, FormBoundStep
----------------------------------------------------------------------------
\* The rows of a list are as many as its entries, in places below that.
LEMMA ListedRowsFit ==
    ASSUME NEW p \in Part, NEW s \in IdLists, 0 \notin Range(s), DOMAIN s \subseteq 1..MaxRows
    PROVE  /\ DOMAIN RowsOf(p, s) = Range(s) /\ Range(s) \subseteq Nat \ {0} /\ IsFiniteSet(Range(s))
           /\ \A id \in Range(s) : RowsOf(p, s)[id] <= MaxRows
<1>1. PICK n \in Nat : s \in [1..n -> Nat]
  BY DEF IdLists
<1>2. Range(s) = {s[i] : i \in 1..n} /\ Range(s) \subseteq Nat \ {0}
  BY <1>1 DEF Range
<1>3. IsFiniteSet(Range(s))
  BY <1>2, ImageIsFinite
<1>4. ASSUME NEW id \in Range(s) PROVE RowsOf(p, s)[id] <= MaxRows
  <2>1. PICK i : i = CHOOSE j \in DOMAIN s : s[j] = id
    OBVIOUS
  <2>2. i \in DOMAIN s
    BY <2>1 DEF Range
  <2>3. i \in 1..MaxRows
    BY <2>2
  <2>4. RowsOf(p, s)[id] = Place(p, i)
    BY <2>1 DEF RowsOf
  <2> QED
    BY <2>3, <2>4, RowsAreNumbers DEF Place
<1>5. DOMAIN RowsOf(p, s) = Range(s)
  BY DEF RowsOf
<1> QED
  BY <1>2, <1>3, <1>4, <1>5

LEMMA OverFits ==
    ASSUME NEW f \in Tables, NEW g \in Tables, NEW m, TableFits(f, m), TableFits(g, m)
    PROVE  TableFits(Over(f, g), m)
<1>1. PICK t : t = Over(f, g)
  OBVIOUS
<1>2. /\ DOMAIN t = DOMAIN f \cup DOMAIN g
      /\ \A i \in DOMAIN f : t[i] = f[i]
      /\ \A i \in DOMAIN g \ DOMAIN f : t[i] = g[i]
  BY <1>1, OverTable
<1>3. TableFits(t, m)
  BY <1>2 DEF TableFits
<1> QED
  BY <1>1, <1>3

LEMMA SaveWithinBound ==
    ASSUME FormInv, FormBound, FormInv', NEW k \in Calls, SaveListed(k)
    PROVE  FormBound'
<1>1. PICK c : c = formCalls[k]
  OBVIOUS
<1>2. PICK p : p = c.part
  OBVIOUS
<1>3. PICK s : s = WithIds(c)
  OBVIOUS
<1>4. PICK saved : saved = Saved(c, s)
  OBVIOUS
<1>5. /\ c.pc = "save" /\ Max({0} \cup Range(s)) <= MaxRows
      /\ parts' = [parts EXCEPT ![p] = Over(saved, parts[p])]
      /\ made' = [made EXCEPT ![p] = Max({made[p]} \cup DOMAIN saved)]
      /\ IF p = "permissions"
         THEN formCalls' = [formCalls EXCEPT ![k] = [c EXCEPT !.pc = "manager", !.list = s]]
              /\ UNCHANGED <<wanted, mixed>>
         ELSE FormEnds(k, DOMAIN saved, IF p = "images" /\ s # <<>> THEN s[1] ELSE 0)
  BY <1>1, <1>2, <1>3, <1>4 DEF SaveListed
<1>6. /\ c \in FormRow /\ FormOK(c) /\ p \in Part /\ parts[p] \in Tables /\ made[p] \in Nat /\ made[p] <= MaxRows
      /\ TableFits(parts[p], made[p]) /\ TableFits(c.copy, made[p]) /\ CallFits(c) /\ mixed \subseteq Part
      /\ c.copy \in Tables /\ PartFits(p)
  BY <1>1, <1>2, <1>5, CallBounds
<1>7. Given(c.list, c.part)
  BY <1>5, <1>6 DEF FormOK, Given, FormRow
<1>8. s \in IdLists /\ DOMAIN s = DOMAIN c.list /\ 0 \notin Range(s) /\ DOMAIN s \subseteq 1..MaxRows
  BY <1>2, <1>3, <1>6, <1>7, IdsAreNew DEF CallFits
<1>9. PICK all : all = RowsOf(p, s)
  OBVIOUS
<1>10. /\ DOMAIN all = Range(s) /\ Range(s) \subseteq Nat \ {0} /\ IsFiniteSet(Range(s))
       /\ \A id \in Range(s) : all[id] <= MaxRows
  BY <1>6, <1>8, <1>9, ListedRowsFit
<1>11. \A id \in Range(s) : id <= MaxRows
  <2>1. IsFiniteSet({0} \cup Range(s))
    <3>1. {0} \cup Range(s) = Range(s) \cup {0}
      OBVIOUS
    <3> QED
      BY <1>10, <3>1, FS_AddElement
  <2>2. {0} \cup Range(s) # {} /\ {0} \cup Range(s) \subseteq Nat
    BY <1>10
  <2>3. Max({0} \cup Range(s)) \in {0} \cup Range(s) /\ \A id \in {0} \cup Range(s) : id <= Max({0} \cup Range(s))
    BY <2>1, <2>2, MaxExists
  <2>4. PICK top \in Nat : top = Max({0} \cup Range(s))
    BY <2>2, <2>3
  <2>5. top <= MaxRows /\ \A id \in Range(s) : id \in Nat /\ id <= top
    BY <1>5, <1>10, <2>3, <2>4
  <2> QED
    BY <2>5, RowsAreNumbers
<1>12. PICK kept \in SUBSET Range(s) :
         kept = {id \in Range(s) : p # "countries" \/ id \in DOMAIN parts[p] \/ id > made[p]}
  OBVIOUS
<1>13. saved = [id \in kept |-> all[id]] /\ DOMAIN saved = kept /\ \A id \in kept : saved[id] = all[id]
  BY <1>2, <1>4, <1>9, <1>12 DEF Saved, Restrict
<1>14. PICK m \in Nat : /\ made' = [made EXCEPT ![p] = m] /\ made[p] <= m /\ m <= MaxRows /\ kept \subseteq 1..m
  <2>1. PICK ids : ids = {made[p]} \cup kept
    OBVIOUS
  <2>2. IsFiniteSet(ids)
    <3>1. IsFiniteSet(kept) /\ ids = kept \cup {made[p]}
      BY <1>10, <2>1, FS_Subset
    <3> QED
      BY <3>1, FS_AddElement
  <2>3. ids # {} /\ ids \subseteq Nat /\ made[p] \in ids
    BY <1>6, <1>10, <2>1
  <2>4. Max(ids) \in ids /\ \A id \in ids : id <= Max(ids)
    BY <2>2, <2>3, MaxExists
  <2>5. PICK m \in Nat : m = Max(ids)
    BY <2>3, <2>4
  <2>6. m \in Nat /\ made[p] <= m /\ \A id \in kept : id \in Nat \ {0} /\ id <= m
    BY <1>10, <2>1, <2>3, <2>4, <2>5
  <2>7. m <= MaxRows
    BY <1>6, <1>11, <2>1, <2>4, <2>5
  <2>8. made' = [made EXCEPT ![p] = m]
    BY <1>5, <1>13, <2>1, <2>5
  <2>9. kept \subseteq 1..m
    BY <2>6
  <2> QED
    BY <2>6, <2>7, <2>8, <2>9
<1>15. TableFits(saved, m) /\ saved \in Tables
  <2>1. all \in Tables
    <3>1. all = [id \in Range(s) |-> all[id]]
      BY <1>9 DEF RowsOf
    <3>2. \A id \in Range(s) : all[id] \in Nat
      <4>1. PICK n \in Nat : s \in [1..n -> Nat]
        BY <1>8 DEF IdLists
      <4>2. ASSUME NEW id \in Range(s) PROVE all[id] \in Nat
        <5>1. PICK i : i = CHOOSE j \in DOMAIN s : s[j] = id
          OBVIOUS
        <5>2. i \in 1..n
          BY <4>1, <5>1 DEF Range
        <5>3. all[id] = Place(p, i)
          BY <1>9, <5>1 DEF RowsOf
        <5> QED
          BY <5>2, <5>3 DEF Place
      <4> QED
        BY <4>2
    <3> QED
      BY <1>10, <3>1, <3>2 DEF Tables
  <2>2. kept \in SUBSET (Nat \ {0}) /\ \A id \in kept : all[id] \in Nat
    BY <1>10, <2>1 DEF Tables
  <2>3. saved \in [kept -> Nat]
    BY <1>13, <2>2
  <2>4. saved \in Tables
    BY <2>2, <2>3 DEF Tables
  <2>5. TableFits(saved, m)
    BY <1>10, <1>13, <1>14 DEF TableFits
  <2> QED
    BY <2>4, <2>5
<1>16. PICK table : table = Over(saved, parts[p])
  OBVIOUS
<1>17. TableFits(table, m) /\ parts' = [parts EXCEPT ![p] = table]
  <2>1. TableFits(parts[p], m)
    BY <1>6, <1>14, TableStillFits
  <2> QED
    BY <1>5, <1>6, <1>15, <1>16, <2>1, OverFits
<1>18. CASE p = "permissions"
  <2>1. PICK d : d = [c EXCEPT !.pc = "manager", !.list = s]
    OBVIOUS
  <2>2. d.pc = "manager" /\ d.part = p /\ d.list = s /\ d.copy = c.copy
    BY <1>2, <1>6, <2>1 DEF FormRow
  <2>3. /\ formCalls' = [formCalls EXCEPT ![k] = d] /\ wanted' = wanted /\ mixed' = mixed
    BY <1>5, <1>18, <2>1
  <2>4. made'[p] = m /\ parts'[p] = table /\ \A q \in Part \ {p} : parts'[q] = parts[q] /\ made'[q] = made[q]
    BY <1>6, <1>14, <1>17 DEF FormInv
  <2>5. \A i \in DOMAIN s : s[i] <= m
    <3>1. kept = Range(s)
      BY <1>12, <1>18
    <3> QED
      BY <1>14, <3>1 DEF Range
  <2>6. TableFits(c.copy, m)
    BY <1>6, <1>14, TableStillFits
  <2>7. CallFits(d)'
    BY <1>8, <2>2, <2>4, <2>5, <2>6 DEF CallFits
  <2>8. PartFits(p)'
    BY <1>6, <1>14, <1>17, <2>3, <2>4 DEF PartFits
  <2>9. made'[p] >= made[p] /\ mixed' \subseteq Part /\ c.pc # "idle"
        /\ \A q \in Part \ {p} : parts'[q] = parts[q] /\ made'[q] = made[q] /\ wanted'[q] = wanted[q]
    BY <1>5, <1>6, <1>14, <2>3, <2>4
  <2> QED
    BY <1>1, <1>2, <2>3, <2>7, <2>8, <2>9, FormBoundStep
<1>19. CASE p # "permissions"
  <2>1. PICK main : main = IF p = "images" /\ s # <<>> THEN s[1] ELSE 0
    OBVIOUS
  <2>2. FormEnds(k, kept, main) /\ c.pc # "idle"
    BY <1>5, <1>13, <1>19, <2>1
  <2>3. main \in Nat /\ main <= m
    <3>1. CASE p = "images" /\ s # <<>>
      <4>1. PICK n \in Nat : s \in [1..n -> Nat]
        BY <1>8 DEF IdLists
      <4>2. n # 0
        BY <3>1, <4>1
      <4>3. s[1] \in Range(s)
        BY <4>1, <4>2 DEF Range
      <4>4. s[1] \in kept
        BY <1>12, <3>1, <4>3
      <4>5. PICK id \in 1..m : id = s[1]
        BY <1>14, <4>4
      <4>6. main = id
        BY <2>1, <3>1, <4>5
      <4> QED
        BY <4>6
    <3>2. CASE ~(p = "images" /\ s # <<>>)
      BY <2>1, <3>2
    <3> QED
      BY <3>1, <3>2
  <2> QED
    BY <1>1, <1>2, <1>14, <1>17, <2>2, <2>3, EndWithinBound
<1> QED
  BY <1>18, <1>19
----------------------------------------------------------------------------
LEMMA ManagerWithinBound ==
    ASSUME FormInv, FormBound, FormInv', NEW k \in Calls, SaveManager(k)
    PROVE  FormBound'
<1>1. PICK c : c = formCalls[k]
  OBVIOUS
<1>2. PICK mine : mine = RowsOf(c.part, c.list)
  OBVIOUS
<1>3. /\ c.pc = "manager" /\ FormEnds(k, Listed(c), 0) /\ UNCHANGED made
      /\ IF DOMAIN parts[c.part] \subseteq DOMAIN mine
         THEN parts' = [parts EXCEPT ![c.part] = mine]
         ELSE UNCHANGED parts
  BY <1>1, <1>2 DEF SaveManager
<1>4. /\ c.part \in Part /\ TableFits(parts[c.part], made[c.part]) /\ CallFits(c) /\ FormOK(c) /\ c \in FormRow
      /\ made[c.part] \in Nat /\ made[c.part] <= MaxRows
  BY <1>1, <1>3, CallBounds
<1>5. PICK m \in Nat : m = made[c.part]
  BY <1>4
<1>6. c.list \in IdLists /\ 0 \notin Listed(c) /\ c.part # "images"
  BY <1>3, <1>4 DEF FormOK, FormRow
<1>7. Listed(c) \subseteq 1..m
  <2>1. PICK n \in Nat : c.list \in [1..n -> Nat]
    BY <1>6 DEF IdLists
  <2>2. \A i \in 1..n : c.list[i] \in Nat \ {0} /\ c.list[i] <= m
    BY <1>3, <1>4, <1>5, <1>6, <2>1 DEF CallFits, Listed, Range
  <2>3. \A id \in Listed(c) : \E i \in 1..n : id = c.list[i]
    BY <2>1 DEF Listed, Range
  <2>4. \A id \in Listed(c) : id \in 1..m
    BY <2>2, <2>3
  <2> QED
    BY <2>4
<1>8. TableFits(mine, m)
  <2>1. mine = [id \in Listed(c) |-> 0]
    BY <1>2, <1>6 DEF RowsOf, Place, Listed
  <2> QED
    BY <1>7, <2>1, RowsAreNumbers DEF TableFits
<1>9. PICK table : parts' = [parts EXCEPT ![c.part] = table] /\ TableFits(table, m)
  <2>1. CASE UNCHANGED parts
    <3>1. parts' = [parts EXCEPT ![c.part] = parts[c.part]]
      BY <1>4, <2>1 DEF FormInv
    <3> QED
      BY <1>4, <1>5, <3>1
  <2> QED
    BY <1>3, <1>8, <2>1
<1>10. made' = [made EXCEPT ![c.part] = m]
  BY <1>3, <1>4, <1>5 DEF FormInv
<1>11. c.pc # "idle" /\ 0 \in Nat /\ 0 <= m /\ made[c.part] <= m /\ m <= MaxRows
  BY <1>3, <1>4, <1>5
<1> QED
  BY <1>1, <1>3, <1>7, <1>9, <1>10, <1>11, EndWithinBound

LEMMA DefaultWithinBound ==
    ASSUME FormInv, FormBound, FormInv', NEW k \in Calls, WriteDefault(k)
    PROVE  FormBound'
<1>1. PICK c : c = formCalls[k]
  OBVIOUS
<1>2. PICK id : id = c.list[1]
  OBVIOUS
<1>3. PICK others : others = DOMAIN c.copy \ {id}
  OBVIOUS
<1>4. PICK places : /\ places \in [others -> 1..Cardinality(others)]
                    /\ parts' = [parts EXCEPT !["images"] = Over(Over([i \in {id} |-> 0], places), @)]
  BY <1>1, <1>2, <1>3 DEF WriteDefault, PlacesOfOthers
<1>5. c.pc = "default" /\ FormEnds(k, DOMAIN c.copy, id) /\ UNCHANGED made
  BY <1>1, <1>2 DEF WriteDefault
<1>6. /\ FormOK(c) /\ c.part \in Part /\ c.copy \in Tables /\ parts[c.part] \in Tables
      /\ TableFits(c.copy, made[c.part]) /\ TableFits(parts[c.part], made[c.part])
      /\ made[c.part] \in Nat /\ made[c.part] <= MaxRows
  BY <1>1, <1>5, CallBounds
<1>7. c.part = "images" /\ id \in DOMAIN c.copy
  BY <1>2, <1>5, <1>6 DEF FormOK
<1>8. PICK m \in Nat : m = made[c.part]
  BY <1>6
<1>9. DOMAIN c.copy \subseteq 1..m /\ id \in 1..m
  BY <1>6, <1>7, <1>8 DEF TableFits
<1>10. Cardinality(others) \in Nat /\ Cardinality(others) <= MaxRows
  <2>1. IsFiniteSet(1..m) /\ Cardinality(1..m) = m
    BY FS_Interval
  <2>2. others \subseteq 1..m
    BY <1>3, <1>9
  <2>3. IsFiniteSet(others) /\ Cardinality(others) <= Cardinality(1..m)
    BY <2>1, <2>2, FS_Subset
  <2>4. Cardinality(others) \in Nat
    BY <2>3, FS_CardinalityType
  <2>5. PICK size \in Nat : size = Cardinality(others)
    BY <2>4
  <2> QED
    BY <1>6, <1>8, <2>1, <2>3, <2>5, RowsAreNumbers
<1>11. PICK size \in Nat : size = Cardinality(others) /\ size <= MaxRows
  BY <1>10
<1>12. places \in Tables /\ TableFits(places, m)
  <2>1. places \in [others -> 1..size]
    BY <1>4, <1>11
  <2>2. DOMAIN places = others /\ \A i \in others : places[i] \in Nat /\ places[i] <= MaxRows
    BY <1>11, <2>1, RowsAreNumbers
  <2>3. others \in SUBSET (Nat \ {0}) /\ others \subseteq 1..m
    BY <1>3, <1>9
  <2>4. places \in [others -> Nat]
    BY <2>1, <2>2
  <2>5. places \in Tables
    BY <2>3, <2>4 DEF Tables
  <2> QED
    BY <2>2, <2>3, <2>5 DEF TableFits
<1>13. PICK first : first = [i \in {id} |-> 0]
  OBVIOUS
<1>14. first \in Tables /\ TableFits(first, m)
  <2>1. first \in [{id} -> Nat] /\ {id} \in SUBSET (Nat \ {0})
    BY <1>9, <1>13
  <2>2. DOMAIN first = {id} /\ first[id] = 0
    BY <1>13
  <2>3. first \in Tables
    BY <2>1 DEF Tables
  <2> QED
    BY <1>9, <2>2, <2>3, RowsAreNumbers DEF TableFits
<1>15. PICK order \in Tables : order = Over(first, places) /\ TableFits(order, m)
  BY <1>12, <1>14, OverTable, OverFits
<1>16. PICK table : table = Over(order, parts[c.part]) /\ TableFits(table, m)
  BY <1>6, <1>8, <1>15, OverFits
<1>17. parts' = [parts EXCEPT ![c.part] = table]
  BY <1>4, <1>7, <1>13, <1>15, <1>16
<1>18. made' = [made EXCEPT ![c.part] = m]
  BY <1>5, <1>6, <1>8 DEF FormInv
<1>19. c.pc # "idle" /\ id \in Nat /\ id <= m /\ made[c.part] <= m /\ m <= MaxRows
  BY <1>5, <1>6, <1>8, <1>9
<1> QED
  BY <1>1, <1>5, <1>9, <1>16, <1>17, <1>18, <1>19, EndWithinBound

LEMMA DropWithinBound ==
    ASSUME FormInv, FormBound, FormInv', NEW k \in Calls, DropImage(k)
    PROVE  FormBound'
<1>1. PICK c : c = formCalls[k]
  OBVIOUS
<1>2. PICK gone : gone = Listed(c)
  OBVIOUS
<1>3. /\ c.pc = "drop" /\ UNCHANGED <<made, mixed>>
      /\ parts' = [parts EXCEPT !["images"] = Restrict(@, DOMAIN @ \ gone)]
      /\ formCalls' = [formCalls EXCEPT ![k] = FormIdle]
      /\ wanted' = [wanted EXCEPT !["images"] =
                      [ids |-> wanted["images"].ids \ gone,
                       main |-> IF wanted["images"].main \in gone THEN 0 ELSE wanted["images"].main]]
  BY <1>1, <1>2 DEF DropImage
<1>4. /\ FormOK(c) /\ c.part \in Part /\ parts[c.part] \in Tables /\ made[c.part] \in Nat
      /\ TableFits(parts[c.part], made[c.part]) /\ PartFits(c.part) /\ mixed \subseteq Part
  BY <1>1, <1>3, CallBounds
<1>5. c.part = "images"
  BY <1>3, <1>4 DEF FormOK
<1>6. PICK left \in SUBSET (DOMAIN parts[c.part]) : left = DOMAIN parts[c.part] \ gone
  OBVIOUS
<1>7. PICK table : table = Restrict(parts[c.part], left) /\ TableFits(table, made[c.part])
  BY <1>4, LessFits
<1>8. parts' = [parts EXCEPT ![c.part] = table]
  BY <1>3, <1>5, <1>6, <1>7
<1>9. parts'[c.part] = table /\ \A q \in Part \ {c.part} : parts'[q] = parts[q]
  BY <1>4, <1>8 DEF FormInv
<1>10. PICK v : v = [ids |-> wanted["images"].ids \ gone,
                     main |-> IF wanted["images"].main \in gone THEN 0 ELSE wanted["images"].main]
  OBVIOUS
<1>11. v.ids \subseteq 1..MaxRows /\ v.main <= MaxRows
  BY <1>4, <1>5, <1>10, RowsAreNumbers DEF PartFits
<1>12. wanted'[c.part] = v /\ \A q \in Part \ {c.part} : wanted'[q] = wanted[q]
  BY <1>3, <1>4, <1>5, <1>10 DEF FormInv
<1>13. PartFits(c.part)'
  BY <1>3, <1>4, <1>7, <1>9, <1>11, <1>12 DEF PartFits
<1>14. made'[c.part] >= made[c.part] /\ mixed' \subseteq Part /\ c.pc # "idle"
       /\ \A q \in Part \ {c.part} : parts'[q] = parts[q] /\ made'[q] = made[q] /\ wanted'[q] = wanted[q]
  <2>1. made' = made /\ mixed' = mixed /\ c.pc # "idle"
    BY <1>3
  <2> HIDE DEF Part
  <2> QED
    BY <1>4, <1>9, <1>12, <2>1
<1> QED
  BY <1>1, <1>3, <1>13, <1>14, IdleFits, FormBoundStep

LEMMA CrashWithinBound ==
    ASSUME FormInv, FormBound, FormCrash
    PROVE  FormBound'
<1>1. /\ mixed' = mixed \cup {formCalls[k].part : k \in {j \in Calls : formCalls[j].pc \in {"save", "manager"}}}
      /\ formCalls' = [k \in Calls |-> FormIdle] /\ UNCHANGED <<parts, made, wanted>>
  BY DEF FormCrash
<1>2. \A k \in Calls : formCalls[k].part \in Part
  BY DEF FormInv, FormRow
<1>3. mixed' \subseteq Part
  BY <1>1, <1>2 DEF FormBound
<1>4. ASSUME NEW k \in Calls PROVE CallFits(formCalls[k])'
  <2>1. formCalls'[k] = FormIdle
    BY <1>1
  <2> QED
    BY <2>1, IdleFits DEF CallFits
<1>5. \A p \in Part : PartFits(p)'
  BY <1>1 DEF FormBound, PartFits
<1> QED
  BY <1>3, <1>4, <1>5 DEF FormBound

LEMMA NextFormBound ==
    ASSUME FormInv, FormBound, FormInv', [Next]_vars
    PROVE  FormBound'
<1>1. CASE UNCHANGED formVars
  BY <1>1 DEF formVars, FormBound, CallFits, PartFits
<1>2. CASE \E p \in Part : FormsNext(p)
  <2>1. PICK p \in Part : FormsNext(p)
    BY <1>2
  <2>2. CASE FormCrash
    BY <2>2, CrashWithinBound
  <2>3. ASSUME NEW k \in Calls,
               \/ updateProfile(k, p)
               \/ p = "currencies" /\ saveCurrencies(k)
               \/ p = "countries" /\ upsertCountry(k)
               \/ p = "permissions" /\ updateManager(k)
               \/ setUserImageAsDefault(k)
               \/ deleteUserImageById(k)
        PROVE  FormBound'
    BY <2>3, AllBeginWithinBound
  <2>4. ASSUME NEW k \in Calls,
               \/ CheckUsed(k) \/ SaveUser(k) \/ DeleteUnlisted(k) \/ SaveListed(k)
               \/ updateManagerPermissions(k) \/ SaveManager(k) \/ WriteDefault(k) \/ DropImage(k)
        PROVE  FormBound'
    BY <2>4, CheckWithinBound, SaveUserWithinBound, DeleteWithinBound, SaveWithinBound, ManagerWithinBound,
       DefaultWithinBound, DropWithinBound
  <2> QED
    BY <2>1, <2>2, <2>3, <2>4 DEF FormsNext
<1> QED
  BY <1>1, <1>2, FormsMove

LEMMA TypesOfForms == FormInv /\ FormBound => FormsTypeOK
<1> SUFFICES ASSUME FormInv, FormBound PROVE FormsTypeOK
  OBVIOUS
<1>1. DOMAIN parts = Part /\ mixed \subseteq Part
  BY DEF FormInv, FormBound
<1>2. \A k \in Calls : formCalls[k].pc \in FormPC /\ formCalls[k].part \in Part
  BY DEF FormInv, FormRow
<1>3. made \in [Part -> 0..MaxRows]
  <2>1. made \in [Part -> Nat] /\ \A p \in Part : made[p] <= MaxRows
    BY DEF FormInv, FormBound, PartFits
  <2>2. \A p \in Part : made[p] \in 0..MaxRows
    BY <2>1, RowsAreNumbers
  <2> QED
    BY <2>1, <2>2
<1>4. wanted \in [Part -> [ids : SUBSET (1..MaxRows), main : 0..MaxRows]]
  <2>1. wanted \in [Part -> [ids : SUBSET Nat, main : Nat]]
        /\ \A p \in Part : wanted[p].ids \subseteq 1..MaxRows /\ wanted[p].main <= MaxRows
    BY DEF FormInv, FormBound, PartFits
  <2>2. ASSUME NEW p \in Part PROVE wanted[p] \in [ids : SUBSET (1..MaxRows), main : 0..MaxRows]
    <3>1. PICK w \in [ids : SUBSET Nat, main : Nat] : w = wanted[p]
      BY <2>1
    <3>2. w.ids \in SUBSET (1..MaxRows) /\ w.main \in 0..MaxRows
      BY <2>1, <3>1, RowsAreNumbers
    <3> QED
      BY <3>1, <3>2
  <2> QED
    BY <2>1, <2>2
<1>5. ASSUME NEW p \in Part PROVE DOMAIN parts[p] \subseteq 1..made[p] /\ Range(parts[p]) \subseteq 0..MaxRows
  <2>1. PICK table \in Tables : table = parts[p] /\ TableFits(table, made[p])
    BY DEF FormInv, FormBound, PartFits
  <2>2. \A i \in DOMAIN table : table[i] \in 0..MaxRows
    BY <2>1, RowsAreNumbers DEF Tables, TableFits
  <2> QED
    BY <2>1, <2>2 DEF TableFits, Range
<1> QED
  BY <1>1, <1>2, <1>3, <1>4, <1>5 DEF FormsTypeOK
----------------------------------------------------------------------------
(* All services together. *)

\* What is true of each service, and how its rows and calls stay within what
\* the calls begun so far can make of them.
ServicesInv ==
    /\ called \in 0..MaxCalls
    /\ TotalInv /\ RatingInv /\ ListInv /\ RequestInv /\ ViewInv
    /\ TermInv /\ CodeInv /\ FaqInv /\ ServiceInv /\ FormInv

ServicesBound ==
    /\ ListBound /\ RequestBound /\ PostBound
    /\ TermBound /\ CodeBound /\ FaqBound /\ ServiceBound /\ FormBound

LEMMA InitAllServices == Init => ServicesInv /\ ServicesBound
<1> SUFFICES ASSUME Init PROVE ServicesInv /\ ServicesBound
  OBVIOUS
<1>1. called \in 0..MaxCalls
  BY CallsAssumption DEF Init
<1>2. ServicesInv
  BY <1>1, InitTotal, InitRatings, InitLists, InitRequests, InitViews, InitTerms, InitCodes, InitFaqs, InitServices,
     InitForms DEF ServicesInv
<1>3. ServicesBound
  BY InitListBound, InitRequestBound, InitPostBound, InitTermBound, InitCodeBound, InitSettingBounds, InitFormBound
     DEF ServicesBound
<1> QED
  BY <1>2, <1>3

LEMMA NextAllServices ==
    ASSUME ServicesInv, ServicesBound, [Next]_vars
    PROVE  ServicesInv' /\ ServicesBound'
<1>1. called' \in 0..MaxCalls
  BY CallsAreBounded DEF ServicesInv
<1>2. ServicesInv'
  BY <1>1, NextTotal, NextRatings, NextLists, NextRequests, NextViews, NextTerms, NextCodes, NextFaqs, NextServices,
     NextFormInv DEF ServicesInv
<1>3. TermsFit /\ TermsFit'
  BY <1>2 DEF ServicesInv, TermInv, TermsFit
<1>4. ListBound' /\ RequestBound' /\ PostBound'
  BY <1>2, NextListBound, NextRequestBound, NextPostBound DEF ServicesInv, ServicesBound
<1>5. TermBound' /\ CodeBound'
  BY <1>2, <1>3, NextTermBound, NextCodeBound DEF ServicesInv, ServicesBound
<1>6. FaqBound' /\ ServiceBound' /\ FormBound'
  BY <1>2, NextFaqBound, NextServiceBound, NextFormBound DEF ServicesInv, ServicesBound
<1> QED
  BY <1>2, <1>4, <1>5, <1>6 DEF ServicesBound

LEMMA TypesOfAll == ServicesInv /\ ServicesBound => TypeOK
<1> SUFFICES ASSUME ServicesInv, ServicesBound PROVE TypeOK
  OBVIOUS
<1>1. PointsTypeOK /\ RatingsTypeOK /\ RequestsTypeOK /\ ListsTypeOK /\ PostsTypeOK
  BY TypesOfPoints, TypesOfRatings, TypesOfRequests, TypesOfLists, TypesOfPosts DEF ServicesInv, ServicesBound
<1>2. TermsFit
  BY DEF ServicesInv, TermInv, TermsFit
<1>3. TermsTypeOK /\ BookCodesTypeOK /\ FormsTypeOK /\ SettingsTypeOK
  BY <1>2, TypesOfTerms, TypesOfCodes, TypesOfForms, TypesOfSettings DEF ServicesInv, ServicesBound
<1> QED
  BY <1>1, <1>3 DEF TypeOK, ServicesInv

\* The rows and the calls of the small services are what their tables and
\* handlers make them, no id, place, version, number or history mark outgrows
\* the calls that made it, and the openings of a post are counted unless two of
\* them overlapped (all handlers of Services).
THEOREM ViewsAreAlwaysCounted == Spec => []ViewsAreCounted
<1>1. ServicesInv /\ ServicesBound => TypeOK
  BY TypesOfAll
<1>2. Init => ServicesInv /\ ServicesBound
  BY InitAllServices
<1>3. ServicesInv /\ ServicesBound /\ [Next]_vars => (ServicesInv /\ ServicesBound)'
  BY NextAllServices
<1>4. Spec => []CountIsOfViews
  BY ViewsAlwaysMatchOpenings
<1>5. TypeOK /\ CountIsOfViews => ViewsAreCounted
  BY DEF ViewsAreCounted
<1> QED
  BY <1>1, <1>2, <1>3, <1>4, <1>5, PTL DEF Spec
=============================================================================
