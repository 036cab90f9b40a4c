-------------------------------- MODULE Terms --------------------------------
(***************************************************************************)
(* Terms and policies of config-svc.  A change of the text withdraws the   *)
(* version on display and adds the next; other changes write the row.      *)
(***************************************************************************)
EXTENDS ServiceCalls

CONSTANT MaxTerms   \* bound: rows

ASSUME TermsAssumption == MaxTerms \in Nat \ {0}

VARIABLES
    terms,          \* the rows, oldest first
    termCalls,
    divided         \* history: terms with overlapping or cut updates

termVars == <<terms, termCalls, divided>>

\* line is history: the first version of the term; version counts tenths.
\* display or hidden is up to the admin, cannot_display is an old version.
Term == [line : 1..MaxTerms, displayStatus : {"display", "hidden", "cannot_display"},
         version : Nat, order : Nat]

\* copy is the row as read; a new row has no id yet.
TermCall == [pc : {"idle", "order", "insert", "write", "withdraw", "next"}, id : 0..MaxTerms,
             copy : Term]
TermIdle == [pc |-> "idle", id |-> 0, copy |-> [line |-> 1, displayStatus |-> "display",
                                                version |-> 1, order |-> 0]]

TermsInit ==
    /\ terms = <<>>
    /\ termCalls = [k \in Calls |-> TermIdle]
    /\ divided = {}

TermGoes(k, pc) ==
    termCalls' = [termCalls EXCEPT ![k] = IF pc = "idle" THEN TermIdle ELSE [@ EXCEPT !.pc = pc]]

saveTerm(k) ==
    /\ termCalls[k] = TermIdle /\ Counted
    /\ TermGoes(k, "order")
    /\ UNCHANGED <<terms, divided>>

getNextTermOrder(k) ==
    /\ termCalls[k].pc = "order"
    /\ termCalls' = [termCalls EXCEPT ![k].pc = "insert",
                       ![k].copy.order = 1 + Max({0} \cup {terms[i].order : i \in DOMAIN terms})]
    /\ UNCHANGED <<terms, divided, called>>

InsertTerm(k) ==
    /\ termCalls[k].pc = "insert" /\ Len(terms) < MaxTerms
    /\ \E status \in {"display", "hidden"} :
         terms' = Append(terms, [termCalls[k].copy EXCEPT !.line = Len(terms) + 1,
                                                          !.displayStatus = status])
    /\ TermGoes(k, "idle")
    /\ UNCHANGED <<divided, called>>

\* Old versions are not edited.  A new text withdraws the row, other data goes
\* into the copy (the status may be part of it).
EditAny(i) == TRUE                                                      \* a mutant
Editable(i) == terms[i].displayStatus # "cannot_display"

OnLine(line, k) == \E j \in Calls \ {k} : termCalls[j].id # 0 /\ termCalls[j].copy.line = line

updateTerm(k, i) ==
    /\ i \in DOMAIN terms /\ Editable(i)
    /\ termCalls[k] = TermIdle /\ Counted
    /\ \/ \E status \in {"display", "hidden"} :
            termCalls' = [termCalls EXCEPT ![k] = [pc |-> "write", id |-> i,
                            copy |-> [terms[i] EXCEPT !.displayStatus = status]]]
       \/ termCalls' = [termCalls EXCEPT ![k] = [pc |-> "withdraw", id |-> i, copy |-> terms[i]]]
    /\ divided' = IF OnLine(terms[i].line, k) THEN divided \cup {terms[i].line} ELSE divided
    /\ UNCHANGED terms

\* The whole row is written, with the status it was read with or given.
WriteTerm(k) ==
    LET c == termCalls[k] IN
    /\ c.pc = "write"
    /\ terms' = [terms EXCEPT ![c.id] = c.copy]
    /\ TermGoes(k, "idle")
    /\ UNCHANGED <<divided, called>>

WithdrawTerm(k) ==
    LET c == termCalls[k] IN
    /\ c.pc = "withdraw"
    /\ terms' = [terms EXCEPT ![c.id] = [c.copy EXCEPT !.displayStatus = "cannot_display"]]
    /\ TermGoes(k, "next")
    /\ UNCHANGED <<divided, called>>

NextVersion(k) ==
    LET c == termCalls[k] IN
    /\ c.pc = "next" /\ Len(terms) < MaxTerms
    /\ terms' = Append(terms, [c.copy EXCEPT !.displayStatus = "display", !.version = @ + 1])
    /\ TermGoes(k, "idle")
    /\ UNCHANGED <<divided, called>>

ConfigCrash ==
    /\ \E k \in Calls : termCalls[k] # TermIdle
    /\ divided' = divided \cup {termCalls[k].copy.line : k \in {j \in Calls : termCalls[j].pc = "next"}}
    /\ termCalls' = [k \in Calls |-> TermIdle]
    /\ UNCHANGED <<terms, called>>

TermsNext ==
    \/ \E k \in Calls : \/ saveTerm(k) \/ getNextTermOrder(k) \/ InsertTerm(k)
                        \/ \E i \in 1..MaxTerms : updateTerm(k, i)
                        \/ WriteTerm(k) \/ WithdrawTerm(k) \/ NextVersion(k)
    \/ ConfigCrash

TermsTypeOK ==
    /\ terms \in Seq(Term) /\ Len(terms) <= MaxTerms
    /\ termCalls \in [Calls -> TermCall]
    /\ divided \subseteq 1..MaxTerms

\* Every term has exactly one version that is not old, its newest, but for the
\* moment between withdrawing one and adding the next; unless two updates of
\* the term overlapped, or one died in that moment.
OneCurrentVersion ==
    \A line \in {terms[i].line : i \in DOMAIN terms} \ divided :
        LET versions == {i \in DOMAIN terms : terms[i].line = line}
            current == {i \in versions : terms[i].displayStatus # "cannot_display"} IN
        \/ current = {Max(versions)}
        \/ current = {} /\ \E k \in Calls : termCalls[k].pc = "next" /\ termCalls[k].copy.line = line
=============================================================================
