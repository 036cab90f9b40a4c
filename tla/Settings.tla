------------------------------- MODULE Settings -------------------------------
(***************************************************************************)
(* Two settings of config-svc that admins edit: the special services,      *)
(* whose text is kept per language in one column that every save rewrites, *)
(* and the questions and answers, each with a place among those of a type. *)
(***************************************************************************)
EXTENDS ServiceCalls

CONSTANT MaxSettings    \* bound: rows of each table

ASSUME SettingsAssumption == MaxSettings \in Nat

VARIABLES
    services,       \* the special services, oldest first
    lastText,       \* history: by service and language, the text saved last
    serviceCalls,
    torn,           \* history: services that two saves had in hand at once
    faqs,           \* the questions, oldest first
    faqCalls,
    hurried         \* history: questions whose place was given in an overlap

settingVars == <<services, lastText, serviceCalls, torn, faqs, faqCalls, hurried>>

ELanguage == {"vi", "ko"}

\* A text is named by the call that saved it, 0 where there is none.
Text == [ELanguage -> 0..MaxCalls]
SpecialService == [live : BOOLEAN, text : Text]

\* details: the listed services not yet read; read: those read, with the text
\* read; new: whether the list has a new service; text: the text of the call.
ServiceIdle == [pc |-> "idle", lang |-> "vi", listed |-> {}, details |-> {}, read |-> <<>>,
                new |-> FALSE, failed |-> FALSE, text |-> 0]

\* A call has a question's row as read, or one to insert.
EFaqType == {"babysitter", "parent"}
Faq == [faqType : EFaqType, order : 0..MaxSettings]
FaqIdle == [pc |-> "idle", id |-> 0, copy |-> [faqType |-> "parent", order |-> 0], met |-> FALSE]

SettingsInit ==
    /\ services = <<>> /\ lastText = <<>> /\ torn = {}
    /\ serviceCalls = [k \in Calls |-> ServiceIdle]
    /\ faqs = <<>> /\ hurried = {}
    /\ faqCalls = [k \in Calls |-> FaqIdle]

----------------------------------------------------------------------------
(* Special services. *)

createSpecialService(k) ==
    /\ serviceCalls[k] = ServiceIdle /\ Counted
    /\ \E lang \in ELanguage, listed \in SUBSET DOMAIN services, new \in BOOLEAN :
         /\ serviceCalls' = [serviceCalls EXCEPT ![k] =
               [ServiceIdle EXCEPT !.pc = "remove", !.lang = lang, !.listed = listed,
                                   !.details = listed, !.new = new, !.text = called + 1]]
         /\ torn' = torn \cup (listed \cap UNION {serviceCalls[j].listed : j \in Calls})
    /\ UNCHANGED <<services, lastText>>

\* Whatever is not listed goes, seen by this admin or not.
RemoveUnlisted(k) ==
    /\ serviceCalls[k].pc = "remove"
    /\ services' = [i \in DOMAIN services |->
          IF i \in serviceCalls[k].listed THEN services[i] ELSE [services[i] EXCEPT !.live = FALSE]]
    /\ serviceCalls' = [serviceCalls EXCEPT ![k].pc = "details"]
    /\ UNCHANGED <<lastText, torn, called>>

\* A listed service that was removed is not found, which fails the call; the
\* details, all under way at once, are finished nevertheless.
ReadDetail(k, i) ==
    LET c == serviceCalls[k] IN
    /\ c.pc = "details" /\ i \in c.details
    /\ serviceCalls' = [serviceCalls EXCEPT ![k].details = @ \ {i},
          ![k].read = IF services[i].live THEN [j \in DOMAIN @ \cup {i} |->
                                                   IF j = i THEN services[i].text ELSE @[j]]
                                          ELSE @,
          ![k].failed = @ \/ ~services[i].live]
    /\ UNCHANGED <<services, lastText, torn, called>>

TextAlone(t, lang, new) == [l \in ELanguage |-> IF l = lang THEN new ELSE 0]  \* a mutant
Assigned(t, lang, new) == [t EXCEPT ![lang] = new]

WriteDetail(k, i) ==
    LET c == serviceCalls[k] IN
    /\ c.pc = "details" /\ i \in DOMAIN c.read
    /\ services' = [services EXCEPT ![i].text = Assigned(c.read[i], c.lang, c.text)]
    /\ lastText' = [lastText EXCEPT ![i][c.lang] = c.text]
    /\ serviceCalls' = [serviceCalls EXCEPT ![k].read = Restrict(@, DOMAIN @ \ {i})]
    /\ UNCHANGED <<torn, called>>

CreateServices(k) ==
    LET c == serviceCalls[k]
        row == Assigned([l \in ELanguage |-> 0], c.lang, c.text) IN
    /\ c.pc = "details" /\ c.details = {} /\ c.read = <<>>
    /\ IF c.new /\ ~c.failed
       THEN /\ Len(services) < MaxSettings
            /\ services' = Append(services, [live |-> TRUE, text |-> row])
            /\ lastText' = Append(lastText, row)
       ELSE UNCHANGED <<services, lastText>>
    /\ serviceCalls' = [serviceCalls EXCEPT ![k] = ServiceIdle]
    /\ UNCHANGED <<torn, called>>

deleteSpecialService ==
    /\ Counted
    /\ \E i \in DOMAIN services : services' = [services EXCEPT ![i].live = FALSE]
    /\ UNCHANGED <<lastText, serviceCalls, torn>>

----------------------------------------------------------------------------
(* Questions and answers. *)

FaqBegins(k, call) ==
    LET others == {j \in Calls \ {k} : faqCalls[j] # FaqIdle} IN
    /\ faqCalls[k] = FaqIdle /\ Counted
    /\ faqCalls' = [j \in Calls |->
          IF j = k THEN [call EXCEPT !.met = others # {}]
          ELSE IF j \in others THEN [faqCalls[j] EXCEPT !.met = TRUE] ELSE FaqIdle]
    /\ UNCHANGED <<faqs, hurried>>

\* The language of the question is one of the table.
createFaq(k) ==
    \E t \in EFaqType : FaqBegins(k, [FaqIdle EXCEPT !.pc = "order", !.copy.faqType = t])

\* A question of another type gets a new place, an edited text leaves it.
updateFaq(k) ==
    \E i \in DOMAIN faqs, t \in EFaqType :
        FaqBegins(k, [FaqIdle EXCEPT !.pc = IF t = faqs[i].faqType THEN "save" ELSE "order",
                                     !.id = i, !.copy = [faqs[i] EXCEPT !.faqType = t]])

PlacesOf(t) == {faqs[i].order : i \in {j \in DOMAIN faqs : faqs[j].faqType = t}}
FaqOrder(t) == Max({0} \cup PlacesOf(t)) + 1

getFaqOrder(k) ==
    /\ faqCalls[k].pc = "order" /\ FaqOrder(faqCalls[k].copy.faqType) <= MaxSettings
    /\ faqCalls' = [faqCalls EXCEPT ![k].pc = "save",
                                    ![k].copy.order = FaqOrder(faqCalls[k].copy.faqType)]
    /\ UNCHANGED <<faqs, hurried, called>>

SaveFaq(k) ==
    LET c == faqCalls[k]
        i == IF c.id = 0 THEN Len(faqs) + 1 ELSE c.id IN
    /\ c.pc = "save" /\ i <= MaxSettings
    /\ faqs' = IF c.id = 0 THEN Append(faqs, c.copy) ELSE [faqs EXCEPT ![i] = c.copy]
    /\ hurried' = IF c.met THEN hurried \cup {i} ELSE hurried
    /\ faqCalls' = [faqCalls EXCEPT ![k] = FaqIdle]
    /\ UNCHANGED called

SettingsCrash ==
    /\ \E k \in Calls : serviceCalls[k] # ServiceIdle \/ faqCalls[k] # FaqIdle
    /\ serviceCalls' = [k \in Calls |-> ServiceIdle]
    /\ faqCalls' = [k \in Calls |-> FaqIdle]
    /\ UNCHANGED <<services, lastText, torn, faqs, hurried, called>>

----------------------------------------------------------------------------
(* The two tables share nothing: a behaviour is one of a single table. *)

ServicesNext ==
    \/ \E k \in Calls : \/ createSpecialService(k) \/ RemoveUnlisted(k) \/ CreateServices(k)
                        \/ \E i \in DOMAIN services : ReadDetail(k, i) \/ WriteDetail(k, i)
    \/ deleteSpecialService
FaqsNext == \E k \in Calls : createFaq(k) \/ updateFaq(k) \/ getFaqOrder(k) \/ SaveFaq(k)

SettingsNext(table) ==
    \/ table = "services" /\ ServicesNext /\ UNCHANGED <<faqs, faqCalls, hurried>>
    \/ table = "faqs" /\ FaqsNext /\ UNCHANGED <<services, lastText, serviceCalls, torn>>
    \/ SettingsCrash

SettingsTypeOK ==
    /\ services \in Seq(SpecialService) /\ lastText \in Seq(Text)
    /\ DOMAIN lastText = DOMAIN services /\ torn \subseteq DOMAIN services
    /\ \A k \in Calls : serviceCalls[k].listed \subseteq DOMAIN services
    /\ faqs \in Seq(Faq) /\ hurried \subseteq DOMAIN faqs
    /\ \A k \in Calls : faqCalls[k].id \in {0} \cup DOMAIN faqs /\ faqCalls[k].copy \in Faq

\* Saving the special services in one language leaves the texts in the other:
\* of a service that two saves never had in hand at once, every language shows
\* what was saved in it last.
TranslationsAreKept ==
    \A i \in DOMAIN services \ torn : services[i].text = lastText[i]

\* No two questions of a type share a place, unless the place of both was given
\* by calls that met others.
FaqPlacesDiffer ==
    \A i, j \in DOMAIN faqs :
        i # j /\ faqs[i] = faqs[j] => {i, j} \subseteq hurried

\* What admins saved in turn is what the app shows.
SettingsAreTheLastSaved == TranslationsAreKept /\ FaqPlacesDiffer
=============================================================================
