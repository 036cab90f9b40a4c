-------------------------------- MODULE Forms --------------------------------
(***************************************************************************)
(* Forms that replace a list of rows by the list they carry, in several    *)
(* calls to the database: the images and languages of a profile (special   *)
(* services are kept as languages are), the permissions of a manager, the  *)
(* currencies and the countries.  One image can also be made the first or  *)
(* deleted.  A save is one step: calls that overlap are excused anyway.    *)
(***************************************************************************)
EXTENDS ServiceCalls

CONSTANT MaxRows    \* bound: rows ever made of one part

ASSUME RowsAssumption == MaxRows \in Nat

VARIABLES
    parts,          \* parts[p]: the rows, id -> place (0 where there is none)
    made,           \* made[p]: the last id given
    wanted,         \* history: the ids, and the first image, last ordered
    formCalls,
    mixed           \* history: parts left by overlapping or cut calls

formVars == <<parts, made, wanted, formCalls, mixed>>

Part == {"images", "languages", "permissions", "currencies", "countries"}

\* list: the ids in the order given, 0 for a new one; copy: the rows read;
\* met: history, another call on the part was under way at some time.
FormIdle == [pc |-> "idle", part |-> "images", list |-> <<>>, copy |-> <<>>, met |-> FALSE]
FormPC == {"idle", "user", "used", "delete", "save", "clear", "manager", "default", "drop"}

FormsInit ==
    /\ parts = [p \in Part |-> <<>>]
    /\ made = [p \in Part |-> 0]
    /\ wanted = [p \in Part |-> [ids |-> {}, main |-> 0]]
    /\ formCalls = [k \in Calls |-> FormIdle]
    /\ mixed = {}

\* What a client may send: known ids, once each, and new entries.
ListsOf(p) ==
    {f \in UNION {[1..n -> 0..made[p]] : n \in 0..MaxRows} :
        /\ \A i, j \in DOMAIN f : f[i] = f[j] => i = j \/ f[i] = 0
        /\ made[p] + Cardinality({i \in DOMAIN f : f[i] = 0}) <= MaxRows}

\* Call k begins on part p; all calls on p meet.
FormBegins(k, p, pc, list) ==
    LET others == {j \in Calls \ {k} : formCalls[j].pc # "idle" /\ formCalls[j].part = p} IN
    /\ formCalls[k] = FormIdle /\ Counted
    /\ formCalls' = [j \in Calls |->
          IF j = k THEN [pc |-> pc, part |-> p, list |-> list, copy |-> parts[p], met |-> others # {}]
          ELSE IF j \in others THEN [formCalls[j] EXCEPT !.met = TRUE] ELSE formCalls[j]]
    /\ mixed' = IF others = {} THEN mixed ELSE mixed \cup {p}
    /\ UNCHANGED <<parts, made, wanted>>

FormGoes(k, pc) == formCalls' = [formCalls EXCEPT ![k].pc = pc]

\* The last write of a call: what p is wanted to be, known again if k was alone.
FormEnds(k, ids, main) ==
    LET p == formCalls[k].part IN
    /\ formCalls' = [formCalls EXCEPT ![k] = FormIdle]
    /\ wanted' = [wanted EXCEPT ![p] = [ids |-> ids, main |-> main]]
    /\ mixed' = IF formCalls[k].met THEN mixed ELSE mixed \ {p}

updateProfile(k, p) ==
    /\ p \in {"images", "languages"}
    /\ \E list \in ListsOf(p) : FormBegins(k, p, "user", list)

\* Saving the user cascades to the part as it was read: rows gone since come
\* back, and a row come since is to lose its user, which the column refuses.
SaveUser(k) ==
    LET c == formCalls[k] IN
    /\ c.pc = "user"
    /\ IF DOMAIN parts[c.part] \subseteq DOMAIN c.copy
       THEN parts' = [parts EXCEPT ![c.part] = c.copy] /\ FormGoes(k, "delete")
       ELSE UNCHANGED parts /\ formCalls' = [formCalls EXCEPT ![k] = FormIdle]
    /\ UNCHANGED <<made, wanted, mixed, called>>

Listed(c) == Range(c.list)
Unlisted(c) == Restrict(parts[c.part], DOMAIN parts[c.part] \ (DOMAIN c.copy \ Listed(c)))

DeleteUnlisted(k) ==
    LET c == formCalls[k] IN
    /\ c.pc = "delete"
    /\ parts' = [parts EXCEPT ![c.part] = Unlisted(c)]
    /\ FormGoes(k, "save")
    /\ UNCHANGED <<made, wanted, mixed, called>>

\* The list with an id for every new entry.
WithIds(c) ==
    [i \in DOMAIN c.list |->
        IF c.list[i] = 0 THEN made[c.part] + Cardinality({j \in 1..i : c.list[j] = 0}) ELSE c.list[i]]

\* The rows of a list: an image's place is its index.
Place(p, i) == IF p = "images" THEN i - 1 ELSE 0
RowsOf(p, s) ==
    [id \in Range(s) |-> Place(p, CHOOSE i \in DOMAIN s : s[i] = id)]

\* The rows written over those there are.
Over(written, rows) ==
    [id \in DOMAIN written \cup DOMAIN rows |-> IF id \in DOMAIN written THEN written[id] ELSE rows[id]]

\* Rows removed for good are inserted again when listed; removed countries are
\* only marked, and a save leaves the mark.
Saved(c, s) ==
    Restrict(RowsOf(c.part, s),
             {id \in Range(s) : c.part # "countries" \/ id \in DOMAIN parts[c.part] \/ id > made[c.part]})

SaveListed(k) ==
    LET c == formCalls[k]
        s == WithIds(c)
        ids == DOMAIN Saved(c, s) IN
    /\ c.pc = "save"
    /\ Max({0} \cup Range(s)) <= MaxRows
    /\ parts' = [parts EXCEPT ![c.part] = Over(Saved(c, s), @)]
    /\ made' = [made EXCEPT ![c.part] = Max({@} \cup ids)]
    /\ IF c.part = "permissions"
       THEN formCalls' = [formCalls EXCEPT ![k] = [c EXCEPT !.pc = "manager", !.list = s]]
            /\ UNCHANGED <<wanted, mixed>>
       ELSE FormEnds(k, ids, IF c.part = "images" /\ s # <<>> THEN s[1] ELSE 0)
    /\ UNCHANGED called

\* A currency that bookings and users use is kept (their rows refer to it when
\* the check misses one), and with it the whole list.
saveCurrencies(k) == \E list \in ListsOf("currencies") : FormBegins(k, "currencies", "used", list)
upsertCountry(k)  == \E list \in ListsOf("countries") : FormBegins(k, "countries", "delete", list)

CheckUsed(k) ==
    LET c == formCalls[k] IN
    /\ c.pc = "used"
    /\ \/ FormGoes(k, "delete")
       \/ /\ ~(DOMAIN c.copy \subseteq Listed(c))
          /\ formCalls' = [formCalls EXCEPT ![k] = FormIdle]
    /\ UNCHANGED <<parts, made, wanted, mixed, called>>

\* updateManager: all permissions go, new rows come, and the save of the
\* manager carries them; rows of others it would part from their user.
updateManager(k) ==
    \E list \in {l \in ListsOf("permissions") : \A i \in DOMAIN l : l[i] = 0} :
        FormBegins(k, "permissions", "clear", list)

updateManagerPermissions(k) ==
    LET c == formCalls[k] IN
    /\ c.pc = "clear"
    /\ parts' = [parts EXCEPT ![c.part] = <<>>]
    /\ FormGoes(k, "save")
    /\ UNCHANGED <<made, wanted, mixed, called>>

SaveManager(k) ==
    LET c == formCalls[k]
        mine == RowsOf(c.part, c.list) IN
    /\ c.pc = "manager"
    /\ IF DOMAIN parts[c.part] \subseteq DOMAIN mine
       THEN parts' = [parts EXCEPT ![c.part] = mine]
       ELSE UNCHANGED parts
    /\ FormEnds(k, Listed(c), 0)
    /\ UNCHANGED <<made, called>>

\* The other images follow in any order.
setUserImageAsDefault(k) ==
    \E id \in DOMAIN parts["images"] : FormBegins(k, "images", "default", <<id>>)

OthersKeepTheirPlaces(c) == {[i \in DOMAIN c.copy \ {c.list[1]} |-> c.copy[i]]}  \* a mutant
PlacesOfOthers(c) ==
    LET others == DOMAIN c.copy \ {c.list[1]}
    IN {f \in [others -> 1..Cardinality(others)] : IsInjective(f)}

WriteDefault(k) ==
    LET c == formCalls[k] IN
    /\ c.pc = "default"
    /\ \E places \in PlacesOfOthers(c) :
         parts' = [parts EXCEPT !["images"] = Over(Over([id \in {c.list[1]} |-> 0], places), @)]
    /\ FormEnds(k, DOMAIN c.copy, c.list[1])
    /\ UNCHANGED <<made, called>>

\* Its place stays empty.
deleteUserImageById(k) ==
    \E id \in DOMAIN parts["images"] : FormBegins(k, "images", "drop", <<id>>)

DropImage(k) ==
    LET c == formCalls[k]
        w == wanted["images"] IN
    /\ c.pc = "drop"
    /\ parts' = [parts EXCEPT !["images"] = Restrict(@, DOMAIN @ \ Listed(c))]
    /\ formCalls' = [formCalls EXCEPT ![k] = FormIdle]
    /\ wanted' = [wanted EXCEPT !["images"] =
                    [ids |-> w.ids \ Listed(c), main |-> IF w.main \in Listed(c) THEN 0 ELSE w.main]]
    /\ UNCHANGED <<made, mixed, called>>

\* A call that dies after its deletion leaves a part without what it listed.
FormCrash ==
    /\ \E k \in Calls : formCalls[k] # FormIdle
    /\ mixed' = mixed \cup {formCalls[k].part :
                              k \in {j \in Calls : formCalls[j].pc \in {"save", "manager"}}}
    /\ formCalls' = [k \in Calls |-> FormIdle]
    /\ UNCHANGED <<parts, made, wanted, called>>

\* Parts share no row, so a behaviour is one of a single part p.
FormsNext(p) ==
    \/ \E k \in Calls : \/ updateProfile(k, p)
                        \/ p = "currencies" /\ saveCurrencies(k)
                        \/ p = "countries" /\ upsertCountry(k)
                        \/ CheckUsed(k) \/ SaveUser(k) \/ DeleteUnlisted(k) \/ SaveListed(k)
                        \/ p = "permissions" /\ updateManager(k)
                        \/ updateManagerPermissions(k) \/ SaveManager(k)
                        \/ setUserImageAsDefault(k) \/ WriteDefault(k)
                        \/ deleteUserImageById(k) \/ DropImage(k)
    \/ FormCrash

FormsTypeOK ==
    /\ DOMAIN parts = Part
    /\ \A p \in Part : DOMAIN parts[p] \subseteq 1..made[p] /\ Range(parts[p]) \subseteq 0..MaxRows
    /\ made \in [Part -> 0..MaxRows]
    /\ wanted \in [Part -> [ids : SUBSET (1..MaxRows), main : 0..MaxRows]]
    /\ \A k \in Calls : formCalls[k].pc \in FormPC /\ formCalls[k].part \in Part
    /\ mixed \subseteq Part

\* A part that no call works on holds exactly the rows last ordered, the images
\* in places of their own with the chosen one first and none first once it is
\* deleted; unless calls on the part overlapped or one died between its
\* deletion and its save, and no lone call set it right since.
PartsFollowTheLastOrder ==
    \A p \in Part \ mixed :
      (\A k \in Calls : formCalls[k].pc = "idle" \/ formCalls[k].part # p) =>
        /\ DOMAIN parts[p] = wanted[p].ids
        /\ p = "images" =>
             /\ IsInjective(parts[p])
             /\ {i \in DOMAIN parts[p] : parts[p][i] = 0} = {wanted[p].main} \ {0}
=============================================================================
