------------------------------ MODULE Personas ------------------------------
(***************************************************************************)
(* Usernames and devices (personas.py, the persona tables of store.py) on  *)
(* a federation of hubs.  Members claim and change names, link and unlink  *)
(* devices at any hub; each hub's federation thread fetches the tables of  *)
(* a peer and merges them into its own (federation.py, _exchange_personas) *)
(* row by row: a row is compared, a holder of its name may be cleared, the *)
(* row is written, each in a transaction of its own, with the commands of  *)
(* members in between.                                                     *)
(*                                                                         *)
(* Stamps come from one clock: no two hubs stamp rows of one device or one *)
(* persona alike, but two personas may be born at the same time.  A rev or *)
(* an added of 0 stands for a missing row, a removed of 0 for NULL, and a  *)
(* name of 0 for none; names are ordered as the ORDER BY of the snapshot   *)
(* orders them.  A command is one step where its transactions only read    *)
(* and then write.  One group stands for all, and its role "member" also   *)
(* for admins.  Unlink codes lead to the same unlink a device may ask for  *)
(* without one and are left out, as is the notice to those who lose a      *)
(* name.                                                                   *)
(***************************************************************************)
EXTENDS Naturals, FiniteSets

CONSTANTS
    Hubs,
    Devices,
    Personas,    \* the ids random choice comes up with, ordered
    Names,       \* the names members wish for, ordered
    Roles,       \* the roles devices start with
    Renaming,    \* whether members change the name of a persona
    MaxCodes,    \* bound: how many link codes are minted
    LastOp,      \* bound: the time after which members rest
    MaxTime      \* bound: the time after which merges clear no name

ASSUME OrdersAssumption == Personas \subseteq Nat \ {0} /\ Names \subseteq Nat \ {0}
ASSUME RolesAssumption == Roles \subseteq {"none", "member", "banned"}
ASSUME BoundsAssumption ==
    /\ Renaming \in BOOLEAN /\ MaxCodes \in Nat
    /\ LastOp \in Nat /\ MaxTime \in Nat /\ LastOp <= MaxTime

VARIABLES
    \* The tables of each hub.
    persona,     \* personas
    device,      \* persona_identities, tombstones included
    live,        \* persona_links: the personas a code is out for
    roles,       \* members
    \* The commands and merges under way.
    joining,     \* joins that have spent their code: <<step, device, persona>>
    stage,       \* where the merge of a hub is
    from,        \* whose tables it fetches
    rows,        \* the fetched persona rows it has not dealt with
    links,       \* the fetched device rows it has not dealt with
    inhand,      \* the row it deals with
    clearing,    \* the persona it is about to take the name from
    \* Bookkeeping.
    clock,
    mints,
    wanted       \* the name each persona was first claimed with

tables == <<persona, device, live, roles>>
merging == <<stage, from, rows, links, inhand, clearing>>
vars == <<tables, joining, merging, clock, mints, wanted>>

NoName == 0
NoPersona == [name |-> NoName, claimed |-> 0, rev |-> 0, updated |-> 0]

Known(h, p) == persona[h][p].rev > 0
Linked(h, d) == device[h][d].added > 0 /\ device[h][d].removed = 0
PersonaOf(h, d) == {p \in Personas : Linked(h, d) /\ device[h][d].persona = p}
DevicesOf(h, p) == {d \in Devices : p \in PersonaOf(h, d)}
Holders(h, n) == {p \in Personas : n # NoName /\ persona[h][p].name = n}

Stages == {"idle", "fetch", "rows", "clear", "write", "attach"}
PersonaRows == [name : Names \cup {NoName}, claimed : 0..MaxTime,
                rev : Nat, updated : 0..MaxTime]
DeviceRows == [persona : Personas \cup {0}, added : 0..MaxTime, removed : 0..MaxTime]
FetchedRows == [id : Personas, row : PersonaRows]
FetchedLinks == [id : Devices, row : DeviceRows]

TypeOK ==
    /\ persona \in [Hubs -> [Personas -> PersonaRows]]
    /\ device \in [Hubs -> [Devices -> DeviceRows]]
    /\ live \in [Hubs -> SUBSET Personas]
    /\ roles \in [Hubs -> [Devices -> {"none", "member", "banned"}]]
    /\ joining \in [Hubs -> SUBSET ({"link", "admit"} \X Devices \X Personas)]
    /\ rows \in [Hubs -> SUBSET FetchedRows]
    /\ links \in [Hubs -> SUBSET FetchedLinks]
    /\ inhand \in [Hubs -> SUBSET (FetchedRows \cup FetchedLinks)]
    /\ \A h \in Hubs :
         /\ inhand[h] \subseteq IF stage[h] = "attach" THEN FetchedLinks ELSE FetchedRows
         /\ inhand[h] = {} <=> stage[h] \in {"idle", "fetch", "rows"}
         /\ stage[h] = "idle" => rows[h] = {} /\ links[h] = {}
    /\ stage \in [Hubs -> Stages]
    /\ from \in [Hubs -> Hubs]
    /\ clearing \in [Hubs -> SUBSET Personas]
    /\ clock \in 0..MaxTime
    /\ mints \in 0..MaxCodes
    /\ wanted \in [Personas -> Names \cup {NoName}]

Init ==
    /\ persona = [h \in Hubs |-> [p \in Personas |-> NoPersona]]
    /\ device = [h \in Hubs |-> [d \in Devices |->
                    [persona |-> 0, added |-> 0, removed |-> 0]]]
    /\ live = [h \in Hubs |-> {}]
    /\ roles \in [Hubs -> [Devices -> Roles]]
    /\ joining = [h \in Hubs |-> {}]
    /\ stage = [h \in Hubs |-> "idle"]
    /\ from = [h \in Hubs |-> h]
    /\ rows = [h \in Hubs |-> {}]
    /\ links = [h \in Hubs |-> {}]
    /\ inhand = [h \in Hubs |-> {}]
    /\ clearing = [h \in Hubs |-> {}]
    /\ clock = 0 /\ mints = 0
    /\ wanted = [p \in Personas |-> NoName]

-----------------------------------------------------------------------------
(* The commands of members. *)

Serves(h, d) == roles[h][d] # "banned" /\ clock < LastOp

(* create_persona: a device without a persona claims a name, or asks for a *)
(* link code before it has one.  A persona nobody knows gets a random id.  *)
NewPersona(h, d, n) ==
    /\ Serves(h, d)
    /\ PersonaOf(h, d) = {}
    /\ Holders(h, n) = {}
    /\ n = NoName => mints < MaxCodes
    /\ \E p \in Personas, now \in {clock, clock + 1} :
         /\ \A k \in Hubs : ~ Known(k, p)
         /\ now = clock => clock > 0 /\ \A k \in Hubs : device[k][d].added = 0
         /\ persona' = [persona EXCEPT ![h][p] =
                          [name |-> n, claimed |-> now, rev |-> 1, updated |-> now]]
         /\ device' = [device EXCEPT ![h][d] = [persona |-> p, added |-> now, removed |-> 0]]
         /\ wanted' = [wanted EXCEPT ![p] = n]
         /\ clock' = now
    /\ UNCHANGED <<live, roles, joining, merging, mints>>

(* Every change of a name makes a new revision.                            *)
Renamed(row, n) ==
    [name |-> n, claimed |-> row.claimed, rev |-> row.rev + 1, updated |-> clock + 1]

(* set_persona_name: the claim keeps the time of the persona's creation.   *)
Rename(h, d, n) ==
    /\ Renaming
    /\ Serves(h, d)
    /\ \E p \in PersonaOf(h, d) :
         /\ Holders(h, n) = {}
         /\ persona' = [persona EXCEPT ![h][p] = Renamed(@, n)]
    /\ clock' = clock + 1
    /\ UNCHANGED <<device, live, roles, joining, merging, mints, wanted>>

MintCode(h, d) ==
    /\ Serves(h, d)
    /\ mints < MaxCodes
    /\ mints' = mints + 1
    /\ \E p \in PersonaOf(h, d) : live' = [live EXCEPT ![h] = @ \cup {p}]
    /\ UNCHANGED <<persona, device, roles, joining, merging, clock, wanted>>

(* join spends the code before it does anything else; a code is spent at   *)
(* most once.  Nobody is asked who they are: the code is the proof.        *)
Spend(h, d, p) ==
    /\ p \in live[h]
    /\ live' = [live EXCEPT ![h] = @ \ {p}]
    /\ joining' = [joining EXCEPT ![h] = @ \cup {<<"link", d, p>>}]
    /\ UNCHANGED <<persona, device, roles, merging, clock, mints, wanted>>

Expire(h, p) ==
    /\ p \in live[h]
    /\ live' = [live EXCEPT ![h] = @ \ {p}]
    /\ UNCHANGED <<persona, device, roles, joining, merging, clock, mints, wanted>>

(* memberships_for: some device the persona already has is a member.       *)
Inherits(h, p) == \E d \in DevicesOf(h, p) : roles[h][d] = "member"

(* link_identity moves the device off any persona it had. *)
Link(h, d, p) ==
    /\ <<"link", d, p>> \in joining[h]
    /\ clock < LastOp
    /\ device' = [device EXCEPT ![h][d] = [persona |-> p, added |-> clock + 1, removed |-> 0]]
    /\ clock' = clock + 1
    /\ joining' = [joining EXCEPT ![h] =
                     (@ \ {<<"link", d, p>>})
                       \cup (IF Inherits(h, p) THEN {<<"admit", d, p>>} ELSE {})]
    /\ UNCHANGED <<persona, live, roles, merging, mints, wanted>>

(* add_member overwrites the role the device had. *)
Admit(h, d, p) ==
    /\ <<"admit", d, p>> \in joining[h]
    /\ roles' = [roles EXCEPT ![h][d] = "member"]
    /\ joining' = [joining EXCEPT ![h] = @ \ {<<"admit", d, p>>}]
    /\ UNCHANGED <<persona, device, live, merging, clock, mints, wanted>>

(* A persona keeps its last device, as this hub sees it. *)
Unlink(h, d, target) ==
    /\ Serves(h, d)
    /\ \E p \in PersonaOf(h, d) :
         /\ target \in DevicesOf(h, p)
         /\ Cardinality(DevicesOf(h, p)) # 1
    /\ device' = [device EXCEPT ![h][target].removed = clock + 1]
    /\ clock' = clock + 1
    /\ UNCHANGED <<persona, live, roles, joining, merging, mints, wanted>>

-----------------------------------------------------------------------------
(* The merge. *)

(* snapshot reads the two tables of the peer one after the other. *)
FetchPersonas(h, k) ==
    /\ h # k
    /\ stage[h] = "idle"
    /\ from' = [from EXCEPT ![h] = k]
    /\ rows' = [rows EXCEPT ![h] =
                  {[id |-> p, row |-> persona[k][p]] : p \in {q \in Personas : Known(k, q)}}]
    /\ stage' = [stage EXCEPT ![h] = "fetch"]
    /\ UNCHANGED <<tables, joining, links, inhand, clearing, clock, mints, wanted>>

FetchDevices(h) ==
    /\ stage[h] = "fetch"
    /\ links' = [links EXCEPT ![h] =
                   {[id |-> d, row |-> device[from[h]][d]] :
                      d \in {e \in Devices : device[from[h]][e].added > 0}}]
    /\ from' = [from EXCEPT ![h] = h]
    /\ stage' = [stage EXCEPT ![h] = "rows"]
    /\ UNCHANGED <<tables, joining, rows, inhand, clearing, clock, mints, wanted>>

Newer(remote, mine) ==
    \/ remote.rev > mine.rev
    \/ remote.rev = mine.rev /\ remote.updated > mine.updated

wins(c1, p1, c2, p2) == c1 < c2 \/ (c1 = c2 /\ p1 < p2)

(* ORDER BY name IS NULL, name *)
Before(x, y) ==
    /\ x.row.name # NoName
    /\ y.row.name = NoName \/ x.row.name < y.row.name

First(S) == {x \in S : \A y \in S : ~ Before(y, x)}

(* Faulty: whoever holds the name here keeps it. *)
MutHolderKeepsName(h) ==
    /\ stage[h] = "rows"
    /\ \E x \in First(rows[h]) :
         LET others == Holders(h, x.row.name) \ {x.id}
         IN  /\ rows' = [rows EXCEPT ![h] = @ \ {x}]
             /\ IF ~ Newer(x.row, persona[h][x.id])
                THEN UNCHANGED <<stage, inhand, clearing>>
                ELSE /\ inhand' = [inhand EXCEPT ![h] =
                          IF others # {} THEN {[x EXCEPT !.row.name = NoName]} ELSE {x}]
                     /\ clearing' = [clearing EXCEPT ![h] = {}]
                     /\ stage' = [stage EXCEPT ![h] = "write"]
    /\ UNCHANGED <<tables, joining, from, links, clock, mints, wanted>>

(* A fetched persona is passed over unless it is newer than the row here.  *)
(* Where another persona holds its name, the earlier claim decides which   *)
(* of the two goes without.                                                *)
TakePersona(h) ==
    /\ stage[h] = "rows"
    /\ \E x \in First(rows[h]) :
         LET others == Holders(h, x.row.name) \ {x.id}
             lost == \E q \in others : wins(persona[h][q].claimed, q, x.row.claimed, x.id)
         IN  /\ rows' = [rows EXCEPT ![h] = @ \ {x}]
             /\ IF ~ Newer(x.row, persona[h][x.id])
                THEN UNCHANGED <<stage, inhand, clearing>>
                ELSE /\ inhand' = [inhand EXCEPT ![h] =
                                     IF lost THEN {[x EXCEPT !.row.name = NoName]} ELSE {x}]
                     /\ clearing' = [clearing EXCEPT ![h] = IF lost THEN {} ELSE others]
                     /\ stage' = [stage EXCEPT ![h] =
                                    IF clearing'[h] = {} THEN "write" ELSE "clear"]
    /\ UNCHANGED <<tables, joining, from, links, clock, mints, wanted>>

(* Faulty: the name is taken from the persona that is about to get it. *)
MutClearArriving(h) ==
    /\ stage[h] = "clear"
    /\ clock < MaxTime
    /\ persona' = [persona EXCEPT ![h] = [p \in Personas |->
                     IF \E x \in inhand[h] : x.id = p /\ Known(h, p)
                     THEN Renamed(persona[h][p], NoName) ELSE persona[h][p]]]
    /\ clock' = clock + 1
    /\ clearing' = [clearing EXCEPT ![h] = {}]
    /\ stage' = [stage EXCEPT ![h] = "write"]
    /\ UNCHANGED <<device, live, roles, joining, from, rows, links, inhand, mints, wanted>>

(* The release of the name is a change of this hub's own. *)
ClearName(h) ==
    /\ stage[h] = "clear"
    /\ clock < MaxTime
    /\ persona' = [persona EXCEPT ![h] = [p \in Personas |->
                     IF p \in clearing[h] THEN Renamed(persona[h][p], NoName)
                                          ELSE persona[h][p]]]
    /\ clock' = clock + 1
    /\ clearing' = [clearing EXCEPT ![h] = {}]
    /\ stage' = [stage EXCEPT ![h] = "write"]
    /\ UNCHANGED <<device, live, roles, joining, from, rows, links, inhand, mints, wanted>>

(* Faulty: what was left of an abandoned merge stays for the next. *)
MutRestKeepsLinks(h) ==
    /\ stage' = [stage EXCEPT ![h] = "idle"]
    /\ rows' = [rows EXCEPT ![h] = {}]
    /\ inhand' = [inhand EXCEPT ![h] = {}]
    /\ clearing' = [clearing EXCEPT ![h] = {}]
    /\ from' = [from EXCEPT ![h] = h]
    /\ UNCHANGED links

Rest(h) ==
    /\ stage' = [stage EXCEPT ![h] = "idle"]
    /\ rows' = [rows EXCEPT ![h] = {}]
    /\ links' = [links EXCEPT ![h] = {}]
    /\ inhand' = [inhand EXCEPT ![h] = {}]
    /\ clearing' = [clearing EXCEPT ![h] = {}]
    /\ from' = [from EXCEPT ![h] = h]

(* The unique index refuses a name that was claimed here in the meantime,  *)
(* which ends the merge.                                                   *)
WritePersona(h) ==
    /\ stage[h] = "write"
    /\ \E x \in inhand[h] :
           IF Holders(h, x.row.name) \ {x.id} # {}
           THEN Rest(h) /\ UNCHANGED persona
           ELSE /\ persona' = [persona EXCEPT ![h][x.id] = x.row]
                /\ stage' = [stage EXCEPT ![h] = "rows"]
                /\ inhand' = [inhand EXCEPT ![h] = {}]
                /\ UNCHANGED <<from, rows, links, clearing>>
    /\ UNCHANGED <<device, live, roles, joining, clock, mints, wanted>>

(* Faulty: a tombstone is as old as the link it ends. *)
MutVersionOfLink(row) == row.added

Version(row) == IF row.added >= row.removed THEN row.added ELSE row.removed

(* Faulty: devices arrive before their personas. *)
MutTakeAnyDevice(h) ==
    /\ stage[h] = "rows" /\ rows[h] = {}
    /\ \E x \in links[h] :
         /\ links' = [links EXCEPT ![h] = @ \ {x}]
         /\ IF Version(x.row) > Version(device[h][x.id])
            THEN inhand' = [inhand EXCEPT ![h] = {x}] /\ stage' = [stage EXCEPT ![h] = "attach"]
            ELSE UNCHANGED <<inhand, stage>>
    /\ UNCHANGED <<tables, joining, from, rows, clearing, clock, mints, wanted>>

(* Faulty: the row here is not asked. *)
MutTakeOlderDevice(h) ==
    /\ stage[h] = "rows" /\ rows[h] = {}
    /\ \E x \in links[h] :
         /\ links' = [links EXCEPT ![h] = @ \ {x}]
         /\ IF Known(h, x.row.persona)
            THEN inhand' = [inhand EXCEPT ![h] = {x}] /\ stage' = [stage EXCEPT ![h] = "attach"]
            ELSE UNCHANGED <<inhand, stage>>
    /\ UNCHANGED <<tables, joining, from, rows, clearing, clock, mints, wanted>>

(* A device of a persona this hub has not heard of waits for a later round. *)
TakeDevice(h) ==
    /\ stage[h] = "rows" /\ rows[h] = {}
    /\ \E x \in links[h] :
         /\ links' = [links EXCEPT ![h] = @ \ {x}]
         /\ IF Known(h, x.row.persona) /\ Version(x.row) > Version(device[h][x.id])
            THEN inhand' = [inhand EXCEPT ![h] = {x}] /\ stage' = [stage EXCEPT ![h] = "attach"]
            ELSE UNCHANGED <<inhand, stage>>
    /\ UNCHANGED <<tables, joining, from, rows, clearing, clock, mints, wanted>>

AttachDevice(h) ==
    /\ stage[h] = "attach"
    /\ \E x \in inhand[h] : device' = [device EXCEPT ![h][x.id] = x.row]
    /\ stage' = [stage EXCEPT ![h] = "rows"]
    /\ inhand' = [inhand EXCEPT ![h] = {}]
    /\ UNCHANGED <<persona, live, roles, joining, from, rows, links, clearing, clock, mints, wanted>>

Merged(h) ==
    /\ stage[h] = "rows" /\ rows[h] = {} /\ links[h] = {}
    /\ Rest(h)
    /\ UNCHANGED <<tables, joining, clock, mints, wanted>>

(* The peer does not answer, or the merge raises. *)
MergeRaises(h) ==
    /\ stage[h] # "idle"
    /\ Rest(h)
    /\ UNCHANGED <<tables, joining, clock, mints, wanted>>

(* A killed hub loses what its threads were doing. *)
Restart(h) ==
    /\ stage[h] # "idle" \/ joining[h] # {}
    /\ Rest(h)
    /\ joining' = [joining EXCEPT ![h] = {}]
    /\ UNCHANGED <<tables, clock, mints, wanted>>

-----------------------------------------------------------------------------
Merge(h) ==
    \/ FetchDevices(h) \/ TakePersona(h) \/ ClearName(h) \/ WritePersona(h)
    \/ TakeDevice(h) \/ AttachDevice(h) \/ Merged(h)

Command(h) ==
    \/ \E d \in Devices, n \in Names \cup {NoName} : NewPersona(h, d, n)
    \/ \E d \in Devices, n \in Names : Rename(h, d, n)
    \/ \E d \in Devices : MintCode(h, d)
    \/ \E d \in Devices, p \in Personas : Spend(h, d, p) \/ Link(h, d, p) \/ Admit(h, d, p)
    \/ \E p \in Personas : Expire(h, p)
    \/ \E d, target \in Devices : Unlink(h, d, target)

Failure(h) == MergeRaises(h) \/ Restart(h)

Next ==
    \E h \in Hubs :
        \/ Command(h) \/ Merge(h) \/ Failure(h)
        \/ \E k \in Hubs : FetchPersonas(h, k)

Spec == Init /\ [][Next]_vars

(* Rounds with each peer go on, a merge is carried through, and failures   *)
(* end.  Members owe nothing.                                              *)
Fairness ==
    /\ \A h \in Hubs : WF_vars(Merge(h))
    /\ \A h, k \in Hubs : SF_vars(FetchPersonas(h, k))
    /\ <>[][\A h \in Hubs : Failure(h) => Merge(h)]_vars

FairSpec == Spec /\ Fairness

-----------------------------------------------------------------------------
(* Properties. *)

(* No hub has anything to learn from another. *)
NothingNew ==
    \A h, k \in Hubs :
        /\ \A p \in Personas : ~ Newer(persona[k][p], persona[h][p])
        /\ \A d \in Devices :
             device[k][d].added > 0 /\ Known(h, device[k][d].persona) =>
                 Version(device[k][d]) <= Version(device[h][d])

Settled ==
    /\ \A h \in Hubs : stage[h] = "idle" /\ joining[h] = {}
    /\ NothingNew

(* A device that is linked belongs to a persona its hub knows.             *)
DevicesResolve ==
    \A h \in Hubs, d \in Devices : Linked(h, d) => Known(h, device[h][d].persona)

(* However links, unlinks and merges interleave, hubs with nothing left to *)
(* tell each other agree on every device, tombstones included: none hands  *)
(* a device back and forth (personas.py:205-207).                          *)
SettledHubsAgreeOnDevices ==
    Settled => \A h, k \in Hubs : device[h] = device[k]

(* The merge of the hub is about to write a row over a later one. *)
Threatened(h, d) ==
    stage[h] = "attach" /\ \E x \in inhand[h] :
        x.id = d /\ Version(x.row) < Version(device[h][d])

(* A device that was unlinked is linked again by a later link alone,       *)
(* whatever older rows other hubs still hand on (README.md:295, a          *)
(* tombstone is why an unlink sticks).  The one way to lose an unlink is   *)
(* that it comes between the two transactions in which a merge compares a  *)
(* row and writes it (personas.py:275, 277): no merge takes an older row.  *)
UnlinksStick ==
    [][\A h \in Hubs, d \in Devices :
        /\ device[h][d].removed > 0 /\ Linked(h, d)' =>
             Threatened(h, d) \/ device'[h][d].added > device[h][d].removed
        /\ Threatened(h, d)' => Threatened(h, d) \/ device'[h][d] # device[h][d]]_vars

FirstWith(n) ==
    {p \in Personas :
        /\ wanted[p] = n
        /\ \A q \in Personas \ {p} : wanted[q] = n =>
             \E h \in Hubs : Known(h, p) /\ Known(h, q)
                 /\ wins(persona[h][p].claimed, p, persona[h][q].claimed, q)}

(* As long as nobody changes a name, a name that several hubs gave out     *)
(* ends up with the earliest claim on every hub (personas.py:13-16).       *)
SettledNamesGoToTheFirst ==
    ~ Renaming /\ Settled => \A h \in Hubs, n \in Names : Holders(h, n) = FirstWith(n)

(* The merges come to rest once members do: no two hubs go on taking names *)
(* from each other's personas (personas.py:205-207).                       *)
MeshComesToRest == <>[]NothingNew

(* README.md:297: every hub computes the same holder of a name from the    *)
(* rows, so the mesh converges, whoever changed names in between.          *)
SettledHubsAgreeOnNames ==
    Settled => \A h, k \in Hubs, n \in Names : Holders(h, n) = Holders(k, n)
=============================================================================
