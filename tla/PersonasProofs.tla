--------------------------- MODULE PersonasProofs ---------------------------
(***************************************************************************)
(* Types, known personas, agreement on devices and unlinks that stick, for *)
(* any number of hubs, devices and personas.  The invariant is TypeOK, Resolved, Stamped and   *)
(* Tracked; the conjuncts are kept in this order, each with the help of    *)
(* those before it.                                                        *)
(***************************************************************************)
EXTENDS Personas, TLAPS

(* The device rows a merge has in hand or ahead of it. *)
Carried(h) == links[h] \cup (IF stage[h] = "attach" THEN inhand[h] ELSE {})

(* Wherever a persona is mentioned on a hub, the hub knows it. *)
Resolved ==
    \A h \in Hubs :
        /\ \A p \in live[h] : Known(h, p)
        /\ \A j \in joining[h] : Known(h, j[3])
        /\ \A d \in Devices : device[h][d].added > 0 =>
             device[h][d].persona \in Personas /\ Known(h, device[h][d].persona)
        /\ \A x \in rows[h] : x.row.rev > 0
        /\ \A x \in links[h] : x.row.persona \in Personas
        /\ stage[h] \in {"clear", "write"} => \A x \in inhand[h] : x.row.rev > 0
        /\ stage[h] = "attach" => \A x \in inhand[h] :
             x.row.persona \in Personas /\ Known(h, x.row.persona)

(* The rows of a device, in tables and on the way. *)
IsCopy(d, r) ==
    \/ \E h \in Hubs : r = device[h][d]
    \/ \E h \in Hubs : \E x \in Carried(h) : x.id = d /\ x.row = r

NoDevice == [persona |-> 0, added |-> 0, removed |-> 0]

(* No two changes of a device carry the same version, so rows of equal     *)
(* version are equal.                                                      *)
Stamped ==
    \A d \in Devices : \A r \in DeviceRows : IsCopy(d, r) =>
        /\ Version(r) <= clock
        /\ r.added = 0 => r = NoDevice
        /\ \A s \in DeviceRows : IsCopy(d, s) /\ Version(s) = Version(r) => s = r

(* Devices on the way are linked, or were, somewhere. *)
Tracked ==
    \A h \in Hubs : \A x \in Carried(h) :
        x.row.added > 0 /\ \E k \in Hubs : device[k][x.id].added > 0

-----------------------------------------------------------------------------
(* The types. *)

(* Rows stay rows when their fields change. *)
LEMMA RenamedRow ==
    ASSUME NEW r \in PersonaRows, NEW n \in Names \cup {NoName}, clock + 1 \in 0..MaxTime
    PROVE  Renamed(r, n) \in PersonaRows
BY DEF PersonaRows, Renamed

LEMMA EditedDevice ==
    ASSUME NEW r \in DeviceRows, NEW t \in 0..MaxTime
    PROVE  [r EXCEPT !.removed = t] \in DeviceRows
BY DEF DeviceRows

(* Each step keeps the types. *)
LEMMA TypeStep ==
    ASSUME TypeOK, [Next]_vars
    PROVE  TypeOK'
<1> USE OrdersAssumption, RolesAssumption, BoundsAssumption
<1> USE DEF Stages, tables, merging
<1>0. /\ clock \in Nat /\ \A t \in Nat : t < MaxTime => t + 1 \in 0..MaxTime
      /\ \A h \in Hubs, p \in Personas : persona[h][p] \in PersonaRows
      /\ \A h \in Hubs, d \in Devices : device[h][d] \in DeviceRows
      /\ \A x \in FetchedRows : x.id \in Personas /\ x.row \in PersonaRows
      /\ \A x \in FetchedLinks : x.id \in Devices /\ x.row \in DeviceRows
  BY DEF TypeOK, FetchedRows, FetchedLinks
<1>1. ASSUME NEW h \in Hubs, NEW d \in Devices, NEW n \in Names \cup {NoName}, NewPersona(h, d, n)
      PROVE  TypeOK'
  <2>1. PICK p \in Personas, now \in {clock, clock + 1} :
          /\ persona' = [persona EXCEPT ![h][p] =
                          [name |-> n, claimed |-> now, rev |-> 1, updated |-> now]]
          /\ device' = [device EXCEPT ![h][d] = [persona |-> p, added |-> now, removed |-> 0]]
          /\ wanted' = [wanted EXCEPT ![p] = n]
          /\ clock' = now
    BY <1>1 DEF TypeOK, NewPersona
  <2>2. clock < MaxTime /\ now \in 0..MaxTime
    BY <1>1, <1>0 DEF TypeOK, NewPersona, Serves
  <2>3. [name |-> n, claimed |-> now, rev |-> 1, updated |-> now] \in PersonaRows
    BY <2>2 DEF PersonaRows
  <2>4. [persona |-> p, added |-> now, removed |-> 0] \in DeviceRows
    BY <2>2 DEF DeviceRows
  <2> QED
    BY <1>1, <2>1, <2>2, <2>3, <2>4 DEF TypeOK, NewPersona
<1>2. ASSUME NEW h \in Hubs, NEW d \in Devices, NEW n \in Names, Rename(h, d, n) PROVE TypeOK'
  <2>1. PICK p \in Personas :
          persona' = [persona EXCEPT ![h][p] = Renamed(persona[h][p], n)]
    BY <1>2 DEF TypeOK, Rename, PersonaOf
  <2>2. clock + 1 \in 0..MaxTime
    BY <1>2, <1>0 DEF TypeOK, Rename, Serves
  <2>3. Renamed(persona[h][p], n) \in PersonaRows
    BY <1>0, <2>2, RenamedRow
  <2> QED
    BY <1>2, <2>1, <2>2, <2>3 DEF TypeOK, Rename
<1>3. ASSUME NEW h \in Hubs, NEW d \in Devices, MintCode(h, d) PROVE TypeOK'
  BY <1>3 DEF TypeOK, MintCode, PersonaOf
<1>4. ASSUME NEW h \in Hubs, NEW d \in Devices, NEW p \in Personas, Spend(h, d, p)
      PROVE TypeOK'
  BY <1>4 DEF TypeOK, Spend
<1>5. ASSUME NEW h \in Hubs, NEW d \in Devices, NEW p \in Personas, Link(h, d, p) PROVE TypeOK'
  <2>1. clock + 1 \in 0..MaxTime
    BY <1>5, <1>0 DEF TypeOK, Link
  <2>2. [persona |-> p, added |-> clock + 1, removed |-> 0] \in DeviceRows
    BY <2>1 DEF DeviceRows
  <2> QED
    BY <1>5, <2>1, <2>2 DEF TypeOK, Link
<1>6. ASSUME NEW h \in Hubs, NEW d \in Devices, NEW p \in Personas, Admit(h, d, p)
      PROVE TypeOK'
  BY <1>6 DEF TypeOK, Admit
<1>7. ASSUME NEW h \in Hubs, NEW p \in Personas, Expire(h, p) PROVE TypeOK'
  BY <1>7 DEF TypeOK, Expire
<1>8. ASSUME NEW h \in Hubs, NEW d \in Devices, NEW target \in Devices, Unlink(h, d, target)
      PROVE TypeOK'
  <2>1. clock + 1 \in 0..MaxTime
    BY <1>8, <1>0 DEF TypeOK, Unlink, Serves
  <2>2. [device[h][target] EXCEPT !.removed = clock + 1] \in DeviceRows
    BY <1>0, <2>1, EditedDevice
  <2> QED
    BY <1>8, <2>1, <2>2 DEF TypeOK, Unlink
<1>9. ASSUME NEW h \in Hubs, NEW k \in Hubs, FetchPersonas(h, k) PROVE TypeOK'
  BY <1>9, <1>0 DEF TypeOK, FetchPersonas, FetchedRows
<1>10. ASSUME NEW h \in Hubs, FetchDevices(h) PROVE TypeOK'
  <2>1. from[h] \in Hubs
    BY DEF TypeOK
  <2>2. links'[h] \subseteq FetchedLinks
    BY <1>10, <1>0, <2>1 DEF TypeOK, FetchDevices, FetchedLinks
  <2> QED
    BY <1>10, <2>2 DEF TypeOK, FetchDevices
<1>11. ASSUME NEW h \in Hubs, TakePersona(h) PROVE TypeOK'
  <2>1. PICK x \in First(rows[h]) :
          /\ rows' = [rows EXCEPT ![h] = @ \ {x}]
          /\ \/ UNCHANGED <<stage, inhand, clearing>>
             \/ /\ \/ inhand' = [inhand EXCEPT ![h] = {[x EXCEPT !.row.name = NoName]}]
                   \/ inhand' = [inhand EXCEPT ![h] = {x}]
                /\ \/ clearing' = [clearing EXCEPT ![h] = {}]
                   \/ clearing' = [clearing EXCEPT ![h] = Holders(h, x.row.name) \ {x.id}]
                /\ \/ stage' = [stage EXCEPT ![h] = "write"]
                   \/ stage' = [stage EXCEPT ![h] = "clear"]
    BY <1>11, Zenon DEF TypeOK, TakePersona
  <2>2. x \in FetchedRows
    BY DEF TypeOK, First
  <2>3. [x EXCEPT !.row.name = NoName] \in FetchedRows
    BY <2>2, <1>0 DEF FetchedRows, PersonaRows
  <2>4. Holders(h, x.row.name) \ {x.id} \in SUBSET Personas
    BY DEF Holders
  <2>5. stage[h] = "rows"
    BY <1>11 DEF TypeOK, TakePersona
  <2>6. rows'[h] \subseteq rows[h] /\ rows' \in [Hubs -> SUBSET FetchedRows]
        /\ \A g \in Hubs : g # h => rows'[g] = rows[g]
    BY <2>1 DEF TypeOK
  <2>7. clearing' \in [Hubs -> SUBSET Personas]
    <3> DEFINE others == Holders(h, x.row.name) \ {x.id}
    <3>1. \/ UNCHANGED clearing
          \/ clearing' = [clearing EXCEPT ![h] = {}]
          \/ clearing' = [clearing EXCEPT ![h] = others]
      BY <2>1
    <3>2. others \in SUBSET Personas /\ {} \in SUBSET Personas
      BY <2>4
    <3>3. clearing \in [Hubs -> SUBSET Personas]
      BY DEF TypeOK
    <3> HIDE DEF others
    <3> QED
      BY <3>1, <3>2, <3>3
  <2>8. CASE UNCHANGED <<stage, inhand, clearing>>
    BY <1>11, <2>6, <2>7, <2>8 DEF TypeOK, TakePersona
  <2>9. CASE \E y \in FetchedRows, t \in {"write", "clear"} :
                inhand' = [inhand EXCEPT ![h] = {y}] /\ stage' = [stage EXCEPT ![h] = t]
    <3>1. PICK y \in FetchedRows, t \in {"write", "clear"} :
                inhand' = [inhand EXCEPT ![h] = {y}] /\ stage' = [stage EXCEPT ![h] = t]
      BY <2>9
    <3>2. /\ inhand' \in [Hubs -> SUBSET (FetchedRows \cup FetchedLinks)]
          /\ stage' \in [Hubs -> Stages]
      BY <3>1 DEF TypeOK
    <3>3. \A g \in Hubs :
         /\ inhand'[g] \subseteq IF stage'[g] = "attach" THEN FetchedLinks ELSE FetchedRows
         /\ inhand'[g] = {} <=> stage'[g] \in {"idle", "fetch", "rows"}
         /\ stage'[g] = "idle" => rows'[g] = {} /\ links[g] = {}
      BY <3>1, <2>6 DEF TypeOK
    <3> QED
      BY <1>11, <2>6, <2>7, <3>2, <3>3 DEF TypeOK, TakePersona
  <2> QED
    BY <2>1, <2>2, <2>3, <2>8, <2>9
<1>12. ASSUME NEW h \in Hubs, ClearName(h) PROVE TypeOK'
  <2>1. clock + 1 \in 0..MaxTime
    BY <1>12, <1>0 DEF TypeOK, ClearName
  <2>2. ASSUME NEW p \in Personas
        PROVE  Renamed(persona[h][p], NoName) \in PersonaRows
    BY <1>0, <2>1, RenamedRow
  <2>3. persona' \in [Hubs -> [Personas -> PersonaRows]]
    BY <1>12, <1>0, <2>2 DEF TypeOK, ClearName
  <2> QED
    BY <1>12, <2>1, <2>3 DEF TypeOK, ClearName
<1>13. ASSUME NEW h \in Hubs, WritePersona(h) PROVE TypeOK'
  <2>1. PICK x \in inhand[h] :
          \/ Rest(h) /\ UNCHANGED persona
          \/ /\ persona' = [persona EXCEPT ![h][x.id] = x.row]
             /\ stage' = [stage EXCEPT ![h] = "rows"]
             /\ inhand' = [inhand EXCEPT ![h] = {}]
             /\ UNCHANGED <<from, rows, links, clearing>>
    BY <1>13 DEF TypeOK, WritePersona
  <2>2. x.id \in Personas /\ x.row \in PersonaRows
    BY <1>13, <1>0 DEF TypeOK, WritePersona
  <2>3. CASE Rest(h) /\ UNCHANGED persona
    BY <1>13, <2>3 DEF TypeOK, WritePersona, Rest
  <2>4. CASE /\ persona' = [persona EXCEPT ![h][x.id] = x.row]
             /\ stage' = [stage EXCEPT ![h] = "rows"]
             /\ inhand' = [inhand EXCEPT ![h] = {}]
             /\ UNCHANGED <<from, rows, links, clearing>>
    <3>1. persona' \in [Hubs -> [Personas -> PersonaRows]]
      BY <2>2, <2>4 DEF TypeOK
    <3> QED
      BY <1>13, <2>4, <3>1 DEF TypeOK, WritePersona
  <2> QED
    BY <2>1, <2>3, <2>4
<1>14. ASSUME NEW h \in Hubs, TakeDevice(h) PROVE TypeOK'
  <2>1. stage[h] = "rows"
    BY <1>14 DEF TypeOK, TakeDevice
  <2>2. PICK x \in links[h] :
          /\ links' = [links EXCEPT ![h] = @ \ {x}]
          /\ \/ inhand' = [inhand EXCEPT ![h] = {x}] /\ stage' = [stage EXCEPT ![h] = "attach"]
             \/ UNCHANGED <<inhand, stage>>
    BY <1>14 DEF TypeOK, TakeDevice
  <2>3. x \in FetchedLinks
    BY DEF TypeOK
  <2>4. links' \in [Hubs -> SUBSET FetchedLinks] /\ \A g \in Hubs : links'[g] \subseteq links[g]
    BY <2>2 DEF TypeOK
  <2>5. CASE UNCHANGED <<inhand, stage>>
    BY <1>14, <2>4, <2>5 DEF TypeOK, TakeDevice
  <2>6. CASE inhand' = [inhand EXCEPT ![h] = {x}] /\ stage' = [stage EXCEPT ![h] = "attach"]
    <3>1. \A g \in Hubs :
         /\ inhand'[g] \subseteq IF stage'[g] = "attach" THEN FetchedLinks ELSE FetchedRows
         /\ inhand'[g] = {} <=> stage'[g] \in {"idle", "fetch", "rows"}
         /\ stage'[g] = "idle" => rows[g] = {} /\ links'[g] = {}
      BY <2>1, <2>3, <2>4, <2>6 DEF TypeOK
    <3>2. /\ inhand' \in [Hubs -> SUBSET (FetchedRows \cup FetchedLinks)]
          /\ stage' \in [Hubs -> Stages]
      BY <2>3, <2>6 DEF TypeOK
    <3> QED
      BY <1>14, <2>4, <3>1, <3>2 DEF TypeOK, TakeDevice
  <2> QED
    BY <2>2, <2>5, <2>6
<1>15. ASSUME NEW h \in Hubs, AttachDevice(h) PROVE TypeOK'
  <2>1. PICK x \in inhand[h] : device' = [device EXCEPT ![h][x.id] = x.row]
    BY <1>15 DEF TypeOK, AttachDevice
  <2>2. x.id \in Devices /\ x.row \in DeviceRows
    BY <1>15, <1>0 DEF TypeOK, AttachDevice
  <2> QED
    BY <1>15, <2>1, <2>2 DEF TypeOK, AttachDevice
<1>16. ASSUME NEW h \in Hubs, Merged(h) PROVE TypeOK'
  BY <1>16 DEF TypeOK, Merged, Rest
<1>17. ASSUME NEW h \in Hubs, MergeRaises(h) PROVE TypeOK'
  BY <1>17 DEF TypeOK, MergeRaises, Rest
<1>18. ASSUME NEW h \in Hubs, Restart(h) PROVE TypeOK'
  BY <1>18 DEF TypeOK, Restart, Rest
<1>19. CASE UNCHANGED vars
  BY <1>19 DEF TypeOK, vars
<1> QED
  BY <1>1, <1>2, <1>3, <1>4, <1>5, <1>6, <1>7, <1>8, <1>9, <1>10, <1>11, <1>12,
     <1>13, <1>14, <1>15, <1>16, <1>17, <1>18, <1>19
  DEF Next, Command, Merge, Failure

(* A hub starts with empty tables. *)
LEMMA TypeInit == Init => TypeOK
<1> SUFFICES ASSUME Init PROVE TypeOK
  OBVIOUS
<1>1. NoPersona \in PersonaRows /\ [persona |-> 0, added |-> 0, removed |-> 0] \in DeviceRows
  BY BoundsAssumption DEF PersonaRows, DeviceRows, NoPersona
<1>2. /\ persona \in [Hubs -> [Personas -> PersonaRows]]
      /\ device \in [Hubs -> [Devices -> DeviceRows]]
  BY <1>1 DEF Init
<1>3. roles \in [Hubs -> [Devices -> {"none", "member", "banned"}]]
  BY RolesAssumption DEF Init
<1> QED
  BY <1>2, <1>3, BoundsAssumption DEF Init, TypeOK, Stages

(* No step leads out of the types: every table keeps its shape, and a      *)
(* merge never holds rows of one kind where it expects the other.          *)
THEOREM TypeCorrect == Spec => []TypeOK
<1>1. Init => TypeOK
  BY TypeInit
<1>2. TypeOK /\ [Next]_vars => TypeOK'
  BY TypeStep
<1> QED
  BY <1>1, <1>2, PTL DEF Spec

-----------------------------------------------------------------------------
(* Personas are known where they are mentioned. *)

(* No step makes a hub forget a persona. *)
LEMMA KnownStays ==
    ASSUME TypeOK, Resolved, [Next]_vars,
           NEW h \in Hubs, NEW p \in Personas, Known(h, p)
    PROVE  Known(h, p)'
<1> USE DEF Known, tables, merging
<1>0. /\ persona[h][p] \in PersonaRows /\ persona[h][p].rev \in Nat
      /\ persona \in [Hubs -> [Personas -> PersonaRows]]
  BY DEF TypeOK, PersonaRows
<1>1. ASSUME NEW g \in Hubs, NEW d \in Devices, NEW n \in Names \cup {NoName}, NewPersona(g, d, n)
      PROVE  Known(h, p)'
  BY <1>1, <1>0 DEF NewPersona
<1>2. ASSUME NEW g \in Hubs, NEW d \in Devices, NEW n \in Names, Rename(g, d, n) PROVE Known(h, p)'
  BY <1>2, <1>0 DEF Rename, Renamed, PersonaOf
<1>3. ASSUME NEW g \in Hubs, ClearName(g) PROVE Known(h, p)'
  BY <1>3, <1>0 DEF ClearName, Renamed
<1>4. ASSUME NEW g \in Hubs, WritePersona(g) PROVE Known(h, p)'
  <2>1. PICK x \in inhand[g] : \/ UNCHANGED persona
                               \/ persona' = [persona EXCEPT ![g][x.id] = x.row]
    BY <1>4 DEF WritePersona
  <2>2. x.row.rev > 0
    BY <1>4 DEF WritePersona, Resolved
  <2> QED
    BY <2>1, <2>2, <1>0
<1>5. ASSUME NEW g \in Hubs,
             \/ \E d \in Devices : MintCode(g, d)
             \/ \E d \in Devices, q \in Personas : Spend(g, d, q) \/ Link(g, d, q) \/ Admit(g, d, q)
             \/ \E q \in Personas : Expire(g, q)
             \/ \E d, target \in Devices : Unlink(g, d, target)
             \/ \E k \in Hubs : FetchPersonas(g, k)
             \/ FetchDevices(g) \/ TakePersona(g) \/ TakeDevice(g) \/ AttachDevice(g)
             \/ Merged(g) \/ MergeRaises(g) \/ Restart(g)
      PROVE  Known(h, p)'
  <2>1. persona' = persona
    BY <1>5 DEF MintCode, Spend, Link, Admit, Expire, Unlink, FetchPersonas, FetchDevices,
                TakePersona, TakeDevice, AttachDevice, Merged, MergeRaises, Restart
  <2> QED
    BY <2>1
<1>6. CASE UNCHANGED vars
  BY <1>6 DEF vars
<1> QED
  BY <1>1, <1>2, <1>3, <1>4, <1>5, <1>6
  DEF Next, Command, Merge, Failure

(* Each step keeps them known. *)
LEMMA ResolvedStep ==
    ASSUME TypeOK, Resolved, [Next]_vars
    PROVE  Resolved'
<1> USE DEF tables, merging
<1>0. \A g \in Hubs, q \in Personas : Known(g, q) => Known(g, q)'
  BY KnownStays
<1>t. /\ \A g \in Hubs : /\ live[g] \subseteq Personas
                         /\ \A j \in joining[g] : j[3] \in Personas
                         /\ rows[g] \subseteq FetchedRows /\ links[g] \subseteq FetchedLinks
                         /\ stage[g] \in Stages
      /\ device \in [Hubs -> [Devices -> DeviceRows]]
      /\ persona \in [Hubs -> [Personas -> PersonaRows]]
      /\ DOMAIN live = Hubs /\ DOMAIN joining = Hubs /\ DOMAIN rows = Hubs /\ DOMAIN links = Hubs
      /\ DOMAIN inhand = Hubs /\ DOMAIN stage = Hubs
  BY DEF TypeOK
<1>1. ASSUME NEW h \in Hubs, NEW d \in Devices, NEW n \in Names \cup {NoName}, NewPersona(h, d, n)
      PROVE Resolved'
  <2>1. PICK p \in Personas, now \in {clock, clock + 1} :
          /\ persona' = [persona EXCEPT ![h][p] =
                          [name |-> n, claimed |-> now, rev |-> 1, updated |-> now]]
          /\ device' = [device EXCEPT ![h][d] = [persona |-> p, added |-> now, removed |-> 0]]
    BY <1>1 DEF NewPersona
  <2>2. Known(h, p)'
    BY <2>1, <1>t DEF Known
  <2>3. (\A g \in Hubs, e \in Devices : device[g][e].added > 0 =>
             device[g][e].persona \in Personas /\ Known(g, device[g][e].persona))'
    <3>1. ASSUME NEW g \in Hubs, NEW e \in Devices, device'[g][e].added > 0
          PROVE  device'[g][e].persona \in Personas /\ Known(g, device[g][e].persona)'
      <4>1. CASE g = h /\ e = d
        BY <2>1, <2>2, <1>t, <4>1
      <4>2. CASE ~ (g = h /\ e = d)
        <5>1. device'[g][e] = device[g][e]
          BY <2>1, <1>t, <4>2
        <5> QED
          BY <5>1, <3>1, <1>0 DEF Resolved
      <4> QED
        BY <4>1, <4>2
    <3> QED
      BY <3>1
  <2>4. /\ live' = live /\ joining' = joining /\ rows' = rows
        /\ links' = links /\ stage' = stage /\ inhand' = inhand
    BY <1>1 DEF NewPersona
  <2> QED
    BY <2>3, <2>4, <1>0, <1>t DEF Resolved
<1>2. ASSUME NEW h \in Hubs, NEW d \in Devices, NEW n \in Names, Rename(h, d, n)
      PROVE Resolved'
  BY <1>2, <1>0, <1>t DEF Resolved, Rename
<1>3. ASSUME NEW h \in Hubs, NEW d \in Devices, MintCode(h, d) PROVE Resolved'
  BY <1>3, <1>0, <1>t DEF Resolved, MintCode, PersonaOf, Linked
<1>4. ASSUME NEW h \in Hubs, NEW d \in Devices, NEW p \in Personas, Spend(h, d, p)
      PROVE Resolved'
  BY <1>4, <1>0, <1>t DEF Resolved, Spend
<1>5. ASSUME NEW h \in Hubs, NEW d \in Devices, NEW p \in Personas, Link(h, d, p)
      PROVE Resolved'
  BY <1>5, <1>0, <1>t DEF Resolved, Link
<1>6. ASSUME NEW h \in Hubs, NEW d \in Devices, NEW p \in Personas, Admit(h, d, p)
      PROVE Resolved'
  BY <1>6, <1>0, <1>t DEF Resolved, Admit
<1>7. ASSUME NEW h \in Hubs, NEW p \in Personas, Expire(h, p) PROVE Resolved'
  BY <1>7, <1>0, <1>t DEF Resolved, Expire
<1>8. ASSUME NEW h \in Hubs, NEW d \in Devices, NEW target \in Devices, Unlink(h, d, target)
      PROVE Resolved'
  BY <1>8, <1>0, <1>t DEF Resolved, Unlink, DevicesOf, PersonaOf, Linked
<1>9. ASSUME NEW h \in Hubs, NEW k \in Hubs, FetchPersonas(h, k) PROVE Resolved'
  BY <1>9, <1>0, <1>t DEF Resolved, FetchPersonas, Known
<1>10. ASSUME NEW h \in Hubs, FetchDevices(h) PROVE Resolved'
  <2>1. from[h] \in Hubs
    BY DEF TypeOK
  <2>2. \A x \in links'[h] : x.row.persona \in Personas
    BY <1>10, <1>t, <2>1 DEF Resolved, FetchDevices
  <2>3. \A g \in Hubs : g # h => links'[g] = links[g] /\ stage'[g] = stage[g]
    BY <1>10, <1>t DEF FetchDevices
  <2>4. stage'[h] = "rows"
    BY <1>10, <1>t DEF FetchDevices
  <2>5. UNCHANGED <<live, joining, rows, device, inhand>>
    BY <1>10 DEF FetchDevices
  <2> QED
    BY <2>2, <2>3, <2>4, <2>5, <1>0, <1>t DEF Resolved
<1>11. ASSUME NEW h \in Hubs, TakePersona(h) PROVE Resolved'
  <2>1. PICK x \in First(rows[h]) :
          /\ rows' = [rows EXCEPT ![h] = @ \ {x}]
          /\ \/ UNCHANGED <<stage, inhand, clearing>>
             \/ /\ \/ inhand' = [inhand EXCEPT ![h] = {[x EXCEPT !.row.name = NoName]}]
                   \/ inhand' = [inhand EXCEPT ![h] = {x}]
                /\ \/ stage' = [stage EXCEPT ![h] = "write"]
                   \/ stage' = [stage EXCEPT ![h] = "clear"]
    BY <1>11, Zenon DEF TakePersona
  <2>2. x \in FetchedRows /\ x.row.rev > 0
    BY <1>t DEF First, Resolved
  <2>3. [x EXCEPT !.row.name = NoName].row.rev > 0
    BY <2>2 DEF FetchedRows, PersonaRows
  <2>4. /\ stage[h] = "rows" /\ live' = live
        /\ joining' = joining /\ device' = device /\ links' = links
    BY <1>11 DEF TakePersona
  <2>5. \A g \in Hubs : /\ rows'[g] \subseteq rows[g]
                        /\ g # h => stage'[g] = stage[g] /\ inhand'[g] = inhand[g]
    BY <2>1, <1>t
  <2>6. stage'[h] \in {"clear", "write"} => \A y \in inhand'[h] : y.row.rev > 0
    <3> DEFINE bare == [x EXCEPT !.row.name = NoName]
    <3>1. \/ stage' = stage
          \/ inhand' = [inhand EXCEPT ![h] = {bare}]
          \/ inhand' = [inhand EXCEPT ![h] = {x}]
      BY <2>1
    <3>2. bare.row.rev > 0
      BY <2>3
    <3> HIDE DEF bare
    <3> QED
      BY <3>1, <3>2, <2>2, <2>4, <1>t
  <2>7. stage'[h] # "attach"
    BY <2>1, <2>4, <1>t
  <2>8. \A g \in Hubs : /\ stage'[g] \in {"clear", "write"} => \A y \in inhand'[g] : y.row.rev > 0
                        /\ stage'[g] = "attach" => stage[g] = "attach" /\ inhand'[g] = inhand[g]
    BY <2>5, <2>6, <2>7 DEF Resolved
  <2>9. \A g \in Hubs : \A y \in rows'[g] : y.row.rev > 0
    BY <2>5 DEF Resolved
  <2> QED
    BY <2>4, <2>8, <2>9, <1>0, <1>t DEF Resolved
<1>12. ASSUME NEW h \in Hubs, ClearName(h) PROVE Resolved'
  BY <1>12, <1>0, <1>t DEF Resolved, ClearName
<1>13. ASSUME NEW h \in Hubs, WritePersona(h) PROVE Resolved'
  BY <1>13, <1>0, <1>t DEF Resolved, WritePersona, Rest
<1>14. ASSUME NEW h \in Hubs, TakeDevice(h) PROVE Resolved'
  BY <1>14, <1>0, <1>t DEF Resolved, TakeDevice
<1>15. ASSUME NEW h \in Hubs, AttachDevice(h) PROVE Resolved'
  BY <1>15, <1>0, <1>t DEF Resolved, AttachDevice
<1>16. ASSUME NEW h \in Hubs, Merged(h) PROVE Resolved'
  BY <1>16, <1>0, <1>t DEF Resolved, Merged, Rest
<1>17. ASSUME NEW h \in Hubs, MergeRaises(h) PROVE Resolved'
  BY <1>17, <1>0, <1>t DEF Resolved, MergeRaises, Rest
<1>18. ASSUME NEW h \in Hubs, Restart(h) PROVE Resolved'
  BY <1>18, <1>0, <1>t DEF Resolved, Restart, Rest
<1>19. CASE UNCHANGED vars
  BY <1>19 DEF vars, Resolved, Known
<1> QED
  BY <1>1, <1>2, <1>3, <1>4, <1>5, <1>6, <1>7, <1>8, <1>9, <1>10, <1>11, <1>12,
     <1>13, <1>14, <1>15, <1>16, <1>17, <1>18, <1>19
  DEF Next, Command, Merge, Failure

LEMMA ResolvedInit == Init => Resolved
BY DEF Init, Resolved

(* On every hub, a device that is linked belongs to a persona the hub      *)
(* knows, however merges, joins and restarts interleave.                   *)
THEOREM DevicesAlwaysResolve == Spec => []DevicesResolve
<1>1. Init => TypeOK /\ Resolved
  BY TypeInit, ResolvedInit
<1>2. TypeOK /\ Resolved /\ [Next]_vars => (TypeOK /\ Resolved)'
  BY TypeStep, ResolvedStep
<1>3. Resolved => DevicesResolve
  BY DEF Resolved, DevicesResolve, Linked
<1> QED
  BY <1>1, <1>2, <1>3, PTL DEF Spec

-----------------------------------------------------------------------------
(* Rows of a device. *)

LEMMA VersionType ==
    ASSUME NEW r \in DeviceRows
    PROVE  /\ Version(r) \in Nat
           /\ r.added \in Nat /\ r.removed \in Nat
           /\ r.added <= Version(r) /\ r.removed <= Version(r)
BY BoundsAssumption DEF Version, DeviceRows

(* Where no row of a device is new, none can collide. *)
LEMMA NoNewCopy ==
    ASSUME Stamped, clock \in Nat, clock' \in Nat, clock <= clock',
           \A d \in Devices : \A r \in DeviceRows : IsCopy(d, r)' => IsCopy(d, r)
    PROVE  Stamped'
BY VersionType DEF Stamped

(* Nor can a new row that is younger than all others of its device. *)
LEMMA OneNewCopy ==
    ASSUME Stamped, clock \in Nat, clock' \in Nat, clock <= clock',
           NEW d \in Devices, NEW new \in DeviceRows,
           new.added > 0, Version(new) <= clock',
           \A r \in DeviceRows : IsCopy(d, r) => Version(r) < Version(new),
           \A e \in Devices : \A r \in DeviceRows :
               IsCopy(e, r)' => IsCopy(e, r) \/ (e = d /\ r = new)
    PROVE  Stamped'
<1> SUFFICES ASSUME NEW e \in Devices, NEW r \in DeviceRows, IsCopy(e, r)'
             PROVE  /\ Version(r) <= clock'
                    /\ r.added = 0 => r = NoDevice
                    /\ \A s \in DeviceRows : IsCopy(e, s)' /\ Version(s) = Version(r) => s = r
  BY DEF Stamped, Version, NoDevice
<1>1. Version(r) <= clock' /\ (r.added = 0 => r = NoDevice)
  BY VersionType DEF Stamped
<1>2. ASSUME NEW s \in DeviceRows, IsCopy(e, s)', Version(s) = Version(r)
      PROVE  s = r
  BY <1>2, VersionType DEF Stamped
<1> QED
  BY <1>1, <1>2

(* What holds as long as the rows of devices only go. *)
LEMMA Quiet ==
    ASSUME Stamped, Tracked, clock \in Nat, clock' \in Nat, clock <= clock',
           device' = device, \A g \in Hubs : Carried(g)' \subseteq Carried(g)
    PROVE  Stamped' /\ Tracked'
<1>1. \A d \in Devices : \A r \in DeviceRows : IsCopy(d, r)' => IsCopy(d, r)
  BY DEF IsCopy
<1>2. Stamped'
  BY <1>1, NoNewCopy
<1>3. Tracked'
  BY DEF Tracked
<1> QED
  BY <1>2, <1>3

LEMMA CarriedType ==
    ASSUME TypeOK, NEW h \in Hubs, NEW x \in Carried(h)
    PROVE  x \in FetchedLinks /\ x.id \in Devices /\ x.row \in DeviceRows
BY DEF TypeOK, Carried, FetchedLinks

(* What holds when a device gets a row that is younger than all it had. *)
LEMMA Changed ==
    ASSUME TypeOK, Stamped, Tracked, clock' \in Nat, clock <= clock',
           NEW h \in Hubs, NEW d \in Devices, NEW new \in DeviceRows,
           new.added > 0, Version(new) <= clock',
           device' = [device EXCEPT ![h][d] = new],
           UNCHANGED <<links, inhand, stage>>,
           \A r \in DeviceRows : IsCopy(d, r) => Version(r) < Version(new)
    PROVE  Stamped' /\ Tracked'
<1>1. clock \in Nat /\ device \in [Hubs -> [Devices -> DeviceRows]]
  BY DEF TypeOK
<1>2. \A g \in Hubs : Carried(g)' = Carried(g)
  BY DEF Carried
<1>3. \A e \in Devices : \A r \in DeviceRows :
         IsCopy(e, r)' => IsCopy(e, r) \/ (e = d /\ r = new)
  BY <1>1, <1>2 DEF IsCopy
<1>4. Stamped'
  BY <1>1, <1>3, OneNewCopy
<1>5. \A g \in Hubs, e \in Devices : device[g][e].added > 0 => device'[g][e].added > 0
  BY <1>1
<1>6. Tracked'
  BY <1>2, <1>5, CarriedType DEF Tracked
<1> QED
  BY <1>4, <1>6

(* All rows there are of a device are at most as young as the clock. *)
LEMMA Older ==
    ASSUME TypeOK, Stamped, NEW d \in Devices, NEW r \in DeviceRows, IsCopy(d, r)
    PROVE  Version(r) < clock + 1
BY VersionType DEF Stamped, TypeOK

(* Each step keeps versions apart. *)
LEMMA StampedStep ==
    ASSUME TypeOK, TypeOK', Resolved, Stamped, Tracked, [Next]_vars
    PROVE  Stamped' /\ Tracked'
<1> USE DEF tables, merging
<1>0. clock \in Nat /\ clock' \in Nat /\ clock < clock + 1
  BY DEF TypeOK
<1>t. /\ device \in [Hubs -> [Devices -> DeviceRows]]
      /\ DOMAIN rows = Hubs /\ DOMAIN links = Hubs
      /\ DOMAIN inhand = Hubs /\ DOMAIN stage = Hubs
  BY DEF TypeOK
<1>1. ASSUME NEW h \in Hubs, NEW d \in Devices, NEW n \in Names \cup {NoName}, NewPersona(h, d, n)
      PROVE  Stamped' /\ Tracked'
  <2>1. PICK p \in Personas, now \in {clock, clock + 1} :
          /\ now = clock => clock > 0 /\ \A k \in Hubs : device[k][d].added = 0
          /\ device' = [device EXCEPT ![h][d] = [persona |-> p, added |-> now, removed |-> 0]]
          /\ clock' = now
    BY <1>1 DEF NewPersona
  <2> DEFINE new == [persona |-> p, added |-> now, removed |-> 0]
  <2>2. new \in DeviceRows /\ new.added > 0 /\ Version(new) = now /\ now >= clock /\ now \in Nat
    BY <2>1, <1>0 DEF DeviceRows, Version, TypeOK
  <2>3. ASSUME NEW r \in DeviceRows, IsCopy(d, r) PROVE Version(r) < Version(new)
    <3>1. CASE now = clock
      <4>1. r.added = 0
        BY <2>1, <2>3, <3>1 DEF IsCopy, Tracked
      <4>2. Version(r) = 0
        BY <4>1, <2>3 DEF Stamped, NoDevice, Version
      <4> QED
        BY <4>2, <3>1, <2>1, <2>2
    <3>2. CASE now = clock + 1
      BY <3>2, <2>2, <2>3, Older
    <3> QED
      BY <3>1, <3>2
  <2>4. UNCHANGED <<links, inhand, stage>>
    BY <1>1 DEF NewPersona
  <2>5. device' = [device EXCEPT ![h][d] = new] /\ Version(new) <= clock' /\ clock <= clock'
    BY <2>1, <2>2
  <2> HIDE DEF new
  <2> QED
    BY <2>2, <2>3, <2>4, <2>5, <1>0, Changed
<1>2. ASSUME NEW h \in Hubs, NEW d \in Devices, NEW p \in Personas, Link(h, d, p)
      PROVE  Stamped' /\ Tracked'
  <2> DEFINE new == [persona |-> p, added |-> clock + 1, removed |-> 0]
  <2>1. clock' = clock + 1 /\ device' = [device EXCEPT ![h][d] = new]
        /\ UNCHANGED <<links, inhand, stage>>
    BY <1>2 DEF Link
  <2>2. new \in DeviceRows /\ new.added > 0 /\ Version(new) = clock + 1
    BY <2>1, <1>0 DEF DeviceRows, Version, TypeOK
  <2>3. \A r \in DeviceRows : IsCopy(d, r) => Version(r) < Version(new)
    BY <2>2, Older
  <2>4. clock <= clock' /\ Version(new) <= clock'
    BY <2>1, <2>2, <1>0
  <2> HIDE DEF new
  <2> QED
    BY <2>1, <2>2, <2>3, <2>4, <1>0, Changed
<1>3. ASSUME NEW h \in Hubs, NEW d \in Devices, NEW target \in Devices, Unlink(h, d, target)
      PROVE  Stamped' /\ Tracked'
  <2> DEFINE new == [device[h][target] EXCEPT !.removed = clock + 1]
  <2>1. clock' = clock + 1 /\ device' = [device EXCEPT ![h][target] = new]
        /\ UNCHANGED <<links, inhand, stage>>
    BY <1>3, <1>t DEF Unlink
  <2>2. device[h][target].added > 0 /\ device[h][target] \in DeviceRows
    BY <1>3, <1>t DEF Unlink, DevicesOf, PersonaOf, Linked
  <2>3. Version(device[h][target]) <= clock
    BY <2>2 DEF Stamped, IsCopy
  <2>4. new \in DeviceRows /\ new.added = device[h][target].added /\ new.removed = clock + 1
    BY <2>1, <2>2, EditedDevice DEF TypeOK, DeviceRows
  <2>5. Version(new) = clock + 1
    BY <2>2, <2>3, <2>4, <1>0, VersionType DEF Version
  <2>6. \A r \in DeviceRows : IsCopy(target, r) => Version(r) < Version(new)
    BY <2>5, Older
  <2>7. clock <= clock' /\ Version(new) <= clock' /\ new.added > 0
    BY <2>1, <2>2, <2>4, <2>5, <1>0
  <2> HIDE DEF new
  <2> QED
    BY <2>1, <2>4, <2>6, <2>7, <1>0, Changed
<1>4. ASSUME NEW h \in Hubs, FetchDevices(h)
      PROVE  Stamped' /\ Tracked'
  <2>1. from[h] \in Hubs
    BY DEF TypeOK
  <2>2. \A g \in Hubs : \A x \in Carried(g)' :
          \/ x \in Carried(g)
          \/ x.id \in Devices /\ x.row = device[from[h]][x.id] /\ x.row.added > 0
    BY <1>4, <1>t DEF FetchDevices, Carried
  <2>3. device' = device /\ clock' = clock
    BY <1>4 DEF FetchDevices
  <2>4. \A d \in Devices : \A r \in DeviceRows : IsCopy(d, r)' => IsCopy(d, r)
    BY <2>1, <2>2, <2>3 DEF IsCopy
  <2>5. Stamped'
    BY <2>3, <2>4, <1>0, NoNewCopy
  <2>6. Tracked'
    BY <2>1, <2>2, <2>3 DEF Tracked
  <2> QED
    BY <2>5, <2>6
<1>5. ASSUME NEW h \in Hubs, AttachDevice(h)
      PROVE  Stamped' /\ Tracked'
  <2>1. PICK x \in inhand[h] : device' = [device EXCEPT ![h][x.id] = x.row]
    BY <1>5 DEF AttachDevice
  <2>2. x \in Carried(h) /\ x.id \in Devices /\ x.row \in DeviceRows /\ x.row.added > 0
    BY <1>5, <2>1, CarriedType DEF AttachDevice, Carried, Tracked
  <2>3. \A g \in Hubs : Carried(g)' \subseteq Carried(g)
    BY <1>5, <1>t DEF AttachDevice, Carried
  <2>4. clock' = clock
    BY <1>5 DEF AttachDevice
  <2>5. \A d \in Devices : \A r \in DeviceRows : IsCopy(d, r)' => IsCopy(d, r)
    BY <2>1, <2>2, <2>3, <1>t DEF IsCopy
  <2>6. Stamped'
    BY <2>4, <2>5, <1>0, NoNewCopy
  <2>7. \A g \in Hubs, e \in Devices : device[g][e].added > 0 => device'[g][e].added > 0
    BY <2>1, <2>2, <1>t
  <2>8. Tracked'
    BY <2>3, <2>7, CarriedType DEF Tracked
  <2> QED
    BY <2>6, <2>8
<1>6. ASSUME NEW h \in Hubs, TakeDevice(h)
      PROVE  Stamped' /\ Tracked'
  <2>1. \A g \in Hubs : Carried(g)' \subseteq Carried(g)
    BY <1>6, <1>t DEF TakeDevice, Carried
  <2> QED
    BY <1>6, <2>1, <1>0, Quiet DEF TakeDevice
<1>7. ASSUME NEW h \in Hubs, TakePersona(h)
      PROVE  Stamped' /\ Tracked'
  <2>1. stage[h] = "rows" /\ links' = links /\ device' = device /\ clock' = clock
    BY <1>7 DEF TakePersona
  <2>2. \A g \in Hubs : g # h => stage'[g] = stage[g] /\ inhand'[g] = inhand[g]
    BY <1>7, <1>t DEF TakePersona
  <2>3. stage'[h] # "attach"
    BY <1>7, <1>t DEF TakePersona
  <2>4. \A g \in Hubs : Carried(g)' \subseteq Carried(g)
    BY <2>1, <2>2, <2>3 DEF Carried
  <2> QED
    BY <2>1, <2>4, <1>0, Quiet
<1>8. ASSUME NEW h \in Hubs, WritePersona(h)
      PROVE  Stamped' /\ Tracked'
  <2>1. \A g \in Hubs : Carried(g)' \subseteq Carried(g)
    BY <1>8, <1>t DEF WritePersona, Rest, Carried
  <2> QED
    BY <1>8, <2>1, <1>0, Quiet DEF WritePersona
<1>9. ASSUME NEW h \in Hubs, ClearName(h)
      PROVE  Stamped' /\ Tracked'
  <2>1. \A g \in Hubs : Carried(g)' \subseteq Carried(g)
    BY <1>9, <1>t DEF ClearName, Carried
  <2> QED
    BY <1>9, <2>1, <1>0, Quiet DEF ClearName
<1>10. ASSUME NEW h \in Hubs, Merged(h) \/ MergeRaises(h) \/ Restart(h)
       PROVE  Stamped' /\ Tracked'
  <2>1. \A g \in Hubs : Carried(g)' \subseteq Carried(g)
    BY <1>10, <1>t DEF Merged, MergeRaises, Restart, Rest, Carried
  <2> QED
    BY <1>10, <2>1, <1>0, Quiet DEF Merged, MergeRaises, Restart
<1>11. ASSUME NEW h \in Hubs, NEW k \in Hubs, FetchPersonas(h, k)
       PROVE  Stamped' /\ Tracked'
  <2>1. \A g \in Hubs : Carried(g)' \subseteq Carried(g)
    BY <1>11, <1>t DEF FetchPersonas, Carried
  <2> QED
    BY <1>11, <2>1, <1>0, Quiet DEF FetchPersonas
<1>12. ASSUME NEW h \in Hubs,
              \/ \E d \in Devices, n \in Names : Rename(h, d, n)
              \/ \E d \in Devices : MintCode(h, d)
              \/ \E d \in Devices, p \in Personas : Spend(h, d, p) \/ Admit(h, d, p)
              \/ \E p \in Personas : Expire(h, p)
       PROVE  Stamped' /\ Tracked'
  <2>1. UNCHANGED <<device, links, inhand, stage>> /\ clock <= clock'
    <3>1. ASSUME NEW d \in Devices, NEW n \in Names, Rename(h, d, n)
          PROVE  UNCHANGED <<device, links, inhand, stage>> /\ clock <= clock'
      BY <3>1, <1>0 DEF Rename
    <3>2. ASSUME NEW d \in Devices, MintCode(h, d)
          PROVE  UNCHANGED <<device, links, inhand, stage>> /\ clock <= clock'
      BY <3>2, <1>0 DEF MintCode
    <3>3. ASSUME NEW d \in Devices, NEW p \in Personas, Spend(h, d, p) \/ Admit(h, d, p)
          PROVE  UNCHANGED <<device, links, inhand, stage>> /\ clock <= clock'
      BY <3>3, <1>0 DEF Spend, Admit
    <3>4. ASSUME NEW p \in Personas, Expire(h, p)
          PROVE  UNCHANGED <<device, links, inhand, stage>> /\ clock <= clock'
      BY <3>4, <1>0 DEF Expire
    <3> QED
      BY <1>12, <3>1, <3>2, <3>3, <3>4
  <2>2. \A g \in Hubs : Carried(g)' \subseteq Carried(g)
    BY <2>1 DEF Carried
  <2> QED
    BY <2>1, <2>2, <1>0, Quiet
<1>13. CASE UNCHANGED vars
  <2>1. UNCHANGED <<device, links, inhand, stage, clock>>
    BY <1>13 DEF vars
  <2>2. \A g \in Hubs : Carried(g)' \subseteq Carried(g)
    BY <2>1 DEF Carried
  <2> QED
    BY <2>1, <2>2, <1>0, Quiet
<1> QED
  BY <1>1, <1>2, <1>3, <1>4, <1>5, <1>6, <1>7, <1>8, <1>9, <1>10, <1>11, <1>12, <1>13
  DEF Next, Command, Merge, Failure

LEMMA StampedInit == Init => Stamped /\ Tracked
BY DEF Init, Stamped, Tracked, IsCopy, Carried, Version, NoDevice

(* Hubs that have nothing to tell each other agree on devices.             *)
LEMMA NothingToTell ==
    ASSUME TypeOK, Resolved, Stamped, Settled, NEW h \in Hubs, NEW k \in Hubs
    PROVE  device[h] = device[k]
<1>1. ASSUME NEW i \in Hubs, NEW j \in Hubs, NEW d \in Devices
      PROVE  Version(device[j][d]) <= Version(device[i][d])
  <2>1. device[i][d] \in DeviceRows /\ device[j][d] \in DeviceRows
    BY DEF TypeOK
  <2>2. CASE device[j][d].added = 0
    <3>1. Version(device[j][d]) = 0
      BY <2>1, <2>2 DEF Stamped, IsCopy, NoDevice, Version
    <3> QED
      BY <2>1, <3>1, VersionType
  <2>3. CASE device[j][d].added > 0
    <3> DEFINE p == device[j][d].persona
    <3>1. p \in Personas /\ Known(j, p)
      BY <2>3 DEF Resolved
    <3>2. persona[i][p] \in PersonaRows /\ persona[j][p] \in PersonaRows
      BY <3>1 DEF TypeOK
    <3>3. ~ Newer(persona[j][p], persona[i][p])
      BY <3>1 DEF Settled, NothingNew
    <3>4. Known(i, p)
      BY <3>1, <3>2, <3>3 DEF Known, Newer, PersonaRows
    <3> QED
      BY <2>3, <3>4 DEF Settled, NothingNew
  <2> QED
    BY <2>1, <2>2, <2>3, VersionType
<1>2. ASSUME NEW d \in Devices
      PROVE  device[h][d] = device[k][d]
  <2>1. device[h][d] \in DeviceRows /\ device[k][d] \in DeviceRows
    BY DEF TypeOK
  <2>2. Version(device[h][d]) = Version(device[k][d])
    BY <1>1, <2>1, VersionType
  <2> QED
    BY <2>1, <2>2 DEF Stamped, IsCopy
<1> QED
  BY <1>2 DEF TypeOK

(* However links, unlinks and merges of any number of hubs interleave,     *)
(* hubs with nothing left to tell each other have the same devices.        *)
THEOREM DevicesAgree == Spec => []SettledHubsAgreeOnDevices
<1> DEFINE Inv == TypeOK /\ Resolved /\ Stamped /\ Tracked
<1>1. Init => Inv
  BY TypeInit, ResolvedInit, StampedInit
<1>2. Inv /\ [Next]_vars => Inv'
  BY TypeStep, ResolvedStep, StampedStep
<1>3. Inv => SettledHubsAgreeOnDevices
  BY NothingToTell DEF SettledHubsAgreeOnDevices
<1> QED
  BY <1>1, <1>2, <1>3, PTL DEF Spec
-----------------------------------------------------------------------------
(* Unlinks. *)

(* What UnlinksStick asks of a step. *)
Sticks(h, d) ==
    /\ device[h][d].removed > 0 /\ Linked(h, d)' =>
         Threatened(h, d) \/ device'[h][d].added > device[h][d].removed
    /\ Threatened(h, d)' => Threatened(h, d) \/ device'[h][d] # device[h][d]

(* A step that leaves the devices and takes none in hand. *)
LEMMA Untouched ==
    ASSUME NEW h \in Hubs, NEW d \in Devices, device'[h][d] = device[h][d],
           stage'[h] = "attach" => stage[h] = "attach" /\ inhand'[h] = inhand[h]
    PROVE  Sticks(h, d)
BY DEF Sticks, Linked, Threatened

(* A step that gives a device a row younger than the one it had. *)
LEMMA Overwritten ==
    ASSUME NEW h \in Hubs, NEW d \in Devices, device[h][d] \in DeviceRows,
           NEW new \in DeviceRows, device'[h][d] = new,
           Version(new) > Version(device[h][d])
    PROVE  Sticks(h, d)
<1>1. device'[h][d] # device[h][d]
  BY VersionType
<1>2. ASSUME Linked(h, d)' PROVE new.added > device[h][d].removed
  <2>1. new.added > 0 /\ new.removed = 0
    BY <1>2 DEF Linked
  <2>2. Version(new) = new.added
    BY <2>1, VersionType DEF Version
  <2> QED
    BY <2>2, VersionType
<1> QED
  BY <1>1, <1>2 DEF Sticks

(* No step links a device that was unlinked but by a later link, or by a   *)
(* row that was compared before.                                           *)
LEMMA SticksStep ==
    ASSUME TypeOK, TypeOK', Stamped, Tracked, [Next]_vars,
           NEW h \in Hubs, NEW d \in Devices
    PROVE  Sticks(h, d)
<1> USE DEF tables, merging
<1>0. clock \in Nat /\ device[h][d] \in DeviceRows /\ device'[h][d] \in DeviceRows
      /\ IsCopy(d, device[h][d])
  BY DEF TypeOK, IsCopy
<1>t. /\ device \in [Hubs -> [Devices -> DeviceRows]]
      /\ DOMAIN inhand = Hubs /\ DOMAIN stage = Hubs
  BY DEF TypeOK
<1>v. Version(device[h][d]) < clock + 1
  BY <1>0, Older
<1>1. ASSUME NEW g \in Hubs, NEW e \in Devices, NEW n \in Names \cup {NoName}, NewPersona(g, e, n)
      PROVE  Sticks(h, d)
  <2>1. PICK p \in Personas, now \in {clock, clock + 1} :
          /\ now = clock => clock > 0 /\ \A k \in Hubs : device[k][e].added = 0
          /\ device' = [device EXCEPT ![g][e] = [persona |-> p, added |-> now, removed |-> 0]]
    BY <1>1 DEF NewPersona
  <2>2. UNCHANGED <<inhand, stage>>
    BY <1>1 DEF NewPersona
  <2>3. CASE g = h /\ e = d
    <3> DEFINE new == [persona |-> p, added |-> now, removed |-> 0]
    <3>1. device'[h][d] = new /\ Version(new) = now
      BY <2>1, <2>3, <1>t, <1>0 DEF Version
    <3>2. CASE now = clock
      <4>1. Version(device[h][d]) = 0
        BY <2>1, <2>3, <3>2, <1>0 DEF Stamped, NoDevice, Version
      <4> QED
        BY <4>1, <3>1, <3>2, <2>1, <1>0, Overwritten
    <3>3. CASE now = clock + 1
      BY <3>1, <3>3, <1>v, <1>0, Overwritten
    <3> QED
      BY <3>2, <3>3
  <2>4. CASE ~ (g = h /\ e = d)
    <3>1. device'[h][d] = device[h][d]
      BY <2>1, <2>4, <1>t
    <3> QED
      BY <2>2, <3>1, Untouched
  <2> QED
    BY <2>3, <2>4
<1>2. ASSUME NEW g \in Hubs, NEW e \in Devices, NEW p \in Personas, Link(g, e, p)
      PROVE  Sticks(h, d)
  <2>1. device' = [device EXCEPT ![g][e] = [persona |-> p, added |-> clock + 1, removed |-> 0]]
        /\ UNCHANGED <<inhand, stage>>
    BY <1>2 DEF Link
  <2>2. CASE g = h /\ e = d
    <3> DEFINE new == [persona |-> p, added |-> clock + 1, removed |-> 0]
    <3>1. device'[h][d] = new /\ Version(new) = clock + 1
      BY <2>1, <2>2, <1>t, <1>0 DEF Version
    <3> QED
      BY <3>1, <1>v, <1>0, Overwritten
  <2>3. CASE ~ (g = h /\ e = d)
    <3>1. device'[h][d] = device[h][d]
      BY <2>1, <2>3, <1>t
    <3> QED
      BY <2>1, <3>1, Untouched
  <2> QED
    BY <2>2, <2>3
<1>3. ASSUME NEW g \in Hubs, NEW e \in Devices, NEW target \in Devices, Unlink(g, e, target)
      PROVE  Sticks(h, d)
  <2>1. device' = [device EXCEPT ![g][target].removed = clock + 1] /\ UNCHANGED <<inhand, stage>>
    BY <1>3 DEF Unlink
  <2>2. CASE g = h /\ target = d
    <3>1. device'[h][d].removed = clock + 1
      BY <2>1, <2>2, <1>t DEF DeviceRows
    <3>2. Version(device'[h][d]) > Version(device[h][d])
      BY <3>1, <1>v, <1>0, VersionType
    <3> QED
      BY <3>2, <1>0, Overwritten
  <2>3. CASE ~ (g = h /\ target = d)
    <3>1. device'[h][d] = device[h][d]
      BY <2>1, <2>3, <1>t
    <3> QED
      BY <2>1, <3>1, Untouched
  <2> QED
    BY <2>2, <2>3
<1>4. ASSUME NEW g \in Hubs, TakeDevice(g) PROVE Sticks(h, d)
  <2>1. PICK x \in links[g] :
          \/ /\ Version(x.row) > Version(device[g][x.id])
             /\ inhand' = [inhand EXCEPT ![g] = {x}]
             /\ stage' = [stage EXCEPT ![g] = "attach"]
          \/ UNCHANGED <<inhand, stage>>
    BY <1>4 DEF TakeDevice
  <2>2. device' = device
    BY <1>4 DEF TakeDevice
  <2>3. x \in Carried(g) /\ x.row \in DeviceRows
    BY CarriedType DEF Carried
  <2>4. CASE UNCHANGED <<inhand, stage>>
    BY <2>2, <2>4, Untouched
  <2>5. CASE /\ Version(x.row) > Version(device[g][x.id])
             /\ inhand' = [inhand EXCEPT ![g] = {x}]
             /\ stage' = [stage EXCEPT ![g] = "attach"]
    <3>1. CASE g = h
      <4>1. ASSUME Threatened(h, d)' PROVE FALSE
        <5>1. inhand'[h] = {x}
          BY <2>5, <3>1, <1>t
        <5>2. x.id = d /\ Version(x.row) < Version(device[h][d])
          BY <4>1, <5>1, <2>2 DEF Threatened, Version
        <5> QED
          BY <5>2, <2>5, <3>1, <2>3, <1>0, VersionType
      <4> QED
        BY <2>2, <4>1 DEF Sticks, Linked
    <3>2. CASE g # h
      <4>1. inhand'[h] = inhand[h] /\ stage'[h] = stage[h]
        BY <2>5, <3>2, <1>t
      <4> QED
        BY <2>2, <4>1, Untouched
    <3> QED
      BY <3>1, <3>2
  <2> QED
    BY <2>1, <2>4, <2>5
<1>5. ASSUME NEW g \in Hubs, AttachDevice(g) PROVE Sticks(h, d)
  <2>1. PICK x \in inhand[g] : device' = [device EXCEPT ![g][x.id] = x.row]
    BY <1>5 DEF AttachDevice
  <2>2. x \in Carried(g) /\ x.id \in Devices /\ x.row \in DeviceRows
    BY <1>5, CarriedType DEF AttachDevice, Carried
  <2>3. stage[g] = "attach" /\ stage' = [stage EXCEPT ![g] = "rows"]
        /\ inhand' = [inhand EXCEPT ![g] = {}]
    BY <1>5 DEF AttachDevice
  <2>4. CASE g = h /\ x.id = d
    <3>1. device'[h][d] = x.row /\ ~ Threatened(h, d)'
      BY <2>1, <2>2, <2>3, <2>4, <1>t DEF Threatened
    <3>2. CASE Version(x.row) < Version(device[h][d])
      <4>1. Threatened(h, d)
        BY <2>3, <2>4, <3>2 DEF Threatened
      <4> QED
        BY <3>1, <4>1 DEF Sticks
    <3>3. CASE Version(x.row) = Version(device[h][d])
      <4>1. IsCopy(d, x.row)
        BY <2>2, <2>4 DEF IsCopy
      <4>2. x.row = device[h][d]
        BY <4>1, <3>3, <2>2, <1>0 DEF Stamped
      <4> QED
        BY <3>1, <4>2 DEF Sticks, Linked
    <3>4. CASE Version(x.row) > Version(device[h][d])
      BY <3>1, <3>4, <2>2, <1>0, Overwritten
    <3> QED
      BY <3>2, <3>3, <3>4, <2>2, <1>0, VersionType
  <2>5. CASE ~ (g = h /\ x.id = d)
    <3>1. device'[h][d] = device[h][d]
      BY <2>1, <2>5, <1>t
    <3>2. stage'[h] = "attach" => stage[h] = "attach" /\ inhand'[h] = inhand[h]
      BY <2>3, <1>t
    <3> QED
      BY <3>1, <3>2, Untouched
  <2> QED
    BY <2>4, <2>5
<1>6. ASSUME NEW g \in Hubs,
             \/ FetchDevices(g) \/ TakePersona(g) \/ ClearName(g) \/ WritePersona(g)
             \/ Merged(g) \/ MergeRaises(g) \/ Restart(g) \/ \E k \in Hubs : FetchPersonas(g, k)
      PROVE  Sticks(h, d)
  <2>1. device' = device
    BY <1>6 DEF FetchDevices, TakePersona, ClearName, WritePersona, Merged, MergeRaises, Restart,
                FetchPersonas
  <2>2. stage'[h] = "attach" => stage[h] = "attach" /\ inhand'[h] = inhand[h]
    BY <1>6, <1>t DEF FetchDevices, TakePersona, ClearName, WritePersona, Merged, MergeRaises,
                Restart, FetchPersonas, Rest
  <2> QED
    BY <2>1, <2>2, Untouched
<1>7. ASSUME NEW g \in Hubs,
             \/ \E e \in Devices, n \in Names : Rename(g, e, n)
             \/ \E e \in Devices : MintCode(g, e)
             \/ \E e \in Devices, p \in Personas : Spend(g, e, p) \/ Admit(g, e, p)
             \/ \E p \in Personas : Expire(g, p)
      PROVE  Sticks(h, d)
  <2>1. UNCHANGED <<device, inhand, stage>>
    BY <1>7 DEF Rename, MintCode, Spend, Admit, Expire
  <2> QED
    BY <2>1, Untouched
<1>8. CASE UNCHANGED vars
  BY <1>8, Untouched DEF vars
<1> QED
  BY <1>1, <1>2, <1>3, <1>4, <1>5, <1>6, <1>7, <1>8 DEF Next, Command, Merge, Failure

(* However members link and unlink and hubs merge, a device that was       *)
(* unlinked is linked again by a later link alone, unless the unlink came  *)
(* between the comparing and the writing of an older row; and no merge     *)
(* takes a row in hand that is older than the one here.                    *)
THEOREM UnlinksHold == Spec => UnlinksStick
<1> DEFINE Inv == TypeOK /\ Resolved /\ Stamped /\ Tracked
<1>1. Init => Inv
  BY TypeInit, ResolvedInit, StampedInit
<1>2. Inv /\ [Next]_vars => Inv'
  BY TypeStep, ResolvedStep, StampedStep
<1>3. Inv /\ Inv' /\ [Next]_vars =>
        [\A h \in Hubs, d \in Devices :
           /\ device[h][d].removed > 0 /\ Linked(h, d)' =>
                Threatened(h, d) \/ device'[h][d].added > device[h][d].removed
           /\ Threatened(h, d)' => Threatened(h, d) \/ device'[h][d] # device[h][d]]_vars
  BY SticksStep DEF Sticks
<1> QED
  BY <1>1, <1>2, <1>3, PTL DEF Spec, UnlinksStick
=============================================================================
