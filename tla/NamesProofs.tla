---------------------------- MODULE NamesProofs ----------------------------
(***************************************************************************)
(* Where no persona is renamed, a name ends up with its earliest claim:    *)
(* for any number of hubs, personas and names.  Three facts are inductive  *)
(* together.  The claim of a persona is the same in every table (Agreed);  *)
(* a row, wherever it is, has the name that was claimed or has been beaten *)
(* to it by an earlier claim (Earned); and no hub gives a name to two      *)
(* personas (Unshared).  Once the hubs have nothing to tell each other all *)
(* of them know all claims, and the earliest one is not beaten.  A name    *)
(* that a persona has lost on a hub does not come back (Revised).          *)
(***************************************************************************)
EXTENDS PersonasProofs, FiniteSetTheorems

(* The persona rows a merge has in hand or ahead of it. *)
Travelling(h) == rows[h] \cup (IF stage[h] \in {"clear", "write"} THEN inhand[h] ELSE {})

(* Some persona was claimed with the same name before this one. *)
Beaten(p) ==
    \E q \in Personas : \E h, k \in Hubs :
        /\ q # p /\ wanted[q] = wanted[p]
        /\ Known(h, q) /\ Known(k, p)
        /\ wins(persona[h][q].claimed, q, persona[k][p].claimed, p)

(* The rows a persona may have, in a table or on the way. *)
Rightful(p, r) ==
    /\ r.name \in {wanted[p], NoName}
    /\ \E k \in Hubs : Known(k, p) /\ persona[k][p].claimed = r.claimed
    /\ r.name = NoName /\ wanted[p] # NoName => Beaten(p)

Agreed ==
    /\ \A p \in Personas : wanted[p] # NoName => \E h \in Hubs : Known(h, p)
    /\ \A p \in Personas, h, k \in Hubs :
         Known(h, p) /\ Known(k, p) => persona[h][p].claimed = persona[k][p].claimed

Earned ==
    /\ \A h \in Hubs, p \in Personas :
         IF Known(h, p) THEN Rightful(p, persona[h][p]) ELSE persona[h][p].name = NoName
    /\ \A h \in Hubs : \A x \in Travelling(h) : Rightful(x.id, x.row)
    /\ \A h \in Hubs : \A p \in clearing[h] : Known(h, p) /\ Beaten(p)

Unshared ==
    \A h \in Hubs, p, q \in Personas :
        persona[h][p].name = persona[h][q].name /\ persona[h][p].name # NoName => p = q

-----------------------------------------------------------------------------
(* Types and kinds of steps. *)

(* The types of rows, field by field. *)
LEMMA PersonaTypes ==
    ASSUME TypeOK, NEW h \in Hubs
    PROVE  /\ \A p \in Personas :
                /\ persona[h][p] \in PersonaRows
                /\ persona[h][p].name \in Names \cup {NoName}
                /\ persona[h][p].claimed \in Nat /\ persona[h][p].rev \in Nat
           /\ \A x \in Travelling(h) : x \in FetchedRows /\ x.id \in Personas
                /\ x.row \in PersonaRows /\ x.row.claimed \in Nat
           /\ clearing[h] \subseteq Personas
<1>1. \A r \in PersonaRows : r.name \in Names \cup {NoName} /\ r.claimed \in Nat /\ r.rev \in Nat
  BY BoundsAssumption DEF PersonaRows
<1>2. \A x \in Travelling(h) : x \in FetchedRows
  BY DEF TypeOK, Travelling
<1>3. \A x \in FetchedRows : x.id \in Personas /\ x.row \in PersonaRows
  BY DEF FetchedRows
<1> QED
  BY <1>1, <1>2, <1>3 DEF TypeOK

(* What no name has to do with. *)
Calm ==
    /\ UNCHANGED <<persona, wanted>>
    /\ \A g \in Hubs : Travelling(g)' \subseteq Travelling(g) /\ clearing'[g] \subseteq clearing[g]

(* A merge that is over has nothing on the way. *)
LEMMA RestIsCalm ==
    ASSUME TypeOK, NEW h \in Hubs, Rest(h), UNCHANGED <<persona, wanted>>
    PROVE  Calm
<1>1. ASSUME NEW g \in Hubs
      PROVE  Travelling(g)' \subseteq Travelling(g) /\ clearing'[g] \subseteq clearing[g]
  BY DEF TypeOK, Rest, Travelling
<1> QED
  BY <1>1 DEF Calm

(* Five steps concern names, as long as nobody renames a persona.          *)
LEMMA NamesInSteps ==
    ASSUME TypeOK, ~ Renaming, [Next]_vars
    PROVE  \/ Calm
           \/ \E h \in Hubs :
                \/ \E d \in Devices, n \in Names \cup {NoName} : NewPersona(h, d, n)
                \/ \E k \in Hubs : FetchPersonas(h, k)
                \/ TakePersona(h) \/ ClearName(h) \/ WritePersona(h)
<1> USE DEF tables, merging
<1>t. DOMAIN rows = Hubs /\ DOMAIN inhand = Hubs /\ DOMAIN stage = Hubs /\ DOMAIN clearing = Hubs
  BY DEF TypeOK
<1>1. ASSUME NEW h \in Hubs,
             \/ \E d \in Devices : MintCode(h, d)
             \/ \E d \in Devices, p \in Personas : Spend(h, d, p) \/ Link(h, d, p) \/ Admit(h, d, p)
             \/ \E p \in Personas : Expire(h, p)
             \/ \E d, target \in Devices : Unlink(h, d, target)
      PROVE  Calm
  <2>1. UNCHANGED <<persona, wanted, stage, rows, inhand, clearing>>
    BY <1>1 DEF MintCode, Spend, Link, Admit, Expire, Unlink
  <2> QED
    BY <2>1 DEF Calm, Travelling
<1>2. ASSUME NEW h \in Hubs, FetchDevices(h) \/ TakeDevice(h) \/ AttachDevice(h)
      PROVE  Calm
  <2>1. UNCHANGED <<persona, wanted, rows, clearing>>
        /\ stage'[h] \notin {"clear", "write"}
        /\ \A g \in Hubs : g # h => stage'[g] = stage[g] /\ inhand'[g] = inhand[g]
    BY <1>2, <1>t DEF FetchDevices, TakeDevice, AttachDevice
  <2> QED
    BY <2>1 DEF Calm, Travelling
<1>3. ASSUME NEW h \in Hubs, Merged(h) \/ MergeRaises(h) \/ Restart(h)
      PROVE  Calm
  BY <1>3, RestIsCalm DEF Merged, MergeRaises, Restart
<1>4. CASE UNCHANGED vars
  BY <1>4 DEF vars, Calm, Travelling
<1>5. ASSUME NEW h \in Hubs, NEW d \in Devices, NEW n \in Names
      PROVE  ~ Rename(h, d, n)
  BY DEF Rename
<1> QED
  BY <1>1, <1>2, <1>3, <1>4, <1>5 DEF Next, Command, Merge, Failure

(* The row a merge writes. *)
LEMMA Written ==
    ASSUME TypeOK, NEW h \in Hubs, WritePersona(h)
    PROVE  \/ Calm
           \/ \E x \in Travelling(h) :
                /\ x.id \in Personas
                /\ Holders(h, x.row.name) \ {x.id} = {}
                /\ persona' = [persona EXCEPT ![h][x.id] = x.row]
                /\ UNCHANGED <<wanted, clearing>>
                /\ \A g \in Hubs : Travelling(g)' \subseteq Travelling(g)
<1>t. DOMAIN rows = Hubs /\ DOMAIN inhand = Hubs /\ DOMAIN stage = Hubs
  BY DEF TypeOK
<1>1. PICK x \in inhand[h] :
        \/ Rest(h) /\ UNCHANGED persona
        \/ /\ Holders(h, x.row.name) \ {x.id} = {}
           /\ persona' = [persona EXCEPT ![h][x.id] = x.row]
           /\ stage' = [stage EXCEPT ![h] = "rows"]
           /\ inhand' = [inhand EXCEPT ![h] = {}]
           /\ UNCHANGED <<from, rows, links, clearing>>
  BY DEF WritePersona
<1>2. x \in Travelling(h) /\ UNCHANGED wanted
  BY DEF WritePersona, Travelling
<1>3. x.id \in Personas
  BY <1>2, PersonaTypes
<1>4. CASE Rest(h) /\ UNCHANGED persona
  BY <1>2, <1>4, RestIsCalm
<1>5. CASE /\ Holders(h, x.row.name) \ {x.id} = {}
           /\ persona' = [persona EXCEPT ![h][x.id] = x.row]
           /\ stage' = [stage EXCEPT ![h] = "rows"]
           /\ inhand' = [inhand EXCEPT ![h] = {}]
           /\ UNCHANGED <<from, rows, links, clearing>>
  <2>1. \A g \in Hubs : Travelling(g)' \subseteq Travelling(g)
    BY <1>5, <1>t DEF Travelling
  <2> QED
    BY <1>2, <1>3, <1>5, <2>1
<1> QED
  BY <1>1, <1>4, <1>5

-----------------------------------------------------------------------------
(* What lasts. *)

(* The claim of a persona never changes. *)
LEMMA ClaimStays ==
    ASSUME TypeOK, Resolved, Agreed, Earned, ~ Renaming, [Next]_vars,
           NEW h \in Hubs, NEW p \in Personas, Known(h, p)
    PROVE  /\ Known(h, p)' /\ wanted'[p] = wanted[p]
           /\ persona'[h][p].claimed = persona[h][p].claimed
<1>t. /\ persona \in [Hubs -> [Personas -> PersonaRows]] /\ wanted \in [Personas -> Names \cup {NoName}]
      /\ persona[h][p] \in PersonaRows
  BY DEF TypeOK
<1> SUFFICES wanted'[p] = wanted[p] /\ persona'[h][p].claimed = persona[h][p].claimed
  BY KnownStays
<1>1. ASSUME NEW g \in Hubs, NEW d \in Devices, NEW n \in Names \cup {NoName}, NewPersona(g, d, n)
      PROVE  wanted'[p] = wanted[p] /\ persona'[h][p] = persona[h][p]
  <2>1. PICK q \in Personas, now \in {clock, clock + 1} :
          /\ \A k \in Hubs : ~ Known(k, q)
          /\ persona' = [persona EXCEPT ![g][q] =
                            [name |-> n, claimed |-> now, rev |-> 1, updated |-> now]]
          /\ wanted' = [wanted EXCEPT ![q] = n]
    BY <1>1 DEF NewPersona
  <2> QED
    BY <2>1, <1>t
<1>2. ASSUME NEW g \in Hubs, ClearName(g)
      PROVE  wanted'[p] = wanted[p] /\ persona'[h][p].claimed = persona[h][p].claimed
  BY <1>2, <1>t DEF ClearName, Renamed
<1>3. ASSUME NEW g \in Hubs, NEW x \in Travelling(g), x.id \in Personas,
             persona' = [persona EXCEPT ![g][x.id] = x.row], UNCHANGED wanted
      PROVE  wanted'[p] = wanted[p] /\ persona'[h][p].claimed = persona[h][p].claimed
  <2>1. p = x.id => persona[h][p].claimed = x.row.claimed
    BY <1>3 DEF Earned, Rightful, Agreed
  <2> QED
    BY <1>3, <1>t, <2>1
<1>4. ASSUME NEW g \in Hubs, TakePersona(g) \/ \E k \in Hubs : FetchPersonas(g, k)
      PROVE  UNCHANGED <<persona, wanted>>
  BY <1>4 DEF TakePersona, FetchPersonas, tables
<1>5. Calm => UNCHANGED <<persona, wanted>>
  BY DEF Calm
<1> QED
  BY <1>1, <1>2, <1>3, <1>4, <1>5, NamesInSteps, Written

(* Who is beaten stays beaten. *)
LEMMA BeatenStays ==
    ASSUME TypeOK, Resolved, Agreed, Earned, ~ Renaming, [Next]_vars,
           NEW p \in Personas, Beaten(p)
    PROVE  Beaten(p)'
<1>1. PICK q \in Personas, h \in Hubs, k \in Hubs :
        /\ q # p /\ wanted[q] = wanted[p]
        /\ Known(h, q) /\ Known(k, p)
        /\ wins(persona[h][q].claimed, q, persona[k][p].claimed, p)
  BY DEF Beaten
<1>2. /\ Known(h, q)' /\ wanted'[q] = wanted[q]
      /\ persona'[h][q].claimed = persona[h][q].claimed
  BY <1>1, ClaimStays
<1>3. /\ Known(k, p)' /\ wanted'[p] = wanted[p]
      /\ persona'[k][p].claimed = persona[k][p].claimed
  BY <1>1, ClaimStays
<1> QED
  BY <1>1, <1>2, <1>3 DEF Beaten, wins

(* A row that is rightful stays so until it is replaced. *)
LEMMA RightfulStays ==
    ASSUME TypeOK, Resolved, Agreed, Earned, ~ Renaming, [Next]_vars,
           NEW p \in Personas, NEW r, Rightful(p, r)
    PROVE  /\ r.name \in {wanted'[p], NoName}
           /\ \E k \in Hubs : Known(k, p)' /\ persona'[k][p].claimed = r.claimed
           /\ r.name = NoName /\ wanted'[p] # NoName => Beaten(p)'
<1>1. PICK k \in Hubs : Known(k, p) /\ persona[k][p].claimed = r.claimed
  BY DEF Rightful
<1>2. /\ Known(k, p)' /\ wanted'[p] = wanted[p]
      /\ persona'[k][p].claimed = persona[k][p].claimed
  BY <1>1, ClaimStays
<1> QED
  BY <1>1, <1>2, BeatenStays DEF Rightful

-----------------------------------------------------------------------------
(* The steps. *)

(* What holds when the tables and the way have only old rows. *)
LEMMA OldRows ==
    ASSUME TypeOK, Resolved, Agreed, Earned, ~ Renaming, [Next]_vars,
           UNCHANGED wanted,
           \A g \in Hubs, p \in Personas :
               \/ persona'[g][p] = persona[g][p]
               \/ Known(g, p)' /\ Rightful(p, persona'[g][p]),
           \A g \in Hubs : \A x \in Travelling(g)' : x.id \in Personas /\ Rightful(x.id, x.row),
           \A g \in Hubs : \A p \in clearing'[g] : p \in Personas /\ Known(g, p) /\ Beaten(p)
    PROVE  Agreed' /\ Earned'
<1>1. ASSUME NEW p \in Personas, wanted'[p] # NoName
      PROVE  \E h \in Hubs : Known(h, p)'
  <2>1. PICK h \in Hubs : Known(h, p)
    BY <1>1 DEF Agreed
  <2> QED
    BY <2>1, KnownStays
<1>2. ASSUME NEW p \in Personas, NEW h \in Hubs, Known(h, p)', NEW k \in Hubs, Known(k, p)
      PROVE  persona'[h][p].claimed = persona[k][p].claimed
  <2>1. CASE persona'[h][p] = persona[h][p]
    BY <1>2, <2>1 DEF Agreed, Known
  <2>2. CASE Rightful(p, persona'[h][p])
    BY <1>2, <2>2 DEF Agreed, Rightful
  <2> QED
    BY <2>1, <2>2
<1>3. ASSUME NEW p \in Personas, NEW h \in Hubs, NEW k \in Hubs, Known(h, p)', Known(k, p)'
      PROVE  persona'[h][p].claimed = persona'[k][p].claimed
  <2>1. PICK g \in Hubs : Known(g, p)
    <3>1. Known(h, p) \/ Rightful(p, persona'[h][p])
      BY <1>3 DEF Known
    <3> QED
      BY <3>1 DEF Rightful
  <2> QED
    BY <1>2, <1>3, <2>1
<1>4. Agreed'
  BY <1>1, <1>3 DEF Agreed
<1>5. ASSUME NEW h \in Hubs, NEW p \in Personas
      PROVE  (IF Known(h, p) THEN Rightful(p, persona[h][p]) ELSE persona[h][p].name = NoName)'
  <2>1. CASE Known(h, p)'
    <3>1. Rightful(p, persona'[h][p])
      BY <2>1 DEF Earned, Known
    <3> QED
      BY <2>1, <3>1, RightfulStays DEF Rightful
  <2>2. CASE ~ Known(h, p)'
    BY <2>2 DEF Earned, Known
  <2> QED
    BY <2>1, <2>2
<1>6. ASSUME NEW h \in Hubs, NEW x \in Travelling(h)'
      PROVE  Rightful(x.id, x.row)'
  BY RightfulStays DEF Rightful
<1>7. ASSUME NEW h \in Hubs, NEW p \in clearing'[h]
      PROVE  Known(h, p)' /\ Beaten(p)'
  BY <1>7, BeatenStays, KnownStays
<1> QED
  BY <1>4, <1>5, <1>6, <1>7 DEF Earned

(* A new persona may take a name nobody here has. *)
LEMMA NewPersonaKeepsNames ==
    ASSUME TypeOK, Resolved, Agreed, Earned, Unshared, ~ Renaming, [Next]_vars,
           NEW h \in Hubs, NEW d \in Devices, NEW n \in Names \cup {NoName}, NewPersona(h, d, n)
    PROVE  Agreed' /\ Earned' /\ Unshared'
<1> DEFINE row(now) == [name |-> n, claimed |-> now, rev |-> 1, updated |-> now]
<1>1. PICK p \in Personas, now \in {clock, clock + 1} :
        /\ \A k \in Hubs : ~ Known(k, p)
        /\ persona' = [persona EXCEPT ![h][p] = row(now)]
        /\ wanted' = [wanted EXCEPT ![p] = n]
  BY DEF NewPersona
<1>2. /\ Holders(h, n) = {}
      /\ UNCHANGED <<rows, stage, inhand, clearing>>
  BY DEF NewPersona, merging
<1>t. persona \in [Hubs -> [Personas -> PersonaRows]] /\ wanted \in [Personas -> Names \cup {NoName}]
  BY DEF TypeOK
<1>3. /\ persona'[h][p] = row(now) /\ wanted'[p] = n
      /\ \A g \in Hubs, q \in Personas : g # h \/ q # p => persona'[g][q] = persona[g][q]
      /\ \A q \in Personas : q # p => wanted'[q] = wanted[q]
  BY <1>1, <1>t
<1>4. /\ Known(h, p)' /\ row(now).name = n /\ row(now).claimed = now
      /\ \A g \in Hubs : Known(g, p)' => g = h
      /\ \A g \in Hubs, q \in Personas : q # p => (Known(g, q)' <=> Known(g, q))
  BY <1>1, <1>3 DEF Known
<1> HIDE DEF row
<1>5. Agreed'
  <2>1. ASSUME NEW q \in Personas, wanted'[q] # NoName
        PROVE  \E g \in Hubs : Known(g, q)'
    BY <2>1, <1>3, <1>4 DEF Agreed
  <2>2. ASSUME NEW q \in Personas, NEW g \in Hubs, NEW k \in Hubs, Known(g, q)', Known(k, q)'
        PROVE  persona'[g][q].claimed = persona'[k][q].claimed
    BY <2>2, <1>3, <1>4 DEF Agreed
  <2> QED
    BY <2>1, <2>2 DEF Agreed
<1>6. ASSUME NEW g \in Hubs, NEW q \in Personas
      PROVE  (IF Known(g, q) THEN Rightful(q, persona[g][q]) ELSE persona[g][q].name = NoName)'
  <2>1. CASE q # p
    <3>1. CASE Known(g, q)
      <4>1. Rightful(q, persona[g][q]) /\ Known(g, q)' /\ persona'[g][q] = persona[g][q]
        BY <2>1, <3>1, <1>3, <1>4 DEF Earned
      <4> QED
        BY <4>1, RightfulStays DEF Rightful
    <3>2. CASE ~ Known(g, q)
      BY <2>1, <3>2, <1>3, <1>4 DEF Earned
    <3> QED
      BY <3>1, <3>2
  <2>2. CASE q = p /\ g # h
    BY <2>2, <1>1, <1>3, <1>4 DEF Earned
  <2>3. CASE q = p /\ g = h
    BY <2>3, <1>3, <1>4 DEF Rightful
  <2> QED
    BY <2>1, <2>2, <2>3
<1>7. ASSUME NEW g \in Hubs, NEW x \in Travelling(g)'
      PROVE  Rightful(x.id, x.row)'
  <2>1. x \in Travelling(g)
    BY <1>2, <1>7 DEF Travelling
  <2>2. x.id \in Personas /\ Rightful(x.id, x.row)
    BY <2>1, PersonaTypes DEF Earned
  <2> QED
    BY <2>2, RightfulStays DEF Rightful
<1>8. ASSUME NEW g \in Hubs, NEW q \in clearing'[g]
      PROVE  Known(g, q)' /\ Beaten(q)'
  <2>1. q \in Personas /\ Known(g, q) /\ Beaten(q)
    BY <1>2, <1>8, PersonaTypes DEF Earned
  <2> QED
    BY <2>1, BeatenStays, KnownStays
<1>9. Unshared'
  <2>1. n # NoName => \A q \in Personas : persona[h][q].name # n
    BY <1>2 DEF Holders
  <2> QED
    BY <2>1, <1>3, <1>4 DEF Unshared
<1> QED
  BY <1>5, <1>6, <1>7, <1>8, <1>9 DEF Earned

(* What is fetched is as rightful as the row of the peer. *)
LEMMA FetchKeepsNames ==
    ASSUME TypeOK, Resolved, Agreed, Earned, Unshared, ~ Renaming, [Next]_vars,
           NEW h \in Hubs, NEW k \in Hubs, FetchPersonas(h, k)
    PROVE  Agreed' /\ Earned' /\ Unshared'
<1>t. DOMAIN rows = Hubs /\ DOMAIN inhand = Hubs /\ DOMAIN stage = Hubs
  BY DEF TypeOK
<1>1. UNCHANGED <<persona, wanted, clearing>>
  BY DEF FetchPersonas, tables
<1>2. ASSUME NEW g \in Hubs, NEW x \in Travelling(g)'
      PROVE  x.id \in Personas /\ Rightful(x.id, x.row)
  <2>1. \/ x \in Travelling(g)
        \/ x \in {[id |-> p, row |-> persona[k][p]] : p \in {q \in Personas : Known(k, q)}}
    BY <1>2, <1>t DEF FetchPersonas, Travelling
  <2>2. CASE x \in Travelling(g)
    BY <2>2, PersonaTypes DEF Earned
  <2>3. CASE x \in {[id |-> p, row |-> persona[k][p]] : p \in {q \in Personas : Known(k, q)}}
    BY <2>3 DEF Earned
  <2> QED
    BY <2>1, <2>2, <2>3
<1>3. \A g \in Hubs : \A p \in clearing'[g] : p \in Personas /\ Known(g, p) /\ Beaten(p)
  BY <1>1, PersonaTypes DEF Earned
<1>4. Agreed' /\ Earned'
  BY <1>1, <1>2, <1>3, OldRows
<1> QED
  BY <1>1, <1>4 DEF Unshared

(* The release of a name leaves a beaten persona without one. *)
LEMMA ClearKeepsNames ==
    ASSUME TypeOK, Resolved, Agreed, Earned, Unshared, ~ Renaming, [Next]_vars,
           NEW h \in Hubs, ClearName(h)
    PROVE  Agreed' /\ Earned' /\ Unshared'
<1>t. /\ DOMAIN rows = Hubs /\ DOMAIN inhand = Hubs /\ DOMAIN stage = Hubs
      /\ clearing \in [Hubs -> SUBSET Personas]
      /\ persona \in [Hubs -> [Personas -> PersonaRows]]
  BY DEF TypeOK
<1>1. UNCHANGED <<wanted, rows, inhand>>
      /\ \A g \in Hubs, p \in Personas :
           persona'[g][p] = IF g = h /\ p \in clearing[h] THEN Renamed(persona[g][p], NoName)
                                                       ELSE persona[g][p]
  BY <1>t DEF ClearName
<1>2. ASSUME NEW g \in Hubs, NEW p \in Personas
      PROVE  \/ persona'[g][p] = persona[g][p]
             \/ Known(g, p)' /\ Rightful(p, persona'[g][p])
  <2>1. CASE g = h /\ p \in clearing[h]
    <3>1. Known(g, p) /\ Beaten(p) /\ persona'[g][p] = Renamed(persona[g][p], NoName)
      BY <2>1, <1>1 DEF Earned
    <3>2. persona[g][p].rev \in Nat
      BY PersonaTypes
    <3>3. Known(g, p)' /\ persona'[g][p].name = NoName
          /\ persona'[g][p].claimed = persona[g][p].claimed
      BY <3>1, <3>2 DEF Renamed, Known
    <3> QED
      BY <3>1, <3>3 DEF Rightful
  <2>2. CASE ~ (g = h /\ p \in clearing[h])
    BY <2>2, <1>1
  <2> QED
    BY <2>1, <2>2
<1>3. ASSUME NEW g \in Hubs, NEW x \in Travelling(g)'
      PROVE  x.id \in Personas /\ Rightful(x.id, x.row)
  <2>1. x \in Travelling(g)
    BY <1>1, <1>3, <1>t DEF ClearName, Travelling
  <2> QED
    BY <2>1, PersonaTypes DEF Earned
<1>4. ASSUME NEW g \in Hubs, NEW p \in clearing'[g]
      PROVE  p \in Personas /\ Known(g, p) /\ Beaten(p)
  <2>1. p \in clearing[g]
    BY <1>4, <1>t DEF ClearName
  <2> QED
    BY <2>1, <1>t DEF Earned
<1>5. Agreed' /\ Earned'
  BY <1>1, <1>2, <1>3, <1>4, OldRows
<1>6. ASSUME NEW g \in Hubs, NEW p \in Personas
      PROVE  persona'[g][p].name \in {persona[g][p].name, NoName}
  <2>1. Renamed(persona[g][p], NoName).name = NoName
    BY DEF Renamed
  <2> QED
    BY <1>1, <2>1
<1> QED
  BY <1>5, <1>6 DEF Unshared

(* Of two personas with one name the later claim goes without: the one     *)
(* that arrives, or the one that is about to be cleared.                   *)
LEMMA TakeKeepsNames ==
    ASSUME TypeOK, Resolved, Agreed, Earned, Unshared, ~ Renaming, [Next]_vars,
           NEW h \in Hubs, TakePersona(h)
    PROVE  Agreed' /\ Earned' /\ Unshared'
<1>t. /\ rows \in [Hubs -> SUBSET FetchedRows] /\ clearing \in [Hubs -> SUBSET Personas]
      /\ DOMAIN inhand = Hubs /\ DOMAIN stage = Hubs
  BY DEF TypeOK
<1>1. UNCHANGED <<persona, wanted>> /\ stage[h] = "rows"
  BY DEF TakePersona, tables
<1>2. PICK x \in First(rows[h]) :
        LET others == Holders(h, x.row.name) \ {x.id}
            lost == \E q \in others : wins(persona[h][q].claimed, q, x.row.claimed, x.id)
        IN  /\ rows' = [rows EXCEPT ![h] = @ \ {x}]
            /\ IF ~ Newer(x.row, persona[h][x.id])
               THEN UNCHANGED <<stage, inhand, clearing>>
               ELSE /\ inhand' = [inhand EXCEPT ![h] =
                                    IF lost THEN {[x EXCEPT !.row.name = NoName]} ELSE {x}]
                    /\ clearing' = [clearing EXCEPT ![h] = IF lost THEN {} ELSE others]
                    /\ stage' = [stage EXCEPT ![h] =
                                   IF clearing'[h] = {} THEN "write" ELSE "clear"]
  BY DEF TakePersona
<1> DEFINE others == Holders(h, x.row.name) \ {x.id}
<1> DEFINE lost == \E q \in others : wins(persona[h][q].claimed, q, x.row.claimed, x.id)
<1> DEFINE bare == [x EXCEPT !.row.name = NoName]
<1>3. x \in rows[h] /\ x \in Travelling(h)
  BY DEF First, Travelling
<1>4. x.id \in Personas /\ x \in FetchedRows /\ x.row \in PersonaRows /\ Rightful(x.id, x.row)
  BY <1>3, PersonaTypes DEF Earned
<1>5. bare.id = x.id /\ bare.row.name = NoName /\ bare.row.claimed = x.row.claimed
  BY <1>4 DEF FetchedRows, PersonaRows
<1>6. PICK k \in Hubs : Known(k, x.id) /\ persona[k][x.id].claimed = x.row.claimed
  BY <1>4 DEF Rightful
<1>7. ASSUME NEW q \in others
      PROVE  /\ q \in Personas /\ q # x.id /\ Known(h, q) /\ wanted[q] = wanted[x.id]
             /\ wins(persona[h][q].claimed, q, x.row.claimed, x.id) => Beaten(x.id)
             /\ ~ wins(persona[h][q].claimed, q, x.row.claimed, x.id) => Beaten(q)
  <2>1. q \in Personas /\ q # x.id /\ persona[h][q].name = x.row.name /\ x.row.name # NoName
    BY <1>7 DEF Holders
  <2>2. Known(h, q) /\ Rightful(q, persona[h][q])
    BY <2>1 DEF Earned
  <2>3. wanted[q] = wanted[x.id]
    BY <2>1, <2>2, <1>4 DEF Rightful
  <2>4. persona[h][q].claimed \in Nat /\ x.row.claimed \in Nat /\ q \in Nat /\ x.id \in Nat
    BY <2>1, <1>3, <1>4, PersonaTypes, OrdersAssumption
  <2>5. CASE wins(persona[h][q].claimed, q, x.row.claimed, x.id)
    BY <2>1, <2>2, <2>3, <2>5, <1>4, <1>6 DEF Beaten
  <2>6. CASE ~ wins(persona[h][q].claimed, q, x.row.claimed, x.id)
    <3>1. wins(x.row.claimed, x.id, persona[h][q].claimed, q)
      BY <2>1, <2>4, <2>6 DEF wins
    <3> QED
      BY <2>1, <2>2, <2>3, <2>6, <3>1, <1>4, <1>6 DEF Beaten
  <2> QED
    BY <2>1, <2>2, <2>3, <2>5, <2>6
<1>8. lost => Rightful(bare.id, bare.row)
  BY <1>5, <1>6, <1>7 DEF Rightful
<1>9. /\ rows' = [rows EXCEPT ![h] = @ \ {x}]
      /\ \/ UNCHANGED <<stage, inhand, clearing>>
         \/ /\ inhand' = [inhand EXCEPT ![h] = IF lost THEN {bare} ELSE {x}]
            /\ clearing' = [clearing EXCEPT ![h] = IF lost THEN {} ELSE others]
            /\ \A g \in Hubs : g # h => stage'[g] = stage[g]
  BY <1>2, <1>t
<1> HIDE DEF others, lost, bare
<1>10. ASSUME NEW g \in Hubs, NEW y \in Travelling(g)'
       PROVE  y.id \in Personas /\ Rightful(y.id, y.row)
  <2>1. y \in Travelling(g) \/ y = x \/ (lost /\ y = bare)
    BY <1>1, <1>9, <1>10, <1>t DEF Travelling
  <2> QED
    BY <2>1, <1>4, <1>5, <1>8, PersonaTypes DEF Earned
<1>11. ASSUME NEW g \in Hubs, NEW p \in clearing'[g]
       PROVE  p \in Personas /\ Known(g, p) /\ Beaten(p)
  <2>1. p \in clearing[g] \/ (g = h /\ ~ lost /\ p \in others)
    BY <1>9, <1>11, <1>t
  <2>2. CASE p \in clearing[g]
    BY <2>2, <1>t DEF Earned
  <2>3. CASE g = h /\ ~ lost /\ p \in others
    BY <2>3, <1>7 DEF lost
  <2> QED
    BY <2>1, <2>2, <2>3
<1>12. Agreed' /\ Earned'
  BY <1>1, <1>10, <1>11, OldRows
<1> QED
  BY <1>1, <1>12 DEF Unshared

(* The index lets no second persona have a name. *)
LEMMA WriteKeepsNames ==
    ASSUME TypeOK, Resolved, Agreed, Earned, Unshared, ~ Renaming, [Next]_vars,
           NEW h \in Hubs, NEW x \in Travelling(h), x.id \in Personas, x.row.rev > 0,
           Holders(h, x.row.name) \ {x.id} = {},
           persona' = [persona EXCEPT ![h][x.id] = x.row],
           UNCHANGED <<wanted, clearing>>,
           \A g \in Hubs : Travelling(g)' \subseteq Travelling(g)
    PROVE  Agreed' /\ Earned' /\ Unshared'
<1>t. persona \in [Hubs -> [Personas -> PersonaRows]]
  BY DEF TypeOK
<1>1. \A g \in Hubs, p \in Personas :
        persona'[g][p] = IF g = h /\ p = x.id THEN x.row ELSE persona[g][p]
  BY <1>t
<1>2. ASSUME NEW g \in Hubs, NEW p \in Personas
      PROVE  \/ persona'[g][p] = persona[g][p]
             \/ Known(g, p)' /\ Rightful(p, persona'[g][p])
  BY <1>1 DEF Earned, Known
<1>3. \A g \in Hubs : \A y \in Travelling(g)' : y.id \in Personas /\ Rightful(y.id, y.row)
  BY PersonaTypes DEF Earned
<1>4. \A g \in Hubs : \A p \in clearing'[g] : p \in Personas /\ Known(g, p) /\ Beaten(p)
  BY PersonaTypes DEF Earned
<1>5. Agreed' /\ Earned'
  BY <1>2, <1>3, <1>4, OldRows
<1>6. x.row.name # NoName => \A q \in Personas \ {x.id} : persona[h][q].name # x.row.name
  BY DEF Holders
<1> QED
  BY <1>1, <1>5, <1>6 DEF Unshared

(* Each step keeps claims agreed, rows earned and names unshared. *)
LEMMA NamesStep ==
    ASSUME TypeOK, Resolved, Agreed, Earned, Unshared, ~ Renaming, [Next]_vars
    PROVE  Agreed' /\ Earned' /\ Unshared'
<1>1. ASSUME Calm
      PROVE  Agreed' /\ Earned' /\ Unshared'
  <2>1. UNCHANGED <<persona, wanted>>
    BY <1>1 DEF Calm
  <2>2. \A g \in Hubs : \A y \in Travelling(g)' : y.id \in Personas /\ Rightful(y.id, y.row)
    BY <1>1, PersonaTypes DEF Calm, Earned
  <2>3. \A g \in Hubs : \A p \in clearing'[g] : p \in Personas /\ Known(g, p) /\ Beaten(p)
    BY <1>1, PersonaTypes DEF Calm, Earned
  <2>4. Agreed' /\ Earned'
    BY <2>1, <2>2, <2>3, OldRows
  <2> QED
    BY <2>1, <2>4 DEF Unshared
<1>2. ASSUME NEW h \in Hubs, WritePersona(h)
      PROVE  Agreed' /\ Earned' /\ Unshared'
  <2>1. ASSUME NEW x \in Travelling(h)
        PROVE  x.row.rev > 0
    BY DEF Resolved, Travelling
  <2> QED
    BY <1>1, <1>2, <2>1, Written, WriteKeepsNames
<1> QED
  BY <1>1, <1>2, NamesInSteps, NewPersonaKeepsNames, FetchKeepsNames, TakeKeepsNames,
     ClearKeepsNames

(* At the start nothing is claimed. *)
LEMMA NamesInit == Init => Agreed /\ Earned /\ Unshared
<1> SUFFICES ASSUME Init PROVE Agreed /\ Earned /\ Unshared
  OBVIOUS
<1>1. /\ \A h \in Hubs, p \in Personas : ~ Known(h, p) /\ persona[h][p].name = NoName
      /\ \A p \in Personas : wanted[p] = NoName
  BY DEF Init, Known, NoPersona
<1>2. \A h \in Hubs : Travelling(h) = {} /\ clearing[h] = {}
  BY DEF Init, Travelling
<1>3. Agreed
  BY <1>1 DEF Agreed
<1>4. Earned
  BY <1>1, <1>2 DEF Earned
<1>5. Unshared
  BY <1>1 DEF Unshared
<1> QED
  BY <1>3, <1>4, <1>5

-----------------------------------------------------------------------------
(* The earliest claim. *)

(* A set of numbers has a smallest one: of the intervals that end in it,   *)
(* one contains no other.                                                  *)
LEMMA Smallest ==
    ASSUME NEW T \in SUBSET Nat, T # {}
    PROVE  \E x \in T : \A y \in T : x <= y
<1> DEFINE U == {0..n : n \in T}
<1> DEFINE R == StrictSubsetOrdering(Nat)
<1> DEFINE S == FiniteSubsetsOf(Nat)
<1>1. IsWellFoundedOn(R, S)
  BY FS_StrictSubsetOrderingWellFounded
<1>2. U \subseteq S
  <2>1. \A n \in T : IsFiniteSet(0..n)
    BY FS_Interval
  <2> QED
    BY <2>1 DEF FiniteSubsetsOf
<1>3. U # {}
  OBVIOUS
<1>4. \E x \in U : \A y \in U : ~ (<<y, x>> \in R)
  <2> HIDE DEF U, R, S
  <2> QED
    BY <1>1, <1>2, <1>3, WFMin
<1>5. PICK x \in T : \A y \in T : ~ (<<0..y, 0..x>> \in R)
  BY <1>4
<1>6. ASSUME NEW y \in T, ~ (x <= y)
      PROVE  FALSE
  <2>1. <<0..y, 0..x>> \in R
    BY <1>6 DEF StrictSubsetOrdering
  <2> QED
    BY <1>5, <2>1
<1> QED
  BY <1>6

(* Of the personas one hub knows, one has the earliest claim. *)
LEMMA Earliest ==
    ASSUME TypeOK, NEW h \in Hubs, NEW P \in SUBSET Personas, P # {}
    PROVE  \E m \in P : \A q \in P \ {m} :
             wins(persona[h][m].claimed, m, persona[h][q].claimed, q)
<1>1. \A p \in P : p \in Nat /\ persona[h][p].claimed \in Nat
  BY PersonaTypes, OrdersAssumption
<1> DEFINE claim(p) == persona[h][p].claimed
<1> DEFINE T == {claim(p) : p \in P}
<1>2. T \in SUBSET Nat /\ T # {}
  BY <1>1
<1>3. PICK c \in T : \A y \in T : c <= y
  <2> HIDE DEF T
  <2> QED
    BY <1>2, Smallest
<1> DEFINE Q == {p \in P : claim(p) = c}
<1>4. Q \in SUBSET Nat /\ Q # {}
  BY <1>1, <1>3
<1>5. PICK m \in Q : \A y \in Q : m <= y
  <2> HIDE DEF Q
  <2> QED
    BY <1>4, Smallest
<1>6. ASSUME NEW q \in P \ {m}
      PROVE  wins(claim(m), m, claim(q), q)
  <2>1. m \in P /\ claim(m) = c /\ c <= claim(q) /\ m \in Nat /\ q \in Nat
        /\ c \in Nat /\ claim(q) \in Nat
    BY <1>1, <1>3, <1>5
  <2>2. claim(q) = c => m <= q
    BY <1>5
  <2> QED
    BY <2>1, <2>2 DEF wins
<1> QED
  BY <1>5, <1>6

(* The claims of two personas cannot each be earlier than the other's. *)
LEMMA OneWins ==
    ASSUME TypeOK, NEW h \in Hubs, NEW p \in Personas, NEW q \in Personas,
           wins(persona[h][p].claimed, p, persona[h][q].claimed, q)
    PROVE  ~ wins(persona[h][q].claimed, q, persona[h][p].claimed, p)
BY PersonaTypes, OrdersAssumption DEF wins

(* Hubs that have nothing to tell each other know the same personas. *)
LEMMA AllKnow ==
    ASSUME TypeOK, Settled, NEW h \in Hubs, NEW k \in Hubs, NEW p \in Personas, Known(k, p)
    PROVE  Known(h, p)
<1>1. ~ Newer(persona[k][p], persona[h][p])
  BY DEF Settled, NothingNew
<1>2. persona[k][p].rev \in Nat /\ persona[h][p].rev \in Nat
  BY PersonaTypes
<1> QED
  BY <1>1, <1>2 DEF Newer, Known

(* The hub gives a name to the persona that claimed it first. *)
LEMMA HoldersAreFirst ==
    ASSUME TypeOK, Agreed, Earned, Unshared, Settled, NEW h \in Hubs, NEW n \in Names
    PROVE  Holders(h, n) = FirstWith(n)
<1> DEFINE P == {p \in Personas : wanted[p] = n}
<1> DEFINE claim(p) == persona[h][p].claimed
<1>0. n # NoName
  BY OrdersAssumption DEF NoName
<1>1. ASSUME NEW p \in P
      PROVE  Known(h, p) /\ p \in Personas /\ wanted[p] = n
  BY <1>0, <1>1, AllKnow DEF Agreed
<1>2. ASSUME NEW p \in P, NEW g \in Hubs
      PROVE  Known(g, p) /\ persona[g][p].claimed = claim(p)
  BY <1>1, <1>2, AllKnow DEF Agreed
<1>3. \A p \in Personas : p \in Holders(h, n) => p \in P
  BY <1>0 DEF Holders, Earned, Rightful
<1>4. ASSUME NEW m \in P, \A q \in P \ {m} : wins(claim(m), m, claim(q), q)
      PROVE  m \in Holders(h, n) /\ m \in FirstWith(n)
  <2>1. m \in FirstWith(n)
    BY <1>1, <1>4 DEF FirstWith
  <2>2. ~ Beaten(m)
    <3> SUFFICES ASSUME Beaten(m) PROVE FALSE
      OBVIOUS
    <3>1. PICK q \in Personas, i \in Hubs, k \in Hubs :
            /\ q # m /\ wanted[q] = wanted[m]
            /\ wins(persona[i][q].claimed, q, persona[k][m].claimed, m)
      BY DEF Beaten
    <3>2. q \in P \ {m}
      BY <3>1
    <3>3. wins(claim(q), q, claim(m), m)
      BY <3>1, <3>2, <1>2
    <3> QED
      BY <3>2, <3>3, <1>4, OneWins
  <2>3. persona[h][m].name = n
    BY <2>2, <1>0, <1>1 DEF Earned, Rightful
  <2> QED
    BY <2>1, <2>3, <1>0 DEF Holders
<1>5. ASSUME NEW p \in P
      PROVE  \E m \in P : \A q \in P \ {m} : wins(claim(m), m, claim(q), q)
  <2>1. P \in SUBSET Personas /\ P # {}
    BY <1>5
  <2> HIDE DEF P
  <2> QED
    BY <2>1, Earliest
<1>6. ASSUME NEW p \in Personas, p \in Holders(h, n)
      PROVE  p \in FirstWith(n)
  <2>1. PICK m \in P : \A q \in P \ {m} : wins(claim(m), m, claim(q), q)
    BY <1>3, <1>5, <1>6
  <2>2. m \in Holders(h, n) /\ m \in FirstWith(n)
    BY <2>1, <1>4
  <2>3. p = m
    BY <2>2, <1>6 DEF Holders, Unshared
  <2> QED
    BY <2>2, <2>3
<1>7. ASSUME NEW p \in FirstWith(n)
      PROVE  p \in Holders(h, n)
  <2>1. p \in P
    BY DEF FirstWith
  <2>2. ASSUME NEW q \in P \ {p}
        PROVE  wins(claim(p), p, claim(q), q)
    <3>1. PICK g \in Hubs : wins(persona[g][p].claimed, p, persona[g][q].claimed, q)
      BY <1>7, <2>2 DEF FirstWith
    <3> QED
      BY <3>1, <2>1, <2>2, <1>2
  <2> QED
    BY <2>1, <2>2, <1>4
<1> QED
  BY <1>6, <1>7 DEF Holders, FirstWith

(* As long as nobody changes a name, hubs with nothing left to tell each   *)
(* other give every name to the persona that was claimed with it first,    *)
(* however the claims, the merges and the failures of any number of hubs   *)
(* interleave (personas.py:13-16).                                         *)
THEOREM NamesGoToTheFirst == Spec => []SettledNamesGoToTheFirst
<1> DEFINE Names1 == ~ Renaming => Agreed /\ Earned /\ Unshared
<1> DEFINE Inv == TypeOK /\ Resolved /\ Names1
<1>1. Init => Inv
  BY TypeInit, ResolvedInit, NamesInit
<1>2. Inv /\ [Next]_vars => Inv'
  <2> SUFFICES ASSUME Inv, [Next]_vars PROVE Inv'
    OBVIOUS
  <2>1. TypeOK' /\ Resolved'
    BY TypeStep, ResolvedStep
  <2>2. Names1'
    BY NamesStep
  <2> QED
    BY <2>1, <2>2
<1>3. Inv => SettledNamesGoToTheFirst
  BY HoldersAreFirst DEF SettledNamesGoToTheFirst
<1> QED
  BY <1>1, <1>2, <1>3, PTL DEF Spec
-----------------------------------------------------------------------------
(* Lost names. *)

(* The row a merge is about to write. *)
InHand(h) == IF stage[h] \in {"clear", "write"} THEN inhand[h] ELSE {}

(* A first revision is as it was claimed, and only a first revision has a  *)
(* name.                                                                   *)
Pristine(r) ==
    /\ r.rev = 1 => r.updated = r.claimed
    /\ r.name # NoName => r.rev = 1

(* What a merge is about to write over a row is not a first revision.      *)
Revised ==
    /\ \A h \in Hubs, p \in Personas : Pristine(persona[h][p])
    /\ \A h \in Hubs : \A x \in Travelling(h) : Pristine(x.row)
    /\ \A h \in Hubs : \A x \in InHand(h) : Known(h, x.id) => x.row.rev > 1

(* A row that loses its name is as pristine as before. *)
LEMMA BareIsPristine ==
    ASSUME NEW x \in FetchedRows, Pristine(x.row)
    PROVE  /\ Pristine([x EXCEPT !.row.name = NoName].row)
           /\ [x EXCEPT !.row.name = NoName].id = x.id
           /\ [x EXCEPT !.row.name = NoName].row.rev = x.row.rev
BY DEF Pristine, FetchedRows, PersonaRows

(* Only a comparison takes a row in hand. *)
LEMMA HandStep ==
    ASSUME TypeOK, ~ Renaming, [Next]_vars, NEW h \in Hubs
    PROVE  InHand(h)' \subseteq InHand(h) \/ TakePersona(h)
<1> USE DEF merging
<1>t. DOMAIN inhand = Hubs /\ DOMAIN stage = Hubs
  BY DEF TypeOK
<1>1. ASSUME NEW g \in Hubs,
             \/ \E d \in Devices, n \in Names \cup {NoName} : NewPersona(g, d, n)
             \/ \E d \in Devices : MintCode(g, d)
             \/ \E d \in Devices, p \in Personas : Spend(g, d, p) \/ Link(g, d, p) \/ Admit(g, d, p)
             \/ \E p \in Personas : Expire(g, p)
             \/ \E d, target \in Devices : Unlink(g, d, target)
      PROVE  UNCHANGED <<stage, inhand>>
  BY <1>1 DEF NewPersona, MintCode, Spend, Link, Admit, Expire, Unlink
<1>2. ASSUME NEW g \in Hubs,
             \/ \E k \in Hubs : FetchPersonas(g, k)
             \/ FetchDevices(g) \/ TakeDevice(g) \/ AttachDevice(g) \/ WritePersona(g)
             \/ Merged(g) \/ MergeRaises(g) \/ Restart(g)
      PROVE  InHand(h)' \subseteq InHand(h)
  <2>1. g # h => stage'[h] = stage[h] /\ inhand'[h] = inhand[h]
    BY <1>2, <1>t DEF FetchPersonas, FetchDevices, TakeDevice, AttachDevice, WritePersona, Merged,
       MergeRaises, Restart, Rest
  <2>2. stage'[g] \notin {"clear", "write"}
    BY <1>2, <1>t DEF FetchPersonas, FetchDevices, TakeDevice, AttachDevice, WritePersona, Merged,
       MergeRaises, Restart, Rest
  <2> QED
    BY <2>1, <2>2 DEF InHand
<1>3. ASSUME NEW g \in Hubs, ClearName(g)
      PROVE  InHand(h)' \subseteq InHand(h)
  BY <1>3, <1>t DEF ClearName, InHand
<1>4. ASSUME NEW g \in Hubs, TakePersona(g), g # h
      PROVE  UNCHANGED <<stage[h], inhand[h]>>
  BY <1>4, <1>t DEF TakePersona
<1>5. ASSUME NEW g \in Hubs, NEW d \in Devices, NEW n \in Names
      PROVE  ~ Rename(g, d, n)
  BY DEF Rename
<1> QED
  BY <1>1, <1>2, <1>3, <1>4, <1>5 DEF Next, Command, Merge, Failure, InHand, vars

(* The tables after a step: a row is as it was, or is one of these.        *)
LEMMA RowsStep ==
    ASSUME TypeOK, Earned, ~ Renaming, [Next]_vars, NEW h \in Hubs, NEW p \in Personas
    PROVE  \/ persona'[h][p] = persona[h][p]
           \/ /\ \A k \in Hubs : ~ Known(k, p)
              /\ persona'[h][p].rev = 1
              /\ persona'[h][p].updated = persona'[h][p].claimed
           \/ Known(h, p) /\ persona'[h][p] = Renamed(persona[h][p], NoName)
           \/ InHand(h)' = {} /\ \E x \in InHand(h) : x.id = p /\ persona'[h][p] = x.row
<1>t. persona \in [Hubs -> [Personas -> PersonaRows]] /\ DOMAIN inhand = Hubs /\ DOMAIN stage = Hubs
  BY DEF TypeOK
<1>1. ASSUME NEW g \in Hubs, NEW d \in Devices, NEW n \in Names \cup {NoName}, NewPersona(g, d, n)
      PROVE  \/ persona'[h][p] = persona[h][p]
             \/ /\ \A k \in Hubs : ~ Known(k, p)
                /\ persona'[h][p].rev = 1
                /\ persona'[h][p].updated = persona'[h][p].claimed
  <2>1. PICK q \in Personas, now \in {clock, clock + 1} :
          /\ \A k \in Hubs : ~ Known(k, q)
          /\ persona' = [persona EXCEPT ![g][q] =
                            [name |-> n, claimed |-> now, rev |-> 1, updated |-> now]]
    BY <1>1 DEF NewPersona
  <2> QED
    BY <2>1, <1>t
<1>2. ASSUME NEW g \in Hubs, ClearName(g)
      PROVE  \/ persona'[h][p] = persona[h][p]
             \/ Known(h, p) /\ persona'[h][p] = Renamed(persona[h][p], NoName)
  BY <1>2, <1>t DEF ClearName, Earned
<1>3. ASSUME NEW g \in Hubs, WritePersona(g)
      PROVE  \/ persona'[h][p] = persona[h][p]
             \/ InHand(h)' = {} /\ \E x \in InHand(h) : x.id = p /\ persona'[h][p] = x.row
  <2>1. /\ stage[g] = "write" /\ InHand(g)' = {}
        /\ \E x \in inhand[g] :
             persona' = persona \/ persona' = [persona EXCEPT ![g][x.id] = x.row]
    BY <1>3, <1>t DEF WritePersona, Rest, InHand
  <2>2. PICK x \in inhand[g] :
          persona' = persona \/ persona' = [persona EXCEPT ![g][x.id] = x.row]
    BY <2>1
  <2> QED
    BY <2>1, <2>2, <1>t DEF InHand
<1>4. ASSUME NEW g \in Hubs, TakePersona(g) \/ \E k \in Hubs : FetchPersonas(g, k)
      PROVE  persona' = persona
  BY <1>4 DEF TakePersona, FetchPersonas, tables
<1>5. Calm => persona' = persona
  BY DEF Calm
<1> QED
  BY <1>1, <1>2, <1>3, <1>4, <1>5, NamesInSteps

(* What is on the way after a step was so before, is a row of the peer, or *)
(* has been stripped of its name.                                          *)
LEMMA TravelsPristine ==
    ASSUME TypeOK, Revised, ~ Renaming, [Next]_vars, NEW h \in Hubs, NEW x \in Travelling(h)'
    PROVE  Pristine(x.row)
<1> USE DEF merging
<1>t. /\ rows \in [Hubs -> SUBSET FetchedRows] /\ DOMAIN inhand = Hubs /\ DOMAIN stage = Hubs
  BY DEF TypeOK
<1>1. CASE Travelling(h)' \subseteq Travelling(h)
  BY <1>1 DEF Revised
<1>2. ASSUME NEW g \in Hubs, NEW d \in Devices, NEW n \in Names \cup {NoName}, NewPersona(g, d, n)
      PROVE  Travelling(h)' \subseteq Travelling(h)
  BY <1>2 DEF NewPersona, Travelling
<1>3. ASSUME NEW g \in Hubs, NEW k \in Hubs, FetchPersonas(g, k)
      PROVE  x \in Travelling(h) \/ \E p \in Personas : x.row = persona[k][p]
  BY <1>3, <1>t DEF FetchPersonas, Travelling
<1>4. ASSUME NEW g \in Hubs, ClearName(g)
      PROVE  Travelling(h)' \subseteq Travelling(h)
  BY <1>4, <1>t DEF ClearName, Travelling
<1>5. ASSUME NEW g \in Hubs, TakePersona(g)
      PROVE  Pristine(x.row)
  <2>1. PICK y \in First(rows[g]) :
          /\ rows' = [rows EXCEPT ![g] = @ \ {y}]
          /\ \/ UNCHANGED <<stage, inhand>>
             \/ /\ \/ inhand' = [inhand EXCEPT ![g] = {[y EXCEPT !.row.name = NoName]}]
                   \/ inhand' = [inhand EXCEPT ![g] = {y}]
                /\ \A k \in Hubs : k # g => stage'[k] = stage[k]
    BY <1>5, <1>t, Zenon DEF TakePersona
  <2>2. y \in Travelling(g) /\ y \in FetchedRows
    BY <1>t DEF First, Travelling
  <2>3. \/ x \in Travelling(h) \/ x = y
        \/ x = [y EXCEPT !.row.name = NoName]
    BY <2>1, <2>2, <1>t DEF Travelling
  <2>4. Pristine(y.row)
    BY <2>2 DEF Revised
  <2> QED
    BY <2>2, <2>3, <2>4, BareIsPristine DEF Revised
<1>6. Calm => Travelling(h)' \subseteq Travelling(h)
  BY DEF Calm
<1> QED
  BY <1>1, <1>2, <1>3, <1>4, <1>5, <1>6, NamesInSteps, Written DEF Revised

(* A row that wins over one that is known is a later revision. *)
LEMMA HandRevised ==
    ASSUME TypeOK, Agreed, Earned, Revised, NEW h \in Hubs, NEW x \in Travelling(h),
           Newer(x.row, persona[h][x.id]), Known(h, x.id)
    PROVE  x.row.rev > 1
<1>1. x.id \in Personas /\ x.row.claimed \in Nat
  BY PersonaTypes
<1>2. x.row.rev \in Nat /\ persona[h][x.id].rev \in Nat
  BY <1>1, PersonaTypes DEF PersonaRows
<1>3. x.row.claimed = persona[h][x.id].claimed
  BY <1>1 DEF Earned, Rightful, Agreed
<1>4. ASSUME x.row.rev = 1, persona[h][x.id].rev = 1
      PROVE  FALSE
  <2>1. x.row.updated = x.row.claimed /\ persona[h][x.id].updated = persona[h][x.id].claimed
    BY <1>1, <1>4 DEF Revised, Pristine
  <2> QED
    BY <2>1, <1>1, <1>3, <1>4 DEF Newer
<1> QED
  BY <1>2, <1>4 DEF Newer, Known

(* Each step keeps named rows at their first revision. *)
LEMMA RevisedStep ==
    ASSUME TypeOK, Resolved, Agreed, Earned, Revised, ~ Renaming, [Next]_vars
    PROVE  Revised'
<1>1. ASSUME NEW h \in Hubs, NEW p \in Personas
      PROVE  Pristine(persona'[h][p])
  <2>1. CASE Known(h, p) /\ persona'[h][p] = Renamed(persona[h][p], NoName)
    <3>1. persona[h][p].rev \in Nat
      BY PersonaTypes
    <3> QED
      BY <2>1, <3>1 DEF Renamed, Pristine, Known
  <2>2. ASSUME NEW x \in InHand(h), persona'[h][p] = x.row
        PROVE  Pristine(persona'[h][p])
    BY <2>2 DEF Revised, InHand, Travelling
  <2> QED
    BY <2>1, <2>2, RowsStep DEF Revised, Pristine
<1>2. ASSUME NEW h \in Hubs, NEW x \in InHand(h)', Known(h, x.id)'
      PROVE  x.row.rev > 1
  <2>1. CASE InHand(h)' \subseteq InHand(h)
    <3>1. x \in InHand(h) /\ x \in Travelling(h) /\ InHand(h)' # {}
      BY <1>2, <2>1 DEF InHand, Travelling
    <3>2. x.id \in Personas /\ \E k \in Hubs : Known(k, x.id)
      BY <3>1, PersonaTypes DEF Earned, Rightful
    <3>3. Known(h, x.id)
      BY <1>2, <3>1, <3>2, RowsStep DEF Known
    <3> QED
      BY <3>1, <3>3 DEF Revised
  <2>2. CASE TakePersona(h)
    <3>t. rows \in [Hubs -> SUBSET FetchedRows] /\ DOMAIN inhand = Hubs /\ DOMAIN stage = Hubs
      BY DEF TypeOK
    <3>1. PICK y \in First(rows[h]) :
            \/ UNCHANGED <<stage, inhand>>
            \/ /\ Newer(y.row, persona[h][y.id])
               /\ \/ inhand' = [inhand EXCEPT ![h] = {[y EXCEPT !.row.name = NoName]}]
                  \/ inhand' = [inhand EXCEPT ![h] = {y}]
      BY <2>2, <3>t, Zenon DEF TakePersona
    <3>2. stage[h] = "rows" /\ persona' = persona /\ y \in Travelling(h) /\ y \in FetchedRows
      BY <2>2, <3>t DEF TakePersona, First, Travelling, tables
    <3>3. /\ Newer(y.row, persona[h][y.id])
          /\ x = y \/ x = [y EXCEPT !.row.name = NoName]
      BY <1>2, <3>1, <3>2, <3>t DEF InHand
    <3>4. x.id = y.id /\ x.row.rev = y.row.rev
      BY <3>2, <3>3, BareIsPristine DEF Revised
    <3> QED
      BY <1>2, <3>2, <3>3, <3>4, HandRevised DEF Known
  <2> QED
    BY <2>1, <2>2, HandStep
<1>3. \A h \in Hubs : \A x \in Travelling(h)' : Pristine(x.row)
  BY TravelsPristine
<1> QED
  BY <1>1, <1>2, <1>3 DEF Revised, Pristine

(* Nothing is revised at the start. *)
LEMMA RevisedInit == Init => Revised
<1> SUFFICES ASSUME Init PROVE Revised
  OBVIOUS
<1>1. \A h \in Hubs, p \in Personas : Pristine(persona[h][p])
  BY DEF Init, NoPersona, Pristine
<1>2. \A h \in Hubs : Travelling(h) = {} /\ InHand(h) = {}
  BY DEF Init, Travelling, InHand
<1> QED
  BY <1>1, <1>2 DEF Revised

(* Where nobody changes a name, a persona that goes without one on a hub   *)
(* does so for good: no merge hands a name back, from whatever hub and     *)
(* however late its row arrives (personas.py:205-207, 256-266).            *)
NamesStayLost ==
    [][~ Renaming => \A h \in Hubs, p \in Personas :
        Known(h, p) /\ persona[h][p].name = NoName => persona'[h][p].name = NoName]_vars

(* For any number of hubs (with two, no hub but the one that gives out a   *)
(* contested name has it): rows that still have their names are first      *)
(* revisions, and a merge writes none of those over a row.  So a name is   *)
(* taken from a persona at most once on each hub, and hubs do not take     *)
(* names from each other's personas in turns.                              *)
THEOREM LostNamesStay == Spec => NamesStayLost
<1> DEFINE Names2 == ~ Renaming => Agreed /\ Earned /\ Unshared /\ Revised
<1> DEFINE Inv == TypeOK /\ Resolved /\ Names2
<1>1. Init => Inv
  BY TypeInit, ResolvedInit, NamesInit, RevisedInit
<1>2. Inv /\ [Next]_vars => Inv'
  <2> SUFFICES ASSUME Inv, [Next]_vars PROVE Inv'
    OBVIOUS
  <2>1. TypeOK' /\ Resolved'
    BY TypeStep, ResolvedStep
  <2>2. Names2'
    BY NamesStep, RevisedStep
  <2> QED
    BY <2>1, <2>2
<1>3. ASSUME Inv, [Next]_vars, ~ Renaming, NEW h \in Hubs, NEW p \in Personas,
             Known(h, p), persona[h][p].name = NoName
      PROVE  persona'[h][p].name = NoName
  <2>1. ASSUME NEW x \in InHand(h), x.id = p
        PROVE  x.row.name = NoName
    <3>1. x \in Travelling(h)
      BY DEF InHand, Travelling
    <3>2. x.row.rev > 1 /\ Pristine(x.row)
      BY <1>3, <2>1, <3>1 DEF Revised
    <3> QED
      BY <3>2 DEF Pristine
  <2>2. persona'[h][p] = Renamed(persona[h][p], NoName) => persona'[h][p].name = NoName
    BY DEF Renamed
  <2> QED
    BY <1>3, <2>1, <2>2, RowsStep
<1>4. Inv /\ [Next]_vars =>
        [~ Renaming => \A h \in Hubs, p \in Personas :
            Known(h, p) /\ persona[h][p].name = NoName => persona'[h][p].name = NoName]_vars
  BY <1>3
<1> QED
  BY <1>1, <1>2, <1>4, PTL DEF Spec, NamesStayLost

=============================================================================
