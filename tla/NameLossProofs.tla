--------------------------- MODULE NameLossProofs ---------------------------
(***************************************************************************)
(* Telling the losers adds nothing to Personas but the notices, and no     *)
(* notice is sent in error, for any number of hubs, devices and personas.  *)
(* What the hubs note is a persona that was beaten to its name (Beaten, of *)
(* NamesProofs), and who is beaten stays beaten.                           *)
(*                                                                         *)
(* The second half shows that two hubs tell whoever loses a name.  It      *)
(* follows the row that gives a persona its device from the hub of the     *)
(* claim to the hub that takes the name away, where it must be when the    *)
(* notices are addressed.                                                  *)
(***************************************************************************)
EXTENDS NameLoss, NamesProofs

(* Whoever is noted, dealt with or told has been beaten. *)
Warned ==
    \A h \in Hubs :
        /\ \A p \in losers[h] : Beaten(p)
        /\ \A a \in addressed[h] : Beaten(a[2])
        /\ \A a \in told[h] : Beaten(a[2])

-----------------------------------------------------------------------------
(* The steps that concern no loser. *)
LEMMA StepsAside ==
    ASSUME NEW h \in Hubs, Members(h) \/ Merging(h)
    PROVE  \/ /\ \/ Command(h) \/ FetchDevices(h) \/ TakePersona(h)
                 \/ TakeDevice(h) \/ Merged(h)
              /\ UNCHANGED notices
           \/ Clear(h) \/ Write(h) \/ Attach(h)
<1>1. CASE Members(h)
  BY <1>1 DEF Members, Command
<1>2. CASE Merging(h)
  BY <1>2 DEF Merging
<1> QED
  BY <1>1, <1>2

(* A step is one of Personas, or leaves its variables alone. *)
LEMMA StepOfPersonas ==
    ASSUME [NextTell]_tvars
    PROVE  [Next]_vars
<1>1. ASSUME NEW h \in Hubs,
             \/ Command(h) \/ FetchDevices(h) \/ TakePersona(h)
             \/ TakeDevice(h) \/ AttachDevice(h) \/ Merged(h)
             \/ ClearName(h) \/ WritePersona(h) \/ Failure(h)
             \/ \E k \in Hubs : FetchPersonas(h, k)
      PROVE  Next
  BY <1>1 DEF Next, Merge
<1>2. ASSUME NEW h \in Hubs, Address(h) \/ Tell(h) \/ Silence(h)
      PROVE  UNCHANGED vars
  BY <1>2 DEF Address, Tell, Silence
<1>3. UNCHANGED tvars => UNCHANGED vars
  BY DEF tvars
<1> QED
  BY <1>1, <1>2, <1>3, StepsAside DEF NextTell, Telling, Clear, Write, Attach, Fail, Fetch

(* The steps, by what they do to the notices. *)
LEMMA NoticeSteps ==
    ASSUME [NextTell]_tvars
    PROVE  \/ UNCHANGED notices
           \/ \E h \in Hubs : Clear(h) \/ Attach(h) \/ Forget(h) \/ Address(h) \/ Tell(h)
<1>1. ASSUME NEW h \in Hubs, Write(h) \/ Fail(h) \/ Silence(h) \/ \E k \in Hubs : Fetch(h, k)
      PROVE  UNCHANGED notices \/ Forget(h)
  BY <1>1 DEF Write, Fail, Silence, Fetch
<1>2. UNCHANGED tvars => UNCHANGED notices
  BY DEF tvars
<1> QED
  BY <1>1, <1>2, StepsAside DEF NextTell, Telling

(* A hub that tells who lost a name does to its tables only what Personas  *)
(* describes.                                                              *)
THEOREM ImplementsPersonas == SpecTell => Spec
<1>1. InitTell => Init
  BY DEF InitTell
<1>2. [NextTell]_tvars => [Next]_vars
  BY StepOfPersonas
<1> QED
  BY <1>1, <1>2, PTL DEF SpecTell, Spec

-----------------------------------------------------------------------------
(* Only a fetch takes a hub out of its rest. *)
LEMMA TellingRests ==
    ASSUME TypeOK, [NextTell]_tvars, NEW g \in Hubs, stage[g] = "idle", addressed[g] # {}
    PROVE  stage'[g] = "idle"
<1> USE DEF tables, merging
<1>t. DOMAIN stage = Hubs
  BY DEF TypeOK
<1>1. ASSUME NEW h \in Hubs, Command(h)
      PROVE  stage' = stage
  BY <1>1 DEF Command, NewPersona, Rename, MintCode, Spend, Link, Admit, Expire, Unlink
<1>2. ASSUME NEW h \in Hubs,
             \/ FetchDevices(h) \/ TakePersona(h) \/ TakeDevice(h) \/ Attach(h) \/ Merged(h)
             \/ Clear(h) \/ Write(h)
      PROVE  stage'[g] = stage[g]
  BY <1>2, <1>t DEF FetchDevices, TakePersona, TakeDevice, AttachDevice, Merged, Rest,
                    Clear, ClearName, Write, WritePersona, Attach
<1>3. ASSUME NEW h \in Hubs, Fail(h)
      PROVE  stage'[g] = "idle"
  BY <1>3, <1>t DEF Fail, Failure, MergeRaises, Restart, Rest
<1>4. ASSUME NEW h \in Hubs, NEW k \in Hubs, Fetch(h, k)
      PROVE  stage'[g] = "idle"
  BY <1>4, <1>t DEF Fetch, FetchPersonas
<1>5. ASSUME NEW h \in Hubs, Address(h) \/ Tell(h) \/ Silence(h)
      PROVE  stage' = stage
  BY <1>5 DEF Address, Tell, Silence, vars
<1>6. UNCHANGED tvars => stage' = stage
  BY DEF tvars, vars
<1> QED
  BY <1>1, <1>2, <1>3, <1>4, <1>5, <1>6, StepsAside DEF NextTell, Telling

(* Each step keeps the types of the notices. *)
LEMMA NoticeTypes ==
    ASSUME TypeOK, TypeOKTell, [NextTell]_tvars
    PROVE  TypeOKTell'
<1> DEFINE Sets ==
        /\ losers \in [Hubs -> SUBSET Personas]
        /\ addressed \in [Hubs -> SUBSET (Devices \X Personas)]
        /\ told \in [Hubs -> SUBSET (Devices \X Personas)]
        /\ forgotten \in SUBSET Personas
<1>0. \A h \in Hubs, p \in Personas : DevicesOf(h, p) \X {p} \in SUBSET (Devices \X Personas)
  BY DEF DevicesOf
<1>s. Sets
  BY DEF TypeOKTell
<1>1. ASSUME NEW h \in Hubs, Clear(h)
      PROVE  Sets' /\ addressed' = addressed
  BY <1>1, <1>s DEF TypeOK, Clear, Note
<1>2. ASSUME NEW h \in Hubs, Forget(h)
      PROVE  Sets' /\ \A g \in Hubs : addressed'[g] \subseteq addressed[g]
  <2>1. \A a \in addressed[h] : a[2] \in Personas
    BY <1>s
  <2> QED
    BY <1>2, <1>s, <2>1 DEF Forget
<1>3. ASSUME NEW h \in Hubs, Address(h)
      PROVE  Sets' /\ \A g \in Hubs : stage'[g] = "idle" \/ addressed'[g] = addressed[g]
  <2>1. PICK p \in losers[h] :
          /\ losers' = [losers EXCEPT ![h] = @ \ {p}]
          /\ addressed' = [addressed EXCEPT ![h] = DevicesOf(h, p) \X {p}]
    BY <1>3 DEF Address
  <2>2. p \in Personas
    BY <1>s
  <2>3. stage'[h] = "idle" /\ UNCHANGED <<told, forgotten>>
    BY <1>3 DEF Address, vars, merging
  <2> QED
    BY <1>0, <1>s, <2>1, <2>2, <2>3
<1>4. ASSUME NEW h \in Hubs, Tell(h)
      PROVE  Sets' /\ \A g \in Hubs : addressed'[g] \subseteq addressed[g]
  BY <1>4, <1>s DEF Tell
<1>8. ASSUME NEW h \in Hubs, Attach(h)
      PROVE  Sets' /\ addressed' = addressed
  BY <1>8, <1>s DEF Attach
<1>5. ASSUME UNCHANGED notices
      PROVE  Sets' /\ addressed' = addressed
  BY <1>5, <1>s DEF notices
<1>6. Sets' /\ \A g \in Hubs : stage'[g] = "idle" \/ addressed'[g] \subseteq addressed[g]
  <2> HIDE DEF Sets
  <2> QED
    BY <1>1, <1>2, <1>3, <1>4, <1>5, <1>8, NoticeSteps
<1>7. ASSUME NEW g \in Hubs, addressed'[g] # {}
      PROVE  stage'[g] = "idle"
  BY <1>6, <1>7, TellingRests DEF TypeOKTell
<1> QED
  BY <1>6, <1>7 DEF TypeOKTell

(* Notices stay within their types, and a hub that is telling losers does  *)
(* not merge at the same time.                                             *)
THEOREM TellTypeCorrect == SpecTell => []TypeOKTell
<1>1. InitTell => TypeOK /\ TypeOKTell
  BY TypeInit DEF InitTell, TypeOKTell
<1>2. TypeOK /\ TypeOKTell /\ [NextTell]_tvars => (TypeOK /\ TypeOKTell)'
  BY StepOfPersonas, TypeStep, NoticeTypes
<1> QED
  BY <1>1, <1>2, PTL DEF SpecTell

-----------------------------------------------------------------------------
(* Nobody is noted who was not beaten. *)
LEMMA WarnedStep ==
    ASSUME TypeOK, TypeOKTell, Resolved, Agreed, Earned, Warned, ~ Renaming, [NextTell]_tvars
    PROVE  Warned'
<1>0. \A p \in Personas : Beaten(p) => Beaten(p)'
  BY StepOfPersonas, BeatenStays
<1>t. /\ losers \in [Hubs -> SUBSET Personas]
      /\ addressed \in [Hubs -> SUBSET (Devices \X Personas)]
      /\ told \in [Hubs -> SUBSET (Devices \X Personas)]
      /\ clearing \in [Hubs -> SUBSET Personas]
  BY DEF TypeOK, TypeOKTell
<1>1. SUFFICES ASSUME NEW g \in Hubs
               PROVE  /\ \A p \in losers'[g] : p \in Personas /\ Beaten(p)
                      /\ \A a \in addressed'[g] : a[2] \in Personas /\ Beaten(a[2])
                      /\ \A a \in told'[g] : a[2] \in Personas /\ Beaten(a[2])
  BY <1>0 DEF Warned
<1>2. /\ \A p \in losers[g] : p \in Personas /\ Beaten(p)
      /\ \A a \in addressed[g] : a[2] \in Personas /\ Beaten(a[2])
      /\ \A a \in told[g] : a[2] \in Personas /\ Beaten(a[2])
  BY <1>t DEF Warned
<1>3. CASE UNCHANGED notices
  BY <1>2, <1>3 DEF notices
<1>4. ASSUME NEW h \in Hubs, Clear(h)
      PROVE  \A p \in losers'[g] : p \in losers[g] \/ (p \in Personas /\ Beaten(p))
  BY <1>4, <1>t DEF Clear, Note, Earned
<1>5. ASSUME NEW h \in Hubs, Clear(h)
      PROVE  addressed' = addressed /\ told' = told
  BY <1>5 DEF Clear
<1>6. ASSUME NEW h \in Hubs, Forget(h)
      PROVE  losers'[g] \subseteq losers[g] /\ addressed'[g] \subseteq addressed[g] /\ told' = told
  BY <1>6, <1>t DEF Forget
<1>7. ASSUME NEW h \in Hubs, Address(h)
      PROVE  /\ losers'[g] \subseteq losers[g] /\ told' = told
             /\ \A a \in addressed'[g] : a \in addressed[g] \/ a[2] \in losers[g]
  <2>1. PICK p \in losers[h] :
          /\ losers' = [losers EXCEPT ![h] = @ \ {p}]
          /\ addressed' = [addressed EXCEPT ![h] = DevicesOf(h, p) \X {p}]
    BY <1>7 DEF Address
  <2> QED
    BY <1>7, <1>t, <2>1 DEF Address
<1>8. ASSUME NEW h \in Hubs, Tell(h)
      PROVE  /\ losers' = losers /\ addressed'[g] \subseteq addressed[g]
             /\ told'[g] \subseteq told[g] \cup addressed[g]
  BY <1>8, <1>t DEF Tell
<1>9. ASSUME NEW h \in Hubs, Attach(h)
      PROVE  UNCHANGED <<losers, addressed, told>>
  BY <1>9 DEF Attach
<1> QED
  BY <1>2, <1>3, <1>4, <1>5, <1>6, <1>7, <1>8, <1>9, NoticeSteps

(* The earliest claim has not been beaten. *)
LEMMA FirstIsNotBeaten ==
    ASSUME TypeOK, Agreed, NEW p \in Personas, Beaten(p), NEW n, wanted[p] = n
    PROVE  p \notin FirstWith(n)
<1> SUFFICES ASSUME p \in FirstWith(n) PROVE FALSE
  OBVIOUS
<1>1. PICK q \in Personas, h \in Hubs, k \in Hubs :
        /\ q # p /\ wanted[q] = wanted[p]
        /\ Known(h, q) /\ Known(k, p)
        /\ wins(persona[h][q].claimed, q, persona[k][p].claimed, p)
  BY DEF Beaten
<1>2. PICK g \in Hubs : Known(g, p) /\ Known(g, q)
                        /\ wins(persona[g][p].claimed, p, persona[g][q].claimed, q)
  BY <1>1 DEF FirstWith
<1>3. /\ persona[h][q].claimed = persona[g][q].claimed
      /\ persona[k][p].claimed = persona[g][p].claimed
  BY <1>1, <1>2 DEF Agreed
<1> QED
  BY <1>1, <1>2, <1>3, OneWins

(* As long as nobody changes a name, a member is told of the loss of a     *)
(* name only when it is lost for good: once the hubs have settled no hub   *)
(* gives it to that persona, whatever merges, claims and failures there    *)
(* were (usercmds.py:484).                                                 *)
THEOREM TellsOnlyTheBeaten == SpecTell => []NoFalseAlarm
<1> DEFINE Names1 == ~ Renaming => Agreed /\ Earned /\ Unshared /\ Warned
<1> DEFINE Inv == TypeOK /\ TypeOKTell /\ Resolved /\ Names1
<1>1. InitTell => Inv
  BY TypeInit, ResolvedInit, NamesInit DEF InitTell, TypeOKTell, Warned
<1>2. Inv /\ [NextTell]_tvars => Inv'
  <2> SUFFICES ASSUME Inv, [NextTell]_tvars PROVE Inv'
    OBVIOUS
  <2>1. [Next]_vars
    BY StepOfPersonas
  <2>2. TypeOK' /\ TypeOKTell' /\ Resolved'
    BY <2>1, TypeStep, NoticeTypes, ResolvedStep
  <2>3. Names1'
    BY <2>1, NamesStep, WarnedStep
  <2> QED
    BY <2>2, <2>3
<1>3. Inv => NoFalseAlarm
  <2> SUFFICES ASSUME Inv, ~ Renaming, Settled, NEW h \in Hubs, NEW k \in Hubs,
                      NEW a \in told[h], a[2] \in Holders(k, wanted[a[2]])
               PROVE  FALSE
    BY DEF NoFalseAlarm
  <2> DEFINE p == a[2]
  <2>1. p \in Personas /\ Beaten(p)
    BY DEF TypeOKTell, Warned
  <2>2. wanted[p] \in Names
    BY <2>1 DEF TypeOK, Holders
  <2>3. p \in FirstWith(wanted[p])
    BY <2>2, HoldersAreFirst
  <2> QED
    BY <2>1, <2>3, FirstIsNotBeaten
<1> QED
  BY <1>1, <1>2, <1>3, PTL DEF SpecTell

-----------------------------------------------------------------------------
(* Losers are told.  Two hubs, and no codes: a persona has the device it   *)
(* was claimed from, in one row that is never written again.               *)

Uncoded == \A h \in Hubs : live[h] = {} /\ joining[h] = {}

Owned(d, r) == IsCopy(d, r) /\ r.added > 0

(* A persona has one device, wherever its row is. *)
Sole ==
    \A d \in Devices : \A r \in DeviceRows : Owned(d, r) =>
        /\ r.removed = 0 /\ r.persona \in Personas
        /\ \E k \in Hubs : Known(k, r.persona)
        /\ \A e \in Devices : \A s \in DeviceRows :
             Owned(e, s) /\ s.persona = r.persona => e = d /\ s = r

(* The hub has the row or a later one, and never again an earlier one but  *)
(* where it forgets the persona.                                           *)
Safe(h, d, r) ==
    /\ Version(device[h][d]) >= Version(r)
    /\ device[h][d].persona = r.persona \/ ~ Threatened(h, d)

(* Some hub has a later row, for good. *)
Overtaken(d, r) ==
    \E h \in Hubs : Version(device[h][d]) > Version(r) /\ ~ Threatened(h, d)

(* What no device has to do with. *)
Undisturbed ==
    /\ UNCHANGED device
    /\ \A g \in Hubs :
         /\ links'[g] \subseteq links[g]
         /\ stage'[g] = "attach" => stage[g] = "attach" /\ inhand'[g] = inhand[g]

(* A persona that has one device does not lose it. *)
LEMMA NoUnlink ==
    ASSUME TypeOK, Sole, NEW h \in Hubs, NEW d \in Devices, NEW target \in Devices
    PROVE  ~ Unlink(h, d, target)
<1> SUFFICES ASSUME Unlink(h, d, target) PROVE FALSE
  OBVIOUS
<1>1. PICK p \in PersonaOf(h, d) : target \in DevicesOf(h, p) /\ Cardinality(DevicesOf(h, p)) # 1
  BY DEF Unlink
<1>2. ASSUME NEW e \in DevicesOf(h, p)
      PROVE  /\ e \in Devices /\ device[h][e] \in DeviceRows
             /\ Owned(e, device[h][e]) /\ device[h][e].persona = p
  BY DEF DevicesOf, PersonaOf, Linked, Owned, IsCopy, TypeOK
<1>3. \A e \in DevicesOf(h, p) : e = target
  BY <1>1, <1>2 DEF Sole
<1>4. DevicesOf(h, p) = {target}
  BY <1>1, <1>3
<1> QED
  BY <1>1, <1>4, FS_Singleton

(* Four steps concern devices, as long as no codes are minted. *)
LEMMA DevicesInSteps ==
    ASSUME TypeOK, Uncoded, Sole, mints' = 0, [NextTell]_tvars
    PROVE  /\ Uncoded'
           /\ \/ Undisturbed
              \/ \E h \in Hubs :
                   \/ \E d \in Devices, n \in Names \cup {NoName} : NewPersona(h, d, n)
                   \/ FetchDevices(h) \/ TakeDevice(h) \/ Attach(h)
<1> USE DEF tables, merging
<1>t. DOMAIN links = Hubs /\ DOMAIN inhand = Hubs /\ DOMAIN stage = Hubs /\ DOMAIN joining = Hubs
      /\ mints \in Nat
  BY BoundsAssumption DEF TypeOK
<1>1. ASSUME NEW h \in Hubs
      PROVE  /\ \A d \in Devices : ~ MintCode(h, d)
             /\ \A d \in Devices, p \in Personas :
                  ~ Spend(h, d, p) /\ ~ Link(h, d, p) /\ ~ Admit(h, d, p)
             /\ \A p \in Personas : ~ Expire(h, p)
  BY <1>t DEF Uncoded, Spend, Link, Admit, Expire, MintCode
<1>2. ASSUME NEW h \in Hubs, NEW d \in Devices, NEW n \in Names, Rename(h, d, n)
      PROVE  Undisturbed /\ Uncoded'
  BY <1>2 DEF Rename, Undisturbed, Uncoded
<1>3. ASSUME NEW h \in Hubs, NEW k \in Hubs, FetchPersonas(h, k)
      PROVE  Undisturbed /\ Uncoded'
  BY <1>3, <1>t DEF FetchPersonas, Undisturbed, Uncoded
<1>4. ASSUME NEW h \in Hubs, TakePersona(h)
      PROVE  Undisturbed /\ Uncoded'
  <2>1. /\ \A g \in Hubs : g # h => stage'[g] = stage[g] /\ inhand'[g] = inhand[g]
        /\ stage'[h] # "attach"
    BY <1>4, <1>t DEF TakePersona
  <2> QED
    BY <1>4, <2>1 DEF TakePersona, Undisturbed, Uncoded
<1>5. ASSUME NEW h \in Hubs, ClearName(h)
      PROVE  Undisturbed /\ Uncoded'
  BY <1>5, <1>t DEF ClearName, Undisturbed, Uncoded
<1>6. ASSUME NEW h \in Hubs, WritePersona(h)
      PROVE  Undisturbed /\ Uncoded'
  BY <1>6, <1>t DEF WritePersona, Rest, Undisturbed, Uncoded
<1>7. ASSUME NEW h \in Hubs, Merged(h) \/ Failure(h)
      PROVE  Undisturbed /\ Uncoded'
  BY <1>7, <1>t DEF Merged, Failure, MergeRaises, Restart, Rest, Undisturbed, Uncoded
<1>8. ASSUME UNCHANGED vars
      PROVE  Undisturbed /\ Uncoded'
  BY <1>8 DEF vars, Undisturbed, Uncoded
<1>9. ASSUME NEW h \in Hubs,
             \/ \E d \in Devices, n \in Names \cup {NoName} : NewPersona(h, d, n)
             \/ FetchDevices(h) \/ TakeDevice(h) \/ Attach(h)
      PROVE  Uncoded'
  BY <1>9 DEF NewPersona, FetchDevices, TakeDevice, Attach, AttachDevice, Uncoded
<1>10. ASSUME NEW h \in Hubs, Members(h)
       PROVE  \/ Undisturbed /\ Uncoded'
              \/ \E d \in Devices, n \in Names \cup {NoName} : NewPersona(h, d, n)
  <2>1. \A d, target \in Devices : ~ Unlink(h, d, target)
    BY NoUnlink
  <2>2. \/ \E d \in Devices, n \in Names \cup {NoName} : NewPersona(h, d, n)
        \/ \E d \in Devices, n \in Names : Rename(h, d, n)
    BY <1>1, <1>10, <2>1 DEF Members
  <2> QED
    BY <1>2, <2>2
<1>11. ASSUME NEW h \in Hubs, Merging(h)
       PROVE  \/ Undisturbed /\ Uncoded'
              \/ FetchDevices(h) \/ TakeDevice(h) \/ Attach(h)
  BY <1>11, <1>4, <1>5, <1>6, <1>7 DEF Merging, Clear, Write
<1>12. ASSUME NEW h \in Hubs, Telling(h) \/ Silence(h) \/ Fail(h) \/ \E k \in Hubs : Fetch(h, k)
       PROVE  Undisturbed /\ Uncoded'
  BY <1>12, <1>3, <1>7, <1>8 DEF Telling, Address, Tell, Silence, Fail, Fetch
<1>13. UNCHANGED tvars => UNCHANGED vars
  BY DEF tvars
<1> QED
  BY <1>8, <1>9, <1>10, <1>11, <1>12, <1>13 DEF NextTell

(* What becomes of the merge of a hub. *)
LEMMA MergeOf ==
    ASSUME TypeOK, [NextTell]_tvars, NEW g \in Hubs
    PROVE  \/ /\ stage'[g] = stage[g] /\ from'[g] = from[g] /\ rows'[g] = rows[g]
              /\ links'[g] = links[g] /\ inhand'[g] = inhand[g] /\ clearing'[g] = clearing[g]
           \/ FetchDevices(g) \/ TakePersona(g) \/ Clear(g) \/ Write(g)
           \/ TakeDevice(g) \/ Attach(g) \/ Merged(g) \/ Fail(g)
           \/ \E k \in Hubs : Fetch(g, k)
<1> DEFINE Same(h) ==
        /\ stage'[h] = stage[h] /\ from'[h] = from[h] /\ rows'[h] = rows[h]
        /\ links'[h] = links[h] /\ inhand'[h] = inhand[h] /\ clearing'[h] = clearing[h]
<1>t. /\ DOMAIN stage = Hubs /\ DOMAIN from = Hubs /\ DOMAIN rows = Hubs
      /\ DOMAIN links = Hubs /\ DOMAIN inhand = Hubs /\ DOMAIN clearing = Hubs
  BY DEF TypeOK
<1>1. ASSUME NEW h \in Hubs, Command(h) \/ Address(h) \/ Tell(h) \/ Silence(h)
      PROVE  Same(g)
  BY <1>1 DEF Command, NewPersona, Rename, MintCode, Spend, Link, Admit, Expire, Unlink,
              Address, Tell, Silence, vars, merging
<1>2. ASSUME NEW h \in Hubs, h # g,
             \/ FetchDevices(h) \/ TakePersona(h) \/ TakeDevice(h) \/ Merged(h)
             \/ \E k \in Hubs : Fetch(h, k)
      PROVE  Same(g)
  BY <1>2, <1>t DEF FetchDevices, TakePersona, TakeDevice, Merged, Rest, Fetch, FetchPersonas
<1>3. ASSUME NEW h \in Hubs, h # g, Clear(h) \/ Write(h) \/ Attach(h) \/ Fail(h)
      PROVE  Same(g)
  BY <1>3, <1>t DEF Clear, ClearName, Write, WritePersona, Attach, AttachDevice,
                    Fail, Failure, MergeRaises, Restart, Rest
<1>4. UNCHANGED tvars => Same(g)
  BY DEF tvars, vars, merging
<1> HIDE DEF Same
<1>5. \/ Same(g) \/ FetchDevices(g) \/ TakePersona(g) \/ Clear(g) \/ Write(g)
      \/ TakeDevice(g) \/ Attach(g) \/ Merged(g) \/ Fail(g)
      \/ \E k \in Hubs : Fetch(g, k)
  BY <1>1, <1>2, <1>3, <1>4, StepsAside DEF NextTell, Telling
<1> QED
  BY <1>5 DEF Same

(* What becomes of the notices of a hub. *)
LEMMA NoticesOf ==
    ASSUME TypeOKTell, [NextTell]_tvars, NEW g \in Hubs
    PROVE  /\ forgotten \subseteq forgotten'
           /\ told[g] \subseteq told'[g]
           /\ \/ losers'[g] = losers[g] /\ addressed'[g] = addressed[g]
              \/ Clear(g) \/ Forget(g) \/ Address(g) \/ Tell(g)
<1>t. DOMAIN losers = Hubs /\ DOMAIN addressed = Hubs /\ DOMAIN told = Hubs
  BY DEF TypeOKTell
<1>1. ASSUME NEW h \in Hubs, Clear(h)
      PROVE  /\ forgotten' = forgotten /\ told' = told /\ addressed' = addressed
             /\ h # g => losers'[g] = losers[g]
  BY <1>1, <1>t DEF Clear, Note
<1>2. ASSUME NEW h \in Hubs, Attach(h)
      PROVE  forgotten \subseteq forgotten' /\ UNCHANGED <<losers, addressed, told>>
  BY <1>2 DEF Attach
<1>3. ASSUME NEW h \in Hubs, Forget(h)
      PROVE  /\ forgotten \subseteq forgotten' /\ told' = told
             /\ h # g => losers'[g] = losers[g] /\ addressed'[g] = addressed[g]
  BY <1>3, <1>t DEF Forget
<1>4. ASSUME NEW h \in Hubs, Address(h)
      PROVE  /\ forgotten' = forgotten /\ told' = told
             /\ h # g => losers'[g] = losers[g] /\ addressed'[g] = addressed[g]
  BY <1>4, <1>t DEF Address
<1>5. ASSUME NEW h \in Hubs, Tell(h)
      PROVE  /\ forgotten' = forgotten /\ told[g] \subseteq told'[g] /\ losers' = losers
             /\ h # g => addressed'[g] = addressed[g]
  BY <1>5, <1>t DEF Tell
<1>6. UNCHANGED notices => UNCHANGED <<losers, addressed, told, forgotten>>
  BY DEF notices
<1> QED
  BY <1>1, <1>2, <1>3, <1>4, <1>5, <1>6, NoticeSteps

(* What becomes of a persona on a hub, as long as nobody is renamed. *)
LEMMA PersonaOn ==
    ASSUME TypeOK, ~ Renaming, [NextTell]_tvars, NEW g \in Hubs, NEW p \in Personas
    PROVE  \/ persona'[g][p] = persona[g][p]
           \/ /\ \A k \in Hubs : ~ Known(k, p)
              /\ persona'[g][p].rev = 1 /\ persona'[g][p].updated = persona'[g][p].claimed
              /\ persona'[g][p].name = wanted'[p]
           \/ /\ Clear(g) /\ p \in clearing[g]
              /\ persona'[g][p] = Renamed(persona[g][p], NoName)
           \/ /\ stage[g] = "write" /\ stage'[g] = "rows"
              /\ \E x \in inhand[g] : x.id = p /\ persona'[g][p] = x.row
<1>t. /\ persona \in [Hubs -> [Personas -> PersonaRows]] /\ DOMAIN stage = Hubs
      /\ wanted \in [Personas -> Names \cup {NoName}]
  BY DEF TypeOK
<1> DEFINE Same == persona' = persona
<1>1. ASSUME NEW h \in Hubs, NEW d \in Devices, NEW n \in Names \cup {NoName}, NewPersona(h, d, n)
      PROVE  \/ persona'[g][p] = persona[g][p]
             \/ /\ \A k \in Hubs : ~ Known(k, p)
                /\ persona'[g][p].rev = 1 /\ persona'[g][p].updated = persona'[g][p].claimed
                /\ persona'[g][p].name = wanted'[p]
  BY <1>1, <1>t DEF NewPersona
<1>2. ASSUME NEW h \in Hubs,
             \/ \E d \in Devices : MintCode(h, d)
             \/ \E d \in Devices, q \in Personas : Spend(h, d, q) \/ Link(h, d, q) \/ Admit(h, d, q)
             \/ \E q \in Personas : Expire(h, q)
             \/ \E d, target \in Devices : Unlink(h, d, target)
      PROVE  Same
  BY <1>2 DEF MintCode, Spend, Link, Admit, Expire, Unlink
<1>3. ASSUME NEW h \in Hubs
      PROVE  \A d \in Devices, n \in Names : ~ Rename(h, d, n)
  BY DEF Rename
<1>4. ASSUME NEW h \in Hubs, Clear(h)
      PROVE  \/ persona'[g][p] = persona[g][p]
             \/ /\ Clear(g) /\ p \in clearing[g]
                /\ persona'[g][p] = Renamed(persona[g][p], NoName)
  BY <1>4, <1>t DEF Clear, ClearName
<1>5. ASSUME NEW h \in Hubs, Write(h)
      PROVE  \/ persona'[g][p] = persona[g][p]
             \/ /\ stage[g] = "write" /\ stage'[g] = "rows"
                /\ \E x \in inhand[g] : x.id = p /\ persona'[g][p] = x.row
  BY <1>5, <1>t DEF Write, WritePersona
<1>6. ASSUME NEW h \in Hubs,
             \/ FetchDevices(h) \/ TakePersona(h) \/ TakeDevice(h) \/ Attach(h) \/ Merged(h)
             \/ Fail(h) \/ \E k \in Hubs : Fetch(h, k)
      PROVE  Same
  BY <1>6 DEF FetchDevices, TakePersona, TakeDevice, Attach, AttachDevice, Merged,
              Fail, Failure, MergeRaises, Restart, Fetch, FetchPersonas, tables
<1>7. ASSUME NEW h \in Hubs, Address(h) \/ Tell(h) \/ Silence(h)
      PROVE  Same
  BY <1>7 DEF Address, Tell, Silence, vars, tables
<1>8. UNCHANGED tvars => Same
  BY DEF tvars, vars, tables
<1> HIDE DEF Same
<1>9. Same => persona'[g][p] = persona[g][p]
  BY DEF Same
<1> QED
  BY <1>1, <1>2, <1>3, <1>4, <1>5, <1>6, <1>7, <1>8, <1>9, StepsAside DEF NextTell, Telling, Command

-----------------------------------------------------------------------------
(* A merge has one row in hand, takes no name from the persona it is about,*)
(* and fetches from another hub.                                           *)
Orderly ==
    \A h \in Hubs :
        /\ stage[h] = "fetch" => from[h] # h
        /\ \A x, y \in inhand[h] : x = y
        /\ stage[h] = "clear" => \A x \in inhand[h] : x.id \notin clearing[h]

LEMMA OrderlyStep ==
    ASSUME TypeOK, Orderly, [NextTell]_tvars
    PROVE  Orderly'
<1>t. /\ DOMAIN stage = Hubs /\ DOMAIN from = Hubs /\ DOMAIN inhand = Hubs
      /\ DOMAIN clearing = Hubs
  BY DEF TypeOK
<1> SUFFICES ASSUME NEW h \in Hubs
             PROVE  /\ stage'[h] = "fetch" => from'[h] # h
                    /\ \A x, y \in inhand'[h] : x = y
                    /\ stage'[h] = "clear" => \A x \in inhand'[h] : x.id \notin clearing'[h]
  BY DEF Orderly
<1>0. /\ stage[h] = "fetch" => from[h] # h
      /\ \A x, y \in inhand[h] : x = y
      /\ stage[h] = "clear" => \A x \in inhand[h] : x.id \notin clearing[h]
  BY DEF Orderly
<1>1. CASE /\ stage'[h] = stage[h] /\ from'[h] = from[h]
           /\ inhand'[h] = inhand[h] /\ clearing'[h] = clearing[h]
  BY <1>0, <1>1
<1>2. CASE FetchDevices(h) \/ Clear(h) \/ TakeDevice(h) \/ Attach(h)
  BY <1>0, <1>2, <1>t DEF FetchDevices, Clear, ClearName, TakeDevice, Attach, AttachDevice
<1>3. CASE Write(h) \/ Merged(h) \/ Fail(h)
  BY <1>0, <1>3, <1>t DEF Write, WritePersona, Merged, Fail, Failure, MergeRaises, Restart, Rest
<1>4. CASE \E k \in Hubs : Fetch(h, k)
  <2>1. stage'[h] = "fetch" /\ from'[h] # h /\ inhand'[h] = inhand[h]
    BY <1>4, <1>t DEF Fetch, FetchPersonas
  <2> QED
    BY <1>0, <2>1
<1>5. CASE TakePersona(h)
  <2>1. PICK x \in First(rows[h]) :
          LET others == Holders(h, x.row.name) \ {x.id}
              lost == \E q \in others : wins(persona[h][q].claimed, q, x.row.claimed, x.id)
          IN  IF ~ Newer(x.row, persona[h][x.id])
              THEN UNCHANGED <<stage, inhand, clearing>>
              ELSE /\ inhand' = [inhand EXCEPT ![h] =
                                   IF lost THEN {[x EXCEPT !.row.name = NoName]} ELSE {x}]
                   /\ clearing' = [clearing EXCEPT ![h] = IF lost THEN {} ELSE others]
                   /\ stage' = [stage EXCEPT ![h] =
                                  IF clearing'[h] = {} THEN "write" ELSE "clear"]
    BY <1>5 DEF TakePersona
  <2>2. stage[h] = "rows"
    BY <1>5 DEF TakePersona
  <2> DEFINE lost == \E q \in Holders(h, x.row.name) \ {x.id} :
                       wins(persona[h][q].claimed, q, x.row.claimed, x.id)
  <2> HIDE DEF lost
  <2>3. \/ UNCHANGED <<stage, inhand, clearing>>
        \/ /\ inhand'[h] = IF lost THEN {[x EXCEPT !.row.name = NoName]} ELSE {x}
           /\ clearing'[h] = IF lost THEN {} ELSE Holders(h, x.row.name) \ {x.id}
           /\ stage'[h] \in {"write", "clear"}
    BY <2>1, <1>t DEF lost
  <2>4. CASE UNCHANGED <<stage, inhand, clearing>>
    BY <2>2, <2>4, <1>0
  <2>5. CASE lost
    BY <2>2, <2>3, <2>4, <2>5
  <2>6. CASE ~ lost
    BY <2>2, <2>3, <2>4, <2>6
  <2> QED
    BY <2>5, <2>6
<1> QED
  BY <1>1, <1>2, <1>3, <1>4, <1>5, MergeOf

(* A claim puts a persona nobody knew on one device. *)
LEMMA Born ==
    ASSUME TypeOK, NEW h \in Hubs, NEW d \in Devices, NEW n \in Names \cup {NoName},
           NewPersona(h, d, n)
    PROVE  \E p \in Personas, new \in DeviceRows :
             /\ \A k \in Hubs : ~ Known(k, p)
             /\ new.persona = p /\ new.added > 0 /\ new.removed = 0
             /\ device' = [device EXCEPT ![h][d] = new]
             /\ persona'[h][p].rev = 1
             /\ \A g \in Hubs, q \in Personas :
                  g # h \/ q # p => persona'[g][q] = persona[g][q]
             /\ UNCHANGED <<rows, links, inhand, stage, roles>>
<1> USE DEF tables, merging
<1>t. persona \in [Hubs -> [Personas -> PersonaRows]]
  BY DEF TypeOK
<1>1. PICK p \in Personas, now \in {clock, clock + 1} :
        /\ \A k \in Hubs : ~ Known(k, p)
        /\ now = clock => clock > 0
        /\ persona' = [persona EXCEPT ![h][p] =
                         [name |-> n, claimed |-> now, rev |-> 1, updated |-> now]]
        /\ device' = [device EXCEPT ![h][d] = [persona |-> p, added |-> now, removed |-> 0]]
  BY DEF NewPersona
<1>2. now \in 0..MaxTime /\ now > 0
  BY <1>1, BoundsAssumption DEF TypeOK, NewPersona, Serves
<1> DEFINE new == [persona |-> p, added |-> now, removed |-> 0]
<1>3. /\ new \in DeviceRows /\ new.persona = p /\ new.added > 0 /\ new.removed = 0
      /\ device' = [device EXCEPT ![h][d] = new]
  BY <1>1, <1>2, BoundsAssumption DEF DeviceRows
<1>4. /\ persona'[h][p].rev = 1
      /\ \A g \in Hubs, q \in Personas :
           g # h \/ q # p => persona'[g][q] = persona[g][q]
      /\ UNCHANGED <<rows, links, inhand, stage, roles>>
  BY <1>1, <1>t DEF NewPersona
<1> HIDE DEF new
<1> QED
  BY <1>1, <1>3, <1>4

(* A claim or a merge is all that gives a device a row, and only a claim a *)
(* row it had nowhere.                                                     *)
LEMMA CopiesStep ==
    ASSUME TypeOK, Uncoded, Sole, mints' = 0, [NextTell]_tvars,
           NEW e \in Devices, NEW r \in DeviceRows, IsCopy(e, r)'
    PROVE  \/ IsCopy(e, r)
           \/ \E h \in Hubs, n \in Names \cup {NoName} : NewPersona(h, e, n) /\ r = device'[h][e]
<1>t. /\ device \in [Hubs -> [Devices -> DeviceRows]]
      /\ DOMAIN links = Hubs /\ DOMAIN inhand = Hubs /\ DOMAIN stage = Hubs
  BY DEF TypeOK
<1>1. CASE Undisturbed
  <2>1. device' = device /\ \A g \in Hubs : Carried(g)' \subseteq Carried(g)
    BY <1>1 DEF Undisturbed, Carried
  <2> QED
    BY <2>1 DEF IsCopy
<1>2. ASSUME NEW h \in Hubs, NEW d \in Devices, NEW n \in Names \cup {NoName}, NewPersona(h, d, n)
      PROVE  IsCopy(e, r) \/ (d = e /\ r = device'[h][e])
  <2>1. PICK new \in DeviceRows : /\ device' = [device EXCEPT ![h][d] = new]
                                  /\ UNCHANGED <<links, inhand, stage>>
    BY <1>2, Born
  <2>2. \A g \in Hubs : Carried(g)' = Carried(g)
    BY <2>1 DEF Carried
  <2> QED
    BY <2>1, <2>2, <1>t DEF IsCopy
<1>3. ASSUME NEW h \in Hubs, FetchDevices(h)
      PROVE  IsCopy(e, r)
  <2>1. from[h] \in Hubs
    BY DEF TypeOK
  <2>2. \A g \in Hubs : \A x \in Carried(g)' :
          \/ x \in Carried(g)
          \/ x.id \in Devices /\ x.row = device[from[h]][x.id]
    BY <1>3, <1>t DEF FetchDevices, Carried
  <2>3. device' = device
    BY <1>3 DEF FetchDevices, tables
  <2> QED
    BY <2>1, <2>2, <2>3 DEF IsCopy
<1>4. ASSUME NEW h \in Hubs, TakeDevice(h)
      PROVE  IsCopy(e, r)
  <2>1. device' = device /\ \A g \in Hubs : Carried(g)' \subseteq Carried(g)
    BY <1>4, <1>t DEF TakeDevice, Carried, tables
  <2> QED
    BY <2>1 DEF IsCopy
<1>5. ASSUME NEW h \in Hubs, Attach(h)
      PROVE  IsCopy(e, r)
  <2>1. PICK x \in inhand[h] : device' = [device EXCEPT ![h][x.id] = x.row]
    BY <1>5 DEF Attach, AttachDevice
  <2>2. x \in Carried(h) /\ x.id \in Devices /\ x.row \in DeviceRows
    BY <1>5, <2>1, CarriedType DEF Attach, AttachDevice, Carried
  <2>3. \A g \in Hubs : Carried(g)' \subseteq Carried(g)
    BY <1>5, <1>t DEF Attach, AttachDevice, Carried
  <2> QED
    BY <2>1, <2>2, <2>3, <1>t DEF IsCopy
<1> QED
  BY <1>1, <1>2, <1>3, <1>4, <1>5, DevicesInSteps

(* A persona keeps its one row. *)
LEMMA SoleStep ==
    ASSUME TypeOK, Resolved, Uncoded, Sole, mints' = 0, [NextTell]_tvars
    PROVE  Sole'
<1>1. [Next]_vars
  BY StepOfPersonas
<1>2. ASSUME NEW e \in Devices, NEW r \in DeviceRows, Owned(e, r)
      PROVE  /\ r.removed = 0 /\ r.persona \in Personas
             /\ \E k \in Hubs : Known(k, r.persona) /\ Known(k, r.persona)'
  BY <1>1, <1>2, KnownStays DEF Sole
<1>3. CASE \A e \in Devices : \A r \in DeviceRows : IsCopy(e, r)' => IsCopy(e, r)
  <2>1. \A e \in Devices : \A r \in DeviceRows : Owned(e, r)' => Owned(e, r)
    BY <1>3 DEF Owned
  <2>2. \A d, e \in Devices : \A r, s \in DeviceRows :
          Owned(d, r) /\ Owned(e, s) /\ s.persona = r.persona => e = d /\ s = r
    BY DEF Sole
  <2>3. \A d, e \in Devices : \A r, s \in DeviceRows :
          Owned(d, r)' /\ Owned(e, s)' /\ s.persona = r.persona => e = d /\ s = r
    BY <2>1, <2>2
  <2>4. \A d \in Devices : \A r \in DeviceRows : Owned(d, r)' =>
          r.removed = 0 /\ r.persona \in Personas /\ \E k \in Hubs : Known(k, r.persona)'
    BY <1>2, <2>1
  <2> QED
    BY <2>3, <2>4 DEF Sole
<1>4. ASSUME NEW h \in Hubs, NEW d \in Devices, NEW n \in Names \cup {NoName}, NewPersona(h, d, n)
      PROVE  Sole'
  <2>1. PICK p \in Personas, new \in DeviceRows :
          /\ \A k \in Hubs : ~ Known(k, p)
          /\ new.persona = p /\ new.added > 0 /\ new.removed = 0
          /\ device' = [device EXCEPT ![h][d] = new]
          /\ persona'[h][p].rev = 1
          /\ UNCHANGED <<links, inhand, stage>>
    BY <1>4, Born
  <2>2. Known(h, p)'
    BY <2>1 DEF Known
  <2>3. \A e \in Devices : \A r \in DeviceRows : Owned(e, r)' => Owned(e, r) \/ (e = d /\ r = new)
    <3>1. \A g \in Hubs : Carried(g)' = Carried(g)
      BY <2>1 DEF Carried
    <3>2. device \in [Hubs -> [Devices -> DeviceRows]]
      BY DEF TypeOK
    <3> QED
      BY <2>1, <3>1, <3>2 DEF Owned, IsCopy
  <2>4. \A e \in Devices : \A r \in DeviceRows : Owned(e, r) => r.persona # p
    BY <1>2, <2>1
  <2>5. \A c, e \in Devices : \A r, s \in DeviceRows :
          Owned(c, r) /\ Owned(e, s) /\ s.persona = r.persona => e = c /\ s = r
    BY DEF Sole
  <2>6. \A c, e \in Devices : \A r, s \in DeviceRows :
          Owned(c, r)' /\ Owned(e, s)' /\ s.persona = r.persona => e = c /\ s = r
    BY <2>1, <2>3, <2>4, <2>5
  <2>7. \A c \in Devices : \A r \in DeviceRows : Owned(c, r)' =>
          r.removed = 0 /\ r.persona \in Personas /\ \E k \in Hubs : Known(k, r.persona)'
    BY <1>2, <2>1, <2>2, <2>3
  <2> QED
    BY <2>6, <2>7 DEF Sole
<1> QED
  BY <1>3, <1>4, CopiesStep

(* What becomes of a device on a hub: its row falls back only where the    *)
(* hub forgets its persona, and a device without a row may get one.        *)
LEMMA RowStep ==
    ASSUME TypeOK, TypeOKTell, Uncoded, Sole, mints' = 0, [NextTell]_tvars,
           NEW g \in Hubs, NEW e \in Devices
    PROVE  \/ device'[g][e] = device[g][e] /\ (Threatened(g, e)' => Threatened(g, e))
           \/ device[g][e].added = 0
           \/ /\ ~ Threatened(g, e)'
              /\ Version(device'[g][e]) < Version(device[g][e]) =>
                   Threatened(g, e) /\ device[g][e].persona \in forgotten' \cup {0}
<1>t. /\ device \in [Hubs -> [Devices -> DeviceRows]]
      /\ DOMAIN links = Hubs /\ DOMAIN inhand = Hubs /\ DOMAIN stage = Hubs
  BY DEF TypeOK
<1>1. CASE Undisturbed
  BY <1>1 DEF Undisturbed, Threatened
<1>2. ASSUME NEW h \in Hubs, NEW d \in Devices, NEW n \in Names \cup {NoName}, NewPersona(h, d, n)
      PROVE  \/ device'[g][e] = device[g][e] /\ (Threatened(g, e)' => Threatened(g, e))
             \/ device[g][e].added = 0
  <2>1. PICK new \in DeviceRows : /\ device' = [device EXCEPT ![h][d] = new]
                                  /\ UNCHANGED <<links, inhand, stage>>
    BY <1>2, Born
  <2>2. CASE g = h /\ e = d
    <3>1. ~ Linked(h, d) \/ device[h][d].persona \notin Personas
      BY <1>2 DEF NewPersona, PersonaOf
    <3>2. device[h][d].added > 0 => Owned(d, device[h][d])
      BY DEF Owned, IsCopy
    <3>3. ~ device[h][d].added > 0
      BY <3>1, <3>2, <1>t DEF Sole, Linked
    <3>4. device[h][d].added \in Nat
      BY <1>t, VersionType
    <3> QED
      BY <2>2, <3>3, <3>4
  <2>3. CASE ~ (g = h /\ e = d)
    BY <2>1, <2>3, <1>t DEF Threatened
  <2> QED
    BY <2>2, <2>3
<1>3. ASSUME NEW h \in Hubs, FetchDevices(h)
      PROVE  device'[g][e] = device[g][e] /\ (Threatened(g, e)' => Threatened(g, e))
  BY <1>3, <1>t DEF FetchDevices, Threatened, tables
<1>4. ASSUME NEW h \in Hubs, TakeDevice(h)
      PROVE  device'[g][e] = device[g][e] /\ (Threatened(g, e)' => Threatened(g, e))
  <2>1. device' = device /\ stage[h] = "rows"
    BY <1>4 DEF TakeDevice, tables
  <2>2. PICK x \in links[h] :
          IF Known(h, x.row.persona) /\ Version(x.row) > Version(device[h][x.id])
          THEN inhand' = [inhand EXCEPT ![h] = {x}] /\ stage' = [stage EXCEPT ![h] = "attach"]
          ELSE UNCHANGED <<inhand, stage>>
    BY <1>4 DEF TakeDevice
  <2>3. x \in Carried(h)
    BY DEF Carried
  <2>4. x.row \in DeviceRows /\ device[h][x.id] \in DeviceRows
    BY <2>3, CarriedType, <1>t
  <2>5. ~ (Version(x.row) > Version(device[h][x.id]) /\ Version(x.row) < Version(device[h][x.id]))
    BY <2>4, VersionType
  <2>6. CASE g = h
    BY <2>1, <2>2, <2>5, <2>6, <1>t DEF Threatened
  <2>7. CASE g # h
    BY <2>1, <2>2, <2>7, <1>t DEF Threatened
  <2> QED
    BY <2>6, <2>7
<1>5. ASSUME NEW h \in Hubs, Attach(h)
      PROVE  \/ device'[g][e] = device[g][e] /\ (Threatened(g, e)' => Threatened(g, e))
             \/ /\ ~ Threatened(g, e)'
                /\ Version(device'[g][e]) < Version(device[g][e]) =>
                     Threatened(g, e) /\ device[g][e].persona \in forgotten' \cup {0}
  <2>1. PICK x \in inhand[h] : device' = [device EXCEPT ![h][x.id] = x.row]
    BY <1>5 DEF Attach, AttachDevice
  <2>2. /\ stage[h] = "attach"
        /\ stage' = [stage EXCEPT ![h] = "rows"] /\ inhand' = [inhand EXCEPT ![h] = {}]
    BY <1>5 DEF Attach, AttachDevice
  <2>3. CASE g # h
    BY <2>1, <2>2, <2>3, <1>t DEF Threatened
  <2>4. CASE g = h /\ e # x.id
    BY <2>1, <2>2, <2>4, <1>t DEF Threatened
  <2>5. CASE g = h /\ e = x.id
    <3>1. device'[h][e] = x.row /\ ~ Threatened(h, e)'
      BY <2>1, <2>2, <2>5, <1>t DEF Threatened
    <3>2. Version(x.row) < Version(device[h][e]) => Threatened(h, e)
      BY <2>2, <2>5 DEF Threatened
    <3>3. device[h][e].persona \in Personas \cup {0}
      BY <1>t DEF DeviceRows
    <3>4. ASSUME Version(device'[h][e]) < Version(device[h][e]), device[h][e].persona \in Personas
          PROVE  device[h][e].persona \in forgotten'
      BY <1>5, <3>4 DEF Attach
    <3> QED
      BY <2>5, <3>1, <3>2, <3>3, <3>4
  <2> QED
    BY <2>3, <2>4, <2>5
<1> QED
  BY <1>1, <1>2, <1>3, <1>4, <1>5, DevicesInSteps

(* Who has a row of a later version has a row. *)
LEMMA Blank ==
    ASSUME TypeOK, Stamped, NEW h \in Hubs, NEW d \in Devices, device[h][d].added = 0
    PROVE  Version(device[h][d]) = 0
BY DEF TypeOK, Stamped, IsCopy, NoDevice, Version

LEMMA OvertakenStays ==
    ASSUME TypeOK, TypeOK', TypeOKTell, Stamped, Uncoded, Sole, mints' = 0, [NextTell]_tvars,
           NEW d \in Devices, NEW r \in DeviceRows, Overtaken(d, r)
    PROVE  Overtaken(d, r)'
<1>1. PICK h \in Hubs : Version(device[h][d]) > Version(r) /\ ~ Threatened(h, d)
  BY DEF Overtaken
<1>2. /\ Version(r) \in Nat /\ Version(device[h][d]) \in Nat /\ Version(device'[h][d]) \in Nat
  BY VersionType DEF TypeOK
<1>3. device[h][d].added # 0
  BY <1>1, <1>2, Blank
<1>4. Version(device'[h][d]) > Version(r) /\ ~ Threatened(h, d)'
  BY <1>1, <1>2, <1>3, RowStep
<1> QED
  BY <1>4 DEF Overtaken

LEMMA SafeStays ==
    ASSUME TypeOK, TypeOK', TypeOKTell, Stamped, Uncoded, Sole, mints' = 0, [NextTell]_tvars,
           NEW h \in Hubs, NEW d \in Devices, NEW r \in DeviceRows, Owned(d, r),
           Safe(h, d, r), r.persona \notin forgotten'
    PROVE  Safe(h, d, r)'
<1>1. /\ Version(r) \in Nat /\ Version(r) > 0
      /\ Version(device[h][d]) \in Nat /\ Version(device'[h][d]) \in Nat
  BY VersionType DEF TypeOK, Owned
<1>2. device[h][d].added # 0
  BY <1>1, Blank DEF Safe
<1>3. r.persona # 0
  BY OrdersAssumption DEF Sole
<1>4. CASE device'[h][d] = device[h][d] /\ (Threatened(h, d)' => Threatened(h, d))
  BY <1>4 DEF Safe
<1>5. CASE /\ ~ Threatened(h, d)'
           /\ Version(device'[h][d]) < Version(device[h][d]) =>
                Threatened(h, d) /\ device[h][d].persona \in forgotten' \cup {0}
  <2>1. ~ Version(device'[h][d]) < Version(device[h][d])
    BY <1>3, <1>5 DEF Safe
  <2> QED
    BY <1>1, <1>5, <2>1 DEF Safe
<1> QED
  BY <1>2, <1>4, <1>5, RowStep

(* A hub that is safe has the row, unless there is a later one. *)
LEMMA SafeHere ==
    ASSUME TypeOK, Stamped, Sole, NEW h \in Hubs, NEW d \in Devices, NEW r \in DeviceRows,
           Owned(d, r), Safe(h, d, r)
    PROVE  device[h][d] = r \/ Overtaken(d, r)
<1>1. /\ Version(r) \in Nat /\ Version(r) > 0
      /\ device[h][d] \in DeviceRows /\ Version(device[h][d]) \in Nat
      /\ device[h][d].added \in Nat
  BY VersionType DEF TypeOK, Owned
<1>2. Owned(d, device[h][d])
  <2>1. device[h][d].added # 0
    BY <1>1, Blank DEF Safe
  <2> QED
    BY <1>1, <2>1 DEF Owned, IsCopy
<1>3. CASE Version(device[h][d]) = Version(r)
  BY <1>1, <1>2, <1>3 DEF Stamped, Owned
<1>4. CASE device[h][d].persona = r.persona
  BY <1>1, <1>2, <1>4 DEF Sole
<1>5. CASE Version(device[h][d]) # Version(r) /\ ~ Threatened(h, d)
  BY <1>1, <1>5 DEF Safe, Overtaken
<1> QED
  BY <1>3, <1>4, <1>5 DEF Safe

-----------------------------------------------------------------------------
(* Somewhere the row of a device is safe. *)
Home ==
    \A d \in Devices : \A r \in DeviceRows :
        Owned(d, r) /\ r.persona \notin forgotten => \E o \in Hubs : Safe(o, d, r)

LEMMA HomeStep ==
    ASSUME TypeOK, TypeOK', TypeOKTell, Stamped, Uncoded, Sole, Home, mints' = 0,
           [NextTell]_tvars
    PROVE  Home'
<1> SUFFICES ASSUME NEW d \in Devices, NEW r \in DeviceRows,
                    Owned(d, r)', r.persona \notin forgotten'
             PROVE  \E o \in Hubs : Safe(o, d, r)'
  BY DEF Home
<1>1. CASE IsCopy(d, r)
  <2>1. Owned(d, r)
    BY <1>1 DEF Owned
  <2>2. r.persona \notin forgotten
    <3>1. forgotten \subseteq forgotten'
      BY NoticesOf DEF Home, Owned, IsCopy
    <3> QED
      BY <3>1
  <2> QED
    BY <2>1, <2>2, SafeStays DEF Home
<1>2. ASSUME NEW h \in Hubs, r = device'[h][d]
      PROVE  Safe(h, d, r)'
  BY <1>2, VersionType DEF Safe
<1> QED
  BY <1>1, <1>2, CopiesStep DEF Owned

-----------------------------------------------------------------------------
(* Revisions.  Some hub has taken the name from the persona. *)
Lost(p) == \E k \in Hubs : persona[k][p].rev > 1

(* A first revision is as it was claimed; a later one travels only where   *)
(* the name is lost; and a merge never puts a first revision over another. *)
Bumped ==
    /\ \A h \in Hubs, p \in Personas :
         persona[h][p].rev = 1 => persona[h][p].updated = persona[h][p].claimed
    /\ \A h \in Hubs : \A x \in Travelling(h) :
         /\ x.row.rev = 1 => x.row.updated = x.row.claimed
         /\ x.row.rev > 1 => Lost(x.id)
    /\ \A h \in Hubs : stage[h] \in {"clear", "write"} => \A x \in inhand[h] :
         /\ x.row.rev >= persona[h][x.id].rev
         /\ persona[h][x.id].rev = 1 => x.row.rev > 1

(* A name stays with its persona until some hub takes it. *)
Kept ==
    \A p \in Personas : wanted[p] # NoName =>
        Lost(p) \/ \E o \in Hubs : Known(o, p) /\ persona[o][p].name # NoName

(* Where a persona's rows on the way come from. *)
LEMMA TravelStep ==
    ASSUME TypeOK, [NextTell]_tvars, NEW h \in Hubs, NEW x \in Travelling(h)'
    PROVE  \/ \E y \in Travelling(h) :
                /\ x.id = y.id /\ x.row.rev = y.row.rev
                /\ x.row.updated = y.row.updated /\ x.row.claimed = y.row.claimed
           \/ \E k \in Hubs : x.id \in Personas /\ Known(k, x.id) /\ x.row = persona[k][x.id]
                              /\ stage'[h] = "fetch"
<1>t. /\ rows \in [Hubs -> SUBSET FetchedRows] /\ DOMAIN inhand = Hubs /\ DOMAIN stage = Hubs
  BY DEF TypeOK
<1>1. CASE stage'[h] = stage[h] /\ rows'[h] = rows[h] /\ inhand'[h] = inhand[h]
  BY <1>1 DEF Travelling
<1>2. CASE FetchDevices(h) \/ TakeDevice(h) \/ Attach(h)
  BY <1>2, <1>t DEF FetchDevices, TakeDevice, Attach, AttachDevice, Travelling
<1>3. CASE Clear(h)
  BY <1>3, <1>t DEF Clear, ClearName, Travelling
<1>4. CASE Write(h) \/ Merged(h) \/ Fail(h)
  BY <1>4, <1>t DEF Write, WritePersona, Merged, Fail, Failure, MergeRaises, Restart, Rest,
                    Travelling
<1>5. ASSUME NEW k \in Hubs, Fetch(h, k)
      PROVE  /\ stage'[h] = "fetch"
             /\ \E p \in Personas : Known(k, p) /\ x = [id |-> p, row |-> persona[k][p]]
  BY <1>5, <1>t DEF Fetch, FetchPersonas, Travelling
<1>6. ASSUME TakePersona(h)
      PROVE  \E y \in Travelling(h) :
                /\ x.id = y.id /\ x.row.rev = y.row.rev
                /\ x.row.updated = y.row.updated /\ x.row.claimed = y.row.claimed
  <2>1. PICK y \in First(rows[h]) :
          LET others == Holders(h, y.row.name) \ {y.id}
              lost == \E q \in others : wins(persona[h][q].claimed, q, y.row.claimed, y.id)
          IN  /\ rows' = [rows EXCEPT ![h] = @ \ {y}]
              /\ IF ~ Newer(y.row, persona[h][y.id])
                 THEN UNCHANGED <<stage, inhand, clearing>>
                 ELSE inhand' = [inhand EXCEPT ![h] =
                                   IF lost THEN {[y EXCEPT !.row.name = NoName]} ELSE {y}]
    BY <1>6 DEF TakePersona
  <2>2. stage[h] = "rows" /\ y \in rows[h] /\ y \in FetchedRows
    BY <1>6, <1>t, <2>1 DEF TakePersona, First
  <2>3. x \in rows[h] \/ x = y \/ x = [y EXCEPT !.row.name = NoName]
    <3> DEFINE lost == \E q \in Holders(h, y.row.name) \ {y.id} :
                         wins(persona[h][q].claimed, q, y.row.claimed, y.id)
    <3> HIDE DEF lost
    <3>1. /\ rows'[h] = rows[h] \ {y}
          /\ \/ UNCHANGED <<stage, inhand, clearing>>
             \/ inhand'[h] = IF lost THEN {[y EXCEPT !.row.name = NoName]} ELSE {y}
      BY <2>1, <1>t DEF lost
    <3> QED
      BY <2>2, <3>1 DEF Travelling
  <2>4. /\ [y EXCEPT !.row.name = NoName].id = y.id
        /\ [y EXCEPT !.row.name = NoName].row.rev = y.row.rev
        /\ [y EXCEPT !.row.name = NoName].row.updated = y.row.updated
        /\ [y EXCEPT !.row.name = NoName].row.claimed = y.row.claimed
    BY <2>2 DEF FetchedRows, PersonaRows
  <2> QED
    BY <2>2, <2>3, <2>4 DEF Travelling
<1> QED
  BY <1>1, <1>2, <1>3, <1>4, <1>5, <1>6, MergeOf

(* Persona rows on the way are about personas some hub knows. *)
LEMMA TravelKnown ==
    ASSUME TypeOK, Earned, NEW h \in Hubs, NEW x \in Travelling(h)
    PROVE  x.id \in Personas /\ \E k \in Hubs : Known(k, x.id)
BY PersonaTypes DEF Earned, Rightful

(* A lost name stays lost. *)
LEMMA LostStays ==
    ASSUME TypeOK, Bumped, ~ Renaming, [NextTell]_tvars, NEW p \in Personas, Lost(p)
    PROVE  Lost(p)'
<1>1. PICK k \in Hubs : persona[k][p].rev > 1
  BY DEF Lost
<1>2. persona[k][p].rev \in Nat /\ Known(k, p)
  BY <1>1, PersonaTypes DEF Known
<1>3. persona'[k][p].rev > 1
  <2>1. CASE persona'[k][p] = Renamed(persona[k][p], NoName)
    BY <1>1, <1>2, <2>1 DEF Renamed
  <2>2. ASSUME stage[k] = "write", NEW x \in inhand[k], x.id = p, persona'[k][p] = x.row
        PROVE  persona'[k][p].rev > 1
    <3>1. x.row.rev >= persona[k][p].rev /\ x \in Travelling(k)
      BY <2>2 DEF Bumped, Travelling
    <3>2. x.row.rev \in Nat
      BY <3>1, PersonaTypes DEF PersonaRows
    <3> QED
      BY <1>1, <1>2, <2>2, <3>1, <3>2
  <2> QED
    BY <1>1, <1>2, <2>1, <2>2, PersonaOn
<1> QED
  BY <1>3 DEF Lost

(* A name is lost where a merge takes it. *)
LEMMA NewlyLost ==
    ASSUME TypeOK, Bumped, ~ Renaming, [NextTell]_tvars, NEW p \in Personas, Lost(p)', ~ Lost(p)
    PROVE  \E h \in Hubs : Clear(h) /\ p \in clearing[h]
<1>1. PICK k \in Hubs : persona'[k][p].rev > 1
  BY DEF Lost
<1>2. ASSUME stage[k] = "write", NEW x \in inhand[k], x.id = p, persona'[k][p] = x.row
      PROVE  FALSE
  BY <1>1, <1>2 DEF Bumped, Travelling
<1>3. ~ persona[k][p].rev > 1
  BY DEF Lost
<1> QED
  BY <1>1, <1>2, <1>3, PersonaOn

LEMMA BumpedStep ==
    ASSUME TypeOK, TypeOK', Agreed, Earned, Orderly, Bumped, ~ Renaming, [NextTell]_tvars
    PROVE  Bumped'
<1>1. ASSUME NEW h \in Hubs, NEW p \in Personas, persona'[h][p].rev = 1
      PROVE  persona'[h][p].updated = persona'[h][p].claimed
  <2>1. CASE p \in clearing[h] /\ persona'[h][p] = Renamed(persona[h][p], NoName)
    <3>1. persona[h][p].rev \in Nat /\ persona[h][p].rev > 0
      BY <2>1, PersonaTypes DEF Earned, Known
    <3> QED
      BY <1>1, <2>1, <3>1 DEF Renamed
  <2>2. ASSUME stage[h] = "write", NEW x \in inhand[h], x.id = p, persona'[h][p] = x.row
        PROVE  persona'[h][p].updated = persona'[h][p].claimed
    BY <1>1, <2>2 DEF Bumped, Travelling
  <2> QED
    BY <1>1, <2>1, <2>2, PersonaOn DEF Bumped
<1>2. ASSUME NEW h \in Hubs, NEW x \in Travelling(h)'
      PROVE  /\ x.row.rev = 1 => x.row.updated = x.row.claimed
             /\ x.row.rev > 1 => Lost(x.id)'
  <2>1. ASSUME NEW y \in Travelling(h), x.id = y.id, x.row.rev = y.row.rev,
               x.row.updated = y.row.updated, x.row.claimed = y.row.claimed
        PROVE  /\ x.row.rev = 1 => x.row.updated = x.row.claimed
               /\ x.row.rev > 1 => Lost(x.id)'
    <3>1. y.id \in Personas
      BY PersonaTypes
    <3>2. /\ y.row.rev = 1 => y.row.updated = y.row.claimed
          /\ y.row.rev > 1 => Lost(y.id)
      BY DEF Bumped
    <3>3. Lost(y.id) => Lost(y.id)'
      BY <3>1, LostStays
    <3>4. Lost(x.id)' = Lost(y.id)'
      BY <2>1
    <3> QED
      BY <2>1, <3>2, <3>3, <3>4
  <2>2. ASSUME NEW k \in Hubs, x.id \in Personas, x.row = persona[k][x.id]
        PROVE  /\ x.row.rev = 1 => x.row.updated = x.row.claimed
               /\ x.row.rev > 1 => Lost(x.id)'
    <3>1. x.row.rev > 1 => Lost(x.id)
      BY <2>2 DEF Lost
    <3>2. Lost(x.id) => Lost(x.id)'
      BY <2>2, LostStays
    <3> QED
      BY <2>2, <3>1, <3>2 DEF Bumped
  <2> QED
    BY <2>1, <2>2, TravelStep
<1>3. ASSUME NEW h \in Hubs, stage'[h] \in {"clear", "write"}, NEW x \in inhand'[h]
      PROVE  /\ x.row.rev >= persona'[h][x.id].rev
             /\ persona'[h][x.id].rev = 1 => x.row.rev > 1
  <2>t. /\ DOMAIN stage = Hubs /\ DOMAIN inhand = Hubs /\ DOMAIN clearing = Hubs
        /\ rows \in [Hubs -> SUBSET FetchedRows]
    BY DEF TypeOK
  <2>1. ASSUME stage[h] \in {"clear", "write"}, x \in inhand[h], stage'[h] = stage[h] \/ Clear(h)
        PROVE  /\ x.row.rev >= persona'[h][x.id].rev
               /\ persona'[h][x.id].rev = 1 => x.row.rev > 1
    <3>1. x \in Travelling(h)
      BY <2>1 DEF Travelling
    <3>2. x.id \in Personas /\ \E k \in Hubs : Known(k, x.id)
      BY <3>1, TravelKnown
    <3>3. ~ (Clear(h) /\ x.id \in clearing[h])
      BY <2>1 DEF Clear, ClearName, Orderly
    <3>4. ~ (stage[h] = "write" /\ stage'[h] = "rows")
      BY <1>3
    <3>5. persona'[h][x.id] = persona[h][x.id]
      BY <3>2, <3>3, <3>4, PersonaOn
    <3> QED
      BY <2>1, <3>5 DEF Bumped
  <2>2. ASSUME TakePersona(h)
        PROVE  /\ x.row.rev >= persona'[h][x.id].rev
               /\ persona'[h][x.id].rev = 1 => x.row.rev > 1
    <3>1. PICK y \in First(rows[h]) :
            LET others == Holders(h, y.row.name) \ {y.id}
                lost == \E q \in others : wins(persona[h][q].claimed, q, y.row.claimed, y.id)
            IN  IF ~ Newer(y.row, persona[h][y.id])
                THEN UNCHANGED <<stage, inhand, clearing>>
                ELSE inhand' = [inhand EXCEPT ![h] =
                                  IF lost THEN {[y EXCEPT !.row.name = NoName]} ELSE {y}]
      BY <2>2 DEF TakePersona
    <3>2. stage[h] = "rows" /\ y \in rows[h] /\ y \in FetchedRows /\ persona' = persona
      BY <2>2, <2>t, <3>1 DEF TakePersona, First, tables
    <3>3. /\ Newer(y.row, persona[h][y.id])
          /\ x = y \/ x = [y EXCEPT !.row.name = NoName]
      BY <1>3, <2>t, <3>1, <3>2
    <3>4. x.id = y.id /\ x.row.rev = y.row.rev
      BY <3>2, <3>3 DEF FetchedRows, PersonaRows
    <3>5. y \in Travelling(h) /\ y.id \in Personas
      BY <3>2, PersonaTypes DEF Travelling
    <3>6. y.row.rev \in Nat /\ persona[h][y.id].rev \in Nat
      BY <3>5, PersonaTypes DEF PersonaRows
    <3>7. ~ (y.row.rev = 1 /\ persona[h][y.id].rev = 1)
      <4> SUFFICES ASSUME y.row.rev = 1, persona[h][y.id].rev = 1 PROVE FALSE
        OBVIOUS
      <4>1. y.row.updated = y.row.claimed /\ persona[h][y.id].updated = persona[h][y.id].claimed
        BY <3>5 DEF Bumped
      <4>2. PICK k \in Hubs : Known(k, y.id) /\ persona[k][y.id].claimed = y.row.claimed
        BY <3>5 DEF Earned, Rightful
      <4>3. persona[h][y.id].claimed = y.row.claimed
        BY <3>5, <4>2 DEF Agreed, Known
      <4>4. y.row.claimed \in Nat
        BY <3>5, PersonaTypes
      <4> QED
        BY <3>3, <4>1, <4>3, <4>4 DEF Newer
    <3> QED
      BY <3>2, <3>3, <3>4, <3>6, <3>7 DEF Newer
  <2>3. CASE Clear(h)
    <3>1. stage[h] = "clear" /\ inhand' = inhand
      BY <2>3 DEF Clear, ClearName
    <3> QED
      BY <1>3, <2>1, <2>3, <3>1
  <2>4. CASE FetchDevices(h) \/ Write(h) \/ TakeDevice(h) \/ Attach(h) \/ Merged(h) \/ Fail(h)
             \/ \E k \in Hubs : Fetch(h, k)
    <3>1. stage'[h] \notin {"clear", "write"}
      BY <2>4, <2>t DEF FetchDevices, Write, WritePersona, TakeDevice, Attach, AttachDevice,
         Merged, Fail, Failure, MergeRaises, Restart, Rest, Fetch, FetchPersonas
    <3> QED
      BY <1>3, <3>1
  <2> QED
    BY <1>3, <2>1, <2>2, <2>3, <2>4, MergeOf
<1> QED
  BY <1>1, <1>2, <1>3 DEF Bumped

(* A name is claimed for a persona that has it. *)
LEMMA WantedStep ==
    ASSUME TypeOK, [NextTell]_tvars, NEW p \in Personas, wanted'[p] # wanted[p]
    PROVE  \E h \in Hubs : Known(h, p)' /\ persona'[h][p].name = wanted'[p]
<1> USE DEF tables
<1>t. /\ persona \in [Hubs -> [Personas -> PersonaRows]]
      /\ wanted \in [Personas -> Names \cup {NoName}]
  BY DEF TypeOK
<1>1. ASSUME NEW h \in Hubs, NEW d \in Devices, NEW n \in Names \cup {NoName}, NewPersona(h, d, n)
      PROVE  Known(h, p)' /\ persona'[h][p].name = wanted'[p]
  BY <1>1, <1>t DEF NewPersona, Known
<1>2. ASSUME NEW h \in Hubs,
             \/ \E d \in Devices, n \in Names : Rename(h, d, n)
             \/ \E d \in Devices : MintCode(h, d)
             \/ \E d \in Devices, q \in Personas : Spend(h, d, q) \/ Link(h, d, q) \/ Admit(h, d, q)
             \/ \E q \in Personas : Expire(h, q)
             \/ \E d, target \in Devices : Unlink(h, d, target)
      PROVE  wanted' = wanted
  BY <1>2 DEF Rename, MintCode, Spend, Link, Admit, Expire, Unlink
<1>3. ASSUME NEW h \in Hubs,
             \/ FetchDevices(h) \/ TakePersona(h) \/ TakeDevice(h) \/ Attach(h) \/ Merged(h)
             \/ Clear(h) \/ Write(h) \/ Fail(h) \/ \E k \in Hubs : Fetch(h, k)
      PROVE  wanted' = wanted
  BY <1>3 DEF FetchDevices, TakePersona, TakeDevice, Attach, AttachDevice, Merged,
     Clear, ClearName, Write, WritePersona, Fail, Failure, MergeRaises, Restart, Fetch, FetchPersonas
<1>4. ASSUME NEW h \in Hubs, Address(h) \/ Tell(h) \/ Silence(h)
      PROVE  wanted' = wanted
  BY <1>4 DEF Address, Tell, Silence, vars
<1>5. UNCHANGED tvars => wanted' = wanted
  BY DEF tvars, vars
<1> QED
  BY <1>1, <1>2, <1>3, <1>4, <1>5, StepsAside DEF NextTell, Telling, Command

LEMMA KeptStep ==
    ASSUME TypeOK, TypeOK', Resolved, Bumped, Kept, ~ Renaming, [NextTell]_tvars
    PROVE  Kept'
<1> SUFFICES ASSUME NEW p \in Personas, wanted'[p] # NoName
             PROVE  Lost(p)' \/ \E o \in Hubs : Known(o, p)' /\ persona'[o][p].name # NoName
  BY DEF Kept
<1>1. CASE wanted'[p] # wanted[p]
  BY <1>1, WantedStep
<1>2. CASE Lost(p)
  BY <1>2, LostStays
<1>3. ASSUME NEW o \in Hubs, Known(o, p), persona[o][p].name # NoName
      PROVE  Lost(p)' \/ (Known(o, p)' /\ persona'[o][p].name # NoName)
  <2>1. persona[o][p].rev \in Nat /\ persona[o][p].rev > 0
    BY <1>3, PersonaTypes DEF Known
  <2>2. Known(o, p)'
    BY <1>3, StepOfPersonas, KnownStays
  <2>3. CASE persona'[o][p] = persona[o][p]
    BY <1>3, <2>2, <2>3
  <2>4. CASE persona'[o][p] = Renamed(persona[o][p], NoName)
    BY <2>1, <2>4 DEF Renamed, Lost
  <2>5. ASSUME stage[o] = "write", NEW x \in inhand[o], x.id = p, persona'[o][p] = x.row
        PROVE  Lost(p)'
    <3>1. x \in Travelling(o)
      BY <2>5 DEF Travelling
    <3>2. x.row.rev \in Nat
      BY <3>1, PersonaTypes DEF PersonaRows
    <3>3. x.row.rev > 1
      BY <2>1, <2>5, <3>2 DEF Bumped
    <3> QED
      BY <2>5, <3>3 DEF Lost
  <2> QED
    BY <1>3, <2>3, <2>4, <2>5, PersonaOn
<1> QED
  BY <1>1, <1>2, <1>3 DEF Kept

-----------------------------------------------------------------------------
(* How a hub comes to know the device of a persona. *)

(* A persona the hub knows, or is about to know. *)
Expected(h, p) == Known(h, p) \/ \E x \in Travelling(h) : x.id = p

Under(h) == stage[h] \in {"rows", "clear", "write", "attach"}

(* A merge that knows of a persona has its device, or has it ahead. *)
Reaches ==
    \A h \in Hubs, d \in Devices : \A r \in DeviceRows :
        Owned(d, r) /\ r.persona \notin forgotten /\ Under(h) /\ Expected(h, r.persona) =>
            \/ Safe(h, d, r) \/ Overtaken(d, r)
            \/ \E y \in Carried(h) : y.id = d /\ y.row = r

(* Who is noted is known, and once the merge is over so is the device. *)
Held ==
    \A h \in Hubs :
        /\ \A p \in losers[h] : Known(h, p)
        /\ losers[h] # {} => stage[h] # "fetch"
        /\ \A d \in Devices : \A r \in DeviceRows :
             Owned(d, r) /\ r.persona \in losers[h] \ forgotten /\ stage[h] = "idle" =>
                 Safe(h, d, r) \/ Overtaken(d, r)

(* A hub hears of personas only as it fetches, or as they are claimed. *)
LEMMA ExpectedStep ==
    ASSUME TypeOK, Earned, ~ Renaming, [NextTell]_tvars,
           NEW h \in Hubs, NEW p \in Personas, Expected(h, p)', \E k \in Hubs : Known(k, p)
    PROVE  Expected(h, p) \/ stage'[h] = "fetch"
<1>1. ASSUME Known(h, p)'
      PROVE  Expected(h, p)
  <2>1. persona[h][p].rev \in Nat
    BY PersonaTypes
  <2>2. CASE persona'[h][p] = persona[h][p]
    BY <1>1, <2>2 DEF Known, Expected
  <2>3. CASE p \in clearing[h]
    BY <2>3 DEF Earned, Expected
  <2>4. ASSUME stage[h] = "write", NEW x \in inhand[h], x.id = p
        PROVE  Expected(h, p)
    BY <2>4 DEF Travelling, Expected
  <2> QED
    BY <2>2, <2>3, <2>4, PersonaOn
<1>2. ASSUME NEW x \in Travelling(h)', x.id = p
      PROVE  Expected(h, p) \/ stage'[h] = "fetch"
  BY <1>2, TravelStep DEF Expected
<1> QED
  BY <1>1, <1>2 DEF Expected

(* A row that was claimed just now is where it was claimed. *)
LEMMA NewRow ==
    ASSUME TypeOK, Earned, NEW h \in Hubs, NEW d \in Devices, NEW n \in Names \cup {NoName},
           NewPersona(h, d, n), NEW r, r = device'[h][d]
    PROVE  /\ \A k \in Hubs : ~ Known(k, r.persona) /\ r.persona \notin clearing[k]
           /\ \A k \in Hubs : k # h => ~ Expected(k, r.persona)'
           /\ Safe(h, d, r)'
           /\ ~ Lost(r.persona)'
<1>1. PICK p \in Personas, new \in DeviceRows :
         /\ \A k \in Hubs : ~ Known(k, p)
         /\ new.persona = p
         /\ device' = [device EXCEPT ![h][d] = new]
         /\ persona'[h][p].rev = 1
         /\ \A g \in Hubs, q \in Personas :
              g # h \/ q # p => persona'[g][q] = persona[g][q]
         /\ UNCHANGED <<rows, links, inhand, stage, roles>>
  BY Born
<1>2. r = new
  BY <1>1 DEF TypeOK
<1>3. \A k \in Hubs : p \notin clearing[k]
  BY <1>1 DEF Earned
<1>4. ASSUME NEW k \in Hubs, k # h
      PROVE  ~ Expected(k, p)'
  <2>1. ~ Known(k, p)'
    BY <1>1, <1>4 DEF Known
  <2>2. Travelling(k)' = Travelling(k)
    BY <1>1 DEF Travelling
  <2>3. \A x \in Travelling(k) : x.id # p
    BY <1>1, TravelKnown
  <2> QED
    BY <2>1, <2>2, <2>3 DEF Expected
<1>5. Safe(h, d, r)'
  BY <1>1, <1>2, VersionType DEF Safe
<1>6. \A k \in Hubs : ~ persona'[k][p].rev > 1
  BY <1>1, PersonaTypes DEF Known
<1> QED
  BY <1>1, <1>2, <1>3, <1>4, <1>5, <1>6 DEF Lost

(* A device row that was on the way to a hub still is, or the hub has it,  *)
(* or one that is later.                                                   *)
LEMMA CarriedStep ==
    ASSUME TypeOK, Orderly, Sole, [NextTell]_tvars,
           NEW h \in Hubs, Under(h), Under(h)', NEW y \in Carried(h), Owned(y.id, y.row),
           Expected(h, y.row.persona)
    PROVE  y \in Carried(h)' \/ Safe(h, y.id, y.row)'
<1>t. /\ device \in [Hubs -> [Devices -> DeviceRows]]
      /\ DOMAIN links = Hubs /\ DOMAIN inhand = Hubs /\ DOMAIN stage = Hubs
      /\ y.id \in Devices /\ y.row \in DeviceRows
      /\ Version(y.row) \in Nat /\ Version(device[h][y.id]) \in Nat
  BY CarriedType, VersionType DEF TypeOK
<1>1. CASE stage'[h] = stage[h] /\ links'[h] = links[h] /\ inhand'[h] = inhand[h]
  BY <1>1 DEF Carried
<1>2. CASE TakePersona(h) \/ Clear(h)
  BY <1>2, <1>t DEF TakePersona, Clear, ClearName, Carried
<1>3. CASE Write(h) /\ stage'[h] # "idle"
  BY <1>3, <1>t DEF Write, WritePersona, Rest, Carried
<1>4. CASE TakeDevice(h)
  <2>1. PICK x \in links[h] :
          /\ links' = [links EXCEPT ![h] = @ \ {x}]
          /\ IF Known(h, x.row.persona) /\ Version(x.row) > Version(device[h][x.id])
             THEN inhand' = [inhand EXCEPT ![h] = {x}] /\ stage' = [stage EXCEPT ![h] = "attach"]
             ELSE UNCHANGED <<inhand, stage>>
    BY <1>4 DEF TakeDevice
  <2>2. stage[h] = "rows" /\ rows[h] = {} /\ device' = device
    BY <1>4 DEF TakeDevice, tables
  <2>3. Known(h, y.row.persona)
    BY <2>2 DEF Expected, Travelling
  <2>4. y \in links[h]
    BY <2>2 DEF Carried
  <2>5. CASE x # y
    BY <2>1, <2>4, <2>5, <1>t DEF Carried
  <2>6. CASE x = y /\ Version(x.row) > Version(device[h][x.id])
    BY <2>1, <2>3, <2>6, <1>t DEF Carried
  <2>7. CASE x = y /\ ~ Version(x.row) > Version(device[h][x.id])
    <3>1. stage' = stage
      BY <2>1, <2>7
    <3>2. ~ Threatened(h, y.id)'
      BY <2>2, <3>1 DEF Threatened
    <3> QED
      BY <2>2, <2>7, <3>2, <1>t DEF Safe
  <2> QED
    BY <2>5, <2>6, <2>7
<1>5. CASE Attach(h)
  <2>1. PICK x \in inhand[h] : device' = [device EXCEPT ![h][x.id] = x.row]
    BY <1>5 DEF Attach, AttachDevice
  <2>2. stage[h] = "attach" /\ stage'[h] = "rows" /\ links' = links
    BY <1>5, <1>t DEF Attach, AttachDevice
  <2>3. CASE y \in links[h]
    BY <2>2, <2>3 DEF Carried
  <2>4. CASE y \in inhand[h]
    <3>1. x = y
      BY <2>1, <2>4 DEF Orderly
    <3>2. device'[h][y.id] = y.row
      BY <2>1, <3>1, <1>t
    <3> QED
      BY <3>2, <1>t DEF Safe
  <2> QED
    BY <2>2, <2>3, <2>4 DEF Carried
<1>6. CASE Merged(h) \/ Fail(h) \/ \E k \in Hubs : Fetch(h, k)
  <2>1. stage'[h] \in {"idle", "fetch"}
    BY <1>6, <1>t DEF Merged, Fail, Failure, MergeRaises, Restart, Rest, Fetch, FetchPersonas
  <2> QED
    BY <2>1 DEF Under
<1>7. CASE FetchDevices(h)
  BY <1>7 DEF FetchDevices, Under
<1> QED
  BY <1>1, <1>2, <1>3, <1>4, <1>5, <1>6, <1>7, MergeOf DEF Under

(* There are no more than two hubs. *)
Pair == \E a, b : Hubs = {a, b}

LEMMA ReachesStep ==
    ASSUME TypeOK, TypeOK', TypeOKTell, Stamped, Uncoded, Sole, Earned, Orderly, Home, Reaches,
           Pair, ~ Renaming, mints' = 0, [NextTell]_tvars
    PROVE  Reaches'
<1> SUFFICES ASSUME NEW h \in Hubs, NEW d \in Devices, NEW r \in DeviceRows,
                    Owned(d, r)', r.persona \notin forgotten', Under(h)',
                    Expected(h, r.persona)'
             PROVE  \/ Safe(h, d, r)' \/ Overtaken(d, r)'
                    \/ \E y \in Carried(h)' : y.id = d /\ y.row = r
  BY DEF Reaches
<1>1. ASSUME NEW g \in Hubs, NEW n \in Names \cup {NoName},
             NewPersona(g, d, n), r = device'[g][d]
      PROVE  Safe(h, d, r)'
  BY <1>1, NewRow
<1>2. ASSUME IsCopy(d, r)
      PROVE  \/ Safe(h, d, r)' \/ Overtaken(d, r)'
             \/ \E y \in Carried(h)' : y.id = d /\ y.row = r
  <2>1. Owned(d, r) /\ r.persona \notin forgotten
    BY <1>2, NoticesOf DEF Owned
  <2>2. r.persona \in Personas /\ \E k \in Hubs : Known(k, r.persona)
    BY <2>1 DEF Sole
  <2>3. \A o \in Hubs : Safe(o, d, r) => Safe(o, d, r)'
    BY <2>1, SafeStays
  <2>4. Overtaken(d, r) => Overtaken(d, r)'
    BY OvertakenStays
  <2>5. CASE FetchDevices(h)
    <3>1. PICK o \in Hubs : Safe(o, d, r)
      BY <2>1 DEF Home
    <3>2. CASE o = h
      BY <2>3, <3>1, <3>2
    <3>3. CASE o # h /\ device[o][d] = r
      <4>1. from[h] \in Hubs /\ from[h] # h
        BY <2>5 DEF TypeOK, Orderly, FetchDevices
      <4>2. from[h] = o
        BY <3>3, <4>1 DEF Pair
      <4>3. [id |-> d, row |-> r] \in links'[h]
        BY <2>1, <2>5, <3>3, <4>2 DEF FetchDevices, TypeOK, Owned
      <4> QED
        BY <4>3 DEF Carried
    <3> QED
      BY <2>1, <2>4, <3>1, <3>2, <3>3, SafeHere
  <2>6. CASE ~ FetchDevices(h)
    <3>t. DOMAIN stage = Hubs
      BY DEF TypeOK
    <3>1. ASSUME \/ TakePersona(h) \/ Clear(h) \/ Write(h)
                 \/ TakeDevice(h) \/ Attach(h) \/ Merged(h)
          PROVE  Under(h)
      BY <3>1 DEF TakePersona, Clear, ClearName, Write, WritePersona, TakeDevice,
                  Attach, AttachDevice, Merged, Under
    <3>2. ASSUME Fail(h) \/ \E k \in Hubs : Fetch(h, k)
          PROVE  ~ Under(h)'
      BY <3>2, <3>t DEF Fail, Failure, MergeRaises, Restart, Rest, Fetch, FetchPersonas, Under
    <3>3. Under(h)
      BY <2>6, <3>1, <3>2, MergeOf DEF Under
    <3>4. stage'[h] # "fetch"
      BY DEF Under
    <3>5. Expected(h, r.persona)
      BY <2>2, <3>4, ExpectedStep
    <3>6. ASSUME NEW y \in Carried(h), y.id = d, y.row = r
          PROVE  y \in Carried(h)' \/ Safe(h, d, r)'
      <4>1. y \in Carried(h)' \/ Safe(h, y.id, y.row)'
        BY <2>1, <3>3, <3>5, <3>6, CarriedStep
      <4>2. Safe(h, y.id, y.row)' = Safe(h, d, r)'
        BY <3>6
      <4> QED
        BY <4>1, <4>2
    <3> QED
      BY <2>1, <2>3, <2>4, <3>3, <3>5, <3>6 DEF Reaches
  <2> QED
    BY <2>5, <2>6
<1> QED
  BY <1>1, <1>2, CopiesStep DEF Owned

LEMMA HeldStep ==
    ASSUME TypeOK, TypeOK', TypeOKTell, Resolved, Stamped, Uncoded, Sole, Earned, Reaches, Held,
           ~ Renaming, mints' = 0, [NextTell]_tvars
    PROVE  Held'
<1>t. /\ DOMAIN losers = Hubs /\ DOMAIN stage = Hubs
      /\ losers \in [Hubs -> SUBSET Personas] /\ clearing \in [Hubs -> SUBSET Personas]
  BY DEF TypeOK, TypeOKTell
<1> SUFFICES ASSUME NEW h \in Hubs
             PROVE  /\ \A p \in losers'[h] : Known(h, p)'
                    /\ losers'[h] # {} => stage'[h] # "fetch"
                    /\ \A d \in Devices : \A r \in DeviceRows :
                         Owned(d, r)' /\ r.persona \in losers'[h] \ forgotten'
                           /\ stage'[h] = "idle" => Safe(h, d, r)' \/ Overtaken(d, r)'
  BY DEF Held
<1>1. Clear(h) => losers'[h] = losers[h] \cup clearing[h] /\ stage'[h] = "write"
  BY <1>t DEF Clear, ClearName, Note
<1>2. Forget(h) => losers'[h] = {}
  BY <1>t DEF Forget
<1>3. Address(h) \/ Tell(h) => losers'[h] \subseteq losers[h]
  BY <1>t DEF Address, Tell
<1>4. ASSUME NEW p \in losers'[h]
      PROVE  p \in Personas /\ Known(h, p) /\ (p \in losers[h] \/ Clear(h))
  BY <1>1, <1>2, <1>3, <1>4, <1>t, NoticesOf DEF Held, Earned
<1>5. \A p \in losers'[h] : Known(h, p)'
  BY <1>4, StepOfPersonas, KnownStays
<1>6. ASSUME stage'[h] = "fetch"
      PROVE  losers'[h] = {}
  <2>1. CASE \E k \in Hubs : Fetch(h, k)
    BY <2>1 DEF Fetch, notices
  <2>2. CASE stage'[h] = stage[h]
    BY <1>1, <1>4, <1>6, <2>2 DEF Held
  <2>3. CASE \/ FetchDevices(h) \/ TakePersona(h) \/ Clear(h) \/ Write(h)
             \/ TakeDevice(h) \/ Attach(h) \/ Merged(h) \/ Fail(h)
    <3>1. stage'[h] # "fetch"
      BY <2>3, <1>t DEF FetchDevices, TakePersona, Clear, ClearName, Write, WritePersona,
         TakeDevice, Attach, AttachDevice, Merged, Fail, Failure, MergeRaises, Restart, Rest
    <3> QED
      BY <1>6, <3>1
  <2> QED
    BY <2>1, <2>2, <2>3, MergeOf
<1>7. ASSUME NEW d \in Devices, NEW r \in DeviceRows, Owned(d, r)',
             r.persona \in losers'[h] \ forgotten', stage'[h] = "idle"
      PROVE  Safe(h, d, r)' \/ Overtaken(d, r)'
  <2>1. r.persona \in losers[h] /\ Known(h, r.persona)
    BY <1>1, <1>4, <1>7
  <2>2. Owned(d, r)
    <3>1. ASSUME NEW g \in Hubs, NEW n \in Names \cup {NoName},
                 NewPersona(g, d, n), r = device'[g][d]
          PROVE  FALSE
      BY <2>1, <3>1, NewRow
    <3> QED
      BY <1>7, <3>1, CopiesStep DEF Owned
  <2>3. r.persona \notin forgotten
    BY <1>7, NoticesOf
  <2>4. Safe(h, d, r) \/ Overtaken(d, r)
    <3>1. CASE stage[h] = "idle"
      BY <2>1, <2>2, <2>3, <3>1 DEF Held
    <3>2. CASE Merged(h)
      <4>1. stage[h] = "rows" /\ Carried(h) = {}
        BY <3>2 DEF Merged, Carried
      <4>2. Under(h) /\ Expected(h, r.persona)
        BY <2>1, <4>1 DEF Under, Expected
      <4> QED
        BY <2>2, <2>3, <4>1, <4>2 DEF Reaches
    <3>3. CASE Write(h) \/ Fail(h)
      BY <1>2, <1>7, <3>3 DEF Write, Fail
    <3>4. CASE \/ FetchDevices(h) \/ Clear(h) \/ TakeDevice(h) \/ Attach(h)
               \/ \E k \in Hubs : Fetch(h, k)
      <4>1. stage'[h] # "idle"
        BY <3>4, <1>t DEF FetchDevices, Clear, ClearName, TakeDevice, Attach, AttachDevice,
                          Fetch, FetchPersonas
      <4> QED
        BY <1>7, <4>1
    <3>5. CASE TakePersona(h)
      <4>1. stage'[h] # "idle"
        BY <3>5, <1>t DEF TakePersona
      <4> QED
        BY <1>7, <4>1
    <3> QED
      BY <1>7, <3>1, <3>2, <3>3, <3>4, <3>5, MergeOf
  <2> QED
    BY <1>7, <2>2, <2>4, SafeStays, OvertakenStays
<1> QED
  BY <1>5, <1>6, <1>7

-----------------------------------------------------------------------------
(* The device of a persona that has lost its name is told, or on the list  *)
(* of a hub that is about to tell it.                                      *)
Due ==
    \A d \in Devices : \A r \in DeviceRows :
        /\ Owned(d, r) /\ r.persona \notin forgotten /\ Lost(r.persona)
        /\ \A k \in Hubs : roles[k][d] = "member"
        => \/ Overtaken(d, r)
           \/ \E k \in Hubs : \/ r.persona \in losers[k]
                              \/ <<d, r.persona>> \in addressed[k] \cup told[k]

(* Roles stay as they are where no code admits a device. *)
LEMMA RolesStay ==
    ASSUME Uncoded, [NextTell]_tvars
    PROVE  roles' = roles
<1> USE DEF tables
<1>1. ASSUME NEW h \in Hubs
      PROVE  \A d \in Devices, p \in Personas : ~ Admit(h, d, p)
  BY DEF Admit, Uncoded
<1>2. ASSUME NEW h \in Hubs, Command(h)
      PROVE  roles' = roles
  BY <1>1, <1>2 DEF Command, NewPersona, Rename, MintCode, Spend, Link, Expire, Unlink
<1>3. ASSUME NEW h \in Hubs,
             \/ FetchDevices(h) \/ TakePersona(h) \/ TakeDevice(h) \/ Attach(h) \/ Merged(h)
             \/ Clear(h) \/ Write(h) \/ Fail(h) \/ \E k \in Hubs : Fetch(h, k)
      PROVE  roles' = roles
  BY <1>3 DEF FetchDevices, TakePersona, TakeDevice, Attach, AttachDevice, Merged,
     Clear, ClearName, Write, WritePersona, Fail, Failure, MergeRaises, Restart, Fetch, FetchPersonas
<1>4. ASSUME NEW h \in Hubs, Address(h) \/ Tell(h) \/ Silence(h)
      PROVE  roles' = roles
  BY <1>4 DEF Address, Tell, Silence, vars
<1>5. UNCHANGED tvars => roles' = roles
  BY DEF tvars, vars
<1> QED
  BY <1>2, <1>3, <1>4, <1>5, StepsAside DEF NextTell, Telling

LEMMA DueStep ==
    ASSUME TypeOK, TypeOK', TypeOKTell, Stamped, Uncoded, Sole, Earned, Bumped, Held, Due,
           ~ Renaming, mints' = 0, [NextTell]_tvars
    PROVE  Due'
<1>t. /\ DOMAIN losers = Hubs /\ DOMAIN addressed = Hubs /\ DOMAIN told = Hubs
  BY DEF TypeOKTell
<1> SUFFICES ASSUME NEW d \in Devices, NEW r \in DeviceRows,
                    Owned(d, r)', r.persona \notin forgotten', Lost(r.persona)',
                    \A k \in Hubs : roles'[k][d] = "member"
             PROVE  \/ Overtaken(d, r)'
                    \/ \E k \in Hubs : \/ r.persona \in losers'[k]
                                       \/ <<d, r.persona>> \in addressed'[k] \cup told'[k]
  BY DEF Due
<1> DEFINE p == r.persona
<1>1. Owned(d, r)
  <2>1. ASSUME NEW g \in Hubs, NEW n \in Names \cup {NoName},
               NewPersona(g, d, n), r = device'[g][d]
        PROVE  FALSE
    BY <2>1, NewRow
  <2> QED
    BY <2>1, CopiesStep DEF Owned
<1>2. /\ p \in Personas /\ p \notin forgotten
      /\ \A k \in Hubs : roles[k][d] = "member"
  <2>1. \E h \in Hubs : TRUE
    BY <1>1 DEF Owned, IsCopy
  <2> QED
    BY <1>1, <2>1, NoticesOf, RolesStay DEF Sole
<1>3. Overtaken(d, r) => Overtaken(d, r)'
  BY OvertakenStays
<1>4. ASSUME ~ Lost(p)
      PROVE  \E h \in Hubs : p \in losers'[h]
  <2>1. PICK h \in Hubs : Clear(h) /\ p \in clearing[h]
    BY <1>2, <1>4, NewlyLost
  <2> QED
    BY <2>1, <1>t DEF Clear, Note
<1>5. ASSUME NEW k \in Hubs, p \in losers[k]
      PROVE  Overtaken(d, r)' \/ p \in losers'[k] \/ <<d, p>> \in addressed'[k]
  <2>1. CASE losers'[k] = losers[k]
    BY <1>5, <2>1
  <2>2. CASE Clear(k)
    BY <1>5, <2>2, <1>t DEF Clear, Note
  <2>3. CASE Forget(k)
    BY <1>5, <2>3 DEF Forget
  <2>4. CASE Tell(k)
    BY <1>5, <2>4 DEF Tell
  <2>5. ASSUME Address(k), p \notin losers'[k]
        PROVE  Overtaken(d, r) \/ <<d, p>> \in addressed'[k]
    <3>1. /\ stage[k] = "idle"
          /\ addressed'[k] = DevicesOf(k, p) \X {p}
      BY <1>5, <2>5, <1>t DEF Address
    <3>2. Safe(k, d, r) \/ Overtaken(d, r)
      BY <1>1, <1>2, <1>5, <3>1 DEF Held
    <3>3. ASSUME device[k][d] = r
          PROVE  d \in DevicesOf(k, p)
      <4>1. r.added > 0 /\ r.removed = 0
        BY <1>1 DEF Owned, Sole
      <4> QED
        BY <1>2, <3>3, <4>1 DEF DevicesOf, PersonaOf, Linked
    <3> QED
      BY <1>1, <3>1, <3>2, <3>3, SafeHere
  <2> QED
    BY <1>3, <2>1, <2>2, <2>3, <2>4, <2>5, NoticesOf
<1>6. ASSUME NEW k \in Hubs, <<d, p>> \in addressed[k]
      PROVE  <<d, p>> \in addressed'[k] \cup told'[k]
  <2>1. CASE addressed'[k] = addressed[k]
    BY <1>6, <2>1
  <2>2. CASE Clear(k)
    BY <1>6, <2>2 DEF Clear
  <2>3. CASE Forget(k)
    BY <1>6, <2>3 DEF Forget
  <2>4. CASE Address(k)
    BY <1>6, <2>4 DEF Address
  <2>5. CASE Tell(k)
    BY <1>2, <1>6, <2>5, <1>t DEF Tell
  <2> QED
    BY <2>1, <2>2, <2>3, <2>4, <2>5, NoticesOf
<1>7. \A k \in Hubs : told[k] \subseteq told'[k]
  BY NoticesOf
<1> QED
  BY <1>1, <1>2, <1>3, <1>4, <1>5, <1>6, <1>7 DEF Due

-----------------------------------------------------------------------------
(* Hubs that have settled and have told everybody have told the losers.    *)
LEMMA SettledLosers ==
    ASSUME TypeOK, Resolved, Stamped, Agreed, Earned, Unshared, Kept, Due, ~ Renaming,
           Settled, \A h \in Hubs : AllTold(h),
           NEW h \in Hubs, NEW p \in Personas \ forgotten, NEW d \in DevicesOf(h, p),
           wanted[p] # NoName, persona[h][p].name = NoName,
           \A k \in Hubs : roles[k][d] = "member"
    PROVE  \E k \in Hubs : <<d, p>> \in told[k]
<1> DEFINE r == device[h][d]
<1>1. /\ d \in Devices /\ r \in DeviceRows /\ r.persona = p /\ Owned(d, r)
  BY DEF DevicesOf, PersonaOf, Linked, Owned, IsCopy, TypeOK
<1>2. ASSUME NEW o \in Hubs
      PROVE  persona[o][p].name = NoName \/ ~ Known(o, p)
  <2>1. wanted[p] \in Names
    BY DEF TypeOK
  <2>2. Holders(o, wanted[p]) = Holders(h, wanted[p])
    BY <2>1, HoldersAreFirst
  <2>3. p \notin Holders(o, wanted[p])
    BY <2>2 DEF Holders
  <2> QED
    BY <2>3 DEF Earned, Rightful, Holders
<1>3. Lost(p)
  BY <1>2 DEF Kept
<1>4. ~ Overtaken(d, r)
  <2>1. \A k \in Hubs : Version(device[k][d]) = Version(r)
    BY NothingToTell
  <2> QED
    BY <1>1, <2>1, VersionType DEF Overtaken
<1> HIDE DEF r
<1>5. PICK k \in Hubs : p \in losers[k] \/ <<d, p>> \in addressed[k] \cup told[k]
  BY <1>1, <1>3, <1>4 DEF Due
<1> QED
  BY <1>5 DEF AllTold

(* Before anything happens. *)
LEMMA LosersInit ==
    ASSUME InitTell
    PROVE  /\ Orderly /\ Uncoded /\ Sole /\ Home /\ Reaches /\ Held
           /\ Bumped /\ Kept /\ Due
<1>1. /\ \A h \in Hubs, d \in Devices : device[h][d].added = 0
      /\ \A h \in Hubs : /\ Carried(h) = {} /\ Travelling(h) = {} /\ inhand[h] = {}
                         /\ stage[h] = "idle" /\ live[h] = {} /\ joining[h] = {}
                         /\ losers[h] = {}
      /\ \A h \in Hubs, p \in Personas : persona[h][p].rev = 0
      /\ \A p \in Personas : wanted[p] = NoName
  BY DEF InitTell, Init, Carried, Travelling, NoPersona
<1>2. \A d \in Devices : \A r \in DeviceRows : ~ Owned(d, r)
  BY <1>1 DEF Owned, IsCopy
<1>3. Sole /\ Home /\ Reaches /\ Due
  BY <1>2 DEF Sole, Home, Reaches, Due
<1>4. Orderly /\ Uncoded /\ Kept
  BY <1>1 DEF Orderly, Uncoded, Kept
<1>5. Held
  BY <1>1, <1>2 DEF Held
<1>6. Bumped
  BY <1>1 DEF Bumped
<1> QED
  BY <1>3, <1>4, <1>5, <1>6

(* Codes that were minted stay counted. *)
LEMMA MintsGrow ==
    ASSUME TypeOK, [NextTell]_tvars, mints' = 0
    PROVE  mints = 0
<1>t. mints \in Nat
  BY BoundsAssumption DEF TypeOK
<1>1. [Next]_vars
  BY StepOfPersonas
<1>2. ASSUME NEW h \in Hubs, Command(h)
      PROVE  mints' = mints \/ mints' = mints + 1
  BY <1>2 DEF Command, NewPersona, Rename, MintCode, Spend, Link, Admit, Expire, Unlink
<1>3. ASSUME NEW h \in Hubs, Merge(h) \/ Failure(h) \/ \E k \in Hubs : FetchPersonas(h, k)
      PROVE  mints' = mints
  BY <1>3 DEF Merge, FetchDevices, TakePersona, ClearName, WritePersona, TakeDevice,
     AttachDevice, Merged, Failure, MergeRaises, Restart, FetchPersonas
<1>4. UNCHANGED vars => mints' = mints
  BY DEF vars
<1> QED
  BY <1>t, <1>1, <1>2, <1>3, <1>4 DEF Next

(* Two hubs that both gave out a name tell the member that goes without,   *)
(* however their claims, merges and failures interleave, unless a hub had  *)
(* to forget whom to tell (federation.py, _exchange_personas; usercmds.py, *)
(* notify_name_lost).  For any number of devices, personas and names.      *)
THEOREM LosersHear ==
    ASSUME Pair
    PROVE  SpecTell => []LosersAreTold
<1> DEFINE Names1 == ~ Renaming => Agreed /\ Earned /\ Unshared
           Codeless == ~ Renaming /\ mints = 0 =>
               Uncoded /\ Sole /\ Home /\ Reaches /\ Held /\ Bumped /\ Kept /\ Due
           Inv == /\ TypeOK /\ TypeOKTell /\ Resolved /\ Stamped /\ Tracked /\ Orderly
                  /\ Names1 /\ Codeless
<1>1. InitTell => Inv
  BY TypeInit, ResolvedInit, StampedInit, NamesInit, LosersInit DEF InitTell, TypeOKTell
<1>2. Inv /\ [NextTell]_tvars => Inv'
  <2> SUFFICES ASSUME Inv, [NextTell]_tvars PROVE Inv'
    OBVIOUS
  <2>1. [Next]_vars
    BY StepOfPersonas
  <2>2. TypeOK' /\ TypeOKTell' /\ Resolved' /\ Orderly'
    BY <2>1, TypeStep, NoticeTypes, ResolvedStep, OrderlyStep
  <2>3. Stamped' /\ Tracked'
    BY <2>1, <2>2, StampedStep
  <2>4. Names1'
    BY <2>1, NamesStep
  <2>5. Codeless'
    <3> SUFFICES ASSUME ~ Renaming, mints' = 0
                 PROVE  (Uncoded /\ Sole /\ Home /\ Reaches /\ Held /\ Bumped /\ Kept /\ Due)'
      OBVIOUS
    <3>1. mints = 0
      BY MintsGrow
    <3>2. Uncoded' /\ Sole'
      BY <3>1, DevicesInSteps, SoleStep
    <3>3. Home'
      BY <2>2, <3>1, HomeStep
    <3>4. Reaches'
      BY <2>2, <3>1, ReachesStep
    <3>5. Held'
      BY <2>2, <3>1, HeldStep
    <3>6. Bumped' /\ Kept'
      BY <2>2, <3>1, BumpedStep, KeptStep
    <3>7. Due'
      BY <2>2, <3>1, DueStep
    <3> QED
      BY <3>2, <3>3, <3>4, <3>5, <3>6, <3>7
  <2> QED
    BY <2>2, <2>3, <2>4, <2>5
<1>3. Inv => LosersAreTold
  BY SettledLosers DEF LosersAreTold
<1> QED
  BY <1>1, <1>2, <1>3, PTL DEF SpecTell
=============================================================================
