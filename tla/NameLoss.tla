------------------------------ MODULE NameLoss ------------------------------
(***************************************************************************)
(* The notice to those who lose a name (federation.py, _exchange_personas; *)
(* usercmds.py, notify_name_lost), on top of Personas.  A merge remembers  *)
(* the personas it took a name from, and once it is through the thread     *)
(* that ran it queues a notice to each of their devices.  What it remembers*)
(* is a local variable: a merge that raises and a hub that is killed       *)
(* forget it.  A notice is named by its device and the persona it is about;*)
(* how it leaves the queue is in Egress.                                   *)
(***************************************************************************)
EXTENDS Personas

VARIABLES
    losers,      \* the personas that have lost a name and are not dealt with
    addressed,   \* the devices of the persona that is dealt with
    told,        \* the notices queued so far: <<device, persona>>
    forgotten    \* history: the personas of which some notice, or device, was forgotten

notices == <<losers, addressed, told, forgotten>>
tvars == <<vars, notices>>

(* Types, and that a hub that tells losers is not merging: the one thread  *)
(* does both (federation.py:405-440).                                      *)
TypeOKTell ==
    /\ losers \in [Hubs -> SUBSET Personas]
    /\ addressed \in [Hubs -> SUBSET (Devices \X Personas)]
    /\ told \in [Hubs -> SUBSET (Devices \X Personas)]
    /\ forgotten \in SUBSET Personas
    /\ \A h \in Hubs : addressed[h] # {} => stage[h] = "idle"

InitTell ==
    /\ Init
    /\ losers = [h \in Hubs |-> {}]
    /\ addressed = [h \in Hubs |-> {}]
    /\ told = [h \in Hubs |-> {}]
    /\ forgotten = {}

-----------------------------------------------------------------------------
(* Faulty: the persona that arrives is noted. *)
MutNoteArriving(h) ==
    losers' = [losers EXCEPT ![h] = @ \cup {x.id : x \in inhand[h]}]

(* _adopt hands back whom it took the name from. *)
Note(h) == losers' = [losers EXCEPT ![h] = @ \cup clearing[h]]

(* The list goes with the call that kept it. *)
Forget(h) ==
    /\ forgotten' = forgotten \cup losers[h] \cup {a[2] : a \in addressed[h]}
    /\ losers' = [losers EXCEPT ![h] = {}]
    /\ addressed' = [addressed EXCEPT ![h] = {}]
    /\ UNCHANGED told

Clear(h) == ClearName(h) /\ Note(h) /\ UNCHANGED <<addressed, told, forgotten>>

(* A name claimed here in the meantime ends the merge. *)
Write(h) ==
    /\ WritePersona(h)
    /\ IF stage'[h] = "idle" THEN Forget(h) ELSE UNCHANGED notices

(* A device that claimed a persona since its row was compared loses it to  *)
(* the older row, and this hub no longer knows whom to tell.               *)
Attach(h) ==
    /\ AttachDevice(h)
    /\ forgotten' = forgotten \cup
         {p \in Personas : \E d \in Devices :
            device[h][d].persona = p /\ Version(device'[h][d]) < Version(device[h][d])}
    /\ UNCHANGED <<losers, addressed, told>>

Fail(h) == Failure(h) /\ Forget(h)

(* Faulty: another thread fetches meanwhile. *)
MutFetchWhileTelling(h, k) == FetchPersonas(h, k) /\ UNCHANGED notices

(* The thread that tells the losers does not fetch. *)
Fetch(h, k) ==
    /\ FetchPersonas(h, k)
    /\ losers[h] = {} /\ addressed[h] = {}
    /\ UNCHANGED notices

(* Faulty: the devices of the persona that has the name now. *)
MutAddressHolder(h) ==
    /\ stage[h] = "idle" /\ addressed[h] = {}
    /\ \E p \in losers[h] :
         /\ losers' = [losers EXCEPT ![h] = @ \ {p}]
         /\ addressed' = [addressed EXCEPT ![h] =
                            {d \in Devices : \E q \in Holders(h, wanted[p]) : d \in DevicesOf(h, q)}
                                \X {p}]
    /\ UNCHANGED <<vars, told, forgotten>>

(* notify_name_lost, persona by persona after the merge: its devices here. *)
Address(h) ==
    /\ stage[h] = "idle" /\ addressed[h] = {}
    /\ \E p \in losers[h] :
         /\ losers' = [losers EXCEPT ![h] = @ \ {p}]
         /\ addressed' = [addressed EXCEPT ![h] = DevicesOf(h, p) \X {p}]
    /\ UNCHANGED <<vars, told, forgotten>>

(* A device that is in no group here is passed over: there is no address   *)
(* it would recognise.                                                     *)
Tell(h) ==
    /\ \E a \in addressed[h] :
         /\ addressed' = [addressed EXCEPT ![h] = @ \ {a}]
         /\ told' = [told EXCEPT ![h] = IF roles[h][a[1]] = "member" THEN @ \cup {a} ELSE @]
    /\ UNCHANGED <<vars, losers, forgotten>>

(* An exception, or a kill, between two notices. *)
Silence(h) ==
    /\ stage[h] = "idle"
    /\ losers[h] # {} \/ addressed[h] # {}
    /\ Forget(h)
    /\ UNCHANGED vars

(* What members do, and the steps of a merge that concern no loser.        *)
Members(h) ==
    \/ \E d \in Devices, n \in Names \cup {NoName} : NewPersona(h, d, n) /\ UNCHANGED notices
    \/ \E d \in Devices, n \in Names : Rename(h, d, n) /\ UNCHANGED notices
    \/ \E d \in Devices : MintCode(h, d) /\ UNCHANGED notices
    \/ \E d \in Devices, p \in Personas : Spend(h, d, p) /\ UNCHANGED notices
    \/ \E d \in Devices, p \in Personas : Link(h, d, p) /\ UNCHANGED notices
    \/ \E d \in Devices, p \in Personas : Admit(h, d, p) /\ UNCHANGED notices
    \/ \E p \in Personas : Expire(h, p) /\ UNCHANGED notices
    \/ \E d, target \in Devices : Unlink(h, d, target) /\ UNCHANGED notices

Merging(h) ==
    \/ FetchDevices(h) /\ UNCHANGED notices
    \/ TakePersona(h) /\ UNCHANGED notices
    \/ TakeDevice(h) /\ UNCHANGED notices
    \/ Merged(h) /\ UNCHANGED notices
    \/ Clear(h) \/ Write(h) \/ Attach(h)

Telling(h) == Address(h) \/ Tell(h)

NextTell ==
    \E h \in Hubs :
        \/ Members(h) \/ Merging(h) \/ Telling(h) \/ Fail(h) \/ Silence(h)
        \/ \E k \in Hubs : Fetch(h, k)

SpecTell == InitTell /\ [][NextTell]_tvars

(* As in Personas, and the thread gets through the losers before it goes   *)
(* on to the next peer.                                                    *)
FairnessTell ==
    /\ \A h \in Hubs : WF_tvars(Merging(h)) /\ WF_tvars(Telling(h))
    /\ \A h, k \in Hubs : SF_tvars(Fetch(h, k))
    /\ <>[][\A h \in Hubs : (Fail(h) => Merging(h)) /\ (Silence(h) => Telling(h))]_tvars

FairSpecTell == SpecTell /\ FairnessTell

-----------------------------------------------------------------------------
(* Properties. *)

AllTold(h) == losers[h] = {} /\ addressed[h] = {}

(* Where nobody changes a name, whoever is told that a name went to an     *)
(* earlier claim does not hold it in the end, on any hub (usercmds.py:484).*)
NoFalseAlarm ==
    ~ Renaming /\ Settled =>
        \A h, k \in Hubs : \A a \in told[h] : a[2] \notin Holders(k, wanted[a[2]])

(* Two hubs that both gave out a name, and have settled since, have told   *)
(* the members whose persona went without (README.md:297), unless a        *)
(* failure, a claim that got in between or an older row of the device made *)
(* a hub forget whom to tell.  No codes were minted, so a persona has the  *)
(* device it was claimed from or none.                                     *)
LosersAreTold ==
    ~ Renaming /\ Settled /\ mints = 0 /\ (\A h \in Hubs : AllTold(h)) =>
        \A h \in Hubs, p \in Personas \ forgotten : \A d \in DevicesOf(h, p) :
            /\ wanted[p] # NoName /\ persona[h][p].name = NoName
            /\ \A k \in Hubs : roles[k][d] = "member"
            => \E k \in Hubs : <<d, p>> \in told[k]
=============================================================================
