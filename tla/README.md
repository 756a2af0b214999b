# A verification of lxmf-group-hub in TLA+

These modules model the parts of the hub whose correctness depends on the order of things: the
group logic every message passes through, the egress scheduler, the failover engine, the personas
that hubs merge with each other, the federation of messages with its hash trees, and the operator
channel with the destinations it makes the daemon attach. TLC checks small instances of them; TLAPS
proves their invariants for every value of their constants. `PROJECT.json` lists the runs, the
mutants that show each property can fail, the definition-to-line map, the hazards, the findings and
the theorems.

Line numbers refer to `src/lxmf_hub/` unless a path says otherwise.

## The system

One process per hub. It has these threads: the supervision loop (`daemon.py`), the egress thread,
the federation thread, the delivery threads of the LXMF router (incoming messages and the callbacks
of outgoing ones), and the link threads that serve a peer's federation requests. They share one
SQLite store behind a lock, which makes every *statement or transaction* atomic but nothing longer.

| component | state | operations | talks to |
|---|---|---|---|
| Store (`store.py`) | all tables | one transaction each | everybody, under one lock |
| Group hub (`hub.py`) | held unverified messages | authorise, post, fan out, ingest a federated message, replay held ones, prune | store, destinations, commands |
| Egress (`egress.py`) | in-flight map, token bucket; queue tables on disk | tick, four `send_*`, callbacks | store, router, path requests |
| Federation (`federation.py`, `merkle.py`) | the link and the fetch under way; `peers` | serve roots, trees, buckets, messages, state, personas; sync a peer | peers' federation, hub, registry |
| Failover (`failover.py`) | start time; `peer_liveness`, `peer_members`, `adoptions`, isolated flag on disk | check, adopt, release, isolation | store, notices through egress |
| Personas (`personas.py`) | `personas`, `persona_identities`, `persona_links`, `persona_unlinks` | claim, mint, join, unlink, snapshot, merge | commands, federation |
| Member commands (`usercmds.py`) | last reply per sender | persona commands, moderation, status | registry, store, user queue |
| Operator channel (`control.py`) | held commands | handle, execute, retry | store, control queue |
| Directory (`directory.py`) | last reply per requester | answer a query | store, notice queue |
| Destinations (`destinations.py`) | attached groups | load, attach, announce | router, store |
| Tickets (`tickets.py`) | ticket cache | remember, seed, clean | router |
| Daemon (`daemon.py`) | none | start, supervise, deliver | all of the above |
| Configuration, aliases, crypto, CLI | none | parsing, encryption at rest, single transactions | store |

### What is hard here

* Callbacks of the router run in its own threads, against a tick that works on a snapshot.
* `kill -9` between any two transactions; the store survives, everything in memory does not.
* A check of the failover engine, a merge of personas and a sync round are long sequences of
  transactions with other threads in between, and an exception ends them anywhere.
* Hubs merge each other's tables concurrently, from snapshots that are out of date on arrival.
* Time: backoffs, deliveries, liveness and uptime run against each other.

What makes each component correct:

* Egress: a queued row is sent until it is delivered, spent or pruned, never more than
  `max_attempts` times, not twice at once, and not starved.
* Failover: a hub acts on a peer's silence only if it was there to hear it; nobody is told twice;
  members end up at the hub that serves them.
* Personas: hubs agree on devices and names; a name goes to its earliest claim; an unlink holds.
* Group hub: who may post is decided by roles that held while the message was handled, and so is
  who gets it; a message is stored and queued in one transaction; a held message is replayed or
  dropped for a reason.
* Federation: a round that meets no failure leaves nothing behind that the peer had all along; two
  hubs end up with the same retained messages; nothing comes from anywhere but a sender or a peer.
* Operator channel: only operators change anything, every command is answered, and a group that was
  created comes up without a restart.

## Modules

| module | what it is |
|---|---|
| `Delivery` | what the four outgoing queues promise together, abstractly |
| `Egress` | the scheduler, the queue tables, the router's callbacks, retention, restarts |
| `MCEgress` | instances of it: which rows there are and in which table |
| `EgressProofs` | its invariants and the refinement of `Delivery`, proved |
| `Failover` | verdicts, adoption, hand-back and isolation, with the threads beside them |
| `FailoverProofs` | its invariants and action properties, proved |
| `Personas` | names, devices, link codes and merges on several hubs |
| `MCPersonas` | hubs and devices are interchangeable |
| `PersonasProofs` | types, known personas, agreement on devices and unlinks that stick, proved |
| `NamesProofs` | that a contested name goes to its earliest claim, and that a lost name does not come back, proved |
| `NameLoss` | the notices to those who lose a name; extends `Personas` |
| `MCNameLoss` | hubs and devices are interchangeable |
| `NameLossProofs` | that it implements `Personas`, that no notice is false, and that two hubs tell every loser, proved |
| `GroupHub` | one group's messages and commands, in every thread that handles them |
| `MCGroupHub` | instances of it: who sends what |
| `GroupHubProofs` | fan-out, access, moderation and the hold, proved |
| `Merkle` | the hash trees as the code builds them, and as the sets their nodes stand for |
| `Sync` | what federation of messages promises, abstractly |
| `Federation` | rounds between hubs, request by request; extends `Merkle`, implements `Sync` |
| `MCFederation` | instances of it: hubs, messages, hashes |
| `FederationProofs` | complete rounds, the refinement of `Sync`, and that tree nodes compare as sets, proved |
| `Operator` | commands over LXMF and at a shell, and the hot-loading supervisor |
| `MCOperator` | instances of it: the commands |
| `OperatorProofs` | who changes what, and answers, proved |

Definitions whose names begin with `Mut` are faulty variants of the definition after them. They
are not part of any specification; each shows that a property notices the fault.

### Egress

A *row* is one text for one recipient. `status`, `attempts` and `due` are its columns: `status` is
"queued" while the row is in its table and otherwise says why it left. `older` orders due rows as
the `ORDER BY next_attempt_at` does. `phase` and `batch` are where `tick` is and what of its
snapshot it has not sent; the batch first holds the operator answers (150-164), then what is due in
the other three tables (166-195). `inflight[r]` is the number of the copy the in-flight map keeps
for `r` and `late` says that its deadline has passed. `held` stands for the router's
`pending_outbound`, `calls` for callbacks that run.

Each early return of `send` is an action (`SkipInFlight`, `SkipExpired`, `GiveUp`, `WaitForGroup`,
`AskForPath`, `CannotBuild`), in the order of the code; `Arm` re-arms the row and marks it in
flight (287-288) and `HandOff` or `HandOffRaises` follows (290-300). A callback is two actions,
`Release` and `CompleteDelivered`, because the code releases the entry and deletes the row
separately. The router is external: a copy may reach its recipient, be concluded with either
callback, or be dropped without one. Rows of the other three tables behave alike in the model
except for what the code does differently: reflections expire with their message, operator answers
go first and cost no token, directory answers need no group.

Left out: how long backoffs and graces last (so `graces` is not kept), the choice between direct
and propagated delivery, tickets, the text of messages. Branches for a missing operator channel or
directory are left out because `daemon.py` always constructs both.

`PromptRelease` is an assumption made explicit as a constant: when it is TRUE, the scheduler does
not deal with a row between the moment the router drops a copy of it and the first statement of the
callback. In the code nothing but time enforces it (the shortest backoff is far longer than the
start of a callback). Without it, a late callback releases by row id whatever entry is there then,
and two copies can be on the way; `OneCopy` and `RowsLeave` are proved under it, everything else
without it.

### Failover

`roles`, `theirs`, `adoptions`, `silence` and `isolated` are the tables; `silence[p]` is the time
since `last_success_at`. `Check` computes all verdicts at once as `check` does; then each peer is
adopted from (`StartAdopting`, then per group `ReadMembers`, `Adopt`, `Tell` for each new row),
handed back (`ReleasePeer`, `Tell`) or passed over; then `SkipIsolation` or `CheckIsolation` with
its notices. `CheckRaises` ends a check anywhere, as `_guard` does with an exception (`daemon.py`
214-219). `Restart` comes back a while later with whatever peers the configuration then names.
`Answer` and `RecordState` are the federation thread, `SetRole` an operator or a member.

Silence and uptime saturate one tick beyond the timeout, which loses nothing: a verdict compares
them with the timeout only. The notify switches of the configuration are taken to be on.

### Personas

Every hub has its own tables. Merges go row by row: `FetchPersonas` and `FetchDevices` are the two
queries of `snapshot`; `TakePersona` compares a row and decides a collision, `ClearName` takes the
name from the loser here, `WritePersona` writes the row or runs into the unique index; `TakeDevice`
and `AttachDevice` do the same for devices. Rows are taken in the order `list_personas` sends them.
Joins are three steps (`Spend`, `Link`, `Admit`), as a kill may separate them.

One clock stamps all rows. Distinct hubs never stamp changes of one row alike, but two personas can
be created at the same time, so the tie-break on the id is exercised. Unlink codes are left out
because what they lead to is the unlink that `/unlink <hash>` allows anyway.

`NameLoss` adds what a merge does for the losers. `losers` is the local list `_adopt` fills when
`ClearName` takes a name away (`Note`); once the merge is through, `Address` looks up the devices of
one of them as `notify_name_lost` does, and `Tell` queues one notice, or none where the device is in
no group here. Both read the tables as they are by then. `Forget` is the loss of the list: with a
merge that raises (`Write` into the unique index, `Fail`) or with a kill or an exception between two
notices (`Silence`). The federation thread tells before it fetches again (`Fetch`). `told` is what
has been queued; `forgotten` is history, the personas of which some hub lost a notice, or the device
a notice would have gone to: `Attach` writes a row that was compared before the device claimed
another persona here.

### GroupHub

One group on one hub. Each thread that can handle a message (the router's, the egress thread with
what was held, the federation thread with what a peer sent) has a place `pc`, the message it handles
and what it has read so far; a step is one transaction of the store or one critical section of a
lock. `ReadRole`, `AskPeers` and `Enrol` are `authorise` (hub.py 212-240); `TakeCommand`,
`MarkAnswered`, `ReadTarget` and `WriteRole` a command with its reply limiter and the checks of
`usercmds.py`; `ListMembers` and `ListAdopted` are `recipients`; `StoreAndFanOut` is the one
transaction that inserts the message and its queue rows, and does nothing for a known message.
`TakeHeld`, `DropHeld`, `KeepHeld`, `Replay` and `PutBack` are `retry_unverified`: it takes the list
under the lock, works without it, and puts back what remains behind what was held meanwhile.
`Raise` is an exception in a handler, which `_guard` turns into a log line; what the retry had taken
goes with it. The operator, the failover engine and retention change the tables between any two
steps.

`watch` is a history variable: for each thread, the facts about users (`Standing`) that have held at
every moment since it took its message. It is what the properties need to say about a ban "in
between": they promise something for whoever was banned, or a member, *all along*, and nothing for
those whose standing changed meanwhile, since the code reads the roles in one transaction and writes
in another.

### Merkle, Sync and Federation

`Merkle!Tree` is the tree as `merkle.py` builds it, level by level, over a hash without collisions.
`Federation` does not carry trees: it works with `Below`, the set of messages a node stands for, and
`NodesAreSets`, which TLC evaluates for all pairs of sets of the instance's messages and TLAPS proves
for trees of any depth, says that comparing nodes is comparing those sets.

A round of hub `h` is: `Connect`, `AskRoots`, and for each group `EnterGroup`, for each epoch
`OpenEpoch`, then `AskNodes` level by level, `AskBuckets` in chunks of `MaxBuckets`, and `AskFetch`
and `Continue` in batches of `MaxBatch`; then `LeaveGroup` and `EndRound`. A request and its answer
are one step, computed from the peer's store at that moment; the hub's own tree is read once per
epoch (`local`), as the code does, and compared with answers of later moments. Messages come as
resources: `air` holds those under way, `Arrives` is the link's thread, and `arrived` is the event
the round waits for, which any resource sets. `GroupFails`, `FetchFails`, `WaitTimesOut`,
`LinkBreaks`, `ArrivesBroken` and `Restart` are the failures; a failed request gives up the group,
a late resource only the epoch. `agenda` is what the peer said about its roots and has not been
looked at. `offered` and `failed` are history: what the peer has held since the roots were read, and
the groups in whose reconciliation something failed.

`Sync` knows only what each hub stores and has ever stored: messages are sent to a hub, copied from
an own peer that has stored them, or dropped when older than the retention.

### Operator

A command over LXMF is held while its sender's identity is unknown, checked (`Accepted`) when it
comes or when it is replayed, and carried out in two transactions, `Check` and one of `Create`,
`Delete`, `SetAcl`, `Add` and `Remove` (`remove-member` reads the role in between). `Reply` queues
the answer. The shell does the same in a process of its own. Identities are numbers that are never
given twice, which is what tells a group from a later one with its id. The supervisor reads the
groups (`ListGroups`), attaches what has no destination yet (`Attach`) and announces what is due.
`Raises` and `LoadRaises` are exceptions, `Restart` a kill, after which the router may deliver again
what it had delivered.

## Runs

Bounds are chosen so that every action fires in some passing run.

| run | instance | shows |
|---|---|---|
| `egress` | a reflection and an operator answer, 2 attempts, 1 token, batches of 1, 1 restart | type, `CopiesAreCharged`, `OneCopyAtATime`, `RowsLeaveForAReason`, `QueuedRowHasMessage`, and that `Egress` implements `Delivery` |
| `egress_live` | two reflections, 1 attempt, batches of 1, no restart | `ReachableRowsSettle` |
| `egress_copy` | one reflection | a delivered message is sent again (finding) |
| `failover` | 1 peer, timeout 1, 2 restarts | nobody told twice; adoption, hand-back and isolation rest on evidence; members end up served by the right hub; isolation is noticed |
| `personas` | 2 hubs, 2 devices, 2 personas after one name, a link code, 3 changes | linked devices have personas; settled hubs agree on devices, and on who has the name; those who lost it are told (`LosersAreTold`), and nobody else (`NoFalseAlarm`); an unlinked device is linked again by a later link alone (`UnlinksStick`) |
| `personas_live` | 2 hubs, 2 members, names lost and claimed again | the mesh comes to rest, notices and all |
| `personas_rename` | 2 hubs, 2 members, 2 names | hubs disagree on a name for good (finding) |
| `hub` | 2 users, a post, a ban, a forged unban and a link; 2 deliveries, 1 outside change, 1 failure | `FanOutIsFair`, `AclHolds`, `ModerationIsAuthorised`, `HeldLeavesForAReason` |
| `fed` | 2 hubs and a third nobody answers, 2 groups, 2 messages, trees of depth 2, chunks and batches of 1, 1 failure, any number of rounds | `RoundIsComplete`, `Converges`, and that `Federation` implements `Sync` |
| `fed_prune` | 2 hubs, 2 rounds | a pruned message is fetched again (finding) |
| `operator` | an operator, a stranger and a forger, one id, six commands of which one is sent, possibly twice after a kill, and one typed; 1 failure | `OnlyOperatorsChange`, `CommandsAreAnswered`, `GroupsComeUp` |
| `operator_recreate` | create and delete, sent and typed | a re-created group never announces (finding) |

The instances reach between 800 and 4 million states; the largest (`hub`, `personas`) take one and
a half to three minutes.

Why the bounds are enough. *Egress*: the hazards need one row with two copies (two attempts), a
row of the unpaced table beside one of a paced table, a spent token and one kill; answers to
members and notices take the same steps as reflections apart from expiry, which the reflection has.
Starvation needs two rows of one table and a batch of one. The liveness instance uses rows of one
table: time in the model is so abstract that an answer to a member could become due again before
every token and starve a reflection, which the real waits (15 s and more, against tokens that
arrive every few seconds) exclude. *Failover*: the engine treats peers, groups and users
one by one; the only place where peers meet is isolation, and that rests on the same evidence for
each. Two peers together with the liveness properties are beyond five minutes, so the run has one;
the safety properties are proved for any number. A timeout of
one tick separates "just heard", "at the limit" and "beyond it". *Personas*: a contested name needs
two hubs and two claims; devices need a link, a move, an unlink and a merge from either side. Two
personas may be claimed at one moment, so three changes are two claims, a link and an unlink. A
fourth change (4 minutes, without the notices) showed nothing new, and agreement,
names, unlinks and notices are proved.
*GroupHub*: the races are between one handler and one change, or between a handler and the
moderation of another message, so two deliveries and one outside change suffice; the router's thread,
the egress thread and the federation thread may each be at work. *Federation*: two messages whose
hashes part only at the last level exercise a subtree that differs because of either, two chunks and
two batches; one is at the first and one at the last moment of an epoch that retention cuts through
as the clock goes on. A third message would only repeat this in another epoch, and the proof does
not depend on their number. *Operator*: every command with every thread, and one repeated.

`CHECK_DEADLOCK FALSE` is set where the instance runs out of things to do: in `Egress` when every
row has left its queue and the restarts are used up, in `GroupHub` and `Operator` when all messages
that are ever sent have been dealt with, and in `Federation` when the clock has reached its bound
and no peer is left to connect to. In the code these are threads that sleep.

### Fairness

* `Egress`: the thread takes its ticks and the bucket refills (weak fairness); waits and deadlines
  pass; the router is done with every copy some day and callbacks it started run. `Send` has strong
  fairness: it may be pre-empted by an exception or by lack of a token, but not for ever. Nothing
  is assumed of members, operators, retention or kills.
* `Failover`: time passes, the supervision loop calls `check`, a check is worked through (weak
  fairness); exceptions do not go on for ever. The formula is `<>[][CheckRaises => Work]_vars`
  because a check that ends normally may look like one that was cut short.
* `Personas` and `NameLoss`: rounds with each peer are started again and again (strong fairness,
  since a hub merges with one peer at a time), a merge is carried through and so are the notices
  after it (weak fairness), failures end.
* `Federation`: the thread goes through its peers again and again, so each that answers gets its
  turn (strong fairness of `Connect`, which another round may pre-empt); a round goes on, as every
  request ends by its timeout, and what is sent over a link that stays up arrives (weak fairness).
  Nothing is assumed of a hub whose peers do not name it.
* `Operator`: the supervisor lists the groups and works the list off (weak fairness) and comes to
  every due announce between two loads (strong fairness, as it is disabled while it loads). Nothing
  is assumed of commands: they may stop coming.

## What is proved

The theorems hold for any sets of rows, peers, groups, users, hubs, devices and personas and any
limits that satisfy the assumptions named in the modules (limits are naturals, `max_attempts`,
`burst` and `batch_size` at least 1).

*Egress.* `Shape` is `TypeOK` and how the batch of a scan, the armed row and the queue fit together
(a queued reflection has its message). `Charged` says that the copies sent of a row, and the one it
owes while it is armed, are at most `attempts`, so the inequality survives both the hand-over and a
kill before it, and `attempts` stays within the limit. `Flying` ties the held copies and running
callbacks to the copies made. `TypeCorrect`, `CopiesCharged`, `MessagesKept` and the refinement need
no more. Under `PromptRelease` come `OneCopyAtATime` itself, `Releasing` (the entry of an armed row
is the copy it is about to get; a queued row whose release is pending has no other copy) and
`Leaving` (why a row that has left was allowed to): from these follow `OneCopy` and `RowsLeave`.
`KeepsPromise` shows step by step that every action of `Egress` is a step of `Delivery` or changes
none of its variables.

*Failover.* One inductive invariant for all: `TypeOK`; `Evidence` (a peer that has not been heard
since the start is silent; a verdict "stale" means a silent peer and an uptime beyond the timeout, a
verdict "live" a peer that was heard); `Place` (what each stage of a check may hold); `Untold` (an
adoption is announced at most once, and one still to be told has not been announced). The two action
properties follow from it together with the step.

*Personas.* `Resolved` says that every persona mentioned on a hub (by a device, a code, a join under
way, the device a merge is about to attach) is known there, and that fetched rows are real rows; it
needs that no step makes a hub forget a persona (`KnownStays`). `Stamped` says that rows of one
device with the same version are the same row, wherever they are: in a table, fetched, or in hand;
a row in flight is as much a copy as one in a table, which is why the invariant counts both.
`Tracked` says that a device in flight is in some table, which keeps the first row of a device from
colliding with one. `DevicesAgree` follows: settled hubs have equal versions, so equal rows. It
rests on the assumption of the model that no two changes of one device are stamped alike.
`UnlinksHold` follows from the same invariant together with the step: a younger row that links has
a younger link, and a row of the same version is the same row. An older row can be in hand only
because the table changed after it was compared (`Threatened`), which the property names as the one
exemption and whose second conjunct keeps it from being used for anything else.

*Names.* `NamesGoToTheFirst` speaks of hubs where nobody changes a name (`Renaming` is FALSE). A
persona is *beaten* if another that was created with the same name has the earlier claim, and a row is
*rightful* if it bears the name its persona was created with, or none, and then the persona is beaten.
`Earned` says that every row is rightful, in a table, fetched or in hand, and that whoever is about to
lose a name is beaten: a collision is decided by the claims in two rows, and these are the claims the
personas were created with (`Agreed`). `Unshared` is the unique index. Of a finite set of claims one
is the smallest (`Earliest`); its persona is never beaten, so on settled hubs, where everybody knows
it, it has the name, and by `Unshared` nobody else has. `LostNamesStay` is the safety half of coming to
rest, for any number of hubs: a row that still has its name is a first revision, and a merge writes
no first revision over a row it knows (`Revised`), so no hub gives a name back to a persona it has
seen without one. With two hubs this cannot fail, as nobody but the hub that gave out a contested
name has it; with three (too large for a run of its own) TLC finds it violated at once when `Newer`
takes any other revision for news. `NameLossProofs` shows that every step of `NameLoss` is one of
`Personas` or changes none of its variables, and adds `Warned`: whoever is noted, dealt with or told
is beaten, and stays so, which gives `NoFalseAlarm`.

*Losers.* `LosersHear` is about two hubs, no changes of names and no codes. Then a persona has the
one device it was claimed from, in one row that is never written again (`Sole`). That row is *safe*
on a hub that has it or a later one and will not write an earlier one without forgetting the
persona; it is *overtaken* once some hub has a later row for good, and then settled hubs agree on
the later one and nobody is owed a notice. Unless the persona is forgotten, the row is safe somewhere
(`Home`), and a merge that knows the persona, or is about to, has the row safe, or overtaken, or
still ahead of it (`Reaches`), since persona rows come before device rows and the peer has both. So
whoever is on a list when its merge is over has a device there to address (`Held`). `Kept` says that
a name stays with its persona until some hub takes it, which is what a revision above 1 means
(`Bumped`), and `Due` that the device of a persona that lost its name is overtaken, told, addressed,
or its persona on the list of a hub. On settled hubs with empty lists only "told" is left.

The proof first failed on a real case, which the model then did not exempt and TLC needs a third
persona to reach: a device claims a persona at a hub between the comparing and the writing of an
older row of it, the claim is overwritten, and when the hub takes the name it no longer knows whose
it was. `Attach` records it. And it needs two hubs: with three, TLC finds that a hub whose merge
raised between a persona and its device takes the name without having the device, and hands the
cleared row to the hub that has it.

*GroupHub.* The invariant ties what a thread has read to its `watch`. While a handler is between
its reads and its write, whoever has been a member all along is in the list it has gathered, or will
be found by the read to come; whoever has been banned or outside all along is not. A role it is
about to write comes from a sender who was an admin at some moment of the handling. Each step either
adds what it reads, which is true now, or shrinks the watch of the others by what it changed, so the
implication survives both. `HeldLeave` rests on sequences alone: an entry moves from `held` to
`batch`, to `kept` and back, and only `DropHeld` and `Replay` take one out.

*Federation.* `RoundComplete` follows one message the peer has held since the roots were read.
Until this hub stores it, it is *in sight*: in the root of an epoch still on the agenda, or below a
node found to differ, or among the missing, or in the one resource the hub waits for. Each answer of
the peer is of another moment than the one before, but each contains the message, while this hub's
own tree, read once, does not: so a node above it differs whenever it is compared
(`DueDiffers`). That no child is left out of a request needs that a level has no more nodes than one
request may ask for (`CandidatesAreAll`, from `PrefixAssumption`). That the resource a round waited
for was the one it asked for needs that nothing failed before (`OneResource`): after a failure a
late resource may end the wait for the next, and then the property makes no claim. `ImplementsSync`
adds that what is on its way was stored by the peer at the other end, who is one of the hub's own.
`NodesCompareAsSets` goes up the levels of two trees. As induction theorems are out of reach, it
takes the lowest level that fails, counted from the leaves (`Smallest`, from the library's
well-founded order on finite sets), and uses the level below it; `TreeIsBuilt` shows in the same way
that the recursive function of `Tree` has a value, and `Doubling` that a level has twice the nodes
of the one above.

*Operator.* A thread of the daemon gets a command by `Take` alone, after `Accepted`; so while it
carries one out, that command is genuine and an operator's, which gives `OperatorsChange`.

Left to TLC: liveness (`ReachableRowsSettle`, `MembersFindTheirHub`, `IsolationIsNoticed`,
`MeshComesToRest`, `Converges`, `GroupsComeUp`), which the prover cannot treat. Every other property
of a passing run is a theorem.

## Findings

1. `egress_copy`: a delivered message can be sent again (`egress.py` 498-499 against the snapshot of
   166-168).
2. `personas_rename`: names diverge for good (`personas.py` 252-258 against `src/README.md` 297).
3. `fed_prune`: a hub fetches again what it has just pruned (`federation.py` 585, `hub.py` 466-470
   against `src/README.md` 221).
4. `operator_recreate`: a group created again under its id keeps the old destination and never
   announces the new address (`destinations.py` 58 against `control.py` 25-28).

Known gaps that the models contain and no property denies:

* An adoption or a hand-back is committed before its members are told; a kill or an exception in
  between leaves them untold (`failover.py` 171-185; `store.py` 114-115 says the rows are what is
  still to be announced).
* A link code spent by a banned device gives it the role of the persona's other device
  (`personas.py` 155, `hub.py` 151-168; `src/README.md` 324 says a ban reaches further).
* Enrolment in a public group writes "member" over a ban that came after the role was read
  (`hub.py` 228). `AclHolds` therefore speaks of bans that held all along.
* A post of an author who is banned here is accepted from a peer that accepted it, as the code
  trusts its peers in this.
* Losers of a name who are not told (`federation.py` 420-440, `personas.py` 259-265 against
  `src/README.md` 297): when the merge that took the name raises afterwards, or the hub is killed
  before it has queued the notices; when their device has moved to another persona or is in no group
  of the hub that took it; and when a third hub fetches the cleared row between `ClearName` and
  `WritePersona` and hands it on, so that the hub their device is at finds no name to take.
  `LosersAreTold` therefore speaks of two hubs, of devices that stay where they are, and of hubs
  that forgot nothing.
* An unlink, or a claim, that comes between the comparing and the writing of an older row of its
  device is overwritten by it (`personas.py` 275, 277): the device is linked as before, on this hub
  for as long as no other knows of the unlink. `UnlinksStick` and `LosersAreTold` exempt this.
* An exception while held messages are replayed loses the rest of those taken (`hub.py` 282).
* A member added while its group is deleted leaves a row that a later group of that id inherits
  (`admin.py` 196).

## Plan

Done: `Delivery`, `Egress`, `Failover`, `Personas`, `NameLoss`, `GroupHub`, `Merkle`, `Sync`,
`Federation` and `Operator`, with their proofs. What would come next:

1. `Failover` composed with the notice queue of `Egress`, for the order in which adoption and
   hand-back notices reach a member.
2. Unlink codes, in `Personas`.
3. Clocks that differ between hubs, in `Personas` and `Federation`.

## Not modelled

* Configuration, aliases, cryptography, the directory and tickets: they keep no state that
  interleaves with anything, or only a cache whose loss costs airtime. Which alias of several a text
  shows is data. Argument parsing, listings and wording of the command line are I/O.
* Clocks of hubs that differ: all modules have one clock per model. What a clock that runs ahead
  does to the order of persona changes and to the edge of the retention window is not covered.
* Federation with parameters that differ (epoch length, tree depth), which the code refuses; the cap
  of 512 epochs per response, more than the 168 of the default retention; and trees deeper than 10,
  where a level can have more nodes than a request may ask for (1024) and the rest is not compared:
  `PrefixAssumption` says that this is left out.
* A transaction of the store is one step. `adopt` and a failed insert in `add_group` leave a
  transaction open that the next commit makes part of its own (`store.py` 479, 885); the models take
  a failed transaction to have had no effect.
* Text of messages, addresses of notices, stamps, propagation nodes and the size of resources.

Defaults of the code, for orientation: a sync every 300 s, epochs of 3600 s, 168 of them retained,
trees of depth 8, batches of 256 messages, 64 buckets and 1024 nodes per request, pruning every
3600 s, hot-loading every 30 s, and 120 s for an unverified message.
