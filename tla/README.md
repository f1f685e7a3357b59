# FortiGate Autoscale for Azure: TLA+ specifications and proofs

FortiGate Autoscale keeps a group of FortiGate firewalls in two Azure virtual
machine scale sets (one with bring-your-own licenses, one pay-as-you-go). The
program is a handful of Azure Functions. They keep nothing between two calls:
every HTTP request is handled by an *invocation* of its own, many at a time, and
invocations meet only in Cosmos DB tables, in blob storage and in what the Azure
management API says. So the questions worth asking are about interleavings of
round trips: what is read, what is done with it later, and what the other
invocations did in between. That is what these modules are about.

Paths below are relative to the repository.

## 1. Inventory

| component | state it keeps | operations | what is hard | what makes it correct |
| --- | --- | --- | --- | --- |
| table access, `core/azure/azure-platform-adaptee.ts` | Cosmos DB tables (documents with an `_etag`) | `saveItemToDb`, `deleteItemFromDb`, `getItemFromDb`, `listItemFromDb` | each save and each checked deletion is a read and a write in separate round trips | a checked save does not overwrite what its checker refuses; inserts only insert |
| heartbeat handling and primary election, `core/autoscale-core.ts` | tables Autoscale (health check records) and PrimaryElection | `handleHeartbeatSync`, `handlePrimaryElection`, `handleStaleVm`, `handleUnhealthyVm` | about fifteen round trips per heartbeat, all of them interleaved with those of other VMs' heartbeats; VMs are terminated in between | one primary in the end; only VMs of the right group; the record of what a device was told agrees with the device |
| from a request to a record and back: `getReqDeviceSyncInfo`, the record conversions of `core/azure/azure-platform-adapter.ts` and `core/db-definitions.ts` | documents of the table Autoscale | `createHealthCheckRecord`, `updateHealthCheckRecord`, `parseHealthCheckRecord`, `convertRecord`, the full match of a deletion | a value that is missing, null or 0 takes another form at each step | what was reported is what is read; a record that was read can be matched |
| heartbeat strategy, `core/context-strategy/autoscale-context.ts` (`ConstantIntervalHeartbeatSyncStrategy`) | counters of a health check record | `apply` | overlapping heartbeats of one VM, lost, late and out-of-order ones, reboots, boundaries of the counters, termination in several round trips | losses are counted only for heartbeats that were late; the record does not go back to an older heartbeat; a VM that goes out of sync is terminated if that is set |
| election strategy, same file (`WeightedScorePreferredGroupPrimaryElection`) | none | `apply` | ties, the order in which records come, stale sync info, newcomers | at most one winner, of the preferred group; the same records elect the same VM; who is the primary stays it |
| licensing, `core/context-strategy/licensing-context.ts` | tables LicenseStock and LicenseUsage, license files in blob storage | `apply` (stock refresh, claim, status sync, hand-over), `updateLicenseStock`, `updateLicenseUsage` | requests that pick the same license, retries, VMs that leave, files that go | a license serves one VM at a time; a VM keeps its license while it lives, and locks no other; requests end |
| cached API calls, `core/azure/azure-platform-adaptee.ts` (`requestWithCaching`) | table ApiRequestCache | list and describe instances, network interfaces, delete an instance | answers are cached by concurrent invocations, older over newer; removal on deletion of a VM | a VM that is there is found; a VM that has gone is not described for ever |
| settings, `core/azure/azure-platform-adapter.ts` 71-135, `core/autoscale-setting.ts` | table Settings | `init`, `saveSettings`, `getSettings` | several first invocations, each saving the whole set row by row | nobody acts on a part of the settings; once saved, they stay |
| FortiAnalyzer integration, `core/fortigate-autoscale/fortigate-faz-integration-strategy.ts` | the remote FortiAnalyzer | authorization for the first heartbeat of a VM and by a 12-minute timer, each a call of another function | calls that fail or outlast their caller, devices that connect late | every device is authorized in the end |
| function invocation and proxies, `autoscale-shared/index.ts`, `core/cloud-function-proxy.ts` | none | HTTP request to handler and back | the host stops invocations | an answer for each request |
| bootstrap, `core/fortigate-autoscale/fortigate-autoscale.ts` (`handleBootstrap`), `fortigate-bootstrap-config-strategy.ts` | none | the first configuration of a VM: its role, the primary's address, text | it is asked for while others elect; a VM may ask again | a VM starts as a secondary |
| scaling group, tagging, routing, VPN, NIC strategies | none | no operation on Azure | - | - |
| deployment templates, release scripts | - | - | - | - |

How they interact: a heartbeat (`handleHeartbeatSync`) runs the heartbeat
strategy, then reads the primary VM and the primary record, perhaps runs the
election strategy, cleans up, and answers with the address of the primary. A
license request runs the licensing strategy, a bootstrap request reads the health
check record and the primary. All go through
`azure-platform-adapter.ts`, which turns domain records into documents and calls
table access with a save condition and a checker, and all see the scale sets
through the cached API calls.

## 2. Modules

| module | what it is |
| --- | --- |
| `CosmosTable` | the decisions of a single save as operators without state: save conditions, checker, IfMatch. The other modules take the guards of their saves from here |
| `CosmosStore` | one table used by concurrent invocations through `saveItemToDb` and `deleteItemFromDb` |
| `AtomicTable` | what callers rely on: read, check and replace as one step |
| `SyncVerdict` | what a heartbeat may do to the sync state of a VM; what `PrimaryElection` and `Heartbeat` have in common |
| `PrimaryElection` | first configurations and heartbeats of all VMs, health check and primary tables, election, termination, answers |
| `Heartbeat` | overlapping heartbeats of one VM and its health check record: counters, saves, termination |
| `SyncRecord` | what the others see of it: a sync state that changes by verdicts only |
| `Licensing` | license requests, stock and usage tables, files |
| `LicenseLease` | what FortiGates rely on: a license is leased to one VM at a time |
| `ApiCache` | lookups, listings and deletions of VMs through the table of cached API answers |
| `ElectionScore` | the weighted scores of one election, from the records to the winner |
| `ReportedElection` | composed with it: request bodies, records, documents, and records again, up to the list an election starts from |
| `Settings` | loading and migration of the settings by concurrent invocations |
| `FazAuth` | authorization of devices in the FortiAnalyzer, on request and by a timer |
| `MC...` | an instance of each for TLC |
| `CosmosStore_proofs`, `PrimaryElection_proofs`, `Heartbeat_proofs`, `Licensing_proofs`, `ApiCache_proofs`, `ElectionScore_proofs` (with `ReportedElection`), `Settings_proofs`, `FazAuth_proofs` | theorems and their proofs |

### CosmosStore

`table` is the container, `pc`, `req` and `snap` are the local variables of each
invocation between its round trips. `ReadForSave` is everything up to the upsert
(read, checker, save condition: lines 322-402 of the adaptee are local once the
read has answered). `UpsertWrites` and `UpsertFails` are the two answers of the
service: with an IfMatch condition the document must still have the etag that was
read. What an IfMatch upsert does when the document has been deleted meanwhile is
not said by the repository, so both answers are possible. `ReadForDelete` and
`Delete` are the halves of a deletion, `Abandon` is the host stopping an
invocation. A call that gets no proper answer ends with `UnexpectedResponse`, whether
the document was written or deleted or not (`UpsertWrites`, `UpsertFails`,
`DeleteFails`); a read that fails ends a save with the same error and a deletion with
`NotFound`, as if there were nothing to delete (`ReadFails`). Cosmos DB is external; it
is assumed to give every version of a document an etag of its own (`lastEtag`), and no
property is about that.

An item that passes `Passes(new, old)` stands for any checker function. The
constant `Requests` says which calls are made; the instance mixes a key used only
with `UpdateOnly` and a checker (as a license usage that is handed over) and a key
that is inserted, upserted with a checker and deleted (as a health check record).
`GuardedSavesAreAtomic` is about keys of the first kind only. A license usage has its
first save on the second kind, an insert without a check, which is what `NoSharedLicense`
is about.

### PrimaryElection

Variables: `health` and `primary` are the tables, `up` the VMs as the listing
shows them, `device` the address each FortiGate was last given (`Absent` until it has
its first configuration), `h` the invocation of each VM's heartbeat with its local
variables. A VM starts with `Boot`, the whole of `handleBootstrap`: the primary VM is
looked up unless the VM is on record (`FirstPrimary`), and the configuration is that
of a primary if it is the VM itself, or that of a secondary with the primary's
address, if there is one. The steps of a heartbeat follow the code:

`Receive` (read the target's record) → `Sync` (strategy, create or update the
record) → `ReadPrimaryVm` → `ReadPrimaryHealth` → `ReadPrimaryRecord` → `Judge`
(keep the primary, or delete its record by `DeleteRead`, `DeleteWrite`) →
`HandleStaleVm` → `Elect` → `SaveGuard`, `SaveRead`, `SaveWrite` (the guard of
`updatePrimaryRecord`, then both round trips of `saveItemToDb`) → `Assess`, `Cull`,
`Drop` (`handleUnhealthyVm`) → `SaveTold` → `Reply`.

Abstractions:

- A VM has one heartbeat in flight. Overlapping heartbeats of one VM are the
  subject of `Heartbeat`.
- The health check record keeps its sync state and the primary's address; the
  counters are abstract (`NextState` of `SyncVerdict` allows every state they could lead
  to, and `HeartbeatsAreJudgements` of `Heartbeat` is why that is enough), and a
  heartbeat is late or on time. A late one counts as a fault of the environment.
- Time is the set `silent` of VMs whose next heartbeat is overdue, and, as each
  invocation compares with its own start time, the set `overdue` it began with.
  A record is overdue only after a whole interval. A reader that finds it due for less
  than that takes the VM for unhealthy where the code asks for `healthy`, if one more
  loss would be too many (adapter 674-691): an election passes the VM over
  (`ElectWithoutSlow`), an old primary counts as stale (`AssessSlow`), a primary is not
  told about (`PrimaryIsSlow`). Each of these is a fault, like any late heartbeat, and
  may hit any VM but the target, whose record has just been saved.
- `up` is the scale sets as invocations see them, through the cached API calls.
  How far that view may be behind is the subject of `ApiCache`; here it catches up
  with a VM when the VM joins or leaves.
- `Boot` is one step although the code looks the primary up first and answers later:
  the VM sends no heartbeat before, its record is made later and names nobody, so
  that its first heartbeat tells it again whatever was read when.
- `Reimage` is the fault that gives a VM a new disk, so that it asks again. What the
  configuration says besides role and address is text and left out.
- Which candidates the weighted scores single out is the constant `Verdict`: any,
  or none, for safety. Two scores can be equal and the code then elects nobody, so
  agreement can only be promised for scores that rank the candidates
  (`RankedVerdict`). How the scores come about is the subject of `ElectionScore`.
- `handleStaleVm` lists and deletes in one step, all stale records or, if it fails, any
  of them (`HandleStaleVmFails`). That a record may never match is left out here:
  `Converges` presumes records with an interval and a recovery count
  (`WhichRecordsMatch` of `ReportedElection`). `Cull` and `Drop` are one step
  each, for one or two VMs, with an arbitrary subset that succeeds.
- The guard of `updatePrimaryRecord` takes a read that fails for a record that is not
  there (`SaveGuardFails`).
- The `etag` of a primary record also stands for its vote end time, which is what
  tells two records of one VM apart in the full match of a deletion. Version names
  are reused when nobody holds them any more, which keeps the state space finite.
- Vote states Pending and Timeout do not occur: the weighted election saves Done,
  and on Azure the classic election elects only the target itself, which has a
  health check record by then, so that `handlePrimaryElection` turns it to Done.
- Notifications, and the tagging and routing strategies, do nothing here.

`UndoubtedPrimaryStays` is the other half of `Converges`. `Undoubted` describes a primary
that nothing speaks against: all records name it, it is in sync and heard of in time,
and every invocation under way has read nothing else (`Trusts`). Then it stays so,
whatever overlaps, joins, leaves or fails, until a fault hits that very VM.

### Heartbeat

One FortiGate and its health check record, from the side of the device.
`PrimaryElection` has many VMs and an abstract strategy; `Heartbeat` has one VM and
the strategy in full.

`config` holds the settings and the kind of device, `clock`, `sentAt` and
`rebooted` what the device did, `inFlight` the heartbeats that are under way,
`record` the stored record, `h` the invocations with their local variables. The
device sends a heartbeat on time or late (`Send`); one that is lost is never
handled; they are handled in any order, each by an invocation of its own.

`Load` is the strategy: `Lateness` decides whether the heartbeat is late,
`Counted` and `Judged` make the new record from the one that was read, `Sequel` says
what follows the save. `LoadFirst` is a heartbeat that finds no record. A save is
`CreateRead` and `CreateWrite` (`InsertOnly`, without integrity check) or
`UpdateRead` with the checker `Passes`, and `UpdateWrite` or `UpdateFails` with
IfMatch. An in-sync VM's record may be saved once more, with another primary's
address (`Proceeds`). A VM that has just gone out of sync is deleted if
`TerminateUnhealthyVm` is set (`Cull`, or `CullFails` when Azure refuses, an error
nobody sees), and then its record (`DropRead`, `DropMatch`, `DropWrite`).
`ReadHealthy` is what an invocation of another VM makes of the record: elections and
clean-up go by it, and not by the sync state the strategy has saved. `ReadersAgree`
says that it comes to the same as what the strategy would make of the VM.

`HeartbeatsAreJudgements` says that `Heartbeat` implements `SyncRecord`, in which there
are no counters, numbers, times, etags or round trips of a save. What is seen of the
record is its sync state; what is seen of an invocation is what it is about to do
(`Plan`: save a state, save it and terminate the VM, terminate, delete the record); and
of the device, whether it was `Punctual` so far. `NextState` and `Condemned` of
`SyncVerdict` say which plans a judgement may lead to, and a punctual device is never
judged late. `PrimaryElection` is built on the same `NextState` and `Dropped`. What the
refinement does not promise is that the judged state is still stored when the verdict is
saved: that is `OvertakenIsDiscarded`, which is violated.

Abstractions:

- Of the record the model keeps what decides about heartbeats: sequence number,
  send time, losses, sync state, remaining recoveries. The address of the primary
  is left out, so that a record saved again with another address counts as the same
  in the full match of a deletion.
- Time is that of the device, in units of an interval; a late heartbeat is sent two
  units after the one before. A device without sync info is judged by arrival, which
  depends on anything, so that its heartbeats are on time or late as it comes.
- A missing sequence number or send time is 0, and so is a sequence number of 0,
  which the code takes for missing (`Reported`). Devices that count from 0 are
  part of the module and of the theorems; the run has those that report nothing,
  which take the same paths.
- The set `current` stands for the etags: an invocation is in it while what it
  read for its save is still what is stored. That is what etags tell, given that every
  version has one of its own.
- The record may be deleted at any time by the invocation of another VM that does
  not see this one (`Forget`); other ways in which the VM leaves look like a device
  that stops sending.
- Elections and answers are the subject of `PrimaryElection` and take no step here.
- `forceOutOfSync` is left out: it is called only for lifecycle events, which
  Azure does not send.

### Licensing

Variables: `files`, `stock`, `usage` (shared), `holds` (the license each VM was
given), `h` (the invocations); `clashed` and `doubled` are history. `List` →
`StockRead`, `StockWrite` (`updateLicenseStock`) → `Choose` → `Claim`, `ClaimWrite` (an unused license) or `Reuse`, `SyncStatus`,
`Relist`, `HandOver`, `HandOverWrite` (a used one, with `Retry`) → `Load`.

Abstractions:

- Requests of one VM may overlap. A VM that never asked is as good as not there,
  so all VMs are there initially; leaving is for good.
- A VM that is there is always described as running: its description is first
  made when it sends a request, so when it runs, and a cached description is not
  made again. One that has gone may still be described as running: the description
  is read before it is used, and as long as the cached list has the VM its cached
  description is given (see `ApiCache`).
- A listing is one step. The saves and deletions of one `updateLicenseStock` are
  one step; the saves of `syncVmStatusToUsageRecords` are separate steps, each of
  which may fail. The snapshot that `updateLicenseUsage` lists and the read of
  `saveItemToDb` are one step: the first only decides between insert and update,
  and a usage record, once there, stays.
- Unused and out-of-sync licenses are tried in any order, which covers every order
  a query may return.
- `LicensesAreLeased` hides all this: of a usage record the VM it is registered to
  is left (`Owner`), of a request nothing. `HolderOwns` says who may hold a license in a
  state; the refinement says besides how a license comes to change hands: never as long
  as the VM it is registered to is there, whether it was given the license yet or not.
- `LocksOne` is about the waste of licenses. Requests of one VM that overlap may lock one
  each, and so may a request whose save goes through although it fails, as it goes on to
  the next license (`ClaimFails`); the variable `doubled` records the VMs to which that
  happened. It stands for nothing in the code, like `clashed`.
- The 30 attempts that `waitFor` allows are not reached with fewer licenses.
- A failure that is not named here ends the request (`Crash`): listing stock or
  usage in the beginning, and the listing after a hand-over, whose later tries then
  fail on the record they changed themselves.

### ApiCache

`scaleSet` is one scaling group itself, `listing`, `described` and `nics` are the
cached answers about it, `h` the invocations. `requestWithCaching` is three steps:
the cache is read (`ReadList`, `ReadDescription`, `ReadNics`), the API answers
(`ListApi`, `DescriptionApi`, `NicsApi`), the answer is saved over whatever is
cached by then (`SaveList`, ...); other invocations act in between. `AfterList` is
what the callers do with a list: `describeInstance` asks the API once more for a
VM that is not on it, `deleteVmFromScalingGroup` deletes a VM that is. Then
`deleteInstanceFromVmss` drops three cached answers side by side (`DropRead`,
`Drop`), waits for them (`DropsDone`), and deletes the VM (`DeleteVm`).

Abstractions:

- Of a list the model keeps which VMs are on it; of a description and of network
  interfaces, whether they are cached. Instance ids are those of VMs; that lookups
  store a description under the VM's id and deletions look for it under the
  instance's id is `Cached`.
- A list is what the API says in one answer. The code lists without paging, so a scale set
  of more VMs than fit in one page, whose first page is all it sees, is not modelled.
- Time is left out: an answer in the cache is used however old it is. That it has
  expired is worked out and reported, and changes nothing (see section 4).
- A VM that is being deleted is still listed and described (`leaving`), for as long
  as it pleases Azure. Instance ids are not used again.
- A deletion whose cached answer another invocation has deleted meanwhile is an
  error, of which `deleteVmFromScalingGroup` makes nothing; the other two deletions
  are awaited all the same, which differs from `Promise.all` only in when the error
  is seen. Errors of the API and of the host are `ApiFails` and `Crash`.
- The options `ReadApiOnly` and `ReadCacheOnly` are not modelled: nothing uses them.

`LivingVmIsFound` is what `getTargetVm` needs so as not to refuse the request of a
FortiGate that is there. `GoneVmIsNotDescribed` is what makes up for the
description that a deletion leaves behind: the list is looked at first, so that
once the group, the cached list and all lists still to be saved have lost a VM its
old description is out of reach. Until then it is not: a VM that leaves by itself
stays on the cached list until someone looks up a VM that is not on it.

### ElectionScore

One election, from the list of candidates' records (`record`) to `winner`. The code
makes several passes over lists and maps, each keeping the largest so far and a flag
or count for ties; the passes are `VisitGroup` (`major`), `VisitSyncTime`
(`syncTimes`), `VisitLatest` (`latest`), `VisitScore` (`best`) and `VisitSendTime`
(`oldest`), and `todo` is what the running one has not visited. `Weigh` adds up the
six weights, which bear the names of the code's methods (the misspelt
`lateslGroupChecksumWeight` too).

- The records are those of a query, whose order the service chooses, and maps are
  visited in the order of insertion, so `todo` is a set. The code runs the passes
  for the checksum groups and sync times again for each candidate; the model runs
  them once, since their result does not depend on the candidate. That their result
  does not depend on the order either is what `OrderDoesNotMatter` says.
- Times and checksums are compared only. VMs are numbers in the alphabetical order
  of their ids. A device that reports no send time counts as the oldest: the `Date` of
  null is 0 (`Weighable` of `ReportedElection`).
- `Worth`, `Beats` and `FirstOfEquals` say what is to be found in terms of the
  records alone, without passes, flags or order: the reference for the algorithm.

### ReportedElection

What an election starts from, and so the initial states of the instance of
`ElectionScore`: `document` is the table of health check records, `last` the body of
the heartbeat each was saved for. A body (`Body`) may lack properties (`Undefined`) or
have null ones. `DeviceSyncInfo` is `getReqDeviceSyncInfo`, with the idioms of its
lines as operators (`NumberOrNaN`, `TextOrNull`, `TrueOrNull`, `ChecksumText`);
`NewRecord` is the record the strategy makes, `Item` the database item, in which flags
are text, `Stored` the document as JSON has it, `Snapshot` what `convertRecord` makes
of it, `Parsed` what `parseHealthCheckRecord` does.

There are two ways back. `getHealthCheckRecord` reads a document by its key, and
`getItemFromDb` converts it (`ReadRecord`): the strategy and `handleUnhealthyVm` see
such records. `listHealthCheckRecord` parses documents as `listItemFromDb` gives them, not
converted (`ListedRecord`): `handleStaleVm` and the election see those. A number that is
null in the document is 0 on the first way and null on the second. A deletion compares
with a snapshot that has been converted in either case (`ReadMatches`,
`ListedMatches`).

`Begin` is `handleStaleVm` and the listing of the candidates (`Eligible`), after which
`ElectionScore` goes on. It deletes the records of any VMs (`stale`), all of which have
to match. If one does not, or its deletion fails, there is no election, though the
others may be gone (`NoElection`). `HandleUnhealthyVm` deletes one record that was read.

- One heartbeat is one step (`FirstHeartbeat`, `NextHeartbeat`); `PrimaryElection` and
  `Heartbeat` have the round trips. What the strategy makes of the counters is any
  member of `Counters`, among them a recovery count that is undefined because its
  setting is missing.
- A record is listed before its next heartbeat is due; whether it is responsive is the
  subject of `PrimaryElection` (`Fit`). The exception is a record without an interval,
  which has no time for the next heartbeat either and is due at once (`Healthy`).
- Numbers in text and numbers are the same here where the code only compares them
  (times); the words `null`, `true`, `false` and `undefined` as text are values of
  their own. Ids, addresses and the time of the next heartbeat go the way of the
  fields that are there and are left out.
- A read and the deletion that rests on it are one step: what may be saved in between is
  the subject of `CosmosStore`.

### Settings

`row` is the table, `loaded` what each invocation has loaded, `save` how far it is
with each row, `pc` where it is in `init`. An invocation that does not find the
flag (`Load`) begins to save all rows (`BeginSaves`), each by `ReadRow` and
`WriteRow` or `RefuseRow` (the etag has changed), and, when all have succeeded
(`AllSaved`), the flag (`FlagSaved`), then it loads again (`Reload`). The saves of one
invocation run side by side, and those that are under way when one fails go on
behind the failed request, as with `Promise.all`.

- A value is `environment` or `edited`; for the flag `n/a`, which is what the function
  app has for it (`templates/link_template.function_app.configuration.json` 324), and
  `true`. `n/a` counts as no value.
- Instead of etags the model keeps whether what was read is still stored
  (enough, given that every version of a row has an etag of its own).
- A query answers from one moment; the settings table is small enough for one page.
- `EditsLast` is about a table with the flag that nobody is on the way to migrate
  (`Migrated`). Until then an edit may be taken back (section 4).
- An invocation handles one request after the other here; in the code each request
  has an invocation of its own, which starts with nothing as well.

### FazAuth

`caller` is where the first heartbeat of each VM and the timer are in
`createAuthorizationRequest`, `handler` the function that each has called, `listed`
the devices it has listed, `device` what the FortiAnalyzer knows. The handler makes
three calls of the FortiAnalyzer: `Login`, `ListDevices`, `AuthorizeDevice`. It
authorizes all devices it lists, whoever asked. `HandlerFails` stands for every
error on the way, of which the caller hears nothing; `CallFails` for a call that does
not get through, or takes longer than its caller waits, while the handler goes on.

- `settings` are any: the integration off, or the name of the handler or the address
  of the FortiAnalyzer missing.
- A VM has one first heartbeat. One whose record was deleted has another, which
  could only add a request.
- The host does not start the timer again while its last run is going on; the bound
  is that the handler of that run has ended as well.
- The FortiAnalyzer answers with all devices it knows, and authorizes what it is
  given; it is external.

## 3. Runs

All runs are finite without state constraints. Every property of a passing run has
a mutated definition next to the original in its module (`SaveErrorNoChecker`,
`HandOverUnchecked`, ...), a slip the code could plausibly have; with it the run
finds the property violated.

Deadlock checking is on where the system cannot come to rest, in `settings_any` and
`faz_any`. It is off elsewhere: invocations end, bounds are used up, a group
without VMs may rest, and an election is over when it has its result.

| run | checks | instance | distinct states |
| --- | --- | --- | --- |
| `store_any` | `TypeOK`, `CheckedOverwrite`, `GuardedSavesAreAtomic` (refinement of `AtomicTable`) | 2 invocations, 2 keys, 2 items, calls that fail or go unanswered, no new call after 4 versions | 295 thousand |
| `election_groups` | `TypeOK`, `OnlyPreferred`, `RecordTracksDevice`, `LaunchedAsSecondary` | 2 VMs that boot, one eligible and without sync info, one that is not, any verdict, termination off, 2 faults | 932 thousand |
| `election_liveness` | `RecordTracksDevice`, `UndoubtedPrimaryStays`, `Converges` under `FairSpec` | 2 VMs that boot, both eligible, termination on, ranked scores, 1 fault | 236 thousand |
| `election_done` | `DoneRecordsStay`: violated | 2 VMs, no faults | - |
| `heartbeat_any` | `TypeOK`, `CountersAgree`, `LossesAreReal`, `TerminationIsUnderWay`, `NoFallBack`, `ReadersAgree`, `HeartbeatsAreJudgements` (refinement of `SyncRecord`) | 2 invocations, heartbeats for 6 intervals, 2 losses allowed, 2 recoveries, 1 fault, termination on and off, devices with and without sync info, symmetry | 6.7 million |
| `heartbeat_overtaken` | `OvertakenIsDiscarded`: violated | same, devices with sequence numbers, 1 recovery, no faults | - |
| `licensing_faults` | `TypeOK`, `HolderOwns`, `LocksOne`, `RequestsRunOut`, `LicensesAreLeased` (refinement of `LicenseLease`) | 2 VMs, 2 licenses, 2 requests, 1 fault, symmetry | 5.1 million |
| `cache_any` | `TypeOK`, `GoneVmIsNotDescribed`, `LivingVmIsFound` | 2 VMs, 2 invocations, symmetry | 1.7 million |
| `score_any` | `ReportedTypeOK`, `OrderDoesNotMatter`, `NewcomerIsLastResort`, `ReportsSurvive`, `WhichRecordsMatch`, `ReportedPrimaryIsElected` | up to 4 VMs and 4 heartbeats, bodies with and without each property (checksum, sync time, role, send time, sequence, interval), counters in sync, late and out of sync, recovery count stored or not, 2 losses allowed | 846 thousand |
| `settings_any` | `TypeOK`, `FlagMeansAll`, `NobodyActsOnPart`, `EditsLast`, `Settles` under `FairSpec` | 2 invocations, 2 settings and the flag, one required, one that operators edit, 2 faults | 136 thousand |
| `faz_any` | `TypeOK`, `EveryDeviceIsAuthorized`, `HeartbeatsEnd` under `FairSpec` | 2 VMs and the timer, any settings, 2 faults | 45 thousand |
| `licensing_insert` | `NoSharedLicense`: violated | 3 VMs, 2 licenses, no faults | - |

Why the bounds are enough for the cases of interest: every race in this code is
between two invocations, one of which acts between two round trips of the other;
two clients, two VMs with a heartbeat each, or two requests reach all of them.
Four versions let a document be saved, deleted and saved again behind a reader's
back. Two licenses let a license be handed over while another is claimed, and let
both run out; `HolderOwns` was checked with three VMs and without faults as well
(2.4 million states). Three VMs let a tie come before and after the score that
decides, four let two groups be of the same size; four heartbeats are one of each, or
fewer VMs with records that replace others. Six intervals let a device miss two heartbeats
in a row and recover while an earlier heartbeat is still being handled. A fault (a
stopped invocation, a lost answer, a failed call, a late heartbeat, a VM that
disappears or gets a new disk) is rare compared to a round trip; `MaxFaults` bounds how many hit one behaviour. In `licensing_faults` the
files may go and come back as well. The theorems below hold without these bounds.

### Fairness

`PrimaryElection`: `FairSpec` assumes of each VM that its
invocation goes on (`WF` of `Run`: the host runs a function to its end unless it
crashes, and crashes are bounded faults), that a running FortiGate goes on sending
heartbeats that are on time, after it has asked for its configuration (`WF` of
`Boot` and `Receive`: a FortiGate sends them on its own
clock whatever the answer is), and that the record of a VM that has gone becomes
overdue in the end (`WF` of `FallSilent`: time passes). Nothing is assumed of
faults, of VMs that join, or of which invocation is faster.

`Converges` says: if from some time on heartbeats are handled one after another
and some VM can be primary, then all in-sync VMs come to agree, for ever, on a
primary that is recorded and alive. The premise on overlap is needed. Without it
TLC finds two heartbeats that delete each other's primary record again and again:
each judges the record it reads (line 334) by the VM it read before (line 313),
finds that VM unfit and deletes a record that is fine. With `MaxFaults = 2` the
property was checked as well (3.6 million states).

VMs in `lost` are excepted from what concerns the device: when an invocation is
stopped after the new address was recorded and before it is answered, nothing in
the code tells the device again.

`Settings`: `FairSpec` assumes of each invocation that it goes on, and that another
request comes after it (`WF` of `Step`: devices send heartbeats on their own clocks).
Nothing is assumed of saves of the same invocation among each other. The premise of
`Settles` is needed: TLC finds two invocations that save the same rows so that each
refuses one to the other, both requests fail, and the same happens with the next two.

`FazAuth`: the timer keeps firing, since the host fires it every 12 minutes
(`faz-auth-scheduler/function.json`); handlers go on and answer. Nothing is assumed of
heartbeats, or of devices that connect.

## 4. What the violated properties say

Each of these states what a comment in the code says, and TLC shows a behaviour
in which the code does otherwise. They are listed in `PROJECT.json` with both
places.

- `DoneRecordsStay`: a primary record is saved only while the vote is pending
  (adapter 1101-1103). The checker of the save repeats only id and group.
- `NoSharedLicense`: a license is locked "in order to prevent it from being picked
  at the same time" (licensing 275). It rests on `InsertOnly`, "strictly insert only
  if not exists" (`core/db-definitions.ts` 42): the condition is tested on the read,
  and the upsert that follows a read which found nothing is unconditional. `HolderOwns` is the
  part that does hold: apart from such clashes, which `clashed` records, nobody
  takes the license of a living VM.
- `OvertakenIsDiscarded`: "another hb has updated the record while this hb is still
  processing. The current hb will be discarded" (strategy 694-703). Only a lower
  sequence number with an earlier send time is refused (adapter 937), and the etag
  condition is on the read that the save makes itself, not on the record the
  heartbeat was judged by. So counters that follow from an old record may replace
  newer ones. `NoFallBack` is the part that does hold: the heartbeat recorded is
  never an older one.

More divergences are known that have no run of their own:

- "ASSERT: the following values are up-to-date before handling primary election"
  (core 341): the primary VM (313) and the primary record (334) are read in separate
  round trips, and an election by another invocation in between makes `Judge` of
  `PrimaryElection` judge the new record by the old primary. This is what the premise
  of `Converges` is about.
- "ASSERT: there's only 1 matching primary record" (adapter 762): a classic election
  stores its record under `group:vm` (strategy 149), a weighted one under the group's
  name. With a VM of each kind in the preferred group (`Classic = {b}` in the
  instance of `election_liveness`) TLC finds that `Converges` fails: both records stay,
  the query gives either, and each VM may stay told of itself. The run has VMs of one
  kind, which is what one version of FortiOS gives.
- "this request may probably be a duplicate request. ignore it" (`fortigate-autoscale.ts`
  147-148): the request is answered with the configuration of a secondary that has no
  primary. A VM that has really lost its configuration is not told by its heartbeats
  either, as its record says that it knows (`Boot` after `Reimage`).
- "if the prop doesn't exist in item set it to 0 by default" (adapter 712): so the
  record that was read has a recovery count that the document has not. Converted
  again for a deletion, it is compared with `NaN`, which is what `convertRecord` makes
  of the missing number, and never matches: the record of a VM that has gone stays,
  `handleStaleVm` fails, and with it every election (`WhichRecordsMatch`). A document is
  without one if the setting `SyncRecoveryCount` was missing when a VM went out of sync.
- "delete those stale healthcheck records" (core 775): a heartbeat without an interval
  leaves a document whose interval and next heartbeat time are null (`NaN` in the
  record, strategy 757, 773-775). Read by its key and converted, the null is 0, and so it is
  in the snapshot, and the two match. But `handleStaleVm` gets its records from a listing
  (adapter 735-747, adaptee 259-293), which does not convert: null is compared with 0,
  the deletion ends with `InconsistentData`, and the election is given up (core 721),
  every time, as the record stays. `WhichRecordsMatch` says that this happens exactly if
  the last heartbeat told no interval.
- "only VM in in-sync state can be an eligible primary role" (core 249): elections look
  at `healthy` (strategy 375), which compares the losses with the setting of the
  moment. After `HeartbeatLossCount` has been raised, a VM that is out of sync is
  healthy. `ReadersAgree` holds for as long as the setting is not changed.
- "has non-null checksum" (strategy 626) again: what a device does not report is stored
  as the text `undefined` (adapter 254), so devices without checksum are a checksum
  group of their own, with the points of one (`ChecksumText` of `ReportedElection`).
- "required attribute [...] not found" (`core/db-definitions.ts` 156): `validateInput`
  never says so, since it tests `!keys.includes`, which is a function. The model has
  no such error.
- "set a loop to pick the next available license" (licensing 330-333): the loop takes
  the first of a list that is read again only after a success (228), so all attempts
  are for one license (`Retry` of `Licensing`), and a request gives up although
  another license of its list is free.
- A deletion with `ensureDataConsistency` matches the document it read ("the given
  item matches the item in the db. It can be now deleted", adaptee 503) and then
  deletes without a condition what is stored by then: `Delete` of `CosmosStore`,
  `DropWrite` of `Heartbeat`.
- "cache time to live in seconds" (adaptee 826): whether an answer has expired is
  worked out (552) and reported (634), but with the option all callers use the API
  is asked only when nothing is cached (651): `ReadList` of `ApiCache`.
- "each group must have more than 1 group member" (strategy 577, the 16 points): not
  tested, so a lone VM with the latest sync time gets them, and "has non-null
  checksum" (626, the oldest send time): not tested either (`lateslGroupChecksumWeight`
  and `FairApplies` of `ElectionScore`).
- The settings are migrated by whoever has read a table without the flag, without
  looking at it again: what an operator changes after one migration has finished is
  put back by another that is still on its way, and the flag goes back to `n/a` until
  that one has ended (`BeginSaves` and `Edit` of `Settings`). `EditsLast`
  is what does hold: once the flag is there and nobody is on the way, edits last.
- "This process is run asynchronously" (FortiAnalyzer strategy 42, 75): the first
  heartbeat waits for the handler's answer, up to 230 seconds (adaptee 958), and if
  none comes it is not answered itself (`CallFails` of `FazAuth`).

## 5. Proofs

The theorems hold for every value of the constants that satisfies the named
assumptions: any sets of clients, keys, items, VMs, licenses and invocations (the
last three finite where a fresh version name or a cardinality is needed), any
checker, any scores, any number of faults.

`CosmosStore_proofs`

- `TypeCorrect`.
- `CheckedOverwriteCorrect` needs that two documents of one key with the same etag are the
  same (`EtagsIdentifyVersions`, a fact about the assumed service that is used in the
  proofs only: no etag is above `lastEtag`, so that of a new version is fresh). It needs one fact more, that an invocation about to
  upsert passed its checker on what it read; with an equal etag, what is stored is
  what was read.
- `GuardedSavesAreAtomicCorrect`: `CosmosStore` implements `AtomicTable` on the
  guarded keys, where `items` is the content of the documents: a write of a guarded
  save maps to `Replace`, all else to stuttering.

`PrimaryElection_proofs`

- `TypeCorrect`, with the inductive `Shape`, which adds what a local variable can
  be at each step of a handler. That a fresh version name exists uses
  `EtagAssumption`: no more than three names are referred to per VM (by the record and the
  snapshot of its handler, and by its own classic record), and one by the group's
  record.
- `OnlyPreferredCorrect`, with `AllOurs`: the eligible group is closed under every
  path from a table to an invocation and back.
- `LaunchedAsSecondaryCorrect`, with `Unseen`: a VM that waits for its first
  configuration has no heartbeat under way and no record, and is neither in a table nor
  in the hands of an invocation as a primary, since only VMs with records are
  candidates. VMs in `lost` are excepted throughout.
- `RecordTracksDeviceCorrect`, with `Tracks`: while an invocation of a VM is on its
  way from `SaveTold` to `Reply`, the record may be ahead of the device, and by
  exactly the address the invocation carries; before that, the record it read is
  the one it will write back.
- `UndoubtedPrimaryStaysCorrect`, on top of `Shape`. `Undoubted(w)` is itself what is
  kept, and each of its parts needs the others: as long as the records and sync states
  in the tables speak for `w`, an invocation that reads them finds `w` and finds it fit
  (`FindsUndoubted`), so it goes on trusting `w` (`TrustAlone`, `TrustStep`) and never
  gets to an election, where it could save another record; what it tells its device is
  `w` or nothing (`TellsUndoubted`, `UndoubtedIsTold`). That no fault hits `w` is needed
  for the steps of the environment and for the heartbeat of `w` itself.

`Heartbeat_proofs`

- `CountersAgreeCorrect`, `LossesAreRealCorrect`: both are statements about a record
  that are extended to all records that circulate, the stored one and those in the
  hands of invocations. `Origin` says that a circulating record was so before, or is
  a first record, or was made from a circulating record by judging a heartbeat; so it
  is enough to prove the statement for these two. `LossesAreReal` needs besides that
  send times grow with sequence numbers (`TimesInductive`) and that every record of
  an informed device bears the number and time of a heartbeat that was sent
  (`SentInductive`).
- `NoFallBackCorrect`, with `Checked`: an invocation whose etag is current has
  passed the checker against what is stored.
- `TerminationIsUnderWayCorrect`, with `UnderWay`: as long as no invocation is about
  to delete the VM, no record out of sync is stored, and none is on its way to be
  saved except by an invocation that will delete the VM next.

- `ReadersAgreeCorrect` follows from `CountersAgree`: in sync means fewer losses than
  allowed, and one more loss is what both sides compare with the limit.
- `HeartbeatsAreJudgementsCorrect`: each step is one of `SyncRecord`, or does not show
  there. Two invariants are needed: what an invocation will do after a save goes with
  the state that it saves (`AllConsistent`), and a stored record has the number and time
  of a heartbeat that was sent (`AllSent`), so that a heartbeat judged late by it was
  sent late unless the device started over (`PunctualIsNotLate`). `CountedVerdict` says
  that what the counters make of a record is one of the states of `NextState`. A device
  that was late stays so, and so does one that was not if it sends on time
  (`PunctualWas`, `PunctualStays`).

`Licensing_proofs`

- `TypeCorrect`, with `Shape`: types of each handler, that the licenses it works on
  have records, and that what it recorded in its snapshot is one of them.
- `HolderOwnsCorrect`, with `Owned`: a record out of sync belongs to a VM that has
  gone (`GoneIfOut`), so does the record an invocation has picked, and an
  invocation that was given a license owns its record. The last step needs that an
  etag identifies a record, as in `CosmosStore`.
- `LocksOneCorrect`, with `Single`: a VM that is not in `doubled` has one request at most
  (`Alone`), which has seen every license of its VM on the way to its choice, and none
  once it is about to lock one (`KnowsOwn`). Others may take a license from the VM
  meanwhile, in a clash, but never register one to it (`SingleStep`).
- `LicensesAreLeasedCorrect`: from `Owned` again (`OwnedInductive`). Every write of a usage
  record is a lease, or contests one (`WriteLeases`): a claim finds no record or clashes,
  a status sync leaves the owner as it is, and a hand-over finds a
  record out of sync, whose VM has gone by `GoneIfOut`. An invocation that loads a license
  gives it to its owner (`LeaseStep`).
- `RequestsRunOutCorrect`: every step of a request lowers the variant `StepsLeft`.

`ApiCache_proofs`

- `TypeCorrect`, `GoneVmIsNotDescribedCorrect` and `LivingVmIsFoundCorrect`, all from
  the inductive `Inv`. `SeesTheLiving`: while a lookup of a VM that was there is under
  way, a list from the API lacks the VM only if it has gone by now. It holds because
  the life of a VM has one direction (`LifeGoesOn`). `StopsAtTheList`: a lookup of a VM
  that was forgotten is at a step before the description. It holds because what is
  forgotten stays so (`UnknownKept`): lists are saved only from what the API said, and
  the API does not list a VM again.

`ElectionScore_proofs`

- `OrderDoesNotMatterCorrect`, from the inductive `Inv`, which has one part per pass:
  what the pass has found among the elements it has visited (`major`, `latest`, `best`
  and `oldest` are the largest so far, with the tie flag up exactly when another one
  equals it). With nothing left to visit, these say that a flagless maximum is the
  group, checksum or VM that the records make the largest (`MajorIsMajorGroup`,
  `LatestIsLatestGroup`, `BestIsBest`), so that `Points` and `Worth` agree.
- `SolePrimaryIsElected` (a lemma) and `NewcomerIsLastResortCorrect` are then statements
  about `Worth`: 64 is more than 1 + 2 + 4 + 8 + 16; and a newcomer has no
  more points than any other VM of its checksum group, so it cannot beat them, and one
  that is alone in its group has at most one point, with which it cannot beat a VM
  that has synced.
- The theorems are about `ReportedSpec`. The inductive `RInv` has three parts: what the
  table holds (`TableInv`: each document is what was stored for the last body, with some
  counters); while heartbeats come, that the variables of the election are as they were
  initially (`Idle`); after that, `Inv`, and that the records listed are those of the
  table (`Listed`). `BeginInv` is where one becomes the other: what is read of a
  document is a record of `ElectionScore`.
- `ReportsSurviveCorrect` and `WhichRecordsMatchCorrect` follow from `TableInv`: the lemmas
  `StoredFields`, `SnapshotFields` and `RecordFields` say of each field what it is on each
  stage of the two ways back, for each of the forms in which a value can be missing, and
  `MatchMeans` what is left of the full match, field by field.
- `ReportedPrimaryIsElectedCorrect` joins the two: a VM that alone said that it is the
  primary is the only one whose listed record says so.

`Settings_proofs`

- `TypeCorrect`, `FlagMeansAllCorrect` and `NobodyActsOnPartCorrect`, from an inductive
  invariant, whose part `Knows` says what an invocation may rely on: a row that it has
  saved is there, since rows never go away; when it saves the flag, or is past that,
  all rows are; and while it saves nothing is cached that `Reload` could return.
- `EditsLastCorrect`: from a migrated table that nobody migrates, only `Load` could begin
  a migration, and it sees the flag; the other steps that write are disabled.

`FazAuth_proofs`

- `TypeCorrect`, with `Unasked`: a caller that has not called has no handler, so that
  a handler that ends or lists finds the caller it works for.

Out of the prover's reach are liveness and what rests on `ENABLED`. Only model-checked
are therefore `Converges`, `Settles`, `EveryDeviceIsAuthorized` and `HeartbeatsEnd`, as
well as the violated properties and the behaviour of the instances as a whole. Every
invariant, every action property and every refinement of a passing run is a theorem.

## 6. What is done and what is not

Done: `CosmosStore`, `Heartbeat` and `Licensing`, each with the abstract specification it
implements, `PrimaryElection` with bootstrap, `ApiCache`, `ElectionScore` with `ReportedElection`, `Settings`, `FazAuth`,
each with its theorems.

Could be added:

1. The recovery of a VM as a liveness property of `Heartbeat`.
2. `ApiCache` composed with the status sync of `Licensing`, with VMs that stop and start
   again under one id: the in-sync state of a license holder comes from a description
   that may be old (licensing 207).
3. The stock of licenses that comes back after a failed listing, in `Licensing`.
4. The windows of the classic election (strategy 206), which `PrimaryElection` leaves
   open.

Not modelled: text of configurations and notifications, placeholders in config sets,
HTTP translation, templates and scripts. They keep no state that invocations share, and
what they do is wording or I/O. On Azure the scaling group, tagging, routing, VPN and
NIC strategies do nothing.
