----------------------------- MODULE Licensing -----------------------------
(***************************************************************************)
(* ReusableLicensingStrategy: invocations hand out license files to        *)
(* FortiGates that ask for one, and take back those of FortiGates that are *)
(* gone.                                                                   *)
(*                                                                         *)
(* Invocations meet in three places: the license files in blob storage,    *)
(* the stock table (a copy of the file list) and the usage table (which VM *)
(* uses which license).  A usage record is never deleted.  A VM is in-sync *)
(* when its description says that it is running.  Here it always says so   *)
(* while the VM is there, and may say so for a while when it has gone.     *)
(***************************************************************************)
EXTENDS CosmosTable, FiniteSets

CONSTANTS
    Invocation,     \* concurrent invocations of the license handler
    VM, License,
    None,           \* no VM, no license
    Etag,           \* version names, reused once nobody holds them
    MaxFaults       \* bound: environment faults in one behaviour

ASSUME LicensingAssumption ==
    /\ None \notin VM \cup License
    /\ IsFiniteSet(License) /\ IsFiniteSet(Invocation)
    /\ IsFiniteSet(Etag) =>
          Cardinality(Etag) > Cardinality(License) + Cardinality(Invocation)
    /\ MaxFaults \in Nat

UsageRecord == [vm : VM, inSync : BOOLEAN, etag : Etag]

\* A usage record as listLicenseUsage returns it.
Listed == [vm : VM, inSync : BOOLEAN]

ASSUME AbsentAssumption == Absent \notin UsageRecord /\ Absent \notin Listed

VARIABLES
    up,         \* VMs that exist; one that never asked is as good as not there yet
    files,      \* license files in storage
    stock,      \* licenses in the stock table
    usage,      \* the usage table: license -> record
    holds,      \* the license each VM has been given
    clashed,    \* licenses whose usage record an unguarded insert wrote over
    doubled,    \* VMs that had two requests at a time, or a save that went
                \* through although it was reported to have failed
    h,          \* the invocations
    faults

vars == <<up, files, stock, usage, holds, clashed, doubled, h, faults>>
tables == <<stock, usage, clashed>>
world == <<up, files, holds, doubled, faults>>

Steps == {"idle", "list", "stockRead", "stockWrite", "choose", "claim", "claimWrite",
          "reuse", "sync", "handOver", "handOverWrite", "load"}

NothingKnown == [l \in License |-> Absent]

IdleHandler ==
    [pc |-> "idle", vm |-> None, files |-> {}, stock |-> {}, known |-> NothingKnown,
     unused |-> {}, lic |-> None, snap |-> Absent, tries |-> 0]

Handler ==
    [pc : Steps, vm : VM \cup {None}, files : SUBSET License, stock : SUBSET License,
     known : [License -> Listed \cup {Absent}], unused : SUBSET License,
     lic : License \cup {None}, snap : UsageRecord \cup {Absent}, tries : Nat]

At(i, step) == h[i].pc = step

Becomes(i, r) == h' = [h EXCEPT ![i] = r]

InUse == {usage[l].etag : l \in {k \in License : usage[k] # Absent}}
         \cup {h[i].snap.etag : i \in {j \in Invocation : h[j].snap # Absent}}

FreshEtag == CHOOSE e \in Etag : e \notin InUse

\* listLicenseUsage.
UsageList ==
    [l \in License |-> IF usage[l] = Absent THEN Absent
                       ELSE [vm |-> usage[l].vm, inSync |-> usage[l].inSync]]

\* The licenses that records known to an invocation give to VMs out of sync.
Reusable(known) == {l \in License : known[l] # Absent /\ ~known[l].inSync}

Fault == faults < MaxFaults /\ faults' = faults + 1

-----------------------------------------------------------------------------
Init ==
    /\ up = VM
    /\ files = License
    /\ stock = {}
    /\ usage = [l \in License |-> Absent]
    /\ holds = [v \in VM |-> None]
    /\ clashed = {} /\ doubled = {}
    /\ h = [i \in Invocation |-> IdleHandler]
    /\ faults = 0

\* A VM asks, for the first time or again.
Receive(i, v) ==
    /\ v \in up /\ At(i, "idle")
    /\ Becomes(i, [IdleHandler EXCEPT !.pc = "list", !.vm = v])
    /\ doubled' = IF \E j \in Invocation : h[j].vm = v THEN doubled \cup {v} ELSE doubled
    /\ UNCHANGED <<tables, up, files, holds, faults>>

\* The first listings.  The stock listed with them is not used.
List(i) ==
    /\ At(i, "list")
    /\ Becomes(i, [h[i] EXCEPT !.pc = "stockRead", !.files = files, !.known = UsageList])
    /\ UNCHANGED <<tables, world>>

\* A failure to list the files is taken for an empty directory.
ListFilesFails(i) ==
    /\ At(i, "list")
    /\ Fault
    /\ Becomes(i, [h[i] EXCEPT !.pc = "stockRead", !.known = UsageList])
    /\ UNCHANGED <<tables, up, files, holds, doubled>>

-----------------------------------------------------------------------------
(* updateLicenseStock: all saves and deletions of one call in one step.    *)

StockRead(i) ==
    /\ At(i, "stockRead")
    /\ Becomes(i, [h[i] EXCEPT !.pc = "stockWrite", !.stock = stock])
    /\ UNCHANGED <<tables, world>>

\* Known items are saved with UpdateOnly, so they must still be there.
StockWrite(i) ==
    /\ At(i, "stockWrite")
    /\ h[i].files \cap h[i].stock \subseteq stock
    /\ stock' = (stock \cup h[i].files) \ (h[i].stock \ h[i].files)
    /\ Becomes(i, [h[i] EXCEPT !.pc = "choose"])
    /\ UNCHANGED <<usage, clashed, world>>

\* One that has gone, or one to delete that another invocation has saved or
\* deleted since, fails the call and the request.
StockWriteFails(i) ==
    /\ At(i, "stockWrite")
    /\ \/ ~(h[i].files \cap h[i].stock \subseteq stock)
       \/ h[i].stock \ h[i].files # {}
    /\ \E deleted \in SUBSET (h[i].stock \ h[i].files) :
          stock' = (stock \cup (h[i].files \ h[i].stock)) \ deleted
    /\ Becomes(i, IdleHandler)
    /\ UNCHANGED <<usage, clashed, world>>

-----------------------------------------------------------------------------
(* apply, from the second listing of the stock to the choice of a license. *)

\* The invocation once it has license l.
Found(i, l) == [IdleHandler EXCEPT !.pc = "load", !.vm = h[i].vm, !.lic = l]

\* Mutant: the VM's own record is looked for among those of the stock only.
ChooseFromStock(i) ==
    /\ At(i, "choose")
    /\ LET known == [l \in License |-> IF l \in stock THEN h[i].known[l] ELSE Absent]
           own == {l \in License : known[l] # Absent /\ known[l].vm = h[i].vm}
           unused == {l \in stock : known[l] = Absent}
           seen == [h[i] EXCEPT !.known = known, !.files = {}, !.stock = {}]
       IN IF own # {} THEN \E l \in own : Becomes(i, Found(i, l))
          ELSE Becomes(i, IF h[i].files = {} THEN IdleHandler
                          ELSE IF unused = {} THEN [seen EXCEPT !.pc = "reuse"]
                          ELSE [seen EXCEPT !.pc = "claim", !.unused = unused])
    /\ UNCHANGED <<tables, world>>

Choose(i) ==
    /\ At(i, "choose")
    /\ LET own == {l \in License : h[i].known[l] # Absent /\ h[i].known[l].vm = h[i].vm}
           known == [l \in License |-> IF l \in stock THEN h[i].known[l] ELSE Absent]
           unused == {l \in stock : known[l] = Absent}
           seen == [h[i] EXCEPT !.known = known, !.files = {}, !.stock = {}]
       IN IF own # {} THEN \E l \in own : Becomes(i, Found(i, l))
          ELSE Becomes(i, IF h[i].files = {} THEN IdleHandler
                          ELSE IF unused = {} THEN [seen EXCEPT !.pc = "reuse"]
                          ELSE [seen EXCEPT !.pc = "claim", !.unused = unused])
    /\ UNCHANGED <<tables, world>>

\* useLicense of an unused license: no usage record may exist, when
\* updateLicenseUsage lists them and when saveItemToDb reads.
Claim(i) ==
    /\ At(i, "claim")
    /\ \E l \in h[i].unused :
          LET left == h[i].unused \ {l}
          IN Becomes(i, IF SaveError("InsertOnly", usage[l], "none", TRUE) = "none"
                        THEN [h[i] EXCEPT !.pc = "claimWrite", !.lic = l, !.unused = left]
                        ELSE [h[i] EXCEPT !.pc = IF left = {} THEN "reuse" ELSE "claim",
                                          !.unused = left])
    /\ UNCHANGED <<tables, world>>

\* Nothing was read, so the write carries no condition.
ClaimWrite(i) ==
    /\ At(i, "claimWrite")
    /\ LET l == h[i].lic
       IN /\ UpsertMayWrite(usage[l], Absent, "none")
          /\ usage' = [usage EXCEPT ![l] =
                          [vm |-> h[i].vm, inSync |-> TRUE, etag |-> FreshEtag]]
          /\ clashed' = IF usage[l] = Absent THEN clashed ELSE clashed \cup {l}
    /\ Becomes(i, Found(i, h[i].lic))
    /\ UNCHANGED <<stock, world>>

\* The save or the listing after it fails: the next license is tried.
ClaimFails(i, saved) ==
    /\ At(i, "claimWrite")
    /\ Fault
    /\ LET l == h[i].lic
       IN IF saved
          THEN /\ usage' = [usage EXCEPT ![l] =
                              [vm |-> h[i].vm, inSync |-> TRUE, etag |-> FreshEtag]]
               /\ clashed' = IF usage[l] = Absent THEN clashed ELSE clashed \cup {l}
               /\ doubled' = doubled \cup {h[i].vm}
          ELSE UNCHANGED <<usage, clashed, doubled>>
    /\ Becomes(i, [h[i] EXCEPT !.pc = IF h[i].unused = {} THEN "reuse" ELSE "claim",
                               !.lic = None])
    /\ UNCHANGED <<stock, up, files, holds>>

-----------------------------------------------------------------------------
(* The reuse of a license whose VM is out of sync.                         *)

\* The first record out of sync is picked, and tried as many times as there
\* are such records: nothing refreshes the list after a failure.
Pick(i, known) ==
    \E l \in Reusable(known) :
        Becomes(i, [h[i] EXCEPT !.pc = "handOver", !.known = known, !.lic = l,
                                !.tries = Cardinality(Reusable(known))])

Reuse(i) ==
    /\ At(i, "reuse")
    /\ LET known == h[i].known
       IN \/ Pick(i, known)
          \/ /\ Reusable(known) = {}
             /\ Becomes(i, [h[i] EXCEPT !.pc = "sync",
                              !.unused = {l \in License : known[l] # Absent}])
    /\ UNCHANGED <<tables, world>>

\* syncVmStatusToUsageRecords saves a known record with the state of its VM, if
\* the owner is the same.  The state was read before, so a VM that has gone may
\* still be described as running.  A save that fails (as when it loses against
\* another one) is ignored.
SyncStatus(i) ==
    /\ At(i, "sync")
    /\ \E l \in h[i].unused :
          /\ \/ \E running \in BOOLEAN :
                   /\ usage[l].vm = h[i].known[l].vm
                   /\ usage[l].vm \in up => running
                   /\ usage' = [usage EXCEPT ![l] =
                                   [vm |-> usage[l].vm, inSync |-> running,
                                    etag |-> FreshEtag]]
             \/ UNCHANGED usage
          /\ Becomes(i, [h[i] EXCEPT !.unused = @ \ {l}])
    /\ UNCHANGED <<stock, clashed, world>>

\* The new list holds every record again, those of deleted files as well.
Relist(i) ==
    /\ At(i, "sync") /\ h[i].unused = {}
    /\ \/ Pick(i, UsageList)
       \/ Reusable(UsageList) = {} /\ Becomes(i, IdleHandler)
    /\ UNCHANGED <<tables, world>>

\* Mutants: the reference is not compared; failures are not counted, or the
\* count is looked at too late.
HandOverUnchecked(i) ==
    /\ At(i, "handOver")
    /\ Becomes(i, [h[i] EXCEPT !.pc = "handOverWrite", !.snap = usage[h[i].lic]])
    /\ UNCHANGED <<tables, world>>

RetryUncounted(i) == [h[i] EXCEPT !.pc = "handOver", !.snap = Absent]

RetryOffByOne(i) ==
    IF h[i].tries < 0 THEN IdleHandler
    ELSE [h[i] EXCEPT !.pc = "handOver", !.snap = Absent, !.tries = @ - 1]

\* The invocation after a failure: another try, or no license.
Retry(i) ==
    IF h[i].tries <= 1 THEN IdleHandler
    ELSE [h[i] EXCEPT !.pc = "handOver", !.snap = Absent, !.tries = @ - 1]

\* useLicense of a used license: updateLicenseUsage lets saveItemToDb check that
\* the record still names the VM it was picked for.
HandOver(i) ==
    /\ At(i, "handOver")
    /\ LET l == h[i].lic
           passes == usage[l].vm = h[i].known[l].vm
       IN Becomes(i, IF SaveError("UpdateOnly", usage[l], "checker", passes) = "none"
                     THEN [h[i] EXCEPT !.pc = "handOverWrite", !.snap = usage[l]]
                     ELSE Retry(i))
    /\ UNCHANGED <<tables, world>>

HandOverWrite(i) ==
    /\ At(i, "handOverWrite")
    /\ LET l == h[i].lic
       IN /\ UpsertMayWrite(usage[l], h[i].snap, "checker")
          /\ usage' = [usage EXCEPT ![l] =
                          [vm |-> h[i].vm, inSync |-> TRUE, etag |-> FreshEtag]]
    /\ Becomes(i, Found(i, h[i].lic))
    /\ UNCHANGED <<stock, clashed, world>>

HandOverWriteFails(i) ==
    /\ At(i, "handOverWrite")
    /\ UpsertMayFail(usage[h[i].lic], h[i].snap, "checker")
    /\ Becomes(i, Retry(i))
    /\ UNCHANGED <<tables, world>>

\* The content of the file is the answer; there is none if the file has gone.
Load(i) ==
    /\ At(i, "load")
    /\ LET v == h[i].vm
       IN holds' = IF h[i].lic \in files /\ v \in up THEN [holds EXCEPT ![v] = h[i].lic]
                   ELSE holds
    /\ Becomes(i, IdleHandler)
    /\ UNCHANGED <<tables, up, files, doubled, faults>>

-----------------------------------------------------------------------------
(* The environment.                                                        *)

\* The host stops an invocation, or one of its calls fails in a way not above
\* (when it is the listing after a hand-over, the license stays with the VM).
Crash(i) ==
    /\ ~At(i, "idle")
    /\ Fault
    /\ Becomes(i, IdleHandler)
    /\ UNCHANGED <<tables, up, files, holds, doubled>>

Leave(v) ==
    /\ v \in up
    /\ up' = up \ {v}
    /\ holds' = [holds EXCEPT ![v] = None]
    /\ UNCHANGED <<tables, files, doubled, h, faults>>

RemoveFile(l) ==
    /\ l \in files
    /\ Fault
    /\ files' = files \ {l}
    /\ UNCHANGED <<tables, up, holds, doubled, h>>

AddFile(l) ==
    /\ l \notin files
    /\ files' = files \cup {l}
    /\ UNCHANGED <<tables, up, holds, doubled, h, faults>>

\* What an invocation does by itself.
Run(i) ==
    \/ List(i) \/ StockRead(i) \/ StockWrite(i) \/ StockWriteFails(i) \/ Choose(i)
    \/ Claim(i) \/ ClaimWrite(i) \/ Reuse(i) \/ SyncStatus(i) \/ Relist(i)
    \/ HandOver(i) \/ HandOverWrite(i) \/ HandOverWriteFails(i) \/ Load(i)

Next ==
    \/ \E i \in Invocation :
          \/ \E v \in VM : Receive(i, v)
          \/ Run(i)
          \/ ListFilesFails(i)
          \/ \E saved \in BOOLEAN : ClaimFails(i, saved)
          \/ Crash(i)
    \/ \E v \in VM : Leave(v)
    \/ \E l \in License : RemoveFile(l) \/ AddFile(l)

Spec == Init /\ [][Next]_vars

-----------------------------------------------------------------------------
(* Properties *)

\* Every variable has its type.
TypeOK ==
    /\ up \subseteq VM
    /\ files \subseteq License /\ stock \subseteq License
    /\ usage \in [License -> UsageRecord \cup {Absent}]
    /\ holds \in [VM -> License \cup {None}]
    /\ clashed \subseteq License /\ doubled \subseteq VM
    /\ h \in [Invocation -> Handler]
    /\ faults \in 0..MaxFaults

\* However requests, retries, hand-overs and status syncs overlap, a license
\* that a living FortiGate was given is still registered to it, so nobody takes
\* it for reusable, unless two first uses of that license clashed.
HolderOwns ==
    \A v \in up : holds[v] # None /\ holds[v] \notin clashed =>
        usage[holds[v]] # Absent /\ usage[holds[v]].vm = v

\* A VM locks one license, however often it asks, fails and asks again, and
\* whichever licenses and files come and go meanwhile: only requests of its own
\* that overlap, or a save that went through unnoticed, lock a second one, which
\* nobody uses and nobody gets as long as the VM is there.
LocksOne ==
    \A v \in VM \ doubled : \A k, l \in License :
        usage[k] # Absent /\ usage[l] # Absent /\ usage[k].vm = v /\ usage[l].vm = v => k = l

\* Implementation: usage records are leases.  From the moment a license is
\* registered to a VM, nobody takes the license as long as the VM is there, and
\* the VM is given no other one, whatever lists of records out of sync other
\* invocations still work through; only first uses may clash.
Owner == [l \in License |-> IF usage[l] = Absent THEN None ELSE usage[l].vm]

Leases == INSTANCE LicenseLease WITH
    present <- up, owner <- Owner, given <- holds, contested <- clashed

LicensesAreLeased == Leases!Spec

\* A bound on the steps an invocation can still make: what its stage leaves
\* open, and two for each license or attempt that is left.
StageSteps ==
    LET n == Cardinality(License)
    IN [idle |-> 0, load |-> 1, handOverWrite |-> 0, handOver |-> 1, sync |-> 2 * n + 2,
        reuse |-> 4 * n + 3, claim |-> 4 * n + 3, claimWrite |-> 4 * n + 4,
        choose |-> 6 * n + 4, stockWrite |-> 6 * n + 5, stockRead |-> 6 * n + 6,
        list |-> 6 * n + 7]

StepsLeft(r) == StageSteps[r.pc] + 2 * Cardinality(r.unused) + 2 * r.tries

\* No request is retried for ever, whoever keeps winning the licenses: each step
\* brings an invocation nearer to its end, which it reaches in a number of steps
\* that is linear in the number of licenses (the host allows 230 seconds, and
\* every retry waits for five).
RequestsRunOut ==
    [][\A i \in Invocation :
          ~At(i, "idle") /\ h'[i] # h[i] => StepsLeft(h'[i]) < StepsLeft(h[i])]_vars

\* "lock the license in order to prevent it from being picked at the same time":
\* no two living FortiGates have the same license.
NoSharedLicense ==
    \A v, w \in up : v # w /\ holds[v] # None => holds[v] # holds[w]

=============================================================================
