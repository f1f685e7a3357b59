------------------------------ MODULE ApiCache ------------------------------
(***************************************************************************)
(* Answers of the Azure management API as invocations see them: through a  *)
(* table of cached answers that all of them read and write.  One scaling   *)
(* group is modelled; its VMs are looked up by listing the group first and *)
(* describing the VM then.                                                 *)
(*                                                                         *)
(* Time is left out: an answer in the cache is used however old it is.     *)
(***************************************************************************)
CONSTANTS
    Invocation,     \* concurrent invocations
    VM,             \* all VMs that are ever in the scaling group
    Absent          \* no answer in the cache, no VM

ASSUME AbsentAssumption == Absent \notin VM /\ \A S \in SUBSET VM : Absent # S

VARIABLES
    scaleSet,   \* the scaling group itself: VM -> where in its life it is
    listing,    \* the cached list of instances
    described,  \* VMs with a cached description, which is under the VM's id
    nics,       \* VMs with cached network interfaces, under the instance's id
    h           \* the invocations

vars == <<scaleSet, listing, described, nics, h>>
caches == <<listing, described, nics>>

Life == {"none", "there", "leaving", "gone"}

\* What the API answers for: a VM that is being deleted is still listed.
Present == {v \in VM : scaleSet[v] \in {"there", "leaving"}}

Operation == {"list", "describe", "nics", "delete"}

\* "found" and "missing" are the two answers of a description.
Ended == {"ready", "found", "missing", "done", "failed"}

Steps == Ended \cup {"readList", "listApi", "saveList", "readDescription", "descriptionApi",
                     "saveDescription", "readNics", "nicsApi", "saveNics", "drop", "deleteVm"}

\* The cached answers that belong to a VM, when it is deleted.
CacheKey == {"listInstances", "describeInstance", "listNetworkInterfaces"}

\* Local variables; wasThere and forgotten say how things were at the call.
Handler ==
    [pc : Steps, op : Operation, vm : VM \cup {Absent}, seen : SUBSET VM, again : BOOLEAN,
     toRead : SUBSET CacheKey, toDrop : SUBSET CacheKey,
     failed : BOOLEAN, wasThere : BOOLEAN, forgotten : BOOLEAN]

IdleHandler ==
    [pc |-> "ready", op |-> "list", vm |-> Absent, seen |-> {}, again |-> FALSE,
     toRead |-> {}, toDrop |-> {}, failed |-> FALSE, wasThere |-> FALSE,
     forgotten |-> FALSE]

At(i, step) == h[i].pc = step

Becomes(i, r) == h' = [h EXCEPT ![i] = r]

\* An invocation whose call has ended.
End(r, outcome) ==
    [IdleHandler EXCEPT !.pc = outcome, !.forgotten = r.forgotten]

\* No one knows of v any more: neither the group nor the cache, nor an
\* invocation that has a list to save.
Forgotten(v) == /\ scaleSet[v] = "gone"
                /\ listing = Absent \/ v \notin listing
                /\ \A i \in Invocation : v \notin h[i].seen

-----------------------------------------------------------------------------
Init ==
    /\ scaleSet \in [VM -> {"none", "there"}]
    /\ listing = Absent
    /\ described = {} /\ nics = {}
    /\ h = [i \in Invocation |-> IdleHandler]

\* Mutant: a description is looked up without the list.
CallDescribesFirst(i, op, v) ==
    /\ h[i].pc \in Ended
    /\ Becomes(i, [IdleHandler EXCEPT
            !.pc = IF op = "nics" THEN "readNics"
                   ELSE IF op = "describe" THEN "readDescription" ELSE "readList",
            !.op = op, !.vm = v, !.forgotten = Forgotten(v)])
    /\ UNCHANGED <<scaleSet, caches>>

\* All but listNetworkInterfaces begin with a list of the group.
Call(i, op, v) ==
    /\ h[i].pc \in Ended
    /\ Becomes(i, [IdleHandler EXCEPT
            !.pc = IF op = "nics" THEN "readNics" ELSE "readList", !.op = op, !.vm = v,
            !.wasThere = op = "describe" /\ v \in Present,
            !.forgotten = op = "describe" /\ Forgotten(v)])
    /\ UNCHANGED <<scaleSet, caches>>

\* Mutant: a VM that is not on the cached list does not exist.
AfterListTrusting(r, list) ==
    CASE r.op = "list" -> End(r, "done")
      [] r.op = "delete" -> IF r.vm \in list THEN [r EXCEPT !.pc = "drop", !.toRead = CacheKey]
                            ELSE End(r, "done")
      [] OTHER -> IF r.vm \in list THEN [r EXCEPT !.pc = "readDescription"]
                  ELSE End(r, "missing")

\* What is done with a list.  describeInstance asks the API once more if the VM
\* is not on it.
AfterList(r, list) ==
    CASE r.op = "list" -> End(r, "done")
      [] r.op = "delete" ->
            IF r.vm \in list THEN [r EXCEPT !.pc = "drop", !.seen = {}, !.toRead = CacheKey]
            ELSE End(r, "done")
      [] OTHER ->
            IF r.vm \in list THEN [r EXCEPT !.pc = "readDescription", !.seen = {}]
            ELSE IF r.again THEN End(r, "missing")
            ELSE [r EXCEPT !.pc = "listApi", !.seen = {}, !.again = TRUE]

\* requestWithCaching with ReadCacheFirst: an answer in the cache is returned
\* however old it is: whether it has expired is only noted.
ReadList(i) ==
    /\ At(i, "readList")
    /\ IF listing = Absent THEN Becomes(i, [h[i] EXCEPT !.pc = "listApi"])
       ELSE Becomes(i, AfterList(h[i], listing))
    /\ UNCHANGED <<scaleSet, caches>>

ListApi(i) ==
    /\ At(i, "listApi")
    /\ Becomes(i, [h[i] EXCEPT !.pc = "saveList", !.seen = Present])
    /\ UNCHANGED <<scaleSet, caches>>

\* apiRequestSaveCache writes over whatever is cached by now.
SaveList(i) ==
    /\ At(i, "saveList")
    /\ listing' = h[i].seen
    /\ Becomes(i, AfterList(h[i], h[i].seen))
    /\ UNCHANGED <<scaleSet, described, nics>>

ReadDescription(i) ==
    /\ At(i, "readDescription")
    /\ IF h[i].vm \in described
       THEN Becomes(i, End(h[i], "found"))
       ELSE Becomes(i, [h[i] EXCEPT !.pc = "descriptionApi"])
    /\ UNCHANGED <<scaleSet, caches>>

DescriptionApi(i) ==
    /\ At(i, "descriptionApi")
    /\ h[i].vm \in Present
    /\ Becomes(i, [h[i] EXCEPT !.pc = "saveDescription"])
    /\ UNCHANGED <<scaleSet, caches>>

SaveDescription(i) ==
    /\ At(i, "saveDescription")
    /\ described' = described \cup {h[i].vm}
    /\ Becomes(i, End(h[i], "found"))
    /\ UNCHANGED <<scaleSet, listing, nics>>

ReadNics(i) ==
    /\ At(i, "readNics")
    /\ IF h[i].vm \in nics
       THEN Becomes(i, End(h[i], "done"))
       ELSE Becomes(i, [h[i] EXCEPT !.pc = "nicsApi"])
    /\ UNCHANGED <<scaleSet, caches>>

NicsApi(i) ==
    /\ At(i, "nicsApi")
    /\ h[i].vm \in Present
    /\ Becomes(i, [h[i] EXCEPT !.pc = "saveNics"])
    /\ UNCHANGED <<scaleSet, caches>>

SaveNics(i) ==
    /\ At(i, "saveNics")
    /\ nics' = nics \cup {h[i].vm}
    /\ Becomes(i, End(h[i], "done"))
    /\ UNCHANGED <<scaleSet, listing, described>>

-----------------------------------------------------------------------------
(* deleteInstanceFromVmss: three ReadCacheAndDelete calls side by side.    *)

\* The description to delete is looked for under the instance's id, where none
\* is ever stored.
Cached(k, v) ==
    CASE k = "listInstances" -> listing # Absent
      [] k = "describeInstance" -> FALSE
      [] k = "listNetworkInterfaces" -> v \in nics

DropRead(i, k) ==
    /\ At(i, "drop") /\ k \in h[i].toRead
    /\ Becomes(i, [h[i] EXCEPT !.toRead = @ \ {k},
                               !.toDrop = IF Cached(k, h[i].vm) THEN @ \cup {k} ELSE @])
    /\ UNCHANGED <<scaleSet, caches>>

\* An answer that another invocation has deleted meanwhile is an error.
Drop(i, k) ==
    /\ At(i, "drop") /\ k \in h[i].toDrop
    /\ listing' = IF k = "listInstances" THEN Absent ELSE listing
    /\ nics' = IF k = "listNetworkInterfaces" THEN nics \ {h[i].vm} ELSE nics
    /\ Becomes(i, [h[i] EXCEPT !.toDrop = @ \ {k},
                               !.failed = @ \/ ~Cached(k, h[i].vm)])
    /\ UNCHANGED <<scaleSet, described>>

\* Mutant: the deletions are begun but not waited for.
DropsBegun(i) ==
    /\ At(i, "drop") /\ h[i].toRead = {}
    /\ Becomes(i, [h[i] EXCEPT !.pc = "deleteVm"])
    /\ UNCHANGED <<scaleSet, caches>>

\* All three must succeed, else the VM is not deleted; the error goes no further.
DropsDone(i) ==
    /\ At(i, "drop") /\ h[i].toRead = {} /\ h[i].toDrop = {}
    /\ Becomes(i, IF h[i].failed THEN End(h[i], "done") ELSE [h[i] EXCEPT !.pc = "deleteVm"])
    /\ UNCHANGED <<scaleSet, caches>>

DeleteVm(i) ==
    /\ At(i, "deleteVm")
    /\ scaleSet' = [scaleSet EXCEPT ![h[i].vm] = IF @ = "there" THEN "leaving" ELSE @]
    /\ Becomes(i, End(h[i], "done"))
    /\ UNCHANGED caches

-----------------------------------------------------------------------------
(* The environment.                                                        *)

\* The API refuses a request (too many requests, no such VM).
ApiFails(i) ==
    /\ h[i].pc \in {"listApi", "descriptionApi", "nicsApi", "deleteVm"}
    /\ Becomes(i, End(h[i], "failed"))
    /\ UNCHANGED <<scaleSet, caches>>

Crash(i) ==
    /\ h[i].pc \notin Ended
    /\ Becomes(i, IdleHandler)
    /\ UNCHANGED <<scaleSet, caches>>

Launch(v) ==
    /\ scaleSet[v] = "none"
    /\ scaleSet' = [scaleSet EXCEPT ![v] = "there"]
    /\ UNCHANGED <<caches, h>>

Leave(v) ==
    /\ scaleSet[v] \in {"there", "leaving"}
    /\ \E life \in {"leaving", "gone"} : scaleSet' = [scaleSet EXCEPT ![v] = life]
    /\ UNCHANGED <<caches, h>>

Next ==
    \/ \E i \in Invocation :
          \/ \E op \in Operation, v \in VM : Call(i, op, v)
          \/ ReadList(i) \/ ListApi(i) \/ SaveList(i)
          \/ ReadDescription(i) \/ DescriptionApi(i) \/ SaveDescription(i)
          \/ ReadNics(i) \/ NicsApi(i) \/ SaveNics(i)
          \/ \E k \in CacheKey : DropRead(i, k) \/ Drop(i, k)
          \/ DropsDone(i) \/ DeleteVm(i) \/ ApiFails(i) \/ Crash(i)
    \/ \E v \in VM : Launch(v) \/ Leave(v)

Spec == Init /\ [][Next]_vars

-----------------------------------------------------------------------------
(* Properties *)

\* Every variable has its type, and answers are being deleted from the cache
\* only in the stage that waits for it.
TypeOK ==
    /\ scaleSet \in [VM -> Life]
    /\ listing \in {Absent} \cup SUBSET VM
    /\ described \subseteq VM /\ nics \subseteq VM
    /\ h \in [Invocation -> Handler]
    /\ \A i \in Invocation : h[i].toRead \cup h[i].toDrop # {} => At(i, "drop")

\* A FortiGate that is in the scaling group from the beginning of a description
\* to its end is never reported missing, however old the cached list is and
\* whatever other invocations save or delete meanwhile (getTargetVm rejects the
\* request of a VM that is missing).
LivingVmIsFound ==
    [][\A i \in Invocation :
          ~At(i, "missing") /\ h'[i].pc = "missing" /\ h[i].wasThere
          => h[i].vm \notin Present]_vars

\* The description of a VM that was deleted stays in the cache for ever.  Still,
\* once the group, the cached list and all lists yet to be saved have lost a VM,
\* no description of it is given to anyone again.
GoneVmIsNotDescribed ==
    \A i \in Invocation : At(i, "found") => ~h[i].forgotten

=============================================================================
