--------------------------- MODULE ArtifactStore ---------------------------
(***************************************************************************)
(* ArtifactStore: content-addressed objects in memory, with leases that    *)
(* keep them from garbage collection, and in a store with a root also as   *)
(* files.  publish runs as the file operations it makes; a crash of the    *)
(* process falls between any two.                                          *)
(*                                                                         *)
(* The digest of an artifact is the artifact: a key stands for the bytes   *)
(* whose key it is.  A file holds the bytes of its key, a part of them     *)
(* ("part"), or does not exist.                                            *)
(***************************************************************************)
EXTENDS Integers, FiniteSets

CONSTANTS
    Keys,       \* artifacts, by their key
    MaxHolders, \* bound: leases of a key held at a time
    MaxFaults   \* bound: crashes and write errors

ASSUME ArtifactAssumption ==
    MaxHolders \in Nat /\ MaxFaults \in Nat

VARIABLES
    root,       \* the store has a root directory; never assigned
    objects,    \* the keys of objects_
    leases,     \* ArtifactObject::leases, by key
    temps, files,   \* the .tmp and .cas files: "none", "part" or "whole"
    publishing, \* the keys whose publish is under way: a set of at most one
    \* history
    holders,    \* leases acquired and not released by their holder, by key
    published,  \* keys whose publish returned ok, in any run of the process
    replaced,   \* keys published again while they were held
    faults

memory == <<objects, leases, holders>>
artifactVars == <<root, memory, temps, files, publishing, published, replaced, faults>>

ArtifactInit ==
    /\ root \in BOOLEAN
    /\ objects = {}
    /\ leases = [k \in Keys |-> 0]
    /\ temps = [k \in Keys |-> "none"]
    /\ files = [k \in Keys |-> "none"]
    /\ publishing = {}
    /\ holders = [k \in Keys |-> 0]
    /\ published = {}
    /\ replaced = {}
    /\ faults = 0

\* The object is stored, in place of one that is there, and publish returns.
StoreObject(k) ==
    /\ objects' = objects \cup {k}
    /\ leases' = [leases EXCEPT ![k] = 0]
    /\ published' = published \cup {k}
    /\ replaced' = IF holders[k] > 0 THEN replaced \cup {k} ELSE replaced

\* publish without a root.
PublishInMemory(k) ==
    /\ ~root
    /\ StoreObject(k)
    /\ UNCHANGED <<root, temps, files, publishing, holders, faults>>

\* publish opens the temporary file, and truncates it.
OpenTemp(k) ==
    /\ root /\ publishing = {}
    /\ publishing' = {k}
    /\ temps' = [temps EXCEPT ![k] = "part"]
    /\ UNCHANGED <<root, memory, files, published, replaced, faults>>

WriteTemp(k) ==
    /\ k \in publishing /\ temps[k] = "part"
    /\ temps' = [temps EXCEPT ![k] = "whole"]
    /\ UNCHANGED <<root, memory, files, publishing, published, replaced, faults>>

\* A variant with a mistake in it: the file is published before it is written.
WrittenOrOpen(k) == temps[k] # "none"

Written(k) == temps[k] = "whole"

\* The temporary file is complete and renamed to the object's.
Rename(k) ==
    /\ k \in publishing /\ Written(k)
    /\ files' = [files EXCEPT ![k] = temps[k]]
    /\ temps' = [temps EXCEPT ![k] = "none"]
    /\ StoreObject(k)
    /\ publishing' = {}
    /\ UNCHANGED <<root, holders, faults>>

\* The write fails and leaves the temporary file, or the rename fails and it
\* is removed: publish returns an error.
PublishError(k) ==
    /\ k \in publishing
    /\ faults < MaxFaults /\ faults' = faults + 1
    /\ temps' = [temps EXCEPT ![k] = IF temps[k] = "whole" THEN "none" ELSE "part"]
    /\ publishing' = {}
    /\ UNCHANGED <<root, memory, files, published, replaced>>

\* read: from memory, else from the file, whose size and digest must agree.
Readable(k) == k \in objects \/ (root /\ files[k] = "whole")

Acquire(k) ==
    /\ publishing = {}
    /\ k \in objects
    /\ holders[k] < MaxHolders
    /\ leases' = [leases EXCEPT ![k] = @ + 1]
    /\ holders' = [holders EXCEPT ![k] = @ + 1]
    /\ UNCHANGED <<root, objects, temps, files, publishing, published, replaced, faults>>

\* A variant with a mistake in it: the lease is not counted down.
NotCounted(k) == leases[k]

CountedDown(k) == IF k \in objects /\ leases[k] > 0 THEN leases[k] - 1 ELSE leases[k]

\* A holder releases its lease; an error is reported when there is none.
Release(k) ==
    /\ publishing = {}
    /\ holders[k] > 0
    /\ holders' = [holders EXCEPT ![k] = @ - 1]
    /\ leases' = [leases EXCEPT ![k] = CountedDown(k)]
    /\ UNCHANGED <<root, objects, temps, files, publishing, published, replaced, faults>>

\* A variant with a mistake in it: an object with one lease counts as free.
UnleasedOrOne == {k \in objects : leases[k] <= 1}

Unleased == {k \in objects : leases[k] = 0}

\* gc: every object without a lease; the files stay.
Gc ==
    /\ publishing = {} /\ Unleased # {}
    /\ objects' = objects \ Unleased
    /\ leases' = [k \in Keys |-> IF k \in Unleased THEN 0 ELSE leases[k]]
    /\ UNCHANGED <<root, temps, files, publishing, holders, published, replaced, faults>>

\* The process stops and is started again with the same root.
Restart ==
    /\ root
    /\ faults < MaxFaults /\ faults' = faults + 1
    /\ objects' = {}
    /\ leases' = [k \in Keys |-> 0]
    /\ holders' = [k \in Keys |-> 0]
    /\ publishing' = {}
    /\ UNCHANGED <<root, temps, files, published, replaced>>

ArtifactNext ==
    \/ \E k \in Keys : \/ PublishInMemory(k)
                       \/ OpenTemp(k) \/ WriteTemp(k) \/ Rename(k) \/ PublishError(k)
                       \/ Acquire(k) \/ Release(k)
    \/ Gc
    \/ Restart

ArtifactSpec == ArtifactInit /\ [][ArtifactNext]_artifactVars

-----------------------------------------------------------------------------
(***************************************************************************)
(* Properties.                                                             *)
(***************************************************************************)

\* The types of the store's fields; only objects have leases.
ArtifactTypeOK ==
    /\ root \in BOOLEAN
    /\ objects \subseteq Keys
    /\ leases \in [Keys -> Nat]
    /\ temps \in [Keys -> {"none", "part", "whole"}]
    /\ files \in [Keys -> {"none", "part", "whole"}]
    /\ publishing \subseteq Keys /\ Cardinality(publishing) <= 1
    /\ holders \in [Keys -> Nat]
    /\ published \subseteq Keys
    /\ faults \in 0..MaxFaults
    /\ \A k \in Keys : k \notin objects => leases[k] = 0

\* An artifact whose publish was reported ok can be read for ever from a store
\* with a root: a later publish of it that fails or is cut short, a restart
\* and a garbage collection all leave a whole file.
PublishedReadable == root => \A k \in published : Readable(k)

\* No lease outlives its holders, so what nobody holds is collected.
LeasesHaveHolders == \A k \in Keys : leases[k] <= holders[k]

\* gc never takes an object that is held, as long as it is not published
\* again in the meantime.
HeldKept == \A k \in Keys \ replaced : holders[k] > 0 => k \in objects

\* The store's fields have their types, only objects have leases, and every
\* lease has a holder.
LeaseInvariant == ArtifactTypeOK /\ LeasesHaveHolders

=============================================================================
