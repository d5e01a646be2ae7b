----------------------------- MODULE FileWatch -----------------------------
(***************************************************************************)
(* From a change of a file to its fingerprint: the kernel's event queue,   *)
(* InotifyWatcher, and behind it either a FileEventCoalescer with          *)
(* fingerprint jobs of the program that embeds it, or                      *)
(* WorkspaceCore::file_event, which fingerprints at once.  The program     *)
(* hands on what it polled event by event; file_event is also called with  *)
(* paths as a user spells them.                                            *)
(***************************************************************************)
EXTENDS PathPolicy, FileEventCoalescer

CONSTANTS
    Paths,              \* files: component sequences below the root
    Spellings, Calls,   \* paths as spelled; those file_event is called with
    max_queued_events,  \* of the kernel
    advance_ticks,      \* by file_event
    MaxChanges, MaxTime, MaxJobs    \* bounds: changes, the clock, jobs under way

ASSUME WatchAssumption ==
    /\ {max_queued_events, advance_ticks, MaxChanges, MaxTime, MaxJobs} \subseteq Nat
    /\ \A p \in Paths : Plain(p) /\ p # <<>>
    /\ \A path \in Spellings \cup Calls : path.absolute \in BOOLEAN /\ path.parts \in Seq(STRING)

VARIABLES
    mode,           \* "jobs" or "file_event"
    fd, watch,      \* fd_ is open, and the kernel's watch on the root is alive
    queue,          \* the kernel's queue
    polled,         \* what poll_events returned and is not handed on yet
    content,        \* by file, 0 if it is missing; also that of the workspace's
                    \* VirtualFileSystem, which the program keeps like the disk
    coalescer, now, jobs,
    \* history
    changes,        \* of files so far; the version of the next content
    missed,         \* files with a change since which there was no event,
                    \* or whose fingerprint was replaced by an older one
    bursts,         \* completions taken for the path
    pushes, unseen  \* events pushed, and kinds since the last completion

disk == <<queue, content, changes, missed>>
history == <<bursts, pushes, unseen>>
vars == <<mode, fd, watch, polled, disk, coalescer, now, jobs, history>>

\* A fingerprint job: its event and what it read; as history the burst and
\* the events pushed before it read.
Job == [path : Paths, token : Nat, content : Nat, burst : Nat, pushes : Nat]

Init ==
    /\ mode \in {"jobs", "file_event"}
    /\ fd = FALSE /\ watch = FALSE
    /\ queue = <<>> /\ polled = <<>>
    /\ content = [p \in Paths |-> 0]
    /\ coalescer = NewCoalescer /\ now = 0 /\ jobs = {}
    /\ changes = 0 /\ missed = {}
    /\ bursts = [p \in Paths |-> 0]
    /\ pushes = [p \in Paths |-> 0] /\ unseen = [p \in Paths |-> {}]

-----------------------------------------------------------------------------
(***************************************************************************)
(* The disk and the kernel.                                                *)
(***************************************************************************)
Event(p, mask) == [path |-> p, mask |-> mask]
Nameless(mask) == Event(<<>>, mask)

\* The one watch hears of the files right in the root.  An event like the last
\* one in the queue is merged with it; what the queue has no room for is
\* dropped, and an overflow event marks the place.
Heard(e) == watch /\ Len(e.path) <= 1
Enqueued(q, e) ==
    IF ~Heard(e) \/ (q # <<>> /\ Last(q) = e) THEN q
    ELSE IF Len(q) < max_queued_events THEN Append(q, e)
    ELSE IF Last(q) = Nameless("overflow") THEN q ELSE Append(q, Nameless("overflow"))

PathsOf(events) == {events[i].path : i \in DOMAIN events} \cap Paths

\* These files have changed, and q is the queue with what was heard of it.
Notify(changed, q) ==
    /\ changes < MaxChanges /\ changes' = changes + 1
    /\ queue' = q
    /\ missed' = (missed \cup changed) \ PathsOf(q)
    /\ UNCHANGED <<mode, fd, polled, coalescer, now, jobs, history>>

\* A file is made or written.
Write(p) ==
    /\ content' = [content EXCEPT ![p] = changes + 1]
    /\ Notify({p}, Enqueued(queue, Event(p, IF content[p] = 0 THEN "create" ELSE "modify")))
    /\ UNCHANGED watch

Delete(p) ==
    /\ content[p] # 0
    /\ content' = [content EXCEPT ![p] = 0]
    /\ Notify({p}, Enqueued(queue, Event(p, "delete")))
    /\ UNCHANGED watch

Rename(p, q) ==
    /\ p # q /\ content[p] # 0
    /\ content' = [content EXCEPT ![p] = 0, ![q] = content[p]]
    /\ Notify({p, q}, Enqueued(Enqueued(queue, Event(p, "moved_from")), Event(q, "moved_to")))
    /\ UNCHANGED watch

\* The empty root is removed, and its watch goes with it.
RemoveRoot ==
    /\ watch /\ \A p \in Paths : content[p] = 0
    /\ watch' = FALSE
    /\ Notify({}, Enqueued(Enqueued(queue, Nameless("delete_self")), Nameless("ignored")))
    /\ UNCHANGED content

-----------------------------------------------------------------------------
(***************************************************************************)
(* InotifyWatcher.                                                         *)
(***************************************************************************)

\* start.  What is in the root already is not looked at.
Start ==
    /\ ~fd
    /\ fd' = TRUE /\ watch' = TRUE
    /\ UNCHANGED <<mode, polled, disk, coalescer, now, jobs, history>>

\* stop: the queue goes with the descriptor.
Stop ==
    /\ fd
    /\ fd' = FALSE /\ watch' = FALSE
    /\ queue' = <<>>
    /\ missed' = missed \cup PathsOf(queue)
    /\ UNCHANGED <<mode, polled, content, changes, coalescer, now, jobs, history>>

\* A variant with a mistake in it: a file moved away was not changed.
MovesTo(mask) ==
    CASE mask = "delete"                   -> "remove"
      [] mask \in {"create", "moved_to"}   -> "create"
      [] mask = "modify"                   -> "modify"
      [] OTHER                             -> "none"

\* A root that is moved away is left out: IN_MOVE_SELF has no name either and
\* is skipped like delete_self.
map_kind(mask) ==
    CASE mask \in {"delete", "moved_from", "delete_self"} -> "remove"
      [] mask \in {"create", "moved_to"}                  -> "create"
      [] mask = "modify"                                  -> "modify"
      [] OTHER                                            -> "none"

\* poll_events: the queue is read until it is empty.  Events without a name,
\* the overflow among them, are skipped.
Named(e) == e.path # <<>> /\ map_kind(e.mask) # "none"
FileEvent(e) == [path |-> e.path, kind |-> map_kind(e.mask)]
Read(q) ==
    LET out[i \in 0..Len(q)] ==
            IF i = 0 THEN <<>>
            ELSE IF Named(q[i]) THEN Append(out[i - 1], FileEvent(q[i]))
            ELSE out[i - 1]
    IN  out[Len(q)]

Poll ==
    /\ fd /\ queue # <<>> /\ polled = <<>>
    /\ polled' = Read(queue)
    /\ queue' = <<>>
    /\ UNCHANGED <<mode, fd, watch, content, changes, missed, coalescer, now, jobs, history>>

-----------------------------------------------------------------------------
(***************************************************************************)
(* The coalescer, with jobs of the program around it.                      *)
(***************************************************************************)
Watcher == <<mode, fd, watch>>

\* push of the next event.
Push ==
    LET e == Head(polled)
    IN  /\ mode = "jobs" /\ polled # <<>> /\ now + debounce_ticks <= MaxTime
        /\ polled' = Tail(polled)
        /\ coalescer' = Pushed(coalescer, e.path, e.kind, now)
        /\ pushes' = [pushes EXCEPT ![e.path] = @ + 1]
        /\ unseen' = [unseen EXCEPT ![e.path] = @ \cup {e.kind}]
        /\ UNCHANGED <<Watcher, disk, now, jobs, bursts>>

\* A job is started for an event that is due and reads the file.
Fingerprint(p) ==
    /\ p \in Due(coalescer, now) /\ Cardinality(jobs) < MaxJobs
    /\ jobs' = jobs \cup {[path |-> p, token |-> coalescer.pending[p].token, content |-> content[p],
                           burst |-> bursts[p], pushes |-> pushes[p]]}
    /\ UNCHANGED <<Watcher, polled, disk, coalescer, now, history>>

\* complete.  The token of a job that was left over from an earlier burst may
\* have come round.
Complete(j) ==
    LET p == j.path
    IN  /\ jobs' = jobs \ {j}
        /\ IF Accepts(coalescer, p, j.token)
           THEN /\ coalescer' = Completed(coalescer, p, j.content)
                /\ bursts' = [bursts EXCEPT ![p] = @ + 1]
                /\ unseen' = [unseen EXCEPT ![p] = {}]
                /\ missed' = IF j.burst # bursts[p] THEN missed \cup {p} ELSE missed
           ELSE UNCHANGED <<coalescer, bursts, unseen, missed>>
        /\ UNCHANGED <<Watcher, queue, polled, content, changes, now, pushes>>

Tick ==
    /\ mode = "jobs" /\ now < MaxTime
    /\ now' = now + 1
    /\ UNCHANGED <<Watcher, polled, disk, coalescer, jobs, history>>

-----------------------------------------------------------------------------
(***************************************************************************)
(* WorkspaceCore::file_event.                                              *)
(***************************************************************************)

\* fingerprint_path: a file that is not there has the fingerprint of nothing.
fingerprint_path(p) == IF p \in Paths THEN content[p] ELSE 0

file_event(path, kind) ==
    LET p == Normalize(path)
        pushed == Pushed(coalescer, p, kind, now)
    IN  /\ p # Escapes /\ now + advance_ticks <= MaxTime
        /\ now' = now + advance_ticks
        /\ Accepts(pushed, p, pushed.pending[p].token)
        /\ coalescer' = Completed(pushed, p, fingerprint_path(p))
        /\ UNCHANGED <<Watcher, disk, jobs, history>>

\* The program hands on the next event.
HandOn ==
    /\ mode = "file_event" /\ polled # <<>>
    /\ file_event([absolute |-> FALSE, parts |-> Head(polled).path], Head(polled).kind)
    /\ polled' = Tail(polled)

Called(path) ==
    /\ mode = "file_event"
    /\ file_event(path, "modify")
    /\ UNCHANGED polled

-----------------------------------------------------------------------------
Next ==
    \/ \E p \in Paths : Write(p) \/ Delete(p) \/ \E q \in Paths : Rename(p, q)
    \/ RemoveRoot \/ Start \/ Stop \/ Poll
    \/ Push \/ (\E p \in Paths : Fingerprint(p)) \/ (\E j \in jobs : Complete(j)) \/ Tick
    \/ HandOn \/ \E path \in Calls : Called(path)

Spec == Init /\ [][Next]_vars

-----------------------------------------------------------------------------
(***************************************************************************)
(* Properties.                                                             *)
(***************************************************************************)
TypeOK ==
    /\ watch => fd
    /\ ~fd => queue = <<>>
    /\ PathsOf(polled) = {polled[i].path : i \in DOMAIN polled}
    /\ \A p \in DOMAIN coalescer.pending : p \in Paths /\ coalescer.pending[p] \in CoalescedEvent
    /\ \A p \in DOMAIN coalescer.fingerprints :
          coalescer.fingerprints[p] \in [content : Nat, epoch : Nat \ {0}]
    /\ jobs \subseteq Job

\* push merges: the pending event of a path has the kinds of all events since
\* the last completion, and none from before it.
KindsMerged == \A p \in DOMAIN coalescer.pending : coalescer.pending[p].merged_kind = unseen[p]

\* The fields have their types, nothing is left of a completed entry, and no
\* kind is lost or carried over from before a completion.
CoalescerInvariant == TypeOK /\ KindsMerged

\* Within a burst, from the first event of a path to the completion that ends
\* it, a completion is taken only if the job read the file after the last event.
StaleRejected ==
    \A j \in jobs :
        Accepts(coalescer, j.path, j.token) /\ j.burst = bursts[j.path] => j.pushes = pushes[j.path]

\* A file whose fingerprint is not that of its content has an event in the
\* kernel's queue, on its way or pending, whatever was read while it changed
\* and however the jobs completed.  The exceptions are all in missed.
NothingForgotten ==
    \A p \in Paths :
        LET known == IF p \in DOMAIN coalescer.fingerprints
                     THEN coalescer.fingerprints[p].content ELSE 0
        IN  content[p] # known =>
                p \in PathsOf(queue) \cup PathsOf(polled) \cup DOMAIN coalescer.pending \cup missed

-----------------------------------------------------------------------------
\* Where a path leads, component by component, and whether it leaves the
\* workspace on its way.
Walk(dir, part) ==
    CASE part \in Here -> dir
      [] part = Up    -> IF dir = <<>> THEN <<>> ELSE Front(dir)
      [] OTHER        -> Append(dir, part)
Denoted(path) ==
    LET dir[i \in 0..Len(path.parts)] ==
            IF i = 0 THEN IF path.absolute THEN <<>> ELSE Root
            ELSE Walk(dir[i - 1], path.parts[i])
    IN  dir[Len(path.parts)]
Leaves(path) ==
    \E n \in DOMAIN path.parts :
        LET ups == {i \in 1..n : path.parts[i] = Up}
            stays == {i \in 1..n : path.parts[i] \in Here}
        IN  2 * Cardinality(ups) > n - Cardinality(stays)

NormalizeDenotes ==
    \A path \in Spellings :
        LET file == Denoted(path)
            inside == IsStrictPrefix(Root, file) /\ (path.absolute \/ ~Leaves(path))
        IN  /\ inside <=> Normalize(path) # Escapes
            /\ inside => Root \o Normalize(path) = file

\* normalize accepts what lies in the workspace, unless a relative path leaves
\* it on its way, all spellings of a file come to the one path of it, and under
\* no other is there a fingerprint.
SpellingsAgree ==
    /\ NormalizeDenotes
    /\ \A p \in DOMAIN coalescer.fingerprints : Denoted([absolute |-> FALSE, parts |-> p]) = Root \o p

=============================================================================
