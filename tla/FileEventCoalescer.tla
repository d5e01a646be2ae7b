------------------------ MODULE FileEventCoalescer ------------------------
(***************************************************************************)
(* FileEventCoalescer: file events are merged per path until the path has  *)
(* been quiet for debounce_ticks; then its content is fingerprinted, and   *)
(* the completion is taken only if its token is still the path's.  A       *)
(* coalescer is a record of two maps by path: pending, with an entry for   *)
(* each path in its domain, and fingerprints.                              *)
(***************************************************************************)
EXTENDS Naturals, Functions

CONSTANT debounce_ticks

ASSUME CoalescerAssumption == debounce_ticks \in Nat

FileEventKind == {"create", "modify", "remove"}     \* rename is made by no one

CoalescedEvent == [merged_kind : SUBSET FileEventKind, token : Nat, due_time : Nat]

NewCoalescer == [pending |-> <<>>, fingerprints |-> <<>>]

\* The map with the value of p set, as by operator[].
Put(map, p, value) == [q \in DOMAIN map \cup {p} |-> IF q = p THEN value ELSE map[q]]

\* pending_[path]: a new entry has no kinds and Generation{}.
Entry(c, p) ==
    IF p \in DOMAIN c.pending THEN c.pending[p]
    ELSE [merged_kind |-> {}, token |-> 1, due_time |-> 0]

\* Variants with a mistake in them.
NextTokenOnce(entry) == 2
MergeLatest(entry, k) == {k}

NextToken(entry) == entry.token + 1
Merge(entry, k) == entry.merged_kind \cup {k}

\* push.
Pushed(c, p, k, now) ==
    LET entry == Entry(c, p)
    IN  [c EXCEPT !.pending = Put(@, p, [merged_kind |-> Merge(entry, k), token |-> NextToken(entry),
                                         due_time |-> now + debounce_ticks])]

\* due: the paths it returns, whose entries stay.
Due(c, now) == {p \in DOMAIN c.pending : c.pending[p].due_time <= now}

\* The test of complete.
Accepts(c, p, token) == p \in DOMAIN c.pending /\ c.pending[p].token = token

\* complete, if it is accepted: the fingerprint is stored under the next epoch
\* and the entry is erased with its token.
Completed(c, p, content) ==
    [pending |-> Restrict(c.pending, DOMAIN c.pending \ {p}),
     fingerprints |->
        Put(c.fingerprints, p,
            [content |-> content,
             epoch |-> IF p \in DOMAIN c.fingerprints THEN c.fingerprints[p].epoch + 1 ELSE 1])]

=============================================================================
