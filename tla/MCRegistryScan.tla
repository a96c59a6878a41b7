--------------------------- MODULE MCRegistryScan ---------------------------
(***************************************************************************)
(* Bounded check of the scan get_commitments (state.rs) against its        *)
(* reference.  The variables hold one input of the scan each: a registry   *)
(* (deque and pending map) as the contract can hold it, a report time and  *)
(* a batch limit.  Init enumerates every such input within the bounds and  *)
(* the state never changes, so every invariant below is checked on every   *)
(* input.                                                                  *)
(***************************************************************************)
EXTENDS CommitmentRegistry, FiniteSets

CONSTANTS
    MaxLen,        \* most entries in the deque
    CommitTimes,   \* commit times an entry may have
    Durations,     \* time_expired values: expired_time = commit_time + d
    ReportTimes,   \* completion times of the report
    MaxCallbacks   \* values of configs.max_callback

VARIABLES queue, pending, completion_time, max_callback

vars == <<queue, pending, completion_time, max_callback>>

\* Deques the contract can hold: ids are distinct (one per nonce) and,
\* while time_per_block is not changed, commit times are sorted.
Windows == CommitTimes \X Durations

Queues ==
    UNION { { [i \in 1..n |-> [id |-> i, commit_time |-> ws[i][1],
                               expired_time |-> ws[i][1] + ws[i][2]]]
              : ws \in [1..n -> Windows] } : n \in 0..MaxLen }

SortedQueues == {q \in Queues : SortedByCommitTime(q)}

\* The pending map holds any subset of the deque's entries: the beacon
\* callback removes an entry from the map and leaves it in the deque.
PendingMaps(q) ==
    { [c \in S |-> q[c]] : S \in SUBSET (1..Len(q)) }

Init ==
    /\ queue \in SortedQueues
    /\ pending \in PendingMaps(queue)
    /\ completion_time \in ReportTimes
    /\ max_callback \in MaxCallbacks

Next == UNCHANGED vars

Spec == Init /\ [][Next]_vars

Res == GetCommitments(queue, pending, completion_time, max_callback)

(***************************************************************************)
(* Properties.                                                             *)
(***************************************************************************)

\* get_commitments serves exactly the commitments whose window contains the
\* report time, oldest first, and as many of them as max_callback allows:
\* the early stop at the first not-yet-open entry loses none, because the
\* deque is sorted by commit time.
ScanMatchesReference ==
    Res.matched = Take(Eligible(queue, completion_time), max_callback)

\* Every entry the scan pops ends up in exactly one place: back in the deque
\* (its window is not open yet, or the batch was full), in the batch, or
\* dropped because its window closed; and the pending map loses exactly
\* the batch's ids.
ScanPartitionsQueue ==
    LET dropped == {c \in ToSet(queue) : c.id \in Res.dropped}
    IN  /\ ToSet(queue) = ToSet(Res.queue) \cup ToSet(Res.matched) \cup dropped
        /\ Len(queue) = Len(Res.queue) + Len(Res.matched) + Cardinality(dropped)
        /\ \A c \in dropped : c.expired_time < completion_time
        /\ Res.pending = Restrict(pending, DOMAIN pending \ IdsOf(Res.matched))

\* Spec section 8: "given a report with completion_time = t, the matched set
\* equals exactly {c : c.commit_time <= t < c.expired_time} up to the batch
\* cap".
ScanMatchesSpecWindow ==
    Res.matched =
        Take(SelectSeq(Reverse(queue), LAMBDA c : SpecWindow(c, completion_time)),
             max_callback)

\* Spec section 4.3: the scan stops once the matched count reaches
\* max_batch, so a report never serves more than max_callback commitments.
ScanRespectsCap == Len(Res.matched) <= max_callback

(***************************************************************************)
(* Bounds.                                                                 *)
(***************************************************************************)
ScanCommitTimes == 0..3
ScanDurations == 0..2
ScanReportTimes == 0..5
ScanCapsPositive == 1..3
ScanCapsZero == {0}

=============================================================================
