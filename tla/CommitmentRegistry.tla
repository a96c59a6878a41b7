------------------------- MODULE CommitmentRegistry -------------------------
(***************************************************************************)
(* The commitment registry of contracts/aurand/src/state.rs.               *)
(*                                                                         *)
(* Two stores hold the outstanding randomness requests:                    *)
(*   COMMITMENTS          a cw_storage_plus Deque<Commitment>, and         *)
(*   PENDING_COMMITMENTS  a Map<String, Commitment> keyed by commitment id. *)
(*                                                                         *)
(* A deque is a sequence: index 1 is its front, Len its back.  Requests    *)
(* are pushed to the front (push_front), the oracle scan pops from the     *)
(* back (pop_back), so the back holds the oldest entry.  A map is a TLA+   *)
(* function whose domain is the set of stored keys.                        *)
(*                                                                         *)
(* A Commitment keeps the fields the control depends on:                   *)
(*   [id |-> <<owner, nonce>>, commit_time |-> Nat, expired_time |-> Nat]  *)
(* (request_id and data_request only travel into the callback message).    *)
(* Times are whole seconds; Timestamp comparisons are comparisons of Nat.  *)
(***************************************************************************)
EXTENDS Naturals, Sequences, SequencesExt, Functions, TLC

(***************************************************************************)
(* Storage primitives.                                                     *)
(***************************************************************************)

\* A mutation of PushFront: new commitments are pushed to the back, the
\* end the scan pops from.
PushFrontAsBack(dq, c) == Append(dq, c)

\* Deque::push_front: a new commitment enters at the front.
PushFront(dq, c) == Cons(c, dq)

\* A mutation of PushBack: the undo of pop_back is forgotten, the popped
\* commitment is lost from the deque.
PushBackLost(dq, c) == dq

\* Deque::push_back: put an entry back at the oldest end.
PushBack(dq, c) == Append(dq, c)

\* Map::save (insert or overwrite a key).
MapSave(m, k, v) == (k :> v) @@ m

\* Map::remove (removing an absent key is a no-op).
MapRemove(m, k) == Restrict(m, DOMAIN m \ {k})

(***************************************************************************)
(* The three tests of the get_commitments loop.                            *)
(***************************************************************************)

\* A mutation of WindowNotOpen: the report time equal to commit_time is
\* treated as inside the window.
WindowNotOpenStrict(c, completion_time) == c.commit_time > completion_time

\* A mutation of WindowNotOpen: an entry outside the window on either side
\* is put back and ends the scan, so an expired entry is never removed.
WindowNotOpenOrClosed(c, completion_time) ==
    c.commit_time >= completion_time \/ c.expired_time < completion_time

\* The report was completed before the commitment's window opened: the
\* scan puts the entry back and stops.
WindowNotOpen(c, completion_time) == c.commit_time >= completion_time

\* A mutation of WindowClosed: a report completed exactly at expired_time
\* also drops the commitment.
WindowClosedLax(c, completion_time) == c.expired_time <= completion_time

\* The commitment's window closed before the report was completed.
WindowClosed(c, completion_time) == c.expired_time < completion_time

\* A mutation of Unpend: the matched commitment stays in the pending map.
UnpendSkipped(pending, c) == pending

\* PENDING_COMMITMENTS.remove of a commitment the scan collected.
Unpend(pending, c) == MapRemove(pending, c.id)

\* The batch limit: count has already been incremented for this match.
BatchFull(count, max_callback) == count >= max_callback

(***************************************************************************)
(* get_commitments(storage, completion_time, max_callback), state.rs.      *)
(* The loop is a recursion over the remaining deque; its result carries    *)
(* the new deque, the new pending map, the matched commitments in the      *)
(* order they were collected (oldest first) and, as a history for the      *)
(* properties, the ids of the entries dropped as expired.                  *)
(***************************************************************************)
ScanResult(dq, pending, vecs, dropped) ==
    [queue |-> dq, pending |-> pending, matched |-> vecs, dropped |-> dropped]

RECURSIVE ScanLoop(_, _, _, _, _, _, _)
ScanLoop(dq, pending, completion_time, max_callback, count, vecs, dropped) ==
    IF dq = <<>>
    THEN ScanResult(dq, pending, vecs, dropped)
    ELSE LET commitment == Last(dq)      \* pop_back
             rest       == Front(dq)
         IN  IF WindowNotOpen(commitment, completion_time)
             THEN ScanResult(PushBack(rest, commitment), pending, vecs, dropped)
             ELSE IF WindowClosed(commitment, completion_time)
             THEN ScanLoop(rest, pending, completion_time, max_callback,
                           count, vecs, dropped \cup {commitment.id})
             ELSE LET pending2 == Unpend(pending, commitment)
                      vecs2    == Append(vecs, commitment)
                  IN  IF BatchFull(count + 1, max_callback)
                      THEN ScanResult(rest, pending2, vecs2, dropped)
                      ELSE ScanLoop(rest, pending2, completion_time,
                                    max_callback, count + 1, vecs2, dropped)

GetCommitments(dq, pending, completion_time, max_callback) ==
    ScanLoop(dq, pending, completion_time, max_callback, 0, <<>>, {})

(***************************************************************************)
(* get_commitment(storage, commit_id), state.rs: load and remove the       *)
(* commitment with this id from the pending map, if it is there.  The      *)
(* deque is not touched.  GetCommitmentKeep is a mutation of it that       *)
(* loads without removing.                                                 *)
(***************************************************************************)
GetCommitmentKeep(pending, commit_id) ==
    IF commit_id \in DOMAIN pending
    THEN [found |-> TRUE, commitment |-> pending[commit_id], pending |-> pending]
    ELSE [found |-> FALSE, pending |-> pending]

GetCommitment(pending, commit_id) ==
    IF commit_id \in DOMAIN pending
    THEN [found |-> TRUE, commitment |-> pending[commit_id],
          pending |-> MapRemove(pending, commit_id)]
    ELSE [found |-> FALSE, pending |-> pending]

(***************************************************************************)
(* The reference the scan is measured against (the comment above           *)
(* get_commitments and spec section 8): the report at completion_time t    *)
(* serves the commitments whose window contains t, oldest first, at most  *)
(* max_callback of them.  InWindow is the window the code's tests select:  *)
(* commit_time < t <= expired_time.                                        *)
(***************************************************************************)
InWindow(c, t) == c.commit_time < t /\ t <= c.expired_time

\* The window as the spec states it: commit_time <= t < expired_time.
SpecWindow(c, t) == c.commit_time <= t /\ t < c.expired_time

\* The oldest-first list of deque entries whose window contains t.
Eligible(dq, t) == SelectSeq(Reverse(dq), LAMBDA c : InWindow(c, t))

\* The ids of the commitments of a sequence.
IdsOf(s) == {s[i].id : i \in DOMAIN s}

\* The first n elements of s (all of s when it is shorter).
Take(s, n) == SubSeq(s, 1, IF n < Len(s) THEN n ELSE Len(s))

\* Commit times never decrease from the back (oldest) to the front.
SortedByCommitTime(dq) ==
    \A i, j \in 1..Len(dq) : i < j => dq[j].commit_time <= dq[i].commit_time

=============================================================================
