---------------------------- MODULE OracleQueue ----------------------------
(***************************************************************************)
(* What the oracle path of the contract promises, without the deque: a     *)
(* set of queued commitments, each with the window it can be served in.    *)
(* A report completed at time t serves queued commitments whose window     *)
(* contains t (commit_time < t <= expired_time, the window the code        *)
(* implements), the oldest first and at most cap of them, and it may drop  *)
(* queued commitments whose window closed before t.  A commitment enters   *)
(* the queue once, under an id never used before, and leaves it once.      *)
(*                                                                         *)
(* Aurand implements this with the COMMITMENTS deque, the early-stopping   *)
(* scan get_commitments and the nonce-derived ids; Aurand.tla maps its     *)
(* state onto these variables and checks this Spec as a property.         *)
(***************************************************************************)
EXTENDS Naturals, FiniteSets

CONSTANTS
    Entries, \* the commitments that can be requested
    Times,   \* completion times a report may carry
    Caps     \* batch limits (configs.max_callback), all positive

ASSUME Caps \subseteq Nat \ {0}

VARIABLES
    queued,  \* set of [id, commit_time, expired_time] waiting for a report
    served,  \* ids a report has served
    expired  \* ids a report has dropped unserved

avars == <<queued, served, expired>>

QueuedIds == {c.id : c \in queued}

Open(t) == {c \in queued : c.commit_time < t /\ t <= c.expired_time}

Closed(t) == {c \in queued : c.expired_time < t}

Init ==
    /\ queued = {}
    /\ served = {}
    /\ expired = {}

\* A new commitment under a fresh id.
Enqueue(c) ==
    /\ c.id \notin QueuedIds \cup served \cup expired
    /\ queued' = queued \cup {c}
    /\ UNCHANGED <<served, expired>>

\* A report at t with batch limit cap: the batch is an oldest-first prefix
\* of the open commitments, all of them unless the limit is reached.
Report(t, cap) ==
    \E batch \in SUBSET Open(t), gone \in SUBSET Closed(t) :
        /\ Cardinality(batch) <= cap
        /\ Cardinality(batch) < cap => batch = Open(t)
        /\ \A c \in batch, d \in Open(t) \ batch : c.commit_time <= d.commit_time
        /\ queued' = queued \ (batch \cup gone)
        /\ served' = served \cup {c.id : c \in batch}
        /\ expired' = expired \cup {c.id : c \in gone}

Next ==
    \/ \E c \in Entries : Enqueue(c)
    \/ \E t \in Times, cap \in Caps : Report(t, cap)

Spec == Init /\ [][Next]_avars

=============================================================================
