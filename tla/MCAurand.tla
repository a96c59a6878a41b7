------------------------------- MODULE MCAurand -------------------------------
(***************************************************************************)
(* Aurand instantiated for TLC: two users, one bot, one api key, two      *)
(* proxy addresses, and configuration values on both sides of the          *)
(* boundaries the handlers test (a zero and a non-zero fee, a batch of 1   *)
(* and 2).                                                                 *)
(***************************************************************************)
EXTENDS Aurand

CONSTANTS u1, u2, b1, b2, k1, k2, p1, p2

MCUsers == {u1, u2}

\* One user, so that MaxNonce 2 gives the same user two requests.
MCUsersOne == {u1}
MCBots == {b1}
MCKeys == {k1}
MCKeyOwner == [k \in MCKeys |-> b1]
\* Two bots, each holding its own random.org api key.
MCBotsTwo == {b1, b2}
MCKeysTwo == {k1, k2}
MCKeyOwnerTwo == (k1 :> b1) @@ (k2 :> b2)
\* No contract fee: a bounty never has to be paid.
MCFeesZero == {0}
MCProxies == {p1, p2}
\* One proxy address: the beacon path is a stuttering step of the oracle
\* queue, so which proxy it answers to does not matter there.
MCProxiesOne == {p1}
MCFees == {0, 1}
MCNoisFees == {1}
MCMaxCallbacks == {1, 2}
MCTimeExpireds == {1, 2}
\* time_per_block held at one value: SetTimeConfigs may still change
\* time_expired.  MCAurandTimeConfig lets it change.
MCTimePerBlocksFixed == {1}
MCTimePerBlocks == {0, 1}
MCDeposits == {2}
\* A deposit of exactly the required fee and one above it.
MCDepositsExact == {1, 2}
\* The hex sha256 keys of u2's commitments sort before u1's: one of the
\* two orders the hashes of two ids can have.
MCKeyRank == [i \in Ids |-> IF i[1] = u2 THEN i[2] ELSE MaxNonce + i[2]]

=============================================================================
