-------------------------------- MODULE Aurand --------------------------------
(***************************************************************************)
(* The aurand contract, contracts/aurand/src/contract.rs: every execute    *)
(* handler that changes state is one action, together with the two        *)
(* actors outside the contract that drive it: the block clock and the nois *)
(* proxy, which calls NoisReceive back for the jobs it accepted.           *)
(*                                                                         *)
(* The host runs one message at a time and a failing message leaves no     *)
(* trace: a call rejected by a guard (Unauthorized, a short fee, an        *)
(* unregistered bot, a bad signature, ...) is a stuttering step, so each   *)
(* action's guard is the conjunction of the conditions under which the    *)
(* handler returns Ok.  A BankMsg::Send added with SubMsg::new replies     *)
(* never, so a bank send the contract cannot pay fails the whole           *)
(* transaction: it is a guard too.  Sub-messages with ReplyOn::Always      *)
(* (the nois request and the user callbacks) may fail without undoing the *)
(* handler's own writes.                                                   *)
(*                                                                         *)
(* Abstracted data: a commitment id is <<sender, nonce>> (make_commit_id   *)
(* hashes exactly these two); moniker, request_id, data_request and the    *)
(* randomness itself only flow into messages; the bounty denom is the only *)
(* denom the contract holds.  The RSA gate is a boolean the bot cannot     *)
(* forge: only reports random.org signed are enumerated, a forged one is   *)
(* rejected with RSAVerificationFail and stutters.                         *)
(***************************************************************************)
EXTENDS CommitmentRegistry, Integers, FiniteSets

CONSTANTS
    Users,          \* accounts that request randomness
    BotAccounts,    \* accounts that register as bots
    Keys,           \* hashed random.org api keys
    ProxyAddrs,     \* addresses the nois proxy may be configured to
    Fees,           \* values of configs.fee
    NoisFees,       \* values of nois_configs.nois_fee
    MaxCallbacks,   \* values of configs.max_callback
    TimeExpireds,   \* values of time_configs.time_expired
    TimePerBlocks,  \* values of time_configs.time_per_block
    Deposits,       \* amounts of the bounty denom a request attaches
    MaxNonce,       \* bound: requests per user
    MaxTime,        \* bound: last block time
    ClockSkew,      \* how far a report's completionTime may run ahead of
                    \* the block time
    KeyOwner,       \* Keys -> BotAccounts: who holds the random.org api
                    \* key whose hash this is
    KeyRank         \* Ids -> Nat: the byte order of the hex sha256 keys
                    \* make_commit_id gives PENDING_COMMITMENTS

ASSUME MaxNonce \in Nat /\ MaxTime \in Nat /\ ClockSkew \in Nat

VARIABLES
    now,            \* env.block.time, in seconds
    configs,        \* CONFIGS: [fee, max_callback]
    time_configs,   \* TIME_CONFIGS: [time_expired, time_per_block]
    nois_configs,   \* NOIS_CONFIGS: [nois_proxy, nois_fee]
    bots,           \* BOTS: address -> [hashed_api_key, last_update]
    nonces,         \* NONCES: user -> next nonce (an absent key reads 0)
    commitments,    \* COMMITMENTS deque
    pending,        \* PENDING_COMMITMENTS map
    balance,        \* the contract's balance in the bounty denom
    nois_jobs,      \* jobs the nois proxy accepted: [proxy, job_id]
    fulfilled,      \* per id, the callbacks sent by each path
    dropped,        \* history: ids the scan dropped as expired
    oracle_payees   \* history: [bot, key] of every oracle bounty payment

vars == <<now, configs, time_configs, nois_configs, bots, nonces,
          commitments, pending, balance, nois_jobs, fulfilled, dropped,
          oracle_payees>>

Ids == Users \X (0..MaxNonce - 1)

(***************************************************************************)
(* The stored records of state.rs, restricted to the fields the control    *)
(* reads: Configs, TimeConfigs, NoisConfigs, Bot and Commitment.           *)
(***************************************************************************)
ConfigsType == [fee : Fees, max_callback : MaxCallbacks]

TimeConfigsType == [time_expired : TimeExpireds, time_per_block : TimePerBlocks]

NoisConfigsType == [nois_proxy : ProxyAddrs, nois_fee : NoisFees]

CommitmentType ==
    [id : Ids,
     commit_time : 0..(MaxTime + Max(TimePerBlocks)),
     expired_time : 0..(MaxTime + Max(TimePerBlocks) + Max(TimeExpireds))]

Init ==
    /\ now = 0
    /\ configs \in ConfigsType
    /\ time_configs \in TimeConfigsType
    /\ nois_configs \in NoisConfigsType
    /\ bots = [b \in {} |-> 0]
    /\ nonces = [u \in Users |-> 0]
    /\ commitments = <<>>
    /\ pending = [i \in {} |-> 0]
    /\ balance = 0
    /\ nois_jobs = {}
    /\ fulfilled = [i \in Ids |-> [oracle |-> 0, nois |-> 0]]
    /\ dropped = {}
    /\ oracle_payees = {}

(***************************************************************************)
(* Owner-only configuration (execute_set_configs, execute_set_time_configs,*)
(* execute_set_nois_configs).  A caller other than OWNER gets Unauthorized.*)
(***************************************************************************)
SetConfigs(fee, max_callback) ==
    /\ configs' = [fee |-> fee, max_callback |-> max_callback]
    /\ UNCHANGED <<now, time_configs, nois_configs, bots, nonces, commitments,
                   pending, balance, nois_jobs, fulfilled, dropped, oracle_payees>>

SetTimeConfigs(time_expired, time_per_block) ==
    /\ time_configs' = [time_expired |-> time_expired, time_per_block |-> time_per_block]
    /\ UNCHANGED <<now, configs, nois_configs, bots, nonces, commitments,
                   pending, balance, nois_jobs, fulfilled, dropped, oracle_payees>>

SetNoisConfigs(nois_proxy, nois_fee) ==
    /\ nois_configs' = [nois_proxy |-> nois_proxy, nois_fee |-> nois_fee]
    /\ UNCHANGED <<now, configs, time_configs, bots, nonces, commitments,
                   pending, balance, nois_jobs, fulfilled, dropped, oracle_payees>>

(***************************************************************************)
(* Bot registry (execute_register_bot, execute_update_bot,                 *)
(* execute_remove_bot).                                                    *)
(***************************************************************************)
BotRecord(key) == [hashed_api_key |-> key, last_update |-> now]

RegisterBot(sender, hashed_api_key) ==
    /\ sender \notin DOMAIN bots
    /\ bots' = MapSave(bots, sender, BotRecord(hashed_api_key))
    /\ UNCHANGED <<now, configs, time_configs, nois_configs, nonces, commitments,
                   pending, balance, nois_jobs, fulfilled, dropped, oracle_payees>>

\* bound_time = block time - time_per_block - time_expired; the update is
\* refused (ToManyAction) while bound_time < last_update.
UpdateBot(sender, hashed_api_key) ==
    /\ sender \in DOMAIN bots
    /\ ~(now - time_configs.time_per_block - time_configs.time_expired
            < bots[sender].last_update)
    /\ bots' = MapSave(bots, sender, BotRecord(hashed_api_key))
    /\ UNCHANGED <<now, configs, time_configs, nois_configs, nonces, commitments,
                   pending, balance, nois_jobs, fulfilled, dropped, oracle_payees>>

RemoveBot(bot_addr) ==
    /\ bots' = MapRemove(bots, bot_addr)
    /\ UNCHANGED <<now, configs, time_configs, nois_configs, nonces, commitments,
                   pending, balance, nois_jobs, fulfilled, dropped, oracle_payees>>

(***************************************************************************)
(* execute_request_randomness (reached from RequestHexRandomness and       *)
(* RequestIntRandomness; num is within MIN_NUM..MAX_NUM, other counts are  *)
(* rejected).  The user attaches deposit; at least fee + nois_fee is       *)
(* required and all of it stays with the contract.  The commitment enters  *)
(* both stores, the nonce moves on, and a GetNextRandomness sub-message    *)
(* carrying nois_fee goes to the configured proxy.  That sub-message       *)
(* replies always: if the proxy fails it, its transfer is undone and no   *)
(* job exists, but the commitment stays.                                   *)
(***************************************************************************)
\* A mutation of NextNonce: the nonce is never incremented.
NextNonceStuck(nonce) == nonce

\* nonce += 1 after a successful request.
NextNonce(nonce) == nonce + 1

RequestRandomness(sender, deposit, proxy_accepts) ==
    LET total_fee    == configs.fee + nois_configs.nois_fee
        nonce        == nonces[sender]
        commit_time  == now + time_configs.time_per_block
        commitment   == [id |-> <<sender, nonce>>,
                         commit_time |-> commit_time,
                         expired_time |-> commit_time + time_configs.time_expired]
        nois_fee     == IF proxy_accepts THEN nois_configs.nois_fee ELSE 0
    IN
    /\ nonce < MaxNonce
    /\ deposit >= total_fee
    /\ commitments' = PushFront(commitments, commitment)
    /\ pending' = MapSave(pending, commitment.id, commitment)
    /\ nonces' = [nonces EXCEPT ![sender] = NextNonce(nonce)]
    /\ balance' = balance + deposit - nois_fee
    /\ nois_jobs' = IF proxy_accepts
                    THEN nois_jobs \cup {[proxy |-> nois_configs.nois_proxy,
                                          job_id |-> commitment.id]}
                    ELSE nois_jobs
    /\ UNCHANGED <<now, configs, time_configs, nois_configs, bots, fulfilled, dropped, oracle_payees>>

(***************************************************************************)
(* execute_add_randomness: a registered bot submits a random.org report.  *)
(* A report is [key, completion_time, signed]: the hashedApiKey and the    *)
(* completionTime decoded from it, and whether random.org signed it.  A    *)
(* report is public once any bot has submitted it, and anyone may submit   *)
(* it again.  The call is refused unless the sender is registered, the     *)
(* signature verifies and the report's key is the sender's.               *)
(* get_commitments selects the batch; each commitment of it gets one      *)
(* callback and the sender one bounty of configs.fee, paid in one          *)
(* BankMsg::Send when the total is not zero.                               *)
(***************************************************************************)
Reports == [key : Keys, completion_time : 0..(now + ClockSkew), signed : BOOLEAN]

\* verify_message: the PKCS#1 v1.5 SHA-512 signature check against the
\* random.org public key hard-coded in rsa_verify.rs accepts exactly the
\* reports random.org signed.
VerifyMessage(report) == report.signed

\* A BankMsg::Send of amount out of the contract's balance succeeds.
BountyPayable(amount) == amount = 0 \/ balance >= amount

Served(f, batch, path) ==
    [i \in DOMAIN f |-> IF i \in IdsOf(batch)
                        THEN [f[i] EXCEPT ![path] = @ + 1] ELSE f[i]]

AddRandomness(sender, report) ==
    LET res          == GetCommitments(commitments, pending,
                                       report.completion_time,
                                       configs.max_callback)
        total_bounty == configs.fee * Len(res.matched)
    IN
    /\ sender \in DOMAIN bots
    /\ VerifyMessage(report)
    /\ report.key = bots[sender].hashed_api_key
    /\ BountyPayable(total_bounty)
    /\ commitments' = res.queue
    /\ pending' = res.pending
    /\ fulfilled' = Served(fulfilled, res.matched, "oracle")
    /\ dropped' = dropped \cup res.dropped
    /\ balance' = balance - total_bounty
    /\ oracle_payees' = IF total_bounty = 0 THEN oracle_payees
                        ELSE oracle_payees \cup {[bot |-> sender, key |-> report.key]}
    /\ UNCHANGED <<now, configs, time_configs, nois_configs, bots, nonces, nois_jobs>>

(***************************************************************************)
(* execute_nois_receive: the proxy delivers the randomness of a job it     *)
(* accepted.  The sender must be the proxy configured now.  A job whose    *)
(* commitment is no longer pending is answered Ok without effect (a        *)
(* stuttering step).  Otherwise the commitment leaves the pending map -    *)
(* not the deque - its owner gets the callback and OWNER the bounty.       *)
(* A job stays in nois_jobs: the proxy may deliver it again.               *)
(***************************************************************************)
NoisReceive(job) ==
    LET got == GetCommitment(pending, job.job_id)
    IN
    /\ job.proxy = nois_configs.nois_proxy
    /\ got.found
    /\ BountyPayable(configs.fee)
    /\ pending' = got.pending
    /\ fulfilled' = Served(fulfilled, <<got.commitment>>, "nois")
    /\ balance' = balance - configs.fee
    /\ UNCHANGED <<now, configs, time_configs, nois_configs, bots, nonces,
                   commitments, nois_jobs, dropped, oracle_payees>>

(***************************************************************************)
(* Queries (read-only).  query_get_pending_commitments walks              *)
(* PENDING_COMMITMENTS with range_raw in ascending key order, i.e. in the  *)
(* order of the hashed ids, and takes at most limit entries;               *)
(* query_get_commitments iterates the deque from its front (newest         *)
(* first) and takes at most limit entries.                                 *)
(***************************************************************************)
QueryGetPendingCommitments(limit) ==
    LET keys == SetToSortSeq(DOMAIN pending, LAMBDA a, b : KeyRank[a] < KeyRank[b])
    IN  Take([k \in 1..Len(keys) |-> pending[keys[k]]], limit)

QueryGetCommitments(limit) == Take(commitments, limit)

\* query_bot_info: Ok(Some(record)) for a registered bot, Ok(None) for any
\* other address; the option is the set of its zero or one records.
QueryBotInfo(address) == IF address \in DOMAIN bots THEN {bots[address]} ELSE {}

\* The api keys a bot can put in a register or update message: the keys it
\* holds at random.org, and every key query_bot_info publishes.
KeysKnownTo(b) ==
    {k \in Keys : KeyOwner[k] = b}
        \cup UNION {{r.hashed_api_key : r \in QueryBotInfo(a)} : a \in BotAccounts}

\* A new block: the block time advances.
Tick ==
    /\ now < MaxTime
    /\ now' = now + 1
    /\ UNCHANGED <<configs, time_configs, nois_configs, bots, nonces, commitments,
                   pending, balance, nois_jobs, fulfilled, dropped, oracle_payees>>

Next ==
    \/ \E f \in Fees, m \in MaxCallbacks : SetConfigs(f, m)
    \/ \E te \in TimeExpireds, tpb \in TimePerBlocks : SetTimeConfigs(te, tpb)
    \/ \E p \in ProxyAddrs, nf \in NoisFees : SetNoisConfigs(p, nf)
    \/ \E b \in BotAccounts : \E k \in KeysKnownTo(b) : RegisterBot(b, k)
    \/ \E b \in BotAccounts : \E k \in KeysKnownTo(b) : UpdateBot(b, k)
    \/ \E b \in BotAccounts : RemoveBot(b)
    \/ \E u \in Users, d \in Deposits, ok \in BOOLEAN : RequestRandomness(u, d, ok)
    \/ \E b \in BotAccounts, r \in Reports : AddRandomness(b, r)
    \/ \E j \in nois_jobs : NoisReceive(j)
    \/ Tick

Spec == Init /\ [][Next]_vars

(***************************************************************************)
(* Properties.                                                             *)
(***************************************************************************)

\* The ids that have been handed out: <<u, n>> for every nonce n below u's.
Issued == {i \in Ids : i[2] < nonces[i[1]]}

Callbacks(i) == fulfilled[i].oracle + fulfilled[i].nois

\* A commitment that is still pending has had no callback: both paths
\* remove it from PENDING_COMMITMENTS in the same step that sends its
\* callback, so neither a later beacon delivery nor a later report can
\* serve a commitment that was served already and is still pending.
PendingNeverServed == \A i \in DOMAIN pending : Callbacks(i) = 0

\* Each path on its own serves a commitment at most once: the beacon path
\* however often the proxy delivers the job (spec 4.4, duplicate or late
\* callbacks are a no-op), the oracle path however many reports arrive.
EachPathServesOnce ==
    \A i \in Ids : fulfilled[i].oracle <= 1 /\ fulfilled[i].nois <= 1

\* The deque holds issued commitments, each id once, and every pending
\* entry is an issued commitment under its own id: two requests never
\* share an id however they interleave (the nonce comment in
\* execute_request_randomness).
RegistryWellFormed ==
    /\ \A i, j \in 1..Len(commitments) :
           i # j => commitments[i].id # commitments[j].id
    /\ IdsOf(commitments) \subseteq Issued
    /\ DOMAIN pending \subseteq Issued
    /\ \A i \in DOMAIN pending : pending[i].id = i

\* Spec 6: COMMITMENTS and PENDING_COMMITMENTS are mutated in lockstep.
\* The code keeps them apart in exactly two ways: the beacon path removes
\* from the pending map only (get_commitment), and the scan drops an
\* expired entry from the deque only (get_commitments).  So a pending id
\* missing from the deque is one the scan dropped and the beacon has not
\* served, and a deque entry missing from the pending map is one the
\* beacon served; an entry lost or kept by a push or pop shows up here.
StoresAgree ==
    /\ DOMAIN pending \ IdsOf(commitments) = {i \in dropped : fulfilled[i].nois = 0}
    /\ IdsOf(commitments) \ DOMAIN pending
           = {i \in IdsOf(commitments) : fulfilled[i].nois > 0}

\* Spec 3: the deque is sorted by commit time at every observable instant,
\* which the early stop of get_commitments relies on.
SortedDeque == SortedByCommitTime(commitments)

\* Spec 8: exactly-once fulfillment, no commitment id ever produces two
\* fulfillment messages, across both randomness paths.
ExactlyOnce == \A i \in Ids : Callbacks(i) <= 1

\* Spec 4.3 rule 2 and 4.4: a commitment the scan drops as expired is in
\* its terminal state, no fulfillment message is sent for it afterwards.
DroppedStaysUnserved ==
    [][\A i \in dropped : Callbacks(i)' = Callbacks(i)]_vars

\* Spec 6: the pending-commitments query lists the pending commitments in
\* ascending insertion order; of two listed commitments that are both
\* still in the deque, the older one (nearer the deque's back) comes first.
PendingQueryInsertionOrder ==
    LET q    == QueryGetPendingCommitments(Len(commitments))
        all  == QueryGetCommitments(Len(commitments))
        pos(c) == CHOOSE k \in 1..Len(all) : all[k] = c
    IN  \A i, j \in 1..Len(q) :
            (i < j /\ q[i] \in ToSet(all) /\ q[j] \in ToSet(all))
                => pos(q[i]) > pos(q[j])

\* The commitments still owed a callback: in either store, never served.
Owed == {i \in IdsOf(commitments) \cup DOMAIN pending : Callbacks(i) = 0}

\* The fees the contract collected cover the bounties it still owes: every
\* unserved commitment can be paid configs.fee when a bot or the proxy
\* serves it.  If not, the bounty BankMsg::Send of execute_add_randomness
\* fails and reverts the whole batch, so those commitments expire unserved.
Solvent == balance >= configs.fee * Cardinality(Owed)

\* Spec 4.4, oracle fulfillment: the check of the report's hashedApiKey
\* against the sender's stored key "prevents one bot from spending
\* another's submitted data", so every oracle bounty goes to the bot that
\* holds the api key the report was generated with.
BountyToKeyOwner == \A p \in oracle_payees : KeyOwner[p.key] = p.bot

(***************************************************************************)
(* Refinement: the oracle path implements OracleQueue.  The queue is the   *)
(* set of deque entries, served the ids a report has called back, expired  *)
(* the ids the scan dropped.  Every other action (requests excepted) is a  *)
(* stuttering step of the abstract queue: the beacon path touches only the *)
(* pending map.                                                            *)
(***************************************************************************)
Oracle == INSTANCE OracleQueue WITH
    Entries <- CommitmentType,
    Times   <- 0..(MaxTime + ClockSkew),
    Caps    <- MaxCallbacks,
    queued  <- ToSet(commitments),
    served  <- {i \in Ids : fulfilled[i].oracle > 0},
    expired <- dropped

\* The deque, its early-stopping scan and the nonce-derived ids implement
\* the oracle queue: a report serves an oldest-first prefix of the
\* commitments whose window contains its time, as many as max_callback
\* allows, and drops only commitments whose window has closed.
OracleQueueRefined == Oracle!Spec

(***************************************************************************)
(* Liveness.  Blocks keep coming (Tick is weakly fair).  Bots are paid to  *)
(* report, so some bot registers while none is (weakly fair) and a         *)
(* registered bot eventually submits a current report whenever one would   *)
(* change the registry (strongly fair: removing the bot, or a balance that *)
(* cannot pay the bounty, can disable it again and again).  Users, the     *)
(* owner and the nois proxy get no fairness: nothing obliges them to act.  *)
(***************************************************************************)
ReportNow ==
    \E b \in DOMAIN bots :
        AddRandomness(b, [key |-> bots[b].hashed_api_key,
                          completion_time |-> now, signed |-> TRUE])

Fairness ==
    /\ WF_vars(Tick)
    /\ WF_vars(\E b \in BotAccounts : \E k \in KeysKnownTo(b) : RegisterBot(b, k))
    /\ SF_vars(ReportNow)

LiveSpec == Spec /\ Fairness

\* Spec 4.3 and 5: expiry is the only cancellation, and an expired
\* commitment is removed by the next scan; so eventually the deque holds
\* no commitment whose window has closed.
QueueDrains ==
    <>[](\A k \in 1..Len(commitments) : now <= commitments[k].expired_time)

=============================================================================
