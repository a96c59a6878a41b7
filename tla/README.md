# TLA+ models of the aurand contract

This directory models the CosmWasm contract `src/contracts/aurand` for the
TLC model checker. The contract hands out verifiable randomness in three steps:

- A user requests randomness.
- The contract records a *commitment* and asks the nois proxy for a beacon.
- The commitment is fulfilled by whichever of two paths comes first:
  - a registered bot submits a random.org report, which is signed and has a
    completion time inside the commitment's window;
  - the nois proxy calls back with the beacon.

## The system's parts and how they interact

The parts below are listed in the `components` of `PROJECT.json`.

| Part | Source | Role |
|---|---|---|
| Commitment Registry | `state.rs` 13-84 | `COMMITMENTS` is a deque: new requests are pushed at the front, and the oracle scan pops the oldest from the back. `PENDING_COMMITMENTS` is a map from id to commitment. `get_commitments` is the scan. `get_commitment` looks up and removes one entry for the beacon path. |
| Request lifecycle | `contract.rs` 331-639 | `execute_request_randomness` takes the fee, builds the commitment, pushes it to both stores, bumps the nonce and sends `GetNextRandomness` to the proxy. `execute_add_randomness` verifies the report, runs the scan, sends a callback for each matched commitment and pays the bot. `execute_nois_receive` handles the beacon path. |
| Bot registry | `contract.rs` 251-329 | Register, update and remove a bot. An update is rate-limited by `time_per_block + time_expired`. |
| Config store | `contract.rs` 46-249 | `instantiate` and the three owner-only setters. |
| Expansion engine | `utils.rs` 36-69 | Turns the random data into hex or int results. Not modelled. |
| Signature gate and decoding | `rsa_verify.rs`, `utils.rs` 99-112 | RSA verification, JSON decoding and date parsing. Not modelled. |
| Queries | `contract.rs` 641-716 | Read-only. The two list queries and the bot-info query are operators of `Aurand`. |

The host runs one message at a time, and a message that fails leaves no trace.
Concurrency therefore enters only through the order of transactions. These
actors interleave:

- users;
- bots;
- the owner, who changes configurations;
- the nois proxy, which may deliver late or twice;
- the block clock.

The hard cases are orders of those steps, not races inside a step.

## Modules

- **`CommitmentRegistry.tla`** holds the two stores and the pure operations on
  them.
  - A deque is a sequence, with index 1 at the front.
  - `PushFront` and `PushBack` are `push_front` and `push_back`.
  - `MapSave` and `MapRemove` are `Map::save` and `Map::remove`.
  - The loop of `get_commitments` is the RECURSIVE operator `ScanLoop`. Each
    test in the loop is a named operator:
    - `WindowNotOpen` is line 47;
    - `WindowClosed` is line 53;
    - `Unpend` is line 59;
    - `BatchFull` is line 62.
  - `GetCommitment` is `get_commitment`.
  - The module also holds the reference the scan is measured against
    (`InWindow`, `Eligible`, `Take`) and the spec's own window (`SpecWindow`).
- **`MCRegistryScan.tla`** checks the scan alone. Every registry the contract
  can hold, up to 3 entries, is an initial state:
  - the ids are distinct;
  - the deque is sorted;
  - the pending map holds any subset of the deque's entries, because the
    beacon path removes from the map only.

  The report time and the batch limit are also part of each initial state. The
  state never changes, so each invariant is a check of the operator over every
  input.
- **`Aurand.tla`** models the contract.
  - The variables are the storage items, plus three more:
    - `balance`, the contract's bounty-denom balance;
    - `nois_jobs`, the jobs the proxy accepted;
    - `fulfilled`, the number of callbacks sent per id and per path.
  - `dropped` is a history variable for the properties.
  - Each execute handler that changes state is one action. A handler that
    returns an error is a stuttering step, so the action's guard is the
    condition under which the handler returns `Ok`.
  - A `BankMsg::Send` is added with `SubMsg::new`, which replies never. A send
    the contract cannot pay therefore reverts the whole transaction, and the
    model makes it a guard (`BountyPayable`).
  - The nois sub-message replies always. If the proxy fails it, the request
    still commits but no job exists; this is `RequestRandomness` with
    `proxy_accepts = FALSE`.
  - `Tick` advances the block time.
  - A report's completion time ranges over `0..now + ClockSkew`.
  - `QueryGetPendingCommitments` and `QueryGetCommitments` are the list
    queries. The pending map is ranged in the byte order of its keys, which
    are hex SHA-256 hashes of sender and nonce. The constant `KeyRank` stands
    for that order.
  - A report is a record `[key, completion_time, signed]` (`Reports`). These
    are the decoded `hashedApiKey` and `completionTime`, and whether
    random.org signed the report.
    - `VerifyMessage` stands for the RSA check: it accepts exactly the signed
      reports.
    - Forged reports are enumerated and rejected.
    - Any report may be submitted by any registered bot, because a report is
      public once it is on chain.
    - `AddRandomness` checks, in the code's order:
      1. the sender is registered;
      2. the signature verifies;
      3. the report's key is the sender's stored key;
      4. the bounty can be paid.
  - `KeyOwner` says who holds each random.org api key. `oracle_payees` is a
    history of who was paid for which key.
  - `QueryBotInfo` is `query_bot_info`: the option it returns is a set of zero
    or one bot records. `KeysKnownTo(b)` is what bot `b` can put in a
    register or update message: the keys it holds, and every key the query
    publishes.
  - The record sets `ConfigsType`, `TimeConfigsType`, `NoisConfigsType`
    and `CommitmentType` translate the structs of `state.rs`.
  - `Oracle` instantiates `OracleQueue` with the refinement mapping:
    - `queued` is the set of deque entries;
    - `served` is the set of ids a report called back;
    - `expired` is the set of ids the scan dropped.
  - `Fairness` and `LiveSpec` add the fairness described below.
- **`OracleQueue.tla`** is the abstract specification of the oracle path. It
  has no deque, no pending map and no beacon. Its state is a set of queued
  commitments. A report at time `t` does two things:
  - it serves some of the commitments whose window contains `t`: an
    oldest-first batch, at most `cap` of them, and all of them when fewer than
    `cap` qualify;
  - it may drop commitments whose window has closed.

  Each id is queued once. The detailed model implements this spec when the
  deque stays sorted, which holds while `time_per_block` does not change.
- **`MCAurand.tla`** gives the model values and the small sets the cfgs
  substitute.

## Runs

| Run | cfg | Expect | What it shows |
|---|---|---|---|
| scan_reference | `MCRegistryScan.cfg` | pass | On every sorted registry of up to 3 entries, commit times 0..3, durations 0..2, report times 0..5 and limits 1..3, the scan serves exactly the oldest eligible commitments, up to the limit. Every popped entry ends up in exactly one of three places: back in the deque, in the batch, or dropped as expired. Pending loses exactly the batch. |
| scan_spec_window | `MCRegistryScanSpecWindow.cfg` | violation | The code's window is `commit < t <= expired`. The spec's is `commit <= t < expired`. |
| scan_zero_cap | `MCRegistryScanZeroCap.cfg` | violation | `max_callback = 0` still serves one commitment. |
| contract_safety | `MCAurand.cfg` | pass | All handlers, the clock and a duplicating proxy, interleaved. The registry stays well formed and sorted, a pending commitment has had no callback, and each path alone serves an id at most once. `StoresAgree`: spec 6 says the deque and the pending map change in lockstep; they differ in exactly two ways, ids the beacon served (still in the deque) and ids the scan dropped (still pending). |
| exactly_once | `MCAurandExactlyOnce.cfg` | violation | This is a real bug. After a beacon callback, a report serves the same commitment again. |
| dropped_terminal | `MCAurandDropped.cfg` | violation | A commitment the scan dropped as expired is still served by a late beacon. |
| pending_query_order | `MCAurandPendingOrder.cfg` | violation | The pending list comes in hashed-id order, not in insertion order (`KeyRank` fixes one of the two orders two hashes can have). |
| stale_fee_solvency | `MCAurandSolvent.cfg` | violation | Deposits may be exactly the required fee. Raising the fee after a request leaves a bounty the contract never collected, so the batch's bank send can fail and revert. |
| oracle_path | `MCAurandLive.cfg` | pass | `OracleQueueRefined`: `Aurand` implements `OracleQueue`. `QueueDrains`: under the fairness below, with no contract fee, every commitment whose window closes eventually leaves the deque. |
| queue_stall | `MCAurandStall.cfg` | violation | With fee 1, a commitment already served by the beacon is still in the deque. The next report owes its bounty again, and the contract cannot pay. That send fails, which reverts the whole scan, including the removal of expired entries. From then on every report fails. |
| bot_key_owner | `MCAurandBotKeys.cfg` | violation | Bot `b2` registers `b1`'s published key. It then submits `b1`'s report and is paid for it. |
| sorted_time_config | `MCAurandTimeConfig.cfg` | violation | Lowering `time_per_block` breaks the deque's order. |

`findings` in `PROJECT.json` records what each violation shows.

### Bounds

- **MCAurand** uses:
  - one user with two nonces, so the same sender can make two requests in one
    block (the case the nonce comment of `execute_request_randomness` is
    about);
  - one bot and one key;
  - two proxy addresses, so the "proxy changed" case is reachable;
  - fees {0,1};
  - batch limits {1,2};
  - `time_expired` {1,2}, with a fixed `time_per_block` of 1;
  - block times 0..3.

  That is enough for the cases the properties need:
  - two live commitments at once, from the same sender;
  - a batch limited to one of them;
  - an entry that expires before a report;
  - a beacon arriving before and after a report;
  - a proxy that redelivers;
  - a bounty the balance cannot pay (fee 1 after a nois-failed request).

  The run has about 390k distinct states and takes 25 s. The other `MCAurand`
  cfgs use two users with one nonce each.
- **MCAurandTimeConfig** also lets `time_per_block` be 0.
- **oracle_path** has fee 0, so a bounty never blocks a report. Its
  counterpart `queue_stall` has fees {0,1}. The run has about 180k states and
  checks both properties in about 1.5 min.
- **MCAurandBotKeys** has two bots and two keys, each key owned by one bot.

### Fairness

The safety runs need no fairness. `LiveSpec` adds three conditions:

- **`WF_vars(Tick)`.** The chain keeps producing blocks.
- **Weak fairness of `RegisterBot`.** Some bot registers while none is
  registered.
- **`SF_vars(ReportNow)`.** A registered bot eventually submits a current
  report whenever one would change the registry.
  - Strong fairness is needed because the owner may remove the bot, or the
    balance may fail to cover the bounty. Either can disable the report again
    and again.
  - The bots are paid to report, so this is the environment the contract is
    designed for. The contract itself has no timer that would guarantee it.

Users, the owner and the nois proxy get no fairness, because nothing obliges
them to act. In particular, nobody is assumed to send the contract funds.
Anyone may send funds to the contract, which could end a stall, and the model
leaves that action out.

## What is not modelled, and why

- **The randomness values, the keyed PRNG and `int_in_range`.** These come from
  the nois crate, which is not in this repository. They carry no control,
  except the panic noted in the hazards.
  Because the data is abstracted, the model cannot show that a bot may fetch
  several reports inside one window and submit the one it prefers.
- **RSA PKCS#1 v1.5 and SHA-512.** They are out of TLC's reach. `VerifyMessage`
  is the boolean they compute.
- **Malformed JSON and dates.** A parse error only rejects the call, like a
  forged signature.
- **Funds sent to the contract outside its handlers.**
- **Monikers, denoms and gas limits.** They do not change control.
- **The config and count queries.** They only copy stored fields, and no
  property reads them. `query_configs` leaves `max_callback` out of the
  "full config snapshot" of spec 6.
- **Whether a user callback succeeds.** `reply` returns `Ok` for every reply.
  A callback that runs out of `callback_limit_gas` is swallowed, though its
  commitment is consumed and its bounty paid. The model counts callbacks
  dispatched, which is what spec 4.4 promises.
- **msg.rs, error.rs and the schema binary.** These are declarations.
- **Liveness of the beacon path.** Under a fair proxy, "a pending commitment
  whose job the current proxy holds is eventually unpended" holds only
  because that fairness forces the very step the property asks for. Without
  it, an expired commitment whose job never comes stays in
  `PENDING_COMMITMENTS` for ever. `StoresAgree` pins down exactly which
  entries these are. A liveness run that shows the leak is future work.
- **A type invariant.** The record sets are used in `Init` and in the
  refinement mapping. A separate type invariant would only restate the
  guards, so no run checks one.
- **The aura-test-tube test harness.**

## Plan for later work

1. **Out-of-order deque.** A liveness run would show that after
   `time_per_block` is lowered, an in-window commitment hidden behind a
   not-yet-open one expires unserved. `OracleQueueRefined` fails there too.
2. **Data requests.** Add an int request with `min > max`. Treat the nois
   crate's panic as a failing step, and show that one such commitment blocks
   the others in its batch.
3. **The full lifecycle.** Write an abstract spec where each id moves
   requested → fulfilled | expired exactly once, across both paths. The
   `exactly_once` and `dropped_terminal` findings show the code does not
   implement it. A refinement run could show where it does, for example with
   the beacon path alone.
4. **Bot update cooldown.** Check the scenario of spec §8, including
   `SetTimeConfigs` changing the cooldown between two updates.
