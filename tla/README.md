# A verification of fogo-yield

TLA+ models of fogo-yield, the TLC instances that check them and TLAPS proofs
about them. `PROJECT.json` holds the machine-readable index: components, runs,
mutants, the map from definitions to source lines, findings, hazards, theorems.

```
tlc -workers 2 -config RelayerCustody.cfg MCRelayer     # any run of PROJECT.json
tlapm RelayerProofs.tla                                  # any *Proofs / *Theorems module
```

## 1. The system

A user on FOGO signs an intent. The **intent-transfer program** (FOGO) locks the
tokens in NTT, addressed to an *inbox* PDA on Solana that is derived from the
user's wallet and from the minimum output the user signed. The **relayer
program** (Solana) receives the transfer, swaps it through any router, and
NTT-sends the output back to the wallet. Its instructions are permissionless; a
**cranker** daemon finds the transfers and submits them. A pair's **governance**
sets its fees and fee vault. The **SDK** builds instructions and the **CLI**
wraps it for operators.

| Component | State | Operations | Interacts with |
|---|---|---|---|
| relayer: flows (`programs/relayer`) | a `Flow` account per inbound message; one custody token account per mint, owned by one PDA shared by all pairs and flows | `receive`, `swap`, `send`, `refund` | NTT manager (CPI), any router (CPI with the PDA's signature), governance's fees |
| relayer: governance | `GlobalConfig` (admin), `PairConfig` (authority, vault, fees, staged raises) | `bootstrap`, `set_admin`, `accept_admin`, `initialize`, `configure`, `accept_authority` | flows read the live fees and the vault |
| NTT manager (external) | inbox item per message: absent, redeemed, released | `redeem`, `release_inbound_unlock`, `transfer_lock` | anybody may drive it |
| cranker: discovery (`relayer/enumerate.ts`, `state/watermarks.ts`, `utils/wormholescan-pages.ts`, `state/checkpoint.ts`) | watermark per emitter, checkpoint file, terminal cache | incremental scan, backstop scan, flush, restart | Wormholescan, Solana RPC, dispatcher |
| cranker: gate (`state/flow-state.ts`) | bounded map: in flight, cooling down, poisoned | `beginIfReady`, `recordSuccess`, `recordError`, `clearBackoff` | scans, SIGUSR1 |
| cranker: daemon (`daemon.ts`, `utils/wake-flag.ts`) | wake flag, heartbeat, backoff | scan loop, watchdog | process supervisor |
| cranker: legs (`relayer/{receive,swap,send,refund}.ts`, `refund-scan.ts`, `prepare-transceiver-message.ts`, `race-classifier.ts`) | cache of terminal flows, cache of recovered wallets, errors in a row | read chain state, submit one instruction, classify its failure | relayer program, NTT, OnRe, other crankers |
| cranker: bridge legs (`bridge/*`) | shares the watermark store | probe, plan and redeem on the destination | NTT on FOGO, generic relayers |
| intent-transfer program | nonces, fee config, registered routes | intent verification, intra-chain and bridge transfers | NTT on FOGO |
| SDK, CLI | none | builders, codecs, pricing | all of the above |

What makes each correct:

- flows: the shared accounts hold what the open flows are owed, the dust of closed
  ones and nothing else; a flow pays its own wallet, above the signed floor less the
  capped fee, all but what NTT trims; every flow can leave;
- governance: no fee a user had no notice of; the last proposal is the one that
  counts; no account is custody of two pairs; stale proposals are void;
- discovery: every VAA is dispatched in the end, whatever fails on the way;
- gate: one task per flow, quarantine exactly at the threshold, no flow dropped;
- daemon: no signal lost, the loop left within the shutdown deadline, no scan for
  ever, no healthy process killed;
- legs: acting on a stale read costs a failed transaction at most, no flow is
  written off before it existed, a lost race is not held against a flow, and
  every intent settles, as far as the sweeps that are turned on reach;
- bridge legs: no transaction for another chain or an unwired manager, and a VAA that
  stays in the paging window is released in the end;
- prices: the floor a wallet signs is one that OnRe's own arithmetic reaches while
  the price stays within the signed tolerance;
- intent-transfer (not modelled): an intent is executed at most once, by its
  signer's will, for the amounts and fees signed.

What is hard here: many flows and pairs share a handful of token accounts while
an arbitrary program runs with the owner's signature; every instruction may be
submitted by anybody, in any order and more than once; NTT can be driven from
outside between any two of them and may delay a release; fees change under open
flows; on the cranker side, an index that is out of order, reads that fail one
by one, an enumeration that outlives its timeout, restarts from a checkpoint
that knows nothing of what was dispatched, tasks that end without an outcome,
reads that are stale when the transaction they led to executes, transactions
that land after their sender has given up, pages that list a VAA twice, and timers
(sleep, watchdog, shutdown deadline, the supervisor's grace period) that race a scan
which may hang.

## 2. Modules

| Module | Role |
|---|---|
| `UnitSums`, `UnitSumsTheorems` | sums over finite functions without recursion; the lemmas about them, and about extremal elements of finite sets, that the proofs share |
| `FlowEscrow` | what the relayer promises: one private escrow per message |
| `Relayer` | the four flow instructions over shared custody, NTT and the router as environment; refines `FlowEscrow` |
| `MCRelayer` | its TLC instances |
| `RelayerProofs` | its theorems |
| `PairConfig`, `MCPairConfig`, `PairConfigProofs` | governance, its instances, its theorems |
| `Watermarks` | the watermark of an emitter, its paging floor and window; used by the next module and by `BridgeRedeem` |
| `Enumerator`, `EnumeratorProofs` | how the cranker finds VAAs: pages, watermark, backstop, checkpoint; its theorems |
| `FlowTracker`, `FlowTrackerProofs` | which of the listed flows are dispatched: the gate, its bounded map, the worker pool; its theorems |
| `Daemon`, `MCDaemon`, `DaemonProofs` | the loop around the scans: legs, wake flag, backoff, watchdog, shutdown; its instances, its theorems |
| `Pricing` | the SDK's arithmetic: OnRe's price vector and conversions, the signed floor |
| `Cranker`, `MCCranker`, `CrankerProofs` | the legs of one cranker composed with `Relayer` and `Pricing`, beside other relayers and crankers; its instances, its theorems |
| `BridgeRedeem`, `MCBridgeRedeem`, `BridgeRedeemProofs` | a bridge leg: harvest, plan, redeem and release on FOGO; its instances, its theorems |

### Relayer

A Solana instruction is atomic, so each is one action; `receive` has three: its
own redeem and release (`ReceiveRedeem`), the same with NTT's release delayed
(`ReceiveDelayed`; the code passes `revert_on_delay = false`), and the skip path
for an inbox item that is already released (`ReceiveSkip`). `NttRedeem` and
`NttRelease` are the generic NTT relayer. A message is a model value; `Transfer`
gives its token, the inbox (wallet and floor) it is addressed to, its amount and
whether an intent program sent it. `parked` are the inbox token accounts, `ata`
the custody accounts, `feeVault` the vaults.

`Swap(m, passed, consumed, out)` lets the router be any program: it draws any
amount from the input account, returns any output of `RouterOutputs`, and
empties every other custody account it was passed. What constrains it is what
the handler checks, each check a named definition (`SwapAccountsAllowed`,
`InputConsumed`, `FloorMet`) so that it can be mutated. Token accounts of a pair
are its own (`Token == Pair \X Side`); that this is so is
`PairConfig!CustodySeparate`. The fees move freely within `FeeChoices`
(`SetFees`); `PairConfig` has the rules for that.

`send` and `refund` end in `BridgeBack`. NTT carries at most 8 decimals: its
`transfer_lock` takes `applyNttTrim(amount)` from the custody account, while the flow
is closed for its whole amount. The remainder, below `TrimUnit` of the token (10 for
the 9-decimal ONyc, 1 for USDC), stays in the shared account and belongs to nobody.
An inbound amount has been trimmed by the sending side, so only the output of a
deposit, whose fee is not a multiple of the unit either, leaves any. What NTT does with
an amount below the unit is not to be seen in the repository; the model has it send
zero. History variables: `gifts` (tokens sent unasked), `dust` (what was trimmed),
`opened`, `drawn`, `paid`.

Amounts are natural numbers: every u64 operation of the code is checked
(`checked_add`, `checked_sub`, a u128 product), so an overflow aborts the
instruction and changes nothing.

### PairConfig

One action per governance instruction. `configure` is the composition the
handler makes: `Promote`, then `Propose` for each leg, then vault and authority,
then `Valid`. `Lower` and `Raise` are the two branches of `propose_fee_change`.
History variables: `proposer`, `asked` and `notice` (what a user could see of
the fees when a flow was received). A staged raise becomes live only inside a
later `configure`.

### Enumerator

One emitter (each has its own watermark key). `visible` is Wormholescan's list,
`Page(k)` its k-th page at the moment it is asked for, so pages shift when a VAA
is indexed. A scan fetches a page, reads its VAAs (one await for the page, then
a synchronous loop that records them), checks the stop condition and goes on.
`Timeout` is `withTimeout`: the daemon goes on, the enumeration goes on too, its
list is dropped and its watermark updates are not. `Restart` reloads the last
`Save`, or nothing when the file is lost. Faults are drawn from `FaultKinds`, at
most `MaxFaults` of them.

### FlowTracker

`state` and `older` are the tracker's `BoundedMap`: its values, and the insertion order
of its keys as a relation, by which the oldest makes room. A deadline is kept as the
time left to it, which `Tick` runs down. `scanAndAdvance` is `StartScan` (any listing of
open flows, repetitions included), `BeginIfReady` for one flow after the other, and the
tasks that `Take` hands to workers. The admission loop of the code has no await, so
neither the clock nor a signal handler runs while `list` is non-empty. A task ends as
the code's tasks do: after the last leg of the flow, with a `noop`, an error, or a throw
that records nothing. `Advanced` is one leg of the in-task chain. `Restart` stops the
process anywhere, shutdown included. The history variable `fails` counts failed
dispatches since the flow's last clean slate.

### Daemon

`pc` says whether `runDaemon` awaits its scan or its sleep, or has returned. A scan is
one promise per leg (`Settle`, `Hang`); `EndScan` is everything from the end of the race
to the next await, `Wake` the start of the next scan. `WakeFlag` is modelled with its
resolver, which a sleep that ends by its timer leaves behind: `armed` says that one is
stored, and `Signal` resolves the sleep's promise only if the sleep is the one waiting
on it. Time is discrete. The event loop serves timers and settled promises before time
passes (`Tick` is disabled while one is due), and the watchdog may look at any moment
within its interval. `Budget` is the longest a leg takes when none of its calls hangs;
`MayHang` allows calls that never return, since not every call of the legs is under a
timeout. `jitter` draws from an interval, of which the model has the ends and the
middle.

`Shutdown` is the return of `runDaemon`: the watchdog is cleared and the scan, if it
did not end in time, is abandoned. `main` then flushes the checkpoint, stops the
metrics server and calls nothing that ends the process, so that the abandoned legs run
on (`Settle`, `Hang`). The process goes when none of them keeps the event loop alive
(`Drained`), when a second signal comes (`Abort`), or when the supervisor's grace period
is over (`Kill`, `stopGraceMs`).

### Pricing

`parseActiveOfferVector`, `calculateStepPrice`, `depositExpectedOut`,
`redemptionExpectedOut` and `computeMinSwapOut` are operators on natural numbers, with
every rounding of the code (`applyNttTrim` is `Relayer`'s). The wallet's client and the
cranker evaluate them at different times; OnRe's price is `VenuePrice`, a
constant of `Cranker`.

### Cranker

The module extends `Relayer`: a transaction of the cranker is an action of the
relayer program (`ReceiveTx`, `SwapTx`, `SendTx`, `RefundTx`), or fails with the
code that the state it meets implies. There are three enumerators, each with a terminal
cache of its own: a tick of the advance scan lists flows with the incremental one or,
when it is turned on and due, with the backstop (`sweep`, `NextTick`), and the refund
scan has the third, if `refundIntervalMs` is not 0, which is its default. A scenario is
what is under way and that setting. `task[<<scan, m>>]` is the step at which the advance
or the refund scan is about message `m`; a read and the transaction
it leads to are separate steps, and everybody else may act between them:

| Code | Actions |
|---|---|
| `scanWormholescanVaa`, `classifyMissingFlow` | `Enumerate`, `PeekInbox`, `PeekAta` |
| `pickAdvanceForStatus`, the gate, `scanAndRefund`'s filter | `Leg` |
| `receive.ts`: recovery of wallet and floor, existence check, preflight | `Recover`, `Preflight` |
| `prepareTransceiverMessage` | `Probe`, `SubmitPost` |
| the four legs' plan and submission | `Plan*`, `Submit*` |
| `race-classifier.ts` | `ResultOf`, `Uncoded` |
| `withTimeout`, a confirmation that does not come | `Timeout`, then `Late` |
| a read that throws or is taken for a missing account | `ReadFails` |
| process death | `Crash` |
| generic relayers, other crankers, a sibling message of the same transaction | `OtherRelayer`, `OtherCranker`, `Sibling` |

The chain of legs inside one task is the `Goto(k, Leg(...))` after a successful
submission. A slot with index *s* is one unit of OnRe's time. The backoff between
attempts is `FlowTracker`'s and left out here, as is the paging: which VAAs are
listed is `Enumerator`'s matter. Errors of `provider.sendAndConfirm` need not
carry the program's code, unlike those of Anchor's `.rpc()`, so for `send`,
`refund` and withdrawal swaps a lost race may count as an error (`Uncoded`).

### BridgeRedeem

One target; the second differs in constants only. A job is a VAA on the page it was
harvested from: pages are appended without a check for duplicates, so a VAA that a shift
of the list puts on two pages makes two jobs, which two workers may run at once. `item`
is the NTT inbox item of each VAA on FOGO: absent, gated by the rate limit, due,
released. A scan is `StartScan`, `FetchPage`s, one batch read (`Prefetch`), and tasks
that `Take` starts on bounded workers; each task is `Plan` (with the prefetched,
possibly stale item), `Probe`, `EnsureRecipientAta`, `SubmitPost` and `SubmitRedeem`, or
`SubmitRelease` alone. The plan throws for a program-owned recipient (`"offcurve"`),
since it derives the token account for on-curve owners only; NTT itself would accept it.
`Abort` is SIGTERM (looked at before each transaction), `Restart` and `Crash` start the
next process with a watermark of an earlier checkpoint. `governed` says that FOGO's
governance has wired the source chain, `target` what the startup probe made of it: it is
not probed again, and `ProbeFails` is a process whose probe threw, which skips the
target for good.

## 3. Runs

| Run | Shows | Distinct states |
|---|---|---|
| `relayer` | `TypeOK`, `CustodyExact`, `SettlesAboveFloor`, `InboxAccounted`, `NeverStranded`, `FlowsDrain`, `ImplementsEscrow` (refinement with fairness): two pairs and four messages, three of them in two inbox accounts of one token, fees that move, an asset with decimals to trim, unsolicited tokens | 50652 |
| `relayer_one_shot` | violation, finding 1 | |
| `config` | `TypeOK` (with the cap), `NoticeKept`, `LatestFeeWins`, `CustodySeparate`, `ProposalIsCurrent` for two keys, three mints and a timelock of two slots | 27664 (up to symmetry) |
| `enumerator` | `TypeOK`, `NextScanRetries` until the first fault with disorder up to `BACKFILL_COUNT`, `EveryVaaDispatched` under up to two faults of any kinds | 472627 |
| `flow_gate` | `TypeOK`, `NoDoubleDispatch`, `QuarantineExact`, `KeepsDispatching`: two flows, two workers, listings of up to three entries, a threshold of three, one SIGUSR1 and one restart anywhere | 386696 |
| `daemon_loop` | `TypeOK`, `NoLostWake`, `ShutdownBounded`, `WatchdogSparesHealthyLoop`, `ScanEnds` with three legs that may hang | 441975 |
| `daemon_shutdown` | violation, finding 4 | |
| `crank` | `CrankTypeOK`, `NeverAbandonsPending`, `DepositsNeverQuarantined`, `FloorReachable`, `RecipientsMatch`, `SettledInTheEnd`: a deposit with refund sweeps and without, a withdrawal without, a foreign transfer; one fault of any kind at any step | 239650 |
| `crank_quarantine` | violation, finding 2 | |
| `bridge` | `TypeOK`, `NoDoomedTx`, `RedeemedInTheEnd`: three VAAs of three kinds, two workers, duplicate jobs, one fault of any kind | 574474 |
| `bridge_retry` | violation, finding 3 | |
| `bridge_offcurve` | violation, finding 5 | |

**Bounds.** `LastReceiveSlot`, `MaxGift` (Relayer), `MaxSlot` (PairConfig), `LastSeq`,
`MaxScans`, `MaxFaults` (Enumerator), `MaxListing`, `MaxClears`, `MaxRestarts`
(FlowTracker), `MaxErrors` and `MaxSignals` (Daemon), `MaxFaults` and the guard of
`SlotPasses` (Cranker), `LastSeq` and `MaxFaults` (BridgeRedeem) are the only bounds.
Amounts are 10 and 20 with outputs around the floor 10, which puts each comparison on
both sides of its boundary and lets a fee of 1000 bps be a whole unit; with refunds
after 1 slot and receives in slots 0 and 1, refund, swap and send of every flow overlap.
The asset's trim unit is 5, so that a fee leaves dust. Only the fee that a deposit of
the first pair pays moves, and unsolicited tokens arrive in one account, the one these
deposits are swapped into: every fee and account is what `CustodyIsExact` and
`FloorIsRespected` are proved for. The config run has three fee values, one above the
cap, and a timelock of two slots with a clock up to 3: a second raise one slot after the
first has to put off the ready slot of both (`ReadySlot`), and both can still become
live. Keys and mints are interchangeable there. In the enumerator's run pages of one VAA
and a slack of one make the window smaller than the list, so that a fault can put a VAA
out of reach of the incremental scans; the page budget never cuts the window off, as
`NextScanRetries` needs. In `flow_gate` the backoffs are 1 and 2 (base, then cap) and a
flow in flight goes stale after 2, so each expires before, while and after the other
flow's tasks run. The map holds both flows: when it has to evict, a quarantined flow is
forgotten, in spite of what the comments of `flow-state.ts` say, but that takes 10 000
flows backing off at once. `MaxErrors` is chosen so that the backoff has reached its
cap, after which the code's counter changes nothing. In `daemon_loop` the heartbeat's
allowance (7) is the longest sleep (3) and the longest leg (3) and one, less than the
capped backoff and a scan, so the watchdog does fire; the grace period is twice the
shutdown deadline. `daemon_shutdown` has the defaults' proportions in units of 10 s:
deadline 1, grace 3, a confirmation of up to 9. In `crank` one message is under way at a
time, but the transaction that bridged it also bridged another one with a floor of its
own, which the recovery has to tell apart. The backstop is on, as by default. OnRe's
price is 11 when the floor is signed, 12 (within the tolerance of a tenth) and then
jumps, so a deposit can be swapped in the first two slots and only refunded after them;
the route of a withdrawal returns amounts on both sides of its floor. `POISON_THRESHOLD`
is 5 there, the least with which one fault and the races around it never quarantine a
deposit (4 is violated; in general it is `MaxFaults + 4`, see `DepositsAreSpared`); the
code's is 8. `bridge` has pages of one VAA, so each VAA may be the one that ends the
paging, one VAA that is ours, an older one for a program-owned address and a newer one
for another chain; all VAAs fit the page budget.

One message per inbox is a limit of `crank`: with two messages of the same wallet
and floor `NeverAbandonsPending` does not hold. That is the consequence of
finding 1 for the cranker: a message whose tokens were swept by the other's
second flow is classified as over although it never had a flow. Where no two
messages share an inbox account both claims are proved for any number of messages
(`OneShotPerInbox`, `PendingNeverAbandoned`).

**Deadlock** is not checked for Relayer and PairConfig: with the bounds reached and
every flow closed nothing is left to do; nor for Cranker and BridgeRedeem, which come to
rest once everything is settled, the faults are used up and the scans skip what is over;
nor for Daemon, whose process exits. The enumerator and the gate go on for ever and are
checked for deadlock.

**Fairness.** Relayer: slots advance, and `send` and `refund` of an open flow are
submitted when they can succeed. They are permissionless: somebody submits them, not
necessarily the shipped cranker, whose refund sweep is off by default. Nothing is
assumed of `receive`, `swap`, NTT or routers. Enumerator: the daemon loop, promises and
the backstop interval make progress (each is a timer or an await in the code); nothing
is assumed of the index, of flushes or of faults, of which there are finitely many.
FlowTracker: listings that have every open flow in them keep coming (the backstop
scans), time passes, and the steps of the event loop and of a task that has started are
taken (an advance function returns, with some outcome); nothing is assumed of its
outcome, of signals or of restarts. Cranker: the steps of a task are taken (`Step`,
weakly fair: promises settle or time out; a call that hangs for ever ends with the
process, see `Daemon`). The backstop comes round again (it is on by default), and it and
the refund sweep, where that is turned on, list flows again and again (`Enumerate`,
strongly fair, since a worker slot may be taken each time); this holds for flows within
their pages. Nothing is assumed of the incremental sweep, which does not list what is
further than `BACKFILL_COUNT` below its watermark: in the model it may list nothing at
all. Slots pass, and a delayed release is performed by somebody once its delay is over;
nothing is assumed of other crankers, of redeems by others or of late transactions.
Fairness is for each scan and not for each message: one is under way at a time.
BridgeRedeem: scans, the workers' steps taken together, and rate-limit delays make
progress and a stopped process is started again; nothing is assumed of the generic
relayer, of the index, of governance or of faults. Daemon: timers fire, promises that
are settled are served, a leg that does not hang settles, and the supervisor kills at
the end of its grace period; nothing is assumed of signals, and hanging is always
possible.

## 4. Findings

1. **A flow is not one-shot** (`relayer_one_shot`). Closing a flow frees its
   account, and the skip path of `receive` asks only for a released inbox item
   and a sufficient inbox balance. A second message of the same wallet and floor
   that NTT has released, but whose own flow has not been opened, provides that
   balance: the settled message opens a flow again. The tokens still go to the
   same wallet and under the same floor (`InboxAccounted`, `SettlesAboveFloor`,
   both proved), so no value changes hands, but the other message is left with
   nothing to sweep, and the cranker's cache of closed flows rests on the claim.
   `OneShotPerInbox` proves that this is the only way: without a second message
   in the same inbox account, a message opens at most one flow.
2. **A delayed release can quarantine a withdrawal** (`crank_quarantine`). Once a
   generic relayer has redeemed a message and NTT delays its release, `receive`
   fails with NTT's 6008. `enumerate.ts` calls that a known race, but `RACE_TABLE`
   holds 6004 and 6022 only, and a withdrawal has no preflight that would notice.
   Every attempt until the release counts as an error; after `POISON_THRESHOLD` of
   them the flow is quarantined until SIGUSR1, a restart or eviction. Deposits have
   a preflight (`DepositsNeverQuarantined`).
3. **A failed redeem can leave the paging window** (`bridge_retry`). The watermark is
   a maximum, so newer VAAs of the same scan carry it past the one that failed;
   comments in `bridge/scan.ts` and `watermarks.ts` say that it stays in the next
   scan's window. The bridge legs have no backstop. `RedeemedInTheEnd` says what
   holds: a VAA that stays in the window is released. The same watermark rule
   applies to a failed read of the relayer legs (`watermarks.ts:59-61`), which
   recover through their backstop when it is on (`enumerator`).
4. **The process can outlive its grace period** (`daemon_shutdown`). `daemon.ts:86-88`
   bounds the scan in flight "so a stuck RPC can't out-wait Docker's SIGTERM grace
   window", but what is bounded is the return of `runDaemon` (`ShutdownBounded`, proved).
   Nothing ends the process: it goes when the abandoned legs have let go of the event
   loop. A flow that waits for a confirmation (up to 90 s, by a timer that is not
   unref'd) is enough to meet the SIGKILL at 30 s; nothing need hang. The checkpoint has
   been flushed by then, so what is lost is the orderly end of that flow.
5. **An off-curve recipient is an error for ever** (`bridge_offcurve`).
   `bridge/scan.ts:147-148` says that permanently broken VAAs end up as `noop`; a VAA for
   a program-owned recipient makes the planner throw (`redeem.ts:167`), which counts as an
   error at each scan that lists it.

Smaller observations, made while modelling and without a run of their own:

- `WakeFlag.signal()` resolves a waiting sleep and also leaves the flag up
  (`wake-flag.ts:14`), so a SIGUSR1 during a sleep is followed by two scans in a
  row. Clearing the flag in that case would be wrong as long as a timed-out sleep
  leaves its resolver behind: that variant is the mutant that breaks `NoLostWake`.
- By default the watchdog's allowance (`config.ts:76`, 120 s) is shorter than a
  sleep, the enumeration's timeout and one confirmation's timeout together;
  `HealthyLoopIsSpared` says what suffices.
- `SettledInTheEnd` has three exceptions. `WrittenOff`: the lookup of a flow finds none,
  another cranker opens and sweeps it, and the balance read afterwards looks like
  that of a finished flow. The open flow is then in the terminal cache of that
  enumerator until a restart; another cranker, or a sweep that has not listed it in
  the same gap, settles it. A quarantined flow (finding 2). And, with
  `REFUND_INTERVAL_MS` at its default of 0, `BelowFloor`: a flow whose price does not meet
  its floor waits for a better one or for somebody else's `refund`, however long ago its
  timeout was.
- `enumerate.ts:99-101` describes the terminal cache as shared by the incremental
  and the backstop enumerator; each has its own.
- A bridge target whose config is not wired at startup stays so for the life of the
  process (`configReady`, probed once), and its VAAs are recorded as seen.
- `pricing.ts:3-6` says that its quotes cannot diverge from execution, but it
  interpolates OnRe's price linearly, while OnRe and the signed floor use the price
  at the end of the current step.
- The Pyth keeper checks the price's age at half its window, so a price can be one
  and a half windows old before it is posted again (`keeper.ts:136-138`).

## 5. Proofs

The theorems hold for every value of the constants that satisfies the modules'
`ASSUME`s:

- `RelayerAssumption`, `NoFlowAssumption`: finitely many messages with positive
  amounts and floors, amounts that are multiples of their token's trim unit (the sending
  side has trimmed them), any positive trim units, fees within a cap below 100%;
- `ConfigAssumption`, `NoneAssumption`, `NoConfigAssumption`: a positive timelock;
- `DaemonAssumption`: finitely many bridge legs, positive intervals;
- `CrankerAssumption`, `PricingAssumption`, `VenueAssumption`: positive scales and
  prices, a tolerance of at most 100%, and OnRe being one of the routes a swap may
  take;
- `TrackerAssumption`: a positive threshold, capacity, backoffs and timeout;
- `EnumeratorAssumption`, `WatermarksAssumption`, `BridgeAssumption`: positive page
  size, limits that are natural numbers;

and that the null value of each module is no other value. Most are of the form
`Spec => []P`. Where a theorem has a further hypothesis, it is a named definition
and given below; each is one that a run satisfies, and that the code needs.

Relayer (`RelayerProofs`):

- **`TypeCorrect`**. Inductive on its own, because the handlers compare before
  they subtract.
- **`CustodyIsExact`**, for all trim units: an account holds the open flows' amounts,
  the dust and the gifts. The equation is inductive given types. Each action changes the
  amount of one flow and one or two custody accounts by the same number, a closing one
  up to what it adds to the dust; `SumOfUpdate` (`UnitSumsTheorems`) says what one
  update does to the sum. In `Swap` it needs all three of exact consumption, the account
  scan and the fee being taken from the flow's own amount.
- **`FlowsAreCovered`**: `NeverStranded`, from `CustodyExact`, a sum being no less than
  any of its terms (`SumOfCovers`), and `HoldsSomething` (neither `receive` nor `swap`
  leaves a flow with nothing). It is what `FlowsDrain` rests on: given time and a
  submitter, nothing in custody stands in the way of `send` and `refund`.
- **`InboxesAccounted`**. Likewise over inbox accounts; `RecipientBound` makes
  the account that is swept the one the message was released to.
- **`FloorIsRespected`**. Needs the strengthening `BoundToMessage` (the flow's
  recipient, floor, pair and direction are the message's), which says what
  `min_swap_out` has to do with the signed floor; then it is arithmetic on the
  rounded-down fee.
- **`EscrowIsImplemented`**: `Spec => Escrow!Spec`, the safety half of
  `ImplementsEscrow`. Under the mapping `EscrowView` an instruction is one step of the
  message's own escrow (`Open`, `Convert`, `Close`) and everything else a stutter.
  `Close` pays the wallet what the escrow holds up to a remainder below the token's trim
  unit, which is what NTT's trim leaves. The steps need `BoundToMessage` and
  `SettlesAboveFloor` as well as the types: only with them is a conversion above the
  floor of *this* message, and the wallet paid *its* wallet.
- **`OneShotPerInbox`**, under `OneMessagePerInbox` (no two messages are addressed to
  one inbox account). `InboxOfOne` follows such an account: empty until the release,
  then exactly the message's amount until its flow is opened, and empty ever after,
  which closes the skip path. Finding 1 is what happens without the hypothesis.
- **`SettlementIsFinal`**, likewise: a step of anybody leaves a settled message settled.
  A flow opened again would be a second one of its message. This is the stability that
  `SettledInTheEnd` asks for (`<>[]`), and what makes a cache of closed flows sound.

Governance (`PairConfigProofs`):

- **`ConfigTypeCorrect`**, with the cap.
- **`NoticeIsKept`**. Not inductive: strengthened by `Sound`, which also speaks
  of staged fees that exceed what a user was shown (their bundle cannot ripen
  within that user's timelock) and of staged fees exceeding live ones.
- **`LatestFeeIsKept`**. From one lemma per fee operator on `Ceiling`.
- **`CustodyIsSeparate`**. Strengthened by: the custody accounts of an
  initialised pair exist, and its vault is an account of its asset mint.
- **`ProposalsAreCurrent`**. Inductive given types.

Daemon (`DaemonProofs`):

- **`LoopTypeCorrect`**. Inductive; the arithmetic is that the capped backoff and its
  jitter stay within the longest sleep for every number of failures in a row.
- **`NoSignalIsLost`**. Needs `WakeInv`: during a scan a signal shows in the flag
  (not in the resolver), and a sleep that has not been woken has a resolver in
  place.
- **`ShutdownIsBounded`**: the *loop* is left within the deadline, whatever its scan does,
  so that the last flush of the checkpoint is reached. With the range of `pc` and of
  `aborted` it is inductive: time does not pass the deadline, because at the deadline the
  race is over, and a sleep ends at once. It does not say when the process is gone
  (finding 4).
- **`HealthyLoopIsSpared`**, under the hypothesis `AllowanceFits` (the allowance
  covers the longest sleep of the success path and each leg's budget).
  `HeartbeatInv` bounds the age of the heartbeat by the sleep before the scan and
  the time the scan has taken, and that by the budget of a leg that is still
  running.

Cranker (`CrankerProofs`):

- **`CrankDrivesRelayer`**: `CrankSpec => Spec` of `Relayer`. Each step of the
  cranker, of its late transactions and of the others is an action of the relayer
  or leaves the chain alone. It needs `FlowOfMessage` (until it is swapped, a flow has
  its message's amount, so OnRe's output for it is a route's) and the types.
  `CrankKeepsCustody`, `CrankKeepsEscrows` and `CrankSettlesOnce` follow with the
  theorems above.
- **`CrankTypeCorrect`**. Needs `Scoped`: the refund scan has none but its own legs,
  and only messages under way have a task, a late transaction or a cache entry.
- **`PendingNeverAbandoned`**, under `OneMessagePerInbox`. The cranker writes a flow
  off when it finds no flow, then a released item, then an empty inbox account.
  `SeenReleased` says that the item is still released at the last of the reads;
  `InboxOfOne` (which carries over along `CrankDrivesRelayer`) that a released
  message whose account is empty has had its flow.
- **`RecipientsAlwaysMatch`**. Strengthened by `Carries`, which follows the recovered
  inbox from the match through the preflight and the probe to the submission.
  `TaskMoves` lists the ways a step may change a task, so that the invariant is
  argued once and not per leg.
- **`FloorStaysReachable`**, under the hypothesis `FloorsAsSigned` (the floor was
  computed by `computeMinSwapOut` at OnRe's price of the moment).
  `ToleranceCovers` is the arithmetic: two conversions and the tolerance are each
  rounded down, and the floor still does not exceed what the later price yields.
- **`ErrorsAreBounded`** and **`DepositsAreSpared`** (`DepositsNeverQuarantined`), the
  latter for `POISON_THRESHOLD > MaxFaults + 3`. Each error is charged to a fault or to a
  setback: the message is redeemed, its flow is opened, its flow is closed or misses its
  floor. `SetbacksLast` says that each happens to a deposit once and for good.
  An error is counted when the transaction fails, but what makes it fail
  may come several steps earlier, between the read and the submission, so
  the invariant `ErrorsExplained` also counts the error to come: `Doomed` says that the
  transaction being prepared must fail other than as a lost race. A step of somebody else
  dooms a transaction only by a new setback (`SetbackPerDoom`); a step of the task itself
  counts an error only if its transaction was doomed, or with a fault (`StepOutcome`),
  because the preflight and the plans never start a doomed one. The hypotheses:
  `OneMessagePerInbox`; `PricesRise` and `MirrorsOnre` (a share of OnRe does not lose value
  and the SDK reads its price exactly: otherwise a plan that clears the floor can fail
  again and again); `OursAreIntents` (a foreign transfer to an inbox that its own
  transaction names would be tried, and rejected by the program, for ever). Withdrawals
  have no such bound, which is finding 2.

Gate (`FlowTrackerProofs`):

- **`TrackerStaysBounded`**: the map never holds more flows than its capacity, with any
  number of flows. `MapOK`: `older` is a strict order of the flows held, so there is an
  oldest one to evict (`LeastOfOrder`) and an insertion never grows a full map.
- **`TrackerTypeCorrect`, `NeverDispatchedTwice`, `QuarantineIsExact`**, under `RoomForAll`
  (the map's capacity covers all flows): an evicted flow looks idle, so that without it
  a running flow could be dispatched again and a quarantined one forgotten.
  `DispatchInv` is needed because `NoDoubleDispatch` is not inductive: a flow that is
  queued or run is in flight in the map; while a listing is being admitted no worker
  runs and no time passes, so a queued flow cannot have gone stale and be admitted
  twice; and the tracker's count is the history's, across timeouts and signals.

Discovery (`EnumeratorProofs`):

- **`DiscoveryTypeCorrect`**, for all faults. `ScanOK` bounds a scan's page by what is
  listed; a checkpoint is never ahead of the watermark because the latter only grows
  within a process.
- **`SlackCoversDisorder`**: `NextScanRetries`, for any number of VAAs and any page size,
  under `Disorder <= BACKFILL_COUNT` and `[]BudgetCovers` (fewer VAAs above the paging
  floor than `MaxPages` pages hold), until the first fault. `ScanInv` follows each VAA
  that is not driven through a scan (`Accounted`): the scan has it, its page is still to
  come, or it is near enough to the watermark for the next scan. The last case is
  that of VAAs indexed between two pages, or between the fetch of a page and the
  recording of it, which shift the ranks the scan pages by. The conditions are the
  code's own limits: with a failed read, an abandoned scan, a failed dispatch or a
  restart the watermark passes a VAA that was not driven (`watermarks.ts`), more
  disorder puts it below the floor, and a full page budget cuts the window off. For these
  there is the backstop, whose guarantee is liveness (`EveryVaaDispatched`).

Bridge legs (`BridgeRedeemProofs`):

- **`BridgeTypeCorrect`, `NothingDoomedIsSent`** (nothing for another chain or an unwired
  manager, which FOGO would refuse). `LegInv`: every VAA past the plan, in whichever job,
  and every transaction still on its way after a timeout or a crash, is addressed to this
  chain and its source is wired. It outlives the process because governance does not
  unregister a source.

Only model-checked: liveness (`FlowsDrain`, `EveryVaaDispatched`, `KeepsDispatching`,
`ScanEnds`, `SettledInTheEnd`, `RedeemedInTheEnd`) and the fairness half of
`ImplementsEscrow`, which are out of TLAPS's reach. Every invariant of the runs is a
theorem.

## 6. Not modelled

Account parsing and instruction encoding (Borsh layouts, PDA seeds, lookup tables,
compute budgets) are represented by the bindings they enforce; lamports, rent and
rent top-ups; events, logs and metrics; the upgrade authority. The signature
verifications that precede the post of a VAA are one step with it. The deployment is
taken to be configured: where a peer, transceiver or lookup table is missing, every
leg is a noop. Which VAAs an enumerator lists is `Enumerator`'s matter: in `Cranker` a sweep
may list any flow.

The intent-transfer program, the Pyth keeper, the CLI and the generated IDL types are
left out; `PROJECT.json` gives the reasons and lists, under the hazards, what no
property covers and why.

## 7. Plan

1. Done: `Relayer` with `FlowEscrow`, `PairConfig`, `Enumerator` over `Watermarks`,
   `FlowTracker`, `Daemon`, `Pricing`, `Cranker` composed with `Relayer`,
   `BridgeRedeem`; the theorems above.
2. Proofs: every invariant of the runs is proved. A bound on the errors of a withdrawal
   would follow the one for deposits once `receive` has a preflight for it (finding 2).
3. `IntentTransfer`: nonces, intent verification, fees and the bridge call on FOGO; a
   composition with `Relayer` end to end.
