# Verification of evm-trading-sdk

TLA+ models of the SDK (`src/src`), of its file-journal example
(`src/examples/swap_frame.rs`) and of its contract (`src/contracts/src`), the
TLC runs that check them, and proofs that TLAPS checks.

## 1. Inventory

The SDK quotes swaps on Uniswap V2, V3 and V4, prepares a transaction of its own
`FeeRouter` contract, sends it through a wallet or a private submission service,
keeps a durable journal of what it sent, and waits for the outcome.

| component | code | state it keeps | operations |
|---|---|---|---|
| Execution | `src/execution.rs` | the `ExecutionRecord` (one entry per transaction: request, submission state, receipt, signed hash) | `preview`, `submit` (funding, allowance, `send`/`send_signed`, refresh), `wait`, `check_status` |
| Submitter | `src/submit.rs` | none | `submit`: POST of a signed transaction; which errors are rejections |
| Trader | `src/fee_router/trader.rs` | none; a `PreparedSwap` names one quote block | `prepare`, `refresh`, `submit`, `swap`, `wait_for_swap`, `status` |
| File journal | `examples/swap_frame.rs` | `pending.json` and the archived records | `begin`, `save`, `--resume`, `present` |
| FeeRouter contract | `contracts/src/FeeRouter.sol` | fee rate, reentrancy lock, awaited callback; token balances and allowances | `swap`, `swapWithFee`, `unlockCallback`, `rescue`, `setFeeBps`, `receive` |
| FeeRouter client | `src/fee_router.rs` | the configuration at a block | `connect`, `build_swap`, fee arithmetic |
| Price impact | `src/fee_router/price_impact.rs` | none | exact fractions, reference prices, basis points |
| Uniswap adapters | `src/uniswap*.rs` | none | find pools, load pools, quote, validate |
| Limits and batch quotes | `src/dex.rs` | none | `minimum_amount_out`, `quote_many` |
| Client and types | `src/lib.rs` | none | RPC reads at a block |
| Other examples | `examples/quote*.rs`, `prepare_swap.rs` | none | print |

**Interactions.** Trader calls the adapters and the router client to prepare a
swap pinned to one block, then Execution with a journal the caller provides.
Execution calls the journal (`begin` once, then `save`) before every step that
lets something leave the process; it hands a transaction to a wallet RPC or, once
signed, to a Submitter; it reads the chain in `check_status`. The transaction
runs the contract, which calls tokens, the V2 and V3 routers, the V4 pool manager
(which calls back), and receivers of native currency; all of them may call the
contract again.

**What is hard.**
Sending is at-most-once over channels that lose answers: a wallet error or a
timeout does not mean nothing was sent; a crash can fall between any two of
journal, sign, save, post, answer and save. Blocks move between the quote, the
approval, the refresh and the swap. The journal file can be torn or fail. A
status check copies the record, awaits, and writes it back. In the contract,
foreign code runs at each external call, and the caller's input, the reserved
fee and the contract's own balance share one account.

**What makes each component correct.**
*Execution*: whatever left is durably recorded; what is recorded as rejected
never lands; failures that say "not sent" stay true; a run is closed only when
nothing of it can still take effect, and only then does the next send; every
wait ends. *Submitter*: an error counts as a rejection only if the transaction
was certainly not taken. *File journal*: it never forgets an entry, a hash or an
outcome. *Contract*: a swap is all or nothing, takes no more than the input,
pays at least the minimum and exactly the fee, keeps the router's own balance,
and strands none of the user's money. *Arithmetic*: no overflow, and the client's
numbers equal the contract's. *Preparation*: every number in a prepared swap comes
from the one block it names, the best of the funding routes wins, and what the
caller was shown is what lands. *Adapters*: a quote is of the pool it names, in
the deployment that the swap will use, and the plan pays the recipient and leaves
nothing with a router. *Discovery*: no phantom pool, and no gap in what is called
complete. *Price impact*: exact to the last unit, or no number at all. *Client*:
several calls are one read.

`PROJECT.json` lists every component with its status and the hazards, each at
its line with the properties that would catch it.

## 2. Modules

| module | what it is |
|---|---|
| `Records` | the execution record and the operators on it (`swap_hash`, hash lookup) |
| `Network` | external: wallet or service, mempool, and one wallet's chain, with late, lost and refused requests and reorgs |
| `Execution` | the execution layer and its caller: `submit` with its checks, journal, signing, sending, waiting, `--resume` and `present` |
| `Outbox` | abstract: intent, send, settle and close, one run at a time |
| `ExecutionInvariant`, `ExecutionProofs` | three inductive invariants, each resting on the one before: durability, safety under reorgs, and what needs finality with the refinement of `Outbox` |
| `FeeMath` | basis-point arithmetic on a wrapping word against exact division |
| `FeeRouter` | the contract, cut at each external call |
| `FairExchange` | abstract: a swap is one fair step, or nothing |
| `FeeRouterInvariant`, `FeeRouterProofs` | accounting and settlement, their proofs, and those of the arithmetic and of the refinement of `FairExchange` |
| `Venues` | the three adapters' `connect`, `load_pool`, `quote` and checks, as operators on the state of a block |
| `DirectSwap` | a quote, the plan of `build_swap`, and Uniswap's routers that carry it out |
| `DirectSwapInvariant`, `DirectSwapProofs` | where the money is after each call of a plan, and the proof |
| `Discovery` | `find_pools` and `resolve_pool` of the three versions, call by call, against a chain that moves |
| `DiscoveryInvariant`, `DiscoveryProofs` | what holds on any chain, what holds under one reorganization, and the proofs |
| `Preparation` | the trader: prepare, fund, show, submit, approve, refresh, send; the router client with it |
| `PreparationInvariant`, `PreparationProofs` | every plan goes back to a quote and a quote to a block, and the proof |
| `PriceImpact` | `estimate`: concurrent reads, reference prices, hook terms, wide fractions |
| `PriceImpactInvariant`, `PriceImpactProofs` | one answer for each hop and a report that is right, and the proof |
| `PinnedRead` | abstract: a read at a block is one step |
| `EvmClient`, `EvmClientProofs` | the calls such a read is made of, and the proof that they implement it |
| `FileJournal` | the journal's files, shared by several processes, one file-system call at a time |
| `FileJournalInvariant`, `FileJournalProofs` | one owner of `pending.json` at a time, and the proof |
| `MC*` | instances for TLC |

How they compose: `Execution` uses `Records` and `Network`; `Discovery`,
`DirectSwap` and `Preparation` use `Venues` (what a caller can be told of a pool
is one definition for all three); `DirectSwap`, `Preparation`, and `FeeRouter` use
`FeeMath`. They read a block in one step, which `EvmClient` shows to be right.
`Preparation` takes the contract to be what `FairExchange` promises, and the
allowance transaction of `Execution` to be one step in which blocks may pass;
`Execution` in turn takes a prepared swap as given.

### Execution

A transaction is identified by its run and kind (approval or swap), and a hash by
the transaction it hashes. `pc` is the await at which the process stands; one
action spans the code from one point where something else can happen to the
next. `Checks` lists the preflight checks of `send` in the order of the code, and
`CheckPasses`/`CheckFails` run them one by one, so the clock can expire and the
chain can move between two of them. `Push` is "push the entry, then `begin` or
`save`", `Sign` and `RejectSubmission` include the save they end in, `CheckEntry`
is one iteration of the loop of `check_status` with its early returns, and
`WaitReturns` is the save after `wait`. `updated`, `current` and `record` are the
separate copies the code holds: `check_status` clones the record, `wait` keeps
the last complete result, and the caller saves what it is given. `Crash` loses
all of them; only `journal` and `archive` survive.

`Deliver`, `Lose` and `Mine` are the world. A request stays `flight` after the
caller has given up on the answer, and may be delivered later. A wallet may
change a transaction before it signs, which `check_status` must notice
(`EntryDiffers`). An approval grants exactly the amount of one swap, so a stale
allowance read (`pinned`) can be wrong in both directions.

### FeeRouter

`bal[t][h]` is what holder `h` owns of token `t`; pools and everyone else are
`World`. `Call` collects the input; `Convert`, `BeginHop`, a venue step, and
`Measure` execute one hop; `PayOutput` and `PayFee` end the swap. A V2 or V3
venue takes up to the allowance, the V4 manager calls back and settles, and
either may return any amount the pools own, zero included. A callback may come at any point of a
swap, with the data of any hop; only `Awaited` lets it in. `Gift`, `Rescue` and
`SetFeeBps` are enabled between any two of these steps, as calls from hooks,
tokens and receivers are; only the lock keeps the last two out. `Revert` undoes
the transaction from anywhere. Tokens are standard: the contract refuses
transfer taxes by comparing balances around each transfer. `FeeMath` has the
code's order of operations, with each product and sum taken modulo `Width`.

### Venues and DirectSwap

A state of the chain (`World`) says which contracts are deployed, how Uniswap's
periphery is wired and at what rate each pool pays. A pool is a *claim* (kind,
tokens, fee, spacing, deployment) under an identifier; only some claims are
genuine, that is, made by the factory they name. `V2Quote`, `V3Quote` and
`V4Quote` are the adapters' checks in their order, each giving the amount or
nothing. In `DirectSwap`, `Market` moves the chain between quote, plan and
execution; a plan is a sequence of router calls, and each call is one `Step`
on the balances, with recipient 1 or 2 read as an alias where the router does so.
A price limit lets a pool take less than the input, so `refundETH` and `SWEEP`
matter. `Revert` undoes everything.

### Discovery

Registry searches (V2, V3) ask for each fee tier concurrently; answers arrive in any order
and may fail (`Answer`), and `Collect` files them as `join_all` returns them. V4
searches read ranges of events: `Header` pins the block, `GetLogs` reads a range
of whatever branch is canonical, with added noise, `ReadLog` turns a log into a pool
or a failure, `Anchor` asks at the end whether the pinned block is still
canonical. `NewHead` lets the chain grow or be reorganized between any two of
them. `resolved` is the answer of `resolve_pool`.

### Preparation

`blocks` is the chain so far; each block has its own rates, fee and pools.
`Connect` and `Request` begin, `Resolve`, `prepare_pool`, `Discover` and
`prepare_funded` are the reads of one prepared swap, each at a hash (`At`).
`shown` is what the caller sees, `current` what is about to be sent. `handed` is what the
caller hands in: all fields of a prepared swap but its limits are public, so it may write any member of
`Writes` over the quote, the trade inside it and the fee amount, keep or change the plan,
or have `build_swap` make the plan of the changed quote, also with a router of a later block (`Altered`). The
price impact, which `submit_prepared` does not read, is left out. `Allowance` may take blocks;
`Refresh`, `Requote` and `refresh_route` quote again at a new block, and `Kept` and
`Acceptable` decide what of the old plan is sent. `build_swap`, `encode_hop` and
`direction` are the client's, with each refusal. `Mine` lands the call in the
current block as `FairExchange` has it: the fee expected, at least the minimum.

### PriceImpact

`Answer` is one of the concurrent reads of a hop (price and hook terms), in any
order; `estimate` is what is done once all are there, the first error in route
order included. `Euclid` is the loop of `gcd`. `multiply` reduces crosswise by it before it multiplies, each
product is checked against `WideMax`, amounts against `Width`, basis points against
`I32Max`. The reference definitions (`Product`, `Exactly`) are exact integers.

### EvmClient

A node serves a chain (`head`), which can change between any two calls. `Begin`
starts an operation, `require_contract`, `Read` and `getBalance` are its calls,
`Join` returns. A reply is ABI text, a padded word, something else, or a revert,
which nodes report in different ways (`contract_call_error`).

### FileJournal

Files are inodes: `pending.json`, its temporary, and the archive are names for
them, `handle` is the file a process has open, so that a rename by one process
carries off what another still writes to. `Begin`, `Create`, `Write`, `Rename` and
`Archive` are single calls of the file system, and `Crash` stops a process between
any two. A run is a record with a stage (about to ask for its approval, hashed, mined,
then the same for its swap). `Alone = TRUE` is the documented use: `--resume`
runs when no broadcast does.

## 3. Runs

| run | question | bounds | result |
|---|---|---|---|
| `execution` | the safety of sending, journalling and archiving; `Outbox` is implemented | 2 runs, no reorg | holds |
| `execution_reorg` | the inductive invariant, and what survives a reorg | 2 runs, 1 reorg | holds |
| `execution_live` | calls return; a lost answer does not leave a signed swap unresolved | 1 run, under fairness | holds |
| `fee_router` | the accounting of one swap under interference; `FairExchange` is implemented | 1 swap, 1 gift, 3 tokens, `BPS` 3, `Width` 10 | holds |
| `direct_swap` | quotes and plans of single pools, carried out by Uniswap's routers | 7 pools, 5 states of the chain, 4 recipients | holds |
| `discovery` | searches while the chain moves and providers misbehave | 5 blocks on 2 branches, 1 reorg, 5 stray logs | holds |
| `discovery_return` | the same with 2 reorgs | 2 reorgs | **violated**: see below |
| `preparation` | prepare, fund, show, approve, refresh, send | 3 blocks of 3 kinds, 6 pools, 3 tiers, one write each to fee amount, quote, trade and plan | holds |
| `price_impact` | fractions against exact products, and which costs are known | 2 hops of 16, `BPS` 4, wide 1023 | holds |
| `file_journal` | several processes on one journal, as documented | 3 broadcasts, 2 resumes | holds |
| `file_journal_shared` | the same with a resume during a broadcast | 2 broadcasts, 1 resume | **violated**: see below |
| `evm_client` | several calls to a moving node are one read | 4 heads, 3 addresses | holds |

*The inductive invariants.* The runs check the invariants that the proofs of section 4
rest on: `FinalityInvariant` (`execution`), `SafetyInvariant` (`execution_reorg`),
`SettlementInvariant` (`fee_router`), `LedgerInvariant` (`direct_swap`),
`EstimateInvariant` (`price_impact`) and `IInv` (`file_journal`),
each of them with the type invariant of its module. `Discovery` and `Preparation` have
theirs in `DiscoveryInvariant` and `PreparationInvariant`, which `MCDiscovery` and
`MCPreparation` extend: adding `SearchInvariant`, `GapInvariant` or `IInv` to the
configuration checks it on the same instance (645141 states of `Preparation`).

*What they show.* In `execution`, `WriteAhead` and `SwapAlwaysFindable` say that
a crash or failed write at any point leaves the journal able to identify what
was sent; `RejectedNeverLands` and `FailureIsFinal` that the classification of
errors is right even when a request is delivered long after its error;
`SettledBeforeNextRun` that the journal's refusal in `begin` keeps two runs from
being under way together; `SwapFollowsAllowance` that the simulation just before
sending makes up for a stale allowance; `ArchiveIsFinal` that what `present`
archives cannot change and agrees with the chain; `JournalOnlyLearns` that stale
copies of a record never overwrite news. In `fee_router`,
`RouterKeepsItsOwn` and `NothingStranded` bound the router's account from below
and above, `NothingStanding` covers lock, callback and allowance, `FeeAsQuoted`
ties the contract's fee to the client's arithmetic, and `ImplementsFairExchange`
is atomicity: at the level of whole transactions a swap is fair or did nothing.

In `direct_swap`, `QuotedPoolIsReal` says that neither a forged pool, nor a pool
of a fork, nor a router of another deployment is ever quoted, and
`LandsWithRecipient` that a finished plan moved exactly what it should: who is paid
depends on the sequence of router calls, aliases and refunds. In `discovery`,
`NoPhantom` holds against stray, removed and foreign logs and against logs of
another branch; `Complete` is that a range or tier called complete misses nothing
of the pinned block; `Accounted` that nothing is both or neither. In `preparation`,
`OneBlock` recomputes what is shown from the state of one block; `BestFunding`
compares the chosen route with every tier that did not fail; `WouldLand` and
`LandsAsShown` follow a plan through approval and refresh to the block it lands
in. A caller who writes to a prepared swap gets what it wrote, or a refusal: `LandsAsShown` holds what lands
to the quote as it was handed in, at the limits that were shown, and to the fee amount that was shown
as long as the input and the block are those it was computed from. In `price_impact`, `Exact` and `GivesUpOnlyIfItMust` bound the arithmetic from both
sides, `CostsAtLeastImpact` is the order of the two numbers shown, and
`KnownCosts` that an unknown cost never counts as none. In `file_journal`,
`NothingForgotten` and `ArchiveKept` say what files guarantee for any crash,
`ArchiveTrue` that what is archived under a hash is final, `OneUnresolved` what
`begin` must enforce. `evm_client` shows the step of reading a block, which the
other modules use, to be implemented.

*What is violated.*
`file_journal_shared`: while a broadcast waits for its approval to be mined,
`--resume` in another terminal finds the approval mined, archives the record and so
removes `pending.json`. The journal is free, another broadcast begins, and the
first one, which still goes on to its swap, renames its record over the other's
(`swap_frame.rs:488`). `begin` has then accepted an unresolved run, which the
trait forbids (`execution.rs:151`).
`discovery_return`: `AnchorHolds` looks at the chain once, at the end. If the pinned
block is left while a range is read and canonical again when it is looked at, logs of
the other branch were read, and a pool is missing from a range called complete.
It takes two reorganizations within one search; the comment at `v4.rs:221` does not
say that they are let through.

*Bounds and why they are enough.* `MaxRuns = 2`: the properties relate a run to
at most one other (a second run meets everything a first can leave behind: torn,
saved or archived journals, late requests, a used-up allowance). `MaxReorgs = 1`
un-mines any receipt a verdict was read from. `MaxCalls = 1`: a transaction ends
with lock, callback and allowance as they began (`NothingStanding`), so a second
one meets only other balances. The three routes unwrap an output, use a native V4
pool, and wrap the input of a two-hop cycle back to the currency the fee is
reserved in. `BPS = 3`, `Width = 10` and an input of 5 at rate 2 is the smallest
case in which multiplying first overflows, while the code's order does not.
`direct_swap`: a swap is of one pool, so each of the genuine, forged and forked pools
is tried alone with each trade; the five states differ in rate, in what is
deployed and in one contract of the periphery. `discovery`: both branches differ
in their pools at the same height, and the ranges cover one block, all blocks, and
reversed bounds. `preparation`: three blocks are one for the prepared quote, one that comes
during it, and one for the refresh; the three kinds of block change which tier is best,
the fee, and the pools that exist; writes combine one to the fee amount, one to the quote (output,
route, block) and one to the trade (input, accounts, chain, currency), among them some that are accepted. `price_impact`: an overflow between hops needs
two of them; every kind of reference follows every other, and one or both reserves of a pool may
be zero. `file_journal`:
three broadcasts are one that archives, one that is rejected, and one that
begins beside them; a file is created only while there is `Room` in `Inodes`, and
`MCInodes` is as many files as they can hold at once, so the bound never blocks
one. `evm_client`: an operation has at most three calls, and the heads
are two lengths of a branch, another branch and another chain.

*Finality.* `ArchiveIsFinal`, `SettledBeforeNextRun`, `SwapFollowsAllowance` and
`Outbox` are stated without reorgs: the code reads receipts, not finality, and
promises nothing about a receipt that disappears.

*Fairness.* Weak fairness of `Process`: RPC and HTTP calls answer or time out
(`submit.rs:94`, `swap_frame.rs:196`), so the process goes on. Of `WaitTimesOut`:
`confirmation_timeout` is a timer around the whole wait. Of `Resume`: the user of
the example resumes a run that is left, as `swap_frame.rs:168` tells them to. Of `Mine`:
a public transaction that can be mined is. Nothing is assumed of delivery, of
the wallet's user or of new runs. `SwapIsResolved` also supposes that crashes and
failing calls stop eventually.

`Rest` (nobody calls) is an explicit stutter of `Execution`, since no caller is
obliged to call; `SetFeeBps` keeps the contract from deadlock, and both runs
check for it. `price_impact` and the two runs of `FileJournal` stop where the
code does (an estimate is returned, every process is gone) and do not check it.
The other modules have no waiting in them: an operation ends with an answer or an
error of each call, so no fairness is stated for them.

## 4. Proofs

A theorem holds for every value of the constants under the assumptions that the
modules name. Three groups of theorems have a hypothesis of their
own (`MaxReorgs = 0`, `MaxReorgs <= 1`, `Alone`), which is discussed with them. Every invariant theorem has the same
frame: the invariant holds initially, one lemma per action shows that the action
preserves it (one step per conjunct that the action can disturb), and the last
step combines them.

### Assumptions

`MaxRunsAssumption`, `MaxReorgsAssumption`: numbers. `FeeMathAssumption`:
`BPS * BPS < Width`, as 10^8 < 2^256. `FeeRouterAssumption`: distinct holders,
well-typed requests and balances. `EvmClientAssumption`: a contract has one
behaviour at a block, a reply means a text exactly if it is of a form the code
reads, and a node that does not answer does not claim that the contract reverted.
`FileJournalAssumption`: broadcasts and resumes are different processes.
`DiscoveryAssumption`: blocks form a tree, and the periphery answers on the chain that
is searched. `DirectSwapAssumption`: the routers' WETH is the one that the SDK was
given (it is immutable in `SwapRouter` and `Router02`; `V2Connect` and `V3Connect`
check it), and trades are between tokens of the model, from the wallet, to an account
that is neither a router nor a pool. The adapters do not check the last: a caller who
names Uniswap's router as recipient gives the output away, and no plan can help that.
`PreparationAssumption`: a deployment creates one pool of an identity (factories
revert on a second, and a V4 identifier is a hash of the key), and the V3 factory
makes V3 pools of positive tick spacing; what a caller writes has the type of its field, and is
not the limits, which are private. `PriceImpactAssumption`: hops are well-typed, amounts
fit a word and inputs are positive, the fee rate is below `BPS`, the constants are
positive, and a word fits the wide integer (2^256 and 2^1024): the code converts one to the other
unchecked (`price_impact.rs:302`). None of them bounds a set.

### Execution

Three invariants, each used in the proof of the next.

* `IInv` (`InvariantHolds`, `TypeCorrect`, `WriteAheadHolds`).
  `WriteAhead` alone is not inductive: a step that writes the journal preserves
  it only if what is written is a version of what was there. While `submit`
  runs, memory equals the journal (`MemoryIsDurable`); the entry being sent is
  the last one, hashed before it is posted (`EntryBeforeSend`); what
  `check_status` or `present` work on has the transactions and hashes of the
  journal (`ScanOfJournal`); the journal belongs to one run that is not archived
  (`JournalOfOneRun`).
* `SafetyInvariant` (`RejectedNeverLandsHolds`, `FailureIsFinalHolds`,
  `SwapAlwaysFindableHolds`, `JournalOnlyLearnsHolds`), for any number of
  reorgs. To show that a rejected request never lands, one needs that a request
  is not out before its entry is pushed, nor twice (`NotSentYet`), and that the
  copy a scan will write back never knows less than the journal (`ScanLearns`):
  otherwise a stale copy could turn `Rejected` into `Unknown`, or hide an entry
  of a second request. Records have at most an approval and then a swap
  (`StoredShape`), so `swap_hash` finds the swap.
* `FinalityInvariant` (`ArchiveIsFinalHolds`, `SettledBeforeNextRunHolds`,
  `SwapFollowsAllowanceHolds`, `ExecutionImplementsOutbox`), assuming
  `MaxReorgs = 0`. The code acts on a receipt as soon as it has one, so whatever it
  concludes from one is true only while it stays (section 3, *Finality*); this is a
  hypothesis of the theorems and not of the model, and the theorems above do not
  have it. Every receipt in every version of a record is that of the chain
  (`ReceiptsTrue`), what `check_status` has scanned is confirmed (`VerdictTrue`),
  and once the simulation has passed the allowance stays, unless `begin` will refuse
  the run (`AllowanceStays`): the exception is needed, since a second run may simulate
  while the first one's swap, still in the journal, is going to use the allowance up.
  The refinement is step by step: each action is an intent, a send, a
  settlement or a closing of `Outbox`, or changes nothing that it sees.

### Fee arithmetic and FeeRouter

* `FeesAgree` and `MinimumIsFloor`. Amount and remainder
  are split by division with remainder; each partial product is bounded by the
  amount or by `BPS * BPS`, so nothing wraps, and the quotient is unique.
* `IInv` (`AccountingHolds`, `TypeCorrect`, `StandingHolds`, `RouterKeeps`,
  `FeeQuoted`): the router's account holds at least what it held at the start, plus the
  reserved fee, plus what the route carries; during a hop the same is true of the
  balances measured before it. The measured difference is then all that a hop can
  add, whatever the venue did. `FeeQuoted` adds `FeesAgree`.
* `SettlementInvariant` (`SettlementHolds`, `NothingStrandedHolds`,
  `FeeRouterImplementsFairExchange`): without gifts the account is *exactly*
  that, except for the two tokens of a hop that is being measured
  (`ExactAccounting`), and every other account keeps what it had, less what it
  offers, plus what it is owed in the end (`AccountsKept`). Inequality is not enough
  for `NothingStranded`, and equality does not hold once somebody sends the router
  money, so both are carried. `PayFee` then maps to the one step of `FairExchange`,
  `Revert` and all others to a stutter.

### DirectSwap

`Ledger(to, c, paid, spent, held)` is the table of balances that differs from the
start by that much spent, paid out in `c` to `to`, and held by the router. `Underway`
says of each kind and each call of a plan which `Ledger` the balances *are*, not
only that they add up; a call of `Step` leads from one to the next, and the last one is
what `LandsWithRecipient` asks for. Recipients read as aliases and the refund decide
which one. `QuoteRight` and `PlanRight` tie the plan to the quote it was built from, and
`QuotedPoolIsReal` follows by going through the checks of each `connect` and `quote`.

### Discovery

`SearchInvariant` holds on any chain: each scope is looked up, completed or failed once,
each answer is what the pinned block gives, and no pool is found that it does not have.
That `join_all` returns only when every tier has its answer is a counting argument
(as many answers as tiers, no two for the same one: every tier has one).
`Complete` for V4 needs `GapInvariant`, under `MaxReorgs <= 1`: as long as the pinned block is
canonical, pages read before it are of its own chain (`NoGaps`); once the chain has left it,
a second reorganization would be needed to come back (`NoReturn`), so the look at the
anchor finds it gone. With two, `discovery_return` has the counterexample: the
hypothesis is exact.

### Preparation

`IInv` says, of the plan that is shown, handed in or about to be sent, that it is what
`build_swap` makes of its quote (`PlanRight`), and of a quote that was not altered that it is
what the adapters answer at its block, hop by hop, with the fee of that block (`QuoteRight`). The argument has
four parts:

* *A quote is what its route pays.* `Requote` chains the adapters' quotes and
  `RouteOutput` the pools that the contract's own deployments have registered under the
  keys of the encoded plan. They are equal (`RequoteIsRoute`), by induction over the
  hops. `HopPays` is the step: a hop that is quoted and encoded is of a genuine pool, and the
  router's deployment has no other with its key.
* *The funding search.* `FundingPools` lists all pools of the tiers that did not fail
  (`FundingPoolsFound`), `Best` is an index whose candidate none exceeds
  (`BestIsBest`), both by induction over the list; a rival of `BestFunding` is
  therefore one of the candidates (`RivalFound`).
* *Refresh.* What passes `Acceptable` lands at the old minimum (`RefreshedLands`).
* *Callers' writes.* Whatever is in `Writes`, `submit_prepared` accepts only a swap whose plan is what
  `build_swap` makes of its quote (`AlteredWritten`, `UnalteredRight`). Since the limits are private the
  minimum follows from that quote, and since the plan names a fee rate and an input, so does the fee;
  the fee amount *shown* follows (`FeeShown`) only while input and block are those that were shown.
  The field itself is not compared with anything, so the invariant says nothing of it in what
  is handed in.

`RouteOutput` used to take any pool with the key of a hop. The proof of `HopPays` could not
exclude the pool of a fork with the same key, and rightly so: the contract asks *its*
factory. `RouteOutput` now does the same, and the fork of the instance pays a rate
of its own, so that a mix-up shows. `PlanRight` had to say that an output is a natural number,
without which a minimum is no bound.

### FileJournal

Under `Alone` (the documented use: `--resume` runs by itself), `pending.json` has one owner at a
time (`OneOwner`): the process that created or resumed it, until it has archived it or is
gone. What the owner has in memory goes on from what the file says (`AtPlace`), what
either says is true of the chain (`RecordTrue`), and only the run of the file has an open
request (`FlightOnDisk`). From these follow `NothingForgottenHolds`, `OneUnresolvedHolds`,
`ArchiveTrueHolds` and `ArchiveKeptHolds`. Without `Alone` the first conjunct fails, which is the
counterexample of `file_journal_shared`. The first attempts were not inductive: a
process that is resumed must not be in a place that only a broadcast has (`RolesKept`), and
`RecordTrue` must hold of torn, old and new content alike.

### PriceImpact

The theorems are about routes of any length, integers of any width and all prices, among them
those that are zero. The argument has five parts:

* *Lowest terms.* `GcdIsGreatest`: what `Euclid` finds divides both numbers and is a
  combination of them, so every common divisor divides it (`EuclidFinds`). From this
  follow the usual facts about coprime numbers, and that a fraction can be written in lowest terms in
  one way only (`LowestUnique`).
* *Multiplication.* `MultiplyLowest`: `multiply` gives the product in lowest terms, and nothing
  exactly if that does not fit. This is why reducing before multiplying is enough: what is
  multiplied has nothing left in common, so no smaller numbers would do.
* *Chains.* The loops of `market` and `after_fee_reference` are such multiplications one after the
  other, one factor for each hop in the first and three in the second (price, pool fee, tax);
  `ChainIsProduct` says that unless a loop gives up, it is at the exact product of the factors so
  far. `Exact` and `GivesUpOnlyIfItMust` are the two halves of this.
* *Order.* `Under` compares fractions by their cross products. Fees and taxes only lower one
  (`UnderHop`), hence the net amount after fees is at most the gross amount at spot prices; and
  basis points, truncated toward zero, keep that order on both sides of zero (`UnderOrdered`),
  which is `CostsAtLeastImpact`.
* *Answers.* `AnswersRight` is what makes `report` one of this route: each answer is of a hop and
  no two of the same one, so when there are as many as hops, every hop has one
  (`ReferencesTotal`). `KnownCosts` follows from what a reference of each kind can be
  (`ReferenceRight`).

`Exact` could not be proved as it stood: for a pool with both reserves zero its reference
definition divided zero by zero. `AllFit` now requires positive factors, as `multiply` does, and an
instance of the run has that pool. The recursion of `Euclid` is over pairs, since a
function of two arguments in TLA+ is one, and the product is a function of the number
of factors, whose existence is proved before its steps are used
(`EuclidRecurs`, `ProductsStep`).

### EvmClient

`PartsAreTrue` and `ReadsImplementPinnedRead`. `ReadsAreAtomic` cannot be proved
from the answers alone: `GotTrue` says that whatever has been read of the
operation under way is true at its block, whatever the node serves by now, and
`Phases` that there is one operation at a time. Each step of the client is
then a step of `PinnedRead` or a stutter; `Join` maps to `Answer` because all
parts of one contract are its whole answer (`JoinIsTruth`).

### Induction

The induction theorems of the library take an operator as a parameter, which the installed provers
cannot instantiate. The inductions over hops, candidates and numbers use a *set* of numbers
instead, which has a least element (lemmas `Least` and `Induction`, in `PreparationProofs` and
`PriceImpactProofs`), and a recursive function is shown to exist by giving one. The modules need no
`RECURSIVE` operator.

### What is only model-checked

Every safety property of a passing run, every action property and every refinement is
also a theorem. What remains with TLC is liveness, `CallReturns` and `SwapIsResolved`: the prover
does not treat fairness (`ENABLED`).

## 5. Not modelled

* ABI encoding, calldata and pool addresses: a call is the record of its fields,
  and CREATE2 and V4 identifiers are what they hash. JSON and file formats,
  command-line options, decimal amounts, prompts and printing; the fee fields of a transaction and gas.
* OpenZeppelin's two-step ownership; tokens with transfer tax or rebase (refused
  by the contract).
* Uniswap itself: a pool pays its rate times the input (`Output`), and each hop is
  quoted by itself, as the code does. `WouldLand` is about the block of the
  quote; a sandwich between quote and block ends in a revert, not in a worse price.
* `permit2_allowance` and `preview` only read. A V4 pool given by its identifier is resolved in
  `Discovery`; `Preparation` starts from the pool. `Usdc = {}` there, since
  `ROBINHOOD_USDC` is `None`, so `BuyWith::Usdc` is refused.
* `build_unsigned` after `sign_request` (`execution.rs:492`): the wallet has just built the same
  request, so its error cannot occur.
* A native-currency swap in `Execution` needs no approval and takes the path of
  a sufficient allowance. The deadline is one event, `Expire`, in `Execution`, and part
  of `Revert` in `FeeRouter` and `DirectSwap`. In `Network`, transactions of the
  wallet that the SDK did not send are left out; so are two processes with
  *different* journals on one wallet, whose nonces the code leaves to the node.
* Finality: a receipt that a reorg removes changes what a past verdict said
  (`execution.rs:801`); the code promises nothing about it, so no property does.
* `EvmClient` compares the chain's id when it connects, not at each read; a node that
  moves to another chain does not have the block, which is what `At` says. The
  check before sending is in `Execution`.
* The archive name of a rejected run is its nonce. A later run rejected under the
  same nonce replaces its record, also that of its mined approval;
  `NothingForgotten` and `ArchiveKept` are stated so that they say no more.
* `PriceImpactUnavailable::RepeatedPool` of `price_impact.rs:50` is never returned: a route that
  visits a pool twice is measured with its pre-trade price for both hops, as the test at
  `price_impact.rs:911` expects. `PriceImpact` has such routes.

## 6. Plan

Done: all modules of section 2 and the proofs of section 4. What is left:

1. **Nonces** (`execution.rs` 356-438, 470-531): two executions of one wallet with
   journals of their own, locally signed, reading and using the same nonce.
2. **Finality**: should the code come to wait for confirmations, the hypothesis `MaxReorgs = 0`
   of the theorems on `FinalityInvariant` becomes a bound on the depth of a reorganization.
