# Whippet services: TLA+ models and proofs

Whippet is a Dogecoin/Bitcoin Core fork whose chain carries *UAP positions*:
outputs that lock coins and belong to a token lineage. Around the node stand
two Go services: `contrib/uap-indexer`, which follows the node, indexes
positions, relays sell orders and broadcasts fills, and `contrib/faucet`. This
directory models the stateful parts of these services and the node's rules for
positions, checks the models with TLC on small instances, and proves the
central properties with TLAPS.

## Inventory of the system

| Part | Source | State and actors |
|---|---|---|
| Block index | `index.go`, `store.go` | SQLite tables of positions, UTXOs, heights with undo logs, tip; one writer under `idx.mu` |
| Lineage summaries | `store.go` | per-lineage supply, holders, positions, mint; updated per position, never recomputed |
| Order book | `orders.go`, `cancel_auth.go` | orders and tombstones; HTTP handlers, cancel nonces and signatures |
| Synchronisation | `main.go` | poll loop: reorg walk, apply loop; the node moves underneath it |
| Pending spends | `mempool.go`, `api.go` | set of positions with an unconfirmed spender; poller and broadcast handlers |
| Mirroring | `mirror.go` | pulls a peer's orders, one goroutine |
| Read API, paging, status | `api.go`, `page.go` | reads of the tables |
| Rate limiter | `ratelimit.go` | bucket per client, eviction loop |
| Parsers | `script.go`, `metadata.go`, `amount.go` | pure |
| Script builders | `uaptx/script.go` | pure |
| Faucet | `faucet/faucet.go` | table of claims; one goroutine per request |
| Liquidity engine | `faucet/liquidity.go` | purchase ledger, cached indexer data; no caller outside its tests |
| Wallet | `uap-js`, `uap-web` | browser code |
| Node: UAP rules | `validation.cpp`, `script/interpreter.cpp`, `script/script.cpp` | the unspent outputs; blocks, and a mempool in front of them |
| Node: the rest | `src/src` | P2P, wallet, Qt interface; the inherited code base |

## Modules

| Module | Models | State | Actions |
|---|---|---|---|
| `Chain` | the block tree the node serves | none (constants) | |
| `Index` | block index and order book | tables, tip, pruning bound, latched store error | `ApplyBlock`, `UndoBlock`, `Reset`, `PublishOrder`, `AdoptMirroredOrder`, `CancelOrder`, write failures, `Restart` |
| `Withdrawals` | `Index` with a memory of every withdrawal | a history variable | those of `Index` |
| `Market` | what the index promises the marketplace, abstractly | open positions, funds, listing | connect, disconnect, rebuild, list, withdraw |
| `Sync` | the poll loop on top of `Index` | the node's tip, the loop's program counter and locals | one per RPC or index call of `syncOnce`, the node's moves, crashes |
| `PendingSpends` | poller and broadcasts | node mempool, pending set, both actors' locals | one per RPC and per hold of the lock |
| `Lineage` | lineage summaries | position, lineage and holder tables, undo logs | `ApplyBlock`, `UndoBlock`, folded over inputs and outputs as the code loops |
| `CancelAuth` | nonces and cancel signatures of one outpoint | clock, last nonce, order, undo log, tombstone, signatures | publish, adopt, sign, cancel, spend, undo, restart |
| `Faucet` | the claim handler | clock, claims table, payments, handlers' locals | one per query, RPC and insert |
| `RateLimit` | the rate limiter, for one client | map entry, requests' references, each bucket's tokens and age, a meter | look-up, take, the eviction loop's test and its delete, tick |
| `Uap` | the node's rules for positions | every output created, the unspent ones, height; how many predate activation (history) | `Connect` (a transaction of a block), `BlockEnds` |
| `UapScript` | the node's and the indexer's parsers, the builder of the Go package `uaptx` | a script | it grows by an element |
| `IndexProofs` | theorems about `Index`, `Market` and `Sync` | | |
| `OrderProofs` | theorems about `PendingSpends` and `CancelAuth` | | |
| other `*Proofs` | theorems about the module of that name | | |
| `Sums` | lemmas: induction over naturals and finite sets, recursion, sums | | |
| `MC*` | constants for TLC | | |

`Index` states a block's effect on the tables as a set expression rather than
as the code's loop over transactions; the two agree because within one chain an
output is created once and spent at most once, which `Chain` assumes of the
tree (consensus). Each commit is atomic, as in the code, and its failing outcome
is a separate action. `Lineage` keeps the loop: its running totals depend
on the order of single additions and subtractions. A block there is the list of
outpoints its transactions spend and make, in the order `applyBlock` meets them.
What the node accepts is a guard (`Valid`): a block spends what is unspent, makes
what is new, and leaves no lineage worth more than 64 bits hold. The last
follows from `BackingBounded` of `Uap` and from `MAX_MONEY`, the limit of a
single mint. It is a bound for each lineage: the subsidies of the first four
million blocks already add up to more. An origin names one mint (`OriginAssumption`):
it is the hash of the mint's outpoint.

Three specifications stand above one another. `Market` knows neither tables nor
failures: it shows the open positions and spendable outputs of one chain, and
carries the listing along when the chain moves. `Index` implements it
(`ImplementsMarket`): the mapping takes the unspent rows, the UTXO rows and
their join with the orders, as `orderQuery` does. `Sync` implements `Index`
(`CallsAreDisciplined`), with the same variables.

`Uap` names a lineage by the number of the output that minted it, in place of
the SHA256 of its outpoint, and sees a script as what `ParseUapOutputScript`
makes of it; `UapScript` is about that parser. A reorg on the node's side
returns to an earlier state of `Uap` and is no action of it. Script checks are
always run (no `-assumevalid`). The creation rule is not enforced before
activation, so a transfer may then name any lineage, also one whose mint comes
later. The model makes such transfers; the origins they name are `Squatted`, and
`Provenance`, `BackingBounded` and `PositionsCanMove` are about all others: of a
lineage named before activation the rules promise nothing, as the code's own
comments on the activation height imply.

`RateLimit` measures time in ticks and tokens in fractions. Its `meter` is an
observer: by how much the requests allowed in some period ending now exceed the
rate times its length, at most. The eviction loop tests a bucket under its lock
and deletes it after releasing that lock, so a request that fetched the bucket
earlier may use it in between; `evicting` is the loop between the two.

The name of each mutated definition carries a suffix (`UTXOsUndone_All`,
`Compare_Eager`): it is the definition with one plausible mistake in it, used to
confirm that the property it is paired with notices.

## What the runs check

Passing runs:

- **sync** – the index, driven by the poll loop. The tables are those of the
  chain the tip names (`IndexMatchesChain`), what can be undone is the top of
  the chain (`UndoWindowIsTheTop`), no order stands for a spent position
  (`NoOrderForSpentPosition`), the fragment last withdrawn on an outpoint is not
  brought back by a mirror (`LastWithdrawalSticks`), and the index implements
  `Market` (`ImplementsMarket`). The loop uses the index as `Index` prescribes:
  `Sync` implements `Index!Spec` (`CallsAreDisciplined`) as long as the node does
  not switch chains during a poll. It gives up one block at a time, and only
  blocks the node has left, or else the whole index, and that only when the
  tip's undo log is pruned (`StopsAtFork`). It reaches the node's tip
  (`CatchesUp`).
- **pending** – a rebuild keeps what the node still lists
  (`RebuildKeepsListed`), and the set settles on the mempool's spends
  (`Converges`).
- **lineage** – summaries and holder rows equal their definition over the
  unspent positions (`LineageMatchesPositions`), undoing a block brings back
  every table as it was before it (`UndoRestores`), and the served supply is the
  saturated sum (`SupplyIsSaturatedSum`).
- **cancel** – nonces follow publications (`NoncesIncrease`) and a signature
  matches one publication (`SignatureNamesOnePublication`), with a clock that
  may stand still and a restart that takes it past the nonces issued.
- **faucet** – what the checks do bound: with two requests in flight, a client
  has at most two claims logged within 24 hours (`LoggedPerWindow`), and a day's
  logged claims exceed the limit by at most one (`DailyLimitSlack`). They speak
  of claims logged; a payment whose insert failed is in no table. The limits as
  documented are checked by faucet_limits.
- **uap** – every position descends from a spent mint of its multiplier that
  paid the entry fee (`Provenance`); a lineage's unspent positions are never
  worth more than its mint (`BackingBounded`), however they are split, merged or
  swapped with others; none becomes too large to move (`PositionsCanMove`), all
  of lineages not `Squatted`. What the mempool takes the next block takes, and
  so does the one after it, also across activation (`PooledStaysMinable`), with
  one exception the property spells out: a transfer of a lineage the transaction
  does not spend is taken before activation, and no block takes it afterwards.
  The run also enumerates scripts: the two parsers find the same positions
  (`ParsersAgree`), and a position has one script, the one `uaptx` builds
  (`OneEncoding`).
- **ratelimit** – over any period a client gets no more than rate and burst
  allow, plus what requests can take from a bucket evicted under them
  (`RateBound`, which is attained); a client that stays away is forgotten
  (`IdleIsEvicted`).

Runs that end in a counterexample, each to a statement made in the code or its
documentation:

| Run | The code says | What happens |
|---|---|---|
| sync_race | the index is brought to the node's tip, rolling back to the common ancestor first | the node reorganises during the apply loop; nothing compares a block's parent with the tip |
| sync_spin | stop and report on a latched store error | in the reorg walk the tip no longer moves, and the walk never ends |
| pending_race | when a broadcast is answered its order is gone from the book | a rebuild begun earlier replaces the set and the order is back until the next poll |
| withdrawals | a withdrawal is remembered, so that mirroring cannot undo it | an outpoint has one tombstone: withdrawing a second fragment forgets the first, and a mirror brings it back (`WithdrawalsStick`) |
| faucet_limits | one request per 24 hours; a maximum of claims per day | a claim is logged after it is paid: a request checked in between is paid too. A failed insert has the same effect (`LimitsAreKept`, about payments) |

Seen in the models and not given a run:

- a failed read of a height's hash looks like a height never indexed, and the
  fork is not rolled back (`StoreReadsFail` of `Sync`); a failed read of the
  position table during a rebuild drops a pending spend (`StoreReadsFail` of
  `PendingSpends`);
- the nonce is said to differ on every publish, but a clock set back across a
  restart repeats one (`Dependable` of `OrderProofs` excludes it);
- a reorg exactly as deep as the window already forces a rebuild (`main.go`, the
  flag's help says "deeper");
- a mirrored order already on the book is stored again with a new nonce;
- `GetOrder` reads the order and then the pending set, so a fill confirmed in
  between leaves an answer of two moments; the listing reads them in the other
  order.

## Bounds

- `MCTree`: seven blocks, with forks of different depth, a block that creates
  and spends an output, and one output spent on both sides of a fork. With a
  window of two every relation of reorg depth to window
  occurs: inside it, at its edge, past it.
- `MCSync`: one crash, two fragments for one of the positions; the node may
  take any tip of the tree. `MCWithdrawals` has the same fragments.
- `MCPending`: two transactions competing for one position, one of them
  spending a second position too, so a rebuild and two broadcasts can overlap
  with partial results. No counter is bounded.
- `MCLineage`: twelve kinds of transaction, two of them burns, in blocks of
  one or two, chains of up to five; `MaxInt64` is 11, so supply is reached on
  both sides of the limit (the values themselves fit, as the node ensures).
- `MCCancelAuth`: four publications of two fragments, clock readings up to 5,
  one restart.
- `MCFaucet`: a day of two clock units, two addresses, one cookie, two
  interchangeable requests in flight, three payments (`MaxClaims`), clock up to
  2 (`MaxTime`): midnight passes and a claim of the first day expires.
  `MCFaucetLimits` has one address, no cookie, a daily limit of one, and inserts
  that may fail.
- `MCUap`: seven outputs in all (`MaxOutputs`), transactions of up to two
  inputs and two outputs, two multipliers, mints at and below the fee of 2,
  values up to 3, a balance bound of 4 that a merge of two positions reaches and
  one mint exceeds; activation at the second of two blocks (`MaxHeight`). Before
  it at most one output is added to the three of the start (`MaxEarly`), which
  may be a transfer of a lineage that is still to be minted or spent. Three
  starts, with mints of either multiplier below, at and above the fee.
- `MCRateLimit`: three requests in flight, so that two older buckets can be held
  at once; a token is 2 fractions, a tick brings 3, so refills leave remainders;
  the timeout of 4 ticks is just enough for `RefillAssumption`; ages are counted
  to just past it (`MaxAge`). No other bound.
- `MCUap`, for scripts: bytes of 16 values, direct pushes up to 4 bytes, script
  numbers of 2 bytes for the node and 4 for the indexer: every boundary of the
  encoding lies inside, and each element also occurs in non-canonical form,
  truncated, or as the wrong opcode.

## Fairness

`FairSyncSpec` assumes weak fairness of the poll loop's steps: a goroutine on a
ticker. `CatchesUp` is conditional on the node holding still, answering, having
a chain at least as long as the index, and on the store writing. `FairSpec` of
`PendingSpends` assumes weak fairness of the poll loop and of each broadcast
handler, which run to their end; RPCs may fail, and `Converges` is conditional
on a quiet mempool and a node that answers. `FairSpec` of `RateLimit` assumes
that time passes, that the eviction loop, a ticker, keeps running, and that a
request which has looked its bucket up goes on to use it. Nothing is assumed of
the node or of clients.

## What is proved

Each theorem holds for every value of the constants that satisfies the named
assumptions of the modules; TLC evaluates these on the instances.

**Index** (`IndexProofs`), for every block tree that satisfies `Chain`'s
assumptions, every reorg window, every set of fragments:

- `TypeCorrect`, `WindowCorrect`, `IndexCorrect`: from `IndexInv`, which adds
  to `IndexMatchesChain` that each retained undo log is the log of the block of
  that height in the indexed chain. Without it `UndoBlock` could not be shown to
  return the tables of the parent. The two facts behind it are `ApplyIsRight`
  (tables of the parent's chain to tables of the block's) and `UndoIsRight`
  (the reverse, by the block's own log).
- `NoSpentOrders`, `WithdrawalSticks`: from `BookInv`, which adds that orders
  in undo logs belong to positions spent by that log's block, so a restored
  order is always one of an unspent position. `WithdrawalSticks` is about the
  withdrawal on record, the last one of an outpoint; that earlier ones stick too
  is what the run withdrawals refutes.

**The marketplace** (`IndexProofs`): `IndexImplementsMarket`, from both
invariants. Applying and undoing map to `Connect` and `Disconnect`, a rebuild to
`Rebuild`, the order calls to `List` and `Withdraw`, failures and restarts to
stuttering.

**Synchronisation** (`IndexProofs`), on condition (`Steady`) that the node
only extends its chain during a poll and that reads of the store succeed;
sync_race shows that the first part is needed. `SyncInv` adds to `IndexInv`
that the hash the walk compares is that of the node's block at the tip's height,
and that once the walk is over, unless a store error is latched, the tip is in
the node's chain and the height to fetch next is the one above it. From it: `SyncTypeCorrect`; `SyncIsDisciplined`, so that
all that is proved of `Index` holds behind the poll loop (`SyncKeepsOneChain`);
`WalkStopsAtFork`, in which going back to the empty index is allowed only when the
tip's undo log is pruned. `ChainAssumption`, one block at each height of a chain, is
used here: the loop fetches by height.

**Lineage summaries** (`LineageProofs`), for every set of positions, holders and
lineages, every block and every depth of reorg: `LineageTypes`,
`SummariesMatchPositions`, `UndoIsExact` and `SupplyIsExact`, all from
`LineageInvariant`. That a row equals its definition is not inductive: `UndoBlock` trusts its log, and it
restores positions to a total that could be pinned. `IInv` therefore adds that
the logs lead back, block by block, through position tables in which every
lineage's value fits (`HasHistory`; `Inverts` says what a log must have recorded
of the two tables it lies between). The argument has three levels:

- one row: `AddKeeps` and `RemoveKeeps`, for a position that becomes unspent or
  ceases to be, whether or not it is the holder's only one, the lineage's last
  one, or its mint;
- one block: `BlockApplied` and `BlockUndone`, by induction over the loops of
  `applyBlock` and `undoBlock`, in which a position the block itself made may be
  spent, and is then undone as created and left alone as spent;
- the chain: `ApplyKeepsIInv` and `UndoKeepsIInv`.

`UndoIsExact` joins the two halves of the middle level: the log a block leaves
tells the new position table from the old one, so undoing gives the old one
back, and positions determine the rows (`SameRows`).

`SupplyIsExact` adds that `satMul`'s test by division is exact (`DivisionTest`)
and that scaling a sum scales its terms (`SumScale`).

**Pending spends** (`OrderProofs`), if reads of the store succeed:
`TypeCorrect` and `RebuildKeeps`. `PendingInv` says that no two transactions
the node holds or has listed spend one output, that an entry names a spender of
its position, and that a rebuild in progress has kept the entries of the
transactions it is past.

**Cancel signatures** (`OrderProofs`), for every clock, number of
publications and restarts:

- `CancelTypeCorrect`, without condition;
- `NoncesOrdered`, `SignatureSound`, on condition (`Dependable`) that the
  process does not restart, or that the clock never goes back and a restart
  takes it past every nonce issued. `CInv` adds that every remembered nonce is
  bounded by the last one issued, or, across restarts, by the clock.

**Faucet** (`FaucetProofs`), for any number of handlers, clients and days:
`TypeCorrect`, `WindowBound`, `DailyLimitBound`. The invariants `IpInv`,
`CookieInv` and `DayInv` count the requests past their check together with the
claims logged in a window that is still open: their sum is at most the number of
handlers (plus the limit, less one, for a day). The claims alone are not
inductive: a request past its check may add to them at any time.

**The node's rules** (`UapProofs`), for every set of transactions, fee, bound and
activation height, whatever was created before activation: `TypeCorrect`, and

- `PositionsDescendFromMints`: `Provenance` is inductive together with the types.
  The creation rule ties an output to an input, the input to its mint, and a
  mint's first spend to the fee. An output made before activation puts its
  origin among the `Squatted`, which never shrink (`SquattedGrows`);
- `MempoolAgreesWithBlocks`: the mempool applies the rules of the next block,
  and of those only the creation rule can turn from off to on under a
  transaction it has taken;
- `LineagesStayBacked`: `BackingBounded` is inductive given `Provenance`. The
  outputs of one lineage in a transaction are worth at most its inputs of that
  lineage, so the sum over the unspent ones cannot rise, except when the mint
  is spent, and then all there is of the lineage is what replaces the mint;
- `PositionsNeverStick`: a position is worth no more than its mint, and a spent
  mint passed the bounds of `OP_MINT` (`SpentMintsWereChecked`), which are those
  of a transfer.

**Scripts** (`UapScriptProofs`), for every radix, push limit and size of numbers that
satisfy `ScriptAssumption` (a byte has a top bit; small integers have opcodes
below `OP_MINT`'s; the indexer takes numbers at least as long as the node's):

- `IndexerReadsAsNode`: the two parsers find the same positions in every script.
  A number the indexer takes and the node does not is past the largest
  multiplier;
- `ScriptsAreCanonical`: a covenant has one script, the one `uaptx` builds.
  It rests on lemmas about numbers in bytes: minimal bytes, read as a number, are
  what the builder writes for it (`ReadThenWritten`), and what it writes is
  minimal and reads as the number (`WrittenThenRead`).

**The rate limiter** (`RateLimitProofs`), for every rate, burst and number of
requests in flight that satisfy `RefillAssumption`: in the ten minutes after
which a bucket is evicted it gains a burst and one token for each request in
flight. By the flags' defaults that holds up to 2950 reads or 290 writes of one
client at once. `TypeCorrect` and `RateIsBounded`. The
bound on the meter is not inductive: `RateInv` bounds it together with the
tokens of the bucket in the map and with what requests holding evicted buckets
may still take, and says that what was allowed before the bucket's last use has
worn off when the bucket is old enough to be evicted. A bucket the loop has found
stale counts as gone from the map, though not yet deleted (`Entry`): no request
can fetch it any more, and those that hold it are among the others.

**Induction** (`Sums`). The library's induction theorems take an operator as a
parameter and cannot be used with the provers at hand. `Sums` states them for
sets instead: a set that holds 0 and with each natural the next one holds all
naturals (`NatsBySteps`), likewise for the subsets of a finite set
(`SubsetsBySteps`). From these follow that a recursion over the naturals has a
solution (`NatRecursion`), by which the models' loops are unfolded, and the laws
of sums over finite sets (`SumAdd`, `SumUnion`, `SumMonotone`).

Model-checked only: the liveness properties (`CatchesUp`, `Converges`,
`IdleIsEvicted`), which need fairness. Every safety property of the passing runs
has a theorem.

## Not modelled

- The liquidity engine of the faucet and `uaptx`'s coin selection: nothing but
  their tests calls them.
- Schema versions: one comparison at start-up, without a migration. The
  transaction-index probe: a diagnostic.
- Metadata, amounts, paging, HTTP, JSON and HTML: conversions and layout.
- Client address extraction: parsing of one header.
- Lost commits after a power cut (`synchronous=NORMAL`): what remains is an
  earlier committed state of all tables, in which the invariants hold; the
  latest orders are lost.
- Cryptography: a signature is equality of the signed message, a hash is
  injective.
- The browser wallet: what it sends is an input of the models.
- The inherited node, its Qt interface and the translations, which make up most
  lines of the repository: it appears as a chain, a mempool and an RPC interface
  that may fail.
