# A TLA+ verification of SatsPath

SatsPath lets a name (`alice@example.org`) be resolved to signed payment
methods, keeps every published profile in a public append-only transparency
log, has independent witnesses cosign the log's checkpoints, and pays through
Lightning/on-chain swaps. This directory holds TLA+ models of its parts, the
TLC configurations that check them on small instances, and TLAPS proofs of
their main properties for every instance. The models are translated from the
Rust sources under `src/crates/`; `PROJECT.json` maps each definition to the
lines it stands for.

To check: `tlc -workers 2 -config MCSwaps.cfg MCSwaps` for a run (the table
below pairs modules and configurations), `tlapm SwapsProofs.tla` for a module
of proofs.

## 1. The system

### Parts, their state and their operations

| Part (sources) | State it keeps | Operations | Modelled in |
|---|---|---|---|
| Transparency log (`satspath-core/src/transparency/{types,verifier,log}.rs`) | name events, checkpoints; everything is a pure check on them | `verify_name_event`, `verify_transition`, `prepare_append`, `prepare_checkpoint`, `prepare_operator_rotation_checkpoint`, `verify_full_replay` | `TransparencyLog` |
| Transactional store (`transparency/database.rs`, called from `satspathd/src/handlers/{profile,transparency}.rs`) | SQLite tables `name_events`, `checkpoints`, `profiles`, `operator_state`, `anchors` | `load_log`, `commit_profile_event_checkpoint`, `replace_latest_checkpoint` | `TransparencyStore`, abstractly `NameDirectory` |
| Witness (`satspath-witness/src/lib.rs`) | one pin file per log, one temporary file, equivocation records | `process_checkpoint`, `verify_quorum` | `Witness` |
| Swaps (`satspath-swaps/src`) | `swaps.json`: one record per swap with its keys | create, wait/claim/refund for submarine, reverse and chain swaps; remove | `Swaps` |
| Daemon (`satspathd/src/{server,router}.rs`, `handlers/`) | wallet, identity keys, operator key, a mutation lock, a semaphore of permits | update, verify a challenge, rotate, claim, broadcast, send, list invites, mark notifications read | `Daemon` |
| Invites (`satspath-core/src/invite_store.rs`) | `invites.json` | add, claim, expire, notify | `Daemon` |
| Resolution and client pins (`satspathd/src/handlers/resolve.rs`, `transparency/store.rs`) | the pinned checkpoint of the log, a temporary file | `resolve_profile`, `pin_verified` | `Resolution` |
| Merkle tree and sparse state map (`transparency/{tree,proof,state_map}.rs`) | none (pure) | roots, inclusion and consistency proofs, state proofs, their verification | `MerkleTree` |
| Payment router (`satspath-router/src/{router,scoring,priority,urgency,lightning,onchain,ark,ark_routes,split_payments}.rs`) | none (pure) | route selections, scores, splits | `Routing` |
| Fee estimator (`satspath-router/src/fees.rs`) | a process-wide cache | ask the sources, median, cache, decay | `Fees` |
| Quotes, sends and previews (`quote_response.rs`, `satspathd/src/handlers/{quote,send}.rs`, CLI `pay`, `preview`, `quote`, wasm quote) | a request in progress | resolve, check, select, fetch an invoice, answer | `Payments` |
| BOLT12 (`satspath-router/src/bolt12.rs`) | none (pure) | integers, TLV streams, blinded paths, offers, requests, invoices | `Bolt12` |
| Silent payments (`satspath-router/src/silent_payments.rs`) | none (pure) | address, outputs, scan, spending key | `SilentPayments` |
| Ownership proofs (`satspath-core/src/ownership.rs`, `ark.rs`) | none (pure) | build, attach, verify, trust of a method | `Ownership` |
| Resolver chain (`satspath-core/src/resolver.rs`, `resolvers/`, `bip353.rs`, wasm `resolver.rs`) | none (pure, of what the sources answer) | registry, BIP-353, HTTPS, Nostr in order | `Resolvers` |
| Rate limiter (`satspathd/src/rate_limit.rs`) | token buckets per address | admit, refill, prune | `RateLimiter` |
| Receiver wallet of the command line (`satspath-cli/src/commands/{wallet,register,proofs,peer,keystore}.rs`, `satspath-core/src/{registry,rotation}.rs`) | `registry.json`, `wallet.json`, identity key files | init, add methods, rotate, register, attach a proof, import, export | `LocalWallet` |
| Replica selection, execution gate, peer registry, migration, attestations, post-quantum signatures | none of the programs' state | | not modelled, see section 8 |

### How they interact

A request of the daemon takes a permit, on some routes the mutation lock, loads
the wallet, edits it, loads the log from the store, builds and signs an event,
has the operator key sign a checkpoint, and commits both in one SQLite
transaction; then it saves the wallet and, for a claim, the invites. An
anchoring request takes the latest checkpoint, awaits Bitcoin, and replaces the
row. Witnesses are handed checkpoints by the operator, compare them with what
they pinned and cosign; a resolver accepts a checkpoint with K cosignatures.
Swap calls talk to the exchange over HTTP and a WebSocket and share one store
file. A payment request resolves a name through the chain, checks the signed
profile, filters its methods by their ownership proofs, selects a route with a
fee estimate that all requests share through one cache, and may fetch an invoice
from the recipient's server. The command line keeps its own registry, wallet and
keys in one home directory.

### What is hard here, and what makes each part correct

* **Log and store.** `load_log` is three statements without a read transaction;
  a publisher loads once to prepare, once to commit, and checks two counts and
  a hash inside the transaction. Correct means: no handler works on a mixture of
  two states, no update is lost, nothing is rewritten, a name changes only under
  its owner's key, and the database opens again after every commit and crash.
* **Witness.** The pin is written to a temporary file and renamed, the
  cosignature follows; calls run at once and share one temporary file name; the
  operator may show different branches to different witnesses. Correct means: nothing
  is cosigned that the durable pin does not extend, and no two accepted checkpoints
  are on different branches. Where two calls save over each other's pin the code does
  not promise this, and the models say exactly when that is.
* **Resolution.** Row and log are read in four statements, the pin is read twice
  and written through a temporary file that all resolutions share, and the
  database may be put back to an earlier state. Correct means: an answer is
  proved by its checkpoint, whatever was answered is pinned, no two answers are
  on different branches. The last two fail once two resolutions race (section 6).
* **Swaps.** The exchange's statuses arrive at any time, or not at all; the
  store is rewritten in full and not atomically; a crash falls anywhere. Correct
  means: the keys of a swap whose address was handed out are on disk, the record
  never claims more than the exchange has said, and a call ends. The first fails
  where a rewrite of the file is cut off or overtaken (section 6), and in no other
  way.
* **Payments.** Seven entry points make the same decisions in code of their own;
  fee sources and invoice servers answer late, wrongly or never, and overlapping
  fetches share a cache. Correct means: what the user is asked to pay belongs to
  the recipient and is for the amount asked, and a minority of lying sources does not
  set the price.
* **Receiver wallet.** A command writes up to three files, one of them not
  atomically, and anyone can hand over a profile to import. Correct means: the
  wallet can always sign for what it published, no import moves an alias to a
  foreign key, and no proof of a replaced identity stays behind.
* **Algorithms.** Proofs, codecs, key derivations and selections are right on
  the inputs somebody tried. Correct means: they agree with their definition on
  all inputs of a bounded set, forged ones included, and where they do not recurse
  on all inputs (section 5).
* **Rate limiter.** Workers take the time first and two locks later, so that they
  reach a bucket out of order, and one of them prunes meanwhile. Correct means: no
  client gets more than its burst and what flows back, nor waits longer than told.
* **Daemon.** A request spans up to four files. Correct means: no crash or
  failed write loses the key of a name, one operator key signs the log, an
  invite counts as claimed only when its recipient's profile is public.

The full list, each hazard at its line with the properties that would catch it,
is `hazards` in `PROJECT.json`.

## 2. The modules

```
CommonLemmas          facts on IsPrefix, on sequences and on numbers
TransparencyLog       events, checkpoints, verification, preparation (no state)
  TransparencyStore   the database and concurrent handlers; INSTANCE NameDirectory
    MCTransparencyStore
    Resolution        resolvers and the pin file over the store
      TransparencyProofs (of the store and of resolution), MCResolution
NameDirectory         abstract: who owns a name, in which version
Witness               pins, temporary file, calls, cosignatures, quorum
  WitnessProofs, MCWitness
Swaps                 swap calls, the exchange, the store file
  SwapsProofs, MCSwaps
Daemon                requests over the home directory
  DaemonProofs, MCDaemon
Bolt12                codec, offers and invoices (no state)
  Routing             route selections, scores and splits (no state)
Fees                  fetches and the shared fee cache
  Payments            requests from a name to a payload (extends Fees, Routing)
    PaymentsProofs
    MCPayments        the profiles, servers and fee sources of the payment requests
LocalWallet           commands over registry, wallet and keys
  LocalWalletProofs, MCLocalWallet
RateLimiter           concurrent workers over the token buckets
MerkleTree, SilentPayments, Ownership, Resolvers
                      algorithms (no state)
  MCAlgorithms        runs the limiter and the requests of MCPayments, and tries
                      each algorithm, Bolt12 and Routing on every input of a
                      small set
  AlgorithmProofs     of the limiter, SilentPayments, Ownership, Resolvers
```

A definition named `X_Something` next to a definition `X` is a deliberate
defect in `X`, listed under `mutants` in `PROJECT.json`: with it in place of `X`
TLC refutes the property it is listed with.

### TransparencyLog

A hash is its content: the hash of an event or a checkpoint is the chain of
the signed contents up to it (`EventHash == Seq(EventCore)`), a Merkle root is
the sequence of its leaves, a state map is a function from identifiers to hashes. A signature is
the key that made it; a rotation statement is the set of keys that signed it.
This is the assumption that SHA-256 has no collisions and signatures cannot be
forged. `VerifyGenesis` and `VerifyTransition` are `verify_name_event` and
`verify_transition` for each action; `VerifyCheckpointTransition` and
`OperatorContinuity` the rules between successive checkpoints;
`VerifyFullReplay` what every open does; `PrepareAppend`,
`PrepareCheckpoint` and `PrepareOperatorRotation` what a publisher builds.

### TransparencyStore

`events`, `checkpoints`, `profiles`, `operator_state` and `anchors` are the
tables; `job[h]` is what a handler holds in memory; `clock` is `Utc::now()`.
One action per step at which another handler can run: `BeginPublish` (the row
is read), `ReadEvents`, `ReadCheckpoints`, `LoadSucceeds`/`LoadFails` (the third
read and the replay), `Prepare`/`PrepareRejects`, the three reads again,
`Validate`/`CommitRejects`, and `Commit`/`CommitConflicts` (the write
transaction). Anchoring: `TakeLatest`, the await, `AnchorLatest` or
`AnchorConflicts`/`AnchorFails`. `Crash` forgets all handlers.
`Proposals` lets a handler try every event the callers of the store can build,
under any key: whoever asks may be a stranger to the name. `Revoke` has no
route in the daemon but the store accepts it, and operator rotation is an
operation of the library; both are included. `open` replays the log once more
than modelled; it reads only.

`NameDirectory` is the promise: names with an owner, a version and a revoked
flag; register, update, transfer, revoke, each atomic. `ImplementsDirectory`
states the refinement with owner, version and flag computed from the rows.

### Resolution

Composes resolvers with the publishers of `TransparencyStore`. `pins` is
`transparency-pins.json`, `tmp` its temporary file, `stage[h]` how far a
resolver is with its pin, `answers` what has been answered, ever. A resolver
reads the row (`BeginResolve`), loads the log with the store's own steps
(`Load`), checks row, checkpoint and pin (`CheckPin` or `ResolveRejects`), and
runs `pin_verified`: `LoadPin`, `WriteTmp`, `RenameTmp`, or `PinFails`. `Restore`
puts the database back to an earlier state while the daemon is down, after
which it can grow another branch. The clock stands still: no check of a
resolution looks at it. The attestation of the identifier passes or fails, after
the pin was saved. Any number of resolvers runs at once: `server.rs:103` spawns
every request and `/v1/resolve` takes no lock. Two history variables say when they
get in each other's way: `stale` holds the resolvers past their check whose pin, or
whose temporary file, another one has replaced since; `raced` becomes true when one of
them renames all the same.

### Witness

`pin[w]` is the pin file, `tmp[w]` the temporary file that all calls share,
`call[w][r]` a call in progress, `equivocations[w]` the recorded files,
`cosigned[w]` what the witness has signed, ever. `stale[w]` and `raced` are history
as in `Resolution`: the calls whose check no longer stands, and the witnesses where
such a call has renamed its pin. `Submit`, `Check`, `Reject` and
`Equivocation` are the checks of `process_checkpoint`; `WritePin`, `RenamePin`,
`RenameFails` its `save_pin`; `Cosign` the signature. Writing the temporary
file is one step. `FilePinStore` is modelled; `MemoryPinStore` serves tests.
A compromised witness (`Collude`) signs whatever it is shown. `VerifyQuorum` is
the client's `verify_quorum`.

### Swaps

`exchange[s]` is the sequence of statuses the exchange has sent for swap `s`
(it follows `Follows`, an external assumption on Boltz), `disk` the store file,
`handed` the swaps whose address the caller holds, `task[t]` a call. The store
file is emptied (`Truncate`) and then written (`Write`), as `std::fs::write`
does; when two writes overlap the result may be unreadable (`Torn`). A creation
stores its record and then returns (`HandOut`), in two steps, so that a crash falls
between them. `stale` (history) holds the calls whose copy or whose write another
call has overtaken, and `damaged` becomes true when such a call writes, or when a
write fails or dies after the file was emptied. A subscriber receives the latest status at subscription and the later ones. The
three kinds differ in the statuses they wait for (`Targets`) and in what they do
on each. The statuses no call waits for are left out, and so are amounts; the
construction of a settlement transaction succeeds or fails. A call that waits
for nothing more returns (`WaitEnds`, the timeout).

### Daemon

The files are variables; each is replaced atomically (`write_secret_file` and
its siblings rename), the sequence of replacements is not. A request is sent
once; `request[r]` holds its copies. `Arrive` takes a permit; `TakeLock` is
`mutation_lock` on the locked routes; `OpenInvites`, `LoadWallet`, `CreateKey`,
`CreateWallet`, `OpenStore`, `LoadOperator`/`GenerateOperator`/`SaveOperator`,
`SaveRotationKey`, `Commit`, `SaveWallet`, `SaveInvites` are the steps between
which another request can run, the process can die, or a write can fail
(`WriteFails`). The store is reduced to a log whose commit fails if the log has
moved since it was loaded, which is what `NoLostUpdate` and
`ImplementsDirectory` establish for `TransparencyStore`. A broadcast of a profile that is signed already
ends without a write (`AlreadySigned`), any other one publishes. A claim with a profile
signed elsewhere always fails before it writes and is left out, as are
`cancel` and the status `EmailSent`, which nothing uses.

### Bolt12, Routing

`Bolt12` is `read_bigsize`, `write_bigsize`, the truncated integers, TLV streams,
blinded paths, and the parts of offers, requests and invoices that decide
anything; the base of a byte and the length of a key are constants, so that a
small base reaches every length prefix with small numbers. The bech32 layer and
the Merkle signatures are left out, and so is memory: a length that the input does
not hold is a decoding error, although the code allocates it first. `Routing` has each selection of the code
side by side: `select_route` (live), `select_route_with_fees`
(deterministic), `select_priority_route` (the daemon's send), `score_routes`
with `plan_ark_route`, the splits, and the browser's `wasm_select_route`.

### Fees

`fetch[f]` is a call of `fetch_consensus_fee`; it reads the clock when it begins
(`StartFetch`) and touches the cache when the last source has answered or timed out
(`FinishFetch`); fetches overlap. `Tick` may set the clock to any time, back too,
since the code reads `SystemTime`. Each source kind converts its answer as the code
does (tenths of a sat/vB, rounding up, tiers sanitised). The report keeps what the
honest sources said (`low`, `high`) so that `HonestRange` can be stated.

### Payments

Each entry point is a record of its own decisions (`quote_inner`,
`quote_response`, `send_response`, `cmd_pay`, `build_mainnet_preview_response`,
`cmd_quote`, `wasm_quote`): what it answers to an amount of zero, a name that is not
found, a failed resolver, a bad signature, an expired profile, no route, and with
how much tolerance it looks at the expiry. The steps are common, with an await
between them: `Ask`, `NotFound` or `Found`, `FeesArrive`, `LnurlInvoice` or
`Bolt12Invoice`. What can be paid on a method differs by entry point (`QrPayload`,
`SendPayload`, `PayPayload`, `PreviewPayload`).

### MerkleTree, Ownership, SilentPayments, Resolvers

Functions of their inputs, translated one by one. A hash is the term it is
computed from. An ownership proof is judged with every signature that the owner or
a stranger could have made. The curve of the silent payments is the additive
group modulo a small prime, where a point and its negative share the x
coordinate. A resolver is a function of what the registry, the name servers, the
web server and the relays hold; each relay that is asked answers or fails for
itself.

### RateLimiter

`buckets` and `last_cleanup` are the two locked fields of the limiter. A worker
(`worker`) goes through `Arrive` (`extract_client_ip`, and `Instant::now()` in
`check`), `maybe_prune` under the lock of `last_cleanup`, `RetainBuckets` under
that of the buckets if it is its turn, and `check_at` under that of the buckets
again; workers interleave between the locks and `Second` moves the clock. Time is
in whole seconds, tokens are counted in parts. `window` is history: for each
client a stretch of its requests, which may begin at any of them, in the order in
which they reached the bucket.

### LocalWallet

The files are variables; a command decides at once and leaves the sequence of
its writes in `todo`; `Write` performs the next one, `Crash` and
`TearWallet` end the process between two writes or inside the one that is not
atomic (`wallet.json`). `Foreign` is what somebody else can make up to be imported,
and everything published can be replayed. Two commands at once are left out
(section 7).

## 3. The runs

| Run | Module, configuration | Checks | Bounds |
|---|---|---|---|
| `store_races` | `MCTransparencyStore`, `MCStoreRaces` | `TypeOK`, `LoadedIsCommitted`, `StoreReplays`, `CheckpointsCoverState`, `NoLostUpdate`, `FailsOnlyIfOvertaken` | 2 names, 1 key, 2 operator keys, 2 handlers, 2 events, 2 times |
| `store_history` | `MCStoreHistory` | `AppendOnly`, `OwnerAuthorises`, `ImplementsDirectory` | 2 names, 2 keys, 2 operator keys, 1 handler, 3 events, clock back and forth |
| `store_clock_replay` | `MCStoreClockReplay` | `StoreReplays` **violated** | 1 name, 2 events, clock may step back |
| `witness_quorum` | `MCWitness`, `MCWitnessQuorum` | `CosignedIsPinned`, `NoSplitView` | 2 of 3 witnesses, 1 call each, two branches |
| `witness_race` | `MCWitnessRace` | `TypeOK`, `CosignedIsPinned`, `NoSplitView` | an honest witness with 2 concurrent calls and a compromised one, K = 2, two branches, 2 times |
| `resolution` | `MCResolution`, `MCResolution` | `ResolutionTypeOK`, `AnswerIsProved`, `AnsweredIsPinned`, `BranchesNeedARace` | 1 name, 1 key, 1 operator key, 1 publisher, 2 resolvers, 2 events, any restores; up to the first race (`UpToARace`) |
| `resolution_race` | `MCResolutionRace` | `AnswersAgree` **violated** | the same, without that limit |
| `swaps` | `MCSwaps`, `MCSwaps` | `TypeOK`, `RecordNeverAhead`, `KeysKept`, `CallsReturn` | one swap of each kind, 2 of them started, 2 calls, 3 statuses each |
| `swaps_keys` | `MCSwapsKeys` | `KeysStay` **violated** | a submarine and a reverse swap, 2 calls |
| `daemon` | `MCDaemon`, `MCDaemon` | `TypeOK`, `KeyOnDisk`, `OneOperator`, `ClaimsAreWhole`, `ActiveKeyWasPublished` | 4 requests, 3 at once, 2 names, 3 keys, 2 operator keys, 2 invites |
| `algorithms` | `MCAlgorithms`, `MCAlgorithms` | `PaysTheRecipient`, `HonestRange`, `CodecRoundTrip`, `TreeProofsSound`, `OwnershipSound`, `SilentPaymentsFound`, `BurstBound`, `SelectionsAgree`, `NoSubstitution` | every input of the sets in the module; one payment request through any entry point for 0, 1000 or 100000 sats and one through the daemon, three fee sources, one lying, times 0 to 2 in any order, staleness 2; the limiter with 2 workers, 2 addresses, times 0 to 2, bursts of 2 tokens, a token back in 2 seconds, pruning every second |
| `local_wallet` | `MCLocalWallet`, `MCLocalWallet` | `NoTakeover`, `OwnKeysKept`, `ProofsMatchIdentity` | 1 alias, 3 keys, sequence numbers up to 3, 2 times, 2 rails |

Why the bounds are enough to matter. Two handlers are what a race needs: every
store hazard is between one commit and one other handler; two events let a
commit fall between any two reads of another load, and three events on two names
let a name be registered, rotated or revoked and touched again while the other
moves. Two branches that part after a common leaf give an extension, a
conflict of equal size and a conflict of different size. One publisher and a restore are enough to
grow a second branch of equal size behind a pin, and two resolvers to hold a check
against a pin the other has replaced; the configuration of `resolution` stops a
behaviour at the race itself, after which its properties of the pin promise nothing.
Operator rotations are left to `store_races` there, and to the proofs. In
`witness_race` the honest witness's calls race, so that `NoSplitView` is met both with its premise and,
after the race, without; `witness_quorum` has the three witnesses. Two calls over two
swaps give lost updates between records of different swaps and two calls on one
swap; three statuses reach a refusal, a renegotiation and a claim. Three
requests at once give a locked request, one waiting for the lock and an unlocked one; the fourth finds what
they left. The three keys let two rotations follow a first publication.

Two payment requests are what the shared cache needs: one that fetched earlier and
one that is served from it; the amounts are below the Lightning threshold, above
it, and zero; 1000 sats is below what one of the offers asks. Three fee sources with two needed for a consensus
let the liar be a minority and let a fetch fall back to the cache and to the
static fees. In `algorithms` the trees go to eight leaves (five for forged
proofs, which range over all short sequences of nodes), state maps over all keys
of two bits, numbers over all length prefixes of base 4, the group of silent
payments has seven elements, and amounts sit on both sides of each threshold of
the selections. Two workers and three times let a request reach a bucket after a
younger one, and one worker look for buckets to prune between another's two locks; that
none is removed there is how the code behaves (section 7). In the wallet's run three keys let a
registration be followed by two rotations, and a profile lives for one unit of
time, so that expired ones are met.

Handlers, names, witnesses, requests and the limiter's workers are interchangeable and are declared symmetric,
in runs that check only safety.

`CHECK_DEADLOCK FALSE` is set where the modelled program stops: `Daemon`'s
requests are one-shot, as are those of `Payments`, all swaps may be finished and
no call running, an input of `MCAlgorithms` is looked at once, and a wallet at its
bounds has nothing left to do.

## 4. Fairness

Only `Swaps` assumes any: weak fairness of `Continue(t)`, the steps of a call that
has its subscription. The tokio runtime polls a ready task, and the wait on the
open socket is inside `tokio::time::timeout`, so that `WaitEnds` is enabled and
eventually taken. Connecting and subscribing are outside that timeout, so
`Connect` is not in `Continue`, and `CallsReturn` says only that a call that got
beyond the connection ends, or renegotiates and connects again. Nothing is
assumed of the exchange, and `Crash` is never fair.

The other modules state safety only. The daemon reads a
request's body while it holds the mutation lock and so promises no progress to
others; the store's `BEGIN IMMEDIATE` refuses and does not retry.

## 5. What is proved

All theorems are for any sets of names, keys, operators, handlers, witnesses,
swaps, calls, requests, aliases, fee sources and profiles, and any bounds.

* **The store** (`TransparencyProofs`). `TypeCorrect`, `AppendOnlyHolds`,
  `NoLostUpdateHolds`, `OwnerAuthorisesHolds`, `StoreImplementsDirectory` hold
  whatever the clock does. `StoreReplaysHolds` and
  `CheckpointsCoverStateHolds` assume `~ClockMayStepBack`: the run
  `store_clock_replay` shows that the assumption is needed. The invariants as
  stated are not inductive: a commit's correctness depends on what the handler
  concluded before its transaction. `TypeInv` adds to the types what each
  program counter implies about a job (`JobInv`). `RowInv` adds that the rows
  are the profiles of the latest events (`RowsInv`) and that a handler past its
  load has seen a prefix of the log whose latest checkpoint hash is that of a
  prefix of the chain (`SeenInv`): with equal counts and an equal hash in the
  transaction, the prefix is the whole, so what was validated is what is
  committed. `Inv` adds the chain (`ChainInv`: every checkpoint a valid
  successor, covering its event and state map) and its times (`TimeInv`: no
  stamp is later than the clock).
  `LoadedIsCommittedHolds` is about the three unlocked statements of a load, and
  holds whatever the clock does. `LoadInv` adds to `RowInv` that every checkpoint
  of the table covers as many events as its position says (`PairsInv`), and that
  a handler's copy has the table's hashes, in the same places, and is at least as
  long as the events it read before (`CopyInv`): the replay then leaves only the
  copies of equal length. `FailsOnlyIfOvertakenHolds` assumes
  `~ClockMayStepBack` and uses both invariants: a load or a transaction that meets
  no newer commit has the very state `Inv` says replays. The module's first
  part has the lemmas on the log itself: the latest event of a name after an append,
  the replay of an extended log, prefixes and hashes.
* **The witness** (`WitnessProofs`), with any number of concurrent calls.
  `CosignedIsPinnedHolds`: everything an honest witness has cosigned is a prefix of its
  durable pin, through crashes, until one of its calls saves over a pin it has not
  checked. `NoSplitViewHolds`: while the compromised witnesses and those where calls
  have raced are fewer than `2 * K - Cardinality(Witnesses)`, no two accepted
  checkpoints are on different branches; any two quorums then share a witness
  that is neither (`QuorumsShareGood`). `PinInv` says of such a witness that
  the checkpoint of every call past its check, unless the call is stale, extends the
  pin, that the temporary file is that of the call about to rename it, and
  that what a call is about to cosign is below the pin. Section 7 has what
  one compromised witness of three, and a race, can do.
* **Resolution** (`TransparencyProofs`), with any number of concurrent resolvers.
  `ResolutionTypeCorrect` and `AnswerIsProvedHolds`: the log of an answer is the one
  the resolver replayed, which `TypesInv` carries from the check to the answer.
  `AnsweredIsPinnedHolds` and `BranchesNeedARaceHolds`: until a resolution renames over a
  pin it has not checked, whatever was answered is held by the durable pin, and all answers lie
  on one branch. `Pinned` says that what a resolver holds past its check extends the
  pin unless it is stale, and that the temporary file is that of the one fresh resolver
  about to rename it. That the race is the only way to two branches is the theorem;
  that it is a way is the run `resolution_race`.
* **Swaps** (`SwapsProofs`). `TypeCorrect`, `RecordNeverAheadHolds`, `KeysKeptHolds`.
  For the second the invariant `Grounded` extends
  `RecordNeverAhead` from the file to every copy a call holds and to every change
  it is about to make; it is inductive because the exchange's statuses only
  grow. For the third, `KeysInv`: a swap is created by one call, alone with it, and a
  removed one is nobody's (`Life`); and unless the file was damaged (`Whole`), it holds the
  keys of every swap handed out or about to be whenever no rewrite is under way, a call
  that nobody has overtaken has the file as it is, and after emptying it is the only
  such one.
* **The receiver wallet** (`LocalWalletProofs`). `OwnKeysKeptHolds`,
  `ProofsMatchIdentityHolds`, `NoTakeoverHolds`, for any number of keys, aliases
  and rails, from the assumption that somebody else's key is not one generated
  here. The properties speak of the files and are not inductive: what a command
  will write was decided before. `TodoInv` says of the writes that remain that a
  key is on disk, or is written by an earlier one, before a profile or a wallet
  that names it; that a profile to be stored carries what its own key made;
  and that it takes no alias a key of ours holds. `FilesInv` says the same of the
  files, and of what was published, since that can be imported again
  (`ForeignIsHarmless`).

* **The daemon** (`DaemonProofs`). `DaemonTypeCorrect`, `KeyOnDiskHolds`,
  `OneOperatorHolds`, `ClaimsAreWholeHolds`, `ActiveKeyWasPublishedHolds`, for
  any number of concurrent requests, permits and invites. The properties speak of
  the files; what a request will write to them it read some steps before. `Inv`
  has a part for the files (`FilesInv`) and one for each request (`RequestInv`):
  a route that needs the lock holds it past its first steps; the wallet a request
  carries has its keys on disk, and before the first commit it has the only key
  there is; from the operator step to the commit the operator key it carries is
  the one in the file; every copy of the invites calls claimed only what is published
  in the log (`FileInv`). `Interferes` is what one request may do to the state
  the others rely on (keys and log only grow, the operator key is written once
  and under the lock), and `OthersKeep` that no request is disturbed by it; each
  action is then proved for the request that takes it, and to be such a step.
* **Payments and fees** (`PaymentsProofs`). `HonestRangeHolds` and
  `PaysTheRecipientHolds`. `FeesInv` says of the cache that what it holds is
  within the honest range, and of each fetch what it will be held to once it is
  done; it survives an older fetch that overwrites a newer one, and any clock. Under it is the
  algorithm: the estimate's rank in the sorted answers is one that a minority
  can fill neither from below nor from above (`RankedInRange`,
  `MedianInRange`); the mean of the two middle answers, its rounding and the
  decay towards the fallback stay between their arguments (`MeanInRange`,
  `RoundedInRange`, `DecayInRange`). `RequestsInv` carries across the awaits that an
  invoice is asked for, and an answer given, only for a route that the profile
  promises at this entry point (`Promised`): each selection picks among the
  methods of the profile (`MethodsOfProfile`) one that carries the amount
  (`RoutePromised`). Assumed of the constants: finitely many fee sources, answers
  that are numbers, profiles whose methods are well formed.
* **Route selections** (`PaymentsProofs`), for every list of methods, amount and
  estimate. `SelectionsDecideAlike`: `select_route` and `select_route_with_fees`
  are the same function, since a method that carries the amount is available
  (`CarriedIsAvailable`); an on-chain or Ark method is never left unused; the
  priority router gives up only on an empty profile; without Lightning methods the
  browser takes what the native router takes. `ScoredRouteIsBest`: the scored
  router takes an eligible method that no other eligible one outscores, and gives
  up only if there is none. Assumed: the absent value `None` is neither a method
  nor a quote.
* **The rate limiter** (`AlgorithmProofs`). `BurstBoundHolds`, for any number of
  workers, clients and headers, any capacity, rate and interval. The bound is not
  inductive: what a client may still be allowed is in its bucket. `Balanced` says that
  what a stretch was allowed and what the bucket holds, together, are at most the
  burst and what flowed back since the stretch began, with each second by which a
  request was older than the one before counted once more; `Promised` that the
  bucket of a client that was told to wait holds a token by then, also when an
  older request has set its time back. A pruned bucket was full, so a fresh one
  changes neither.
* **Silent payments** (`AlgorithmProofs`). `SilentPaymentsReachTheirOwner`: for any
  odd order of the group (the curve as `SilentPayments` models it), any hashes into the scalars (`Curve`), any
  inputs, keys and other outputs, the scan finds what was sent and the key derived
  for it opens it. Keys that cancel out are excluded: there both sides fail.
* **Ownership proofs** (`AlgorithmProofs`). `VerifiedMeansSigned`: whatever proofs
  a profile carries, verified means that the method's own key signed for this
  identity, unexpired. `OwnersProofIsAccepted`: what the owner builds and puts
  into a profile with at most one proof per method is accepted until it expires.
  Both are about the offline check (`verify_payment_method_states`), in which
  proofs by a domain need the network and verify nothing.
* **The resolver chain** (`AlgorithmProofs`). `NothingIsSubstituted`: whatever the
  four sources say, a profile that comes back is the asked name's, signed by the
  key it names and unexpired; one in the registry shadows all others; and one of
  the relays is the newest that any of the relays asked has for the domain's key.
  `World` says what the sources may hold: any records of the right shape.

Only model-checked: `CodecRoundTrip` and `TreeProofsSound`, whose algorithms recurse
over byte strings and trees (induction over data, and `RECURSIVE` operators, are
outside what the prover does); the sums of a split payment and the Ark planner in
`SelectionsAgree`; the domain proofs in `OwnershipSound`, the address codec in
`SilentPaymentsFound` and the browser's resolver and the strict lookup in
`NoSubstitution`; and
`CallsReturn`, which is liveness under fairness. The invariants of `MCAlgorithms` named
here are stated over that module's input sets, so the theorems above state what they say
directly, over all inputs. The three properties that the runs of section 6 refute
are not theorems as they stand there; `StoreReplays` is one for a clock that does not step
back, and `BranchesNeedARace` and `KeysKept` say when the other two hold.

## 6. What the violated runs show

1. `store_clock_replay`. `prepare_checkpoint` stamps the wall clock without
   comparing it with the previous checkpoint, and the commit does not compare
   either; `verify_full_replay` does. After the clock was set back, one commit
   succeeds and then every open fails.
2. `resolution_race`. Two resolutions pass their checks against one pin; the one with
   the older checkpoint renames last and moves the pin back behind what the other has
   answered. When the database was then put back and has grown another branch, the next
   resolution accepts it: two answers on two branches. `docs/threat_model.md:67`
   says clients pin the highest observed log size and reject smaller ones.
3. `swaps_keys`. The store is emptied before it is written and rewritten from
   unlocked copies, so the keys of other swaps can disappear from it.

## 7. Other observations

They follow from the models but have no run of their own.

* Two concurrent `process_checkpoint` calls can both pass the check against the
  same pin and cosign two branches. `witness_race` contains these behaviours; its
  properties end, for that witness, where the second call renames (`raced`).
* A witness that recorded an equivocation goes on cosigning the branch it saw
  first; the deployment guide (`docs/s2s/witness-deployment.md:21`) says
  that it never signs for that log again.
* Once the checkpoint of an operator rotation is pinned, resolving against the same
  checkpoint fails: the pin has the new operator already, and a rotation without
  a change of operator is rejected. A client that missed the rotation
  checkpoint itself is rejected by every later one.
* `map_root` is compared neither by the commit, the replay nor the witness's
  check of an equal size.
* An equivocation file is named by second and size; a second record replaces the
  first.
* `max_wait` does not cover connecting and subscribing, although a comment in
  `boltz_client.rs` says it caps the total wait.
* A failed submarine swap is recorded as `TransactionRefunded` even when the
  refund could not be built (`submarine.rs:149`), while `types.rs:64` calls that status
  "Client reclaimed funds after failed swap. Terminal state." It takes one call and no
  race, so there is no run for it; `RecordNeverAhead` asks of such a record only that the
  exchange has failed to pay. Of a claim it asks that the claim transaction was made, as
  `types.rs:55` does; but `build_and_broadcast_claim` of `reverse.rs` builds it and
  broadcasts nothing.
* A broadcast that overlaps a rotation saves the old wallet again. The old key's
  file is still there (`KeyOnDisk`), and so is the new one's, but the wallet
  names the old key.
* After a rotation of one alias, another alias published under the old key
  cannot be updated by the daemon, whose wallet has only the new key.

Log, witnesses and clients:

* With 2 of 3 witnesses, one compromised one is enough for two accepted branches,
  while the repository's README (line 222) and `docs/threat_model.md:30` call fewer than K
  compromised ones harmless. What holds is the bound of `NoSplitViewHolds`, fewer
  than 2K - N.
* Routes that take no lock save whole copies of `invites.json`; a claim and its
  notification can be undone by one that opened the file earlier.
* `select_endpoint` returns a healthy primary whatever the age of its checkpoint;
  the comment above it rejects every stale endpoint.

Payments:

* Expired profiles are taken by the `pay` and `quote` commands and by the daemon's
  send; `docs/protocol.md:140` and `:173` say they are refused.
* The comment at `router.rs:82` names a fastest fee of at most 20 as the threshold; the
  code compares the urgency's tier, raised by a tenth, with 10. `max_fee` is
  ignored by `select_route` (only the scored selection uses it).
* A Lightning method with an address and an LNURL but no offer counts as
  available for amounts that no route then serves.
* `pay` and `preview` fail for silent-payment keys and opaque Arkade methods. A
  BOLT12 invoice without an amount is accepted, and a BOLT12 string that cannot be
  decoded is passed on unchecked, for any amount at or above the method's minimum:
  what is no offer sets no limit, and `PaysTheRecipient` compares the amount only with
  what decodes.
* The browser's quote always fails: its resolver chain encodes as JSON what is JSON
  already. Its selection differs from the native one where Lightning is
  concerned.
* A slow fee fetch overwrites the estimate of a later one: the last writer wins. The
  age of an entry is a difference of wall-clock times, so that after the clock was set
  back an entry is served for longer than the staleness limit. Both are in the model,
  and `HonestRange` holds of what is served.
* A TLV record or a blinded path that declares a huge length makes the decoder allocate that
  much before it finds the bytes missing (`bolt12.rs:139`, `:225`). An invoice's
  `absolute_expiry` decides its expiry, but nothing in the code sets it.
* `detect_silent_payment_outputs` and `derive_from_scan` never apply the input
  hash, so they find only what was sent without one.

Names and ownership:

* The HTTPS resolver returns revoked profiles; only the registry and Nostr look at
  the flag. A domain that the address filter blocks ends the chain. The
  BIP-353 resolver reads only the first string of a TXT record, the strict lookup
  joins them. With the newest relay down, Nostr may return an older profile.
* The browser's BIP-353 lookup ignores the user name and DNSSEC, and its HTTPS
  resolver checks no signature.
* The descriptor of a Lightning method with an address leaves out its LNURL and
  offer, that of an Ark method its server; a proof survives a change of those. A
  `DomainWellKnown` proof may be served by any https host.
  `verify_bip353_ownership` matches a record and a method that both have no
  address.

Limiter and wallet:

* Workers take the time before they take the limiter's lock and a bucket's
  `last_update` becomes that time even if it is the older one; arrivals in
  another order than their times credit an interval twice. `BurstBound` counts
  exactly those seconds (`rewound`), and without that term TLC refutes it. A bucket is pruned only if its stored count is full,
  which no request leaves behind, so idle addresses are never removed.
* A crash between the registry's and the wallet's write of a rotation leaves a
  wallet whose key the registry has replaced: the key is on disk, but every
  wallet command is refused from then on. A crash inside `save_wallet` leaves an
  empty `wallet.json` that every wallet command refuses. `register` writes the
  registry before the key; a crash in between loses the key, which is why
  `OwnKeysKept` speaks of the wallet commands.
* `attach-proof` fails on a profile that has just been rotated, and every wallet
  change drops the ownership proofs.
* Two commands at once overwrite each other's registry.

## 8. Not modelled

* Replica selection, the peer registry, the execution gate, migration statements and
  the router's second format of key rotations: exported, and called by none of the
  programs. No state depends on them, and a property of such a function alone would
  restate its comparisons.
* Encodings (bech32, JSON, base64, QR codes, hex), the wording of answers and
  previews, real elliptic-curve and post-quantum arithmetic: data. The models use what
  they establish: a signature is its key and its message, a hash its content.
* Transports: DNS, HTTP, WebSocket and Nostr connections, TLS, tokens, the
  Bitcoin RPC client, the Ark bridge (a child process). Their answers, their
  silence and their lies are in the models.
* The legacy JSON files of `TransparencyLog::open`, superseded by the store.
* The daemon's read-only routes, its configuration and start-up; commands that only
  print; `cancel` and `EmailSent` of the invites, which nothing uses.
* Concurrent processes of the command line.

## 9. The plan

Done: the modules of section 2, the runs of section 3 and the proofs of section 5.
What would be worth adding, in this order:

1. Compose `Resolution` with `Witness`: a checkpoint is accepted through
   `verify_quorum` (the library offers it, the daemon's route does not call it).
2. `TreeProofsSound` and `CodecRoundTrip` for trees and streams of every size, with a
   prover that does induction over data.
