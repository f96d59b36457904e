# A TLA+ development of the Meridian Valkey adapter

The adapter places disposable caches on a Valkey engine. Its code is the Python
package `src/src/meridian_storage/adapters/valkey/` (called `valkey/` below). The modules here model what that code does, step by
step; TLC checks them on small instances, and TLAPS proves every safety property
the runs check, and the refinement, for every value of the constants.

## The system

| component | state it keeps | operations | interacts with |
|---|---|---|---|
| `ValkeyCache` (`cache/`) | none of its own but counters; the key and its lease live in the engine | `lookup`, `batch_lookup`, `put`, `put_if_absent`, `compare_and_set`, `delete`, `get_or_load` | codec, key encoder, settings, `AtomicExecutor`, the engine client, the caller's loader |
| `AtomicExecutor` (`atomic/`) | two script digests | leases, `put_if_absent`, `compare_and_set`, `batch_get`, `increment`, `_eval_script` | the engine: SET NX PX, EVALSHA, SCRIPT LOAD, WATCH/MULTI/EXEC |
| `EnvelopeCodec` (`codec/`) | size limit, clock | `encode`, `decode`, `extract_version` | canonical JSON and SHA-256 helpers |
| `ValkeyAdapterRuntime` (`runtime.py`) | `_opened`, `_closed`, `_manifest` (no lock) | `open`, `probe`, `verify_physical`, `open_session`, `cache`, `close` | probe, client handle, Binding pins |
| `ValkeyAdapterSession` (`runtime.py`) | `_closed` | `execute` (six contracts), `close` | cache, error translation |
| `translate_engine_error` (`errors.py`) | none | ordered `isinstance` tests | client library's exception classes |
| `ValkeyProbe` (`probe/`) | none | `probe` (eleven commands), `verify_physical` | engine, descriptor |
| `ClientHandle` and client construction (`client.py`) | client, closers | `close`, construction | client library, Sentinel |
| settings (`configuration.py`) | immutable, one per process | parsing, `policy_for`, `effective_ttl_ms` | all |
| the Binding | what IaC deployed last; replicas keep what they started from | deploy, roll | factory, engine shared by replicas of both |
| key encoding (`key/`) | immutable | `encode`, `lease_key`, `require_shared_hash_slot` | cache |
| descriptor, canonical helpers, metrics | static or write-only | | |

Many callers (threads, processes, hosts) share one key. Nothing but the
engine's single commands and scripts is atomic. The hard behaviours:

* **Interleaving**: between the GET, the decode, the encode, the script and the
  final decode of one operation everybody else runs; `open` and `close` race
  without a lock.
* **Unreliable commands**: a command that raises at its caller may not have been
  executed, or may be executed at any later time.
* **Engine faults**: restarts (persistence is off by policy, so the data and the
  script cache are gone), evictions, failover to a replica that lags, damaged
  bytes, configuration that changes between two commands of a probe.
* **Time**: the engine's PX, the envelope's own expiry in the writer's wall
  clock, the reader's wall clock and a waiter's monotonic clock all differ.
* **Rolling change**: while a Binding is rolled, replicas with different
  generations, Schemas, limits and TTL policies share the engine, and commands of
  a stopped replica still arrive.
* **Partial failure**: loaders, encodes, releases, closers and single deletes of
  an invalidate raise in the middle of something.

What makes each part correct: one leader per lease and no lease left behind
(`get_or_load`); hits that are intact and within their TTL; None cached only
when the Resource opts in; calls that end; operations that take effect at most
once and report truthfully; frames accepted only if `encode` made them; a closed
runtime that hands nothing out and has closed every handle; a probe that
overlooks nothing; an invalidate that is complete when it says so; a retry hint
that is right; during a roll, hits that are the caller's own and never of an older
generation; physical keys that never meet and always fit; start-up that only lets
Bindings through that can be served. `PROJECT.json` lists the hazards line by line.

## Modules

| module | models | lines of code it follows |
|---|---|---|
| `Envelope` | what the cache sees of an envelope; `effective_ttl_ms` | `codec/`, `configuration.py:395-422` |
| `SingleFlight` | `get_or_load` by many callers on one key | `cache/__init__.py:116-146, 187-216, 315-408`, `atomic/__init__.py:27-33, 82-94, 165-181` |
| `SingleFlightProofs` | theorems about `SingleFlight` | |
| `AtomicCache` | abstract specification: one cell, atomic operations | what callers of the typed operations rely on |
| `CacheOps` | the typed operations and `increment`, command by command | `cache/__init__.py:116-313, 399-408`, `atomic/__init__.py:18-25, 53-80, 103-181` |
| `RuntimeLifecycle` | the runtime's fields, the probe, closing handles | `runtime.py:107-223`, `probe/__init__.py:105-210`, `client.py:72-89` |
| `SessionExecute` | `execute`, argument checks, error translation | `runtime.py:227-487`, `errors.py` |
| `EnvelopeCodec` | framing, digests, every check of `decode` in its order | `codec/__init__.py` |
| `Settings` | what `from_mapping` accepts, `effective_ttl_ms` | `configuration.py` |
| `Deployment` | from a Binding to a serving runtime: endpoints, client checks, pins, `verify_physical` | `client.py:119-274`, `runtime.py:79-174`, `probe/__init__.py:212-238`, `descriptor/__init__.py` |
| `KeyEncoding` | physical keys, lease keys, hash tags, key lengths | `key/__init__.py` |
| `Rollout` | replicas of a Binding that is changed in use: put, delete, `batch_lookup` | `cache/__init__.py:95-216, 399-408`, `atomic/__init__.py:96-101` |
| `CacheOpsProofs`, `RuntimeLifecycleProofs`, `SessionExecuteProofs`, `EnvelopeCodecProofs` | theorems about the module each is named after | |
| `RolloutProofs` | theorems about `Rollout` and `KeyEncoding`: what entries and keys are | |
| `DeploymentProofs` | lemmas about `Settings`, `Deployment` and `KeyEncoding`: what the start-up checks grant | |
| `RolloutBoundsProofs` | theorems about `Rollout`: TTLs, ages of hits, key lengths, start-up | |
| `MC...` | instances and symmetry for TLC | |

`SingleFlight` and `CacheOps` extend `Envelope`; `CacheOps` instantiates
`AtomicCache`; `SessionExecute` uses a cache call as one step, which is what
`ImplementsAtomicCache` entitles it to. `Rollout` composes `Deployment` (which
extends `Settings`) and `KeyEncoding` with replicas and an engine of many keys.

### How state and actions correspond to the code

*SingleFlight.* `pc[p]` is the place of caller `p` in `get_or_load`, `loc[p]` its
locals (`role` is decided by `acquire_lease`; `buf` is the fetched or written
envelope; `deadline` and `wake` are the timers of the wait loop). `entry` and
`lease` are the two engine keys with the instant their PX ends, `scripts` says
whether the release script is cached, `late` holds commands whose caller has
given up. One action per command and per step between commands: `Get`, `Decode`,
`Discard`, `Acquire`, `Load`, `Encode`, `Set`, `Verify` (the decode that ends
`put`), `Release`/`ReleaseNoScript`/`ReloadScript` (`_eval_script`),
`Contend`/`Wait`/`Wake`/`GiveUp`; `...Fails` and `...Raises` are the error paths.
The leader's `finally` is `Conclude`: a leader's outcome leads to `release`.
`until` and `loose` are ghosts that only the properties read.

*CacheOps.* `watch` is the engine's WATCH state of each connection. The client
library turns a connection error of a watching pipeline into `WatchError`
(`WatchedFails`, `ExecLost`; external code, modelled from how `increment` catches
it). `seen` is the envelope a client last obtained, the source of the versions it
expects later. `hits` is a ghost.

*RuntimeLifecycle.* Each read or write of `_closed`, `_opened`, `_manifest` is a
step; `ProbeCommands` is the order of the probe's commands, `Judged` says after
which command each fact is tested (INFO is read first and tested later). INFO
memory carries two facts: that `maxmemory` is a number is always required, that it
is a bound only by some Bindings.

*SessionExecute.* `Checks` is the order of the argument checks of each contract;
`invalidate` deletes key by key, and keys are only checked when their turn comes.
Every result is measured against the result limit, a miss and a count too.
`Translation` is the order of the `isinstance` tests. An entry is the number of
the write that made it, so no entry comes back. `doomed` (what a removal's keys
held when it was submitted), `took` (what it removed), `gone` and `claimed` (the
same of requests that ended) are ghosts.

*EnvelopeCodec.* A frame is a record of the parts the codec tells apart; SHA-256
is an injective constructor; `Damage` changes one part at a time.

*Settings, Deployment.* Nothing between a Binding and a serving runtime reads or
changes shared state, so these are operators: the list of the code's checks in the
code's order, and `StartError`, the error of the first that fails (`FirstError`).
`malformed` stands for the type and unknown-field tests of a section. A host
written with capitals is the same host (`capitals` is dropped by `ParseEndpoint`).

*KeyEncoding.* A key is the record of what is digested; digests are injective
constructors, also after truncation to 16 and 22 characters. `KeyBytes` counts
the bytes of the real format.

*Rollout.* `iac` is the Binding deployed, `proc[r]` the one replica `r` runs, with
its own settings and encoder until `Roll` restarts it, possibly in the middle of a
request. `store` maps physical keys to entries. A request passes `Refusal` (every
check before its first command), then one action per command: `Write` (SET or
DEL), or `Mget` and for each key `Decode` and perhaps `Clean`, with `raw`, `got`, `i`
and `new` the locals of `batch_lookup` and `put`. `now` is the engine's time;
envelopes are stamped and judged by each replica's `Clock`, ahead by `Skew`. `owner`,
`at`, `asOf` and `by` are ghosts.

## Runs

| run | shows |
|---|---|
| `SFEngine` | failover, eviction, damage, late commands, raising loaders and encodes: `HitsAreValid`, `NegativeOptIn`, `LeaderExclusion`, `NoOrphanLease` |
| `SFLive` | every call returns, every lease goes and stale entries die out (`StaleDiesOut`: a put is not fenced, its PX makes the damage temporary), with skewed clocks, lost and late commands and restarts; `HitsAreValid` under skew, nothing negative cached when that is off; `TypeOK` |
| `COAtomic` | two mutations of each of two clients, late commands, expiry, damage: refines `AtomicCache` |
| `COLive` | the operations return, whatever fails, lost EXEC replies included |
| `RLRace` | two threads, two calls each, one engine change at any moment |
| `SESession` | two threads, two keys, every contract and defect, one or more exception classes of each translation rule, late deletes: `InvalidatedStaysGone`, `RemovalsClaimedOnce`, `RetryHintSound`, `CleanRefusal` |
| `RORoll` | two replicas, first Bindings that fail at each single check of start-up or start, upgrades of generation, Schema, limits, staleness, topology or with a wrong pin; requests of two scopes, a batch of two keys, refused requests of each kind; clocks one apart, late commands, a damaged entry. `HitsWithinBounds`: the real age of a hit is below what the reader's and what the writer's settings allow, although a late SET starts its PX afresh and a batch decodes some time after its MGET |
| `ECDamage` | up to two damaged parts, two Schemas, size limits, every instant around expiry |

Four runs show disagreements between the code and what the repository says of it:

| run | the repository says | the code does |
|---|---|---|
| `SFStampede` | `tests/real_cache_contract.py:72`: a stampede loads once | a caller that missed before the first leader populated acquires the released lease and loads again |
| `SFSafeLoad` | docstring of `get_or_load`: safely loads | `EnvelopeExpiredError` of the decode that ends `put` escapes after a successful load |
| `COIncrement` | docstring of `increment`: atomically increments | a lost EXEC reply is retried like a conflict and adds twice |
| `ECNonFinite` | `README.md:119-121`: corrupt entries are misses | a NaN source version raises a plain `ValueError` through `lookup` |

Two smaller ones have no run. The cleanup DEL of an invalid entry is
unconditional and may hit a valid entry stored since the GET; `AtomicCache`
counts that as the loss a disposable cache allows. The header length is parsed
with `int(..., 16)`, so a frame that spells it differently is still a hit;
`AcceptsOnlyEncodings` excepts exactly that part.

### Bounds and why they are enough

* Two callers: every property is about a pair (two leaders, a leader and a stale
  command, a swap and its competitor). A stale
  release that frees another caller's lease shows only when a third call acquires
  it, which `SFEngine` has no room for: that case rests on the theorems, which hold
  for any number of callers and calls.
* Time up to 1 or 2 beyond which it only runs while a timer is pending, so no timer
  is cut off; TTLs of 1 and 2, a lease, a wait and a poll of 1: every order of
  expiry, wake-up and lease end occurs.
* One abandoned command at a time (`MaxLate`), one authority write, one engine
  change: each may come at any moment. `SESession` gives each thread one request;
  two requests meet in every order, with a late command of the first between them.
* `COAtomic` leaves restarts to `COLive`: for the refinement a restart is a loss of
  the entry, which expiry already causes, and an empty script cache, in which it may begin.
* `SESession` leaves out exception classes that another class of the same rule and
  with the same bases stands for.
* `ECDamage` allows two changes, since one damaged part is always caught by the
  part that duplicates it (version prefix and header field, digest and payload). Its
  staleness bound is longer than the TTL and never decides; where it does, `RoundTrip`
  rests on the theorem.
* `RORoll`: one later deployment and two requests in all, so that one writes and the
  other writes, removes or reads, under old or new settings: a hit and its writer, or
  an entry and the command that meets it, which is what the properties relate. Both
  may leave a command behind. Time up to 3 with clocks 1 apart and bounds from 1 on,
  so that hits at the last instant and entries too old occur; TTLs,
  staleness bounds and sizes of 1 and 2 around the limits, real key lengths,
  `maxKeyBytes` at 96, generations 1 and 2^31 - 1. Start-up is covered Binding by
  Binding, one defect each.
* Symmetry is used only in runs without liveness and without clock skew.

### Fairness

`SFLive` and `COLive` assume weak fairness of each caller's next step, counting
its failures, and of time. The code justifies it: clients are built with socket
timeouts, so a command answers or raises; a thread that is ready is
scheduled; loaders are assumed to return or raise. No fairness is assumed of the engine, of late commands or of
any fault.

## Proofs

Each theorem holds for every value of the constants that satisfies the assumptions
named in the modules that declare them: types of the parameters, positive TTLs,
leases, limits and handle counts (the code's settings parser enforces them), a wait
no longer than the lease (`configuration.py` rejects others), clocks at most `MaxSkew`
apart, finitely many keys. TLC evaluates every assumption. Bounds such as `MaxOps`
are any natural number, so the theorems speak of runs of any length.

| module | theorem | states |
|---|---|---|
| `SingleFlightProofs` | `TypeCorrect`, `LeaderExclusionHolds`, `NoOrphanLeaseHolds`, `NegativeOptInHolds` | `Spec => []P` |
| | `HitsAreValidHolds` | `Spec => HitsAreValid` (action property) |
| `CacheOpsProofs` | `TypeCorrect` | `Spec => []TypeOK` |
| | `OperationsAreAtomic` | `Spec => ImplementsAtomicCache`, if no EXEC loses its reply |
| `RuntimeLifecycleProofs` | `TypeCorrect`, `OpenedIsPinnedHolds`, `CloseIsCompleteHolds` | `Spec => []P` |
| | `NoUseAfterCloseHolds`, `DriftDetectedHolds` | action properties |
| `SessionExecuteProofs` | `TypeCorrect`, `InvalidatedStaysGoneHolds`, `RemovalsClaimedOnceHolds`, `RetryHintSoundHolds` | `Spec => []P` |
| | `CleanRefusalHolds` | action property |
| `EnvelopeCodecProofs` | `AcceptsOnlyEncodingsHolds`, `RoundTripHolds` | `Spec => []P` |
| `RolloutProofs` | `HitsAreOwnAlways`, `OldGenerationNeverReached`, `KeysStayApart` | `Spec => []P` |
| | `ForeignNeverTouched` | action property |
| `RolloutBoundsProofs` | `TypeCorrect`, `TtlBoundedHolds`, `KeysAlwaysFit`, `AcceptedIsWritableHolds`, `SentinelsDistinctHolds` | `Spec => []P` |
| | `HitsWithinBoundsHold` | action property |

Hardly any of these is inductive as it stands. The arguments, each with the
invariant it needs and one case per action:

**One leader, no orphan lease** (`LeaseInv`). `LeaderPlace`: a caller with the
leader's role is at one of the leader's places, so losing the role means having
passed the release. `LeaseHeld`: a leader within its lease is the token in the engine's lease
key, and the key lasts as long as the leader counts on it; exclusion follows,
because one key holds one token. `OldReleases`: a release on its way belongs to a
call that is over, so when it arrives it cannot match the token of a leader at
work. Tokens are never reused, which is where the fresh `secrets.token_bytes`
enters. Restart, eviction and failover break `LeaseHeld` for the key and set every
`until` to 0 in the same step: no leader may count on a lease the engine lost.

**What get_or_load caches and returns** (`StampedInv`). Every envelope anywhere (the
entry, the lagging replica, the commands left behind, the hands of a caller that is
about to decode, set or verify it) is one that `put` stamped: its value may be
cached, its expiry is its creation plus the effective TTL, and its creation is at
most `MaxSkew` ahead. `decode` compares the expiry with the reader's clock, which
gives the age bound of `HitsAreValid` however late a SET arrives; `Cacheable` gives
`NegativeOptIn`.

**Cache operations are atomic** (`Inv` of `CacheOpsProofs`). The refinement mapping
says of each call what was requested, whether it has taken effect, and which
requests a failed call left in limbo. Each step is shown to be one step of
`AtomicCache` or none. What has to be known: `ControlInv`, that the locals at each
place fit the request (the new envelope of a swap carries the value of the request and was made for
an envelope of the expected version); `WatchInv`, that as long as a WATCH is clean
the key still holds what was read under it, so EXEC adds to the current value;
`LateInv`, that no request is on its way twice or while its own call is in progress,
so a late command takes effect at most once. The theorem assumes
`"execloss" \notin Faults`. That is not a convenience: with a lost EXEC reply
the statement is false, and the run `COIncrement` shows how.

**The runtime's fields**. `PinnedInv`: the manifest, once set, is the pinned
release, a probe of an open runtime has one to compare with, and `open` is past its
pin test only with the pinned release; close never clears the manifest. `CloseInv`: a closer has tried all
handles before its next one, and as long as not all were tried somebody who set
`_closed` is still at work; this is why a second close may return early. `LateInv`: a
call that began on a closed runtime has not passed its first test, and `_closed`
is never reset. `DriftInv`: what was wrong with the engine all along still is, was noted when its
command was answered, and nothing noted is passed by its later judgement; with
`Judged` covering every fact by the last command nothing is left over. All rest on
`TypeInv`, which adds the range of the command counter at each place to `TypeOK`.

**Sessions** (`Inv` of `SessionExecuteProofs`). `StoreInv`: an entry is of one key,
and none is in the store before it is written. `ControlInv`: among other things, the doomed entries
of a removal that the store still holds are those of keys whose turn is yet to
come, so none is left when the last key is done. `ClaimInv`: what was removed is in no
key, and the removals of two requests are disjoint. `OutcomeInv` carries
`RetryHintSound`, which is shown class by class over the client library's hierarchy.
Every step `Evolves`: a key keeps its entry, loses it or holds a new one; that alone
preserves the claims of the other threads.

**The codec**. `DecisionInv`: a decision is the one `decode` makes of the bytes as
they are, since nothing changes afterwards; and a frame keeps its parts
(`WellShaped`) whatever was damaged. Acceptance then means that every check passed,
and the checks together determine each part from the rest. `UndamagedInv`: bytes storage has not touched are what
`encode` made of the value at an instant not later than now. SHA-256 is an injective
constructor here too.

**Rolling change** (`PlacedInv`). Everything that carries an entry (the store, the
commands on their way or left behind, what MGET returned, the results so far) has
it `Placed` under its key: the key digests the entry's owner, and its
generation is no newer than the one deployed when the entry was put. The second half needs
`GenerationsOK`, that no replica runs a newer generation than the one deployed,
which holds because IaC only increments generations; that assumption is part of
`Deploy`. `OwnerUnique`, that a key names one owner, then gives `HitsAreOwn`,
`OldGenerationUnreachable` and `ForeignUntouched`, and rests on SHA-256 being an
injective constructor, truncated digests included; so does `KeysStayApart`
(`EncodeInjective`).

**Bounds during a roll** (`BoundsInv` on top of `PlacedInv`). A serving replica runs
an accepted Binding; every entry in the store, left behind or in a replica's hands
has a TTL within the bounds of the settings it was put under and a stamp at most
`MaxSkew` ahead of its put; results come in one by one. `HitsWithinBounds` follows
(`DecodedAge`): the reader's clock is not behind the engine's, so an entry that decodes
was put less than its TTL, and less than the reader's staleness bound, plus `MaxSkew`
ago. `DeploymentProofs` supplies what acceptance means: `StartGrants` and
`SettingsGrant` take the checks apart (a Binding whose first error is "none" passed
each of them), `EffectiveTtlBounded` and `DefaultWritable` bound `effective_ttl_ms`
by case analysis of its clamps, `UntaggedFits` adds up the longest physical and
lease keys, digits of a 31-bit generation included, against `maxKeyBytes >= 96`, and
`AddressesDistinct` shows that endpoints which differ in host, port and scheme, once
their schemes agree, differ as addresses.

Only model-checked: the liveness properties `CallsReturn`, `LeaseFreed`,
`StaleDiesOut` and `OpsReturn`, since fairness is outside the prover's reach. The
four runs that expect a violation are counterexamples and need no proof. Not proved
and not assumed: that SHA-256 has no collisions (it is the injective constructor by
which the model abstracts it).

## Not modelled

Sentinel address remapping, credentials and connection arguments, which only
reach the client library, and the `client_builder` shortcut of tests; metrics and
events (no decision reads them); the descriptor's contents (static data) and the
mappings `verify_physical` returns; the regular expressions and JSON type tests of
the settings, abstracted to malformed sections; CRC16 beyond equal tags having
equal slots; what a session obtained before `close` can still do with the client's
pool, which is up to the client library. A change of a Resource's serializer
without a change of its Schema is not among the upgrades: the frame names its
serializer, so `EnvelopeCodec` decodes it as written.

Failover to a replica that lags is in `SingleFlight` only. In `CacheOps`,
`SessionExecute` and `Rollout` the engine may lose its data (restart or expiry) but
does not go back to an earlier state. A promoted replica can bring a removed or
replaced entry back, so `ImplementsAtomicCache`, `InvalidatedStaysGone` and
`RemovalsClaimedOnce`, and the theorems that prove them, hold only without such a
failover; on Sentinel a successful delete, swap or increment can be undone by one.

Two error paths are left out of the cache modules. `_eval_script` raises a
`RuntimeError` when SCRIPT LOAD answers with another digest, which takes an engine that
computes SHA-1 wrongly. And every entry that does not decode is discarded there,
while a non-finite number in a header raises a plain `ValueError` instead; that
is the subject of `EnvelopeCodec` and the run `ECNonFinite`.

What the model shows and no document rules out: a Resource whose staleness bound or
default TTL is below the deployment's minimum starts and refuses every put
(`AcceptedIsWritable` excepts exactly that); keys of an atomic group need at least
98 bytes, more than the smallest `maxKeyBytes`; a delete during a roll reaches only
the entry of its replica's own generation and Schema; a generation that is set back
makes unexpired entries reachable again.

## Plan

1. Model more: sessions that outlive their runtime, if the client library's
   behaviour after `close` is ever relied upon.
2. Prove more: the abstract cache in `SessionExecute` is one step per call on the
   strength of `OperationsAreAtomic`; a composition of the two modules with the
   substitution made explicit is not written. The weaker guarantee that remains
   when an EXEC loses its reply (an increment is applied at most once per try)
   has no abstract specification yet.
