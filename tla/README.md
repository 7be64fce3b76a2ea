# WellBoard: a TLA+ verification project

WellBoard is a Go daemon for OpenWrt routers.  It keeps a list of VPN
subscriptions, the servers they offer, groups and routing rules in one JSON
file, turns that file into a mihomo profile, and applies the profile through
nikki, the service that runs mihomo on the router.  A Vue single-page
application and a LuCI page drive it over HTTP.

This directory holds models of the daemon's logic, the TLC configurations that
check them on small instances, and TLAPS proofs.  Source paths below are
relative to the root of the repository.

## 1. Inventory

| Component | Source | State it keeps | Operations | Hard behaviours |
|---|---|---|---|---|
| Apply flow | `internal/apply` | `applied.json` (5 records), `Applyer.mu` | Apply, Rollback, History, Pending | every step can fail; two requests at once; state edited while an apply waits; crash in the middle |
| nikki adapters | `internal/nikki` | profile files, UCI selection, `lastGood` under its own mutex, the dry-run child process | Detect, WriteProfile, Validate, Activate, Health, LastGood, MarkHealthy, Stop | three commands per Activate; power loss between them; Detect called by anyone; child process death observed by a goroutine |
| HTTP API, state | `internal/api/api.go`, `export.go` | `Server.mu`; the state lives only in `state.json` | create, patch and delete of sources, servers, groups, routes, templates, settings; import and export | read-modify-write under one mutex that `load` takes and each handler must release once; references between entities |
| HTTP API, monitoring | `internal/api/monitoring.go` | none of its own | apply, rollback, pending, logs, diagnostics, mihomo proxy | diagnostics shares the adapter with a running apply |
| Subscriptions | `internal/subscription` | miss counters, failure counters and retry times inside the state | Fetch with retries, ParseBody, Merge, Update, UpdateOne | load, network, save without the API's mutex; back-off; identity of servers across updates |
| Scheduler | `internal/scheduler` | `stopCh` under a mutex | Start, Stop, UpdateNow, the ticker loop | stop racing a round; restart after stop |
| Generator | `internal/generator` | none (a function of the state) | Generate, GenerateWithProviders | name collisions; targets that no longer exist |
| Store | `internal/store` | `state.json`, its temporary file and backup | Load with migration, Save | crash between the writes; schema upgrades |
| Auth | `internal/auth` | sessions with expiry, login failure counters | login, logout, session check, CSRF check, limiter | ubus login outside the lock; expiry; the limiter's window |
| HWID | `internal/hwid` | the identity file and its copy | Load, Generate | crash between two files; regeneration |
| Templates | `internal/templates` | shipped catalog, overlay files | LoadMerged, WriteOverlay, DeleteOverlay | overlay shadows shipped; reload while others read |
| Application log | `internal/applog` | a ring of lines and a partial line | Write, Tail, Close | lines split over writes; redaction |
| LAN | `internal/lan` | none (reads leases and ARP) | devices, static leases | pure I/O |
| Geodata | `internal/geodata` | none | HEAD probes, tag listing | pure I/O |
| Link conversion | `internal/convert` | none | share links to proxy maps | pure parsing |
| Start-up | `cmd/wellboard` | none | wiring, signals | order of Detect and serving |
| Web UI, LuCI, packaging | `web`, `packaging` | browser state | pages | not daemon logic |

How they interact.  Every HTTP request is a goroutine.  The handlers of
`api.go` take `Server.mu` in `load`, change the decoded state, call `save` and
unlock.  `POST /apply` and `POST /rollback` do not take `Server.mu`: `Applyer`
reads `state.json` through the store and serializes itself with `Applyer.mu`.
`RouterAdapter` protects only `lastGood`; its commands run outside any lock.
`GET /diagnostics` calls `Adapter.Detect` with neither mutex held.

### What makes each component correct

* Apply flow: only a validated profile is ever selected; a failed apply leaves
  the router on a profile that worked; the history says what ran; a reply says
  the truth; a waiting request is answered.
* State API: mutations are serialized; a reference always has a target or is
  reported; every path out of a handler releases the mutex exactly once (one does
  not, see section 9).
* Subscriptions: a failed update deletes nothing; a server keeps its ID while
  it is offered and is deleted only after three updates in a row without it;
  other sources are untouched; retries are bounded.
* Scheduler: at most one loop; a stopped one stops (that it can be started again
  is what its comment says and the code does not do, see section 6).
* Generator: it fails exactly when something the profile needs is missing, and
  proxy names in its output are unique.
* Store: after any crash the old or the new state is readable.
* Auth: only a live session passes; the limiter bounds guesses.

The hazards, with the line where each bites and the properties that cover it,
are in `PROJECT.json` under `hazards`.

## 2. Plan

| Module | What | State of the work |
|---|---|---|
| `ApplyFlow`, `ApplyFlowProofs` | apply, rollback, router and diagnostics, with crashes | modelled, checked, proved |
| `PoolState`, `PoolStateProofs`, `Pool`, `PoolProofs` | create, patch and delete with references, Merge, target resolution | modelled, checked, proved |
| `Register`, `AtomicFile`, `AtomicFileProofs` | how a file of the data directory is replaced, as an implementation of an atomic register | modelled, checked, proved |
| `DataDir`, `DataDirProofs` | store, hardware identity and template overlay over that protocol | modelled, checked, proved |
| `Fetch` | the retry loop of a fetch and the back-off, as functions | checked and proved against references |
| `Updates`, `UpdatesProofs` | scheduler, rounds and manual updates beside handlers | modelled, checked, safety proved |
| `Sessions`, `SessionsProofs` | login throttle, both ways to ask ubus, sessions | modelled, checked, safety proved |
| `NatFacts` | induction, least and greatest numbers: what the proofs about recursive functions need | proved |
| `MC*` | the small instances | |

How they compose: `DataDir` extends `AtomicFile`, whose refinement instantiates
`Register`; `Updates` extends `Fetch`; `Pool` extends `PoolState`.  `Pool` and
`Updates` are two views of one file: `Pool` has every handler and all of Merge
with each request atomic; `Updates` has one server a source, splits every load
from its save and lets them interleave.

Left for later: the mutex discipline of the handlers (`Server.mu`, with the
unlock twice in `monitoring.go:217`); the log buffer; the dry-run adapter; a
refinement between the two views of the file, `Updates` and `Pool`.

## 3. Apply flow: `ApplyFlow`

### Correspondence

| TLA+ | Code |
|---|---|
| `state` | `state.json`; a value stands for a content with its own `stateHash` |
| `files` | the profiles directory: which state each WellBoard profile was generated from |
| `uciLive`, `uciSaved` | `nikki.config.profile` after `uci set`, and after `uci commit` |
| `running` | the profile nikki was last started with |
| `lastGood` | `RouterAdapter.lastGood` and `lastGoodSet` |
| `history` | `applied.json` |
| `mu` | `Applyer.mu` |
| `pc`, `job` | the position and the locals of a request goroutine |
| `probe` | the name a `Detect` has read from UCI and not yet stored |
| `validated`, `confirmed`, `answered`, `job.prev*` | history variables: they record and constrain nothing |

`Apply` is cut where another goroutine or a crash can see a difference: lock,
load and generate, write, validate, the three commands of Activate, health,
the choice of a rollback, MarkHealthy, the history, unlock.  Activate and Health
are one set of actions used by three contexts (`ctx`): the apply itself, its
automatic rollback and a rollback by the user; `OnActivateError`, `OnHealthy`
and `OnTimeout` say where each goes on.  Every action that stands for I/O has a
failing alternative.  A request whose label is in `Replies` has its answer and
still holds the lock, as Go's deferred unlock does.

External parts, modelled from how the adapter drives them: `uci set` changes
the value every later `uci get` and the service sees, `uci commit` makes it
survive a power loss, and the init script's restart starts mihomo on the selected
profile.  A command that reports failure, because it failed or was killed at its
deadline, may have taken effect or not.  A health check passes or times out freely:
mihomo may come up in time, late or never, and the core of before a restart may
still answer the first poll (`router.go:358`).  What a passed check is worth is
therefore not claimed; that one passed since the restart is (`answered`).

Abstractions.  Profile names are minted fresh: `profileName` holds a time
stamp to the second and a counter, so a clash needs the clock to step back to
the very second of an earlier apply.  A history file that cannot be read yields
an empty history for that one call.  Detect's version probes and the
service-status fallback of Health (used without a controller address) are left
out or folded into whether it passes.

### Runs

| Run | Question | Result |
|---|---|---|
| `apply_safety` | two requests, a diagnostics request, edits, failures, crashes, reboots | passes: single flight of the health check, sound history, only validated profiles selected, honest replies |
| `apply_live` | two requests, with neither diagnostics nor restarts | passes: a failed health check rolls back whenever there was a last good profile, every waiting request is answered |
| `diagnostics_race` | the same rollback promise with one diagnostics request | violated |
| `last_good` | is `LastGood` "the most recent profile known to have applied successfully"? | violated, with one request after the other |

*diagnostics_race.*  Activate of `p` selects it; a diagnostics request reads the
selection and stores `p` in `lastGood`; Health fails; `LastGood() = p` is the
profile of this very apply, so nothing is rolled back.

*last_good.*  `Rollback` never calls MarkHealthy (`apply.go:336`).  Apply `A`,
apply `B`, roll back to `A`: the reply is OK, the history's newest record is `A`, and
`lastGood` still names `B`.  The next apply that fails its health check goes back
to `B`, the profile the user had just left, where the contract (`adapter.go:56`)
and `docs/DECISIONS.md:372` have it go to what ran before.

One more fact of the code is in the model and has no run of its own: the daemon
dies after `uci set`, and the next start's Detect takes the new selection for the
rollback target (`router.go:143`, against the same contract).

### Bounds

Two callers suffice for every pairwise interleaving on `mu`; the code under the
lock never looks at a third.  Two minted profiles, beside the owner's, three states (two that generate, one virgin) and a history of two
records, so that rotation, a step back and a step too far all happen.  The
history of the code holds five; the proofs cover any size.  `Symmetry` permutes
profiles and callers, which no definition tells apart; it is not used in the
liveness run.

### Fairness

`Fairness` asks weak fairness of every step a request takes once it holds the
lock: the goroutine is runnable, each external command has a context deadline
and each health poll ends at its deadline.  It asks strong fairness of taking
the lock, because `mu` is free again and again while others come and go and Go's
mutex hands itself to a waiter that has starved for a millisecond.  Nothing is
asked of arrivals, edits, mihomo, crashes or diagnostics.

### Proofs: `ApplyFlowProofs`

For any sets of callers, probes, profiles and states and any history size, from
`FlowAssumption` alone:

* `FlowInvariant`: `Spec => []IInv`, the inductive invariant;
* `TypeCorrect`, `HealthIsolated`, `HistoryIsSound`, `OnlyValidatedSelected`,
  `RepliesAreHonest`: the invariants of `apply_safety`;
* `RecordsAreOfRunning`: its action property;
* `FailedHealthRollsBack`: the invariant of `apply_live`, assuming no diagnostics
  request and no restart (`Undisturbed`); without the assumption
  `diagnostics_race` refutes it.

`IInv` is needed because none of the properties is inductive.  `MutexInv` says
a caller inside holds `mu`, which gives non-interference; `VettedInv` says that
everything that can be selected next (UCI, `lastGood`, what a probe has read) is
validated or the owner's; `CallerInv` follows one call: the profile it minted
(`MintedInv`), the target it activates (`TargetInv`), what a passed health check
shows (`HealthyInv`) and what the replies claim (`ReplyInv`).  There is one
lemma per action, `<Action>Step`, with one step per conjunct of `IInv`.

Only model-checked: `RequestsAnswered`, which is liveness.

## 4. State and its handlers: `PoolState`, `Pool`

### Correspondence

`PoolState` holds no variables: it is the content of `state.json` as one record
and the functions the handlers share over it.

| TLA+ | Code |
|---|---|
| `sources`, `servers`, `groups`, `routes` | the lists of `model.State`, in their order |
| `policy`, `hidden` | `settings.default_policy`, `settings.disabled_templates` |
| an ID `<<"grp", 2>>` | `grp_2`; `NewID` is `newID` |
| `ServerID(source, key)` | the hash of source and key: equal arguments, equal IDs |
| a key `[name, addr]` | the match key; `addr` stands for server and port |
| `stale`, `misses` | `Stale` and `StaleMisses` |
| a target, a group member | the ID it names, or `Direct`, `Reject` |
| `Merge`, `Aged`, `Distinct` | `subscription.Merge` |
| `Generates` and its parts | `generator.GenerateWithProviders` returns no `Problems` |

`Pool` has the variable `st`, the content of the file, and one action per
handler: the handler takes `Server.mu` in `load`, decides, changes, saves and
unlocks, so nothing comes between its parts.  A request that is refused, or
whose save fails, leaves the file as it was and is no step.  `ImportAll` and
`ImportNikki` carry the state through their loop as a recursive function over
its turns, as the code appends while it goes; `Filter` is the loop that rebuilds
a list.  `SubIds`, `Server`, `Group` and the like are the shapes `internal/model`
declares.

Left out: display names and their `uniqueName` suffixes; URLs and update
intervals of sources; types of groups; the `on_unavailable` of routes; settings
other than the default policy; syntax checks of conditions and providers.  A
target's type and its ID agree.  The servers of subscriptions come in with
imported documents; the updates that bring them are in `Updates`.

A document that is imported may be anything of the declared shape that
generates: `handleImport` asks the generator and nobody else, so IDs may be
shared, a server may have no source, a fresh server may have any count of misses,
and a source any kind.  The handlers are modelled accordingly: they take the first
entity with the ID they are given.  The one form that is assumed is that of an ID, a
prefix and a positive number, as `newID` makes it.

Three facts of the code show in the model without a run of their own.
An edited server keeps its ID (`api.go:673`), and `Merge` derives the same ID
again from the old key (`merge.go:103`): pasting the old link once more gives two
servers one ID (the run does this), where `docs/initial-tz.md:89` (FR-3.4) wants references to stay whole.
`ValidTarget` accepts a server of a disabled source, which the comment of
`validateTarget` excludes.  `DeleteServer` takes a server out of its groups and
may leave one empty, where `docs/DECISIONS.md` (T1) promises a refusal.

### Properties

* `IdsStayUnique`, `ServersOwned`: no request but an import makes two sources,
  groups or routes share an ID or leaves a server without a source, although
  numbers are reused.  They are properties of steps, because an import may break
  both.
* `EnabledTargetsGroup`: no enabled route aims at a missing group.  It needs all of
  the delete guard, the checks of create and patch, and the generator's check
  of a document, which ignores disabled routes.
* `ServerTargetsKept`, `MembersKept`: a server that an enabled route aims at,
  or that a group keeps as a member, leaves only with its source (the exception is
  real: see `source_delete`) or at its last miss, that is, by a paste into its own
  source that does not offer it and brings its count to the limit.  A group that
  is left empty violates neither.
* `SourcesIsolated`: Merge touches one source.
* `AddedRouteLast`, `BulkImportOnce`: the order of added routes, and imports
  that do not pile up.

### Runs

| Run | Question | Result |
|---|---|---|
| `pool` | do references, unique IDs, the order of routes and bulk imports survive any order of requests, careless documents included? | passes |
| `source_delete` | does deleting a source report the routes that lose their target? | violated: the guard compares targets with the source's ID |
| `manual_stale` | can a manual server be stale? | violated by the second paste |

### Bounds

`pool` has at most two entities of a kind (`MaxKind`), since every property relates
at most two, and a `MaxWeight` of five over all of them: a source, server, group
or hidden template weighs one, a disabled source and a route two.  IDs are minted,
freed and minted again within the bound, and groups may be members of groups
(`MaxMembers` one each).  `Remembered` is an ID a client may still name after the
group has gone, or before it exists.  The imported documents start from states that
take long to reach or that only an import reaches: a server two misses old beside
a disabled route whose group is gone; two sources and two servers with one ID and
a server without a source; a document with a lost target, which must be refused.
`Edits` holds one key, so that a renamed server can take the key of another.
One requested order and orders to 20 are enough to move a route behind or before
another.  Providers are left out of the instance (`Provs` is empty): no property of
the run looks at them, and the proofs have them.
`CHECK_DEADLOCK FALSE`: the bounds may leave a full state without a request.

### Proofs: `PoolStateProofs`, `PoolProofs`

For any number of entities, any requests, answers and documents, and without the
bounds of the runs, every property of this section's passing runs:
`TypeCorrect`, `IdsUniqueStay`, `ServersHaveSources`, `EnabledRoutesHaveGroups`,
`TargetServersStay`, `GroupMembersStay`, `SourcesStayIsolated`,
`AddedRoutesComeLast`, `BulkImportRepeatsNothing`.

The inductive invariant is `Good`: the document has its shape and every enabled
route has a target that exists or is a server.  The action properties follow from
what one request does, `Step`: unique IDs and owned servers stay so (`Kept`), who
leaves the pool or the groups is excused or no longer named, a route without an
order comes last, one source's servers change.  There
is one lemma per handler, `<Handler>Step`; an imported document is the one other
case (`Replaced`), and what the generator checked makes it good.

The loops are the work.  `PrefixRecursion` says that a recursive function over
`0..n` whose steps stay in a set exists and what its values are; with `NatFacts`
it gives what `Filter`, `newID`'s search, `nextOrder` and the bulk imports
compute for lists of any length.  `FreeNumber`, by the pigeonhole principle, is why
`newID` ends.  `Of`, the part of a list that belongs to one source, is followed
through appending, filtering and removing; `MergeIs` puts this together.  It
also gives a theorem about `Merge` alone, `MergeHonest`: every usable entry of an
answer ends as a fresh server, nobody who is offered or has answers to miss yet
goes, and the part of every other source stays as it was.

## 5. The data directory: `Register`, `AtomicFile`, `DataDir`

### Correspondence

`store.Save`, `hwid.Manager.save` and `templates.WriteOverlay` write a temporary
file and rename it.  `AtomicFile` is that protocol with any number of writers on
one file, since nothing keeps two of them apart: the updater saves without
`Server.mu`, the template handlers take no lock, and two first requests may both
generate an identity.

| TLA+ | Code |
|---|---|
| `kind` | which of the three functions the file belongs to; chosen in `Init` |
| `pc`, `doc` | where a writer is in its function, and what it writes |
| `tmp`, `file` | the temporary file of a writer and the file: what a reader sees, what is on disk |
| `onDisk` | what a power cut may bring back under the name |
| `CreateTemp` ... `SyncDir` | one step of the function each, with its failure |
| `RemoveTemp` | the deferred removal after a failure |
| `Erase` | `DeleteOverlay` |
| `Kill`, `PowerCut` | the process dies; the machine loses what was not synced |

External, as the code uses it: a file that is not synced reads as torn after a
power cut, and a rename is atomic for readers and durable only after the
directory is synced.  `Save` syncs the directory, and takes a failure of that for
success; the other two functions do not sync it.

`DataDir` adds who uses the file.  *state*: Load with its chain of migrations, a
save of what was loaded, and `POST /import`, which saves without a load.  *hwid*:
Load, which generates an identity whenever the file cannot be read or is
malformed, and Reset.  *template*: the handlers, `LoadMerged` and the
two halves of `ReloadCatalog`, which reads the directories and then replaces
`Server.Catalog` with no lock.  The user may also copy a broken file into the
overlay directory.

Abstractions.  A state is the four fields the migrations look at.  `hwid.Load` returns a
fresh identity on each generation (a random salt), so two are never equal.  One
template id is followed; ids do not influence each other.

### The refinement

`Register` is what a persistent document promises: a write takes effect in one
step, a reader gets a whole value, and a power cut brings back the last durable
value or a later one.  `AtomicFile!R` maps `value` to what a reader sees, `kept` to
`onDisk` and a call to a document whose writer has not renamed yet.  All the
steps of a write but the rename stutter.

### Run

`data_dir` checks with two writers, both restarts and each kind of file:

* `ImplementsRegister`, `NeverTorn` and `RenamesWhole`: readers find whole
  documents, in any interleaving of two writes and after any crash.
* `OlderMigrated`: what a load of an older document hands out has been through
  each migration from its version on.
* `OnlyImportReplaces`: a state that a newer WellBoard wrote is replaced by an import
  and by nothing else.
* `HandedOutStored`: no identity is used that was not in the file.  This is less
  than FR-2.1's "once": two first loads may each hand out an identity, and a read
  that fails makes a new one (`hwid.go:199`), in the model as in the code.
* `ShippedStays`: neither a broken overlay nor a race of reloads takes a shipped
  template away.

`import_newer` violates `NewerKept`, that such a state is never replaced at all.
`handleImport` says "the store's own too-new check runs on Save/Load"
(`export.go:74`), but it does not load and Save has no check (`store.go:163`).  The
same import saves a document of an older version without migrating it, stamped as
one of this version (`export.go:134`); so a stale server of a v3 file may have no
miss, and nothing is claimed of what a load of a v3 document hands out.

`catalog_race` violates `CatalogCurrent`.  Two requests write the same template;
the reload that read the directory first assigns last, and the catalog stays
behind the disk until the next reload.

Bounds: two writers give every interleaving of two writes; the file sees three
identities, two templates and a broken one, and five states: one of each old version,
two of the current one (the second only an import can have written), and a newer
one.  A template the loader refuses may be written, since
`validateTemplateIn` only looks for a provider's file, and answers 500
(`api.go:1742`): `Broken` is among what `PutTemplate` writes.

### Proofs: `AtomicFileProofs`, `DataDirProofs`

For any set of writers and documents: `AtomicWrite` (`FSpec =>
ImplementsRegister`), with the inductive invariant `FInv`: the types, a writer on
its way to the rename has a document, its temporary file reads as that document
after the write and is on disk after the sync (`RenamesWhole`), and the file is
whole.  `RenamesWhole` is the heart of it: it makes the rename a `RWrite` for the
readers and for the disk at once.  `UsersImplement` (`Spec => FSpec`) carries the
theorem to `DataDir`: `DataDirAtomic`, `DataDirNeverTorn`, `DataDirRenamesWhole`.
`OnlyImportDowngrades`, `IdentityStored` and `ShippedKept` have an invariant each:
while a newer state is in the file nobody holds one that was loaded and no save
but an import is under way; an identity somebody holds was read or saved; a
catalog entry that is about to be put in place is never "none" when the shipped
set has one.  `LoadsMigrated` follows from what the migrations compute for any
document; `TypeCorrect` rests on the types of the protocol.  `StatesAssumption` asks
of the documents their shape and nothing more.

## 6. Subscription updates: `Fetch`, `Updates`

### Correspondence

`Fetch` has no variables.  `Fetch(candidates, answers, cut)` is the loop of
`Client.Fetch` over its attempts and the candidate paths: which answers go on,
which end it, what is reported, and that it is cancelled when the context ends in
the pause after attempt `cut`.  `Delay(failures)` is the back-off of
`recordFailure`.  `FetchKeepsPromises` holds the first against what the
documents promise of it, for all of the `8^3 + 8^6` sequences of answers and every
`cut`: an answer that comes in time is not lost to trouble that passes, and a
definitive answer of the URL itself is reported and nothing is asked again
(`docs/DECISIONS.md:160`).  `DelayBounded` compares the second with its closed form.

Three facts of the fetch loop are outside these promises.  A refusal (401, 403)
of the `/mihomo` path ends the fetch without asking the URL, although a panel may
refuse paths (R2) and RK6 says that "the plain-URL fallback covers that"
(`docs/DECISIONS.md:431-435`).  A 5xx of that path goes on to the URL in the same
attempt, although the comment says that "the plain-URL fallback still applies on
404 only" (`subscription.go:197-200`).  And a 5xx with a device-limit header is
retried, where S1 has "hwid-limit" among the failures that are not.  All three are in
`GoesOn`; `Passing` and `Definitive` say which answers the promises are about.

| TLA+ | Code |
|---|---|
| `disk` | `state.json`: per source its switch, failures in a row, time to the next attempt, and the misses of one server |
| `stopCh`, `closed` | `Scheduler.stopCh`, which Stop closes and keeps |
| `ctxDone` | the context of Start is cancelled |
| `pc`, `mode`, `copy`, `todo` | a round: where it is, which sources it wants, the state it loaded, those it has still to fetch |
| `patch` | a handler between its load and its save |
| `stale` | history variable: rounds whose state was replaced since they loaded it |
| `Load`, `Succeed`, `Fail`, `Save` | the steps of `update` (`updater.go:109`) and `UpdateOne`, each with its failure |

A source's wait counts half minutes, and a round takes the time from its start, so the
wait that is written may have passed in part.  A manual update runs under the
context of its request, so the end of the daemon's does not fail it.  Merge is followed for one server
of each source: an answer offers it or does not.

No non-test code constructs a `Scheduler` or an `Updater` at this commit; both are
modelled as their comments say they are used, with the handlers of `api.go`
beside them.

### Run

`updates` asks two questions at once: two sources that nobody edits, or one
source with a user who adds, patches and deletes it and asks for updates.

* `OneLoop`: no order of Start and Stop makes two loops.
* `FailureKeepsServers`: a failed attempt takes no server away.
* `StopHalts`: a stopped loop ends, in the middle of a round too.
* `SourceRefreshed`: while the loop is wanted and an enabled source is left
  alone, it is fetched again and again.
* `FetchKeepsPromises`, `DelayBounded`.

`FailureKeepsServers` excludes rounds that were overtaken by another save, because
of them it does not hold: a round loads the state, fetches for seconds and saves
the whole state it loaded, without `Server.mu`.  An edit made meanwhile is lost, a
source deleted meanwhile comes back, and a scheduled round whose own fetch failed
undoes the success of a manual update and takes its servers away.  The repository
promises otherwise: "network errors never remove the previously stored servers"
(`subscription.go:11-12`), failed sources "KEEP their servers"
(`updater.go:21-23`), `mu` "serializes load-modify-save cycles"
(`api.go:70-71`), a "single mutex serializing load-modify-save cycles"
(`docs/DECISIONS.md:239`, T1).  The model has these steps, so a reader can see the
lost update by checking `FailureKeepsServers` without its `stale`; it has no run of
its own, and the property claims only what holds of a round nobody overtook.

`SourceRefreshed` has limits too: a loop that was stopped and started again does
not exist in the code, the back-off does not grow in the run (`MaxFail` is one,
`DelayBounded` covers the growth), and that the state can be read now and then is
an assumption about the environment.

Two facts of the code without a run.  A Start after a Stop does nothing, because
Stop keeps the closed channel and Start returns when there is one
(`scheduler.go:65`), where the comment at line 111 says "Start may be called
again afterwards".  `ParseIntervalSec` takes a panel's interval of 24 for seconds
and not for hours, as the test is `n < 24` (`subscription.go:377`).

Bounds: one failure is counted apart and the interval and the shortest delay are
one unit, which is enough to be due, not due and overdue; a server goes at its first miss
(3 in the code), so that a deletion is one answer away.  Two loop goroutines are
one more than the code can have.  Longer delays are covered by `DelayBounded`.

### Fairness

Weak fairness of time, of each step of a round (a fetch has a deadline) and of
the ticker's branch of the select.  Strong fairness of the stop branch: a select
with several ready channels chooses at random, so the one that stays ready is
chosen some time.  Strong fairness of a load that succeeds: the state can be read
now and then.  Nothing is asked of the network, of Start or of the user.

### Proofs: `UpdatesProofs`

For any sources, goroutines and calls:

* `OneLoopRuns`.  The inductive invariant `LoopOwned` says that every loop but
  the one whose channel the scheduler keeps is off; it is preserved because Stop
  never forgets the channel.
* `BackOffBounded` and `FetchPromises`: what the two recursive functions of
  `Fetch` compute, by induction over their argument.  `BackOffCapped` says of any
  number of failures what the table of the run says of thirty.
* `TypeCorrect`, with the bounds on waits, failures and misses.
* `FailuresKeepServers`.  Its invariant ties the copy of a round to the file: a
  round that nobody overtook has the sources of the file, and a source it has not
  fetched, or whose fetch failed, has the misses of the file (`CopiesFresh`).

Only model-checked: `StopHalts` and `SourceRefreshed`, which are liveness.

## 7. Logins and sessions: `Sessions`

### Correspondence

| TLA+ | Code |
|---|---|
| `entries` | `Limiter.entries`: failures and what is left of the window |
| `sessions` | `Manager.sessions`: what is left of each |
| `at` | where a request is: refused, waiting for the bridge (`http`) or the command line (`cli`), creating its session, resetting the limiter; served or logging out |
| `Admit`, `Refuse`, `Refused` | `Allow` and `retryAfter` of `handleLogin` |
| `NoBridge`, `Reject`, `Accept`, `Unavailable` | the answers of `UbusLogin` |
| `Mint`, `Reset` | `Manager.Create` with its sweep, `Limiter.Reset` |
| `Arrive`, `Served`, `Logout` | `RequireAuth`, `handleLogout`: Get, which deletes what has expired, and Delete |
| `Crash`, `Boot` | the daemon restarts; sessions and failures are in memory only |

The limiter and the session manager have a mutex each, held for one section and
never during the question to ubus: each action is one section.  The CSRF check
is a yes or no of `Arrive`.  A command line that is killed at its deadline exits
with an error and so counts as a wrong password, as in the code;
`ubus_degradation_test.go:267` calls that "unavailable", but its stub returns the
context's error, which a killed process does not.  No property depends on it.

### Run

`sessions`, with two logins in progress, two addresses, one other request at a
time, two sessions, and a limit of two:

* `FailuresBounded`: logins that were admitted together pass the limit by fewer
  than can be in progress at once.
* `SessionLifetime`: a session ends by its own logout, its TTL or the end of the
  process, is never prolonged, and an expired one, swept or not, lets nobody in.
* `Readmitted`: a throttled address is let in again, however often it tries.

Bounds: window and TTL are one tick, so both "just over" and "not yet" exist; a
limit of two separates a first failure from the one that throttles; two sessions
let the sweep of a login meet an expired one.

Fairness: time passes, and a login ends, as ubus is asked under a deadline of ten
seconds.  Nothing is asked of users.  `Readmitted` needs both: the logins that
are still out when an address is throttled may begin the window again, but only
once each.

### Proofs: `SessionsProofs`

For any addresses, logins, tokens, limit, window and TTL: `SessionsTypeCorrect`,
`FailuresStayBounded`, `SessionsLive`.  The bound is stated with the attempts still
out (`Asking`), which is what makes it inductive: a login is admitted only below
the limit, and a verdict moves one attempt from those out to those that failed
(`BoundKept`, `AskingBounds`).  Only model-checked: `Readmitted`.

## 8. What is assumed and what is only checked

Every invariant and every action property of the passing runs is also a theorem,
for all values of the constants.  The proofs use the named assumptions of the
modules and nothing else; TLC evaluates them on every run.

| Assumption | What it asks |
|---|---|
| `FlowAssumption`, `AtomicFileAssumption`, `DataDirAssumption` | markers differ from values |
| `StatesAssumption` | a state file has the fields and their types; what they hold is free |
| `PoolAssumption` | limits are natural numbers; the catalog's providers are among those a route may name |
| `RequestsAssumption` | a request, or a document that is imported, is of the shape the JSON decoder accepts, with IDs of the form `newID` makes. That IDs are unique, servers have their sources and references are whole is not assumed |
| `UpdatesAssumption` | sources are numbered from 1; markers differ from goroutines; limits and the interval are positive |
| `SessionsAssumption` | sets of logins are finite, limits are natural numbers |

One theorem has a hypothesis: `FailedHealthRollsBack` assumes `Undisturbed`, as the
run does.

Induction.  The library states induction with an operator parameter, which the
provers cannot instantiate.  `NatFacts` states it with a set (`SetInduction`), which
can be cited, so what the recursive functions of these models compute is
proved; they are written as functions over an interval for that reason.

Only model-checked: the liveness properties `RequestsAnswered`, `StopHalts`,
`SourceRefreshed` and `Readmitted`.  They need fairness, whose `ENABLED` the
provers do not handle.  The six runs that expect a violation are TLC's too.

## 9. Not modelled, and why

* `internal/lan`, `internal/geodata`, `internal/convert` and the nikki readers
  read files or the network and parse; they keep no state and nothing
  interleaves.
* `internal/applog` and the dry-run adapter: diagnostics and the development
  stand.  Nothing else reads what they keep.
* Handlers as sections of `Server.mu`: `Pool` has each one atomic, which is what
  the mutex gives.  A handler that breaks the discipline is outside the model; the diagnostics
  request does (`monitoring.go:217` unlocks again after a failed load, which
  has unlocked).
* The provider set of the apply path is that of the start
  (`cmd/wellboard/main.go:233`), while handlers use the live catalog.
* The text of the generated profile, display names and `uniqueName`, geodata
  settings, redaction, headers and base64 of subscription answers: formatting
  and parsing.
* The web UI, the LuCI page and the packaging scripts hold no logic of the
  daemon.
