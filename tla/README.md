# A verification development of caddy-forward-auth

`caddy-forward-auth` is a small HTTP server that Caddy's `forward_auth` asks whether a
request may pass. It knows services (a host glob, a user, a bcrypt hash), lets an address
that logged in pass without credentials for a while (the whitelist), and bans addresses that
fail too often (the flood engine). This directory holds TLA+ modules that model it, TLC runs
that check them on small instances and TLAPS proofs that hold for all instances.

    tlc -workers 2 -config MCCore.cfg MCForwardAuth     # a run; the pairs are listed below
    tlapm ForwardAuth_proofs.tla                        # all proofs of a module

## The system

| component | code (`src/internal/`) | state | operations |
|---|---|---|---|
| auth probe handler | `serve/handler.go` | its locals: `now`, the address, `whitelisted` | `authProbe`, one goroutine per request |
| ban list | `floodban/` | `bans`, one per address; `dirty`; a file | `Upsert`, `IsBanned`, `RemoveExpired`, `Open`, `Save` |
| failure log | `floodtrack/` | `entries`; `dirty`; a file | `Append`, `CountSince`, `RemoveOlderThan`, `RemoveForIP`, `Open`, `Save` |
| IP whitelist | `ipwhitelist/` | `elements`, one per address; `dirty`; a file | `UpsertNow`, `Contains`, `Open`, `Save` (which prunes) |
| flood engine | `flood/` | the two bundles and the cleanup goroutine | `CheckBan`, `RecordFailure` with `UpdatePunishments`, `ClearFailures`, `Cleanup`, starts and stops |
| periodic saver | `persist/periodic.go` | `stopCh`, `doneCh` and a goroutine per bundle | `Start`, `Stop`, the loop |
| atomic file write | `persist/atomic.go` | a temporary file | `WriteAtomic` |
| process life cycle | `serve/entrypoint.go`, `main.go` | what was started | `Run`: open, start, serve, drain, stop, exit |
| services and credentials | `auth/` | the services, fixed at start | `LoadServicesFromEnv`, `FindServicesForHost`, `CheckBasicAuth`, `OriginAllowed`, `HostGlobsOverlap` |
| settings, configuration | `settings/`, `config/`, `main.go` | `AppConfig`, fixed at start | `.env`, variables, flags; validation; conversion to durations and tiers |
| logger | `logx/` | none | formatting; nothing calls it |

How they interact. A probe passes the gates (path, Origin, service for the host), asks the
whitelist, renews or is renewed there, asks the engine for a ban, compares credentials, and on
the way out records a failure or enters the whitelist. Each bundle has a mutex that is held for
one operation; no code holds two of them, and the clock is read outside of them. So a probe is
a sequence of small atomic steps that interleave with those of other probes, of the cleanup
loop and of the three savers. `Run` starts and stops the loops.

What is hard about it:

- *Interleaving and stale values.* `now` is read once, when the probe arrives, and used for
  every later question; the bundles move on meanwhile. `Cleanup` reads its `now` before it
  takes either lock. The look-up in the whitelist and the renewal are two locks apart, the
  append to the log and each tier's count too.
- *Order of punishments.* A ban computed from older counts may be imposed after a harsher one.
- *Boundaries.* Windows of the whitelist, of tiers, of retention: which end is inclusive.
- *Saving.* A crash or a failing file operation between any two steps of a save; a `Stop` that
  races the ticker; the cleanup and late handlers changing what was flushed already.
- *Starting again.* The three bundles are saved by three tickers, so a crash leaves three files
  of different age; nothing is synced, so a power loss may leave an empty one; times are wall-clock
  times, and the clock may be set back.
- *Settings that are legal one by one only*: a retention shorter than a tier's window; numbers
  that overflow when they are multiplied with their unit; three sources that overwrite each other.

`PROJECT.json` lists these as hazards, each at its line, with the properties that cover it.

What makes each component correct:

- handler, whitelist: nobody is whitelisted who did not log in; the window slides but never
  stretches; right credentials open only hosts of their service.
- bans, log, engine: a ban is earned, a reached permanent tier does ban, a ban in force is not
  lost, a permanent ban stays, the cleanup takes nothing that still counts, and old data goes.
- savers, files, life cycle: `dirty` tells the truth, files are whole, an orderly shutdown loses
  nothing and ends, and no goroutine outlives `Run`.
- all of them through restarts: nothing comes back that was not true once, and what is lost is lost
  by a fault.
- settings: the strongest source decides, no interval is ever non-positive, and what the server
  runs with is what the proofs about the core assume.
- services: what is loaded does not depend on the order of the environment, no overlap of globs
  goes unreported, and it is known which reports are vain.

## The modules

    FloodBan  FloodTrack  IPWhitelist      the bundles' operations, as operators on sets;
         \        |        /               what they promise: Bundles_proofs
           ForwardAuth                     probes, cleanup, pruning: the core state machine
           |         |
      Gatekept    ForwardAuth_proofs --> Tiers_proofs --> Gatekeeper_proofs
       |    \== refines ==> Gatekeeper       |
    MCForwardAuth                            |
                                             |
    Recovery (EXTENDS ForwardAuth) ----- Recovery_proofs        restarts and faults
       |    \== refines, but for faults ==> ForwardAuth
    MCRecovery

    Settings --> Startup --> MCStartup, Startup_proofs           what ForwardAuth may assume
    Durable  <== refined by ==  Storage  ---  Storage_proofs
    HostGlob --> Services --> MCServices, Services_proofs

**FloodBan, FloodTrack, IPWhitelist** say what each operation of a bundle does to its
contents. A slice without repetitions is a set; a failure carries the request that caused it,
so that equal failures are told apart. They also hold `\* A plausible slip` forms of some
operations: definitions no specification uses, with which the properties are tested (below).

**ForwardAuth** is the handler with the state it shares. `probe[p]` is the record of one
request: where its handler is (`pc`), its locals, and the answer. One action per bundle
operation or reading of the clock:

| action | code |
|---|---|
| `Refuse`, `Arrive` | the gates of `authProbe`, `now := time.Now().UTC()`, `ClientIP` |
| `CheckWhitelist` | `isWhitelisted` = `Contains(ip, now)` |
| `ReadClock`, `UpsertNow` | `time.Now()` in `UpsertNow`, then `Upsert` under the lock |
| `ClearFailures` | `RemoveForIP` |
| `CheckBan` | `Engine.CheckBan`: `IsBanned(ip, now)` and what it answers |
| `BasicAuth` | the credentials are missing, wrong, or right |
| `AppendFailure`, `CountRule`, `Punish` | `RecordFailure`: append; one count per tier; `Upsert` of the harshest |
| `CleanupStart/Track/Bans` | `Cleanup` reads `now`, then one lock after the other |
| `SaveWhitelist` | the pruning inside the whitelist's `Save` |
| `Tick` | the clock moves |

`cfg` is chosen once in `Init` from `Settings` and never changes. `cleanup.now` and the locals
of a finished probe are reset when nobody looks at them again. The environment chooses
addresses and the verdict on the credentials (bcrypt, header parsing: see Services for who is
let in where). What `validateFloodTiers` guarantees of tiers is `RulesAssumption` and
`TempAssumption`; like the code, they relate no tier to the retention.

**Gatekeeper** is the abstract specification of the core: what the server promises its visitors.
It has no lists, no locks, no cleanup and no pruning. A visitor is away, waiting, welcome
(recognised by an earlier grant), renewed, trying credentials, in or out; `grants` are the logins
and renewals of all times, `charged` marks the visits that count as failures, and `outlaws` are
the addresses banned for good; none of the three is ever taken back. A step says what must really
have happened: `Recognise` needs a grant less than `Period` old, `Try` and `Pass` an address that
is no outlaw at that instant (where bans apply), `Bar` and `Outlaw` a visitor who was charged and
found that the tier's count was reached (`Convicted`). **Gatekept** is the mapping: `Visit`,
`Grants`, `Outlaws` read from the handlers' records and the bans, and `GatekeeperKept`, that
ForwardAuth seen that way is a Gatekeeper. The lists of ForwardAuth hold one element and one ban
per address, which are replaced, pruned and collected; the property says that nobody outside
could tell. What it leaves open, as the code does, is whether a grant or a temporary ban is always
honoured: a renewal race and an older cleanup may lose them (the runs "renewal_race" and
"stale_cleanup").

**Storage** is the process around the handlers: `main` (where `Run` is, at which bundle, and
whether everything went well so far), a saver loop per bundle, the cleanup loop, requests in
flight, and per bundle the memory, the dirty flag, the file and the temporary files. Contents
are numbers that name them, so the module says which contents are where, not what they are. A
`Save` holds the bundle's mutex from encoding to rename (`saving`), which blocks operations on
*this* bundle only: the steps create/encode (`SaveBegins`), `WriteTemp`, `Rename` and a failure
of any of them (`SaveFails`) interleave with everything else. The removal of the temporary file
after a failure may fail too, which `WriteAtomic` ignores: that counts as two failures. `Crash` may come anywhere and the
process starts again from the files. `Run`'s returns are all there: failing `Open`, failing
first save, failing listener, drained or timed-out shutdown.

**Durable** is the abstract specification of one bundle with its file: change in memory,
persist as a whole, restart from the file. `Storage` implements three of them
(`WhitelistStore`, `TrackStore`, `BansStore`), where a bundle that is not loaded counts as what
its file holds.

**Recovery** puts `ForwardAuth` into a process that is started, saves, is shut down or killed,
and starts again from its files: `proc` is down, starting (the first cleanup) or serving, `file`
is what the three files hold. A save is one step, which is what `BundlesAreDurable` of Storage
entitles it to be; the bundles are saved apart, in any order. `Start` is `Run` up to the listener,
with the pruning of the whitelist's first save; `Terminate` is the orderly shutdown; `Crash` cuts
off the requests that run (`Cut`). Two faults are not the process's: `Outage`, a power loss that
leaves any of the files empty, and `SetBack` of the clock. `counted` is a record for one property.

**Settings** is what becomes of an option: its default (`defaultAppConfig`), which texts can be
read, `Valid` (`Settings.validate`), and the conversion to durations that wrap at `Half`, with the
defaults that `OpenWithPeriod`, `OpenWithOptions`, `Periodic.Start` and `StartCleanup` put in the
place of what is not positive. **Startup** is the process that gets there: `LoadDotEnv`,
`LoadEnvVars` or `BadVariable`, `ParseFlag` by flag or `BadFlag`, `BadCommand`, `HelpOrVersion`,
`ExecuteC`, then `FromAppConfig` or `NotValid`, and the start of what was configured (`Serve`; how
that goes is Storage and Services). A value is a number; a text is the number it reads as, or
empty, blank, or another word.

**HostGlob** is host matching and glob overlap on sequences of labels. Labels may be empty
(`.com`, `a.com.`), and a glob keeps a port it was written with, which hosts have lost. **Services** scans the
environment variable by variable in any order, and then answers one request.

## What is checked

Every run is model-checked exhaustively within its bounds. Runs expected to pass:

| run | module, cfg | shows |
|---|---|---|
| core | MCForwardAuth, MCCore | `TypeOK`, `BanJustified`, `TiersFire`, `GrantTracesToLogin`, `AdmissionIsRecent`, `PermanentBanStays`, `BanWeakensOnlyToOlderCleanup`, `BanMissedOnlyOnceReplaced`, `CleanupKeepsWindows`: three requests, two addresses, two tiers (a temporary, a permanent one), three instants, with the engine alone and with the whitelist alone |
| combined | MCRecovery, MCCombined | `RecoveryTypeOK`, `OnePerIP`, `GrantTracesToLogin`, `AdmissionIsRecent`, `BanJustified`, `LoggedTiersFire`, `OnlyFaultsShow` (the refinement), `PermanentBanSurvives`: whitelist and engine together, two requests, two addresses, with the default settings and with bans enforced for whitelisted addresses, through any two of crashes, power losses and steps back of the clock |
| banned | MCForwardAuth, MCBanned | `BannedStaysOut`: a request that comes after a permanent ban gets in by neither way; `GatekeeperKept` with permanent bans, which the whitelist overrides or not |
| forgetting | MCForwardAuth, MCLiveness | `ExpiredBanCollected`, `OldFailureForgotten` under fairness; `GatekeeperKept` with two addresses, the whitelist, temporary bans that end and are extended, and cleanups |
| storage | Storage, MCStorage | `TypeOK`, `CleanMeansSaved`, `NothingLostAtExit`, `LoopsEndBeforeExit`, `LitterIsFromFaults`, `OnlyLateChangesLost`, `BundlesAreDurable` (the refinement), and under fairness `ChangesReachDisk` and `ShutdownEnds`: two failures, which may be those of one save and its removal, and one crash |
| services | MCServices, MCServices | `TypeOK`, `LoadIsOrderless`, `OkIsForItsHost`, `OverlapsWarned`, `OverlapsExplained`: two services, hosts and globs of up to two labels with empty ones, a glob with a port, every order, every request |
| settings | MCStartup, MCStartup | `StartupTypeOK`, `PrecedenceKept`, `IntervalsPositive`, `ServesWithinAssumptions`: an option of each type from all three sources, all command lines, durations and tiers around 1 and around what overflows |

Runs that show a disagreement between the code and what the repository says of it; each checks
one property and finds a counterexample:

| run | property | what happens |
|---|---|---|
| stale_cleanup | `OnlyExpiredBansRemoved` | A cleanup reads `now`; a ban begins later; `RemoveExpired(now)` takes it for not active and drops it although it is in force (`floodban/bundle.go:178`; the comment at `flood/cleanup.go:18` speaks of expired bans). `BanWeakensOnlyToOlderCleanup` shows that this is the only way in which a ban in force weakens. |
| renewal_race | `RenewalKeepsCover` | A renewal sets the element's time to a later instant than the `now` of a concurrent probe, which then looks not whitelisted (`ipwhitelist/bundle.go:111`; `README.md:22`: each whitelisted probe renews the window). |
| whitelisted_charged | `WhitelistedNotCharged` | With `WHITELIST_OVERRIDES_BAN=false` a whitelisted address with a temporary ban is charged (`flood/enforce.go:69`; `README.md:168`). |
| defaults | `DefaultsDocumented` | What nobody sets has the default of `config.go:69-117`, which is not that of `config_test.go:50` and `README.md:142` (48 hours of whitelist, where the code has 120), nor of `README.md:156-181`: cleanup interval, save interval, clearing on whitelist, tiers. |
| retention | `TiersFire` | A tier with a window longer than the retention passes validation and does not fire (`settings/settings.go:246`; `README.md:173`). |

Two claims of comments are narrower than they sound, and passing runs say how far they go. The comments
at `auth/host.go:37` and `:105` speak of hosts that two globs share, but `labelsCompatible` lets `*` go
with an empty label (`.com` and `*.com`) and a port in a glob keeps hosts away but not overlaps (`*` and
`a.com:80`); by `OverlapsExplained` these two are the only ways to a vain warning. And a ban that is
extended (`floodban/bundle.go:92`) begins anew, so a request that came between lets it pass;
`BanMissedOnlyOnceReplaced` says that a ban that applies to a waiting request goes on applying to it
unless a harsher one that begins after the request came takes its place, or a cleanup removes it whose
`now` is not within it.

Bounds, and why they are enough. Three requests of one address are what a race needs that a
third party observes: one to complete a tier, one to count too early, one to meet the ban; two
addresses are enough to see one paying for the other. The tiers have a threshold reached by one
failure and one by two, with equal or different windows, so punishments are extended, replaced
and refused. The clock covers the tiers' windows, their end and an instant after, and the
whitelist's window and temporary bans with their end (exclusive in the code); it stops at `MaxTime`,
where everything else goes on. Settings are one to three per run: the others change nothing the run's
properties look at. In Storage one request in flight is enough to change things at every
moment (it may change any bundle, and again), two changes give a newer one than the
one that is being saved, and two failures and one crash may each come at
every point; with `MaxFailures` failures used up the disk works again, which `ChangesReachDisk`
needs. In Services two labels tell equal from different ones, and there are globs in which a
Star meets an empty label and a port at the same place.
In Recovery two requests are one whose past is in the files and one that meets it, and two faults
let one come after the other; the files add so many states that the clock has two instants only:
the longer windows are in the runs of the core, and the proofs have no bounds. In Startup an int
has 25 bits and a second four units, so that every default fits, hours, minutes and seconds wrap to
negative, small and zero durations, and TLC's own 32 bits are enough for the products.
`Symmetry` permutes requests and addresses in runs that check invariants and action properties,
which treat all of them alike; runs with liveness properties or with `BannedStaysOut` use none.
Deadlock checking is on except in the services and settings runs, where a behaviour ends with its
answer or with serving.

Every property is also tested itself: for each property of each passing run `PROJECT.json`
names a mutant, one of the `\* A plausible slip` definitions, that TLC refutes when it takes
the place of the code's definition.

Fairness. In `ForwardAuth!FairSpec` a handler that has begun goes on (`WF` on `Handle(p)`; Go
schedules every runnable goroutine and no step waits for anything but a short lock) and the
cleanup's ticker keeps ticking. Nothing promises that requests come or time passes. In
`Storage!FairSpec` the steps of `Run`, of a save, of a ticking saver and of the cleanup are
weakly fair. The end of a loop is strongly fair (`LoopEnds`, one condition for all loops): when `stopCh` and the ticker are both ready Go's
`select` chooses at random, so a closed channel is passed over now and then but not for ever.
`Begin` (somebody starts the process), requests, signals, failures and crashes are not fair.

## What is proved

All proofs are for every value of the constants that satisfies the named assumptions of the
module; they use no others.

**ForwardAuth_proofs** (from `ProbesAssumption`, `NoIPAssumption`, `SettingsAssumption`,
`RulesAssumption`, `TempAssumption`, `TimeAssumption`): `TypeCorrect`, `Uniqueness`
(`OnePerIP`), `WhitelistEarned` (`GrantTracesToLogin` and `AdmissionIsRecent`), `BansEarned`
(`BanJustified`), and the action properties `PermanentStays`, `BansHold`
(`BanWeakensOnlyToOlderCleanup`) and `BansReachTheWaiting` (`BanMissedOnlyOnceReplaced`). `TypeCorrect` is
inductive as it stands; the others are not, since a step between two locks relies on what an
earlier step saw. `Inv` therefore adds: `Stages`, what the locals of a handler at each `pc` say
(a probe at `upsert` was whitelisted or had the right credentials, ...); `Timely`, that no reading
of the clock is in the future, which is kept apart because it is all that needs a clock that moves
forward only; `WhitelistInv`, that every element was put there by a probe that is known,
and that a whitelisted probe met one; `FloodInv`, that every entry belongs to a request that
was charged and every ban, stored or held in a handler's `best`, has its failures. Failures
charged are never taken back, so what is earned stays so; that is the monotonicity lemma the
counting rests on, with the cardinality theorems for finite sets.

**Tiers_proofs** (on `Inv`): `BannedOut` (`BannedStaysOut`) and, under the assumption
`WindowsKept` that no window is longer than the retention, `CleanupSparesWindows`
(`CleanupKeepsWindows`) and `TiersDoFire` (`TiersFire`). The program does not enforce `WindowsKept`;
the run "retention" breaks `TiersFire` where it fails. `TiersFire` needs the log to be complete as
well as true: `LogComplete`, that every failure younger than the retention is logged, so that a
count sees all failures of its window. `TierInv` then follows a tier that is reached: the address
is banned for good, or a handler that is counting has not passed the tier yet or holds a
permanent ban. `Barred` follows a probe from its arrival at a banned address to its answer. Two theorems draw the
line around the run "whitelisted_charged": by `OverridingWhitelistIsFree`, `WhitelistedNotCharged`
does hold where every setting lets the whitelist override bans, and by `WhitelistedPaysForBans` a
whitelisted probe is otherwise charged for a temporary ban and for nothing else. They rest on
`AllCovered`, where a whitelisted request may be and what it may be answered.

**Gatekeeper_proofs** (on both): `GatekeeperImplemented` (`GatekeeperKept`), for any requests,
addresses, settings and tiers, and without `WindowsKept`. Two facts are needed beside `Inv`
(together they are `GateInv`): `Stamped`, that the instant stored by an `UpsertNow` lies between the
request's arrival and now, and `BansCounted`, that behind every ban, stored or still in a handler's
`best`, stands a charged request of the same address that came at the ban's `bannedAt`. The first
part says which actions move what is seen: only `UpsertNow` makes a grant, only `AppendFailure`
charges, only `Punish` makes an outlaw; a cleanup, which takes bans, frees none. Then
each action has a lemma that names the step of Gatekeeper it is (`CheckBan` is `Pass`, `Try` or
`Bar`), or that it is none.

**Bundles_proofs** (no assumptions on constants): what the operations of the three bundles promise
whoever interleaves them. Bans: `UpsertTakesHarshest`; `PunishmentsCommute`, two handlers may impose
their bans in either order; `RemovalInvisible`, a cleanup whose `now` is not before the bans began
shows in no later answer; `RemovalTakesLaterBansOnly`, which is all an older one can do wrong;
`RemovalBeforeUpsert`. Failures: `OldFailuresInvisible`, `FailureCountsOnce`, `ForgivenessIsLocal`.
Whitelist: `UpsertCovers`, `RenewalExtends` (for requests that come at the renewal or later; for
earlier ones the run "renewal_race" shows otherwise), `PruningInvisible`.

**Recovery_proofs** (from those of ForwardAuth and `FaultsAssumption`): `RecoveryTypeCorrect`,
`UniqueThroughFaults`, `GrantsEarnedThroughFaults`, `AdmissionsRecentThroughFaults`,
`BansEarnedThroughFaults` (the core's invariants, whatever fails and however often),
`PermanentBansSurvive`, `LoggedTiersDoFire`, `BannedOutThroughFaults`, and `FaultsOnlyShow`, the refinement: seen through
`Lasting`, where a process that is down counts as having in memory what its files hold, each step
but a fault is one of ForwardAuth or a stutter. The argument for what is earned: a handler's step
keeps the past of every request (`Kept`), and so does a crash, which only cuts it short; so an
element, an entry or a ban that was earned stays earned wherever it is kept. `Memory` says so of
the bundles and `Disk` of the files, and no fault writes anything but what was there before or
nothing. `HeldBans` says that a process that is up holds the permanent bans of its file. For
`LoggedTiersFire`, which must do without a complete log, `Watched` follows the request of an address
that logged last: its counts see all entries there are, so it bans, or counts too few.
`BannedOutThroughFaults` is of a property that no run checks (its state space with faults is too
large): a request that has not passed its checks while its address is banned for good does not get
in. A power loss can take the ban away, but not under a running handler (`Quiet`: handlers run only
while the process serves), so `Held` is kept: the ban is in force, or the request is over.

**Startup_proofs** (from `WidthAssumption`, `TextAssumption`, `InputsAssumption`, for any inputs,
any width and units): `StartupTypeCorrect`, `PrecedenceHolds` (by `Layered`, what the flags parsed
so far have put on top of the environment), `IntervalsStayPositive`, and `AssumptionsEarned`: as long
as no product overflows, what the server runs with satisfies `RulesAssumption`, `TempAssumption`
and what `TimeAssumption` says of `Period` and `Retention`, on which the proofs about the core rest.

**Storage_proofs** (from `EnabledAssumption`, `BoundsAssumption`): `TypeCorrect`,
`CleanIsSaved`, `ShutdownKeepsAll` (`NothingLostAtExit`), `NoLoopLeft` (`LoopsEndBeforeExit`),
`LitterOnlyFromFaults`, `LateChangesOnly` (`OnlyLateChangesLost`: a flush happens on every way out,
also of a shutdown that timed out), and `StoresAreDurable`, the refinement of three `Durable` stores. The
types alone are not inductive (a temporary file is removed only if there is one). `IInv` has two
halves. `Data`: the mutex keeps memory as it was encoded until the save is over, a clean bundle
is saved, temporary files are counted. `Control`: which bundles are loaded and which loops run at
each point of `Run`; that a save belongs to a loop that runs or to `Run` at a flush; and, in a
stop that goes well, that what `Run` is through with is clean and nobody is left to change it.
Each step has a lemma of its own. For the refinement each step is a `Change`, `Persist`,
`Restart` or stutter of each store; opening a bundle is a stutter because what is not loaded
counts as its file.

**Services_proofs** (from `NamesAssumption`, `HostsAssumption`, `LabelAssumption`):
`OverlapIsExact` (some host matches two globs exactly when they overlap and are not `Unmeetable`,
that is, no port and no empty label against a Star is in the way; a common host is constructed),
`LoadOrderless`, `OkForItsHost`, `AllOverlapsWarned`, and `WarningsExplained` (`OverlapsExplained`).
The last has a hypothesis, `HostsSuffice`: the set `Hosts` that the model lets clients ask for has a
host for each two globs that share one, as the set of all hosts has. The invariant `Scan` says
that the services accepted so far are those of the names scanned so far.

Only model-checked: the liveness properties `ExpiredBanCollected`, `OldFailureForgotten`,
`ChangesReachDisk` and `ShutdownEnds`, which rest on fairness and are out of reach of the prover.
Every invariant and every action property of a passing run is stated by a theorem, and so is each
of the three refinements.

## What the settings do and do not promise

`ServesWithinAssumptions` is conditional: validation has no upper bounds. A tier's window or ban of
more than 2^63 nanoseconds wraps and is used as it is (a negative window counts nothing, so the
tier never fires), and a period, retention or interval that wraps to something not positive is
silently replaced by the default of a bundle or loop, which is not the default of the
configuration (48 hours for 120, 30 seconds for 120, one hour for two). `IntervalsPositive` is what
remains true: no ticker panics.

A variable that is exported empty is not set for the program but is for godotenv, so the line of
`.env` does not count and the built-in default holds. `PrecedenceKept` states it of the options on
whose default the code and the documentation agree; of the others the run "defaults" shows that the
default is not the documented one, for a variable that is exported empty as in
`TestParseConfigDefaults` as well as for one that nobody mentions. Any bad variable ends the program
before the command line is looked at, `--help` included. (Boolean variables are read by
`strconv.ParseBool`, which is not insensitive to case as `README.md:115` says; spellings are not
modelled.)

## What is not modelled

- Text: parsing of JSON, hosts, the ports of hosts (and a bracket in a host that is never closed), headers, log lines, numbers (a flag reads `010` as octal, a
  variable does not); `ClientIP` is the choice of an address. bcrypt, `net/http`, cobra and godotenv
  are external: their outcomes are choices, or what the program relies on.
- Files that are not what a save wrote: one edited by hand, or half-written by a power loss. An
  empty one is an `Outage`; one that cannot be parsed fails the start (`Storage!OpenFails`).
- Settings that change between two runs of the process: `cfg` of `Recovery` is the same in all.
- Failing saves in `Recovery` (a save that fails is one that does not happen; Storage has them), and
  requests that arrive while the process is down.
- Operations without a caller in the program: `Remove`, `Clear`, `Get`, `CountSinceService`;
  two concurrent `Stop`s.
- The logger package, which nothing imports.

## The order of the work, and what could follow

First the core (`ForwardAuth` with the bundle operators), its invariants and their proofs; then
`Storage` over `Durable`; then `Services`; then `Recovery`, the core over its files with faults, and
its refinement; then `Settings` and `Startup`, which earn the core's assumptions; then `Gatekeeper`,
what the core promises, with its refinement. What could follow: restarts with other settings, where
a ban of a tier that is no longer configured comes back under its name only.
