# Verification of bangdream-optimize

TLA+ models of bangdream-optimize, the TLC configurations that check them on
small instances, and theorems about them that the TLA+ proof system (TLAPS)
checks for every value of the constants. `PROJECT.json` is the machine-readable
index: components, runs, mutants, the lines of source behind every definition,
hazards, findings and theorems. Paths below are relative to the repository.

Run a model with `tlc -workers 2 -config <cfg> <module>` (the module of each
configuration is in the table of section 4), a proof with `tlapm <module>.tla`.


## 1. The system

bangdream-optimize finds the best teams for the songs and events of a card game.
A Rust core (`crates/core`, `crates/medley-solver`, `crates/team-prune`) does the
searches; a web client (`apps/web`, with the core compiled to WebAssembly in a
worker), a Tauri desktop client and an HTTP server use it.

| Component | State | Operations | Talks to | Hard about it |
|---|---|---|---|---|
| Web profile storage (`apps/web/src/storage/user.js`) | IndexedDB: list of profiles, a configuration per profile, the active id, two older formats | load, save, list, select, create, rename, delete, clear | page; other tabs through the database | every call is several transactions; tabs interleave; pages close anywhere; migration deletes the old data |
| Web profile session (`app/player.js`, `actions/profile.js`, `ui/archive.js`) | editor content, active profile, profile list, 250 ms save timer, promise queue of saves | edit, timed save, switch, new, copy, import, archive save, delete, clear | storage through the runtime | awaits between the steps of a handler; stale `activePlayerProfileId`; failing saves |
| Web result history (`actions/calculation.js`, `actions/resource.js`, `data/result-cache.js`) | entries in memory and on disk, generation, pending calculation, shown result | calculate, store, delete, clear, restore, invalidate for a resource operation | session, game data, IndexedDB | results of calculations that overlap with new game data; rollbacks; limits per profile in one array |
| Native game-data cache (`crates/data/src/cache.rs`) | files and manifests in a directory, loaded calculator | synchronise, refresh, fetch all, fetch details, calculate, clear, remove | static mirror or Bestdori API | commands on several threads; errors between files and manifest; mirror changes meanwhile |
| Mirror (`tools/sync-bestdori`) | published files and manifests | download with retries, keep details, copy corrections, make the chart meta, write the manifests | source of the game data; the clients' requests | runs are killed, downloads fail; readers see files and manifests of different ages |
| Desktop profile storage (`crates/storage-local`) | files for list, configurations, active id | the operations of the profile store | desktop page through Tauri commands | crash and failing write between the files of one command |
| Skill queue (`crates/core/src/model/chart.rs`, `chart/*`) | scheduler, event queue, machine states | walk a chart with an order of skills; score it; enumerate or search the orders | all scoring | a skill triggered during another waits: windows depend on all earlier skills; rounding per judgement |
| Medley plan search (`crates/medley-solver`) | three loops over sorted candidates, ranges, reused lists, floor | search for the best plan, for a band of plans | medley and event point searches through a visitor that raises the floor or stops | cuts on a floor that rises while lists made for an earlier floor are reused |
| Single-song search (`crates/core/src/single*`) | depth-first stack, best team | dominance, bounds, modes, items | maximise | cuts must not lose the optimum or its tie-break |
| Medley search (`crates/core/src/medley`, `maximize/medley.rs`) | candidate lists, incumbent, pools | enumerate teams, filter, seed, bound, hand to the solver | medley-solver | an incumbent raised while candidates are built; cards shared by three teams |
| Team pruning (`crates/team-prune`, `core/src/team_prune`) | dominance graph, covers, pools | prune cards before a search | all searches | removing a card that the only best team needs |
| Score range search (`core/src/score_range`) | layers of plans, intervals, half teams by cards and power | meet in the middle | service | intervals cached across modes and items, batches that share teams |
| Event point search (`core/src/pt_*`, `event_pt`) | best team, distributions, bounds | search by average points | medley-solver | points are a rounded product: bounds on the score do not bound the points |
| Web game-data client (`data/game-sync.js`) | records with labels, promises of manifests | look up, fetch, store, refresh, clear | mirror | promises kept; calls that store and clear the same records |
| Web runtime (`runtime/browser.js`, `browser-worker.js`, `app/core.js`) | shown main files, worker, promise of the WASM module | load, choose, calculate, clear | game-data client, worker | late answers; a failing worker; calls that wait for one another |
| HTTP server (`apps/server`) | settings, the synchronisation and its thread, three calculators, attempts of the feedback limiter | start, synchronise, calculate, fetch for a page, feedback, stop | `sync-bestdori`, core, mail | which of three sources says whether to synchronise; attempts recorded in another order than their times |
| Account imports (`crates/bangdream-account`, handlers of the server) | a permit per region, the file of client versions | import | game servers, official package | clients that leave while the work goes on; a client version that is too old; a password sent once |
| Chart compilation (`model/chart*.rs`) | timelines and tables | read a chart, lay its skills on Auto and manual timelines, count combo and fever | scoring | notes at the end of a skill, frames against times, risks that make a range unsafe |
| Preparation, scoring of a team | none (pure arithmetic) | | | floating point and rounding |
| Views, models, adapters, scripts | none of their own | | | |

Requests run like this: a page keeps its *session* on top of a *profile store*
(IndexedDB or files); `handleCalculate` looks the request up in the *result
history*, makes sure that the *game data* is there and hands the request to the
core. The core prepares cards, prunes them, and searches: for one song directly,
for three songs by listing candidates per song and then searching plans of teams
that share no card. Every search scores teams with the *skill queue*.

What correctness means for each component, in order of weight:

1. a search returns the optimum, whatever its cuts, caches and reused lists are;
2. no profile loses content or receives another profile's content;
3. no result of older game data is presented as current;
4. files, manifests and what is loaded from them agree;
5. work that was started ends.


## 2. Plan

Modelled and checked: both profile stores, the session, the result history, the native
game-data cache, the mirror and the web pages that read it, the skill queue with its scores and
its search, the timelines of Auto play, the scanners of medley plans, team pruning for one and
for three teams, and the five searches (highest score of one song and of a medley, most event
points of one song and of a medley, score range), and the HTTP server with its synchronisation,
feedback and imports of accounts. Section 3 says which module is which, and
what composes what. Proved: section 5.

What is left, most important first:

| Question | How |
|---|---|
| the packed search for an order of skills returns the best one for every chart (`SearchIsBest`) | an invariant over its layers: every set of cards and merged state keeps the best score that leads there; `TableExact` gives the meaning of the states |
| the range search loses no plan for any request (`FindsBestPlan`) | the other half of `PlansExact`: the bounds of skills and power pass over no team, and the layers no plan |
| the searches that cut with an incumbent, for every deck (`ImplementsOptimum`, `FindsBestMedley`, `FindsMostUntraded`) | branch and bound as recursive functions instead of `RECURSIVE` operators, and `PassKeepsBestTeam` with the replacements of `SingleSearch` |
| charts on which skills queue, in `SingleSearch` and `MedleySearch`; halving of pools above 128 cards | extend `TeamPrune`, with the windows of `SkillQueue` |


## 3. The modules and the code

### ProfileStore, UserStorage, LocalStore: where profiles live

`ProfileStore` is the promise of both stores: a list, a configuration for each
listed profile, an active profile, and operations that are atomic.

`UserStorage` is `storage/user.js` with one action per IndexedDB transaction.
`call` holds the calls in flight with the step each is at; a page may be closed
between any two of them (`Close`, which also sets the history variable `cut`).
Old data sits under `legacyKey` or in `legacyDb`. `MCUserStorage` chooses initially, with the
rigid variable `tabs`, between one tab with every function and every form of the old data and
two tabs that create and delete.

`LocalStore` is `LocalPlayerConfigStore`: a command holds the mutex, so a command is
a sequence of disks (`writes`), one per file write; `Killed` and `WriteFails` cut it
off. The page part of the module boots, lists, repairs and refreshes. `expected`,
`deleting`, `deleted` record what was confirmed to the user.

### PlayerSession

One action per stretch of code between two awaits; calls to the runtime are
those of `ProfileStore`, which is what `UserStorage` implements for calls made one
after the other. A configuration is the profile that owns it and the number of
the last edit in it, so that `Isolation` (content under another's id) and
`NoLostEdit` can be told. `lossy` records that a call was rejected or that a handler
ran that does not wait for the queue (archive save, delete, clear): the code
promises nothing about unsaved edits then.

### ResultCache

One action per stretch between two awaits of `handleCalculate`, the deletion
handlers, the resource handlers and the settling of a write. `data` is the version
of the game data, an entry remembers the version it was calculated with. A calculation looks for
newer core files first (`CoreLoaded`), which may change `data` when `RemoteUpdates` is on, and
invalidates nothing; a resource operation invalidates first. The history variable `renewed` is the
version that the last resource operation left: `NoStaleReuse` is about reuse after such an
operation, `ReusesCurrent` about every reuse.
`StartDuring` is the set of pairs of operations the user may overlap, which is how
runs and theorems speak of a patient or an impatient user. `MCPage` has `PlayerSession` in one part
of its behaviours and `ResultCache` in the other.

### GameDataCache

A file is a version number. A command is a record `op` per thread with the list of
files still to look at; requests, writes, and uses of the calculator are actions of
their own. The mirror publishes files and then manifests. `lost` records that a
command failed after it replaced core files.

### HttpServer, AccountImport, MCDesktop

`HttpServer` is the server from its settings to its end. `start` is how it was started:
arguments, file and environment, each with what it says of the synchronisation
(`SyncEnabled`, `Interval`, `BadSettings` put them together as the code does), which programs
can be found, and what is configured. The first synchronisation runs to its end before
the calculators read their files, a thread repeats it (`PeriodicRound`); a program that is not
found is replaced by the next, one that fails is not. A request is at a stage between two
awaits; `CheckFeedback` takes the time and `AdmitFeedback` the lock. `promised` and `admitted` are
history: what the first synchronisation found, and all attempts with the time of their recording.

`AccountImport` is one import per request from the permit of its region to its answer:
the version that is tried (file of defaults, else the embedded one), looked up in the official
package when the game refuses it, tried again, stored, and only then the password sent (`sent`
counts). The client may leave at any step (`Leave`), the process may be restarted, and the game
may move to a newer version.

`MCDesktop` puts `LocalStore`, `GameDataCache`, `HttpServer` and `AccountImport` side by side: they
share nothing, and the rigid variable `part` says of which a behaviour is.

### PublishedData, Mirror, GameSync, WebRuntime: game data of web pages

`PublishedData` is what a mirror promises its readers: files are put in place before they are
listed, no manifest lists a version that is not there, and what the root lists only gets newer.
`Mirror` is the tool `sync-bestdori`: chunks of downloads with retries, details that are kept
once they are there, corrections, chart meta, and one manifest after another; a run can fail or
be killed between any two steps, and the source changes meanwhile. `GameSync` is
`data/game-sync.js`: for every call and every file a task (waits for a manifest, fetches,
stores), promises of manifests kept per directory, records with the label that was current
when they were asked for. `WebRuntime` is what a page does with it (`app/core.js`, the
handlers, `runtime/browser.js`): refresh of the root manifest, main files one after another,
files a calculation wants, the worker with its failures, clearing, reloading. `MCWebData` has the
tool in one part of its behaviours and a page in the other, where `PutFile` and `ListDir`,
steps of `PublishedData`, stand for the tool: the page relies on the promise, not on the tool.

### SkillQueue, QueueStates, AutoTimeline

`SkillQueue` walks a chart with the Ideal60 scheduler, once with the longest
duration (`skill_queue_kind`) and once with the order that is being chosen, and the
scorer's event queue beside it. Frames are integers (`ceil(60 t)` in the code). `QueueStates`
scores a judgement with combo, fever and rising skills, sums windows by judgement and by
runs of equal combo, and adds the state machine that merges prefixes, the tables and
bounds of skill windows and the packed search for the best order. Its recursions are recursive
functions over layers and nodes; `Tabulated` makes TLC compute one once. `SkillsAssumption` says
that the chart has a skill for every activation: with fewer the code reports a missing skill and
makes no table (`chart.rs:1098`). `AutoTimeline` walks a chart of Auto play twice, as the game may
play it and as the score range search counts it; ticks are quarters of a frame, and `Ordered` is
what `sort_nodes` leaves. `MCScores` has manual play in one part, Auto play in another and the
score range search in the third; preparation, bounds and the search are actions before the walk.

### TeamModes, TeamPrune, SingleSearch, Optimum

`TeamModes` is what teams and modes are, for every search. `TeamPrune` has the operators of
`crates/team-prune` and `core/src/team_prune` for one team: three kinds of dominance,
the coarse and the precise cover, one pass. `SingleSearch` is the loop over item
combinations, modes, passes and pools, one action per step of it; `Solve` is the branch and
bound of `single/exact.rs`. Scores are integers: products of power and notes, each
divided by `Unit` and rounded down, as the code rounds every note; `mates` are the bounds
of `build_signature_context_bounds`. `Optimum` is what any search promises: scores are closed in
steps, and none is passed over but for one at least as good. The history variable `problem` holds
the teams of the deck with the scores the game gives them; under the mapping of
`ImplementsOptimum` a team is open as long as the search has not gone past the modes that see it.

### EventPoints, SkillShuffle, EventSearch

`EventPoints` are the points of a play (two roundings), the interval of scores that gives a
number of points, and how a number of points is made of plays (fires, one song or two).
`SkillShuffle` is the weighted order of skills. `EventSearch` is the search of one song for the
most points, which keeps one best team over all items and modes; its first part adds the point
bonus to `TeamPrune` (products compared at both ends of the teammates' bonuses) and the captain
and fillers of a cooperative live. It EXTENDS `SingleSearch`, so that its runs cover both, with
the decks and requests of `MCEventSearch`. `FindsMostPoints` is what the documents say of it,
`FindsMostUntraded` what the code keeps: `TradesBonus` says of a request that in some mode a card
may go for one with a lower bonus (section 4).

### MedleyScan, MedleyPrune, MedleySearch, EventMedley

`MedleyScan` is the scanner of plans: `prepare_search` fixes `order`, `kept` and `song`; the
loops keep positions in these. First the scalar scanner runs (`Plain...` actions), then the AVX2
scanner that reuses the teams compatible with the first one (`Reuse...` actions) searches the
same problem, with a visitor that gives the same answers. A visitor may raise the floor,
lower it (which the code ignores) or stop. Masks are sets of cards; a range that the
code keeps as its end is the set of positions in it.

`MedleyPrune` drops cards for three teams that share none (one instance of `TeamPrune` per song).
`MedleySearch` is the search itself: greedy plan and improvements (`seed.rs`), pools, candidates,
filters by the incumbent, refreshes; the exact solver is its contract, which `MedleyScan`
shows in detail in the same run, and the random search in buckets that takes its place for very
many candidates is part of the module. `EventMedley` reuses both for the most event points of a medley: means of
scores over the paths of three shuffles, one divisor of room below the best mean.

### ScoreRange

`ScoreRange` is the search from a request to its plans (`EventPoints`): songs that are published
and open at the time of the request (`AvailableSongs`), layers of plans, modes, skill buckets,
items and batches of items, intervals of power per song, and the joining of three cards with
two. Powers are integers; `Slack` is the difference that the order of adding can make.


## 4. The runs

All runs finish within the time shown on two workers.

| Run | States | What it asks |
|---|---|---|
| `user_storage` (`MCUserStorage`, `UserStorage_tabs.cfg`) | 3.6 M, 165 s | Two tabs: no interleaving empties the list (`KeepsOneProfile`). One tab, every operation, every old form: list, configurations and active id agree when no call is in flight after an uncut history, and a call after a cut repairs the active id (`ConsistentAlone`); `ImplementsStoreAlone`, the refinement of `ProfileStore`; `MigrationCompletesAlone`. |
| `user_storage_old_data` (`UserStorage`) | violation | `OldDataDeletedLast`, which `docs/persistence.md:76-78` states. |
| `page` (`MCPage`, `Page_handlers.cfg`) | 1.3 M, 140 s | Profiles: one handler at a time with the timer, the queue and rejected calls. `Isolation`, `EditorShowsActive`, `NoLostEdit`, `EditsReachStore`. Results: resource operations during calculations, deletions during resource operations, newer core files at calculations, failures and reloads. `NoStaleReuse`: after a resource operation no result of the data before it is reused; `HistoryHolds`: memory and disk agree, and what is shown belongs to the profile; `OtherHistoriesKept`, `CalculationEnds`. |
| `result_cache_update_race` (`ResultCache`) | violation | A calculation started during a resource operation breaks `NoStaleReuse`. |
| `desktop` (`MCDesktop`, `Desktop_stores.cfg`) | 3.2 M, 160 s | Profile files under every command, failing writes and crashes: `Durable`, `RefreshRepairs`, `KeepsPromise` (refinement of `ProfileStore` on a reliable disk). Game data under two threads, both kinds of source, failures, restarts, a publishing mirror: `CacheHonest` (the calculator comes from the files on disk, the manifest lists nothing newer), `CalculatesWithListed`. The server in ten ways to start it, with failing and missing programs, new data and feedback: `LoadsSynchronised`, `RateHolds`. Imports with clients that leave, restarts and new client versions: `CredentialsKept`, `DefaultsMoveOn`. |
| `web_data` (`MCWebData`, `WebData_pages.cfg`) | 333 k, 120 s | The mirror under failed downloads, killed runs and a changing source: `RunPublishes`, `MirrorPromise` (refinement of `PublishedData`), `MirrorCatchesUp`. Pages under lost requests, a cleared copy, a failing worker and reloads: `RefreshHolds` (what is shown is as new as listed, and old failures are not kept), `CallsEnd`. |
| `scores` (`MCScores`, `Scores.cfg`) | 469 k, 90 s | Every order of three cards and a captain on charts around the frames at which queues form: `KindExact`, `TimelineMatchesWindows`, `SearchIsBest`, `BoundsHold`, `MachineExact`. Auto play around the ends of the timing intervals: `RangeScoresExact`. Five hundred requests of four event types to the score range search: it returns an exact plan (`PlansAreExact`) of the best objective exactly if one exists (`FindsBestPlan`). |
| `medley` (`MCMedley`, `Medley_parts.cfg`) | 422 k, 60-140 s | The search for the best medley and for the most points of one on thirty-five decks: `FindsBestMedley` (a search for points that fails has no greedy teams that make a plan), `ImplementsOptimum`. Both scanners on five teams and three songs: `ScanExact` (no wanted plan is lost, the search for the maximum ends with the best), `SameReport`. |
| `medley_first_plan` (`MCMedley`) | violation | Six cards, three of one character, that make a medley which the greedy teams do not: `FailsOnlyWithoutPlan`. |
| `song_search` (`MCEventSearch`, `EventSearch_songs.cfg`) | 45 k, 45-90 s | Two thousand decks searched for the highest score (`ImplementsOptimum`), several hundred requests for the most event points (`FindsMostUntraded`); all of their teams are of a mode that is searched. |
| `event_search_trades` (`MCEventSearch`) | violation | Requests in which a card goes for one of a lower bonus break `FindsMostPoints`. |
| `single_search_modes` (`MCEventSearch`) | violation | Decks with other teams break `FindsOptimum`. |

Every property of a passing run has a mutant in `PROJECT.json`: a definition changed
as a plausible bug would, for which TLC finds the property violated.

`MCUserStorage`, `MCPage`, `MCDesktop`, `MCWebData`, `MCScores` and `MCMedley` check several models
in one run: a variable that no step changes says which of them a behaviour is of, and the others
rest in an initial state.

### Bounds, and why they are enough

- *UserStorage*: two calls are enough for every race of two read-modify-write
  sequences; three identifiers allow one tab to delete each of two profiles while
  a third stays or is created. Calls of every kind run one at a time from every
  form of the old data.
- *PlayerSession*: three identifiers (a source, a target, a new profile), two edits
  (one saved, one in flight), a queue of two saves. `MaxEdits` and `MaxQueue` are the
  only bounds.
- *ResultCache*: two profiles, two inputs, limit 1, so that every second
  result of a profile evicts; one resource operation (two in the violation run), two results (three),
  data that changes twice, so that newer core files can arrive before and after the operation. `MaxData`, `MaxResults` and
  `MaxGeneration` are the bounds.
- *GameDataCache*: one file of each class, since the classes are what the code tells
  apart; two threads; versions to 2 so that a file can be older, equal and newer than
  the manifest that lists it.
- *LocalStore*: three profiles, two contents.
- *HttpServer*: two requests at a time of one client, two attempts in a window of one tick and three
  ticks of time, so that two handlers can come to the lock in the other order and a full window
  can pass; two versions of the data and two synchronisations, so that the thread's synchronisation
  meets the files that are being read; `StartsDef` has ten ways to start: every source of the
  setting, every program, every refusal, and servers that only answer requests.
- *AccountImport*: two imports, of the same region or of different ones; three client versions, so that
  a version can be refused, looked up, and refused again.
- *Mirror, GameSync, WebRuntime*: two main files, one detail with a fallback, one chart, the
  meta, a correction, in five directories; one file of each class changes once. Two downloads at a
  time, one retry; `MaxSurprises = 2` (failed requests, killed runs, runs by hand) lets a failure
  meet a killed run; two calls and `MaxFaults = 1` let a failure of one call hit the other.
- *SkillQueue*: durations of 3 and 10 frames; the gaps between triggers (57/58,
  50/58/59, 8/51/300) put triggers on both sides of each threshold of the scheduler
  (46 and 47 frames behind a start or trigger), notes sit at every window boundary.
  The durations are small stand-ins for the 17 of the game; only their sums with the
  thresholds matter. Charts with a fever, a combo that crosses its steps, and a second song
  of a medley.
- *AutoTimeline*: every phase of a trigger inside a frame, gaps on both sides of the interval
  in which a skill may queue, notes on both sides of each end.
- *MedleyScan*: five teams on three layouts of cards (chains, a hub, pairs), scores
  with many ties, floors that cut none, some and all plans, a visitor that raises
  the floor to one of two values or stops, two lanes instead of four so that a
  comparison ends in the middle of a list.
- *MedleySearch, EventMedley*: teams of two, five to eight cards; the thresholds of the code
  (128 cards, 32 768 and 196 608 candidates and so on) are constants set so low that each is
  crossed by some decks.
- *SingleSearch, EventSearch*: teams of three, decks of four to six cards, so that at most two
  teammates block at most two replacements and a third survives or not; two combinations of items
  that help different cards; bands and attributes that make mixed, one-band, one-attribute and
  doubly uniform teams, with conditions on none, one or both; `Unit` small against the
  products (differences decide) but not 1 (rounding happens). The scattered decks give every
  card its own power and skill: they are what the corners and roles of `MinMargin` are
  sensitive to. Requests for points cover every kind of live and of captain, those in which a
  bonus is traded included. Decks with teams of a mode that is not searched are in
  `single_search_modes` only, and the fever of `song_search` is mild (see *fever* below).
- *ScoreRange*: six or seven cards, two or three songs; targets that one song, two songs or
  nothing reaches, limits of 1 and of 20 candidates, closed, unsafe and not yet published songs, rising skills.

Where the code breaks ties by an order that depends on layout in memory or on float noise, the
model leaves it open: ties between seeds of a medley are a choice, those at `SeedLimit` are kept;
random draws are any of the sequences in `Draws`. The sixteen rounds of improvement in the code
are not counted (improvements go on while they improve).

### Fairness

- `MCUserStorage` (`MigrationCompletesAlone`): weak fairness on the transactions of the one call
  and on the user calling again: transactions settle as long as the page stays open, and
  the property is about a user who goes on.
- `MCPage`, profiles (`EditsReachStore`): weak fairness on the callbacks of the page (a
  set timer fires, a requested save settles, a waiting handler goes on), none on
  the user. Closing the page is not modelled there, and the property does not speak
  of it.
- `MCPage`, results (`CalculationEnds`): weak fairness on the steps of a calculation and on
  writes, which either succeed or fail.
- `MCWebData` (`CallsEnd`, `MirrorCatchesUp`): weak fairness on "something goes on": on the
  steps of a run and its being started again (the server starts the tool periodically), and
  on the callbacks, answers and worker of a page. Failures, kills and the user have none.

The other specifications state no fairness and check no liveness.

### Where the code and its documents disagree

Five runs show a disagreement and are listed as findings.

*Old data* (`user_storage_old_data`): the old profile data is deleted before the new is written.

*Race with an update* (`result_cache_update_race`): a calculation started during a resource
operation is reusable although its data is old.

*Traded bonus* (`event_search_trades`): the search for event points may replace a card by one with
a lower bonus, because the products compare only what each card adds
(`team_prune/contribution.rs:1337`): the lower bonus also multiplies what the teammates score.
`docs/pt-maximize-design-draft.md:4` calls the pruning strict; the formula of `:364-373`, which the document
takes as proof that power and skill make up for the bonus, has the same gap.

*First plan of a medley* (`medley_first_plan`): the search for the event points of a medley ends
without a result when the greedy teams make no three teams that share no card
(`pt_maximize/medley.rs:195`), though a plan exists: six cards, three of them of one character,
which must be in three different teams of two. `docs/pt-maximize-design-draft.md:121` and `:264` say that
correctness does not rest on the first plan.

*Modes* (`single_search_modes`): the single-song search loses teams of one band or
attribute. `mode_candidates` searches a mode of one band only if it
improves a skill; the other teams of one band are left to the mixed mode, whose precise
cover (`hard.rs:797`) counts only teams that break the unity of band and attribute. Six
cards of plain skills, five of one band and attribute and a weaker sixth of others, show
it: the fifth card's four replacements cannot all be blocked by the teammates of a mixed
team, which must include the sixth card, so it is dropped; the sixth has five replacements
and is dropped too; with four cards left the search fails. The medley search, which searches
all modes, is not affected.

Others were met while modelling and are left out of the passing runs' claims:

- *newer core files*: every calculation refreshes the manifest (`actions/calculation.js:265`) and loads
  newer core files if there are any (`app/core.js:30`). That invalidates nothing, so the lookup that
  follows may take a result of the older files from the history, against "never reuse scores after
  game data changes" (`actions/calculation.js:1086`). `ReusesCurrent` says it and fails as soon as
  `RemoteUpdates` is on; `NoStaleReuse`, which is about resource operations (`docs/persistence.md:98-99`), holds with such files arriving;
- *fever*: festival lives prune cards by the chart without its fever section
  (`crates/data/src/pt_maximize.rs:107`), while teams are scored with it (`distribution.rs:208-214`, as
  `docs/pt-maximize-design-draft.md:826-828` wants). Of two cards of a character, one with more power and
  one with a stronger skill, the first may be dropped although fever, where no skill is in effect,
  makes it the better one. `FindsMostPoints` fails for such requests with a `FeverBase` that is high
  against `FeverWeight`;
- two switches of profiles that overlap store one profile's content under another
  (`actions/profile.js:125`: the profile saved to is `state.activePlayerProfileId`, which only
  `refreshPlayerProfiles` updates); with `Handlers = {h1, h2}` and `Ops = {"switch"}` `Isolation`
  fails;
- an archive save or a deletion while a timed save is queued may lose an edit
  (`ui/archive.js:80`; `docs/persistence.md:56` wants saves to be serialised); `NoLostEdit`
  does not claim it (`lossy`);
- a rollback after a failing deletion restores the whole array and drops a result
  stored meanwhile (`actions/calculation.js:948`, `docs/persistence.md:102`);
- `docs/server-api.md:26-28` (and `docs/internal-testing.md:100` and `:108`,
  `docs/web-static.md:66-67`) turns the synchronisation off with
  `BANGDREAM_OPTIMIZE_GAME_DATA_SYNC_ENABLED=0`. `scripts/run-server.sh:10` still exports the interval, and
  when no file says whether to synchronise an interval alone turns it on (`apps/server/src/main.rs:449-454`), so
  the server synchronises; so does `--no-game-data-sync` beside arguments that say what to
  fetch. `SyncEnabled` has it as the code does;
- a directory's manifest is recorded whole after one of its files was fetched
  (`cache.rs:527`), so another file may stay old and be called current; an error
  behind replaced core files skips `clear_loaded_calculator` (`cache.rs:118`), which
  the variable `lost` shows; commands that overlap can record a manifest newer than the files,
  so `CacheHonest` (its part about manifests) and `CalculatesWithListed` speak of a patient user;
- an interrupted deletion on the desktop leaves a listed profile without a file,
  which `docs/persistence.md:133` itself names as open; `Durable` leaves it out;
- above 196 608 candidates the random search of medleys may return less than a plan that an earlier
  refresh had found;
- a rejected promise of a directory's manifest is kept until the copy is cleared or the page is
  opened again (`data/game-sync.js:295`), so that a score range then fails every time; that
  of the root is asked for again by every call, which is why `RefreshHolds` speaks of it; the
  manifest of the chart meta is never refreshed; a rejected promise of the WASM module is kept;
- of two refreshes that overlap, the older one may end last and show older files than the newer
  (`app/core.js`); a record that is being stored while the copy is cleared comes back;
  charts, events and cards are stored once and never again, although the sample manifest of
  `docs/web-static.md:200-221` lists a chart with its hash; the mirror does not download existing
  details again either.

A source whose versions go down again, with a run killed before its manifests, would let a
manifest list more than is there: `Mirror` assumes that versions only go up, and that runs do not
overlap, which nothing in the tool enforces.


## 5. The proofs

TLAPS 1.4.5 with Z3, Zenon and LS4. Everything is proved from the named
assumptions about the constants, which TLC evaluates in the runs; the theorems that need more
say so with an ASSUME of their own, explained here. Of the properties the runs check, 29 of 40 are
theorems.

**UserStorageProofs.** `TypeCorrect`, and `OneProfileKept`: for any number of calls, profiles
and closes no step but clearing replaces a list by an empty one. The inductive
invariant adds to the types that no call holds an empty list where it writes one
back; the lemma `DeletionLeavesOne` is the length check of `deletePlayerConfig`.
`OneTabConsistent` and `OneTabIsStore` are about calls made one at a time (the part of
`MCUserStorage` with `tabs = "one"`; `Callers # {}` says that there is a caller). `AloneInv`
relates what a call has read to the store at each of its steps (`HeldList`, `HeldActive`,
`HeldConfig`, `HeldIds`) and, for an uncut history, the configurations to the list (`Uncut`). For
the refinement the lemmas `Start...` and one per transaction show that the store as the next
reader sees it (`SeenStore`, `SeenActive`: after migration and repair) changes in one transaction
of each call, as `ProfileStore` says, and in no other.

**DesktopProofs.** Both stores of the desktop client, the server and its imports, without further
assumptions.
`StoreInvariant`, for the profile files: `DiskInv` says of the disk *and of every disk the command
still has to write* that it keeps what was confirmed to the user, and that the last of them is
the result of the command; so a crash or a failing write leaves one of the good disks. `PageInv`
says what the page may believe while it opens; `ReliableInv` that without failing writes
the files are in order. From it `ProfilesDurable`, `RefreshShowsActive` (an action property) and
`CommandsAreStore`, the refinement of `ProfileStore`, with `Seen` (the last of these disks) as
the store that the page knows.
For the game data, `LoadedCurrent`: the calculator is never older than the core files unless a
command is about to drop it or failed before it could, for any number of threads, files and
versions (`AllSettled`: what each command still has to do after it changed a file).
`ManifestNeverAhead` (both together are `CacheIsHonest`) and `CalculationCurrent`: for a user who waits, `PatientInv` says that one
command is at work (`Alone`), that manifests and files do not exceed the mirror (`Honest`), and
of the command which files it has still to check or write (`AllUndisturbed`, `Owed`).
For the server, `CalculatorsSynchronised`: `LoadInv` says that nothing is read before the first
synchronisation is over (`NothingRead`) and that a later one never puts older data in place.
`FeedbackLimited`: handlers come to the lock in any order, so the times of the attempts need not
grow and what the code drops from the front may hide newer attempts; `RecordOf` says that what the
limiter keeps are the times of the last attempts, and that each of the others is a window
old by now, which is what the limit needs. For imports, `CredentialsAreKept` and the action
property `DefaultsOnlyMoveOn`: `Exclusive` ties the imports that are at work to the permit of
their region, and `ImportSound` says of each of them, stage by stage, which versions were accepted,
which one is on file, and that the password has not been sent yet.

**PlayerSessionProofs.** `TypeCorrect` for any handlers; `ProfilesIsolated`, `EditorFollows`
and `EditsKept` under `OneHandler`: one handler at a time, no typing while it is busy, and
rejected calls only where the handler leaves the page as it was. Overlapping handlers
break `Isolation` (section 4), and a list or load that is rejected in the middle of a switch
leaves the page with one profile's id and another's content (no property covers it).
`SInv`: where a handler is, which profile the page, the store and the
editor agree on (`OpsInPlace`, `EditorInStep`), whose content every queued save holds
(`SavesInOrder`), what a handler remembers for going back (`Remembers`). `LInv`: unless `lossy`,
each edit is in the store, in the last save of the queue, with the timer or in the editor (`Kept`).

**ResultCacheProofs.** `TypeCorrect`; `NeverStale`: under `Careful` (no calculation starts
during a resource operation, no resource operation during a deletion) no reusable entry is
older than what the last resource operation left, also with newer core files arriving at any
calculation. `Careful` is necessary: dropping the first part gives the finding *race with an
update*, dropping the second lets a deletion that fails put back
entries that the operation had marked. `NoStaleReuse` is not inductive: the
invariant also says of
every pending write, of the calculation in progress and of a deletion's rollback
copy that what they would make reusable is of the versions since the last resource operation
(`Versions`; newer files only widen them, `NewerVersions`), or that a marking write is still
to come behind them (`AllFresh`, `CalculationFresh`, `UpdateSafe`, `MarkingSafe`,
`DeletionSafe`). `AlwaysCurrent`: if besides only resource operations change the data
(`~RemoteUpdates`), what a lookup takes is of the data at hand, since `Versions` is then the
current version alone (`RenewedSafe`). That assumption the code does not meet at every calculation,
as *newer core files* (section 4) says; nothing else is needed.
`MemoryFollowsDisk` under `Serial`, the overlaps that the run allows: the
memory is what the last pending write leaves or, after a failed deletion, the copy (`Settled`,
`InStep`), every write has an operation that waits for it (`Pending`), and no key is twice in any
of them (`AllSingle`); other overlaps break it (the rollback of section 4). `ShownToItsOwner`
and the action property `OthersUntouched` need no such assumption; `HistoryIsHeld` is the
conjunction that the run checks.

**SkillQueueProofs.** `TypeCorrect`, `KindTruthful`, `WindowsApart`, `LongestLatest`. The argument
compares the two walks of the chart: a queue that is released no later when every
skill is as long as the longest one bounds the real queue (`Releases`), so that a kind
other than a chain means that a window depends on its predecessor alone.
`ScorerMatchesWindows`: the events that the scorer still has to apply say, for every later frame,
which skill the windows put there (`InEffect` at a frame, `Foreseen`), and the last of them ends a
skill (`EventsEnd`); so playing a judgement with the events due gives the skill of its window.
`TableExact`: the window that the table of merged states gives an activation is the scheduler's,
for every chart, team and set of durations. `Walks` follows both ways through the song, the
scheduler's and the table's: the state that was reached has the row that the scheduler's own state
would have (`RightTable`, `InTable`), and the activations that were triggered are those that
were counted (`Counted`). The table is made of recursive functions; that they exist is shown by the
least layer that would lack a solution, so no induction theorem is needed. Merged states have
equal rows, a relation that every state has with itself, so that the representative that
the code keeps exists; and the trigger of an activation is a judgement by counting skills along
the chart (`TriggerIsNode`), where `SkillsAssumption` is needed.
`BoundsSafe`: what pruning believes of a card before an order is known is true of every order that is
played. Besides `IInv` and `Walks` the invariant says that what was prepared holds what it should
(`Song`: the table has schedulers only, the gains are the sums over the windows, `Believed` the
bounds) and what was played is inside of it (`Played`): every window so far is one of the table's,
starts at or after its trigger and ends no later than `LatestEnd`, the end it would have if every
skill were the longest (`WindowsSeen`); the scheduler of the team's longest skill is behind that
of the longest there is (`Ahead`); and whatever the team queued is queued when the bounds are made
(`KindSeen`). Sums over windows grow with the window, since no judgement scores below zero, so
the gain of what was played is at most that of the window that was bounded.

**MedleyScanProofs.** `TypeCorrect`, `CompleteSearch`, `BestFound`, `WantedOnly` and
`SameAnswersSameReport`, for every problem, visitor and number of lanes. The invariant
divides the plans, by their positions in the three loops, into those handed over and those still to come (`ToCome`): a wanted
plan is one of the two (`NoneLost`) and never both (`NoneTwice`). What makes it
inductive for the reuse scanner is `Ranges`, that the ranges, which only ever shrink,
leave out nothing that any later pair could want, because scores fall along the
positions; and `Lists`, the order of what was compared and what is still in the list.
`Quiet` is the shape of every step that reports nothing, `Reporting` of one that does.
`SameAnswersSameReport` needs no simulation of one scanner by the other. `RInv` says of either what
its report is, given the problem and the answers: the next plan is the first one, in the order of
the loops, that reaches the floor of the moment and was not handed over (`InOrder`), the floor is
what the answers lead to (`FloorAnswered`), and the counted work is the number of pairs and triples
that the loops have passed and that reach the floor of the moment they came to them
(`WorkCounted`, by a bijection between what a step adds to a counter and what it passes). Two
reports with the same answers are then equal entry by entry (`SameNext`).

**SearchProofs.** What the searches rest on. `NothingBetter`: `Optimum!Spec` implies
`[]IsOptimum`, for every problem; every possible score is matched by an open one or by the best
one, and the best one does not exceed all of them. `CoveredCardIsReplaceable` and
`PassKeepsBestTeam`: covers are sound for teams of exactly the mode, whatever the size of a team,
the pool, and what counts as a replacement; `BreaksUnity` is a hypothesis, and the finding about
modes is what happens without it. That replacements raise the score is a hypothesis too (`Raises`): the
theorem is about covers and simultaneous removal. `HardDominanceIsOrder` and `MinMarginIsLowest`
are steps towards it: no two cards replace each other, and the corner of the bounds gives the
least difference. `IntervalExact`: a play gives a number of points if and only if its score
lies in the interval that `ScoreRange` computes from them, for every event type and bonus, with
the two floors of the points and the two ceilings of the inverse.

`PlansExact`: whatever the score range search answers makes exactly the points that are missing, each
play with a score that the team makes, at a power it has. The assumption is that the request
is one that the program can get (`IsRequest`, which `RequestAssumption` says of the requests of
a run). Its invariant `SearchHolds` goes down the loops of the search: `LayersHold` (the layer is one
for what is missing), `WorkHolds` (the items of a batch differ in the inner target only),
`IntervalsHold`, `BatchHolds`, `CandidatesHold`. The last alone is not inductive: a candidate is
made from intervals that were cached for the layer, which the invariant must tie to the layer
that is searched, and in a batch from the teams of its base, which must be exact for the
base's items and have the same power under those of the batch. `ReusedPower` is the reason for
the latter: no card of such a team is changed by what the batch adds. `TwoSongExact` is
the arithmetic of the plans of two songs: from the greatest common divisor, whose
representation as a sum of multiples is proved, the inverse of one number modulo the other
exists, and the numbers of plays it leads to are an exact solution. `UnitsProduce` splits the units
among the fire costs. Where the code sorts intervals before it merges them, the proof shows that the
order is total on them, so that the first one exists (`RankKeyed`).

`RangeScores`: where the search calls a duration safe, what it counts on the ideal timeline of an
Auto chart scores what is settled judgement by judgement on the timeline of the intervals.
`TimelineHolds` follows both walks. That every judgement is counted once holds always
(`EachCounted`); the rest only while no risk was met, since after one the timelines may be under
different skills: no skill is in effect on both (`Silent`), or the last triggered one is on both,
with ends that no judgement of a safe chart separates (`Sounding`), and the scores agree so
far. It rests on `Ordered`, the notes in order of time (section 6).

Sums over finite sets occur in most of these proofs (points of plays, powers of cards, scores of
windows). `Total` is the recursive function that takes one element after another; that it exists,
does not depend on the order, splits, and is monotone is proved by a smallest set for which it
would fail, from the theorems about finite sets.

**WebDataProofs.** The mirror and the pages, from `FilesAssumption` and the assumptions about the
numbers of downloads, retries and calls. `MirrorImplements`: each step of the tool is one of
`PutFiles`, `List` or none (`ImplementsPublished`). Two conjuncts make `MirrorInv` inductive beyond
types: what a run will list is on the disk (`EntriesThere`) and, for the main files, neither older
than what the root lists nor than the source at its start (`PreviousNew`, `EntriesNew`), which in
turn needs that the source is ahead of the mirror (`SourceAhead`); and the chunks of downloads
behind the current one have all their entries (`CoreDone`, `ChunksDone`), so that a run that fails
does not publish. `RootWritten` then gives `RunPublishes` (`MirrorPublishes`).
The pages are proved beside *any* mirror that keeps the promise (`PageSpec`: the disk and the
manifests change by `PutFiles \/ List`), not only beside this tool, and with any records of earlier
visits that reach their labels; the one assumption about the mirror beyond the promise is that its
main files are there (`CoreThere`): without them an optional file that is missing and a main file
that is missing look the same to a page, and it fails, as it must, though no request was lost.
`PageInv` says of every promise of a manifest that the mirror has what it lists, and of every file
that is asked for and every record that it reaches its label (`PromisesGood`, `TasksGood`,
`Records`); and of every call that what is due to it is listed still, that the manifest it got lists it, or
else that a request failed since (`Rooted`, `DueListed`), and that the files it has got so far
reach what is due (`CoreAsked`). From it `PageFresh` and `PageForgetsFailures`. `FreshInRuns`,
`PromiseKept` and `PublishedInRuns` are the same for the specification that the run checks.

Left to TLC, and why:

- liveness (`MigrationCompletesAlone`, `EditsReachStore`, `CalculationEnds`, `CallsEnd`,
  `MirrorCatchesUp`): TLAPS cannot reason about fairness and `ENABLED`;
- `ImplementsOptimum`, of one song and of medleys, and `FindsMostUntraded`: the branch and bound of
  these searches is a `RECURSIVE` operator, which no module with a theorem may reach.
  `NothingBetter`, `PassKeepsBestTeam`, `HardDominanceIsOrder` and
  `MinMarginIsLowest` are what is proved of them;
- `FindsBestMedley` rests on the same branch and bound for three teams, with several sources of
  incumbents; of its solver `ScanIsExact` and `SameAnswersSameReport` are proved;
- `FindsBestPlan`, that the score range search misses no plan: the converse of `PlansExact`, which is
  proved, needs besides that every bound (skills, powers, points of a layer) passes over nothing
  that could be a plan;
- `SearchIsBest`, that the packed search for an order of skills returns the best one: a dynamic program
  over sets of cards and states, in numbers that hold score and order together. `TableExact` is the
  half of it that is proved: what the states of that program mean.

Where the induction theorems of the library would be used (their parameter is an operator, which no
installed prover instantiates) the proofs take the least number, or a smallest set, for which a
statement would fail.



## 6. Not modelled

- *Skill queue*: the plan cache, reading a chart and sorting its notes: charts are assumed to be
  sorted by frame, which `sort_nodes` (`chart.rs:2192`), whose comparison has a tolerance and is
  not transitive, does not strictly guarantee (in `AutoTimeline`, where ticks are coarser than the
  tolerance, sorting by time is what the sort does). Scores are exact floors of rationals where
  the code rounds floats; sums over compiled groups of notes are taken note by note, and
  the shortcut for tables with equal rows by its tie rules. In Auto play a frame is four
  ticks, the tolerance of comparisons lies below one, and `active_count`, which nothing reads, is
  left out.
- *Medley scan*: the experimental switches (`second_prune`, `bitmap_band`); saturation of sums.
  The kernel for masks of five and more words compares four masks at a time and takes the steps of
  the plain scanner.
- *Single-song and event searches*: charts on which skills queue (pruning then keeps the pairs of
  equal duration), skills that grow, power as three parts, pools of more than 128 cards, which
  `divided_cross_character_node` halves and merges, and the closure of replacements there. Only the
  value of the best team is kept, not which of several teams is shown. `PowerFloor` is rounded
  down; differences of power by the order of adding floats are in `ScoreRange` only (`Slack`).
  `pt_evaluate.rs`, which evaluates given teams, is left out.
- *Medley searches*: queued skills; the solvers by their contracts (checked in the scan part of
  the run).
- *Score range*: the layout of charts, the caches of power bounds, overflow checks. `ChartDurations`
  are the durations a chart was compiled for, `UpUnit` the unit of skill values; which of the candidates
  of one key is kept is left open (`Inserted`).
- *Stores and session*: names and times of profiles, the unused player-id files,
  dialogs, exports.
- *Game data*: the score-range chart index of the native cache, conditional requests, contents of
  partial files. In the page: the
  preset of the current event that is read in the background (`core.js:63-108`), the answer from
  the result history after the main files are there (`ResultCache` has it), the
  synchronisation of all details one after another; `handleClearGameCache` is not blocked while a
  calculation runs, which the model allows too.
- *Session*: the import into a new profile (`actions/profile.js:340`) saves the editor and then
  creates, as the handler that creates a profile does, which is modelled.
- *HTTP server*: the fallback of `feedback.rs:427` for a clock that has not run for a window yet
  (`checked_sub` gives none, not on Linux); what requests and answers contain, telemetry (whose appends from several requests
  may interleave in a file), static files, restarts. After a restart a synchronisation of the
  process before may still run beside the new one's; nothing in the code prevents it.
- *Account imports*: requests to the game and their encryption, reading a profile from the answer.
- Hazards that no property covers: the manifest of a directory that is recorded after one file (`cache.rs:527`), two threads with one temporary file
  (`cache.rs:1020`), the refresh after a failing handler (`player.js:98`), the order of notes
  (`chart.rs:2192`) and the interval that turns on a disabled synchronisation (`main.rs:457`).
- Everything marked `not_modelled` in `PROJECT.json`, each with its reason: pure arithmetic
  (preparation, scoring of a team), views and conversions without protocol, I/O and scripts.
