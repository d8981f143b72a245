# redfish-python-sdk: TLA+ models and proofs

`redfish_sdk` is a synchronous Python client of the Redfish API of a baseboard
management controller (BMC). A `RedfishClient` owns one `RedfishHttpClient`
(a `requests.Session` and its authentication state) and a set of managers that
turn operations into requests. The library starts no thread, but nothing keeps
an application from sharing a client between threads: `http_client.py` carries
a lock for exactly that case. The other actor is always the BMC, which acts at
any time: it expires sessions, ends tasks, forgets task monitors, loses or
delays answers, and executes requests whose answer never arrives.

This directory holds TLA+ models of that behaviour, TLC configurations that
check them, and TLAPS proofs of what matters most. Paths below are relative to
`src/redfish_sdk/`.

## 1. Inventory

| component | state it keeps | operations | hard behaviour | what makes it correct |
|---|---|---|---|---|
| Session authentication (`http_client.py`, `managers/session.py`, `auth.py`) | `_auth_mode`, `_session_key`, `_session_location`, `_session_refresh_failure`, the managed headers of `_session`, `_session_refresh_lock` | construction in Basic or session mode, first login, refresh, `create`, `delete`, `logout`, `close`, `set_auth_token`, `reset_basic_auth` | five attributes assigned one by one and read without the lock; sessions expire; answers to logins are lost | an expired session costs one login; no write is replayed; no fall-back to Basic; the attributes agree; a deleted session is not used |
| HTTP request path (`http_client.py`, `retry.py`) | per call: the attempt counter, the latest response | `_request`, `_send` | timeouts that leave the execution open; retries; a refresh between two rounds | a write is executed at most once; a bounded number of exchanges; the latest answer is returned |
| Task waits (`managers/task.py`, `models/task.py`) | per call: deadline, recovery counters, the Task URI learnt so far | `wait_for_task`, `wait_for_operation` | lost polls, vanishing monitors, credentials reset by the BMC, delays dictated by the BMC | one verdict, a true one, in time |
| ETag cache and conditional PATCH (`http_client.py`, `client.py`) | `_last_etag` | `get`, `patch`, `patch_raw`, `get_etag`, `RedfishClient.patch` | entries of earlier reads, of other threads' reads, and of writes whose answer has no ETag | no lost update; a PATCH can succeed again |
| Collections and paging (`client.py`) | per call: visited pages, visited members, errors | `_get_collection`, `_get_list`, `list_*` | link loops, repeated members, failing pages and members | ends; every member once; a partial result says so |
| Diagnostic log collection (`managers/managers.py`, `managers/log_collect_strategies/`) | per call: the task adopted or triggered, download URI; on the BMC: tasks, log entries, vendor progress | trigger, wait, find existing, download, the combination of them | tasks of an earlier run; progress that is reset late; entries of an earlier collection | the bundle handed over is the one of the task waited for |
| Firmware update (`managers/update.py`, `managers/update_strategies/`) | none; each call reads the UpdateService before it posts | `simple_update`, `standard_simple_update`, `stage_update`, `activate_software`, `upload_firmware_file`, `bmc_firmware_update`, `upload_sign_key`, `upload_firmware_image` | capabilities change between the check and the POST; vendors' strategies disagree about targets | the dialect of the request is that of the BMC, and it carries only what was advertised |
| Vendor detection (`managers/update_strategies/vendor_detect.py`) | a process-wide cache by `id(client)` | `VendorDetector.detect` | failures cached; identities reused | the vendor of this client |
| Message registries (`managers/registries.py`) | `_document_cache`, 32 entries in order of use | `resolve`, `get`, `document`, `clear_cache` | reference cycles, a full cache, threads between two operations on it | resolution ends with the message of the registry asked for |
| Resource aliases, member selection (`managers/resource_alias.py`, `managers/system_resources.py`, `managers/base.py`) | none | `select_member`, aliases, the reads of sub-resources | ambiguous names; selection among what could be read | one member, the one meant, or an error |
| Chassis, systems and managers (`managers/chassis.py`, `systems.py`, `managers.py`) | none | reads with fallbacks; power, reset, boot, indicator, log and virtual-media actions | a read before the write; a link, a member or an answer missing on the way | the action reaches the resource meant, once |
| Accounts, events, policies, fabrics, telemetry, composition, cooling | none | short walks and one request each | the same | the same |
| GPU discovery (`managers/gpu_discovery.py`) | none | merging inventory sources | duplicate devices | every device once |
| Client facade (`client.py`) | the managers | delegation, and lookups with fallbacks of its own | a failure that a fallback hides | an answer tells of what could not be read |
| OEM extractors; data models, responses, exceptions | none | field selection | none | - |
| Tools and examples | none | scripts outside the library | - | - |

How they interact: managers call the `RedfishHttpClient` synchronously; all
managers of a client share its authentication state and its ETag cache.
`session.py` installs and clears credentials in the HTTP client
(`set_auth_token`, `clear_active_session`); the HTTP client logs in by itself
(`_refresh_session`). Log collection, firmware update and account operations
hand their 202 answers to the task manager. Four things are shared between
concurrent callers: the attributes of the client (with its ETag cache), the
document cache of its registries, the vendors detected by the process, and the
BMC.

The hazards of this code, each at its line with the properties that would
catch it, are listed in `PROJECT.json`.

## 2. Plan

In the order in which the modules are written; those marked * exist.

1. `SessionAuth`*, with the abstract `SessionRefresh`* it implements: the only
   state of the library that threads share, and the only lock.
2. `HttpSend`*: the request path every manager rests on.
3. `TaskWait`*, with the abstract `AsyncOutcome`*: how every asynchronous
   operation ends.
4. `EtagPatch`*: the ETag cache, conditional PATCH and lost updates.
5. `CollectionPaging`*: paging and members under failures, loops and repeats.
6. `LogCollect`*: find, trigger, wait for and download diagnostic logs, with
   the strategies that use the TaskService; then `ProgressCollect`*, for those
   of ZTE and Lenovo, which read a progress register that outlives its
   collection, and for the visibility wait of IEIT.
7. `RegistryResolve`*: references between registries and the document cache.
8. `FirmwareUpdate`*: the update operations, their strategies, and the
   detection of vendors with its process-wide cache.
9. `ResourceOps`*, the skeleton every resource manager shares, with
   `ManagerRecipes`* and `ClientFacade`*, which say what each operation does
   with it.
10. `GpuInventory`: how the representations of a device are merged.

Theorems, in the order in which they are proved: types and the single-step
properties of `SessionAuth`*, sharing of refreshes and the refinement of
`SessionRefresh`*, `HttpSend`*, `TaskWait` with its refinement*, the
invariants of `EtagPatch`*, `CollectionPaging`* and `LogCollect`*, `OneEffect`
and `WritesWhatWasMeant` of `ResourceOps`*, the invariants of
`ProgressCollect`*, those of `SessionAuth` for one thread*, `HonestAnswer`* of
`ResourceOps`, those of `RegistryResolve`* and `FirmwareUpdate`*; then what
`GpuInventory` needs.

## 3. The models

### SessionAuth, SessionRefresh

`SessionAuth` is one client, its threads and the BMC's session table. The
variables `mode`, `key`, `location`, `failure`, `header` and `lock` are
`_auth_mode`, `_session_key`, `_session_location`,
`_session_refresh_failure`, the managed headers of `_session` and
`_session_refresh_lock`; `pc` is where each thread is, and `meth`, `tries`,
`observed`, `cred`, `target` are its locals. CPython may switch threads between
any two bytecodes and `requests` releases the GIL during an exchange, so each
assignment to, and each deciding read of, a shared attribute is a step:

| code | actions |
|---|---|
| `_request` before the exchange | `CheckMode`, `CheckKey`, `Observe` |
| `_send` (one attempt) | `Send`, then one of the answers below |
| `_request` after the exchange | `Answered`, `Rejected` (401), `Lost` |
| `_refresh_session` | `Acquire`, `CheckKeyAgain`, `CheckFailure`, `LoginSucceeds`, `LoginFails` |
| `set_auth_token` | `SetMode`, `SetKey`, `SetLocation`, `ClearFailure`, `DropBasic`, `PutToken` |
| `reset_basic_auth` | `ResetMode`, `ResetKey`, `ResetLocation`, `ResetFailure`, `DropToken`, `PutBasic` |
| `SessionServiceManager.create` | `Discovered`, `Created`, `CreatedForCaller` |
| `SessionServiceManager.delete`, `clear_active_session` | `Discovered`, `NotListed`, `Deleted`, `ClearActive` |
| `close`, `logout` | `Close`, `Logout`, `Deleted` |
| the BMC | `Expire`, `Executed` within the answers |

The BMC may answer 401 to any key that is not live, may lose any answer, may
open a session without the client learning of it, and leaves out the Location
of a session if it likes. A request is a single exchange: the retry loop of
`_send` does not look at the authentication state between attempts and is
`HttpSend`'s subject.

`SessionRefresh` is the promise of `_refresh_session`'s docstring, "Refresh an
expired session once, synchronized across callers", with one atomic step per
caller. `RefreshIsAtomic` says that `SessionAuth` implements it: `asking` is
the key of a caller between its decision to refresh and the point where its
outcome is fixed, which is the assignment of the new key, the early return, or
the failure.

### HttpSend

One call of `_request`: the loop of `_send` with its counter, its surviving
variable `response`, the back-off, and the second `_send` after a refresh.
What an exchange ends with is one of six outcomes (the statuses the code tells
apart and the exceptions it catches), and what the BMC did with the request is
a choice the outcome leaves open.

### TaskWait, AsyncOutcome

`wait_for_task` and `wait_for_operation`, which share their loop, their
recovery policy and their deadline. `kind` says what is polled: the task given
by the caller, the Task resource named by the 202 answer, or an opaque monitor.
Every poll may be lost (`PollLost`), refused (`PollUnauthorised`), answered
(`PollTask`, `PollAccepted`, `PollResult`), missing (`PollMissing`) or answered
with another status (`PollHttpError`); `Verify` is `_verify_missing_monitor`.
Time is the variable `now`, which advances by the length of each poll and each
sleep. An answer resets the counter of lost polls, except a refused one, whose
branch ends before the reset. The history variables `streak` and `refusals` are
the polls lost since the BMC last answered in any way, and the polls it refused
since it last answered otherwise; `PatientWithOutages` is about these, not about
the counter. `AsyncOutcome` says that a caller gets one verdict and that a
verdict about the operation is true; `ReportsTheTask` is the refinement.

### EtagPatch

One resource, whose version is its ETag, the cache entry `_last_etag[path]`,
and the threads of one client, which read and patch the resource in four ways:
a typed read, the generic `RedfishClient.patch`, the managers that read, call
`patch_raw` and read back, and those that pass the ETag of the model they read
to `patch`. An exchange and the `_store_etag` that follows it are two steps,
with the other threads and other clients (`OtherWrite`) in between. The BMC
decides, answer by answer, where it puts an ETag (`OnGet`: the header, the
body, both, neither), and whether the answers to a PATCH carry one (`OnPatch`,
`OnError`); the error answers to a GET are taken to have none. `known` and
`own` are history variables: the version the caller of a thread was told of
last, and where the ETag of its latest read still is. The ETag of a header goes
through the shared cache, even for a model (`Attach`), so another thread can
replace it between the moment it is stored and the moment it is taken out
(`Exposed`); from then on it is no longer the operation's own (`HasOwnEtag`).

### CollectionPaging

`_get_collection`, one action per way through its loops, in both modes of
`strict_collection_errors`. What a page holds is decided when it is fetched,
so it may change between pages, repeat members or lead back. `listed` is a
history variable: every member any page linked to.

### LogCollect

`collect_and_download_diagnostic_data` for several callers and one BMC, whose
collections others start too. `FindExisting` and `FindNothing` are
`find_existing_task`, `Trigger` and `TriggerFails` are `trigger`,
`WaitSucceeds`, `WaitFails` (a `LogCollectFailedError`, which is retried) and
`GiveUp` (any other end, the timeout among them) are `wait_until_ready` as its
caller sees it, `Download` and `DownloadFails` are `download_artifact`; how a
wait passes its time is the subject of `TaskWait`. What the vendors override is
a constant: which of the existing collections they reuse (`Reuse`: any, the
running ones, none) and where they look for the bundle (`Fetch`: through the
task and its log entries, or in the one slot that an OEM download action or the
entry `Latest` reads). `Found` is `extract_download_uri` with its fallbacks. A
bundle is named by the collection that made it; `old` and `mine` are history
variables, the collections that were over when a call began and those it has
triggered.

### ProgressCollect

The same call as in `LogCollect`, one of it, with the strategies that do not
wait for a Task. ZTE and Lenovo poll one progress register, which speaks of one
run only: `shown`, which the BMC moves on to a later run when it likes
(`TakesOver`), if ever, since "BMC often keeps the previous run's terminal
state until the new task takes over". A reading of ZTE carries the path of the
archive, the placeholder of an idle BMC, or none (`TarPaths`); `Reading` is the
`tar_path` of the wait, which outlives the poll that set it. `Capture` is the
read of the register at the head of ZTE's `trigger`, whose path `prev` is the
`_zte_previous_tar_path` of the task; `Stale` is the test on a poll that shows
success, `Failed` the rule that a failure on the first poll may be an old one,
`Reread` the second look of `download_artifact` when no path was seen, and
`adopted` the absence of `_zte_fresh_trigger`. On IEIT, `Hidden` is the task that
the TaskService does not list yet, and `Deadline` is how what is left of the
timeout is computed when it appears. `RunStarts`, `OtherStarts`, `TakesOver`,
`RunEnds` and `Purge` are the BMC and its other clients. Time is what the call
has slept.

A register that is behind can take the call in, and the properties say when.
The history variables count the polls of a wait that were answered by an earlier
run (`late`), and record whether a later run than the one shown was over already
when the call captured a path or adopted a run (`behind`) and whether a success
was shown without its path (`vague`). `Misled` is the condition under which an
archive may be an old one: on Lenovo, whose strategy distrusts nothing, one late
poll; on ZTE, without a captured path, two, or one with a path that was captured
behind or with a success that came without one. `HonestFailure` allows one
failure that is not the run's own in the same way: to Lenovo's first poll, to
ZTE's second. Outside these cases the properties hold, however late the
register is.

### RegistryResolve

`resolve` for several threads over every way the documents can refer to one
another. A document is what it says about the key: text, nothing, or a
reference, in its head or at the key. `Find`, `FindCycle` and `FindNothing` are
the choice of a registry with the `visited` test, `Follow` and `Answer` what its
document says. `cache` is the `OrderedDict`; its `get`, its `move_to_end`, its
assignment and each `popitem` are steps of their own (`Lookup`, `Touch`,
`Fetch`, `Evict`), because another thread or `clear_cache` may come between.

### FirmwareUpdate

Calls of several threads on several clients. `Plan` is the sequence of steps of
each operation: detection, discovery of the UpdateService, reading its actions,
checking what it advertises (twice, when an update is staged), posting.
`Cached`, `Uncached`, `Detect` and `DetectFails` are `VendorDetector.detect`
with the class attribute `_cache` (`vendorCache`), whose key is `id(client)`:
`Create` and `Drop` give and take identities, and the identity of a client that
was dropped is free for the next one, with what the cache holds under it.
`owners` and `whose` are history variables: the clients that have had an
identity, and those that had the one of a call's client when the call began. A
request body is its dialect (the strategy that wrote it) and what it says about
its targets and its staging. `OfferChanges` lets the service advertise something
else between any two requests.

### ResourceOps, ManagerRecipes, ClientFacade

Most operations of the managers, 134 of the facade's, have one skeleton: walk the
links the BMC advertises, level by level, trying one or several places (routes)
on each; take all the members read, or pick one and go on from it; if the
operation writes, validate the request against what the member advertises, send
it, perhaps read the member again. `ResourceOps` is that skeleton, one request
or one decision per action. `ManagerRecipes` says, for each method of each
manager, which levels and routes it has, what a missing link, a 404, another
failure and an empty list do on each of them, how the member is chosen, and
what is validated; `ClientFacade` says which of them each public operation of
`RedfishClient` runs, and has the lookups that `client.py` makes itself. The
BMC answers every request as it likes, so the walk of one call meets whatever
other clients do meanwhile. `blind`, `astray`, `hidden`, `broken` and `effects`
are history variables.

Where the recipes simplify. A page of a collection is one request here, the
pages being `CollectionPaging`'s. The read of the service root or the parent is
part of the first request of a walk. In operations with two identifiers
(a port of an adapter of a system) the parent is found without one. The
resource of the power subsystem and its collection of supplies are one request.
The ActionInfo of an action is taken to be readable or to fail, also where it
is not advertised. Of the operations with several forms (coolant connectors,
environment metrics, port metrics) one form each is modelled. The long fallback
chains of `get_mainboard`, `get_odata_id` and `network_ports` have one route
for each kind of reaction, not one for each property name.

## 4. The runs

| run | instance | shows |
|---|---|---|
| `refresh` | two threads, two operations each, reads and writes, three tokens besides the given one | sharing of refreshes (`OneLoginPerKey`, `FailureIsCurrent`, `LockoutIsFinal`, `RefreshIsAtomic`), `NoReplayedWrite`, `HeaderMatchesKey`, `NoBasicFallback`; `EveryCallReturns` |
| `one` | one thread, three operations of any kind, every way of construction | `Settled`, `DeletedIsNotActive`, `CloseClearsAuth` |
| `send` | three extra attempts | `WriteExecutedOnce`, `FreshAnswer`, `RetriesExhausted` |
| `wait` | timeout 6, delays 0, 1 and 5, polls of 1 or 2, two recoveries, one credential reset | `DeadlineRespected`, `PatientWithOutages`, `ReportsTheTask`, `Terminates` |
| `models` | two threads, two operations each of all four kinds, ETags in the header, the body, both or neither, other clients | `ReadersKeepUpdates`, `ReadersConflictIsReal` |
| `paging` | three pages of up to two links, three members, both modes | `ExpandedOnce`, `CompleteUnlessPartial`, `StrictIsComplete`, `Terminates` |
| `collect` | two callers and another client, two collections, one retry, each way to reuse and to fetch, entries that can all be read | `FreshBundle`, `HonestVerdict`, `NoPileUp` |
| `progress` | each of the three vendors, up to three runs, a register as late as the BMC likes and with or without a path, one retry, a timeout that is no multiple of the interval | `FreshArchive`, `HonestFailure`, `SuccessIsNoticed`, `OneTimeout`, `EveryCallReturns` |
| `registries` | two threads, two errata of one name, every content of their documents, a cache of one | `MeansWhatItSays`, `CacheBounded`, `EveryResolutionEnds` |
| `firmware` | every operation, two clients that come and go under ids that are reused, two vendors, three sets of capabilities that change at any time | `RightDialect`, `AdvertisedOnly` |
| `operations` | every operation of the facade, with any identifier and none, listings of up to three members, every answer to every request | `WritesWhatWasMeant`, `OneEffect`, `HonestAnswer` |
| `wrong_member` | the same with two members; calls on a system without an identifier | the finding below |

Why the bounds are enough. Two threads are what it takes for a key to be
replaced between another thread's reads; two operations each let a thread come
back with a key that was refreshed meanwhile; tokens are never reissued, and
with two refreshes per thread possible, three new ones let a run of refreshes
end by exhaustion only after every interleaving of two has been seen. One
thread with three operations reaches create-delete-close and every other order
of three. In `TaskWait`, the delay 5 is longer than what is left of the
timeout after one poll, the delay 0 is the case in which only the polls
themselves make time pass, and `Horizon` lies beyond the last moment a wait
can reach, so it hides nothing. In `EtagPatch`, two
writes are enough for a change of the other thread and one of another client to
fall into every gap between a thread's read and its PATCH. Three pages are a loop of any shape
a continuation can make (to itself, to the first, to the one before); two links
on each let a page repeat a member and fail on another. In `LogCollect` two
collections are an older and a newer one, or a first attempt and its retry,
and two moments put any event of the one before, after, or at the same second
as any event of the other. In `ProgressCollect` three runs are one before the
call, its own, and its retry or that of another client; a timeout of two and a
half intervals is the case in which the last sleep is cut short, and gives ZTE
and Lenovo three polls, one more than the two late ones it takes to mislead
ZTE. A cache of one
document makes every load of a second one an eviction; two errata that refer to
each other are a cycle, and three registries, with listings that lack some, are
`MCRegistryResolve_partial.cfg`. The three sets of capabilities in
`MCFirmwareUpdate` are a service that predates the support flags, one that has
a flag for staging but none for targets, and one that has both and excludes the
target; the vendors are one whose strategy requires targets and one whose drops
them, the generic strategy, to which failed detections fall back, being the
third kind.
Two threads that detect a vendor at once are `MCFirmwareUpdate_threads.cfg`.
Three members let one be unreadable, one match and one not.

Fairness. `FairSpec` assumes weak fairness of each thread's `Step`: a thread
inside a call keeps running, requests carry a timeout, and the lock is released
by its `with` statement whatever the refresh raises. Calls (`Start`) and the
BMC's decisions are not fair. Weak fairness is enough although the lock is
contended, since a bounded number of calls leaves it free in the end; with
unbounded calls a fair lock would have to be assumed, which `threading.Lock`
does not promise. `TaskWait` assumes weak fairness of the waiting thread; the
task need never end. `CollectionPaging` and `ProgressCollect` assume weak
fairness of their only thread, `RegistryResolve` of each of its threads; all
their requests carry a timeout, and nothing is assumed of the BMC: the polled
run may go on for ever. `LogCollect` states no liveness: that a wait ends is
`TaskWait`'s, and the number of attempts is bounded. `FirmwareUpdate` and
`ResourceOps` state none, having no loops but that over finite lists.

Every property of every run is accompanied by a mutant in `PROJECT.json`: a
plausible bug of the code, for which TLC finds the property violated.

## 5. The proofs

All proofs are checked by TLAPS and hold for every value of the constants that
satisfies the modules' assumptions, in particular for any number of threads,
tokens and operations.

| module | inductive invariant | theorems |
|---|---|---|
| `SessionAuth_proofs` | `WireInv`: types, the lock belongs to the one thread inside a refresh, the number of exchanges goes with the place in the code, no write has been sent twice | `TypeCorrect`, `WritesAreNotReplayed` |
| the same, second part | `RequestInv` adds: what requests do leaves the client in session mode (`PathInv`), and the header follows the key except for the last assignments of a refresh (`HeaderInv`) | `HeadersFollowKey`, `BasicIsNeverSent` |
| the same, third part | `RefreshInv` adds: every key used was issued and is not reissued (`FreshInv`), a cached failure is about the current key (`OutcomeInv`), and the current key has cost no login unless its refresh is going on or has failed (`LoginInv`) | `LoginsAreShared`, `FailuresAreCurrent`, `LockoutHolds`, `RefreshesAreAtomic` |
| the same, fourth part | `OneInv`, of a client used by one thread: each assignment of a `set_auth_token` or `reset_basic_auth` that is going on has been made or is still to come (`AssignedInv`), what a DELETE has removed is known to be its own session or another's (`GoneInv`), and after `close` nothing is left but the `Logout` of what was there (`ClosedInv`) | `AttributesSettle`, `DeletedIsForgotten`, `CloseIsClean` |
| `HttpSend_proofs` | `SendInv`, `CostInv`: the history counters in terms of round and attempt | `SendTypes`, `WritesExecuteOnce`, `ExchangesAreBounded`, `AnswersAreFresh`, `RetriesAreUsed`, `BackoffIsBounded` |
| `TaskWait_proofs` | `WaitInv`: a poll starts before the deadline, a check of the Task resource one poll later (`DeadlineInv`), the counter is the streak unless a refusal came in between (`StreakInv`), a verdict is true of the task (`VerdictInv`) | `WaitTypes`, `DeadlineHolds`, `OutagesAreTolerated`, `VerdictsAreTrue` |
| `EtagPatch_proofs` | `OwnInv`: from its GET to its PATCH, an ETag that is an operation's own is the version its caller was told of, in the model whatever happens to the cache, and in the cache until another thread replaces it | `EtagTypes`, `UpdatesAreKept`, `ConflictsAreReal` |
| `CollectionPaging_proofs` | `PagingInv`: what was visited is what was expanded or has failed, and what was listed is what was visited, is still to be followed, or is among the failures | `PagingTypes`, `MembersAreUnique`, `ResultsAreComplete`, `FailuresAreNotMembers`, `StrictResultsAreComplete` |
| `LogCollect_proofs` | `StageInv`, `MineInv`: where a call is in its attempts, and that what it has triggered before is over; `BmcInv`, `CallInv`: entries and slot are those of collections that succeeded, the slot holds the last of them, and a call that reuses nothing that is over follows a collection that outlasts its start | `TypeCorrect`, `NoPileUpAlways`, `VerdictIsHonest`, `BundleIsFresh` |
| `ProgressCollect_proofs` | `StageInv`, `TimeInv`: the place a call is in, and what it has slept there; `RegisterInv`, `VisibleInv`, `OldInv`, `KeptInv`: what the register can show of which run; `CaptureInv`, `ObservedInv`, `LateInv`, `TarInv`: what a call remembers of the archive that was there before and of the readings of its wait; `DoneInv`, `FailedInv`, `IgnoredInv`: what a wait concludes from them | `TypeCorrect`, `WaitsOneTimeout`, `HandsOutTheFresh`, `FailsHonestly`, `NoticesSuccess` |
| `Managers_proofs`, of `ResourceOps` | `EffectInv`: an executed write leads to the second read or the end, and nothing else to the answer of an operation that writes; `ListInv`: a list without a mark has lost nothing, and a member that was not meant was picked from one with a mark; `ToldInv`: a place whose failure the operation swallows is one that `Tells` of it otherwise | `OpsTypes`, `WritesHaveOneEffect`, `WritesReachTheMember`, `AnswersAreHonest` |
| the same, of `RegistryResolve` | `CacheInv`: a thread between its insertion and its eviction whose document is still there accounts for one entry too many, and no entry is there twice; `MeaningInv`: a thread has been only to registries its MessageId reaches, each of them but the last has led it to another, and it has been to all of them but those of its current reference | `ResolveTypes`, `CacheIsBounded`, `ResolutionsMeanWhatTheySay` |
| the same, of `FirmwareUpdate` | `PlanInv`: what a call has ahead of it is the rest of its plan, on a client in use; `OfferInv`: a call has seen what is advertised now, and gets to its POST through a validation that something it has seen passed; `DialectInv`: an identity in use is that of one client, its owners have been recorded, and what the cache has under it fits one of them, as does what a call has read from it | `UpdateTypes`, `AdvertisedIsSent`, `DialectIsRight` |

None of the checked invariants is inductive by itself. `OneLoginPerKey`, for
instance, says nothing of a thread that is about to log in with a key that has
already been logged in for; that no such thread exists rests on the lock, on
the second comparison of the keys under it, on the cached failure, and on
tokens not being reissued, which is what the four parts of `RefreshInv` say.

The fourth part of `SessionAuth_proofs` and `HandsOutTheFresh` are the long
ones. The first because an attribute is wrong in the middle of every
`set_auth_token`: the invariant has to say, for each of its six assignments,
which of the others have been made. The second because the register is about
a run of any age and a call is about its own, so the invariant has to relate
the run a read shows, the run the call has triggered, and the run whose archive
it captured before, at each point of an attempt.

Some theorems make an assumption about how the client is used or about the
BMC: `RequestsOnly` (threads send requests on a client constructed for sessions
and none of them creates, deletes or closes a session), `Resumed` (the client
was constructed with a session key), `SingleThread` (one thread uses the
client), `Clean` (log entries can be read and have a time, needed by the
strategies that look for the bundle among them) and, of `NoticesSuccess` only,
`~OneTarPath` (the BMC does not give the archives of two runs the same path).
All but the last have a configuration that shows what happens without them:
`MCSessionAuth_close_race.cfg` for `RequestsOnly` and `SingleThread`,
`MCSessionAuth_first_login.cfg` for `Resumed`, `LogCollect_partial.cfg` for
`Clean`. The theorems about ETags, progress registers and dialects assume
nothing of the BMC or of `id()`: what the code cannot know in these places is
an exception that the property itself states (`HasOwnEtag`, `Misled`, `whose`).

`Managers_proofs` is about three modules that have nothing in common but that
they stand for managers; so that it can extend all three, the definitions of
`RegistryResolve` and of `FirmwareUpdate` have names of their own
(`ResolveInit`, `UpdateInit`).

`MeaningInv` is what the code's set `visited` is for. `MeansWhatItSays` is
stated with `Reached`, the least set of registries closed under references,
which the code never computes: it follows one reference at a time, to the best
of the registries that answer to it, and the documents of one MessageId may
differ. The proof needs neither the sizes of the sets nor induction along the
path: `Reached` contains what every closed set contains, and the trail of a
thread that has found a cycle is such a set.

The part on `ResourceOps` rests on the module's own assumptions about recipes, which
TLC evaluates for those of `ClientFacade`: an operation that writes goes from
one picked member to the next, through single resources and collections only,
and has no list to fall back to (`RecipesAssumption`); and every operation that
is not listed as `Forgetful` is `Candid`, which is to say that a place whose
failure it swallows is one whose result it marks (`CandidAssumption`). So an
operation that is added later has these properties as soon as its recipe
satisfies the assumptions. The list of the forgetful operations is
`MCResourceOps`'s, and it is exact: each operation on it has a recipe that is
not candid.

`BoundedExchanges`, `BoundedBackoff` and `FailedIsNotExpanded`, and the type
invariants of the modules in the table, are proved and not part of a run.

Model-checked only: `EveryCallReturns` (of `SessionAuth` and of
`ProgressCollect`), `Terminates` (of `TaskWait` and of `CollectionPaging`) and
`EveryResolutionEnds`, being liveness, which TLAPS does not reach. Every
invariant and every action property of the passing runs, and both refinements,
are proved.

## 6. Findings

One run is refuted by TLC, against the text quoted in `PROJECT.json`.

- `wrong_member` (`RightMember`): in a call without an identifier,
  `systems.get` counts the members that could be read, not those that are
  listed. When one of two systems fails to answer, a reset or a change of the
  boot source goes to the other, although "if system_id is None and there are
  multiple systems, raises an error".

The following configurations, kept beside the runs, reproduce further
disagreements between the code and what it says of itself; TLC refutes each.

Sessions:

- `MCSessionAuth_close_race.cfg` (`CloseClearsAuth`): `reset_basic_auth` does
  not take the lock, so a refresh in flight installs its session in a closed
  client.
- `MCSessionAuth_first_login.cfg` (`FirstLoginOnce`): with no key observed,
  `_refresh_session` ("once, synchronized across callers") skips its check for a
  refresh that has already happened; the first requests of two threads each log
  in, and the first session is never deleted.
- `MCSessionAuth_redundant.cfg` (`OnlyExpiredIsRefreshed`): the new key is
  visible before the new header, so a request can observe the new key, send the
  old header, and refresh a live session.

Waits and collections:

- `TaskWait_busy.cfg` (`CompletedMeansTerminal`): an error status of a single
  poll ends the wait with an error that says the operation completed.
- `TaskWait_verify.cfg` (`EveryPollRecovers`): the read that verifies a
  vanished monitor is outside the recovery policy; one lost answer ends the
  wait.
- `LogCollect_adopted.cfg` (`AdoptedInFlight`): what `find_existing_task`
  returns is waited for unless it is completed. The generic strategy returns
  the newest collection whatever its state, so one that failed before the call
  fails the call, and every later one until the BMC forgets it.
- `LogCollect_partial.cfg` (`FreshBundle`): when the entry of a collection
  cannot be read, `_latest_resulting_log_entry` hands over an older one.
- `ProgressCollect_timeout.cfg` (`FailedOnTheBmc`): the timeout of the ZTE and
  Lenovo strategies raises `LogCollectFailedError`, "raised when out-of-band
  diagnostic-data collection fails on the BMC", of a run that is still going
  on; the call takes it for a failure and starts another collection beside it.

ETags and pages:

- `MCEtagPatch_again.cfg` (`NoSpuriousConflict`): a PATCH answered without an
  ETag leaves the old one in the cache, and the generic PATCH does not read
  while something is cached, so it is refused from then on.
- `MCEtagPatch_body.cfg` (`ReadsMakeConditional`): `_store_etag` knows the
  header only; a BMC with `@odata.etag` in the body gets `If-Match: *` from the
  managers that read "so the HTTP layer has a fresh ETag"
  (`managers/chassis.py:419`).
- `MCEtagPatch_refused.cfg` (`NoLostUpdate`): the ETag of a refusal is cached
  before the refusal is raised, and makes the next attempt overwrite what it
  was refused for.
- `CollectionPaging_malformed.cfg` (`BestEffortKeepsMembers`): a malformed
  continuation page raises in best-effort mode.

Registries, updates and operations:

- `MCRegistryResolve_race.cfg` (`CacheNeverFails`): between the `get` of a
  cached document and its `move_to_end`, another thread may evict it, and
  the resolution ends with a `KeyError`.
- `MCFirmwareUpdate_recycled.cfg` (`OwnDialect`): "results are cached per
  client instance", but the key is `id(client)` and entries outlive their
  clients; a client created later at the same address gets the vendor of
  another BMC. `RightDialect`, which the run checks, is what is left of the
  promise.
- `MCFirmwareUpdate_targets.cfg` (`TargetsKept`): `simple_update` takes
  `targets` for any vendor; the strategies of Inspur, ZTE, xFusion and H3C drop
  them, and the whole BMC is updated.
- `MCResourceOps_strict.cfg` (`StrictRaises`): with
  `strict_collection_errors`, "raise the original SDK exception when a
  collection member or continuation page fails", the routes that move on after
  any error swallow it.
- `MCResourceOps_noop.cfg` (`NoOpMeansDone`): `change_boot_source` returns
  early when the target is in place, also when the mode or the persistence
  asked for differs from what is set.

Two more configurations pass, and extend a run to another instance:
`MCRegistryResolve_partial.cfg` and `MCFirmwareUpdate_threads.cfg`.

## 7. What is not modelled

- URLs, payload shapes, redaction, logging and certificate handling: no property
  here is about them.
- Field selection: data models, OEM extractors, the parsing of registry names
  and the choice of their language, the substitution of message arguments.
- GPU discovery: how representations of a device are merged by the links they
  share is left to the next step of the plan. Its reads have the fallbacks that
  `ResourceOps` models; `get_gpus` and `get_all_components_summary`, which
  combine many reads into one report, are left with it.
- In the facade: the generic POST and DELETE, which are one request each
  (`HttpSend`); `get_network_port` and `get_memory_chunk`, which pick one member
  out of an aggregation; `get_task`, whose read is in `TaskWait`; starting a log
  collection without waiting for it, and downloading one by itself.
- `VendorDetector.clear_cache`, which nothing in the library calls, and which
  would make detections start afresh.
- The username, the password and the session collection URI that
  `set_auth_token` stores next to the key: no decision tells them apart.
- Liveness under fairness of the BMC: it owes the client nothing.
