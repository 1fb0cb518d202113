# Formal models of the coupon CMS

The repository is a Strapi content management system for a multilingual coupon site (`src/src`),
with its database scripts (`src/database`), configuration (`src/config`) and a one-off migration
(`src/migration`). Paths below are relative to the repository's `src/` directory as the project's
`PROJECT.json` writes them. Most of the code answers reads or describes content types. Its core
logic is what keeps other systems consistent with content under concurrency and failure: durable
outboxes, leased workers, paid work that must not be repeated, coupon pools, edit locks, one space
of URLs. That is what is modelled here.

- [1. The system](#1-the-system)
- [2. What is modelled, and where](#2-what-is-modelled-and-where)
- [3. The runs](#3-the-runs)
- [4. Fairness](#4-fairness)
- [5. The proofs](#5-the-proofs)
- [6. Findings](#6-findings)
- [7. What is not modelled](#7-what-is-not-modelled)
- [8. Plan](#8-plan)

## 1. The system

### Components

| Component | State it keeps | Operations | What makes it correct |
|---|---|---|---|
| **ISR outbox** (`src/src/isr-outbox`) | table `isr_outbox`: payload, key, status, lease, attempts | content transactions insert or coalesce a row; dispatchers claim, post to the ISR gateway, settle, retry, merge into a newer row; retention | no committed change is forgotten; a late owner settles nothing; stored payloads can be read back; old failing rows starve nobody |
| ISR process lifecycle (`runtime.ts`) | the running dispatcher, pending sweeps | start, stop, restart; coalesced sweeps; events enqueued after the write | one dispatcher per process; a requested sweep happens |
| Invalidation scopes (`scopes.ts` and others) | none | which pages a write touches | every affected page is named |
| **Document write pipeline** (`register/document-write-middleware.ts`, `document-validation/`, `utils/*-validation.ts`) | the URL space: slugs, deal routes, redirects, standalone pages; advisory locks | locked validation, content transaction, alias redirects of a page, enqueue, purge after commit | no two live documents claim one address; redirects form no circle; a moved page takes its redirects along; change and outbox rows commit together |
| Response cache (`middlewares/cache.ts`) | per-process map with time to live | store, purge | no answer older than a purge is served after it |
| **Translation outbox** (`translation/outbox`) | table of jobs: key, dependencies, lease, status, force | coalescing insert, claim, heartbeat, retry, block, wake, clean-up | every change is translated or visibly blocked; a job forced stays forced |
| Translation backfill (`translation/backfill-run.ts`) | run rows with lease and cursor | claim, page, advance, finish | every entry of the catalogue is visited |
| Translation engine (`translate-entry.ts` and others) | field memory | prompting, validation of placeholders | output is structurally the source |
| UI dictionary (`translation/ui-dictionary`) | catalogue and translations | synchronise, translate | no stale string is published |
| **Unique coupon pools** (`plugins/unique-coupon`, `database/unique-code-integrity.js`) | tables of codes and pools: used, claim token, counters, exhaustion stamp | redeem with replay and retries, import, nightly recount and token release | a code goes to one visitor; a visitor's click spends one code; counters and stamp follow the stock |
| **Offer lifecycle** (`utils/offer-lifecycle-validation.ts`, `config/cron-tasks.ts`) | offers' `contentStatus` | five-minute scheduler, editors' saves, nightly clean-up | an offer is live exactly while it has codes and its dates allow |
| **Record locks** (`api/record-lock`) | one lock row per record, a table of cancelled leases | acquire (heartbeat, takeover), release, sweep | one editor at a time; closed tabs leave no lock |
| **Database backups** (`database-backup`) | runs with lease and phase, the bucket | claim, heartbeat, upload, finish, verify, reclaim, retention | a run recorded as succeeded has its objects; partial objects are discarded |
| **Telegram ingestion** (`telegram`) | durable offset, pending messages, media jobs, posts | poll, prepare photo, publish, retain | no message lost; one paid submission per photo; newest revision published |
| Rate limits, search, sitemap, admin UI, migrations, website refresh | small or none | reads, one-off work | see section 7 |

### Interactions

A content write runs in one database transaction that also inserts or merges the outbox rows it
causes (ISR and translation). After commit the process purges its response cache. Dispatchers of
every CMS process poll the tables; two processes share nothing but the database. The ISR gateway is
a service outside the repository: it regenerates the pages of a payload, answers with the paths it
skipped because its route registry does not know them, and de-duplicates by event key. A finished
translation is itself a content write and enqueues ISR events under a debounced key per language.
Redeeming the last code stamps its pool; the five-minute scheduler reads stamps and saves the
offers, which again is a content write. Editors hold a record lock while a form is open, renewed by
heartbeats from the browser.

### Hard behaviours

Expired leases whose owner is alive, lost answers after an effect, a row claimed while a write
merges into it, retries that meet a newer row of their key, statements that wait for a row lock and
then act on a half-old snapshot (READ COMMITTED), checks in one statement and writes in the next,
messages of one browser tab overtaking each other, crashes between any two steps, and liveness of
queues under failures. `PROJECT.json` lists each at its line under `hazards`, with the properties
that would catch it going wrong.

## 2. What is modelled, and where

| Module | Models | Composes |
|---|---|---|
| `IsrPayload` | the payload algebra of `payload.ts`: parse, bound, merge, the pages a payload covers | |
| `IsrOutbox` | `store.ts`, `dispatcher.ts`, `deleted-offer-retry.ts`: every operation on a row of the outbox, and the gateway as the outbox uses it | `IsrPayload` |
| `IsrDelivery` | abstract specification without rows, leases or dispatchers: a changed page stays promised until it has been handed over after the change | implemented by `IsrOutbox` |
| `IsrIdempotency` | the gateway's de-duplication by delivery key | `IsrOutbox` |
| `TranslationOutbox` | `translation/outbox/store.ts`, `dispatcher.ts`, the publication fence, and the parts of `translate-entry.ts` and of the write middleware that decide what is written and what is enqueued | |
| `UniqueCoupon` | `redeem-code.ts`, `unique-coupon-sql.ts`, `import-codes.ts`, recount and token release of `unique-code-integrity.js` | |
| `CodeDispenser` | abstract specification without statements, locks or retries: a shelf of codes, each request served in one step | implemented by `UniqueCoupon` |
| `UniqueOffers` | offers that follow a pool: scheduler and editors' saves | `UniqueCoupon` |
| `RecordLock` | `record-lock.ts`: acquire and release, statement by statement | |
| `EditLease` | abstract specification without rows, tombstones or a clock: whose tab may write, how another tab may come to, when the entry is free again | implemented by `RecordLock` |
| `DatabaseBackup` | `database-backup`: queue, worker, upload, finish, discard, reclaim, verification, retention | |
| `TelegramIngest` | `telegram`: polling, pending messages, the media worker and its paid service, publication | |
| `ChannelMirror` | abstract specification without processes, leases, rows in stages or retries: one reader of the channel who shows, stores and pays | implemented by `TelegramIngest` |
| `RouteTable` | the validators of entities, redirects, standalone pages and jobs, as operators over a table of documents | |
| `UrlSpace` | abstract specification without locks, transactions or nested saves: each save is one step, accepted against the content it changes | `RouteTable`; implemented by `RouteWrites` |
| `RouteWrites` | the locked phase of a save, its transaction, the nested saves of a page's alias redirects, deletions | `UrlSpace` |
| `IsrOutbox_proofs`, `TranslationOutbox_proofs`, `UniqueCoupon_proofs`, `UniqueOffers_proofs`, `RecordLock_proofs`, `DatabaseBackup_proofs`, `TelegramIngest_proofs`, `RouteWrites_proofs` | theorems | their module |
| `MC...` | instances for TLC | |

The modules share conventions. A *history variable* (`unsent`, `owed`, `drawnBy`, `forsaken`,
`stranded`, `credit`) is read by properties only. `worker`, `process`, `job`, `request`, `call` hold
what code remembers across its awaits: a copy, which the table may contradict by the time it is
used. Statements of one transaction are one action, unless another transaction can commit between
them.

### ISR outbox

`row[i]` is the row in slot `i`: its status, coalescing key, payload, whether this release can parse
it, lock token, attempts, last error, whether its debounce is past its age limit and whether its
lease has run out. `ahead[i]` is the order of `next_attempt_at`, kept as the set of rows due no
later than `i` instead of a clock, so that no time bound exists. `worker[w]` is what dispatcher `w`
remembers between its awaits: a *copy* of the claimed row, which the table may contradict by the
time it is used. `routes` is the set of pages content admits, `known` the gateway's registry of
them, and `unsent` a history variable: the pages changed since they were last handed to the gateway.

| Action | Code |
|---|---|
| `InsertRow`, `MergeIntoPending` | `insertIsrOutboxEvent` in a content transaction under the key's advisory lock |
| `BecomeDue`, `Age`, `LeaseExpires` | the clock reaches `next_attempt_at`, the debounce limit, `locked_at` plus the lease |
| `Claim`, `ClaimUnreadable` | `claim` with the deletion repair; a row that does not parse |
| `PostAccepted`, `PostSkipped`, `PostRejected`, `PostFailed` | `deliverOutboxEvent`: 2xx, 2xx with skipped paths, client error, anything else, after any part took effect |
| `MarkDelivered`, `MarkDeliveredThrows` | the guarded delivery UPDATE; its failure |
| `FailManual`, `ReturnToPending`, `MergeIntoNewer`, `RetryThrows` | the branches of `scheduleRetry`; the newer row cannot take the failed payload |
| `Crash`, `Purge` | process death; `deleteDeliveredBefore` |

Each store method is one action because it is one transaction under an advisory lock or one guarded
UPDATE. What lies between two awaits of the dispatcher is interleaved with everything else. The key
`NoKey` stands for events with a fresh UUID, `DebouncedKeys` for `translation-isr:<locale>`,
`DelayedKeys` for the feed page key. Of the bytes of a payload each path and each offer named for the
gateway to look up (`offerInvalidations`) counts one: a full invalidation drops the paths and keeps
the offers, so offers alone may exceed the limit. A write whose offers do not fit beside those of the
pending row of its key then fails, and so does the retry that meets such a row: it leaves its own row
processing until the lease lapses and tries again. The gateway's HTTP contract is external: it is modelled by what
`dispatcher.ts` sends and reads.

### Unique coupons and their offers

`code[c]` is a committed row of `unique_codes`, `pool[p]` of `unique_coupon_pools`; `request[r]` is
where a call of `redeemCode` stands, `import[p]` the codes an import holding the pool's row lock
brings, `recount` the nightly job and `drawnBy` a history variable. Every SQL statement that can
wait for a row lock is split in two, its snapshot and its write, with READ COMMITTED semantics: what
it waited for is re-read, other tables are not. A claim (`ClaimRow`, then `ClaimCommits`,
`ClaimConflicts` or `ClaimAnswerLost`) uses SKIP LOCKED and the unique index on the claim token; a
marking (`MarkBegins`, `MarkEnds`) waits for the pool row. A pool that never held a code is stamped
by redemption and left alone by the recount, as in the code; `Recounted` keeps that case.

`CodeDispenser` says what a visitor may rely on. A code is on a pool's shelf until it is issued, once;
an activation that was issued a code is shown it again as long as its token lives (`Showable`), and
is issued another only if there is nothing it can be shown; a request is turned away as empty, and a
pool marked as sold out, only by somebody who found the shelf empty; the recount marks only pools
that are empty (`Review`). Its variables are functions of the concrete ones: a code taken by a claim
that has not committed is still on the shelf (`Shelf`), a code whose replay window is over is expired
(`Late`), and a request that found nothing to claim is dry until it answers, tries again or fails
(`Dry`).

`UniqueOffers` adds, for one offer per pool, two savers with a slot each, the scheduler and an
editor. Each reads the stored row and the pool (`SchedulerSelects`, `BeginSave`) and later commits
the status computed from that reading (`SaveCommits`) or fails. A save whose payload has the pool is
not asked whether it is exhausted, and publishes the offer (`offer-lifecycle-validation.ts:161-171`);
any editor's save may be one, and whatever it attaches, the offer stays with its pool.

### Record locks

`lock` is the lock row of one entry, `tomb[l]` the cancellation a release of lease `l` wrote,
`tab[l]` the edit view that owns the lease, `call[c]` an acquire between its statements, and `clock`
a small number because expiries are compared with it. `Begin` (the arrival and the sweep of both
tables), `Check`, `Read`, `Update`, `Create`, `FinishAcquire` and `Undo` are the awaits of
`acquire`, and `Update` is three statements of the database layer; `Release` and `ReleaseRow` those of `release`. Requests of every tab may be at any
statement, a heartbeat may stall until after its tab's release, and any statement may be the last
one a process or a browser executes (`AcquireFails`, `ReleaseFails`). A new row takes an id that no
request in flight remembers (`NewIds`): code only compares ids, so an id forgotten by everybody is as
good as one from a sequence that never repeats.

`EditLease` is what editors rely on: who asks (`Ask`) may take a free entry, and one that is held
only if it found, since the entry was last free, that it may have it (`Look`, `Take`): the holder was
itself, or one whose time was over, or another tab of its own administrator on an explicit takeover.
It is deliberately not stronger: the holder may have renewed since, or be another tab by now, and the
code takes the entry all the same (section 6).

The database layer is external. Its `db.query(...).update` selects a row by the `where` it is given
(`UpdateSelects`), updates the row of that *id* (`UpdateWrites`) and reads that id again to answer
(`UpdateAnswers`), each by itself, so what the `where` says of holder and lease is not
tested by the write. Its `deleteMany` is one statement.

### Translation outbox

`english[d]` is the default-locale entry of document `d` (with a `version` that counts its writes,
deletions included, and a text), `locale[d]` its row in the one target language with the relation
targets it links, `memory[d]` the text that `translation_state` remembers a translation of. `row[i]`
is the outbox row with id `i`: ids are handed out in increasing order, because the code picks the
latest row of a key by id. `Requires` are targets without which a document may not be published,
`Curates` those it may be published without. A dispatcher reads the entry (`Load`), rechecks its row
after the provider's answer (`Recheck`), compares with the published row (`Decide`) and publishes in
two steps, `OpenPublication` with the fence of the transaction and `CommitPublication`, between
which everything else happens that does not need a row the transaction has locked. Settling is a
guarded UPDATE (`MarkDelivered`, `MarkFailed`, `MarkBlocked`), followed for a blocked row by its own
recheck (`SelfEnqueue`). Retries merge (`Supersede`) or go back (`ReturnToPending`); the minute's
reconciliation reads blocked rows (`ReadReady`) and wakes them later (`WakeReady`). Editors save,
delete, translate by hand, sweep and force (`Editors`); a `Crash` forgets what the dispatcher held,
a `LeaseExpires` may hit a live one.

The history `owed` holds the documents whose last English write nothing has reflected: a write puts
the document in, the commit that reflects it takes it out, and so does a permanent failure if the
worker that gives up had read that very write and no later job of the key is pending (`GivenUp`).

### Database backups

`row[i]` is the run in slot `i`, `older[i]` the successes that started before it, `stored` the
archives in the bucket. Run tokens and object names are fresh per claim, so the number of the
attempt stands for both. `job[w]` is where worker `w` stands with the run and attempt it claimed;
`tick[t]` is the half-minute tick that found a stale run and asks the bucket before it hands the run
back (`FindStale`, `Inspect`, `HandBack`, `ReconcileSucceeded`). Time is not modelled: a run whose
worker lives may be found stale at any step, which covers every length of a stall. The client's
upload and the bucket's commit are separate (`ObjectCommits`, `UploadReturns`, `UploadThrows`), so
that an object may exist whose upload "failed". `Erase` is the deletion of objects after a failure,
decided by a read (`Reread`) that may be outdated. Retention and the administrator decide deletions
(`RetentionDecides`, `AdminDeletes`), remove the object and mark the row in three steps. `forsaken`
are the archives somebody entitled to decided to erase; `stranded` those whose worker died at a
point the reclaim does not look for (its row was already handed on).

### Telegram ingestion

`updates` is the channel's sequence of posts and edits of messages, `offset` the durable
`updateOffset`, `row[m]` and `post[m]` the pending row and the public post of message `m`, `files`
the media library. An update is a number and so is its photo. Each process polls under one lease and
does media work under another; leases lapse while their holders live. A transaction is one action,
but for `savePendingMessages`, whose look-up (`SaveOpens`) takes no lock: its write and the offset
commit later (`SaveCommits`). The media worker walks through `LookUp`, `BeginSubmission`,
`SubmitAccepted` or `SubmitFails`, `RecordRequest`, `Upload`, `Publish` and the removal of the
retired photo, and may break off, fail or die at each. The history `credit[k]` counts the paid
submissions of the photo of update `k` that are still allowed: one, and one more for each
administrator's retry of what may have been submitted already.

`ChannelMirror` is what one careful reader of the channel would do: read the updates in order, hold
of each message the newest until it is shown, show it with a photo that is stored, remove photos that
were replaced and are not shown, pay for a photo once and again after consent. `held[m]` is
`row[m].update`, `shown` is `post`; leases, stages and processes have no counterpart. The reader may
miss an edit of a message that is shown and not held: that is the gap of `telegram_edits`, and no
other is allowed.

### Document writes and the URL space

`RouteTable` holds the validators: what of entities, redirects, pages and jobs collides with what,
when a check is skipped because a field did not change, the walk along a chain of redirects, and the
rule by which a managed alias may be activated again. `Clashes(t)` is the reference: the pairs of
live documents that claim one address, one name, one template or one job path. It is stated from
what the frontend would serve, and the validators are compared with it through the runs and the
proofs.

`UrlSpace` names a request (`Menu`), which validators judge it (`Refuses`) and what the content
promises: `SaveDocument` writes one row that all of them accept against the content it changes,
`SavePage` writes a standalone page and, in the same step, whatever becomes of the redirects it
manages (`MayBecome`: taken along, retired, left alone, or the new alias). Nothing keeps a page from
having a second document: a create makes sure of a new document id only (`IsFresh`). Then the
redirects follow the one the code finds, and `SavePage` leaves them open (`alone`). A clone is accepted as a
copy of the document it names, or of any row of its kind if that document has been deleted since:
the transaction reads it before it commits and nothing locks it.

`RouteWrites` puts two or more saves around them. A save takes its advisory locks, in the three
domains identity, redirect and job (`TakeLock`), validates the row it *would* write against the
committed table (`Validate`), writes in its transaction (`Write`) and, for a standalone page, saves
the page's redirects one by one inside it (`ReadOwned`, `Retire`, `Retarget`, `CreateAlias`), each
with the nested save's own lock and validation. `View(w)` is the committed table with the
transaction's own writes on top (READ COMMITTED). `Commit` publishes them and releases the locks,
`Abort` is any failure. Deletions take no lock and happen between any two steps. The locks of
`redirect` saves include the identity domain. The Content Manager looks for the document of a single
type before it asks for a create, so before any lock (`IsAsked`, external): two first saves of a page
that overlap both create, and from then on `findFirst` may return either. The validators are modelled
as sure of an address only if every document of the page has it (`SurelyAt`), the redirects of a save
follow any of them (`Found`, `owner`), and `twinned` remembers which pages have ever stood beside
another document of theirs. `LegacyTables` are the tables a site may start with:
the migration leaves entities that clash.

## 3. The runs

| Run | Question | Bounds and why they are enough |
|---|---|---|
| `isr_lease` | with competing dispatchers, expiring leases, crashes and lost answers: is a change forgotten, settled by the wrong owner, or lost in a merge? and does the outbox implement `IsrDelivery`? | 2 rows, 2 dispatchers, 1 key, 2 pages, 2 offers, payloads of at most 1 path and 1 byte: a claimed row beside a newer pending row, a write and a merge that cross either limit, a union whose offers alone exceed it, a late owner and a new one are all reached. A second key would add only independent rows |
| `isr_live` | is every change handed over although older rows keep failing and a wave never stops, does a deletion whose answer was lost converge, does a manual refresh end when the gateway never accepts, does a page that exists stay required? | 2 rows, 1 dispatcher; an unkeyed offer, a debounced key and a manual key; 2 manual attempts: a refresh is retried, and merged into the next one asked for meanwhile, before it fails |
| `isr_idempotency` | *finding* | the smallest instance with a retry and a merge |
| `translation` | is an English write ever forgotten, reflected by an older text or settled by a dispatcher without the lease; do two documents that name each other wake each other without end or wait for ever? | a store and a coupon, each the other's target; 2 dispatchers; three scenarios (nothing, one, both translated); 2 acts of editors or sweeps, 1 fault (an error, a crash or a lapsed lease), 8 ids, of which `NoWakeStorm` shows the last is never needed |
| `coupon_redeem` | is a code issued twice, does an activation spend two codes, is a twin told the pool is empty? do the pools implement `CodeDispenser`? | 3 requests, two of one activation and one without, 2 codes, 2 attempts: a race for the last code with a lost answer and a retry |
| `coupon_offers` | do counters and offers follow the stock whatever restock, recount, scheduler and editors do? | 1 pool, 2 codes (one restocked), 2 requests, 2 savers |
| `coupon_stamp` | *finding* | the smallest instance with a restock |
| `lock_tabs` | does a closed tab leave a lock behind? does all that happens to the row keep to `EditLease`? | 2 tabs of one admin, 2 requests in flight, clock 0..3 with a time to live of 1, 2 attempts, 3 row ids (one more than two requests can remember): a renewal, an expiry, a takeover and a retry fit in |
| `backup` | does a reported success have its archive, is an archive ever lost from sight, does every run end? | 1 run slot, 2 workers, 1 tick, 2 attempts: a dead or late first worker, the tick that hands its run back and the second attempt overlap; `MinimumKept` 0 lets retention take the only success |
| `telegram` | is a photo paid for twice, an acknowledged message lost, a published photo removed, an older revision published? is the channel shown as one reader would show it? | 1 message posted and edited (2 updates), 2 processes, 2 attempts, 1 administrator's retry: two holders of each lease and both revisions overlap |
| `telegram_edits` | *finding* | the same instance |
| `routes` | can two saves together make a clash or a circle of redirects, lose the redirects of a moved page, or wait on each other? is the content always what the saves, made one after the other, would have left? | a store, a bank, 2 redirects, 3 page documents, two of them of one page, 2 jobs, at most 3 of all at once (`FewDocuments`), 2 saves, chains of at most 2 hops, an empty site and one with a legacy clash. Every clash is between two documents, a circle with a page's rename needs two redirects and the page |

`CHECK_DEADLOCK FALSE` appears where nothing may be left to do: `lock_tabs` (every tab closed, the
clock at its bound), the two Telegram runs (every update acknowledged and published) and
`translation` (the editors' acts used up and every row settled). Symmetry is used in safety runs
over interchangeable rows, dispatchers, codes, twin requests, calls, tabs, processes, redirects and
writers, never in a run with a liveness property.

Bounds that exist only in the models: the slots `Ids` of the ISR outbox (a full table refuses
inserts; the liveness run shows it drains) and the counting of `attempts` for manual commands only
(of other rows it decides only the length of a backoff); `MaxJobs`, `MaxEdits`, `MaxFaults` of the
translation outbox; `MaxClock` and `RowIds` in `RecordLock`; `MaxUpdates` and `MaxRetries` (administrators') in
`TelegramIngest`; `FewDocuments` in `MCRouteWrites`. `MaxPaths`, `ManualLimit`, `ReconcileLimit`,
`MaxRetries` of a redemption, `LockTtl`, `MaxAttempts`, `MinimumKept`, `MaxHops` and `MaxActive` are
constants of the code with small values; `MaxActive` is too large to be reached by three documents.

What the properties say (type invariants apart, which some runs check and section 5 proves for all):

- `NothingForgotten`: each page changed and not handed over since is in the payload of an
  undelivered row, which no acknowledgement in flight can settle. This is the central property of
  the ISR outbox; it fails if a claimed row may absorb writes, if a delivery is settled by id, or if
  a retry retires without merging.
- `StoredPayloadsParse`, `OnePendingPerKey`, `OnlyTheLeaseSettles`, `SupersededIsCarried`,
  `RequirementsSurvive`, `RetryCanMerge`: what merging, bounding, superseding and late reports may
  not do.
- `ImplementsDelivery`: with `owed <- unsent` and `promised <- Promised` (the pages of undelivered
  rows), every step of the outbox is a step of `IsrDelivery` or leaves it alone.
- `EveryChangeIsHandedOver`, `DeletionConverges`, `ManualRefreshEnds`: liveness. The last has two
  parts: no row of a manual refresh stays for ever, and of refreshes that follow each other without a
  pause some end as delivered or failed, again and again, so that none lives on by passing from row
  to row. It fails if a merge forgets the attempts already made.
- `NoWriteForgotten`: a document in `owed` has a job that will run, or its latest row is blocked on
  a target. `EveryWriteIsReflected` is its liveness: the job ends in a reflected write unless the
  target is never translated. `EveryParentIsWoken`: a parent does not wait for ever for a target
  that exists. Both except a row behind a window full of older rows that wait for missing targets
  (`Starved`): the run has a window of one row, so that rows beyond it exist, among them ready ones
  behind repaired and behind unready ones; section 6 says what the code does with the latter.
  `NoWakeStorm`: documents that name each other stop waking each other.
  `LocaleNeverRegresses`: the fence; a translation of the current text is never replaced by one of
  another text.
- `NeverIssuedTwice`, `OneCodePerActivation`, `TwinsAreNotToldEmpty`: a code goes to one visitor, an
  activation spends one code while its claims can be replayed, and the loser of a race for the last
  code gets its twin's code and not "empty". `ImplementsDispenser`: every step of the pools is a step
  of `CodeDispenser` or changes nothing a visitor could notice, so requests, imports and recounts
  that overlap serve as if each had happened at one moment.
- `CountersMatch`, `OffersFollowStock`: counters follow the stock; offers are, again and
  again, expired when the pool is drained and live when it is stocked, and stay so once editors no
  longer save the pool along with the offer. Without that condition they need not: each such save
  publishes the offer of a drained pool until the scheduler's next pass.
- `NoOrphanLock`: a closed tab whose requests have all ended holds nothing, as long as no request of
  it broke off halfway and its cancellation is in force. `ImplementsEditLease`: a tab loses its
  entry only to a request that found, since the entry was last free, that it may have it, and a row
  disappears only when its time is over or its tab is closed. It fails, for instance, if a tab of the
  same administrator is let through without asking for a takeover.
- `SucceededIsStored`: a reported success has its archive, however late or dead its worker.
  `NothingStranded`: whatever is in the bucket is named by its row or in the hands of its worker.
  `EveryRunEnds`: no run stays queued or running, so the next can be queued. `RetentionKeepsNewest`
  (proved, not run: with `MinimumKept` 0 it says nothing): retention leaves the newest successes.
- `PaidOnce`, `PublishedPhotoIsStored`, `AcknowledgedIsHeld`, `NeverRegresses`: no photo is
  submitted again without consent; no clean-up removes a photo the site shows; what was acknowledged
  to Telegram has a row or a post; neither offset nor posts go back. `ImplementsMirror`: every step of
  the pipeline is a step of `ChannelMirror` or is not seen. It fails, for instance, if the row of an
  edited message keeps the photo of the older revision.
- `NoNewClash`, `NoRedirectLoop`, `AliasesFollowThePage`, `NoLockCycle`: no save adds a clash to the
  committed table, except with a standalone page of which there are two documents (`Excused`); active
  redirects form no circle; after a page moved, its redirects lead to it or are inactive and its old
  address forwards, if the page never had a second document and unless one that had is at that
  address; saves do not wait on each other. `SiteSpec`: with the
  same `table`, every step of `RouteWrites` is a step of `UrlSpace` or leaves the content alone, so
  overlapping saves are serializable and a page's save is atomic with its redirects.

Each property of a passing run has a mutant in `PROJECT.json`: a definition changed the way a
plausible bug would change it (a deviation named in the module, defined just before the definition
it replaces), under which the property fails.

## 4. Fairness

*ISR.* `Scheduling`: timers fire and leases run out (WF per row), the dispatcher polls every few
seconds (`dispatcher.ts:276-287`) and goes on with what it has begun (WF per dispatcher).
`OutagesEnd`: processes die finitely often; and of a row that is offered again and again (retries of
rows other than manual commands are unbounded) the gateway answers 2xx for each of its pages at
least once and the database confirms the delivery at least once (SF). A retry that throws is no
death and may recur. Of a manual refresh the first
is not assumed: the gateway may refuse it for ever.

*Translation.* A dispatcher that can claim, go on or defer does so (WF of `Work`); leases nobody
holds lapse, rows become due, the reconciliation runs every minute (WF). Faults are bounded by
`MaxFaults`; editors and sweeps owe nothing.

*Coupons.* Requests and imports end. The recount locks, counts and commits again and again: it runs
every night and its lock and statement timeouts make its failures finite obstacles (SF). The
scheduler selects and saves again and again, every five minutes (SF); an editor's save in progress
commits or fails (WF). Nothing makes a visitor redeem or an editor import or save.

*Backups.* A worker goes on, times out or dies (WF of `Progress`). The ticks recur every half
minute: a queued run is claimed, a running one nobody works on is found stale, and of repeated
attempts the bucket answers one and the table accepts one (SF of `Claim`, `FindStale`, `Inspect` and
the hand-back). Nothing is assumed of uploads, heartbeats or the deletion of objects.

*Locks, Telegram, routes.* Safety only. A browser owes nobody a heartbeat or a release, and an
orphaned row is bounded by its expiry; a Telegram row may legitimately end blocked until an
administrator acts; a save is free to fail.

## 5. The proofs

TLAPS checks the following for every value of the constants that meets the modules' assumptions.

| Module | Theorems | Statement |
|---|---|---|
| `IsrOutbox_proofs` | `TypeCorrect`, `StoredPayloadsAlwaysParse`, `PendingKeysAreUnique`, `NoChangeIsForgotten`, `RetriesCanMerge` | the invariants of the outbox |
| | `LateReportsSettleNothing`, `SupersessionLosesNothing`, `RequirementsAreKept` | its action properties |
| | `OutboxImplementsDelivery` | the refinement (safety part) |
| `TranslationOutbox_proofs` | `TypeCorrect`, `OnePendingCorrect`, `SettlementCorrect`, `LocaleCorrect` | types, `OnePendingPerKey`, `OnlyTheLeaseSettles`, `LocaleNeverRegresses` |
| | `WritesAreRemembered` | `NoWriteForgotten`, as long as `InOrder` |
| `UniqueCoupon_proofs` | `CouponTypeCorrect`, `NoCodeIsIssuedTwice`, `AnActivationSpendsOneCode`, `TwinsGetTheLastCode`, `CountersNeverLag` | the pools |
| | `CodesAreDispensed` | the refinement `ImplementsDispenser` |
| `UniqueOffers_proofs` | `OffersKeepThePools`, `OffersTypeCorrect`, `OfferCountersNeverLag` | the composition implements the pools; its types; the counters beside the offers |
| `RecordLock_proofs` | `LockTypeCorrect`, `ClosedTabsHoldNothing` | types, `NoOrphanLock` |
| | `LocksAreLeased` | the refinement `ImplementsEditLease` |
| `DatabaseBackup_proofs` | `TypeCorrect`, `SuccessCorrect`, `SightCorrect`, `RetentionCorrect` | types, `SucceededIsStored`, `NothingStranded`, `RetentionKeepsNewest` |
| `TelegramIngest_proofs` | `Inductive`, `TypeCorrect`, `PaidAtMostOnce`, `PublishedPhotosAreStored`, `NothingAcknowledgedIsLost`, `NothingRegresses` | types, `PaidOnce`, `PublishedPhotoIsStored`, `AcknowledgedIsHeld`, `NeverRegresses` |
| | `ChannelIsMirrored` | the refinement `ImplementsMirror` |
| `RouteWrites_proofs` | `Inductive`, `TypeCorrect`, `WaitsEnd`, `NoLoopEver`, `NothingClashes`, `AliasesFollow`, `SavesAreSerial` | types, `NoLockCycle`, `NoRedirectLoop`, `NoNewClash`, `AliasesFollowThePage`, the refinement `SiteSpec` |

The inductive invariants were checked by TLC on the instances of section 3 before they were proved.

*ISR outbox.* The inductive invariant is `TypeOK`, `PayloadsSound`, `EventIsTheRow`,
`OnePendingPerKey` and `NothingForgotten`. `NothingForgotten` alone is not inductive: that a merge
keeps every page needs payloads that can be merged and bounded (`PayloadsSound`, with lemmas about
`Merge` and `Bound`), and that an acknowledgement removes the right pages needs the dispatcher's
copy to be the row it still owns (`EventIsTheRow`). `RetriesCanMerge` adds `KeysSound` (all payloads
under a key, in rows and in dispatchers' hands, are of the kind and language of the key's writes)
and `LegacyIsAlone` (beside a row of an older release that does not parse, nothing of its key is
queued until it has been claimed); a manual refresh is never too
large because no union of its key exceeds the one write of that key. `RequirementsAreKept` adds `SkippedAreGone`: a path a row or a
dispatcher remembers as skipped has no route, and routes only disappear, so the deletion repair
demotes only pages that are gone.

*Translation outbox.* Most conjuncts follow from a summary of what any step may do to a row and to a
dispatcher (`Effects`): inserts are fresh and merge into pending rows only, a row is released only
by its token. `LocaleCorrect` adds that whoever reads the current version of an entry holds its
current text (`FencedText`). `WritesAreRemembered` adds `EachIsCarried`: of a document in `owed` the
*latest* row is pending, blocked, or processed by an owner who has read the current entry or has yet
to read it. The theorem has the hypothesis `[]InOrder`: a pending row is the latest of its key. It
is not implied by the code, see section 6; states with and without it are both reachable, and the
run checks `NoWriteForgotten` without it for one fault.

*Pools.* Three layers. `IInv` says that an uncommitted claim is exclusive, that a token on a code
names the activation that drew it and that an answered code was drawn by the request or a twin;
`NeverIssuedTwice` follows. `DrawInv` adds that a draw which can still be replayed carries its
token, that tokens are unique, and that a request which lost its token conflicted with a winner or
cannot be replayed; hence one code per activation, and the last replay finds the twin's code.
`CountInv` adds that the recount and an import exclude each other and that what the recount read is
still the number of codes and at most the number used when it writes; cardinalities come from the
library's theorems about finite sets. `CodesAreDispensed` needs all three and one more fact,
`LateIsUsed` (only used codes are past their replay window): `IInv` gives that a claim that commits takes a code that
is still on the shelf, `DrawInv` that whoever is issued a code has nothing it can be shown, and
`CountInv` that the recount marks empty pools only. `OffersKeepThePools` maps every step of the composition to a
step of the pools or a stutter, so these results hold beside the offers.

*Locks.* `TypeOK`, `OpenIsUncancelled` and `SomebodyCleansUp`: whenever the row belongs to a
released lease, a request or the release itself still has the step ahead that removes it.
`LocksAreLeased` takes one step at a time under `LeaseInv`: an idle request remembers nothing
(`IdleIsBlank`), no request is ahead of the clock, so what a sweep or a triage judges over is over
(`NowIsPast`), what is undone was written for a closed tab (`UndoneHasLeft`), and an update goes on
with the row it selected (`PutIsSeen`). What the others found stays valid as long as the row keeps its
id, and goes with the row, because an insert never takes an id that is remembered.

*Backups.* `Shape` is typing and bookkeeping. `StoreInv` says that an upload that returned is in the
bucket, that what a worker erases or a deletion removes is `forsaken`, and that a tick that found an
archive found one. `CountInv`: two workers never hold one attempt and every archive was made by an
attempt already counted, so a claim mints a name nothing has. `SightInv`: whatever archive exists is
known to its row, its worker or the reclaim that will look for it, and a worker that settles leaves
nothing in the bucket that only it knows of. The proof of `RetentionCorrect` counts: the set of
newer kept successes only grows while a deletion lasts.

*Telegram.* `Shape`; `ChannelInv` (rows and posts tell acknowledged updates of their message; a
photo that was replaced does not come back, so that `Past` photos are nobody's); `FileInv` (what a
post, a row or a running upload names is in the library); `PayInv`. `PaidOnce` says only that
`credit` is not negative, which is not inductive: `CreditIsKept` says that the credit of a photo
covers every submission that may still be made of it, and `StagesTell` and `JobsAgree` tie what a
job remembers to its row for as long as it owns it, so that at most one of them may pay.
`ChannelIsMirrored` takes one step at a time and needs every layer: that a save reads the next
update and what it does not write was shown (`SaversHold`, `SeenIsHeld`), that a publication shows
what is held with a stored photo (`RowsTell`, `UploadIsStored`), that what is removed is past
(`GoneIsPast`, `HeldRowIsLive`), and that what is submitted is paid for (`CreditIsKept`).

*Routes.* Eight layers. `Shape`; `LocksInv` (which locks a save holds at each step); `RowsInv` (what
it wrote is a document of its own lock domain, shaped like its schema); `GraphInv`; `ClashInv`;
`FollowInv`; `Finite`; `SerialInv`. `NoLoopEver`: the validator rejects an edit by walking from the edge being written;
`GraphInv` says that the committed table, each save's view and each *validated but unwritten* table
have no closed set of active redirects. Deletions only cut edges, and saves do not disturb each
other because whoever writes a redirect holds the identity lock. `NothingClashes`: a view clashes
only where the committed table does, but between a moved page and redirects still in `todo`, and
with pages that have two documents (`Aside`), for which the first three layers and `Finite` hold alike.
`AliasesFollow`: how far `todo` has come, that the old address is free of other documents
(`OldAddressFree`, which rests on `ClashInv`), and which redirect is to lead from it (`Trail`).
`WaitsEnd`: identity is taken before redirect by nested saves as well. `SavesAreSerial`: between
validation and commit other writers of the domain are locked out, but deletions are not, and writers
of other domains are not. `SerialInv` says that the verdict survives them: the table a save was
validated against differs from the committed one by deletions and rows no validator of its kind
reads, the validators are monotone in deletions (for the limits on the length and number of
redirects this counts, which takes `Finite`), and each redirect of a page in hand stands where
`MayBecome` lets it stand.

*Assumptions on constants.* Those of the callers: what a content write enqueues parses, and writers
of one ISR key agree on kind and language; the key of a manual refresh is the hash of its payload
(`ManualAssumption`, `refresh-request.ts:43`); the relations of the translated documents and the
scenarios are well formed; `Runs` and `Processes` are finite, row ids (`RowIds`) and bounds are natural numbers (`MaxHops` and `MaxActive` among
them). Those
of the data: every document has a kind (`KindsOfDocs`), the markers for "no row", "external target",
"no holder" are no rows, paths or writers, a menu holds requests, a page's path folds to its route
(`PathsOfPages`), and the site starts with documents of the right shape and no redirects or pages
(`LegacyIsContent`: the migration fills entities and jobs). TLC evaluates all of them in the runs.

Only model-checked: liveness, which is out of the prover's reach (`EveryChangeIsHandedOver`,
`DeletionConverges`, `ManualRefreshEnds`, `EveryWriteIsReflected`, `EveryParentIsWoken`,
`EveryRunEnds`, `OffersFollowStock`); `NoWakeStorm`, whose bound is a number of the instance;
`NoWriteForgotten` without `InOrder`; and the three findings.

## 6. Findings

Each of these is a run that TLC finds violated, with the quoted text in `PROJECT.json`.

- `isr_idempotency` - a row that goes back to pending after an accepted but unanswered request keeps
  its `delivery_key` and may absorb a later write of its key; a gateway that de-duplicates by that
  key, as the code says it does, drops the later write.
- `coupon_stamp` - the comment on the exhaustion stamp says the statement re-evaluates NOT EXISTS
  after waiting for an import; in READ COMMITTED it re-reads the pool row only, so a restocked pool
  is stamped until the next recount or import.
- `telegram_edits` - an edit saved while another process publishes the message updates a row that is
  gone, and is acknowledged to Telegram all the same.

Disagreements the models show that have no run of their own:

- *Translation.* A retry may put an older row back to pending behind a newer row of its key that is
  already claimed (`store.ts:636`). If the older row then blocks on a required target it is not the
  latest of its key, so the wake-up (`store.ts:87-94`), the worker's own recheck and the
  reconciliation (`store.ts:566-575`) all pass it over, and clean-up deletes it, against the comment
  at `store.ts:516-518`. It takes a sweep's row, an edit and three faults; hence `InOrder` in
  `WritesAreRemembered`.
- *Translation, again.* The reconciliation, "bounded recovery net for a transient failure between
  blocking a parent and enqueueing its wakeup" (`store.ts:558-562`), reads the oldest 100 waiting
  rows every minute and never moves on. When those wait for targets that are missing, a parent
  behind them whose wake-up was lost stays blocked although its target is there, until the target's
  locale row is written again or a sweep selects the document. `Starved` is exactly this case.
- *Record locks.* The comment on the guarded update says "a concurrent takeover cannot be overwritten
  unnoticed" (`record-lock.ts:221-223`) and the one above it "another admin's lock is never stealable"
  (`record-lock.ts:213`). The layer selects by the guard and updates by id: two requests that select
  the same lapsed row both write it, both re-read it and are both told they have it, until one of
  them renews. The guard does not test the expiry either, so a heartbeat that renews a lapsed row in
  between is overrun. `EditLease` therefore promises no more than that whoever takes the entry had
  found it to be had.
- *Backups.* A worker that lost its lease reads its row and erases its archive in two steps, between
  which the reclaim may record that archive (`execute-run.ts:190`); a row that cannot be read counts
  as not succeeded (`execute-run.ts:192`); the guard of `handBackStaleRun` is the token alone, which
  a resumed heartbeat does not change (`store.ts:118`); an archive committed after the reclaim
  looked for it, whose worker then dies, is known to nobody (`reclaim.ts:55`); the settlement of a
  verification has no token (`store.ts:335`). `forsaken` and `stranded` are exactly these
  exemptions.
- *Standalone pages.* Two first saves of the Subscription or the Join Telegram page that overlap
  leave two documents of it: the locked validators look for conflicts with other pages, entities and
  redirects (`telegram-route-validation.ts:34-61`, `subscription-route-validation.ts:26-49`), never
  for a document of the same page, and the code reads such a page by `findFirst`. The two may even
  have one address. `Excused`, `Aside` and `twinned` are exactly these pages.
- *Redirects and entities.* A comment says that a redirect "is legal today and starts shadowing a real
  page the moment somebody creates a category with that slug" (`redirect-validation.ts:53-55`), another
  that "entities created AFTER a rule is authored can still shadow at the gateway" (`:231-232`). Since
  `validateIdentity` looks for active redirects at the entity's address and at its deal page's
  (`identity-validation.ts:230`, `:293-325`, `identity-validation.test.ts:540`), creating such an entity is
  refused; what remains are pairs that existed before and are not touched (`Clashes` of the legacy
  tables). `NoNewClash` is what the code does, not what these comments say.
- *Routes.* The walk that enforces `REDIRECT_MAX_HOPS` starts at the edge being written, so a
  redirect added downstream, or a page's rename, lengthens the chains that lead into it past the
  limit; and a chain whose last target is external may have one hop more (`redirect-graph.ts:13-17`,
  `:105`).

## 7. What is not modelled

- *Offers.* Statuses that depend on dates, an offer that changes its pool or type, curated relations and the nightly sweep.
- *Coupons.* Writes to code rows outside the redemption services (editors, the bootstrap's repair of
  duplicates, database triggers).
- *Translation.* Enabling a language, the eligibility of expired offers, UI dictionary jobs, the
  provider's budget, an editor's deletion of a locale row, the race between a human write and a
  wake-up, `publishedPlanHash`; re-use of memory is per document, not per field, and relations are
  resolved once. A parent blocked on a target that is deleted is woken by nobody, in the code and
  the model.
- *Backups.* Schedule slots, alerts, preflight checks, settings, parts of a multipart upload,
  restore; the two verdicts of a verification are one; a commit by the bucket of a request the
  client has given up is covered up to the erasure only.
- *Telegram.* Retention (`maxStoredPosts`), changes of the connection, diagnostic checks, member
  count, feed refresh, photos that return after a replacement, a missing service key, empty
  messages, an editor's deletion of a post between look-up and publication (`media-worker.ts:55`),
  two uploads under one name. A page of updates is saved update by update.
- *Routes.* Locale rows, checks of single fields, side effects before the lock, invalid targets,
  slugs in mixed case; generated deal routes against reserved segments, pages of the feature
  registry against entities and redirects; the unique column of `from` (a refusal is an `Abort`). A
  page renamed while disabled leaves no alias, and enabling a page may be refused when an alias's
  path was taken: both as in the code. The limit of active redirects is modelled and never reached.
  Validation reads are one step, interleaved with deletions only: other saves are locked out.
- The save guard of `register/record-lock-document.ts`, a check before a write that holds nothing in
  between and is advisory by its own comment.
- Which pages a write invalidates (`scopes.ts` and its neighbours): a table over content types. The
  outbox accepts any set of pages.
- Formatting, wording, backoff lengths, logging, metrics and status summaries.
- Read-only APIs, the admin interface, one-off migrations: no state of their own to get wrong
  between steps.

## 8. Plan

Done: the modules of section 2, the runs of section 3 and the proofs of section 5.

Next, in order of importance:

1. `IsrSweeps` - start, stop and restart of the dispatcher, coalesced sweeps, standalone events;
   composed with `IsrOutbox`.
2. `ResponseCache` - purge after commit against answers in flight.
3. `TranslationBackfill` - run rows with lease and cursor over the translation outbox; then the UI
   dictionary.
4. Proofs: `NoWriteForgotten` without `InOrder` should the retry come to merge with claimed rows'
   successors; a measure that bounds wake-ups in place of `NoWakeStorm`; the refinement of an
   abstract promise by the translation outbox and by the backups.
