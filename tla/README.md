# Verification of ZeroPress Studio

TLA+ models of ZeroPress Studio, the TLC instances that check them, and proofs
about them for the TLA+ proof system. Paths below are relative to the root of
the repository (`worker/`, `client/`, `docs/`).

## 1. The system

Studio is the editing side of a CMS. A Cloudflare Worker serves an HTTP API to
a React client and works on

- the **Studio D1 database** (content, users, media rows, settings, queues kept
  as tables),
- the **Edge D1 database** of the public site (comments and their targets,
  newsletter, forms),
- an **R2 bucket** for media objects,
- a **mail queue** (Cloudflare Queues, at-least-once, `max_retries` per
  message) and a mail provider behind it,
- GitHub, for publishing a site's data file.

Three things start work: HTTP requests, the queue consumer, and a daily cron
(`23 18 * * *`), which prunes sessions, challenges, audit rows, autosaves, rate
limits and expired upload intents, drains the R2 deletion queue, and then drains
the comment target outbox even when the first half failed.

What makes the program hard to get right is the same everywhere:

- a D1 `batch` is one transaction, and a single statement is one, but a request
  makes many of them, and any other request runs in between;
- **no transaction spans two stores**: Studio and Edge, D1 and R2, D1 and the
  queue, D1 and the provider are kept together only by protocols (outbox, lease,
  deletion queue, claim, compare-and-set);
- a Worker may be evicted between any two calls, and a call may take effect
  although its reply is lost.

The models take exactly that as their grain: **one call to a store is one step**,
a batch is one step, a process may stop between any two steps.

### Inventory

| Component | State | Operations | Meets | Hard part | Correct when |
|---|---|---|---|---|---|
| Comment target outbox (`worker/src/comments/target-projection-outbox.ts`) | `edge_comment_target_projection_outbox` with leases, Edge targets | triggers of content writes, claim, replay, acknowledge, release | content writes, integration switch, cron, reconciliation | two databases, concurrent drains, leases that run out | every write reaches Edge, in order, at least once |
| Edge integration switch (`worker/src/settings/edge-services-routes.ts`) | `edge_integration_mode` | disable, inspect parity, enable | outbox triggers | parity is checked before the mode is stored | enabled only on equal sides |
| Managed media uploads (`worker/src/media/media-upload-*.ts`, `media-object-cleanup.ts`) | upload intents, Media rows, deletion queue, R2 objects | create, cancel, expire, PUT, complete, compensate, delete, drain | users, Clear content, cron | D1 and R2, retries, eviction while streaming | no row without its object, no object without a reference |
| Post notification (`worker/src/newsletters/post-notification-repository.ts`, `mail-queue.ts`) | delivery rows, queue messages, subscriptions | request, dispatch page, job: skip, claim, mail, record | mail queue, provider, subscribers | at-least-once and unordered delivery, lost replies | nobody is forgotten, one mail per attempt, opt-out respected |
| Confirmation and form mails (`mail-queue.ts`) | confirmation attempts, none for forms | the same queue, other jobs | provider | attempts are counted, not claimed | no second mail for one request |
| Target reconciliation (`worker/src/comments/target-reconciliation.ts`) | progress row on Edge, orphans | sync, scan, purge, finalize, cancel | outbox, content writes | repeated and overlapping steps; check before purge | repeated steps are safe, revived targets survive |
| Content autosave (`client/src/hooks/useContentAutosave.ts`, `client/src/PageEditorPage.tsx`, `worker/src/content-autosaves`) | the hook's refs, autosave rows per user | debounced PUT, promote, Save, discard, reopen | Page writes | a Save racing an autosave, two tabs, lost replies | what is called recoverable is stored; nothing older comes back |
| Posts, Pages and revisions (`worker/src/posts`, `worker/src/pages`) | rows with revisions, archived revisions | save, restore a revision | search index, outbox triggers | stale writers | one batch, guarded by the revision |
| Page hierarchy (`worker/src/pages/page-repository.ts`) | parent, status, front page | create, update, bulk life cycle, delete, import, routing settings | settings, import | guarded SQL next to check-then-act | a forest below live Pages; the front page is published |
| Content search (`worker/src/content-search`) | index rows, rebuild cursor | start, page, verify, and index writes of every save | content writes | a rebuild beside writes | ready means complete and current |
| Schema upgrade (`worker/src/system/schema-upgrade-runner.ts`) | life cycle row, guard table | start, step, resume, take over | restore | one step a request, any of which may stop | recorded version = version of the tables |
| Maintenance operations (`worker/src/operations`) | progress rows of each operation | clear, reset, uninstall, rebuild | everything | mutual exclusion read in one call, taken in another | operations never overlap |
| Backup and restore (`worker/src/operations/database-backup.ts`) | restore journal | export, start, restore chunk, finalize, restart | schema upgrade | replayed and stale chunks | an answered chunk is stored; never reported complete when partial |
| WXR import (`worker/src/imports`) | the content tables | row-by-row upserts | page hierarchy | check-then-act | same rules as the editor |
| GitHub publishing (`worker/src/publishing`) | repository settings, remote file | compare blob, PUT, inspect | GitHub | a lost PUT reply | never repeats or overwrites blindly |
| Settings (`worker/src/settings/revisioned-settings-repository.ts`) | one revision, key/value rows | one guarded batch | the switch above | – | stale writers lose |
| Authentication, sessions, MFA (`worker/src/auth`) | password, TOTP secret and last step, passkeys, challenges, sessions, auth revision | sign in, change password, replace TOTP, register and remove passkeys, end sessions | users | hashing and the browser lie between read and write | no session outlives its proof, one use per code |
| Users and roles (`worker/src/users`) | role, status, setup link | invite, set up, reissue, reset, change role, deactivate, delete | authentication, uploads (account deletion) | administrators who act on each other | an administrator remains; a reset leaves only the link |
| Newsletter, forms and comment management, media library, menus, widgets | their tables | single guarded statements | – | – | – |
| Preview data, public URLs, AI, analytics, audit, system status, React client | none, or append-only | projections, external requests, presentation | – | – | – |

`PROJECT.json` lists each of these with its status and, where it is not modelled,
the reason; its `hazards` name the lines where this code could go wrong in a way
that a test would hardly reach.

## 2. Modules

| Module | The code it stands for | Checked / proved in |
|---|---|---|
| `CommentTargetOutbox` | outbox repository, schedule, triggers, integration switch | `MCCommentTargetOutbox`, `StudioContentProofs` |
| `TargetReplication` | – (abstract) in-order, at-least-once replication per target | refined by `CommentTargetOutbox`; its queues are what `TargetReconciliation` meets |
| `TargetReconciliation` | start, steps, purge, completion and cancellation of a reconciliation | `MCTargetReconciliation`, `TargetReconciliationProofs` |
| `MediaUpload` | intents, PUT handler, compensation, deletion queue | `MCMediaUpload`, `MediaUploadProofs` |
| `MediaLifecycle` | – (abstract) reserved, published with its file, retired | refined by `MediaUpload` |
| `PostNotification` | notification request, dispatch, job, queue | `MCPostNotification`, `PostNotificationProofs` |
| `AccountAccess` | sign-in, sessions, credentials, account administration, setup links | `MCAccountAccess`, `AccountAccessProofs` |
| `ContentSearchRebuild` | index writes of every save, rebuild, verification, search | `MCContentSearchRebuild`, `ContentSearchRebuildProofs` |
| `ContentAutosave` | the autosave hook, the Page editor's requests, the draft's rows, promotion | `MCContentAutosave`, `ContentAutosaveProofs` |
| `PageTree` | Page writes, routing settings, the importer's Page and settings steps | `MCPageTree`, `StudioContentProofs` |
| `DatabaseMaintenance` | schema upgrade and restore of the Studio database | `MCDatabaseMaintenance`, `DatabaseMaintenanceProofs` |
| `DatabaseLifecycle` | – (abstract) one complete artifact at one version, or a known restore | refined by `DatabaseMaintenance` |

The `MC` modules only add symmetry and the instance's data. Three modules compose
components: `CommentTargetOutbox` content writes, outbox and switch;
`TargetReconciliation` the operation with the outbox (as the queues of
`TargetReplication`), content writes and readers' comments; `DatabaseMaintenance` upgrade
and restore, which share the tables.

Definitions called *faulty variant* in a comment are not part of a specification.
Each is what a plausible slip in that code would be (a dropped guard, a missing
reset, another order); replacing the definition they vary makes TLC find the
property violated that the slip endangers (`mutants` in `PROJECT.json`).

### CommentTargetOutbox

*State.* `content[t]` is the revision of the stored Post or Page (`NoRow` when it
is deleted), `outbox` the outbox table by row id with the captured value, its
`lease` and whether that lease has run out, `lastId` the `AUTOINCREMENT` value,
`edge[t]` the revision the Edge target mirrors, `mode` the integration setting,
`activation` the request that switches it on: the targets it has found equal so far,
and, as a history, `missed`: those of them that were written, with no trigger to tell, before
the mode was stored, and have not been written since.
A drain is an invocation of `drainCommentTargetProjectionOutbox`: `pc` is the call it makes
next, `held` what its `SELECT` returned.

*Actions.* `CreateContent`, `UpdateContent` and `DeleteContent` are the content
writes with the database triggers that fire in the same transaction, only while
the mode is `enabled`. `ClaimUpdate` leases up to `ClaimLimit` rows, each the
oldest of its target and not under a running lease; `ClaimSelect` reads them
back by lease id, and ends the drain if there are none; `ApplyBatch` replays
them on Edge in one batch;
`Acknowledge` deletes them by lease id. `ApplyFails` is a batch reported as
failed, committed or not, after which `ReleaseLease` clears the lease.
`AbandonDrain` is the eviction or failed call at every other place: the lease id
stays on the rows (`Abandoned`) until `LeaseExpires`. `CountPending`, `CompareTarget`, one target
at a time, and `EnableIntegration`, a transaction of its own, are the switch; content
is written between any two of them.

*Left out.* Validation of malformed rows (excluded by `CHECK` constraints), attempt
counters, and the counts a drain reports. Callers that drain until nothing is left
(maintenance, reconciliation) are further invocations of the same steps.

### TargetReconciliation

*State.* `state` is the one reconciliation row with its phase and two cursors,
`orphans` what the operation listed, `edge` the target rows with their comments,
`content`, `queue` and `tracked` what the outbox sees, `activation` the request that
switches the integration on. A request has a `pc`, the row
it read (`view`), the row it will store (`after`) and the rows it works on (`page`).

*Actions.* A step request reads the row (`ReadState`) and does the page of its phase:
drain (`CountRemaining`), sync (`ReadPage`, `WritePage`), scan (`ScanPage`,
`LookUpContent`, `CountComments`, `ListOrphans`); `Advance` moves the row on with a
compare-and-set on operation, phase and cursors. In the review a purge request
goes through one listed orphan after the other: is it still listed, is it still
gone from Studio, is its Edge row the one listed with as many comments, delete,
unlist. A completion reads its three conditions one by one, in any order, as
`Promise.all` may, and `Finalize` removes the row. `Start`, `Cancel`, `Abandon`
(eviction at any call) and `Recover` (somebody sends the next request) complete
it; `Replay`, `Confirm`, `PostComment`, `DeleteComment` and `WriteContent` happen beside
it. So does the switch, as separate calls (`DisableIntegration`, `CountPending`,
`CompareTarget`, `EnableIntegration`): the Operations route refuses it while an
operation is stored, but `PUT /settings/edge-services` stores the mode without asking
for one, and that is what the model allows. Posts are compared before Pages, in the order
of their ids.

*History.* `activation.missed` as in the outbox; `disturbed`: content was written since
the operation started; `overtaken`: the targets written with the integration off, after
the drain of the operation, over a projection that was still pending.

*Left out.* The listing of orphans for display and the counters of processed rows.

### MediaUpload

*State.* An upload stands for its intent id, media id and storage key, which are
drawn together and never again. `intent`, `media`, `deletions` are the three
tables, `bucket` the R2 objects. `pc`/`key` describe a PUT request, `stage`/`batch`
a cleaner: the maintenance run, or the request (or background task) that deleted
Media.

*Actions.* The PUT handler reads the intent (`ReadIntent`), streams the body with
`onlyIf` not existing (`PutObject`, `PutConflicts`, `RejectBody`,
`PutReplyLost`), completes in one batch that inserts the Media row *from* the
intent row (`CompleteUpload`), reads it back (`ReadBack`), and compensates by
deleting the object or, failing that, queueing its key (`Compensate`,
`CompensationFails`, `QueueCompensation`). `CancelIntent`, `CollectExpiredIntents`
and `DeleteUser` queue keys and remove rows in one batch. `DeleteMedia`,
`ListDeletions`, `DeleteObjects`, `DeleteObjectsFails`, `RemoveCompletedRows` are
deletion and cleanup. `ClearContent` is Clear content as the Studio side does it.
The constant `Failures` says which failures may happen.

*Left out.* Signature inspection and SVG sanitizing only decide whether a body is
rejected; the limit of ten intents per user is abstracted to the number of
uploads; Media rows registered by hand under an arbitrary key have no upload.

*History.* `doubted`: uploads whose commit their own request did not see (a lost reply,
or a read after the commit that failed), or whose key was queued for deletion although
they could still be, or were, committed. `overtaken`: deleted by a drain while a request
could still store them. `cleared`: Clear content removed the intent while the object was
stored or streaming, and did not queue its key.

### PostNotification

*State.* One Post revision. A delivery row is named by its subscription, in the
order of idempotency keys; `status` and `attempts` are its columns, `reader` and
`active` what decides whether it may be mailed. `waiting[m]` says how often a
message is in the queue; a message carries the number of its delivery attempt.
`mails[s][n]` counts what the provider accepted for attempt `n`.

*Actions.* `FindNewsletter`, `Materialize` (`INSERT OR IGNORE ... SELECT`),
`CountPending` and `SendDispatch` are the request. `ReadPage` and `SendBatch`
expand a dispatch; a full page sends all but its last row and a continuation after
the last row sent. `ReadJob`, `Skip`, `Claim`, `Deliver`, `MarkSent`,
`MarkFailed` are the per-recipient job. `Receive` takes a message or a duplicate
of one; `Retry` puts it back with the next attempt until `MaxAttempts`;
`EndBatch` is where an acknowledgement counts, so an eviction before it delivers
the message again although its work is done.
`CallFails`, `RetryBatch`, `EvictConsumer`, `DeliverFails`, `MarkSentFails` and
lost replies are the failures. `Subscribe`, `Unsubscribe`, `DeleteSubscription`,
`UpdateNewsletter` change readers meanwhile.

*Left out.* The confirmation and form jobs of the same queue: a confirmation counts
its attempts without claiming them and a form notification records nothing, so a
redelivered job sends again; there is no protocol to verify.
*Abstracted.* A consumer batch holds one message; more messages in a batch are
processed one after the other and add nothing but more places to be evicted. The
queue is modelled from how the consumer uses it (`ack`, `retry`, `attempts`).

### AccountAccess

*State.* `account` (role, status, auth revision, password), `factor` (TOTP secret and
last step), `passkeys`, `setup` (the link and the secret prepared for it),
`challenges`, `sessions`. Random values are numbered as they are drawn
(`serial`): a password, secret, passkey, token, id or revision is the number of its
draw. A `request` carries what it read, in particular the auth revision, until it
writes. What a session was proved with, and the codes accepted, are history; a session
that removes the passkey it was proved with goes on with what its request proved.

*Actions.* Sign-in: `ProvePassword`, `ReadFactor`, `ConsumeStep` or `DiscoverPasskey`,
`ChoosePasskey`, `CompletePasskey`, then `IssueSession` (which evicts the oldest
sessions over the limit). A signed-in user's `ProveAgain`, `Authorize`,
`ChangePassword`, `CarryOver`, `ReplaceTotp`, `RemovePasskey`, `AskForPasskey`,
`AnswerChallenge`, `RegisterPasskey`. An administrator's `Inspect` and then
`ChangeRole`, `Activate`, `Deactivate`, `Reissue`, `ResetAccess`, `DeleteAccount`,
`Invite`. The link's `StoreSetup`, `ReadSetup`, `CompleteSetup`. `Stop` and
`EndSessions` are requests that end anywhere, logout, revocation and expiry.

*Abstracted.* Two roles (an author is treated as an editor by all of this code). Grants
and signed continuations are the values they carry. *Left out.* Enrollment of an
account without a factor (only Operations can bring one about), Operations'
administrator recovery, rate limits and locks, signature counters, names,
activity times, the rows of login challenges, and one challenge answered by two
requests at once.

Two oddities were met that break no property: `changeUserPassword` throws after it has
committed when the session that asked was revoked meanwhile
(`worker/src/auth/password-management-repository.ts:63`), and a sign-in whose session is
refused because the account changed still evicts the oldest session
(`worker/src/auth/session-repository.ts:168`).

### ContentSearchRebuild

*State.* `content` and `index` hold the revision of each row and of its entry,
`status` the row `content_search_index_state` with phase and cursors. A rebuild
request has the status it read (`view`) and the rows it read (`page`).

*Actions.* `SaveRow` and `DeleteRow` write content and index in one batch.
`DashboardStart` and `OperatorStart` empty the index and start a rebuild in the
states each accepts; `ReadState`, `ReadPage`, `WritePage` (checkpoint by compare-and-set
and the entries of rows that still have the revision read, in one batch) are a step;
`ReadParity` and `Complete` or `MarkIntegrityFailure` the verification;
`VerifyFails` any database failure in it, which marks the index
`recovery_required`. `RestoreDatabase` and `ClearContent` replace the content.
`CheckIndexReady` and `AnswerSearch` are a search; one that found the index ready
before a start or a restore emptied it is followed no further (`Overtaken`), since nothing in the
code promises what it returns.

*Abstracted.* A restore of the tables is one step here (`DatabaseMaintenance` models its
steps); the text of an entry is the revision it was made from. *Left out.* Progress
counters and time stamps.

### ContentAutosave

*State.* One draft in one editor. `editor` is what the hook keeps in its refs and what
the Page editor knows (target Page, revision, text, persisted text, pause,
conflict, session), `call` the pending activations of `persistLatest`, `inFlight` its
`inFlightRef`, `row` the autosave row, `pages` the Pages made from the draft; `save`,
`discard` and `promotion` the requests under way, `late` those of closed editors
that the server has yet to see.

*Actions.* `Type`, `BeginSave`, `Restore`, `Reauthenticate` are the user, and `Reopen` the
tab that is closed, or crashes, at any time and is opened again: what was sent goes on
in `late` and may arrive at any later time (`ServeLate`). `StartCall`, `ServePut`,
`FinishCall` are the writer. Any number of calls may wait for the one in flight; when it
ends they all write, side by side, and the first of them to end clears `inFlight`, since the
hook does not look at it again after its `await`. `ReadPromotion`, `CreatePromoted`,
`RereadPromotion`, `ForgetPromotion` are a promotion, by this editor or by a second tab;
`OpenPromoted` the navigation to the Page made. `ServeSave`, `AnswerSave`, `BeginDiscard`,
`ServeDiscard`, `AnswerDiscard` are Save and discard. A refused creation leaves the
draft's row, or deletes it: `createPage` deletes the row in the batch of its guarded insert, which
commits although the insert adds no Page (`CreateRefused`). `LosePut`, `LosePromotion`,
`LoseSave`, `LoseDiscard`, `EndSession`, `ChangePage`, `Reopen` and `OtherTabPromotes`
are the disturbances. Timers are not modelled: a debounced write may start whenever it
is due.

*History.* `saved`: the newest text a Save stored, and its Page. `crowded`: two writes of this
editor, or a write and a Save, have been on their way together since it last had none.
`stray`: since the last write that travelled alone was stored, something the editor does
not wait for, or does not hear of, may have changed the row.

*Left out.* Leaving the editor inside the application (its last flush, and calls that go
on after unmounting), Posts (the same hook and repository with an author check), a
user's second draft of the Page, expiry of unbound autosaves, deletion of the Page, texts
that return to an earlier value, and a PUT that times out at the client after
30 s and is applied later. A title typed while a Save runs is replaced by the saved
Page; this is the editor's behaviour and part of the model.

### PageTree

*State.* `pages` with status, `parent` and revision, `front` with the front page and the
settings' revision. A `request` carries what its inspection found until its batch.

*Actions.* `InspectCreate`/`WriteCreate`, `InspectUpdate` and `InspectBulkItem`/
`WriteUpdate`, `InspectDelete`/`WriteDelete`, `InspectRouting`/`WriteRouting`: the
batch repeats the checks in its guards. `ClearContent`. The importer's
`CheckImport`/`WriteImport` and `CheckFinalize`/`WriteFinalize` check in the same way
and write without repeating, beside everything else. `FailWrite` is a request that ends
without writing.

*History.* `outdated`: the Pages, and the routing setting, that an import stored when what
it had checked was no longer true, and that no request of Studio has written since.

*Abstracted.* The items of a bulk change are independent updates. Row ids are used again
only when no request refers to them. *Left out.* Sibling slugs and public ids
(unique indexes), the other statements of the batches, `repairRoutingSettings` (the
same guards as `updateRoutingSettings`).

### DatabaseMaintenance

*State.* `state` is the life cycle row, `guard` the guard table of an upgrade,
`journal` the restore journal, `rows` the chunks stored, `schema` the version the
tables really have, `mode` and `target` the site mode and the `STUDIO_SCHEMA_VERSION` of the
deployment, `acked` the chunks that were answered as accepted. `Releases` are the
versions that releases in use require.

*Actions.* `CheckUpgrade`/`StartUpgrade`, `CheckStep`/`ApplyStep`; `CheckRestore`/
`StartRestore` in maintenance or, over anything, in recovery mode;
`CheckChunk`, `CountRows`, `StoreChunk`, `AnswerChunk`, `ReplayChunk`;
`CheckFinalize`/`Finalize`. `Abandon` ends a request anywhere, `Redeploy` changes the
mode, the release, or both. `Report` is what administrators are told: an upgrade whose
row names another target than the deployed release is `recovery_required`, and no step
is possible until a release with that target is deployed again.

*History.* `leftover`: the guard table is that of an upgrade which a restore ended, as
one does that does not verify the life cycle. `unchecked`: the last restore was ended by
a finalization that had checked another one.

*Abstracted.* One row per chunk, the life cycle row in the first. A step's SQL is one
version of the tables. Artifacts are of ready databases. Ids are random and not drawn
twice while anything refers to them. *Left out.* The export, SQL text and
fingerprints, credentials, the restore of the Edge database (the same functions on
another binding, without an upgrade beside it), and the checks by which the
routes exclude other maintenance operations.

## 3. Runs

"States" are distinct states. Model values are symmetric where the run checks no
liveness; symmetry is not declared for subscriptions and content ids, which are
ordered.

| Run | Instance | Checks | States |
|---|---|---|---|
| `outbox` | 1 target, 2 drains, 4 revisions, claims of 2 rows | `NoLostProjection`, `ImplementsReplication`, `EventuallyProjected` | 49 885 |
| `reconcile` | 2 Posts, no comments, 2 requests, 2 operations, pages of 1, 1 content write | `CursorsLeaveNoGap` | 643 781 |
| `reconcile_switch` | 1 Post, no comments, 2 requests, 1 operation, pages of 2, 3 content writes, switched on once again | `TrackedIsCovered`, `CompletionIsTruthful` | 829 931 |
| `reconcile_purge` | 1 Page, 1 comment, 2 requests, 1 operation, 1 content write | `PurgeSparesContent`, `PurgeSparesUnseen`, `ReviewIsReached` | 358 152 |
| `media` | 1 upload, 3 requests, 2 cleaners; every failure, Clear content | `ObjectsAreTracked`, `RemovalIsFinal`, `ImplementsLifecycle`, `ObjectsSettle` | 34 803 |
| `mail_recipient` | 1 subscription, 2 consumers, 2 attempts, 1 duplicate, 2 changes; every failure | `MailedOncePerAttempt`, `SettledIsFinal`, `OptOutIsRespected` | 245 441 |
| `mail_dispatch` | 2 subscriptions, 2 requests, pages of 2, provider and database failures | `QueuedIsCovered`, `NotificationSettles` | 32 139 |
| `accounts` | 2 users, 2 requests, 1 session and 1 passkey per user, 3 random values | `AdministratorRemains`, `SessionsAreProven`, `NoCredentialIsLeft`, `StepUsedOnce`, `SetupIsPaired` | 394 868 |
| `search` | 2 Posts, 1 Page, 2 requests, 1 search, pages of 1; 2 writes, 2 starts, 1 restore or Clear content, 1 eviction | `EntriesAreCurrent`, `ReadyIsComplete`, `SearchIsComplete`, `RebuildEnds` | 852 600 |
| `autosave` | 3 calls, 2 texts, 2 Pages, 1 Save, 2 disturbances | `RecoverableIsStored`, `NoOlderCopy`, `ConflictIsReal`, `PromotionIsExclusive`, `ChangesGetStored` | 366 129 |
| `page_tree` | 3 Pages, 2 requests, 3 writes; imports beside all of it | `NoCycle`, `ParentsAreLive`, `FrontPageIsPublished` | 53 373 |
| `database_maintenance` | 2 artifacts of 2 chunks and versions 1 and 3, releases for versions 2 and 3, 2 requests, 2 ids | `SchemaMatchesVersion`, `NeverStranded`, `AckedIsStored`, `ImplementsLifecycle`, `UpgradeEnds` | 502 320 |

What they show, and why the bounds are enough:

- **outbox** – two drains suffice to have one fail, expire or be evicted while the
  other takes over; four revisions and deletions give several pending rows of one
  target, two of them in one claim's reach, and leave a write for the moment between
  comparison and switch. No interleaving loses a write or leaves a stale one last, but
  for the write that slips past the switch. Outbox, leases and drains together implement
  `TargetReplication`: a drain that finishes is `Confirm`, its batch is `Replay`, a comparison
  `Compare`, everything else stutters or is a write or the switch. Drains that fail and are
  evicted along the way still bring Edge to the content in the end. Targets meet only
  in a claim and in the order they are compared in; that a claim picks the oldest row
  *per target*, and that the switch needs all of them, is proved for any number (section 6).
- **reconcile** – two Posts with pages of one make a cursor that can be moved twice or
  past a row; two requests overlap, repeat each other's page or work on for an
  operation that was cancelled and started again. Whatever they do, every
  row behind a cursor is synchronized or listed.
- **reconcile_switch** – what an operation and the switch do to a target, and to each
  other, shows on one target: three writes are one whose projection is pending, one
  without a trigger over it, and one more between comparison and switch. The operation
  does not undo newer projections, and a completion that reads its conditions one by one is
  true when it happens, but for the targets of section 4.
- **reconcile_purge** – the hazards of a purge concern one target: it may be revived,
  replaced on Edge, or commented on between the checks and the deletion. The purge
  spares all of that, and any operation comes to its review unless it is cancelled.
- **media** – uploads share nothing but the deletion queue, so one upload shows its
  races: three requests are one that commits unseen, one that compensates and a retry;
  two cleaners cover a deletion that drains its own key while the daily run drains all.
  Whatever fails, objects keep a reference, every object ends up in the library or
  deleted, a removed upload never enters the library, and the whole implements
  `MediaLifecycle`, in which a published Media row keeps its file unless its
  publication was put in doubt.
- **mail_recipient** – one recipient is enough here, since recipients only meet in
  the dispatch; two attempts and one duplicate put two consumers on the same or on
  consecutive attempts; two changes let a reader leave and come back.
- **mail_dispatch** – pages of two rows with two recipients make a full page, its
  continuation and a last page; two requests make rows of an earlier request. No
  recipient falls between pages, requests or attempts, and each queued row settles.
- **accounts** – two administrators can demote, reset or delete each other, and two
  requests put any two of the flows side by side; two draws after
  installation (and those of completed setups) are enough for an account to be
  reset and set up again, or for a credential to be replaced while a sign-in with the old
  one is under way; all five properties are proved for any number. One session
  and one passkey per user make both limits bite.
- **search** – three rows with pages of one give both phases and a cursor within one;
  two writes put an edit both behind and ahead of it; two starts let late batches of
  an older rebuild meet a newer one.
- **autosave** – three calls are one that writes and two that wait for it and then
  write side by side; two texts are what was sent and what was typed meanwhile, beside
  the original and the foreign one; two disturbances combine, for instance, a closed editor
  with the late arrival of its write, or a lost Save reply with a foreign change. The
  invariants are proved for any number of each.
- **page_tree** – two requests race, after one earlier move, to close a cycle of up
  to three Pages; either may be an import. Requests may stop at any time, so deadlock is
  not an error.
- **database_maintenance** – two artifacts make late chunks of one restore meet the
  other's; they are equally long, so that counts alone do not tell them apart. A target two
  versions ahead gives an upgrade two steps between which it can be interrupted, resumed,
  taken over, or met by a deployment of the other release. Two ids are what two requests
  can hold at once.

`CHECK_DEADLOCK FALSE` is set where the model rests once its bounds are used up or
requests may simply stop (media, mail, accounts, search, autosave, page_tree).
Type invariants are proved rather than run (section 6); that of
`TargetReconciliation` can be added to its configurations.

## 4. Assumptions and exceptions

Each assumption is a constant of the module (`RevisionsSuffice` a definition of the
proofs), so a run or a theorem says whether it needs it. Setting it the other way makes TLC
produce the behaviour in the last column.

| Assumption | Meaning | What happens without it |
|---|---|---|
| `DrainsWithinLease` | no drain writes to Edge after its lease of five minutes | the Edge batch is not fenced by the lease: a late drain replays an old event over a newer one that was acknowledged, and nothing is left to repair it (`ImplementsReplication`, `NoLostProjection`) |
| `QuietSteps` | no content write while a reconciliation request runs; steps run in maintenance mode, where ordinary content requests are refused | a step that read its page before a write undoes the projection of that write (`TrackedIsCovered`); a target revived after the last check is purged (`PurgeSparesContent`) |
| `RetriesSuffice` | the last attempt of a message is not cut off | rows stay queued with no message (`QueuedIsCovered`, `NotificationSettles`) |
| `RevisionsSuffice` | a new cache revision is none that an Edge row had before (128 random bits) | a remembered row cannot be told from a later one |

Everything else that the code leaves open is part of the models. Where a guarantee is lost
in the code, a history variable records *which* object met the race; the properties
except exactly these objects, only until the code has repaired them, and hold for all others
and at all other times. These are the exceptions, each reached in the runs; with the
exception dropped, TLC violates the property.

| History | When | What then happens in the code |
|---|---|---|
| `missed` (outbox, reconciliation) | a target is written between its comparison and the stored mode (`worker/src/settings/edge-services-routes.ts:123`) | no trigger fires and the integration is enabled over the difference, although `worker/src/settings/edge-services-routes.test.ts:127` says "enables only after pending events and exact parity are clear"; the next write of the target repairs it |
| `overtaken` (reconciliation) | the integration is switched off in the middle of an operation, and a target is written over a projection still pending | the pending projection is older than the content; a completion can find both sides equal before it is replayed |
| `disturbed` (reconciliation) | content is written between the steps of an operation | a Post or Page created behind a cursor is not visited again by the operation; its projection, and parity at completion, cover it |
| `doubted` (media) | the reply of the completing batch is lost, or `getMedia` after it fails (`worker/src/media/media-upload-repository.ts:343`); a key is queued beside a live intent or a committed row after R2 rejected a compensation | the request deletes the object of a Media row (`worker/src/media/media-upload-service.ts:229`), or a drain does |
| `overtaken` (media) | a drain deletes a key whose upload is still streaming | the object is stored after its deletion; if the request is evicted there, nothing refers to it |
| `cleared` (media) | Clear content deletes the intent of an object that is stored or streaming (`worker/src/operations/database-operations.ts:51`) | its key is not queued; only the request itself can still delete it |
| `stray` (autosave) | writes of one editor overlap; a request of a closed editor arrives late; a discard is applied; a refused creation deletes the draft's row (`worker/src/pages/page-repository.ts:905`) | the editor may call a draft recoverable that is not stored, or stop with "another change was saved" (`client/src/i18n/locales/en/pages.ts:250`) on its own write; it is over with the next write that travels alone |
| `outdated` (Page tree) | an import stores on checks that no longer hold (`worker/src/imports/wxr-core-import-repository.ts:1133`) | a cycle, a child below the trash, or an unpublished front page; the next Studio write of the Page repairs it |
| `leftover` (database) | a restore checked in recovery mode, or while another restore was under way, replaces a database with an upgrade under way (`worker/src/operations/database-backup.ts:1108`) | the guard table stays and blocks every later upgrade start and every restore from maintenance |
| `unchecked` (database) | a restore is started between the checks and the batch of a finalization (`worker/src/operations/database-backup.ts:1438`) | the finalization completes the other restore, which may be partial, against `docs/maintenance-and-recovery.md:220` "A partial restore is never reported as complete" |
| (search, no variable) | a restart or a restore empties the index after a search found it ready | the search may return less than the content; it is followed no further |

Bounds: `MaxRevision`, `MaxWrites`, `MaxSwitches`, `MaxStarts`, `MaxResets`, `MaxEvictions`,
`MaxTexts`, `MaxPages`, `MaxSaves`, `MaxDisturbances`, `MaxSerial`, `MaxChanges`,
`MaxDuplicates`, and the sets of actors and data. Limits of the code are constants as
well: `ClaimLimit`, `PageSize`, `BatchSize`, `MaxAttempts`, `MaxSessions`, `MaxPasskeys`.
The theorems hold for all their values.

## 5. Fairness

- *Outbox.* The daily cron and every content request start a drain, so an idle
  invocation starts (`WF BeginDrain`). A drain may be evicted or refused again and
  again, so its steps with rows at hand are only assumed to happen if they are
  possible again and again (`SF`): some day an invocation is not interrupted at
  that point. Leases run out by the clock, a failed invocation ends (`WF`).
- *Reconciliation.* Pending projections are drained (`WF Replay`, `Confirm`), the client
  asks for the next step while an operation is in progress (`WF ReadState`, `Recover`), a
  request that runs comes to its end, and evictions stop some day.
- *Media.* Time passes and the daily run collects (`WF ExpireIntent`,
  `CollectExpiredIntents`); a request that is not evicted ends (`WF Store`,
  `Finish`); a drain that is repeated daily selects and deletes in the end (`SF`),
  because evictions and R2 errors may interrupt any single one.
- *Mail.* A request goes on unless it fails (`WF Notify`), a consumer with a
  message works on it (`WF Work`), and the queue delivers *some* message while one
  waits and a consumer is idle; nothing is assumed about which, that is, the
  delivery order stays arbitrary.
- *Search.* The Dashboard keeps stepping while a rebuild is in progress and an
  administrator continues one that was stopped (`WF Continue`).
- *Autosave.* What browser and server do by themselves happens (`WF Machine`, one
  condition for all of it: timers fire and requests are answered, in any order).
- *Database.* A request ends, one way or another (`WF`). An upgrade in progress is
  resumed and its steps do not fail for ever (`SF CheckStep`, `SF ApplyStep`).
  `UpgradeEnds` holds for a site that stays in maintenance with a release the upgrade under
  way began with, which it states itself.

No liveness is claimed for content writers, subscribers, users or administrators
otherwise, and nothing forces a request or a failure to occur.

## 6. Proofs

All theorems are proved for every value of the constants that satisfies the
modules' `ASSUME`s, that is for any number of targets, uploads, readers, users, Pages,
requests, retries and failures. Each module's `TypeCorrect` proves its type invariant.

**StudioContentProofs: outbox.** Under `DrainsWithinLease`, `ProjectionSafe` (`NoLostProjection`), `ReplayIsExclusive`
(`ExclusiveReplay`) and `AcknowledgedIsProjected` (`DeletedOnlyWhenProjected`).
`NoLostProjection` is not inductive: that an acknowledged row was on Edge depends on
what the drain holds and on nobody else having written the target meanwhile.
`IndInv` adds

- `LeaseInv`: only the oldest row of a target is ever leased, and a drain that has
  not written yet holds running leases only – hence no two drains hold one target;
- `HeldInv`: what a drain selected is what it has leased;
- `AppliedInv`: rows under the lease of a drain whose batch succeeded are mirrored;
- `ActivationInv`: nothing is pending while the integration is being switched on, and the
  targets compared so far are equal but for those written since.

Each has a lemma for the steps that can disturb it; `ExclusiveReplay` follows from
`LeaseInv` and `HeldInv`, `DeletedOnlyWhenProjected` from `AppliedInv`.

`OutboxImplementsReplication` proves the refinement of `TargetReplication`
(`ImplementsReplication`) under the same assumption. The queue of a target lists its
rows by age: `Position` counts the rows up to one, `Nth` inverts it, and the lemmas up to
`OrderRemoved` show that it is a bijection, that a younger row is appended
(`OrderAdded`) and that without the oldest the tail is left (`OrderRemoved`). With them
`WriteContent` is `Write`, a batch is `Replay` and an acknowledgement `Confirm` of the
leased targets, since a leased row is the head of its queue (`LeasedIsHead`, from
`LeaseInv`); the switch is `Detach`, a `Compare` for each target, `CompareAfresh` where it
starts over, and `Attach`, on empty queues by `ActivationInv`; every other step leaves the
queues alone.

**MediaUploadProofs.** No assumption: all five theorems hold under every failure. `TypeCorrect` and
`RemovedStaysRemoved` (`RemovalIsFinal`) follow from the Media row being inserted from the
intent row. `CommittedObjectsAreKept` needs `KeptInv`: a request works on a
reserved upload (`ReservedInv`), a key is only queued once its upload is over
(`RetiredInv`), and while the intent is there at most one request has stored the
object (`HolderInv`, from the conditional put), so no compensation meets a committed
row, unless the upload is `doubted`. `ObjectsStayTracked` adds
`TrackedInv`: of a removed intent the row, the queue or nothing at all is left, and
a cleaner that has deleted objects left nothing behind that could store them again, unless the
upload is `overtaken` or `cleared`. `UploadsImplementLifecycle` proves the refinement of
`MediaLifecycle` step by step from `KeptInv`; putting an upload in doubt is a step
of the abstract life cycle, and only such an upload may lose its file there.

**PostNotificationProofs.** No failure is excluded here. `TypeCorrect` needs to know
what a working consumer holds (`HeldInv`). `AttemptIsMailedOnce` and `SentIsTrue`
follow from `AttemptInv`: a claimed attempt is owned by one consumer and not mailed
yet (`ClaimInv`), only claimed attempts were mailed (`MailInv`), and a consumer
whose mail was accepted, and a row recorded as sent, have it behind them
(`SentInv`). `SettledStaysSettled` and `OptOutHolds` follow from the guards of the
statements a job executes. `NobodyIsForgotten` (`QueuedIsCovered`) assumes
`RetriesSuffice`: the last attempt of a message is not cut off. Its `CoverInv` says
of each queued delivery who is going to handle it *with the attempt it has
reached*: a message in the queue, a consumer that works for it, or a request that
dispatches it. A consumer may be evicted after its work is done, so what it works for
is not what it holds; a page is covered by the batch it is expanded to (`BatchCarriesPage`),
of which a full one leaves its last row to the continuation.

**TargetReconciliationProofs.** `CoreInv` is inductive for types; Edge has at most
one row of a target, and each request holds what its step needs (`RequestInv`).
Four theorems assume `QuietSteps`:

- `NothingProjectedIsUndone` (`TrackedIsCovered`): `ContentInv` – a page of content
  under way is the content, a target that was looked up is still missing – and
  `TrackInv` – an empty queue means a mirrored target, the newest queued
  projection carries the content and, once replayed, is what is mirrored (`OnTheWay`); the
  same for what a request that switches the integration on has compared – for any number of
  overlapping requests, and whoever stores the mode when;
- `ContentIsSpared` (`PurgeSparesContent`) from `ContentInv`;
- `CompletionHolds` (`CompletionIsTruthful`): the completion reads three conditions one
  after the other, so `FinalizeInv` says that what it has found still holds but for
  projections that came since. Those carry the content they were written with, unless the target
  is `overtaken`: `DrainInv`, from the moment on when some request of the operation has seen
  the queue drained (`DrainSeen`);
- `CursorsAreHonest` (`CursorsLeaveNoGap`): `CursorInv` says of the stored cursors
  and of those each request is about to store what has been passed and what is left of the
  page (`SyncedTo`, `ListedTo`, `PromiseOf`). A request whose operation was
  replaced may still be working; its compare-and-set makes it harmless.

`UnseenIsSpared` (`PurgeSparesUnseen`) and `TypeCorrect` allow content writes at any
time and assume instead that cache revisions do not run out (`RevisionsSuffice`: numbered,
any number of them; the code draws 128 random bits for each; the instances have as
many as their bounded steps can draw). `StampInv` says that every revision seen was drawn,
`RememberInv` that a row remembered with the revision that the Edge row still has lost no comment
since: equal counts then mean equal comments.

**AccountAccessProofs.** No assumption. `CoreInv` is inductive: types (with
`RequestInv`, what a request carries in each state), `AccessInv` (an active account has
a factor, a pending one has none, and only accounts with a factor have passkeys and
sessions), `ChallengeInv` (a registration under way belongs to a session that exists) and
`AdministratorRemains`. From it `AnAdministratorRemains` and `NothingIsLeft`.
`SessionsStayProven` needs to look ahead: a request that has proved something will be
given a session later. `ProofInv` says that whatever a request or a session was
proved with is accepted *while the account still has the revision it carries*, and that
no revision it carries is yet to be drawn; so each change that could invalidate a
proof also ends its revision. `CodesAreUsedOnce` rests on `SecretsInv` (all secrets
are drawn, and one prepared for an account is not its factor yet) and `AcceptedInv` (every accepted code
of a secret is at or before the last step recorded for it). `SetupsStayPaired`
follows from types alone.

**ContentSearchRebuildProofs.** One inductive invariant `IInv` for all: `IndexInv`
joins `EntriesAreCurrent`, `PassedRowsAreIndexed`, `ReadyIsComplete` with what
requests carry – a page read under the stored checkpoint contains every row the
checkpoint will pass (`PageInv`), a verification belongs to a rebuild that has passed
every row (`VerifyInv`), and a search under way has an index that is complete (`CheckedInv`).
No assumption. `MismatchMeansOvertaken` says that edits never make a rebuild fail its
verification.

**ContentAutosaveProofs.** No assumption: any number of calls, edits, Saves, Pages,
sessions, closed editors and foreign changes, and every failure. `Inv` is inductive for types, with
references to Pages that exist and texts of what was written or is being sent, hence
`PromotionsAreExclusive`.

`RecoverableDraftsAreStored` (`RecoverableIsStored`), `NoOlderCopyReturns` (`NoOlderCopy`)
and `ConflictsAreReal` (`ConflictIsReal`) come from one inductive invariant `AllInv`, which
adds

- `FreshInv`: texts are new when typed, so *newer* is *larger*;
- `RevisionInv`: nobody holds a revision the Page has not reached;
- `HookInv`: Save, recovery dialog and conflict exclude each other, and a Save under way is of
  a text that is not newer than the draft;
- `TurnInv`: unless writes overlap (`crowded`), the one that is working is the one
  `inFlight` names, and an overlap is `stray`;
- `AloneInv`: a write that is alone is for the Page the hook has, and its draft is
  still to be stored when it ends;
- `KnownInv`: while nothing has gone astray, the row, the draft and the write under way are
  what the editor takes them for (`RowKnown`, `DraftKnown`, `WriteKnown`).

Going astray ends with a write that was alone when it was stored, and is not older than a Page
saved meanwhile, or with a Save or discard answered while nothing is stored and nothing
is on its way (`NothingIsKnown`): that each of the two establishes all of `KnownInv`
anew is the core of the proof. There is one lemma for each action or group of similar actions
(`TypeKeeps`, …, `AnswerDiscardKeeps`).

**StudioContentProofs: Page tree.** No assumption; imports are covered. `Inv` joins types
(`TypeInv`), `FreshInv` (a Page about to be created is not stored, and no other request names
it), `TreeInv` (`NoCycle`, `ParentsAreLive`, and the foreign key `ParentsAreStored`, which holds for
outdated Pages too) and `FrontInv`. A move is safe because the batch walks the
ancestors again: the new parent is not below the moved Page, so a cycle would need the
edge that is written and one that was not there. An import whose checks still hold does
what a move does; one whose checks do not makes its Page `outdated`, and a group of Pages
without it is as well-founded as before.

**DatabaseMaintenanceProofs.** No assumption. `CoreInv` (`ChunkInv`: a chunk under way belongs to
the artifact of its restore; `StoredInv`: what the journal says was stored is stored;
`ForwardInv`: an upgrade leads to a later version) gives `AcceptedChunksAreStored`.
`GuardInv` (the guard table is there exactly while its operation is, or is a `leftover`)
gives `NothingIsStranded`. `CompleteInv` with `FinalizeInv` (what a finalization checked
still holds while its restore is the one of the journal) gives
`RecordedVersionIsTrue`, unless `unchecked`: the journal has counted as many rows
as the artifact has chunks, and a subset of the artifact's rows of the same
cardinality is all of them. `LifecycleImplemented` is the refinement of `DatabaseLifecycle`,
whose restores may end an upgrade and block later ones, and whose finalizations may be
unchecked.

**Only model-checked.** The liveness properties (`EventuallyProjected`,
`ReviewIsReached`, `ObjectsSettle`, `NotificationSettles`, `RebuildEnds`,
`ChangesGetStored`, `UpgradeEnds`), which are outside what the prover handles, as is
`ENABLED`. Every safety invariant, action property and refinement of the runs is proved.

## 7. What is not modelled

- *Single guarded statements or batches* (Posts and saved revisions, revisioned
  settings, menus, widgets, comment moderation, media metadata, newsletter and form
  management, audit): one atomic step each; there is nothing to interleave. Where
  such a write meets a protocol, it is an action of that protocol's module.
- *Pure projections and presentation* (preview data, public URLs, WXR parsing, the
  client's views), and requests to services without state here (AI, analytics).
- *The exclusion of maintenance operations by each other.* The routes read the other
  operations' rows in one call and write their own in another; with two
  administrators two operations can start together. The operations themselves are
  modelled; this composition is in the plan. One hazard
  (`worker/src/operations/routes.ts`, in `PROJECT.json`) is left without a property
  for this reason.
- *GitHub publishing.* One PUT guarded by the blob it replaces, and a lost reply that
  is confirmed by inspection.

Within the modelled components, section 2 names what is left out of each.

## 8. Plan

1. `MaintenanceExclusion`: the routes' checks over the progress rows of
   `TargetReconciliation`, `ContentSearchRebuild` and `DatabaseMaintenance`, with Clear,
   Reset and Uninstall, which work on two databases in a row.
2. The Posts' editor beside the Pages' in `ContentAutosave`, and the calls that go on after
   the editor is left.
3. `SitePublishing`: the blob comparison, a lost PUT reply, inspection.
