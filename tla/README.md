# discord-fediverse-bridge in TLA+

The bridge publishes Discord messages to the fediverse and back. It is two
programs: the **bridge** (Python, one asyncio event loop, SQLite through
SQLAlchemy, `src/src/`) and the **Fedify gateway** (TypeScript,
`src/fedify-gateway/`), which owns keys, signs and posts activities, and hands
verified inbound activities to the bridge over an internal HTTP API. Everything
durable is in the bridge's database; between two database transactions the
bridge awaits the gateway or Discord, and everything that happens during such an
await is what these models are about.

Paths below are relative to the repository. Its Python package is `src/`; line
numbers in `PROJECT.json` have the prefix `src/` of the checkout in front.

## Inventory

| Component | State it keeps | Operations | Talks to |
|---|---|---|---|
| **User Actor outbox** (`user_actor_delivery.py`, `_worker.py`, `_admin.py`, `db/repositories/user_actor_deliver*.py`) | sources (one per ordering key and logical version), deliveries (source x endpoint: status, claim token), snapshotted audience | insert with a mutation; render; `claim_due`; policy check; submit; gateway call; `record_outcome`; admin retry | gateway batch delivery, follower and policy tables |
| **Content mutations** (`content_mutations.py`, `user_actor_delivery.py`) | desired state per published object, reserved mutations, revision | admit edit or deletion, reserve, claim, dispatch, canonical result, commit, abort, reconcile | Discord events, gateway render/deliver, the outbox |
| **Publication** (`content_publish_service.py`, `content_sync/`) | published objects, message mappings | publish through the gateway, then persist with the Create source | gateway, outbox |
| **Profiles and media** (`user_profiles.py`, `profile_media*.py`) | profile version, media assets and references | edit, render snapshot, orphan cleanup | outbox |
| **User Actor followers** (`user_actor_followers.py`) | relationship per remote actor and user | Follow, Accept, Undo, one notification | gateway |
| **Federation policy** (`bridge_policy.py`, `federation_policy.py`) | allow and deny entries | decision per URL | every outbound path |
| **Gateway delivery** (`fedify-gateway/src/outbound/`) | none | sequential signed POSTs of a batch, an outcome each | remote inboxes |
| **Inbound receipts** (`http_api.py`, `event_receipts.py`, `activitypub_handlers.py`) | receipt per activity id | claim, handle, complete, abandon | gateway, all inbound handlers |
| **Remote subscriptions** (`operations/subscribe.py`, `unsubscribe.py`, `bridge_actor_follows.py`, `remote_subscriptions.py`) | the bridge actor's follow of a community, channels subscribed to it | subscribe, Accept/Reject, unsubscribe | gateway |
| **Local communities** (`local_communities/`, `local_community_lifecycle.py`) | communities, surfaces, remote and local subscribers, content | create, pause, delete; inbound and Discord content; relay | gateway, Discord |
| **Local community relay** (`federation_fanout.py`, `local_community_relay.py`) | source activities, one delivery per follower | select, send, record | gateway |
| **Community sync** (`community_sync/`) | fan-out groups, message deliveries | fan out, edit, delete, backfill | Discord |
| **Personal feeds** (`personal_feed*.py`) | conversations, Discord deliveries with claims | admit, update, delete, deliver | Discord |
| **Profile media and deployments** (`profile_media*.py`, `user_profiles.py`, `db/backup.py`, `app.py`) | files and rows of pictures; database and media directory; restore marker | upload, clean up, back up, restore, recover | file locks between processes |
| **Upgrade of a database** (`db/migrations.py`) | every table | rebuild of changed tables; identity migration of every start | SQLite |
| **Guild invites** (`operations/*guild_invite*.py`) | the published invite of a server | publish, replace, remove | Discord |
| Registration, moderation, audit, other commands, discovery, gateway translation | see `PROJECT.json` | single transactions, I/O or user interface | |

What is hard, and so what the properties are aimed at (all hazards, with lines,
are in `PROJECT.json`):

* **Takeover.** A claim is a token and a time. A drain that is slow, cancelled or
  dead loses its rows after `STALE_CLAIM_SECONDS`, but may still be running; a
  row may be in two hands.
* **Answers that never come.** The bridge gives up on the gateway after 15
  seconds; the gateway goes on. "Failed" means "perhaps sent, perhaps yet to be".
* **Order per lane.** Versions of one object at one endpoint are separate rows
  with separate retries. A newer version must wait for the older ones, a Delete
  must not.
* **Events out of order.** Discord edits may be repeated, reordered or lost;
  desired state is compared by edit timestamp and re-fetched when in doubt.
* **Crashes between transactions.** Recovery scans tables; what is in none of
  the scanned tables is forgotten.
* **State read before an await.** Subscriptions, forum lists, fan-out groups and
  parents are read, Discord or the gateway is awaited, and what was read is used.
* **Files and processes.** A backup, a restore, a cleanup and the bridge share a
  directory through locks and renames; SQLite's own journal and its implicit
  commits are part of the protocol.

What makes each component correct: the outbox sends versions in order, one at a
time, never after they are settled, and settles every row; content mutations
publish edits in Discord's order, lose none, end with the Delete and keep one
transition per object; followers who left get nothing of the past; media lives
as long as something may still refer to it; an inbound Follow is stored once,
answered, and announced at most once; a subscription's row agrees with the Follow
the remote side knows, and does not wait for ever; a copy of a message is in every
channel it belongs to, once, below a copy of what it answers; a relay reaches each
follower who knows the object; a personal-feed message shows the latest admitted
state; a restore, an upgrade and a restart leave one whole deployment with every
reference intact.

## Modules

| Module | What it is |
|---|---|
| `UserActorDelivery` | the outbox with its drains, followers, policy, gateway and remote endpoints |
| `OrderedOutbox` | the abstract specification: lanes of versions that wait, are sent, or are dropped |
| `ContentMutation` | edits and deletions of one published message, from Discord to committed sources |
| `PersonalFeedDelivery` | remote comments below one personal-feed post and the worker that renders them in Discord |
| `InboundFollow` | Follow and Undo of one remote actor, from the gateway's queue to the follower row |
| `RemoteSubscription` | channels that share the bridge actor's Follow of a remote community |
| `CommunitySync` | a post and comments of a remote community, copied between its channels |
| `LocalCommunity` | a post and replies of a community the bridge hosts: fan-out to forums, relay to followers |
| `RestoreJournal` | the restore of a whole deployment, its journal and its recovery |
| `ProfileMedia` | pictures: uploads, versions that name them, cleanup, backup |
| `GuildInvites` | the published invite of one server |
| `Migrations` | the rebuilding of tables at an upgrade |
| `TypedIdentity` | the ids of one conversation and the migration that every start runs over them |
| `MC...` | instances for TLC |
| `UserActorDeliveryProofs`, `ProfileMediaProofs`, `ContentMutationProofs`, `LocalCommunityProofs` | theorems, with TLAPS proofs, about one module |
| `MCOutboxProofs`, `MessagesProofs`, `BridgingProofs`, `KeepingProofs` | theorems about the instances that a run puts beside each other |

The `MC` modules put instances that share no state beside each other, with a
variable (`focus`, `duty`) that is chosen at first and says whose steps the
behaviour takes: `MCOutbox` (two instances of the outbox), `MCEndings`
(`ContentMutation`, extended, and an outbox, under fairness), `MCMessages` (mutations,
feed, ids), `MCBridging` (media, follows, subscriptions, sync, and `MCKeeping`: feed,
restore, invites, upgrade). What one instance does is checked exactly as if it ran
alone. The constants of every instance are constants of the `MC` module with values
in its `.cfg`, so that the theorems about an instance hold for all of them.

### UserActorDelivery

A *row* is a key, a logical version and an endpoint: `user_actor_outbound_deliveries`
joined with its source. `status` and `token` are the row's columns; `srcState`,
`media` and `audience` are those of the source, its media references and
`user_actor_outbound_delivery_followers`; `version` and `deleted` are the counters
of the profile and of the published objects. `stage` and `actors` are the local
variables of `drain_deliveries`; `writer` and `queue` those of `claim_due`;
`late`, `received`, `remote` are the gateway's unfinished work and what the remote
endpoints have seen.

* **Transactions are steps.** Each repository method is one transaction
  (`db/database.py`), so each action is one method. `claim_due` is a loop whose
  decisions depend on what it decided before; it is a *claim transaction* of
  several steps (`BeginClaim`, then `Defer`, `Supersede`, `DropIneligible` or
  `Claim` per candidate) during which `Next` lets nothing else run: it holds
  `BEGIN IMMEDIATE`, the database's only writer reservation. The release of
  media that follows an outcome is a second transaction in the code; it is merged
  with the outcome because it only looks at the rows of its own source and is
  repeated by `CleanupMedia`.
* **Time is a choice.** `due` says which failed rows are past their backoff and
  which sending rows are older than `STALE_CLAIM_SECONDS`. Safety allows any
  choice, also taking over a drain that is alive. `attempt_count` and the length
  of the backoff are not kept: they only decide when.
* **The token is the drain.** The code draws a random token per claim. A drain
  that claims a row twice has finished with it in between, so its identity
  distinguishes what the tokens do.
* **The gateway** posts a batch in order; each POST may arrive or not and may be
  reported as failed although it arrived (`Transmit`). When its caller times out
  or dies, what it has not posted goes to `late` and may arrive at any time.
* **One User Actor.** The per-user claim limit is `ClaimLimit`; rows of
  different users share nothing else. The branch for a user that no longer
  exists is left out.

### ContentMutation

One published object. `edits` is the list of the message's bodies, whose index
is the edit timestamp; `desired`, `wanted`, `stamp`, `unsure` are the desired
columns of `published_activity_objects`; `mutation` are the rows of
`user_actor_content_mutations` in id order; `log` is the sources committed, i.e.
what `CommitMutation` of `UserActorDelivery` inserts; `owed`, `fetched`, `task`
are in the memory of the bridge and vanish in `Crash`.

* Events arrive in any order, repeatedly or never: `RecordDesiredUpdate(s)` is
  enabled for every past edit at any time. Outcomes other than "accepted" change
  nothing and are stutters.
* Leases and backoff are choices: `ClaimMutation` may take any active mutation,
  also one whose drain is alive.
* `sent` is a history variable: the gateway may have acted on the mutation.
* Titles are part of the body. Target inboxes, which enter a Delete's operation
  id too, are left out.
* An undecodable successful answer raises `ValueError`, which `drain_mutations`
  handles as a failed local validation (`GatewayAnswersUnreadably`).
* `revision` is the optimistic check of `commit_canonical`.

The two modules above meet in the transaction of `commit_canonical`: `ContentMutation`
shows that the sources it commits have consecutive revisions and that a Delete
is the last (`DeleteIsLastSource`), and this is what the guards of
`CommitMutation` in `UserActorDelivery` take for granted.

### PersonalFeedDelivery

The comments below one post. `rows`, `parent`, `content`, `removed` are
`inbound_conversation_objects`; `state`, `attempts`, `message` are
`inbound_discord_deliveries`; `shown` is what Discord has, one entry per message
sent for the comment, `Gone` once it is deleted; `batch` and `phase` are the
claims and the point of the worker's only task; `bound` says whether the post's
channel is still its author's personal-feed binding.

* **The inbound handler is atomic.** `handle_inbound_event` awaits nothing, so no
  other code of the event loop runs in it; its transactions are separate only
  for a crash (`CrashInCreate`). Binding commands run in worker threads and may
  come anywhere (`ChangeBinding`).
* **A delivery** is four steps: the first look at the binding and the claim
  (`StartDelivery`), the thread fetched, created or adopted and the second look
  at the binding (`OpenThread`), Discord acting on a send, edit or delete
  (`DiscordActs`), and the recorded outcome (`Succeed`, `Fail`). A call may act and
  still raise, and may act when the worker is stopped or dies in it
  (`Crash(TRUE)`). `fetch_message` of a deleted message raises: `CanAct`. No call has
  a timeout, so each may also never end (`Hung`); only a stop or a crash takes its
  claim back.
* **A revision** is its timestamp; a comment starts with none, which is 0. The
  fingerprint adds nothing to the comparison of timestamps. Actor mismatches and
  unknown roots are answered without a change and left out.
* **Time is a choice**: `ClaimDue(due)` takes any set of ready rows to be past
  their `next_attempt_at`.
* `faults` counts lost answers, stops and crashes, and bounds them. `unwoken` is a
  history variable.
* `set_delivery_thread`, `last_error` and `last_applied_revision` are never read
  by a decision and are left out; `defer_pending_parent` has no caller.

### InboundFollow

`queue` and `attempts` are Fedify's in-memory queue, `receipts` the rows of
`activitypub_event_receipts`, `handlers` the await the handler is at, `row` the follower row of
a User Actor or of a community (`kind`).

* The queue has one sequential listener, so the bridge gets one delivery of it at
  a time; an abandoned request goes on in the bridge beside the next one.
* A receipt in progress makes a redelivery fail as a conflict. Nothing releases
  it after a crash, which is why `StoredIsAnswered` ends at crashes.
* Restarting the bridge deletes follower rows (`migrations.py:1589`). A crash of
  the gateway loses its queue.

### RemoteSubscription

`follows` is `bridge_actor_follows`, `subs` is
`channel_community_subscriptions`, `calls` the commands under way and the await each is
at, `remote` what the other side believes. Both operations read, await the gateway,
and write without reading again. `ImplicitAccept` is content of a community whose
Follow is still pending. `undone` remembers the Follows that an Undo crossed:
those are the exceptions of the properties.

### CommunitySync

`groups` are the fan-out groups of each object, of which nothing in the schema keeps
there from being several; `jobs` the handlers at their awaits, `open` the one remote
event whose answer the gateway's queue waits for. The gateway logs what the bridge
answers to a content event and repeats none, failed or deferred: such an event comes
again only if the remote side sends it anew. `Break` is a request that breaks while
the bridge handles it; the next delivery then overlaps with that handler, and `broken`
counts how often. Members' edits of thread starters are
not propagated in the code and are no actions; Discord events that fire twice are
left out.

### LocalCommunity

Objects form a chain: the post is 0 and `n + 1` replies to `n`. `surfaces` are
`local_community_thread_surfaces` and `_message_surfaces`, `relay` the rows of
`local_community_relay_deliveries`, `jobs` the handlers: a pass reads its targets
once and awaits one call per target. An event is a delivery: an object's Create may
be delivered again under another id or inside an Announce, each delivery has a receipt
of its own, and nothing in the bridge keeps their handlers from running at once. (The
gateway's queue does while its requests last; when one breaks or times out the handler
goes on beside the next. The model lets any two overlap.) Both may look, find
no row, and await Discord; the one that answers later finds the row stored and leaves
its message behind (`Conflicts`, `Answered`). Only Discord's thread events are kept
apart, by the set of threads being published (`ThreadIsFree`). Simplified: subscriber
forums come in subscription order; refusals by policy and by a disabled community
are left out; replies go to recorded parents only; what the author's own message
shows is not tracked.

### RestoreJournal, ProfileMedia

Steps are single renames, unlinks and locks. A generation stands for the content
of one archive, so a mixture is visible. `hot` and `torn` model SQLite: a process that
dies in a transaction leaves pages of it in the file and a journal that takes them
back, and whoever next opens a database at that path applies or discards the journal.
The legacy restore of the database alone takes no lock and writes no marker; it is
left out. In `ProfileMedia` a restore is one step; a backup copies the media in slots
only (`backup.py:440`), so what unsent versions name is not in it, which
`ReferencedHasBytes` excepts after a restore.

### GuildInvites, Migrations, TypedIdentity

A command of `GuildInvites` holds the server's lock across its awaits; a failed call
may have been acted on. `Migrations` models the driver rather than the intention:
which statements begin a transaction, which are committed at once, when a pragma
has an effect, what a rename takes along and a drop cascades to. `TypedIdentity` has
the columns that hold an id (`mapping`, `published`, `row`, `parentId`, `waiting`,
`request`) and what a start makes of each; the messages come from members or from other
servers, in a feed, in a community of the bridge or in a remote one. Activity ids,
addresses of actors and ids of Announces are left out.

## Runs

| Run | Module | Checks | Instance |
|---|---|---|---|
| `outbox` | `MCOutbox` | lane: type, `VersionBarrier`, `DeliveredWasAccepted`, `TerminalIsFinal`, `OnlyOwnerSettles`, refinement of `OrderedOutbox`; audience: `OneVersionEach`, `MediaKept`, `RefollowRevivesNothing` | lane: one object, 3 versions, one endpoint, 2 drains, 1 crash; audience: a profile and a post, 2 endpoints, a follower who may leave, return and be banned, batches of 2 |
| `endings` | `MCEndings` | `EveryRowSettles`, `Converges`, `EditsInOrder` | fair; outbox: 2 versions, 1 crash; mutations: 3 edits |
| `messages` | `MCMessages` | types, `OneTransition`, `DeleteIsLastSource`, `NothingLost`; `DeletedUnseenStaysSuppressed`, `OneMessage`, `WaitsForParent`, `NeverOlder`; `StartKeepsReferences` | 3 edits, 2 drains, 1 crash, 1 unreadable answer; 2 comments, 1 Update each, batches of 2, 2 attempts, 1 fault; a post and 2 comments, 1 other server, 2 starts |
| `bridging` | `MCBridging` | types, `ToldOnce`, `StoredIsAnswered`; `RoutedIsFollowed`, `PendingEnds`; `CommentsReachAll`, `RetriesAddNoCopy`; `EveryDeliveryEnds`; `RecoversWhole`; `ReferencedHasBytes`, `BackupFindsMedia`; `InvitesAccountedFor`; `UpgradeKeepsRows` | fair; 2 Follows and an Undo; 2 channels, 3 commands; 2 channels, a post announced twice, a comment created and announced, and its Update; 2 feed comments; 2 generations; 2 uploads; 3 invite commands; 5 releases |
| `local_community` | `MCLocalCommunity` | type, `CopiesHaveContext`, `MessagesAccountedFor`, `MutationFollowsCreate`, `FailuresAreIsolated`, `RelaySettles` | fair; host and 2 forums, 2 followers; 3 events out of: a post delivered twice, its update, a reply; 1 trouble |
| `stale_delete` | `MCUserActorDelivery` | violates `StaleClaimsRecovered` | fair; 2 versions, 1 crash |
| `late_create` | `MCUserActorDelivery` | violates `DeliveredDeleteIsLast` | 2 versions, no crash |
| `lost_reservation` | `ContentMutation` | violates `AdmittedIsReserved` | fair; 2 edits, 1 crash |
| `stale_comment` | `PersonalFeedDelivery` | violates `DeliveredIsCurrent` | 2 comments, 1 Update each |
| `restored` | `RestoreJournal` | violates `UnfinishedIsUndone` | 3 generations, 3 stops |
| `renamed` | `TypedIdentity` | violates `RemoteIdsUntouched` | 2 comments, 2 servers, 1 start |
| `lost_rows` | `Migrations` | violates `AuthoredRowsSurvive` | 1 failure |

Why these bounds. The decisions of the outbox are per lane (key, endpoint);
three versions are enough for an old row, one in between and a newest, each in
every status, and two drains for a claim and its takeover. One crash suffices
because safety already lets any sending row be taken over at any time. Rows of
different lanes meet only in a batch, in the audience and in the media of their
source: the audience instance has two keys and two endpoints and a batch of two for
that. Three edits with two bodies give an edit back to an earlier text.
`MaxMutations` exceeds `MaxEdits` by enough that the cap does not bind except where
an undecodable answer uses up a reservation. Of the comments of a feed, two are
enough for a reply and its parent and for a claim that waits behind another in its
batch; two attempts give a failure that is retried and one that is the last. Two
Follows are a Follow and its refreshed or repeated successor, with the Undo between
or after. Two channels and three commands give a subscription shared, left, and
made again during the other's await. Two channels of a synced community are the
one that has its copy and the one that has not. In a local community
one forum fails or joins while another is being served, and two deliveries of the post
are enough for each of the orders in which they look, call and store; either the post
or the reply is remote. A restore can be
interrupted twice: once itself and once its recovery. The bound on troubles is
what keeps the instances small; where two troubles are needed for a case (a lost
answer and a crash, a moved database and a backup) the instance allows two or
three.

Where a system has nothing left to do it stops, so deadlock is not checked.

Fairness. The outbox worker passes every 15 seconds whatever happens
(`user_actor_delivery_worker.py`), backoff is capped at 300 seconds and a claim
is stale after a fixed time, so a claim with everything due happens again and
again: `SF` of `FullClaim` and of `ClaimMutation`. Statements of a running drain
follow each other: `WF`. That an endpoint asked for ever accepts once, that a
render succeeds once, that the gateway answers in time once, is the environment's
part (`SF`); without it no retry loop ends. `Converges` further assumes that the
event of the last edit or of the deletion reaches the bridge. The personal-feed
worker passes every five seconds or when woken, and its start and stop take back what was
claimed: `WF` of what it does without awaiting Discord (`Scheduler`). Its awaits of
Discord have no timeout and "can stall indefinitely"
(`personal_feed_discord_delivery_worker.py:51`), so there is no fairness for them,
and `EveryDeliveryEnds` speaks of the behaviours in which none hangs for ever. Of
inbound follows: the queue's timer hands over what is queued, and an awaited call
returns or fails. Of subscriptions: calls return, queued Follows arrive, Accepts that
arrive are handled, and a community the bridge follows has content now and then
(without it a lost Accept waits for ever). These calls are the gateway's, which have a
timeout (`fedify_gateway_client.py:227`). Of local communities: what a handler does
between awaits of Discord, and the relay call, which is the gateway's, go on
(`WF` of `Resume`); no Discord call need end, and nothing that failed need come
again. A violation found under fairness is reported only where the fairness is stated
in the specification.

## Findings

* **`stale_delete`.** A drain dies holding an Update and a Delete is queued.
  `claim_due` skips the stale Update because a newer Delete is unfinished
  (claims.py:65) and the Delete because an older row is sending (232-236). Both
  wait for ever, and the remote copy is never deleted. `EveryRowSettles` holds
  with exactly this lane as the exception.
* **`late_create`.** The gateway call of a Create times out; a Delete overtakes
  it, which is intended, and is delivered; then the gateway posts the Create.
* **`lost_reservation`.** `record_desired_update` and `reserve_next` are two
  transactions; a crash between them leaves an admitted change that no recovery
  pass looks for.
* **`stale_comment`.** The worker has claimed a comment and is sending it when its
  Update is admitted. The row has no message yet, so `admit_update` leaves it
  dispatching; the send is recorded, the row is "delivered" and the Discord message
  keeps the old text. With a message already there, Update and Delete make the row
  "ready" and the outcome of the call under way overwrites that.
* **`restored`.** The bridge dies in a transaction; a restore moves the database
  away and dies; a backup opens the missing path, which creates an empty database
  beside the old one's journal, and SQLite discards the journal. The recovery puts
  back a database with half a transaction in it.
* **`renamed`.** Every start rewrites the mappings of remote comments in local
  communities to ids of the bridge.
* **`lost_rows`.** The rebuild of `published_activity_objects` renames it outside
  any transaction; a death before the commit leaves the rows in the renamed table,
  where the next start does not look.

Behaviour the runs allow and no document contradicts, worth knowing:

* Personal feeds: a Delete admitted during the first send suppresses the row, so the
  id of the message that is then sent is never stored and the message stays; and if
  the bridge dies between a comment's admission and `wake_children`, its waiting
  replies wait until the comment's Create is repeated (the one exception of
  `WaitsForParent`).
* Outbox: rows of a direct target without followers are dropped as ineligible
  (`claims.py:290`); a Delete that became ineligible lets an older failed Create out
  (`claims.py:187`).
* Subscriptions: a pending channel whose follow row is gone waits for ever:
  unsubscribing the last one is refused (`unsubscribe.py:118-126`) and so is subscribing again. An
  Undo awaited for the last channel deletes the follow row that another channel has
  come to share meanwhile.
* Content events: the gateway's listener logs a failure of a Create, Update, Delete or
  Announce and returns (`fedify-gateway/src/federation.ts:155`, `251`), so Fedify's
  queue repeats none of them, neither a failed one nor a comment deferred with 200
  (`http_api.py:477-484`), though the receipts would let a redelivery be handled.
* Local communities: a Create and its Announce, the second handled while the broken
  request of the first goes on, put two messages into a forum, one of which no row
  knows.
* Personal feeds: a call of Discord that never ends keeps its delivery and the rest
  of the claimed batch dispatching until the bridge is stopped.
* Community sync: a post that reached some channels only is not
  retried, and its gaps are closed by the backfill before the next comment.
* Restarts: followers, remote subscribers and bridge follows are deleted and channel
  subscriptions made pending at every start (`migrations.py:1589`). What members wrote
  in a local community is renamed consistently, so the URL that other servers
  know no longer leads to it (`public-activitypub.ts:338-347`), and its author can no
  longer edit it (`content_mutations.py:147`). Two remote comments with one last
  segment make a start raise (`StartFails`). The migration's own closing check, on
  the other hand, cannot fail on any state reached.
* Upgrades: after two interrupted early rebuilds a third start rebuilds `sources`
  with foreign keys on inside its transaction, and the drop cascades to the
  deliveries, although `migrations.py:363` promises the opposite.
* Media: bytes of an upload whose transaction failed are never removed; the
  interval between recovery and start (`app.py:96`) lets another restore come
  first, which `RecoversWhole` survives.

## Proofs

A theorem holds for every value of the constants that satisfies the assumptions of
its module: any number of keys, endpoints, followers, drains, forums, channels,
comments, commands, generations, and any bounds. Every invariant below was checked by
TLC before it was proved. All have the same shape: an inductive invariant with a
lemma per action, then the step of `Next`, then the temporal theorem by `PTL`. In the
tables "P" stands for `Spec => []P` unless something else is said.

### The outbox: `UserActorDeliveryProofs`

| Theorem | Says | Inductive invariant |
|---|---|---|
| `TypeCorrect` | `TypeOK` | |
| `InvInit`, `InvStep` | `Inv` is inductive | |
| `BarrierHolds` | `VersionBarrier`, and at most one row of a lane is sending | `Inv` |
| `TerminalStays` | `TerminalIsFinal` (action property) | `Inv` |
| `DeliveriesAreAccepted` | `DeliveredWasAccepted`, `OneVersionPerEndpoint` | `WorkInv` |
| `OwnersSettle` | `OnlyOwnerSettles` (action property) | `Inv` |
| `MediaStays` | `MediaRetained` | `Inv` |
| `DepartedNotRevived` | `RefollowDoesNotRevive` (action property) | `Inv` |
| `DepartureIsFinal` | relationships a row was addressed to stay ended, and the row unsent | `AudienceInv` |
| `OutboxImplemented` | `ImplementsOutbox`: the refinement of `OrderedOutbox` | `Inv` |

`VersionBarrier` alone is not inductive. `Inv` adds: `QueueInv`, that only a
running claim transaction has candidates and that none of them is settled (its
own steps settle only the candidate they remove); `SourceInv`, that a row exists
only for a version that does, so the rows of a new version are new; and
`DeletedInv`, that a deleted object has a version, so it gets no Create. The steps
of the system are first reduced to four shapes (lemma `StepShape`): a version is
inserted; rows stay or fall back from unfinished to waiting or dropped; a row
starts; a row is delivered, with the rows its Delete makes moot. One lemma per shape keeps the barrier. The argument in
words: a row starts only past older unfinished ones and only when no newer
Delete is unfinished or delivered, so a start cannot break the barrier from
either side; a delivery comes from "sending", where the barrier already held,
and a Delete's delivery settles what it overtook.

`WorkInv` adds what a drain knows of the rows it holds: a row it found accepted was
received (`AcceptedInv`), and no two of them share an endpoint. `SnapshotInv`
in `AudienceInv` says that an audience names incarnations of the past, so a new
Follow is none of them. The refinement maps lanes to lanes: initial states map to
initial states, and each of the four shapes to a step or a stutter of `OrderedOutbox`.

`MCOutboxProofs` carries three of these theorems over to the second instance of
`MCOutbox` (`BatchesStayApart`: `OneVersionEach`; `MediaOutlivesRetries`: `MediaKept`;
`RefollowsReviveNothing`: `RefollowRevivesNothing`). It instantiates the module of the
proofs as the module itself is instantiated; its lemmas `Same...` say, action by
action, that the two instances are one specification.

### Content mutations: `ContentMutationProofs`

| Theorem | Says | Inductive invariant |
|---|---|---|
| `TypeCorrect` | `TypeOK` | `Inv` |
| `OneAtATime` | `OneTransition` | `Inv` |
| `DeleteClosesLog` | `DeleteIsLastSource` | `Inv` |
| `EditsAreKept` | `NothingLost` | `Inv` |
| `OrderHolds` | `EditsInOrder`, if `MaxUnreadable = 0` | `Inv` and `OrderInv` |

The three properties need each other. `Inv` adds what is wanted of an edit and of a
deletion (`DesireInv`), that a message is fetched only after an edit (`FetchInv`),
that a drain works on a reserved mutation (`TaskInv`), what a reserved edit carries
(`RowInv`), and that there are as many revisions as reservations allow and what is
under way is still wanted (`ActiveInv`). Order needs the timestamps:
what the log, the mutation under way and the desired state have are increasing
(`LogInv`, `UnderWayInv`, `StampInv`). An undecodable answer drops the mutation and with it the
timestamp that keeps older events out, so the theorem has the hypothesis that there is
none; the run `endings` checks the property under the same.

### Local communities: `LocalCommunityProofs`

| Theorem | Says | Inductive invariant |
|---|---|---|
| `TypeCorrect` | `TypeOK` | `Inv` |
| `CopiesHang` | `CopiesHaveContext` | `Inv` |
| `NoneMadeTwice` | `MessagesAccountedFor`, and one surface row per object and forum | `Inv` and `AccountInv` |
| `MutationsFollow` | `MutationFollowsCreate` | `Inv` and `RelayInv` |
| `FailuresStayAlone` | `FailuresAreIsolated` | `Inv` and `IsolationInv` |

The heart is `JobInv`: what a handler knows when it awaits a call is still true when
the call answers. `Knows(j)` says it stage by stage (the forum called has no copy yet, but has the thread and the parent; what is
relayed has a canonical row), and the relation
`Grows` says that steps of other handlers only add to it. `NoneTwice` is the uniqueness
of rows that the tables enforce. For calls that make copies nothing of the kind
holds: between a handler's look and its row another may store the same copy.
`AccountInv` says that some set of handlers has been paid for, one overlap each,
such that no two of the others make the same copy and none of the others makes one that
is there; whoever answers to find the copy stored was therefore paid for. `RelayInv` says the same of a batch: it names
only followers who have not got the activity, did not write it, and, for an edit or a
deletion, were sent the create. `IsolationInv` counts the forums without a copy of the
post that its pass is no longer going to serve against the calls that failed.

### Messages: `MessagesProofs`

| Theorem | Says | Inductive invariant |
|---|---|---|
| `MessagesTypeCorrect` | `TypesOK` of the three parts | all |
| `CommentsHaveOneMessage` | `OneMessage` | `FeedInv` |
| `RepliesWait` | `WaitsForParent` | `FeedInv` |
| `DeletedStaysSuppressed` | `DeletedUnseenStaysSuppressed` | `FeedInv` |
| `ChannelMovesForward` | `NeverOlder` (action property) | `FeedInv` |
| `ReferencesSurviveStarts` | `StartKeepsReferences` (action property) | `IdentityInv` |

`FeedInv` says that a comment has one row (`AdmittedOnce`) and the worker one claim of
it, made for the message there is (`ClaimsHold`); that no message shows more than its
row or than the claim that is yet to be acted on (`TextsGrow`); that whatever was
ever due has a known parent (`ParentsKnown`) and what has not ended has an attempt left; and
where each message that no row knows came from: a fault, an answer under way, or a
delivery suppressed meanwhile (`MessagesCounted`). `IdentityInv` says that ids of
the bridge's own objects are at its address and those from elsewhere at their server's,
in every table, so a rename meets all of them or none.

### Bridging: `BridgingProofs` and `ProfileMediaProofs`

| Theorem | Says | Inductive invariant |
|---|---|---|
| `OwnersHearOnce` | `ToldOnce` | `FollowInv` |
| `RoutesAreFollowed` | `RoutedIsFollowed` | `SubscriptionInv` |
| `CommentsAreNotRepeated` | `RetriesAddNoCopy` | `SyncBase`, `CopiesInv` |
| `CommentsArrive` | `CommentsReachAll` | `SyncBase`, `ReachInv` |
| `MediaTypes` | types of `ProfileMedia` | `Inv` |
| `PicturesStay` | `ReferencedHasBytes` | `Inv` |
| `BackupsComplete` | `BackupFindsMedia` | `Inv` |

Follows: the row's id is told of by the handler that claimed it, which no other can,
or was told of; either way it is claimed, or gone for good with its id (`HeardInv`);
that ids are not reused is what makes it inductive. Subscriptions: `CallsInv` says
what each command read before it awaits and what of that others may have changed
meanwhile; `RowsInv` that channels of one community agree with its follow row.
Sync: `SyncBase` fits each handler to the rows it holds on to. `CopiesInv` counts:
copies of a comment in a channel, plus handlers that can still make one, are at most
one more than the requests that broke; a handler beside the first was let in by one
(`Few`), and a comment no handler has seen has no copy. `ReachInv` counts the channels a handler knows to lack the
comment, at each of its awaits, against the calls of it that failed; that nobody joins
or leaves and nothing dies meanwhile is a hypothesis of the property, not of the theorem.

Neither property of the media is inductive alone. `Inv` adds `UploadInv`: published bytes that no
transaction refers to have no row, so no cleanup can choose them; `CleanerInv`: while
the cleanup holds the writer reservation, nothing comes to refer to its candidates;
`BackupInv`: cleanup and backup never run at once; and `ArchiveInv`: what a snapshot
names is of the past, so a restore brings back no id that a later upload draws.

### Keeping, and the types of `MCBridging`: `KeepingProofs`

| Theorem | Says | Inductive invariant |
|---|---|---|
| `InvitesArePaidFor` | `InvitesAccountedFor` | `InvitesInv` |
| `RowsSurviveUpgrades` | `UpgradeKeepsRows` | `UpgradeInv` |
| `RestoresAreWhole` | `RecoversWhole` | `RestoreInv` |
| `BridgingIsTyped` | `TypesOK` of `MCBridging` | `BridgingInv`, `KeepingInv`, `Inv` |

Invites: what a command leaves behind, but for the invite it has in hand, was paid
for by a trouble, at each of its awaits (`CodesFit`, `Debt`). Upgrade: from the first
UPDATE to the commit there is a transaction, and without a failure foreign keys are
off by the time `sources` is rebuilt; a table is filled in the file, or it is the one being
rebuilt. Restore: who has the lock exclusively is alone (`LockInv`); under a prepared marker each
part of the deployment is settled, set aside or replaced, and there is nothing else to find after a
death (`MarkerInv`); what a process knows of the parts follows from its stage and
from what it has still to do (`StageFits`); a journal belongs to the present database
(`HotInv`). All but the lock holds only while nothing else has opened the database between,
which is the exception the property itself makes (finding `restored`).

Types: those of follows, subscriptions, invites and the restore are conjuncts of the
invariants above. The sync needs two more: a handler copies to a group of the post, or
of its own object, that there is, and groups are only ever added (`LinksInv`); and the
queue waits for a delivery (`TroublesInv`). The comments below a
personal-feed post need that what has not ended has an attempt left, that what is due was
admitted, and that a worker past its first phase has a claim (`FeedInv`, again in short what
`MessagesProofs` says of the other instance).

### Assumptions

Constants get what the code or finiteness justifies: sets that are counted are finite
(`Subs` of `LocalCommunity`, `Deliveries` of `CommunitySync`), a model value that stands for
"none" is no member of what it is missing from (`NoRow`, `Nobody`, `NoCode`, `Root`), and the bounds are naturals.
TLC evaluates all of them in the runs (`AudienceAssumption`, `BridgingAssumption`,
`MessagesAssumption` repeat them for instances). No definition of a module that
is proved about is recursive: where the code filters or searches a list, the model picks a
position (`Without` in `LocalCommunity`, `FirstOf` in `PersonalFeedDelivery`), because
the provers know nothing of the library's recursive operators.

### What stays with TLC

* Liveness, and whatever needs `ENABLED`: `EveryRowSettles`, `Converges`, `EveryDeliveryEnds`,
  `StoredIsAnswered`, `PendingEnds`, `RelaySettles`.
* What the violating runs show.

## Plan

Done: every module of the table above, with its runs; each safety invariant and each
action property that a passing run checks is a theorem.

Theorems next: an abstract deployment that is restored in one step, implemented by
`RestoreJournal`; an abstract board of copies, one per channel, implemented by
`CommunitySync` and `LocalCommunity`.

Models next: local replies in personal feeds and the adoption of their threads;
creation and disabling of local communities; deferred comments of the receipt layer.

## Not modelled

Rendering and Markdown, signatures, key storage, SSRF checks, wording of
Discord messages, registration (a one-time session row consumed in one
transaction), moderation and audit (single-transaction edits), discovery and
dashboard (lookups), the gateway's translation of activities (stateless), the
commands beyond the operations above, development tools and vendored code:
`PROJECT.json` lists the files and the reason for each. Of the components that are
partly modelled, its notes say what is left out.
