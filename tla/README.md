# Helvetia Cloud: TLA+ models, checks and proofs

Helvetia Cloud is a platform that builds a customer's repository (or starts a database) and runs it
in Docker containers, for a monthly subscription. This directory models its parts where order
matters: the deployment pipeline, the life of a service, subscriptions and what they allow, metered
usage, accounts and sessions, the webhooks of GitHub and Stripe, event streams, and the pages of the
dashboard and of the admin console that guess, cache, poll or overlap. TLC checks all of it on small
instances; TLAPS proves all but two of the safety properties for every value of the constants.

Contents

1. The system
2. What is modelled, module by module
3. What the runs check and show
4. Bounds, fairness and assumptions
5. What is proved, and how
6. What is only model-checked, and what is not modelled
7. Plan

## 1. The system

### Processes and shared state

| process | code | shares |
|---|---|---|
| API (Fastify) | `apps/api/src` | PostgreSQL, Redis (lock, pub/sub, queues), Docker socket |
| Deployment worker | `apps/worker/src/worker.ts` | the same |
| Scheduled workers: clean-up, subscription check, usage | `apps/worker/src/cleanup.ts`, `subscriptionCheckWorker.ts`, `usageCollection.ts` | the same, and Stripe |
| Reconciliation (interval in the API) | `apps/api/src/utils/statusReconciliation.ts` | the same |
| Dashboard, admin console | `apps/dashboard`, `apps/admin` | the API; cookies and local storage of the browser |

The processes never call each other. They meet in these places, and every hard behaviour of the
system comes from that:

* the **service row** (`status`, `deletedAt`) and its **deployment rows** in PostgreSQL;
* the **job** of a deployment in a BullMQ queue;
* the **containers** labelled with the service's id, and the **images** they are made of;
* the **status lock**, a Redlock key per service with a lease of ten seconds;
* Redis: channels with build logs, previous metrics, refresh tokens;
* webhooks: Stripe's arrive twice, late and out of order, GitHub's once or not at all;
* the cookies and the local storage that the windows of a browser share.

### Inventory

For each component: its state, its operations, what it meets, what is hard, and what makes it
correct. The source files are in `PROJECT.json` ("components"), the hard spots at their lines under
"hazards".

**Status lock** (`packages/shared/src/utils/statusLock.ts`). State: one Redis key per service.
Operations: acquire (ten retries, then an error), release, run a callback under the lock; nobody
calls the one that extends a lease. Hard: a lease that ends while its owner is inside, an owner that
dies, a refusal in the middle of a deployment. Correct when only a client between acquire and
release is ever named by the key, and a release never frees another's lock.

**Deployment worker** (`worker.ts`, `utils/containerHelpers.ts`). State: the local variables of a
job's handler, and everything shared. One operation, the handler, with some twenty awaits, a catch
block that undoes and restarts, and a redelivery when the process dies. Correct when a service that
is up stays up, no leftover container survives a success, a failure restores what ran, two
containers never write to one volume, and row and job agree at the end.

**Build strategies** (`strategies/`, `builders/`). Pull an image, or start a builder container that
clones, generates a Dockerfile and builds, or runs docker compose. Hard: two tries of one job at a
time with the same builder name; networks found by a filter that also matches longer names. Correct
when a builder that holds the name is at work or was left by a death or a failed removal, and
nothing else makes a try fail at it.

**Deployment API** (`DeploymentController.ts`, `DeploymentOrchestratorService.ts`). deploy (row,
then job, then status), stop, restart. No lock around anything but the status. Hard: the order of
its writes against the worker's, and restart or stop against a deployment.

**Service management** (`ServiceManagementService.ts`, `ServiceController.ts`). Create (or revive),
update, soft delete, recover, delete protection. Hard: deletion against queued and running
deployments; defaults in four layers. Correct when what was deleted stops, and a service is served
at the port the form showed.

**GitHub webhooks** (`WebhookController.ts`). A push deploys, a pull request creates, updates or
removes a preview. Hard: removal of rows under a running handler; events at once, lost or late.
Correct when a closed pull request leaves no preview.

**Reconciliation** (`statusReconciliation.ts`). Every 30 s: read all services, list all containers,
then per service lock and write. Hard: it compares and writes what it read before it waited for the
lock. Correct when the stored status ends up equal to what Docker and the newest deployment row say.

**Scheduled clean-up** (`cleanup.ts`, `services/imageCleanup.ts`). Removes services 30 days after
deletion, and old images. Hard: recovery or a new deployment during a clean-up, an image removed
before a container was made from it, names shared by services of two environments.

**Live streams** (`DeploymentController.streamDeploymentLogs`, `ServiceController.streamMetrics`).
State per connection: timers, a Redis subscription. Hard: disconnect or failure between two set-up
steps. Correct when nothing of a connection outlives it.

**Subscriptions and Stripe webhooks** (`StripeWebhookController.ts`, `SubscriptionService.ts`).
State: one subscription row per user. Hard: repeated and reordered events. **Subscription check**
(`subscriptionCheckWorker.ts`): warnings and suspension by days since expiry; hard: boundaries of
the grace period, and SUSPENDED, a mere status, against reconciliation, which never expects it.
**Resource limits** (`subscription.middleware.ts`): count, then create. **Billing**
(`BillingService.ts`): look for a customer, then create one.

**Usage collection** (`usageCollection.ts`, `services/usageCollection.service.ts`). State: previous
metrics in Redis, usage records, what was reported to Stripe. Hard: a retry after half a collection.
**Usage queries** (`UsageTrackingService.ts`): three answers, each of several reads, which must
agree with each other.

**Authentication and refresh tokens** (`AuthenticationService.ts`, `utils/refreshToken.ts`, the
dashboard's `tokenRefresh.ts`). State: a row per user and per token. Hard: two first sign-ins at
once, rotation of one token by two requests, revocation during rotation.

**Organizations, projects, environments** (`OrganizationService.ts`, `ProjectManagementService.ts`).
State: memberships with roles. Hard: the last owner, and deletion of a project whose services run.

**Feature flags** (`FeatureFlagService.ts`, the dashboard's `featureFlags.ts`): a flag is read,
cached and toggled. **Terms and privacy** (`TermsService.ts`, `PrivacyPolicyService.ts`,
`TermsAcceptanceWrapper.tsx`): versions are published while pages are open. **GDPR routes**: an
account is deleted under its sessions.

**Dashboard** (`useServices.ts`, the wizard, the forms, settings): optimistic guesses that are taken
back, lists put together from pages, windows that show one account with the cookies of another.
**Admin console**: flags, and a sign-in that shares those cookies. **GitHub proxy**: passes pages
on.

**Rate limiting and validation, metrics and health, container orchestration, process life cycle,
operations**: configuration, observation and wrappers, see section 6.

## 2. What is modelled, module by module

```
StatusLock <- Platform <- BuildWorker, ServiceApi, Reconciler <- Deployment <- MCDeployment (for TLC)
Deployment INSTANCEs DeploymentRecord
Deployment <- DeploymentProofs

Stripe <- Subscriptions <- MCSubscriptions (for TLC)
                        <- BillingProofs
Subscriptions INSTANCEs SubscriptionRecord

Lifecycle <- MCLifecycle (for TLC)
          <- LifecycleProofs

Quota, Enforcement, Metering, Usage, Storage, Builds, Previews,
Accounts, Sessions, Profile, Tenancy, Consent, Streams,
Flags, Dashboard, Wizard, Configs               <- MCComponents (for TLC)
Metering, Usage, Enforcement                    <- MeteringProofs
Quota, Builds, Previews, Streams, Storage       <- ServiceProofs
Tenancy, Sessions, Accounts, Consent, Profile   <- PeopleProofs
Flags, Dashboard, Wizard, Configs               <- PageProofs
MCComponents, with the last four of these       <- ComponentProofs
```

### The deployment pipeline

The model is of **one service**. Locks, container filters and the reconciliation of a service are
keyed by its id, so two services meet only where `PROJECT.json` says so (COMPOSE services are
matched by name in `statusReconciliation.ts`; this is listed as a hazard, not modelled).

**StatusLock**: the key as a variable `lock`: `Free`, the client whose token it holds, or `Orphaned`
(its owner died). `LeaseExpires` may happen whatever the owner does, so an owner may write after it
lost the lock, as in the code.

**Platform**: the shared state. `dep[d]` is the status of deployment row `d` (rows are numbered in
the order of their creation), `job[d]` its BullMQ job, `status` and `row` the service's row,
`ctr[c]` the state of a container. `ExpectedStatus` is the table in `reconcileService`. `Stopped`
and `Removed` say what Docker does to one container.

**BuildWorker**: the handler of `worker.ts`. `pc[w]` is the await the handler stands at, and each
action is the code from one await to the next.

| `pc` | code |
|---|---|
| load | `deployment.findUnique`, then the validation of variables (outside the try block) |
| mark, capture, build | row to BUILDING, `captureOldContainers`, `strategy.deploy` |
| stoplist, stopold | recreate only: stop what is listed |
| create, start | `startContainer` |
| cleanlist, clean | `cleanupOldContainers`: list, then stop and remove one by one |
| record, slock, swrite | `updateDeploymentStatus('SUCCESS')`: row, lock, service |
| undo, rollback | catch block: remove the new container, restart the old |
| recfail, flock, fwrite | `updateDeploymentStatus('FAILED')`, its errors dropped |
| complete, fail | the handler returns or rethrows |

`CrashWorker` loses every local variable, leaves the job active and the lock orphaned; `StalledJob`
is BullMQ's stalled check, which runs the job again at most `maxStalledCount` (1 by default) times
and then fails it without touching the row. `mode` is chosen when a deployment is created: rolling
(start new, remove old), recreate (services with volumes: stop old, start new, remove old) or
compose.

**ServiceApi**: one member of `Requests` is one HTTP request, and `req[r].at` its await.

| operation | code | steps |
|---|---|---|
| deploy | `DeploymentController.deployService` | row, job, lock, status DEPLOYING |
| push | `WebhookController`, push event | row, job (no status) |
| sync | `WebhookController`, pull request synchronize | status IDLE without lock, row, job |
| stop | `DeploymentController.stopService` | list, stop all, lock, status STOPPED |
| restart | `DeploymentController.restartService` | list, create copy, start it, stop and remove the listed |
| delete, recover | `ServiceManagementService` | deletedAt, list, remove; deletedAt back to null |
| purge | `WebhookController.deleteService` | list, stop and remove, delete rows, delete service |

**Reconciler**: a pass in four steps: read the rows, list containers, take the lock, write. It keeps
what it read (`seen`, `expected`) across the wait for the lock, as the code does.

**Deployment**: the composition. `Next` is one step of one process; `Flap` is Docker's restart
policy (a crashed container shows as restarting and comes back). All properties are stated here.

**DeploymentRecord**: the abstract specification. A row is written only on behalf of its active job,
by the listed moves; a job is added once, after its row; a job that ended never runs again; an
erased row never returns. `Deployment!Rows` maps `dep` to `record` and `job` to `phase` (completed
and failed are both "closed").

### Subscriptions

The model is of **one user**: rows, checkouts and customers of two users share only the unique
columns, whose values come from Stripe and are never the same.

**Stripe** (external): customers, subscriptions with the states of Stripe's API, and `events`, the
log of what it sends, each with the subscription as it was. Payments, renewals, failures,
cancelations and changes of price happen on their own.

**Subscriptions**: the rows and those who write them.

| action | code |
|---|---|
| FindCustomer, CreateCustomer | `BillingService.getOrCreateCustomer`: look for a row, then `customers.create` |
| CompleteSession | the checkout session of `BillingController.createCheckoutSession` is completed at Stripe |
| Deliver | `StripeWebhookController.handleWebhook` with any event sent so far, also an old or an answered one |
| RetrieveCustomer, FindRow, SaveRow | `handleSubscriptionCreated` and `upsertSubscription`: `findFirst`, then update or create, which throws when a unique column would repeat |
| FetchSubscription | `handleInvoicePaid`: `subscriptions.retrieve`, as Stripe is now |
| WriteStatus | `updateSubscriptionStatus`, by `stripeSubscriptionId`, for the four events that update |
| Reply200, Fail | the answer; an exception or a death of the process at any await, after which the event comes again |

`hook[h].at` is the await a delivery stands at, `found` the id `findFirst` returned. `acked` and
`inOrder` are not in the code: what Stripe knows was answered, and whether each event was so far
handled alone and in the order of the log.

**SubscriptionRecord**: the abstract specification. Of Stripe it sees who owns a subscription, for
good, and which subscriptions were ever active. A row adopts a subscription that exists, as a whole
and with its owner, unless another row has one of the two; or it restates its own; ACTIVE only of
one that was active; no row is taken back. `Subscriptions!Record` maps `sub`, the log and `rows` to
these.

### The life of a service

**Lifecycle** follows one service from its creation to its erasure, over thirty days instead of a
few minutes. It composes what Deployment leaves out: creation and revival by name, delete
protection, suspension of an unpaid subscription, the clean-up, the deletion of the project. A
deployment is here a job that is queued, built and started, and the containers are one variable,
since only one is in flight; Deployment has what happens in between. At each of these stages its
worker may die (`WorkerDies`), its variables may be refused, its start may fail with the container
created and not started, its record or its undo may fail; BullMQ then delivers it again or gives it
up, and a delivery that finds no row ends without a look at Docker (`Build`). A suspension writes
the status and nothing else. `odd` is history: which of the excepted circumstances have occurred.

### Components that share no state

Each of these modules is one component against two of its users, a fault or a clock. `MCComponents`
extends all of them; its initial state chooses one (`part`) and only the steps of that one follow,
so that one run covers them without multiplying their states.

| module | models | state | steps |
|---|---|---|---|
| Quota | `subscription.middleware.ts`, creation in `ServiceManagementService.ts` | services by name, plan, requests | status, count, look-up, create or revive; delete, recover, erase; the plan changes |
| Enforcement | `subscriptionCheckWorker.ts`, `requireActiveSubscription` | hours, the subscription row, the days warned | hourly check: read, then act; webhooks write the row; a user passes the middleware |
| Metering | `usageCollection.ts`, `usageCollection.service.ts` | Docker's counters, Redis, records, Stripe | read, record, store, report; retry of the job; restart of a container |
| Usage | `UsageTrackingService.ts`, `BillingController.ts` | records, services, the paid period, a question | three questions read by read; records come, a period is renewed, a service is erased |
| Storage | `imageCleanup.ts`, `cleanup.ts`, deployment strategies, restart | images, tags, containers, what a sweep listed | build, pull, create, restart; list, protect, remove |
| Builds | `strategies/`, `builders/`, `dockerfile-validator.ts` | builders, networks, tries of one deployment | every call of Docker of a strategy, each of which may fail; redelivery |
| Previews | `WebhookController.handlePullRequestEvent` | rows, base services, events, handlers | opened, synchronize, closed await by await; users add, remove, recover; events lost |
| Accounts | `AuthenticationService.ts`, `gdpr.routes.ts` | users, personal organizations, sign-ins | register, sign in by mail or GitHub, link, disconnect, delete |
| Sessions | `refreshToken.ts`, `AuthController.ts`, `tokenRefresh.ts` | tokens in Postgres and Redis, cookies, tabs | refresh, rotate, revoke, logout |
| Profile | login, signup, settings and navigation of the dashboard, login of the admin console | accounts, cookies, local storage, windows | every button of these pages, its request and its answer |
| Tenancy | `OrganizationService.ts` | members, roles, requests | add, change, remove: check, count owners, write; delete an account |
| Consent | `TermsService.ts`, `PrivacyPolicyService.ts`, `TermsAcceptanceWrapper.tsx` and its modals | versions, acceptances, pages | publish, ask, answer, scroll, accept, decline, reload |
| Streams | both event streams of the API | timers, Redis connection, the client | set-up step by step, token check, time limit, disconnect, failures |
| Flags | `FeatureFlagService.ts`, `featureFlags.ts`, the flags page of the admin console | flags, cache, checks, edits, clock | create, edit, toggle, delete; ask, read, answer, evict |
| Dashboard | `useServices.ts`, `projects/[id]/page.tsx` | the cached list, guesses, requests | mutate, guess, roll back, refetch, stream metrics |
| Wizard | `new/page.tsx`, both pickers, `GitHubService.ts` | GitHub's list, fetches, the form | fetch pages, switch organization, choose, submit |
| Configs | `ConfigurationStep.tsx`, `EditServiceModal.tsx`, `service.schema.ts`, `getServiceDefaults` | the row, open forms, stale lists | choose, change type, type a port, create, edit, delete |

What these models took a close reading to get right, and a reader may doubt:

* *Previews*: a preview always has an environment, so the unique index on name and environment
  applies; an existing row with that name and that user is adopted. Nobody moves a preview to
  another repository.
* *Profile*: the settings page deletes an account, and the callback links GitHub, with a string body
  and no content type; the browser calls it text/plain and the schema answers 400. Both are
  therefore refused from the pages and done by other clients (`OtherClient`). `GET /auth/me` answers
  no role. A failed logout leaves the httpOnly cookies. An administrator's login is one for the
  dashboard's windows too, also when the console refuses whoever it was.
* *Configs*: the modal is opened by `projects/[id]/page.tsx`, which sends every field by PATCH.
  `JSON.stringify` makes an emptied port null. An image after "static" was chosen is created as
  STATIC at port 80; a database asks for a port in vain; a compose stack shows 8080 and is created
  with 3000. These three are what `InVain` names.
* *Dashboard*: an update and a deletion neither cancel the request for the list nor make one. A list
  that was read before and comes after the answer shows the old row, or the deleted one, until
  something else fetches (`overtaken`, `crossed`).
* *Consent*: accepting while a newer version is published hides the modal until a reload; accepting
  an older version after a newer one makes acceptance required for ever (`late`); a page that still
  holds an answer from before may ask again for what another page has just accepted.
* *Builds*: the builders of Docker and static builds are not removed by Docker when they exit; only
  that of compose is. One left by a dead worker holds its name for ever, and each redelivery of the
  job fails on it.
* *Accounts*: any membership counts as a home, so who was added to another organization
  (`BecomesGuest`) before the first look-up gets none of their own. *Sessions*: every revocation is
  two awaits, row and Redis; two requests that both passed the checks each yield a token, although
  `apps/api/docs/SECURITY.md:295` and `:335` call the tokens single-use.
* *Streams*: a metrics stream that ended before its interval was set (`ServiceController.ts:593`)
  keeps the interval for good, since it finds the stream already cleaned up, and a failed
  unsubscribe keeps its Redis connection.
* *Flags*: the cache evicts before it inserts, so it may hold one entry more than `MAX_CACHE_SIZE`.
* *Metering*: `Math.round` reports nothing of short intervals, and a report that is retried may
  count twice at Stripe. *Quota*: a recovery asks neither for a subscription nor for room.
  *Enforcement*: day 7, on the list of warnings, is never reached.
* *Wizard*: the form keeps a repository's address when the import type changes. A repository that is
  updated between two pages moves to the first, which has been read: it is missed itself, and the
  last of the page before shows twice. An organization that does not answer is left out of the
  images silently. Packages, organizations and branches are the first thirty.

The operators of the form `Action_Suffix` in a module are mutants: the same definition with a
plausible bug, used to show that a property would notice it.

## 3. What the runs check and show

| run | asks | answer |
|---|---|---|
| `pipeline` | Do rows, jobs and lock stay consistent when two requests of any kind meet the worker, with a crash, a redelivery, refused locks, lost leases, failing enqueues, builds, restarts? | Yes: `OutcomeAgrees`, `NoOrphanRecords`, `LockHeldOnlyInside`, and the rows implement `DeploymentRecord` |
| `rolling` | Do two deployments in a row, each failing anywhere and with a crash at any await, keep the service up and clean? | Yes, with one worker and a lock that is granted: `ZeroDowntime`, `SoleSurvivor`, `OneWriter`, `RollbackRestores` |
| `reconcile` | Do jobs end, and does the stored status settle on the true one, with deploy, stop, a flapping container, a crash and stale writes? | Yes: `JobsSettle`, `StatusConverges` |
| `webhooks` | One subscription through all its states, or two checkouts at once; five events, two deliveries at a time in any order: what is always true of the rows? | `ActiveWasPaid`, `OneRowPerCustomer`, and the rows implement `SubscriptionRecord`; and in-order handling mirrors Stripe: `MirrorsStripe` |
| `lifecycle` | One service from creation to erasure: does what is deleted stop, is only what is due erased and all of it, does a suspension end? | Yes, with the exceptions each property names |
| `components` | Each of the seventeen components above against two users, a fault or a clock | Yes: see below |
| `stale_pass` | Is a right status ever replaced by a pass that waited for the lock? | Yes. The document says the pass reads under the lock; the code reads before it |
| `stuck` | Does DEPLOYING always end? | No. A job that fails before the try block leaves its row QUEUED, and every pass maps QUEUED to DEPLOYING |
| `lock_refused` | Is the service up at all times if acquire() may time out? | No. The refusal comes after the old containers are gone, and the catch block removes the new one |
| `two_workers` | And with two workers, as the documented replicas allow? | No. Each clean-up removes the other's new container |
| `suspended` | Does a suspended service stay SUSPENDED until its user does something? | No, although the document says so: no pass ever expects SUSPENDED, so the next one overwrites it |
| `grace` | Does a user whose renewal failed keep the services for seven days? | No. The webhook has moved the period's end into the future, and the check takes a negative time for a grace period that is over |

The first six pass; the other six each find one property violated that a document or a comment of
the repository states; `PROJECT.json` ("findings") quotes it. In `lock_refused` and `two_workers`
the property is the one `rolling` shows to hold: each run adds exactly one circumstance.

The properties, and why they are not obvious. Of the pipeline:

* `OutcomeAgrees`: the row says SUCCESS *before* the lock and the status write are tried, and may
  have to be taken back; redelivery runs the handler again on a row that already says SUCCESS or
  FAILED. The property holds with three exceptions, each of which the code really has: the row was
  erased, the variables were refused before the try block, BullMQ gave the job up.
* `NoOrphanRecords`: the purge deletes the rows and then the service, in two statements, and an
  update of the preview may create a row in between or run into the missing service. The cascade and
  the foreign key of the schema are what saves it.
* `LockHeldOnlyInside`: every way out of the callback releases, also a throwing one, a late release
  must not free someone else's lock, a dead owner's key must not count.
* `RecordsKept`: refinement of `DeploymentRecord`, under purges that take the row away below a
  running handler.
* `ZeroDowntime`, an action property: the last running container goes down only in a recreate
  deployment, or when a deployment that found nothing running is undone.
* `SoleSurvivor`: containers left by crashed or failed attempts are unknown to the handler that
  finds them; cleaning up only what ran when it began (the mutant) is not enough.
* `OneWriter`: with volumes, at most one container runs, also while a failed deployment is undone
  and rolled back, and when a crashed one runs again.
* `RollbackRestores`: whichever step failed, what ran before runs again before the row says FAILED.
* `JobsSettle`, `StatusConverges`: liveness, see fairness below.

Of subscriptions:

* `ActiveWasPaid`: no handler looks at an event's time, so a row may be revived by a late event;
  what still holds is that the subscription was active at some time. It takes the mapping of states
  and the re-read of the subscription together.
* `OneRowPerCustomer`: the row is looked for and created in two awaits without a transaction and
  `userId` is not unique; only the unique customer id makes the second creation throw, and only
  while the user has one customer.
* `RowsKept`: refinement of `SubscriptionRecord`. `upsertSubscription` finds a row by user and
  replaces customer and subscription, while another delivery updates it by subscription; two
  checkouts may have made two customers. That a row never pairs a subscription with a stranger
  (`RowIdentity`) follows, and is a theorem of its own.
* `MirrorsStripe`: with each event handled alone and in order, but failing and repeated as often as
  one likes, the row ends as Stripe has it: subscription, period and state. One exception, which the
  code has: after a failed *first* payment the row says PAST_DUE of a subscription that is
  incomplete, and nothing corrects it until Stripe's next event. It says nothing of the plan:
  `docs/BILLING.md:63` has plan changes synced, but the update (`SubscriptionService.ts:170`) does
  not write the plan, which with its limits stays the old one for good.
* `WarnedFirst` (Enforcement): a suspension by the end of the grace period comes after the warnings
  of days 1, 3 and 5, although the check runs by the hour and compares whole days. `GraceKept` is
  the one that fails.
* `LimitHeld` (Quota): the limit is counted, then the service is created, and nothing is locked in
  between. What holds is a bound: the largest limit so far, one less than the requests at once, and
  the recoveries, which nobody counts.

Of a service's life (`lifecycle`):

* `ErasedLeavesNothing`: the clean-up removes containers and then the row, while deployments go on;
  one that comes to record on a row that is gone removes its own container. Excepted are a
  deployment that left a container during the clean-up or after it: it succeeded, or its container
  was created and did not start, or its worker died, and the delivery after that finds no row and
  looks no further (`left-while-purged`); a Docker that refuses; and the deletion of the project,
  which never looks at containers. All of these the code does leave.
* `DeletedStops`: deletion marks the row and then removes what it lists. Excepted are deployments
  under way, since they do not look at the mark, and an API that dies between the two.
* `ErasedAfter30Days`, an action property: the pass reads its list once and acts on it later; what
  is recovered in between is erased all the same, and nothing else is before its time.
* `SuspensionEnds`: the suspension is only a status, and reconciliation, which knows nothing of
  subscriptions, replaces it. So a paid service is not left SUSPENDED by a check that began before
  the payment. `SuspendedStays` is the other side, and is the one that fails:
  `apps/api/docs/RESOURCE_LIMIT_IMPLEMENTATION_SUMMARY.md:134-137` has a service SUSPENDED until its
  user reactivates the subscription or restarts it, but within half a minute a pass writes RUNNING
  again, for containers that were never stopped; check and pass then take turns.

Of accounts and sessions:

* `OneHome` (Accounts): two first sign-ins at once both find no personal organization; the lock on
  the user's row and the unique slug make it one; none, for who was a member of another organization
  before.
* `RotatedOnce`, `LogoutHolds` (Sessions): a token is revoked in Postgres and in Redis, one after
  the other, while tabs with the same cookie rotate it. A token that was revoked when it was sent
  yields nothing; what a logout read is invalid afterwards. A request sent before may still yield a
  token, two sent at once one each.
* `LastWayIn` (Profile): the settings page offers "disconnect" by the account it shows, the request
  carries the cookies of whoever signed in last; only the API's own check keeps that account from
  being locked out.
* `LastOwnerKept` (Tenancy), an action property: owners are counted, then the member is written. An
  organization loses its last owner only with the account, or when another request changed the
  owners in between.
* `AskedOnce` (Consent): the API requires nothing of who accepted the newest version, unless an
  older one was accepted late; no page shows both modals, in whatever order two queries answer while
  versions are published, nor one that the last answer it heard does not ask for. That answer may be
  older than an acceptance in another page: until the next one the page may ask again.

Of usage and images:

* `UsageOnce` (Metering): a collection is retried as a whole after any of its awaits failed, and a
  counter starts anew with its container. Traffic is recorded once, unless Redis did not take the
  counter; time, once per period and repetition.
* `AnswersAgree` (Usage), an action property over two answers: periods that only touch share no
  record, and an answer about more contains what the earlier one counted and costs no less, although
  each is three reads between which anything may happen.
* `Restartable` (Storage): what a service's container was made of is not swept away, although the
  sweep lists, protects and removes in separate steps and two services may share a tag.
* `FailuresExplained` (Builds): two tries of one deployment create and remove a builder of the same
  name, and a try fails when it is taken. What holds it is the builder of a try at work, or one
  whose worker died or could not remove it, and every way out of a strategy must see to that.
  Networks are found by a filter that takes longer names too; a missing one, and a Dockerfile that
  does not parse, have the causes that are named.
* `ClosedLeavesNone` (Previews): 'opened' and 'synchronize' at once, lost, or failed half-way leave
  at most one live preview, which is all 'closed' removes. It is said of a 'closed' that is handled
  last and alone: a late 'synchronize' makes the preview again, and nothing removes that one.

Of pages and streams:

* `NothingLeaks` (Streams): whatever fails or disconnects during the set-up, somebody frees timers
  and connections, with two exceptions that are leaks of the code: a metrics stream that ended
  before its interval was set, and an unsubscribe that failed. What a client that left during the
  set-up, or a failing Redis, leaves is freed when the token expires.
* `AnswersRecent` (Flags): an answer was true within the cache's time and one check, though answers
  overtake each other.
* `GuessesEnd` (Dashboard): mutations take back their guess by restoring the list they saved, in
  which another's guess may stand. When everything has ended and the last refetch succeeded, no
  guess is left and no row is older than what a guessed mutation of it, or an update, ended with,
  except one whose update or deletion was answered between the reading of a list and its coming:
  that one is wrong until the list is fetched again, and the code does not see to it.
* `NoneMissed` (Wizard): GitHub sorts by the time of the last update, so pages shift while they are
  fetched; what was left alone is not missed, unless a repository was deleted. One that is updated
  meanwhile may be.
* `ServedAsShown` (Configs): a port passes through two forms, a schema, a controller and a service,
  each with defaults, and forms are opened on stale lists. The row has the port of the form that
  wrote last, and the port of the last form in which somebody changed it, unless a form from an
  older list has put the older one back since, as the code does (`writtenBack`).

`TypesOK` and the `TypeOK` of the other runs say that the variables have their types.

## 4. Bounds, fairness and assumptions

Bounds (constants of the modules, values in the `.cfg` files)

* `MaxDeployments` 2: the interesting cases are a deployment over another's containers or leftovers;
  1 in `reconcile` and the violation runs that need no second.
* `Containers` 3: an old one, a new one, a leftover. A run may use them up; then no further
  container is created and the failing branch of create is taken, which every state at "create" also
  allows.
* `Requests` 2: any two operations against each other and the worker.
* `MaxCrashes` 1 and `MaxStalls` 1: one death, one redelivery, and a job given up (`MaxStalls` 0 in
  `reconcile`, where the state space with liveness would be too large).
* `Passes` 1, repeating for ever. The code does not keep two passes apart; the theorems hold for any
  number.
* `pipeline` explores recreate and compose; the steps of rolling are those of recreate without the
  stop, and `rolling` covers it with the container properties, with two requests that deploy. In
  both the constraint `OneRepeat` lets one job, once, run again. `rolling` was checked once by hand
  without it (3.4 million states), and the theorems about its properties do not have it. In
  `pipeline` the constraint `OneMode` keeps the type of the service between two deployments; in
  `rolling` it may change, and once, by hand, `pipeline` too was checked with it (1.9 million
  states).
* Subscriptions: `MaxEvents` 5 with one subscription is enough to create it, pay it, and renew or
  fail or cancel it (payments send two events); with two subscriptions the constraint `SmallIfTwo`
  keeps three, which is two creations and one more. Two `Hooks` are two deliveries that overlap; a
  third would only repeat a pair. Two rows are what two customers can lead to. Two prices.
* `lifecycle`: three requests, two at a time; one lapse, one pass of the clean-up. A fourth request
  would repeat one of the pairs over the same row. How often a job is delivered again is not
  bounded. The constraint `Bounds` keeps one circumstance that is excepted, and no pass or check,
  which only write a status, after it or after the last request. `suspended` needs one request at
  most and no clean-up.
* `components`: two of everything that meets in pairs. `MaxTokens` 3 is a token, its successor and
  the one another tab makes; `Horizon` is a week, a day and the hours of the paid period, in steps
  of eleven hours, which fall on every side of the boundaries; `MaxTrouble`, `MaxFaults` and
  `Attempts` let a retry fail and be retried; `MaxSends` 4 is a sign-in in each of two windows, one
  dialog and one request of another client; `MaxTries` 2 is a job and its redelivery; `MaxSaves` 3
  is a creation and two edits, the second from a list of any age. One editor window, whose list goes
  stale when the wizard writes the service anew, so that it edits from an older list as a second
  window would; two windows with three saves are too many states.
* The constraint `Bounds` leaves out states in which both pages have asked about the privacy policy,
  and those after which `ClosedLeavesNone` says nothing (`calm` is false for good). While it is true
  the repository has one base, so there is one site. Two ticks and records of one tick in Usage: two
  periods of one record each, or a period of both. With two sites, and with three ticks and records
  of two, the same properties were checked once by hand and hold.
* In Wizard the repositories of the organization are alike: only the lists in which `b` is before
  `c` are initial.
* One account per person in Profile; two plans, the smallest and the unlimited one, in Quota.

`SYMMETRY` over requests, and over the alike pair of `components`, is used in the runs without
liveness. Deadlock is not checked: requests are bounded, and a finite set of them that has ended is
the normal end.

Fairness, only in `FairSpec` and `LifecycleFairSpec`

* Weak fairness of the stalled check and of the lease: BullMQ's timer and Redis's expiry act on
  their own.
* Strong fairness of a worker's and a pass's steps: both may be kept from the lock again and again,
  but an acquire() retries for two seconds and a holder is inside for one database write. Where this
  fails the code throws, which is `LockTimeouts`, off in this run and on in `pipeline`.
* No fairness for requests: an API process may die anywhere, so a request may stop for ever.
* No fairness for `Flap` or crashes.
* In Lifecycle: weak fairness of each step of a job, of the subscription check and of
  reconciliation, which a scheduler repeats, and of a clean-up that has begun; none for requests,
  lapses, payments, or the beginning of a clean-up.

What is assumed of the environment

* PostgreSQL and Redis answer in the pipeline. A missing row fails an update (modelled); a database
  that is away is not. In Streams, Sessions and Metering they may fail.
* Docker: creating, starting, building and listing may fail in the worker, restarting old containers
  if `RestartFaults` (off in `rolling`: a Docker that refuses to restart is not something a rollback
  could repair). A stop or a forced removal of an existing container succeeds (in Lifecycle it may
  be refused). `docker compose up` replaces the containers of its own project, which may be any of
  those there are. The stop and the forced removal of the new container in the catch block, and of a
  listed one in `softDeleteService`, are one step each.
* The list of containers is one snapshot. States paused and dead are left out.
* A pass's own listing does not fail (the pass would end without a write).
* A job is found stalled only when its worker died; a live worker renews its job's lock. (In Builds
  a job is also taken from a live worker.)
* The random postfix of a new container's name tells it from the others (listed as a hazard).
* Row creation and the read of the service before it are one step in deploy and push; in sync the
  row may be gone in between.
* Stripe: a subscription begins incomplete or active (checkout sets no trial). An invoice's event is
  logged before the subscription's that it causes. A customer that exists is found again by
  `customers.retrieve`. An invoice may or may not name its subscription, as the code allows for
  both.
* Webhooks come with a valid signature (the others are refused before anything is read). The user of
  a subscription is not deleted.
* In the pipeline the service is not protected from deletion (it may be in Lifecycle), and its type
  may change between two deployments, which the choice of a mode per deployment covers.

## 5. What is proved, and how

For every value of the constants, as far as the named assumptions of the modules go: bounds are
numbers, flags are Booleans, things that could be taken for each other are different (a lock's owner
and `Free`, a row's id and the 0 that stands for none, a live stream's kinds), and what is counted
is finite. Every safety property of a passing run is a theorem, type invariants and the two
refinements included. The theorems whose names `PROJECT.json` lists are in eight modules (with
`<Component>TypeCorrect` for each of the seventeen components):

| module | about | theorems |
|---|---|---|
| DeploymentProofs | Deployment, DeploymentRecord | `TypeCorrect`, `LockSafe`, `JobInvHolds`, `OutcomeCorrect`, `PurgedLeavesNoRow`, `RowsImplemented`, `OneSurvivor`, `OneWrites`, `FailureRestores`, `StaysUpAlways` |
| LifecycleProofs | Lifecycle | `ErasedIsGone`, `DeletedIsStopped`, `NothingErasedEarly` |
| BillingProofs | Subscriptions, SubscriptionRecord | `RowsTyped`, `NothingForFree`, `NeverMixed`, `NeverDoubled`, `RowsImplement`, `OrderMirrors` |
| MeteringProofs | Metering, Usage, Enforcement | `UsageIsOnce`, `AnswersDoAgree`, `WarnedBefore` |
| ServiceProofs | Quota, Builds, Previews, Streams, Storage | `LimitExceededByNoMore`, `FailuresAreExplained`, `ClosedIsEmpty`, `StreamsAreFreed`, `ContainersRestart` |
| PeopleProofs | Tenancy, Sessions, Accounts, Consent, Profile | `OwnerStays`, `RevokedYieldsNothing`, `LogoutLasts`, `HomeIsOne`, `AskedOnceOnly`, `NobodyLockedOut` |
| PageProofs | Flags, Dashboard, Wizard, Configs | `AnswersAreRecent`, `GuessesDoEnd`, `NothingIsMissed`, `PortsAreAsShown` |
| ComponentProofs | MCComponents | `EachComponent`, `TypesAreCorrect` |

Each is proved in one way: an inductive invariant, a lemma per action or group of actions that says
the invariant survives it, and a temporal step that puts them together. What an invariant needs
beyond the property is said here; that is where the argument is.

### The deployment pipeline

`LockHeldOnlyInside` is inductive with `TypeOK`: each action either leaves the lock and its client's
place alone, or moves both.

`OutcomeAgrees` is not: "a job that completes has a row that says SUCCESS" needs to know what the
row says at `pc[w] = "complete"`, and hence at every await since it was written, and that nobody
else writes it meanwhile. `JobInv` adds just that:

* `OneOwner`: an active job has at most one worker, and a worker's job is active (a stalled job is
  handed out again only when its worker is gone);
* `OneSubmitter`: a row whose job is not yet added belongs to one request, so a job is added once;
* `Written`: what the row says at each await: BUILDING from "capture" to "record", SUCCESS from
  "slock" to "complete", FAILED from "flock" to "fail", BUILDING or SUCCESS in the catch block
  before it is written, and GONE at any of them;
* `StallsBounded`: a job stalls at most `MaxStalls` times, so the exception of `OutcomeAgrees` is
  exact.

`NoOrphanRecords` follows from the rules of the schema, action by action: a worker only writes a row
that is there (`WorkerRows`), a request only creates one for a service that is there
(`RequestRows`), and a row that is gone never returns (`NoRowRevived`).

`RowsImplemented` uses `TypeCorrect` and `JobInvHolds`: under them each step of the pipeline is a
step of `DeploymentRecord` or leaves rows and phases alone. Purging is `Erase`, which the abstract
specification allows at any time.

The four properties of `rolling` are proved under hypotheses, which the theorems state and which are
those of the run:

* `Undisturbed`, for all four: one worker; requests only deploy, push, synchronize or recover; no
  container flaps; no compose stack;
* `Obliging`, for `FailureRestores` and `StaysUpAlways`: the lock is not refused and Docker restarts
  what it is asked to.

Deployments, containers, crashes and redeliveries are any number. The hypotheses are needed:
`two_workers` and `lock_refused` exhibit what happens without. `ContainerInv` says how the
containers stand at each await: the new container is in the state its place in the handler says, and
what a clean-up has still to remove is everything else, whoever left it (`ReplaceInv`); and, while
every deployment recreates, at most one container runs and it is one the handler captured until the
new one starts (`OneInv`). `ObligedInv` adds that what ran at the beginning exists, running or
stopped, and is all that the catch block starts (`RestoreInv`), and that only a recreate deployment
stops anything before the new one runs (`UpInv`).

### The life of a service

`LifecycleInv`. The properties speak of a service that is erased or deleted; requests, a job and a
pass of the clean-up may have begun before, and a worker may die. `ErasureInv`: from the removal of
the containers on, what is in Docker belongs to a deployment that started it and has not yet
recorded its success, and which will find no row; each other way a job may leave a container behind
is noted where it happens. `DeletionInv`: what still runs is what the deleting request is about to
remove. `AgeInv`: what the pass listed is still thirty days old, and no request that read the
service before is about to delete it (which would reset its age).

### Money

*Subscriptions*, `IInv`: a row takes what it holds from an event, so the invariant says where every
id comes from. `EventsInv`: an event names an existing subscription, with the customer it still has,
and "paid" only if it was active. `HooksInv`, `CheckoutsInv`: a handler's event is in the log, a
checkout's customer exists. `RowsInv`, `OwnCustomer`: a row is about an existing subscription and
its customer, and no two rows share a customer. Stripe's state only grows (`Grows`), so what a
handler read before an await is still true after it.

`RowsKept` is proved step by step from `IInv` (`RecordStep`). A change of a subscription that is
logged is the abstract `Pay` or invisible (`ChangeSeen`), a completed session is `Open`
(`BeginSeen`), `SaveRow` is `Adopt`, `WriteStatus` is `Restate`, everything else changes nothing
that is mapped. Where the handler writes what it read earlier, `EventsInv` says that it is still
true: an event's customer is still the subscription's, and what was active stays one of those that
were.

`MirrorsStripe` needs a second invariant, `MirrorInv`, about order. Of the log (`LogInv`): the last
event of a subscription that is *firm*, after which no update of the same change is due, carries the
subscription as it is; the last that created one is of the newest; an event that moves no period
(deleted, a failed first payment) repeats the period of the one before. Of the rows (`RowsAt(m)`):
there is at most one, of the newest subscription created among the first m events, and it agrees
with that subscription's last event among them if that is firm. Of the handlers (`TurnInv`): in
order, the first m events are answered, the only handler is at event m + 1, and the rows are
`RowsAt(m)` or already `RowsAt(m + 1)`, which they are before it is answered. So a handler that
failed after its write, and runs again, finds the rows it left. (The proof needs that 0 is no row's
id; the assumption was added to the module.)

*Metering*, `MeteringInv`: for every service, the traffic recorded, the difference the job holds and
what the counter is ahead of the value in Redis are together no more than was sent (`Carried`).
*Usage*, `UsageInv`: an answer consists of records of its services and its time, each of which is
still there or went with its service. *Enforcement*, `EnforcementInv`: a day that is over had its
warning, unless the check that read the row has still to act on it; what the check read is as unpaid
as the row is.

### Services

*Quota*, `QuotaInv`: a request counts from its admission until it has written, so what it will
create is in the sum that `LimitHeld` bounds. *Builds*, `BuildsInv`: a builder has one try from its
creation until it is removed or left, which is known, networks that were seen are still there, and a
generated Dockerfile consists of lines that are understood. *Previews*, `PreviewsInv`: as long as
nothing went wrong (`calm`), events are handled in order, 'closed' is handled alone and its row is
the only live one. *Streams*, `StreamsInv`: what each place in the set-up has opened (`HeldBy`).
*Storage*, `BackedInv`: each container's image keeps a name, or one was taken by a later deployment.

### People

*Tenancy*, `TenancyInv`: a request about to take an owner away counted another one (`CountedInv`).
*Sessions*, `SessionsInv`: a token that was revoked when a request with it was sent is gone at each
place that request has reached, and a logout has seen every valid token it is to revoke; tokens only
wither (`Withers`). *Accounts*, `AccountsInv`: a transaction holds the lock of its user's row, and
while it looks for a slug that user has no home of their own. *Consent*, `ConsentInv`: the
acceptance that counts is of the newest version accepted (`LatestInv`), a page shows one modal,
which its last answer asks for. *Profile*: `LastWayIn` is inductive with the accounts' type.

### Pages

*Flags*, `FlagsInv`: what a check read, what is cached and what is shown were each true at an
instant their time bounds. *Dashboard*, `DashboardInv`: no list, report or card is newer than the
version it comes from, and without a request for the list or a guess under way each card shows what
came or was streamed; a card older than a report was crossed. *Configs*, `ConfigsInv`: a stored row
has a port that fits its type, and so has each stale list and each open form, which knows the port
it was opened with, so that a form whose port is that one has changed none. (The proof showed that
two guards of `PortShown` overlapped; they now exclude each other, as the branches of the form do.)
*Wizard*, `WizardInv`: of what was left alone, a fetch that is at page n has got what it has not
still ahead, which is what has at least (n - 1) pages of repositories before it. An update only adds
to what is before. That the last page is the last, although only its length is looked at, is a lemma
about numbering (`PlacesTaken`, `FullSlice`): what is before a repository takes each place up to its
own once, so a page before it is full. (The list was a sequence sorted again with each update; it is
now the time of each update, by which GitHub sorts, since nothing can be proved here about a
recursive operator on sequences.)

### All of them together

The run `components` checks `MCComponents`, where only the component chosen at first moves.
`EachComponent` says that a behaviour of the whole is one of each component: a step is one of its
`Next` or leaves its variables alone, by one lemma for each group of components. So each theorem
above about `QuotaSpec`, `MeteringSpec` and so on holds of that run's specification, with any
constants, and `TypesAreCorrect` follows from the seventeen type theorems. A type is rarely
inductive alone: what a request or a job carries has the type of what it was read from, so most of
them need the component's invariant (traffic is natural because a difference that would be negative
is taken for zero and survives so in the job; a stored port is never a form's "none" because the
schema refuses the one and the other stands for the type's default), and a few a second one beside
it (`ConfigPorts`).

## 6. What is only model-checked, and what is not modelled

Only checked:

* `JobsSettle`, `StatusConverges` and `SuspensionEnds`: liveness under fairness is beyond the
  prover, which does not treat `ENABLED`; what the invariants of section 5 give them is proved. No
  theorem needs an induction over data, which is out of the prover's reach as well: no module
  declares a recursive operator.
* The violations are behaviours TLC exhibits; there is nothing to prove.

Left out of the modelled components:

* texts, logs, wording and layout; names and URLs beyond what tells two things apart (which URLs
  name one repository);
* lists of environment variables and volumes in the forms, which are passed on as they are typed;
* limits of CPU and memory, which are compared with the request alone;
* passwords, hashing and the encryption of tokens; name and deletion of an organization; creation of
  projects, a row each;
* segments of feature flags, a pure function of a hash; the portal, cancelation and invoices of
  Billing, which only call Stripe;
* two services of one name in two environments, whose COMPOSE containers reconciliation mixes up
  (hazard).

Left out because nobody calls it: `extendStatusLock`, `checkMultiple` of the feature flags,
`BillingService.createSubscription`, `updateSubscription`, `cancelSubscription`, `getSubscription`
and `reportUsage`, `UsageTrackingService.recordUsage`, `AuthenticationService.refreshAccessToken`,
`ServiceManagementService.updateService` and `isServiceNameAvailable`, and the dry run of
`dockerfile-validator.ts`.

Not modelled at all:

* **Rate limiting and validation**: configuration of Fastify's plugins; what the schemas refuse is a
  guard where a model needs it.
* **Metrics and health**: observed and never read by the code. (The gauge of active jobs, which is
  raised before checks that may throw, is such a number.)
* **Container orchestration**: wrappers of one Docker call each; what these calls do is in Platform.
* **Process life cycle**: start, wiring, SIGTERM. A worker or a handler that dies at any of its
  steps is modelled where a module says so, which is worse than an orderly shutdown.
* **Operations**: compose files, proxies, scripts.
* Pages that render what the API answers and keep nothing; translations; the landing page.

Hazards without a property are in `PROJECT.json` with the reason. The most interesting is a restart
or a stop during a deployment: the code keeps nothing apart there, and no document promises what
should happen, so there is no property to state beyond convergence of the status. Two more that no
document decides: a restart mounts the volume `helvetia-data-<name>`, a deployment `<name>-data`;
and the deletion of a project leaves its containers running, which `ErasedLeavesNothing` therefore
excepts.

## 7. Plan

The models are as complete as section 6 says. What could still be proved:

1. For subscription rows an abstract mirror that follows the log event by event, which `MirrorInv`
   contains the mapping for: more than `SubscriptionRecord` promises, and only of deliveries in
   order.
2. Safety parts of the liveness properties: that DEPLOYING, once a job is active, is only replaced
   by what the job or a pass writes.
