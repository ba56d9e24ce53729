# ScoutPulse: verification project

TLA+ specifications of ScoutPulse, TLC configurations that check them on small
instances, and theorems about them proved with TLAPS. Every definition is
translated from the source under `src/`; `PROJECT.json` names the lines.

## 1. The system

Two Go services, each with its own PostgreSQL database (READ COMMITTED), three
shared Go libraries, an optional NATS bus between the services, and an Angular
application that talks to both over HTTP.

| Part | State it keeps | Operations | Talks to |
|---|---|---|---|
| Sessions (`identity-svc`: `refresh_token.go`, `auth.go`) | `refresh_tokens` rows: owner, expiry, `revoked_at`, `replaced_by` | Login, Refresh (rotation, reuse alarm), Logout, revoke-all, janitor | users (foreign key), browser cookie |
| Accounts (`auth.go`, `users.go`, `postgres_user.go`) | `users`: unique name and e-mail, optional password, role, verified flag | Register, ChangePassword, UpdateRole, DeleteUser | sessions, events |
| External sign-in (`oauth.go`, `identity.go`) | `user_identities`, `oauth_login_codes`, flow cookies | StartOAuth, CompleteOAuth (resolve, link, create), ExchangeCode, UnlinkIdentity | providers, accounts, sessions |
| E-mail verification (`verification.go`, `email_verification.go`) | `email_verification_tokens` | issue, resend, redeem, prune | accounts, mailer |
| Events (`libs/platform/events`) | none: core NATS, no outbox | publish after commit, queue-group subscribe | identity to football |
| Editor grants (`football_service.go`, `team_editor_*.go`) | `team_editors`, a cache with a TTL per replica | Grant, Revoke, lookup, fill, sweep, invalidate | every write of the football service |
| Transfers (`transfer_*.go`, `player_*.go`) | `transfers`, `players.team_id` | record, delete, create or delete a player, delete a club | clubs |
| Market values (`market_value_*.go`) | `player_market_values`, `players.market_value` | record, delete, opening valuation | players |
| Coach spells (`coach_spell_*.go`, `coach_*.go`) | `coach_spells`, `coaches.team_id` | appoint, delete, create or delete a coach | clubs |
| Articles (`article_service.go`) | `articles`: status, schedule, review | create, save, submit, request changes, publish, withdraw, delete: read, decide, write the whole row | events (a deleted author's drafts) |
| Article editor (`article-editor.ts`) | the text on the screen, the last answered copy, a save timer, the save under way | autosave, and the buttons that hand the draft on | articles |
| Boards, seasons | one table each | create, save, delete under caps, uniqueness and exclusion constraints | |
| Player notes (`player_note_*.go`, `player-notes.ts`) | one note per player and author; the page's two resources | write, edit, delete, reload | sessions |
| Rate limiter, JWKS, server (`libs`) | token buckets; verification keys; in-flight requests | allow, Blocked/Record; load, refresh, poll; drain | every request |
| Browser session (`core/auth`) | access token in memory, a marker in storage, a cookie shared by the tabs | restore, 401 then refresh (single flight, one retry), logout | sessions |
| Sign-in, guards, permissions (`features/auth`, `guards.ts`, `permissions.ts`) | the session store, the member's grants, the address to return to, the challenge | sign in, register, call back, navigate, load grants | browser session, grants |
| Record pages (`ssr-resource.ts`, the pages) | the resources of the open page, what the server drew | ask again when the address changes, retry, page, write | the football service |
| Record forms | fields, errors, posts under way | load, fill, type, save, go on | the football service |
| Lists (`article-list.ts`, `tactics-list.ts`, `article-desk.ts`) | rows appended so far, the dialog | more, tag, delete | articles, boards |
| Look-up lists (`lookup-store.ts`, `player-names.ts`) | names by id, requests under way | load a list whole, resolve names in batches, hand over from server to browser | pages |
| Tactics editor (`tactics/editor`) | a document of steps, undo and redo stacks | place, move, reorder and delete steps, undo, redo, save | boards |
| Game (`games/played-for-both`) | settings, a pair, a score, a timer | draw, reveal, score, reset | its data set |

The hard behaviours are the ones `PROJECT.json` lists under `hazards`: several
requests on one row under READ COMMITTED, where each statement sees what was
committed when it began and looks again only at the row it waited for; checks made outside the
transaction that acts on them; caches filled after they were invalidated;
events that reach one replica or none; a request that ends between two statements;
and, in the browser, answers that arrive after the page, the member, the tag or the
round they were asked for has gone, and a whole record written back from a copy
that was read earlier.

What makes each part correct:

* sessions: one live token per sign-in; what was revoked stays revoked; a
  session does not outlive its account, its password or its owner's patience;
* grants: no edit without a grant, up to a bounded staleness;
* transfers, values, spells: the derived column (`players.team_id`,
  `players.market_value`, `coaches.team_id`) follows its history table;
* accounts: one-time tokens work once, an account can always be entered, a
  verified address was proven;
* articles: a published text was approved as it stands; what is submitted was on
  the writer's screen;
* limiter, keys: the budget is what it says; a rotated key becomes usable;
* browser: two tabs never set off the reuse alarm, a race of two signs nobody out,
  and no call waits for ever;
* pages and lists: rows answer the address they stand under, a list read page by
  page is the service's, the browser's first drawing is the server's;
* forms: a save changes what was typed and, of the columns the form knows, nothing
  else;
* permissions: the grants the site goes by are the member's own;
* game: no timer of an earlier round reveals a later pair.

## 2. Modules

| Module | What it is |
|---|---|
| `SessionContract` | What the refresh-token table promises: chains that are opened, exchanged in one step, and retired. |
| `Sessions` | The table and the handlers on it, one action per statement, with row locks. Implements `SessionContract`. |
| `SessionsProofs` | Its theorems. |
| `OneTimeToken` | What a one-time token promises: drawn for one account, honoured at most once, before it is over. |
| `Accounts` | `users` with linked provider accounts, sign-in codes and confirmation links. Implements `OneTimeToken`. |
| `GrantCache` | `team_editors` and the cached answers of every replica. |
| `Registry` | What the record-keeping modules share: days, players, requests in flight. |
| `Transfers` | `transfers` and `players.team_id`. |
| `Valuations` | `player_market_values` and `players.market_value`. |
| `CoachSpells` | `coach_spells` and `coaches.team_id`. |
| `RecordsProofs` | The theorems of the three and of `Accounts`, and of the four together. |
| `EditTimeline` | What undo and redo promise: one line of versions and a cursor. |
| `EditorStore` | The tactics editor's document, history, selection and saving. Implements `EditTimeline`. |
| `BrowserSession` | The tabs of one browser, their shared cookie, and the service that exchanges it. |
| `BrowserProofs` | Its theorems. |
| `SiteRoutes` | The browser's table of routes, and which row an address falls under. |
| `Membership` | Who is signed in, the grants that follow, the guards, the masthead and the sign-in pages. |
| `RecordPages` | Every page that shows records, as one table of pages and their resources. |
| `RecordForms` | Every form that writes a record, as one table of forms and their fields. |
| `ArticleDesk` | `articles` and the requests on them. |
| `ArticleEditor` | The autosaving page over `ArticleDesk`. |
| `AppendedLists` | Lists that grow by a button and lose rows through a dialog. |
| `PlayerNotes` | One note per player and author, and the page that shows them. |
| `ReferenceData` | The look-up lists, the players' names, and what the server hands over. |
| `ListsProofs` | The theorems of `AppendedLists` and `ReferenceData`. |
| `PlayedForBoth` | The game: its data set, settings, draw, score and timer. |
| `StoresProofs` | The theorems of `EditorStore` and `PlayedForBoth`. |
| `SiteProofs` | The theorems of `RecordPages`, `RecordForms` and `ArticleEditor` with `ArticleDesk`. |
| `MembersProofs` | The theorems of `GrantCache`, `Membership` and `PlayerNotes`. |
| `FrontendProofs` | The theorems of the site's run as a whole, composed of its modules'. |
| `MCSessions`, `MCAccounts`, `MCGrantCache`, `MCRecords`, `MCEditor` | Finite instances of one component each. |
| `MCServices` | The accounts and the three histories in one run. |
| `MCTabs` | `BrowserSession` and `Sessions`, for what must end. |
| `MCStores` | The editor and the game. |
| `MCFrontend` | The grants of the service and the pages of the site. |

Modules that share state extend one another: `Membership` and `RecordPages`
reach addresses through `SiteRoutes`, `ArticleEditor` sends its requests to
`ArticleDesk`. `MCTabs` has the two sides of the session cookie: `BrowserSession`
takes the service as one step per request, which is what `SessionContract`
promises and `Sessions` is shown to keep.

### Sessions

`row[t]` is the row of token `t` (`NoRow` when there is none), `users[u]` the
account, `req[p]` the request `p` between two of its statements: `pc` names
the statement it is about to run, `pend` the rows a revoking UPDATE has yet to
visit, `held` those it has locked. A transaction's writes appear in
`row` when it commits; until then its locks are what other requests notice,
which is how PostgreSQL behaves under READ COMMITTED: an UPDATE picks its rows
when it begins (`BeginScan`), waits for a locked one (`Unlocked`), and checks
its WHERE clause again on the new version (`Recheck`). Rotation is `RefreshRead`,
`RefreshUser`, `RotateInsert`, `RotateRevoke`, `RotateCommit`; both the revocation
and the successor's lifetime count from the transaction's beginning; a request can be
cancelled between any two statements (`Cancel`), which rolls its transaction
back. `promised` and `doomed` are history variables: the password version a
finished ChangePassword set, and the rows finished revocations had chosen.
Access tokens, hashing, cookies and user agents are left out: no statement
on the table depends on them.

### Accounts

`users[u]`, `identity[a]` and `token[k]` are the rows of `users`,
`user_identities` and the two token tables; `request[p]` is the request `p` between
two of its statements. `CompleteOAuth` looks a profile up, `FindByMail` looks
for its address, `CreateFromProvider` and `LinkIdentity` are the two INSERTs
(guarded by the unique constraints), `IssueCode` draws the sign-in code. Every
statement that commits on its own is one action; the exception is Issue, a
transaction whose UPDATE finds the outstanding links (`IssueBegin`, `picked`), waits
for those that others hold, looks at them again and marks what is still outstanding
(`IssueConsume`, `rows`), and whose INSERT and COMMIT are `IssueInsert`. It takes
its locks together (`Locks`): a deadlock of two resends would end one of them, which is
`Cancel`. `DeleteUser` is one statement
with its cascades and waits for locked links. The two reads of UnlinkIdentity
are one step (`UnlinkCheck`), since nothing gives an account a password it was
created without. `honours` and `ended` are history; `ended` gathers what each
finished Issue found when it began, whatever became of it until it was marked. A profile's address and the
provider's word for it are constants; usernames, roles, cookies, captchas and
mails are left out, and confirmation is switched on.

### GrantCache

One request asks the Authorizer about one or two clubs (`todo`), consults the
cache of its replica (`Lookup`), reads the table (`Manages`), stores the answer
(`Put`), and edits (`Edit`). Reading and storing are separate steps, as in
`managesTeam`, which holds its lock only around each of them. Grant, Revoke,
the deletion of a club and the two identity events change the table and then
drop answers on the replica that ran them. `changed[k]` and `ended` are history.

### Transfers, Valuations, CoachSpells

Each has a history table, a derived column and requests that go through the
statements of one transaction: lock, check, insert, derive, commit; or, where
the code takes no lock first, without it. `adrift` (Transfers) is the set of
players whose latest move was deleted, the one case in which the code leaves
the squad alone on purpose. Amounts, days and clubs are small sets; fees,
currencies, notes and contract details are left out, and so are updates that
write only those. Identifiers freed by a deletion are reused, which a random
UUID is not; no property depends on the difference.

### EditorStore

`doc` is the board: the objects on it, and steps that say where some of them
stand (`Where` finds the latest step that says it, as `positionAt` does) and
which drawings they show. Every change goes through `Apply`, which makes an undo
entry unless a drag has one open (`gestureOpen`). The drag itself is the
engine's (`drag`, `moved`): undo, deletion or another step may come between its
moves, since keys work while the pointer is down. `saves[s]` is a save in flight,
carrying the board as it was when it was sent; `stored` is the service's copy.
The page may be left and the board opened again with a save under way, which is a
new store. `used` keeps ids from being drawn twice (36^6 of them), `touched` is
history. Coordinates are members of a small set; everything about looks is left
out, and so are the changes to it, which pass through `Apply` as the others do.

### BrowserSession

`token[k]` is what the service thinks of the refresh token `k`: live, spent
within the grace, or old; `cookie` holds one, `marked` is the storage key that says
a session may exist, `legacy` the token an earlier version left there. `tab[t]` is
a tab with its access token, `refresh[t]` its one refresh under way, which is
asked, served and answered in three steps and may be lost before or after it was
served; `logout[t]` likewise. `call[c]` is a page's request: it goes out, waits for
the tab's refresh when it was refused, and is sent once more. `lost` and `crossed`
are history. A request travels for less than the 30 seconds of the grace.

### SiteRoutes and Membership

The browser's table of routes is a sequence in the source's order, and `RouteOf`
takes the first row that matches, as its router does. `session` is the session
store, `flow[u]` a sign-in of `u` between its two requests (tokens, profile),
`perms` and `grantLookups` what the effect of `permissions.ts` has asked for and stored,
`view` the address, whether it has been opened, and where a sign-in returns to,
`form` the sign-in page with its challenge. Signing in goes on when its page is
left, as the code's promises do. `overtaken` is history: an answer for a member
who had gone came last.

### RecordPages, RecordForms

Twenty-odd pages are one table: for each resource of a page what it reads, what
of the address it depends on, and which part of the page it draws. `res[r]` is a
resource of the open page: what was asked, what the service answered, the value
and the value the server drew (`seed`). Angular's `resource` is modelled from how
the pages use it: it forgets its value and asks again when its request changes,
keeps it while it reloads, and drops a reload asked for while it loads. A
seeded default stands for whatever that instance of the page asks next until the
answer comes. The names of players may be missing; writes of a page that was left
are not followed.

A form is a row of a table too: which fields it fills, asks for, hides, checks and
sends. A field's content is where it came from (`stored`, `typed`, `theirs`, ...),
which is all `UntouchedFieldsSurvive` needs. `record` has the columns that the update
of the service writes (`Columns`) and those it restores: besides the fields of the
form, what is sent as it was loaded (`echoed`, a move's season and currency), what the
service keeps (`kept`), and what the form knows nothing of (`unsent`, how long a coach's
contract runs). `Replaced` is the update: what the body leaves out is stored as nothing.
`posts` are the saves under way: they outlive the page.

### ArticleDesk, ArticleEditor

A request of the service is two steps, `DeskReads` and `DeskWrites`, and between
them others come in; it writes the whole row it read. `editor[p]` is a page: its
copy of the article, the text on the screen, whether it differs (`dirty`), the timer,
and the save that others wait for (`inFlight`). All that wait go on together when it
ends, as awaiting one promise makes them. `approved` is history: the texts an
administrator wrote or published. Closing the browser is left out, and so are slugs
and the cap of articles.

### AppendedLists, PlayerNotes, ReferenceData

`more` is the one request for what comes after the rows that are shown; the
service's rows move meanwhile (`OthersChange`). The rows of a list that are in a
set are `Selected`, a recursive function, where the library's `SelectSeq` is a
recursive operator and out of the prover's reach. The dialog and the deletions
it starts are separate, since the dialog may ask about the next row before the
last answer has come. PlayerNotes has the service's rows (`noted`), the page's two
resources, the write that keeps the page busy and the removals that do not. Notes
are numbered as they are created and listed newest first, so a list is the set of its
notes; drafts as they are typed and a failed read of the own note are left out. In
ReferenceData the server loads first (`side`), leaves what it has (`transfer`), and
the browser starts from it.

### PlayedForBoth

A pair is a set of two teams, a draw any candidate that the settings allow. The
intervals that run are a set, so that one nobody stops can be seen; the timer counts
in fractions of a round. Choices of leagues are kept for the next visit.

## 3. Runs

Every run is checked for the constants in its `.cfg`. `CHECK_DEADLOCK FALSE`
everywhere: clients may stop sending, the clocks and counters are bounded, and
a system at rest has no step to take.

| Run | Question | Result |
|---|---|---|
| `sessions_safety` | Do rotation, logout, revoke-all, sign-in, deletion and pruning keep one live row per sign-in in every order, and implement the contract? | holds |
| `sessions_password` | Are all sessions over when ChangePassword returns? | violated |
| `tabs` | Do two tabs ever look like a leaked token, does one race sign a visitor out, and does every call and every request on the sessions end, also when two revoke-alls deadlock? | holds |
| `services` | Are codes and links one-time, links to providers within the policy, and do the derived columns follow the three histories, in every order of statements? | holds |
| `accounts_unlink` | Can two unlinks leave an account with no way in? | violated |
| `records_value` | Does an older valuation ever overwrite a newer figure? | violated |
| `records_spell` | Can a coach have two open spells? | violated |
| `grants_immediate` | Is a revocation immediate where it was made? | violated |
| `stores` | Are undo and redo one line of versions, is what is selected on the board, is a clean board the stored one, do deleting and reordering steps leave the others' looks alone; and does a round's timer end with it, and a draw keep to the settings? | holds |
| `editor_reorder` | The reordering, also for objects that come on in a later step? | violated |
| `frontend` | Is a stale grant out of use `TTL` after the change on every replica? And on the site: do rows, lists, notes, names and grants shown belong to the address, the service and the member; does a save change only what was typed; is what readers read approved? | holds |
| `captcha_unrendered` | Does a sign-in page that was drawn show its challenge? | violated |

Modules that share no variable are explored side by side: `part` says which of
them moves while the others keep an initial state, so the states of a run are the
sum of its parts and not their product. The module that moves takes every step of its
own text, up to its own bounds, with these exceptions, each named in its MC module:

* `ServicesBounds`: a profile signs in while at most one confirmation link has been
  drawn, and resends race over two and three links while no profile signs in; once
  the club is gone, appointments are recorded one at a time; a spell entered with its
  end names no club.
* `FrontendBounds`: one move on a club's page, which has the most requests; where a
  form is sent twice, one field is typed into.
* The parts of `MCEditor`: three edits of a blank board that is never saved; two
  around a save; two of a blank board or of the drill, with a team mate.
* `FirstCallFirst` (`MCTabs`): of two calls that differ in name only, the first is
  sent first.

The first two are constraints of runs without liveness. The theorems about each
component, and those about the specifications of `MCServices` and `MCFrontend`, know
none of them.

Bounds, and why they suffice. Two requests in flight: every hazard listed is a
race of two. Three tokens: a rotation, and a second one or a sign-in racing it.
Time up to 2 with a lifetime of 1 and a grace of 0: every row can be fresh,
inside and past both. `sessions_safety` starts in two reachable states, one in
which time may pass and one in which the password may change. Two accounts and three profiles (an address vouched for, the same
address not vouched for, none) with one address: every branch of
resolveAccount, and every clash of its INSERTs; three links: two resends racing
over a first. Two replicas with one request each: one that hears of the
change and one that does not; time up to 3 with TTL 2 lets an answer be stored
at the last moment and expire. Three moves on two days for one player: a
backfill, a tie and a deletion at once. A player and a ball, two places, two
drawings, three steps and three edits from a blank board: a history of two is filled,
overflows, and is walked back and forth; one save in flight at a time, and two edits
around it; and two edits of a blank board or of a drill of three steps in which the
ball comes on late, so that every pair of steps is reordered and deleted, with a team
mate who comes on alone, as a copy or in a formation. Two tabs, two calls in the first, and three refresh tokens:
a call waits for the refresh another has begun, the second tab restores the session
meanwhile, and there is a rotation more than they need (`MaxActs` bounds what the
visitor does). Three clubs of two leagues, a country and three players: pairs with
a common player and without, and settings that leave one club, or none. One
article, two texts and a writer's and an administrator's page with two requests each:
a save racing the review of the text before it. Three rows in pages of one: a row
that comes or goes before, on and after the page that is asked for, and a list cut
off by the safety stop. Two records, two rows, a term and two offsets: an answer for
the record, the term or the page before. Two fields typed into, two saves and one
foreign write in each of the forms. Two players with a note each of two authors.
Two members, one of them an editor or an administrator, and one sign-in after the
first page load: the answers for both may cross.

Symmetry is used for identities that are interchangeable and only where no
liveness is checked; the properties checked with it treat the identities alike.
`Services.cfg` gives the accounts and the records the same model values (`a` and `b`
are users there, clubs and spells here; `p1` and `p2` the requests of both), which
keeps the symmetry group small; no value of one part meets one of another. The
notes start on one of two interchangeable players, with one of two interchangeable
texts.

Fairness (`tabs` only). Sessions: a handler's goroutine keeps running (weak
fairness of its next step), and a row lock is granted to a waiter again and
again passed over (strong fairness of the two waiting statements: PostgreSQL
queues its waiters). BrowserSession: a request is answered or given up by the
browser, and the pause before the second try ends (weak fairness of the steps of a
refresh and of a call, each per tab and per call). Clients and visitors owe nothing:
no sign-in, navigation or click is assumed.

### Disagreements with the documentation

Each is a run with `expect: violation`; `PROJECT.json` quotes both sides.

* A rotation or sign-in in flight survives ChangePassword (`users.go`).
* A revoked editor can stay cached for the TTL on the replica that revoked
  them: read before, stored after (`football_service.go`).
* Two unlinks at once, one per provider, leave a passwordless account with no
  way to sign in (`oauth.go`).
* Two valuations recorded at once: the older can overwrite the newer figure.
* Two appointments recorded at once can leave two open spells.
* The challenge's widget is set up once, before the answer that names its
  provider can have come, and nothing sets it up again (`captcha.ts`).
* A step moved after the one that brings an object on shows that object too
  (`editor-store.ts`). `ReorderKeepsTheLook` holds for the others.

Others are the stated exceptions of properties that hold, each with a history
variable that names the case:

* a board changed while its save is in flight is marked as saved (`touched` in
  `CleanMeansStored`), and after a drag abandoned with Escape the next edit joins
  the drag's undo entry (`Amend` in `EditTimeline`);
* grants asked for a member who has gone may arrive last and stay (`overtaken` in
  `SettledGrantsAreOwn`);
* a refresh whose second try meets another tab's refresh signs the tab out
  (`crossed` in `RacingTabsKeepSession`), and an answer that was lost may end every
  session as stolen (`lost` in `NoFalseAlarm`);
* two requests of one editor page under way at once may hand on an older text
  (`crossed` in `HandedOnWasOnScreen`);
* a list read by offset repeats or skips a row when rows come or go between its
  requests, and mixes tags when the tag changes (`disturbed`, `moved` in
  `PagedListsAreWhole`);
* a reload asked for while a resource loads is dropped (`missed` in
  `ListCatchesUp`, `behind` in `NotesAreCurrent`);
* a save puts back what someone else stored since the form loaded (`others` in
  `UntouchedFieldsSurvive`), and every edit of a coach erases how long the contract
  runs: the update writes the column (`coach_repository.go:60`), `UpdateCoach` restores
  only the club (`coach_service.go:68`), and the form neither loads nor sends it
  (`coach-form.ts:212`). The model loses it as the code does, and the property
  excepts it by name (`unsent`).

One is not settled here. The renderer's table says that a literal must precede the
parameter that would match it (`app.routes.server.ts:19-20`, `66-67`, `86`), and yet
`players/new` (line 50) and `coaches/new` (62) follow `players/:id` (30) and
`coaches/:id` (33), while `guards.ts:16-18` relies on every guarded page being drawn
in the browser. If the order decides, the server draws two guarded forms; if the
nearer entry is taken whatever the order, the comments are wrong. Which it is depends
on the framework's matcher, which is not in the repository, so nothing is claimed of it.

## 4. Theorems

Proved for every value of the constants that satisfies the modules' ASSUMEs.

* `SessionsProofs`: type correctness; `OneLivePerLogin`; `RevokedStaysRevoked`;
  `NoOrphanSession`; `RevocationTimeFixed`; and the refinement of
  `SessionContract`. The inductive invariant adds who may hold a row lock (one
  request, on a live row), that a token drawn by a rotation in progress belongs to nobody
  else, and that a chosen row that is still live is yet to be visited or held
  by the revoking statement. Without the lock part `OneLivePerLogin` is not
  inductive: two rotations in their last step would each keep a live successor.
* `RecordsProofs`, four modules and their composition. Transfers: type correctness;
  `SquadFollowsRecord`; `MovesStartWherePlayerIs`. The
  invariant: lock exclusivity, and what a request has seen and may still rely on.
  Valuations and CoachSpells: type correctness of both; `ValueFollowsHistory`;
  `OpenSpellIsCurrent`. Neither table locks the player or the
  coach before it reads, so what a request has read may be stale when it writes.
  The invariants say of every request in flight that no commit has overtaken
  (`~behind`) that what it read still stands (`VerdictStands`, `ReadingStands`), and
  that a spell row whose end is about to be set is locked by one recording only.
  `raced` and `crossed` are the players and coaches that an overtaken request has left
  wrong; the violated `ValueIsLatest` and `OneOpenSpell` are the claims without them.
  Accounts: type correctness, with every profile and undeleted token
  belonging to an account that exists; `LinkPolicy`; `ResendEndsOlderLinks`; and
  the refinement of `OneTimeToken`. `LinkPolicy` needs the decision a request
  carries from its look-up to its INSERT in the invariant: between the two the
  account may be deleted but never change its address. `ResendEndsOlderLinks`
  needs that a link which an Issue found when it began is over, or deleted, or among the
  rows it holds a lock on: it may have been redeemed or consumed while the Issue waited,
  and what it has locked stays outstanding until it commits.
  `RecordsTypesCorrect` is `RecordsTypeOK` of `MCServices`: every step of the run is a
  step of one part and a stutter of the others, so the parts' invariants hold side by side.
* `StoresProofs`, two modules and their composition. EditorStore: type correctness; `SelectionIsOnBoard`;
  `CleanMeansStored`; `DeletionMovesNothing`; `ReorderKeepsTheLook`; and the
  refinement of `EditTimeline` (`StacksAreTimeline`), for any `HISTORY_LIMIT` above
  one. The invariant ties what is in flight to the board (a save that no change
  has crossed carries the board as it is: `SavesUpToDate`) and the drag to the
  history (while one goes on there is nothing to redo: `GestureIsLatest`). The mapping puts the undo stack, the board and
  the redo stack into one sequence; its lemmas (`IsLine`, `IsTail`, `IsKept`, ...) say what
  appending, dropping and moving the cursor do to it. Where an object stands is the
  latest step that says so, found by walking back, so both properties of steps need
  an induction on the number of steps; see below.
  PlayedForBoth: `TimerBelongsToOpenPair`, for any clubs, settings and number
  of draws. The invariant adds that the settings stay a record, so that a change of
  one leaves the timer's alone. `DrawnPairIsFair` needs only that draws are counted:
  what `DrawCandidates` offers is a pair of a player's own teams, which that player
  answers, or, when nobody has such a pair, any two teams; that it is two teams needs
  finitely many clubs. `StoresTypesCorrect` is `StoresTypeOK` of `MCStores`, the types
  of both: the game's needs that a pair played is a pair of clubs, that the
  recent ones are the last `RecentWindow` of those played, and that the timer runs
  down from `FullTime`.
* `ListsProofs` (AppendedLists and ReferenceData). `GrownListCorrect`:
  `GrownListIsTheServices`, for any finite set of rows and any size of a page. What is on the screen
  agrees with the service's list only with the rows taken out of it whose deletion was
  served and not yet heard of; a request under way asked for what comes after the
  rows shown. `KeptListCorrect`: `KeptListIsWhole`, for any finite list. What has been collected is the list as far as the offset of the load,
  unless the list changed under it, and a load ends at the list's end or at the
  safety stop. `HandOverCorrect`: `NamesSurviveHandOver`, the names the server drew with are the browser's
  before its first drawing. `ListTypeCorrect` bounds what a list shows by twice the
  rows there are: a page asked for before the tag changed can be appended once, and what
  is asked for next begins after it, so of what is appended late nothing is appended
  twice. `ReferenceTypeCorrect` says of the calls for names that a batch has at least
  one id and no more than a page takes. The lemmas about `Selected` (it exists, it
  distributes over concatenation, a second choice is one choice) replace the induction over
  lists that the library states for an operator.
* `BrowserProofs` (BrowserSession): `NoFalseAlarm`; `RacingTabsKeepSession`, for any
  number of tabs, calls and tokens. The invariant (`BrowserInv`) says that a token
  that is stored anywhere and no longer live was given up by an answer that is
  still on its way, unless an answer was lost (`NothingTooOld`); that the successor such an
  answer carries is live and nobody else's (`NextIsFresh`), so that it is good when it
  becomes the cookie; that what a refusal was about is not live; and that a second
  try nothing has crossed is alone with the cookie it presented
  (`SecondTryIsAlone`). Without `NextIsFresh`, `NothingTooOld` is not inductive: an
  answer could bring a successor that has been given up since. `BrowserAssumption` says that a call has a
  tab and that no token is `NoToken`.
* `SiteProofs`, one part per module:
  * RecordPages: `RowsAreWholeAndOwn`, `ListCatchesUp` and, as an action property,
    `HydratesAsDrawn`, for any records, rows, terms and bounds. The table of pages is
    used through a few facts about every page (`TableSound`: a part shows the rows of
    one of the page's requests, and no name it draws that is not waited for);
    `PagesInv` says of every request that it is of the address, or is to be asked
    again, and of the rows held that they answer it or came from the server.
    `PagesTypeCorrect`: the names loaded are of the lists there are, the offset stays on
    the list.
  * ArticleEditor: `PublishedTextIsApproved`, for any pages, members and number of
    articles. `DeskInv` says what a request may hold between its read and its write
    (`RequestSound`): a writer's change holds a row that was read as the writer's to
    change, so writing it back publishes nothing; what an administrator writes is
    approved with the write. That every request is of an article that exists goes
    through everything a page may do, the saves that wait for another
    included (`WokenSound`, an induction on their number). And `HandedOnWasOnScreen`,
    an action property. `ScreenInv` says that, until someone else writes the article or
    two requests of the page cross, the page knows the stored text (`Told`): it is the
    text on the screen unless the screen is marked as unsaved, and once a submission is
    on its way it is among what was on the screen since the button. A save under way
    that names the last edit carries the text on the screen (`SavesTell`), so that a
    page it leaves clean does show what is stored. `DeskAssumption` says that a page has places for its requests,
    numbered from one: 0 stands for none. `EditorTypeCorrect`, for finitely many places:
    the save that others wait for is under way, so that its end wakes them. A page
    of the model starts a request only while there is a place for it and for all that may
    follow what is under way (`Room`, a bound); `PlacesInv` says that this is enough:
    everything a request sets off when it ends (`Wanted`) finds a place.
  * RecordForms: `UntouchedFieldsSurvive`, an action property, for any limits on
    typing and saving. `EditInv` says of every field of a form that edits, and of every
    field of the one body on its way, where it comes from: the record, the member,
    what was stored before someone else stored theirs, or a kind of record that forbids
    it. The record has every column that an update writes, the contract of a coach
    among them; that one is the property's exception. The tables of the forms are used
    through three facts about each (`FormTable`).
    `FormsTypeCorrect`: a press of the button sends one save, so there are never more
    saves than presses.
* `MembersProofs`, one part per module:
  * GrantCache: type correctness; `StaleAnswersExpire`; `EditsHadGrant`. The invariant
    bounds the age of an answer on its way to the cache as well as of the answers in it.
  * Membership: `SettledGrantsAreOwn`, for any members, clubs and roles. `MemberInv`
    says that the effect that looks grants up is due or has run for the member of the
    session, and that the grants are then theirs, none, or still asked for. It needs
    that a page load which is still going on has signed nobody in: the end of a restore
    resets the session and leaves the grants.
    `MembershipTypeCorrect`: an address that is shown is one that fits the tables, and
    a member's grants are asked for at most once more than sign-ins were started, counting
    the lookups that are due or on their way.
  * PlayerNotes: type correctness and `NotesAreCurrent`, for any players, authors, texts
    and size of a page. The invariant says of each of the two resources that what
    it was answered, and what it shows, is what the service has now, unless it is read
    again or something else changed since (`behind`). `NotesAssumption`: the member is
    not one of the others.
* `FrontendProofs` (MCFrontend): `PagedListsAreWhole`, `FirstDrawingAgrees` and
  `FrontendTypeOK`, each a statement about several modules. The modules share no
  state: a step of the whole is a step of the module that is explored, or of none, so
  the whole implements each of them (`PartsImplemented`) and has its properties. The
  lists' theorems are reached through an instance of `ListsProofs` with the variables of
  the two instances that `MCFrontend` makes; that they say the same is proved first
  (`SameListNext`, `SameNamesNext`, ...).

Assumptions. Each module's ASSUMEs name what its proofs need of the constants; TLC
evaluates them in every run. `DeskAssumption` and `BrowserAssumption` are above;
`GameAssumption` says that there are finitely many clubs, that no pair is `NoPair`, and
that `FullTime` and `RecentWindow` are numbers; `MembershipAssumption` that no member is
`NoMember`, that grants are of clubs, and that links lead to addresses that fit the tables
with some identifier in them; `PagesAssumption` and `FormsAssumption` that the bounds
on moves and saves are numbers. The theorems about lists, and `FrontendTypeCorrect`,
state theirs: a page has a size in Nat, the rows, ids and places are finitely many,
and (`WholePages`) the safety stop of `collect` is a
whole number of pages, as 5000 (`lookup-store.ts`) is of 100 (`page.ts`); a load could end
short of it otherwise.

Induction. The library's induction theorems take an operator as a parameter, which
no installed prover instantiates. The inductions on the number of steps of a board,
on the number of saves that wait, and on the length of a list go through the set of the
numbers for which the claim holds: `NatLessThanWellFounded` and `WFMin` give a least
number outside it (`SetInduction` in `StoresProofs`, `SiteProofs` and `ListsProofs`).

Invariants that strengthen a property were first checked by TLC on the instance of the
component's run, and then proved.

Every invariant and every property of steps that a passing run checks is a theorem, and
so are the refinements. Only model-checked: liveness (`EveryRequestEnds`,
`CallsSettle`), which the prover cannot express, and the seven claims of the
documentation that a run refutes, which are false.

## 5. Not modelled yet

`PROJECT.json` lists every part with its status. In the order they are planned:

1. `AccountCleanup`: the deleted account's events on their way to the football
   service, and what they leave behind (`identity_events.go`, whose failed clean-up
   nobody repeats); the role column under two administrators (`users.go`).
2. `Boards` and `Seasons`: caps that are counted before the insert
   (`article_service.go`, `tactic_service.go`), uniqueness, and the exclusion of
   overlapping seasons (`season_service.go`).
3. `RateLimiter` (guesses in flight that all pass `Blocked` before one is
   recorded; a sweep that forgets a bucket before it has refilled), `Jwks` (a failed
   fetch that also blocks the retries of the next 30 seconds), server drain.
4. The article body's bounds as folds; the editor's first save and the draft it
   keeps across a sign-in.

Left out for good: rendering and wording; search and statistics (read-only SQL);
tracing and metrics; the mode in which the renderer draws an address; the rich-text
library and the shapes of the tactics board's pieces; the importer's one offline
transaction; the providers' and the mail server's own behaviour; deployment.
