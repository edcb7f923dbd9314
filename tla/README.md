# Verification of messages-toy

TLA+ models of the messages-toy backend, checked with TLC and, for the parts
that carry the most, proved with TLAPS. The repository is a chat system: a Go
server (Fiber, a WebSocket hub, SQLite through gorm) and a Flutter app. The
models are of the server, read statement by statement.

## 1. The system

### Parts, their state and their operations

| Part | State | Operations | Modelled in |
|---|---|---|---|
| WebSocket hub and connections (`internal/websocket`) | map user → client, the buffered `Send` channel, two goroutines and a socket per client | register, unregister, broadcast presence, SendToUser, SendToGroup, ReadPump, WritePump | `Hub`, abstractly `Registry` |
| Messages (`client.go`, `handlers/messages.go`) | `messages` rows | send, forward, acknowledge, history, edit, delete | `Messages` |
| Scheduled messages (`services/scheduler.go`, `main.go`) | `scheduled_at` of a row, one goroutine with a ticker | schedule, cancel, pass, deliver | `Scheduler` |
| Groups (`handlers/groups.go`, `client.go`) | `groups`, `group_members` | create, add, remove, leave, post | `Groups` |
| Key store (`services/keys.go`, `models/prekey.go`, ...) | devices, identity keys, signed prekeys, one-time prekeys | register, upload, remove, get a bundle | `PreKeys` |
| Polls (`handlers/poll.go`, `models/poll.go`) | `polls`, `poll_votes` | vote, close, result, broadcast | `Polls` |
| Media (`handlers/media.go`, `admin.go`, `services/moderation.go`) | `media` rows, files in two directories, one goroutine per upload | upload, scan, move, review, serve | `Media` |
| Disappearing messages (`services/message_cleanup.go`, the senders of `client.go`) | timers in `conversation_settings`, `expires_at` of a row, one goroutine with a ticker | set the timer, send with and without an expiry, clean up | `Retention` |
| Contacts and blocks (`handlers/contacts.go`) | `contacts`, `blocks` | add, remove, block, unblock, search | `Contacts` |
| Broadcast lists (`handlers/broadcast.go`) | `broadcast_lists`, `broadcast_list_recipients` | create, rename, add, remove, delete, send | `Broadcasts`, with blocks in `Social` |
| Stories (`handlers/stories.go`) | `stories`, `story_views` | create, announce, list, view, delete, expire | `Stories`, with contacts in `Social` |
| Marks: reactions, stars, archives, themes, conversation settings, read receipts, pins, device tokens, sender keys (`internal/models` and their handlers) | ten tables of small rows per user and key | put, take, look, announce | `Marks`, abstractly `Registers` |
| App: WebSocket client, sync service, offline store | queue of pending messages, reconnect timer, time of the last sync | connect, disconnect, flush, sync | not yet (section 8) |
| Authentication, push providers, link previews, bot answers, thumbnails, health check, screens | | | not modelled (section 7) |

How the parts meet: every WebSocket frame is handled to its end by the
ReadPump goroutine of its connection; every HTTP request is a goroutine of its
own; the scheduler, the bot and the moderation of an upload are goroutines
without a `recover`. They share the hub's map (under a mutex), the `Send`
channels, and the tables. There is no lock around a handler and, but for the
registration of a device, no database transaction around its statements, so
what two handlers do interleaves statement by statement.

### What is hard, and what correct means

* **Hub.** A second login replaces a connection whose two goroutines still run;
  its unregister comes later. Correct: an entry is always live and its channel
  is open; one socket per user is served, but while the hub is about to replace
  it; a contact that missed no presence frame knows who is there; the hub's loop
  never waits for a client, and a dead connection goes away.
* **Messages.** The sender's handler, the recipient's acknowledgement and the
  history request write one status column; a deletion does not wait for a forward
  that is still fanning out. Correct: *delivered* means a recipient's connection
  took it; a status does not move back; nothing about a deleted message follows
  its deletion.
* **Scheduler.** Passes, cancellations, deletions, history requests and process
  stops race, and times are compared as texts. Correct: at most once, not before
  its time, not after removal, and no loss but those the statements accept.
* **Groups.** Each handler reads a membership and acts later. Correct: what is
  deleted is what was checked, the owner stays, messages stay within the group.
* **Key store.** Prekeys are for one use; registration writes four tables.
  Correct: all or nothing, used-up keys are gone, bundles are in order.
* **Polls.** A vote is a delete and an insert, its result a chain of counts,
  and results are broadcast in any order. Correct: one vote per user, closing
  ends voting, the last result shown is the true one.
* **Media.** Status, file and path are three writes; scan and reviewers share
  them; a stop falls in between. Correct: nothing flagged becomes public, and at
  rest the row says where the file is.
* **Disappearing messages.** The timer is read first, the row stored later, the
  service reads the time first and deletes later. Correct: a text sent over the
  connection under a timer goes for good, even through a restart, and nothing goes
  early.
* **Contacts, blocks, broadcast lists.** A send checks the blocks recipient by
  recipient, over rows other requests change; a rename writes back what it had
  loaded. Correct: who is blocked throughout is left alone, a broadcast reaches
  nobody twice, whoever was taken off stays off, all but for that rename.
* **Stories.** The privacy is looked at only where ids are given out; a view and
  its counter are two statements. Correct: viewers are contacts, and the counter
  is the number of views.
* **Marks.** Every table is written by a lookup and a write; the unique index
  behind them differs, and where one of its columns is NULL it refuses nothing.
  Correct: with an index a request works as if at one moment; without, a user
  who waits for his answers sees what he asked; events say what is stored.

`PROJECT.json` lists each hazard at its line with the properties that cover it.

## 2. Modules

| Module | What it is |
|---|---|
| `Registry` | Abstract: one session per user, a session that lost its slot never gets it back, a restart ends all. |
| `Hub` | The hub's goroutine, both pumps of every connection, tasks that send through the hub, panics, restarts. Implements `Registry`. |
| `HubProofs` | Its theorems. |
| `Messages` | The life of messages of one sender. Uses of the hub what `Registry` promises: a connection ends with its buffer. |
| `Scheduler` | Scheduled messages. |
| `Groups`, `GroupsProofs`, `Media`, `MediaProofs` | Two more parts and their theorems. |
| `PreKeys`, `PreKeysProofs` | The key store and its theorems. |
| `Polls`; `ConversationProofs` | Polls; the theorems about `Messages` and `Polls` (whose names are its own, so that one module can extend both). |
| `Contacts`; `Broadcasts`, `Stories` | Contacts and blocks, with what a request is; two parts on top. |
| `Social`, `SocialProofs` | Composes the three: lists with blocks, stories with contacts; its theorems. |
| `Registers` | Abstract: one value per user and key, which a request changes at one moment while it runs. |
| `Marks`, `MarksProofs` | The ten tables of marks, and their theorems. Where an index is effective it implements `Registers`. |
| `Retention`; `ServicesProofs` | Disappearing messages, the passing of time and the cleanup service; the theorems about the two services with a ticker, `Retention` and `Scheduler` (whose names are its own). |
| `MC*` | Model values and symmetry for TLC. |

Conventions shared by all modules:

* One action is one statement or one operation under the lock. Handlers that do
  several have a program counter (`reader`, `h`, `req`, `pc`, `mod`, `review`).
  gorm runs every statement as its own SQLite transaction (`database/db.go`), and
  a stop of the process keeps the tables and loses everything else.
* A statement does not fail (a full disk, `SQLITE_BUSY`) unless the module says
  so: `Media` has the failing insert, rename and removal, `PreKeys`, `Groups` and
  `Polls` have the refusals of the unique indexes.
* Ids, contents and keys are model values or counters: no property looks inside.
* Variables marked *history* record what happened and no action's guard reads
  them. Operators named `X_Something` are what `X` would be with a plausible
  fault; each property is shown to notice one.

### How the state and actions correspond to the code

**Hub.** `clients`, `queued`, `sendClosed` and `sock` are `Hub.clients`, the
length and closing of `Client.Send`, and the socket. `reader` and `writer` say
where the pumps are, `hub` whether `Run` is in `select` or in
`broadcastPresence` and which contacts are still to be told. `SendToUser` is two
actions for a reader or a task (`ReaderLookup`/`ReaderSend`,
`TaskLookup`/`TaskSend`), because the lock is released between the lookup
(hub.go:91) and the send (hub.go:95). Within `HubAnnounce` it is one: only
`Hub.Run` closes channels, so nothing can happen in between. Registering is two
steps: `HubRegister` is the receive (hub.go:37), after which `Register` returns and
the new pumps run, and `HubEnter` closes the old socket and writes the map (38-48);
likewise `HubUnregister` and `HubRemove` (51-63). A handler is reduced to the users
it sends to and to a frame on its own connection, a blocking send, which comes last
(`Reply`, an acknowledgement) or first (`ReplyBegin`, as in edit, delete and
reaction handlers); `Handles` is the set of such jobs. `presence` says what each
user's present connection was last told of another: `on`, `off`, or `lost` when the
offline frame found its buffer full (hub.go:95-98). A panic ends the connection when it
happens in a pump (the middleware recovers), only the request in an HTTP
handler, and the process in `Background`.

**Messages.** `row` is the table, `h` the sender's handlers, `ack` and `hist`
the recipients' requests between their two statements, `inbox` the buffer of a
recipient's connection, `told` what the sender's client was last told. `Probe` is
`IsOnline` in `Forward`. `CreateForBot` stores a question to the bot and
acknowledges it as delivered; the bot's answer is a row of the bot's and not
modelled. Edit and delete ask for the row only, so they may come while an HTTP
request is still sending the message; `early` records such deletions. A history page
is any set of the conversation's messages (limit, offset and since are free).

**Scheduler.** `pending` are the rows with `scheduled_at`; `Tick` is the query,
`Clear`, `Deliver`, `MarkDelivered` the loop body, in the order of the code:
`scheduled_at` is cleared *before* the delivery. `lost` are messages being
handled when the process stopped. A stored time keeps the offset the client gave,
and SQLite compares it with the clock as text: `elapsed` are the messages whose
instant has come, `ripe` those whose text has, and `zone` says which comes first.
`ScheduleMessage` compares instants, the pass and the cancellation texts. A
cancellation is two steps: `CancelNow` reads the clock, `Cancel` is the DELETE;
`raced` are the messages a pass fetched in between. `History` is the UPDATE of a
history request, which marks the whole conversation, whatever its page showed.

**Groups.** `members` are the rows with their uuids as numbers, so that a user
who was removed and added again is another row. `Noted` keeps, for each
request under way, who came or went meanwhile.

**PreKeys.** `identity` and `signed` hold the number of the registration that
made the key. `Register` is the one transaction; upload, removal and the
bundle are chains of statements.

**Polls.** `res` is the response a handler is making, one count at a time, `last`
the one broadcast last. `late` and `met` record which requests began after the
close and which overlapped.

**Retention.** `send` is a message from the first step of its handler on:
`timer` (the settings are about to be read), `stamp` (the expiry is about to be
computed), `store`, then `stored` or `deleted`. Time is relative: `left` is how
long until `expires_at`, and `Pass` lets a unit go by for every message at once.
`service` is the cleanup goroutine; `ReadNow` is its `time.Now()`, of which only
the set of expired rows (`due`) matters, and `cleanupExpiredMessages` its one
UPDATE. Scheduled texts, those sent to a broadcast list, locations, encrypted
messages, questions to the bot and forwarded copies skip the timer, as their
handlers do. `Found` is what a search returns.

**Contacts, Broadcasts, Stories.** `req` is what a request has in hand; a
handler's statements are its steps (`vet`, `addRow`, `takeOff`, `rename`,
`send`, `store`, `view`, `count`). `WriteBack` is the update of a list with its
recipients loaded, which writes those too; whom it puts back on the list is in
`touched`, with the users a search found, an insertion listed or a send wrote to.
`knows` says whose client has seen
the id of a story, since nobody can name one he was not shown.

**Marks.** `Kind` gives, per table, whose row the lookup finds, which columns
the index covers and what is done with a row that was found (kept, saved whole
as loaded, one column updated, replaced); `Look`, `Insert`, `Write`, `Clear` and
`Remove` are then the same five statements for all. `Gather`, `Tell` and
`Announce` are what others are told. A failed push is `SendToUser`.

**Media.** `file` is where the file is, `path` and `status` the row, `mod` the
upload and its goroutine, `review` the reviewers' requests. `Unchecked` is a file
operation whose failure nobody looks at (media.go:101, 178, 186, admin.go:96), and
`botched` that one has failed.

## 3. Runs

Each run is one configuration; "mutants" in `PROJECT.json` names, for each
property, a fault in the modelled code that the run detects.

| Run | Instance | What it shows |
|---|---|---|
| `HubSafe` | 2 users, one the other's contact, 3 connections (one user dials twice; its connections are interchangeable), `Cap` 1, handlers that send to that user or answer on their own connection | `RegisteredIsLive`, `OneLiveSocketPerUser`, `OwnSendStaysOpen`, `NoGhostOnline`, `OfflineOnlyWhenReplaced`, and that the hub implements `Registry` |
| `HubLive` | 2 users, a connection each, a background task, panics, restarts, handlers that send and acknowledge, fairness | `HubComesBack`, `BrokenIsCleanedUp` |
| `Msg` | 1 message of any kind, 2 recipients, a WebSocket and an HTTP handler, `Cap` 2, one edit | `DeliveredWasAccepted`, `NothingAfterDelete`, `SettledStatusIsMonotone` |
| `Sched` | 2 messages of any offset, 1 stop, fairness | `AtMostOnce`, `NotEarly`, `RemovedIsNeverDelivered`, `DeletedIsNotDelivered`, `HandedOut` |
| `Group` | 3 users, 3 requests, 4 membership rows, symmetry | `OnlyCheckedRowsGo`, `OwnerHolds`, `StrangersAreLeftOut`, `LastMemberDeletes` |
| `Keys` | 2 devices, 2 key ids, 1 owner and 2 bundle requests, 3 rows, 2 registrations each | `KeysFollowDevice`, `UsedUpInOrder`, `BundleInOrder` |
| `Poll` | 3 users (1 without access), 3 requests, 2 options, both kinds of poll, symmetry | `PatientHoldOneVote`, `SerialResultIsShown`, `ClosedStopsNewRequests` |
| `Media` | 2 reviewers, 2 stops, every pair of likelihoods, file operations that fail, fairness | `FlaggedIsNeverPublic`, `ScanAndReviewAreApart`, `SettledIsCoherent`, `PendingIsDecided` |
| `Social` | 3 users, 3 requests, a list and a story that are there at first, with and without a block, 1 stop, symmetry | `BlockedThroughout`, `OncePerSend`, `AwayStaysAway`, `CountIsViews`, `ViewersWereContacts` |
| `Mark` | each of the ten tables, 2 users, 3 requests, 1 key (2 for receipts) | `AtOneMoment` (`Marks` implements `Registers`), `PatientWish`, `ToldIsTrue` |
| `Retain` | 1 user, 2 messages, timers of 0 to 2 units, 1 stop, fairness | `KeptAtLeast`, `GoneWhenOn` |
| `HubPanic` | 2 connections of one user and a request | a statement the sources make and the code does not keep (section 5) |

Each module's `TypeOK` (`PollTypeOK` in `Polls`, `SchedulerTypeOK` in
`Scheduler`) says what its state is; all of them are proved (section 4).

**Why the bounds are enough.** A buffer of one frame is full after one send, and
one of two holds two events in order. Two connections of one user are needed for a
replacement, a third for another user's presence and messages. A second message
would not meet the first: each status is a column of its own row, and the bulk
update of a history request does to each row what it does to one. Two scheduled
messages give a pass with one handled and one waiting. Three requests let one end
between two statements of another while a third is under way; the races found have
two. Two rows more than users let somebody leave and come back. Two stops let a
restart be interrupted again; in `Sched` one is enough, since a stop keeps only
the table, which a second one finds as the first did. A user is enough for
`Retain`, since a timer belongs to a user and messages of different users do not
meet; a second message is needed for a forward and for a row stored between the
service's reading of the time and its UPDATE; two units tell a short timer from a
long one. In `Mark` the tables do not meet either, so a behaviour is about one of
them, and so are the two parts of `Social`, which share no table. Membership rows,
prekey rows, registrations, edits and stops are counters bounded by `MaxRows`,
`MaxGen`, `MaxEdits`, `MaxRequest`, `MaxTimer`, `MaxStops` and `MaxCrashes`: the
program has no such limits, they only end the run. `CHECK_DEADLOCK FALSE` stands
where a run ends by such a bound or because every connection, request or upload it
has is through.

**Symmetry** is used in `HubSafe`, `Group`, `Poll` and `Social` only, where all
properties are safety properties and the permuted values occur nowhere by name.

**Fairness.**
`Hub`: weak fairness of `Hub.Run`, of each pump, and of a task that holds a
looked-up client: the Go scheduler runs what can run, and `Hub.Run`'s requests
are received from unbuffered channels. None for clients (they may never dial,
send or break) and none for the restart. `Write` being fair means that a socket
that accepts no data eventually fails (write errors, missed pongs).
`Scheduler`: the clock goes on (`Elapse`, `Ripen`), the goroutine is woken by its ticker
(`SchedulerStep`), and a stopped process is restarted, as a deployment does.
`Media`: the moderation goroutine runs on and the Vision service answers or
fails, which its client's deadline enforces; reviewers owe nothing.
`Retention`: time passes, the service's ticker ticks and its statement ends, and
a stopped process is started again; stops are bounded, and no handler has to
finish.

## 4. Theorems

`HubProofs`, for any users, connections, tasks, handlers, contact relation and buffer
size (assumption `HubAssumption` only): the invariant

    IInv == TypeOK /\ HeldIsConn /\ RegisteredIsLive /\ OneLiveSocketPerUser
            /\ OwnSendStaysOpen /\ InHand /\ Announced /\ OnIsTrue

is inductive. `HeldIsConn` (what a sender holds between the halves of `SendToUser`
is a connection) is needed for the types; `RegisteredIsLive` and
`OneLiveSocketPerUser` need each other, since the unregister of a displaced
connection must find another entry in the map; `OwnSendStaysOpen` follows because
only the removal of one's own entry closes the channel; `InHand` says what the
connection is that `Hub.Run` has received and not dealt with; `Announced` and
`OnIsTrue` are `NoGhostOnline` without its restriction to an idle hub: what a
contact was told is right, or the announcement that corrects it is under way and
the contact still to be told. From it: `Typing`, `RegisteredLive`, `OneSocket`,
`OwnSend`, `NoGhost`, then `OfflineReplaced` by a second induction on top, and
`HubImplementsRegistry`: with `session <- clients` and `ended <- Ended`,
registration is `Connect`, an effective removal `Disconnect`, a restart `LoseAll`,
and every other step a stutter. `OnlyStalePanics` bounds the panic of section 5:
it takes a connection unregistered between the two halves of `SendToUser`, and
ends the process only in a goroutine without recover.

`ServicesProofs` has two independent parts. For scheduled messages, any set of
them and any number of stops (`SchedulerAssumption`), the invariant adds `Fresh`
(what is pending has not been handed out, a batch is pending and due unless a
cancellation has overtaken it, the message being handled is no longer pending),
`Overtaken` (what a cancellation under way has found), `Zoned` (a text is due before
its instant only if its offset is behind), `HeldWhenDeleted` and `Unborn` to the
properties. From it: `SchedulerTyping`, `DeliveredAtMostOnce`, `NeverEarly`,
`RemovalIsFinal`, `DeletionIsSeen`; and, by a second induction on
`NoneForgotten`, `NextPassFindsIt`, the safety half of `HandedOut`: what is due, as
a text, and still owed is among the rows the next pass finds.

For disappearing messages, with any users, longest timer and number of stops
(`RetentionAssumption`), `Timed` says that what a message has left and its
age together are never less than a timer that was on while it was sent (or the
age is past what the model tells apart), `InHand` that a handler's number comes
from its user's timer and the expiry is computed once, `DueIsOver` that what was
due when the service read the time still is. `KeptAtLeast` alone is not
inductive: it only speaks of deleted rows, long after their timer was read.
`OlderIsTimed` is the lemma about a unit of time. From it: `RetentionTyping`,
`NothingGoesEarly`; and `OnMeansExpiry`, on which `GoneWhenOn` rests: which messages
have an expiry and which have none.

`GroupsProofs`, for any users, requests and number of rows (`GroupsAssumption`):
the invariant is `TypeOK`, finiteness of the rows, `Roled` (owners' rows are the
creator's, and no removal holds one), `Founding` (while the owner's row is being
inserted nothing else is there), `OwnerHolds`, and `Current`: what a request has
read is still so, or `Noted` has recorded the user who came or went. `Current`
carries the two action properties about stale reads; its step for the count of
the members uses that a finite set of at most one element has no two. From it:
`GroupTyping`, `OwnerStays`, `ChecksHold`, `Strangers`, `LastMember`.

`MediaProofs`, for any reviewers, number of stops, and with or without the mock
(`MediaAssumption`): `Phases` ties the row to where the goroutine is, `Reviews`
says that a review begins after the goroutine ended, `Harmless` that what is
approved without a reviewer was found below POSSIBLE (`DecisionIsStrict` is the
lemma about `Decision`). From them: `MediaTyping`, `FlaggedStaysPrivate`, `Apart`,
and by a second induction, `OnCourse`, `Coherence`, with `botched` in each phase:
after a failure the file is in quarantine and nobody reviews it any more.
`NoPendingOrphan` is the safety half of `PendingIsDecided`: without a stop,
pending media has its goroutine.

`PreKeysProofs`, for any devices, key ids, requests and bounds
(`PreKeysAssumption`): the invariant adds to the types that row numbers and key
ids are one row's each and numbers from `next` on are unused (`Numbered`), that
the row a bundle request holds is still the one of its number (`HeldIsRow`), and
that the long-term keys are those of the last registration or gone (`Latest`).
A batch is numbered by counting the smaller ids, so `BelowCounts`, `BelowGrows`
and `BatchIsFresh` are about cardinalities. From it: `KeyTyping`, `UsedInOrder`,
`BundlesInOrder`; and, where requests of the owners come one at a time
(`Owners = {o}`, as in the run), `KeysFollow` by a second induction on `Follow`,
which says what each statement of a removal has left of the device.

`SocialProofs`, for any users, requests, rows and stops: the tables of the two
parts never change together, so the invariant is one for each. For the lists,
`Fit` says what a request has in hand of whom a block separates from its user for
the whole of it (nobody it found, listed or wrote to, unless as a rename of rows it
had loaded), `UnmadeList` that a list
no request has made has no rows and nobody works on it, and `AwayStaysAway`
itself. For the stories, `Watching` says what a request holds between a view and
its counter, `Told` that whoever knows the id of a story restricted to contacts
was one, and the counter is the cardinality of `Counted`, the viewers whose view
a request has counted; `CountedAreViewers` turns that into the property. From it:
`SocialTyping`, `BlocksHold`, `NobodyTwice`, `TakenOffIsOff`, `CounterIsRight`,
`OnlyContactsView`.

`ConversationProofs` has two independent parts. For messages of any number, with
any recipients, handlers and buffer size, `DeliveredWasAccepted` is not inductive
by itself: the status is written two steps after the channel accepted the event.
`InHand` carries it there (a handler that holds a send successful was accepted
by a recipient of its message), with `Unmade` (a message not created has no
past) and `Reached` (what is in a buffer, an acknowledgement or a history
page was created, and a buffer ends with its connection). From it:
`MessageTyping`, `Delivered`, and the action property `StatusMovesForward`.
`DeletionIsLast` takes one connection of the sender (`OnePump`, as in the run,
because with two the code lets an edit follow a deletion) and is a second
induction, on `Deletions`: a deleted message that is not `early` is being sent to
nobody, nobody is about to edit it, and in every buffer its deletion is the last
event about it.

For polls with any users, options and requests (finitely many users and options,
so that counts are counts): `Meeting` (requests under way at once have met; one
made after the close writes no vote), `OneVote` (a user who waits for his answers
has one vote, and none while one is being inserted) and `Serial` (if no two
requests ever met, what the one under way has counted is what the table says, and
the last broadcast is the table). From it: `PollTyping`, `PatientHaveOneVote`,
`SerialShown` and the action property `ClosedIsFinal`.

`MarksProofs`, for any users, keys and number of requests, and any lists of
different keys (`MarksAssumption`), has one invariant for all ten tables:
`Typed`; `Shape` (what a request has in hand at each step, table by table);
`Sound` (a row is known by the request that made it and its key, and a request
that may still insert a row for a key has made none, whether in the table or in
the hands of a request that will save it again); and `Unique` (no two rows have
what the index covers). Every action is first brought to a form of its own
(`LookMoves`, `InsertMoves`, ...), which the later inductions share. On top of
it:

* `ToldTruly`: whoever is announced has a receipt, and so has the user of a
  request for what it has dealt with (`Readers`); of a key whose last request ran
  alone, what that request has looked up, loaded or read is still so (`Lately`).
* `PatientWishes`: a request whose keys met no other of its user's is the only one
  of its user, so that a row it has not found is not there (`Undisturbed`); what
  its user is shown is what he wished before the request dealt with the key and
  what it asks afterwards (`Wished`). No index is needed for this.
* `MarksImplementRegisters`: with `value <- Shows` and `job <- Jobs`, a beginning
  request is `Ask`; what inserts, writes, deletes, or finds the row to be kept, is
  `Apply` for that key, because by `Unique` and the refusals the row it leaves is
  the only one there is to show; a refusal is `Fail`, telling the others
  `Succeed`, and looking a stutter.

So each safety property of the passing runs is a theorem, for every value of
the constants, and so are the two refinements.

**Only model-checked:** the liveness properties (`HubComesBack`,
`BrokenIsCleanedUp`, `HandedOut`, `PendingIsDecided`, `GoneWhenOn`), since the
prover does not handle fairness and ENABLED; what the last three need besides
fairness is proved (`NextPassFindsIt`, `NoPendingOrphan`, `OnMeansExpiry`). What the
theorems cannot do without are the restrictions named above: one request of an owner
at a time for `KeysFollow`, one connection of the sender for `DeletionIsLast`.

## 5. Where the code departs from what it says

One has a run whose counterexample shows it:

* `HubPanic`: the test at `hub_test.go:146` says SendToUser "should return false"
  for a user who is not there; a client unregistered between hub.go:91 and 95
  makes it panic. In the scheduler or the bot that ends the process.

Others were met while reading and modelling; the properties are stated so that
they hold beside them, and the conditions in them say where the limits are:

* hub.go:62 "Notify contacts about offline status" also runs for a replaced
  connection (`OfflineOnlyWhenReplaced` says it is the only such case). It drops the
  frame for a contact whose buffer is full (95-98), and nothing repeats it: that
  contact shows the user as online until the next frame (`lost` in `NoGhostOnline`).
* hub.go:40 closes the connection a login replaces only after `Register` has
  returned and the new pumps may run: for that moment two open connections of one
  user are served (`Registering` in `OneLiveSocketPerUser`).
* hub.go:81 "currently connected clients": a reader blocked on its own full
  buffer after WritePump has gone (client.go:255) is counted for ever
  (`Stuck` in `BrokenIsCleanedUp`).
* client.go:246 writes *delivered* by id after the recipient may have marked the
  message as read (the condition of `SettledStatusIsMonotone`).
* messages.go:349 marks a forwarded message delivered whatever SendToUser
  returned, and client.go:952 acknowledges a question to the bot as delivered, which
  no connection takes (`DeliveredWasAccepted` leaves both out).
* client.go:504 updates without looking at `deleted_at` again: with two
  connections of the sender an edit may follow a deletion (`NothingAfterDelete`
  is checked with one). client.go:532 asks for the row only: a message whose forward
  to a group is still fanning out may be deleted, and reach a member afterwards
  (`early`).
* messages.go:67 marks the whole conversation as read, not the page it returns;
  client.go:466 tells the sender *read* for group messages whose row says
  otherwise; `message_deletions` (message.go:46) is written and never read.
* scheduler.go:69 clears `scheduled_at` before the delivery: a stop in between
  loses the message (`lost` in `HandedOut`). The query's `deleted_at IS NULL`
  (59) is checked once per batch (`late` in `DeletedIsNotDelivered`).
* scheduler.go:56 "scheduled for now or earlier": line 58 compares texts, and
  messages.go:1089 keeps the client's offset. With an offset behind the server's a
  message is sent early, by up to the difference, ahead of it late (`NotEarly`).
* scheduler.go:112 reads the clock before its DELETE runs: a pass that begins in
  between has the message in its batch, its UPDATE of no row is not noticed (69), and
  it delivers what the cancellation removed (`raced` in `RemovedIsNeverDelivered`).
* GetHistory does not look at `scheduled_at`: its page may show a scheduled message
  before its time, and messages.go:67 marks the whole conversation read, shown or
  not. The scheduler asks for status `sent` and never delivers those, although
  messages.go:1142 goes on listing them as "pending" (the last disjunct of
  `HandedOut`).
* scheduler.go:113 reports success when it deletes no row; a block set after
  scheduling is not looked at (messages.go:1111).
* groups.go:344 counts the members and groups.go:353 deletes later: somebody
  added in between, or everybody if the owner leaves twice at once, is left in a
  deleted group (`LastMemberDeletes`). Membership is read once before a message
  is stored and once before it is sent (`StrangersAreLeftOut`). Leaving deletes
  no sender keys although services/keys.go:261 has the function for it.
* prekey.go:12 "Each prekey can only be used once" and 122 "atomically retrieves
  and deletes": the SELECT and the DELETE are two statements, and two requests
  that overlap get one key (`UsedUpInOrder` says only those do).
* keys.go:114 checks the device once before a row-by-row upload, so keys may
  outlive a device (`KeysFollowDevice` takes one request of the owner at a time).
  The parts of a bundle may come from two registrations (`BundleInOrder` says in
  which way). prekey.go:17 names its index for user, device and key id, but it
  covers `key_id` alone, so two devices cannot both number from 0 (`Taken`).
* poll.go:209 and 218: two overlapping requests of one user leave two votes in a
  single-select poll (`PatientHoldOneVote`); poll.go:188 reads `Closed` from an
  earlier copy (`ClosedStopsNewRequests`); results are broadcast out of order,
  and with the voter's own `my_votes` (`SerialResultIsShown`).
* admin.go:95 "Delete the file": when another reviewer has just moved it, the row
  says rejected and the file stays in the public directory (`SettledIsCoherent`
  is about one reviewer at a time).
* media.go:178 and 186, admin.go:96: whether the file was moved or removed is not
  looked at, and the row is written all the same; the file is then still in
  quarantine (`botched` in `SettledIsCoherent`).
* media.go:167 writes the status before the file is moved, and a scan under way
  when the process stops is never taken up again (`SettledIsCoherent`,
  `PendingIsDecided`). README.md:76 "scanned before delivery" holds for images
  only; README.md:81 says only VERY_UNLIKELY is approved, the code approves
  everything below POSSIBLE.

* README.md:16 of the repository promises "auto-delete after set time". Texts that
  are scheduled (scheduler.go:82) or sent to a broadcast list (broadcast.go:333),
  locations, encrypted messages, questions to the bot and copies made by Forward
  get no `expires_at`, whatever the conversation's timer, and stay (`GoneWhenOn`
  is about texts sent over the connection). Soft-deleted rows are left out by
  search and export only; history, pinned and starred messages still return their
  content.
* conversation_settings.go:23, pinned_message.go:14 and the themes: the unique
  index has a column that is NULL, or there is none. Two first requests make two
  rows of settings, and a mute may be written to the one that is not shown; two
  pins at once leave two (`PatientWish` and `ToldIsTrue` are about requests that
  ran alone). archive.go:15: the index over archived groups leaves out the user,
  so whoever archives a group second is refused (a refusal in `AtOneMoment`).
* read_receipt.go:42: a receipt that is refused ends the loop, the ones before
  it are stored and not announced. A token whose push failed is deleted by its
  text (push.go:146), also when another user has registered it meanwhile.
  chat_theme.go:78 dereferences a conversation type that the request may have
  left out.
* broadcast.go:169: renaming a list writes its recipients back as loaded, so that
  somebody taken off meanwhile is on it again, even if he has been blocked for the
  whole request (`AwayStaysAway` and `BlockedThroughout` except those).
  Adding or removing a recipient loads the list again and panics when it was
  deleted meanwhile; the middleware recovers. Blocks are checked recipient by
  recipient, each at its own time (`BlockedThroughout`).
* A new story is announced to the users its owner has as contacts, but listed to
  those who have the owner as a contact; viewing it checks neither
  (`ViewersWereContacts` has both). A process that stops between a view and its
  counter leaves them apart (`uncounted`). story.go:192 "removes expired stories":
  nothing calls it.

## 6. Interactions between the modules

`Messages` and `Groups` rely on the hub through `Registry`'s promise only: a
user has at most one connection that takes messages, and when it ends its
buffer is gone. What `SendToUser` returns is `Reaches` in `Messages`, a free
choice in `Scheduler`. `Messages` knows the members of a group as a set; how it
changes under a post is in `Groups`. What a handler stores around its sends is
left out of `Hub`.

`Social` is a composition: `Broadcasts` and `Stories` both extend `Contacts`,
their requests are of one kind, and a send or a new list reads the blocks that
other requests make and lift, while what a user knows of stories follows the
contacts as they change. A broadcast's messages, the copies of a forward and a
poll are ordinary messages once stored; `Messages` says what becomes of them.
The timer that `Retention` reads is a row that `Marks` has as table `settings`.

## 7. Not modelled

Authentication, tokens and the rate limiter, encryption proper, the providers of
push services, link previews, the bot's answers, thumbnails and document
metadata: calls to libraries and services that no other part's state depends on.
Requests that only read (lists, exports, counts, conversations), profile data.
Generated Dart code, screens, widgets. Not modelled inside the modelled parts:
failing statements (see section 2), group rename, the verified flag of an
identity key, the request that deletes all tokens of a user, nicknames, the read
limit and deadlines of a socket beyond "it breaks". The app's WebSocket client
and its sync service have a protocol of their own (reconnection, a queue that is
flushed, a store of pending messages); they are not modelled yet.

## 8. Plan

1. Done: `Registry`, `Hub`, `Messages`, `Scheduler`, `Groups`, `PreKeys`,
   `Polls`, `Media`, `Contacts`, `Broadcasts`, `Stories`, `Social`, `Registers`,
   `Marks`, `Retention`, with the proofs of section 4.
2. Theorems next: `KeysFollow` for overlapping requests of an owner, with what
   each leaves behind, and that `Broadcasts` and `Stories` by themselves satisfy
   what `Social` does.
3. Modules left: `Client` (the app's WebSocket service: connect, timeout,
   reconnect with backoff, the queue flushed after a reconnect) composed with
   `Sync` (pending store, time of the last sync) and an abstract server, to ask
   whether a message written offline arrives, and once.
4. Abstract specifications worth adding: a mailbox (sent, delivered, read) that
   `Messages` implements once settled; a one-shot timer that `Scheduler`
   implements; an at-least-once channel for `Client` with `Sync`.
