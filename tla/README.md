# TrainingBud: a TLA+ verification project

TrainingBud is an iOS app (Swift, `src/TrainingBud/TrainingBud`) in which users
find, join and leave training sessions and follow each other.  It has no server
code of its own: all shared state lives in a Firebase Realtime Database, reached
through the Objective-C client in `Pods/FirebaseDatabase`.  What is hard in this
program is therefore what happens *between* devices: every screen keeps copies of
server data, writes whole lists back, and is told of changes later, on another
queue, over a connection that may be lost.

Paths below are relative to `src/TrainingBud/TrainingBud` (the app) or to
`src/TrainingBud/Pods/FirebaseDatabase/Firebase/Database` (`FDB/`).

## 1. Inventory

| Component | State | Operations | Interacts with |
|---|---|---|---|
| Database client, one path (`FDB/Core/FRepo.m`, `FSyncTree.m`, `FWriteTree.m`, `FViewProcessor.m`, `FPersistentConnection.m`) | cached server value, pending writes, outstanding puts, listens, connection state | add a listener, set, data update, answer to a put, disconnect, restore state, raise events | the server by messages; the screens by blocks on the main queue |
| Session details (`SessionDetailsViewController.swift`) | session object, participants' user objects, button title | open, back, Join/Leave, observer of the session, fetch of each participant | session list (shared object), database client |
| Session list (`FindSessionViewController.swift`, `MySessionViewController.swift`, `CategoryTableViewCell.swift`) | session objects, categories, current filter | observer of all sessions, filter, clear filter, tap | details screen, preferences |
| Search wizard (`SearchPageViewController.swift`, `Pick*ViewController.swift`, `PopupContainerViewController.swift`, `Preferences.swift`, `Storage.swift`) | page index, preferences object, the one stored in Realm | pick, forward, back, close (store and notify), delayed reset, clear | session list by notification; Realm |
| Buddies (`BuddyDetailsViewController.swift`) | one static user for all instances, button | observe own user, follow/unfollow by read, change, write back | database client |
| Profile (`ProfileViewController.swift`) | interests and buddies shown | fetch, add interest, remove interest or buddy by local index | database client |
| User model (`Models/User.swift`) | - | parse a snapshot, or fail | every reader of `Users` |
| Accounts (`SignUpViewController.swift`, `LoginViewController.swift`, `InitialViewController.swift`, `MenuViewController.swift`) | form, button, toast, signed-in user | create account, set name, write record, sign in, sign out | Firebase Auth, database client |
| Session creation (`CreateSessionViewController.swift`) | form fields | pickers; `save` checks and writes nothing, `saveSession` is not wired | - |
| Location (`MainViewController.swift`) | current city | geocoder callback, popup | shown on the profile |

The remaining sources are layout (cells, gradients, buttons), earlier versions of
screens nothing leads to, the delegates generated by Xcode, other Pods and course
exercises.  `PROJECT.json` lists each with its status.

### What is hard, and what makes each component correct

* **Database client.**  Messages are lost with a connection, puts are sent again,
  rejected writes are taken back, data from the server arrives while local writes
  shadow it, and answers to puts are held back while any listen of the connection
  waits for its response.  Correct: an outstanding put always meets its own answer;
  no answer is held back for ever; a device that listens is never left behind; a
  successful answer changes nothing on the screen when it comes; all settle on the
  server's value.
* **Session membership.**  Whole lists are written back from stale copies; the list
  and the details screen first share one session object and later hold two; the
  button is set once.  Correct: nobody is in a list twice and the host always is
  (an empty node would trap the cast in `fetchUsers`); no screen misses a change;
  screens at rest show what the server has.  Not true of the code: a join lasts
  until that user leaves; the button follows the membership.
* **Roster and profile fetches.**  A reset followed by one callback per user;
  callbacks of an earlier round arrive after the reset.
* **Buddies and interests.**  Removal by local index, a static user read in a
  callback, lists with holes, the empty id that stands for an empty list, writes of
  single children that nothing waits for.
* **Search wizard.**  An off-by-one in `goForward`, taps during animations, a
  preferences object deleted in Realm while in use.
* **Accounts.**  Steps that fail half-way, the form submitted again.

`PROJECT.json` lists these hazards at their lines, with the properties that cover
them.

## 2. Plan

The plan, in the order it was carried out.

| Order | Module | What | Run | Theorems |
|---|---|---|---|---|
| 1 | `FirebasePath` | one path: server, connection, client, event queue | `path` | types, `ListenersAreTold`, `EveryPutIsAnswered`, `HeldBackIsDue`, `AnswerIsSilent`; at rest all is settled |
| 2 | `SharedValue` | abstract specification of a path: a value that writes replace | `path` (`ImplementsShared`) | the refinement |
| 3 | `SessionMembership` | list and details screens over `FirebasePath`; refines it | `membership`, `membership_faults`, `lost_join`, `stale_button` | types, `ListsWellFormed`, the refinement, `NothingMissed`, `QuietScreensAgree`; `OnlyOwnDeviceRemoves` for one pressing user |
| 4 | `RosterFetch` | a reset and one read per participant, answers in any order | `roster` | types and all its invariants; at rest it is full |
| 5 | `ListNode`, `BuddyLists`, `ProfileInterests` | lists as nodes with holes; following, removing, interests | `buddies`, `interests`, `buddy_trap` | types and all properties of both runs that pass |
| 6 | `SearchWizard` | pages, late touches, preferences and Realm, filter of the list | `wizard` | types and all its properties |
| 7 | `AuthFlow` | start, forms, requests of Firebase Auth, record, sign-out | `auth`, `auth_record` | types and all its invariants |

How the modules build on each other: `SessionMembership` EXTENDS `FirebasePath` and
implements it; `FirebasePath` implements `SharedValue` under the mapping

| `SharedValue` | `FirebasePath` |
|---|---|
| `value` | `db` |
| `wanted` | `pending` |
| `taken` | number of answers to puts held back or on their way down (`Dealt`) |

`RosterFetch` takes the session's value from `SessionMembership` (the host is always
in it, values arrive in order, the last one is never skipped: `ListsWellFormed`,
`NothingMissed`).  `BuddyLists` and `ProfileInterests` EXTEND `ListNode`; their
`node` is what the database client of the device shows (`View` of `FirebasePath`,
own writes included).  Only the user's own device writes these two lists; the user
is assumed to edit them on one device.

## 3. Modules

### FirebasePath

One path of the database, any set of devices (`Clients`) and values.

| Variable | Code |
|---|---|
| `db`, `listeners` | the server (external) |
| `online` | connection state of `FPersistentConnection` |
| `up`, `down` | messages of the current connection, in order |
| `cache` | complete server value in `FSyncTree`; `NoValue` before the first data |
| `pending` | `FWriteTree.allWrites` |
| `unacked` | `unackedListensCount` |
| `deferred` | length of `putsToAck`: these answers belong to the oldest pending writes; the others, `Outstanding`, are `outstandingPuts` |
| `registered` | listeners on the path |
| `events` | blocks dispatched to the main queue and not run yet |
| `budget` | what is left of the bounds; no part of the code |

`View` is what the client shows: the last pending write shadows the cache.  Every
action that may change it (`Write`, `ReceiveData`, `ReceiveOk`, `ReceiveRejected`,
`ReceiveListening`) ends in `RaiseChange`, as the code does in `raiseEvents`.  `Register` serves a later
listener from the cache (`Serve`).  `Disconnect` loses both queues and the listen;
`Reconnect` is `restoreState`: listens first, then every outstanding put, those
already applied by the server included, those whose answer is held back not.  `Kill` ends the process; persistence is
never enabled (`AppDelegate.swift:18`), so nothing survives.

Choices worth knowing:

* The server answers a put after it has told the listeners of that connection, and
  handles one connection's messages in order.  The server is external; this is the
  order the client relies on (`ackUserWriteOn` uncovers the server cache).
* A listen is always answered with data.  The real server skips data whose hash the
  client already has; receiving an equal value changes nothing.
* **Answers held back.**  The client counts the listens sent on the connection, of
  whatever path, that have no response yet.  An answer to a put that comes while
  there is one takes the put off `outstandingPuts` but is only queued
  (`FPersistentConnection.m` 689-698); the response to the last listen releases the
  queue (`ackPuts`, 813-815, 1074-1079).  `fetchUsers` makes this the ordinary case:
  its block sends a listen per participant right behind the put of a join.  Of other
  paths the model therefore keeps that they are listened to: `Read` is a screen that
  reads elsewhere, `Deliver(c, TRUE)` a block on the main queue that does, and
  `ReadRequest` stands for all listens sent at once, since only their last response
  counts.  A loss sets the count to zero and keeps the queue (364-396), so a write
  may be pending and no longer outstanding: `Reconnect` does not send it again, and
  its answer is released by the listens of the new connection.  While an answer is
  held back, data of other devices may arrive under the write; what its release
  uncovers may then be new to the screen.  `AnswerIsSilent` is about the answer's
  arrival only.
* The listens of a new connection go up in no particular order (a dictionary is
  enumerated), but all before the puts; the model puts this path's first.  A listen
  made while the connection authenticates is sent twice by the code, once then and
  once by `restoreState`; the model has only the second, the other gets the same
  data before any put.
* `RaiseAgain` is an event for an observer on a node above the path when something
  beside the path changes; the list of sessions has one.
* A press and the client's worker queue are one step: `setValue` is applied on the
  worker queue a moment after the press.  The steps of the worker queue before it
  do not depend on the press and the screen does not read the client, so they
  commute.
* The events of one change for both screens are one event with two receivers; the
  client queues them next to each other (`FSyncTree.m` 933-1010).

### SessionMembership

EXTENDS `FirebasePath`; the path is `Sessions/<id>/participants`, its values are the
well-formed participants lists and its listeners are the list and the details
screen.  A list is a count per user; its order only decides the order of pictures.

| Variable | Code |
|---|---|
| `listed` | participants of the session object in `FindSessionViewController.sessions` |
| `details` | participants of `SessionDetailsViewController.currentSession`, last one opened |
| `shared` | devices where both are the same object (`TrainingSession` is a class) |
| `open` | the details screen is on top |
| `button` | title of `btnJoin`, or hidden for the host |

`LoadList` is `viewDidLoad` of the list, `OpenDetails` the tap with `viewDidLoad` of
the details screen, `GoBack` `goBack`, `Press` `join_onClick`, `KillApp` a restart.
`HandleEvent` runs both observers' blocks; that of the details screen also reads the
participants' records.  `OtherSessionChanges` is a change of another session, for
which the list's observer, on all of `Sessions`, is called too and makes new
objects.  `Background` is everything the client, the network and the server do, and
reads by other screens.  `goBack` leaves the observer registered, as the code does; an
event still queued for a previous details screen reaches the new one only if they
share the session object (`carry` in `Register`).

Not in this module: the nested fetch of users (`RosterFetch`), other fields of the
session (only `participants` is ever written), categories and filters
(`SearchWizard`), a second session's participants (sessions are separate paths and
no operation writes two).

### SharedValue

What the app may rely on: a device asks for a write (`Ask`), the oldest one not
dealt with takes effect or is refused (`Deal`), and some that were dealt with are
forgotten, oldest first (`Forget`).  A lost connection makes a device begin again with writes it has not
forgotten (`BeginAgain`), so a write may take effect twice, but never after it was
forgotten and never out of the order of its device.  A killed process gives its
writes up (`GiveUp`).

### RosterFetch

`fetchUsers` of the details screen: every event of the session empties the array of
users and reads every participant's record, with a callback each.

| Variable | Code |
|---|---|
| `node`, `told`, `queue` | the session on the server, as last raised, and the events waiting on the main queue |
| `going` | `currentSession.participants` |
| `asked` | `observeSingleEvent` calls of line 77 whose block has not run |
| `roster`, `cells` | `participants`, and what it was at the last `reloadData` |
| `overlap` | history: the reads open when the array was last emptied |

Records that `User(snapshot:)` refuses (`Unreadable`) add nothing.

### ListNode, BuddyLists, ProfileInterests

`ListNode` is how the client stores a Swift array, and what becomes of it when one
child is set to nil: a hole.  `ExportsArray` is the client's rule for exporting an
array or a dictionary (`FDB/Snapshot/FChildrenNode.m`, 163-224), `CastsToStrings`
when `User(snapshot:)` accepts the result.

`BuddyLists` is the details sheet (`BuddyDetailsViewController`) and the buddies of
the profile.

| Variable | Code |
|---|---|
| `target` | the static `user` |
| `sheet`, `button`, `told` | the sheet in front, its button, whether its observer has been called |
| `watched` | the observer of some sheet is registered; none is ever removed |
| `follows`, `lists` | single reads of `addBuddy` and `fetchBuddies` not served |
| `queue` | blocks on the main queue with their snapshots; "old" ones belong to closed sheets |
| `rows`, `fetches` | `buddies` of the profile, and the reads of their records |
| `running` | no forced unwrap has failed and no child with an empty id was asked for |
| `patient` | this user acts only when everything asked for has arrived |

A list in which an unfollowing left nobody has the empty id (`Empty`), so that the
node does not vanish.  The sheets can read it; the profile asks for the child with
that id, and `child("")` throws (`ProfileViewController.swift:67`,
`FDB/FIRDatabaseReference.m` 101-107, `FDB/Utilities/FValidation.m` 71-86).  `Traps`
says which block ends the app, `Trap` is the end.

`ProfileInterests` is the list of interests.

| Variable | Code |
|---|---|
| `rows`, `reading`, `read` | `interests`, and the one read of `fetchInterests` with its snapshot |
| `node` | the list as the client shows it, its own writes included |
| `writes` | the writes of single children without an answer, in order |
| `server` | the list in the database |
| `executed`, `reached` | how many of the writes the server has executed over this connection, and over this or an earlier one |
| `slip` | history: one of the four things happened that part the rows from the list |

`Add` and `Remove` change a row and set the child of its index at once.  The server
executes the writes one by one (`Execute`) and answers (`Answer`); after a loss those
without an answer are sent again, save the oldest whose answer was held back
(`Lose`); a refused write is taken back by the client, and nothing tells the screen
(`Refuse`; that its answer comes before later writes are executed is a
simplification after which nothing is claimed anyway).  `Reopen` is another log-in,
with the client as it was; `Restart` a new process, which starts from what the
server has and has lost the writes.

### SearchWizard

The popup with its three pages, the preferences they fill in, their copy in Realm,
and the list of sessions filtered by it.

| Variable | Code |
|---|---|
| `popup`, `page`, `turning` | the popup, `currentPageIndex`, the page just left, on which a touch may still land |
| `dates` | which ends of the interval `PickTimeViewController` has |
| `draft`, `life` | `SearchPageViewController.prefs`; unmanaged, in Realm, or deleted there |
| `stored` | the preferences in Realm |
| `resets` | blocks of `asyncAfter(0.4)` (`PopupContainerViewController.swift:31`) |
| `categories`, `shown`, `filter`, `clear`, `loaded` | `categories`, `displayCategories`, `prefs`, the buttons of `FindSessionViewController`, first event seen |
| `trap` | why the app has trapped |
| `hasty` | this user's touches also land on a page that is turning away, and the popup may open before the reset |

A managed object traps when it is written outside a transaction, which is why the
reset matters.  `goForward`'s guard compares the index with `count`, so going on
from the last page traps; in the model `Fill` does.  `PickSkill` stores first and
then tells the list (`Posted`), as `close` does.  The popup opens from the session
list while it is not filtered and from the user's own sessions at any time
(`MySessionViewController.swift:81`), so `ShowPopup` does not look at `clear`.  A
picked time is formatted, parsed and unwrapped (`PickTimeViewController.swift:73`,
`toDate()!` in `OLD_FIND_SESSION.swift:130`), which fails where the device's settings
have another clock: `SetDate` may trap.

### AuthFlow

| Variable | Code |
|---|---|
| `accounts`, `names` | Firebase Auth's accounts and their display names (external) |
| `records` | user records, with the path they are under: the sign-up writes `users`, all readers read `Users` |
| `user`, `owner` | `Auth.auth().currentUser`; the user the home screen was opened for |
| `screen`, `form`, `enabled`, `toast` | what is in front, its fields, its button, its alert |
| `requests` | requests under way: sent, settled by Auth, waiting for their callback; `live` while their form is in front |
| `due` | callbacks on the main queue |
| `patient` | these users do not touch a form that waits |

Auth settles a request on its own queue, changing the current user there, before
the callback runs on the main queue: two steps (`Settle`, `Callback`).  A failed
request may have had its effect, the answer being lost.  Two facts of UIKit are
used: a segue is performed only by the controller in front, and an alert in front
blocks it.  A rename is given to whoever is the current user when the first
callback runs (`changeRequest` of `currentUser`), which need not be the new account.

### Kinds of users

`patient` and `hasty` are variables chosen in `Init` and never changed:
the same run covers both kinds of users.  Properties that do not name one hold for
both; one that does holds for that kind only, and its comment says what happens to
the others.  Why the kinds make sense: UIKit animations take no touches by default,
so a hasty touch on a turning page is rare but not impossible; the popup's own
animation takes 0.3 s and the reset comes 0.4 s after the close, which leaves
0.1 s; and reads are normally answered before a user has found the next button.

### Proof and MC modules

`FirebasePathProofs` (with the refinement of `SharedValue`),
`SessionMembershipProofs`, `RosterFetchProofs`, `BuddyListsProofs`,
`ProfileInterestsProofs`, `SearchWizardProofs` and `AuthFlowProofs` hold the
theorems, `ListNodeProofs` what those about lists need to know of its operators.
Each `MC` module gives the constants of one module small values; each `.cfg` is one
run.  Operators commented as mutants are plausible mistakes that the checks must
detect; no action uses them.

## 4. Runs

| Run | Instance | Shows |
|---|---|---|
| `path` | 2 devices, 2 values, 2 writes, 2 of: a loss, a rejection, a restart, a listen elsewhere; fair (876 thousand states) | puts and answers match one to one and in order; no answer is held back for ever; listeners are told; a successful answer is silent; the path implements `SharedValue`; devices settle on the server's value |
| `membership` | 2 users, 2 presses, 1 loss, fair (735 thousand) | lists stay well formed, screens miss nothing, the app implements the path, all screens end up with the server's participants |
| `membership_faults` | a participant and the host, 2 presses, 2 of: a loss, a rejection, a restart, a listen elsewhere, a change of another session (3.8 million) | the host stays in every list; quiet screens agree with the server; so does the button until a write is refused |
| `lost_join` (violation) | 2 users, 2 presses | a join is undone by another user's stale list |
| `stale_button` (violation) | 1 user, 2 devices, 1 press | the button of the second device stays wrong |
| `roster` | host, a participant, one unreadable user, 3 changes, 2 queued events, fair | every read is accounted for, nobody is missing, cells lag only until the host is read, the roster fills |
| `buddies` | 3 users, 2 sheets, 2 presses, 1 removal, 2 appearances (622 thousand) | nobody followed twice, following alone never breaks the record and traps only over the empty id, the button and the rows tell who is followed, a press follows the right user |
| `buddy_trap` (violation) | 2 buddies, 1 sheet, 1 removal | a removal makes the next block of a sheet trap |
| `interests` | 1 interest stored, 2 to choose from, 4 edits, 2 log-ins or restarts, 1 loss or refusal (892 thousand) | the rows are the list the client shows and the server's has no hole, but for the four slips |
| `wizard` | 2 sports, 2 popups, 2 session events, 1 restart (97 thousand) | the list shows what is stored, what it unwraps is there; in time nothing traps but a time that cannot be read back, and popups open fresh |
| `auth` | 2 addresses, 2 requests, 1 restart, fair | home only with a user, no form without its button for ever, and for patient users: home is one's own, only half-made accounts strand at the menu, records are named |
| `auth_record` (violation) | 2 addresses, 1 request | home without a record where home looks for it |

**Bounds.**  All are counts over a whole behaviour, named in the modules.
`FirebasePath`: two writes by two devices give every overlap of one write with
another, one loss gives a repeated put and a lost listen, one listen elsewhere
(`MaxReads`) holds an answer back, two presses on one device leave and join around a
rejection.  `MaxOthers` counts changes beside the path.  `MaxTroubles`, in the MC
modules, is how much of these bounds beside writes one behaviour may spend: any two
in `path` and `membership_faults`, so that each meets each other, as a listen
elsewhere and then a loss with its answer held back.  `MaxQueue` is how many events
may wait on the main queue when a screen opens; the runs have 1, so that a screen
opens with the queue drained, as a user is slower than the main queue.  With more,
`ButtonTellsMembership` fails even for a single device, because the title is made
from a list about to be replaced, and nothing in the code keeps the queue short; it
is checked on this instance and not proved.  Everything else about the screens is
proved for any `MaxQueue`.  `RosterFetch`: three changes
with two queued events let three rounds of reads overlap.  `BuddyLists`: two sheets and two presses are what it takes
to have a press answered after the static user was replaced; two appearances make
fetches overlap.  `ProfileInterests`: four edits, a loss and a restart let the server
repeat two writes and lose a third.  `SearchWizard`: a second popup meets the reset of the first, with
a restart between storing and listing.  `AuthFlow`: two requests are two forms, or
one form sent twice.

**Deadlock** is not checked: the bounds run out and users may stop, so every
behaviour may end.

**Fairness.**  The connection is retried for ever with a backoff
(`tryScheduleReconnect`, called from `onDisconnect`), the network delivers on a
connection that lasts, the server works off what it gets, and the main queue runs
what is dispatched to it: weak fairness on `Reconnect`, `ServerStep`, `Receive`,
`HandleEvent` and `LoadList`; in `RosterFetch` on `Notify`, `HandleSession` and
`Answer`; in `AuthFlow` on `Settle` (every request to Auth ends, with a timeout if
nothing else), `Callback` and `HideToast` (a timer).  None is assumed of users,
losses, rejections and restarts.  As rejections are steps of the server,
`ServerStep` as a whole is fair, never the acceptance of a put.

## 5. Findings

* **A join can be lost.**  `join_onClick` writes back the whole array its screen holds
  (`SessionDetailsViewController.swift:131,137`), so the later of two concurrent
  presses, or a press made offline and sent on reconnection, drops whoever is not
  in its copy, or brings back someone who left (`lost_join`).  It takes two users:
  where all devices that may press belong to one, a join lasts
  (`JoinsLastForOneUser`), and who never presses is never moved
  (`WhoNeverPressesStays`).
* **The button goes stale.**  The observer announced as "Update when someone has join
  or leave" (line 68) never updates the button (`stale_button`).
* **Removing a buddy can break the user's record.**  `removeBuddy` sets a child to nil;
  the hole, or the vanished node, makes `User(snapshot:)!` of the details sheet trap
  (`buddy_trap`).
* **A new user has no record where the app looks.**  The sign-up writes
  `users/<uid>`, without the lists; all readers use `Users` (`auth_record`).

The conditions in some properties are there because of what else the code does:

* Two events of a session in a row leave answers to the first round in the array, so
  that a participant is shown twice, or one who has left is still shown
  (`ExactWithoutOverlap`).
* A rejected press leaves the title of the button changed (`ButtonTellsMembership`).
* A press whose read is answered after another sheet was opened follows the user of
  that sheet (`PressFollows`); the button, once hidden, is not shown again when the
  user is unfollowed elsewhere.
* Unfollowing the last buddy stores the empty id, over which the profile then ends
  the app every time it is opened; following somebody else does not take it off
  (`OnlyEmptyIdTraps`).  It takes a user who presses before the observer has hidden
  the button, or twice.
* A buddy is removed at the index of its row, which is the order of the answers, so
  another buddy may be removed on the server.
* Four things part the rows of interests from the list (`slip` of
  `ProfileInterests`): an interest added before the list is loaded overwrites the
  first one; after a removal further up, the next one added overwrites the last one,
  and the next removal misses; a refused write stays in the rows; and a restart while
  the server repeats writes after a loss finds the list in a state it had long left,
  half old and half new.
* With interests the record parses only while there is one: the node vanishes with
  the last, and `User(snapshot:)` wants a list.  So the interests alone can make the
  own record fail to parse; `BuddyLists` takes them as present.
* A touch on a page that is turning away can go past the last page, and one before
  the delayed reset writes to an object Realm owns (`WizardNeverTraps`).
* If a form is edited, sent again with the return key or left while it waits, a late
  answer signs in behind another screen, or a display name is given to another
  account (`HomeIsOwn`, `MenuMeansHalfMade`, `RecordsAreNamed`).
* The return key submits a form that is not filled in, and its refusal enables the
  button; so `IdleIsReady` is about filled forms.
* When the display name cannot be saved the form offers to continue, but each
  further try fails, as the account exists.

## 6. Proofs

All theorems hold for any values of the constants, under the named assumptions of
the modules: the initial value is a value, `NoValue` is none, bounds are naturals
(`FirebasePath`); each device has a user, the host and guests are users, and the
path holds well-formed lists for two screens (`SessionMembership`); there are
finitely many users, the list one starts with names nobody twice and the bounds are
naturals (`BuddyLists`); model values that stand for nil are distinct from what they
stand beside.  Three theorems have hypotheses of their own, explained below:
`NothingFromNowhere`, `WhoNeverPressesStays` and `JoinsLastForOneUser`.

* `PathTypeCorrect`: the type invariant is inductive, with one lemma per action.  The
  lemmas are about `PathOver(V)`, the type invariant with any set `V` of values in
  the place of `Values`.  So they also give `NothingFromNowhere`: if only members of
  `V` are written, only they and the first value are ever stored, cached, pending,
  travelling or queued.
* `ListenersToldCorrect`: `ListenersAreTold` is inductive given the types.  `EndsAt`
  says what one holds once a queue is worked off; lemmas say what appending an
  element, appending one that does not count and consuming the head do to it.
* `HeldAnswersAreDue`: the invariant is `DueInv`, which adds to `HeldBackIsDue` the
  types, that nothing travels on a connection that is down, that only a device with
  a listener has writes, and that an answer is held back only of a write still
  pending.  The lemmas count the positions of marked messages in a queue after
  appending and after taking the head.
* `PutsAnswered`: the invariant is `PutInv`, `DueInv` with `EveryPutIsAnswered`.  That
  an answer never finds more answers held back than writes pending follows from it,
  so the guard `deferred[c] < Len(pending[c])` of `ReceiveAnswer` takes nothing away.
* `PathImplementsShared`: under `PutInv` every step of the path is, through the
  mapping of section 2, a step of `SharedValue` or a stutter.  `PutInv` is needed
  for a put that arrives at the server: it is the oldest write not dealt with.
* `AnswersAreSilent`: an answer that is held back changes nothing, and when one that
  is not takes away the last pending write, the cache under it already has its
  value.  The invariant is `SilentInv`, `PutInv` with three parts.
  `LastIsConfirmed`: once the server has taken a device's last put, a successful
  answer travels right behind the data that put caused (`Uncovers`), so the cache
  ends in the value written just when it arrives, although other devices' data may
  follow and uncover something else if the answer is then held back.  That needs
  the server to count the device as listening, which `AsksFirst` gives (after a
  reconnection the listen goes up before any put, and a device not yet counted has
  no data on its way), and a device that knows a value to have a listener
  (`AskedFor`).
* `RestIsSettled`: a connected device with nothing travelling has no write left over
  and, if it listens, is counted as listening and shows the server's value.  By
  `EveryPutIsAnswered` (no message, so no write), `ListenersAreTold` (no data on its
  way, so the cache is the server's), and one more invariant, `ListensOrAsks`: a
  connected device with a listener is counted as listening or has a listen on its
  way up.  This is the safety half of `DevicesSettle`: a device that is not settled
  has a step of the connection, the server or the client ahead of it.
* `OnlyPendingWritesLand`: the server's value only changes to a write that is still
  pending on some device, from `PutInv` as in the refinement.
* `ListsStayWellFormed`, `TypeCorrect` of `SessionMembershipProofs`: by
  `MembershipInv == TypeOK /\ ListsWellFormed`.
  Neither half is inductive alone.  What a press writes is well formed because the
  list it starts from is, because an open screen has one, and because only a user
  who is not the host has a button; what the path then does with it keeps it a
  value of the path.
* `AppImplementsPath`: under `MembershipInv` every step of the app is a step of
  `FirebasePath` or leaves it alone.  So what is proved of the path holds of the app:
  `AppListenersAreTold`, `AppRestsSettled`, and `AppImplementsShared`, the two
  refinements composed.
* `ScreensMissNothing`: `NothingMissed` is not inductive: after the list observer
  replaced its object, events for the details screen alone are queued behind
  those for the list, and on a shared object they change the list too.  `ShownInv`
  adds that an event with none for the list behind it carries the current view,
  that the list registers first, and that nothing is shown before data came.
* `QuietScreensAreRight`: with empty queues, screens hold the view, by
  `ScreensMissNothing`, and the view is the server's value, by `RestIsSettled`.
  `Quiet` says only that the device is connected and nothing travels or is queued;
  that it is listening and has no write left over need not be assumed.
* `WhoNeverPressesStays`: by `PlaceKept(u)`: every list kept or travelling has `u` in
  it as often as the first one.  A step in which `u` does not press keeps that, as a
  press changes one place in the list it starts from; the lemmas about `PathOver`
  do the rest.
* `JoinsLastForOneUser`: `OnlyOwnDeviceRemoves`, assuming `OneUserPresses` (all devices
  that may press have one user; there may be any number of them, and of hosts).  The
  put that takes somebody off is one that its device still holds pending, so that
  device is not a host's and belongs to the one user; and it took off nobody else,
  as all others keep their place.  Without the assumption the claim is false, which
  is the finding of `lost_join`.
* `ReadsAccounted` is inductive given the types; `NobodyMissing` and
  `ExactUnlessOverlapping` are consequences.  `CellsCatchUpAlways` needs that the
  host is in every list raised.  `RosterFullAtRest`: once the last value is raised,
  the queue worked off and all reads answered, every participant who can be read
  has a picture; by `NewestKnown`, the last event queued, or the last handled, is
  the last raised.
* `ListNodeProofs`: a key's rank among the keys is a bijection to `0..n-1`, so
  `Children` reads a node in key order and `AsNode` and `Children` are inverse on
  lists; writing past the end appends, removing the last child takes it off, and
  neither makes a hole; `Drop` and `Without` keep distinct lists distinct and say
  what is left.  All by cardinalities of sets of keys, without recursion.
* `BuddyListsProofs`: `TypeCorrect` and `NobodyEverTwice` by `TypeInv`, which says of
  every snapshot in the queue what it says of the list.  `OnlyTheEmptyIdTraps`: by
  `CastInv`, as long as nothing was removed the list and all snapshots cast, and what
  ended the app is the empty id in a block of the profile; by `AliveInv`, a patient
  user has no empty id anywhere, as the button is hidden for whoever is followed
  (`ButtonInv`), so nobody is unfollowed on a sheet.  `BuddiesAreShown`: by `ShownInv`, a buddy of the last list is in a row, is being
  read, or another list is on its way.  `ButtonIsRight`: by `ButtonInv`, a button
  that should be hidden is, or a block that hides it waits.  `PressIsRight`, and what
  the last two say of patient users: by `PatientInv`, at most one block is under
  way, it carries the list the database holds, and a press is for the sheet in
  front.
* `ProfileInterestsProofs`: `RowsStayTheList` by `RowsInv`.  The pending writes go
  through a sequence of lists, from what the server has answered to what is shown
  (`History`): each write makes the next list out of the one before, so a server that
  has executed the first of them over any of these lists has, for every key they
  write, what the last of them to it wrote.  Where the server repeats writes after a
  loss only the keys of those still to be repeated may differ (`executed` to
  `reached`), and when it has caught up its list is one of the sequence, without a
  hole; so a restart then finds a list.
* `FilterTellsStored`, `CellsNeverUseDeleted`: by `FilterInv`, which adds that
  nothing is filtered by what is not stored, and uses `CompleteInv` for what is stored
  just before the list traps.  `StoredStaysComplete`: by `CompleteInv`, which says the same of the preferences being filled in, and that
  every page but the first is touched with a sport picked.  `InTimeNeverTraps` and
  `InTimeOpensFresh`: by `InTime`, an open popup has an object of its own and a
  closed one is fresh but for resets to come.
* `NobodyAtHomeUnsigned`, `FormsComeBack`: by `Inv` of `AuthFlowProofs`: a live
  request belongs to the form in front and, once it has succeeded, somebody is
  signed in; behind an alert the button is enabled.  `HomeStaysOwn`,
  `MenuAfterHalf`, `RecordsFollowNames`: by `PatientInv`: there is at most one
  request, its form's button is off, and whoever is signed in with a record is at
  home or on the way there.

Only model-checked: the liveness properties `DevicesSettle`, `ScreensConverge`,
`RosterFills` and `FormComesBack`.  They need fairness, and so `ENABLED`, which is
outside the prover's reach.  What is proved of them is that the states in which no
fair step is left are those they ask for: `RestIsSettled`, `QuietScreensAreRight`,
`RosterFullAtRest` and `FormsComeBack`.  That such a state is reached is shown by
TLC on the runs.  `ButtonTellsMembership` is only model-checked as well, on one
instance with one pressing device and a drained queue, where it shows what a refused
write does to it; with two devices it is false (`stale_button`).  Every other
property that a passing run checks is the statement of a theorem; so is, for one pressing user, `OnlyOwnDeviceRemoves`, which `lost_join`
refutes for two.

## 7. Not modelled

The program's own code is Swift, and the database client it depends on is
Objective-C; the project models both.  By far the most lines of the repository are
C and C++ of vendored Pods (BoringSSL, gRPC, Realm core, Firestore) in which the
app has no logic and of which it calls at most a narrow interface; they are not
modelled.

* Layout and drawing; the geocoder; earlier versions of screens nothing leads to;
  the delegates generated by Xcode; course exercises.
* Session creation: `save` checks its fields and writes nothing, `saveSession` is not
  wired.  `goBackward` of the wizard is called from nowhere.  The skill level is
  stored and read by nobody.
* `MySessionViewController`, a second list of sessions made like the first, but for
  its search button, and the sessions' own dates, which the list and its cells parse
  and unwrap (`FindSessionViewController.swift:54`, `170`): only the stored interval
  is modelled.
* Listens that the server's rules refuse, after which the client forgets the listener.
* Firebase Auth, Realm, UIKit and the database server beyond what the app's use of
  them shows.
* Transactions, queries, merges, child events, removal of listeners and persistence
  of the database client, which the app does not use.
* More than one home screen at a time: a second one is made only by signing in again
  after signing out; `AuthFlow` has the one in front.
