# Sweetlink: verification of the add-on's core

TLA+ modules that model the parts of the Sweetlink add-on where order, failure
and concurrency matter, the TLC configurations that check them on small
instances, and theorems checked by TLAPS. `PROJECT.json` lists the runs, the
source lines of every definition, the findings, the hazards and the theorems.

## The system

The add-on runs beside Home Assistant on a hub (a Raspberry Pi). It is a fork of
a remote-access relay; the relay's own stack (`addon/sweetlink`: `sweetlinkcore`,
`servercon`, `session`, `WebStream/`, `pingpong`) is still in the tree but the
fork no longer starts it (`linuxhost.py:850-864`). What runs is
`addon/sweetlink_linuxhost`, and there are no tests.

| Component | State it keeps | Operations | Modules |
|---|---|---|---|
| `LinuxHost` + `Secrets` + `ImagePrep` (identity) | the secrets file and its cache, `WipedForCloning`, the local variables of the registration thread | boot, hardware bond, first setup, registration, regeneration on 409, factory wipe | `HubIdentity` |
| `ha/connection.py` | `MsgId`, `PendingContexts`, `IsConnected`, the socket | connect, authenticate, request and answer with a timeout, restart requests | `HaConnection` |
| `websocketimpl.Client` | the send queue and its size, flags of error and close | send with back pressure, drain, error, close | `WsClient`, implementing `WsService` |
| `cloud_worker.py` + `haadmin.py` (users) | the register of users the portal created | create, delete, rename, new password, list | `Accounts` |
| `cloud_worker.py` + `webserver.py` (owner) | the claim, the owner worked out and kept, the pending correction | report, event, request of the panel, correction | `OwnerPanel` |
| `ha/configmanager.py`, `ha/assistentivocali.py`, the bans of `cloud_worker.py` | `configuration.yaml`, `RestartRequired`, the assistants' files, `ip_bans.yaml` | update at boot, deferred restart, curated exposure, release of an address | `ConfigFile`, `HaFiles` |
| `ha/homecontext.py`, `ha/eventhandler.py`, `util/threadedqueue.py` | the tree of the home, caches, the queue of events | refresh, filter, batch | `HomeTree`, `Home` |
| `servercon.py`, `session.py`, `WebStream/`, `pingpong.py` | the connection, its streams, the proxied requests and websockets, latencies | connect, rest, open, feed, close, proxy, ping | `ServerCon`, `WebStreams`, `HttpProxy`, `WsProxy`, `Latency`, composed in `Relay` |
| `cloudflaremanager.py` | thread, subprocess, status | start, stop, token provisioning, supervision of `cloudflared` | (`StartTunnel` of `HubIdentity` only) |

Interactions: components call each other directly and share objects between
threads; there is no message bus. The hard behaviours are threads that share the
secrets file (panel, registration, main), processes restarted by themselves,
cards cloned while half written, requests matched to answers over a connection
that may drop, files read, changed and written back by handlers that run at once,
callbacks that come late, and streams closed from several threads.

What makes each part correct: an identity never lives on two hubs and a wiped
card stays clean; a request gets its own answer or an error, never another's;
a blocked sender is let go; the portal's register is never torn; only the owner
is let in as the owner; a change of `configuration.yaml` is loaded; the tree of the home takes up what the hub was told of; a
stream is closed once and whole.

## Plan

Done: the modules of the table, the composition of the relay's parts in `Relay`,
theorems about each component that has a state machine, and the refinement of
`WsService` by `WsClient`, checked and proved. Next, in this order:

1. safety kernels of the liveness that has none yet, as `DueHasThread` is of
   `ChangeLoaded` and `NeverForgotten` of `ChangesTakenUp`: who wakes a sender that is
   held back (`SendReturns`), who ends the drain (`CloseEndsDrain`), who takes up a
   deferred restart (`DeferredRestartTaken`); that the edit of `configuration.yaml`
   settles, for the files whose `http` section is indented as the code expects;
2. an abstract service of `HaConnection` (a call gets its answer, an error or none) and
   the proof that the connection implements it on one connection;
3. the threads of `CloudflareManager` (`Start`, `Stop` and the loop that restarts
   the subprocess);
4. `config.py`, `sondavocale.py` and the pages of `webserver.py` that change state.

## HubIdentity

One module for `linuxhost.py`, `secrets.py` and `imageprep.py`, with several hubs
because cloning is about several. Per hub: `disk` (the secrets file) and `mem`
(`Secrets.Config`); `main`, the program counter of `RunBlocking`; `rep`, the one
of `_ReportToSweetplaceDB`; `wipe`, the one of `ImagePrep.Wipe` on the thread of
the panel; the local variables each keeps (`seen`, `op`, `tunnelKey`, `current`,
`prev`, `regens`) and the flags they share (`wiped`, `blocked`, `timer`).

A step is one call of `Secrets` (each takes the lock on its own and replaces the
file atomically), one request, or one test of `WipedForCloning`; everything
between two of them is private to a thread. The main thread's boot
(`Bond*`, `Foreign*`, `Setup*`, `LoadIdentity`), the registration thread
(`CheckWiped` to `RegenRestart`) and the wipe interleave as the threads do.
`CloneCard`, `PowerOff`, `SupervisorRestart` and the replies of the backend are
external. A random identifier is a pair of the hub that made it and a serial
number; the code never reads the first half, which is there for the properties.
A serial number is taken again only when nothing remembers it, which keeps the
values fresh with two or three of them: in every run a generation always finds a
free one.

`Env` names what the environment does in an instance: `crash`, `hidden`
(addresses that cannot be read for a while), `fail` (a write or a deletion
fails), `wipe`, `conflict` (409) and
`denied` (the Supervisor refuses). The actions test it, so that one module serves
runs that need different adversities.

### Runs

- `clone`: two hubs (one with two addresses, one with one), `MaxRegen` 1, three
  serial numbers. Two hubs are enough for a pair that shares an identity, and a
  card goes back and forth between them any number of times.
- `one_hub` (`HubOne.cfg`): one hub with two addresses, two serial numbers, `MaxRegen`
  1, `FairSpec`, no symmetry, and every adversity there is: failing writes, hidden
  addresses, power failures, a refused restart, and a wipe while the backend reports
  collisions. What was wiped does not come back, the registration thread of a wiped hub
  ends, and the bond is neither narrowed nor lost. One hub is enough: the four are about a card and
  the threads of the process that writes it.

Fairness: every thread that can take a step takes one in the end (requests have
a timeout of ten seconds, sleeps end, locks are held for one call) and the
Supervisor carries out the restart it accepted. Nothing is assumed of the
backend, of the power or of the operator.

### What the code does not keep

The module states four promises of the comments that TLC refutes; they are in no
run. A configuration with the values of `HubClone.cfg` (the last) or `HubOne.cfg` (the
others) and the adversity named finds each counterexample in seconds.

- `CleanStaysClean` (`wipe` and `conflict` together): the comment on `WipedForCloning` promises that no part of the
  program writes an identity after it is raised. The registration thread looks at
  it three times; past the last look it writes the new pair and the bond on the
  card the wipe has just found clean, before the timer stops the add-on. Without a
  collision the promise is not in danger, since nothing else writes by then, so it is
  not checked in that form; what does hold with both is `WipedIdentityGone`: the
  identity that was wiped is not the one that comes back.
- `RegenerationStops` (`conflict` alone, a deadlock allowed, with the cap of 3 too): `MAX_RIGENERAZIONI` is meant to stop the generation of new
  identities. It counts in a local variable, and each regeneration restarts the
  process.
- `ReportsWithProof` (`conflict` alone, a deadlock allowed): the previous pair is kept in memory as the proof the backend asks
  for, and the restart that follows drops it before a report carries it.
- `RegeneratedWhole` (two hubs, `fail`): when the first write of the bond check fails the exception is
  swallowed, and the next write of the boot saves a new plugin id beside the
  private key of the original hub.

Two more disagreements are in the model: after a
regeneration the bond is replaced by whatever is readable, and an empty list
deletes it (`RegenBind`; the prudence rule at `linuxhost.py:904` is applied only
at boot, which is why `BondOnlyWidens` and `BondNeverErased` speak of a process that
has regenerated nothing); and
`CloudflareManager.Start` reads the key again while the registration thread may
be replacing it (`StartTunnel`), so that with a refused restart the manager keeps
a key that is not the one of its plugin id, or none.

### What is proved (`HubIdentity_proof`)

For every number of hubs, addresses, identifiers and for every `MaxRegen`:

- `TypeCorrect`, for any environment.
- `NoSharedIdentityHolds`, `IdentityBoundToMakerHolds` and
  `ForeignIdentityReplacedHolds`, under `Reliable`: writes succeed, addresses are
  readable, and a wipe and a collision are not both in play (their combination is
  the first of the disagreements above). Power failures and clonings stay unrestricted. The
  inductive invariant `IInv` adds what the properties leave out: every card has an
  *owner*, to whom its bond is and who made whatever half of an identity is on it
  (`CardsOwned`); the cache of a hub that is not being wiped is its card
  (`ProcessInv`); and each point of the boot has established a fact about the card
  (`CardInv`: from `setupPid` on the bond shares an address with this hub, so by
  `HardwareAssumption` its owner is this hub). `NoSharedIdentity` alone is not
  inductive: it says nothing of a hub that is still booting.
- `OperatesAsStoredHolds` and `PostsStoredIdentityHolds`, under `Reliable`. Everybody
  who operates keeps a copy (`op`, the key of the tunnel manager, what the registration
  thread has in hand) and only the count of regenerations tells whether the copies are
  still the card: `SInv` adds to `IInv`, per hub, that with no regeneration they are,
  and half way through one which half of the card is the new one (`StoredInv`).
- `WipedIdentityGoneHolds`, for any environment: writes fail, the backend reports
  collisions and the other threads write while the card is wiped. `GoneInv` says what
  the invariant cannot read off the card alone: when the wipe verifies, a half in the
  cache that is the one in use is also on the card, so that what is found clean on the
  card is not waiting in the cache for the next write.
- `BondOnlyWidensHolds` and `BondNeverErasedHolds`, for any environment, of a process
  that has regenerated nothing (`RegenBind` replaces the bond, which is the disagreement
  told above): writes fail, addresses hide, cards are wiped and cloned. `WipeInv` tells the
  steps that may write apart: nobody regenerates who has counted no collision, and the
  registration thread and a wipe only run when the panel is open. A boot takes what it
  has read into the cache before a write that may fail, so the next write of anybody may
  bring it to the card. `BondInv` says what the cache then holds: while the boot may still
  write, no less of the bond than the card, as long as there is an identity; and where an
  identity is given up, that it is gone from card and cache and that some address was seen.

The assumptions are `HardwareAssumption` (every hub has an address and no two
hubs share one), `NoneAssumption` and `ParameterAssumption`, which TLC evaluates
in every run. Liveness is model-checked only.

### Left out

What a confirmed registration hands to the panel (claim code, owner) and to the
cloud worker (its start signal): it changes no state of this module. The NetBird
part and the account report of `ImagePrep.Wipe`, which only add findings; a
finding that blocks is covered by the failing deletion. Identities created before
the bond existed: the model starts from empty cards. The panel's two reads of the
pair in `ChiediLinkPannello`.

## HaConnection

`Connection` is shared by the threads that ask Home Assistant something, by
`ConnectionThread`, on which every callback of the socket runs, and by Home
Assistant. `pc[p]` and `call[p]` are the program counter and the local variables of
`SendMsg`, `RestartHa` or `_OnConnected` on the thread `p`; `Socket` is
`ConnectionThread`, whose own loop is `con`. The shared state has the names of the
code: `connected` (`IsConnected`), `ws` (a connection is known by its `ConId`),
`msgId`, `idLock`, `pending` (`PendingContexts`, by the caller whose context it is),
`deferred` (`IssueRestartOnConnect`). `link`, `out` and `answers` are the socket, what
is queued or travelling to Home Assistant and what it has yet to answer; all three
are lost when the socket closes.

A step is one access to shared state. `self.MsgId += 1` is two: `TakeId` holds the
lock across it, the reset in `ConnectionThread` takes no lock and may fall in
between, so `BumpId` chooses between the two results the statement can have. The
backoff and the logging are left out; a sleep is a step that may last. Of
`websocketimpl.Client` the module keeps what the connection sees: a queue that holds
senders back above a limit, and that is dropped without a word with the socket.
Home Assistant is external: it wants the token first, answers in any order or never,
and ignores a message without an id.

### Runs

- `ha_calls`: two threads, ids up to 2 at the start of a call (with the subscription
  up to 3 on one connection), room for one message beyond the limit of the queue, one
  connection that may fail and the one that follows. Two threads and two connections
  are what a confusion of ids takes; threads call any number of times while ids last.
- `ha_liveness`: one thread, two connections that may fail, `FairSpec`.
- Deadlock is not checked: threads stop calling when the ids of the bound run out.

Fairness: each thread takes the steps it can take (a wait ends with its timeout at
the latest, the lock is held for two statements) and Home Assistant reads what it is
sent. That it answers is not assumed. `MayFail` bounds the failures, because a
connection that fails for ever is never established.

### What the code does not keep

Both promises are stated in the module and refuted by TLC with the values of
`HaConn.cfg`; no run is spent on them.

- `ReturnsOrNone`: ids start again with each connection and contexts outlive theirs. A
  call that waits since before a reconnection removes, when it gives up, the context
  of a new call with the same id, which then loses its answer and leaves `SendMsg`
  with a `KeyError`. For the same reason a caller may be handed an answer of the next
  connection; `AnswersMatch` says when that can not happen.
- `NoRestartForgotten`: `RestartHa` tests the connection and defers the restart in two steps;
  a login between them leaves the restart waiting although the connection is up.
  `DeferredRestartTaken` only says that the login after that one takes it up; the same two
  steps are in `HaFiles`, where `ChangeLoaded` makes an exception of this state.

### What is proved (`HaConnection_proof`)

For any number of threads and connections and for every bound, from
`SenderAssumption` alone: `TypeCorrect`, `IdsUniqueHolds`, `AnswersMatchHolds`,
`NoLeakedContextHolds`. The inductive invariant `IInv` adds to the properties:

- `ThreadInv`: which socket exists at which point of `ConnectionThread`, and that
  nothing of an earlier connection is queued on the current one;
- `CallInv`: who holds the lock, and that a call has no id before it takes one;
- `FreshInv`: `MsgId` is above every id of the current connection. A thread that took
  its id before the reset and has not stored yet breaks the obvious form of this (it
  may set `MsgId` to anything), and the invariant says why it does not matter: it
  holds the lock, so no message of the connection has an id yet;
- `UniqueInv`: ids of calls and messages differ, and the only message with the id of a
  waiting call is its own. `AnswersMatch` follows from it when an answer arrives, since
  the context under an id belongs to a call with that id (`NoLeakedContext`).

The liveness properties are model-checked only.

## WsService and WsClient

`WsService` says what a user of `websocketimpl.Client` may count on: accepted
messages go out once each and in order until the client is dead, the error
callback and the close callback come at most once, and a close that falls due
after an error was noticed waits until the error has been told. `WsClient` has the
threads of the code: each sender, `run` (`RunUntilClosed`), `drain`
(`_SendQueueThread`), `err` (`fireWsErrorCallbackThread`) and whoever closes. A step
is one access to what they share; the flags have the code's names. The library and
the network are external.

Run `ws_client`: `KeepsPromise` is the refinement (`Promise == INSTANCE WsService
WITH ...`: the backlog is what is in hand and in the queue, the callbacks are those
made); `SizeCounts` and `LeakBounded` relate the size that holds senders back to
what is queued across two locks; `SendReturns`, `CloseEndsDrain` and `CloseTold` say
that nobody waits for ever. One sender, three messages and a limit of nothing
queued, so that the limit is met from the second message on; senders meet each
other only through the size, which one sender, the drain and the closer already
move. Fairness: each thread takes the steps it can take; the socket may stay up for
ever. Left out: callbacks whose owner has been collected, `__del__`, throttled logs. A
`run_forever` that starts after the close may still connect: the test of `isClosed`
and the start of the library's loop are two steps (`websocketimpl.py:208`).

### What is proved (`WsClient_proof`)

For any finite set of senders and any `MaxQueue` and `MaxMsg`, from `BoundAssumption` and
`SenderAssumption` (the senders are finitely many and are none of the client's own
threads): `TypeCorrect`, `SizeCorrect`, `LeakCorrect`, and `PromiseKept`, that the client
implements `WsService`. The inductive invariant `IInv` is made of

- `InPlace`: where each thread may stand, and whether it has a message in hand;
- `FreshInHand`: a message that is not queued yet is nowhere else, and nobody has taken
  the next number;
- `Callbacks`: how far the flags say the error callback has come, and that the close
  callback is in one place at a time;
- `Counted`: `SizeCounts` and `LeakBounded`, and that the queue is closed before the
  drain goes. `SizeCounts` relates the size to the messages queued, the one being sent and
  one of each sender that was let in and has not queued yet; a step of one sender changes
  the number of those senders by one (`Cardinality`).

For the refinement the backlog is `InHand \o Messages(queue)`: what the drain holds and
what is queued, without the poison that wakes it. Each action maps to an action of
`WsService` or to a stutter, one lemma per thread. That `Messages` gives what a list and
one more element give is an induction over its length, by way of the least length at
which it would fail: the library's induction theorems take an operator and are not to be
had, but a set of natural numbers without a least element is empty. `SendReturns`,
`CloseEndsDrain` and `CloseTold` are liveness and model-checked only.

## Accounts

The commands of the portal about people (`cloud_worker.py:518-1001`), each a handler
on a thread of its own. `cmd`, `pc` and `mine` are a handler's request, place and
local variables; Home Assistant is the sets and maps of its users, credentials
(`login`) and persons (`attr`); `register` is the file of the users the portal made
and `temp` the one it is written through. `Ask` is one request: carried out or
refused, with its answer or without it. Power fails at any step (`Crash`), the link to
the portal goes up and down.

The three fields of a command (person, `auth_id`, username) come from the portal and are
independent of one another (`Portal`, the bound on what it may send): the handlers do not
compare them, and neither does the model.

Run `accounts`: any two of the commands at once, the installer (an administrator),
one person of the house and one new user, three usernames, a register in the old or
the new form that may be unreadable for a moment. `AdminUntouched` needs the two
commands, because the list that a password command checks is old when it deletes;
`RewriteLosesOnlyUnseen` states exactly what a rewrite without a lock may lose, and
excludes a torn file; `ListedUsersExist` is about the answer of the list. All three are
safety, so no fairness is stated. Deadlock is not checked: a run ends when the two
commands have.

Run `admin_credentials` is the one case that `AdminUntouched` leaves out (`OfAnother`), and
a finding: `_on_generate_password` checks the user of the command's `auth_id`
(`cloud_worker.py:969`) and deletes the credentials of the command's *username*
(`cloud_worker.py:980-985`). With the identifier of a person of the house and the username
of the installer the check passes and the installer's credentials go, against the comment
at 954 that draws the line at administrators.

Seen while modelling, and allowed by the code: two creations at once lose one entry;
a creation that fails half way leaves the user it made in Home Assistant; an answer of
success may be told as a failure when the link drops; the delete that falls back on a
display name does not look whether it is an administrator's (`cloud_worker.py:852`).

### What is proved (`Accounts_proof`)

`TypeCorrect`, `AdminUntouchedHolds`, `ListedUsersExistHolds` and
`RewriteLosesOnlyUnseenHolds`, for any number of commands, users, persons and usernames,
whatever a command says and whatever the register and the persons of Home Assistant say at
the start. `TypeCorrect` includes that the register is never torn, which is why no run
checks it. `Inv` says of each handler in which command it can be at its place (`Course`),
what it may hold (`Hands`) and what it has made so far (`Work`). The core of
`AdminUntouchedHolds` is in `Hands`: at the deletion, either the user was found by the
command's own identifier, or the command's username was not an administrator's when it was
looked up (`NotHeld`). That this is still so when the deletion comes, after any steps of
the others, is `Shrinks`: no step makes a username an administrator's. So each step
disturbs one handler only, and the others keep the invariant (`OthersKept`). Assumed:
`SetsApart`, `PortalAssumption` (the type of the fields) and `InitialAssumption` (Home
Assistant's own tables have their types and know the administrators); TLC evaluates them.

## OwnerPanel

Who the owner is: the backend's `row`, the reports of the registration thread
(`reporter`), the `owner_changed` event and the requests on the panel's thread, all
of which may resolve the owner's username with Home Assistant (`ProprietarioAuthId`)
and hand a correction to the worker's `loop` (`box` is
`_proprietario_da_correggere`). The panel's fields have the code's names.

Run `owner`: two users, one of them an administrator, a house claimed once.
`StrangerRefused` is about every page the panel shows; `OwnerAdmitted` and
`RowCorrected` hold when the link and Home Assistant stay up from some time on
(`Settles`): the fairness is that the threads run, the report is repeated and the
event is delivered. Nobody has to claim the house or to open the panel. The
correction takes effect on the backend when it is sent; a message lost after the send
is not modelled, nor is the wait for the first confirmed registration.

### What is proved (`OwnerPanel_proof`)

`StrangerRefusedHolds`: while the house has had one owner at most (`MaxOwners <= 1`, the
value of the run), for any set of users and administrators. The panel compares the user
who asks with identifiers it read at different times; the invariant says of each of them,
wherever it waits (the row, a report under way, the announced events, the cached owner,
the correction to be sent, the locals of each thread), that it is nobody, an identifier
no user has, or the owner's (`Owned`), and of the usernames alike (`Named`). With a second
owner the former one's identifier may be waiting anywhere, and the claim is not made.
Liveness (`OwnerAdmitted`, `RowCorrected`) is model-checked only.

With `MaxOwners = 2` TLC refutes `OnlyWrongCorrected`: the hub works out the
identifier from a username that only reports bring (`owner_changed` has none,
`cloud_worker.py:512`), prefers the result to a newer identifier
(`webserver.py:194-200`) and replaces the backend's right one by the previous
owner's.

## ConfigFile and HaFiles

`ConfigFile` is the algorithm that edits `configuration.yaml` line by line
(`configmanager.py`): a line is its indentation, its key word and whether it is
commented out, which is all the code looks at. `HaFiles` puts it among its actors: the
add-on's start (up to three times, killed at any step), the restart threads, the
connection with the deferred restart, the files of the voice assistants
(`assistentivocali.py`), the release of a banned address, and the other hands:
an editor, Home Assistant adding a ban, the curated lists. `world` picks which hands
act in a behaviour (files, lists or bans).

`RestartHa` is in two steps, as in `HaConnection`: it tests the connection, and defers the
restart; a login, or the end of the link, may come between them.

Run `ha_files`: `ChangeLoaded` (a change is in force in the end, with two restart threads
and a connection that comes and goes), `RestartHandedOn` (a restart passes from the flag to
the thread, from the thread to the connection's flag or to Home Assistant, and is dropped
by none of them on the way), `OnlyNamedExposed` and `OnlyOwnBanLifted`. `ChangeLoaded`
leaves out what the code does not keep: the add-on stops, the connection broke, or a login
came between the two steps of `RestartHa` (`LeftDeferred`). In the last case the restart is
left to the connection after this one, with `RestartRequired` already cleared: the
forgotten restart of `HaConnection`. The files are those with and without each section and setting that
the code distinguishes; more lines of the same kinds add no case. Fairness: the threads
run, the connection is tried for ever, Home Assistant restarts when told to. Deadlock is
not checked: the starts run out.

Run `trusted_proxy` finds the defect of `configmanager.py:411`: the network of Docker is
inserted at a line number from before the insertion of the other settings, and lands
above the list it belongs to, against the comment at line 406.

Seen while modelling: a blank line after `http:` makes the indentation a newline, and the
file grows at every start, so that no property says of all files that the edit settles; a
key that is commented out counts as found; an edit between
the read and the write is lost; a file that is emptied before it is written stays empty
after a kill; a change that was written before a restart of the add-on is not loaded by
the next start; releasing an address answers that Home Assistant restarts also when it is
offline (against `cloud_worker.py:341-343`).

### What is proved (`HaFiles_proof`)

For any worlds that `WorldsAssumption` admits (files are sequences of lines, starts are
counted), any restart threads, lists and addresses:

- `OnlyNamedCorrect`. The invariant `MadeFromLists` says that every file of an assistant,
  and the one about to be written, was made from one of the lists; that a file made from
  a list, or from none, exposes only what the list names is a lemma about `Genera`.
- `OnlyOwnBanCorrect`, an action property. `CopyWhole` says that what the command is
  about to write has every ban it has read but its own; that `Kept` leaves out the one
  address and nothing else is an induction over the lines of the file.
- `RestartHandedOnHolds`, an action property, for any number of restart threads: whoever
  clears a flag has the restart in hand, and lets go of it only into another flag, into Home
  Assistant, or when the add-on stops or the connection is not up.
- `DueHasThread`, the safety that `ChangeLoaded` rests on: while the add-on runs, a restart
  that is due has a thread that will see to it. Nothing of the kind can be said of a restart
  that was put off, which may wait beside a connection that is up. The fairness, and
  `ChangeLoaded` itself, stay with TLC.
- `TypeCorrect`, of everything but the lines of `configuration.yaml`.

`IInv` is `TypeOK`, `MadeFromLists`, `CopyWhole` and `RestartKept`, and TLC agrees
with it on the values of `HaFiles.cfg`.

## HomeTree and Home

`HomeTree` is the construction of the tree from the registries
(`homecontext.py:514-756`): what of floors, areas, devices and entities is kept and which
entities the assistant is told of. `Home` is the traffic around it: the thread of the
socket (`socket`), which filters events and may wait five seconds for a refresh whose
answers only it can read; the worker that asks for the registries and swaps the tree;
the delayed thread; the queue with its thread (`batch`).

Run `home`: a small house to which a lock is added, events about the lock, one event on
its way at a time; at most one of the answers is missing or from another moment than the
others (`Answers`). `TreeWhole` compares the tree of one registry with that registry;
`ChangesTakenUp` says that what the hub was told of is in the tree in the end, or an
answer failed, or the link is down, and that the queue is emptied again and again.
Fairness: the threads run; the answers come in the order of the socket, so a storm of
events only puts them off (strong fairness of `Handle`). Left out: labels, the contexts
for the assistants and the live context, the watcher of the filter's file. Before the
first tree there is no filter, and every event passes it.

Seen while modelling: when one query fails, what hangs below it vanishes from the tree,
and the failure counts as a success; `WorkerGoEvent.set` at `homecontext.py:392` is
unconditional, so the delayed thread batches nothing; `device_id` is given the entity's id
(`homecontext.py:999`); a second event of one entity in a batch is not found, since the
first trimmed its id.

### What is proved (`Home_proof`)

From `RegistryAssumption`: any list of registries, each `Consistent`, that is, with ids
that are unique and with areas, devices and floors that exist where they are referred to.
Home Assistant sees to that when one answers for all its registries; an answer from
another moment than the others is not assumed consistent, and `Home` mixes them.

- `TreeCorrect`: the tree of one registry is whole, for any registry.
- `ForgottenNever`, the safety that `ChangesTakenUp` rests on (`NeverForgotten`): what Home
  Assistant told the add-on is shown, or an answer failed, or the worker is asking or will
  ask since; and the thread of the queue never sleeps on a queue that is not empty, unless
  it is about to be woken. It is not inductive alone: what is told while the worker asks
  comes too late for that query, and must have set the event again (`AskedAgain`).
- `TypeCorrect`.

`ChangesTakenUp` is liveness and model-checked only.

## The relay: ServerCon, WebStreams, HttpProxy, WsProxy, Latency, Relay

The stack of the original relay, which this fork keeps in the tree and does not start.
Each module extends the one before it by one part:

- `ServerCon`: the loop of `RunBlocking`, `Disconnect` by any thread, the guard of
  `ActiveSessionId`, the back off, the error callback in a thread of its own, the
  secondary connections. `job[t]` is what thread `t` does on the connection's behalf.
- `WebStreams`: the streams of a session. The loop hands messages over (`Receive` under
  the lock of the map, `Give` outside it), each stream has a thread (`at`), and `Close`
  may come from the server, the session, the stream's own thread or a websocket
  (`closing`, `closer`): first under the lock, then step by step.
- `HttpProxy`: a request put together from messages, tried at several addresses, its body
  read and sent piece by piece; a body without a length is read by a second thread into a
  bounded list (`reader`). A body is the sequence 1, 2, ..., so that a loss, a double and a
  wrong order show.
- `WsProxy`: a websocket tried at one address after another by the error callbacks of its
  attempts.
- `Latency`: the rounds of `pingpong.py` and the override of the server; its statistics
  feed `NewClient`. No property is about the averages themselves.

`Relay` composes them. `world` picks the part that is busy, which is the bound that makes
the composition small: "alone", "line" (two streams, connections that follow one
another), "upload", "page", "socket", "ping"; `Calm` and `Small` say what each world
leaves out.

Run `relay`: `StreamSettled` (the server is told of a close exactly once, and a helper made
while the stream was being closed is closed too), `BodiesExact` (between the local server
and the relay no unit is lost, doubled or out of order while the stream is open, and when a body
of unknown length has been read to its end nothing of it is left with the reader, but for
the two cases below),
`NoSocketLeft`, `RetryKeepsStream` and `SessionsSeparate`. Two connections, two streams,
two addresses, bodies of three units with messages of two and two pending: a list that is
split, a reader that is held back and an end of body in each of its places occur. The
properties are safety, so no fairness is stated; deadlock is not checked because the
connections run out.

What the code does not keep of a body; each has a mark of its own in the model, so that
`BodiesExact` makes room for these two and no other:

- `late`: `Read` may end a body and leave the last chunk in the list, when the reader
  appends it and completes between the look under the lock and the test of `ReadComplete`
  (`httpstreamaccumulationreader.py:226-263`), although the comment at 246 wants the
  accumulated data read first "to ensure that any last buffers are read". Whatever came
  before the last look is sent;
- `torn`: the head of a part that was read when the rest of it throws is dropped with the
  exception (`webstreamhttphelper.py:1033-1035`), and the body ends as if it were complete.
  These units are not counted
  among those that were made (`h.made`), of which `BodiesExact` speaks.

Seen while modelling, and allowed by the code:

- a last message may go out after an earlier piece was refused because the stream had been
  closed: the body then has a hole and is marked done (`dropped` in `BodiesExact`);
- with three addresses the deferred close callback of the first attempt may arrive while
  the error callback of the second has set `Ws` to None; callbacks are heeded while there is
  no websocket, so it ends the stream under the third (`webstreamwshelper.py:431`).
  `RetryKeepsStream` is therefore about the attempt made in its stead;
- the late error callback of an old connection forbids the nearest server to the new one;
  a `Disconnect` between the reset of the flags and the new client closes the old websocket
  and is lost; `OnSessionError` compares and disconnects in two steps, and may end the next
  connection;
- a straggling `Close` sends its message on the connection that has followed;
- `pingpong.py` keeps an override whose server is no longer listed when the default server
  has no average; a file of statistics that cannot be written makes the next round a first
  one;
- a body that breaks off is sent as complete (the code says so, `webstreamhttphelper.py:1146`).

Left out: compression, headers, the priority counters, mDNS, the second try without a
port, what each command does, the recreation of a primary connection that returned, and the
`except` of `SendToStream` (`webstreamimpl.py:286-297`), since `Client.Send` catches its own
exceptions and nothing else in the block throws.

### What is proved (`Relay_proof`)

All five properties of the run and `TypeCorrect`, for any number of connections, streams
and addresses, for bodies, messages, lists and limits of any size, for all worlds at
once, from `ConAssumption`, `ProxyAssumption`, `SocketAssumption`, `LatencyAssumption` and
`GivenAssumption` (the constants have
their types; tries, sessions and the limits of the reader are not 0). The
inductive invariant `IInv`, which TLC checked on the values of `Relay.cfg` before, is

- `Local`, of each stream: `Life` (how far a close has come, by whom, and what its thread
  has made by then), `Tell` (who has told the server, or still will), `Load` (what an
  upload has of its length) and `Flow`: unless a piece was refused, what was made of a
  body is what was sent, the piece in hand, what is being read and the reader's list, in
  this order; at the end of a body of unknown length the list is empty, or a chunk came
  after the last look (`Ending`). A read ends the body only when it took nothing, and it
  takes something of every list that is not empty: that is where the size of a chunk
  meets the limit of a read (`NothingKeeps`, `TakenFits`). `StreamSettled` and
  `BodiesExact` follow;
- `Apart`: the streams of the connections before are closed while a session is served,
  and all of them once the loop goes on, with the place of the loop in between (who is on
  the list to close). `SessionsSeparate` follows when a session begins;
- `Tried`: of the attempts of a websocket only the last is alive, those before it are
  over and those after it have not begun, and whose thread may still close the stream.
  `RetryKeepsStream` follows from it;
- `Ended`: the thread that shuts the websocket of a closed helper found the last attempt,
  which gives `NoSocketLeft`.

A step disturbs the records of one stream. What a step makes of them is proved to keep
`Local` on the three records alone, one lemma per kind of change, and lifted to the map of
streams once; the other conjuncts only need to know that the step is `Steady`: it undoes
nothing of a stream, gives no stream to another session and lets nobody begin to close.
The lemmas on concatenated
lists (`FlattenSeq` of the pieces in the reader) are inductions over their length.

## Bounds, fairness and proofs at a glance

Every bound is a constant, or named in the MC module or in a guard with the word "bound".
Liveness is checked for `HubIdentity`, `HaConnection`, `WsClient`, `OwnerPanel`, `HaFiles` and `Home`, with the fairness told in each section: a thread that
can step does, waits have timeouts, and nothing is assumed of the backend, of the power or
of the people, except where a property names it.

| Component | Proved for every value of the constants | Model-checked only |
|---|---|---|
| `HubIdentity` | types, every safety and action property, each under the environment it is claimed for | `WipedReporterEnds` |
| `HaConnection` | types, `IdsUnique`, `AnswersMatch`, `NoLeakedContext` | liveness |
| `WsClient` | types, `SizeCounts`, `LeakBounded`, the refinement of `WsService` | `SendReturns`, `CloseEndsDrain`, `CloseTold` |
| `Accounts` | types, `AdminUntouched`, `ListedUsersExist`, `RewriteLosesOnlyUnseen` | (nothing) |
| `OwnerPanel` | `StrangerRefused` while there is one owner | `OwnerAdmitted`, `RowCorrected` |
| `HaFiles` | types but for the lines, `OnlyNamedExposed`, `OnlyOwnBanLifted`, `RestartHandedOn`, the kernel of `ChangeLoaded` (`DueHasThread`) | `ChangeLoaded` |
| `Home` | types, `TreeWhole`, the kernel of `ChangesTakenUp` | `ChangesTakenUp` |
| `Relay` | types and all its properties | (nothing) |

Type correctness is proved and therefore in no run, but for `OwnerPanel`. Liveness under
fairness is out of the prover's reach; where its safety kernel is stated (who will do
what is due), the kernel is proved. `DockerTrusted` and `AdminNeverTouched` are refuted, each
in a run of its own. The other promises that TLC refutes are stated in their modules and
told under "What the code does not keep"; the properties that are checked say exactly
where they make room for them.

## Not modelled

- `cloudflaremanager.py`: one subprocess and its threads; only its key is in
  `HubIdentity`.
- `webserver.py` apart from the owner and the claim: it renders pages, and calls what the
  other modules model.
- `config.py`: the same discipline as the secrets, without an identity at stake.
- `sondavocale.py`, `ha/serverdiscovery.py`, `ha/serverinfo.py`, `supervisorapi.py`,
  `netbird.py`: probing of the network, HTTP calls and files of another add-on; what
  others need of them is an external action.
- `ha/trackerinterceptor.py`, `ha/webrtcmanager.py`: a small proxy, and a manager that
  nothing starts in this fork.
- `Proto/`: generated code.
