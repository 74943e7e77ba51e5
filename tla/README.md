# Verification of whatsmeow-cli

TLA+ models of `wa`, the WhatsApp command line client in this repository, the
TLC runs that check them on small instances, and TLAPS proofs of their main
properties for every instance. Line numbers refer to the sources at this commit.

## 1. The system

`wa` is one binary that plays two parts. `wa start` forks a daemon which owns the
WhatsApp connection (whatsmeow), a SQLite database and a Unix socket; every other
command is a short process that sends one request over the socket, prints the
answer and exits.

| Component | Source | State | Operations | Modelled in |
|---|---|---|---|---|
| Message store | `internal/store/store.go` | the `messages` table | Open, Upsert, List, MarkSeen, Chats, Clear | `MessageTable`, `MessageStore` |
| Inbox (storing, reading, purging) | `internal/daemon/daemon.go` 251-264, 281-326, 347-419; `server.go` | the table; requests in flight | storeMessage, messages, sendReadReceipts, logout | `Inbox`, abstractly `UnreadLog` |
| Group names | `internal/daemon/names.go` | `groupCache` (map and generation), a memo per request | get, generation, setFresh, rename, groupName | `GroupCache`, abstractly `SubjectReads` |
| Daemon lifecycle | `cmd/wa/lifecycle.go`, `server.go` | socket file, pid file, processes | runStart, runStop, runDaemon, Serve, Close | `Lifecycle` |
| Linking | `daemon.go` 115-264, `internal/wa/client.go` | `qrActive`, the client's connection and device, QR channels | login, login-qr, drainQR, logout | `LoginSession` |
| status | `daemon.go` 100-113 | none | reads the pairing, then the connection | `StatusReport`; as a probe `Lifecycle`, as a call `Rpc` |
| Request transport | `internal/client`, `internal/ipc`, `server.go` | none beyond a call | Call, PrintResponse, Serve, serveConn | `Rpc`, abstractly `CallContract` |
| send | `daemon.go` 266-279 | none | parse, SendText, answer | `Rpc` |
| Error and exit codes | `internal/api/api.go` | none | ExitCode | `Rpc` |
| Recipients | `internal/wa/helpers.go` 19-57 | none | NormalizeDigits, NormalizePhone, ParseRecipient | `Recipients` |
| Content, contact names | `internal/wa/helpers.go` 59-106 | none | ExtractContent, PickContactName | not modelled |
| Commands | `cmd/wa/main.go`, `cmds.go` | none | runRemote, emit, flags | `Rpc`, without the flags |
| Configuration, QR rendering | `internal/config`, `internal/wa/qr.go` | none | paths, layout | not modelled |

How they interact. Each connection is served by a goroutine of its own, which
calls one handler. whatsmeow calls `handleEvent` on its own goroutine. Handlers
and events share the store (one database connection, so each statement or
transaction excludes the others), the group cache (a mutex per method), the
client, and `qrActive` (a mutex). No lock is held from one of these calls to the
next: whatever a handler learnt in one call may be stale in the following one.
That, lost answers, the death of the process at any point, and invocations in
parallel on the same data directory, is where the hard behaviour is.

What makes the components correct:

* Store: a listing is the newest matching rows in chronological order, arrival
  deciding between rows of the same second; the overview agrees with it; a
  re-delivered message neither reopens nor moves.
* Inbox: a message is consumed only by a read that carries it, and once returned it
  is not unread again; a purge is complete even if unlinking fails; polling with any
  limit drains the inbox once no new messages arrive (while they do, the newest come
  first and an old one may wait for good).
* Group names: a rename wins over every fetch in flight; a response is consistent
  with itself and no older than its request.
* Lifecycle: a live daemon is reachable; files of dead daemons do no harm; a start
  fails only for a reason; whoever is asked to exit does.
* Linking: one QR session at a time, whose channel is always read and whose guard
  is released unless its Connect hangs; a status that says "connected" was true at
  some moment.
* Calls: the daemon's answer beats the CLI's deadline; an exit code tells the truth
  about what was done; neither a command nor a handler waits for ever.
* Recipients: every name of a chat selects the messages of that chat.

## 2. Modules

`MessageTable` defines the table as a function from the keys (chat, id) that have
a row to rows `[ts, seen, rowid]`, and each statement of `store.go` as an operator
on it. Sender and `from_me` are constants of a key; names, type and text are
payload no query depends on. Rowids are explicit because ties on the
second-granular timestamp are broken by them: SQLite assigns one more than the
largest, an upsert keeps it. `ORDER BY` is the number of rows ahead of a row in
that order (`Ahead`), `LIMIT n` those with fewer than n ahead: definitions that
TLC evaluates and proofs can count with. `MessageStore` applies the writes in any order and
keeps, as history, the order of arrival, so that the queries can be compared with
their meaning.

`Inbox` runs the handlers on that table. A `messages` request is four steps, as in
the code: List (`StartRead`, daemon.go:301), MarkSeen (`MarkPage`, `MarkingFails`,
`SkipMarking`, 307), receipts (`SendReceipts`, 312) and the answer (`Answer`,
`AnswerLost`, server.go:58). `logout` is unlink, clear, answer; unlink and clear
share the request's context, so an unlink that ends by its deadline takes the clear
with it (`ClearFails`, which `PurgeHonoured` excepts). `Crash` ends a
process between any two steps; the table survives. As daemons may overlap while one
takes over from another (`Lifecycle`), it may end the requests of one of them while
those of the other go on: across processes, too, a statement or transaction of
SQLite excludes the others, or fails. `UnreadLog` is what a user may
rely on: a message is unread, then in transit with a read, then handed over or
dropped, and never unread again; `Inbox` implements it under the mapping at its
end (`RefinesUnreadLog`).

`GroupCache` numbers the subjects a group has had, so "older" is a comparison. A
fetch is answered with the subject of one moment and inserted at a later one.
Each method of `groupCache` is one step; get, generation, the network call and
setFresh of one miss are four (`Miss`, `Snapshot`, `Fetch`, `Fetched`). Note that
the code allows, and the model has, a subject going back for a while: a fetch that
saw the second of two renames may be cached and then be overwritten by the event
of the first; the event of the second repairs it. `SubjectReads` has neither cache
nor memo: a row is answered with a subject that is no older than what the daemon knew
when its response was begun, or with none, and the rows of one group agree.
`GroupCache` implements it, with `applied` as what the daemon knows
(`RefinesSubjectReads`).

`Lifecycle` follows runStart, runStop and runDaemon line by line: build, check the
socket, remove it, listen, write the pid file, serve; on a stop or a signal unlink
the socket *by name*, then check and remove the pid file. If Accept fails the daemon
leaves in the same way but with its listener open (`deaf`): what connects to it
waits until the process has ended. `wa start` checks, spawns, and waits until
anybody answers, its child is gone or ten seconds pass. As in waitForSocketOrExit the
poll (`Poll`) and the look at the child (`FindsChildGone`) are two steps. A start that
gives up leaves its child behind, so daemons run in parallel even if invocations do
not. os.Remove, net.Listen, the pid file, Accept and buildDaemon can fail (`DaemonFault`).
Two histories tell what is nobody's fault: `overlapped`, that two daemons were between
check and listen at once, and per start `disturbed`, that a daemon failed, was killed,
closed its listener or entered such an overlap while the start ran.

`LoginSession` has the client calls of `login` and `loginQR` as steps. whatsmeow is
external and as nondeterministic as the source allows: see the module's header for
what the handlers and their comments assume of it. Its Logout is two steps, the
disconnection and the loss of the session. `StatusReport` puts a status
request beside it whose two reads are two steps.

`Rpc` follows a command from its command line to its exit code: a state for the
invocation (`pc`) and one for the goroutine serving it (`handler`), between them
the answer. A dial may fail at any time, of a live daemon too (its socket file is
gone, its backlog full, dialTimeout over). Once connected, the CLI
writes and reads under one deadline; the daemon accepts,
reads, answers at once or works under the request's context, or, in a login,
connects under none; a stop is answered before the listener is closed; a signal
closes it; the process may end under its handlers at any point, and a start follow.
Clocks count in ticks, as few as keep the order of the two timeouts. Where a handler's work
is another module's subject (`Inbox`, `LoginSession`) only its stages and answers
appear. `CallContract` is what the caller of a command with an effect may rely on:
success only after the effect, refusal only without it, nothing after the report;
`wa send` implements it (`RefinesCallContract`).

`Recipients` has a text as a sequence of digits, separators, "@" and servers, and
the helpers that make a JID of it, beside the store the JID selects from. The digits
of a text are indexed by how many stand before them, which needs no recursion.
`Spellings` have up to two zeros before a number in international form (`IsNumber`) and
one separator in it; a number that began with a zero could not be written so that the
helpers keep the zero. A text with "@" that is no JID is an error (`ParseJID`), which
`ParseRecipient` passes on.

`MC*` modules hold the instances, `*Proofs` modules the proofs. The operators
introduced by a comment "Mutant:" are wrong variants of the definition that follows
them; with one in its place, TLC finds the property it is listed with violated.

## 3. Runs

| Run | Instance | Shows |
|---|---|---|
| `message_store` | 2 chats (a person, a group) x 2 ids, own message among them, 2 timestamps, limits -1, 1, 2, defaults 3 and 1; numbers with up to 2 zeros before them and a separator at any place up to the last digit | `ListIsNewestSuffix`, `OverviewAgreesWithList`, `ChatsAnswerToTheirNames` on every reachable table; `RedeliveryKeepsPlace` |
| `inbox` | 2 messages, 2 readers, 3 kinds of calls, 1 fault, logout | `ConsumedIsAccounted`, `HandedStaysRead`, `PurgeHonoured`, `RefinesUnreadLog` |
| `inbox_polling` | 3 messages of a group (one own), limit 1, 1 fault, logout | `UnreadDrains` under fairness, `ReceiptsOnRequest` |
| `inbox_lost_answer` | 1 reader, 1 fault | refutes `SeenMeansHanded` |
| `group_cache` | 1 group renamed twice, 2 requests of 2 rows | `CacheNotOlderThanEvents`, `AnswersNotOlderThanRequest`, `OneNamePerResponse`, `RefinesSubjectReads`; `RequestsEnd`, `CacheConverges` under fairness |
| `lifecycle` | 3 daemons, 1 `wa start` at a time, stops, 1 kill, signal or failure | `ReachableUnlessOverlapped`, `ExitCleansUp`, `StartFailsOnlyIfDisturbed`; `AskedToExit` under fairness |
| `lifecycle_takeover` | 2 daemons, 2 `wa start` | refutes `ServerReachable` |
| `lifecycle_stop` | 1 `wa start` at a time, stops | refutes `StopIsFinal` |
| `login_session` | 3 requests, a status request | `GuardIsExact`, `ChannelIsRead`, `ConnectedStatusHeld`; `GuardIsReleased` under fairness |
| `login_abort` | 2 requests | refutes `AbortSparesOthers` |
| `rpc` | a call of any command and one of `wa stop`, again and again; timeouts of 1 and 3 ticks, 1 tick of delay | `DaemonAnswersFirst`, `DownMeansDown`, `RefinesCallContract`; `CallsEnd`, `HandlersEnd` under fairness |
| `rpc_retry` | 1 call | refutes `NotRunningMeansNotDone` |

Why the bounds are enough to be interesting. Two chats with two messages and two
timestamps give ties, late arrivals and re-deliveries at every limit below, at and
above the number of rows; the JIDs of the two chats differ in the server only, so a
name that loses it finds the wrong one. Two readers on two messages overlap on one row and
differ on the other; `MaxFaults` bounds failed database calls, lost answers and
crashes together, and one suffices to cut any step short (the proofs have no such
bound). Two requests and two renames put a rename between any two steps of a fetch,
and let a fetch be newer than one event and older than the next; two rows of one
group reach the memo. Groups meet only in the shared generation, and the theorems
hold for any number of them. Three daemons are a dying one, its successor and a
competitor; with one start at a time they overlap through starts that gave up, two
starts at once are the takeover run's, and the theorems hold for any number of
either. Three login requests are a running session, a competing one and a
phone login. Two calls are one to observe and one that may stop the daemon under it;
the timeouts are the least that satisfy `RequestTimeout + Lag < CallTimeout`, each
clock reaches its bound, and a finished call makes room for another. `MaxRenames`,
`MaxFaults`, the timeouts and the sizes of the sets are the only bounds on behaviour.
No symmetry is used in a run with liveness.

Fairness. Weak fairness of the handlers' steps stands for the Go scheduler and
for calls that end because the request context has a deadline. Polling is strongly
fair because a reader makes other calls between its default ones. In
`GroupCache`, whatsmeow reconnects (weak), and the events it queues are delivered
even if the connection keeps breaking (strong). In `Lifecycle` a running daemon
takes its steps, except that before a signal its first Connect (buildDaemon) need not
return; nobody has to start or stop anything. In `LoginSession` the handlers take their
local steps (the first-code timer is one) and the codes of a QR channel expire; a
Connect need not return, and neither the phone nor the network owes us anything.
In `Rpc` time passes (`Tick`), each end of a connection takes its local steps, a
daemon that has closed its listener exits, and an operation under a context ends
*once that context is over*. Nothing makes it end earlier, nothing makes a Connect
end at all, and nobody has to call, stop or start anything. That a call's local
delays stay within `Lag` is an assumption about the machine; the code's is that 20
seconds are enough.

## 4. Findings

* **A lost answer consumes messages** (`inbox_lost_answer`). `messages` marks rows
  seen before the answer is written (daemon.go:307, server.go:58). The design
  document (line 208) has rows become seen "after a successful read". If the caller
  is gone or the daemon ends in between, unread messages silently become read.
  `UnreadLog` therefore has `Drop`.
* **Parallel starts can orphan a daemon** (`lifecycle_takeover`). The check for a
  live daemon and the takeover of its socket are not atomic (lifecycle.go:186-193),
  against the comment above them. It does work as long as the windows of two daemons
  do not overlap (`ReachableUnlessOverlapped`), which nothing in the code ensures.
* **Stop answers too early** (`lifecycle_stop`). The answer precedes the closing of
  the listener (server.go:46-50), so `wa status` after `wa stop` may report running,
  against e2e_test.go:123, and `wa start` may report already_running and leave
  nothing running.
* **An aborted QR login drops the connection of a phone login** (`login_abort`).
  daemon.go:148-150 wants an abort not to affect the connection, while abort (181)
  disconnects the shared client even when its own Connect has failed, be it because
  `login` had connected first or, as in the trace TLC shows, for a reason of its own,
  with `login` connecting before the abort. The pairing code `login` hands out is then
  useless.
* **The remedy for exit code 3 can send a message twice** (`rpc_retry`). runRemote
  reports every transport error as daemon_not_running (cmds.go:42), also when the
  daemon ended after the message had left. The design document (line 484) gives that
  code to a daemon "found down", and SKILL.md:92 answers it with "`wa start`, retry
  once". `DownMeansDown` is what does hold: a daemon that the call was connected to did
  stop listening afterwards. (A login whose Connect hangs is the exception: it is told
  so after 120 s by a daemon that is well. A dial that fails shows nothing, although
  client.go:28 takes it to.)

## 5. Proofs

| Module | Theorems | Argument |
|---|---|---|
| `MessageTableProofs` | lemmas on the writes (`UpsertLemma`, `MarkSeenLemma`) and on the order of the queries (`AheadIsRank`, `NewestFirstLemma`, `NewestOfLemma`, `PreviewLemma`, `OverviewLemma`) | an upsert keeps the rowids the ranks 1..n: a new row gets n+1. Rowids differ, so "ahead" is a strict total order and the number of rows ahead a bijection onto 0..n-1: sorting is inverting it, limiting is cutting it off |
| `MessageStoreProofs` | `StoreInvariant`, `StoreTypeOK`, `StoreRedeliveryKeepsPlace`, `StoreListIsNewestSuffix`, `StoreOverviewAgreesWithList` | every write keeps the rowid and never clears the flag of a row it does not purge. `RowidsAreArrivals`: the row with rowid i arrived as the i-th, so the order of the queries is that of time and arrival. The last of a chat's listing is its row with nothing ahead, which is its preview |
| `RecipientsProofs` | `SpellingsParse`, `RecipientsChatsAnswerToTheirNames` | the digits of a spelling are its zeros and the number, whose first digit is the first that is not zero; "@" is neither digit nor separator, so a JID splits where it was joined. Both names select what `StoreOverviewAgreesWithList` is about |
| `InboxProofs` | `InboxInvariant`, `InboxTypeOK`, `InboxConsumedIsAccounted`, `InboxHandedStaysRead`, `InboxPurgeHonoured`, `InboxRefinesUnreadLog`, `InboxReceiptsOnRequest` | `IInv`: the seen rows are exactly those carried, handed or dropped. The properties are inclusions of that equality; it is also what makes each step map to one of `UnreadLog` or a stutter: an answer hands over what its read marked, a lost answer and the end of a process drop it (`LossImplements`). `ReceiptInv`: receipts go out last, and a group has one sender |
| `GroupCacheProofs` | `GroupCacheInvariant`, `GroupCacheTypeOK`, `GroupCacheNotOlderThanEvents`, `GroupCacheAnswersNotOlder`, `GroupCacheOneNamePerResponse`, `GroupCacheRefinesSubjectReads` | `FetchInv`: a fetch whose generation is still current is at least as recent as the last event handled; `MemoInv`: names come from the memo, and what is in the memo was put there for a row. Each row is one step of `SubjectReads`; by the two, its name is recent, and that of an earlier row of the group if there is one |
| `LifecycleProofs` | `LifecycleInvariant`, `LifecycleTypeOK`, `LifecycleReachableUnlessOverlapped`, `LifecycleExitCleansUp`, `LifecycleStartFailsOnlyIfDisturbed` | `WindowInv`: without an overlap a daemon in its window is alone and nobody listens. `StartInv`, `ChildInv`: since an undisturbed start began there was one window at a time and none beside a live daemon, so its child finds the path free, or a daemon that is still there |
| `LoginSessionProofs` | `LoginSessionInvariant`, `LoginSessionGuardIsExact`, `LoginSessionChannelIsRead`; `StatusImplementsLogin`, `StatusReportTypeOK`, `StatusReportConnectedHeld` | the properties of linking are inductive together. `StatusInv`: until the client is connected, what status has read of the pairing stays true, as a device is linked and unlinked over a connection only; the gap is the moment between a logout's two steps (`torn`) |
| `RpcProofs` | `RpcInvariant`, `RpcTypeOK`, `RpcDaemonAnswersFirst`, `RpcDownMeansDown`, `RpcRefinesCallContract` | `TimeInv`: the time a call (but a login) has waited is at most what its handler has spent and the local delays, hence below the CLI's deadline; `DownInv`: a connection is closed without an answer only if the listener was; `SendInv`: the message has left before an "ok", not before a refusal, and no handler outlives the report of a send |

The theorems hold for all values of the constants that satisfy the named
assumptions of the modules (a default limit is positive, `None` is no process,
requests are well-typed, digits, separators and "@" are different characters,
`RequestTimeout + Lag < CallTimeout`). The invariants were checked by TLC first.

Every safety property of every passing run is thereby proved. Model-checked only are
the liveness properties (`UnreadDrains`, `RequestsEnd`, `CacheConverges`,
`AskedToExit`, `GuardIsReleased`, `CallsEnd`, `HandlersEnd`): TLAPS does not prove
liveness under fairness, or ENABLED, here.

## 6. Not modelled, and why

Wording, JSON, logging, contact names and message content (each the first of
several fields that is set, without shared state), QR layout, flag parsing and paths
have no behaviour a model would add to. Read
errors inside SQLite and a full disk appear as failed calls. whatsmeow is external:
its reconnection, event queue and QR emitter are assumed to work as its callers
expect, and a rename event that never arrives is outside the model: nothing would
then repair a cached subject. A PairError that leaves the client connected would
make every later login-qr fail with "client is already connected"; whether it does
is whatsmeow's affair, so no property depends on it. The pid file is written in
one step. The race between a leaving daemon's check of the pid file and a
successor writing it is in the model (`CheckPid`, `RemovePid`), and the reason why
no property says that the pid file names the serving daemon.

## 7. Plan

Done, in this order: store, inbox with its abstract specification, group cache,
lifecycle, linking; calls with their contract, status, recipients; the proofs of
their safety; the abstract specification of the group cache; the inbox with
overlapping daemons.

1. The contract of calls for the other commands with an effect (logout, messages).
2. An abstract specification of linking: a QR session as the owner of the guard.
