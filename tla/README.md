# Courrielleur: a verification project for the mail back end

Courrielleur is a mail client of the Thunderbird family. The repository holds an
old Mozilla platform tree (`netwerk`, `xpcom`, `layout`, `js`, `dom`, `db`, ...)
and, under `comm/`, the mail application. This project models the part that is
the program's own core logic and hard to test: the engines of the mail back end
(`comm/mailnews`) that queue work and drive it to an end through callbacks.

## 1. Inventory

Paths are relative to `src/comm/`. "Hard" names what makes a component hard to
test; "correct" names the properties that make it correct.

| Component | State | Operations | Interacts with | Hard | Correct |
|---|---|---|---|---|---|
| Message copy service (`mailnews/base/src/nsMsgCopyService.cpp`) | the queue `m_copyRequests`, per request its sources and `m_processed` flags | `CopyMessages`, `CopyFolders`, `CopyFileMessage`, `NotifyCompletion` | asks destination folders to copy, is told by them of the end, calls listeners | calls in both directions re-enter the service; completions are matched by name, not by request | one copy per destination at a time, oldest first; every request reported once, and truthfully |
| Destination folders (`local/src/nsLocalMailFolder.cpp`, `imap/src/nsImapMailFolder.cpp`) | the copy state of the folder | `CopyMessages`, `CopyFolder`, `CopyFileMessage`, `OnCopyCompleted`, `nsImapFolderCopyState` | copy service, streams, IMAP URLs | synchronous and asynchronous ends, busy folders, failure half way | the service always hears of the end, under the right name |
| Auto-sync manager (`imap/src/nsAutoSyncManager.cpp`) | discovery, update and priority queues, idle state, download model | idle observer, timer, URL and download callbacks | auto-sync states of the folders, IMAP service | user returns while URLs run; callbacks arrive in any order | one download per server at a time (chained mode), nothing starved, queues without duplicates |
| Auto-sync state (`imap/src/nsAutoSyncState.cpp`) | per folder: download queue, offsets, sync state, retry counter | group selection, `OnStopRunningUrl`, `Rollback`, `TryCurrentGroupAgain` | manager, folder semaphore | header updates while a group is downloading | every queued message is downloaded or given up after three tries |
| Send later (`mailnews/compose/src/nsMsgSendLater.cpp`) | list of messages to send, sending flag, current message | `SendUnsentMessages`, stream and copy callbacks, idle timer | SMTP, copy service, outbox | re-entrance, failure of one message among many | no message sent twice, flag reset at the end |
| Folder compactor (`mailnews/base/src/nsMsgFolderCompactor.cpp`) | folder array, temporary file, offsets, keys | `CompactFolders`, stream callbacks, `FinishCompact` | folder database, file system | crash between renames, folder locked by another operation | mailbox and summary agree after a crash at any point |
| Biff manager (`mailnews/base/src/nsMsgBiffManager.cpp`) | ordered array of servers with next due times | `PerformBiff`, `AddServerBiff`, timer | servers | time going backwards, servers removed in a callback | the array is ordered by due time; every server gets its turn |
| Purge service (`mailnews/base/src/nsMsgPurgeService.cpp`) | timer, purge list | `PerformPurge`, search callbacks | search session | overlap of timer and running search | at most one purge search at a time |
| Prompt queue (`mailnews/base/src/msgAsyncPrompter.js`) | prompts per key, consumers | `queueAsyncAuthPrompt`, runnable | servers, dialogs | several consumers waiting on one dialog | every consumer answered once |
| IMAP connection cache and URL queue (`mailnews/imap/src/nsImapIncomingServer.cpp`, `nsImapProtocol.cpp`) | connections, queued URLs | `GetImapConnectionAndLoadUrl`, `LoadNextQueuedUrl`, `RemoveConnection` | protocol threads | threads, busy connections, time-outs | a queued URL runs when a connection is free; selected folder never shared |
| Offline manager (`mailnews/base/src/nsMsgOfflineManager.cpp`) | state of the online/offline transition | `GoOnline`, `SynchronizeForOffline`, `AdvanceToNextState` | send later, IMAP/news sync | callbacks that never come | every transition ends |
| IMAP offline playback (`mailnews/imap/src/nsImapOfflineSync.cpp`, `nsImapUndoTxn.cpp`, `mailnews/base/util/nsImapMoveCoalescer.cpp`) | offline operations per message, current folder | `ProcessNextOperation`, `OnStopRunningUrl`, `OnStopCopy` | IMAP service, copy service | crash and replay, partial failure | an operation is played back once and in order |
| POP3 (`mailnews/local/src/nsPop3Protocol.cpp`, `nsPop3Sink.cpp`) | protocol state machine, UIDL table | states, `IncorporateComplete` | local folders, filters | lost connection between download and delete | no message lost or fetched twice |
| SMTP and compose (`mailnews/compose/src/nsSmtpProtocol.cpp`, `nsMsgSend.cpp`) | protocol state machine | states, FCC | copy service | abort while filing | a sent message is filed once |
| Message database (`mailnews/db/msgdb`, `db/mork`) | headers, threads, offline operations | header and thread operations, commit | all folders | threading, stale summary | threads consistent with references |
| Gloda (`mailnews/db/gloda`) | index queue, job stack | indexer jobs, event-driven and sweeping | folders, SQLite | messages moved while indexed | every message indexed once |
| LDAP (`ldap/xpcom/src`) | pending operations by message id | `AddPendingOperation`, `RemovePendingOperation`, poll loop | directory servers, threads | thread races, abandon racing a result | a result reaches the operation that asked |
| Filters, search, views, address book, import, MAPI, news (`mailnews/{base/search,base/src/*View*,addrbook,import,mapi,news,extensions}`) | | | | | |
| Front end (`mail`, `suite`, `calendar`, `chat`, `editor`) | | | | mostly user interface; the cached calendar and the undo manager are the exception | |
| Platform (everything outside `comm/`) | | | | vendored Gecko | |

Almost all of this runs on the main thread. Concurrency there is re-entrance (a
call into a folder or a listener may come back before it returns) and the order
in which callbacks arrive. Only the IMAP connections and LDAP have threads of
their own, which call the main thread through proxies.

Copy service, auto-sync, send later, offline manager, the compactor with the local
folders it works on, and the IMAP connection cache are modelled; section 6 says
what is not.

## 2. Plan

Done, in this order:

1. `CopyService`: the copy service with its folders. Abstract specification
   `CopyLedger`; proofs in `CopyServiceProofs` (any surroundings) and
   `CopyServicePlainProofs` (plain surroundings).
2. `AutoSync`: the manager composed with the auto-sync states of the folders of
   several servers; proofs in `AutoSyncProofs` (download queues) and
   `AutoSyncFetchProofs` (fetches, updates, groups and the manager's queues).
3. `SendLater`: the sending service composed with the offline manager. Abstract
   specification `Outbox`; proofs in `SendLaterProofs`.
4. `Compaction`: the compactors with the folders whose files they replace, and
   crashes between any two file operations. Abstract specification `MailStore`;
   proofs in `CompactionProofs`.
5. `ImapConnections`: the connection cache, the queue of URLs and the threads of
   the connections. Abstract specification `UrlLedger`; proofs in
   `ImapConnectionsProofs`, which rest on `SequenceFilterProofs`.

Left:

6. `OfflinePlayback` (offline operations that are played back through
   `CopyService` and `ImapConnections`) and `LdapOperations`, the other component
   with real threads.
7. `BiffManager`, `AsyncPrompter`, `PurgeService`: small engines, each with a
   proof of its ordering or once-only property.
8. An abstract specification of downloads per server, which `AutoSync` implements
   in surroundings without `overlap` and `moves`.

Proofs follow the models: type invariant, then the safety invariant, then the
refinement of the abstract specification. Liveness stays with TLC.

## 3. What is modelled

### `CopyService` (with `MCCopyService`, `MCCopyPlain`, `CopyLedger`, `CopyServiceProofs`, `CopyServicePlainProofs`)

State. `queue` is `m_copyRequests`. A request keeps its type, the `src` the
caller named (`m_srcSupport`), `dst`, the source folders of its messages
(`m_copySourceArray`) and the positions of those whose `m_processed` is set
(`marked`). `copyState` is the `mCopyState`/`m_copyState` of each folder,
`transfers` the copies folders really carry out, `copiers` the
`nsImapFolderCopyState` objects between creating a folder and copying into it.
`stack` is the C++ call stack as far as it matters: `DoNextCopy` about to scan,
a folder asked to copy, the loop of `NotifyCompletion` with its
`numOrigRequests`, a listener in `OnStopCopy`, a folder that clears its copy
state after the call. `begun`, `reports` and `ended` are history used by the
properties (`begun`, `reports`) and by them alone.

Actions. The entry points `CopyMessages`, `CopyFolders`, `CopyFileMessage` (with
`QueueRequest` and `DoCopy`); `DoNextCopy` as `NothingToCopy`, `StartNothing`,
`StartSource`, `StartFile`; `NotifyCompletion` and `NotifyDone` for one turn of
the loop and its end (`FindRequest`, `ClearRequest` included); the folders as
`AcceptAsync`, `AcceptSync`, `AcceptBusy`, `TransferEnds` for messages and files
and `MoveFolderLocal`, `CopyFolderAcrossServer`, `CopyEmptyFolder`,
`RefuseFolder`, `IgnoreFolder`, `MoveFolderImap`, `MoveEnds`,
`ReleaseCopyState`, `StartCopier`, `FolderCreated`, `EmptyFolderCreated`,
`FolderCreationFails`, `CopierStops` for folders; `AbortFileCopy` for the user
giving up while a sent message waits to be filed or is being filed. `GiveUpCopy`
is an early error of `nsMsgLocalMailFolder::CopyMessages`, which nobody looks at,
`CopyFolderSync` a folder copy whose messages are done, or refused, at once.

What a folder says of a copy that failed is not a behaviour that can be switched
off. `Told` gives both answers: a local folder calls every failed copy that is no
move a success (`nsLocalMailFolder.cpp:2252-2259`) and an IMAP folder passes
`false`, which is `NS_OK`, where an `nsresult` is expected
(`nsImapMailFolder.cpp:7640`); other paths of both pass the result they had.

What else the code around the service may do is a constant, `Behaviours`, so that
each run says under which of them a property holds. With none of them, listeners
do not start copies, folders notify the service of every end, and folder copies
are local moves or copies of folders that have messages.

Left out: message bodies and keys, undo batches, `nsIMsgFolderListener`
notifications, listeners that start a copy from `OnStartCopy`, subfolders of a
copied folder (they are copied without requests of their own), an error of a
local folder move after the service was notified of it (the request is gone by
then), the destruction of the service at shutdown.

Simplifications that matter: callers do not hand the same `nsIFile` object to two
requests that are queued together (they create one for each); a message copy's
`src` is one of the folders its messages come from.

### `CopyLedger`

The promise to callers: requests for a destination are served one at a time and
oldest first; a request is settled once; success is only announced for a request
that was served or had nothing to copy.

### `AutoSync` (with `MCAutoSync`, `AutoSyncProofs`, `AutoSyncFetchProofs`)

State. `mDiscoveryQ`, `mUpdateQ`, `mPriorityQ`, `mUpdateState`, `mIdleState`,
`mPaused`, `mStartupDone` are the manager's members, `mTimer` says whether its
timer runs. `sync[f]` is the `nsAutoSyncState` of folder `f`: `state` is
`mSyncState`, `retries` `mRetryCounter`, `changed` `mIsDownloadQChanged`, `left`
the part of `mExistingHeadersQ` from `mProcessPointer` on. `mDownloadQ` with
its offsets is three sets: `done` (before `mLastOffset`), `current` (up to
`mOffset`) and `pending`; the array is sorted by the message strategy whenever
keys were added, so that sets and `MsgBefore` say the same. `locked` is the
semaphore of the folder, `fetches` the download URLs it has queued or runs.
`status`, `select` and `listening` are STATUS requests, the update URL
(`m_urlRunning`) and the folders whose `m_urlListener` is the manager. `where`
follows each message from the server to the offline store. `windows` is what
`IsFolderOpenInWindow` looks at: the user opens and closes folders at any time, and
only the folder that is put into the priority queue is compared. `tried` is
history, used by `NothingSkippedUntried` only.

Actions. `AppIdle`, `SystemIdle`, `Back`, `StartupDone`, `GoOffline`, `GoOnline`
are the branches of `Observe`, with all of `StartIdleProcessing` and
`AutoUpdateFolders` in the idle ones; `TimerCallback` is one timer notice
(discovery and update queue, `InitiateAutoSync` included); `HeaderParsed`,
`HeaderFetchCompleted`, `SelectStops` are the callbacks of the update URL,
`StatusStops` and `DownloadStops` those that reach
`nsAutoSyncState::OnStopRunningUrl` and, through it, `OnDownloadCompleted`;
`OnFolderHasPendingMsgs`, `UserOpens`, `UserCloses`, `MessageArrives`,
`MessageDeleted`, `FolderDeleted` are the surroundings. Each callback is one step because all of
them run on the main thread and none calls back into another in progress.

As in `CopyService`, what the surroundings may do is the constant `Behaviours`.
The most telling one is `overlap`: without it no headers of a folder are looked
at while a fetch or a STATUS request of that folder runs. The code does not
exclude the overlap, and most of what auto-sync promises depends on it. Three
others are paths of the folder's own update: `refused` is an update that fails
before it runs a URL (`UpdateFolderWithListener` and `InitiateAutoSync` have several
such returns: no database, filters that do not load, a folder that cannot be
opened), `playback` an update that plays back offline operations first
(`nsImapMailFolder.cpp:825-835`): the listener is kept in `m_urlListener`, in the place
of any other, and the update that `nsImapOfflineSync` runs afterwards tells it; when an
operation fails, no update follows (`nsImapOfflineSync.cpp:131-147`). The playback itself
is left out, and so is that a listener kept from a failed one is told twice by the next
update, or before the end of an update that ran already. `direct` bodies that the update URL fetches by itself
(`NotifyBodysToDownload`, `:5824-5829`). `noNews` is a change of the counts of the
server without a new message: `nsAutoSyncState.cpp:479-480` compares counts, not
messages, so that a message read elsewhere is enough for an update.

No property says that the priority queue is ordered, although
`nsAutoSyncManager.h:62-65` describes it as a queue by priority: a folder is compared
when it is inserted (`nsAutoSyncManager.cpp:186-192`), the windows change afterwards,
and the queue is never sorted again.

Left out: the listeners of the manager, folder and message exclusion, changes of
the group size, the strategies or the download model at run time, purging of
expired bodies, `noselect` folders, the server's individual counts. The times
of the last update and the last discovery are a choice at each idle notice
(`DueSets`).

### `SendLater` (with `MCSendLater`, `Outbox`, `SendLaterProofs`)

State. `outbox` is the folder of unsent messages and `parsing` what is known of
its summary (`nsMsgSendLater` waits for a parser when it is stale). `timer` is
`mTimerSet` with whether the timer will really fire, `userInitiated` is
`mUserInitiated`, `waiting` `mShutdownListener`. `run` is `mSendingMessages`, what
is left of `mEnumerator`, and `mMessage`; `jobs` what is under way for a message:
the stream that reads it (`stream`), `nsMsgSend` delivering it (`deliver`), the
same after the server has the message but before its answer arrived (`answer`),
the copy to the sent folder (`copy`). `call`, `state`, `tasks` are
`m_curOperation` with its flags, `m_curState` and the IMAP and news tasks that
report to `nsMsgOfflineManager`; `listeners` counts how often the manager is in
`mListenerArray`, since it is added at each send and never removed, `advances`
the calls of `AdvanceToNextState` that one callback has caused. The rest is
history for the properties.

Actions. `SendUnsentMessages`, `TimerFires`, `FolderParsed`, `ParseFails`,
`HasUnsentMessages`, `DoShutdownTask` are the service's entry points;
`MessageStep` is one callback of a message (`OnStopRequest`, the end of delivery,
`OnStopCopy`, with `StartNextMailFileSend` and `EndSendMessages` inside). `Command`
is a call of the offline manager, `AdvanceToNextState` one turn of its automaton,
`TaskDone` its `OnStopRunningUrl`. `SaveMessage`, `DiscardMessage`, `NetworkGoes`,
`NetworkComes`, `SummaryGetsStale` and `Restart` (a crash or an orderly end) are the
surroundings.

Left out: headers, bodies, progress and the disposition of the message that is
answered; the tasks themselves; the copy to the sent folder is one step with its
result (`CopyService` says what goes on inside).

`Outbox` is the promise to users: a message leaves the folder only when the
server has it or the user deletes it.

### `Compaction` (with `MCCompaction`, `MailStore`, `CompactionProofs`)

State. `mbox` and `summary` are the files on disk, per name; a mailbox is its
messages in file order with those flagged `Expunged`; a summary has the offset
of each header (`at`), the size of the mailbox it was written for, and the rows
that belong to no message of this mailbox (`stray`). `holder` is
`mSemaphoreHolder`, `reparse` `mReparseListener`. `comp` is the
`nsFolderCompactState` of each compactor: its phase (waiting for the parser,
copying, or before one of the file operations of `FinishCompact`), the folder,
those that remain, the temporary name, the keys that are still to be copied with
their offsets, the new headers, and what was appended. `deleted`, `heir` and `lost` are
history: what the user deleted, which temporary files are about to replace a
mailbox that was removed just now, and what a crash at this point has left in such
a file.

Actions. `CompactFolders` is the request; `ParseFirst`, `SkipFolder`, `DeniedLock`,
`CompactFails`, `StartCompacting`, `StartFails` are the branches of `Compact`,
`Init` and `StartCompacting`; a database that does not open for another reason than
being missing or out of date, and files that cannot be made, end the compaction of
all folders (`CompactFails`); `EndCopy`, `NextIsGone`, `StreamFails` the callbacks of the
stream that reads the messages; `FinishCompact`, `RemoveSummary`, `RemoveMailbox`,
`MoveMailbox`, `MoveSummary`, `Reopen` the file operations of the end, one step
each because the program may die between them; `OpenFolder`, `Parsed`,
`ParseFails`, `BeginMailDelivery`, `IncorporateMessage`, `EndMailDelivery`,
`DeleteMessage` what else happens to a local folder; `Crash` the end of the
program and its restart, which recreates mailboxes that are missing.

Left out: `nsOfflineStoreCompactState`, moves and copies between folders, filters,
the bytes of messages (`Size` says when two files differ in size: when they hold
different messages), the time stamps of summaries.

`InitDB` opens the summary beside the temporary file without a folder:
`OpenMailDBFromFile` sets `m_folder` only after `Open` (`nsMsgDatabase.cpp:361-370`),
`nsMailDatabase::GetSummaryValid` returns an error without writing its result
(`nsMailDatabase.cpp:139-141`), and `CheckForErrors` (`nsMsgDatabase.cpp:1194-1197`)
then tests a variable nobody has set. No size is compared. If a crash has left a
summary under that name, the model allows both outcomes of the uninitialised flag:
the database is made anew, or taken over with its rows, which become `stray` (a row
is replaced when a header is copied to its offset). What the program makes later of a
folder whose summary is mixed in this way is not modelled beyond its valid messages:
it is read, gets mail, is parsed, but is not compacted again.

`MailStore` is the promise to users: a folder's mail is what was delivered and not
deleted. The refinement maps a folder to the live messages of its mailbox, and,
between the removal of the mailbox and the end of `MoveMailbox`, to those of the
temporary file that takes its place. A crash there leaves this file under its
temporary name, where nobody looks for it, and the user finds an empty folder. The
abstract specification has an action of its own for that (`Strand`): it empties one
folder, once per crash, and what it takes never shows up again. So the refinement
says that this is the only way in which mail is lost.

### `ImapConnections` (with `MCImapConnections`, `UrlLedger`, `SequenceFilter`, `SequenceFilterProofs`, `ImapConnectionsProofs`)

State. `queue` is `m_urlQueue`, `cache` `m_connectionCache`. `conn` is, per
connection, the point its thread has reached (`phase`), `m_runningUrl`,
`m_urlInProgress`, `m_nextUrlReadyToRun`, `m_threadShouldDie`, the transport, the
selected folder, the URL's `m_moreHeadersToDownload` (`more`), and how the last URL
went. `told` is what the listener of each URL has heard, `cancelled` the URLs whose
channel has an error, `rerunning` those run for the second time, `suspended` those
that were put back into the queue, `loop` whether `LoadNextQueuedUrl` is in its loop.
Identities of dead connections are used again; a URL is only given to the cache
while one is left (`Unused`, a bound that no run reaches).

Actions. `GetImapConnectionAndLoadUrl` with all of `GetImapConnection`,
`CanHandleUrl` and `LoadImapUrl`; `LoadNextQueuedUrl`, one turn of its loop;
`Cancel`, `CloseConnectionForFolder`, `GoOffline`, `GoOnline`. The thread of a
connection goes through `ProcessCurrentURL`, `SelectMailbox`, `UrlStops`,
`ReleaseUrlState`, `ServeQueue`, `NextTurn`. Whether a folder has more headers than
are fetched in one go is known, and the URL marked as run again, before the headers
are fetched (`nsImapProtocol.cpp:4140-4156`); `UrlStops` asks for nothing else
(`Suspends`, `:1760-1794`), so that `SuspendUrl` puts the URL back into the queue
also when its connection has failed since. `ReturnsEarly` stands for the returns of
`ProcessCurrentURL` that leave the URL on a connection which stays busy (`:1571-1583`,
`:1598-1599`, `:1648-1649`) until it gets too old; `ConnectionLost`, `BadEnd`, `ReleaseForRetry`,
`RemoveConnection`, `RetryUrl` are the error paths, `FoundDead` and `ThreadDies`
what follows `TellThreadToDie`. The steps of a thread are divided where the main
thread may come between; what is proxied to the main thread is one step.

Left out: what a URL says to the server, IDLE, `ResetConnection`, password
prompts, the discovery of folders, and the pseudo-interrupt.

`UrlLedger` is the promise to listeners: told once that a URL starts and once
that it ends, in this order; only a cancelled URL may end unstarted.

## 4. Runs

### Copy service

All runs use the folders of `MCCopyService`: two sources, two destinations, and
two folders that can be copied under one destination. `MaxRequests` bounds the
requests callers make; the behaviours of interest need two or three: one being
copied, one waiting behind it, one started from a listener or for another
destination. `MCCopyPlain` is the same instance with the assumption that its
constants meet `PlainCase`, the premise of the theorems about plain surroundings.
`CHECK_DEADLOCK FALSE` is set everywhere: when the bound is reached and all is
reported the system rests.

| Run | Bound | Result | Shows |
|---|---|---|---|
| `CopyPlain` | 3 requests | holds | Without the behaviours: a folder is never asked to copy while it is busy (`NoCopyIntoBusyFolder`), no destination is forgotten while requests wait for it (`NoDestinationWaits`), success is told only after every transfer of the request ended (`OkOnlyAfterEnd`), a request is started once (`StartsOnce`); under fairness every request is reported (`EveryRequestReported`) |
| `CopyTold` | 3 requests | violation | In the same surroundings a request is reported as a success although its copy failed (`OkMeansCopied`): see the finding below |
| `CopyHostile` | 3 requests | holds | All behaviours and requests with several, no, or only pointless sources: `TypeOK`, `BegunIsOldest`, refinement of `CopyLedger` |

Fairness (`FairSpec`): calls on the stack return (`Service`, `Destination`), and
copies that were begun come to an end (`Completion`), since the network layer
closes every stream and URL, with an error if need be. Callers and the user's
abort have no fairness.

**Finding (`CopyTold`).** `nsIMsgCopyServiceListener.idl:83` says of the argument of
`OnStopCopy`: "aStatus - indicate whether the operation was succeeded". The service
passes on what the folder told it, and that is success for a failed copy (see
`Told` above; the comment at `nsLocalMailFolder.cpp:2252` shows that the local
folder means to). So a listener cannot tell that messages are missing, and
`OkOnlyAfterEnd` is all that success stands for: the copy is over.

The properties of `CopyPlain` are promises the documentation makes without the
restriction to plain requests and surroundings. Outside of them they fail, for
reasons that are in the code. Changing `CopyPlain.cfg` as the table says, with
`MCCopyService` as the module (two or three requests are enough), shows each case.

| Change | Property that fails | What happens |
|---|---|---|
| `Behaviours = {"reenter"}` | `OkOnlyAfterEnd` | a listener asks for the same copy again from `OnStopCopy`; `NotifyCompletion` goes on with its loop and takes the new request for the one that ended (`nsMsgCopyService.cpp:715`; the comment at 697–701 expects it to be skipped) |
| `Submissions <- SearchViewSubmissions` | `StartsOnce` | `OnStartCopy` is called for every source of a request (`nsMsgCopyService.cpp:351`); `nsIMsgCopyServiceListener.idl:45` says once |
| the same | `NoCopyIntoBusyFolder` | only fully processed requests enter `activeTargets` (`:338`), so a half-done one is continued by any other completion while its destination is busy; `nsLocalMailFolder.cpp:1341` asserts that this never happens |
| the same | `EveryRequestReported` | `FindRequest` (`:454`) compares the copied source with the folder the caller named; other sources never match |
| `Behaviours = {"silent"}` | `EveryRequestReported` | an early error of `nsMsgLocalMailFolder::CopyMessages` (`nsLocalMailFolder.cpp:1541`, `:1545`, `:1588`) is seen by nobody, and the request stays at the head of its destination |
| `FolderSubmissions`, `{"refuse"}` | `NoDestinationWaits` | a failed `CopyFolder` is cleared without looking for the next request (`:367`) |
| `FolderSubmissions`, `{"move"}` | `EveryRequestReported` | the service is told of the end of an IMAP folder move before `m_copyState` is cleared (`nsImapMailFolder.cpp:5447`); the next move, started in that call, fails and is reported under another name |
| `FolderSubmissions`, `{"empty"}` | `EveryRequestReported` | an empty folder copied across servers completes under the name of the new folder (`nsLocalMailFolder.cpp:1716`) |
| `Submissions <- SubfolderSubmissions` | `NoCopyIntoBusyFolder`, `OkOnlyAfterEnd` | while a folder is copied across servers its new subfolder is a destination of its own: `QueueRequest` compares only the parent the folder was copied to (`:275`), so messages for the subfolder are started at once although it is busy; and since `OnCopyCompleted` drops the copy state of the first copy, the end of one copy is then taken for that of another |
| `Submissions <- OntoItselfSubmissions` | `NoDestinationWaits` | the only source of a folder copied onto itself is born processed (`AddNewCopySource`), so `DoNextCopy` never starts the request and nothing reports it |
| `Submissions <- EmptySubmissions` | `EveryRequestReported` | a request without messages is taken for a file copy (`:332`) and blocks the queue |

### Auto-sync

`MCAutoSync` has an inbox and a plain folder on one server. Group size, first
group limit and message sizes are scaled down: messages 1 and 9 of the inbox make
two groups, 2 is an ordinary message of the other folder, 8 one that is over the
limit while the user is there. `HeaderBatch` is one, so that discovery takes
several timer notices; all folders are due at each idle notice; `GroupRetryCount`
is one (none in `SyncProgress`), so that both the retry and giving up occur.
`MaxEvents` bounds what goes wrong, not what goes on: idle notices, timers, URLs and
`overlap` are unbounded. `CHECK_DEADLOCK FALSE` is set as in the copy runs, although
these runs never rest: the user comes and goes.

| Run | Bound | Result | Shows |
|---|---|---|---|
| `SyncPlain` | 2 folders, 3 messages, 2 events | holds | Chained model without `overlap`, with failures of every URL, refused updates, updates without news, and deletions: one group per server (`OneGroupPerServer`), one update at a time (`OneUpdateAtATime`), nothing but the message over the limit is passed untried (`NothingSkippedUntried`), waiting folders are scheduled (`ReadyIsScheduled`), the semaphore goes with a fetch (`LockedOnlyWhileFetching`), failed groups are tried again (`SameGroupAgain`); `stDownloadInProgress` says exactly whether a fetch runs (`BusyIsFetching`) |
| `SyncProgress` | 2 folders, 2 messages, 1 event | holds | Under fairness, with failures of every URL and updates without news: update queue and discovery queue move on (`UpdateEnds`, `DiscoveryGoesOn`); discovery makes up for folders the update queue has lost (`EveryHeaderGetsBody`); every message that arrives gets its body unless its folder is lost for updates (`EveryBodyStored`) |
| `SyncHostile` | 2 folders, 2 messages, 1 event of any kind but `refused`, `overlap` | holds | Parallel model: `TypeOK` (with bounded retries), `DownloadQWellFormed`; a folder that needs an update keeps its place in the update queue (`PendingFolderQueued`) |

`FairSpec` assumes that the timer fires while it runs, that every URL ends (the
protocol object closes it, with an error if need be) and that it delivers what
it asked for before, that start-up ends, that an offline client goes online
again, and that the user leaves and comes back again and again: auto-sync
works on idle notices only. Mail, deletions, moves and failures have no
fairness.

As for the copy service, the properties hold under the behaviours of their run.
Adding another one shows what the code does not survive:

| Behaviour added | Run changed | Property that fails | What happens |
|---|---|---|---|
| `overlap` | `SyncPlain` | `OneGroupPerServer` | headers are looked at while a group is fetched; the manager starts a second fetch on the server (`nsAutoSyncManager.cpp:1227`; `nsAutoSyncManager.h:78` and `:277` say one at a time) |
| the same | `SyncPlain`, inbox and messages 1 and 9 only | `SameGroupAgain` | the download queue is reordered under the offsets, and `Rollback` goes back to another group (`:1278`; `nsAutoSyncManager.h:101`) |
| the same | `SyncPlain` | `NothingSkippedUntried` | the fetch that runs keeps the semaphore, and the groups that are refused for it use up the retries (`nsAutoSyncState.cpp:674`) |
| `moves` | `SyncPlain` | `OneGroupPerServer` | `OnFolderHasPendingMsgs` sets `stUpdateNeeded` over `stDownloadInProgress` (`nsAutoSyncManager.cpp:1426`); a sibling starts another fetch |
| `moves`, `Chained = FALSE` | `SyncPlain` | `BusyIsFetching` | the same, and the folder fetches in the state `stUpdateNeeded` or `stUpdateIssued` |
| `offline` | `SyncPlain` | `LockedOnlyWhileFetching` | a request that is refused offline keeps the semaphore (`nsAutoSyncState.cpp:682`) |
| the same | `SyncPlain` | `NothingSkippedUntried`, `SameGroupAgain` | requests that are refused offline use up the retries of their group |
| `overlap` | `SyncPlain` | `ReadyIsScheduled`, `OneUpdateAtATime` | the end of a fetch takes a folder off the queue that another callback has just scheduled; the end of a STATUS request is taken for that of a fetch |
| none | `SyncHostile`, the inbox made a folder for sent mail | `PendingFolderQueued` | a sent folder is inserted at the front of the update queue; the end of the update in progress removes the head (`:565`) |
| `refused` | `SyncHostile` | `PendingFolderQueued` | an update that fails before it runs a URL leaves the queue (`:376-381`) with its folder still in `stUpdateNeeded` |
| `overlap`, with the inbox and messages 1 and 9 only | `SyncProgress` | `UpdateEnds` | discovery overwrites `stStatusIssued`; the end of STATUS is taken for that of a fetch (`nsAutoSyncState.cpp:470`) and the manager waits for ever |
| `opens` | `SyncProgress` | `UpdateEnds` | the user's own update runs when STATUS ends; the manager is not registered as its listener (`nsImapMailFolder.cpp:846`) |
| `playback` | `SyncProgress` | `UpdateEnds` | the folder has offline operations, and playing one back fails: nothing follows for a single folder (`nsImapOfflineSync.cpp:131-147`), and the manager waits |
| `refused` | `SyncProgress` | `UpdateEnds` | the update that follows a STATUS request fails before it runs a URL (`nsImapMailFolder.cpp:811`): nobody tells the manager, which waits |
| `offline` | `SyncProgress` | `EveryHeaderGetsBody` | a request that is refused offline keeps the semaphore (`nsAutoSyncState.cpp:682`) |
| `removals` | `SyncProgress` | `DiscoveryGoesOn` | a deleted folder at the head of the discovery queue is never removed (`nsAutoSyncManager.cpp:336`) |

An update without news, or one that fails, leaves the folder in `stUpdateIssued`
(`nsAutoSyncState.cpp:426`), and `AutoUpdateFolders` skips folders that are not in
`stCompletedIdle`: such a folder is not updated again until discovery finds a
missing body in it or a message is moved into it. `SyncProgress` has these
behaviours; `EveryBodyStored` names the folder that is lost this way
(`LeftInUpdate`), and without that alternative it fails. `EveryHeaderGetsBody` holds
all the same.

`NothingSkippedUntried` exempts messages over `FirstGroupSizeLimit`. A group that is
too big for a user who is there is postponed, which counts as a failed attempt
(`nsAutoSyncManager.cpp:1245`; the comment at 1229-1231 says it is tried again at
idle), and after `GroupRetryCount` attempts it is passed. `SyncPlain` has such a message
(8), and it is refused there, but not often enough to be passed. With two of them in one
folder (messages 8 and 9, both over the limit, no behaviours), or with a
`GroupRetryCount` of zero, the property without the exemption fails; with the
exemption it holds in these instances, too.

### Send later

One message that is sent in the background and one that waits for the user
(`mailnews.sendInBackground` is a choice, the header `Queued` makes the difference),
and the calls of the offline manager that the mail window makes: going online to
send and play back, downloading before going offline, and going offline only.

| Run | Bound | Result | Shows |
|---|---|---|---|
| `SendLater` | 2 messages, 1 call of the manager or restart, every message accepted twice at most | holds | Under every failure of the surroundings: one message at a time (`OneMessageAtATime`); a message that the server accepts twice had a first time the program could not record (`SentTwiceExplained`); a message that waits for the user is not taken along (`LaterOnlyOnRequest`); refinement of `Outbox` (`OutboxSpec`). Under fairness: the run ends and so does a shutdown that waits for it (`RunEnds`); going online reaches the playback of offline operations (`PlaybackFollows`) |

`FairSpec` assumes that files are read and connections answer or time out
(`MessageStep`), that tasks of the manager end, and that calls return. Users, the
network and the timer have no fairness. Two messages are enough for one to be
under way while another waits, fails before or after it, or is added; one event is
enough for a call to meet a run at any of its points. `MaxTries` of two is
the least that lets a message be sent twice.

`SentTwiceExplained`, `RunEnds` and `PlaybackFollows` name their exceptions in the
formula, as history (`excused`, `unnoticed`). These are in the code:

| Exception | Where | What happens |
|---|---|---|
| the message cannot be deleted, the answer is lost, the program dies before it | `excused` | the message stays in the folder after the server has it, and is sent again |
| the first `StartNextMailFileSend` fails | `unnoticed` | `mSendingMessages` stays set (`nsMsgSendLater.cpp:889`): nothing is sent until the program is restarted, and a shutdown waits for ever |
| `SendMailMessage` fails, for instance for want of recipients | `unnoticed` | `DeliverFileAsMail` overwrites the result (`nsMsgSend.cpp`, around 3690), and no listener is called |

What the model shows besides: when a later message cannot be started the run ends,
although the comment in `OnCopyStepFinished` says the rest is still tried; a timer
that fires during a run is dropped; `DoShutdownTask` cancels the timer but leaves
`mTimerSet`, so that no timer is set again; a request that arrives while the folder
is parsed overwrites `mUserInitiated`. The offline manager is added to
`mListenerArray` at each send and never removed, so that the end of a later run
advances it several times; `SynchronizeForOffline` goes offline at once when the
outbox needs a reparse or is being sent; a task that cannot be started leaves the
manager in that state.

### Compaction

| Run | Bound | Result | Shows |
|---|---|---|---|
| `CompactCrash` | 2 folders, 4 messages, 2 compactors, 1 crash at any point | holds | `TypeOK`; a summary that is trusted has the live messages of its mailbox at their offsets and no other message of it (`SummaryAgrees`; of rows that belong to no message of the mailbox it does not speak); no mail is resurrected, and none lost except by a crash between the removal of the mailbox and the renaming of its copy (`MailStoreSpec`), with files that cannot be removed, a full disk, failing streams, parsers and openings |
| `CompactStale` | 1 folder, 4 messages, 1 compactor, 1 crash | violation | a summary that is trusted may have rows of an earlier compaction's mailbox (`NewDatabaseIsValid`): see the finding below |
| `CompactHostile` | 1 folder, 4 messages, 2 compactors | holds | Everything but crashes, with deletions during the compaction, a folder that is asked for twice, and a copy that cannot be moved: `SummaryAgrees`; under fairness the semaphore is given back (`LocksReleased`) |

**Finding (`CompactStale`).** The program dies after `MoveMailbox` and before
`MoveSummary`: `nstmp.msf` is left. The next compaction finds the name `nstmp` free,
opens this database (see `InitDB` above) and may keep its rows. The rows of messages
at offsets that the new mailbox does not reach are never replaced. `FinishCompact`
renames the database and marks it valid, and the folder lists messages that are
not there. `nsMsgFolderCompactor.cpp:145` says "if it's out of date then reopen with
upgrade." and line 434 "make sure the new database is valid."

Mailboxes hold two messages or three, of which some are expunged, and one is
delivered: enough for offsets to shift, for a message to be first, in the middle or
last, and for two temporary names to be in use. `FairSpec` has weak fairness for
running code and strong fairness for what the event loop serves: streams, parsers
and the end of a delivery, which are disabled while a compactor is in one of the
phases of `MainThread`.

The behaviours of a run are those under which its properties hold. Adding one:

| Behaviour added | Run changed | Property that fails | What happens |
|---|---|---|---|
| `deletes` | `CompactCrash` | `MailStoreSpec` | nobody asks for the semaphore when messages are deleted (`nsLocalMailFolder.cpp`, `DeleteMessages`): a message that was copied already is back after the compaction |
| `moveFails` | `CompactCrash` | `MailStoreSpec` | the mailbox is removed before the temporary file is moved into its place; when the move fails the temporary file is removed as well |
| `startFails` | `CompactHostile` | `LocksReleased` | when `CopyMessages` fails before the first message the semaphore is not released |

`again` is left out of `CompactCrash` because the proofs need it. TLC finds no violation
of `SummaryAgrees` with it there, and none of `MailStoreSpec` in the smaller instance of
`CompactHostile` with one crash; `MailStoreSpec` with two folders was not checked with it. With `again`, the second compactor's `ParseFolder` replaces `mReparseListener`
(`nsLocalMailFolder.cpp:238`): the first one waits for ever, without the semaphore.

### IMAP connections

| Run | Bound | Result | Shows |
|---|---|---|---|
| `ImapPlain` | 4 URLs about 2 folders, 1 connection, 2 events | holds | Under fairness every URL ends (`EveryUrlEnds`), also when it is suspended and queued again, while connections grow too old and folders are closed |
| `ImapHostile` | 2 URLs about 1 folder, 2 connections, 2 events of any kind | holds | No two connections have the same folder selected (`FolderOnOneConnection`); a URL is never in two places (`OnePlace`), and a suspended one is not taken from the queue before its connection has let go of it (`SuspendedUrlRests`: the window between `nsImapIncomingServer.cpp:499` and the release of the URL, which `OnePlace` leaves out); refinement of `UrlLedger` |

Two URLs that need the same folder are the case the cache is made for; the
events (each kind once, two of them in any order and at any point) make one
connection die while another takes its URL. Four identities are enough for two live
connections and those that die meanwhile. `ImapHostile` treats them as symmetric
(`Identities`): they occur in no constant but `Connections`, no property names one, all
its properties are safety properties, and the one choice among them (`NewConnection`)
is between identities that are in the same state and in no queue. `ImapPlain` has as many kinds of URLs as the
choice of a connection distinguishes, except for subscriptions, and one
connection, so that each has to wait for the others. `FairSpec` assumes that
`LoadNextQueuedUrl` goes on and that threads run; users, servers and the network
have no fairness.

| Behaviour added | Run changed | Property that fails | What happens |
|---|---|---|---|
| `searches` | `ImapHostile`, URLs `open2` and `append` | `FolderOnOneConnection` | a draft that was appended to a server without UIDPLUS is searched for: its folder is selected on whatever connection appended it (`nsImapProtocol.cpp:6075`); debug builds assert that this does not happen (`nsImapIncomingServer.cpp`, around 780) |
| `cancels` and `loses` together | `ImapHostile` | `FolderOnOneConnection` and `SuspendedUrlRests` without their premise | the URL of a lost connection is cancelled; `RetryUrl` runs it nevertheless, and its connection is taken for dead: another selects the folder |
| `returns` | `ImapPlain` | `EveryUrlEnds` without its exception | a URL on which `ProcessCurrentURL` returns early is never ended: its listener waits, also when the connection that still has it is closed for its age |
| any failure of a connection | `ImapPlain` | `EveryUrlEnds` without its exception | see below |

`EveryUrlEnds` is claimed only while no connection fails, because the code
does lose URLs when one does: a URL that is assigned to a connection between
`ReleaseUrlState` and `TellThreadToDie` after a failed login or an answer that
cannot be parsed (`nsImapProtocol.cpp:1844`), one that was assigned and not started
when the connection is told to die, one for which `RetryUrl` finds no connection
(`nsImapIncomingServer.cpp:516`). After an error `AbortQueuedUrls` ends only queued
URLs whose channel has an error, and does not serve the others; the head of the
queue holds up the rest; going online does not serve the queue. A listener that
asks for a URL while `LoadNextQueuedUrl` tells it that its queued URL was dropped
waits for the lock its own thread holds.

## 5. Proofs

`CopyServiceProofs` proves, for all values of the constants that satisfy
`ConstantsAssumption` (which only says that the constants are what their
comments say):

* `TypeCorrect`: `Spec => []TypeOK`. The one delicate point is that the counter
  of the loop of `NotifyCompletion` never falls below zero.
* `FirstComeFirstServed`: `Spec => []BegunIsOldest`. `BegunIsOldest` is not
  inductive; `IInv` adds that ids are issued once and increase along the queue,
  and that a processed request was begun. The heart is `NextToCopyIsOldest`:
  the request `DoNextCopy` stops at is the oldest for its destination, because a
  skipped older one would have kept the destination among the active targets.
* `ServiceImplementsLedger`: `Spec => LedgerSpec`. `NextQueueStep` reduces every
  step to one of four effects on the queue, which map to `Request`, `Serve`,
  `Settle` and stuttering.

None of these assumes anything about `Behaviours`: they hold for the worst
folders and listeners.

`CopyServicePlainProofs` proves the safety properties of `CopyPlain` for any number of
folders, files, submissions and requests, from the premise `PlainCase`: no unusual
behaviours, one source per request, no folder copied onto itself, and no copies into a
subfolder of a folder that folders are copied into. The table in section 4 shows what
the code does when a premise is dropped, and `MCCopyPlain` makes TLC check that the
instance of `CopyPlain` meets it.

* `FolderIsFree`: `NoCopyIntoBusyFolder`. A copy state that is set stands for a
  transfer, the transfer for a request that was started (`TransferPlain`), and by
  `BegunIsOldest` a destination has only one of those: the one being asked for, which
  has no transfer yet.
* `EveryDestinationWorks`: `NoDestinationWaits`. Between two calls it does not hold:
  the invariant says for each kind of call which requests may be unserved meanwhile
  (`CallsPlain`): while `NotifyCompletion` runs only those for the destination of the
  completed request, before a scan only those for one destination. What `DoNextCopy`
  can start is exactly what is not served (`StartableIsUnserved`), so one scan is
  enough.
* `SuccessAfterTheEnd`: `OkOnlyAfterEnd`. A completion is matched by folder and source
  and may find a request that is merely equal to the one that ended; `Concluded` says
  that a match which was started has ended, and that an unstarted match is not a file
  copy, the only kind the loop could take for finished.
* `StartedOnlyOnce`: `StartsOnce`, because the flags of a request say exactly whether it
  was started (`ProcessedIsBegun`).

The inductive invariant is `IInv /\ PlainIInv`. `NextIsPlain` first shows which actions
remain; that `AcceptBusy` and `RefuseFolder` are not among them is itself a consequence
of the invariant (`AcceptedFolderIsIdle`).

`AutoSyncProofs` proves, for all values of the constants of `AutoSync` that
satisfy its `ConstantsAssumption`:

* `DownloadQueuesWellFormed`: `Spec => []DownloadQWellFormed`. The inductive
  invariant `IInv` types the records of all folders relative to their own
  messages (`QueueOver`), which is what makes a discovery batch a set of keys of
  its folder. Each operator on a record has a lemma; `OnDownloadQChangedOK` and
  `DownloadChainedOK` lift them to the operators that choose folders, for any
  contents of the manager's queues.

`AutoSyncFetchProofs` builds on it, again for all values of the constants:

* `TypeCorrect`: `Spec => []TypeOK`, under all behaviours.
* `OneGroupAtATime`: `Spec => []OneGroupPerServer`, `UpdatesDoNotOverlap`:
  `Spec => []OneUpdateAtATime`, `ActiveInPriorityQ`: `Spec => []ReadyIsScheduled`,
  `StateTellsFetch`: `Spec => []BusyIsFetching`, `SemaphoreGivenBack`:
  `Spec => []LockedOnlyWhileFetching`. They share the inductive invariant `FetchInv`:
  a folder that fetches has one fetch and the state that says so, is alive and is in
  the priority queue; one that does not fetch holds no semaphore; the folders in the
  queue are those that wait or fetch (`FolderOK`); two folders of a server are never
  both in `stDownloadInProgress` (`OnePerServer`); a STATUS request runs only in
  `stStatusIssued` (`StatusOK`); and what is being updated is one folder, which is
  still in the update queue, and nobody while `mUpdateState` is "completed"
  (`UpdateOK`). The last part is what makes `UpdateEnded` harmless, which looks at
  nothing: three callbacks call it, and each only when the manager waits for it.
  The heart is the chained model. `AskInTurn` hands a request over from sibling to
  sibling and does not look at their states; `ChainKeeps` shows that at most one of
  them gets a group, and that nobody on that server was fetching, because a chain
  is started only by a folder whose server is free: at the end of its only fetch
  (`ServerFree`), or by the representative `ChainFoldersInQ` picks, which would be the
  folder that downloads if there were one (`StartersFree`).
* `PendingFolderWaitsInQueue`: `Spec => []PendingFolderQueued`. The strengthening is
  that while an update runs the front of the update queue is a folder that does not
  wait for one (`PendingOK`).
* `NothingIsSkipped`: `Spec => []NothingSkippedUntried`, and `FailedGroupIsAskedAgain`:
  `Spec => SameGroupAgain`, from `SeenInv`: beyond `FetchInv`, in every download queue
  are messages whose headers are known, those before the offset were asked for or
  need not be, and those that are being fetched are still behind the last offset, where
  `Rollback` finds them (`Accounted`). The first question is whether
  `GetNextGroupOfMessages` passes what it does not put into the group: it stops
  behind a message that fills the group alone, or else before the first that does not
  fit, and since the strategy is a strict total order (`MessageOrder`) either
  passes nothing else that has to be fetched (`PassedIsAsked`, `OffsetsMove`). The
  second is what becomes of a group that is refused: `DownloadMessagesForOffline`
  gives up a group of size zero, which is never one with something to fetch, and one
  over the limit for a user who is there, and when its retries are used up it is
  passed. A group is one message or fits into `GroupSize` (`SizeOfGroup`), so that if
  `GroupSize` is not above `FirstGroupSizeLimit`, as in the code
  (`kDefaultGroupSize` and `kFirstGroupSizeLimit`), only a message that is over the
  limit by itself is refused (`RefusedIsOver`), and nothing is passed with it.
  `FailedGroupIsAskedAgain` needs no such premise: after a failure the manager asks
  without a limit.
  `TotalSize` is a fold over a set; what it computes is proved in `TotalSizeStep`
  to `TotalSizeOfOne` by taking the definition of the fold apart and looking at a
  smallest set for which the claim is false, where induction would need a theorem with
  an operator as its parameter.

Their hypotheses are behaviours that are absent. `overlap` is excluded by all but
`TypeCorrect`, `moves` by `StateTellsFetch` and, in the chained model, by the others,
since both overwrite the state of a folder that fetches; `offline` by
`SemaphoreGivenBack`, `NothingIsSkipped` and `FailedGroupIsAskedAgain`; `refused` and
folders for sent mail by `PendingFolderWaitsInQueue`. Section 4 has a violation of
the property for each of these, with these exceptions: with `moves` in the
chained model TLC finds no violation of `OneUpdateAtATime`, `ReadyIsScheduled`,
`LockedOnlyWhileFetching`, `PendingFolderQueued`, `NothingSkippedUntried` or
`SameGroupAgain`, and none of `PendingFolderQueued` with `overlap`; there the
hypotheses are what `FetchInv` needs. In the parallel model
these theorems hold with `moves`: a folder in a state of `Overwritten` still has
its one fetch and its place in the queue.

`SendLaterProofs` proves, for all values of the constants of `SendLater` that
satisfy `SendLaterAssumption` (finitely many messages, a positive `MaxTries`):

* `TypeCorrect`: `Spec => []TypeOK`. `IdleOK` is the part that is not obvious: before
  its first call the manager waits for nothing, and `NextState` is asked only
  about states it is defined for.
* `OneAtATime`: `Spec => []OneMessageAtATime`, `TwiceExplained`:
  `Spec => []SentTwiceExplained`, `LaterWaits`: `Spec => []LaterOnlyOnRequest`.
  They share the inductive invariant `IInv`: nothing is under way unless the
  service says that it sends, what is left of the pass has no repetition and does
  not contain the message under way (`RunOK`); whatever is tried or will be tried
  in this pass was accepted before only with an excuse (`RecordsOK`); a run that
  takes messages of the user along was asked for (`RequestOK`). Every way into a
  run goes through `InternalSendMessages`, and every end of a message through the
  next one; `AttemptOK` and `NextMessageOK` do the work for both.
* `FolderIsOutbox`: `Spec => OutboxSpec`.

They hold for any behaviours, any calls of the manager and any number of restarts.

`CompactionProofs` proves, for all values of the constants of `Compaction` that
satisfy `CompactionAssumption` and for any number of crashes:

* `TypeCorrect`: `Spec => []TypeOK`, `SummariesAgree`: `Spec => []SummaryAgrees`, and
* `NothingLost`: `Spec => MailStoreSpec`, the refinement, with `Strand` as the only loss.

They hold whatever the uninitialised flag of `InitDB` is, at every opening: no part
of the invariant says anything about `stray`. The theorems assume `Tame`: the
behaviours `deletes` and `moveFails` are absent, since with each of them TLC finds
one of the properties violated (section 4, behaviour table), and so is `again`, which
the invariant excludes (`AskedOK`: a folder waits for one compactor); disk and file errors, failing parsers and streams, and compactors
that are never released are allowed. The inductive invariant `Inv` says, for every
phase of a compactor, what it holds and what its files contain (`WorkOK`: while it
copies, the headers it has written describe the temporary file, and the file has
exactly the messages it has counted; later the copy has exactly the live messages of
the mailbox, whichever of the two has been removed or moved), that a temporary file
belongs to one compactor or to one folder whose mailbox is lost (`TempsOK`,
`HeirsOK`), that nobody else works on a folder that is held (`LocksOK`,
`MainThreadOK`), and that a listener of the parser waits for the folder it was given
to (`ListenersOK`). None of this is in `SummaryAgrees` or `MailStoreSpec`, and each
is needed: that a lost last write is noticed (`LossIsSeen`) rests on the counted
messages, that `RemoveMailbox` loses nothing on the copy being complete, that a
deleted message does not come back on the heirs of a folder holding other messages
than its mailbox, and that a crash empties no more than one folder on there being one
heir at most, that of the compactor which is moving it (`HeirsOwned`, `MainThreadOK`).
`EnterStep`, `WorkStep`, `TempStep` and `FolderFilesOK` state once
what a compactor's step and a folder's step leave alone; each action then has one lemma.

`SequenceFilterProofs` is about the removal of elements from an `nsCOMArray`, which
`AutoSync` and `ImapConnections` do.
`SelectSeq` of the standard module is recursive, and what a recursive operator
computes cannot be proved here; `Without` of `SequenceFilter` picks the n-th
position that stays instead. `WithoutProperties`: what stays is what was not to be
removed, and a sequence without repetitions stays one. `SmallestSubset` stands in for
induction on finite sets: among the subsets for which a claim is false one has no
smaller one. `Extremes` (what `Max` and `Min` choose) and the lemmas about
`TotalSize` use it.

`ImapConnectionsProofs` proves, for all values of the constants of `ImapConnections`
that satisfy `ImapAssumption`, so for any number of URLs, folders and connections,
any limit of the cache, and any number of events:

* `Consistent`: `Spec => []IInv`, with `UrlAtOnePlace`: `Spec => []OnePlace` and
  `ListenersAreTold`: `Spec => LedgerSpec` as its consequences, under all behaviours.
  `PlacesOK` says where a URL can be: in the queue, or on one connection that is
  going to run it, runs it, or looks for another to run it, but not on one that
  has already told the listener or put the URL back (phase `release`). This is what
  makes `OnePlace` inductive: while `RetryUrl` looks for a connection the URL is in
  `retry` and in no `url`. `PhasesOK` and `CacheOK` relate the phase of a thread to
  its fields and to the cache: `RemoveConnection` comes before `RetryUrl`, so that
  the URL is never given back to the connection that lost it. `ToldOK` says what
  the listener of a URL at each place has heard, with the one exception the code
  has: a URL that was refused stays on the connection that could not be set up.
* `FoldersOnOneConnection`: `Spec => []FolderOnOneConnection`, if `searches` is not
  among the behaviours, since with it TLC finds the property violated (section 4,
  behaviour table). `FInv` strengthens the property from folders that are
  selected to folders that a busy connection is going to select (`ClaimOn`,
  `Exclusive`), which is what `CanHandleUrl` looks at. Two cases make it delicate: a
  cancelled URL is no claim for `CanHandleUrl`, so the connections of the cache must not
  have one (`LoadNextQueuedUrl` drops them, `Cancel` takes the connection out of the
  cache; only a URL that is retried escapes, hence the premise of the property); and
  a suspended URL is still on its connection when the queue already has it
  (`Resting`), and then it must not be given to another.
* `SuspendedUrlsRest`: `Spec => []SuspendedUrlRests`, from the same invariant: no
  listener was told that a suspended URL ended, so `CanHandleUrl` finds the connection
  that still has it, and the URL has to wait for that one.

Each action has one lemma for `IInv` and one for `FInv`; `Step`, `DieStepKeeps`,
`LoadKeeps`, `FoldersBecome`, `FoldersDie` and `FoldersLoad` say what all actions of a
kind have in common: a thread's own step, connections that are told to die, and
`GetImapConnection`, whose choice of a connection `LoadImapUrlEffect` describes.

Every invariant and every action property of the runs is stated by one of these
theorems, under its hypotheses. Only model-checked is liveness (`EveryRequestReported`,
`EveryUrlEnds`, `EveryBodyStored`, `UpdateEnds`, `LocksReleased` and the like), which is
out of the prover's reach.

## 6. Not modelled

* Biff manager, purge service, prompt queue, IMAP offline playback, LDAP: planned, see
  section 2.
* Parts of modelled components: the compaction of IMAP offline stores
  (`nsOfflineStoreCompactState`), which has the same file operations as
  `Compaction` but downloads what it lacks; the cross-account cases of folder copies
  and subfolders; the discovery of IMAP folders and IDLE; the user-visible
  attributes of auto-sync, which nobody changes at run time.
* A folder whose STATUS request is refused after `stStatusIssued` was set
  (`nsImapMailFolder.cpp:9510`) leaves the queue in that state; discovery finds it
  again. The refusal is in `AutoSync` only as part of `offline`.
* POP3, SMTP, compose: sequential protocol automata; what they do to others (filing
  a sent message, delivering into a folder) is in `CopyService`, `SendLater` and
  `Compaction`.
* Message database, Gloda, filters, search, views, address book, import, MAPI, news:
  data structures and conversions with one party at a time, or SQL; they would be
  tested better than model-checked.
* The front end, the platform, generated and vendored code are not going to be
  modelled.
