------------------------------- MODULE AutoSync -------------------------------
(***************************************************************************)
(* Auto-sync: nsAutoSyncManager and the nsAutoSyncState of every offline   *)
(* IMAP folder.  While the user is away it asks the server which folders   *)
(* changed, updates those, and fetches the bodies of their messages in     *)
(* groups, one folder per server at a time in the chained model.           *)
(*                                                                         *)
(* All of it runs on the main thread and no call comes back before it      *)
(* returned, so every callback is one step.  What interleaves are the      *)
(* callbacks: idle notices, the timer, the ends of STATUS, select and      *)
(* fetch URLs, and the header updates of the folders.                      *)
(***************************************************************************)
EXTENDS Integers, Sequences, FiniteSets, SequencesExt, FiniteSetsExt, SequenceFilter

CONSTANTS
  Folders,              \* the offline IMAP folders
  FolderOrder,          \* the order AutoUpdateFolders visits them in
  ServerOf,             \* the server of a folder
  Kind,                 \* inbox, drafts, sent, plain or trash
  Messages,             \* message keys; later messages have greater keys
  Home,                 \* the folder of a message
  Size,                 \* the size of a message
  GroupSize,            \* mGroupSize
  FirstGroupSizeLimit,  \* kFirstGroupSizeLimit
  FirstPassSize,        \* kFirstPassMessageSize
  GroupRetryCount,      \* kGroupRetryCount
  HeaderBatch,          \* kNumberOfHeadersToProcess
  Chained,              \* whether mDownloadModel is dmChained
  DueSets,              \* sets of folders that may be due at an idle notice
  Behaviours,           \* what may happen beyond the plain case
  MaxEvents             \* bound: how often it happens

(***************************************************************************)
(* Behaviours of the surroundings, switched on run by run:                 *)
(*   failures    fetches fail though the client is online                  *)
(*   statusFails STATUS requests fail though the client is online          *)
(*   updateFails update URLs fail though the client is online              *)
(*   deletions   messages are deleted                                      *)
(*   overlap     headers of a folder are looked at while a fetch or a      *)
(*               STATUS request of that folder runs                        *)
(*   noNews      counts on the server change without new messages          *)
(*   opens       the user opens a folder in a window, which updates it     *)
(*   refused     a folder cannot be updated: its database, its filters or  *)
(*               the master password fail, or it cannot be opened          *)
(*   playback    an update first plays offline operations of the folder    *)
(*   direct      bodies of new mail are fetched by the update URL itself   *)
(*   moves       messages are moved into a folder (ChangePendingTotal)     *)
(*   offline     the client goes offline and online                        *)
(*   removals    folders are deleted                                       *)
(***************************************************************************)
AllBehaviours == {"failures", "statusFails", "updateFails", "deletions",
                  "overlap", "noNews", "opens", "refused", "playback",
                  "direct", "moves", "offline", "removals"}

(***************************************************************************)
(* The strategy for messages: small ones before big ones, the big ones by  *)
(* size, the others newest first.                                          *)
(***************************************************************************)
MsgBefore(m, n) ==
  LET big(x) == Size[x] > FirstPassSize IN
  \/ big(n) /\ ~big(m)
  \/ big(n) /\ big(m) /\ (Size[m] < Size[n] \/ (Size[m] = Size[n] /\ m < n))
  \/ ~big(n) /\ ~big(m) /\ m > n

ASSUME ConstantsAssumption ==
  /\ IsFiniteSet(Folders)
  /\ FolderOrder \in Seq(Folders)
  /\ DOMAIN ServerOf = Folders
  /\ Kind \in [Folders -> {"inbox", "drafts", "sent", "plain", "trash"}]
  /\ IsFiniteSet(Messages) /\ Messages \subseteq Nat
  /\ Home \in [Messages -> Folders]
  /\ Size \in [Messages -> Nat]
  /\ GroupSize \in Nat \ {0} /\ FirstGroupSizeLimit \in Nat \ {0}
  /\ FirstPassSize \in Nat /\ GroupRetryCount \in Nat
  /\ HeaderBatch \in Nat \ {0}
  /\ Chained \in BOOLEAN
  /\ DueSets \subseteq SUBSET Folders
  /\ Behaviours \subseteq AllBehaviours
  /\ MaxEvents \in Nat

VARIABLES
  sync,          \* the nsAutoSyncState of each folder, see SyncRecord
  mDiscoveryQ,   \* folders whose stored headers are to be looked through
  mUpdateQ,      \* folders to be checked for new messages
  mPriorityQ,    \* folders with bodies to fetch, the most important first
  mUpdateState,  \* "initiated" while the head of mUpdateQ is checked
  mIdleState,
  mPaused,
  mTimer,        \* whether the timer runs
  mStartupDone,
  status,        \* per folder: STATUS requests that are running
  select,        \* per folder: the update URL, m_urlRunning
  listening,     \* the folders whose m_urlListener is the manager
  where,         \* per message: how far it got
  online,
  alive,         \* the folders that were not deleted
  windows,       \* the folders open in a window of the user
  events         \* how many events beyond the plain case happened

manager == <<mDiscoveryQ, mUpdateQ, mPriorityQ, mUpdateState, mIdleState,
             mPaused, mTimer, mStartupDone>>
folderVars == <<status, select, listening>>
world == <<where, online, alive, windows, events>>
vars == <<sync, manager, folderVars, world>>

SyncStates == {"completedIdle", "statusIssued", "updateNeeded",
               "updateIssued", "downloadInProgress", "readyToDownload"}

(***************************************************************************)
(* The state of a folder.  mDownloadQ is sorted whenever a group is taken  *)
(* from it, so that three sets stand for it: the keys before mLastOffset,  *)
(* those between mLastOffset and mOffset, and those from mOffset on.       *)
(* "left" is mExistingHeadersQ from mProcessPointer on, "locked" the       *)
(* semaphore of the folder, "fetches" the groups being fetched, and        *)
(* "tried" (history) the keys that were ever asked for.                    *)
(***************************************************************************)
SyncRecord ==
  [state: SyncStates, done: SUBSET Messages, current: SUBSET Messages,
   pending: SUBSET Messages, changed: BOOLEAN, retries: 0..GroupRetryCount,
   left: SUBSET Messages, locked: BOOLEAN, fetches: Seq(SUBSET Messages),
   tried: SUBSET Messages]

TypeOK ==
  /\ sync \in [Folders -> SyncRecord]
  /\ {mDiscoveryQ, mUpdateQ, mPriorityQ} \subseteq Seq(Folders)
  /\ mUpdateState \in {"completed", "initiated"}
  /\ mIdleState \in {"notIdle", "systemIdle", "appIdle"}
  /\ {mPaused, mTimer, mStartupDone, online} \subseteq BOOLEAN
  /\ status \in [Folders -> Nat]
  /\ select \in [Folders -> {"none", "running", "fetched", "bodies"}]
  /\ listening \subseteq Folders
  /\ where \in [Messages -> {"future", "server", "header", "offline", "deleted"}]
  /\ alive \subseteq Folders /\ windows \subseteq Folders
  /\ events \in Nat

Init ==
  /\ sync = [f \in Folders |->
               [state |-> "completedIdle", done |-> {}, current |-> {},
                pending |-> {}, changed |-> FALSE, retries |-> 0, left |-> {},
                locked |-> FALSE, fetches |-> <<>>, tried |-> {}]]
  /\ mDiscoveryQ = <<>> /\ mUpdateQ = <<>> /\ mPriorityQ = <<>>
  /\ mUpdateState = "completed"
  /\ mIdleState = "notIdle"
  /\ mPaused = FALSE /\ mTimer = FALSE /\ mStartupDone = FALSE
  /\ status = [f \in Folders |-> 0]
  /\ select = [f \in Folders |-> "none"]
  /\ listening = {}
  /\ where \in [Messages -> {"future", "header"}]
  /\ online \in (IF "offline" \in Behaviours THEN BOOLEAN ELSE {TRUE})
  /\ alive = Folders /\ windows = {}
  /\ events = 0
------------------------------------------------------------------------------
(***************************************************************************)
(* Groups of messages.                                                     *)
(***************************************************************************)
MessagesOf(f) == {m \in Messages : Home[m] = f}
HasHeader(m) == where[m] \in {"header", "offline"}

\* Messages in the database whose body is neither stored nor empty.
Fetchable(S) == {m \in S : where[m] = "header" /\ Size[m] > 0}

FirstOf(S) == CHOOSE m \in S : \A n \in S \ {m} : MsgBefore(m, n)
UpTo(m, S) == {n \in S : n = m \/ MsgBefore(n, m)}
TotalSize(S) == MapThenSumSet(LAMBDA m : Size[m], S)

\* Of the fetchable keys W: the first one, however big, and as many as fit.
NextGroup(W) ==
  {m \in W : UpTo(m, W) = {m} \/ TotalSize(UpTo(m, W)) <= GroupSize}

\* Mutant: the message that does not fit any more is passed, too.
PassedMutant(S, W) ==
  {k \in S : \A m \in W \ NextGroup(W) : ~MsgBefore(m, k)}

\* The keys of S the loop of GetNextGroupOfMessages passes: it stops behind a
\* message that fills the group alone, else at the first that does not fit.
Passed(S, W) ==
  IF \E m \in NextGroup(W) : Size[m] >= GroupSize
  THEN UpTo(FirstOf(W), S)
  ELSE {k \in S : \A m \in W \ NextGroup(W) : MsgBefore(k, m)}

\* Keys that left the database drop out of the queue when they are passed.
MoveOffsets(r, passed) ==
  [r EXCEPT !.changed = FALSE,
            !.done = r.done \cup r.current,
            !.current = {m \in passed : HasHeader(m)},
            !.pending = r.pending \ passed]

GetNextGroupOfMessages(r) ==
  MoveOffsets(r, Passed(r.pending, Fetchable(r.pending)))

\* Mutant: the download queue is not emptied.
SetCompletedIdleMutant(r) == [r EXCEPT !.state = "completedIdle"]

\* SetState(stCompletedIdle) also empties the download queue.
SetCompletedIdle(r) ==
  [r EXCEPT !.state = "completedIdle",
            !.done = {}, !.current = {}, !.pending = {}]

\* Mutants: no roll back; the retry counter is not reset.
TryCurrentGroupAgainMutant(r) ==
  [r EXCEPT !.state = "readyToDownload",
            !.retries = IF @ + 1 > GroupRetryCount THEN 0 ELSE @ + 1]

TryForEverMutant(r) ==
  [r EXCEPT !.state = "readyToDownload", !.retries = @ + 1]

\* Roll back to the last offset, unless this was tried often enough.
TryCurrentGroupAgain(r) ==
  IF r.retries + 1 > GroupRetryCount
  THEN [r EXCEPT !.state = "readyToDownload", !.retries = 0]
  ELSE [r EXCEPT !.state = "readyToDownload", !.retries = r.retries + 1,
                 !.current = {}, !.pending = r.current \cup r.pending]
------------------------------------------------------------------------------
(***************************************************************************)
(* Asking for a group.  The result is "ok", "notAvailable" when there is   *)
(* nothing to fetch, or "failed"; a limit of zero is no limit.             *)
(***************************************************************************)
RequestGroup(f, r, limit, group, next) ==
  LET total == TotalSize(group) IN
  IF r.pending = {} THEN [result |-> "notAvailable", state |-> r]
  ELSE IF f \notin alive THEN [result |-> "failed", state |-> r]
  ELSE IF total = 0 THEN [result |-> "notAvailable", state |-> next]
  ELSE IF (limit > 0 /\ limit < total) \/ r.locked
  THEN [result |-> "failed", state |-> next]
  ELSE IF ~online
  THEN [result |-> "failed", state |-> [next EXCEPT !.locked = TRUE]]
  ELSE [result |-> "ok",
        state |-> [next EXCEPT !.locked = TRUE, !.state = "downloadInProgress",
                               !.fetches = Append(r.fetches, group),
                               !.tried = r.tried \cup group]]

\* Mutant: the semaphore is acquired before the group is looked at.
LockFirstMutant(f, r, limit) ==
  RequestGroup(f, r, limit, NextGroup(Fetchable(r.pending)),
               [GetNextGroupOfMessages(r) EXCEPT !.locked = TRUE])

\* The result of asking, and what it leaves behind.  The semaphore stays
\* acquired when the IMAP service refuses to run the URL.
DownloadMessagesForOffline(f, r, limit) ==
  RequestGroup(f, r, limit, NextGroup(Fetchable(r.pending)),
               GetNextGroupOfMessages(r))

\* The recovery of HandleDownloadErrorFor.
Recovered(answer) ==
  IF answer.result = "failed" THEN TryCurrentGroupAgain(answer.state)
                              ELSE answer.state

\* Mutant: folders are compared, not their servers.
IsSiblingMutant(f, g) == f = g

IsSibling(f, g) == {f, g} \subseteq alive /\ ServerOf[f] = ServerOf[g]

\* The positions of q that GetNextSibling reaches from f.
LaterSiblings(q, f) ==
  {i \in DOMAIN q : IsSibling(f, q[i]) /\ \E j \in 1..(i - 1) : q[j] = f}

\* A group of f is asked for; in the chained model, while that fails, one of
\* each sibling behind f in the queue.  answers: what each folder would get.
AskInTurn(s, q, f, answers) ==
  LET ok(g) == answers[g].result = "ok"
      reached == {i \in LaterSiblings(q, f) :
                    /\ Chained /\ ~ok(f)
                    /\ \A j \in LaterSiblings(q, f) : j < i => ~ok(q[j])}
      asked == {f} \cup {q[i] : i \in reached}
  IN [g \in Folders |-> IF g \in asked THEN Recovered(answers[g]) ELSE s[g]]

DownloadChained(s, q, f) ==
  AskInTurn(s, q, f,
            [g \in Folders |-> DownloadMessagesForOffline(g, s[g], 0)])
------------------------------------------------------------------------------
(***************************************************************************)
(* The queue of folders.  Decision says where b belongs relative to a now: *)
(* folders open in a window come first.  Only a folder that is put into    *)
(* the queue is compared; the others stay where they are when the user     *)
(* opens or closes a window.                                               *)
(***************************************************************************)
Decision(a, b) ==
  CASE a \in windows /\ b \notin windows -> "lower"
    [] b \in windows /\ a \notin windows -> "higher"
    [] OTHER ->
         IF \/ Kind[b] = "inbox"
            \/ Kind[b] = "drafts" /\ Kind[a] # "inbox"
            \/ Kind[a] = "trash"
         THEN "higher"
         ELSE IF \/ Kind[a] = "inbox"
                 \/ Kind[a] = "drafts" /\ Kind[b] # "drafts"
                 \/ Kind[b] = "trash"
              THEN "lower" ELSE "same"

\* Deleted folders in the queue compare as the same.
Placement(a, b) == IF a \in alive THEN Decision(a, b) ELSE "same"

\* From the end of the queue up to the first folder f is not ahead of.
ScheduleFolderForOfflineDownload(q, f) ==
  LET stops == {i \in DOMAIN q : Placement(q[i], f) # "higher"} IN
  IF Contains(q, f) THEN q
  ELSE IF stops = {} THEN <<f>> \o q
  ELSE LET i == Max(stops) IN
       InsertAt(q, IF Placement(q[i], f) = "lower" THEN i + 1 ELSE i, f)

\* Any error, even that there is nothing to fetch, is an attempt.
FirstGroupAsked(s, q, f, answer) ==
  [sync |-> [s EXCEPT ![f] = IF answer.result = "ok" THEN answer.state
                             ELSE TryCurrentGroupAgain(answer.state)],
   queue |-> q, ok |-> answer.result = "ok"]

\* f was put into q; its first group is asked for unless a sibling fetches.
AskForFirstGroup(s, q, f) ==
  LET siblingBusy == \E i \in DOMAIN q : /\ q[i] # f /\ IsSibling(f, q[i])
                                         /\ s[q[i]].state = "downloadInProgress"
      limit == IF mIdleState = "notIdle" THEN FirstGroupSizeLimit ELSE 0
  IN IF Chained /\ siblingBusy THEN [sync |-> s, queue |-> q, ok |-> TRUE]
     ELSE FirstGroupAsked(s, q, f, DownloadMessagesForOffline(f, s[f], limit))

\* New keys made the download queue of f change.  Result: [sync, queue, ok].
OnDownloadQChanged(s, q, f) ==
  IF mPaused THEN [sync |-> s, queue |-> q, ok |-> TRUE]
  ELSE AskForFirstGroup([s EXCEPT ![f].state = "readyToDownload"],
                        ScheduleFolderForOfflineDownload(q, f), f)

\* Mutant: keys that are in the queue are added again.
PlaceIntoDownloadQMutant(f, keys) ==
  LET s == [sync EXCEPT ![f].pending = @ \cup {m \in keys : where[m] = "header"},
                        ![f].changed = TRUE]
  IN IF keys # {} THEN OnDownloadQChanged(s, mPriorityQ, f)
     ELSE [sync |-> sync, queue |-> mPriorityQ, ok |-> TRUE]

PlaceIntoDownloadQ(f, keys) ==
  LET r == sync[f]
      new == {m \in keys : where[m] = "header"}
               \ (r.done \cup r.current \cup r.pending)
      s == [sync EXCEPT ![f].pending = r.pending \cup new,
                        ![f].changed = r.changed \/ new # {}]
  IN IF keys # {} /\ s[f].changed THEN OnDownloadQChanged(s, mPriorityQ, f)
     ELSE [sync |-> s, queue |-> mPriorityQ, ok |-> TRUE]
------------------------------------------------------------------------------
(***************************************************************************)
(* What may go wrong: for free while offline, else out of the budget.      *)
(***************************************************************************)
Event(b) ==
  /\ b \in Behaviours
  /\ events < MaxEvents
  /\ events' = events + 1

Failure(b) == (~online /\ UNCHANGED events) \/ (online /\ Event(b))

\* The keys a header update or a discovery step hands over.
WithoutBody(S) == {m \in S : where[m] = "header"}

\* Plain runs do not look at headers of a folder that runs other URLs.
MayLookAt(f) ==
  "overlap" \in Behaviours \/ (sync[f].fetches = <<>> /\ status[f] = 0)

StartTimerIfNeeded == mTimer' = (mTimer \/ mUpdateQ' # <<>> \/ mDiscoveryQ' # <<>>)

TailOf(q) == IF q = <<>> THEN q ELSE Tail(q)

\* Mutants: the whole queue goes; the end of the update is not noted.
UpdateEndedMutant == mUpdateState' = "completed" /\ mUpdateQ' = <<>>
UpdateNotNotedMutant == mUpdateQ' = TailOf(mUpdateQ) /\ UNCHANGED mUpdateState

\* nsAutoSyncManager::OnStopRunningUrl: drops whatever is at the front.
UpdateEnded ==
  /\ mUpdateState' = "completed"
  /\ mUpdateQ' = TailOf(mUpdateQ)

\* Offline operations are played back first, and the folder replaces the
\* listener it has.  nsImapOfflineSync then updates the folder, for the listener
\* that was kept; when an operation fails, it does nothing any more.
PlayBackFirst(f, listeners) ==
  /\ "playback" \in Behaviours /\ online
  /\ listening' = (listening \ {f}) \cup listeners
  /\ select' \in {select, [select EXCEPT ![f] = IF @ = "none" THEN "running" ELSE @]}

\* The folder runs no second update URL; then nobody is told of an end.
UpdateFolderWithListener(f, listeners) ==
  \/ /\ online /\ select[f] = "none"
     /\ select' = [select EXCEPT ![f] = "running"]
     /\ listening' = listening \cup listeners
  \/ /\ ~(online /\ select[f] = "none")
     /\ UNCHANGED <<select, listening>>
  \/ PlayBackFirst(f, listeners)

\* An update that fails before it runs a URL.
CannotUpdate == "refused" \in Behaviours /\ UNCHANGED <<select, listening>>

UpdateFolder(f, listeners) ==
  UpdateFolderWithListener(f, listeners) \/ CannotUpdate
------------------------------------------------------------------------------
(***************************************************************************)
(* Idle notices.  StartIdleProcessing resumes the folders that are ready,  *)
(* gives up those with nothing to fetch, and queues the folders that are   *)
(* due for an update or for discovery.                                     *)
(***************************************************************************)

\* The position that stands for the server of q[i] in the chained queue: the
\* last one that is downloading, else the first.
ChainPosition(q, i) ==
  LET same == {j \in DOMAIN q : j = i \/ IsSibling(q[i], q[j])}
      busy == {j \in same : sync[q[j]].state = "downloadInProgress"}
  IN IF busy = {} THEN Min(same) ELSE Max(busy)

ChainFoldersInQ(q) == {q[i] : i \in {j \in DOMAIN q : ChainPosition(q, j) = j}}

\* Mutant: folders that are downloading are started again.
StartersMutant ==
  IF Chained THEN ChainFoldersInQ(mPriorityQ) ELSE ToSet(mPriorityQ)

Starters ==
  {f \in IF Chained THEN ChainFoldersInQ(mPriorityQ) ELSE ToSet(mPriorityQ) :
     sync[f].state = "readyToDownload"}

\* The folders that were not updated, and those not looked through, lately.
AutoUpdateFolders ==
  \E due, unseen \in DueSets :
    LET update == {f \in alive \cap due :
                     sync'[f].state = "completedIdle" /\ ~Contains(mUpdateQ, f)}
        discover == {f \in alive \cap unseen : ~Contains(mDiscoveryQ, f)}
    IN /\ mUpdateQ' = mUpdateQ \o Without(FolderOrder, Folders \ update)
       /\ mDiscoveryQ' = mDiscoveryQ \o Without(FolderOrder, Folders \ discover)
       /\ StartTimerIfNeeded

\* The state of g after the starters, or the one on its server, were asked.
Resumed(g) ==
  LET by == {f \in Starters : f = g \/ (Chained /\ IsSibling(f, g))} IN
  IF by = {} THEN sync[g]
  ELSE DownloadChained(sync, mPriorityQ, CHOOSE f \in by : TRUE)[g]

NothingToFetch ==
  {f \in Starters :
     DownloadMessagesForOffline(f, sync[f], 0).result = "notAvailable"}

Drop(r, dropped) == IF dropped THEN SetCompletedIdle(r) ELSE r

ProcessPriorityQ ==
  /\ sync' = [g \in Folders |-> Drop(Resumed(g), g \in NothingToFetch)]
  /\ mPriorityQ' = Without(mPriorityQ, NothingToFetch)
  /\ AutoUpdateFolders

StartIdleProcessing ==
  \/ /\ mPaused
     /\ UNCHANGED <<sync, mPriorityQ, mUpdateQ, mDiscoveryQ, mTimer>>
  \/ /\ ~mPaused /\ ~mStartupDone
     /\ UNCHANGED <<sync, mPriorityQ, mUpdateQ, mDiscoveryQ>>
     /\ StartTimerIfNeeded
  \/ /\ ~mPaused /\ mStartupDone
     /\ ProcessPriorityQ

AppIdle ==
  /\ mIdleState # "appIdle"
  /\ mIdleState' = "appIdle"
  /\ IF mIdleState = "notIdle" THEN StartIdleProcessing
     ELSE UNCHANGED <<sync, mPriorityQ, mUpdateQ, mDiscoveryQ, mTimer>>
  /\ UNCHANGED <<mUpdateState, mPaused, mStartupDone, folderVars, world>>

SystemIdle ==
  /\ mIdleState = "notIdle"
  /\ mIdleState' = "systemIdle"
  /\ IF online THEN StartIdleProcessing
     ELSE UNCHANGED <<sync, mPriorityQ, mUpdateQ, mDiscoveryQ, mTimer>>
  /\ UNCHANGED <<mUpdateState, mPaused, mStartupDone, folderVars, world>>

\* Coming back from system idle is ignored while app idle.
Back(from) ==
  /\ mIdleState = from
  /\ mIdleState' = "notIdle"
  /\ UNCHANGED <<sync, mDiscoveryQ, mUpdateQ, mPriorityQ, mUpdateState,
                 mPaused, mTimer, mStartupDone, folderVars, world>>

StartupDone ==
  /\ ~mStartupDone
  /\ mStartupDone' = TRUE
  /\ UNCHANGED <<sync, mDiscoveryQ, mUpdateQ, mPriorityQ, mUpdateState,
                 mIdleState, mPaused, mTimer, folderVars, world>>

GoOffline ==
  /\ online
  /\ Event("offline")
  /\ online' = FALSE
  /\ mPaused' = TRUE /\ mTimer' = FALSE
  /\ UNCHANGED <<sync, mDiscoveryQ, mUpdateQ, mPriorityQ, mUpdateState,
                 mIdleState, mStartupDone, folderVars, where, alive, windows>>

GoOnline ==
  /\ ~online
  /\ online' = TRUE
  /\ mPaused' = FALSE
  /\ UNCHANGED <<mUpdateQ, mDiscoveryQ>>
  /\ StartTimerIfNeeded
  /\ UNCHANGED <<sync, mPriorityQ, mUpdateState, mIdleState, mStartupDone,
                 folderVars, where, alive, windows, events>>
------------------------------------------------------------------------------
(***************************************************************************)
(* The timer: one batch of stored headers of the first folder to discover, *)
(* then the first folder to update, if none is being updated.              *)
(***************************************************************************)
\* Mutant: the batch is one header short.
FirstKeysMutant(S, n) == {m \in S : Cardinality({k \in S : k < m}) < n - 1}

FirstKeys(S, n) == {m \in S : Cardinality({k \in S : k < m}) < n}

\* A batch of the stored headers of f.  Result: [sync, queue, finished].
AfterBatch(f, left, batch, placed) ==
  LET rest == IF placed.ok THEN left \ batch ELSE left
  IN [sync |-> [placed.sync EXCEPT ![f].left = rest],
      queue |-> placed.queue, finished |-> placed.ok /\ rest = {}]

ProcessExistingHeaders(f) ==
  LET left == IF sync[f].left = {} THEN {m \in MessagesOf(f) : HasHeader(m)}
                                   ELSE sync[f].left
      batch == FirstKeys(left, HeaderBatch)
  IN AfterBatch(f, left, batch, PlaceIntoDownloadQ(f, WithoutBody(batch)))

\* What the timer leaves of sync and mPriorityQ; a deleted folder at the head
\* of mDiscoveryQ is left there.
ProcessDiscoveryQ ==
  IF mDiscoveryQ # <<>> /\ Head(mDiscoveryQ) \in alive
  THEN ProcessExistingHeaders(Head(mDiscoveryQ))
  ELSE [sync |-> sync, queue |-> mPriorityQ, finished |-> FALSE]

\* When nothing could be initiated, the folder drops out of the queue.
InitiateAutoSync(s, f) ==
  \/ /\ s[f].state = "updateNeeded"
     /\ sync' = [s EXCEPT ![f].state = "updateIssued"]
     /\ UpdateFolderWithListener(f, {f})
     /\ mUpdateState' = "initiated"
     /\ UNCHANGED <<mUpdateQ, status>>
  \/ /\ CannotUpdate
     /\ \/ sync' = s
        \/ /\ s[f].state = "updateNeeded"
           /\ sync' = [s EXCEPT ![f].state = "updateIssued"]
     /\ mUpdateQ' = Tail(mUpdateQ)
     /\ UNCHANGED <<status, mUpdateState>>
  \/ /\ s[f].state = "completedIdle"
     /\ sync' = [s EXCEPT ![f].state = "statusIssued"]
     /\ IF online
        THEN /\ status' = [status EXCEPT ![f] = status[f] + 1]
             /\ mUpdateState' = "initiated"
             /\ UNCHANGED mUpdateQ
        ELSE /\ mUpdateQ' = Tail(mUpdateQ)
             /\ UNCHANGED <<status, mUpdateState>>
     /\ UNCHANGED <<select, listening>>

\* Mutant: does not wait until the last update has ended.
ProcessUpdateQMutant(s) ==
  LET f == Head(mUpdateQ)
      idle == f \in alive /\ s[f].state \in {"completedIdle", "updateNeeded"}
  IN \/ mUpdateQ # <<>> /\ idle /\ InitiateAutoSync(s, f)
     \/ /\ ~(mUpdateQ # <<>> /\ idle)
        /\ sync' = s
        /\ mUpdateQ' = TailOf(mUpdateQ)
        /\ UNCHANGED <<mUpdateState, folderVars>>

ProcessUpdateQ(s) ==
  LET f == Head(mUpdateQ)
      idle == f \in alive /\ s[f].state \in {"completedIdle", "updateNeeded"}
  IN \/ /\ mUpdateQ = <<>> \/ mUpdateState = "initiated"
        /\ sync' = s
        /\ UNCHANGED <<mUpdateQ, mUpdateState, folderVars>>
     \/ /\ mUpdateQ # <<>> /\ mUpdateState = "completed" /\ idle
        /\ InitiateAutoSync(s, f)
     \/ /\ mUpdateQ # <<>> /\ mUpdateState = "completed" /\ ~idle
        /\ sync' = s
        /\ mUpdateQ' = Tail(mUpdateQ)
        /\ UNCHANGED <<mUpdateState, folderVars>>

\* The callback goes on even when it has just stopped the timer.
TimerCallback ==
  /\ mTimer
  /\ mDiscoveryQ # <<>> => MayLookAt(Head(mDiscoveryQ))
  /\ UNCHANGED <<mIdleState, mPaused, mStartupDone, world>>
  /\ mTimer' = (mIdleState # "notIdle" /\ (mDiscoveryQ # <<>> \/ mUpdateQ # <<>>))
  /\ \E looked \in {ProcessDiscoveryQ} :
       /\ mPriorityQ' = looked.queue
       /\ mDiscoveryQ' = IF looked.finished THEN Tail(mDiscoveryQ) ELSE mDiscoveryQ
       /\ ProcessUpdateQ(looked.sync)
------------------------------------------------------------------------------
(***************************************************************************)
(* The update URL of a folder.                                             *)
(***************************************************************************)
HeaderParsed(m) ==
  /\ select[Home[m]] = "running" /\ online
  /\ where[m] = "server"
  /\ where' = [where EXCEPT ![m] = "header"]
  /\ UNCHANGED <<sync, manager, folderVars, online, alive, windows, events>>

\* The bodies that are missing are handed to auto-sync, or fetched by this URL
\* (NotifyBodysToDownload); then auto-sync is not told.
HeaderFetchCompleted(f) ==
  /\ select[f] = "running" /\ online
  /\ \A m \in MessagesOf(f) : where[m] # "server"
  /\ MayLookAt(f)
  /\ \/ /\ select' = [select EXCEPT ![f] = "fetched"]
        /\ \E placed \in {PlaceIntoDownloadQ(f, WithoutBody(MessagesOf(f)))} :
             /\ sync' = placed.sync
             /\ mPriorityQ' = placed.queue
     \/ /\ "direct" \in Behaviours /\ WithoutBody(MessagesOf(f)) # {}
        /\ select' = [select EXCEPT ![f] = "bodies"]
        /\ UNCHANGED <<sync, mPriorityQ>>
  /\ UNCHANGED <<mDiscoveryQ, mUpdateQ, mUpdateState, mIdleState, mPaused,
                 mTimer, mStartupDone, status, listening, world>>

\* nsImapMailFolder::OnStopRunningUrl gives up the semaphore of the folder,
\* whoever acquired it, and tells the manager if it listens.
SelectStops(f) ==
  /\ \/ select[f] \in {"fetched", "bodies"} /\ UNCHANGED events
     \/ select[f] = "running" /\ Failure("updateFails")
  /\ select' = [select EXCEPT ![f] = "none"]
  /\ sync' = [sync EXCEPT ![f].locked = FALSE]
  /\ listening' = listening \ {f}
  /\ IF f \in listening THEN UpdateEnded ELSE UNCHANGED <<mUpdateState, mUpdateQ>>
  /\ UNCHANGED <<mDiscoveryQ, mPriorityQ, mIdleState, mPaused, mTimer,
                 mStartupDone, status, where, online, alive, windows>>
------------------------------------------------------------------------------
(***************************************************************************)
(* The ends of STATUS requests and of fetches: both come to                *)
(* nsAutoSyncState::OnStopRunningUrl, which tells them apart by the state. *)
(***************************************************************************)
NextToDownload(q, f) ==
  LET siblings == {i \in DOMAIN q : q[i] # f /\ IsSibling(f, q[i])}
      ahead == {i \in siblings : \E j \in DOMAIN q : q[j] = f /\ i < j}
  IN IF Chained /\ ahead # {} THEN q[Min(ahead)] ELSE f

OnDownloadFailed(f, r) ==
  LET s == [sync EXCEPT ![f] = TryCurrentGroupAgain(r)] IN
  /\ sync' = IF mIdleState # "notIdle" THEN DownloadChained(s, mPriorityQ, f)
                                       ELSE s
  /\ UNCHANGED mPriorityQ

OnGroupDownloaded(f, r) ==
  LET s == [sync EXCEPT ![f] = [r EXCEPT !.state = "readyToDownload",
                                         !.retries = 0]]
  IN /\ r.pending # {}
     /\ sync' = IF mIdleState # "notIdle"
                THEN DownloadChained(s, mPriorityQ, NextToDownload(mPriorityQ, f))
                ELSE s
     /\ UNCHANGED mPriorityQ

\* Mutant: the folder at the head of the queue is removed, as in UpdateEnded.
OnFolderDownloadedMutant(f, r) ==
  /\ r.pending = {}
  /\ mPriorityQ' = TailOf(mPriorityQ)
  /\ sync' = [sync EXCEPT ![f] = SetCompletedIdle([r EXCEPT !.retries = 0])]

OnFolderDownloaded(f, r) ==
  LET s == [sync EXCEPT ![f] = SetCompletedIdle([r EXCEPT !.retries = 0])]
      siblings == {i \in DOMAIN mPriorityQ' :
                     mPriorityQ'[i] # f /\ IsSibling(f, mPriorityQ'[i])}
  IN /\ r.pending = {}
     /\ mPriorityQ' = Without(mPriorityQ, {f})
     /\ sync' = IF Chained /\ siblings # {} /\ mIdleState # "notIdle"
                THEN DownloadChained(s, mPriorityQ', mPriorityQ'[Min(siblings)])
                ELSE s

OnStopRunningUrl(f, ok, changed, r) ==
  \/ /\ r.state = "statusIssued" /\ changed
     /\ sync' = [sync EXCEPT ![f] = [r EXCEPT !.state = "updateIssued"]]
     /\ UpdateFolder(f, {f})
     /\ UNCHANGED <<mPriorityQ, mUpdateQ, mUpdateState>>
  \/ /\ r.state = "statusIssued" /\ ~changed
     /\ sync' = [sync EXCEPT ![f] = SetCompletedIdle(r)]
     /\ UpdateEnded
     /\ UNCHANGED <<mPriorityQ, select, listening>>
  \/ /\ r.state # "statusIssued"
     /\ LET unlocked == [r EXCEPT !.locked = FALSE] IN
        \/ ok /\ OnGroupDownloaded(f, unlocked)
        \/ ok /\ OnFolderDownloaded(f, unlocked)
        \/ ~ok /\ OnDownloadFailed(f, unlocked)
     /\ UNCHANGED <<mUpdateQ, mUpdateState, select, listening>>

\* The counts change when there are new messages; they may change for less.
StatusStops(f, ok, changed) ==
  LET news == \E m \in MessagesOf(f) : where[m] = "server" IN
  /\ status[f] > 0
  /\ status' = [status EXCEPT ![f] = status[f] - 1]
  /\ \/ ~ok /\ ~changed /\ Failure("statusFails")
     \/ ok /\ online /\ changed = news /\ UNCHANGED events
     \/ ok /\ online /\ changed /\ ~news /\ Event("noNews")
  /\ OnStopRunningUrl(f, ok, changed, sync[f])
  /\ UNCHANGED <<mDiscoveryQ, mIdleState, mPaused, mTimer, mStartupDone,
                 where, online, alive, windows>>

BodyStored(f, m) ==
  /\ online /\ where[m] = "header"
  /\ \/ select[f] = "bodies"
     \/ sync[f].fetches # <<>> /\ m \in Head(sync[f].fetches)
  /\ where' = [where EXCEPT ![m] = "offline"]
  /\ UNCHANGED <<sync, manager, folderVars, online, alive, windows, events>>

\* URLs of a folder run on one connection, in order.
DownloadStops(f, ok) ==
  /\ sync[f].fetches # <<>>
  /\ \/ /\ ok /\ online /\ UNCHANGED events
        /\ \A m \in Head(sync[f].fetches) : where[m] # "header"
     \/ ~ok /\ Failure("failures")
  /\ OnStopRunningUrl(f, ok, sync[f].state = "statusIssued" /\
                             \E m \in MessagesOf(f) : where[m] = "server",
                      [sync[f] EXCEPT !.fetches = Tail(sync[f].fetches)])
  /\ UNCHANGED <<mDiscoveryQ, mIdleState, mPaused, mTimer, mStartupDone,
                 status, where, online, alive, windows>>
------------------------------------------------------------------------------
(***************************************************************************)
(* The server and the user.                                                *)
(***************************************************************************)
MessageArrives(m) ==
  /\ where[m] = "future" /\ Home[m] \in alive
  /\ where' = [where EXCEPT ![m] = "server"]
  /\ UNCHANGED <<sync, manager, folderVars, online, alive, windows, events>>

MessageDeleted(m) ==
  /\ HasHeader(m)
  /\ Event("deletions")
  /\ where' = [where EXCEPT ![m] = "deleted"]
  /\ UNCHANGED <<sync, manager, folderVars, online, alive, windows>>

UserOpens(f) ==
  /\ f \in alive
  /\ Event("opens")
  /\ windows' = windows \cup {f}
  /\ UpdateFolder(f, {})
  /\ UNCHANGED <<sync, manager, status, where, online, alive>>

UserCloses(f) ==
  /\ f \in windows
  /\ windows' = windows \ {f}
  /\ UNCHANGED <<sync, manager, folderVars, where, online, alive, events>>

\* A message is moved into f: OnFolderHasPendingMsgs.
OnFolderHasPendingMsgs(f, m) ==
  /\ Home[m] = f /\ where[m] = "future" /\ f \in alive
  /\ Event("moves")
  /\ where' = [where EXCEPT ![m] = "server"]
  /\ Kind[f] # "trash" /\ ~Contains(mUpdateQ, f)
  /\ mUpdateQ' = IF Kind[f] = "sent" THEN <<f>> \o mUpdateQ
                                     ELSE Append(mUpdateQ, f)
  /\ sync' = [sync EXCEPT ![f].state = "updateNeeded"]
  /\ UNCHANGED <<mDiscoveryQ, mPriorityQ, mUpdateState, mIdleState, mPaused,
                 mTimer, mStartupDone, folderVars, online, alive, windows>>

\* The folder object goes once no URL holds it.
FolderDeleted(f) ==
  /\ f \in alive
  /\ status[f] = 0 /\ select[f] = "none" /\ sync[f].fetches = <<>>
  /\ Event("removals")
  /\ alive' = alive \ {f}
  /\ where' = [m \in Messages |-> IF Home[m] = f THEN "deleted" ELSE where[m]]
  /\ UNCHANGED <<sync, manager, folderVars, online, windows>>
------------------------------------------------------------------------------
Idle == AppIdle \/ SystemIdle
UserBack == Back("appIdle") \/ Back("systemIdle")

UrlProgress(f) ==
  \/ HeaderFetchCompleted(f) \/ SelectStops(f)
  \/ \E m \in MessagesOf(f) : HeaderParsed(m) \/ BodyStored(f, m)
  \/ \E ok, changed \in BOOLEAN : StatusStops(f, ok, changed)
  \/ \E ok \in BOOLEAN : DownloadStops(f, ok)

Surroundings ==
  \/ GoOffline
  \/ \E m \in Messages : MessageArrives(m) \/ MessageDeleted(m)
  \/ \E f \in Folders : UserOpens(f) \/ UserCloses(f) \/ FolderDeleted(f)
  \/ \E m \in Messages : OnFolderHasPendingMsgs(Home[m], m)

Next ==
  \/ Idle \/ UserBack \/ StartupDone \/ GoOnline
  \/ TimerCallback
  \/ \E f \in Folders : UrlProgress(f)
  \/ Surroundings

Spec == Init /\ [][Next]_vars
------------------------------------------------------------------------------
(***************************************************************************)
(* Fairness: every URL ends, the timer fires, and the user leaves and      *)
(* comes back again and again.  Mail, deletions and network loss have      *)
(* none; a client that is offline goes online again.                       *)
(***************************************************************************)
UpdateProgress(f) ==
  \/ HeaderFetchCompleted(f) \/ SelectStops(f)
  \/ \E m \in MessagesOf(f) : HeaderParsed(m)

FetchProgress(f) ==
  \/ \E m \in MessagesOf(f) : BodyStored(f, m)
  \/ \E ok \in BOOLEAN : DownloadStops(f, ok)

StatusProgress(f) == \E ok, changed \in BOOLEAN : StatusStops(f, ok, changed)

Fairness ==
  /\ WF_vars(TimerCallback) /\ WF_vars(StartupDone) /\ WF_vars(GoOnline)
  /\ WF_vars(Idle) /\ WF_vars(UserBack)
  /\ \A f \in Folders : /\ WF_vars(UpdateProgress(f))
                        /\ WF_vars(FetchProgress(f))
                        /\ WF_vars(StatusProgress(f))

FairSpec == Spec /\ Fairness
------------------------------------------------------------------------------
(***************************************************************************)
(* Properties.                                                             *)
(***************************************************************************)

\* In the chained model one group at a time is fetched from a server.
OneGroupPerServer ==
  Chained => \A f, g \in Folders :
               /\ Len(sync[f].fetches) <= 1
               /\ f # g /\ ServerOf[f] = ServerOf[g]
                  => sync[f].fetches = <<>> \/ sync[g].fetches = <<>>

\* One folder at a time is checked for new messages and updated.
OneUpdateAtATime ==
  Cardinality(listening \cup {f \in Folders : status[f] > 0}) <= 1

\* A body that is still missing is never passed in the download queue without
\* having been asked for, unless it is over the limit for a user who is there:
\* asking for that is refused, again and again until the retries are used up.
\* All that is queued behind such a message is still asked for.
NothingSkippedUntried ==
  \A f \in Folders : \A m \in sync[f].done \cup sync[f].current :
    where[m] = "header" /\ Size[m] \in 1..FirstGroupSizeLimit
      => m \in sync[f].tried

\* A folder that waits for its bodies or gets them is in the priority queue,
\* where OnDownloadCompleted and the next idle notice find it.
ReadyIsScheduled ==
  \A f \in alive :
    sync[f].state \in {"readyToDownload", "downloadInProgress"}
      => Contains(mPriorityQ, f)

\* The semaphore of a folder is held for a fetch that runs.
LockedOnlyWhileFetching ==
  \A f \in Folders : sync[f].locked => sync[f].fetches # <<>>

\* The state of a folder tells whether it is fetching: ChainFoldersInQ and
\* DoesQContainAnySiblingOf look at nothing else.
BusyIsFetching ==
  \A f \in Folders :
    sync[f].state = "downloadInProgress" <=> sync[f].fetches # <<>>

\* The messages of a group that failed are asked for again, at once or later,
\* until the retries are used up.
SameGroupAgain ==
  [][\A f \in Folders :
       DownloadStops(f, FALSE) /\ sync[f].retries < GroupRetryCount
         => \A m \in Head(sync[f].fetches) :
              where[m] = "header" =>
                \/ m \in sync'[f].pending
                \/ \E i \in DOMAIN sync'[f].fetches : m \in sync'[f].fetches[i]]_vars

\* A folder that needs an update because messages were moved into it is in the
\* update queue.
PendingFolderQueued ==
  \A f \in alive : sync[f].state = "updateNeeded" => Contains(mUpdateQ, f)

\* The update queue moves on: the update that was initiated ends.
UpdateEnds == (mUpdateState = "initiated") ~> (mUpdateState = "completed")

\* An update that brought no headers leaves its folder in stUpdateIssued, which
\* only a message found by discovery ends.
LeftInUpdate(f) == sync[f].state = "updateIssued" /\ select[f] = "none"

\* Every message that arrives has its body stored in the end, unless an update
\* without new headers takes its folder out of the circulation.
EveryBodyStored ==
  \A m \in Messages :
    (where[m] \in {"server", "header"} /\ Size[m] > 0)
      ~> \/ where[m] \in {"offline", "deleted"}
         \/ LeftInUpdate(Home[m])

\* A message whose header is known gets its body: discovery finds it again and
\* again until it has.
EveryHeaderGetsBody ==
  \A m \in Messages :
    (where[m] = "header" /\ Size[m] > 0) ~> (where[m] \in {"offline", "deleted"})

\* The discovery queue moves on.
DiscoveryGoesOn ==
  \A f \in Folders :
    (f \in alive /\ Contains(mDiscoveryQ, f))
      ~> (f \notin alive \/ ~Contains(mDiscoveryQ, f))

\* What holds whatever happens: a key is in the download queue of its own folder
\* and there once, in one of the three parts.
DownloadQWellFormed ==
  \A f \in Folders :
    /\ sync[f].done \cup sync[f].current \cup sync[f].pending \subseteq MessagesOf(f)
    /\ sync[f].done \cap sync[f].current = {}
    /\ (sync[f].done \cup sync[f].current) \cap sync[f].pending = {}
===============================================================================
