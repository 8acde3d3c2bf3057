---------------------------- MODULE AutoSyncProofs ----------------------------
(***************************************************************************)
(* Proofs about AutoSync, for all folders, messages, group sizes, download *)
(* models and behaviours.                                                  *)
(*                                                                         *)
(* The download queue of a folder is changed by few operators on its       *)
(* record, each of which keeps it well formed; the rest of a step chooses  *)
(* which folders they are applied to.  Nothing is needed of the queues of  *)
(* the manager: whatever they hold, only records of folders change.        *)
(***************************************************************************)
EXTENDS AutoSync, TLAPS

\* The record of a folder that only knows the messages of S.
FolderRecord(S) ==
  [state: SyncStates, done: SUBSET S, current: SUBSET S, pending: SUBSET S,
   changed: BOOLEAN, retries: 0..GroupRetryCount, left: SUBSET S,
   locked: BOOLEAN, fetches: Seq(SUBSET S), tried: SUBSET S]

\* A key is in one part of the download queue.
QueueOver(S, r) ==
  /\ r \in FolderRecord(S)
  /\ r.done \cap r.current = {}
  /\ (r.done \cup r.current) \cap r.pending = {}

\* s maps every folder to such a record.
SyncOK(s) ==
  /\ DOMAIN s = Folders
  /\ s = [f \in Folders |-> s[f]]
  /\ \A f \in Folders : QueueOver(MessagesOf(f), s[f])

IInv == SyncOK(sync) /\ alive \subseteq Folders
------------------------------------------------------------------------------
(***************************************************************************)
(* Operators on the record of one folder.                                  *)
(***************************************************************************)
LEMMA NextGroupSubset ==
  ASSUME NEW S, NEW W \in SUBSET S
  PROVE  NextGroup(Fetchable(W)) \subseteq S
  BY DEF NextGroup, Fetchable

LEMMA PassedSubset ==
  ASSUME NEW S, NEW W
  PROVE  Passed(S, W) \subseteq S
  BY DEF Passed, UpTo

LEMMA MoveOffsetsOK ==
  ASSUME NEW S, NEW r, QueueOver(S, r), NEW passed \in SUBSET r.pending
  PROVE  QueueOver(S, MoveOffsets(r, passed))
  BY DEF MoveOffsets, QueueOver, FolderRecord

LEMMA GetNextGroupOK ==
  ASSUME NEW S, NEW r, QueueOver(S, r)
  PROVE  QueueOver(S, GetNextGroupOfMessages(r))
  BY PassedSubset, MoveOffsetsOK DEF GetNextGroupOfMessages

LEMMA SetCompletedIdleOK ==
  ASSUME NEW S, NEW r, QueueOver(S, r)
  PROVE  QueueOver(S, SetCompletedIdle(r))
  BY DEF SetCompletedIdle, QueueOver, FolderRecord, SyncStates

LEMMA TryCurrentGroupAgainOK ==
  ASSUME NEW S, NEW r, QueueOver(S, r)
  PROVE  QueueOver(S, TryCurrentGroupAgain(r))
  <1>1. GroupRetryCount \in Nat /\ r.retries \in 0..GroupRetryCount
    BY ConstantsAssumption DEF ConstantsAssumption, QueueOver, FolderRecord
  <1>2. CASE r.retries + 1 > GroupRetryCount
    <2>1. 0 \in 0..GroupRetryCount
      BY <1>1
    <2>2. QED
      BY <1>2, <2>1
      DEF TryCurrentGroupAgain, QueueOver, FolderRecord, SyncStates
  <1>3. CASE ~(r.retries + 1 > GroupRetryCount)
    <2>1. r.retries + 1 \in 0..GroupRetryCount
      BY <1>1, <1>3
    <2>2. QED
      BY <1>3, <2>1
      DEF TryCurrentGroupAgain, QueueOver, FolderRecord, SyncStates
  <1>4. QED
    BY <1>2, <1>3

\* The request leaves one of four records behind.
LEMMA RequestGroupOK ==
  ASSUME NEW S, NEW r, QueueOver(S, r), NEW next, QueueOver(S, next),
         NEW group \in SUBSET S, NEW f, NEW limit
  PROVE  QueueOver(S, RequestGroup(f, r, limit, group, next).state)
  <1> DEFINE locked == [next EXCEPT !.locked = TRUE]
             fetching ==
               [next EXCEPT !.locked = TRUE, !.state = "downloadInProgress",
                            !.fetches = Append(r.fetches, group),
                            !.tried = r.tried \cup group]
  <1>1. RequestGroup(f, r, limit, group, next).state
          \in {r, next, locked, fetching}
    BY DEF RequestGroup
  <1>2. QueueOver(S, locked)
    BY DEF QueueOver, FolderRecord
  <1>3. QueueOver(S, fetching)
    <2>1. Append(r.fetches, group) \in Seq(SUBSET S)
      BY DEF QueueOver, FolderRecord
    <2>2. QED
      BY <2>1 DEF QueueOver, FolderRecord, SyncStates
  <1>4. QED
    BY <1>1, <1>2, <1>3

LEMMA DownloadOK ==
  ASSUME NEW S, NEW r, QueueOver(S, r), NEW f, NEW limit
  PROVE  QueueOver(S, DownloadMessagesForOffline(f, r, limit).state)
  <1>1. r.pending \subseteq S
    BY DEF QueueOver, FolderRecord
  <1>2. QED
    BY <1>1, NextGroupSubset, GetNextGroupOK, RequestGroupOK
    DEF DownloadMessagesForOffline

LEMMA RecoveredOK ==
  ASSUME NEW S, NEW answer, QueueOver(S, answer.state)
  PROVE  QueueOver(S, Recovered(answer))
  BY TryCurrentGroupAgainOK DEF Recovered
------------------------------------------------------------------------------
(***************************************************************************)
(* Operators on the records of all folders.                                *)
(***************************************************************************)
LEMMA DownloadChainedOK ==
  ASSUME NEW s, SyncOK(s), NEW q, NEW f
  PROVE  SyncOK(DownloadChained(s, q, f))
  <1> DEFINE answers == [g \in Folders |-> DownloadMessagesForOffline(g, s[g], 0)]
  <1>1. ASSUME NEW g \in Folders
        PROVE  QueueOver(MessagesOf(g), Recovered(answers[g]))
    BY DownloadOK, RecoveredOK DEF SyncOK
  <1> HIDE DEF answers
  <1>2. SyncOK(AskInTurn(s, q, f, answers))
    BY <1>1 DEF AskInTurn, SyncOK
  <1>3. QED
    BY <1>2 DEF DownloadChained, answers

LEMMA ExceptOK ==
  ASSUME NEW s, SyncOK(s), NEW f \in Folders, NEW r, QueueOver(MessagesOf(f), r)
  PROVE  SyncOK([s EXCEPT ![f] = r])
  BY DEF SyncOK

LEMMA StateOK ==
  ASSUME NEW S, NEW r, QueueOver(S, r), NEW state \in SyncStates
  PROVE  QueueOver(S, [r EXCEPT !.state = state])
  BY DEF QueueOver, FolderRecord

LEMMA FirstGroupAskedOK ==
  ASSUME NEW s, SyncOK(s), NEW f \in Folders, NEW q, NEW answer,
         QueueOver(MessagesOf(f), answer.state)
  PROVE  SyncOK(FirstGroupAsked(s, q, f, answer).sync)
  BY ExceptOK, TryCurrentGroupAgainOK DEF FirstGroupAsked

LEMMA OnDownloadQChangedOK ==
  ASSUME NEW s, SyncOK(s), NEW f \in Folders, NEW q
  PROVE  SyncOK(OnDownloadQChanged(s, q, f).sync)
  <1> DEFINE ready == [s EXCEPT ![f].state = "readyToDownload"]
             scheduled == ScheduleFolderForOfflineDownload(q, f)
  <1>1. SyncOK(ready)
    <2>1. QueueOver(MessagesOf(f), [s[f] EXCEPT !.state = "readyToDownload"])
      BY StateOK DEF SyncOK, SyncStates
    <2>2. QED
      BY <2>1, ExceptOK
  <1> HIDE DEF ready, scheduled
  <1>2. SyncOK(AskForFirstGroup(ready, scheduled, f).sync)
    <2>1. ASSUME NEW limit
          PROVE  QueueOver(MessagesOf(f),
                           DownloadMessagesForOffline(f, ready[f], limit).state)
      BY <1>1, DownloadOK DEF SyncOK
    <2>2. QED
      BY <1>1, <2>1, FirstGroupAskedOK DEF AskForFirstGroup
  <1>3. QED
    BY <1>2 DEF OnDownloadQChanged, ready, scheduled

\* Keys that are in no part yet are added to the pending ones.
LEMMA PlaceIntoDownloadQOK ==
  ASSUME SyncOK(sync), NEW f \in Folders, NEW keys \in SUBSET MessagesOf(f)
  PROVE  SyncOK(PlaceIntoDownloadQ(f, keys).sync)
  <1> DEFINE new == {m \in keys : where[m] = "header"}
                      \ (sync[f].done \cup sync[f].current \cup sync[f].pending)
             changed == sync[f].changed \/ new # {}
             placed == [sync[f] EXCEPT !.pending = sync[f].pending \cup new,
                                       !.changed = changed]
             s == [sync EXCEPT ![f].pending = sync[f].pending \cup new,
                               ![f].changed = changed]
  <1>1. QueueOver(MessagesOf(f), placed)
    <2>1. /\ new \subseteq MessagesOf(f)
          /\ new \cap (sync[f].done \cup sync[f].current) = {}
      OBVIOUS
    <2>2. changed \in BOOLEAN
      BY DEF SyncOK, QueueOver, FolderRecord
    <2> HIDE DEF new, changed
    <2>3. QueueOver(MessagesOf(f), sync[f])
      BY DEF SyncOK
    <2>4. QED
      BY <2>1, <2>2, <2>3 DEF QueueOver, FolderRecord
  <1>2. s = [sync EXCEPT ![f] = placed]
    BY DEF SyncOK
  <1>3. SyncOK(s)
    BY <1>1, <1>2, ExceptOK
  <1>4. PlaceIntoDownloadQ(f, keys).sync
          \in {s, OnDownloadQChanged(s, mPriorityQ, f).sync}
    BY DEF PlaceIntoDownloadQ
  <1> HIDE DEF s
  <1>5. QED
    BY <1>3, <1>4, OnDownloadQChangedOK
LEMMA ProcessExistingHeadersOK ==
  ASSUME SyncOK(sync), NEW f \in Folders
  PROVE  SyncOK(ProcessExistingHeaders(f).sync)
  <1> DEFINE left == IF sync[f].left = {} THEN {m \in MessagesOf(f) : HasHeader(m)}
                                          ELSE sync[f].left
             batch == FirstKeys(left, HeaderBatch)
             placed == PlaceIntoDownloadQ(f, WithoutBody(batch))
             rest == IF placed.ok THEN left \ batch ELSE left
  <1>1. left \subseteq MessagesOf(f)
    BY DEF SyncOK, QueueOver, FolderRecord
  <1> HIDE DEF left
  <1>2. WithoutBody(batch) \subseteq MessagesOf(f)
    BY <1>1 DEF WithoutBody, FirstKeys
  <1>3. SyncOK(placed.sync)
    BY <1>2, PlaceIntoDownloadQOK
  <1> HIDE DEF placed, batch
  <1>4. rest \subseteq MessagesOf(f)
    BY <1>1
  <1> HIDE DEF rest
  <1>5. SyncOK([placed.sync EXCEPT ![f].left = rest])
    <2>1. QueueOver(MessagesOf(f), [placed.sync[f] EXCEPT !.left = rest])
      BY <1>3, <1>4 DEF SyncOK, QueueOver, FolderRecord
    <2>2. QED
      BY <2>1, <1>3, ExceptOK
  <1>6. ProcessExistingHeaders(f).sync = [placed.sync EXCEPT ![f].left = rest]
    BY DEF ProcessExistingHeaders, AfterBatch, rest, placed, batch, left
  <1>7. QED
    BY <1>5, <1>6
------------------------------------------------------------------------------
(***************************************************************************)
(* Every step keeps the records of all folders well formed.                *)
(***************************************************************************)
LEMMA InitOK == Init => IInv
  <1> SUFFICES ASSUME Init PROVE IInv
    OBVIOUS
  <1>1. 0 \in 0..GroupRetryCount
    BY ConstantsAssumption DEF ConstantsAssumption
  <1>2. ASSUME NEW f \in Folders
        PROVE  QueueOver(MessagesOf(f), sync[f])
    BY <1>1 DEF Init, QueueOver, FolderRecord, SyncStates
  <1>3. QED
    BY <1>2 DEF IInv, SyncOK, Init

LEMMA ProcessPriorityQOK ==
  ASSUME SyncOK(sync), ProcessPriorityQ
  PROVE  SyncOK(sync')
  <1>1. ASSUME NEW g \in Folders, NEW dropped
        PROVE  QueueOver(MessagesOf(g), Drop(Resumed(g), dropped))
    <2>1. QueueOver(MessagesOf(g), Resumed(g))
      BY DownloadChainedOK DEF Resumed, SyncOK
    <2>2. QED
      BY <2>1, SetCompletedIdleOK DEF Drop
  <1>2. sync' = [g \in Folders |-> Drop(Resumed(g), g \in NothingToFetch)]
    BY DEF ProcessPriorityQ
  <1>3. QED
    BY <1>1, <1>2 DEF SyncOK

LEMMA IdleOK ==
  ASSUME SyncOK(sync), Idle
  PROVE  SyncOK(sync')
  BY ProcessPriorityQOK DEF Idle, AppIdle, SystemIdle, StartIdleProcessing

LEMMA InitiateAutoSyncOK ==
  ASSUME NEW s, SyncOK(s), NEW f \in Folders, InitiateAutoSync(s, f)
  PROVE  SyncOK(sync')
  <1>1. ASSUME NEW state \in SyncStates
        PROVE  SyncOK([s EXCEPT ![f].state = state])
    <2>1. QueueOver(MessagesOf(f), [s[f] EXCEPT !.state = state])
      BY StateOK DEF SyncOK
    <2>2. QED
      BY <2>1, ExceptOK
  <1>2. sync' = [s EXCEPT ![f].state = "updateIssued"]
          \/ sync' = [s EXCEPT ![f].state = "statusIssued"]
          \/ sync' = s
    BY DEF InitiateAutoSync
  <1>3. QED
    BY <1>1, <1>2 DEF SyncStates

LEMMA TimerCallbackOK ==
  ASSUME IInv, TimerCallback
  PROVE  SyncOK(sync')
  <1> DEFINE s == ProcessDiscoveryQ.sync
  <1>1. SyncOK(s)
    BY ProcessExistingHeadersOK DEF ProcessDiscoveryQ, IInv
  <1>2. ProcessUpdateQ(s)
    BY DEF TimerCallback
  <1> HIDE DEF s
  <1>3. CASE sync' = s
    BY <1>1, <1>3
  <1>4. CASE Head(mUpdateQ) \in alive /\ InitiateAutoSync(s, Head(mUpdateQ))
    BY <1>1, <1>4, InitiateAutoSyncOK DEF IInv
  <1>5. QED
    BY <1>2, <1>3, <1>4 DEF ProcessUpdateQ

LEMMA OnStopRunningUrlOK ==
  ASSUME SyncOK(sync), NEW f \in Folders, NEW ok, NEW changed,
         NEW r, QueueOver(MessagesOf(f), r), OnStopRunningUrl(f, ok, changed, r)
  PROVE  SyncOK(sync')
  <1> DEFINE unlocked == [r EXCEPT !.locked = FALSE]
  <1>1. QueueOver(MessagesOf(f), unlocked)
    BY DEF QueueOver, FolderRecord
  <1>2. QueueOver(MessagesOf(f), [unlocked EXCEPT !.retries = 0])
    <2>1. 0 \in 0..GroupRetryCount
      BY ConstantsAssumption DEF ConstantsAssumption
    <2>2. QED
      BY <1>1, <2>1 DEF QueueOver, FolderRecord
  <1>3. QueueOver(MessagesOf(f), [unlocked EXCEPT !.state = "readyToDownload",
                                                  !.retries = 0])
    <2>1. 0 \in 0..GroupRetryCount
      BY ConstantsAssumption DEF ConstantsAssumption
    <2>2. QED
      BY <1>1, <2>1 DEF QueueOver, FolderRecord, SyncStates
  <1> HIDE DEF unlocked
  <1>4. CASE sync' = [sync EXCEPT ![f] = [r EXCEPT !.state = "updateIssued"]]
    BY <1>4, StateOK, ExceptOK DEF SyncStates
  <1>5. CASE sync' = [sync EXCEPT ![f] = SetCompletedIdle(r)]
    BY <1>5, SetCompletedIdleOK, ExceptOK
  <1>6. CASE OnGroupDownloaded(f, unlocked)
    BY <1>3, <1>6, ExceptOK, DownloadChainedOK DEF OnGroupDownloaded
  <1>7. CASE OnFolderDownloaded(f, unlocked)
    BY <1>2, <1>7, SetCompletedIdleOK, ExceptOK, DownloadChainedOK
    DEF OnFolderDownloaded
  <1>8. CASE OnDownloadFailed(f, unlocked)
    BY <1>1, <1>8, TryCurrentGroupAgainOK, ExceptOK, DownloadChainedOK
    DEF OnDownloadFailed
  <1>9. QED
    BY <1>4, <1>5, <1>6, <1>7, <1>8 DEF OnStopRunningUrl, unlocked

LEMMA UrlProgressOK ==
  ASSUME IInv, NEW f \in Folders, UrlProgress(f)
  PROVE  SyncOK(sync')
  <1>1. QueueOver(MessagesOf(f), sync[f]) /\ SyncOK(sync)
    BY DEF IInv, SyncOK
  <1>2. CASE HeaderFetchCompleted(f)
    <2>1. WithoutBody(MessagesOf(f)) \subseteq MessagesOf(f)
      BY DEF WithoutBody
    <2>2. sync' \in {sync, PlaceIntoDownloadQ(f, WithoutBody(MessagesOf(f))).sync}
      BY <1>2 DEF HeaderFetchCompleted
    <2>3. QED
      BY <1>1, <2>1, <2>2, PlaceIntoDownloadQOK
  <1>3. CASE SelectStops(f)
    <2>1. QueueOver(MessagesOf(f), [sync[f] EXCEPT !.locked = FALSE])
      BY <1>1 DEF QueueOver, FolderRecord
    <2>2. sync' = [sync EXCEPT ![f] = [sync[f] EXCEPT !.locked = FALSE]]
      BY <1>3 DEF SelectStops
    <2>3. QED
      BY <1>1, <2>1, <2>2, ExceptOK
  <1>4. CASE \E m \in MessagesOf(f) : HeaderParsed(m) \/ BodyStored(f, m)
    BY <1>1, <1>4 DEF HeaderParsed, BodyStored
  <1>5. ASSUME NEW ok, NEW changed, StatusStops(f, ok, changed)
        PROVE  SyncOK(sync')
    BY <1>1, <1>5, OnStopRunningUrlOK DEF StatusStops
  <1>6. ASSUME NEW ok, DownloadStops(f, ok)
        PROVE  SyncOK(sync')
    <2> DEFINE r == [sync[f] EXCEPT !.fetches = Tail(sync[f].fetches)]
    <2>1. QueueOver(MessagesOf(f), r)
      <3>1. sync[f].fetches \in Seq(SUBSET MessagesOf(f))
        BY <1>1 DEF QueueOver, FolderRecord
      <3>2. sync[f].fetches # <<>>
        BY <1>6 DEF DownloadStops
      <3>3. Tail(sync[f].fetches) \in Seq(SUBSET MessagesOf(f))
        BY <3>1, <3>2
      <3>4. QED
        BY <1>1, <3>3 DEF QueueOver, FolderRecord
    <2>2. PICK changed : OnStopRunningUrl(f, ok, changed, r)
      BY <1>6 DEF DownloadStops
    <2>3. QED
      BY <1>1, <2>1, <2>2, OnStopRunningUrlOK
  <1>7. QED
    BY <1>2, <1>3, <1>4, <1>5, <1>6 DEF UrlProgress

LEMMA SurroundingsOK ==
  ASSUME IInv, Surroundings
  PROVE  SyncOK(sync') /\ alive' \subseteq Folders
  <1>1. ASSUME NEW m \in Messages, OnFolderHasPendingMsgs(Home[m], m)
        PROVE  SyncOK(sync') /\ alive' \subseteq Folders
    <2>1. Home[m] \in Folders
      BY ConstantsAssumption DEF ConstantsAssumption
    <2>2. QueueOver(MessagesOf(Home[m]),
                    [sync[Home[m]] EXCEPT !.state = "updateNeeded"])
      BY <2>1, StateOK DEF IInv, SyncOK, SyncStates
    <2>3. sync' = [sync EXCEPT ![Home[m]] =
                                 [sync[Home[m]] EXCEPT !.state = "updateNeeded"]]
      BY <1>1 DEF OnFolderHasPendingMsgs
    <2>4. alive' = alive
      BY <1>1 DEF OnFolderHasPendingMsgs
    <2>5. QED
      BY <2>1, <2>2, <2>3, <2>4, ExceptOK DEF IInv
  <1>2. CASE GoOffline \/ (\E m \in Messages : MessageArrives(m) \/ MessageDeleted(m))
             \/ \E f \in Folders : UserOpens(f) \/ UserCloses(f) \/ FolderDeleted(f)
    BY <1>2 DEF GoOffline, MessageArrives, MessageDeleted, UserOpens, UserCloses,
                FolderDeleted, IInv
  <1>3. QED
    BY <1>1, <1>2 DEF Surroundings

LEMMA NextOK == IInv /\ [Next]_vars => IInv'
  <1> SUFFICES ASSUME IInv, [Next]_vars PROVE SyncOK(sync') /\ alive' \subseteq Folders
    BY DEF IInv, SyncOK, QueueOver, MessagesOf
  <1>1. CASE Idle
    <2>1. alive' = alive
      BY <1>1 DEF Idle, AppIdle, SystemIdle, world
    <2>2. QED
      BY <1>1, <2>1, IdleOK DEF IInv
  <1>2. CASE UserBack \/ StartupDone \/ GoOnline
    BY <1>2 DEF UserBack, Back, StartupDone, GoOnline, world, IInv
  <1>3. CASE TimerCallback
    <2>1. alive' = alive
      BY <1>3 DEF TimerCallback, world
    <2>2. QED
      BY <1>3, <2>1, TimerCallbackOK DEF IInv
  <1>4. ASSUME NEW f \in Folders, UrlProgress(f)
        PROVE  SyncOK(sync') /\ alive' \subseteq Folders
    <2>1. alive' = alive
      BY <1>4 DEF UrlProgress, HeaderFetchCompleted, SelectStops, HeaderParsed,
                  BodyStored, StatusStops, DownloadStops, world
    <2>2. QED
      BY <1>4, <2>1, UrlProgressOK DEF IInv
  <1>5. CASE Surroundings
    BY <1>5, SurroundingsOK
  <1>6. CASE UNCHANGED vars
    BY <1>6 DEF vars, world, IInv
  <1>7. QED
    BY <1>1, <1>2, <1>3, <1>4, <1>5, <1>6 DEF Next

\* DownloadQWellFormed holds in every reachable state: GetNextGroupOfMessages,
\* Rollback and PlaceIntoDownloadQ never put a key into the download queue of
\* a folder a second time, or into that of another folder, whatever fails and
\* whichever callbacks overlap.
THEOREM DownloadQueuesWellFormed == Spec => []DownloadQWellFormed
  <1>1. IInv => DownloadQWellFormed
    BY DEF IInv, SyncOK, QueueOver, FolderRecord, DownloadQWellFormed
  <1>2. QED
    BY InitOK, NextOK, <1>1, PTL DEF Spec
===============================================================================
